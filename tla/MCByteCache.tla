---------------------------- MODULE MCByteCache ----------------------------
(***************************************************************************)
(* ByteCache on small instances, in two scenes.  "calls": three calls for  *)
(* two keys, enough for a leader left behind, the leader that replaced it  *)
(* and a waiter, and nothing kept, as every value is larger than the       *)
(* cache.  "store": two calls for three keys of two sources, with values   *)
(* that fit together, fill the cache and pass its bound; one of them, of   *)
(* two keys, may be cancelled and abandoned, and then keep over what the   *)
(* other kept before.                                                      *)
(***************************************************************************)
EXTENDS ByteCache

CONSTANTS k1, k2, k3, g1, g2, t1, t2, t3

VARIABLE scene

MCGroupOf == [k \in Keys |-> IF k = k1 THEN g1 ELSE g2]

InScene ==
  \/ scene = "calls" /\ k3 \notin UNION {asked[t] : t \in Tasks} /\ DOMAIN store.entries = {}
  \/ /\ scene = "store" /\ pc[t3] = "idle" /\ ~cancelling[t2]
     /\ cancelling[t1] => k3 \notin asked[t1] \cup asked[t2]

\* The two calls of the store have ended.
StoreFinished == scene = "store" /\ pc[t1] \in Ended /\ pc[t2] \in Ended /\ UNCHANGED vars

MCInit == Init /\ scene \in {"calls", "store"}
MCNext == (Next \/ StoreFinished) /\ UNCHANGED scene /\ InScene'
MCSpec == MCInit /\ [][MCNext]_<<vars, scene>> /\ Fairness

=============================================================================
