---------------------------- MODULE MCQueryFetch ----------------------------
(***************************************************************************)
(* QueryFetch on small instances, in two scenes: one query, with every mix *)
(* of a budget and a signal, or two that share one signal.  The queries    *)
(* are interchangeable, so q1 is the one that is asked first.  A POST, a   *)
(* statement, a DELETE or the client fails only when its query is alone.   *)
(***************************************************************************)
EXTENDS QueryFetch

CONSTANTS q1, q2

InScene ==
  \/ pc[q2] = "new"
  \/ /\ mode = [q \in Queries |-> {"cancel"}]
     /\ \A q \in Queries : ~lost[q] /\ stmt[q] \notin {"rejected", "failed"} /\ got[q] # "gaveUp"

\* The query that is alone has ended.
AloneFinished ==
  /\ pc[q1] = "ended" /\ pc[q2] = "new"
  /\ \A w \in Helpers : helper[q1][w] \notin Working
  /\ canceller \in {"waited", "raised"}
  /\ UNCHANGED vars

MCNext == (Next \/ AloneFinished) /\ InScene'
MCSpec == Init /\ [][MCNext]_vars /\ Fairness

=============================================================================
