------------------------------ MODULE ByteCache ------------------------------
(***************************************************************************)
(* The shared cache of what the context sources returned                   *)
(* (akko_mcp_trino/context/caches.py, class ByteCache): entries bounded in *)
(* bytes, and reads shared between callers, so that one read of a key      *)
(* serves everyone who asked for it meanwhile.                             *)
(*                                                                         *)
(* The cache is used from one event loop, so an action is what one task    *)
(* runs between two awaits.  A task is one call of load_many.  The future  *)
(* a leader creates for a key is named by the pair (leader, key): LeadOnce *)
(* below is what makes that name unique.  A value is abstracted to its     *)
(* serialized size, a clock to the moment an entry passes its expiry, and  *)
(* the caller's order of the keys to any order.                            *)
(***************************************************************************)
EXTENDS Integers, FiniteSets, Sequences, SequencesExt

CONSTANTS
  Tasks,      \* the calls of load_many, each run by a task of its own
  Keys,       \* what can be asked
  Groups,     \* the context sources that share the cache
  GroupOf,    \* the source a key belongs to
  Sizes,      \* the serialized sizes a read may return
  MaxBytes,   \* the bound of the cache
  NoTask,     \* no leader
  NoKey       \* no key awaited

ASSUME CacheAssumption ==
  /\ GroupOf \in [Keys -> Groups]
  /\ Sizes \subseteq Nat
  /\ MaxBytes \in Nat
  /\ NoTask \notin Tasks
  /\ NoKey \notin Keys

VARIABLES
  store,      \* _entries, each with those inserted before it, _bytes and _group_bytes
  inflight,   \* _inflight: the leader whose future is registered for a key
  leaders,    \* _leaders: the task registered as reading a key
  future,     \* the state of the future of (leader, key)
  pc,         \* where a task stands in load_many
  asked,      \* the keys a task asked for
  todo,       \* the keys a task still has to look up
  led,        \* the keys a task is reading in one call of its loader
  waitOn,     \* the leader whose future a task captured for a key
  awaiting,   \* the key a task awaits now, among those it waits for
  found,      \* the keys a task has a value for
  cancelling  \* whether a task was asked to cancel

flight == <<inflight, leaders, future>>
local  == <<asked, todo, led, waitOn, awaiting, found, cancelling>>
vars   == <<store, flight, pc, local>>

Ended        == {"returned", "raised", "cancelled"}
FutureStates == {"none", "pending", "result", "failed", "cancelled"}

-----------------------------------------------------------------------------
(* The store: entries in insertion order and two running sums of sizes.    *)

Entry == [size : Nat, stale : BOOLEAN, older : SUBSET Keys]

\* What some of the entries weigh.
Weight(entries, keys) == SumFunctionOnSet([k \in DOMAIN entries |-> entries[k].size], keys)

OfGroup(keys, g) == {k \in keys : GroupOf[k] = g}

\* _drop, for every key of a set
Drop(s, keys) ==
  LET gone == keys \cap DOMAIN s.entries
  IN  [entries |-> [k \in DOMAIN s.entries \ gone |-> [s.entries[k] EXCEPT !.older = @ \ gone]],
       bytes   |-> s.bytes - Weight(s.entries, gone),
       group   |-> [g \in Groups |-> s.group[g] - Weight(s.entries, OfGroup(gone, g))]]

\* The entries an eviction reaches: all those before them are not enough.
Excess(s) == {k \in DOMAIN s.entries : s.bytes - Weight(s.entries, s.entries[k].older) > MaxBytes}

Evict(s) == Drop(s, Excess(s))

Keep(s, k, size, before) ==
  [entries |-> [x \in DOMAIN s.entries \cup {k} |->
                  IF x = k THEN [size |-> size, stale |-> FALSE, older |-> before] ELSE s.entries[x]],
   bytes   |-> s.bytes + size,
   group   |-> [s.group EXCEPT ![GroupOf[k]] = @ + size]]

\* Mutant of Put: a key put again keeps the place it held, and what it was charged.
PutOver(s, k, size) ==
  LET before == IF k \in DOMAIN s.entries THEN s.entries[k].older ELSE DOMAIN s.entries
  IN  IF size > MaxBytes THEN s ELSE Evict(Keep(s, k, size, before))

\* put: what was held goes first, and a value larger than the cache is not kept
Put(s, k, size) ==
  LET freed == Drop(s, {k})
  IN  IF size > MaxBytes THEN freed ELSE Evict(Keep(freed, k, size, DOMAIN freed.entries))

PutAll(s, order, size) == FoldLeft(LAMBDA acc, k : Put(acc, k, size[k]), s, order)

Fresh(k) == k \in DOMAIN store.entries /\ ~store.entries[k].stale

-----------------------------------------------------------------------------
Init ==
  /\ store      = [entries |-> [k \in {} |-> 0], bytes |-> 0, group |-> [g \in Groups |-> 0]]
  /\ inflight   = [k \in Keys |-> NoTask]
  /\ leaders    = [k \in Keys |-> NoTask]
  /\ future     = [t \in Tasks |-> [k \in Keys |-> "none"]]
  /\ pc         = [t \in Tasks |-> "idle"]
  /\ asked      = [t \in Tasks |-> {}]
  /\ todo       = [t \in Tasks |-> {}]
  /\ led        = [t \in Tasks |-> {}]
  /\ waitOn     = [t \in Tasks |-> [k \in Keys |-> NoTask]]
  /\ awaiting   = [t \in Tasks |-> NoKey]
  /\ found      = [t \in Tasks |-> {}]
  /\ cancelling = [t \in Tasks |-> FALSE]

Waits(t) == {k \in Keys : waitOn[t][k] # NoTask}

\* A task is created for some keys; it has not run yet.
Submit(t, keys) ==
  /\ pc[t] = "idle"
  /\ IsFiniteSet(keys)
  /\ pc'    = [pc EXCEPT ![t] = "ready"]
  /\ asked' = [asked EXCEPT ![t] = keys]
  /\ todo'  = [todo EXCEPT ![t] = keys]
  /\ UNCHANGED <<store, flight, led, waitOn, awaiting, found, cancelling>>

\* Mutant of GoOn: a key whose read was cancelled is not read again.
GoOnOnce(t, waits, again) ==
  IF waits # {}
  THEN /\ pc' = [pc EXCEPT ![t] = "waiting"]
       /\ \E k \in waits : awaiting' = [awaiting EXCEPT ![t] = k]
  ELSE /\ pc' = [pc EXCEPT ![t] = "returned"]
       /\ awaiting' = [awaiting EXCEPT ![t] = NoKey]

\* What a task does next: await one more future, look up again, or return.
GoOn(t, waits, again) ==
  IF waits # {}
  THEN /\ pc' = [pc EXCEPT ![t] = "waiting"]
       /\ \E k \in waits : awaiting' = [awaiting EXCEPT ![t] = k]
  ELSE /\ pc' = [pc EXCEPT ![t] = IF again = {} THEN "returned" ELSE "ready"]
       /\ awaiting' = [awaiting EXCEPT ![t] = NoKey]

\* A task ends with an exception: nothing of its state is used any more.
Raise(t, how) ==
  /\ pc'       = [pc EXCEPT ![t] = how]
  /\ todo'     = [todo EXCEPT ![t] = {}]
  /\ led'      = [led EXCEPT ![t] = {}]
  /\ waitOn'   = [waitOn EXCEPT ![t] = [k \in Keys |-> NoTask]]
  /\ awaiting' = [awaiting EXCEPT ![t] = NoKey]

\* Mutant of InFlight: every caller reads for itself.
NeverInFlight(k) == FALSE

InFlight(k) == inflight[k] # NoTask

\* The futures of a lead, registered before the loader is called.
Register(t, keys) ==
  /\ inflight' = [k \in Keys |-> IF k \in keys THEN t ELSE inflight[k]]
  /\ leaders'  = [k \in Keys |-> IF k \in keys THEN t ELSE leaders[k]]
  /\ future'   = [future EXCEPT ![t] = [k \in Keys |-> IF k \in keys THEN "pending" ELSE @[k]]]

\* One turn of the loop of load_many, up to its first await: each key is held,
\* is being read by someone, or is read by this task.  Reads come before waits.
Read(t) ==
  LET hit  == {k \in todo[t] : Fresh(k)}
      wait == {k \in todo[t] \ hit : InFlight(k)}
      lead == (todo[t] \ hit) \ wait
  IN  /\ pc[t] = "ready"
      /\ store'  = Drop(store, todo[t] \ hit)
      /\ found'  = [found EXCEPT ![t] = @ \cup hit]
      /\ todo'   = [todo EXCEPT ![t] = {}]
      /\ led'    = [led EXCEPT ![t] = lead]
      /\ waitOn' = [waitOn EXCEPT ![t] = [k \in Keys |-> IF k \in wait THEN inflight[k]
                                                         ELSE NoTask]]
      /\ Register(t, lead)
      /\ IF lead # {}
         THEN pc' = [pc EXCEPT ![t] = "loading"] /\ UNCHANGED awaiting
         ELSE GoOn(t, wait, {})
      /\ UNCHANGED <<asked, cancelling>>

\* The finally of _lead: only the registrations that are still this read's.
Unregister(t) ==
  LET mine == {k \in led[t] : inflight[k] = t}
  IN  /\ inflight' = [k \in Keys |-> IF k \in mine THEN NoTask ELSE inflight[k]]
      /\ leaders'  = [k \in Keys |-> IF k \in mine THEN NoTask ELSE leaders[k]]

\* A future already done (abandoned) is left as it is.
Settle(t, how) ==
  future' = [future EXCEPT ![t] =
               [k \in Keys |-> IF k \in led[t] /\ @[k] = "pending" THEN how ELSE @[k]]]

\* The loader returns: every value is kept, an abandoned read's too.
Loaded(t, size, order) ==
  /\ pc[t] = "loading"
  /\ Unregister(t)
  /\ Settle(t, "result")
  /\ store' = PutAll(store, order, size)
  /\ found' = [found EXCEPT ![t] = @ \cup led[t]]
  /\ led'   = [led EXCEPT ![t] = {}]
  /\ GoOn(t, Waits(t), todo[t])
  /\ UNCHANGED <<asked, todo, waitOn, cancelling>>

\* The loader raises, or a value has no JSON form.
LoadFails(t) ==
  /\ pc[t] = "loading"
  /\ Unregister(t)
  /\ Settle(t, "failed")
  /\ Raise(t, "raised")
  /\ UNCHANGED <<store, asked, found, cancelling>>

\* The loader ends cancelled, by its task's cancellation or by its own.
LoadCancelled(t) ==
  /\ pc[t] = "loading"
  /\ Unregister(t)
  /\ Settle(t, "cancelled")
  /\ Raise(t, "cancelled")
  /\ UNCHANGED <<store, asked, found, cancelling>>

\* The future a task awaits is done.
Wake(t) ==
  LET k == awaiting[t]
      f == future[waitOn[t][k]][k]
      rest == Waits(t) \ {k}
  IN  /\ pc[t] = "waiting"
      /\ \/ /\ f = "result"
            /\ found'  = [found EXCEPT ![t] = @ \cup {k}]
            /\ waitOn' = [waitOn EXCEPT ![t][k] = NoTask]
            /\ GoOn(t, rest, todo[t])
            /\ UNCHANGED <<todo, led>>
         \/ /\ f = "cancelled"
            /\ ~cancelling[t]
            /\ todo'   = [todo EXCEPT ![t] = @ \cup {k}]
            /\ waitOn' = [waitOn EXCEPT ![t][k] = NoTask]
            /\ GoOn(t, rest, todo'[t])
            /\ UNCHANGED <<found, led>>
         \/ /\ f = "cancelled"
            /\ cancelling[t]
            /\ Raise(t, "cancelled")
            /\ UNCHANGED found
         \/ /\ f = "failed"
            /\ Raise(t, "raised")
            /\ UNCHANGED found
      /\ UNCHANGED <<store, flight, asked, cancelling>>

\* A task is cancelled, once at most (_cancel_once of the chain).  The loader
\* decides what becomes of it; any other await ends there.
Cancel(t) ==
  /\ pc[t] \in {"ready", "loading", "waiting"}
  /\ ~cancelling[t]
  /\ cancelling' = [cancelling EXCEPT ![t] = TRUE]
  /\ IF pc[t] = "loading" THEN UNCHANGED <<pc, todo, led, waitOn, awaiting>>
                          ELSE Raise(t, "cancelled")
  /\ UNCHANGED <<store, flight, asked, found>>

\* Mutant of CancelFutures: the waiters of a read left behind are not told.
KeepFutures(lost) == UNCHANGED future

\* The futures registered for some keys are cancelled: their waiters read again.
CancelFutures(lost) ==
  future' = [u \in Tasks |-> [k \in Keys |->
               IF k \in lost /\ inflight[k] = u /\ future[u][k] = "pending"
               THEN "cancelled" ELSE future[u][k]]]

\* abandon: the chain leaves behind a read that ignores its cancellation.
Abandon(t) ==
  LET lost == {k \in Keys : leaders[k] = t}
  IN  /\ pc[t] = "loading" /\ cancelling[t]
      /\ lost # {}
      /\ leaders'  = [k \in Keys |-> IF k \in lost THEN NoTask ELSE leaders[k]]
      /\ inflight' = [k \in Keys |-> IF k \in lost THEN NoTask ELSE inflight[k]]
      /\ CancelFutures(lost)
      /\ UNCHANGED <<store, pc, local>>

\* get, as the chain calls it before any read: an expired entry is dropped.
Get(k) ==
  /\ ~Fresh(k)
  /\ store' = Drop(store, {k})
  /\ UNCHANGED <<flight, pc, local>>

\* The clock passes the expiry of an entry.
Age(k) ==
  /\ Fresh(k)
  /\ store' = [store EXCEPT !.entries[k].stale = TRUE]
  /\ UNCHANGED <<flight, pc, local>>

\* Every task has ended: nothing is left to do.
Finished ==
  /\ \A t \in Tasks : pc[t] \in Ended
  /\ UNCHANGED vars

Load(t) ==
  \E size \in [led[t] -> Sizes], order \in SetToSeqs(led[t]) : Loaded(t, size, order)

Next ==
  \/ \E t \in Tasks :
       \/ \E keys \in (SUBSET Keys) \ {{}} : Submit(t, keys)
       \/ Read(t)
       \/ Load(t)
       \/ LoadFails(t)
       \/ LoadCancelled(t)
       \/ Wake(t)
       \/ Cancel(t)
       \/ Abandon(t)
  \/ \E k \in Keys : Get(k) \/ Age(k)
  \/ Finished

Spec == Init /\ [][Next]_vars

(***************************************************************************)
(* The event loop runs a task that can run.  Nothing makes a loader end,   *)
(* but the chain cancels every read at its deadline and abandons it if it  *)
(* is still there a moment later.                                          *)
(***************************************************************************)
Cut(t) == pc[t] = "loading" /\ Cancel(t)

Fairness ==
  \A t \in Tasks :
    /\ WF_vars(Read(t))
    /\ WF_vars(Wake(t))
    /\ WF_vars(Cut(t))
    /\ WF_vars(Abandon(t))

FairSpec == Spec /\ Fairness

-----------------------------------------------------------------------------
(* Properties *)

StoreTypeOK ==
  /\ store.entries \in UNION {[keys -> Entry] : keys \in SUBSET Keys}
  /\ store.bytes \in Nat
  /\ store.group \in [Groups -> Nat]

FlightTypeOK ==
  /\ inflight \in [Keys -> Tasks \cup {NoTask}]
  /\ leaders \in [Keys -> Tasks \cup {NoTask}]
  /\ future \in [Tasks -> [Keys -> FutureStates]]
  /\ pc \in [Tasks -> {"idle", "ready", "loading", "waiting"} \cup Ended]
  /\ asked \in [Tasks -> SUBSET Keys]
  /\ todo \in [Tasks -> SUBSET Keys]
  /\ led \in [Tasks -> SUBSET Keys]
  /\ waitOn \in [Tasks -> [Keys -> Tasks \cup {NoTask}]]
  /\ awaiting \in [Tasks -> Keys \cup {NoKey}]
  /\ found \in [Tasks -> SUBSET Keys]
  /\ cancelling \in [Tasks -> BOOLEAN]

TypeOK == StoreTypeOK /\ FlightTypeOK

\* Two reads of one key run at once only when one of them was cancelled and
\* left behind: callers of the same table share one read (load_many).
SingleFlight ==
  \A t, u \in Tasks : t # u /\ led[t] \cap led[u] # {} => cancelling[t] \/ cancelling[u]

\* Nobody waits for a future that nothing will settle: while it is pending its
\* leader runs, is registered for the key under both tables, and does not wait
\* itself, so that no two callers can wait for each other (load_many, abandon).
NoOrphanWait ==
  \A t \in Tasks : \A k \in Waits(t) :
    LET u == waitOn[t][k]
    IN  /\ future[u][k] # "none"
        /\ future[u][k] = "pending" =>
             inflight[k] = u /\ leaders[k] = u /\ pc[u] = "loading" /\ k \in led[u]

\* A future is created once and settled once: a late answer, a failure and an
\* abandon never overwrite one another, and no task reads a key it has read.
SettlesOnce ==
  [][\A t \in Tasks, k \in Keys :
       future'[t][k] # future[t][k] =>
         \/ future[t][k] = "none" /\ future'[t][k] = "pending"
         \/ future[t][k] = "pending" /\ future'[t][k] # "none"]_vars

\* A call that returns has a value for every key it asked for, whatever was
\* cancelled, abandoned or evicted meanwhile (load_many).
AnswersEverything ==
  \A t \in Tasks : pc[t] = "returned" => found[t] = asked[t]

\* The sums kept by put and _drop are the sizes of the entries held, in all and
\* by source, and the bound holds, whatever is put over what.
BytesExact ==
  /\ store.bytes = Weight(store.entries, DOMAIN store.entries)
  /\ \A g \in Groups : store.group[g] = Weight(store.entries, OfGroup(DOMAIN store.entries, g))
  /\ store.bytes <= MaxBytes

\* No caller waits for ever on the read of another: that read ends, or it is
\* cut, abandoned, and its waiters read again.  No loader has to end for it.
WaiterMovesOn ==
  \A t \in Tasks : pc[t] = "waiting" ~> pc[t] # "waiting"

=============================================================================
