--------------------------- MODULE ByteCacheProofs ---------------------------
(***************************************************************************)
(* What ByteCache promises of the reads in flight, for any tasks and keys. *)
(* FlightInv is inductive: it ties the two tables of the reads in flight   *)
(* to the futures and to what each task does.                              *)
(***************************************************************************)
EXTENDS ByteCache, FiniteSetTheorems, WellFoundedInduction, TLAPS

\* The tables agree with each other and with the pending futures.
Registered ==
  \A k \in Keys :
    /\ leaders[k] = inflight[k]
    /\ \A t \in Tasks : inflight[k] = t <=> future[t][k] = "pending"

\* Only a loading task leads, and a key it leads is pending unless it was cut.
Leading ==
  \A t \in Tasks :
    /\ led[t] # {} => pc[t] = "loading"
    /\ \A k \in Keys : future[t][k] = "pending" => k \in led[t]
    /\ \A k \in led[t] : future[t][k] = "pending" \/ cancelling[t]

\* A key a task asked for is to look up, being read, waited for or found: one
\* of the four, and a future of its own only if it is read or found.
Sorted ==
  \A t \in Tasks : pc[t] \notin Ended \ {"returned"} =>
    /\ \A k \in Keys : k \in asked[t] <=>
         k \in todo[t] \/ k \in led[t] \/ k \in Waits(t) \/ k \in found[t]
    /\ \A k \in todo[t] : k \notin led[t] /\ k \notin Waits(t) /\ k \notin found[t]
    /\ \A k \in Waits(t) : k \notin led[t] /\ k \notin found[t]
    /\ \A k \in led[t] : k \notin found[t]
    /\ \A k \in Keys : future[t][k] # "none" => k \in led[t] \/ k \in found[t]

\* Where a task stands says which of the four are empty.
Placed ==
  \A t \in Tasks :
    /\ pc[t] \in {"idle", "ready"} => Waits(t) = {}
    /\ pc[t] = "idle" => todo[t] = {} /\ found[t] = {}
    /\ pc[t] = "loading" => todo[t] = {}
    /\ pc[t] = "waiting" => awaiting[t] \in Waits(t)
    /\ pc[t] = "returned" => todo[t] = {} /\ Waits(t) = {}

\* A future somebody waits for was created.
Captured ==
  \A t, u \in Tasks, k \in Keys : waitOn[t][k] = u => future[u][k] # "none"

FlightInv == FlightTypeOK /\ Registered /\ Leading /\ Sorted /\ Placed /\ Captured

LEMMA FlightInit == Init => FlightInv
  BY CacheAssumption
  DEF Init, FlightInv, FlightTypeOK, Registered, Leading, Sorted, Placed, Captured, Waits,
      FutureStates, Ended

\* A task that raises keeps the types of what it gives up.
LEMMA RaiseTypes ==
  ASSUME FlightTypeOK, NEW t \in Tasks, NEW how \in Ended, Raise(t, how)
  PROVE  /\ pc' \in [Tasks -> {"idle", "ready", "loading", "waiting"} \cup Ended]
         /\ todo' \in [Tasks -> SUBSET Keys]
         /\ led' \in [Tasks -> SUBSET Keys]
         /\ waitOn' \in [Tasks -> [Keys -> Tasks \cup {NoTask}]]
         /\ awaiting' \in [Tasks -> Keys \cup {NoKey}]
  <1> USE DEF Raise, FlightTypeOK
  <1>1. pc' \in [Tasks -> {"idle", "ready", "loading", "waiting"} \cup Ended]
    OBVIOUS
  <1>2. todo' \in [Tasks -> SUBSET Keys] /\ led' \in [Tasks -> SUBSET Keys]
    OBVIOUS
  <1>3. waitOn' \in [Tasks -> [Keys -> Tasks \cup {NoTask}]]
    <2> DEFINE none == [k \in Keys |-> NoTask]
    <2>1. none \in [Keys -> Tasks \cup {NoTask}]
      OBVIOUS
    <2>2. waitOn' = [waitOn EXCEPT ![t] = none]
      OBVIOUS
    <2> HIDE DEF none
    <2> QED
      BY <2>1, <2>2
  <1>4. awaiting' \in [Tasks -> Keys \cup {NoKey}]
    OBVIOUS
  <1> QED
    BY <1>1, <1>2, <1>3, <1>4

\* What a task that goes on does next, and what it leaves alone.
LEMMA GoOnFacts ==
  ASSUME FlightTypeOK, NEW t \in Tasks, NEW waits \in SUBSET Keys, NEW again,
         GoOn(t, waits, again)
  PROVE  /\ pc' \in [Tasks -> {"idle", "ready", "loading", "waiting"} \cup Ended]
         /\ awaiting' \in [Tasks -> Keys \cup {NoKey}]
         /\ \A u \in Tasks \ {t} : pc'[u] = pc[u] /\ awaiting'[u] = awaiting[u]
         /\ pc'[t] \in {"waiting", "ready", "returned"}
         /\ pc'[t] = "waiting" => awaiting'[t] \in waits
         /\ pc'[t] # "waiting" => waits = {}
         /\ pc'[t] = "returned" => again = {}
  <1>1. CASE waits # {}
    <2>1. PICK k \in waits : awaiting' = [awaiting EXCEPT ![t] = k]
      BY <1>1 DEF GoOn
    <2>2. pc' = [pc EXCEPT ![t] = "waiting"]
      BY <1>1 DEF GoOn
    <2> QED
      BY <1>1, <2>1, <2>2 DEF FlightTypeOK, Ended
  <1>2. CASE waits = {} /\ again = {}
    BY <1>2 DEF GoOn, FlightTypeOK, Ended
  <1>3. CASE waits = {} /\ again # {}
    BY <1>3 DEF GoOn, FlightTypeOK, Ended
  <1> QED
    BY <1>1, <1>2, <1>3

\* A task that leads nothing may end at any await.
LEMMA RaiseStep ==
  ASSUME FlightInv, NEW t \in Tasks, NEW how \in {"raised", "cancelled"}, Raise(t, how),
         led[t] = {}, UNCHANGED <<flight, asked, found>>,
         cancelling' \in [Tasks -> BOOLEAN], \A u \in Tasks : cancelling[u] => cancelling'[u]
  PROVE  FlightInv'
  <1> USE CacheAssumption DEF FlightInv, flight
  <1>1. FlightTypeOK'
    BY RaiseTypes DEF FlightTypeOK, Ended
  <1>2. Registered'
    BY DEF Registered
  <1>3. Leading'
    BY DEF Raise, FlightTypeOK, Leading
  <1>4. Sorted'
    BY DEF Raise, FlightTypeOK, Sorted, Waits, Ended
  <1>5. Placed'
    BY DEF Raise, FlightTypeOK, Placed, Waits, Ended
  <1>6. Captured'
    BY DEF Raise, FlightTypeOK, Captured
  <1> QED
    BY <1>1, <1>2, <1>3, <1>4, <1>5, <1>6

LEMMA SubmitStep ==
  ASSUME FlightInv, NEW t \in Tasks, NEW keys \in SUBSET Keys, Submit(t, keys)
  PROVE  FlightInv'
  <1> USE CacheAssumption DEF FlightInv, Submit, flight
  <1>1. FlightTypeOK'
    BY DEF FlightTypeOK, Ended
  <1>2. Registered'
    BY DEF Registered
  <1>3. Leading'
    BY DEF Leading, FlightTypeOK
  <1>4. Sorted'
    <2>1. Waits(t) = {} /\ todo[t] = {} /\ led[t] = {} /\ found[t] = {}
      BY DEF Placed, Leading
    <2>2. \A k \in Keys : future[t][k] = "none"
      BY <2>1 DEF Sorted, Ended
    <2>3. \A u \in Tasks : Waits(u)' = Waits(u)
      BY DEF Waits
    <2> QED
      BY <2>1, <2>2, <2>3 DEF Sorted, FlightTypeOK, Ended
  <1>5. Placed'
    BY DEF Placed, FlightTypeOK, Waits
  <1>6. Captured'
    BY DEF Captured
  <1> QED
    BY <1>1, <1>2, <1>3, <1>4, <1>5, <1>6

LEMMA ReadStep ==
  ASSUME FlightInv, NEW t \in Tasks, Read(t)
  PROVE  FlightInv'
  <1> USE CacheAssumption DEF FlightInv
  <1>1. FlightTypeOK'
    <2>1. /\ found' \in [Tasks -> SUBSET Keys]
          /\ todo' \in [Tasks -> SUBSET Keys]
          /\ led' \in [Tasks -> SUBSET Keys]
          /\ asked' \in [Tasks -> SUBSET Keys]
          /\ cancelling' \in [Tasks -> BOOLEAN]
      BY DEF Read, InFlight, FlightTypeOK
    <2>2. /\ inflight' \in [Keys -> Tasks \cup {NoTask}]
          /\ leaders' \in [Keys -> Tasks \cup {NoTask}]
      BY DEF Read, InFlight, Register, FlightTypeOK
    <2>3. future' \in [Tasks -> [Keys -> FutureStates]]
      BY DEF Read, InFlight, Register, FlightTypeOK, FutureStates
    <2>4. waitOn' \in [Tasks -> [Keys -> Tasks \cup {NoTask}]]
      BY DEF Read, InFlight, FlightTypeOK
    <2>5. /\ pc' \in [Tasks -> {"idle", "ready", "loading", "waiting"} \cup Ended]
          /\ awaiting' \in [Tasks -> Keys \cup {NoKey}]
      <3> DEFINE hit  == {k \in todo[t] : Fresh(k)}
                 wait == {k \in todo[t] \ hit : InFlight(k)}
      <3>1. wait \in SUBSET Keys
        BY DEF FlightTypeOK
      <3>2. \/ pc' = [pc EXCEPT ![t] = "loading"] /\ UNCHANGED awaiting
            \/ GoOn(t, wait, {})
        BY DEF Read
      <3> HIDE DEF wait
      <3> QED
        BY <3>1, <3>2, GoOnFacts DEF FlightTypeOK
    <2> QED
      BY <2>1, <2>2, <2>3, <2>4, <2>5 DEF FlightTypeOK
  <1>2. Registered'
    BY DEF FlightTypeOK, Registered, Leading, Read, InFlight, Register
  <1>3. Leading'
    BY DEF FlightTypeOK, Registered, Leading, Read, InFlight, Register, GoOn
  <1>4. Sorted'
    BY DEF FlightTypeOK, Leading, Sorted, Placed, Read, InFlight, Register, GoOn, Waits, Ended
  <1>5. Placed'
    BY DEF FlightTypeOK, Leading, Placed, Read, InFlight, Register, GoOn, Waits, Ended
  <1>6. Captured'
    BY DEF FlightTypeOK, Registered, Captured, Read, InFlight, Register
  <1> QED
    BY <1>1, <1>2, <1>3, <1>4, <1>5, <1>6

LEMMA LoadedStep ==
  ASSUME FlightInv, NEW t \in Tasks, Load(t)
  PROVE  FlightInv'
  <1> USE CacheAssumption DEF FlightInv, Load, Loaded
  <1>1. FlightTypeOK'
    <2>1. /\ found' \in [Tasks -> SUBSET Keys]
          /\ led' \in [Tasks -> SUBSET Keys]
          /\ UNCHANGED <<asked, todo, waitOn, cancelling>>
      BY DEF FlightTypeOK
    <2>2. /\ inflight' \in [Keys -> Tasks \cup {NoTask}]
          /\ leaders' \in [Keys -> Tasks \cup {NoTask}]
      BY DEF Unregister, FlightTypeOK
    <2>3. future' \in [Tasks -> [Keys -> FutureStates]]
      BY DEF Settle, FlightTypeOK, FutureStates
    <2>4. Waits(t) \in SUBSET Keys /\ GoOn(t, Waits(t), todo[t])
      BY DEF Waits
    <2> QED
      BY <2>1, <2>2, <2>3, <2>4, GoOnFacts DEF FlightTypeOK
  <1>2. Registered'
    BY DEF FlightTypeOK, Registered, Leading, Unregister, Settle
  <1>3. Leading'
    BY DEF FlightTypeOK, Registered, Leading, Unregister, Settle, GoOn
  <1>4. Sorted'
    BY DEF FlightTypeOK, Leading, Sorted, Placed, Unregister, Settle, GoOn, Waits, Ended
  <1>5. Placed'
    BY DEF FlightTypeOK, Leading, Placed, GoOn, Waits, Ended
  <1>6. Captured'
    BY DEF FlightTypeOK, Registered, Captured, Unregister, Settle
  <1> QED
    BY <1>1, <1>2, <1>3, <1>4, <1>5, <1>6

\* A read that fails and one that ends cancelled differ only in the word.
LEMMA LoadEndsStep ==
  ASSUME FlightInv, NEW t \in Tasks, NEW how \in {"failed", "cancelled"},
         NEW end \in {"raised", "cancelled"}, pc[t] = "loading", Unregister(t),
         Settle(t, how), Raise(t, end), UNCHANGED <<asked, found, cancelling>>
  PROVE  FlightInv'
  <1> USE CacheAssumption DEF FlightInv
  <1>1. FlightTypeOK'
    <2>1. /\ inflight' \in [Keys -> Tasks \cup {NoTask}]
          /\ leaders' \in [Keys -> Tasks \cup {NoTask}]
      BY DEF Unregister, FlightTypeOK
    <2>2. future' \in [Tasks -> [Keys -> FutureStates]]
      BY DEF Settle, FlightTypeOK, FutureStates
    <2> QED
      BY <2>1, <2>2, RaiseTypes DEF FlightTypeOK, Ended
  <1>2. Registered'
    BY DEF FlightTypeOK, Registered, Leading, Unregister, Settle
  <1>3. Leading'
    BY DEF FlightTypeOK, Registered, Leading, Unregister, Settle, Raise
  <1>4. Sorted'
    BY DEF FlightTypeOK, Leading, Sorted, Placed, Unregister, Settle, Raise, Waits, Ended
  <1>5. Placed'
    BY DEF FlightTypeOK, Leading, Placed, Raise, Waits, Ended
  <1>6. Captured'
    BY DEF FlightTypeOK, Registered, Captured, Unregister, Settle, Raise
  <1> QED
    BY <1>1, <1>2, <1>3, <1>4, <1>5, <1>6

\* A task that has its answer for one key, or has to look it up again.
LEMMA WakeStep ==
  ASSUME FlightInv, NEW t \in Tasks, Wake(t)
  PROVE  FlightInv'
  <1> DEFINE k    == awaiting[t]
             rest == Waits(t) \ {k}
  <1> USE CacheAssumption DEF FlightInv
  <1>1. /\ pc[t] = "waiting" /\ led[t] = {}
        /\ k \in Keys /\ k \in Waits(t) /\ rest \in SUBSET Keys
        /\ UNCHANGED <<inflight, leaders, future, asked, cancelling>>
    BY DEF Wake, Placed, Leading, Waits, flight
  <1>2. CASE /\ found'  = [found EXCEPT ![t] = @ \cup {k}]
             /\ waitOn' = [waitOn EXCEPT ![t][k] = NoTask]
             /\ GoOn(t, rest, todo[t])
             /\ UNCHANGED <<todo, led>>
    <2> HIDE DEF k
    <2> USE <1>1, <1>2
    <2>0. Waits(t)' = rest /\ \A u \in Tasks \ {t} : Waits(u)' = Waits(u)
      BY DEF Waits, FlightTypeOK
    <2> HIDE DEF rest
    <2>a. /\ pc' \in [Tasks -> {"idle", "ready", "loading", "waiting"} \cup Ended]
          /\ awaiting' \in [Tasks -> Keys \cup {NoKey}]
          /\ \A u \in Tasks \ {t} : pc'[u] = pc[u] /\ awaiting'[u] = awaiting[u]
          /\ pc'[t] \in {"waiting", "ready", "returned"}
          /\ pc'[t] = "waiting" => awaiting'[t] \in rest
          /\ pc'[t] # "waiting" => rest = {}
          /\ pc'[t] = "returned" => todo[t] = {}
      BY GoOnFacts
    <2>1. FlightTypeOK'
      BY <2>a DEF FlightTypeOK
    <2>2. Registered'
      BY DEF Registered
    <2>3. Leading'
      BY <2>a DEF Leading
    <2>4. Sorted'
      BY <2>0, <2>a DEF Sorted, FlightTypeOK, Ended, rest
    <2>5. Placed'
      BY <2>0, <2>a DEF Placed, FlightTypeOK
    <2>6. Captured'
      BY DEF Captured, FlightTypeOK
    <2> QED
      BY <2>1, <2>2, <2>3, <2>4, <2>5, <2>6
  <1>3. CASE /\ todo'   = [todo EXCEPT ![t] = @ \cup {k}]
             /\ waitOn' = [waitOn EXCEPT ![t][k] = NoTask]
             /\ GoOn(t, rest, todo'[t])
             /\ UNCHANGED <<found, led>>
    <2> HIDE DEF k
    <2> USE <1>1, <1>3
    <2>0. Waits(t)' = rest /\ \A u \in Tasks \ {t} : Waits(u)' = Waits(u)
      BY DEF Waits, FlightTypeOK
    <2> HIDE DEF rest
    <2>a. /\ pc' \in [Tasks -> {"idle", "ready", "loading", "waiting"} \cup Ended]
          /\ awaiting' \in [Tasks -> Keys \cup {NoKey}]
          /\ \A u \in Tasks \ {t} : pc'[u] = pc[u] /\ awaiting'[u] = awaiting[u]
          /\ pc'[t] \in {"waiting", "ready", "returned"}
          /\ pc'[t] = "waiting" => awaiting'[t] \in rest
          /\ pc'[t] # "waiting" => rest = {}
          /\ pc'[t] = "returned" => todo'[t] = {}
      BY GoOnFacts
    <2>1. FlightTypeOK'
      BY <2>a DEF FlightTypeOK
    <2>2. Registered'
      BY DEF Registered
    <2>3. Leading'
      BY <2>a DEF Leading
    <2>4. Sorted'
      BY <2>0, <2>a DEF Sorted, FlightTypeOK, Ended, rest
    <2>5. Placed'
      BY <2>0, <2>a DEF Placed, FlightTypeOK
    <2>6. Captured'
      BY DEF Captured, FlightTypeOK
    <2> QED
      BY <2>1, <2>2, <2>3, <2>4, <2>5, <2>6
  <1>4. CASE /\ Raise(t, "cancelled") \/ Raise(t, "raised")
             /\ UNCHANGED found
    BY <1>1, <1>4, RaiseStep DEF flight, FlightTypeOK
  <1> QED
    BY <1>2, <1>3, <1>4 DEF Wake

LEMMA CancelStep ==
  ASSUME FlightInv, NEW t \in Tasks, Cancel(t)
  PROVE  FlightInv'
  <1>1. /\ cancelling' = [cancelling EXCEPT ![t] = TRUE]
        /\ UNCHANGED <<flight, asked, found>>
        /\ cancelling' \in [Tasks -> BOOLEAN]
        /\ \A u \in Tasks : cancelling[u] => cancelling'[u]
    BY DEF Cancel, FlightInv, FlightTypeOK
  <1>2. CASE pc[t] = "loading"
    <2> UNCHANGED <<flight, pc, todo, led, waitOn, awaiting, asked, found>>
      BY <1>2 DEF Cancel
    <2> QED
      BY <1>1 DEF FlightInv, FlightTypeOK, Registered, Leading, Sorted, Placed, Captured, Waits,
                  flight
  <1>3. CASE pc[t] # "loading"
    <2>1. Raise(t, "cancelled") /\ led[t] = {}
      BY <1>3 DEF Cancel, FlightInv, Leading
    <2> QED
      BY <1>1, <2>1, RaiseStep
  <1> QED
    BY <1>2, <1>3

LEMMA AbandonStep ==
  ASSUME FlightInv, NEW t \in Tasks, Abandon(t)
  PROVE  FlightInv'
  <1> USE DEF FlightInv, Abandon, CancelFutures, local
  <1>1. FlightTypeOK'
    BY DEF FlightTypeOK, FutureStates
  <1>2. Registered'
    BY CacheAssumption DEF FlightTypeOK, Registered, Leading
  <1>3. Leading'
    BY DEF FlightTypeOK, Registered, Leading
  <1>4. Sorted'
    BY DEF FlightTypeOK, Sorted, Waits
  <1>5. Placed'
    BY DEF Placed, Waits
  <1>6. Captured'
    BY DEF FlightTypeOK, Captured
  <1> QED
    BY <1>1, <1>2, <1>3, <1>4, <1>5, <1>6

LEMMA FlightStep == FlightInv /\ [Next]_vars => FlightInv'
  <1> SUFFICES ASSUME FlightInv, [Next]_vars
               PROVE  FlightInv'
    OBVIOUS
  <1>1. CASE UNCHANGED <<flight, pc, local>>
    BY <1>1 DEF FlightInv, FlightTypeOK, Registered, Leading, Sorted, Placed, Captured, Waits,
                flight, local
  <1> QED
    BY <1>1, SubmitStep, ReadStep, LoadedStep, LoadEndsStep, WakeStep, CancelStep, AbandonStep
    DEF LoadFails, LoadCancelled, Next, Get, Age, Finished, vars

LEMMA FlightInvariant == Spec => []FlightInv
  BY FlightInit, FlightStep, PTL DEF Spec

\* The state of the reads in flight keeps its type (load_many, _lead, abandon).
THEOREM FlightTypeCorrect == Spec => []FlightTypeOK
  BY FlightInvariant, PTL DEF FlightInv

\* Callers of the same key share one read, unless it was cut (load_many): two
\* leaders that were not cancelled would both be the one registered leader.
THEOREM SingleFlightHolds == Spec => []SingleFlight
  <1>1. FlightInv => SingleFlight
    BY DEF FlightInv, FlightTypeOK, Registered, Leading, SingleFlight
  <1> QED
    BY <1>1, FlightInvariant, PTL

\* No caller is left on a future nobody will settle, and leaders never wait
\* (load_many, _lead, abandon).
THEOREM NoOrphanWaitHolds == Spec => []NoOrphanWait
  <1>1. FlightInv => NoOrphanWait
    <2> SUFFICES ASSUME FlightInv, NEW t \in Tasks, NEW k \in Keys, waitOn[t][k] # NoTask
                 PROVE  LET u == waitOn[t][k]
                        IN  /\ future[u][k] # "none"
                            /\ future[u][k] = "pending" =>
                                 /\ inflight[k] = u /\ leaders[k] = u
                                 /\ pc[u] = "loading" /\ k \in led[u]
      BY DEF NoOrphanWait, Waits
    <2>1. waitOn[t][k] \in Tasks
      BY DEF FlightInv, FlightTypeOK
    <2> QED
      BY <2>1 DEF FlightInv, FlightTypeOK, Registered, Leading, Captured
  <1> QED
    BY <1>1, FlightInvariant, PTL

\* A call that returns has an answer for every key it asked (load_many).
THEOREM AnswersEverythingHolds == Spec => []AnswersEverything
  <1>1. FlightInv => AnswersEverything
    <2> SUFFICES ASSUME FlightInv, NEW t \in Tasks, pc[t] = "returned"
                 PROVE  found[t] = asked[t]
      BY DEF AnswersEverything
    <2>1. asked[t] \subseteq Keys /\ found[t] \subseteq Keys
      BY DEF FlightInv, FlightTypeOK
    <2>2. led[t] = {} /\ todo[t] = {} /\ Waits(t) = {}
      BY DEF FlightInv, Leading, Placed
    <2>3. \A k \in Keys : k \in asked[t] <=> k \in found[t]
      BY <2>2 DEF FlightInv, Sorted, Ended
    <2> QED
      BY <2>1, <2>3
  <1> QED
    BY <1>1, FlightInvariant, PTL

\* A future is made once and settled once: no answer overwrites another, and no
\* task reads a key twice (_lead, _fail, abandon).
THEOREM SettlesOnceHolds == Spec => SettlesOnce
  <1> DEFINE Once == \A t \in Tasks, k \in Keys :
                       future'[t][k] # future[t][k] =>
                         \/ future[t][k] = "none" /\ future'[t][k] = "pending"
                         \/ future[t][k] = "pending" /\ future'[t][k] # "none"
  <1>1. FlightInv /\ [Next]_vars => [Once]_vars
    <2> SUFFICES ASSUME FlightInv, Next
                 PROVE  Once
      OBVIOUS
    <2>1. ASSUME NEW t \in Tasks, Read(t)
          PROVE  Once
      <3>1. \A k \in todo[t] : future[t][k] = "none"
        BY <2>1 DEF Read, FlightInv, FlightTypeOK, Sorted, Ended
      <3> QED
        BY <2>1, <3>1 DEF Read, InFlight, Register, FlightInv, FlightTypeOK, FutureStates
    <2>2. ASSUME NEW t \in Tasks, NEW how \in {"result", "failed", "cancelled"}, Settle(t, how)
          PROVE  Once
      BY <2>2 DEF Settle, FlightInv, FlightTypeOK
    <2>3. ASSUME NEW t \in Tasks, Abandon(t)
          PROVE  Once
      BY <2>3 DEF Abandon, CancelFutures, FlightInv, FlightTypeOK
    <2>4. CASE UNCHANGED future
      BY <2>4
    <2> QED
      BY <2>1, <2>2, <2>3, <2>4
      DEF Next, Submit, Load, Loaded, LoadFails, LoadCancelled, Wake, Cancel, Get, Age, Finished,
          vars, flight
  <1> QED
    BY <1>1, FlightInvariant, PTL DEF Spec, SettlesOnce
LEMMA UpFromZero ==
  ASSUME NEW T, 0 \in T, \A n \in Nat : n \in T => n + 1 \in T
  PROVE  Nat \subseteq T
<1> DEFINE Under == {p \in Nat \X Nat : p[1] < p[2]}
           U == Nat \ T
<1>1. IsWellFoundedOn(Under, Nat)
  <2>1. OpToRel(<, Nat) = Under
    BY DEF OpToRel
  <2>2. QED
    BY <2>1, NatLessThanWellFounded
<1>2. SUFFICES ASSUME U # {} PROVE FALSE
  OBVIOUS
<1>3. PICK x \in U : \A y \in U : <<y, x>> \notin Under
  <2> HIDE DEF Under, U
  <2>1. U \subseteq Nat
    BY DEF U
  <2>2. QED
    BY <1>1, <1>2, <2>1, WFMin
<1>4. x \in Nat /\ x # 0 /\ x \notin T
  OBVIOUS
<1>5. x - 1 \in Nat /\ x - 1 < x /\ (x - 1) + 1 = x
  BY <1>4
<1>6. x - 1 \in T
  BY <1>3, <1>4, <1>5
<1>7. QED
  BY <1>4, <1>5, <1>6

LEMMA UpFromEmpty ==
  ASSUME NEW S, IsFiniteSet(S), NEW G,
         \A s \in SUBSET S : (\A u \in SUBSET s : u # s => u \in G) => s \in G
  PROVE  SUBSET S \subseteq G
<1> DEFINE T == (SUBSET S) \ G
<1>1. SUFFICES ASSUME T # {} PROVE FALSE
  OBVIOUS
<1>2. T \subseteq FiniteSubsetsOf(S)
  BY FS_Subset DEF FiniteSubsetsOf
<1>3. PICK s \in T : \A u \in T : <<u, s>> \notin StrictSubsetOrdering(S)
  <2> HIDE DEF T
  <2>1. QED
    BY <1>1, <1>2, FS_StrictSubsetOrderingWellFounded, WFMin
<1>4. ASSUME NEW u \in SUBSET s, u # s PROVE u \in G
  <2>1. <<u, s>> \in StrictSubsetOrdering(S)
    BY <1>4 DEF StrictSubsetOrdering
  <2>2. QED
    BY <1>3, <2>1
<1>5. QED
  BY <1>3, <1>4


\* A fold over a set: what is picked of it is worked on what the rest gives.
Folds(h, S, base, c, F) ==
  h = [s \in SUBSET S |-> IF s = {} THEN base ELSE F[<<c[s], h[s \ {c[s]}]>>]]

\* Every fold whose values keep a type is defined.
LEMMA FoldExists ==
  ASSUME NEW S, IsFiniteSet(S), NEW V, NEW base \in V, NEW c, NEW F \in [S \X V -> V],
         \A s \in SUBSET S : s # {} => c[s] \in s
  PROVE  \E h \in [SUBSET S -> V] : Folds(h, S, base, c, F)
<1> DEFINE Value(h, s) == IF s = {} THEN base ELSE F[<<c[s], h[s \ {c[s]}]>>]
           UpTo(h, n)  == \A s \in SUBSET S : Cardinality(s) <= n => h[s] = Value(h, s)
           T == {n \in Nat : \E h \in [SUBSET S -> V] : UpTo(h, n)}
<1>1. \A s \in SUBSET S : IsFiniteSet(s) /\ Cardinality(s) \in Nat /\ Cardinality(s) <= Cardinality(S)
  BY FS_Subset, FS_CardinalityType
<1>2. 0 \in T
  <2> DEFINE h == [s \in SUBSET S |-> base]
  <2>1. UpTo(h, 0)
    <3>1. ASSUME NEW s \in SUBSET S, Cardinality(s) <= 0 PROVE s = {}
      BY <1>1, <3>1, FS_EmptySet
    <3> QED
      BY <3>1
  <2> QED
    BY <2>1
<1>3. ASSUME NEW n \in Nat, n \in T PROVE n + 1 \in T
  <2>1. PICK h \in [SUBSET S -> V] : UpTo(h, n)
    BY <1>3
  <2> DEFINE g == [s \in SUBSET S |-> Value(h, s)]
  <2>2. ASSUME NEW s \in SUBSET S, Cardinality(s) <= n + 1 PROVE g[s] = Value(g, s)
    <3>1. CASE s = {}
      BY <3>1
    <3>2. CASE s # {}
      <4> DEFINE u == s \ {c[s]}
      <4>1. c[s] \in s /\ u \in SUBSET S
        BY <3>2
      <4>2. Cardinality(u) <= n
        <5>1. Cardinality(u) = Cardinality(s) - 1
          BY <1>1, <4>1, FS_RemoveElement
        <5> QED
          BY <1>1, <2>2, <5>1
      <4>3. g[u] = h[u]
        BY <2>1, <4>1, <4>2
      <4>4. g[s] = F[<<c[s], h[u]>>]
        BY <3>2
      <4> QED
        BY <3>2, <4>3, <4>4
    <3> QED
      BY <3>1, <3>2
  <2>3. g \in [SUBSET S -> V]
    <3>1. ASSUME NEW s \in SUBSET S, s # {} PROVE F[<<c[s], h[s \ {c[s]}]>>] \in V
      <4>1. c[s] \in S /\ s \ {c[s]} \in SUBSET S
        BY <3>1
      <4>2. h[s \ {c[s]}] \in V
        BY <4>1
      <4> QED
        BY <4>1, <4>2
    <3> QED
      BY <3>1
  <2>4. UpTo(g, n + 1)
    <3> HIDE DEF g
    <3> QED
      BY <2>2
  <2>5. \E f \in [SUBSET S -> V] : UpTo(f, n + 1)
    <3> HIDE DEF g, UpTo
    <3> QED
      BY <2>3, <2>4
  <2> QED
    <3> HIDE DEF UpTo
    <3> QED
      BY <2>5
<1>4. Cardinality(S) \in T
  <2> HIDE DEF T
  <2> QED
    BY <1>2, <1>3, UpFromZero, FS_CardinalityType
<1>5. PICK h \in [SUBSET S -> V] : UpTo(h, Cardinality(S))
  BY <1>4
<1>6. \A s \in SUBSET S : h[s] = Value(h, s)
  BY <1>1, <1>5
<1>7. h = [s \in SUBSET S |-> Value(h, s)]
  <2> HIDE DEF Value
  <2> QED
    BY <1>6
<1> QED
  BY <1>7 DEF Folds

\* What the sums of the store pick first.
Picks(s) == CHOOSE x \in s : TRUE

LEMMA PicksMember == ASSUME NEW s, s # {} PROVE Picks(s) \in s
  BY DEF Picks

SumOf(h, f, S) == h = [s \in SUBSET S |-> IF s = {} THEN 0 ELSE f[Picks(s)] + h[s \ {Picks(s)}]]

LEMMA SumExists ==
  ASSUME NEW f, NEW S, IsFiniteSet(S), \A x \in S : f[x] \in Nat
  PROVE  \E h \in [SUBSET S -> Nat] : SumOf(h, f, S)
<1> DEFINE c == [s \in SUBSET S |-> Picks(s)]
           F == [p \in S \X Nat |-> f[p[1]] + p[2]]
<1>1. F \in [S \X Nat -> Nat]
  OBVIOUS
<1>2. \A s \in SUBSET S : s # {} => c[s] \in s
  BY PicksMember
<1>3. PICK h \in [SUBSET S -> Nat] : Folds(h, S, 0, c, F)
  <2> HIDE DEF c, F
  <2> QED
    BY <1>1, <1>2, FoldExists
<1>4. ASSUME NEW s \in SUBSET S, s # {}
      PROVE  F[<<c[s], h[s \ {c[s]}]>>] = f[Picks(s)] + h[s \ {Picks(s)}]
  <2>1. c[s] = Picks(s) /\ Picks(s) \in S /\ s \ {Picks(s)} \in SUBSET S
    BY <1>4, PicksMember
  <2>2. h[s \ {Picks(s)}] \in Nat
    BY <2>1
  <2> QED
    BY <2>1, <2>2
<1> QED
  <2>1. h = [s \in SUBSET S |-> IF s = {} THEN 0 ELSE F[<<c[s], h[s \ {c[s]}]>>]]
    BY <1>3 DEF Folds
  <2> HIDE DEF c, F
  <2>2. h = [s \in SUBSET S |-> IF s = {} THEN 0 ELSE f[Picks(s)] + h[s \ {Picks(s)}]]
    BY <1>4, <2>1
  <2> QED
    BY <2>2 DEF SumOf

LEMMA SumUnique ==
  ASSUME NEW f, NEW S, IsFiniteSet(S), NEW T \in SUBSET S,
         NEW g, NEW h, SumOf(g, f, S), SumOf(h, f, T)
  PROVE  g[T] = h[T]
<1> DEFINE G == {s \in SUBSET T : g[s] = h[s]}
<1>1. ASSUME NEW s \in SUBSET T, \A u \in SUBSET s : u # s => u \in G PROVE s \in G
  <2>1. CASE s = {}
    BY <2>1 DEF SumOf
  <2>2. CASE s # {}
    <3>1. Picks(s) \in s
      BY <2>2, PicksMember
    <3>2. g[s \ {Picks(s)}] = h[s \ {Picks(s)}]
      BY <1>1, <3>1
    <3>3. g[s] = f[Picks(s)] + g[s \ {Picks(s)}] /\ h[s] = f[Picks(s)] + h[s \ {Picks(s)}]
      BY <2>2 DEF SumOf
    <3> QED
      BY <3>2, <3>3
  <2> QED
    BY <2>1, <2>2
<1>2. SUBSET T \subseteq G
  <2>1. IsFiniteSet(T)
    BY FS_Subset
  <2> HIDE DEF G
  <2> QED
    BY <1>1, <2>1, UpFromEmpty
<1> QED
  BY <1>2

LEMMA SumIsSum ==
  ASSUME NEW f, NEW S, IsFiniteSet(S), \A x \in S : f[x] \in Nat
  PROVE  \E h \in [SUBSET S -> Nat] : SumOf(h, f, S) /\ SumFunctionOnSet(f, S) = h[S]
<1> DEFINE h == CHOOSE h : SumOf(h, f, S)
<1>1. PICK g \in [SUBSET S -> Nat] : SumOf(g, f, S)
  BY SumExists
<1>2. SumOf(h, f, S)
  BY <1>1
<1>3. SumFunctionOnSet(f, S) = h[S]
  BY DEF SumFunctionOnSet, FoldFunctionOnSet, MapThenFoldSet, SumOf, Picks
<1>4. h[S] = g[S]
  <2> HIDE DEF h
  <2> QED
    BY <1>1, <1>2, SumUnique
<1> QED
  BY <1>1, <1>3, <1>4

\* The sum of a set is what is picked of it and the sum of the rest.
LEMMA SumPicks ==
  ASSUME NEW f, NEW S, IsFiniteSet(S), \A x \in S : f[x] \in Nat
  PROVE  /\ SumFunctionOnSet(f, S) \in Nat
         /\ S = {} => SumFunctionOnSet(f, S) = 0
         /\ S # {} => SumFunctionOnSet(f, S) = f[Picks(S)] + SumFunctionOnSet(f, S \ {Picks(S)})
<1>1. PICK h \in [SUBSET S -> Nat] : SumOf(h, f, S) /\ SumFunctionOnSet(f, S) = h[S]
  BY SumIsSum
<1>2. SumFunctionOnSet(f, S) \in Nat
  BY <1>1
<1>3. ASSUME S = {} PROVE SumFunctionOnSet(f, S) = 0
  BY <1>1, <1>3 DEF SumOf
<1>4. ASSUME S # {} PROVE SumFunctionOnSet(f, S) = f[Picks(S)] + SumFunctionOnSet(f, S \ {Picks(S)})
  <2> DEFINE T == S \ {Picks(S)}
  <2>1. T \in SUBSET S /\ IsFiniteSet(T)
    BY FS_Subset
  <2>2. PICK g \in [SUBSET T -> Nat] : SumOf(g, f, T) /\ SumFunctionOnSet(f, T) = g[T]
    <3> HIDE DEF T
    <3> QED
      BY <2>1, SumIsSum
  <2>3. h[T] = g[T]
    <3> HIDE DEF T
    <3> QED
      BY <1>1, <2>1, <2>2, SumUnique
  <2>4. h[S] = f[Picks(S)] + h[T]
    BY <1>1, <1>4 DEF SumOf
  <2> QED
    BY <1>1, <2>2, <2>3, <2>4
<1> QED
  BY <1>2, <1>3, <1>4

\* Any element can be taken out first.
LEMMA SumRemove ==
  ASSUME NEW f, NEW S, IsFiniteSet(S), \A x \in S : f[x] \in Nat, NEW x \in S
  PROVE  SumFunctionOnSet(f, S) = f[x] + SumFunctionOnSet(f, S \ {x})
<1> DEFINE Sum(s) == SumFunctionOnSet(f, s)
           G == {s \in SUBSET S : \A y \in s : Sum(s) = f[y] + Sum(s \ {y})}
<1>1. ASSUME NEW s \in SUBSET S
      PROVE  /\ IsFiniteSet(s)
             /\ Sum(s) \in Nat
             /\ s # {} => Picks(s) \in s /\ Sum(s) = f[Picks(s)] + Sum(s \ {Picks(s)})
  BY FS_Subset, SumPicks, PicksMember
<1>2. ASSUME NEW s \in SUBSET S, \A u \in SUBSET s : u # s => u \in G PROVE s \in G
  <2>1. ASSUME NEW y \in s PROVE Sum(s) = f[y] + Sum(s \ {y})
    <3> DEFINE p == Picks(s)
    <3>1. p \in s /\ Sum(s) = f[p] + Sum(s \ {p})
      BY <1>1
    <3>2. CASE y = p
      BY <3>1, <3>2
    <3>3. CASE y # p
      <4> DEFINE u == s \ {p}
                 v == s \ {y}
      <4>1. u \in G /\ v \in G /\ y \in u /\ p \in v /\ u \ {y} = v \ {p} /\ v \ {p} \in SUBSET S
        <5> HIDE DEF G, p
        <5> QED
          BY <1>2, <3>1, <3>3
      <4>2. Sum(u) = f[y] + Sum(u \ {y}) /\ Sum(v) = f[p] + Sum(v \ {p})
        <5> HIDE DEF u, v, p, Sum
        <5> QED
          BY <4>1
      <4>3. f[y] \in Nat /\ f[p] \in Nat /\ Sum(v \ {p}) \in Nat
        <5> HIDE DEF v, p, Sum
        <5> QED
          BY <1>1, <3>1, <4>1
      <4> QED
        <5> HIDE DEF p, Sum
        <5>1. Sum(u \ {y}) = Sum(v \ {p})
          BY <4>1
        <5> HIDE DEF u, v
        <5>2. Sum(s) = f[p] + Sum(u)
          BY <3>1 DEF u
        <5>3. Sum(s) = f[y] + Sum(v)
          BY <4>2, <4>3, <5>1, <5>2
        <5> QED
          BY <5>3 DEF v
    <3> QED
      BY <3>2, <3>3
  <2> QED
    <3> HIDE DEF Sum
    <3> QED
      BY <2>1
<1>3. SUBSET S \subseteq G
  <2> HIDE DEF G
  <2> QED
    BY <1>2, UpFromEmpty
<1> QED
  <2> HIDE DEF Sum
  <2>1. SumFunctionOnSet(f, S) = Sum(S) /\ SumFunctionOnSet(f, S \ {x}) = Sum(S \ {x})
    BY DEF Sum
  <2> QED
    BY <1>3, <2>1

LEMMA SumSame ==
  ASSUME NEW f, NEW g, NEW S, IsFiniteSet(S), \A x \in S : f[x] \in Nat /\ f[x] = g[x]
  PROVE  SumFunctionOnSet(f, S) = SumFunctionOnSet(g, S)
<1> DEFINE G == {s \in SUBSET S : SumFunctionOnSet(f, s) = SumFunctionOnSet(g, s)}
<1>1. ASSUME NEW s \in SUBSET S, \A u \in SUBSET s : u # s => u \in G PROVE s \in G
  <2> DEFINE p == Picks(s)
  <2>1. IsFiniteSet(s) /\ (\A x \in s : f[x] \in Nat) /\ (\A x \in s : g[x] \in Nat)
    BY FS_Subset
  <2>2. CASE s = {}
    BY <2>1, <2>2, SumPicks
  <2>3. CASE s # {}
    <3>1. p \in s
      BY <2>3, PicksMember
    <3>2. SumFunctionOnSet(f, s) = f[p] + SumFunctionOnSet(f, s \ {p})
      BY <2>1, <2>3, SumPicks
    <3>3. SumFunctionOnSet(g, s) = g[p] + SumFunctionOnSet(g, s \ {p})
      BY <2>1, <2>3, SumPicks
    <3>4. SumFunctionOnSet(f, s \ {p}) = SumFunctionOnSet(g, s \ {p})
      <4> HIDE DEF p
      <4> QED
        BY <1>1, <3>1
    <3> QED
      BY <3>1, <3>2, <3>3, <3>4
  <2> QED
    BY <2>2, <2>3
<1>2. SUBSET S \subseteq G
  <2> HIDE DEF G
  <2> QED
    BY <1>1, UpFromEmpty
<1> QED
  BY <1>2

LEMMA SumSplit ==
  ASSUME NEW f, NEW S, IsFiniteSet(S), \A x \in S : f[x] \in Nat, NEW T \in SUBSET S
  PROVE  SumFunctionOnSet(f, S) = SumFunctionOnSet(f, T) + SumFunctionOnSet(f, S \ T)
<1> DEFINE Sum(s) == SumFunctionOnSet(f, s)
           G == {t \in SUBSET S : Sum(S) = Sum(t) + Sum(S \ t)}
<1>1. ASSUME NEW s \in SUBSET S
      PROVE  /\ Sum(s) \in Nat
             /\ s = {} => Sum(s) = 0
             /\ \A x \in s : Sum(s) = f[x] + Sum(s \ {x})
  <2>1. IsFiniteSet(s) /\ \A x \in s : f[x] \in Nat
    BY FS_Subset
  <2>2. Sum(s) \in Nat /\ (s = {} => Sum(s) = 0)
    BY <2>1, SumPicks
  <2>3. ASSUME NEW x \in s PROVE Sum(s) = f[x] + Sum(s \ {x})
    BY <2>1, SumRemove
  <2> QED
    <3> HIDE DEF Sum
    <3> QED
      BY <2>2, <2>3
<1>2. ASSUME NEW t \in SUBSET S, \A u \in SUBSET t : u # t => u \in G PROVE t \in G
  <2> HIDE DEF Sum
  <2>1. CASE t = {}
    <3>1. S \ t = S
      BY <2>1
    <3>2. Sum(t) = 0 /\ Sum(S) \in Nat
      BY <1>1, <2>1
    <3>3. Sum(S) = Sum(t) + Sum(S \ t)
      BY <3>1, <3>2
    <3> QED
      BY <3>3
  <2>2. CASE t # {}
    <3> DEFINE x == Picks(t)
               u == t \ {x}
               r == S \ u
    <3>1. x \in t /\ x \in r
      BY <2>2, PicksMember
    <3> HIDE DEF x
    <3>2. u \in G /\ r \ {x} = S \ t /\ r \in SUBSET S /\ u \in SUBSET S /\ S \ t \in SUBSET S
      <4> HIDE DEF G
      <4> QED
        BY <1>2, <3>1
    <3>3. Sum(S) = Sum(u) + Sum(r)
      <4> HIDE DEF u
      <4> QED
        BY <3>2 DEF r
    <3>4. Sum(t) = f[x] + Sum(u) /\ Sum(r) = f[x] + Sum(r \ {x})
      <4> HIDE DEF r
      <4>1. Sum(r) = f[x] + Sum(r \ {x})
        BY <1>1, <3>1, <3>2
      <4> QED
        BY <1>1, <3>1, <4>1
    <3>5. f[x] \in Nat /\ Sum(u) \in Nat /\ Sum(S \ t) \in Nat
      <4> HIDE DEF u
      <4> QED
        BY <1>1, <3>1, <3>2
    <3>6. Sum(r \ {x}) = Sum(S \ t)
      BY <3>2
    <3>7. Sum(S) = Sum(t) + Sum(S \ t)
      <4> HIDE DEF u, r
      <4> QED
        BY <3>3, <3>4, <3>5, <3>6
    <3> QED
      BY <3>7
  <2> QED
    BY <2>1, <2>2
<1>3. SUBSET S \subseteq G
  <2> HIDE DEF G
  <2> QED
    BY <1>2, UpFromEmpty
<1> QED
  <2> HIDE DEF Sum
  <2>1. Sum(S) = Sum(T) + Sum(S \ T)
    BY <1>3
  <2> QED
    BY <2>1 DEF Sum

LEMMA MaxMember ==
  ASSUME NEW S \in SUBSET Nat, IsFiniteSet(S), S # {}
  PROVE  Max(S) \in S
<1> DEFINE Greatest(s, m) == \A x \in s : m >= x
           G == {s \in SUBSET S : s # {} => \E m \in s : Greatest(s, m)}
<1>1. ASSUME NEW s \in SUBSET S, \A u \in SUBSET s : u # s => u \in G PROVE s \in G
  <2>1. CASE s = {}
    BY <2>1
  <2>2. CASE s # {}
    <3>1. PICK x \in s : TRUE
      BY <2>2
    <3>2. s \ {x} \in G
      <4> HIDE DEF G
      <4> QED
        BY <1>1
    <3>3. CASE s \ {x} = {}
      <4>1. Greatest(s, x)
        BY <3>3
      <4> QED
        BY <4>1
    <3>4. CASE s \ {x} # {}
      <4>1. PICK m \in s \ {x} : Greatest(s \ {x}, m)
        BY <3>2, <3>4
      <4>2. m \in Nat /\ x \in Nat
        OBVIOUS
      <4>3. CASE m >= x
        <5>1. Greatest(s, m)
          BY <4>1, <4>3
        <5> QED
          BY <5>1
      <4>4. CASE ~(m >= x)
        <5>1. Greatest(s, x)
          BY <4>1, <4>2, <4>4
        <5> QED
          BY <5>1
      <4> QED
        BY <4>3, <4>4
    <3> QED
      BY <3>3, <3>4
  <2> QED
    BY <2>1, <2>2
<1>2. SUBSET S \subseteq G
  <2> HIDE DEF G
  <2> QED
    BY <1>1, UpFromEmpty
<1>3. \E m \in S : Greatest(S, m)
  BY <1>2
<1> QED
  BY <1>3 DEF Max

\* What holds of nothing, and of a set once it holds of the rest of it, holds.
LEMMA StaysByRest ==
  ASSUME NEW D, IsFiniteSet(D), NEW V, NEW h, h[{}] \in V, NEW c,
         \A d \in SUBSET D : d # {} => c[d] \in d,
         \A d \in SUBSET D : d # {} /\ h[d \ {c[d]}] \in V => h[d] \in V
  PROVE  \A d \in SUBSET D : h[d] \in V
<1> DEFINE G == {d \in SUBSET D : h[d] \in V}
<1>1. ASSUME NEW d \in SUBSET D, \A u \in SUBSET d : u # d => u \in G PROVE d \in G
  <2>1. CASE d = {}
    BY <2>1
  <2>2. CASE d # {}
    <3>1. c[d] \in d
      BY <2>2
    <3>2. h[d \ {c[d]}] \in V
      BY <1>1, <3>1
    <3> QED
      BY <2>2, <3>2
  <2> QED
    BY <2>1, <2>2
<1>2. SUBSET D \subseteq G
  <2> HIDE DEF G
  <2> QED
    BY <1>1, UpFromEmpty
<1> QED
  BY <1>2

\* What is put one key after the other: each on what the keys before it left.
PutUpTo(h, s, order, size) ==
  h = [d \in SUBSET DOMAIN order |->
         IF d = {} THEN s ELSE Put(h[d \ {Max(d)}], order[Max(d)], size[order[Max(d)]])]

\* PutAll stays in any set of stores that Put does not leave.
LEMMA PutAllStays ==
  ASSUME NEW V, NEW s \in V, NEW keys, IsFiniteSet(keys), NEW order \in SetToSeqs(keys), NEW size,
         \A x \in V, k \in keys : Put(x, k, size[k]) \in V
  PROVE  PutAll(s, order, size) \in V
<1> DEFINE D == DOMAIN order
           c == [d \in SUBSET D |-> Max(d)]
           F == [p \in D \X V |-> Put(p[2], order[p[1]], size[order[p[1]]])]
<1>1. D = 1..Cardinality(keys) /\ order \in [D -> keys]
  BY DEF SetToSeqs
<1>2. IsFiniteSet(D) /\ D \in SUBSET Nat
  <2>1. Cardinality(keys) \in Nat
    BY FS_CardinalityType
  <2>2. IsFiniteSet(1..Cardinality(keys))
    BY <2>1, FS_Interval
  <2> QED
    BY <1>1, <2>1, <2>2
<1>3. ASSUME NEW d \in SUBSET D, d # {} PROVE Max(d) \in d
  <2>1. IsFiniteSet(d) /\ d \in SUBSET Nat
    BY <1>2, FS_Subset
  <2> QED
    BY <1>3, <2>1, MaxMember
<1>4. F \in [D \X V -> V]
  BY <1>1
<1>5. PICK f \in [SUBSET D -> V] : Folds(f, D, s, c, F)
  <2>1. \A d \in SUBSET D : d # {} => c[d] \in d
    BY <1>3
  <2> HIDE DEF D, c, F
  <2> QED
    BY <1>2, <1>4, <2>1, FoldExists
<1>6. PutUpTo(f, s, order, size)
  <2>1. ASSUME NEW d \in SUBSET D, d # {}
        PROVE  F[<<c[d], f[d \ {c[d]}]>>] = Put(f[d \ {Max(d)}], order[Max(d)], size[order[Max(d)]])
    <3>1. c[d] = Max(d) /\ Max(d) \in D /\ d \ {Max(d)} \in SUBSET D
      BY <1>3, <2>1
    <3>2. f[d \ {Max(d)}] \in V
      BY <3>1
    <3> QED
      BY <3>1, <3>2
  <2>2. f = [d \in SUBSET D |-> IF d = {} THEN s ELSE F[<<c[d], f[d \ {c[d]}]>>]]
    BY <1>5 DEF Folds
  <2>3. f = [d \in SUBSET D |-> IF d = {} THEN s
                                ELSE Put(f[d \ {Max(d)}], order[Max(d)], size[order[Max(d)]])]
    <3> HIDE DEF D, c, F
    <3> QED
      BY <2>1, <2>2
  <2> QED
    BY <2>3 DEF PutUpTo
<1> DEFINE h == CHOOSE h : PutUpTo(h, s, order, size)
           G == {d \in SUBSET D : h[d] \in V}
<1>7. PutUpTo(h, s, order, size)
  BY <1>6
<1>8. PutAll(s, order, size) = h[D]
  BY DEF PutAll, FoldLeft, MapThenFoldSet, PutUpTo
<1> HIDE DEF h
<1>9. \A d \in SUBSET D : h[d] \in V
  <2>1. ASSUME NEW d \in SUBSET D, d # {}, h[d \ {Max(d)}] \in V PROVE h[d] \in V
    <3>1. Max(d) \in d /\ Max(d) \in D
      BY <1>3, <2>1
    <3>2. order[Max(d)] \in keys
      BY <1>1, <3>1
    <3>3. h[d] = Put(h[d \ {Max(d)}], order[Max(d)], size[order[Max(d)]])
      BY <1>7, <2>1 DEF PutUpTo
    <3> QED
      BY <2>1, <3>2, <3>3
  <2>2. h[{}] \in V
    BY <1>7 DEF PutUpTo
  <2>3. IsFiniteSet(D)
    BY <1>2
  <2>4. \A d \in SUBSET D : d # {} => c[d] \in d /\ c[d] = Max(d)
    BY <1>3
  <2>5. \A d \in SUBSET D : d # {} /\ h[d \ {c[d]}] \in V => h[d] \in V
    BY <2>1, <2>4
  <2> HIDE DEF D, c
  <2> QED
    BY <2>2, <2>3, <2>4, <2>5, StaysByRest
<1> QED
  BY <1>8, <1>9

\* The stores whose sums are those of their entries, held in the order of their
\* insertion: StoreInv is inductive, and Bounded holds between two steps only.
Exact(s) ==
  /\ IsFiniteSet(DOMAIN s.entries)
  /\ s.bytes = Weight(s.entries, DOMAIN s.entries)
  /\ \A g \in Groups : s.group[g] = Weight(s.entries, OfGroup(DOMAIN s.entries, g))

Ordered(s) ==
  \A k \in DOMAIN s.entries :
    /\ s.entries[k].older \subseteq DOMAIN s.entries \ {k}
    /\ \A j \in s.entries[k].older : s.entries[j].older \subseteq s.entries[k].older
    /\ \A j \in DOMAIN s.entries : j = k \/ j \in s.entries[k].older \/ k \in s.entries[j].older

Entries == UNION {[keys -> Entry] : keys \in SUBSET Keys}

Stores == {s \in [entries : Entries, bytes : Nat, group : [Groups -> Nat]] : Exact(s) /\ Ordered(s)}

Bounded == {s \in Stores : s.bytes <= MaxBytes}

LEMMA EntriesType ==
  ASSUME NEW e \in Entries
  PROVE  DOMAIN e \subseteq Keys /\ \A k \in DOMAIN e : e[k] \in Entry
  BY DEF Entries

LEMMA WeightFacts ==
  ASSUME NEW e \in Entries, IsFiniteSet(DOMAIN e), NEW S \in SUBSET DOMAIN e
  PROVE  /\ IsFiniteSet(S)
         /\ Weight(e, S) \in Nat
         /\ \A k \in S : Weight(e, S) = e[k].size + Weight(e, S \ {k})
         /\ \A T \in SUBSET S : Weight(e, S) = Weight(e, T) + Weight(e, S \ T)
<1> DEFINE f == [k \in DOMAIN e |-> e[k].size]
<1>1. IsFiniteSet(S) /\ \A k \in S : f[k] \in Nat
  BY FS_Subset, EntriesType DEF Entry
<1>2. Weight(e, S) \in Nat
  <2> HIDE DEF f
  <2>1. SumFunctionOnSet(f, S) \in Nat
    BY <1>1, SumPicks
  <2> QED
    BY <2>1 DEF Weight, f
<1>3. ASSUME NEW k \in S PROVE Weight(e, S) = e[k].size + Weight(e, S \ {k})
  <2>1. f[k] = e[k].size
    OBVIOUS
  <2> HIDE DEF f
  <2>2. SumFunctionOnSet(f, S) = f[k] + SumFunctionOnSet(f, S \ {k})
    BY <1>1, SumRemove
  <2> QED
    BY <2>1, <2>2 DEF Weight, f
<1>4. ASSUME NEW T \in SUBSET S PROVE Weight(e, S) = Weight(e, T) + Weight(e, S \ T)
  <2> HIDE DEF f
  <2>1. SumFunctionOnSet(f, S) = SumFunctionOnSet(f, T) + SumFunctionOnSet(f, S \ T)
    BY <1>1, SumSplit
  <2> QED
    BY <2>1 DEF Weight, f
<1> QED
  BY <1>1, <1>2, <1>3, <1>4

LEMMA WeightSame ==
  ASSUME NEW e \in Entries, NEW d \in Entries, IsFiniteSet(DOMAIN e), NEW S \in SUBSET DOMAIN e,
         S \subseteq DOMAIN d, \A k \in S : d[k].size = e[k].size
  PROVE  Weight(d, S) = Weight(e, S)
<1> DEFINE f == [k \in DOMAIN e |-> e[k].size]
           g == [k \in DOMAIN d |-> d[k].size]
<1>1. IsFiniteSet(S) /\ \A k \in S : f[k] \in Nat /\ f[k] = g[k]
  BY FS_Subset, EntriesType DEF Entry
<1>2. SumFunctionOnSet(f, S) = SumFunctionOnSet(g, S)
  <2> HIDE DEF f, g
  <2> QED
    BY <1>1, SumSame
<1> QED
  BY <1>2 DEF Weight

\* What is left when some entries are dropped.
LEMMA DropKeeps ==
  ASSUME NEW s \in Stores, NEW keys
  PROVE  /\ Drop(s, keys) \in Stores
         /\ Drop(s, keys).bytes = s.bytes - Weight(s.entries, keys \cap DOMAIN s.entries)
         /\ Drop(s, keys).bytes <= s.bytes
         /\ DOMAIN Drop(s, keys).entries = DOMAIN s.entries \ keys
<1> DEFINE e == s.entries
           H == DOMAIN e
           gone == keys \cap H
           d == [k \in H \ gone |-> [e[k] EXCEPT !.older = @ \ gone]]
           r == Drop(s, keys)
<1>1. e \in Entries /\ s.bytes \in Nat /\ s.group \in [Groups -> Nat] /\ IsFiniteSet(H) /\ Exact(s) /\ Ordered(s)
  BY DEF Stores, Exact
<1>2. r = [entries |-> d, bytes |-> s.bytes - Weight(e, gone),
           group |-> [g \in Groups |-> s.group[g] - Weight(e, OfGroup(gone, g))]]
  BY DEF Drop
<1>3. DOMAIN d = H \ gone /\ H \ gone = H \ keys
  OBVIOUS
<1>4. ASSUME NEW k \in H \ gone
      PROVE  d[k] \in Entry /\ d[k].size = e[k].size /\ d[k].older = e[k].older \ gone
  <2>1. e[k] \in Entry
    BY <1>1, EntriesType
  <2>2. [e[k] EXCEPT !.older = @ \ gone] = [size |-> e[k].size, stale |-> e[k].stale, older |-> e[k].older \ gone]
    BY <2>1 DEF Entry
  <2>3. d[k] = [size |-> e[k].size, stale |-> e[k].stale, older |-> e[k].older \ gone]
    BY <2>2
  <2> HIDE DEF d
  <2> QED
    BY <2>1, <2>3 DEF Entry
<1>5. d \in Entries
  <2>1. H \ gone \in SUBSET Keys
    BY <1>1, EntriesType
  <2>2. d \in [H \ gone -> Entry]
    BY <1>4
  <2> HIDE DEF d, H, gone
  <2> QED
    BY <2>1, <2>2 DEF Entries
<1>6. ASSUME NEW S \in SUBSET H
      PROVE  /\ Weight(d, S \ gone) = Weight(e, S) - Weight(e, S \cap gone)
             /\ Weight(e, S) - Weight(e, S \cap gone) \in Nat
             /\ Weight(e, S) - Weight(e, S \cap gone) <= Weight(e, S)
  <2>1. Weight(e, S) = Weight(e, S \cap gone) + Weight(e, S \ (S \cap gone))
    <3>1. S \cap gone \in SUBSET S
      OBVIOUS
    <3> HIDE DEF e, gone
    <3> QED
      BY <1>1, <3>1, WeightFacts
  <2>2. S \ (S \cap gone) = S \ gone
    OBVIOUS
  <2>3. Weight(d, S \ gone) = Weight(e, S \ gone)
    <3> HIDE DEF d, gone, e
    <3>1. S \ gone \in SUBSET DOMAIN e /\ S \ gone \subseteq DOMAIN d
      BY <1>3
    <3>2. \A k \in S \ gone : d[k].size = e[k].size
      BY <1>4
    <3> QED
      BY <1>1, <1>5, <3>1, <3>2, WeightSame
  <2>4. Weight(e, S) \in Nat /\ Weight(e, S \cap gone) \in Nat /\ Weight(e, S \ gone) \in Nat
    <3> HIDE DEF e, gone
    <3> QED
      BY <1>1, WeightFacts
  <2>5. Weight(e, S) = Weight(e, S \cap gone) + Weight(e, S \ gone)
    BY <2>1, <2>2
  <2> HIDE DEF d, gone, e
  <2> QED
    BY <2>3, <2>4, <2>5
<1>7. Exact(r) /\ r.bytes \in Nat /\ r.bytes <= s.bytes /\ r.group \in [Groups -> Nat]
  <2>1. IsFiniteSet(H \ gone)
    BY <1>1, FS_Subset
  <2>2. r.bytes = Weight(d, H \ gone) /\ r.bytes \in Nat /\ r.bytes <= s.bytes
    <3>1. H \cap gone = gone
      OBVIOUS
    <3>2. s.bytes = Weight(e, H)
      BY <1>1 DEF Exact
    <3>3. r.bytes = s.bytes - Weight(e, gone)
      BY <1>2
    <3> HIDE DEF d, gone, e, r, H
    <3>4. H \in SUBSET H
      OBVIOUS
    <3> QED
      BY <1>6, <3>1, <3>2, <3>3, <3>4
  <2>3. ASSUME NEW g \in Groups
        PROVE  r.group[g] = Weight(d, OfGroup(H \ gone, g)) /\ r.group[g] \in Nat
    <3>1. OfGroup(H, g) \cap gone = OfGroup(gone, g) /\ OfGroup(H, g) \ gone = OfGroup(H \ gone, g)
          /\ OfGroup(H, g) \in SUBSET H
      BY DEF OfGroup
    <3>2. s.group[g] = Weight(e, OfGroup(H, g))
      BY <1>1 DEF Exact
    <3>3. r.group[g] = s.group[g] - Weight(e, OfGroup(gone, g))
      BY <1>2
    <3> HIDE DEF d, gone, e, r, H
    <3> QED
      BY <1>6, <3>1, <3>2, <3>3
  <2>4. r.group \in [Groups -> Nat]
    <3>1. r.group = [g \in Groups |-> s.group[g] - Weight(e, OfGroup(gone, g))]
      BY <1>2
    <3> HIDE DEF d, gone, e, r, H
    <3> QED
      BY <2>3, <3>1
  <2>5. r.entries = d
    BY <1>2
  <2> HIDE DEF d, gone, e, r, H
  <2> QED
    BY <1>3, <2>1, <2>2, <2>3, <2>4, <2>5 DEF Exact
<1>8. Ordered(r)
  <2>1. r.entries = d
    BY <1>2
  <2>2. ASSUME NEW k \in H \ gone
        PROVE  /\ d[k].older \subseteq (H \ gone) \ {k}
               /\ \A j \in d[k].older : d[j].older \subseteq d[k].older
               /\ \A j \in H \ gone : j = k \/ j \in d[k].older \/ k \in d[j].older
    <3>1. /\ e[k].older \subseteq H \ {k}
          /\ \A j \in e[k].older : e[j].older \subseteq e[k].older
          /\ \A j \in H : j = k \/ j \in e[k].older \/ k \in e[j].older
      BY <1>1 DEF Ordered
    <3> HIDE DEF d, gone, e, H
    <3>2. d[k].older = e[k].older \ gone /\ \A j \in H \ gone : d[j].older = e[j].older \ gone
      BY <1>4
    <3> QED
      BY <3>1, <3>2
  <2> HIDE DEF d, gone, e, r, H
  <2> QED
    BY <1>3, <2>1, <2>2 DEF Ordered
<1> QED
  <2>1. r = [entries |-> d, bytes |-> r.bytes, group |-> r.group] /\ r.entries = d
        /\ r.bytes = s.bytes - Weight(e, gone)
    BY <1>2
  <2> HIDE DEF d, r
  <2>2. r \in [entries : Entries, bytes : Nat, group : [Groups -> Nat]]
    BY <1>5, <1>7, <2>1
  <2>3. r \in Stores
    BY <1>7, <1>8, <2>2 DEF Stores
  <2>4. DOMAIN r.entries = H \ keys
    BY <1>3, <2>1
  <2> QED
    BY <1>7, <2>1, <2>3, <2>4 DEF r

\* A key that is not held is kept after all those held.
LEMMA KeepKeeps ==
  ASSUME NEW s \in Stores, NEW k \in Keys, k \notin DOMAIN s.entries, NEW size \in Nat
  PROVE  Keep(s, k, size, DOMAIN s.entries) \in Stores
<1> DEFINE e == s.entries
           H == DOMAIN e
           d == [x \in H \cup {k} |->
                   IF x = k THEN [size |-> size, stale |-> FALSE, older |-> H] ELSE e[x]]
           r == Keep(s, k, size, H)
<1>1. e \in Entries /\ s.bytes \in Nat /\ s.group \in [Groups -> Nat] /\ IsFiniteSet(H) /\ Exact(s) /\ Ordered(s)
  BY DEF Stores, Exact
<1>2. r = [entries |-> d, bytes |-> s.bytes + size,
           group |-> [s.group EXCEPT ![GroupOf[k]] = @ + size]]
  BY DEF Keep
<1>3. /\ DOMAIN d = H \cup {k}
      /\ d[k] = [size |-> size, stale |-> FALSE, older |-> H]
      /\ \A x \in H : d[x] = e[x]
  OBVIOUS
<1>4. H \subseteq Keys /\ \A x \in H : e[x] \in Entry
  BY <1>1, EntriesType
<1>5. d \in Entries
  <2>1. [size |-> size, stale |-> FALSE, older |-> H] \in Entry
    BY <1>4 DEF Entry
  <2>2. d \in [H \cup {k} -> Entry]
    <3> HIDE DEF H, e
    <3> QED
      BY <1>4, <2>1
  <2>3. H \cup {k} \in SUBSET Keys
    BY <1>4
  <2> HIDE DEF d, H
  <2> QED
    BY <2>2, <2>3 DEF Entries
<1>6. IsFiniteSet(H \cup {k})
  BY <1>1, FS_AddElement
<1>7. ASSUME NEW S \in SUBSET H
      PROVE  Weight(d, S) = Weight(e, S) /\ Weight(d, S \cup {k}) = Weight(e, S) + size /\ Weight(e, S) \in Nat
  <2> HIDE DEF d, e
  <2>1. /\ S \in SUBSET DOMAIN e /\ S \subseteq DOMAIN d /\ S \cup {k} \in SUBSET DOMAIN d
        /\ (S \cup {k}) \ {k} = S
        /\ d[k].size = size
        /\ \A x \in S : d[x].size = e[x].size
    <3>1. S \subseteq DOMAIN d /\ S \cup {k} \in SUBSET DOMAIN d
      BY <1>3
    <3>2. (S \cup {k}) \ {k} = S
      BY DEF e
    <3>3. d[k].size = size /\ \A x \in S : d[x].size = e[x].size
      BY <1>3
    <3> QED
      BY <3>1, <3>2, <3>3
  <2>2. Weight(d, S) = Weight(e, S)
    BY <1>1, <1>5, <2>1, WeightSame
  <2>3. Weight(d, S \cup {k}) = d[k].size + Weight(d, (S \cup {k}) \ {k})
    <3>1. k \in S \cup {k} /\ IsFiniteSet(DOMAIN d)
      BY <1>3, <1>6
    <3> HIDE DEF H
    <3> QED
      BY <1>5, <2>1, <3>1, WeightFacts
  <2>4. Weight(e, S) \in Nat
    BY <1>1, <2>1, WeightFacts
  <2>5. Weight(d, S \cup {k}) = size + Weight(d, S)
    BY <2>1, <2>3
  <2> HIDE DEF H
  <2> QED
    BY <2>2, <2>4, <2>5
<1>8. r.entries = d /\ r.bytes = s.bytes + size /\ r.group = [s.group EXCEPT ![GroupOf[k]] = @ + size]
      /\ r = [entries |-> r.entries, bytes |-> r.bytes, group |-> r.group]
  <2> DEFINE n == [s.group EXCEPT ![GroupOf[k]] = @ + size]
  <2>1. r = [entries |-> d, bytes |-> s.bytes + size, group |-> n]
    BY <1>2
  <2> HIDE DEF r, d, n
  <2>2. r.entries = d /\ r.bytes = s.bytes + size /\ r.group = n
        /\ r = [entries |-> r.entries, bytes |-> r.bytes, group |-> r.group]
    BY <2>1
  <2> QED
    BY <2>2 DEF n
<1>9. r.bytes = Weight(d, H \cup {k}) /\ r.bytes \in Nat
  <2>1. s.bytes = Weight(e, H)
    BY <1>1 DEF Exact
  <2> HIDE DEF d, e, r, H
  <2>2. H \in SUBSET H
    OBVIOUS
  <2> QED
    BY <1>7, <1>8, <2>1, <2>2
<1>10. ASSUME NEW g \in Groups
       PROVE  r.group[g] = Weight(d, OfGroup(H \cup {k}, g)) /\ r.group[g] \in Nat
  <2>1. s.group[g] = Weight(e, OfGroup(H, g)) /\ OfGroup(H, g) \in SUBSET H
    BY <1>1 DEF Exact, OfGroup
  <2>2. CASE g = GroupOf[k]
    <3>1. OfGroup(H \cup {k}, g) = OfGroup(H, g) \cup {k}
      BY <2>2 DEF OfGroup
    <3> HIDE DEF d, e, r, H
    <3>2. r.group[g] = s.group[g] + size
      BY <1>1, <1>8, <2>2
    <3> QED
      BY <1>7, <2>1, <3>1, <3>2
  <2>3. CASE g # GroupOf[k]
    <3>1. OfGroup(H \cup {k}, g) = OfGroup(H, g)
      BY <2>3 DEF OfGroup
    <3> HIDE DEF d, e, r, H
    <3>2. r.group[g] = s.group[g]
      BY <1>1, <1>8, <2>3
    <3> QED
      BY <1>7, <2>1, <3>1, <3>2
  <2> QED
    BY <2>2, <2>3
<1>11. Exact(r)
  <2> HIDE DEF d, e, r, H
  <2> QED
    BY <1>3, <1>6, <1>8, <1>9, <1>10 DEF Exact
<1>12. Ordered(r)
  <2>1. ASSUME NEW x \in H
        PROVE  /\ e[x].older \subseteq H \ {x}
               /\ \A j \in e[x].older : e[j].older \subseteq e[x].older
               /\ \A j \in H : j = x \/ j \in e[x].older \/ x \in e[j].older
    BY <1>1 DEF Ordered
  <2>2. k \notin H
    OBVIOUS
  <2> HIDE DEF d, e, r, H
  <2>3. d[k].older = H /\ \A x \in H : d[x].older = e[x].older
    BY <1>3
  <2>4. ASSUME NEW x \in H \cup {k}
        PROVE  /\ d[x].older \subseteq (H \cup {k}) \ {x}
               /\ \A j \in d[x].older : d[j].older \subseteq d[x].older
               /\ \A j \in H \cup {k} : j = x \/ j \in d[x].older \/ x \in d[j].older
    BY <2>1, <2>2, <2>3
  <2> QED
    BY <1>3, <1>8, <2>4 DEF Ordered
<1> QED
  <2>1. r.group \in [Groups -> Nat]
    <3> HIDE DEF d, e, r, H
    <3>1. DOMAIN r.group = Groups /\ r.group = [g \in Groups |-> r.group[g]]
      BY <1>1, <1>8
    <3> QED
      BY <1>10, <3>1
  <2> HIDE DEF d, r
  <2>2. r \in [entries : Entries, bytes : Nat, group : [Groups -> Nat]]
    BY <1>5, <1>8, <1>9, <2>1
  <2>3. r \in Stores
    BY <1>11, <1>12, <2>2 DEF Stores
  <2> QED
    BY <2>3 DEF r, H, e

\* Dropping the oldest, as long as the rest is too heavy, is enough.
LEMMA EvictKeeps ==
  ASSUME NEW s \in Stores
  PROVE  Evict(s) \in Bounded
<1> USE CacheAssumption
<1> DEFINE e == s.entries
           H == DOMAIN e
           D == Excess(s)
<1>1. e \in Entries /\ s.bytes \in Nat /\ IsFiniteSet(H) /\ s.bytes = Weight(e, H) /\ Ordered(s)
  BY DEF Stores, Exact
<1>2. D \subseteq H /\ \A k \in H : k \in D <=> s.bytes - Weight(e, e[k].older) > MaxBytes
  BY DEF Excess
<1>3. Evict(s) \in Stores /\ Evict(s).bytes = s.bytes - Weight(e, D)
  <2>1. D \cap H = D
    BY <1>2
  <2>2. Drop(s, D) \in Stores /\ Drop(s, D).bytes = s.bytes - Weight(e, D \cap H)
    BY DropKeeps
  <2> QED
    BY <2>1, <2>2 DEF Evict
<1>4. s.bytes - Weight(e, D) <= MaxBytes
  <2>1. CASE D = H
    <3> HIDE DEF D, H, e
    <3> QED
      BY <1>1, <2>1
  <2>2. CASE D # H
    <3> DEFINE Reached == {e[k].older : k \in H \ D}
    <3>1. Reached \subseteq FiniteSubsetsOf(H) /\ Reached # {}
      <4>1. ASSUME NEW k \in H PROVE e[k].older \in SUBSET H /\ IsFiniteSet(e[k].older)
        <5>1. e[k].older \in SUBSET H
          BY <1>1 DEF Ordered
        <5> HIDE DEF H
        <5> QED
          BY <1>1, <5>1, FS_Subset
      <4> HIDE DEF H, e, D
      <4> QED
        BY <1>2, <2>2, <4>1 DEF FiniteSubsetsOf
    <3>2. PICK u \in Reached : \A v \in Reached : <<v, u>> \notin StrictSubsetOrdering(H)
      <4> HIDE DEF Reached, H
      <4> QED
        BY <3>1, FS_StrictSubsetOrderingWellFounded, WFMin
    <3>3. PICK k \in H \ D : u = e[k].older
      OBVIOUS
    <3>4. /\ e[k].older \subseteq H \ {k}
          /\ \A j \in e[k].older : e[j].older \subseteq e[k].older /\ j \notin e[j].older
          /\ \A j \in H : j = k \/ j \in e[k].older \/ k \in e[j].older
      BY <1>1, <3>3 DEF Ordered
    <3>5. e[k].older \subseteq D
      <4>1. ASSUME NEW j \in e[k].older, j \notin D PROVE FALSE
        <5>1. j \in H /\ e[j].older \subseteq u /\ e[j].older # u /\ u \subseteq H
          BY <3>3, <3>4
        <5>2. e[j].older \in Reached
          BY <4>1, <5>1
        <5>3. <<e[j].older, u>> \in StrictSubsetOrdering(H)
          BY <5>1 DEF StrictSubsetOrdering
        <5> QED
          BY <3>2, <5>2, <5>3
      <4> QED
        BY <4>1
    <3>6. D \subseteq e[k].older
      <4>1. ASSUME NEW j \in D, j \notin e[k].older PROVE FALSE
        <5>1. j \in H /\ k \in e[j].older
          BY <1>2, <3>3, <3>4, <4>1
        <5>2. e[k].older \subseteq e[j].older /\ e[j].older \in SUBSET H
          BY <1>1, <5>1 DEF Ordered
        <5>3. Weight(e, e[j].older) = Weight(e, e[k].older) + Weight(e, e[j].older \ e[k].older)
              /\ Weight(e, e[j].older) \in Nat /\ Weight(e, e[k].older) \in Nat
              /\ Weight(e, e[j].older \ e[k].older) \in Nat
          <6> DEFINE S == e[j].older
                     T == e[k].older
          <6>1. T \in SUBSET S /\ S \in SUBSET H /\ T \in SUBSET H /\ S \ T \in SUBSET H
            BY <5>2
          <6> HIDE DEF S, T, e
          <6>2. IsFiniteSet(DOMAIN e) /\ e \in Entries /\ S \in SUBSET DOMAIN e
                /\ T \in SUBSET DOMAIN e /\ S \ T \in SUBSET DOMAIN e
            BY <1>1, <6>1
          <6>3. Weight(e, S) = Weight(e, T) + Weight(e, S \ T) /\ Weight(e, S) \in Nat
            BY <6>1, <6>2, WeightFacts
          <6>4. Weight(e, T) \in Nat
            BY <6>2, WeightFacts
          <6>5. Weight(e, S \ T) \in Nat
            BY <6>2, WeightFacts
          <6> QED
            BY <6>3, <6>4, <6>5 DEF S, T
        <5>4. s.bytes - Weight(e, e[j].older) > MaxBytes
          BY <1>2, <4>1, <5>1
        <5>5. ~(s.bytes - Weight(e, e[k].older) > MaxBytes)
          BY <1>2, <3>3
        <5> HIDE DEF e, D, H
        <5> QED
          BY <1>1, <5>3, <5>4, <5>5
      <4> QED
        BY <4>1
    <3>7. D = e[k].older
      BY <3>5, <3>6
    <3>8. ~(s.bytes - Weight(e, e[k].older) > MaxBytes)
      BY <1>2, <3>3
    <3>9. Weight(e, e[k].older) \in Nat
      <4>1. e[k].older \in SUBSET H
        BY <3>4
      <4> HIDE DEF e
      <4> QED
        BY <1>1, <4>1, WeightFacts
    <3> HIDE DEF e, D, H
    <3> QED
      BY <1>1, <3>7, <3>8, <3>9
  <2> QED
    BY <2>1, <2>2
<1> HIDE DEF D, e
<1> QED
  BY <1>3, <1>4 DEF Bounded

LEMMA PutKeeps ==
  ASSUME NEW s \in Bounded, NEW k \in Keys, NEW size \in Nat
  PROVE  Put(s, k, size) \in Bounded
<1> DEFINE freed == Drop(s, {k})
<1>1. freed \in Stores /\ freed.bytes <= s.bytes /\ k \notin DOMAIN freed.entries
  <2>1. s \in Stores
    BY DEF Bounded
  <2>2. freed \in Stores /\ freed.bytes <= s.bytes /\ DOMAIN freed.entries = DOMAIN s.entries \ {k}
    <3> HIDE DEF freed
    <3>1. freed = Drop(s, {k})
      BY DEF freed
    <3> QED
      BY <2>1, <3>1, DropKeeps
  <2> QED
    BY <2>2
<1>2. CASE size > MaxBytes
  <2>1. freed \in Bounded
    <3>1. freed.bytes \in Nat /\ s.bytes \in Nat /\ s.bytes <= MaxBytes
      BY <1>1 DEF Bounded, Stores
    <3> HIDE DEF freed
    <3> QED
      BY <1>1, <3>1, CacheAssumption DEF Bounded
  <2> QED
    BY <1>2, <2>1 DEF Put
<1>3. CASE ~(size > MaxBytes)
  <2>1. Keep(freed, k, size, DOMAIN freed.entries) \in Stores
    <3> HIDE DEF freed
    <3> QED
      BY <1>1, KeepKeeps
  <2>2. Evict(Keep(freed, k, size, DOMAIN freed.entries)) \in Bounded
    BY <2>1, EvictKeeps
  <2> QED
    BY <1>3, <2>2 DEF Put
<1> QED
  BY <1>2, <1>3

LEMMA BoundedDrop ==
  ASSUME NEW s \in Bounded, NEW keys
  PROVE  Drop(s, keys) \in Bounded
<1> DEFINE r == Drop(s, keys)
<1>1. s \in Stores /\ s.bytes \in Nat /\ s.bytes <= MaxBytes
  BY DEF Bounded, Stores
<1>2. r \in Stores /\ r.bytes <= s.bytes
  BY <1>1, DropKeeps
<1>3. r.bytes \in Nat
  BY <1>2 DEF Stores
<1> HIDE DEF r
<1>4. r \in Bounded
  BY <1>1, <1>2, <1>3, CacheAssumption DEF Bounded
<1> QED
  BY <1>4 DEF r

\* An entry that grows stale weighs what it did.
LEMMA BoundedAge ==
  ASSUME NEW s \in Bounded, NEW k \in DOMAIN s.entries
  PROVE  [s EXCEPT !.entries[k].stale = TRUE] \in Bounded
<1> DEFINE e == s.entries
           H == DOMAIN e
           d == [e EXCEPT ![k].stale = TRUE]
           r == [s EXCEPT !.entries[k].stale = TRUE]
<1>1. e \in Entries /\ s.bytes \in Nat /\ s.group \in [Groups -> Nat] /\ IsFiniteSet(H) /\ Exact(s) /\ Ordered(s)
      /\ s.bytes <= MaxBytes /\ s = [entries |-> e, bytes |-> s.bytes, group |-> s.group]
  BY DEF Bounded, Stores, Exact
<1>2. r.entries = d /\ r.bytes = s.bytes /\ r.group = s.group
      /\ r = [entries |-> r.entries, bytes |-> r.bytes, group |-> r.group]
  <2>1. r = [s EXCEPT !.entries = d]
    OBVIOUS
  <2> HIDE DEF d, r
  <2>2. r = [entries |-> d, bytes |-> s.bytes, group |-> s.group]
    BY <1>1, <2>1
  <2> QED
    BY <2>2
<1>3. ASSUME NEW x \in H PROVE d[x] \in Entry /\ d[x].size = e[x].size /\ d[x].older = e[x].older
  <2>1. e[x] \in Entry
    BY <1>1, EntriesType
  <2>2. d[x] = IF x = k THEN [e[x] EXCEPT !.stale = TRUE] ELSE e[x]
    OBVIOUS
  <2> HIDE DEF d, H, e
  <2>3. [e[x] EXCEPT !.stale = TRUE] \in Entry
    BY <2>1 DEF Entry
  <2>4. [e[x] EXCEPT !.stale = TRUE].size = e[x].size /\ [e[x] EXCEPT !.stale = TRUE].older = e[x].older
    BY <2>1 DEF Entry
  <2> QED
    BY <2>1, <2>2, <2>3, <2>4
<1>4. DOMAIN d = H
  OBVIOUS
<1>5. d \in Entries
  <2>1. H \in SUBSET Keys
    BY <1>1, EntriesType
  <2>2. d \in [H -> Entry]
    <3>1. d = [x \in H |-> d[x]]
      OBVIOUS
    <3> HIDE DEF d, H
    <3> QED
      BY <1>3, <3>1
  <2> HIDE DEF d, H
  <2> QED
    BY <2>1, <2>2 DEF Entries
<1>6. ASSUME NEW S \in SUBSET H PROVE Weight(d, S) = Weight(e, S)
  <2>1. S \in SUBSET DOMAIN e /\ S \subseteq DOMAIN d /\ \A x \in S : d[x].size = e[x].size
    <3> HIDE DEF d
    <3> QED
      BY <1>3, <1>4
  <2> HIDE DEF d, e
  <2> QED
    BY <1>1, <1>5, <2>1, WeightSame
<1> HIDE DEF d, e, r, H
<1>7. Exact(r)
  <2>1. H \in SUBSET H /\ \A g \in Groups : OfGroup(H, g) \in SUBSET H
    BY DEF OfGroup
  <2>2. s.bytes = Weight(e, H) /\ \A g \in Groups : s.group[g] = Weight(e, OfGroup(H, g))
    BY <1>1 DEF Exact, e, H
  <2> QED
    BY <1>1, <1>2, <1>4, <1>6, <2>1, <2>2 DEF Exact
<1>8. Ordered(r)
  <2>1. ASSUME NEW x \in H
        PROVE  /\ e[x].older \subseteq H \ {x}
               /\ \A j \in e[x].older : e[j].older \subseteq e[x].older
               /\ \A j \in H : j = x \/ j \in e[x].older \/ x \in e[j].older
    BY <1>1 DEF Ordered, e, H
  <2>2. \A x \in H : d[x].older = e[x].older
    BY <1>3
  <2> QED
    BY <1>2, <1>4, <2>1, <2>2 DEF Ordered
<1>9. r \in [entries : Entries, bytes : Nat, group : [Groups -> Nat]]
  BY <1>1, <1>2, <1>5
<1>10. r \in Bounded
  BY <1>1, <1>2, <1>7, <1>8, <1>9 DEF Bounded, Stores
<1> QED
  BY <1>10 DEF r

StoreInv == store \in Bounded

\* A call asks for finitely many keys, so that one read keeps finitely many.
AskedFinite == \A t \in Tasks : IsFiniteSet(asked[t])

LEMMA StoreInit == Init => StoreInv /\ AskedFinite
<1> SUFFICES ASSUME Init PROVE StoreInv /\ AskedFinite
  OBVIOUS
<1> DEFINE e == [k \in {} |-> 0]
<1>1. store.entries = e /\ store.bytes = 0 /\ store.group = [g \in Groups |-> 0]
      /\ store = [entries |-> store.entries, bytes |-> store.bytes, group |-> store.group]
  BY DEF Init
<1>2. DOMAIN e = {} /\ e \in Entries
  <2>1. e \in [{} -> Entry] /\ {} \in SUBSET Keys
    OBVIOUS
  <2> HIDE DEF e
  <2> QED
    BY <2>1 DEF Entries
<1>3. IsFiniteSet({})
  BY FS_EmptySet
<1>4. Weight(e, {}) = 0
  <2> DEFINE f == [k \in DOMAIN e |-> e[k].size]
  <2> HIDE DEF f
  <2>1. SumFunctionOnSet(f, {}) = 0
    BY <1>3, SumPicks
  <2> QED
    BY <2>1 DEF Weight, f
<1> HIDE DEF e
<1>5. store \in [entries : Entries, bytes : Nat, group : [Groups -> Nat]]
  BY <1>1, <1>2
<1>6. Exact(store)
  <2>1. \A g \in Groups : OfGroup({}, g) = {}
    BY DEF OfGroup
  <2> QED
    BY <1>1, <1>2, <1>3, <1>4, <2>1 DEF Exact
<1>7. Ordered(store)
  BY <1>1, <1>2 DEF Ordered
<1>8. StoreInv
  BY <1>1, <1>5, <1>6, <1>7, CacheAssumption DEF StoreInv, Bounded, Stores
<1>9. AskedFinite
  BY <1>3 DEF Init, AskedFinite
<1> QED
  BY <1>8, <1>9

LEMMA AskedStep == AskedFinite /\ FlightTypeOK /\ [Next]_vars => AskedFinite'
<1> SUFFICES ASSUME AskedFinite, FlightTypeOK, [Next]_vars PROVE AskedFinite'
  OBVIOUS
<1>1. CASE UNCHANGED asked
  BY <1>1 DEF AskedFinite
<1>2. ASSUME NEW t \in Tasks, NEW keys \in SUBSET Keys, Submit(t, keys) PROVE AskedFinite'
  BY <1>2 DEF Submit, AskedFinite, FlightTypeOK
<1> QED
  BY <1>1, <1>2
  DEF Next, Read, Load, Loaded, LoadFails, LoadCancelled, Wake, Cancel, Abandon, Get, Age, Finished,
      vars, local

LEMMA StoreStep == StoreInv /\ AskedFinite /\ FlightInv /\ [Next]_vars => StoreInv'
<1> SUFFICES ASSUME StoreInv, AskedFinite, FlightInv, [Next]_vars PROVE StoreInv'
  OBVIOUS
<1>1. store \in Bounded
  BY DEF StoreInv
<1>2. CASE UNCHANGED store
  BY <1>1, <1>2 DEF StoreInv
<1>3. ASSUME NEW keys, store' = Drop(store, keys) PROVE StoreInv'
  BY <1>1, <1>3, BoundedDrop DEF StoreInv
<1>4. ASSUME NEW t \in Tasks, Read(t) PROVE StoreInv'
  BY <1>3, <1>4 DEF Read
<1>5. ASSUME NEW t \in Tasks, Load(t) PROVE StoreInv'
  <2>1. PICK size \in [led[t] -> Sizes], order \in SetToSeqs(led[t]) : Loaded(t, size, order)
    BY <1>5 DEF Load
  <2>2. store' = PutAll(store, order, size) /\ pc[t] = "loading"
    BY <2>1 DEF Loaded
  <2>3. led[t] \in SUBSET Keys /\ IsFiniteSet(led[t])
    <3>1. led[t] \in SUBSET asked[t]
      BY <2>2 DEF FlightInv, FlightTypeOK, Sorted, Ended
    <3>2. IsFiniteSet(asked[t])
      BY DEF AskedFinite
    <3> QED
      BY <3>1, <3>2, FS_Subset DEF FlightInv, FlightTypeOK
  <2>4. \A x \in Bounded, k \in led[t] : Put(x, k, size[k]) \in Bounded
    <3>1. \A k \in led[t] : k \in Keys /\ size[k] \in Nat
      BY <2>3, CacheAssumption
    <3> QED
      BY <3>1, PutKeeps
  <2>5. PutAll(store, order, size) \in Bounded
    BY <1>1, <2>3, <2>4, PutAllStays
  <2> QED
    BY <2>2, <2>5 DEF StoreInv
<1>6. ASSUME NEW k \in Keys, Get(k) PROVE StoreInv'
  BY <1>3, <1>6 DEF Get
<1>7. ASSUME NEW k \in Keys, Age(k) PROVE StoreInv'
  <2>1. k \in DOMAIN store.entries /\ store' = [store EXCEPT !.entries[k].stale = TRUE]
    BY <1>7 DEF Age, Fresh
  <2> QED
    BY <1>1, <2>1, BoundedAge DEF StoreInv
<1> QED
  BY <1>2, <1>4, <1>5, <1>6, <1>7
  DEF Next, Submit, LoadFails, LoadCancelled, Wake, Cancel, Abandon, Finished, vars

LEMMA StoreInvariant == Spec => []StoreInv
<1>1. FlightInv => FlightTypeOK
  BY DEF FlightInv
<1> QED
  BY <1>1, FlightInvariant, StoreInit, StoreStep, AskedStep, PTL DEF Spec

\* Everything the cache and its callers hold keeps its type (load_many, put).
THEOREM TypeCorrect == Spec => []TypeOK
<1>1. StoreInv => StoreTypeOK
  BY DEF StoreInv, Bounded, Stores, StoreTypeOK, Entries
<1> QED
  BY <1>1, StoreInvariant, FlightTypeCorrect, PTL DEF TypeOK

\* The sums that put and _drop keep are those of what is held, in all and by
\* source, and the cache never holds more than its bound.
THEOREM BytesExactHolds == Spec => []BytesExact
<1>1. StoreInv => BytesExact
  BY DEF StoreInv, Bounded, Stores, Exact, BytesExact
<1> QED
  BY <1>1, StoreInvariant, PTL

=============================================================================
