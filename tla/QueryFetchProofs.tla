-------------------------- MODULE QueryFetchProofs --------------------------
(***************************************************************************)
(* The safety properties of QueryFetch, for any number of queries and any  *)
(* modes.  The heart is the handshake between a query about to send its    *)
(* statement and the stop that reaches it meanwhile: the query sets        *)
(* executing and then reads cancelled, the stop sets cancelled and then    *)
(* reads executing, so one of the two sees the other.                      *)
(***************************************************************************)
EXTENDS QueryFetch, TLAPS

AsksCancel(q) == "cancel" \in mode[q]

Early == {"new", "asked", "timed"}
Live  == {"watched", "armed", "sending", "executing", "fetching"}
Reads == {"sending", "executing", "fetching"}
After == {"closing", "forgetting", "disarming", "closed"}

\* The canceller: what it took, what it started.
SignalInv ==
  /\ given <=> canceller # "idle"
  /\ given => stops = {}
  /\ toStop # {} => given
  /\ canceller = "waited" =>
       toStop = {} /\ inline = NoQuery /\ \A q \in Queries : helper[q]["stop"] \notin Working
  /\ inline # NoQuery => canceller = "starting"

\* A stop is registered, taken or started only for a query that watches.
WatchInv ==
  \A q \in Queries :
    /\ q \in stops \/ q \in toStop \/ helper[q]["stop"] # "off" \/ cancelled[q] =>
         pc[q] \notin Early /\ AsksCancel(q)
    /\ helper[q]["stop"] # "off" \/ cancelled[q] => given
    /\ q \in toStop => helper[q]["stop"] = "off"
    /\ helper[q]["stop"] # "armed"
    /\ pc[q] \in Live /\ AsksCancel(q) =>
         IF given THEN q \in toStop \/ helper[q]["stop"] # "off" \/ cancelled[q]
                  ELSE q \in stops

\* The handshake.
HandshakeInv ==
  \A q \in Queries :
    /\ helper[q]["stop"] \notin {"off", "begin"} => cancelled[q]
    /\ AsksCancel(q) /\ pc[q] \in Reads \cup {"armed"} => executing[q]
    /\ AsksCancel(q) /\ pc[q] \in Reads /\ cancelled[q] => helper[q]["stop"] \notin {"off", "begin"}
    /\ AsksCancel(q) /\ pc[q] \in Reads /\ helper[q]["stop"] = "ended" => stmt[q] \in Terminal
    /\ helper[q]["stop"] = "failed" => lost[q]

\* The statement, as the thread of its query knows it.
StatementInv ==
  \A q \in Queries :
    /\ pc[q] \in Early \cup {"watched", "armed", "sending"} => stmt[q] = "unsent"
    /\ pc[q] \in {"executing", "fetching"} => stmt[q] # "unsent"
    /\ pc[q] = "fetching" => stmt[q] # "sent"
    /\ done[q] => pc[q] \notin Live \cup Early
    /\ \A w \in Helpers : knew[q][w] => HasName(q)
    /\ \A w \in Helpers :
         knew[q][w] /\ helper[q][w] # "cancel" => stmt[q] # "named" \/ lost[q]
    /\ \A w \in Helpers : helper[q][w] \in {"loop", "cancel"} => expired[q]
    /\ stmt[q] = "cancelled" /\ pc[q] \in Live => expired[q]

\* The outcome, and what a query leaves.
OutcomeInv ==
  \A q \in Queries :
    /\ pc[q] \in Early \cup Live => outcome[q] = "none" /\ got[q] = "none"
    /\ pc[q] \in {"new", "asked"} => helper[q]["timer"] = "off" /\ ~expired[q]
    /\ expired[q] => cancelled[q] \/ helper[q]["timer"] \notin {"off", "armed"}
    /\ pc[q] \in After =>
         IF outcome[q] # "none" THEN Running(q) => got[q] = "gaveUp"
         ELSE /\ stmt[q] \notin {"unsent", "sent"}
              /\ \/ expired[q]
                 \/ got[q] = "more"
                 \/ got[q] = "all" /\ stmt[q] = "finished"
    /\ pc[q] \in {"disarming", "closed", "ended"} => q \notin stops
    /\ pc[q] \in {"closed", "ended"} => helper[q]["timer"] # "armed"
    /\ outcome[q] = "rows" => pc[q] = "ended"

\* What EndedLeavesNothing says, but for the helpers that knew the name.
LeftInv ==
  \A q \in Queries : pc[q] = "ended" =>
    /\ Running(q) => lost[q] \/ got[q] = "gaveUp"
    /\ q \notin stops
    /\ helper[q]["timer"] # "armed"

EndInv == OutcomeTellsWhy /\ LeftInv /\ AnswerIsWhole

IInv == TypeOK /\ SignalInv /\ WatchInv /\ HandshakeInv /\ StatementInv /\ OutcomeInv /\ EndInv

-----------------------------------------------------------------------------
(* Every step keeps every part of the invariant: one step of the proof for  *)
(* each action that changes what the part is about.                        *)

LEMMA TypeStep ==
  ASSUME TypeOK, [Next]_vars
  PROVE  TypeOK'
<1> USE FetchAssumption DEF Outcomes, Terminal, Steps, Working, Helpers, Stopped, HasName
<1>1. ASSUME NEW q \in Queries, NEW m \in Modes, Ask(q, m) PROVE TypeOK'
  <2>1. /\ \E to \in {"ended", "sending", "asked"} : pc' = [pc EXCEPT ![q] = to]
        /\ outcome' = [outcome EXCEPT ![q] = "stopped"] \/ outcome' = outcome
    BY <1>1, Zenon DEF Ask
  <2>2. mode' \in [Queries -> Modes \cup {{}}]
    BY <1>1 DEF TypeOK, Ask
  <2>3. pc' \in [Queries -> Steps] /\ outcome' \in [Queries -> Outcomes \cup {"none"}]
    <3>1. PICK to \in {"ended", "sending", "asked"} : pc' = [pc EXCEPT ![q] = to]
      BY <2>1
    <3>2. to \in Steps /\ "stopped" \in Outcomes
      BY <3>1
    <3> HIDE DEF Steps, Outcomes
    <3>3. pc' \in [Queries -> Steps]
      BY <3>1, <3>2 DEF TypeOK
    <3>4. outcome' \in [Queries -> Outcomes \cup {"none"}]
      BY <2>1, <3>2 DEF TypeOK
    <3>5. QED
      BY <3>3, <3>4
  <2>4. UNCHANGED <<stmt, events, got, helper, knew, lost, signal>>
    BY <1>1 DEF Ask
  <2> HIDE DEF Outcomes, Terminal, Steps, Working, Helpers, Stopped, HasName
  <2>5. QED
    BY <2>2, <2>3, <2>4 DEF TypeOK, signal, events
<1>2. ASSUME NEW q \in Queries, StartTimer(q) PROVE TypeOK'
  BY <1>2 DEF TypeOK, StartTimer, Go, signal, events
<1>3. ASSUME NEW q \in Queries, Watch(q) PROVE TypeOK'
  BY <1>3 DEF TypeOK, Watch, Go, signal, events
<1>4. ASSUME NEW q \in Queries, SetExecuting(q) PROVE TypeOK'
  BY <1>4 DEF TypeOK, SetExecuting, Go, signal, events
<1>5. ASSUME NEW q \in Queries, CheckCancelled(q) PROVE TypeOK'
  BY <1>5 DEF TypeOK, CheckCancelled, Go, signal, events
<1>6. ASSUME NEW q \in Queries, Send(q) PROVE TypeOK'
  BY <1>6 DEF TypeOK, Send, Go, signal, events
<1>7. ASSUME NEW q \in Queries, Executed(q) PROVE TypeOK'
  BY <1>7 DEF TypeOK, Executed, Go, signal, events
<1>8. ASSUME NEW q \in Queries, NEW rows \in {"all", "more"}, Fetched(q, rows) PROVE TypeOK'
  BY <1>8 DEF TypeOK, Fetched, Go, signal, events
<1>9. ASSUME NEW q \in Queries, Raises(q) PROVE TypeOK'
  BY <1>9 DEF TypeOK, Raises, signal, events
<1>10. ASSUME NEW q \in Queries, GivesUp(q) PROVE TypeOK'
  BY <1>10 DEF TypeOK, GivesUp, signal, events
<1>11. ASSUME NEW q \in Queries, SetDone(q) PROVE TypeOK'
  BY <1>11 DEF TypeOK, SetDone, Go, signal, events
<1>12. ASSUME NEW q \in Queries, Forget(q) PROVE TypeOK'
  BY <1>12 DEF TypeOK, Forget, Go, signal, events
<1>13. ASSUME NEW q \in Queries, Disarm(q) PROVE TypeOK'
  BY <1>13 DEF TypeOK, Disarm, Go, signal, events
<1>14. ASSUME NEW q \in Queries, Conclude(q) PROVE TypeOK'
  <2>1. pc' \in [Queries -> Steps]
    BY <1>14 DEF TypeOK, Conclude, Go
  <2>2. outcome' \in [Queries -> Outcomes \cup {"none"}]
    BY <1>14 DEF TypeOK, Conclude
  <2>3. stmt' \in [Queries -> {"unsent", "sent", "named"} \cup Terminal]
    <3>1. stmt' = [stmt EXCEPT ![q] = "cancelled"] \/ stmt' = stmt
      BY <1>14 DEF Conclude
    <3>2. QED
      BY <3>1 DEF TypeOK
  <2>4. lost' \in [Queries -> BOOLEAN]
    <3>1. lost' = [lost EXCEPT ![q] = TRUE] \/ lost' = lost
      BY <1>14 DEF Conclude
    <3>2. QED
      BY <3>1 DEF TypeOK
  <2>5. UNCHANGED <<mode, events, got, helper, knew, signal>>
    BY <1>14 DEF Conclude
  <2> HIDE DEF Outcomes, Terminal, Steps, Working, Helpers, Stopped, HasName
  <2>6. QED
    BY <2>1, <2>2, <2>3, <2>4, <2>5 DEF TypeOK, signal, events
<1>15. ASSUME NEW q \in Queries, TimerFires(q) PROVE TypeOK'
  BY <1>15 DEF TypeOK, TimerFires, Move, OnlyHelper, signal, events
<1>16. ASSUME NEW q \in Queries, StopTells(q) PROVE TypeOK'
  BY <1>16 DEF TypeOK, StopTells, Move, OnlyHelper, signal, events
<1>17. ASSUME NEW q \in Queries, StopLooks(q) PROVE TypeOK'
  BY <1>17 DEF TypeOK, StopLooks, Move, OnlyHelper, signal, events
<1>18. ASSUME NEW q \in Queries, NEW w \in Helpers, Expire(q, w) PROVE TypeOK'
  BY <1>18 DEF TypeOK, Expire, Move, OnlyHelper, signal, events
<1>19. ASSUME NEW q \in Queries, NEW w \in Helpers, Look(q, w) PROVE TypeOK'
  BY <1>19 DEF TypeOK, Look, Move, OnlyHelper, signal, events
<1>20. ASSUME NEW q \in Queries, NEW w \in Helpers, CancelQuery(q, w) PROVE TypeOK'
  BY <1>20 DEF TypeOK, CancelQuery, Move, OnlyHelper, signal, events
<1>21. ASSUME NEW q \in Queries, NEW w \in Helpers, CancelFails(q, w) PROVE TypeOK'
  BY <1>21 DEF TypeOK, CancelFails, Move, OnlyHelper, signal, events
<1>22. ASSUME Cancel PROVE TypeOK'
  BY <1>22 DEF TypeOK, Cancel, OnlyCanceller, signal, events
<1>23. ASSUME NEW q \in Queries, NEW runsIt \in BOOLEAN, StartStop(q, runsIt) PROVE TypeOK'
  BY <1>23 DEF TypeOK, StartStop, OnlyCanceller, signal, events
<1>24. ASSUME InlineEnds PROVE TypeOK'
  BY <1>24 DEF TypeOK, InlineEnds, OnlyCanceller, signal, events
<1>25. ASSUME Wait PROVE TypeOK'
  BY <1>25 DEF TypeOK, Wait, OnlyCanceller, signal, events
<1>26. ASSUME NEW q \in Queries, Named(q) PROVE TypeOK'
  BY <1>26 DEF TypeOK, Named, OnlyTrino, signal, events
<1>27. ASSUME NEW q \in Queries, Fails(q) PROVE TypeOK'
  BY <1>27 DEF TypeOK, Fails, OnlyTrino, signal, events
<1>28. CASE UNCHANGED vars
  BY <1>28 DEF TypeOK, vars, signal, events
<1>29. QED
  <2>. HIDE DEF Outcomes, Terminal, Steps, Working, Helpers, Stopped, HasName
  <2>. QED
    BY <1>1, <1>2, <1>3, <1>4, <1>5, <1>6, <1>7, <1>8, <1>9, <1>10, <1>11, <1>12, <1>13, <1>14, <1>15,
       <1>16, <1>17, <1>18, <1>19, <1>20, <1>21, <1>22, <1>23, <1>24, <1>25, <1>26, <1>27, <1>28
       DEF Next, Thread, Fetch, Help, Canceller, Finished

LEMMA SignalStep ==
  ASSUME TypeOK, SignalInv, WatchInv, [Next]_vars
  PROVE  SignalInv'
<1> USE FetchAssumption DEF TypeOK, SignalInv, WatchInv, Working, Helpers, AsksCancel, Early
<1>1. ASSUME NEW q \in Queries, StartTimer(q) PROVE SignalInv'
  BY <1>1 DEF StartTimer, Go, signal, events
<1>2. ASSUME NEW q \in Queries, Watch(q) PROVE SignalInv'
  BY <1>2 DEF Watch, Go, signal, events
<1>3. ASSUME NEW q \in Queries, Forget(q) PROVE SignalInv'
  BY <1>3 DEF Forget, Go, signal, events
<1>4. ASSUME NEW q \in Queries, Disarm(q) PROVE SignalInv'
  BY <1>4 DEF Disarm, Go, signal, events
<1>5. ASSUME NEW q \in Queries, TimerFires(q) PROVE SignalInv'
  BY <1>5 DEF TimerFires, Move, OnlyHelper, signal, events
<1>6. ASSUME NEW q \in Queries, StopTells(q) PROVE SignalInv'
  BY <1>6 DEF StopTells, Move, OnlyHelper, signal, events
<1>7. ASSUME NEW q \in Queries, StopLooks(q) PROVE SignalInv'
  BY <1>7 DEF StopLooks, Move, OnlyHelper, signal, events
<1>8. ASSUME NEW q \in Queries, NEW w \in Helpers, Expire(q, w) PROVE SignalInv'
  BY <1>8 DEF Expire, Move, OnlyHelper, signal, events
<1>9. ASSUME NEW q \in Queries, NEW w \in Helpers, Look(q, w) PROVE SignalInv'
  BY <1>9 DEF Look, Move, OnlyHelper, signal, events
<1>10. ASSUME NEW q \in Queries, NEW w \in Helpers, CancelQuery(q, w) PROVE SignalInv'
  BY <1>10 DEF CancelQuery, Move, OnlyHelper, signal, events
<1>11. ASSUME NEW q \in Queries, NEW w \in Helpers, CancelFails(q, w) PROVE SignalInv'
  BY <1>11 DEF CancelFails, Move, OnlyHelper, signal, events
<1>12. ASSUME Cancel PROVE SignalInv'
  BY <1>12 DEF Cancel, OnlyCanceller, signal, events
<1>13. ASSUME NEW q \in Queries, NEW runsIt \in BOOLEAN, StartStop(q, runsIt) PROVE SignalInv'
  BY <1>13 DEF StartStop, OnlyCanceller, signal, events
<1>14. ASSUME InlineEnds PROVE SignalInv'
  BY <1>14 DEF InlineEnds, OnlyCanceller, signal, events
<1>15. ASSUME Wait PROVE SignalInv'
  BY <1>15 DEF Wait, OnlyCanceller, signal, events
<1>16. CASE UNCHANGED <<given, stops, toStop, inline, canceller, helper>>
  BY <1>16
<1>17. QED
  <2>. HIDE DEF TypeOK, SignalInv, WatchInv, Working, Helpers, AsksCancel, Early
  <2>. QED
    BY <1>1, <1>2, <1>3, <1>4, <1>5, <1>6, <1>7, <1>8, <1>9, <1>10, <1>11, <1>12, <1>13, <1>14,
       <1>15, <1>16
       DEF Next, Thread, Fetch, Help, Canceller, Finished, vars, signal, events,
           Ask, SetExecuting, CheckCancelled, Send, Executed, Fetched, Raises, GivesUp, SetDone,
           Conclude, Named, Fails, Go, OnlyTrino

LEMMA WatchStep ==
  ASSUME TypeOK, SignalInv, WatchInv, [Next]_vars
  PROVE  WatchInv'
<1> USE FetchAssumption DEF TypeOK, SignalInv, WatchInv, Working, Helpers, AsksCancel, Early, Live
<1>1. ASSUME NEW q \in Queries, NEW m \in Modes, Ask(q, m) PROVE WatchInv'
  BY <1>1 DEF Ask, signal, events
<1>2. ASSUME NEW q \in Queries, StartTimer(q) PROVE WatchInv'
  BY <1>2 DEF StartTimer, Go, signal, events
<1>3. ASSUME NEW q \in Queries, Watch(q) PROVE WatchInv'
  BY <1>3 DEF Watch, Go, signal, events
<1>4. ASSUME NEW q \in Queries, SetExecuting(q) PROVE WatchInv'
  BY <1>4 DEF SetExecuting, Go, signal, events
<1>5. ASSUME NEW q \in Queries, CheckCancelled(q) PROVE WatchInv'
  BY <1>5 DEF CheckCancelled, Go, signal, events
<1>6. ASSUME NEW q \in Queries, Send(q) PROVE WatchInv'
  BY <1>6 DEF Send, Go, signal, events
<1>7. ASSUME NEW q \in Queries, Executed(q) PROVE WatchInv'
  BY <1>7 DEF Executed, Go, signal, events
<1>8. ASSUME NEW q \in Queries, NEW rows \in {"all", "more"}, Fetched(q, rows) PROVE WatchInv'
  BY <1>8 DEF Fetched, Go, signal, events
<1>9. ASSUME NEW q \in Queries, Raises(q) PROVE WatchInv'
  BY <1>9 DEF Raises, signal, events
<1>10. ASSUME NEW q \in Queries, GivesUp(q) PROVE WatchInv'
  BY <1>10 DEF GivesUp, signal, events
<1>11. ASSUME NEW q \in Queries, SetDone(q) PROVE WatchInv'
  BY <1>11 DEF SetDone, Go, signal, events
<1>12. ASSUME NEW q \in Queries, Forget(q) PROVE WatchInv'
  BY <1>12 DEF Forget, Go, signal, events
<1>13. ASSUME NEW q \in Queries, Disarm(q) PROVE WatchInv'
  BY <1>13 DEF Disarm, Go, signal, events
<1>14. ASSUME NEW q \in Queries, Conclude(q) PROVE WatchInv'
  BY <1>14 DEF Conclude, Go, signal, events
<1>15. ASSUME NEW q \in Queries, TimerFires(q) PROVE WatchInv'
  BY <1>15 DEF TimerFires, Move, OnlyHelper, signal, events
<1>16. ASSUME NEW q \in Queries, StopTells(q) PROVE WatchInv'
  BY <1>16 DEF StopTells, Move, OnlyHelper, signal, events
<1>17. ASSUME NEW q \in Queries, StopLooks(q) PROVE WatchInv'
  BY <1>17 DEF StopLooks, Move, OnlyHelper, signal, events
<1>18. ASSUME NEW q \in Queries, NEW w \in Helpers, Expire(q, w) PROVE WatchInv'
  BY <1>18 DEF Expire, Move, OnlyHelper, signal, events
<1>19. ASSUME NEW q \in Queries, NEW w \in Helpers, Look(q, w) PROVE WatchInv'
  BY <1>19 DEF Look, Move, OnlyHelper, signal, events
<1>20. ASSUME NEW q \in Queries, NEW w \in Helpers, CancelQuery(q, w) PROVE WatchInv'
  BY <1>20 DEF CancelQuery, Move, OnlyHelper, signal, events
<1>21. ASSUME NEW q \in Queries, NEW w \in Helpers, CancelFails(q, w) PROVE WatchInv'
  BY <1>21 DEF CancelFails, Move, OnlyHelper, signal, events
<1>22. ASSUME Cancel PROVE WatchInv'
  BY <1>22 DEF Cancel, OnlyCanceller, signal, events
<1>23. ASSUME NEW q \in Queries, NEW runsIt \in BOOLEAN, StartStop(q, runsIt) PROVE WatchInv'
  BY <1>23 DEF StartStop, OnlyCanceller, signal, events
<1>24. CASE UNCHANGED <<pc, mode, cancelled, helper, given, stops, toStop>>
  BY <1>24
<1>25. QED
  <2>. HIDE DEF TypeOK, SignalInv, WatchInv, Working, Helpers, AsksCancel, Early, Live
  <2>. QED
    BY <1>1, <1>2, <1>3, <1>4, <1>5, <1>6, <1>7, <1>8, <1>9, <1>10, <1>11, <1>12, <1>13, <1>14, <1>15,
       <1>16, <1>17, <1>18, <1>19, <1>20, <1>21, <1>22, <1>23, <1>24
       DEF Next, Thread, Fetch, Help, Canceller, Finished, vars, signal, events,
           InlineEnds, Wait, Named, Fails, OnlyCanceller, OnlyTrino

LEMMA HandshakeStep ==
  ASSUME TypeOK, SignalInv, WatchInv, HandshakeInv, StatementInv, [Next]_vars
  PROVE  HandshakeInv'
<1> USE FetchAssumption DEF TypeOK, SignalInv, WatchInv, HandshakeInv, StatementInv, Working, Helpers, AsksCancel, Early, Live, Reads, Terminal, HasName, Running
<1>1. ASSUME NEW q \in Queries, NEW m \in Modes, Ask(q, m) PROVE HandshakeInv'
  BY <1>1 DEF Ask, signal, events
<1>2. ASSUME NEW q \in Queries, StartTimer(q) PROVE HandshakeInv'
  BY <1>2 DEF StartTimer, Go, signal, events
<1>3. ASSUME NEW q \in Queries, Watch(q) PROVE HandshakeInv'
  BY <1>3 DEF Watch, Go, signal, events
<1>4. ASSUME NEW q \in Queries, SetExecuting(q) PROVE HandshakeInv'
  BY <1>4 DEF SetExecuting, Go, signal, events
<1>5. ASSUME NEW q \in Queries, CheckCancelled(q) PROVE HandshakeInv'
  BY <1>5 DEF CheckCancelled, Go, signal, events
<1>6. ASSUME NEW q \in Queries, Send(q) PROVE HandshakeInv'
  BY <1>6 DEF Send, Go, signal, events
<1>7. ASSUME NEW q \in Queries, Executed(q) PROVE HandshakeInv'
  BY <1>7 DEF Executed, Go, signal, events
<1>8. ASSUME NEW q \in Queries, NEW rows \in {"all", "more"}, Fetched(q, rows) PROVE HandshakeInv'
  BY <1>8 DEF Fetched, Go, signal, events
<1>9. ASSUME NEW q \in Queries, Raises(q) PROVE HandshakeInv'
  BY <1>9 DEF Raises, signal, events
<1>10. ASSUME NEW q \in Queries, GivesUp(q) PROVE HandshakeInv'
  BY <1>10 DEF GivesUp, signal, events
<1>11. ASSUME NEW q \in Queries, SetDone(q) PROVE HandshakeInv'
  BY <1>11 DEF SetDone, Go, signal, events
<1>12. ASSUME NEW q \in Queries, Forget(q) PROVE HandshakeInv'
  BY <1>12 DEF Forget, Go, signal, events
<1>13. ASSUME NEW q \in Queries, Disarm(q) PROVE HandshakeInv'
  BY <1>13 DEF Disarm, Go, signal, events
<1>14. ASSUME NEW q \in Queries, Conclude(q) PROVE HandshakeInv'
  BY <1>14 DEF Conclude, Go, signal, events
<1>15. ASSUME NEW q \in Queries, TimerFires(q) PROVE HandshakeInv'
  BY <1>15 DEF TimerFires, Move, OnlyHelper, signal, events
<1>16. ASSUME NEW q \in Queries, StopTells(q) PROVE HandshakeInv'
  BY <1>16 DEF StopTells, Move, OnlyHelper, signal, events
<1>17. ASSUME NEW q \in Queries, StopLooks(q) PROVE HandshakeInv'
  BY <1>17 DEF StopLooks, Move, OnlyHelper, signal, events
<1>18. ASSUME NEW q \in Queries, NEW w \in Helpers, Expire(q, w) PROVE HandshakeInv'
  BY <1>18 DEF Expire, Move, OnlyHelper, signal, events
<1>19. ASSUME NEW q \in Queries, NEW w \in Helpers, Look(q, w) PROVE HandshakeInv'
  BY <1>19 DEF Look, Move, OnlyHelper, signal, events
<1>20. ASSUME NEW q \in Queries, NEW w \in Helpers, CancelQuery(q, w) PROVE HandshakeInv'
  BY <1>20 DEF CancelQuery, Move, OnlyHelper, signal, events
<1>21. ASSUME NEW q \in Queries, NEW w \in Helpers, CancelFails(q, w) PROVE HandshakeInv'
  BY <1>21 DEF CancelFails, Move, OnlyHelper, signal, events
<1>22. ASSUME NEW q \in Queries, NEW runsIt \in BOOLEAN, StartStop(q, runsIt) PROVE HandshakeInv'
  BY <1>22 DEF StartStop, OnlyCanceller, signal, events
<1>23. ASSUME NEW q \in Queries, Named(q) PROVE HandshakeInv'
  BY <1>23 DEF Named, OnlyTrino, signal, events
<1>24. ASSUME NEW q \in Queries, Fails(q) PROVE HandshakeInv'
  BY <1>24 DEF Fails, OnlyTrino, signal, events
<1>25. CASE UNCHANGED <<pc, mode, stmt, cancelled, executing, helper, lost>>
  BY <1>25
<1>26. QED
  <2>. HIDE DEF TypeOK, SignalInv, WatchInv, HandshakeInv, StatementInv, Working, Helpers,
               AsksCancel, Early, Live, Reads, Terminal, HasName, Running
  <2>. QED
    BY <1>1, <1>2, <1>3, <1>4, <1>5, <1>6, <1>7, <1>8, <1>9, <1>10, <1>11, <1>12, <1>13, <1>14, <1>15,
       <1>16, <1>17, <1>18, <1>19, <1>20, <1>21, <1>22, <1>23, <1>24, <1>25
       DEF Next, Thread, Fetch, Help, Canceller, Finished, vars, signal, events,
           Cancel, InlineEnds, Wait, OnlyCanceller

LEMMA StatementStep ==
  ASSUME TypeOK, StatementInv, WatchInv, [Next]_vars
  PROVE  StatementInv'
<1> USE FetchAssumption DEF TypeOK, StatementInv, WatchInv, Working, Helpers, AsksCancel, Early, Live, HasName, Running, Terminal
<1>1. ASSUME NEW q \in Queries, NEW m \in Modes, Ask(q, m) PROVE StatementInv'
  BY <1>1 DEF Ask, signal, events
<1>2. ASSUME NEW q \in Queries, StartTimer(q) PROVE StatementInv'
  BY <1>2 DEF StartTimer, Go, signal, events
<1>3. ASSUME NEW q \in Queries, Watch(q) PROVE StatementInv'
  BY <1>3 DEF Watch, Go, signal, events
<1>4. ASSUME NEW q \in Queries, SetExecuting(q) PROVE StatementInv'
  BY <1>4 DEF SetExecuting, Go, signal, events
<1>5. ASSUME NEW q \in Queries, CheckCancelled(q) PROVE StatementInv'
  BY <1>5 DEF CheckCancelled, Go, signal, events
<1>6. ASSUME NEW q \in Queries, Send(q) PROVE StatementInv'
  BY <1>6 DEF Send, Go, signal, events
<1>7. ASSUME NEW q \in Queries, Executed(q) PROVE StatementInv'
  BY <1>7 DEF Executed, Go, signal, events
<1>8. ASSUME NEW q \in Queries, NEW rows \in {"all", "more"}, Fetched(q, rows) PROVE StatementInv'
  BY <1>8 DEF Fetched, Go, signal, events
<1>9. ASSUME NEW q \in Queries, Raises(q) PROVE StatementInv'
  BY <1>9 DEF Raises, signal, events
<1>10. ASSUME NEW q \in Queries, GivesUp(q) PROVE StatementInv'
  BY <1>10 DEF GivesUp, signal, events
<1>11. ASSUME NEW q \in Queries, SetDone(q) PROVE StatementInv'
  BY <1>11 DEF SetDone, Go, signal, events
<1>12. ASSUME NEW q \in Queries, Forget(q) PROVE StatementInv'
  BY <1>12 DEF Forget, Go, signal, events
<1>13. ASSUME NEW q \in Queries, Disarm(q) PROVE StatementInv'
  BY <1>13 DEF Disarm, Go, signal, events
<1>14. ASSUME NEW q \in Queries, Conclude(q) PROVE StatementInv'
  BY <1>14 DEF Conclude, Go, signal, events
<1>15. ASSUME NEW q \in Queries, TimerFires(q) PROVE StatementInv'
  BY <1>15 DEF TimerFires, Move, OnlyHelper, signal, events
<1>16. ASSUME NEW q \in Queries, StopTells(q) PROVE StatementInv'
  BY <1>16 DEF StopTells, Move, OnlyHelper, signal, events
<1>17. ASSUME NEW q \in Queries, StopLooks(q) PROVE StatementInv'
  BY <1>17 DEF StopLooks, Move, OnlyHelper, signal, events
<1>18. ASSUME NEW q \in Queries, NEW w \in Helpers, Expire(q, w) PROVE StatementInv'
  BY <1>18 DEF Expire, Move, OnlyHelper, signal, events
<1>19. ASSUME NEW q \in Queries, NEW w \in Helpers, Look(q, w) PROVE StatementInv'
  BY <1>19 DEF Look, Move, OnlyHelper, signal, events
<1>20. ASSUME NEW q \in Queries, NEW w \in Helpers, CancelQuery(q, w) PROVE StatementInv'
  BY <1>20 DEF CancelQuery, Move, OnlyHelper, signal, events
<1>21. ASSUME NEW q \in Queries, NEW w \in Helpers, CancelFails(q, w) PROVE StatementInv'
  BY <1>21 DEF CancelFails, Move, OnlyHelper, signal, events
<1>22. ASSUME NEW q \in Queries, NEW runsIt \in BOOLEAN, StartStop(q, runsIt) PROVE StatementInv'
  BY <1>22 DEF StartStop, OnlyCanceller, signal, events
<1>23. ASSUME NEW q \in Queries, Named(q) PROVE StatementInv'
  BY <1>23 DEF Named, OnlyTrino, signal, events
<1>24. ASSUME NEW q \in Queries, Fails(q) PROVE StatementInv'
  BY <1>24 DEF Fails, OnlyTrino, signal, events
<1>25. CASE UNCHANGED <<pc, stmt, done, knew, helper, expired, lost>>
  BY <1>25
<1>26. QED
  <2>. HIDE DEF TypeOK, StatementInv, WatchInv, Working, Helpers, AsksCancel, Early, Live,
               HasName, Running, Terminal
  <2>. QED
    BY <1>1, <1>2, <1>3, <1>4, <1>5, <1>6, <1>7, <1>8, <1>9, <1>10, <1>11, <1>12, <1>13, <1>14, <1>15,
       <1>16, <1>17, <1>18, <1>19, <1>20, <1>21, <1>22, <1>23, <1>24, <1>25
       DEF Next, Thread, Fetch, Help, Canceller, Finished, vars, signal, events,
           Cancel, InlineEnds, Wait, OnlyCanceller

LEMMA OutcomeStep ==
  ASSUME TypeOK, SignalInv, WatchInv, HandshakeInv, StatementInv, OutcomeInv, [Next]_vars
  PROVE  OutcomeInv'
<1> USE FetchAssumption DEF TypeOK, SignalInv, WatchInv, HandshakeInv, StatementInv, OutcomeInv, Working, Helpers, AsksCancel, Early, Live, After, HasName, Running, Terminal, Stopped, Outcomes
<1>1. ASSUME NEW q \in Queries, NEW m \in Modes, Ask(q, m) PROVE OutcomeInv'
  BY <1>1 DEF Ask, signal, events
<1>2. ASSUME NEW q \in Queries, StartTimer(q) PROVE OutcomeInv'
  BY <1>2 DEF StartTimer, Go, signal, events
<1>3. ASSUME NEW q \in Queries, Watch(q) PROVE OutcomeInv'
  BY <1>3 DEF Watch, Go, signal, events
<1>4. ASSUME NEW q \in Queries, SetExecuting(q) PROVE OutcomeInv'
  BY <1>4 DEF SetExecuting, Go, signal, events
<1>5. ASSUME NEW q \in Queries, CheckCancelled(q) PROVE OutcomeInv'
  BY <1>5 DEF CheckCancelled, Go, signal, events
<1>6. ASSUME NEW q \in Queries, Send(q) PROVE OutcomeInv'
  BY <1>6 DEF Send, Go, signal, events
<1>7. ASSUME NEW q \in Queries, Executed(q) PROVE OutcomeInv'
  BY <1>7 DEF Executed, Go, signal, events
<1>8. ASSUME NEW q \in Queries, NEW rows \in {"all", "more"}, Fetched(q, rows) PROVE OutcomeInv'
  BY <1>8 DEF Fetched, Go, signal, events
<1>9. ASSUME NEW q \in Queries, Raises(q) PROVE OutcomeInv'
  BY <1>9 DEF Raises, signal, events
<1>10. ASSUME NEW q \in Queries, GivesUp(q) PROVE OutcomeInv'
  BY <1>10 DEF GivesUp, signal, events
<1>11. ASSUME NEW q \in Queries, SetDone(q) PROVE OutcomeInv'
  BY <1>11 DEF SetDone, Go, signal, events
<1>12. ASSUME NEW q \in Queries, Forget(q) PROVE OutcomeInv'
  BY <1>12 DEF Forget, Go, signal, events
<1>13. ASSUME NEW q \in Queries, Disarm(q) PROVE OutcomeInv'
  BY <1>13 DEF Disarm, Go, signal, events
<1>14. ASSUME NEW q \in Queries, Conclude(q) PROVE OutcomeInv'
  BY <1>14 DEF Conclude, Go, signal, events
<1>15. ASSUME NEW q \in Queries, TimerFires(q) PROVE OutcomeInv'
  BY <1>15 DEF TimerFires, Move, OnlyHelper, signal, events
<1>16. ASSUME NEW q \in Queries, StopTells(q) PROVE OutcomeInv'
  BY <1>16 DEF StopTells, Move, OnlyHelper, signal, events
<1>17. ASSUME NEW q \in Queries, StopLooks(q) PROVE OutcomeInv'
  BY <1>17 DEF StopLooks, Move, OnlyHelper, signal, events
<1>18. ASSUME NEW q \in Queries, NEW w \in Helpers, Expire(q, w) PROVE OutcomeInv'
  BY <1>18 DEF Expire, Move, OnlyHelper, signal, events
<1>19. ASSUME NEW q \in Queries, NEW w \in Helpers, Look(q, w) PROVE OutcomeInv'
  BY <1>19 DEF Look, Move, OnlyHelper, signal, events
<1>20. ASSUME NEW q \in Queries, NEW w \in Helpers, CancelQuery(q, w) PROVE OutcomeInv'
  BY <1>20 DEF CancelQuery, Move, OnlyHelper, signal, events
<1>21. ASSUME NEW q \in Queries, NEW w \in Helpers, CancelFails(q, w) PROVE OutcomeInv'
  BY <1>21 DEF CancelFails, Move, OnlyHelper, signal, events
<1>22. ASSUME Cancel PROVE OutcomeInv'
  BY <1>22 DEF Cancel, OnlyCanceller, signal, events
<1>23. ASSUME NEW q \in Queries, NEW runsIt \in BOOLEAN, StartStop(q, runsIt) PROVE OutcomeInv'
  BY <1>23 DEF StartStop, OnlyCanceller, signal, events
<1>24. ASSUME NEW q \in Queries, Named(q) PROVE OutcomeInv'
  BY <1>24 DEF Named, OnlyTrino, signal, events
<1>25. ASSUME NEW q \in Queries, Fails(q) PROVE OutcomeInv'
  BY <1>25 DEF Fails, OnlyTrino, signal, events
<1>26. CASE UNCHANGED <<pc, outcome, got, helper, expired, cancelled, stmt, stops>>
  BY <1>26
<1>27. QED
  <2>. HIDE DEF TypeOK, SignalInv, WatchInv, HandshakeInv, StatementInv, OutcomeInv, Working,
               Helpers, AsksCancel, Early, Live, After, HasName, Running, Terminal, Stopped,
               Outcomes
  <2>. QED
    BY <1>1, <1>2, <1>3, <1>4, <1>5, <1>6, <1>7, <1>8, <1>9, <1>10, <1>11, <1>12, <1>13, <1>14, <1>15,
       <1>16, <1>17, <1>18, <1>19, <1>20, <1>21, <1>22, <1>23, <1>24, <1>25, <1>26
       DEF Next, Thread, Fetch, Help, Canceller, Finished, vars, signal, events,
           InlineEnds, Wait, OnlyCanceller

LEMMA EndStep ==
  ASSUME TypeOK, SignalInv, WatchInv, HandshakeInv, StatementInv, OutcomeInv, EndInv,
         [Next]_vars
  PROVE  EndInv'
<1> USE FetchAssumption DEF TypeOK, SignalInv, WatchInv, HandshakeInv, StatementInv, OutcomeInv,
        EndInv, OutcomeTellsWhy, LeftInv, AnswerIsWhole, Working, Helpers, AsksCancel, Early, Live, After, HasName, Running, Terminal, Stopped, Outcomes
<1>1. ASSUME NEW q \in Queries, NEW m \in Modes, Ask(q, m) PROVE EndInv'
  BY <1>1 DEF Ask, signal, events
<1>2. ASSUME NEW q \in Queries, StartTimer(q) PROVE EndInv'
  BY <1>2 DEF StartTimer, Go, signal, events
<1>3. ASSUME NEW q \in Queries, Watch(q) PROVE EndInv'
  BY <1>3 DEF Watch, Go, signal, events
<1>4. ASSUME NEW q \in Queries, SetExecuting(q) PROVE EndInv'
  BY <1>4 DEF SetExecuting, Go, signal, events
<1>5. ASSUME NEW q \in Queries, CheckCancelled(q) PROVE EndInv'
  BY <1>5 DEF CheckCancelled, Go, signal, events
<1>6. ASSUME NEW q \in Queries, Send(q) PROVE EndInv'
  BY <1>6 DEF Send, Go, signal, events
<1>7. ASSUME NEW q \in Queries, Executed(q) PROVE EndInv'
  BY <1>7 DEF Executed, Go, signal, events
<1>8. ASSUME NEW q \in Queries, NEW rows \in {"all", "more"}, Fetched(q, rows) PROVE EndInv'
  BY <1>8 DEF Fetched, Go, signal, events
<1>9. ASSUME NEW q \in Queries, Raises(q) PROVE EndInv'
  BY <1>9 DEF Raises, signal, events
<1>10. ASSUME NEW q \in Queries, GivesUp(q) PROVE EndInv'
  BY <1>10 DEF GivesUp, signal, events
<1>11. ASSUME NEW q \in Queries, SetDone(q) PROVE EndInv'
  BY <1>11 DEF SetDone, Go, signal, events
<1>12. ASSUME NEW q \in Queries, Forget(q) PROVE EndInv'
  BY <1>12 DEF Forget, Go, signal, events
<1>13. ASSUME NEW q \in Queries, Disarm(q) PROVE EndInv'
  BY <1>13 DEF Disarm, Go, signal, events
<1>14. ASSUME NEW q \in Queries, Conclude(q) PROVE EndInv'
  BY <1>14 DEF Conclude, Go, signal, events
<1>15. ASSUME NEW q \in Queries, TimerFires(q) PROVE EndInv'
  BY <1>15 DEF TimerFires, Move, OnlyHelper, signal, events
<1>16. ASSUME NEW q \in Queries, StopTells(q) PROVE EndInv'
  BY <1>16 DEF StopTells, Move, OnlyHelper, signal, events
<1>17. ASSUME NEW q \in Queries, StopLooks(q) PROVE EndInv'
  BY <1>17 DEF StopLooks, Move, OnlyHelper, signal, events
<1>18. ASSUME NEW q \in Queries, NEW w \in Helpers, Expire(q, w) PROVE EndInv'
  BY <1>18 DEF Expire, Move, OnlyHelper, signal, events
<1>19. ASSUME NEW q \in Queries, NEW w \in Helpers, Look(q, w) PROVE EndInv'
  BY <1>19 DEF Look, Move, OnlyHelper, signal, events
<1>20. ASSUME NEW q \in Queries, NEW w \in Helpers, CancelQuery(q, w) PROVE EndInv'
  BY <1>20 DEF CancelQuery, Move, OnlyHelper, signal, events
<1>21. ASSUME NEW q \in Queries, NEW w \in Helpers, CancelFails(q, w) PROVE EndInv'
  BY <1>21 DEF CancelFails, Move, OnlyHelper, signal, events
<1>22. ASSUME Cancel PROVE EndInv'
  BY <1>22 DEF Cancel, OnlyCanceller, signal, events
<1>23. ASSUME NEW q \in Queries, NEW runsIt \in BOOLEAN, StartStop(q, runsIt) PROVE EndInv'
  BY <1>23 DEF StartStop, OnlyCanceller, signal, events
<1>24. ASSUME NEW q \in Queries, Named(q) PROVE EndInv'
  BY <1>24 DEF Named, OnlyTrino, signal, events
<1>25. ASSUME NEW q \in Queries, Fails(q) PROVE EndInv'
  BY <1>25 DEF Fails, OnlyTrino, signal, events
<1>26. CASE UNCHANGED <<pc, stmt, stops, helper, outcome, given, mode, got, lost>>
  BY <1>26
<1>27. QED
  <2>. HIDE DEF TypeOK, SignalInv, WatchInv, HandshakeInv, StatementInv, OutcomeInv, EndInv,
               OutcomeTellsWhy, LeftInv, AnswerIsWhole, Working, Helpers, AsksCancel,
               Early, Live, After, HasName, Running, Terminal, Stopped, Outcomes
  <2>. QED
    BY <1>1, <1>2, <1>3, <1>4, <1>5, <1>6, <1>7, <1>8, <1>9, <1>10, <1>11, <1>12, <1>13, <1>14, <1>15,
       <1>16, <1>17, <1>18, <1>19, <1>20, <1>21, <1>22, <1>23, <1>24, <1>25, <1>26
       DEF Next, Thread, Fetch, Help, Canceller, Finished, vars, signal, events,
           InlineEnds, Wait, OnlyCanceller

-----------------------------------------------------------------------------
LEMMA InitHolds == Init => IInv
<1> SUFFICES ASSUME Init PROVE IInv
  OBVIOUS
<1> USE FetchAssumption DEF Init, Helpers, Working
<1>1. TypeOK
  BY DEF TypeOK, Steps, Outcomes, Terminal
<1>2. SignalInv /\ WatchInv /\ HandshakeInv
  BY DEF SignalInv, WatchInv, HandshakeInv, AsksCancel, Early, Live, Reads, Terminal
<1>3. StatementInv /\ OutcomeInv
  BY DEF StatementInv, OutcomeInv, Early, Live, After, HasName
<1>4. EndInv
  BY DEF EndInv, OutcomeTellsWhy, LeftInv, AnswerIsWhole, Running
<1>5. QED
  <2>. HIDE DEF Init, Helpers, Working
  <2>. QED
    BY <1>1, <1>2, <1>3, <1>4 DEF IInv

LEMMA StepHolds == IInv /\ [Next]_vars => IInv'
<1> SUFFICES ASSUME IInv, [Next]_vars PROVE IInv'
  OBVIOUS
<1> USE DEF IInv
<1>1. TypeOK'
  BY TypeStep
<1>2. SignalInv'
  BY SignalStep
<1>3. WatchInv'
  BY WatchStep
<1>4. HandshakeInv'
  BY HandshakeStep
<1>5. StatementInv'
  BY StatementStep
<1>6. OutcomeInv'
  BY OutcomeStep
<1>7. EndInv'
  BY EndStep
<1>8. QED
  BY <1>1, <1>2, <1>3, <1>4, <1>5, <1>6, <1>7

LEMMA InvHolds == Spec => []IInv
BY InitHolds, StepHolds, PTL DEF Spec

\* The signal and the query see one another: the handshake of _fetch and stop.
LEMMA Handshake == IInv => StopReaches /\ NothingReadsAfterWait
<1> SUFFICES ASSUME IInv PROVE StopReaches /\ NothingReadsAfterWait
  OBVIOUS
<1>1. ASSUME NEW q \in Queries, given, AsksCancel(q), pc[q] \in Reads,
             ~lost[q], stmt[q] \notin Terminal, canceller # "raised"
      PROVE  Stopping(q) /\ canceller # "waited"
  <2>1. q \in toStop \/ helper[q]["stop"] # "off" \/ cancelled[q]
    BY <1>1 DEF IInv, WatchInv, Reads, Live
  <2>2. q \in toStop \/ helper[q]["stop"] # "off"
    BY <1>1, <2>1 DEF IInv, HandshakeInv
  <2>3. helper[q]["stop"] \in {"off"} \cup Working
    <3>1. helper[q]["stop"] \in {"off", "armed", "ended", "failed"} \cup Working
      BY DEF IInv, TypeOK, Helpers
    <3>2. QED
      BY <1>1, <3>1 DEF IInv, HandshakeInv, WatchInv
  <2>4. canceller \in {"starting", "waited"}
    BY <1>1 DEF IInv, TypeOK, SignalInv
  <2>5. canceller # "waited"
    BY <2>2, <2>3 DEF IInv, SignalInv, Working
  <2>6. QED
    BY <2>2, <2>3, <2>4, <2>5 DEF Stopping
<1>2. canceller = "waited" => given
  BY DEF IInv, SignalInv
<1>3. QED
  BY <1>1, <1>2 DEF StopReaches, NothingReadsAfterWait, Reads, AsksCancel

\* Once the signal is given, a query that reads in Trino is about to be stopped
\* (_fetch, stop, watch): StopReaches, for any number of queries.
THEOREM StopReachesHolds == Spec => []StopReaches
BY InvHolds, Handshake, PTL

\* When wait returns, no query of the signal reads in Trino, but one whose DELETE
\* failed (Cancellation.wait).
THEOREM NothingReadsAfterWaitHolds == Spec => []NothingReadsAfterWait
BY InvHolds, Handshake, PTL

\* A query that ended left no stop and no timer, and a statement that may run only
\* where a DELETE failed, or where the client gave it up before any helper knew its
\* name or with that helper's DELETE on its way (_fetch, _run, expire).
THEOREM EndedLeavesNothingHolds == Spec => []EndedLeavesNothing
<1>1. IInv => EndedLeavesNothing
  <2>1. ASSUME IInv, NEW q \in Queries, pc[q] = "ended", Running(q), ~lost[q],
               NEW w \in Helpers, knew[q][w]
        PROVE  helper[q][w] = "cancel"
    BY <2>1 DEF IInv, StatementInv, Running, HasName
  <2>2. QED
    BY <2>1 DEF IInv, EndInv, LeftInv, EndedLeavesNothing
<1>2. QED
  BY <1>1, InvHolds, PTL

\* The error of a query says which of its two helpers stopped it (stopped, over).
THEOREM OutcomeTellsWhyHolds == Spec => []OutcomeTellsWhy
<1>1. IInv => OutcomeTellsWhy
  BY DEF IInv, EndInv
<1>2. QED
  BY <1>1, InvHolds, PTL

\* Nothing read of a statement as it was stopped is ever answered (_fetch).
THEOREM AnswerIsWholeHolds == Spec => []AnswerIsWhole
<1>1. IInv => AnswerIsWhole
  BY DEF IInv, EndInv
<1>2. QED
  BY <1>1, InvHolds, PTL

=============================================================================
