----------------------------- MODULE QueryFetch -----------------------------
(***************************************************************************)
(* How one statement is run, timed and cancelled (akko_mcp_trino/          *)
(* trino_client.py: class Cancellation, TrinoClient._run and _fetch).      *)
(*                                                                         *)
(* Each query runs in a thread.  Two helpers may stop it: the thread of    *)
(* its timer, and the thread Cancellation.cancel starts for it.  They meet *)
(* through four events and a list under a lock, so an action is what one   *)
(* thread does between two uses of shared state.  Any number of queries    *)
(* share one Cancellation, given once by the canceller, who then waits.    *)
(*                                                                         *)
(* Trino is outside: a statement it was sent has no name until the POST is *)
(* answered, and only a named statement can be cancelled.  The client may  *)
(* fail where Trino does not: what it then gives up goes on in Trino.      *)
(***************************************************************************)
EXTENDS FiniteSets

CONSTANTS
  Queries,    \* the queries that may share one Cancellation
  Modes,      \* what a query may be asked with: a time budget, a Cancellation
  NoQuery     \* no stop run in the canceller

ASSUME FetchAssumption ==
  /\ Modes \subseteq SUBSET {"budget", "cancel"}
  /\ NoQuery \notin Queries

VARIABLES
  pc,         \* where the thread of a query stands
  mode,       \* whether a query has a time budget, and whether a Cancellation
  stmt,       \* the statement of a query, as Trino and its cursor know it
  expired,    \* the event: the query is over its time, or stopped
  done,       \* the event: the statement is over
  cancelled,  \* the event: the Cancellation reached the query
  executing,  \* the event: the statement is about to be sent
  got,        \* what the cursor returned, or that the client gave up
  outcome,    \* how a query ended
  helper,     \* where the timer and the stop of a query stand
  knew,       \* whether a helper saw the name of the query before its cancel
  lost,       \* whether a DELETE failed for the query
  given,      \* Cancellation._cancelled
  stops,      \* Cancellation._stops
  toStop,     \* the stops cancel took and has not started
  inline,     \* the query whose stop the canceller runs itself
  canceller   \* where the canceller stands

events == <<expired, done, cancelled, executing>>
signal == <<given, stops, toStop, inline, canceller>>
vars == <<pc, mode, stmt, events, got, outcome, helper, knew, lost, signal>>

Helpers  == {"timer", "stop"}
Working  == {"begin", "check", "expire", "loop", "cancel"}
Terminal == {"finished", "cancelled", "failed", "rejected"}
Outcomes == {"rows", "error", "timeout", "stopped"}

Running(q) == stmt[q] \in {"sent", "named"}
HasName(q) == stmt[q] \in {"named", "finished", "cancelled", "failed"}
Stopping(q) ==
  \/ q \in toStop /\ canceller = "starting"
  \/ helper[q]["stop"] \in Working

Init ==
  /\ pc        = [q \in Queries |-> "new"]
  /\ mode      = [q \in Queries |-> {}]
  /\ stmt      = [q \in Queries |-> "unsent"]
  /\ expired   = [q \in Queries |-> FALSE]
  /\ done      = [q \in Queries |-> FALSE]
  /\ cancelled = [q \in Queries |-> FALSE]
  /\ executing = [q \in Queries |-> FALSE]
  /\ got       = [q \in Queries |-> "none"]
  /\ outcome   = [q \in Queries |-> "none"]
  /\ helper    = [q \in Queries |-> [w \in Helpers |-> "off"]]
  /\ knew      = [q \in Queries |-> [w \in Helpers |-> FALSE]]
  /\ lost      = [q \in Queries |-> FALSE]
  /\ given     = FALSE
  /\ stops     = {}
  /\ toStop    = {}
  /\ inline    = NoQuery
  /\ canceller = "idle"

Go(q, from, to) == pc[q] = from /\ pc' = [pc EXCEPT ![q] = to]

-----------------------------------------------------------------------------
(* The thread of a query *)

\* _run: a query asked once the signal is given never starts.
Ask(q, m) ==
  /\ pc[q] = "new"
  /\ mode' = [mode EXCEPT ![q] = m]
  /\ IF "cancel" \in m /\ given
     THEN pc' = [pc EXCEPT ![q] = "ended"] /\ outcome' = [outcome EXCEPT ![q] = "stopped"]
     ELSE pc' = [pc EXCEPT ![q] = IF m = {} THEN "sending" ELSE "asked"] /\ UNCHANGED outcome
  /\ UNCHANGED <<stmt, events, got, helper, knew, lost, signal>>

StartTimer(q) ==
  /\ Go(q, "asked", "timed")
  /\ helper' = IF "budget" \in mode[q] THEN [helper EXCEPT ![q]["timer"] = "armed"] ELSE helper
  /\ UNCHANGED <<mode, stmt, events, got, outcome, knew, lost, signal>>

\* Mutant of Watch: the stop is registered whether the signal is given or not.
WatchBlindly(q) ==
  /\ Go(q, "timed", "watched")
  /\ stops' = IF "cancel" \in mode[q] THEN stops \cup {q} ELSE stops
  /\ UNCHANGED <<mode, stmt, events, got, outcome, helper, knew, lost, given, toStop, inline,
                 canceller>>

\* watch, under the lock: the stop is registered, or called now.  Called now, it
\* only tells the query, which is not executing yet.
Watch(q) ==
  /\ Go(q, "timed", "watched")
  /\ stops' = IF "cancel" \in mode[q] /\ ~given THEN stops \cup {q} ELSE stops
  /\ cancelled' = [cancelled EXCEPT ![q] = "cancel" \in mode[q] /\ given]
  /\ UNCHANGED <<mode, stmt, expired, done, executing, got, outcome, helper, knew, lost,
                 given, toStop, inline, canceller>>

SetExecuting(q) ==
  /\ Go(q, "watched", "armed")
  /\ executing' = [executing EXCEPT ![q] = TRUE]
  /\ UNCHANGED <<mode, stmt, expired, done, cancelled, got, outcome, helper, knew, lost, signal>>

\* Cancelled before its statement: it is never sent.
CheckCancelled(q) ==
  /\ Go(q, "armed", IF cancelled[q] THEN "closing" ELSE "sending")
  /\ outcome' = [outcome EXCEPT ![q] = IF cancelled[q] THEN "stopped" ELSE @]
  /\ UNCHANGED <<mode, stmt, events, got, helper, knew, lost, signal>>

\* execute: the POST.
Send(q) ==
  /\ Go(q, "sending", "executing")
  /\ stmt' = [stmt EXCEPT ![q] = "sent"]
  /\ UNCHANGED <<mode, events, got, outcome, helper, knew, lost, signal>>

\* execute returns with the first rows; past the budget they are not read.
Executed(q) ==
  /\ stmt[q] \in {"named", "cancelled"}
  /\ Go(q, "executing", IF expired[q] THEN "closing" ELSE "fetching")
  /\ UNCHANGED <<mode, stmt, events, got, outcome, helper, knew, lost, signal>>

\* fetchmany reads the last page, or the rows asked for while more are left.
Fetched(q, rows) ==
  /\ Go(q, "fetching", "closing")
  /\ stmt[q] \in {"named", "cancelled"}
  /\ got' = [got EXCEPT ![q] = rows]
  /\ stmt' = [stmt EXCEPT ![q] = IF @ = "named" /\ rows = "all" THEN "finished" ELSE @]
  /\ UNCHANGED <<mode, events, outcome, helper, knew, lost, signal>>

\* What a stopped query raises.
Stopped(q) == IF cancelled[q] THEN "stopped" ELSE "timeout"

\* execute or fetchmany raises: the statement is over.
Raises(q) ==
  /\ pc[q] \in {"executing", "fetching"}
  /\ stmt[q] \in {"cancelled", "failed", "rejected"}
  /\ pc' = [pc EXCEPT ![q] = "closing"]
  /\ outcome' = [outcome EXCEPT ![q] = IF expired[q] THEN Stopped(q) ELSE "error"]
  /\ UNCHANGED <<mode, stmt, events, got, helper, knew, lost, signal>>

\* execute or fetchmany raises, though the statement may well go on in Trino: a request
\* timed out or lost its connection, or a row cannot be converted.  Nothing is cancelled
\* here, and a POST given up leaves the cursor with no name to cancel.
GivesUp(q) ==
  /\ pc[q] \in {"executing", "fetching"}
  /\ Running(q)
  /\ pc' = [pc EXCEPT ![q] = "closing"]
  /\ got' = [got EXCEPT ![q] = "gaveUp"]
  /\ outcome' = [outcome EXCEPT ![q] = IF expired[q] THEN Stopped(q) ELSE "error"]
  /\ UNCHANGED <<mode, stmt, events, helper, knew, lost, signal>>

\* The finally of _fetch, in its order.
SetDone(q) ==
  /\ Go(q, "closing", "forgetting")
  /\ done' = [done EXCEPT ![q] = mode[q] # {}]
  /\ UNCHANGED <<mode, stmt, expired, cancelled, executing, got, outcome, helper, knew, lost,
                 signal>>

Forget(q) ==
  /\ Go(q, "forgetting", "disarming")
  /\ stops' = stops \ {q}
  /\ UNCHANGED <<mode, stmt, events, got, outcome, helper, knew, lost, given, toStop, inline, canceller>>

Disarm(q) ==
  /\ Go(q, "disarming", "closed")
  /\ helper' = [helper EXCEPT ![q]["timer"] = IF @ = "armed" THEN "ended" ELSE @]
  /\ UNCHANGED <<mode, stmt, events, got, outcome, knew, lost, signal>>

\* Mutants of Conclude: the budget is looked at only when the fetch failed; what is
\* left of a statement is cancelled only past the rows asked for.
ConcludeAnyway(q) ==
  /\ Go(q, "closed", "ended")
  /\ outcome' = [outcome EXCEPT ![q] = IF @ # "none" THEN @ ELSE "rows"]
  /\ stmt' = [stmt EXCEPT ![q] = IF @ = "named" THEN "cancelled" ELSE @]
  /\ UNCHANGED <<mode, events, got, helper, knew, lost, signal>>

ConcludeMore(q) ==
  /\ Go(q, "closed", "ended")
  /\ outcome' = [outcome EXCEPT ![q] =
                   IF @ # "none" THEN @ ELSE IF expired[q] THEN Stopped(q) ELSE "rows"]
  /\ stmt' = [stmt EXCEPT ![q] = IF got[q] = "more" /\ @ = "named" THEN "cancelled" ELSE @]
  /\ UNCHANGED <<mode, events, got, helper, knew, lost, signal>>

\* What is left of a statement past its budget, or past the rows asked for, is
\* cancelled, in _fetch or in _run; that cancel may fail.
Conclude(q) ==
  /\ Go(q, "closed", "ended")
  /\ outcome' = [outcome EXCEPT ![q] =
                   IF @ # "none" THEN @ ELSE IF expired[q] THEN Stopped(q) ELSE "rows"]
  /\ IF outcome[q] = "none" /\ (expired[q] \/ got[q] = "more") /\ stmt[q] = "named"
     THEN \/ stmt' = [stmt EXCEPT ![q] = "cancelled"] /\ UNCHANGED lost
          \/ lost' = [lost EXCEPT ![q] = TRUE] /\ UNCHANGED stmt
     ELSE UNCHANGED <<stmt, lost>>
  /\ UNCHANGED <<mode, events, got, helper, knew, signal>>

-----------------------------------------------------------------------------
(* The helpers: the timer of a query, and its stop *)

Move(q, w, from, to) ==
  /\ helper[q][w] = from
  /\ helper' = [helper EXCEPT ![q][w] = to]

OnlyHelper == UNCHANGED <<pc, mode, got, outcome, signal>>

TimerFires(q) ==
  /\ Move(q, "timer", "armed", "expire")
  /\ UNCHANGED <<stmt, events, knew, lost>> /\ OnlyHelper

\* stop: first tell the query, then look whether it executes.
StopTells(q) ==
  /\ Move(q, "stop", "begin", "check")
  /\ cancelled' = [cancelled EXCEPT ![q] = TRUE]
  /\ UNCHANGED <<stmt, expired, done, executing, knew, lost>> /\ OnlyHelper

StopLooks(q) ==
  /\ Move(q, "stop", "check", IF executing[q] THEN "expire" ELSE "ended")
  /\ UNCHANGED <<stmt, events, knew, lost>> /\ OnlyHelper

\* expire
Expire(q, w) ==
  /\ Move(q, w, "expire", "loop")
  /\ expired' = [expired EXCEPT ![q] = TRUE]
  /\ UNCHANGED <<stmt, done, cancelled, executing, knew, lost>> /\ OnlyHelper

\* Its loop: until the statement is over, see whether it has a name, then cancel.
Look(q, w) ==
  /\ Move(q, w, "loop", IF done[q] THEN "ended" ELSE "cancel")
  /\ knew' = [knew EXCEPT ![q][w] = ~done[q] /\ HasName(q)]
  /\ UNCHANGED <<stmt, events, lost>> /\ OnlyHelper

\* Mutant of CancelQuery: one cancel, whether the statement had a name or not.
CancelOnce(q, w) ==
  /\ Move(q, w, "cancel", "ended")
  /\ stmt' = [stmt EXCEPT ![q] = IF @ = "named" THEN "cancelled" ELSE @]
  /\ UNCHANGED <<events, knew, lost>> /\ OnlyHelper

\* cursor.cancel stops a statement that has a name, and does nothing else.
CancelQuery(q, w) ==
  /\ Move(q, w, "cancel", IF knew[q][w] THEN "ended" ELSE "loop")
  /\ stmt' = [stmt EXCEPT ![q] = IF @ = "named" THEN "cancelled" ELSE @]
  /\ UNCHANGED <<events, knew, lost>> /\ OnlyHelper

\* The DELETE fails: the thread of the helper ends there.
CancelFails(q, w) ==
  /\ Move(q, w, "cancel", "failed")
  /\ stmt[q] = "named"
  /\ lost' = [lost EXCEPT ![q] = TRUE]
  /\ UNCHANGED <<stmt, events, knew>> /\ OnlyHelper

-----------------------------------------------------------------------------
(* The canceller: Cancellation.cancel, then wait *)

OnlyCanceller == UNCHANGED <<pc, mode, stmt, events, got, outcome, knew, lost>>

Cancel ==
  /\ canceller = "idle"
  /\ canceller' = "starting"
  /\ given' = TRUE
  /\ toStop' = stops
  /\ stops' = {}
  /\ UNCHANGED <<inline, helper>> /\ OnlyCanceller

\* Each stop gets a thread; with no thread to spare, the canceller runs it.
StartStop(q, runsIt) ==
  /\ canceller = "starting" /\ inline = NoQuery
  /\ q \in toStop
  /\ toStop' = toStop \ {q}
  /\ helper' = [helper EXCEPT ![q]["stop"] = "begin"]
  /\ inline' = IF runsIt THEN q ELSE NoQuery
  /\ UNCHANGED <<given, stops, canceller>> /\ OnlyCanceller

\* A stop the canceller runs ends.  When its DELETE failed, cancel raises: the
\* stops it had not started never are.
InlineEnds ==
  /\ inline # NoQuery
  /\ helper[inline]["stop"] \in {"ended", "failed"}
  /\ canceller' = IF helper[inline]["stop"] = "failed" THEN "raised" ELSE canceller
  /\ inline' = NoQuery
  /\ UNCHANGED <<given, stops, toStop, helper>> /\ OnlyCanceller

Wait ==
  /\ canceller = "starting" /\ inline = NoQuery
  /\ toStop = {}
  /\ \A q \in Queries : helper[q]["stop"] \notin Working
  /\ canceller' = "waited"
  /\ UNCHANGED <<given, stops, toStop, inline, helper>> /\ OnlyCanceller

-----------------------------------------------------------------------------
(* Trino *)

OnlyTrino == UNCHANGED <<pc, mode, events, got, outcome, helper, knew, lost, signal>>

\* The POST is answered, to a client that waits: the cursor has the name of the query.
Named(q) ==
  /\ pc[q] = "executing" /\ stmt[q] = "sent"
  /\ stmt' = [stmt EXCEPT ![q] = "named"]
  /\ OnlyTrino

\* The POST is refused, or came to nothing; the statement fails, or Trino drops it.
Fails(q) ==
  /\ Running(q)
  /\ stmt' = [stmt EXCEPT ![q] = IF @ = "sent" THEN "rejected" ELSE "failed"]
  /\ OnlyTrino

-----------------------------------------------------------------------------
Thread(q) ==
  \/ StartTimer(q)
  \/ Watch(q)
  \/ SetExecuting(q)
  \/ CheckCancelled(q)
  \/ Send(q)
  \/ Raises(q)
  \/ SetDone(q)
  \/ Forget(q)
  \/ Disarm(q)
  \/ Conclude(q)

\* The answers of Trino to the thread.
Fetch(q) == Executed(q) \/ \E rows \in {"all", "more"} : Fetched(q, rows)

Help(q) ==
  \/ StopTells(q)
  \/ StopLooks(q)
  \/ \E w \in Helpers : Expire(q, w) \/ Look(q, w) \/ CancelQuery(q, w) \/ CancelFails(q, w)

Canceller ==
  \/ Cancel
  \/ \E q \in Queries, runsIt \in BOOLEAN : StartStop(q, runsIt)
  \/ InlineEnds
  \/ Wait

\* Every query has ended and nobody is left to stop one.
Finished ==
  /\ \A q \in Queries : pc[q] = "ended" /\ \A w \in Helpers : helper[q][w] \notin Working
  /\ canceller \in {"waited", "raised"}
  /\ UNCHANGED vars

Next ==
  \/ \E q \in Queries :
       \/ \E m \in Modes : Ask(q, m)
       \/ Thread(q)
       \/ Fetch(q)
       \/ GivesUp(q)
       \/ TimerFires(q)
       \/ Help(q)
       \/ Named(q)
       \/ Fails(q)
  \/ Canceller
  \/ Finished

Spec == Init /\ [][Next]_vars

(***************************************************************************)
(* Threads run.  A POST is answered, refused or given up (the client's     *)
(* timeout and retries bound it); nothing makes a statement that runs ever *)
(* answer, nor the client ever give it up.                                 *)
(***************************************************************************)
Fairness ==
  /\ \A q \in Queries :
       /\ WF_vars(Thread(q))
       /\ WF_vars(Help(q))
       /\ WF_vars(pc[q] = "executing" /\ stmt[q] = "sent" /\ (Named(q) \/ Fails(q) \/ GivesUp(q)))
  /\ WF_vars(Canceller)

FairSpec == Spec /\ Fairness

-----------------------------------------------------------------------------
(* Properties *)

Steps == {"new", "asked", "timed", "watched", "armed", "sending", "executing", "fetching",
          "closing", "forgetting", "disarming", "closed", "ended"}

TypeOK ==
  /\ pc \in [Queries -> Steps]
  /\ mode \in [Queries -> Modes \cup {{}}]
  /\ stmt \in [Queries -> {"unsent", "sent", "named"} \cup Terminal]
  /\ expired \in [Queries -> BOOLEAN]
  /\ done \in [Queries -> BOOLEAN]
  /\ cancelled \in [Queries -> BOOLEAN]
  /\ executing \in [Queries -> BOOLEAN]
  /\ got \in [Queries -> {"none", "all", "more", "gaveUp"}]
  /\ outcome \in [Queries -> Outcomes \cup {"none"}]
  /\ helper \in [Queries -> [Helpers -> {"off", "armed", "ended", "failed"} \cup Working]]
  /\ knew \in [Queries -> [Helpers -> BOOLEAN]]
  /\ lost \in [Queries -> BOOLEAN]
  /\ given \in BOOLEAN
  /\ stops \in SUBSET Queries
  /\ toStop \in SUBSET Queries
  /\ inline \in Queries \cup {NoQuery}
  /\ canceller \in {"idle", "starting", "waited", "raised"}

\* Once the signal is given, a query that reads in Trino is about to be stopped:
\* its stop is under way, unless a DELETE failed; whoever saw the other first, the
\* statement was not sent behind the signal's back (_fetch, stop, watch).
StopReaches ==
  \A q \in Queries :
    given /\ "cancel" \in mode[q] /\ pc[q] \in {"sending", "executing", "fetching"} =>
      Stopping(q) \/ lost[q] \/ stmt[q] \in Terminal \/ canceller = "raised"

\* When wait returns, no query of the signal reads in Trino any more, but one whose
\* DELETE failed: not even one asked or sent since (Cancellation.wait).
NothingReadsAfterWait ==
  canceller = "waited" =>
    \A q \in Queries :
      "cancel" \in mode[q] /\ pc[q] \in {"sending", "executing", "fetching"} =>
        lost[q] \/ stmt[q] \in Terminal

\* A query that ended left no stop registered and no timer armed, and let go of its
\* statement only once it was over in Trino, with two exceptions: a DELETE failed, or
\* the client itself failed to read it, which the code raises with no cancel (_fetch,
\* the except).  Even then, a helper that knew its name before still cancels it: the
\* finally never calls off a DELETE on its way (expire).
EndedLeavesNothing ==
  \A q \in Queries : pc[q] = "ended" =>
    /\ Running(q) =>
         \/ lost[q]
         \/ got[q] = "gaveUp" /\ \A w \in Helpers : knew[q][w] => helper[q][w] = "cancel"
    /\ q \notin stops
    /\ helper[q]["timer"] # "armed"

\* A query raises its time budget only if its timer ran out, and says it was
\* cancelled only if the signal was given: the signal never reads as the budget,
\* though both stop a query the same way (expire, stop, stopped).
OutcomeTellsWhy ==
  \A q \in Queries :
    /\ outcome[q] = "timeout" => helper[q]["timer"] \notin {"off", "armed"}
    /\ outcome[q] = "stopped" => given /\ "cancel" \in mode[q]

\* An answer is whole: the last page of a statement that finished, or the rows
\* asked for; never what was read of a statement as it was being stopped (_fetch).
AnswerIsWhole ==
  \A q \in Queries : outcome[q] = "rows" =>
    got[q] = "more" \/ (got[q] = "all" /\ stmt[q] = "finished")

\* A query ends once its signal reaches it, though Trino never answers what it
\* runs: unless its DELETE failed, or cancel itself raised (cancel, expire).
CancelEnds ==
  \A q \in Queries :
    given /\ "cancel" \in mode[q] ~> pc[q] = "ended" \/ lost[q] \/ canceller = "raised"

=============================================================================
