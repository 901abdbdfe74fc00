---------------------------- MODULE ContextChain ----------------------------
(***************************************************************************)
(* The chain of the context sources (akko_mcp_trino/context/chain.py,      *)
(* class ContextChain): the reads of a call run side by side, each shared  *)
(* with the other calls that ask the same keys, until the deadline of the  *)
(* call; then they are given a moment, cancelled once, and left behind.  A *)
(* source that fails is not called for a while (its breaker), and a gauge  *)
(* tells the operator so.                                                  *)
(*                                                                         *)
(* A call is one _collect, of gather or of terms: it runs on one event     *)
(* loop, so an action is what one task runs between two awaits, with the   *)
(* done callbacks of the task it ends.  The caller waits in a thread of    *)
(* its own, and reset_refused runs in a signal handler.  The shared cache  *)
(* is the one of ByteCache, seen from the chain: a batch of a read either  *)
(* leads a flight or follows the flight another read leads.                *)
(*                                                                         *)
(* Time is counted in ticks.  The loop may run a timer late: lag counts    *)
(* the ticks passed while one was overdue, MaxLag at most.                 *)
(***************************************************************************)
EXTENDS Integers, FiniteSets

CONSTANTS
  Calls,           \* the calls of gather and of terms
  Providers,       \* the sources
  Asks,            \* what a call may ask of a source, and what it holds of it
  Timeouts,        \* the ticks a call may be given
  MaxConcurrency,  \* the reads of one source running at once
  CutWait,         \* _CANCEL_WAIT_SECONDS
  Grace,           \* _GRACE_SECONDS
  RetryAfter,      \* retry_after_seconds
  RefusedRetry,    \* refused_retry_seconds
  NoCall,          \* no flight followed
  NoBreaker,       \* no breaker open
  StartBy,         \* bound: no call starts after this tick
  MaxTime,         \* bound: the clock
  MaxLag,          \* bound: how late the loop may be, in all
  MaxBatches,      \* bound: the batches of a read
  MaxRotations,    \* bound: the changes of a source's secret
  MaxResets        \* bound: the signals that lift the refusals

ASSUME ChainAssumption ==
  /\ Asks \subseteq {"unmapped", "unmappable", "held", "partly", "missing", "stampless"}
  /\ Timeouts \subseteq Nat
  /\ MaxConcurrency \in Nat /\ MaxConcurrency > 0
  /\ {CutWait, Grace, RetryAfter, RefusedRetry} \subseteq Nat
  /\ {StartBy, MaxTime, MaxLag, MaxBatches, MaxRotations, MaxResets} \subseteq Nat
  /\ Grace >= 2 * CutWait
  /\ NoCall \notin Calls

VARIABLES
  now,         \* the clock
  lag,         \* the ticks the loop was late
  phase,       \* where a call stands in _collect
  deadline,    \* the deadline of a call
  cutEnd,      \* when the wait of _cut that is running ends
  inTime,      \* the reads of a call that ended on their own, in time
  status,      \* the statuses of a call
  read,        \* the read of a call at a source: its task, its flight
  stamp,       \* the stamp of the secret, taken before the read
  active,      \* _active
  breaker,     \* _breakers
  gauge,       \* the gauge of the breaker
  errors,      \* the counter of the calls a source served badly
  secret,      \* the secret a source reads now
  generation,  \* _refused_generation
  signal,      \* where reset_refused stands
  toClear,     \* the breakers whose gauge it still has to set
  refusals     \* history: the secrets a source really refused

callVars  == <<phase, deadline, cutEnd, inTime, status, stamp>>
sourceVars == <<breaker, gauge>>
resetVars == <<generation, signal, toClear>>
clock     == <<now, lag>>
vars == <<clock, callVars, read, active, sourceVars, errors, secret, resetVars, refusals>>

Waiting  == {"reading", "cut1", "cut2"}
Over     == {"over", "gone"}
NotWell  == {"partial", "unavailable", "refused", "error"}
Statuses == NotWell \cup {"ok", "not_mapped"}
Kinds    == {"outage", "late", "refused", "error"}

-----------------------------------------------------------------------------
(* Reads.  "ready" is about to look its batch up, "leading" is in the      *)
(* source, "following" awaits the flight of another read, "told" knows how *)
(* that flight ended, "stopping" is about to raise its cancellation.       *)

NoRead == [st |-> "none", of |-> NoCall, held |-> FALSE, out |-> "none", left |-> 0,
           cancels |-> 0, sent |-> 0, some |-> FALSE]

Ended(c, p)   == read[c][p].st = "ended"
Running(c, p) == read[c][p].st \notin {"none", "ended"}
Reads(c)      == {p \in Providers : read[c][p].st # "none"}

\* How a read ends; _finished is called with its task.
End(r, how) == [r EXCEPT !.st = "ended", !.of = NoCall, !.held = FALSE, !.out = how,
                         !.left = 0, !.sent = 0]

\* A batch is answered: the next one is looked up, or the read ends.
Answered(r) ==
  LET next == [r EXCEPT !.some = TRUE, !.held = FALSE, !.of = NoCall, !.out = "none"]
  IN  IF r.left <= 1 THEN End(next, "ok") ELSE [next EXCEPT !.st = "ready", !.left = @ - 1]

\* Those who follow a flight of one call learn how it ended; a flight cancelled
\* is read again, except by a read that was asked to cancel itself.
Told(rs, leader, ps, how) ==
  LET next(r) == IF how # "cancelled" THEN [r EXCEPT !.st = "told", !.of = NoCall, !.out = how]
                 ELSE [r EXCEPT !.st = IF r.cancels = 0 THEN "ready" ELSE "stopping",
                                !.of = NoCall]
  IN  [c \in Calls |-> [p \in Providers |->
         IF p \in ps /\ rs[c][p].st = "following" /\ rs[c][p].of = leader
         THEN next(rs[c][p]) ELSE rs[c][p]]]

\* Mutant of CancelOnce: a cancellation on its way is not looked at.
CancelAgain(r) ==
  IF r.st \in {"none", "ended"} THEN r
  ELSE [r EXCEPT !.cancels = @ + 1, !.st = IF @ = "leading" THEN @ ELSE "stopping",
                 !.of = NoCall, !.out = "none"]

\* _cancel_once: a source is interrupted where it stands and decides; any other
\* await of a read ends there.
CancelOnce(r) ==
  IF r.st \in {"none", "ended"} \/ r.cancels > 0 THEN r
  ELSE [r EXCEPT !.cancels = @ + 1, !.st = IF @ = "leading" THEN @ ELSE "stopping",
                 !.of = NoCall, !.out = "none"]

CancelAll(c) == [read EXCEPT ![c] = [p \in Providers |-> CancelOnce(@[p])]]

\* Mutant of Abandon: the keys stay registered.
AbandonNot(rs, c) == rs

\* abandon, for every read of a call still running: its flight is not registered
\* any more, and those who followed it read again.
Abandon(rs, c) ==
  LET lost  == {p \in Providers : rs[c][p].held}
      freed == [rs EXCEPT ![c] = [p \in Providers |-> [@[p] EXCEPT !.held = FALSE]]]
  IN  Told(freed, c, lost, "cancelled")

-----------------------------------------------------------------------------
(* Breakers *)

Live(b, s) ==
  /\ now < b.until
  /\ b.status = "refused" => b.generation = generation /\ b.stamp = s

Blocks(p, s) == breaker[p] # NoBreaker /\ Live(breaker[p], s)

\* Mutants of KeepsOpen: the other breaker always gives way; a failure renews it.
KeepsSame(p, s, st) == Blocks(p, s) /\ breaker[p].status = st

KeepsRefusal(p, s, st) == Blocks(p, s) /\ breaker[p].status = "refused"

\* _open returns early: one opening at a time, an outage never shortens a refusal.
KeepsOpen(p, s, st) == Blocks(p, s) /\ breaker[p].status \in {st, "refused"}

Opening(s, st, out) ==
  [status |-> st, until |-> now + (IF st = "refused" THEN RefusedRetry ELSE RetryAfter),
   stamp |-> s, generation |-> generation, cause |-> out]

-----------------------------------------------------------------------------
Init ==
  /\ now        = 0
  /\ lag        = 0
  /\ phase      = [c \in Calls |-> "idle"]
  /\ deadline   = [c \in Calls |-> 0]
  /\ cutEnd     = [c \in Calls |-> 0]
  /\ inTime     = [c \in Calls |-> {}]
  /\ status     = [c \in Calls |-> [p \in Providers |-> "none"]]
  /\ read       = [c \in Calls |-> [p \in Providers |-> NoRead]]
  /\ stamp      = [c \in Calls |-> [p \in Providers |-> 0]]
  /\ active     = [p \in Providers |-> 0]
  /\ breaker    = [p \in Providers |-> NoBreaker]
  /\ gauge      = [p \in Providers |-> 0]
  /\ errors     = [p \in Providers |-> 0]
  /\ secret     = [p \in Providers |-> 0]
  /\ generation = 0
  /\ signal     = "idle"
  /\ toClear    = {}
  /\ refusals   = [p \in Providers |-> {}]

\* _count
Count(c) ==
  errors' = [p \in Providers |-> errors[p] + (IF status'[c][p] \in NotWell THEN 1 ELSE 0)]

\* What the admission decides of a source, in its order; "read" starts a read.
Verdict(p, ask, end) ==
  IF ask = "unmapped" THEN "not_mapped"
  ELSE IF ask = "unmappable" THEN "error"
  ELSE IF ask = "held" THEN "ok"
  ELSE IF now >= end THEN IF ask = "partly" THEN "partial" ELSE "unavailable"
  ELSE IF ask = "stampless" THEN "error"
  ELSE IF Blocks(p, secret[p]) THEN breaker[p].status
  ELSE IF active[p] >= MaxConcurrency THEN "unavailable"
  ELSE "read"

\* _blocked is reached, and closes a breaker that is not live any more.
Tries(p, ask, end) == ask \in {"partly", "missing"} /\ now < end

Start(c, ask, end, batches) ==
  LET verdict == [p \in Providers |-> Verdict(p, ask[p], end)]
      begun   == {p \in Providers : verdict[p] = "read"}
      closed  == {p \in Providers : Tries(p, ask[p], end) /\ ~Blocks(p, secret[p])
                                                        /\ breaker[p] # NoBreaker}
  IN  /\ phase[c] = "idle"
      /\ now <= StartBy
      /\ phase'    = [phase EXCEPT ![c] = IF begun = {} THEN "over" ELSE "reading"]
      /\ deadline' = [deadline EXCEPT ![c] = end]
      /\ status'   = [status EXCEPT ![c] = [p \in Providers |->
                        IF p \in begun THEN "none" ELSE verdict[p]]]
      /\ read'     = [read EXCEPT ![c] = [p \in Providers |->
                        IF p \in begun THEN [NoRead EXCEPT !.st = "ready", !.left = batches,
                                                           !.some = (ask[p] = "partly")]
                        ELSE NoRead]]
      /\ stamp'    = [stamp EXCEPT ![c] = [p \in Providers |-> secret[p]]]
      /\ active'   = [p \in Providers |-> active[p] + (IF p \in begun THEN 1 ELSE 0)]
      /\ breaker'  = [p \in Providers |-> IF p \in closed THEN NoBreaker ELSE breaker[p]]
      /\ gauge'    = [p \in Providers |-> IF p \in closed THEN 0 ELSE gauge[p]]
      /\ IF begun = {} THEN Count(c) ELSE UNCHANGED errors
      /\ UNCHANGED <<clock, cutEnd, inTime, secret, resetVars, refusals>>

-----------------------------------------------------------------------------
(* The tasks of the reads *)

OnlyReads == UNCHANGED <<clock, callVars, sourceVars, errors, secret, resetVars>>

\* load_many: the keys of a batch are read by this task, or already read by another.
Lead(c, p) ==
  /\ read[c][p].st = "ready"
  /\ read' = [read EXCEPT ![c][p].st = "leading", ![c][p].held = TRUE, ![c][p].sent = secret[p]]
  /\ UNCHANGED <<active, refusals>> /\ OnlyReads

Follow(c, p, leader) ==
  /\ read[c][p].st = "ready"
  /\ read[leader][p].held
  /\ read' = [read EXCEPT ![c][p].st = "following", ![c][p].of = leader]
  /\ UNCHANGED <<active, refusals>> /\ OnlyReads

\* Mutant of Settle: a read that ends after its call is not taken off the count.
SettleInTime(c, p, how, r) ==
  /\ read[c][p].st = "leading"
  /\ LET told == IF read[c][p].held THEN Told(read, c, {p}, how) ELSE read
     IN  read' = [told EXCEPT ![c][p] = r]
  /\ active' = [active EXCEPT ![p] = @ - (IF r.st = "ended" /\ phase[c] \in Waiting THEN 1 ELSE 0)]
  /\ OnlyReads

\* The batch a read leads ends: its followers are told if it is still registered.
Settle(c, p, how, r) ==
  /\ read[c][p].st = "leading"
  /\ LET told == IF read[c][p].held THEN Told(read, c, {p}, how) ELSE read
     IN  read' = [told EXCEPT ![c][p] = r]
  /\ active' = [active EXCEPT ![p] = @ - (IF r.st = "ended" THEN 1 ELSE 0)]
  /\ OnlyReads

SourceAnswers(c, p) ==
  /\ Settle(c, p, "ok", Answered(read[c][p]))
  /\ UNCHANGED refusals

\* A source that keeps the deadline it was given fails "late": at that deadline.
SourceFails(c, p, kind) ==
  /\ kind = "late" => now >= deadline[c]
  /\ Settle(c, p, kind, End(read[c][p], kind))
  /\ refusals' = IF kind = "refused"
                 THEN [refusals EXCEPT ![p] = @ \cup {read[c][p].sent}] ELSE refusals

SourceCancelled(c, p) ==
  /\ Settle(c, p, "cancelled", End(read[c][p], "cancelled"))
  /\ UNCHANGED refusals

\* A follower goes on with what the flight gave, or fails as it failed.
Wake(c, p) ==
  LET r == read[c][p]
      next == IF r.out = "ok" THEN Answered(r) ELSE End(r, r.out)
  IN  /\ r.st = "told"
      /\ read' = [read EXCEPT ![c][p] = next]
      /\ active' = [active EXCEPT ![p] = @ - (IF next.st = "ended" THEN 1 ELSE 0)]
      /\ UNCHANGED refusals /\ OnlyReads

\* A read cancelled outside its source ends.
Stop(c, p) ==
  /\ read[c][p].st = "stopping"
  /\ read' = [read EXCEPT ![c][p] = End(@, "cancelled")]
  /\ active' = [active EXCEPT ![p] = @ - 1]
  /\ UNCHANGED refusals /\ OnlyReads

-----------------------------------------------------------------------------
(* The end of a call *)

CutShort(c, p) == IF read[c][p].some THEN "partial" ELSE "unavailable"

\* _outcome: the status of a read, given the reads that ended in time.
Outcome(c, p, ended) ==
  LET out == read[c][p].out
  IN  IF p \notin ended \/ out = "cancelled" THEN CutShort(c, p)
      ELSE IF out \in {"outage", "late"}
      THEN IF now >= deadline[c] - CutWait THEN CutShort(c, p) ELSE "unavailable"
      ELSE out

\* The sources _outcome opens the breaker of.
Opens(c, ended) ==
  {p \in ended :
     /\ \/ read[c][p].out = "refused"
        \/ read[c][p].out \in {"outage", "late"} /\ now < deadline[c] - CutWait
     /\ ~KeepsOpen(p, stamp[c][p], Outcome(c, p, ended))}

\* The locals of a call that is over are gone.
Forget(c) ==
  /\ inTime' = [inTime EXCEPT ![c] = {}]
  /\ cutEnd' = [cutEnd EXCEPT ![c] = 0]

\* The waits of _collect are over: the outcomes, then its finally.
Conclude(c, ended) ==
  LET opened == Opens(c, ended)
  IN  /\ phase'   = [phase EXCEPT ![c] = "over"]
      /\ status'  = [status EXCEPT ![c] = [p \in Providers |->
                       IF p \in Reads(c) THEN Outcome(c, p, ended) ELSE @[p]]]
      /\ Forget(c)
      /\ breaker' = [p \in Providers |->
                       IF p \in opened
                       THEN Opening(stamp[c][p], Outcome(c, p, ended), read[c][p].out)
                       ELSE breaker[p]]
      /\ gauge'   = [p \in Providers |-> IF p \in opened THEN 1 ELSE gauge[p]]
      /\ Count(c)
      /\ read'    = Abandon(CancelAll(c), c)
      /\ UNCHANGED <<clock, deadline, stamp, active, secret, resetVars, refusals>>

EndedReads(c) == {p \in Reads(c) : Ended(c, p)}

\* Every read ended before the deadline.
AllDone(c) ==
  /\ phase[c] = "reading"
  /\ EndedReads(c) = Reads(c)
  /\ Conclude(c, Reads(c))

\* The deadline: the reads still running get a first wait to end on their own.
Expire(c) ==
  /\ phase[c] = "reading"
  /\ now >= deadline[c]
  /\ EndedReads(c) # Reads(c)
  /\ phase'  = [phase EXCEPT ![c] = "cut1"]
  /\ cutEnd' = [cutEnd EXCEPT ![c] = now + CutWait]
  /\ inTime' = [inTime EXCEPT ![c] = EndedReads(c)]
  /\ UNCHANGED <<clock, deadline, status, stamp, read, active, sourceVars, errors, secret,
                 resetVars, refusals>>

\* They all ended on their own.
CutDone(c) ==
  /\ phase[c] = "cut1"
  /\ EndedReads(c) = Reads(c)
  /\ Conclude(c, Reads(c))

\* Mutant of CancelLate: the second wait is as long as the caller's grace.
CancelLateLong(c) ==
  /\ phase[c] = "cut1"
  /\ now >= cutEnd[c]
  /\ EndedReads(c) # Reads(c)
  /\ phase'  = [phase EXCEPT ![c] = "cut2"]
  /\ cutEnd' = [cutEnd EXCEPT ![c] = now + Grace]
  /\ inTime' = [inTime EXCEPT ![c] = EndedReads(c)]
  /\ read'   = CancelAll(c)
  /\ UNCHANGED <<clock, deadline, status, stamp, active, sourceVars, errors, secret,
                 resetVars, refusals>>

\* The first wait is over: what still runs is cancelled and gets a second wait.
CancelLate(c) ==
  /\ phase[c] = "cut1"
  /\ now >= cutEnd[c]
  /\ EndedReads(c) # Reads(c)
  /\ phase'  = [phase EXCEPT ![c] = "cut2"]
  /\ cutEnd' = [cutEnd EXCEPT ![c] = now + CutWait]
  /\ inTime' = [inTime EXCEPT ![c] = EndedReads(c)]
  /\ read'   = CancelAll(c)
  /\ UNCHANGED <<clock, deadline, status, stamp, active, sourceVars, errors, secret,
                 resetVars, refusals>>

\* Mutant of LeaveBehind: the second wait has no end.
WaitForAll(c) ==
  /\ phase[c] = "cut2"
  /\ EndedReads(c) = Reads(c)
  /\ Conclude(c, inTime[c])

\* The second wait is over: what still runs is left behind.
LeaveBehind(c) ==
  /\ phase[c] = "cut2"
  /\ now >= cutEnd[c] \/ EndedReads(c) = Reads(c)
  /\ Conclude(c, inTime[c])

\* The caller stops waiting: the call is cancelled where it stands.
CallerGone(c) ==
  /\ phase[c] \in Waiting
  /\ now >= deadline[c] + Grace
  /\ phase'  = [phase EXCEPT ![c] = "gone"]
  /\ status' = [status EXCEPT ![c] = [p \in Providers |->
                  IF p \in Reads(c) THEN CutShort(c, p) ELSE @[p]]]
  /\ Forget(c)
  /\ Count(c)
  /\ read'   = Abandon(CancelAll(c), c)
  /\ UNCHANGED <<clock, deadline, stamp, active, sourceVars, secret,
                 resetVars, refusals>>

-----------------------------------------------------------------------------
(* The operator, the signal and the clock *)

\* The secret of a source is changed.
Rotate(p) ==
  /\ secret[p] < MaxRotations
  /\ secret' = [secret EXCEPT ![p] = @ + 1]
  /\ UNCHANGED <<clock, callVars, read, active, sourceVars, errors, resetVars, refusals>>

\* reset_refused, in the thread of the signal: the generation, then a copy of the
\* breakers, then the gauge of each refused one.  The loop runs meanwhile.
ResetBump ==
  /\ signal = "idle"
  /\ generation < MaxResets
  /\ generation' = generation + 1
  /\ signal' = "bumped"
  /\ UNCHANGED <<clock, callVars, read, active, sourceVars, errors, secret, toClear, refusals>>

ResetList ==
  /\ signal = "bumped"
  /\ toClear' = {p \in Providers : breaker[p] # NoBreaker /\ breaker[p].status = "refused"}
  /\ signal' = IF toClear' = {} THEN "idle" ELSE "clearing"
  /\ UNCHANGED <<clock, callVars, read, active, sourceVars, errors, secret, generation, refusals>>

ResetGauge(p) ==
  /\ signal = "clearing"
  /\ p \in toClear
  /\ gauge' = [gauge EXCEPT ![p] = 0]
  /\ toClear' = toClear \ {p}
  /\ signal' = IF toClear' = {} THEN "idle" ELSE "clearing"
  /\ UNCHANGED <<clock, callVars, read, active, breaker, errors, secret, generation, refusals>>

\* A timer of the loop is overdue.
Overdue(c) ==
  \/ phase[c] = "reading" /\ now >= deadline[c]
  \/ phase[c] \in {"cut1", "cut2"} /\ now >= cutEnd[c]

Tick ==
  LET late == \E c \in Calls : Overdue(c)
  IN  /\ now < MaxTime
      /\ late => lag < MaxLag
      /\ now' = now + 1
      /\ lag' = IF late THEN lag + 1 ELSE lag
      /\ UNCHANGED <<callVars, read, active, sourceVars, errors, secret, resetVars, refusals>>

\* Every call is over, or starts no more.
Finished ==
  /\ now > StartBy
  /\ \A c \in Calls : phase[c] \in Over \cup {"idle"}
  /\ UNCHANGED vars

Task(c, p) == Lead(c, p) \/ Wake(c, p) \/ Stop(c, p) \/ \E d \in Calls : Follow(c, p, d)

Source(c, p) ==
  \/ SourceAnswers(c, p)
  \/ \E kind \in Kinds : SourceFails(c, p, kind)
  \/ SourceCancelled(c, p)

Call(c) ==
  \/ AllDone(c)
  \/ Expire(c)
  \/ CutDone(c)
  \/ CancelLate(c)
  \/ LeaveBehind(c)

Begin(c) ==
  \E ask \in [Providers -> Asks], t \in Timeouts, n \in 1..MaxBatches : Start(c, ask, now + t, n)

Next ==
  \/ \E c \in Calls : Begin(c) \/ Call(c) \/ CallerGone(c)
  \/ \E c \in Calls, p \in Providers : Task(c, p) \/ Source(c, p)
  \/ \E p \in Providers : Rotate(p) \/ ResetGauge(p)
  \/ ResetBump
  \/ ResetList
  \/ Tick
  \/ Finished

Spec == Init /\ [][Next]_vars

\* The loop runs what is due and the clock goes on.  No source has to answer.
Fairness ==
  /\ WF_vars(Tick)
  /\ \A c \in Calls : WF_vars(Call(c))

FairSpec == Spec /\ Fairness

-----------------------------------------------------------------------------
(* Properties *)

Breaker == [status : {"unavailable", "refused"}, until : Nat, stamp : 0..MaxRotations,
            generation : 0..MaxResets, cause : {"outage", "late", "refused"}]

\* No breaker is not a breaker.
ASSUME BreakerAssumption == NoBreaker \notin Breaker

ReadRecord ==
  [st : {"none", "ready", "leading", "following", "told", "stopping", "ended"},
   of : Calls \cup {NoCall}, held : BOOLEAN, out : Kinds \cup {"none", "ok", "cancelled"},
   left : 0..MaxBatches, cancels : Nat, sent : 0..MaxRotations, some : BOOLEAN]

TypeOK ==
  /\ now \in 0..MaxTime /\ lag \in 0..MaxLag
  /\ phase \in [Calls -> {"idle"} \cup Waiting \cup Over]
  /\ deadline \in [Calls -> Nat]
  /\ cutEnd \in [Calls -> Nat]
  /\ inTime \in [Calls -> SUBSET Providers]
  /\ status \in [Calls -> [Providers -> Statuses \cup {"none"}]]
  /\ stamp \in [Calls -> [Providers -> 0..MaxRotations]]
  /\ read \in [Calls -> [Providers -> ReadRecord]]
  /\ active \in [Providers -> Int]
  /\ breaker \in [Providers -> Breaker \cup {NoBreaker}]
  /\ gauge \in [Providers -> {0, 1}]
  /\ errors \in [Providers -> Nat]
  /\ secret \in [Providers -> 0..MaxRotations]
  /\ generation \in 0..MaxResets
  /\ signal \in {"idle", "bumped", "clearing"}
  /\ toClear \in SUBSET Providers
  /\ refusals \in [Providers -> SUBSET (0..MaxRotations)]

\* The bound on the reads of a source counts every read still running, those left
\* behind by a call that is over too, and each exactly once (_active, _finished).
ActiveExact ==
  \A p \in Providers :
    /\ active[p] = Cardinality({c \in Calls : Running(c, p)})
    /\ active[p] <= MaxConcurrency

\* A read is cancelled once at most, and never before it had its moment past the
\* deadline to end on its own, whoever gives up on it (_cut, _collect's finally).
CancelledOnce ==
  \A c \in Calls, p \in Providers :
    /\ read[c][p].cancels <= 1
    /\ read[c][p].cancels > 0 => now >= deadline[c] + CutWait

\* The waits of a call end two short waits past its deadline, plus the lag of the
\* loop, whatever its sources do and however late each wait began (_collect, _cut).
EndsInTime ==
  \A c \in Calls : phase[c] \in Waiting => now <= deadline[c] + 2 * CutWait + lag

\* A call is counted once however it ends: concluded, refused at once, or given up
\* by its caller; and with the status it has for every source (_count).
CountedOnce ==
  \A p \in Providers :
    errors[p] = Cardinality({c \in Calls : phase[c] \in Over /\ status[c][p] \in NotWell})

\* A call that is over holds no key: no later call waits for a read left behind
\* (_collect's finally, abandon).
NothingHeldAfter ==
  \A c \in Calls, p \in Providers : read[c][p].held => phase[c] \in Waiting

\* What a call leaves once it is over: one count, and no key.
OverIsOver == CountedOnce /\ NothingHeldAfter

\* A refusal that still holds for the secret of now is neither replaced by an
\* outage nor shortened (_open).
OutageNeverShortensRefusal ==
  [][\A p \in Providers :
       Blocks(p, secret[p]) /\ breaker[p].status = "refused" /\ breaker'[p] # breaker[p] =>
         /\ breaker'[p] # NoBreaker
         /\ breaker'[p].status = "refused"
         /\ breaker'[p].until >= breaker[p].until]_vars

\* A source is not called for a refusal only if it refused the secret of now: one
\* changed during a refused call is tried at once (_collect, _live).
SecretTriedAtOnce ==
  \A p \in Providers :
    Blocks(p, secret[p]) /\ breaker[p].status = "refused" => secret[p] \in refusals[p]

\* A breaker that blocks is not renewed by the other calls that fail as the one
\* that opened it did: it gives way only to a refusal when it stood for an outage,
\* or to another secret when it stood for a refusal (_open, _blocked).
BurstOpensOnce ==
  [][\A p \in Providers :
       LET b == breaker[p]
       IN  /\ b # NoBreaker /\ now < b.until /\ breaker'[p] # b
           /\ b.status = "refused" => b.generation = generation
           =>
             IF b.status = "unavailable"
             THEN breaker'[p] # NoBreaker /\ breaker'[p].status = "refused"
             ELSE breaker'[p] = NoBreaker \/ breaker'[p].stamp # b.stamp]_vars

\* Every call ends, whether its sources ever answer or not (_cut, abandon).
CallEnds ==
  \A c \in Calls : phase[c] \in Waiting ~> phase[c] \in Over

=============================================================================
