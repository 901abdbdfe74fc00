------------------------- MODULE ContextChainProofs -------------------------
(***************************************************************************)
(* Theorems about ContextChain, for any calls, sources, limits and bounds: *)
(* type correctness, the bound on the waits of a call, that a read is      *)
(* cancelled once at most and never too early, when a breaker gives way,   *)
(* and what is counted: the reads that run, the calls badly served.  And   *)
(* about ContextLoop, for any callers and signals: however many signals    *)
(* interrupt one another, the process closes once, and wholly.             *)
(***************************************************************************)
EXTENDS ContextChain, ContextLoop, FiniteSetTheorems, TLAPS

Ends  == Kinds \cup {"ok", "cancelled"}
Still == {"none", "ended"}

\* A read that ended, or whose flight did, knows how.
SoundRead == {r \in ReadRecord : r.st \in {"told", "ended"} => r.out # "none"}

ReadTable == [Calls -> [Providers -> SoundRead]]

\* A step of a read, or of one it follows: no cancellation, and an end is an end.
Moves(r, next) ==
  /\ next.cancels = r.cancels
  /\ r.st \in Still => next.st = r.st

LEMMA Limits ==
  /\ CutWait \in Nat /\ Grace \in Nat /\ RetryAfter \in Nat /\ RefusedRetry \in Nat
  /\ MaxTime \in Nat /\ MaxLag \in Nat /\ MaxBatches \in Nat
  /\ MaxRotations \in Nat /\ MaxResets \in Nat
  /\ Grace >= 2 * CutWait
BY ChainAssumption

-----------------------------------------------------------------------------
(* What the helpers on reads return *)

LEMMA EndRead ==
  ASSUME NEW r \in SoundRead, NEW how \in Ends, r.st \notin Still
  PROVE  End(r, how) \in SoundRead /\ Moves(r, End(r, how))
<1>1. 0 \in 0..MaxBatches /\ 0 \in 0..MaxRotations
  BY Limits
<1>2. QED
  BY <1>1 DEF End, SoundRead, ReadRecord, Ends, Kinds, Moves

LEMMA AnsweredRead ==
  ASSUME NEW r \in SoundRead, r.st \notin Still
  PROVE  Answered(r) \in SoundRead /\ Moves(r, Answered(r))
<1> DEFINE next == [r EXCEPT !.some = TRUE, !.held = FALSE, !.of = NoCall, !.out = "none"]
<1>1. /\ next \in ReadRecord /\ next.cancels = r.cancels
      /\ next.left = r.left /\ next.st = r.st
  BY DEF SoundRead, ReadRecord
<1>2. CASE r.left <= 1
  <2>1. Answered(r) = End(next, "ok")
    BY <1>1, <1>2 DEF Answered
  <2>2. 0 \in 0..MaxBatches /\ 0 \in 0..MaxRotations
    BY Limits
  <2> HIDE DEF next
  <2>3. End(next, "ok") \in SoundRead /\ End(next, "ok").cancels = next.cancels
    BY <1>1, <2>2 DEF End, SoundRead, ReadRecord, Kinds
  <2>4. QED
    BY <1>1, <2>1, <2>3 DEF Moves
<1>3. CASE ~(r.left <= 1)
  <2>1. r.left \in 0..MaxBatches /\ r.left - 1 \in 0..MaxBatches
    BY <1>3, ChainAssumption DEF SoundRead, ReadRecord
  <2>2. Answered(r) = [next EXCEPT !.st = "ready", !.left = r.left - 1]
    <3>1. Answered(r) = [next EXCEPT !.st = "ready", !.left = @ - 1]
      BY <1>3, Zenon DEF Answered
    <3> HIDE DEF next
    <3>2. QED
      BY <1>1, <3>1 DEF ReadRecord
  <2> HIDE DEF next
  <2>3. Answered(r) \in ReadRecord /\ Answered(r).st = "ready" /\ Answered(r).cancels = next.cancels
    BY <1>1, <2>1, <2>2 DEF ReadRecord
  <2>4. r.st \notin Still
    OBVIOUS
  <2>5. QED
    BY <1>1, <2>3, <2>4 DEF SoundRead, Moves
<1>4. QED
  BY <1>2, <1>3

LEMMA CancelOnceRead ==
  ASSUME NEW r \in SoundRead
  PROVE  /\ CancelOnce(r) \in SoundRead
         /\ r.cancels <= 1 => CancelOnce(r).cancels <= 1
         /\ r.st \in Still => CancelOnce(r) = r
<1> DEFINE to == IF r.st = "leading" THEN "leading" ELSE "stopping"
           n  == r.cancels + 1
           stopped == [r EXCEPT !.cancels = n, !.st = to, !.of = NoCall, !.out = "none"]
<1>1. stopped \in SoundRead /\ stopped.cancels = r.cancels + 1
  <2>1. to \in {"leading", "stopping"} /\ n \in Nat
    BY DEF SoundRead, ReadRecord
  <2> HIDE DEF to, n
  <2>2. stopped \in SoundRead /\ stopped.cancels = n
    BY <2>1 DEF SoundRead, ReadRecord
  <2>3. QED
    BY <2>2 DEF n
<1>2. CASE r.st \in Still \/ r.cancels > 0
  BY <1>2 DEF CancelOnce, Still
<1>3. CASE r.st \notin Still /\ r.cancels = 0
  <2>1. CancelOnce(r) = stopped
    <3>1. ~(r.st \in {"none", "ended"} \/ r.cancels > 0)
      BY <1>3 DEF Still
    <3>2. CancelOnce(r) = [r EXCEPT !.cancels = @ + 1,
                                    !.st = IF @ = "leading" THEN @ ELSE "stopping",
                                    !.of = NoCall, !.out = "none"]
      BY <3>1, Zenon DEF CancelOnce
    <3>3. QED
      BY <3>2 DEF SoundRead, ReadRecord
  <2>2. QED
    BY <1>1, <1>3, <2>1
<1>4. QED
  BY <1>2, <1>3 DEF SoundRead, ReadRecord

LEMMA ToldReads ==
  ASSUME NEW rs \in ReadTable, NEW leader, NEW ps, NEW how \in Ends
  PROVE  /\ Told(rs, leader, ps, how) \in ReadTable
         /\ \A c \in Calls, p \in Providers : Moves(rs[c][p], Told(rs, leader, ps, how)[c][p])
<1> DEFINE next(r) == IF how # "cancelled"
                      THEN [r EXCEPT !.st = "told", !.of = NoCall, !.out = how]
                      ELSE [r EXCEPT !.st = IF r.cancels = 0 THEN "ready" ELSE "stopping",
                                     !.of = NoCall]
<1>1. ASSUME NEW r \in SoundRead, r.st = "following"
      PROVE  next(r) \in SoundRead /\ Moves(r, next(r))
  BY <1>1 DEF SoundRead, ReadRecord, Ends, Kinds, Moves, Still
<1>2. \A c \in Calls, p \in Providers : rs[c][p] \in SoundRead
  BY DEF ReadTable
<1> HIDE DEF next
<1>3. Told(rs, leader, ps, how) =
        [c \in Calls |-> [p \in Providers |->
           IF p \in ps /\ rs[c][p].st = "following" /\ rs[c][p].of = leader
           THEN next(rs[c][p]) ELSE rs[c][p]]]
  BY DEF Told, next
<1>4. QED
  BY <1>1, <1>2, <1>3 DEF ReadTable, Moves

LEMMA AbandonReads ==
  ASSUME NEW rs \in ReadTable, NEW c \in Calls
  PROVE  /\ Abandon(rs, c) \in ReadTable
         /\ \A d \in Calls, p \in Providers : Moves(rs[d][p], Abandon(rs, c)[d][p])
<1> DEFINE freed == [rs EXCEPT ![c] = [p \in Providers |-> [@[p] EXCEPT !.held = FALSE]]]
           lost  == {p \in Providers : rs[c][p].held}
<1>1. \A d \in Calls, p \in Providers : rs[d][p] \in SoundRead
  BY DEF ReadTable
<1>2. ASSUME NEW r \in SoundRead
      PROVE  [r EXCEPT !.held = FALSE] \in SoundRead /\ Moves(r, [r EXCEPT !.held = FALSE])
  BY DEF SoundRead, ReadRecord, Moves
<1>3. freed = [d \in Calls |-> IF d = c THEN [p \in Providers |-> [rs[c][p] EXCEPT !.held = FALSE]]
                               ELSE rs[d]]
  BY DEF ReadTable
<1>4. freed \in ReadTable /\ \A d \in Calls, p \in Providers : Moves(rs[d][p], freed[d][p])
  BY <1>1, <1>2, <1>3 DEF ReadTable, Moves
<1>5. Abandon(rs, c) = Told(freed, c, lost, "cancelled")
  BY DEF Abandon
<1> HIDE DEF freed, lost
<1>6. /\ Abandon(rs, c) \in ReadTable
      /\ \A d \in Calls, p \in Providers : Moves(freed[d][p], Abandon(rs, c)[d][p])
  BY <1>4, <1>5, ToldReads DEF Ends
<1>7. QED
  BY <1>4, <1>6 DEF Moves

LEMMA CancelAllReads ==
  ASSUME read \in ReadTable, NEW c \in Calls
  PROVE  /\ CancelAll(c) \in ReadTable
         /\ \A d \in Calls \ {c}, p \in Providers : CancelAll(c)[d][p] = read[d][p]
         /\ \A p \in Providers : CancelAll(c)[c][p] = CancelOnce(read[c][p])
<1>1. \A p \in Providers : CancelOnce(read[c][p]) \in SoundRead
  BY CancelOnceRead DEF ReadTable
<1>2. CancelAll(c) = [d \in Calls |-> IF d = c THEN [p \in Providers |-> CancelOnce(read[c][p])]
                                      ELSE read[d]]
  BY DEF CancelAll, ReadTable
<1>3. QED
  BY <1>1, <1>2 DEF ReadTable

\* What a call that is over does to the reads: its own are cancelled, once, if
\* they still run; the others only move.
Parts(c) ==
  /\ read' \in ReadTable
  /\ \A d \in Calls \ {c}, p \in Providers : Moves(read[d][p], read'[d][p])
  /\ \A p \in Providers :
       /\ read[c][p].cancels <= 1 => read'[c][p].cancels <= 1
       /\ read[c][p].st \in Still => Moves(read[c][p], read'[c][p])

LEMMA CancelledReads ==
  ASSUME read \in ReadTable, NEW c \in Calls, read' = CancelAll(c)
  PROVE  Parts(c)
<1>1. \A p \in Providers : read[c][p] \in SoundRead
  BY DEF ReadTable
<1>2. QED
  BY <1>1, CancelAllReads, CancelOnceRead DEF Parts, Moves

LEMMA LeftReads ==
  ASSUME read \in ReadTable, NEW c \in Calls, read' = Abandon(CancelAll(c), c)
  PROVE  Parts(c)
<1>1. \A p \in Providers : read[c][p] \in SoundRead
  BY DEF ReadTable
<1>2. /\ CancelAll(c) \in ReadTable
      /\ \A d \in Calls \ {c}, p \in Providers : CancelAll(c)[d][p] = read[d][p]
      /\ \A p \in Providers : CancelAll(c)[c][p] = CancelOnce(read[c][p])
  BY CancelAllReads
<1>3. /\ read' \in ReadTable
      /\ \A d \in Calls, p \in Providers : Moves(CancelAll(c)[d][p], read'[d][p])
  BY <1>2, AbandonReads
<1>4. QED
  BY <1>1, <1>2, <1>3, CancelOnceRead DEF Parts, Moves

-----------------------------------------------------------------------------
(* The inductive invariant: where a call stands says how late it can be, and *)
(* what its reads were asked.                                                *)

Paced(c) ==
  /\ phase[c] = "reading" => now <= deadline[c] + lag
  /\ phase[c] = "cut1" =>
       /\ now <= deadline[c] + CutWait + lag
       /\ cutEnd[c] >= deadline[c] + CutWait
       /\ cutEnd[c] <= deadline[c] + CutWait + lag
  /\ phase[c] = "cut2" =>
       /\ now >= deadline[c] + CutWait
       /\ now <= deadline[c] + 2 * CutWait + lag
       /\ cutEnd[c] <= deadline[c] + 2 * CutWait + lag

Spared(c) ==
  \A p \in Providers :
    /\ read[c][p].cancels <= 1
    /\ read[c][p].cancels > 0 => /\ phase[c] \notin {"idle", "reading", "cut1"}
                                 /\ now >= deadline[c] + CutWait

InTimeEnded(c) ==
  /\ phase[c] \notin {"cut1", "cut2"} => inTime[c] = {}
  /\ \A p \in inTime[c] : read[c][p].st = "ended"

IInv ==
  /\ TypeOK
  /\ read \in ReadTable
  /\ \A c \in Calls : Paced(c) /\ Spared(c) /\ InTimeEnded(c)

ReadsMove ==
  /\ read' \in ReadTable
  /\ \A c \in Calls, p \in Providers : Moves(read[c][p], read'[c][p])

LEMMA InitHolds == Init => IInv
<1> SUFFICES ASSUME Init PROVE IInv
  OBVIOUS
<1>1. /\ 0 \in 0..MaxTime /\ 0 \in 0..MaxLag /\ 0 \in 0..MaxBatches
      /\ 0 \in 0..MaxRotations /\ 0 \in 0..MaxResets
  BY Limits
<1>2. NoRead \in SoundRead
  BY <1>1 DEF NoRead, SoundRead, ReadRecord, Kinds
<1>3. read \in ReadTable
  BY <1>2 DEF Init, ReadTable
<1>4. read \in [Calls -> [Providers -> ReadRecord]]
  BY <1>3 DEF ReadTable, SoundRead
<1>5. TypeOK
  BY <1>1, <1>4 DEF Init, TypeOK
<1>6. \A c \in Calls : Paced(c) /\ Spared(c) /\ InTimeEnded(c)
  BY DEF Init, Paced, Spared, InTimeEnded, NoRead
<1>7. QED
  BY <1>3, <1>5, <1>6 DEF IInv

\* A step that only moves the reads keeps everything said of them.
LEMMA MovesKeep ==
  ASSUME IInv, ReadsMove, UNCHANGED <<clock, callVars>>
  PROVE  \A c \in Calls : Paced(c)' /\ Spared(c)' /\ InTimeEnded(c)'
<1> TAKE c \in Calls
<1>1. Paced(c) /\ Spared(c) /\ InTimeEnded(c)
  BY DEF IInv
<1>2. \A p \in Providers : /\ read'[c][p].cancels = read[c][p].cancels
                           /\ read[c][p].st = "ended" => read'[c][p].st = "ended"
  BY DEF ReadsMove, Moves, Still
<1>3. inTime[c] \in SUBSET Providers
  BY DEF IInv, TypeOK
<1>4. /\ now' = now /\ lag' = lag /\ phase' = phase
      /\ deadline' = deadline /\ cutEnd' = cutEnd /\ inTime' = inTime
  BY DEF clock, callVars
<1>5. QED
  BY <1>1, <1>2, <1>3, <1>4 DEF Paced, Spared, InTimeEnded

LEMMA TableType == ASSUME read \in ReadTable
                   PROVE  read \in [Calls -> [Providers -> ReadRecord]]
BY DEF ReadTable, SoundRead

-----------------------------------------------------------------------------
(* The tasks of the reads *)

LEMMA SettleMoves ==
  ASSUME IInv, NEW c \in Calls, NEW p \in Providers, NEW how \in Ends, NEW r \in SoundRead,
         Moves(read[c][p], r), Settle(c, p, how, r)
  PROVE  ReadsMove /\ active' \in [Providers -> Int] /\ OnlyReads
<1> DEFINE told == IF read[c][p].held THEN Told(read, c, {p}, how) ELSE read
<1>1. read \in ReadTable
  BY DEF IInv
<1>2. told \in ReadTable /\ \A d \in Calls, q \in Providers : Moves(read[d][q], told[d][q])
  <2>1. CASE read[c][p].held
    BY <1>1, <2>1, ToldReads
  <2>2. CASE ~read[c][p].held
    BY <1>1, <2>2 DEF Moves
  <2>3. QED
    BY <2>1, <2>2
<1>3. read' = [told EXCEPT ![c][p] = r]
  BY DEF Settle
<1> HIDE DEF told
<1>4. ReadsMove
  BY <1>2, <1>3 DEF ReadsMove, ReadTable, Moves
<1>5. active' \in [Providers -> Int]
  BY DEF Settle, IInv, TypeOK
<1>6. QED
  BY <1>4, <1>5 DEF Settle

LEMMA TaskMoves ==
  ASSUME IInv, NEW c \in Calls, NEW p \in Providers, Task(c, p) \/ Source(c, p)
  PROVE  /\ ReadsMove /\ active' \in [Providers -> Int] /\ OnlyReads
         /\ refusals' \in [Providers -> SUBSET (0..MaxRotations)]
<1> USE DEF Ends
<1>1. read \in ReadTable /\ read[c][p] \in SoundRead
  BY DEF IInv, ReadTable
<1>2. /\ active \in [Providers -> Int] /\ secret \in [Providers -> 0..MaxRotations]
      /\ refusals \in [Providers -> SUBSET (0..MaxRotations)]
  BY DEF IInv, TypeOK
<1>3. CASE Lead(c, p)
  <2> DEFINE r == [read[c][p] EXCEPT !.st = "leading", !.held = TRUE, !.sent = secret[p]]
  <2>1. read[c][p].st = "ready" /\ read' = [read EXCEPT ![c][p] = r]
    BY <1>1, <1>3 DEF Lead, ReadTable
  <2>2. r \in SoundRead /\ Moves(read[c][p], r)
    BY <1>1, <1>2, <2>1 DEF SoundRead, ReadRecord, Moves, Still
  <2> HIDE DEF r
  <2>3. ReadsMove
    BY <1>1, <2>1, <2>2 DEF ReadsMove, ReadTable, Moves
  <2>4. QED
    BY <1>2, <1>3, <2>3 DEF Lead
<1>4. CASE Wake(c, p)
  <2> DEFINE r == IF read[c][p].out = "ok" THEN Answered(read[c][p])
                  ELSE End(read[c][p], read[c][p].out)
  <2>1. read[c][p].st = "told" /\ read' = [read EXCEPT ![c][p] = r]
    BY <1>4 DEF Wake
  <2>2. read[c][p].out \in Ends /\ read[c][p].st \notin Still
    BY <1>1, <2>1 DEF SoundRead, ReadRecord, Still
  <2>3. r \in SoundRead /\ Moves(read[c][p], r)
    BY <1>1, <2>2, AnsweredRead, EndRead
  <2>4. active' \in [Providers -> Int]
    BY <1>2, <1>4 DEF Wake
  <2> HIDE DEF r
  <2>5. ReadsMove
    BY <1>1, <2>1, <2>3 DEF ReadsMove, ReadTable, Moves
  <2>6. QED
    BY <1>2, <1>4, <2>4, <2>5 DEF Wake
<1>5. CASE Stop(c, p)
  <2> DEFINE r == End(read[c][p], "cancelled")
  <2>1. read[c][p].st = "stopping" /\ read' = [read EXCEPT ![c][p] = r]
    BY <1>5 DEF Stop
  <2>2. r \in SoundRead /\ Moves(read[c][p], r)
    BY <1>1, <2>1, EndRead DEF Still
  <2>3. active' \in [Providers -> Int]
    BY <1>2, <1>5 DEF Stop
  <2> HIDE DEF r
  <2>4. ReadsMove
    BY <1>1, <2>1, <2>2 DEF ReadsMove, ReadTable, Moves
  <2>5. QED
    BY <1>2, <1>5, <2>3, <2>4 DEF Stop
<1>6. CASE \E d \in Calls : Follow(c, p, d)
  <2>1. PICK d \in Calls : Follow(c, p, d)
    BY <1>6
  <2> DEFINE r == [read[c][p] EXCEPT !.st = "following", !.of = d]
  <2>2. read[c][p].st = "ready" /\ read' = [read EXCEPT ![c][p] = r]
    BY <1>1, <2>1 DEF Follow, ReadTable
  <2>3. r \in SoundRead /\ Moves(read[c][p], r)
    BY <1>1, <2>2 DEF SoundRead, ReadRecord, Moves, Still
  <2> HIDE DEF r
  <2>4. ReadsMove
    BY <1>1, <2>2, <2>3 DEF ReadsMove, ReadTable, Moves
  <2>5. QED
    BY <1>2, <2>1, <2>4 DEF Follow
<1>7. CASE SourceAnswers(c, p)
  <2>1. read[c][p].st \notin Still /\ Settle(c, p, "ok", Answered(read[c][p]))
    BY <1>7 DEF SourceAnswers, Settle, Still
  <2>2. Answered(read[c][p]) \in SoundRead /\ Moves(read[c][p], Answered(read[c][p]))
    BY <1>1, <2>1, AnsweredRead
  <2>3. QED
    BY <1>2, <1>7, <2>1, <2>2, SettleMoves DEF SourceAnswers
<1>8. CASE \E kind \in Kinds : SourceFails(c, p, kind)
  <2>1. PICK kind \in Kinds : SourceFails(c, p, kind)
    BY <1>8
  <2>2. read[c][p].st \notin Still /\ Settle(c, p, kind, End(read[c][p], kind))
    BY <2>1 DEF SourceFails, Settle, Still
  <2>3. End(read[c][p], kind) \in SoundRead /\ Moves(read[c][p], End(read[c][p], kind))
    BY <1>1, <2>2, EndRead
  <2>4. ReadsMove /\ active' \in [Providers -> Int] /\ OnlyReads
    BY <2>2, <2>3, SettleMoves
  <2>5. read[c][p].sent \in 0..MaxRotations
    BY <1>1 DEF SoundRead, ReadRecord
  <2>6. refusals' \in [Providers -> SUBSET (0..MaxRotations)]
    BY <1>2, <2>1, <2>5 DEF SourceFails
  <2>7. QED
    BY <2>4, <2>6
<1>9. CASE SourceCancelled(c, p)
  <2>1. read[c][p].st \notin Still /\ Settle(c, p, "cancelled", End(read[c][p], "cancelled"))
    BY <1>9 DEF SourceCancelled, Settle, Still
  <2>2. End(read[c][p], "cancelled") \in SoundRead /\ Moves(read[c][p], End(read[c][p], "cancelled"))
    BY <1>1, <2>1, EndRead
  <2>3. QED
    BY <1>2, <1>9, <2>1, <2>2, SettleMoves DEF SourceCancelled
<1>10. QED
  BY <1>3, <1>4, <1>5, <1>6, <1>7, <1>8, <1>9 DEF Task, Source

LEMMA TaskKeeps ==
  ASSUME IInv, NEW c \in Calls, NEW p \in Providers, Task(c, p) \/ Source(c, p)
  PROVE  IInv'
<1>1. /\ ReadsMove /\ active' \in [Providers -> Int] /\ OnlyReads
      /\ refusals' \in [Providers -> SUBSET (0..MaxRotations)]
  BY TaskMoves
<1>2. /\ UNCHANGED <<now, lag, phase, deadline, cutEnd, inTime, status, stamp>>
      /\ UNCHANGED <<breaker, gauge, errors, secret, generation, signal, toClear>>
  BY <1>1 DEF OnlyReads, clock, callVars, sourceVars, resetVars
<1>3. UNCHANGED <<clock, callVars>>
  BY <1>2 DEF clock, callVars
<1>4. read' \in ReadTable
  BY <1>1 DEF ReadsMove
<1>5. read' \in [Calls -> [Providers -> ReadRecord]]
  BY <1>4 DEF ReadTable, SoundRead
<1>6. TypeOK'
  BY <1>1, <1>2, <1>5 DEF IInv, TypeOK, Breaker
<1>7. QED
  BY <1>1, <1>3, <1>4, <1>6, MovesKeep DEF IInv

-----------------------------------------------------------------------------
(* The steps of a call *)

LEMMA StartKeeps ==
  ASSUME IInv, NEW c \in Calls, NEW ask \in [Providers -> Asks], NEW t \in Timeouts,
         NEW n \in 1..MaxBatches, Start(c, ask, now + t, n)
  PROVE  IInv'
<1> DEFINE verdict == [p \in Providers |-> Verdict(p, ask[p], now + t)]
           begun   == {p \in Providers : verdict[p] = "read"}
           fresh(p) == IF p \in begun
                       THEN [NoRead EXCEPT !.st = "ready", !.left = n,
                                           !.some = (ask[p] = "partly")]
                       ELSE NoRead
<1>1. TypeOK /\ read \in ReadTable /\ now \in Nat /\ t \in Nat /\ n \in 0..MaxBatches
  BY ChainAssumption DEF IInv, TypeOK
<1>2. \A p \in Providers : verdict[p] \in Statuses \cup {"read"}
  <2> SUFFICES ASSUME NEW p \in Providers PROVE Verdict(p, ask[p], now + t) \in Statuses \cup {"read"}
    OBVIOUS
  <2>1. Blocks(p, secret[p]) => breaker[p].status \in {"unavailable", "refused"}
    BY <1>1 DEF TypeOK, Blocks, Breaker
  <2>2. QED
    BY <2>1 DEF Verdict, Statuses, NotWell
<1>3. \A p \in Providers : fresh(p) \in SoundRead /\ fresh(p).cancels = 0
  <2>1. 0 \in 0..MaxBatches /\ 0 \in 0..MaxRotations
    BY Limits
  <2>2. QED
    BY <1>1, <2>1 DEF NoRead, SoundRead, ReadRecord, Kinds
<1>4. /\ phase[c] = "idle" /\ UNCHANGED <<now, lag, cutEnd, inTime, secret>>
      /\ UNCHANGED <<generation, signal, toClear, refusals>>
      /\ phase' = [phase EXCEPT ![c] = IF begun = {} THEN "over" ELSE "reading"]
      /\ deadline' = [deadline EXCEPT ![c] = now + t]
      /\ stamp' = [stamp EXCEPT ![c] = [p \in Providers |-> secret[p]]]
      /\ errors' = errors \/ Count(c)
  BY DEF Start, clock, resetVars
<1>5. /\ active' = [p \in Providers |-> active[p] + (IF p \in begun THEN 1 ELSE 0)]
      /\ status' = [status EXCEPT ![c] = [p \in Providers |->
                      IF p \in begun THEN "none" ELSE verdict[p]]]
      /\ read' = [read EXCEPT ![c] = [p \in Providers |-> fresh(p)]]
  BY DEF Start
<1>6. breaker' \in [Providers -> Breaker \cup {NoBreaker}] /\ gauge' \in [Providers -> {0, 1}]
  BY <1>1 DEF Start, TypeOK
<1>7. begun \in SUBSET Providers /\ \A p \in Providers \ begun : verdict[p] \in Statuses
  BY <1>2
<1> HIDE DEF verdict, begun, fresh
<1>8. read' \in ReadTable
  BY <1>1, <1>3, <1>5 DEF ReadTable
<1>9. TypeOK'
  <2>1. phase' \in [Calls -> {"idle"} \cup Waiting \cup Over]
    BY <1>1, <1>4 DEF TypeOK, Waiting, Over
  <2>2. deadline' \in [Calls -> Nat] /\ stamp' \in [Calls -> [Providers -> 0..MaxRotations]]
    BY <1>1, <1>4 DEF TypeOK
  <2>3. status' \in [Calls -> [Providers -> Statuses \cup {"none"}]]
    BY <1>1, <1>5, <1>7 DEF TypeOK
  <2>4. active' \in [Providers -> Int]
    BY <1>1, <1>5 DEF TypeOK
  <2>5. errors' \in [Providers -> Nat]
    BY <1>1, <1>4 DEF TypeOK, Count
  <2>6. read' \in [Calls -> [Providers -> ReadRecord]]
    BY <1>8 DEF ReadTable, SoundRead
  <2>7. QED
    BY <1>1, <1>4, <1>6, <2>1, <2>2, <2>3, <2>4, <2>5, <2>6 DEF TypeOK, Breaker
<1>10. ASSUME NEW d \in Calls PROVE Paced(d)' /\ Spared(d)' /\ InTimeEnded(d)'
  <2>1. Paced(d) /\ Spared(d) /\ InTimeEnded(d)
    BY DEF IInv
  <2>2. CASE d = c
    <3>1. phase'[c] \in {"over", "reading"} /\ deadline'[c] = now + t
      BY <1>1, <1>4 DEF TypeOK
    <3>2. inTime'[c] = {}
      BY <1>4, <2>1, <2>2 DEF InTimeEnded
    <3>3. \A p \in Providers : read'[c][p].cancels = 0
      BY <1>1, <1>3, <1>5 DEF ReadTable
    <3>4. now \in Nat /\ lag \in Nat
      BY <1>1, Limits DEF TypeOK
    <3>5. QED
      BY <1>1, <1>4, <2>2, <3>1, <3>2, <3>3, <3>4 DEF Paced, Spared, InTimeEnded
  <2>3. CASE d # c
    <3>1. /\ phase'[d] = phase[d] /\ deadline'[d] = deadline[d] /\ read'[d] = read[d]
          /\ cutEnd'[d] = cutEnd[d] /\ inTime'[d] = inTime[d]
      BY <1>1, <1>4, <1>5, <2>3 DEF TypeOK, ReadTable
    <3>2. QED
      BY <1>4, <2>1, <3>1 DEF Paced, Spared, InTimeEnded
  <2>4. QED
    BY <2>2, <2>3
<1>11. QED
  BY <1>8, <1>9, <1>10 DEF IInv

\* What a step of another call, or of none, keeps of a call.
LEMMA OthersKeep ==
  ASSUME IInv, NEW d \in Calls,
         \A p \in Providers : Moves(read[d][p], read'[d][p]),
         now' = now, lag' = lag, phase'[d] = phase[d], deadline'[d] = deadline[d],
         cutEnd'[d] = cutEnd[d], inTime'[d] = inTime[d]
  PROVE  Paced(d)' /\ Spared(d)' /\ InTimeEnded(d)'
<1>1. Paced(d) /\ Spared(d) /\ InTimeEnded(d)
  BY DEF IInv
<1>2. inTime[d] \in SUBSET Providers
  BY DEF IInv, TypeOK
<1>3. QED
  BY <1>1, <1>2 DEF Paced, Spared, InTimeEnded, Moves, Still

\* A read is abandoned with its cancellation, which comes late enough.
LEMMA LateSpared ==
  ASSUME IInv, NEW c \in Calls, Parts(c), now' = now, deadline' = deadline,
         phase'[c] \in {"cut2", "over", "gone"},
         now >= deadline[c] + CutWait \/ \A p \in Providers : read[c][p].st \in Still
  PROVE  Spared(c)'
<1>1. Spared(c)
  BY DEF IInv
<1>2. \A p \in Providers :
        /\ read'[c][p].cancels <= 1
        /\ read[c][p].st \in Still => read'[c][p].cancels = read[c][p].cancels
  BY <1>1 DEF Parts, Spared, Moves
<1>3. QED
  BY <1>1, <1>2 DEF Spared

LEMMA ReadsStill ==
  ASSUME NEW c \in Calls, EndedReads(c) = Reads(c)
  PROVE  \A p \in Providers : read[c][p].st \in Still
BY DEF EndedReads, Reads, Ended, Still

LEMMA OutcomeType ==
  ASSUME IInv, NEW c \in Calls, NEW ended \in SUBSET EndedReads(c), NEW p \in Reads(c)
  PROVE  /\ Outcome(c, p, ended) \in Statuses
         /\ p \in Opens(c, ended) =>
              /\ Outcome(c, p, ended) \in {"unavailable", "refused"}
              /\ read[c][p].out \in {"outage", "late", "refused"}
<1>1. CutShort(c, p) \in Statuses
  BY DEF CutShort, Statuses, NotWell
<1>2. p \in ended => read[c][p].out \in Ends
  <2>1. read[c][p] \in SoundRead
    BY DEF IInv, ReadTable, Reads
  <2>2. p \in ended => read[c][p].st = "ended"
    BY DEF EndedReads, Ended
  <2>3. QED
    BY <2>1, <2>2 DEF SoundRead, ReadRecord, Ends
<1>3. Outcome(c, p, ended) \in Statuses
  BY <1>1, <1>2 DEF Outcome, Ends, Kinds, Statuses, NotWell
<1>4. ASSUME p \in Opens(c, ended)
      PROVE  /\ Outcome(c, p, ended) \in {"unavailable", "refused"}
             /\ read[c][p].out \in {"outage", "late", "refused"}
  <2>1. p \in ended /\ \/ read[c][p].out = "refused"
                       \/ read[c][p].out \in {"outage", "late"} /\ now < deadline[c] - CutWait
    BY <1>4 DEF Opens
  <2>2. now \in Int /\ deadline[c] - CutWait \in Int
    BY Limits DEF IInv, TypeOK
  <2>3. CASE read[c][p].out = "refused"
    BY <2>1, <2>3 DEF Outcome
  <2>4. CASE read[c][p].out \in {"outage", "late"} /\ now < deadline[c] - CutWait
    BY <2>1, <2>2, <2>4 DEF Outcome
  <2>5. QED
    BY <2>1, <2>3, <2>4
<1>5. QED
  BY <1>3, <1>4

LEMMA ConcludeKeeps ==
  ASSUME IInv, NEW c \in Calls, NEW ended \in SUBSET EndedReads(c), Conclude(c, ended),
         now >= deadline[c] + CutWait \/ EndedReads(c) = Reads(c)
  PROVE  IInv'
<1> DEFINE opened == Opens(c, ended)
<1>1. TypeOK /\ read \in ReadTable
  BY DEF IInv
<1>2. /\ UNCHANGED <<now, lag, deadline, stamp, active, secret>>
      /\ UNCHANGED <<generation, signal, toClear, refusals>>
      /\ phase' = [phase EXCEPT ![c] = "over"]
      /\ inTime' = [inTime EXCEPT ![c] = {}] /\ cutEnd' = [cutEnd EXCEPT ![c] = 0]
      /\ read' = Abandon(CancelAll(c), c) /\ Count(c)
  BY DEF Conclude, clock, resetVars, Forget
<1>3. Parts(c)
  BY <1>1, <1>2, LeftReads
<1>4. TypeOK'
  <2>1. status' \in [Calls -> [Providers -> Statuses \cup {"none"}]]
    BY <1>1, OutcomeType DEF Conclude, TypeOK
  <2>2. \A p \in opened : Opening(stamp[c][p], Outcome(c, p, ended), read[c][p].out) \in Breaker
    <3> SUFFICES ASSUME NEW p \in opened
                 PROVE  Opening(stamp[c][p], Outcome(c, p, ended), read[c][p].out) \in Breaker
      OBVIOUS
    <3>1. p \in Reads(c) /\ p \in Providers
      BY DEF Opens, EndedReads, Reads
    <3>2. /\ Outcome(c, p, ended) \in {"unavailable", "refused"}
          /\ read[c][p].out \in {"outage", "late", "refused"}
      BY <3>1, OutcomeType
    <3>3. /\ stamp[c][p] \in 0..MaxRotations /\ generation \in 0..MaxResets
          /\ now + RefusedRetry \in Nat /\ now + RetryAfter \in Nat
      BY <1>1, <3>1, Limits DEF TypeOK
    <3>4. QED
      BY <3>2, <3>3 DEF Opening, Breaker
  <2>3. breaker' \in [Providers -> Breaker \cup {NoBreaker}]
    BY <1>1, <2>2 DEF Conclude, TypeOK
  <2>4. gauge' \in [Providers -> {0, 1}]
    BY <1>1 DEF Conclude, TypeOK
  <2>5. errors' \in [Providers -> Nat]
    BY <1>1, <1>2 DEF Count, TypeOK
  <2>6. read' \in [Calls -> [Providers -> ReadRecord]]
    BY <1>3 DEF Parts, ReadTable, SoundRead
  <2>7. /\ phase' \in [Calls -> {"idle"} \cup Waiting \cup Over]
        /\ inTime' \in [Calls -> SUBSET Providers] /\ cutEnd' \in [Calls -> Nat]
    BY <1>1, <1>2 DEF TypeOK, Over
  <2>8. QED
    BY <1>1, <1>2, <2>1, <2>3, <2>4, <2>5, <2>6, <2>7 DEF TypeOK, Breaker
<1>5. ASSUME NEW d \in Calls PROVE Paced(d)' /\ Spared(d)' /\ InTimeEnded(d)'
  <2>1. CASE d = c
    <3>1. phase'[c] = "over" /\ inTime'[c] = {}
      BY <1>1, <1>2 DEF TypeOK
    <3>2. Spared(c)'
      BY <1>2, <1>3, <3>1, LateSpared, ReadsStill
    <3>3. QED
      BY <2>1, <3>1, <3>2 DEF Paced, InTimeEnded
  <2>2. CASE d # c
    <3>1. \A p \in Providers : Moves(read[d][p], read'[d][p])
      BY <1>3, <2>2 DEF Parts
    <3>2. phase'[d] = phase[d] /\ cutEnd'[d] = cutEnd[d] /\ inTime'[d] = inTime[d]
      BY <1>1, <1>2, <2>2 DEF TypeOK
    <3>3. QED
      BY <1>2, <3>1, <3>2, OthersKeep
  <2>3. QED
    BY <2>1, <2>2
<1>6. QED
  BY <1>3, <1>4, <1>5 DEF IInv, Parts

LEMMA ExpireKeeps ==
  ASSUME IInv, NEW c \in Calls, Expire(c)
  PROVE  IInv'
<1>1. TypeOK /\ read \in ReadTable /\ Paced(c) /\ Spared(c)
  BY DEF IInv
<1>2. /\ phase[c] = "reading" /\ now >= deadline[c]
      /\ UNCHANGED <<now, lag, deadline, status, stamp, read, active, breaker, gauge>>
      /\ UNCHANGED <<errors, secret, generation, signal, toClear, refusals>>
      /\ phase' = [phase EXCEPT ![c] = "cut1"]
      /\ cutEnd' = [cutEnd EXCEPT ![c] = now + CutWait]
      /\ inTime' = [inTime EXCEPT ![c] = EndedReads(c)]
  BY DEF Expire, clock, resetVars, sourceVars
<1>3. /\ now \in Nat /\ lag \in Nat /\ CutWait \in Nat /\ deadline[c] \in Nat
      /\ EndedReads(c) \in SUBSET Providers
  BY <1>1, Limits DEF TypeOK, EndedReads, Reads
<1>4. TypeOK'
  <2>1. /\ phase' \in [Calls -> {"idle"} \cup Waiting \cup Over]
        /\ inTime' \in [Calls -> SUBSET Providers] /\ cutEnd' \in [Calls -> Nat]
    BY <1>1, <1>2, <1>3 DEF TypeOK, Waiting
  <2>2. QED
    BY <1>1, <1>2, <2>1 DEF TypeOK, Breaker
<1>5. ASSUME NEW d \in Calls PROVE Paced(d)' /\ Spared(d)' /\ InTimeEnded(d)'
  <2>1. CASE d = c
    <3>1. /\ phase'[c] = "cut1" /\ cutEnd'[c] = now + CutWait /\ inTime'[c] = EndedReads(c)
          /\ now' = now /\ lag' = lag /\ deadline' = deadline /\ read' = read
      BY <1>1, <1>2 DEF TypeOK
    <3>2. now <= deadline[c] + lag
      BY <1>1, <1>2 DEF Paced
    <3>3. Paced(c)'
      BY <1>2, <1>3, <3>1, <3>2 DEF Paced
    <3>4. Spared(c)'
      BY <1>1, <1>2, <3>1 DEF Spared
    <3>5. InTimeEnded(c)'
      BY <3>1 DEF InTimeEnded, EndedReads, Ended
    <3>6. QED
      BY <2>1, <3>3, <3>4, <3>5
  <2>2. CASE d # c
    <3>1. phase'[d] = phase[d] /\ cutEnd'[d] = cutEnd[d] /\ inTime'[d] = inTime[d]
      BY <1>1, <1>2, <2>2 DEF TypeOK
    <3>2. \A p \in Providers : Moves(read[d][p], read'[d][p])
      BY <1>2 DEF Moves
    <3>3. QED
      BY <1>2, <3>1, <3>2, OthersKeep
  <2>3. QED
    BY <2>1, <2>2
<1>6. QED
  BY <1>1, <1>2, <1>4, <1>5 DEF IInv

LEMMA CancelLateKeeps ==
  ASSUME IInv, NEW c \in Calls, CancelLate(c)
  PROVE  IInv'
<1>1. TypeOK /\ read \in ReadTable /\ Paced(c)
  BY DEF IInv
<1>2. /\ phase[c] = "cut1" /\ now >= cutEnd[c]
      /\ UNCHANGED <<now, lag, deadline, status, stamp, active, breaker, gauge>>
      /\ UNCHANGED <<errors, secret, generation, signal, toClear, refusals>>
      /\ phase' = [phase EXCEPT ![c] = "cut2"]
      /\ cutEnd' = [cutEnd EXCEPT ![c] = now + CutWait]
      /\ inTime' = [inTime EXCEPT ![c] = EndedReads(c)]
      /\ read' = CancelAll(c)
  BY DEF CancelLate, clock, resetVars, sourceVars
<1>3. /\ now \in Nat /\ lag \in Nat /\ CutWait \in Nat /\ deadline[c] \in Nat /\ cutEnd[c] \in Nat
      /\ EndedReads(c) \in SUBSET Providers
  BY <1>1, Limits DEF TypeOK, EndedReads, Reads
<1>4. Parts(c)
  BY <1>1, <1>2, CancelledReads
<1>5. now >= deadline[c] + CutWait /\ now <= deadline[c] + CutWait + lag
  BY <1>1, <1>2, <1>3 DEF Paced
<1>6. TypeOK'
  <2>1. /\ phase' \in [Calls -> {"idle"} \cup Waiting \cup Over]
        /\ inTime' \in [Calls -> SUBSET Providers] /\ cutEnd' \in [Calls -> Nat]
    BY <1>1, <1>2, <1>3 DEF TypeOK, Waiting
  <2>2. read' \in [Calls -> [Providers -> ReadRecord]]
    BY <1>4 DEF Parts, ReadTable, SoundRead
  <2>3. QED
    BY <1>1, <1>2, <2>1, <2>2 DEF TypeOK, Breaker
<1>7. ASSUME NEW d \in Calls PROVE Paced(d)' /\ Spared(d)' /\ InTimeEnded(d)'
  <2>1. CASE d = c
    <3>1. /\ phase'[c] = "cut2" /\ cutEnd'[c] = now + CutWait /\ inTime'[c] = EndedReads(c)
          /\ now' = now /\ lag' = lag /\ deadline' = deadline
      BY <1>1, <1>2 DEF TypeOK
    <3>2. Paced(c)'
      BY <1>3, <1>5, <3>1 DEF Paced
    <3>3. Spared(c)'
      BY <1>4, <1>5, <3>1, LateSpared
    <3>4. InTimeEnded(c)'
      BY <1>4, <3>1 DEF InTimeEnded, EndedReads, Reads, Ended, Parts, Moves, Still
    <3>5. QED
      BY <2>1, <3>2, <3>3, <3>4
  <2>2. CASE d # c
    <3>1. phase'[d] = phase[d] /\ cutEnd'[d] = cutEnd[d] /\ inTime'[d] = inTime[d]
      BY <1>1, <1>2, <2>2 DEF TypeOK
    <3>2. \A p \in Providers : Moves(read[d][p], read'[d][p])
      BY <1>4, <2>2 DEF Parts
    <3>3. QED
      BY <1>2, <3>1, <3>2, OthersKeep
  <2>3. QED
    BY <2>1, <2>2
<1>8. QED
  BY <1>4, <1>6, <1>7 DEF IInv, Parts

LEMMA CallerGoneKeeps ==
  ASSUME IInv, NEW c \in Calls, CallerGone(c)
  PROVE  IInv'
<1>1. TypeOK /\ read \in ReadTable
  BY DEF IInv
<1>2. /\ now >= deadline[c] + Grace
      /\ UNCHANGED <<now, lag, deadline, stamp, active, breaker, gauge>>
      /\ UNCHANGED <<secret, generation, signal, toClear, refusals>>
      /\ phase' = [phase EXCEPT ![c] = "gone"]
      /\ inTime' = [inTime EXCEPT ![c] = {}] /\ cutEnd' = [cutEnd EXCEPT ![c] = 0]
      /\ read' = Abandon(CancelAll(c), c) /\ Count(c)
  BY DEF CallerGone, clock, resetVars, sourceVars, Forget
<1>3. Parts(c)
  BY <1>1, <1>2, LeftReads
<1>4. now >= deadline[c] + CutWait
  BY <1>1, <1>2, Limits DEF TypeOK
<1>5. TypeOK'
  <2>1. \A p \in Providers : CutShort(c, p) \in Statuses
    BY DEF CutShort, Statuses, NotWell
  <2>2. status' \in [Calls -> [Providers -> Statuses \cup {"none"}]]
    BY <1>1, <2>1 DEF CallerGone, TypeOK
  <2>3. errors' \in [Providers -> Nat]
    BY <1>1, <1>2 DEF Count, TypeOK
  <2>4. read' \in [Calls -> [Providers -> ReadRecord]]
    BY <1>3 DEF Parts, ReadTable, SoundRead
  <2>5. /\ phase' \in [Calls -> {"idle"} \cup Waiting \cup Over]
        /\ inTime' \in [Calls -> SUBSET Providers] /\ cutEnd' \in [Calls -> Nat]
    BY <1>1, <1>2 DEF TypeOK, Over
  <2>6. QED
    BY <1>1, <1>2, <2>2, <2>3, <2>4, <2>5 DEF TypeOK, Breaker
<1>6. ASSUME NEW d \in Calls PROVE Paced(d)' /\ Spared(d)' /\ InTimeEnded(d)'
  <2>1. CASE d = c
    <3>1. phase'[c] = "gone" /\ inTime'[c] = {}
      BY <1>1, <1>2 DEF TypeOK
    <3>2. Spared(c)'
      BY <1>2, <1>3, <1>4, <3>1, LateSpared
    <3>3. QED
      BY <2>1, <3>1, <3>2 DEF Paced, InTimeEnded
  <2>2. CASE d # c
    <3>1. \A p \in Providers : Moves(read[d][p], read'[d][p])
      BY <1>3, <2>2 DEF Parts
    <3>2. phase'[d] = phase[d] /\ cutEnd'[d] = cutEnd[d] /\ inTime'[d] = inTime[d]
      BY <1>1, <1>2, <2>2 DEF TypeOK
    <3>3. QED
      BY <1>2, <3>1, <3>2, OthersKeep
  <2>3. QED
    BY <2>1, <2>2
<1>7. QED
  BY <1>3, <1>5, <1>6 DEF IInv, Parts

LEMMA CallKeeps ==
  ASSUME IInv, NEW c \in Calls, Call(c)
  PROVE  IInv'
<1>1. CASE AllDone(c) \/ CutDone(c)
  <2>1. EndedReads(c) = Reads(c) /\ Conclude(c, EndedReads(c))
    BY <1>1 DEF AllDone, CutDone
  <2>2. QED
    BY <2>1, ConcludeKeeps
<1>2. CASE LeaveBehind(c)
  <2>1. phase[c] = "cut2" /\ Conclude(c, inTime[c])
    BY <1>2 DEF LeaveBehind
  <2>2. now >= deadline[c] + CutWait /\ inTime[c] \in SUBSET EndedReads(c)
    BY <2>1 DEF IInv, TypeOK, Paced, InTimeEnded, EndedReads, Reads, Ended
  <2>3. QED
    BY <2>1, <2>2, ConcludeKeeps
<1>3. QED
  BY <1>1, <1>2, ExpireKeeps, CancelLateKeeps DEF Call

-----------------------------------------------------------------------------
(* The operator, the signal and the clock *)

LEMMA SecretAndSignalKeep ==
  ASSUME IInv, \/ \E p \in Providers : Rotate(p) \/ ResetGauge(p)
               \/ ResetBump \/ ResetList
  PROVE  IInv'
<1>1. TypeOK /\ read \in ReadTable
  BY DEF IInv
<1>2. UNCHANGED <<now, lag, phase, deadline, cutEnd, inTime, status, stamp, read, active,
                  breaker, errors, refusals>>
  BY DEF Rotate, ResetGauge, ResetBump, ResetList, clock, callVars, sourceVars, resetVars
<1>3. /\ secret' \in [Providers -> 0..MaxRotations] /\ gauge' \in [Providers -> {0, 1}]
      /\ generation' \in 0..MaxResets /\ signal' \in {"idle", "bumped", "clearing"}
      /\ toClear' \in SUBSET Providers
  <2>1. CASE \E p \in Providers : Rotate(p)
    <3>1. UNCHANGED <<gauge, generation, signal, toClear>>
      BY <2>1 DEF Rotate, sourceVars, resetVars
    <3>2. secret' \in [Providers -> 0..MaxRotations]
      BY <1>1, <2>1, Limits DEF Rotate, TypeOK
    <3>3. QED
      BY <1>1, <3>1, <3>2 DEF TypeOK
  <2>2. CASE \E p \in Providers : ResetGauge(p)
    BY <1>1, <2>2 DEF ResetGauge, TypeOK
  <2>3. CASE ResetBump
    <3>1. generation' \in 0..MaxResets /\ signal' = "bumped"
      BY <1>1, <2>3, Limits DEF ResetBump, TypeOK
    <3>2. UNCHANGED <<secret, gauge, toClear>>
      BY <2>3 DEF ResetBump, sourceVars
    <3>3. QED
      BY <1>1, <3>1, <3>2 DEF TypeOK
  <2>4. CASE ResetList
    BY <1>1, <2>4 DEF ResetList, TypeOK, sourceVars
  <2>5. QED
    BY <2>1, <2>2, <2>3, <2>4
<1>4. TypeOK'
  BY <1>1, <1>2, <1>3 DEF TypeOK, Breaker
<1>5. ReadsMove /\ UNCHANGED <<clock, callVars>>
  BY <1>1, <1>2 DEF ReadsMove, Moves, clock, callVars
<1>6. QED
  BY <1>1, <1>2, <1>4, <1>5, MovesKeep DEF IInv

LEMMA TickKeeps ==
  ASSUME IInv, Tick
  PROVE  IInv'
<1> DEFINE late == \E c \in Calls : Overdue(c)
<1>1. TypeOK /\ read \in ReadTable
  BY DEF IInv
<1>2. /\ now < MaxTime /\ (late => lag < MaxLag)
      /\ now' = now + 1 /\ lag' = IF late THEN lag + 1 ELSE lag
      /\ UNCHANGED <<phase, deadline, cutEnd, inTime, status, stamp, read, active>>
      /\ UNCHANGED <<breaker, gauge, errors, secret, generation, signal, toClear, refusals>>
  BY DEF Tick, callVars, sourceVars, resetVars
<1>3. now \in Nat /\ lag \in Nat /\ CutWait \in Nat
  BY <1>1, Limits DEF TypeOK
<1>4. now' \in 0..MaxTime /\ lag' \in 0..MaxLag
  BY <1>1, <1>2, Limits DEF TypeOK
<1>5. TypeOK'
  BY <1>1, <1>2, <1>4 DEF TypeOK, Breaker
<1>6. ASSUME NEW c \in Calls PROVE Paced(c)' /\ Spared(c)' /\ InTimeEnded(c)'
  <2>1. Paced(c) /\ Spared(c) /\ InTimeEnded(c)
    BY DEF IInv
  <2>2. deadline[c] \in Nat /\ cutEnd[c] \in Nat
    BY <1>1 DEF TypeOK
  <2>3. lag' \in Nat /\ lag' >= lag /\ (Overdue(c) => lag' = lag + 1)
    BY <1>2, <1>3
  <2>4. Paced(c)'
    BY <1>2, <1>3, <2>1, <2>2, <2>3 DEF Paced, Overdue
  <2>5. Spared(c)'
    BY <1>2, <1>3, <2>1, <2>2 DEF Spared
  <2>6. InTimeEnded(c)'
    BY <1>2, <2>1 DEF InTimeEnded
  <2>7. QED
    BY <2>4, <2>5, <2>6
<1>7. QED
  BY <1>1, <1>2, <1>5, <1>6 DEF IInv

LEMMA StutterKeeps ==
  ASSUME IInv, UNCHANGED vars
  PROVE  IInv'
<1>1. UNCHANGED <<now, lag, phase, deadline, cutEnd, inTime, status, stamp, read, active,
                  breaker, gauge, errors, secret, generation, signal, toClear, refusals>>
  BY DEF vars, clock, callVars, sourceVars, resetVars
<1>2. TypeOK'
  BY <1>1 DEF IInv, TypeOK, Breaker
<1>3. ReadsMove /\ UNCHANGED <<clock, callVars>>
  BY <1>1 DEF IInv, ReadsMove, Moves, clock, callVars
<1>4. QED
  BY <1>1, <1>2, <1>3, MovesKeep DEF IInv

-----------------------------------------------------------------------------

LEMMA StepHolds == IInv /\ [Next]_vars => IInv'
<1> SUFFICES ASSUME IInv, [Next]_vars PROVE IInv'
  OBVIOUS
<1>1. CASE \E c \in Calls : Begin(c)
  BY <1>1, StartKeeps DEF Begin
<1>2. CASE \E c \in Calls : Call(c)
  BY <1>2, CallKeeps
<1>3. CASE \E c \in Calls : CallerGone(c)
  BY <1>3, CallerGoneKeeps
<1>4. CASE \E c \in Calls, p \in Providers : Task(c, p) \/ Source(c, p)
  BY <1>4, TaskKeeps
<1>5. CASE \/ \E p \in Providers : Rotate(p) \/ ResetGauge(p)
           \/ ResetBump \/ ResetList
  BY <1>5, SecretAndSignalKeep
<1>6. CASE Tick
  BY <1>6, TickKeeps
<1>7. CASE Finished \/ UNCHANGED vars
  BY <1>7, StutterKeeps DEF Finished
<1>8. QED
  BY <1>1, <1>2, <1>3, <1>4, <1>5, <1>6, <1>7 DEF Next

LEMMA IInvHolds == Spec => []IInv
BY InitHolds, StepHolds, PTL DEF Spec

\* Every state of the chain, its breakers and the reads it left behind included, is
\* well formed: an outcome always gives a status, and only a failure opens a breaker.
THEOREM ChainTypeCorrect == Spec => []TypeOK
<1>1. IInv => TypeOK
  BY DEF IInv
<1>2. QED
  BY <1>1, IInvHolds, PTL

\* The waits of a call end two short waits past its deadline, plus the lag of the
\* loop, for any calls, sources and deadlines (_collect, _cut).
THEOREM EndsInTimeHolds == Spec => []EndsInTime
<1>1. IInv => EndsInTime
  <2> SUFFICES ASSUME IInv, NEW c \in Calls, phase[c] \in Waiting
               PROVE  now <= deadline[c] + 2 * CutWait + lag
    BY DEF EndsInTime
  <2>1. Paced(c) /\ now \in Nat /\ lag \in Nat /\ deadline[c] \in Nat /\ CutWait \in Nat
    BY Limits DEF IInv, TypeOK
  <2>2. QED
    BY <2>1 DEF Paced, Waiting
<1>2. QED
  BY <1>1, IInvHolds, PTL

\* A read is cancelled once at most, and only after the first wait that follows the
\* deadline of its call, whoever gives up on it (_cut, _cancel_once, _collect).
THEOREM CancelledOnceHolds == Spec => []CancelledOnce
<1>1. IInv => CancelledOnce
  BY DEF IInv, Spared, CancelledOnce
<1>2. QED
  BY <1>1, IInvHolds, PTL

-----------------------------------------------------------------------------
(* The breakers: only the start and the conclusion of a call change one. *)

Changers(p) ==
  \/ breaker'[p] = breaker[p]
  \/ /\ ~Blocks(p, secret[p])
     /\ breaker'[p] = NoBreaker
  \/ \E c \in Calls, st \in {"unavailable", "refused"}, out \in {"outage", "late", "refused"} :
       /\ ~KeepsOpen(p, stamp[c][p], st)
       /\ breaker'[p] = Opening(stamp[c][p], st, out)

LEMMA ConcludeChanges ==
  ASSUME IInv, NEW c \in Calls, NEW ended \in SUBSET EndedReads(c), Conclude(c, ended),
         NEW p \in Providers
  PROVE  Changers(p)
<1> DEFINE opened == Opens(c, ended)
<1>1. breaker'[p] = IF p \in opened
                    THEN Opening(stamp[c][p], Outcome(c, p, ended), read[c][p].out)
                    ELSE breaker[p]
  BY DEF Conclude
<1>2. CASE p \in opened
  <2>1. p \in Reads(c) /\ ~KeepsOpen(p, stamp[c][p], Outcome(c, p, ended))
    BY <1>2 DEF Opens, EndedReads
  <2>2. /\ Outcome(c, p, ended) \in {"unavailable", "refused"}
        /\ read[c][p].out \in {"outage", "late", "refused"}
    BY <1>2, <2>1, OutcomeType
  <2> HIDE DEF opened
  <2>3. breaker'[p] = Opening(stamp[c][p], Outcome(c, p, ended), read[c][p].out)
    BY <1>1, <1>2
  <2>4. QED
    BY <2>1, <2>2, <2>3 DEF Changers
<1>3. CASE p \notin opened
  BY <1>1, <1>3 DEF Changers
<1>4. QED
  BY <1>2, <1>3

LEMMA StepChanges ==
  ASSUME IInv, [Next]_vars
  PROVE  \A p \in Providers : Changers(p)
<1> TAKE p \in Providers
<1>1. CASE \E c \in Calls : Begin(c)
  <2>1. PICK c \in Calls, ask \in [Providers -> Asks], t \in Timeouts, n \in 1..MaxBatches :
          Start(c, ask, now + t, n)
    BY <1>1 DEF Begin
  <2> DEFINE closed == {q \in Providers : Tries(q, ask[q], now + t) /\ ~Blocks(q, secret[q])
                                                                  /\ breaker[q] # NoBreaker}
  <2>2. breaker' = [q \in Providers |-> IF q \in closed THEN NoBreaker ELSE breaker[q]]
    BY <2>1 DEF Start
  <2>3. p \in closed => ~Blocks(p, secret[p])
    OBVIOUS
  <2> HIDE DEF closed
  <2>4. breaker'[p] = IF p \in closed THEN NoBreaker ELSE breaker[p]
    BY <2>2
  <2>5. QED
    BY <2>3, <2>4 DEF Changers
<1>2. CASE \E c \in Calls : Call(c)
  <2>1. PICK c \in Calls : Call(c)
    BY <1>2
  <2>2. CASE AllDone(c) \/ CutDone(c)
    <3>1. Conclude(c, EndedReads(c))
      BY <2>2 DEF AllDone, CutDone
    <3>2. QED
      BY <3>1, ConcludeChanges
  <2>3. CASE LeaveBehind(c)
    <3>1. phase[c] = "cut2" /\ Conclude(c, inTime[c])
      BY <2>3 DEF LeaveBehind
    <3>2. inTime[c] \in SUBSET EndedReads(c)
      BY <3>1 DEF IInv, TypeOK, InTimeEnded, EndedReads, Reads, Ended
    <3>3. QED
      BY <3>1, <3>2, ConcludeChanges
  <2>4. CASE Expire(c) \/ CancelLate(c)
    BY <2>4 DEF Expire, CancelLate, sourceVars, Changers
  <2>5. QED
    BY <2>1, <2>2, <2>3, <2>4 DEF Call
<1>3. CASE \E c \in Calls : CallerGone(c)
  BY <1>3 DEF CallerGone, sourceVars, Changers
<1>4. CASE \E c \in Calls, q \in Providers : Task(c, q) \/ Source(c, q)
  BY <1>4, TaskMoves DEF OnlyReads, sourceVars, Changers
<1>5. CASE \/ \E q \in Providers : Rotate(q) \/ ResetGauge(q)
           \/ ResetBump \/ ResetList \/ Tick \/ Finished \/ UNCHANGED vars
  BY <1>5 DEF Rotate, ResetGauge, ResetBump, ResetList, Tick, Finished, vars, sourceVars, Changers
<1>6. QED
  BY <1>1, <1>2, <1>3, <1>4, <1>5 DEF Next

\* A breaker that blocks gives way only to a refusal when it stands for an outage, or
\* to another secret when it stands for a refusal, however many calls fail together
\* and in whatever order they conclude (_open, _blocked).
THEOREM BurstOpensOnceHolds == Spec => BurstOpensOnce
<1> DEFINE Once(p) ==
      LET b == breaker[p]
      IN  /\ b # NoBreaker /\ now < b.until /\ breaker'[p] # b
          /\ b.status = "refused" => b.generation = generation
          =>
            IF b.status = "unavailable"
            THEN breaker'[p] # NoBreaker /\ breaker'[p].status = "refused"
            ELSE breaker'[p] = NoBreaker \/ breaker'[p].stamp # b.stamp
<1>1. ASSUME IInv, [Next]_vars PROVE \A p \in Providers : Once(p)
  <2> TAKE p \in Providers
  <2>1. SUFFICES ASSUME breaker[p] # NoBreaker, now < breaker[p].until,
                        breaker'[p] # breaker[p],
                        breaker[p].status = "refused" => breaker[p].generation = generation
                 PROVE  IF breaker[p].status = "unavailable"
                        THEN breaker'[p] # NoBreaker /\ breaker'[p].status = "refused"
                        ELSE breaker'[p] = NoBreaker \/ breaker'[p].stamp # breaker[p].stamp
    OBVIOUS
  <2>2. TypeOK /\ Changers(p)
    BY <1>1, StepChanges DEF IInv
  <2>3. breaker[p] \in Breaker /\ breaker[p].status \in {"unavailable", "refused"}
    BY <2>1, <2>2 DEF TypeOK, Breaker
  <2>4. CASE ~Blocks(p, secret[p]) /\ breaker'[p] = NoBreaker
    BY <2>1, <2>3, <2>4 DEF Blocks, Live
  <2>5. CASE \E c \in Calls, st \in {"unavailable", "refused"}, out \in {"outage", "late", "refused"} :
               /\ ~KeepsOpen(p, stamp[c][p], st)
               /\ breaker'[p] = Opening(stamp[c][p], st, out)
    <3>1. PICK c \in Calls, st \in {"unavailable", "refused"}, out \in {"outage", "late", "refused"} :
               /\ ~KeepsOpen(p, stamp[c][p], st)
               /\ breaker'[p] = Opening(stamp[c][p], st, out)
      BY <2>5
    <3>2. breaker'[p].status = st /\ breaker'[p].stamp = stamp[c][p]
      BY <3>1 DEF Opening
    <3>3. breaker'[p] # NoBreaker
      <4>1. /\ stamp[c][p] \in 0..MaxRotations /\ generation \in 0..MaxResets
            /\ now + RefusedRetry \in Nat /\ now + RetryAfter \in Nat
        BY <2>2, Limits DEF TypeOK
      <4>2. Opening(stamp[c][p], st, out) \in Breaker
        BY <4>1 DEF Opening, Breaker
      <4>3. QED
        BY <3>1, <4>2, BreakerAssumption
    <3>4. QED
      BY <2>1, <2>3, <3>1, <3>2, <3>3 DEF KeepsOpen, Blocks, Live
  <2>6. QED
    BY <2>1, <2>2, <2>4, <2>5 DEF Changers
<1>2. QED
  BY <1>1, IInvHolds, PTL DEF Spec, BurstOpensOnce

LEMMA StampsOnly ==
  ASSUME MaxRotations = 0, TypeOK, NEW c \in Calls, NEW p \in Providers
  PROVE  stamp[c][p] = secret[p]
BY DEF TypeOK

\* As long as no secret changes, a refusal that still holds is not replaced at all: an
\* outage seen by a call that ends later does not shorten it (_open).
THEOREM OutageNeverShortensHolds ==
  ASSUME MaxRotations = 0
  PROVE  Spec => OutageNeverShortensRefusal
<1> DEFINE Kept(p) ==
      Blocks(p, secret[p]) /\ breaker[p].status = "refused" /\ breaker'[p] # breaker[p] =>
        /\ breaker'[p] # NoBreaker
        /\ breaker'[p].status = "refused"
        /\ breaker'[p].until >= breaker[p].until
<1>1. ASSUME IInv, [Next]_vars PROVE \A p \in Providers : Kept(p)
  <2>1. \A p \in Providers : Changers(p) /\ \A c \in Calls : stamp[c][p] = secret[p]
    BY <1>1, StepChanges, StampsOnly DEF IInv
  <2>2. QED
    BY <2>1 DEF Changers, KeepsOpen
<1>2. QED
  BY <1>1, IInvHolds, PTL DEF Spec, OutageNeverShortensRefusal

-----------------------------------------------------------------------------
(* What is counted.  Two sets grow and shrink by one call at a time, so they *)
(* are finite whatever the set of calls is.                                  *)

RunningOf(p) == {c \in Calls : Running(c, p)}
BadOf(p)     == {c \in Calls : phase[c] \in Over /\ status[c][p] \in NotWell}

ReadsCounted ==
  \A p \in Providers :
    /\ IsFiniteSet(RunningOf(p))
    /\ active[p] = Cardinality(RunningOf(p))
    /\ active[p] <= MaxConcurrency

CallsCounted ==
  \A p \in Providers : IsFiniteSet(BadOf(p)) /\ errors[p] = Cardinality(BadOf(p))

\* A read holds keys only while it leads; and one of a single batch that was
\* cancelled is in its source or about to end.
Sane(r) ==
  /\ r.held => r.st = "leading"
  /\ r.cancels > 0 /\ MaxBatches <= 1 => r.st \in Still \cup {"leading", "stopping"}

\* What a call that has not started, or is over, leaves of its reads.
Left(c) ==
  /\ phase[c] = "idle" => \A p \in Providers : read[c][p].st = "none"
  /\ phase[c] \in Over => \A p \in Providers :
       /\ read[c][p].st \notin Still => read[c][p].cancels > 0
       /\ MaxBatches <= 1 => ~read[c][p].held

CInv ==
  /\ ReadsCounted
  /\ CallsCounted
  /\ \A c \in Calls : Left(c)
  /\ \A c \in Calls, p \in Providers : Sane(read[c][p])

\* What becomes of a read whose task does not run: at most, it learns how the flight
\* it follows ended.
Onward(r, next) ==
  \/ next = r
  \/ /\ r.st = "following" /\ next.st \in {"told", "ready", "stopping"}
     /\ r.cancels > 0 => next.st # "ready"
     /\ next.cancels = r.cancels
     /\ next.held = r.held

LEMMA OnwardSane ==
  ASSUME NEW r \in SoundRead, Sane(r), NEW next \in SoundRead, Onward(r, next)
  PROVE  /\ Sane(next)
         /\ next.st \in Still <=> r.st \in Still
         /\ next.st = "none" <=> r.st = "none"
         /\ next.cancels = r.cancels /\ next.held = r.held
BY DEF Onward, Sane, Still, SoundRead, ReadRecord

LEMMA ToldOnward ==
  ASSUME NEW rs \in ReadTable, NEW leader, NEW ps, NEW how \in Ends
  PROVE  \A c \in Calls, p \in Providers : Onward(rs[c][p], Told(rs, leader, ps, how)[c][p])
<1> DEFINE next(r) == IF how # "cancelled"
                      THEN [r EXCEPT !.st = "told", !.of = NoCall, !.out = how]
                      ELSE [r EXCEPT !.st = IF r.cancels = 0 THEN "ready" ELSE "stopping",
                                     !.of = NoCall]
<1>1. ASSUME NEW r \in SoundRead, r.st = "following"
      PROVE  Onward(r, next(r))
  BY <1>1 DEF SoundRead, ReadRecord, Onward
<1>2. \A c \in Calls, p \in Providers : rs[c][p] \in SoundRead
  BY DEF ReadTable
<1> HIDE DEF next
<1>3. Told(rs, leader, ps, how) =
        [c \in Calls |-> [p \in Providers |->
           IF p \in ps /\ rs[c][p].st = "following" /\ rs[c][p].of = leader
           THEN next(rs[c][p]) ELSE rs[c][p]]]
  BY DEF Told, next
<1>4. QED
  BY <1>1, <1>2, <1>3 DEF Onward

LEMMA CancelOnceSane ==
  ASSUME NEW r \in SoundRead, Sane(r)
  PROVE  /\ Sane(CancelOnce(r))
         /\ CancelOnce(r).st \in Still <=> r.st \in Still
         /\ CancelOnce(r).st = "none" <=> r.st = "none"
         /\ CancelOnce(r).st \notin Still => CancelOnce(r).cancels > 0
<1> DEFINE to == IF r.st = "leading" THEN "leading" ELSE "stopping"
           n  == r.cancels + 1
           stopped == [r EXCEPT !.cancels = n, !.st = to, !.of = NoCall, !.out = "none"]
<1>1. n \in Nat /\ n > 0 /\ r.cancels \in Nat
  BY DEF SoundRead, ReadRecord
<1>2. CASE r.st \in Still \/ r.cancels > 0
  BY <1>1, <1>2 DEF CancelOnce, Still
<1>3. CASE r.st \notin Still /\ r.cancels = 0
  <2>1. ~(r.st \in {"none", "ended"} \/ r.cancels > 0)
    BY <1>3 DEF Still
  <2>2. CancelOnce(r) = stopped
    BY <2>1 DEF CancelOnce, SoundRead, ReadRecord
  <2> HIDE DEF n
  <2>3. stopped.cancels = n /\ stopped.st = to /\ stopped.held = r.held
    BY DEF SoundRead, ReadRecord
  <2> HIDE DEF stopped
  <2>4. QED
    BY <1>1, <1>3, <2>2, <2>3 DEF Sane, Still
<1>4. QED
  BY <1>1, <1>2, <1>3

LEMMA SameRunning ==
  ASSUME IInv, ReadsCounted, active' = active,
         \A c \in Calls, p \in Providers : read'[c][p].st \in Still <=> read[c][p].st \in Still
  PROVE  ReadsCounted'
<1>1. ASSUME NEW p \in Providers PROVE RunningOf(p)' = RunningOf(p)
  BY DEF RunningOf, Running, Still
<1>2. QED
  BY <1>1 DEF ReadsCounted

\* One read runs on or ends, and the count follows.
OneMayEnd(c, p) ==
  /\ read[c][p].st \notin Still /\ read'[c][p].st # "none"
  /\ active' = [active EXCEPT ![p] = @ - (IF read'[c][p].st = "ended" THEN 1 ELSE 0)]
  /\ \A d \in Calls, q \in Providers :
       <<d, q>> # <<c, p>> => (read'[d][q].st \in Still <=> read[d][q].st \in Still)

LEMMA OneRunsLess ==
  ASSUME IInv, ReadsCounted, NEW c \in Calls, NEW p \in Providers, OneMayEnd(c, p)
  PROVE  ReadsCounted'
<1> USE DEF OneMayEnd
<1>1. active \in [Providers -> Int] /\ MaxConcurrency \in Nat
  BY ChainAssumption DEF IInv, TypeOK
<1>2. ASSUME NEW q \in Providers, q # p
      PROVE  RunningOf(q)' = RunningOf(q) /\ active'[q] = active[q]
  BY <1>1, <1>2 DEF RunningOf, Running, Still
<1>3. /\ IsFiniteSet(RunningOf(p)) /\ c \in RunningOf(p)
      /\ active[p] = Cardinality(RunningOf(p)) /\ active[p] <= MaxConcurrency
  BY DEF ReadsCounted, RunningOf, Running, Still
<1>4. CASE read'[c][p].st = "ended"
  <2>1. RunningOf(p)' = RunningOf(p) \ {c}
    BY <1>4 DEF RunningOf, Running, Still
  <2>2. /\ IsFiniteSet(RunningOf(p) \ {c})
        /\ Cardinality(RunningOf(p) \ {c}) = Cardinality(RunningOf(p)) - 1
    BY <1>3, FS_RemoveElement
  <2>3. active'[p] = active[p] - 1
    BY <1>1, <1>4
  <2>4. active'[p] <= MaxConcurrency
    BY <1>1, <1>3, <2>3
  <2>5. QED
    BY <1>2, <1>3, <2>1, <2>2, <2>3, <2>4 DEF ReadsCounted
<1>5. CASE read'[c][p].st # "ended"
  <2>1. RunningOf(p)' = RunningOf(p)
    BY <1>5 DEF RunningOf, Running, Still
  <2>2. active'[p] = active[p]
    BY <1>1, <1>5
  <2>3. QED
    BY <1>2, <1>3, <2>1, <2>2 DEF ReadsCounted
<1>6. QED
  BY <1>4, <1>5

LEMMA SameBad ==
  ASSUME CallsCounted, UNCHANGED <<phase, status, errors>>
  PROVE  CallsCounted'
<1>1. ASSUME NEW p \in Providers PROVE BadOf(p)' = BadOf(p)
  BY DEF BadOf
<1>2. QED
  BY <1>1 DEF CallsCounted

\* A call moves on without being over: nothing is counted.
LEMMA WaitingBad ==
  ASSUME CallsCounted, NEW c \in Calls, phase[c] \notin Over, phase'[c] \notin Over,
         \A d \in Calls \ {c} : phase'[d] = phase[d] /\ status'[d] = status[d],
         errors' = errors
  PROVE  CallsCounted'
<1>1. ASSUME NEW p \in Providers PROVE BadOf(p)' = BadOf(p)
  BY DEF BadOf
<1>2. QED
  BY <1>1 DEF CallsCounted

\* A call is over: it is counted, once, in its status of every source.
LEMMA OneMoreBad ==
  ASSUME CallsCounted, NEW c \in Calls, phase[c] \notin Over, phase'[c] \in Over,
         \A d \in Calls \ {c} : phase'[d] = phase[d] /\ status'[d] = status[d],
         Count(c)
  PROVE  CallsCounted'
<1> SUFFICES ASSUME NEW p \in Providers
             PROVE  IsFiniteSet(BadOf(p)') /\ errors'[p] = Cardinality(BadOf(p)')
  BY DEF CallsCounted
<1>1. IsFiniteSet(BadOf(p)) /\ errors[p] = Cardinality(BadOf(p)) /\ c \notin BadOf(p)
  BY DEF CallsCounted, BadOf
<1>2. errors'[p] = errors[p] + (IF status'[c][p] \in NotWell THEN 1 ELSE 0)
  BY DEF Count
<1>3. Cardinality(BadOf(p)) \in Nat
  BY <1>1, FS_CardinalityType
<1>4. CASE status'[c][p] \in NotWell
  <2>1. BadOf(p)' = BadOf(p) \cup {c}
    BY <1>4 DEF BadOf
  <2>2. /\ IsFiniteSet(BadOf(p) \cup {c})
        /\ Cardinality(BadOf(p) \cup {c}) = Cardinality(BadOf(p)) + 1
    BY <1>1, FS_AddElement
  <2>3. QED
    BY <1>1, <1>2, <1>4, <2>1, <2>2
<1>5. CASE status'[c][p] \notin NotWell
  <2>1. BadOf(p)' = BadOf(p)
    BY <1>5 DEF BadOf
  <2>2. QED
    BY <1>1, <1>2, <1>3, <1>5, <2>1
<1>6. QED
  BY <1>4, <1>5

LEMMA AbandonSane ==
  ASSUME IInv, CInv, NEW c \in Calls, read' = Abandon(CancelAll(c), c)
  PROVE  /\ \A d \in Calls \ {c}, p \in Providers : Onward(read[d][p], read'[d][p])
         /\ \A p \in Providers :
              /\ Sane(read'[c][p])
              /\ read'[c][p].st \in Still <=> read[c][p].st \in Still
              /\ read'[c][p].st \notin Still => read'[c][p].cancels > 0
              /\ ~read'[c][p].held
<1> DEFINE all   == CancelAll(c)
           freed == [all EXCEPT ![c] = [p \in Providers |-> [@[p] EXCEPT !.held = FALSE]]]
           lost  == {p \in Providers : all[c][p].held}
<1>1. /\ all \in ReadTable
      /\ \A d \in Calls \ {c}, p \in Providers : all[d][p] = read[d][p]
      /\ \A p \in Providers : all[c][p] = CancelOnce(read[c][p])
  BY CancelAllReads DEF IInv
<1>2. \A d \in Calls, p \in Providers : read[d][p] \in SoundRead /\ Sane(read[d][p])
  BY DEF IInv, ReadTable, CInv
<1>3. \A d \in Calls, p \in Providers : all[d][p] \in SoundRead
  BY <1>1 DEF ReadTable
<1>4. \A p \in Providers :
        /\ Sane(all[c][p])
        /\ all[c][p].st \in Still <=> read[c][p].st \in Still
        /\ all[c][p].st \notin Still => all[c][p].cancels > 0
  BY <1>1, <1>2, CancelOnceSane
<1>5. read' = Told(freed, c, lost, "cancelled")
  BY DEF Abandon
<1> HIDE DEF all
<1>6. freed = [d \in Calls |-> IF d = c THEN [p \in Providers |-> [all[c][p] EXCEPT !.held = FALSE]]
                               ELSE all[d]]
  BY <1>1 DEF ReadTable
<1>7. ASSUME NEW r \in SoundRead, Sane(r), NEW f, f = [r EXCEPT !.held = FALSE]
      PROVE  /\ f \in SoundRead /\ Sane(f) /\ ~f.held
             /\ f.st = r.st /\ f.cancels = r.cancels
  BY <1>7 DEF SoundRead, ReadRecord, Sane
<1>8. /\ \A d \in Calls \ {c} : freed[d] = all[d]
      /\ \A p \in Providers : freed[c][p] = [all[c][p] EXCEPT !.held = FALSE]
  BY <1>6
<1>9. \A p \in Providers : /\ freed[c][p] \in SoundRead /\ Sane(freed[c][p]) /\ ~freed[c][p].held
                           /\ freed[c][p].st = all[c][p].st
                           /\ freed[c][p].cancels = all[c][p].cancels
  BY <1>3, <1>4, <1>7, <1>8
<1>10. freed \in ReadTable
  <2>1. \A p \in Providers : [all[c][p] EXCEPT !.held = FALSE] \in SoundRead
    BY <1>8, <1>9
  <2>2. QED
    BY <1>1, <1>6, <2>1 DEF ReadTable
<1> HIDE DEF freed, lost
<1>11. \A d \in Calls, p \in Providers : Onward(freed[d][p], read'[d][p])
  BY <1>5, <1>10, ToldOnward DEF Ends
<1>12. read' \in ReadTable
  BY <1>5, <1>10, ToldReads DEF Ends
<1>13. \A d \in Calls, p \in Providers : read'[d][p] \in SoundRead
  BY <1>12 DEF ReadTable
<1>14. ASSUME NEW p \in Providers
       PROVE  /\ Sane(read'[c][p])
              /\ read'[c][p].st \in Still <=> freed[c][p].st \in Still
              /\ read'[c][p].cancels = freed[c][p].cancels
              /\ read'[c][p].held = freed[c][p].held
  BY <1>9, <1>11, <1>13, OnwardSane
<1>15. QED
  BY <1>1, <1>4, <1>8, <1>9, <1>11, <1>14

LEMMA InitCounts == Init => CInv
<1> SUFFICES ASSUME Init PROVE CInv
  OBVIOUS
<1>1. \A c \in Calls, p \in Providers : read[c][p] = NoRead
  BY DEF Init
<1>2. NoRead.st = "none" /\ NoRead.held = FALSE /\ NoRead.cancels = 0
  BY DEF NoRead
<1>3. \A p \in Providers : RunningOf(p) = {} /\ BadOf(p) = {}
  BY <1>1, <1>2 DEF Init, RunningOf, Running, BadOf, Over
<1>4. ReadsCounted /\ CallsCounted
  <2>1. IsFiniteSet({}) /\ Cardinality({}) = 0
    BY FS_EmptySet
  <2>2. 0 <= MaxConcurrency
    BY ChainAssumption
  <2>3. \A p \in Providers : active[p] = 0 /\ errors[p] = 0
    BY DEF Init
  <2>4. QED
    BY <1>3, <2>1, <2>2, <2>3, Zenon DEF ReadsCounted, CallsCounted
<1>5. \A c \in Calls : Left(c)
  BY <1>1, <1>2 DEF Left, Still
<1>6. \A c \in Calls, p \in Providers : Sane(read[c][p])
  BY <1>1, <1>2 DEF Sane
<1>7. QED
  BY <1>4, <1>5, <1>6 DEF CInv

\* The task of a read runs: the count of the running reads follows its end.
OwnStep(c, p) ==
  /\ read' \in ReadTable
  /\ \A d \in Calls, q \in Providers :
       <<d, q>> # <<c, p>> => Onward(read[d][q], read'[d][q])
  /\ read[c][p].st \notin Still /\ read'[c][p].st # "none"
  /\ Sane(read'[c][p])
  /\ read'[c][p].cancels = read[c][p].cancels
  /\ phase[c] \in Over /\ MaxBatches <= 1 => ~read'[c][p].held
  /\ active' = [active EXCEPT ![p] = @ - (IF read'[c][p].st = "ended" THEN 1 ELSE 0)]
  /\ UNCHANGED <<phase, status, errors>>

LEMMA OwnStepCounts ==
  ASSUME IInv, CInv, NEW c \in Calls, NEW p \in Providers, OwnStep(c, p)
  PROVE  CInv'
<1> USE DEF OwnStep
<1>1. \A d \in Calls, q \in Providers :
        read[d][q] \in SoundRead /\ read'[d][q] \in SoundRead /\ Sane(read[d][q])
  BY DEF IInv, ReadTable, CInv
<1>2. ASSUME NEW d \in Calls, NEW q \in Providers, <<d, q>> # <<c, p>>
      PROVE  /\ Sane(read'[d][q])
             /\ read'[d][q].st \in Still <=> read[d][q].st \in Still
             /\ read'[d][q].st = "none" <=> read[d][q].st = "none"
             /\ read'[d][q].cancels = read[d][q].cancels /\ read'[d][q].held = read[d][q].held
  BY <1>1, <1>2, OnwardSane
<1>3. ReadsCounted'
  <2>1. \A d \in Calls, q \in Providers :
          <<d, q>> # <<c, p>> => (read'[d][q].st \in Still <=> read[d][q].st \in Still)
    BY <1>2
  <2>2. ReadsCounted
    BY DEF CInv
  <2>3. OneMayEnd(c, p)
    BY <2>1 DEF OneMayEnd
  <2>4. QED
    BY <2>2, <2>3, OneRunsLess
<1>4. CallsCounted'
  BY SameBad DEF CInv
<1>5. \A d \in Calls, q \in Providers : Sane(read'[d][q])
  BY <1>2
<1>6. ASSUME NEW d \in Calls PROVE Left(d)'
  <2>1. Left(d) /\ phase[d] = phase'[d] /\ Left(c)
    BY DEF CInv
  <2>2. phase[c] # "idle"
    BY <2>1 DEF Left, CInv, Still
  <2>3. QED
    BY <1>2, <2>1, <2>2 DEF Left
<1>7. QED
  BY <1>3, <1>4, <1>5, <1>6 DEF CInv

LEMMA SettleCounts ==
  ASSUME IInv, CInv, NEW c \in Calls, NEW p \in Providers, NEW how \in Ends, NEW r \in SoundRead,
         Moves(read[c][p], r), r.st \in {"ready", "ended"}, ~r.held,
         MaxBatches <= 1 => r.st = "ended",
         Settle(c, p, how, r)
  PROVE  CInv'
<1> DEFINE told == IF read[c][p].held THEN Told(read, c, {p}, how) ELSE read
<1>1. read \in ReadTable /\ active \in [Providers -> Int]
  BY DEF IInv, TypeOK
<1>2. told \in ReadTable /\ \A d \in Calls, q \in Providers : Onward(read[d][q], told[d][q])
  <2>1. CASE read[c][p].held
    BY <1>1, <2>1, ToldReads, ToldOnward
  <2>2. CASE ~read[c][p].held
    BY <1>1, <2>2 DEF Onward
  <2>3. QED
    BY <2>1, <2>2
<1>3. /\ read' = [told EXCEPT ![c][p] = r]
      /\ active' = [active EXCEPT ![p] = @ - (IF r.st = "ended" THEN 1 ELSE 0)]
      /\ read[c][p].st = "leading" /\ UNCHANGED <<phase, status, errors>>
  BY DEF Settle, OnlyReads, callVars
<1> HIDE DEF told
<1>4. /\ read'[c][p] = r /\ read' \in ReadTable
      /\ \A d \in Calls, q \in Providers : <<d, q>> # <<c, p>> => read'[d][q] = told[d][q]
  BY <1>2, <1>3 DEF ReadTable
<1>5. r.cancels = read[c][p].cancels
  BY DEF Moves
<1>6. Sane(r)
  BY DEF Sane, Still
<1>7. \A d \in Calls, q \in Providers : <<d, q>> # <<c, p>> => Onward(read[d][q], read'[d][q])
  <2> SUFFICES ASSUME NEW d \in Calls, NEW q \in Providers, <<d, q>> # <<c, p>>
               PROVE  Onward(read[d][q], read'[d][q])
    OBVIOUS
  <2>1. read'[d][q] = told[d][q]
    BY <1>4
  <2>2. QED
    BY <1>2, <2>1
<1>8. /\ read[c][p].st \notin Still /\ read'[c][p].st # "none"
      /\ Sane(read'[c][p]) /\ read'[c][p].cancels = read[c][p].cancels /\ ~read'[c][p].held
      /\ active' = [active EXCEPT ![p] = @ - (IF read'[c][p].st = "ended" THEN 1 ELSE 0)]
  BY <1>3, <1>4, <1>5, <1>6, Zenon DEF Still
<1>9. OwnStep(c, p)
  BY <1>3, <1>4, <1>7, <1>8 DEF OwnStep
<1>10. QED
  BY <1>9, OwnStepCounts

LEMMA EndShape ==
  ASSUME NEW r \in SoundRead, NEW how
  PROVE  End(r, how).st = "ended" /\ ~End(r, how).held /\ End(r, how).cancels = r.cancels
BY DEF End, SoundRead, ReadRecord

LEMMA AnsweredShape ==
  ASSUME NEW r \in SoundRead
  PROVE  /\ Answered(r).st \in {"ready", "ended"} /\ ~Answered(r).held
         /\ Answered(r).cancels = r.cancels
         /\ MaxBatches <= 1 => Answered(r).st = "ended"
<1> DEFINE next == [r EXCEPT !.some = TRUE, !.held = FALSE, !.of = NoCall, !.out = "none"]
<1>1. /\ next \in ReadRecord /\ next.cancels = r.cancels /\ ~next.held
      /\ r.left \in 0..MaxBatches /\ MaxBatches \in Nat
  BY Limits DEF SoundRead, ReadRecord
<1>2. Answered(r) = IF r.left <= 1 THEN End(next, "ok")
                    ELSE [next EXCEPT !.st = "ready", !.left = @ - 1]
  BY DEF Answered
<1> HIDE DEF next
<1>3. /\ End(next, "ok").st = "ended" /\ ~End(next, "ok").held
      /\ End(next, "ok").cancels = next.cancels
  BY <1>1 DEF End, ReadRecord
<1> DEFINE on == [next EXCEPT !.st = "ready", !.left = @ - 1]
<1>5. on.st = "ready" /\ ~on.held /\ on.cancels = next.cancels
  BY <1>1 DEF ReadRecord
<1>6. MaxBatches <= 1 => r.left <= 1
  BY <1>1
<1> HIDE DEF on
<1>7. QED
  BY <1>1, <1>2, <1>3, <1>5, <1>6 DEF on

\* A read that only changes its own record.
LEMMA AloneCounts ==
  ASSUME IInv, CInv, NEW c \in Calls, NEW p \in Providers, NEW r \in SoundRead,
         read[c][p].st \notin Still, r.st # "none", Sane(r),
         r.cancels = read[c][p].cancels,
         phase[c] \in Over /\ MaxBatches <= 1 => ~r.held,
         read' = [read EXCEPT ![c][p] = r],
         active' = [active EXCEPT ![p] = @ - (IF r.st = "ended" THEN 1 ELSE 0)],
         OnlyReads
  PROVE  CInv'
<1>1. read \in ReadTable
  BY DEF IInv
<1>2. /\ read' \in ReadTable /\ read'[c][p] = r
      /\ \A d \in Calls, q \in Providers : <<d, q>> # <<c, p>> => read'[d][q] = read[d][q]
  BY <1>1 DEF ReadTable
<1>3. UNCHANGED <<phase, status, errors>>
  BY DEF OnlyReads, callVars
<1>4. OwnStep(c, p)
  BY <1>2, <1>3 DEF OwnStep, Onward
<1>5. QED
  BY <1>4, OwnStepCounts

LEMMA TaskCounts ==
  ASSUME IInv, CInv, NEW c \in Calls, NEW p \in Providers, Task(c, p) \/ Source(c, p)
  PROVE  CInv'
<1> USE DEF Ends
<1>1. /\ read \in ReadTable /\ read[c][p] \in SoundRead /\ Sane(read[c][p]) /\ Left(c)
      /\ active \in [Providers -> Int] /\ secret \in [Providers -> 0..MaxRotations]
  BY DEF IInv, TypeOK, ReadTable, CInv
<1>2. /\ read[c][p].cancels \in Nat
      /\ phase[c] \in Over /\ MaxBatches <= 1 /\ read[c][p].st \notin Still =>
           read[c][p].st \in {"leading", "stopping"}
  BY <1>1 DEF SoundRead, ReadRecord, Sane, Left
<1>3. active' = active => active' = [active EXCEPT ![p] = @ - 0]
  BY <1>1
<1>4. CASE Lead(c, p)
  <2> DEFINE r == [read[c][p] EXCEPT !.st = "leading", !.held = TRUE, !.sent = secret[p]]
  <2>1. /\ read[c][p].st = "ready" /\ read' = [read EXCEPT ![c][p] = r]
        /\ active' = active /\ OnlyReads
    BY <1>1, <1>4 DEF Lead, ReadTable
  <2>2. r \in SoundRead /\ r.st = "leading" /\ r.cancels = read[c][p].cancels
    BY <1>1, <2>1 DEF SoundRead, ReadRecord
  <2>3. Sane(r)
    BY <2>2 DEF Sane, Still
  <2>4. ~(phase[c] \in Over /\ MaxBatches <= 1)
    BY <1>2, <2>1 DEF Still
  <2> HIDE DEF r
  <2>5. active' = [active EXCEPT ![p] = @ - (IF r.st = "ended" THEN 1 ELSE 0)]
    BY <1>3, <2>1, <2>2
  <2>6. QED
    BY <2>1, <2>2, <2>3, <2>4, <2>5, AloneCounts DEF Still
<1>5. CASE \E d \in Calls : Follow(c, p, d)
  <2>1. PICK d \in Calls : Follow(c, p, d)
    BY <1>5
  <2> DEFINE r == [read[c][p] EXCEPT !.st = "following", !.of = d]
  <2>2. /\ read[c][p].st = "ready" /\ read' = [read EXCEPT ![c][p] = r]
        /\ active' = active /\ OnlyReads
    BY <1>1, <2>1 DEF Follow, ReadTable
  <2>3. /\ r \in SoundRead /\ r.st = "following" /\ r.cancels = read[c][p].cancels
        /\ r.held = read[c][p].held
    BY <1>1, <2>2 DEF SoundRead, ReadRecord
  <2>4. ~r.held /\ Sane(r)
    BY <1>1, <2>2, <2>3 DEF Sane, Still
  <2> HIDE DEF r
  <2>5. active' = [active EXCEPT ![p] = @ - (IF r.st = "ended" THEN 1 ELSE 0)]
    BY <1>3, <2>2, <2>3
  <2>6. QED
    BY <2>2, <2>3, <2>4, <2>5, AloneCounts DEF Still
<1>6. CASE Wake(c, p)
  <2> DEFINE r == IF read[c][p].out = "ok" THEN Answered(read[c][p])
                  ELSE End(read[c][p], read[c][p].out)
  <2>1. /\ read[c][p].st = "told" /\ read' = [read EXCEPT ![c][p] = r] /\ OnlyReads
        /\ active' = [active EXCEPT ![p] = @ - (IF r.st = "ended" THEN 1 ELSE 0)]
    BY <1>6 DEF Wake
  <2>2. read[c][p].out \in Ends /\ read[c][p].st \notin Still
    BY <1>1, <2>1 DEF SoundRead, ReadRecord, Still
  <2>3. r \in SoundRead
    BY <1>1, <2>2, AnsweredRead, EndRead
  <2>4. /\ r.st \in {"ready", "ended"} /\ ~r.held /\ r.cancels = read[c][p].cancels
        /\ MaxBatches <= 1 => r.st = "ended"
    BY <1>1, AnsweredShape, EndShape
  <2> HIDE DEF r
  <2>5. Sane(r)
    BY <2>4 DEF Sane, Still
  <2>6. QED
    BY <2>1, <2>2, <2>3, <2>4, <2>5, AloneCounts
<1>7. CASE Stop(c, p)
  <2> DEFINE r == End(read[c][p], "cancelled")
  <2>1. /\ read[c][p].st = "stopping" /\ read' = [read EXCEPT ![c][p] = r] /\ OnlyReads
        /\ active' = [active EXCEPT ![p] = @ - 1]
    BY <1>7 DEF Stop
  <2>2. r \in SoundRead /\ read[c][p].st \notin Still
    BY <1>1, <2>1, EndRead DEF Still
  <2>3. r.st = "ended" /\ ~r.held /\ r.cancels = read[c][p].cancels
    BY <1>1, EndShape
  <2> HIDE DEF r
  <2>4. Sane(r)
    BY <2>3 DEF Sane, Still
  <2>5. active' = [active EXCEPT ![p] = @ - (IF r.st = "ended" THEN 1 ELSE 0)]
    BY <2>1, <2>3
  <2>6. QED
    BY <2>1, <2>2, <2>3, <2>4, <2>5, AloneCounts
<1>8. CASE SourceAnswers(c, p)
  <2>1. read[c][p].st \notin Still /\ Settle(c, p, "ok", Answered(read[c][p]))
    BY <1>8 DEF SourceAnswers, Settle, Still
  <2>2. Answered(read[c][p]) \in SoundRead /\ Moves(read[c][p], Answered(read[c][p]))
    BY <1>1, <2>1, AnsweredRead
  <2>3. QED
    BY <1>1, <2>1, <2>2, AnsweredShape, SettleCounts
<1>9. CASE (\E kind \in Kinds : SourceFails(c, p, kind)) \/ SourceCancelled(c, p)
  <2>1. PICK how \in Ends : Settle(c, p, how, End(read[c][p], how))
    BY <1>9 DEF SourceFails, SourceCancelled
  <2>2. read[c][p].st \notin Still
    BY <2>1 DEF Settle, Still
  <2>3. End(read[c][p], how) \in SoundRead /\ Moves(read[c][p], End(read[c][p], how))
    BY <1>1, <2>2, EndRead
  <2>4. QED
    BY <1>1, <2>1, <2>3, EndShape, SettleCounts
<1>10. QED
  BY <1>4, <1>5, <1>6, <1>7, <1>8, <1>9 DEF Task, Source

LEMMA StartCounts ==
  ASSUME IInv, CInv, NEW c \in Calls, NEW ask \in [Providers -> Asks], NEW t \in Timeouts,
         NEW n \in 1..MaxBatches, Start(c, ask, now + t, n)
  PROVE  CInv'
<1> DEFINE verdict == [p \in Providers |-> Verdict(p, ask[p], now + t)]
           begun   == {p \in Providers : verdict[p] = "read"}
           fresh(p) == IF p \in begun
                       THEN [NoRead EXCEPT !.st = "ready", !.left = n,
                                           !.some = (ask[p] = "partly")]
                       ELSE NoRead
<1>1. /\ read \in ReadTable /\ active \in [Providers -> Int] /\ MaxConcurrency \in Nat
      /\ phase \in [Calls -> {"idle"} \cup Waiting \cup Over]
      /\ status \in [Calls -> [Providers -> Statuses \cup {"none"}]]
  BY ChainAssumption DEF IInv, TypeOK
<1>2. /\ phase[c] = "idle"
      /\ phase' = [phase EXCEPT ![c] = IF begun = {} THEN "over" ELSE "reading"]
      /\ status' = [status EXCEPT ![c] = [p \in Providers |->
                      IF p \in begun THEN "none" ELSE verdict[p]]]
      /\ read' = [read EXCEPT ![c] = [p \in Providers |-> fresh(p)]]
      /\ active' = [p \in Providers |-> active[p] + (IF p \in begun THEN 1 ELSE 0)]
      /\ IF begun = {} THEN Count(c) ELSE errors' = errors
  BY DEF Start
<1>3. \A p \in begun : p \in Providers /\ active[p] < MaxConcurrency
  <2> SUFFICES ASSUME NEW p \in begun PROVE active[p] < MaxConcurrency
    OBVIOUS
  <2>1. p \in Providers /\ Verdict(p, ask[p], now + t) = "read"
    OBVIOUS
  <2>2. Blocks(p, secret[p]) => breaker[p].status \in {"unavailable", "refused"}
    BY <2>1 DEF IInv, TypeOK, Blocks, Breaker
  <2>3. ~(active[p] >= MaxConcurrency)
    BY <2>1, <2>2 DEF Verdict
  <2>4. QED
    BY <1>1, <2>1, <2>3
<1>4. \A p \in Providers :
        /\ fresh(p).st = IF p \in begun THEN "ready" ELSE "none"
        /\ ~fresh(p).held /\ fresh(p).cancels = 0
  BY DEF NoRead
<1> HIDE DEF verdict, begun, fresh
<1>5. /\ \A p \in Providers : read'[c][p] = fresh(p)
      /\ \A d \in Calls \ {c} : read'[d] = read[d] /\ phase'[d] = phase[d] /\ status'[d] = status[d]
      /\ phase'[c] = IF begun = {} THEN "over" ELSE "reading"
  BY <1>1, <1>2 DEF ReadTable
<1>6. \A p \in Providers : read[c][p].st = "none"
  BY <1>2 DEF CInv, Left
<1>7. ReadsCounted'
  <2> SUFFICES ASSUME NEW p \in Providers
               PROVE  /\ IsFiniteSet(RunningOf(p)')
                      /\ active'[p] = Cardinality(RunningOf(p)')
                      /\ active'[p] <= MaxConcurrency
    BY DEF ReadsCounted
  <2>1. /\ IsFiniteSet(RunningOf(p)) /\ c \notin RunningOf(p)
        /\ active[p] = Cardinality(RunningOf(p)) /\ active[p] <= MaxConcurrency
    BY <1>6 DEF CInv, ReadsCounted, RunningOf, Running
  <2>2. CASE p \in begun
    <3>1. RunningOf(p)' = RunningOf(p) \cup {c}
      BY <1>4, <1>5, <2>2 DEF RunningOf, Running
    <3>2. /\ IsFiniteSet(RunningOf(p) \cup {c})
          /\ Cardinality(RunningOf(p) \cup {c}) = Cardinality(RunningOf(p)) + 1
      BY <2>1, FS_AddElement
    <3>3. active'[p] = active[p] + 1 /\ active'[p] <= MaxConcurrency
      BY <1>1, <1>2, <1>3, <2>2
    <3>4. QED
      BY <2>1, <3>1, <3>2, <3>3
  <2>3. CASE p \notin begun
    <3>1. RunningOf(p)' = RunningOf(p)
      BY <1>4, <1>5, <1>6, <2>3 DEF RunningOf, Running
    <3>2. active'[p] = active[p]
      BY <1>1, <1>2, <2>3
    <3>3. QED
      BY <2>1, <3>1, <3>2
  <2>4. QED
    BY <2>2, <2>3
<1>8. CallsCounted'
  <2>1. CallsCounted /\ phase[c] \notin Over
    BY <1>2 DEF CInv, Over
  <2>2. CASE begun = {}
    <3>1. phase'[c] \in Over /\ Count(c)
      BY <1>2, <1>5, <2>2 DEF Over
    <3>2. QED
      BY <1>5, <2>1, <3>1, OneMoreBad
  <2>3. CASE begun # {}
    <3>1. phase'[c] \notin Over /\ errors' = errors
      BY <1>2, <1>5, <2>3 DEF Over
    <3>2. QED
      BY <1>5, <2>1, <3>1, WaitingBad
  <2>4. QED
    BY <2>2, <2>3
<1>9. ASSUME NEW d \in Calls PROVE Left(d)' /\ \A p \in Providers : Sane(read'[d][p])
  <2>1. Left(d) /\ \A p \in Providers : Sane(read[d][p])
    BY DEF CInv
  <2>2. CASE d = c
    <3>1. \A p \in Providers : Sane(read'[c][p])
      BY <1>4, <1>5 DEF Sane
    <3>2. Left(c)'
      BY <1>3, <1>4, <1>5 DEF Left, Still, Over
    <3>3. QED
      BY <2>2, <3>1, <3>2
  <2>3. CASE d # c
    BY <1>5, <2>1, <2>3 DEF Left
  <2>4. QED
    BY <2>2, <2>3
<1>10. QED
  BY <1>7, <1>8, <1>9 DEF CInv

\* A call that waits is over: concluded, or given up by its caller.
LEMMA OverCounts ==
  ASSUME IInv, CInv, NEW c \in Calls, phase[c] \in Waiting, NEW to \in Over,
         phase' = [phase EXCEPT ![c] = to],
         \A d \in Calls \ {c} : status'[d] = status[d],
         Count(c), active' = active, read' = Abandon(CancelAll(c), c)
  PROVE  CInv'
<1>1. read \in ReadTable /\ phase \in [Calls -> {"idle"} \cup Waiting \cup Over]
  BY DEF IInv, TypeOK
<1>2. Parts(c)
  BY <1>1, LeftReads
<1>3. \A d \in Calls, p \in Providers :
        read[d][p] \in SoundRead /\ read'[d][p] \in SoundRead /\ Sane(read[d][p])
  BY <1>1, <1>2 DEF Parts, ReadTable, CInv
<1>4. /\ \A d \in Calls \ {c}, p \in Providers : Onward(read[d][p], read'[d][p])
      /\ \A p \in Providers :
           /\ Sane(read'[c][p])
           /\ read'[c][p].st \in Still <=> read[c][p].st \in Still
           /\ read'[c][p].st \notin Still => read'[c][p].cancels > 0
           /\ ~read'[c][p].held
  BY AbandonSane
<1>5. ASSUME NEW d \in Calls \ {c}, NEW p \in Providers
      PROVE  /\ Sane(read'[d][p])
             /\ read'[d][p].st \in Still <=> read[d][p].st \in Still
             /\ read'[d][p].st = "none" <=> read[d][p].st = "none"
             /\ read'[d][p].cancels = read[d][p].cancels /\ read'[d][p].held = read[d][p].held
  BY <1>3, <1>4, OnwardSane
<1>6. ReadsCounted'
  <2>1. \A d \in Calls, p \in Providers : read'[d][p].st \in Still <=> read[d][p].st \in Still
    BY <1>4, <1>5
  <2>2. QED
    BY <2>1, SameRunning DEF CInv
<1>7. phase[c] \notin Over /\ phase'[c] = to /\ \A d \in Calls \ {c} : phase'[d] = phase[d]
  BY <1>1 DEF Waiting, Over
<1>8. CallsCounted'
  BY <1>7, OneMoreBad DEF CInv
<1>9. ASSUME NEW d \in Calls PROVE Left(d)'
  <2>1. CASE d = c
    BY <1>4, <1>7, <2>1 DEF Left, Over
  <2>2. CASE d # c
    BY <1>5, <1>7, <2>2 DEF Left, CInv
  <2>3. QED
    BY <2>1, <2>2
<1>10. QED
  BY <1>4, <1>5, <1>6, <1>8, <1>9 DEF CInv

LEMMA ConcludeCounts ==
  ASSUME IInv, CInv, NEW c \in Calls, phase[c] \in Waiting, NEW ended, Conclude(c, ended)
  PROVE  CInv'
<1>1. /\ phase' = [phase EXCEPT ![c] = "over"] /\ Count(c) /\ active' = active
      /\ read' = Abandon(CancelAll(c), c)
  BY DEF Conclude
<1>2. \A d \in Calls \ {c} : status'[d] = status[d]
  BY DEF Conclude, IInv, TypeOK
<1>3. QED
  BY <1>1, <1>2, OverCounts DEF Over

LEMMA CallerGoneCounts ==
  ASSUME IInv, CInv, NEW c \in Calls, CallerGone(c)
  PROVE  CInv'
<1>1. /\ phase' = [phase EXCEPT ![c] = "gone"] /\ Count(c) /\ active' = active
      /\ read' = Abandon(CancelAll(c), c) /\ phase[c] \in Waiting
  BY DEF CallerGone
<1>2. \A d \in Calls \ {c} : status'[d] = status[d]
  BY DEF CallerGone, IInv, TypeOK
<1>3. QED
  BY <1>1, <1>2, OverCounts DEF Over

\* A wait of a call gives way to the next one.
LEMMA WaitCounts ==
  ASSUME IInv, CInv, NEW c \in Calls, Expire(c) \/ CancelLate(c)
  PROVE  CInv'
<1>1. read \in ReadTable /\ phase \in [Calls -> {"idle"} \cup Waiting \cup Over]
  BY DEF IInv, TypeOK
<1>2. PICK to \in {"cut1", "cut2"} : phase' = [phase EXCEPT ![c] = to]
  BY DEF Expire, CancelLate
<1>3. /\ phase[c] \in {"reading", "cut1"} /\ UNCHANGED <<status, active, errors>>
      /\ read' = read \/ read' = CancelAll(c)
  BY DEF Expire, CancelLate
<1>4. \A d \in Calls, p \in Providers : read[d][p] \in SoundRead /\ Sane(read[d][p])
  BY <1>1 DEF ReadTable, CInv
<1>5. /\ \A d \in Calls \ {c}, p \in Providers : read'[d][p] = read[d][p]
      /\ \A p \in Providers : /\ Sane(read'[c][p])
                              /\ read'[c][p].st \in Still <=> read[c][p].st \in Still
  BY <1>1, <1>3, <1>4, CancelAllReads, CancelOnceSane
<1>6. ReadsCounted'
  <2>1. \A d \in Calls, p \in Providers : read'[d][p].st \in Still <=> read[d][p].st \in Still
    BY <1>5
  <2>2. QED
    BY <1>3, <2>1, SameRunning DEF CInv
<1>7. /\ phase[c] \notin Over /\ phase'[c] \notin Over /\ phase'[c] # "idle"
      /\ \A d \in Calls \ {c} : phase'[d] = phase[d]
  BY <1>1, <1>2, <1>3 DEF Over
<1>8. CallsCounted'
  BY <1>3, <1>7, WaitingBad DEF CInv
<1>9. ASSUME NEW d \in Calls PROVE Left(d)'
  BY <1>5, <1>7 DEF Left, CInv
<1>10. QED
  BY <1>4, <1>5, <1>6, <1>8, <1>9 DEF CInv

LEMMA StepCounts == IInv /\ CInv /\ [Next]_vars => CInv'
<1> SUFFICES ASSUME IInv, CInv, [Next]_vars PROVE CInv'
  OBVIOUS
<1>1. CASE \E c \in Calls : Begin(c)
  BY <1>1, StartCounts DEF Begin
<1>2. CASE \E c \in Calls : Call(c)
  <2>1. PICK c \in Calls : Call(c)
    BY <1>2
  <2>2. CASE AllDone(c) \/ CutDone(c) \/ LeaveBehind(c)
    <3>1. PICK ended : Conclude(c, ended)
      BY <2>2 DEF AllDone, CutDone, LeaveBehind
    <3>2. phase[c] \in Waiting
      BY <2>2 DEF AllDone, CutDone, LeaveBehind, Waiting
    <3>3. QED
      BY <3>1, <3>2, ConcludeCounts
  <2>3. QED
    BY <2>1, <2>2, WaitCounts DEF Call
<1>3. CASE \E c \in Calls : CallerGone(c)
  BY <1>3, CallerGoneCounts
<1>4. CASE \E c \in Calls, p \in Providers : Task(c, p) \/ Source(c, p)
  BY <1>4, TaskCounts
<1>5. CASE \/ \E p \in Providers : Rotate(p) \/ ResetGauge(p)
           \/ ResetBump \/ ResetList \/ Tick \/ Finished \/ UNCHANGED vars
  <2>1. UNCHANGED <<phase, status, read, active, errors>>
    BY <1>5 DEF Rotate, ResetGauge, ResetBump, ResetList, Tick, Finished, vars, callVars
  <2>2. ReadsCounted' /\ CallsCounted'
    BY <2>1, SameRunning, SameBad DEF CInv
  <2>3. QED
    BY <2>1, <2>2 DEF CInv, Left
<1>6. QED
  BY <1>1, <1>2, <1>3, <1>4, <1>5 DEF Next

LEMMA CInvHolds == Spec => []CInv
BY IInvHolds, InitCounts, StepCounts, PTL DEF Spec

\* For any number of calls and sources, the bound on the reads of a source counts each
\* read that still runs once, those left behind included, and is never exceeded
\* (_active, _collect, _finished).
THEOREM ActiveExactHolds == Spec => []ActiveExact
<1>1. CInv => ActiveExact
  BY DEF CInv, ReadsCounted, RunningOf, ActiveExact
<1>2. QED
  BY <1>1, CInvHolds, PTL

\* A call is counted once however it ends, with the status it has for every source,
\* for any calls, sources, deadlines and batches (_count).
THEOREM CountedOnceHolds == Spec => []CountedOnce
<1>1. CInv => CountedOnce
  BY DEF CInv, CallsCounted, BadOf, CountedOnce
<1>2. QED
  BY <1>1, CInvHolds, PTL

\* A read that holds a key after its call was over was cancelled, and went on: a source
\* that keeps its cancellation leaves nothing held (_collect's finally, abandon).
HeldPastItsCall ==
  \A c \in Calls, p \in Providers :
    read[c][p].held => phase[c] \in Waiting \/ read[c][p].cancels > 0

THEOREM OnlySwallowersHold == Spec => []HeldPastItsCall
<1>1. IInv /\ CInv => HeldPastItsCall
  <2> SUFFICES ASSUME IInv, CInv, NEW c \in Calls, NEW p \in Providers, read[c][p].held,
                      phase[c] \notin Waiting
               PROVE  read[c][p].cancels > 0
    BY DEF HeldPastItsCall
  <2>1. read[c][p].st = "leading" /\ Left(c)
    BY DEF CInv, Sane
  <2>2. phase[c] \in {"idle"} \cup Over
    BY DEF IInv, TypeOK
  <2>3. QED
    BY <2>1, <2>2 DEF Left, Still
<1>2. QED
  BY <1>1, IInvHolds, CInvHolds, PTL

\* When a read is of one batch, as the reads of few keys are, a call that is over was
\* counted once and holds no key, for any calls, sources and deadlines (_count, _collect's
\* finally, abandon).  A read of two batches may hold one: see OnlySwallowersHold.
THEOREM OverIsOverHolds ==
  ASSUME MaxBatches <= 1
  PROVE  Spec => []OverIsOver
<1>1. IInv /\ CInv => OverIsOver
  <2> SUFFICES ASSUME IInv, CInv PROVE CountedOnce /\ NothingHeldAfter
    BY DEF OverIsOver
  <2>1. CountedOnce
    BY DEF CInv, CallsCounted, BadOf, CountedOnce
  <2>2. ASSUME NEW c \in Calls, NEW p \in Providers, read[c][p].held
        PROVE  phase[c] \in Waiting
    <3>1. read[c][p].st = "leading" /\ Left(c)
      BY <2>2 DEF CInv, Sane
    <3>2. phase[c] \in {"idle"} \cup Waiting \cup Over
      BY DEF IInv, TypeOK
    <3>3. QED
      BY <2>2, <3>1, <3>2 DEF Left
  <2>3. QED
    BY <2>1, <2>2 DEF NothingHeldAfter
<1>2. QED
  BY <1>1, IInvHolds, CInvHolds, PTL


-----------------------------------------------------------------------------
(* The end of the process: the invariant of ContextLoop *)

\* Where a frame is that closes: from its mark to the end of its wait for the loop.
Working == {"sources", "loop", "locked", "stop", "join"}
Places == Working \cup {"idle", "serving", "lifespan", "handler", "entered", "open", "over", "exited", "left"}

Callbacks == [what : {"start", "cancel", "stop"}, of : Threads]

LoopTyped ==
  /\ transport \in {"stdio", "http"} /\ ref \in BOOLEAN /\ stopping \in BOOLEAN /\ closing \in BOOLEAN
  /\ loop \in Turning \cup {"closed"}
  /\ ready \in Seq(Callbacks)
  /\ lock \subseteq Frames /\ left \subseteq Threads
  /\ task \in [Threads -> {"none", "running", "cancelling", "done"}]
  /\ future \in [Threads -> {"none", "pending", "result", "cancelled"}]
  /\ call \in [Threads -> {"idle", "asked", "looked", "waiting"} \cup Endings]
  /\ frame \in [Frames -> Places] /\ stack \in Seq(Frames)

\* The stack of the main thread: main, then the handlers that run, each once.
Stacked ==
  /\ stack # <<>> /\ stack[1] = Main
  /\ \A i \in DOMAIN stack : i > 1 => stack[i] \in Signals
  /\ \A i, j \in DOMAIN stack : stack[i] = stack[j] => i = j
  /\ \A s \in Signals : frame[s] \notin {"idle", "left"} <=> \E i \in DOMAIN stack : stack[i] = s
  /\ transport = "http" => \A s \in Signals : frame[s] = "idle"
  /\ frame[Worker] \notin {"idle", "left"} => transport = "http" /\ frame[Main] = "lifespan"

\* The close went its way: the sources were waited for and the loop was taken.
WhollyClosed == ~ref /\ \E f \in Frames : call[f] \in Endings

\* Who closes: nobody before the mark, then one frame, until the close is whole.
Closers ==
  /\ ~closing => ref /\ \A f \in Frames : frame[f] \notin Working \cup {"over", "exited"} /\ call[f] = "idle"
  /\ \/ ~closing \/ WhollyClosed
     \/ \E f \in Frames : frame[f] \in Working
  /\ \A f \in Frames : frame[f] \in {"over", "exited"} => WhollyClosed
  /\ \A f, g \in Frames : frame[f] \in Working /\ g # f => frame[g] \notin Working /\ call[g] = "idle"
  /\ \A f, g \in Frames : call[f] # "idle" /\ call[g] # "idle" => f = g
  /\ \A f \in Frames :
       /\ frame[f] \in {"sources", "loop", "locked"} => ref
       /\ frame[f] \in {"stop", "join"} => ~ref
       /\ frame[f] \in {"loop", "locked", "stop", "join"} => call[f] \in Endings
       /\ f \in lock <=> frame[f] = "locked"

\* What interrupts a frame that closes is a handler that only looks, and a frame that
\* was about to mark was interrupted by the one that did.
Above ==
  /\ \A i, j \in DOMAIN stack : i < j /\ frame[stack[i]] \in Working => frame[stack[j]] = "handler"
  /\ closing => \A f \in Frames : frame[f] = "open" =>
       \E i, j \in DOMAIN stack : i < j /\ stack[i] = f /\ frame[stack[j]] \in Working \cup {"over"}

\* One stop is asked of the loop, by the frame that took it.
Stops == {i \in DOMAIN ready : ready[i].what = "stop"}
Posted ==
  /\ ref \/ stopping \/ (\E f \in Frames : frame[f] = "stop") => Stops = {}
  /\ ref \/ (\E f \in Frames : frame[f] = "stop") => ~stopping
  /\ \A i, j \in Stops : i = j

\* A task is made once, of a read that was scheduled; what the sweep found, it cancelled.
Unscheduled == {"idle", "asked", "looked"}
Swept ==
  /\ \A i \in DOMAIN ready : ready[i].what = "start" =>
       task[ready[i].of] = "none" /\ call[ready[i].of] \notin Unscheduled
  /\ \A i, j \in DOMAIN ready :
       ready[i].what = "start" /\ ready[j].what = "start" /\ ready[i].of = ready[j].of => i = j
  /\ \A t \in Threads : task[t] # "none" => call[t] \notin Unscheduled
  /\ loop = "forever" => left = {}
  /\ \A t \in left : task[t] # "none" /\ (Pending(t) => task[t] = "cancelling")

LoopInv == LoopTyped /\ Stacked /\ Closers /\ Above /\ Posted /\ Swept

(* Queues, and the threads *)

LEMMA Queued ==
  ASSUME NEW S, NEW q \in Seq(S)
  PROVE  Len(q) \in Nat /\ DOMAIN q = 1..Len(q) /\ \A i \in DOMAIN q : q[i] \in S /\ i \in Nat \ {0}
OBVIOUS

LEMMA OfThreads ==
  ASSUME ready \in Seq(Callbacks)
  PROVE  \A i \in DOMAIN ready : ready[i].of \in Threads
<1>1. \A i \in DOMAIN ready : ready[i] \in Callbacks
  BY Queued
<1>2. QED
  BY <1>1 DEF Callbacks

LEMMA Pushed ==
  ASSUME NEW S, NEW q \in Seq(S), NEW e \in S
  PROVE  /\ Append(q, e) \in Seq(S) /\ DOMAIN Append(q, e) = DOMAIN q \cup {Len(q) + 1}
         /\ Append(q, e)[Len(q) + 1] = e /\ Len(q) + 1 \notin DOMAIN q
         /\ \A i \in DOMAIN q : Append(q, e)[i] = q[i]
OBVIOUS

LEMMA Popped ==
  ASSUME NEW S, NEW q \in Seq(S), q # <<>>
  PROVE  /\ Head(q) = q[1] /\ 1 \in DOMAIN q /\ Tail(q) \in Seq(S)
         /\ \A i \in DOMAIN Tail(q) : i \in Nat \ {0} /\ i + 1 \in DOMAIN q /\ Tail(q)[i] = q[i + 1]
OBVIOUS

LEMMA FramesAre ==
  /\ Main \in Frames /\ Worker \in Frames /\ Signals \subseteq Frames /\ Frames \subseteq Threads
  /\ Main # Worker /\ Main \notin Signals /\ Worker \notin Signals /\ Callers \cap Frames = {}
  /\ Callers \subseteq Threads
  /\ IsFiniteSet(Frames)
<1>1. IsFiniteSet({Main, Worker}) /\ IsFiniteSet(Signals)
  <2>1. IsFiniteSet({Main}) /\ IsFiniteSet({Main} \cup {Worker})
    BY FS_Singleton, FS_AddElement
  <2>2. {Main, Worker} = {Main} \cup {Worker}
    OBVIOUS
  <2>3. QED
    BY <2>1, <2>2, ContextLoopAssumption
<1>2. IsFiniteSet(Frames)
  BY <1>1, FS_Union DEF Frames
<1>3. QED
  BY <1>2, ContextLoopAssumption DEF Frames, Threads

LEMMA LoopBegins == LoopInit => LoopInv
<1> SUFFICES ASSUME LoopInit PROVE LoopInv
  OBVIOUS
<1>1. LoopTyped
  <2>1. stack \in Seq(Frames) /\ ready \in Seq(Callbacks)
    BY FramesAre DEF LoopInit
  <2>2. frame \in [Frames -> Places]
    BY DEF LoopInit, Places, Working
  <2>3. QED
    BY <2>1, <2>2 DEF LoopInit, LoopTyped, Turning
<1>2. Stacked
  BY FramesAre DEF LoopInit, Stacked
<1>3. Closers
  BY FramesAre DEF LoopInit, Closers, Working, Endings, WhollyClosed
<1>4. Above
  BY FramesAre DEF LoopInit, Above, Working
<1>5. Posted
  BY FramesAre DEF LoopInit, Posted, Stops
<1>6. Swept
  BY DEF LoopInit, Swept
<1>7. QED
  BY <1>1, <1>2, <1>3, <1>4, <1>5, <1>6 DEF LoopInv

-----------------------------------------------------------------------------
(* A step of the reads or of the loop: the frames stay where they are *)

FramesStay ==
  /\ UNCHANGED <<transport, ref, closes>>
  /\ \A f \in Frames : /\ call'[f] = "idle" <=> call[f] = "idle"
                       /\ call[f] \in Endings => call'[f] \in Endings

LEMMA FramesKept ==
  ASSUME Stacked, Closers, Above, FramesStay
  PROVE  Stacked' /\ Closers' /\ Above'
<1>1. Stacked' /\ Above'
  BY DEF Stacked, Above, FramesStay, closes
<1>2. WhollyClosed => WhollyClosed'
  BY DEF WhollyClosed, FramesStay
<1>3. Closers'
  BY <1>2 DEF Closers, FramesStay, closes
<1>4. QED
  BY <1>1, <1>3

\* What a step does to the callbacks: none of them is another stop.
LEMMA NoStopAdded ==
  ASSUME LoopTyped, Posted, UNCHANGED <<ref, frame>>, 
         \/ ready' = ready /\ stopping' = stopping
         \/ ready' = <<>> /\ stopping' = stopping
         \/ \E cb \in [what : {"start", "cancel"}, of : Threads] : ready' = Append(ready, cb) /\ stopping' = stopping
         \/ ready # <<>> /\ ready' = Tail(ready) /\ stopping' = (stopping \/ Head(ready).what = "stop")
  PROVE  Posted'
<1>1. CASE (ready' = ready \/ ready' = <<>>) /\ stopping' = stopping
  BY <1>1 DEF Posted, Stops
<1>2. CASE \E cb \in [what : {"start", "cancel"}, of : Threads] : ready' = Append(ready, cb) /\ stopping' = stopping
  <2>1. PICK cb \in [what : {"start", "cancel"}, of : Threads] : ready' = Append(ready, cb)
    BY <1>2
  <2>2. Stops' = Stops
    <3>1. ready \in Seq(Callbacks) /\ cb \in Callbacks /\ cb.what # "stop"
      BY DEF LoopTyped, Callbacks
    <3>2. QED
      BY <2>1, <3>1, Pushed DEF Stops
  <2>3. QED
    BY <1>2, <2>2 DEF Posted
<1>3. CASE ready # <<>> /\ ready' = Tail(ready) /\ stopping' = (stopping \/ Head(ready).what = "stop")
  <2>1. ready \in Seq(Callbacks)
    BY DEF LoopTyped
  <2>2. /\ Head(ready) = ready[1] /\ 1 \in DOMAIN ready
        /\ \A i \in DOMAIN ready' : i \in Nat \ {0} /\ i + 1 \in DOMAIN ready /\ ready'[i] = ready[i + 1]
    BY <1>3, <2>1, Popped
  <2>3. \A i \in Stops' : i + 1 \in Stops /\ i \in Nat \ {0}
    BY <2>2 DEF Stops
  <2>4. Head(ready).what = "stop" => 1 \in Stops
    BY <2>2 DEF Stops
  <2>5. Head(ready).what = "stop" => Stops' = {}
    <3>1. SUFFICES ASSUME 1 \in Stops, NEW i \in Stops' PROVE FALSE
      BY <2>4
    <3>2. i + 1 = 1
      BY <2>3, <3>1 DEF Posted
    <3>3. QED
      BY <2>3, <3>2
  <2>6. Stops = {} => Stops' = {}
    BY <2>3
  <2>7. \A i, j \in Stops' : i = j
    <3>1. SUFFICES ASSUME NEW i \in Stops', NEW j \in Stops' PROVE i = j
      OBVIOUS
    <3>2. i + 1 = j + 1
      BY <2>3 DEF Posted
    <3>3. QED
      BY <2>3, <3>2
  <2>8. Head(ready).what = "stop" => ~ref /\ ~\E f \in Frames : frame[f] = "stop"
    BY <2>4 DEF Posted
  <2>9. QED
    BY <1>3, <2>5, <2>6, <2>7, <2>8 DEF Posted
<1>4. QED
  BY <1>1, <1>2, <1>3

LEMMA AskKeeps == ASSUME LoopInv, NEW c \in Callers, Ask(c) PROVE LoopInv'
<1>1. FramesStay
  BY FramesAre DEF LoopInv, LoopTyped, Ask, FramesStay
<1>2. LoopTyped'
  BY FramesAre DEF LoopInv, LoopTyped, Ask, closes
<1>3. Posted'
  BY DEF LoopInv, Posted, Stops, Ask, closes
<1>4. Swept'
  BY FramesAre DEF LoopInv, LoopTyped, Swept, Ask, Pending, Unscheduled
<1>5. QED
  BY <1>1, <1>2, <1>3, <1>4, FramesKept DEF LoopInv

LEMMA LookKeeps == ASSUME LoopInv, NEW t \in Threads, Look(t) PROVE LoopInv'
<1>1. FramesStay
  BY FramesAre DEF LoopInv, LoopTyped, Look, FramesStay, Endings
<1>2. LoopTyped'
  BY FramesAre DEF LoopInv, LoopTyped, Look, closes, Endings
<1>3. Posted'
  BY DEF LoopInv, Posted, Stops, Look, closes
<1>4. Swept'
  BY FramesAre DEF LoopInv, LoopTyped, Swept, Look, Pending, Unscheduled
<1>5. QED
  BY <1>1, <1>2, <1>3, <1>4, FramesKept DEF LoopInv

LEMMA ScheduleKeeps == ASSUME LoopInv, NEW t \in Threads, Schedule(t) PROVE LoopInv'
<1> DEFINE cb == [what |-> "start", of |-> t]
<1>1. FramesStay
  BY FramesAre DEF LoopInv, LoopTyped, Schedule, FramesStay, Endings
<1>2. LoopTyped'
  <2>1. ready \in Seq(Callbacks) /\ cb \in Callbacks
    BY DEF LoopInv, LoopTyped, Callbacks
  <2>2. ready' \in Seq(Callbacks)
    BY <2>1, Pushed DEF Schedule
  <2>3. QED
    BY <2>2 DEF LoopInv, LoopTyped, Schedule, closes, Endings
<1>3. ready' = ready \/ ready' = Append(ready, cb)
  BY DEF Schedule
<1>4. cb \in [what : {"start", "cancel"}, of : Threads] /\ UNCHANGED <<ref, frame, stopping>>
  BY DEF Schedule, closes
<1>5. Posted'
  BY <1>3, <1>4, NoStopAdded DEF LoopInv
<1>6. Swept'
  <2>1. CASE loop = "closed"
    <3>1. \A u \in Threads : call'[u] \in Unscheduled => call[u] \in Unscheduled
      BY <2>1 DEF LoopInv, LoopTyped, Schedule, Unscheduled
    <3>2. \A i \in DOMAIN ready : ready[i].of \in Threads
      BY OfThreads DEF LoopInv, LoopTyped
    <3>3. UNCHANGED <<task, future, left, loop, ready>>
      BY <2>1 DEF Schedule
    <3>4. QED
      BY <3>1, <3>2, <3>3 DEF LoopInv, Swept, Pending
  <2>2. CASE loop # "closed"
    <3>1. /\ call' = [call EXCEPT ![t] = "waiting"] /\ future' = [future EXCEPT ![t] = "pending"]
          /\ ready' = Append(ready, cb) /\ UNCHANGED <<task, left, loop>> /\ call[t] = "looked"
      BY <2>2 DEF Schedule
    <3>2. task[t] = "none"
      BY <3>1 DEF LoopInv, Swept, Unscheduled
    <3>3. \A i \in DOMAIN ready : ready[i].what = "start" => ready[i].of # t
      BY <3>1 DEF LoopInv, Swept, Unscheduled
    <3>4. \A i \in DOMAIN ready' : (i \in DOMAIN ready /\ ready'[i] = ready[i]) \/ (i = Len(ready) + 1 /\ ready'[i] = cb)
      <4>1. ready \in Seq(Callbacks) /\ cb \in Callbacks
        BY DEF LoopInv, LoopTyped, Callbacks
      <4>2. QED
        BY <3>1, <4>1, Pushed
    <3>5. \A i \in DOMAIN ready' : ready'[i].what = "start" =>
            task'[ready'[i].of] = "none" /\ call'[ready'[i].of] \notin Unscheduled
      BY <3>1, <3>2, <3>4 DEF LoopInv, LoopTyped, Swept, Unscheduled
    <3>6. \A i, j \in DOMAIN ready' :
            ready'[i].what = "start" /\ ready'[j].what = "start" /\ ready'[i].of = ready'[j].of => i = j
      BY <3>3, <3>4 DEF LoopInv, LoopTyped, Swept
    <3>7. QED
      BY <3>1, <3>2, <3>5, <3>6 DEF LoopInv, LoopTyped, Swept, Pending, Unscheduled
  <2>3. QED
    BY <2>1, <2>2
<1>7. QED
  BY <1>1, <1>2, <1>5, <1>6, FramesKept DEF LoopInv

LEMMA AnswerKeeps == ASSUME LoopInv, NEW t \in Threads, Answer(t) PROVE LoopInv'
<1>1. FramesStay
  BY FramesAre DEF LoopInv, LoopTyped, Answer, FramesStay, Endings
<1>2. LoopTyped'
  BY FramesAre DEF LoopInv, LoopTyped, Answer, closes, Endings
<1>3. Posted'
  BY DEF LoopInv, Posted, Stops, Answer, closes
<1>4. Swept'
  BY FramesAre DEF LoopInv, LoopTyped, Swept, Answer, Pending, Unscheduled
<1>5. QED
  BY <1>1, <1>2, <1>3, <1>4, FramesKept DEF LoopInv

LEMMA TimeOutKeeps == ASSUME LoopInv, NEW t \in Threads, TimeOut(t) PROVE LoopInv'
<1> DEFINE cb == [what |-> "cancel", of |-> t]
<1>1. FramesStay
  BY FramesAre DEF LoopInv, LoopTyped, TimeOut, FramesStay, Endings
<1>2. LoopTyped'
  <2>1. ready \in Seq(Callbacks) /\ cb \in Callbacks
    BY DEF LoopInv, LoopTyped, Callbacks
  <2>2. ready' \in Seq(Callbacks)
    BY <2>1, Pushed DEF TimeOut
  <2>3. QED
    BY <2>2 DEF LoopInv, LoopTyped, TimeOut, closes, Endings
<1>3. ready' = ready \/ ready' = Append(ready, cb)
  BY DEF TimeOut
<1>4. cb \in [what : {"start", "cancel"}, of : Threads] /\ UNCHANGED <<ref, frame, stopping>>
  BY DEF TimeOut, closes
<1>5. Posted'
  BY <1>3, <1>4, NoStopAdded DEF LoopInv
<1>6. Swept'
  <2>1. /\ call' = [call EXCEPT ![t] = "timed out"] /\ UNCHANGED <<task, left, loop>>
        /\ future' = [future EXCEPT ![t] = IF Pending(t) THEN "cancelled" ELSE @]
    BY DEF TimeOut
  <2>2. \A i \in DOMAIN ready' : (i \in DOMAIN ready /\ ready'[i] = ready[i]) \/ ready'[i] = cb
    <3>1. ready \in Seq(Callbacks) /\ cb \in Callbacks
      BY DEF LoopInv, LoopTyped, Callbacks
    <3>2. QED
      BY <1>3, <3>1, Pushed
  <2>3. \A i \in DOMAIN ready' : ready'[i].what = "start" => i \in DOMAIN ready /\ ready'[i] = ready[i]
    BY <2>2
  <2>4. \A i \in DOMAIN ready' : ready'[i].what = "start" =>
            task'[ready'[i].of] = "none" /\ call'[ready'[i].of] \notin Unscheduled
    <3>1. \A u \in Threads : call'[u] \in Unscheduled => call[u] \in Unscheduled
      BY <2>1 DEF LoopInv, LoopTyped, Unscheduled
    <3>2. \A i \in DOMAIN ready : ready[i].of \in Threads
      BY OfThreads DEF LoopInv, LoopTyped
    <3> TAKE i \in DOMAIN ready'
    <3>3. HAVE ready'[i].what = "start"
    <3>4. ready'[i] = ready[i] /\ i \in DOMAIN ready /\ task' = task
      BY <2>1, <2>3, <3>3
    <3>5. ready[i].what = "start" /\ ready[i].of \in Threads
      BY <3>2, <3>3, <3>4
    <3>6. task[ready[i].of] = "none" /\ call[ready[i].of] \notin Unscheduled
      BY <3>4, <3>5 DEF LoopInv, Swept
    <3>7. task'[ready[i].of] = "none" /\ call'[ready[i].of] \notin Unscheduled
      BY <3>1, <3>4, <3>5, <3>6
    <3>8. QED
      BY <3>4, <3>7
  <2>5. \A i, j \in DOMAIN ready' :
            ready'[i].what = "start" /\ ready'[j].what = "start" /\ ready'[i].of = ready'[j].of => i = j
    BY <2>3 DEF LoopInv, Swept
  <2>6. \A u \in Threads : Pending(u)' => Pending(u)
    BY <2>1 DEF LoopInv, LoopTyped, Pending
  <2>7. \A u \in Threads : call'[u] \in Unscheduled => call[u] \in Unscheduled
    BY <2>1 DEF LoopInv, LoopTyped, Unscheduled
  <2>8. left \subseteq Threads
    BY DEF LoopInv, LoopTyped
  <2>9. QED
    BY <2>1, <2>4, <2>5, <2>6, <2>7, <2>8 DEF LoopInv, Swept
<1>7. QED
  BY <1>1, <1>2, <1>5, <1>6, FramesKept DEF LoopInv

LEMMA CallbackKeeps == ASSUME LoopInv, Callback PROVE LoopInv'
<1> DEFINE cb == Head(ready)
<1>1. FramesStay
  BY DEF Callback, FramesStay
<1>2. /\ cb \in Callbacks /\ cb = ready[1] /\ 1 \in DOMAIN ready /\ Tail(ready) \in Seq(Callbacks)
      /\ \A i \in DOMAIN Tail(ready) : i \in Nat \ {0} /\ i + 1 \in DOMAIN ready /\ Tail(ready)[i] = ready[i + 1]
  <2>1. ready \in Seq(Callbacks) /\ ready # <<>>
    BY DEF LoopInv, LoopTyped, Callback
  <2>2. QED
    BY <2>1, Popped, Queued
<1>type. cb.of \in Threads /\ cb.what \in {"start", "cancel", "stop"}
  BY <1>2 DEF Callbacks
<1>3. /\ ready' = Tail(ready) /\ stopping' = (stopping \/ cb.what = "stop")
      /\ UNCHANGED <<transport, ref, loop, left, future, call, lock, frame, stack, closing>>
      /\ ready # <<>>
  BY DEF Callback, closes
<1>4. \/ cb.what = "start" /\ task' = [task EXCEPT ![cb.of] = IF Pending(cb.of) THEN "running" ELSE "cancelling"]
      \/ cb.what = "cancel" /\ task' = [task EXCEPT ![cb.of] = IF @ = "running" THEN "cancelling" ELSE @]
      \/ cb.what = "stop" /\ task' = task
  BY <1>type DEF Callback
<1> HIDE DEF cb
<1>5. LoopTyped'
  BY <1>2, <1>type, <1>3, <1>4 DEF LoopInv, LoopTyped
<1>6. Posted'
  BY <1>3, NoStopAdded DEF LoopInv, cb
<1>7. \A i \in DOMAIN ready' : i + 1 \in DOMAIN ready /\ ready'[i] = ready[i + 1] /\ i + 1 # 1 /\ i \in Int
  BY <1>2, <1>3
<1>8. Swept'
  <2>1. cb.what = "start" => task[cb.of] = "none" /\ call[cb.of] \notin Unscheduled
                              /\ cb.of \notin left
    BY <1>2 DEF LoopInv, Swept
  <2>2. \A i \in DOMAIN ready' : ready'[i].what = "start" /\ cb.what = "start" => ready'[i].of # cb.of
    BY <1>2, <1>7 DEF LoopInv, Swept
  <2>3. \A i \in DOMAIN ready' : ready'[i].what = "start" =>
            task[ready'[i].of] = "none" /\ call[ready'[i].of] \notin Unscheduled
    BY <1>7 DEF LoopInv, Swept
  <2>4. \A i \in DOMAIN ready' : ready'[i].what = "start" => task'[ready'[i].of] = "none"
    <3>1. \A u \in Threads : task[u] = "none" /\ (cb.what = "start" => u # cb.of) => task'[u] = "none"
      BY <1>type, <1>4 DEF LoopInv, LoopTyped
    <3>2. \A i \in DOMAIN ready' : ready'[i].of \in Threads
      <4>1. ready \in Seq(Callbacks)
        BY DEF LoopInv, LoopTyped
      <4>2. \A i \in DOMAIN ready : ready[i].of \in Threads
        BY <4>1, OfThreads
      <4>3. QED
        BY <1>7, <4>2
    <3>3. QED
      BY <2>2, <2>3, <3>1, <3>2
  <2>5. \A i, j \in DOMAIN ready' :
            ready'[i].what = "start" /\ ready'[j].what = "start" /\ ready'[i].of = ready'[j].of => i = j
    <3> TAKE i, j \in DOMAIN ready'
    <3>1. HAVE ready'[i].what = "start" /\ ready'[j].what = "start" /\ ready'[i].of = ready'[j].of
    <3>2. i + 1 = j + 1
      BY <1>7, <3>1 DEF LoopInv, Swept
    <3>3. QED
      BY <1>7, <3>2
  <2>6. \A t \in Threads : task'[t] # "none" => call[t] \notin Unscheduled
    BY <1>type, <1>4, <2>1 DEF LoopInv, LoopTyped, Swept
  <2>7. \A t \in left : task'[t] # "none" /\ (Pending(t) => task'[t] = "cancelling")
    BY <1>type, <1>4, <2>1 DEF LoopInv, LoopTyped, Swept
  <2>8. QED
    BY <1>3, <2>3, <2>4, <2>5, <2>6, <2>7 DEF LoopInv, Swept, Pending
<1>9. QED
  BY <1>1, <1>5, <1>6, <1>8, FramesKept DEF LoopInv

LEMMA TaskEndsKeeps == ASSUME LoopInv, NEW t \in Threads, TaskEnds(t) PROVE LoopInv'
<1>1. FramesStay
  BY DEF TaskEnds, FramesStay
<1>2. LoopTyped'
  BY DEF LoopInv, LoopTyped, TaskEnds, closes
<1>3. Posted'
  BY DEF LoopInv, Posted, Stops, TaskEnds, closes
<1>4. task' = [task EXCEPT ![t] = "done"] /\ ~Pending(t)' /\ \A u \in Threads \ {t} : Pending(u)' <=> Pending(u)
  BY DEF LoopInv, LoopTyped, TaskEnds, Pending
<1>5. Swept'
  BY <1>4 DEF LoopInv, LoopTyped, Swept, TaskEnds
<1>6. QED
  BY <1>1, <1>2, <1>3, <1>5, FramesKept DEF LoopInv

LEMMA SweepKeeps == ASSUME LoopInv, Sweep PROVE LoopInv'
<1>1. FramesStay
  BY DEF Sweep, FramesStay, submits
<1>2. LoopTyped'
  BY DEF LoopInv, LoopTyped, Sweep, closes, Alive, Turning
<1>3. Posted'
  BY DEF LoopInv, Posted, Stops, Sweep, closes
<1>4. Swept'
  <2>1. /\ task' = [t \in Threads |-> IF t \in Alive THEN "cancelling" ELSE task[t]]
        /\ left' = Alive /\ loop' # "forever" /\ UNCHANGED <<ready, future, call>>
    BY DEF Sweep
  <2>2. \A t \in Alive : t \in Threads /\ task[t] # "none"
    BY DEF Alive
  <2>3. \A t \in Threads : task'[t] = "none" <=> task[t] = "none"
    BY <2>1, <2>2
  <2>4. \A i \in DOMAIN ready : ready[i].of \in Threads
    <3>1. ready \in Seq(Callbacks)
      BY DEF LoopInv, LoopTyped
    <3>2. QED
      BY <3>1, OfThreads
  <2>5. QED
    BY <2>1, <2>2, <2>3, <2>4 DEF LoopInv, Swept, Pending
<1>5. QED
  BY <1>1, <1>2, <1>3, <1>4, FramesKept DEF LoopInv

LEMMA WaitedKeeps == ASSUME LoopInv, Waited PROVE LoopInv'
<1>1. FramesStay
  BY DEF Waited, FramesStay, submits
<1>2. LoopTyped'
  BY DEF LoopInv, LoopTyped, Waited, closes, submits, Turning
<1>3. Posted'
  BY DEF LoopInv, Posted, Stops, Waited, closes
<1>4. Swept'
  BY DEF LoopInv, Swept, Waited, Pending, submits
<1>5. QED
  BY <1>1, <1>2, <1>3, <1>4, FramesKept DEF LoopInv

LEMMA CloseLoopKeeps == ASSUME LoopInv, CloseLoop PROVE LoopInv'
<1>1. FramesStay
  BY DEF CloseLoop, FramesStay, submits
<1>2. LoopTyped'
  BY DEF LoopInv, LoopTyped, CloseLoop, closes, submits
<1>3. Posted'
  BY DEF LoopInv, Posted, Stops, CloseLoop, closes
<1>4. Swept'
  BY DEF LoopInv, Swept, CloseLoop, Pending, submits
<1>5. QED
  BY <1>1, <1>2, <1>3, <1>4, FramesKept DEF LoopInv


-----------------------------------------------------------------------------
(* A step of a frame: the reads stay as they are *)

LEMMA Dropped ==
  ASSUME NEW S, NEW q \in Seq(S), q # <<>>
  PROVE  LET p == SubSeq(q, 1, Len(q) - 1) IN
         /\ p \in Seq(S) /\ DOMAIN p = DOMAIN q \ {Len(q)} /\ Len(q) \in DOMAIN q
         /\ \A i \in DOMAIN p : p[i] = q[i]
OBVIOUS

ReadsStay ==
  /\ UNCHANGED <<loop, ready, stopping, left, task, future>>
  /\ \A t \in Threads : call'[t] \in Unscheduled <=> call[t] \in Unscheduled

LEMMA ReadsKept ==
  ASSUME LoopTyped, Swept, ReadsStay
  PROVE  Swept'
<1>1. \A i \in DOMAIN ready : ready[i].of \in Threads
  BY OfThreads DEF LoopTyped
<1>2. QED
  BY <1>1 DEF ReadsStay, Swept, Pending

LEMMA PostedKept ==
  ASSUME Posted, UNCHANGED <<ready, stopping>>,
         ref' \/ (\E f \in Frames : frame'[f] = "stop") => ref \/ (\E f \in Frames : frame[f] = "stop")
  PROVE  Posted'
<1>1. Stops' = Stops
  BY DEF Stops
<1>2. QED
  BY <1>1 DEF Posted

\* Who is on the stack of the main thread: main, then signals, each once; Worker never is.
LEMMA OnStack ==
  ASSUME LoopTyped, Stacked
  PROVE  /\ Len(stack) \in DOMAIN stack /\ 1 \in DOMAIN stack /\ DOMAIN stack = 1..Len(stack) /\ Len(stack) \in Nat
         /\ \A i \in DOMAIN stack : stack[i] \in Frames \ {Worker} /\ (stack[i] \notin Signals => i = 1)
         /\ \A f \in Frames : frame[f] \notin {"idle", "left"} /\ f # Worker => \E i \in DOMAIN stack : stack[i] = f
<1>1. stack \in Seq(Frames) /\ stack # <<>>
  BY DEF LoopTyped, Stacked
<1>2. Len(stack) \in DOMAIN stack /\ 1 \in DOMAIN stack /\ DOMAIN stack = 1..Len(stack) /\ Len(stack) \in Nat
  BY <1>1
<1>3. \A i \in DOMAIN stack : i = 1 \/ stack[i] \in Signals
  BY <1>2 DEF Stacked
<1>4. \A f \in Frames : f = Main \/ f = Worker \/ f \in Signals
  BY DEF Frames
<1>5. QED
  BY <1>2, <1>3, <1>4, FramesAre DEF Stacked

LEMMA StackedInPlace ==
  ASSUME LoopTyped, Stacked, NEW f \in Frames, NEW q \in Places, To(f, q), UNCHANGED <<stack, transport>>,
         frame[f] \notin {"idle", "left", "lifespan"}, f \in Signals => q \notin {"idle", "left"}
  PROVE  Stacked'
BY FramesAre DEF LoopTyped, Stacked, To

LEMMA AboveInPlace ==
  ASSUME LoopTyped, Stacked, Above, NEW f \in Frames, NEW q \in Places, To(f, q), UNCHANGED <<stack, closing>>,
         q = "open" => ~closing, q \in Working => frame[f] \in Working, frame[f] # "handler",
         f \in Signals /\ frame[f] \in Working \cup {"over"} => q \in Working \cup {"over"}
  PROVE  Above'
<1>1. \A g \in Frames : frame'[g] = IF g = f THEN q ELSE frame[g]
  BY DEF LoopTyped, To
<1>2. \A i \in DOMAIN stack : stack[i] \in Frames \ {Worker} /\ (i > 1 => stack[i] \in Signals)
  BY OnStack DEF Stacked
<1>3. \A i, j \in DOMAIN stack : i < j /\ frame'[stack[i]] \in Working => frame'[stack[j]] = "handler"
  BY <1>1, <1>2 DEF Above
<1>4. closing => \A g \in Frames : frame'[g] = "open" =>
        \E i, j \in DOMAIN stack : i < j /\ stack[i] = g /\ frame'[stack[j]] \in Working \cup {"over"}
  <2>1. SUFFICES ASSUME closing, NEW g \in Frames, frame'[g] = "open"
                 PROVE  \E i, j \in DOMAIN stack : i < j /\ stack[i] = g /\ frame'[stack[j]] \in Working \cup {"over"}
    OBVIOUS
  <2>2. frame[g] = "open"
    BY <1>1, <2>1
  <2>3. PICK i \in DOMAIN stack, j \in DOMAIN stack : i < j /\ stack[i] = g /\ frame[stack[j]] \in Working \cup {"over"}
    BY <2>1, <2>2 DEF Above
  <2>4. j > 1
    BY <2>3, OnStack
  <2>5. QED
    BY <1>1, <1>2, <2>3, <2>4
<1>5. QED
  BY <1>3, <1>4 DEF Above

\* Nobody closes while a frame runs that does not close and did not just interrupt one.
LEMMA NoneWorks ==
  ASSUME LoopInv, NEW f \in Frames, Runs(f), frame[f] \notin Working \cup {"idle", "left", "lifespan", "handler"}
  PROVE  \A g \in Frames : frame[g] \notin Working
<1>1. SUFFICES ASSUME NEW g \in Frames, frame[g] \in Working PROVE FALSE
  OBVIOUS
<1>2. LoopTyped /\ Stacked /\ Above
  BY DEF LoopInv
<1>3. frame[g] \notin {"idle", "left", "lifespan", "serving"}
  BY <1>1 DEF Working
<1>4. f = Main \/ f = Worker \/ f \in Signals
  BY DEF Frames
<1>5. CASE f = Worker
  <2>1. frame[Main] = "lifespan" /\ \A s \in Signals : frame[s] = "idle"
    BY <1>2, <1>5 DEF Stacked
  <2>2. g = Main \/ g = Worker \/ g \in Signals
    BY DEF Frames
  <2>3. QED
    BY <1>1, <1>3, <1>5, <2>1, <2>2
<1>6. CASE f # Worker /\ g = Worker
  <2>1. frame[Main] = "lifespan" /\ \A s \in Signals : frame[s] = "idle"
    BY <1>2, <1>3, <1>6 DEF Stacked
  <2>2. QED
    BY <1>4, <1>6, <2>1
<1>7. CASE f # Worker /\ g # Worker
  <2>1. stack[Len(stack)] = f
    BY <1>7, FramesAre DEF Runs
  <2>2. PICK i \in DOMAIN stack : stack[i] = g
    BY <1>2, <1>3, <1>7, OnStack
  <2>3. i < Len(stack) /\ Len(stack) \in DOMAIN stack
    <3>1. i # Len(stack)
      BY <1>1, <2>1, <2>2
    <3>2. QED
      BY <1>2, <3>1, OnStack
  <2>4. QED
    BY <1>1, <1>2, <2>1, <2>2, <2>3 DEF Above
<1>8. QED
  BY <1>5, <1>6, <1>7

LEMMA CheckKeeps == ASSUME LoopInv, NEW f \in Frames, Check(f) PROVE LoopInv'
<1> DEFINE q == IF closing THEN "over" ELSE "open"
<1>1. /\ To(f, q) /\ frame[f] = "entered" /\ q \in Places
      /\ UNCHANGED <<transport, ref, loop, ready, stopping, left, task, future, call, lock, stack, closing>>
  BY DEF Check, OnlyFrame, Places
<1>2. LoopTyped'
  BY <1>1 DEF LoopInv, LoopTyped, To
<1>3. Stacked'
  BY <1>1, StackedInPlace DEF LoopInv
<1>4. closing => ~\E g \in Frames : frame[g] \in Working
  <2>1. Runs(f)
    BY DEF Check
  <2>2. QED
    BY <1>1, <2>1, NoneWorks DEF Working
<1>5. Closers'
  BY <1>1, <1>4 DEF LoopInv, LoopTyped, Closers, WhollyClosed, To, Working
<1>6. Above'
  BY <1>1, AboveInPlace DEF LoopInv, Working
<1>7. Posted'
  BY <1>1, PostedKept DEF LoopInv, LoopTyped, To
<1>8. Swept'
  BY <1>1, ReadsKept DEF LoopInv, ReadsStay
<1>9. QED
  BY <1>2, <1>3, <1>5, <1>6, <1>7, <1>8 DEF LoopInv

LEMMA SourcesClosedKeeps == ASSUME LoopInv, NEW f \in Frames, SourcesClosed(f) PROVE LoopInv'
<1>1. /\ To(f, "loop") /\ frame[f] = "sources" /\ "loop" \in Places /\ Runs(f)
      /\ UNCHANGED <<transport, ref, loop, ready, stopping, left, task, future, call, lock, stack, closing>>
  BY DEF SourcesClosed, OnlyFrame, Places, Working
<1>2. LoopTyped'
  BY <1>1 DEF LoopInv, LoopTyped, To, SourcesClosed
<1>3. Stacked'
  BY <1>1, StackedInPlace DEF LoopInv
<1>5. Closers'
  BY <1>1 DEF LoopInv, LoopTyped, Closers, WhollyClosed, To, Working, SourcesClosed
<1>6. Above'
  BY <1>1, AboveInPlace DEF LoopInv, Working
<1>7. Posted'
  BY <1>1, PostedKept DEF LoopInv, LoopTyped, To
<1>8. Swept'
  BY <1>1, ReadsKept DEF LoopInv, ReadsStay
<1>9. QED
  BY <1>2, <1>3, <1>5, <1>6, <1>7, <1>8 DEF LoopInv

LEMMA TakeLockKeeps == ASSUME LoopInv, NEW f \in Frames, TakeLock(f) PROVE LoopInv'
<1>1. /\ To(f, "locked") /\ frame[f] = "loop" /\ "locked" \in Places /\ Runs(f)
      /\ UNCHANGED <<transport, ref, loop, ready, stopping, left, task, future, call, stack, closing>>
  BY DEF TakeLock, OnlyFrame, Places, Working
<1>2. LoopTyped'
  BY <1>1 DEF LoopInv, LoopTyped, To, TakeLock
<1>3. Stacked'
  BY <1>1, StackedInPlace DEF LoopInv
<1>5. Closers'
  BY <1>1 DEF LoopInv, LoopTyped, Closers, WhollyClosed, To, Working, TakeLock
<1>6. Above'
  BY <1>1, AboveInPlace DEF LoopInv, Working
<1>7. Posted'
  BY <1>1, PostedKept DEF LoopInv, LoopTyped, To
<1>8. Swept'
  BY <1>1, ReadsKept DEF LoopInv, ReadsStay
<1>9. QED
  BY <1>2, <1>3, <1>5, <1>6, <1>7, <1>8 DEF LoopInv

LEMMA JoinKeeps == ASSUME LoopInv, NEW f \in Frames, Join(f) PROVE LoopInv'
<1>1. /\ To(f, "over") /\ frame[f] = "join" /\ "over" \in Places /\ Runs(f)
      /\ UNCHANGED <<transport, ref, loop, ready, stopping, left, task, future, call, lock, stack, closing>>
  BY DEF Join, OnlyFrame, Places, Working
<1>2. LoopTyped'
  BY <1>1 DEF LoopInv, LoopTyped, To, Join
<1>3. Stacked'
  BY <1>1, StackedInPlace DEF LoopInv
<1>5. Closers'
  BY <1>1 DEF LoopInv, LoopTyped, Closers, WhollyClosed, To, Working, Join
<1>6. Above'
  BY <1>1, AboveInPlace DEF LoopInv, Working
<1>7. Posted'
  BY <1>1, PostedKept DEF LoopInv, LoopTyped, To
<1>8. Swept'
  BY <1>1, ReadsKept DEF LoopInv, ReadsStay
<1>9. QED
  BY <1>2, <1>3, <1>5, <1>6, <1>7, <1>8 DEF LoopInv

LEMMA MarkKeeps == ASSUME LoopInv, NEW f \in Frames, Mark(f) PROVE LoopInv'
<1>1. /\ To(f, "sources") /\ closing' = TRUE /\ frame[f] = "open" /\ "sources" \in Places /\ Runs(f)
      /\ UNCHANGED <<transport, ref, loop, ready, stopping, left, task, future, call, lock, stack>>
  BY DEF Mark, OnlyFrame, Places, Working
<1>2. LoopTyped'
  BY <1>1 DEF LoopInv, LoopTyped, To
<1>3. Stacked'
  BY <1>1, StackedInPlace DEF LoopInv
<1>4. ~closing
  <2>1. SUFFICES ASSUME closing PROVE FALSE
    OBVIOUS
  <2>2. PICK i \in DOMAIN stack, j \in DOMAIN stack : i < j /\ stack[i] = f
    BY <1>1, <2>1 DEF LoopInv, Above
  <2>3. f # Worker
    BY <2>2, OnStack DEF LoopInv
  <2>4. stack[Len(stack)] = f
    BY <1>1, <2>3, FramesAre DEF Runs
  <2>5. i = Len(stack)
    BY <2>2, <2>4, OnStack DEF LoopInv, Stacked
  <2>6. QED
    BY <2>2, <2>5, OnStack DEF LoopInv
<1>5. Closers'
  BY <1>1, <1>4 DEF LoopInv, LoopTyped, Closers, WhollyClosed, To, Working
<1>6. Above'
  <2>1. \A g \in Frames : frame'[g] = IF g = f THEN "sources" ELSE frame[g]
    BY <1>1 DEF LoopInv, LoopTyped, To
  <2>2. \A g \in Frames : frame[g] \notin Working
    BY <1>4 DEF LoopInv, Closers
  <2>3. \A i \in DOMAIN stack : stack[i] \in Frames \ {Worker}
    BY OnStack DEF LoopInv
  <2>4. \A i, j \in DOMAIN stack : i < j /\ frame'[stack[i]] \in Working => frame'[stack[j]] = "handler"
    <3>1. SUFFICES ASSUME NEW i \in DOMAIN stack, NEW j \in DOMAIN stack, i < j, frame'[stack[i]] \in Working
                   PROVE  FALSE
      OBVIOUS
    <3>2. stack[i] = f /\ f # Worker
      BY <2>1, <2>2, <2>3, <3>1
    <3>3. stack[Len(stack)] = f
      BY <1>1, <3>2, FramesAre DEF Runs
    <3>4. i = Len(stack)
      BY <3>2, <3>3, OnStack DEF LoopInv, Stacked
    <3>5. QED
      BY <3>1, <3>4, OnStack DEF LoopInv
  <2>5. \A g \in Frames : frame'[g] = "open" =>
          \E i, j \in DOMAIN stack : i < j /\ stack[i] = g /\ frame'[stack[j]] \in Working \cup {"over"}
    <3>1. SUFFICES ASSUME NEW g \in Frames, frame'[g] = "open"
                   PROVE  \E i, j \in DOMAIN stack : i < j /\ stack[i] = g /\ frame'[stack[j]] \in Working \cup {"over"}
      OBVIOUS
    <3>2. g # f /\ frame[g] = "open"
      BY <2>1, <3>1
    <3>3. f # Worker /\ g # Worker
      <4>1. f = Main \/ f = Worker \/ f \in Signals
        BY DEF Frames
      <4>2. g = Main \/ g = Worker \/ g \in Signals
        BY DEF Frames
      <4>3. frame[Worker] = "open" => frame[Main] = "lifespan" /\ \A s \in Signals : frame[s] = "idle"
        BY DEF LoopInv, Stacked
      <4>4. QED
        BY <1>1, <3>2, <4>1, <4>2, <4>3
    <3>4. stack[Len(stack)] = f
      BY <1>1, <3>3, FramesAre DEF Runs
    <3>5. PICK i \in DOMAIN stack : stack[i] = g
      BY <3>2, <3>3, OnStack DEF LoopInv
    <3>6. i < Len(stack) /\ Len(stack) \in DOMAIN stack
      BY <3>2, <3>4, <3>5, OnStack DEF LoopInv
    <3>7. frame'[f] \in Working
      BY <2>1 DEF Working
    <3>8. QED
      BY <3>4, <3>5, <3>6, <3>7
  <2>6. QED
    BY <1>1, <2>4, <2>5 DEF Above
<1>7. Posted'
  BY <1>1, PostedKept DEF LoopInv, LoopTyped, To
<1>8. Swept'
  BY <1>1, ReadsKept DEF LoopInv, ReadsStay
<1>9. QED
  BY <1>2, <1>3, <1>5, <1>6, <1>7, <1>8 DEF LoopInv

LEMMA CloseSourcesKeeps == ASSUME LoopInv, NEW f \in Frames, CloseSources(f) PROVE LoopInv'
<1>1. /\ ref /\ frame[f] = "sources" /\ call[f] = "idle" /\ call' = [call EXCEPT ![f] = "asked"]
      /\ UNCHANGED <<transport, ref, loop, ready, stopping, left, task, future, frame, lock, stack, closing>>
  BY DEF CloseSources, OnlyFrame, LoopInv, Closers
<1>2. LoopTyped'
  BY <1>1 DEF LoopInv, LoopTyped
<1>3. Stacked' /\ Above'
  BY <1>1 DEF LoopInv, Stacked, Above
<1>4. Closers'
  <2>1. closing /\ \A g \in Frames : g # f => call[g] = "idle" /\ frame[g] \notin Working
    BY <1>1 DEF LoopInv, Closers, Working
  <2>2. f \in Threads /\ call \in [Threads -> {"idle", "asked", "looked", "waiting"} \cup Endings]
    BY FramesAre DEF LoopInv, LoopTyped
  <2>3. \A g \in Frames : call'[g] = IF g = f THEN "asked" ELSE "idle"
    BY <1>1, <2>1, <2>2, FramesAre
  <2>4. ~WhollyClosed
    BY <1>1 DEF WhollyClosed
  <2>5. \A g \in Frames : frame[g] \notin {"over", "exited"} /\ (g \in lock <=> frame[g] = "locked")
    BY <2>4 DEF LoopInv, Closers
  <2>6. \A g \in Frames : frame[g] \notin {"loop", "locked", "stop", "join"}
    BY <1>1, <2>1 DEF Working
  <2>7. "sources" \in Working
    BY DEF Working
  <2>8. QED
    BY <1>1, <2>1, <2>3, <2>5, <2>6, <2>7 DEF Closers
<1>5. Posted'
  BY <1>1, PostedKept DEF LoopInv
<1>6. Swept'
  BY <1>1, ReadsKept DEF LoopInv, LoopTyped, ReadsStay, Unscheduled
<1>7. QED
  BY <1>2, <1>3, <1>4, <1>5, <1>6 DEF LoopInv

LEMMA TakeLoopKeeps == ASSUME LoopInv, NEW f \in Frames, TakeLoop(f) PROVE LoopInv'
<1>1. /\ ref /\ ref' = FALSE /\ lock' = {} /\ To(f, "stop") /\ frame[f] = "locked" /\ "stop" \in Places
      /\ UNCHANGED <<transport, loop, ready, stopping, left, task, future, call, stack, closing>>
  BY DEF TakeLoop, Places, Working, LoopInv, Closers, submits
<1>2. LoopTyped'
  BY <1>1 DEF LoopInv, LoopTyped, To
<1>3. Stacked'
  BY <1>1, StackedInPlace DEF LoopInv
<1>4. Closers'
  BY <1>1 DEF LoopInv, LoopTyped, Closers, WhollyClosed, To, Working
<1>5. Above'
  BY <1>1, AboveInPlace DEF LoopInv, Working
<1>6. Posted'
  BY <1>1, PostedKept DEF LoopInv
<1>7. Swept'
  BY <1>1, ReadsKept DEF LoopInv, ReadsStay
<1>8. QED
  BY <1>2, <1>3, <1>4, <1>5, <1>6, <1>7 DEF LoopInv

LEMMA StopLoopKeeps == ASSUME LoopInv, NEW f \in Frames, StopLoop(f) PROVE LoopInv'
<1> DEFINE cb == [what |-> "stop", of |-> f]
<1>1. /\ ready' = Append(ready, cb) /\ To(f, "join") /\ frame[f] = "stop" /\ "join" \in Places
      /\ UNCHANGED <<transport, ref, loop, stopping, left, task, future, call, lock, stack, closing>>
  BY DEF StopLoop, Places, Working, submits
<1>2. ready \in Seq(Callbacks) /\ cb \in Callbacks /\ cb.what = "stop"
  BY FramesAre DEF LoopInv, LoopTyped, Callbacks
<1> HIDE DEF cb
<1>3. LoopTyped'
  BY <1>1, <1>2, Pushed DEF LoopInv, LoopTyped, To
<1>4. Stacked'
  BY <1>1, StackedInPlace DEF LoopInv
<1>5. Closers'
  BY <1>1 DEF LoopInv, LoopTyped, Closers, WhollyClosed, To, Working
<1>6. Above'
  BY <1>1, AboveInPlace DEF LoopInv, Working
<1>7. Posted'
  <2>1. ~ref /\ ~stopping /\ Stops = {}
    BY <1>1 DEF LoopInv, Closers, Posted
  <2>2. \A g \in Frames : frame'[g] # "stop"
    BY <1>1 DEF LoopInv, LoopTyped, Closers, To, Working
  <2>3. Stops' \subseteq {Len(ready) + 1}
    BY <1>1, <1>2, <2>1, Pushed DEF Stops
  <2>4. QED
    BY <1>1, <2>1, <2>2, <2>3 DEF Posted
<1>8. Swept'
  <2>1. \A i \in DOMAIN ready' : ready'[i].what = "start" => i \in DOMAIN ready /\ ready'[i] = ready[i]
    BY <1>1, <1>2, Pushed
  <2>2. QED
    BY <1>1, <2>1 DEF LoopInv, Swept, Pending
<1>9. QED
  BY <1>3, <1>4, <1>5, <1>6, <1>7, <1>8 DEF LoopInv

LEMMA LeaveKeeps == ASSUME LoopInv, NEW f \in Frames, Leave(f) PROVE LoopInv'
<1>1. frame[f] = "over" /\ Runs(f) /\ UNCHANGED <<transport, ref, loop, ready, stopping, left, task, future, call, closing>>
  BY DEF Leave, OnlyFrame
<1>2. WhollyClosed /\ closing /\ \A g \in Frames : frame[g] \notin Working
  BY <1>1, NoneWorks DEF LoopInv, Closers, WhollyClosed, Working
<1>3. WhollyClosed'
  BY <1>1, <1>2 DEF WhollyClosed
<1>4. Posted' /\ Swept' /\ LoopTyped' /\ Stacked' /\ Closers' /\ Above'
  <2>1. CASE f \in Signals
    <3>1. /\ frame' = [g \in Frames |-> IF g = Main THEN (IF frame[Main] = "serving" THEN "entered" ELSE "exited")
                                        ELSE IF g \in Signals /\ frame[g] # "idle" THEN "left" ELSE frame[g]]
          /\ stack' = <<Main>> /\ lock' = {}
      BY <2>1 DEF Leave
    <3>2. transport # "http" /\ frame[Worker] \in {"idle", "left"}
      BY <1>1, <2>1 DEF LoopInv, LoopTyped, Stacked
    <3>3. \A g \in Frames : g = Main \/ g = Worker \/ g \in Signals
      BY DEF Frames
    <3>4. /\ frame'[Main] \in {"entered", "exited"} /\ frame'[Worker] \in {"idle", "left"}
          /\ \A s \in Signals : frame'[s] \in {"idle", "left"}
      BY <3>1, <3>2, FramesAre
    <3>5. \A g \in Frames : frame'[g] \notin Working \cup {"over", "stop", "locked", "open"}
      BY <3>3, <3>4 DEF Working
    <3>6. LoopTyped'
      <4>1. frame' \in [Frames -> Places]
        BY <3>1 DEF LoopInv, LoopTyped, Places
      <4>2. stack' \in Seq(Frames)
        BY <3>1, FramesAre
      <4>3. QED
        BY <1>1, <3>1, <4>1, <4>2 DEF LoopInv, LoopTyped
    <3>7. stack' # <<>> /\ DOMAIN stack' = {1} /\ stack'[1] = Main
      BY <3>1
    <3>8. Stacked'
      BY <1>1, <3>2, <3>4, <3>7, FramesAre DEF Stacked
    <3>9. Closers'
      BY <1>1, <1>2, <1>3, <3>1, <3>5 DEF LoopInv, Closers, Working
    <3>10. Above'
      BY <3>5, <3>7 DEF Above
    <3>11. Posted' /\ Swept'
      BY <1>1, <3>5, PostedKept, ReadsKept DEF LoopInv, ReadsStay
    <3>12. QED
      BY <3>6, <3>8, <3>9, <3>10, <3>11
  <2>2. CASE f \notin Signals
    <3> DEFINE q == IF f = Main THEN "exited" ELSE "left"
    <3>1. To(f, q) /\ UNCHANGED <<stack, lock>> /\ q \in Places
      BY <2>2 DEF Leave, Places
    <3>2. q # "open" /\ q \notin Working /\ q \notin {"stop", "locked", "over"}
      BY DEF Working
    <3> HIDE DEF q
    <3>3. \A g \in Frames : frame'[g] = IF g = f THEN q ELSE frame[g]
      BY <3>1 DEF LoopInv, LoopTyped, To
    <3>4. LoopTyped'
      BY <1>1, <3>1 DEF LoopInv, LoopTyped, To
    <3>5. Stacked'
      BY <1>1, <2>2, <3>1, StackedInPlace DEF LoopInv
    <3>6. Closers'
      BY <1>1, <1>2, <1>3, <3>1, <3>2, <3>3 DEF LoopInv, Closers, Working
    <3>7. Above'
      BY <1>1, <2>2, <3>1, <3>2, AboveInPlace DEF LoopInv
    <3>8. Posted' /\ Swept'
      BY <1>1, <3>2, <3>3, PostedKept, ReadsKept DEF LoopInv, ReadsStay
    <3>9. QED
      BY <3>4, <3>5, <3>6, <3>7, <3>8
  <2>3. QED
    BY <2>1, <2>2
<1>5. QED
  BY <1>4 DEF LoopInv

LEMMA ServingEnds ==
  ASSUME LoopInv, StopServing \/ LifespanEnds
  PROVE  LoopInv'
<1> DEFINE q == frame'[Main]
           w == frame'[Worker]
<1>1. UNCHANGED <<transport, ref, loop, ready, stopping, left, task, future, call, lock, stack, closing>>
  BY DEF StopServing, LifespanEnds, OnlyFrame
<1>2. /\ frame' = [frame EXCEPT ![Main] = q, ![Worker] = w] /\ frame[Main] \in {"serving", "lifespan"}
      /\ \/ q = "entered" /\ w = frame[Worker] /\ (frame[Main] = "lifespan" => w = "left")
         \/ q = "lifespan" /\ w = "entered" /\ transport = "http"
  BY FramesAre DEF StopServing, LifespanEnds, To, LoopInv, LoopTyped
<1>3. \A f \in Frames : f # Main /\ f # Worker => frame'[f] = frame[f]
  BY <1>2 DEF LoopInv, LoopTyped
<1> HIDE DEF q, w
<1>4. \A f \in Frames : frame'[f] = frame[f] \/ frame'[f] \in {"entered", "lifespan"}
  BY <1>2, <1>3 DEF q, w
<1>5. \A f \in Frames : frame[f] = frame'[f] \/ frame[f] \in {"serving", "lifespan"} \/ f = Worker
  BY <1>2, <1>3
<1>6. LoopTyped'
  <2>1. q \in Places /\ w \in Places
    BY <1>2, FramesAre DEF Places, LoopInv, LoopTyped
  <2>2. QED
    BY <1>1, <1>2, <2>1 DEF LoopInv, LoopTyped
<1>7. Stacked'
  <2>1. \A s \in Signals : frame'[s] = frame[s]
    BY <1>3, FramesAre
  <2>2. frame'[Worker] \notin {"idle", "left"} => transport = "http" /\ frame'[Main] = "lifespan"
    <3>1. frame[Main] = "serving" => frame[Worker] \in {"idle", "left"}
      BY DEF LoopInv, Stacked
    <3>2. QED
      BY <1>2, <3>1 DEF q, w
  <2>3. QED
    BY <1>1, <2>1, <2>2 DEF LoopInv, Stacked
<1>8. frame'[Worker] # frame[Worker] => frame[Worker] \in {"idle", "left"}
  <2>1. frame[Main] = "serving" => frame[Worker] \in {"idle", "left"}
    BY DEF LoopInv, Stacked
  <2>2. QED
    BY <1>2, <2>1 DEF w, StopServing, LifespanEnds, To, OnlyFrame
<1>9. \A f \in Frames : frame'[f] # frame[f] =>
        frame[f] \in {"serving", "lifespan", "idle", "left"} /\ frame'[f] \in {"entered", "lifespan"}
  BY <1>4, <1>5, <1>8
<1>10. Closers'
  BY <1>1, <1>9 DEF LoopInv, Closers, WhollyClosed, Working
<1>11. Above'
  <2>1. \A i \in DOMAIN stack : stack[i] \in Frames
    BY OnStack DEF LoopInv
  <2>2. QED
    BY <1>1, <1>9, <2>1 DEF LoopInv, Above, Working
<1>12. Posted' /\ Swept'
  BY <1>1, <1>9, PostedKept, ReadsKept DEF LoopInv, ReadsStay
<1>13. QED
  BY <1>6, <1>7, <1>10, <1>11, <1>12 DEF LoopInv

LEMMA SignalKeeps == ASSUME LoopInv, NEW s \in Signals, Signal(s) PROVE LoopInv'
<1>1. /\ To(s, "handler") /\ frame[s] = "idle" /\ transport = "stdio" /\ stack' = Append(stack, s)
      /\ UNCHANGED <<transport, ref, loop, ready, stopping, left, task, future, call, lock, closing>>
  BY DEF Signal, OnlyFrame
<1>2. stack \in Seq(Frames) /\ s \in Frames
  BY FramesAre DEF LoopInv, LoopTyped
<1>3. /\ stack' \in Seq(Frames) /\ DOMAIN stack' = DOMAIN stack \cup {Len(stack) + 1} /\ stack'[Len(stack) + 1] = s
      /\ \A i \in DOMAIN stack : stack'[i] = stack[i] /\ i < Len(stack) + 1 /\ stack[i] \in Frames /\ stack[i] # s
  <2>1. \A i \in DOMAIN stack : stack[i] # s
    BY <1>1 DEF LoopInv, Stacked
  <2>2. QED
    BY <1>1, <1>2, <2>1, Pushed, OnStack DEF LoopInv
<1>4. \A f \in Frames : frame'[f] = IF f = s THEN "handler" ELSE frame[f]
  BY <1>1, <1>2 DEF LoopInv, LoopTyped, To
<1>5. LoopTyped'
  BY <1>1, <1>3 DEF LoopInv, LoopTyped, To, Places
<1>6. Stacked'
  <2>1. stack' # <<>> /\ stack'[1] = Main
    <3>1. 1 \in DOMAIN stack /\ 1 \in DOMAIN stack'
      BY <1>3, OnStack DEF LoopInv
    <3>2. stack'[1] = Main
      BY <1>3, <3>1 DEF LoopInv, Stacked
    <3>3. DOMAIN <<>> = {}
      OBVIOUS
    <3>4. QED
      BY <3>1, <3>2, <3>3
  <2>2. \A i \in DOMAIN stack' : i > 1 => stack'[i] \in Signals
    BY <1>3 DEF LoopInv, Stacked
  <2>3. \A i, j \in DOMAIN stack' : stack'[i] = stack'[j] => i = j
    BY <1>3 DEF LoopInv, Stacked
  <2>4. \A r \in Signals : frame'[r] \notin {"idle", "left"} <=> \E i \in DOMAIN stack' : stack'[i] = r
    BY <1>3, <1>4, FramesAre DEF LoopInv, Stacked
  <2>5. QED
    BY <1>1, <1>4, <2>1, <2>2, <2>3, <2>4, FramesAre DEF LoopInv, Stacked
<1>7. Closers'
  BY <1>1, <1>4 DEF LoopInv, Closers, WhollyClosed, Working
<1>8. Above'
  <2>1. \A f \in Frames : frame'[f] \in Working => frame[f] \in Working /\ f # s
    BY <1>4 DEF Working
  <2>2. \A i, j \in DOMAIN stack' : i < j /\ frame'[stack'[i]] \in Working => frame'[stack'[j]] = "handler"
    <3>1. SUFFICES ASSUME NEW i \in DOMAIN stack', NEW j \in DOMAIN stack', i < j, frame'[stack'[i]] \in Working
                   PROVE  frame'[stack'[j]] = "handler"
      OBVIOUS
    <3>2. DOMAIN stack = 1..Len(stack) /\ Len(stack) \in Nat
      BY OnStack DEF LoopInv
    <3>3. i \in DOMAIN stack
      BY <1>3, <3>1, <3>2
    <3>4. frame[stack[i]] \in Working
      BY <1>3, <2>1, <3>1, <3>3
    <3>5. CASE j = Len(stack) + 1
      BY <1>3, <1>2, <1>4, <3>5
    <3>6. CASE j \in DOMAIN stack
      <4>1. frame[stack[j]] = "handler"
        BY <3>1, <3>3, <3>4, <3>6 DEF LoopInv, Above
      <4>2. QED
        BY <1>3, <1>4, <3>6, <4>1
    <3>7. QED
      BY <1>3, <3>5, <3>6
  <2>3. closing => \A f \in Frames : frame'[f] = "open" =>
          \E i, j \in DOMAIN stack' : i < j /\ stack'[i] = f /\ frame'[stack'[j]] \in Working \cup {"over"}
    BY <1>3, <1>4 DEF LoopInv, Above
  <2>4. QED
    BY <1>1, <2>2, <2>3 DEF Above
<1>9. Posted' /\ Swept'
  BY <1>1, <1>4, PostedKept, ReadsKept DEF LoopInv, ReadsStay
<1>10. QED
  BY <1>5, <1>6, <1>7, <1>8, <1>9 DEF LoopInv

LEMMA OnTermKeeps == ASSUME LoopInv, NEW s \in Signals, OnTerm(s) PROVE LoopInv'
<1>1. /\ frame[s] = "handler" /\ Runs(s) /\ s \in Frames /\ s # Worker
      /\ UNCHANGED <<transport, ref, loop, ready, stopping, left, task, future, call, lock, closing>>
  BY FramesAre DEF OnTerm, OnlyFrame
<1>2. stack \in Seq(Frames) /\ stack # <<>> /\ stack[Len(stack)] = s
  BY <1>1, FramesAre DEF LoopInv, LoopTyped, Stacked, Runs
<1>3. \A f \in Frames : f # s => frame'[f] = frame[f]
  BY <1>1 DEF OnTerm, To, LoopInv, LoopTyped
<1>4. frame'[s] = (IF closing THEN "left" ELSE "entered") /\ frame' \in [Frames -> Places]
  BY <1>1 DEF OnTerm, To, LoopInv, LoopTyped, Places
<1>5. \A f \in Frames : frame'[f] # frame[f] => frame[f] = "handler" /\ frame'[f] \in {"left", "entered"}
  BY <1>1, <1>3, <1>4
<1>6. Posted' /\ Swept'
  BY <1>1, <1>5, PostedKept, ReadsKept DEF LoopInv, ReadsStay
<1>7. Closers'
  BY <1>1, <1>5 DEF LoopInv, Closers, WhollyClosed, Working
<1>8. CASE ~closing
  <2>1. stack' = stack
    BY <1>8 DEF OnTerm
  <2>2. LoopTyped'
    BY <1>1, <1>4, <2>1 DEF LoopInv, LoopTyped
  <2>3. Stacked'
    BY <1>1, <1>3, <1>4, <1>8, <2>1, FramesAre DEF LoopInv, Stacked
  <2>4. \A f \in Frames : frame'[f] \notin Working
    BY <1>5, <1>8 DEF LoopInv, Closers, Working
  <2>5. Above'
    BY <1>1, <1>8, <2>1, <2>4, OnStack DEF LoopInv, Above
  <2>6. QED
    BY <1>6, <1>7, <2>2, <2>3, <2>5 DEF LoopInv
<1>9. CASE closing
  <2>1. stack' = SubSeq(stack, 1, Len(stack) - 1)
    BY <1>9 DEF OnTerm
  <2>2. /\ stack' \in Seq(Frames) /\ DOMAIN stack' = DOMAIN stack \ {Len(stack)} /\ Len(stack) \in DOMAIN stack
        /\ \A i \in DOMAIN stack' : stack'[i] = stack[i]
    BY <1>2, <2>1, Dropped
  <2>3. LoopTyped'
    BY <1>1, <1>4, <2>2 DEF LoopInv, LoopTyped
  <2>4. \A i \in DOMAIN stack' : stack'[i] # s
    BY <1>2, <2>2 DEF LoopInv, Stacked
  <2>5. Stacked'
    <3>1. 1 # Len(stack) /\ 1 \in DOMAIN stack
      BY <1>1, <1>2, OnStack, FramesAre DEF LoopInv, Stacked
    <3>2. stack' # <<>> /\ stack'[1] = Main
      <4>1. 1 \in DOMAIN stack' /\ stack'[1] = Main
        BY <2>2, <3>1 DEF LoopInv, Stacked
      <4>2. DOMAIN <<>> = {}
        OBVIOUS
      <4>3. QED
        BY <4>1, <4>2
    <3>3. \A r \in Signals : frame'[r] \notin {"idle", "left"} <=> \E i \in DOMAIN stack' : stack'[i] = r
      <4>1. \A r \in Signals \ {s} : (\E i \in DOMAIN stack' : stack'[i] = r) <=> (\E i \in DOMAIN stack : stack[i] = r)
        BY <1>2, <2>2
      <4>2. QED
        BY <1>3, <1>4, <1>9, <2>4, <4>1, FramesAre DEF LoopInv, Stacked
    <3>4. QED
      BY <1>1, <1>3, <2>2, <3>2, <3>3, FramesAre DEF LoopInv, Stacked
  <2>6. Above'
    <3>1. \A i, j \in DOMAIN stack' : i < j /\ frame'[stack'[i]] \in Working => frame'[stack'[j]] = "handler"
      BY <1>3, <2>2, <2>4, OnStack DEF LoopInv, Above
    <3>2. \A f \in Frames : frame'[f] = "open" =>
            \E i, j \in DOMAIN stack' : i < j /\ stack'[i] = f /\ frame'[stack'[j]] \in Working \cup {"over"}
      <4>1. SUFFICES ASSUME NEW f \in Frames, frame'[f] = "open"
                     PROVE  \E i, j \in DOMAIN stack' : i < j /\ stack'[i] = f /\ frame'[stack'[j]] \in Working \cup {"over"}
        OBVIOUS
      <4>2. f # s /\ frame[f] = "open"
        BY <1>5, <4>1, <1>4, <1>9
      <4>3. PICK i \in DOMAIN stack, j \in DOMAIN stack : i < j /\ stack[i] = f /\ frame[stack[j]] \in Working \cup {"over"}
        BY <1>9, <4>2 DEF LoopInv, Above
      <4>4. stack[j] # s
        BY <1>1, <4>3 DEF Working
      <4>5. i \in DOMAIN stack' /\ j \in DOMAIN stack' /\ stack[j] \in Frames
        BY <1>2, <2>2, <4>2, <4>3, <4>4, OnStack DEF LoopInv
      <4>6. QED
        BY <1>3, <2>2, <4>3, <4>4, <4>5
    <3>3. QED
      BY <3>1, <3>2 DEF Above
  <2>7. QED
    BY <1>6, <1>7, <2>3, <2>5, <2>6 DEF LoopInv
<1>10. QED
  BY <1>8, <1>9

LEMMA LoopStep == LoopInv /\ [LoopNext]_loopVars => LoopInv'
<1> SUFFICES ASSUME LoopInv, [LoopNext]_loopVars PROVE LoopInv'
  OBVIOUS
<1>1. CASE \E c \in Callers : Ask(c)
  BY <1>1, AskKeeps
<1>2. CASE \E t \in Threads : Submit(t) \/ TaskEnds(t)
  BY <1>2, LookKeeps, ScheduleKeeps, AnswerKeeps, TimeOutKeeps, TaskEndsKeeps DEF Submit
<1>3. CASE Callback \/ Sweep \/ Waited \/ CloseLoop
  BY <1>3, CallbackKeeps, SweepKeeps, WaitedKeeps, CloseLoopKeeps
<1>4. CASE StopServing \/ LifespanEnds
  BY <1>4, ServingEnds
<1>5. CASE \E s \in Signals : Signal(s) \/ OnTerm(s)
  BY <1>5, SignalKeeps, OnTermKeeps
<1>6. CASE \E f \in Frames : FrameStep(f)
  BY <1>6, CheckKeeps, MarkKeeps, CloseSourcesKeeps, SourcesClosedKeeps, TakeLockKeeps, TakeLoopKeeps,
     StopLoopKeeps, JoinKeeps, LeaveKeeps DEF FrameStep
<1>7. CASE UNCHANGED loopVars
  <2>1. UNCHANGED <<transport, ref, loop, ready, stopping, left, task, future, call, lock, frame, stack, closing>>
    BY <1>7 DEF loopVars, submits, closes
  <2>2. LoopTyped' /\ Stacked' /\ Closers' /\ Above'
    BY <2>1 DEF LoopInv, LoopTyped, Stacked, Closers, WhollyClosed, Above
  <2>3. Posted' /\ Swept'
    BY <2>1, PostedKept, ReadsKept DEF LoopInv, ReadsStay
  <2>4. QED
    BY <2>2, <2>3 DEF LoopInv
<1>8. QED
  BY <1>1, <1>2, <1>3, <1>4, <1>5, <1>6, <1>7 DEF LoopNext, Exited

LEMMA AtMostOne ==
  ASSUME NEW S, \A x, y \in S : x = y
  PROVE  Cardinality(S) <= 1
<1>1. CASE S = {}
  BY <1>1, FS_EmptySet
<1>2. CASE \E x \in S : TRUE
  <2>1. PICK x \in S : TRUE
    BY <1>2
  <2>2. S = {x}
    BY <2>1
  <2>3. QED
    BY <2>2, FS_Singleton
<1>3. QED
  BY <1>1, <1>2

LEMMA WellClosed == LoopInv => CloseHolds
<1> SUFFICES ASSUME LoopInv PROVE CloseHolds
  OBVIOUS
<1>1. Cardinality({f \in Frames : call[f] # "idle"}) <= 1
  <2>1. \A f, g \in {h \in Frames : call[h] # "idle"} : f = g
    BY DEF LoopInv, Closers
  <2>2. QED
    BY <2>1, AtMostOne
<1>2. Cardinality({i \in DOMAIN ready : ready[i].what = "stop"} \cup {0 : x \in {stopping} \cap {TRUE}}) <= 1
  <2>1. CASE stopping
    <3>1. {i \in DOMAIN ready : ready[i].what = "stop"} = {}
      BY <2>1 DEF LoopInv, Posted, Stops
    <3>2. \A i, j \in {k \in DOMAIN ready : ready[k].what = "stop"} \cup {0 : x \in {stopping} \cap {TRUE}} : i = j
      BY <3>1
    <3>3. QED
      BY <3>2, AtMostOne
  <2>2. CASE ~stopping
    <3>1. {stopping} \cap {TRUE} = {}
      BY <2>2
    <3>2. \A i, j \in {k \in DOMAIN ready : ready[k].what = "stop"} \cup {0 : x \in {stopping} \cap {TRUE}} : i = j
      BY <3>1 DEF LoopInv, Posted, Stops
    <3>3. QED
      BY <3>2, AtMostOne
  <2>3. QED
    BY <2>1, <2>2
<1>3. \A f \in Frames : frame[f] = "loop" /\ Runs(f) => lock = {}
  <2>1. SUFFICES ASSUME NEW f \in Frames, frame[f] = "loop", NEW g \in lock PROVE FALSE
    OBVIOUS
  <2>2. g \in Frames /\ frame[g] = "locked"
    BY <2>1 DEF LoopInv, LoopTyped, Closers
  <2>3. QED
    BY <2>1, <2>2 DEF LoopInv, Closers, Working
<1>4. ExitsClosed
  BY FramesAre DEF LoopInv, Closers, ExitsClosed, WhollyClosed
<1>5. OnlyLateWait
  BY DEF LoopInv, Swept, OnlyLateWait
<1>6. QED
  BY <1>1, <1>2, <1>3, <1>4, <1>5 DEF CloseHolds, ClosesOnce

\* However many signals arrive and wherever they interrupt, the sources are closed and the
\* loop stopped once, no exit comes before the close is whole, and only a read that came
\* late or ignores its cancellation is left waiting (close_context, on_term, _run).
THEOREM CloseHoldsAlways == LoopSpec => []CloseHolds
<1>1. LoopSpec => []LoopInv
  BY LoopBegins, LoopStep, PTL DEF LoopSpec
<1>2. QED
  BY <1>1, WellClosed, PTL
=============================================================================
