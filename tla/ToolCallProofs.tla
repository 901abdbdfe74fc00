--------------------------- MODULE ToolCallProofs ---------------------------
(***************************************************************************)
(* Proofs about ToolCall, for any calls, tools, budget, timeouts, reserves *)
(* and number of slots.                                                    *)
(*                                                                         *)
(* A step of a call changes its own record alone, so the invariant is said *)
(* of one record and the time: Sound.  It is kept by every step of a call  *)
(* (one lemma for each action), and by the passage of time.                *)
(***************************************************************************)
EXTENDS ToolCall, FiniteSetTheorems, TLAPS

-----------------------------------------------------------------------------
(* The inductive invariant *)

\* The one path of profile_table.
ProfilePath == <<"check", "slot", "read", "check", "aggregate">>

\* What is left of a path: the context and the walk come last, the slot is of a profile,
\* and a profile is somewhere on its one path.
Path(tool, s) ==
  /\ s \in Seq(Kinds)
  /\ \A i \in 1..Len(s) : /\ s[i] \in {"context", "walk"} => i = Len(s)
                          /\ s[i] = "slot" => tool = "profile_table"
  /\ tool = "profile_table" => /\ Len(s) <= 5
                               /\ \A i \in 1..Len(s) : s[i] = ProfilePath[i + 5 - Len(s)]

\* Where a call stands says at which step of its path it is.
Placed(r) ==
  /\ r.pc = "reading" => Step(r) \in Statements \cup {"context"}
  /\ r.pc \in {"waiting", "naming"} => Step(r) = "context"
  /\ r.pc = "walking" => Step(r) = "walk"
  /\ r.pc = "foreign" => Step(r) \in {"describers", "plugin"}
  /\ r.pc \in {"advising", "looking"} => r.tool \in Advised
  /\ r.pc = "looking" => r.looks > 0
  /\ r.pc = "raised" => r.tool # "profile_table"
  /\ r.pc \in {"waiting", "naming"} => r.atHand
  /\ r.atHand => r.pc \notin {"idle", "foreign"}
  /\ r.atHand /\ r.pc \in {"running", "reading"} => Step(r) \in {"end", "context", "walk"}

\* A wait ends by the deadline, and a call is marked late once it is.
Timed(r, t) ==
  /\ r.expired => Budget > 0 /\ t >= r.deadline
  /\ r.byCall => Budget > 0 /\ r.stop = r.deadline /\ r.pc \in {"reading", "looking"}
  /\ Budget > 0 /\ r.pc \in Waiting => 0 < r.stop /\ r.stop <= r.deadline /\ t <= r.deadline + Lag
  /\ Budget > 0 /\ r.context > 0 => r.atHand /\ r.context + Lag < r.deadline

\* What comes after the answer is at hand is over, its lag included, before the deadline.
Kept(r, t) ==
  /\ Budget > 0 /\ r.atHand /\ r.pc # "over" =>
       /\ ~r.expired /\ t < r.deadline
       /\ r.pc \in Waiting => r.stop + Lag < r.deadline /\ ~r.byCall
  /\ r.atHand => r.told # "late"

\* What a call will record is what its agent will receive.
Lined(r) ==
  /\ r.pc # "over" => r.told = "none" /\ r.line = NoLine
  /\ r.pc \in {"answering", "advising", "looking"} =>
       r.out # "none" /\ (r.out = "error" => r.cause = Named(r))
  /\ r.told = "data"  => r.out = "data" /\ r.line = [ok |-> TRUE, error |-> "none"]
  /\ r.told = "error" => r.out = "error" /\ r.line = [ok |-> FALSE, error |-> r.cause]
  /\ r.told = "late"  => r.line = [ok |-> FALSE, error |-> "CallTimeout"]
  /\ r.told = "exception" => r.line \in {NoLine, [ok |-> FALSE, error |-> r.cause]}

Sound(r, t) ==
  r \in CallRecord /\ Path(r.tool, r.rest) /\ Placed(r) /\ Timed(r, t) /\ Kept(r, t) /\ Lined(r)

IInv == TypeOK /\ SlotsExact /\ \A c \in Calls : Sound(call[c], now)

\* A step of call c gives its record r, which is sound, holds a slot if c did, and tells
\* an answer in time only.
Keeps(c) ==
  \E r : /\ Becomes(c, r) /\ Sound(r, now) /\ Holds(r) = Holds(call[c])
         /\ r.told \in {"data", "error"} => \/ call[c].told # "none"
                                            \/ ~Over(call[c])

-----------------------------------------------------------------------------
(* Paths and records *)

\* One step further on a path: the context and the walk end it, and a profile goes past
\* its slot there.
LEMMA TailPath ==
  ASSUME NEW tool, NEW s, Path(tool, s), s # <<>>
  PROVE  /\ Path(tool, Tail(s)) /\ Head(s) \in Kinds
         /\ Head(s) \in {"context", "walk"} => Tail(s) = <<>>
         /\ Head(s) = "slot" => tool = "profile_table" /\ ~(Len(s) <= 3) /\ Len(Tail(s)) <= 3
         /\ tool = "profile_table" =>
              /\ Head(s) \in {"check", "slot", "read", "aggregate"}
              /\ Head(s) # "slot" => (Len(Tail(s)) <= 3 <=> Len(s) <= 3)
<1>1. s \in Seq(Kinds) /\ Len(s) \in Nat \ {0}
  BY DEF Path
<1>2. PICK n \in Nat : n + 1 = Len(s)
  BY <1>1
<1>3. Tail(s) \in Seq(Kinds) /\ Len(Tail(s)) = n /\ Head(s) = s[1] /\ s[1] \in Kinds
  BY <1>1, <1>2
<1>4. \A i \in 1..n : Tail(s)[i] = s[i + 1] /\ i + 1 \in 1..(n + 1)
  BY <1>1, <1>2
<1>5. \A i \in 1..(n + 1) : /\ s[i] \in {"context", "walk"} => i = n + 1
                            /\ s[i] = "slot" => tool = "profile_table"
  BY <1>2 DEF Path
<1>6. tool = "profile_table" => /\ n <= 4
                                /\ \A i \in 1..(n + 1) : s[i] = ProfilePath[i + 4 - n]
  <2> SUFFICES ASSUME tool = "profile_table"
               PROVE  n <= 4 /\ \A i \in 1..(n + 1) : s[i] = ProfilePath[i + 4 - n]
    OBVIOUS
  <2>1. n + 1 <= 5 /\ \A i \in 1..(n + 1) : s[i] = ProfilePath[i + 5 - (n + 1)]
    BY <1>2 DEF Path
  <2>2. \A i \in Int : i + 5 - (n + 1) = i + 4 - n
    OBVIOUS
  <2>. QED BY <2>1, <2>2
<1>7. Head(s) \in {"context", "walk"} => Tail(s) = <<>>
  <2>1. Head(s) \in {"context", "walk"} => n = 0
    BY <1>3, <1>5
  <2>. QED BY <1>3, <2>1
<1>8. tool = "profile_table" => /\ Head(s) = "slot" => n = 3
                                /\ Head(s) # "slot" => n # 3
                                /\ Head(s) \in {"check", "slot", "read", "aggregate"}
  <2>1. tool = "profile_table" => n \in 0..4 /\ Head(s) = ProfilePath[1 + 4 - n]
    BY <1>3, <1>6
  <2>. QED BY <2>1 DEF ProfilePath
<1>9. /\ Len(s) <= 3 <=> n <= 2
      /\ Len(Tail(s)) <= 3 <=> n <= 3
  BY <1>2, <1>3
<1>10. Head(s) = "slot" => tool = "profile_table"
  BY <1>3, <1>5
<1>11. \A i \in 1..n : /\ Tail(s)[i] \in {"context", "walk"} => i = n
                       /\ Tail(s)[i] = "slot" => tool = "profile_table"
                       /\ tool = "profile_table" => Tail(s)[i] = ProfilePath[i + 5 - n]
  <2> TAKE i \in 1..n
  <2>1. i \in Int /\ i + 1 \in 1..(n + 1) /\ Tail(s)[i] = s[i + 1] /\ (i + 1) + 4 - n = i + 5 - n
    BY <1>2, <1>4
  <2>2. i + 1 = n + 1 => i = n
    BY <1>2
  <2>. QED BY <1>2, <1>5, <1>6, <2>1, <2>2
<1>12. Path(tool, Tail(s))
  BY <1>3, <1>6, <1>11 DEF Path
<1>. QED BY <1>3, <1>7, <1>8, <1>9, <1>10, <1>12

\* The context and the walk come last in a path, the slot in none but a profile's.
Ends(s) == \A i \in 1..Len(s) : s[i] # "slot" /\ (s[i] \in {"context", "walk"} => i = Len(s))

\* A call begins at the start of a path of its tool, a profile before its slot.
LEMMA BeginPath ==
  ASSUME NEW tool \in Tools, NEW path \in Paths[tool]
  PROVE  Path(tool, path) /\ path # <<>> /\ (tool = "profile_table" => ~(Len(path) <= 3))
<1> DEFINE Good(s) == s \in Seq(Kinds) /\ Ends(s) /\ s # <<>>
<1>1. Good(<<"check", "read">>) /\ Good(<<"check", "read", "visible">>)
  BY DEF Kinds, Ends
<1>2. Good(<<"check", "visible", "read">>)
  BY DEF Kinds, Ends
<1>3. Good(<<"check", "visible", "read", "read", "read", "context">>)
  BY DEF Kinds, Ends
<1>4. Good(<<"check", "visible", "read", "read", "read", "read", "context">>)
  BY DEF Kinds, Ends
<1>5. /\ Good(<<"check", "read", "describers", "context">>)
      /\ Good(<<"check", "read", "describers", "read", "context">>)
  BY DEF Kinds, Ends
<1>6. Good(<<"guard", "read">>) /\ Good(<<"plugin">>)
  BY DEF Kinds, Ends
<1>7. Good(<<"check", "walk">>) /\ Good(<<"check", "read", "walk">>) /\ Good(<<"check", "visible", "walk">>)
  BY DEF Kinds, Ends
<1>8. CASE tool # "profile_table"
  <2> HIDE DEF Good
  <2>1. Good(path)
    BY <1>1, <1>2, <1>3, <1>4, <1>5, <1>6, <1>7, <1>8
       DEF Tools, Paths, ListCatalogs, ListSchemas, ListTables, DescribeSchema, DescribeTable,
           ExplainQuery, ExecuteQuery, Plugin, SearchColumns
  <2>. QED BY <1>8, <2>1 DEF Good, Path, Ends
<1>9. CASE tool = "profile_table"
  <2>1. path = ProfilePath
    BY <1>9 DEF Paths, ProfileTable, ProfilePath
  <2>2. path \in Seq(Kinds) /\ Len(path) = 5
    BY <2>1 DEF Kinds, ProfilePath
  <2>3. \A i \in 1..5 : path[i] \notin {"context", "walk"}
    BY <2>1 DEF ProfilePath
  <2>4. PICK n \in Nat : n = Len(path) /\ n = 5
    BY <2>2
  <2>5. \A i \in 1..n : path[i] = ProfilePath[i + 5 - n]
    BY <2>1, <2>4
  <2>. QED BY <1>9, <2>2, <2>3, <2>4, <2>5 DEF Path
<1>. QED BY <1>8, <1>9

-----------------------------------------------------------------------------
(* What the helpers of the actions do to a sound record *)

\* The constants are counts, and a lag is less than any reserve.
LEMMA Counts ==
  /\ Budget \in Nat /\ QueryTimeout \in Nat /\ ProfileTimeout \in Nat /\ AdviceLookup \in Nat \ {0}
  /\ MaxAdvice \in Nat /\ Lag \in Nat /\ MaxNow \in Nat
  /\ ContextReserve \in Nat /\ SearchReserve \in Nat /\ AdviceReserve \in Nat /\ MaxConcurrent \in Nat
  /\ ContextTimeout \in Nat \ {0}
  /\ Lag < ContextReserve /\ Lag < AdviceReserve /\ Lag < SearchReserve
BY CallAssumption

\* Where a call may stand.
Pcs == Computing \cup Waiting \cup {"idle", "foreign", "over"}

\* The fields the actions change.
LEMMA Update ==
  ASSUME NEW r \in CallRecord
  PROVE  /\ \A x \in Tools : [r EXCEPT !.tool = x] \in CallRecord
         /\ \A x \in Nat : [r EXCEPT !.deadline = x] \in CallRecord
         /\ \A x \in Pcs : [r EXCEPT !.pc = x] \in CallRecord
         /\ \A x \in Seq(Kinds) : [r EXCEPT !.rest = x] \in CallRecord
         /\ \A x \in Int : [r EXCEPT !.stop = x] \in CallRecord
         /\ \A x \in BOOLEAN : [r EXCEPT !.byCall = x] \in CallRecord
         /\ \A x \in BOOLEAN : [r EXCEPT !.expired = x] \in CallRecord
         /\ \A x \in BOOLEAN : [r EXCEPT !.atHand = x] \in CallRecord
         /\ \A x \in Codes : [r EXCEPT !.error = x] \in CallRecord
         /\ \A x \in Codes : [r EXCEPT !.cause = x] \in CallRecord
         /\ \A x \in {"none", "data", "error"} : [r EXCEPT !.out = x] \in CallRecord
         /\ \A x \in Nat : [r EXCEPT !.context = x] \in CallRecord
         /\ \A x \in Nat : [r EXCEPT !.looks = x] \in CallRecord
         /\ \A x \in {"data", "error", "late", "exception"} : [r EXCEPT !.told = x] \in CallRecord
         /\ \A x \in [ok : BOOLEAN, error : Codes] : [r EXCEPT !.line = x] \in CallRecord
<1>1. \A x \in Tools : [r EXCEPT !.tool = x] \in CallRecord
  BY DEF CallRecord, Pcs
<1>2. \A x \in Nat : [r EXCEPT !.deadline = x] \in CallRecord
  BY DEF CallRecord, Pcs
<1>3. \A x \in Pcs : [r EXCEPT !.pc = x] \in CallRecord
  BY DEF CallRecord, Pcs
<1>4. \A x \in Seq(Kinds) : [r EXCEPT !.rest = x] \in CallRecord
  BY DEF CallRecord, Pcs
<1>5. \A x \in Int : [r EXCEPT !.stop = x] \in CallRecord
  BY DEF CallRecord, Pcs
<1>6. \A x \in BOOLEAN : [r EXCEPT !.byCall = x] \in CallRecord
  BY DEF CallRecord, Pcs
<1>7. \A x \in BOOLEAN : [r EXCEPT !.expired = x] \in CallRecord
  BY DEF CallRecord, Pcs
<1>8. \A x \in BOOLEAN : [r EXCEPT !.atHand = x] \in CallRecord
  BY DEF CallRecord, Pcs
<1>9. \A x \in Codes : [r EXCEPT !.error = x] \in CallRecord
  BY DEF CallRecord, Pcs
<1>10. \A x \in Codes : [r EXCEPT !.cause = x] \in CallRecord
  BY DEF CallRecord, Pcs
<1>11. \A x \in {"none", "data", "error"} : [r EXCEPT !.out = x] \in CallRecord
  BY DEF CallRecord, Pcs
<1>12. \A x \in Nat : [r EXCEPT !.context = x] \in CallRecord
  BY DEF CallRecord, Pcs
<1>13. \A x \in Nat : [r EXCEPT !.looks = x] \in CallRecord
  BY DEF CallRecord, Pcs
<1>14. \A x \in {"data", "error", "late", "exception"} : [r EXCEPT !.told = x] \in CallRecord
  BY DEF CallRecord, Pcs
<1>15. \A x \in [ok : BOOLEAN, error : Codes] : [r EXCEPT !.line = x] \in CallRecord
  BY DEF CallRecord, Pcs
<1>. QED BY <1>1, <1>2, <1>3, <1>4, <1>5, <1>6, <1>7, <1>8,
  <1>9, <1>10, <1>11, <1>12, <1>13, <1>14, <1>15

\* The fields of a wait change together.
LEMMA UpdateWait ==
  ASSUME NEW r \in CallRecord, NEW x \in Pcs, NEW y \in Int, NEW b \in BOOLEAN
  PROVE  /\ [r EXCEPT !.pc = x, !.stop = y] \in CallRecord
         /\ [r EXCEPT !.stop = y, !.byCall = b] \in CallRecord
         /\ [r EXCEPT !.pc = x, !.stop = y, !.byCall = b] \in CallRecord
<1> DEFINE r1 == [r EXCEPT !.pc = x]
           r2 == [r1 EXCEPT !.stop = y]
           r3 == [r EXCEPT !.stop = y]
<1>1. r1 \in CallRecord /\ r3 \in CallRecord
  BY Update
<1>2. r2 \in CallRecord
  <2> HIDE DEF r1
  <2>. QED BY <1>1, Update
<1>3. [r2 EXCEPT !.byCall = b] \in CallRecord /\ [r3 EXCEPT !.byCall = b] \in CallRecord
  <2> HIDE DEF r2, r3
  <2>. QED BY <1>1, <1>2, Update
<1>. QED BY <1>2, <1>3

\* A call that has not reached the end of its path is at the first step left of it.
LEMMA StepSort ==
  ASSUME NEW r, Path(r.tool, r.rest)
  PROVE  /\ Step(r) # "end" => r.rest # <<>> /\ Step(r) = Head(r.rest)
         /\ r.rest = <<>> => Step(r) = "end"
         /\ Step(r) = "end" => r.rest = <<>>
BY TailPath DEF Step, Kinds

\* A step is done: the record is sound past it, and a profile holds a slot past that one.
LEMMA ProceedSound ==
  ASSUME now \in Nat, NEW r, Sound(r, now), r.pc \in {"running", "reading", "naming", "walking", "foreign"},
         Step(r) # "end"
  PROVE  /\ Sound(Proceed(r), now) /\ Proceed(r).told = "none"
         /\ Step(r) # "slot" => Holds(Proceed(r)) = Holds(r)
         /\ Step(r) = "slot" => r.tool = "profile_table" /\ ~Holds(r) /\ Holds(Proceed(r))
<1> DEFINE p == Proceed(r)
<1>1. /\ r \in CallRecord /\ Path(r.tool, r.rest) /\ r.rest # <<>> /\ Step(r) = Head(r.rest)
      /\ Placed(r) /\ Timed(r, now) /\ Kept(r, now) /\ Lined(r)
  BY StepSort DEF Sound
<1>2. /\ Path(r.tool, Tail(r.rest))
      /\ Step(r) \in {"context", "walk"} => Tail(r.rest) = <<>>
      /\ Step(r) = "slot" => r.tool = "profile_table" /\ ~(Len(r.rest) <= 3) /\ Len(Tail(r.rest)) <= 3
      /\ r.tool = "profile_table" => (Step(r) # "slot" => (Len(Tail(r.rest)) <= 3 <=> Len(r.rest) <= 3))
  BY <1>1, TailPath
<1>3. p \in CallRecord /\ p.pc = "running" /\ p.rest = Tail(r.rest) /\ p.tool = r.tool
      /\ p.deadline = r.deadline /\ p.expired = r.expired /\ p.error = r.error /\ p.stop = 0
      /\ p.byCall = FALSE /\ p.context = r.context /\ p.looks = r.looks /\ p.out = r.out
      /\ p.told = r.told /\ p.line = r.line /\ p.cause = r.cause /\ p.atHand = r.atHand
  <2>1. Tail(r.rest) \in Seq(Kinds) /\ "running" \in Pcs /\ 0 \in Int /\ FALSE \in BOOLEAN
    BY <1>2 DEF Path, Computing, Pcs
  <2> DEFINE q == [r EXCEPT !.rest = Tail(r.rest)]
  <2>2. q \in CallRecord
    BY <1>1, <2>1, Update
  <2>3. [q EXCEPT !.pc = "running", !.stop = 0, !.byCall = FALSE] \in CallRecord
    <3> HIDE DEF q
    <3>. QED BY <2>1, <2>2, UpdateWait
  <2>4. p = [q EXCEPT !.pc = "running", !.stop = 0, !.byCall = FALSE]
    BY <1>1 DEF Proceed, CallRecord
  <2>5. p \in CallRecord
    BY <2>3, <2>4
  <2>. QED BY <1>1, <2>5 DEF Proceed, CallRecord
<1>. HIDE DEF p
<1>4. p.atHand => Step(p) = "end"
  <2>1. r.atHand => Step(r) \in {"context", "walk"}
    BY <1>1 DEF Placed
  <2>. QED BY <1>2, <1>3, <2>1 DEF Step
<1>5. Placed(p)
  BY <1>3, <1>4 DEF Placed
<1>6. Timed(p, now)
  BY <1>1, <1>3 DEF Timed, Waiting
<1>7. Kept(p, now)
  BY <1>1, <1>3 DEF Kept, Waiting
<1>8. Lined(p) /\ p.told = "none"
  BY <1>1, <1>3 DEF Lined
<1>9. Holds(p) = (p.tool = "profile_table" /\ Len(p.rest) <= 3) /\ Holds(r) = (r.tool = "profile_table" /\ Len(r.rest) <= 3)
  BY <1>1, <1>3 DEF Holds
<1>. QED BY <1>2, <1>3, <1>5, <1>6, <1>7, <1>8, <1>9 DEF Sound, p

\* An error noted is the one the audit line will name.
LEMMA FailSound ==
  ASSUME now \in Nat, NEW r, Sound(r, now), r.pc \in {"running", "reading", "walking"}, NEW code \in Codes \ {"none"}
  PROVE  /\ Sound(Fail(r, code), now) /\ Fail(r, code).told = "none" /\ Holds(Fail(r, code)) = Holds(r)
         /\ Fail(r, code).tool = r.tool
<1> DEFINE f == Fail(r, code)
<1>1. r \in CallRecord /\ Path(r.tool, r.rest) /\ Placed(r) /\ Timed(r, now) /\ Kept(r, now) /\ Lined(r)
  BY DEF Sound
<1>2. f \in CallRecord /\ f.pc = "answering" /\ f.rest = r.rest /\ f.tool = r.tool
      /\ f.deadline = r.deadline /\ f.expired = r.expired /\ f.error = code /\ f.stop = 0
      /\ f.byCall = FALSE /\ f.context = r.context /\ f.out = "error"
      /\ f.told = r.told /\ f.line = r.line /\ f.cause = code /\ f.atHand = r.atHand
  <2>1. "answering" \in Pcs
    BY DEF Computing, Pcs
  <2> DEFINE q1 == [r EXCEPT !.error = code]
             q2 == [q1 EXCEPT !.cause = code]
             q == [q2 EXCEPT !.out = "error"]
  <2>2. code \in Codes /\ q1 \in CallRecord
    BY <1>1, Update
  <2>3. q2 \in CallRecord
    <3> HIDE DEF q1
    <3>. QED BY <2>2, Update
  <2>4. q \in CallRecord
    <3> HIDE DEF q2
    <3>. QED BY <2>3, Update
  <2>5. [q EXCEPT !.pc = "answering", !.stop = 0, !.byCall = FALSE] \in CallRecord
    <3> HIDE DEF q
    <3>1. 0 \in Int /\ FALSE \in BOOLEAN
      OBVIOUS
    <3>. QED BY <2>1, <2>4, <3>1, UpdateWait
  <2>6. f \in CallRecord
    BY <1>1, <2>5, ZenonT(60) DEF Fail, CallRecord
  <2>. QED BY <1>1, <2>6 DEF Fail, CallRecord
<1>. HIDE DEF f
<1>3. Placed(f) /\ Timed(f, now)
  BY <1>1, <1>2 DEF Placed, Timed, Waiting
<1>4. Kept(f, now) /\ Lined(f) /\ f.told = "none"
  BY <1>1, <1>2 DEF Kept, Lined, Waiting, Named
<1>5. Holds(f) = Holds(r)
  BY <1>2 DEF Holds
<1>. QED BY <1>1, <1>2, <1>3, <1>4, <1>5 DEF Sound, f

\* A call that nothing after its answer keeps may be marked late, once it is.
LEMMA ExpireSound ==
  ASSUME now \in Nat, NEW r, Sound(r, now), Budget > 0, now >= r.deadline, ~r.atHand
  PROVE  /\ Sound(Expire(r), now) /\ Expire(r).pc = r.pc /\ Step(Expire(r)) = Step(r)
         /\ Holds(Expire(r)) = Holds(r) /\ Expire(r).told = r.told /\ Expire(r).tool = r.tool
         /\ Expire(r).atHand = r.atHand /\ Expire(r).looks = r.looks
<1> DEFINE e == Expire(r)
<1>1. r \in CallRecord /\ Path(r.tool, r.rest) /\ Placed(r) /\ Timed(r, now) /\ Kept(r, now) /\ Lined(r)
  BY DEF Sound
<1>2. e \in CallRecord /\ e.pc = r.pc /\ e.rest = r.rest /\ e.tool = r.tool
      /\ e.deadline = r.deadline /\ e.expired = TRUE /\ e.error = r.error /\ e.stop = r.stop
      /\ e.byCall = r.byCall /\ e.context = r.context /\ e.out = r.out /\ e.looks = r.looks
      /\ e.told = r.told /\ e.line = r.line /\ e.cause = r.cause /\ e.atHand = r.atHand
  BY <1>1 DEF Expire, CallRecord
<1>. HIDE DEF e
<1>3. Placed(e) /\ Timed(e, now) /\ Step(e) = Step(r)
  BY <1>1, <1>2 DEF Placed, Timed, Step
<1>4. Kept(e, now) /\ Lined(e)
  BY <1>1, <1>2 DEF Kept, Lined, Named
<1>5. Holds(e) = Holds(r)
  BY <1>2 DEF Holds
<1>. QED BY <1>1, <1>2, <1>3, <1>4, <1>5 DEF Sound, e
\* What comes after the answer begins: a call in time is marked, one that was stays it.
LEMMA AtHandSound ==
  ASSUME now \in Nat, NEW r, Sound(r, now),
         \/ r.pc = "running" /\ Step(r) \in {"context", "walk"}
         \/ r.pc = "answering"
         \/ r.pc = "naming"
  PROVE  /\ Sound(AtHand(r), now) /\ AtHand(r).pc = r.pc /\ Step(AtHand(r)) = Step(r)
         /\ Holds(AtHand(r)) = Holds(r) /\ AtHand(r).told = r.told /\ AtHand(r).tool = r.tool
         /\ AtHand(r).context = r.context /\ AtHand(r).deadline = r.deadline
         /\ AtHand(r).stop = r.stop /\ AtHand(r).byCall = r.byCall
         /\ AtHand(r).atHand = (r.atHand \/ ~Over(r))
<1> DEFINE a == AtHand(r)
<1>1. r \in CallRecord /\ Path(r.tool, r.rest) /\ Placed(r) /\ Timed(r, now) /\ Kept(r, now) /\ Lined(r)
  BY DEF Sound
<1>2. r.expired \in BOOLEAN /\ r.atHand \in BOOLEAN /\ r.deadline \in Nat
  BY <1>1 DEF CallRecord
<1>3. a \in CallRecord
  BY <1>1, Update DEF AtHand
<1>4. a.pc = r.pc /\ a.rest = r.rest /\ a.tool = r.tool
      /\ a.deadline = r.deadline /\ a.expired = r.expired /\ a.error = r.error /\ a.stop = r.stop
      /\ a.byCall = r.byCall /\ a.context = r.context /\ a.out = r.out /\ a.looks = r.looks
      /\ a.told = r.told /\ a.line = r.line /\ a.cause = r.cause
  BY <1>1 DEF AtHand, CallRecord
<1>5. a.atHand = (r.atHand \/ ~Over(r))
  BY <1>1 DEF AtHand, CallRecord
<1>. HIDE DEF a
<1>6. Placed(a) /\ Timed(a, now) /\ Step(a) = Step(r)
  BY <1>1, <1>2, <1>4, <1>5 DEF Placed, Timed, Step
<1>7. Kept(a, now) /\ Lined(a)
  <2>1. ~Over(r) => ~r.expired /\ (Budget > 0 => now < r.deadline)
    BY <1>2 DEF Over, Left
  <2>2. r.pc \in Waiting => r.atHand
    BY <1>1 DEF Placed, Waiting
  <2>3. a.told # "late"
    BY <1>1, <1>4 DEF Lined
  <2>. QED BY <1>1, <1>2, <1>4, <1>5, <2>1, <2>2, <2>3 DEF Kept, Lined, Named
<1>8. Holds(a) = Holds(r)
  BY <1>4 DEF Holds
<1>. QED BY <1>1, <1>3, <1>4, <1>5, <1>6, <1>7, <1>8 DEF Sound, a

\* What a statement's time is: within the call's, and its own when it is the shorter.
LEMMA SendTime ==
  ASSUME now \in Nat, NEW r, r \in CallRecord, NEW pc, NEW timeout \in Int,
         Budget > 0 => Left(r) > 0
  PROVE  \E x \in Int, b \in BOOLEAN :
           /\ Send(r, pc, timeout) = [r EXCEPT !.pc = pc, !.stop = x, !.byCall = b]
           /\ b => Budget > 0 /\ x = r.deadline
           /\ Budget > 0 => 0 < x /\ x <= r.deadline
           /\ Budget > 0 /\ 0 < timeout /\ timeout < Left(r) => ~b /\ x <= now + timeout
<1> DEFINE own     == OwnBudget(timeout)
           allowed == TimeAllowed(r, own)
           x       == IF allowed = 0 THEN 0 ELSE now + allowed
<1>1. r.deadline \in Nat /\ Left(r) \in Int /\ Left(r) = r.deadline - now
  BY DEF CallRecord, Left
<1>2. own \in Nat /\ (timeout > 0 => 0 < own /\ own <= timeout)
  BY Counts DEF OwnBudget, Least
<1>. HIDE DEF own
<1>3. /\ allowed \in Int
      /\ Budget = 0 => allowed = own
      /\ Budget > 0 => 0 < allowed /\ allowed <= Left(r)
      /\ Budget > 0 /\ own > 0 => allowed <= own
      /\ Budget > 0 /\ allowed # own => allowed = Left(r)
  BY <1>1, <1>2, Counts DEF TimeAllowed, Least
<1>4. Send(r, pc, timeout) = [r EXCEPT !.pc = pc, !.stop = x, !.byCall = (allowed # own)]
  BY DEF Send, Wait, own
<1>. HIDE DEF allowed
<1>5. x \in Int /\ (Budget > 0 => x = now + allowed)
  BY <1>3
<1>. HIDE DEF x
<1>6. (allowed # own) => Budget > 0 /\ x = r.deadline
  BY <1>1, <1>3, <1>5, Counts
<1>7. Budget > 0 => 0 < x /\ x <= r.deadline
  BY <1>1, <1>3, <1>5
<1>8. Budget > 0 /\ 0 < timeout /\ timeout < Left(r) => allowed = own /\ x <= now + timeout
  BY <1>1, <1>2, <1>3, <1>5
<1>. QED BY <1>4, <1>5, <1>6, <1>7, <1>8
-----------------------------------------------------------------------------
(* Every step of a call but those of its slot keeps its record sound *)

\* A call that goes on past a step keeps its record sound.
LEMMA GoesOn ==
  ASSUME now \in Nat, NEW c, NEW r, Sound(r, now), Becomes(c, Proceed(r)), Step(r) \notin {"end", "slot"},
         r.pc \in {"running", "reading", "naming", "walking", "foreign"}, Holds(r) = Holds(call[c])
  PROVE  Keeps(c)
BY ProceedSound DEF Keeps

\* And one that fails.
LEMMA Fails ==
  ASSUME now \in Nat, NEW c, NEW r, Sound(r, now), NEW code \in Codes \ {"none"}, Becomes(c, Fail(r, code)),
         r.pc \in {"running", "reading", "walking"}, Holds(r) = Holds(call[c])
  PROVE  Keeps(c)
BY FailSound DEF Keeps

\* The checks before the first statement.
LEMMA CheckKeeps ==
  ASSUME now \in Nat, NEW c, Sound(call[c], now), Passes(c) \/ Invalid(c) \/ Refuses(c)
  PROVE  Keeps(c)
<1>1. Step(call[c]) \in {"check", "guard"} /\ call[c].pc = "running"
  BY DEF Passes, Invalid, Refuses, Runs
<1>2. {"ValueError", "read_only"} \subseteq Codes \ {"none"}
  BY DEF Codes
<1>3. CASE Passes(c)
  BY <1>1, <1>3, GoesOn DEF Passes
<1>4. CASE Invalid(c)
  BY <1>1, <1>2, <1>4, Fails DEF Invalid
<1>5. CASE Refuses(c)
  BY <1>1, <1>2, <1>5, Fails DEF Refuses
<1>. QED BY <1>3, <1>4, <1>5

\* An exception that leaves the tool: no profile raises one.
LEMMA EscapeSound ==
  ASSUME now \in Nat, NEW r, Sound(r, now), r.pc \in {"running", "foreign"}, r.tool # "profile_table",
         NEW cause \in Codes
  PROVE  Sound(Escape(r, cause), now) /\ Escape(r, cause).told = "none" /\ Holds(Escape(r, cause)) = Holds(r)
<1> DEFINE e == Escape(r, cause)
<1>1. r \in CallRecord /\ Path(r.tool, r.rest) /\ Placed(r) /\ Timed(r, now) /\ Kept(r, now) /\ Lined(r)
  BY DEF Sound
<1>2. e.pc = "raised" /\ e.rest = r.rest /\ e.tool = r.tool
      /\ e.deadline = r.deadline /\ e.expired = r.expired /\ e.error = r.error /\ e.stop = r.stop
      /\ e.byCall = r.byCall /\ e.context = r.context /\ e.out = r.out
      /\ e.told = r.told /\ e.line = r.line /\ e.cause = cause /\ e.atHand = r.atHand
  BY <1>1 DEF Escape, CallRecord
<1>3. e \in CallRecord
  <2> DEFINE q == [r EXCEPT !.cause = cause]
  <2>1. q \in CallRecord /\ "raised" \in Pcs
    BY <1>1, Update DEF Pcs, Computing
  <2>2. [q EXCEPT !.pc = "raised"] \in CallRecord
    <3> HIDE DEF q
    <3>. QED BY <2>1, Update
  <2>. QED BY <1>1, <2>2 DEF Escape, CallRecord
<1>. HIDE DEF e
<1>4. Placed(e) /\ Timed(e, now)
  BY <1>1, <1>2 DEF Placed, Timed, Waiting
<1>5. Kept(e, now) /\ Lined(e) /\ e.told = "none"
  BY <1>1, <1>2 DEF Kept, Lined, Waiting
<1>6. Holds(e) = Holds(r)
  BY <1>2 DEF Holds
<1>. QED BY <1>1, <1>2, <1>3, <1>4, <1>5, <1>6 DEF Sound, e

\* The guard of execute_query that raises.
LEMMA GuardRaisesKeeps ==
  ASSUME now \in Nat, NEW c, Sound(call[c], now), GuardRaises(c)
  PROVE  Keeps(c)
<1>1. call[c].pc = "running" /\ Step(call[c]) = "guard" /\ Becomes(c, Escape(call[c], "RecursionError"))
  BY DEF GuardRaises, Runs
<1>2. call[c].tool # "profile_table"
  <2>1. Path(call[c].tool, call[c].rest)
    BY DEF Sound
  <2>2. call[c].rest # <<>> /\ Head(call[c].rest) = "guard"
    BY <1>1, <2>1, StepSort
  <2>. QED BY <2>1, <2>2, TailPath
<1>3. "RecursionError" \in Codes
  BY DEF Codes
<1>. QED BY <1>1, <1>2, <1>3, EscapeSound DEF Keeps

\* A statement sent, for the tool, for the advice or for the context.
LEMMA SendKeeps ==
  ASSUME now \in Nat, NEW c, NEW r, Sound(r, now), NEW pc, NEW timeout \in Int,
         Becomes(c, Send(r, pc, timeout)), Budget > 0 => Left(r) > 0, Holds(r) = Holds(call[c]),
         \/ pc = "reading" /\ r.pc = "running" /\ Step(r) \in Statements \cup {"context"}
         \/ pc = "looking" /\ r.pc = "advising" /\ r.looks > 0,
         Budget > 0 /\ r.atHand => 0 < timeout /\ timeout + Lag < Left(r)
  PROVE  Keeps(c)
<1>1. r \in CallRecord /\ Path(r.tool, r.rest) /\ Placed(r) /\ Timed(r, now) /\ Kept(r, now) /\ Lined(r)
  BY DEF Sound
<1>2. PICK x \in Int, b \in BOOLEAN :
        /\ Send(r, pc, timeout) = [r EXCEPT !.pc = pc, !.stop = x, !.byCall = b]
        /\ b => Budget > 0 /\ x = r.deadline
        /\ Budget > 0 => 0 < x /\ x <= r.deadline
        /\ Budget > 0 /\ 0 < timeout /\ timeout < Left(r) => ~b /\ x <= now + timeout
  BY <1>1, SendTime
<1> DEFINE s == [r EXCEPT !.pc = pc, !.stop = x, !.byCall = b]
<1>3. s \in CallRecord
  <2>1. pc \in Pcs
    BY DEF Pcs, Waiting
  <2>. QED BY <1>1, <2>1, UpdateWait
<1>4. s.pc = pc /\ s.rest = r.rest /\ s.tool = r.tool
      /\ s.deadline = r.deadline /\ s.expired = r.expired /\ s.error = r.error /\ s.stop = x
      /\ s.byCall = b /\ s.context = r.context /\ s.out = r.out /\ s.looks = r.looks
      /\ s.told = r.told /\ s.line = r.line /\ s.cause = r.cause /\ s.atHand = r.atHand
  BY <1>1 DEF CallRecord
<1>. HIDE DEF s
<1>5. r.deadline \in Nat /\ Left(r) = r.deadline - now /\ Lag \in Nat /\ Budget \in Nat
  BY <1>1, Counts DEF CallRecord, Left
<1>6. Placed(s)
  <2>1. Step(s) = Step(r)
    BY <1>4 DEF Step
  <2>. QED BY <1>1, <1>4, <2>1 DEF Placed
<1>7. Timed(s, now)
  BY <1>1, <1>2, <1>4, <1>5 DEF Timed
<1>8. Kept(s, now)
  <2>1. Budget > 0 /\ r.atHand => ~b /\ x + Lag < r.deadline
    BY <1>2, <1>5
  <2>. QED BY <1>1, <1>4, <2>1 DEF Kept
<1>9. Lined(s) /\ s.told = "none"
  BY <1>1, <1>4 DEF Lined, Named
<1>10. Holds(s) = Holds(r)
  BY <1>4 DEF Holds
<1>11. Sound(s, now)
  BY <1>1, <1>3, <1>4, <1>6, <1>7, <1>8, <1>9 DEF Sound
<1>. QED BY <1>2, <1>9, <1>10, <1>11 DEF Keeps, s
\* A statement of the tool is sent, or the call has no time left.
LEMMA AskKeeps ==
  ASSUME now \in Nat, NEW c, Sound(call[c], now), Ask(c)
  PROVE  Keeps(c)
<1> DEFINE r == call[c]
<1>1. r \in CallRecord /\ Placed(r) /\ Kept(r, now) /\ r.deadline \in Nat /\ Left(r) = r.deadline - now
  BY DEF Sound, CallRecord, Left
<1>2. r.pc = "running" /\ Step(r) \in Statements /\ ~r.atHand
  BY <1>1 DEF Ask, Placed, Statements
<1>3. CASE Budget > 0 /\ Left(r) <= 0
  <2>1. Sound(Expire(r), now) /\ Expire(r).pc = "running" /\ Holds(Expire(r)) = Holds(r)
    BY <1>1, <1>2, <1>3, ExpireSound
  <2>2. Becomes(c, Fail(Expire(r), "CallTimeout"))
    BY <1>3 DEF Ask
  <2>3. "CallTimeout" \in Codes \ {"none"}
    BY DEF Codes
  <2>. QED BY <2>1, <2>2, <2>3, Fails
<1>4. CASE ~(Budget > 0 /\ Left(r) <= 0)
  <2>1. Becomes(c, Send(r, "reading", Timeout(r)))
    BY <1>4 DEF Ask
  <2>2. Timeout(r) \in Int
    BY <1>1, Counts DEF Timeout
  <2>3. Budget > 0 => Left(r) > 0
    BY <1>1, <1>4
  <2>. QED BY <1>2, <2>1, <2>2, <2>3, SendKeeps
<1>. QED BY <1>3, <1>4

\* A statement of the tool ends, in each of its ways.
LEMMA ReadKeeps ==
  ASSUME now \in Nat, NEW c, Sound(call[c], now), Rows(c) \/ NotVisible(c) \/ Errs(c) \/ Stopped(c)
  PROVE  Keeps(c)
<1> DEFINE r == call[c]
<1>1. r \in CallRecord /\ Placed(r) /\ Timed(r, now) /\ r.pc = "reading" /\ Step(r) \in Statements
  BY DEF Sound, Rows, NotVisible, Errs, Stopped, Reads, Statements
<1>2. {"schema_not_found", "TrinoError", "CallTimeout", "TimeoutError"} \subseteq Codes \ {"none"}
  BY DEF Codes
<1>3. CASE Rows(c)
  BY <1>1, <1>3, GoesOn DEF Rows, Statements
<1>4. CASE NotVisible(c)
  BY <1>1, <1>2, <1>4, Fails DEF NotVisible
<1>5. CASE Errs(c)
  BY <1>1, <1>2, <1>5, Fails DEF Errs
<1>6. CASE Stopped(c)
  <2>1. CASE r.byCall
    <3>1. Budget > 0 /\ now >= r.deadline /\ ~r.atHand
      BY <1>1, <1>6, <2>1 DEF Stopped, Due, Timed, Placed, Statements
    <3>2. Sound(Expire(r), now) /\ Expire(r).pc = "reading" /\ Holds(Expire(r)) = Holds(r)
      BY <1>1, <3>1, ExpireSound
    <3>3. Becomes(c, Fail(Expire(r), "CallTimeout"))
      BY <1>6, <2>1 DEF Stopped
    <3>. QED BY <1>2, <3>2, <3>3, Fails
  <2>2. CASE ~r.byCall
    BY <1>1, <1>2, <1>6, <2>2, Fails DEF Stopped
  <2>. QED BY <2>1, <2>2
<1>. QED BY <1>3, <1>4, <1>5, <1>6

\* A record that only stands elsewhere, waits for nothing, and has looks left.
LEMMA MoveSound ==
  ASSUME now \in Nat, NEW r, Sound(r, now), NEW pc \in {"answering", "advising", "running", "foreign"},
         NEW s \in CallRecord, s.pc = pc, s.rest = r.rest, s.tool = r.tool, s.deadline = r.deadline,
         s.expired = r.expired, s.error = r.error, s.byCall = FALSE, s.context = r.context, s.out = r.out,
         s.told = r.told, s.line = r.line, s.cause = r.cause, s.atHand = r.atHand, r.pc \notin {"idle", "over"},
         pc \in {"answering", "advising"} => r.pc \in {"answering", "advising", "looking"},
         pc = "advising" => r.tool \in Advised,
         pc = "running" /\ r.atHand => Step(r) \in {"end", "context", "walk"},
         pc = "foreign" => ~r.atHand /\ Step(r) \in {"describers", "plugin"}
  PROVE  Sound(s, now) /\ s.told = "none" /\ Holds(s) = Holds(r) /\ Step(s) = Step(r)
<1>1. r \in CallRecord /\ Path(r.tool, r.rest) /\ Placed(r) /\ Timed(r, now) /\ Kept(r, now) /\ Lined(r)
  BY DEF Sound
<1>2. Step(s) = Step(r)
  BY DEF Step
<1>3. Placed(s)
  BY <1>1, <1>2 DEF Placed
<1>4. Timed(s, now)
  BY <1>1 DEF Timed, Waiting
<1>5. Kept(s, now) /\ Lined(s) /\ s.told = "none"
  BY <1>1 DEF Kept, Lined, Waiting, Named
<1>6. Holds(s) = Holds(r)
  BY DEF Holds
<1>. QED BY <1>1, <1>2, <1>3, <1>4, <1>5, <1>6 DEF Sound
\* Only a statement is stopped by the deadline of its call.
LEMMA NotByCall ==
  ASSUME NEW r, NEW t, Sound(r, t), r.pc \notin {"reading", "looking"}
  PROVE  r.byCall = FALSE
<1>1. r.byCall \in BOOLEAN /\ Timed(r, t)
  BY DEF Sound, CallRecord
<1>. QED BY <1>1 DEF Timed

\* An unknown column: its error is at hand when the advice begins.
LEMMA UnknownColumnKeeps ==
  ASSUME now \in Nat, NEW c, Sound(call[c], now), UnknownColumn(c)
  PROVE  Keeps(c)
<1> DEFINE f == Fail(call[c], "COLUMN_NOT_FOUND")
           a == AtHand(f)
<1>1. call[c].pc = "reading" /\ call[c].tool \in Advised
  BY DEF UnknownColumn, Reads
<1>2. "COLUMN_NOT_FOUND" \in Codes \ {"none"}
  BY DEF Codes
<1>3. Sound(f, now) /\ Holds(f) = Holds(call[c]) /\ f.tool = call[c].tool
  BY <1>1, <1>2, FailSound
<1>4. f.pc = "answering"
  BY DEF Fail, Sound, CallRecord
<1>5. Sound(a, now) /\ a.pc = "answering" /\ Holds(a) = Holds(call[c]) /\ a.tool \in Advised
  <2> HIDE DEF f
  <2>. QED BY <1>1, <1>3, <1>4, AtHandSound
<1>6. PICK n \in 0..MaxAdvice : Becomes(c, [a EXCEPT !.pc = "advising", !.looks = n])
  BY DEF UnknownColumn
<1>. HIDE DEF f, a
<1> DEFINE s == [a EXCEPT !.pc = "advising", !.looks = n]
<1>7. s \in CallRecord
  <2> DEFINE q == [a EXCEPT !.pc = "advising"]
  <2>1. "advising" \in Pcs /\ n \in Nat /\ a \in CallRecord
    BY <1>5, Counts DEF Pcs, Computing, Sound
  <2>2. q \in CallRecord
    BY <2>1, Update
  <2>3. [q EXCEPT !.looks = n] \in CallRecord
    <3> HIDE DEF q
    <3>. QED BY <2>1, <2>2, Update
  <2>. QED BY <2>1, <2>3 DEF CallRecord
<1>8. a.byCall = FALSE
  BY <1>5, NotByCall
<1>9. /\ s.pc = "advising" /\ s.rest = a.rest /\ s.tool = a.tool /\ s.deadline = a.deadline
      /\ s.expired = a.expired /\ s.error = a.error /\ s.byCall = FALSE /\ s.context = a.context
      /\ s.out = a.out /\ s.told = a.told /\ s.line = a.line /\ s.cause = a.cause /\ s.atHand = a.atHand
  BY <1>5, <1>8 DEF Sound, CallRecord
<1>. HIDE DEF s
<1>10. Sound(s, now) /\ s.told = "none" /\ Holds(s) = Holds(call[c])
  BY <1>5, <1>7, <1>9, MoveSound
<1>. QED BY <1>6, <1>10 DEF Keeps, s

\* One lookup of the advice less.
LEMMA LookedKeeps ==
  ASSUME now \in Nat, NEW c, NEW r, Sound(r, now), r.pc \in {"advising", "looking"}, r.looks > 0,
         Holds(r) = Holds(call[c]), Becomes(c, Looked(r))
  PROVE  Keeps(c)
<1> DEFINE s == Looked(r)
<1>1. r \in CallRecord /\ Placed(r) /\ r.looks \in Nat /\ r.looks - 1 \in Nat /\ r.tool \in Advised
  BY DEF Sound, CallRecord, Placed
<1>2. s \in CallRecord
  <2> DEFINE q == [r EXCEPT !.looks = r.looks - 1]
  <2>1. "advising" \in Pcs /\ 0 \in Int /\ FALSE \in BOOLEAN
    BY DEF Pcs, Computing
  <2>2. q \in CallRecord
    BY <1>1, Update
  <2>3. [q EXCEPT !.pc = "advising", !.stop = 0, !.byCall = FALSE] \in CallRecord
    <3> HIDE DEF q
    <3>. QED BY <2>1, <2>2, UpdateWait
  <2>. QED BY <1>1, <2>3 DEF Looked, CallRecord
<1>3. /\ s.pc = "advising" /\ s.rest = r.rest /\ s.tool = r.tool /\ s.deadline = r.deadline
      /\ s.expired = r.expired /\ s.error = r.error /\ s.byCall = FALSE /\ s.context = r.context
      /\ s.out = r.out /\ s.told = r.told /\ s.line = r.line /\ s.cause = r.cause /\ s.atHand = r.atHand
  BY <1>1 DEF Looked, CallRecord
<1>. HIDE DEF s
<1>4. Sound(s, now) /\ s.told = "none" /\ Holds(s) = Holds(r)
  BY <1>1, <1>2, <1>3, MoveSound
<1>. QED BY <1>4 DEF Keeps, s

\* The lookups of the advice and its end.
LEMMA AdviceKeeps ==
  ASSUME now \in Nat, NEW c, Sound(call[c], now), Look(c) \/ LookEnds(c) \/ Advise(c)
  PROVE  Keeps(c)
<1> DEFINE r == call[c]
<1>1. r \in CallRecord /\ Placed(r) /\ Timed(r, now) /\ Kept(r, now)
      /\ r.deadline \in Nat /\ Left(r) = r.deadline - now
  BY DEF Sound, CallRecord, Left
<1>2. CASE Look(c)
  <2> DEFINE room == Left(r) - AdviceReserve
  <2>1. r.pc = "advising" /\ r.looks > 0
    BY <1>2 DEF Look
  <2>2. CASE Budget = 0
    <3>1. Becomes(c, Send(r, "looking", AdviceLookup))
      BY <1>2, <2>2 DEF Look
    <3>2. AdviceLookup \in Int
      BY Counts
    <3>. QED BY <2>1, <2>2, <3>1, <3>2, SendKeeps
  <2>3. CASE Budget # 0 /\ room <= 0
    BY <1>2, <2>1, <2>3, LookedKeeps DEF Look
  <2>4. CASE Budget # 0 /\ room > 0
    <3>1. Becomes(c, Send(r, "looking", Least(room, AdviceLookup)))
      BY <1>1, <1>2, <2>4, Counts DEF Look
    <3>2. Least(room, AdviceLookup) \in Int /\ 0 < Least(room, AdviceLookup) /\ Least(room, AdviceLookup) + Lag < Left(r)
          /\ Left(r) > 0
      BY <1>1, <2>4, Counts DEF Least
    <3>. QED BY <2>1, <3>1, <3>2, SendKeeps
  <2>5. room \in Int
    BY <1>1, Counts
  <2>. QED BY <2>2, <2>3, <2>4, <2>5
<1>3. CASE LookEnds(c)
  <2>1. r.pc = "looking" /\ r.looks > 0
    BY <1>1, <1>3 DEF LookEnds, Placed
  <2>2. CASE Due(c) /\ r.byCall
    <3>1. Budget > 0 /\ now >= r.deadline /\ ~r.atHand
      BY <1>1, <2>1, <2>2 DEF Due, Timed, Kept, Waiting
    <3>2. Sound(Expire(r), now) /\ Expire(r).pc = "looking" /\ Expire(r).looks > 0 /\ Holds(Expire(r)) = Holds(r)
      BY <2>1, <3>1, ExpireSound
    <3>3. Becomes(c, Looked(Expire(r)))
      BY <1>3, <2>2 DEF LookEnds
    <3>. QED BY <3>2, <3>3, LookedKeeps
  <2>3. CASE ~(Due(c) /\ r.byCall)
    <3>1. Becomes(c, Looked(r))
      BY <1>3, <2>3 DEF LookEnds
    <3>. QED BY <2>1, <3>1, LookedKeeps
  <2>. QED BY <2>2, <2>3
<1>4. CASE Advise(c)
  <2> DEFINE s == [r EXCEPT !.pc = "answering"]
  <2>1. r.pc = "advising" /\ Becomes(c, s)
    BY <1>4 DEF Advise
  <2>2. s \in CallRecord
    <3>1. "answering" \in Pcs
      BY DEF Pcs, Computing
    <3>. QED BY <1>1, <3>1, Update
  <2>3. r.byCall = FALSE
    BY <2>1, NotByCall
  <2>4. /\ s.pc = "answering" /\ s.rest = r.rest /\ s.tool = r.tool /\ s.deadline = r.deadline
        /\ s.expired = r.expired /\ s.error = r.error /\ s.byCall = FALSE /\ s.context = r.context
        /\ s.out = r.out /\ s.told = r.told /\ s.line = r.line /\ s.cause = r.cause /\ s.atHand = r.atHand
    BY <1>1, <2>3 DEF CallRecord
  <2>. HIDE DEF s
  <2>5. Sound(s, now) /\ s.told = "none" /\ Holds(s) = Holds(r)
    BY <2>1, <2>2, <2>4, MoveSound
  <2>. QED BY <2>1, <2>5 DEF Keeps
<1>. QED BY <1>2, <1>3, <1>4
\* The wait for the context, its terms or a walk: over, its lag included, before the deadline.
LEMMA WaitSound ==
  ASSUME now \in Nat, NEW r, Sound(r, now), r.pc = "running",
         NEW pc, \/ pc \in {"waiting", "naming"} /\ Step(r) = "context"
                 \/ pc = "walking" /\ Step(r) = "walk",
         NEW s \in CallRecord, s.pc = pc, s.rest = r.rest, s.tool = r.tool, s.deadline = r.deadline,
         s.expired = r.expired, s.error = r.error, s.byCall = FALSE, s.out = r.out,
         s.told = r.told, s.line = r.line, s.cause = r.cause, s.atHand = r.atHand,
         s.context = r.context \/ (s.context = s.stop /\ s.atHand),
         pc = "walking" \/ r.atHand,
         Budget > 0 => r.atHand /\ 0 < s.stop /\ s.stop + Lag < r.deadline
  PROVE  Sound(s, now) /\ s.told = "none" /\ Holds(s) = Holds(r)
<1>1. r \in CallRecord /\ Path(r.tool, r.rest) /\ Placed(r) /\ Timed(r, now) /\ Kept(r, now) /\ Lined(r)
      /\ r.deadline \in Nat /\ s.stop \in Int /\ Lag \in Nat
  BY Counts DEF Sound, CallRecord
<1>2. Step(s) = Step(r)
  BY DEF Step
<1>3. Placed(s)
  BY <1>1, <1>2 DEF Placed
<1>4. Timed(s, now)
  BY <1>1 DEF Timed, Kept
<1>5. Kept(s, now) /\ Lined(s) /\ s.told = "none"
  BY <1>1 DEF Kept, Lined, Named
<1>6. Holds(s) = Holds(r)
  BY DEF Holds
<1>. QED BY <1>1, <1>2, <1>3, <1>4, <1>5, <1>6 DEF Sound

\* A wait until x, and the deadline of the context.
Waits(r, pc, x, k) == [r EXCEPT !.pc = pc, !.stop = x, !.byCall = FALSE, !.context = k]

\* A wait that leaves the deadline of the context as it is.
LEMMA SameContext ==
  ASSUME NEW r \in CallRecord, NEW pc, NEW x
  PROVE  [r EXCEPT !.pc = pc, !.stop = x, !.byCall = FALSE] = Waits(r, pc, x, r.context)
BY DEF CallRecord, Waits

\* What a wait changes of a record, and what it leaves.
LEMMA WaitFields ==
  ASSUME NEW r \in CallRecord, NEW pc \in Pcs, NEW x \in Int, NEW k \in Nat, NEW s, s = Waits(r, pc, x, k)
  PROVE  /\ s \in CallRecord /\ s.pc = pc /\ s.stop = x /\ s.byCall = FALSE /\ s.context = k
         /\ s.rest = r.rest /\ s.tool = r.tool /\ s.deadline = r.deadline /\ s.expired = r.expired
         /\ s.error = r.error /\ s.out = r.out /\ s.told = r.told /\ s.line = r.line
         /\ s.cause = r.cause /\ s.atHand = r.atHand
<1> DEFINE q == [r EXCEPT !.context = k]
<1>1. q \in CallRecord /\ FALSE \in BOOLEAN
  BY Update
<1>2. [q EXCEPT !.pc = pc, !.stop = x, !.byCall = FALSE] \in CallRecord
  <2> HIDE DEF q
  <2>. QED BY <1>1, UpdateWait
<1>3. s \in CallRecord
  BY <1>2 DEF CallRecord, Waits
<1>4. s.pc = pc /\ s.stop = x /\ s.byCall = FALSE /\ s.context = k
      /\ s.rest = r.rest /\ s.tool = r.tool /\ s.deadline = r.deadline /\ s.expired = r.expired
      /\ s.error = r.error /\ s.out = r.out /\ s.told = r.told /\ s.line = r.line
      /\ s.cause = r.cause /\ s.atHand = r.atHand
  BY DEF CallRecord, Waits
<1>. QED BY <1>3, <1>4

\* The statements of the filter, and the answer of the chain.
LEMMA GateKeeps ==
  ASSUME now \in Nat, NEW c, Sound(call[c], now), Gate(c) \/ GateEnds(c) \/ ChainAnswers(c)
  PROVE  Keeps(c)
<1> DEFINE r == call[c]
<1>1. r \in CallRecord /\ Placed(r) /\ Timed(r, now) /\ Kept(r, now)
      /\ r.deadline \in Nat /\ Left(r) = r.deadline - now /\ r.context \in Nat
  BY DEF Sound, CallRecord, Left
<1>2. CASE Gate(c)
  <2> DEFINE a == AtHand(r)
             room == Left(a) - ContextReserve
  <2>1. r.pc = "running" /\ Step(r) = "context"
    BY <1>2 DEF Gate, Runs
  <2>2. Sound(a, now) /\ a.pc = "running" /\ Step(a) = "context" /\ Holds(a) = Holds(r) /\ Left(a) = r.deadline - now
    BY <2>1, AtHandSound DEF Left
  <2>3. \/ Budget = 0 /\ Becomes(c, Send(a, "reading", 0))
        \/ Budget # 0 /\ room > 0 /\ Becomes(c, Send(a, "reading", room))
    BY <1>2 DEF Gate
  <2>. HIDE DEF a
  <2>4. CASE Budget = 0 /\ Becomes(c, Send(a, "reading", 0))
    BY <2>2, <2>4, SendKeeps
  <2>5. CASE Budget # 0 /\ room > 0 /\ Becomes(c, Send(a, "reading", room))
    <3>1. room \in Int /\ room + Lag < Left(a) /\ Left(a) > 0
      BY <1>1, <2>2, <2>5, Counts
    <3>. QED BY <2>2, <2>5, <3>1, SendKeeps
  <2>. QED BY <2>3, <2>4, <2>5
<1>3. ASSUME NEW e, Sound(e, now), e.pc \in {"reading", "waiting"}, Step(e) = "context", Holds(e) = Holds(r),
             Becomes(c, [e EXCEPT !.pc = "running", !.stop = 0, !.byCall = FALSE])
      PROVE  Keeps(c)
  <2> DEFINE s == [e EXCEPT !.pc = "running", !.stop = 0, !.byCall = FALSE]
  <2>1. "running" \in Pcs /\ 0 \in Int /\ FALSE \in BOOLEAN /\ e \in CallRecord
    BY <1>3 DEF Pcs, Computing, Sound
  <2>2. s \in CallRecord
    BY <2>1, UpdateWait
  <2>3. /\ s.pc = "running" /\ s.rest = e.rest /\ s.tool = e.tool /\ s.deadline = e.deadline
        /\ s.expired = e.expired /\ s.error = e.error /\ s.byCall = FALSE /\ s.context = e.context
        /\ s.out = e.out /\ s.told = e.told /\ s.line = e.line /\ s.cause = e.cause /\ s.atHand = e.atHand
    BY <2>1 DEF CallRecord
  <2>. HIDE DEF s
  <2>4. Sound(s, now) /\ s.told = "none" /\ Holds(s) = Holds(e)
    BY <1>3, <2>2, <2>3, MoveSound
  <2>. QED BY <1>3, <2>4 DEF Keeps, s
<1>4. CASE GateEnds(c)
  <2>1. r.pc = "reading" /\ Step(r) = "context"
    BY <1>4 DEF GateEnds, Reads
  <2>2. CASE Due(c) /\ r.byCall
    <3>1. Budget > 0 /\ now >= r.deadline /\ ~r.atHand
      BY <1>1, <2>1, <2>2 DEF Due, Timed, Kept, Waiting
    <3>2. Sound(Expire(r), now) /\ Expire(r).pc = "reading" /\ Step(Expire(r)) = "context" /\ Holds(Expire(r)) = Holds(r)
      BY <2>1, <3>1, ExpireSound
    <3>3. Becomes(c, [Expire(r) EXCEPT !.pc = "running", !.stop = 0, !.byCall = FALSE])
      BY <1>4, <2>2 DEF GateEnds
    <3>. QED BY <1>3, <3>2, <3>3
  <2>3. CASE ~(Due(c) /\ r.byCall)
    <3>1. Becomes(c, [r EXCEPT !.pc = "running", !.stop = 0, !.byCall = FALSE])
      BY <1>4, <2>3 DEF GateEnds
    <3>. QED BY <1>3, <2>1, <3>1
  <2>. QED BY <2>2, <2>3
<1>5. CASE ChainAnswers(c)
  <2>1. r.pc = "waiting" /\ Step(r) = "context" /\ r.byCall = FALSE
    BY <1>1, <1>5, NotByCall DEF ChainAnswers, Placed
  <2>2. Becomes(c, [r EXCEPT !.pc = "running", !.stop = 0])
    BY <1>5 DEF ChainAnswers
  <2>3. [r EXCEPT !.pc = "running", !.stop = 0] = [r EXCEPT !.pc = "running", !.stop = 0, !.byCall = FALSE]
    BY <1>1, <2>1 DEF CallRecord
  <2>. QED BY <1>3, <2>1, <2>2, <2>3
<1>. QED BY <1>2, <1>4, <1>5
\* A wait past the answer begins, and the call keeps its record sound.
LEMMA WaitKeeps ==
  ASSUME now \in Nat, NEW c, NEW r, Sound(r, now), r.pc = "running", Holds(r) = Holds(call[c]),
         NEW pc, \/ pc \in {"waiting", "naming"} /\ Step(r) = "context"
                 \/ pc = "walking" /\ Step(r) = "walk",
         pc = "walking" \/ r.atHand, NEW x \in Int, NEW k \in Nat, k = r.context \/ (k = x /\ r.atHand),
         Budget > 0 => r.atHand /\ 0 < x /\ x + Lag < r.deadline,
         Becomes(c, Waits(r, pc, x, k))
  PROVE  Keeps(c)
<1> DEFINE s == Waits(r, pc, x, k)
<1>1. r \in CallRecord /\ pc \in Pcs
  BY DEF Sound, Pcs, Waiting
<1>2. /\ s \in CallRecord /\ s.pc = pc /\ s.stop = x /\ s.byCall = FALSE /\ s.context = k
      /\ s.rest = r.rest /\ s.tool = r.tool /\ s.deadline = r.deadline /\ s.expired = r.expired
      /\ s.error = r.error /\ s.out = r.out /\ s.told = r.told /\ s.line = r.line
      /\ s.cause = r.cause /\ s.atHand = r.atHand
  BY <1>1, WaitFields
<1>. HIDE DEF s
<1>3. Sound(s, now) /\ s.told = "none" /\ Holds(s) = Holds(r)
  BY <1>2, WaitSound
<1>. QED BY <1>3 DEF Keeps, s

\* The context gathered, its terms, and its end.
LEMMA ContextKeeps ==
  ASSUME now \in Nat, NEW c, Sound(call[c], now), Gather(c) \/ ReadTerms(c) \/ ContextEnds(c)
  PROVE  Keeps(c)
<1> DEFINE r == call[c]
           a == AtHand(r)
<1>1. r \in CallRecord /\ Placed(r) /\ Timed(r, now) /\ Kept(r, now) /\ r.deadline \in Nat
      /\ Left(r) = r.deadline - now /\ r.context \in Nat /\ r.atHand \in BOOLEAN /\ r.expired \in BOOLEAN
  BY DEF Sound, CallRecord, Left
<1>2. CASE ContextEnds(c)
  <2>1. /\ Sound(a, now) /\ a.pc \in {"running", "naming"} /\ Step(a) = "context" /\ Holds(a) = Holds(r)
    BY <1>1, <1>2, AtHandSound DEF ContextEnds, Runs, Placed
  <2>2. Becomes(c, Proceed(a))
    BY <1>2 DEF ContextEnds
  <2>. HIDE DEF a
  <2>. QED BY <2>1, <2>2, GoesOn
<1>3. ASSUME r.pc = "running", Step(r) = "context"
      PROVE  /\ Sound(a, now) /\ a \in CallRecord /\ a.pc = "running" /\ Step(a) = "context"
             /\ Holds(a) = Holds(r) /\ a.byCall = FALSE
             /\ a.context = r.context /\ a.deadline = r.deadline /\ a.atHand = (r.atHand \/ ~Over(r))
  <2>1. /\ Sound(a, now) /\ a.pc = "running" /\ Step(a) = "context" /\ Holds(a) = Holds(r)
        /\ a.context = r.context /\ a.deadline = r.deadline /\ a.atHand = (r.atHand \/ ~Over(r))
    BY <1>3, AtHandSound
  <2>. HIDE DEF a
  <2>2. a.byCall = FALSE /\ a \in CallRecord
    BY <2>1, NotByCall DEF Sound
  <2>. QED BY <2>1, <2>2
<1>4. CASE Gather(c)
  <2> DEFINE k == now + ContextTime(r)
  <2>1. r.pc = "running" /\ Step(r) = "context" /\ ContextTime(r) > 0
    BY <1>4 DEF Gather, Runs
  <2>2. ContextTime(r) \in Nat /\ (Budget > 0 => ContextTime(r) + Lag < Left(r))
    BY <1>1, <2>1, Counts DEF ContextTime, Least
  <2>3. ~Over(r)
    BY <1>1, <2>1, <2>2, Counts DEF Over, Timed
  <2>4. k \in Nat /\ 0 < k /\ (Budget > 0 => k + Lag < r.deadline)
    BY <1>1, <2>1, <2>2, Counts
  <2>5. Becomes(c, [Wait(a, "waiting", ContextTime(r), FALSE) EXCEPT !.context = k])
    BY <1>4 DEF Gather
  <2>6. Wait(a, "waiting", ContextTime(r), FALSE) = [a EXCEPT !.pc = "waiting", !.stop = k, !.byCall = FALSE]
    <3>1. ContextTime(r) # 0
      BY <2>1, <2>2
    <3>. QED BY <3>1 DEF Wait
  <2>7. Sound(a, now) /\ a.pc = "running" /\ Step(a) = "context" /\ Holds(a) = Holds(r) /\ a.atHand
        /\ a.deadline = r.deadline
    BY <1>3, <2>1, <2>3
  <2>. HIDE DEF a, k
  <2>8. Becomes(c, Waits(a, "waiting", k, k))
    BY <2>5, <2>6 DEF Waits
  <2>. QED BY <2>4, <2>7, <2>8, WaitKeeps
<1>5. CASE ReadTerms(c)
  <2>1. r.pc = "running" /\ Step(r) = "context" /\ r.context > 0
    BY <1>5 DEF ReadTerms, Runs
  <2>2. r.atHand \/ ~Over(r)
    BY <1>1, <2>1, Counts DEF Over, Timed
  <2>3. Budget > 0 => r.context + Lag < r.deadline
    BY <1>1, <2>1 DEF Timed
  <2>4. Becomes(c, [a EXCEPT !.pc = "naming", !.stop = r.context])
    BY <1>5 DEF ReadTerms
  <2>5. Sound(a, now) /\ a \in CallRecord /\ a.pc = "running" /\ Step(a) = "context" /\ Holds(a) = Holds(r) /\ a.atHand
        /\ a.byCall = FALSE /\ a.context = r.context /\ a.deadline = r.deadline
    BY <1>3, <2>1, <2>2
  <2>. HIDE DEF a
  <2>6. [a EXCEPT !.pc = "naming", !.stop = r.context] = Waits(a, "naming", r.context, r.context)
    BY <2>5 DEF CallRecord, Waits
  <2>. QED BY <1>1, <2>1, <2>3, <2>4, <2>5, <2>6, WaitKeeps
<1>. QED BY <1>2, <1>4, <1>5

\* The walk of a search.
LEMMA WalkKeeps ==
  ASSUME now \in Nat, NEW c, Sound(call[c], now), Walk(c) \/ WalkEnds(c)
  PROVE  Keeps(c)
<1> DEFINE r == call[c]
           a == AtHand(r)
           room == Left(r) - SearchReserve
<1>1. r \in CallRecord /\ Placed(r) /\ Timed(r, now) /\ r.deadline \in Nat
      /\ Left(r) = r.deadline - now /\ r.context \in Nat /\ room \in Int
  BY Counts DEF Sound, CallRecord, Left
<1>2. CASE WalkEnds(c)
  <2>1. r.pc = "walking" /\ Step(r) = "walk" /\ "TrinoError" \in Codes \ {"none"}
    BY <1>1, <1>2 DEF WalkEnds, Placed, Codes
  <2>. QED BY <1>2, <2>1, GoesOn, Fails DEF WalkEnds
<1>3. CASE Walk(c)
  <2>1. r.pc = "running" /\ Step(r) = "walk"
    BY <1>3 DEF Walk, Runs
  <2>2. CASE Budget = 0
    <3>1. Becomes(c, Wait(r, "walking", 0, FALSE))
      BY <1>3, <2>2 DEF Walk
    <3>2. Wait(r, "walking", 0, FALSE) = Waits(r, "walking", 0, r.context)
      <4>1. Wait(r, "walking", 0, FALSE) = [r EXCEPT !.pc = "walking", !.stop = 0, !.byCall = FALSE]
        BY DEF Wait
      <4>. QED BY <1>1, <4>1, SameContext
    <3>3. Becomes(c, Waits(r, "walking", 0, r.context))
      BY <3>1, <3>2, Zenon
    <3>4. 0 \in Int /\ ~(Budget > 0)
      BY <2>2
    <3>. QED BY <1>1, <2>1, <3>3, <3>4, WaitKeeps
  <2>3. CASE Budget # 0 /\ room <= 0
    <3>1. Becomes(c, Proceed(r))
      BY <1>3, <2>3 DEF Walk
    <3>. QED BY <2>1, <3>1, GoesOn
  <2>4. CASE Budget # 0 /\ room > 0
    <3>1. Becomes(c, Wait(a, "walking", room, FALSE))
      <4>1. ~(room <= 0) /\ room # 0
        BY <1>1, <2>4
      <4>. QED BY <1>3, <2>4, <4>1, Zenon DEF Walk
    <3>2. ~Over(r) /\ r.deadline = now + room + SearchReserve
      BY <1>1, <2>4, Counts DEF Over, Timed
    <3>3. Sound(a, now) /\ a.pc = "running" /\ Step(a) = "walk" /\ Holds(a) = Holds(r) /\ a.atHand
          /\ a.context = r.context /\ a.deadline = r.deadline
      BY <2>1, <3>2, AtHandSound
    <3>. HIDE DEF a
    <3>4. Wait(a, "walking", room, FALSE) = Waits(a, "walking", now + room, r.context)
      <4>1. a \in CallRecord /\ room # 0
        BY <1>1, <2>4, <3>3 DEF Sound
      <4>2. Wait(a, "walking", room, FALSE) = [a EXCEPT !.pc = "walking", !.stop = now + room, !.byCall = FALSE]
        BY <4>1 DEF Wait
      <4>3. [a EXCEPT !.pc = "walking", !.stop = now + room, !.byCall = FALSE]
              = Waits(a, "walking", now + room, a.context)
        BY <4>1, SameContext
      <4>. HIDE DEF room
      <4>. QED BY <3>3, <4>2, <4>3, Zenon
    <3>5. now + room \in Int /\ 0 < now + room /\ now + room + Lag < r.deadline
      BY <1>1, <2>4, <3>2, Counts
    <3>. QED BY <1>1, <3>1, <3>3, <3>4, <3>5, WaitKeeps
  <2>. QED BY <1>1, <2>2, <2>3, <2>4
<1>. QED BY <1>2, <1>3
\* What foreign code leaves in the record of its call.
LEMMA ForeignSound ==
  ASSUME now \in Nat, NEW r, Sound(r, now), r.pc = "foreign", NEW s \in ForeignTrace(r)
  PROVE  /\ Sound(s, now) /\ s.pc = "foreign" /\ Step(s) = Step(r) /\ Holds(s) = Holds(r) /\ s.tool = r.tool
<1>1. r \in CallRecord /\ Path(r.tool, r.rest) /\ Placed(r) /\ Timed(r, now) /\ Kept(r, now) /\ Lined(r)
      /\ r.deadline \in Nat /\ Left(r) = r.deadline - now /\ r.expired \in BOOLEAN /\ r.error \in Codes
  BY DEF Sound, CallRecord, Left
<1>2. PICK e \in {r.error, "foreign"}, x \in {r.expired, r.expired \/ (Budget > 0 /\ Left(r) <= 0)} :
        s = [r EXCEPT !.error = e, !.expired = x]
  BY DEF ForeignTrace
<1>3. e \in Codes /\ x \in BOOLEAN
  BY <1>1, <1>2 DEF Codes
<1>4. x => Budget > 0 /\ now >= r.deadline
  <2>1. r.expired => Budget > 0 /\ now >= r.deadline
    BY <1>1 DEF Timed
  <2>2. Budget > 0 /\ Left(r) <= 0 => Budget > 0 /\ now >= r.deadline
    BY <1>1
  <2>. QED BY <1>2, <2>1, <2>2, Zenon
<1>5. s \in CallRecord
  <2> DEFINE q == [r EXCEPT !.error = e]
  <2>1. q \in CallRecord
    BY <1>1, <1>3, Update
  <2>2. [q EXCEPT !.expired = x] \in CallRecord
    <3> HIDE DEF q
    <3>. QED BY <1>3, <2>1, Update
  <2>. QED BY <1>1, <1>2, <2>2 DEF CallRecord
<1>6. /\ s.pc = "foreign" /\ s.rest = r.rest /\ s.tool = r.tool
      /\ s.deadline = r.deadline /\ s.expired = x /\ s.error = e /\ s.stop = r.stop
      /\ s.byCall = r.byCall /\ s.context = r.context /\ s.out = r.out /\ s.looks = r.looks
      /\ s.told = r.told /\ s.line = r.line /\ s.cause = r.cause /\ s.atHand = r.atHand
  BY <1>1, <1>2 DEF CallRecord
<1>7. Step(s) = Step(r) /\ Holds(s) = Holds(r)
  BY <1>6 DEF Step, Holds
<1>8. Placed(s) /\ Timed(s, now)
  BY <1>1, <1>4, <1>6, <1>7 DEF Placed, Timed
<1>9. Kept(s, now) /\ Lined(s)
  <2>1. ~r.atHand
    BY <1>1 DEF Placed
  <2>. QED BY <1>1, <1>6, <2>1 DEF Kept, Lined
<1>. QED BY <1>1, <1>5, <1>6, <1>7, <1>8, <1>9 DEF Sound

\* An answer with an "error" of foreign code in it.
LEMMA ErrorKeySound ==
  ASSUME now \in Nat, NEW r, Sound(r, now), r.pc = "running"
  PROVE  LET s == [r EXCEPT !.out = "error"]
         IN  Sound(s, now) /\ s.told = "none" /\ Holds(s) = Holds(r)
<1> DEFINE s == [r EXCEPT !.out = "error"]
<1>1. r \in CallRecord /\ Path(r.tool, r.rest) /\ Placed(r) /\ Timed(r, now) /\ Kept(r, now) /\ Lined(r)
  BY DEF Sound
<1>2. /\ s \in CallRecord /\ s.pc = "running" /\ s.rest = r.rest /\ s.tool = r.tool
      /\ s.deadline = r.deadline /\ s.expired = r.expired /\ s.error = r.error /\ s.stop = r.stop
      /\ s.byCall = r.byCall /\ s.context = r.context /\ s.looks = r.looks
      /\ s.told = r.told /\ s.line = r.line /\ s.cause = r.cause /\ s.atHand = r.atHand
  BY <1>1 DEF CallRecord
<1>. HIDE DEF s
<1>3. Step(s) = Step(r) /\ Holds(s) = Holds(r)
  BY <1>2 DEF Step, Holds
<1>4. Placed(s) /\ Timed(s, now)
  BY <1>1, <1>2, <1>3 DEF Placed, Timed
<1>5. Kept(s, now) /\ Lined(s) /\ s.told = "none"
  BY <1>1, <1>2 DEF Kept, Lined, Waiting
<1>6. Sound(s, now) /\ s.told = "none" /\ Holds(s) = Holds(r)
  BY <1>1, <1>2, <1>3, <1>4, <1>5 DEF Sound
<1>. QED BY <1>6 DEF s

\* The describers and the plugins.
LEMMA ForeignKeeps ==
  ASSUME now \in Nat, NEW c, Sound(call[c], now), Foreign(c) \/ Described(c) \/ PluginEnds(c)
  PROVE  Keeps(c)
<1> DEFINE r == call[c]
<1>1. r \in CallRecord /\ Placed(r) /\ Path(r.tool, r.rest)
  BY DEF Sound
<1>2. CASE Foreign(c)
  <2> DEFINE s == [r EXCEPT !.pc = "foreign"]
  <2>1. r.pc = "running" /\ Step(r) \in {"describers", "plugin"} /\ ~r.atHand /\ Becomes(c, s)
    BY <1>1, <1>2 DEF Foreign, Runs, Placed
  <2>2. r.byCall = FALSE /\ "foreign" \in Pcs
    BY <2>1, NotByCall DEF Pcs
  <2>3. /\ s \in CallRecord /\ s.pc = "foreign" /\ s.rest = r.rest /\ s.tool = r.tool
        /\ s.deadline = r.deadline /\ s.expired = r.expired /\ s.error = r.error
        /\ s.byCall = FALSE /\ s.context = r.context /\ s.out = r.out
        /\ s.told = r.told /\ s.line = r.line /\ s.cause = r.cause /\ s.atHand = r.atHand
    <3>1. s \in CallRecord
      BY <1>1, <2>2, Update
    <3>. QED BY <1>1, <2>2, <3>1 DEF CallRecord
  <2>. HIDE DEF s
  <2>4. Sound(s, now) /\ s.told = "none" /\ Holds(s) = Holds(r)
    BY <2>1, <2>3, MoveSound
  <2>. QED BY <2>1, <2>4 DEF Keeps
<1>3. ASSUME NEW e \in ForeignTrace(r), r.pc = "foreign", Step(r) \in {"describers", "plugin"}
      PROVE  /\ Becomes(c, Proceed(e)) => Keeps(c)
             /\ Becomes(c, [Proceed(e) EXCEPT !.out = "error"]) => Keeps(c)
  <2>1. Sound(e, now) /\ e.pc = "foreign" /\ Step(e) = Step(r) /\ Holds(e) = Holds(r)
    BY <1>3, ForeignSound
  <2>2. Sound(Proceed(e), now) /\ Holds(Proceed(e)) = Holds(r)
    BY <1>3, <2>1, ProceedSound
  <2>3. Proceed(e).pc = "running"
    BY <2>1 DEF Proceed, Sound, CallRecord
  <2>4. Becomes(c, Proceed(e)) => Keeps(c)
    BY <1>3, <2>1, GoesOn
  <2>5. Becomes(c, [Proceed(e) EXCEPT !.out = "error"]) => Keeps(c)
    BY <2>2, <2>3, ErrorKeySound DEF Keeps
  <2>. QED BY <2>4, <2>5
<1>4. CASE Described(c)
  BY <1>3, <1>4 DEF Described
<1>5. CASE PluginEnds(c)
  <2>1. r.pc = "foreign" /\ Step(r) = "plugin"
    BY <1>5 DEF PluginEnds
  <2>2. PICK e \in ForeignTrace(r) : \/ Becomes(c, Proceed(e))
                                     \/ Becomes(c, [Proceed(e) EXCEPT !.out = "error"])
                                     \/ Becomes(c, Escape(e, "PluginError"))
    BY <1>5 DEF PluginEnds
  <2>3. CASE Becomes(c, Escape(e, "PluginError"))
    <3>1. r.rest # <<>> /\ Head(r.rest) = "plugin"
      BY <1>1, <2>1, StepSort
    <3>2. r.tool # "profile_table"
      BY <1>1, <3>1, TailPath
    <3>3. Sound(e, now) /\ e.pc = "foreign" /\ Holds(e) = Holds(r) /\ e.tool # "profile_table"
      BY <2>1, <2>2, <3>2, ForeignSound
    <3>4. "PluginError" \in Codes
      BY DEF Codes
    <3>. QED BY <2>3, <3>3, <3>4, EscapeSound DEF Keeps
  <2>. QED BY <1>3, <2>1, <2>2, <2>3
<1>. QED BY <1>2, <1>4, <1>5
-----------------------------------------------------------------------------
(* The answer, the beginning, and the slot *)

\* The tool returns, or what it has cannot be written.
LEMMA ReturnKeeps ==
  ASSUME now \in Nat, NEW c, Sound(call[c], now), Return(c) \/ Unserialisable(c)
  PROVE  Keeps(c)
<1> DEFINE r == call[c]
<1>1. r \in CallRecord /\ Path(r.tool, r.rest) /\ Placed(r) /\ Timed(r, now) /\ Kept(r, now) /\ Lined(r)
      /\ r.error \in Codes /\ r.pc = "running"
  BY DEF Sound, CallRecord, Return, Unserialisable, Runs
<1>2. CASE Return(c)
  <2>1. Named(r) \in Codes /\ "answering" \in Pcs /\ r.byCall = FALSE
    BY <1>1, NotByCall DEF Named, Codes, Pcs, Computing
  <2>2. ASSUME NEW s \in CallRecord, s.pc = "answering", s.rest = r.rest, s.tool = r.tool, s.deadline = r.deadline,
               s.expired = r.expired, s.error = r.error, s.byCall = FALSE, s.context = r.context,
               s.told = r.told, s.line = r.line, s.atHand = r.atHand,
               s.out \in {"data", "error"}, s.out = "error" => s.cause = Named(r), Becomes(c, s)
        PROVE  Keeps(c)
    <3>1. Placed(s) /\ Timed(s, now)
      BY <1>1, <2>2 DEF Placed, Timed, Waiting
    <3>2. Kept(s, now) /\ Lined(s) /\ s.told = "none"
      BY <1>1, <2>2 DEF Kept, Lined, Waiting, Named
    <3>3. Holds(s) = Holds(r)
      BY <1>1, <2>2 DEF Holds
    <3>4. Sound(s, now)
      BY <1>1, <2>2, <3>1, <3>2 DEF Sound
    <3>. QED BY <2>2, <3>2, <3>3, <3>4 DEF Keeps
  <2>3. CASE r.out = "error"
    <3> DEFINE q == [r EXCEPT !.cause = Named(r)]
               s == [r EXCEPT !.pc = "answering", !.cause = Named(r)]
    <3>1. q \in CallRecord
      BY <1>1, <2>1, Update
    <3>2. [q EXCEPT !.pc = "answering"] \in CallRecord
      <4> HIDE DEF q
      <4>. QED BY <2>1, <3>1, Update
    <3>3. s \in CallRecord
      BY <1>1, <3>2 DEF CallRecord
    <3>4. /\ s.pc = "answering" /\ s.rest = r.rest /\ s.tool = r.tool /\ s.deadline = r.deadline
          /\ s.expired = r.expired /\ s.error = r.error /\ s.byCall = FALSE /\ s.context = r.context
          /\ s.told = r.told /\ s.line = r.line /\ s.atHand = r.atHand /\ s.out = "error" /\ s.cause = Named(r)
      BY <1>1, <2>1, <2>3 DEF CallRecord
    <3>5. Becomes(c, s)
      BY <1>2, <2>3 DEF Return
    <3>. HIDE DEF s
    <3>. QED BY <2>2, <3>3, <3>4, <3>5
  <2>4. CASE r.out # "error"
    <3> DEFINE q == [r EXCEPT !.out = "data"]
               s == [r EXCEPT !.pc = "answering", !.out = "data"]
    <3>1. q \in CallRecord
      BY <1>1, Update
    <3>2. [q EXCEPT !.pc = "answering"] \in CallRecord
      <4> HIDE DEF q
      <4>. QED BY <2>1, <3>1, Update
    <3>3. s \in CallRecord
      BY <1>1, <3>2 DEF CallRecord
    <3>4. /\ s.pc = "answering" /\ s.rest = r.rest /\ s.tool = r.tool /\ s.deadline = r.deadline
          /\ s.expired = r.expired /\ s.error = r.error /\ s.byCall = FALSE /\ s.context = r.context
          /\ s.told = r.told /\ s.line = r.line /\ s.atHand = r.atHand /\ s.out = "data"
      BY <1>1, <2>1 DEF CallRecord
    <3>5. Becomes(c, s)
      BY <1>2, <2>4 DEF Return
    <3>. HIDE DEF s
    <3>. QED BY <2>2, <3>3, <3>4, <3>5
  <2>. QED BY <2>3, <2>4
<1>3. CASE Unserialisable(c)
  <2>1. "TypeError" \in Codes \ {"none"} /\ "TypeError" \in Codes
    BY DEF Codes
  <2>2. CASE r.tool = "execute_query"
    <3>1. Becomes(c, Escape(r, "TypeError"))
      BY <1>3, <2>2 DEF Unserialisable
    <3>. QED BY <1>1, <2>1, <2>2, <3>1, EscapeSound DEF Keeps
  <2>3. CASE r.tool # "execute_query"
    <3>1. Becomes(c, Fail(r, "TypeError"))
      BY <1>3, <2>3 DEF Unserialisable
    <3>. QED BY <1>1, <2>1, <3>1, Fails
  <2>. QED BY <2>2, <2>3
<1>. QED BY <1>2, <1>3

\* The two records a call may end with: its line left, or the sink's exception.
LEMMA ToldSound ==
  ASSUME now \in Nat, NEW r, Sound(r, now), r.pc \in {"answering", "raised"},
         NEW told \in {"data", "error", "late", "exception"}, NEW ok \in BOOLEAN, NEW error \in Codes,
         told = "data" => r.out = "data" /\ ok = TRUE /\ error = "none",
         told = "error" => r.out = "error" /\ ok = FALSE /\ error = r.cause,
         told = "late" => ~r.atHand /\ ok = FALSE /\ error = "CallTimeout",
         told = "exception" => ok = FALSE /\ error = r.cause,
         NEW s \in Told(r, told, ok, error)
  PROVE  Sound(s, now) /\ ~Holds(s) /\ s.told \in {told, "exception"}
<1>1. r \in CallRecord /\ Path(r.tool, r.rest) /\ Placed(r) /\ Timed(r, now) /\ Kept(r, now) /\ Lined(r)
      /\ r.line = NoLine
  BY DEF Sound, Lined
<1>2. /\ s \in CallRecord /\ s.pc = "over" /\ s.rest = r.rest /\ s.tool = r.tool
      /\ s.deadline = r.deadline /\ s.expired = r.expired /\ s.error = r.error /\ s.stop = r.stop
      /\ s.byCall = r.byCall /\ s.context = r.context /\ s.out = r.out /\ s.looks = r.looks
      /\ s.cause = r.cause /\ s.atHand = r.atHand
      /\ \/ s.told = told /\ s.line = [ok |-> ok, error |-> error]
         \/ s.told = "exception" /\ s.line = NoLine
  <2> DEFINE line == [ok |-> ok, error |-> error]
             q == [r EXCEPT !.pc = "over"]
             e == [q EXCEPT !.told = "exception"]
             p == [q EXCEPT !.told = told]
             t == [p EXCEPT !.line = line]
  <2>1. "over" \in Pcs /\ line \in [ok : BOOLEAN, error : Codes]
    BY DEF Pcs
  <2>2. q \in CallRecord
    BY <1>1, <2>1, Update
  <2>3. e \in CallRecord /\ p \in CallRecord
    <3> HIDE DEF q
    <3>. QED BY <2>2, Update
  <2>4. t \in CallRecord
    <3> HIDE DEF p, line
    <3>. QED BY <2>1, <2>3, Update
  <2>5. CASE s = [r EXCEPT !.pc = "over", !.told = told, !.line = line]
    <3>1. s \in CallRecord
      BY <1>1, <2>4, <2>5 DEF CallRecord
    <3>. QED BY <1>1, <2>5, <3>1 DEF CallRecord
  <2>6. CASE s = [r EXCEPT !.pc = "over", !.told = "exception"]
    <3>1. s \in CallRecord
      BY <1>1, <2>3, <2>6 DEF CallRecord
    <3>. QED BY <1>1, <2>6, <3>1 DEF CallRecord
  <2>. QED BY <2>5, <2>6 DEF Told
<1>3. Placed(s) /\ Timed(s, now)
  BY <1>1, <1>2 DEF Placed, Timed, Waiting
<1>4. Kept(s, now)
  BY <1>1, <1>2 DEF Kept
<1>5. Lined(s)
  BY <1>1, <1>2 DEF Lined
<1>6. ~Holds(s)
  BY <1>2 DEF Holds
<1>. QED BY <1>1, <1>2, <1>3, <1>4, <1>5, <1>6 DEF Sound
\* The answer of a call in time, its error, or that it is late.
LEMMA AnswerSound ==
  ASSUME now \in Nat, NEW r, Sound(r, now), r.pc = "answering", NEW s \in Returned(r)
  PROVE  Sound(s, now) /\ ~Holds(s) /\ (s.told \in {"data", "error"} => ~Over(r))
<1>1. r \in CallRecord /\ Timed(r, now) /\ Kept(r, now) /\ Lined(r) /\ r.deadline \in Nat
      /\ Left(r) = r.deadline - now /\ r.out \in {"data", "error"} /\ r.error \in Codes
  BY DEF Sound, CallRecord, Left, Lined
<1>2. {"CallTimeout", "none"} \subseteq Codes /\ Named(r) \in Codes
  BY <1>1 DEF Codes, Named
<1>3. TRUE \in BOOLEAN /\ FALSE \in BOOLEAN
  OBVIOUS
<1>4. CASE Over(r)
  <2> DEFINE e == Expire(r)
  <2>1. Budget > 0 /\ now >= r.deadline /\ ~r.atHand
    BY <1>1, <1>4, Counts DEF Over, Timed, Kept
  <2>2. Sound(e, now) /\ e.pc = "answering" /\ e.atHand = r.atHand
    BY <2>1, ExpireSound
  <2>3. s \in Told(e, "late", FALSE, "CallTimeout")
    BY <1>4 DEF Returned
  <2>. HIDE DEF e
  <2>4. Sound(s, now) /\ ~Holds(s) /\ s.told \in {"late", "exception"}
    BY <1>2, <1>3, <2>1, <2>2, <2>3, ToldSound
  <2>. QED BY <2>4
<1>5. CASE ~Over(r) /\ r.out = "error"
  <2>1. s \in Told(r, "error", FALSE, Named(r)) /\ Named(r) = r.cause
    BY <1>1, <1>5 DEF Returned, Lined
  <2>2. Sound(s, now) /\ ~Holds(s) /\ s.told \in {"error", "exception"}
    BY <1>2, <1>3, <1>5, <2>1, ToldSound
  <2>. QED BY <1>5, <2>2
<1>6. CASE ~Over(r) /\ r.out = "data"
  <2>1. s \in Told(r, "data", TRUE, "none")
    BY <1>6 DEF Returned
  <2>2. Sound(s, now) /\ ~Holds(s) /\ s.told \in {"data", "exception"}
    BY <1>2, <1>3, <1>6, <2>1, ToldSound
  <2>. QED BY <1>6, <2>2
<1>. QED BY <1>1, <1>4, <1>5, <1>6

\* An exception that leaves the tool is recorded and goes on.
LEMMA RaiseKeeps ==
  ASSUME now \in Nat, NEW c, Sound(call[c], now), Raise(c)
  PROVE  Keeps(c)
<1> DEFINE r == call[c]
<1>1. r.pc = "raised" /\ r.cause \in Codes /\ r.tool # "profile_table"
  BY DEF Raise, Sound, CallRecord, Placed
<1>2. PICK s \in Told(r, "exception", FALSE, r.cause) : Becomes(c, s)
  BY DEF Raise
<1>3. FALSE \in BOOLEAN
  OBVIOUS
<1>4. Sound(s, now) /\ ~Holds(s) /\ s.told = "exception"
  BY <1>1, <1>2, <1>3, ToldSound
<1>5. Holds(s) = Holds(r)
  BY <1>1, <1>4 DEF Holds
<1>. QED BY <1>2, <1>4, <1>5 DEF Keeps

\* A call that has not begun.
LEMMA IdleSound == ASSUME now \in Nat PROVE Sound(Idle, now) /\ ~Holds(Idle)
<1>1. NoLine \in [ok : BOOLEAN, error : Codes] /\ "none" \in Codes /\ "idle" \in Pcs /\ <<>> \in Seq(Kinds)
  BY DEF NoLine, Codes, Pcs
<1>2. Idle \in CallRecord
  BY <1>1 DEF Idle, CallRecord, Pcs
<1>3. Path(Idle.tool, Idle.rest) /\ Placed(Idle) /\ ~Holds(Idle)
  BY <1>1 DEF Idle, Path, Placed, Holds
<1>4. Timed(Idle, now) /\ Kept(Idle, now) /\ Lined(Idle)
  BY DEF Idle, Timed, Kept, Lined, Waiting
<1>. QED BY <1>2, <1>3, <1>4 DEF Sound

\* A call begins, with all its budget.
LEMMA BeginKeeps ==
  ASSUME now \in Nat, NEW c, NEW tool \in Tools, Sound(call[c], now), Begin(c, tool)
  PROVE  Keeps(c)
<1>1. PICK path \in Paths[tool] :
        Becomes(c, [Idle EXCEPT !.tool = tool, !.rest = path, !.pc = "running",
                                !.deadline = IF Budget > 0 THEN now + Budget ELSE 0])
  BY DEF Begin
<1> DEFINE end == IF Budget > 0 THEN now + Budget ELSE 0
           s == [Idle EXCEPT !.tool = tool, !.rest = path, !.pc = "running", !.deadline = end]
<1>2. Path(tool, path) /\ path # <<>> /\ path \in Seq(Kinds) /\ (tool = "profile_table" => ~(Len(path) <= 3))
  BY BeginPath DEF Path
<1>3. end \in Nat
  BY Counts
<1>. HIDE DEF end
<1>4. Idle \in CallRecord
  BY IdleSound DEF Sound
<1>5. s \in CallRecord
  <2> DEFINE q1 == [Idle EXCEPT !.tool = tool]
             q2 == [q1 EXCEPT !.rest = path]
             q3 == [q2 EXCEPT !.pc = "running"]
  <2>1. q1 \in CallRecord /\ "running" \in Pcs
    BY <1>4, Update DEF Pcs, Computing
  <2>2. q2 \in CallRecord
    <3> HIDE DEF q1
    <3>. QED BY <1>2, <2>1, Update
  <2>3. q3 \in CallRecord
    <3> HIDE DEF q2
    <3>. QED BY <2>1, <2>2, Update
  <2>4. [q3 EXCEPT !.deadline = end] \in CallRecord
    <3> HIDE DEF q3
    <3>. QED BY <1>3, <2>3, Update
  <2>. QED BY <1>4, <2>4 DEF CallRecord
<1>6. /\ s.pc = "running" /\ s.rest = path /\ s.tool = tool /\ s.deadline = end /\ s.expired = Idle.expired
      /\ s.byCall = Idle.byCall /\ s.context = Idle.context /\ s.told = Idle.told /\ s.line = Idle.line
      /\ s.atHand = Idle.atHand
  BY <1>4 DEF CallRecord
<1>. Idle.expired = FALSE /\ Idle.byCall = FALSE /\ Idle.context = 0 /\ Idle.told = "none"
     /\ Idle.line = NoLine /\ Idle.atHand = FALSE
  BY DEF Idle
<1>. HIDE DEF s
<1>7. Placed(s) /\ Timed(s, now)
  BY <1>6 DEF Placed, Timed, Waiting
<1>8. Kept(s, now) /\ Lined(s)
  BY <1>6 DEF Kept, Lined
<1>9. ~Holds(s) /\ ~Holds(call[c])
  BY <1>2, <1>6 DEF Holds, Begin
<1>10. Holds(s) = Holds(call[c])
  BY <1>9 DEF Holds
<1>11. Sound(s, now)
  BY <1>2, <1>5, <1>6, <1>7, <1>8 DEF Sound
<1>. QED BY <1>1, <1>6, <1>10, <1>11 DEF Keeps, s, end
-----------------------------------------------------------------------------
(* The invariant *)

\* Every step of a call but those of its slot.
LEMMA MovesKeep ==
  ASSUME now \in Nat, NEW c, Sound(call[c], now), Moves(c) \/ Described(c) \/ PluginEnds(c), ~Acquire(c), ~Answer(c)
  PROVE  Keeps(c)
BY CheckKeeps, GuardRaisesKeeps, AskKeeps, ReadKeeps, UnknownColumnKeeps, AdviceKeeps, GateKeeps,
   ContextKeeps, WalkKeeps, ForeignKeeps, ReturnKeeps, RaiseKeeps DEF Moves

\* One record changes, to a sound one: all are.
LEMMA OneChanges ==
  ASSUME IInv, NEW c \in Calls, NEW r, Sound(r, now), Becomes(c, r), now' = now
  PROVE  /\ call' \in [Calls -> CallRecord] /\ \A d \in Calls : Sound(call'[d], now')
         /\ call'[c] = r /\ \A d \in Calls \ {c} : call'[d] = call[d]
BY DEF IInv, TypeOK, Becomes, Sound

\* The calls that hold a slot of the profiles.
Holders == {c \in Calls : Holds(call[c])}

\* As many calls hold a slot as there are calls, at most.
LEMMA HoldersFinite == IsFiniteSet(Holders)
BY CallAssumption, FS_Subset DEF Holders

\* A step that neither takes a slot nor gives one back.
LEMMA KeepsIInv ==
  ASSUME IInv, NEW c \in Calls, Keeps(c), UNCHANGED <<now, free>>
  PROVE  IInv'
<1>1. PICK r : Becomes(c, r) /\ Sound(r, now) /\ Holds(r) = Holds(call[c])
  BY DEF Keeps
<1>2. /\ call' \in [Calls -> CallRecord] /\ \A d \in Calls : Sound(call'[d], now')
      /\ call'[c] = r /\ \A d \in Calls \ {c} : call'[d] = call[d]
  BY <1>1, OneChanges
<1>3. {d \in Calls : Holds(call'[d])} = {d \in Calls : Holds(call[d])}
  BY <1>1, <1>2
<1>. QED BY <1>2, <1>3 DEF IInv, TypeOK, SlotsExact

\* A profile takes a slot: one holder more, one free slot less.
LEMMA AcquireIInv ==
  ASSUME IInv, NEW c \in Calls, Acquire(c)
  PROVE  IInv'
<1> DEFINE r == call[c]
<1>1. /\ Sound(r, now) /\ r.pc = "running" /\ Step(r) = "slot" /\ now \in Nat /\ now' = now
      /\ MaxConcurrent \in Nat /\ free \in 0..MaxConcurrent
  BY Counts DEF IInv, TypeOK, Acquire, Runs
<1>2. CASE free > 0
  <2>1. free' = free - 1 /\ Becomes(c, Proceed(r))
    BY <1>2 DEF Acquire
  <2>2. Sound(Proceed(r), now) /\ ~Holds(r) /\ Holds(Proceed(r))
    BY <1>1, ProceedSound
  <2>3. /\ call' \in [Calls -> CallRecord] /\ \A d \in Calls : Sound(call'[d], now')
        /\ call'[c] = Proceed(r) /\ \A d \in Calls \ {c} : call'[d] = call[d]
    BY <1>1, <2>1, <2>2, OneChanges
  <2>4. Holders' = Holders \cup {c} /\ c \notin Holders
    BY <2>2, <2>3 DEF Holders
  <2>5. Cardinality(Holders') = Cardinality(Holders) + 1 /\ Cardinality(Holders) \in Nat
    BY <2>4, HoldersFinite, FS_AddElement, FS_CardinalityType
  <2>6. free + Cardinality(Holders) = MaxConcurrent
    BY DEF IInv, SlotsExact, Holders
  <2>7. free' \in 0..MaxConcurrent /\ free' + Cardinality(Holders') = MaxConcurrent
    BY <1>1, <1>2, <2>1, <2>5, <2>6
  <2>. QED BY <1>1, <2>3, <2>7 DEF IInv, TypeOK, SlotsExact, Holders
<1>3. CASE ~(free > 0)
  <2>1. "busy" \in Codes \ {"none"}
    BY DEF Codes
  <2>2. Becomes(c, Fail(r, "busy")) /\ UNCHANGED <<now, free>>
    BY <1>1, <1>3 DEF Acquire
  <2>3. Keeps(c)
    BY <1>1, <2>1, <2>2, Fails
  <2>. QED BY <2>2, <2>3, KeepsIInv
<1>. QED BY <1>2, <1>3

\* A call that answers gives its slot back, if it holds one.
LEMMA AnswerIInv ==
  ASSUME IInv, NEW c \in Calls, Answer(c)
  PROVE  IInv' /\ (call'[c].told \in {"data", "error"} => ~Over(call[c]))
<1> DEFINE r == call[c]
<1>1. /\ Sound(r, now) /\ r.pc = "answering" /\ now \in Nat /\ now' = now
      /\ MaxConcurrent \in Nat /\ free \in 0..MaxConcurrent
  BY Counts DEF IInv, TypeOK, Answer
<1>2. PICK s \in Returned(r) : Becomes(c, s)
  BY DEF Answer
<1>3. Sound(s, now) /\ ~Holds(s) /\ (s.told \in {"data", "error"} => ~Over(r))
  BY <1>1, <1>2, AnswerSound
<1>4. /\ call' \in [Calls -> CallRecord] /\ \A d \in Calls : Sound(call'[d], now')
      /\ call'[c] = s /\ \A d \in Calls \ {c} : call'[d] = call[d]
  BY <1>1, <1>2, <1>3, OneChanges
<1>5. free + Cardinality(Holders) = MaxConcurrent /\ Cardinality(Holders) \in Nat
  BY HoldersFinite, FS_CardinalityType DEF IInv, SlotsExact, Holders
<1>6. CASE Holds(r)
  <2>1. free' = free + 1
    BY <1>6 DEF Answer
  <2>2. Holders' = Holders \ {c} /\ c \in Holders
    BY <1>3, <1>4, <1>6 DEF Holders
  <2>3. Cardinality(Holders') = Cardinality(Holders) - 1 /\ Cardinality(Holders') \in Nat
    BY <2>2, HoldersFinite, FS_RemoveElement, FS_CardinalityType, FS_Subset
  <2>4. free' \in 0..MaxConcurrent /\ free' + Cardinality(Holders') = MaxConcurrent
    BY <1>1, <1>5, <2>1, <2>3
  <2>. QED BY <1>1, <1>3, <1>4, <2>4 DEF IInv, TypeOK, SlotsExact, Holders
<1>7. CASE ~Holds(r)
  <2>1. free' = free
    BY <1>7 DEF Answer
  <2>2. Holders' = Holders
    BY <1>3, <1>4, <1>7 DEF Holders
  <2>. QED BY <1>1, <1>3, <1>4, <1>5, <2>1, <2>2 DEF IInv, TypeOK, SlotsExact, Holders
<1>. QED BY <1>6, <1>7

\* Time passes only while every wait is less than Lag past its end.
LEMMA TickIInv ==
  ASSUME IInv, Tick
  PROVE  IInv'
<1>1. now \in Nat /\ now' = now + 1 /\ call' = call /\ free' = free
  BY DEF IInv, TypeOK, Tick
<1>2. ASSUME NEW c \in Calls
      PROVE  Sound(call[c], now + 1)
  <2> DEFINE r == call[c]
  <2>1. r \in CallRecord /\ Path(r.tool, r.rest) /\ Placed(r) /\ Timed(r, now) /\ Kept(r, now) /\ Lined(r)
        /\ r.deadline \in Nat /\ r.stop \in Int /\ Lag \in Nat
    BY Counts DEF IInv, Sound, CallRecord
  <2>2. r.pc \notin Computing /\ (r.pc \in Waiting => r.stop = 0 \/ now < r.stop + Lag)
    BY DEF Tick
  <2>3. Timed(r, now + 1)
    BY <1>1, <2>1, <2>2 DEF Timed
  <2>4. r.atHand => r.pc \in Waiting \cup {"over"}
    BY <2>1, <2>2 DEF Placed, CallRecord
  <2>5. Kept(r, now + 1)
    BY <1>1, <2>1, <2>2, <2>4 DEF Kept, Timed
  <2>. QED BY <2>1, <2>3, <2>5 DEF Sound
<1>. QED BY <1>1, <1>2 DEF IInv, TypeOK, SlotsExact
\* Before any call, every slot is free.
LEMMA InitIInv == ASSUME Init PROVE IInv
<1>1. now \in Nat /\ free = MaxConcurrent /\ MaxConcurrent \in Nat /\ call = [c \in Calls |-> Idle]
  BY Counts DEF Init
<1>2. \A c \in Calls : call[c] = Idle
  BY <1>1
<1>3. Sound(Idle, now) /\ ~Holds(Idle) /\ Idle \in CallRecord
  BY <1>1, IdleSound DEF Sound
<1>4. Holders = {}
  BY <1>2, <1>3 DEF Holders
<1>5. Cardinality(Holders) = 0
  BY <1>4, FS_EmptySet
<1>6. free + Cardinality({c \in Calls : Holds(call[c])}) = MaxConcurrent
  BY <1>1, <1>5 DEF Holders
<1>. QED BY <1>1, <1>2, <1>3, <1>6 DEF IInv, TypeOK, SlotsExact

\* A call other than c is as it was, and c has its answer in time.
LEMMA Timely ==
  ASSUME IInv, NEW c \in Calls, NEW r, Becomes(c, r),
         r.told \in {"data", "error"} => call[c].told # "none" \/ ~Over(call[c])
  PROVE  \A d \in Calls : call'[d].told \in {"data", "error"} /\ call[d].told = "none" =>
           ~call[d].expired /\ (Budget > 0 => now < call[d].deadline)
<1>1. call'[c] = r /\ \A d \in Calls \ {c} : call'[d] = call[d]
  BY DEF Becomes, IInv, TypeOK
<1>2. now \in Nat /\ call[c].deadline \in Nat /\ call[c].expired \in BOOLEAN
  BY DEF IInv, TypeOK, CallRecord
<1>3. ~Over(call[c]) => ~call[c].expired /\ (Budget > 0 => now < call[c].deadline)
  BY <1>2 DEF Over, Left
<1>. QED BY <1>1, <1>3

\* An agent that receives an answer in this step receives it in time.
AnswersTimely == \A c \in Calls : call'[c].told \in {"data", "error"} /\ call[c].told = "none" =>
            ~call[c].expired /\ (Budget > 0 => now < call[c].deadline)

\* Every step keeps the invariant, and answers in time only.
LEMMA NextIInv ==
  ASSUME IInv, [Next]_vars
  PROVE  IInv' /\ (call' # call => AnswersTimely)
<1>1. CASE UNCHANGED vars
  BY <1>1 DEF IInv, TypeOK, SlotsExact, Sound, vars
<1>2. CASE Tick
  <2>1. call' = call
    BY <1>2 DEF Tick
  <2>. QED BY <1>2, <2>1, TickIInv
<1>3. ASSUME NEW c \in Calls, Keeps(c), UNCHANGED <<now, free>>
      PROVE  IInv' /\ AnswersTimely
  <2>1. IInv'
    BY <1>3, KeepsIInv
  <2>2. PICK r : Becomes(c, r) /\ (r.told \in {"data", "error"} => call[c].told # "none" \/ ~Over(call[c]))
    BY <1>3 DEF Keeps
  <2>. QED BY <2>1, <2>2, Timely DEF AnswersTimely
<1>4. ASSUME NEW c \in Calls, Acquire(c)
      PROVE  IInv' /\ AnswersTimely
  <2>1. IInv' /\ Sound(call[c], now) /\ now \in Nat /\ call[c].pc = "running" /\ Step(call[c]) = "slot"
    BY <1>4, AcquireIInv DEF IInv, TypeOK, Acquire, Runs
  <2>2. PICK r \in {Proceed(call[c]), Fail(call[c], "busy")} : Becomes(c, r)
    BY <1>4 DEF Acquire
  <2>3. "busy" \in Codes \ {"none"}
    BY DEF Codes
  <2>4. r.told = "none"
    BY <2>1, <2>2, <2>3, ProceedSound, FailSound
  <2>. QED BY <2>1, <2>2, <2>4, Timely DEF AnswersTimely
<1>5. ASSUME NEW c \in Calls, Answer(c)
      PROVE  IInv' /\ AnswersTimely
  <2>1. IInv' /\ (call'[c].told \in {"data", "error"} => ~Over(call[c]))
    BY <1>5, AnswerIInv
  <2>2. PICK r : Becomes(c, r)
    BY <1>5 DEF Answer
  <2>3. call'[c] = r
    BY <2>2 DEF Becomes, IInv, TypeOK
  <2>. QED BY <2>1, <2>2, <2>3, Timely DEF AnswersTimely
<1>6. ASSUME NEW c \in Calls, Moves(c) \/ Described(c) \/ PluginEnds(c)
      PROVE  IInv' /\ AnswersTimely
  <2>1. CASE ~Acquire(c) /\ ~Answer(c)
    <3>1. Keeps(c)
      BY <1>6, <2>1, MovesKeep DEF IInv, TypeOK
    <3>2. UNCHANGED <<now, free>>
      BY <1>6, <2>1 DEF Moves, Passes, Invalid, Refuses, GuardRaises, Ask, Rows, NotVisible, Errs, Stopped,
         UnknownColumn, Look, LookEnds, Advise, Gate, GateEnds, Gather, ChainAnswers, ReadTerms, ContextEnds,
         Walk, WalkEnds, Foreign, Return, Unserialisable, Raise, Described, PluginEnds
    <3>. QED BY <1>3, <3>1, <3>2
  <2>. QED BY <1>4, <1>5, <2>1
<1>7. ASSUME NEW c \in Calls, NEW tool \in Offered, Begin(c, tool)
      PROVE  IInv' /\ AnswersTimely
  <2>1. tool \in Tools
    BY CallAssumption
  <2>2. Keeps(c)
    BY <1>7, <2>1, BeginKeeps DEF IInv, TypeOK
  <2>3. UNCHANGED <<now, free>>
    BY <1>7 DEF Begin
  <2>. QED BY <1>3, <2>2, <2>3
<1>. QED BY <1>1, <1>2, <1>6, <1>7 DEF Next, vars
-----------------------------------------------------------------------------
(* Theorems *)

\* Every reachable state satisfies the invariant: records are sound, slots are counted.
THEOREM Invariance == Spec => []IInv
<1>1. Init => IInv
  BY InitIInv
<1>2. IInv /\ [Next]_vars => IInv'
  BY NextIInv
<1>. QED BY <1>1, <1>2, PTL DEF Spec

\* Every call stays a call record, and time and the free slots counts, for any calls,
\* budget, timeouts, reserves and number of slots.
THEOREM ToolCallTypeCorrect == Spec => []TypeOK
<1>1. IInv => TypeOK
  BY DEF IInv
<1>. QED BY <1>1, Invariance, PTL

\* The audit line of a call says what its agent received, whatever the call did.
THEOREM LineTellsAnswerHolds == Spec => []LineTellsAnswer
<1>1. IInv => LineTellsAnswer
  BY DEF IInv, Sound, Lined, LineTellsAnswer
<1>. QED BY <1>1, Invariance, PTL

\* The advice, the context and the walk never cost a call its answer, as long as their
\* waits end less than a reserve late.
THEOREM ReserveKeepsAnswerHolds == Spec => []ReserveKeepsAnswer
<1>1. IInv => ReserveKeepsAnswer
  BY DEF IInv, Sound, Kept, ReserveKeepsAnswer
<1>. QED BY <1>1, Invariance, PTL

\* A call waits Lag past its deadline at most.
THEOREM WaitsEndByDeadlineHolds == Spec => []WaitsEndByDeadline
<1>1. IInv => WaitsEndByDeadline
  BY DEF IInv, Sound, Timed, WaitsEndByDeadline
<1>. QED BY <1>1, Invariance, PTL

\* Every slot that is not free is held by one running profile.
THEOREM ProfileSlotsExact == Spec => []SlotsExact
<1>1. IInv => SlotsExact
  BY DEF IInv
<1>. QED BY <1>1, Invariance, PTL

\* No agent receives an answer past the deadline of its call, nor one that a query,
\* a describer or a plugin saw run out of time.
THEOREM NothingLateHolds == Spec => NothingLate
<1>1. IInv /\ [Next]_vars => [AnswersTimely]_vars
  BY NextIInv DEF vars, AnswersTimely
<1>2. [AnswersTimely]_vars => [\A c \in Calls : call'[c].told \in {"data", "error"} /\ call[c].told = "none" =>
                                ~call[c].expired /\ (Budget > 0 => now < call[c].deadline)]_vars
  BY DEF AnswersTimely
<1>. QED BY <1>1, <1>2, Invariance, PTL DEF Spec, NothingLate
=============================================================================
