------------------------------- MODULE Search -------------------------------
(***************************************************************************)
(* The search of tables and columns over the catalogs of a caller          *)
(* (akko_mcp_trino/search.py, search): the nested functions walk, scan,    *)
(* replay, fill and answer.  A call walks the catalogs in order, or some   *)
(* at once in threads that take a slot each of the process, and replays    *)
(* what they found in order, within a cap of rows and the time of the      *)
(* call.  A call that stops answers a cursor, from which the next call     *)
(* resumes; a complete search that found nothing goes on with a pass for   *)
(* each word alone.                                                        *)
(*                                                                         *)
(* An action is what one thread does between two uses of shared state: the *)
(* main thread of the call, and the walk of each catalog up to its next    *)
(* statement.  A catalog is its number in the sorted list, a schema its    *)
(* number in its catalog, and the rows a statement finds are counted: row  *)
(* i of a phase is <<catalog, schema, phase, i>>.  What Trino holds is a   *)
(* member of Worlds and does not change during a chain of calls.           *)
(***************************************************************************)
EXTENDS Integers, FiniteSets, Sequences, SequencesExt

CONSTANTS
  Worlds,       \* what the caller may see, and how Trino answers
  PageSize,     \* ctx.page_size: the rows of one answer
  Concurrency,  \* the catalogs read at once
  MaxThreads,   \* the slots of the process
  MaxCalls,     \* bound: the calls of a chain
  NoCursor,     \* no cursor
  NoStop        \* the pass has not stopped

Modes   == {"every_word", "per_word"}
Tables  == 1
Columns == 2

\* What Trino does of a statement, and of the listing of a catalog.
Listings == {"ok", "fails", "slow"}
Kinds    == Listings \cup {"refused"}

SchemaRecord  == [kind : Kinds \X Kinds, rows : [Modes -> Nat \X Nat]]
CatalogRecord == [kind : Listings \cup {"badname"}, schemas : Seq(SchemaRecord)]
World == [catalogs : Seq(CatalogRecord), named : BOOLEAN, several : BOOLEAN]

ASSUME SearchAssumption ==
  /\ PageSize \in Nat \ {0}
  /\ Concurrency \in Nat \ {0}
  /\ MaxThreads \in Nat
  /\ MaxCalls \in Nat \ {0}
  /\ Worlds \subseteq World
  /\ \A w \in Worlds : w.catalogs # <<>>

\* Neither is a place, nor a cursor.
ASSUME SentinelAssumption ==
  /\ NoStop \notin Nat \X Nat \X Nat \X Nat
  /\ NoCursor \notin [at : Nat \X Nat \X Nat \X Nat, mode : Modes, gaps : BOOLEAN, found : BOOLEAN]

VARIABLES
  world,     \* the catalogs, constant
  mode,      \* the pass: every word together, or each alone
  begin,     \* the cursor the pass resumes, if any
  main,      \* where the thread of the call stands
  index,     \* the catalog it replays next
  ahead,     \* the catalogs up to this one are in a thread, or read
  walker,    \* the walk of each catalog
  cancelled, \* the signal of the pass was given
  free,      \* the slots nobody holds
  others,    \* the slots other calls hold
  lost,      \* the slots nobody will give back
  timeUp,    \* only the reserve of the call is left
  part,      \* what the pass found so far, and where it stopped
  next,      \* the cursor answered
  complete,  \* whether the answer says it is complete
  outcome,   \* how the call ended
  calls,     \* the calls made so far
  served,    \* history: the rows answered by the pass, over its calls
  gapped     \* history: what its answers said was not searched, stops aside

slotVars == <<free, others, lost>>
reply    == <<next, complete, outcome, served, gapped>>
fixed    == <<world, mode, begin, calls>>
vars == <<fixed, main, index, ahead, walker, cancelled, slotVars, timeUp, part, reply>>

Catalogs   == 1..Len(world.catalogs)
Catalog(c) == world.catalogs[c]
Schemas(c) == Catalog(c).schemas
Total(c, s, ph) == Schemas(c)[s].rows[mode][ph]
Least(i, j) == IF i <= j THEN i ELSE j

-----------------------------------------------------------------------------
(* The walk of one catalog: the events it leaves for the pass to replay    *)

Gap(c, s)          == [kind |-> "gap", at |-> <<c, s>>]
Point(kind, c, at) == [kind |-> kind, at |-> <<c, at[1], at[2], at[3]>>]
Found(c, at, n, more) == [kind |-> "rows", at |-> <<c, at[1], at[2], at[3]>>, n |-> n, more |-> more]
Sign(kind)         == [kind |-> kind]

Idle == [st |-> "off", thread |-> FALSE, holds |-> FALSE, listing |-> FALSE, used |-> 0,
         at |-> <<0, Tables, 0>>, events |-> <<>>]

End(w)    == [w EXCEPT !.st = "ended"]
Add(w, e) == [w EXCEPT !.events = Append(@, e)]

\* Where the pass begins in a catalog: the schema (0: the first), phase and row.
Entry(c) == IF begin # NoCursor /\ begin.at[1] = c
            THEN <<begin.at[2], begin.at[3], begin.at[4]>> ELSE <<0, Tables, 0>>

\* Before a statement on a schema; the walk ends past the last one, or on the cap.
Stand(w, c, s, ph, o) ==
  LET here == [Add(w, Point("before", c, <<s, ph, o>>)) EXCEPT !.listing = FALSE, !.at = <<s, ph, o>>]
  IN  IF s > Len(Schemas(c)) THEN End(w)
      ELSE IF w.used >= PageSize THEN End(here) ELSE [here EXCEPT !.st = "asking"]

\* The first statement on a schema: the one the pass begins in, or the first.
FirstSchema(w, c) ==
  LET at == Entry(c) IN IF at[1] = 0 THEN Stand(w, c, 1, Tables, 0) ELSE Stand(w, c, at[1], at[2], at[3])

\* walk, up to its first statement.
Open(w, c) ==
  LET here == [Add(w, Point("open", c, Entry(c))) EXCEPT !.listing = TRUE, !.at = Entry(c)]
  IN  IF Catalog(c).kind = "badname" THEN End(Add(w, Gap(c, 0)))
      ELSE IF world.named THEN FirstSchema(w, c)
      ELSE IF w.used >= PageSize THEN End(here) ELSE [here EXCEPT !.st = "asking"]

\* Mutant of Stalled: a stop is always resumed.
NeverStalled(c, at) == FALSE

\* A stop where the call resumed moved nothing.
Stalled(c, at) == begin # NoCursor /\ begin.at = <<c, at[1], at[2], at[3]>>

\* The part of the scope a walk is reading is skipped, and named.
Skip(w, c) ==
  IF w.listing THEN End(Add(w, Gap(c, 0)))
  ELSE Stand(Add(w, Gap(c, w.at[1])), c, w.at[1] + 1, Tables, 0)

\* A statement stopped by the time left of the call.
OutOfTime(w, c) == IF Stalled(c, w.at) THEN Skip(w, c) ELSE End(Add(w, Point("stop", c, w.at)))

\* A statement that answers: the rows from the offset on, as many as there is room.
Read(w, c) ==
  LET s    == w.at[1]
      ph   == w.at[2]
      left == Total(c, s, ph) - w.at[3]
      room == PageSize - w.used
      n    == IF left <= 0 THEN 0 ELSE Least(left, room)
      read == [Add(w, Found(c, w.at, n, left > room)) EXCEPT !.used = @ + n]
  IN  IF left > room THEN End(read)
      ELSE IF ph = Tables THEN Stand(read, c, s, Columns, 0)
      ELSE Stand(Add(read, Sign("searched")), c, s + 1, Tables, 0)

\* How Trino answers the statement of a walk, when time is left.
Answered(w, c) ==
  LET kind == IF w.listing THEN Catalog(c).kind ELSE Schemas(c)[w.at[1]].kind[w.at[2]]
  IN  CASE kind = "refused" -> End(Add(w, Sign("error")))
        [] kind = "fails"   -> Skip(w, c)
        [] kind = "slow"    -> IF timeUp THEN OutOfTime(w, c) ELSE Skip(w, c)
        [] OTHER            -> IF w.listing THEN FirstSchema(w, c) ELSE Read(w, c)

-----------------------------------------------------------------------------
(* The pass: what it takes of the events, in the order of the catalogs     *)

Nothing == [rows |-> <<>>, gaps |-> {}, searched |-> 0, stop |-> NoStop, error |-> FALSE]

Rows(at, n) == [i \in 1..n |-> <<at[1], at[2], at[3], at[4] + i>>]

\* Mutant of TakeRows: every row read is taken.
TakeAll(acc, e, room) ==
  [acc EXCEPT !.rows = @ \o Rows(e.at, e.n),
              !.stop = IF e.more THEN [e.at EXCEPT ![4] = @ + e.n] ELSE @]

\* The first rows read, as many as there is room; the stop is past those taken.
TakeRows(acc, e, room) ==
  LET taken == Least(e.n, room)
  IN  [acc EXCEPT !.rows = @ \o Rows(e.at, taken),
                  !.stop = IF e.more \/ e.n > room THEN [e.at EXCEPT ![4] = @ + taken] ELSE @]

\* replay, for one event.
Take(acc, e) ==
  LET room == PageSize - Len(acc.rows)
  IN  CASE e.kind = "gap"      -> [acc EXCEPT !.gaps = @ \cup {e.at}]
        [] e.kind = "rows"     -> TakeRows(acc, e, room)
        [] e.kind = "stop"     -> [acc EXCEPT !.stop = e.at]
        [] e.kind = "error"    -> [acc EXCEPT !.error = TRUE]
        [] e.kind = "searched" -> [acc EXCEPT !.searched = @ + 1]
        [] OTHER               -> IF room <= 0 THEN [acc EXCEPT !.stop = e.at] ELSE acc

-----------------------------------------------------------------------------
(* A call *)

FirstOf(cursor) == IF cursor = NoCursor THEN 1 ELSE cursor.at[1]

\* scan: a pass begins at its cursor, or from the start.
Scan(m, cursor) ==
  /\ mode'      = m
  /\ begin'     = cursor
  /\ index'     = FirstOf(cursor)
  /\ ahead'     = index' - 1
  /\ walker'    = [c \in Catalogs |-> Idle]
  /\ cancelled' = FALSE
  /\ part'      = Nothing
  /\ main'      = "fill"

Init ==
  /\ world     \in Worlds
  /\ mode      = "every_word"
  /\ begin     = NoCursor
  /\ main      = "fill"
  /\ index     = 1
  /\ ahead     = 0
  /\ walker    = [c \in Catalogs |-> Idle]
  /\ cancelled = FALSE
  /\ free      = MaxThreads
  /\ others    = 0
  /\ lost      = 0
  /\ timeUp    = FALSE
  /\ part      = Nothing
  /\ next      = NoCursor
  /\ complete  = FALSE
  /\ outcome   = "none"
  /\ calls     = 1
  /\ served    = <<>>
  /\ gapped    = {}

\* Several catalogs at once, when several are left from where the pass begins.
AtOnce == Concurrency > 1 /\ FirstOf(begin) < Len(world.catalogs)

Window == Least(index - 1 + Concurrency, Len(world.catalogs))

OnlyScan == UNCHANGED <<fixed, others, timeUp, reply>>

\* A catalog of the window is left, and may get a thread of its own.
Filling == main = "fill" /\ AtOnce /\ ahead < Window

Holders == {c \in Catalogs : walker[c].holds}

Queue(held) ==
  /\ walker' = [walker EXCEPT ![ahead + 1] =
                  [Idle EXCEPT !.st = "queued", !.thread = TRUE, !.holds = held]]
  /\ free' = free - 1
  /\ UNCHANGED <<index, part, cancelled>> /\ OnlyScan

\* fill: the next catalog gets a thread, with a slot that is free.
Fill == Filling /\ free > 0 /\ Queue(TRUE) /\ ahead' = ahead + 1 /\ UNCHANGED <<main, lost>>

\* No thread can be started: the slot was taken, and nothing will give it back.
FillFails ==
  /\ Filling /\ free > 0
  /\ Queue(FALSE)
  /\ lost' = lost + 1
  /\ main' = "raising"
  /\ UNCHANGED ahead

\* Mutant of Filled: a call waits for a slot.
FillWaits ==
  /\ main = "fill"
  /\ ~Filling
  /\ main' = "next"
  /\ UNCHANGED <<index, part, ahead, walker, cancelled, free, lost>> /\ OnlyScan

\* No slot is free, or every catalog of the window has its thread.
Filled ==
  /\ main = "fill"
  /\ ~Filling \/ free = 0
  /\ main' = "next"
  /\ UNCHANGED <<index, part, ahead, walker, cancelled, free, lost>> /\ OnlyScan

\* No thread was free for the next catalog: the call walks it itself, with the
\* rows it has so far.
WalkAlone ==
  /\ main = "next"
  /\ walker[index].st = "off"
  /\ walker' = [walker EXCEPT ![index] = Open([Idle EXCEPT !.used = Len(part.rows)], index)]
  /\ ahead'  = index
  /\ UNCHANGED <<index, part, main, cancelled, free, lost>> /\ OnlyScan

\* The walk of the next catalog has ended: its events are taken in order, until the
\* pass stops.
Replay ==
  /\ main = "next"
  /\ walker[index].st = "ended"
  /\ walker[index].events # <<>>
  /\ part'   = Take(part, Head(walker[index].events))
  /\ walker' = [walker EXCEPT ![index].events = Tail(@)]
  /\ main'   = IF part'.stop # NoStop \/ part'.error THEN "leaving" ELSE main
  /\ UNCHANGED <<index, ahead, cancelled, free, lost>> /\ OnlyScan

Replayed ==
  /\ main = "next"
  /\ walker[index].st = "ended"
  /\ walker[index].events = <<>>
  /\ index' = index + 1
  /\ main'  = IF index' > Len(world.catalogs) THEN "leaving" ELSE "fill"
  /\ UNCHANGED <<part, ahead, walker, cancelled, free, lost>> /\ OnlyScan

\* The call is over its deadline in the next walk.
ReplayRaises ==
  /\ main = "next"
  /\ walker[index].st = "raised"
  /\ main' = "raising"
  /\ UNCHANGED <<index, part, ahead, walker, cancelled, free, lost>> /\ OnlyScan

\* The finally: the signal, and the walks that have not started are cancelled.
Leave ==
  /\ main \in {"leaving", "raising"}
  /\ main' = IF main = "leaving" THEN "joining" ELSE "failing"
  /\ cancelled' = AtOnce
  /\ walker' = [c \in Catalogs |-> IF walker[c].st = "queued"
                  THEN [walker[c] EXCEPT !.st = "dropped", !.holds = FALSE] ELSE walker[c]]
  /\ free' = free + Cardinality({c \in Holders : walker[c].st = "queued"})
  /\ UNCHANGED <<index, part, ahead, lost>> /\ OnlyScan

\* The threads of the pool at work: a walk, or the callback that ends it.
Threads == {c \in Catalogs : /\ walker[c].thread
                             /\ \/ walker[c].st \in {"asking", "reading"}
                                \/ walker[c].holds /\ walker[c].st # "queued"}

\* What a pass answers.
Finished == part.stop = NoStop
Earlier(flag) == begin # NoCursor /\ begin[flag]

\* Mutant of Flags: an earlier gap is forgotten.
FlagsNoGaps == [gaps |-> part.gaps # {}, found |-> part.rows # <<>> \/ Earlier("found")]

\* What the chain of calls found, and whether it skipped anything.
Flags == [gaps  |-> part.gaps # {} \/ Earlier("gaps"), found |-> part.rows # <<>> \/ Earlier("found")]

Whole == Finished /\ ~Flags.gaps

\* Every word together was found nowhere: each word alone is looked for.
GoesOn == mode = "every_word" /\ world.several /\ Whole /\ ~Flags.found

\* Mutant of Join: the call does not wait for its threads.
JoinNot == main \in {"joining", "failing"}

\* The pool is shut down: no thread of it is left.
Join == main \in {"joining", "failing"} /\ Threads = {}

OnlyAnswer == UNCHANGED <<world, slotVars, timeUp, calls>>

\* answer
Answer ==
  /\ Join
  /\ main = "joining" /\ ~part.error
  /\ ~GoesOn
  /\ main'     = "done"
  /\ outcome'  = "answered"
  /\ complete' = Whole
  /\ next'     = IF Finished THEN NoCursor
                 ELSE [at |-> part.stop, mode |-> mode, gaps |-> Flags.gaps, found |-> Flags.found]
  /\ served'   = served \o part.rows
  /\ gapped'   = gapped \cup part.gaps
  /\ UNCHANGED <<mode, begin, index, ahead, walker, cancelled, part>> /\ OnlyAnswer

\* The call goes on with each word alone.
EachWord ==
  /\ Join
  /\ main = "joining" /\ ~part.error
  /\ GoesOn
  /\ Scan("per_word", NoCursor)
  /\ UNCHANGED reply /\ OnlyAnswer

\* A refused view answers its error, and a call that raised its own.
Fail ==
  /\ Join
  /\ main = "failing" \/ part.error
  /\ main'     = "done"
  /\ outcome'  = "failed"
  /\ complete' = FALSE
  /\ next'     = NoCursor
  /\ UNCHANGED <<mode, begin, index, ahead, walker, cancelled, part, served, gapped>> /\ OnlyAnswer

\* The agent calls again with the cursor.
Resume ==
  /\ main = "done"
  /\ next # NoCursor
  /\ calls < MaxCalls
  /\ calls'   = calls + 1
  /\ Scan(next.mode, next)
  /\ timeUp'  = FALSE
  /\ next'    = NoCursor
  /\ outcome' = "none"
  /\ complete' = FALSE
  /\ UNCHANGED <<world, slotVars, served, gapped>>

-----------------------------------------------------------------------------
(* The walks *)

OnlyWalk == UNCHANGED <<fixed, main, index, ahead, cancelled, others, lost, timeUp, part, reply>>

\* A thread of the pool takes a walk, once one is free.
Begin(c) ==
  /\ walker[c].st = "queued"
  /\ Cardinality(Threads) < Concurrency
  /\ walker' = [walker EXCEPT ![c] = Open(@, c)]
  /\ UNCHANGED free /\ OnlyWalk

\* A statement is sent, with the time left of the call; none once the pass no
\* longer needs this walk.
Ask(c) ==
  LET w == walker[c]
  IN  /\ w.st = "asking"
      /\ walker' = [walker EXCEPT ![c] =
                      IF w.thread /\ cancelled THEN [w EXCEPT !.st = "dropped"]
                      ELSE IF timeUp THEN OutOfTime(w, c)
                      ELSE [w EXCEPT !.st = "reading"]]
      /\ UNCHANGED free /\ OnlyWalk

\* Trino answers it.
Answers(c) ==
  /\ walker[c].st = "reading"
  /\ walker' = [walker EXCEPT ![c] = Answered(@, c)]
  /\ UNCHANGED free /\ OnlyWalk

\* It is stopped by the time left of the call.
TimesOut(c) ==
  /\ walker[c].st = "reading"
  /\ timeUp
  /\ walker' = [walker EXCEPT ![c] = OutOfTime(@, c)]
  /\ UNCHANGED free /\ OnlyWalk

\* It is stopped by the deadline of the call itself.
CallTimesOut(c) ==
  /\ walker[c].st = "reading"
  /\ timeUp
  /\ walker' = [walker EXCEPT ![c].st = "raised"]
  /\ UNCHANGED free /\ OnlyWalk

\* It is stopped by the signal of the pass.
IsCancelled(c) ==
  /\ walker[c].st = "reading"
  /\ walker[c].thread /\ cancelled
  /\ walker' = [walker EXCEPT ![c].st = "dropped"]
  /\ UNCHANGED free /\ OnlyWalk

\* The thread ends: its slot is given back, after what it found is told.
Release(c) ==
  /\ walker[c].st \in {"ended", "raised", "dropped"}
  /\ walker[c].holds
  /\ walker' = [walker EXCEPT ![c].holds = FALSE]
  /\ free'   = free + 1
  /\ OnlyWalk

-----------------------------------------------------------------------------
(* The clock, and the other calls of the process *)

TimePasses ==
  /\ main # "done"
  /\ ~timeUp
  /\ timeUp' = TRUE
  /\ UNCHANGED <<fixed, main, index, ahead, walker, cancelled, slotVars, part, reply>>

OnlyOthers ==
  UNCHANGED <<fixed, main, index, ahead, walker, cancelled, lost, timeUp, part, reply>>

\* What the others hold matters only while this call looks for a slot.
OthersTake ==
  /\ main = "fill" /\ free > 0
  /\ free' = free - 1 /\ others' = others + 1
  /\ OnlyOthers

OthersGive ==
  /\ main = "fill" /\ others > 0
  /\ free' = free + 1 /\ others' = others - 1
  /\ OnlyOthers

\* The chain of calls is over.
Over ==
  /\ main = "done"
  /\ next = NoCursor \/ calls = MaxCalls
  /\ UNCHANGED vars

Main ==
  \/ Fill
  \/ FillFails
  \/ Filled
  \/ WalkAlone
  \/ Replay
  \/ Replayed
  \/ ReplayRaises
  \/ Leave
  \/ Answer
  \/ EachWord
  \/ Fail

Walk(c) ==
  \/ Begin(c)
  \/ Ask(c)
  \/ Answers(c)
  \/ TimesOut(c)
  \/ CallTimesOut(c)
  \/ IsCancelled(c)
  \/ Release(c)

Next ==
  \/ Main
  \/ \E c \in Catalogs : Walk(c)
  \/ Resume
  \/ TimePasses
  \/ OthersTake
  \/ OthersGive
  \/ Over

Spec == Init /\ [][Next]_vars

(***************************************************************************)
(* Threads run, and every statement ends: by Trino, by its time, or by its *)
(* cancel.  No slot has to come back from the other calls.                 *)
(***************************************************************************)
Fairness == WF_vars(Main) /\ WF_vars(\E c \in Catalogs : Walk(c))

FairSpec == Spec /\ Fairness

-----------------------------------------------------------------------------
(* What one catalog at a time answers: the catalogs in order, the schemas  *)
(* of each and the statements on each, asked with the rows taken so far.   *)

\* Nothing more is asked once the pass stopped.
Stopped(acc) == acc.stop # NoStop \/ acc.error

\* A statement on a schema, from a row on, once those before it are answered.
AskPart(acc, u) ==
  LET c == u[1]  s == u[2]  ph == u[3]
      room == PageSize - Len(acc.rows)
      kind == Schemas(c)[s].kind[ph]
      left == Total(c, s, ph) - u[4]
      n    == IF left <= 0 THEN 0 ELSE Least(left, room)
  IN  IF Stopped(acc) THEN acc
      ELSE IF room <= 0 THEN [acc EXCEPT !.stop = u]
      ELSE CASE kind = "refused" -> [acc EXCEPT !.error = TRUE]
             [] kind \in {"fails", "slow"} -> [acc EXCEPT !.gaps = @ \cup {<<c, s>>}]
             [] OTHER -> [acc EXCEPT !.rows = @ \o Rows(u, n),
                                     !.stop = IF left > room THEN [u EXCEPT ![4] = @ + n] ELSE @,
                                     !.searched = @ + IF left <= room /\ ph = Columns THEN 1 ELSE 0]

\* The pass begins in this phase of the schema, at a row of it.
BeginsAt(c, s, ph) == Entry(c)[1] = s /\ Entry(c)[2] = ph
Offset(c, s, ph)   == IF BeginsAt(c, s, ph) THEN Entry(c)[3] ELSE 0
First(c)           == IF Entry(c)[1] = 0 THEN 1 ELSE Entry(c)[1]

\* The columns are not looked for in a schema whose tables could not be read.
AskTables(acc, c, s) ==
  IF BeginsAt(c, s, Columns) THEN acc ELSE AskPart(acc, <<c, s, Tables, Offset(c, s, Tables)>>)

NoColumns(c, s) == ~BeginsAt(c, s, Columns) /\ Schemas(c)[s].kind[Tables] \in {"fails", "slow"}

AskSchema(acc, c, s) ==
  IF NoColumns(c, s) THEN AskTables(acc, c, s)
  ELSE AskPart(AskTables(acc, c, s), <<c, s, Columns, Offset(c, s, Columns)>>)

\* What is found once each schema up to one is asked.
SchemasUpTo(acc, c) ==
  LET upTo[s \in 0..Len(Schemas(c))] == IF s < First(c) THEN acc ELSE AskSchema(upTo[s - 1], c, s)
  IN  upTo

AskCatalog(acc, c) ==
  LET at == Entry(c) IN
  IF Stopped(acc) THEN acc
  ELSE IF Catalog(c).kind = "badname" THEN [acc EXCEPT !.gaps = @ \cup {<<c, 0>>}]
  ELSE IF ~world.named /\ PageSize - Len(acc.rows) <= 0 THEN [acc EXCEPT !.stop = <<c, at[1], at[2], at[3]>>]
  ELSE IF ~world.named /\ Catalog(c).kind # "ok" THEN [acc EXCEPT !.gaps = @ \cup {<<c, 0>>}]
  ELSE SchemasUpTo(acc, c)[Len(Schemas(c))]

CatalogsUpTo ==
  LET upTo[c \in 0..Len(world.catalogs)] ==
        IF c < FirstOf(begin) THEN Nothing ELSE AskCatalog(upTo[c - 1], c)
  IN  upTo

OneAtATime == CatalogsUpTo[Len(world.catalogs)]

-----------------------------------------------------------------------------
(* Properties *)

WalkStates == {"off", "queued", "asking", "reading", "ended", "raised", "dropped"}

TypeOK ==
  /\ mode \in Modes
  /\ main \in {"fill", "next", "leaving", "raising", "joining", "failing", "done"}
  /\ index \in 1..(Len(world.catalogs) + 1)
  /\ ahead \in 0..Len(world.catalogs)
  /\ \A c \in Catalogs : walker[c].st \in WalkStates /\ walker[c].used \in 0..PageSize
  /\ free \in 0..MaxThreads /\ others \in 0..MaxThreads /\ lost \in 0..MaxThreads
  /\ {timeUp, cancelled, complete} \subseteq BOOLEAN
  /\ Len(part.rows) <= PageSize
  /\ outcome \in {"none", "answered", "failed"}
  /\ calls \in 1..MaxCalls

\* Catalogs read at once answer what they answer one at a time: the same rows in
\* the same order, the same gaps, the same stop; unless the call's time ran out
\* (scan, walk, replay).
SameAnswer ==
  main = "joining" /\ ~timeUp => part = OneAtATime

\* A cursor comes before another.
Precedes(a, b) ==
  \E k \in 1..4 : a[k] < b[k] /\ \A j \in 1..(k - 1) : a[j] = b[j]

Places == UNION {{c} \X (DOMAIN Schemas(c)) \X {Tables, Columns} : c \in Catalogs}

AllRows(m) == UNION {{Append(u, i) : i \in 1..Schemas(u[1])[u[2]].rows[m][u[3]]} : u \in Places}

Passed(r) == next = NoCursor \/ ~Precedes(next.at, r)

\* A chain of cursors gives every row once: what comes before the cursor was served
\* by one call of the chain or is in a part it named as not searched, and nothing
\* past it was served, whatever stopped each call (replay, answer).
EachRowOnce ==
  main = "done" /\ outcome = "answered" =>
    /\ IsInjective(served)
    /\ \A r \in AllRows(mode) :
         IF Passed(r)
         THEN r \in Range(served) \/ <<r[1], r[2]>> \in gapped \/ <<r[1], 0>> \in gapped
         ELSE r \notin Range(served)

\* A call that resumes and stops again stops further on: a schema or a catalog
\* slower than a call never stops the chain at the same place (stalled).
CursorAdvances ==
  main = "done" /\ next # NoCursor /\ begin # NoCursor => Precedes(begin.at, next.at)

\* An answer says it is complete only when no call of the chain left anything out
\* (the gaps a cursor carries).
CompleteMeansAll == complete => next = NoCursor /\ gapped = {}

\* The words are looked for alone only when nothing at all holds them together,
\* in any page of the chain (the found a cursor carries).
PerWordAfterNothing ==
  mode = "per_word" => AllRows("every_word") = {}

\* What a chain of cursors gives, from its first call to its last.
ChainIsWhole == EachRowOnce /\ CompleteMeansAll /\ PerWordAfterNothing

\* A slot is free, held for one walk of the call, or another call's, wherever the
\* walk stands when the pass ends; a call that is over holds none, and no thread of
\* it is left (fill, the finally of scan).
SlotsExact ==
  /\ free + others + lost + Cardinality(Holders) = MaxThreads
  /\ main = "done" => Holders = {} /\ Threads = {}

\* A call ends, though no slot ever comes back from the others: it walks its next
\* catalog itself (scan).
CallEnds == main # "done" ~> main = "done"

=============================================================================
