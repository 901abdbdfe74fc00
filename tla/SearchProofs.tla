---------------------------- MODULE SearchProofs ----------------------------
(***************************************************************************)
(* The slots of Search balance for any catalogs, any number of calls and   *)
(* any slots of the process: wherever a walk stands when the pass ends, its *)
(* slot comes back once.  IInv is inductive: it types what a walk and the  *)
(* pass hold, and says which walks may hold a slot.  Ordered, beside it,   *)
(* says what a walk may tell of after what it told: the cursor advances.   *)
(* PassSeam says that a walk leaves no row untold before a point it tells  *)
(* of, nor the pass one untaken before its stop, and ChainSeam what each   *)
(* call leaves to the next: a chain of cursors is whole.  Answering says   *)
(* that what is left of each walk tells, to a pass that took what comes    *)
(* before it, what the catalog answers when it is asked in its turn: the   *)
(* catalogs read at once answer what they answer one at a time.            *)
(***************************************************************************)
EXTENDS Search, FiniteSetTheorems, WellFoundedInduction, TLAPS

-----------------------------------------------------------------------------
(* Types of a walk, of its events and of the pass *)

Phases == {Tables, Columns}
At     == Nat \X Phases \X Nat

PlaceOf(c) == {c} \X Nat \X Phases \X Nat

Event(c) ==
  [kind : {"gap"}, at : {c} \X Nat]
    \cup [kind : {"open", "before", "stop"}, at : PlaceOf(c)]
    \cup [kind : {"rows"}, at : PlaceOf(c), n : Nat, more : BOOLEAN]
    \cup [kind : {"searched", "error"}]

WalkRecord(c) ==
  [st : WalkStates, thread : BOOLEAN, holds : BOOLEAN, listing : BOOLEAN,
   used : 0..PageSize, at : At, events : Seq(Event(c))]

\* A walk that asks of a schema asks of one the catalog has.
OnSchema(w, c) ==
  w.st \in {"asking", "reading"} /\ ~w.listing => w.at[1] \in 1..Len(Schemas(c))

SoundWalk(w, c) == w \in WalkRecord(c) /\ OnSchema(w, c)

Place  == Catalogs \X Nat \X Phases \X Nat
Cursor == [at : Place, mode : Modes, gaps : BOOLEAN, found : BOOLEAN]
Row    == Nat \X Nat \X Phases \X Nat
Part   == [rows : Seq(Row), gaps : SUBSET (Nat \X Nat), searched : Nat,
           stop : Place \cup {NoStop}, error : BOOLEAN]

\* The walk of a catalog moves: what it holds of the pool stays.
Same(w, v) == v.holds = w.holds /\ v.thread = w.thread

Moved(w, v, c) ==
  /\ SoundWalk(v, c)
  /\ Same(w, v)
  /\ v.st \notin {"off", "queued"}

WorldTyped == world \in World /\ mode \in Modes /\ begin \in Cursor \cup {NoCursor}

-----------------------------------------------------------------------------
(* What the operators of a walk give *)

LEMMA SchemasType ==
  ASSUME WorldTyped, NEW c \in Catalogs
  PROVE  /\ Catalog(c) \in CatalogRecord
         /\ Schemas(c) \in Seq(SchemaRecord)
         /\ Len(Schemas(c)) \in Nat
<1>1. world.catalogs \in Seq(CatalogRecord)
  BY DEF WorldTyped, World
<1>2. Catalog(c) \in CatalogRecord
  <2> QED
    BY <1>1 DEF Catalogs, Catalog
<1>3. Schemas(c) \in Seq(SchemaRecord)
  <2> QED
    BY <1>2 DEF CatalogRecord, Schemas
<1>4. QED
  BY <1>2, <1>3

LEMMA EntryType ==
  ASSUME WorldTyped, NEW c \in Catalogs
  PROVE  Entry(c) \in At
<1>1. <<0, Tables, 0>> \in At
  BY DEF At, Phases
<1>2. begin # NoCursor => <<begin.at[2], begin.at[3], begin.at[4]>> \in At
  BY DEF WorldTyped, Cursor, Place, At
<1>3. QED
  BY <1>1, <1>2 DEF Entry

\* An event told by a walk is added to those it holds.
LEMMA AddWalk ==
  ASSUME NEW c \in Catalogs, NEW w \in WalkRecord(c), NEW e \in Event(c)
  PROVE  /\ Add(w, e) \in WalkRecord(c)
         /\ Same(w, Add(w, e))
         /\ Add(w, e).used = w.used /\ Add(w, e).st = w.st
         /\ Add(w, e).at = w.at /\ Add(w, e).listing = w.listing
<1>1. Append(w.events, e) \in Seq(Event(c))
  BY DEF WalkRecord
<1>2. QED
  BY <1>1 DEF Add, Same, WalkRecord

LEMMA EndWalk ==
  ASSUME NEW c \in Catalogs, NEW w \in WalkRecord(c)
  PROVE  Moved(w, End(w), c)
  BY DEF End, Moved, Same, SoundWalk, OnSchema, WalkRecord, WalkStates

LEMMA PointEvent ==
  ASSUME NEW c \in Catalogs, NEW at \in At, NEW kind \in {"open", "before", "stop"}
  PROVE  Point(kind, c, at) \in Event(c)
<1>1. <<c, at[1], at[2], at[3]>> \in PlaceOf(c)
  BY DEF At, PlaceOf
<1>2. QED
  BY <1>1 DEF Point, Event

LEMMA GapEvent ==
  ASSUME NEW c \in Catalogs, NEW s \in Nat
  PROVE  Gap(c, s) \in Event(c)
  BY DEF Gap, Event

LEMMA SignEvent ==
  ASSUME NEW c \in Catalogs, NEW kind \in {"searched", "error"}
  PROVE  Sign(kind) \in Event(c)
  BY DEF Sign, Event

LEMMA StandWalk ==
  ASSUME WorldTyped, NEW c \in Catalogs, NEW w \in WalkRecord(c),
         NEW s \in Nat \ {0}, NEW ph \in Phases, NEW o \in Nat
  PROVE  Moved(w, Stand(w, c, s, ph, o), c)
<1> DEFINE at    == <<s, ph, o>>
           added == Add(w, Point("before", c, at))
           here  == [added EXCEPT !.listing = FALSE, !.at = at]
<1>1. at \in At
  BY DEF At
<1>2. added \in WalkRecord(c) /\ Same(w, added)
  BY <1>1, PointEvent, AddWalk
<1>3. here \in WalkRecord(c) /\ Same(w, here) /\ here.at[1] = s /\ ~here.listing
  <2> HIDE DEF added
  <2> QED
    BY <1>1, <1>2 DEF WalkRecord, Same
<1>4. Moved(w, End(w), c) /\ Moved(here, End(here), c)
  BY <1>3, EndWalk
<1>5. Moved(w, End(here), c)
  BY <1>3, <1>4 DEF Moved, Same
<1>6. CASE s <= Len(Schemas(c)) /\ ~(w.used >= PageSize)
  <2> DEFINE asking == [here EXCEPT !.st = "asking"]
  <2>1. asking \in WalkRecord(c) /\ Same(here, asking) /\ asking.st = "asking"
        /\ asking.at = here.at
    <3> HIDE DEF here
    <3> QED
      BY <1>3 DEF WalkRecord, Same, WalkStates
  <2>2. s \in 1..Len(Schemas(c))
    BY <1>6, SchemasType
  <2>3. Moved(w, asking, c)
    <3> HIDE DEF here, asking
    <3> QED
      BY <2>1, <2>2, <1>3 DEF Moved, Same, SoundWalk, OnSchema
  <2>4. Stand(w, c, s, ph, o) = asking
    BY <1>6, SchemasType DEF Stand
  <2>5. QED
    BY <2>3, <2>4
<1>7. CASE ~(s <= Len(Schemas(c)) /\ ~(w.used >= PageSize))
  <2>1. Stand(w, c, s, ph, o) \in {End(w), End(here)}
    BY <1>7, SchemasType DEF Stand
  <2>2. QED
    BY <2>1, <1>4, <1>5
<1>8. QED
  BY <1>6, <1>7

\* A walk that moves after it was told something has moved.
LEMMA AddThenMove ==
  ASSUME NEW c \in Catalogs, NEW w \in WalkRecord(c), NEW e \in Event(c), NEW v,
         Moved(Add(w, e), v, c)
  PROVE  Moved(w, v, c)
  BY AddWalk DEF Moved, Same

LEMMA FirstSchemaWalk ==
  ASSUME WorldTyped, NEW c \in Catalogs, NEW w \in WalkRecord(c)
  PROVE  Moved(w, FirstSchema(w, c), c)
<1> DEFINE at == Entry(c)
<1>1. at[1] \in Nat /\ at[2] \in Phases /\ at[3] \in Nat
  BY EntryType DEF At
<1>2. Moved(w, Stand(w, c, 1, Tables, 0), c)
  BY StandWalk DEF Phases
<1>3. at[1] # 0 => Moved(w, Stand(w, c, at[1], at[2], at[3]), c)
  BY <1>1, StandWalk
<1>4. QED
  BY <1>2, <1>3 DEF FirstSchema

LEMMA OpenWalk ==
  ASSUME WorldTyped, NEW c \in Catalogs, NEW w \in WalkRecord(c)
  PROVE  Moved(w, Open(w, c), c)
<1> DEFINE added == Add(w, Point("open", c, Entry(c)))
           here  == [added EXCEPT !.listing = TRUE, !.at = Entry(c)]
<1>1. Entry(c) \in At
  BY EntryType
<1>2. added \in WalkRecord(c) /\ Same(w, added)
  BY <1>1, PointEvent, AddWalk
<1>3. here \in WalkRecord(c) /\ Same(w, here) /\ here.listing
  <2> HIDE DEF added
  <2> QED
    BY <1>1, <1>2 DEF WalkRecord, Same
<1>4. Moved(w, End(Add(w, Gap(c, 0))), c)
  BY GapEvent, AddWalk, EndWalk, AddThenMove
<1>5. Moved(w, FirstSchema(w, c), c)
  BY FirstSchemaWalk
<1>6. Moved(w, End(here), c)
  BY <1>3, EndWalk DEF Moved, Same
<1>7. Moved(w, [here EXCEPT !.st = "asking"], c)
  <2> HIDE DEF here
  <2>1. /\ [here EXCEPT !.st = "asking"] \in WalkRecord(c)
        /\ Same(here, [here EXCEPT !.st = "asking"])
        /\ [here EXCEPT !.st = "asking"].listing
        /\ [here EXCEPT !.st = "asking"].st = "asking"
    BY <1>3 DEF WalkRecord, Same, WalkStates
  <2>2. QED
    BY <1>3, <2>1 DEF Moved, SoundWalk, OnSchema, Same
<1>8. QED
  BY <1>4, <1>5, <1>6, <1>7 DEF Open

LEMMA SkipWalk ==
  ASSUME WorldTyped, NEW c \in Catalogs, NEW w \in WalkRecord(c)
  PROVE  Moved(w, Skip(w, c), c)
<1>1. w.at[1] \in Nat
  BY DEF WalkRecord, At
<1>2. Moved(w, End(Add(w, Gap(c, 0))), c)
  BY GapEvent, AddWalk, EndWalk, AddThenMove
<1> DEFINE told == Add(w, Gap(c, w.at[1]))
<1>3. told \in WalkRecord(c)
  BY <1>1, GapEvent, AddWalk
<1>4. Moved(told, Stand(told, c, w.at[1] + 1, Tables, 0), c)
  <2> HIDE DEF told
  <2>1. w.at[1] + 1 \in Nat \ {0}
    BY <1>1
  <2>2. QED
    BY <1>3, <2>1, StandWalk DEF Phases
<1>5. Moved(w, Stand(told, c, w.at[1] + 1, Tables, 0), c)
  BY <1>1, <1>4, GapEvent, AddThenMove
<1>6. QED
  BY <1>2, <1>5 DEF Skip

LEMMA OutOfTimeWalk ==
  ASSUME WorldTyped, NEW c \in Catalogs, NEW w \in WalkRecord(c)
  PROVE  Moved(w, OutOfTime(w, c), c)
<1>1. w.at \in At
  BY DEF WalkRecord
<1>2. Moved(w, End(Add(w, Point("stop", c, w.at))), c)
  BY <1>1, PointEvent, AddWalk, EndWalk, AddThenMove
<1>3. QED
  BY <1>2, SkipWalk DEF OutOfTime

LEMMA TotalType ==
  ASSUME WorldTyped, NEW c \in Catalogs, NEW s \in 1..Len(Schemas(c)), NEW ph \in Phases
  PROVE  Total(c, s, ph) \in Nat
<1>1. Schemas(c)[s] \in SchemaRecord
  BY SchemasType
<1>2. Schemas(c)[s].rows[mode] \in Nat \X Nat
  BY <1>1 DEF SchemaRecord, WorldTyped
<1>3. QED
  BY <1>2 DEF Total, Phases, Tables, Columns

LEMMA ReadWalk ==
  ASSUME WorldTyped, NEW c \in Catalogs, NEW w, SoundWalk(w, c),
         w.st = "reading", ~w.listing
  PROVE  Moved(w, Read(w, c), c)
<1> DEFINE s    == w.at[1]
           ph   == w.at[2]
           left == Total(c, s, ph) - w.at[3]
           room == PageSize - w.used
           n    == IF left <= 0 THEN 0 ELSE Least(left, room)
           told == Add(w, Found(c, w.at, n, left > room))
           read == [told EXCEPT !.used = @ + n]
<1>1. /\ w \in WalkRecord(c) /\ w.at \in At
      /\ s \in 1..Len(Schemas(c)) /\ ph \in Phases /\ w.at[3] \in Nat
  BY DEF SoundWalk, OnSchema, WalkRecord, At
<1>2. left \in Int
  BY <1>1, TotalType
<1>3. room \in 0..PageSize /\ w.used \in 0..PageSize /\ PageSize \in Nat
  BY <1>1, SearchAssumption DEF WalkRecord
<1>4. n \in Nat /\ w.used + n \in 0..PageSize
  <2> HIDE DEF left
  <2> QED
    BY <1>2, <1>3 DEF Least
<1>5. Found(c, w.at, n, left > room) \in Event(c)
  <2>1. <<c, w.at[1], w.at[2], w.at[3]>> \in PlaceOf(c)
    BY <1>1 DEF At, PlaceOf
  <2>2. (left > room) \in BOOLEAN
    OBVIOUS
  <2> HIDE DEF n, left, room
  <2>3. QED
    BY <1>4, <2>1, <2>2 DEF Found, Event
<1>6. told \in WalkRecord(c) /\ Same(w, told) /\ told.used = w.used
  BY <1>1, <1>5, AddWalk
<1>7. read \in WalkRecord(c) /\ Same(w, read)
  <2> HIDE DEF told, n
  <2> QED
    BY <1>4, <1>6 DEF WalkRecord, Same
<1> HIDE DEF read
<1>8. Moved(w, End(read), c)
  BY <1>7, EndWalk DEF Moved, Same
<1>9. Moved(w, Stand(read, c, s, Columns, 0), c)
  <2>1. s \in Nat \ {0}
    BY <1>1, SchemasType
  <2>2. QED
    BY <2>1, <1>7, StandWalk DEF Phases, Moved, Same
<1>10. Moved(w, Stand(Add(read, Sign("searched")), c, s + 1, Tables, 0), c)
  <2>1. s + 1 \in Nat \ {0}
    BY <1>1, SchemasType
  <2>2. Add(read, Sign("searched")) \in WalkRecord(c)
    BY <1>7, SignEvent, AddWalk
  <2>3. Moved(read, Stand(Add(read, Sign("searched")), c, s + 1, Tables, 0), c)
    BY <2>1, <2>2, <1>7, StandWalk, SignEvent, AddThenMove DEF Phases
  <2>4. QED
    BY <2>3, <1>7 DEF Moved, Same
<1>11. Read(w, c) = IF left > room THEN End(read)
                    ELSE IF ph = Tables THEN Stand(read, c, s, Columns, 0)
                    ELSE Stand(Add(read, Sign("searched")), c, s + 1, Tables, 0)
  BY DEF Read, read
<1>12. QED
  BY <1>8, <1>9, <1>10, <1>11

LEMMA AnsweredWalk ==
  ASSUME WorldTyped, NEW c \in Catalogs, NEW w, SoundWalk(w, c), w.st = "reading"
  PROVE  Moved(w, Answered(w, c), c)
<1>1. w \in WalkRecord(c)
  BY DEF SoundWalk
<1>2. Moved(w, End(Add(w, Sign("error"))), c)
  BY <1>1, SignEvent, AddWalk, EndWalk, AddThenMove
<1>3. Moved(w, Skip(w, c), c) /\ Moved(w, OutOfTime(w, c), c) /\ Moved(w, FirstSchema(w, c), c)
  BY <1>1, SkipWalk, OutOfTimeWalk, FirstSchemaWalk
<1>4. ~w.listing => Moved(w, Read(w, c), c)
  BY ReadWalk
<1>5. QED
  BY <1>2, <1>3, <1>4 DEF Answered

-----------------------------------------------------------------------------
(* What the pass takes of an event *)

Fits(acc) == acc \in Part /\ Len(acc.rows) <= PageSize

LEMMA TakeFits ==
  ASSUME WorldTyped, NEW c \in Catalogs, NEW acc, Fits(acc), NEW e \in Event(c)
  PROVE  Fits(Take(acc, e))
<1> DEFINE room == PageSize - Len(acc.rows)
<1>1. /\ acc \in Part /\ acc.rows \in Seq(Row) /\ Len(acc.rows) \in Nat
      /\ room \in Nat /\ PageSize \in Nat
  BY SearchAssumption DEF Fits, Part
<1>2. c \in Nat
  BY DEF Catalogs
<1>3. \A at \in PlaceOf(c) : at \in Place
  BY DEF PlaceOf, Place
<1>4. CASE e.kind = "gap"
  <2>1. e.at \in Nat \X Nat
    BY <1>2, <1>4 DEF Event
  <2>2. QED
    BY <1>1, <1>4, <2>1 DEF Take, Fits, Part
<1>5. CASE e.kind = "rows"
  <2> DEFINE taken == Least(e.n, room)
             more  == Rows(e.at, taken)
             past  == [e.at EXCEPT ![4] = @ + taken]
  <2>1. e.at \in PlaceOf(c) /\ e.n \in Nat
    BY <1>5 DEF Event
  <2>2. taken \in Nat /\ taken <= room
    BY <1>1, <2>1 DEF Least
  <2>3. past \in Place
    <3> HIDE DEF taken
    <3> QED
      BY <2>1, <2>2, <1>3, SMTT(30) DEF PlaceOf
  <2>4. more \in Seq(Row) /\ Len(more) = taken
    <3> HIDE DEF taken
    <3>1. \A i \in 1..taken : <<e.at[1], e.at[2], e.at[3], e.at[4] + i>> \in Row
      BY <1>2, <2>1, <2>2 DEF PlaceOf, Row, Phases
    <3>2. QED
      BY <2>2, <3>1 DEF Rows
  <2>5. acc.rows \o more \in Seq(Row) /\ Len(acc.rows \o more) <= PageSize
    <3> HIDE DEF taken, more
    <3> QED
      BY <1>1, <2>2, <2>4
  <2>6. Take(acc, e) = [acc EXCEPT !.rows = @ \o more,
                                   !.stop = IF e.more \/ e.n > room THEN past ELSE @]
    BY <1>5 DEF Take, TakeRows
  <2> HIDE DEF more, past, taken
  <2>7. QED
    BY <1>1, <2>3, <2>5, <2>6 DEF Fits, Part
<1>6. CASE e.kind = "stop"
  <2>1. e.at \in Place
    BY <1>3, <1>6 DEF Event
  <2>2. QED
    BY <1>1, <1>6, <2>1 DEF Take, Fits, Part
<1>7. CASE e.kind = "error"
  BY <1>1, <1>7 DEF Take, Fits, Part
<1>10. CASE e.kind = "searched"
  BY <1>1, <1>10 DEF Take, Fits, Part
<1>8. CASE e.kind \in {"open", "before"}
  <2>1. e.at \in Place
    BY <1>3, <1>8 DEF Event
  <2>2. Take(acc, e) = IF room <= 0 THEN [acc EXCEPT !.stop = e.at] ELSE acc
    BY <1>8 DEF Take
  <2>3. QED
    BY <1>1, <2>1, <2>2 DEF Fits, Part
<1>9. QED
  BY <1>4, <1>5, <1>6, <1>7, <1>8, <1>10 DEF Event

LEMMA NothingFits == Fits(Nothing)
  BY SearchAssumption DEF Fits, Nothing, Part

-----------------------------------------------------------------------------
(* The inductive invariant *)

Standing == {"fill", "next", "leaving", "raising", "joining", "failing", "done"}

Typed ==
  /\ WorldTyped
  /\ world.catalogs # <<>>
  /\ main \in Standing
  /\ index \in 1..(Len(world.catalogs) + 1)
  /\ main \in {"fill", "next"} => index \in Catalogs
  /\ ahead \in 0..Len(world.catalogs)
  /\ DOMAIN walker = Catalogs
  /\ \A c \in Catalogs : SoundWalk(walker[c], c)
  /\ walker = [c \in Catalogs |-> walker[c]]
  /\ free \in Nat /\ others \in Nat /\ lost \in Nat
  /\ timeUp \in BOOLEAN /\ cancelled \in BOOLEAN /\ complete \in BOOLEAN
  /\ Fits(part)
  /\ next \in Cursor \cup {NoCursor}
  /\ outcome \in {"none", "answered", "failed"}
  /\ calls \in 1..MaxCalls

\* Only a walk that was given a thread holds a slot; a catalog past those ahead has
\* none, and a catalog between the next one and them has its walk.
Held ==
  /\ \A c \in Catalogs :
       /\ walker[c].holds => walker[c].thread /\ walker[c].st # "off"
       /\ main \in {"fill", "next"} => /\ c > ahead => walker[c].st = "off"
                                       /\ index <= c /\ c <= ahead => walker[c].st # "off"
  /\ main \in {"joining", "failing", "done"} => \A c \in Catalogs : walker[c].st # "queued"

IInv == Typed /\ Held /\ SlotsExact

LEMMA FiniteHolders ==
  ASSUME Typed
  PROVE  /\ Catalogs = 1..Len(world.catalogs) /\ Len(world.catalogs) \in Nat
         /\ IsFiniteSet(Catalogs)
         /\ IsFiniteSet(Holders) /\ Cardinality(Holders) \in Nat
<1>1. Len(world.catalogs) \in Nat
  BY DEF Typed, WorldTyped, World
<1>2. IsFiniteSet(Catalogs)
  BY <1>1, FS_Interval DEF Catalogs
<1>3. Holders \subseteq Catalogs
  BY DEF Holders
<1>4. QED
  BY <1>1, <1>2, <1>3, FS_Subset, FS_CardinalityType DEF Catalogs

LEMMA IdleWalk ==
  ASSUME NEW c \in Catalogs
  PROVE  /\ SoundWalk(Idle, c)
         /\ \A used \in 0..PageSize : [Idle EXCEPT !.used = used] \in WalkRecord(c)
         /\ \A held \in BOOLEAN :
              SoundWalk([Idle EXCEPT !.st = "queued", !.thread = TRUE, !.holds = held], c)
<1>1. Idle \in WalkRecord(c) /\ Idle.st = "off"
  <2>1. <<0, Tables, 0>> \in At
    BY DEF At, Phases
  <2>2. <<>> \in Seq(Event(c)) /\ 0 \in 0..PageSize
    BY SearchAssumption
  <2>3. QED
    BY <2>1, <2>2 DEF Idle, WalkRecord, WalkStates
<1>2. SoundWalk(Idle, c)
  BY <1>1 DEF SoundWalk, OnSchema
<1>3. \A used \in 0..PageSize : [Idle EXCEPT !.used = used] \in WalkRecord(c)
  BY <1>1 DEF WalkRecord
<1>4. ASSUME NEW held \in BOOLEAN
      PROVE  SoundWalk([Idle EXCEPT !.st = "queued", !.thread = TRUE, !.holds = held], c)
  <2> DEFINE w == [Idle EXCEPT !.st = "queued", !.thread = TRUE, !.holds = held]
  <2>1. w \in WalkRecord(c) /\ w.st = "queued"
    BY <1>1 DEF WalkRecord, WalkStates
  <2>2. QED
    BY <2>1 DEF SoundWalk, OnSchema
<1>5. QED
  BY <1>2, <1>3, <1>4

LEMMA InitHolds == Init => IInv
<1> SUFFICES ASSUME Init PROVE IInv
  OBVIOUS
<1>1. world \in World /\ world.catalogs # <<>>
  BY SearchAssumption DEF Init
<1>2. WorldTyped
  BY <1>1 DEF Init, WorldTyped, Modes
<1>3. Len(world.catalogs) \in Nat \ {0}
  <2>1. world.catalogs \in Seq(CatalogRecord)
    BY <1>1 DEF World
  <2>2. QED
    BY <1>1, <2>1
<1>4. \A c \in Catalogs : SoundWalk(Idle, c)
  BY IdleWalk
<1>5. Typed
  <2>1. index \in Catalogs
    BY <1>3 DEF Init, Catalogs
  <2>2. calls \in 1..MaxCalls
    BY SearchAssumption DEF Init
  <2>3. /\ DOMAIN walker = Catalogs
        /\ \A c \in Catalogs : SoundWalk(walker[c], c)
        /\ walker = [c \in Catalogs |-> walker[c]]
    BY <1>4 DEF Init
  <2>4. /\ index \in 1..(Len(world.catalogs) + 1)
        /\ ahead \in 0..Len(world.catalogs)
        /\ free \in Nat /\ others \in Nat /\ lost \in Nat
    BY <1>3, SearchAssumption DEF Init
  <2>5. Fits(part)
    BY NothingFits DEF Init
  <2>6. QED
    BY <1>1, <1>2, <2>1, <2>2, <2>3, <2>4, <2>5 DEF Init, Typed, Standing
<1>6. Held
  BY <1>3 DEF Init, Held, Idle, Catalogs
<1>7. Holders = {}
  BY DEF Init, Holders, Idle
<1>8. SlotsExact
  BY <1>7, FS_EmptySet, SearchAssumption DEF Init, SlotsExact
<1>9. QED
  BY <1>5, <1>6, <1>8 DEF IInv

-----------------------------------------------------------------------------
(* The steps of the call *)

\* The walks are left alone.
LEMMA StillWalks ==
  ASSUME Typed, UNCHANGED <<world, walker>>
  PROVE  /\ Catalogs' = Catalogs /\ Holders' = Holders /\ Threads' = Threads
         /\ \A c \in Catalogs : SoundWalk(walker[c], c)'
<1>1. Catalogs' = Catalogs
  BY DEF Catalogs
<1>2. \A c \in Catalogs : SoundWalk(walker[c], c)'
  BY DEF Typed, SoundWalk, OnSchema, Schemas, Catalog
<1>3. QED
  BY <1>1, <1>2 DEF Holders, Threads

\* Some walks change, each for one as sound.
LEMMA WalksTyped ==
  ASSUME Typed, UNCHANGED fixed, DOMAIN walker' = Catalogs,
         walker' = [c \in Catalogs |-> walker'[c]],
         \A c \in Catalogs : walker'[c] = walker[c] \/ SoundWalk(walker'[c], c)
  PROVE  /\ Catalogs' = Catalogs
         /\ WorldTyped'
         /\ \A c \in Catalogs' : SoundWalk(walker[c], c)'
<1>1. Catalogs' = Catalogs /\ WorldTyped'
  BY DEF Catalogs, fixed, Typed, WorldTyped, Cursor, Place
<1>2. ASSUME NEW c \in Catalogs PROVE SoundWalk(walker'[c], c)
  BY DEF Typed
<1>3. QED
  BY <1>1, <1>2 DEF SoundWalk, OnSchema, Schemas, Catalog, fixed

\* Only where the call stands changes.
LEMMA ControlKeeps ==
  ASSUME IInv, Filled \/ Replayed \/ ReplayRaises
  PROVE  IInv'
<1>1. Typed /\ Held /\ SlotsExact
  BY DEF IInv
<1>2. UNCHANGED <<world, walker>> /\ UNCHANGED fixed
  BY DEF Filled, Replayed, ReplayRaises, OnlyScan, fixed
<1>3. /\ Catalogs' = Catalogs /\ Holders' = Holders /\ Threads' = Threads
      /\ \A c \in Catalogs : SoundWalk(walker[c], c)'
  BY <1>1, <1>2, StillWalks
<1>4. Catalogs = 1..Len(world.catalogs) /\ Len(world.catalogs) \in Nat
  BY <1>1, FiniteHolders
<1>5. WorldTyped'
  BY <1>1, <1>2, <1>3 DEF Typed, WorldTyped, fixed, Cursor, Place
<1>6. UNCHANGED <<ahead, free, others, lost, timeUp, cancelled, complete, part, next, outcome, calls>>
  BY DEF Filled, Replayed, ReplayRaises, OnlyScan, reply, fixed
<1>7. /\ main' \in Standing /\ main' \notin {"joining", "failing", "done"}
      /\ index' \in 1..(Len(world.catalogs) + 1)
      /\ main' \in {"fill", "next"} => index' \in Catalogs
  <2>1. CASE Filled
    BY <2>1, <1>1 DEF Filled, Typed, Standing
  <2>2. CASE Replayed
    BY <2>2, <1>1, <1>4 DEF Replayed, Typed, Standing
  <2>3. CASE ReplayRaises
    BY <2>3, <1>1 DEF ReplayRaises, Typed, Standing
  <2>4. QED
    BY <2>1, <2>2, <2>3
<1>8. Fits(part)' /\ Cursor' = Cursor
  BY <1>1, <1>3, <1>6 DEF Typed, Fits, Part, Place, Cursor
<1>9. Typed'
  BY <1>1, <1>2, <1>3, <1>5, <1>6, <1>7, <1>8 DEF Typed
<1>10. Held'
  <2>1. index' = index \/ index' = index + 1
    BY DEF Filled, Replayed, ReplayRaises
  <2>2. index \in Int /\ ahead \in Int /\ \A c \in Catalogs : c \in Int
    BY <1>1, <1>4 DEF Typed
  <2>3. main \in {"fill", "next"}
    BY DEF Filled, Replayed, ReplayRaises
  <2>4. QED
    BY <1>1, <1>2, <1>3, <1>6, <1>7, <2>1, <2>2, <2>3 DEF Held
<1>11. SlotsExact'
  BY <1>1, <1>3, <1>6, <1>7 DEF SlotsExact
<1>12. QED
  BY <1>9, <1>10, <1>11 DEF IInv

\* The clock, and the slots the other calls take and give.
LEMMA OutsideKeeps ==
  ASSUME IInv, TimePasses \/ OthersTake \/ OthersGive \/ UNCHANGED vars
  PROVE  IInv'
<1>1. Typed /\ Held /\ SlotsExact
  BY DEF IInv
<1>2. UNCHANGED <<fixed, main, index, ahead, walker, cancelled, lost, part, reply>>
  BY DEF TimePasses, OthersTake, OthersGive, OnlyOthers, slotVars, vars
<1>3. UNCHANGED <<world, walker>>
  BY <1>2 DEF fixed
<1>4. /\ Catalogs' = Catalogs /\ Holders' = Holders /\ Threads' = Threads
      /\ \A c \in Catalogs : SoundWalk(walker[c], c)'
  BY <1>1, <1>3, StillWalks
<1>5. free \in Nat /\ others \in Nat /\ timeUp \in BOOLEAN
  BY <1>1 DEF Typed
<1>6. free' \in Nat /\ others' \in Nat /\ free' + others' = free + others
  BY <1>5 DEF TimePasses, OthersTake, OthersGive, slotVars, vars
<1>7. timeUp' \in BOOLEAN
  BY <1>5 DEF TimePasses, OthersTake, OthersGive, OnlyOthers, vars
<1>8. WorldTyped' /\ Fits(part)' /\ Cursor' = Cursor
  BY <1>1, <1>2, <1>4 DEF Typed, WorldTyped, fixed, Fits, Part, Cursor, Place
<1>9. Typed'
  BY <1>1, <1>2, <1>3, <1>4, <1>6, <1>7, <1>8 DEF Typed, reply, fixed
<1>10. Held'
  BY <1>1, <1>2, <1>4 DEF Held
<1>11. SlotsExact'
  <2>1. Cardinality(Holders) \in Nat /\ lost \in Nat
    BY <1>1, FiniteHolders DEF Typed
  <2>2. QED
    BY <1>1, <1>2, <1>4, <1>5, <1>6, <2>1 DEF SlotsExact
<1>12. QED
  BY <1>9, <1>10, <1>11 DEF IInv

\* The next catalog gets a walk of its own, which holds a slot or not.
LEMMA QueueKeeps ==
  ASSUME IInv, Filling, free > 0, NEW held \in BOOLEAN, Queue(held), UNCHANGED others,
         \/ held /\ ahead' = ahead + 1 /\ UNCHANGED <<main, lost>>
         \/ ~held /\ ahead' = ahead /\ main' = "raising" /\ lost' = lost + 1
  PROVE  IInv'
<1> DEFINE c0 == ahead + 1
           w0 == [Idle EXCEPT !.st = "queued", !.thread = TRUE, !.holds = held]
<1>1. Typed /\ Held /\ SlotsExact
  BY DEF IInv
<1>2. Catalogs = 1..Len(world.catalogs) /\ Len(world.catalogs) \in Nat
  BY <1>1, FiniteHolders
<1>3. /\ index \in Int /\ ahead \in Nat /\ free \in Nat /\ lost \in Nat
      /\ \A c \in Catalogs : c \in Int
  BY <1>1, <1>2 DEF Typed
<1>4. c0 \in Catalogs /\ walker[c0].st = "off" /\ ~walker[c0].holds
  <2>1. Window <= Len(world.catalogs)
    BY <1>2, <1>3, SearchAssumption DEF Window, Least
  <2>2. Window \in Int
    BY <1>2, <1>3, SearchAssumption DEF Window, Least
  <2>3. ahead < Window
    BY DEF Filling
  <2>4. c0 \in Catalogs
    BY <1>2, <1>3, <2>1, <2>2, <2>3
  <2>5. c0 > ahead
    BY <1>3
  <2>6. main = "fill"
    BY DEF Filling
  <2>7. QED
    BY <1>1, <2>4, <2>5, <2>6 DEF Held
<1>5. walker' = [walker EXCEPT ![c0] = w0]
  BY DEF Queue
<1>6. /\ free' = free - 1 /\ UNCHANGED <<index, part, cancelled, fixed, timeUp, reply>>
  BY DEF Queue, OnlyScan
<1>7. SoundWalk(w0, c0) /\ w0.st = "queued" /\ w0.thread /\ w0.holds = held
  BY <1>4, IdleWalk DEF Idle
<1> HIDE DEF c0, w0
<1>8. /\ walker'[c0] = w0 /\ \A c \in Catalogs \ {c0} : walker'[c] = walker[c]
      /\ DOMAIN walker' = Catalogs /\ walker' = [c \in Catalogs |-> walker'[c]]
  BY <1>1, <1>4, <1>5 DEF Typed
<1>9. /\ Catalogs' = Catalogs /\ WorldTyped' /\ \A c \in Catalogs' : SoundWalk(walker[c], c)'
  <2>1. \A c \in Catalogs : walker'[c] = walker[c] \/ SoundWalk(walker'[c], c)
    BY <1>7, <1>8
  <2>2. UNCHANGED fixed
    BY <1>6
  <2>3. QED
    BY <1>1, <1>8, <2>1, <2>2, WalksTyped
<1>10. Fits(part)' /\ Cursor' = Cursor
  BY <1>1, <1>6, <1>9 DEF Typed, Fits, Part, Place, Cursor
<1>11. main = "fill"
  BY DEF Filling
<1>12. /\ main' \in {"fill", "raising"} /\ index \in Catalogs
       /\ ahead' \in 0..Len(world.catalogs) /\ free' \in Nat /\ lost' \in Nat
  BY <1>1, <1>2, <1>3, <1>4, <1>6, <1>11 DEF Typed, c0
<1>13. Typed'
  BY <1>1, <1>6, <1>8, <1>9, <1>10, <1>12 DEF Typed, Standing, reply, fixed
<1>14. Held'
  BY <1>1, <1>3, <1>6, <1>7, <1>8, <1>9, <1>12, SMTT(30) DEF Held, c0
<1>15. Holders' = IF held THEN Holders \cup {c0} ELSE Holders
  BY <1>4, <1>7, <1>8, <1>9 DEF Holders
<1>16. Cardinality(Holders') = IF held THEN Cardinality(Holders) + 1 ELSE Cardinality(Holders)
  <2>1. c0 \notin Holders /\ IsFiniteSet(Holders)
    BY <1>1, <1>4, FiniteHolders DEF Holders
  <2>2. QED
    BY <1>15, <2>1, FS_AddElement
<1>17. SlotsExact'
  <2>1. Cardinality(Holders) \in Nat /\ others \in Nat
    BY <1>1, FiniteHolders DEF Typed
  <2>2. free' + others' + lost' + Cardinality(Holders') = free + others + lost + Cardinality(Holders)
    BY <1>3, <1>6, <1>16, <2>1
  <2>3. QED
    BY <1>1, <1>12, <2>2 DEF SlotsExact
<1>18. QED
  BY <1>13, <1>14, <1>17 DEF IInv

\* The call walks its next catalog itself.
LEMMA WalkAloneKeeps ==
  ASSUME IInv, WalkAlone
  PROVE  IInv'
<1> DEFINE w0 == [Idle EXCEPT !.used = Len(part.rows)]
           w1 == Open(w0, index)
<1>1. Typed /\ Held /\ SlotsExact /\ main = "next"
  BY DEF IInv, WalkAlone
<1>2. Catalogs = 1..Len(world.catalogs) /\ Len(world.catalogs) \in Nat
  BY <1>1, FiniteHolders
<1>3. /\ index \in Catalogs /\ index \in Int /\ ahead \in Nat
      /\ \A c \in Catalogs : c \in Int
  BY <1>1, <1>2 DEF Typed
<1>4. walker[index].st = "off" /\ ~walker[index].holds
  BY <1>1, <1>3 DEF WalkAlone, Held
<1>5. index > ahead
  BY <1>1, <1>3, <1>4 DEF Held
<1>6. w0 \in WalkRecord(index) /\ ~w0.holds
  <2>1. Len(part.rows) \in 0..PageSize
    BY <1>1, SearchAssumption DEF Typed, Fits, Part
  <2>2. w0 \in WalkRecord(index)
    BY <1>3, <2>1, IdleWalk
  <2>3. ~w0.holds
    BY DEF Idle
  <2>4. QED
    BY <2>2, <2>3
<1>7. Moved(w0, w1, index)
  <2> HIDE DEF w0
  <2> QED
    BY <1>1, <1>3, <1>6, OpenWalk DEF Typed
<1>8. /\ walker' = [walker EXCEPT ![index] = w1] /\ ahead' = index
      /\ UNCHANGED <<index, part, main, cancelled, free, lost, others, timeUp, reply>>
      /\ UNCHANGED fixed
  BY DEF WalkAlone, OnlyScan
<1> HIDE DEF w0, w1
<1>9. SoundWalk(w1, index) /\ ~w1.holds /\ w1.st \notin {"off", "queued"}
  BY <1>6, <1>7 DEF Moved, Same
<1>10. /\ walker'[index] = w1 /\ \A c \in Catalogs \ {index} : walker'[c] = walker[c]
       /\ DOMAIN walker' = Catalogs /\ walker' = [c \in Catalogs |-> walker'[c]]
  BY <1>1, <1>3, <1>8 DEF Typed
<1>11. Catalogs' = Catalogs /\ WorldTyped' /\ \A c \in Catalogs' : SoundWalk(walker[c], c)'
  <2>1. \A c \in Catalogs : walker'[c] = walker[c] \/ SoundWalk(walker'[c], c)
    BY <1>9, <1>10
  <2>2. QED
    BY <1>1, <1>8, <1>10, <2>1, WalksTyped
<1>12. Fits(part)' /\ Cursor' = Cursor
  BY <1>1, <1>8, <1>11 DEF Typed, Fits, Part, Place, Cursor
<1>13. ahead' \in 0..Len(world.catalogs)
  BY <1>2, <1>3, <1>8
<1>14. Typed'
  BY <1>1, <1>8, <1>10, <1>11, <1>12, <1>13 DEF Typed, reply, fixed
<1>15. Held'
  BY <1>1, <1>3, <1>5, <1>8, <1>9, <1>10, <1>11 DEF Held
<1>16. Holders' = Holders
  BY <1>4, <1>9, <1>10, <1>11 DEF Holders
<1>17. SlotsExact'
  BY <1>1, <1>8, <1>16 DEF SlotsExact
<1>18. QED
  BY <1>14, <1>15, <1>17 DEF IInv

\* An event of the next catalog is taken.
LEMMA ReplayKeeps ==
  ASSUME IInv, Replay
  PROVE  IInv'
<1> DEFINE w == walker[index]
           v == [w EXCEPT !.events = Tail(@)]
<1>1. Typed /\ Held /\ SlotsExact /\ main = "next" /\ index \in Catalogs
  BY DEF IInv, Replay, Typed
<1>2. Catalogs = 1..Len(world.catalogs) /\ Len(world.catalogs) \in Nat
  BY <1>1, FiniteHolders
<1>3. w \in WalkRecord(index) /\ w.events \in Seq(Event(index)) /\ w.events # <<>>
      /\ w.st = "ended"
  BY <1>1 DEF Typed, SoundWalk, WalkRecord, Replay
<1>4. /\ walker' = [walker EXCEPT ![index] = v] /\ part' = Take(part, Head(w.events))
      /\ main' \in {"leaving", "next"}
      /\ UNCHANGED <<index, ahead, cancelled, free, lost, others, timeUp, reply>>
      /\ UNCHANGED fixed
  BY <1>1 DEF Replay, OnlyScan
<1> HIDE DEF w
<1>5. v \in WalkRecord(index) /\ v.st = "ended" /\ v.holds = w.holds /\ v.thread = w.thread
  <2>1. Tail(w.events) \in Seq(Event(index))
    BY <1>3
  <2>2. QED
    BY <1>3, <2>1 DEF WalkRecord
<1> HIDE DEF v
<1>6. SoundWalk(v, index)
  BY <1>5 DEF SoundWalk, OnSchema
<1>7. /\ walker'[index] = v /\ \A c \in Catalogs \ {index} : walker'[c] = walker[c]
      /\ DOMAIN walker' = Catalogs /\ walker' = [c \in Catalogs |-> walker'[c]]
  BY <1>1, <1>4 DEF Typed
<1>8. Catalogs' = Catalogs /\ WorldTyped' /\ \A c \in Catalogs' : SoundWalk(walker[c], c)'
  <2>1. \A c \in Catalogs : walker'[c] = walker[c] \/ SoundWalk(walker'[c], c)
    BY <1>6, <1>7
  <2>2. QED
    BY <1>1, <1>4, <1>7, <2>1, WalksTyped
<1>9. Fits(part')
  <2>1. Head(w.events) \in Event(index)
    BY <1>3
  <2>2. Fits(part) /\ WorldTyped
    BY <1>1 DEF Typed
  <2>3. QED
    BY <1>1, <1>4, <2>1, <2>2, TakeFits
<1>10. Fits(part)' /\ Cursor' = Cursor
  BY <1>8, <1>9 DEF Fits, Part, Place, Cursor
<1>11. Typed'
  BY <1>1, <1>4, <1>7, <1>8, <1>10 DEF Typed, Standing, reply, fixed
<1>12. \A c \in Catalogs : /\ walker'[c].st = walker[c].st
                           /\ walker'[c].holds = walker[c].holds
                           /\ walker'[c].thread = walker[c].thread
  BY <1>3, <1>5, <1>7 DEF w
<1>13. Held'
  BY <1>1, <1>4, <1>8, <1>12 DEF Held
<1>14. Holders' = Holders
  BY <1>8, <1>12 DEF Holders
<1>15. SlotsExact'
  BY <1>1, <1>4, <1>14 DEF SlotsExact
<1>16. QED
  BY <1>11, <1>13, <1>15 DEF IInv

Unstarted == {c \in Holders : walker[c].st = "queued"}

\* The pass ends: the walks that have not started give their slots back at once.
LEMMA LeaveKeeps ==
  ASSUME IInv, Leave
  PROVE  IInv'
<1>1. Typed /\ Held /\ SlotsExact
  BY DEF IInv
<1>2. /\ main' \in {"joining", "failing"} /\ cancelled' = AtOnce
      /\ walker' = [c \in Catalogs |-> IF walker[c].st = "queued"
                      THEN [walker[c] EXCEPT !.st = "dropped", !.holds = FALSE] ELSE walker[c]]
      /\ free' = free + Cardinality(Unstarted)
      /\ UNCHANGED <<index, part, ahead, lost, others, timeUp, reply>>
      /\ UNCHANGED fixed
  BY DEF Leave, OnlyScan, Unstarted
<1>3. ASSUME NEW c \in Catalogs, walker[c].st = "queued"
      PROVE  SoundWalk(walker'[c], c) /\ walker'[c].st = "dropped" /\ ~walker'[c].holds
  <2> DEFINE w == walker[c]
             v == [w EXCEPT !.st = "dropped", !.holds = FALSE]
  <2>1. w \in WalkRecord(c)
    BY <1>1 DEF Typed, SoundWalk
  <2>2. walker'[c] = v
    BY <1>2, <1>3
  <2> HIDE DEF w
  <2>3. v \in WalkRecord(c) /\ v.st = "dropped" /\ ~v.holds
    BY <2>1 DEF WalkRecord, WalkStates
  <2>4. QED
    BY <2>2, <2>3 DEF SoundWalk, OnSchema
<1>4. \A c \in Catalogs : walker[c].st # "queued" => walker'[c] = walker[c]
  BY <1>2
<1>5. Catalogs' = Catalogs /\ WorldTyped' /\ \A c \in Catalogs' : SoundWalk(walker[c], c)'
  <2>1. DOMAIN walker' = Catalogs /\ walker' = [c \in Catalogs |-> walker'[c]]
    BY <1>2
  <2>2. \A c \in Catalogs : walker'[c] = walker[c] \/ SoundWalk(walker'[c], c)
    BY <1>3, <1>4
  <2>3. QED
    BY <1>1, <1>2, <2>1, <2>2, WalksTyped
<1>6. /\ IsFiniteSet(Holders) /\ Cardinality(Holders) \in Nat
      /\ IsFiniteSet(Unstarted) /\ Cardinality(Unstarted) \in Nat
      /\ Holders \cap Unstarted = Unstarted
  BY <1>1, FiniteHolders, FS_Subset, FS_CardinalityType DEF Unstarted
<1>7. Holders' = Holders \ Unstarted
  <2>1. \A c \in Catalogs : walker'[c].holds <=> walker[c].holds /\ walker[c].st # "queued"
    BY <1>3, <1>4
  <2>2. Holders' = {c \in Catalogs : walker'[c].holds}
    BY <1>5 DEF Holders
  <2>3. QED
    BY <2>1, <2>2 DEF Holders, Unstarted
<1>8. Cardinality(Holders') = Cardinality(Holders) - Cardinality(Unstarted)
  <2>1. Cardinality(Holders \ Unstarted) = Cardinality(Holders) - Cardinality(Holders \cap Unstarted)
    BY <1>6, FS_Difference, Zenon
  <2>2. Holders \cap Unstarted = Unstarted
    BY <1>6
  <2>3. QED
    BY <1>7, <2>1, <2>2, Zenon
<1>9. cancelled' \in BOOLEAN /\ free' \in Nat
  <2>1. AtOnce \in BOOLEAN
    BY DEF AtOnce
  <2>2. cancelled' \in BOOLEAN
    BY <1>2, <2>1, Zenon
  <2>3. free \in Nat /\ Cardinality(Unstarted) \in Nat /\ free' = free + Cardinality(Unstarted)
    BY <1>1, <1>2, <1>6, Zenon DEF Typed
  <2>4. free' \in Nat
    BY <2>3
  <2>5. QED
    BY <2>2, <2>4
<1>10. Fits(part)' /\ Cursor' = Cursor
  BY <1>1, <1>2, <1>5 DEF Typed, Fits, Part, Place, Cursor
<1>11. Typed'
  <2>1. DOMAIN walker' = Catalogs /\ walker' = [c \in Catalogs |-> walker'[c]]
    BY <1>2
  <2>2. QED
    BY <1>1, <1>2, <1>5, <1>9, <1>10, <2>1 DEF Typed, Standing, reply, fixed
<1>12. Held'
  BY <1>1, <1>2, <1>3, <1>4, <1>5 DEF Held
<1>13. SlotsExact'
  <2>1. free \in Nat /\ others \in Nat /\ lost \in Nat
    BY <1>1 DEF Typed
  <2>2. free' + others' + lost' + Cardinality(Holders') = free + others + lost + Cardinality(Holders)
    <3>1. /\ free' = free + Cardinality(Unstarted) /\ others' = others /\ lost' = lost
          /\ Cardinality(Holders) \in Nat /\ Cardinality(Unstarted) \in Nat
      BY <1>2, <1>6, Zenon
    <3>2. QED
      BY <1>8, <2>1, <3>1
  <2>3. QED
    BY <1>1, <1>2, <2>2 DEF SlotsExact
<1>14. QED
  BY <1>11, <1>12, <1>13 DEF IInv

\* With no thread left and none to start, no slot is held.
LEMMA JoinedHoldsNone ==
  ASSUME IInv, Join
  PROVE  Holders = {} /\ Threads = {}
<1>1. Held /\ main \in {"joining", "failing"} /\ Threads = {}
  BY DEF IInv, Join
<1>2. Holders \subseteq Threads
  BY <1>1 DEF Held, Holders, Threads
<1>3. QED
  BY <1>1, <1>2

\* The call ends, and says what it found.
LEMMA EndKeeps ==
  ASSUME IInv, Answer \/ Fail
  PROVE  IInv'
<1>1. Typed /\ Held /\ SlotsExact
  BY DEF IInv
<1>2. /\ Join /\ main' = "done"
      /\ UNCHANGED <<fixed, index, ahead, walker, cancelled, slotVars, timeUp, part>>
  BY DEF Answer, Fail, Join, OnlyAnswer, fixed
<1>3. UNCHANGED <<world, walker>>
  BY <1>2 DEF fixed
<1>4. /\ Catalogs' = Catalogs /\ Holders' = Holders /\ Threads' = Threads
      /\ \A c \in Catalogs : SoundWalk(walker[c], c)'
  BY <1>1, <1>3, StillWalks
<1>5. Holders = {} /\ Threads = {}
  BY <1>2, JoinedHoldsNone
<1>6. /\ next' \in Cursor \cup {NoCursor} /\ complete' \in BOOLEAN
      /\ outcome' \in {"none", "answered", "failed"}
  <2>1. CASE Fail
    BY <2>1 DEF Fail
  <2>2. CASE Answer
    <3>1. part.stop \in Place \cup {NoStop} /\ mode \in Modes
      BY <1>1 DEF Typed, WorldTyped, Fits, Part
    <3>2. Flags.gaps \in BOOLEAN /\ Flags.found \in BOOLEAN /\ Whole \in BOOLEAN
      BY DEF Flags, Whole
    <3>3. part.stop # NoStop =>
            [at |-> part.stop, mode |-> mode, gaps |-> Flags.gaps, found |-> Flags.found] \in Cursor
      BY <3>1, <3>2 DEF Cursor
    <3>4. QED
      BY <2>2, <3>2, <3>3 DEF Answer, Finished
  <2>3. QED
    BY <2>1, <2>2
<1>7. WorldTyped' /\ Fits(part)' /\ Cursor' = Cursor
  BY <1>1, <1>2, <1>4 DEF Typed, WorldTyped, fixed, Fits, Part, Cursor, Place
<1>8. Typed'
  BY <1>1, <1>2, <1>3, <1>4, <1>6, <1>7 DEF Typed, fixed, slotVars, Standing
<1>9. Held'
  BY <1>1, <1>2, <1>4 DEF Held, Join
<1>10. SlotsExact'
  BY <1>1, <1>2, <1>4, <1>5 DEF SlotsExact, slotVars
<1>11. QED
  BY <1>8, <1>9, <1>10 DEF IInv

\* A pass begins, with no slot held.
LEMMA ScanKeeps ==
  ASSUME IInv, Holders = {}, NEW m \in Modes, NEW cursor \in Cursor \cup {NoCursor},
         Scan(m, cursor), UNCHANGED <<world, slotVars>>,
         timeUp' \in BOOLEAN, next' \in Cursor \cup {NoCursor}, complete' \in BOOLEAN,
         outcome' \in {"none", "answered", "failed"}, calls' \in 1..MaxCalls
  PROVE  IInv'
<1>1. Typed /\ Held /\ SlotsExact
  BY DEF IInv
<1>2. Catalogs = 1..Len(world.catalogs) /\ Len(world.catalogs) \in Nat \ {0}
  <2>1. world.catalogs \in Seq(CatalogRecord) /\ world.catalogs # <<>>
    BY <1>1 DEF Typed, WorldTyped, World
  <2>2. Len(world.catalogs) # 0
    BY <2>1
  <2>3. QED
    BY <1>1, <2>2, FiniteHolders
<1>3. Catalogs' = Catalogs /\ Cursor' = Cursor
  BY DEF Catalogs, Cursor, Place
<1>4. /\ mode' = m /\ begin' = cursor /\ index' = FirstOf(cursor) /\ ahead' = index' - 1
      /\ walker' = [c \in Catalogs |-> Idle] /\ cancelled' = FALSE /\ part' = Nothing
      /\ main' = "fill"
  BY DEF Scan
<1>5. FirstOf(cursor) \in Catalogs
  BY <1>2 DEF FirstOf, Cursor, Place
<1>6. index' \in Catalogs /\ ahead' \in 0..Len(world.catalogs)
      /\ index' \in 1..(Len(world.catalogs) + 1)
  BY <1>2, <1>4, <1>5
<1>7. WorldTyped'
  BY <1>1, <1>3, <1>4 DEF Typed, WorldTyped
<1>8. \A c \in Catalogs : SoundWalk(walker[c], c)'
  <2>1. \A c \in Catalogs : SoundWalk(Idle, c) /\ walker'[c] = Idle
    BY <1>4, IdleWalk
  <2>2. QED
    BY <2>1 DEF SoundWalk, OnSchema, Idle
<1>9. Fits(part)'
  <2>1. Fits(part')
    BY <1>4, NothingFits
  <2>2. QED
    BY <1>3, <2>1 DEF Fits, Part, Place
<1>10. DOMAIN walker' = Catalogs /\ walker' = [c \in Catalogs |-> walker'[c]]
  BY <1>4
<1>11. Typed'
  BY <1>1, <1>3, <1>4, <1>6, <1>7, <1>8, <1>9, <1>10 DEF Typed, Standing, slotVars
<1>12. Holders' = {} /\ \A c \in Catalogs : walker'[c].st = "off" /\ ~walker'[c].holds
  BY <1>3, <1>4 DEF Holders, Idle
<1>13. Held'
  <2>1. index' \in Int /\ \A c \in Catalogs : c \in Int
    BY <1>2, <1>6
  <2>2. QED
    BY <1>3, <1>4, <1>12, <2>1 DEF Held
<1>14. SlotsExact'
  BY <1>1, <1>4, <1>12 DEF SlotsExact, slotVars
<1>15. QED
  BY <1>11, <1>13, <1>14 DEF IInv

LEMMA EachWordKeeps ==
  ASSUME IInv, EachWord
  PROVE  IInv'
<1>1. Holders = {} /\ Typed
  BY JoinedHoldsNone DEF EachWord, IInv
<1>2. /\ Scan("per_word", NoCursor) /\ UNCHANGED <<world, slotVars>>
      /\ UNCHANGED <<timeUp, next, complete, outcome, calls>>
  BY DEF EachWord, reply, OnlyAnswer
<1>3. "per_word" \in Modes
  BY DEF Modes
<1>4. QED
  BY <1>1, <1>2, <1>3, ScanKeeps DEF Typed

LEMMA ResumeKeeps ==
  ASSUME IInv, Resume
  PROVE  IInv'
<1>1. Holders = {} /\ Typed
  BY DEF Resume, IInv, SlotsExact
<1>2. next \in Cursor /\ next.mode \in Modes
  BY <1>1 DEF Typed, Resume, Cursor
<1>3. calls' \in 1..MaxCalls
  BY <1>1, SearchAssumption DEF Typed, Resume
<1>4. /\ Scan(next.mode, next) /\ UNCHANGED <<world, slotVars>>
      /\ timeUp' \in BOOLEAN /\ next' \in Cursor \cup {NoCursor} /\ complete' \in BOOLEAN
      /\ outcome' \in {"none", "answered", "failed"}
  BY DEF Resume
<1>5. QED
  BY <1>1, <1>2, <1>3, <1>4, ScanKeeps

-----------------------------------------------------------------------------
(* The steps of the walks *)

\* One walk moves, and keeps its slot or gives it back.
LEMMA WalkMoves ==
  ASSUME IInv, NEW c \in Catalogs, NEW v, SoundWalk(v, c),
         walker[c].st # "off", v.st \notin {"off", "queued"}, v.thread = walker[c].thread,
         main = "done" => ~walker[c].thread,
         walker' = [walker EXCEPT ![c] = v], OnlyWalk,
         \/ v.holds = walker[c].holds /\ free' = free
         \/ walker[c].holds /\ ~v.holds /\ free' = free + 1
  PROVE  IInv'
<1>1. Typed /\ Held /\ SlotsExact
  BY DEF IInv
<1>2. /\ walker'[c] = v /\ \A d \in Catalogs \ {c} : walker'[d] = walker[d]
      /\ DOMAIN walker' = Catalogs /\ walker' = [d \in Catalogs |-> walker'[d]]
  BY <1>1 DEF Typed
<1>3. UNCHANGED <<main, index, ahead, cancelled, others, lost, timeUp, part, reply>> /\ UNCHANGED fixed
  BY DEF OnlyWalk, fixed
<1>4. Catalogs' = Catalogs /\ WorldTyped' /\ \A d \in Catalogs' : SoundWalk(walker[d], d)'
  <2>1. \A d \in Catalogs : walker'[d] = walker[d] \/ SoundWalk(walker'[d], d)
    BY <1>2
  <2>2. QED
    BY <1>1, <1>2, <1>3, <2>1, WalksTyped
<1>5. Fits(part)' /\ Cursor' = Cursor
  BY <1>1, <1>3, <1>4 DEF Typed, Fits, Part, Place, Cursor
<1>6. free' \in Nat
  BY <1>1 DEF Typed
<1>7. Typed'
  BY <1>1, <1>2, <1>3, <1>4, <1>5, <1>6 DEF Typed, reply, fixed
<1>8. Held'
  BY <1>1, <1>2, <1>3, <1>4 DEF Held
<1>9. Holders' = IF v.holds \/ ~walker[c].holds THEN Holders ELSE Holders \ {c}
  <2>1. Holders' = {d \in Catalogs : walker'[d].holds}
    BY <1>4 DEF Holders
  <2>2. v.holds => walker[c].holds
    OBVIOUS
  <2>3. QED
    BY <1>2, <2>1, <2>2 DEF Holders
<1>10. free' + Cardinality(Holders') = free + Cardinality(Holders)
  <2>1. IsFiniteSet(Holders) /\ Cardinality(Holders) \in Nat /\ free \in Nat
    BY <1>1, FiniteHolders DEF Typed
  <2>2. CASE v.holds = walker[c].holds /\ free' = free
    BY <1>9, <2>2
  <2>3. CASE walker[c].holds /\ ~v.holds /\ free' = free + 1
    <3>1. c \in Holders /\ Holders' = Holders \ {c}
      BY <1>9, <2>3 DEF Holders
    <3>2. Cardinality(Holders') = Cardinality(Holders) - 1
      BY <2>1, <3>1, FS_RemoveElement
    <3>3. QED
      BY <2>1, <2>3, <3>2
  <2>4. QED
    BY <2>2, <2>3
<1>11. main' = "done" => Holders' = {} /\ Threads' = {}
  <2> SUFFICES ASSUME main' = "done" PROVE Holders' = {} /\ Threads' = {}
    OBVIOUS
  <2>1. Holders = {} /\ Threads = {} /\ ~walker[c].thread /\ ~v.thread
    BY <1>1, <1>3 DEF SlotsExact
  <2>2. Holders' = {}
    BY <1>9, <2>1
  <2>3. \A d \in Catalogs : d \in Threads' => d \in Threads
    BY <1>2, <1>4, <2>1 DEF Threads
  <2>4. Threads' \subseteq Catalogs
    BY <1>4 DEF Threads
  <2>5. QED
    BY <2>1, <2>2, <2>3, <2>4
<1>12. SlotsExact'
  <2>1. /\ others \in Nat /\ lost \in Nat /\ free \in Nat
        /\ Cardinality(Holders) \in Nat /\ Cardinality(Holders') \in Nat
    <3>1. IsFiniteSet(Holders) /\ Holders' \subseteq Holders
      BY <1>1, <1>9, FiniteHolders
    <3>2. Cardinality(Holders) \in Nat /\ Cardinality(Holders') \in Nat
      BY <3>1, FS_Subset, FS_CardinalityType
    <3>3. QED
      BY <1>1, <3>2 DEF Typed
  <2>2. free' + others' + lost' + Cardinality(Holders') = free + others + lost + Cardinality(Holders)
    BY <1>3, <1>6, <1>10, <2>1
  <2>3. QED
    BY <1>1, <1>11, <2>2 DEF SlotsExact
<1>13. QED
  BY <1>7, <1>8, <1>12 DEF IInv

\* No walk of a thread moves once the call is over.
LEMMA QuietOnceDone ==
  ASSUME IInv, NEW c \in Catalogs, main = "done",
         walker[c].st \in {"queued", "asking", "reading"} \/ walker[c].holds
  PROVE  ~walker[c].thread
<1>1. Threads = {} /\ Holders = {} /\ walker[c].st # "queued"
  BY DEF IInv, SlotsExact, Held
<1>2. QED
  BY <1>1 DEF Threads, Holders

\* A walk goes on, with the slot it holds.
LEMMA WalkGoesOn ==
  ASSUME IInv, NEW c \in Catalogs, NEW v, Moved(walker[c], v, c),
         walker[c].st \in {"queued", "asking", "reading"},
         walker' = [walker EXCEPT ![c] = v], UNCHANGED free, OnlyWalk
  PROVE  IInv'
<1>1. main = "done" => ~walker[c].thread
  BY QuietOnceDone
<1>2. /\ SoundWalk(v, c) /\ v.st \notin {"off", "queued"}
      /\ v.thread = walker[c].thread /\ v.holds = walker[c].holds
  BY DEF Moved, Same
<1>3. QED
  BY <1>1, <1>2, WalkMoves

\* It is dropped, raises, or sends its statement.
LEMMA StateWalk ==
  ASSUME NEW c \in Catalogs, NEW w, SoundWalk(w, c)
  PROVE  /\ Moved(w, [w EXCEPT !.st = "dropped"], c)
         /\ Moved(w, [w EXCEPT !.st = "raised"], c)
         /\ w.st = "asking" => Moved(w, [w EXCEPT !.st = "reading"], c)
<1>1. ASSUME NEW st \in {"dropped", "raised", "reading"}, st = "reading" => w.st = "asking"
      PROVE  Moved(w, [w EXCEPT !.st = st], c)
  <2> DEFINE v == [w EXCEPT !.st = st]
  <2>1. /\ v \in WalkRecord(c) /\ v.st = st /\ v.at = w.at /\ v.listing = w.listing
        /\ v.holds = w.holds /\ v.thread = w.thread
    BY DEF SoundWalk, WalkRecord, WalkStates
  <2> HIDE DEF v
  <2>2. st = "reading" => w.st = "asking"
    BY <1>1
  <2>3. OnSchema(v, c)
    BY <2>1, <2>2 DEF SoundWalk, OnSchema
  <2>4. Moved(w, v, c)
    BY <2>1, <2>3 DEF Moved, Same, SoundWalk
  <2>5. QED
    BY <2>4 DEF v
<1>2. QED
  BY <1>1

LEMMA WalkKeeps ==
  ASSUME IInv, NEW c \in Catalogs, Walk(c)
  PROVE  IInv'
<1>1. WorldTyped /\ SoundWalk(walker[c], c) /\ walker[c] \in WalkRecord(c)
  BY DEF IInv, Typed, SoundWalk
<1>2. Moved(walker[c], OutOfTime(walker[c], c), c) /\ Moved(walker[c], Open(walker[c], c), c)
  BY <1>1, OutOfTimeWalk, OpenWalk
<1>3. CASE Begin(c)
  <2>1. /\ walker[c].st = "queued" /\ UNCHANGED free /\ OnlyWalk
        /\ walker' = [walker EXCEPT ![c] = Open(walker[c], c)]
    BY <1>3 DEF Begin
  <2>2. QED
    BY <1>2, <2>1, WalkGoesOn
<1>4. CASE Ask(c)
  <2>1. walker[c].st = "asking" /\ UNCHANGED free /\ OnlyWalk
    BY <1>4 DEF Ask
  <2>2. CASE walker[c].thread /\ cancelled
    <3>1. walker' = [walker EXCEPT ![c] = [walker[c] EXCEPT !.st = "dropped"]]
      BY <1>4, <2>2 DEF Ask
    <3>2. QED
      BY <1>1, <2>1, <3>1, StateWalk, WalkGoesOn
  <2>3. CASE ~(walker[c].thread /\ cancelled) /\ timeUp
    <3>1. walker' = [walker EXCEPT ![c] = OutOfTime(walker[c], c)]
      BY <1>4, <2>3 DEF Ask
    <3>2. QED
      BY <1>2, <2>1, <3>1, WalkGoesOn
  <2>4. CASE ~(walker[c].thread /\ cancelled) /\ ~timeUp
    <3>1. walker' = [walker EXCEPT ![c] = [walker[c] EXCEPT !.st = "reading"]]
      BY <1>4, <2>4 DEF Ask
    <3>2. QED
      BY <1>1, <2>1, <3>1, StateWalk, WalkGoesOn
  <2>5. QED
    BY <2>2, <2>3, <2>4
<1>5. CASE Answers(c)
  <2>1. /\ walker[c].st = "reading" /\ UNCHANGED free /\ OnlyWalk
        /\ walker' = [walker EXCEPT ![c] = Answered(walker[c], c)]
    BY <1>5 DEF Answers
  <2>2. Moved(walker[c], Answered(walker[c], c), c)
    BY <1>1, <2>1, AnsweredWalk
  <2>3. QED
    BY <2>1, <2>2, WalkGoesOn
<1>6. CASE TimesOut(c)
  <2>1. /\ walker[c].st = "reading" /\ UNCHANGED free /\ OnlyWalk
        /\ walker' = [walker EXCEPT ![c] = OutOfTime(walker[c], c)]
    BY <1>6 DEF TimesOut
  <2>2. QED
    BY <1>2, <2>1, WalkGoesOn
<1>7. CASE CallTimesOut(c)
  <2>1. /\ walker[c].st = "reading" /\ UNCHANGED free /\ OnlyWalk
        /\ walker' = [walker EXCEPT ![c] = [walker[c] EXCEPT !.st = "raised"]]
    BY <1>7 DEF CallTimesOut
  <2>2. QED
    BY <1>1, <2>1, StateWalk, WalkGoesOn
<1>8. CASE IsCancelled(c)
  <2>1. /\ walker[c].st = "reading" /\ UNCHANGED free /\ OnlyWalk
        /\ walker' = [walker EXCEPT ![c] = [walker[c] EXCEPT !.st = "dropped"]]
    BY <1>8 DEF IsCancelled
  <2>2. QED
    BY <1>1, <2>1, StateWalk, WalkGoesOn
<1>9. CASE Release(c)
  <2> DEFINE v == [walker[c] EXCEPT !.holds = FALSE]
  <2>1. /\ walker[c].holds /\ walker[c].st \in {"ended", "raised", "dropped"}
        /\ walker' = [walker EXCEPT ![c] = v] /\ free' = free + 1 /\ OnlyWalk
    BY <1>9 DEF Release
  <2>2. v \in WalkRecord(c) /\ v.st = walker[c].st /\ v.thread = walker[c].thread /\ ~v.holds
    BY <1>1 DEF WalkRecord
  <2>3. SoundWalk(v, c)
    BY <2>1, <2>2 DEF SoundWalk, OnSchema
  <2>4. main = "done" => ~walker[c].thread
    BY <2>1, QuietOnceDone
  <2> HIDE DEF v
  <2>5. QED
    BY <2>1, <2>2, <2>3, <2>4, WalkMoves
<1>10. QED
  BY <1>3, <1>4, <1>5, <1>6, <1>7, <1>8, <1>9 DEF Walk

-----------------------------------------------------------------------------
(* The theorems *)

LEMMA StepHolds == IInv /\ [Next]_vars => IInv'
<1> SUFFICES ASSUME IInv, [Next]_vars PROVE IInv'
  OBVIOUS
<1>1. CASE Fill
  BY <1>1, QueueKeeps DEF Fill, Queue, OnlyScan
<1>2. CASE FillFails
  BY <1>2, QueueKeeps DEF FillFails, Queue, OnlyScan
<1>3. CASE Filled \/ Replayed \/ ReplayRaises
  BY <1>3, ControlKeeps
<1>4. CASE WalkAlone
  BY <1>4, WalkAloneKeeps
<1>5. CASE Replay
  BY <1>5, ReplayKeeps
<1>6. CASE Leave
  BY <1>6, LeaveKeeps
<1>7. CASE Answer \/ Fail
  BY <1>7, EndKeeps
<1>8. CASE EachWord
  BY <1>8, EachWordKeeps
<1>9. CASE Resume
  BY <1>9, ResumeKeeps
<1>10. CASE \E c \in Catalogs : Walk(c)
  BY <1>10, WalkKeeps
<1>11. CASE TimePasses \/ OthersTake \/ OthersGive \/ UNCHANGED vars
  BY <1>11, OutsideKeeps
<1>12. QED
  BY <1>1, <1>2, <1>3, <1>4, <1>5, <1>6, <1>7, <1>8, <1>9, <1>10, <1>11
  DEF Next, Main, Over

LEMMA IInvHolds == Spec => []IInv
  BY InitHolds, StepHolds, PTL DEF Spec

\* Every variable of a search stays of its type, and no answer passes the page, for
\* any catalogs, concurrency and slots (scan, walk, replay).
THEOREM SearchTypeCorrect == Spec => []TypeOK
<1>1. IInv => TypeOK
  <2> SUFFICES ASSUME IInv PROVE TypeOK
    OBVIOUS
  <2>1. Typed /\ SlotsExact
    BY DEF IInv
  <2>2. \A c \in Catalogs : walker[c].st \in WalkStates /\ walker[c].used \in 0..PageSize
    BY <2>1 DEF Typed, SoundWalk, WalkRecord
  <2>3. free \in 0..MaxThreads /\ others \in 0..MaxThreads /\ lost \in 0..MaxThreads
    BY <2>1, FiniteHolders, SearchAssumption, SMTT(30) DEF Typed, SlotsExact
  <2>4. QED
    BY <2>1, <2>2, <2>3 DEF Typed, WorldTyped, Standing, Fits, TypeOK
<1>2. QED
  BY <1>1, IInvHolds, PTL

\* A slot is free, held for one walk, or another call's, at every step of any search,
\* and a call that is over holds none (fill, the finally of scan).
THEOREM SlotsExactHolds == Spec => []SlotsExact
<1>1. IInv => SlotsExact
  BY DEF IInv
<1>2. QED
  BY <1>1, IInvHolds, PTL

-----------------------------------------------------------------------------
(* The cursor advances *)

\* A point past the cursor the pass began at, or the cursor itself.
Past(p)      == begin # NoCursor => Precedes(begin.at, p)
NotBefore(p) == begin # NoCursor => p = begin.at \/ Precedes(begin.at, p)
Spot(c, at)  == <<c, at[1], at[2], at[3]>>
Pointed  == {"open", "before", "stop", "rows"}
Finds(e) == e.kind = "rows" /\ e.n > 0
FoundIn(q) == \E i \in DOMAIN q : Finds(q[i])

\* A walk tells of points in order: once it has told of rows, only of points past the
\* cursor, and it never stops at the cursor itself.
EventsOrdered(q) ==
  /\ \A i \in DOMAIN q :
       /\ q[i].kind \in Pointed => NotBefore(q[i].at)
       /\ q[i].kind = "stop" => Past(q[i].at)
       /\ q[i].kind = "rows" /\ q[i].more => q[i].n > 0
  /\ \A i, j \in DOMAIN q : i < j /\ Finds(q[i]) /\ q[j].kind \in Pointed => Past(q[j].at)

\* A walk that asks stands at a point it may tell of, with room left.
WalkOrder(w, c) ==
  /\ EventsOrdered(w.events)
  /\ w.st \in {"off", "queued"} => w.events = <<>>
  /\ w.st \in {"asking", "reading"} =>
       /\ w.used < PageSize /\ NotBefore(Spot(c, w.at))
       /\ FoundIn(w.events) => Past(Spot(c, w.at)) /\ ~w.listing

PointsPast(q) == \A i \in DOMAIN q : q[i].kind \in Pointed => Past(q[i].at)

\* A pass that has rows has left the cursor behind, in the catalog it replays too.
Ordered ==
  /\ \A c \in Catalogs : WalkOrder(walker[c], c) /\ (walker[c].st # "off" => c >= FirstOf(begin))
  /\ index >= FirstOf(begin) /\ ahead + 1 >= FirstOf(begin)
  /\ part.rows # <<>> => index > FirstOf(begin)
                         \/ (walker[index].st = "ended" /\ PointsPast(walker[index].events))
  /\ part.stop # NoStop => Past(part.stop)
  /\ next # NoCursor => Past(next.at)

\* A point comes before another when the first of their numbers that differs does.
LEMMA PrecedesIs ==
  ASSUME NEW a \in Row, NEW b \in Row
  PROVE  Precedes(a, b) <=> \/ a[1] < b[1]
                            \/ a[1] = b[1] /\ a[2] < b[2]
                            \/ a[1] = b[1] /\ a[2] = b[2] /\ a[3] < b[3]
                            \/ a[1] = b[1] /\ a[2] = b[2] /\ a[3] = b[3] /\ a[4] < b[4]
<1>1. ASSUME NEW k \in 1..4
      PROVE  (\A j \in 1..(k - 1) : a[j] = b[j]) <=> /\ k > 1 => a[1] = b[1]
                                                     /\ k > 2 => a[2] = b[2]
                                                     /\ k > 3 => a[3] = b[3]
  <2>1. \A j \in 1..(k - 1) : j \in {1, 2, 3} /\ j < k
    OBVIOUS
  <2>2. \A j \in {1, 2, 3} : j < k => j \in 1..(k - 1)
    OBVIOUS
  <2>3. QED
    BY <2>1, <2>2
<1>2. 1..4 = {1, 2, 3, 4}
  OBVIOUS
<1>3. QED
  BY <1>1, <1>2 DEF Precedes

Numbered(p) == p[1] \in Int /\ p[2] \in Int /\ p[3] \in Int /\ p[4] \in Int

LEMMA RowsNumbered ==
  ASSUME NEW a \in Row
  PROVE  Numbered(a) /\ a = <<a[1], a[2], a[3], a[4]>>
  BY DEF Row, Phases, Tables, Columns, Numbered

LEMMA BeginRow ==
  ASSUME WorldTyped, begin # NoCursor
  PROVE  begin.at \in Row /\ begin.at[1] \in Catalogs /\ FirstOf(begin) = begin.at[1]
<1>1. begin.at \in Place
  BY DEF WorldTyped, Cursor
<1>2. QED
  BY <1>1 DEF Place, Row, Catalogs, FirstOf

\* What comes after a point the pass may reach is past where it began.
LEMMA Later ==
  ASSUME WorldTyped, NEW p \in Row, NEW q \in Row, NotBefore(p), Precedes(p, q)
  PROVE  Past(q)
<1>1. CASE begin = NoCursor
  BY <1>1 DEF Past
<1>2. CASE begin # NoCursor
  <2> DEFINE b == begin.at
  <2>1. b \in Row
    BY <1>2, BeginRow
  <2>2. b = p \/ Precedes(b, p)
    BY <1>2 DEF NotBefore
  <2> HIDE DEF b
  <2>3. Numbered(b) /\ Numbered(p) /\ Numbered(q)
    BY <2>1, RowsNumbered
  <2>4. Precedes(b, q)
    BY <2>1, <2>2, <2>3, PrecedesIs DEF Numbered
  <2>5. QED
    BY <2>4 DEF Past, b
<1>3. QED
  BY <1>1, <1>2

LEMMA PastIsNotBefore ==
  ASSUME NEW p, Past(p)
  PROVE  NotBefore(p)
  BY DEF Past, NotBefore

LEMMA NextCatalog ==
  ASSUME WorldTyped, NEW p \in Row, p[1] > FirstOf(begin)
  PROVE  Past(p)
<1>1. CASE begin = NoCursor
  BY <1>1 DEF Past
<1>2. CASE begin # NoCursor
  <2>1. begin.at \in Row /\ FirstOf(begin) = begin.at[1]
    BY <1>2, BeginRow
  <2>2. Numbered(p) /\ Numbered(begin.at)
    BY <2>1, RowsNumbered
  <2>3. QED
    BY <2>1, <2>2, PrecedesIs DEF Past, Numbered
<1>3. QED
  BY <1>1, <1>2

\* The places a walk goes to from one it may stand in.
LEMMA GoesOnPast ==
  ASSUME WorldTyped, NEW c \in Catalogs, NEW s \in Nat, NEW ph \in Phases, NEW o \in Nat,
         NotBefore(<<c, s, ph, o>>)
  PROVE  /\ Past(<<c, s + 1, Tables, 0>>)
         /\ ph = Tables => Past(<<c, s, Columns, 0>>)
         /\ \A n \in Nat \ {0} : Past(<<c, s, ph, o + n>>)
<1> DEFINE p == <<c, s, ph, o>>
<1>1. c \in Nat
  BY DEF Catalogs
<1>2. p \in Row
  BY <1>1 DEF Row
<1>3. <<c, s + 1, Tables, 0>> \in Row /\ <<c, s, Columns, 0>> \in Row
      /\ \A n \in Nat \ {0} : <<c, s, ph, o + n>> \in Row
  BY <1>1 DEF Row, Phases
<1>4. Precedes(p, <<c, s + 1, Tables, 0>>)
  BY <1>1, <1>2, <1>3, PrecedesIs
<1>5. ph = Tables => Precedes(p, <<c, s, Columns, 0>>)
  BY <1>1, <1>2, <1>3, PrecedesIs DEF Tables, Columns
<1>6. ASSUME NEW n \in Nat \ {0} PROVE Precedes(p, <<c, s, ph, o + n>>)
  <2>1. <<c, s, ph, o + n>> \in Row
    BY <1>3
  <2>2. QED
    BY <1>1, <1>2, <2>1, PrecedesIs
<1> HIDE DEF p
<1>7. QED
  BY <1>2, <1>3, <1>4, <1>5, <1>6, Later DEF p

LEMMA SpotRow ==
  ASSUME NEW c \in Catalogs, NEW at \in At
  PROVE  Spot(c, at) \in Row
<1>1. c \in Nat
  BY DEF Catalogs
<1>2. QED
  BY <1>1 DEF Spot, At, Row

LEMMA PointRow ==
  ASSUME NEW c \in Catalogs, NEW e \in Event(c), e.kind \in Pointed
  PROVE  e.at \in Row /\ e.at[1] = c /\ e.at \in PlaceOf(c)
<1>1. e.at \in PlaceOf(c)
  BY DEF Event, Pointed
<1>2. c \in Nat
  BY DEF Catalogs
<1>3. QED
  BY <1>1, <1>2 DEF PlaceOf, Row

LEMMA EntryReached ==
  ASSUME WorldTyped, NEW c \in Catalogs, c >= FirstOf(begin)
  PROVE  NotBefore(Spot(c, Entry(c)))
<1>1. CASE begin = NoCursor
  BY <1>1 DEF NotBefore
<1>2. CASE begin # NoCursor /\ begin.at[1] = c
  <2>1. begin.at = <<begin.at[1], begin.at[2], begin.at[3], begin.at[4]>>
    BY <1>2, BeginRow, RowsNumbered
  <2>2. Entry(c) = <<begin.at[2], begin.at[3], begin.at[4]>>
    BY <1>2 DEF Entry
  <2>3. Spot(c, Entry(c)) = begin.at
    BY <1>2, <2>1, <2>2 DEF Spot
  <2>4. QED
    BY <2>3 DEF NotBefore
<1>3. CASE begin # NoCursor /\ begin.at[1] # c
  <2>1. c > FirstOf(begin) /\ Spot(c, Entry(c)) \in Row
    BY <1>3, BeginRow, EntryType, SpotRow DEF Catalogs
  <2>2. Spot(c, Entry(c))[1] = c
    BY DEF Spot
  <2>3. QED
    BY <2>1, <2>2, NextCatalog, PastIsNotBefore
<1>4. QED
  BY <1>1, <1>2, <1>3

-----------------------------------------------------------------------------
(* Queues of events *)

LEMMA EventAdded ==
  ASSUME NEW S, NEW q \in Seq(S), NEW e \in S
  PROVE  /\ DOMAIN Append(q, e) = DOMAIN q \cup {Len(q) + 1} /\ Append(q, e)[Len(q) + 1] = e
         /\ \A i \in DOMAIN q : Append(q, e)[i] = q[i] /\ i < Len(q) + 1 /\ i \in Nat
         /\ Len(q) \in Nat
OBVIOUS

LEMMA EventTaken ==
  ASSUME NEW S, NEW q \in Seq(S), q # <<>>
  PROVE  /\ Head(q) = q[1] /\ 1 \in DOMAIN q /\ Tail(q) \in Seq(S) /\ Head(q) \in S
         /\ \A i \in DOMAIN Tail(q) : /\ i \in Nat \ {0} /\ i + 1 \in DOMAIN q /\ 1 < i + 1
                                      /\ Tail(q)[i] = q[i + 1]
OBVIOUS

\* What may be told after the events of a walk.
TellsWell(w, e) ==
  /\ e.kind \in Pointed => NotBefore(e.at) /\ (FoundIn(w.events) => Past(e.at))
  /\ e.kind = "stop" => Past(e.at)
  /\ e.kind = "rows" /\ e.more => e.n > 0

LEMMA TellOrder ==
  ASSUME NEW c \in Catalogs, NEW w \in WalkRecord(c), NEW e \in Event(c),
         EventsOrdered(w.events), TellsWell(w, e)
  PROVE  /\ EventsOrdered(Add(w, e).events)
         /\ FoundIn(Add(w, e).events) <=> FoundIn(w.events) \/ Finds(e)
<1> DEFINE q == w.events
           r == Append(q, e)
<1>1. q \in Seq(Event(c)) /\ Add(w, e).events = r
  BY DEF WalkRecord, Add
<1>2. /\ DOMAIN r = DOMAIN q \cup {Len(q) + 1} /\ r[Len(q) + 1] = e /\ Len(q) \in Nat
      /\ \A i \in DOMAIN q : r[i] = q[i] /\ i < Len(q) + 1 /\ i \in Nat
  BY <1>1, EventAdded
<1> HIDE DEF q, r
<1>3. FoundIn(r) <=> FoundIn(q) \/ Finds(e)
  BY <1>2 DEF FoundIn
<1>4. \A i \in DOMAIN r : /\ r[i].kind \in Pointed => NotBefore(r[i].at)
                          /\ r[i].kind = "stop" => Past(r[i].at)
                          /\ r[i].kind = "rows" /\ r[i].more => r[i].n > 0
  BY <1>2 DEF EventsOrdered, TellsWell, q
<1>5. \A i, j \in DOMAIN r : i < j /\ Finds(r[i]) /\ r[j].kind \in Pointed => Past(r[j].at)
  <2>1. SUFFICES ASSUME NEW i \in DOMAIN r, NEW j \in DOMAIN r, i < j, Finds(r[i]), r[j].kind \in Pointed
                 PROVE  Past(r[j].at)
    OBVIOUS
  <2>2. i \in DOMAIN q /\ r[i] = q[i]
    BY <1>2, <2>1
  <2>3. CASE j \in DOMAIN q
    BY <1>2, <2>1, <2>2, <2>3 DEF EventsOrdered, q
  <2>4. CASE j = Len(q) + 1
    BY <1>2, <2>1, <2>2, <2>4 DEF TellsWell, FoundIn, q
  <2>5. QED
    BY <1>2, <2>3, <2>4
<1>6. QED
  BY <1>1, <1>3, <1>4, <1>5 DEF EventsOrdered, q

LEMMA TailOrder ==
  ASSUME NEW c \in Catalogs, NEW q \in Seq(Event(c)), q # <<>>, EventsOrdered(q)
  PROVE  /\ EventsOrdered(Tail(q))
         /\ PointsPast(q) => PointsPast(Tail(q))
         /\ Finds(Head(q)) => PointsPast(Tail(q))
<1> DEFINE r == Tail(q)
<1>1. /\ Head(q) = q[1] /\ 1 \in DOMAIN q
      /\ \A i \in DOMAIN r : i \in Nat \ {0} /\ i + 1 \in DOMAIN q /\ 1 < i + 1 /\ r[i] = q[i + 1]
  BY EventTaken
<1> HIDE DEF r
<1>2. \A i, j \in DOMAIN r : i < j => i + 1 < j + 1
  BY <1>1
<1>3. EventsOrdered(r)
  BY <1>1, <1>2 DEF EventsOrdered
<1>4. PointsPast(q) => PointsPast(r)
  BY <1>1 DEF PointsPast
<1>5. Finds(Head(q)) => PointsPast(r)
  BY <1>1 DEF EventsOrdered, PointsPast
<1>6. QED
  BY <1>3, <1>4, <1>5 DEF r

-----------------------------------------------------------------------------
(* What a walk tells, in order *)

LEMMA EndOrder ==
  ASSUME NEW c \in Catalogs, NEW w \in WalkRecord(c), EventsOrdered(w.events)
  PROVE  WalkOrder(End(w), c)
<1>1. End(w).events = w.events /\ End(w).st = "ended"
  BY DEF End, WalkRecord
<1>2. QED
  BY <1>1 DEF WalkOrder

LEMMA SignTells ==
  ASSUME NEW w, NEW c, NEW s
  PROVE  TellsWell(w, Gap(c, s)) /\ TellsWell(w, Sign("searched")) /\ TellsWell(w, Sign("error"))
         /\ ~Finds(Gap(c, s)) /\ ~Finds(Sign("searched")) /\ ~Finds(Sign("error"))
  BY DEF TellsWell, Gap, Sign, Pointed, Finds

LEMMA PointTells ==
  ASSUME NEW w, NEW c, NEW at, NEW kind \in {"open", "before", "stop"},
         NotBefore(Spot(c, at)), FoundIn(w.events) \/ kind = "stop" => Past(Spot(c, at))
  PROVE  TellsWell(w, Point(kind, c, at)) /\ ~Finds(Point(kind, c, at))
<1>1. Point(kind, c, at).kind = kind /\ Point(kind, c, at).at = Spot(c, at)
  BY DEF Point, Spot
<1>2. QED
  BY <1>1 DEF TellsWell, Finds

LEMMA StandOrder ==
  ASSUME WorldTyped, NEW c \in Catalogs, NEW w \in WalkRecord(c),
         NEW s \in Nat \ {0}, NEW ph \in Phases, NEW o \in Nat,
         EventsOrdered(w.events), NotBefore(<<c, s, ph, o>>),
         FoundIn(w.events) => Past(<<c, s, ph, o>>)
  PROVE  WalkOrder(Stand(w, c, s, ph, o), c)
<1> DEFINE at    == <<s, ph, o>>
           added == Add(w, Point("before", c, at))
           here  == [added EXCEPT !.listing = FALSE, !.at = at]
<1>1. at \in At /\ Spot(c, at) = <<c, s, ph, o>>
  BY DEF At, Spot
<1>2. added \in WalkRecord(c) /\ added.used = w.used
  BY <1>1, PointEvent, AddWalk
<1>3. EventsOrdered(added.events) /\ (FoundIn(added.events) => FoundIn(w.events))
  BY <1>1, PointEvent, PointTells, TellOrder
<1> HIDE DEF added
<1>4. /\ here \in WalkRecord(c) /\ here.events = added.events /\ here.at = at /\ ~here.listing
      /\ here.used = w.used
  BY <1>1, <1>2 DEF WalkRecord
<1>5. WalkOrder(End(w), c) /\ WalkOrder(End(here), c)
  BY <1>3, <1>4, EndOrder
<1>6. CASE ~(w.used >= PageSize)
  <2> DEFINE asking == [here EXCEPT !.st = "asking"]
  <2>1. asking.events = here.events /\ asking.st = "asking" /\ asking.at = at /\ ~asking.listing
        /\ asking.used = w.used
    <3> HIDE DEF here
    <3> QED
      BY <1>4 DEF WalkRecord
  <2>2. w.used < PageSize
    BY <1>6, SearchAssumption DEF WalkRecord
  <2> HIDE DEF asking
  <2>3. WalkOrder(asking, c)
    BY <1>1, <1>3, <1>4, <2>1, <2>2 DEF WalkOrder
  <2>4. Stand(w, c, s, ph, o) \in {End(w), End(here), asking}
    BY DEF Stand, asking, here, added
  <2>5. QED
    BY <1>5, <2>3, <2>4
<1>7. CASE w.used >= PageSize
  <2>1. Stand(w, c, s, ph, o) \in {End(w), End(here)}
    BY <1>7 DEF Stand, added
  <2>2. QED
    BY <1>5, <2>1
<1>8. QED
  BY <1>6, <1>7

LEMMA FirstSchemaOrder ==
  ASSUME WorldTyped, NEW c \in Catalogs, c >= FirstOf(begin), NEW w \in WalkRecord(c),
         EventsOrdered(w.events), ~FoundIn(w.events)
  PROVE  WalkOrder(FirstSchema(w, c), c)
<1> DEFINE at == Entry(c)
<1>1. /\ at \in At /\ at[1] \in Nat /\ at[2] \in Phases /\ at[3] \in Nat
      /\ Spot(c, at) = <<c, at[1], at[2], at[3]>> /\ NotBefore(Spot(c, at))
  BY EntryType, EntryReached DEF At, Spot
<1> HIDE DEF at
<1>2. at[1] = 0 => WalkOrder(Stand(w, c, 1, Tables, 0), c)
  <2>1. at[1] = 0 => Past(<<c, 1, Tables, 0>>)
    <3>1. Past(<<c, at[1] + 1, Tables, 0>>)
      BY <1>1, GoesOnPast
    <3>2. at[1] = 0 => at[1] + 1 = 1
      OBVIOUS
    <3>3. QED
      BY <3>1, <3>2
  <2>2. QED
    BY <2>1, StandOrder, PastIsNotBefore DEF Phases
<1>3. at[1] # 0 => WalkOrder(Stand(w, c, at[1], at[2], at[3]), c)
  BY <1>1, StandOrder
<1>4. QED
  BY <1>2, <1>3 DEF FirstSchema, at

LEMMA OpenOrder ==
  ASSUME WorldTyped, NEW c \in Catalogs, c >= FirstOf(begin), NEW w \in WalkRecord(c), w.events = <<>>
  PROVE  WalkOrder(Open(w, c), c)
<1> DEFINE added == Add(w, Point("open", c, Entry(c)))
           here  == [added EXCEPT !.listing = TRUE, !.at = Entry(c)]
<1>1. Entry(c) \in At /\ NotBefore(Spot(c, Entry(c)))
  BY EntryType, EntryReached
<1>2. EventsOrdered(w.events) /\ ~FoundIn(w.events)
  BY DEF EventsOrdered, FoundIn
<1>3. added \in WalkRecord(c) /\ added.used = w.used
  BY <1>1, PointEvent, AddWalk
<1>4. EventsOrdered(added.events) /\ ~FoundIn(added.events)
  BY <1>1, <1>2, PointEvent, PointTells, TellOrder
<1> HIDE DEF added
<1>5. /\ here \in WalkRecord(c) /\ here.events = added.events /\ here.at = Entry(c) /\ here.used = w.used
  BY <1>1, <1>3 DEF WalkRecord
<1>6. WalkOrder(End(Add(w, Gap(c, 0))), c)
  BY <1>2, GapEvent, AddWalk, SignTells, TellOrder, EndOrder
<1>7. WalkOrder(FirstSchema(w, c), c)
  BY <1>2, FirstSchemaOrder
<1>8. WalkOrder(End(here), c)
  BY <1>4, <1>5, EndOrder
<1>9. ~(w.used >= PageSize) => WalkOrder([here EXCEPT !.st = "asking"], c)
  <2>1. ~(w.used >= PageSize) => w.used < PageSize
    BY SearchAssumption DEF WalkRecord
  <2> DEFINE asking == [here EXCEPT !.st = "asking"]
  <2>2. asking.events = here.events /\ asking.st = "asking" /\ asking.at = here.at /\ asking.used = here.used
    <3> HIDE DEF here
    <3> QED
      BY <1>5 DEF WalkRecord
  <2> HIDE DEF asking
  <2>3. QED
    BY <1>1, <1>4, <1>5, <2>1, <2>2 DEF WalkOrder, asking
<1>10. QED
  BY <1>6, <1>7, <1>8, <1>9 DEF Open, added

\* A walk between two statements.
Stands(w, c) ==
  /\ w \in WalkRecord(c) /\ WalkOrder(w, c)
  /\ w.st \in {"asking", "reading"}

LEMMA SkipOrder ==
  ASSUME WorldTyped, NEW c \in Catalogs, NEW w, Stands(w, c)
  PROVE  WalkOrder(Skip(w, c), c)
<1>1. /\ w \in WalkRecord(c) /\ w.at \in At /\ w.at[1] \in Nat /\ w.at[2] \in Phases /\ w.at[3] \in Nat
      /\ EventsOrdered(w.events) /\ NotBefore(<<c, w.at[1], w.at[2], w.at[3]>>)
  BY DEF Stands, WalkOrder, WalkRecord, At, Spot
<1> DEFINE told == Add(w, Gap(c, w.at[1]))
<1>2. WalkOrder(End(Add(w, Gap(c, 0))), c)
  BY <1>1, GapEvent, AddWalk, SignTells, TellOrder, EndOrder
<1>3. told \in WalkRecord(c) /\ EventsOrdered(told.events)
  BY <1>1, GapEvent, AddWalk, SignTells, TellOrder
<1>4. WalkOrder(Stand(told, c, w.at[1] + 1, Tables, 0), c)
  <2> HIDE DEF told
  <2>1. w.at[1] + 1 \in Nat \ {0} /\ Past(<<c, w.at[1] + 1, Tables, 0>>)
    <3> DEFINE s  == w.at[1]
               ph == w.at[2]
               o  == w.at[3]
    <3>1. s \in Nat /\ ph \in Phases /\ o \in Nat /\ NotBefore(<<c, s, ph, o>>)
      BY <1>1
    <3> HIDE DEF s, ph, o
    <3>2. Past(<<c, s + 1, Tables, 0>>)
      BY <3>1, GoesOnPast
    <3>3. s + 1 \in Nat \ {0}
      BY <3>1
    <3>4. QED
      BY <3>2, <3>3 DEF s
  <2>2. QED
    BY <1>3, <2>1, StandOrder, PastIsNotBefore DEF Phases
<1>5. QED
  BY <1>2, <1>4 DEF Skip

LEMMA OutOfTimeOrder ==
  ASSUME WorldTyped, NEW c \in Catalogs, NEW w, Stands(w, c)
  PROVE  WalkOrder(OutOfTime(w, c), c)
<1>1. /\ w \in WalkRecord(c) /\ w.at \in At /\ EventsOrdered(w.events) /\ NotBefore(Spot(c, w.at))
  BY DEF Stands, WalkOrder, WalkRecord
<1>2. ~Stalled(c, w.at) => Past(Spot(c, w.at))
  BY <1>1 DEF Stalled, NotBefore, Past, Spot
<1>3. ~Stalled(c, w.at) => WalkOrder(End(Add(w, Point("stop", c, w.at))), c)
  BY <1>1, <1>2, PointEvent, PointTells, AddWalk, TellOrder, EndOrder
<1>4. QED
  BY <1>3, SkipOrder DEF OutOfTime

LEMMA ReadOrder ==
  ASSUME WorldTyped, NEW c \in Catalogs, NEW w, SoundWalk(w, c), WalkOrder(w, c),
         w.st = "reading", ~w.listing
  PROVE  WalkOrder(Read(w, c), c)
<1> DEFINE s    == w.at[1]
           ph   == w.at[2]
           left == Total(c, s, ph) - w.at[3]
           room == PageSize - w.used
           n    == IF left <= 0 THEN 0 ELSE Least(left, room)
           e    == Found(c, w.at, n, left > room)
           told == Add(w, e)
           read == [told EXCEPT !.used = @ + n]
<1>1. /\ w \in WalkRecord(c) /\ w.at \in At
      /\ s \in 1..Len(Schemas(c)) /\ s \in Nat \ {0} /\ ph \in Phases /\ w.at[3] \in Nat
  BY SchemasType DEF SoundWalk, OnSchema, WalkRecord, At
<1>2. left \in Int
  BY <1>1, TotalType
<1>3. room \in 1..PageSize /\ w.used \in 0..PageSize /\ PageSize \in Nat
  BY <1>1, SearchAssumption DEF WalkRecord, WalkOrder
<1>4. n \in Nat /\ w.used + n \in 0..PageSize /\ (left > room => n > 0)
  <2> HIDE DEF left, room
  <2>1. n \in Nat /\ n <= room /\ (left > room => n > 0)
    BY <1>2, <1>3 DEF Least
  <2> HIDE DEF n
  <2>2. QED
    BY <1>3, <2>1 DEF room
<1>5. e.kind = "rows" /\ e.at = Spot(c, w.at) /\ e.n = n /\ (e.more <=> left > room)
  BY DEF Found, Spot
<1>6. e \in Event(c)
  <2>1. Spot(c, w.at) \in PlaceOf(c)
    BY <1>1 DEF At, PlaceOf, Spot
  <2>2. (left > room) \in BOOLEAN
    OBVIOUS
  <2> HIDE DEF n, left, room
  <2>3. QED
    BY <1>4, <2>1, <2>2 DEF Found, Event, Spot
<1>7. /\ EventsOrdered(w.events) /\ NotBefore(Spot(c, w.at))
      /\ FoundIn(w.events) => Past(Spot(c, w.at))
  BY DEF WalkOrder
<1> HIDE DEF e, n, left, room
<1>8. TellsWell(w, e)
  BY <1>4, <1>5, <1>7 DEF TellsWell
<1>9. told \in WalkRecord(c) /\ told.used = w.used /\ EventsOrdered(told.events)
  BY <1>1, <1>6, <1>7, <1>8, AddWalk, TellOrder
<1> HIDE DEF told
<1>10. read \in WalkRecord(c) /\ read.events = told.events
  BY <1>4, <1>9 DEF WalkRecord
<1> HIDE DEF read
<1>11. WalkOrder(End(read), c)
  BY <1>9, <1>10, EndOrder
<1>12. /\ Past(<<c, s + 1, Tables, 0>>)
       /\ ph = Tables => Past(<<c, s, Columns, 0>>)
  <2> DEFINE o == w.at[3]
  <2>1. NotBefore(<<c, s, ph, o>>) /\ s \in Nat /\ o \in Nat
    BY <1>1, <1>7 DEF Spot
  <2> HIDE DEF s, ph, o
  <2>2. QED
    BY <1>1, <2>1, GoesOnPast
<1>13. ph = Tables => WalkOrder(Stand(read, c, s, Columns, 0), c)
  <2> HIDE DEF s, ph
  <2> QED
    BY <1>1, <1>9, <1>10, <1>12, StandOrder, PastIsNotBefore DEF Phases
<1>14. WalkOrder(Stand(Add(read, Sign("searched")), c, s + 1, Tables, 0), c)
  <2> HIDE DEF s, ph
  <2> DEFINE signed == Add(read, Sign("searched"))
  <2>1. signed \in WalkRecord(c) /\ EventsOrdered(signed.events)
    BY <1>9, <1>10, SignEvent, AddWalk, SignTells, TellOrder
  <2>2. s + 1 \in Nat \ {0}
    BY <1>1
  <2> HIDE DEF signed
  <2>3. WalkOrder(Stand(signed, c, s + 1, Tables, 0), c)
    BY <2>1, <2>2, <1>12, StandOrder, PastIsNotBefore DEF Phases
  <2>4. QED
    BY <2>3 DEF signed
<1>15. Read(w, c) = IF left > room THEN End(read)
                    ELSE IF ph = Tables THEN Stand(read, c, s, Columns, 0)
                    ELSE Stand(Add(read, Sign("searched")), c, s + 1, Tables, 0)
  BY DEF Read, read, told, e, n, left, room
<1> HIDE DEF s, ph
<1>16. QED
  BY <1>11, <1>13, <1>14, <1>15

LEMMA AnsweredOrder ==
  ASSUME WorldTyped, NEW c \in Catalogs, c >= FirstOf(begin), NEW w, SoundWalk(w, c),
         WalkOrder(w, c), w.st = "reading"
  PROVE  WalkOrder(Answered(w, c), c)
<1>1. w \in WalkRecord(c) /\ Stands(w, c) /\ EventsOrdered(w.events)
  BY DEF SoundWalk, Stands, WalkOrder
<1>2. WalkOrder(End(Add(w, Sign("error"))), c)
  BY <1>1, SignEvent, AddWalk, SignTells, TellOrder, EndOrder
<1>3. WalkOrder(Skip(w, c), c) /\ WalkOrder(OutOfTime(w, c), c)
  BY <1>1, SkipOrder, OutOfTimeOrder
<1>4. w.listing => WalkOrder(FirstSchema(w, c), c)
  BY <1>1, FirstSchemaOrder DEF WalkOrder
<1>5. ~w.listing => WalkOrder(Read(w, c), c)
  BY ReadOrder
<1>6. QED
  BY <1>2, <1>3, <1>4, <1>5 DEF Answered

\* What the pass takes: it stops past where it began, and once it has rows every point
\* that is left is past it.
TakenWell(acc, q, c) ==
  /\ acc.stop # NoStop => Past(acc.stop)
  /\ acc.rows # <<>> => c > FirstOf(begin) \/ PointsPast(q)

LEMMA TakeOrder ==
  ASSUME WorldTyped, NEW c \in Catalogs, c >= FirstOf(begin), NEW acc, Fits(acc),
         NEW q \in Seq(Event(c)), q # <<>>, EventsOrdered(q), TakenWell(acc, q, c)
  PROVE  TakenWell(Take(acc, Head(q)), Tail(q), c)
<1> DEFINE e    == Head(q)
           room == PageSize - Len(acc.rows)
<1>1. /\ acc \in Part /\ acc.rows \in Seq(Row) /\ Len(acc.rows) \in Nat
      /\ room \in Nat /\ PageSize \in Nat \ {0}
  BY SearchAssumption DEF Fits, Part
<1>2. e \in Event(c) /\ e = q[1] /\ 1 \in DOMAIN q
  BY EventTaken
<1>3. /\ e.kind \in Pointed => NotBefore(e.at)
      /\ e.kind = "stop" => Past(e.at)
      /\ e.kind = "rows" /\ e.more => e.n > 0
  BY <1>2 DEF EventsOrdered
<1>4. /\ PointsPast(q) => PointsPast(Tail(q))
      /\ Finds(e) => PointsPast(Tail(q))
  BY TailOrder
<1>5. acc.rows # <<>> /\ e.kind \in Pointed => Past(e.at)
  <2>1. SUFFICES ASSUME acc.rows # <<>>, e.kind \in Pointed PROVE Past(e.at)
    OBVIOUS
  <2>2. e.at \in Row /\ e.at[1] = c
    BY <1>2, <2>1, PointRow
  <2>3. c > FirstOf(begin) => Past(e.at)
    BY <2>2, NextCatalog
  <2>4. PointsPast(q) => Past(e.at)
    BY <1>2, <2>1 DEF PointsPast
  <2>5. QED
    BY <2>1, <2>3, <2>4 DEF TakenWell
<1>6. room <= 0 => acc.rows # <<>>
  BY <1>1
<1> HIDE DEF e
<1>7. CASE e.kind = "rows"
  <2> DEFINE taken == Least(e.n, room)
             more  == Rows(e.at, taken)
             past  == [e.at EXCEPT ![4] = @ + taken]
  <2>1. e.at \in PlaceOf(c) /\ e.n \in Nat /\ "rows" \in Pointed
    BY <1>2, <1>7 DEF Event, Pointed
  <2>2. taken \in Nat /\ (taken > 0 => e.n > 0) /\ (taken = 0 => room <= 0 \/ e.n = 0)
        /\ (e.n > room => taken = room)
    <3> HIDE DEF room
    <3> QED
      BY <1>1, <2>1 DEF Least
  <2> HIDE DEF taken
  <2>3. Len(more) = taken
    BY <2>2 DEF Rows
  <2>4. acc.rows \o more # <<>> => acc.rows # <<>> \/ Finds(e)
    <3>1. taken = 0 => more = <<>>
      BY <2>2 DEF Rows
    <3> HIDE DEF more
    <3>2. more = <<>> => acc.rows \o more = acc.rows
      BY <1>1
    <3>3. taken # 0 => Finds(e)
      BY <1>7, <2>2 DEF Finds
    <3>4. QED
      BY <3>1, <3>2, <3>3
  <2>5. e.more \/ e.n > room => Past(past)
    <3>1. e.more \/ e.n > room => taken > 0 \/ acc.rows # <<>>
      BY <1>1, <1>3, <1>6, <1>7, <2>1, <2>2
    <3>2. past = <<c, e.at[2], e.at[3], e.at[4] + taken>> /\ e.at = <<c, e.at[2], e.at[3], e.at[4]>>
          /\ e.at[2] \in Nat /\ e.at[3] \in Phases /\ e.at[4] \in Nat
      BY <2>1, <2>2, SMTT(30) DEF PlaceOf
    <3>3. NotBefore(e.at)
      BY <1>3, <1>7, <2>1
    <3>4. taken > 0 => Past(past)
      <4> DEFINE s == e.at[2]
                 ph == e.at[3]
                 o == e.at[4]
      <4>1. s \in Nat /\ ph \in Phases /\ o \in Nat /\ NotBefore(<<c, s, ph, o>>)
        BY <3>2, <3>3
      <4> HIDE DEF s, ph, o
      <4>2. \A n \in Nat \ {0} : Past(<<c, s, ph, o + n>>)
        BY <4>1, GoesOnPast
      <4>3. past = <<c, s, ph, o + taken>>
        BY <3>2 DEF s, ph, o
      <4> HIDE DEF past
      <4>4. taken > 0 => taken \in Nat \ {0}
        BY <2>2
      <4>5. QED
        BY <4>2, <4>3, <4>4
    <3>5. taken = 0 /\ acc.rows # <<>> => Past(past)
      <4>1. taken = 0 => past = e.at
        BY <3>2
      <4>2. QED
        BY <1>5, <1>7, <2>1, <4>1
    <3>6. QED
      BY <2>2, <3>1, <3>4, <3>5
  <2>6. Take(acc, e) = [acc EXCEPT !.rows = @ \o more,
                                   !.stop = IF e.more \/ e.n > room THEN past ELSE @]
    BY <1>7 DEF Take, TakeRows, taken
  <2> DEFINE got == Take(acc, e)
  <2> HIDE DEF more, past, room
  <2>7. got.rows = acc.rows \o more /\ got.stop = IF e.more \/ e.n > room THEN past ELSE acc.stop
    BY <1>1, <2>6 DEF Part
  <2> HIDE DEF got
  <2>8. TakenWell(got, Tail(q), c)
    BY <1>4, <2>4, <2>5, <2>7 DEF TakenWell
  <2>9. QED
    BY <2>8 DEF got, e
<1>8. CASE e.kind # "rows"
  <2> DEFINE got == Take(acc, e)
  <2>1. /\ got.rows = acc.rows
        /\ \/ got.stop = acc.stop
           \/ e.kind = "stop" /\ got.stop = e.at
           \/ e.kind \in {"open", "before"} /\ room <= 0 /\ got.stop = e.at
    <3>1. e.kind \in {"gap", "stop", "error", "searched", "open", "before"}
      BY <1>2, <1>8 DEF Event
    <3>2. Take(acc, e) = CASE e.kind = "gap"      -> [acc EXCEPT !.gaps = @ \cup {e.at}]
                           [] e.kind = "stop"     -> [acc EXCEPT !.stop = e.at]
                           [] e.kind = "error"    -> [acc EXCEPT !.error = TRUE]
                           [] e.kind = "searched" -> [acc EXCEPT !.searched = @ + 1]
                           [] OTHER               -> IF room <= 0 THEN [acc EXCEPT !.stop = e.at] ELSE acc
      BY <1>8, <3>1 DEF Take
    <3> HIDE DEF room
    <3>3. QED
      BY <1>1, <3>1, <3>2 DEF Part
  <2> HIDE DEF got
  <2>2. got.stop # NoStop => Past(got.stop)
    BY <1>3, <1>5, <1>6, <2>1 DEF TakenWell, Pointed
  <2>3. TakenWell(got, Tail(q), c)
    BY <1>4, <2>1, <2>2 DEF TakenWell
  <2>4. QED
    BY <2>3 DEF got, e
<1>9. QED
  BY <1>7, <1>8

-----------------------------------------------------------------------------
(* The steps keep the order *)

LEMMA FirstIsCatalog ==
  ASSUME Typed
  PROVE  FirstOf(begin) \in Int /\ index \in Int /\ ahead \in Int
<1>1. Len(world.catalogs) \in Nat
  BY FiniteHolders
<1>2. index \in Int /\ ahead \in Int
  BY <1>1 DEF Typed
<1>3. begin # NoCursor => begin.at[1] \in Int
  BY BeginRow DEF Typed, Catalogs
<1>4. QED
  BY <1>2, <1>3 DEF FirstOf

LEMMA OrderKept ==
  ASSUME Typed, Ordered, UNCHANGED <<world, begin, next>>,
         \A c \in Catalogs : walker'[c] = walker[c] \/ (WalkOrder(walker'[c], c) /\ c >= FirstOf(begin)),
         index' >= FirstOf(begin), ahead' + 1 >= FirstOf(begin),
         part'.stop # NoStop => Past(part'.stop),
         part'.rows # <<>> => index' > FirstOf(begin)
                              \/ (walker'[index'].st = "ended" /\ PointsPast(walker'[index'].events))
  PROVE  Ordered'
<1>1. Catalogs' = Catalogs /\ FirstOf(begin)' = FirstOf(begin)
  BY DEF Catalogs, FirstOf
<1>2. ASSUME NEW c \in Catalogs
      PROVE  WalkOrder(walker[c], c)' /\ (walker'[c].st # "off" => c >= FirstOf(begin))
  <2> DEFINE v == walker'[c]
  <2>1. WalkOrder(v, c) /\ (v.st # "off" => c >= FirstOf(begin))
    BY DEF Ordered
  <2>2. QED
    BY <2>1 DEF WalkOrder, EventsOrdered, Past, NotBefore
<1>3. (part.stop # NoStop => Past(part.stop))' /\ (next # NoCursor => Past(next.at))'
  BY DEF Ordered, Past
<1>4. (part.rows # <<>> => index > FirstOf(begin)
                           \/ (walker[index].st = "ended" /\ PointsPast(walker[index].events)))'
  BY <1>1 DEF PointsPast, Past
<1>5. QED
  BY <1>1, <1>2, <1>3, <1>4 DEF Ordered

\* Neither where the pass stands nor what it took changes, and the walk it replays, if it
\* ended, is as it was.
LEMMA OrderBeside ==
  ASSUME Typed, Ordered, UNCHANGED <<world, begin, next, index, part>>,
         \A c \in Catalogs : walker'[c] = walker[c] \/ (WalkOrder(walker'[c], c) /\ c >= FirstOf(begin)),
         ahead' + 1 >= FirstOf(begin),
         index \in Catalogs /\ walker[index].st = "ended"
           => walker'[index].st = "ended" /\ walker'[index].events = walker[index].events
  PROVE  Ordered'
<1>1. begin = NoCursor \/ FirstOf(begin) \in Catalogs
  BY BeginRow DEF Typed
<1>2. index \in 1..(Len(world.catalogs) + 1) /\ Catalogs = 1..Len(world.catalogs) /\ Len(world.catalogs) \in Nat
  BY FiniteHolders DEF Typed
<1>3. FirstOf(begin) = 1 \/ FirstOf(begin) \in Catalogs
  BY <1>1 DEF FirstOf
<1>4. world.catalogs # <<>> => 1 \in Catalogs
  <2>1. world.catalogs \in Seq(CatalogRecord)
    BY DEF Typed, WorldTyped, World
  <2>2. QED
    BY <2>1, <1>2
<1>5. index > FirstOf(begin) \/ index \in Catalogs
  BY <1>2, <1>3, <1>4 DEF Typed
<1>6. part.rows # <<>> => index > FirstOf(begin)
                          \/ (walker'[index].st = "ended" /\ PointsPast(walker'[index].events))
  BY <1>5 DEF Ordered
<1>7. QED
  BY <1>6, OrderKept DEF Ordered

LEMMA FillOrder ==
  ASSUME IInv, Ordered, Fill \/ FillFails
  PROVE  Ordered'
<1>1. Typed /\ Held
  BY DEF IInv
<1>2. PICK held \in BOOLEAN : /\ Filling /\ Queue(held)
  BY DEF Fill, FillFails
<1>3. /\ ahead' \in {ahead, ahead + 1} /\ ahead \in Int
      /\ Catalogs = 1..Len(world.catalogs) /\ Len(world.catalogs) \in Nat
  <2>1. ahead' \in {ahead, ahead + 1}
    BY DEF Fill, FillFails
  <2>2. QED
    BY <1>1, <2>1, FiniteHolders, FirstIsCatalog
<1>4. ahead + 1 \in Catalogs /\ walker[ahead + 1].st = "off"
  <2>1. ahead < Len(world.catalogs) /\ ahead \in Nat
    <3>1. ahead < Window /\ index - 1 + Concurrency \in Int /\ ahead \in Nat
      BY <1>1, <1>2, <1>3, FirstIsCatalog, SearchAssumption DEF Filling, Typed
    <3>2. Window <= Len(world.catalogs) /\ Window \in Int
      BY <1>3, <3>1 DEF Window, Least
    <3>3. QED
      BY <1>3, <3>1, <3>2
  <2>2. ahead + 1 \in Catalogs /\ ahead + 1 > ahead
    BY <1>3, <2>1
  <2>3. QED
    BY <1>1, <1>2, <2>2 DEF Held, Filling
<1> DEFINE v == [Idle EXCEPT !.st = "queued", !.thread = TRUE, !.holds = held]
<1>5. v.st = "queued" /\ v.events = <<>>
  BY DEF Idle
<1>6. walker' = [walker EXCEPT ![ahead + 1] = v] /\ UNCHANGED <<world, begin, next, index, part>>
  BY <1>2 DEF Queue, OnlyScan, fixed, reply
<1> HIDE DEF v
<1>7. WalkOrder(v, ahead + 1)
  BY <1>5 DEF WalkOrder, EventsOrdered
<1>8. \A c \in Catalogs : walker'[c] = IF c = ahead + 1 THEN v ELSE walker[c]
  BY <1>1, <1>6 DEF Typed
<1>9. ahead + 1 >= FirstOf(begin) /\ FirstOf(begin) \in Int
  <2>1. FirstOf(begin) \in Int
    BY <1>1, FirstIsCatalog
  <2>2. QED
    BY <2>1 DEF Ordered
<1>10. ahead' + 1 >= FirstOf(begin)
  BY <1>3, <1>9
<1>11. \A c \in Catalogs : walker'[c] = walker[c] \/ (WalkOrder(walker'[c], c) /\ c >= FirstOf(begin))
  BY <1>7, <1>8, <1>9
<1>12. QED
  BY <1>1, <1>4, <1>6, <1>8, <1>10, <1>11, OrderBeside

LEMMA WalkAloneOrder ==
  ASSUME IInv, Ordered, WalkAlone
  PROVE  Ordered'
<1>1. Typed /\ index \in Catalogs /\ walker[index].st = "off" /\ index >= FirstOf(begin)
  BY DEF IInv, Typed, WalkAlone, Ordered
<1> DEFINE w == [Idle EXCEPT !.used = Len(part.rows)]
           v == Open(w, index)
<1>2. w \in WalkRecord(index) /\ w.events = <<>>
  <2>1. Len(part.rows) \in 0..PageSize
    BY <1>1, SearchAssumption DEF Typed, Fits, Part
  <2>2. w \in WalkRecord(index)
    BY <1>1, <2>1, IdleWalk
  <2>3. QED
    BY <2>2 DEF Idle
<1> HIDE DEF w
<1>3. WalkOrder(v, index)
  BY <1>1, <1>2, OpenOrder DEF Typed
<1> HIDE DEF v
<1>4. /\ walker' = [walker EXCEPT ![index] = v] /\ ahead' = index
      /\ UNCHANGED <<world, begin, next, index, part>>
  BY DEF WalkAlone, OnlyScan, fixed, reply, v, w
<1>5. \A c \in Catalogs : walker'[c] = IF c = index THEN v ELSE walker[c]
  BY <1>1, <1>4 DEF Typed
<1>6. ahead' + 1 >= FirstOf(begin)
  <2>1. FirstOf(begin) \in Int /\ index \in Int
    BY <1>1, FirstIsCatalog
  <2>2. QED
    BY <1>1, <1>4, <2>1
<1>7. \A c \in Catalogs : walker'[c] = walker[c] \/ (WalkOrder(walker'[c], c) /\ c >= FirstOf(begin))
  BY <1>1, <1>3, <1>5
<1>8. QED
  BY <1>1, <1>4, <1>6, <1>7, OrderBeside

LEMMA ReplayOrder ==
  ASSUME IInv, Ordered, Replay
  PROVE  Ordered'
<1> DEFINE w == walker[index]
           q == w.events
           v == [w EXCEPT !.events = Tail(@)]
<1>1. Typed /\ WorldTyped /\ Fits(part) /\ index \in Catalogs /\ w.st = "ended" /\ index >= FirstOf(begin) /\ q # <<>>
  BY DEF IInv, Typed, Replay, Ordered
<1>2. w \in WalkRecord(index) /\ q \in Seq(Event(index)) /\ WalkOrder(w, index) /\ EventsOrdered(q)
  BY <1>1 DEF Typed, SoundWalk, WalkRecord, Ordered, WalkOrder
<1>3. v.events = Tail(q) /\ v.st = "ended"
  BY <1>1, <1>2 DEF WalkRecord
<1>4. /\ walker' = [walker EXCEPT ![index] = v] /\ part' = Take(part, Head(q))
      /\ UNCHANGED <<world, begin, next, index, ahead>>
  BY DEF Replay, OnlyScan, fixed, reply
<1>5. \A c \in Catalogs : walker'[c] = IF c = index THEN v ELSE walker[c]
  BY <1>1, <1>4 DEF Typed
<1>6. TakenWell(part, q, index)
  BY <1>1 DEF Ordered, TakenWell
<1> HIDE DEF v, q
<1>7. TakenWell(part', Tail(q), index)
  BY <1>1, <1>2, <1>4, <1>6, TakeOrder
<1>8. EventsOrdered(v.events)
  BY <1>1, <1>2, <1>3, TailOrder
<1>9. WalkOrder(v, index)
  BY <1>3, <1>8 DEF WalkOrder
<1>10. part'.stop # NoStop => Past(part'.stop)
  BY <1>7 DEF TakenWell
<1>11. part'.rows # <<>> => index' > FirstOf(begin)
                            \/ (walker'[index'].st = "ended" /\ PointsPast(walker'[index'].events))
  BY <1>1, <1>3, <1>4, <1>5, <1>7 DEF TakenWell
<1>12. \A c \in Catalogs : walker'[c] = walker[c] \/ (WalkOrder(walker'[c], c) /\ c >= FirstOf(begin))
  BY <1>1, <1>5, <1>9
<1>13. index' >= FirstOf(begin) /\ ahead' + 1 >= FirstOf(begin)
  BY <1>1, <1>4 DEF Ordered
<1>14. QED
  BY <1>1, <1>4, <1>10, <1>11, <1>12, <1>13, OrderKept

LEMMA ReplayedOrder ==
  ASSUME IInv, Ordered, Replayed
  PROVE  Ordered'
<1>1. Typed /\ index' = index + 1 /\ index \in Int /\ FirstOf(begin) \in Int
  BY FirstIsCatalog DEF IInv, Replayed
<1>2. UNCHANGED <<world, begin, next, ahead, walker, part>>
  BY DEF Replayed, OnlyScan, fixed, reply
<1>3. index' > FirstOf(begin) /\ ahead' + 1 >= FirstOf(begin)
  BY <1>1, <1>2 DEF Ordered
<1>4. QED
  BY <1>1, <1>2, <1>3, OrderKept DEF Ordered

LEMMA LeaveOrder ==
  ASSUME IInv, Ordered, Leave
  PROVE  Ordered'
<1>1. Typed /\ UNCHANGED <<world, begin, next, index, ahead, part>>
  BY DEF IInv, Leave, OnlyScan, fixed, reply
<1>2. \A c \in Catalogs : walker'[c] = IF walker[c].st = "queued"
                  THEN [walker[c] EXCEPT !.st = "dropped", !.holds = FALSE] ELSE walker[c]
  BY DEF Leave
<1>3. ASSUME NEW c \in Catalogs, walker'[c] # walker[c]
      PROVE  WalkOrder(walker'[c], c) /\ c >= FirstOf(begin)
  <2>1. walker[c].st = "queued" /\ walker[c] \in WalkRecord(c)
    BY <1>1, <1>2, <1>3 DEF Typed, SoundWalk
  <2> DEFINE v == [walker[c] EXCEPT !.st = "dropped", !.holds = FALSE]
  <2>2. v.st = "dropped" /\ v.events = walker[c].events /\ walker'[c] = v
    BY <1>2, <2>1 DEF WalkRecord
  <2> HIDE DEF v
  <2>3. WalkOrder(v, c)
    BY <2>2 DEF Ordered, WalkOrder
  <2>4. QED
    BY <2>1, <2>2, <2>3 DEF Ordered
<1>4. \A c \in Catalogs : walker'[c] = walker[c] \/ (WalkOrder(walker'[c], c) /\ c >= FirstOf(begin))
  BY <1>3
<1>5. index \in Catalogs /\ walker[index].st = "ended"
           => walker'[index].st = "ended" /\ walker'[index].events = walker[index].events
  BY <1>2
<1>6. ahead' + 1 >= FirstOf(begin)
  BY <1>1 DEF Ordered
<1>7. QED
  BY <1>1, <1>4, <1>5, <1>6, OrderBeside

LEMMA EndsOrder ==
  ASSUME IInv, Ordered, Answer \/ Fail
  PROVE  Ordered'
<1>1. /\ UNCHANGED <<world, begin, index, ahead, walker, part>>
      /\ next' # NoCursor => part.stop # NoStop /\ next'.at = part.stop
  BY DEF Answer, Fail, OnlyAnswer, Finished
<1>2. Catalogs' = Catalogs /\ FirstOf(begin)' = FirstOf(begin)
  BY <1>1 DEF Catalogs, FirstOf
<1>3. ASSUME NEW c \in Catalogs PROVE WalkOrder(walker[c], c)'
  BY <1>1 DEF Ordered, WalkOrder, EventsOrdered, Past, NotBefore
<1>4. (part.stop # NoStop => Past(part.stop))' /\ (next # NoCursor => Past(next.at))'
  BY <1>1 DEF Ordered, Past
<1>5. QED
  BY <1>1, <1>2, <1>3, <1>4 DEF Ordered, PointsPast, Past

LEMMA ScanOrder ==
  ASSUME IInv, NEW m, NEW cursor \in Cursor \cup {NoCursor}, Scan(m, cursor), UNCHANGED world,
         next' # NoCursor => cursor = NoCursor
  PROVE  Ordered'
<1>1. /\ begin' = cursor /\ index' = FirstOf(cursor) /\ ahead' = index' - 1
      /\ walker' = [c \in Catalogs |-> Idle] /\ part' = Nothing /\ Catalogs' = Catalogs
  BY DEF Scan, Catalogs
<1>2. FirstOf(begin)' = FirstOf(cursor)
  BY <1>1 DEF FirstOf
<1>3. FirstOf(cursor) \in Int
  BY DEF FirstOf, Cursor, Place, Catalogs
<1>4. part'.rows = <<>> /\ part'.stop = NoStop
  BY <1>1 DEF Nothing
<1>5. ASSUME NEW c \in Catalogs PROVE walker'[c].st = "off" /\ walker'[c].events = <<>>
  BY <1>1 DEF Idle
<1>6. ASSUME NEW c \in Catalogs PROVE WalkOrder(walker[c], c)'
  <2>1. (walker[c].st = "off")' /\ (walker[c].events = <<>>)'
    BY <1>5
  <2>2. QED
    BY <2>1 DEF WalkOrder, EventsOrdered, FoundIn
<1>7. (next # NoCursor => Past(next.at))'
  BY <1>1 DEF Past
<1>8. index' >= FirstOf(cursor) /\ ahead' + 1 >= FirstOf(cursor)
  BY <1>1, <1>3
<1>9. QED
  BY <1>1, <1>2, <1>4, <1>5, <1>6, <1>7, <1>8 DEF Ordered

LEMMA WalkMovesOrder ==
  ASSUME IInv, Ordered, NEW c \in Catalogs, walker[c].st # "off",
         NEW v, WalkOrder(v, c), walker' = [walker EXCEPT ![c] = v], OnlyWalk,
         walker[c].st = "ended" => v.st = "ended" /\ v.events = walker[c].events
  PROVE  Ordered'
<1>1. Typed /\ UNCHANGED <<world, begin, next, index, ahead, part>>
  BY DEF IInv, OnlyWalk, fixed, reply
<1>2. \A d \in Catalogs : walker'[d] = IF d = c THEN v ELSE walker[d]
  BY <1>1 DEF Typed
<1>3. \A d \in Catalogs : walker'[d] = walker[d] \/ (WalkOrder(walker'[d], d) /\ d >= FirstOf(begin))
  BY <1>2 DEF Ordered
<1>4. index \in Catalogs /\ walker[index].st = "ended"
           => walker'[index].st = "ended" /\ walker'[index].events = walker[index].events
  BY <1>2
<1>5. ahead' + 1 >= FirstOf(begin)
  BY <1>1 DEF Ordered
<1>6. QED
  BY <1>1, <1>3, <1>4, <1>5, OrderBeside

LEMMA StateOrder ==
  ASSUME NEW c \in Catalogs, NEW w \in WalkRecord(c), WalkOrder(w, c)
  PROVE  /\ WalkOrder([w EXCEPT !.st = "dropped"], c)
         /\ WalkOrder([w EXCEPT !.st = "raised"], c)
         /\ w.st = "asking" => WalkOrder([w EXCEPT !.st = "reading"], c)
         /\ WalkOrder([w EXCEPT !.holds = FALSE], c)
<1>1. ASSUME NEW st \in {"dropped", "raised", "reading"}, st = "reading" => w.st = "asking"
      PROVE  WalkOrder([w EXCEPT !.st = st], c)
  <2> DEFINE v == [w EXCEPT !.st = st]
  <2>1. /\ v.st = st /\ v.at = w.at /\ v.listing = w.listing /\ v.events = w.events /\ v.used = w.used
    BY DEF WalkRecord
  <2>2. st = "reading" => w.st = "asking"
    BY <1>1
  <2> HIDE DEF v
  <2>3. WalkOrder(v, c)
    BY <2>1, <2>2 DEF WalkOrder
  <2>4. QED
    BY <2>3 DEF v
<1>2. WalkOrder([w EXCEPT !.holds = FALSE], c)
  <2> DEFINE v == [w EXCEPT !.holds = FALSE]
  <2>1. /\ v.st = w.st /\ v.at = w.at /\ v.listing = w.listing /\ v.events = w.events /\ v.used = w.used
    BY DEF WalkRecord
  <2> HIDE DEF v
  <2>2. WalkOrder(v, c)
    BY <2>1 DEF WalkOrder
  <2>3. QED
    BY <2>2 DEF v
<1>3. QED
  BY <1>1, <1>2

LEMMA WalkStepOrder ==
  ASSUME IInv, Ordered, NEW c \in Catalogs, Walk(c)
  PROVE  Ordered'
<1> DEFINE w == walker[c]
<1>1. WorldTyped /\ SoundWalk(w, c) /\ w \in WalkRecord(c) /\ WalkOrder(w, c)
      /\ (w.st # "off" => c >= FirstOf(begin))
  BY DEF IInv, Typed, SoundWalk, Ordered
<1>2. w.st \in {"asking", "reading"} => WalkOrder(OutOfTime(w, c), c)
  BY <1>1, OutOfTimeOrder DEF Stands
<1>3. CASE Begin(c)
  <2>1. w.st = "queued" /\ OnlyWalk /\ walker' = [walker EXCEPT ![c] = Open(w, c)] /\ w.events = <<>>
    BY <1>1, <1>3 DEF Begin, WalkOrder
  <2>2. WalkOrder(Open(w, c), c)
    BY <1>1, <2>1, OpenOrder
  <2>3. QED
    BY <2>1, <2>2, WalkMovesOrder
<1>4. CASE Ask(c)
  <2>1. /\ w.st = "asking" /\ OnlyWalk
        /\ \/ walker' = [walker EXCEPT ![c] = [w EXCEPT !.st = "dropped"]]
           \/ walker' = [walker EXCEPT ![c] = OutOfTime(w, c)]
           \/ walker' = [walker EXCEPT ![c] = [w EXCEPT !.st = "reading"]]
    BY <1>4 DEF Ask
  <2>2. QED
    BY <1>1, <1>2, <2>1, StateOrder, WalkMovesOrder
<1>5. CASE Answers(c)
  <2>1. w.st = "reading" /\ OnlyWalk /\ walker' = [walker EXCEPT ![c] = Answered(w, c)]
    BY <1>5 DEF Answers
  <2>2. WalkOrder(Answered(w, c), c)
    BY <1>1, <2>1, AnsweredOrder
  <2>3. QED
    BY <2>1, <2>2, WalkMovesOrder
<1>6. CASE TimesOut(c)
  <2>1. w.st = "reading" /\ OnlyWalk /\ walker' = [walker EXCEPT ![c] = OutOfTime(w, c)]
    BY <1>6 DEF TimesOut
  <2>2. QED
    BY <1>2, <2>1, WalkMovesOrder
<1>7. CASE CallTimesOut(c) \/ IsCancelled(c)
  <2>1. /\ w.st = "reading" /\ OnlyWalk
        /\ \/ walker' = [walker EXCEPT ![c] = [w EXCEPT !.st = "raised"]]
           \/ walker' = [walker EXCEPT ![c] = [w EXCEPT !.st = "dropped"]]
    BY <1>7 DEF CallTimesOut, IsCancelled
  <2>2. QED
    BY <1>1, <2>1, StateOrder, WalkMovesOrder
<1>8. CASE Release(c)
  <2> DEFINE v == [w EXCEPT !.holds = FALSE]
  <2>1. w.st \in {"ended", "raised", "dropped"} /\ walker' = [walker EXCEPT ![c] = v] /\ OnlyWalk
    BY <1>8 DEF Release
  <2>2. v.st = w.st /\ v.events = w.events /\ WalkOrder(v, c)
    BY <1>1, StateOrder DEF WalkRecord
  <2> HIDE DEF v
  <2>3. QED
    BY <2>1, <2>2, WalkMovesOrder
<1>9. QED
  BY <1>3, <1>4, <1>5, <1>6, <1>7, <1>8 DEF Walk

LEMMA StillOrder ==
  ASSUME IInv, Ordered, UNCHANGED <<world, begin, next, index, ahead, walker, part>>
  PROVE  Ordered'
<1>1. Typed /\ ahead' + 1 >= FirstOf(begin)
  BY DEF IInv, Ordered
<1>2. QED
  BY <1>1, OrderBeside

LEMMA StepOrder == IInv /\ Ordered /\ [Next]_vars => Ordered'
<1> SUFFICES ASSUME IInv, Ordered, [Next]_vars PROVE Ordered'
  OBVIOUS
<1>1. CASE Fill \/ FillFails
  BY <1>1, FillOrder
<1>2. CASE Filled \/ ReplayRaises
  BY <1>2, StillOrder DEF Filled, ReplayRaises, OnlyScan, fixed, reply
<1>3. CASE Replayed
  BY <1>3, ReplayedOrder
<1>4. CASE WalkAlone
  BY <1>4, WalkAloneOrder
<1>5. CASE Replay
  BY <1>5, ReplayOrder
<1>6. CASE Leave
  BY <1>6, LeaveOrder
<1>7. CASE Answer \/ Fail
  BY <1>7, EndsOrder
<1>8. CASE EachWord
  BY <1>8, ScanOrder DEF EachWord, OnlyAnswer
<1>9. CASE Resume
  <2>1. next \in Cursor /\ Scan(next.mode, next) /\ UNCHANGED world /\ next' = NoCursor
    BY <1>9 DEF Resume, IInv, Typed
  <2>2. QED
    BY <2>1, ScanOrder
<1>10. CASE \E c \in Catalogs : Walk(c)
  BY <1>10, WalkStepOrder
<1>11. CASE TimePasses \/ OthersTake \/ OthersGive \/ UNCHANGED vars
  BY <1>11, StillOrder DEF TimePasses, OthersTake, OthersGive, OnlyOthers, fixed, reply, vars
<1>12. QED
  BY <1>1, <1>2, <1>3, <1>4, <1>5, <1>6, <1>7, <1>8, <1>9, <1>10, <1>11
  DEF Next, Main, Over

LEMMA InitOrder == Init => Ordered
<1> SUFFICES ASSUME Init PROVE Ordered
  OBVIOUS
<1>1. /\ begin = NoCursor /\ index = 1 /\ ahead = 0 /\ part = Nothing /\ next = NoCursor
      /\ walker = [c \in Catalogs |-> Idle]
  BY DEF Init
<1>2. ASSUME NEW c \in Catalogs PROVE walker[c].st = "off" /\ walker[c].events = <<>>
  BY <1>1 DEF Idle
<1>3. ASSUME NEW c \in Catalogs PROVE WalkOrder(walker[c], c)
  BY <1>2 DEF WalkOrder, EventsOrdered, FoundIn
<1>4. QED
  BY <1>1, <1>2, <1>3 DEF Ordered, Nothing, FirstOf

\* A call that resumes and stops again stops further on, whatever fails, is slow or fills
\* the page on the way: a chain of cursors never stays in one place (stalled, replay).
THEOREM CursorAdvancesHolds == Spec => []CursorAdvances
<1>1. Spec => []Ordered
  BY InitOrder, StepOrder, IInvHolds, PTL DEF Spec
<1>2. Ordered => CursorAdvances
  BY DEF Ordered, Past, CursorAdvances
<1>3. QED
  BY <1>1, <1>2, PTL

-----------------------------------------------------------------------------
(* A chain is whole: every row is told once, and none is left behind a     *)
(* cursor.  The walk of a catalog tells, or names as not searched, all     *)
(* that comes before each point it tells of; the pass takes it in order.   *)

Told(e)      == IF e.kind = "rows" THEN Range(Rows(e.at, e.n)) ELSE {}
Names(e, r)  == e.kind = "gap" /\ e.at \in {<<r[1], r[2]>>, <<r[1], 0>>}
Covers(e, r) == r \in Told(e) \/ Names(e, r)
Among(q, r)  == \E i \in DOMAIN q : Covers(q[i], r)
ToldBy(q)    == UNION {Told(q[i]) : i \in DOMAIN q}
UpTo(p, r)   == ~Precedes(p, r)

\* The rows a catalog holds from where the pass begins, and those a part accounts for.
Mine(c) == {r \in AllRows(mode) : r[1] = c /\ Past(r)}
Missed(gaps, r) == <<r[1], r[2]>> \in gaps \/ <<r[1], 0>> \in gaps
TakenBy(acc)    == {r \in AllRows(mode) : r \in Range(acc.rows) \/ Missed(acc.gaps, r)}

\* Of the rows M that are not in base, a walk that stands at p told those up to p, and
\* no other.
Reaches(q, M, base, p) ==
  /\ \A r \in M : UpTo(p, r) => r \in base \/ Among(q, r)
  /\ \A r \in ToldBy(q) : UpTo(p, r)

Seamless(q, M, base) ==
  \A j \in DOMAIN q : q[j].kind \in Pointed =>
    /\ \A r \in M : UpTo(q[j].at, r) => r \in base \/ \E i \in DOMAIN q : i < j /\ Covers(q[i], r)
    /\ \A i \in DOMAIN q : i < j => \A r \in Told(q[i]) : UpTo(q[j].at, r)

\* The last event of a walk stops the pass, once there is no room for more.
StopsAt(e, used) ==
  \/ e.kind \in {"stop", "error"}
  \/ e.kind = "rows" /\ e.more
  \/ e.kind \in {"open", "before"} /\ used >= PageSize

WalkSeam(w, c, M, base) ==
  /\ Seamless(w.events, M, base)
  /\ w.st \in {"asking", "reading"} => Reaches(w.events, M, base, Spot(c, w.at))
  /\ w.st = "ended" => \/ \A r \in M : r \in base \/ Among(w.events, r)
                       \/ w.events # <<>> /\ StopsAt(w.events[Len(w.events)], w.used)

\* The cap of a walk counts no row that is not told or taken.
Counted(used, S) == IsFiniteSet(S) /\ used <= Cardinality(S)

Sorted(s)   == \A i, j \in DOMAIN s : i < j => Precedes(s[i], s[j])
Below(q, r) == \A j \in DOMAIN q : q[j].kind \in Pointed => UpTo(q[j].at, r)

Running(acc) == acc.stop = NoStop /\ ~acc.error

\* A walk beside a pass that took acc and replays catalog i.
SeamAt(w, acc, c, i) ==
  /\ WalkSeam(w, c, Mine(c), TakenBy(acc))
  /\ Counted(w.used, ToldBy(w.events) \cup (IF c = i THEN Range(acc.rows) ELSE {}))

WalksSeam(walks, acc, i) == \A c \in Catalogs : c >= i => SeamAt(walks[c], acc, c, i)

\* The catalogs the pass left are accounted for; the rows it took are in order.
CatalogsLeft(acc, i) == \A r \in AllRows(mode) : r[1] < i /\ Past(r) => r \in TakenBy(acc)
RowsInOrder(acc)     == Sorted(acc.rows) /\ \A r \in Range(acc.rows) : Past(r)
Behind(r, walks, i)  == \/ r[1] < i
                        \/ r[1] = i /\ i \in Catalogs /\ walks[i].st = "ended" /\ Below(walks[i].events, r)

\* What comes before the stop is accounted for, and nothing past it was taken.
StopSeam(acc) ==
  acc.stop # NoStop =>
    /\ \A r \in AllRows(mode) : Past(r) /\ UpTo(acc.stop, r) => r \in TakenBy(acc)
    /\ \A r \in Range(acc.rows) : UpTo(acc.stop, r)

Stage(m, acc, i) ==
  /\ m \in {"leaving", "joining"} => ~Running(acc) \/ i = Len(world.catalogs) + 1
  /\ m \in {"fill", "next"} => Running(acc)

PassSeam ==
  /\ Running(part) => WalksSeam(walker, part, index)
  /\ CatalogsLeft(part, index)
  /\ RowsInOrder(part) /\ \A r \in Range(part.rows) : Behind(r, walker, index)
  /\ StopSeam(part)
  /\ Stage(main, part, index)

Kept(r) == r \in Range(served) \/ Missed(gapped, r)

\* What the calls before this one served is all that comes before its cursor.
Resumes(cursor) ==
  /\ cursor.mode = mode /\ (cursor.gaps <=> gapped # {}) /\ (cursor.found <=> served # <<>>)
  /\ \A r \in AllRows(mode) : UpTo(cursor.at, r) => Kept(r)
  /\ \A r \in Range(served) : UpTo(cursor.at, r)

ChainSeam ==
  /\ main # "done" => /\ ~complete
                      /\ begin = NoCursor => served = <<>> /\ gapped = {}
                      /\ begin # NoCursor => Resumes(begin)
  /\ served \in Seq(Row) /\ Sorted(served)
  /\ main = "done" /\ outcome = "answered" /\ next = NoCursor => \A r \in AllRows(mode) : Kept(r)
  /\ main = "done" /\ next # NoCursor => Resumes(next)
  /\ complete => next = NoCursor /\ gapped = {}
  /\ mode = "per_word" => AllRows("every_word") = {}

-----------------------------------------------------------------------------
(* Rows, and the points before and after them *)

LEMMA TotalOrder ==
  ASSUME NEW a \in Row, NEW b \in Row, NEW d \in Row
  PROVE  /\ Precedes(a, b) /\ Precedes(b, d) => Precedes(a, d)
         /\ UpTo(a, b) /\ Precedes(a, d) => Precedes(b, d)
         /\ ~Precedes(a, a) /\ (Precedes(a, b) => ~Precedes(b, a))
         /\ UpTo(a, b) /\ UpTo(d, a) => UpTo(d, b)
<1>1. Numbered(a) /\ Numbered(b) /\ Numbered(d)
  BY RowsNumbered
<1>2. QED
  BY <1>1, PrecedesIs DEF Numbered, UpTo

LEMMA FourNumbers ==
  ASSUME NEW x, NEW y, NEW z, NEW n
  PROVE  Append(<<x, y, z>>, n) = <<x, y, z, n>>
<1> DEFINE s == <<x, y, z>>
           t == <<x, y, z, n>>
           u == Append(s, n)
<1>1. s \in Seq({x, y, z, n}) /\ Len(s) = 3 /\ s[1] = x /\ s[2] = y /\ s[3] = z
  OBVIOUS
<1>2. t \in Seq({x, y, z, n}) /\ Len(t) = 4 /\ t[1] = x /\ t[2] = y /\ t[3] = z /\ t[4] = n
  OBVIOUS
<1> HIDE DEF s, t
<1>3. u \in Seq({x, y, z, n}) /\ Len(u) = 4 /\ u[4] = n /\ \A i \in 1..3 : u[i] = s[i]
  <2> DEFINE S == {x, y, z, n}
  <2>1. s \in Seq(S) /\ Len(s) = 3 /\ n \in S
    BY <1>1
  <2> HIDE DEF S
  <2>2. u \in Seq(S)
    BY <2>1
  <2>3. /\ DOMAIN u = DOMAIN s \cup {Len(s) + 1} /\ u[Len(s) + 1] = n
        /\ \A i \in DOMAIN s : u[i] = s[i]
    BY <2>1, EventAdded
  <2>4. DOMAIN s = 1..3 /\ DOMAIN u = 1..Len(u) /\ Len(u) \in Nat
    BY <2>1, <2>2
  <2> HIDE DEF u
  <2>5. Len(u) = 4
    BY <2>1, <2>3, <2>4
  <2>6. QED
    BY <2>1, <2>2, <2>3, <2>4, <2>5 DEF S
<1>4. \A i \in 1..4 : i \in {1, 2, 3, 4}
  OBVIOUS
<1> HIDE DEF u
<1>5. \A i \in 1..4 : u[i] = t[i]
  BY <1>1, <1>2, <1>3, <1>4
<1>6. u = t
  BY <1>2, <1>3, <1>5
<1>7. QED
  BY <1>6 DEF u, s, t

\* A row of Trino is one of a phase of a schema of a catalog.
LEMMA RowOf ==
  ASSUME WorldTyped, NEW r \in AllRows(mode)
  PROVE  /\ r \in Row /\ r[1] \in Catalogs /\ r[2] \in 1..Len(Schemas(r[1])) /\ r[3] \in Phases
         /\ r[4] \in Nat \ {0} /\ r[4] <= Total(r[1], r[2], r[3])
<1>1. PICK u \in Places : r \in {Append(u, i) : i \in 1..Schemas(u[1])[u[2]].rows[mode][u[3]]}
  BY DEF AllRows
<1>2. PICK c \in Catalogs : u \in {c} \X (DOMAIN Schemas(c)) \X {Tables, Columns}
  BY DEF Places
<1>3. PICK s \in DOMAIN Schemas(c), ph \in {Tables, Columns} : u = <<c, s, ph>>
  BY <1>2
<1>4. DOMAIN Schemas(c) = 1..Len(Schemas(c)) /\ Len(Schemas(c)) \in Nat
  BY SchemasType
<1>5. PICK i \in 1..Total(c, s, ph) : r = Append(u, i)
  BY <1>1, <1>3 DEF Total
<1>6. Total(c, s, ph) \in Nat
  BY <1>3, <1>4, TotalType DEF Phases
<1>7. r = <<c, s, ph, i>>
  BY <1>3, <1>5, FourNumbers
<1>8. i \in Nat \ {0} /\ i <= Total(c, s, ph) /\ c \in Nat /\ s \in Nat /\ ph \in Phases
  BY <1>3, <1>4, <1>5, <1>6 DEF Catalogs, Phases
<1>9. QED
  BY <1>3, <1>4, <1>7, <1>8 DEF Row

LEMMA MineAre ==
  ASSUME WorldTyped, NEW c \in Catalogs, NEW r \in Mine(c)
  PROVE  /\ r \in AllRows(mode) /\ r \in Row /\ r[1] = c /\ Past(r)
         /\ r[2] \in 1..Len(Schemas(c)) /\ r[3] \in Phases
         /\ r[4] \in Nat \ {0} /\ r[4] <= Total(c, r[2], r[3])
<1>1. r \in AllRows(mode) /\ r[1] = c /\ Past(r)
  BY DEF Mine
<1>2. QED
  BY <1>1, RowOf

\* The rows of an answer follow the point it was asked from.
LEMMA RowsAre ==
  ASSUME NEW p \in Row, NEW n \in Nat
  PROVE  /\ Rows(p, n) \in Seq(Row) /\ Len(Rows(p, n)) = n
         /\ \A i \in 1..n : Rows(p, n)[i] = <<p[1], p[2], p[3], p[4] + i>>
         /\ \A r \in Range(Rows(p, n)) : r \in Row /\ r[1] = p[1] /\ Precedes(p, r)
         /\ \A r \in Row : r \in Range(Rows(p, n)) <=> /\ r[1] = p[1] /\ r[2] = p[2] /\ r[3] = p[3]
                                                       /\ p[4] < r[4] /\ r[4] <= p[4] + n
<1>1. p[1] \in Nat /\ p[2] \in Nat /\ p[3] \in Phases /\ p[4] \in Nat /\ p = <<p[1], p[2], p[3], p[4]>>
  BY DEF Row
<1> DEFINE f(i) == <<p[1], p[2], p[3], p[4] + i>>
<1>2. \A i \in 1..n : f(i) \in Row
  BY <1>1 DEF Row
<1>3. Rows(p, n) = [i \in 1..n |-> f(i)]
  BY DEF Rows
<1>4. Rows(p, n) \in Seq(Row) /\ Len(Rows(p, n)) = n /\ \A i \in 1..n : Rows(p, n)[i] = f(i)
  <2> HIDE DEF f
  <2> QED
    BY <1>2, <1>3
<1>5. \A r : r \in Range(Rows(p, n)) <=> \E i \in 1..n : r = f(i)
  <2> HIDE DEF f
  <2> QED
    BY <1>3 DEF Range
<1>6. ASSUME NEW r \in Range(Rows(p, n)) PROVE r \in Row /\ r[1] = p[1] /\ Precedes(p, r)
  <2>1. PICK i \in 1..n : r = f(i)
    BY <1>5
  <2>2. r \in Row /\ r[1] = p[1] /\ r[2] = p[2] /\ r[3] = p[3] /\ r[4] = p[4] + i
    BY <1>2, <2>1
  <2>3. r[4] > p[4]
    BY <1>1, <2>2
  <2>4. QED
    BY <2>2, <2>3, PrecedesIs
<1>7. ASSUME NEW r \in Row
      PROVE  r \in Range(Rows(p, n)) <=> /\ r[1] = p[1] /\ r[2] = p[2] /\ r[3] = p[3]
                                         /\ p[4] < r[4] /\ r[4] <= p[4] + n
  <2>1. r = <<r[1], r[2], r[3], r[4]>> /\ r[4] \in Nat
    BY DEF Row
  <2>2. (\E i \in 1..n : r = f(i)) <=> /\ r[1] = p[1] /\ r[2] = p[2] /\ r[3] = p[3]
                                       /\ \E i \in 1..n : r[4] = p[4] + i
    BY <2>1
  <2>3. (\E i \in 1..n : r[4] = p[4] + i) <=> p[4] < r[4] /\ r[4] <= p[4] + n
    <3>1. p[4] < r[4] /\ r[4] <= p[4] + n => r[4] - p[4] \in 1..n /\ r[4] = p[4] + (r[4] - p[4])
      BY <1>1, <2>1
    <3>2. \A i \in 1..n : p[4] + i > p[4] /\ p[4] + i <= p[4] + n
      BY <1>1
    <3>3. QED
      BY <3>1, <3>2
  <2>4. QED
    BY <1>5, <2>2, <2>3
<1>8. QED
  BY <1>4, <1>6, <1>7

LEMMA RowThere ==
  ASSUME NEW p \in Row, NEW n \in Nat, NEW r \in Range(Rows(p, n))
  PROVE  /\ r \in Row /\ r[1] = p[1] /\ Precedes(p, r)
         /\ r[2] = p[2] /\ r[3] = p[3] /\ p[4] < r[4] /\ r[4] <= p[4] + n
<1>1. r \in Row /\ r[1] = p[1] /\ Precedes(p, r)
  BY RowsAre
<1>2. QED
  BY <1>1, RowsAre

LEMMA RowsSorted ==
  ASSUME NEW p \in Row, NEW n \in Nat
  PROVE  Sorted(Rows(p, n))
<1>1. SUFFICES ASSUME NEW i \in 1..n, NEW j \in 1..n, i < j
               PROVE  Precedes(Rows(p, n)[i], Rows(p, n)[j])
  BY RowsAre DEF Sorted
<1>2. Rows(p, n)[i] = <<p[1], p[2], p[3], p[4] + i>> /\ Rows(p, n)[j] = <<p[1], p[2], p[3], p[4] + j>>
  BY RowsAre
<1>3. p[1] \in Nat /\ p[2] \in Nat /\ p[3] \in Phases /\ p[4] \in Nat
  BY DEF Row
<1> DEFINE a == p[4] + i
           b == p[4] + j
<1>4. a \in Nat /\ b \in Nat /\ a < b
  BY <1>1, <1>3
<1> HIDE DEF a, b
<1>5. <<p[1], p[2], p[3], a>> \in Row /\ <<p[1], p[2], p[3], b>> \in Row
  BY <1>3, <1>4 DEF Row
<1>6. Precedes(<<p[1], p[2], p[3], a>>, <<p[1], p[2], p[3], b>>)
  BY <1>4, <1>5, PrecedesIs
<1>7. QED
  BY <1>2, <1>6 DEF a, b

\* A sorted sequence holds each row once.
LEMMA SortedCounts ==
  ASSUME NEW s \in Seq(Row), Sorted(s)
  PROVE  IsInjective(s) /\ IsFiniteSet(Range(s)) /\ Cardinality(Range(s)) = Len(s)
<1>1. DOMAIN s = 1..Len(s) /\ Len(s) \in Nat /\ \A i \in DOMAIN s : s[i] \in Row /\ i \in Int
  OBVIOUS
<1>2. IsInjective(s)
  <2>1. SUFFICES ASSUME NEW i \in DOMAIN s, NEW j \in DOMAIN s, s[i] = s[j], i # j PROVE FALSE
    BY DEF IsInjective
  <2>2. i < j \/ j < i
    BY <1>1, <2>1
  <2>3. Precedes(s[i], s[j]) \/ Precedes(s[j], s[i])
    BY <2>2 DEF Sorted
  <2>4. ~Precedes(s[i], s[i])
    BY <1>1, TotalOrder
  <2>5. QED
    BY <2>1, <2>3, <2>4
<1>3. s \in Bijection(1..Len(s), Range(s))
  <2> DEFINE D == 1..Len(s)
  <2>1. s \in [D -> Range(s)] /\ DOMAIN s = D
    BY <1>1 DEF Range
  <2>3. \A t \in Range(s) : \E a \in D : s[a] = t
    BY <2>1 DEF Range
  <2> HIDE DEF D
  <2>4. s \in Injection(D, Range(s))
    BY <1>2, <2>1 DEF Injection
  <2>5. s \in Surjection(D, Range(s))
    BY <2>1, <2>3 DEF Surjection
  <2>6. QED
    BY <2>4, <2>5 DEF Bijection, D
<1>4. IsFiniteSet(1..Len(s)) /\ Cardinality(1..Len(s)) = Len(s)
  <2>1. /\ IsFiniteSet(1..Len(s))
        /\ Cardinality(1..Len(s)) = IF 1 > Len(s) THEN 0 ELSE Len(s) - 1 + 1
    BY <1>1, FS_Interval
  <2>2. QED
    BY <1>1, <2>1
<1>5. ExistsBijection(1..Len(s), Range(s))
  BY <1>3 DEF ExistsBijection
<1>6. QED
  BY <1>2, <1>4, <1>5, FS_Bijection

\* Two sorted sequences, one below the other.
LEMMA SortedJoin ==
  ASSUME NEW s \in Seq(Row), NEW t \in Seq(Row), Sorted(s), Sorted(t),
         \A x \in Range(s), y \in Range(t) : Precedes(x, y)
  PROVE  Sorted(s \o t)
<1> DEFINE u == s \o t
<1>1. /\ DOMAIN u = 1..(Len(s) + Len(t)) /\ Len(s) \in Nat /\ Len(t) \in Nat
      /\ DOMAIN s = 1..Len(s) /\ DOMAIN t = 1..Len(t)
      /\ \A i \in DOMAIN u : u[i] = IF i <= Len(s) THEN s[i] ELSE t[i - Len(s)]
  OBVIOUS
<1> HIDE DEF u
<1>2. SUFFICES ASSUME NEW i \in DOMAIN u, NEW j \in DOMAIN u, i < j PROVE Precedes(u[i], u[j])
  BY DEF Sorted, u
<1>3. CASE j <= Len(s)
  <2>1. i \in DOMAIN s /\ j \in DOMAIN s /\ u[i] = s[i] /\ u[j] = s[j]
    BY <1>1, <1>2, <1>3
  <2>2. QED
    BY <1>2, <2>1 DEF Sorted
<1>4. CASE i > Len(s)
  <2>1. i - Len(s) \in DOMAIN t /\ j - Len(s) \in DOMAIN t /\ u[i] = t[i - Len(s)] /\ u[j] = t[j - Len(s)]
        /\ i - Len(s) < j - Len(s)
    BY <1>1, <1>2, <1>4
  <2>2. QED
    BY <2>1 DEF Sorted
<1>5. CASE i <= Len(s) /\ j > Len(s)
  <2>1. i \in DOMAIN s /\ j - Len(s) \in DOMAIN t /\ u[i] = s[i] /\ u[j] = t[j - Len(s)]
    BY <1>1, <1>2, <1>5
  <2>2. s[i] \in Range(s) /\ t[j - Len(s)] \in Range(t)
    BY <2>1 DEF Range
  <2>3. QED
    BY <2>1, <2>2
<1>6. QED
  BY <1>1, <1>3, <1>4, <1>5

LEMMA RangeJoin ==
  ASSUME NEW S, NEW s \in Seq(S), NEW t \in Seq(S)
  PROVE  Range(s \o t) = Range(s) \cup Range(t)
<1> DEFINE u == s \o t
<1>1. /\ DOMAIN u = 1..(Len(s) + Len(t)) /\ Len(s) \in Nat /\ Len(t) \in Nat
      /\ DOMAIN s = 1..Len(s) /\ DOMAIN t = 1..Len(t)
      /\ \A i \in DOMAIN u : u[i] = IF i <= Len(s) THEN s[i] ELSE t[i - Len(s)]
  OBVIOUS
<1> HIDE DEF u
<1>2. ASSUME NEW x \in Range(u) PROVE x \in Range(s) \/ x \in Range(t)
  <2>1. PICK i \in DOMAIN u : x = u[i]
    BY DEF Range
  <2>2. i <= Len(s) => i \in DOMAIN s
    BY <1>1
  <2>3. ~(i <= Len(s)) => i - Len(s) \in DOMAIN t
    BY <1>1
  <2>4. QED
    BY <1>1, <2>1, <2>2, <2>3 DEF Range
<1>3. ASSUME NEW x \in Range(s) PROVE x \in Range(u)
  <2>1. PICK i \in DOMAIN s : x = s[i]
    BY DEF Range
  <2>2. i \in DOMAIN u /\ u[i] = s[i]
    BY <1>1
  <2>3. QED
    BY <2>1, <2>2 DEF Range
<1>4. ASSUME NEW x \in Range(t) PROVE x \in Range(u)
  <2>1. PICK i \in DOMAIN t : x = t[i]
    BY DEF Range
  <2>2. i + Len(s) \in DOMAIN u /\ ~(i + Len(s) <= Len(s)) /\ (i + Len(s)) - Len(s) = i
    BY <1>1
  <2>3. u[i + Len(s)] = t[i]
    BY <1>1, <2>2
  <2>4. QED
    BY <2>1, <2>2, <2>3 DEF Range
<1>5. QED
  BY <1>2, <1>3, <1>4 DEF u

-----------------------------------------------------------------------------
(* What a walk tells as its events are added and taken *)

LEMMA ToldRows ==
  ASSUME NEW c \in Catalogs, NEW e \in Event(c)
  PROVE  /\ \A r \in Told(e) : r \in Row /\ r[1] = c /\ Precedes(e.at, r)
         /\ e.kind # "rows" => Told(e) = {}
<1>1. CASE e.kind = "rows"
  <2>1. e.at \in Row /\ e.at[1] = c /\ e.n \in Nat
    <3>1. e.kind \in Pointed
      BY <1>1 DEF Pointed
    <3>2. e.n \in Nat
      BY <1>1 DEF Event
    <3>3. QED
      BY <3>1, <3>2, PointRow
  <2> DEFINE p == e.at
             n == e.n
  <2>2. Told(e) = Range(Rows(p, n)) /\ p \in Row /\ p[1] = c /\ n \in Nat
    BY <1>1, <2>1 DEF Told
  <2> HIDE DEF p, n
  <2>3. \A r \in Range(Rows(p, n)) : r \in Row /\ r[1] = p[1] /\ Precedes(p, r)
    BY <2>2, RowsAre
  <2>4. QED
    BY <1>1, <2>2, <2>3 DEF p
<1>2. QED
  BY <1>1 DEF Told

LEMMA ToldByRows ==
  ASSUME NEW c \in Catalogs, NEW q \in Seq(Event(c)), NEW r \in ToldBy(q)
  PROVE  r \in Row /\ r[1] = c
<1>1. PICK i \in DOMAIN q : r \in Told(q[i])
  BY DEF ToldBy
<1>2. q[i] \in Event(c)
  BY <1>1
<1>3. QED
  BY <1>1, <1>2, ToldRows

LEMMA ToldAdded ==
  ASSUME NEW c \in Catalogs, NEW q \in Seq(Event(c)), NEW e \in Event(c)
  PROVE  /\ \A r : Among(Append(q, e), r) <=> Among(q, r) \/ Covers(e, r)
         /\ ToldBy(Append(q, e)) = ToldBy(q) \cup Told(e)
<1> DEFINE p == Append(q, e)
<1>1. /\ DOMAIN p = DOMAIN q \cup {Len(q) + 1} /\ p[Len(q) + 1] = e
      /\ \A i \in DOMAIN q : p[i] = q[i]
  BY EventAdded
<1> HIDE DEF p
<1>2. \A r : Among(p, r) <=> Among(q, r) \/ Covers(e, r)
  BY <1>1 DEF Among
<1>3. \A r : r \in ToldBy(p) <=> r \in ToldBy(q) \/ r \in Told(e)
  <2>1. \A r : r \in ToldBy(p) <=> \E i \in DOMAIN p : r \in Told(p[i])
    BY DEF ToldBy
  <2>2. \A r : r \in ToldBy(q) <=> \E i \in DOMAIN q : r \in Told(q[i])
    BY DEF ToldBy
  <2>3. QED
    BY <1>1, <2>1, <2>2
<1>4. QED
  BY <1>2, <1>3 DEF p

LEMMA SeamAdded ==
  ASSUME NEW c \in Catalogs, NEW q \in Seq(Event(c)), NEW e \in Event(c), NEW M, NEW base,
         Seamless(q, M, base), e.kind \in Pointed => Reaches(q, M, base, e.at)
  PROVE  Seamless(Append(q, e), M, base)
<1> DEFINE p == Append(q, e)
<1>1. /\ DOMAIN p = DOMAIN q \cup {Len(q) + 1} /\ p[Len(q) + 1] = e
      /\ \A i \in DOMAIN q : p[i] = q[i] /\ i < Len(q) + 1 /\ i \in Nat
      /\ Len(q) \in Nat
  BY EventAdded
<1> HIDE DEF p
<1>2. SUFFICES ASSUME NEW j \in DOMAIN p, p[j].kind \in Pointed
               PROVE  /\ \A r \in M : UpTo(p[j].at, r) => r \in base \/ \E i \in DOMAIN p : i < j /\ Covers(p[i], r)
                      /\ \A i \in DOMAIN p : i < j => \A r \in Told(p[i]) : UpTo(p[j].at, r)
  BY DEF Seamless, p
<1>3. CASE j \in DOMAIN q
  <2>1. \A i \in DOMAIN p : i < j => i \in DOMAIN q /\ p[i] = q[i]
    BY <1>1, <1>3
  <2>2. q[j].kind \in Pointed /\ p[j] = q[j]
    BY <1>1, <1>2, <1>3
  <2>3. /\ \A r \in M : UpTo(q[j].at, r) => r \in base \/ \E i \in DOMAIN q : i < j /\ Covers(q[i], r)
        /\ \A i \in DOMAIN q : i < j => \A r \in Told(q[i]) : UpTo(q[j].at, r)
    BY <1>3, <2>2 DEF Seamless
  <2>4. QED
    BY <1>1, <2>1, <2>2, <2>3
<1>4. CASE j = Len(q) + 1
  <2>1. p[j] = e /\ Reaches(q, M, base, e.at)
    BY <1>1, <1>2, <1>4
  <2>2. \A i \in DOMAIN p : i < j => i \in DOMAIN q /\ p[i] = q[i]
    BY <1>1, <1>4
  <2>3. \A r \in M : UpTo(e.at, r) => r \in base \/ \E i \in DOMAIN p : i < j /\ Covers(p[i], r)
    BY <1>1, <1>4, <2>1 DEF Reaches, Among
  <2>4. \A i \in DOMAIN q : \A r \in Told(q[i]) : UpTo(e.at, r)
    BY <2>1 DEF Reaches, ToldBy
  <2>5. QED
    BY <2>1, <2>2, <2>3, <2>4
<1>5. QED
  BY <1>1, <1>3, <1>4

\* The first event is taken: what it covers is accounted for.
LEMMA SeamTaken ==
  ASSUME NEW c \in Catalogs, NEW q \in Seq(Event(c)), q # <<>>, NEW M, NEW base, NEW more,
         Seamless(q, M, base), base \subseteq more, \A r \in M : Covers(Head(q), r) => r \in more
  PROVE  /\ Seamless(Tail(q), M, more)
         /\ \A r \in M : Among(q, r) => r \in more \/ Among(Tail(q), r)
<1> DEFINE t == Tail(q)
<1>1. /\ Head(q) = q[1] /\ 1 \in DOMAIN q
      /\ \A i \in DOMAIN t : i \in Nat \ {0} /\ i + 1 \in DOMAIN q /\ 1 < i + 1 /\ t[i] = q[i + 1]
  BY EventTaken
<1>2. \A i \in DOMAIN q : i = 1 \/ (i - 1 \in DOMAIN t /\ (i - 1) + 1 = i /\ i \in Int)
  OBVIOUS
<1> HIDE DEF t
<1>3. ASSUME NEW j \in DOMAIN t, t[j].kind \in Pointed
      PROVE  /\ \A r \in M : UpTo(t[j].at, r) => r \in more \/ \E i \in DOMAIN t : i < j /\ Covers(t[i], r)
             /\ \A i \in DOMAIN t : i < j => \A r \in Told(t[i]) : UpTo(t[j].at, r)
  <2> DEFINE k == j + 1
  <2>1. k \in DOMAIN q /\ t[j] = q[k] /\ k \in Int /\ j \in Int
    BY <1>1
  <2>2. /\ \A r \in M : UpTo(q[k].at, r) => r \in base \/ \E i \in DOMAIN q : i < k /\ Covers(q[i], r)
        /\ \A i \in DOMAIN q : i < k => \A r \in Told(q[i]) : UpTo(q[k].at, r)
    <3> HIDE DEF k
    <3> QED
      BY <1>3, <2>1 DEF Seamless
  <2>3. ASSUME NEW r \in M, UpTo(t[j].at, r) PROVE r \in more \/ \E i \in DOMAIN t : i < j /\ Covers(t[i], r)
    <3>1. r \in base \/ \E i \in DOMAIN q : i < k /\ Covers(q[i], r)
      BY <2>1, <2>2, <2>3
    <3>2. ASSUME NEW i \in DOMAIN q, i < k, Covers(q[i], r), i # 1
          PROVE  i - 1 \in DOMAIN t /\ i - 1 < j /\ Covers(t[i - 1], r)
      <4>1. i - 1 \in DOMAIN t /\ (i - 1) + 1 = i /\ i \in Int
        BY <1>2, <3>2
      <4>2. t[i - 1] = q[i] /\ i - 1 < j
        BY <1>1, <2>1, <3>2, <4>1
      <4>3. QED
        BY <3>2, <4>1, <4>2
    <3>3. QED
      BY <1>1, <3>1, <3>2
  <2>4. ASSUME NEW i \in DOMAIN t, i < j PROVE \A r \in Told(t[i]) : UpTo(t[j].at, r)
    <3>1. i + 1 \in DOMAIN q /\ t[i] = q[i + 1] /\ i + 1 < k
      BY <1>1, <2>4
    <3>2. QED
      BY <2>1, <2>2, <3>1
  <2>5. QED
    BY <2>3, <2>4
<1>4. ASSUME NEW r \in M, Among(q, r) PROVE r \in more \/ Among(t, r)
  <2>1. PICK i \in DOMAIN q : Covers(q[i], r)
    BY <1>4 DEF Among
  <2>2. i # 1 => t[i - 1] = q[i] /\ i - 1 \in DOMAIN t
    BY <1>1, <1>2
  <2>3. QED
    BY <1>1, <2>1, <2>2 DEF Among
<1>5. QED
  BY <1>3, <1>4 DEF Seamless, t

\* The points that are left are past the rows taken before them.
LEMMA BelowTaken ==
  ASSUME NEW c \in Catalogs, NEW q \in Seq(Event(c)), q # <<>>, NEW M, NEW base, Seamless(q, M, base)
  PROVE  /\ Head(q).kind \in Pointed => \A r \in M : UpTo(Head(q).at, r) => r \in base
         /\ \A r \in Told(Head(q)) : Below(Tail(q), r)
         /\ \A r : Below(q, r) => Below(Tail(q), r) /\ (Head(q).kind \in Pointed => UpTo(Head(q).at, r))
         /\ ToldBy(q) = Told(Head(q)) \cup ToldBy(Tail(q))
         /\ Tail(q) # <<>> => Tail(q)[Len(Tail(q))] = q[Len(q)]
         /\ Tail(q) = <<>> => Head(q) = q[Len(q)]
<1> DEFINE t == Tail(q)
<1>1. /\ Head(q) = q[1] /\ 1 \in DOMAIN q
      /\ \A i \in DOMAIN t : i \in Nat \ {0} /\ i + 1 \in DOMAIN q /\ 1 < i + 1 /\ t[i] = q[i + 1]
  BY EventTaken
<1>2. \A i \in DOMAIN q : i = 1 \/ (i - 1 \in DOMAIN t /\ (i - 1) + 1 = i /\ i \in Nat \ {0})
  OBVIOUS
<1>3. t # <<>> => Len(t) \in DOMAIN t /\ Len(t) + 1 = Len(q)
  OBVIOUS
<1>4. t = <<>> => Len(q) = 1
  <2>1. Len(t) = Len(q) - 1 /\ Len(q) \in Nat
    OBVIOUS
  <2> HIDE DEF t
  <2>2. QED
    BY <2>1
<1> HIDE DEF t
<1>5. Head(q).kind \in Pointed => \A r \in M : UpTo(Head(q).at, r) => r \in base
  <2>1. \A i \in DOMAIN q : ~(i < 1)
    BY <1>2
  <2>2. QED
    BY <1>1, <2>1 DEF Seamless
<1>6. \A r \in Told(Head(q)) : Below(t, r)
  BY <1>1 DEF Seamless, Below
<1>7. \A r : Below(q, r) => Below(t, r) /\ (Head(q).kind \in Pointed => UpTo(Head(q).at, r))
  BY <1>1 DEF Below
<1>8. \A r : r \in ToldBy(q) <=> r \in Told(Head(q)) \/ r \in ToldBy(t)
  <2>1. \A r : r \in ToldBy(q) <=> \E i \in DOMAIN q : r \in Told(q[i])
    BY DEF ToldBy
  <2>2. \A r : r \in ToldBy(t) <=> \E i \in DOMAIN t : r \in Told(t[i])
    BY DEF ToldBy
  <2>3. \A i \in DOMAIN q : i # 1 => t[i - 1] = q[i] /\ i - 1 \in DOMAIN t
    BY <1>1, <1>2
  <2>4. \A i \in DOMAIN t : i + 1 \in DOMAIN q /\ t[i] = q[i + 1]
    BY <1>1
  <2>5. QED
    BY <1>1, <2>1, <2>2, <2>3, <2>4
<1>9. t # <<>> => t[Len(t)] = q[Len(q)]
  BY <1>1, <1>3
<1>10. QED
  BY <1>1, <1>4, <1>5, <1>6, <1>7, <1>8, <1>9 DEF t

-----------------------------------------------------------------------------
(* What lies between two points a walk tells of *)

LEMMA PlaceRow ==
  ASSUME NEW c \in Catalogs, NEW s \in Nat, NEW ph \in Phases, NEW o \in Nat
  PROVE  <<c, s, ph, o>> \in Row
  BY DEF Row, Catalogs

\* A row of a catalog past a point is in its schema further on, or in a later one.
LEMMA PastPlace ==
  ASSUME WorldTyped, NEW c \in Catalogs, NEW s \in Nat, NEW ph \in Phases, NEW o \in Nat,
         NEW r \in Mine(c), Precedes(<<c, s, ph, o>>, r)
  PROVE  /\ r \in Row /\ r[1] = c /\ r[2] \in Nat /\ r[3] \in {1, 2} /\ r[4] \in Nat \ {0}
         /\ c \in Nat /\ ph \in {1, 2} /\ Tables = 1 /\ Columns = 2
         /\ s < r[2] \/ (s = r[2] /\ ph < r[3]) \/ (s = r[2] /\ ph = r[3] /\ o < r[4])
<1>1. /\ r \in Row /\ r[1] = c /\ r[2] \in Nat /\ r[3] \in {1, 2} /\ r[4] \in Nat \ {0}
      /\ c \in Nat /\ ph \in {1, 2} /\ Tables = 1 /\ Columns = 2
  <2>1. r \in Row /\ r[1] = c /\ r[3] \in Phases /\ r[4] \in Nat \ {0}
    BY MineAre
  <2>2. r[2] \in Nat /\ c \in Nat
    BY <2>1 DEF Row, Catalogs
  <2>3. QED
    BY <2>1, <2>2 DEF Phases, Tables, Columns
<1>2. <<c, s, ph, o>> \in Row
  BY PlaceRow
<1>3. s < r[2] \/ (s = r[2] /\ ph < r[3]) \/ (s = r[2] /\ ph = r[3] /\ o < r[4])
  BY <1>1, <1>2, PrecedesIs
<1>4. QED
  BY <1>1, <1>3

LEMMA InSchema ==
  ASSUME WorldTyped, NEW c \in Catalogs, NEW s \in Nat, NEW ph \in Phases, NEW o \in Nat,
         NEW r \in Mine(c), Precedes(<<c, s, ph, o>>, r), UpTo(<<c, s + 1, Tables, 0>>, r)
  PROVE  r[1] = c /\ r[2] = s /\ (ph = Columns => r[3] = ph /\ o < r[4])
<1>1. <<c, s + 1, Tables, 0>> \in Row
  BY PlaceRow DEF Phases
<1>2. QED
  BY <1>1, PastPlace, PrecedesIs DEF UpTo

LEMMA InPhase ==
  ASSUME WorldTyped, NEW c \in Catalogs, NEW s \in Nat, NEW ph \in Phases, NEW o \in Nat,
         NEW r \in Mine(c), Precedes(<<c, s, ph, o>>, r), UpTo(<<c, s, Columns, 0>>, r)
  PROVE  r[1] = c /\ r[2] = s /\ r[3] = ph /\ o < r[4]
<1>1. <<c, s, Columns, 0>> \in Row
  BY PlaceRow DEF Phases
<1>2. QED
  BY <1>1, PastPlace, PrecedesIs DEF UpTo

LEMMA InRows ==
  ASSUME WorldTyped, NEW c \in Catalogs, NEW s \in Nat, NEW ph \in Phases, NEW o \in Nat,
         NEW r \in Mine(c), Precedes(<<c, s, ph, o>>, r), NEW n \in Nat, UpTo(<<c, s, ph, o + n>>, r)
  PROVE  r[1] = c /\ r[2] = s /\ r[3] = ph /\ o < r[4] /\ r[4] <= o + n
<1> DEFINE m == o + n
<1>1. m \in Nat /\ <<c, s, ph, m>> \in Row
  BY PlaceRow
<1> HIDE DEF m
<1>2. UpTo(<<c, s, ph, m>>, r)
  BY DEF m
<1>3. r[1] = c /\ r[2] = s /\ r[3] = ph /\ o < r[4] /\ r[4] <= m
  BY <1>1, <1>2, PastPlace, PrecedesIs DEF UpTo
<1>4. QED
  BY <1>3 DEF m

\* From one point to a later one, what is between them being told.
LEMMA ReachesOn ==
  ASSUME WorldTyped, NEW c \in Catalogs, NEW w \in WalkRecord(c), NEW e \in Event(c), NEW base,
         NEW p \in Row, NEW d \in Row, Reaches(w.events, Mine(c), base, p), Precedes(p, d),
         \A r \in Mine(c) : Precedes(p, r) /\ UpTo(d, r) => Covers(e, r),
         \A r \in Told(e) : UpTo(d, r)
  PROVE  Reaches(Add(w, e).events, Mine(c), base, d)
<1> DEFINE q == w.events
<1>0. q \in Seq(Event(c)) /\ Add(w, e).events = Append(q, e)
  BY DEF WalkRecord, Add
<1> HIDE DEF q
<1>1. ASSUME NEW r \in Mine(c), UpTo(d, r) PROVE r \in base \/ Among(Append(q, e), r)
  <2>1. UpTo(p, r) => r \in base \/ Among(q, r)
    BY DEF Reaches, q
  <2>2. ~UpTo(p, r) => Covers(e, r)
    BY <1>1 DEF UpTo
  <2>3. QED
    BY <1>0, <2>1, <2>2, ToldAdded
<1>2. ASSUME NEW r \in ToldBy(Append(q, e)) PROVE UpTo(d, r)
  <2>1. r \in ToldBy(q) \/ r \in Told(e)
    BY <1>0, <1>2, ToldAdded
  <2>2. ASSUME r \in ToldBy(q) PROVE UpTo(d, r)
    <3>1. r \in Row /\ UpTo(p, r)
      BY <1>0, <2>2, ToldByRows DEF Reaches, q
    <3>2. QED
      BY <3>1, TotalOrder DEF UpTo
  <2>3. QED
    BY <2>1, <2>2
<1>3. QED
  BY <1>0, <1>1, <1>2 DEF Reaches

-----------------------------------------------------------------------------
(* A walk leaves no seam *)

\* A walk that told no row since w.
Seams(w, v, c, base) ==
  WalkSeam(v, c, Mine(c), base) /\ v.used = w.used /\ ToldBy(v.events) = ToldBy(w.events)

\* A walk ends when nothing of its catalog is left.
LEMMA EndSeam ==
  ASSUME NEW c \in Catalogs, NEW w \in WalkRecord(c), NEW base, Seamless(w.events, Mine(c), base),
         \/ \A r \in Mine(c) : r \in base \/ Among(w.events, r)
         \/ w.events # <<>> /\ StopsAt(w.events[Len(w.events)], w.used)
  PROVE  Seams(w, End(w), c, base)
<1> DEFINE v == End(w)
<1>1. v.events = w.events /\ v.st = "ended" /\ v.used = w.used
  BY DEF End, WalkRecord
<1> HIDE DEF v
<1>2. WalkSeam(v, c, Mine(c), base)
  BY <1>1 DEF WalkSeam
<1>3. QED
  BY <1>1, <1>2 DEF Seams, v

\* What may be told after the events of a walk, and what the walk is then.
Tellable(w, e, c, base) ==
  /\ w \in WalkRecord(c) /\ e \in Event(c)
  /\ Seamless(w.events, Mine(c), base)
  /\ e.kind \in Pointed => Reaches(w.events, Mine(c), base, e.at)

Tells(w, v, e, c, base) ==
  /\ v \in WalkRecord(c) /\ v.used = w.used
  /\ Seamless(v.events, Mine(c), base)
  /\ ToldBy(v.events) = ToldBy(w.events) \cup Told(e)
  /\ \A r : Among(v.events, r) <=> Among(w.events, r) \/ Covers(e, r)
  /\ v.events # <<>> /\ v.events[Len(v.events)] = e

LEMMA AddSeam ==
  ASSUME NEW c \in Catalogs, NEW w, NEW e, NEW base, Tellable(w, e, c, base)
  PROVE  Tells(w, Add(w, e), e, c, base)
<1> DEFINE q == w.events
<1>1. q \in Seq(Event(c)) /\ Add(w, e).events = Append(q, e) /\ e \in Event(c) /\ w \in WalkRecord(c)
  BY DEF WalkRecord, Add, Tellable
<1>2. Append(q, e) # <<>> /\ Append(q, e)[Len(Append(q, e))] = e
  <2> HIDE DEF q
  <2> QED
    BY <1>1
<1>3. Seamless(Append(q, e), Mine(c), base)
  BY <1>1, SeamAdded DEF Tellable
<1>4. /\ ToldBy(Append(q, e)) = ToldBy(q) \cup Told(e)
      /\ \A r : Among(Append(q, e), r) <=> Among(q, r) \/ Covers(e, r)
  BY <1>1, ToldAdded
<1>5. Add(w, e) \in WalkRecord(c) /\ Add(w, e).used = w.used
  BY <1>1, AddWalk
<1>6. QED
  BY <1>1, <1>2, <1>3, <1>4, <1>5 DEF Tells

LEMMA StandSeam ==
  ASSUME WorldTyped, NEW c \in Catalogs, NEW w \in WalkRecord(c),
         NEW s \in Nat \ {0}, NEW ph \in Phases, NEW o \in Nat, NEW base,
         Seamless(w.events, Mine(c), base), Reaches(w.events, Mine(c), base, <<c, s, ph, o>>)
  PROVE  Seams(w, Stand(w, c, s, ph, o), c, base)
<1> DEFINE at    == <<s, ph, o>>
           e     == Point("before", c, at)
           added == Add(w, e)
           here  == [added EXCEPT !.listing = FALSE, !.at = at]
           asking == [here EXCEPT !.st = "asking"]
<1>1. at \in At /\ Spot(c, at) = <<c, s, ph, o>>
  BY DEF At, Spot
<1>2. e \in Event(c) /\ e.kind = "before" /\ e.at = <<c, s, ph, o>> /\ Told(e) = {}
      /\ \A r : ~Covers(e, r)
  <2>1. e \in Event(c) /\ e.kind = "before" /\ e.at = <<c, s, ph, o>>
    BY <1>1, PointEvent DEF Point
  <2> HIDE DEF e
  <2>2. QED
    BY <2>1 DEF Told, Covers, Names
<1> HIDE DEF e
<1>3. /\ added \in WalkRecord(c) /\ added.used = w.used
      /\ Seamless(added.events, Mine(c), base) /\ ToldBy(added.events) = ToldBy(w.events)
      /\ \A r : Among(added.events, r) <=> Among(w.events, r)
      /\ added.events # <<>> /\ added.events[Len(added.events)] = e
  <2>1. Tellable(w, e, c, base)
    BY <1>2 DEF Tellable
  <2>2. Tells(w, added, e, c, base)
    BY <2>1, AddSeam
  <2> HIDE DEF added
  <2>3. QED
    BY <1>2, <2>2 DEF Tells
<1> HIDE DEF added
<1>4. /\ here \in WalkRecord(c) /\ here.events = added.events /\ here.at = at /\ here.used = w.used
  BY <1>1, <1>3 DEF WalkRecord
<1>5. /\ asking.events = added.events /\ asking.st = "asking" /\ asking.at = at /\ asking.used = w.used
  <2> HIDE DEF here
  <2> QED
    BY <1>4 DEF WalkRecord
<1> HIDE DEF here, asking
<1>6. CASE s > Len(Schemas(c))
  <2>1. ASSUME NEW r \in Mine(c) PROVE UpTo(<<c, s, ph, o>>, r)
    <3>1. r \in Row /\ r[1] = c /\ r[2] < s /\ c \in Nat
      BY <1>6, MineAre, SchemasType DEF Catalogs
    <3>2. <<c, s, ph, o>> \in Row
      BY PlaceRow
    <3>3. QED
      BY <3>1, <3>2, PrecedesIs DEF UpTo, Row
  <2>2. Seams(w, End(w), c, base)
    BY <2>1, EndSeam DEF Reaches
  <2>3. QED
    BY <1>6, <2>2 DEF Stand
<1>7. CASE w.used >= PageSize
  <2>1. StopsAt(here.events[Len(here.events)], here.used)
    BY <1>2, <1>3, <1>4, <1>7 DEF StopsAt
  <2>2. Seams(here, End(here), c, base)
    BY <1>3, <1>4, <2>1, EndSeam
  <2>3. Seams(w, End(here), c, base)
    BY <1>3, <1>4, <2>2 DEF Seams
  <2>4. Stand(w, c, s, ph, o) \in {End(w), End(here)} /\ (~(s > Len(Schemas(c))) => Stand(w, c, s, ph, o) = End(here))
    BY <1>7 DEF Stand, here, added, e
  <2>5. QED
    BY <1>6, <2>3, <2>4
<1>8. CASE ~(s > Len(Schemas(c))) /\ ~(w.used >= PageSize)
  <2>1. Stand(w, c, s, ph, o) = asking
    BY <1>8 DEF Stand, asking, here, added, e
  <2>2. Reaches(asking.events, Mine(c), base, Spot(c, asking.at))
    BY <1>1, <1>3, <1>5 DEF Reaches
  <2>3. WalkSeam(asking, c, Mine(c), base)
    BY <1>3, <1>5, <2>2 DEF WalkSeam
  <2>4. QED
    BY <1>3, <1>5, <2>1, <2>3 DEF Seams
<1>9. QED
  BY <1>6, <1>7, <1>8

\* Nothing a catalog holds comes before where a walk of it begins.
LEMMA NothingBefore ==
  ASSUME WorldTyped, NEW c \in Catalogs, NEW r \in Mine(c)
  PROVE  /\ ~UpTo(Spot(c, Entry(c)), r)
         /\ ~UpTo(<<c, 1, Tables, 0>>, r)
<1>1. /\ r \in Row /\ r[1] = c /\ Past(r) /\ r[2] \in Nat \ {0} /\ r[3] \in {1, 2} /\ r[4] \in Nat \ {0}
      /\ c \in Nat /\ Tables = 1
  <2>1. r \in Row /\ r[1] = c /\ Past(r) /\ r[3] \in Phases /\ r[4] \in Nat \ {0}
        /\ r[2] \in 1..Len(Schemas(c)) /\ Len(Schemas(c)) \in Nat
    BY MineAre, SchemasType
  <2>2. c \in Nat
    BY DEF Catalogs
  <2>3. QED
    BY <2>1, <2>2 DEF Phases, Tables, Columns
<1>2. ~UpTo(<<c, 1, Tables, 0>>, r)
  <2>1. <<c, 1, Tables, 0>> \in Row
    BY PlaceRow DEF Phases
  <2>2. QED
    BY <1>1, <2>1, PrecedesIs DEF UpTo
<1>3. ~UpTo(Spot(c, Entry(c)), r)
  <2>1. CASE begin # NoCursor /\ begin.at[1] = c
    <3>1. begin.at = <<begin.at[1], begin.at[2], begin.at[3], begin.at[4]>>
      BY <2>1, BeginRow, RowsNumbered
    <3>2. Spot(c, Entry(c)) = begin.at
      BY <2>1, <3>1 DEF Entry, Spot
    <3>3. QED
      BY <1>1, <2>1, <3>2 DEF Past, UpTo
  <2>2. CASE ~(begin # NoCursor /\ begin.at[1] = c)
    <3>1. Spot(c, Entry(c)) = <<c, 0, Tables, 0>>
      BY <2>2 DEF Entry, Spot
    <3>2. <<c, 0, Tables, 0>> \in Row
      BY PlaceRow DEF Phases
    <3>3. Precedes(<<c, 0, Tables, 0>>, r)
      BY <1>1, <3>2, PrecedesIs
    <3>4. QED
      BY <3>1, <3>3 DEF UpTo
  <2>3. QED
    BY <2>1, <2>2
<1>4. QED
  BY <1>2, <1>3

LEMMA FirstSchemaSeam ==
  ASSUME WorldTyped, NEW c \in Catalogs, NEW w \in WalkRecord(c), NEW base,
         Seamless(w.events, Mine(c), base), ToldBy(w.events) = {}
  PROVE  Seams(w, FirstSchema(w, c), c, base)
<1> DEFINE at == Entry(c)
<1>1. /\ at \in At /\ at[1] \in Nat /\ at[2] \in Phases /\ at[3] \in Nat
      /\ Spot(c, at) = <<c, at[1], at[2], at[3]>>
  BY EntryType DEF At, Spot
<1>2. /\ Reaches(w.events, Mine(c), base, <<c, 1, Tables, 0>>)
      /\ Reaches(w.events, Mine(c), base, <<c, at[1], at[2], at[3]>>)
  BY <1>1, NothingBefore DEF Reaches
<1>3. Seams(w, Stand(w, c, 1, Tables, 0), c, base)
  BY <1>2, StandSeam DEF Phases
<1>4. at[1] # 0 => Seams(w, Stand(w, c, at[1], at[2], at[3]), c, base)
  <2> HIDE DEF at
  <2> QED
    BY <1>1, <1>2, StandSeam
<1>5. QED
  BY <1>3, <1>4 DEF FirstSchema

\* A part of the scope is named: what a walk of it ends with.
LEMMA GapSeam ==
  ASSUME WorldTyped, NEW c \in Catalogs, NEW w \in WalkRecord(c), NEW base,
         Seamless(w.events, Mine(c), base)
  PROVE  Seams(w, End(Add(w, Gap(c, 0))), c, base)
<1> DEFINE e == Gap(c, 0)
           v == Add(w, e)
<1>1. e \in Event(c) /\ e.kind = "gap" /\ e.at = <<c, 0>> /\ e.kind \notin Pointed /\ Told(e) = {}
  BY GapEvent DEF Gap, Pointed, Told
<1> HIDE DEF e
<1>2. Tellable(w, e, c, base)
  BY <1>1 DEF Tellable
<1>3. Tells(w, v, e, c, base)
  BY <1>2, AddSeam
<1> HIDE DEF v
<1>4. \A r \in Mine(c) : Among(v.events, r)
  BY <1>1, <1>3, MineAre DEF Covers, Names, Tells
<1>5. Seams(v, End(v), c, base)
  BY <1>3, <1>4, EndSeam DEF Tells
<1>6. Seams(w, End(v), c, base)
  BY <1>1, <1>3, <1>5 DEF Seams, Tells
<1>7. QED
  BY <1>6 DEF v, e

LEMMA OpenSeam ==
  ASSUME WorldTyped, NEW c \in Catalogs, NEW w \in WalkRecord(c), NEW base, w.events = <<>>
  PROVE  Seams(w, Open(w, c), c, base)
<1> DEFINE e      == Point("open", c, Entry(c))
           added  == Add(w, e)
           here   == [added EXCEPT !.listing = TRUE, !.at = Entry(c)]
           asking == [here EXCEPT !.st = "asking"]
<1>1. Entry(c) \in At
  BY EntryType
<1>2. e \in Event(c) /\ e.kind = "open" /\ e.at = Spot(c, Entry(c)) /\ Told(e) = {}
  <2>1. e \in Event(c) /\ e.kind = "open" /\ e.at = Spot(c, Entry(c))
    BY <1>1, PointEvent DEF Point, Spot
  <2> HIDE DEF e
  <2>2. QED
    BY <2>1 DEF Told
<1>3. Seamless(w.events, Mine(c), base) /\ ToldBy(w.events) = {}
  BY DEF Seamless, ToldBy
<1>4. Reaches(w.events, Mine(c), base, Spot(c, Entry(c)))
  BY <1>3, NothingBefore DEF Reaches
<1> HIDE DEF e
<1>5. /\ added \in WalkRecord(c) /\ added.used = w.used
      /\ Seamless(added.events, Mine(c), base) /\ ToldBy(added.events) = ToldBy(w.events) \cup Told(e)
      /\ added.events # <<>> /\ added.events[Len(added.events)] = e
  <2>1. Tellable(w, e, c, base)
    BY <1>2, <1>3, <1>4 DEF Tellable
  <2>2. Tells(w, added, e, c, base)
    BY <2>1, AddSeam
  <2> HIDE DEF added
  <2>3. QED
    BY <2>2 DEF Tells
<1> HIDE DEF added
<1>6. here \in WalkRecord(c) /\ here.events = added.events /\ here.at = Entry(c) /\ here.used = w.used
  BY <1>1, <1>5 DEF WalkRecord
<1>7. asking.events = added.events /\ asking.st = "asking" /\ asking.at = Entry(c) /\ asking.used = w.used
  <2> HIDE DEF here
  <2> QED
    BY <1>6 DEF WalkRecord
<1>8. Seams(w, End(Add(w, Gap(c, 0))), c, base)
  BY <1>3, GapSeam
<1>9. Seams(w, FirstSchema(w, c), c, base)
  BY <1>3, FirstSchemaSeam
<1> HIDE DEF here, asking
<1>10. w.used >= PageSize => Seams(w, End(here), c, base)
  <2>1. SUFFICES ASSUME w.used >= PageSize PROVE Seams(w, End(here), c, base)
    OBVIOUS
  <2>2. StopsAt(here.events[Len(here.events)], here.used) /\ here.events # <<>>
    BY <1>2, <1>5, <1>6, <2>1 DEF StopsAt
  <2>3. Seams(here, End(here), c, base)
    BY <1>5, <1>6, <2>2, EndSeam
  <2>4. QED
    BY <1>2, <1>5, <1>6, <2>3 DEF Seams
<1>11. Seams(w, asking, c, base)
  <2>1. Reaches(asking.events, Mine(c), base, Spot(c, asking.at))
    BY <1>2, <1>3, <1>5, <1>7, NothingBefore DEF Reaches
  <2>2. WalkSeam(asking, c, Mine(c), base)
    BY <1>5, <1>7, <2>1 DEF WalkSeam
  <2>3. QED
    BY <1>2, <1>5, <1>7, <2>2 DEF Seams
<1>12. QED
  BY <1>8, <1>9, <1>10, <1>11 DEF Open, asking, here, added, e

\* A walk between two statements told all that comes before where it stands.
AsksOn(w, c, base) ==
  /\ w \in WalkRecord(c)
  /\ Seamless(w.events, Mine(c), base)
  /\ Reaches(w.events, Mine(c), base, Spot(c, w.at))

LEMMA SkipSeam ==
  ASSUME WorldTyped, NEW c \in Catalogs, NEW w, NEW base, AsksOn(w, c, base)
  PROVE  Seams(w, Skip(w, c), c, base)
<1> DEFINE s    == w.at[1]
           ph   == w.at[2]
           o    == w.at[3]
           e    == Gap(c, s)
           told == Add(w, e)
<1>1. /\ w \in WalkRecord(c) /\ s \in Nat /\ ph \in Phases /\ o \in Nat
      /\ Spot(c, w.at) = <<c, s, ph, o>>
      /\ Seamless(w.events, Mine(c), base) /\ Reaches(w.events, Mine(c), base, <<c, s, ph, o>>)
  BY DEF AsksOn, WalkRecord, At, Spot
<1> HIDE DEF s, ph, o
<1>2. e \in Event(c) /\ e.kind = "gap" /\ e.at = <<c, s>> /\ e.kind \notin Pointed /\ Told(e) = {}
  BY <1>1, GapEvent DEF Gap, Pointed, Told
<1> HIDE DEF e
<1>3. /\ told \in WalkRecord(c) /\ told.used = w.used /\ Seamless(told.events, Mine(c), base)
      /\ ToldBy(told.events) = ToldBy(w.events) \cup Told(e)
  <2>1. Tellable(w, e, c, base)
    BY <1>1, <1>2 DEF Tellable
  <2>2. Tells(w, told, e, c, base)
    BY <2>1, AddSeam
  <2> HIDE DEF told
  <2>3. QED
    BY <2>2 DEF Tells
<1>4. Reaches(told.events, Mine(c), base, <<c, s + 1, Tables, 0>>)
  <2> DEFINE p == <<c, s, ph, o>>
             d == <<c, s + 1, Tables, 0>>
  <2>1. p \in Row /\ d \in Row
    BY <1>1, PlaceRow DEF Phases
  <2>2. Precedes(p, d)
    BY <1>1, <2>1, PrecedesIs
  <2>3. \A r \in Mine(c) : Precedes(p, r) /\ UpTo(d, r) => Covers(e, r)
    <3>1. ASSUME NEW r \in Mine(c), Precedes(p, r), UpTo(d, r) PROVE r[1] = c /\ r[2] = s
      BY <1>1, <3>1, InSchema
    <3>2. QED
      BY <1>2, <3>1 DEF Covers, Names
  <2> HIDE DEF p, d
  <2>4. Reaches(w.events, Mine(c), base, p)
    BY <1>1 DEF p
  <2>5. Reaches(told.events, Mine(c), base, d)
    BY <1>1, <1>2, <2>1, <2>2, <2>3, <2>4, ReachesOn
  <2>6. QED
    BY <2>5 DEF d
<1> HIDE DEF told
<1>5. Seams(told, Stand(told, c, s + 1, Tables, 0), c, base)
  <2>1. s + 1 \in Nat \ {0}
    BY <1>1
  <2>2. QED
    BY <1>3, <1>4, <2>1, StandSeam DEF Phases
<1>6. Seams(w, Stand(told, c, s + 1, Tables, 0), c, base)
  BY <1>2, <1>3, <1>5 DEF Seams
<1>7. Seams(w, End(Add(w, Gap(c, 0))), c, base)
  BY <1>1, GapSeam
<1>8. QED
  BY <1>6, <1>7 DEF Skip, told, e, s

LEMMA OutOfTimeSeam ==
  ASSUME WorldTyped, NEW c \in Catalogs, NEW w, NEW base, AsksOn(w, c, base)
  PROVE  Seams(w, OutOfTime(w, c), c, base)
<1> DEFINE e == Point("stop", c, w.at)
           v == Add(w, e)
<1>1. /\ w \in WalkRecord(c) /\ w.at \in At /\ Seamless(w.events, Mine(c), base)
      /\ Reaches(w.events, Mine(c), base, Spot(c, w.at))
  BY DEF AsksOn, WalkRecord
<1>2. e \in Event(c) /\ e.kind = "stop" /\ e.at = Spot(c, w.at) /\ Told(e) = {}
  <2>1. e \in Event(c) /\ e.kind = "stop" /\ e.at = Spot(c, w.at)
    BY <1>1, PointEvent DEF Point, Spot
  <2> HIDE DEF e
  <2>2. QED
    BY <2>1 DEF Told
<1> HIDE DEF e
<1>3. /\ v \in WalkRecord(c) /\ v.used = w.used /\ Seamless(v.events, Mine(c), base)
      /\ ToldBy(v.events) = ToldBy(w.events) \cup Told(e)
      /\ v.events # <<>> /\ v.events[Len(v.events)] = e
  <2>1. Tellable(w, e, c, base)
    BY <1>1, <1>2 DEF Tellable
  <2>2. Tells(w, v, e, c, base)
    BY <2>1, AddSeam
  <2> HIDE DEF v
  <2>3. QED
    BY <2>2 DEF Tells
<1> HIDE DEF v
<1>4. StopsAt(v.events[Len(v.events)], v.used)
  BY <1>2, <1>3 DEF StopsAt
<1>5. Seams(v, End(v), c, base)
  BY <1>3, <1>4, EndSeam
<1>6. Seams(w, End(v), c, base)
  BY <1>2, <1>3, <1>5 DEF Seams
<1>7. QED
  BY <1>6, SkipSeam DEF OutOfTime, v, e

\* A walk that told the n rows that follow where w stood.
SeamsRows(w, v, c, base) ==
  /\ WalkSeam(v, c, Mine(c), base)
  /\ \E n \in Nat : /\ v.used = w.used + n
                    /\ ToldBy(v.events) = ToldBy(w.events) \cup Range(Rows(Spot(c, w.at), n))

LEMMA ReadSeam ==
  ASSUME WorldTyped, NEW c \in Catalogs, NEW w, NEW base, SoundWalk(w, c), AsksOn(w, c, base),
         w.st = "reading", ~w.listing
  PROVE  SeamsRows(w, Read(w, c), c, base)
<1> DEFINE s    == w.at[1]
           ph   == w.at[2]
           o    == w.at[3]
           left == Total(c, s, ph) - o
           room == PageSize - w.used
           n    == IF left <= 0 THEN 0 ELSE Least(left, room)
           e    == Found(c, w.at, n, left > room)
           told == Add(w, e)
           read == [told EXCEPT !.used = @ + n]
           p    == <<c, s, ph, o>>
<1>1. /\ w \in WalkRecord(c) /\ w.at \in At
      /\ s \in 1..Len(Schemas(c)) /\ s \in Nat \ {0} /\ ph \in Phases /\ o \in Nat
      /\ Spot(c, w.at) = p /\ p \in Row
      /\ Seamless(w.events, Mine(c), base) /\ Reaches(w.events, Mine(c), base, p)
  <2>1. /\ w \in WalkRecord(c) /\ w.at \in At
        /\ s \in 1..Len(Schemas(c)) /\ s \in Nat \ {0} /\ ph \in Phases /\ o \in Nat
    BY SchemasType DEF SoundWalk, OnSchema, WalkRecord, At
  <2>2. Spot(c, w.at) = p /\ p \in Row
    BY <2>1, PlaceRow DEF Spot
  <2>3. QED
    BY <2>1, <2>2 DEF AsksOn
<1>2. left \in Int /\ Total(c, s, ph) = o + left
  BY <1>1, TotalType
<1>3. room \in 0..PageSize /\ w.used \in 0..PageSize /\ PageSize \in Nat
  BY <1>1, SearchAssumption DEF WalkRecord
<1> HIDE DEF left, room
<1>4. n \in Nat /\ (left <= room => left <= n) /\ n <= room
  BY <1>2, <1>3 DEF Least
<1> HIDE DEF n
<1>5. e.kind = "rows" /\ e.at = p /\ e.n = n /\ (e.more <=> left > room) /\ e \in Event(c)
  <2>1. e.kind = "rows" /\ e.at = p /\ e.n = n /\ (e.more <=> left > room)
    BY DEF Found
  <2>2. p \in PlaceOf(c)
    BY <1>1 DEF PlaceOf
  <2>3. (left > room) \in BOOLEAN
    OBVIOUS
  <2>4. e \in Event(c)
    BY <1>4, <2>2, <2>3 DEF Found, Event
  <2>5. QED
    BY <2>1, <2>4
<1> HIDE DEF e, s, ph, o
<1>6. Told(e) = Range(Rows(p, n)) /\ \A r \in Row : r \in Told(e) => Covers(e, r)
  BY <1>5 DEF Told, Covers
<1>7. Tells(w, told, e, c, base)
  <2>1. Tellable(w, e, c, base)
    BY <1>1, <1>5 DEF Tellable
  <2>2. QED
    BY <2>1, AddSeam
<1> HIDE DEF told
<1>8. /\ read \in WalkRecord(c) /\ read.events = told.events /\ read.used = w.used + n
  <2>1. told \in WalkRecord(c) /\ told.used = w.used
    BY <1>7 DEF Tells
  <2>2. w.used + n \in 0..PageSize
    BY <1>3, <1>4 DEF room
  <2>3. QED
    BY <2>1, <2>2 DEF WalkRecord
<1> HIDE DEF read
<1>9. /\ Seamless(read.events, Mine(c), base)
      /\ ToldBy(read.events) = ToldBy(w.events) \cup Range(Rows(p, n))
      /\ read.events # <<>> /\ read.events[Len(read.events)] = e
  BY <1>6, <1>7, <1>8 DEF Tells
<1>10. ASSUME NEW v, Seams(read, v, c, base) PROVE SeamsRows(w, v, c, base)
  BY <1>1, <1>4, <1>8, <1>9, <1>10 DEF Seams, SeamsRows
<1>11. CASE left > room
  <2>1. StopsAt(read.events[Len(read.events)], read.used)
    BY <1>5, <1>9, <1>11 DEF StopsAt
  <2>2. Seams(read, End(read), c, base)
    BY <1>8, <1>9, <2>1, EndSeam
  <2>3. Read(w, c) = End(read)
    BY <1>11 DEF Read, read, told, e, n, left, room, s, ph, o
  <2>4. QED
    BY <1>10, <2>2, <2>3
\* All the rows of the phase past o were told.
<1>12. CASE ~(left > room)
  <2>1. left <= n
    BY <1>2, <1>3, <1>4, <1>12
  <2>2. ASSUME NEW r \in Mine(c), r[2] = s, r[3] = ph, o < r[4] PROVE Covers(e, r)
    <3>1. r \in Row /\ r[1] = c /\ r[4] \in Nat /\ r[4] <= Total(c, s, ph)
      <4>1. r \in Row /\ r[1] = c /\ r[4] \in Nat /\ r[4] <= Total(c, r[2], r[3])
        BY MineAre
      <4>2. QED
        BY <2>2, <4>1
    <3>2. r[4] <= o + n
      BY <1>1, <1>2, <1>4, <2>1, <3>1
    <3>3. p[1] = c /\ p[2] = s /\ p[3] = ph /\ p[4] = o
      OBVIOUS
    <3> HIDE DEF p
    <3>4. r \in Range(Rows(p, n)) <=> /\ r[1] = p[1] /\ r[2] = p[2] /\ r[3] = p[3]
                                      /\ p[4] < r[4] /\ r[4] <= p[4] + n
      <4>1. p \in Row /\ n \in Nat /\ r \in Row
        BY <1>1, <1>4, <3>1
      <4>2. QED
        BY <4>1, RowsAre
    <3>5. r \in Told(e)
      BY <1>6, <2>2, <3>1, <3>2, <3>3, <3>4
    <3>6. QED
      BY <1>6, <3>1, <3>5
  <2>3. ASSUME NEW r \in Told(e)
        PROVE  r \in Row /\ r[1] = c /\ r[2] = s /\ r[3] = ph
    <3>1. p[1] = c /\ p[2] = s /\ p[3] = ph /\ p[4] = o
      OBVIOUS
    <3> HIDE DEF p
    <3>2. r \in Row
      BY <1>1, <1>4, <1>6, <2>3, RowsAre
    <3>3. r \in Range(Rows(p, n)) <=> /\ r[1] = p[1] /\ r[2] = p[2] /\ r[3] = p[3]
                                      /\ p[4] < r[4] /\ r[4] <= p[4] + n
      BY <1>1, <1>4, <3>2, RowsAre
    <3>4. QED
      BY <1>6, <2>3, <3>1, <3>2, <3>3
  <2>4. CASE ph = Tables
    <3> DEFINE d == <<c, s, Columns, 0>>
    <3>1. d \in Row /\ Precedes(p, d)
      <4>1. d \in Row
        BY <1>1, PlaceRow DEF Phases
      <4>2. QED
        BY <1>1, <2>4, <4>1, PrecedesIs DEF Tables, Columns
    <3>2. ASSUME NEW r \in Mine(c), Precedes(p, r), UpTo(d, r) PROVE Covers(e, r)
      <4>1. r[2] = s /\ r[3] = ph /\ o < r[4]
        BY <1>1, <3>2, InPhase
      <4>2. QED
        BY <2>2, <4>1
    <3>3. ASSUME NEW r \in Told(e) PROVE UpTo(d, r)
      <4>1. r \in Row /\ r[1] = c /\ r[2] = s /\ r[3] = Tables
        BY <2>3, <2>4, <3>3
      <4>2. s \in Nat /\ c \in Nat
        BY <1>1 DEF Catalogs
      <4>3. QED
        BY <3>1, <4>1, <4>2, PrecedesIs DEF UpTo, Tables, Columns
    <3> HIDE DEF p, d
    <3>4. Reaches(told.events, Mine(c), base, d)
      <4>1. told = Add(w, e)
        BY DEF told
      <4>2. Reaches(Add(w, e).events, Mine(c), base, d)
        BY <1>1, <1>5, <3>1, <3>2, <3>3, ReachesOn
      <4>3. QED
        BY <4>1, <4>2
    <3>5. Reaches(read.events, Mine(c), base, <<c, s, Columns, 0>>)
      BY <1>8, <3>4 DEF d
    <3>6. Seams(read, Stand(read, c, s, Columns, 0), c, base)
      BY <1>1, <1>8, <1>9, <3>5, StandSeam DEF Phases
    <3>7. Read(w, c) = Stand(read, c, s, Columns, 0)
      BY <1>12, <2>4 DEF Read, read, told, e, n, left, room, s, ph, o
    <3>8. QED
      BY <1>10, <3>6, <3>7
  <2>5. CASE ph = Columns
    <3> DEFINE d == <<c, s + 1, Tables, 0>>
               g == Sign("searched")
               signed == Add(read, g)
    <3>1. d \in Row /\ Precedes(p, d)
      <4>1. d \in Row
        BY <1>1, PlaceRow DEF Phases
      <4>2. QED
        BY <1>1, <4>1, PrecedesIs
    <3>2. ASSUME NEW r \in Mine(c), Precedes(p, r), UpTo(d, r) PROVE Covers(e, r)
      <4>1. r[2] = s /\ r[3] = ph /\ o < r[4]
        BY <1>1, <2>5, <3>2, InSchema
      <4>2. QED
        BY <2>2, <4>1
    <3>3. ASSUME NEW r \in Told(e) PROVE UpTo(d, r)
      <4>1. r \in Row /\ r[1] = c /\ r[2] = s
        BY <2>3, <3>3
      <4>2. s \in Nat /\ c \in Nat
        BY <1>1 DEF Catalogs
      <4>3. QED
        BY <3>1, <4>1, <4>2, PrecedesIs DEF UpTo
    <3>4. g \in Event(c) /\ g.kind = "searched" /\ g.kind \notin Pointed /\ Told(g) = {}
      BY SignEvent DEF Sign, Pointed, Told
    <3> HIDE DEF p, d, g
    <3>5. Reaches(read.events, Mine(c), base, d)
      <4>1. Reaches(Add(w, e).events, Mine(c), base, d)
        BY <1>1, <1>5, <3>1, <3>2, <3>3, ReachesOn
      <4>2. QED
        BY <1>8, <4>1 DEF told
    <3>6. Tells(read, signed, g, c, base)
      <4>1. Tellable(read, g, c, base)
        BY <1>8, <1>9, <3>4 DEF Tellable
      <4>2. QED
        BY <4>1, AddSeam
    <3> HIDE DEF signed
    <3>7. Reaches(signed.events, Mine(c), base, <<c, s + 1, Tables, 0>>)
      BY <3>4, <3>5, <3>6 DEF Reaches, Tells, d
    <3>8. Seams(signed, Stand(signed, c, s + 1, Tables, 0), c, base)
      <4>1. s + 1 \in Nat \ {0} /\ signed \in WalkRecord(c) /\ Seamless(signed.events, Mine(c), base)
        BY <1>1, <3>6 DEF Tells
      <4>2. QED
        BY <3>7, <4>1, StandSeam DEF Phases
    <3>9. Seams(read, Stand(signed, c, s + 1, Tables, 0), c, base)
      BY <3>4, <3>6, <3>8 DEF Seams, Tells
    <3>10. Read(w, c) = Stand(signed, c, s + 1, Tables, 0)
      BY <1>12, <2>5 DEF Read, read, told, e, n, left, room, s, ph, o, signed, g, Tables, Columns
    <3>11. QED
      BY <1>10, <3>9, <3>10
  <2>6. QED
    BY <1>1, <2>4, <2>5 DEF Phases
<1>13. QED
  BY <1>11, <1>12

LEMMA AnsweredSeam ==
  ASSUME WorldTyped, NEW c \in Catalogs, NEW w, NEW base, SoundWalk(w, c), AsksOn(w, c, base),
         w.st = "reading", w.listing => ToldBy(w.events) = {}
  PROVE  Seams(w, Answered(w, c), c, base) \/ (~w.listing /\ SeamsRows(w, Answered(w, c), c, base))
<1>1. w \in WalkRecord(c) /\ Seamless(w.events, Mine(c), base)
  BY DEF AsksOn
<1> DEFINE g == Sign("error")
           v == Add(w, g)
<1>2. Seams(w, End(v), c, base)
  <2>1. g \in Event(c) /\ g.kind = "error" /\ g.kind \notin Pointed /\ Told(g) = {}
    BY SignEvent DEF Sign, Pointed, Told
  <2> HIDE DEF g
  <2>2. Tellable(w, g, c, base)
    BY <1>1, <2>1 DEF Tellable
  <2>3. Tells(w, v, g, c, base)
    BY <2>2, AddSeam
  <2> HIDE DEF v
  <2>4. StopsAt(v.events[Len(v.events)], v.used)
    BY <2>1, <2>3 DEF StopsAt, Tells
  <2>5. Seams(v, End(v), c, base)
    BY <2>3, <2>4, EndSeam DEF Tells
  <2>6. QED
    BY <2>1, <2>3, <2>5 DEF Seams, Tells
<1>3. Seams(w, Skip(w, c), c, base) /\ Seams(w, OutOfTime(w, c), c, base)
  BY SkipSeam, OutOfTimeSeam
<1>4. w.listing => Seams(w, FirstSchema(w, c), c, base)
  BY <1>1, FirstSchemaSeam
<1>5. ~w.listing => SeamsRows(w, Read(w, c), c, base)
  BY ReadSeam
<1>6. QED
  BY <1>2, <1>3, <1>4, <1>5 DEF Answered

\* The rows told add to those counted, as none was told before.
LEMMA CountMore ==
  ASSUME NEW S, NEW used \in Nat, Counted(used, S), NEW p \in Row, NEW n \in Nat,
         \A r \in S : r \notin Range(Rows(p, n))
  PROVE  Counted(used + n, S \cup Range(Rows(p, n)))
<1> DEFINE T == Range(Rows(p, n))
<1>1. IsFiniteSet(T) /\ Cardinality(T) = n
  <2>1. Rows(p, n) \in Seq(Row) /\ Len(Rows(p, n)) = n
    BY RowsAre
  <2>2. QED
    BY <2>1, RowsSorted, SortedCounts
<1>2. S \cap T = {}
  OBVIOUS
<1> HIDE DEF T
<1>3. IsFiniteSet(S) /\ used <= Cardinality(S) /\ Cardinality(S) \in Nat
  BY FS_CardinalityType DEF Counted
<1>4. /\ IsFiniteSet(S \cup T)
      /\ Cardinality(S \cup T) = Cardinality(S) + Cardinality(T) - Cardinality(S \cap T)
  BY <1>1, <1>3, FS_Union
<1>5. Cardinality(S \cap T) = 0
  BY <1>2, FS_EmptySet
<1>6. used + n <= Cardinality(S \cup T)
  BY <1>1, <1>3, <1>4, <1>5
<1>7. QED
  BY <1>4, <1>6 DEF Counted, T

-----------------------------------------------------------------------------
(* The pass takes the events of a walk in order *)

\* The pass has taken acc, and q is what is left of the walk of c it replays.
Taking(acc, q, used, c) ==
  /\ Running(acc) =>
       /\ Seamless(q, Mine(c), TakenBy(acc))
       /\ \/ \A r \in Mine(c) : r \in TakenBy(acc) \/ Among(q, r)
          \/ q # <<>> /\ StopsAt(q[Len(q)], used)
       /\ Counted(used, ToldBy(q) \cup Range(acc.rows))
  /\ CatalogsLeft(acc, c)
  /\ RowsInOrder(acc) /\ \A r \in Range(acc.rows) : r[1] < c \/ (r[1] = c /\ Below(q, r))
  /\ StopSeam(acc)

\* The pass may take the first event of q.
Takes(acc, q, used, c) ==
  /\ Fits(acc) /\ q \in Seq(Event(c)) /\ q # <<>> /\ EventsOrdered(q)
  /\ Taking(acc, q, used, c) /\ Running(acc)

\* What the pass takes stays taken.
LEMMA TakenGrows ==
  ASSUME NEW acc, NEW new, Range(acc.rows) \subseteq Range(new.rows), acc.gaps \subseteq new.gaps
  PROVE  TakenBy(acc) \subseteq TakenBy(new)
  BY DEF TakenBy, Missed

\* The pass stops at the point it takes: all that comes before is accounted for.
LEMMA StopHere ==
  ASSUME WorldTyped, NEW c \in Catalogs, NEW acc, Fits(acc), NEW q \in Seq(Event(c)), q # <<>>,
         NEW used, Taking(acc, q, used, c), Running(acc), Head(q).kind \in Pointed
  PROVE  StopSeam([acc EXCEPT !.stop = Head(q).at])
<1> DEFINE e   == Head(q)
           new == [acc EXCEPT !.stop = e.at]
<1>1. e \in Event(c) /\ e.at \in Row /\ e.at[1] = c /\ c \in Nat
  BY EventTaken, PointRow DEF Catalogs
<1>2. /\ \A r \in Mine(c) : UpTo(e.at, r) => r \in TakenBy(acc)
      /\ \A r : Below(q, r) => UpTo(e.at, r)
  BY BelowTaken DEF Taking
<1>3. new.stop = e.at /\ new.rows = acc.rows /\ TakenBy(new) = TakenBy(acc)
  BY DEF Fits, Part, TakenBy
<1> HIDE DEF e, new
<1>4. ASSUME NEW r \in AllRows(mode), Past(r), UpTo(e.at, r) PROVE r \in TakenBy(acc)
  <2>1. r \in Row
    BY RowOf
  <2>2. ~(r[1] > c)
    BY <1>1, <1>4, <2>1, PrecedesIs DEF UpTo, Row
  <2>3. r[1] = c => r \in Mine(c)
    BY <1>4 DEF Mine
  <2>4. r[1] < c \/ r[1] = c
    BY <1>1, <2>1, <2>2 DEF Row
  <2>5. QED
    BY <1>2, <1>4, <2>3, <2>4 DEF Taking, CatalogsLeft
<1>5. ASSUME NEW r \in Range(acc.rows) PROVE UpTo(e.at, r)
  <2>1. r \in Row
    BY DEF Fits, Part, Range
  <2>2. r[1] < c => UpTo(e.at, r)
    BY <1>1, <2>1, PrecedesIs DEF UpTo, Row
  <2>3. QED
    BY <1>2, <2>2 DEF Taking
<1>6. QED
  BY <1>3, <1>4, <1>5 DEF StopSeam, new, e

\* What is left once an event is taken that holds no row, and stops nothing.
LEMMA TakingOn ==
  ASSUME NEW c \in Catalogs, NEW acc, NEW new, NEW q \in Seq(Event(c)), q # <<>>,
         NEW used, Taking(acc, q, used, c), Running(acc),
         new.rows = acc.rows, acc.gaps \subseteq new.gaps, new.stop = acc.stop,
         Told(Head(q)) = {},
         Running(new) => /\ \A r \in Mine(c) : Covers(Head(q), r) => r \in TakenBy(new)
                         /\ Tail(q) = <<>> => ~StopsAt(Head(q), used)
  PROVE  Taking(new, Tail(q), used, c)
<1> DEFINE t == Tail(q)
<1>1. TakenBy(acc) \subseteq TakenBy(new)
  BY TakenGrows
<1>2. /\ \A r : Below(q, r) => Below(t, r)
      /\ ToldBy(q) = ToldBy(t)
      /\ t # <<>> => t[Len(t)] = q[Len(q)]
      /\ t = <<>> => Head(q) = q[Len(q)]
  BY BelowTaken DEF Taking
<1>3. ASSUME Running(new)
      PROVE  /\ Seamless(t, Mine(c), TakenBy(new))
             /\ \/ \A r \in Mine(c) : r \in TakenBy(new) \/ Among(t, r)
                \/ t # <<>> /\ StopsAt(t[Len(t)], used)
             /\ Counted(used, ToldBy(t) \cup Range(new.rows))
  <2>1. Seamless(q, Mine(c), TakenBy(acc)) /\ \A r \in Mine(c) : Covers(Head(q), r) => r \in TakenBy(new)
    BY <1>3 DEF Taking
  <2>2. /\ Seamless(t, Mine(c), TakenBy(new))
        /\ \A r \in Mine(c) : Among(q, r) => r \in TakenBy(new) \/ Among(t, r)
    BY <1>1, <2>1, SeamTaken
  <2>3. \/ \A r \in Mine(c) : r \in TakenBy(acc) \/ Among(q, r)
        \/ StopsAt(q[Len(q)], used)
    BY DEF Taking
  <2>4. StopsAt(q[Len(q)], used) => t # <<>> /\ StopsAt(t[Len(t)], used)
    BY <1>2, <1>3
  <2>5. QED
    BY <1>1, <1>2, <2>2, <2>3, <2>4 DEF Taking
<1>4. CatalogsLeft(new, c)
  BY <1>1 DEF Taking, CatalogsLeft
<1>5. RowsInOrder(new) /\ \A r \in Range(new.rows) : r[1] < c \/ (r[1] = c /\ Below(t, r))
  BY <1>2 DEF Taking, RowsInOrder
<1>6. StopSeam(new)
  BY <1>1 DEF Taking, StopSeam
<1> HIDE DEF t
<1>7. QED
  BY <1>3, <1>4, <1>5, <1>6 DEF Taking, t

\* The rows the pass takes of an event, as many as there is room.
Fetched(e, room) == Rows(e.at, Least(e.n, room))

LEMMA FetchedAre ==
  ASSUME WorldTyped, NEW c \in Catalogs, NEW e \in Event(c), e.kind = "rows", NEW room \in Nat
  PROVE  /\ Fetched(e, room) \in Seq(Row) /\ Sorted(Fetched(e, room))
         /\ e.at \in Row /\ e.at[1] = c
         /\ \A r \in Range(Fetched(e, room)) : r \in Row /\ r[1] = c /\ Precedes(e.at, r) /\ r \in Told(e)
         /\ e.n <= room => Range(Fetched(e, room)) = Told(e)
<1> DEFINE p == e.at
           n == e.n
           m == Least(n, room)
<1>1. p \in Row /\ p[1] = c /\ n \in Nat
  <2>1. e.kind \in Pointed
    BY DEF Pointed
  <2>2. e.n \in Nat
    BY DEF Event
  <2>3. QED
    BY <2>1, <2>2, PointRow
<1>2. Told(e) = Range(Rows(p, n)) /\ Fetched(e, room) = Rows(p, m)
  BY DEF Told, Fetched
<1> HIDE DEF p, n
<1>3. m \in Nat /\ m <= n /\ (n <= room => m = n)
  BY <1>1 DEF Least
<1> HIDE DEF m
<1>4. Rows(p, m) \in Seq(Row) /\ Sorted(Rows(p, m)) /\ \A r \in Range(Rows(p, m)) : r \in Row /\ r[1] = p[1] /\ Precedes(p, r)
  BY <1>1, <1>3, RowsAre, RowsSorted
<1>5. ASSUME NEW r \in Range(Rows(p, m)) PROVE r \in Range(Rows(p, n))
  <2>1. r \in Row
    BY <1>4
  <2>2. r[1] = p[1] /\ r[2] = p[2] /\ r[3] = p[3] /\ p[4] < r[4] /\ r[4] <= p[4] + m
    BY <1>1, <1>3, <1>5, RowThere
  <2>3. r[4] <= p[4] + n
    BY <1>1, <1>3, <2>1, <2>2 DEF Row
  <2>4. QED
    BY <1>1, <2>1, <2>2, <2>3, RowsAre
<1>6. QED
  BY <1>1, <1>2, <1>3, <1>4, <1>5 DEF p, n

\* The rows fetched follow those taken.
Follows(acc, rows, q, room, c) ==
  /\ Sorted(rows) /\ Range(rows) = Range(acc.rows) \cup Range(Fetched(Head(q), room))
  /\ \A r \in Range(rows) : Past(r) /\ (r[1] < c \/ (r[1] = c /\ Below(Tail(q), r)))

LEMMA FetchedFollow ==
  ASSUME WorldTyped, NEW c \in Catalogs, NEW acc, NEW q, NEW used, Takes(acc, q, used, c),
         Head(q).kind = "rows", NEW room \in Nat, NEW rows, rows = acc.rows \o Fetched(Head(q), room)
  PROVE  Follows(acc, rows, q, room, c)
<1> DEFINE e    == Head(q)
           more == Fetched(e, room)
<1>0. /\ Fits(acc) /\ q \in Seq(Event(c)) /\ q # <<>> /\ EventsOrdered(q)
      /\ Taking(acc, q, used, c) /\ Running(acc)
  BY DEF Takes
<1>1. e \in Event(c) /\ e.kind \in Pointed /\ e = q[1] /\ 1 \in DOMAIN q /\ c \in Nat
  BY <1>0, EventTaken DEF Pointed, Catalogs
<1>2. /\ more \in Seq(Row) /\ Sorted(more) /\ e.at \in Row /\ e.at[1] = c
      /\ \A r \in Range(more) : r \in Row /\ r[1] = c /\ Precedes(e.at, r) /\ r \in Told(e)
  BY <1>1, FetchedAre
<1>3. acc.rows \in Seq(Row) /\ \A r \in Range(acc.rows) : r \in Row
  BY <1>0 DEF Fits, Part, Range
<1>4. /\ \A r \in Told(e) : Below(Tail(q), r)
      /\ \A r : Below(q, r) => Below(Tail(q), r) /\ UpTo(e.at, r)
  BY <1>0, <1>1, BelowTaken DEF Taking
<1>5. NotBefore(e.at)
  BY <1>0, <1>1 DEF EventsOrdered
<1> HIDE DEF e, more
<1>6. Range(rows) = Range(acc.rows) \cup Range(more)
  BY <1>2, <1>3, RangeJoin DEF more, e
<1>7. ASSUME NEW r \in Range(more) PROVE Past(r) /\ r[1] = c /\ Below(Tail(q), r)
  <2>1. begin # NoCursor => begin.at \in Row
    BY BeginRow
  <2>2. begin # NoCursor => e.at = begin.at \/ Precedes(begin.at, e.at)
    BY <1>5 DEF NotBefore
  <2>3. r \in Row /\ Precedes(e.at, r)
    BY <1>2
  <2>4. begin # NoCursor => Precedes(begin.at, r)
    BY <1>2, <2>1, <2>2, <2>3, TotalOrder
  <2>5. QED
    BY <1>2, <1>4, <2>4 DEF Past
<1>8. ASSUME NEW x \in Range(acc.rows), NEW y \in Range(more) PROVE Precedes(x, y)
  <2>1. x \in Row /\ y \in Row /\ y[1] = c /\ Precedes(e.at, y)
    BY <1>2, <1>3
  <2>2. x[1] < c => Precedes(x, y)
    BY <1>1, <2>1, PrecedesIs
  <2>3. Below(q, x) => Precedes(x, y)
    BY <1>2, <1>4, <2>1, TotalOrder
  <2>4. QED
    BY <1>0, <2>2, <2>3 DEF Taking
<1>9. Sorted(rows)
  <2>1. Sorted(acc.rows)
    BY <1>0 DEF Taking, RowsInOrder
  <2>2. Sorted(acc.rows \o more)
    BY <1>2, <1>3, <1>8, <2>1, SortedJoin
  <2>3. QED
    BY <2>2 DEF more, e
<1>10. QED
  BY <1>0, <1>4, <1>6, <1>7, <1>9 DEF Follows, Taking, RowsInOrder, more, e

\* The pass takes the rows of an event: all of them, or as many as there is room.
LEMMA RowsTaken ==
  ASSUME WorldTyped, NEW c \in Catalogs, NEW acc, Fits(acc), NEW q \in Seq(Event(c)), q # <<>>,
         NEW used, Taking(acc, q, used, c), Running(acc), EventsOrdered(q), Head(q).kind = "rows"
  PROVE  Taking(Take(acc, Head(q)), Tail(q), used, c)
<1> DEFINE e     == Head(q)
           t     == Tail(q)
           room  == PageSize - Len(acc.rows)
           taken == Least(e.n, room)
           past  == [e.at EXCEPT ![4] = @ + taken]
           more  == Fetched(e, room)
           new   == Take(acc, e)
<1>1. /\ acc \in Part /\ acc.rows \in Seq(Row) /\ room \in Nat
  BY SearchAssumption DEF Fits, Part
<1>2. e \in Event(c) /\ e.kind = "rows" /\ e.kind \in Pointed /\ e.n \in Nat /\ c \in Nat
  <2>1. e \in Event(c) /\ e.kind = "rows"
    BY EventTaken
  <2>2. e.n \in Nat
    BY <2>1 DEF Event
  <2>3. QED
    BY <2>1, <2>2 DEF Pointed, Catalogs
<1>3. /\ e.at \in Row /\ e.at[1] = c
      /\ \A r \in Range(more) : r \in Row /\ r[1] = c /\ r \in Told(e)
      /\ e.n <= room => Range(more) = Told(e)
  <2> HIDE DEF e, room
  <2>1. e \in Event(c) /\ e.kind = "rows" /\ room \in Nat
    BY <1>1, <1>2
  <2> HIDE DEF more
  <2>2. /\ e.at \in Row /\ e.at[1] = c
        /\ \A r \in Range(Fetched(e, room)) : r \in Row /\ r[1] = c /\ Precedes(e.at, r) /\ r \in Told(e)
        /\ e.n <= room => Range(Fetched(e, room)) = Told(e)
    BY <2>1, FetchedAre
  <2>3. QED
    BY <2>2 DEF more
<1>4. /\ new.rows = acc.rows \o more /\ new.gaps = acc.gaps
      /\ new.stop = IF e.more \/ e.n > room THEN past ELSE acc.stop
      /\ new.error = acc.error
  <2>1. new = [acc EXCEPT !.rows = @ \o more, !.stop = IF e.more \/ e.n > room THEN past ELSE @]
    BY <1>2 DEF Take, TakeRows, Fetched
  <2> HIDE DEF more, past, room, new
  <2>2. QED
    BY <1>1, <2>1 DEF Part
<1> HIDE DEF new
<1>5. /\ Sorted(new.rows) /\ Range(new.rows) = Range(acc.rows) \cup Range(more)
      /\ \A r \in Range(new.rows) : Past(r) /\ (r[1] < c \/ (r[1] = c /\ Below(t, r)))
  <2> DEFINE rows == new.rows
  <2>1. Takes(acc, q, used, c) /\ room \in Nat /\ Head(q).kind = "rows" /\ rows = acc.rows \o Fetched(Head(q), room)
    BY <1>1, <1>2, <1>4 DEF Takes
  <2> HIDE DEF rows, room
  <2>2. Follows(acc, rows, q, room, c)
    BY <2>1, FetchedFollow
  <2>3. QED
    BY <2>2 DEF Follows, rows, room
<1>6. TakenBy(acc) \subseteq TakenBy(new)
  BY <1>4, <1>5, TakenGrows
<1>7. CatalogsLeft(new, c) /\ RowsInOrder(new)
  BY <1>5, <1>6 DEF Taking, CatalogsLeft, RowsInOrder
<1>8. /\ \A r \in Mine(c) : UpTo(e.at, r) => r \in TakenBy(acc)
      /\ \A r : Below(q, r) => UpTo(e.at, r)
      /\ ToldBy(q) = Told(e) \cup ToldBy(t)
      /\ t # <<>> => t[Len(t)] = q[Len(q)]
      /\ t = <<>> => e = q[Len(q)]
  BY <1>2, BelowTaken DEF Taking
<1>9. StopSeam(new)
  <2>1. SUFFICES ASSUME e.more \/ e.n > room PROVE StopSeam(new)
    BY <1>4 DEF Running, StopSeam
  <2> DEFINE s  == e.at[2]
             ph == e.at[3]
             o  == e.at[4]
  <2>2. /\ e.at = <<c, s, ph, o>> /\ s \in Nat /\ ph \in Phases /\ o \in Nat
    BY <1>3 DEF Row
  <2>3. taken \in Nat /\ taken <= e.n
    BY <1>1, <1>2 DEF Least
  <2> HIDE DEF taken, s, ph, o
  <2>4. past = <<c, s, ph, o + taken>> /\ past \in Row
    <3>1. past = <<c, s, ph, o + taken>>
      BY <2>2, <2>3
    <3>2. o + taken \in Nat
      BY <2>2, <2>3
    <3> DEFINE m == o + taken
    <3> HIDE DEF m, past
    <3>3. past = <<c, s, ph, m>> /\ m \in Nat
      BY <3>1, <3>2 DEF m
    <3>4. past \in Row
      BY <2>2, <3>3, PlaceRow
    <3>5. QED
      BY <3>1, <3>4
  <2>5. new.stop = past
    BY <1>4, <2>1
  <2>6. \A r \in Row : r \in Range(more) <=> r[1] = c /\ r[2] = s /\ r[3] = ph /\ o < r[4] /\ r[4] <= o + taken
    <3> DEFINE p == e.at
    <3>1. p[1] = c /\ p[2] = s /\ p[3] = ph /\ p[4] = o /\ p \in Row
      BY <1>3, <2>2
    <3>2. more = Rows(p, taken)
      BY DEF Fetched, taken
    <3> HIDE DEF p, more
    <3>3. QED
      BY <2>3, <3>1, <3>2, RowsAre
  <2> HIDE DEF past, room, more
  <2>7. ASSUME NEW r \in AllRows(mode), Past(r), UpTo(past, r) PROVE r \in TakenBy(new)
    <3>1. r \in Row /\ r[1] \in Nat
      BY RowOf DEF Row
    <3>2. past[1] = c
      BY <2>4
    <3>3. ~(r[1] > c)
      BY <1>2, <2>4, <2>7, <3>1, <3>2, PrecedesIs DEF UpTo
    <3>4. r[1] < c \/ r[1] = c
      BY <1>2, <3>1, <3>3
    <3>5. CASE r[1] < c
      BY <1>6, <2>7, <3>5 DEF Taking, CatalogsLeft
    <3>6. CASE r[1] = c
      <4>1. r \in Mine(c)
        BY <2>7, <3>6 DEF Mine
      <4>2. UpTo(e.at, r) => r \in TakenBy(new)
        BY <1>6, <1>8, <4>1
      <4>3. ASSUME Precedes(e.at, r) PROVE r \in TakenBy(new)
        <5>1. Precedes(<<c, s, ph, o>>, r) /\ UpTo(<<c, s, ph, o + taken>>, r)
          BY <2>2, <2>4, <2>7, <4>3
        <5>2. r[1] = c /\ r[2] = s /\ r[3] = ph /\ o < r[4] /\ r[4] <= o + taken
          BY <2>2, <2>3, <4>1, <5>1, InRows
        <5>3. r \in Range(more)
          BY <2>6, <3>1, <5>2
        <5>4. QED
          BY <1>5, <5>3 DEF TakenBy
      <4>4. QED
        BY <4>2, <4>3 DEF UpTo
    <3>7. QED
      BY <3>4, <3>5, <3>6
  <2>8. ASSUME NEW r \in Range(new.rows) PROVE UpTo(past, r)
    <3>1. CASE r \in Range(more)
      <4>1. r \in Row /\ r[1] = c
        BY <1>3, <3>1
      <4>2. r[2] = s /\ r[3] = ph /\ r[4] <= o + taken
        BY <2>6, <3>1, <4>1
      <4>3. past[1] = c /\ past[2] = s /\ past[3] = ph /\ past[4] = o + taken
        BY <2>4
      <4>4. QED
        BY <2>4, <4>1, <4>2, <4>3, PrecedesIs DEF UpTo, Row, Phases, Tables, Columns
    <3>2. CASE r \in Range(acc.rows)
      <4>1. r \in Row
        BY <1>1, <3>2 DEF Range
      <4>2. r[1] < c => UpTo(past, r)
        BY <1>2, <2>4, <4>1, PrecedesIs DEF UpTo, Row
      <4>3. e.at = past \/ Precedes(e.at, past)
        <5>1. taken = 0 => e.at = past
          BY <2>2, <2>4
        <5>2. taken > 0 => Precedes(e.at, past)
          BY <1>3, <2>2, <2>3, <2>4, PrecedesIs
        <5>3. QED
          BY <2>3, <5>1, <5>2
      <4>4. UpTo(e.at, r) => UpTo(past, r)
        BY <1>3, <2>4, <4>1, <4>3, TotalOrder DEF UpTo
      <4>5. QED
        BY <1>8, <3>2, <4>2, <4>4 DEF Taking
    <3>3. QED
      BY <1>5, <2>8, <3>1, <3>2
  <2>9. QED
    BY <2>5, <2>7, <2>8 DEF StopSeam
<1>10. ASSUME Running(new)
       PROVE  /\ Seamless(t, Mine(c), TakenBy(new))
              /\ \/ \A r \in Mine(c) : r \in TakenBy(new) \/ Among(t, r)
                 \/ t # <<>> /\ StopsAt(t[Len(t)], used)
              /\ Counted(used, ToldBy(t) \cup Range(new.rows))
  <2>1. ~e.more /\ e.n <= room /\ Range(more) = Told(e)
    <3>1. past \in Nat \X Nat \X Nat \X Nat
      <4>1. e.at \in PlaceOf(c)
        BY <1>2 DEF Event
      <4>2. taken \in Nat
        BY <1>1, <1>2 DEF Least
      <4> HIDE DEF taken
      <4>3. past = <<e.at[1], e.at[2], e.at[3], e.at[4] + taken>> /\ e.at[1] \in Nat /\ e.at[2] \in Nat
            /\ e.at[3] \in Nat /\ e.at[4] + taken \in Nat
        BY <1>2, <4>1, <4>2, SMTT(30) DEF PlaceOf, Phases, Tables, Columns
      <4>4. QED
        BY <4>3
    <3>2. past # NoStop
      <4> HIDE DEF past
      <4> QED
        BY <3>1, SentinelAssumption
    <3>3. ~(e.more \/ e.n > room)
      BY <1>4, <1>10, <3>2 DEF Running
    <3>4. QED
      BY <1>1, <1>2, <1>3, <3>3
  <2>2. \A r \in Mine(c) : Covers(e, r) => r \in TakenBy(new)
    <3>1. ASSUME NEW r \in Mine(c), Covers(e, r) PROVE r \in TakenBy(new)
      <4>1. r \in Range(new.rows) /\ r \in AllRows(mode)
        BY <1>2, <1>5, <2>1, <3>1 DEF Covers, Names, Mine
      <4>2. QED
        BY <4>1 DEF TakenBy
    <3>2. QED
      BY <3>1
  <2>3. /\ Seamless(t, Mine(c), TakenBy(new))
        /\ \A r \in Mine(c) : Among(q, r) => r \in TakenBy(new) \/ Among(t, r)
    <3>1. Seamless(q, Mine(c), TakenBy(acc))
      BY DEF Taking
    <3>2. QED
      BY <1>6, <2>2, <3>1, SeamTaken
  <2>4. \/ \A r \in Mine(c) : r \in TakenBy(acc) \/ Among(q, r)
        \/ StopsAt(q[Len(q)], used)
    BY DEF Taking
  <2>5. StopsAt(q[Len(q)], used) => t # <<>> /\ StopsAt(t[Len(t)], used)
    BY <1>2, <1>8, <2>1 DEF StopsAt
  <2>6. Counted(used, ToldBy(t) \cup Range(new.rows))
    <3>1. ToldBy(t) \cup Range(new.rows) = ToldBy(q) \cup Range(acc.rows)
      BY <1>5, <1>8, <2>1
    <3>2. QED
      BY <3>1 DEF Taking
  <2>7. QED
    BY <1>6, <2>3, <2>4, <2>5, <2>6
<1> HIDE DEF t
<1>11. Taking(new, t, used, c)
  BY <1>5, <1>7, <1>9, <1>10 DEF Taking
<1>12. QED
  BY <1>11 DEF new, t

\* The pass takes an event that holds no row.
LEMMA OtherTaken ==
  ASSUME WorldTyped, NEW c \in Catalogs, NEW acc, NEW q, NEW used, Takes(acc, q, used, c), used \in Nat,
         Head(q).kind # "rows"
  PROVE  Taking(Take(acc, Head(q)), Tail(q), used, c)
<1> DEFINE e    == Head(q)
           room == PageSize - Len(acc.rows)
<1>1. /\ Fits(acc) /\ acc \in Part /\ acc.rows \in Seq(Row) /\ Len(acc.rows) \in Nat /\ room \in Nat
      /\ q \in Seq(Event(c)) /\ q # <<>> /\ Taking(acc, q, used, c) /\ Running(acc)
      /\ PageSize \in Nat
  BY SearchAssumption DEF Takes, Fits, Part
<1>2. e \in Event(c) /\ e.kind # "rows" /\ Told(e) = {}
  BY <1>1, EventTaken, ToldRows
<1>3. e.kind \in {"gap", "stop", "error", "searched", "open", "before"}
  BY <1>2 DEF Event
<1>4. Take(acc, e) = CASE e.kind = "gap"      -> [acc EXCEPT !.gaps = @ \cup {e.at}]
                       [] e.kind = "stop"     -> [acc EXCEPT !.stop = e.at]
                       [] e.kind = "error"    -> [acc EXCEPT !.error = TRUE]
                       [] e.kind = "searched" -> [acc EXCEPT !.searched = @ + 1]
                       [] OTHER               -> IF room <= 0 THEN [acc EXCEPT !.stop = e.at] ELSE acc
  BY <1>2, <1>3 DEF Take
\* What does not stop the pass.
<1>5. ASSUME NEW new, new.rows = acc.rows, acc.gaps \subseteq new.gaps, new.stop = acc.stop,
             Running(new) => /\ \A r \in Mine(c) : Covers(e, r) => r \in TakenBy(new)
                             /\ Tail(q) = <<>> => ~StopsAt(e, used)
      PROVE  Taking(new, Tail(q), used, c)
  BY <1>1, <1>2, <1>5, TakingOn
\* What stops it.
<1>6. ASSUME e.kind \in Pointed
      PROVE  Taking([acc EXCEPT !.stop = e.at], Tail(q), used, c)
  <2> DEFINE new == [acc EXCEPT !.stop = e.at]
  <2>1. StopSeam(new)
    BY <1>1, <1>6, StopHere
  <2>2. e.at \in Row /\ e.at \in Nat \X Nat \X Nat \X Nat
    <3>1. e.at \in Row
      BY <1>2, <1>6, PointRow
    <3>2. QED
      BY <3>1 DEF Row, Phases, Tables, Columns
  <2>3. new.rows = acc.rows /\ new.gaps = acc.gaps /\ new.stop = e.at /\ e.at # NoStop
    BY <1>1, <2>2, SentinelAssumption DEF Part
  <2> HIDE DEF new, e
  <2>4. TakenBy(new) = TakenBy(acc) /\ ~Running(new)
    BY <2>3 DEF TakenBy, Running
  <2>5. \A r : Below(q, r) => Below(Tail(q), r)
    BY <1>1, BelowTaken DEF Taking
  <2>6. Taking(new, Tail(q), used, c)
    BY <1>1, <2>1, <2>3, <2>4, <2>5 DEF Taking, CatalogsLeft, RowsInOrder
  <2>7. QED
    BY <2>6 DEF new, e
<1> HIDE DEF e
<1>7. CASE e.kind = "gap"
  <2> DEFINE new == [acc EXCEPT !.gaps = @ \cup {e.at}]
  <2>1. new.rows = acc.rows /\ new.gaps = acc.gaps \cup {e.at} /\ new.stop = acc.stop
    BY <1>1 DEF Part
  <2>2. Take(acc, e) = new
    BY <1>4, <1>7
  <2> HIDE DEF new
  <2>3. \A r \in Mine(c) : Covers(e, r) => r \in TakenBy(new)
    BY <1>2, <2>1 DEF Covers, Names, TakenBy, Missed, Mine
  <2>4. ~StopsAt(e, used)
    BY <1>7 DEF StopsAt
  <2>5. Taking(new, Tail(q), used, c)
    BY <1>5, <2>1, <2>3, <2>4
  <2>6. QED
    BY <2>2, <2>5 DEF e
<1>8. CASE e.kind = "error"
  <2> DEFINE new == [acc EXCEPT !.error = TRUE]
  <2>1. new.rows = acc.rows /\ new.gaps = acc.gaps /\ new.stop = acc.stop /\ new.error
    BY <1>1 DEF Part
  <2>2. Take(acc, e) = new
    BY <1>4, <1>8
  <2> HIDE DEF new
  <2>3. Taking(new, Tail(q), used, c)
    BY <1>5, <2>1 DEF Running
  <2>4. QED
    BY <2>2, <2>3 DEF e
<1>9. CASE e.kind = "searched"
  <2> DEFINE new == [acc EXCEPT !.searched = @ + 1]
  <2>1. new.rows = acc.rows /\ new.gaps = acc.gaps /\ new.stop = acc.stop
    BY <1>1 DEF Part
  <2>2. Take(acc, e) = new
    BY <1>4, <1>9
  <2> HIDE DEF new
  <2>3. \A r \in Mine(c) : ~Covers(e, r)
    BY <1>2, <1>9 DEF Covers, Names
  <2>4. ~StopsAt(e, used)
    BY <1>9 DEF StopsAt
  <2>5. Taking(new, Tail(q), used, c)
    BY <1>5, <2>1, <2>3, <2>4
  <2>6. QED
    BY <2>2, <2>5 DEF e
<1>10. CASE e.kind = "stop"
  <2>1. Take(acc, e) = [acc EXCEPT !.stop = e.at] /\ e.kind \in Pointed
    BY <1>4, <1>10 DEF Pointed
  <2>2. QED
    BY <1>6, <2>1 DEF e
<1>11. CASE e.kind \in {"open", "before"}
  <2>1. Take(acc, e) = IF room <= 0 THEN [acc EXCEPT !.stop = e.at] ELSE acc
    BY <1>4, <1>11
  <2>2. e.kind \in Pointed
    BY <1>11 DEF Pointed
  <2>3. CASE room <= 0
    BY <1>6, <2>1, <2>2, <2>3 DEF e
\* The cap of the walk counts rows that are taken, once none it told is left.
  <2>4. CASE ~(room <= 0)
    <3>1. \A r \in Mine(c) : ~Covers(e, r)
      BY <1>2, <1>11 DEF Covers, Names
    <3>2. ASSUME Tail(q) = <<>> PROVE ~(used >= PageSize)
      <4>1. ToldBy(q) = Told(e) \cup ToldBy(Tail(q))
        BY <1>1, BelowTaken DEF Taking, e
      <4>2. ToldBy(Tail(q)) = {}
        BY <3>2 DEF ToldBy
      <4>3. Counted(used, Range(acc.rows))
        BY <1>1, <1>2, <4>1, <4>2 DEF Taking
      <4>4. Cardinality(Range(acc.rows)) = Len(acc.rows)
        BY <1>1, SortedCounts DEF Taking, RowsInOrder
      <4>5. used <= Len(acc.rows)
        BY <4>3, <4>4 DEF Counted
      <4>6. QED
        BY <1>1, <2>4, <4>5
    <3>3. Tail(q) = <<>> => ~StopsAt(e, used)
      BY <1>11, <3>2 DEF StopsAt
    <3>4. Taking(acc, Tail(q), used, c)
      BY <1>5, <3>1, <3>3
    <3>5. QED
      BY <2>1, <2>4, <3>4 DEF e
  <2>5. QED
    BY <2>3, <2>4
<1>12. QED
  BY <1>3, <1>7, <1>8, <1>9, <1>10, <1>11

LEMMA EventTold ==
  ASSUME WorldTyped, NEW c \in Catalogs, NEW acc, NEW q, NEW used, Takes(acc, q, used, c), used \in Nat
  PROVE  /\ Taking(Take(acc, Head(q)), Tail(q), used, c)
         /\ TakenBy(acc) \subseteq TakenBy(Take(acc, Head(q)))
<1> DEFINE e == Head(q)
           room == PageSize - Len(acc.rows)
<1>1. /\ Fits(acc) /\ acc \in Part /\ acc.rows \in Seq(Row) /\ room \in Nat
      /\ q \in Seq(Event(c)) /\ q # <<>> /\ EventsOrdered(q) /\ Taking(acc, q, used, c) /\ Running(acc)
  BY SearchAssumption DEF Takes, Fits, Part
<1>2. Taking(Take(acc, e), Tail(q), used, c)
  BY <1>1, RowsTaken, OtherTaken
<1>3. Range(acc.rows) \subseteq Range(Take(acc, e).rows) /\ acc.gaps \subseteq Take(acc, e).gaps
  <2>1. e \in Event(c)
    BY <1>1, EventTaken
  <2> HIDE DEF e, room
  <2>2. CASE e.kind = "rows"
    <3> DEFINE more == Fetched(e, room)
               stop == IF e.more \/ e.n > room THEN [e.at EXCEPT ![4] = @ + Least(e.n, room)] ELSE acc.stop
    <3>1. Take(acc, e) = [acc EXCEPT !.rows = @ \o more, !.stop = stop]
      BY <1>1, <2>2 DEF Take, TakeRows, Fetched, room
    <3>2. more \in Seq(Row)
      BY <1>1, <2>1, <2>2, FetchedAre
    <3> HIDE DEF more, stop
    <3>3. Take(acc, e).rows = acc.rows \o more /\ Take(acc, e).gaps = acc.gaps
      BY <1>1, <3>1 DEF Part
    <3>4. Range(acc.rows \o more) = Range(acc.rows) \cup Range(more)
      BY <1>1, <3>2, RangeJoin
    <3>5. QED
      BY <3>3, <3>4
  <2>3. CASE e.kind # "rows"
    <3>1. e.kind \in {"gap", "stop", "error", "searched", "open", "before"}
      BY <2>1, <2>3 DEF Event
    <3>2. Take(acc, e) = CASE e.kind = "gap"      -> [acc EXCEPT !.gaps = @ \cup {e.at}]
                           [] e.kind = "stop"     -> [acc EXCEPT !.stop = e.at]
                           [] e.kind = "error"    -> [acc EXCEPT !.error = TRUE]
                           [] e.kind = "searched" -> [acc EXCEPT !.searched = @ + 1]
                           [] OTHER               -> IF room <= 0 THEN [acc EXCEPT !.stop = e.at] ELSE acc
      BY <2>3, <3>1 DEF Take, room
    <3>3. QED
      BY <1>1, <3>1, <3>2 DEF Part
  <2>4. QED
    BY <2>2, <2>3
<1>4. QED
  BY <1>2, <1>3, TakenGrows

-----------------------------------------------------------------------------
(* The steps of a pass *)

\* A pass whose walks, rows and place are these.
SeamOf(walks, acc, i, m) ==
  /\ Running(acc) => WalksSeam(walks, acc, i)
  /\ CatalogsLeft(acc, i)
  /\ RowsInOrder(acc) /\ \A r \in Range(acc.rows) : Behind(r, walks, i)
  /\ StopSeam(acc)
  /\ Stage(m, acc, i)

LEMMA WorldStays ==
  ASSUME UNCHANGED <<world, mode, begin>>
  PROVE  /\ Catalogs' = Catalogs /\ AllRows(mode)' = AllRows(mode)
         /\ \A r : Past(r)' <=> Past(r)
         /\ \A c : Mine(c)' = Mine(c)
<1>1. Catalogs' = Catalogs /\ AllRows(mode)' = AllRows(mode)
  BY DEF Catalogs, AllRows, Places, Schemas, Catalog
<1>2. \A r : Past(r)' <=> Past(r)
  BY DEF Past
<1>3. \A c : Mine(c)' = Mine(c)
  BY <1>1, <1>2 DEF Mine
<1>4. QED
  BY <1>1, <1>2, <1>3

LEMMA SeamMade ==
  ASSUME UNCHANGED <<world, mode, begin>>, SeamOf(walker', part', index', main')
  PROVE  PassSeam'
<1>1. /\ Catalogs' = Catalogs /\ AllRows(mode)' = AllRows(mode)
      /\ \A r : Past(r)' <=> Past(r)
      /\ \A c : Mine(c)' = Mine(c)
  BY WorldStays
<1>2. TakenBy(part)' = TakenBy(part')
  BY <1>1 DEF TakenBy, Missed
<1>3. (Running(part) => WalksSeam(walker, part, index))'
  BY <1>1, <1>2 DEF SeamOf, WalksSeam, SeamAt, Running
<1>4. CatalogsLeft(part, index)'
  BY <1>1, <1>2 DEF SeamOf, CatalogsLeft
<1>5. (RowsInOrder(part) /\ \A r \in Range(part.rows) : Behind(r, walker, index))'
  BY <1>1 DEF SeamOf, RowsInOrder, Behind
<1>6. StopSeam(part)'
  BY <1>1, <1>2 DEF SeamOf, StopSeam
<1>7. Stage(main, part, index)'
  BY DEF SeamOf, Stage, Running
<1>8. QED
  BY <1>3, <1>4, <1>5, <1>6, <1>7 DEF PassSeam

\* The walks move beside the pass: those it needs leave no seam, and the one it replays
\* is as it was.
LEMMA WalksMove ==
  ASSUME Typed, PassSeam, UNCHANGED <<world, mode, begin, part, index>>,
         Running(part) => \A c \in Catalogs : c >= index => walker'[c] = walker[c] \/ SeamAt(walker'[c], part, c, index),
         index \in Catalogs /\ walker[index].st = "ended"
           => walker'[index].st = "ended" /\ walker'[index].events = walker[index].events,
         Stage(main', part, index)
  PROVE  PassSeam'
<1>1. Running(part) => WalksSeam(walker', part, index)
  BY DEF PassSeam, WalksSeam
<1>2. ASSUME NEW r \in Range(part.rows) PROVE Behind(r, walker', index)
  <2>1. Behind(r, walker, index)
    BY DEF PassSeam
  <2>2. QED
    BY <2>1 DEF Behind
<1>3. SeamOf(walker', part', index', main')
  BY <1>1, <1>2 DEF PassSeam, SeamOf
<1>4. QED
  BY <1>3, SeamMade

\* Neither the walks nor what the pass took of them changes.
LEMMA StillSeam ==
  ASSUME Typed, PassSeam, UNCHANGED <<world, mode, begin, part, index, walker>>, Stage(main', part, index)
  PROVE  PassSeam'
  BY WalksMove

LEMMA NoneCounted == Counted(0, {})
<1>1. IsFiniteSet({}) /\ Cardinality({}) = 0
  BY FS_EmptySet
<1>2. QED
  BY <1>1 DEF Counted

LEMMA FillSeam ==
  ASSUME IInv, PassSeam, Fill \/ FillFails
  PROVE  PassSeam'
<1>1. Typed /\ Held
  BY DEF IInv
<1>2. PICK held \in BOOLEAN : Filling /\ Queue(held)
  BY DEF Fill, FillFails
<1> DEFINE v == [Idle EXCEPT !.st = "queued", !.thread = TRUE, !.holds = held]
<1>3. v.st = "queued" /\ v.events = <<>> /\ v.used = 0
  BY DEF Idle
<1>4. walker' = [walker EXCEPT ![ahead + 1] = v] /\ UNCHANGED <<world, mode, begin, index, part>>
  BY <1>2 DEF Queue, OnlyScan, fixed
<1> HIDE DEF v
<1>5. \A c \in Catalogs : walker'[c] = IF c = ahead + 1 THEN v ELSE walker[c]
  BY <1>1, <1>4 DEF Typed
<1>6. index \in Catalogs /\ walker[index].st = "ended" => index # ahead + 1
  <2>1. ahead + 1 \in Catalogs => ahead + 1 > ahead
    BY <1>1, FirstIsCatalog
  <2>2. main = "fill"
    BY <1>2 DEF Filling
  <2>3. QED
    BY <1>1, <2>1, <2>2 DEF Held
<1>7. ASSUME NEW c \in Catalogs PROVE SeamAt(v, part, c, index)
  <2>1. WalkSeam(v, c, Mine(c), TakenBy(part))
    BY <1>3 DEF WalkSeam, Seamless
  <2>2. ToldBy(v.events) = {}
    BY <1>3 DEF ToldBy
  <2>3. part.rows \in Seq(Row) /\ Sorted(part.rows)
    BY <1>1 DEF Typed, Fits, Part, PassSeam, RowsInOrder
  <2>4. IsFiniteSet(Range(part.rows)) /\ Cardinality(Range(part.rows)) \in Nat
    BY <2>3, SortedCounts, FS_CardinalityType
  <2>5. Counted(0, {}) /\ Counted(0, Range(part.rows))
    BY <2>4, NoneCounted DEF Counted
  <2>6. Counted(v.used, ToldBy(v.events) \cup (IF c = index THEN Range(part.rows) ELSE {}))
    BY <1>3, <2>2, <2>5
  <2>7. QED
    BY <2>1, <2>6 DEF SeamAt
<1>8. Stage(main', part, index)
  <2>1. main' \in {main, "raising"} /\ main = "fill"
    BY <1>2 DEF Fill, FillFails, Filling
  <2>2. Stage(main, part, index)
    BY DEF PassSeam
  <2>3. QED
    BY <2>1, <2>2 DEF Stage
<1>9. \A c \in Catalogs : walker'[c] = walker[c] \/ SeamAt(walker'[c], part, c, index)
  BY <1>5, <1>7
<1>10. index \in Catalogs /\ walker[index].st = "ended"
           => walker'[index].st = "ended" /\ walker'[index].events = walker[index].events
  BY <1>5, <1>6
<1>11. QED
  BY <1>1, <1>4, <1>8, <1>9, <1>10, WalksMove

\* A walk that told no more than w leaves no seam, if w left none.
LEMMA SeamsAt ==
  ASSUME NEW c, NEW i, NEW acc, NEW w, NEW v, SeamAt(w, acc, c, i), Seams(w, v, c, TakenBy(acc))
  PROVE  SeamAt(v, acc, c, i)
  BY DEF SeamAt, Seams

LEMMA WalkAloneSeam ==
  ASSUME IInv, PassSeam, WalkAlone
  PROVE  PassSeam'
<1>1. Typed /\ WorldTyped /\ index \in Catalogs /\ walker[index].st = "off" /\ main = "next"
  BY DEF IInv, Typed, WalkAlone
<1> DEFINE w == [Idle EXCEPT !.used = Len(part.rows)]
           v == Open(w, index)
<1>2. w \in WalkRecord(index) /\ w.events = <<>> /\ w.st = "off" /\ w.used = Len(part.rows)
  <2>1. Len(part.rows) \in 0..PageSize
    BY <1>1, SearchAssumption DEF Typed, Fits, Part
  <2>2. w \in WalkRecord(index)
    BY <1>1, <2>1, IdleWalk
  <2>3. QED
    BY <2>2 DEF Idle
<1>3. /\ walker' = [walker EXCEPT ![index] = v]
      /\ UNCHANGED <<world, mode, begin, index, part, main>>
  BY DEF WalkAlone, OnlyScan, fixed
<1> HIDE DEF w
<1>4. SeamAt(w, part, index, index)
  <2>1. WalkSeam(w, index, Mine(index), TakenBy(part))
    BY <1>2 DEF WalkSeam, Seamless
  <2>2. ToldBy(w.events) = {}
    BY <1>2 DEF ToldBy
  <2>3. part.rows \in Seq(Row) /\ Sorted(part.rows)
    BY <1>1 DEF Typed, Fits, Part, PassSeam, RowsInOrder
  <2>4. IsFiniteSet(Range(part.rows)) /\ Cardinality(Range(part.rows)) = Len(part.rows)
    BY <2>3, SortedCounts
  <2>5. w.used <= Cardinality(Range(part.rows))
    BY <1>2, <2>3, <2>4
  <2>6. QED
    BY <2>1, <2>2, <2>4, <2>5 DEF SeamAt, Counted
<1>5. Seams(w, v, index, TakenBy(part))
  BY <1>1, <1>2, OpenSeam
<1> HIDE DEF v
<1>6. SeamAt(v, part, index, index)
  BY <1>4, <1>5, SeamsAt
<1>7. \A c \in Catalogs : walker'[c] = IF c = index THEN v ELSE walker[c]
  BY <1>1, <1>3 DEF Typed
<1>8. Stage(main', part, index)
  BY <1>3 DEF PassSeam, Stage
<1>9. QED
  BY <1>1, <1>3, <1>6, <1>7, <1>8, WalksMove

LEMMA LeaveSeam ==
  ASSUME IInv, PassSeam, Leave
  PROVE  PassSeam'
<1>1. Typed /\ UNCHANGED <<world, mode, begin, index, part>>
  BY DEF IInv, Leave, OnlyScan, fixed
<1>2. \A c \in Catalogs : walker'[c] = IF walker[c].st = "queued"
                  THEN [walker[c] EXCEPT !.st = "dropped", !.holds = FALSE] ELSE walker[c]
  BY DEF Leave
<1>3. ASSUME NEW c \in Catalogs, walker'[c] # walker[c], SeamAt(walker[c], part, c, index)
      PROVE  SeamAt(walker'[c], part, c, index)
  <2>1. walker[c].st = "queued" /\ walker[c] \in WalkRecord(c)
    BY <1>1, <1>2, <1>3 DEF Typed, SoundWalk
  <2> DEFINE v == [walker[c] EXCEPT !.st = "dropped", !.holds = FALSE]
  <2>2. v.st = "dropped" /\ v.events = walker[c].events /\ v.used = walker[c].used /\ walker'[c] = v
    BY <1>2, <2>1 DEF WalkRecord
  <2> HIDE DEF v
  <2>3. SeamAt(v, part, c, index)
    BY <1>3, <2>2 DEF SeamAt, WalkSeam
  <2>4. QED
    BY <2>2, <2>3
<1>4. Running(part) => \A c \in Catalogs : c >= index => walker'[c] = walker[c] \/ SeamAt(walker'[c], part, c, index)
  BY <1>3 DEF PassSeam, WalksSeam
<1>5. index \in Catalogs /\ walker[index].st = "ended"
           => walker'[index].st = "ended" /\ walker'[index].events = walker[index].events
  BY <1>2
<1>6. Stage(main', part, index)
  <2>1. (main = "leaving" /\ main' = "joining") \/ (main = "raising" /\ main' = "failing")
    BY DEF Leave
  <2>2. Stage(main, part, index)
    BY DEF PassSeam
  <2>3. QED
    BY <2>1, <2>2 DEF Stage
<1>7. QED
  BY <1>1, <1>4, <1>5, <1>6, WalksMove

\* A walk beside a pass that takes more.
LEMMA SeamGrows ==
  ASSUME NEW w, NEW c, NEW M, NEW base, NEW more, WalkSeam(w, c, M, base), base \subseteq more
  PROVE  WalkSeam(w, c, M, more)
<1>1. Seamless(w.events, M, more)
  BY DEF WalkSeam, Seamless
<1>2. w.st \in {"asking", "reading"} => Reaches(w.events, M, more, Spot(c, w.at))
  BY DEF WalkSeam, Reaches
<1>3. w.st = "ended" => \/ \A r \in M : r \in more \/ Among(w.events, r)
                        \/ w.events # <<>> /\ StopsAt(w.events[Len(w.events)], w.used)
  BY DEF WalkSeam
<1>4. QED
  BY <1>1, <1>2, <1>3 DEF WalkSeam

LEMMA ReplaySeam ==
  ASSUME IInv, Ordered, PassSeam, Replay
  PROVE  PassSeam'
<1> DEFINE w    == walker[index]
           q    == w.events
           used == w.used
           v    == [w EXCEPT !.events = Tail(@)]
           new  == Take(part, Head(q))
<1>1. /\ Typed /\ WorldTyped /\ Fits(part) /\ index \in Catalogs /\ w.st = "ended" /\ q # <<>>
      /\ w \in WalkRecord(index) /\ WalkOrder(w, index) /\ main = "next" /\ Running(part)
  BY DEF IInv, Typed, Replay, Ordered, SoundWalk, PassSeam, Stage
<1>2. q \in Seq(Event(index)) /\ EventsOrdered(q) /\ used \in Nat
  BY <1>1, SearchAssumption DEF WalkRecord, WalkOrder
<1>3. v.events = Tail(q) /\ v.st = "ended" /\ v.used = used
  BY <1>1 DEF WalkRecord
<1>4. /\ walker' = [walker EXCEPT ![index] = v] /\ part' = new
      /\ main' = IF new.stop # NoStop \/ new.error THEN "leaving" ELSE "next"
      /\ UNCHANGED <<world, mode, begin, index>>
  BY <1>1 DEF Replay, OnlyScan, fixed
<1>5. \A c \in Catalogs : walker'[c] = IF c = index THEN v ELSE walker[c]
  BY <1>1, <1>4 DEF Typed
<1>6. index \in Nat /\ \A c \in Catalogs : c \in Nat
  BY <1>1 DEF Catalogs
<1> HIDE DEF v
<1>7. WalksSeam(walker, part, index) /\ SeamAt(w, part, index, index)
  BY <1>1, <1>6 DEF PassSeam, WalksSeam
<1>8. Takes(part, q, used, index)
  <2>1. /\ Seamless(q, Mine(index), TakenBy(part))
        /\ \/ \A r \in Mine(index) : r \in TakenBy(part) \/ Among(q, r)
           \/ q # <<>> /\ StopsAt(q[Len(q)], used)
        /\ Counted(used, ToldBy(q) \cup Range(part.rows))
    BY <1>1, <1>7 DEF SeamAt, WalkSeam
  <2>2. \A r \in Range(part.rows) : r[1] < index \/ (r[1] = index /\ Below(q, r))
    BY DEF PassSeam, Behind
  <2>3. Taking(part, q, used, index)
    BY <2>1, <2>2 DEF Taking, PassSeam
  <2>4. QED
    BY <1>1, <1>2, <2>3 DEF Takes
<1> HIDE DEF q, used, new
<1>9. Taking(new, Tail(q), used, index) /\ TakenBy(part) \subseteq TakenBy(new)
  BY <1>1, <1>2, <1>8, EventTold DEF new
<1>10. ASSUME Running(new), NEW c \in Catalogs, c >= index PROVE SeamAt(walker'[c], new, c, index)
  <2>1. CASE c = index
    <3>1. WalkSeam(v, index, Mine(index), TakenBy(new))
      BY <1>3, <1>9, <1>10 DEF Taking, WalkSeam
    <3>2. Counted(v.used, ToldBy(v.events) \cup Range(new.rows))
      BY <1>3, <1>9, <1>10 DEF Taking
    <3>3. QED
      BY <1>5, <2>1, <3>1, <3>2 DEF SeamAt
  <2>2. CASE c # index
    <3>1. walker'[c] = walker[c] /\ SeamAt(walker[c], part, c, index)
      BY <1>5, <1>7, <1>10, <2>2 DEF WalksSeam
    <3>2. WalkSeam(walker[c], c, Mine(c), TakenBy(new))
      BY <1>9, <3>1, SeamGrows DEF SeamAt
    <3>3. QED
      BY <2>2, <3>1, <3>2 DEF SeamAt
  <2>3. QED
    BY <2>1, <2>2
<1>11. \A r \in Range(new.rows) : Behind(r, walker', index)
  BY <1>1, <1>3, <1>5, <1>9 DEF Taking, Behind
<1>12. Stage(main', new, index)
  BY <1>4 DEF Stage, Running
<1>13. SeamOf(walker', part', index', main')
  BY <1>4, <1>9, <1>10, <1>11, <1>12 DEF SeamOf, WalksSeam, Taking
<1>14. QED
  BY <1>4, <1>13, SeamMade

LEMMA ReplayedSeam ==
  ASSUME IInv, PassSeam, Replayed
  PROVE  PassSeam'
<1> DEFINE w == walker[index]
<1>1. /\ Typed /\ WorldTyped /\ index \in Catalogs /\ w.st = "ended" /\ w.events = <<>>
      /\ main = "next" /\ Running(part)
  BY DEF IInv, Typed, Replayed, PassSeam, Stage
<1>0. \A c \in Catalogs : c \in Nat
  BY DEF Catalogs
<1>2. /\ index' = index + 1 /\ main' = IF index' > Len(world.catalogs) THEN "leaving" ELSE "fill"
      /\ UNCHANGED <<world, mode, begin, walker, part>>
  BY DEF Replayed, OnlyScan, fixed
<1>3. WalksSeam(walker, part, index) /\ SeamAt(w, part, index, index)
  BY <1>0, <1>1 DEF PassSeam, WalksSeam
<1>4. \A r \in Mine(index) : r \in TakenBy(part)
  BY <1>1, <1>3 DEF SeamAt, WalkSeam, Among
<1>5. CatalogsLeft(part, index + 1)
  <2>1. ASSUME NEW r \in AllRows(mode), r[1] < index + 1, Past(r) PROVE r \in TakenBy(part)
    <3>1. r[1] \in Catalogs
      BY <1>1, RowOf
    <3>2. r[1] < index \/ r[1] = index
      <4>1. r[1] \in Nat /\ index \in Nat
        BY <1>0, <1>1, <3>1
      <4>2. QED
        BY <2>1, <4>1
    <3>3. r[1] = index => r \in Mine(index)
      BY <2>1 DEF Mine
    <3>4. QED
      BY <1>4, <2>1, <3>2, <3>3 DEF PassSeam, CatalogsLeft
  <2>2. QED
    BY <2>1 DEF CatalogsLeft
<1>6. ASSUME NEW r \in Range(part.rows) PROVE Behind(r, walker, index + 1)
  <2>1. r[1] < index \/ r[1] = index
    BY DEF PassSeam, Behind
  <2>2. r[1] \in Nat /\ index \in Nat
    BY <1>0, <1>1 DEF Typed, Fits, Part, Range, Row
  <2>3. QED
    BY <1>1, <2>1, <2>2 DEF Behind
<1>7. ASSUME NEW c \in Catalogs, c >= index + 1 PROVE SeamAt(walker[c], part, c, index + 1)
  <2>1. c >= index /\ c # index
    <3>1. c \in Nat /\ index \in Nat
      BY <1>0, <1>1
    <3>2. QED
      BY <1>7, <3>1
  <2>2. SeamAt(walker[c], part, c, index)
    BY <1>3, <2>1 DEF WalksSeam
  <2>3. WalkSeam(walker[c], c, Mine(c), TakenBy(part)) /\ Counted(walker[c].used, ToldBy(walker[c].events))
    BY <2>1, <2>2 DEF SeamAt
  <2>4. part.rows \in Seq(Row) /\ Sorted(part.rows)
    BY <1>1 DEF Typed, Fits, Part, PassSeam, RowsInOrder
  <2>5. IsFiniteSet(Range(part.rows))
    BY <2>4, SortedCounts
  <2> DEFINE S == ToldBy(walker[c].events)
             T == Range(part.rows)
  <2> HIDE DEF S, T
  <2>6. IsFiniteSet(S) /\ IsFiniteSet(T) /\ walker[c].used <= Cardinality(S) /\ walker[c].used \in Nat
    BY <1>1, <2>3, <2>5, SearchAssumption DEF S, T, Counted, Typed, SoundWalk, WalkRecord
  <2>7. IsFiniteSet(S \cup T)
    BY <2>6, FS_Union
  <2>8. Cardinality(S) <= Cardinality(S \cup T) /\ Cardinality(S) \in Nat /\ Cardinality(S \cup T) \in Nat
    <3>1. S \subseteq S \cup T
      OBVIOUS
    <3>2. QED
      BY <2>6, <2>7, <3>1, FS_Subset, FS_CardinalityType
  <2>9. Counted(walker[c].used, S \cup T)
    BY <2>6, <2>7, <2>8 DEF Counted
  <2>10. QED
    BY <2>3, <2>9 DEF SeamAt, S, T
<1>8. Stage(main', part, index + 1)
  <2>1. Len(world.catalogs) \in Nat /\ Catalogs = 1..Len(world.catalogs)
    BY <1>1, FiniteHolders
  <2>2. main' = "leaving" => index + 1 = Len(world.catalogs) + 1
    BY <1>1, <1>2, <2>1
  <2>3. QED
    BY <1>1, <1>2, <2>2 DEF Stage
<1>9. SeamOf(walker', part', index', main')
  BY <1>2, <1>5, <1>6, <1>7, <1>8 DEF SeamOf, WalksSeam, PassSeam
<1>10. QED
  BY <1>2, <1>9, SeamMade

\* What a step of its own leaves of a walk.
LEMMA StateSeam ==
  ASSUME NEW c \in Catalogs, NEW w \in WalkRecord(c), NEW M, NEW base, WalkSeam(w, c, M, base)
  PROVE  /\ WalkSeam([w EXCEPT !.st = "dropped"], c, M, base)
         /\ WalkSeam([w EXCEPT !.st = "raised"], c, M, base)
         /\ w.st = "asking" => WalkSeam([w EXCEPT !.st = "reading"], c, M, base)
         /\ WalkSeam([w EXCEPT !.holds = FALSE], c, M, base)
<1>1. ASSUME NEW st \in {"dropped", "raised", "reading"}, st = "reading" => w.st = "asking"
      PROVE  WalkSeam([w EXCEPT !.st = st], c, M, base)
  <2> DEFINE v == [w EXCEPT !.st = st]
  <2>1. v.st = st /\ v.at = w.at /\ v.events = w.events /\ v.used = w.used
    BY DEF WalkRecord
  <2> HIDE DEF v
  <2>2. WalkSeam(v, c, M, base)
    BY <1>1, <2>1 DEF WalkSeam
  <2>3. QED
    BY <2>2 DEF v
<1>2. WalkSeam([w EXCEPT !.holds = FALSE], c, M, base)
  <2> DEFINE v == [w EXCEPT !.holds = FALSE]
  <2>1. v.st = w.st /\ v.at = w.at /\ v.events = w.events /\ v.used = w.used
    BY DEF WalkRecord
  <2> HIDE DEF v
  <2>2. WalkSeam(v, c, M, base)
    BY <2>1 DEF WalkSeam
  <2>3. QED
    BY <2>2 DEF v
<1>3. QED
  BY <1>1, <1>2

\* The rows a walk tells were not told before, nor taken by the pass.
LEMMA RowsSeam ==
  ASSUME IInv, PassSeam, NEW c \in Catalogs, c >= index, SeamAt(walker[c], part, c, index),
         walker[c].st = "reading", NEW v, SeamsRows(walker[c], v, c, TakenBy(part))
  PROVE  SeamAt(v, part, c, index)
<1> DEFINE w == walker[c]
           p == Spot(c, w.at)
           S == ToldBy(w.events) \cup (IF c = index THEN Range(part.rows) ELSE {})
<1>1. PICK n \in Nat : v.used = w.used + n /\ ToldBy(v.events) = ToldBy(w.events) \cup Range(Rows(p, n))
  BY DEF SeamsRows
<1>2. w \in WalkRecord(c) /\ p \in Row /\ p[1] = c /\ w.used \in Nat /\ c \in Nat /\ index \in Nat
  <2>0. w \in WalkRecord(c) /\ PageSize \in Nat
    BY SearchAssumption DEF IInv, Typed, SoundWalk
  <2>1. w \in WalkRecord(c) /\ w.used \in Nat /\ w.at \in At
    BY <2>0 DEF WalkRecord
  <2>2. p \in Row /\ p[1] = c
    BY <2>1, PlaceRow DEF Spot, At
  <2>3. index \in Nat /\ c \in Nat
    BY FiniteHolders DEF IInv, Typed
  <2>4. QED
    BY <2>1, <2>2, <2>3
<1>3. Counted(w.used, S)
  BY DEF SeamAt
<1>4. \A r \in ToldBy(w.events) : UpTo(p, r)
  BY DEF SeamAt, WalkSeam, Reaches
<1> HIDE DEF p
<1>5. ASSUME NEW r \in S PROVE r \notin Range(Rows(p, n))
  <2>1. SUFFICES ASSUME r \in Range(Rows(p, n)) PROVE FALSE
    OBVIOUS
  <2>2. r \in Row /\ r[1] = c /\ Precedes(p, r)
    BY <1>2, <2>1, RowThere
  <2>3. CASE r \in ToldBy(w.events)
    BY <1>4, <2>2, <2>3 DEF UpTo
  <2>4. CASE c = index /\ r \in Range(part.rows)
    <3>1. Behind(r, walker, index)
      BY <2>4 DEF PassSeam
    <3>2. ~(r[1] < index)
      BY <1>2, <2>2, <2>4
    <3>3. QED
      BY <2>4, <3>1, <3>2 DEF Behind
  <2>5. QED
    BY <1>5, <2>3, <2>4
<1> HIDE DEF S
<1>6. Counted(w.used + n, S \cup Range(Rows(p, n)))
  BY <1>2, <1>3, <1>5, CountMore
<1>7. S \cup Range(Rows(p, n)) = ToldBy(v.events) \cup (IF c = index THEN Range(part.rows) ELSE {})
  BY <1>1 DEF S
<1>8. WalkSeam(v, c, Mine(c), TakenBy(part))
  BY DEF SeamsRows
<1>9. QED
  BY <1>1, <1>6, <1>7, <1>8 DEF SeamAt

\* A walk that lists its schemas told no row.
LEMMA NothingTold ==
  ASSUME NEW c \in Catalogs, NEW q \in Seq(Event(c)), ~FoundIn(q)
  PROVE  ToldBy(q) = {}
<1>1. SUFFICES ASSUME NEW i \in DOMAIN q, NEW r \in Told(q[i]) PROVE FALSE
  BY DEF ToldBy
<1>2. q[i] \in Event(c) /\ q[i].kind = "rows" /\ ~(q[i].n > 0)
  BY <1>1 DEF Told, FoundIn, Finds
<1> DEFINE p == q[i].at
           n == q[i].n
<1>3. r \in Range(Rows(p, n)) /\ n \in Nat /\ ~(n > 0)
  BY <1>1, <1>2 DEF Told, Event
<1> HIDE DEF p, n
<1>4. DOMAIN Rows(p, n) = {}
  BY <1>3 DEF Rows
<1>5. QED
  BY <1>3, <1>4 DEF Range

\* The walk of a catalog moves on from one of its states.
LEMMA WalkMovesSeam ==
  ASSUME IInv, PassSeam, NEW c \in Catalogs, NEW v, walker' = [walker EXCEPT ![c] = v], OnlyWalk,
         Running(part) /\ c >= index /\ SeamAt(walker[c], part, c, index) => SeamAt(v, part, c, index),
         walker[c].st = "ended" => v.st = "ended" /\ v.events = walker[c].events
  PROVE  PassSeam'
<1>1. Typed /\ UNCHANGED <<world, mode, begin, index, part, main>>
  BY DEF IInv, OnlyWalk, fixed
<1>2. \A d \in Catalogs : walker'[d] = IF d = c THEN v ELSE walker[d]
  BY <1>1 DEF Typed
<1>3. Running(part) => \A d \in Catalogs : d >= index => walker'[d] = walker[d] \/ SeamAt(walker'[d], part, d, index)
  BY <1>2 DEF PassSeam, WalksSeam
<1>4. index \in Catalogs /\ walker[index].st = "ended"
           => walker'[index].st = "ended" /\ walker'[index].events = walker[index].events
  BY <1>2
<1>5. Stage(main', part, index)
  BY <1>1 DEF PassSeam
<1>6. QED
  BY <1>1, <1>3, <1>4, <1>5, WalksMove

LEMMA WalkStepSeam ==
  ASSUME IInv, Ordered, PassSeam, NEW c \in Catalogs, Walk(c)
  PROVE  PassSeam'
<1> DEFINE w == walker[c]
           base == TakenBy(part)
           Fine(v) == Running(part) /\ c >= index /\ SeamAt(w, part, c, index) => SeamAt(v, part, c, index)
<1>1. WorldTyped /\ SoundWalk(w, c) /\ w \in WalkRecord(c) /\ WalkOrder(w, c)
  BY DEF IInv, Typed, SoundWalk, Ordered
<1>2. w.st \in {"asking", "reading"} /\ SeamAt(w, part, c, index) => AsksOn(w, c, base)
  BY <1>1 DEF AsksOn, SeamAt, WalkSeam
<1>3. w.st \in {"asking", "reading"} => Fine(OutOfTime(w, c))
  <2>1. SUFFICES ASSUME w.st \in {"asking", "reading"}, SeamAt(w, part, c, index)
                 PROVE  SeamAt(OutOfTime(w, c), part, c, index)
    OBVIOUS
  <2>2. Seams(w, OutOfTime(w, c), c, base)
    BY <1>1, <1>2, <2>1, OutOfTimeSeam
  <2>3. QED
    BY <2>1, <2>2, SeamsAt
<1>4. ASSUME NEW st, st \in {"dropped", "raised"} \/ (st = "reading" /\ w.st = "asking")
      PROVE  Fine([w EXCEPT !.st = st])
  <2> DEFINE v == [w EXCEPT !.st = st]
  <2>1. v.events = w.events /\ v.used = w.used
    BY <1>1 DEF WalkRecord
  <2>2. SeamAt(w, part, c, index) => WalkSeam(v, c, Mine(c), base)
    BY <1>1, <1>4, StateSeam DEF SeamAt
  <2> HIDE DEF v
  <2>3. Fine(v)
    BY <2>1, <2>2 DEF SeamAt
  <2>4. QED
    BY <2>3 DEF v
<1>5. CASE Begin(c)
  <2>1. w.st = "queued" /\ OnlyWalk /\ walker' = [walker EXCEPT ![c] = Open(w, c)] /\ w.events = <<>>
    BY <1>1, <1>5 DEF Begin, WalkOrder
  <2>2. Seams(w, Open(w, c), c, base)
    BY <1>1, <2>1, OpenSeam
  <2>3. Fine(Open(w, c))
    BY <2>2, SeamsAt
  <2>4. QED
    BY <2>1, <2>3, WalkMovesSeam
<1>6. CASE Ask(c)
  <2>1. /\ w.st = "asking" /\ OnlyWalk
        /\ \/ walker' = [walker EXCEPT ![c] = [w EXCEPT !.st = "dropped"]]
           \/ walker' = [walker EXCEPT ![c] = OutOfTime(w, c)]
           \/ walker' = [walker EXCEPT ![c] = [w EXCEPT !.st = "reading"]]
    BY <1>6 DEF Ask
  <2>2. Fine([w EXCEPT !.st = "dropped"]) /\ Fine(OutOfTime(w, c)) /\ Fine([w EXCEPT !.st = "reading"])
    BY <1>3, <1>4, <2>1
  <2>3. QED
    BY <2>1, <2>2, WalkMovesSeam
<1>7. CASE Answers(c)
  <2>1. w.st = "reading" /\ OnlyWalk /\ walker' = [walker EXCEPT ![c] = Answered(w, c)]
    BY <1>7 DEF Answers
  <2>2. ASSUME c >= index, SeamAt(w, part, c, index)
        PROVE  SeamAt(Answered(w, c), part, c, index)
    <3>1. w.listing => ToldBy(w.events) = {}
      <4>1. w.listing => ~FoundIn(w.events)
        BY <1>1, <2>1 DEF WalkOrder
      <4>2. w.events \in Seq(Event(c))
        BY <1>1 DEF WalkRecord
      <4>3. QED
        BY <4>1, <4>2, NothingTold
    <3>2. AsksOn(w, c, base)
      BY <1>2, <2>1, <2>2
    <3>3. Seams(w, Answered(w, c), c, base) \/ SeamsRows(w, Answered(w, c), c, base)
      BY <1>1, <2>1, <3>1, <3>2, AnsweredSeam
    <3>4. QED
      BY <2>1, <2>2, <3>3, SeamsAt, RowsSeam
  <2>3. QED
    BY <2>1, <2>2, WalkMovesSeam
<1>8. CASE TimesOut(c)
  <2>1. w.st = "reading" /\ OnlyWalk /\ walker' = [walker EXCEPT ![c] = OutOfTime(w, c)]
    BY <1>8 DEF TimesOut
  <2>2. QED
    BY <1>3, <2>1, WalkMovesSeam
<1>9. CASE CallTimesOut(c) \/ IsCancelled(c)
  <2>1. /\ w.st = "reading" /\ OnlyWalk
        /\ \/ walker' = [walker EXCEPT ![c] = [w EXCEPT !.st = "raised"]]
           \/ walker' = [walker EXCEPT ![c] = [w EXCEPT !.st = "dropped"]]
    BY <1>9 DEF CallTimesOut, IsCancelled
  <2>2. Fine([w EXCEPT !.st = "raised"]) /\ Fine([w EXCEPT !.st = "dropped"])
    BY <1>4
  <2>3. QED
    BY <2>1, <2>2, WalkMovesSeam
<1>10. CASE Release(c)
  <2> DEFINE v == [w EXCEPT !.holds = FALSE]
  <2>1. w.st \in {"ended", "raised", "dropped"} /\ walker' = [walker EXCEPT ![c] = v] /\ OnlyWalk
    BY <1>10 DEF Release
  <2>2. v.st = w.st /\ v.events = w.events /\ v.used = w.used
    BY <1>1 DEF WalkRecord
  <2>3. SeamAt(w, part, c, index) => WalkSeam(v, c, Mine(c), base)
    BY <1>1, StateSeam DEF SeamAt
  <2> HIDE DEF v
  <2>4. Fine(v)
    BY <2>2, <2>3 DEF SeamAt
  <2>5. QED
    BY <2>1, <2>2, <2>4, WalkMovesSeam
<1>11. QED
  BY <1>5, <1>6, <1>7, <1>8, <1>9, <1>10 DEF Walk

\* The rows of the world of the next state.
LEMMA RowsOfWorld ==
  WorldTyped => \A r \in AllRows(mode) : r \in Row /\ r[1] \in Catalogs
  BY RowOf

LEMMA ScanSeam ==
  ASSUME WorldTyped', NEW m, NEW cursor \in Cursor \cup {NoCursor}, Scan(m, cursor), UNCHANGED world
  PROVE  PassSeam'
<1>1. /\ begin' = cursor /\ index' = FirstOf(cursor) /\ main' = "fill"
      /\ walker' = [c \in Catalogs |-> Idle] /\ part' = Nothing /\ Catalogs' = Catalogs
  BY DEF Scan, Catalogs
<1>2. part'.rows = <<>> /\ part'.stop = NoStop /\ ~part'.error
  BY <1>1 DEF Nothing
<1>3. Range(part'.rows) = {}
  BY <1>2 DEF Range
<1>4. WalksSeam(walker, part, index)'
  <2>1. ASSUME NEW c \in Catalogs PROVE SeamAt(walker[c], part, c, index)'
    <3>1. walker'[c].st = "off" /\ walker'[c].events = <<>> /\ walker'[c].used = 0
      BY <1>1 DEF Idle
    <3>2. WalkSeam(walker[c], c, Mine(c), TakenBy(part))'
      BY <3>1 DEF WalkSeam, Seamless
    <3>3. ToldBy(walker'[c].events) = {}
      BY <3>1 DEF ToldBy
    <3>4. (ToldBy(walker[c].events) \cup (IF c = index THEN Range(part.rows) ELSE {}))' = {}
      BY <1>3, <3>3
    <3>5. Counted(walker[c].used, ToldBy(walker[c].events) \cup (IF c = index THEN Range(part.rows) ELSE {}))'
      BY <3>1, <3>4, NoneCounted
    <3>6. QED
      BY <3>2, <3>5 DEF SeamAt
  <2>2. QED
    BY <1>1, <2>1 DEF WalksSeam
<1>5. CatalogsLeft(part, index)'
  <2>1. WorldTyped' => (\A r \in AllRows(mode) : r \in Row /\ r[1] \in Catalogs)'
    BY RowsOfWorld, PTL
  <2>2. ASSUME NEW r \in AllRows(mode)', r[1] < index', Past(r)' PROVE FALSE
    <3>1. r \in Row /\ r[1] \in Catalogs
      BY <1>1, <2>1
    <3>2. CASE cursor = NoCursor
      <4>1. index' = 1
        BY <1>1, <3>2 DEF FirstOf
      <4>2. QED
        BY <2>2, <3>1, <4>1 DEF Catalogs
    <3>3. CASE cursor # NoCursor
      <4>1. index' = cursor.at[1] /\ Precedes(cursor.at, r)
        BY <1>1, <2>2, <3>3 DEF FirstOf, Past
      <4>2. cursor.at \in Row
        BY <3>3 DEF Cursor, Place, Row, Catalogs
      <4>3. cursor.at[1] <= r[1]
        BY <3>1, <4>1, <4>2, PrecedesIs DEF Row
      <4>4. QED
        BY <2>2, <3>1, <4>1, <4>2, <4>3 DEF Row
    <3>4. QED
      BY <3>2, <3>3
  <2>3. QED
    BY <2>2 DEF CatalogsLeft
<1>6. (RowsInOrder(part) /\ \A r \in Range(part.rows) : Behind(r, walker, index))'
  BY <1>2, <1>3 DEF RowsInOrder, Sorted
<1>7. StopSeam(part)' /\ Stage(main, part, index)'
  BY <1>1, <1>2 DEF StopSeam, Stage, Running
<1>8. QED
  BY <1>4, <1>5, <1>6, <1>7 DEF PassSeam

LEMMA StepSeam == IInv /\ Ordered /\ PassSeam /\ [Next]_vars => PassSeam'
<1> SUFFICES ASSUME IInv, Ordered, PassSeam, [Next]_vars PROVE PassSeam'
  OBVIOUS
<1>0. Typed /\ WorldTyped' /\ Stage(main, part, index)
  <2>1. IInv'
    BY StepHolds
  <2>2. QED
    BY <2>1 DEF IInv, Typed, PassSeam
<1>1. CASE Fill \/ FillFails
  BY <1>1, FillSeam
<1>2. CASE Filled \/ ReplayRaises
  <2>1. Stage(main', part, index) /\ UNCHANGED <<world, mode, begin, part, index, walker>>
    BY <1>0, <1>2 DEF Filled, ReplayRaises, Stage, OnlyScan, fixed
  <2>2. QED
    BY <1>0, <2>1, StillSeam
<1>3. CASE Replayed
  BY <1>3, ReplayedSeam
<1>4. CASE WalkAlone
  BY <1>4, WalkAloneSeam
<1>5. CASE Replay
  BY <1>5, ReplaySeam
<1>6. CASE Leave
  BY <1>6, LeaveSeam
<1>7. CASE Answer \/ Fail
  <2>1. Stage(main', part, index) /\ UNCHANGED <<world, mode, begin, part, index, walker>>
    BY <1>7 DEF Answer, Fail, Stage, OnlyAnswer
  <2>2. QED
    BY <1>0, <2>1, StillSeam
<1>8. CASE EachWord
  BY <1>0, <1>8, ScanSeam DEF EachWord, OnlyAnswer
<1>9. CASE Resume
  <2>1. next \in Cursor /\ Scan(next.mode, next) /\ UNCHANGED world
    BY <1>0, <1>9 DEF Resume, Typed
  <2>2. QED
    BY <1>0, <2>1, ScanSeam
<1>10. CASE \E c \in Catalogs : Walk(c)
  BY <1>10, WalkStepSeam
<1>11. CASE TimePasses \/ OthersTake \/ OthersGive \/ UNCHANGED vars
  <2>1. UNCHANGED <<world, mode, begin, part, index, walker, main>>
    BY <1>11 DEF TimePasses, OthersTake, OthersGive, OnlyOthers, fixed, vars
  <2>2. QED
    BY <1>0, <2>1, StillSeam
<1>12. QED
  BY <1>1, <1>2, <1>3, <1>4, <1>5, <1>6, <1>7, <1>8, <1>9, <1>10, <1>11
  DEF Next, Main, Over

LEMMA InitSeam == Init => PassSeam
<1> SUFFICES ASSUME Init PROVE PassSeam
  OBVIOUS
<1>1. /\ WorldTyped /\ begin = NoCursor /\ index = 1 /\ main = "fill" /\ part = Nothing
      /\ walker = [c \in Catalogs |-> Idle]
  BY InitHolds DEF Init, IInv, Typed
<1>2. part.rows = <<>> /\ part.stop = NoStop /\ ~part.error
  BY <1>1 DEF Nothing
<1>3. Range(part.rows) = {}
  BY <1>2 DEF Range
<1>4. ASSUME NEW c \in Catalogs PROVE SeamAt(walker[c], part, c, index)
  <2>1. walker[c].st = "off" /\ walker[c].events = <<>> /\ walker[c].used = 0
    BY <1>1 DEF Idle
  <2>2. WalkSeam(walker[c], c, Mine(c), TakenBy(part))
    BY <2>1 DEF WalkSeam, Seamless
  <2>3. ToldBy(walker[c].events) \cup (IF c = index THEN Range(part.rows) ELSE {}) = {}
    BY <1>3, <2>1 DEF ToldBy
  <2>4. Counted(walker[c].used, ToldBy(walker[c].events) \cup (IF c = index THEN Range(part.rows) ELSE {}))
    BY <2>1, <2>3, NoneCounted
  <2>5. QED
    BY <2>2, <2>4 DEF SeamAt
<1>5. CatalogsLeft(part, index)
  <2>1. \A r \in AllRows(mode) : ~(r[1] < 1)
    BY <1>1, RowOf DEF Catalogs
  <2>2. QED
    BY <1>1, <2>1 DEF CatalogsLeft
<1>6. RowsInOrder(part) /\ StopSeam(part) /\ Stage(main, part, index)
  BY <1>1, <1>2, <1>3 DEF RowsInOrder, Sorted, StopSeam, Stage, Running
<1>7. QED
  BY <1>3, <1>4, <1>5, <1>6 DEF PassSeam, WalksSeam

-----------------------------------------------------------------------------
(* The steps of a chain *)

\* Who served what, before and after a call.
Serves(rows, gaps, r) == r \in Range(rows) \/ Missed(gaps, r)

LEMMA ChainStill ==
  ASSUME ChainSeam, UNCHANGED <<world, mode, begin, reply>>, main' = "done" <=> main = "done"
  PROVE  ChainSeam'
<1>1. AllRows(mode)' = AllRows(mode) /\ AllRows("every_word")' = AllRows("every_word")
  BY DEF AllRows, Places, Schemas, Catalog, Catalogs
<1>2. UNCHANGED <<next, complete, outcome, served, gapped>>
  BY DEF reply
<1>3. \A r : Kept(r)' <=> Kept(r)
  BY <1>2 DEF Kept
<1>4. Resumes(begin)' <=> Resumes(begin)
  BY <1>1, <1>2, <1>3 DEF Resumes
<1>5. Resumes(next)' <=> Resumes(next)
  BY <1>1, <1>2, <1>3 DEF Resumes
<1>6. QED
  BY <1>1, <1>2, <1>3, <1>4, <1>5 DEF ChainSeam

\* What the calls before this one left to it, and what the pass adds.
LEMMA PassAdds ==
  ASSUME IInv, Ordered, PassSeam, ChainSeam, main = "joining", ~part.error
  PROVE  /\ served \o part.rows \in Seq(Row) /\ Sorted(served \o part.rows)
         /\ Range(served \o part.rows) = Range(served) \cup Range(part.rows)
         /\ \A r \in AllRows(mode) : part.stop = NoStop \/ UpTo(part.stop, r) =>
              Serves(served \o part.rows, gapped \cup part.gaps, r)
         /\ part.stop # NoStop => \A r \in Range(served \o part.rows) : UpTo(part.stop, r)
<1> DEFINE rows == served \o part.rows
           gaps == gapped \cup part.gaps
<1>1. /\ WorldTyped /\ served \in Seq(Row) /\ part.rows \in Seq(Row) /\ Sorted(served) /\ Sorted(part.rows)
      /\ part.stop \in Place \cup {NoStop} /\ Len(world.catalogs) \in Nat
  BY FiniteHolders DEF IInv, Typed, Fits, Part, ChainSeam, PassSeam, RowsInOrder
<1>2. Range(rows) = Range(served) \cup Range(part.rows)
  BY <1>1, RangeJoin
<1>3. begin # NoCursor => begin.at \in Row
  BY <1>1, BeginRow
<1>4. /\ \A x \in Range(served) : x \in Row /\ begin # NoCursor /\ UpTo(begin.at, x)
      /\ \A y \in Range(part.rows) : y \in Row /\ Past(y)
  <2>1. begin = NoCursor => Range(served) = {}
    BY DEF ChainSeam, Range
  <2>2. begin # NoCursor => \A x \in Range(served) : UpTo(begin.at, x)
    BY DEF ChainSeam, Resumes
  <2>3. \A y \in Range(part.rows) : Past(y)
    BY DEF PassSeam, RowsInOrder
  <2>4. \A x \in Range(served) : x \in Row
    BY <1>1 DEF Range
  <2>5. \A y \in Range(part.rows) : y \in Row
    BY <1>1 DEF Range
  <2>6. QED
    BY <2>1, <2>2, <2>3, <2>4, <2>5
<1>5. rows \in Seq(Row) /\ Sorted(rows)
  <2>1. ASSUME NEW x \in Range(served), NEW y \in Range(part.rows) PROVE Precedes(x, y)
    BY <1>3, <1>4, TotalOrder DEF Past
  <2>2. QED
    BY <1>1, <2>1, SortedJoin
<1>6. ASSUME NEW r \in AllRows(mode), part.stop = NoStop \/ UpTo(part.stop, r) PROVE Serves(rows, gaps, r)
  <2>1. CASE Past(r)
    <3>1. r \in TakenBy(part)
      <4>1. CASE part.stop = NoStop
        <5>1. index = Len(world.catalogs) + 1
          BY <4>1 DEF PassSeam, Stage, Running
        <5>2. r[1] \in Catalogs
          BY <1>1, RowOf
        <5>3. r[1] < index
          BY <1>1, <5>1, <5>2 DEF Catalogs
        <5>4. QED
          BY <2>1, <5>3 DEF PassSeam, CatalogsLeft
      <4>2. CASE part.stop # NoStop
        BY <1>6, <2>1, <4>2 DEF PassSeam, StopSeam
      <4>3. QED
        BY <4>1, <4>2
    <3>2. QED
      BY <1>2, <3>1 DEF TakenBy, Serves, Missed
  <2>2. CASE ~Past(r)
    <3>1. begin # NoCursor /\ UpTo(begin.at, r)
      BY <2>2 DEF Past, UpTo
    <3>2. Kept(r)
      BY <3>1 DEF ChainSeam, Resumes
    <3>3. QED
      BY <1>2, <3>2 DEF Kept, Serves, Missed
  <2>3. QED
    BY <2>1, <2>2
<1>7. ASSUME part.stop # NoStop, NEW r \in Range(rows) PROVE UpTo(part.stop, r)
  <2>1. CASE r \in Range(part.rows)
    BY <1>7, <2>1 DEF PassSeam, StopSeam
  <2>2. CASE r \in Range(served)
    <3>1. part.stop \in Row
      BY <1>1, <1>7 DEF Place, Row, Catalogs
    <3>2. begin # NoCursor /\ Precedes(begin.at, part.stop) /\ UpTo(begin.at, r) /\ r \in Row
      BY <1>4, <1>7, <2>2 DEF Ordered, Past
    <3>3. QED
      BY <1>3, <3>1, <3>2, TotalOrder DEF UpTo
  <2>3. QED
    BY <1>2, <1>7, <2>1, <2>2
<1>8. QED
  BY <1>2, <1>5, <1>6, <1>7

LEMMA AnswerChain ==
  ASSUME IInv, Ordered, PassSeam, ChainSeam, Answer
  PROVE  ChainSeam'
<1> DEFINE rows == served \o part.rows
           gaps == gapped \cup part.gaps
           cursor == [at |-> part.stop, mode |-> mode, gaps |-> Flags.gaps, found |-> Flags.found]
<1>1. /\ main = "joining" /\ ~part.error /\ main' = "done" /\ UNCHANGED <<world, mode, begin>>
      /\ served' = rows /\ gapped' = gaps /\ complete' = (part.stop = NoStop /\ ~Flags.gaps)
      /\ next' = IF part.stop = NoStop THEN NoCursor ELSE cursor
  BY DEF Answer, OnlyAnswer, Finished, Whole
<1>2. AllRows(mode)' = AllRows(mode) /\ AllRows("every_word")' = AllRows("every_word")
  BY <1>1 DEF AllRows, Places, Schemas, Catalog, Catalogs
<1>3. /\ rows \in Seq(Row) /\ Sorted(rows) /\ Range(rows) = Range(served) \cup Range(part.rows)
      /\ \A r \in AllRows(mode) : part.stop = NoStop \/ UpTo(part.stop, r) => Serves(rows, gaps, r)
      /\ part.stop # NoStop => \A r \in Range(rows) : UpTo(part.stop, r)
  BY <1>1, PassAdds
<1>4. (Flags.gaps <=> gaps # {}) /\ (Flags.found <=> rows # <<>>)
  <2>1. /\ begin = NoCursor => served = <<>> /\ gapped = {}
        /\ begin # NoCursor => (begin.gaps <=> gapped # {}) /\ (begin.found <=> served # <<>>)
    BY <1>1 DEF ChainSeam, Resumes
  <2>2. begin # NoCursor => begin.gaps \in BOOLEAN /\ begin.found \in BOOLEAN
    BY DEF IInv, Typed, WorldTyped, Cursor
  <2>3. /\ Flags.gaps <=> part.gaps # {} \/ (begin # NoCursor /\ begin.gaps)
        /\ Flags.found <=> part.rows # <<>> \/ (begin # NoCursor /\ begin.found)
    BY <2>2 DEF Flags, Earlier
  <2>4. rows # <<>> <=> served # <<>> \/ part.rows # <<>>
    <3>1. ASSUME NEW s \in Seq(Row) PROVE s # <<>> <=> Range(s) # {}
      <4>1. s # <<>> => 1 \in DOMAIN s
        OBVIOUS
      <4>2. s = <<>> => DOMAIN s = {}
        OBVIOUS
      <4>3. QED
        BY <4>1, <4>2 DEF Range
    <3>2. served \in Seq(Row) /\ part.rows \in Seq(Row)
      BY DEF ChainSeam, IInv, Typed, Fits, Part
    <3> HIDE DEF rows
    <3>3. QED
      BY <1>3, <3>1, <3>2
  <2>5. QED
    BY <2>1, <2>3, <2>4
<1> HIDE DEF rows, gaps
<1>5. \A r : Kept(r)' <=> Serves(rows, gaps, r)
  BY <1>1 DEF Kept, Serves
<1>6. ASSUME next' # NoCursor PROVE Resumes(next)'
  <2>1. next' = cursor /\ part.stop # NoStop
    BY <1>1, <1>6
  <2>2. /\ next'.at = part.stop /\ next'.mode = mode
        /\ (next'.gaps <=> gaps # {}) /\ (next'.found <=> rows # <<>>)
    BY <1>4, <2>1
  <2>3. QED
    BY <1>1, <1>2, <1>3, <1>5, <2>1, <2>2 DEF Resumes
<1>7. next' = NoCursor => part.stop = NoStop
  <2>1. SUFFICES ASSUME part.stop # NoStop PROVE cursor # NoCursor
    BY <1>1
  <2>2. part.stop \in Nat \X Nat \X Nat \X Nat /\ mode \in Modes
    <3>1. part.stop \in Place /\ mode \in Modes
      BY <2>1 DEF IInv, Typed, WorldTyped, Fits, Part
    <3>2. Catalogs \subseteq Nat /\ Phases \subseteq Nat
      BY DEF Catalogs, Phases, Tables, Columns
    <3>3. Place \subseteq Nat \X Nat \X Nat \X Nat
      BY <3>2 DEF Place
    <3>4. QED
      BY <3>1, <3>3
  <2>3. Flags.gaps \in BOOLEAN /\ Flags.found \in BOOLEAN
    BY DEF Flags, Earlier, IInv, Typed, WorldTyped, Cursor
  <2>4. cursor \in [at : Nat \X Nat \X Nat \X Nat, mode : Modes, gaps : BOOLEAN, found : BOOLEAN]
    BY <2>2, <2>3
  <2>5. QED
    BY <2>4, SentinelAssumption
<1>8. complete' => next' = NoCursor /\ gapped' = {}
  BY <1>1, <1>4
<1>9. (mode = "per_word" => AllRows("every_word") = {})'
  BY <1>1, <1>2 DEF ChainSeam
<1>10. next' = NoCursor => (\A r \in AllRows(mode) : Kept(r))'
  BY <1>2, <1>3, <1>5, <1>7
<1>11. QED
  BY <1>1, <1>3, <1>6, <1>8, <1>9, <1>10 DEF ChainSeam

LEMMA EachWordChain ==
  ASSUME IInv, Ordered, PassSeam, ChainSeam, EachWord
  PROVE  ChainSeam'
<1>1. /\ main = "joining" /\ ~part.error /\ main' = "fill" /\ mode' = "per_word" /\ begin' = NoCursor
      /\ UNCHANGED world /\ UNCHANGED reply
      /\ mode = "every_word" /\ part.stop = NoStop /\ ~Flags.gaps /\ ~Flags.found
  BY DEF EachWord, Scan, OnlyAnswer, GoesOn, Whole, Finished
<1>2. UNCHANGED <<next, complete, outcome, served, gapped>>
  BY <1>1 DEF reply
<1>3. part.rows = <<>> /\ part.gaps = {} /\ served = <<>> /\ gapped = {}
  <2>1. /\ begin = NoCursor => served = <<>> /\ gapped = {}
        /\ begin # NoCursor => (begin.gaps <=> gapped # {}) /\ (begin.found <=> served # <<>>)
    BY <1>1 DEF ChainSeam, Resumes
  <2>2. QED
    BY <1>1, <2>1 DEF Flags, Earlier
<1>4. AllRows("every_word") = {}
  <2>1. \A r \in AllRows(mode) : Serves(served \o part.rows, gapped \cup part.gaps, r)
    BY <1>1, PassAdds
  <2>2. Range(served \o part.rows) = {}
    <3>1. Range(served \o part.rows) = Range(served) \cup Range(part.rows)
      BY <1>1, PassAdds
    <3>2. QED
      BY <1>3, <3>1 DEF Range
  <2>3. QED
    BY <1>1, <1>3, <2>1, <2>2 DEF Serves, Missed
<1>5. AllRows("every_word")' = AllRows("every_word")
  BY <1>1 DEF AllRows, Places, Schemas, Catalog, Catalogs
<1>6. QED
  BY <1>1, <1>2, <1>3, <1>4, <1>5 DEF ChainSeam

LEMMA FailChain ==
  ASSUME ChainSeam, Fail
  PROVE  ChainSeam'
<1>1. /\ main' = "done" /\ outcome' = "failed" /\ complete' = FALSE /\ next' = NoCursor
      /\ UNCHANGED <<world, mode, begin, served, gapped>>
  BY DEF Fail, OnlyAnswer
<1>2. AllRows("every_word")' = AllRows("every_word")
  BY <1>1 DEF AllRows, Places, Schemas, Catalog, Catalogs
<1>3. QED
  BY <1>1, <1>2 DEF ChainSeam

LEMMA ResumeChain ==
  ASSUME ChainSeam, Resume
  PROVE  ChainSeam'
<1>1. /\ main = "done" /\ next # NoCursor /\ main' = "fill" /\ mode' = next.mode /\ begin' = next
      /\ next' = NoCursor /\ complete' = FALSE /\ UNCHANGED <<world, served, gapped>>
  BY DEF Resume, Scan
<1>2. Resumes(next) /\ mode' = mode
  BY <1>1 DEF ChainSeam, Resumes
<1>3. AllRows(mode)' = AllRows(mode) /\ AllRows("every_word")' = AllRows("every_word")
  BY <1>1, <1>2 DEF AllRows, Places, Schemas, Catalog, Catalogs
<1>4. \A r : Kept(r)' <=> Kept(r)
  BY <1>1 DEF Kept
<1>5. Resumes(begin)'
  BY <1>1, <1>2, <1>3, <1>4 DEF Resumes
<1>6. QED
  BY <1>1, <1>2, <1>3, <1>5 DEF ChainSeam

LEMMA StepChain == IInv /\ Ordered /\ PassSeam /\ ChainSeam /\ [Next]_vars => ChainSeam'
<1> SUFFICES ASSUME IInv, Ordered, PassSeam, ChainSeam, [Next]_vars PROVE ChainSeam'
  OBVIOUS
<1>1. CASE Fill \/ FillFails \/ Filled \/ WalkAlone \/ Replay \/ Replayed \/ ReplayRaises \/ Leave
  <2>1. UNCHANGED <<world, mode, begin, reply>>
    BY <1>1 DEF Fill, FillFails, Queue, Filled, WalkAlone, Replay, Replayed, ReplayRaises, Leave, OnlyScan, fixed
  <2>2. main # "done" /\ main' # "done"
    BY <1>1 DEF Fill, FillFails, Filling, Filled, WalkAlone, Replay, Replayed, ReplayRaises, Leave
  <2>3. QED
    BY <2>1, <2>2, ChainStill
<1>2. CASE Answer
  BY <1>2, AnswerChain
<1>3. CASE EachWord
  BY <1>3, EachWordChain
<1>4. CASE Fail
  BY <1>4, FailChain
<1>5. CASE Resume
  BY <1>5, ResumeChain
<1>6. CASE \E c \in Catalogs : Walk(c)
  <2>1. UNCHANGED <<world, mode, begin, reply, main>>
    BY <1>6 DEF Walk, Begin, Ask, Answers, TimesOut, CallTimesOut, IsCancelled, Release, OnlyWalk, fixed
  <2>2. QED
    BY <2>1, ChainStill
<1>7. CASE TimePasses \/ OthersTake \/ OthersGive \/ UNCHANGED vars
  <2>1. UNCHANGED <<world, mode, begin, reply, main>>
    BY <1>7 DEF TimePasses, OthersTake, OthersGive, OnlyOthers, fixed, vars
  <2>2. QED
    BY <2>1, ChainStill
<1>8. QED
  BY <1>1, <1>2, <1>3, <1>4, <1>5, <1>6, <1>7 DEF Next, Main, Over

LEMMA InitChain == Init => ChainSeam
<1> SUFFICES ASSUME Init PROVE ChainSeam
  OBVIOUS
<1>1. /\ mode = "every_word" /\ begin = NoCursor /\ main = "fill" /\ next = NoCursor /\ ~complete
      /\ served = <<>> /\ gapped = {}
  BY DEF Init
<1>2. served \in Seq(Row) /\ Sorted(served)
  BY <1>1 DEF Sorted
<1>3. QED
  BY <1>1, <1>2 DEF ChainSeam

LEMMA SeamsHold == Spec => [](PassSeam /\ ChainSeam)
<1>1. Spec => []Ordered
  BY InitOrder, StepOrder, IInvHolds, PTL DEF Spec
<1>2. QED
  BY <1>1, InitSeam, StepSeam, InitChain, StepChain, IInvHolds, PTL DEF Spec

\* A chain of cursors gives every row once, or names the part of the scope it left out;
\* an answer says it is complete only when no call of the chain left anything out, and the
\* words are looked for alone only when nothing holds them together: whatever fails, is
\* slow or fills the page, and whichever catalogs were read at once (scan, walk, replay).
THEOREM ChainIsWholeHolds == Spec => []ChainIsWhole
<1>1. ChainSeam => ChainIsWhole
  <2>1. SUFFICES ASSUME ChainSeam PROVE ChainIsWhole
    OBVIOUS
  <2>2. IsInjective(served)
    BY <2>1, SortedCounts DEF ChainSeam
  <2>3. ASSUME main = "done", outcome = "answered", NEW r \in AllRows(mode)
        PROVE  IF Passed(r)
               THEN r \in Range(served) \/ <<r[1], r[2]>> \in gapped \/ <<r[1], 0>> \in gapped
               ELSE r \notin Range(served)
    <3>1. next = NoCursor => Kept(r)
      BY <2>1, <2>3 DEF ChainSeam
    <3>2. next # NoCursor => (UpTo(next.at, r) => Kept(r)) /\ (r \in Range(served) => UpTo(next.at, r))
      BY <2>1, <2>3 DEF ChainSeam, Resumes
    <3>3. QED
      BY <3>1, <3>2 DEF Passed, UpTo, Kept, Missed
  <2>4. EachRowOnce
    BY <2>2, <2>3 DEF EachRowOnce
  <2>5. QED
    BY <2>1, <2>4 DEF ChainIsWhole, CompleteMeansAll, PerWordAfterNothing, ChainSeam
<1>2. QED
  BY <1>1, SeamsHold, PTL

-----------------------------------------------------------------------------
(* What is computed step by step from 0 *)

LEMMA UpFromZero ==
  ASSUME NEW T, 0 \in T, \A n \in Nat : n \in T => n + 1 \in T
  PROVE  Nat \subseteq T
<1> DEFINE Under == {p \in Nat \X Nat : p[1] < p[2]}
           U == Nat \ T
<1>1. IsWellFoundedOn(Under, Nat)
  <2>1. OpToRel(<, Nat) = Under
    BY DEF OpToRel
  <2>2. QED
    BY <2>1, NatLessThanWellFounded
<1>2. SUFFICES ASSUME U # {} PROVE FALSE
  OBVIOUS
<1>3. PICK x \in U : \A y \in U : <<y, x>> \notin Under
  <2> HIDE DEF Under, U
  <2>1. U \subseteq Nat
    BY DEF U
  <2>2. QED
    BY <1>1, <1>2, <2>1, WFMin
<1>4. x \in Nat /\ x # 0 /\ x \notin T
  OBVIOUS
<1>5. x - 1 \in Nat /\ x - 1 < x /\ (x - 1) + 1 = x
  BY <1>4
<1>6. x - 1 \in T
  BY <1>3, <1>4, <1>5
<1>7. QED
  BY <1>4, <1>5, <1>6

\* Each value is made of the one before, from the k-th on.
Grown(h, n, k, base, F) == \A s \in 0..n : h[s] = IF s < k THEN base ELSE F[<<s, h[s - 1]>>]

LEMMA GrownExists ==
  ASSUME NEW n \in Nat, NEW k \in Nat \ {0}, NEW V, NEW base \in V, NEW F \in [(1..n) \X V -> V]
  PROVE  \E h \in [0..n -> V] : Grown(h, n, k, base, F)
<1> DEFINE Value(h, s) == IF s < k THEN base ELSE F[<<s, h[s - 1]>>]
           Right(h, m) == \A s \in 0..n : s <= m => h[s] = Value(h, s)
           T == {m \in Nat : \E h \in [0..n -> V] : Right(h, m)}
<1>1. 0 \in T
  <2> DEFINE h == [s \in 0..n |-> base]
  <2>1. h \in [0..n -> V]
    OBVIOUS
  <2>2. Right(h, 0)
    OBVIOUS
  <2>3. QED
    BY <2>1, <2>2
<1>2. ASSUME NEW m \in Nat, m \in T PROVE m + 1 \in T
  <2>1. PICK h \in [0..n -> V] : Right(h, m)
    BY <1>2
  <2> DEFINE g == [s \in 0..n |-> Value(h, s)]
  <2>2. g \in [0..n -> V]
    <3>1. ASSUME NEW s \in 0..n, ~(s < k) PROVE F[<<s, h[s - 1]>>] \in V
      <4>1. s \in 1..n /\ s - 1 \in 0..n
        BY <3>1
      <4>2. h[s - 1] \in V
        BY <4>1
      <4>3. QED
        BY <4>1, <4>2
    <3>2. QED
      BY <3>1
  <2>3. Right(g, m + 1)
    <3>1. ASSUME NEW s \in 0..n, s <= m + 1 PROVE g[s] = Value(g, s)
      <4>1. CASE s < k
        BY <4>1
      <4>2. CASE ~(s < k)
        <5>1. s - 1 \in 0..n /\ s - 1 <= m
          BY <3>1, <4>2
        <5>2. h[s - 1] = Value(h, s - 1)
          BY <2>1, <5>1
        <5>3. g[s - 1] = h[s - 1]
          BY <5>1, <5>2
        <5>4. g[s] = F[<<s, h[s - 1]>>]
          BY <4>2
        <5>5. QED
          BY <4>2, <5>3, <5>4
      <4>3. QED
        BY <4>1, <4>2
    <3> HIDE DEF g, Value
    <3>2. QED
      BY <3>1
  <2> HIDE DEF g, Right
  <2>4. QED
    BY <1>2, <2>2, <2>3
<1> HIDE DEF T
<1>3. n \in T
  BY <1>1, <1>2, UpFromZero
<1>4. PICK h \in [0..n -> V] : Right(h, n)
  BY <1>3 DEF T
<1>5. QED
  BY <1>4 DEF Grown

OnRange(h, n) == h = [s \in 0..n |-> h[s]]

LEMMA SameOnRange ==
  ASSUME NEW n \in Nat, NEW g, NEW h, OnRange(g, n), OnRange(h, n), g[0] = h[0],
         \A s \in 1..n : g[s - 1] = h[s - 1] => g[s] = h[s]
  PROVE  g = h
<1> DEFINE T == {m \in Nat : m \in 0..n => g[m] = h[m]}
<1>1. 0 \in T
  OBVIOUS
<1>2. ASSUME NEW m \in Nat, m \in T PROVE m + 1 \in T
  <2>1. CASE m + 1 \in 0..n
    <3>1. g[m] = h[m] /\ (m + 1) - 1 = m /\ m + 1 \in 1..n
      BY <1>2, <2>1
    <3>2. g[m + 1] = h[m + 1]
      BY <3>1
    <3>3. QED
      BY <3>2
  <2>2. QED
    BY <2>1
<1> HIDE DEF T
<1>3. Nat \subseteq T
  BY <1>1, <1>2, UpFromZero
<1>4. \A s \in 0..n : g[s] = h[s]
  BY <1>3 DEF T
<1>5. [s \in 0..n |-> g[s]] = [s \in 0..n |-> h[s]]
  BY <1>4
<1>6. QED
  BY <1>5 DEF OnRange

\* A function with these values is one of its range.
LEMMA RangeIs ==
  ASSUME NEW n \in Nat, NEW V, NEW h \in [0..n -> V]
  PROVE  OnRange(h, n)
  BY DEF OnRange

-----------------------------------------------------------------------------
(* The events of a walk, taken in order by a pass *)

Accs == {acc \in Part : Len(acc.rows) <= PageSize}

\* A pass that stopped takes nothing more.
Taken(acc, e) == IF Stopped(acc) THEN acc ELSE Take(acc, e)

Takings(f, q, from, to) ==
  /\ f \in [0..Len(q) -> Accs] /\ f[0] = from /\ f[Len(q)] = to
  /\ \A i \in 1..Len(q) : f[i] = Taken(f[i - 1], q[i])

Gives(q, from, to) == \E f : Takings(f, q, from, to)

LEMMA TakenFits ==
  ASSUME WorldTyped, NEW c \in Catalogs, NEW acc \in Accs, NEW e \in Event(c)
  PROVE  Taken(acc, e) \in Accs
  BY TakeFits DEF Taken, Fits, Accs

LEMMA GivesFits ==
  ASSUME NEW q, NEW from, NEW to, Len(q) \in Nat, Gives(q, from, to)
  PROVE  from \in Accs /\ to \in Accs
  BY DEF Gives, Takings

LEMMA GivesNone ==
  ASSUME NEW acc \in Accs
  PROVE  /\ Gives(<<>>, acc, acc)
         /\ \A to : Gives(<<>>, acc, to) => to = acc
<1>1. Takings([i \in 0..0 |-> acc], <<>>, acc, acc)
  BY DEF Takings
<1>2. QED
  BY <1>1 DEF Gives, Takings

LEMMA GivesMore ==
  ASSUME WorldTyped, NEW c \in Catalogs, NEW q \in Seq(Event(c)), NEW e \in Event(c), NEW from, NEW to,
         Gives(q, from, to)
  PROVE  Gives(Append(q, e), from, Taken(to, e))
<1>1. PICK f : Takings(f, q, from, to)
  BY DEF Gives
<1> DEFINE n == Len(q)
           g == [i \in 0..(n + 1) |-> IF i = n + 1 THEN Taken(to, e) ELSE f[i]]
<1>2. /\ n \in Nat /\ Len(Append(q, e)) = n + 1 /\ Append(q, e)[n + 1] = e
      /\ \A i \in 1..n : Append(q, e)[i] = q[i]
  OBVIOUS
<1>3. /\ f \in [0..n -> Accs] /\ f[0] = from /\ f[n] = to
      /\ \A i \in 1..n : f[i] = Taken(f[i - 1], q[i])
  BY <1>1 DEF Takings
<1>4. Taken(to, e) \in Accs
  BY <1>2, <1>3, TakenFits
<1> HIDE DEF n
<1>5. g \in [0..(n + 1) -> Accs] /\ g[0] = from /\ g[n + 1] = Taken(to, e)
  BY <1>2, <1>3, <1>4
<1>6. ASSUME NEW i \in 1..(n + 1) PROVE g[i] = Taken(g[i - 1], Append(q, e)[i])
  <2>1. CASE i = n + 1
    <3>1. g[i - 1] = to
      BY <1>2, <1>3, <2>1
    <3>2. QED
      BY <1>2, <1>5, <2>1, <3>1
  <2>2. CASE i \in 1..n
    <3>1. g[i] = f[i] /\ g[i - 1] = f[i - 1]
      BY <1>2, <2>2
    <3>2. QED
      BY <1>2, <1>3, <2>2, <3>1
  <2>3. QED
    BY <1>2, <2>1, <2>2
<1> HIDE DEF g
<1>7. QED
  BY <1>2, <1>5, <1>6 DEF Gives, Takings

LEMMA GivesTail ==
  ASSUME NEW c, NEW q \in Seq(Event(c)), q # <<>>, NEW from, NEW to, Gives(q, from, to)
  PROVE  Gives(Tail(q), Taken(from, Head(q)), to)
<1>1. PICK f : Takings(f, q, from, to)
  BY DEF Gives
<1> DEFINE n == Len(q)
           g == [i \in 0..(n - 1) |-> f[i + 1]]
<1>2. /\ n \in Nat \ {0} /\ Len(Tail(q)) = n - 1 /\ Head(q) = q[1]
      /\ \A i \in 1..(n - 1) : Tail(q)[i] = q[i + 1]
  OBVIOUS
<1>3. /\ f \in [0..n -> Accs] /\ f[0] = from /\ f[n] = to
      /\ \A i \in 1..n : f[i] = Taken(f[i - 1], q[i])
  BY <1>1 DEF Takings
<1> HIDE DEF n
<1>4. f[1] = Taken(from, Head(q))
  BY <1>2, <1>3
<1>5. g \in [0..(n - 1) -> Accs] /\ g[0] = Taken(from, Head(q)) /\ g[n - 1] = to
  BY <1>2, <1>3, <1>4
<1>6. ASSUME NEW i \in 1..(n - 1) PROVE g[i] = Taken(g[i - 1], Tail(q)[i])
  <2>1. /\ i + 1 \in 1..n /\ (i + 1) - 1 = i /\ (i - 1) + 1 = i
        /\ i \in 0..(n - 1) /\ i - 1 \in 0..(n - 1)
    BY <1>2
  <2>2. g[i] = f[i + 1] /\ g[i - 1] = f[i]
    BY <2>1
  <2>3. QED
    BY <1>2, <1>3, <2>1, <2>2
<1> HIDE DEF g
<1>7. QED
  BY <1>2, <1>5, <1>6 DEF Gives, Takings

LEMMA GivesStopped ==
  ASSUME NEW c, NEW q \in Seq(Event(c)), NEW from, NEW to, Gives(q, from, to), Stopped(from)
  PROVE  to = from
<1>1. PICK f : Takings(f, q, from, to)
  BY DEF Gives
<1> DEFINE T == {m \in Nat : m <= Len(q) => f[m] = from}
<1>2. Len(q) \in Nat
  OBVIOUS
<1>3. 0 \in T
  BY <1>1 DEF Takings
<1>4. ASSUME NEW m \in Nat, m \in T PROVE m + 1 \in T
  <2>1. CASE m + 1 <= Len(q)
    <3>1. m + 1 \in 1..Len(q) /\ (m + 1) - 1 = m /\ f[m] = from
      BY <1>2, <1>4, <2>1
    <3>2. f[m + 1] = Taken(f[m], q[m + 1])
      BY <1>1, <3>1 DEF Takings
    <3>3. QED
      BY <3>1, <3>2 DEF Taken
  <2>2. QED
    BY <2>1
<1> HIDE DEF T
<1>5. Len(q) \in T
  BY <1>2, <1>3, <1>4, UpFromZero
<1>6. QED
  BY <1>1, <1>2, <1>5 DEF T, Takings

-----------------------------------------------------------------------------
(* A statement asked in its turn finds what the events of a walk tell of it *)

LEMMA KindType ==
  ASSUME WorldTyped, NEW c \in Catalogs, NEW s \in 1..Len(Schemas(c)), NEW ph \in Phases
  PROVE  Schemas(c)[s].kind[ph] \in Kinds
<1>1. Schemas(c)[s] \in SchemaRecord
  BY SchemasType
<1>2. Schemas(c)[s].kind \in Kinds \X Kinds
  BY <1>1 DEF SchemaRecord
<1>3. QED
  BY <1>2 DEF Phases, Tables, Columns

\* A place is not the absence of a stop.
LEMMA PlaceStops ==
  ASSUME NEW c \in Catalogs, NEW at \in At
  PROVE  Spot(c, at) # NoStop /\ Spot(c, at) \in Place
<1>1. c \in Nat /\ at[1] \in Nat /\ at[2] \in Nat /\ at[2] \in Phases /\ at[3] \in Nat
  BY DEF Catalogs, At, Phases, Tables, Columns
<1>2. <<c, at[1], at[2], at[3]>> \in Nat \X Nat \X Nat \X Nat
  BY <1>1
<1>3. QED
  BY <1>1, <1>2, SentinelAssumption DEF Spot, Place

\* A point stops a pass that has no room, and no other.
LEMMA TakePoint ==
  ASSUME NEW c \in Catalogs, NEW at \in At, NEW kind \in {"open", "before"},
         NEW acc \in Accs, ~Stopped(acc)
  PROVE  /\ Len(acc.rows) >= PageSize => /\ Take(acc, Point(kind, c, at)) = [acc EXCEPT !.stop = Spot(c, at)]
                                         /\ Stopped([acc EXCEPT !.stop = Spot(c, at)])
         /\ ~(Len(acc.rows) >= PageSize) => Take(acc, Point(kind, c, at)) = acc
<1> DEFINE e == Point(kind, c, at)
<1>1. e.kind \in {"open", "before"} /\ e.at = Spot(c, at)
  BY DEF Point, Spot
<1>2. Len(acc.rows) \in Nat /\ PageSize \in Nat /\ acc \in Part
  BY SearchAssumption DEF Accs, Part
<1> HIDE DEF e
<1>3. Take(acc, e) = IF PageSize - Len(acc.rows) <= 0 THEN [acc EXCEPT !.stop = Spot(c, at)] ELSE acc
  BY <1>1 DEF Take
<1>4. [acc EXCEPT !.stop = Spot(c, at)].stop = Spot(c, at)
  BY <1>2 DEF Part
<1>5. Stopped([acc EXCEPT !.stop = Spot(c, at)])
  BY <1>4, PlaceStops DEF Stopped
<1>6. QED
  BY <1>2, <1>3, <1>5 DEF e

LEMMA PartNoRoom ==
  ASSUME NEW c \in Catalogs, NEW at \in At, NEW acc \in Accs, ~Stopped(acc), Len(acc.rows) >= PageSize
  PROVE  AskPart(acc, Spot(c, at)) = [acc EXCEPT !.stop = Spot(c, at)]
<1>1. PageSize - Len(acc.rows) <= 0
  BY SearchAssumption DEF Accs, Part
<1>2. QED
  BY <1>1 DEF AskPart

LEMMA PartUnread ==
  ASSUME NEW c \in Catalogs, NEW at \in At, NEW acc \in Accs, ~Stopped(acc), ~(Len(acc.rows) >= PageSize)
  PROVE  LET kind == Schemas(c)[at[1]].kind[at[2]]
         IN  /\ kind = "refused" => AskPart(acc, Spot(c, at)) = Take(acc, Sign("error"))
             /\ kind \in {"fails", "slow"} => AskPart(acc, Spot(c, at)) = Take(acc, Gap(c, at[1]))
<1>1. ~(PageSize - Len(acc.rows) <= 0)
  BY SearchAssumption DEF Accs, Part
<1>2. Spot(c, at)[1] = c /\ Spot(c, at)[2] = at[1] /\ Spot(c, at)[3] = at[2]
  BY DEF Spot
<1>3. Take(acc, Sign("error")) = [acc EXCEPT !.error = TRUE]
  BY DEF Take, Sign
<1>4. Take(acc, Gap(c, at[1])) = [acc EXCEPT !.gaps = @ \cup {<<c, at[1]>>}]
  BY DEF Take, Gap
<1>5. QED
  BY <1>1, <1>2, <1>3, <1>4 DEF AskPart

\* A walk that found no more rows than the pass has read as many as there is room for.
ReadAlike(acc, c, at, used) ==
  LET left == Total(c, at[1], at[2]) - at[3]
      room == PageSize - used
      n    == IF left <= 0 THEN 0 ELSE Least(left, room)
      read == Take(acc, Found(c, at, n, left > room))
  IN  /\ AskPart(acc, Spot(c, at)) =
           IF ~Stopped(read) /\ at[2] = Columns THEN Take(read, Sign("searched")) ELSE read
      /\ left > room => Stopped(read)
      /\ ~Stopped(read) => used + n <= Len(read.rows)
      /\ n \in Nat

LEMMA PartRead ==
  ASSUME WorldTyped, NEW c \in Catalogs, NEW at \in At, NEW acc \in Accs, ~Stopped(acc),
         ~(Len(acc.rows) >= PageSize), NEW used \in Nat, used <= Len(acc.rows),
         at[1] \in 1..Len(Schemas(c)), Schemas(c)[at[1]].kind[at[2]] = "ok"
  PROVE  ReadAlike(acc, c, at, used)
<1> DEFINE u    == Spot(c, at)
           left == Total(c, at[1], at[2]) - at[3]
           room == PageSize - used
           n    == IF left <= 0 THEN 0 ELSE Least(left, room)
           e    == Found(c, at, n, left > room)
           r    == PageSize - Len(acc.rows)
           k    == IF left <= 0 THEN 0 ELSE Least(left, r)
           stop == [u EXCEPT ![4] = @ + k]
           gain == IF left <= r /\ at[2] = Columns THEN 1 ELSE 0
           more == Rows(u, k)
           read == Take(acc, e)
<1>1. /\ u[1] = c /\ u[2] = at[1] /\ u[3] = at[2] /\ u[4] = at[3]
      /\ at[3] \in Nat /\ at[2] \in Phases /\ c \in Nat /\ at[1] \in Nat
  BY DEF Spot, At, Catalogs
<1>2. left \in Int
  BY <1>1, TotalType
<1>3. /\ acc \in Part /\ Len(acc.rows) \in Nat /\ PageSize \in Nat /\ acc.rows \in Seq(Row)
      /\ acc.searched \in Nat /\ ~acc.error /\ acc.stop = NoStop
  BY SearchAssumption DEF Accs, Part, Stopped
<1>4. r \in Nat \ {0} /\ room \in Nat /\ r <= room /\ used + r <= PageSize
  BY <1>3
<1>5. /\ n \in Nat /\ k \in Nat /\ Least(n, r) = k
      /\ left > room \/ n > r <=> left > r
      /\ ~(left > r) => k = n
  <2> HIDE DEF left, room, r
  <2>1. QED
    BY <1>2, <1>4 DEF Least
<1>6. /\ e.kind = "rows" /\ e.at = u /\ e.n = n /\ e.more = (left > room)
  BY DEF Found, Spot
<1> HIDE DEF e
<1>7. read = [acc EXCEPT !.rows = @ \o more, !.stop = IF left > r THEN stop ELSE @]
  <2>1. read = TakeRows(acc, e, r)
    BY <1>6 DEF Take
  <2> HIDE DEF read, n, k, left, room, r
  <2>2. QED
    BY <1>5, <1>6, <2>1 DEF TakeRows
<1>8. AskPart(acc, u) = [acc EXCEPT !.rows = @ \o more, !.stop = IF left > r THEN stop ELSE @, !.searched = @ + gain]
  <2>1. ~(PageSize - Len(acc.rows) <= 0)
    BY <1>3
  <2>2. QED
    BY <1>1, <2>1 DEF AskPart
<1>9. stop # NoStop
  <2>1. stop = Spot(c, <<at[1], at[2], at[3] + k>>)
    <3> HIDE DEF k
    <3>1. QED
      BY <1>1 DEF Spot
  <2>2. <<at[1], at[2], at[3] + k>> \in At
    <3> HIDE DEF k
    <3>1. QED
      BY <1>1, <1>5 DEF At
  <2>3. QED
    BY <2>1, <2>2, PlaceStops
<1> HIDE DEF read, stop, u
<1>10. more \in Seq(Row) /\ Len(more) = k
  <2> HIDE DEF k
  <2>1. ASSUME NEW i \in 1..k PROVE <<u[1], u[2], u[3], u[4] + i>> \in Row
    <3>1. u[1] \in Nat /\ u[2] \in Nat /\ u[3] \in Phases /\ u[4] \in Nat /\ i \in Nat
      BY <1>1, <1>5
    <3>2. u[4] + i \in Nat
      BY <3>1
    <3>3. QED
      BY <3>1, <3>2 DEF Row
  <2>2. QED
    BY <1>5, <2>1 DEF Rows
<1>0. left \in Int /\ r \in Int
  BY <1>2, <1>4
<1> HIDE DEF n, k, left, room, r, more
<1>11. /\ acc = [rows |-> acc.rows, gaps |-> acc.gaps, searched |-> acc.searched, stop |-> acc.stop, error |-> acc.error]
       /\ gain = IF left > r \/ at[2] # Columns THEN 0 ELSE 1
  BY <1>0, <1>3 DEF Part
<1> DEFINE past == IF left > r THEN stop ELSE NoStop
           rows == acc.rows \o more
<1>11a. Len(rows) = Len(acc.rows) + k
  <2>1. \A p, q \in Seq(Row) : Len(p \o q) = Len(p) + Len(q)
    OBVIOUS
  <2>2. QED
    BY <1>3, <1>10, <2>1
<1>11b. /\ read = [acc EXCEPT !.rows = rows, !.stop = past]
        /\ AskPart(acc, u) = [acc EXCEPT !.rows = rows, !.stop = past, !.searched = @ + gain]
  BY <1>3, <1>7, <1>8
<1>11c. past = NoStop <=> ~(left > r)
  BY <1>9
<1> HIDE DEF gain, past, rows
<1>12. /\ read = [rows |-> rows, gaps |-> acc.gaps, searched |-> acc.searched, stop |-> past, error |-> acc.error]
       /\ AskPart(acc, u) = [rows |-> rows, gaps |-> acc.gaps, searched |-> acc.searched + gain,
                             stop |-> past, error |-> acc.error]
  BY <1>11, <1>11b
<1>13. (Stopped(read) <=> left > r) /\ Len(read.rows) = Len(acc.rows) + k
  BY <1>3, <1>11a, <1>11c, <1>12 DEF Stopped
<1>14. AskPart(acc, u) = IF ~Stopped(read) /\ at[2] = Columns THEN Take(read, Sign("searched")) ELSE read
  <2>1. Take(read, Sign("searched")) = [read EXCEPT !.searched = @ + 1]
    BY DEF Take, Sign
  <2>2. acc.searched + 0 = acc.searched
    BY <1>3
  <2>3. CASE left > r \/ at[2] # Columns
    <3>1. gain = 0 /\ AskPart(acc, u) = read
      BY <1>11, <1>12, <2>2, <2>3
    <3>2. QED
      BY <1>13, <2>3, <3>1
  <2>4. CASE ~(left > r) /\ at[2] = Columns
    <3>1. gain = 1 /\ AskPart(acc, u) = [read EXCEPT !.searched = @ + 1]
      BY <1>11, <1>12, <2>4
    <3>2. QED
      BY <1>13, <2>1, <2>4, <3>1
  <2>5. QED
    BY <2>3, <2>4
<1>15. left > room => Stopped(read)
  BY <1>5, <1>13
<1>16. ~Stopped(read) => used + n <= Len(read.rows)
  BY <1>3, <1>5, <1>13
<1>17. QED
  BY <1>5, <1>14, <1>15, <1>16 DEF read, e, u, n, left, room, ReadAlike

-----------------------------------------------------------------------------
(* What one catalog at a time answers *)

LEMMA AskPartFits ==
  ASSUME WorldTyped, NEW c \in Catalogs, NEW acc \in Accs, NEW s \in 1..Len(Schemas(c)),
         NEW ph \in Phases, NEW o \in Nat
  PROVE  AskPart(acc, <<c, s, ph, o>>) \in Accs
<1> DEFINE at == <<s, ph, o>>
           u  == <<c, s, ph, o>>
<1>1. at \in At /\ Spot(c, at) = u /\ at[1] = s /\ at[2] = ph /\ at[3] = o
  BY SchemasType DEF At, Spot
<1>2. CASE Stopped(acc)
  BY <1>2 DEF AskPart
<1>3. CASE ~Stopped(acc) /\ Len(acc.rows) >= PageSize
  <2>1. AskPart(acc, u) = Take(acc, Point("before", c, at))
    <3> HIDE DEF at
    <3>1. Take(acc, Point("before", c, at)) = [acc EXCEPT !.stop = Spot(c, at)]
      BY <1>1, <1>3, TakePoint
    <3>2. QED
      BY <1>1, <1>3, <3>1, PartNoRoom
  <2>2. Point("before", c, at) \in Event(c)
    BY <1>1, PointEvent
  <2>3. QED
    BY <2>1, <2>2, TakeFits DEF Accs, Fits
<1>4. CASE ~Stopped(acc) /\ ~(Len(acc.rows) >= PageSize)
  <2> DEFINE kind == Schemas(c)[s].kind[ph]
  <2>1. kind \in Kinds
    BY KindType
  <2>2. CASE kind = "refused"
    <3>1. AskPart(acc, u) = Take(acc, Sign("error"))
      BY <1>1, <1>4, <2>2, PartUnread
    <3>2. Sign("error") \in Event(c)
      BY SignEvent
    <3>3. QED
      BY <3>1, <3>2, TakeFits DEF Accs, Fits
  <2>3. CASE kind \in {"fails", "slow"}
    <3>1. AskPart(acc, u) = Take(acc, Gap(c, s))
      BY <1>1, <1>4, <2>3, PartUnread
    <3>2. Gap(c, s) \in Event(c)
      BY GapEvent, SchemasType
    <3>3. QED
      BY <3>1, <3>2, TakeFits DEF Accs, Fits
  <2>4. CASE kind = "ok"
    <3> DEFINE left == Total(c, s, ph) - o
               n    == IF left <= 0 THEN 0 ELSE Least(left, PageSize - 0)
               e    == Found(c, at, n, left > PageSize - 0)
               read == Take(acc, e)
    <3>1. 0 <= Len(acc.rows)
      BY DEF Accs, Part
    <3>2. /\ AskPart(acc, u) = (IF ~Stopped(read) /\ ph = Columns THEN Take(read, Sign("searched")) ELSE read)
          /\ n \in Nat
      <4> HIDE DEF at
      <4>1. ReadAlike(acc, c, at, 0)
        BY <1>1, <1>4, <2>4, <3>1, PartRead
      <4>2. QED
        BY <1>1, <4>1 DEF ReadAlike
    <3>3. e \in Event(c)
      <4>1. u \in PlaceOf(c) /\ <<c, at[1], at[2], at[3]>> = u
        BY <1>1, SchemasType DEF PlaceOf
      <4>2. (left > PageSize - 0) \in BOOLEAN
        OBVIOUS
      <4> HIDE DEF n, left
      <4>3. QED
        BY <3>2, <4>1, <4>2 DEF Found, Event
    <3> HIDE DEF e
    <3>4. read \in Accs
      BY <3>3, TakeFits DEF Accs, Fits
    <3> HIDE DEF read
    <3>5. Take(read, Sign("searched")) \in Accs
      BY <3>4, SignEvent, TakeFits DEF Accs, Fits
    <3>6. QED
      BY <3>2, <3>4, <3>5
  <2>5. QED
    BY <2>1, <2>2, <2>3, <2>4 DEF Kinds, Listings
<1>5. QED
  BY <1>2, <1>3, <1>4

LEMMA PartStopped ==
  ASSUME NEW acc, NEW u, Stopped(acc)
  PROVE  AskPart(acc, u) = acc
  BY DEF AskPart

LEMMA OffsetType ==
  ASSUME WorldTyped, NEW c \in Catalogs
  PROVE  /\ \A s, ph : Offset(c, s, ph) \in Nat
         /\ First(c) \in Nat \ {0}
<1>1. Entry(c)[1] \in Nat /\ Entry(c)[3] \in Nat
  BY EntryType DEF At
<1>2. QED
  BY <1>1 DEF Offset, First

LEMMA AskSchemaFits ==
  ASSUME WorldTyped, NEW c \in Catalogs, NEW acc \in Accs, NEW s \in 1..Len(Schemas(c))
  PROVE  /\ AskTables(acc, c, s) \in Accs
         /\ AskSchema(acc, c, s) \in Accs
         /\ Stopped(acc) => AskTables(acc, c, s) = acc /\ AskSchema(acc, c, s) = acc
<1>1. AskTables(acc, c, s) \in Accs
  BY OffsetType, AskPartFits DEF AskTables, Phases
<1>2. AskSchema(acc, c, s) \in Accs
  <2> DEFINE tables == AskTables(acc, c, s)
  <2>1. tables \in Accs
    BY <1>1
  <2> HIDE DEF tables
  <2>2. AskPart(tables, <<c, s, Columns, Offset(c, s, Columns)>>) \in Accs
    BY <2>1, OffsetType, AskPartFits DEF Phases
  <2>3. QED
    BY <2>1, <2>2 DEF AskSchema, tables
<1>3. ASSUME Stopped(acc)
      PROVE  AskTables(acc, c, s) = acc /\ AskSchema(acc, c, s) = acc
  BY <1>3, PartStopped DEF AskTables, AskSchema
<1>4. QED
  BY <1>1, <1>2, <1>3

\* The schemas of a catalog, one after another.
BySchemas(h, acc, c) ==
  /\ h \in [0..Len(Schemas(c)) -> Accs]
  /\ \A s \in 0..Len(Schemas(c)) : h[s] = IF s < First(c) THEN acc ELSE AskSchema(h[s - 1], c, s)

LEMMA SchemasUpToIs ==
  ASSUME WorldTyped, NEW c \in Catalogs, NEW acc \in Accs
  PROVE  BySchemas(SchemasUpTo(acc, c), acc, c)
<1> DEFINE n == Len(Schemas(c))
           k == First(c)
           F == [p \in (1..n) \X Accs |-> AskSchema(p[2], c, p[1])]
<1>1. n \in Nat /\ k \in Nat \ {0}
  BY SchemasType, OffsetType
<1>2. F \in [(1..n) \X Accs -> Accs]
  BY AskSchemaFits
<1>3. \E h \in [0..n -> Accs] : Grown(h, n, k, acc, F)
  <2> HIDE DEF n, k, F
  <2>1. QED
    BY <1>1, <1>2, GrownExists
<1>4. PICK h \in [0..n -> Accs] : Grown(h, n, k, acc, F)
  BY <1>3
<1>5. \A s \in 0..n : h[s] = IF s < k THEN acc ELSE AskSchema(h[s - 1], c, s)
  <2>1. ASSUME NEW s \in 0..n, ~(s < k) PROVE F[<<s, h[s - 1]>>] = AskSchema(h[s - 1], c, s)
    <3>1. s \in 1..n /\ s - 1 \in 0..n
      BY <1>1, <2>1
    <3>2. h[s - 1] \in Accs
      BY <3>1
    <3>3. QED
      BY <3>1, <3>2
  <2> HIDE DEF n, k, F
  <2>2. QED
    BY <1>4, <2>1 DEF Grown
<1>6. h = [s \in 0..n |-> IF s < k THEN acc ELSE AskSchema(h[s - 1], c, s)]
  <2> HIDE DEF n, k
  <2>1. QED
    BY <1>5
<1>7. LET g == SchemasUpTo(acc, c)
      IN  g = [s \in 0..n |-> IF s < k THEN acc ELSE AskSchema(g[s - 1], c, s)]
  BY <1>6 DEF SchemasUpTo
<1> DEFINE g == SchemasUpTo(acc, c)
<1>8. \A s \in 0..n : g[s] = IF s < k THEN acc ELSE AskSchema(g[s - 1], c, s)
  <2> HIDE DEF n, k, g
  <2>1. QED
    BY <1>7 DEF g
<1>9. OnRange(g, n)
  <2> DEFINE f == [s \in 0..n |-> IF s < k THEN acc ELSE AskSchema(g[s - 1], c, s)]
  <2>1. g = f
    BY <1>7
  <2>2. f = [s \in 0..n |-> f[s]]
    OBVIOUS
  <2> HIDE DEF f, g, n, k
  <2>3. QED
    BY <2>1, <2>2 DEF OnRange
<1>10. g = h
  <2> HIDE DEF n, k, g
  <2>1. OnRange(h, n)
    BY <1>1, RangeIs
  <2>2. g[0] = h[0]
    BY <1>1, <1>5, <1>8
  <2>3. ASSUME NEW s \in 1..n, g[s - 1] = h[s - 1] PROVE g[s] = h[s]
    BY <1>1, <1>5, <1>8, <2>3
  <2>4. QED
    BY <1>1, <1>9, <2>1, <2>2, <2>3, SameOnRange
<1>11. QED
  BY <1>4, <1>5, <1>10 DEF BySchemas

\* A pass that stopped in a schema stops there.
LEMMA SchemasStop ==
  ASSUME WorldTyped, NEW c \in Catalogs, NEW acc \in Accs, NEW s \in 0..Len(Schemas(c)),
         Stopped(SchemasUpTo(acc, c)[s])
  PROVE  SchemasUpTo(acc, c)[Len(Schemas(c))] = SchemasUpTo(acc, c)[s]
<1> DEFINE n == Len(Schemas(c))
           g == SchemasUpTo(acc, c)
           T == {m \in Nat : s + m <= n => g[s + m] = g[s]}
<1>1. BySchemas(g, acc, c) /\ n \in Nat /\ First(c) \in Nat \ {0}
  BY SchemasUpToIs, SchemasType, OffsetType
<1>2. /\ g \in [0..n -> Accs]
      /\ \A i \in 0..n : g[i] = IF i < First(c) THEN acc ELSE AskSchema(g[i - 1], c, i)
  BY <1>1 DEF BySchemas
<1>3. Stopped(g[s])
  OBVIOUS
<1> HIDE DEF g
<1>4. 0 \in T
  BY <1>1
<1>5. ASSUME NEW m \in Nat, m \in T PROVE m + 1 \in T
  <2> DEFINE i == s + (m + 1)
  <2>1. CASE i <= n
    <3>1. i \in 1..n /\ i - 1 = s + m /\ i - 1 \in 0..n /\ i \in 0..n
      BY <1>1, <2>1
    <3>2. g[i - 1] = g[s]
      BY <1>5, <3>1
    <3>3. CASE i < First(c)
      <4>1. s < First(c)
        BY <1>1, <3>3
      <4>2. QED
        BY <1>2, <3>1, <3>3, <4>1
    <3>4. CASE ~(i < First(c))
      <4>1. g[i] = AskSchema(g[i - 1], c, i)
        BY <1>2, <3>1, <3>4
      <4>2. g[i - 1] \in Accs /\ Stopped(g[i - 1])
        BY <1>2, <1>3, <3>1, <3>2
      <4>3. AskSchema(g[i - 1], c, i) = g[i - 1]
        BY <3>1, <4>2, AskSchemaFits
      <4>4. QED
        BY <3>2, <4>1, <4>3
    <3>5. QED
      BY <3>3, <3>4
  <2>2. QED
    BY <2>1
<1> HIDE DEF T
<1>6. Nat \subseteq T
  BY <1>4, <1>5, UpFromZero
<1>7. n - s \in T /\ s + (n - s) = n
  BY <1>1, <1>6
<1>8. QED
  BY <1>1, <1>7 DEF T, g

\* Nothing is asked of a catalog once the pass stopped, and what is asked of one fits.
LEMMA AskCatalogFits ==
  ASSUME WorldTyped, NEW c \in Catalogs, NEW acc \in Accs
  PROVE  /\ AskCatalog(acc, c) \in Accs
         /\ Stopped(acc) => AskCatalog(acc, c) = acc
<1>1. SchemasUpTo(acc, c)[Len(Schemas(c))] \in Accs
  BY SchemasUpToIs, SchemasType DEF BySchemas
<1>2. c \in Nat /\ acc \in Part /\ <<c, 0>> \in Nat \X Nat
  BY DEF Catalogs, Accs
<1>3. [acc EXCEPT !.gaps = @ \cup {<<c, 0>>}] \in Accs
  <2> DEFINE new == [acc EXCEPT !.gaps = @ \cup {<<c, 0>>}]
  <2>1. new \in Part /\ new.rows = acc.rows
    BY <1>2 DEF Part
  <2> HIDE DEF new
  <2>2. new \in Accs
    BY <2>1 DEF Accs
  <2>3. QED
    BY <2>2 DEF new
<1>4. <<c, Entry(c)[1], Entry(c)[2], Entry(c)[3]>> = Spot(c, Entry(c)) /\ Spot(c, Entry(c)) \in Place
  <2>1. Entry(c) \in At
    BY EntryType
  <2>2. QED
    BY <2>1, PlaceStops DEF Spot
<1>5. [acc EXCEPT !.stop = Spot(c, Entry(c))] \in Accs
  <2> DEFINE new == [acc EXCEPT !.stop = Spot(c, Entry(c))]
  <2>1. new \in Part /\ new.rows = acc.rows
    BY <1>2, <1>4 DEF Part
  <2> HIDE DEF new
  <2>2. new \in Accs
    BY <2>1 DEF Accs
  <2>3. QED
    BY <2>2 DEF new
<1>6. QED
  BY <1>1, <1>3, <1>4, <1>5 DEF AskCatalog

\* The catalogs, one after another.
ByCatalogs(h) ==
  /\ h \in [0..Len(world.catalogs) -> Accs]
  /\ \A c \in 0..Len(world.catalogs) :
       h[c] = IF c < FirstOf(begin) THEN Nothing ELSE AskCatalog(h[c - 1], c)

LEMMA WorldNumbers ==
  ASSUME WorldTyped
  PROVE  /\ Len(world.catalogs) \in Nat /\ Catalogs = 1..Len(world.catalogs)
         /\ FirstOf(begin) \in Nat \ {0}
<1>1. Len(world.catalogs) \in Nat
  BY DEF WorldTyped, World
<1>2. Catalogs = 1..Len(world.catalogs)
  BY DEF Catalogs
<1>3. begin # NoCursor => begin.at[1] \in Catalogs
  BY DEF WorldTyped, Cursor, Place
<1>4. QED
  BY <1>1, <1>2, <1>3 DEF FirstOf

LEMMA CatalogsUpToIs ==
  ASSUME WorldTyped
  PROVE  ByCatalogs(CatalogsUpTo)
<1> DEFINE n == Len(world.catalogs)
           k == FirstOf(begin)
           F == [p \in (1..n) \X Accs |-> AskCatalog(p[2], p[1])]
           g == CatalogsUpTo
<1>1. n \in Nat /\ k \in Nat \ {0} /\ Catalogs = 1..n /\ Nothing \in Accs
  BY WorldNumbers, NothingFits DEF Fits, Accs
<1>2. F \in [(1..n) \X Accs -> Accs]
  BY <1>1, AskCatalogFits
<1>3. \E h \in [0..n -> Accs] : Grown(h, n, k, Nothing, F)
  <2> HIDE DEF n, k, F
  <2>1. QED
    BY <1>1, <1>2, GrownExists
<1>4. PICK h \in [0..n -> Accs] : Grown(h, n, k, Nothing, F)
  BY <1>3
<1>5. \A c \in 0..n : h[c] = IF c < k THEN Nothing ELSE AskCatalog(h[c - 1], c)
  <2>1. ASSUME NEW c \in 0..n, ~(c < k) PROVE F[<<c, h[c - 1]>>] = AskCatalog(h[c - 1], c)
    <3>1. c \in 1..n /\ c - 1 \in 0..n
      BY <1>1, <2>1
    <3>2. h[c - 1] \in Accs
      BY <3>1
    <3>3. QED
      BY <3>1, <3>2
  <2> HIDE DEF n, k, F
  <2>2. QED
    BY <1>4, <2>1 DEF Grown
<1>6. h = [c \in 0..n |-> IF c < k THEN Nothing ELSE AskCatalog(h[c - 1], c)]
  <2> HIDE DEF n, k
  <2>1. QED
    BY <1>5
<1>7. g = [c \in 0..n |-> IF c < k THEN Nothing ELSE AskCatalog(g[c - 1], c)]
  BY <1>6 DEF CatalogsUpTo
<1>8. \A c \in 0..n : g[c] = IF c < k THEN Nothing ELSE AskCatalog(g[c - 1], c)
  <2> HIDE DEF n, k, g
  <2>1. QED
    BY <1>7 DEF g
<1>9. OnRange(g, n)
  <2> DEFINE f == [c \in 0..n |-> IF c < k THEN Nothing ELSE AskCatalog(g[c - 1], c)]
  <2>1. g = f
    BY <1>7
  <2>2. f = [c \in 0..n |-> f[c]]
    OBVIOUS
  <2> HIDE DEF f, g, n, k
  <2>3. QED
    BY <2>1, <2>2 DEF OnRange
<1>10. g = h
  <2> HIDE DEF n, k, g
  <2>1. OnRange(h, n)
    BY <1>1, RangeIs
  <2>2. g[0] = h[0]
    BY <1>1, <1>5, <1>8
  <2>3. ASSUME NEW c \in 1..n, g[c - 1] = h[c - 1] PROVE g[c] = h[c]
    BY <1>1, <1>5, <1>8, <2>3
  <2>4. QED
    BY <1>1, <1>9, <2>1, <2>2, <2>3, SameOnRange
<1>11. QED
  BY <1>4, <1>5, <1>10 DEF ByCatalogs

\* A pass that stopped in a catalog answers what it found there.
LEMMA CatalogsStop ==
  ASSUME WorldTyped, NEW c \in 0..Len(world.catalogs), Stopped(CatalogsUpTo[c])
  PROVE  OneAtATime = CatalogsUpTo[c]
<1> DEFINE n == Len(world.catalogs)
           g == CatalogsUpTo
           T == {m \in Nat : c + m <= n => g[c + m] = g[c]}
<1>1. ByCatalogs(g) /\ n \in Nat /\ FirstOf(begin) \in Nat \ {0} /\ Catalogs = 1..n
  BY CatalogsUpToIs, WorldNumbers
<1>2. /\ g \in [0..n -> Accs]
      /\ \A i \in 0..n : g[i] = IF i < FirstOf(begin) THEN Nothing ELSE AskCatalog(g[i - 1], i)
  BY <1>1 DEF ByCatalogs
<1>3. Stopped(g[c])
  OBVIOUS
<1> HIDE DEF g
<1>4. 0 \in T
  BY <1>1
<1>5. ASSUME NEW m \in Nat, m \in T PROVE m + 1 \in T
  <2> DEFINE i == c + (m + 1)
  <2>1. CASE i <= n
    <3>1. i \in 1..n /\ i - 1 = c + m /\ i - 1 \in 0..n /\ i \in 0..n
      BY <1>1, <2>1
    <3>2. g[i - 1] = g[c]
      BY <1>5, <3>1
    <3>3. CASE i < FirstOf(begin)
      <4>1. c < FirstOf(begin)
        BY <1>1, <3>3
      <4>2. QED
        BY <1>2, <3>1, <3>3, <4>1
    <3>4. CASE ~(i < FirstOf(begin))
      <4>1. g[i] = AskCatalog(g[i - 1], i)
        BY <1>2, <3>1, <3>4
      <4>2. g[i - 1] \in Accs /\ Stopped(g[i - 1])
        BY <1>2, <1>3, <3>1, <3>2
      <4>3. AskCatalog(g[i - 1], i) = g[i - 1]
        BY <1>1, <3>1, <4>2, AskCatalogFits
      <4>4. QED
        BY <3>2, <4>1, <4>3
    <3>5. QED
      BY <3>3, <3>4
  <2>2. QED
    BY <2>1
<1> HIDE DEF T
<1>6. Nat \subseteq T
  BY <1>4, <1>5, UpFromZero
<1>7. n - c \in T /\ c + (n - c) = n
  BY <1>1, <1>6
<1>8. QED
  BY <1>1, <1>7 DEF T, g, OneAtATime

-----------------------------------------------------------------------------
(* Where a walk stands, and what was found before *)

\* The schemas of the catalog are searched.
Opens(acc, c) ==
  /\ acc \in Accs /\ ~Stopped(acc)
  /\ Catalog(c).kind # "badname"
  /\ world.named \/ (Len(acc.rows) < PageSize /\ Catalog(c).kind = "ok")

\* What was found before a statement on a schema.
Asked(F, acc, c, at) ==
  /\ at[1] \in First(c)..Len(Schemas(c)) /\ at[3] = Offset(c, at[1], at[2])
  /\ \/ /\ at[2] = Tables /\ ~BeginsAt(c, at[1], Columns)
        /\ F = SchemasUpTo(acc, c)[at[1] - 1]
     \/ /\ at[2] = Columns /\ ~NoColumns(c, at[1])
        /\ F = AskTables(SchemasUpTo(acc, c)[at[1] - 1], c, at[1])

\* What was found when a walk comes to a schema, or past the last.
Due(F, acc, c, at) ==
  IF at[1] > Len(Schemas(c)) THEN F = AskCatalog(acc, c) ELSE Asked(F, acc, c, at)

Begins(c) == IF Entry(c)[1] = 0 THEN <<1, Tables, 0>> ELSE Entry(c)

LEMMA CatalogOpens ==
  ASSUME WorldTyped, NEW c \in Catalogs, NEW acc, Opens(acc, c)
  PROVE  AskCatalog(acc, c) = SchemasUpTo(acc, c)[Len(Schemas(c))]
<1>1. Len(acc.rows) \in Nat /\ PageSize \in Nat
  BY SearchAssumption DEF Opens, Accs, Part
<1>2. Len(acc.rows) < PageSize => ~(PageSize - Len(acc.rows) <= 0)
  BY <1>1
<1>3. QED
  BY <1>2 DEF AskCatalog, Opens

\* Nothing is found yet where a catalog begins.
LEMMA DueFirst ==
  ASSUME WorldTyped, NEW c \in Catalogs, NEW acc, Opens(acc, c)
  PROVE  Due(acc, acc, c, Begins(c)) /\ Begins(c) \in At /\ Begins(c)[1] \in Nat \ {0}
<1> DEFINE at == Begins(c)
           s  == at[1]
           n  == Len(Schemas(c))
           g  == SchemasUpTo(acc, c)
<1>1. Entry(c) \in At /\ <<1, Tables, 0>> \in At
  BY EntryType DEF At, Phases
<1>2. at \in At /\ s = First(c) /\ s \in Nat \ {0} /\ n \in Nat
  BY <1>1, SchemasType DEF Begins, First, At
<1>3. \A i \in 0..n : i < First(c) => g[i] = acc
  BY SchemasUpToIs DEF BySchemas, Opens
<1> HIDE DEF g
<1>4. CASE s > n
  <2>1. g[n] = acc
    BY <1>2, <1>3, <1>4
  <2>2. QED
    BY <1>2, <1>4, <2>1, CatalogOpens DEF Due, g
<1>5. CASE ~(s > n)
  <2>1. s \in First(c)..n /\ s - 1 \in 0..n /\ s - 1 < First(c)
    BY <1>2, <1>5
  <2>2. g[s - 1] = acc
    BY <1>3, <2>1
  <2>3. at[3] = Offset(c, s, at[2])
    BY <1>1 DEF Begins, Offset, BeginsAt
  <2>4. at[2] = Tables => ~BeginsAt(c, s, Columns)
    BY <1>1 DEF Begins, BeginsAt, Tables, Columns
  <2>5. at[2] # Tables => at[2] = Columns /\ BeginsAt(c, s, Columns)
    BY <1>1, <1>2 DEF Begins, BeginsAt, At, Phases
  <2>6. BeginsAt(c, s, Columns) => ~NoColumns(c, s) /\ AskTables(acc, c, s) = acc
    BY DEF NoColumns, AskTables
  <2> HIDE DEF at
  <2>7. Asked(acc, acc, c, at)
    BY <2>1, <2>2, <2>3, <2>4, <2>5, <2>6 DEF Asked, g
  <2>8. QED
    BY <1>2, <1>5, <2>7 DEF Due, at
<1>6. QED
  BY <1>4, <1>5

\* A statement that stops the pass stops it where the catalog does.
LEMMA AskedStops ==
  ASSUME WorldTyped, NEW c \in Catalogs, NEW acc, Opens(acc, c), NEW F, NEW at, Asked(F, acc, c, at),
         Stopped(AskPart(F, Spot(c, at)))
  PROVE  AskPart(F, Spot(c, at)) = AskCatalog(acc, c)
<1> DEFINE s == at[1]
           g == SchemasUpTo(acc, c)
           A == AskPart(F, Spot(c, at))
<1>1. /\ s \in First(c)..Len(Schemas(c)) /\ s \in 1..Len(Schemas(c)) /\ s \in 0..Len(Schemas(c))
      /\ ~(s < First(c))
  BY OffsetType, SchemasType DEF Asked
<1>2. g[s] = AskSchema(g[s - 1], c, s)
  BY <1>1, SchemasUpToIs DEF BySchemas, Opens
<1>3. A = g[s]
  <2>1. CASE at[2] = Tables
    <3>1. F = g[s - 1] /\ ~BeginsAt(c, s, Columns) /\ Spot(c, at) = <<c, s, Tables, Offset(c, s, Tables)>>
      BY <2>1 DEF Asked, Spot, Tables, Columns
    <3>2. A = AskTables(g[s - 1], c, s)
      BY <3>1 DEF AskTables
    <3>3. QED
      BY <1>2, <3>2, PartStopped DEF AskSchema
  <2>2. CASE at[2] # Tables
    <3>1. /\ F = AskTables(g[s - 1], c, s) /\ ~NoColumns(c, s)
          /\ Spot(c, at) = <<c, s, Columns, Offset(c, s, Columns)>>
      BY <2>2 DEF Asked, Spot
    <3>2. QED
      BY <1>2, <3>1 DEF AskSchema
  <2>3. QED
    BY <2>1, <2>2
<1>4. g[Len(Schemas(c))] = g[s]
  BY <1>1, <1>3, SchemasStop DEF Opens
<1>5. QED
  BY <1>3, <1>4, CatalogOpens

\* After the last statement on a schema comes the first on the next one.
LEMMA DueNext ==
  ASSUME WorldTyped, NEW c \in Catalogs, NEW acc, Opens(acc, c), NEW s \in First(c)..Len(Schemas(c))
  PROVE  Due(SchemasUpTo(acc, c)[s], acc, c, <<s + 1, Tables, 0>>)
<1> DEFINE F  == SchemasUpTo(acc, c)[s]
           at == <<s + 1, Tables, 0>>
<1>1. s \in Nat /\ First(c) \in Nat \ {0} /\ Len(Schemas(c)) \in Nat
  BY OffsetType, SchemasType
<1>2. CASE s + 1 > Len(Schemas(c))
  <2>1. s = Len(Schemas(c))
    BY <1>1, <1>2
  <2>2. QED
    BY <1>2, <2>1, CatalogOpens DEF Due
<1>3. CASE ~(s + 1 > Len(Schemas(c)))
  <2>1. s + 1 \in First(c)..Len(Schemas(c)) /\ (s + 1) - 1 = s
    BY <1>1, <1>3
  <2>2. Entry(c)[1] # s + 1
    <3>1. Entry(c)[1] \in Nat
      BY EntryType DEF At
    <3>2. Entry(c)[1] = s + 1 => First(c) = s + 1
      BY <1>1 DEF First
    <3>3. QED
      BY <1>1, <3>2
  <2>3. ~BeginsAt(c, s + 1, Columns) /\ Offset(c, s + 1, Tables) = 0
    BY <2>2 DEF BeginsAt, Offset
  <2>4. Asked(F, acc, c, at)
    BY <2>1, <2>3 DEF Asked
  <2>5. QED
    BY <1>3, <2>4 DEF Due
<1>4. QED
  BY <1>2, <1>3

\* After the tables of a schema come its columns, unless its tables could not be read.
LEMMA AskedOn ==
  ASSUME WorldTyped, NEW c \in Catalogs, NEW acc, Opens(acc, c), NEW F, NEW at, Asked(F, acc, c, at)
  PROVE  LET A == AskPart(F, Spot(c, at))
             s == at[1]
         IN  /\ at[2] = Tables /\ ~NoColumns(c, s) => Due(A, acc, c, <<s, Columns, 0>>)
             /\ at[2] = Columns \/ NoColumns(c, s) => Due(A, acc, c, <<s + 1, Tables, 0>>)
<1> DEFINE s == at[1]
           g == SchemasUpTo(acc, c)
           A == AskPart(F, Spot(c, at))
<1>1. /\ s \in First(c)..Len(Schemas(c)) /\ s \in 1..Len(Schemas(c)) /\ s \in 0..Len(Schemas(c))
      /\ ~(s < First(c)) /\ ~(s > Len(Schemas(c)))
  BY OffsetType, SchemasType DEF Asked
<1>2. g[s] = AskSchema(g[s - 1], c, s)
  BY <1>1, SchemasUpToIs DEF BySchemas, Opens
<1>3. CASE at[2] = Tables
  <2>1. F = g[s - 1] /\ ~BeginsAt(c, s, Columns) /\ Spot(c, at) = <<c, s, Tables, Offset(c, s, Tables)>>
    BY <1>3 DEF Asked, Spot, Tables, Columns
  <2>2. A = AskTables(g[s - 1], c, s)
    BY <2>1 DEF AskTables
  <2>3. Offset(c, s, Columns) = 0
    BY <2>1 DEF Offset
  <2>4. CASE NoColumns(c, s)
    <3>1. A = g[s]
      BY <1>2, <2>2, <2>4 DEF AskSchema
    <3>2. QED
      BY <1>1, <1>3, <2>4, <3>1, DueNext
  <2>5. CASE ~NoColumns(c, s)
    <3>1. Asked(A, acc, c, <<s, Columns, 0>>)
      BY <1>1, <2>2, <2>3, <2>5 DEF Asked
    <3>2. Due(A, acc, c, <<s, Columns, 0>>)
      BY <1>1, <3>1 DEF Due
    <3>3. QED
      BY <1>3, <2>5, <3>2 DEF Tables, Columns
  <2>6. QED
    BY <2>4, <2>5
<1>4. CASE at[2] # Tables
  <2>1. /\ F = AskTables(g[s - 1], c, s) /\ ~NoColumns(c, s)
        /\ Spot(c, at) = <<c, s, Columns, Offset(c, s, Columns)>>
    BY <1>4 DEF Asked, Spot
  <2>2. A = g[s]
    BY <1>2, <2>1 DEF AskSchema
  <2>3. QED
    BY <1>1, <1>4, <2>2, DueNext
<1>5. QED
  BY <1>3, <1>4

-----------------------------------------------------------------------------
(* What a walk tells is what its catalog answers in its turn *)

\* What a pass found of the events of a walk that stands where it does.
Agrees(F, w, c, acc) ==
  IF Stopped(F) THEN F = AskCatalog(acc, c)
  ELSE /\ w.used <= Len(F.rows)
       /\ w.st = "ended" => F = AskCatalog(acc, c)
       /\ w.st \in {"asking", "reading"} =>
            /\ Len(F.rows) < PageSize
            /\ IF w.listing THEN F = acc /\ ~world.named /\ Catalog(c).kind # "badname"
               ELSE Opens(acc, c) /\ Asked(F, acc, c, w.at)

\* A pass that found acc before the catalog, and from up to the events left, finds the rest.
Tale(w, c, acc, from) == \E F : Gives(w.events, from, F) /\ Agrees(F, w, c, acc)

\* A walk comes to a schema.
Comes(F, w, c, acc, at) ==
  IF Stopped(F) THEN F = AskCatalog(acc, c)
  ELSE w.used <= Len(F.rows) /\ Opens(acc, c) /\ Due(F, acc, c, at)

LEMMA AddTale ==
  ASSUME WorldTyped, NEW c \in Catalogs, NEW w \in WalkRecord(c), NEW e \in Event(c), NEW from, NEW F,
         Gives(w.events, from, F)
  PROVE  /\ Gives(Add(w, e).events, from, Taken(F, e))
         /\ F \in Accs /\ Taken(F, e) \in Accs
<1>1. w.events \in Seq(Event(c)) /\ Add(w, e).events = Append(w.events, e)
  BY DEF WalkRecord, Add
<1>2. F \in Accs
  BY <1>1, GivesFits
<1>3. QED
  BY <1>1, <1>2, GivesMore, TakenFits

LEMMA EndTale ==
  ASSUME NEW c \in Catalogs, NEW w \in WalkRecord(c), NEW acc, NEW from, NEW F,
         Gives(w.events, from, F), F = AskCatalog(acc, c), Stopped(F) \/ w.used <= Len(F.rows)
  PROVE  Tale(End(w), c, acc, from)
<1> DEFINE v == End(w)
<1>1. v.events = w.events /\ v.used = w.used /\ v.st = "ended"
  BY DEF End, WalkRecord
<1> HIDE DEF v
<1>2. Agrees(F, v, c, acc)
  BY <1>1 DEF Agrees
<1>3. Tale(v, c, acc, from)
  BY <1>1, <1>2 DEF Tale
<1>4. QED
  BY <1>3 DEF v

LEMMA StandTale ==
  ASSUME WorldTyped, NEW c \in Catalogs, NEW w \in WalkRecord(c),
         NEW s \in Nat \ {0}, NEW ph \in Phases, NEW o \in Nat, NEW acc, NEW from, NEW F,
         Gives(w.events, from, F), Comes(F, w, c, acc, <<s, ph, o>>)
  PROVE  Tale(Stand(w, c, s, ph, o), c, acc, from)
<1> DEFINE at    == <<s, ph, o>>
           e     == Point("before", c, at)
           added == Add(w, e)
           here  == [added EXCEPT !.listing = FALSE, !.at = at]
           asking == [here EXCEPT !.st = "asking"]
           G     == Taken(F, e)
<1>1. at \in At /\ at[1] = s /\ e \in Event(c)
  <2>1. at \in At
    BY DEF At
  <2>2. QED
    BY <2>1, PointEvent
<1>2. Gives(added.events, from, G) /\ F \in Accs /\ G \in Accs
  BY <1>1, AddTale
<1>3. added \in WalkRecord(c) /\ added.used = w.used
  BY <1>1, AddWalk
<1> HIDE DEF added
<1>4. here \in WalkRecord(c) /\ here.events = added.events /\ here.at = at /\ here.used = w.used /\ ~here.listing
  <2> HIDE DEF at
  <2>1. QED
    BY <1>1, <1>3 DEF WalkRecord
<1> HIDE DEF here
<1>5. /\ asking.events = added.events /\ asking.st = "asking" /\ asking.at = at /\ asking.used = w.used
      /\ ~asking.listing
  BY <1>4 DEF WalkRecord
<1> HIDE DEF asking
<1>6. CASE s > Len(Schemas(c))
  <2>1. F = AskCatalog(acc, c) /\ (Stopped(F) \/ w.used <= Len(F.rows))
    BY <1>1, <1>6 DEF Comes, Due
  <2>2. Tale(End(w), c, acc, from)
    BY <2>1, EndTale
  <2>3. QED
    BY <1>6, <2>2 DEF Stand
<1>7. CASE ~(s > Len(Schemas(c)))
  <2>1. ~Stopped(F) => Opens(acc, c) /\ Asked(F, acc, c, at) /\ w.used <= Len(F.rows)
    BY <1>1, <1>7 DEF Comes, Due
  <2>2. ~Stopped(F) /\ ~(Len(F.rows) >= PageSize) => G = F
    BY <1>1, <1>2, TakePoint DEF Taken
  <2>3. ~Stopped(F) /\ Len(F.rows) >= PageSize => Stopped(G) /\ G = AskCatalog(acc, c)
    <3> SUFFICES ASSUME ~Stopped(F), Len(F.rows) >= PageSize PROVE Stopped(G) /\ G = AskCatalog(acc, c)
      OBVIOUS
    <3> HIDE DEF at
    <3>0. /\ Take(F, Point("before", c, at)) = [F EXCEPT !.stop = Spot(c, at)]
          /\ Stopped([F EXCEPT !.stop = Spot(c, at)])
      BY <1>1, <1>2, TakePoint
    <3>1. G = [F EXCEPT !.stop = Spot(c, at)] /\ Stopped(G)
      BY <3>0 DEF Taken
    <3>2. AskPart(F, Spot(c, at)) = G
      BY <1>1, <1>2, <3>1, PartNoRoom
    <3>3. QED
      BY <2>1, <3>1, <3>2, AskedStops
  <2>4. Stopped(F) => G = F /\ G = AskCatalog(acc, c)
    BY DEF Taken, Comes
  <2>5. Len(F.rows) \in Nat /\ PageSize \in Nat /\ w.used \in Nat
    BY <1>2, SearchAssumption DEF Accs, Part, WalkRecord
  <2> HIDE DEF G, at
  <2>6. CASE w.used >= PageSize
    <3>1. Stopped(G) /\ G = AskCatalog(acc, c)
      BY <2>1, <2>3, <2>4, <2>5, <2>6
    <3>2. Tale(End(here), c, acc, from)
      BY <1>2, <1>4, <3>1, EndTale
    <3>3. Stand(w, c, s, ph, o) = End(here)
      BY <1>7, <2>6 DEF Stand, here, added, e, at
    <3>4. QED
      BY <3>2, <3>3
  <2>7. CASE ~(w.used >= PageSize)
    <3>1. Stand(w, c, s, ph, o) = asking
      BY <1>7, <2>7 DEF Stand, asking, here, added, e, at
    <3>2. Agrees(G, asking, c, acc)
      BY <1>5, <2>1, <2>2, <2>3, <2>4, <2>5 DEF Agrees
    <3>3. Tale(asking, c, acc, from)
      BY <1>2, <1>5, <3>2 DEF Tale
    <3>4. QED
      BY <3>1, <3>3
  <2>8. QED
    BY <2>6, <2>7
<1>8. QED
  BY <1>6, <1>7

LEMMA FirstSchemaTale ==
  ASSUME WorldTyped, NEW c \in Catalogs, NEW w \in WalkRecord(c), NEW acc, NEW from, NEW F,
         Gives(w.events, from, F),
         IF Stopped(F) THEN F = AskCatalog(acc, c) ELSE F = acc /\ w.used <= Len(F.rows) /\ Opens(acc, c)
  PROVE  Tale(FirstSchema(w, c), c, acc, from)
<1> DEFINE at == Begins(c)
<1>1. /\ at = <<at[1], at[2], at[3]>> /\ at[2] \in Phases /\ at[3] \in Nat /\ at[1] \in Nat \ {0}
      /\ FirstSchema(w, c) = Stand(w, c, at[1], at[2], at[3])
  <2>1. Entry(c) \in At /\ Entry(c)[1] \in Nat
    BY EntryType DEF At
  <2>2. Entry(c)[1] = 0 => FirstSchema(w, c) = Stand(w, c, at[1], at[2], at[3])
    BY DEF FirstSchema, Begins
  <2>3. Entry(c)[1] # 0 => FirstSchema(w, c) = Stand(w, c, at[1], at[2], at[3])
    BY DEF FirstSchema, Begins
  <2>4. at \in At /\ at[1] \in Nat \ {0}
    BY <2>1 DEF Begins, At, Phases
  <2>5. QED
    BY <2>2, <2>3, <2>4 DEF At
<1>2. ~Stopped(F) => Due(F, acc, c, at)
  BY DueFirst
<1> HIDE DEF at
<1>3. Comes(F, w, c, acc, <<at[1], at[2], at[3]>>)
  BY <1>1, <1>2 DEF Comes
<1>4. QED
  BY <1>1, <1>3, StandTale

LEMMA OpenTale ==
  ASSUME WorldTyped, NEW c \in Catalogs, NEW w \in WalkRecord(c), w.events = <<>>,
         NEW from \in Accs, ~Stopped(from), w.used <= Len(from.rows)
  PROVE  Tale(Open(w, c), c, from, from)
<1> DEFINE at    == Entry(c)
           e     == Point("open", c, at)
           added == Add(w, e)
           here  == [added EXCEPT !.listing = TRUE, !.at = at]
           asking == [here EXCEPT !.st = "asking"]
           G     == Taken(from, e)
<1>0. Gives(w.events, from, from)
  BY GivesNone
<1>1. at \in At /\ e \in Event(c)
  BY EntryType, PointEvent
<1>2. Gives(added.events, from, G)
  BY <1>0, <1>1, AddTale
<1>3. added \in WalkRecord(c) /\ added.used = w.used
  BY <1>1, AddWalk
<1>4. /\ Len(from.rows) >= PageSize => G = [from EXCEPT !.stop = Spot(c, at)] /\ Stopped(G)
      /\ ~(Len(from.rows) >= PageSize) => G = from
  <2> HIDE DEF at
  <2>1. G = Take(from, Point("open", c, at))
    BY DEF Taken
  <2>2. /\ Len(from.rows) >= PageSize => /\ Take(from, Point("open", c, at)) = [from EXCEPT !.stop = Spot(c, at)]
                                         /\ Stopped([from EXCEPT !.stop = Spot(c, at)])
        /\ ~(Len(from.rows) >= PageSize) => Take(from, Point("open", c, at)) = from
    BY <1>1, TakePoint
  <2>3. QED
    BY <2>1, <2>2
<1>5. Len(from.rows) \in Nat /\ PageSize \in Nat /\ w.used \in Nat
  BY SearchAssumption DEF Accs, Part, WalkRecord
<1> HIDE DEF added
<1>6. here \in WalkRecord(c) /\ here.events = added.events /\ here.used = w.used /\ here.listing
  <2> HIDE DEF at
  <2>1. QED
    BY <1>1, <1>3 DEF WalkRecord
<1> HIDE DEF here
<1>7. asking.events = added.events /\ asking.st = "asking" /\ asking.used = w.used /\ asking.listing
  BY <1>6 DEF WalkRecord
<1> HIDE DEF asking
<1>8. CASE Catalog(c).kind = "badname"
  <2> DEFINE g == Gap(c, 0)
  <2>1. g \in Event(c)
    BY GapEvent
  <2>2. Taken(from, g) = AskCatalog(from, c) /\ Taken(from, g).rows = from.rows
    <3>1. Take(from, g) = [from EXCEPT !.gaps = @ \cup {<<c, 0>>}]
      BY DEF Take, Gap
    <3>2. AskCatalog(from, c) = [from EXCEPT !.gaps = @ \cup {<<c, 0>>}]
      BY <1>8 DEF AskCatalog
    <3>3. QED
      BY <3>1, <3>2 DEF Taken, Accs, Part
  <2> HIDE DEF g
  <2>3. Gives(Add(w, g).events, from, Taken(from, g)) /\ Add(w, g) \in WalkRecord(c) /\ Add(w, g).used = w.used
    BY <1>0, <2>1, AddTale, AddWalk
  <2>4. Tale(End(Add(w, g)), c, from, from)
    BY <2>2, <2>3, EndTale
  <2>5. QED
    BY <1>8, <2>4 DEF Open, g
<1>9. CASE Catalog(c).kind # "badname" /\ world.named
  <2>1. Opens(from, c)
    BY <1>9 DEF Opens
  <2>2. Tale(FirstSchema(w, c), c, from, from)
    BY <1>0, <2>1, FirstSchemaTale
  <2>3. QED
    BY <1>9, <2>2 DEF Open
<1>10. CASE Catalog(c).kind # "badname" /\ ~world.named
  <2>1. Len(from.rows) >= PageSize => G = AskCatalog(from, c)
    <3> SUFFICES ASSUME Len(from.rows) >= PageSize PROVE G = AskCatalog(from, c)
      OBVIOUS
    <3>1. PageSize - Len(from.rows) <= 0
      BY <1>5
    <3>2. AskCatalog(from, c) = [from EXCEPT !.stop = <<c, at[1], at[2], at[3]>>]
      BY <1>10, <3>1 DEF AskCatalog
    <3>3. QED
      BY <1>4, <3>2 DEF Spot
  <2> HIDE DEF G, at
  <2>2. CASE w.used >= PageSize
    <3>1. Stopped(G) /\ G = AskCatalog(from, c)
      BY <1>4, <1>5, <2>1, <2>2
    <3>2. Tale(End(here), c, from, from)
      BY <1>2, <1>6, <3>1, EndTale
    <3>3. Open(w, c) = End(here)
      BY <1>10, <2>2 DEF Open, here, added, e, at
    <3>4. QED
      BY <3>2, <3>3
  <2>3. CASE ~(w.used >= PageSize)
    <3>1. Open(w, c) = asking
      BY <1>10, <2>3 DEF Open, asking, here, added, e, at
    <3>2. Agrees(G, asking, c, from)
      BY <1>4, <1>5, <1>7, <1>10, <2>1 DEF Agrees
    <3>3. Tale(asking, c, from, from)
      BY <1>2, <1>7, <3>2 DEF Tale
    <3>4. QED
      BY <3>1, <3>3
  <2>4. QED
    BY <2>2, <2>3
<1>11. QED
  BY <1>8, <1>9, <1>10

\* The part a walk reads could not be read.
LEMMA SkipTale ==
  ASSUME WorldTyped, NEW c \in Catalogs, NEW w, SoundWalk(w, c), w.st = "reading",
         NEW acc, NEW from, NEW F, Gives(w.events, from, F), Agrees(F, w, c, acc),
         IF w.listing THEN Catalog(c).kind # "ok" ELSE Schemas(c)[w.at[1]].kind[w.at[2]] \in {"fails", "slow"}
  PROVE  Tale(Skip(w, c), c, acc, from)
<1>1. /\ w \in WalkRecord(c) /\ w.at \in At /\ w.at[1] \in Nat
      /\ ~w.listing => w.at[1] \in 1..Len(Schemas(c))
  BY DEF SoundWalk, OnSchema, WalkRecord, At
<1>2. CASE w.listing
  <2> DEFINE g == Gap(c, 0)
             v == Add(w, g)
             G == Taken(F, g)
  <2>1. g \in Event(c)
    BY GapEvent
  <2>2. Take(F, g) = [F EXCEPT !.gaps = @ \cup {<<c, 0>>}]
    BY DEF Take, Gap
  <2> HIDE DEF g
  <2>3. Gives(v.events, from, G) /\ v \in WalkRecord(c) /\ v.used = w.used /\ F \in Accs
    BY <1>1, <2>1, AddTale, AddWalk
  <2>5. G = AskCatalog(acc, c) /\ (Stopped(G) \/ w.used <= Len(G.rows))
    <3>1. CASE Stopped(F)
      BY <3>1 DEF Taken, Agrees
    <3>2. CASE ~Stopped(F)
      <4>1. F = acc /\ ~world.named /\ Catalog(c).kind \notin {"ok", "badname"} /\ Len(F.rows) < PageSize
            /\ w.used <= Len(F.rows)
        BY <1>2, <3>2 DEF Agrees
      <4>2. ~(PageSize - Len(acc.rows) <= 0)
        BY <2>3, <4>1, SearchAssumption DEF Accs, Part
      <4>3. AskCatalog(acc, c) = [acc EXCEPT !.gaps = @ \cup {<<c, 0>>}]
        BY <3>2, <4>1, <4>2 DEF AskCatalog
      <4>4. G = [F EXCEPT !.gaps = @ \cup {<<c, 0>>}]
        BY <2>2, <3>2 DEF Taken
      <4>5. [F EXCEPT !.gaps = @ \cup {<<c, 0>>}].rows = F.rows
        BY <2>3 DEF Accs, Part
      <4>6. QED
        BY <4>1, <4>3, <4>4, <4>5
    <3>3. QED
      BY <3>1, <3>2
  <2> HIDE DEF v, G
  <2>6. Tale(End(v), c, acc, from)
    BY <2>3, <2>5, EndTale
  <2>7. QED
    BY <1>2, <2>6 DEF Skip, v, g
<1>3. CASE ~w.listing
  <2> DEFINE s == w.at[1]
             g == Gap(c, s)
             v == Add(w, g)
             G == Taken(F, g)
  <2>1. g \in Event(c)
    BY <1>1, GapEvent
  <2>2. s + 1 \in Nat \ {0}
    BY <1>1
  <2>3. Take(F, g) = [F EXCEPT !.gaps = @ \cup {<<c, s>>}]
    BY DEF Take, Gap
  <2> HIDE DEF g
  <2>4. Gives(v.events, from, G) /\ v \in WalkRecord(c) /\ v.used = w.used /\ F \in Accs
    BY <1>1, <2>1, AddTale, AddWalk
  <2>5. Comes(G, v, c, acc, <<s + 1, Tables, 0>>)
    <3>1. CASE Stopped(F)
      BY <3>1 DEF Taken, Agrees, Comes
    <3>2. CASE ~Stopped(F)
      <4>1. Len(F.rows) < PageSize /\ Opens(acc, c) /\ Asked(F, acc, c, w.at) /\ w.used <= Len(F.rows)
        BY <1>3, <3>2 DEF Agrees
      <4>2. ~(Len(F.rows) >= PageSize)
        BY <2>4, <4>1, SearchAssumption DEF Accs, Part
      <4>3. G = Take(F, Gap(c, s)) /\ AskPart(F, Spot(c, w.at)) = G
        <5>1. G = Take(F, Gap(c, s))
          BY <3>2 DEF Taken, g
        <5> HIDE DEF G
        <5>2. AskPart(F, Spot(c, w.at)) = Take(F, Gap(c, w.at[1]))
          BY <1>1, <1>3, <2>4, <3>2, <4>2, PartUnread
        <5>3. QED
          BY <5>1, <5>2
      <4>4. w.at[2] = Columns \/ NoColumns(c, s)
        BY <1>3, <4>1 DEF Asked, NoColumns
      <4>5. Due(AskPart(F, Spot(c, w.at)), acc, c, <<s + 1, Tables, 0>>)
        BY <4>1, <4>4, AskedOn
      <4>6. Due(G, acc, c, <<s + 1, Tables, 0>>)
        BY <4>3, <4>5
      <4>7. Stopped(G) => G = AskCatalog(acc, c)
        BY <4>1, <4>3, AskedStops
      <4>8. [F EXCEPT !.gaps = @ \cup {<<c, s>>}].rows = F.rows
        BY <2>4 DEF Accs, Part
      <4>9. G.rows = F.rows
        BY <2>3, <4>3, <4>8 DEF g
      <4> HIDE DEF G, v
      <4>10. QED
        BY <2>4, <4>1, <4>6, <4>7, <4>9 DEF Comes
    <3>3. QED
      BY <3>1, <3>2
  <2> HIDE DEF v, G
  <2>6. Tale(Stand(v, c, s + 1, Tables, 0), c, acc, from)
    <3> HIDE DEF s
    <3>1. QED
      BY <2>2, <2>4, <2>5, StandTale DEF Phases
  <2>7. QED
    BY <1>3, <2>6 DEF Skip, v, g
<1>4. QED
  BY <1>2, <1>3

\* The rows a walk read are those the pass asks for, as many as it has room for.
LEMMA ReadTale ==
  ASSUME WorldTyped, NEW c \in Catalogs, NEW w, SoundWalk(w, c), w.st = "reading", ~w.listing,
         NEW acc, NEW from, NEW F, Gives(w.events, from, F), Agrees(F, w, c, acc),
         Schemas(c)[w.at[1]].kind[w.at[2]] = "ok"
  PROVE  Tale(Read(w, c), c, acc, from)
<1> DEFINE s    == w.at[1]
           ph   == w.at[2]
           left == Total(c, s, ph) - w.at[3]
           room == PageSize - w.used
           n    == IF left <= 0 THEN 0 ELSE Least(left, room)
           e    == Found(c, w.at, n, left > room)
           told == Add(w, e)
           read == [told EXCEPT !.used = @ + n]
           last == Add(read, Sign("searched"))
           G    == Taken(F, e)
           H    == Taken(G, Sign("searched"))
<1>1. /\ w \in WalkRecord(c) /\ w.at \in At /\ ph \in Phases /\ w.at[3] \in Nat
      /\ s \in 1..Len(Schemas(c)) /\ s \in Nat \ {0} /\ s + 1 \in Nat \ {0}
  BY SchemasType DEF SoundWalk, OnSchema, WalkRecord, At
<1>2. left \in Int /\ room \in 0..PageSize /\ w.used \in 0..PageSize /\ PageSize \in Nat
  <2>1. Total(c, s, ph) \in Nat
    BY <1>1, TotalType
  <2>2. w.used \in 0..PageSize /\ PageSize \in Nat
    BY <1>1, SearchAssumption DEF WalkRecord
  <2>3. left \in Int
    BY <1>1, <2>1
  <2>4. room \in 0..PageSize
    BY <2>2
  <2>5. QED
    BY <2>2, <2>3, <2>4
<1>3. n \in Nat /\ w.used + n \in 0..PageSize
  <2> HIDE DEF left
  <2>1. QED
    BY <1>2 DEF Least
<1>4. e \in Event(c)
  <2>1. <<c, w.at[1], w.at[2], w.at[3]>> \in PlaceOf(c)
    BY <1>1 DEF At, PlaceOf
  <2>2. (left > room) \in BOOLEAN
    OBVIOUS
  <2> HIDE DEF n, left, room
  <2>3. QED
    BY <1>3, <2>1, <2>2 DEF Found, Event
<1>5. /\ Read(w, c) = IF left > room THEN End(read)
                      ELSE IF ph = Tables THEN Stand(read, c, s, Columns, 0) ELSE Stand(last, c, s + 1, Tables, 0)
      /\ Schemas(c)[s].kind[ph] = "ok"
  BY DEF Read
<1>6. ~Stopped(F) =>
        /\ Len(F.rows) < PageSize /\ Opens(acc, c) /\ Asked(F, acc, c, w.at) /\ w.used <= Len(F.rows)
        /\ F \in Accs /\ ~(Len(F.rows) >= PageSize) /\ w.used \in Nat
  <2>1. w.events \in Seq(Event(c))
    BY <1>1 DEF WalkRecord
  <2>2. F \in Accs
    BY <2>1, GivesFits
  <2>3. Len(F.rows) \in Nat
    BY <2>2 DEF Accs, Part
  <2>4. QED
    BY <1>2, <2>2, <2>3 DEF Agrees
<1>7. ~Stopped(F) =>
        /\ AskPart(F, Spot(c, w.at)) = (IF ~Stopped(G) /\ ph = Columns THEN Take(G, Sign("searched")) ELSE G)
        /\ left > room => Stopped(G)
        /\ ~Stopped(G) => w.used + n <= Len(G.rows)
  <2> SUFFICES ASSUME ~Stopped(F)
               PROVE  /\ AskPart(F, Spot(c, w.at)) = (IF ~Stopped(G) /\ ph = Columns THEN Take(G, Sign("searched")) ELSE G)
                      /\ left > room => Stopped(G)
                      /\ ~Stopped(G) => w.used + n <= Len(G.rows)
    OBVIOUS
  <2>1. G = Take(F, e)
    BY DEF Taken
  <2>2. LET rd == Take(F, Found(c, w.at, n, left > room))
        IN  /\ AskPart(F, Spot(c, w.at)) =
                 IF ~Stopped(rd) /\ w.at[2] = Columns THEN Take(rd, Sign("searched")) ELSE rd
            /\ left > room => Stopped(rd)
            /\ ~Stopped(rd) => w.used + n <= Len(rd.rows)
    <3>1. /\ F \in Accs /\ ~(Len(F.rows) >= PageSize) /\ w.used \in Nat /\ w.used <= Len(F.rows)
          /\ w.at[1] \in 1..Len(Schemas(c)) /\ Schemas(c)[w.at[1]].kind[w.at[2]] = "ok" /\ w.at \in At
      BY <1>1, <1>6
    <3>2. ReadAlike(F, c, w.at, w.used)
      BY <3>1, PartRead
    <3>3. QED
      BY <3>2 DEF ReadAlike, n, left, room
  <2> HIDE DEF n, left, room
  <2>3. QED
    BY <2>1, <2>2 DEF e
<1>8. ph = Tables \/ ph = Columns
  BY <1>1 DEF Phases
<1> HIDE DEF e, n, left, room
<1>9. told \in WalkRecord(c) /\ told.used = w.used /\ Gives(told.events, from, G) /\ G \in Accs
  BY <1>1, <1>4, AddWalk, AddTale
<1> HIDE DEF told
<1>10. read \in WalkRecord(c) /\ read.used = w.used + n /\ read.events = told.events
  BY <1>3, <1>9 DEF WalkRecord
<1> HIDE DEF read, G
<1>11. last \in WalkRecord(c) /\ last.used = w.used + n /\ Gives(last.events, from, H)
  BY <1>9, <1>10, SignEvent, AddWalk, AddTale
<1>12. ~Stopped(F) => ~Stopped(G) \/ (AskPart(F, Spot(c, w.at)) = G /\ G = AskCatalog(acc, c))
  BY <1>6, <1>7, AskedStops
<1>13. Stopped(F) => G = F /\ F = AskCatalog(acc, c)
  BY DEF Agrees, Taken, G
<1>14. Stopped(G) => G = AskCatalog(acc, c)
  BY <1>12, <1>13
<1>15. CASE left > room
  <2>1. Stopped(G)
    BY <1>7, <1>13, <1>15
  <2>2. Tale(End(read), c, acc, from)
    BY <1>9, <1>10, <1>14, <2>1, EndTale
  <2>3. QED
    BY <1>5, <1>15, <2>2
<1>16. CASE ~(left > room) /\ ph = Tables
  <2>1. Comes(G, read, c, acc, <<s, Columns, 0>>)
    <3>1. CASE Stopped(G)
      BY <1>14, <3>1 DEF Comes
    <3>2. CASE ~Stopped(G)
      <4>1. ~Stopped(F)
        BY <1>13, <3>2
      <4>2. AskPart(F, Spot(c, w.at)) = G /\ w.used + n <= Len(G.rows)
        BY <1>7, <1>16, <3>2, <4>1 DEF Tables, Columns
      <4>3. ~NoColumns(c, s)
        BY <1>5, <1>16 DEF NoColumns
      <4>4. Due(AskPart(F, Spot(c, w.at)), acc, c, <<s, Columns, 0>>)
        BY <1>6, <1>16, <4>1, <4>3, AskedOn
      <4>5. QED
        BY <1>6, <1>10, <3>2, <4>1, <4>2, <4>4 DEF Comes
    <3>3. QED
      BY <3>1, <3>2
  <2>2. Tale(Stand(read, c, s, Columns, 0), c, acc, from)
    <3> HIDE DEF s
    <3>1. QED
      BY <1>1, <1>9, <1>10, <2>1, StandTale DEF Phases
  <2>3. QED
    BY <1>5, <1>16, <2>2
<1>17. CASE ~(left > room) /\ ph # Tables
  <2>1. Comes(H, last, c, acc, <<s + 1, Tables, 0>>)
    <3>1. CASE Stopped(G)
      <4>1. H = G
        BY <3>1 DEF Taken
      <4>2. QED
        BY <1>14, <3>1, <4>1 DEF Comes
    <3>2. CASE ~Stopped(G)
      <4>1. ~Stopped(F)
        BY <1>13, <3>2
      <4>2. H = Take(G, Sign("searched"))
        BY <3>2 DEF Taken
      <4>3. Take(G, Sign("searched")) = [G EXCEPT !.searched = @ + 1]
        BY DEF Take, Sign
      <4>4. [G EXCEPT !.searched = @ + 1].rows = G.rows
        BY <1>9 DEF Accs, Part
      <4> HIDE DEF H, last
      <4>5. AskPart(F, Spot(c, w.at)) = H
        BY <1>7, <1>8, <1>17, <3>2, <4>1, <4>2
      <4>6. w.used + n <= Len(H.rows)
        BY <1>7, <3>2, <4>1, <4>2, <4>3, <4>4
      <4>7. Due(AskPart(F, Spot(c, w.at)), acc, c, <<s + 1, Tables, 0>>)
        BY <1>6, <1>8, <1>17, <4>1, AskedOn
      <4>8. Stopped(H) => H = AskCatalog(acc, c)
        BY <1>6, <4>1, <4>5, AskedStops
      <4>9. QED
        BY <1>6, <1>11, <4>1, <4>5, <4>6, <4>7, <4>8 DEF Comes
    <3>3. QED
      BY <3>1, <3>2
  <2> HIDE DEF H, last
  <2>2. Tale(Stand(last, c, s + 1, Tables, 0), c, acc, from)
    <3> HIDE DEF s
    <3>1. QED
      BY <1>1, <1>11, <2>1, StandTale DEF Phases
  <2>3. QED
    BY <1>5, <1>17, <2>2
<1>18. QED
  BY <1>15, <1>16, <1>17

\* The answer of Trino, while time is left.
LEMMA AnsweredTale ==
  ASSUME WorldTyped, NEW c \in Catalogs, NEW w, SoundWalk(w, c), w.st = "reading", ~timeUp,
         NEW acc, NEW from, Tale(w, c, acc, from)
  PROVE  Tale(Answered(w, c), c, acc, from)
<1>1. PICK F : Gives(w.events, from, F) /\ Agrees(F, w, c, acc)
  BY DEF Tale
<1>2. /\ w \in WalkRecord(c) /\ w.at \in At
      /\ ~w.listing => w.at[1] \in 1..Len(Schemas(c)) /\ w.at[2] \in Phases
  BY DEF SoundWalk, OnSchema, WalkRecord, At
<1> DEFINE kind == IF w.listing THEN Catalog(c).kind ELSE Schemas(c)[w.at[1]].kind[w.at[2]]
<1>3. /\ w.listing => Catalog(c).kind \in {"ok", "fails", "slow", "badname"}
      /\ ~w.listing => Schemas(c)[w.at[1]].kind[w.at[2]] \in {"ok", "fails", "slow", "refused"}
  <2>1. Catalog(c).kind \in {"ok", "fails", "slow", "badname"}
    BY SchemasType DEF CatalogRecord, Listings
  <2>2. ~w.listing => Schemas(c)[w.at[1]].kind[w.at[2]] \in Kinds
    BY <1>2, KindType
  <2>3. QED
    BY <2>1, <2>2 DEF Kinds, Listings
<1>4. CASE kind \in {"fails", "slow"}
  <2>1. Answered(w, c) = Skip(w, c)
    BY <1>4 DEF Answered
  <2>2. Tale(Skip(w, c), c, acc, from)
    BY <1>1, <1>4, SkipTale
  <2>3. QED
    BY <2>1, <2>2
<1>5. CASE kind = "refused"
  <2> DEFINE e == Sign("error")
             v == Add(w, e)
             G == Taken(F, e)
  <2>1. ~w.listing /\ Schemas(c)[w.at[1]].kind[w.at[2]] = "refused"
    BY <1>3, <1>5
  <2>2. Gives(v.events, from, G) /\ v \in WalkRecord(c) /\ v.used = w.used /\ F \in Accs
    BY <1>1, <1>2, SignEvent, AddTale, AddWalk
  <2>3. G = AskCatalog(acc, c) /\ Stopped(G)
    <3>1. CASE Stopped(F)
      BY <1>1, <3>1 DEF Agrees, Taken
    <3>2. CASE ~Stopped(F)
      <4>1. Len(F.rows) < PageSize /\ Opens(acc, c) /\ Asked(F, acc, c, w.at)
        BY <1>1, <2>1, <3>2 DEF Agrees
      <4>2. ~(Len(F.rows) >= PageSize)
        BY <2>2, <4>1, SearchAssumption DEF Accs, Part
      <4>3. G = Take(F, Sign("error"))
        BY <3>2 DEF Taken
      <4>4. AskPart(F, Spot(c, w.at)) = Take(F, Sign("error"))
        BY <1>2, <2>1, <2>2, <3>2, <4>2, PartUnread
      <4>5. Stopped(Take(F, Sign("error")))
        <5>1. Take(F, Sign("error")) = [F EXCEPT !.error = TRUE]
          BY DEF Take, Sign
        <5>2. [F EXCEPT !.error = TRUE].error
          BY <2>2 DEF Accs, Part
        <5>3. QED
          BY <5>1, <5>2 DEF Stopped
      <4> HIDE DEF G, e
      <4>6. QED
        BY <4>1, <4>3, <4>4, <4>5, AskedStops
    <3>3. QED
      BY <3>1, <3>2
  <2> HIDE DEF G, v
  <2>4. Tale(End(v), c, acc, from)
    BY <2>2, <2>3, EndTale
  <2>5. QED
    BY <1>5, <2>4 DEF Answered, v
<1>6. CASE kind \in {"ok", "badname"} /\ w.listing
  <2>1. Answered(w, c) = FirstSchema(w, c)
    BY <1>6 DEF Answered
  <2>2. ~Stopped(F) => F = acc /\ w.used <= Len(F.rows) /\ Opens(acc, c)
    <3>1. w.events \in Seq(Event(c))
      BY <1>2 DEF WalkRecord
    <3>2. F \in Accs
      BY <1>1, <3>1, GivesFits
    <3>3. QED
      BY <1>1, <1>6, <3>2 DEF Agrees, Opens
  <2>3. Tale(FirstSchema(w, c), c, acc, from)
    BY <1>1, <1>2, <2>2, FirstSchemaTale DEF Agrees
  <2>4. QED
    BY <2>1, <2>3
<1>7. CASE kind = "ok" /\ ~w.listing
  <2>1. Answered(w, c) = Read(w, c)
    BY <1>7 DEF Answered
  <2>2. Tale(Read(w, c), c, acc, from)
    BY <1>1, <1>7, ReadTale
  <2>3. QED
    BY <2>1, <2>2
<1>8. QED
  BY <1>3, <1>4, <1>5, <1>6, <1>7

-----------------------------------------------------------------------------
(* What is asked stays, while the pass does *)

LEMMA AskStays ==
  ASSUME UNCHANGED <<world, mode, begin>>
  PROVE  /\ Catalogs' = Catalogs /\ Accs' = Accs
         /\ \A c : /\ Catalog(c)' = Catalog(c) /\ Schemas(c)' = Schemas(c)
                   /\ Entry(c)' = Entry(c) /\ First(c)' = First(c)
         /\ \A c, s, ph : BeginsAt(c, s, ph)' = BeginsAt(c, s, ph) /\ Offset(c, s, ph)' = Offset(c, s, ph)
         /\ \A c, s : NoColumns(c, s)' = NoColumns(c, s)
         /\ \A acc, u : AskPart(acc, u)' = AskPart(acc, u)
         /\ \A acc, c, s : AskTables(acc, c, s)' = AskTables(acc, c, s)
         /\ \A acc, c, s : AskSchema(acc, c, s)' = AskSchema(acc, c, s)
<1>1. Catalogs' = Catalogs /\ Accs' = Accs
  <2>1. Catalogs' = Catalogs
    BY DEF Catalogs
  <2>2. Place' = Place
    BY <2>1 DEF Place
  <2>3. Part' = Part
    BY <2>2 DEF Part
  <2>4. QED
    BY <2>1, <2>3 DEF Accs
<1>2. \A c : Catalog(c)' = Catalog(c)
  BY DEF Catalog
<1>3. \A c : Schemas(c)' = Schemas(c)
  BY <1>2 DEF Schemas
<1>4. \A c : Entry(c)' = Entry(c)
  BY DEF Entry
<1>5. \A c : First(c)' = First(c)
  BY <1>4 DEF First
<1>6. \A c, s, ph : BeginsAt(c, s, ph)' = BeginsAt(c, s, ph)
  BY <1>4 DEF BeginsAt
<1>7. \A c, s, ph : Offset(c, s, ph)' = Offset(c, s, ph)
  BY <1>4, <1>6 DEF Offset
<1>8. \A c, s : NoColumns(c, s)' = NoColumns(c, s)
  BY <1>3, <1>6 DEF NoColumns
<1>9. \A c, s, ph : Total(c, s, ph)' = Total(c, s, ph)
  BY <1>3 DEF Total
<1>10. ASSUME NEW acc, NEW u PROVE AskPart(acc, u)' = AskPart(acc, u)
  BY <1>3, <1>9 DEF AskPart
<1>11. ASSUME NEW acc, NEW c, NEW s PROVE AskTables(acc, c, s)' = AskTables(acc, c, s)
  BY <1>6, <1>7, <1>10 DEF AskTables
<1>12. ASSUME NEW acc, NEW c, NEW s PROVE AskSchema(acc, c, s)' = AskSchema(acc, c, s)
  <2>1. AskTables(acc, c, s)' = AskTables(acc, c, s)
    BY <1>11
  <2>2. NoColumns(c, s)' = NoColumns(c, s) /\ Offset(c, s, Columns)' = Offset(c, s, Columns)
    BY <1>7, <1>8
  <2>3. \A tables, u : AskPart(tables, u)' = AskPart(tables, u)
    BY <1>10
  <2>4. QED
    BY <2>1, <2>2, <2>3 DEF AskSchema
<1>13. QED
  BY <1>1, <1>2, <1>3, <1>4, <1>5, <1>6, <1>7, <1>8, <1>10, <1>11, <1>12

LEMMA SchemasAre ==
  WorldTyped => \A f : \A d \in Catalogs, a \in Accs : f = SchemasUpTo(a, d) => BySchemas(f, a, d)
  BY SchemasUpToIs

LEMMA SchemasStay ==
  ASSUME WorldTyped, WorldTyped', UNCHANGED <<world, mode, begin>>, NEW c \in Catalogs, NEW acc \in Accs
  PROVE  SchemasUpTo(acc, c)' = SchemasUpTo(acc, c)
<1> DEFINE n == Len(Schemas(c))
<1>1. SUFFICES ASSUME NEW g, NEW h, g = SchemasUpTo(acc, c), h = SchemasUpTo(acc, c)' PROVE g = h
  OBVIOUS
<1>2. BySchemas(g, acc, c)
  BY <1>1, SchemasAre
<1>3. BySchemas(h, acc, c)'
  <2>1. (WorldTyped => \A f : \A d \in Catalogs, a \in Accs : f = SchemasUpTo(a, d) => BySchemas(f, a, d))'
    BY SchemasAre, PTL
  <2>2. QED
    BY <1>1, <2>1, AskStays
<1>4. /\ g \in [0..n -> Accs]
      /\ \A s \in 0..n : g[s] = IF s < First(c) THEN acc ELSE AskSchema(g[s - 1], c, s)
  BY <1>2 DEF BySchemas
<1>5. /\ h \in [0..n -> Accs]
      /\ \A s \in 0..n : h[s] = IF s < First(c) THEN acc ELSE AskSchema(h[s - 1], c, s)
  BY <1>3, AskStays DEF BySchemas
<1>6. n \in Nat /\ First(c) \in Nat \ {0}
  BY SchemasType, OffsetType
<1> HIDE DEF n
<1>7. OnRange(g, n) /\ OnRange(h, n)
  BY <1>4, <1>5, <1>6, RangeIs
<1>8. g[0] = h[0]
  BY <1>4, <1>5, <1>6
<1>9. ASSUME NEW s \in 1..n, g[s - 1] = h[s - 1] PROVE g[s] = h[s]
  BY <1>4, <1>5, <1>6, <1>9
<1>10. QED
  BY <1>6, <1>7, <1>8, <1>9, SameOnRange

LEMMA AskCatalogStays ==
  ASSUME WorldTyped, WorldTyped', UNCHANGED <<world, mode, begin>>, NEW c \in Catalogs, NEW acc \in Accs
  PROVE  AskCatalog(acc, c)' = AskCatalog(acc, c)
<1>1. SchemasUpTo(acc, c)' = SchemasUpTo(acc, c)
  BY SchemasStay
<1>2. Schemas(c)' = Schemas(c) /\ Entry(c)' = Entry(c) /\ Catalog(c)' = Catalog(c)
  BY AskStays
<1>3. SchemasUpTo(acc, c)[Len(Schemas(c))]' = SchemasUpTo(acc, c)[Len(Schemas(c))]
  BY <1>1, <1>2
<1>4. QED
  BY <1>2, <1>3 DEF AskCatalog

LEMMA CatalogsAre == WorldTyped => \A f : f = CatalogsUpTo => ByCatalogs(f)
  BY CatalogsUpToIs

LEMMA CatalogsStay ==
  ASSUME WorldTyped, WorldTyped', UNCHANGED <<world, mode, begin>>
  PROVE  CatalogsUpTo' = CatalogsUpTo /\ OneAtATime' = OneAtATime
<1> DEFINE n == Len(world.catalogs)
           k == FirstOf(begin)
<1>1. SUFFICES ASSUME NEW g, NEW h, g = CatalogsUpTo, h = CatalogsUpTo' PROVE g = h
  <2>1. CatalogsUpTo' = CatalogsUpTo
    BY <1>1
  <2>2. QED
    BY <2>1 DEF OneAtATime
<1>2. ByCatalogs(g)
  BY <1>1, CatalogsAre
<1>3. ByCatalogs(h)'
  <2>1. (WorldTyped => \A f : f = CatalogsUpTo => ByCatalogs(f))'
    BY CatalogsAre, PTL
  <2>2. QED
    BY <1>1, <2>1
<1>4. n \in Nat /\ k \in Nat \ {0} /\ Catalogs = 1..n /\ n' = n /\ k' = k /\ Accs' = Accs
  BY WorldNumbers, AskStays
<1>5. /\ g \in [0..n -> Accs]
      /\ \A c \in 0..n : g[c] = IF c < k THEN Nothing ELSE AskCatalog(g[c - 1], c)
  BY <1>2 DEF ByCatalogs
<1>6. /\ h \in [0..n -> Accs]
      /\ \A c \in 0..n : h[c] = IF c < k THEN Nothing ELSE (AskCatalog(h[c - 1], c))'
  BY <1>3, <1>4 DEF ByCatalogs
<1> HIDE DEF n, k
<1>7. OnRange(g, n) /\ OnRange(h, n)
  BY <1>4, <1>5, <1>6, RangeIs
<1>8. g[0] = h[0]
  BY <1>4, <1>5, <1>6
<1>9. ASSUME NEW c \in 1..n, g[c - 1] = h[c - 1] PROVE g[c] = h[c]
  <2>1. c \in Catalogs /\ c \in 0..n /\ c - 1 \in 0..n
    BY <1>4
  <2>2. h[c - 1] \in Accs
    BY <1>6, <2>1
  <2>3. AskCatalog(h[c - 1], c)' = AskCatalog(h[c - 1], c)
    <3>1. \A acc \in Accs : AskCatalog(acc, c)' = AskCatalog(acc, c)
      BY <2>1, AskCatalogStays
    <3>2. QED
      BY <2>2, <3>1
  <2>4. QED
    BY <1>5, <1>6, <1>9, <2>1, <2>3
<1>10. QED
  BY <1>4, <1>7, <1>8, <1>9, SameOnRange

LEMMA GivesStay ==
  ASSUME UNCHANGED <<world, mode, begin>>, NEW q, NEW from, NEW to
  PROVE  Gives(q, from, to)' <=> Gives(q, from, to)
<1>1. Accs' = Accs
  BY AskStays
<1>2. \A acc, e : Taken(acc, e)' = Taken(acc, e)
  BY DEF Taken, Stopped, Take, TakeRows
<1>3. \A f : Takings(f, q, from, to)' <=> Takings(f, q, from, to)
  BY <1>1, <1>2 DEF Takings
<1>4. QED
  BY <1>3 DEF Gives

LEMMA AskedStay ==
  ASSUME WorldTyped, WorldTyped', UNCHANGED <<world, mode, begin>>, NEW c \in Catalogs, NEW acc \in Accs,
         NEW F, NEW at
  PROVE  Asked(F, acc, c, at)' <=> Asked(F, acc, c, at)
<1> DEFINE s == at[1]
<1>1. SUFFICES ASSUME NEW g, g = SchemasUpTo(acc, c)[s - 1], g = (SchemasUpTo(acc, c)[s - 1])'
               PROVE  Asked(F, acc, c, at)' <=> Asked(F, acc, c, at)
  BY SchemasStay
<1>2. Asked(F, acc, c, at) <=>
        /\ s \in First(c)..Len(Schemas(c)) /\ at[3] = Offset(c, s, at[2])
        /\ \/ at[2] = Tables /\ ~BeginsAt(c, s, Columns) /\ F = g
           \/ at[2] = Columns /\ ~NoColumns(c, s) /\ F = AskTables(g, c, s)
  BY <1>1 DEF Asked
<1>3. (AskTables(SchemasUpTo(acc, c)[s - 1], c, s))' = AskTables(g, c, s)
  <2>1. (AskTables(SchemasUpTo(acc, c)[s - 1], c, s))' = (AskTables(g, c, s))'
    BY <1>1 DEF AskTables, AskPart, Stopped
  <2>2. QED
    BY <2>1, AskStays
<1>4. QED
  BY <1>1, <1>2, <1>3, AskStays DEF Asked

LEMMA TaleStays ==
  ASSUME WorldTyped, WorldTyped', UNCHANGED <<world, mode, begin>>, NEW c \in Catalogs, NEW acc \in Accs,
         NEW w, NEW from
  PROVE  Tale(w, c, acc, from)' <=> Tale(w, c, acc, from)
<1>1. AskCatalog(acc, c)' = AskCatalog(acc, c)
  BY AskCatalogStays
<1>2. Opens(acc, c)' <=> Opens(acc, c)
  BY AskStays DEF Opens, Stopped
<1>3. \A F : Asked(F, acc, c, w.at)' <=> Asked(F, acc, c, w.at)
  BY AskedStay
<1>4. Catalog(c)' = Catalog(c)
  BY AskStays
<1>5. \A F : Agrees(F, w, c, acc)' <=> Agrees(F, w, c, acc)
  BY <1>1, <1>2, <1>3, <1>4 DEF Agrees, Stopped
<1>6. \A F : Gives(w.events, from, F)' <=> Gives(w.events, from, F)
  BY GivesStay
<1>7. QED
  BY <1>5, <1>6 DEF Tale

-----------------------------------------------------------------------------
(* The walks, while the pass replays them *)

\* A walk of catalog c, while a pass that found acc replays catalog i: one that has told
\* of something tells what the catalog answers, the next one after what the pass took of
\* it, and one ahead whatever the pass takes before it.
WalkTells(w, c, acc, i) ==
  /\ w.st = "queued" => w.used = 0
  /\ c = i /\ w.st \in {"off", "queued"} => acc = CatalogsUpTo[i - 1]
  /\ c = i /\ w.st \notin {"off", "queued"} => Tale(w, c, CatalogsUpTo[i - 1], acc)
  /\ c # i /\ w.st \notin {"off", "queued"} => \A from \in Accs : ~Stopped(from) => Tale(w, c, from, from)

WalksTell(ws, acc, i) == ~Stopped(acc) /\ \A c \in Catalogs : c >= i => WalkTells(ws[c], c, acc, i)

\* While time is left, a pass takes what one catalog at a time answers.
Answering ==
  ~timeUp =>
    /\ main \in {"fill", "next"} =>
         ~cancelled /\ \E ws, acc, i : ws = walker /\ acc = part /\ i = index /\ WalksTell(ws, acc, i)
    /\ main \in {"leaving", "joining"} => part = OneAtATime

LEMMA TellsStay ==
  ASSUME WorldTyped, WorldTyped', UNCHANGED <<world, mode, begin>>, NEW ws, NEW acc, NEW i \in Catalogs
  PROVE  WalksTell(ws, acc, i)' <=> WalksTell(ws, acc, i)
<1>1. Catalogs' = Catalogs /\ Accs' = Accs
  BY AskStays
<1>2. PICK at : at = CatalogsUpTo[i - 1]
  OBVIOUS
<1>3. at \in Accs /\ (CatalogsUpTo[i - 1])' = at
  <2>1. i - 1 \in 0..Len(world.catalogs)
    BY WorldNumbers
  <2>2. CatalogsUpTo[i - 1] \in Accs
    BY <2>1, CatalogsUpToIs DEF ByCatalogs
  <2>3. QED
    BY <1>2, <2>2, CatalogsStay
<1>4. ASSUME NEW c \in Catalogs, NEW w PROVE WalkTells(w, c, acc, i)' <=> WalkTells(w, c, acc, i)
  <2>1. \A from \in Accs : Tale(w, c, from, from)' <=> Tale(w, c, from, from)
    BY TaleStays
  <2>2. Tale(w, c, at, acc)' <=> Tale(w, c, at, acc)
    BY <1>3, TaleStays
  <2>3. Tale(w, c, CatalogsUpTo[i - 1], acc) <=> Tale(w, c, at, acc)
    BY <1>2
  <2>4. Tale(w, c, CatalogsUpTo[i - 1], acc)' <=> Tale(w, c, at, acc)'
    BY <1>3 DEF Tale, Agrees
  <2>5. QED
    BY <1>1, <1>2, <1>3, <2>1, <2>2, <2>3, <2>4 DEF WalkTells, Stopped
<1>5. QED
  BY <1>1, <1>4 DEF WalksTell, Stopped

LEMMA AnsweringMade ==
  ASSUME Typed, Typed', UNCHANGED <<world, mode, begin>>,
         ~timeUp' =>
           /\ main' \in {"fill", "next"} =>
                ~cancelled' /\ \E ws, acc, i : ws = walker' /\ acc = part' /\ i = index' /\ WalksTell(ws, acc, i)
           /\ main' \in {"leaving", "joining"} => part' = OneAtATime
  PROVE  Answering'
<1>1. WorldTyped /\ WorldTyped' /\ Catalogs' = Catalogs
  BY AskStays DEF Typed
<1>2. main' \in {"fill", "next"} => index' \in Catalogs
  BY <1>1 DEF Typed
<1>3. OneAtATime' = OneAtATime
  BY <1>1, CatalogsStay
<1>4. \A ws, acc : \A i \in Catalogs : WalksTell(ws, acc, i)' <=> WalksTell(ws, acc, i)
  BY <1>1, TellsStay
<1>5. QED
  BY <1>2, <1>3, <1>4 DEF Answering

LEMMA TellsNow ==
  ASSUME Answering, ~timeUp, main \in {"fill", "next"}
  PROVE  WalksTell(walker, part, index) /\ ~cancelled
  BY DEF Answering

\* The walks, the pass and the catalog it replays stand as they did, or no longer matter.
LEMMA StillAnswering ==
  ASSUME Typed, Typed', Answering, UNCHANGED <<world, mode, begin, part>>, timeUp => timeUp',
         main' \in {"fill", "next"} => main \in {"fill", "next"} /\ UNCHANGED <<index, walker, cancelled>>,
         main' \in {"leaving", "joining"} => main \in {"leaving", "joining"}
  PROVE  Answering'
<1>1. SUFFICES ASSUME ~timeUp'
               PROVE  /\ main' \in {"fill", "next"} =>
                           /\ ~cancelled'
                           /\ \E ws, acc, i : ws = walker' /\ acc = part' /\ i = index' /\ WalksTell(ws, acc, i)
                      /\ main' \in {"leaving", "joining"} => part' = OneAtATime
  BY AnsweringMade
<1>2. ~timeUp
  BY <1>1
<1>3. QED
  BY <1>2 DEF Answering

\* One walk moves, or gets a thread.
LEMMA MoveAnswering ==
  ASSUME Typed, Typed', Answering, UNCHANGED <<world, mode, begin, part, index, cancelled, timeUp>>,
         main' \in {"fill", "next"} => main \in {"fill", "next"},
         main' \in {"leaving", "joining"} => main \in {"leaving", "joining"},
         NEW c, NEW v, walker' = [walker EXCEPT ![c] = v],
         c \in Catalogs /\ main \in {"fill", "next"} /\ ~timeUp /\ ~cancelled
           /\ c >= index /\ WalkTells(walker[c], c, part, index)
           => WalkTells(v, c, part, index)
  PROVE  Answering'
<1>1. SUFFICES ASSUME ~timeUp'
               PROVE  /\ main' \in {"fill", "next"} =>
                           /\ ~cancelled'
                           /\ \E ws, acc, i : ws = walker' /\ acc = part' /\ i = index' /\ WalksTell(ws, acc, i)
                      /\ main' \in {"leaving", "joining"} => part' = OneAtATime
  BY AnsweringMade
<1>2. main' \in {"leaving", "joining"} => part' = OneAtATime
  BY <1>1 DEF Answering
<1>3. ASSUME main' \in {"fill", "next"}
      PROVE  ~cancelled' /\ WalksTell(walker', part, index)
  <2>1. WalksTell(walker, part, index) /\ ~cancelled
    BY <1>1, <1>3, TellsNow
  <2>2. \A d \in Catalogs : walker'[d] = IF d = c THEN v ELSE walker[d]
    BY DEF Typed
  <2>3. ASSUME NEW d \in Catalogs, d >= index PROVE WalkTells(walker'[d], d, part, index)
    <3>1. WalkTells(walker[d], d, part, index)
      BY <2>1, <2>3 DEF WalksTell
    <3>2. CASE d = c
      <4>1. WalkTells(v, d, part, index)
        BY <1>1, <1>3, <2>1, <2>3, <3>1, <3>2
      <4>2. QED
        BY <2>2, <3>2, <4>1
    <3>3. CASE d # c
      BY <2>2, <3>1, <3>3
    <3>4. QED
      BY <3>2, <3>3
  <2>4. QED
    BY <2>1, <2>3 DEF WalksTell
<1>4. QED
  BY <1>2, <1>3

\* A walk that only changes hands tells the same.
LEMMA SameTale ==
  ASSUME NEW c, NEW w, NEW v, v.events = w.events, v.used = w.used, v.at = w.at, v.listing = w.listing,
         v.st = w.st \/ (v.st = "reading" /\ w.st = "asking"), NEW acc, NEW from, Tale(w, c, acc, from)
  PROVE  Tale(v, c, acc, from)
<1>1. PICK F : Gives(w.events, from, F) /\ Agrees(F, w, c, acc)
  BY DEF Tale
<1>2. Agrees(F, v, c, acc)
  BY <1>1 DEF Agrees
<1>3. QED
  BY <1>1, <1>2 DEF Tale

LEMMA SameTells ==
  ASSUME NEW c, NEW w, NEW v, v.events = w.events, v.used = w.used, v.at = w.at, v.listing = w.listing,
         v.st = w.st \/ (v.st = "reading" /\ w.st = "asking"), NEW acc, NEW i, WalkTells(w, c, acc, i)
  PROVE  WalkTells(v, c, acc, i)
<1>1. \A a, from : Tale(w, c, a, from) => Tale(v, c, a, from)
  BY SameTale
<1>2. QED
  BY <1>1 DEF WalkTells

\* A walk that opens, with no more rows than the pass.
LEMMA OpenTells ==
  ASSUME WorldTyped, NEW c \in Catalogs, NEW w \in WalkRecord(c), w.events = <<>>,
         NEW acc \in Accs, ~Stopped(acc), NEW i, w.used <= Len(acc.rows), c = i \/ w.used = 0,
         c = i => acc = CatalogsUpTo[i - 1]
  PROVE  WalkTells(Open(w, c), c, acc, i)
<1>1. Open(w, c).st \notin {"off", "queued"}
  BY OpenWalk DEF Moved
<1>2. c = i => Tale(Open(w, c), c, CatalogsUpTo[i - 1], acc)
  <2>1. Tale(Open(w, c), c, acc, acc)
    BY OpenTale
  <2>2. QED
    BY <2>1
<1>3. ASSUME c # i, NEW from \in Accs, ~Stopped(from) PROVE Tale(Open(w, c), c, from, from)
  <2>1. w.used <= Len(from.rows)
    BY <1>3 DEF Accs, Part
  <2>2. QED
    BY <1>3, <2>1, OpenTale
<1>4. QED
  BY <1>1, <1>2, <1>3 DEF WalkTells

LEMMA FillAnswering ==
  ASSUME IInv, Typed', Answering, Fill \/ FillFails
  PROVE  Answering'
<1>1. PICK held \in BOOLEAN : Filling /\ Queue(held)
  BY DEF Fill, FillFails
<1> DEFINE v == [Idle EXCEPT !.st = "queued", !.thread = TRUE, !.holds = held]
<1>2. v.st = "queued" /\ v.used = 0
  BY DEF Idle
<1>3. /\ walker' = [walker EXCEPT ![ahead + 1] = v]
      /\ UNCHANGED <<world, mode, begin, part, index, cancelled, timeUp>>
      /\ main' \in {main, "raising"} /\ main = "fill"
  BY <1>1 DEF Queue, OnlyScan, fixed, Fill, FillFails, Filling
<1> HIDE DEF v
<1>4. ASSUME ahead + 1 \in Catalogs, WalkTells(walker[ahead + 1], ahead + 1, part, index)
      PROVE  WalkTells(v, ahead + 1, part, index)
  <2>1. walker[ahead + 1].st = "off"
    <3>1. ahead + 1 > ahead
      BY DEF IInv, Typed
    <3>2. QED
      BY <1>3, <1>4, <3>1 DEF IInv, Held
  <2>2. QED
    BY <1>2, <1>4, <2>1 DEF WalkTells
<1>5. QED
  BY <1>3, <1>4, MoveAnswering DEF IInv

LEMMA WalkAloneAnswering ==
  ASSUME IInv, Typed', Answering, WalkAlone
  PROVE  Answering'
<1> DEFINE w == [Idle EXCEPT !.used = Len(part.rows)]
           v == Open(w, index)
<1>1. /\ Typed /\ WorldTyped /\ index \in Catalogs /\ walker[index].st = "off" /\ main = "next"
      /\ walker' = [walker EXCEPT ![index] = v]
      /\ UNCHANGED <<world, mode, begin, part, index, cancelled, timeUp, main>>
  <2>1. Typed /\ main = "next"
    BY DEF IInv, WalkAlone
  <2> HIDE DEF v
  <2>2. WorldTyped /\ index \in Catalogs
    BY <2>1 DEF Typed
  <2>3. walker[index].st = "off" /\ walker' = [walker EXCEPT ![index] = v]
    BY DEF WalkAlone, v
  <2>4. QED
    BY <2>1, <2>2, <2>3 DEF WalkAlone, OnlyScan, fixed
<1>2. part \in Accs /\ Len(part.rows) \in 0..PageSize
  <2>1. part \in Accs
    BY <1>1 DEF Typed, Fits, Accs
  <2>2. QED
    BY <2>1, SearchAssumption DEF Part, Accs
<1>3. w \in WalkRecord(index) /\ w.events = <<>> /\ w.used = Len(part.rows)
  <2>1. w \in WalkRecord(index)
    BY <1>1, <1>2, IdleWalk
  <2>2. QED
    BY <2>1 DEF Idle
<1> HIDE DEF w
<1>4. ASSUME ~timeUp, WalkTells(walker[index], index, part, index)
      PROVE  WalkTells(v, index, part, index)
  <2>1. part = CatalogsUpTo[index - 1]
    BY <1>1, <1>4 DEF WalkTells
  <2>2. ~Stopped(part)
    BY <1>1, <1>4, TellsNow DEF WalksTell
  <2>3. w.used <= Len(part.rows)
    BY <1>2, <1>3
  <2>4. QED
    BY <1>1, <1>2, <1>3, <2>1, <2>2, <2>3, OpenTells
<1> HIDE DEF v
<1>5. QED
  BY <1>1, <1>4, MoveAnswering

\* An event of the next walk is taken: what is left tells the rest, or the pass stops
\* where one catalog at a time does.
LEMMA ReplayAnswering ==
  ASSUME IInv, Ordered, Typed', Answering, Replay
  PROVE  Answering'
<1> DEFINE w   == walker[index]
           q   == w.events
           v   == [w EXCEPT !.events = Tail(@)]
           new == Take(part, Head(q))
           acc == CatalogsUpTo[index - 1]
<1>1. /\ Typed /\ WorldTyped /\ index \in Catalogs /\ w.st = "ended" /\ q # <<>>
      /\ w \in WalkRecord(index) /\ main = "next" /\ q \in Seq(Event(index))
  BY DEF IInv, Typed, Replay, SoundWalk, WalkRecord
<1>2. v.events = Tail(q) /\ v.st = "ended" /\ v.used = w.used
  BY <1>1 DEF WalkRecord
<1>3. /\ walker' = [walker EXCEPT ![index] = v] /\ part' = new
      /\ main' = IF new.stop # NoStop \/ new.error THEN "leaving" ELSE "next"
      /\ UNCHANGED <<world, mode, begin, index, cancelled, timeUp>>
  BY <1>1 DEF Replay, OnlyScan, fixed
<1>4. /\ \A c \in Catalogs : walker'[c] = IF c = index THEN v ELSE walker[c]
      /\ \A c \in Catalogs : c \in Nat
  <2> HIDE DEF v
  <2>1. \A c \in Catalogs : c \in Nat
    BY DEF Catalogs
  <2>2. QED
    BY <1>1, <1>3, <2>1 DEF Typed
<1> HIDE DEF v
<1>5. SUFFICES ASSUME ~timeUp'
               PROVE  /\ main' \in {"fill", "next"} =>
                           /\ ~cancelled'
                           /\ \E ws, a, i : ws = walker' /\ a = part' /\ i = index' /\ WalksTell(ws, a, i)
                      /\ main' \in {"leaving", "joining"} => part' = OneAtATime
  BY <1>1, <1>3, AnsweringMade
<1>6. WalksTell(walker, part, index) /\ ~cancelled /\ ~Stopped(part)
  BY <1>1, <1>3, <1>5, TellsNow DEF WalksTell
<1>7. Tale(w, index, acc, part)
  BY <1>1, <1>4, <1>6 DEF WalksTell, WalkTells
<1>8. PICK F : Gives(q, part, F) /\ Agrees(F, w, index, acc)
  BY <1>7 DEF Tale
<1>9. Gives(Tail(q), new, F)
  <2>1. Taken(part, Head(q)) = new
    BY <1>6 DEF Taken
  <2> HIDE DEF q, new
  <2>2. QED
    BY <1>1, <1>8, <2>1, GivesTail
<1>10. Stopped(new) <=> main' = "leaving"
  BY <1>3 DEF Stopped
<1>11. Tail(q) \in Seq(Event(index))
  BY <1>1
<1> HIDE DEF q, new
<1>12. CASE Stopped(new)
  <2>1. F = new
    BY <1>9, <1>11, <1>12, GivesStopped
  <2>2. F = AskCatalog(acc, index)
    BY <1>8, <1>12, <2>1 DEF Agrees
  <2>3. CatalogsUpTo[index] = AskCatalog(acc, index)
    <3>1. index \in 0..Len(world.catalogs) /\ ~(index < FirstOf(begin))
      BY <1>1, WorldNumbers DEF Ordered
    <3>2. QED
      BY <1>1, <3>1, CatalogsUpToIs DEF ByCatalogs
  <2>4. OneAtATime = new
    <3>1. index \in 0..Len(world.catalogs)
      BY <1>1, WorldNumbers
    <3>2. QED
      BY <1>1, <1>12, <2>1, <2>2, <2>3, <3>1, CatalogsStop
  <2>5. QED
    BY <1>3, <1>10, <1>12, <2>4
<1>13. CASE ~Stopped(new)
  <2>1. main' = "next"
    BY <1>3, <1>10, <1>13
  <2>2. Tale(v, index, acc, new)
    <3>1. Agrees(F, v, index, acc)
      BY <1>1, <1>2, <1>8 DEF Agrees
    <3>2. QED
      BY <1>2, <1>9, <3>1 DEF Tale
  <2>3. WalkTells(v, index, new, index)
    BY <1>2, <2>2 DEF WalkTells
  <2>4. ASSUME NEW c \in Catalogs, c >= index PROVE WalkTells(walker'[c], c, new, index)
    <3>1. CASE c = index
      BY <1>4, <2>3, <3>1
    <3>2. CASE c # index
      <4>1. WalkTells(walker[c], c, part, index)
        BY <1>6, <2>4 DEF WalksTell
      <4>2. WalkTells(walker[c], c, new, index)
        BY <3>2, <4>1 DEF WalkTells
      <4>3. QED
        BY <1>4, <3>2, <4>2
    <3>3. QED
      BY <3>1, <3>2
  <2>5. WalksTell(walker', new, index)
    BY <1>13, <2>4 DEF WalksTell
  <2>6. QED
    BY <1>3, <1>6, <2>1, <2>5
<1>14. QED
  BY <1>12, <1>13

\* The next walk is replayed to its end: the pass found what its catalog answers.
LEMMA ReplayedAnswering ==
  ASSUME IInv, Ordered, Typed', Answering, Replayed
  PROVE  Answering'
<1> DEFINE w == walker[index]
<1>1. /\ Typed /\ WorldTyped /\ index \in Catalogs /\ w.st = "ended" /\ w.events = <<>> /\ main = "next"
      /\ part \in Accs
  BY DEF IInv, Typed, Replayed, Fits, Accs
<1>2. /\ index' = index + 1 /\ main' = IF index' > Len(world.catalogs) THEN "leaving" ELSE "fill"
      /\ UNCHANGED <<world, mode, begin, walker, part, cancelled, timeUp>>
  BY DEF Replayed, OnlyScan, fixed
<1>3. SUFFICES ASSUME ~timeUp'
               PROVE  /\ main' \in {"fill", "next"} =>
                           /\ ~cancelled'
                           /\ \E ws, acc, i : ws = walker' /\ acc = part' /\ i = index' /\ WalksTell(ws, acc, i)
                      /\ main' \in {"leaving", "joining"} => part' = OneAtATime
  BY <1>1, <1>2, AnsweringMade
<1>4. WalksTell(walker, part, index) /\ ~cancelled /\ ~Stopped(part)
  BY <1>1, <1>2, <1>3, TellsNow DEF WalksTell
<1>5. Len(world.catalogs) \in Nat /\ Catalogs = 1..Len(world.catalogs) /\ index \in Nat
  BY <1>1, WorldNumbers
<1>6. part = CatalogsUpTo[index]
  <2>1. Tale(w, index, CatalogsUpTo[index - 1], part)
    BY <1>1, <1>4, <1>5 DEF WalksTell, WalkTells
  <2>2. PICK F : Gives(w.events, part, F) /\ Agrees(F, w, index, CatalogsUpTo[index - 1])
    BY <2>1 DEF Tale
  <2>3. F = part
    BY <1>1, <2>2, GivesNone
  <2>4. part = AskCatalog(CatalogsUpTo[index - 1], index)
    BY <1>1, <2>2, <2>3 DEF Agrees
  <2>5. index \in 0..Len(world.catalogs) /\ ~(index < FirstOf(begin))
    BY <1>1, <1>5, WorldNumbers DEF Ordered
  <2>6. QED
    BY <1>1, <2>4, <2>5, CatalogsUpToIs DEF ByCatalogs
<1>7. CASE main' = "leaving"
  <2>1. index = Len(world.catalogs)
    BY <1>1, <1>2, <1>5, <1>7
  <2>2. QED
    BY <1>2, <1>6, <1>7, <2>1 DEF OneAtATime
<1>8. CASE main' = "fill"
  <2>1. ASSUME NEW c \in Catalogs, c >= index + 1 PROVE WalkTells(walker[c], c, part, index + 1)
    <3>1. c >= index /\ c # index /\ (index + 1) - 1 = index
      BY <1>5, <2>1
    <3>2. WalkTells(walker[c], c, part, index)
      BY <1>4, <3>1 DEF WalksTell
    <3>3. \A from \in Accs : walker[c].st \notin {"off", "queued"} /\ ~Stopped(from) => Tale(walker[c], c, from, from)
      BY <3>1, <3>2 DEF WalkTells
    <3>4. walker[c].st \notin {"off", "queued"} => Tale(walker[c], c, CatalogsUpTo[index], part)
      BY <1>1, <1>4, <1>6, <3>3
    <3>5. QED
      BY <1>6, <3>1, <3>2, <3>3, <3>4 DEF WalkTells
  <2>2. WalksTell(walker, part, index + 1)
    BY <1>4, <2>1 DEF WalksTell
  <2>3. QED
    BY <1>2, <1>4, <1>8, <2>2
<1>9. QED
  BY <1>2, <1>7, <1>8

LEMMA WalkStepAnswering ==
  ASSUME IInv, Ordered, Typed', Answering, NEW c \in Catalogs, Walk(c)
  PROVE  Answering'
<1> DEFINE w == walker[c]
           On == main \in {"fill", "next"} /\ ~timeUp /\ ~cancelled /\ c >= index /\ WalkTells(w, c, part, index)
<1>1. /\ Typed /\ WorldTyped /\ SoundWalk(w, c) /\ w \in WalkRecord(c) /\ WalkOrder(w, c)
      /\ part \in Accs /\ index \in Nat
  <2>1. Typed /\ WorldTyped /\ SoundWalk(w, c) /\ WalkOrder(w, c)
    BY DEF IInv, Typed, Ordered
  <2>2. part \in Accs /\ index \in Nat
    BY <2>1 DEF Typed, Fits, Accs
  <2>3. QED
    BY <2>1, <2>2 DEF SoundWalk
<1>2. ASSUME NEW v, walker' = [walker EXCEPT ![c] = v], OnlyWalk, On => WalkTells(v, c, part, index)
      PROVE  Answering'
  <2>1. UNCHANGED <<world, mode, begin, part, index, cancelled, timeUp, main>>
    BY <1>2 DEF OnlyWalk, fixed
  <2>2. QED
    BY <1>1, <1>2, <2>1, MoveAnswering
<1>3. CASE Begin(c)
  <2>1. w.st = "queued" /\ OnlyWalk /\ walker' = [walker EXCEPT ![c] = Open(w, c)] /\ w.events = <<>>
    BY <1>1, <1>3 DEF Begin, WalkOrder
  <2>2. ASSUME On PROVE WalkTells(Open(w, c), c, part, index)
    <3>1. w.used = 0 /\ (c = index => part = CatalogsUpTo[index - 1])
      BY <2>1, <2>2 DEF WalkTells
    <3>2. ~Stopped(part)
      BY <2>2, TellsNow DEF WalksTell
    <3>3. w.used <= Len(part.rows)
      BY <1>1, <3>1 DEF Accs, Part
    <3>4. QED
      BY <1>1, <2>1, <3>1, <3>2, <3>3, OpenTells
  <2>3. QED
    BY <1>2, <2>1, <2>2
<1>4. CASE Ask(c)
  <2>1. /\ w.st = "asking" /\ OnlyWalk
        /\ walker' = [walker EXCEPT ![c] =
             IF w.thread /\ cancelled THEN [w EXCEPT !.st = "dropped"]
             ELSE IF timeUp THEN OutOfTime(w, c) ELSE [w EXCEPT !.st = "reading"]]
    BY <1>4 DEF Ask
  <2> DEFINE v == IF w.thread /\ cancelled THEN [w EXCEPT !.st = "dropped"]
                  ELSE IF timeUp THEN OutOfTime(w, c) ELSE [w EXCEPT !.st = "reading"]
             read == [w EXCEPT !.st = "reading"]
  <2>2. ASSUME On PROVE WalkTells(v, c, part, index)
    <3>1. v = read
      BY <2>2
    <3>2. /\ read.events = w.events /\ read.used = w.used /\ read.at = w.at /\ read.listing = w.listing
          /\ read.st = "reading"
      BY <1>1 DEF WalkRecord
    <3> HIDE DEF read
    <3>3. WalkTells(read, c, part, index)
      BY <2>1, <2>2, <3>2, SameTells
    <3>4. QED
      BY <3>1, <3>3
  <2>3. walker' = [walker EXCEPT ![c] = v]
    BY <2>1
  <2> HIDE DEF v
  <2>4. QED
    BY <1>2, <2>1, <2>2, <2>3
<1>5. CASE Answers(c)
  <2>1. w.st = "reading" /\ OnlyWalk /\ walker' = [walker EXCEPT ![c] = Answered(w, c)]
    BY <1>5 DEF Answers
  <2>2. ASSUME On PROVE WalkTells(Answered(w, c), c, part, index)
    <3>1. \A acc, from : Tale(w, c, acc, from) => Tale(Answered(w, c), c, acc, from)
      BY <1>1, <2>1, <2>2, AnsweredTale
    <3>2. Answered(w, c).st \notin {"off", "queued"}
      BY <1>1, <2>1, AnsweredWalk DEF Moved
    <3>3. QED
      BY <2>1, <2>2, <3>1, <3>2 DEF WalkTells
  <2>3. QED
    BY <1>2, <2>1, <2>2
<1>6. CASE TimesOut(c) \/ CallTimesOut(c)
  <2>1. timeUp /\ OnlyWalk /\ \E v : walker' = [walker EXCEPT ![c] = v]
    BY <1>6 DEF TimesOut, CallTimesOut
  <2>2. QED
    BY <1>2, <2>1
<1>7. CASE IsCancelled(c)
  <2>1. cancelled /\ OnlyWalk /\ \E v : walker' = [walker EXCEPT ![c] = v]
    BY <1>7 DEF IsCancelled
  <2>2. QED
    BY <1>2, <2>1
<1>8. CASE Release(c)
  <2> DEFINE v == [w EXCEPT !.holds = FALSE]
  <2>1. walker' = [walker EXCEPT ![c] = v] /\ OnlyWalk
    BY <1>8 DEF Release
  <2>2. /\ v.events = w.events /\ v.used = w.used /\ v.at = w.at /\ v.listing = w.listing
        /\ v.st = w.st
    BY <1>1 DEF WalkRecord
  <2> HIDE DEF v
  <2>3. On => WalkTells(v, c, part, index)
    BY <2>2, SameTells
  <2>4. QED
    BY <1>2, <2>1, <2>3
<1>9. QED
  BY <1>3, <1>4, <1>5, <1>6, <1>7, <1>8 DEF Walk

\* A pass begins: nothing is found yet.
Starting ==
  /\ main = "fill" /\ ~cancelled /\ part = Nothing /\ index = FirstOf(begin)
  /\ walker = [c \in Catalogs |-> Idle]

LEMMA StartAnswers == Typed /\ Starting => Answering
<1> SUFFICES ASSUME Typed, Starting PROVE WalksTell(walker, part, index)
  BY DEF Answering, Starting
<1>1. WorldTyped /\ index \in Catalogs /\ index \in Nat /\ part = Nothing
  BY DEF Typed, Starting
<1>2. CatalogsUpTo[index - 1] = Nothing
  <2>1. index - 1 \in 0..Len(world.catalogs) /\ index - 1 < FirstOf(begin)
    BY <1>1, WorldNumbers DEF Starting
  <2>2. QED
    BY <1>1, <2>1, CatalogsUpToIs DEF ByCatalogs
<1>3. ~Stopped(Nothing)
  BY DEF Stopped, Nothing
<1>4. ASSUME NEW c \in Catalogs PROVE WalkTells(walker[c], c, part, index)
  <2>1. walker[c].st = "off"
    BY DEF Starting, Idle
  <2>2. QED
    BY <1>1, <1>2, <2>1 DEF WalkTells
<1>5. QED
  BY <1>1, <1>3, <1>4 DEF WalksTell

LEMMA ScanAnswers ==
  ASSUME Typed', NEW m, NEW cursor, Scan(m, cursor), UNCHANGED world
  PROVE  Answering'
<1>1. Starting'
  BY DEF Scan, Starting, Catalogs
<1>2. (Typed /\ Starting => Answering)'
  BY StartAnswers, PTL
<1>3. QED
  BY <1>1, <1>2

LEMMA StepAnswers == IInv /\ Ordered /\ Answering /\ [Next]_vars => Answering'
<1> SUFFICES ASSUME IInv, Ordered, Answering, [Next]_vars PROVE Answering'
  OBVIOUS
<1>0. Typed /\ Typed'
  <2>1. IInv'
    BY StepHolds
  <2>2. QED
    BY <2>1 DEF IInv
<1>1. CASE Fill \/ FillFails
  BY <1>0, <1>1, FillAnswering
<1>2. CASE Filled
  <2>1. UNCHANGED <<world, mode, begin, part, index, walker, cancelled, timeUp>> /\ main = "fill" /\ main' = "next"
    BY <1>2 DEF Filled, OnlyScan, fixed
  <2>2. QED
    BY <1>0, <2>1, StillAnswering
<1>3. CASE ReplayRaises \/ Leave
  <2>1. /\ UNCHANGED <<world, mode, begin, part, timeUp>> /\ main' \in {"raising", "joining", "failing"}
        /\ main' = "joining" => main = "leaving"
    BY <1>3 DEF ReplayRaises, Leave, OnlyScan, fixed
  <2>2. QED
    BY <1>0, <2>1, StillAnswering
<1>4. CASE WalkAlone
  BY <1>0, <1>4, WalkAloneAnswering
<1>5. CASE Replay
  BY <1>0, <1>5, ReplayAnswering
<1>6. CASE Replayed
  BY <1>0, <1>6, ReplayedAnswering
<1>7. CASE Answer \/ Fail
  <2>1. UNCHANGED <<world, mode, begin, part, timeUp>> /\ main' = "done"
    BY <1>7 DEF Answer, Fail, OnlyAnswer
  <2>2. QED
    BY <1>0, <2>1, StillAnswering
<1>8. CASE EachWord
  BY <1>0, <1>8, ScanAnswers DEF EachWord, OnlyAnswer
<1>9. CASE Resume
  BY <1>0, <1>9, ScanAnswers DEF Resume
<1>10. CASE \E c \in Catalogs : Walk(c)
  BY <1>0, <1>10, WalkStepAnswering
<1>11. CASE TimePasses \/ OthersTake \/ OthersGive \/ UNCHANGED vars
  <2>1. UNCHANGED <<world, mode, begin, part, index, walker, cancelled, main>> /\ (timeUp => timeUp')
    BY <1>11 DEF TimePasses, OthersTake, OthersGive, OnlyOthers, fixed, vars
  <2>2. QED
    BY <1>0, <2>1, StillAnswering
<1>12. QED
  BY <1>1, <1>2, <1>3, <1>4, <1>5, <1>6, <1>7, <1>8, <1>9, <1>10, <1>11
  DEF Next, Main, Over

LEMMA InitAnswers == Init => Answering
<1> SUFFICES ASSUME Init PROVE Answering
  OBVIOUS
<1>1. Typed
  BY InitHolds DEF IInv
<1>2. Starting
  BY DEF Init, Starting, FirstOf
<1>3. QED
  BY <1>1, <1>2, StartAnswers

\* Catalogs read at once, in whatever order their threads run, answer what they answer
\* one at a time: the same rows in the same order, the same gaps and the same stop, unless
\* the time of the call ran out (scan, walk, replay).
THEOREM SameAnswerHolds == Spec => []SameAnswer
<1>1. Spec => []Ordered
  BY InitOrder, StepOrder, IInvHolds, PTL DEF Spec
<1>2. Answering => SameAnswer
  BY DEF Answering, SameAnswer
<1>3. QED
  BY <1>1, <1>2, InitAnswers, StepAnswers, IInvHolds, PTL DEF Spec

=============================================================================
