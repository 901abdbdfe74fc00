---------------------------- MODULE ShownProofs ----------------------------
(***************************************************************************)
(* What Shown promises of every call, for any names, worlds, sources and   *)
(* clock: what is shown or asked was listed to that caller, and not long   *)
(* ago.  The invariant dates every fact a call or an entry of the cache    *)
(* rests on: a call knows only what Trino told its caller since one life   *)
(* of an entry before it began.  The answers rest on a second invariant:   *)
(* what a call serves was made of what the chain gave that very call.      *)
(***************************************************************************)
EXTENDS Shown, SequenceTheorems, FiniteSetTheorems, WellFoundedInduction, TLAPS

Fields == {"op", "who", "pc", "end", "refs", "cols", "complete", "goal", "stack", "held", "got",
           "listed", "names", "read", "answer"}

Asking == {"look", "ask", "keep"}
Active(r) == r.pc \notin {"idle", "ended"}

\* A set T of facts has that n was told to who, at `from` or later.
KnownIn(T, who, n, from) == \E t \in T : t.who = who /\ t.what = n /\ t.at >= from

\* When a call began; the oldest fact an entry it found may hold, and one found in an
\* entry made of such an entry.
Began(r) == r.end - Budget
Oldest(r) == r.end - 2 * Budget - Life + 1
OldestTwice(r) == r.end - 3 * Budget - 2 * Life + 2

Knows(T, r, names) == \A n \in names : KnownIn(T, r.who, n, Oldest(r))

\* Every list of catalogs is whole.
CatalogsFit == \A world \in Worlds : Cardinality(Under(Root) \cap world) <= MaxNames

\* What a call has been through, as its checks ask.
Cleared(T, r) == CatalogsFit /\ cfg.canary => KnownIn(T, r.who, Hidden, OldestTwice(r))
Validated(T, r) == cfg.select /\ r.op = "describe" => KnownIn(T, r.who, r.cols, Oldest(r))

\* What holds of a call at any of its steps.
Basis(T, r) ==
  /\ r.who \in Callers /\ r.end \in Int /\ r.stack \in Seq(Names)
  /\ r.end - Budget <= now /\ now <= r.end
  /\ r.op = "read" => r.refs = {Target}
  /\ r.op # "read" => Knows(T, r, r.refs)
  /\ r.op = "describe" => Table \in r.refs /\ Knows(T, r, r.cols)
  /\ Knows(T, r, r.listed)

\* What a proof is after, and what its call has been through.
Way(T, r) ==
  \/ r.goal = "canary" /\ r.stack = <<Root>>
  \/ /\ r.goal = "table" /\ r.op \in {"describe", "read"} /\ r.stack # <<>>
     /\ Cleared(T, r) /\ Validated(T, r)
  \/ /\ r.goal = "columns" /\ r.op = "describe" /\ r.stack = <<Target>> /\ Knows(T, r, {Target})
     /\ Cleared(T, r) /\ Validated(T, r)

\* What each step needs besides.
Stage(T, r) ==
  /\ r.pc = "record" => \A n \in r.refs : KnownIn(T, r.who, n, Began(r))
  /\ r.pc \in Asking => Way(T, r)
  /\ r.pc = "ask" => Knows(T, r, {r.stack[1]} \ {Root})
  /\ r.pc = "keep" =>
       /\ \A n \in r.held : KnownIn(T, r.who, n, Began(r))
       /\ CatalogsFit /\ r.stack[1] = Root /\ CanaryCatalog \notin r.held => KnownIn(T, r.who, Hidden, Began(r))
  /\ r.pc = "ask canary" => r.goal = "canary" /\ Knows(T, r, {CanaryCatalog})
  /\ r.pc = "keep canary" /\ CatalogsFit /\ r.held = {} => KnownIn(T, r.who, Hidden, Oldest(r))
  /\ r.pc \in {"select", "ask select", "keep select"} => r.op = "describe" /\ Cleared(T, r)
  /\ r.pc \in {"select", "ask select", "record", "canary"} => r.held = {}
  /\ r.pc = "keep select" /\ r.held # {} => KnownIn(T, r.who, r.cols, Began(r))
  /\ r.pc = "prove" => r.op \in {"describe", "read"}
  /\ r.pc \in {"prove", "gather", "serve"} => Cleared(T, r) /\ Validated(T, r)
  /\ r.pc = "gather" => Knows(T, r, r.refs)
  /\ r.pc = "serve" => r.op = "describe"

Fit(T, r) ==
  /\ DOMAIN r = Fields
  /\ r.pc # "ended" => r.names = {}
  /\ Active(r) => Basis(T, r) /\ Stage(T, r)

\* What an entry of the cache rests on.
EntryFit(T, e) ==
  /\ e.end \in Int
  /\ e.key[1] = "names" =>
       /\ \A n \in e.value : KnownIn(T, e.key[2], n, e.end - Life - Budget)
       /\ CatalogsFit /\ e.key[3] = Root /\ CanaryCatalog \notin e.value
            => KnownIn(T, e.key[2], Hidden, e.end - Life - Budget)
  /\ e.key[1] = "listed" => KnownIn(T, e.key[2], e.key[3], e.end - Life - Budget)
  /\ e.key[1] = "canary" /\ CatalogsFit /\ e.value = {} =>
       KnownIn(T, e.key[2], Hidden, e.end - 2 * Life - 2 * Budget + 1)
  /\ e.key[1] = "select" /\ e.value # {} => KnownIn(T, e.key[2], e.key[3], e.end - Life - Budget)

Dated(T) == \A t \in T : t.at \in Int /\ t.at <= now

ShownInv ==
  /\ now \in Nat /\ lists \in [Callers -> Worlds] /\ Dated(told)
  /\ \A e \in cache : EntryFit(told, e)
  /\ DOMAIN call = Calls /\ \A c \in Calls : Fit(told, call[c])

-----------------------------------------------------------------------------
LEMMA Constants == Life \in Nat \ {0} /\ Budget \in Nat \ {0}
  BY ShownAssumption DEF ShownAssumption

\* Facts are told again, never forgotten.
Grows(T, U) == \A who, n : \A from \in Int : KnownIn(T, who, n, from) => KnownIn(U, who, n, from)

LEMMA TellGrows ==
  ASSUME now \in Nat, Dated(told), NEW who, NEW facts, Tell(who, facts)
  PROVE  /\ Grows(told, told') /\ Dated(told')
         /\ \A n \in facts : \A from \in Int : from <= now => KnownIn(told', who, n, from)
  <1> DEFINE new == [who : {who}, what : facts, at : {now}]
  <1>1. told' = {t \in told : t.who # who \/ t.what \notin facts} \cup new
    BY DEF Tell
  <1>2. \A n \in facts : [who |-> who, what |-> n, at |-> now] \in new
    OBVIOUS
  <1>3. \A n \in facts : \A from \in Int : from <= now => KnownIn(told', who, n, from)
    BY <1>1, <1>2 DEF KnownIn
  <1>4. Dated(told')
    BY <1>1 DEF Dated
  <1>5. Grows(told, told')
    <2> SUFFICES ASSUME NEW w, NEW n, NEW from \in Int, NEW t \in told, t.who = w, t.what = n, t.at >= from
                 PROVE  KnownIn(told', w, n, from)
      BY DEF Grows, KnownIn
    <2>1. CASE t.who # who \/ t.what \notin facts
      BY <2>1, <1>1 DEF KnownIn
    <2>2. CASE t.who = who /\ t.what \in facts
      BY <2>2, <1>3 DEF Dated
    <2> QED
      BY <2>1, <2>2
  <1> QED
    BY <1>3, <1>4, <1>5

LEMMA Later ==
  ASSUME NEW T, NEW who, NEW n, NEW from \in Int, NEW to \in Int, to <= from, Dated(T), KnownIn(T, who, n, from)
  PROVE  KnownIn(T, who, n, to)
  BY DEF KnownIn, Dated

LEMMA FitGrows ==
  ASSUME NEW T, NEW U, Grows(T, U), NEW r, Fit(T, r)
  PROVE  Fit(U, r)
  <1> SUFFICES ASSUME Active(r) PROVE Basis(U, r) /\ Stage(U, r)
    BY DEF Fit
  <1>1. Basis(T, r) /\ Stage(T, r) /\ r.end \in Int
    BY DEF Fit, Basis
  <1>2. Began(r) \in Int /\ Oldest(r) \in Int /\ OldestTwice(r) \in Int
    BY <1>1, Constants DEF Began, Oldest, OldestTwice
  <1>3. \A n : /\ KnownIn(T, r.who, n, Began(r)) => KnownIn(U, r.who, n, Began(r))
               /\ KnownIn(T, r.who, n, Oldest(r)) => KnownIn(U, r.who, n, Oldest(r))
               /\ KnownIn(T, r.who, n, OldestTwice(r)) => KnownIn(U, r.who, n, OldestTwice(r))
    BY <1>2 DEF Grows
  <1>4. \A names : Knows(T, r, names) => Knows(U, r, names)
    BY <1>3 DEF Knows
  <1>5. (Cleared(T, r) => Cleared(U, r)) /\ (Validated(T, r) => Validated(U, r))
    BY <1>3 DEF Cleared, Validated
  <1>6. Way(T, r) => Way(U, r)
    BY <1>4, <1>5 DEF Way
  <1>7. Basis(U, r)
    BY <1>1, <1>4 DEF Basis
  <1>a. /\ r.pc = "record" => \A n \in r.refs : KnownIn(U, r.who, n, Began(r))
        /\ r.pc = "keep" => \A n \in r.held : KnownIn(U, r.who, n, Began(r))
        /\ r.pc = "keep" /\ CatalogsFit /\ r.stack[1] = Root /\ CanaryCatalog \notin r.held =>
             KnownIn(U, r.who, Hidden, Began(r))
    BY <1>1, <1>3 DEF Stage
  <1>b. /\ r.pc = "keep canary" /\ CatalogsFit /\ r.held = {} => KnownIn(U, r.who, Hidden, Oldest(r))
        /\ r.pc = "keep select" /\ r.held # {} => KnownIn(U, r.who, r.cols, Began(r))
    BY <1>1, <1>3 DEF Stage
  <1>8. Stage(U, r)
    BY <1>1, <1>4, <1>5, <1>6, <1>a, <1>b DEF Stage
  <1> QED
    BY <1>7, <1>8

LEMMA EntryGrows ==
  ASSUME NEW T, NEW U, Grows(T, U), NEW e, EntryFit(T, e)
  PROVE  EntryFit(U, e)
  <1>1. e.end - Life - Budget \in Int /\ e.end - 2 * Life - 2 * Budget + 1 \in Int
    BY Constants DEF EntryFit
  <1> QED
    BY <1>1 DEF EntryFit, Grows
-----------------------------------------------------------------------------
(* The steps of a record *)

\* A record a step may leave, with nothing to show.
Quiet(T, s) == Fit(T, s) /\ s.names = {}

LEMMA Ages ==
  ASSUME NEW r, r.end \in Int
  PROVE  /\ Began(r) \in Int /\ Oldest(r) \in Int /\ OldestTwice(r) \in Int
         /\ OldestTwice(r) <= Oldest(r) /\ Oldest(r) <= Began(r)
  BY Constants DEF Began, Oldest, OldestTwice

LEMMA ServeNothingFit ==
  ASSUME NEW T, NEW r, DOMAIN r = Fields, NEW status
  PROVE  Quiet(T, ServeNothing(r, status))
  BY DEF Quiet, Fit, ServeNothing, Fields, Active

\* Basis of a record tells only of the fields of a call that its steps leave alone.
LEMMA BasisOf ==
  ASSUME NEW T, NEW r, NEW s, Basis(T, r), s.stack \in Seq(Names),
         s.who = r.who, s.end = r.end, s.op = r.op, s.refs = r.refs, s.cols = r.cols,
         Knows(T, r, s.listed)
  PROVE  Basis(T, s)
  BY DEF Basis, Knows, Oldest

LEMMA ClearFit ==
  ASSUME NEW T, NEW r, DOMAIN r = Fields, Basis(T, r), Cleared(T, r), r.names = {}, r.held = {}
  PROVE  Quiet(T, Clear(r))
  <1> DEFINE s == Clear(r)
  <1>1. /\ DOMAIN s = Fields /\ s.names = {} /\ s.held = {} /\ s.stack = r.stack
        /\ s.who = r.who /\ s.end = r.end /\ s.op = r.op /\ s.refs = r.refs /\ s.cols = r.cols /\ s.listed = r.listed
        /\ s.pc = CASE r.op = "describe" /\ cfg.select -> "select" [] r.op = "read" -> "prove" [] OTHER -> "gather"
    BY DEF Clear, Fields
  <1> HIDE DEF s
  <1>2. Basis(T, s)
    BY <1>1, BasisOf DEF Basis
  <1>3. Cleared(T, s)
    BY <1>1 DEF Cleared, OldestTwice
  <1>4. s.pc \in {"prove", "gather"} => Validated(T, s)
    BY <1>1 DEF Validated
  <1>5. Stage(T, s)
    BY <1>1, <1>2, <1>3, <1>4 DEF Stage, Asking, Basis
  <1> QED
    BY <1>1, <1>2, <1>5 DEF Quiet, Fit, s

\* A list that is whole, for the check of the canary, or says nothing of it.
Hides(T, r, n, found, from) ==
  CatalogsFit /\ n = Root /\ CanaryCatalog \notin found => KnownIn(T, r.who, Hidden, from)

LEMMA ConcludeFit ==
  ASSUME NEW T, NEW r, DOMAIN r = Fields, Basis(T, r), Way(T, r), r.names = {},
         NEW found, Knows(T, r, found), r.goal = "canary" => Hides(T, r, Root, found, Oldest(r))
  PROVE  Quiet(T, Conclude(r, found))
  <1>0. <<>> \in Seq(Names) /\ <<Target>> \in Seq(Names) /\ Knows(T, r, r.listed)
    BY ShownAssumption DEF ShownAssumption, Basis
  <1>1. CASE r.goal = "canary"
    <2> DEFINE s == [r EXCEPT !.stack = <<>>, !.held = {},
                              !.pc = IF CanaryCatalog \in found THEN "ask canary" ELSE "keep canary"]
    <2>1. Conclude(r, found) = s
      BY <1>1 DEF Conclude
    <2>2. /\ DOMAIN s = Fields /\ s.names = {} /\ s.held = {} /\ s.stack = <<>> /\ s.goal = "canary"
          /\ s.who = r.who /\ s.end = r.end /\ s.op = r.op /\ s.refs = r.refs /\ s.cols = r.cols /\ s.listed = r.listed
          /\ s.pc = IF CanaryCatalog \in found THEN "ask canary" ELSE "keep canary"
      BY <1>1 DEF Fields
    <2> HIDE DEF s
    <2>3. Basis(T, s)
      BY <2>2, <1>0, BasisOf
    <2>4. Stage(T, s)
      BY <2>2, <1>1 DEF Stage, Asking, Knows, Hides, Oldest
    <2> QED
      BY <2>1, <2>2, <2>3, <2>4 DEF Quiet, Fit
  <1>2. CASE r.goal = "table" /\ r.op = "read" /\ Target \in found
    <2> DEFINE s == [r EXCEPT !.stack = <<>>, !.held = {}, !.pc = "gather"]
    <2>1. Conclude(r, found) = s
      BY <1>2 DEF Conclude
    <2>2. /\ DOMAIN s = Fields /\ s.names = {} /\ s.stack = <<>> /\ s.pc = "gather"
          /\ s.who = r.who /\ s.end = r.end /\ s.op = r.op /\ s.refs = r.refs /\ s.cols = r.cols /\ s.listed = r.listed
      BY DEF Fields
    <2> HIDE DEF s
    <2>3. Basis(T, s)
      BY <2>2, <1>0, BasisOf
    <2>4. Cleared(T, s) /\ Validated(T, s)
      BY <2>2, <1>2 DEF Way, Cleared, Validated, Oldest, OldestTwice
    <2>5. Knows(T, s, s.refs)
      BY <2>2, <1>2 DEF Knows, Basis, Oldest
    <2>6. Stage(T, s)
      BY <2>2, <2>4, <2>5 DEF Stage, Asking
    <2> QED
      BY <2>1, <2>2, <2>3, <2>6 DEF Quiet, Fit
  <1>3. CASE r.goal = "table" /\ r.op = "read" /\ Target \notin found
    BY <1>3, ServeNothingFit DEF Conclude
  <1>4. CASE r.goal = "table" /\ r.op # "read" /\ Target \in found
    <2> DEFINE s == [r EXCEPT !.stack = <<Target>>, !.held = {}, !.goal = "columns", !.pc = "look"]
    <2>1. Conclude(r, found) = s
      BY <1>4 DEF Conclude
    <2>2. /\ DOMAIN s = Fields /\ s.names = {} /\ s.stack = <<Target>> /\ s.pc = "look" /\ s.goal = "columns"
          /\ s.who = r.who /\ s.end = r.end /\ s.op = r.op /\ s.refs = r.refs /\ s.cols = r.cols /\ s.listed = r.listed
      BY DEF Fields
    <2> HIDE DEF s
    <2>3. Basis(T, s)
      BY <2>2, <1>0, BasisOf
    <2>4. Way(T, s)
      BY <2>2, <1>4 DEF Way, Cleared, Validated, Knows, Oldest, OldestTwice
    <2>5. Stage(T, s)
      BY <2>2, <2>4 DEF Stage, Asking
    <2> QED
      BY <2>1, <2>2, <2>3, <2>5 DEF Quiet, Fit
  <1>5. CASE r.goal # "canary" /\ ~(r.goal = "table" /\ r.op = "read") /\ ~(r.goal = "table" /\ Target \in found)
    <2>0. PICK more : /\ Knows(T, r, more)
                      /\ Conclude(r, found) = [r EXCEPT !.stack = <<>>, !.held = {}, !.listed = more, !.pc = "serve"]
      <3>1. CASE r.goal = "table"
        <4>1. Conclude(r, found) = [r EXCEPT !.stack = <<>>, !.held = {}, !.pc = "serve"]
          BY <3>1, <1>5 DEF Conclude
        <4>2. [r EXCEPT !.stack = <<>>, !.held = {}, !.pc = "serve"]
                = [r EXCEPT !.stack = <<>>, !.held = {}, !.listed = r.listed, !.pc = "serve"]
          OBVIOUS
        <4> QED
          BY <4>1, <4>2 DEF Basis
      <3>2. CASE r.goal # "table"
        <4>1. Conclude(r, found) = [r EXCEPT !.stack = <<>>, !.held = {}, !.listed = r.listed \cup found, !.pc = "serve"]
          BY <3>2, <1>5 DEF Conclude
        <4> QED
          BY <4>1 DEF Basis, Knows
      <3> QED
        BY <3>1, <3>2
    <2> DEFINE s == [r EXCEPT !.stack = <<>>, !.held = {}, !.listed = more, !.pc = "serve"]
    <2>2. /\ DOMAIN s = Fields /\ s.names = {} /\ s.stack = <<>> /\ s.pc = "serve"
          /\ s.who = r.who /\ s.end = r.end /\ s.op = r.op /\ s.refs = r.refs /\ s.cols = r.cols /\ s.listed = more
      BY DEF Fields
    <2> HIDE DEF s
    <2>3. Basis(T, s)
      BY <2>2, <2>0, <1>0, BasisOf
    <2>4. Cleared(T, s) /\ Validated(T, s) /\ s.op = "describe"
      BY <2>2, <1>5 DEF Way, Cleared, Validated, Oldest, OldestTwice
    <2>5. Stage(T, s)
      BY <2>2, <2>4 DEF Stage, Asking
    <2> QED
      BY <2>0, <2>2, <2>3, <2>5 DEF Quiet, Fit, s
  <1> QED
    BY <1>1, <1>2, <1>3, <1>4, <1>5

\* What is under the first name of the stack is found: the proof goes on, or ends.
LEMMA ArriveFit ==
  ASSUME NEW T, NEW r, DOMAIN r = Fields, Basis(T, r), Way(T, r), r.names = {}, r.pc \in Asking,
         NEW found, Knows(T, r, found), Hides(T, r, r.stack[1], found, Oldest(r))
  PROVE  Quiet(T, Arrive(r, found))
  <1>a. Knows(T, r, {}) /\ Knows(T, r, r.listed) /\ r.stack \in Seq(Names)
    BY DEF Knows, Basis
  <1>b. /\ r.stack # <<>>
        /\ r.goal = "canary" => r.stack = <<Root>>
        /\ r.goal # "table" => r.stack = <<Root>> \/ r.stack = <<Target>>
    BY DEF Way
  <1>0. /\ Knows(T, r, {}) /\ Knows(T, r, r.listed) /\ r.stack \in Seq(Names) /\ r.stack # <<>>
        /\ r.goal = "canary" => r.stack = <<Root>>
        /\ Len(r.stack) # 1 => r.goal = "table"
    BY <1>a, <1>b
  <1>1. CASE Len(r.stack) = 1
    BY <1>0, <1>1, ConcludeFit DEF Arrive
  <1>2. CASE Len(r.stack) # 1 /\ r.stack[2] \in found
    <2> DEFINE s == [r EXCEPT !.stack = Tail(r.stack), !.pc = "ask", !.held = {}]
    <2>1. Arrive(r, found) = s
      BY <1>2 DEF Arrive
    <2>2. /\ DOMAIN s = Fields /\ s.names = {} /\ s.stack = Tail(r.stack) /\ s.pc = "ask" /\ s.goal = r.goal
          /\ s.who = r.who /\ s.end = r.end /\ s.op = r.op /\ s.refs = r.refs /\ s.cols = r.cols /\ s.listed = r.listed
      BY DEF Fields
    <2> HIDE DEF s
    <2>0. Len(r.stack) \in Nat /\ Len(r.stack) # 0
      BY <1>0
    <2>a. s.stack \in Seq(Names) /\ Len(s.stack) = Len(r.stack) - 1
      BY <2>2, <2>0, <1>0
    <2>e. \A k \in Nat : k # 0 /\ k # 1 => k >= 2
      OBVIOUS
    <2>b. Len(r.stack) >= 2
      BY <2>0, <2>e, <1>2, Zenon
    <2>c. s.stack # <<>>
      BY <2>0, <2>a, <2>b
    <2>d. Tail(r.stack)[1] = r.stack[2]
      BY <2>0, <2>b, <1>0, HeadTailProperties
    <2>3. s.stack \in Seq(Names) /\ s.stack # <<>> /\ s.stack[1] = r.stack[2]
      BY <2>2, <2>a, <2>c, <2>d
    <2>4. Basis(T, s)
      BY <2>2, <2>3, <1>0, BasisOf
    <2>5. r.goal = "table"
      BY <1>0, <1>2
    <2>6. Way(T, s)
      BY <2>2, <2>3, <2>5 DEF Way, Cleared, Validated, Oldest, OldestTwice
    <2>7. Knows(T, s, {s.stack[1]} \ {Root})
      BY <2>2, <2>3, <1>2 DEF Knows, Oldest
    <2>8. Stage(T, s)
      BY <2>2, <2>6, <2>7 DEF Stage, Asking
    <2> QED
      BY <2>1, <2>2, <2>4, <2>8 DEF Quiet, Fit
  <1>3. CASE Len(r.stack) # 1 /\ r.stack[2] \notin found
    <2>1. Arrive(r, found) = Conclude(r, {})
      BY <1>3 DEF Arrive
    <2>2. r.goal = "table"
      BY <1>0, <1>3
    <2> QED
      BY <2>1, <2>2, <1>0, ConcludeFit
  <1> QED
    BY <1>1, <1>2, <1>3

LEMMA UnreadFit ==
  ASSUME NEW T, NEW r, DOMAIN r = Fields, Basis(T, r), Way(T, r) \/ r.goal = "canary", r.names = {}
  PROVE  Quiet(T, Unread(r))
  <1>1. CASE r.goal = "canary"
    BY <1>1, ServeNothingFit DEF Unread
  <1>2. CASE r.goal # "canary"
    BY <1>2, ConcludeFit DEF Unread, Knows
  <1> QED
    BY <1>1, <1>2
-----------------------------------------------------------------------------
(* The steps of a call *)

\* What a step of a call does to everything the invariant is about.
StepOf(c, s) ==
  /\ call' = [call EXCEPT ![c] = s]
  /\ cfg' = cfg /\ now' = now /\ lists' = lists
  /\ Grows(told, told') /\ Dated(told')
  /\ \A e \in cache' : EntryFit(told', e)
  /\ Fit(told', s)
  /\ \/ s.names = {}
     \/ call[c].pc \in {"gather", "serve"} /\ Knows(told, call[c], s.names)

LEMMA StepKeeps ==
  ASSUME ShownInv, NEW c \in Calls, NEW s, StepOf(c, s)
  PROVE  ShownInv'
  <1>1. DOMAIN call' = Calls /\ \A d \in Calls : call'[d] = IF d = c THEN s ELSE call[d]
    BY DEF StepOf, ShownInv
  <1>2. \A d \in Calls : Fit(told', call[d])
    BY FitGrows DEF StepOf, ShownInv
  <1>3. \A d \in Calls : Fit(told', call'[d])
    BY <1>1, <1>2 DEF StepOf
  <1>4. cfg' = cfg /\ now' = now
    BY DEF StepOf
  <1>5. ASSUME NEW d \in Calls
        PROVE  Fit(told, call[d])'
    <2>1. Fit(told', call'[d])
      BY <1>3
    <2>2. Active(call'[d]) => Basis(told', call'[d]) /\ Stage(told', call'[d])
      BY <2>1 DEF Fit
    <2>3. Active(call'[d]) => Basis(told, call[d])'
      BY <2>2, <1>4 DEF Basis
    <2>4. (Cleared(told, call[d]))' <=> Cleared(told', call'[d])
      BY <1>4 DEF Cleared
    <2>5. (Validated(told, call[d]))' <=> Validated(told', call'[d])
      BY <1>4 DEF Validated
    <2>6. (Way(told, call[d]))' <=> Way(told', call'[d])
      BY <2>4, <2>5 DEF Way
    <2>7. Active(call'[d]) => Stage(told, call[d])'
      BY <2>2, <2>4, <2>5, <2>6 DEF Stage
    <2> QED
      BY <2>1, <2>3, <2>7 DEF Fit
  <1> QED
    BY <1>1, <1>4, <1>5 DEF StepOf, ShownInv, Dated

LEMMA PutFits ==
  ASSUME ShownInv, NEW keys, NEW value, Put(keys, value),
         \A k \in keys : EntryFit(told, [key |-> k, value |-> value, end |-> now + Life])
  PROVE  \A e \in cache' : EntryFit(told, e)
  <1>1. cache' \subseteq cache \cup {[key |-> k, value |-> value, end |-> now + Life] : k \in keys}
    BY DEF Put
  <1> QED
    BY <1>1 DEF ShownInv

\* A step that tells nothing new.
LEMMA QuietStep ==
  ASSUME ShownInv, NEW c \in Calls, NEW s, Steps(c, s), UNCHANGED told,
         \A e \in cache' : EntryFit(told, e), Quiet(told, s)
  PROVE  StepOf(c, s)
  BY DEF StepOf, Steps, Grows, Quiet, ShownInv

LEMMA NoneKept == ASSUME ShownInv, UNCHANGED cache PROVE \A e \in cache' : EntryFit(told, e)
  BY DEF ShownInv

\* A step that tells facts, and keeps none.
LEMMA TellingStep ==
  ASSUME ShownInv, NEW c \in Calls, NEW s, NEW facts, Steps(c, s), UNCHANGED cache,
         NEW who, Tell(who, facts), Quiet(told', s)
  PROVE  StepOf(c, s)
  <1>1. Grows(told, told') /\ Dated(told')
    BY TellGrows DEF ShownInv
  <1>2. \A e \in cache' : EntryFit(told', e)
    BY <1>1, EntryGrows DEF ShownInv
  <1> QED
    BY <1>1, <1>2 DEF StepOf, Steps, Quiet

LEMMA DescribeStep ==
  ASSUME ShownInv, NEW c \in Calls, NEW who \in Callers, Describe(c, who), UNCHANGED <<cfg, now, lists, cache>>
  PROVE  \E s : StepOf(c, s)
  <1>1. PICK page \in SUBSET Listing(who, Table) :
          call' = [call EXCEPT ![c] = [NoCall EXCEPT
                     !.op = "describe", !.who = who, !.pc = "record", !.end = now + Budget, !.refs = {Table},
                     !.cols = page, !.complete = (page = Listing(who, Table)), !.listed = page]]
    BY DEF Describe
  <1> DEFINE s == [NoCall EXCEPT
                     !.op = "describe", !.who = who, !.pc = "record", !.end = now + Budget, !.refs = {Table},
                     !.cols = page, !.complete = (page = Listing(who, Table)), !.listed = page]
  <1>2. /\ DOMAIN s = Fields /\ s.op = "describe" /\ s.who = who /\ s.pc = "record" /\ s.end = now + Budget
        /\ s.refs = {Table} /\ s.cols = page /\ s.listed = page /\ s.stack = <<>> /\ s.names = {} /\ s.held = {}
    BY DEF NoCall, Fields
  <1>3. call' = [call EXCEPT ![c] = s] /\ Tell(who, {Table} \cup Listing(who, Table))
    BY <1>1 DEF Describe
  <1> HIDE DEF s
  <1>4. now \in Nat /\ Dated(told)
    BY DEF ShownInv
  <1>5. \A n \in {Table} \cup Listing(who, Table) : \A from \in Int : from <= now => KnownIn(told', who, n, from)
    BY <1>3, <1>4, TellGrows
  <1>6. Oldest(s) \in Int /\ Oldest(s) <= now /\ Began(s) = now
    BY <1>2, <1>4, Constants DEF Oldest, Began
  <1>a. \A n \in {Table} \cup page : KnownIn(told', who, n, Oldest(s)) /\ KnownIn(told', who, n, Began(s))
    BY <1>4, <1>5, <1>6
  <1>b. Knows(told', s, s.refs) /\ Knows(told', s, s.cols) /\ Knows(told', s, s.listed)
    BY <1>2, <1>a DEF Knows
  <1>7. Basis(told', s)
    BY <1>2, <1>4, <1>b, Constants DEF Basis
  <1>8. Stage(told', s)
    BY <1>2, <1>a DEF Stage, Asking
  <1>9. Quiet(told', s)
    BY <1>2, <1>7, <1>8 DEF Quiet, Fit
  <1> QED
    BY <1>3, <1>9, TellingStep DEF Steps

LEMMA DescribeSchemaStep ==
  ASSUME ShownInv, NEW c \in Calls, NEW who \in Callers, DescribeSchema(c, who), UNCHANGED <<cfg, now, lists, cache>>
  PROVE  \E s : StepOf(c, s)
  <1> DEFINE List == Listing(who, Parent[Table])
  <1>1. PICK page \in (SUBSET List) \ {{}} :
          call' = [call EXCEPT ![c] = [NoCall EXCEPT
                     !.op = "page", !.who = who, !.pc = "record", !.end = now + Budget, !.refs = page]]
    BY DEF DescribeSchema
  <1> DEFINE s == [NoCall EXCEPT !.op = "page", !.who = who, !.pc = "record", !.end = now + Budget, !.refs = page]
  <1>2. /\ DOMAIN s = Fields /\ s.op = "page" /\ s.who = who /\ s.pc = "record" /\ s.end = now + Budget
        /\ s.refs = page /\ s.listed = {} /\ s.stack = <<>> /\ s.names = {} /\ s.held = {}
    BY DEF NoCall, Fields
  <1>3. call' = [call EXCEPT ![c] = s] /\ Tell(who, List)
    BY <1>1 DEF DescribeSchema
  <1> HIDE DEF s
  <1>4. now \in Nat /\ Dated(told)
    BY DEF ShownInv
  <1>5. \A n \in List : \A from \in Int : from <= now => KnownIn(told', who, n, from)
    BY <1>3, <1>4, TellGrows
  <1> HIDE DEF List
  <1>6. Oldest(s) \in Int /\ Oldest(s) <= now /\ Began(s) = now
    BY <1>2, <1>4, Constants DEF Oldest, Began
  <1>7. Basis(told', s)
    BY <1>2, <1>4, <1>5, <1>6, Constants DEF Basis, Knows
  <1>8. Stage(told', s)
    BY <1>2, <1>4, <1>5, <1>6 DEF Stage, Asking
  <1>9. Quiet(told', s)
    BY <1>2, <1>7, <1>8 DEF Quiet, Fit
  <1> QED
    BY <1>3, <1>9, TellingStep DEF Steps

LEMMA ReadTableStep ==
  ASSUME ShownInv, NEW c \in Calls, NEW who \in Callers, ReadTable(c, who), UNCHANGED <<cfg, now, lists, cache>>
  PROVE  \E s : StepOf(c, s)
  <1> DEFINE s == [NoCall EXCEPT !.op = "read", !.who = who, !.pc = "canary", !.end = now + Budget, !.refs = {Target}]
  <1>1. /\ DOMAIN s = Fields /\ s.op = "read" /\ s.who = who /\ s.pc = "canary" /\ s.end = now + Budget
        /\ s.refs = {Target} /\ s.listed = {} /\ s.stack = <<>> /\ s.names = {} /\ s.held = {}
    BY DEF NoCall, Fields
  <1>2. Steps(c, s) /\ UNCHANGED told
    BY DEF ReadTable, Steps
  <1> HIDE DEF s
  <1>3. Basis(told, s)
    BY <1>1, Constants DEF Basis, Knows, ShownInv
  <1>4. Stage(told, s)
    BY <1>1 DEF Stage, Asking
  <1>5. Quiet(told, s)
    BY <1>1, <1>3, <1>4 DEF Quiet, Fit
  <1> QED
    BY <1>2, <1>5, QuietStep, NoneKept

LEMMA BeginStep ==
  ASSUME ShownInv, NEW c \in Calls, Begin(c)
  PROVE  \E s : StepOf(c, s)
  BY DescribeStep, DescribeSchemaStep, ReadTableStep DEF Begin
\* What the invariant says of a call under way.
LEMMA Running ==
  ASSUME ShownInv, NEW c \in Calls, Active(call[c])
  PROVE  /\ DOMAIN call[c] = Fields /\ call[c].names = {}
         /\ Basis(told, call[c]) /\ Stage(told, call[c])
         /\ Knows(told, call[c], call[c].listed) /\ call[c].stack \in Seq(Names)
         /\ now \in Nat /\ Dated(told) /\ call[c].end \in Int
         /\ call[c].end - Budget <= now /\ now <= call[c].end
         /\ Began(call[c]) \in Int /\ Oldest(call[c]) \in Int /\ OldestTwice(call[c]) \in Int
         /\ Began(call[c]) <= now /\ Oldest(call[c]) <= Began(call[c])
  <1>1. /\ DOMAIN call[c] = Fields /\ call[c].names = {}
        /\ Basis(told, call[c]) /\ Stage(told, call[c])
    BY DEF ShownInv, Fit, Active
  <1>2. /\ now \in Nat /\ Dated(told) /\ call[c].end \in Int
        /\ call[c].end - Budget <= now /\ now <= call[c].end
        /\ Knows(told, call[c], call[c].listed) /\ call[c].stack \in Seq(Names)
    BY <1>1 DEF Basis, ShownInv
  <1> QED
    BY <1>1, <1>2, Ages DEF Began

\* What a call knows since it began, it knows since long enough.
LEMMA KnownSoon ==
  ASSUME ShownInv, NEW c \in Calls, Active(call[c]), NEW n
  PROVE  /\ KnownIn(told, call[c].who, n, Began(call[c])) => KnownIn(told, call[c].who, n, Oldest(call[c]))
         /\ KnownIn(told, call[c].who, n, Oldest(call[c])) => KnownIn(told, call[c].who, n, OldestTwice(call[c]))
  BY Running, Ages, Later DEF ShownInv

LEMMA RecordStep ==
  ASSUME ShownInv, NEW c \in Calls, Record(c)
  PROVE  \E s : StepOf(c, s)
  <1> DEFINE r == call[c]
             s == [r EXCEPT !.pc = "canary"]
             keys == {Key("listed", r.who, ref) : ref \in r.refs}
  <1>1. Active(r) /\ r.pc = "record" /\ Put(keys, {}) /\ UNCHANGED told
    BY DEF Record, Active
  <1>2. Steps(c, s)
    BY DEF Record, Steps
  <1>3. /\ DOMAIN s = Fields /\ s.pc = "canary" /\ s.names = {} /\ s.held = {} /\ s.stack = r.stack
        /\ s.who = r.who /\ s.end = r.end /\ s.op = r.op /\ s.refs = r.refs /\ s.cols = r.cols /\ s.listed = r.listed
    BY <1>1, Running DEF Fields, Stage
  <1> HIDE DEF s
  <1>4. Basis(told, s)
    BY <1>1, <1>3, Running, BasisOf DEF Basis
  <1>5. Stage(told, s)
    BY <1>3 DEF Stage, Asking
  <1>6. \A k \in keys : EntryFit(told, [key |-> k, value |-> {}, end |-> now + Life])
    <2> SUFFICES ASSUME NEW ref \in r.refs
                 PROVE  EntryFit(told, [key |-> Key("listed", r.who, ref), value |-> {}, end |-> now + Life])
      OBVIOUS
    <2>1. KnownIn(told, r.who, ref, Began(r))
      BY <1>1, Running DEF Stage
    <2>2. now - Budget \in Int /\ now - Budget <= Began(r) /\ (now + Life) - Life - Budget = now - Budget
      BY <1>1, Running, Constants DEF Began
    <2>3. KnownIn(told, r.who, ref, now - Budget)
      BY <1>1, <2>1, <2>2, Running, Later DEF ShownInv
    <2> QED
      BY <1>1, <2>2, <2>3, Running, Constants DEF EntryFit, Key
  <1>7. \A e \in cache' : EntryFit(told, e)
    BY <1>1, <1>6, PutFits
  <1> QED
    BY <1>1, <1>2, <1>3, <1>4, <1>5, <1>7, QuietStep DEF Quiet, Fit

\* A fact of an entry that is found, and lives, is no older than a call may hold.
LEMMA FoundAges ==
  ASSUME ShownInv, NEW c \in Calls, Active(call[c]), NEW e \in cache, now < e.end, EntryFit(told, e)
  PROVE  /\ \A who, n : KnownIn(told, who, n, e.end - Life - Budget) => KnownIn(told, who, n, Oldest(call[c]))
         /\ \A who, n : KnownIn(told, who, n, e.end - 2 * Life - 2 * Budget + 1)
                          => KnownIn(told, who, n, OldestTwice(call[c]))
  <1> DEFINE end == call[c].end
  <1>1. e.end \in Int /\ end \in Int /\ now \in Nat /\ end - Budget <= now /\ now < e.end
    BY Running DEF EntryFit
  <1>2. Oldest(call[c]) = end - 2 * Budget - Life + 1 /\ OldestTwice(call[c]) = end - 3 * Budget - 2 * Life + 2
    BY DEF Oldest, OldestTwice
  <1> HIDE DEF end
  <1>3. e.end - Life - Budget \in Int /\ Oldest(call[c]) <= e.end - Life - Budget
    BY <1>1, <1>2, Constants
  <1>4. e.end - 2 * Life - 2 * Budget + 1 \in Int /\ OldestTwice(call[c]) <= e.end - 2 * Life - 2 * Budget + 1
    BY <1>1, <1>2, Constants
  <1>5. Oldest(call[c]) \in Int /\ OldestTwice(call[c]) \in Int /\ Dated(told)
    BY Running
  <1> QED
    BY <1>3, <1>4, <1>5, Later

LEMMA LookCanaryStep ==
  ASSUME ShownInv, NEW c \in Calls, LookCanary(c)
  PROVE  \E s : StepOf(c, s)
  <1> DEFINE r == call[c]
             kept == Kept(Key("canary", r.who, Canary))
  <1>1. Active(r) /\ r.pc = "canary" /\ UNCHANGED cache /\ UNCHANGED told
    BY DEF LookCanary, Active
  <1>2. /\ DOMAIN r = Fields /\ r.names = {} /\ Basis(told, r) /\ r.held = {}
        /\ Knows(told, r, r.listed)
    BY <1>1, Running DEF Stage
  <1>3. SUFFICES \E s : Steps(c, s) /\ Quiet(told, s)
    BY <1>1, QuietStep, NoneKept
  <1>4. CASE ~cfg.canary
    BY <1>2, <1>4, ClearFit DEF LookCanary, Cleared
  <1>5. CASE cfg.canary /\ kept = {}
    <2> DEFINE s == [r EXCEPT !.pc = "look", !.goal = "canary", !.stack = <<Root>>]
    <2>1. Steps(c, s)
      BY <1>5 DEF LookCanary
    <2>2. /\ DOMAIN s = Fields /\ s.pc = "look" /\ s.names = {} /\ s.goal = "canary" /\ s.stack = <<Root>>
          /\ s.who = r.who /\ s.end = r.end /\ s.op = r.op /\ s.refs = r.refs /\ s.cols = r.cols /\ s.listed = r.listed
      BY <1>2 DEF Fields
    <2> HIDE DEF s
    <2>3. <<Root>> \in Seq(Names)
      BY ShownAssumption DEF ShownAssumption
    <2>4. Basis(told, s)
      BY <1>2, <2>2, <2>3, BasisOf
    <2>5. Stage(told, s)
      BY <2>2 DEF Stage, Asking, Way
    <2> QED
      BY <2>1, <2>2, <2>4, <2>5 DEF Quiet, Fit
  <1>6. CASE cfg.canary /\ \E e \in kept : e.value = {}
    <2>1. PICK e \in cache : e.key = Key("canary", r.who, Canary) /\ now < e.end /\ e.value = {}
      BY <1>6 DEF Kept
    <2>2. EntryFit(told, e)
      BY DEF ShownInv
    <2>3. CatalogsFit => KnownIn(told, r.who, Hidden, e.end - 2 * Life - 2 * Budget + 1)
      BY <2>1, <2>2 DEF EntryFit, Key
    <2>4. Cleared(told, r)
      BY <1>1, <2>1, <2>2, <2>3, FoundAges DEF Cleared
    <2>5. Steps(c, Clear(r))
      BY <1>6 DEF LookCanary
    <2> QED
      BY <1>2, <2>4, <2>5, ClearFit
  <1>7. CASE cfg.canary /\ kept # {} /\ ~\E e \in kept : e.value = {}
    <2>1. Steps(c, ServeNothing(r, "not_checked"))
      BY <1>7 DEF LookCanary
    <2> QED
      BY <1>2, <2>1, ServeNothingFit
  <1> QED
    BY <1>4, <1>5, <1>6, <1>7

LEMMA AskCanaryStep ==
  ASSUME ShownInv, NEW c \in Calls, AskCanary(c)
  PROVE  \E s : StepOf(c, s)
  <1> DEFINE r == call[c]
             s == [r EXCEPT !.pc = "keep canary", !.held = {Canary} \cap lists[r.who]]
  <1>1. Active(r) /\ r.pc = "ask canary" /\ UNCHANGED cache
    BY DEF AskCanary, Active
  <1>2. DOMAIN r = Fields /\ r.names = {} /\ Basis(told, r) /\ r.goal = "canary"
    BY <1>1, Running DEF Stage
  <1>3. CASE Steps(c, Unread(r)) /\ UNCHANGED told
    BY <1>1, <1>2, <1>3, UnreadFit, QuietStep, NoneKept
  <1>4. ASSUME Steps(c, s) PROVE /\ DOMAIN s = Fields /\ s.pc = "keep canary" /\ s.names = {}
          /\ s.held = {Canary} \cap lists[r.who] /\ s.stack = r.stack
          /\ s.who = r.who /\ s.end = r.end /\ s.op = r.op /\ s.refs = r.refs /\ s.cols = r.cols /\ s.listed = r.listed
    BY <1>2 DEF Fields
  <1>5. CASE Steps(c, s) /\ Canary \in lists[r.who] /\ UNCHANGED told
    <2> HIDE DEF s
    <2>1. Basis(told, s)
      BY <1>2, <1>4, <1>5, BasisOf DEF Basis
    <2>2. Stage(told, s)
      BY <1>4, <1>5 DEF Stage, Asking
    <2>3. Quiet(told, s)
      BY <1>4, <1>5, <2>1, <2>2 DEF Quiet, Fit
    <2> QED
      BY <1>1, <1>5, <2>3, QuietStep, NoneKept
  <1>6. CASE Steps(c, s) /\ Tell(r.who, {Hidden})
    <2> HIDE DEF s
    <2>c. Oldest(r) <= Began(r) /\ Began(r) <= now /\ Began(r) \in Int
      BY <1>1, Running
    <2>d. now \in Nat /\ Dated(told) /\ Oldest(r) \in Int
      BY <1>1, Running
    <2> HIDE DEF r
    <2>a. now \in Nat /\ Dated(told) /\ Oldest(r) \in Int /\ Oldest(r) <= now
      BY <2>c, <2>d
    <2> USE DEF r
    <2>b. Grows(told, told') /\ \A from \in Int : from <= now => KnownIn(told', r.who, Hidden, from)
      BY <1>6, <2>a, TellGrows
    <2>0. Grows(told, told') /\ KnownIn(told', r.who, Hidden, Oldest(r))
      BY <2>a, <2>b
    <2>1. Fit(told', r)
      BY <2>0, FitGrows DEF ShownInv
    <2>2. Basis(told', r)
      BY <1>1, <2>1 DEF Fit
    <2>3. Basis(told', s)
      BY <1>4, <1>6, <2>2, BasisOf DEF Basis
    <2>4. Stage(told', s)
      BY <1>4, <1>6, <2>0 DEF Stage, Asking, Oldest
    <2>5. Quiet(told', s)
      BY <1>4, <1>6, <2>3, <2>4 DEF Quiet, Fit
    <2> QED
      BY <1>1, <1>6, <2>5, TellingStep
  <1> QED
    BY <1>3, <1>5, <1>6 DEF AskCanary

LEMMA KeepCanaryStep ==
  ASSUME ShownInv, NEW c \in Calls, KeepCanary(c)
  PROVE  \E s : StepOf(c, s)
  <1> DEFINE r == call[c]
             key == Key("canary", r.who, Canary)
  <1>1. Active(r) /\ r.pc = "keep canary" /\ UNCHANGED told /\ Put({key}, r.held)
    BY DEF KeepCanary, Active
  <1>2. /\ DOMAIN r = Fields /\ r.names = {} /\ Basis(told, r)
        /\ now \in Nat /\ r.end \in Int /\ now <= r.end
    BY <1>1, Running
  <1>3. CatalogsFit /\ r.held = {} => KnownIn(told, r.who, Hidden, Oldest(r))
    BY <1>1, Running DEF Stage
  <1>4. EntryFit(told, [key |-> key, value |-> r.held, end |-> now + Life])
    <2> DEFINE old == (now + Life) - 2 * Life - 2 * Budget + 1
    <2>1. old \in Int /\ old <= Oldest(r)
      BY <1>2, Constants DEF Oldest
    <2>2. CatalogsFit /\ r.held = {} => KnownIn(told, r.who, Hidden, old)
      BY <1>1, <1>3, <2>1, Running, Later DEF ShownInv
    <2> HIDE DEF old
    <2>3. now + Life \in Int
      BY <1>2, Constants
    <2> QED
      BY <2>2, <2>3 DEF EntryFit, Key, old
  <1>a. \A k \in {key} : EntryFit(told, [key |-> k, value |-> r.held, end |-> now + Life])
    BY <1>4
  <1>b. Put({key}, r.held)
    BY <1>1
  <1> HIDE DEF key
  <1>5. \A e \in cache' : EntryFit(told, e)
    BY <1>b, <1>a, PutFits
  <1>6. CASE r.held = {}
    <2>1. Cleared(told, r)
      BY <1>1, <1>3, <1>6, KnownSoon DEF Cleared
    <2>2. Steps(c, Clear(r))
      BY <1>6 DEF KeepCanary
    <2> QED
      BY <1>1, <1>2, <1>5, <1>6, <2>1, <2>2, ClearFit, QuietStep
  <1>7. CASE r.held # {}
    <2>1. Steps(c, ServeNothing(r, "not_checked"))
      BY <1>7 DEF KeepCanary
    <2> QED
      BY <1>1, <1>2, <1>5, <2>1, ServeNothingFit, QuietStep
  <1> QED
    BY <1>6, <1>7

\* A key found in the cache is one of the key that was asked, alive.
LEMMA Found ==
  ASSUME ShownInv, NEW key, NEW e \in Kept(key)
  PROVE  e \in cache /\ e.key = key /\ now < e.end /\ EntryFit(told, e)
  BY DEF Kept, ShownInv

LEMMA LookSelectStep ==
  ASSUME ShownInv, NEW c \in Calls, LookSelect(c)
  PROVE  \E s : StepOf(c, s)
  <1> DEFINE r == call[c]
             kept == Kept(Key("select", r.who, r.cols))
  <1>1. Active(r) /\ r.pc = "select" /\ UNCHANGED cache /\ UNCHANGED told
    BY DEF LookSelect, Active
  <1>2. DOMAIN r = Fields /\ r.names = {} /\ Basis(told, r) /\ r.held = {} /\ r.op = "describe" /\ Cleared(told, r)
    BY <1>1, Running DEF Stage
  <1>3. SUFFICES \E s : Steps(c, s) /\ Quiet(told, s)
    BY <1>1, QuietStep, NoneKept
  <1>4. ASSUME NEW p \in {"ask select", "gather"}, p = "gather" => Validated(told, r)
        PROVE  Quiet(told, [r EXCEPT !.pc = p])
    <2> DEFINE s == [r EXCEPT !.pc = p]
    <2>1. /\ DOMAIN s = Fields /\ s.pc = p /\ s.names = {} /\ s.held = {} /\ s.stack = r.stack
          /\ s.who = r.who /\ s.end = r.end /\ s.op = r.op /\ s.refs = r.refs /\ s.cols = r.cols /\ s.listed = r.listed
      BY <1>2 DEF Fields
    <2> HIDE DEF s
    <2>2. Basis(told, s)
      BY <1>2, <2>1 DEF Basis, Knows, Oldest
    <2>3. Cleared(told, s) /\ (p = "gather" => Validated(told, s))
      BY <1>2, <1>4, <2>1 DEF Cleared, Validated, Oldest, OldestTwice
    <2>4. Knows(told, s, s.refs) /\ s.op = "describe"
      BY <1>2, <2>1, <2>2 DEF Basis
    <2>5. Stage(told, s)
      BY <2>1, <2>3, <2>4 DEF Stage, Asking
    <2> QED
      BY <2>1, <2>2, <2>5 DEF Quiet, Fit, s
  <1>5. CASE r.cols # {} /\ kept = {}
    BY <1>4, <1>5 DEF LookSelect
  <1>6. CASE r.cols # {} /\ kept # {} /\ \E e \in kept : e.value # {}
    <2>1. PICK e \in kept : e.value # {}
      BY <1>6
    <2>2. e \in cache /\ e.key = Key("select", r.who, r.cols) /\ now < e.end /\ EntryFit(told, e)
      BY Found
    <2>3. KnownIn(told, r.who, r.cols, e.end - Life - Budget)
      BY <2>1, <2>2 DEF EntryFit, Key
    <2>4. Validated(told, r)
      BY <1>1, <2>2, <2>3, FoundAges DEF Validated
    <2>5. Steps(c, [r EXCEPT !.pc = "gather"])
      BY <1>6 DEF LookSelect
    <2> QED
      BY <1>4, <2>4, <2>5
  <1>7. CASE r.cols = {} \/ (kept # {} /\ ~\E e \in kept : e.value # {})
    <2>1. Steps(c, ServeNothing(r, "not_checked"))
      BY <1>7 DEF LookSelect
    <2> QED
      BY <1>2, <2>1, ServeNothingFit
  <1> QED
    BY <1>5, <1>6, <1>7

LEMMA AskSelectStep ==
  ASSUME ShownInv, NEW c \in Calls, AskSelect(c)
  PROVE  \E s : StepOf(c, s)
  <1> DEFINE r == call[c]
  <1>1. Active(r) /\ r.pc = "ask select" /\ UNCHANGED cache
    BY DEF AskSelect, Active
  <1>2. DOMAIN r = Fields /\ r.names = {} /\ r.held = {} /\ r.op = "describe" /\ Fit(told, r)
    BY <1>1, Running DEF Stage, ShownInv
  <1>3. ASSUME NEW T, Fit(T, r), NEW held, held # {} => KnownIn(T, r.who, r.cols, Began(r))
        PROVE  Quiet(T, [r EXCEPT !.pc = "keep select", !.held = held])
    <2> DEFINE s == [r EXCEPT !.pc = "keep select", !.held = held]
    <2>1. /\ DOMAIN s = Fields /\ s.pc = "keep select" /\ s.names = {} /\ s.held = held /\ s.stack = r.stack
          /\ s.who = r.who /\ s.end = r.end /\ s.op = r.op /\ s.refs = r.refs /\ s.cols = r.cols /\ s.listed = r.listed
      BY <1>2 DEF Fields
    <2> HIDE DEF s
    <2>2. Basis(T, r) /\ Cleared(T, r)
      BY <1>1, <1>3 DEF Fit, Stage
    <2>3. Basis(T, s)
      BY <2>1, <2>2 DEF Basis, Knows, Oldest
    <2>4. Stage(T, s)
      BY <1>2, <1>3, <2>1, <2>2 DEF Stage, Asking, Cleared, OldestTwice, Began
    <2> QED
      BY <2>1, <2>3, <2>4 DEF Quiet, Fit, s
  <1>4. CASE Steps(c, [r EXCEPT !.pc = "keep select", !.held = r.cols]) /\ Tell(r.who, {r.cols})
    <2>1. now \in Nat /\ Dated(told) /\ Began(r) \in Int /\ Began(r) <= now
      BY <1>1, Running
    <2>2. Grows(told, told') /\ \A from \in Int : from <= now => KnownIn(told', r.who, r.cols, from)
      BY <1>4, <2>1, TellGrows
    <2>3. Fit(told', r)
      BY <1>2, <2>2, FitGrows
    <2>4. KnownIn(told', r.who, r.cols, Began(r))
      BY <2>1, <2>2
    <2>5. Quiet(told', [r EXCEPT !.pc = "keep select", !.held = r.cols])
      BY <1>3, <2>3, <2>4
    <2> QED
      BY <1>1, <1>4, <2>5, TellingStep
  <1>5. CASE Steps(c, [r EXCEPT !.pc = "keep select"]) /\ UNCHANGED told
    <2>1. [r EXCEPT !.pc = "keep select"] = [r EXCEPT !.pc = "keep select", !.held = {}]
      BY <1>2
    <2>2. Quiet(told, [r EXCEPT !.pc = "keep select", !.held = {}])
      BY <1>2, <1>3
    <2> QED
      BY <1>1, <1>5, <2>1, <2>2, QuietStep, NoneKept
  <1>6. CASE Steps(c, ServeNothing(r, "not_checked")) /\ UNCHANGED told
    BY <1>1, <1>2, <1>6, ServeNothingFit, QuietStep, NoneKept
  <1> QED
    BY <1>4, <1>5, <1>6 DEF AskSelect

\* What was told since the call began is dated for the entry it makes.
LEMMA PutAges ==
  ASSUME ShownInv, NEW c \in Calls, Active(call[c])
  PROVE  /\ now + Life \in Int
         /\ \A who, n : KnownIn(told, who, n, Began(call[c])) =>
              KnownIn(told, who, n, (now + Life) - Life - Budget) /\ KnownIn(told, who, n, Oldest(call[c]))
  <1> DEFINE end == call[c].end
             from == (now + Life) - Life - Budget
  <1>1. now \in Nat /\ end \in Int /\ now <= end /\ Dated(told)
    BY Running
  <1>2. Began(call[c]) = end - Budget
    BY DEF Began
  <1>4. Oldest(call[c]) \in Int /\ Oldest(call[c]) <= Began(call[c])
    BY Running
  <1> HIDE DEF end
  <1>3. from \in Int /\ Began(call[c]) \in Int /\ from <= Began(call[c]) /\ now + Life \in Int
    BY <1>1, <1>2, Constants
  <1> HIDE DEF from
  <1>5. \A who, n : KnownIn(told, who, n, Began(call[c])) =>
          KnownIn(told, who, n, from) /\ KnownIn(told, who, n, Oldest(call[c]))
    BY <1>1, <1>3, <1>4, Later
  <1> QED
    BY <1>3, <1>5 DEF from

LEMMA KeepSelectStep ==
  ASSUME ShownInv, NEW c \in Calls, KeepSelect(c)
  PROVE  \E s : StepOf(c, s)
  <1> DEFINE r == call[c]
             key == Key("select", r.who, r.cols)
  <1>1. Active(r) /\ r.pc = "keep select" /\ UNCHANGED told /\ Put({key}, r.held)
    BY DEF KeepSelect, Active
  <1>2. /\ DOMAIN r = Fields /\ r.names = {} /\ Basis(told, r) /\ r.op = "describe" /\ Cleared(told, r)
        /\ r.held # {} => KnownIn(told, r.who, r.cols, Began(r))
    BY <1>1, Running DEF Stage
  <1>3. EntryFit(told, [key |-> key, value |-> r.held, end |-> now + Life])
    BY <1>1, <1>2, PutAges DEF EntryFit, Key
  <1>4. \A k \in {key} : EntryFit(told, [key |-> k, value |-> r.held, end |-> now + Life])
    BY <1>3
  <1>a. Put({key}, r.held)
    BY <1>1
  <1> HIDE DEF key
  <1>5. \A e \in cache' : EntryFit(told, e)
    BY <1>a, <1>4, PutFits
  <1>6. CASE r.held = {}
    <2>1. Steps(c, ServeNothing(r, "not_checked"))
      BY <1>6 DEF KeepSelect
    <2> QED
      BY <1>1, <1>2, <1>5, <2>1, ServeNothingFit, QuietStep
  <1>7. CASE r.held # {}
    <2> DEFINE s == [r EXCEPT !.pc = "gather", !.held = {}]
    <2>1. Steps(c, s)
      BY <1>7 DEF KeepSelect
    <2>2. /\ DOMAIN s = Fields /\ s.pc = "gather" /\ s.names = {} /\ s.held = {} /\ s.stack = r.stack
          /\ s.who = r.who /\ s.end = r.end /\ s.op = r.op /\ s.refs = r.refs /\ s.cols = r.cols /\ s.listed = r.listed
      BY <1>2 DEF Fields
    <2> HIDE DEF s
    <2>3. Basis(told, s)
      BY <1>2, <2>2 DEF Basis, Knows, Oldest
    <2>4. KnownIn(told, r.who, r.cols, Oldest(r))
      BY <1>1, <1>2, <1>7, PutAges
    <2>5. Cleared(told, s) /\ Validated(told, s)
      BY <1>2, <2>2, <2>4 DEF Cleared, Validated, Oldest, OldestTwice
    <2>6. Knows(told, s, s.refs)
      BY <1>2, <2>2, <2>3 DEF Basis
    <2>7. Stage(told, s)
      BY <2>2, <2>5, <2>6 DEF Stage, Asking
    <2>8. Quiet(told, s)
      BY <2>2, <2>3, <2>7 DEF Quiet, Fit
    <2> QED
      BY <1>1, <1>5, <2>1, <2>8, QuietStep
  <1> QED
    BY <1>6, <1>7

LEMMA ProveStep ==
  ASSUME ShownInv, NEW c \in Calls, Prove(c)
  PROVE  \E s : StepOf(c, s)
  <1> DEFINE r == call[c]
             s == [r EXCEPT !.goal = "table", !.stack = <<Parent[Target]>>]
             kept == Kept(Key("listed", r.who, Target))
  <1>1. Active(r) /\ r.pc = "prove" /\ UNCHANGED cache /\ UNCHANGED told
    BY DEF Prove, Active
  <1>2. /\ DOMAIN r = Fields /\ r.names = {} /\ Basis(told, r)
        /\ r.op \in {"describe", "read"} /\ Cleared(told, r) /\ Validated(told, r)
    BY <1>1, Running DEF Stage
  <1>3. Steps(c, IF Kept(Key("listed", s.who, Target)) # {} THEN Conclude(s, {Target}) ELSE [s EXCEPT !.pc = "look"])
    BY DEF Prove
  <1>4. /\ DOMAIN s = Fields /\ s.names = {} /\ s.stack = <<Parent[Target]>> /\ s.goal = "table"
        /\ s.who = r.who /\ s.end = r.end /\ s.op = r.op /\ s.refs = r.refs /\ s.cols = r.cols /\ s.listed = r.listed
    BY <1>2 DEF Fields
  <1> HIDE DEF s
  <1>5. <<Parent[Target]>> \in Seq(Names)
    BY ShownAssumption DEF ShownAssumption
  <1>6. Basis(told, s)
    BY <1>2, <1>4, <1>5 DEF Basis, Knows, Oldest
  <1>7. Way(told, s)
    BY <1>2, <1>4 DEF Way, Cleared, Validated, Oldest, OldestTwice
  <1>8. CASE kept # {}
    <2>1. PICK e \in kept : TRUE
      BY <1>8
    <2>2. e \in cache /\ e.key = Key("listed", r.who, Target) /\ now < e.end /\ EntryFit(told, e)
      BY Found
    <2>3. KnownIn(told, r.who, Target, e.end - Life - Budget)
      BY <2>2 DEF EntryFit, Key
    <2>4. KnownIn(told, r.who, Target, Oldest(r))
      BY <1>1, <2>2, <2>3, FoundAges
    <2>5. Knows(told, s, {Target})
      BY <1>4, <2>4 DEF Knows, Oldest
    <2>6. Quiet(told, Conclude(s, {Target}))
      BY <1>4, <1>6, <1>7, <2>5, ConcludeFit
    <2>7. Steps(c, Conclude(s, {Target}))
      BY <1>3, <1>4, <1>8
    <2> QED
      BY <1>1, <2>6, <2>7, QuietStep, NoneKept
  <1>9. CASE kept = {}
    <2> DEFINE t == [s EXCEPT !.pc = "look"]
    <2>1. Steps(c, t)
      BY <1>3, <1>4, <1>9
    <2>2. /\ DOMAIN t = Fields /\ t.pc = "look" /\ t.names = {} /\ t.stack = s.stack /\ t.goal = "table"
          /\ t.who = s.who /\ t.end = s.end /\ t.op = s.op /\ t.refs = s.refs /\ t.cols = s.cols /\ t.listed = s.listed
      BY <1>4 DEF Fields
    <2> HIDE DEF t
    <2>3. Basis(told, t)
      BY <1>6, <2>2 DEF Basis, Knows, Oldest
    <2>4. Way(told, t)
      BY <1>4, <1>7, <2>2 DEF Way, Cleared, Validated, Oldest, OldestTwice
    <2>5. Stage(told, t)
      BY <2>2, <2>4 DEF Stage, Asking
    <2>6. Quiet(told, t)
      BY <2>2, <2>3, <2>5 DEF Quiet, Fit
    <2> QED
      BY <1>1, <2>1, <2>6, QuietStep, NoneKept
  <1> QED
    BY <1>8, <1>9

LEMMA LookStep ==
  ASSUME ShownInv, NEW c \in Calls, Look(c)
  PROVE  \E s : StepOf(c, s)
  <1> DEFINE r == call[c]
             n == r.stack[1]
             kept == Kept(Key("names", r.who, n))
  <1>1. Active(r) /\ r.pc = "look" /\ UNCHANGED cache /\ UNCHANGED told
    BY DEF Look, Active
  <1>2. /\ DOMAIN r = Fields /\ r.names = {} /\ Basis(told, r) /\ Way(told, r) /\ r.pc \in Asking
        /\ r.stack \in Seq(Names)
    BY <1>1, Running DEF Stage, Asking
  <1>a. <<Root>> # <<>> /\ <<Target>> # <<>>
    OBVIOUS
  <1>3. r.stack # <<>>
    BY <1>2, <1>a, Zenon DEF Way
  <1>4. n \in Names
    BY <1>2, <1>3
  <1>5. SUFFICES \E s : Steps(c, s) /\ Quiet(told, s)
    BY <1>1, QuietStep, NoneKept
  <1>6. CASE kept # {}
    <2>1. PICK e \in kept : Steps(c, Arrive(r, e.value))
      BY <1>6 DEF Look
    <2>2. e \in cache /\ e.key = Key("names", r.who, n) /\ now < e.end /\ EntryFit(told, e)
      BY Found
    <2>3. /\ \A m \in e.value : KnownIn(told, r.who, m, e.end - Life - Budget)
          /\ CatalogsFit /\ n = Root /\ CanaryCatalog \notin e.value =>
               KnownIn(told, r.who, Hidden, e.end - Life - Budget)
      BY <2>2 DEF EntryFit, Key
    <2>4. Knows(told, r, e.value) /\ Hides(told, r, n, e.value, Oldest(r))
      BY <1>1, <2>2, <2>3, FoundAges DEF Knows, Hides
    <2>5. Quiet(told, Arrive(r, e.value))
      BY <1>2, <2>4, ArriveFit
    <2> QED
      BY <2>1, <2>5
  <1>7. CASE kept = {} /\ (n = Root \/ r.goal = "columns")
    <2> DEFINE s == [r EXCEPT !.pc = "ask"]
    <2>1. Steps(c, s)
      BY <1>7 DEF Look
    <2>2. /\ DOMAIN s = Fields /\ s.pc = "ask" /\ s.names = {} /\ s.stack = r.stack /\ s.goal = r.goal
          /\ s.who = r.who /\ s.end = r.end /\ s.op = r.op /\ s.refs = r.refs /\ s.cols = r.cols /\ s.listed = r.listed
      BY <1>2 DEF Fields
    <2> HIDE DEF s
    <2>3. Basis(told, s)
      BY <1>2, <2>2 DEF Basis, Knows, Oldest
    <2>4. Way(told, s)
      BY <1>2, <2>2 DEF Way, Knows, Cleared, Validated, Oldest, OldestTwice
    <2>5. Knows(told, s, {s.stack[1]} \ {Root})
      BY <1>7, <2>2, <2>4 DEF Way, Knows
    <2>6. Stage(told, s)
      BY <2>2, <2>4, <2>5 DEF Stage, Asking
    <2> QED
      BY <2>1, <2>2, <2>3, <2>6 DEF Quiet, Fit
  <1>8. CASE kept = {} /\ n # Root /\ r.goal # "columns"
    <2> DEFINE s == [r EXCEPT !.stack = <<Parent[n]>> \o r.stack]
    <2>1. Steps(c, s)
      BY <1>8 DEF Look
    <2>2. /\ DOMAIN s = Fields /\ s.pc = "look" /\ s.names = {} /\ s.stack = <<Parent[n]>> \o r.stack /\ s.goal = r.goal
          /\ s.who = r.who /\ s.end = r.end /\ s.op = r.op /\ s.refs = r.refs /\ s.cols = r.cols /\ s.listed = r.listed
      BY <1>1, <1>2 DEF Fields
    <2> HIDE DEF s
    <2>3. Parent[n] \in Names
      BY <1>4, <1>8, ShownAssumption DEF ShownAssumption
    <2>4. s.stack \in Seq(Names) /\ s.stack # <<>>
      BY <1>2, <2>2, <2>3
    <2>5. Basis(told, s)
      BY <1>2, <2>2, <2>4 DEF Basis, Knows, Oldest
    <2>6. r.goal = "table"
      BY <1>2, <1>8 DEF Way
    <2>7. Way(told, s)
      BY <1>2, <2>2, <2>4, <2>6 DEF Way, Cleared, Validated, Oldest, OldestTwice
    <2>8. Stage(told, s)
      BY <2>2, <2>7 DEF Stage, Asking
    <2> QED
      BY <2>1, <2>2, <2>5, <2>8 DEF Quiet, Fit
  <1> QED
    BY <1>6, <1>7, <1>8

\* A list of catalogs that fits is asked for whole.
LEMMA CatalogsAnswered ==
  ASSUME ShownInv, CatalogsFit, NEW who \in Callers, NEW answer \in Answers(who, Root)
  PROVE  answer = Listing(who, Root)
  <1>1. Cardinality(Listing(who, Root)) <= MaxNames
    BY DEF CatalogsFit, ShownInv, Listing
  <1> QED
    BY <1>1 DEF Answers

LEMMA AskStep ==
  ASSUME ShownInv, NEW c \in Calls, Ask(c)
  PROVE  \E s : StepOf(c, s)
  <1> DEFINE r == call[c]
             n == r.stack[1]
             hides(answer) == n = Root /\ answer = Listing(r.who, Root) /\ CanaryCatalog \notin answer
             facts(answer) == answer \cup IF hides(answer) THEN {Hidden} ELSE {}
  <1>1. Active(r) /\ r.pc = "ask" /\ UNCHANGED cache
    BY DEF Ask, Active
  <1>2. DOMAIN r = Fields /\ r.names = {} /\ Basis(told, r) /\ Way(told, r) /\ Fit(told, r) /\ r.who \in Callers
    BY <1>1, Running DEF Stage, Asking, ShownInv, Basis
  <1>3. CASE Steps(c, Unread(r)) /\ UNCHANGED told
    BY <1>1, <1>2, <1>3, UnreadFit, QuietStep, NoneKept
  <1>4. ASSUME NEW answer \in Answers(r.who, n), Steps(c, [r EXCEPT !.pc = "keep", !.held = answer]),
               Tell(r.who, facts(answer))
        PROVE  \E s : StepOf(c, s)
    <2> DEFINE s == [r EXCEPT !.pc = "keep", !.held = answer]
    <2>1. /\ DOMAIN s = Fields /\ s.pc = "keep" /\ s.names = {} /\ s.held = answer /\ s.stack = r.stack /\ s.goal = r.goal
          /\ s.who = r.who /\ s.end = r.end /\ s.op = r.op /\ s.refs = r.refs /\ s.cols = r.cols /\ s.listed = r.listed
      BY <1>2 DEF Fields
    <2>2. Steps(c, s)
      BY <1>4
    <2> HIDE DEF s
    <2>3. now \in Nat /\ Dated(told) /\ Began(r) \in Int /\ Began(r) <= now
      BY <1>1, Running
    <2>4. /\ Grows(told, told')
          /\ \A m \in facts(answer) : \A from \in Int : from <= now => KnownIn(told', r.who, m, from)
      BY <1>4, <2>3, TellGrows
    <2>5. \A m \in facts(answer) : KnownIn(told', r.who, m, Began(r))
      BY <2>3, <2>4
    <2>6. CatalogsFit /\ n = Root /\ CanaryCatalog \notin answer => KnownIn(told', r.who, Hidden, Began(r))
      BY <1>2, <2>5, CatalogsAnswered
    <2>7. Basis(told', r) /\ Way(told', r)
      BY <1>1, <1>2, <2>4, FitGrows DEF Fit, Stage, Asking
    <2>8. Basis(told', s)
      BY <2>1, <2>7 DEF Basis, Knows, Oldest
    <2>9. Way(told', s)
      BY <2>1, <2>7 DEF Way, Knows, Cleared, Validated, Oldest, OldestTwice
    <2>10. \A m \in answer : KnownIn(told', r.who, m, Began(r))
      BY <2>5
    <2>11. Stage(told', s)
      BY <2>1, <2>6, <2>9, <2>10 DEF Stage, Asking, Began
    <2>12. Quiet(told', s)
      BY <2>1, <2>8, <2>11 DEF Quiet, Fit
    <2> QED
      BY <1>1, <1>4, <2>2, <2>12, TellingStep
  <1> QED
    BY <1>3, <1>4 DEF Ask

LEMMA KeepStep ==
  ASSUME ShownInv, NEW c \in Calls, Keep(c)
  PROVE  \E s : StepOf(c, s)
  <1> DEFINE r == call[c]
             key == Key("names", r.who, r.stack[1])
  <1>1. Active(r) /\ r.pc = "keep" /\ UNCHANGED told /\ Put({key}, r.held) /\ Steps(c, Arrive(r, r.held))
    BY DEF Keep, Active
  <1>2. /\ DOMAIN r = Fields /\ r.names = {} /\ Basis(told, r) /\ Way(told, r) /\ r.pc \in Asking
        /\ \A n \in r.held : KnownIn(told, r.who, n, Began(r))
        /\ CatalogsFit /\ r.stack[1] = Root /\ CanaryCatalog \notin r.held => KnownIn(told, r.who, Hidden, Began(r))
    BY <1>1, Running DEF Stage, Asking
  <1>3. EntryFit(told, [key |-> key, value |-> r.held, end |-> now + Life])
    BY <1>1, <1>2, PutAges DEF EntryFit, Key
  <1>4. \A k \in {key} : EntryFit(told, [key |-> k, value |-> r.held, end |-> now + Life])
    BY <1>3
  <1>a. Put({key}, r.held)
    BY <1>1
  <1> HIDE DEF key
  <1>5. \A e \in cache' : EntryFit(told, e)
    BY <1>a, <1>4, PutFits
  <1>6. Knows(told, r, r.held) /\ Hides(told, r, r.stack[1], r.held, Oldest(r))
    BY <1>1, <1>2, PutAges DEF Knows, Hides
  <1>7. Quiet(told, Arrive(r, r.held))
    BY <1>2, <1>6, ArriveFit
  <1> QED
    BY <1>1, <1>5, <1>7, QuietStep

LEMMA GatherStep ==
  ASSUME ShownInv, NEW c \in Calls, Gather(c)
  PROVE  \E s : StepOf(c, s)
  <1> DEFINE r == call[c]
  <1>1. Active(r) /\ r.pc = "gather" /\ UNCHANGED cache /\ UNCHANGED told
    BY DEF Gather, Active
  <1>2. /\ DOMAIN r = Fields /\ r.names = {} /\ Basis(told, r)
        /\ Cleared(told, r) /\ Validated(told, r) /\ Knows(told, r, r.refs)
    BY <1>1, Running DEF Stage
  <1>3. CASE \E status \in {"unavailable", "error"} : Steps(c, ServeNothing(r, status))
    BY <1>1, <1>2, <1>3, ServeNothingFit, QuietStep, NoneKept
  <1>4. ASSUME r.op = "describe", NEW got, NEW p \in {"prove", "serve"},
               Steps(c, [r EXCEPT !.got = got, !.pc = p])
        PROVE  \E s : StepOf(c, s)
    <2> DEFINE s == [r EXCEPT !.got = got, !.pc = p]
    <2>1. /\ DOMAIN s = Fields /\ s.pc = p /\ s.names = {} /\ s.stack = r.stack
          /\ s.who = r.who /\ s.end = r.end /\ s.op = r.op /\ s.refs = r.refs /\ s.cols = r.cols /\ s.listed = r.listed
      BY <1>2 DEF Fields
    <2>2. Steps(c, s)
      BY <1>4
    <2> HIDE DEF s
    <2>3. Basis(told, s)
      BY <1>2, <2>1 DEF Basis, Knows, Oldest
    <2>4. Cleared(told, s) /\ Validated(told, s)
      BY <1>2, <2>1 DEF Cleared, Validated, Oldest, OldestTwice
    <2>5. Stage(told, s)
      BY <1>4, <2>1, <2>4 DEF Stage, Asking
    <2>6. Quiet(told, s)
      BY <2>1, <2>3, <2>5 DEF Quiet, Fit
    <2> QED
      BY <1>1, <2>2, <2>6, QuietStep, NoneKept
  <1>5. ASSUME NEW described \in SUBSET r.refs, Steps(c, [r EXCEPT !.pc = "ended", !.names = described])
        PROVE  \E s : StepOf(c, s)
    <2> DEFINE s == [r EXCEPT !.pc = "ended", !.names = described]
    <2>1. DOMAIN s = Fields /\ s.pc = "ended" /\ s.names = described
      BY <1>2 DEF Fields
    <2>2. Fit(told, s) /\ Steps(c, s)
      BY <1>5, <2>1 DEF Fit, Active
    <2>3. Knows(told, r, s.names)
      BY <1>2, <2>1 DEF Knows
    <2> HIDE DEF s
    <2> QED
      BY <1>1, <2>2, <2>3, NoneKept DEF StepOf, Steps, Grows, ShownInv
  <1> QED
    BY <1>3, <1>4, <1>5 DEF Gather
-----------------------------------------------------------------------------
(* What an answer names: what the gate let through, and nothing the merge adds *)

Lets(part, cols, listed) ==
  /\ \A join \in part.joins : Joined(join, cols, listed)
  /\ part.grain \subseteq cols

LEMMA GateShows ==
  ASSUME NEW ctx, NEW cols, NEW served, NEW listed, NEW read
  PROVE  Lets(FilterTable(ctx, cols, served, listed, read), cols, listed)
  BY DEF Lets, FilterTable

LEMMA MergeShows ==
  ASSUME NEW parts, NEW terms, NEW complete, NEW cols, NEW listed,
         \A i \in DOMAIN parts : Lets(parts[i].part, cols, listed)
  PROVE  LET table == MergeTable(parts, terms, complete)
         IN /\ \A g \in table.grain : g.value \subseteq cols /\ \A o \in g.others : o \subseteq cols
            /\ \A join \in table.joins : Joined(join.item, cols, listed)
  <1> DEFINE table == MergeTable(parts, terms, complete)
  <1>1. table.grain \in {{}, Single(parts, "grain", {})} /\ table.joins = Union(parts, "joins")
    BY DEF MergeTable
  <1>2. \A g \in Single(parts, "grain", {}) :
          g.value \subseteq cols /\ \A o \in g.others : o \subseteq cols
    BY DEF Single, Lets
  <1>3. \A join \in Union(parts, "joins") : Joined(join.item, cols, listed)
    BY DEF Union, Lets
  <1> QED
    BY <1>1, <1>2, <1>3

LEMMA RenderShows ==
  ASSUME NEW final, NEW cols, NEW terms, NEW complete, NEW listed,
         \A i \in DOMAIN final : Lets(final[i].part, cols, listed)
  PROVE  NamesIn(Render(final, cols, terms, complete)) \subseteq cols \cup listed \cup {Table}
  <1> DEFINE out == Render(final, cols, terms, complete)
  <1>1. DOMAIN out.columns \subseteq cols
    <2> DEFINE table == MergeTable(final, terms, complete)
               merged == [c \in cols |-> MergeColumn(PartsOf(final, c), terms)]
               given == {i \in DOMAIN Columns : Columns[i] \in cols /\ ~Empty(merged[Columns[i]])}
               first == First(given)
               order == table.terms \cup UNION {merged[Columns[i]].terms : i \in first}
               UpTo(i) == {j \in first : j <= i}
               Fits(i) == \A j \in {0} \cup UpTo(i) : SizeUpTo(table, UpTo(j), merged, terms, order) <= Room
    <2>1. DOMAIN out.columns = {Columns[i] : i \in {i \in first : Fits(i)}}
      BY DEF Render
    <2>2. \A i \in first : Columns[i] \in cols
      BY DEF First
    <2> HIDE DEF first, Fits
    <2> QED
      BY <2>1, <2>2
  <1>2. out.table \in {MergeTable(final, terms, complete), MergeTable(<<>>, terms, complete)}
    BY DEF Render
  <1>3. \A i \in DOMAIN <<>> : Lets(<<>>[i].part, cols, listed)
    OBVIOUS
  <1> HIDE DEF out
  <1>4. /\ \A g \in out.table.grain : g.value \subseteq cols /\ \A o \in g.others : o \subseteq cols
        /\ \A join \in out.table.joins : Joined(join.item, cols, listed)
    BY <1>2, <1>3, MergeShows
  <1> DEFINE grains == UNION {g.others \cup {g.value} : g \in out.table.grain}
             joins  == {join.item : join \in out.table.joins}
             grainNames == UNION grains
             joinNames == UNION {join.columns \cup join.to : join \in joins}
  <1>6. \A set \in grains : set \subseteq cols
    BY <1>4
  <1>7. \A join \in joins : join.columns \subseteq cols /\ join.to \subseteq listed
    BY <1>4 DEF Joined
  <1>8. NamesIn(out) = DOMAIN out.columns \cup grainNames \cup joinNames
                         \cup IF Empty(out.table) THEN {} ELSE {Table}
    BY DEF NamesIn
  <1> HIDE DEF grains, joins
  <1>9. grainNames \subseteq cols
    BY <1>6
  <1>10. joinNames \subseteq cols \cup listed
    BY <1>7
  <1> HIDE DEF grainNames, joinNames
  <1>5. NamesIn(out) \subseteq cols \cup listed \cup {Table}
    BY <1>1, <1>8, <1>9, <1>10
  <1> QED
    BY <1>5 DEF out

LEMMA AnswerShows ==
  ASSUME NEW got, NEW cols, NEW complete, NEW listed, NEW read
  PROVE  NamesIn(Answer(got, cols, complete, listed, read).out) \subseteq cols \cup listed \cup {Table}
  <1> DEFINE contexts == {s \in DOMAIN got.contents : ~got.served[s].broken}
             kept == [s \in contexts |-> KeptKeys(got.contents[s], cols, got.served[s])]
             mine == [s \in contexts |->
                        [k \in kept[s] \cap DOMAIN read[s].terms |->
                           FilterTerm(read[s].terms[k], got.served[s], kept[s])]]
             terms == [id \in UNION {{s} \X DOMAIN mine[s] : s \in contexts} |-> mine[id[1]][id[2]]]
             final == [i \in {i \in DOMAIN Sources : Sources[i] \in contexts} |->
                         [source |-> Sources[i],
                          part   |-> FilterTable(got.contents[Sources[i]], cols, got.served[Sources[i]],
                                                 listed, mine[Sources[i]])]]
  <1>1. Answer(got, cols, complete, listed, read).out = Render(final, cols, terms, complete)
    BY DEF Answer
  <1> HIDE DEF contexts, kept, mine, terms
  <1>2. \A i \in DOMAIN final : Lets(final[i].part, cols, listed)
    BY GateShows
  <1> HIDE DEF final
  <1> QED
    BY <1>1, <1>2, RenderShows

LEMMA ServeStep ==
  ASSUME ShownInv, NEW c \in Calls, Serve(c)
  PROVE  \E s : StepOf(c, s)
  <1> DEFINE r == call[c]
  <1>1. Active(r) /\ r.pc = "serve" /\ UNCHANGED cache /\ UNCHANGED told
    BY DEF Serve, Active
  <1>2. DOMAIN r = Fields /\ Basis(told, r) /\ r.op = "describe"
    BY <1>1, Running DEF Stage
  <1>3. PICK read, answer :
          /\ answer = Answer(r.got, r.cols, r.complete, r.listed, read)
          /\ Steps(c, [r EXCEPT !.pc = "ended", !.read = read, !.answer = answer, !.names = NamesIn(answer.out)])
    BY DEF Serve
  <1> DEFINE s == [r EXCEPT !.pc = "ended", !.read = read, !.answer = answer, !.names = NamesIn(answer.out)]
  <1>4. DOMAIN s = Fields /\ s.pc = "ended" /\ s.names = NamesIn(answer.out)
    BY <1>2 DEF Fields
  <1>5. Steps(c, s)
    BY <1>3
  <1> HIDE DEF s
  <1>6. s.names \subseteq r.cols \cup r.listed \cup {Table}
    BY <1>3, <1>4, AnswerShows
  <1>7. Knows(told, r, s.names)
    BY <1>2, <1>6 DEF Knows, Basis
  <1>8. Fit(told, s)
    BY <1>4 DEF Fit, Active
  <1> QED
    BY <1>1, <1>5, <1>7, <1>8, NoneKept DEF StepOf, Steps, Grows, ShownInv
-----------------------------------------------------------------------------
(* The invariant *)

LEMMA CallStep ==
  ASSUME ShownInv, NEW c \in Calls, Call(c)
  PROVE  \E s : StepOf(c, s)
  BY BeginStep, RecordStep, LookCanaryStep, AskCanaryStep, KeepCanaryStep, LookSelectStep, AskSelectStep,
     KeepSelectStep, ProveStep, LookStep, AskStep, KeepStep, GatherStep, ServeStep DEF Call

LEMMA InitFit == Init => ShownInv
  <1> SUFFICES ASSUME Init PROVE ShownInv
    OBVIOUS
  <1>1. now \in Nat /\ lists \in [Callers -> Worlds] /\ Dated(told)
    BY DEF Init, Dated
  <1>2. DOMAIN NoCall = Fields /\ NoCall.pc = "idle" /\ NoCall.names = {}
    BY DEF NoCall, Fields
  <1>3. DOMAIN call = Calls /\ \A c \in Calls : call[c] = NoCall
    BY DEF Init
  <1>4. \A c \in Calls : Fit(told, call[c])
    BY <1>2, <1>3 DEF Fit, Active
  <1> QED
    BY <1>1, <1>3, <1>4 DEF Init, ShownInv

LEMMA StagePrimed ==
  ASSUME cfg' = cfg, NEW c
  PROVE  Stage(told, call[c])' <=> Stage(told', call'[c])
  <1>1. (Cleared(told, call[c]))' <=> Cleared(told', call'[c])
    BY DEF Cleared
  <1>2. (Validated(told, call[c]))' <=> Validated(told', call'[c])
    BY DEF Validated
  <1>3. (Way(told, call[c]))' <=> Way(told', call'[c])
    BY <1>1, <1>2 DEF Way
  <1> QED
    BY <1>1, <1>2, <1>3 DEF Stage

LEMMA TickFit ==
  ASSUME ShownInv, Tick
  PROVE  ShownInv'
  <1>1. now \in Nat /\ now' = now + 1 /\ UNCHANGED <<cfg, lists, cache, call, told>>
    BY DEF Tick, ShownInv
  <1>2. now' \in Nat /\ Dated(told)'
    BY <1>1 DEF Dated, ShownInv
  <1>3. \A e \in cache : EntryFit(told, e)'
    BY <1>1 DEF EntryFit, ShownInv
  <1>4. ASSUME NEW c \in Calls
        PROVE  Fit(told, call[c])'
    <2>1. Fit(told, call[c])
      BY DEF ShownInv
    <2>2. ASSUME Active(call[c])
          PROVE  Basis(told, call[c])' /\ Stage(told, call[c])'
      <3>1. call[c].end \in Int /\ call[c].end - Budget <= now /\ now < call[c].end
        BY <2>2, Running DEF Tick, Active
      <3>2. call[c].end - Budget <= now' /\ now' <= call[c].end
        BY <1>1, <3>1, Constants
      <3>3. Basis(told, call[c])'
        BY <1>1, <2>1, <2>2, <3>2 DEF Fit, Basis
      <3>4. told' = told /\ call' = call /\ Stage(told, call[c])
        BY <1>1, <2>1, <2>2 DEF Fit
      <3>5. Stage(told', call'[c])
        BY <3>4
      <3>6. Stage(told, call[c])'
        BY <1>1, <3>5, StagePrimed
      <3> QED
        BY <3>3, <3>6
    <2> QED
      BY <1>1, <2>1, <2>2 DEF Fit
  <1> QED
    BY <1>1, <1>2, <1>3, <1>4 DEF ShownInv

LEMMA OtherStepFits ==
  ASSUME ShownInv, UNCHANGED <<cfg, now, cache, call, told>>, lists' \in [Callers -> Worlds]
  PROVE  ShownInv'
  <1>1. ASSUME NEW c \in Calls
        PROVE  Fit(told, call[c])'
    <2>1. Fit(told, call[c]) /\ told' = told /\ call' = call /\ now' = now
      BY DEF ShownInv
    <2>2. ASSUME Active(call[c])
          PROVE  Basis(told, call[c])' /\ Stage(told, call[c])'
      <3>1. Basis(told, call[c]) /\ Stage(told, call[c])
        BY <2>1, <2>2 DEF Fit
      <3>2. Stage(told', call'[c])
        BY <2>1, <3>1
      <3> QED
        BY <2>1, <3>1, <3>2, StagePrimed DEF Basis
    <2> QED
      BY <2>1, <2>2 DEF Fit
  <1> QED
    BY <1>1 DEF ShownInv, Dated, EntryFit

LEMMA NextFits ==
  ASSUME ShownInv, [Next]_vars
  PROVE  ShownInv'
  <1>1. ASSUME NEW c \in Calls, Call(c) PROVE ShownInv'
    BY <1>1, CallStep, StepKeeps
  <1>2. CASE Change
    BY <1>2, OtherStepFits DEF Change, ShownInv
  <1>3. CASE Tick
    BY <1>3, TickFit
  <1>4. CASE UNCHANGED vars
    BY <1>4, OtherStepFits DEF vars, ShownInv
  <1> QED
    BY <1>1, <1>2, <1>3, <1>4 DEF Next

\* Every step of every call keeps the dates of what the calls and the cache rest on.
THEOREM ShownInvariant == Spec => []ShownInv
  <1>1. ShownInv /\ [Next]_vars => ShownInv'
    BY NextFits
  <1> QED
    BY InitFit, <1>1, PTL DEF Spec

\* No statement names a catalog, a schema, a table or a column that Trino never listed to
\* the caller (Visibility.schemas, tables, columns, selectable).
THEOREM AskedWasTold == Spec => []AsksOnlyTold
  <1>1. ASSUME ShownInv, NEW c \in Calls, NEW n \in AsksFor(call[c])
        PROVE  \E t \in told : t.who = call[c].who /\ t.what = n
    <2>1. Active(call[c])
      BY DEF AsksFor, Active
    <2>2. Basis(told, call[c]) /\ Stage(told, call[c])
      BY <1>1, <2>1, Running
    <2>3. Knows(told, call[c], {n})
      BY <1>1, <2>2 DEF AsksFor, Basis, Stage, Knows
    <2> QED
      BY <2>3 DEF Knows, KnownIn
  <1>2. ShownInv => AsksOnlyTold
    BY <1>1 DEF AsksOnlyTold
  <1> QED
    BY <1>2, ShownInvariant, PTL

LEMMA ShowStep ==
  ASSUME ShownInv, [Next]_vars, NEW c \in Calls, Shows(c)
  PROVE  /\ call[c].pc \in {"gather", "serve"} /\ Active(call[c])
         /\ Knows(told, call[c], call'[c].names)
  <1>1. ASSUME NEW d \in Calls, Call(d)
        PROVE  call[c].pc \in {"gather", "serve"} /\ Knows(told, call[c], call'[c].names)
    <2>1. PICK s : StepOf(d, s)
      BY <1>1, CallStep
    <2>2. call'[c] = IF c = d THEN s ELSE call[c]
      BY <2>1 DEF StepOf, ShownInv
    <2>3. c = d /\ call'[c] = s
      BY <2>2 DEF Shows
    <2> QED
      BY <2>1, <2>3 DEF StepOf, Shows
  <1>2. ~Change /\ ~Tick /\ ~UNCHANGED vars
    BY DEF Shows, Change, Tick, vars
  <1>3. call[c].pc \in {"gather", "serve"} /\ Knows(told, call[c], call'[c].names)
    BY <1>1, <1>2 DEF Next
  <1> QED
    BY <1>3 DEF Active

\* Whatever the races of the calls with the cache and with Trino, an answer names only what
\* Trino listed to its caller, one life of an entry and two calls ago at most.
THEOREM ShownRecently == Spec => ShownWasTold
  <1>1. ASSUME ShownInv, [Next]_vars, NEW c \in Calls, Shows(c), NEW n \in call'[c].names
        PROVE  Told(call[c].who, n, Life - 1 + 2 * Budget)
    <2>1. PICK t \in told : t.who = call[c].who /\ t.what = n /\ t.at >= Oldest(call[c])
      BY <1>1, ShowStep DEF Knows, KnownIn
    <2>2. t.at \in Int /\ now \in Nat /\ call[c].end \in Int /\ now <= call[c].end
      BY <1>1, <2>1, ShowStep, Running DEF Dated
    <2>3. now - t.at <= Life - 1 + 2 * Budget
      BY <2>1, <2>2, Constants DEF Oldest
    <2> QED
      BY <2>1, <2>3 DEF Told
  <1>2. ShownInv /\ [Next]_vars => [\A c \in Calls : Shows(c) =>
          \A n \in call'[c].names : Told(call[c].who, n, Life - 1 + 2 * Budget)]_vars
    BY <1>1
  <1> QED
    BY <1>2, ShownInvariant, PTL DEF Spec, ShownWasTold

\* Where the lists of catalogs are whole, context is shown only after Trino hid the canary
\* from the caller, two lives and three calls ago at most; and where the select is
\* required, after it validated a read of the very columns.
THEOREM CheckedFirst == ASSUME CatalogsFit PROVE Spec => ContextIsChecked
  <1>1. ASSUME ShownInv, [Next]_vars, NEW c \in Calls, Shows(c)
        PROVE  /\ cfg.canary => Told(call[c].who, Hidden, 2 * (Life - 1) + 3 * Budget)
               /\ cfg.select /\ call[c].op = "describe" => Told(call[c].who, call[c].cols, Life - 1 + 2 * Budget)
    <2>1. Cleared(told, call[c]) /\ Validated(told, call[c])
      BY <1>1, ShowStep, Running DEF Stage
    <2>2. Dated(told) /\ now \in Nat /\ call[c].end \in Int /\ now <= call[c].end
      BY <1>1, ShowStep, Running
    <2>3. ASSUME NEW n, KnownIn(told, call[c].who, n, OldestTwice(call[c]))
          PROVE  Told(call[c].who, n, 2 * (Life - 1) + 3 * Budget)
      <3>1. PICK t \in told : t.who = call[c].who /\ t.what = n /\ t.at >= OldestTwice(call[c])
        BY <2>3 DEF KnownIn
      <3>2. now - t.at <= 2 * (Life - 1) + 3 * Budget
        BY <2>2, <3>1, Constants DEF OldestTwice, Dated
      <3> QED
        BY <3>1, <3>2 DEF Told
    <2>4. ASSUME NEW n, KnownIn(told, call[c].who, n, Oldest(call[c]))
          PROVE  Told(call[c].who, n, Life - 1 + 2 * Budget)
      <3>1. PICK t \in told : t.who = call[c].who /\ t.what = n /\ t.at >= Oldest(call[c])
        BY <2>4 DEF KnownIn
      <3>2. now - t.at <= Life - 1 + 2 * Budget
        BY <2>2, <3>1, Constants DEF Oldest, Dated
      <3> QED
        BY <3>1, <3>2 DEF Told
    <2> QED
      BY <2>1, <2>3, <2>4 DEF Cleared, Validated
  <1>2. ShownInv /\ [Next]_vars => [\A c \in Calls : Shows(c) =>
          /\ cfg.canary => Told(call[c].who, Hidden, 2 * (Life - 1) + 3 * Budget)
          /\ cfg.select /\ call[c].op = "describe" => Told(call[c].who, call[c].cols, Life - 1 + 2 * Budget)]_vars
    BY <1>1
  <1> QED
    BY <1>2, ShownInvariant, PTL DEF Spec, ContextIsChecked

-----------------------------------------------------------------------------
(* What an answer holds to *)

LEMMA LeastMember ==
  ASSUME NEW S \in SUBSET Nat, S # {}
  PROVE  \E m \in S : \A x \in S : m <= x
  <1> DEFINE Below == {p \in Nat \X Nat : p[1] < p[2]}
  <1>1. IsWellFoundedOn(Below, Nat)
    <2>1. OpToRel(<, Nat) = Below
      BY DEF OpToRel
    <2> QED
      BY <2>1, NatLessThanWellFounded
  <1>2. PICK m \in S : \A x \in S : <<x, m>> \notin Below
    <2> HIDE DEF Below
    <2> QED
      BY <1>1, WFMin
  <1>3. ASSUME NEW x \in S
        PROVE  m <= x
    <2>1. ~(x < m) /\ x \in Nat /\ m \in Nat
      BY <1>2
    <2> QED
      BY <2>1
  <1> QED
    BY <1>3

LEMMA GreatestMember ==
  ASSUME NEW n \in Nat, NEW S \in SUBSET (1..n), S # {}
  PROVE  \E m \in S : \A x \in S : x <= m
  <1> DEFINE From == {n - x : x \in S}
  <1>1. From \in SUBSET Nat /\ From # {}
    <2>1. \A x \in S : x \in 1..n
      OBVIOUS
    <2>2. \A x \in S : n - x \in Nat
      BY <2>1
    <2> QED
      BY <2>2
  <1>2. PICK y \in From : \A z \in From : y <= z
    <2> HIDE DEF From
    <2> QED
      BY <1>1, LeastMember
  <1>3. PICK m \in S : y = n - m
    OBVIOUS
  <1>4. \A x \in S : n - m <= n - x
    BY <1>2, <1>3
  <1> QED
    BY <1>4

LEMMA ImageSmaller ==
  ASSUME NEW f, IsFiniteSet(DOMAIN f)
  PROVE  /\ IsFiniteSet({f[x] : x \in DOMAIN f})
         /\ Cardinality({f[x] : x \in DOMAIN f}) <= Cardinality(DOMAIN f)
  <1> DEFINE S == DOMAIN f
             T == {f[x] : x \in S}
             g == [x \in S |-> f[x]]
  <1>1. g \in Surjection(S, T)
    BY DEF Surjection
  <1> HIDE DEF T, g, S
  <1>2. IsFiniteSet(S)
    BY DEF S
  <1>3. IsFiniteSet(T) /\ Cardinality(T) <= Cardinality(S)
    BY <1>1, <1>2, FS_Surjection
  <1> QED
    BY <1>3 DEF S, T

LEMMA Places ==
  /\ DOMAIN Sources \subseteq Nat /\ IsFiniteSet(DOMAIN Sources)
  /\ DOMAIN Columns \subseteq Nat \ {0} /\ IsFiniteSet(DOMAIN Columns)
  /\ DOMAIN Columns = 1..Len(Columns) /\ Len(Columns) \in Nat
  /\ \A i \in DOMAIN Sources : Sources[i] \in SourceSet
  /\ \A s \in SourceSet : \E i \in DOMAIN Sources : Sources[i] = s
  /\ \A c \in ColumnSet : \E i \in DOMAIN Columns : Columns[i] = c
  /\ IsFiniteSet(SourceSet)
  <1>1. Sources \in Seq(SourceSet) /\ Columns \in Seq(ColumnSet)
    BY ReplyAssumption
  <1>2. /\ Len(Sources) \in Nat /\ DOMAIN Sources = 1..Len(Sources)
        /\ Len(Columns) \in Nat /\ DOMAIN Columns = 1..Len(Columns)
    BY <1>1
  <1>3. IsFiniteSet(1..Len(Sources)) /\ IsFiniteSet(1..Len(Columns))
    BY <1>2, FS_Interval
  <1>4. SourceSet = {Sources[i] : i \in DOMAIN Sources}
    BY <1>2 DEF SourceSet
  <1>5. IsFiniteSet(SourceSet)
    BY <1>2, <1>3, <1>4, ImageSmaller
  <1> QED
    BY <1>2, <1>3, <1>4, <1>5 DEF ColumnSet

\* A set of pairs of a finite set of terms, each with some of a finite set.
LEMMA PairsFinite ==
  ASSUME NEW A, NEW B, IsFiniteSet(A), IsFiniteSet(B), NEW P, P \subseteq A \X B
  PROVE  IsFiniteSet(P)
  BY FS_Product, FS_Subset

LEMMA SmallerSize ==
  ASSUME NEW terms, NEW ids, NEW more, NEW among, NEW order,
         ids \subseteq more, among \subseteq order, IsFiniteSet(more), IsFiniteSet(order)
  PROVE  /\ Cardinality(ids) \in Nat /\ Cardinality(more) \in Nat
         /\ TermsSize(ids, terms, among) \in Nat /\ TermsSize(more, terms, order) \in Nat
         /\ TermsSize(ids, terms, among) <= TermsSize(more, terms, order)
  <1> DEFINE P == UNION {{id} \X Related(id, terms, among) : id \in ids}
             Q == UNION {{id} \X Related(id, terms, order) : id \in more}
  <1>1. \A id : Related(id, terms, among) \subseteq Related(id, terms, order)
                /\ Related(id, terms, order) \subseteq order
    BY DEF Related
  <1>2. P \subseteq Q /\ Q \subseteq more \X order
    BY <1>1
  <1>3. TermsSize(ids, terms, among) = Cardinality(ids) + Cardinality(P)
        /\ TermsSize(more, terms, order) = Cardinality(more) + Cardinality(Q)
    BY DEF TermsSize
  <1> HIDE DEF P, Q
  <1>4. IsFiniteSet(Q)
    BY <1>2, PairsFinite
  <1>5. IsFiniteSet(P) /\ Cardinality(P) <= Cardinality(Q)
    BY <1>2, <1>4, FS_Subset
  <1>6. IsFiniteSet(ids) /\ Cardinality(ids) <= Cardinality(more)
    BY FS_Subset
  <1>7. Cardinality(P) \in Nat /\ Cardinality(Q) \in Nat /\ Cardinality(ids) \in Nat /\ Cardinality(more) \in Nat
    BY <1>4, <1>5, <1>6, FS_CardinalityType
  <1> QED
    BY <1>3, <1>5, <1>6, <1>7

\* What is answered of some places, once those of U were measured with their terms.
ServedFrom(out, table, merged, terms, taken, U, more) ==
  /\ taken \subseteq U /\ more = table.terms \cup UNION {merged[Columns[i]].terms : i \in U}
  /\ out.table = table /\ DOMAIN out.columns = {Columns[i] : i \in taken}
  /\ DOMAIN out.terms \subseteq more
  /\ \A id \in DOMAIN out.terms : out.terms[id] = Related(id, terms, DOMAIN out.terms)

\* What is served of some columns is no larger than what was measured of more.
LEMMA ServedSmaller ==
  ASSUME NEW table, NEW merged, NEW terms, NEW order, NEW U, NEW taken, NEW out,
         IsFiniteSet(U), IsFiniteSet(order),
         NEW more, more \subseteq order, ServedFrom(out, table, merged, terms, taken, U, more)
  PROVE  /\ SizeOf(out) <= SizeUpTo(table, U, merged, terms, order)
         /\ SizeOf(out) \in Nat /\ SizeUpTo(table, U, merged, terms, order) \in Nat
  <1> DEFINE refs == DOMAIN out.terms
             name == [i \in taken |-> Columns[i]]
             head == IF Empty(table) THEN 0 ELSE 1
  <1> USE DEF ServedFrom
  <1>1. UNION {{id} \X out.terms[id] : id \in refs} = UNION {{id} \X Related(id, terms, refs) : id \in refs}
    OBVIOUS
  <1>2. SizeOf(out) = head + Cardinality({Columns[i] : i \in taken}) + Cardinality(refs)
                        + Cardinality(UNION {{id} \X Related(id, terms, refs) : id \in refs})
    <2>1. SizeOf(out) = head + Cardinality(DOMAIN out.columns) + Cardinality(refs)
                          + Cardinality(UNION {{id} \X out.terms[id] : id \in refs})
      BY DEF SizeOf
    <2> QED
      BY <1>1, <2>1
  <1>3. IsFiniteSet(taken) /\ Cardinality(taken) <= Cardinality(U)
    BY FS_Subset
  <1>4. {name[i] : i \in DOMAIN name} = {Columns[i] : i \in taken} /\ DOMAIN name = taken
    OBVIOUS
  <1> HIDE DEF name
  <1>5. IsFiniteSet({Columns[i] : i \in taken}) /\ Cardinality({Columns[i] : i \in taken}) <= Cardinality(taken)
    <2>1. IsFiniteSet(DOMAIN name)
      BY <1>3, <1>4
    <2>2. /\ IsFiniteSet({name[i] : i \in DOMAIN name})
          /\ Cardinality({name[i] : i \in DOMAIN name}) <= Cardinality(DOMAIN name)
      BY <2>1, ImageSmaller
    <2> QED
      BY <1>4, <2>2
  <1>6. IsFiniteSet(more)
    BY FS_Subset
  <1> HIDE DEF refs
  <1>7. refs \subseteq more /\ refs \subseteq order
    BY DEF refs
  <1>8. TermsSize(refs, terms, refs) <= TermsSize(more, terms, order)
        /\ TermsSize(refs, terms, refs) \in Nat /\ TermsSize(more, terms, order) \in Nat
        /\ Cardinality(refs) \in Nat
    BY <1>6, <1>7, SmallerSize
  <1>9. TermsSize(refs, terms, refs)
          = Cardinality(refs) + Cardinality(UNION {{id} \X Related(id, terms, refs) : id \in refs})
    BY DEF TermsSize
  <1>10. SizeUpTo(table, U, merged, terms, order) = head + Cardinality(U) + TermsSize(more, terms, order)
    BY DEF SizeUpTo
  <1> DEFINE pairs == Cardinality(UNION {{id} \X Related(id, terms, refs) : id \in refs})
             names == Cardinality({Columns[i] : i \in taken})
  <1>11. names \in Nat /\ Cardinality(taken) \in Nat /\ Cardinality(U) \in Nat /\ names <= Cardinality(U)
    BY <1>3, <1>5, FS_CardinalityType
  <1>12. pairs \in Nat
    <2>1. UNION {{id} \X Related(id, terms, refs) : id \in refs} \subseteq refs \X refs
      BY DEF Related
    <2>2. IsFiniteSet(refs)
      BY <1>6, <1>7, FS_Subset
    <2>3. IsFiniteSet(UNION {{id} \X Related(id, terms, refs) : id \in refs})
      BY <2>1, <2>2, PairsFinite
    <2> QED
      BY <2>3, FS_CardinalityType
  <1>13. head \in {0, 1}
    OBVIOUS
  <1>14. SizeOf(out) = head + names + Cardinality(refs) + pairs
    BY <1>2
  <1>15. TermsSize(refs, terms, refs) = Cardinality(refs) + pairs
    BY <1>9
  <1> HIDE DEF head, names, pairs
  <1>16. SizeOf(out) = head + names + TermsSize(refs, terms, refs)
    BY <1>8, <1>11, <1>12, <1>13, <1>14, <1>15
  <1> QED
    BY <1>8, <1>10, <1>11, <1>13, <1>16

LEMMA NothingMerged ==
  ASSUME NEW terms, NEW complete
  PROVE  Empty(MergeTable(<<>>, terms, complete)) /\ MergeTable(<<>>, terms, complete).terms = {}
  <1>1. DOMAIN <<>> = {}
    OBVIOUS
  <1>2. /\ \A field, none : Single(<<>>, field, none) = {}
        /\ \A field : Union(<<>>, field) = {}
    BY <1>1 DEF Single, Union
  <1>3. TermIds(<<>>, terms) = {}
    BY <1>2 DEF TermIds
  <1> DEFINE table == MergeTable(<<>>, terms, complete)
  <1>4. /\ DOMAIN table = {"text", "owner", "labels", "terms", "grain", "joins"}
        /\ table.text = {} /\ table.owner = {} /\ table.labels = {} /\ table.terms = {}
        /\ table.grain = {} /\ table.joins = {}
    BY <1>2, <1>3 DEF MergeTable
  <1> HIDE DEF table
  <1>5. Empty(table) /\ table.terms = {}
    BY <1>4 DEF Empty
  <1> QED
    BY <1>5 DEF table

\* The terms an answer may cite.
Citable(final, visible, terms) ==
  TermIds(final, terms) \cup UNION {TermIds(PartsOf(final, c), terms) : c \in visible}

\* What an answer holds to by its own contents.
OutHolds(out) ==
  /\ SizeOf(out) <= Room
  /\ UNION {out.terms[id] : id \in DOMAIN out.terms} \subseteq DOMAIN out.terms
  /\ DOMAIN out.terms = out.table.terms \cup UNION {out.columns[n].terms : n \in DOMAIN out.columns}

LEMMA RenderHolds ==
  ASSUME NEW final, NEW visible, NEW terms, NEW complete, IsFiniteSet(Citable(final, visible, terms))
  PROVE  LET out == Render(final, visible, terms, complete)
         IN OutHolds(out) /\ DOMAIN out.terms \subseteq Citable(final, visible, terms)
  <1> DEFINE table == MergeTable(final, terms, complete)
             merged == [c \in visible |-> MergeColumn(PartsOf(final, c), terms)]
             given == {i \in DOMAIN Columns : Columns[i] \in visible /\ ~Empty(merged[Columns[i]])}
             first == First(given)
             order == table.terms \cup UNION {merged[Columns[i]].terms : i \in first}
             UpTo(i) == {j \in first : j <= i}
             Fits(i) == \A j \in {0} \cup UpTo(i) : SizeUpTo(table, UpTo(j), merged, terms, order) <= Room
             taken == {i \in first : Fits(i)}
             served == {Columns[i] : i \in taken}
             shown == IF Fits(0) THEN table ELSE MergeTable(<<>>, terms, complete)
             refs == shown.terms \cup UNION {merged[c].terms : c \in served}
             out == Render(final, visible, terms, complete)
  <1>1. /\ out.table = shown /\ out.columns = [c \in served |-> merged[c]]
        /\ out.terms = [id \in refs |-> Named(id, terms, refs)]
    BY DEF Render
  <1>2. /\ table.terms = TermIds(final, terms) /\ DOMAIN merged = visible
        /\ \A c \in visible : merged[c].terms = TermIds(PartsOf(final, c), terms)
    BY DEF MergeTable, MergeColumn
  <1>3. first \subseteq DOMAIN Columns /\ \A i \in first : Columns[i] \in visible
    BY DEF First
  <1>4. first \subseteq 1..Len(Columns) /\ Len(Columns) \in Nat /\ IsFiniteSet(first)
    <2> HIDE DEF first
    <2> QED
      BY <1>3, Places, FS_Subset
  <1> HIDE DEF out, table, merged, first
  <1>5. order \subseteq Citable(final, visible, terms)
    BY <1>2, <1>3 DEF Citable
  <1>6. IsFiniteSet(order)
    <2> HIDE DEF order
    <2> QED
      BY <1>5, FS_Subset
  <1>7. UpTo(0) = {}
    <2>1. \A j \in first : j \in Nat /\ j >= 1
      BY <1>4
    <2>2. \A j \in first : ~(j <= 0)
      BY <2>1
    <2> QED
      BY <2>2
  <1>8. Fits(0) <=> SizeUpTo(table, {}, merged, terms, order) <= Room
    BY <1>7
  <1>9. \A i \in taken : Fits(0)
    BY <1>7
  <1> HIDE DEF order
  <1>10. \E U \in SUBSET first : taken \subseteq U /\ (Fits(0) => SizeUpTo(table, U, merged, terms, order) <= Room)
    <2>1. CASE taken = {}
      BY <2>1, <1>8
    <2>2. CASE taken # {}
      <3>1. taken \subseteq first
        OBVIOUS
      <3>2. PICK m \in taken : \A i \in taken : i <= m
        <4> HIDE DEF taken
        <4> QED
          BY <2>2, <3>1, <1>4, GreatestMember
      <3>3. m \in first /\ Fits(m) /\ m \in UpTo(m)
        BY <1>4
      <3>4. SizeUpTo(table, UpTo(m), merged, terms, order) <= Room
        BY <3>3
      <3>5. taken \subseteq UpTo(m) /\ UpTo(m) \in SUBSET first
        BY <3>2
      <3> HIDE DEF taken, UpTo
      <3> QED
        BY <3>4, <3>5
    <2> QED
      BY <2>1, <2>2
  <1>11. taken \subseteq first
    OBVIOUS
  <1> HIDE DEF taken
  <1>12. /\ DOMAIN out.terms = refs /\ DOMAIN out.columns = served
         /\ \A id \in refs : out.terms[id] = Related(id, terms, refs)
         /\ \A c \in served : out.columns[c] = merged[c]
    BY <1>1 DEF Named
  <1>13. served \subseteq visible
    BY <1>3, <1>11
  <1>14. refs \subseteq IF Fits(0) THEN order ELSE {}
    BY <1>9, <1>11, NothingMerged DEF order, taken
  <1>15. SizeOf(out) <= Room
    <2>1. CASE Fits(0)
      <3>1. PICK U \in SUBSET first : taken \subseteq U /\ SizeUpTo(table, U, merged, terms, order) <= Room
        BY <1>10, <2>1
      <3> DEFINE more == table.terms \cup UNION {merged[Columns[i]].terms : i \in U}
      <3>2. refs \subseteq more /\ more \subseteq order
        BY <2>1, <3>1 DEF order
      <3>3. out.table = table /\ IsFiniteSet(U)
        BY <1>1, <1>4, <2>1, FS_Subset
      <3>4. /\ SizeOf(out) <= SizeUpTo(table, U, merged, terms, order)
            /\ SizeOf(out) \in Nat /\ SizeUpTo(table, U, merged, terms, order) \in Nat
        <4> HIDE DEF Fits, shown, refs
        <4>1. DOMAIN out.columns = {Columns[i] : i \in taken} /\ DOMAIN out.terms \subseteq more
              /\ \A id \in DOMAIN out.terms : out.terms[id] = Related(id, terms, DOMAIN out.terms)
          BY <1>12, <3>2
        <4>2. ServedFrom(out, table, merged, terms, taken, U, more)
          BY <3>1, <3>3, <4>1 DEF ServedFrom
        <4> HIDE DEF served, more
        <4> QED
          BY <1>6, <3>1, <3>2, <3>3, <4>2, ServedSmaller
      <3> QED
        BY <3>1, <3>4, ReplyAssumption
    <2>2. CASE ~Fits(0)
      <3>1. taken = {}
        BY <1>9, <2>2
      <3>2. served = {} /\ shown = MergeTable(<<>>, terms, complete)
        BY <2>2, <3>1
      <3>3. refs = {}
        BY <3>2, NothingMerged
      <3> HIDE DEF refs, served, shown, Fits
      <3>4. Empty(out.table)
        BY <1>1, <3>2, NothingMerged
      <3>5. UNION {{id} \X out.terms[id] : id \in DOMAIN out.terms} = {}
        BY <1>12, <3>3
      <3>6. DOMAIN out.columns = {} /\ DOMAIN out.terms = {} /\ Cardinality({}) = 0
        BY <1>12, <3>2, <3>3, FS_EmptySet
      <3>7. SizeOf(out) = 0
        BY <3>4, <3>5, <3>6 DEF SizeOf
      <3> QED
        BY <3>7, ReplyAssumption
    <2> QED
      BY <2>1, <2>2
  <1>16. UNION {out.terms[id] : id \in DOMAIN out.terms} \subseteq DOMAIN out.terms
    <2> HIDE DEF refs
    <2> QED
      BY <1>12 DEF Related
  <1>17. DOMAIN out.terms = out.table.terms \cup UNION {out.columns[n].terms : n \in DOMAIN out.columns}
    <2> HIDE DEF shown, served
    <2> QED
      BY <1>1, <1>12
  <1>18. DOMAIN out.terms \subseteq Citable(final, visible, terms)
    <2> HIDE DEF refs, Fits
    <2> QED
      BY <1>5, <1>12, <1>14
  <1> QED
    BY <1>15, <1>16, <1>17, <1>18 DEF out, OutHolds

\* A value that is given is the one that is served, or among the others.
LEMMA SingleGives ==
  ASSUME NEW parts, DOMAIN parts \subseteq Nat, NEW i \in DOMAIN parts, NEW field, NEW none,
         parts[i].part[field] # none
  PROVE  \E v \in Single(parts, field, none) : parts[i].part[field] \in {v.value} \cup v.others
  <1> DEFINE value == [j \in DOMAIN parts |-> parts[j].part[field]]
             given == {j \in DOMAIN parts : value[j] # none}
             v(j) == [value |-> value[j], source |-> parts[j].source, others |-> {value[k] : k \in given} \ {value[j]}]
  <1>1. given \in SUBSET Nat /\ i \in given
    OBVIOUS
  <1>2. PICK m \in given : \A j \in given : m <= j
    <2> HIDE DEF given
    <2> QED
      BY <1>1, LeastMember
  <1>3. v(m) \in Single(parts, field, none)
    BY <1>2 DEF Single
  <1>4. value[i] \in {v(m).value} \cup v(m).others /\ value[i] = parts[i].part[field]
    BY <1>1
  <1> HIDE DEF v, value
  <1> QED
    BY <1>3, <1>4

\* An answer that left nothing out has what each source says of each column.
LEMMA RenderWhole ==
  ASSUME NEW final, DOMAIN final \subseteq Nat, NEW visible, NEW terms, NEW complete,
         ~Render(final, visible, terms, complete).truncated,
         NEW n \in visible, n \in ColumnSet, NEW i \in DOMAIN final, n \in DOMAIN final[i].part.columns,
         NEW said, said = final[i].part.columns[n].text, said # ""
  PROVE  LET out == Render(final, visible, terms, complete)
         IN n \in DOMAIN out.columns /\ \E text \in out.columns[n].text : said \in {text.value} \cup text.others
  <1> DEFINE merged == [c \in visible |-> MergeColumn(PartsOf(final, c), terms)]
             given == {j \in DOMAIN Columns : Columns[j] \in visible /\ ~Empty(merged[Columns[j]])}
             having == {Columns[j] : j \in given}
             out == Render(final, visible, terms, complete)
  <1>1. out.truncated = (having # DOMAIN out.columns)
    BY DEF Render
  <1>2. \A c \in DOMAIN out.columns : out.columns[c] = merged[c]
    BY DEF Render
  <1> DEFINE parts == PartsOf(final, n)
  <1>3. DOMAIN parts \subseteq Nat /\ i \in DOMAIN parts /\ parts[i].part.text = said
    BY DEF PartsOf
  <1>4. \E text \in Single(parts, "text", "") : said \in {text.value} \cup text.others
    <2> HIDE DEF parts
    <2>1. parts[i].part["text"] = said /\ parts[i].part["text"] # ""
      BY <1>3
    <2>2. \E v \in Single(parts, "text", "") : parts[i].part["text"] \in {v.value} \cup v.others
      BY <1>3, <2>1, SingleGives
    <2> QED
      BY <2>1, <2>2
  <1>5. merged[n].text = Single(parts, "text", "") /\ "text" \in DOMAIN merged[n]
    BY DEF MergeColumn
  <1>6. ~Empty(merged[n])
    <2>1. merged[n].text # {}
      BY <1>4, <1>5
    <2>2. merged[n]["text"] # {}
      BY <2>1
    <2> HIDE DEF merged
    <2> QED
      BY <1>5, <2>2 DEF Empty
  <1>7. n \in having
    <2>1. PICK j \in DOMAIN Columns : Columns[j] = n
      BY Places
    <2> HIDE DEF merged
    <2> QED
      BY <1>6, <2>1
  <1>8. n \in DOMAIN out.columns
    <2> HIDE DEF having, out
    <2>1. ~out.truncated
      BY DEF out
    <2> QED
      BY <1>1, <1>7, <2>1
  <1>9. out.columns[n].text = Single(parts, "text", "")
    BY <1>2, <1>5, <1>8
  <1> HIDE DEF out, parts
  <1>10. n \in DOMAIN out.columns /\ \E text \in out.columns[n].text : said \in {text.value} \cup text.others
    BY <1>4, <1>8, <1>9
  <1> QED
    BY <1>10 DEF out
-----------------------------------------------------------------------------
(* The terms of an answer *)

LEMMA CitedIs ==
  ASSUME NEW parts, NEW terms, NEW id \in TermIds(parts, terms)
  PROVE  \E i \in DOMAIN parts : \E k \in parts[i].part.terms : id = <<parts[i].source, k>>
  <1>1. PICK t \in Union(parts, "terms") : id = <<t.source, t.item>>
    BY DEF TermIds
  <1>2. \E i \in DOMAIN parts : t.source = parts[i].source /\ t.item \in parts[i].part["terms"]
    BY DEF Union
  <1> QED
    BY <1>1, <1>2

\* Each term of a part was read under its key, in a glossary that is served.
Attached(part, read, served) ==
  \A k \in part.terms : k \in DOMAIN read /\ read[k].key = k /\ read[k].glossary \in served.glossary

LEMMA GateAttaches ==
  ASSUME NEW ctx, NEW cols, NEW served, NEW listed, NEW read,
         NEW part, part = FilterTable(ctx, cols, served, listed, read)
  PROVE  /\ Attached(part, read, served)
         /\ \A c \in DOMAIN part.columns : Attached(part.columns[c], read, served)
  <1>1. part.terms = KeepTerms(ctx.terms, served, read)
    BY DEF FilterTable
  <1>2. \A c \in DOMAIN part.columns : part.columns[c].terms = KeepTerms(ctx.columns[c].terms, served, read)
    BY DEF FilterTable
  <1> QED
    BY <1>1, <1>2 DEF Attached, KeepTerms

LEMMA FilteredTerm ==
  ASSUME NEW term, {"key", "glossary"} \subseteq DOMAIN term, NEW served, NEW attached
  PROVE  /\ FilterTerm(term, served, attached).key = term.key
         /\ FilterTerm(term, served, attached).glossary = term.glossary
  BY DEF FilterTerm
-----------------------------------------------------------------------------
(* The answer of a call *)

\* What the chain answers: only sources of the configuration, and terms that are finite.
Given(got, read) ==
  /\ DOMAIN got.contents \subseteq SourceSet
  /\ \A s \in SourceSet :
       /\ IsFiniteSet(DOMAIN read[s].terms)
       /\ \A key \in DOMAIN read[s].terms : {"key", "glossary"} \subseteq DOMAIN read[s].terms[key]

TermHolds(id, got, read) ==
  /\ read[id[1]].terms[id[2]].key = id[2]
  /\ read[id[1]].terms[id[2]].glossary \in got.served[id[1]].glossary

Whole(answer, got, cols) ==
  \A s \in DOMAIN got.contents :
    answer.sources[s] = "ok" => \A n \in cols : Describes(got.contents[s], n) =>
      /\ n \in DOMAIN answer.out.columns
      /\ \E text \in answer.out.columns[n].text :
           got.contents[s].columns[n].text \in {text.value} \cup text.others

LEMMA AnswerGood ==
  ASSUME NEW got, NEW cols, cols \subseteq ColumnSet, NEW complete, NEW listed, NEW read, Given(got, read)
  PROVE  LET answer == Answer(got, cols, complete, listed, read)
         IN /\ OutHolds(answer.out)
            /\ \A id \in DOMAIN answer.out.terms : TermHolds(id, got, read)
            /\ Whole(answer, got, cols)
  <1> DEFINE contexts == {s \in DOMAIN got.contents : ~got.served[s].broken}
             kept == [s \in contexts |-> KeptKeys(got.contents[s], cols, got.served[s])]
             asked(s) == s \in contexts /\ kept[s] # {}
             mine == [s \in contexts |->
                        [k \in kept[s] \cap DOMAIN read[s].terms |->
                           FilterTerm(read[s].terms[k], got.served[s], kept[s])]]
             terms == [id \in UNION {{s} \X DOMAIN mine[s] : s \in contexts} |-> mine[id[1]][id[2]]]
             part(s) == FilterTable(got.contents[s], cols, got.served[s], listed, mine[s])
             places == {i \in DOMAIN Sources : Sources[i] \in contexts}
             final == [i \in places |->
                         [source |-> Sources[i],
                          part   |-> FilterTable(got.contents[Sources[i]], cols, got.served[Sources[i]],
                                                 listed, mine[Sources[i]])]]
             answer == Answer(got, cols, complete, listed, read)
             out == Render(final, cols, terms, complete)
  <1>1. answer.out = out
    BY DEF Answer
  <1>2. \A s \in SourceSet :
          answer.sources[s] = Status(IF s \in DOMAIN got.contents \ contexts THEN "error" ELSE got.status[s],
                                     s \in contexts, IF asked(s) THEN read[s].status ELSE "ok",
                                     out.truncated \/ ~complete)
    BY DEF Answer
  <1>3. contexts \subseteq SourceSet
    BY DEF Given
  <1>4. \A s \in contexts : \A k \in DOMAIN mine[s] :
          /\ k \in DOMAIN read[s].terms
          /\ mine[s][k].key = read[s].terms[k].key /\ mine[s][k].glossary = read[s].terms[k].glossary
    <2> SUFFICES ASSUME NEW s \in contexts, NEW k \in DOMAIN mine[s]
                 PROVE  /\ k \in DOMAIN read[s].terms
                        /\ mine[s][k].key = read[s].terms[k].key
                        /\ mine[s][k].glossary = read[s].terms[k].glossary
      OBVIOUS
    <2>1. k \in DOMAIN read[s].terms /\ mine[s][k] = FilterTerm(read[s].terms[k], got.served[s], kept[s])
      OBVIOUS
    <2>2. {"key", "glossary"} \subseteq DOMAIN read[s].terms[k]
      BY <1>3, <2>1 DEF Given
    <2> HIDE DEF mine, kept, contexts
    <2>3. /\ FilterTerm(read[s].terms[k], got.served[s], kept[s]).key = read[s].terms[k].key
          /\ FilterTerm(read[s].terms[k], got.served[s], kept[s]).glossary = read[s].terms[k].glossary
      BY <2>2, FilteredTerm
    <2> QED
      BY <2>1, <2>3
  <1> DEFINE PartHolds(p, s) == \A k \in p.terms :
               /\ k \in DOMAIN read[s].terms /\ TermHolds(<<s, k>>, got, read)
             PlaceHolds(f, s) == /\ f.source = s /\ s \in contexts /\ PartHolds(f.part, s)
                                 /\ \A c \in DOMAIN f.part.columns : PartHolds(f.part.columns[c], s)
  <1>5. ASSUME NEW i \in places
        PROVE  PlaceHolds(final[i], Sources[i])
    <2> DEFINE s == Sources[i]
    <2>1. final[i].source = s /\ s \in contexts /\ final[i].part = part(s)
      OBVIOUS
    <2> HIDE DEF s
    <2> HIDE DEF mine, contexts, final
    <2>2. /\ Attached(part(s), mine[s], got.served[s])
          /\ \A c \in DOMAIN part(s).columns : Attached(part(s).columns[c], mine[s], got.served[s])
      BY GateAttaches
    <2>3. ASSUME NEW p, Attached(p, mine[s], got.served[s])
          PROVE  PartHolds(p, s)
      BY <1>4, <2>1, <2>3 DEF Attached, TermHolds
    <2> HIDE DEF part, PartHolds
    <2>4. PlaceHolds(final[i], s)
      BY <2>1, <2>2, <2>3
    <2> QED
      BY <2>4 DEF s
  <1> HIDE DEF mine, final, answer
  <1> DEFINE IdHolds(id) == /\ id[1] \in SourceSet /\ id[2] \in DOMAIN read[id[1]].terms
                            /\ id = <<id[1], id[2]>> /\ TermHolds(id, got, read)
  <1>6. DOMAIN final = places
    BY DEF final
  <1>7. \A id \in Citable(final, cols, terms) : IdHolds(id)
    <2>1. ASSUME NEW parts, NEW id \in TermIds(parts, terms),
                 \A i \in DOMAIN parts : parts[i].source \in contexts /\ PartHolds(parts[i].part, parts[i].source)
          PROVE  IdHolds(id)
      <3>1. PICK i \in DOMAIN parts : \E k \in parts[i].part.terms : id = <<parts[i].source, k>>
        BY <2>1, CitedIs
      <3>2. PICK k \in parts[i].part.terms : id = <<parts[i].source, k>>
        BY <3>1
      <3>3. id[1] = parts[i].source /\ id[2] = k
        BY <3>2
      <3>4. parts[i].source \in SourceSet
        BY <1>3, <2>1
      <3> HIDE DEF contexts
      <3> QED
        BY <2>1, <3>2, <3>3, <3>4
    <2>2. \A i \in DOMAIN final : final[i].source \in contexts /\ PartHolds(final[i].part, final[i].source)
      BY <1>5, <1>6
    <2>3. ASSUME NEW c \in cols
          PROVE  \A i \in DOMAIN PartsOf(final, c) :
                   /\ PartsOf(final, c)[i].source \in contexts
                   /\ PartHolds(PartsOf(final, c)[i].part, PartsOf(final, c)[i].source)
      <3> HIDE DEF PartHolds, contexts, places
      <3>1. ASSUME NEW i \in DOMAIN PartsOf(final, c)
            PROVE  /\ i \in DOMAIN final /\ c \in DOMAIN final[i].part.columns
                   /\ PartsOf(final, c)[i].source = final[i].source
                   /\ PartsOf(final, c)[i].part = final[i].part.columns[c]
        BY DEF PartsOf
      <3> QED
        BY <1>5, <1>6, <3>1
    <2> HIDE DEF IdHolds, PartHolds, contexts, places
    <2> QED
      BY <2>1, <2>2, <2>3 DEF Citable
  <1>8. IsFiniteSet(Citable(final, cols, terms))
    <2> DEFINE keys == [s \in SourceSet |-> DOMAIN read[s].terms]
               all == UNION {keys[s] : s \in DOMAIN keys}
    <2>1. IsFiniteSet(DOMAIN keys) /\ \A s \in DOMAIN keys : IsFiniteSet(keys[s])
      BY Places DEF Given
    <2>2. \A id \in Citable(final, cols, terms) : id \in SourceSet \X all
      <3> SUFFICES ASSUME NEW id \in Citable(final, cols, terms) PROVE id \in SourceSet \X all
        OBVIOUS
      <3>1. IdHolds(id)
        BY <1>7
      <3>2. id[2] \in keys[id[1]] /\ id[1] \in DOMAIN keys
        BY <3>1
      <3> HIDE DEF keys
      <3>3. id[2] \in all
        BY <3>2
      <3> QED
        BY <3>1, <3>3
    <2> HIDE DEF keys
    <2>3. IsFiniteSet({keys[s] : s \in DOMAIN keys})
      BY <2>1, ImageSmaller
    <2>4. IsFiniteSet(all)
      BY <2>1, <2>3, FS_UNION
    <2> HIDE DEF all
    <2> QED
      BY <2>2, <2>4, Places, PairsFinite
  <1>9. OutHolds(out) /\ DOMAIN out.terms \subseteq Citable(final, cols, terms)
    <2> HIDE DEF terms
    <2> QED
      BY <1>8, RenderHolds
  <1>10. \A id \in DOMAIN out.terms : TermHolds(id, got, read)
    BY <1>7, <1>9
  <1>11. Whole(answer, got, cols)
    <2> SUFFICES ASSUME NEW s \in DOMAIN got.contents, answer.sources[s] = "ok",
                        NEW n \in cols, Describes(got.contents[s], n)
                 PROVE  /\ n \in DOMAIN answer.out.columns
                        /\ \E text \in answer.out.columns[n].text :
                             got.contents[s].columns[n].text \in {text.value} \cup text.others
      BY DEF Whole
    <2>1. s \in SourceSet
      BY DEF Given
    <2>2. s \in contexts /\ ~out.truncated
      <3> DEFINE state == IF s \in DOMAIN got.contents \ contexts THEN "error" ELSE got.status[s]
                 termState == IF asked(s) THEN read[s].status ELSE "ok"
      <3>1. Status(state, s \in contexts, termState, out.truncated \/ ~complete) = "ok"
        BY <1>2, <2>1
      <3> HIDE DEF state, termState, out, contexts
      <3>2. state = "ok" /\ ~(out.truncated \/ ~complete)
        BY <3>1 DEF Status
      <3> QED
        BY <3>2 DEF state
    <2>3. PICK i \in DOMAIN Sources : Sources[i] = s
      BY <2>1, Places
    <2>4. i \in DOMAIN final /\ DOMAIN final \subseteq Nat /\ final[i].part = part(s)
      BY <1>6, <2>2, <2>3, Places DEF final
    <2>5. n \in DOMAIN part(s).columns /\ part(s).columns[n].text = got.contents[s].columns[n].text
          /\ got.contents[s].columns[n].text # ""
      BY DEF Describes, FilterTable
    <2> DEFINE said == final[i].part.columns[n].text
    <2>6. n \in DOMAIN final[i].part.columns /\ said = got.contents[s].columns[n].text /\ said # "" /\ n \in ColumnSet
      BY <2>4, <2>5
    <2> HIDE DEF terms, part, contexts, places
    <2>7. n \in DOMAIN out.columns /\ \E text \in out.columns[n].text : said \in {text.value} \cup text.others
      BY <2>2, <2>4, <2>6, RenderWhole
    <2> HIDE DEF out, said
    <2> QED
      BY <1>1, <2>6, <2>7
  <1> QED
    BY <1>1, <1>9, <1>10, <1>11 DEF answer
-----------------------------------------------------------------------------
(* The answers of the calls *)

Unserved == {"not_checked", "not_found", "unavailable", "error"}
Silent(r) == \E status \in Unserved : r.answer = Nothing(status)

Holds(r) ==
  /\ OutHolds(r.answer.out)
  /\ \A id \in DOMAIN r.answer.out.terms : TermHolds(id, r.got, r.read)
  /\ r.got # <<>> => Whole(r.answer, r.got, r.cols)

\* A proof of what the joins name, or the answer, comes after the chain answered.
Onward(r) == r.op = "describe" /\ r.goal # "canary"
Gathered(r) == r.op = "describe" /\ (r.pc \in {"prove", "serve"} \/ (r.pc \in Asking /\ r.goal # "canary"))

\* The answer of a call belongs to what the chain gave that very call.
Sound(r) ==
  /\ r.cols \subseteq ColumnSet
  /\ r.got # <<>> \/ Gathered(r) => r.got \in Gatherings[cfg.catalogue]
  /\ Silent(r) \/ (r.pc = "ended" /\ Holds(r))

AnswerInv == cfg.catalogue \in DOMAIN Gatherings /\ \A c \in Calls : Sound(call[c])

LEMMA SilentHolds ==
  ASSUME AnswerInv, NEW r, Sound(r), Silent(r)
  PROVE  Holds(r)
  <1>1. PICK status \in Unserved : r.answer = Nothing(status)
    BY DEF Silent
  <1> DEFINE out == Render(<<>>, {}, <<>>, TRUE)
  <1>2. r.answer.out = out /\ \A s \in SourceSet : r.answer.sources[s] = status
    BY <1>1 DEF Nothing
  <1>3. Citable(<<>>, {}, <<>>) = {}
    <2>1. MergeTable(<<>>, <<>>, TRUE).terms = TermIds(<<>>, <<>>)
      BY DEF MergeTable
    <2> QED
      BY <2>1, NothingMerged DEF Citable
  <1>4. OutHolds(out) /\ DOMAIN out.terms = {}
    <2>1. IsFiniteSet(Citable(<<>>, {}, <<>>))
      BY <1>3, FS_EmptySet
    <2>2. OutHolds(out) /\ DOMAIN out.terms \subseteq Citable(<<>>, {}, <<>>)
      BY <2>1, RenderHolds
    <2> HIDE DEF out
    <2> QED
      BY <1>3, <2>2
  <1> HIDE DEF out
  <1>5. ASSUME r.got # <<>>
        PROVE  Whole(r.answer, r.got, r.cols)
    <2>1. DOMAIN r.got.contents \subseteq SourceSet
      BY <1>5, AnswersAssumption DEF Sound, AnswerInv
    <2>2. status # "ok"
      BY DEF Unserved
    <2> QED
      BY <1>2, <2>1, <2>2 DEF Whole
  <1> QED
    BY <1>2, <1>4, <1>5 DEF Holds

\* A step that is no answer: what the call has is kept, or it ends with nothing.
Carries(r, s) ==
  /\ s.op = r.op /\ s.got = r.got /\ s.cols = r.cols
  /\ s.answer = r.answer \/ Silent(s)

LEMMA CarriedSound ==
  ASSUME NEW r, NEW s, Sound(r), Silent(r), Carries(r, s), Gathered(s) => r.got \in Gatherings[cfg.catalogue]
  PROVE  Sound(s)
  <1>1. Silent(s)
    BY DEF Carries, Silent
  <1> QED
    BY <1>1 DEF Sound, Carries

LEMMA EndsSilent ==
  ASSUME NEW r, DOMAIN r = Fields, NEW status \in Unserved
  PROVE  Carries(r, ServeNothing(r, status)) /\ ~Gathered(ServeNothing(r, status))
  <1> DEFINE s == ServeNothing(r, status)
  <1>1. s.op = r.op /\ s.got = r.got /\ s.cols = r.cols /\ s.pc = "ended" /\ s.answer = Nothing(status)
    BY DEF ServeNothing, Fields
  <1> HIDE DEF s
  <1>2. Carries(r, s) /\ ~Gathered(s)
    BY <1>1 DEF Carries, Silent, Gathered, Asking
  <1> QED
    BY <1>2 DEF s

\* A change of the place of a call alone.
LEMMA Moves ==
  ASSUME NEW r, NEW s, s.op = r.op, s.got = r.got, s.cols = r.cols, s.answer = r.answer
  PROVE  Carries(r, s)
  BY DEF Carries

LEMMA ConcludeCarries ==
  ASSUME NEW r, DOMAIN r = Fields, NEW found
  PROVE  Carries(r, Conclude(r, found)) /\ (Gathered(Conclude(r, found)) => Onward(r))
  <1> DEFINE s == Conclude(r, found)
  <1>1. CASE s = ServeNothing(r, "not_found")
    BY <1>1, EndsSilent DEF Unserved
  <1>2. CASE s # ServeNothing(r, "not_found")
    <2>1. s.op = r.op /\ s.got = r.got /\ s.cols = r.cols /\ s.answer = r.answer
      BY <1>2 DEF Conclude, Fields
    <2>2. r.goal = "canary" => s.goal = "canary" /\ s.pc \in {"ask canary", "keep canary"}
      BY DEF Conclude, Fields
    <2> HIDE DEF s
    <2>3. Carries(r, s) /\ (Gathered(s) => Onward(r))
      BY <2>1, <2>2 DEF Carries, Gathered, Onward, Asking
    <2> QED
      BY <2>3 DEF s
  <1> QED
    BY <1>1, <1>2

LEMMA UnreadCarries ==
  ASSUME NEW r, DOMAIN r = Fields
  PROVE  Carries(r, Unread(r)) /\ (Gathered(Unread(r)) => Onward(r))
  BY ConcludeCarries, EndsSilent DEF Unread, Unserved

LEMMA ArriveCarries ==
  ASSUME NEW r, DOMAIN r = Fields, NEW found
  PROVE  Carries(r, Arrive(r, found)) /\ (Gathered(Arrive(r, found)) => Onward(r))
  <1> DEFINE s == [r EXCEPT !.stack = Tail(@), !.pc = "ask", !.held = {}]
  <1>1. s.op = r.op /\ s.got = r.got /\ s.cols = r.cols /\ s.answer = r.answer /\ s.goal = r.goal /\ s.pc = "ask"
    BY DEF Fields
  <1>2. Arrive(r, found) \in {s, Conclude(r, found), Conclude(r, {})}
    BY DEF Arrive
  <1> HIDE DEF s
  <1>3. Carries(r, s) /\ (Gathered(s) => Onward(r))
    BY <1>1 DEF Carries, Gathered, Onward
  <1> QED
    BY <1>2, <1>3, ConcludeCarries

LEMMA ClearCarries ==
  ASSUME NEW r, DOMAIN r = Fields
  PROVE  Carries(r, Clear(r)) /\ ~Gathered(Clear(r))
  <1> DEFINE s == Clear(r)
  <1>1. s.op = r.op /\ s.got = r.got /\ s.cols = r.cols /\ s.answer = r.answer
        /\ s.pc \in {"select", "prove", "gather"} /\ (s.pc = "prove" => r.op = "read")
    BY DEF Clear, Fields
  <1> HIDE DEF s
  <1>2. Carries(r, s) /\ ~Gathered(s)
    BY <1>1 DEF Carries, Gathered, Asking
  <1> QED
    BY <1>2 DEF s

-----------------------------------------------------------------------------
\* A step of c, that leaves it sound.
SoundStep(c) == \E s : Steps(c, s) /\ Sound(s)

LEMMA Awake ==
  ASSUME ShownInv, AnswerInv, NEW c \in Calls, Active(call[c])
  PROVE  /\ DOMAIN call[c] = Fields /\ Sound(call[c]) /\ Silent(call[c])
  BY DEF ShownInv, Fit, AnswerInv, Sound, Active

\* The steps that carry what the call has, and may go on only from a call that has gathered.
LEMMA CarryStep ==
  ASSUME ShownInv, AnswerInv, NEW c \in Calls, Active(call[c]), NEW s, Steps(c, s), Carries(call[c], s),
         Gathered(s) => Gathered(call[c])
  PROVE  SoundStep(c)
  <1>1. Sound(s)
    BY Awake, CarriedSound DEF Sound
  <1> QED
    BY <1>1 DEF SoundStep

LEMMA BeginSound ==
  ASSUME ShownInv, AnswerInv, NEW c \in Calls, Begin(c)
  PROVE  SoundStep(c)
  <1>1. /\ DOMAIN NoCall = Fields /\ NoCall.got = <<>> /\ NoCall.cols = {} /\ NoCall.answer = Nothing("not_checked")
    BY DEF NoCall, Fields
  <1>2. UNCHANGED <<cfg, now, lists>>
    BY DEF Begin
  <1>3. ASSUME NEW s, call' = [call EXCEPT ![c] = s], s.got = <<>>, s.cols \subseteq ColumnSet,
               s.pc \in {"record", "canary"}, s.answer = NoCall.answer
        PROVE  SoundStep(c)
    <2>1. Sound(s)
      BY <1>1, <1>3 DEF Sound, Gathered, Asking, Silent, Unserved
    <2> QED
      BY <1>2, <1>3, <2>1 DEF SoundStep, Steps
  <1>4. ASSUME NEW who \in Callers, Describe(c, who)
        PROVE  SoundStep(c)
    <2>1. PICK page \in SUBSET Listing(who, Table) :
            call' = [call EXCEPT ![c] = [NoCall EXCEPT
                       !.op = "describe", !.who = who, !.pc = "record", !.end = now + Budget, !.refs = {Table},
                       !.cols = page, !.complete = (page = Listing(who, Table)), !.listed = page]]
      BY <1>4 DEF Describe
    <2> DEFINE s == [NoCall EXCEPT
                       !.op = "describe", !.who = who, !.pc = "record", !.end = now + Budget, !.refs = {Table},
                       !.cols = page, !.complete = (page = Listing(who, Table)), !.listed = page]
    <2>2. s.got = <<>> /\ s.cols = page /\ s.pc = "record" /\ s.answer = NoCall.answer
      BY <1>1 DEF Fields
    <2>3. page \subseteq ColumnSet
      BY ShownAssumption DEF Listing
    <2>4. call' = [call EXCEPT ![c] = s]
      BY <2>1
    <2> HIDE DEF s
    <2> QED
      BY <1>3, <2>2, <2>3, <2>4
  <1>5. ASSUME NEW who \in Callers, DescribeSchema(c, who)
        PROVE  SoundStep(c)
    <2>1. PICK page :
            call' = [call EXCEPT ![c] = [NoCall EXCEPT
                       !.op = "page", !.who = who, !.pc = "record", !.end = now + Budget, !.refs = page]]
      BY <1>5 DEF DescribeSchema
    <2> DEFINE s == [NoCall EXCEPT !.op = "page", !.who = who, !.pc = "record", !.end = now + Budget, !.refs = page]
    <2>2. s.got = <<>> /\ s.cols = {} /\ s.pc = "record" /\ s.answer = NoCall.answer
      BY <1>1 DEF Fields
    <2>3. call' = [call EXCEPT ![c] = s]
      BY <2>1
    <2> HIDE DEF s
    <2> QED
      BY <1>3, <2>2, <2>3
  <1>6. ASSUME NEW who \in Callers, ReadTable(c, who)
        PROVE  SoundStep(c)
    <2> DEFINE s == [NoCall EXCEPT !.op = "read", !.who = who, !.pc = "canary", !.end = now + Budget, !.refs = {Target}]
    <2>1. call' = [call EXCEPT ![c] = s]
      BY <1>6 DEF ReadTable
    <2>2. s.got = <<>> /\ s.cols = {} /\ s.pc = "canary" /\ s.answer = NoCall.answer
      BY <1>1 DEF Fields
    <2> HIDE DEF s
    <2> QED
      BY <1>3, <2>1, <2>2
  <1> QED
    BY <1>4, <1>5, <1>6 DEF Begin

LEMMA RecordSound ==
  ASSUME ShownInv, AnswerInv, NEW c \in Calls, Record(c)
  PROVE  SoundStep(c)
  <1> DEFINE r == call[c]
             s == [r EXCEPT !.pc = "canary"]
  <1>1. Active(r) /\ call' = [call EXCEPT ![c] = s] /\ UNCHANGED <<cfg, now, lists>>
    BY DEF Record, Active
  <1>2. DOMAIN r = Fields
    BY <1>1, Awake
  <1>3. Carries(r, s) /\ ~Gathered(s)
    BY <1>2 DEF Carries, Gathered, Asking, Fields
  <1> HIDE DEF s
  <1> QED
    BY <1>1, <1>3, CarryStep DEF Steps

LEMMA LookCanarySound ==
  ASSUME ShownInv, AnswerInv, NEW c \in Calls, LookCanary(c)
  PROVE  SoundStep(c)
  <1> DEFINE r == call[c]
             asks == [r EXCEPT !.pc = "look", !.goal = "canary", !.stack = <<Root>>]
  <1>1. Active(r) /\ \E s \in {Clear(r), asks, ServeNothing(r, "not_checked")} : Steps(c, s)
    BY DEF LookCanary, Active
  <1>2. DOMAIN r = Fields
    BY <1>1, Awake
  <1>3. Carries(r, asks) /\ ~Gathered(asks)
    BY <1>2 DEF Carries, Gathered, Fields
  <1>4. \A s \in {Clear(r), asks, ServeNothing(r, "not_checked")} : Carries(r, s) /\ ~Gathered(s)
    BY <1>2, <1>3, ClearCarries, EndsSilent DEF Unserved
  <1> HIDE DEF asks
  <1> QED
    BY <1>1, <1>4, CarryStep

LEMMA AskCanarySound ==
  ASSUME ShownInv, AnswerInv, NEW c \in Calls, AskCanary(c)
  PROVE  SoundStep(c)
  <1> DEFINE r == call[c]
             found == [r EXCEPT !.pc = "keep canary", !.held = {Canary} \cap lists[r.who]]
  <1>1. Active(r) /\ r.pc = "ask canary" /\ \E s \in {found, Unread(r)} : Steps(c, s)
    BY DEF AskCanary, Active
  <1>2. DOMAIN r = Fields /\ r.goal = "canary"
    BY <1>1, Awake, Running DEF Stage
  <1>3. Carries(r, found) /\ ~Gathered(found)
    BY <1>2 DEF Carries, Gathered, Asking, Fields
  <1>4. Carries(r, Unread(r)) /\ ~Gathered(Unread(r))
    BY <1>2, UnreadCarries DEF Onward
  <1> HIDE DEF found
  <1> QED
    BY <1>1, <1>3, <1>4, CarryStep

LEMMA KeepCanarySound ==
  ASSUME ShownInv, AnswerInv, NEW c \in Calls, KeepCanary(c)
  PROVE  SoundStep(c)
  <1> DEFINE r == call[c]
  <1>1. Active(r) /\ \E s \in {Clear(r), ServeNothing(r, "not_checked")} : Steps(c, s)
    BY DEF KeepCanary, Active
  <1>2. \A s \in {Clear(r), ServeNothing(r, "not_checked")} : Carries(r, s) /\ ~Gathered(s)
    BY <1>1, Awake, ClearCarries, EndsSilent DEF Unserved
  <1> QED
    BY <1>1, <1>2, CarryStep

LEMMA SelectSound ==
  ASSUME ShownInv, AnswerInv, NEW c \in Calls, LookSelect(c) \/ AskSelect(c) \/ KeepSelect(c)
  PROVE  SoundStep(c)
  <1> DEFINE r == call[c]
             asks == [r EXCEPT !.pc = "ask select"]
             gathers == [r EXCEPT !.pc = "gather"]
             goes == [r EXCEPT !.pc = "gather", !.held = {}]
             reads == [r EXCEPT !.pc = "keep select", !.held = r.cols]
             refused == [r EXCEPT !.pc = "keep select"]
             after == {asks, gathers, goes, reads, refused, ServeNothing(r, "not_checked")}
  <1>1. Active(r) /\ \E s \in after : Steps(c, s)
    <2>1. CASE LookSelect(c)
      BY <2>1 DEF LookSelect, Active
    <2>2. CASE AskSelect(c)
      BY <2>2 DEF AskSelect, Active
    <2>3. CASE KeepSelect(c)
      BY <2>3 DEF KeepSelect, Active
    <2> QED
      BY <2>1, <2>2, <2>3
  <1>2. DOMAIN r = Fields
    BY <1>1, Awake
  <1>3. \A s \in {asks, gathers, goes, reads, refused} : Carries(r, s) /\ ~Gathered(s)
    BY <1>2 DEF Carries, Gathered, Asking, Fields
  <1>4. \A s \in after : Carries(r, s) /\ ~Gathered(s)
    BY <1>2, <1>3, EndsSilent DEF Unserved
  <1> HIDE DEF after
  <1> QED
    BY <1>1, <1>4, CarryStep

LEMMA ProveSound ==
  ASSUME ShownInv, AnswerInv, NEW c \in Calls, Prove(c)
  PROVE  SoundStep(c)
  <1> DEFINE r == call[c]
             p == [r EXCEPT !.goal = "table", !.stack = <<Parent[Target]>>]
             looks == [p EXCEPT !.pc = "look"]
  <1>1. Active(r) /\ r.pc = "prove" /\ \E s \in {Conclude(p, {Target}), looks} : Steps(c, s)
    BY DEF Prove, Active
  <1>2. DOMAIN r = Fields
    BY <1>1, Awake
  <1>3. DOMAIN p = Fields /\ p.op = r.op /\ p.got = r.got /\ p.cols = r.cols /\ p.answer = r.answer
    BY <1>2 DEF Fields
  <1>4. looks.op = r.op /\ looks.got = r.got /\ looks.cols = r.cols /\ looks.answer = r.answer
    BY <1>2 DEF Fields
  <1> HIDE DEF p, looks
  <1>5. Carries(p, Conclude(p, {Target})) /\ (Gathered(Conclude(p, {Target})) => Onward(p))
    BY <1>3, ConcludeCarries
  <1>6. \A s \in {Conclude(p, {Target}), looks} : Carries(r, s)
    BY <1>3, <1>4, <1>5 DEF Carries
  <1>7. ASSUME NEW s, Carries(r, s), Gathered(s)
        PROVE  Gathered(r)
    BY <1>1, <1>7 DEF Carries, Gathered
  <1> QED
    BY <1>1, <1>6, <1>7, CarryStep

\* A call that looks for a list, or asks for it, has gathered unless it is after the canary.
LEMMA ListSound ==
  ASSUME ShownInv, AnswerInv, NEW c \in Calls, call[c].pc \in Asking, NEW s, Steps(c, s),
         Carries(call[c], s), Gathered(s) => Onward(call[c])
  PROVE  SoundStep(c)
  <1>1. Active(call[c])
    BY DEF Asking, Active
  <1>2. Gathered(s) => Gathered(call[c])
    BY DEF Gathered, Onward
  <1> QED
    BY <1>1, <1>2, CarryStep

LEMMA LookSound ==
  ASSUME ShownInv, AnswerInv, NEW c \in Calls, Look(c)
  PROVE  SoundStep(c)
  <1> DEFINE r == call[c]
             n == r.stack[1]
             asks == [r EXCEPT !.pc = "ask"]
             above == [r EXCEPT !.stack = <<Parent[n]>> \o @]
  <1>1. r.pc = "look" /\ (Steps(c, asks) \/ Steps(c, above) \/ \E found : Steps(c, Arrive(r, found)))
    BY DEF Look
  <1>2. r.pc \in Asking /\ DOMAIN r = Fields
    BY <1>1, Awake DEF Asking, Active
  <1>3. \A s \in {asks, above} : Carries(r, s) /\ s.goal = r.goal /\ s.op = r.op /\ s.pc \in {"ask", "look"}
    BY <1>1, <1>2 DEF Carries, Fields
  <1>4. \A s \in {asks, above} : Gathered(s) => Onward(r)
    BY <1>3 DEF Gathered, Onward
  <1> HIDE DEF asks, above
  <1>5. ASSUME NEW found, Steps(c, Arrive(r, found))
        PROVE  SoundStep(c)
    BY <1>2, <1>5, ArriveCarries, ListSound
  <1>6. ASSUME NEW s \in {asks, above}, Steps(c, s)
        PROVE  SoundStep(c)
    BY <1>2, <1>3, <1>4, <1>6, ListSound
  <1> QED
    BY <1>1, <1>5, <1>6

LEMMA AskSound ==
  ASSUME ShownInv, AnswerInv, NEW c \in Calls, Ask(c)
  PROVE  SoundStep(c)
  <1> DEFINE r == call[c]
             keeps(answer) == [r EXCEPT !.pc = "keep", !.held = answer]
  <1>1. r.pc = "ask" /\ (Steps(c, Unread(r)) \/ \E answer : Steps(c, keeps(answer)))
    BY DEF Ask
  <1>2. r.pc \in Asking /\ DOMAIN r = Fields
    BY <1>1, Awake DEF Asking, Active
  <1>3. ASSUME NEW answer, Steps(c, keeps(answer))
        PROVE  SoundStep(c)
    <2> DEFINE s == keeps(answer)
    <2>1. Carries(r, s) /\ s.goal = r.goal /\ s.op = r.op /\ s.pc = "keep"
      BY <1>2 DEF Carries, Fields
    <2>2. Steps(c, s)
      BY <1>3
    <2> HIDE DEF s
    <2>3. Gathered(s) => Onward(r)
      BY <2>1 DEF Gathered, Onward
    <2> QED
      BY <1>2, <2>1, <2>2, <2>3, ListSound
  <1>4. CASE Steps(c, Unread(r))
    BY <1>2, <1>4, UnreadCarries, ListSound
  <1> QED
    BY <1>1, <1>3, <1>4

LEMMA KeepSound ==
  ASSUME ShownInv, AnswerInv, NEW c \in Calls, Keep(c)
  PROVE  SoundStep(c)
  <1> DEFINE r == call[c]
  <1>1. r.pc = "keep" /\ Steps(c, Arrive(r, r.held))
    BY DEF Keep
  <1>2. r.pc \in Asking /\ DOMAIN r = Fields
    BY <1>1, Awake DEF Asking, Active
  <1> QED
    BY <1>1, <1>2, ArriveCarries, ListSound

LEMMA GatherSound ==
  ASSUME ShownInv, AnswerInv, NEW c \in Calls, Gather(c)
  PROVE  SoundStep(c)
  <1> DEFINE r == call[c]
  <1>1. Active(r)
    BY DEF Gather, Active
  <1>2. DOMAIN r = Fields /\ Sound(r) /\ Silent(r)
    BY <1>1, Awake
  <1>3. ASSUME NEW status \in {"unavailable", "error"}, Steps(c, ServeNothing(r, status))
        PROVE  SoundStep(c)
    <2>1. Carries(r, ServeNothing(r, status)) /\ ~Gathered(ServeNothing(r, status))
      BY <1>2, EndsSilent DEF Unserved
    <2> QED
      BY <1>1, <1>3, <2>1, CarryStep
  <1>4. ASSUME NEW got \in Gatherings[cfg.catalogue], NEW p \in {"prove", "serve"},
               Steps(c, [r EXCEPT !.got = got, !.pc = p])
        PROVE  SoundStep(c)
    <2> DEFINE s == [r EXCEPT !.got = got, !.pc = p]
    <2>1. s.got = got /\ s.cols = r.cols /\ s.answer = r.answer
      BY <1>2 DEF Fields
    <2>2. Steps(c, s)
      BY <1>4
    <2> HIDE DEF s
    <2>3. Sound(s)
      BY <1>2, <2>1 DEF Sound, Silent
    <2> QED
      BY <2>2, <2>3 DEF SoundStep
  <1>5. ASSUME NEW described, Steps(c, [r EXCEPT !.pc = "ended", !.names = described])
        PROVE  SoundStep(c)
    <2> DEFINE s == [r EXCEPT !.pc = "ended", !.names = described]
    <2>1. Carries(r, s) /\ ~Gathered(s)
      BY <1>2 DEF Carries, Gathered, Asking, Fields
    <2>2. Steps(c, s)
      BY <1>5
    <2> HIDE DEF s
    <2> QED
      BY <1>1, <2>1, <2>2, CarryStep
  <1> QED
    BY <1>3, <1>4, <1>5 DEF Gather

LEMMA ServeSound ==
  ASSUME ShownInv, AnswerInv, NEW c \in Calls, Serve(c)
  PROVE  SoundStep(c)
  <1> DEFINE r == call[c]
  <1>1. Active(r) /\ r.pc = "serve"
    BY DEF Serve, Active
  <1>2. DOMAIN r = Fields /\ Sound(r) /\ r.op = "describe"
    BY <1>1, Awake, Running DEF Stage
  <1>3. PICK read \in Readings[cfg.catalogue] :
          LET answer == Answer(r.got, r.cols, r.complete, r.listed, read)
          IN Steps(c, [r EXCEPT !.pc = "ended", !.read = read, !.answer = answer, !.names = NamesIn(answer.out)])
    BY DEF Serve
  <1> DEFINE answer == Answer(r.got, r.cols, r.complete, r.listed, read)
             s == [r EXCEPT !.pc = "ended", !.read = read, !.answer = answer, !.names = NamesIn(answer.out)]
  <1>5. Steps(c, s)
    BY <1>3
  <1>4. s.pc = "ended" /\ s.got = r.got /\ s.cols = r.cols /\ s.read = read /\ s.answer = answer
    <2> HIDE DEF answer
    <2> QED
      BY <1>2 DEF Fields
  <1>6. r.got \in Gatherings[cfg.catalogue] /\ r.cols \subseteq ColumnSet
    BY <1>1, <1>2 DEF Sound, Gathered
  <1>7. Given(r.got, read)
    BY <1>6, AnswersAssumption DEF Given, AnswerInv
  <1>8. /\ OutHolds(answer.out) /\ \A id \in DOMAIN answer.out.terms : TermHolds(id, r.got, read)
        /\ Whole(answer, r.got, r.cols)
    BY <1>6, <1>7, AnswerGood
  <1> HIDE DEF s, answer
  <1>9. Holds(s)
    BY <1>4, <1>8 DEF Holds
  <1>10. Sound(s)
    BY <1>4, <1>6, <1>9 DEF Sound
  <1> QED
    BY <1>5, <1>10 DEF SoundStep

LEMMA AnswerStep ==
  ASSUME ShownInv, AnswerInv, [Next]_vars
  PROVE  AnswerInv'
  <1>1. ASSUME NEW c \in Calls, SoundStep(c)
        PROVE  AnswerInv'
    <2>1. PICK s : Steps(c, s) /\ Sound(s)
      BY <1>1 DEF SoundStep
    <2>2. cfg' = cfg /\ \A d \in Calls : call'[d] = IF d = c THEN s ELSE call[d]
      BY <2>1 DEF Steps, ShownInv
    <2>3. \A d \in Calls : Sound(call'[d])
      BY <2>1, <2>2 DEF AnswerInv
    <2>4. \A d \in Calls : Sound(call[d])'
      BY <2>2, <2>3 DEF Sound, Gathered, Silent, Holds
    <2> QED
      BY <2>2, <2>4 DEF AnswerInv
  <1>2. ASSUME NEW c \in Calls, Call(c)
        PROVE  SoundStep(c)
    BY <1>2, BeginSound, RecordSound, LookCanarySound, AskCanarySound, KeepCanarySound, SelectSound,
       ProveSound, LookSound, AskSound, KeepSound, GatherSound, ServeSound DEF Call
  <1>3. CASE UNCHANGED <<cfg, call>>
    BY <1>3 DEF AnswerInv, Sound, Gathered, Silent, Holds
  <1>4. Change \/ Tick \/ UNCHANGED vars => UNCHANGED <<cfg, call>>
    BY DEF Change, Tick, vars
  <1> QED
    BY <1>1, <1>2, <1>3, <1>4 DEF Next

LEMMA AnswerInit == Init => AnswerInv
  <1> SUFFICES ASSUME Init PROVE AnswerInv
    OBVIOUS
  <1>1. /\ NoCall.op = "none" /\ NoCall.got = <<>> /\ NoCall.cols = {} /\ NoCall.answer = Nothing("not_checked")
    BY DEF NoCall
  <1>2. Sound(NoCall)
    BY <1>1 DEF Sound, Gathered, Silent, Unserved
  <1>3. \A c \in Calls : call[c] = NoCall
    BY DEF Init
  <1>4. cfg.catalogue \in DOMAIN Gatherings
    BY DEF Init
  <1> QED
    BY <1>2, <1>3, <1>4 DEF AnswerInv

\* Whatever the sources say and however little room there is, an answer is within its
\* bound, cites only terms that were read under their key in a glossary that is served, and
\* a source it calls ok lost nothing on the way (ContextService._render, filter_table).
THEOREM AnswerHoldsAlways == Spec => []AnswerHolds
  <1>1. ASSUME AnswerInv, NEW c \in Calls
        PROVE  Holds(call[c])
    BY <1>1, SilentHolds DEF AnswerInv, Sound
  <1>2. AnswerInv => AnswerHolds
    <2> SUFFICES ASSUME AnswerInv PROVE AnswerHolds
      OBVIOUS
    <2>1. AnswerFits
      BY <1>1 DEF AnswerFits, Holds, OutHolds
    <2>2. TermsAreAnswered
      BY <1>1 DEF TermsAreAnswered, Holds, OutHolds, TermHolds
    <2>3. OkIsWhole
      BY <1>1 DEF OkIsWhole, Holds, Whole
    <2> QED
      BY <2>1, <2>2, <2>3 DEF AnswerHolds
  <1>3. ShownInv /\ AnswerInv /\ [Next]_vars => AnswerInv'
    BY AnswerStep
  <1> QED
    BY AnswerInit, <1>2, <1>3, ShownInvariant, PTL DEF Spec
=============================================================================
