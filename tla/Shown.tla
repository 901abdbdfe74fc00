------------------------------- MODULE Shown -------------------------------
(***************************************************************************)
(* What the tools show of the catalogues, and what Trino lists to the      *)
(* caller (context/visibility.py, context/reply.py): calls of several      *)
(* callers look up, ask of Trino and keep what each may see, in one cache  *)
(* that no lock holds from the lookup to the put, while what Trino lists   *)
(* changes and the statements fail.                                        *)
(*                                                                         *)
(* Catalogs, schemas, tables and columns are names under one another, from *)
(* Root.  A statement lists the names under one name.  A list past the     *)
(* bound on names (None in the code) is the empty one: it proves nothing   *)
(* either.  Time is counted in ticks, a call lasts at most Budget.         *)
(***************************************************************************)
EXTENDS Reply, FiniteSetsExt

CONSTANTS
  Calls, Callers,
  Names, Root, Parent,  \* the names, and the name each is under
  Table,                \* the table described
  Target,               \* the table its joins go to, and that a plugin reads
  Canary, Hidden,       \* the table of MCP_CONTEXT_CANARY, the fact that Trino hides it
  Worlds,               \* what Trino may list to a caller
  Gatherings, Readings, \* what the chain may answer, of tables and of terms, under each catalogue
  MaxNames,             \* MCP_VISIBILITY_MAX_NAMES
  MaxEntries,           \* MCP_VISIBILITY_CACHE_BYTES, in entries
  Life, Budget, MaxTime

Under(n) == {m \in Names \ {Root} : Parent[m] = n}

ASSUME ShownAssumption ==
  /\ Parent \in [Names \ {Root} -> Names] /\ {Root, Table, Target, Canary} \subseteq Names
  /\ Root \notin {Table, Target, Canary}
  /\ Worlds \subseteq SUBSET Names /\ Hidden \notin Names
  /\ {Life, Budget, MaxTime, MaxNames, MaxEntries} \subseteq Nat \ {0}
  /\ Under(Table) \subseteq ColumnSet

\* Only the sources of the configuration answer, and a term read is a Term (context/types.py).
ASSUME AnswersAssumption ==
  \A k \in DOMAIN Gatherings :
    /\ \A got \in Gatherings[k] : DOMAIN got.contents \subseteq SourceSet
    /\ \A read \in Readings[k] : \A s \in SourceSet :
         /\ IsFiniteSet(DOMAIN read[s].terms)
         /\ \A key \in DOMAIN read[s].terms : {"key", "glossary"} \subseteq DOMAIN read[s].terms[key]

VARIABLES
  cfg,    \* the settings: a canary is set, a select is required, the catalogue
  now,
  lists,  \* what Trino lists to each caller
  cache,  \* the entries of the visibility: their key, value, and end
  call,   \* each call
  told    \* a history: when Trino last told each caller each fact

vars == <<cfg, now, lists, cache, call, told>>

CanaryCatalog == Parent[Parent[Canary]]

NoReading == [s \in SourceSet |-> [terms |-> <<>>, status |-> "ok"]]

NoCall == [op |-> "none", who |-> CHOOSE s \in Callers : TRUE, pc |-> "idle", end |-> 0, refs |-> {},
           cols |-> {}, complete |-> TRUE, goal |-> "none", stack |-> <<>>, held |-> {}, got |-> <<>>,
           listed |-> {}, names |-> {}, read |-> NoReading, answer |-> Nothing("not_checked")]

Init ==
  /\ cfg \in [canary : BOOLEAN, select : BOOLEAN, catalogue : DOMAIN Gatherings]
  /\ now = 0
  /\ lists \in [Callers -> Worlds]
  /\ cache = {} /\ told = {}
  /\ call = [c \in Calls |-> NoCall]

-----------------------------------------------------------------------------
(* The cache: one key per caller and question *)

\* Mutant of Key: one key for every caller.
KeyOfAnyone(what, who, of) == <<what, "anyone", of>>

Key(what, who, of) == <<what, who, of>>

Kept(key) == {e \in cache : e.key = key /\ now < e.end}

\* A put may make room by dropping the oldest entry: here any of the others.
Put(keys, value) ==
  LET others == {e \in cache : e.key \notin keys /\ now < e.end}
      added  == {[key |-> k, value |-> value, end |-> now + Life] : k \in keys}
  IN IF Cardinality(others \cup added) <= MaxEntries
     THEN cache' = others \cup added
     ELSE \E e \in others : cache' = (others \ {e}) \cup added

Tell(who, facts) ==
  told' = {t \in told : t.who # who \/ t.what \notin facts}
            \cup [who : {who}, what : facts, at : {now}]

-----------------------------------------------------------------------------
(* The steps of a call, as they change its record *)

\* Whatever is not proven serves nothing, and says so.
ServeNothing(r, status) ==
  [r EXCEPT !.pc = "ended", !.stack = <<>>, !.held = {}, !.answer = Nothing(status), !.names = {}]

\* The canary is hidden: the select check comes next, or the proof of what a plugin asks.
Clear(r) ==
  [r EXCEPT !.pc = CASE r.op = "describe" /\ cfg.select -> "select" [] r.op = "read" -> "prove" [] OTHER -> "gather"]

\* The names under the last name of the stack are known, or could not be read.
Conclude(r, found) ==
  CASE r.goal = "canary" -> [r EXCEPT !.stack = <<>>, !.held = {},
                                      !.pc = IF CanaryCatalog \in found THEN "ask canary" ELSE "keep canary"]
    [] r.goal = "table" /\ r.op = "read" ->
         IF Target \in found THEN [r EXCEPT !.stack = <<>>, !.held = {}, !.pc = "gather"]
         ELSE ServeNothing(r, "not_found")
    [] r.goal = "table" /\ r.op # "read" ->
         IF Target \in found THEN [r EXCEPT !.stack = <<Target>>, !.held = {}, !.goal = "columns", !.pc = "look"]
         ELSE [r EXCEPT !.stack = <<>>, !.held = {}, !.pc = "serve"]
    [] OTHER -> [r EXCEPT !.stack = <<>>, !.held = {}, !.listed = @ \cup found, !.pc = "serve"]

\* Mutant of Unread: a check that failed found nothing listed.
UnreadIsHidden(r) == Conclude(r, {})

\* A list that could not be read proves nothing, and a canary not checked is not clear.
Unread(r) == IF r.goal = "canary" THEN ServeNothing(r, "not_checked") ELSE Conclude(r, {})

\* Mutant of Arrive: what is under a name is asked for whether or not Trino lists the name.
ArriveUnchecked(r, found) ==
  IF Len(r.stack) = 1 THEN Conclude(r, found)
  ELSE [r EXCEPT !.stack = Tail(@), !.pc = "ask", !.held = {}]

\* What is under the first name of the stack: the next is asked only if it is listed there.
Arrive(r, found) ==
  IF Len(r.stack) = 1 THEN Conclude(r, found)
  ELSE IF r.stack[2] \in found THEN [r EXCEPT !.stack = Tail(@), !.pc = "ask", !.held = {}]
  ELSE Conclude(r, {})

-----------------------------------------------------------------------------
(* A call begins: its own statement has just listed something *)

Listing(who, n) == Under(n) \cap lists[who]

\* describe_table: a page of the columns of Table.
Describe(c, who) ==
  /\ Table \in lists[who]
  /\ \E page \in SUBSET Listing(who, Table) :
       call' = [call EXCEPT ![c] = [NoCall EXCEPT
                  !.op = "describe", !.who = who, !.pc = "record", !.end = now + Budget, !.refs = {Table},
                  !.cols = page, !.complete = (page = Listing(who, Table)), !.listed = page]]
  /\ Tell(who, {Table} \cup Listing(who, Table))

\* describe_schema: the tables of a page.
DescribeSchema(c, who) ==
  /\ \E page \in (SUBSET Listing(who, Parent[Table])) \ {{}} :
       call' = [call EXCEPT ![c] = [NoCall EXCEPT
                  !.op = "page", !.who = who, !.pc = "record", !.end = now + Budget, !.refs = page]]
  /\ Tell(who, Listing(who, Parent[Table]))

\* A plugin reads a table that nothing has listed in this call.
ReadTable(c, who) ==
  /\ call' = [call EXCEPT ![c] = [NoCall EXCEPT
                !.op = "read", !.who = who, !.pc = "canary", !.end = now + Budget, !.refs = {Target}]]
  /\ UNCHANGED told

Begin(c) ==
  /\ call[c].pc = "idle"
  /\ \E who \in Callers : Describe(c, who) \/ DescribeSchema(c, who) \/ ReadTable(c, who)
  /\ UNCHANGED <<cfg, now, lists, cache>>

\* The tables are recorded as listed.
Record(c) ==
  LET r == call[c] IN
  /\ r.pc = "record"
  /\ Put({Key("listed", r.who, ref) : ref \in r.refs}, {})
  /\ call' = [call EXCEPT ![c].pc = "canary"]
  /\ UNCHANGED <<cfg, now, lists, told>>

-----------------------------------------------------------------------------
(* The checks *)

Steps(c, r) == call' = [call EXCEPT ![c] = r] /\ UNCHANGED <<cfg, now, lists>>

\* A cached answer, or the question: whether the canary is clear, a read validated.
LookCanary(c) ==
  LET r == call[c]
      kept == Kept(Key("canary", r.who, Canary))
  IN /\ r.pc = "canary"
     /\ Steps(c, IF ~cfg.canary THEN Clear(r)
                 ELSE IF kept = {} THEN [r EXCEPT !.pc = "look", !.goal = "canary", !.stack = <<Root>>]
                 ELSE IF \E e \in kept : e.value = {} THEN Clear(r)
                 ELSE ServeNothing(r, "not_checked"))
     /\ UNCHANGED <<cache, told>>

\* Whether Trino lists the canary. Nothing held is a canary that is hidden.
AskCanary(c) ==
  LET r == call[c] IN
  /\ r.pc = "ask canary"
  /\ \/ /\ Steps(c, [r EXCEPT !.pc = "keep canary", !.held = {Canary} \cap lists[r.who]])
        /\ IF Canary \in lists[r.who] THEN UNCHANGED told ELSE Tell(r.who, {Hidden})
     \/ Steps(c, Unread(r)) /\ UNCHANGED told
  /\ UNCHANGED cache

KeepCanary(c) ==
  LET r == call[c] IN
  /\ r.pc = "keep canary"
  /\ Put({Key("canary", r.who, Canary)}, r.held)
  /\ Steps(c, IF r.held = {} THEN Clear(r) ELSE ServeNothing(r, "not_checked"))
  /\ UNCHANGED told

LookSelect(c) ==
  LET r == call[c]
      kept == Kept(Key("select", r.who, r.cols))
  IN /\ r.pc = "select"
     /\ Steps(c, IF r.cols = {} THEN ServeNothing(r, "not_checked")
                 ELSE IF kept = {} THEN [r EXCEPT !.pc = "ask select"]
                 ELSE IF \E e \in kept : e.value # {} THEN [r EXCEPT !.pc = "gather"]
                 ELSE ServeNothing(r, "not_checked"))
     /\ UNCHANGED <<cache, told>>

\* Trino validates a read of the columns, refuses it, which is kept too, or fails.
AskSelect(c) ==
  LET r == call[c] IN
  /\ r.pc = "ask select"
  /\ \/ Steps(c, [r EXCEPT !.pc = "keep select", !.held = r.cols]) /\ Tell(r.who, {r.cols})
     \/ Steps(c, [r EXCEPT !.pc = "keep select"]) /\ UNCHANGED told
     \/ Steps(c, ServeNothing(r, "not_checked")) /\ UNCHANGED told
  /\ UNCHANGED cache

KeepSelect(c) ==
  LET r == call[c] IN
  /\ r.pc = "keep select"
  /\ Put({Key("select", r.who, r.cols)}, r.held)
  /\ Steps(c, IF r.held = {} THEN ServeNothing(r, "not_checked") ELSE [r EXCEPT !.pc = "gather", !.held = {}])
  /\ UNCHANGED told

-----------------------------------------------------------------------------
(* The proofs: what Trino lists, from the cache or asked from the catalogs down *)

\* A table recorded as listed is proven, whatever an older list says.
Prove(c) ==
  LET r == [call[c] EXCEPT !.goal = "table", !.stack = <<Parent[Target]>>] IN
  /\ r.pc = "prove"
  /\ Steps(c, IF Kept(Key("listed", r.who, Target)) # {} THEN Conclude(r, {Target}) ELSE [r EXCEPT !.pc = "look"])
  /\ UNCHANGED <<cache, told>>

\* A list that is not kept is asked for, once the list above it is known.
Look(c) ==
  LET r == call[c]
      n == r.stack[1]
      kept == Kept(Key("names", r.who, n))
  IN /\ r.pc = "look"
     /\ IF kept # {} THEN \E e \in kept : Steps(c, Arrive(r, e.value))
        ELSE Steps(c, IF n = Root \/ r.goal = "columns" THEN [r EXCEPT !.pc = "ask"]
                      ELSE [r EXCEPT !.stack = <<Parent[n]>> \o @])
     /\ UNCHANGED <<cache, told>>

\* Past the bound a list of catalogs or schemas is cut, one of tables or columns is None.
Answers(who, n) ==
  LET all == Listing(who, n) IN
  IF Cardinality(all) <= MaxNames THEN {all}
  ELSE IF n = Root \/ Parent[n] = Root THEN kSubset(MaxNames, all) ELSE {{}}

\* The statement over a catalog or a table Trino no longer lists fails; the tables of a
\* schema it no longer lists are none.
Ask(c) ==
  LET r == call[c]
      n == r.stack[1]
      hides(answer) == n = Root /\ answer = Listing(r.who, Root) /\ CanaryCatalog \notin answer
  IN /\ r.pc = "ask"
     /\ \/ \E answer \in Answers(r.who, n) :
             /\ n \in lists[r.who] \cup {Root, Parent[Target]}
             /\ Steps(c, [r EXCEPT !.pc = "keep", !.held = answer])
             /\ Tell(r.who, answer \cup IF hides(answer) THEN {Hidden} ELSE {})
        \/ Steps(c, Unread(r)) /\ UNCHANGED told
     /\ UNCHANGED cache

Keep(c) ==
  LET r == call[c] IN
  /\ r.pc = "keep"
  /\ Put({Key("names", r.who, r.stack[1])}, r.held)
  /\ Steps(c, Arrive(r, r.held))
  /\ UNCHANGED told

-----------------------------------------------------------------------------
(* The catalogues, once everything they are asked of is proven *)

\* No time is left, the chain raises, or it answers; the joins may then need a proof, for
\* which it may be too late.
Gather(c) ==
  LET r == call[c] IN
  /\ r.pc = "gather"
  /\ \/ \E status \in {"unavailable", "error"} : Steps(c, ServeNothing(r, status))
     \/ /\ r.op = "describe"
        /\ \E got \in Gatherings[cfg.catalogue], late \in BOOLEAN :
             LET read == {s \in DOMAIN got.contents : ~got.served[s].broken}
                 joins == UNION {got.contents[s].joins : s \in read}
                 asked == \E join \in joins : join.columns \subseteq r.cols /\ ~late
             IN Steps(c, [r EXCEPT !.got = got, !.pc = IF asked THEN "prove" ELSE "serve"])
     \/ /\ r.op # "describe"
        /\ \E described \in SUBSET r.refs : Steps(c, [r EXCEPT !.pc = "ended", !.names = described])
  /\ UNCHANGED <<cache, told>>

\* What an answer names of Trino.
NamesIn(out) ==
  LET grains == UNION {g.others \cup {g.value} : g \in out.table.grain}
      joins  == {join.item : join \in out.table.joins}
  IN DOMAIN out.columns \cup (UNION grains) \cup (UNION {join.columns \cup join.to : join \in joins})
       \cup IF Empty(out.table) THEN {} ELSE {Table}

Serve(c) ==
  LET r == call[c] IN
  /\ r.pc = "serve"
  /\ \E read \in Readings[cfg.catalogue] :
       LET answer == Answer(r.got, r.cols, r.complete, r.listed, read)
       IN Steps(c, [r EXCEPT !.pc = "ended", !.read = read, !.answer = answer, !.names = NamesIn(answer.out)])
  /\ UNCHANGED <<cache, told>>

-----------------------------------------------------------------------------
(* The environment *)

\* What Trino lists to a caller changes.
Change ==
  /\ \E who \in Callers, world \in Worlds : lists' = [lists EXCEPT ![who] = world]
  /\ UNCHANGED <<cfg, now, cache, call, told>>

\* No call outlives its budget.
Tick ==
  /\ now < MaxTime
  /\ \A c \in Calls : call[c].pc \notin {"idle", "ended"} => now < call[c].end
  /\ now' = now + 1
  /\ UNCHANGED <<cfg, lists, cache, call, told>>

Call(c) ==
  \/ Begin(c) \/ Record(c) \/ LookCanary(c) \/ AskCanary(c) \/ KeepCanary(c)
  \/ LookSelect(c) \/ AskSelect(c) \/ KeepSelect(c)
  \/ Prove(c) \/ Look(c) \/ Ask(c) \/ Keep(c) \/ Gather(c) \/ Serve(c)

Next == (\E c \in Calls : Call(c)) \/ Change \/ Tick

Spec == Init /\ [][Next]_vars

-----------------------------------------------------------------------------
(* Properties *)

Told(who, fact, age) == \E t \in told : t.who = who /\ t.what = fact /\ now - t.at <= age

Shows(c) == call[c].pc # "ended" /\ call'[c].pc = "ended" /\ call'[c].names # {}

\* What an answer names, of a listing, a description or a plugin's read, Trino listed to
\* that caller: at most one life of an entry ago, plus the call that asked for it and the
\* call that answers, however the lookups, statements and puts of the calls interleave
\* (Visibility.proven, columns, listed).
ShownWasTold ==
  [][\A c \in Calls : Shows(c) =>
       \A n \in call'[c].names : Told(call[c].who, n, Life - 1 + 2 * Budget)]_vars

\* What the statement of a call is about to name.
AsksFor(r) ==
  CASE r.pc = "ask"        -> {r.stack[1]} \ {Root}
    [] r.pc = "ask canary" -> {CanaryCatalog}
    [] r.pc = "ask select" -> {Table} \cup r.cols
    [] OTHER               -> {}

\* A statement names a catalog, a schema, a table or a column only once Trino has listed it
\* to the caller of that statement (Visibility.schemas, tables, columns, selectable).
AsksOnlyTold ==
  \A c \in Calls : \A n \in AsksFor(call[c]) : \E t \in told : t.who = call[c].who /\ t.what = n

\* Context is shown to a caller only after Trino hid the canary from that caller, at most
\* the lives of a list of catalogs and of a check ago, and, where it is required, validated
\* a read of the very columns described (Visibility.canary_clear, selectable).
ContextIsChecked ==
  [][\A c \in Calls : Shows(c) =>
       /\ cfg.canary => Told(call[c].who, Hidden, 2 * (Life - 1) + 3 * Budget)
       /\ cfg.select /\ call[c].op = "describe" => Told(call[c].who, call[c].cols, Life - 1 + 2 * Budget)]_vars

\* A table is measured before its terms are cited: the answer is never larger than its
\* bound, whatever entry was left out since (ContextService._render).
AnswerFits == \A c \in Calls : SizeOf(call[c].answer.out) <= Room

\* An answer cites only terms it has, each attached to what it shows and read under its
\* key in a served glossary; a term names only related terms of the answer (filter_term,
\* _Terms.render).
TermsAreAnswered ==
  \A c \in Calls :
    LET out == call[c].answer.out IN
    /\ UNION {out.terms[id] : id \in DOMAIN out.terms} \subseteq DOMAIN out.terms
    /\ DOMAIN out.terms = out.table.terms \cup UNION {out.columns[n].terms : n \in DOMAIN out.columns}
    /\ \A id \in DOMAIN out.terms :
         LET term == call[c].read[id[1]].terms[id[2]] IN
         term.key = id[2] /\ term.glossary \in call[c].got.served[id[1]].glossary

Describes(content, n) == n \in DOMAIN content.columns /\ content.columns[n].text # ""

\* A source that is ok lost nothing on the way: each text it has for a column Trino listed
\* is in the answer, as the text or among the others (ContextService._sources, _render).
OkIsWhole ==
  \A c \in Calls :
    LET r == call[c] IN
    r.got # <<>> => \A s \in DOMAIN r.got.contents :
      r.answer.sources[s] = "ok" => \A n \in r.cols : Describes(r.got.contents[s], n) =>
        /\ n \in DOMAIN r.answer.out.columns
        /\ \E text \in r.answer.out.columns[n].text :
             r.got.contents[s].columns[n].text \in {text.value} \cup text.others

\* What every answer holds to, whatever the sources said and however little room there is.
AnswerHolds == AnswerFits /\ TermsAreAnswered /\ OkIsWhole
=============================================================================
