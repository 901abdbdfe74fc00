------------------------------- MODULE Reply -------------------------------
(***************************************************************************)
(* What describe_table serves of a table, as operators on what the sources *)
(* answered: the gate (context/gate.py), the merge of the sources          *)
(* (context/merge.py), and the answer bounded in size with one status per  *)
(* source (context/reply.py).                                              *)
(*                                                                         *)
(* What a source says of a table is a record: a text, a grain and joins,   *)
(* labels taken from sets, keys of terms, and the same for its columns.  A *)
(* size is a number of entries, terms and related terms, where the code    *)
(* counts characters.                                                      *)
(***************************************************************************)
EXTENDS Naturals, Sequences, FiniteSets

CONSTANTS
  Sources,    \* the names of the sources, in the order of the configuration
  Room,       \* MCP_CONTEXT_RESPONSE_CHARS
  MaxColumns, \* MCP_CONTEXT_MAX_COLUMNS
  Columns     \* the columns of the table, in the order of DESCRIBE

SourceSet == {Sources[i] : i \in 1..Len(Sources)}
ColumnSet == {Columns[i] : i \in 1..Len(Columns)}

ASSUME ReplyAssumption ==
  /\ Sources \in Seq(SourceSet) /\ Columns \in Seq(ColumnSet)
  /\ Room \in Nat /\ MaxColumns \in Nat

Failed == {"unavailable", "refused", "error"}
NotWell == Failed \cup {"partial"}

-----------------------------------------------------------------------------
(* The gate *)

Joined(join, visible, listed) == join.columns \subseteq visible /\ join.to \subseteq listed

\* The keys left by the first pass, which reads no term.
KeptKeys(ctx, visible, served) ==
  IF served.glossary = {} THEN {}
  ELSE ctx.terms \cup UNION {ctx.columns[c].terms : c \in visible \cap DOMAIN ctx.columns}

\* A key stays once its term was read under that key, in a glossary that is served.
KeepTerms(keys, served, read) ==
  {k \in keys \cap DOMAIN read : read[k].key = k /\ read[k].glossary \in served.glossary}

\* The second pass of filter_table. `listed` holds the targets that are proven.
FilterTable(ctx, visible, served, listed, read) ==
  LET Labels(part) == part.labels \cap served.labels
      Terms(part) == KeepTerms(part.terms, served, read)
  IN [text    |-> ctx.text,
      owner   |-> IF served.owner THEN ctx.owner ELSE "",
      labels  |-> Labels(ctx),
      terms   |-> Terms(ctx),
      grain   |-> IF ctx.grain \subseteq visible THEN ctx.grain ELSE {},
      joins   |-> {join \in ctx.joins : Joined(join, visible, listed)},
      columns |-> [c \in visible \cap DOMAIN ctx.columns |->
                     [text   |-> ctx.columns[c].text,
                      labels |-> Labels(ctx.columns[c]),
                      terms  |-> Terms(ctx.columns[c])]]]

FilterTerm(term, served, attached) ==
  [term EXCEPT !.relations = {r \in @ : r.key \in attached /\ r.glossary \in served.glossary}]

-----------------------------------------------------------------------------
(* The merge. What several sources give is a function of the places of these sources in   *)
(* the configuration, each with its source and its part.                                   *)

\* One value: the first that is given, with its source, and the values that differ.
Single(parts, field, none) ==
  LET value == [i \in DOMAIN parts |-> parts[i].part[field]]
      given == {i \in DOMAIN parts : value[i] # none}
  IN {[value |-> value[i], source |-> parts[i].source, others |-> {value[j] : j \in given} \ {value[i]}] :
        i \in {i \in given : \A j \in given : i <= j}}

\* Many values: each once, with the first source that gives it.
Union(parts, field) ==
  UNION {{[item |-> v, source |-> parts[i].source] :
            v \in parts[i].part[field] \ UNION {parts[j].part[field] : j \in {j \in DOMAIN parts : j < i}}} :
           i \in DOMAIN parts}

\* The ids of the merged terms whose name is not dropped.
TermIds(parts, terms) ==
  {id \in {<<t.source, t.item>> : t \in Union(parts, "terms")} : terms[id].named}

MergeColumn(parts, terms) ==
  [text   |-> Single(parts, "text", ""),
   labels |-> Union(parts, "labels"),
   terms  |-> TermIds(parts, terms)]

MergeTable(parts, terms, complete) ==
  [text   |-> Single(parts, "text", ""),
   owner  |-> {[o EXCEPT !.others = {}] : o \in Single(parts, "owner", "")},
   labels |-> Union(parts, "labels"),
   terms  |-> TermIds(parts, terms),
   grain  |-> IF complete THEN Single(parts, "grain", {}) ELSE {},
   joins  |-> Union(parts, "joins")]

Empty(entry) == \A field \in DOMAIN entry : entry[field] = {}

-----------------------------------------------------------------------------
(* The answer *)

\* The related terms a term names, of those an answer has.
Related(id, terms, among) == {<<id[1], r.key>> : r \in terms[id].relations} \cap among

TermsSize(ids, terms, among) ==
  Cardinality(ids) + Cardinality(UNION {{id} \X Related(id, terms, among) : id \in ids})

\* A term of the answer names only those of the answer.
Named(id, terms, refs) == Related(id, terms, refs)

\* What the sources give of a column.
PartsOf(final, c) ==
  [i \in {i \in DOMAIN final : c \in DOMAIN final[i].part.columns} |->
     [source |-> final[i].source, part |-> final[i].part.columns[c]]]

\* The first of the columns that have something, as many as are allowed.
First(given) == {i \in given : Cardinality({j \in given : j <= i}) <= MaxColumns}

\* The size of the table and of some columns: each entry, and each of their terms once, with
\* every related term the answer may name (`order`).
SizeUpTo(table, columns, merged, terms, order) ==
  (IF Empty(table) THEN 0 ELSE 1) + Cardinality(columns)
    + TermsSize(table.terms \cup UNION {merged[Columns[i]].terms : i \in columns}, terms, order)

\* `final` is what the gate left, `visible` the columns Trino listed. The table then the
\* columns are taken in order until one does not fit: it and the ones after are left out.
Render(final, visible, terms, complete) ==
  LET table   == MergeTable(final, terms, complete)
      merged  == [c \in visible |-> MergeColumn(PartsOf(final, c), terms)]
      given   == {i \in DOMAIN Columns : Columns[i] \in visible /\ ~Empty(merged[Columns[i]])}
      first   == First(given)
      order   == table.terms \cup UNION {merged[Columns[i]].terms : i \in first}
      UpTo(i) == {j \in first : j <= i}
      Fits(i) == \A j \in {0} \cup UpTo(i) : SizeUpTo(table, UpTo(j), merged, terms, order) <= Room
      served  == {Columns[i] : i \in {i \in first : Fits(i)}}
      shown   == IF Fits(0) THEN table ELSE MergeTable(<<>>, terms, complete)
      refs    == shown.terms \cup UNION {merged[c].terms : c \in served}
      having  == {Columns[i] : i \in given}
  IN [table       |-> shown,
      columns     |-> [c \in served |-> merged[c]],
      terms       |-> [id \in refs |-> Named(id, terms, refs)],
      truncated   |-> having # served,
      undescribed |-> having \ served]

\* Mutant of Status: what the answer left out does not count.
StatusOfRead(read, answered, termStatus, cut) ==
  IF answered /\ (read \in Failed \/ termStatus \in NotWell) THEN "partial" ELSE read

\* The status of a source: partial for part of a read that failed or was left out.
Status(read, answered, termStatus, cut) ==
  LET status == IF answered /\ (read \in Failed \/ termStatus \in NotWell) THEN "partial" ELSE read
  IN IF status = "ok" /\ cut THEN "partial" ELSE status

\* The whole answer. `got` is what the chain gathered: the status and content of each
\* source, the sets it serves or that they could not be told ("broken"); `read` the terms
\* and the status of each source asked for terms.
Answer(got, visible, complete, listed, read) ==
  LET contexts == {s \in DOMAIN got.contents : ~got.served[s].broken}
      kept     == [s \in contexts |-> KeptKeys(got.contents[s], visible, got.served[s])]
      asked(s) == s \in contexts /\ kept[s] # {}
      mine     == [s \in contexts |->
                     [k \in kept[s] \cap DOMAIN read[s].terms |->
                        FilterTerm(read[s].terms[k], got.served[s], kept[s])]]
      terms    == [id \in UNION {{s} \X DOMAIN mine[s] : s \in contexts} |-> mine[id[1]][id[2]]]
      final    == [i \in {i \in DOMAIN Sources : Sources[i] \in contexts} |->
                     [source |-> Sources[i],
                      part   |-> FilterTable(got.contents[Sources[i]], visible, got.served[Sources[i]],
                                             listed, mine[Sources[i]])]]
      out      == Render(final, visible, terms, complete)
  IN [out     |-> out,
      sources |-> [s \in SourceSet |->
                     Status(IF s \in DOMAIN got.contents \ contexts THEN "error" ELSE got.status[s],
                            s \in contexts, IF asked(s) THEN read[s].status ELSE "ok",
                            out.truncated \/ ~complete)]]

\* What is served when nothing may be.
Nothing(status) ==
  [out     |-> Render(<<>>, {}, <<>>, TRUE),
   sources |-> [s \in SourceSet |-> status]]

\* The size of an answer as it is served.
SizeOf(out) ==
  (IF Empty(out.table) THEN 0 ELSE 1) + Cardinality(DOMAIN out.columns) + Cardinality(DOMAIN out.terms)
    + Cardinality(UNION {{id} \X out.terms[id] : id \in DOMAIN out.terms})

=============================================================================
