----------------------------- MODULE SqlGuard -----------------------------
(***************************************************************************)
(* The read-only guard of sql_guard.py on the tree of a statement.  The    *)
(* parser is external: a statement is the number of statements it parses   *)
(* to (none when it does not parse), the EXPLAINs before it, the class of  *)
(* its root, the classes of the nodes below, the tables and common tables  *)
(* it names, and, for SHOW and DESCRIBE, which sqlglot leaves as words, a  *)
(* kind, a preposition and the name that follows.  Case is folded.         *)
(***************************************************************************)
EXTENDS Naturals, Sequences

ReadTypes == {"select", "set operation", "subquery", "values"}
WriteTypes == {"insert", "update", "delete", "merge", "create", "drop", "alter", "truncate",
               "grant", "command", "set"}

ShowAllowed == {"catalogs", "schemas", "tables", "columns", "functions"}
ShowOpened == [explain |-> {}, stats |-> {"stats"}, create |-> {"create"}, grants |-> {"grants"},
               roles |-> {"roles", "current", "role"}, session |-> {"session"}]
ExtraReadCommands == DOMAIN ShowOpened

ShowQualifiedParts == [schemas |-> 1, tables |-> 2, columns |-> 3]

IsSystem(name) == name = "system"

\* What the parser gives of a statement.  SHOW and DESCRIBE are words to it: neither is
\* the root of a read, nor names a table; and only a preposition brings a name.
Statement ==
  {st \in [count : Nat, explains : Seq({"plain", "analyze"}), head : STRING, root : STRING,
           nodes : SUBSET STRING, tables : SUBSET [function : BOOLEAN, name : Seq(STRING)],
           ctes : SUBSET STRING, kind : STRING, prep : STRING, name : Seq(STRING), like : STRING] :
     /\ st.head \in {"show", "describe"} => st.root \notin ReadTypes /\ st.tables = {}
     /\ st.head = "show" /\ st.prep = "" => st.name = <<>>}

\* A name of one to three parts, as the tokens it is written with.
Tokens3(parts) ==
  [i \in 1 .. 2 * Len(parts) - 1 |->
     IF i % 2 = 0 THEN [type |-> "dot", text |-> "."]
     ELSE [type |-> "name", text |-> parts[(i + 1) \div 2]]]

NameTokens(parts) == IF parts = <<>> THEN <<>> ELSE Tokens3(parts)

\* The words after SHOW: SHOW <kind> [<prep> <name>] [LIKE <pattern>].
ShowTokens(st) ==
  <<[type |-> "name", text |-> st.kind]>>
  \o (IF st.prep = "" THEN <<>> ELSE <<[type |-> st.prep, text |-> st.prep]>> \o NameTokens(st.name))
  \o (IF st.like = "" THEN <<>> ELSE <<[type |-> "like", text |-> "like"], [type |-> "string", text |-> st.like]>>)

-----------------------------------------------------------------------------
\* _reads_outside_governed_tables: a table function, or a name in system.
TableOutside(table, ctes, session) ==
  \/ table.function
  \/ /\ ~(Len(table.name) = 1 /\ table.name[1] \in ctes)
     /\ IsSystem(IF Len(table.name) = 3 THEN table.name[1] ELSE session)

\* The leading run of name, dot, name, ... of the tokens from the third on: its parts.
Parts(tokens) ==
  LET IsName(i) == i \in DOMAIN tokens /\ tokens[i].type = "name"
      Linked(i) == i \in DOMAIN tokens /\ tokens[i].type = "dot"
      run == {k \in 0 .. Len(tokens) : \A j \in 0 .. k : IsName(3 + 2 * j) /\ (j < k => Linked(4 + 2 * j))}
  IN  IF run = {} THEN 0 ELSE 1 + (CHOOSE k \in run : \A j \in run : j <= k)

\* Mutant of ShowGoverned: a name after FROM is taken for a qualified one.
ShowAnyName(st, session, extra) ==
  LET tokens == ShowTokens(st)
      kind == tokens[1].text
  IN  /\ kind \in ShowAllowed \cup UNION {ShowOpened[x] : x \in extra}
      /\ \A i \in DOMAIN tokens : tokens[i].type # "string" => ~IsSystem(tokens[i].text)
      /\ \/ ~IsSystem(session)
         \/ kind = "catalogs"
         \/ /\ kind \in DOMAIN ShowQualifiedParts
            /\ Len(tokens) >= 3 /\ tokens[2].type \in {"from", "in"}
            /\ Parts(tokens) >= 1

\* _show_is_governed.
ShowGoverned(st, session, extra) ==
  LET tokens == ShowTokens(st)
      kind == tokens[1].text
  IN  /\ kind \in ShowAllowed \cup UNION {ShowOpened[x] : x \in extra}
      /\ \A i \in DOMAIN tokens : tokens[i].type # "string" => ~IsSystem(tokens[i].text)
      /\ \/ ~IsSystem(session)
         \/ kind = "catalogs"
         \/ /\ kind \in DOMAIN ShowQualifiedParts
            /\ Len(tokens) >= 3 /\ tokens[2].type \in {"from", "in"}
            /\ Parts(tokens) >= ShowQualifiedParts[kind]

\* _describe_is_governed: one name of one to three parts, outside system.
DescribeGoverned(st, session) ==
  LET tokens == (IF st.kind = "" THEN <<>> ELSE <<[type |-> "name", text |-> st.kind]>>) \o NameTokens(st.name) IN
  /\ Len(tokens) % 2 = 1 /\ Len(tokens) <= 5
  /\ \A i \in DOMAIN tokens : tokens[i].type = IF i % 2 = 1 THEN "name" ELSE "dot"
  /\ ~IsSystem(IF Len(tokens) = 5 THEN tokens[1].text ELSE session)

Governed(st, session, extra) ==
  CASE st.head = "describe"  -> DescribeGoverned(st, session)
    [] st.root \in ReadTypes -> /\ st.nodes \cap WriteTypes = {}
                                /\ \A table \in st.tables : ~TableOutside(table, st.ctes, session)
    [] st.head = "show"      -> ShowGoverned(st, session, extra)
    [] OTHER                 -> FALSE

\* is_read_only_sql: exactly one statement that parses, each EXPLAIN before it allowed
\* and without ANALYZE, and itself a governed read.
IsReadOnlySql(st, session, extra) ==
  /\ st.count = 1
  /\ st.explains # <<>> => "explain" \in extra
  /\ \A i \in DOMAIN st.explains : st.explains[i] = "plain"
  /\ Governed(st, session, extra)

-----------------------------------------------------------------------------
(* What a statement does in Trino, told from what it says (external) *)

Writes(st) == st.head \notin {"describe", "show"} /\ (st.root \notin ReadTypes \/ st.nodes \cap WriteTypes # {})

\* The catalog a name is read in: its first part when it has them all, the one of the
\* session when it has fewer; Trino refuses a name of more.
FullParts == [catalogs |-> 0, schemas |-> 1, tables |-> 2, columns |-> 3, functions |-> 2,
              stats |-> 3, create |-> 3, grants |-> 3, roles |-> 1, current |-> 1, role |-> 1, session |-> 0]
CatalogOf(name, full, session) ==
  IF full = 0 \/ Len(name) > full THEN {} ELSE IF Len(name) = full THEN {name[1]} ELSE {session}

CatalogsRead(st, session) ==
  CASE st.head = "show"     -> CatalogOf(st.name, FullParts[st.kind], session)
    [] st.head = "describe" -> CatalogOf(st.name, 3, session)
    [] OTHER -> UNION {CatalogOf(t.name, 3, session) :
                         t \in {t \in st.tables : ~(Len(t.name) = 1 /\ t.name[1] \in st.ctes)}}

\* The statement is run, reads at most, reaches no table function and no system catalog.
ReadsGovernedOnly(st, session) ==
  /\ st.count = 1 /\ ~Writes(st)
  /\ \A i \in DOMAIN st.explains : st.explains[i] # "analyze"
  /\ \A table \in st.tables : ~table.function
  /\ "system" \notin CatalogsRead(st, session)
=============================================================================
