------------------------------ MODULE MCShown ------------------------------
(***************************************************************************)
(* Shown on small instances, in four scenes: "proof", two calls of two     *)
(* callers that prove a table and list it; "canary", two calls of one      *)
(* caller and a canary; "join", the joins and the select check; "answer",  *)
(* one call, with every content, and no change of what Trino lists.        *)
(***************************************************************************)
EXTENDS Shown, TLC

CONSTANTS c1, c2, alice, bob, root, hive, hs, tab, join, third, ca, cb, cd, jp, other, os, canary

VARIABLE scene

MCSources == <<"s1", "s2">>

MCParent ==
  [n \in {hive, hs, tab, join, third, ca, cb, cd, jp, other, os, canary} |->
     CASE n \in {hive, other} -> root [] n = hs -> hive [] n \in {tab, join, third} -> hs
       [] n \in {ca, cb, cd} -> tab [] n = jp -> join [] n = os -> other [] OTHER -> os]

MCColumns == <<ca, cb, cd>>

All == {hive, hs, tab, join, ca, cb, jp}
MCWorlds == {All, All \cup {third}, All \ {join, jp}, {hive}, {hive, hs, tab}, {hive, hs, tab, other, os, canary}, All \cup {cd}}

WorldsOf(s) ==
  CASE s = "proof"  -> {All, All \cup {third}, {hive}}
    [] s = "canary" -> {{hive, hs, tab}, {hive, hs, tab, other, os, canary}}
    [] s = "join"   -> {All, All \ {join, jp}}
    [] OTHER        -> {All \cup {cd}}

Part(text, terms) == [text |-> text, labels |-> {"shown", "kept"}, terms |-> terms]
Bare == [text |-> "", labels |-> {}, terms |-> {}, owner |-> "", grain |-> {}, joins |-> {}, columns |-> <<>>]
Joins == {[columns |-> {ca}, to |-> {jp}]}

Served(broken, glossary, owner) ==
  [broken |-> broken, glossary |-> glossary, labels |-> {"shown"}, owner |-> owner]
ServesAll == [s \in SourceSet |-> Served(FALSE, {"g"}, TRUE)]

Joining ==
  [contents |-> [s \in {"s1"} |-> [Bare EXCEPT !.joins = Joins, !.columns = [n \in {ca, cb} |-> Part("x", {})]]],
   status |-> [s \in SourceSet |-> IF s = "s1" THEN "ok" ELSE "not_found"], served |-> ServesAll]

TableParts ==
  {[Bare EXCEPT !.text = text, !.owner = "o", !.grain = grain, !.terms = terms] :
     text \in {"", "x"}, grain \in {{}, {ca}, {cb, cd}}, terms \in {{}, {"k1"}}}

ColumnParts ==
  {<<>>, [n \in {ca} |-> Part("x", {"k1"})],
   [n \in {ca, cb, cd} |-> Part("x", IF n = cb THEN {"k2"} ELSE {})],
   [n \in {ca, cb} |-> Part("", IF n = ca THEN {"k1"} ELSE {"k2"})]}

Second == [Bare EXCEPT !.text = "y", !.grain = {ca}, !.columns = [n \in {ca, cd} |-> Part("y", {"k1"})]]

Gathered(table, columns, status, served, both) ==
  [contents |-> [s \in {"s1"} \cup both |-> IF s = "s1" THEN [table EXCEPT !.columns = columns] ELSE Second],
   status |-> [s \in SourceSet |-> IF s = "s1" THEN status ELSE IF both = {} THEN "not_found" ELSE "ok"],
   served |-> [s \in SourceSet |-> IF s = "s1" THEN served ELSE Served(FALSE, {"g"}, FALSE)]]

Answering ==
  {Gathered(table, columns, status, served, both) :
     table \in TableParts, columns \in ColumnParts, status \in {"ok", "unavailable"},
     served \in {Served(FALSE, {"g"}, TRUE), Served(FALSE, {}, FALSE), Served(TRUE, {"g"}, TRUE)},
     both \in {{}, {"s2"}}}

MCGatherings == [joins |-> {Joining}, full |-> Answering]

Term(key, glossary, named, relations) ==
  [key |-> key, glossary |-> glossary, named |-> named,
   relations |-> {[key |-> k, glossary |-> "g"] : k \in relations}]

Terms ==
  {[k \in {"k1", "k2"} |-> IF k = "k1" THEN Term("k1", "g", TRUE, {"k2"}) ELSE Term("k2", "g", named, {"k1", "k2"})] :
     named \in BOOLEAN}
  \cup {[k \in {"k1", "k2"} |-> IF k = "k1" THEN Term("k2", "g", TRUE, {}) ELSE Term("k2", "z", TRUE, {"k1"})],
        [k \in {"k2"} |-> Term("k2", "g", TRUE, {"k1"})]}

MCReadings ==
  [joins |-> {NoReading},
   full  |-> {[s \in SourceSet |-> [terms |-> terms, status |-> status]] :
                 terms \in Terms \cup {<<>>}, status \in {"ok", "unavailable"}}]

\* Two calls show the races; the readings matter to "answer" only, which one call shows.
Interchangeable == Permutations(Calls)

OneCaller == \A c \in Calls : call[c].op = "none" \/ call[c].who = alice

Settings(canarySet, selectSet, catalogue) ==
  cfg = [canary |-> canarySet, select |-> selectSet, catalogue |-> catalogue]

InScene ==
  /\ \A who \in Callers : lists[who] \in WorldsOf(scene)
  /\ scene = "proof" => /\ Settings(FALSE, FALSE, "joins") /\ now <= 3 /\ join \notin lists[bob]
                        /\ \A c \in Calls : call[c].op # "describe" /\ call[c].refs \subseteq {join}
  /\ scene = "canary" => /\ Settings(TRUE, FALSE, "joins") /\ OneCaller /\ canary \notin lists[bob]
                         /\ \A c \in Calls : call[c].op # "describe" /\ call[c].refs \subseteq {tab}
  /\ scene = "join" => /\ Settings(FALSE, TRUE, "joins") /\ now <= 1 /\ OneCaller /\ lists[bob] = All
                       /\ \A c \in Calls : /\ call[c].op \in {"none", "describe"}
                                           /\ call[c].cols \in {{}, {ca, cb}}
  /\ scene = "answer" => /\ Settings(FALSE, FALSE, "full") /\ now = 0 /\ OneCaller
                         /\ \E c \in Calls : call[c] = NoCall
                         /\ \A c \in Calls : call[c].op \in {"none", "describe"}

MCInit == Init /\ scene \in {"proof", "canary", "join", "answer"} /\ InScene
MCNext == Next /\ UNCHANGED scene /\ InScene'
MCSpec == MCInit /\ [][MCNext]_<<vars, scene>>
=============================================================================
