------------------------------ MODULE MCSearch ------------------------------
(***************************************************************************)
(* Search on small scopes: what each world is made to show.                *)
(***************************************************************************)
EXTENDS Search

Schema(tables, columns) ==
  [kind |-> <<"ok", "ok">>,
   rows |-> [every_word |-> <<tables, columns>>, per_word |-> <<tables + 1, columns>>]]

Bad(kinds) == [Schema(1, 1) EXCEPT !.kind = kinds]
Of(schemas) == [kind |-> "ok", schemas |-> schemas]
Unread(kind) == [kind |-> kind, schemas |-> <<Schema(1, 1)>>]

\* The cap is reached inside a phase and between two, and the last page is empty.
Rich == [catalogs |-> <<Of(<<Schema(1, 2)>>), Of(<<Schema(1, 0), Schema(0, 0)>>)>>,
         named |-> FALSE, several |-> TRUE]

\* Schemas and catalogs that fail, each in its own way, beside others that answer.
Poor == [catalogs |-> <<Unread("fails"), Of(<<Bad(<<"ok", "slow">>), Schema(1, 1)>>), Unread("badname")>>,
         named |-> FALSE, several |-> TRUE]

Slow == [catalogs |-> <<Of(<<Bad(<<"fails", "ok">>), Schema(0, 1)>>), Unread("slow"), Of(<<Schema(0, 2)>>)>>,
         named |-> FALSE, several |-> FALSE]

\* A view refused in the second catalog, behind one that fills the page or not.
Refused == [catalogs |-> <<Of(<<Schema(2, 1)>>), Of(<<Bad(<<"refused", "ok">>)>>), Of(<<>>)>>,
            named |-> FALSE, several |-> FALSE]

\* Nothing holds every word: each word alone finds a table.
Empty == [catalogs |-> <<Of(<<Schema(0, 0)>>), Of(<<>>)>>,
          named |-> FALSE, several |-> TRUE]

\* One schema, named.
Named == [catalogs |-> <<Of(<<Schema(2, 1)>>)>>, named |-> TRUE, several |-> FALSE]

MCWorlds == {Rich, Poor, Slow, Refused, Empty, Named}

=============================================================================
