---------------------------- MODULE MCAdmission ----------------------------
(***************************************************************************)
(* Admission with two bearers of one caller, one of another, and one of    *)
(* each kind that is refused, under every setting a server starts with.    *)
(***************************************************************************)
EXTENDS Admission

CONSTANTS r1, r2, alice, bob

Claim(subject, client, scopes) ==
  [genuine |-> TRUE, exp |-> 9, aud |-> {"server"}, subject |-> subject, client |-> client, scopes |-> scopes]

MCClaims ==
  [alice1   |-> Claim(alice, "agent", {"read"}),
   alice2   |-> Claim(alice, "agent", {"read"}),
   bob1     |-> Claim(bob, "other", {"read"}),
   short    |-> [Claim(bob, "agent", {"read"}) EXCEPT !.exp = 1],
   narrow   |-> Claim(bob, "agent", {}),
   forged   |-> [Claim(alice, "agent", {"read"}) EXCEPT !.genuine = FALSE],
   nameless |-> Claim(NoUser, "agent", {"read"}),
   trino    |-> [Claim(alice, "agent", {"read"}) EXCEPT !.aud = {"server", "trino"}]]

MCTokens == DOMAIN MCClaims

Http(mode, required, policy) ==
  [transport |-> "http", mode |-> mode, auth |-> TRUE, required |-> required, accepted |-> {"server"},
   refused |-> {"trino"}, policy |-> policy, clients |-> {"agent"}, scopes |-> {"read"}, token |-> NoToken,
   catalog |-> "hive", extra |-> {}]

\* Every setting but the exchange's, which has a scene of its own.
MCSettings ==
  UNION {{Http(mode, required, policy),
          [Http(mode, required, policy) EXCEPT !.clients = {}],
          [Http(mode, required, policy) EXCEPT !.transport = "stdio", !.clients = {}],
          [Http(mode, required, policy) EXCEPT !.transport = "stdio", !.token = "alice1"],
          [Http(mode, required, policy) EXCEPT !.transport = "stdio", !.token = "forged"],
          [Http(mode, required, policy) EXCEPT !.accepted = {"server", "trino"}],
          [Http(mode, required, policy) EXCEPT !.accepted = {"server", "trino"}, !.refused = {}],
          [Http(mode, required, policy) EXCEPT !.auth = FALSE]}
           : mode \in HttpModes \cup {"oauth2"}, required \in BOOLEAN, policy \in BOOLEAN}

Exchange == Http("jwt", TRUE, FALSE)

\* The statements: reads and writes of tables with names of one to three parts, in every
\* common table or none, the SHOWs and DESCRIBEs of every kind, and EXPLAINs of them.
Parsed == [count |-> 1, explains |-> <<>>, head |-> "select", root |-> "select", nodes |-> {},
           tables |-> {}, ctes |-> {}, kind |-> "", prep |-> "", name |-> <<>>, like |-> ""]
Table(name) == [function |-> FALSE, name |-> name]
Names == {<<"t">>, <<"s", "t">>, <<"hive", "s", "t">>, <<"system", "s", "t">>, <<"system", "t">>}
Reads == {[Parsed EXCEPT !.tables = {Table(name)}, !.ctes = ctes] : name \in Names, ctes \in {{}, {"t"}}}
  \cup {[Parsed EXCEPT !.tables = {[function |-> TRUE, name |-> <<>>]}],
        [Parsed EXCEPT !.count = 2], [Parsed EXCEPT !.count = 0],
        [Parsed EXCEPT !.nodes = {"delete"}], [Parsed EXCEPT !.root = "insert"]}
Shows == {[Parsed EXCEPT !.head = "show", !.root = "command", !.kind = kind, !.prep = "from",
                         !.name = name, !.like = like] :
            kind \in DOMAIN FullParts, name \in Names \cup {<<"hive">>, <<"hive", "s">>}, like \in {"", "system"}}
  \cup {[Parsed EXCEPT !.head = "show", !.root = "command", !.kind = kind, !.like = "system"] :
           kind \in DOMAIN FullParts}
Describes == {[Parsed EXCEPT !.head = "describe", !.root = "describe", !.name = name, !.kind = kind] :
                name \in Names, kind \in {"", "input"}}
Explained == {[st EXCEPT !.explains = <<how>>] : st \in Reads, how \in {"plain", "analyze"}}
MCStatements == Reads \cup Shows \cup Describes \cup Explained

Guarding == {[Http("service", FALSE, FALSE) EXCEPT !.catalog = catalog, !.extra = extra] :
               catalog \in {"hive", "system"}, extra \in {{}, {"explain", "stats", "create", "roles"}}}

AllSettings == MCSettings \cup Guarding \cup {Exchange}
MCAsked == [c \in AllSettings |-> IF c \in Guarding THEN MCStatements ELSE {}]

\* Two requests share the cache or the sign-in; one is enough for the door, and one
\* without a bearer for the guard of statements.
InScene ==
  \/ /\ cfg = Exchange
     /\ \A r \in Requests : req[r].bearer \in {"alice1", "alice2", NoToken}
  \/ cfg.mode = "oauth2" /\ now = 0
  \/ /\ cfg # Exchange /\ \A r \in Requests \ {r1} : req[r].pc = "new"
     /\ cfg \in Guarding => now = 0 /\ req[r1].bearer = NoToken

MCFinished == cfg # Exchange /\ req[r1].pc \in {"refused", "ended"} /\ UNCHANGED vars

MCNext == (Next \/ MCFinished) /\ InScene'
MCSpec == Init /\ [][MCNext]_vars
=============================================================================
