----------------------------- MODULE Admission -----------------------------
(***************************************************************************)
(* The door of the server and who it is for Trino: the guard of an HTTP    *)
(* request (middleware.py) or of a stdio call (app.py), the verification   *)
(* of its bearer (auth.py), the token policy (modules/token_policy.py),    *)
(* the identity modes of trino_client.py and the cache of exchanged tokens *)
(* (token_exchange.py), shared by the threads that run the statements.     *)
(*                                                                         *)
(* A bearer is the claims it carries.  The door runs on the event loop     *)
(* without an await, so it is one step; an exchange is several, for other  *)
(* calls run while the identity provider answers.  Code under src/ never   *)
(* issues a token: what the provider does is external.                     *)
(***************************************************************************)
EXTENDS Integers, FiniteSets, SqlGuard

CONSTANTS
  Requests,   \* the requests of the process, each with a context of its own
  Tokens,     \* the bearers a caller may send
  Claims,     \* what each carries
  Settings,   \* the configurations an operator may write
  Asked,      \* what the agents of each may ask to run, as SqlGuard reads it
  Users,      \* the subjects a token or Trino may name
  Lifetimes,  \* what expires_in may say, 0 when it says nothing
  Margin,     \* _EXPIRY_MARGIN_SECONDS
  Leeway,     \* MCP_JWT_LEEWAY_SECONDS
  CacheSize,  \* _CACHE_SIZE
  MaxTime,    \* where the clock of the model stops
  NoToken, NoUser, Server,
  ServerSql   \* a statement the server builds itself

HttpModes == {"service", "impersonation", "jwt"}
Audiences == {"server", "trino", "other"}

Setting ==
  [transport : {"http", "stdio"}, mode : HttpModes \cup {"oauth2"}, auth : BOOLEAN,
   required : BOOLEAN, accepted : SUBSET Audiences, refused : SUBSET {"trino"}, policy : BOOLEAN,
   clients : SUBSET STRING,
   scopes : SUBSET STRING, token : Tokens \cup {NoToken}, catalog : STRING,
   extra : SUBSET ExtraReadCommands]

ASSUME AdmissionAssumption ==
  /\ Claims \in [Tokens -> [genuine : BOOLEAN, exp : Int, aud : SUBSET Audiences,
                            subject : Users \cup {NoUser}, client : STRING, scopes : SUBSET STRING]]
  /\ Settings \subseteq Setting
  /\ Lifetimes \subseteq Nat
  /\ Margin \in Nat /\ Leeway \in Nat /\ MaxTime \in Nat
  /\ CacheSize \in Nat \ {0}
  /\ NoToken \notin Tokens
  /\ \A c \in Settings : Asked[c] \subseteq Statement /\ ServerSql \notin Asked[c]
  /\ NoUser \notin Users /\ Server \notin Users /\ Server # NoUser

VARIABLES
  cfg,      \* the configuration the process started with
  now,      \* the clock
  req,      \* the requests: where each is, what it sent and what its context holds
  cache,    \* _cache, a dict: the entries, and the place of each in its order of insertion
  named,    \* principal of _oauth2_stdio_middleware
  lock      \* its lock: the request that signs in, or none

vars == <<cfg, now, req, cache, named, lock>>

Discovery == {"tools/list", "notification"}
NoRefusal == [status |-> "", reason |-> "", error |-> ""]

\* What Trino received with a statement, and a token of the identity provider for Trino.
Unsent == [user |-> NoUser, for |-> NoToken, sql |-> ServerSql]
NoGrant == [for |-> NoToken, exp |-> 0, life |-> 0]

Fresh ==
  [pc |-> "new", bearer |-> NoToken, user |-> NoUser, bound |-> NoToken, sql |-> ServerSql, at |-> 0,
   grant |-> NoGrant, sent |-> Unsent, refusal |-> NoRefusal]

-----------------------------------------------------------------------------
(* The bearer, the policy and the settings *)

\* JwksJwtAuth.verify and _principal_from_claims: the subject of a bearer that is
\* genuine, not expired, issued for this server and for no audience of Trino.
Verified(c, b, time) ==
  IF /\ c.auth /\ b # NoToken
     /\ Claims[b].genuine
     /\ Claims[b].exp > time - Leeway
     /\ Claims[b].aud \cap c.accepted # {}
     /\ Claims[b].aud \cap c.refused = {}
  THEN Claims[b].subject ELSE NoUser

Unauthenticated(b) ==
  [status |-> "401", reason |-> "unauthenticated", error |-> IF b = NoToken THEN "" ELSE "invalid_token"]

\* TokenPolicyExtension.after_auth: the core's 401, then the client, then the scopes.
PolicyRefusal(c, b, who, client, scopes) ==
  IF who = NoUser THEN Unauthenticated(b)
  ELSE IF c.clients # {} /\ client \notin c.clients
  THEN [status |-> "401", reason |-> "client_not_allowed", error |-> "invalid_token"]
  ELSE IF ~(c.scopes \subseteq scopes)
  THEN [status |-> "403", reason |-> "insufficient_scope", error |-> "insufficient_scope"]
  ELSE NoRefusal

\* The guards of a request: the core's, then the extensions'.
Refusal(c, b, who) ==
  IF c.required /\ who = NoUser THEN Unauthenticated(b)
  ELSE IF ~c.policy THEN NoRefusal
  ELSE IF who = NoUser THEN PolicyRefusal(c, b, who, "", {})
  ELSE PolicyRefusal(c, b, who, Claims[b].client, Claims[b].scopes)

\* The settings a server starts with.  Config.problems:
Problems(c) == c.required /\ ~c.auth

\* build_auth: some audience is accepted, and none that a token for Trino has.
AuthStarts(c) == c.auth => c.accepted # {} /\ c.accepted \cap c.refused = {}

\* _require_verified_callers, for the modes that run as the caller of a request.
VerifiedCallersOnly(c) == c.auth /\ c.required

\* describe of the identity mode. The exchange needs the audience of its tokens.
ModeStarts(c) ==
  /\ c.mode \in {"jwt", "impersonation"} => VerifiedCallersOnly(c)
  /\ c.mode = "jwt" => c.refused = {"trino"}
  /\ c.mode = "oauth2" => c.transport = "stdio"

\* create of the policy.
PolicyStarts(c) == c.policy => c.clients # {} \/ c.scopes # {}

\* run_stdio, of its one caller: oauth2 admits at the first call instead.
StdioStarts(c) ==
  LET who == Verified(c, c.token, 0)
  IN  /\ c.required => who # NoUser
      /\ c.mode # "oauth2" => Refusal(c, c.token, who) = NoRefusal

Starts(c) ==
  /\ ~Problems(c) /\ AuthStarts(c) /\ ModeStarts(c) /\ PolicyStarts(c)
  /\ c.transport = "stdio" => StdioStarts(c)

Init ==
  /\ cfg \in {c \in Settings : Starts(c)}
  /\ now = 0
  /\ req = [r \in Requests |-> Fresh]
  /\ cache = {}
  /\ named = NoUser
  /\ lock = {}

-----------------------------------------------------------------------------
Go(r, to) == req' = [req EXCEPT ![r].pc = to]

OnlyRequest == UNCHANGED <<cfg, now, cache, named, lock>>

Refuse(r, b, refusal) ==
  req' = [req EXCEPT ![r].pc = "refused", ![r].bearer = b, ![r].refusal = refusal]

\* The Principal and, once it is verified, the bearer are bound for the request.
Bind(r, b, who) ==
  req' = [req EXCEPT ![r].pc = "serving", ![r].bearer = b, ![r].user = who,
                     ![r].bound = IF who = NoUser THEN NoToken ELSE b]

\* AuthIdentityMiddleware._handle.
Arrive(r, b) ==
  LET who == Verified(cfg, b, now)
  IN  /\ req[r].pc = "new" /\ cfg.transport = "http"
      /\ IF Refusal(cfg, b, who) # NoRefusal THEN Refuse(r, b, Refusal(cfg, b, who)) ELSE Bind(r, b, who)
      /\ OnlyRequest

\* A call over stdio, admitted at the start of the process with MCP_USER_TOKEN.
Call(r) ==
  /\ req[r].pc = "new" /\ cfg.transport = "stdio" /\ cfg.mode # "oauth2"
  /\ Bind(r, cfg.token, Verified(cfg, cfg.token, 0))
  /\ OnlyRequest

-----------------------------------------------------------------------------
(* The sign-in of oauth2 over stdio: admit_on_call *)

\* Discovery and notifications pass without a caller; anything else waits.
Handle(r, method) ==
  /\ req[r].pc = "new" /\ cfg.mode = "oauth2"
  /\ IF method \in Discovery THEN Bind(r, cfg.token, NoUser)
     ELSE req' = [req EXCEPT ![r].pc = "waiting", ![r].bearer = cfg.token]
  /\ OnlyRequest

\* _admit: Trino names a user without a client or a scope.
Admit(r, who) ==
  LET refusal == IF cfg.policy THEN PolicyRefusal(cfg, cfg.token, who, "", {}) ELSE NoRefusal
  IN  IF refusal # NoRefusal THEN Refuse(r, cfg.token, refusal) ELSE Bind(r, cfg.token, who)

\* The lock is taken: current_user is asked in a thread, or the user is known.
SignIn(r) ==
  /\ req[r].pc = "waiting" /\ lock = {}
  /\ IF named = NoUser
     THEN Go(r, "signing") /\ lock' = {r}
     ELSE Admit(r, named) /\ UNCHANGED lock
  /\ UNCHANGED <<cfg, now, cache, named>>

\* Trino answers SELECT current_user; it may name nobody, which refuses the call.
Named(r, who) ==
  /\ req[r].pc = "signing"
  /\ lock' = {}
  /\ IF who = NoUser
     THEN Refuse(r, cfg.token, Unauthenticated(NoToken)) /\ UNCHANGED named
     ELSE named' = who /\ Admit(r, who)
  /\ UNCHANGED <<cfg, now, cache>>

\* The host gives up on a call that waits or signs in: its task is cancelled, which
\* frees the lock, and the answer of its thread is dropped.
GiveUp(r) ==
  /\ req[r].pc \in {"waiting", "signing"}
  /\ Go(r, "ended")
  /\ lock' = lock \ {r}
  /\ UNCHANGED <<cfg, now, cache, named>>

-----------------------------------------------------------------------------
\* A tool call runs a statement: its own, or the agent's once the guard lets it
\* through (execute_query, explain_query); the thread of the statement connects later.
Run(r, sql) ==
  /\ req[r].pc = "serving"
  /\ sql # ServerSql => IsReadOnlySql(sql, cfg.catalog, cfg.extra)
  /\ req' = [req EXCEPT ![r].pc = "running", ![r].sql = sql]
  /\ OnlyRequest

\* The connection is refused to a request without the caller its mode needs.
NoCaller(r) ==
  /\ req[r].pc = "running" /\ cfg.mode # "service" /\ req[r].user = NoUser
  /\ Go(r, "serving")
  /\ OnlyRequest

-----------------------------------------------------------------------------
(* The exchange of tokens *)

Grant == [for : Tokens, exp : Nat, life : Nat]

Of(es, k) == {e \in es : e.key = k}

\* token_for, under the lock after the exchange: what has expired goes, then the oldest
\* while the cache is full; the token is kept unless it expires within the margin, in
\* the place of the one of that bearer.
Ranked(es) == {[e EXCEPT !.place = Cardinality({f \in es : f.place <= e.place})] : e \in es}

Live(es, time) == Ranked({e \in es : e.until > time})

Room(es) == Ranked({e \in es : e.place > Cardinality(es) - (CacheSize - 1)})

PlaceFor(es, k) == IF Of(es, k) = {} THEN Cardinality(es) + 1 ELSE (CHOOSE e \in Of(es, k) : TRUE).place

Kept(es, r, until) ==
  LET k == req[r].bound
  IN  IF req[r].grant.life <= Margin THEN es
      ELSE (es \ Of(es, k)) \cup {[key |-> k, grant |-> req[r].grant, until |-> until, place |-> PlaceFor(es, k)]}

\* Mutant of Stored: the entry lives from the answer of the provider on.
StoredFromAnswer(es, r) == Kept(Room(Live(es, req[r].at)), r, now + req[r].grant.life - Margin)

Stored(es, r) == Kept(Room(Live(es, req[r].at)), r, req[r].at + req[r].grant.life - Margin)

\* JwtIdentity.connection: the caller, with a token for Trino.
Send(r, grant) ==
  req' = [req EXCEPT ![r].pc = "serving", ![r].at = 0, ![r].grant = NoGrant,
                     ![r].sent = [user |-> req[r].user, for |-> grant.for, sql |-> req[r].sql]]

\* Mutant of Cached: a token of the same caller, whatever bearer it was exchanged for.
CachedOfCaller(r) ==
  {e \in cache : Claims[e.key].subject = req[r].user /\ e.until > now}

\* token_for, under the lock before the exchange.
Cached(r) == {e \in Of(cache, req[r].bound) : e.until > now}

\* A statement in the jwt mode: the cached token, or an exchange begins.
AskToken(r) ==
  /\ req[r].pc = "running" /\ cfg.mode = "jwt"
  /\ req[r].bound # NoToken /\ req[r].user # NoUser
  /\ \/ \E e \in Cached(r) : Send(r, e.grant)
     \/ Cached(r) = {} /\ req' = [req EXCEPT ![r].pc = "asking", ![r].at = now]
  /\ OnlyRequest

\* The identity provider issues a token for the bearer it was sent.
Issue(r, life) ==
  /\ req[r].pc = "asking"
  /\ req' = [req EXCEPT ![r].pc = "issued",
                        ![r].grant = [for |-> req[r].bound, exp |-> now + life, life |-> life]]
  /\ OnlyRequest

\* It refuses, or does not answer in time: the statement fails with PermissionError.
ExchangeFails(r) ==
  /\ req[r].pc \in {"asking", "issued"}
  /\ req' = [req EXCEPT ![r].pc = "serving", ![r].at = 0, ![r].grant = NoGrant]
  /\ OnlyRequest

\* The answer arrives: the cache is brought up to date, the statement goes to Trino.
Store(r) ==
  /\ req[r].pc = "issued"
  /\ cache' = Stored(cache, r)
  /\ Send(r, req[r].grant)
  /\ UNCHANGED <<cfg, now, named, lock>>

-----------------------------------------------------------------------------
\* A statement in the other modes: the server's account as itself or as the verified
\* caller, or the login of the user who signed in; none without the caller it needs.
Connect(r) ==
  /\ req[r].pc = "running" /\ cfg.mode # "jwt"
  /\ cfg.mode # "service" => req[r].user # NoUser
  /\ req' = [req EXCEPT ![r].pc = "serving",
                        ![r].sent = [user |-> IF cfg.mode = "service" THEN Server ELSE req[r].user,
                                     for |-> NoToken, sql |-> req[r].sql]]
  /\ OnlyRequest

\* The request is over; its context goes with it.
End(r) ==
  /\ req[r].pc = "serving"
  /\ req' = [req EXCEPT ![r] = [Fresh EXCEPT !.pc = "ended"]]
  /\ OnlyRequest

Tick ==
  /\ now < MaxTime
  /\ now' = now + 1
  /\ UNCHANGED <<cfg, req, cache, named, lock>>

Finished ==
  /\ \A r \in Requests : req[r].pc \in {"refused", "ended"}
  /\ UNCHANGED vars

Next ==
  \/ \E r \in Requests :
       \/ \E b \in Tokens \cup {NoToken} : Arrive(r, b)
       \/ Call(r)
       \/ \E m \in Discovery \cup {"tools/call"} : Handle(r, m)
       \/ SignIn(r)
       \/ \E who \in Users \cup {NoUser} : Named(r, who)
       \/ GiveUp(r)
       \/ \E sql \in Asked[cfg] \cup {ServerSql} : Run(r, sql)
       \/ NoCaller(r)
       \/ AskToken(r)
       \/ \E life \in Lifetimes : Issue(r, life)
       \/ ExchangeFails(r)
       \/ Store(r)
       \/ Connect(r)
       \/ End(r)
  \/ Tick
  \/ Finished

Spec == Init /\ [][Next]_vars

-----------------------------------------------------------------------------
(* Properties *)

Served == {"serving", "running", "asking", "issued"}
Steps == Served \cup {"new", "refused", "waiting", "signing", "ended"}

Sqls == {ServerSql} \cup UNION {Asked[c] : c \in Settings}
Refusals ==
  [status : {"", "401", "403"}, reason : {"", "unauthenticated", "client_not_allowed", "insufficient_scope"},
   error : {"", "invalid_token", "insufficient_scope"}]

Request ==
  [pc : Steps, bearer : Tokens \cup {NoToken}, user : Users \cup {NoUser}, bound : Tokens \cup {NoToken},
   sql : Sqls, at : Nat, grant : Grant \cup {NoGrant},
   sent : [user : Users \cup {NoUser, Server}, for : Tokens \cup {NoToken}, sql : Sqls],
   refusal : Refusals]

TypeOK ==
  /\ cfg \in Settings /\ now \in Nat
  /\ req \in [Requests -> Request]
  /\ cache \subseteq [key : Tokens, grant : Grant, until : Int, place : Nat]
  /\ named \in Users \cup {NoUser}
  /\ lock \subseteq Requests

\* Whatever the threads of other calls do meanwhile, a statement reaches Trino as its
\* own caller: with a token exchanged for the very bearer of its request, or as the
\* subject of that bearer, or as the one user who signed in; and never without a
\* caller in a mode that needs one (connection, token_for, admit_on_call).
RunsAsCaller ==
  \A r \in Requests : req[r].sent # Unsent =>
    CASE cfg.mode = "service" -> req[r].sent.user = Server
      [] cfg.mode = "oauth2"  -> req[r].sent.user = named
      [] OTHER -> /\ req[r].bearer # NoToken
                  /\ req[r].sent.user = Claims[req[r].bearer].subject
                  /\ cfg.mode = "jwt" => req[r].sent.for = req[r].bearer

\* A token kept for later outlives its entry by the margin, though the clock was read
\* before the exchange and calls store in any order: what a call finds lives for the
\* margin at least (token_for).
CachedTokenLives ==
  \A e \in cache : e.until + Margin <= e.grant.exp /\ e.grant.for = e.key

\* The cache holds a bearer once and stays within its bound, whoever stores.
CacheBounded ==
  /\ Cardinality(cache) <= CacheSize
  /\ \A e, f \in cache : e.key = f.key => e = f

\* A server whose policy or settings ask for a verified caller serves nobody else, and
\* tells a caller what it lacks: 403 a verified caller of an allowed client, and 401 with
\* invalid_token whoever sent a bearer that is worth nothing here.
DoorHolds ==
  cfg.mode # "oauth2" => \A r \in Requests :
    LET b == req[r].bearer
        Worth == b # NoToken /\ Claims[b].genuine /\ Claims[b].aud \cap cfg.refused = {}
    IN  /\ req[r].pc \in Served =>
             /\ cfg.required \/ cfg.policy => req[r].user # NoUser
             /\ cfg.policy /\ cfg.clients # {} => Claims[b].client \in cfg.clients
             /\ cfg.policy => cfg.scopes \subseteq Claims[b].scopes
             /\ req[r].user # NoUser => Worth
        /\ req[r].refusal.status = "403" => Worth /\ ~(cfg.scopes \subseteq Claims[b].scopes)
        /\ req[r].refusal.status = "401" => (b = NoToken <=> req[r].refusal.error = "")

\* What an agent wrote reaches Trino only when it is one statement that reads, through no
\* table function and in no system catalog, the session's included (is_read_only_sql).
GuardHolds ==
  \A r \in Requests :
    LET sql == req[r].sent.sql IN sql # ServerSql => ReadsGovernedOnly(sql, cfg.catalog)

\* The sign-in happens once: one call at a time asks Trino, none once the user is known.
OneSignIn ==
  /\ Cardinality({r \in Requests : req[r].pc = "signing"}) <= 1
  /\ named # NoUser => \A r \in Requests : req[r].pc # "signing"

=============================================================================
