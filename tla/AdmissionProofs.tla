--------------------------- MODULE AdmissionProofs ---------------------------
(***************************************************************************)
(* What Admission promises of every request, for any bearers, settings and *)
(* clock.  Known ties what the context of a request holds to its bearer    *)
(* and to what it is exchanged for; Signing ties the lock to the one call  *)
(* that signs in.  The two and the types are inductive together.           *)
(***************************************************************************)
EXTENDS Admission, FiniteSetTheorems, TLAPS

\* The user of a request is the one its bearer names, or the one who signed in; what is
\* bound is its bearer; what an exchange was given is for it.
KnownOf(q) ==
  /\ q.user # NoUser =>
       IF cfg.mode = "oauth2" THEN q.user = named
       ELSE q.bearer # NoToken /\ q.user = Claims[q.bearer].subject
  /\ q.bound # NoToken => q.bound = q.bearer
  /\ q.pc \in {"asking", "issued"} => cfg.mode = "jwt" /\ q.bound # NoToken /\ q.user # NoUser /\ q.at <= now
  /\ q.pc = "issued" => q.grant \in Grant /\ q.grant.for = q.bound /\ q.grant.exp >= q.at + q.grant.life
  /\ q.pc = "new" => q = Fresh
  /\ q.pc \in {"waiting", "signing"} =>
       cfg.mode = "oauth2" /\ q.user = NoUser /\ q.bound = NoToken /\ q.sent = Unsent

SentOf(q) ==
  q.sent # Unsent =>
    CASE cfg.mode = "service" -> q.sent.user = Server
      [] cfg.mode = "oauth2"  -> q.sent.user = named /\ named # NoUser
      [] OTHER -> /\ q.bearer # NoToken
                  /\ q.sent.user = Claims[q.bearer].subject
                  /\ cfg.mode = "jwt" => q.sent.for = q.bearer

Known == \A r \in Requests : KnownOf(req[r]) /\ SentOf(req[r])

\* Whoever signs in holds the lock, before the user is known.
Signing == \A r \in Requests : req[r].pc = "signing" => lock = {r} /\ named = NoUser

AdmitInv == TypeOK /\ IsFiniteSet(cache) /\ Starts(cfg) /\ Known /\ Signing /\ CachedTokenLives

LEMMA AdmitInit == Init => AdmitInv
  <1> SUFFICES ASSUME Init PROVE AdmitInv
    OBVIOUS
  <1>1. Fresh \in Request
    BY DEF Fresh, Request, Steps, Served, Unsent, NoGrant, NoRefusal, Refusals, Sqls
  <1>2. TypeOK
    BY <1>1 DEF Init, TypeOK
  <1>3. Known
    BY DEF Init, Known, KnownOf, SentOf, Fresh
  <1> QED
    BY <1>2, <1>3, FS_EmptySet DEF Init, AdmitInv, Signing, CachedTokenLives, Fresh

\* What the policy answers is a refusal of its kinds, or none.
LEMMA RefusalTypes ==
  ASSUME NEW c, NEW b, NEW who, NEW client, NEW scopes
  PROVE  PolicyRefusal(c, b, who, client, scopes) \in Refusals /\ Refusal(c, b, who) \in Refusals
  <1>1. Unauthenticated(b) \in Refusals /\ NoRefusal \in Refusals
    BY DEF Unauthenticated, NoRefusal, Refusals
  <1>2. /\ [status |-> "401", reason |-> "client_not_allowed", error |-> "invalid_token"] \in Refusals
        /\ [status |-> "403", reason |-> "insufficient_scope", error |-> "insufficient_scope"] \in Refusals
    BY DEF Refusals
  <1>3. \A x, y : PolicyRefusal(c, b, who, x, y) \in Refusals
    BY <1>1, <1>2, Zenon DEF PolicyRefusal
  <1> QED
    BY <1>1, <1>3 DEF Refusal

\* The bearer that is verified names its subject.
LEMMA VerifiedSubject ==
  ASSUME NEW c, NEW b \in Tokens \cup {NoToken}, NEW time
  PROVE  /\ Verified(c, b, time) \in Users \cup {NoUser}
         /\ Verified(c, b, time) # NoUser => b # NoToken /\ Verified(c, b, time) = Claims[b].subject
  BY AdmissionAssumption DEF Verified

\* A step that changes one request, to one that is known, disturbs nothing else.
LEMMA OneRequest ==
  ASSUME AdmitInv, NEW r \in Requests, OnlyRequest,
         req' \in [Requests -> Request],
         \A s \in Requests : s # r => req'[s] = req[s],
         KnownOf(req[r])', SentOf(req[r])', req'[r].pc # "signing"
  PROVE  AdmitInv'
  <1>1. TypeOK'
    BY DEF AdmitInv, TypeOK, OnlyRequest
  <1>2. \A s \in Requests : s # r => KnownOf(req[s])' /\ SentOf(req[s])'
    BY DEF AdmitInv, Known, KnownOf, SentOf, OnlyRequest
  <1>3. Known'
    BY <1>2 DEF Known
  <1>4. Signing' /\ CachedTokenLives' /\ Starts(cfg)' /\ IsFiniteSet(cache)'
    BY DEF AdmitInv, Signing, CachedTokenLives, OnlyRequest
  <1> QED
    BY <1>1, <1>3, <1>4 DEF AdmitInv

\* A request that is bound, or refused, is still a request.
LEMMA RequestBound ==
  ASSUME req \in [Requests -> Request], NEW r \in Requests,
         NEW b \in Tokens \cup {NoToken}, NEW who \in Users \cup {NoUser}, Bind(r, b, who)
  PROVE  req'[r] \in Request /\ req' = [req EXCEPT ![r] = req'[r]]
  <1> DEFINE q == req[r]
             bound == IF who = NoUser THEN NoToken ELSE b
  <1>1. q \in Request /\ "serving" \in Steps /\ bound \in Tokens \cup {NoToken}
    BY DEF Steps, Served
  <1>2. req'[r] = [q EXCEPT !.pc = "serving", !.bearer = b, !.user = who, !.bound = bound]
    BY DEF Bind
  <1>3. req' = [req EXCEPT ![r] = req'[r]]
    BY <1>2 DEF Bind
  <1> HIDE DEF q, bound
  <1>4. [q EXCEPT !.pc = "serving", !.bearer = b, !.user = who, !.bound = bound] \in Request
    BY <1>1 DEF Request
  <1> QED
    BY <1>2, <1>3, <1>4

LEMMA RequestRefused ==
  ASSUME req \in [Requests -> Request], NEW r \in Requests,
         NEW b \in Tokens \cup {NoToken}, NEW refusal \in Refusals, Refuse(r, b, refusal)
  PROVE  req'[r] \in Request /\ req' = [req EXCEPT ![r] = req'[r]]
  <1> DEFINE q == req[r]
  <1>1. q \in Request /\ "refused" \in Steps
    BY DEF Steps, Served
  <1>2. req'[r] = [q EXCEPT !.pc = "refused", !.bearer = b, !.refusal = refusal]
    BY DEF Refuse
  <1>3. req' = [req EXCEPT ![r] = req'[r]]
    BY <1>2 DEF Refuse
  <1> HIDE DEF q
  <1>4. [q EXCEPT !.pc = "refused", !.bearer = b, !.refusal = refusal] \in Request
    BY <1>1 DEF Request
  <1> QED
    BY <1>2, <1>3, <1>4

\* The context of a request is bound to its bearer and to whom it names.
LEMMA BindKeeps ==
  ASSUME AdmitInv, NEW r \in Requests, NEW b \in Tokens \cup {NoToken}, NEW who \in Users \cup {NoUser},
         Bind(r, b, who), OnlyRequest, SentOf(req[r]), cfg.mode # "oauth2" => req[r].sent = Unsent,
         who # NoUser => IF cfg.mode = "oauth2" THEN who = named
                         ELSE b # NoToken /\ who = Claims[b].subject
  PROVE  AdmitInv'
  <1>1. req' \in [Requests -> Request]
    <2>1. req[r] \in Request /\ req \in [Requests -> Request]
      BY DEF AdmitInv, TypeOK
    <2>3. req'[r] \in Request
      BY <2>1, RequestBound
    <2> QED
      BY <2>1, <2>3 DEF Bind
  <1>2. \A s \in Requests : s # r => req'[s] = req[s]
    BY DEF Bind, AdmitInv, TypeOK
  <1>3. /\ req'[r].pc = "serving" /\ req'[r].user = who /\ req'[r].sent = req[r].sent
        /\ req'[r].bearer = b /\ req'[r].bound \in {NoToken, b}
    BY DEF Bind, AdmitInv, TypeOK, Request
  <1>4. KnownOf(req[r])' /\ SentOf(req[r])'
    BY <1>3 DEF KnownOf, SentOf, OnlyRequest
  <1> QED
    BY <1>1, <1>2, <1>3, <1>4, OneRequest

LEMMA RefuseKeeps ==
  ASSUME AdmitInv, NEW r \in Requests, NEW b \in Tokens \cup {NoToken}, NEW refusal \in Refusals,
         Refuse(r, b, refusal), OnlyRequest, req[r].pc \in {"new", "waiting", "signing"}
  PROVE  AdmitInv'
  <1>1. req' \in [Requests -> Request]
    <2>1. req[r] \in Request /\ req \in [Requests -> Request]
      BY DEF AdmitInv, TypeOK
    <2>2. req'[r] \in Request
      BY <2>1 DEF Refuse, Request, Steps, Served
    <2> QED
      BY <2>1, <2>2 DEF Refuse
  <1>2. \A s \in Requests : s # r => req'[s] = req[s]
    BY DEF Refuse, AdmitInv, TypeOK
  <1>3. /\ req'[r].pc = "refused" /\ req'[r].user = req[r].user /\ req'[r].sent = req[r].sent
        /\ req'[r].bearer = b /\ req'[r].bound = req[r].bound
    BY DEF Refuse, AdmitInv, TypeOK, Request
  <1>4. KnownOf(req[r])' /\ SentOf(req[r])'
    BY <1>3 DEF KnownOf, SentOf, OnlyRequest, AdmitInv, Known, Fresh, Unsent, NoGrant
  <1> QED
    BY <1>1, <1>2, <1>3, <1>4, OneRequest

LEMMA ArriveKeeps ==
  ASSUME AdmitInv, NEW r \in Requests, NEW b \in Tokens \cup {NoToken}, Arrive(r, b)
  PROVE  AdmitInv'
  <1> DEFINE who == Verified(cfg, b, now)
  <1>1. who \in Users \cup {NoUser} /\ (who # NoUser => b # NoToken /\ who = Claims[b].subject)
    BY VerifiedSubject
  <1>2. req[r] = Fresh /\ cfg.mode # "oauth2" /\ OnlyRequest
    BY DEF Arrive, AdmitInv, Known, KnownOf, Starts, ModeStarts
  <1>3. req[r].pc = "new" /\ req[r].sent = Unsent /\ SentOf(req[r])
    BY <1>2 DEF Fresh, SentOf
  <1>4. CASE Refuse(r, b, Refusal(cfg, b, who))
    BY <1>2, <1>3, <1>4, RefusalTypes, RefuseKeeps
  <1>5. CASE Bind(r, b, who)
    BY <1>1, <1>2, <1>3, <1>5, BindKeeps
  <1> QED
    BY <1>4, <1>5 DEF Arrive

LEMMA CallKeeps ==
  ASSUME AdmitInv, NEW r \in Requests, Call(r)
  PROVE  AdmitInv'
  <1> DEFINE who == Verified(cfg, cfg.token, 0)
  <1>1. cfg.token \in Tokens \cup {NoToken}
    BY AdmissionAssumption DEF AdmitInv, TypeOK, Setting
  <1>2. who \in Users \cup {NoUser} /\ (who # NoUser => cfg.token # NoToken /\ who = Claims[cfg.token].subject)
    BY <1>1, VerifiedSubject
  <1>3. req[r] = Fresh /\ cfg.mode # "oauth2" /\ OnlyRequest /\ Bind(r, cfg.token, who)
    BY DEF Call, AdmitInv, Known, KnownOf
  <1>4. req[r].sent = Unsent /\ SentOf(req[r])
    BY <1>3 DEF Fresh, SentOf
  <1> QED
    BY <1>1, <1>2, <1>3, <1>4, BindKeeps

LEMMA HandleKeeps ==
  ASSUME AdmitInv, NEW r \in Requests, NEW m, Handle(r, m)
  PROVE  AdmitInv'
  <1>1. cfg.token \in Tokens \cup {NoToken}
    BY AdmissionAssumption DEF AdmitInv, TypeOK, Setting
  <1>2. req[r] = Fresh /\ cfg.mode = "oauth2" /\ OnlyRequest
    BY DEF Handle, AdmitInv, Known, KnownOf
  <1>3. req[r].sent = Unsent /\ SentOf(req[r]) /\ req[r].user = NoUser /\ req[r].bound = NoToken
    BY <1>2 DEF Fresh, SentOf
  <1>4. CASE Bind(r, cfg.token, NoUser)
    BY <1>1, <1>2, <1>3, <1>4, BindKeeps
  <1>5. CASE req' = [req EXCEPT ![r].pc = "waiting", ![r].bearer = cfg.token]
    <2>1. req[r] \in Request /\ req \in [Requests -> Request]
      BY DEF AdmitInv, TypeOK
    <2>2. req'[r] \in Request
      BY <2>1, <1>5, <1>1 DEF Request, Steps, Served
    <2>3. req' \in [Requests -> Request] /\ \A s \in Requests : s # r => req'[s] = req[s]
      BY <2>1, <2>2, <1>5
    <2>4. /\ req'[r].pc = "waiting" /\ req'[r].user = NoUser /\ req'[r].sent = Unsent
          /\ req'[r].bound = NoToken
      BY <2>1, <1>3, <1>5 DEF Request
    <2>5. KnownOf(req[r])' /\ SentOf(req[r])'
      BY <2>4, <1>2 DEF KnownOf, SentOf, OnlyRequest
    <2> QED
      BY <1>2, <2>3, <2>4, <2>5, OneRequest
  <1> QED
    BY <1>4, <1>5 DEF Handle

\* A call that was served a caller, or refused one, keeps to its type.
LEMMA AdmitTypes ==
  ASSUME AdmitInv, NEW r \in Requests, NEW who \in Users \cup {NoUser}, Admit(r, who),
         req[r].pc \in {"waiting", "signing"}
  PROVE  /\ req' \in [Requests -> Request]
         /\ \A s \in Requests : s # r => req'[s] = req[s]
         /\ req'[r].pc \in {"serving", "refused"}
         /\ req'[r].user \in {who, NoUser} /\ req'[r].sent = Unsent
         /\ req'[r].bound \in {NoToken, req'[r].bearer}
  <1>1. cfg.token \in Tokens \cup {NoToken}
    BY AdmissionAssumption DEF AdmitInv, TypeOK, Setting
  <1>2. req[r] \in Request /\ req \in [Requests -> Request]
    BY DEF AdmitInv, TypeOK
  <1>3. req[r].user = NoUser /\ req[r].bound = NoToken /\ req[r].sent = Unsent
    BY DEF AdmitInv, Known, KnownOf
  <1>4. ASSUME NEW refusal \in Refusals, Refuse(r, cfg.token, refusal)
        PROVE  /\ req'[r] \in Request /\ req'[r].pc = "refused" /\ req'[r].user = NoUser
               /\ req'[r].sent = Unsent /\ req'[r].bound = NoToken
               /\ req' = [req EXCEPT ![r] = req'[r]]
    <2>1. req'[r] = [req[r] EXCEPT !.pc = "refused", !.bearer = cfg.token, !.refusal = refusal]
      BY <1>2, <1>4 DEF Refuse
    <2>2. req'[r].pc = "refused" /\ req'[r].user = NoUser /\ req'[r].sent = Unsent /\ req'[r].bound = NoToken
      BY <2>1, <1>2, <1>3 DEF Request
    <2>3. req'[r] \in Request /\ req' = [req EXCEPT ![r] = req'[r]]
      BY <1>1, <1>2, <1>4, RequestRefused
    <2> QED
      BY <2>2, <2>3
  <1>5. ASSUME Bind(r, cfg.token, who)
        PROVE  /\ req'[r] \in Request /\ req'[r].pc = "serving" /\ req'[r].user = who
               /\ req'[r].sent = Unsent /\ req'[r].bound \in {NoToken, req'[r].bearer}
               /\ req' = [req EXCEPT ![r] = req'[r]]
    <2>1. req'[r] = [req[r] EXCEPT !.pc = "serving", !.bearer = cfg.token, !.user = who,
                                   !.bound = IF who = NoUser THEN NoToken ELSE cfg.token]
      BY <1>2, <1>5 DEF Bind
    <2>2. /\ req'[r].pc = "serving" /\ req'[r].user = who /\ req'[r].bearer = cfg.token
          /\ req'[r].bound = IF who = NoUser THEN NoToken ELSE cfg.token
          /\ req'[r].sent = req[r].sent
      BY <2>1, <1>2 DEF Request
    <2>3. req'[r] \in Request /\ req' = [req EXCEPT ![r] = req'[r]]
      BY <1>1, <1>2, <1>5, RequestBound
    <2> QED
      BY <2>2, <2>3, <1>3
  <1>6. PolicyRefusal(cfg, cfg.token, who, "", {}) \in Refusals
    BY RefusalTypes
  <1>7. CASE \E refusal \in Refusals : Refuse(r, cfg.token, refusal)
    BY <1>2, <1>4, <1>7
  <1>8. CASE Bind(r, cfg.token, who)
    BY <1>2, <1>5, <1>8
  <1> QED
    BY <1>6, <1>7, <1>8 DEF Admit

LEMMA SignInKeeps ==
  ASSUME AdmitInv, NEW r \in Requests, SignIn(r)
  PROVE  AdmitInv'
  <1>1. /\ req[r].pc = "waiting" /\ lock = {} /\ req[r] \in Request /\ req \in [Requests -> Request]
        /\ named \in Users \cup {NoUser} /\ cfg.mode = "oauth2"
        /\ req[r].user = NoUser /\ req[r].sent = Unsent /\ req[r].bound = NoToken
    BY DEF SignIn, AdmitInv, TypeOK, Known, KnownOf
  <1>2. CASE Admit(r, named) /\ OnlyRequest
    <2>1. KnownOf(req[r])' /\ SentOf(req[r])'
      BY <1>1, <1>2, AdmitTypes DEF KnownOf, SentOf, OnlyRequest
    <2> QED
      BY <1>1, <1>2, <2>1, AdmitTypes, OneRequest
  <1>3. CASE named = NoUser /\ Go(r, "signing") /\ lock' = {r} /\ UNCHANGED <<cfg, now, cache, named>>
    <2>1. /\ req' \in [Requests -> Request]
          /\ \A s \in Requests : s # r => req'[s] = req[s]
          /\ req'[r].pc = "signing" /\ req'[r].user = NoUser /\ req'[r].sent = Unsent
          /\ req'[r].bound = NoToken
      <3>1. [req[r] EXCEPT !.pc = "signing"] \in Request
        BY <1>1 DEF Request, Steps, Served
      <3> QED
        BY <3>1, <1>1, <1>3 DEF Go, Request
    <2>2. KnownOf(req[r])' /\ SentOf(req[r])'
      BY <1>1, <1>3, <2>1 DEF KnownOf, SentOf
    <2>3. \A s \in Requests : s # r => KnownOf(req[s])' /\ SentOf(req[s])' /\ req[s].pc # "signing"
      BY <1>1, <1>3, <2>1 DEF AdmitInv, Known, KnownOf, SentOf, Signing
    <2>4. Known' /\ Signing'
      BY <1>3, <2>1, <2>2, <2>3 DEF Known, Signing
    <2> QED
      BY <1>3, <2>1, <2>4 DEF AdmitInv, TypeOK, CachedTokenLives
  <1> QED
    BY <1>2, <1>3 DEF SignIn, OnlyRequest

LEMMA NamedKeeps ==
  ASSUME AdmitInv, NEW r \in Requests, NEW who \in Users \cup {NoUser}, Named(r, who)
  PROVE  AdmitInv'
  <1>1. /\ req[r].pc = "signing" /\ lock = {r} /\ named = NoUser /\ cfg.mode = "oauth2"
        /\ req[r] \in Request /\ req \in [Requests -> Request]
        /\ req[r].user = NoUser /\ req[r].sent = Unsent /\ req[r].bound = NoToken
        /\ cfg.token \in Tokens \cup {NoToken}
    BY AdmissionAssumption DEF Named, AdmitInv, TypeOK, Known, KnownOf, Signing, Setting
  <1>2. UNCHANGED <<cfg, now, cache>> /\ lock' = {} /\ named' \in Users \cup {NoUser}
    BY <1>1 DEF Named
  <1>3. /\ req' \in [Requests -> Request]
        /\ \A s \in Requests : s # r => req'[s] = req[s]
        /\ req'[r].pc \in {"serving", "refused"} /\ req'[r].user \in {named', NoUser}
        /\ req'[r].sent = Unsent /\ req'[r].bound \in {NoToken, req'[r].bearer}
    <2>1. CASE who # NoUser
      <3>1. named' = who /\ Admit(r, who)
        BY <2>1 DEF Named
      <3> QED
        BY <3>1, <1>1, AdmitTypes
    <2>2. CASE who = NoUser
      <3>1. Refuse(r, cfg.token, Unauthenticated(NoToken)) /\ Unauthenticated(NoToken) \in Refusals
        BY <2>2 DEF Named, Unauthenticated, Refusals
      <3>2. /\ req' = [req EXCEPT ![r] = req'[r]]
            /\ req'[r] = [req[r] EXCEPT !.pc = "refused", !.bearer = cfg.token,
                                       !.refusal = Unauthenticated(NoToken)]
        BY <3>1, <1>1 DEF Refuse
      <3>3. cfg.token \in Tokens \cup {NoToken}
        BY AdmissionAssumption DEF AdmitInv, TypeOK, Setting
      <3>4. req'[r] \in Request
        BY <3>1, <3>3, <1>1, RequestRefused
      <3>5. /\ req'[r].pc = "refused" /\ req'[r].user = NoUser
            /\ req'[r].sent = Unsent /\ req'[r].bound = NoToken
        BY <3>2, <1>1 DEF Request
      <3> QED
        BY <3>2, <3>4, <3>5, <1>1
    <2> QED
      BY <2>1, <2>2
  <1>4. KnownOf(req[r])' /\ SentOf(req[r])'
    BY <1>1, <1>2, <1>3 DEF KnownOf, SentOf
  <1>5. \A s \in Requests : s # r => KnownOf(req[s])' /\ SentOf(req[s])' /\ req[s].pc # "signing"
    BY <1>1, <1>2, <1>3 DEF AdmitInv, Known, KnownOf, SentOf, Signing
  <1>6. Known' /\ Signing'
    BY <1>3, <1>4, <1>5 DEF Known, Signing
  <1> QED
    BY <1>2, <1>3, <1>6 DEF AdmitInv, TypeOK, CachedTokenLives

LEMMA GiveUpKeeps ==
  ASSUME AdmitInv, NEW r \in Requests, GiveUp(r)
  PROVE  AdmitInv'
  <1>1. /\ req[r] \in Request /\ req \in [Requests -> Request] /\ lock' = lock \ {r}
        /\ req[r].user = NoUser /\ req[r].sent = Unsent /\ req[r].bound = NoToken
        /\ UNCHANGED <<cfg, now, cache, named>>
    BY DEF GiveUp, AdmitInv, TypeOK, Known, KnownOf
  <1>2. [req[r] EXCEPT !.pc = "ended"] \in Request
    BY <1>1 DEF Request, Steps, Served
  <1>3. /\ req' \in [Requests -> Request]
        /\ \A s \in Requests : s # r => req'[s] = req[s]
        /\ req'[r].pc = "ended" /\ req'[r].user = NoUser /\ req'[r].sent = Unsent /\ req'[r].bound = NoToken
    BY <1>1, <1>2 DEF GiveUp, Go, Request
  <1>4. KnownOf(req[r])' /\ SentOf(req[r])'
    BY <1>1, <1>3 DEF KnownOf, SentOf
  <1>5. \A s \in Requests : s # r => KnownOf(req[s])' /\ SentOf(req[s])'
    BY <1>1, <1>3 DEF AdmitInv, Known, KnownOf, SentOf
  <1>6. Known'
    BY <1>3, <1>4, <1>5 DEF Known
  <1>7. Signing'
    BY <1>1, <1>3 DEF AdmitInv, Signing
  <1> QED
    BY <1>1, <1>3, <1>6, <1>7 DEF AdmitInv, TypeOK, CachedTokenLives

\* A statement that begins, is refused, or goes to Trino touches its own request only.
LEMMA RunKeeps ==
  ASSUME AdmitInv, NEW r \in Requests, NEW sql \in Asked[cfg] \cup {ServerSql}, Run(r, sql) \/ NoCaller(r)
  PROVE  AdmitInv'
  <1>1. /\ req[r] \in Request /\ req \in [Requests -> Request] /\ cfg \in Settings
        /\ KnownOf(req[r]) /\ SentOf(req[r]) /\ OnlyRequest
    BY DEF Run, NoCaller, AdmitInv, TypeOK, Known
  <1>2. sql \in Sqls
    BY <1>1 DEF Sqls
  <1>3. /\ [req[r] EXCEPT !.pc = "running", !.sql = sql] \in Request
        /\ [req[r] EXCEPT !.pc = "serving"] \in Request
    BY <1>1, <1>2 DEF Request, Steps, Served
  <1>4. /\ req' \in [Requests -> Request] /\ \A s \in Requests : s # r => req'[s] = req[s]
        /\ req'[r].pc \in {"running", "serving"} /\ req'[r].user = req[r].user
        /\ req'[r].bearer = req[r].bearer /\ req'[r].bound = req[r].bound /\ req'[r].sent = req[r].sent
    <2>1. CASE Run(r, sql)
      BY <1>1, <1>3, <2>1 DEF Run, Request
    <2>2. CASE NoCaller(r)
      BY <1>1, <1>3, <2>2 DEF NoCaller, Go, Request
    <2> QED
      BY <2>1, <2>2
  <1>5. KnownOf(req[r])' /\ SentOf(req[r])'
    BY <1>1, <1>4 DEF KnownOf, SentOf, OnlyRequest
  <1> QED
    BY <1>1, <1>4, <1>5, OneRequest

\* A statement that reaches Trino does as its caller.
LEMMA SendKeeps ==
  ASSUME AdmitInv, NEW r \in Requests, NEW grant \in Grant, Send(r, grant),
         cfg.mode = "jwt", req[r].user # NoUser, grant.for = req[r].bearer
  PROVE  /\ req' \in [Requests -> Request] /\ \A s \in Requests : s # r => req'[s] = req[s]
         /\ req'[r].pc = "serving"
         /\ UNCHANGED <<cfg, now, named>> => KnownOf(req[r])' /\ SentOf(req[r])'
  <1>1. /\ req[r] \in Request /\ req \in [Requests -> Request] /\ KnownOf(req[r])
    BY DEF AdmitInv, TypeOK, Known
  <1> DEFINE sent == [user |-> req[r].user, for |-> grant.for, sql |-> req[r].sql]
  <1>2. sent \in [user : Users \cup {NoUser, Server}, for : Tokens \cup {NoToken}, sql : Sqls]
    BY <1>1 DEF Request, Grant
  <1>3. req'[r] = [req[r] EXCEPT !.pc = "serving", !.at = 0, !.grant = NoGrant, !.sent = sent]
    BY <1>1 DEF Send
  <1>4. req'[r] \in Request
    <2>1. ASSUME NEW x \in [user : Users \cup {NoUser, Server}, for : Tokens \cup {NoToken}, sql : Sqls]
          PROVE  [req[r] EXCEPT !.pc = "serving", !.at = 0, !.grant = NoGrant, !.sent = x] \in Request
      <3> DEFINE Traces == [user : Users \cup {NoUser, Server}, for : Tokens \cup {NoToken}, sql : Sqls]
      <3>1. x \in Traces /\ Request = [pc : Steps, bearer : Tokens \cup {NoToken}, user : Users \cup {NoUser},
                        bound : Tokens \cup {NoToken}, sql : Sqls, at : Nat, grant : Grant \cup {NoGrant},
                        sent : Traces, refusal : Refusals]
        BY DEF Request
      <3> HIDE DEF Traces
      <3> QED
        BY <1>1, <3>1 DEF Steps, Served
    <2> QED
      BY <1>2, <1>3, <2>1
  <1>5. /\ req' \in [Requests -> Request] /\ \A s \in Requests : s # r => req'[s] = req[s]
        /\ req'[r].pc = "serving" /\ req'[r].user = req[r].user
        /\ req'[r].bearer = req[r].bearer /\ req'[r].bound = req[r].bound
        /\ req'[r].sent.user = req[r].user /\ req'[r].sent.for = grant.for
    BY <1>1, <1>3, <1>4 DEF Send, Request
  <1>6. ASSUME UNCHANGED <<cfg, now, named>>
        PROVE  KnownOf(req[r])' /\ SentOf(req[r])'
    BY <1>1, <1>5, <1>6 DEF KnownOf, SentOf
  <1> QED
    BY <1>5, <1>6

LEMMA AskTokenKeeps ==
  ASSUME AdmitInv, NEW r \in Requests, AskToken(r)
  PROVE  AdmitInv'
  <1>1. /\ req[r] \in Request /\ req \in [Requests -> Request] /\ now \in Nat
        /\ KnownOf(req[r]) /\ SentOf(req[r]) /\ OnlyRequest
        /\ cfg.mode = "jwt" /\ req[r].bound # NoToken /\ req[r].user # NoUser
    BY DEF AskToken, AdmitInv, TypeOK, Known
  <1>2. ASSUME NEW e \in Cached(r), Send(r, e.grant)
        PROVE  AdmitInv'
    <2>1. e.grant \in Grant /\ e.grant.for = req[r].bearer
      BY <1>1 DEF Cached, Of, AdmitInv, TypeOK, CachedTokenLives, KnownOf
    <2> QED
      BY <1>1, <1>2, <2>1, SendKeeps, OneRequest DEF OnlyRequest
  <1>3. CASE req' = [req EXCEPT ![r].pc = "asking", ![r].at = now]
    <2>1. [req[r] EXCEPT !.pc = "asking", !.at = now] \in Request
      BY <1>1 DEF Request, Steps, Served
    <2>2. /\ req' \in [Requests -> Request] /\ \A s \in Requests : s # r => req'[s] = req[s]
          /\ req'[r].pc = "asking" /\ req'[r].user = req[r].user /\ req'[r].at = now
          /\ req'[r].bearer = req[r].bearer /\ req'[r].bound = req[r].bound /\ req'[r].sent = req[r].sent
      BY <1>1, <1>3, <2>1 DEF Request
    <2>3. KnownOf(req[r])' /\ SentOf(req[r])'
      BY <1>1, <2>2 DEF KnownOf, SentOf, OnlyRequest
    <2> QED
      BY <1>1, <2>2, <2>3, OneRequest
  <1> QED
    BY <1>2, <1>3 DEF AskToken

LEMMA IssueKeeps ==
  ASSUME AdmitInv, NEW r \in Requests, NEW life \in Lifetimes, Issue(r, life)
  PROVE  AdmitInv'
  <1>1. /\ req[r] \in Request /\ req \in [Requests -> Request] /\ now \in Nat /\ life \in Nat
        /\ KnownOf(req[r]) /\ SentOf(req[r]) /\ OnlyRequest /\ req[r].bound \in Tokens
        /\ cfg.mode = "jwt" /\ req[r].bound # NoToken /\ req[r].user # NoUser /\ req[r].at <= now
    BY AdmissionAssumption DEF Issue, AdmitInv, TypeOK, Known, KnownOf, Request
  <1> DEFINE grant == [for |-> req[r].bound, exp |-> now + life, life |-> life]
  <1>2. grant \in Grant
    BY <1>1 DEF Grant
  <1>3. req'[r] = [req[r] EXCEPT !.pc = "issued", !.grant = grant]
    BY <1>1 DEF Issue
  <1>4. req'[r] \in Request
    <2>1. ASSUME NEW x \in Grant
          PROVE  [req[r] EXCEPT !.pc = "issued", !.grant = x] \in Request
      BY <1>1 DEF Request, Steps, Served
    <2> QED
      BY <1>2, <1>3, <2>1
  <1>5. /\ req' \in [Requests -> Request] /\ \A s \in Requests : s # r => req'[s] = req[s]
        /\ req'[r].pc = "issued" /\ req'[r].user = req[r].user /\ req'[r].at = req[r].at
        /\ req'[r].bearer = req[r].bearer /\ req'[r].bound = req[r].bound /\ req'[r].sent = req[r].sent
        /\ req'[r].grant = grant /\ req[r].at \in Nat
    BY <1>1, <1>3, <1>4 DEF Issue, Request
  <1>6. grant.exp >= req[r].at + grant.life /\ grant.for = req[r].bound
    BY <1>1, <1>5
  <1>7. KnownOf(req[r])' /\ SentOf(req[r])'
    BY <1>1, <1>2, <1>5, <1>6 DEF KnownOf, SentOf, OnlyRequest
  <1> QED
    BY <1>1, <1>5, <1>7, OneRequest

LEMMA FailKeeps ==
  ASSUME AdmitInv, NEW r \in Requests, ExchangeFails(r)
  PROVE  AdmitInv'
  <1>1. /\ req[r] \in Request /\ req \in [Requests -> Request]
        /\ KnownOf(req[r]) /\ SentOf(req[r]) /\ OnlyRequest
    BY DEF ExchangeFails, AdmitInv, TypeOK, Known
  <1>2. [req[r] EXCEPT !.pc = "serving", !.at = 0, !.grant = NoGrant] \in Request
    BY <1>1 DEF Request, Steps, Served
  <1>3. /\ req' \in [Requests -> Request] /\ \A s \in Requests : s # r => req'[s] = req[s]
        /\ req'[r].pc = "serving" /\ req'[r].user = req[r].user
        /\ req'[r].bearer = req[r].bearer /\ req'[r].bound = req[r].bound /\ req'[r].sent = req[r].sent
    BY <1>1, <1>2 DEF ExchangeFails, Request
  <1>4. KnownOf(req[r])' /\ SentOf(req[r])'
    BY <1>1, <1>3 DEF KnownOf, SentOf, OnlyRequest
  <1> QED
    BY <1>1, <1>3, <1>4, OneRequest

LEMMA ConnectKeeps ==
  ASSUME AdmitInv, NEW r \in Requests, Connect(r)
  PROVE  AdmitInv'
  <1>1. /\ req[r] \in Request /\ req \in [Requests -> Request] /\ named \in Users \cup {NoUser}
        /\ KnownOf(req[r]) /\ OnlyRequest /\ cfg.mode # "jwt" /\ (cfg.mode # "service" => req[r].user # NoUser)
    BY DEF Connect, AdmitInv, TypeOK, Known
  <1> DEFINE user == IF cfg.mode = "service" THEN Server ELSE req[r].user
             sent == [user |-> user, for |-> NoToken, sql |-> req[r].sql]
  <1>2. sent \in [user : Users \cup {NoUser, Server}, for : Tokens \cup {NoToken}, sql : Sqls]
    BY <1>1 DEF Request
  <1>3. req'[r] = [req[r] EXCEPT !.pc = "serving", !.sent = sent]
    BY <1>1 DEF Connect
  <1>4. req'[r] \in Request
    BY <1>1, <1>2, <1>3 DEF Request, Steps, Served
  <1>5. /\ req' \in [Requests -> Request] /\ \A s \in Requests : s # r => req'[s] = req[s]
        /\ req'[r].pc = "serving" /\ req'[r].user = req[r].user
        /\ req'[r].bearer = req[r].bearer /\ req'[r].bound = req[r].bound
        /\ req'[r].sent.user = user
    BY <1>1, <1>3, <1>4 DEF Connect, Request
  <1>6. KnownOf(req[r])' /\ SentOf(req[r])'
    BY <1>1, <1>5 DEF KnownOf, SentOf, OnlyRequest
  <1> QED
    BY <1>1, <1>5, <1>6, OneRequest

LEMMA EndKeeps ==
  ASSUME AdmitInv, NEW r \in Requests, End(r)
  PROVE  AdmitInv'
  <1>1. [Fresh EXCEPT !.pc = "ended"] \in Request
    BY DEF Fresh, Request, Steps, Served, Unsent, NoGrant, NoRefusal, Refusals, Sqls
  <1>2. /\ req' \in [Requests -> Request] /\ \A s \in Requests : s # r => req'[s] = req[s]
        /\ req'[r].pc = "ended" /\ req'[r].user = NoUser /\ req'[r].sent = Unsent /\ req'[r].bound = NoToken
    BY <1>1 DEF End, Fresh, AdmitInv, TypeOK
  <1>3. KnownOf(req[r])' /\ SentOf(req[r])'
    BY <1>2 DEF KnownOf, SentOf, OnlyRequest
  <1> QED
    BY <1>2, <1>3, OneRequest DEF End

Entries == [key : Tokens, grant : Grant, until : Int, place : Nat]

\* What an entry promises of the token it keeps.
Lives(e) == e.until + Margin <= e.grant.exp /\ e.grant.for = e.key

\* Whatever goes, the entries that stay keep what they promise; only their places move.
LEMMA RankedKeeps ==
  ASSUME NEW es, es \subseteq Entries, IsFiniteSet(es), \A e \in es : Lives(e)
  PROVE  Ranked(es) \subseteq Entries /\ IsFiniteSet(Ranked(es)) /\ \A e \in Ranked(es) : Lives(e)
  <1> DEFINE At(e) == Cardinality({f \in es : f.place <= e.place})
  <1>1. \A e \in es : At(e) \in Nat
    BY FS_Subset, FS_CardinalityType
  <1>2. \A e \in es : [e EXCEPT !.place = At(e)] \in Entries /\ Lives([e EXCEPT !.place = At(e)])
    <2> SUFFICES ASSUME NEW e \in es, NEW n \in Nat
                 PROVE  [e EXCEPT !.place = n] \in Entries /\ Lives([e EXCEPT !.place = n])
      BY <1>1
    <2> QED
      BY DEF Entries, Lives
  <1>3. IsFiniteSet(Ranked(es))
    <2> DEFINE f == [e \in es |-> [e EXCEPT !.place = At(e)]]
    <2>1. f \in Surjection(es, Ranked(es))
      BY DEF Ranked, Surjection
    <2> QED
      BY <2>1, FS_Surjection
  <1> QED
    BY <1>2, <1>3 DEF Ranked

LEMMA StoredKeeps ==
  ASSUME AdmitInv, NEW r \in Requests, req[r].pc = "issued"
  PROVE  /\ Stored(cache, r) \subseteq Entries /\ IsFiniteSet(Stored(cache, r))
         /\ \A e \in Stored(cache, r) : Lives(e)
  <1> DEFINE at == req[r].at
             live == {e \in cache : e.until > at}
             room == {e \in Live(cache, at) : e.place > Cardinality(Live(cache, at)) - (CacheSize - 1)}
             kept == Room(Live(cache, at))
             until == at + req[r].grant.life - Margin
  <1>1. /\ req[r].bound \in Tokens /\ req[r].grant \in Grant /\ at \in Nat
        /\ req[r].grant.for = req[r].bound /\ req[r].grant.exp >= at + req[r].grant.life
        /\ req[r].grant.life \in Nat /\ req[r].grant.exp \in Nat /\ Margin \in Nat
    BY AdmissionAssumption DEF AdmitInv, TypeOK, Known, KnownOf, Request, Grant
  <1>2. live \subseteq Entries /\ IsFiniteSet(live) /\ \A e \in live : Lives(e)
    BY FS_Subset DEF AdmitInv, TypeOK, CachedTokenLives, Lives, Entries
  <1>3. /\ Live(cache, at) \subseteq Entries /\ IsFiniteSet(Live(cache, at))
        /\ \A e \in Live(cache, at) : Lives(e)
    BY <1>2, RankedKeeps DEF Live
  <1>4. room \subseteq Entries /\ IsFiniteSet(room) /\ \A e \in room : Lives(e)
    BY <1>3, FS_Subset
  <1>5. kept \subseteq Entries /\ IsFiniteSet(kept) /\ \A e \in kept : Lives(e)
    BY <1>4, RankedKeeps DEF Room
  <1>6. PlaceFor(kept, req[r].bound) \in Nat
    <2>1. Cardinality(kept) \in Nat
      BY <1>5, FS_CardinalityType
    <2>2. CASE Of(kept, req[r].bound) = {}
      BY <2>1, <2>2 DEF PlaceFor
    <2>3. CASE Of(kept, req[r].bound) # {}
      <3>1. (CHOOSE e \in Of(kept, req[r].bound) : TRUE) \in kept
        BY <2>3 DEF Of
      <3> QED
        BY <3>1, <2>3, <1>5 DEF PlaceFor, Entries
    <2> QED
      BY <2>2, <2>3
  <1> DEFINE entry == [key |-> req[r].bound, grant |-> req[r].grant, until |-> until,
                       place |-> PlaceFor(kept, req[r].bound)]
  <1>7. entry \in Entries /\ Lives(entry)
    BY <1>1, <1>6 DEF Entries, Lives
  <1>8. IsFiniteSet((kept \ Of(kept, req[r].bound)) \cup {entry})
    BY <1>5, FS_Subset, FS_Singleton, FS_Union
  <1>9. Stored(cache, r) = kept \/ Stored(cache, r) = (kept \ Of(kept, req[r].bound)) \cup {entry}
    BY DEF Stored, Kept
  <1> QED
    BY <1>5, <1>7, <1>8, <1>9

LEMMA StoreKeeps ==
  ASSUME AdmitInv, NEW r \in Requests, Store(r)
  PROVE  AdmitInv'
  <1>1. /\ req[r].pc = "issued" /\ cache' = Stored(cache, r) /\ Send(r, req[r].grant)
        /\ UNCHANGED <<cfg, now, named, lock>>
    BY DEF Store
  <1>2. /\ cfg.mode = "jwt" /\ req[r].user # NoUser /\ req[r].grant \in Grant
        /\ req[r].grant.for = req[r].bearer
    BY <1>1 DEF AdmitInv, Known, KnownOf
  <1>3. /\ req' \in [Requests -> Request] /\ \A s \in Requests : s # r => req'[s] = req[s]
        /\ req'[r].pc = "serving" /\ KnownOf(req[r])' /\ SentOf(req[r])'
    BY <1>1, <1>2, SendKeeps
  <1>4. \A s \in Requests : s # r => KnownOf(req[s])' /\ SentOf(req[s])'
    BY <1>1, <1>3 DEF AdmitInv, Known, KnownOf, SentOf
  <1>5. Known'
    BY <1>3, <1>4 DEF Known
  <1>6. Signing'
    BY <1>1, <1>3 DEF AdmitInv, Signing
  <1>7. TypeOK' /\ IsFiniteSet(cache)' /\ CachedTokenLives'
    BY <1>1, <1>3, StoredKeeps DEF AdmitInv, TypeOK, CachedTokenLives, Lives, Entries
  <1> QED
    BY <1>1, <1>5, <1>6, <1>7 DEF AdmitInv

LEMMA TickKeeps ==
  ASSUME AdmitInv, Tick
  PROVE  AdmitInv'
  <1>1. now \in Nat /\ now' = now + 1 /\ UNCHANGED <<cfg, req, cache, named, lock>>
    BY DEF Tick, AdmitInv, TypeOK
  <1>2. \A s \in Requests : KnownOf(req[s])' /\ SentOf(req[s])'
    BY <1>1 DEF AdmitInv, TypeOK, Known, KnownOf, SentOf, Request
  <1> QED
    BY <1>1, <1>2 DEF AdmitInv, TypeOK, Known, Signing, CachedTokenLives

LEMMA AdmitStep == AdmitInv /\ [Next]_vars => AdmitInv'
  <1> SUFFICES ASSUME AdmitInv, [Next]_vars
               PROVE  AdmitInv'
    OBVIOUS
  <1>1. CASE UNCHANGED vars
    BY <1>1 DEF vars, AdmitInv, TypeOK, Known, KnownOf, SentOf, Signing, CachedTokenLives
  <1>2. ASSUME NEW r \in Requests,
               \/ \E b \in Tokens \cup {NoToken} : Arrive(r, b)
               \/ Call(r)
               \/ \E m \in Discovery \cup {"tools/call"} : Handle(r, m)
        PROVE  AdmitInv'
    BY <1>2, ArriveKeeps, CallKeeps, HandleKeeps
  <1>3. ASSUME NEW r \in Requests,
               SignIn(r) \/ (\E who \in Users \cup {NoUser} : Named(r, who)) \/ GiveUp(r)
        PROVE  AdmitInv'
    BY <1>3, SignInKeeps, NamedKeeps, GiveUpKeeps
  <1>4. ASSUME NEW r \in Requests,
               \/ \E sql \in Asked[cfg] \cup {ServerSql} : Run(r, sql)
               \/ NoCaller(r)
               \/ Connect(r)
               \/ End(r)
        PROVE  AdmitInv'
    <2>1. ASSUME NoCaller(r) PROVE AdmitInv'
      BY <2>1, RunKeeps
    <2> QED
      BY <1>4, <2>1, RunKeeps, ConnectKeeps, EndKeeps
  <1>5. ASSUME NEW r \in Requests,
               \/ AskToken(r)
               \/ \E life \in Lifetimes : Issue(r, life)
               \/ ExchangeFails(r)
               \/ Store(r)
        PROVE  AdmitInv'
    BY <1>5, AskTokenKeeps, IssueKeeps, FailKeeps, StoreKeeps
  <1>6. CASE Tick
    BY <1>6, TickKeeps
  <1>7. CASE Finished
    BY <1>1, <1>7 DEF Finished
  <1> QED
    BY <1>1, <1>2, <1>3, <1>4, <1>5, <1>6, <1>7 DEF Next

LEMMA AdmitInvariant == Spec => []AdmitInv
  BY AdmitInit, AdmitStep, PTL DEF Spec

\* What an exchange stores and what a request holds keep to their types.
THEOREM AdmissionTyped == Spec => []TypeOK
  BY AdmitInvariant, PTL DEF AdmitInv

\* Whatever the other calls do, a statement reaches Trino as its own caller.
THEOREM RunsAsCallerHolds == Spec => []RunsAsCaller
  <1>1. AdmitInv => RunsAsCaller
    BY DEF AdmitInv, Known, SentOf, RunsAsCaller
  <1> QED
    BY <1>1, AdmitInvariant, PTL

\* A token of the cache lives for the margin at least, whoever stored it and when.
THEOREM CachedTokenLivesHolds == Spec => []CachedTokenLives
  BY AdmitInvariant, PTL DEF AdmitInv

\* The sign-in happens once.
THEOREM OneSignInHolds == Spec => []OneSignIn
  <1>1. AdmitInv => OneSignIn
    <2> SUFFICES ASSUME AdmitInv
                 PROVE  OneSignIn
      OBVIOUS
    <2> DEFINE signing == {r \in Requests : req[r].pc = "signing"}
    <2>1. signing = {} \/ \E r \in Requests : signing = {r}
      BY DEF AdmitInv, Signing
    <2>2. Cardinality(signing) <= 1
      <3>1. CASE signing = {}
        BY <3>1, FS_EmptySet
      <3>2. ASSUME NEW r, signing = {r} PROVE Cardinality(signing) <= 1
        <4>1. Cardinality({r}) = 1
          BY FS_Singleton
        <4> QED
          BY <3>2, <4>1
      <3> QED
        BY <2>1, <3>1, <3>2
    <2> QED
      BY <2>2 DEF OneSignIn, AdmitInv, Signing
  <1> QED
    BY <1>1, AdmitInvariant, PTL

-----------------------------------------------------------------------------
(* The door *)

Worth(b) == b # NoToken /\ Claims[b].genuine /\ Claims[b].aud \cap cfg.refused = {}

\* What the door promises of a request it let in, and of one it refused.
LetIn(b, who) ==
  /\ cfg.required \/ cfg.policy => who # NoUser
  /\ cfg.policy /\ cfg.clients # {} => Claims[b].client \in cfg.clients
  /\ cfg.policy => cfg.scopes \subseteq Claims[b].scopes
  /\ who # NoUser => Worth(b)

TurnedAway(b, refusal) ==
  /\ refusal.status = "403" => Worth(b) /\ ~(cfg.scopes \subseteq Claims[b].scopes)
  /\ refusal.status = "401" => (b = NoToken <=> refusal.error = "")

DoorOf(q) ==
  /\ q.pc \in Served => LetIn(q.bearer, q.user)
  /\ TurnedAway(q.bearer, q.refusal)

\* The guards let in, or turn away, as promised.
LEMMA GuardsDecide ==
  ASSUME NEW b \in Tokens \cup {NoToken}, NEW time
  PROVE  LET who == Verified(cfg, b, time)
         IN  /\ Refusal(cfg, b, who) = NoRefusal => LetIn(b, who)
             /\ TurnedAway(b, Refusal(cfg, b, who))
  <1> DEFINE who == Verified(cfg, b, time)
  <1>1. who # NoUser => Worth(b)
    BY DEF Verified, Worth
  <1>2. /\ Unauthenticated(b).status = "401" /\ (b = NoToken <=> Unauthenticated(b).error = "")
        /\ Unauthenticated(b).status # "403" /\ NoRefusal.status \notin {"401", "403"}
        /\ Unauthenticated(b) # NoRefusal
    BY DEF Unauthenticated, NoRefusal
  <1> DEFINE client401 == [status |-> "401", reason |-> "client_not_allowed", error |-> "invalid_token"]
             scope403 == [status |-> "403", reason |-> "insufficient_scope", error |-> "insufficient_scope"]
  <1>3. /\ client401.status # "403" /\ client401.error # "" /\ client401 # NoRefusal
        /\ scope403.status # "401" /\ scope403 # NoRefusal
    BY DEF NoRefusal
  <1> HIDE DEF who, client401, scope403
  <1>4. TurnedAway(b, NoRefusal) /\ TurnedAway(b, Unauthenticated(b))
    BY <1>2, Zenon DEF TurnedAway
  <1>5. who # NoUser => TurnedAway(b, client401)
    BY <1>1, <1>3, Zenon DEF TurnedAway, Worth
  <1>6. who # NoUser /\ ~(cfg.scopes \subseteq Claims[b].scopes) => TurnedAway(b, scope403)
    BY <1>1, <1>3, Zenon DEF TurnedAway
  <1>7. CASE who = NoUser
    <2>1. Refusal(cfg, b, who) = IF cfg.required \/ cfg.policy THEN Unauthenticated(b) ELSE NoRefusal
      BY <1>7 DEF Refusal, PolicyRefusal
    <2>2. TurnedAway(b, Refusal(cfg, b, who))
      BY <1>4, <2>1
    <2>3. ASSUME Refusal(cfg, b, who) = NoRefusal
          PROVE  ~cfg.required /\ ~cfg.policy
      BY <1>2, <2>1, <2>3
    <2>4. ASSUME Refusal(cfg, b, who) = NoRefusal
          PROVE  LetIn(b, who)
      BY <1>7, <2>3, <2>4 DEF LetIn
    <2> QED
      BY <2>2, <2>4, Zenon DEF who
  <1>8. CASE who # NoUser
    <2>1. Refusal(cfg, b, who) =
            IF ~cfg.policy THEN NoRefusal
            ELSE IF cfg.clients # {} /\ Claims[b].client \notin cfg.clients THEN client401
            ELSE IF ~(cfg.scopes \subseteq Claims[b].scopes) THEN scope403 ELSE NoRefusal
      BY <1>8 DEF Refusal, PolicyRefusal, client401, scope403
    <2>2. TurnedAway(b, Refusal(cfg, b, who))
      BY <1>4, <1>5, <1>6, <1>8, <2>1
    <2>3. ASSUME Refusal(cfg, b, who) = NoRefusal
          PROVE  LetIn(b, who)
      BY <1>1, <1>3, <1>8, <2>1, <2>3 DEF LetIn
    <2> QED
      BY <2>2, <2>3, Zenon DEF who
  <1> QED
    BY <1>7, <1>8 DEF who

\* Past the door a request keeps its bearer, its user and what it was told.
LEMMA PastTheDoor ==
  ASSUME AdmitInv, NEW r \in Requests,
         \/ \E sql \in Asked[cfg] \cup {ServerSql} : Run(r, sql)
         \/ NoCaller(r) \/ Connect(r) \/ AskToken(r) \/ ExchangeFails(r) \/ Store(r)
         \/ \E life \in Lifetimes : Issue(r, life)
  PROVE  /\ cfg' = cfg /\ req[r].pc \in Served
         /\ \A s \in Requests : s # r => req'[s] = req[s]
         /\ req'[r].bearer = req[r].bearer /\ req'[r].user = req[r].user
         /\ req'[r].refusal = req[r].refusal
  <1>1. req[r] \in Request /\ req \in [Requests -> Request]
    BY DEF AdmitInv, TypeOK
  <1> DEFINE Keeps == /\ \A s \in Requests : s # r => req'[s] = req[s]
                      /\ req'[r].bearer = req[r].bearer /\ req'[r].user = req[r].user
                      /\ req'[r].refusal = req[r].refusal
  <1>2. ASSUME NEW sql, Run(r, sql) PROVE Keeps /\ cfg' = cfg /\ req[r].pc \in Served
    BY <1>1, <1>2 DEF Run, OnlyRequest, Request, Served
  <1>3. CASE NoCaller(r)
    BY <1>1, <1>3 DEF NoCaller, Go, OnlyRequest, Request, Served
  <1>4. CASE Connect(r)
    BY <1>1, <1>4 DEF Connect, OnlyRequest, Request, Served
  <1>5. ASSUME NEW grant, Send(r, grant) PROVE Keeps
    BY <1>1, <1>5 DEF Send, Request
  <1>6. CASE AskToken(r)
    <2>1. cfg' = cfg /\ req[r].pc \in Served
      BY <1>6 DEF AskToken, OnlyRequest, Served
    <2>2. CASE req' = [req EXCEPT ![r].pc = "asking", ![r].at = now]
      BY <1>1, <2>1, <2>2 DEF Request
    <2>3. CASE \E e \in Cached(r) : Send(r, e.grant)
      BY <1>5, <2>1, <2>3
    <2> QED
      BY <1>6, <2>2, <2>3 DEF AskToken
  <1>7. CASE ExchangeFails(r)
    BY <1>1, <1>7 DEF ExchangeFails, OnlyRequest, Request, Served
  <1>8. CASE Store(r)
    BY <1>5, <1>8 DEF Store, Served
  <1>9. ASSUME NEW life, Issue(r, life) PROVE Keeps /\ cfg' = cfg /\ req[r].pc \in Served
    BY <1>1, <1>9 DEF Issue, OnlyRequest, Request, Served
  <1> QED
    BY <1>2, <1>3, <1>4, <1>6, <1>7, <1>8, <1>9

\* A server that asks for a verified caller serves nobody else, and says what is missing.
THEOREM DoorHoldsAlways == Spec => []DoorHolds
  <1> DEFINE Door == cfg.mode # "oauth2" => \A r \in Requests : DoorOf(req[r])
  <1>1. Door <=> DoorHolds
    BY DEF DoorHolds, DoorOf, LetIn, TurnedAway, Worth
  <1>2. \A b : TurnedAway(b, NoRefusal)
    BY DEF TurnedAway, NoRefusal
  <1>3. Init => Door
    BY <1>2 DEF Init, DoorOf, Fresh, Served
  <1>4. AdmitInv /\ Door /\ [Next]_vars => Door'
    <2> SUFFICES ASSUME AdmitInv, Door, [Next]_vars, (cfg.mode # "oauth2")'
                 PROVE  \A r \in Requests : DoorOf(req[r])'
      OBVIOUS
    <2>1. ASSUME UNCHANGED <<cfg, req>>
          PROVE  \A r \in Requests : DoorOf(req[r])'
      BY <2>1, Zenon DEF DoorOf, LetIn, TurnedAway, Worth
    <2>2. ASSUME NEW r \in Requests, cfg' = cfg, \A s \in Requests : s # r => req'[s] = req[s],
                 DoorOf(req[r])'
          PROVE  \A s \in Requests : DoorOf(req[s])'
      BY <2>2, ZenonT(60) DEF DoorOf, LetIn, TurnedAway, Worth
    <2>3. ASSUME NEW r \in Requests, NEW b \in Tokens \cup {NoToken}, NEW time,
                 LET who == Verified(cfg, b, time)
                 IN  \/ Refuse(r, b, Refusal(cfg, b, who))
                     \/ Refusal(cfg, b, who) = NoRefusal /\ Bind(r, b, who),
                 OnlyRequest, req[r] = Fresh
          PROVE  \A s \in Requests : DoorOf(req[s])'
      <3> DEFINE who == Verified(cfg, b, time)
      <3>1. req[r] \in Request /\ req \in [Requests -> Request]
        BY DEF AdmitInv, TypeOK
      <3>2. CASE Refuse(r, b, Refusal(cfg, b, who))
        <4> DEFINE refusal == Refusal(cfg, b, who)
        <4>0. TurnedAway(b, refusal)
          BY GuardsDecide
        <4> HIDE DEF refusal
        <4>1. /\ req'[r].pc = "refused" /\ req'[r].bearer = b /\ req'[r].refusal = refusal
              /\ \A s \in Requests : s # r => req'[s] = req[s]
          BY <3>1, <3>2 DEF Refuse, Request, refusal
        <4>2. DoorOf(req[r])'
          BY <2>3, <4>0, <4>1 DEF DoorOf, Served, OnlyRequest, TurnedAway, Worth
        <4> QED
          BY <2>2, <2>3, <4>1, <4>2 DEF OnlyRequest
      <3>3. CASE Refusal(cfg, b, who) = NoRefusal /\ Bind(r, b, who)
        <4>0. LetIn(b, who) /\ TurnedAway(b, NoRefusal)
          BY <1>2, <3>3, GuardsDecide
        <4>1. /\ req'[r].bearer = b /\ req'[r].user = who /\ req'[r].refusal = NoRefusal
              /\ \A s \in Requests : s # r => req'[s] = req[s]
          BY <2>3, <3>1, <3>3 DEF Bind, Request, Fresh
        <4> HIDE DEF who
        <4>2. DoorOf(req[r])'
          BY <2>3, <4>0, <4>1 DEF DoorOf, OnlyRequest, TurnedAway, LetIn, Worth
        <4> QED
          BY <2>2, <2>3, <4>1, <4>2 DEF OnlyRequest
      <3> QED
        BY <2>3, <3>2, <3>3
    <2>4. ASSUME NEW r \in Requests, NEW b \in Tokens \cup {NoToken}, Arrive(r, b)
          PROVE  \A s \in Requests : DoorOf(req[s])'
      <3>1. req[r] = Fresh /\ OnlyRequest
        BY <2>4 DEF Arrive, AdmitInv, Known, KnownOf
      <3> QED
        BY <2>3, <2>4, <3>1 DEF Arrive
    <2>5. ASSUME NEW r \in Requests, Call(r)
          PROVE  \A s \in Requests : DoorOf(req[s])'
      <3>1. cfg.token \in Tokens \cup {NoToken}
        BY AdmissionAssumption DEF AdmitInv, TypeOK, Setting
      <3>2. req[r] = Fresh /\ OnlyRequest /\ Refusal(cfg, cfg.token, Verified(cfg, cfg.token, 0)) = NoRefusal
        BY <2>5 DEF Call, AdmitInv, Known, KnownOf, Starts, StdioStarts
      <3> QED
        BY <2>3, <2>5, <3>1, <3>2 DEF Call
    <2>6. ASSUME NEW r \in Requests, End(r)
          PROVE  \A s \in Requests : DoorOf(req[s])'
      <3>1. /\ req'[r].pc = "ended" /\ req'[r].refusal = NoRefusal
            /\ \A s \in Requests : s # r => req'[s] = req[s]
        BY <2>6 DEF End, Fresh, AdmitInv, TypeOK
      <3>2. DoorOf(req[r])'
        <4>1. TurnedAway(req[r].bearer, req[r].refusal)'
          <5>1. NoRefusal.status = ""
            BY DEF NoRefusal
          <5> QED
            BY <3>1, <5>1, Zenon DEF TurnedAway
        <4> QED
          BY <3>1, <4>1 DEF DoorOf, Served
      <3> QED
        BY <2>2, <2>6, <3>1, <3>2 DEF End, OnlyRequest
    <2>7. ASSUME NEW r \in Requests,
                 \/ \E sql \in Asked[cfg] \cup {ServerSql} : Run(r, sql)
                 \/ NoCaller(r) \/ Connect(r) \/ AskToken(r) \/ ExchangeFails(r) \/ Store(r)
                 \/ \E life \in Lifetimes : Issue(r, life)
          PROVE  \A s \in Requests : DoorOf(req[s])'
      <3>1. /\ cfg' = cfg /\ req[r].pc \in Served /\ \A s \in Requests : s # r => req'[s] = req[s]
            /\ req'[r].bearer = req[r].bearer /\ req'[r].user = req[r].user /\ req'[r].refusal = req[r].refusal
        BY <2>7, PastTheDoor
      <3>2. DoorOf(req[r])'
        BY <3>1, Zenon DEF DoorOf, LetIn, TurnedAway, Worth
      <3> QED
        BY <2>2, <3>1, <3>2
    <2>8. ASSUME NEW r \in Requests,
                 \/ \E m \in Discovery \cup {"tools/call"} : Handle(r, m)
                 \/ SignIn(r) \/ GiveUp(r)
                 \/ \E who \in Users \cup {NoUser} : Named(r, who)
          PROVE  FALSE
      BY <2>8 DEF Handle, SignIn, GiveUp, Named, OnlyRequest, AdmitInv, Known, KnownOf
    <2> QED
      BY <2>1, <2>4, <2>5, <2>6, <2>7, <2>8 DEF Next, Tick, Finished, vars
  <1> QED
    BY <1>1, <1>3, <1>4, AdmitInvariant, PTL DEF Spec

-----------------------------------------------------------------------------
(* The bound of the cache *)

\* Each entry has a place of its own among as many places as there are entries, and
\* no bearer has two: what the order of a dict amounts to.
Placed(es) ==
  /\ IsFiniteSet(es) /\ es \subseteq Entries
  /\ \A e, f \in es : e.place = f.place => e = f
  /\ \A e, f \in es : e.key = f.key => e = f

Packed(es) == Placed(es) /\ \A e \in es : e.place \in 1 .. Cardinality(es)

\* Whatever went, the entries that stay are packed again, in the order they had.
LEMMA RankedPacks ==
  ASSUME NEW es, Placed(es)
  PROVE  Packed(Ranked(es)) /\ Cardinality(Ranked(es)) = Cardinality(es)
  <1> DEFINE Upto(e) == {f \in es : f.place <= e.place}
             At(e) == Cardinality(Upto(e))
             g == [e \in es |-> [e EXCEPT !.place = At(e)]]
  <1>1. \A e \in es : /\ IsFiniteSet(Upto(e)) /\ Upto(e) # {} /\ At(e) \in Nat
                      /\ At(e) >= 1 /\ At(e) <= Cardinality(es)
    <2> SUFFICES ASSUME NEW e \in es
                 PROVE  /\ IsFiniteSet(Upto(e)) /\ Upto(e) # {} /\ At(e) \in Nat
                        /\ At(e) >= 1 /\ At(e) <= Cardinality(es)
      OBVIOUS
    <2>1. IsFiniteSet(Upto(e)) /\ At(e) <= Cardinality(es)
      BY FS_Subset DEF Placed
    <2>2. e \in Upto(e)
      BY DEF Placed, Entries
    <2>3. At(e) \in Nat /\ At(e) # 0
      BY <2>1, <2>2, FS_CardinalityType, FS_EmptySet
    <2> QED
      BY <2>1, <2>2, <2>3
  <1>2. \A e, f \in es : e.place < f.place => At(e) < At(f)
    <2> SUFFICES ASSUME NEW e \in es, NEW f \in es, e.place < f.place
                 PROVE  At(e) < At(f)
      OBVIOUS
    <2>1. Upto(e) \subseteq Upto(f) /\ f \in Upto(f) /\ f \notin Upto(e)
      BY DEF Placed, Entries
    <2>2. At(e) <= At(f) /\ (At(f) = At(e) => Upto(f) = Upto(e))
      BY <1>1, <2>1, FS_Subset
    <2>3. At(e) \in Nat /\ At(f) \in Nat /\ At(e) # At(f)
      BY <1>1, <2>1, <2>2
    <2> HIDE DEF At
    <2> QED
      BY <2>2, <2>3
  <1>3. \A e \in es : g[e].place = At(e) /\ g[e].key = e.key /\ g[e] \in Entries
    <2> SUFFICES ASSUME NEW e \in es, NEW n \in Nat
                 PROVE  LET h == [e EXCEPT !.place = n] IN h.place = n /\ h.key = e.key /\ h \in Entries
      BY <1>1
    <2> QED
      BY DEF Placed, Entries
  <1> HIDE DEF At, Upto
  <1>4. \A e, f \in es : At(e) = At(f) => e = f
    BY <1>1, <1>2 DEF Placed, Entries
  <1>5. g \in Surjection(es, Ranked(es)) /\ g \in Injection(es, Ranked(es))
    <2>1. g \in [es -> Ranked(es)] /\ \A y \in Ranked(es) : \E e \in es : g[e] = y
      BY DEF Ranked, At, Upto
    <2> HIDE DEF g
    <2>2. \A e, f \in es : g[e] = g[f] => e = f
      BY <1>3, <1>4
    <2> QED
      BY <2>1, <2>2 DEF Surjection, Injection, IsInjective
  <1>6. IsFiniteSet(Ranked(es)) /\ Cardinality(Ranked(es)) = Cardinality(es)
    BY <1>5, FS_Surjection DEF Placed
  <1>7. \A x \in Ranked(es) : \E e \in es : x = g[e]
    BY <1>5 DEF Surjection
  <1> HIDE DEF g
  <1>8. \A x \in Ranked(es) : x \in Entries /\ x.place \in 1 .. Cardinality(es)
    BY <1>1, <1>3, <1>6, <1>7, FS_CardinalityType
  <1>9. \A x, y \in Ranked(es) : (x.place = y.place \/ x.key = y.key) => x = y
    BY <1>3, <1>4, <1>7 DEF Placed
  <1> QED
    BY <1>6, <1>8, <1>9 DEF Packed, Placed

LEMMA PackedSubset ==
  ASSUME NEW es, Placed(es), NEW fs \in SUBSET es
  PROVE  Placed(fs)
  BY FS_Subset DEF Placed

\* What makes room leaves one place at least.
LEMMA RoomLeft ==
  ASSUME NEW es, Packed(es)
  PROVE  Packed(Room(es)) /\ Cardinality(Room(es)) <= CacheSize - 1
  <1> DEFINE c == Cardinality(es)
             fs == {e \in es : e.place > c - (CacheSize - 1)}
             low == c - (CacheSize - 1) + 1
             g == [e \in fs |-> e.place]
  <1>1. c \in Nat /\ CacheSize \in Nat \ {0}
    BY AdmissionAssumption, FS_CardinalityType DEF Packed, Placed
  <1>2. Placed(fs)
    BY PackedSubset DEF Packed
  <1>3. g \in Injection(fs, low .. c)
    <2>1. \A e \in fs : e.place \in low .. c
      BY <1>1 DEF Packed
    <2>2. \A e, f \in fs : e.place = f.place => e = f
      BY DEF Packed, Placed
    <2> HIDE DEF fs, low, c
    <2> QED
      BY <2>1, <2>2 DEF Injection, IsInjective
  <1>4. Cardinality(low .. c) = CacheSize - 1 /\ IsFiniteSet(low .. c)
    <2>1. low \in Int /\ c \in Int /\ c - low + 1 = CacheSize - 1 /\ (low > c => CacheSize = 1)
      BY <1>1
    <2> HIDE DEF low, c
    <2>2. Cardinality(low .. c) = IF low > c THEN 0 ELSE c - low + 1
      BY <2>1, FS_Interval
    <2>3. IsFiniteSet(low .. c)
      BY <2>1, FS_Interval
    <2> QED
      BY <1>1, <2>1, <2>2, <2>3
  <1>5. Cardinality(fs) <= CacheSize - 1
    BY <1>3, <1>4, FS_Injection
  <1> QED
    BY <1>2, <1>5, RankedPacks DEF Room

\* Storing a token leaves the cache packed and within its bound.
LEMMA StoredBounded ==
  ASSUME AdmitInv, NEW r \in Requests, req[r].pc = "issued", Packed(cache)
  PROVE  Packed(Stored(cache, r)) /\ Cardinality(Stored(cache, r)) <= CacheSize
  <1> DEFINE at == req[r].at
             kept == Room(Live(cache, at))
             k == req[r].bound
             others == kept \ Of(kept, k)
             entry == [key |-> k, grant |-> req[r].grant, until |-> at + req[r].grant.life - Margin,
                       place |-> PlaceFor(kept, k)]
  <1>1. Packed(kept) /\ Cardinality(kept) <= CacheSize - 1 /\ Cardinality(kept) \in Nat
    <2>1. Placed({e \in cache : e.until > at})
      BY PackedSubset DEF Packed
    <2>2. Packed(Live(cache, at))
      BY <2>1, RankedPacks DEF Live
    <2>3. Packed(kept) /\ Cardinality(kept) <= CacheSize - 1
      BY <2>2, RoomLeft
    <2> QED
      BY <2>3, FS_CardinalityType DEF Packed, Placed
  <1>2. CacheSize \in Nat
    BY AdmissionAssumption
  <1>3. CASE Stored(cache, r) = kept
    BY <1>1, <1>2, <1>3
  <1>4. CASE Stored(cache, r) = others \cup {entry}
    <2>1. entry \in Entries
      BY <1>4, StoredKeeps
    <2> HIDE DEF kept
    <2>2. entry.key = k /\ entry.place = PlaceFor(kept, k)
      OBVIOUS
    <2>3. \A e \in others : e \in kept /\ e.key # k
      BY DEF Of
    <2>4. CASE Of(kept, k) = {}
      <3>1. others = kept /\ entry.place = Cardinality(kept) + 1
        BY <2>2, <2>4 DEF PlaceFor
      <3>2. entry \notin kept
        BY <2>2, <2>4 DEF Of
      <3>3. /\ IsFiniteSet(kept \cup {entry})
            /\ Cardinality(kept \cup {entry}) = Cardinality(kept) + 1
        BY <1>1, <3>2, FS_AddElement DEF Packed, Placed
      <3> HIDE DEF entry
      <3>4. \A e \in kept : e.place <= Cardinality(kept) /\ e.place >= 1
        BY <1>1 DEF Packed
      <3>5. Packed(kept \cup {entry})
        <4>1. \A e \in kept \cup {entry} : e.place \in 1 .. Cardinality(kept \cup {entry})
          BY <1>1, <2>2, <3>1, <3>3, <3>4 DEF Packed
        <4>2. \A e \in kept : e.place # entry.place /\ e.key # entry.key
          BY <1>1, <2>2, <2>3, <3>1, <3>4
        <4>3. Placed(kept \cup {entry})
          BY <1>1, <2>1, <3>3, <4>2 DEF Packed, Placed
        <4> QED
          BY <4>1, <4>3 DEF Packed
      <3>6. Cardinality(kept \cup {entry}) <= CacheSize
        BY <1>1, <1>2, <3>3
      <3>7. Stored(cache, r) = kept \cup {entry}
        BY <1>4, <3>1 DEF entry
      <3> QED
        BY <3>5, <3>6, <3>7
    <2>5. ASSUME NEW old \in kept, old.key = k
          PROVE  Packed(others \cup {entry}) /\ Cardinality(others \cup {entry}) <= CacheSize
      <3>1. Of(kept, k) = {old}
        BY <1>1, <2>5 DEF Of, Packed, Placed
      <3>2. others = kept \ {old} /\ entry.place = old.place
        BY <2>2, <3>1 DEF PlaceFor
      <3>3. entry \notin others
        BY <2>2, <2>3
      <3>4. IsFiniteSet(kept \ {old}) /\ Cardinality(kept \ {old}) = Cardinality(kept) - 1
        BY <1>1, <2>5, FS_RemoveElement DEF Packed, Placed
      <3>5. /\ IsFiniteSet(others \cup {entry})
            /\ Cardinality(others \cup {entry}) = Cardinality(kept)
        <4> HIDE DEF entry
        <4>1. IsFiniteSet(others) /\ Cardinality(others) = Cardinality(kept) - 1
          BY <3>2, <3>4
        <4> HIDE DEF others
        <4>2. Cardinality(others \cup {entry}) = Cardinality(others) + 1 /\ IsFiniteSet(others \cup {entry})
          BY <3>3, <4>1, FS_AddElement
        <4> QED
          BY <1>1, <4>1, <4>2
      <3> HIDE DEF entry
      <3>6. \A e \in others : e.place # old.place
        BY <1>1, <2>5, <3>2 DEF Packed, Placed
      <3>7. Packed(others \cup {entry})
        BY <1>1, <2>1, <2>2, <2>3, <2>5, <3>2, <3>5, <3>6 DEF Packed, Placed
      <3> QED
        BY <1>1, <1>2, <3>5, <3>7
    <2> QED
      BY <1>4, <2>4, <2>5 DEF Of
  <1> QED
    BY <1>3, <1>4 DEF Stored, Kept

\* The cache stays within its bound and holds a bearer once, whoever stores.
THEOREM CacheBoundedHolds == Spec => []CacheBounded
  <1> DEFINE Bounded == Packed(cache) /\ Cardinality(cache) <= CacheSize
  <1>1. Bounded => CacheBounded
    BY DEF CacheBounded, Packed, Placed
  <1>2. Init => Bounded
    BY AdmissionAssumption, FS_EmptySet DEF Init, Packed, Placed
  <1>3. AdmitInv /\ Bounded /\ [Next]_vars => Bounded'
    <2> SUFFICES ASSUME AdmitInv, Bounded, [Next]_vars
                 PROVE  Bounded'
      OBVIOUS
    <2>1. ASSUME NEW r \in Requests, Store(r)
          PROVE  Bounded'
      BY <2>1, StoredBounded DEF Store
    <2>2. CASE UNCHANGED cache
      BY <2>2
    <2> QED
      BY <2>1, <2>2
      DEF Next, Arrive, Call, Handle, SignIn, Named, GiveUp, Run, NoCaller, AskToken, Issue,
          ExchangeFails, Connect, End, Tick, Finished, OnlyRequest, vars
  <1> QED
    BY <1>1, <1>2, <1>3, AdmitInvariant, PTL DEF Spec

-----------------------------------------------------------------------------
(* The guard of statements: what it lets through reads no more than it may. *)

LEMMA NameTokensAre ==
  ASSUME NEW W, NEW parts \in Seq(W)
  PROVE  /\ NameTokens(parts) \in Seq([type : {"name", "dot"}, text : W \cup {"."}])
         /\ Len(NameTokens(parts)) = IF parts = <<>> THEN 0 ELSE 2 * Len(parts) - 1
         /\ \A i \in 1 .. Len(NameTokens(parts)) :
              /\ i % 2 = 1 => NameTokens(parts)[i].type = "name"
              /\ i % 2 = 0 => NameTokens(parts)[i].type = "dot"
         /\ parts # <<>> => NameTokens(parts)[1].text = parts[1]
  <1>1. CASE parts = <<>>
    BY <1>1 DEF NameTokens
  <1>2. CASE parts # <<>>
    <2> DEFINE n == Len(parts)
               token(i) == IF i % 2 = 0 THEN [type |-> "dot", text |-> "."]
                           ELSE [type |-> "name", text |-> parts[(i + 1) \div 2]]
    <2>1. n \in Nat /\ n >= 1
      BY <1>2
    <2> DEFINE m == 2 * n - 1
    <2>2. m \in Nat /\ 1 \in 1 .. m /\ NameTokens(parts) = [i \in 1 .. m |-> token(i)]
      BY <1>2, <2>1 DEF NameTokens, Tokens3
    <2>3. ASSUME NEW i \in 1 .. m
          PROVE  /\ token(i) \in [type : {"name", "dot"}, text : W \cup {"."}]
                 /\ i % 2 = 1 => token(i).type = "name"
                 /\ i % 2 = 0 => token(i).type = "dot"
      <3>1. CASE i % 2 = 0
        <4>1. token(i) = [type |-> "dot", text |-> "."] /\ i % 2 # 1
          BY <3>1
        <4> HIDE DEF token, m
        <4>2. token(i) \in [type : {"name", "dot"}, text : W \cup {"."}] /\ token(i).type = "dot"
          BY <4>1 
        <4> QED
          BY <4>1, <4>2, Zenon
      <3>2. CASE i % 2 # 0
        <4> DEFINE k == (i + 1) \div 2
        <4>1. k \in 1 .. Len(parts)
          BY <2>1, <3>2
        <4>2. PICK x \in W : x = parts[k]
          BY <4>1
        <4>3. token(i) = [type |-> "name", text |-> x]
          BY <3>2, <4>2
        <4> HIDE DEF k, token, m
        <4>4. token(i) \in [type : {"name", "dot"}, text : W \cup {"."}] /\ token(i).type = "name"
          BY <4>3 
        <4> QED
          BY <3>2, <4>4, Zenon
      <3> QED
        BY <3>1, <3>2
    <2>4. token(1).text = parts[1]
      BY <2>1
    <2> HIDE DEF token, m
    <2>5. NameTokens(parts) \in Seq([type : {"name", "dot"}, text : W \cup {"."}]) /\ Len(NameTokens(parts)) = m
      BY <2>2, <2>3
    <2>6. \A i \in 1 .. m : NameTokens(parts)[i] = token(i)
      BY <2>2
    <2>7. m = 2 * Len(parts) - 1
      BY DEF m, n
    <2>8. /\ Len(NameTokens(parts)) = IF parts = <<>> THEN 0 ELSE 2 * Len(parts) - 1
          /\ parts # <<>> => NameTokens(parts)[1].text = parts[1]
      BY <1>2, <2>2, <2>4, <2>5, <2>6, <2>7
    <2>9. \A i \in 1 .. Len(NameTokens(parts)) :
            /\ i % 2 = 1 => NameTokens(parts)[i].type = "name"
            /\ i % 2 = 0 => NameTokens(parts)[i].type = "dot"
      BY <2>3, <2>5, <2>6
    <2> QED
      BY <2>5, <2>8, <2>9
  <1> QED
    BY <1>1, <1>2

LEMMA PartsShort ==
  ASSUME NEW tokens, NEW n \in {0, 1, 2},
         ~(3 + 2 * n \in DOMAIN tokens /\ tokens[3 + 2 * n].type = "name")
  PROVE  Parts(tokens) \in 0 .. n
  <1> DEFINE IsName(i) == i \in DOMAIN tokens /\ tokens[i].type = "name"
             Linked(i) == i \in DOMAIN tokens /\ tokens[i].type = "dot"
             run == {k \in 0 .. Len(tokens) :
                       \A j \in 0 .. k : IsName(3 + 2 * j) /\ (j < k => Linked(4 + 2 * j))}
             last == CHOOSE k \in run : \A j \in run : j <= k
  <1>1. Parts(tokens) = IF run = {} THEN 0 ELSE 1 + last
    BY DEF Parts
  <1>2. ASSUME NEW k \in run PROVE k \in 0 .. n - 1
    <2>1. k \in Nat /\ \A j \in 0 .. k : IsName(3 + 2 * j)
      BY <1>2
    <2>2. ~IsName(3 + 2 * n)
      OBVIOUS
    <2> HIDE DEF IsName
    <2>3. ~(n <= k)
      BY <2>1, <2>2
    <2> QED
      BY <2>1, <2>3
  <1> HIDE DEF run
  <1>3. ASSUME run # {} PROVE last \in run
    <2>1. PICK k \in run : \A j \in run : j <= k
      <3>1. CASE 1 \in run
        BY <1>2, <3>1
      <3>2. CASE 1 \notin run
        <4>1. run = {0}
          BY <1>2, <1>3, <3>2
        <4> QED
          BY <4>1
      <3> QED
        BY <3>1, <3>2
    <2> QED
      BY <2>1
  <1> HIDE DEF last
  <1> QED
    BY <1>1, <1>2, <1>3

\* DESCRIBE of a table of no more than three parts, outside system.
LEMMA DescribeSound ==
  ASSUME NEW W, NEW st, st.name \in Seq(W), st.kind \in W, NEW session,
         DescribeGoverned(st, session)
  PROVE  "system" \notin CatalogOf(st.name, 3, session)
  <1> DEFINE nt  == NameTokens(st.name)
             kt  == [type |-> "name", text |-> st.kind]
             tokens == (IF st.kind = "" THEN <<>> ELSE <<kt>>) \o nt
             n   == Len(st.name)
             T   == [type : {"name", "dot"}, text : W \cup {"."}]
  <1>1. /\ Len(tokens) % 2 = 1 /\ Len(tokens) <= 5
        /\ \A i \in DOMAIN tokens : tokens[i].type = IF i % 2 = 1 THEN "name" ELSE "dot"
        /\ ~IsSystem(IF Len(tokens) = 5 THEN tokens[1].text ELSE session)
    BY DEF DescribeGoverned
  <1>2. /\ nt \in Seq([type : {"name", "dot"}, text : W \cup {"."}])
        /\ Len(nt) = IF st.name = <<>> THEN 0 ELSE 2 * n - 1
        /\ \A i \in 1 .. Len(nt) : i % 2 = 1 => nt[i].type = "name"
        /\ st.name # <<>> => nt[1].text = st.name[1]
    BY NameTokensAre
  <1>3. nt \in Seq(T) /\ kt \in T
    BY <1>2
  <1>4. n \in Nat /\ (n = 0 <=> st.name = <<>>)
    OBVIOUS
  <1> HIDE DEF nt, kt, T, n
  <1>5. CASE st.kind = ""
    <2>1. tokens = nt
      <3>1. tokens = <<>> \o nt
        BY <1>5
      <3> HIDE DEF tokens
      <3> QED
        BY <1>3, <3>1
    <2> HIDE DEF tokens
    <2>2. n >= 1 /\ n <= 3 /\ (Len(tokens) = 5 <=> n = 3)
      <3>1. Len(nt) % 2 = 1 /\ Len(nt) <= 5 /\ tokens = nt
        BY <1>1, <2>1
      <3>2. n # 0
        <4>1. n = 0 => Len(nt) = 0
          BY <1>2, <1>4
        <4> QED
          BY <3>1, <4>1
      <3>3. Len(nt) = 2 * n - 1
        BY <1>2, <1>4, <3>2
      <3> QED
        BY <1>4, <3>1, <3>2, <3>3
    <2>3. CASE n = 3
      <3>1. st.name[1] # "system"
        BY <1>1, <1>2, <1>4, <2>1, <2>2, <2>3 DEF IsSystem
      <3> QED
        BY <2>3, <3>1 DEF CatalogOf, n
    <2>4. CASE n # 3
      <3>1. session # "system"
        BY <1>1, <2>2, <2>4 DEF IsSystem
      <3> QED
        BY <2>2, <2>4, <3>1 DEF CatalogOf, n
    <2> QED
      BY <2>3, <2>4
  <1>6. CASE st.kind # ""
    <2>1. /\ Len(tokens) = 1 + Len(nt) /\ DOMAIN tokens = 1 .. Len(tokens)
          /\ Len(nt) \in Nat
          /\ Len(nt) >= 1 => tokens[2] = nt[1]
      <3>1. tokens = <<kt>> \o nt
        BY <1>6
      <3> HIDE DEF tokens
      <3> QED
        BY <1>3, <3>1
    <2> HIDE DEF tokens
    <2>2. ~(Len(nt) >= 1)
      <3>1. SUFFICES ASSUME Len(nt) >= 1 PROVE FALSE
        OBVIOUS
      <3>2. 2 \in DOMAIN tokens /\ 1 \in 1 .. Len(nt) /\ 2 % 2 = 0 /\ 1 % 2 = 1
        BY <2>1, <3>1
      <3>3. tokens[2].type = "dot" /\ nt[1].type = "name"
        BY <1>1, <1>2, <3>2
      <3> QED
        BY <2>1, <3>1, <3>3
    <2>3. n = 0 /\ Len(tokens) # 5
      BY <1>2, <1>4, <2>1, <2>2
    <2>4. session # "system"
      BY <1>1, <2>3 DEF IsSystem
    <2> QED
      BY <2>3, <2>4 DEF CatalogOf, n
  <1> QED
    BY <1>5, <1>6

LEMMA OfSubset ==
  ASSUME NEW S, NEW T, S \subseteq T, NEW s \in Seq(S)
  PROVE  s \in Seq(T)
  OBVIOUS

LEMMA OneThen ==
  ASSUME NEW T, NEW a \in T, NEW t \in Seq(T)
  PROVE  /\ <<a>> \o t \in Seq(T) /\ Len(<<a>> \o t) = 1 + Len(t)
         /\ (<<a>> \o t)[1] = a
         /\ \A i \in 1 .. Len(t) : (<<a>> \o t)[1 + i] = t[i]
  OBVIOUS

LEMMA Joins ==
  ASSUME NEW T, NEW s \in Seq(T), NEW t \in Seq(T)
  PROVE  /\ s \o t \in Seq(T) /\ Len(s \o t) = Len(s) + Len(t)
         /\ \A i \in 1 .. Len(s) : (s \o t)[i] = s[i]
         /\ \A i \in 1 .. Len(t) : (s \o t)[Len(s) + i] = t[i]
  OBVIOUS

\* A word, the words of a middle, those of a tail.
LEMMA ThreeRuns ==
  ASSUME NEW T, NEW a \in T, NEW mid \in Seq(T), NEW tail \in Seq(T),
         NEW tokens, tokens = (<<a>> \o mid) \o tail
  PROVE  /\ Len(mid) \in Nat /\ Len(tail) \in Nat
         /\ Len(tokens) = 1 + Len(mid) + Len(tail) /\ DOMAIN tokens = 1 .. Len(tokens)
         /\ tokens[1] = a
         /\ \A i \in 1 .. Len(mid) : tokens[1 + i] = mid[i]
         /\ \A i \in 1 .. Len(tail) : tokens[1 + Len(mid) + i] = tail[i]
  <1> DEFINE head == <<a>> \o mid
  <1>1. /\ head \in Seq(T) /\ Len(head) = 1 + Len(mid) /\ head[1] = a
        /\ \A i \in 1 .. Len(mid) : head[1 + i] = mid[i]
    BY OneThen
  <1> HIDE DEF head
  <1>2. /\ tokens \in Seq(T) /\ Len(tokens) = Len(head) + Len(tail)
        /\ \A i \in 1 .. Len(head) : tokens[i] = head[i]
        /\ \A i \in 1 .. Len(tail) : tokens[Len(head) + i] = tail[i]
    <2>1. tokens = head \o tail
      BY DEF head
    <2> QED
      BY <1>1, <2>1, Joins
  <1>3. Len(mid) \in Nat /\ Len(tail) \in Nat
    OBVIOUS
  <1>4. \A i \in 1 .. Len(mid) : 1 + i \in 1 .. Len(head)
    BY <1>1, <1>3
  <1>5. 1 \in 1 .. Len(head)
    BY <1>1, <1>3
  <1> QED
    BY <1>1, <1>2, <1>3, <1>4, <1>5

\* What SHOW is followed by: its kind first, then the preposition and the name, then the
\* pattern, which is a string.
LEMMA ShowTokensAre ==
  ASSUME NEW W, NEW st, st.name \in Seq(W), {st.kind, st.prep, st.like, "like"} \subseteq W
  PROVE  LET tokens == ShowTokens(st)
             n == Len(st.name)
         IN  /\ Len(tokens) \in Nat /\ DOMAIN tokens = 1 .. Len(tokens)
             /\ tokens[1].text = st.kind
             /\ st.prep = "" /\ Len(tokens) >= 2 => tokens[2].type = "like"
             /\ st.prep # "" =>
                  /\ ~(3 + 2 * n \in DOMAIN tokens /\ tokens[3 + 2 * n].type = "name")
                  /\ n >= 1 => /\ 3 \in DOMAIN tokens
                               /\ tokens[3].type = "name" /\ tokens[3].text = st.name[1]
  <1> DEFINE nt == NameTokens(st.name)
             n  == Len(st.name)
             T  == [type : {"name", "dot", "like", "string", st.prep}, text : W \cup {"."}]
             kt == [type |-> "name", text |-> st.kind]
             pt == [type |-> st.prep, text |-> st.prep]
             lt == [type |-> "like", text |-> "like"]
             qt == [type |-> "string", text |-> st.like]
             middle == IF st.prep = "" THEN <<>> ELSE <<pt>> \o nt
             tail == IF st.like = "" THEN <<>> ELSE <<lt, qt>>
             tokens == ShowTokens(st)
  <1>1. /\ nt \in Seq([type : {"name", "dot"}, text : W \cup {"."}])
        /\ Len(nt) = IF st.name = <<>> THEN 0 ELSE 2 * n - 1
        /\ \A i \in 1 .. Len(nt) : i % 2 = 1 => nt[i].type = "name"
        /\ st.name # <<>> => nt[1].text = st.name[1]
    BY NameTokensAre
  <1>2. nt \in Seq(T) /\ kt \in T /\ pt \in T /\ lt \in T /\ qt \in T
    <2>1. kt \in T /\ pt \in T /\ lt \in T /\ qt \in T
      OBVIOUS
    <2>2. [type : {"name", "dot"}, text : W \cup {"."}] \subseteq T
      OBVIOUS
    <2> HIDE DEF T, nt
    <2>3. nt \in Seq(T)
      BY <1>1, <2>2, OfSubset
    <2> QED
      BY <2>1, <2>3
  <1>3. tokens = (<<kt>> \o middle) \o tail
    BY DEF ShowTokens
  <1>4. n \in Nat /\ (n = 0 <=> st.name = <<>>)
    OBVIOUS
  <1>5. kt.text = st.kind /\ lt.type = "like" /\ qt.type = "string"
    OBVIOUS
  <1>6. /\ Len(nt) = IF n = 0 THEN 0 ELSE 2 * n - 1
        /\ n >= 1 => nt[1].type = "name" /\ nt[1].text = st.name[1]
    BY <1>1, <1>4
  <1> HIDE DEF nt, n, T, kt, pt, lt, qt
  <1>7. tail \in Seq(T) /\ Len(tail) \in {0, 2} /\ (Len(tail) = 2 => tail[1] = lt /\ tail[2] = qt)
    <2>1. CASE st.like = ""
      <3>1. tail = <<>>
        BY <2>1
      <3> HIDE DEF tail
      <3> QED
        BY <3>1
    <2>2. CASE st.like # ""
      <3>1. tail = <<lt, qt>>
        BY <2>2
      <3> HIDE DEF tail
      <3> QED
        BY <1>2, <3>1
    <2> QED
      BY <2>1, <2>2
  <1>8. /\ middle \in Seq(T)
        /\ st.prep = "" => Len(middle) = 0
        /\ st.prep # "" => /\ Len(middle) = 1 + Len(nt)
                           /\ \A i \in 1 .. Len(nt) : middle[1 + i] = nt[i]
    <2>1. CASE st.prep = ""
      <3>1. middle = <<>>
        BY <2>1
      <3> HIDE DEF middle
      <3>2. middle \in Seq(T) /\ Len(middle) = 0
        BY <3>1
      <3> QED
        BY <2>1, <3>2
    <2>2. CASE st.prep # ""
      <3>1. middle = <<pt>> \o nt
        BY <2>2
      <3> HIDE DEF middle
      <3>2. /\ middle \in Seq(T) /\ Len(middle) = 1 + Len(nt)
            /\ \A i \in 1 .. Len(nt) : middle[1 + i] = nt[i]
        BY <1>2, <3>1, OneThen
      <3> QED
        BY <2>2, <3>2
    <2> QED
      BY <2>1, <2>2
  <1> HIDE DEF middle, tail, tokens
  <1>9. /\ Len(middle) \in Nat /\ Len(tail) \in Nat
        /\ Len(tokens) = 1 + Len(middle) + Len(tail) /\ DOMAIN tokens = 1 .. Len(tokens)
        /\ tokens[1] = kt
        /\ \A i \in 1 .. Len(middle) : tokens[1 + i] = middle[i]
        /\ \A i \in 1 .. Len(tail) : tokens[1 + Len(middle) + i] = tail[i]
    <2>1. kt \in T /\ middle \in Seq(T) /\ tail \in Seq(T)
      BY <1>2, <1>7, <1>8
    <2> QED
      BY <1>3, <2>1, ThreeRuns
  <1>10. Len(tokens) \in Nat /\ DOMAIN tokens = 1 .. Len(tokens) /\ tokens[1].text = st.kind
    BY <1>5, <1>9
  <1>11. /\ Len(middle) \in Nat /\ Len(tail) \in {0, 2} /\ Len(tokens) = 1 + Len(middle) + Len(tail)
         /\ st.prep = "" => Len(middle) = 0
         /\ st.prep # "" => Len(middle) = IF n = 0 THEN 1 ELSE 2 * n
    <2> DEFINE a == Len(nt)
               b == Len(middle)
    <2>1. st.prep # "" => b = 1 + a
      BY <1>8
    <2>3. a = IF n = 0 THEN 0 ELSE 2 * n - 1
      BY <1>6
    <2> HIDE DEF a, b
    <2>4. ASSUME st.prep # "" PROVE b = IF n = 0 THEN 1 ELSE 2 * n
      <3>1. CASE n = 0
        <4>1. b = 1 + 0
          BY <2>1, <2>3, <2>4, <3>1
        <4> QED
          BY <3>1, <4>1
      <3>2. CASE n # 0
        <4>1. b = 1 + (2 * n - 1)
          BY <2>1, <2>3, <2>4, <3>2
        <4>2. 1 + (2 * n - 1) = 2 * n
          BY <1>4
        <4> QED
          BY <3>2, <4>1, <4>2
      <3> QED
        BY <3>1, <3>2
    <2>2. st.prep # "" => Len(middle) = IF n = 0 THEN 1 ELSE 2 * n
      BY <2>4 DEF b
    <2> QED
      BY <1>7, <1>8, <1>9, <2>2
  <1>12. ASSUME Len(tail) = 2
         PROVE  /\ tokens[Len(middle) + 2] = lt /\ tokens[Len(middle) + 3] = qt
    <2>1. 1 \in 1 .. Len(tail) /\ 2 \in 1 .. Len(tail)
      BY <1>12
    <2>2. tokens[1 + Len(middle) + 1] = tail[1] /\ tokens[1 + Len(middle) + 2] = tail[2]
      BY <1>9, <2>1
    <2>3. 1 + Len(middle) + 1 = Len(middle) + 2 /\ 1 + Len(middle) + 2 = Len(middle) + 3
      BY <1>9
    <2> QED
      BY <1>7, <1>12, <2>2, <2>3
  <1>13. ASSUME st.prep = "", Len(tokens) >= 2 PROVE tokens[2].type = "like"
    <2> DEFINE a == Len(tokens)
               b == Len(tail)
               m == Len(middle)
    <2>0. b \in {0, 2} /\ a = 1 + m + b /\ m = 0 /\ a >= 2
      BY <1>11, <1>13
    <2> HIDE DEF a, b, m
    <2>1. m = 0 /\ b = 2
      BY <2>0
    <2>2. tokens[2] = lt
      BY <1>12, <2>1 DEF b, m
    <2> QED
      BY <1>5, <2>2
  <1>14. ASSUME st.prep # ""
         PROVE  /\ ~(3 + 2 * n \in DOMAIN tokens /\ tokens[3 + 2 * n].type = "name")
                /\ n >= 1 => /\ 3 \in DOMAIN tokens
                             /\ tokens[3].type = "name" /\ tokens[3].text = st.name[1]
    <2>1. Len(middle) = 1 + Len(nt) /\ Len(middle) = IF n = 0 THEN 1 ELSE 2 * n
      BY <1>8, <1>11, <1>14
    <2>2. ASSUME n >= 1
          PROVE  3 \in DOMAIN tokens /\ tokens[3].type = "name" /\ tokens[3].text = st.name[1]
      <3>1. 2 \in 1 .. Len(middle) /\ 1 \in 1 .. Len(nt) /\ 3 \in 1 .. Len(tokens)
        BY <1>4, <1>6, <1>9, <2>1, <2>2
      <3>2. tokens[1 + 2] = middle[2] /\ middle[1 + 1] = nt[1]
        BY <1>8, <1>9, <1>14, <3>1
      <3> QED
        BY <1>6, <1>10, <2>2, <3>1, <3>2
    <2>3. ASSUME 3 + 2 * n \in 1 .. Len(tokens)
          PROVE  tokens[3 + 2 * n].type # "name"
      <3> DEFINE a == Len(tokens)
                 b == Len(tail)
                 m == Len(middle)
      <3>5. b \in {0, 2} /\ a = 1 + m + b /\ m = (IF n = 0 THEN 1 ELSE 2 * n)
        BY <1>11, <2>1
      <3>6. 3 + 2 * n <= a
        BY <2>3
      <3> HIDE DEF a, b, m
      <3>4. b = 2 /\ (n = 0 => m + 2 = 3 + 2 * n) /\ (n # 0 => m + 3 = 3 + 2 * n)
        <4>1. CASE n = 0
          BY <3>5, <3>6, <4>1
        <4>2. CASE n # 0
          BY <1>4, <3>5, <3>6, <4>2
        <4> QED
          BY <4>1, <4>2
      <3>1. Len(tail) = 2
        BY <3>4 DEF b
      <3>2. CASE n = 0
        <4>1. Len(middle) + 2 = 3 + 2 * n
          BY <3>2, <3>4 DEF m
        <4> QED
          BY <1>5, <1>12, <3>1, <4>1
      <3>3. CASE n # 0
        <4>1. Len(middle) + 3 = 3 + 2 * n
          BY <3>3, <3>4 DEF m
        <4> QED
          BY <1>5, <1>12, <3>1, <4>1
      <3> QED
        BY <3>2, <3>3
    <2> QED
      BY <1>10, <2>2, <2>3
  <1> QED
    BY <1>10, <1>13, <1>14 DEF n, tokens

LEMMA LengthOf ==
  ASSUME NEW W, NEW s \in Seq(W)
  PROVE  Len(s) \in Nat /\ (Len(s) = 0 <=> s = <<>>)
  OBVIOUS

\* The kinds the guard lets through are kinds Trino knows, and it asks of a kind that may
\* be qualified for as many parts as its name has.
LEMMA KindsOf ==
  ASSUME NEW extra \in SUBSET ExtraReadCommands,
         NEW kind \in ShowAllowed \cup UNION {ShowOpened[x] : x \in extra}
  PROVE  /\ FullParts[kind] \in 0 .. 3
         /\ kind = "catalogs" => FullParts[kind] = 0
         /\ kind \in DOMAIN ShowQualifiedParts => ShowQualifiedParts[kind] = FullParts[kind]
  <1> DEFINE Kinds == {"catalogs", "schemas", "tables", "columns", "functions",
                       "stats", "create", "grants", "roles", "current", "role", "session"}
  <1>1. \A x \in ExtraReadCommands : ShowOpened[x] \subseteq Kinds
    BY DEF ExtraReadCommands, ShowOpened
  <1>2. kind \in Kinds
    BY <1>1 DEF ShowAllowed
  <1>3. \A k \in Kinds : FullParts[k] \in 0 .. 3 /\ (k = "catalogs" => FullParts[k] = 0)
    BY DEF FullParts
  <1>4. \A k \in DOMAIN ShowQualifiedParts : ShowQualifiedParts[k] = FullParts[k]
    BY DEF FullParts, ShowQualifiedParts
  <1> QED
    BY <1>2, <1>3, <1>4

\* Only a preposition brings a name.
NamedByPrep(st) == st.prep = "" => st.name = <<>>

\* SHOW of no more than it may: a qualified kind in the session of system names its
\* catalog, and no name is of system.
LEMMA ShowSound ==
  ASSUME NEW W, NEW st, st.name \in Seq(W), {st.kind, st.prep, st.like, "like"} \subseteq W,
         NamedByPrep(st), NEW session, NEW extra \in SUBSET ExtraReadCommands, ShowGoverned(st, session, extra)
  PROVE  "system" \notin CatalogOf(st.name, FullParts[st.kind], session)
  <1> DEFINE tokens == ShowTokens(st)
             n      == Len(st.name)
             full   == FullParts[st.kind]
             kinds  == ShowAllowed \cup UNION {ShowOpened[x] : x \in extra}
             Qualified == /\ st.kind \in DOMAIN ShowQualifiedParts
                          /\ Len(tokens) >= 3 /\ tokens[2].type \in {"from", "in"}
                          /\ Parts(tokens) >= ShowQualifiedParts[st.kind]
  <1>1. /\ Len(tokens) \in Nat /\ DOMAIN tokens = 1 .. Len(tokens)
        /\ tokens[1].text = st.kind
        /\ st.prep = "" /\ Len(tokens) >= 2 => tokens[2].type = "like"
        /\ st.prep # "" =>
             /\ ~(3 + 2 * n \in DOMAIN tokens /\ tokens[3 + 2 * n].type = "name")
             /\ n >= 1 => /\ 3 \in DOMAIN tokens
                          /\ tokens[3].type = "name" /\ tokens[3].text = st.name[1]
    BY ShowTokensAre
  <1>2. /\ tokens[1].text \in kinds
        /\ \A i \in DOMAIN tokens : tokens[i].type # "string" => tokens[i].text # "system"
        /\ session # "system" \/ st.kind = "catalogs" \/ Qualified
    BY <1>1 DEF ShowGoverned, IsSystem
  <1>3. n \in Nat /\ (n = 0 <=> st.name = <<>>)
    BY LengthOf
  <1> HIDE DEF tokens, n
  <1>4. full \in 0 .. 3 /\ (st.kind = "catalogs" => full = 0)
    <2>1. st.kind \in kinds
      BY <1>1, <1>2
    <2> QED
      BY <2>1, KindsOf
  <1>5. n >= 1 => st.prep # ""
    <2>1. n >= 1 => n # 0
      BY <1>3
    <2> QED
      BY <1>3, <2>1, Zenon DEF NamedByPrep
  <1>6. n >= 1 => st.name[1] # "system"
    BY <1>1, <1>2, <1>3, <1>5
  <1> HIDE DEF full
  <1>7. ASSUME session = "system", full >= 1 PROVE n >= full
    <2>1. Qualified
      BY <1>2, <1>4, <1>7
    <2>2. ShowQualifiedParts[st.kind] = full
      BY <1>1, <1>2, <2>1, KindsOf DEF full
    <2>3. st.prep # ""
      <3>1. Len(tokens) >= 2 /\ tokens[2].type # "like"
        <4>1. Len(tokens) \in Nat
          BY <1>1
        <4> QED
          BY <2>1, <4>1
      <3> QED
        BY <1>1, <3>1, Zenon
    <2>4. CASE n \in {0, 1, 2}
      <3>1. Parts(tokens) \in 0 .. n
        BY <1>1, <2>3, <2>4, PartsShort
      <3> QED
        BY <1>4, <1>3, <2>1, <2>2, <3>1
    <2> QED
      BY <1>4, <1>3, <2>4
  <1>8. CatalogOf(st.name, full, session)
          = IF full = 0 \/ n > full THEN {} ELSE IF n = full THEN {st.name[1]} ELSE {session}
    BY DEF CatalogOf, n
  <1>9. "system" \notin CatalogOf(st.name, full, session)
    <2>1. CASE session = "system" /\ full >= 1
      BY <1>4, <1>3, <1>6, <1>7, <1>8, <2>1
    <2>2. CASE full = 0
      BY <1>8, <2>2
    <2>3. CASE session # "system" /\ full >= 1
      BY <1>4, <1>3, <1>6, <1>8, <2>3
    <2> QED
      BY <1>4, <2>1, <2>2, <2>3
  <1> QED
    BY <1>9 DEF full

\* What the guard lets through is one statement that reads, through no table function
\* and in no system catalog (is_read_only_sql).
LEMMA GuardSound ==
  ASSUME NEW st \in Statement, NEW session, NEW extra \in SUBSET ExtraReadCommands,
         IsReadOnlySql(st, session, extra)
  PROVE  ReadsGovernedOnly(st, session)
  <1>1. /\ st.count = 1 /\ \A i \in DOMAIN st.explains : st.explains[i] # "analyze"
        /\ Governed(st, session, extra)
    BY DEF IsReadOnlySql
  <1>2. /\ st.name \in Seq(STRING) /\ {st.kind, st.prep, st.like} \subseteq STRING
        /\ \A t \in st.tables : t.name \in Seq(STRING)
        /\ st.head \in {"show", "describe"} => st.root \notin ReadTypes /\ st.tables = {}
        /\ st.head = "show" /\ st.prep = "" => st.name = <<>>
    BY DEF Statement
  <1>3. CASE st.head = "describe"
    <2>1. DescribeGoverned(st, session)
      BY <1>1, <1>2, <1>3 DEF Governed
    <2>2. "system" \notin CatalogOf(st.name, 3, session)
      BY <1>2, <2>1, DescribeSound
    <2>3. CatalogsRead(st, session) = CatalogOf(st.name, 3, session)
      BY <1>3 DEF CatalogsRead
    <2> QED
      BY <1>1, <1>2, <1>3, <2>2, <2>3 DEF ReadsGovernedOnly, Writes
  <1>4. CASE st.head = "show"
    <2>1. ShowGoverned(st, session, extra)
      BY <1>1, <1>2, <1>4 DEF Governed
    <2>2. "system" \notin CatalogOf(st.name, FullParts[st.kind], session)
      <3> DEFINE W == STRING \cup {"like"}
      <3>1. st.name \in Seq(W) /\ {st.kind, st.prep, st.like, "like"} \subseteq W
        <4>1. STRING \subseteq W /\ "like" \in W
          OBVIOUS
        <4> HIDE DEF W
        <4>2. st.name \in Seq(W)
          BY <1>2, <4>1, OfSubset
        <4> QED
          BY <1>2, <4>1, <4>2
      <3> HIDE DEF W
      <3>2. NamedByPrep(st)
        BY <1>2, <1>4 DEF NamedByPrep
      <3> QED
        BY <2>1, <3>1, <3>2, ShowSound
    <2>3. CatalogsRead(st, session) = CatalogOf(st.name, FullParts[st.kind], session)
      BY <1>4 DEF CatalogsRead
    <2> QED
      BY <1>1, <1>2, <1>4, <2>2, <2>3 DEF ReadsGovernedOnly, Writes
  <1>5. CASE st.head \notin {"show", "describe"}
    <2>1. /\ st.root \in ReadTypes /\ st.nodes \cap WriteTypes = {}
          /\ \A t \in st.tables : ~TableOutside(t, st.ctes, session)
      BY <1>1, <1>5 DEF Governed
    <2>2. ASSUME NEW t \in st.tables, ~(Len(t.name) = 1 /\ t.name[1] \in st.ctes)
          PROVE  "system" \notin CatalogOf(t.name, 3, session)
      <3>1. (IF Len(t.name) = 3 THEN t.name[1] ELSE session) # "system"
        BY <2>1, <2>2 DEF TableOutside, IsSystem
      <3> QED
        BY <3>1 DEF CatalogOf
    <2>3. CatalogsRead(st, session)
            = UNION {CatalogOf(t.name, 3, session) :
                       t \in {t \in st.tables : ~(Len(t.name) = 1 /\ t.name[1] \in st.ctes)}}
      BY <1>5 DEF CatalogsRead
    <2>4. "system" \notin CatalogsRead(st, session)
      BY <2>2, <2>3
    <2>5. \A t \in st.tables : ~t.function
      BY <2>1 DEF TableOutside
    <2> QED
      BY <1>1, <1>5, <2>1, <2>4, <2>5 DEF ReadsGovernedOnly, Writes
  <1> QED
    BY <1>3, <1>4, <1>5

\* What a request runs, and what Trino received from it, passed the guard.
Passed(sql) == sql # ServerSql => ReadsGovernedOnly(sql, cfg.catalog)
Guarded == \A r \in Requests : Passed(req[r].sql) /\ Passed(req[r].sent.sql)

\* A request runs what it ran, a statement of the server or one that passes the guard;
\* what it sends is what it runs.
SqlMoved(q, p) ==
  /\ q.sql = p.sql \/ Passed(q.sql)
  /\ q.sent.sql \in {p.sent.sql, p.sql, ServerSql}

LEMMA OnlyMoved ==
  ASSUME AdmitInv, NEW r \in Requests, NEW q, req' = [req EXCEPT ![r] = q], SqlMoved(q, req[r])
  PROVE  \A s \in Requests : SqlMoved(req'[s], req[s])
  <1>1. req \in [Requests -> Request]
    BY DEF AdmitInv, TypeOK
  <1>2. req'[r] = q /\ \A s \in Requests : s # r => req'[s] = req[s]
    BY <1>1
  <1>3. \A s \in Requests : SqlMoved(req[s], req[s])
    BY DEF SqlMoved
  <1> HIDE DEF SqlMoved
  <1> QED
    BY <1>2, <1>3

\* The door, the sign-in and the exchange leave the statement alone.
Elsewhere(r) ==
  \/ \E b \in Tokens \cup {NoToken} : Arrive(r, b)
  \/ Call(r)
  \/ \E m \in Discovery \cup {"tools/call"} : Handle(r, m)
  \/ SignIn(r)
  \/ \E who \in Users \cup {NoUser} : Named(r, who)
  \/ GiveUp(r)
  \/ NoCaller(r)
  \/ \E life \in Lifetimes : Issue(r, life)
  \/ ExchangeFails(r)
  \/ AskToken(r) /\ Cached(r) = {}

LEMMA ElsewhereMoves ==
  ASSUME AdmitInv, NEW r \in Requests, Elsewhere(r)
  PROVE  \A s \in Requests : SqlMoved(req'[s], req[s])
  <1> DEFINE p == req[r]
             kept(q) == q.sql = p.sql /\ q.sent = p.sent
  <1>1. p \in Request /\ req \in [Requests -> Request]
    BY DEF AdmitInv, TypeOK
  <1>2. ASSUME NEW q, kept(q) PROVE SqlMoved(q, p)
    BY <1>2 DEF SqlMoved
  <1>3. ASSUME NEW to, Go(r, to) PROVE \E q : kept(q) /\ req' = [req EXCEPT ![r] = q]
    <2>1. kept([p EXCEPT !.pc = to]) /\ req' = [req EXCEPT ![r] = [p EXCEPT !.pc = to]]
      BY <1>1, <1>3 DEF Go, Request
    <2> QED
      BY <2>1
  <1>4. ASSUME NEW b, NEW refusal, Refuse(r, b, refusal)
        PROVE  \E q : kept(q) /\ req' = [req EXCEPT ![r] = q]
    <2> DEFINE q == [p EXCEPT !.pc = "refused", !.bearer = b, !.refusal = refusal]
    <2>1. kept(q) /\ req' = [req EXCEPT ![r] = q]
      BY <1>1, <1>4 DEF Refuse, Request
    <2> QED
      BY <2>1
  <1>5. ASSUME NEW b, NEW who, Bind(r, b, who)
        PROVE  \E q : kept(q) /\ req' = [req EXCEPT ![r] = q]
    <2> DEFINE q == [p EXCEPT !.pc = "serving", !.bearer = b, !.user = who,
                              !.bound = IF who = NoUser THEN NoToken ELSE b]
    <2>1. kept(q) /\ req' = [req EXCEPT ![r] = q]
      BY <1>1, <1>5 DEF Bind, Request
    <2> QED
      BY <2>1
  <1>6. ASSUME NEW who, Admit(r, who) PROVE \E q : kept(q) /\ req' = [req EXCEPT ![r] = q]
    <2>1. \/ Bind(r, cfg.token, who)
          \/ \E refusal : Refuse(r, cfg.token, refusal)
      BY <1>6 DEF Admit
    <2> QED
      BY <1>4, <1>5, <2>1
  <1>7. \E q : kept(q) /\ req' = [req EXCEPT ![r] = q]
    <2>1. CASE \E b \in Tokens \cup {NoToken} : Arrive(r, b)
      BY <1>4, <1>5, <2>1 DEF Arrive
    <2>2. CASE Call(r)
      BY <1>5, <2>2 DEF Call
    <2>3. CASE \E m \in Discovery \cup {"tools/call"} : Handle(r, m)
      <3>1. CASE Bind(r, cfg.token, NoUser)
        BY <1>5, <3>1
      <3>2. CASE req' = [req EXCEPT ![r].pc = "waiting", ![r].bearer = cfg.token]
        <4> DEFINE q == [p EXCEPT !.pc = "waiting", !.bearer = cfg.token]
        <4>1. kept(q) /\ req' = [req EXCEPT ![r] = q]
          BY <1>1, <3>2 DEF Request
        <4> QED
          BY <4>1
      <3> QED
        BY <2>3, <3>1, <3>2 DEF Handle
    <2>4. CASE SignIn(r)
      BY <1>3, <1>6, <2>4 DEF SignIn
    <2>5. CASE \E who \in Users \cup {NoUser} : Named(r, who)
      BY <1>4, <1>6, <2>5 DEF Named
    <2>6. CASE GiveUp(r) \/ NoCaller(r)
      BY <1>3, <2>6 DEF GiveUp, NoCaller
    <2>7. CASE \E life \in Lifetimes : Issue(r, life)
      <3> PICK life \in Lifetimes : Issue(r, life)
        BY <2>7
      <3> DEFINE q == [p EXCEPT !.pc = "issued",
                                !.grant = [for |-> p.bound, exp |-> now + life, life |-> life]]
      <3>1. kept(q) /\ req' = [req EXCEPT ![r] = q]
        BY <1>1 DEF Issue, Request
      <3> QED
        BY <3>1
    <2>8. CASE ExchangeFails(r)
      <3> DEFINE q == [p EXCEPT !.pc = "serving", !.at = 0, !.grant = NoGrant]
      <3>1. kept(q) /\ req' = [req EXCEPT ![r] = q]
        BY <1>1, <2>8 DEF ExchangeFails, Request
      <3> QED
        BY <3>1
    <2>9. CASE AskToken(r) /\ Cached(r) = {}
      <3> DEFINE q == [p EXCEPT !.pc = "asking", !.at = now]
      <3>1. kept(q) /\ req' = [req EXCEPT ![r] = q]
        BY <1>1, <2>9 DEF AskToken, Request
      <3> QED
        BY <3>1
    <2> QED
      BY <2>1, <2>2, <2>3, <2>4, <2>5, <2>6, <2>7, <2>8, <2>9 DEF Elsewhere
  <1> HIDE DEF kept
  <1> QED
    BY <1>2, <1>7, OnlyMoved

\* What a request sends is what it runs.
LEMMA SendMoves ==
  ASSUME AdmitInv, NEW r \in Requests,
         (\E grant : Send(r, grant)) \/ Connect(r) \/ End(r)
  PROVE  \A s \in Requests : SqlMoved(req'[s], req[s])
  <1> DEFINE p == req[r]
  <1>1. p \in Request /\ req \in [Requests -> Request]
    BY DEF AdmitInv, TypeOK
  <1>2. CASE \E grant : Send(r, grant)
    <2> PICK grant : Send(r, grant)
      BY <1>2
    <2> DEFINE q == [p EXCEPT !.pc = "serving", !.at = 0, !.grant = NoGrant,
                              !.sent = [user |-> p.user, for |-> grant.for, sql |-> p.sql]]
    <2>1. q.sql = p.sql /\ q.sent.sql = p.sql /\ req' = [req EXCEPT ![r] = q]
      BY <1>1 DEF Send, Request
    <2> HIDE DEF q
    <2> QED
      BY <2>1, OnlyMoved DEF SqlMoved
  <1>3. CASE Connect(r)
    <2> DEFINE q == [p EXCEPT !.pc = "serving",
                              !.sent = [user |-> IF cfg.mode = "service" THEN Server ELSE p.user,
                                        for |-> NoToken, sql |-> p.sql]]
    <2>1. q.sql = p.sql /\ q.sent.sql = p.sql /\ req' = [req EXCEPT ![r] = q]
      BY <1>1, <1>3 DEF Connect, Request
    <2> HIDE DEF q
    <2> QED
      BY <2>1, OnlyMoved DEF SqlMoved
  <1>4. CASE End(r)
    <2> DEFINE q == [Fresh EXCEPT !.pc = "ended"]
    <2>1. q.sql = ServerSql /\ q.sent.sql = ServerSql /\ req' = [req EXCEPT ![r] = q]
      BY <1>1, <1>4 DEF End, Fresh, Unsent
    <2> HIDE DEF q
    <2> QED
      BY <2>1, OnlyMoved DEF SqlMoved, Passed
  <1> QED
    BY <1>2, <1>3, <1>4

\* What the agent asked for passed the guard before it runs.
LEMMA RunMoves ==
  ASSUME AdmitInv, NEW r \in Requests, NEW sql \in Asked[cfg] \cup {ServerSql}, Run(r, sql)
  PROVE  \A s \in Requests : SqlMoved(req'[s], req[s])
  <1> DEFINE p == req[r]
             q == [p EXCEPT !.pc = "running", !.sql = sql]
  <1>1. p \in Request /\ req \in [Requests -> Request] /\ cfg \in Settings
    BY DEF AdmitInv, TypeOK
  <1>2. q.sql = sql /\ q.sent = p.sent /\ req' = [req EXCEPT ![r] = q]
    BY <1>1 DEF Run, Request
  <1>3. Passed(sql)
    <2>1. SUFFICES ASSUME sql # ServerSql PROVE ReadsGovernedOnly(sql, cfg.catalog)
      BY DEF Passed
    <2>2. sql \in Statement /\ cfg.extra \in SUBSET ExtraReadCommands
      BY <1>1, <2>1, AdmissionAssumption DEF Setting
    <2>3. IsReadOnlySql(sql, cfg.catalog, cfg.extra)
      BY <2>1 DEF Run
    <2> QED
      BY <2>2, <2>3, GuardSound
  <1> HIDE DEF q
  <1> QED
    BY <1>2, <1>3, OnlyMoved DEF SqlMoved

LEMMA SqlMoves ==
  ASSUME AdmitInv, [Next]_vars
  PROVE  cfg' = cfg /\ \A s \in Requests : SqlMoved(req'[s], req[s])
  <1>1. cfg' = cfg
    BY DEF Next, vars, OnlyRequest, Arrive, Call, Handle, SignIn, Named, GiveUp, Run, NoCaller, AskToken,
           Issue, ExchangeFails, Store, Connect, End, Tick, Finished
  <1>2. ASSUME UNCHANGED req PROVE \A s \in Requests : SqlMoved(req'[s], req[s])
    <2>1. \A s \in Requests : SqlMoved(req[s], req[s])
      BY DEF SqlMoved
    <2> QED
      BY <1>2, <2>1
  <1>3. ASSUME NEW r \in Requests,
               \/ AskToken(r) /\ Cached(r) # {}
               \/ Store(r)
        PROVE  \A s \in Requests : SqlMoved(req'[s], req[s])
    <2>1. \E grant : Send(r, grant)
      BY <1>3 DEF AskToken, Store
    <2> QED
      BY <2>1, SendMoves
  <1>4. ASSUME Tick \/ Finished \/ UNCHANGED vars PROVE \A s \in Requests : SqlMoved(req'[s], req[s])
    BY <1>2, <1>4 DEF Tick, Finished, vars
  <1>5. ASSUME NEW r \in Requests,
               \/ Elsewhere(r)
               \/ AskToken(r) /\ Cached(r) # {}
               \/ Store(r)
               \/ Connect(r)
               \/ End(r)
               \/ \E sql \in Asked[cfg] \cup {ServerSql} : Run(r, sql)
        PROVE  \A s \in Requests : SqlMoved(req'[s], req[s])
    BY <1>3, <1>5, ElsewhereMoves, SendMoves, RunMoves
  <1>6. \/ Tick \/ Finished \/ UNCHANGED vars
        \/ \E r \in Requests :
             \/ Elsewhere(r)
             \/ AskToken(r) /\ Cached(r) # {}
             \/ Store(r)
             \/ Connect(r)
             \/ End(r)
             \/ \E sql \in Asked[cfg] \cup {ServerSql} : Run(r, sql)
    BY Zenon DEF Next, Elsewhere
  <1> QED
    BY <1>1, <1>4, <1>5, <1>6

LEMMA GuardedStep == AdmitInv /\ Guarded /\ [Next]_vars => Guarded'
  <1> SUFFICES ASSUME AdmitInv, Guarded, [Next]_vars, NEW r \in Requests
               PROVE  Passed(req[r].sql)' /\ Passed(req[r].sent.sql)'
    BY DEF Guarded
  <1>1. cfg' = cfg /\ SqlMoved(req'[r], req[r])
    BY SqlMoves
  <1>2. Passed(req[r].sql) /\ Passed(req[r].sent.sql)
    BY DEF Guarded
  <1> QED
    BY <1>1, <1>2 DEF SqlMoved, Passed

\* What an agent wrote reaches Trino only when it is one statement that reads, through no
\* table function and in no system catalog (is_read_only_sql).
THEOREM GuardHoldsAlways == Spec => []GuardHolds
  <1>1. Init => Guarded
    BY DEF Init, Guarded, Passed, Fresh, Unsent
  <1>2. Guarded => GuardHolds
    BY DEF Guarded, Passed, GuardHolds
  <1> QED
    BY <1>1, <1>2, GuardedStep, AdmitInvariant, PTL DEF Spec

=============================================================================
