-------------------------------- MODULE Atlas --------------------------------
(***************************************************************************)
(* The Atlas source (providers/atlas): the reads of tables, one entity     *)
(* type after another, and of glossary terms, one alone and then several   *)
(* at a time, over the addresses of ATLAS_URL, while secrets are rotated,  *)
(* types are created and SIGHUP comes.                                     *)
(*                                                                         *)
(* The reads share one event loop: what a read does between two waits is   *)
(* one step.  The secret comes from a file, of which only what LastGood    *)
(* promises is used; the contents of the file are numbered, and so are     *)
(* their stamps.                                                           *)
(***************************************************************************)
EXTENDS Naturals, FiniteSets, SequencesExt

CONSTANTS
  Reads,          \* the calls of describe and terms
  Addresses,      \* how many addresses ATLAS_URL names
  Types,          \* ATLAS_TABLE_TYPES, in order
  Tables,         \* the qualified names asked of describe
  Holder,         \* the type under which Atlas holds a table
  Closed,         \* the tables the account may not read
  Keys,           \* how many terms are asked
  BatchSize,      \* the names one bulk query can hold (ATLAS_MAX_QUERY_CHARS)
  MaxConcurrent,  \* ATLAS_MAX_CONCURRENT_REQUESTS
  MaxHops,        \* _MAX_REDIRECTS
  MaxRotations, MaxResets, MaxTroubles  \* bounds: rotations, signals, outages and redirects

ASSUME AtlasAssumption ==
  /\ Tables # {}
  /\ IsFiniteSet(Reads) /\ Addresses \in Nat \ {0}
  /\ IsInjective(Types) /\ Keys \in Nat \ {0}
  /\ Holder \in [Tables -> Range(Types)] /\ Closed \subseteq Tables
  /\ BatchSize \in Nat \ {0} /\ MaxConcurrent \in Nat \ {0} /\ MaxHops \in Nat
  /\ MaxRotations \in Nat /\ MaxResets \in Nat /\ MaxTroubles \in Nat

VARIABLES
  first,       \* _first: the address tried first
  generation,  \* _generation
  absent,      \* _absent: under what each type was found not to exist
  read,        \* the reads: what each has asked and found
  request,     \* their requests: of a bulk query, or of a term
  \* the secret's file
  written,     \* the contents given to it: its stamp is the last
  secret,      \* the one read last
  carried,     \* the one each request carried
  \* Atlas
  accepted,    \* the secret it accepts
  exists,      \* the types it knows
  troubles,
  settled      \* history: the types it knew when the absent ones were last forgotten

file == <<written, secret, carried>>
server == <<accepted, exists, troubles>>
atlasVars == <<first, generation, absent, read, request, file, server, settled>>

Names == 0 .. Addresses - 1
Kinds == Range(Types)
Bulk == 0                    \* the request of describe; terms has one for each key
Requests == 0 .. Keys
Never == <<MaxResets + 1, 0>>

\* The secret every request carries.
FileSecret == INSTANCE LastGood WITH Callers <- Reads \X Requests, offered <- written, shown <- secret, answer <- carried

NoRequest == [at |-> "idle", says |-> "nothing", index |-> 0, addr |-> 0, step |-> 0, hops |-> 0]
NotRead == [at |-> "idle", learnt |-> Never, types |-> {}, left |-> {}, batch |-> {}, found |-> {},
            closed |-> {}, failed |-> {}, refused |-> 0, passed |-> FALSE, since |-> {}]
Going == {"tables", "first", "rest"}
Silence == [q \in Requests |-> NoRequest]

\* The type a read of tables asks: it goes through those it was left with, in their order.
Type(r) == Types[Min(read[r].types)]

AtlasInit ==
  /\ first = 0 /\ generation = 0
  /\ absent = [t \in Kinds |-> Never]
  /\ read = [r \in Reads |-> NotRead]
  /\ request = [r \in Reads |-> Silence]
  /\ written = 1 /\ secret = 0 /\ carried = [rq \in Reads \X Requests |-> 0]
  /\ accepted = 1 /\ exists \in SUBSET Kinds /\ troubles = 0
  /\ settled = exists

-----------------------------------------------------------------------------
(* What happens to the file, to Atlas and to the server *)

Rotate ==
  /\ written <= MaxRotations /\ FileSecret!Offer
  /\ settled' = exists
  /\ UNCHANGED <<first, generation, absent, read, request, server>>

\* Atlas accepts another secret, before or after the file holds it.
Accept ==
  /\ accepted' \in (accepted + 1) .. (MaxRotations + 1)
  /\ UNCHANGED <<first, generation, absent, read, request, file, exists, troubles, settled>>

Create(t) ==
  /\ t \notin exists /\ exists' = exists \cup {t}
  /\ UNCHANGED <<first, generation, absent, read, request, file, accepted, troubles, settled>>

\* reset, from the signal handler.
Reset ==
  /\ generation < MaxResets /\ generation' = generation + 1
  /\ settled' = exists
  /\ UNCHANGED <<first, absent, read, request, file, server>>

\* Atlas answers what is true of it then, on whatever address was asked; the answer is
\* on its way until the read takes it.
Answer(r, q) ==
  /\ request[r][q].at = "sent"
  /\ request' = [request EXCEPT ![r][q].at = "answered",
                   ![r][q].says = IF carried[<<r, q>>] # accepted THEN "refused"
                                  ELSE IF q = Bulk /\ Type(r) \notin exists THEN "unknown" ELSE "yes"]
  /\ UNCHANGED <<first, generation, absent, read, file, server, settled>>

-----------------------------------------------------------------------------
(* AtlasClient.get: the addresses in turn *)

\* A request goes out, under the secret the file gives then.
Sends(r, q, asked) ==
  /\ request' = [request EXCEPT ![r][q] = asked]
  /\ FileSecret!Serve(<<r, q>>)

\* The address an answer just came from is the first tried.
Starts(r, q) == Sends(r, q, [NoRequest EXCEPT !.at = "sent", !.index = first', !.addr = first'])

\* The error of a request is the read's, at once; of several reads at once, when the others
\* are cancelled.
Raise(r, q, how) ==
  /\ IF read[r].at = "rest"
       THEN /\ request' = [request EXCEPT ![r][q].at = "over"]
            /\ read' = [read EXCEPT ![r].failed = @ \cup {how}, ![r].refused = @ + (IF how = "refused" THEN 1 ELSE 0)]
       ELSE /\ request' = [request EXCEPT ![r] = Silence]
            /\ read' = [read EXCEPT ![r].at = how, ![r].refused = @ + (IF how = "refused" THEN 1 ELSE 0)]
  /\ UNCHANGED file

\* The next address is tried; when none answers, the request fails.
NextAddress(r, q) ==
  LET a == request[r][q]
      next == (a.index + 1) % Addresses
  IN  IF a.step + 1 < Addresses
        THEN Sends(r, q, [a EXCEPT !.index = next, !.addr = next, !.step = @ + 1, !.hops = 0]) /\ UNCHANGED read
        ELSE Raise(r, q, "unavailable")

Sent(r, q) == request[r][q].at = "sent"
Fault == troubles < MaxTroubles /\ troubles' = troubles + 1

\* No connection opens: the calls that follow start at the next address.
Silent(r, q) ==
  /\ Sent(r, q) /\ Fault
  /\ first' = (request[r][q].index + 1) % Addresses
  /\ NextAddress(r, q)
  /\ UNCHANGED <<generation, absent, accepted, exists, settled>>

\* A timeout, a cut connection, a 5xx.
Outage(r, q) ==
  /\ Sent(r, q) /\ Fault
  /\ NextAddress(r, q)
  /\ UNCHANGED <<first, generation, absent, accepted, exists, settled>>

\* A redirect among the addresses, followed a few times.
Redirect(r, q) ==
  /\ Sent(r, q) /\ Fault
  /\ IF request[r][q].hops < MaxHops
       THEN \E to \in Names : Sends(r, q, [request[r][q] EXCEPT !.addr = to, !.hops = @ + 1]) /\ UNCHANGED read
       ELSE NextAddress(r, q)
  /\ UNCHANGED <<first, generation, absent, accepted, exists, settled>>

\* A redirect outside, to a login page.
Outside(r, q) ==
  /\ Sent(r, q) /\ Fault
  /\ Raise(r, q, "refused")
  /\ UNCHANGED <<first, generation, absent, accepted, exists, settled>>

\* The file of the secret cannot be read, so that the request never left; or the location
\* of a redirect cannot be parsed.  The error is neither of the two that say how Atlas is.
Broken(r, q) ==
  /\ Sent(r, q) /\ Fault
  /\ Raise(r, q, "error")
  /\ UNCHANGED <<first, generation, absent, accepted, exists, settled>>

\* The address that answered, after a redirect too, is the first tried from now on.
Says(r, q, what) ==
  /\ request[r][q].at = "answered" /\ request[r][q].says = what
  /\ first' = request[r][q].addr

\* Mutant of AfterRefusal: the next address may accept the account.
RefusedTriesNext(r, q) ==
  /\ read' = [read EXCEPT ![r].refused = @ + 1]
  /\ LET a == request[r][q] IN
     IF a.step + 1 < Addresses
       THEN Sends(r, q, [a EXCEPT !.index = (@ + 1) % Addresses, !.addr = (@ + 1) % Addresses, !.at = "sent", !.step = @ + 1])
       ELSE request' = [request EXCEPT ![r][q].at = "over"] /\ UNCHANGED file

\* No other address is tried.
AfterRefusal(r, q) == Raise(r, q, "refused")

\* 401 or 403.
Refuse(r, q) ==
  /\ Says(r, q, "refused")
  /\ AfterRefusal(r, q)
  /\ UNCHANGED <<generation, absent, server, settled>>

\* A page, JSON that cannot be read, any other status.
Garbled(r, q) ==
  /\ Sent(r, q) /\ Fault
  /\ first' = request[r][q].addr
  /\ Raise(r, q, "unavailable")
  /\ UNCHANGED <<generation, absent, accepted, exists, settled>>

-----------------------------------------------------------------------------
(* AtlasProvider.describe *)

\* Under what a type found absent is recorded: the signal and the secret of now.
Now == <<generation, written>>

\* The next names are asked under the type; then what was not found, under the next type.
AsksOn(r, s) ==
  LET on == IF s.left # {} THEN s ELSE [s EXCEPT !.types = @ \ {Min(@)}, !.left = Tables \ s.found]
  IN  IF on.types = {} \/ on.left = {}
        THEN /\ read' = [read EXCEPT ![r] = [on EXCEPT !.at = "ok"]]
             /\ request' = [request EXCEPT ![r] = Silence]
             /\ UNCHANGED file
        ELSE \E names \in SUBSET on.left :
               /\ names # {} /\ Cardinality(names) <= BatchSize
               /\ read' = [read EXCEPT ![r] = [on EXCEPT !.batch = names, !.left = @ \ names]]
               /\ Starts(r, Bulk)

Describe(r) ==
  /\ read[r].at = "idle"
  /\ UNCHANGED <<first, generation, absent, server, settled>>
  /\ AsksOn(r, [NotRead EXCEPT !.at = "tables", !.learnt = Now, !.since = settled, !.left = Tables,
                              !.types = {i \in DOMAIN Types : absent[Types[i]] # Now}])

\* Mutant of Learnt: a type is recorded as absent under the signal and the secret of now.
LearntNow(r) == Now

\* A type found absent by a read under way is forgotten too.
Learnt(r) == read[r].learnt

\* The type does not exist: it is not asked again until the signal or the secret changes.
NoSuchType(r) ==
  /\ read[r].at = "tables" /\ Says(r, Bulk, "unknown")
  /\ absent' = [absent EXCEPT ![Type(r)] = Learnt(r)]
  /\ AsksOn(r, [read[r] EXCEPT !.left = {}])
  /\ UNCHANGED <<generation, server, settled>>

Held(r) == {x \in read[r].batch : Holder[x] = Type(r)}

\* One table the account may not read hides its batch.
TablesAnswered(r) ==
  /\ read[r].at = "tables" /\ Says(r, Bulk, "yes")
  /\ AsksOn(r, IF Held(r) \cap Closed # {} THEN [read[r] EXCEPT !.closed = @ \cup read[r].batch]
               ELSE [read[r] EXCEPT !.found = @ \cup Held(r)])
  /\ UNCHANGED <<generation, absent, server, settled>>

-----------------------------------------------------------------------------
(* AtlasProvider.terms: the first read alone, then several at a time *)

Terms(r) ==
  /\ read[r].at = "idle"
  /\ UNCHANGED <<first, generation, absent, server, settled>>
  /\ read' = [read EXCEPT ![r].at = "first"]
  /\ Starts(r, 1)

\* A term Atlas does not hold, or refuses to the account, is answered too.
FirstTerm(r) ==
  /\ read[r].at = "first" /\ Says(r, 1, "yes")
  /\ read' = [read EXCEPT ![r].at = IF Keys = 1 THEN "ok" ELSE "rest", ![r].passed = TRUE]
  /\ request' = [request EXCEPT ![r] = [q \in Requests |-> [NoRequest EXCEPT !.at = IF q > 1 THEN "queued" ELSE "over"]]]
  /\ UNCHANGED <<generation, absent, file, server, settled>>

InFlight(r) == {q \in Requests : request[r][q].at \in {"sent", "answered"}}

\* The semaphore lets the terms through in order.  A read whose turn comes once another
\* has failed is cancelled before it reaches the network.
NextTerm(r, q) ==
  /\ read[r].at = "rest" /\ read[r].failed = {}
  /\ request[r][q].at = "queued" /\ \A p \in Requests : request[r][p].at = "queued" => q <= p
  /\ Cardinality(InFlight(r)) < MaxConcurrent
  /\ UNCHANGED <<first, generation, absent, read, server, settled>>
  /\ Starts(r, q)

TermAnswered(r, q) ==
  /\ read[r].at = "rest" /\ Says(r, q, "yes")
  /\ request' = [request EXCEPT ![r][q].at = "over"]
  /\ read' = [read EXCEPT ![r].at = IF read[r].failed = {} /\ \A p \in Requests \ {q, Bulk} : request[r][p].at = "over"
                                      THEN "ok" ELSE @]
  /\ UNCHANGED <<generation, absent, file, server, settled>>

\* Mutant of FirstOf: an outage is told first.
OutageFirst(failed) ==
  IF "unavailable" \in failed THEN "unavailable" ELSE IF "refused" \in failed THEN "refused" ELSE "error"

FirstOf(failed) ==
  IF "refused" \in failed THEN "refused" ELSE IF "unavailable" \in failed THEN "unavailable" ELSE "error"

\* The first failure cancels the others.
Abort(r) ==
  /\ read[r].at = "rest" /\ read[r].failed # {}
  /\ read' = [read EXCEPT ![r].at = FirstOf(read[r].failed)]
  /\ request' = [request EXCEPT ![r] = Silence]
  /\ UNCHANGED <<first, generation, absent, file, server, settled>>

\* The deadline passes, or the call is cancelled.
Cut(r) ==
  /\ read[r].at \in Going /\ read[r].failed = {}
  /\ read' = [read EXCEPT ![r].at = "cut"]
  /\ request' = [request EXCEPT ![r] = Silence]
  /\ UNCHANGED <<first, generation, absent, file, server, settled>>

AtlasNext ==
  \/ Rotate \/ Accept \/ Reset
  \/ \E t \in Kinds : Create(t)
  \/ \E r \in Reads :
       \/ Describe(r) \/ NoSuchType(r) \/ TablesAnswered(r)
       \/ Terms(r) \/ FirstTerm(r) \/ Abort(r) \/ Cut(r)
       \/ \E q \in Requests :
            \/ Answer(r, q) \/ Silent(r, q) \/ Outage(r, q) \/ Redirect(r, q) \/ Outside(r, q)
            \/ Broken(r, q) \/ Refuse(r, q) \/ Garbled(r, q) \/ NextTerm(r, q) \/ TermAnswered(r, q)

AtlasSpec == AtlasInit /\ [][AtlasNext]_atlasVars

-----------------------------------------------------------------------------
(* Properties *)

\* "At once, with no other address tried, so that no loop of attempts locks the account":
\* a call is refused once; a call that was let in and then is not, by a secret changed
\* under it, as often as it has requests under way.
RefusedOnce ==
  \A r \in Reads : read[r].refused > 1 => read[r].passed /\ read[r].refused <= MaxConcurrent

\* A read of tables that ends well has found every table the account may read, of the types
\* Atlas knew when the signal or the secret last changed before it: the record of the types
\* that do not exist, which other reads write, hides none of them.
NoTypeLost ==
  \A r \in Reads : read[r].at = "ok" /\ ~read[r].passed =>
    \A x \in Tables : Holder[x] \in read[r].since => x \in read[r].found \cup read[r].closed

\* Of the failures of reads at once the refusal is told, whichever came first; an error of
\* another kind, only when nothing says that Atlas did not answer; and nothing of a call
\* that is over is still under way.
RefusalTold ==
  \A r \in Reads : read[r].at \notin Going =>
    /\ read[r].refused > 0 => read[r].at = "refused"
    /\ read[r].at = "error" => read[r].failed \subseteq {"error"}
    /\ InFlight(r) = {}
=============================================================================
