# akko-mcp-trino: the verification project

`akko-mcp-trino` is an MCP server that lets an agent read Trino: it lists and
searches tables, describes them, runs read-only SQL with a time budget, and adds
to its answers what context sources (glossaries, catalogs, files) say of a table.
Its hard parts are concurrent: one event loop shared by all the calls for the
context, threads that run and stop statements, pools of slots, caches and files shared by
the process; and it must say to each caller only what that caller may see. This directory holds the TLA+ modules of those parts, the TLC runs that
check them on small instances, and proofs of their safety for every instance.

Paths below are relative to `akko_mcp_trino/` unless they say otherwise.

| Module | Models | Checked by | Proved in |
| --- | --- | --- | --- |
| `ByteCache` | `context/caches.py`, the cache shared by the context sources | `ByteCache.cfg` | `ByteCacheProofs` |
| `ContextChain` | `context/chain.py`, the reads of a call and the breakers | `ContextChain.cfg`, `ContextChainBurst.cfg` | `ContextChainProofs` |
| `QueryFetch` | `trino_client.py`, a statement, its budget and its cancel signal | `QueryFetch.cfg` | `QueryFetchProofs` |
| `Search` | `search.py`, the search over the catalogs of a caller | `Search.cfg` | `SearchProofs` |
| `ToolCall` | `tools.py`, `audit.py`, a tool call from its first check to its audit line | `ToolCall.cfg` | `ToolCallProofs` |
| `Admission` | `middleware.py`, `auth.py`, `app.py`, `modules/token_policy.py`, `token_exchange.py` and the identity modes of `trino_client.py` | `Admission.cfg` | `AdmissionProofs` |
| `SqlGuard` | `sql_guard.py`, which statements an agent may run | with `Admission` | `AdmissionProofs` |
| `ContextLoop` | `context/loop.py` and the end of the process (`__main__.py`, `app.py`) | `ContextLoop.cfg` | `ContextChainProofs` |
| `Shown` | `context/visibility.py` and how `context/reply.py` uses it | `Shown.cfg` | `ShownProofs` |
| `Reply` | `context/gate.py`, `context/merge.py`, the bounded answer of `context/reply.py` | with `Shown` | |
| `LastGood` | what a file that is read again promises (abstract) | with `KeptFile` | |
| `KeptFile` | `context/secrets.py` and the refresh of `context/file.py`; implements `LastGood` | `KeptFile.cfg`, `ChangeUnseen.cfg` | `KeptFileProofs` |
| `Atlas` | the client and the provider of `providers/atlas` | `Atlas.cfg` | `KeptFileProofs` |

The `MC...` modules only give TLC its small sets; everything else of a model is in
the module of its component. To run one:

    tlc -config ContextChain.cfg MCContextChain.tla
    tlapm ContextChainProofs.tla

## 1. The system

### Components

**Shared cache of the context sources** (`context/caches.py`). State: entries in
insertion order with their expiry, two running sums of bytes (all, and by source),
the futures of the reads in flight and the task that leads each. Operations:
`get`, `put` (evicts the oldest), `load_many` (shares a read between its callers),
`abandon`. Used only from the context loop. Hard: a read that ends after it was
cancelled or abandoned and replaced; a waiter whose leader is cut; sums never
recomputed. Correct when a key is read once at a time, nobody waits for a future
that nothing settles, every call that returns has all it asked for, and the sums
are the sizes held.

**Context chain and breakers** (`context/chain.py`). State: a breaker and a count
of running reads per source, a generation moved by a signal, a gauge and a
counter. Operations: `gather` and `terms` (admission, shared reads, the deadline,
two short waits, the outcome), `reset_refused` in a signal handler. Interacts with
the cache (each batch of a read leads or follows a flight), with the sources, with
the callers' threads (which give up after a grace). Hard: deadlines that differ
between a leader and those who follow it, sources that ignore cancellation,
secrets changed during a call, calls that conclude in any order. Correct when a
call ends in its time and holds nothing after it, a read is cancelled once, the
count of reads is exact, and a breaker says what the source really did.

**Statement run, budget and signal** (`trino_client.py`). State: per query four
events, a timer, a registered stop; a signal (`Cancellation`) shared by queries,
with its stops under a lock. Operations: `_run`, `_fetch`, `cancel`, `watch`,
`forget`, `wait`. Three threads meet on one statement. Hard: a cancel sent before
Trino named the statement does nothing; a stop that looks at a query about to
send; a page that is read as the budget ends. Correct when a told query is
stopped, nothing is left running, the reason given is the true one and an answer
is whole.

**Catalog search** (`search.py`). State of a call: the walks of the catalogs and
their events, the rows taken, a stop; of the process: the slots of the threads; of
a chain of calls: the cursor. Interacts with the statement runner (every statement
has the time left of the call and the signal of the pass) and with the other
searches (the slots). Hard: several catalogs ahead in threads, replayed in order
under a cap; a call that stops anywhere, and a next call that must go on from
there. Correct when the answer is that of a search of one catalog at a time, every
row is given once over a chain, cursors advance, and slots balance.

**Tools, profile slots and audit** (`tools.py`, `audit.py`, `middleware.py`). State:
the slots shared by the profiles, and of each call its deadline, whether it expired and
the code of its error. A call is checked, runs its statements, adds advice or context, and
is audited. Interacts with the statement runner (which asks how much time the call has,
and marks it when its deadline stopped a statement), with the context chain, with the
search, with the code of plugins and describers. Hard: the slot and the audit line on
every way out; one deadline for steps which each have a time of their own; work that comes
after the answer is at hand and must not cost it. Correct when slots balance, one line is
written per call with what the agent received, and no answer is late.

**Identity and token exchange** (`middleware.py`, `app.py`, `auth.py`, `identity.py`,
`token_exchange.py`, `modules/token_policy.py`). State: the context of each request, the
user who signed in, the cache of exchanged tokens, with expiry and a bound. Operations: the
door of an HTTP request or of a stdio call, the connection of a statement, `token_for`.
Hard: concurrent exchanges of one token, a clock read before the exchange, one sign-in for
the calls of a session. Correct when a statement runs as the caller of its own request, a
token is given only for the bearer it was exchanged for and never near its expiry, and
nobody is served whom the settings refuse.

**SQL guard** (`sql_guard.py`). No state: a decision over a parsed statement. Correct when
what it lets through reads, and reads nothing of the system catalog, however its names
are completed by the session.

**Context loop and shutdown** (`context/loop.py`, `__main__.py`). State: a loop in
a thread, calls submitted from others, sources to close once. Hard: a call handed
to a loop that closes; a signal during the close, even within another handler. Correct when
every call returns, the process closes once and wholly, and exits though reads hang.

**Context visibility and reply** (`context/visibility.py`, `context/gate.py`,
`context/reply.py`, `context/merge.py`). State: a cache of what an identity may see, no lock
held from the lookup to the put. Hard: what Trino lists changes between two statements; an
older answer that replaces a newer one; a bounded answer that leaves terms out. Correct when a
description reaches only a caller who was told of the table, nothing is asked of Trino that
it did not list, and an answer is bounded, closed and honest about what it lacks.

**Secrets and file source** (`context/secrets.py`, `context/file.py`). State: the
last good value, the identity of the file when it was read. Hard: a file replaced, emptied,
moved or unreadable between two steps. Correct when a broken file never replaces a good
value and a new one is seen at the next read.

**Atlas source** (`providers/atlas` of the repository). State: the address that answered
last, the types found absent and under which signal and secret. Hard: reads under way while a
type is found absent, a secret is rotated and a signal forgets the absent types. Correct
when a refused account is not tried again and again, no table is lost, and a refusal is told.

**Transports** (`app.py`, `server.py`), **built-in modules** (`modules/`): what decides who
is served is with the identity, the lifespan of the app with the shutdown; the rest is wiring.
**Configuration and loading**, **health and metrics**, **test doubles, deployment, docs**: no
state of interest.

### How they interact

A tool call runs in a thread. It is admitted (profile slot, audit), may run
statements (statement runner) or a search (walks, each a series of statements), and
hands its tables to the context loop, whose chain reads the sources through the
shared cache while the caller waits with a grace beyond the deadline. The signal
of a pass of a search is the `Cancellation` of its statements. A request is admitted before
its tools run, and each statement connects as its caller, with a token exchanged in the
thread of the statement. What a caller may be told of is proven by statements of that caller
before the chain reads, and filtered again after. `SIGHUP` calls
`reset_refused` beside the loop, and `reset` of Atlas; the end of the process closes the
sources, on the loop, then the loop.

The models meet where the code does. `Admission` uses the guard of `SqlGuard` as the
guard of its `Run`; `Shown` computes what it answers with the operators of `Reply`;
`Atlas` takes the secret of each request by the actions of `LastGood`, of which `KeptFile` is
shown to be an implementation, so it relies on no more of the file than is proved. The chain
is an outcome in `Shown` and a bounded wait in `ToolCall`, a search one wait in `ToolCall`.

## 2. The modules

### ByteCache

One action is what one task runs between two awaits, since the cache is used from
one event loop only. A task is one call of `load_many`; the future its leader
creates for a key is named by the pair (leader, key), which is enough because a
task leads a key once (part `Sorted` of the invariant in the proofs).

| State | Code |
| --- | --- |
| `store` | `_entries`, each held key with the keys inserted before it, `_bytes`, `_group_bytes` |
| `inflight`, `leaders`, `future` | `_inflight`, `_leaders`, the futures |
| `pc`, `asked`, `todo`, `led`, `waitOn`, `awaiting`, `found`, `cancelling` | the locals of one `load_many` and the state of its task |

`Read` is one turn of the loop of `load_many` up to its first await: hits, waits
and the lead, with the drop of expired entries. `Loaded`, `LoadFails` and
`LoadCancelled` are the three ends of `_lead`, each with its `finally`; `Loaded`
also puts every value (with evictions) in the order they came. `Wake` resumes a
task at its await; `Cancel` and `Abandon` are what the chain does at a deadline;
`Get` and `Age` are a lookup that drops an expired entry and the passing of its
expiry. A value is its size; a clock is the moment an entry expires. The order of the entries is kept
as the set of those `older` than each, so that an eviction is one set (`Excess`): the entries
before which nothing that went was enough, which are those the `while` of `put` drops one by one.

### ContextChain

One action is again a step of one task between two awaits; `ResetBump`,
`ResetList` and `ResetGauge` are the signal handler, which runs beside the loop in
three steps. Time is a tick counter; a timer of the loop may run late by `MaxLag`
ticks in all, counted in `lag`.

| State | Code |
| --- | --- |
| `phase`, `deadline`, `cutEnd`, `inTime`, `status`, `stamp` | the locals of `_collect` and `_cut` |
| `read` | the task of a read: its flight (led or followed), how often it was cancelled, what it has so far |
| `active`, `breaker`, `gauge`, `errors`, `generation` | `_active`, `_breakers`, the metrics, `_refused_generation` |
| `secret`, `refusals` | the secret a source reads with, and (history) those it refused |

`Start` is the admission of a call for all its sources, in the order of its tests
(`Verdict`). `Lead`/`Follow`/`Wake` are the cache seen from a read: a batch leads a
flight or follows one. `SourceAnswers`, `SourceFails` and `SourceCancelled` are the
source, free to answer late, to fail at the deadline it was given, or to swallow a
cancellation. `AllDone`, `Expire`, `CutDone`, `CancelLate`, `LeaveBehind` are
`_collect` and `_cut`; `CallerGone` is the caller that stops waiting after its
grace. `Conclude` is one atomic step, as in the code: no await separates the
outcomes from the `finally`.

### QueryFetch

Three kinds of threads meet: the thread of a query (`pc`), its two helpers
(`helper[q]["timer"]`, `helper[q]["stop"]`), and the canceller. The four events of
`_fetch` are `expired`, `done`, `cancelled`, `executing`; `given`, `stops` are the
fields of `Cancellation`. An action is what one thread does between two uses of
what it shares. `stmt` is the statement as Trino and the cursor know it: a cancel
of a statement that has no name yet does nothing, which is why the helper reads
the name before it cancels (`Look`, `knew`) and tries again. A fetch raises in two ways:
because its statement is over (`Raises`), or because the client failed where Trino did
not, by a timeout, a lost connection or a row it cannot convert (`GivesUp`). The statement
then stays as it was, `sent` or `named`, and `got` remembers it; a POST given up never
gives the cursor a name (`Named` asks for a thread that waits). `Cancel` is atomic
because it holds the lock; the stops it took are then started one by one
(`StartStop`), each in a thread or, with none to spare, in the canceller.

### Search

The thread of the call (`main`) fills the window, replays the events of the next
catalog, leaves the pass, joins its threads and answers. Each walk (`walker[c]`)
moves from statement to statement, in a thread of its own or in the thread of the
call, and leaves events. The pool has `Concurrency` threads, so a walk that holds
a slot may still be queued (`Begin`). A catalog is its number in the sorted list, a
schema its number in its catalog, and what a statement finds is a number of rows,
so row i of a phase is `<<catalog, schema, phase, i>>`. `Worlds` says what Trino
holds and how it answers each statement: `ok`, `fails`, `slow` (longer than a query
may be), `refused` (a view the caller may not read). `timeUp` is the moment only
the reserve of the call is left; it may come at any step, and a statement may then
also raise the deadline of the call itself (`CallTimesOut`). `Resume` is the agent
calling again with the cursor it got. `OneAtATime` is the reference definition: the
search of one catalog at a time, as a function of how far it has gone, over the catalogs
(`CatalogsUpTo`) and over the schemas of each (`SchemasUpTo`). It knows no walks and no events: it
asks each statement with the rows it has.

A statement cancelled by the pass raises in its thread; its events are then never
read, so the walk is `dropped`. The other calls of the process take and give slots
only while this call looks for one: at any other time what they hold changes
nothing it does. A slot of a call that could not start a thread is counted in
`lost` (see the findings).

### ToolCall

A tool is a set of paths (`Paths`), one for each way its data may send it, and a path is the
sequence of its steps: `check` (its arguments), `guard` (the read-only guard of
`execute_query`), `read` (a statement), `visible` (the lookup of a schema), `slot` and
`aggregate` (a profile), `describers`, `context`, `walk`, `plugin`. The rest of its path is
where a call stands; `pc` says whether it computes or waits, and for what.

| State | Code |
| --- | --- |
| `now`, `deadline`, `expired`, `error` | `time.monotonic()` and the fields of `audit.ToolCall` |
| `stop`, `byCall` | the wait in flight: `_time_budget`'s `allowed`, and whether the call set it |
| `context`, `looks` | the deadline of `ContextService`, the tables `error_reply` has still to look up |
| `free` | `profile_slots` |
| `out`, `told`, `line` | what the tool returned, what the agent received, the `AuditEvent` |
| `cause`, `atHand` | history: what failed last; in time when the advice, the context or the walk began |

`Ask` is `run` of any tool: `TimeAllowed` and `OwnBudget` are `time_allowed` and
`_time_budget`, and `Stopped` says which of the two times ended the wait. `UnknownColumn`,
`Look`, `LookEnds`, `Advise` are the advice of `error_reply`; `Gate`, `Gather`,
`ReadTerms`, `ContextEnds` the reading of the context, whose chain is `ContextChain`;
`Walk` and `WalkEnds` enclose a whole `Search`; `Foreign` is the code of describers and
plugins, free to note an error, to see the call expire, to raise. `Answer` is, in this order,
the `finally` of `profile_table`, `_Call.returned` and `_Call.__exit__`; `Raise` is
`__exit__` for a tool that raised.

Time passes only in `Tick`, while no call computes: what a call computes takes no time, and
a statement, a chain or a walk ends at most `Lag` after it should. Code of another package
has no such bound.

### Admission and SqlGuard

A bearer is the claims it carries, a setting a record of what an operator may write, and a
server starts only with those `Starts` lets through. The door runs on the event loop without
an await, so `Arrive` is one step; the exchange of a token is three (`AskToken`, `Issue`,
`Store`), because other threads run while the identity provider answers.

| State | Code |
| --- | --- |
| `cfg` | the settings: transport, identity mode, auth, policy |
| `req` | the context of each request: its `Principal`, its bearer, and the statement it runs |
| `cache` | `_cache` of `TokenExchange`, with the order of its dict as a `place` |
| `named`, `lock` | the user of `_oauth2_stdio_middleware` and its lock |

`Verified` is `JwksJwtAuth.verify`, `PolicyRefusal` is `TokenPolicyExtension.after_auth`,
`Handle`, `SignIn`, `Named`, `GiveUp` the sign-in of a stdio session, `Cached`, `Stored`
the two visits of `token_for` to its cache, `Connect` and `AskToken` the connection of each
mode. What the identity provider and Trino say is external.

`SqlGuard` is the decision of `is_read_only_sql` over the tree a parser made of a statement,
a few classes of node with the parts of the names they hold. `ReadsGovernedOnly` is the
reference: what Trino would do with the statement in the catalog of the session. `Run` of
`Admission` is guarded by the first, and `GuardHolds` states the second of what was sent.

### ContextLoop

A frame is code that closes: the end of `main`, the worker thread of the lifespan of the app,
and each handler of `SIGTERM`, which interrupts whatever runs on the main thread. `stack` is
that thread: only its top frame runs, so a handler can interrupt a close, another handler,
or `main` while it holds the lock.

| State | Code |
| --- | --- |
| `ref`, `lock`, `loop`, `ready`, `stopping`, `left` | `_loop`, `_lock`, the step `_run` is at, the callbacks of the loop, what it cancels as it ends |
| `task`, `future`, `call` | what `submit` made of each coroutine, and where each `submit` is |
| `frame`, `stack`, `closing` | where each frame is, the main thread, `closing` of `main` |

`Look` then `Schedule` are the two halves of `submit`, which takes no lock. `Sweep`,
`Waited`, `CloseLoop` are the end of `_run`. A read may ignore its cancellation for ever.

### Shown and Reply

A call is a record that moves through the checks of `describe_table`, of a page of
`describe_schema`, or of a plugin that reads a table: recorded as listed (`Record`), the canary
(`LookCanary`, `AskCanary`, `KeepCanary`), the select (`LookSelect`, ...), the proof of a
table from the catalogs down (`Prove`, `Look`, `Ask`, `Keep`), the sources (`Gather`), the answer
(`Serve`). Look, ask and keep are three steps, because no lock is held from one to
the next: another call may ask, be told otherwise and keep its answer in between, and `Change`
is Trino listing something else to a caller.

| State | Code |
| --- | --- |
| `cache` | the entries of `Visibility`, one key per caller and question |
| `call` | the locals of a call: `stack` is the lists still to be asked, from the outermost |
| `lists` | what Trino lists to each caller (external) |
| `told` | history: when Trino last told each caller each fact |

`Reply` is `filter_table` (the gate), `MergeTable` (the merge of the sources in their order)
and `Render` (the bounded answer), as operators on what the sources said; sizes count
entries, terms and related terms. `Status` is what the answer says of each source. The loops of
`_render` are closed forms: what several sources give is a function of their places in the
configuration, and an entry `Fits` where the table and the columns up to it, each of their terms once
(`SizeUpTo`), are within `Room` at every place up to there, as `fits` adds them up.

### LastGood and KeptFile

`LastGood` is what whoever reads the file may rely on: good contents, numbered as they are
given, of which one is served, and later ever a newer one. `KeptFile` is the code: `Stat`, `Read` and
`Keep` under `_lock`, the identity (`seen`) marked before the read for a document and
after it for a secret, the last content kept when the new one is bad, and `maps`
(`AskMaps`, `LookAtDisk`, `Compare`), which takes no lock. The file is written, truncated,
moved away and back, and a read of it may fail, at any step. `Promise` instantiates
`LastGood`: `offered`, `shown` and `answer` are variables of both.

### Atlas

`read` is a call of `describe` or of `terms`, `request` its requests: the one of `describe`,
and one for each term. `Starts` is `AtlasClient.get` with the address tried first;
`Silent`, `Outage`, `Redirect`, `Outside`, `Broken`, `Refuse`, `Garbled` are the ends of an attempt,
each with the address tried next or the error of the call: refused, unavailable, or of neither
kind (`Broken`: the file of the secret cannot be read, which the model lets happen as the
request leaves, or a redirect cannot be parsed). `Describe`, `NoSuchType`,
`TablesAnswered` walk the types and the batches of names; `absent` is `_absent`, the signal and
the secret under which a type was found not to exist. The types a read was left with are a set
of positions, of which the first is asked; a request starts at the address the last answer came from. `FirstTerm`, `NextTerm`,
`TermAnswered`, `Abort` are the first term alone, then several under the semaphore. The secret
a request carries is given by `FileSecret!Serve`, an action of `LastGood`.

## 3. The runs

Every bound is a constant of the module, named in its `.cfg`, and stands in the guard it
bounds. Several runs explore more than one *scene*: an instance of the model fixed at the
first state (the `InScene` of an `MC...` module), so that each hazard has the smallest
instance in which it happens and one run covers them all. Type invariants are proved
(section 4) rather than run; `ContextLoop`, `Shown` and `Atlas` state none of their own.

**`ByteCache`**, two scenes. *calls*: three calls over two keys, every value too large to stay,
so that every interleaving of reads, failures, cancellations and abandons happens; three
calls are a leader, a follower and the call that replaces the leader once it is abandoned.
*store*: two calls over three keys of two sources with values of 1, 2 and 4 bytes in a cache of
3: they fit, evict one, evict several, are too large; one of the two may be cancelled and
abandoned, and then puts over what its successor put. A key is read once at a time
(`SingleFlight`), a call that returns has all its keys (`AnswersEverything`), the two running
sums are what the entries weigh (`BytesExact`), a waiter moves on (`WaiterMovesOn`).

**`ContextChain`**: two calls, deadlines already passed or two ticks ahead, a loop one tick
late, a secret that changes once. Two ticks are the least in which a read can end
before, at and after a deadline. A call that is over is counted once, in the right outcome, and
holds nothing (`OverIsOver`); a read is cancelled once and not before its time
(`CancelledOnce`); a call ends in its time (`EndsInTime`), and ends (`CallEnds`).

**`ContextChainBurst`**: three calls of which two may read at once, and one signal that lifts the
refusals. The count of reads is that of the reads (`ActiveExact`), an outage never shortens a
refusal while the secret does not change (`OutageNeverShortensRefusal`), a burst of failures
opens one breaker (`BurstOpensOnce`).

**`QueryFetch`**, two scenes: one query with every mix of a budget and a signal and with
requests, statements and clients that fail, and two queries that share one signal. An ended
query left no stop and no timer, and no statement that runs but where a DELETE or the client
itself failed (`EndedLeavesNothing`; finding 8 is that exception), an answer is whole
(`AnswerIsWhole`), no query of the signal reads once `wait` returned
(`NothingReadsAfterWait`), a told query ends (`CancelEnds`).

**`Search`**: six worlds (`MCSearch`), each made for one hazard: a page that fills within a phase
and between two (`Rich`), schemas and catalogs that fail or are too slow beside others that
answer (`Poor`, `Slow`), a view the caller may not read behind a catalog that fills the page
or not (`Refused`), words that only match one by one (`Empty`), one schema named by the
caller (`Named`). Pages hold two rows, two catalogs are searched at once, three slots are
shared with other calls, a chain has at most four calls. The answer is that of a search of
one catalog at a time (`SameAnswer`); a chain gives each row once, says complete only with
everything, and looks for single words only when the phrase found nothing (`ChainIsWhole`);
cursors advance (`CursorAdvances`), slots balance (`SlotsExact`), a call ends (`CallEnds`).

**`ToolCall`**: two calls, each of any of the ten tools, a budget of five seconds, reserves of
two, waits up to one second late, one profile at a time. Two calls are the least that contend
for a slot; five seconds leave time for an answer, for what comes after it, and for each
reserve to be entered, skipped and passed. No answer is late (`NothingLate`), the
advice, the context and the walk never turn an answer into a late one (`ReserveKeepsAnswer`), the one
line of a call says what its agent received (`LineTellsAnswer`), slots balance (`SlotsExact`).

**`Admission`**: two requests that share the cache of tokens or the sign-in, one for the door and for the
guard; eight kinds of bearers (two of one caller, of another client, expired soon, without the
scope, forged, without a subject, also for Trino) under every setting a server starts with; tokens
of three lifetimes over a cache of one entry, three ticks. One entry is the least that
must be evicted, three ticks let a token be issued, kept, found and found expired. About two
hundred statements, every shape of name in every class, meet the guard. A statement reaches
Trino as its caller (`RunsAsCaller`), a kept token outlives its entry by the margin
(`CachedTokenLives`), and what an agent wrote only reads what is governed (`GuardHolds`).

**`ContextLoop`**: over stdio one tool call and two signals, over HTTP two tool calls. Two
signals are the least where a handler interrupts a handler. The process closes once, wholly,
and leaves waiting only whom it could not cancel (`CloseHolds`), every caller ends (`CallersEnd`), and a
process that begins to close exits though reads hang (`ShutdownEnds`).

**`Shown`**, four scenes. *proof*: two calls of two callers prove a table and list it, in a cache of
four entries, while what Trino lists changes and time passes the life of an entry. *canary*: two
calls of one caller and a canary. *join*: the select check and the proof of joins. *answer*:
one call with 576 contents of two sources (texts, grains, terms, columns; served or
not; failed or not) and ten readings of terms, in room for six. What is shown was listed to
that caller at most one life and two calls ago (`ShownWasTold`), what is asked was too
(`AsksOnlyTold`), the canary and the select were checked (`ContextIsChecked`), and every
answer fits, cites only terms it has, and calls no source ok that lost a text (`AnswerHolds`).

**`KeptFile`**: a secret or a document, three writes or moves, one failed read, two callers of two
calls each and one asker of `maps`. Three writes are a good content, a bad one, and the good one
after it. The callers see one good content after another (`ServesLastGood`, the refinement of
`LastGood`), a fresh one where it could be read (`FreshAnswer`), and `maps` says no only while the
file is read again (`NoOnlyWhileRead`).

**`Atlas`**, three scenes: two reads of tables while types are created, a signal comes and the
secret is rotated; one read of tables with two faults over two addresses; one read of four
terms, two at a time, with two faults. A refused account is not tried in a loop (`RefusedOnce`), a
type found absent hides no table that exists since the last signal or secret (`NoTypeLost`), and
of several failures the refusal is told, and an error of neither kind only when nothing says
that Atlas did not answer (`RefusalTold`).

**`ChangeUnseen`** shows the one disagreement that a run of its own reproduces (section 7).

### Fairness

- `ByteCache`: an event loop runs the tasks that are ready, and the chain cuts the
  calls it bounds. A loader never has to answer.
- `ContextChain`: time passes and the code of each call runs. No fairness for the
  sources: they may answer, fail or ignore their cancellation for ever.
- `QueryFetch`: threads run, and a POST is answered, refused or given up (the
  client has a timeout on it). A running statement never has to end by itself, and a
  client never has to give it up.
- `Search`: the thread of the call and its walks run, and a statement ends: by its
  answer, its time or its cancel, which `QueryFetch` shows. The other calls never
  have to give their slots back.
- `ContextLoop`: threads are scheduled, and a wait that has a timeout ends. Nothing is
  asked of the loop, whose reads may hang and whose thread may be left behind, nor of the host,
  which may send no signal.
- `ToolCall`, `Admission`, `Shown`, `KeptFile`, `Atlas`: none. Their properties are safety
  properties; that a call ends follows from those of the parts it waits for, and from no
  module here for the code of a plugin, an identity provider or a file system.

## 4. The proofs

The proofs hold for every value of the constants that satisfies the named
assumptions of the module (`CacheAssumption`, `ChainAssumption`, `BreakerAssumption`,
`ContextLoopAssumption`, `FetchAssumption`, `SearchAssumption`, `SentinelAssumption`,
`CallAssumption`, `AdmissionAssumption`, `KeptFileAssumption`, `AtlasAssumption`,
`ShownAssumption`, `AnswersAssumption`, `ReplyAssumption`), which give the constants their types and bounds, and say that what stands for
nothing (no breaker, no cursor, no stop) is not one of the things it stands beside.
`AnswersAssumption` says too that only the sources of the configuration answer, and that the terms a
source answers are finitely many, each with its key and its glossary; `ShownAssumption`, that the columns
of the table are among those DESCRIBE lists.
`AdmissionAssumption` says too that what a request asks is one of the statements considered and is
not the text of the server's own.
`CallAssumption` says one thing more: a wait ends less than a reserve too late. The code
has it for the context (a grace of at most 0.25 s, a reserve of at least 0.3 s:
`context/chain.py:46`, `config.py:97-102`). For a statement the lag is the time in which
Trino answers a DELETE; a statement Trino has not named yet cannot be stopped, and outlasts
it. A search reserve of 0, with which the server starts after a warning, is outside of it.

**`ByteCacheProofs`**. `FlightInv` is the conjunction of the types, `Registered` (the two tables
of the reads in flight name the same task for a key, the one whose future is
pending), `Leading` (only a loading task leads; a key it leads is pending unless the task was
cut), `Sorted` and `Placed` (each key a task asked for is to look up, read, waited for
or found, one of the four, and where the task stands says which are empty), and `Captured` (what a
call waits for is a future that was created). `SingleFlight` alone is not inductive: the step that
ends a read removes the entry of its key, and `Registered` says whose entry that is.
`StoreInv` is the invariant of the store: the two sums are those of the entries (`Exact`), which are
finitely many and in a strict order (`Ordered`), and the bound holds. Sums and the puts of one
read are folds, so the proof has its own induction over the subsets of a finite set
(`UpFromEmpty`, from the well-foundedness of strict inclusion) and the existence of folds
(`FoldExists`) under `SumRemove` and `SumSplit`; `EvictKeeps` is the step that needs the order: the oldest
entry an eviction keeps has been preceded by exactly what went. That a read keeps finitely many keys comes
from the guard of `Submit`: a caller passes a list.

**`ContextChainProofs`**. `IInv` joins the types, the table of the reads (a read that has
ended has an outcome), and for each call `Paced` (the moments of its waits, bounded by its deadline,
the waits and the lag of the loop), `Spared` (no read is cancelled more than once, nor while the call is
before its second wait) and `InTimeEnded` (what it takes in time has ended). `EndsInTime` bounds
the end of a call by a sum of waits, so the invariant keeps a bound for each phase.
`CInv` counts: `active` is the cardinality of the reads that run, `errors` that of the calls that
ended badly, and both sets are shown finite as they grow and shrink by one (`ActiveExact`,
`CountedOnce`). `Sane` says of a read what it may still do once its call is over. A call that is over holds
nothing if a read is of one batch (`OverIsOverHolds`, under `MaxBatches <= 1`); in general what
is still held is held by a read that swallowed its cancellation (`OnlySwallowersHold`, finding 4).
The breakers are action properties: `Changers` names the two steps that write one. A burst opens a
breaker once whatever happens; that an outage never shortens a refusal needs `MaxRotations = 0`,
the hypothesis of `OutageNeverShortensHolds` (finding 3 is what happens without it).

The end of the process is there too. `LoopInv` joins `Stacked` (the handlers that run on the main
thread are a stack, each once), `Closers` (before the mark nobody closes, after it one frame does, until the
close is whole), `Above` (what interrupts a frame that closes only looks; a frame that was
about to mark was interrupted by the one that did), `Posted` (one stop is asked of the loop) and `Swept` (a
task is of a read that was scheduled; what the sweep found it cancelled). `CloseHolds` follows.
`Above` is the part no test reaches: a signal between the look at the mark and the mark.

**`QueryFetchProofs`**. `IInv` joins the types with six parts: `SignalInv` and `WatchInv` (what is
registered with the signal and who is still to be told), `HandshakeInv` (the events through
which the thread that sends and the one that stops meet), `StatementInv`,
`OutcomeInv` and `EndInv`. The handshake is the heart: either the
stop sees the query named and cancels it, or the query sees the stop before it sends.
`EndedLeavesNothing` follows from `LeftInv` (a part of `EndInv`) and from what `StatementInv` says
of a helper that knew the name: it has cancelled, is about to, or its DELETE failed. That holds
of a client that gives up too, so the exception the theorem makes is for statements whose
name no helper had seen.

**`SearchProofs`**. `IInv` is `Typed`, `Held` and `SlotsExact`. `SlotsExact` is an equation between
counters and the cardinality of the set of walks that hold a slot, so each step
cites how it changes that set (one walk in, one out, none); `Held` says which
walks may hold at each step of the call, and gives that a call which is over holds
none. `Ordered` (what a walk tells and what the pass takes go forward from the point of the
cursor) gives `CursorAdvances`.

`ChainIsWhole` is of several calls, their walks and their pages, and rests on two invariants.
`PassSeam` is of a pass: what a walk has told is all that matches up to the point it
has reached or a gap it tells of (`WalksSeam`), the catalogs behind the pass are accounted for (`CatalogsLeft`),
its rows are in order and behind what it has still to take (`RowsInOrder`, `Behind`), and at a stop nothing before it
is missing and nothing past it was taken (`StopSeam`). `ChainSeam` is of the calls: what they served is
all that comes before the cursor of the next, once and in order, less what was told as left out. Neither
is inductive without the other: a cursor is made from where a pass stopped, and a pass begins at
a cursor. Rows and points are ordered by four numbers, whose order is proved total once.

`SameAnswer` says that the threads change nothing: what a pass found when it ends is `OneAtATime`, unless its
time ran out. Its invariant, `Answering`, is about what is *left* of the walks. A walk has a
`Tale`: a pass that takes the events it still holds finds what the catalog answers in its turn, or,
while the walk is under way, what was found before the statement it stands at (`Agrees`, `Asked`). For
the next catalog that is of the pass as it is; for a catalog ahead it must be of *any* pass that may come to
it, for nobody knows yet what the catalogs before it leave of the page. That is why a walk may
read too much but never too little (`PartRead`: a walk that found no more rows than the pass reads all
the pass has room for), and why the rows it found beyond the room are cut by `TakeRows` where the
statement asked alone would have stopped. Each operator of a walk has a lemma (`StandTale`,
`OpenTale`, `SkipTale`, `ReadTale`, `AnsweredTale`); taking an event moves it from the walk to the pass
(`GivesTail`), a pass that stopped takes nothing more (`GivesStopped`, `SchemasStop`, `CatalogsStop`). That the
recursive functions of the reference exist, and stay what they are while the pass does, is shown once by a
least element of the well-founded order of the naturals (`UpFromZero`, `GrownExists`, `SameOnRange`).

**`ToolCallProofs`**. `IInv` is the type, `SlotsExact`, and that each record is `Sound`: the rest
of a call is the end of a path of its tool (`Path`), where it stands agrees with the step
it is at (`Placed`), a wait in flight ends by the deadline and, when a reserve applies,
before it (`Timed`), what comes after an answer in time leaves a call that is still in time
(`Kept`), and the code it noted is that of what failed (`Lined`). No property is inductive
alone: `ReserveKeepsAnswer` needs to know, of a wait in flight, that it was given what is
left past the reserve. Each action has a lemma about the record it changes; time is the one step
that changes none and may break them all (`TickIInv`).

**`AdmissionProofs`**. `AdmitInv` joins the types, the settings a server starts with (`Starts`:
without it a mode could run with no verified caller), `Known` (what each request knows of its
caller agrees with the bearer it sent, and what it sent with its caller), `Signing` (the request
that signs in holds the lock, and nobody is known yet) and `CachedTokenLives`. A token in the
cache names the bearer it was exchanged for: that fact, kept by every `Store`, is what carries
`RunsAsCaller` through a cache other calls write. `CacheBounded` needs the ranks of the
dict to be those of its entries, and cardinalities of the sets the eviction leaves. `DoorHolds`
joins to it what each refusal was told for. `GuardHolds` is the guard itself: a statement that passes
`SqlGuard` reads governed catalogs and changes nothing, and what a request is sent as passed it.

**`KeptFileProofs`**. `KeptInv` joins the types, `Alone` (who is past the lock holds it),
`LatestOK` and `IdsOK` (the file that is there, or that was moved away, is the last that was
offered, and identities tell contents apart), `TextOK` (a content that was read is good and
no older than the one served) and `StartOK`. From it, every step is a step of `LastGood` or
leaves its variables: `ServesLastGood` is the refinement. `FreshAnswer` adds `Current`: what
is marked as seen is served, unless a read of it failed or is under way; `NoOnlyWhileRead`
adds what each asker of `maps` may have seen.

The same module proves the three properties of `Atlas`, whose secret is such a file. `AtlasInv`
joins `Counted` (the refusals of a call and its requests under way are together no more than
`MaxConcurrent`; before it was let in, the first refusal ends it), `Covered` (a table is found, closed, or yet to be asked for
under its type), `Dated` (what a read finds absent was not there when the signal or the secret
it began under came) and `Forgotten` (no type is recorded as absent under those of now that was there
then). `NoTypeLost` is not inductive alone: a read that began before a signal may write the record
after it, and only the date it writes keeps it harmless.

**`ShownProofs`**. A fact is *known since* a moment when Trino told it to the caller then or later;
facts are told again, never untold (`TellGrows`). `ShownInv` dates everything: each entry of the
cache by its end (`EntryFit`), each call by its own end (`Fit`). What a call asked itself is known
since it began; what it found in the cache since one life of an entry and one call before. The
one chain is that of the canary: its entry may have been made from a list of catalogs found in
the cache, so the check is dated by two lives. Each action has a lemma: the record it leaves
is fit, and the entry it puts is. `AnswerShows` is the other half: whatever the sources say, the gate
and the merge name only columns that were listed, targets that were proven and the
table. `CheckedFirst` has a hypothesis, `CatalogsFit`: lists of catalogs are whole (section 7).

`AnswerHoldsAlways` rests on a second invariant, `AnswerInv`: the answer of a call is nothing, with a
status that is not `ok`, or `Holds` against what the chain gave *that* call (`got`), the terms read
for it (`read`) and its columns; what a call gathered stays with it through the proofs that
come in between (`Carries`, `Gathered`). The rest is about the operators of `Reply`, for any contents:
what is served is part of what was measured (`ServedSmaller`: fewer entries, fewer terms, each
with no more related terms, since those of the answer are among those of the order), the last column that
fits bounds them all (`GreatestMember`), each term cited passed the gate (`GateAttaches`, `CitedIs`), and of the values
given for a column the first is served and the others stand beside it (`SingleGives`, by
`LeastMember`). The sums themselves need no induction, only that the sets are finite.

### Only model-checked

Liveness (`WaiterMovesOn`, `CallEnds` of both modules, `CancelEnds`, `CallersEnd`,
`ShutdownEnds`) is out of the prover's reach. Every safety property and every action property of a
passing run is stated by a theorem.

## 5. What is left out of the modelled parts

- `ByteCache`: sizes are given with the entries; how a value is weighed is not modelled.
- `ContextChain`: what the texts say, and the metrics other than the gauge and the counter.
- `QueryFetch`: the session properties; what makes a client give a statement up (a timeout past
  its retries, a row it cannot convert) is one step that may come whenever the statement runs.
  The run lets it come to a query that is alone, the proofs to any.
- `Search`: the text of statements, the encoding and the checks of a cursor (a
  cursor is the record it encodes), the check that a schema is visible
  before a search within it, catalogs that change between two calls of a chain.
  `FillFails` is the one place where a pool that cannot start a thread is modelled.
- `ToolCall`: the pages of the list tools, the texts, the counts and the names in the
  audit line (a sample that fails leaves in it the count of the columns), the hooks of
  modules. `MaxNow` bounds the run: no call begins so late that its deadline lies past it.
- `Admission`: signatures, keys and issuers are one fact of a bearer (`genuine`); that a mode
  needs https or a secret is not among the settings; the guard of a statement applies as with
  `TRINO_READ_ONLY` true, its default.
- `ContextLoop`: `--check`, and the exit code. The reads are `submit`s; what they read
  is the chain's. A Ctrl+C is not modelled: the `KeyboardInterrupt` that ends `main` leads to the same
  `finally` as its return, but one raised inside the close leaves the close
  where it stands (`__main__.py:252`), and `closing` keeps any other from taking it up again.
- `Shown` and `Reply`: the cleaning and the cut of texts, the properties of a column, the
  labels' texts; an entry is evicted by age in the code and by any choice in the model, which
  covers it. A listing past `MaxNames` is the empty one.
- `KeptFile`: what makes a content bad. A rewrite in place of the same size within
  one tick of the clock of the file system keeps its identity, and is not seen by the code.
- `Atlas`: entities, relationships and their parsing, the session cookie that may outlive a
  secret, the paths of the URL.

## 6. What is not modelled

Kerberos (`spnego.py`) and the session of the HTTP client; `check_lines` and `_probe`, the
diagnostics of `--check`; the parsing of entities, terms and documents; `fingerprint_audit` and
`trino_tags`, which add to a line and to a statement and decide nothing; the parsing of
settings and the import of plugins, which happen once; health and metrics; the test doubles,
the chart and the images. The SQL grammar is that of a library.

## 7. Findings

One has a run of its own; the others were met on instances of the models which are described
here, and no run is kept for them.

1. **A change that is not seen** (run `ChangeUnseen`, `context/file.py:456`). The file is marked as
   seen before it is read. When that one read fails, the last content is kept, as it should,
   but the new one is not read until the file changes again. The docs say a change is
   seen within one TTL. `FreshAnswer` is `ChangeIsSeen` less that case.
2. **A deadline that opens a breaker** (`context/chain.py:425`). A call that follows the read of
   another is given the failure of that call's deadline, before its own, and takes it for an
   outage. The module says that a deadline opens nothing. A refusal is shared the same way
   (`context/chain.py:423`): a call with a new secret that follows a read of the old one
   opens the breaker for the new one, against `SecretTriedAtOnce`.
3. **An outage that shortens a refusal** (`context/chain.py:439`). A call that read with
   an old secret does not see the refusal of the new one, and replaces it.
   `OutageNeverShortensRefusal` with `MaxRotations = 1` shows it.
4. **A read left behind that leads again** (`context/chain.py:402`). A source that ignores its
   cancellation goes on to its next batch, whose keys it takes and holds: `MaxBatches = 2`.
5. **A slot that is lost** (`search.py:645`). `submit` raises once the walk is queued when no
   thread can start, and the callback that gives the slot back is never registered (`FillFails`).
6. **A table left out that is not told** (`context/reply.py:473`). When the entry of the table does not
   fit and no column has context, the source stays `ok`. `OkIsWhole` is stated of the
   columns for this reason.
7. **A canary past the bound on names** (`context/visibility.py:212`). A list of catalogs that was
   cut is taken for whole, so a canary in the part that was cut counts as hidden. `CatalogsFit`
   is the hypothesis without which `CheckedFirst` is false.
8. **A statement left running by a client that fails** (`trino_client.py:567`). When `execute` or
   `fetchmany` raises on the side of the client, the exception is raised again and nothing is
   cancelled; only what ends without one is (`trino_client.py:578`, `601`). Trino keeps the
   statement until it drops it by itself. Past the budget it is the same: the helper that waits
   for the name ends with `done`, and the error says "exceeded its time budget [...] and was
   cancelled" (`trino_client.py:537`) of a statement no DELETE was sent for. TLC shows it in
   `QueryFetch` as soon as `EndedLeavesNothing` is stated without its exception: a budget that runs
   out while the POST is unanswered, a cancel that has no name to stop, and the POST given up.

Two things the models keep and no property forbids: the gauge of open breakers is
written outside of the loop by the signal handler (`context/chain.py:219`) and may show an old value
until the next change; a DELETE that fails is not tried again (`trino_client.py:528`).

## 8. The plan

What is left, in this order.

1. Abstract specifications: a breaker per source that the chain implements, a
   search of one catalog at a time that `Search` implements step by step, a call that answers
   in time that `ToolCall` implements.
2. The pages of the list tools and the sessions of a statement; the document of the file
   source, as what it serves of a table; Kerberos and the session cookie of Atlas.
3. Compositions: the chain over `ByteCache` rather than over its promises, and `Shown` over the
   chain's outcomes rather than any.
