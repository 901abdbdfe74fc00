------------------------------ MODULE ToolCall ------------------------------
(***************************************************************************)
(* The life of a tool call (akko_mcp_trino/tools.py, audit.py): what each  *)
(* tool asks, in which order, under the time budget of the call; how an    *)
(* error, a refusal or a late answer reaches the agent; and the one line   *)
(* the call leaves in the audit.                                           *)
(*                                                                         *)
(* A tool is a set of paths, one for each way its data may send it: a path *)
(* is the sequence of its steps.  Three kinds of work come after the       *)
(* answer, or the error, is at hand, and stop while a reserve of the call  *)
(* is left: the advice on an unknown column, the context of the            *)
(* catalogues, and the walk of a search.  QueryFetch says how one          *)
(* statement is stopped, ContextChain how one context read is, Search what *)
(* the walk does: here each ends at most Lag after it should.              *)
(*                                                                         *)
(* Time passes only while a call waits: what a call computes takes none.   *)
(***************************************************************************)
EXTENDS Integers, FiniteSets, Sequences

CONSTANTS
  Calls,          \* the calls
  Offered,        \* the tools they call
  Budget,         \* MCP_CALL_TIMEOUT_SECONDS, 0 for none
  QueryTimeout,   \* TRINO_QUERY_TIMEOUT_SECONDS, 0 for Trino's own limit
  ProfileTimeout, \* MCP_PROFILE_TIMEOUT_SECONDS, 0 for none of its own
  ContextTimeout, \* MCP_CONTEXT_TIMEOUT_SECONDS
  ContextReserve, \* MCP_CONTEXT_RESERVE_SECONDS
  SearchReserve,  \* MCP_SEARCH_RESERVE_SECONDS
  AdviceReserve,  \* ADVICE_RESERVE_SECONDS
  AdviceLookup,   \* ADVICE_LOOKUP_SECONDS
  MaxAdvice,      \* MAX_ADVICE_TABLES
  MaxConcurrent,  \* MCP_PROFILE_MAX_CONCURRENT
  Lag,            \* how late a wait may end past its time
  MaxNow          \* bound: the end of time

Tools == {"search_columns", "list_catalogs", "list_schemas", "list_tables", "describe_schema",
          "describe_table", "profile_table", "explain_query", "execute_query", "plugin"}

ASSUME CallAssumption ==
  /\ IsFiniteSet(Calls) /\ Offered \subseteq Tools
  /\ {Budget, QueryTimeout, ProfileTimeout, AdviceLookup, MaxAdvice, Lag, MaxNow} \subseteq Nat
  /\ {ContextReserve, SearchReserve, AdviceReserve, MaxConcurrent} \subseteq Nat
  /\ ContextTimeout \in Nat \ {0} /\ AdviceLookup # 0
  /\ Lag < ContextReserve /\ Lag < AdviceReserve /\ Lag < SearchReserve
  /\ Budget = 0 \/ SearchReserve < Budget

VARIABLES
  now,     \* time.monotonic()
  free,    \* profile_slots: the slots nobody holds
  call     \* the calls: their record, where they stand, what they answered

vars == <<now, free, call>>

NoLine == [ok |-> FALSE, error |-> "none"]

Idle ==
  [tool |-> "none", rest |-> <<>>, pc |-> "idle",
   deadline |-> 0, expired |-> FALSE, error |-> "none",  \* audit.ToolCall
   stop |-> 0, byCall |-> FALSE,                     \* the wait in flight: 0 for no end
   context |-> 0, looks |-> 0,                       \* the context's deadline, the advice left
   out |-> "none", told |-> "none", line |-> NoLine, \* returned, received, recorded
   cause |-> "none", atHand |-> FALSE]                   \* history

Init == now = 0 /\ free = MaxConcurrent /\ call = [c \in Calls |-> Idle]

-----------------------------------------------------------------------------
(* The tools: the statements they run and the context that comes last      *)

ListCatalogs == {<<"check", "read">>}
ListSchemas  == {<<"check", "read">>}
ListTables   == {<<"check", "read">>, <<"check", "read", "visible">>}

\* An empty page; or its columns (the first table alone when it is too wide), then its comments.
DescribeSchema ==
  {<<"check", "visible", "read">>, <<"check", "visible", "read", "read", "read", "context">>,
   <<"check", "visible", "read", "read", "read", "read", "context">>}

DescribeTable ==
  {<<"check", "read", "describers", "context">>, <<"check", "read", "describers", "read", "context">>}

ProfileTable  == {<<"check", "slot", "read", "check", "aggregate">>}
ExplainQuery  == {<<"check", "read">>}
ExecuteQuery  == {<<"guard", "read">>}
SearchColumns == {<<"check", "walk">>, <<"check", "read", "walk">>, <<"check", "visible", "walk">>}
Plugin        == {<<"plugin">>}

Paths ==
  [search_columns |-> SearchColumns, list_catalogs |-> ListCatalogs, list_schemas |-> ListSchemas,
   list_tables |-> ListTables, describe_schema |-> DescribeSchema, describe_table |-> DescribeTable,
   profile_table |-> ProfileTable, explain_query |-> ExplainQuery, execute_query |-> ExecuteQuery,
   plugin |-> Plugin]

Advised    == {"explain_query", "execute_query"}
Statements == {"read", "visible", "aggregate"}

-----------------------------------------------------------------------------
(* The time a call has, and the waits it starts                            *)

Least(i, j) == IF i <= j THEN i ELSE j

Left(r) == r.deadline - now

\* Mutant of Over: only a call stopped by a query is over.
OverWhenStopped(r) == r.expired

\* ToolCall.over
Over(r) == r.expired \/ (Budget > 0 /\ Left(r) <= 0)

\* The budget of a query: TRINO_QUERY_TIMEOUT_SECONDS, lowered by its own timeout.
OwnBudget(timeout) ==
  IF timeout > 0 THEN (IF QueryTimeout > 0 THEN Least(QueryTimeout, timeout) ELSE timeout)
  ELSE QueryTimeout

\* time_allowed, of a call with time left.
TimeAllowed(r, timeout) ==
  IF Budget = 0 THEN timeout ELSE IF timeout > 0 THEN Least(timeout, Left(r)) ELSE Left(r)

\* A wait of so many seconds (0: no limit) begins.
Wait(r, pc, seconds, byCall) ==
  [r EXCEPT !.pc = pc, !.stop = IF seconds = 0 THEN 0 ELSE now + seconds, !.byCall = byCall]

\* A statement is sent, stopped by the call's deadline or by its own time.
Send(r, pc, timeout) ==
  LET own == OwnBudget(timeout)
      allowed == TimeAllowed(r, own)
  IN  Wait(r, pc, allowed, allowed # own)

Becomes(c, r) == call' = [call EXCEPT ![c] = r]

Step(r)    == IF r.rest = <<>> THEN "end" ELSE Head(r.rest)
Proceed(r) == [r EXCEPT !.pc = "running", !.rest = Tail(r.rest), !.stop = 0, !.byCall = FALSE]

\* Mutant of Fail: the code is not noted.
FailUnnoted(r, code) ==
  [r EXCEPT !.pc = "answering", !.cause = code, !.out = "error", !.stop = 0, !.byCall = FALSE]

\* error_reply, refusal_reply: the code is noted, the error is what the tool returns.
Fail(r, code) ==
  [r EXCEPT !.pc = "answering", !.error = code, !.cause = code, !.out = "error", !.stop = 0,
            !.byCall = FALSE]

Expire(r) == [r EXCEPT !.expired = TRUE]

\* What comes after begins while the call is in time: it must not cost the call its answer.
AtHand(r) == [r EXCEPT !.atHand = r.atHand \/ ~Over(r)]

Runs(c, step)  == call[c].pc = "running" /\ Step(call[c]) = step
Reads(c, steps) == call[c].pc = "reading" /\ Step(call[c]) \in steps
Due(c)         == call[c].stop > 0 /\ now >= call[c].stop

-----------------------------------------------------------------------------
(* A call begins, checks, and runs its statements                          *)

Begin(c, tool) ==
  /\ call[c].pc = "idle"
  /\ now + Budget + Lag < MaxNow
  /\ \E path \in Paths[tool] :
       Becomes(c, [Idle EXCEPT !.tool = tool, !.rest = path, !.pc = "running",
                               !.deadline = IF Budget > 0 THEN now + Budget ELSE 0])
  /\ UNCHANGED <<now, free>>

Passes(c) ==
  /\ Runs(c, "check") \/ Runs(c, "guard")
  /\ Becomes(c, Proceed(call[c]))
  /\ UNCHANGED <<now, free>>

\* An argument, or the columns to profile, is not one the tool takes.
Invalid(c) ==
  /\ Runs(c, "check")
  /\ Becomes(c, Fail(call[c], "ValueError"))
  /\ UNCHANGED <<now, free>>

\* The read-only guard refuses the statement, of the agent or built for its profile.
Refuses(c) ==
  /\ \/ Runs(c, "guard")
     \/ Runs(c, "check") /\ call[c].tool \in {"explain_query", "profile_table"}
  /\ Becomes(c, Fail(call[c], "read_only"))
  /\ UNCHANGED <<now, free>>

Escape(r, cause) == [r EXCEPT !.pc = "raised", !.cause = cause]

\* execute_query reads its statement outside its try: what fails there leaves the tool.
GuardRaises(c) ==
  /\ Runs(c, "guard")
  /\ Becomes(c, Escape(call[c], "RecursionError"))
  /\ UNCHANGED <<now, free>>

\* The slots of profile_table: taken at once, or the call answers busy.
Acquire(c) ==
  /\ Runs(c, "slot")
  /\ IF free > 0 THEN free' = free - 1 /\ Becomes(c, Proceed(call[c]))
     ELSE Becomes(c, Fail(call[c], "busy")) /\ UNCHANGED free
  /\ UNCHANGED now

\* The timeout a tool gives its statement, 0 for none.
Timeout(r) ==
  CASE Step(r) = "aggregate" -> ProfileTimeout
    [] r.tool = "search_columns" /\ Step(r) = "visible" /\ Budget > 0 -> Left(r) - SearchReserve
    [] OTHER -> 0

\* A statement of the tool; none starts once the call has no time left.
Ask(c) ==
  /\ call[c].pc = "running" /\ Step(call[c]) \in Statements
  /\ Becomes(c, IF Budget > 0 /\ Left(call[c]) <= 0 THEN Fail(Expire(call[c]), "CallTimeout")
                ELSE Send(call[c], "reading", Timeout(call[c])))
  /\ UNCHANGED <<now, free>>

Rows(c) ==
  /\ Reads(c, Statements)
  /\ Becomes(c, Proceed(call[c]))
  /\ UNCHANGED <<now, free>>

\* schema_visible, false: the schema is missing or hidden.
NotVisible(c) ==
  /\ Reads(c, {"visible"})
  /\ Becomes(c, Fail(call[c], "schema_not_found"))
  /\ UNCHANGED <<now, free>>

Errs(c) ==
  /\ Reads(c, Statements)
  /\ Becomes(c, Fail(call[c], "TrinoError"))
  /\ UNCHANGED <<now, free>>

\* A statement over its time: the call's own deadline marks the call, a timeout of the
\* statement leaves it alive.
Stopped(c) ==
  /\ Reads(c, Statements) /\ Due(c)
  /\ Becomes(c, IF call[c].byCall THEN Fail(Expire(call[c]), "CallTimeout") ELSE Fail(call[c], "TimeoutError"))
  /\ UNCHANGED <<now, free>>

-----------------------------------------------------------------------------
(* The advice on an unknown column                                         *)

\* Trino names a column it does not find, and some tables of the statement may hold it.
UnknownColumn(c) ==
  /\ Reads(c, {"read"}) /\ call[c].tool \in Advised
  /\ \E tables \in 0..MaxAdvice :
       Becomes(c, [AtHand(Fail(call[c], "COLUMN_NOT_FOUND")) EXCEPT !.pc = "advising", !.looks = tables])
  /\ UNCHANGED <<now, free>>

Looked(r) == [r EXCEPT !.pc = "advising", !.looks = @ - 1, !.stop = 0, !.byCall = FALSE]

\* Mutant of Look: a lookup waits as long as it may, whatever is left of the call.
LookUnreserved(c) ==
  /\ call[c].pc = "advising" /\ call[c].looks > 0
  /\ Becomes(c, IF Budget > 0 /\ Left(call[c]) <= 0 THEN Looked(call[c]) ELSE Send(call[c], "looking", AdviceLookup))
  /\ UNCHANGED <<now, free>>

\* One lookup: skipped with less than the reserve left, else within what is left past it.
Look(c) ==
  /\ call[c].pc = "advising" /\ call[c].looks > 0
  /\ LET room == Left(call[c]) - AdviceReserve
     IN  Becomes(c, IF Budget = 0 THEN Send(call[c], "looking", AdviceLookup)
                    ELSE IF room <= 0 THEN Looked(call[c])
                    ELSE Send(call[c], "looking", Least(room, AdviceLookup)))
  /\ UNCHANGED <<now, free>>

\* However the lookup ends: seen, not seen, failed or stopped, and stopped by the call if it was.
LookEnds(c) ==
  /\ call[c].pc = "looking"
  /\ Becomes(c, Looked(IF Due(c) /\ call[c].byCall THEN Expire(call[c]) ELSE call[c]))
  /\ UNCHANGED <<now, free>>

Advise(c) ==
  /\ call[c].pc = "advising" /\ call[c].looks = 0
  /\ Becomes(c, [call[c] EXCEPT !.pc = "answering"])
  /\ UNCHANGED <<now, free>>

-----------------------------------------------------------------------------
(* The context of the catalogues, read last                                *)

\* gate_run: a statement of the filter, stopped while the call keeps its reserve; none
\* starts with less.  Once the chain has answered, it proves the target of a join, and
\* past the context's deadline no target is asked.
Gate(c) ==
  /\ Runs(c, "context")
  /\ call[c].context > 0 => call[c].tool = "describe_table" /\ now < call[c].context
  /\ LET r    == AtHand(call[c])
         room == Left(r) - ContextReserve
     IN  IF Budget = 0 THEN Becomes(c, Send(r, "reading", 0))
         ELSE room > 0 /\ Becomes(c, Send(r, "reading", room))
  /\ UNCHANGED <<now, free>>

\* However it ends, the filter goes on: what failed proves nothing.
GateEnds(c) ==
  /\ Reads(c, {"context"})
  /\ LET r == IF Due(c) /\ call[c].byCall THEN Expire(call[c]) ELSE call[c]
     IN  Becomes(c, [r EXCEPT !.pc = "running", !.stop = 0, !.byCall = FALSE])
  /\ UNCHANGED <<now, free>>

\* ContextService.deadline: the time the context may take, 0 when there is none.
ContextTime(r) ==
  IF Budget = 0 THEN ContextTimeout
  ELSE IF Left(r) <= ContextReserve THEN 0 ELSE Least(ContextTimeout, Left(r) - ContextReserve)

\* The chain is waited for until the context's deadline.
Gather(c) ==
  /\ Runs(c, "context") /\ call[c].context = 0 /\ ContextTime(call[c]) > 0
  /\ Becomes(c, [Wait(AtHand(call[c]), "waiting", ContextTime(call[c]), FALSE)
                   EXCEPT !.context = now + ContextTime(call[c])])
  /\ UNCHANGED <<now, free>>

ChainAnswers(c) ==
  /\ call[c].pc = "waiting"
  /\ Becomes(c, [call[c] EXCEPT !.pc = "running", !.stop = 0])
  /\ UNCHANGED <<now, free>>

\* The terms have the same deadline, and no grace of their own past it.
ReadTerms(c) ==
  /\ Runs(c, "context") /\ call[c].context > 0 /\ call[c].tool = "describe_table"
  /\ Becomes(c, [AtHand(call[c]) EXCEPT !.pc = "naming", !.stop = call[c].context])
  /\ UNCHANGED <<now, free>>

\* The context ends: served, or nothing of it (no provider, the canary seen, a read
\* refused, no time).
ContextEnds(c) ==
  /\ Runs(c, "context") \/ call[c].pc = "naming"
  /\ Becomes(c, Proceed(AtHand(call[c])))
  /\ UNCHANGED <<now, free>>

-----------------------------------------------------------------------------
(* The walk of a search, and the code of extensions                        *)

\* search: every statement of the walk ends while the reserve is left; with less, none
\* starts, and it answers where it stopped.
Walk(c) ==
  /\ Runs(c, "walk")
  /\ LET r    == call[c]
         room == Left(r) - SearchReserve
     IN  Becomes(c, IF Budget = 0 THEN Wait(r, "walking", 0, FALSE)
                    ELSE IF room <= 0 THEN Proceed(r)
                    ELSE Wait(AtHand(r), "walking", room, FALSE))
  /\ UNCHANGED <<now, free>>

\* It answers what it searched, or the error of a view it may not read.
WalkEnds(c) ==
  /\ call[c].pc = "walking"
  /\ Becomes(c, Proceed(call[c])) \/ Becomes(c, Fail(call[c], "TrinoError"))
  /\ UNCHANGED <<now, free>>

\* A describer, or a plugin's tool: code of another package, which takes its own time.
Foreign(c) ==
  /\ Runs(c, "describers") \/ Runs(c, "plugin")
  /\ Becomes(c, [call[c] EXCEPT !.pc = "foreign"])
  /\ UNCHANGED <<now, free>>

\* It may have asked past the deadline (time_allowed), and noted an error of its own.
ForeignTrace(r) ==
  {[r EXCEPT !.error = e, !.expired = x] :
     e \in {r.error, "foreign"}, x \in {r.expired, r.expired \/ (Budget > 0 /\ Left(r) <= 0)}}

\* Describers never hide the columns: one that raises is counted.  One may add an "error" key.
Described(c) ==
  /\ call[c].pc = "foreign" /\ Step(call[c]) = "describers"
  /\ \E r \in ForeignTrace(call[c]) :
       Becomes(c, Proceed(r)) \/ Becomes(c, [Proceed(r) EXCEPT !.out = "error"])
  /\ UNCHANGED <<now, free>>

PluginEnds(c) ==
  /\ call[c].pc = "foreign" /\ Step(call[c]) = "plugin"
  /\ \E r \in ForeignTrace(call[c]) :
       \/ Becomes(c, Proceed(r))
       \/ Becomes(c, [Proceed(r) EXCEPT !.out = "error"])
       \/ Becomes(c, Escape(r, "PluginError"))
  /\ UNCHANGED <<now, free>>

-----------------------------------------------------------------------------
(* The answer and the audit line                                           *)

Named(r) == IF r.error = "none" THEN "tool_error" ELSE r.error

\* The tool returns what it has, an answer, or one with an "error" in it.
Return(c) ==
  /\ Runs(c, "end")
  /\ Becomes(c, IF call[c].out = "error" THEN [call[c] EXCEPT !.pc = "answering", !.cause = Named(call[c])]
                ELSE [call[c] EXCEPT !.pc = "answering", !.out = "data"])
  /\ UNCHANGED <<now, free>>

\* A cell, or what a describer added, has no JSON: execute_query writes it outside its try.
Unserialisable(c) ==
  /\ Runs(c, "end") /\ call[c].tool \in {"describe_table", "profile_table", "execute_query"}
  /\ Becomes(c, IF call[c].tool = "execute_query" THEN Escape(call[c], "TypeError")
                ELSE Fail(call[c], "TypeError"))
  /\ UNCHANGED <<now, free>>

\* _Call.returned, then __exit__: the sink may fail, and then the agent has its exception.
Told(r, told, ok, error) ==
  {[r EXCEPT !.pc = "over", !.told = told, !.line = [ok |-> ok, error |-> error]],
   [r EXCEPT !.pc = "over", !.told = "exception"]}

Returned(r) ==
  IF Over(r) THEN Told(Expire(r), "late", FALSE, "CallTimeout")
  ELSE IF r.out = "error" THEN Told(r, "error", FALSE, Named(r)) ELSE Told(r, "data", TRUE, "none")

\* A profile past its slot holds one.
Holds(r) == r.tool = "profile_table" /\ r.pc \notin {"idle", "over"} /\ Len(r.rest) <= 3

\* Mutant of Answer: the slot comes back with a profile, never with an error.
AnswerKeepsSlot(c) ==
  /\ call[c].pc = "answering"
  /\ \E r \in Returned(call[c]) : Becomes(c, r)
  /\ free' = IF Holds(call[c]) /\ call[c].out = "data" THEN free + 1 ELSE free
  /\ UNCHANGED now

\* The slot comes back as profile_of returns, then the call answers.
Answer(c) ==
  /\ call[c].pc = "answering"
  /\ \E r \in Returned(call[c]) : Becomes(c, r)
  /\ free' = IF Holds(call[c]) THEN free + 1 ELSE free
  /\ UNCHANGED now

\* __exit__ of a tool that raised: its class is recorded, the exception goes on.
Raise(c) ==
  /\ call[c].pc = "raised"
  /\ \E r \in Told(call[c], "exception", FALSE, call[c].cause) : Becomes(c, r)
  /\ UNCHANGED <<now, free>>

-----------------------------------------------------------------------------
Computing == {"running", "advising", "answering", "raised"}
Waiting   == {"reading", "looking", "waiting", "naming", "walking"}

\* Time passes while every call waits, and no wait is Lag past its end.
Tick ==
  /\ now < MaxNow
  /\ \A c \in Calls : /\ call[c].pc \notin Computing
                      /\ call[c].pc \in Waiting => call[c].stop = 0 \/ now < call[c].stop + Lag
  /\ now' = now + 1
  /\ UNCHANGED <<free, call>>

Moves(c) ==
  \/ Passes(c) \/ Invalid(c) \/ Refuses(c) \/ GuardRaises(c) \/ Acquire(c)
  \/ Ask(c) \/ Rows(c) \/ NotVisible(c) \/ Errs(c) \/ Stopped(c)
  \/ UnknownColumn(c) \/ Look(c) \/ LookEnds(c) \/ Advise(c)
  \/ Gate(c) \/ GateEnds(c) \/ Gather(c) \/ ChainAnswers(c) \/ ReadTerms(c) \/ ContextEnds(c)
  \/ Walk(c) \/ WalkEnds(c) \/ Foreign(c)
  \/ Return(c) \/ Unserialisable(c) \/ Answer(c) \/ Raise(c)

Next ==
  \/ \E c \in Calls : Moves(c) \/ Described(c) \/ PluginEnds(c)
  \/ \E c \in Calls, tool \in Offered : Begin(c, tool)
  \/ Tick

Spec == Init /\ [][Next]_vars

-----------------------------------------------------------------------------
(* Properties *)

Kinds == {"check", "guard", "slot", "read", "visible", "aggregate", "describers", "context",
          "walk", "plugin"}
Codes == {"none", "ValueError", "read_only", "schema_not_found", "busy", "TrinoError",
          "COLUMN_NOT_FOUND", "TimeoutError", "CallTimeout", "TypeError", "RecursionError",
          "PluginError", "foreign", "tool_error"}

CallRecord ==
  [tool : Tools \cup {"none"}, rest : Seq(Kinds),
   pc : Computing \cup Waiting \cup {"idle", "foreign", "over"},
   deadline : Nat, expired : BOOLEAN, error : Codes, stop : Int, byCall : BOOLEAN,
   context : Nat, looks : Nat, out : {"none", "data", "error"},
   told : {"none", "data", "error", "late", "exception"}, line : [ok : BOOLEAN, error : Codes],
   cause : Codes, atHand : BOOLEAN]

\* Every call is a call record, and time and the slots are counts.
TypeOK == now \in Nat /\ free \in 0..MaxConcurrent /\ call \in [Calls -> CallRecord]

\* A call that is over left one line that says what its agent received: an answer, its
\* error by the code of what failed, the late answer, or the exception; only an exception
\* may have no line, when the sink itself failed.  audit.py's "every tool call then leaves
\* one line", whatever a describer or a swallowed failure noted before.
LineTellsAnswer ==
  \A c \in Calls :
    LET r == call[c]
    IN  /\ r.pc # "over" => r.told = "none" /\ r.line = NoLine
        /\ r.told = "data"  => r.out = "data" /\ r.line = [ok |-> TRUE, error |-> "none"]
        /\ r.told = "error" => r.out = "error" /\ r.line = [ok |-> FALSE, error |-> r.cause]
        /\ r.told = "late"  => r.line = [ok |-> FALSE, error |-> "CallTimeout"]
        /\ r.told = "exception" => r.line \in {NoLine, [ok |-> FALSE, error |-> r.cause]}

\* An agent receives no answer past the deadline of its call, nor what a call gathered
\* that a query, a describer or a plugin saw run out of time (_Call.returned).
NothingLate ==
  [][\A c \in Calls : call'[c].told \in {"data", "error"} /\ call[c].told = "none" =>
       ~call[c].expired /\ (Budget > 0 => now < call[c].deadline)]_vars

\* The advice, the context and the walk of a search never cost a call its answer: a call
\* in time when they began is in time when it answers, however late each of their waits
\* ends (ADVICE_RESERVE_SECONDS, MCP_CONTEXT_RESERVE_SECONDS, MCP_SEARCH_RESERVE_SECONDS).
ReserveKeepsAnswer == \A c \in Calls : call[c].atHand => call[c].told # "late"

\* Whatever Trino and the catalogues do, a call waits for them Lag past its deadline at most.
WaitsEndByDeadline ==
  \A c \in Calls : Budget > 0 /\ call[c].pc \in Waiting => now <= call[c].deadline + Lag

\* The profiles running hold the slots that are not free: one for each, given back once
\* however the profile ends (profile_table's try ... finally).
SlotsExact == free + Cardinality({c \in Calls : Holds(call[c])}) = MaxConcurrent
=============================================================================
