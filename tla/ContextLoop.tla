---------------------------- MODULE ContextLoop ----------------------------
(***************************************************************************)
(* The loop of the context sources (context/loop.py) and the end of the    *)
(* process (__main__.py, app.py): tool threads submit reads to the loop of *)
(* another thread, each until its timeout, while the process closes the    *)
(* sources and then the loop, from the end of main, from a SIGTERM over    *)
(* stdio that interrupts it anywhere, or from a worker thread over HTTP.   *)
(*                                                                         *)
(* The code that closes is a frame.  Signal handlers are frames above main *)
(* on its thread: only the top one runs.  The close of the sources is a    *)
(* read a frame submits as any caller does.                                *)
(***************************************************************************)
EXTENDS Naturals, Sequences, FiniteSets

CONSTANTS
  Callers,  \* the tool calls that read, each in a thread of its own
  Signals,  \* the handlers of SIGTERM: as many as signals arrive
  Main, Worker

Frames == Signals \cup {Main, Worker}
Threads == Callers \cup Frames

ASSUME ContextLoopAssumption ==
  /\ IsFiniteSet(Callers) /\ IsFiniteSet(Signals)
  /\ Main # Worker /\ {Main, Worker} \cap (Callers \cup Signals) = {} /\ Callers \cap Signals = {}

VARIABLES
  transport,  \* "stdio" or "http"
  ref,        \* _loop is set: what running and submit read
  lock,       \* the frames that hold _lock: one or none
  loop,       \* where _run is
  ready,      \* the callbacks of the loop, in the order they were scheduled
  stopping,   \* loop.stop was run
  left,       \* the tasks _run found when the loop stopped
  task,       \* the task of each submitted read
  future,     \* its concurrent future
  call,       \* where each submit is
  frame,      \* where each frame is
  stack,      \* the frames of the main thread, the running one last
  closing     \* close_context was entered

submits == <<task, future, call>>
closes == <<lock, frame, stack, closing>>
loopVars == <<transport, ref, loop, ready, stopping, left, submits, closes>>

Turning == {"forever", "sweep", "generators"}   \* the loop runs callbacks and tasks
Endings == {"returned", "refused", "timed out", "cancelled"}

LoopInit ==
  /\ transport \in {"stdio", "http"}
  /\ ref = TRUE /\ lock = {} /\ loop = "forever" /\ ready = <<>> /\ stopping = FALSE /\ left = {}
  /\ task = [t \in Threads |-> "none"]
  /\ future = [t \in Threads |-> "none"]
  /\ call = [t \in Threads |-> "idle"]
  /\ frame = [f \in Frames |-> IF f = Main THEN "serving" ELSE "idle"]
  /\ stack = <<Main>>
  /\ closing = FALSE

-----------------------------------------------------------------------------
(* submit *)

\* A frame runs when it is the top one of its thread.
Runs(f) == f \in Callers \cup {Worker} \/ stack[Len(stack)] = f

Pending(t) == future[t] = "pending"

\* The loop is read without the lock; a missing one is a RuntimeError.
Look(t) ==
  /\ call[t] = "asked" /\ Runs(t)
  /\ call' = [call EXCEPT ![t] = IF ref THEN "looked" ELSE "refused"]
  /\ UNCHANGED <<transport, ref, loop, ready, stopping, left, task, future, closes>>

Ask(c) ==
  /\ call[c] = "idle"
  /\ call' = [call EXCEPT ![c] = "asked"]
  /\ UNCHANGED <<transport, ref, loop, ready, stopping, left, task, future, closes>>

\* run_coroutine_threadsafe: a closed loop refuses; else the coroutine is scheduled.
Schedule(t) ==
  /\ call[t] = "looked" /\ Runs(t)
  /\ IF loop = "closed"
     THEN call' = [call EXCEPT ![t] = "refused"] /\ UNCHANGED <<ready, future>>
     ELSE /\ call' = [call EXCEPT ![t] = "waiting"]
          /\ future' = [future EXCEPT ![t] = "pending"]
          /\ ready' = Append(ready, [what |-> "start", of |-> t])
  /\ UNCHANGED <<transport, ref, loop, stopping, left, task, closes>>

\* future.result: what the loop settled it with.
Answer(t) ==
  /\ call[t] = "waiting" /\ Runs(t) /\ future[t] \in {"result", "cancelled"}
  /\ call' = [call EXCEPT ![t] = IF future[t] = "result" THEN "returned" ELSE "cancelled"]
  /\ UNCHANGED <<transport, ref, loop, ready, stopping, left, task, future, closes>>

\* Mutant of TimeOut: the wait of a read the loop never began has no end.
TimeOutOnceBegun(t) ==
  /\ call[t] = "waiting" /\ Runs(t) /\ task[t] # "none"
  /\ call' = [call EXCEPT ![t] = "timed out"]
  /\ future' = [future EXCEPT ![t] = IF Pending(t) THEN "cancelled" ELSE @]
  /\ ready' = IF Pending(t) /\ loop # "closed" THEN Append(ready, [what |-> "cancel", of |-> t]) ELSE ready
  /\ UNCHANGED <<transport, ref, loop, stopping, left, task, closes>>

\* Past its timeout the future is cancelled, which cancels a task that is chained to it
\* through the loop, if the loop is still there to do it.
TimeOut(t) ==
  /\ call[t] = "waiting" /\ Runs(t)
  /\ call' = [call EXCEPT ![t] = "timed out"]
  /\ future' = [future EXCEPT ![t] = IF Pending(t) THEN "cancelled" ELSE @]
  /\ ready' = IF Pending(t) /\ task[t] # "none" /\ loop # "closed"
              THEN Append(ready, [what |-> "cancel", of |-> t]) ELSE ready
  /\ UNCHANGED <<transport, ref, loop, stopping, left, task, closes>>

-----------------------------------------------------------------------------
(* _run, in the thread of the loop *)

\* The next callback: a task is made of a coroutine, a task is cancelled, the loop stops
\* once this turn ends. A future cancelled before its task was made cancels it at once.
Callback ==
  /\ loop \in Turning /\ ready # <<>>
  /\ LET cb == Head(ready) IN
       /\ ready' = Tail(ready)
       /\ task' = CASE cb.what = "start"  -> [task EXCEPT ![cb.of] = IF Pending(cb.of) THEN "running" ELSE "cancelling"]
                    [] cb.what = "cancel" -> [task EXCEPT ![cb.of] = IF @ = "running" THEN "cancelling" ELSE @]
                    [] OTHER -> task
       /\ stopping' = (stopping \/ cb.what = "stop")
  /\ UNCHANGED <<transport, ref, loop, left, future, call, closes>>

\* A read ends, by itself or by its cancellation, which it may also ignore for good.
TaskEnds(t) ==
  /\ loop \in Turning /\ task[t] \in {"running", "cancelling"}
  /\ \E how \in {"result", "cancelled"} :
       /\ how = "cancelled" => task[t] = "cancelling"
       /\ future' = [future EXCEPT ![t] = IF Pending(t) THEN how ELSE @]
  /\ task' = [task EXCEPT ![t] = "done"]
  /\ UNCHANGED <<transport, ref, loop, ready, stopping, left, call, closes>>

Alive == {t \in Threads : task[t] \in {"running", "cancelling"}}

\* The turn ends, and run_forever with it: every task left is cancelled.
Sweep ==
  /\ loop = "forever" /\ stopping
  /\ loop' = IF Alive = {} THEN "generators" ELSE "sweep"
  /\ left' = Alive
  /\ task' = [t \in Threads |-> IF t \in Alive THEN "cancelling" ELSE task[t]]
  /\ UNCHANGED <<transport, ref, ready, stopping, future, call, closes>>

\* asyncio.wait: all of them ended, or _CLOSE_WAIT_SECONDS passed.
Waited ==
  /\ loop = "sweep"
  /\ loop' = "generators"
  /\ UNCHANGED <<transport, ref, ready, stopping, left, submits, closes>>

\* shutdown_asyncgens, then loop.close: what is still scheduled is dropped.
CloseLoop ==
  /\ loop = "generators"
  /\ loop' = "closed" /\ ready' = <<>>
  /\ UNCHANGED <<transport, ref, stopping, left, submits, closes>>

-----------------------------------------------------------------------------
(* close_context and ContextSetup.close, in a frame *)

To(f, where) == frame' = [frame EXCEPT ![f] = where]

OnlyFrame == UNCHANGED <<transport, ref, loop, ready, stopping, left, task, future>>

\* The server stops by itself, or uvicorn ends it: over HTTP the app's own lifespan ends
\* first, unless it never began, and closes in a worker thread.
StopServing ==
  /\ frame[Main] = "serving" /\ Runs(Main)
  /\ \/ To(Main, "entered")
     \/ transport = "http" /\ frame' = [frame EXCEPT ![Main] = "lifespan", ![Worker] = "entered"]
  /\ OnlyFrame /\ UNCHANGED <<call, lock, stack, closing>>

LifespanEnds ==
  /\ frame[Main] = "lifespan" /\ frame[Worker] = "left"
  /\ To(Main, "entered")
  /\ OnlyFrame /\ UNCHANGED <<call, lock, stack, closing>>

\* SIGTERM over stdio: on_term interrupts whatever frame runs.
Signal(s) ==
  /\ transport = "stdio" /\ frame[s] = "idle" /\ frame[Main] # "exited"
  /\ To(s, "handler") /\ stack' = Append(stack, s)
  /\ OnlyFrame /\ UNCHANGED <<call, lock, closing>>

\* Mutant of OnTerm: the process exits though a close is under way.
OnTermExits(s) ==
  /\ frame[s] = "handler" /\ Runs(s)
  /\ To(s, IF closing THEN "over" ELSE "entered") /\ UNCHANGED stack
  /\ OnlyFrame /\ UNCHANGED <<call, lock, closing>>

\* on_term: it lets a close under way go on.
OnTerm(s) ==
  /\ frame[s] = "handler" /\ Runs(s)
  /\ IF closing THEN To(s, "left") /\ stack' = SubSeq(stack, 1, Len(stack) - 1)
                ELSE To(s, "entered") /\ UNCHANGED stack
  /\ OnlyFrame /\ UNCHANGED <<call, lock, closing>>

\* close_context: checked, then marked.
Check(f) ==
  /\ frame[f] = "entered" /\ Runs(f)
  /\ To(f, IF closing THEN "over" ELSE "open")
  /\ OnlyFrame /\ UNCHANGED <<call, lock, stack, closing>>

Mark(f) ==
  /\ frame[f] = "open" /\ Runs(f)
  /\ closing' = TRUE /\ To(f, "sources")
  /\ OnlyFrame /\ UNCHANGED <<call, lock, stack>>

\* ContextChain.close: nothing once the loop is closed, else aclose is submitted; how
\* it ends is not raised.
CloseSources(f) ==
  /\ frame[f] = "sources" /\ Runs(f) /\ call[f] = "idle"
  /\ IF ref THEN call' = [call EXCEPT ![f] = "asked"] /\ UNCHANGED frame
            ELSE To(f, "loop") /\ UNCHANGED call
  /\ OnlyFrame /\ UNCHANGED <<lock, stack, closing>>

SourcesClosed(f) ==
  /\ frame[f] = "sources" /\ Runs(f) /\ call[f] \in Endings
  /\ To(f, "loop")
  /\ OnlyFrame /\ UNCHANGED <<call, lock, stack, closing>>

\* ContextLoop.close, under the lock: the loop is taken.
TakeLock(f) ==
  /\ frame[f] = "loop" /\ Runs(f) /\ lock = {}
  /\ lock' = {f} /\ To(f, "locked")
  /\ OnlyFrame /\ UNCHANGED <<call, stack, closing>>

TakeLoop(f) ==
  /\ frame[f] = "locked" /\ Runs(f)
  /\ lock' = {} /\ ref' = FALSE
  /\ To(f, IF ref THEN "stop" ELSE "over")
  /\ UNCHANGED <<transport, loop, ready, stopping, left, submits, stack, closing>>

\* call_soon_threadsafe(loop.stop), then the thread is waited for, in bounded time.
StopLoop(f) ==
  /\ frame[f] = "stop" /\ Runs(f)
  /\ ready' = Append(ready, [what |-> "stop", of |-> f])
  /\ To(f, "join")
  /\ UNCHANGED <<transport, ref, loop, stopping, left, submits, lock, stack, closing>>

\* Mutant of Join: it waits until the thread ends.
JoinForever(f) ==
  /\ frame[f] = "join" /\ Runs(f) /\ loop = "closed"
  /\ To(f, "over")
  /\ OnlyFrame /\ UNCHANGED <<call, lock, stack, closing>>

\* thread.join(2 * _CLOSE_WAIT_SECONDS): the thread ended, or it is left behind.
Join(f) ==
  /\ frame[f] = "join" /\ Runs(f)
  /\ To(f, "over")
  /\ OnlyFrame /\ UNCHANGED <<call, lock, stack, closing>>

\* The close is over: main and the worker go on; a handler exits the process, which
\* unwinds every frame below it down to the finally of main.
Leave(f) ==
  /\ frame[f] = "over" /\ Runs(f)
  /\ IF f \in Signals
     THEN /\ frame' = [g \in Frames |-> IF g = Main THEN (IF frame[Main] = "serving" THEN "entered" ELSE "exited")
                                        ELSE IF g \in Signals /\ frame[g] # "idle" THEN "left" ELSE frame[g]]
          /\ stack' = <<Main>> /\ lock' = {}
     ELSE To(f, IF f = Main THEN "exited" ELSE "left") /\ UNCHANGED <<stack, lock>>
  /\ OnlyFrame /\ UNCHANGED <<call, closing>>

Exited == frame[Main] = "exited" /\ UNCHANGED loopVars

FrameStep(f) ==
  \/ Check(f) \/ Mark(f) \/ CloseSources(f) \/ SourcesClosed(f)
  \/ TakeLock(f) \/ TakeLoop(f) \/ StopLoop(f) \/ Join(f) \/ Leave(f)

Submit(t) == Look(t) \/ Schedule(t) \/ Answer(t) \/ TimeOut(t)

LoopNext ==
  \/ \E c \in Callers : Ask(c)
  \/ \E t \in Threads : Submit(t) \/ TaskEnds(t)
  \/ Callback \/ Sweep \/ Waited \/ CloseLoop
  \/ StopServing \/ LifespanEnds
  \/ \E s \in Signals : Signal(s) \/ OnTerm(s)
  \/ \E f \in Frames : FrameStep(f)
  \/ Exited

\* Threads are scheduled and waits end; nothing is asked of the loop, whose reads may
\* hang and whose thread may be left behind, nor of the host.
LoopFairness ==
  /\ \A t \in Threads : WF_loopVars(Submit(t))
  /\ \A f \in Frames : WF_loopVars(FrameStep(f))
  /\ \A s \in Signals : WF_loopVars(OnTerm(s))
  /\ WF_loopVars(LifespanEnds)

LoopSpec == LoopInit /\ [][LoopNext]_loopVars /\ LoopFairness

-----------------------------------------------------------------------------
(* Properties *)

\* Signals at any point of a close, of their own handlers included, close the sources and
\* stop the loop once, and no handler waits for a lock its own thread holds (close_context,
\* on_term).
ClosesOnce ==
  /\ Cardinality({f \in Frames : call[f] # "idle"}) <= 1
  /\ Cardinality({i \in DOMAIN ready : ready[i].what = "stop"} \cup {0 : x \in {stopping} \cap {TRUE}}) <= 1
  /\ \A f \in Frames : frame[f] = "loop" /\ Runs(f) => lock = {}

\* A process that exits has closed its sources, or waited for them in vain, and then taken
\* the loop: no path to the end, a handler that unwinds main included, leaves it running
\* (main, _close_after).
ExitsClosed == frame[Main] = "exited" => ~ref /\ \E f \in Frames : call[f] \in Endings

\* Once the loop is closed, whoever still waits came too late to be cancelled with the
\* rest, or reads through a source that ignores its cancellation (_run).
OnlyLateWait ==
  loop = "closed" => \A t \in left : Pending(t) => task[t] = "cancelling"

\* However a process comes to close, it closes once, wholly, and leaves nobody waiting.
CloseHolds == ClosesOnce /\ ExitsClosed /\ OnlyLateWait

\* A caller that submits ends, whether the loop runs its read, loses it or is gone.
CallersEnd == \A c \in Callers : call[c] = "asked" ~> call[c] \in Endings

\* A process that begins to close exits, though a read or a source hangs (close).
ShutdownEnds == frame[Main] \notin {"serving", "exited"} ~> frame[Main] = "exited"

=============================================================================
