--------------------------- MODULE KernelRuntime ---------------------------
(***************************************************************************)
(* KernelRuntimeImpl (src/runtime/kernel_runtime_impl.cpp): the runtime    *)
(* thread polls the event loop until the runtime has been shut down;       *)
(* shutdown(), called on another thread, disposes the registered objects   *)
(* and posts a closure that stops the loop.  From then on every poll looks *)
(* for pending works and references, and completes the shutdown when there *)
(* are none, or when all that is left are references to executors that no  *)
(* task has captured.  An object is one registered IRuntimeComponent with  *)
(* its works and references, whose uv handle outlives it for a while; a    *)
(* holder is a coroutine that keeps an executor.                           *)
(***************************************************************************)
EXTENDS Naturals, FiniteSets

CONSTANTS Objects,     \* disposable runtime objects: sockets, listeners, timers
          Holders,     \* coroutines that keep a reference to an executor
          LoopHolders  \* those that keep the runtime executor itself

ASSUME HoldersAssumption == LoopHolders \subseteq Holders

VARIABLES
  rtState,       \* m_state
  rtPc,          \* where the runtime thread is
  sdPc,          \* where the thread that calls shutdown() is
  posted,        \* is the closure of shutdown() queued in the runtime executor
  executor,      \* is m_runtimeExecutor set
  registry,      \* is there a runtime object registry
  disposed,      \* have the objects been disposed
  works,         \* who has pending works or a referenced component
  handles,       \* whose uv handle is being closed
  executorRefs,  \* who holds a reference to an executor
  captured       \* who is awaited by a task that has captured an executor

rtVars == <<rtState, rtPc, sdPc, posted, executor, registry, disposed, works,
            handles, executorRefs, captured>>

Users == <<works, handles, executorRefs, captured>>

RuntimeStates == {"NotInitialized", "Operable", "ShutdownProcessed",
                  "ShutdownNeedCompletion", "ShutdownCompleted"}

RtInit ==
  /\ rtState = "NotInitialized"
  /\ rtPc = "bind"
  /\ sdPc = "idle"
  /\ posted = FALSE
  /\ executor = FALSE
  /\ registry = TRUE
  /\ disposed = FALSE
  /\ works \in SUBSET Objects
  /\ handles = {}
  /\ executorRefs \in SUBSET Holders
  /\ captured = {}

RtGoto(from, to) == rtPc = from /\ rtPc' = to
SdGoto(from, to) == sdPc = from /\ sdPc' = to

-----------------------------------------------------------------------------
(* The runtime thread *)

BindToCurrentThread ==
  /\ RtGoto("bind", "poll")
  /\ executor' = TRUE
  /\ rtState' = "Operable"
  /\ UNCHANGED <<sdPc, posted, registry, disposed, Users>>

\* poll: wait in the loop while operable, only look into it afterwards, and
\* return false when there is nothing to poll.
Poll ==
  /\ rtPc = "poll"
  /\ rtPc' = CASE rtState = "Operable" -> "runDefault"
               [] rtState = "ShutdownProcessed" -> "runNoWait"
               [] OTHER -> "exit"
  /\ UNCHANGED <<rtState, sdPc, posted, executor, registry, disposed, Users>>

\* uv_run closes some or all of the handles that can be closed.
RunLoop ==
  /\ handles' \in SUBSET handles
  /\ UNCHANGED <<works, executorRefs, captured>>

\* The callback of the runtime executor's async handle runs all that is queued.
RunInvocations == posted' = FALSE

\* uv_run(UV_RUN_DEFAULT) returns when the closure has called uv_stop; the
\* async handle of the runtime executor keeps the loop alive.
RunDefault ==
  /\ RtGoto("runDefault", "polled")
  /\ posted
  /\ RunInvocations
  /\ RunLoop
  /\ UNCHANGED <<rtState, sdPc, executor, registry, disposed>>

RunNoWait ==
  /\ RtGoto("runNoWait", "polled")
  /\ RunInvocations
  /\ RunLoop
  /\ UNCHANGED <<rtState, sdPc, executor, registry, disposed>>

Polled ==
  /\ RtGoto("polled", IF rtState = "ShutdownProcessed" THEN "visit" ELSE "poll")
  /\ UNCHANGED <<rtState, sdPc, posted, executor, registry, disposed, Users>>

\* A mutant of HasPendingWorks: only the runtime executor's queue is asked.
HasQueuedWorks == posted

\* hasWorks of the runtime executor, which is a component too.
HasInvocations == posted

HasPendingWorks == works # {} \/ HasInvocations

\* shutdownStep: the visit of the components and the reference counts.  The walk
\* over the uv handles counts none: it increments the pointer to its counter.
Visit ==
  /\ rtPc = "visit"
  /\ rtPc' = IF HasPendingWorks THEN "poll"
             ELSE IF executorRefs # {} THEN "checkCaptured" ELSE "complete"
  /\ UNCHANGED <<rtState, sdPc, posted, executor, registry, disposed, Users>>

\* Nothing but referenced executors: hasAliveTasksWithCapturedExecutor decides.
CheckCaptured ==
  /\ RtGoto("checkCaptured", IF captured # {} THEN "poll" ELSE "complete")
  /\ UNCHANGED <<rtState, sdPc, posted, executor, registry, disposed, Users>>

NeedCompletion ==
  /\ RtGoto("complete", "resetExecutor")
  /\ rtState' = "ShutdownNeedCompletion"
  /\ UNCHANGED <<sdPc, posted, executor, registry, disposed, Users>>

\* completeShutdown.
ResetExecutor ==
  /\ RtGoto("resetExecutor", "closeLoop")
  /\ executor' = FALSE
  /\ UNCHANGED <<rtState, sdPc, posted, registry, disposed, Users>>

CloseHandles ==
  /\ rtPc = "closeLoop"
  /\ RunLoop
  /\ UNCHANGED <<rtState, rtPc, sdPc, posted, executor, registry, disposed>>

\* The loop is run for as long as a handle is alive in it, the runtime executor's
\* included; then it is closed, and the default executor, the timers and the
\* registry are let go of.
CloseLoop ==
  /\ RtGoto("closeLoop", "completed")
  /\ handles = {}
  /\ executorRefs \cap LoopHolders = {}
  /\ registry' = FALSE
  /\ UNCHANGED <<rtState, sdPc, posted, executor, disposed, Users>>

Completed ==
  /\ RtGoto("completed", "poll")
  /\ rtState' = "ShutdownCompleted"
  /\ UNCHANGED <<sdPc, posted, executor, registry, disposed, Users>>

RuntimeThread ==
  \/ BindToCurrentThread \/ Poll \/ RunDefault \/ RunNoWait \/ Polled \/ Visit
  \/ CheckCaptured \/ NeedCompletion \/ ResetExecutor \/ CloseHandles \/ CloseLoop
  \/ Completed

-----------------------------------------------------------------------------
(* shutdown() *)

\* Ignored unless the runtime is operable.
BeginShutdown ==
  /\ rtState = "Operable"
  /\ SdGoto("idle", "dispose")
  /\ rtState' = "ShutdownProcessed"
  /\ UNCHANGED <<rtPc, posted, executor, registry, disposed, Users>>

\* getRuntimeObjectRegistry is fatal when there is none.
Dispose ==
  /\ SdGoto("dispose", IF registry THEN "execute" ELSE "crashed")
  /\ disposed' = registry
  /\ UNCHANGED <<rtState, rtPc, posted, executor, registry, Users>>

Execute ==
  /\ SdGoto("execute", IF executor THEN "returned" ELSE "crashed")
  /\ posted' = executor
  /\ UNCHANGED <<rtState, rtPc, executor, registry, disposed, Users>>

Shutdown == BeginShutdown \/ Dispose \/ Execute

-----------------------------------------------------------------------------
(* The users of the runtime *)

ObjectDone(o) ==
  /\ o \in works
  /\ works' = works \ {o}
  /\ handles' = handles \cup {o}
  /\ UNCHANGED <<rtState, rtPc, sdPc, posted, executor, registry, disposed,
                 executorRefs, captured>>

\* A coroutine that keeps an executor awaits a task, is resumed, ends.
HolderAwaits(h) ==
  /\ h \in executorRefs \ captured
  /\ captured' = captured \cup {h}
  /\ UNCHANGED <<rtState, rtPc, sdPc, posted, executor, registry, disposed, works,
                 handles, executorRefs>>

HolderResumes(h) ==
  /\ h \in captured
  /\ captured' = captured \ {h}
  /\ UNCHANGED <<rtState, rtPc, sdPc, posted, executor, registry, disposed, works,
                 handles, executorRefs>>

HolderEnds(h) ==
  /\ h \in executorRefs \ captured
  /\ executorRefs' = executorRefs \ {h}
  /\ UNCHANGED <<rtState, rtPc, sdPc, posted, executor, registry, disposed, works,
                 handles, captured>>

UserStep ==
  \/ \E o \in Objects : ObjectDone(o)
  \/ \E h \in Holders : HolderAwaits(h) \/ HolderResumes(h) \/ HolderEnds(h)

Alive == sdPc # "crashed"

Next == Alive /\ (RuntimeThread \/ Shutdown \/ UserStep)

Spec == RtInit /\ [][Next]_rtVars

\* The runtime thread never stops polling, shutdown() is a plain function, and
\* an object that has been disposed of gets done with its works.  Nothing makes
\* a coroutine end.
RtFairness ==
  /\ WF_rtVars(RuntimeThread)
  /\ WF_rtVars(Dispose \/ Execute)
  /\ \A o \in Objects : WF_rtVars(disposed /\ ObjectDone(o))

FairSpec == Spec /\ RtFairness

-----------------------------------------------------------------------------
(* Properties *)

\* The type invariant of the runtime: a captured executor is a referenced one, a
\* handle is left behind by an object whose works are done, and the state is
\* unset exactly before the binding to the thread.
RtTypeOK ==
  /\ rtState \in RuntimeStates
  /\ rtPc \in {"bind", "poll", "runDefault", "runNoWait", "polled", "visit",
               "checkCaptured", "complete", "resetExecutor", "closeLoop", "completed",
               "exit"}
  /\ sdPc \in {"idle", "dispose", "execute", "returned", "crashed"}
  /\ {posted, executor, registry, disposed} \subseteq BOOLEAN
  /\ captured \subseteq executorRefs
  /\ handles \subseteq Objects \ works
  /\ rtPc = "bind" <=> rtState = "NotInitialized"

\* The runtime is not completed under an object that still has works: it holds
\* the shutdown from the moment it starts until the last of them is done.
ObjectsAreWaitedFor ==
  rtState \in {"ShutdownNeedCompletion", "ShutdownCompleted"} => works \cap Objects = {}

\* Who sees ShutdownCompleted from another thread may take the process apart:
\* the runtime thread has let go of everything and will only return from poll.
CompletedMeansGone ==
  rtState = "ShutdownCompleted" => ~executor /\ ~registry /\ rtPc \in {"poll", "exit"}

\* The runtime thread's loop ends only with the runtime completely shut down
\* (asserted after the loop in application_impl.cpp).
LoopEndsCompleted == rtPc = "exit" => rtState = "ShutdownCompleted"

\* What the runtime logs when it completes a shutdown by force: "The application
\* will be forcefully completed, but there is still references to the executor".
\* It is not when that executor is its own: the handle in it keeps the loop alive.
ForcedShutdownCompletes ==
  rtState = "ShutdownNeedCompletion" ~> rtState = "ShutdownCompleted"

\* The assertion behind Ptr::operator->, in shutdown(): the runtime executor is
\* there when the closure is posted.  A runtime thread that has not entered its
\* loop yet completes the shutdown in between.
ExecutorIsThere == sdPc = "execute" => executor

=============================================================================
