----------------------------- MODULE Executors -----------------------------
(***************************************************************************)
(* Executor (src/async/executor.cpp): which executor is current on a       *)
(* thread, how a coroutine switches to one and comes back to the one it    *)
(* has captured, and finalize().  Threads keep a stack of InvokeGuards;    *)
(* the executors of threads and the default one are weak references.  How  *)
(* an executor queues and runs invocations is WorkQueue and ThreadPool;    *)
(* here a queue is the set of the coroutines that are scheduled to it.     *)
(***************************************************************************)
EXTENDS Naturals, Sequences, SequencesExt, FiniteSets

CONSTANTS ExecThreads, Execs, Coros,
          None           \* no executor, or no thread

VARIABLES
  guards,        \* s_thisThreadInvokeGuard and the guards before it
  threadExec,    \* s_thisThreadExecutor of each thread
  defaultExec,   \* s_defaultExecutor
  holders,       \* who holds strong references to each executor
  queued,        \* the invocations scheduled to each executor
  coro,          \* where each coroutine is: its thread, "queued", ...
  wanted         \* the executor a coroutine is to continue on
execVars == <<guards, threadExec, defaultExec, holders, queued, coro, wanted>>

Owner == "owner"
Finalizer == "finalizer"

\* What the constants must satisfy.
ExecutorsAssumption ==
  /\ None \notin Execs /\ {Owner, Finalizer} \cap Coros = {}
  /\ {"new", "queued", "suspended", "done"} \cap ExecThreads = {}

Alive(e) == e # None /\ holders[e] # {}
Weak(e) == IF Alive(e) THEN e ELSE None    \* ExecutorWeakPtr::acquire

ExecInit ==
  /\ guards = [t \in ExecThreads |-> << >>]
  /\ threadExec = [t \in ExecThreads |-> None] /\ defaultExec = None
  /\ holders = [e \in Execs |-> {Owner}]
  /\ queued = [e \in Execs |-> {}]
  /\ coro = [c \in Coros |-> "new"]
  /\ wanted = [c \in Coros |-> None]

\* A mutant of Current: the executor of the thread hides the invoked one.
CurrentOfThread(t) ==
  IF Weak(threadExec[t]) # None THEN Weak(threadExec[t])
  ELSE IF guards[t] # << >> THEN Last(guards[t])
  ELSE Weak(defaultExec)

\* getCurrent: the invoked one, the thread's, the default.
Current(t) ==
  IF guards[t] # << >> THEN Last(guards[t])
  ELSE IF Weak(threadExec[t]) # None THEN Weak(threadExec[t])
  ELSE Weak(defaultExec)

Running(t) == {c \in Coros : coro[c] = t}

SetThisThreadExecutor(t, e) ==
  /\ threadExec' = [threadExec EXCEPT ![t] = e]
  /\ Running(t) = {} /\ guards[t] = << >>
  /\ UNCHANGED <<guards, defaultExec, holders, queued, coro, wanted>>

SetDefault(e) ==
  /\ defaultExec = None /\ defaultExec' = e
  /\ UNCHANGED <<guards, threadExec, holders, queued, coro, wanted>>

\* A coroutine is started by a call, outside of every executor.
StartCoroutine(c, t) ==
  /\ coro[c] = "new" /\ Running(t) = {}
  /\ coro' = [coro EXCEPT ![c] = t]
  /\ UNCHANGED <<guards, threadExec, defaultExec, holders, queued, wanted>>

\* scheduleInvocation: the coroutine leaves its thread for the queue of e.
Schedule(c, e) ==
  /\ coro' = [coro EXCEPT ![c] = "queued"]
  /\ queued' = [queued EXCEPT ![e] = @ \cup {c}]

\* The frames of a thread end with the coroutine: its guard is popped.
Unwind(t) == guards' = [guards EXCEPT ![t] = IF @ = << >> THEN @ ELSE Front(@)]

\* ASYNC_SWITCH_EXECUTOR, and co_await of an executor: nothing to do on the
\* executor that is current.
SwitchExecutor(c, e) ==
  /\ coro[c] \in ExecThreads /\ Alive(e)
  /\ Current(coro[c]) # e
  /\ wanted' = [wanted EXCEPT ![c] = e]
  /\ holders' = [holders EXCEPT ![e] = @ \cup {c}]
  /\ Schedule(c, e)
  /\ Unwind(coro[c])
  /\ UNCHANGED <<threadExec, defaultExec>>

\* co_await of a task: the current executor is captured with a reference.
Suspend(c) ==
  /\ coro[c] \in ExecThreads
  /\ LET e == Current(coro[c])
     IN /\ wanted' = [wanted EXCEPT ![c] = e]
        /\ holders' = IF e = None THEN holders ELSE [holders EXCEPT ![e] = @ \cup {c}]
  /\ coro' = [coro EXCEPT ![c] = "suspended"]
  /\ Unwind(coro[c])
  /\ UNCHANGED <<threadExec, defaultExec, queued>>

\* The task is ready: on to the captured executor, or right here.
Awake(c) ==
  /\ coro[c] = "suspended"
  /\ IF wanted[c] # None
     THEN Schedule(c, wanted[c])
     ELSE /\ \E t \in ExecThreads : Running(t) = {} /\ coro' = [coro EXCEPT ![c] = t]
          /\ UNCHANGED queued
  /\ UNCHANGED <<guards, threadExec, defaultExec, holders, wanted>>

\* An executor runs one invocation on a thread of its choice, within an
\* InvokeGuard.
Invoke(e, c, t) ==
  /\ Alive(e) /\ c \in queued[e] /\ Running(t) = {}
  /\ guards' = [guards EXCEPT ![t] = Append(@, e)]
  /\ queued' = [queued EXCEPT ![e] = @ \ {c}]
  /\ coro' = [coro EXCEPT ![c] = t]
  /\ holders' = [holders EXCEPT ![e] = @ \ {c}]
  /\ UNCHANGED <<threadExec, defaultExec, wanted>>

Finish(c) ==
  /\ coro[c] \in ExecThreads
  /\ coro' = [coro EXCEPT ![c] = "done"]
  /\ Unwind(coro[c])
  /\ UNCHANGED <<threadExec, defaultExec, holders, queued, wanted>>

\* The owner passes its reference to finalize().
BeginFinalize(e) ==
  /\ Owner \in holders[e]
  /\ holders' = [holders EXCEPT ![e] = (@ \ {Owner}) \cup {Finalizer}]
  /\ UNCHANGED <<guards, threadExec, defaultExec, queued, coro, wanted>>

\* finalize() returns when its reference is the only one.
EndFinalize(e) ==
  /\ holders[e] = {Finalizer}
  /\ holders' = [holders EXCEPT ![e] = {}]
  /\ UNCHANGED <<guards, threadExec, defaultExec, queued, coro, wanted>>

ExecNext ==
  \/ \E t \in ExecThreads, e \in Execs : SetThisThreadExecutor(t, e)
  \/ \E e \in Execs : SetDefault(e) \/ BeginFinalize(e) \/ EndFinalize(e)
  \/ \E c \in Coros : \/ Suspend(c) \/ Awake(c) \/ Finish(c)
                      \/ \E e \in Execs : SwitchExecutor(c, e)
                      \/ \E t \in ExecThreads : StartCoroutine(c, t)
                      \/ \E e \in Execs, t \in ExecThreads : Invoke(e, c, t)

ExecSpec == ExecInit /\ [][ExecNext]_execVars

-----------------------------------------------------------------------------
\* A coroutine continues on the executor it wanted: that one is current when
\* it is resumed, whatever the thread has been used for before.
ResumesOnWanted ==
  [][\A c \in Coros, t \in ExecThreads :
       (coro[c] = "queued" /\ coro'[c] = t) => Current(t)' = wanted[c]]_execVars

\* A coroutine that has been scheduled is never left behind by an executor
\* that is finalized.
NothingQueuedBehind == \A e \in Execs : queued[e] # {} => Alive(e)

=============================================================================
