--------------------------- MODULE TaskCollection ---------------------------
(***************************************************************************)
(* async::TaskCollection (src/async/task_collection.cpp): tasks are pushed *)
(* and become ready on their threads while a coroutine awaits the          *)
(* collection.  What the code does under m_mutex is one step; the awaiter  *)
(* resolved under it continues on its executor, as a step of its own.      *)
(***************************************************************************)
EXTENDS Naturals, FiniteSets

CONSTANTS Jobs,       \* the tasks that are pushed
          MaxAwaits   \* how many times the collection is awaited

VARIABLES
  job,           \* where each task is
  finished,      \* the tasks that are ready
  tasks,         \* m_tasks
  closeAwaiter,  \* m_closeAwaiter: "null", "pending" or "resolved" (and moved out)
  disposing, disposed,
  closer,        \* where the coroutine of awaitCompletionInternal is
  dispose,       \* its argument
  awaits         \* how many times it has been started
collectionVars == <<job, finished, tasks, closeAwaiter, disposing, disposed, closer,
                    dispose, awaits>>

CollectionInit ==
  /\ job = [t \in Jobs |-> "new"]
  /\ finished = {} /\ tasks = {} /\ closeAwaiter = "null"
  /\ disposing = FALSE /\ disposed = FALSE
  /\ closer = "idle" /\ dispose = FALSE /\ awaits = 0

Move(t, from, to) == job[t] = from /\ job' = [job EXCEPT ![t] = to]
KeepCloser == UNCHANGED <<disposing, disposed, closer, dispose, awaits>>

Finish(t) ==
  /\ t \notin finished /\ finished' = finished \cup {t}
  /\ UNCHANGED <<job, tasks, closeAwaiter>> /\ KeepCloser

\* push and pushInternal look at the task before they take the mutex.
\* A collection that is disposed takes no more tasks.
PushCheck(t) ==
  /\ ~disposed
  /\ Move(t, "new", IF t \in finished THEN "skipped" ELSE "emplace")
  /\ UNCHANGED <<finished, tasks, closeAwaiter>> /\ KeepCloser

PushEmplace(t) ==
  /\ Move(t, "emplace", "register")
  /\ tasks' = tasks \cup {t}
  /\ UNCHANGED <<finished, closeAwaiter>> /\ KeepCloser

\* A mutant of PushRegister: a task that became ready meanwhile is forgotten.
PushRegisterUnseen(t) ==
  /\ Move(t, "register", IF t \in finished THEN "forgotten" ELSE "registered")
  /\ UNCHANGED <<finished, tasks, closeAwaiter>> /\ KeepCloser

\* setReadyCallback: a task that has become ready is reported at once.
PushRegister(t) ==
  /\ Move(t, "register", IF t \in finished THEN "calling" ELSE "registered")
  /\ UNCHANGED <<finished, tasks, closeAwaiter>> /\ KeepCloser

TakeCallback(t) ==
  /\ t \in finished /\ Move(t, "registered", "calling")
  /\ UNCHANGED <<finished, tasks, closeAwaiter>> /\ KeepCloser

\* The callback: the last task resolves the close awaiter.
Completed(t) ==
  /\ Move(t, "calling", "removed")
  /\ tasks' = tasks \ {t}
  /\ closeAwaiter' = IF tasks = {t} /\ closeAwaiter = "pending" THEN "resolved"
                     ELSE closeAwaiter
  /\ UNCHANGED finished /\ KeepCloser

KeepTasks == UNCHANGED <<job, finished, tasks>>

AwaitCompletion ==
  /\ closer = "idle" /\ awaits < MaxAwaits /\ ~disposed
  /\ awaits' = awaits + 1
  /\ dispose' \in BOOLEAN
  /\ disposing' = TRUE
  /\ closer' = "loop"
  /\ KeepTasks /\ UNCHANGED <<closeAwaiter, disposed>>

\* One turn of the loop, under the mutex.
FoundEmpty ==
  /\ closer = "loop" /\ tasks = {}
  /\ disposed' = (disposed \/ dispose)
  /\ closer' = "leave"
  /\ KeepTasks /\ UNCHANGED <<closeAwaiter, disposing, dispose, awaits>>

FoundTasks ==
  /\ closer = "loop" /\ tasks # {}
  /\ closeAwaiter' = "pending"
  /\ closer' = "awaiting"
  /\ KeepTasks /\ UNCHANGED <<disposing, disposed, dispose, awaits>>

Resumed ==
  /\ closer = "awaiting" /\ closeAwaiter = "resolved"
  /\ closeAwaiter' = "null"
  /\ closer' = "loop"
  /\ KeepTasks /\ UNCHANGED <<disposing, disposed, dispose, awaits>>

\* scope_on_leave
LeaveAwait ==
  /\ closer = "leave" /\ closer' = "idle"
  /\ disposing' = FALSE
  /\ KeepTasks /\ UNCHANGED <<closeAwaiter, disposed, dispose, awaits>>

JobStep(t) == \/ PushEmplace(t) \/ PushRegister(t) \/ TakeCallback(t) \/ Completed(t)
CloserStep == \/ FoundEmpty \/ FoundTasks \/ Resumed \/ LeaveAwait
CollectionNext ==
  \/ \E t \in Jobs : Finish(t) \/ PushCheck(t) \/ JobStep(t)
  \/ AwaitCompletion
  \/ CloserStep

\* The tasks of a collection finish, and threads inside a call go on; nobody
\* has to push or to await.
CollectionFairness ==
  /\ \A t \in Jobs : WF_collectionVars(Finish(t)) /\ WF_collectionVars(JobStep(t))
  /\ WF_collectionVars(CloserStep)

CollectionSpec == CollectionInit /\ [][CollectionNext]_collectionVars /\ CollectionFairness

-----------------------------------------------------------------------------
\* awaitCompletion returns only after every task that was in the collection
\* when it was called has been finished.
AwaitMeansEmpty ==
  [][closer = "loop" /\ closer' = "leave" =>
       \A t \in Jobs : job[t] \notin {"register", "registered", "calling"}]_collectionVars

\* A coroutine that awaits the collection is woken: the last task does not
\* slip through between its look at the list and the new close awaiter, nor
\* between a push and the registration of its callback.
AwaitEnds == closer = "awaiting" ~> closer = "idle"

=============================================================================
