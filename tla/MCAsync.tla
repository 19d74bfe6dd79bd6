------------------------------ MODULE MCAsync -------------------------------
(* The tools built around tasks, for TLC: a behaviour is about one part,   *)
(* the others stay where they begin.                                       *)
EXTENDS Naturals, Sequences, FiniteSets

CONSTANTS Nil, Free, None

VARIABLES part, mode, ready, callback, next, head, expired, subscribed, awaiter, counter,
  completion, awoken, step, cursor, answer, dangling, timed, taskReady, waitCallback, event,
  waiter, setter, waitResult, touchedDead, job, finished, tasks, closeAwaiter, disposing,
  disposed, closer, dispose, awaits, list, mutex, isDisposed, armed, firing, promise, cancelled, stateLock, at,
  called, canceller, target, disposer, remaining, arrived, barrierMutex, place, entered, guards,
  threadExec, defaultExec, holders, queued, coro, wanted,
  coroAt, caller, holder, outcome, continuation, awaiting, errorOnDestroy, taken, rested, over,
  installing

Group == INSTANCE TaskGroup WITH List <- <<"t1", "t2", "t3">>, Modes <- {"all", "any"}
Waits == INSTANCE Waiting WITH Attendees <- {"h1", "h2", "p"}, Hurried <- {"h1", "h2"}
Collection == INSTANCE TaskCollection WITH Jobs <- {"j1", "j2", "j3"}, MaxAwaits <- 2
Timer == INSTANCE Timers WITH Plain <- {"plain"}, Invoked <- {"invoked"}, Canceller <-
         "canceller", Disposer <- "disposer"
Executor == INSTANCE Executors WITH ExecThreads <- {"t1", "t2"}, Execs <- {"e", "f"},
            Coros <- {"c1", "c2"}
Coroutine == INSTANCE Coroutines WITH Coros <- {"c1", "c2"}, Root <- "c1", Sources <- {"s"},
             MaxRests <- 1, at <- coroAt, expired <- over

ASSUME PartsAssumption ==
  /\ Group!ListAssumption /\ Timer!TimersAssumption /\ Waits!BarrierAssumption
  /\ Coroutine!CorosAssumption /\ Executor!ExecutorsAssumption

groupVars == <<mode, ready, callback, next, head, expired, subscribed, awaiter, counter,
               completion, awoken, step, cursor, answer, dangling>>
waitVars == <<timed, taskReady, waitCallback, event, waiter, setter, waitResult, touchedDead>>
collectionVars == <<job, finished, tasks, closeAwaiter, disposing, disposed, closer, dispose,
                    awaits>>
timerVars == <<list, mutex, isDisposed, armed, firing, promise, cancelled, stateLock, at,
               called, canceller, target, disposer, remaining>>
barrierVars == <<arrived, barrierMutex, place, entered>>
execVars == <<guards, threadExec, defaultExec, holders, queued, coro, wanted>>
coroVars == <<coroAt, caller, holder, outcome, continuation, awaiting, errorOnDestroy, taken,
              rested, over, installing>>

Init ==
  /\ part \in {"group", "wait", "collection", "timers", "barrier", "executors",
              "coroutines"}
  /\ Group!GroupInit /\ Waits!WaitingInit /\ Collection!CollectionInit /\ Timer!TimersInit
  /\ Executor!ExecInit /\ Coroutine!CoroInit
  \* a part at rest has one initial state
  /\ part = "group" \/ mode = "all"
  /\ part = "wait" \/ timed = FALSE

Next ==
  /\ UNCHANGED part
  /\ IF part = "group" THEN Group!GroupNext ELSE UNCHANGED groupVars
  /\ IF part = "wait" THEN Waits!WaitNext ELSE UNCHANGED waitVars
  /\ IF part = "collection" THEN Collection!CollectionNext ELSE UNCHANGED collectionVars
  /\ IF part = "timers" THEN Timer!TimersNext ELSE UNCHANGED timerVars
  /\ IF part = "barrier" THEN Waits!BarrierNext ELSE UNCHANGED barrierVars
  /\ IF part = "executors" THEN Executor!ExecNext ELSE UNCHANGED execVars
  /\ IF part = "coroutines" THEN Coroutine!CoroNext ELSE UNCHANGED coroVars

\* Init and Next of the parts, each with its own fairness while it is at work.
Spec ==
  /\ Init /\ [][Next]_<<part, groupVars, waitVars, collectionVars, timerVars,
                        barrierVars, execVars, coroVars>>
  /\ \A a \in Group!Agents : WF_groupVars(part = "group" /\ Group!AgentStep(a))
  /\ \A t \in Group!Tasks : WF_groupVars(part = "group" /\ Group!Take(t))
  /\ WF_groupVars(part = "group" /\ Group!CallerStep)
  /\ WF_groupVars(part = "group" /\ Group!Delete)
  /\ WF_waitVars(part = "wait" /\ Waits!WaiterStep)
  /\ WF_waitVars(part = "wait" /\ (Waits!TakeWaitCallback \/ Waits!SetEvent))
  /\ \A t \in {"j1", "j2", "j3"} :
       /\ WF_collectionVars(part = "collection" /\ Collection!Finish(t))
       /\ WF_collectionVars(part = "collection" /\ Collection!JobStep(t))
  /\ WF_collectionVars(part = "collection" /\ Collection!CloserStep)
  /\ \A i \in Timer!TimerIds :
       /\ WF_timerVars(part = "timers" /\ Timer!Fire(i))
       /\ SF_timerVars(part = "timers" /\ Timer!TimerStep(i))
  /\ WF_timerVars(part = "timers" /\ Timer!CancelStep)
  /\ SF_timerVars(part = "timers" /\ Timer!DisposeStep)
  /\ \A t \in {"h1", "h2", "p"} : WF_barrierVars(part = "barrier" /\ Waits!Step(t))
  /\ \A c \in {"c1", "c2"} :
       /\ WF_coroVars(part = "coroutines" /\ Coroutine!CoroStep(c))
       /\ WF_coroVars(part = "coroutines" /\ Coroutine!AssignSubscription(c))
  /\ WF_coroVars(part = "coroutines" /\ Coroutine!SettleSource("s"))

-----------------------------------------------------------------------------
\* whenAll and whenAny answer once, TRUE when the tasks they wait for are
\* ready and FALSE only after the expiration, and do so as soon as they can; a
\* whenAll that answers TRUE leaves nothing behind.
ImplementsGroupContract == Group!Contract!Spec /\ []Group!AllReturnsClean

\* A coroutine that awaits a TaskCollection is woken when its tasks have
\* finished, and not while one of them is still in the collection.
CollectionAwaited == Collection!AwaitMeansEmpty /\ Collection!AwaitEnds

\* wait() without a timeout returns once the task is ready, and its event outlives
\* the callback that sets it; nobody leaves a barrier ahead of the others, and who
\* has a timeout leaves it.
ThreadsMeet ==
  /\ Waits!WaitEnds /\ []Waits!EventOutlivesCallback
  /\ []Waits!NobodyAhead /\ (part = "barrier" => Waits!HurriedLeave)

\* A timer that was cancelled is silent, every other one calls back, and a
\* disposed manager has no works left in the end.
TimersKeepWord == Timer!SilentAfterCancel /\ Timer!TimersEnd

\* A coroutine resumes on the executor it wanted, and an executor that is finalized
\* leaves none behind; it takes only values that are there, passes errors up as they
\* are, never runs on once its task is settled, and comes to its end.
CoroutinesKeepWord ==
  /\ Executor!ResumesOnWanted /\ []Executor!NothingQueuedBehind
  /\ []Coroutine!ValuesAreThere /\ Coroutine!ErrorsGoUp /\ Coroutine!OneOutcome
  /\ [](part = "coroutines" => Coroutine!EverybodyEnds)

=============================================================================
