----------------------------- MODULE Coroutines -----------------------------
(***************************************************************************)
(* Coroutines that return a Task: TaskPromise and the awaiters of task.h,  *)
(* on tasks as task_base.h gives them out.  One coroutine is started from  *)
(* outside; a coroutine that calls another one waits until that suspends   *)
(* for the first time, since nothing suspends at its beginning.  Tasks     *)
(* carry a value or an error, named for who raised it.  What happens       *)
(* inside of a task is CoreTask, the choice of the executor is Executors:  *)
(* here a continuation that is due runs at any later time.                 *)
(***************************************************************************)
EXTENDS Naturals, FiniteSets

CONSTANTS Coros, Root,  \* the coroutines, and the one that is started first
          Sources,      \* tasks of a TaskSource that somebody else has
          MaxRests,     \* bound: how many coroutines await a delay or the expiration
          None

Tasks == Coros \cup Sources

\* What is awaited besides tasks, the error of a delay that was cancelled, and
\* who has the Task that was not yet asked for.
Delay == "delay"
Expiration == "expiration"
Cancelled == "cancelled"
Source == "source"

\* What the constants must satisfy.
CorosAssumption ==
  /\ Root \in Coros /\ Coros \cap Sources = {}
  /\ {Delay, Expiration, Cancelled, Source, None, "value"} \cap Tasks = {}
  /\ None \notin {Delay, Expiration, Cancelled, Source, "value"}

VARIABLES
  at,             \* where each coroutine is
  caller,         \* the coroutine that waits for the first suspension of this one
  holder,         \* which coroutine has the Task
  outcome,        \* None, "value" or the origin of the error
  continuation,   \* the coroutine that is set to continue after the task
  awaiting,       \* what a coroutine awaits, and whether it does so by doTry()
  errorOnDestroy, \* TaskPromise::errorOnDestroy
  taken,          \* the tasks whose value was taken by await_resume
  rested,         \* bound: who has awaited a delay or the expiration
  expired,        \* the expiration
  installing      \* who is still in await_suspend of the expiration's awaiter
coroVars == <<at, caller, holder, outcome, continuation, awaiting, errorOnDestroy, taken,
              rested, expired, installing>>

Nothing == [on |-> None, try |-> FALSE]

CoroInit ==
  /\ at = [c \in Coros |-> IF c = Root THEN "running" ELSE "new"]
  /\ caller = [c \in Coros |-> None]
  /\ holder = [t \in Tasks |-> IF t \in Sources THEN Source ELSE None]
  /\ outcome = [t \in Tasks |-> None]
  /\ continuation = [t \in Tasks |-> None]
  /\ awaiting = [c \in Coros |-> Nothing]
  /\ errorOnDestroy = [c \in Coros |-> None]
  /\ taken = {} /\ rested = {} /\ expired = FALSE /\ installing = {}

Ready(t) == outcome[t] # None
Failed(t) == outcome[t] \notin {None, "value"}

\* A mutant of AwaitedFailed: doTry() does not keep the error from the coroutine.
AwaitedFailedAnyway(c) == awaiting[c].on \in Tasks /\ Failed(awaiting[c].on)

\* c awaits, and not by doTry(), a task that has failed.
AwaitedFailed(c) == awaiting[c].on \in Tasks /\ ~awaiting[c].try /\ Failed(awaiting[c].on)

\* Who goes on when c suspends or ends: the one that has called it.
Freed(c) == IF c \in installing THEN {} ELSE {caller[c]}
\* Who is to continue when t is settled.
Woken(t) == {continuation[t]}

\* c comes to a place, the freed ones run on and the woken ones are posted.
Move(c, place, freed, woken) ==
  at' = [d \in Coros |-> IF d = c THEN place
                         ELSE IF d \in freed THEN "running"
                         ELSE IF d \in woken THEN "posted" ELSE at[d]]

\* tryResolve and tryReject: the first one wins.
Settle(t, result) == outcome' = [outcome EXCEPT ![t] = IF @ = None THEN result ELSE @]

\* The local variables of a coroutine go, the tasks among them unfinished or not.
DropLocals(c) == holder' = [t \in Tasks |-> IF holder[t] = c THEN None ELSE holder[t]]

-----------------------------------------------------------------------------
(* Tasks *)

\* A call: the body of d runs at once, and its Task is the result of the call.
Call(c, d) ==
  /\ at[c] = "running" /\ at[d] = "new"
  /\ at' = [at EXCEPT ![c] = "calling", ![d] = "running"]
  /\ caller' = [caller EXCEPT ![d] = c]
  /\ holder' = [holder EXCEPT ![d] = c]
  /\ UNCHANGED <<outcome, continuation, awaiting, errorOnDestroy, taken, rested, expired, installing>>

\* TaskSource::getTask, once.
GetTask(c, s) ==
  /\ at[c] = "running" /\ holder[s] = Source
  /\ holder' = [holder EXCEPT ![s] = c]
  /\ UNCHANGED <<at, caller, outcome, continuation, awaiting, errorOnDestroy, taken, rested,
                 expired, installing>>

\* makeResolved, makeRejected: a task that is settled before it is given out.
MakeTask(c, s) ==
  /\ at[c] = "running" /\ holder[s] = Source /\ ~Ready(s)
  /\ \E result \in {"value", s} : Settle(s, result)
  /\ holder' = [holder EXCEPT ![s] = c]
  /\ UNCHANGED <<at, caller, continuation, awaiting, errorOnDestroy, taken, rested, expired,
                 installing>>

\* detach(), and the Task goes: nobody will ask what became of it.
Detach(c, t) ==
  /\ at[c] = "running" /\ holder[t] = c
  /\ holder' = [holder EXCEPT ![t] = None]
  /\ UNCHANGED <<at, caller, outcome, continuation, awaiting, errorOnDestroy, taken, rested,
                 expired, installing>>

\* asResult() of a task that is ready leaves an empty Task behind.
AsResult(c, t) == Ready(t) /\ Detach(c, t)

\* resolve, reject, or the destructor, which rejects.
SettleSource(s) ==
  /\ ~Ready(s)
  /\ \E result \in {"value", s} : Settle(s, result)
  /\ at' = [c \in Coros |-> IF c \in Woken(s) THEN "posted" ELSE at[c]]
  /\ UNCHANGED <<caller, holder, continuation, awaiting, errorOnDestroy, taken, rested, expired,
                 installing>>

-----------------------------------------------------------------------------
(* co_await of a task *)

\* TaskAwaiter::await_ready and TaskTryAwaiter::await_ready
AwaitReady(t, try) == Ready(t) /\ (try \/ ~Failed(t))

\* The Task is moved into the awaiter.
Await(c, t) ==
  /\ at[c] = "running" /\ holder[t] = c
  /\ holder' = [holder EXCEPT ![t] = None]
  /\ \E try \in BOOLEAN :
       IF AwaitReady(t, try)
       THEN /\ taken' = IF try THEN taken ELSE taken \cup {t}
            /\ UNCHANGED <<at, awaiting>>
       ELSE /\ at' = [at EXCEPT ![c] = "suspending"]
            /\ awaiting' = [awaiting EXCEPT ![c] = [on |-> t, try |-> try]]
            /\ UNCHANGED taken
  /\ UNCHANGED <<caller, outcome, continuation, errorOnDestroy, rested, expired, installing>>

\* TaskAwaiter::await_suspend of a task that has failed: the coroutine's own
\* task is rejected, the frame destroyed after that.
SuspendFailed(c) ==
  /\ at[c] = "suspending" /\ AwaitedFailed(c)
  /\ Settle(c, outcome[awaiting[c].on])
  /\ Move(c, "leaving", {}, Woken(c))
  /\ UNCHANGED <<caller, holder, continuation, awaiting, errorOnDestroy, taken, rested, expired,
                 installing>>

\* setContinuation: a task that has become ready schedules it at once.
Suspend(c) ==
  /\ at[c] = "suspending" /\ ~AwaitedFailed(c)
  /\ IF Ready(awaiting[c].on)
     THEN Move(c, "posted", Freed(c), {}) /\ UNCHANGED continuation
     ELSE /\ Move(c, "waiting", Freed(c), {})
          /\ continuation' = [continuation EXCEPT ![awaiting[c].on] = c]
  /\ caller' = [caller EXCEPT ![c] = IF c \in installing THEN @ ELSE None]
  /\ UNCHANGED <<holder, outcome, awaiting, errorOnDestroy, taken, rested, expired, installing>>

\* The invocation of TaskAwaiter finds an error: it is kept for the promise.
ContinueFailed(c) ==
  /\ at[c] = "posted" /\ AwaitedFailed(c)
  /\ errorOnDestroy' = [errorOnDestroy EXCEPT ![c] = outcome[awaiting[c].on]]
  /\ at' = [at EXCEPT ![c] = "dying"]
  /\ UNCHANGED <<caller, holder, outcome, continuation, awaiting, taken, rested, expired, installing>>

\* await_resume; what is awaited by doTry(), or not a task, has no error here.
Continue(c) ==
  /\ at[c] = "posted" /\ ~AwaitedFailed(c)
  /\ at' = [at EXCEPT ![c] = "running"]
  /\ taken' = IF awaiting[c].on \in Tasks /\ ~awaiting[c].try THEN taken \cup {awaiting[c].on}
              ELSE taken
  /\ awaiting' = [awaiting EXCEPT ![c] = Nothing]
  /\ UNCHANGED <<caller, holder, outcome, continuation, errorOnDestroy, rested, expired, installing>>

-----------------------------------------------------------------------------
(* The end of a coroutine *)

\* The task is settled while the frame is still there.
FinishWith(c, result) ==
  /\ at[c] = "running"
  /\ Settle(c, result)
  /\ Move(c, "leaving", {}, Woken(c))
  /\ UNCHANGED <<caller, holder, continuation, awaiting, errorOnDestroy, taken, rested, expired,
                 installing>>

\* A value, an error, or a Result with either; nothing in a Task<void>.
CoReturn(c) == \E result \in {"value", c} : FinishWith(c, result)
CoYield(c) == FinishWith(c, c)
\* A Result with a value lets the coroutine go on, this is one with an error.
AwaitResult(c) == FinishWith(c, c)

Leave(c) ==
  /\ at[c] = "leaving"
  /\ Move(c, "gone", Freed(c), {})
  /\ DropLocals(c)
  /\ UNCHANGED <<caller, outcome, continuation, awaiting, errorOnDestroy, taken, rested, expired,
                 installing>>

\* coroutine.destroy() with errorOnDestroy: first the local variables ...
Destroy(c) ==
  /\ at[c] = "dying"
  /\ at' = [at EXCEPT ![c] = "promise"]
  /\ DropLocals(c)
  /\ UNCHANGED <<caller, outcome, continuation, awaiting, errorOnDestroy, taken, rested, expired,
                 installing>>

\* ... then the promise, which rejects the task.
DestroyPromise(c) ==
  /\ at[c] = "promise"
  /\ Settle(c, errorOnDestroy[c])
  /\ Move(c, "gone", Freed(c), Woken(c))
  /\ UNCHANGED <<caller, holder, continuation, awaiting, errorOnDestroy, taken, rested, expired,
                 installing>>

-----------------------------------------------------------------------------
(* co_await of a delay and of an expiration *)

AwaitDelay(c) ==
  /\ at[c] = "running" /\ c \notin rested /\ Cardinality(rested) < MaxRests
  /\ rested' = rested \cup {c}
  /\ Move(c, "waiting", Freed(c), {})
  /\ caller' = [caller EXCEPT ![c] = IF c \in installing THEN @ ELSE None]
  /\ awaiting' = [awaiting EXCEPT ![c].on = Delay]
  /\ UNCHANGED <<holder, outcome, continuation, errorOnDestroy, taken, expired, installing>>

\* The callback of executeAfter without an error, and with one.
DelayOver(c) ==
  /\ at[c] = "waiting" /\ awaiting[c].on = Delay
  /\ \/ at' = [at EXCEPT ![c] = "running"] /\ awaiting' = [awaiting EXCEPT ![c] = Nothing]
        /\ UNCHANGED errorOnDestroy
     \/ at' = [at EXCEPT ![c] = "dying"]
        /\ errorOnDestroy' = [errorOnDestroy EXCEPT ![c] = Cancelled]
        /\ UNCHANGED awaiting
  /\ UNCHANGED <<caller, holder, outcome, continuation, taken, rested, expired, installing>>

\* ExpirationAwaiter::await_ready
AwaitExpiration(c) ==
  /\ at[c] = "running" /\ c \notin rested /\ Cardinality(rested) < MaxRests /\ ~expired
  /\ rested' = rested \cup {c}
  /\ at' = [at EXCEPT ![c] = "subscribing"]
  /\ awaiting' = [awaiting EXCEPT ![c].on = Expiration]
  /\ UNCHANGED <<caller, holder, outcome, continuation, errorOnDestroy, taken, expired, installing>>

\* expiration.subscribe: one that has expired meanwhile calls back at once.
Subscribe(c) ==
  /\ at[c] = "subscribing"
  /\ at' = [at EXCEPT ![c] = IF expired THEN "posted" ELSE "waiting"]
  /\ installing' = installing \cup {c}
  /\ UNCHANGED <<caller, holder, outcome, continuation, awaiting, errorOnDestroy, taken, rested,
                 expired>>

\* The callback of the subscription, for everybody who has one.
Expire ==
  /\ ~expired /\ expired' = TRUE
  /\ at' = [c \in Coros |-> IF at[c] = "waiting" /\ awaiting[c].on = Expiration THEN "posted"
                            ELSE at[c]]
  /\ UNCHANGED <<caller, holder, outcome, continuation, awaiting, errorOnDestroy, taken, rested,
                 installing>>

\* subscription = ..., the last thing await_suspend does: the coroutine may have
\* gone on by then, and its awaiter be no more.
AssignSubscription(c) ==
  /\ c \in installing /\ installing' = installing \ {c}
  /\ at' = IF caller[c] = None THEN at ELSE [at EXCEPT ![caller[c]] = "running"]
  /\ caller' = [caller EXCEPT ![c] = None]
  /\ UNCHANGED <<holder, outcome, continuation, awaiting, errorOnDestroy, taken, rested, expired>>

-----------------------------------------------------------------------------

CoroStep(c) ==
  \/ \E d \in Coros : Call(c, d)
  \/ \E s \in Sources : GetTask(c, s) \/ MakeTask(c, s)
  \/ \E t \in Tasks : Await(c, t) \/ Detach(c, t) \/ AsResult(c, t)
  \/ SuspendFailed(c) \/ Suspend(c) \/ ContinueFailed(c) \/ Continue(c)
  \/ CoReturn(c) \/ CoYield(c) \/ AwaitResult(c) \/ Leave(c) \/ Destroy(c) \/ DestroyPromise(c)
  \/ AwaitDelay(c) \/ DelayOver(c)
  \/ AwaitExpiration(c) \/ Subscribe(c)

CoroNext ==
  \/ \E c \in Coros : CoroStep(c) \/ AssignSubscription(c)
  \/ \E s \in Sources : SettleSource(s)
  \/ Expire

\* A body that runs goes on, a delay is over at some time, and a TaskSource is
\* settled at the latest by its destructor; nothing need ever expire.
Fairness ==
  /\ \A c \in Coros : WF_coroVars(CoroStep(c)) /\ WF_coroVars(AssignSubscription(c))
  /\ \A s \in Sources : WF_coroVars(SettleSource(s))

CoroSpec == CoroInit /\ [][CoroNext]_coroVars /\ Fairness

-----------------------------------------------------------------------------
\* The assertion of TaskAwaiter::await_resume: a coroutine takes a value only
\* of a task that has one, whenever the error may have come.
ValuesAreThere == \A t \in taken : outcome[t] = "value"

\* An error goes up unchanged: a coroutine that fails without having said so
\* itself fails by a delay that was cancelled, or with the error of the task it
\* awaited without doTry().
ErrorsGoUp ==
  [][\A c \in Coros : outcome[c] = None /\ outcome'[c] # None /\ at[c] # "running" =>
       /\ ~awaiting[c].try
       /\ IF awaiting[c].on = Delay THEN outcome'[c] = Cancelled
          ELSE Failed(awaiting[c].on) /\ outcome'[c] = outcome[awaiting[c].on]]_coroVars

\* The comment at errorOnDestroy, and the rejection its destructor expects to
\* succeed: a coroutine whose task is settled never runs on, and one that is
\* destroyed with an error has not settled its task before.
OneOutcome ==
  /\ [][\A c \in Coros : Ready(c) => at'[c] # "running"]_coroVars
  /\ [](\A c \in Coros : at[c] \in {"dying", "promise"} => ~Ready(c))

\* Every coroutine ends, as long as nobody waits for something to expire.
EverybodyEnds ==
  \A c \in Coros : (at[c] = "running") ~>
    (at[c] = "gone" \/ \E d \in Coros : at[d] = "waiting" /\ awaiting[d].on = Expiration)

\* What await_suspend of the expiration's awaiter assigns to is still there.  It
\* fails when the expiration comes while the awaiter subscribes.
AwaiterIsThere ==
  [][\A c \in installing \ installing' : at[c] \in {"waiting", "posted"}]_coroVars

\* The assertion of ~TaskBase: "Not finished Async::Task<> is leaving its scope".
\* It fails when an error destroys a frame with such a task in it.
TasksAreFinished ==
  [][\A c \in Coros, t \in Tasks :
       at[c] = "dying" /\ at'[c] # "dying" /\ holder[t] = c => Ready(t)]_coroVars

=============================================================================
