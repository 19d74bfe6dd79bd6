------------------------------ MODULE Waiting -------------------------------
(***************************************************************************)
(* The two ways in which threads block for each other.                     *)
(* async::wait (waitInternal in task.cpp): a thread blocks on an Event of  *)
(* its own stack until a task is ready or the time is over; the callback   *)
(* that sets the event runs on the thread that resolves the task.  The     *)
(* Event is src/threading/event.cpp, reset automatically: set() keeps the  *)
(* signal until a waiter consumes it.                                      *)
(* threading::Barrier (src/threading/barrier.cpp): the last thread that    *)
(* enters notifies without taking the mutex: a notification that comes     *)
(* between another thread's look at the counter and its sleep is lost.     *)
(***************************************************************************)
EXTENDS Naturals, FiniteSets

CONSTANTS Attendees,    \* the threads that meet at the barrier
          Hurried       \* those of them that enter with a timeout

\* What the constants must satisfy.
BarrierAssumption == IsFiniteSet(Attendees) /\ Attendees # {} /\ Hurried \subseteq Attendees

VARIABLES timed,       \* does the wait have a timeout
          taskReady, waitCallback, event, waiter, setter, waitResult, touchedDead,
          arrived, barrierMutex, place, entered    \* the barrier
waitVars == <<timed, taskReady, waitCallback, event, waiter, setter, waitResult, touchedDead>>
barrierVars == <<arrived, barrierMutex, place, entered>>

-----------------------------------------------------------------------------
(* wait() *)

WaitInit ==
  /\ timed \in BOOLEAN
  /\ taskReady = FALSE /\ waitCallback = FALSE
  /\ event = "none"      \* none, clear, signaled, gone
  /\ waiter = "start" /\ setter = "idle"
  /\ waitResult = "none" /\ touchedDead = FALSE

WaiterGoes(from, to) == waiter = from /\ waiter' = to

\* The resolver's side: ready, then the callback is taken, then called.
MakeReady ==
  /\ setter = "idle" /\ setter' = "take"
  /\ taskReady' = TRUE
  /\ UNCHANGED <<timed, waitCallback, event, waiter, waitResult, touchedDead>>

TakeWaitCallback ==
  /\ setter = "take"
  /\ setter' = IF waitCallback THEN "set" ELSE "done"
  /\ waitCallback' = FALSE
  /\ UNCHANGED <<timed, taskReady, event, waiter, waitResult, touchedDead>>

\* Event::set
SetEvent ==
  /\ setter = "set" /\ setter' = "done"
  /\ touchedDead' = (event = "gone")
  /\ event' = IF event = "gone" THEN event ELSE "signaled"
  /\ UNCHANGED <<timed, taskReady, waitCallback, waiter, waitResult>>

\* isReady() before anything else.
AlreadyReady ==
  /\ taskReady /\ WaiterGoes("start", "left")
  /\ waitResult' = "true"
  /\ UNCHANGED <<timed, taskReady, waitCallback, event, setter, touchedDead>>

MakeEvent ==
  /\ ~taskReady /\ WaiterGoes("start", "register")
  /\ event' = "clear"
  /\ UNCHANGED <<timed, taskReady, waitCallback, setter, waitResult, touchedDead>>

\* A mutant of RegisterCallback: a task that became ready is not noticed.
RegisterUnseen ==
  /\ WaiterGoes("register", "wait")
  /\ waitCallback' = TRUE
  /\ UNCHANGED <<timed, taskReady, event, setter, waitResult, touchedDead>>

\* setReadyCallback calls back at once when the task has become ready.
RegisterCallback ==
  /\ WaiterGoes("register", "wait")
  /\ IF taskReady THEN event' = "signaled" /\ UNCHANGED waitCallback
                  ELSE waitCallback' = TRUE /\ UNCHANGED event
  /\ UNCHANGED <<timed, taskReady, setter, waitResult, touchedDead>>

\* Event::wait consumes the signal.
WaitSucceeds ==
  /\ event = "signaled" /\ WaiterGoes("wait", "clear")
  /\ event' = "clear" /\ waitResult' = "true"
  /\ UNCHANGED <<timed, taskReady, waitCallback, setter, touchedDead>>

WaitTimesOut ==
  /\ timed /\ event = "clear" /\ WaiterGoes("wait", "clear")
  /\ waitResult' = "false"
  /\ UNCHANGED <<timed, taskReady, waitCallback, event, setter, touchedDead>>

\* The event is destroyed before the callback is cleared: it is the younger
\* of the two locals.
DestroyEvent ==
  /\ WaiterGoes("clear", "unregister")
  /\ event' = "gone"
  /\ UNCHANGED <<timed, taskReady, waitCallback, setter, waitResult, touchedDead>>

ClearCallback ==
  /\ WaiterGoes("unregister", "left")
  /\ waitCallback' = FALSE
  /\ UNCHANGED <<timed, taskReady, event, setter, waitResult, touchedDead>>

WaiterStep == AlreadyReady \/ MakeEvent \/ RegisterCallback \/ WaitSucceeds
              \/ WaitTimesOut \/ DestroyEvent \/ ClearCallback
SetterStep == MakeReady \/ TakeWaitCallback \/ SetEvent
WaitNext == WaiterStep \/ SetterStep

-----------------------------------------------------------------------------
(* Barrier *)

Unheld == "free"
Total == Cardinality(Attendees)

BarrierInit ==
  /\ arrived = 0 /\ barrierMutex = Unheld
  /\ place = [t \in Attendees |-> "outside"]
  /\ entered = [t \in Attendees |-> "none"]

BarrierGoto(t, from, to) == place[t] = from /\ place' = [place EXCEPT ![t] = to]
Leave(t, from, value) ==
  /\ BarrierGoto(t, from, "left")
  /\ entered' = [entered EXCEPT ![t] = value]

\* m_counter.fetch_add
Enter(t) ==
  /\ BarrierGoto(t, "outside", IF arrived = Total - 1 THEN "notify" ELSE "lock")
  /\ arrived' = arrived + 1
  /\ UNCHANGED <<barrierMutex, entered>>

\* The last one: notify_all wakes the threads that sleep at this moment.
NotifyAll(t) ==
  /\ place[t] = "notify"
  /\ place' = [u \in Attendees |-> IF u = t THEN "left"
                                ELSE IF place[u] = "asleep" THEN "woken" ELSE place[u]]
  /\ entered' = [entered EXCEPT ![t] = "true"]
  /\ UNCHANGED <<arrived, barrierMutex>>

Lock(t) ==
  /\ barrierMutex = Unheld /\ barrierMutex' = t
  /\ \E from \in {"lock", "woken", "late"} :
       BarrierGoto(t, from, IF from = "late" THEN "giveUp" ELSE "check")
  /\ UNCHANGED <<arrived, entered>>

\* The predicate of the wait, looked at under the mutex.
Check(t) ==
  /\ barrierMutex = t
  /\ IF arrived = Total
     THEN Leave(t, "check", "true") /\ barrierMutex' = Unheld
     ELSE BarrierGoto(t, "check", "sleep") /\ UNCHANGED <<barrierMutex, entered>>
  /\ UNCHANGED arrived

\* Falling asleep releases the mutex, in one step.
Sleep(t) ==
  /\ BarrierGoto(t, "sleep", "asleep")
  /\ barrierMutex' = Unheld
  /\ UNCHANGED <<arrived, entered>>

\* wait_for: the time is over, the predicate is looked at once more.
TimeOut(t) ==
  /\ t \in Hurried
  /\ BarrierGoto(t, "asleep", "late")
  /\ UNCHANGED <<arrived, barrierMutex, entered>>

GiveUp(t) ==
  /\ barrierMutex = t
  /\ Leave(t, "giveUp", IF arrived = Total THEN "true" ELSE "false")
  /\ barrierMutex' = Unheld
  /\ UNCHANGED arrived

Step(t) == Enter(t) \/ NotifyAll(t) \/ Lock(t) \/ Check(t) \/ Sleep(t)
           \/ TimeOut(t) \/ GiveUp(t)
BarrierNext == \E t \in Attendees : Step(t)

-----------------------------------------------------------------------------

WaitingInit == WaitInit /\ BarrierInit
WaitingNext ==
  \/ WaitNext /\ UNCHANGED barrierVars
  \/ BarrierNext /\ UNCHANGED waitVars

WaitingFairness ==
  /\ WF_waitVars(WaiterStep) /\ WF_waitVars(TakeWaitCallback \/ SetEvent)
  /\ \A t \in Attendees : WF_barrierVars(Step(t))

WaitingSpec == WaitingInit /\ [][WaitingNext]_<<waitVars, barrierVars>> /\ WaitingFairness

-----------------------------------------------------------------------------
\* wait() without a timeout returns once the task is ready: the callback is
\* neither missed nor cleared before it has been called.
WaitEnds == (taskReady /\ ~timed) ~> (waiter = "left")

\* TRUE from wait() means the task is ready.
WaitIsTruthful == waitResult = "true" => taskReady

\* The event outlives the callback that sets it, as long as the wait ends by
\* that callback and not by its timeout.
EventOutlivesCallback == ~timed => ~touchedDead

\* enter() says TRUE only when every thread has come to the barrier.
NobodyAhead == \A t \in Attendees : entered[t] = "true" => arrived = Total

\* Every thread that enters leaves, the promise of a barrier once all its
\* threads have come; the waits of barrier.cpp rely on it.
EveryoneLeaves == <>(\A t \in Attendees : place[t] = "left")

\* What the code keeps of it: threads that wait with a timeout leave.
HurriedLeave == <>(\A t \in Hurried : place[t] = "left")

=============================================================================
