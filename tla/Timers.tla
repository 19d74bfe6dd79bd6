------------------------------- MODULE Timers -------------------------------
(***************************************************************************)
(* Win32TimerManager: executeAfter and invokeAfter.  Every call runs a     *)
(* coroutine that owns a TimerState, awaits its promise and then runs the  *)
(* callback; the system's timer, cancelInvokeAfter() and dispose() compete *)
(* for the promise.  m_mutex of the manager and the spin lock of a state   *)
(* are explicit.  The promise is resolved on one thread, the coroutine     *)
(* goes on as a step of its own, on the executor it has captured.          *)
(***************************************************************************)
EXTENDS Naturals

CONSTANTS Plain,      \* the timers of executeAfter
          Invoked,    \* the timers of invokeAfter, which have a handle
          Canceller,  \* the thread that calls cancelInvokeAfter
          Disposer,   \* the thread that calls dispose
          Free        \* nobody holds the lock

TimerIds == Plain \cup Invoked
Actors == TimerIds \cup {Canceller, Disposer}

\* What the constants must satisfy.
TimersAssumption ==
  /\ Plain \cap Invoked = {} /\ Canceller # Disposer
  /\ {Canceller, Disposer, Free} \cap TimerIds = {} /\ Free \notin {Canceller, Disposer}

VARIABLES
  list,        \* m_timerStateList
  mutex,       \* who holds m_mutex
  isDisposed,  \* m_isDisposed
  armed,       \* the timers whose system timer is still to fire
  firing,      \* the timers whose system callback runs
  promise,     \* what each promise is resolved with
  cancelled,   \* TimerState::cancelled
  stateLock,   \* who holds TimerState::mutex
  at,          \* where the coroutine of each timer is
  called,      \* how each callback has been called
  canceller, target,   \* where cancelInvokeAfter is, and the timer it is about
  disposer, remaining  \* where dispose is, and the states it has still to cancel
timerVars == <<list, mutex, isDisposed, armed, firing, promise, cancelled, stateLock,
               at, called, canceller, target, disposer, remaining>>

TimersInit ==
  /\ list = {} /\ mutex = Free /\ isDisposed = FALSE
  /\ armed = {} /\ firing = {} /\ cancelled = {}
  /\ promise = [i \in TimerIds |-> "none"]
  /\ stateLock = [i \in TimerIds |-> Free]
  /\ at = [i \in TimerIds |-> "new"]
  /\ called = [i \in TimerIds |-> "no"]
  /\ canceller = "idle" /\ target = Free
  /\ disposer = "idle" /\ remaining = {}

TimerGoto(i, from, to) == at[i] = from /\ at' = [at EXCEPT ![i] = to]
ResolveWith(i, result) ==
  promise' = IF promise[i] = "none" THEN [promise EXCEPT ![i] = result] ELSE promise
KeepCallers == UNCHANGED <<canceller, target, disposer, remaining>>

-----------------------------------------------------------------------------
(* The coroutine of a timer *)

\* TimerState::TimerState, all of it under m_mutex.
Start(i) ==
  /\ mutex = Free
  /\ TimerGoto(i, "new", "awaiting")
  /\ list' = list \cup {i}
  /\ IF isDisposed
     THEN cancelled' = cancelled \cup {i} /\ ResolveWith(i, "Cancelled") /\ UNCHANGED armed
     ELSE armed' = armed \cup {i} /\ UNCHANGED <<cancelled, promise>>
  /\ UNCHANGED <<mutex, isDisposed, firing, stateLock, called>> /\ KeepCallers

\* The system's timer takes its reference to the promise along.
Fire(i) ==
  /\ i \in armed
  /\ armed' = armed \ {i} /\ firing' = firing \cup {i}
  /\ UNCHANGED <<list, mutex, isDisposed, promise, cancelled, stateLock, at, called>>
  /\ KeepCallers

TimerCallback(i) ==
  /\ i \in firing
  /\ firing' = firing \ {i}
  /\ ResolveWith(i, "Success")
  /\ UNCHANGED <<list, mutex, isDisposed, armed, cancelled, stateLock, at, called>>
  /\ KeepCallers

\* executeAfterAsync: the callback is called in every case, with an error
\* when the timer has been cancelled.
Resume(i) ==
  /\ promise[i] # "none"
  /\ IF i \in Plain
     THEN /\ TimerGoto(i, "awaiting", "destroy")
          /\ called' = [called EXCEPT ![i] = IF promise[i] = "Success" THEN "ok" ELSE "error"]
     ELSE /\ TimerGoto(i, "awaiting", IF promise[i] = "Cancelled" THEN "destroy" ELSE "lockState")
          /\ UNCHANGED called
  /\ UNCHANGED <<list, mutex, isDisposed, armed, firing, promise, cancelled, stateLock>>
  /\ KeepCallers

\* invokeAfter: the callback runs under the lock of its state.
LockState(i) ==
  /\ stateLock[i] = Free
  /\ TimerGoto(i, "lockState", "checkState")
  /\ stateLock' = [stateLock EXCEPT ![i] = i]
  /\ UNCHANGED <<list, mutex, isDisposed, armed, firing, promise, cancelled, called>>
  /\ KeepCallers

CheckCancelled(i) ==
  /\ TimerGoto(i, "checkState", IF i \in cancelled THEN "unlockState" ELSE "calling")
  /\ UNCHANGED <<list, mutex, isDisposed, armed, firing, promise, cancelled, stateLock, called>>
  /\ KeepCallers

Call(i) ==
  /\ TimerGoto(i, "calling", "unlockState")
  /\ called' = [called EXCEPT ![i] = "ok"]
  /\ UNCHANGED <<list, mutex, isDisposed, armed, firing, promise, cancelled, stateLock>>
  /\ KeepCallers

UnlockState(i) ==
  /\ TimerGoto(i, "unlockState", "destroy")
  /\ stateLock' = [stateLock EXCEPT ![i] = Free]
  /\ UNCHANGED <<list, mutex, isDisposed, armed, firing, promise, cancelled, called>>
  /\ KeepCallers

\* ~TimerState: out of the list under m_mutex, then the system's timer.
Unlist(i) ==
  /\ mutex = Free
  /\ TimerGoto(i, "destroy", "deleteTimer")
  /\ list' = list \ {i}
  /\ UNCHANGED <<mutex, isDisposed, armed, firing, promise, cancelled, stateLock, called>>
  /\ KeepCallers

\* DeleteTimerQueueTimer waits for a callback that runs.
DeleteTimer(i) ==
  /\ i \notin firing
  /\ TimerGoto(i, "deleteTimer", "done")
  /\ armed' = armed \ {i}
  /\ UNCHANGED <<list, mutex, isDisposed, firing, promise, cancelled, stateLock, called>>
  /\ KeepCallers

-----------------------------------------------------------------------------
(* TimerState::cancel, which both callers run with m_mutex held *)

\* A mutant of MarkCancelled: without the lock of the state.
MarkUnlocked(i) ==
  /\ cancelled' = cancelled \cup {i}
  /\ UNCHANGED stateLock

MarkCancelled(i) ==
  /\ stateLock[i] = Free
  /\ cancelled' = cancelled \cup {i}
  /\ UNCHANGED stateLock

\* cancelInvokeAfter finds the state of its handle in the list, or returns.
CancelLock ==
  /\ canceller = "idle" /\ mutex = Free
  /\ \E i \in Invoked :
       /\ at[i] # "new"
       /\ target' = i
       /\ IF i \in list THEN canceller' = "mark" /\ mutex' = Canceller
                        ELSE canceller' = "returned" /\ UNCHANGED mutex
  /\ UNCHANGED <<list, isDisposed, armed, firing, promise, cancelled, stateLock, at,
                 called, disposer, remaining>>

CancelMark ==
  /\ canceller = "mark" /\ canceller' = "resolve"
  /\ MarkCancelled(target)
  /\ UNCHANGED <<list, mutex, isDisposed, armed, firing, promise, at, called, target,
                 disposer, remaining>>

CancelResolve ==
  /\ canceller = "resolve" /\ canceller' = "delete"
  /\ ResolveWith(target, "Cancelled")
  /\ UNCHANGED <<list, mutex, isDisposed, armed, firing, cancelled, stateLock, at, called,
                 target, disposer, remaining>>

CancelReturn ==
  /\ canceller = "delete" /\ target \notin firing
  /\ canceller' = "returned" /\ mutex' = Free
  /\ armed' = armed \ {target}
  /\ UNCHANGED <<list, isDisposed, firing, promise, cancelled, stateLock, at, called,
                 target, disposer, remaining>>

DisposeFlag ==
  /\ disposer = "idle" /\ disposer' = "lock"
  /\ isDisposed' = TRUE
  /\ UNCHANGED <<list, mutex, armed, firing, promise, cancelled, stateLock, at, called,
                 canceller, target, remaining>>

DisposeLock ==
  /\ disposer = "lock" /\ mutex = Free
  /\ disposer' = "cancelling" /\ mutex' = Disposer /\ remaining' = list
  /\ UNCHANGED <<list, isDisposed, armed, firing, promise, cancelled, stateLock, at,
                 called, canceller, target>>

\* One state of the loop: marked, resolved and its timer deleted.
DisposeOne ==
  /\ disposer = "cancelling"
  /\ \E i \in remaining :
       /\ i \notin firing
       /\ MarkCancelled(i)
       /\ ResolveWith(i, "ShutingDown")
       /\ armed' = armed \ {i}
       /\ remaining' = remaining \ {i}
  /\ UNCHANGED <<list, mutex, isDisposed, firing, at, called, canceller, target, disposer>>

DisposeReturn ==
  /\ disposer = "cancelling" /\ remaining = {}
  /\ disposer' = "returned" /\ mutex' = Free
  /\ UNCHANGED <<list, isDisposed, armed, firing, promise, cancelled, stateLock, at,
                 called, canceller, target, remaining>>

TimerStep(i) ==
  \/ TimerCallback(i) \/ Resume(i) \/ LockState(i) \/ CheckCancelled(i) \/ Call(i)
  \/ UnlockState(i) \/ Unlist(i) \/ DeleteTimer(i)
CancelStep == CancelMark \/ CancelResolve \/ CancelReturn
DisposeStep == DisposeLock \/ DisposeOne \/ DisposeReturn

TimersNext ==
  \/ \E i \in TimerIds : Start(i) \/ Fire(i) \/ TimerStep(i)
  \/ CancelLock \/ CancelStep
  \/ DisposeFlag \/ DisposeStep

\* Timers fire and threads inside a call go on; a lock is handed out fairly.
TimersFairness ==
  /\ \A i \in TimerIds : WF_timerVars(Fire(i)) /\ SF_timerVars(TimerStep(i))
  /\ WF_timerVars(CancelStep) /\ SF_timerVars(DisposeStep)

TimersSpec == TimersInit /\ [][TimersNext]_timerVars /\ TimersFairness

-----------------------------------------------------------------------------
\* Once cancelInvokeAfter has returned, the callback does not start, and one
\* that was running has come to its end.
SilentAfterCancel ==
  [][\A i \in Invoked :
       called[i] # called'[i] => ~(canceller = "returned" /\ target = i)]_timerVars

\* Every callback of executeAfter comes in the end, and dispose() leaves no
\* timer behind: hasWorks() becomes false, which the runtime waits for.
TimersEnd ==
  /\ \A i \in Plain : at[i] = "awaiting" ~> called[i] # "no"
  /\ disposer = "returned" ~> list = {}

\* The comment in invokeAfter: with ShuttingDown the callback must be called.
ShutdownCallsBack ==
  \A i \in Invoked : at[i] = "done" /\ promise[i] = "ShutingDown" => called[i] = "ok"

=============================================================================
