---------------------------- MODULE Cancellation ----------------------------
(***************************************************************************)
(* CancellationState and ExpirationState (src/utils/cancellation.cpp): one *)
(* cancellation with its direct subscribers and an expiration with that    *)
(* cancellation and a timeout, which subscribes to both sources when it    *)
(* gets its first waiter.  cancel(), the timer and every subscriber run on *)
(* threads of their own.  The mutex of either state is held for one step,  *)
(* except by a waiter that subscribes; an entry's spin lock is held while  *)
(* its callback runs.                                                      *)
(***************************************************************************)
EXTENDS Naturals, Sequences

CONSTANTS Cancellers,  \* threads that call cancel()
          Direct,      \* subscribers of the cancellation
          Waiters      \* subscribers of the expiration

\* The thread of the timer, and the expiration as a subscriber.
Timer == "timer"
Expiration == "expiration"

ASSUME NamesAssumption ==
  /\ Cancellers \cap (Direct \cup Waiters) = {} /\ Direct \cap Waiters = {}
  /\ {Timer, Expiration} \cap (Cancellers \cup Direct \cup Waiters) = {}

Runners == Cancellers \cup {Timer}
Subscribers == Direct \cup Waiters

VARIABLES
  isCancelled,   \* m_isCancelled
  subscriptions, \* m_subscriptions of the cancellation
  live,          \* subscribers, on either list, whose entry has a callback
  invoked,       \* m_callbacksAreInvoked
  waiting,       \* m_subscriptions of the expiration
  timer,         \* m_timerSubscription and what became of it
  timeOver,      \* is the timeout over
  state,         \* the life of the expiration
  pc,            \* where each thread is
  at,            \* which entry of the cancellation each runner is at
  atWaiter,      \* which entry of the expiration each runner is at
  called         \* how often each callback has been called

vars == <<isCancelled, subscriptions, live, invoked, waiting, timer, timeOver, state,
          pc, at, atWaiter, called>>

cancellation == <<isCancelled, subscriptions>>
expiration == <<invoked, waiting, timer, state>>
cursors == <<at, atWaiter>>

Init ==
  /\ isCancelled = FALSE /\ subscriptions = << >>
  /\ live = {}
  /\ invoked = FALSE /\ waiting = << >>
  /\ timer = "none" /\ timeOver = FALSE /\ state = "alive"
  /\ pc = [t \in Runners \cup Subscribers |-> "idle"]
  /\ at = [t \in Runners |-> 1] /\ atWaiter = [t \in Runners |-> 1]
  /\ called = [s \in Subscribers |-> 0]

Goto(t, from, to) == pc[t] = from /\ pc' = [pc EXCEPT ![t] = to]

\* Who holds m_mutex of the expiration, and who that of the cancellation too.
Subscribing == {w \in Waiters : pc[w] \in {"locked", "emplaced", "installing", "stuck"}}
Stuck == {w \in Waiters : pc[w] = "stuck"}

IsExpired == isCancelled \/ timeOver

Elements(seq) == {seq[i] : i \in 1..Len(seq)}

-----------------------------------------------------------------------------
(* cancel() and the callbacks *)

\* The first call iterates over the subscriptions, without the mutex.
Cancel(k) ==
  /\ Stuck = {}
  /\ Goto(k, "idle", IF isCancelled THEN "returned" ELSE "cancelling")
  /\ isCancelled' = TRUE
  /\ UNCHANGED <<subscriptions, live, expiration, timeOver, cursors, called>>

Iterate(k) ==
  /\ at[k] <= Len(subscriptions)
  /\ Goto(k, "cancelling",
          IF subscriptions[at[k]] \notin live THEN "next"
          ELSE IF subscriptions[at[k]] = Expiration THEN "invoke" ELSE "inDirect")
  /\ UNCHANGED <<cancellation, live, expiration, timeOver, cursors, called>>

NextSubscription(k) ==
  /\ Goto(k, "next", "cancelling")
  /\ at' = [at EXCEPT ![k] = @ + 1]
  /\ UNCHANGED <<cancellation, live, expiration, timeOver, atWaiter, called>>

\* The callback may reset its own subscription: the spin lock is recursive.
CallDirect(k) ==
  /\ Goto(k, "inDirect", "next")
  /\ called' = [called EXCEPT ![subscriptions[at[k]]] = @ + 1]
  /\ live' \in {live, live \ {subscriptions[at[k]]}}
  /\ UNCHANGED <<cancellation, expiration, timeOver, cursors>>

CancelReturns(k) ==
  /\ at[k] > Len(subscriptions)
  /\ Goto(k, "cancelling", "returned")
  /\ UNCHANGED <<cancellation, live, expiration, timeOver, cursors, called>>

TimeIsOver ==
  /\ ~timeOver
  /\ timeOver' = TRUE
  /\ UNCHANGED <<cancellation, live, expiration, pc, cursors, called>>

\* The timer calls back unless it has been cancelled.
Fire ==
  /\ timer = "armed" /\ timeOver
  /\ Goto(Timer, "idle", "invoke")
  /\ timer' = "running"
  /\ UNCHANGED <<cancellation, live, invoked, waiting, timeOver, state, cursors, called>>

AfterInvoke(t) == IF t = Timer THEN "fired" ELSE "next"

\* invokeCallbacks of the expiration, by the timer or by cancel().
InvokeCallbacks(t) ==
  /\ Subscribing = {}
  /\ Goto(t, "invoke", IF invoked THEN AfterInvoke(t) ELSE "calling")
  /\ invoked' = TRUE
  /\ UNCHANGED <<cancellation, live, waiting, timer, timeOver, state, cursors, called>>

\* A mutant of IterateWaiters: the iteration ends at an entry without a callback.
IterateUntilUnsubscribed(t) ==
  /\ atWaiter[t] <= Len(waiting)
  /\ Goto(t, "calling", IF waiting[atWaiter[t]] \in live THEN "inWaiter" ELSE AfterInvoke(t))
  /\ UNCHANGED <<cancellation, live, expiration, timeOver, cursors, called>>

IterateWaiters(t) ==
  /\ atWaiter[t] <= Len(waiting)
  /\ Goto(t, "calling", IF waiting[atWaiter[t]] \in live THEN "inWaiter" ELSE "nextWaiter")
  /\ UNCHANGED <<cancellation, live, expiration, timeOver, cursors, called>>

CallWaiter(t) ==
  /\ Goto(t, "inWaiter", "nextWaiter")
  /\ called' = [called EXCEPT ![waiting[atWaiter[t]]] = @ + 1]
  /\ UNCHANGED <<cancellation, live, expiration, timeOver, cursors>>

NextWaiter(t) ==
  /\ Goto(t, "nextWaiter", "calling")
  /\ atWaiter' = [atWaiter EXCEPT ![t] = @ + 1]
  /\ UNCHANGED <<cancellation, live, expiration, timeOver, at, called>>

InvokeReturns(t) ==
  /\ atWaiter[t] > Len(waiting)
  /\ Goto(t, "calling", AfterInvoke(t))
  /\ UNCHANGED <<cancellation, live, expiration, timeOver, cursors, called>>

Fired ==
  /\ Goto(Timer, "fired", "returned")
  /\ timer' = "done"
  /\ UNCHANGED <<cancellation, live, invoked, waiting, timeOver, state, cursors, called>>

InsideExpiration(t) == pc[t] \in {"invoke", "calling", "inWaiter", "nextWaiter", "fired"}

Invoking(t) ==
  InvokeCallbacks(t) \/ IterateWaiters(t) \/ CallWaiter(t) \/ NextWaiter(t) \/ InvokeReturns(t)

Cancelling(k) ==
  Iterate(k) \/ NextSubscription(k) \/ CallDirect(k) \/ CancelReturns(k) \/ Invoking(k)

-----------------------------------------------------------------------------
(* Subscribers of the cancellation *)

\* A callback that comes too late is called at once.
Subscribe(d) ==
  /\ Stuck = {}
  /\ IF isCancelled
       THEN /\ Goto(d, "idle", "done")
            /\ called' = [called EXCEPT ![d] = @ + 1]
            /\ UNCHANGED <<subscriptions, live>>
       ELSE /\ Goto(d, "idle", "subscribed")
            /\ subscriptions' = Append(subscriptions, d)
            /\ live' = live \cup {d}
            /\ UNCHANGED called
  /\ UNCHANGED <<isCancelled, expiration, timeOver, cursors>>

BeingCalled(s) ==
  \E t \in Runners :
    \/ pc[t] = "inDirect" /\ subscriptions[at[t]] = s
    \/ pc[t] = "inWaiter" /\ waiting[atWaiter[t]] = s

\* A mutant of Unsubscribe: without the entry's lock.
UnsubscribeUnlocked(s) ==
  /\ Goto(s, "subscribed", "done")
  /\ live' = live \ {s}
  /\ UNCHANGED <<cancellation, expiration, timeOver, cursors, called>>

\* setUnsubscribed waits for a callback that is running.
Unsubscribe(s) ==
  /\ Goto(s, "subscribed", "done")
  /\ ~BeingCalled(s)
  /\ live' = live \ {s}
  /\ UNCHANGED <<cancellation, expiration, timeOver, cursors, called>>

-----------------------------------------------------------------------------
(* Subscribers of the expiration *)

LockExpiration(w) ==
  /\ Subscribing = {}
  /\ Goto(w, "idle", "locked")
  /\ UNCHANGED <<cancellation, live, expiration, timeOver, cursors, called>>

SubscribeExpired(w) ==
  /\ Stuck = {} /\ IsExpired
  /\ Goto(w, "locked", "done")
  /\ called' = [called EXCEPT ![w] = @ + 1]
  /\ UNCHANGED <<cancellation, live, expiration, timeOver, cursors>>

Emplace(w) ==
  /\ Stuck = {} /\ ~IsExpired
  /\ Goto(w, "locked", "emplaced")
  /\ waiting' = Append(waiting, w)
  /\ live' = live \cup {w}
  /\ UNCHANGED <<cancellation, invoked, timer, timeOver, state, cursors, called>>

\* installSubscriptions looks once more and installs nothing if it has expired.
InstallNothing(w) ==
  /\ Stuck = {} /\ IsExpired
  /\ Goto(w, "emplaced", "subscribed")
  /\ UNCHANGED <<cancellation, live, expiration, timeOver, cursors, called>>

\* The time may be over by the time it is compared with the timeout.
InstallTimer(w) ==
  /\ Stuck = {} /\ ~IsExpired
  /\ Goto(w, "emplaced", "installing")
  /\ timer' \in IF timer = "none" THEN {"armed", "none"} ELSE {timer}
  /\ timeOver' = (timer' = "none")
  /\ UNCHANGED <<cancellation, live, invoked, waiting, state, cursors, called>>

\* The expiration subscribes to its cancellation, once.  A cancellation that has
\* been cancelled meanwhile calls back at once, into invokeCallbacks, for the
\* mutex that this thread holds.
InstallCancellation(w) ==
  /\ Stuck = {}
  /\ IF Expiration \in Elements(subscriptions)
       THEN Goto(w, "installing", "subscribed") /\ UNCHANGED <<subscriptions, live>>
       ELSE IF isCancelled
         THEN Goto(w, "installing", "stuck") /\ UNCHANGED <<subscriptions, live>>
         ELSE /\ Goto(w, "installing", "subscribed")
              /\ subscriptions' = Append(subscriptions, Expiration)
              /\ live' = live \cup {Expiration}
  /\ UNCHANGED <<isCancelled, expiration, timeOver, cursors, called>>

\* Somebody who has the expiration lets go of it without a subscription.
LetGo(w) ==
  /\ Goto(w, "idle", "done")
  /\ UNCHANGED <<cancellation, live, expiration, timeOver, cursors, called>>

InSubscribe(w) ==
  SubscribeExpired(w) \/ Emplace(w) \/ InstallNothing(w) \/ InstallTimer(w)
  \/ InstallCancellation(w)

-----------------------------------------------------------------------------
(* The end of the expiration, with its last waiter *)

\* cancelInvokeAfter waits for the callback.
CancelTimer ==
  /\ state = "alive" /\ \A w \in Waiters : pc[w] = "done"
  /\ timer # "running"
  /\ state' = "timerCancelled"
  /\ timer' = IF timer = "armed" THEN "cancelled" ELSE timer
  /\ UNCHANGED <<cancellation, live, invoked, waiting, timeOver, pc, cursors, called>>

\* So does unsubscribe of the cancellation; then the entries are destroyed.
Destroy ==
  /\ state = "timerCancelled"
  /\ \A k \in Cancellers : ~InsideExpiration(k)
  /\ state' = "destroyed"
  /\ live' = live \ {Expiration}
  /\ UNCHANGED <<cancellation, invoked, waiting, timer, timeOver, pc, cursors, called>>

Destruction == CancelTimer \/ Destroy

-----------------------------------------------------------------------------

Next ==
  \/ \E k \in Cancellers : Cancel(k) \/ Cancelling(k)
  \/ TimeIsOver \/ Fire \/ Invoking(Timer) \/ Fired
  \/ \E d \in Direct : Subscribe(d)
  \/ \E s \in Subscribers : Unsubscribe(s)
  \/ \E w \in Waiters : LockExpiration(w) \/ InSubscribe(w) \/ LetGo(w)
  \/ Destruction

Spec == Init /\ [][Next]_vars

\* A call that has begun goes on and a timer that is due fires; nobody need ever
\* cancel, subscribe or unsubscribe, nor the time ever be over.
FairSpec ==
  /\ Spec
  /\ \A k \in Cancellers : WF_vars(Cancelling(k))
  /\ WF_vars(Fire \/ Invoking(Timer) \/ Fired)
  /\ \A w \in Waiters : WF_vars(InSubscribe(w))

-----------------------------------------------------------------------------
(* Properties *)

\* The type invariant: a subscription that is alive is in one of the two lists.
TypeOK ==
  /\ isCancelled \in BOOLEAN /\ invoked \in BOOLEAN /\ timeOver \in BOOLEAN
  /\ subscriptions \in Seq(Direct \cup {Expiration})
  /\ waiting \in Seq(Waiters)
  /\ live \subseteq Elements(subscriptions) \cup Elements(waiting)
  /\ timer \in {"none", "armed", "running", "done", "cancelled"}
  /\ timer = "running" <=> InsideExpiration(Timer)
  /\ state \in {"alive", "timerCancelled", "destroyed"}
  /\ called \in [Subscribers -> Nat]

\* No callback is called twice, although the timer and the cancellation expire
\* the same expiration and cancel() may be called by several threads.
CalledOnce == \A s \in Subscribers : called[s] <= 1

\* Who has unsubscribed may free what its callback uses: it is not running and
\* will not be called any more.
SilentAfterUnsubscribe == \A s \in Subscribers : pc[s] = "done" => ~BeingCalled(s)

\* "After state going to be cancelled, m_subscriptions will not be ever modified",
\* and likewise in the expiration: both lists are iterated without their mutex.
FrozenWhileIterated ==
  [][ /\ isCancelled => subscriptions' = subscriptions
      /\ invoked => waiting' = waiting ]_vars

\* Nobody is in the callbacks of an expiration that has been destroyed.
NoCallbackIntoDestroyed ==
  state = "destroyed" => \A t \in Runners : ~InsideExpiration(t)

\* Callbacks are called at most once, never after their subscriber has left or
\* their expiration is gone, and no list changes while it is iterated unlocked.
CallbacksAreSafe ==
  /\ [](TypeOK /\ CalledOnce /\ SilentAfterUnsubscribe /\ NoCallbackIntoDestroyed)
  /\ FrozenWhileIterated

\* A subscriber of the cancellation is called once it is cancelled, unless it
\* unsubscribes, however subscribe() and cancel() interleave.
CancelledIsCalled ==
  \A d \in Direct :
    isCancelled /\ d \in live ~> called[d] = 1 \/ d \notin live

\* A waiter is called when a source expires to which the expiration has managed
\* to subscribe, unless it unsubscribes.
ExpiredIsCalled ==
  \A w \in Waiters :
    /\ pc[w] = "subscribed" /\ w \in live
    /\ \/ isCancelled /\ Expiration \in live
       \/ timeOver /\ timer # "none"
    ~> called[w] = 1 \/ w \notin live

\* Who subscribes is called when what it subscribed to comes to pass.
CallsArrive == CancelledIsCalled /\ ExpiredIsCalled

\* What SpinLock asserts: "Recursive mutex acquisition is not allowed".
NoRecursiveAcquisition == Stuck = {}

=============================================================================
