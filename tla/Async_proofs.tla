---------------------------- MODULE Async_proofs ----------------------------
(***************************************************************************)
(* Proofs about Cancellation, for any number of threads that cancel and    *)
(* that subscribe, and about TaskGroup, for any list of tasks.  The        *)
(* inductive invariant IInv of Cancellation says in what places the        *)
(* threads may be, who is on the two lists, that one cancel() and one      *)
(* invokeCallbacks run through them, and what these have still to call.    *)
(* That of TaskGroup, GroupInv, says whom the counter of whenAll has still *)
(* to count, and what follows for who is still ahead once it has counted   *)
(* everyone.  At the end comes TaskCollection, for any tasks.              *)
(***************************************************************************)
EXTENDS Cancellation, TaskCollection, TaskGroup, FiniteSetTheorems, TLAPS

\* In which places cancel() iterates, and invokeCallbacks.
Active == {"cancelling", "next", "inDirect", "invoke", "calling", "inWaiter", "nextWaiter"}
InLoop == {"calling", "inWaiter", "nextWaiter"}

PlacesInv ==
  /\ pc \in [Runners \cup Subscribers -> Active \cup
       {"idle", "returned", "fired", "subscribed", "locked", "emplaced", "installing", "stuck",
        "done"}]
  /\ \A k \in Cancellers : pc[k] \in Active \cup {"idle", "returned"}
  /\ pc[Timer] \in InLoop \cup {"idle", "invoke", "fired", "returned"}
  /\ \A d \in Direct : pc[d] \in {"idle", "subscribed", "done"}
  /\ \A w \in Waiters :
       pc[w] \in {"idle", "locked", "emplaced", "installing", "stuck", "subscribed", "done"}
  /\ at \in [Runners -> Nat \ {0}] /\ atWaiter \in [Runners -> Nat \ {0}]

\* Nobody is on a list twice, nor before having subscribed; and nobody has a
\* callback there before that or after having unsubscribed.
ListsInv ==
  /\ \A i, j \in 1..Len(subscriptions) : subscriptions[i] = subscriptions[j] => i = j
  /\ \A i, j \in 1..Len(waiting) : waiting[i] = waiting[j] => i = j
  /\ \A i \in 1..Len(subscriptions) :
       subscriptions[i] \in Direct => pc[subscriptions[i]] # "idle"
  /\ \A i \in 1..Len(waiting) : pc[waiting[i]] \notin {"idle", "locked"}
  /\ \A s \in live \cap Direct : pc[s] = "subscribed"
  /\ \A s \in live \cap Waiters : pc[s] \notin {"idle", "locked", "done"}

\* One cancel() iterates, after the flag was set, and one invokeCallbacks, after
\* a source has expired.
TurnsInv ==
  /\ \A k \in Cancellers : pc[k] \in Active => isCancelled
  /\ \A k, m \in Cancellers : pc[k] \in Active /\ pc[m] \in Active => k = m
  /\ \A t \in Runners : pc[t] \in InLoop => invoked
  /\ \A t, u \in Runners : pc[t] \in InLoop /\ pc[u] \in InLoop => t = u
  /\ invoked => isCancelled \/ timeOver
  /\ InsideExpiration(Timer) => timeOver

\* Nothing has been called before its list is iterated, nor what the iteration
\* has still to come to.
DirectInv ==
  /\ \A d \in Direct :
       /\ called[d] \in {0, 1}
       /\ pc[d] = "idle" \/ ~isCancelled => called[d] = 0
  /\ \A k \in Cancellers : pc[k] \in Active =>
       \A i \in 1..Len(subscriptions) :
         /\ subscriptions[i] \in Direct
         /\ i > at[k] \/ (i = at[k] /\ pc[k] \in {"cancelling", "inDirect"})
         => called[subscriptions[i]] = 0
  /\ \A k \in Cancellers : pc[k] = "inDirect" =>
       /\ at[k] <= Len(subscriptions) /\ subscriptions[at[k]] \in Direct
       /\ pc[subscriptions[at[k]]] = "subscribed"

WaitersInv ==
  /\ \A w \in Waiters :
       /\ called[w] \in {0, 1}
       /\ pc[w] \in {"idle", "locked"} => called[w] = 0
  /\ ~invoked => \A i \in 1..Len(waiting) : called[waiting[i]] = 0
  /\ \A t \in Runners : pc[t] \in InLoop =>
       \A i \in 1..Len(waiting) :
         i > atWaiter[t] \/ (i = atWaiter[t] /\ pc[t] # "nextWaiter") => called[waiting[i]] = 0
  /\ \A t \in Runners : pc[t] = "inWaiter" =>
       atWaiter[t] <= Len(waiting) /\ pc[waiting[atWaiter[t]]] # "done"

\* The expiration goes with its last waiter, when neither source can reach it.
EndInv ==
  /\ state # "alive" => /\ \A w \in Waiters : pc[w] = "done"
                        /\ timer \notin {"armed", "running"}
  /\ state = "destroyed" => /\ Expiration \notin live
                            /\ \A k \in Cancellers : ~InsideExpiration(k)

IInv == TypeOK /\ PlacesInv /\ ListsInv /\ TurnsInv /\ DirectInv /\ WaitersInv /\ EndInv

\* What Append adds to the elements of a list.
LEMMA AppendElements ==
  ASSUME NEW S, NEW seq \in Seq(S), NEW e \in S
  PROVE  /\ Append(seq, e) \in Seq(S) /\ Len(Append(seq, e)) = Len(seq) + 1
         /\ \A i \in 1..Len(seq) : Append(seq, e)[i] = seq[i]
         /\ Append(seq, e)[Len(seq) + 1] = e
         /\ Elements(Append(seq, e)) = Elements(seq) \cup {e}
<1>1. /\ Append(seq, e) \in Seq(S) /\ Len(Append(seq, e)) = Len(seq) + 1
      /\ \A i \in 1..Len(seq) : Append(seq, e)[i] = seq[i]
      /\ Append(seq, e)[Len(seq) + 1] = e
  OBVIOUS
<1>2. Elements(Append(seq, e)) \subseteq Elements(seq) \cup {e}
  BY <1>1 DEF Elements
<1>3. Elements(seq) \cup {e} \subseteq Elements(Append(seq, e))
  BY <1>1 DEF Elements
<1> QED BY <1>1, <1>2, <1>3

\* The invariant holds at the beginning.
LEMMA Initially == Init => IInv
<1> SUFFICES ASSUME Init PROVE IInv
  OBVIOUS
<1> USE NamesAssumption DEF Init, Runners, Subscribers, Timer, Expiration
<1>1. ~InsideExpiration(Timer) /\ called \in [Subscribers -> Nat]
  BY DEF InsideExpiration
<1>2. TypeOK
  <2>1. isCancelled \in BOOLEAN /\ invoked \in BOOLEAN /\ timeOver \in BOOLEAN
    OBVIOUS
  <2>2. subscriptions \in Seq(Direct \cup {Expiration}) /\ waiting \in Seq(Waiters)
    OBVIOUS
  <2>3. timer # "running"
    OBVIOUS
  <2> QED BY <1>1, <2>1, <2>2, <2>3, Zenon DEF TypeOK
<1>3. PlacesInv
  BY DEF PlacesInv, Active, InLoop
<1>4. ListsInv /\ TurnsInv /\ EndInv
  BY DEF ListsInv, TurnsInv, EndInv, InsideExpiration, Active, InLoop
<1>5. DirectInv /\ WaitersInv
  BY DEF DirectInv, WaitersInv, Active, InLoop
<1> QED BY <1>2, <1>3, <1>4, <1>5 DEF IInv

\* The first cancel() takes the turn, when nothing has been called yet.
LEMMA CancelKeeps ==
  ASSUME NEW k \in Cancellers, IInv, Cancel(k) PROVE IInv'
<1> USE NamesAssumption DEF IInv, Cancel, Goto, Runners, Subscribers, Timer,
        Expiration, cancellation, expiration, cursors, InsideExpiration, Active, InLoop
<1>1. TypeOK' BY DEF TypeOK, PlacesInv, DirectInv, WaitersInv
<1>2. PlacesInv' /\ TurnsInv' /\ EndInv' BY DEF TypeOK, PlacesInv, TurnsInv, EndInv
<1>3. ListsInv' BY DEF TypeOK, PlacesInv, ListsInv
<1>4. DirectInv' BY DEF TypeOK, PlacesInv, ListsInv, TurnsInv, DirectInv
<1>5. WaitersInv' BY DEF TypeOK, PlacesInv, ListsInv, TurnsInv, WaitersInv
<1> QED BY <1>1, <1>2, <1>3, <1>4, <1>5

\* cancel() looks at an entry that has a callback or goes on.
LEMMA IterateKeeps ==
  ASSUME NEW k \in Cancellers, IInv, Iterate(k) PROVE IInv'
<1> USE NamesAssumption DEF IInv, Iterate, Goto, Runners, Subscribers, Timer,
        Expiration, cancellation, expiration, cursors, InsideExpiration, Active, InLoop
<1>1. TypeOK' BY DEF TypeOK, PlacesInv, DirectInv, WaitersInv
<1>2. PlacesInv' /\ TurnsInv' /\ EndInv' BY DEF TypeOK, PlacesInv, TurnsInv, EndInv
<1>3. ListsInv' BY DEF TypeOK, PlacesInv, ListsInv
<1>4. DirectInv' BY DEF TypeOK, PlacesInv, ListsInv, TurnsInv, DirectInv
<1>5. WaitersInv' BY DEF TypeOK, PlacesInv, ListsInv, TurnsInv, WaitersInv
<1> QED BY <1>1, <1>2, <1>3, <1>4, <1>5

\* cancel() leaves an entry behind whose callback has been called or is gone.
LEMMA NextSubscriptionKeeps ==
  ASSUME NEW k \in Cancellers, IInv, NextSubscription(k) PROVE IInv'
<1> USE NamesAssumption DEF IInv, NextSubscription, Goto, Runners, Subscribers, Timer,
        Expiration, cancellation, expiration, cursors, InsideExpiration, Active, InLoop
<1>1. TypeOK' BY DEF TypeOK, PlacesInv, DirectInv, WaitersInv
<1>2. PlacesInv' /\ TurnsInv' /\ EndInv' BY DEF TypeOK, PlacesInv, TurnsInv, EndInv
<1>3. ListsInv' BY DEF TypeOK, PlacesInv, ListsInv
<1>4. DirectInv' BY DEF TypeOK, PlacesInv, ListsInv, TurnsInv, DirectInv
<1>5. WaitersInv' BY DEF TypeOK, PlacesInv, ListsInv, TurnsInv, WaitersInv
<1> QED BY <1>1, <1>2, <1>3, <1>4, <1>5

\* The callback of the entry that cancel() is at has not been called before.
LEMMA CallDirectKeeps ==
  ASSUME NEW k \in Cancellers, IInv, CallDirect(k) PROVE IInv'
<1> USE NamesAssumption DEF IInv, CallDirect, Goto, Runners, Subscribers, Timer,
        Expiration, cancellation, expiration, cursors, InsideExpiration, Active, InLoop
<1>1. TypeOK' BY DEF TypeOK, PlacesInv, DirectInv, WaitersInv
<1>2. PlacesInv' /\ TurnsInv' /\ EndInv' BY DEF TypeOK, PlacesInv, TurnsInv, EndInv
<1>3. ListsInv' BY DEF TypeOK, PlacesInv, ListsInv
<1>4. DirectInv' BY DEF TypeOK, PlacesInv, ListsInv, TurnsInv, DirectInv
<1>5. WaitersInv' BY DEF TypeOK, PlacesInv, ListsInv, TurnsInv, WaitersInv, DirectInv
<1> QED BY <1>1, <1>2, <1>3, <1>4, <1>5

\* cancel() ends its turn, and nobody takes another.
LEMMA CancelReturnsKeeps ==
  ASSUME NEW k \in Cancellers, IInv, CancelReturns(k) PROVE IInv'
<1> USE NamesAssumption DEF IInv, CancelReturns, Goto, Runners, Subscribers, Timer,
        Expiration, cancellation, expiration, cursors, InsideExpiration, Active, InLoop
<1>1. TypeOK' BY DEF TypeOK, PlacesInv, DirectInv, WaitersInv
<1>2. PlacesInv' /\ TurnsInv' /\ EndInv' BY DEF TypeOK, PlacesInv, TurnsInv, EndInv
<1>3. ListsInv' BY DEF TypeOK, PlacesInv, ListsInv
<1>4. DirectInv' BY DEF TypeOK, PlacesInv, ListsInv, TurnsInv, DirectInv
<1>5. WaitersInv' BY DEF TypeOK, PlacesInv, ListsInv, TurnsInv, WaitersInv
<1> QED BY <1>1, <1>2, <1>3, <1>4, <1>5

\* Only the clock moves.
LEMMA TimeIsOverKeeps ==
  ASSUME IInv, TimeIsOver PROVE IInv'
<1> USE NamesAssumption DEF IInv, TimeIsOver, Goto, Runners, Subscribers, Timer,
        Expiration, cancellation, expiration, cursors, InsideExpiration, Active, InLoop
<1>1. TypeOK' BY DEF TypeOK, PlacesInv, DirectInv, WaitersInv
<1>2. PlacesInv' /\ TurnsInv' /\ EndInv' BY DEF TypeOK, PlacesInv, TurnsInv, EndInv
<1>3. ListsInv' BY DEF TypeOK, PlacesInv, ListsInv
<1>4. DirectInv' BY DEF TypeOK, PlacesInv, ListsInv, TurnsInv, DirectInv
<1>5. WaitersInv' BY DEF TypeOK, PlacesInv, ListsInv, TurnsInv, WaitersInv
<1> QED BY <1>1, <1>2, <1>3, <1>4, <1>5

\* The timer begins when the time is over and its expiration is alive.
LEMMA FireKeeps ==
  ASSUME IInv, Fire PROVE IInv'
<1> USE NamesAssumption DEF IInv, Fire, Goto, Runners, Subscribers, Timer, Expiration,
        cancellation, expiration, cursors, InsideExpiration, Active, InLoop
<1>1. TypeOK' BY DEF TypeOK, PlacesInv, DirectInv, WaitersInv
<1>2. PlacesInv' /\ TurnsInv' /\ EndInv' BY DEF TypeOK, PlacesInv, TurnsInv, EndInv
<1>3. ListsInv' BY DEF TypeOK, PlacesInv, ListsInv
<1>4. DirectInv' BY DEF TypeOK, PlacesInv, ListsInv, TurnsInv, DirectInv
<1>5. WaitersInv' BY DEF TypeOK, PlacesInv, ListsInv, TurnsInv, WaitersInv
<1> QED BY <1>1, <1>2, <1>3, <1>4, <1>5

\* The timer's callback has ended.
LEMMA FiredKeeps ==
  ASSUME IInv, Fired PROVE IInv'
<1> USE NamesAssumption DEF IInv, Fired, Goto, Runners, Subscribers, Timer, Expiration,
        cancellation, expiration, cursors, InsideExpiration, Active, InLoop
<1>1. TypeOK' BY DEF TypeOK, PlacesInv, DirectInv, WaitersInv
<1>2. PlacesInv' /\ TurnsInv' /\ EndInv' BY DEF TypeOK, PlacesInv, TurnsInv, EndInv
<1>3. ListsInv' BY DEF TypeOK, PlacesInv, ListsInv
<1>4. DirectInv' BY DEF TypeOK, PlacesInv, ListsInv, TurnsInv, DirectInv
<1>5. WaitersInv' BY DEF TypeOK, PlacesInv, ListsInv, TurnsInv, WaitersInv
<1> QED BY <1>1, <1>2, <1>3, <1>4, <1>5

\* The first one to get the expiration's mutex takes the turn.
LEMMA InvokeCallbacksKeeps ==
  ASSUME NEW t \in Runners, IInv, InvokeCallbacks(t) PROVE IInv'
<1> USE NamesAssumption DEF IInv, InvokeCallbacks, Goto, Runners, Subscribers, Timer,
        Expiration, cancellation, expiration, cursors, InsideExpiration, Active,
        InLoop, AfterInvoke
<1>1. TypeOK' BY DEF TypeOK, PlacesInv, DirectInv, WaitersInv
<1>2. PlacesInv' /\ TurnsInv' /\ EndInv' BY DEF TypeOK, PlacesInv, TurnsInv, EndInv
<1>3. ListsInv' BY DEF TypeOK, PlacesInv, ListsInv
<1>4. DirectInv' BY DEF TypeOK, PlacesInv, ListsInv, TurnsInv, DirectInv
<1>5. WaitersInv' BY DEF TypeOK, PlacesInv, ListsInv, TurnsInv, WaitersInv
<1> QED BY <1>1, <1>2, <1>3, <1>4, <1>5

\* invokeCallbacks looks at a waiter's entry.
LEMMA IterateWaitersKeeps ==
  ASSUME NEW t \in Runners, IInv, IterateWaiters(t) PROVE IInv'
<1> USE NamesAssumption DEF IInv, IterateWaiters, Goto, Runners, Subscribers, Timer,
        Expiration, cancellation, expiration, cursors, InsideExpiration, Active, InLoop
<1>1. TypeOK' BY DEF TypeOK, PlacesInv, DirectInv, WaitersInv
<1>2. PlacesInv' /\ TurnsInv' /\ EndInv' BY DEF TypeOK, PlacesInv, TurnsInv, EndInv
<1>3. ListsInv' BY DEF TypeOK, PlacesInv, ListsInv
<1>4. DirectInv' BY DEF TypeOK, PlacesInv, ListsInv, TurnsInv, DirectInv
<1>5. WaitersInv' BY DEF TypeOK, PlacesInv, ListsInv, TurnsInv, WaitersInv
<1> QED BY <1>1, <1>2, <1>3, <1>4, <1>5

\* The waiter that invokeCallbacks is at has not been called before.
LEMMA CallWaiterKeeps ==
  ASSUME NEW t \in Runners, IInv, CallWaiter(t) PROVE IInv'
<1> USE NamesAssumption DEF IInv, CallWaiter, Goto, Runners, Subscribers, Timer,
        Expiration, cancellation, expiration, cursors, InsideExpiration, Active, InLoop
<1>1. TypeOK' BY DEF TypeOK, PlacesInv, DirectInv, WaitersInv
<1>2. PlacesInv' /\ TurnsInv' /\ EndInv' BY DEF TypeOK, PlacesInv, TurnsInv, EndInv
<1>3. ListsInv' BY DEF TypeOK, PlacesInv, ListsInv
<1>4. DirectInv' BY DEF TypeOK, PlacesInv, ListsInv, TurnsInv, DirectInv, WaitersInv
<1>5. WaitersInv' BY DEF TypeOK, PlacesInv, ListsInv, TurnsInv, WaitersInv
<1> QED BY <1>1, <1>2, <1>3, <1>4, <1>5

\* invokeCallbacks goes on.
LEMMA NextWaiterKeeps ==
  ASSUME NEW t \in Runners, IInv, NextWaiter(t) PROVE IInv'
<1> USE NamesAssumption DEF IInv, NextWaiter, Goto, Runners, Subscribers, Timer,
        Expiration, cancellation, expiration, cursors, InsideExpiration, Active, InLoop
<1>1. TypeOK' BY DEF TypeOK, PlacesInv, DirectInv, WaitersInv
<1>2. PlacesInv' /\ TurnsInv' /\ EndInv' BY DEF TypeOK, PlacesInv, TurnsInv, EndInv
<1>3. ListsInv' BY DEF TypeOK, PlacesInv, ListsInv
<1>4. DirectInv' BY DEF TypeOK, PlacesInv, ListsInv, TurnsInv, DirectInv
<1>5. WaitersInv' BY DEF TypeOK, PlacesInv, ListsInv, TurnsInv, WaitersInv
<1> QED BY <1>1, <1>2, <1>3, <1>4, <1>5

\* invokeCallbacks ends its turn, and nobody takes another.
LEMMA InvokeReturnsKeeps ==
  ASSUME NEW t \in Runners, IInv, InvokeReturns(t) PROVE IInv'
<1> USE NamesAssumption DEF IInv, InvokeReturns, Goto, Runners, Subscribers, Timer,
        Expiration, cancellation, expiration, cursors, InsideExpiration, Active,
        InLoop, AfterInvoke
<1>1. TypeOK' BY DEF TypeOK, PlacesInv, DirectInv, WaitersInv
<1>2. PlacesInv' /\ TurnsInv' /\ EndInv' BY DEF TypeOK, PlacesInv, TurnsInv, EndInv
<1>3. ListsInv' BY DEF TypeOK, PlacesInv, ListsInv
<1>4. DirectInv' BY DEF TypeOK, PlacesInv, ListsInv, TurnsInv, DirectInv
<1>5. WaitersInv' BY DEF TypeOK, PlacesInv, ListsInv, TurnsInv, WaitersInv
<1> QED BY <1>1, <1>2, <1>3, <1>4, <1>5

\* A direct subscriber joins a list that nobody iterates, or is called at once.
LEMMA SubscribeKeeps ==
  ASSUME NEW d \in Direct, IInv, Subscribe(d) PROVE IInv'
<1> USE NamesAssumption DEF IInv, Goto, Runners, Subscribers, Timer, Expiration,
        cancellation, expiration, cursors, InsideExpiration, Active, InLoop
<1>1. CASE isCancelled
  <2>1. /\ pc[d] = "idle" /\ pc' = [pc EXCEPT ![d] = "done"]
        /\ called' = [called EXCEPT ![d] = @ + 1]
        /\ UNCHANGED <<subscriptions, live, isCancelled, invoked, waiting, timer, state, timeOver,
                       at, atWaiter>>
    BY <1>1 DEF Subscribe
  <2>2. TypeOK' BY <1>1, <2>1 DEF TypeOK, PlacesInv, DirectInv, WaitersInv
  <2>3. PlacesInv' /\ TurnsInv' /\ EndInv' BY <1>1, <2>1 DEF TypeOK, PlacesInv, TurnsInv, EndInv
  <2>4. ListsInv' BY <1>1, <2>1 DEF TypeOK, PlacesInv, ListsInv
  <2>5. DirectInv' BY <1>1, <2>1 DEF TypeOK, PlacesInv, ListsInv, TurnsInv, DirectInv
  <2>6. WaitersInv' BY <1>1, <2>1 DEF TypeOK, PlacesInv, ListsInv, TurnsInv, WaitersInv
  <2> QED BY <2>2, <2>3, <2>4, <2>5, <2>6
<1>2. CASE ~isCancelled
  <2> USE <1>2
  <2>1. /\ pc[d] = "idle" /\ pc' = [pc EXCEPT ![d] = "subscribed"]
        /\ subscriptions' = Append(subscriptions, d) /\ live' = live \cup {d}
        /\ UNCHANGED <<called, isCancelled, invoked, waiting, timer, state, timeOver, at, atWaiter>>
    BY DEF Subscribe
  <2>2. /\ Len(subscriptions') = Len(subscriptions) + 1
        /\ \A i \in 1..Len(subscriptions) : subscriptions'[i] = subscriptions[i]
        /\ subscriptions'[Len(subscriptions) + 1] = d
        /\ subscriptions' \in Seq(Direct \cup {Expiration})
        /\ Elements(subscriptions') = Elements(subscriptions) \cup {d}
    BY <2>1, AppendElements DEF TypeOK
  <2>3. \A i \in 1..Len(subscriptions') :
           i \in 1..Len(subscriptions) \/ i = Len(subscriptions) + 1
    BY <2>2 DEF TypeOK
  <2>4. TypeOK' BY <2>1, <2>2, <2>3 DEF TypeOK, PlacesInv, DirectInv, WaitersInv
  <2>5. PlacesInv' /\ TurnsInv' /\ EndInv'
    BY <2>1, <2>2, <2>3 DEF TypeOK, PlacesInv, TurnsInv, EndInv
  <2>6. ListsInv' BY <2>1, <2>2, <2>3 DEF TypeOK, PlacesInv, ListsInv
  <2>7. DirectInv' BY <2>1, <2>2, <2>3 DEF TypeOK, PlacesInv, ListsInv, TurnsInv, DirectInv
  <2>8. WaitersInv' BY <2>1, <2>2, <2>3 DEF TypeOK, PlacesInv, ListsInv, TurnsInv, WaitersInv
  <2> QED BY <2>4, <2>5, <2>6, <2>7, <2>8
<1> QED BY <1>1, <1>2

\* Who unsubscribes is on no entry that is being called.
LEMMA UnsubscribeKeeps ==
  ASSUME NEW s \in Subscribers, IInv, Unsubscribe(s) PROVE IInv'
<1> USE NamesAssumption DEF IInv, Unsubscribe, Goto, Runners, Subscribers, Timer,
        Expiration, cancellation, expiration, cursors, InsideExpiration, Active,
        InLoop, BeingCalled
<1>1. TypeOK' BY DEF TypeOK, PlacesInv, DirectInv, WaitersInv
<1>2. PlacesInv' /\ TurnsInv' /\ EndInv' BY DEF TypeOK, PlacesInv, TurnsInv, EndInv
<1>3. ListsInv' BY DEF TypeOK, PlacesInv, ListsInv
<1>4. DirectInv' BY DEF TypeOK, PlacesInv, ListsInv, TurnsInv, DirectInv
<1>5. WaitersInv' BY DEF TypeOK, PlacesInv, ListsInv, TurnsInv, WaitersInv
<1> QED BY <1>1, <1>2, <1>3, <1>4, <1>5

\* A waiter takes the mutex of the expiration.
LEMMA LockExpirationKeeps ==
  ASSUME NEW w \in Waiters, IInv, LockExpiration(w) PROVE IInv'
<1> USE NamesAssumption DEF IInv, LockExpiration, Goto, Runners, Subscribers, Timer,
        Expiration, cancellation, expiration, cursors, InsideExpiration, Active, InLoop
<1>1. TypeOK' BY DEF TypeOK, PlacesInv, DirectInv, WaitersInv
<1>2. PlacesInv' /\ TurnsInv' /\ EndInv' BY DEF TypeOK, PlacesInv, TurnsInv, EndInv
<1>3. ListsInv' BY DEF TypeOK, PlacesInv, ListsInv
<1>4. DirectInv' BY DEF TypeOK, PlacesInv, ListsInv, TurnsInv, DirectInv
<1>5. WaitersInv' BY DEF TypeOK, PlacesInv, ListsInv, TurnsInv, WaitersInv
<1> QED BY <1>1, <1>2, <1>3, <1>4, <1>5

\* A waiter that comes too late is called at once and is on no list.
LEMMA SubscribeExpiredKeeps ==
  ASSUME NEW w \in Waiters, IInv, SubscribeExpired(w) PROVE IInv'
<1> USE NamesAssumption DEF IInv, SubscribeExpired, Goto, Runners, Subscribers, Timer,
        Expiration, cancellation, expiration, cursors, InsideExpiration, Active,
        InLoop, IsExpired
<1>1. TypeOK' BY DEF TypeOK, PlacesInv, DirectInv, WaitersInv
<1>2. PlacesInv' /\ TurnsInv' /\ EndInv' BY DEF TypeOK, PlacesInv, TurnsInv, EndInv
<1>3. ListsInv' BY DEF TypeOK, PlacesInv, ListsInv
<1>4. DirectInv' BY DEF TypeOK, PlacesInv, ListsInv, TurnsInv, DirectInv
<1>5. WaitersInv' BY DEF TypeOK, PlacesInv, ListsInv, TurnsInv, WaitersInv
<1> QED BY <1>1, <1>2, <1>3, <1>4, <1>5

\* A waiter joins a list that nobody iterates: nothing has expired so far.
LEMMA EmplaceKeeps ==
  ASSUME NEW w \in Waiters, IInv, Emplace(w) PROVE IInv'
<1> USE NamesAssumption DEF IInv, Emplace, Goto, Runners, Subscribers, Timer,
        Expiration, cancellation, expiration, cursors, InsideExpiration, Active,
        InLoop, IsExpired
<1>1. TypeOK'
  <2>1. waiting' \in Seq(Waiters) /\ Elements(waiting') = Elements(waiting) \cup {w}
    BY AppendElements DEF TypeOK
  <2> QED BY <2>1 DEF TypeOK, PlacesInv
<1>2. PlacesInv' /\ TurnsInv' /\ EndInv' BY DEF TypeOK, PlacesInv, TurnsInv, EndInv
<1>3. ListsInv' BY DEF TypeOK, PlacesInv, ListsInv
<1>4. DirectInv' BY DEF TypeOK, PlacesInv, ListsInv, TurnsInv, DirectInv
<1>5. WaitersInv' BY DEF TypeOK, PlacesInv, ListsInv, TurnsInv, WaitersInv
<1> QED BY <1>1, <1>2, <1>3, <1>4, <1>5

\* A source has expired since.
LEMMA InstallNothingKeeps ==
  ASSUME NEW w \in Waiters, IInv, InstallNothing(w) PROVE IInv'
<1> USE NamesAssumption DEF IInv, InstallNothing, Goto, Runners, Subscribers, Timer,
        Expiration, cancellation, expiration, cursors, InsideExpiration, Active,
        InLoop, IsExpired
<1>1. TypeOK' BY DEF TypeOK, PlacesInv, DirectInv, WaitersInv
<1>2. PlacesInv' /\ TurnsInv' /\ EndInv' BY DEF TypeOK, PlacesInv, TurnsInv, EndInv
<1>3. ListsInv' BY DEF TypeOK, PlacesInv, ListsInv
<1>4. DirectInv' BY DEF TypeOK, PlacesInv, ListsInv, TurnsInv, DirectInv
<1>5. WaitersInv' BY DEF TypeOK, PlacesInv, ListsInv, TurnsInv, WaitersInv
<1> QED BY <1>1, <1>2, <1>3, <1>4, <1>5

\* The timer is armed, or the time is over by then.
LEMMA InstallTimerKeeps ==
  ASSUME NEW w \in Waiters, IInv, InstallTimer(w) PROVE IInv'
<1> USE NamesAssumption DEF IInv, InstallTimer, Goto, Runners, Subscribers, Timer,
        Expiration, cancellation, expiration, cursors, InsideExpiration, Active,
        InLoop, IsExpired
<1>1. TypeOK' BY DEF TypeOK, PlacesInv, DirectInv, WaitersInv
<1>2. PlacesInv' /\ TurnsInv' /\ EndInv' BY DEF TypeOK, PlacesInv, TurnsInv, EndInv
<1>3. ListsInv' BY DEF TypeOK, PlacesInv, ListsInv
<1>4. DirectInv' BY DEF TypeOK, PlacesInv, ListsInv, TurnsInv, DirectInv
<1>5. WaitersInv' BY DEF TypeOK, PlacesInv, ListsInv, TurnsInv, WaitersInv
<1> QED BY <1>1, <1>2, <1>3, <1>4, <1>5

\* The expiration joins the cancellation's list while that is not iterated.
LEMMA InstallCancellationKeeps ==
  ASSUME NEW w \in Waiters, IInv, InstallCancellation(w) PROVE IInv'
<1> USE NamesAssumption DEF IInv, Goto, Runners, Subscribers, Timer, Expiration,
        cancellation, expiration, cursors, InsideExpiration, Active, InLoop
<1>1. CASE Expiration \in Elements(subscriptions) \/ isCancelled
  <2>1. PICK place \in {"subscribed", "stuck"} :
        /\ pc[w] = "installing" /\ pc' = [pc EXCEPT ![w] = place]
        /\ UNCHANGED <<subscriptions, live, called, isCancelled, invoked, waiting, timer, state,
                       timeOver, at, atWaiter>>
    BY <1>1 DEF InstallCancellation
  <2>2. TypeOK' BY <2>1 DEF TypeOK, PlacesInv, DirectInv, WaitersInv
  <2>3. PlacesInv' /\ TurnsInv' /\ EndInv' BY <2>1 DEF TypeOK, PlacesInv, TurnsInv, EndInv
  <2>4. ListsInv' BY <2>1 DEF TypeOK, PlacesInv, ListsInv
  <2>5. DirectInv' BY <2>1 DEF TypeOK, PlacesInv, ListsInv, TurnsInv, DirectInv
  <2>6. WaitersInv' BY <2>1 DEF TypeOK, PlacesInv, ListsInv, TurnsInv, WaitersInv
  <2> QED BY <2>2, <2>3, <2>4, <2>5, <2>6
<1>2. CASE Expiration \notin Elements(subscriptions) /\ ~isCancelled
  <2> USE <1>2
  <2>1. /\ pc[w] = "installing" /\ pc' = [pc EXCEPT ![w] = "subscribed"]
        /\ subscriptions' = Append(subscriptions, Expiration)
        /\ live' = live \cup {Expiration}
        /\ UNCHANGED <<called, isCancelled, invoked, waiting, timer, state, timeOver, at, atWaiter>>
    BY DEF InstallCancellation
  <2>2. /\ Len(subscriptions') = Len(subscriptions) + 1
        /\ \A i \in 1..Len(subscriptions) : subscriptions'[i] = subscriptions[i]
        /\ subscriptions'[Len(subscriptions) + 1] = Expiration
        /\ subscriptions' \in Seq(Direct \cup {Expiration})
        /\ Elements(subscriptions') = Elements(subscriptions) \cup {Expiration}
    BY <2>1, AppendElements DEF TypeOK
  <2>3. \A i \in 1..Len(subscriptions') :
           \/ i \in 1..Len(subscriptions) /\ subscriptions[i] # Expiration
           \/ i = Len(subscriptions) + 1
    BY <2>2 DEF TypeOK, Elements
  <2>4. TypeOK' BY <2>1, <2>2, <2>3 DEF TypeOK, PlacesInv, DirectInv, WaitersInv
  <2>5. PlacesInv' /\ TurnsInv' /\ EndInv'
    BY <2>1, <2>2, <2>3 DEF TypeOK, PlacesInv, TurnsInv, EndInv
  <2>6. ListsInv' BY <2>1, <2>2, <2>3 DEF TypeOK, PlacesInv, ListsInv
  <2>7. DirectInv' BY <2>1, <2>2, <2>3 DEF TypeOK, PlacesInv, ListsInv, TurnsInv, DirectInv
  <2>8. WaitersInv' BY <2>1, <2>2, <2>3 DEF TypeOK, PlacesInv, ListsInv, TurnsInv, WaitersInv
  <2> QED BY <2>4, <2>5, <2>6, <2>7, <2>8
<1> QED BY <1>1, <1>2

\* The expiration loses a holder.
LEMMA LetGoKeeps ==
  ASSUME NEW w \in Waiters, IInv, LetGo(w) PROVE IInv'
<1> USE NamesAssumption DEF IInv, LetGo, Goto, Runners, Subscribers, Timer, Expiration,
        cancellation, expiration, cursors, InsideExpiration, Active, InLoop
<1>1. TypeOK' BY DEF TypeOK, PlacesInv, DirectInv, WaitersInv
<1>2. PlacesInv' /\ TurnsInv' /\ EndInv' BY DEF TypeOK, PlacesInv, TurnsInv, EndInv
<1>3. ListsInv' BY DEF TypeOK, PlacesInv, ListsInv
<1>4. DirectInv' BY DEF TypeOK, PlacesInv, ListsInv, TurnsInv, DirectInv
<1>5. WaitersInv' BY DEF TypeOK, PlacesInv, ListsInv, TurnsInv, WaitersInv
<1> QED BY <1>1, <1>2, <1>3, <1>4, <1>5

\* The timer can no longer begin.
LEMMA CancelTimerKeeps ==
  ASSUME IInv, CancelTimer PROVE IInv'
<1> USE NamesAssumption DEF IInv, CancelTimer, Goto, Runners, Subscribers, Timer,
        Expiration, cancellation, expiration, cursors, InsideExpiration, Active, InLoop
<1>1. TypeOK' BY DEF TypeOK, PlacesInv, DirectInv, WaitersInv
<1>2. PlacesInv' /\ TurnsInv' /\ EndInv' BY DEF TypeOK, PlacesInv, TurnsInv, EndInv
<1>3. ListsInv' BY DEF TypeOK, PlacesInv, ListsInv
<1>4. DirectInv' BY DEF TypeOK, PlacesInv, ListsInv, TurnsInv, DirectInv
<1>5. WaitersInv' BY DEF TypeOK, PlacesInv, ListsInv, TurnsInv, WaitersInv
<1> QED BY <1>1, <1>2, <1>3, <1>4, <1>5

\* No cancel() is inside, and none will get in.
LEMMA DestroyKeeps ==
  ASSUME IInv, Destroy PROVE IInv'
<1> USE NamesAssumption DEF IInv, Destroy, Goto, Runners, Subscribers, Timer,
        Expiration, cancellation, expiration, cursors, InsideExpiration, Active, InLoop
<1>1. TypeOK' BY DEF TypeOK, PlacesInv, DirectInv, WaitersInv
<1>2. PlacesInv' /\ TurnsInv' /\ EndInv' BY DEF TypeOK, PlacesInv, TurnsInv, EndInv
<1>3. ListsInv' BY DEF TypeOK, PlacesInv, ListsInv
<1>4. DirectInv' BY DEF TypeOK, PlacesInv, ListsInv, TurnsInv, DirectInv
<1>5. WaitersInv' BY DEF TypeOK, PlacesInv, ListsInv, TurnsInv, WaitersInv
<1> QED BY <1>1, <1>2, <1>3, <1>4, <1>5

\* Every step of every thread keeps the invariant.
LEMMA NextKeeps == IInv /\ [Next]_vars => IInv'
<1> SUFFICES ASSUME IInv, [Next]_vars PROVE IInv'
  OBVIOUS
<1>1. ASSUME NEW t \in Runners, Invoking(t) PROVE IInv'
  BY <1>1, InvokeCallbacksKeeps, IterateWaitersKeeps, CallWaiterKeeps, NextWaiterKeeps,
     InvokeReturnsKeeps DEF Invoking
<1>2. ASSUME NEW k \in Cancellers, Cancel(k) \/ Cancelling(k) PROVE IInv'
  BY <1>1, <1>2, CancelKeeps, IterateKeeps, NextSubscriptionKeeps, CallDirectKeeps,
     CancelReturnsKeeps DEF Cancelling, Runners
<1>3. CASE TimeIsOver \/ Fire \/ Invoking(Timer) \/ Fired
  BY <1>1, <1>3, TimeIsOverKeeps, FireKeeps, FiredKeeps DEF Runners
<1>4. ASSUME NEW d \in Direct, Subscribe(d) PROVE IInv'
  BY <1>4, SubscribeKeeps
<1>5. ASSUME NEW s \in Subscribers, Unsubscribe(s) PROVE IInv'
  BY <1>5, UnsubscribeKeeps
<1>6. ASSUME NEW w \in Waiters, LockExpiration(w) \/ InSubscribe(w) \/ LetGo(w) PROVE IInv'
  BY <1>6, LockExpirationKeeps, SubscribeExpiredKeeps, EmplaceKeeps, InstallNothingKeeps,
     InstallTimerKeeps, InstallCancellationKeeps, LetGoKeeps DEF InSubscribe
<1>7. CASE Destruction
  BY <1>7, CancelTimerKeeps, DestroyKeeps DEF Destruction
<1>8. CASE UNCHANGED vars
  BY <1>8 DEF vars, IInv, TypeOK, PlacesInv, ListsInv, TurnsInv, DirectInv, WaitersInv, EndInv,
              InsideExpiration
<1> QED BY <1>1, <1>2, <1>3, <1>4, <1>5, <1>6, <1>7, <1>8 DEF Next

\* The invariant and what follows from it for one state.
THEOREM CalledOnceAndSilent ==
  Spec => [](TypeOK /\ CalledOnce /\ SilentAfterUnsubscribe /\ NoCallbackIntoDestroyed)
<1>1. IInv => TypeOK /\ CalledOnce
  BY DEF IInv, DirectInv, WaitersInv, CalledOnce, Subscribers
<1>2. IInv => SilentAfterUnsubscribe
  <2> SUFFICES ASSUME IInv, NEW s \in Subscribers, NEW t \in Runners, pc[s] = "done",
                      \/ pc[t] = "inDirect" /\ subscriptions[at[t]] = s
                      \/ pc[t] = "inWaiter" /\ waiting[atWaiter[t]] = s
               PROVE  FALSE
    BY DEF SilentAfterUnsubscribe, BeingCalled
  <2> QED BY DEF IInv, PlacesInv, DirectInv, WaitersInv, Runners, InLoop
<1>3. IInv => NoCallbackIntoDestroyed
  BY DEF IInv, TypeOK, EndInv, NoCallbackIntoDestroyed, Runners
<1> QED BY Initially, NextKeeps, <1>1, <1>2, <1>3, PTL DEF Spec

\* No callback is called twice, nor after its subscriber has left or its expiration
\* is gone, and neither list changes while it is iterated without its mutex, for any
\* number of threads that cancel, subscribe and unsubscribe.
THEOREM CallbacksAreSafeAlways == Spec => CallbacksAreSafe
<1>1. ASSUME IInv, [Next]_vars
      PROVE  [ /\ isCancelled => subscriptions' = subscriptions
               /\ invoked => waiting' = waiting ]_vars
  <2> USE <1>1 DEF cancellation, expiration, cursors
  <2>1. ASSUME NEW t \in Runners, Invoking(t) PROVE UNCHANGED <<subscriptions, waiting>>
    BY <2>1 DEF Invoking, InvokeCallbacks, IterateWaiters, CallWaiter, NextWaiter, InvokeReturns
  <2>2. ASSUME NEW k \in Cancellers, Cancel(k) \/ Cancelling(k)
        PROVE  UNCHANGED <<subscriptions, waiting>>
    BY <2>1, <2>2 DEF Cancelling, Cancel, Iterate, NextSubscription, CallDirect, CancelReturns,
                      Runners
  <2>3. CASE TimeIsOver \/ Fire \/ Invoking(Timer) \/ Fired
    BY <2>1, <2>3 DEF TimeIsOver, Fire, Fired, Runners
  <2>4. ASSUME NEW d \in Direct, Subscribe(d)
        PROVE  (isCancelled => subscriptions' = subscriptions) /\ waiting' = waiting
    BY <2>4 DEF Subscribe
  <2>5. ASSUME NEW s \in Subscribers, Unsubscribe(s)
        PROVE  UNCHANGED <<subscriptions, waiting>>
    BY <2>5 DEF Unsubscribe
  <2>6. ASSUME NEW w \in Waiters, LockExpiration(w) \/ InSubscribe(w) \/ LetGo(w)
        PROVE  /\ isCancelled => subscriptions' = subscriptions
               /\ invoked => waiting' = waiting
    BY <2>6 DEF IInv, TurnsInv, LockExpiration, InSubscribe, LetGo, SubscribeExpired, Emplace,
                InstallNothing, InstallTimer, InstallCancellation, IsExpired
  <2>7. CASE Destruction
    BY <2>7 DEF Destruction, CancelTimer, Destroy
  <2> QED BY <2>1, <2>2, <2>3, <2>4, <2>5, <2>6, <2>7 DEF Next, vars
<1>2. Spec => FrozenWhileIterated
  BY Initially, NextKeeps, <1>1, PTL DEF Spec, FrozenWhileIterated
<1> QED BY CalledOnceAndSilent, <1>2, PTL DEF CallbacksAreSafe

-----------------------------------------------------------------------------
(* whenAll and whenAny: TaskGroup is a specification of its own. *)

\* Where a task stands in the list.
Index(t) == CHOOSE j \in 1..Len(List) : List[j] = t

\* The tasks that the coroutine has still to come to.
Ahead ==
  IF step[Caller] \in {"resolveFalse", "begin"} THEN Tasks
  ELSE IF step[Caller] \in {"register", "invoke"}
    THEN {t \in Tasks : Index(t) >= Index(cursor[Caller])}
  ELSE IF step[Caller] = "advance" THEN {t \in Tasks : Index(t) > Index(cursor[Caller])}
  ELSE {}

\* The tasks whose callback has still to be called: it is set, or about to be called.
InHand == {t \in Tasks : step[t] = "invoke"}
Registered == callback \cup InHand

\* The coroutine looks at a task; a task is ready once its thread has begun, and only
\* the coroutine and the timer resolve to FALSE.
AgentsInv ==
  /\ step[Caller] \in {"register", "invoke", "advance", "resolveTrue"} =>
       cursor[Caller] \in Tasks
  /\ step[Caller] \notin {"idle", "take", "reset"}
  /\ step[Caller] = "invoke" => cursor[Caller] \in ready
  /\ \A t \in Tasks :
       /\ step[t] \in {"idle", "take", "invoke", "resolveTrue", "reset", "wake", "done"}
       /\ step[t] # "idle" => t \in ready
  /\ step[TimerThread] \in {"idle", "resolveFalse", "reset", "wake", "done"}

\* Before the state of the awaiter is there nobody has a callback.
EarlyInv ==
  /\ awaiter = "none" =>
       /\ callback = {} /\ completion = "none" /\ ~subscribed
       /\ step[Caller] \in {"check", "expiry", "done"}
       /\ step[Caller] # "done" => next = Links /\ head = List[1]
       /\ step[TimerThread] \in {"idle", "done"}
       /\ \A t \in Tasks : step[t] \in {"idle", "take", "done"}
  /\ awaiter # "none" => step[Caller] \notin {"check", "expiry"}

\* Until there is a result the list is as it was made, and the counter of whenAll says
\* how many tasks have not been counted; those that have are ready.
CountInv ==
  completion = "none" /\ awaiter = "alive" =>
    /\ next = Links /\ head = List[1]
    /\ callback \cap InHand = {} /\ Registered \cap Ahead = {}
    /\ mode = "all" =>
         /\ counter = Cardinality(Registered \cup Ahead)
         /\ Tasks \ (Registered \cup Ahead) \subseteq ready
         /\ \A a, b \in Agents :
              step[a] = "resolveTrue" /\ step[b] = "resolveTrue" => a = b /\ counter = 0

\* What is about to become the result, and the result, are true.
ResultInv ==
  /\ \A a \in Agents :
       /\ step[a] = "resolveTrue" /\ completion = "none" => Satisfied
       /\ step[a] = "resolveFalse" => expired
       /\ step[a] \in {"reset", "wake"} => completion # "none"
  /\ completion = "true" => Satisfied
  /\ completion = "false" => expired
  /\ awoken => completion # "none"
  /\ step[Caller] # "done" => answer = "none"
  /\ answer # "none" => completion = answer \/ awaiter = "none"

\* Once all tasks are counted nobody uses the state any more but its winner, and the
\* coroutine has come to the end of the list.
CleanInv ==
  /\ mode = "all" /\ completion = "true" =>
       /\ Registered = {} /\ \A a \in Agents : step[a] \notin {"invoke", "resolveTrue"}
       /\ step[Caller] \in {"wake", "advance", "await", "suspended", "done"}
       /\ step[Caller] \in {"wake", "advance"} =>
            cursor[Caller] \in Tasks /\ next[cursor[Caller]] = Nil
  /\ awaiter # "none" /\ step[Caller] = "done" => completion # "none"
  /\ awaiter = "freed" =>
       ~subscribed /\ step[Caller] = "done" /\ step[TimerThread] \in {"idle", "done"}
  /\ dangling => completion = "false" \/ mode = "any"

GroupInv == GroupTypeOK /\ AgentsInv /\ EarlyInv /\ CountInv /\ ResultInv /\ CleanInv

\* What the list says of its tasks.
LEMMA ListFacts ==
  ASSUME ListAssumption
  PROVE  /\ \A t \in Tasks : Index(t) \in 1..Len(List) /\ List[Index(t)] = t
         /\ \A i \in 1..Len(List) : List[i] \in Tasks /\ Index(List[i]) = i
         /\ \A s, t \in Tasks : Index(s) = Index(t) => s = t
         /\ Links \in [Tasks -> Tasks \cup {Nil}]
         /\ \A t \in Tasks :
              Links[t] = IF Index(t) = Len(List) THEN Nil ELSE List[Index(t) + 1]
         /\ Len(List) \in Nat \ {0}
<1>1. Len(List) \in Nat \ {0}
  BY DEF ListAssumption
<1>2. \A t \in Tasks : Index(t) \in 1..Len(List) /\ List[Index(t)] = t
  BY DEF Index, Tasks
<1>3. \A i \in 1..Len(List) : List[i] \in Tasks
  BY DEF Tasks
<1>4. \A i \in 1..Len(List) : Index(List[i]) = i
  BY <1>2, <1>3 DEF ListAssumption
<1>5. Links = [t \in Tasks |-> IF Index(t) = Len(List) THEN Nil ELSE List[Index(t) + 1]]
  BY DEF Links, Index
<1>6. \A t \in Tasks : Index(t) # Len(List) => List[Index(t) + 1] \in Tasks
  BY <1>1, <1>2, <1>3
<1> QED
  BY <1>1, <1>2, <1>3, <1>4, <1>5, <1>6

\* The tasks are as many as the list is long.
LEMMA TasksCounted ==
  ASSUME ListAssumption
  PROVE  IsFiniteSet(Tasks) /\ Cardinality(Tasks) = Len(List)
<1> DEFINE list == [i \in 1..Len(List) |-> List[i]]
<1>1. list \in Bijection(1..Len(List), Tasks)
  <2>1. \A i \in 1..Len(List) : List[i] \in Tasks
    BY DEF Tasks
  <2>2. list \in Injection(1..Len(List), Tasks)
    <3>1. list \in [1..Len(List) -> Tasks] /\ \A i \in 1..Len(List) : list[i] = List[i]
      BY <2>1
    <3> HIDE DEF list
    <3> QED
      BY <3>1 DEF Injection, IsInjective, ListAssumption
  <2>3. list \in Surjection(1..Len(List), Tasks)
    BY <2>1 DEF Surjection, Tasks
  <2> QED
    BY <2>2, <2>3 DEF Bijection
<1>2. ExistsBijection(1..Len(List), Tasks) /\ Len(List) \in Nat
  BY <1>1 DEF ExistsBijection, ListAssumption
<1>3. IsFiniteSet(Tasks)
  BY <1>2, FS_NatBijection
<1> QED
  BY <1>2, <1>3, FS_CountingElements

\* The coroutine stays where it is.
LEMMA AheadKept ==
  ASSUME step'[Caller] = step[Caller], cursor'[Caller] = cursor[Caller]
  PROVE  Ahead' = Ahead
  BY DEF Ahead

\* Nobody is counted, and the list is as it was.
LEMMA CountKept ==
  ASSUME CountInv, UNCHANGED <<next, head, mode, counter>>, ready \subseteq ready',
         \A a \in Agents : step'[a] = "resolveTrue" => step[a] = "resolveTrue",
         completion' = "none" /\ awaiter' = "alive" =>
           /\ completion = "none" /\ awaiter = "alive"
           /\ Registered' \cup Ahead' = Registered \cup Ahead
           /\ callback' \cap InHand' = {} /\ Registered' \cap Ahead' = {}
  PROVE  CountInv'
<1>1. Cardinality(Registered \cup Ahead)' = Cardinality(Registered' \cup Ahead')
  OBVIOUS
<1> QED
  BY <1>1 DEF CountInv

\* What is left to count is a finite set, and what it is without one of its members.
LEMMA OneCounted ==
  ASSUME ListAssumption, NEW S \in SUBSET Tasks, NEW x \in S
  PROVE  /\ Cardinality(S) \in Nat \ {0} /\ Cardinality(S \ {x}) = Cardinality(S) - 1
         /\ Cardinality(S) = 1 => S = {x}
<1>1. IsFiniteSet(S)
  BY TasksCounted, FS_Subset
<1>2. /\ Cardinality(S \ {x}) = Cardinality(S) - 1 /\ IsFiniteSet(S \ {x})
      /\ Cardinality(S) \in Nat /\ Cardinality(S \ {x}) \in Nat
  BY <1>1, FS_RemoveElement, FS_CardinalityType
<1>3. Cardinality(S \ {x}) = 0 => S \ {x} = {}
  BY <1>2, FS_EmptySet
<1> QED
  BY <1>2, <1>3

\* A task becomes ready: its thread has still to take its callback.
LEMMA SettleKeepsGroup ==
  ASSUME ListAssumption, GroupInv, NEW t \in Tasks, Settle(t)
  PROVE  GroupInv'
<1>1. GroupTypeOK'
  BY DEF Settle, AgentGoto, GroupInv, GroupTypeOK, Steps, Agents
<1>2. AgentsInv'
  BY DEF Settle, AgentGoto, GroupInv, AgentsInv, ListAssumption
<1>3. EarlyInv'
  BY DEF Settle, AgentGoto, GroupInv, EarlyInv, ListAssumption
<1>4. CountInv'
  <2>1. Ahead' = Ahead
    BY AheadKept DEF Settle, AgentGoto, GroupInv, GroupTypeOK, Agents, ListAssumption,
                     Caller, TimerThread
  <2>2. Registered' = Registered /\ (callback \cap InHand = {} => callback' \cap InHand' = {})
    BY DEF Settle, AgentGoto, GroupInv, GroupTypeOK, Agents, ListAssumption, Registered, InHand,
           AgentsInv
  <2> QED
    BY <2>1, <2>2, CountKept
    DEF Settle, AgentGoto, GroupInv, GroupTypeOK, Agents, CountInv
<1>5. ResultInv'
  BY DEF Settle, AgentGoto, GroupInv, ResultInv, Satisfied
<1>6. CleanInv'
  BY DEF Settle, AgentGoto, GroupInv, ListAssumption, CleanInv, Registered, InHand
<1> QED
  BY <1>1, <1>2, <1>3, <1>4, <1>5, <1>6 DEF GroupInv

\* The timer resolves to FALSE only what has subscribed to it.
LEMMA ExpireKeepsGroup ==
  ASSUME ListAssumption, GroupInv, Expire
  PROVE  GroupInv'
<1>1. GroupTypeOK'
  BY DEF Expire, AgentGoto, GroupInv, GroupTypeOK, Steps
<1>2. AgentsInv'
  BY DEF Expire, AgentGoto, GroupInv, AgentsInv, ListAssumption
<1>3. EarlyInv'
  BY DEF Expire, AgentGoto, GroupInv, EarlyInv
<1>4. CountInv'
  <2>1. Ahead' = Ahead
    BY AheadKept DEF Expire, AgentGoto, GroupInv, GroupTypeOK, Agents, ListAssumption,
                     Caller, TimerThread
  <2>2. Registered' = Registered /\ (callback \cap InHand = {} => callback' \cap InHand' = {})
    BY DEF Expire, AgentGoto, GroupInv, GroupTypeOK, Agents, ListAssumption, Registered, InHand,
           AgentsInv
  <2> QED
    BY <2>1, <2>2, CountKept
    DEF Expire, AgentGoto, GroupInv, GroupTypeOK, Agents, CountInv
<1>5. ResultInv'
  BY DEF Expire, AgentGoto, GroupInv, ResultInv, Satisfied
<1>6. CleanInv'
  BY DEF Expire, AgentGoto, GroupInv, CleanInv, Registered,
         InHand, Caller, TimerThread
<1> QED
  BY <1>1, <1>2, <1>3, <1>4, <1>5, <1>6 DEF GroupInv

\* A callback that is taken is about to be called, and so counted as before.
LEMMA TakeKeepsGroup ==
  ASSUME ListAssumption, GroupInv, NEW t \in Tasks, Take(t)
  PROVE  GroupInv'
<1>1. GroupTypeOK'
  BY DEF Take, AgentGoto, GroupInv, GroupTypeOK, Steps
<1>2. AgentsInv'
  BY DEF Take, AgentGoto, GroupInv, AgentsInv
<1>3. EarlyInv'
  BY DEF Take, AgentGoto, GroupInv, EarlyInv
<1>4. CountInv'
  <2>1. Ahead' = Ahead
    BY AheadKept DEF Take, AgentGoto, GroupInv, GroupTypeOK, Agents, ListAssumption, Caller,
                     TimerThread
  <2>2. Registered' = Registered /\ (callback \cap InHand = {} => callback' \cap InHand' = {})
    BY DEF Take, AgentGoto, GroupInv, GroupTypeOK, Agents, ListAssumption, Registered, InHand,
           AgentsInv
  <2> QED
    BY <2>1, <2>2, CountKept
    DEF Take, AgentGoto, GroupInv, GroupTypeOK, Agents, CountInv
<1>5. ResultInv'
  BY DEF Take, AgentGoto, GroupInv, ResultInv, Satisfied
<1>6. CleanInv'
  BY DEF Take, AgentGoto, GroupInv, AgentsInv, CleanInv, Registered, InHand
<1> QED
  BY <1>1, <1>2, <1>3, <1>4, <1>5, <1>6 DEF GroupInv

\* A callback that is called, or found late by the coroutine, is counted: the one that
\* is left over is the last, so that all tasks are ready.
LEMMA InvokeKeepsGroup ==
  ASSUME ListAssumption, GroupInv, NEW a \in Agents, Invoke(a)
  PROVE  GroupInv'
<1>a. After(a) \in Steps /\ (a # Caller => After(a) = "done")
      /\ (a = Caller => After(a) = IF cursor[a] = Nil THEN "begin" ELSE "advance")
  BY DEF After, Steps
<1>b. a \in Tasks \/ a = Caller
  BY DEF Invoke, Agents, GroupInv, AgentsInv
<1>c. Caller \notin Tasks /\ TimerThread \notin Tasks /\ Caller # TimerThread
  BY DEF ListAssumption, Caller, TimerThread
<1>d. step' \in [Agents -> Steps] /\ \A b \in Agents \ {a} : step'[b] = step[b]
  BY <1>a DEF Invoke, GroupInv, GroupTypeOK, Steps
<1>e. PICK x \in Registered \cup Ahead :
        /\ x \in ready /\ (a \in Tasks => x = a) /\ (a = Caller => x = cursor[Caller])
  BY <1>b, <1>c, ListFacts DEF Invoke, GroupInv, AgentsInv, Registered, InHand, Ahead
<1>f. mode \in {"all", "any"} /\ Registered \cup Ahead \subseteq Tasks
  BY <1>c DEF GroupInv, GroupTypeOK, ListAssumption, Registered, InHand, Ahead
<1>g. ASSUME completion = "none", awaiter = "alive", mode = "all"
      PROVE  /\ counter \in Nat \ {0}
             /\ Cardinality((Registered \cup Ahead) \ {x}) = counter - 1
             /\ counter = 1 => Registered \cup Ahead = {x} /\ Tasks \subseteq ready
             /\ \A b \in Agents : step[b] # "resolveTrue"
  <2>1. /\ counter = Cardinality(Registered \cup Ahead)
        /\ Tasks \ (Registered \cup Ahead) \subseteq ready
        /\ \A b \in Agents : step[b] = "resolveTrue" => counter = 0
    BY <1>g DEF GroupInv, CountInv
  <2>2. /\ Cardinality(Registered \cup Ahead) \in Nat \ {0}
        /\ Cardinality((Registered \cup Ahead) \ {x}) = Cardinality(Registered \cup Ahead) - 1
        /\ Cardinality(Registered \cup Ahead) = 1 => Registered \cup Ahead = {x}
    BY <1>e, <1>f, OneCounted
  <2> QED
    BY <2>1, <2>2, <1>e
<1>1. GroupTypeOK'
  <2>1. counter' \in 0..Len(List)
    BY ListFacts DEF Invoke, GroupInv, GroupTypeOK
  <2> QED
    BY <1>d, <2>1 DEF Invoke, GroupInv, GroupTypeOK
<1>2. AgentsInv'
  BY DEF Invoke, After, GroupInv, GroupTypeOK, Agents, AgentsInv, ListAssumption
<1>3. EarlyInv'
  BY DEF Invoke, After, GroupInv, GroupTypeOK, Agents, EarlyInv
<1>4. CountInv'
  <2> SUFFICES ASSUME completion = "none", awaiter = "alive" PROVE CountInv'
    BY DEF Invoke, CountInv
  <2>1. /\ Registered' \cap Ahead' = {} /\ callback' \cap InHand' = {}
        /\ mode = "all" => Registered' \cup Ahead' = (Registered \cup Ahead) \ {x}
    <3>1. CASE a \in Tasks
      <4>1. Ahead' = Ahead
        BY <3>1, <1>c, <1>d, AheadKept DEF Invoke, Agents
      <4>2. InHand' = InHand \ {a} /\ a \in InHand
        BY <3>1, <1>a, <1>c, <1>d DEF Invoke, InHand, Agents, GroupInv, GroupTypeOK
      <4> QED
        BY <3>1, <4>1, <4>2, <1>e DEF Invoke, Registered, GroupInv, CountInv
    <3>2. CASE a = Caller
      <4>1. InHand' = InHand /\ Registered' = Registered
        BY <3>2, <1>c, <1>d DEF Invoke, InHand, Registered, Agents
      <4>2. x = cursor[Caller] /\ x \in Tasks /\ step[Caller] = "invoke"
        BY <3>2, <1>e, <1>c DEF Invoke, GroupInv, AgentsInv
      <4>3. Ahead = {t \in Tasks : Index(t) >= Index(x)} /\ x \in Ahead
        BY <4>2, ListFacts DEF Ahead
      <4>4. Ahead \ {x} = {t \in Tasks : Index(t) > Index(x)}
        BY <4>2, <4>3, ListFacts
      <4>5. step'[Caller] = "resolveTrue" \/ step'[Caller] = "advance"
        BY <3>2, <4>2, <1>a, <1>c DEF Invoke, GroupInv, GroupTypeOK, Agents, ListAssumption
      <4>6. CASE step'[Caller] = "advance"
        <5>1. Ahead' = Ahead \ {x}
          BY <4>2, <4>4, <4>6 DEF Ahead, Invoke
        <5> QED
          BY <4>1, <4>3, <5>1 DEF Invoke, GroupInv, CountInv
      <4>7. CASE step'[Caller] = "resolveTrue"
        <5>1. Ahead' = {}
          BY <4>7 DEF Ahead
        <5>2. mode = "all" => counter = 1
          BY <3>2, <4>7, <1>a DEF Invoke, LastOfAll, GroupInv, GroupTypeOK, Agents
        <5>3. mode = "all" => Registered = {} /\ (Registered \cup Ahead) \ {x} = {}
          BY <4>3, <5>2, <1>g DEF GroupInv, CountInv
        <5> QED
          BY <4>1, <5>1, <5>3 DEF Invoke, GroupInv, CountInv
      <4> QED
        BY <4>5, <4>6, <4>7
    <3> QED
      BY <3>1, <3>2, <1>b
  <2>2. CASE mode = "any"
    BY <2>1, <2>2 DEF Invoke, GroupInv, CountInv
  <2>3. CASE mode = "all"
    <3>1. counter' = counter - 1 /\ (counter # 1 => step'[a] # "resolveTrue")
      BY <2>3, <1>a, <1>g DEF Invoke, LastOfAll, GroupInv, GroupTypeOK
    <3>2. Cardinality(Registered \cup Ahead)' = Cardinality(Registered' \cup Ahead')
      OBVIOUS
    <3>3. counter' = Cardinality(Registered \cup Ahead)'
      BY <2>1, <2>3, <3>1, <3>2, <1>g
    <3>4. Tasks \ (Registered' \cup Ahead') \subseteq ready'
      BY <2>1, <2>3, <1>e DEF Invoke, GroupInv, CountInv
    <3>5. \A b, c \in Agents :
            step'[b] = "resolveTrue" /\ step'[c] = "resolveTrue" => b = c /\ counter' = 0
      BY <2>3, <3>1, <1>d, <1>g
    <3> QED
      BY <2>1, <2>3, <3>3, <3>4, <3>5 DEF Invoke, GroupInv, CountInv
  <2> QED
    BY <2>2, <2>3, <1>f
<1>5. ResultInv'
  <2>1. ASSUME step'[a] = "resolveTrue", completion = "none" PROVE Satisfied
    <3>1. awaiter = "alive"
      BY <2>1, <1>a, <1>b DEF Invoke, GroupInv, GroupTypeOK, EarlyInv
    <3>2. mode = "all" => counter = 1
      BY <2>1, <3>1, <1>a DEF Invoke, LastOfAll, GroupInv, GroupTypeOK
    <3> QED
      BY <2>1, <3>1, <3>2, <1>e, <1>f, <1>g DEF Satisfied
  <2>2. step'[a] \notin {"resolveFalse", "reset", "wake"}
    BY <1>a DEF Invoke, GroupInv, GroupTypeOK
  <2>3. step'[Caller] # "done" => answer = "none"
    BY <1>d DEF Invoke, GroupInv, ResultInv, Agents
  <2> QED
    BY <1>d, <2>1, <2>2, <2>3 DEF Invoke, GroupInv, ResultInv, Satisfied
<1>6. CleanInv'
  BY DEF Invoke, After, GroupInv, GroupTypeOK, Agents, ListAssumption, CleanInv
<1> QED
  BY <1>1, <1>2, <1>3, <1>4, <1>5, <1>6 DEF GroupInv

\* The first result counts.  When it is that all tasks are ready, nobody else has anything
\* to resolve and the coroutine has come to the end of the list.
LEMMA ResolveKeepsGroup ==
  ASSUME ListAssumption, GroupInv, NEW a \in Agents, Resolve(a)
  PROVE  GroupInv'
<1>a. After(a) \in Steps /\ (a # Caller => After(a) = "done")
      /\ (a = Caller => After(a) = IF cursor[a] = Nil THEN "begin" ELSE "advance")
  BY DEF After, Steps
<1>c. Caller \notin Tasks /\ TimerThread \notin Tasks /\ Caller # TimerThread /\ Caller \in Agents
  BY DEF ListAssumption, Caller, TimerThread, Agents
<1>1. GroupTypeOK'
  <2>1. step' \in [Agents -> Steps]
    BY <1>a DEF Resolve, GroupInv, GroupTypeOK, Steps
  <2>2. cursor' \in [Agents -> Tasks \cup {Nil}] /\ next' \in [Tasks -> Tasks \cup {Nil}]
    BY DEF Resolve, GroupInv, GroupTypeOK
  <2>3. callback' \subseteq Tasks /\ head' \in Tasks \cup {Nil} /\ dangling' \in BOOLEAN
    BY DEF Resolve, GroupInv, GroupTypeOK
  <2>4. completion' \in {"none", "true", "false"}
    BY DEF Resolve, GroupInv, GroupTypeOK
  <2> QED
    BY <2>1, <2>2, <2>3, <2>4 DEF Resolve, GroupInv, GroupTypeOK
<1>2. AgentsInv'
  <2>1. /\ step'[a] \in {"done", "reset", "wake", After(a)} /\ UNCHANGED ready
        /\ \A b \in Agents \ {a} : step'[b] = step[b] /\ cursor'[b] = cursor[b]
        /\ a = Caller => UNCHANGED cursor /\ step'[a] # "reset"
    BY <1>a DEF Resolve, GroupInv, GroupTypeOK
  <2>2. a = Caller => After(a) = "begin" \/ (After(a) = "advance" /\ cursor[a] \in Tasks)
    BY <1>a, <1>c DEF GroupInv, GroupTypeOK
  <2> QED
    BY <2>1, <2>2, <1>a, <1>c DEF Resolve, GroupInv, GroupTypeOK, AgentsInv, Agents
<1>3. EarlyInv'
  BY DEF Resolve, After, GroupInv, GroupTypeOK, Agents, EarlyInv
<1>4. CountInv'
  BY DEF Resolve, CountInv
<1>5. ResultInv'
  BY DEF Resolve, After, GroupInv, GroupTypeOK, Agents, ResultInv, Satisfied
<1>6. CleanInv'
  <2>1. CASE awaiter = "freed"
    <3>1. /\ step'[a] = "done" /\ \A b \in Agents \ {a} : step'[b] = step[b]
          /\ dangling' /\ UNCHANGED <<mode, completion, awaiter, callback, next, cursor, subscribed>>
      BY <2>1 DEF Resolve, GroupInv, GroupTypeOK
    <3>2. a \in Tasks /\ step[a] = "resolveTrue"
      BY <2>1, <1>c DEF Resolve, GroupInv, AgentsInv, CleanInv, Agents
    <3>3. mode = "any" \/ completion = "false"
      BY <2>1, <3>2 DEF GroupInv, GroupTypeOK, CleanInv, ListAssumption
    <3> QED
      BY <2>1, <3>1, <3>2, <3>3, <1>c DEF GroupInv, CleanInv, Registered, InHand, Agents
  <2>2. CASE awaiter # "freed" /\ completion # "none"
    <3>1. /\ step'[a] = After(a) /\ \A b \in Agents \ {a} : step'[b] = step[b]
          /\ UNCHANGED <<mode, completion, awaiter, callback, next, cursor, subscribed, dangling>>
      BY <2>2, <1>a DEF Resolve, GroupInv, GroupTypeOK
    <3>2. mode = "all" /\ completion = "true" => a = TimerThread /\ After(a) = "done"
      BY <1>a, <1>c DEF Resolve, GroupInv, AgentsInv, CleanInv, Agents
    <3> QED
      BY <2>2, <3>1, <3>2, <1>c DEF GroupInv, CleanInv, Registered, InHand, Agents
  <2>3. CASE awaiter # "freed" /\ completion = "none"
    <3>1. awaiter = "alive" /\ UNCHANGED <<mode, awaiter, dangling, subscribed>>
      BY <2>3, <1>c DEF Resolve, GroupInv, GroupTypeOK, EarlyInv, Agents
    <3>2. /\ completion' = IF step[a] = "resolveTrue" THEN "true" ELSE "false"
          /\ step'[a] \in {"wake", "reset"} /\ (a = Caller => step'[a] = "wake")
          /\ \A b \in Agents \ {a} : step'[b] = step[b]
      BY <2>3 DEF Resolve, GroupInv, GroupTypeOK
    <3>3. CASE mode = "all" /\ step[a] = "resolveTrue"
      <4>1. Registered \cup Ahead = {} /\ \A b \in Agents \ {a} : step[b] # "resolveTrue"
        <5>1. Registered \cup Ahead \subseteq Tasks
          BY <1>c DEF GroupInv, GroupTypeOK, Registered, InHand, Ahead
        <5>2. Cardinality(Registered \cup Ahead) = 0
          BY <2>3, <3>1, <3>3 DEF GroupInv, CountInv
        <5> QED
          BY <2>3, <3>1, <3>3, <5>1, <5>2, OneCounted DEF GroupInv, CountInv
      <4>2. Registered' = {}
        BY <3>2, <4>1, <1>c DEF Resolve, Registered, InHand, Agents
      <4>3. \A b \in Agents : step'[b] \notin {"invoke", "resolveTrue"}
        <5>1. step[Caller] # "invoke"
          BY <4>1, ListFacts DEF Ahead, GroupInv, AgentsInv
        <5> QED
          BY <3>2, <4>1, <5>1, <1>c DEF Registered, InHand, Agents, GroupInv, AgentsInv
      <4>4. step[Caller] \in {"resolveTrue", "advance", "await", "suspended", "done"}
        <5>1. step[Caller] \notin {"resolveFalse", "begin", "register", "invoke"}
          BY <4>1, ListFacts DEF Ahead, GroupInv, AgentsInv
        <5>2. step[Caller] \notin {"idle", "take", "check", "expiry", "reset", "wake"}
          BY <2>3, <3>1, <1>c DEF GroupInv, AgentsInv, EarlyInv, ResultInv
        <5> QED
          BY <5>1, <5>2, <1>c DEF GroupInv, GroupTypeOK, Steps
      <4>5. CASE a = Caller
        BY <3>1, <3>2, <3>3, <4>2, <4>3, <4>5, <2>3, <1>c
        DEF Resolve, GroupInv, GroupTypeOK, AgentsInv, CleanInv, ListAssumption
      <4>6. CASE a # Caller
        <5>1. step[Caller] # "resolveTrue" /\ step'[Caller] = step[Caller]
          BY <3>2, <4>1, <4>6, <1>c
        <5>2. UNCHANGED next /\ cursor'[Caller] = cursor[Caller]
          BY <2>3, <4>6, <1>c DEF Resolve, GroupInv, GroupTypeOK
        <5>3. step[Caller] = "advance" =>
                cursor[Caller] \in Tasks /\ next[cursor[Caller]] = Nil
          <6> SUFFICES ASSUME step[Caller] = "advance"
                       PROVE  cursor[Caller] \in Tasks /\ next[cursor[Caller]] = Nil
            OBVIOUS
          <6>1. cursor[Caller] \in Tasks /\ next = Links
            BY <2>3, <3>1 DEF GroupInv, AgentsInv, CountInv
          <6>2. \A t \in Tasks : ~(Index(t) > Index(cursor[Caller]))
            BY <4>1 DEF Ahead
          <6>3. Index(cursor[Caller]) # Len(List) =>
                  List[Index(cursor[Caller]) + 1] \in Tasks
                  /\ Index(List[Index(cursor[Caller]) + 1]) = Index(cursor[Caller]) + 1
            BY <6>1, ListFacts
          <6> QED
            BY <6>1, <6>2, <6>3, ListFacts
        <5> QED
          BY <3>1, <3>2, <3>3, <4>2, <4>3, <4>4, <5>1, <5>2, <5>3, <2>3
          DEF GroupInv, GroupTypeOK, CleanInv
      <4> QED
        BY <4>5, <4>6
    <3>4. CASE mode = "any" \/ step[a] # "resolveTrue"
      BY <2>3, <3>1, <3>2, <3>4 DEF GroupInv, CleanInv, ListAssumption, GroupTypeOK
    <3> QED
      BY <3>3, <3>4 DEF GroupInv, GroupTypeOK, ListAssumption
  <2> QED
    BY <2>1, <2>2, <2>3
<1> QED
  BY <1>1, <1>2, <1>3, <1>4, <1>5, <1>6 DEF GroupInv

\* The winner empties the list, which nobody counts by any more.
LEMMA ResetTaskKeepsGroup ==
  ASSUME ListAssumption, GroupInv, NEW a \in Agents, ResetTask(a)
  PROVE  GroupInv'
<1>1. GroupTypeOK'
  <2>1. CASE cursor[a] = Nil
    BY <2>1 DEF ResetTask, AgentGoto, GroupInv, GroupTypeOK, Steps
  <2>2. CASE cursor[a] # Nil
    BY <2>2 DEF ResetTask, GroupInv, GroupTypeOK
  <2> QED
    BY <2>1, <2>2
<1>2. AgentsInv'
  BY DEF ResetTask, AgentGoto, GroupInv, GroupTypeOK, Agents, AgentsInv
<1>3. EarlyInv'
  BY DEF ResetTask, AgentGoto, GroupInv, GroupTypeOK, Agents, EarlyInv
<1>4. CountInv'
  BY DEF ResetTask, GroupInv, ResultInv, CountInv
<1>5. ResultInv'
  BY DEF ResetTask, AgentGoto, GroupInv, GroupTypeOK, Agents, ResultInv, Satisfied
<1>6. CleanInv'
  BY DEF ResetTask, AgentGoto, GroupInv, GroupTypeOK, Agents, CleanInv, Registered, InHand
<1> QED
  BY <1>1, <1>2, <1>3, <1>4, <1>5, <1>6 DEF GroupInv

\* The winner wakes the coroutine.
LEMMA WakeKeepsGroup ==
  ASSUME ListAssumption, GroupInv, NEW a \in Agents, Wake(a)
  PROVE  GroupInv'
<1>a. After(a) \in Steps /\ (a # Caller => After(a) = "done")
      /\ (a = Caller => After(a) = IF cursor[a] = Nil THEN "begin" ELSE "advance")
  BY DEF After, Steps
<1>c. Caller \notin Tasks /\ TimerThread \notin Tasks /\ Caller # TimerThread /\ Caller \in Agents
  BY DEF ListAssumption, Caller, TimerThread, Agents
<1>1. GroupTypeOK'
  <2>1. step' \in [Agents -> Steps]
    BY <1>a, <1>c DEF Wake, GroupInv, GroupTypeOK, Steps
  <2> QED
    BY <2>1 DEF Wake, GroupInv, GroupTypeOK
<1>2. AgentsInv'
  <2>1. CASE a = Caller
    <3>1. step' = [step EXCEPT ![Caller] = After(a)] /\ UNCHANGED <<cursor, ready>>
      BY <2>1 DEF Wake
    <3>2. /\ After(a) \in {"begin", "advance"} /\ (After(a) = "advance" => cursor[Caller] \in Tasks)
      BY <2>1, <1>a, <1>c DEF GroupInv, GroupTypeOK
    <3> QED
      BY <3>1, <3>2, <1>c DEF GroupInv, GroupTypeOK, AgentsInv, Agents
  <2>2. CASE a # Caller
    <3>1. /\ step'[a] = "done" /\ UNCHANGED <<cursor, ready>>
          /\ \A b \in Agents \ {a} : step'[b] = step[b] \/ (b = Caller /\ step'[b] = "done")
      BY <2>2, <1>a, <1>c DEF Wake, GroupInv, GroupTypeOK
    <3> QED
      BY <2>2, <3>1, <1>c DEF Wake, GroupInv, GroupTypeOK, AgentsInv, Agents
  <2> QED
    BY <2>1, <2>2
<1>3. EarlyInv'
  BY DEF Wake, After, GroupInv, GroupTypeOK, Agents, EarlyInv
<1>4. CountInv'
  BY DEF Wake, GroupInv, ResultInv, CountInv
<1>5. ResultInv'
  BY DEF Wake, After, GroupInv, GroupTypeOK, Agents, ResultInv, Satisfied
<1>6. CleanInv'
  <2>1. completion # "none"
    BY DEF Wake, GroupInv, ResultInv
  <2>2. CASE a = Caller
    <3>1. step' = [step EXCEPT ![Caller] = After(a)]
      BY <2>2 DEF Wake
    <3>2. After(a) \in {"begin", "advance"} /\ (cursor[a] \in Tasks => After(a) = "advance")
      BY <2>2, <1>a DEF ListAssumption
    <3> QED
      BY <2>1, <2>2, <3>1, <3>2, <1>c
      DEF Wake, GroupInv, GroupTypeOK, CleanInv, Registered, InHand, Agents
  <2>3. CASE a # Caller
    <3>1. /\ step'[a] = "done"
          /\ \A b \in Agents \ {a} : step'[b] = step[b] \/ (b = Caller /\ step'[b] = "done")
      BY <2>3, <1>a, <1>c DEF Wake, GroupInv, GroupTypeOK
    <3> QED
      BY <2>1, <2>3, <3>1, <1>c
      DEF Wake, GroupInv, GroupTypeOK, CleanInv, Registered, InHand, Agents
  <2> QED
    BY <2>2, <2>3
<1> QED
  BY <1>1, <1>2, <1>3, <1>4, <1>5, <1>6 DEF GroupInv

\* The coroutine ends at once when all it waits for is ready.
LEMMA CheckReadyKeepsGroup ==
  ASSUME ListAssumption, GroupInv, CheckReady
  PROVE  GroupInv'
<1>1. GroupTypeOK'
  BY DEF CheckReady, Return, GroupInv, GroupTypeOK, Steps
<1>2. AgentsInv'
  BY DEF CheckReady, Return, GroupInv, GroupTypeOK, Agents, AgentsInv
<1>3. EarlyInv'
  BY DEF CheckReady, Return, GroupInv, GroupTypeOK, Agents, EarlyInv
<1>4. CountInv'
  BY DEF CheckReady, GroupInv, EarlyInv, CountInv
<1>5. ResultInv'
  BY DEF CheckReady, Return, GroupInv, GroupTypeOK, Agents, EarlyInv, ResultInv
<1>6. CleanInv'
  BY DEF CheckReady, GroupInv, EarlyInv, CleanInv
<1> QED
  BY <1>1, <1>2, <1>3, <1>4, <1>5, <1>6 DEF GroupInv

\* It ends at once when the expiration is over.
LEMMA CheckExpiredKeepsGroup ==
  ASSUME ListAssumption, GroupInv, CheckExpired
  PROVE  GroupInv'
<1>1. GroupTypeOK'
  BY DEF CheckExpired, Return, GroupInv, GroupTypeOK, Steps
<1>2. AgentsInv'
  BY DEF CheckExpired, Return, GroupInv, AgentsInv
<1>3. EarlyInv'
  BY DEF CheckExpired, Return, GroupInv, GroupTypeOK, Agents, EarlyInv
<1>4. CountInv'
  BY DEF CheckExpired, GroupInv, EarlyInv, CountInv
<1>5. ResultInv'
  BY DEF CheckExpired, Return, GroupInv, GroupTypeOK, Agents, EarlyInv, ResultInv
<1>6. CleanInv'
  BY DEF CheckExpired, GroupInv, EarlyInv, CleanInv
<1> QED
  BY <1>1, <1>2, <1>3, <1>4, <1>5, <1>6 DEF GroupInv

\* The state of the awaiter is made: all tasks are to be counted.
LEMMA CreateKeepsGroup ==
  ASSUME ListAssumption, GroupInv, Create
  PROVE  GroupInv'
<1>1. GroupTypeOK'
  BY DEF Create, GroupInv, GroupTypeOK, Steps, Agents
<1>2. AgentsInv'
  BY DEF Create, GroupInv, GroupTypeOK, Agents, AgentsInv, ListAssumption
<1>3. EarlyInv'
  BY DEF Create, GroupInv, GroupTypeOK, Agents, EarlyInv
<1>4. CountInv'
  <2>1. Registered' = {} /\ callback' = {} /\ completion' = "none"
    BY DEF Create, GroupInv, GroupTypeOK, EarlyInv, Registered, InHand, Agents,
           ListAssumption
  <2>2. step'[Caller] \in {"resolveFalse", "begin"} /\ step' \in [Agents -> Steps]
    BY DEF Create, GroupInv, GroupTypeOK, Steps, Agents, Caller, TimerThread
  <2>3. Ahead' = Tasks
    BY <2>2 DEF Ahead
  <2>4. \A b \in Agents : step'[b] # "resolveTrue"
    BY <2>2 DEF Create, GroupInv, GroupTypeOK, EarlyInv, Agents, Caller, TimerThread
  <2>5. Cardinality(Registered \cup Ahead)' = Cardinality(Registered' \cup Ahead')
    OBVIOUS
  <2>6. counter' = Cardinality(Registered \cup Ahead)'
    BY <2>1, <2>3, <2>5, TasksCounted DEF Create
  <2> QED
    BY <2>1, <2>3, <2>4, <2>6 DEF Create, GroupInv, EarlyInv, CountInv
<1>5. ResultInv'
  BY DEF Create, GroupInv, GroupTypeOK, ResultInv, Satisfied
<1>6. CleanInv'
  BY DEF Create, GroupInv, GroupTypeOK, Agents, CleanInv
<1> QED
  BY <1>1, <1>2, <1>3, <1>4, <1>5, <1>6 DEF GroupInv

\* The loop begins at the head of the list.
LEMMA BeginKeepsGroup ==
  ASSUME ListAssumption, GroupInv, Begin
  PROVE  GroupInv'
<1>1. GroupTypeOK'
  BY DEF Begin, AgentGoto, GroupInv, GroupTypeOK, Steps
<1>2. AgentsInv'
  BY DEF Begin, AgentGoto, GroupInv, GroupTypeOK, AgentsInv
<1>3. EarlyInv'
  BY DEF Begin, AgentGoto, GroupInv, EarlyInv
<1>4. CountInv'
  <2>1. Registered' = Registered /\ InHand' = InHand
    BY DEF Begin, AgentGoto, GroupInv, GroupTypeOK, Agents, ListAssumption, Registered,
           InHand
  <2>2. completion = "none" /\ awaiter = "alive" => Ahead' = Tasks /\ Ahead = Tasks
    <3>1. head = List[1] => head # Nil /\ head \in Tasks /\ Index(head) = 1
      BY ListFacts DEF ListAssumption
    <3> QED
      BY <3>1, ListFacts
      DEF Begin, AgentGoto, GroupInv, GroupTypeOK, Agents, CountInv, Ahead
  <2> QED
    BY <2>1, <2>2, CountKept DEF Begin, AgentGoto, GroupInv, GroupTypeOK, Agents, CountInv
<1>5. ResultInv'
  BY DEF Begin, AgentGoto, GroupInv, ResultInv, Satisfied
<1>6. CleanInv'
  BY DEF Begin, AgentGoto, GroupInv, CleanInv
<1> QED
  BY <1>1, <1>2, <1>3, <1>4, <1>5, <1>6 DEF GroupInv

\* A task that is not ready gets its callback, one that is ready is counted.
LEMMA RegisterKeepsGroup ==
  ASSUME ListAssumption, GroupInv, Register
  PROVE  GroupInv'
<1>1. GroupTypeOK'
  BY DEF Register, GroupInv, GroupTypeOK, Steps, AgentsInv
<1>2. AgentsInv'
  BY DEF Register, GroupInv, GroupTypeOK, Agents, AgentsInv
<1>3. EarlyInv'
  BY DEF Register, GroupInv, GroupTypeOK, EarlyInv
<1>4. CountInv'
  <2>1. InHand' = InHand /\ cursor[Caller] \in Tasks
    BY DEF Register, GroupInv, GroupTypeOK, AgentsInv, Agents, ListAssumption, InHand
  <2>2. CASE cursor[Caller] \in ready
    <3>1. Ahead' = Ahead /\ Registered' = Registered
      BY <2>1, <2>2 DEF Register, GroupInv, GroupTypeOK, Agents, Ahead, Registered
    <3> QED
      BY <2>1, <2>2, <3>1, CountKept DEF Register, GroupInv, GroupTypeOK, Agents, CountInv
  <2>3. CASE cursor[Caller] \notin ready
    <3>1. Ahead' = Ahead \ {cursor[Caller]} /\ cursor[Caller] \in Ahead
      BY <2>1, <2>3, ListFacts DEF Register, GroupInv, GroupTypeOK, Agents, Ahead
    <3>2. callback' = callback \cup {cursor[Caller]} /\ cursor[Caller] \notin InHand
      BY <2>1, <2>3 DEF Register, GroupInv, AgentsInv, InHand
    <3>3. Registered' = Registered \cup {cursor[Caller]}
      BY <2>1, <3>2 DEF Registered
    <3> QED
      BY <2>1, <2>3, <3>1, <3>2, <3>3, CountKept
      DEF Register, GroupInv, GroupTypeOK, Agents, CountInv
  <2> QED
    BY <2>2, <2>3
<1>5. ResultInv'
  BY DEF Register, GroupInv, GroupTypeOK, ResultInv, Satisfied
<1>6. CleanInv'
  BY DEF Register, GroupInv, GroupTypeOK, CleanInv
<1> QED
  BY <1>1, <1>2, <1>3, <1>4, <1>5, <1>6 DEF GroupInv

\* The coroutine goes on to the next task of the list.
LEMMA AdvanceKeepsGroup ==
  ASSUME ListAssumption, GroupInv, Advance
  PROVE  GroupInv'
<1>1. GroupTypeOK'
  BY DEF Advance, AgentGoto, GroupInv, GroupTypeOK, Steps, Agents, AgentsInv
<1>2. AgentsInv'
  BY DEF Advance, AgentGoto, GroupInv, GroupTypeOK, AgentsInv
<1>3. EarlyInv'
  BY DEF Advance, AgentGoto, GroupInv, EarlyInv
<1>4. CountInv'
  <2>1. Registered' = Registered /\ InHand' = InHand
    BY DEF Advance, AgentGoto, GroupInv, GroupTypeOK, Agents, ListAssumption, Registered,
           InHand
  <2>2. next = Links => Ahead' = Ahead
    <3> SUFFICES ASSUME next = Links PROVE Ahead' = Ahead
      OBVIOUS
    <3> DEFINE c == cursor[Caller]
    <3>1. c \in Tasks /\ cursor'[Caller] = Links[c] /\ step[Caller] = "advance"
          /\ step'[Caller] = IF Links[c] = Nil THEN "await" ELSE "register"
      BY DEF Advance, AgentGoto, GroupInv, GroupTypeOK, AgentsInv, Agents
    <3>2. CASE Index(c) = Len(List)
      <4>1. \A t \in Tasks : ~(Index(t) > Index(c))
        BY <3>1, <3>2, ListFacts
      <4> QED
        BY <3>1, <3>2, <4>1, ListFacts DEF Ahead
    <3>3. CASE Index(c) # Len(List)
      <4>1. Links[c] = List[Index(c) + 1] /\ Index(c) + 1 \in 1..Len(List)
        BY <3>1, <3>3, ListFacts
      <4>2. Links[c] # Nil /\ Index(Links[c]) = Index(c) + 1
        BY <4>1, ListFacts DEF ListAssumption
      <4>3. \A t \in Tasks : Index(t) > Index(c) <=> Index(t) >= Index(Links[c])
        BY <3>1, <4>2, ListFacts
      <4> QED
        BY <3>1, <4>2, <4>3 DEF Ahead
    <3> QED
      BY <3>2, <3>3
  <2> QED
    BY <2>1, <2>2, CountKept DEF Advance, AgentGoto, GroupInv, GroupTypeOK, Agents, CountInv
<1>5. ResultInv'
  BY DEF Advance, AgentGoto, GroupInv, ResultInv, Satisfied
<1>6. CleanInv'
  BY DEF Advance, AgentGoto, GroupInv, GroupTypeOK, CleanInv, Registered, InHand
<1> QED
  BY <1>1, <1>2, <1>3, <1>4, <1>5, <1>6 DEF GroupInv

\* It returns when it is awoken already.
LEMMA AwaitKeepsGroup ==
  ASSUME ListAssumption, GroupInv, Await
  PROVE  GroupInv'
<1>1. GroupTypeOK'
  BY DEF Await, AgentGoto, GroupInv, GroupTypeOK, Steps
<1>2. AgentsInv'
  BY DEF Await, AgentGoto, GroupInv, AgentsInv
<1>3. EarlyInv'
  BY DEF Await, AgentGoto, GroupInv, EarlyInv
<1>4. CountInv'
  <2>1. Registered' = Registered /\ InHand' = InHand /\ Ahead' = Ahead
    BY DEF Await, AgentGoto, GroupInv, GroupTypeOK, Agents, ListAssumption, Registered,
           InHand,
           Ahead
  <2> QED
    BY <2>1, CountKept DEF Await, AgentGoto, GroupInv, GroupTypeOK, Agents, CountInv
<1>5. ResultInv'
  BY DEF Await, AgentGoto, GroupInv, GroupTypeOK, Agents, ResultInv, Satisfied
<1>6. CleanInv'
  BY DEF Await, AgentGoto, GroupInv, CleanInv, Registered,
         InHand, ResultInv
<1> QED
  BY <1>1, <1>2, <1>3, <1>4, <1>5, <1>6 DEF GroupInv

\* The state is deleted when the coroutine has returned with a result.
LEMMA DeleteKeepsGroup ==
  ASSUME ListAssumption, GroupInv, Delete
  PROVE  GroupInv'
<1>1. GroupTypeOK'
  BY DEF Delete, GroupInv, GroupTypeOK
<1>2. AgentsInv'
  BY DEF Delete, GroupInv, AgentsInv
<1>3. EarlyInv'
  BY DEF Delete, EarlyInv
<1>4. CountInv'
  BY DEF Delete, CountInv
<1>5. ResultInv'
  BY DEF Delete, GroupInv, ResultInv, Satisfied
<1>6. CleanInv'
  BY DEF Delete, GroupInv, GroupTypeOK, CleanInv, Registered, InHand, EarlyInv, ResultInv
<1> QED
  BY <1>1, <1>2, <1>3, <1>4, <1>5, <1>6 DEF GroupInv

\* The group begins as the invariant says.
LEMMA GroupInitially ==
  ASSUME ListAssumption, GroupInit
  PROVE  GroupInv
<1>1. /\ GroupTypeOK /\ AgentsInv /\ EarlyInv
      /\ step \in [Agents -> Steps] /\ step[Caller] = "check"
      /\ \A a \in Agents : step[a] \in {"check", "idle"}
  <2>1. List[1] \in Tasks /\ 0 \in 0..Len(List) /\ Links \in [Tasks -> Tasks \cup {Nil}]
    BY ListFacts
  <2> QED
    BY <2>1 DEF GroupInit, GroupTypeOK, AgentsInv, EarlyInv, Steps, Agents, ListAssumption,
                Caller, TimerThread
<1>2. CountInv /\ ResultInv /\ CleanInv
  BY <1>1 DEF GroupInit, CountInv, ResultInv, CleanInv
<1> QED
  BY <1>1, <1>2 DEF GroupInv

\* The invariant holds in every behaviour.
THEOREM GroupInvariance ==
  ASSUME ListAssumption
  PROVE  GroupSpec => []GroupInv
<1>1. GroupInv /\ [GroupNext]_groupVars => GroupInv'
  <2> SUFFICES ASSUME GroupInv, [GroupNext]_groupVars PROVE GroupInv'
    OBVIOUS
  <2>1. CASE UNCHANGED groupVars
    BY <2>1 DEF groupVars, GroupInv, GroupTypeOK, AgentsInv, EarlyInv, CountInv, ResultInv,
                CleanInv, Registered, InHand, Ahead, Satisfied
  <2>2. CASE Environment \/ \E t \in Tasks : Take(t)
    BY <2>2, SettleKeepsGroup, ExpireKeepsGroup, TakeKeepsGroup DEF Environment
  <2>3. CASE \E a \in Agents : AgentStep(a)
    BY <2>3, InvokeKeepsGroup, ResolveKeepsGroup, ResetTaskKeepsGroup, WakeKeepsGroup
    DEF AgentStep
  <2>4. CASE CallerStep \/ Delete
    BY <2>4, CheckReadyKeepsGroup, CheckExpiredKeepsGroup, CreateKeepsGroup, BeginKeepsGroup,
       RegisterKeepsGroup, AdvanceKeepsGroup, AwaitKeepsGroup, DeleteKeepsGroup
    DEF CallerStep
  <2> QED
    BY <2>1, <2>2, <2>3, <2>4 DEF GroupNext
<1>2. GroupInit => GroupInv
  BY GroupInitially
<1> QED
  BY <1>1, <1>2, PTL DEF GroupSpec

\* Every step of the code is a step of what whenAll and whenAny promise, or none.
LEMMA GroupStepContract ==
  ASSUME ListAssumption, GroupInv, [GroupNext]_groupVars
  PROVE  [Contract!Next]_(Contract!contractVars)
<1> USE DEF Contract!Next, Contract!contractVars, Contract!Answer, Contract!Satisfied
<1>1. CASE UNCHANGED groupVars
  BY <1>1 DEF groupVars
<1>2. CASE Environment
  <2>1. ASSUME NEW t \in Tasks, Settle(t)
        PROVE  Contract!Settle(t) \/ UNCHANGED <<mode, ready, expired, answer>>
    BY <2>1 DEF Settle, Contract!Settle
  <2>2. CASE Expire
    BY <2>2 DEF Expire, Contract!Expire, GroupInv, GroupTypeOK
  <2> QED
    BY <1>2, <2>1, <2>2 DEF Environment
<1>3. CASE \E t \in Tasks : Take(t)
  BY <1>3 DEF Take
<1>4. CASE \E a \in Agents : AgentStep(a)
  <2> SUFFICES ASSUME NEW a \in Agents, AgentStep(a)
               PROVE  [Contract!Next]_(Contract!contractVars)
    BY <1>4
  <2>1. CASE Invoke(a) \/ Resolve(a) \/ ResetTask(a)
    BY <2>1 DEF Invoke, Resolve, ResetTask
  <2>2. CASE Wake(a)
    BY <2>2 DEF Wake, GroupInv, GroupTypeOK, ResultInv, Satisfied
  <2> QED
    BY <2>1, <2>2 DEF AgentStep
<1>5. CASE CallerStep
  <2>1. CASE CheckReady
    BY <2>1 DEF CheckReady, Return, Satisfied, GroupInv, ResultInv
  <2>2. CASE CheckExpired
    BY <2>2 DEF CheckExpired, Return, GroupInv, ResultInv
  <2>3. CASE Create
    <3>1. ~expired /\ expired' \in BOOLEAN /\ UNCHANGED <<mode, ready, answer>>
      BY <2>3 DEF Create
    <3>2. CASE expired'
      BY <3>1, <3>2 DEF Contract!Expire
    <3>3. CASE ~expired'
      BY <3>1, <3>3 DEF GroupInv, GroupTypeOK
    <3> QED
      BY <3>2, <3>3
  <2>4. CASE Begin \/ Register \/ Advance
    BY <2>4 DEF Begin, Register, Advance
  <2>5. CASE Await
    BY <2>5 DEF Await, AgentGoto, GroupInv, GroupTypeOK, ResultInv, Satisfied
  <2> QED
    BY <1>5, <2>1, <2>2, <2>3, <2>4, <2>5 DEF CallerStep
<1>6. CASE Delete
  BY <1>6 DEF Delete
<1> QED
  BY <1>1, <1>2, <1>3, <1>4, <1>5, <1>6 DEF GroupNext

\* For any list of tasks the answer is given once, TRUE when the tasks waited for are
\* ready and FALSE only after the expiration.
THEOREM GroupImplementsContract ==
  ASSUME ListAssumption
  PROVE  GroupSpec => Contract!SafeSpec
<1>1. GroupInit => Contract!Init
  BY DEF GroupInit, Contract!Init
<1>2. GroupInv /\ [GroupNext]_groupVars => [Contract!Next]_(Contract!contractVars)
  BY GroupStepContract
<1> QED
  BY <1>1, <1>2, GroupInvariance, PTL DEF GroupSpec, Contract!SafeSpec

\* A whenAll that answers TRUE leaves no callback on a task, and nobody has come back
\* to the deleted state of its awaiter.
THEOREM WhenAllReturnsClean ==
  ASSUME ListAssumption
  PROVE  GroupSpec => []AllReturnsClean
<1>1. GroupInv => AllReturnsClean
  BY DEF GroupInv, GroupTypeOK, EarlyInv, ResultInv, CleanInv, Registered, AllReturnsClean
<1> QED
  BY <1>1, GroupInvariance, PTL

-----------------------------------------------------------------------------
(* Collections of tasks *)

\* A task is in the collection while its callback is still to come.
TasksInv ==
  /\ job \in [Jobs -> {"new", "skipped", "emplace", "register", "registered", "calling", "removed"}]
  /\ tasks = {t \in Jobs : job[t] \in {"register", "registered", "calling"}}

\* A coroutine that sleeps has an awaiter, which is resolved when there is no task left.
AwaiterInv ==
  closer = "awaiting" => \/ closeAwaiter = "resolved"
                         \/ closeAwaiter = "pending" /\ tasks # {}

\* The steps of a task.
LEMMA JobKeepsCollection ==
  ASSUME TasksInv, AwaiterInv, NEW t \in Jobs, Finish(t) \/ PushCheck(t) \/ JobStep(t)
  PROVE  TasksInv' /\ AwaiterInv'
<1>1. TasksInv'
  BY DEF Finish, PushCheck, JobStep, PushEmplace, PushRegister, TakeCallback, Completed, Move,
         TasksInv
<1>2. AwaiterInv'
  <2>1. tasks # {} /\ tasks # {t} => tasks \ {t} # {}
    OBVIOUS
  <2>2. CASE Completed(t)
    BY <2>1, <2>2 DEF Completed, KeepCloser, AwaiterInv
  <2>3. CASE ~Completed(t)
    BY <2>3 DEF Finish, PushCheck, JobStep, PushEmplace, PushRegister, TakeCallback, KeepCloser,
                AwaiterInv
  <2> QED
    BY <2>2, <2>3
<1> QED
  BY <1>1, <1>2

\* The steps of the coroutine.
LEMMA CloserKeepsCollection ==
  ASSUME TasksInv, AwaiterInv, AwaitCompletion \/ CloserStep
  PROVE  TasksInv' /\ AwaiterInv'
  BY DEF AwaitCompletion, CloserStep, FoundEmpty, FoundTasks, Resumed, LeaveAwait, KeepTasks,
         TasksInv, AwaiterInv

\* awaitCompletion returns only when nothing is in the collection, and no coroutine
\* sleeps on one that is empty without having been woken.
THEOREM CollectionIsAwaited ==
  CollectionSpec => AwaitMeansEmpty /\ []AwaiterInv
<1> DEFINE LeavesEmpty == closer = "loop" /\ closer' = "leave" =>
              \A t \in Jobs : job[t] \notin {"register", "registered", "calling"}
<1>1. CollectionInit => TasksInv /\ AwaiterInv
  BY DEF CollectionInit, TasksInv, AwaiterInv
<1>2. TasksInv /\ AwaiterInv /\ [CollectionNext]_collectionVars => TasksInv' /\ AwaiterInv'
  <2>1. TasksInv /\ AwaiterInv /\ UNCHANGED collectionVars => TasksInv' /\ AwaiterInv'
    BY DEF collectionVars, TasksInv, AwaiterInv
  <2> QED
    BY <2>1, JobKeepsCollection, CloserKeepsCollection DEF CollectionNext
<1>3. TasksInv /\ [CollectionNext]_collectionVars => [LeavesEmpty]_collectionVars
  <2> SUFFICES ASSUME TasksInv, CollectionNext, closer = "loop", closer' = "leave"
               PROVE  LeavesEmpty
    OBVIOUS
  <2>1. tasks = {}
    BY DEF CollectionNext, Finish, PushCheck, JobStep, PushEmplace, PushRegister, TakeCallback,
           Completed, KeepCloser, AwaitCompletion, CloserStep, FoundEmpty, FoundTasks, Resumed,
           LeaveAwait
  <2> QED
    BY <2>1 DEF TasksInv
<1> QED
  BY <1>1, <1>2, <1>3, PTL DEF CollectionSpec, AwaitMeansEmpty

=============================================================================
