------------------------------ MODULE RefCount ------------------------------
(***************************************************************************)
(* The shared state of a reference counted object (rtti_impl.cpp): Ptr and *)
(* WeakPtr of several threads, the counter of the instance and the counter *)
(* of the storage.  Every atomic operation is one step; tryAddRef() reads  *)
(* the counter once for the comparison and once more for the new value.    *)
(***************************************************************************)
EXTENDS Naturals, FiniteSets

CONSTANTS Users,     \* threads
          MaxRefs,   \* how many Ptr a thread keeps at most
          MaxCounted \* how high a counter a WeakPtr is still acquired at

\* What the constants must satisfy.
RefCountAssumption == IsFiniteSet(Users) /\ Users # {} /\ MaxRefs \in Nat \ {0} /\ MaxCounted \in Nat

VARIABLES
  strong,      \* the Ptr of each thread
  weak,        \* has it a WeakPtr
  instances, states,  \* m_instanceCounter, m_stateCounter
  instance,    \* "alive" or "destroyed"
  storage,     \* "allocated" or "freed"
  doing,       \* where each thread is
  seen, again, \* the two values tryAddRef has read
  underflow,   \* has a counter been decremented at zero
  miscounted   \* has an acquisition stored another value than one more than it compared
refVars == <<strong, weak, instances, states, instance, storage, doing, seen, again,
             underflow, miscounted>>

\* An instance is made with one Ptr; its maker has handed a WeakPtr to all.
RefInit ==
  /\ \E u \in Users : strong = [v \in Users |-> IF v = u THEN 1 ELSE 0]
  /\ weak = [u \in Users |-> TRUE]
  /\ instances = 1 /\ states = 1 + Cardinality(Users)
  /\ instance = "alive" /\ storage = "allocated"
  /\ doing = [u \in Users |-> "idle"]
  /\ seen = [u \in Users |-> 0] /\ again = [u \in Users |-> 0]
  /\ underflow = FALSE /\ miscounted = FALSE

Proceed(u, from, to) == doing[u] = from /\ doing' = [doing EXCEPT ![u] = to]

\* removeRef: the value before the subtraction decides.
Decremented(counter) == IF counter = 0 THEN 0 ELSE counter - 1

\* Ptr's copy: addInstanceRef, the two counters one after the other.
CopyPtr(u) ==
  /\ strong[u] \in 1..(MaxRefs - 1)
  /\ Proceed(u, "idle", "copied")
  /\ instances' = instances + 1
  /\ UNCHANGED <<strong, weak, states, instance, storage, seen, again, underflow, miscounted>>

CopyPtrState(u) ==
  /\ doing[u] \in {"copied", "acquired"}
  /\ doing' = [doing EXCEPT ![u] = "idle"]
  /\ states' = states + 1
  /\ strong' = [strong EXCEPT ![u] = @ + 1]
  /\ UNCHANGED <<weak, instances, instance, storage, seen, again, underflow, miscounted>>

\* releaseInstanceRef: the last Ptr destroys the instance, then gives up its
\* part of the storage.
ReleasePtr(u) ==
  /\ strong[u] > 0 /\ Proceed(u, "idle", "storage")
  /\ strong' = [strong EXCEPT ![u] = @ - 1]
  /\ underflow' = (underflow \/ instances = 0)
  /\ instances' = Decremented(instances)
  /\ instance' = IF instances = 1 THEN "destroyed" ELSE instance
  /\ UNCHANGED <<weak, states, storage, seen, again, miscounted>>

\* releaseStorageRef
ReleaseStorage(u) ==
  /\ Proceed(u, "storage", "idle")
  /\ underflow' = (underflow \/ states = 0)
  /\ states' = Decremented(states)
  /\ storage' = IF states = 1 THEN "freed" ELSE storage
  /\ UNCHANGED <<strong, weak, instances, instance, seen, again, miscounted>>

\* ~WeakPtr
ReleaseWeak(u) ==
  /\ weak[u] /\ Proceed(u, "idle", "storage")
  /\ weak' = [weak EXCEPT ![u] = FALSE]
  /\ UNCHANGED <<strong, instances, states, instance, storage, seen, again, underflow, miscounted>>

\* WeakPtr(Ptr): getWeakRef of an instance that the thread holds.
MakeWeak(u) ==
  /\ ~weak[u] /\ strong[u] > 0 /\ doing[u] = "idle"
  /\ weak' = [weak EXCEPT ![u] = TRUE]
  /\ states' = states + 1
  /\ UNCHANGED <<strong, instances, instance, storage, doing, seen, again, underflow, miscounted>>

\* WeakPtr::acquire: tryAddRef loads the counter,
Load(u) ==
  /\ weak[u] /\ strong[u] < MaxRefs /\ instances <= MaxCounted
  /\ Proceed(u, "idle", IF instances = 0 THEN "idle" ELSE "reload")
  /\ seen' = [seen EXCEPT ![u] = instances]
  /\ UNCHANGED <<strong, weak, instances, states, instance, storage, again, underflow, miscounted>>

\* loads it again to make the new value,
Reload(u) ==
  /\ Proceed(u, "reload", "exchange")
  /\ again' = [again EXCEPT ![u] = instances]
  /\ UNCHANGED <<strong, weak, instances, states, instance, storage, seen, underflow, miscounted>>

\* A mutant of Exchange: the counter is stored without the comparison.
ExchangeBlindly(u) ==
  /\ Proceed(u, "exchange", "acquired")
  /\ instances' = again[u] + 1
  /\ UNCHANGED <<strong, weak, states, instance, storage, seen, again, underflow, miscounted>>

\* and exchanges it if it is what was loaded first, or starts over with what
\* it is now.
Exchange(u) ==
  /\ doing[u] = "exchange"
  /\ IF instances = seen[u]
     THEN /\ instances' = again[u] + 1
          /\ doing' = [doing EXCEPT ![u] = "acquired"]
          /\ miscounted' = IF again[u] = seen[u] THEN miscounted ELSE TRUE
          /\ seen' = [seen EXCEPT ![u] = 0] /\ again' = [again EXCEPT ![u] = 0]
     ELSE /\ seen' = [seen EXCEPT ![u] = instances]
          /\ doing' = [doing EXCEPT ![u] = IF instances = 0 THEN "idle" ELSE "reload"]
          /\ UNCHANGED <<instances, again, miscounted>>
  /\ UNCHANGED <<strong, weak, states, instance, storage, underflow>>

UserStep(u) == \/ CopyPtrState(u) \/ ReleaseStorage(u) \/ Reload(u) \/ Exchange(u)
RefNext == \E u \in Users : \/ CopyPtr(u) \/ ReleasePtr(u) \/ ReleaseWeak(u)
                         \/ MakeWeak(u) \/ Load(u) \/ UserStep(u)

RefSpec == RefInit /\ [][RefNext]_refVars

-----------------------------------------------------------------------------
\* The assertion of removeRef: a counter is positive when it is decremented.
NeverBelowZero == ~underflow

\* Whatever threads copy, acquire, downgrade and give back at once, a Ptr refers
\* to a live instance in allocated storage and a WeakPtr to allocated storage;
\* when nobody is inside an operation and none is left, both are gone; and no
\* counter goes below zero.  The one thing that can break it is an acquisition
\* whose two loads differ and whose exchange succeeds all the same.
Idle == \A u \in Users : doing[u] = "idle"
HoldersKeepAlive ==
  ~miscounted =>
    /\ \A u \in Users : strong[u] > 0 => instance = "alive" /\ storage = "allocated"
    /\ \A u \in Users : weak[u] => storage = "allocated"
    /\ Idle /\ (\A u \in Users : strong[u] = 0) => instance = "destroyed"
    /\ Idle /\ (\A u \in Users : strong[u] = 0 /\ ~weak[u]) => storage = "freed"
    /\ NeverBelowZero

=============================================================================
