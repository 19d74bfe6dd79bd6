----------------------------- MODULE ThreadPool -----------------------------
(***************************************************************************)
(* ThreadPoolExecutor (src/async/thread_pool_executor.cpp): the default    *)
(* executor.  Clients acquire the executor, hand it invocations and let it *)
(* go; workers take the invocations from a vector guarded by a mutex, and  *)
(* an invocation may hand over a follow-up before it ends (a coroutine     *)
(* that awaits the pool again).  The owner watches the counter of works    *)
(* and the references the way KernelRuntimeImpl::shutdownStep does, then   *)
(* drops the executor; whoever drops the last reference runs the           *)
(* destructor, which joins the workers.                                    *)
(***************************************************************************)
EXTENDS Naturals, Sequences, FiniteSets

CONSTANTS Workers,      \* the pool's threads
          Clients,      \* other threads, each with one invocation to hand over
          Nobody        \* no thread, no invocation

Owner == "owner"
Threads == Workers \cup Clients \cup {Owner}

\* A client's invocation and the follow-up the invocation may hand over.
Invocations == [by : Clients, part : {"first", "followup"}]

\* What the constants must satisfy.
ThreadsAssumption ==
  /\ Workers # {} /\ IsFiniteSet(Workers) /\ IsFiniteSet(Clients)
  /\ Workers \cap Clients = {} /\ Owner \notin Workers \cup Clients
  /\ Nobody \notin Threads \cup Invocations

VARIABLES
  isActive,     \* m_isActive
  invocations,  \* m_invocations
  mutex,        \* the thread that holds m_mutex
  taskCounter,  \* m_taskCounter
  refs,         \* who holds a reference to the executor
  isDefault,    \* may the executor still be acquired through s_defaultExecutor
  pc,           \* where each thread is
  held,         \* the invocation a thread is handing over or running
  started       \* how many times each invocation has been run

vars == <<isActive, invocations, mutex, taskCounter, refs, isDefault, pc, held,
          started>>

WorkerLocs == {"lock", "look", "enterWait", "waiting", "woken", "recheck",
               "run", "finish", "exited"}
ScheduleLocs == {"count", "push", "pushLocked"}
ReleaseLocs == {"release", "deactivate", "notifyAll", "join", "destroyed", "done"}
ClientLocs == {"acquire"} \cup ScheduleLocs \cup ReleaseLocs
OwnerLocs == {"checkWorks", "checkRefs", "forget"} \cup ReleaseLocs

Init ==
  /\ isActive = TRUE
  /\ invocations = << >>
  /\ mutex = Nobody
  /\ taskCounter = 0
  /\ refs = {Owner}
  /\ isDefault = TRUE
  /\ pc = [t \in Threads |-> IF t \in Workers THEN "lock"
                             ELSE IF t \in Clients THEN "acquire"
                             ELSE "checkWorks"]
  /\ held = [t \in Threads |-> Nobody]
  /\ started = [i \in Invocations |-> 0]

Goto(t, from, to) ==
  /\ pc[t] = from
  /\ pc' = [pc EXCEPT ![t] = to]

\* m_signal.notify_all(), by a thread that goes on to location to.
NotifyAllAndGoto(t, from, to) ==
  /\ pc[t] = from
  /\ pc' = [u \in Threads |-> IF u = t THEN to
                              ELSE IF pc[u] = "waiting" THEN "woken" ELSE pc[u]]

\* eraseInvocation of the head: the last invocation is moved into its place.
WithoutHead(q) ==
  IF Len(q) = 1 THEN << >> ELSE <<q[Len(q)]>> \o SubSeq(q, 2, Len(q) - 1)

-----------------------------------------------------------------------------
(* scheduleInvocation, by a client or by the invocation a worker is running *)

Count(t) ==
  /\ Goto(t, "count", "push")
  /\ taskCounter' = taskCounter + 1
  /\ UNCHANGED <<isActive, invocations, mutex, refs, isDefault, held, started>>

LockPush(t) ==
  /\ Goto(t, "push", "pushLocked")
  /\ mutex = Nobody
  /\ mutex' = t
  /\ UNCHANGED <<isActive, invocations, taskCounter, refs, isDefault, held, started>>

FollowUp(i) == [i EXCEPT !.part = "followup"]

\* What a thread hands over: a client its first invocation, a worker the
\* follow-up of the one it is running.
Handed(t) == IF t \in Workers THEN FollowUp(held[t]) ELSE held[t]

\* A mutant of Push: the waiting workers are not notified.
PushUnnotified(t) ==
  /\ Goto(t, "pushLocked", IF t \in Workers THEN "finish" ELSE "release")
  /\ mutex' = Nobody
  /\ invocations' = Append(invocations, Handed(t))
  /\ held' = IF t \in Workers THEN held ELSE [held EXCEPT ![t] = Nobody]
  /\ UNCHANGED <<isActive, taskCounter, refs, isDefault, started>>

Push(t) ==
  /\ NotifyAllAndGoto(t, "pushLocked", IF t \in Workers THEN "finish" ELSE "release")
  /\ mutex' = Nobody
  /\ invocations' = Append(invocations, Handed(t))
  /\ held' = IF t \in Workers THEN held ELSE [held EXCEPT ![t] = Nobody]
  /\ UNCHANGED <<isActive, taskCounter, refs, isDefault, started>>

Schedule(t) == Count(t) \/ LockPush(t) \/ Push(t)

-----------------------------------------------------------------------------
(* getOrWaitNextInvocation and threadWork *)

Lock(w) ==
  /\ Goto(w, "lock", "look")
  /\ mutex = Nobody
  /\ mutex' = w
  /\ UNCHANGED <<isActive, invocations, taskCounter, refs, isDefault, held, started>>

\* The head is moved out and the loop left, active or not.
TakeHead(w) ==
  /\ Goto(w, "look", "run")
  /\ invocations # << >>
  /\ held' = [held EXCEPT ![w] = Head(invocations)]
  /\ invocations' = WithoutHead(invocations)
  /\ mutex' = Nobody
  /\ UNCHANGED <<isActive, taskCounter, refs, isDefault, started>>

\* Nothing to do: wait while the pool is active, leave the thread otherwise.
LookActive(w) ==
  /\ Goto(w, "look", "enterWait")
  /\ invocations = << >>
  /\ isActive
  /\ UNCHANGED <<isActive, invocations, mutex, taskCounter, refs, isDefault, held,
                 started>>

LookInactive(w) ==
  /\ Goto(w, "look", "exited")
  /\ invocations = << >>
  /\ ~isActive
  /\ mutex' = Nobody
  /\ UNCHANGED <<isActive, invocations, taskCounter, refs, isDefault, held, started>>

\* m_signal.wait(lock) gives the mutex up and starts to wait in one step, but
\* m_isActive, read before, is not guarded by the mutex.
EnterWait(w) ==
  /\ Goto(w, "enterWait", "waiting")
  /\ mutex' = Nobody
  /\ UNCHANGED <<isActive, invocations, taskCounter, refs, isDefault, held, started>>

SpuriousWakeup(w) ==
  /\ Goto(w, "waiting", "woken")
  /\ UNCHANGED <<isActive, invocations, mutex, taskCounter, refs, isDefault, held,
                 started>>

Relock(w) ==
  /\ Goto(w, "woken", "recheck")
  /\ mutex = Nobody
  /\ mutex' = w
  /\ UNCHANGED <<isActive, invocations, taskCounter, refs, isDefault, held, started>>

\* The loop's condition: a worker woken while the pool shuts down leaves
\* without a look at the queue.
RecheckActive(w) ==
  /\ Goto(w, "recheck", "look")
  /\ isActive
  /\ UNCHANGED <<isActive, invocations, mutex, taskCounter, refs, isDefault, held,
                 started>>

RecheckInactive(w) ==
  /\ Goto(w, "recheck", "exited")
  /\ ~isActive
  /\ mutex' = Nobody
  /\ UNCHANGED <<isActive, invocations, taskCounter, refs, isDefault, held, started>>

\* A mutant of Run: the counter is taken down before the invocation is run.
FinishThenRun(w) ==
  /\ pc[w] = "run"
  /\ held[w].part = "first" /\ Goto(w, "run", "count")
  /\ taskCounter' = taskCounter - 1
  /\ started' = [started EXCEPT ![held[w]] = @ + 1]
  /\ UNCHANGED <<isActive, invocations, mutex, refs, isDefault, held>>

\* The invocation runs; it may hand over a follow-up before it ends.
Run(w) ==
  /\ pc[w] = "run"
  /\ \/ Goto(w, "run", "finish")
     \/ held[w].part = "first" /\ Goto(w, "run", "count")
  /\ started' = [started EXCEPT ![held[w]] = @ + 1]
  /\ UNCHANGED <<isActive, invocations, mutex, taskCounter, refs, isDefault, held>>

\* scope_on_leave in threadWork.
Finish(w) ==
  /\ Goto(w, "finish", "lock")
  /\ taskCounter' = taskCounter - 1
  /\ held' = [held EXCEPT ![w] = Nobody]
  /\ UNCHANGED <<isActive, invocations, mutex, refs, isDefault, started>>

Work(w) ==
  \/ Lock(w) \/ TakeHead(w) \/ LookActive(w) \/ LookInactive(w) \/ EnterWait(w)
  \/ Relock(w) \/ RecheckActive(w) \/ RecheckInactive(w) \/ Run(w) \/ Finish(w)

-----------------------------------------------------------------------------
(* References and the destructor *)

\* Executor::getDefault: a weak reference that is there or is not.
Acquire(c) ==
  /\ pc[c] = "acquire"
  /\ IF isDefault /\ refs # {}
       THEN /\ Goto(c, "acquire", "count")
            /\ refs' = refs \cup {c}
            /\ held' = [held EXCEPT ![c] = [by |-> c, part |-> "first"]]
       ELSE /\ Goto(c, "acquire", "done")
            /\ UNCHANGED <<refs, held>>
  /\ UNCHANGED <<isActive, invocations, mutex, taskCounter, isDefault, started>>

Release(t) ==
  /\ Goto(t, "release", IF refs = {t} THEN "deactivate" ELSE "done")
  /\ refs' = refs \ {t}
  /\ UNCHANGED <<isActive, invocations, mutex, taskCounter, isDefault, held, started>>

\* join(): without the mutex.
Deactivate(t) ==
  /\ Goto(t, "deactivate", "notifyAll")
  /\ isActive' = FALSE
  /\ UNCHANGED <<invocations, mutex, taskCounter, refs, isDefault, held, started>>

NotifyAll(t) ==
  /\ NotifyAllAndGoto(t, "notifyAll", "join")
  /\ UNCHANGED <<isActive, invocations, mutex, taskCounter, refs, isDefault, held,
                 started>>

Join(t) ==
  /\ Goto(t, "join", "destroyed")
  /\ \A w \in Workers : pc[w] = "exited"
  /\ UNCHANGED <<isActive, invocations, mutex, taskCounter, refs, isDefault, held,
                 started>>

LetGo(t) == Release(t) \/ Deactivate(t) \/ NotifyAll(t) \/ Join(t)

\* hasWorks, asked over and over by the runtime's shutdown.
CheckWorks ==
  /\ Goto(Owner, "checkWorks", "checkRefs")
  /\ taskCounter = 0
  /\ UNCHANGED <<isActive, invocations, mutex, taskCounter, refs, isDefault, held,
                 started>>

\* getRefsCount.
CheckRefs ==
  /\ Goto(Owner, "checkRefs", IF refs = {Owner} THEN "forget" ELSE "checkWorks")
  /\ UNCHANGED <<isActive, invocations, mutex, taskCounter, refs, isDefault, held,
                 started>>

\* Executor::setDefault(nullptr).
Forget ==
  /\ Goto(Owner, "forget", "release")
  /\ isDefault' = FALSE
  /\ UNCHANGED <<isActive, invocations, mutex, taskCounter, refs, held, started>>

ThreadStep(t) ==
  \/ t \in Workers /\ Work(t)
  \/ t \in Clients /\ Acquire(t)
  \/ t = Owner /\ (CheckWorks \/ CheckRefs \/ Forget)
  \/ Schedule(t)
  \/ LetGo(t)

Next ==
  \/ \E t \in Threads : ThreadStep(t)
  \/ \E w \in Workers : SpuriousWakeup(w)

Spec == Init /\ [][Next]_vars

\* The operating system runs every thread that can go on.  A mutex is not
\* handed out in turn, but the workers want it again only after they have
\* waited or run an invocation; nothing makes a spurious wake-up happen.
FairSpec == Spec /\ \A t \in Threads : SF_vars(ThreadStep(t))

-----------------------------------------------------------------------------
(* Properties *)

\* The type invariant: the pool's fields, where each thread is and what it holds.
TypeOK ==
  /\ isActive \in BOOLEAN
  /\ invocations \in Seq(Invocations)
  /\ mutex \in Threads \cup {Nobody}
  /\ taskCounter \in Nat
  /\ refs \subseteq Clients \cup {Owner}
  /\ isDefault \in BOOLEAN
  /\ pc \in [Threads -> WorkerLocs \cup ClientLocs \cup OwnerLocs]
  /\ held \in [Threads -> Invocations \cup {Nobody}]
  /\ started \in [Invocations -> Nat]

Running(t) == t \in Workers /\ held[t] # Nobody

\* Threads between the counter's increment and the push.
Pushing(t) == pc[t] \in {"push", "pushLocked"}

\* hasWorks() is the runtime's only evidence that the pool is idle: the counter
\* counts what is queued, what is running and what is about to be queued, so
\* that it is never zero while there is something left to do, not even between
\* an invocation and its follow-up.
CounterCountsWorks ==
  taskCounter = Cardinality({t \in Threads : Running(t)})
                + Cardinality({t \in Threads : Pushing(t)})
                + Len(invocations)

\* An invocation is run once: it is in the queue or with one worker, and never
\* comes back once it has been started.
RunsOnce ==
  /\ \A i \in Invocations : started[i] <= 1
  /\ \A j, k \in 1..Len(invocations) : invocations[j] = invocations[k] => j = k
  /\ \A j \in 1..Len(invocations) : started[invocations[j]] = 0

\* The destructor has returned: no worker is left that could touch the pool.
NothingRunsAfterDestruction ==
  \A t \in Threads : pc[t] = "destroyed" =>
    /\ \A w \in Workers : pc[w] = "exited"
    /\ \A c \in Clients : ~Pushing(c)
    /\ mutex = Nobody

\* An invocation that is queued while the pool stays active is run.  (A worker
\* that is woken while the pool is being destroyed leaves it in the queue.)
QueuedIsRun ==
  \A i \in Invocations :
    (\E j \in 1..Len(invocations) : invocations[j] = i) ~> (started[i] = 1 \/ ~isActive)

\* join() ends if no worker is between its look at m_isActive and its wait when
\* m_isActive has been cleared.  Such a worker, and no other, may miss the
\* notification, which is given without the mutex, and block join() for ever.
JoinEnds ==
  (\E t \in Threads : pc[t] = "notifyAll" /\ \A w \in Workers : pc[w] # "enterWait")
    ~> (\E t \in Threads : pc[t] = "destroyed")

=============================================================================
