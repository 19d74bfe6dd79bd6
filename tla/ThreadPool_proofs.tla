------------------------- MODULE ThreadPool_proofs --------------------------
(***************************************************************************)
(* Proofs about ThreadPool, for any finite numbers of workers and clients. *)
(* The inductive invariant IInv says who holds the mutex, an invocation    *)
(* and a reference, where an invocation may be that has not been run, and  *)
(* what the destructor has found.                                          *)
(***************************************************************************)
EXTENDS ThreadPool, FiniteSetTheorems, SequenceTheorems, TLAPS

\* In which places a thread has the mutex, and who is in scheduleInvocation.
Locking == {"look", "enterWait", "recheck", "pushLocked"}
Destroying == {"deactivate", "notifyAll", "join", "destroyed"}

PlacesInv ==
  /\ \A w \in Workers : pc[w] \in WorkerLocs \cup ScheduleLocs
  /\ \A c \in Clients : pc[c] \in ClientLocs
  /\ pc[Owner] \in OwnerLocs

\* The mutex has one holder, and that one knows it.
MutexInv == \A t \in Threads : pc[t] \in Locking <=> mutex = t

\* A worker has an invocation from taking it to the end of it, a client the
\* one it hands over; only a first invocation hands over a follow-up.
HeldInv ==
  /\ \A w \in Workers : held[w] # Nobody <=> pc[w] \in {"run", "finish"} \cup ScheduleLocs
  /\ \A w \in Workers : pc[w] \in ScheduleLocs => held[w].part = "first"
  /\ \A c \in Clients :
       held[c] = IF pc[c] \in ScheduleLocs THEN [by |-> c, part |-> "first"] ELSE Nobody

\* A reference is had as long as the executor is used; whoever lets the last
\* one go is alone in the destructor.
RefsInv ==
  /\ \A c \in Clients : c \in refs <=> pc[c] \in ScheduleLocs \cup {"release"}
  /\ Owner \in refs <=> pc[Owner] \in {"checkWorks", "checkRefs", "forget", "release"}
  /\ \A t \in Clients \cup {Owner} : pc[t] \in Destroying => refs = {}

\* The destructor returns when the workers have left.
JoinedInv == \A t \in Threads : pc[t] = "destroyed" => \A w \in Workers : pc[w] = "exited"

Holds(q, i) == \E j \in 1..Len(q) : q[j] = i
Distinct(q) == \A j, k \in 1..Len(q) : q[j] = q[k] => j = k

Queued(i) == Holds(invocations, i)
Unbegun(i) == started[i] = 0 /\ ~Queued(i) /\ \A w \in Workers : held[w] # i

First(c) == [by |-> c, part |-> "first"]
Second(c) == [by |-> c, part |-> "followup"]

\* Before it is pushed an invocation is nowhere, afterwards in one place; it
\* has been started by the worker that is past "run" with it, and by no other.
InvocationsInv ==
  /\ \A c \in Clients : pc[c] \in {"acquire"} \cup ScheduleLocs => Unbegun(First(c))
  /\ \A c \in Clients : started[First(c)] = 0 => Unbegun(Second(c))
  /\ \A w \in Workers : pc[w] = "run" => started[held[w]] = 0
  /\ \A w \in Workers, c \in Clients : pc[w] \in ScheduleLocs /\ held[w] = First(c) =>
       started[First(c)] = 1 /\ Unbegun(Second(c))
  /\ \A v, w \in Workers : held[v] = held[w] /\ held[w] # Nobody => v = w
  /\ \A i \in Invocations : Queued(i) => \A w \in Workers : held[w] # i

IInv ==
  /\ TypeOK /\ PlacesInv /\ MutexInv /\ HeldInv /\ RefsInv /\ JoinedInv
  /\ InvocationsInv /\ CounterCountsWorks /\ RunsOnce

-----------------------------------------------------------------------------
(* The queue *)

\* The last invocation takes the place of the head, the others stay.
LEMMA WithoutHeadAt ==
  ASSUME NEW S, NEW q \in Seq(S), q # << >>
  PROVE  /\ WithoutHead(q) \in Seq(S)
         /\ Len(WithoutHead(q)) = Len(q) - 1
         /\ \A j \in 1..(Len(q) - 1) : WithoutHead(q)[j] = IF j = 1 THEN q[Len(q)] ELSE q[j]
<1>1. Len(q) \in Nat \ {0}
  BY EmptySeq
<1>2. CASE Len(q) = 1
  BY <1>2, EmptySeq DEF WithoutHead
<1>3. CASE Len(q) # 1
  <2> DEFINE rest == SubSeq(q, 2, Len(q) - 1)
  <2>1. \A j \in 2..(Len(q) - 1) : q[j] \in S
    BY <1>1, ElementOfSeq
  <2>2. /\ rest \in Seq(S)
        /\ Len(rest) = Len(q) - 2
        /\ \A j \in 1..(Len(q) - 2) : rest[j] = q[j + 1]
    <3> DEFINE n == Len(q) - 1
    <3>1. n \in Int /\ n >= 1 /\ n - 2 + 1 = Len(q) - 2
      <4>1. ASSUME NEW l \in Nat \ {0}, l # 1
            PROVE  l - 1 \in Int /\ l - 1 >= 1 /\ l - 1 - 2 + 1 = l - 2
        BY <4>1
      <4> QED BY <1>1, <1>3, <4>1 DEF n
    <3>2. /\ SubSeq(q, 2, n) \in Seq(S)
          /\ Len(SubSeq(q, 2, n)) = IF 2 <= n THEN n - 2 + 1 ELSE 0
          /\ \A j \in 1..(n - 2 + 1) : SubSeq(q, 2, n)[j] = q[2 + j - 1]
      <4> HIDE DEF n
      <4>1. \A j \in 2..n : q[j] \in S
        BY <2>1 DEF n
      <4> QED BY <3>1, <4>1, SubSeqProperties
    <3>3. \A j \in 1..(Len(q) - 2) : 2 + j - 1 = j + 1
      BY <1>1
    <3> QED BY <3>1, <3>2, <3>3
  <2>3. <<q[Len(q)]>> \in Seq(S) /\ Len(<<q[Len(q)]>>) = 1
    BY <1>1, ElementOfSeq
  <2>4. WithoutHead(q) = <<q[Len(q)]>> \o rest
    BY <1>3 DEF WithoutHead
  <2> HIDE DEF rest
  <2>5. /\ WithoutHead(q) \in Seq(S)
        /\ Len(WithoutHead(q)) = 1 + Len(rest)
        /\ \A j \in 1..(1 + Len(rest)) :
             WithoutHead(q)[j] = IF j <= 1 THEN <<q[Len(q)]>>[j] ELSE rest[j - 1]
    BY <2>2, <2>3, <2>4, ConcatProperties
  <2> QED BY <1>1, <1>3, <2>2, <2>5
<1> QED BY <1>2, <1>3

\* Taking the head takes the head only.
LEMMA HeadTaken ==
  ASSUME NEW S, NEW q \in Seq(S), q # << >>, Distinct(q)
  PROVE  /\ Distinct(WithoutHead(q))
         /\ \A i : Holds(WithoutHead(q), i) <=> Holds(q, i) /\ i # Head(q)
         /\ Holds(q, Head(q))
<1> DEFINE r == WithoutHead(q)
<1>1. /\ Len(q) \in Nat \ {0} /\ Len(r) = Len(q) - 1 /\ Head(q) = q[1]
      /\ \A j \in 1..(Len(q) - 1) : r[j] = IF j = 1 THEN q[Len(q)] ELSE q[j]
  BY EmptySeq, WithoutHeadAt
<1> HIDE DEF r
<1>2. Distinct(r)
  BY <1>1 DEF Distinct
<1>3. ASSUME NEW i PROVE Holds(r, i) <=> Holds(q, i) /\ i # Head(q)
  <2>1. ASSUME Holds(r, i) PROVE Holds(q, i) /\ i # Head(q)
    BY <1>1, <2>1 DEF Holds, Distinct
  <2>2. ASSUME Holds(q, i), i # Head(q) PROVE Holds(r, i)
    <3>1. PICK j \in 1..Len(q) : q[j] = i
      BY <2>2 DEF Holds
    <3>2. j # 1
      BY <1>1, <2>2, <3>1
    <3>3. CASE j = Len(q)
      BY <1>1, <3>1, <3>2, <3>3 DEF Holds
    <3>4. CASE j # Len(q)
      BY <1>1, <3>1, <3>2, <3>4 DEF Holds
    <3> QED BY <3>3, <3>4
  <2> QED BY <2>1, <2>2
<1>4. Holds(q, Head(q))
  BY <1>1 DEF Holds
<1> QED BY <1>2, <1>3, <1>4 DEF r

\* Appending what is not there appends it only.
LEMMA Appended ==
  ASSUME NEW S, NEW q \in Seq(S), Distinct(q), NEW e \in S, ~Holds(q, e)
  PROVE  /\ Append(q, e) \in Seq(S) /\ Len(Append(q, e)) = Len(q) + 1
         /\ Distinct(Append(q, e))
         /\ \A i : Holds(Append(q, e), i) <=> Holds(q, i) \/ i = e
<1> DEFINE r == Append(q, e)
<1>1. /\ Len(q) \in Nat /\ r \in Seq(S) /\ Len(r) = Len(q) + 1
      /\ \A j \in 1..Len(q) : r[j] = q[j]
      /\ r[Len(q) + 1] = e
  BY LenProperties, AppendProperties
<1> HIDE DEF r
<1>2. Distinct(r)
  BY <1>1 DEF Distinct, Holds
<1>3. ASSUME NEW i PROVE Holds(r, i) <=> Holds(q, i) \/ i = e
  <2>1. ASSUME Holds(r, i) PROVE Holds(q, i) \/ i = e
    BY <1>1, <2>1 DEF Holds
  <2>2. ASSUME Holds(q, i) \/ i = e PROVE Holds(r, i)
    BY <1>1, <2>2 DEF Holds
  <2> QED BY <2>1, <2>2
<1> QED BY <1>1, <1>2, <1>3 DEF r

-----------------------------------------------------------------------------
(* The counter *)

\* How a set of threads grows and shrinks.
LEMMA ThreadsCounted ==
  ASSUME ThreadsAssumption, NEW S \in SUBSET Threads, NEW t \in Threads
  PROVE  /\ Cardinality(S) \in Nat
         /\ t \notin S => Cardinality(S \cup {t}) = Cardinality(S) + 1
         /\ t \in S => Cardinality(S \ {t}) = Cardinality(S) - 1 /\ Cardinality(S) >= 1
<1>1. IsFiniteSet(Threads)
  <2>1. IsFiniteSet(Workers \cup Clients)
    BY FS_Union DEF ThreadsAssumption
  <2> QED BY <2>1, FS_AddElement DEF Threads
<1>2. IsFiniteSet(S) /\ Cardinality(S) \in Nat
  BY <1>1, FS_Subset, FS_CardinalityType
<1>3. t \notin S => Cardinality(S \cup {t}) = Cardinality(S) + 1
  BY <1>2, FS_AddElement
<1>4. t \in S => Cardinality(S \ {t}) = Cardinality(S) - 1
  BY <1>2, FS_RemoveElement
<1>5. t \in S => Cardinality(S \ {t}) \in Nat
  BY <1>2, FS_RemoveElement, FS_CardinalityType
<1>6. t \in S => Cardinality(S) >= 1
  BY <1>2, <1>4, <1>5
<1> QED BY <1>2, <1>3, <1>4, <1>6

\* The same, for a set that a step makes of another one.
LEMMA StepCounted ==
  ASSUME ThreadsAssumption, NEW S \in SUBSET Threads, NEW T, NEW t \in Threads,
         NEW d \in {-1, 0, 1},
         d = -1 => T = S \ {t} /\ t \in S,
         d = 0 => T = S,
         d = 1 => T = S \cup {t} /\ t \notin S
  PROVE  Cardinality(S) \in Nat /\ Cardinality(T) = Cardinality(S) + d
<1>1. Cardinality(S) \in Nat
  BY ThreadsCounted
<1>2. d = -1 => Cardinality(T) = Cardinality(S) - 1
  BY ThreadsCounted
<1>3. d = 1 => Cardinality(T) = Cardinality(S) + 1
  BY ThreadsCounted
<1> QED BY <1>1, <1>2, <1>3

RunningThreads == {t \in Threads : Running(t)}
PushingThreads == {t \in Threads : Pushing(t)}

\* The counter is right after a step that moves it with the threads that run
\* and push and with the queue.
LEMMA CounterKept ==
  ASSUME ThreadsAssumption, IInv, NEW t \in Threads,
         NEW r \in {-1, 0, 1}, NEW p \in {-1, 0, 1}, NEW l \in {-1, 0, 1},
         \A u \in Threads \ {t} : /\ Running(u)' <=> Running(u)
                                  /\ Pushing(u)' <=> Pushing(u),
         r = -1 => Running(t) /\ ~Running(t)',
         r = 0 => (Running(t)' <=> Running(t)),
         r = 1 => ~Running(t) /\ Running(t)',
         p = -1 => Pushing(t) /\ ~Pushing(t)',
         p = 0 => (Pushing(t)' <=> Pushing(t)),
         p = 1 => ~Pushing(t) /\ Pushing(t)',
         Len(invocations)' = Len(invocations) + l,
         taskCounter' = taskCounter + r + p + l
  PROVE  /\ CounterCountsWorks'
         /\ Running(t) => taskCounter >= 1
<1> DEFINE R == Cardinality(RunningThreads)
           P == Cardinality(PushingThreads)
<1>1. Len(invocations) \in Nat /\ taskCounter = R + P + Len(invocations) /\ taskCounter \in Nat
  BY LenProperties DEF IInv, TypeOK, CounterCountsWorks, RunningThreads, PushingThreads
<1>2. R \in Nat /\ R' = R + r
  <2>1. /\ r = -1 => RunningThreads' = RunningThreads \ {t} /\ t \in RunningThreads
        /\ r = 0 => RunningThreads' = RunningThreads
        /\ r = 1 => RunningThreads' = RunningThreads \cup {t} /\ t \notin RunningThreads
    BY DEF RunningThreads
  <2>2. RunningThreads \in SUBSET Threads
    BY DEF RunningThreads
  <2> QED BY <2>1, <2>2, StepCounted
<1>3. P \in Nat /\ P' = P + p
  <2>1. /\ p = -1 => PushingThreads' = PushingThreads \ {t} /\ t \in PushingThreads
        /\ p = 0 => PushingThreads' = PushingThreads
        /\ p = 1 => PushingThreads' = PushingThreads \cup {t} /\ t \notin PushingThreads
    BY DEF PushingThreads
  <2>2. PushingThreads \in SUBSET Threads
    BY DEF PushingThreads
  <2> QED BY <2>1, <2>2, StepCounted
<1>4. CounterCountsWorks' <=> taskCounter' = R' + P' + Len(invocations)'
  BY DEF CounterCountsWorks, RunningThreads, PushingThreads
<1> HIDE DEF R, P
<1>5. taskCounter' = R' + P' + Len(invocations)'
  BY <1>1, <1>2, <1>3
<1>6. Running(t) => taskCounter >= 1
  <2>1. ASSUME Running(t) PROVE R >= 1
    <3>1. RunningThreads \in SUBSET Threads /\ t \in RunningThreads
      BY <2>1 DEF RunningThreads
    <3> QED BY <3>1, ThreadsCounted DEF R
  <2> QED BY <1>1, <1>2, <1>3, <2>1
<1> QED BY <1>4, <1>5, <1>6

-----------------------------------------------------------------------------
(* Steps that hand over, take, run and finish nothing *)

SamePlace(t, L) == pc'[t] \in L <=> pc[t] \in L

\* They keep all that is said of the invocations.
LEMMA IdleKeeps ==
  ASSUME IInv, TypeOK', UNCHANGED <<invocations, held, started>>,
         \A t \in Threads : /\ SamePlace(t, ScheduleLocs) /\ SamePlace(t, {"run"})
                            /\ SamePlace(t, {"finish"}) /\ SamePlace(t, {"acquire"})
  PROVE  HeldInv' /\ InvocationsInv' /\ RunsOnce'
<1> USE DEF SamePlace, Threads
<1>1. HeldInv'
  BY DEF IInv, HeldInv
<1>2. InvocationsInv'
  BY DEF IInv, InvocationsInv, Unbegun, Queued, Holds
<1>3. RunsOnce'
  BY DEF IInv, RunsOnce
<1> QED BY <1>1, <1>2, <1>3

\* The counter is left alone with all it counts.
LEMMA IdleCounter ==
  ASSUME IInv, UNCHANGED <<invocations, held, taskCounter>>,
         \A t \in Threads : SamePlace(t, {"push", "pushLocked"})
  PROVE  CounterCountsWorks'
<1>1. \A t \in Threads : (Running(t)' <=> Running(t)) /\ (Pushing(t)' <=> Pushing(t))
  BY DEF Running, Pushing, SamePlace
<1> QED BY <1>1 DEF IInv, CounterCountsWorks

\* Taking, giving up and asking for the mutex, and waiting for the signal.
LEMMA LockingKeepsIInv ==
  ASSUME ThreadsAssumption, IInv, NEW t \in Threads,
         \/ LockPush(t)
         \/ t \in Workers /\ \/ Lock(t) \/ LookActive(t) \/ LookInactive(t) \/ EnterWait(t)
                             \/ SpuriousWakeup(t) \/ Relock(t) \/ RecheckActive(t) \/ RecheckInactive(t)
  PROVE  IInv'
<1> USE DEF Goto, Threads
<1>1. /\ UNCHANGED <<isActive, invocations, taskCounter, refs, isDefault, held, started>>
      /\ pc' = [pc EXCEPT ![t] = pc'[t]] /\ pc[t] # pc'[t]
      /\ \A u \in Threads \ {t} : pc'[u] = pc[u]
      /\ \/ pc[t] = "push" /\ pc'[t] = "pushLocked" /\ mutex = Nobody /\ mutex' = t
         \/ pc[t] \in {"lock", "woken"} /\ pc'[t] \in {"look", "recheck"} /\ mutex = Nobody /\ mutex' = t
         \/ pc[t] \in {"look", "recheck"} /\ pc'[t] \in {"enterWait", "look"} /\ mutex' = mutex
         \/ pc[t] \in {"look", "recheck", "enterWait"} /\ pc'[t] \in {"exited", "waiting"} /\ mutex' = Nobody
         \/ pc[t] = "waiting" /\ pc'[t] = "woken" /\ mutex' = mutex
  BY DEF IInv, TypeOK, LockPush, Lock, LookActive, LookInactive, EnterWait, SpuriousWakeup, Relock,
         RecheckActive, RecheckInactive
<1>2. t \in Workers \/ (t \in Clients /\ pc[t] = "push")
  BY DEF IInv, PlacesInv, LockPush, OwnerLocs, ReleaseLocs
<1>3. TypeOK'
  BY <1>1 DEF IInv, TypeOK, WorkerLocs, ClientLocs, OwnerLocs, ScheduleLocs
<1>4. PlacesInv'
  BY <1>1, <1>2 DEF IInv, PlacesInv, ThreadsAssumption, WorkerLocs, ClientLocs, ScheduleLocs
<1>5. MutexInv'
  BY <1>1, <1>3 DEF IInv, MutexInv, TypeOK, Locking, ThreadsAssumption
<1>6. RefsInv'
  BY <1>1, <1>2 DEF IInv, RefsInv, ThreadsAssumption, ScheduleLocs, Destroying
<1>7. JoinedInv'
  BY <1>1 DEF IInv, JoinedInv
<1>8. \A u \in Threads : /\ SamePlace(u, ScheduleLocs) /\ SamePlace(u, {"push", "pushLocked"})
                         /\ SamePlace(u, {"run"}) /\ SamePlace(u, {"finish"})
                         /\ SamePlace(u, {"acquire"})
  BY <1>1 DEF SamePlace, ScheduleLocs
<1>9. CounterCountsWorks'
  BY <1>1, <1>8, IdleCounter
<1>10. HeldInv' /\ InvocationsInv' /\ RunsOnce'
  BY <1>1, <1>3, <1>8, IdleKeeps
<1> QED BY <1>3, <1>4, <1>5, <1>6, <1>7, <1>9, <1>10 DEF IInv

\* The owner's questions and letting go of the executor.
LEMMA LettingGoKeepsIInv ==
  ASSUME ThreadsAssumption, IInv, NEW t \in Threads,
         LetGo(t) \/ (t = Owner /\ (CheckWorks \/ CheckRefs \/ Forget))
  PROVE  IInv'
<1> USE DEF Threads
<1> DEFINE Before == {"checkWorks", "checkRefs", "forget"}
<1>1. /\ UNCHANGED <<invocations, mutex, taskCounter, held, started>>
      /\ pc[t] \in OwnerLocs /\ pc'[t] \in OwnerLocs
      /\ \A u \in Threads \ {t} : pc'[u] = pc[u] \/ (pc[u] = "waiting" /\ pc'[u] = "woken")
      /\ pc' = [u \in Threads |-> pc'[u]] /\ isActive' \in BOOLEAN /\ isDefault' \in BOOLEAN
      /\ \/ t = Owner /\ pc[t] \in Before /\ pc'[t] \in Before \cup {"release"} /\ refs' = refs
         \/ /\ pc[t] = "release" /\ refs' = refs \ {t}
            /\ \/ pc'[t] = "deactivate" /\ refs = {t}
               \/ pc'[t] = "done" /\ refs # {t}
         \/ /\ pc[t] \in Destroying \ {"destroyed"} /\ refs' = refs
            /\ \/ pc'[t] \in Destroying \ {"destroyed"}
               \/ pc'[t] = "destroyed" /\ \A w \in Workers : pc[w] = "exited"
  <2> USE DEF IInv, TypeOK, Goto, NotifyAllAndGoto, OwnerLocs, ReleaseLocs, Destroying
  <2>1. CASE Release(t)
    BY <2>1 DEF Release
  <2>2. CASE Deactivate(t)
    BY <2>2 DEF Deactivate
  <2>3. CASE NotifyAll(t)
    BY <2>3 DEF NotifyAll
  <2>4. CASE Join(t)
    BY <2>4 DEF Join
  <2>5. CASE t = Owner /\ (CheckWorks \/ CheckRefs \/ Forget)
    BY <2>5 DEF CheckWorks, CheckRefs, Forget
  <2> QED BY <2>1, <2>2, <2>3, <2>4, <2>5 DEF LetGo
<1>2. t \in Clients \cup {Owner}
  BY <1>1 DEF IInv, PlacesInv, WorkerLocs, ScheduleLocs, OwnerLocs, ReleaseLocs
<1>3. PlacesInv'
  BY <1>1, <1>2 DEF IInv, PlacesInv, ThreadsAssumption, WorkerLocs, ClientLocs, ScheduleLocs,
         OwnerLocs, ReleaseLocs, Destroying
<1>4. TypeOK'
  <2>1. \A u \in Threads : pc'[u] \in WorkerLocs \cup ClientLocs \cup OwnerLocs
    BY <1>3 DEF PlacesInv, ClientLocs
  <2> QED BY <1>1, <2>1 DEF IInv, TypeOK
<1>5. MutexInv'
  BY <1>1 DEF IInv, MutexInv, Locking, OwnerLocs, ReleaseLocs
<1>6. RefsInv'
  BY <1>1, <1>2 DEF IInv, RefsInv, PlacesInv, ThreadsAssumption, WorkerLocs, ScheduleLocs, Destroying
<1>7. JoinedInv'
  BY <1>1 DEF IInv, JoinedInv, Destroying
<1>8. \A u \in Threads : /\ SamePlace(u, ScheduleLocs) /\ SamePlace(u, {"push", "pushLocked"})
                         /\ SamePlace(u, {"run"}) /\ SamePlace(u, {"finish"})
                         /\ SamePlace(u, {"acquire"})
  BY <1>1 DEF SamePlace, ScheduleLocs, OwnerLocs, ReleaseLocs
<1>9. CounterCountsWorks'
  BY <1>1, <1>8, IdleCounter
<1>10. HeldInv' /\ InvocationsInv' /\ RunsOnce'
  BY <1>1, <1>4, <1>8, IdleKeeps
<1> QED BY <1>3, <1>4, <1>5, <1>6, <1>7, <1>9, <1>10 DEF IInv

-----------------------------------------------------------------------------
(* Steps of scheduleInvocation *)

\* The counter goes up before the invocation is in the queue.
LEMMA CountKeepsIInv ==
  ASSUME ThreadsAssumption, IInv, NEW t \in Threads, Count(t)
  PROVE  IInv'
<1> USE DEF Threads
<1>1. /\ UNCHANGED <<isActive, invocations, mutex, refs, isDefault, held, started>>
      /\ taskCounter' = taskCounter + 1 /\ pc[t] = "count" /\ pc'[t] = "push"
      /\ pc' = [pc EXCEPT ![t] = "push"] /\ \A u \in Threads \ {t} : pc'[u] = pc[u]
  BY DEF IInv, TypeOK, Count, Goto
<1>2. TypeOK'
  BY <1>1 DEF IInv, TypeOK, ClientLocs, ScheduleLocs
<1>3. PlacesInv'
  BY <1>1 DEF IInv, PlacesInv, ThreadsAssumption, WorkerLocs, ClientLocs, OwnerLocs, ReleaseLocs,
              ScheduleLocs
<1>4. MutexInv'
  BY <1>1 DEF IInv, MutexInv, Locking
<1>5. RefsInv'
  BY <1>1 DEF IInv, RefsInv, Destroying, ScheduleLocs
<1>6. JoinedInv'
  BY <1>1 DEF IInv, JoinedInv
<1>7. HeldInv' /\ InvocationsInv' /\ RunsOnce'
  <2>1. \A u \in Threads : /\ SamePlace(u, ScheduleLocs) /\ SamePlace(u, {"run"})
                           /\ SamePlace(u, {"finish"}) /\ SamePlace(u, {"acquire"})
    BY <1>1 DEF SamePlace, ScheduleLocs
  <2> QED BY <1>1, <1>2, <2>1, IdleKeeps
<1>8. CounterCountsWorks'
  <2>1. /\ \A u \in Threads \ {t} : (Running(u)' <=> Running(u)) /\ (Pushing(u)' <=> Pushing(u))
        /\ (Running(t)' <=> Running(t)) /\ ~Pushing(t) /\ Pushing(t)'
    BY <1>1 DEF Running, Pushing
  <2>2. Len(invocations)' = Len(invocations) + 0 /\ taskCounter' = taskCounter + 0 + 1 + 0
    BY <1>1, LenProperties DEF IInv, TypeOK
  <2> QED BY <2>1, <2>2, CounterKept
<1> QED BY <1>2, <1>3, <1>4, <1>5, <1>6, <1>7, <1>8 DEF IInv

\* What is handed over has not been anywhere before.
LEMMA HandedIsNew ==
  ASSUME ThreadsAssumption, IInv, NEW t \in Threads, pc[t] = "pushLocked"
  PROVE  /\ Handed(t) \in Invocations /\ Unbegun(Handed(t))
         /\ t \in Clients => Handed(t) = First(t)
         /\ t \in Workers => /\ held[t] \in Invocations /\ held[t] = First(held[t].by)
                             /\ Handed(t) = Second(held[t].by) /\ started[held[t]] = 1
<1> USE DEF Threads
<1>1. CASE t \in Workers
  <2>1. held[t] \in Invocations /\ held[t].part = "first"
    BY <1>1 DEF IInv, TypeOK, HeldInv, ScheduleLocs
  <2>2. held[t] = First(held[t].by) /\ Handed(t) = Second(held[t].by)
    BY <1>1, <2>1 DEF Handed, FollowUp, First, Second, Invocations
  <2>3. Handed(t) \in Invocations
    BY <2>1, <2>2 DEF Second, Invocations
  <2>4. held[t].by \in Clients
    BY <2>1 DEF Invocations
  <2>5. started[held[t]] = 1 /\ Unbegun(Second(held[t].by))
    BY <1>1, <2>2, <2>4 DEF IInv, InvocationsInv, ScheduleLocs
  <2> QED BY <1>1, <2>1, <2>2, <2>3, <2>5 DEF ThreadsAssumption
<1>2. CASE t \in Clients
  <2>1. held[t] = First(t) /\ Unbegun(First(t))
    BY <1>2 DEF IInv, HeldInv, InvocationsInv, ScheduleLocs, First
  <2> QED BY <1>2, <2>1 DEF ThreadsAssumption, Handed, First, Invocations
<1>3. t # Owner
  BY DEF IInv, PlacesInv, OwnerLocs, ReleaseLocs
<1> QED BY <1>1, <1>2, <1>3

\* It is in the queue afterwards, and nowhere else.
LEMMA PushKeepsIInv ==
  ASSUME ThreadsAssumption, IInv, NEW t \in Threads, Push(t)
  PROVE  IInv'
<1> USE DEF Threads
<1> DEFINE e == Handed(t)
<1>1. /\ UNCHANGED <<isActive, taskCounter, refs, isDefault, started>>
      /\ mutex' = Nobody /\ pc[t] = "pushLocked"
      /\ pc'[t] = IF t \in Workers THEN "finish" ELSE "release"
      /\ pc' = [u \in Threads |-> pc'[u]]
      /\ \A u \in Threads \ {t} : pc'[u] = pc[u] \/ (pc[u] = "waiting" /\ pc'[u] = "woken")
      /\ invocations' = Append(invocations, e)
      /\ \A w \in Workers : held'[w] = held[w]
      /\ held' \in [Threads -> Invocations \cup {Nobody}]
      /\ \A u \in Threads \ {t} : held'[u] = held[u]
      /\ t \notin Workers => held'[t] = Nobody
  BY DEF IInv, TypeOK, Push, NotifyAllAndGoto
<1>2. /\ e \in Invocations /\ Unbegun(e)
      /\ t \in Clients => e = First(t)
      /\ t \in Workers => /\ held[t] \in Invocations /\ held[t] = First(held[t].by)
                          /\ e = Second(held[t].by) /\ started[held[t]] = 1
  BY <1>1, HandedIsNew
<1> HIDE DEF e
<1>3. /\ invocations' \in Seq(Invocations) /\ Len(invocations)' = Len(invocations) + 1
      /\ Distinct(invocations') /\ \A i : Queued(i)' <=> Queued(i) \/ i = e
  <2>1. invocations \in Seq(Invocations) /\ Distinct(invocations) /\ ~Holds(invocations, e)
    BY <1>2 DEF IInv, TypeOK, RunsOnce, Distinct, Unbegun, Queued
  <2> QED BY <1>1, <1>2, <2>1, Appended DEF Queued
<1>4. t \in Workers \/ t \in Clients
  BY <1>1 DEF IInv, PlacesInv, OwnerLocs, ReleaseLocs
<1>5. PlacesInv'
  BY <1>1, <1>4 DEF IInv, PlacesInv, ThreadsAssumption, WorkerLocs, ClientLocs, ScheduleLocs,
                    OwnerLocs, ReleaseLocs
<1>6. TypeOK'
  <2>1. \A u \in Threads : pc'[u] \in WorkerLocs \cup ClientLocs \cup OwnerLocs
    BY <1>5 DEF PlacesInv, ClientLocs
  <2> QED BY <1>1, <1>3, <2>1 DEF IInv, TypeOK
<1>7. MutexInv'
  BY <1>1 DEF IInv, MutexInv, Locking, ThreadsAssumption
<1>8. HeldInv'
  BY <1>1, <1>4 DEF IInv, HeldInv, ScheduleLocs, ThreadsAssumption
<1>9. RefsInv'
  BY <1>1, <1>4 DEF IInv, RefsInv, PlacesInv, OwnerLocs, ReleaseLocs, WorkerLocs, ScheduleLocs,
                    Destroying, ThreadsAssumption
<1>10. JoinedInv'
  BY <1>1 DEF IInv, JoinedInv
<1>11. InvocationsInv'
  <2>1. \A i : i # e => (Unbegun(i)' <=> Unbegun(i))
    BY <1>1, <1>3 DEF Unbegun
  <2>2. \A c \in Clients : pc'[c] \in {"acquire"} \cup ScheduleLocs => Unbegun(First(c))'
    BY <1>1, <1>2, <1>4, <2>1 DEF IInv, InvocationsInv, ScheduleLocs, First, Second, ThreadsAssumption
  <2>3. \A c \in Clients : started'[First(c)] = 0 => Unbegun(Second(c))'
    BY <1>1, <1>2, <1>4, <2>1 DEF IInv, InvocationsInv, First, Second
  <2>4. \A w \in Workers : pc'[w] = "run" => started'[held'[w]] = 0
    BY <1>1 DEF IInv, InvocationsInv
  <2>5. \A w \in Workers, c \in Clients : pc'[w] \in ScheduleLocs /\ held'[w] = First(c) =>
          started'[First(c)] = 1 /\ Unbegun(Second(c))'
    <3> SUFFICES ASSUME NEW w \in Workers, NEW c \in Clients,
                        pc'[w] \in ScheduleLocs, held'[w] = First(c)
                 PROVE  started'[First(c)] = 1 /\ Unbegun(Second(c))'
      OBVIOUS
    <3>1. w # t /\ pc[w] \in ScheduleLocs /\ held[w] = First(c)
      BY <1>1 DEF ScheduleLocs
    <3>2. First(c) # Nobody
      BY DEF First, Invocations, ThreadsAssumption
    <3>3. Second(c) # e
      <4>1. t \in Workers => held[t] # held[w]
        BY <3>1, <3>2 DEF IInv, InvocationsInv
      <4> QED BY <1>2, <1>4, <3>1, <4>1 DEF First, Second
    <3>4. started[First(c)] = 1 /\ Unbegun(Second(c))
      BY <3>1 DEF IInv, InvocationsInv
    <3> QED BY <1>1, <2>1, <3>3, <3>4
  <2>6. \A i \in Invocations : Queued(i)' => \A w \in Workers : held'[w] # i
    BY <1>1, <1>2, <1>3 DEF IInv, InvocationsInv, Unbegun
  <2> QED BY <1>1, <2>2, <2>3, <2>4, <2>5, <2>6 DEF IInv, InvocationsInv
<1>12. CounterCountsWorks'
  <2>1. /\ \A u \in Threads \ {t} : (Running(u)' <=> Running(u)) /\ (Pushing(u)' <=> Pushing(u))
        /\ (Running(t)' <=> Running(t)) /\ Pushing(t) /\ ~Pushing(t)'
    BY <1>1 DEF Running, Pushing
  <2>2. taskCounter' = taskCounter + 0 + (-1) + 1
    BY <1>1 DEF IInv, TypeOK
  <2> QED BY <1>3, <2>1, <2>2, CounterKept
<1>13. RunsOnce'
  <2>1. \A i \in Invocations : Queued(i)' => started'[i] = 0
    BY <1>1, <1>2, <1>3 DEF IInv, RunsOnce, Queued, Holds, Unbegun
  <2> QED BY <1>1, <1>3, <1>6, <2>1 DEF IInv, RunsOnce, TypeOK, Queued, Holds, Distinct
<1> QED BY <1>5, <1>6, <1>7, <1>8, <1>9, <1>10, <1>11, <1>12, <1>13 DEF IInv

\* A client that gets the executor has its invocation from then on.
LEMMA AcquireKeepsIInv ==
  ASSUME ThreadsAssumption, IInv, NEW t \in Clients, Acquire(t)
  PROVE  IInv'
<1> USE DEF Threads
<1>1. /\ UNCHANGED <<isActive, invocations, mutex, taskCounter, isDefault, started>>
      /\ pc[t] = "acquire" /\ pc' = [pc EXCEPT ![t] = pc'[t]]
      /\ \A u \in Threads \ {t} : pc'[u] = pc[u] /\ held'[u] = held[u]
      /\ \/ pc'[t] = "count" /\ refs # {} /\ refs' = refs \cup {t} /\ held'[t] = First(t)
         \/ pc'[t] = "done" /\ refs' = refs /\ held'[t] = Nobody
      /\ held' = [held EXCEPT ![t] = held'[t]]
  BY DEF IInv, TypeOK, HeldInv, Acquire, Goto, First, ScheduleLocs
<1>2. TypeOK'
  BY <1>1 DEF IInv, TypeOK, ClientLocs, ScheduleLocs, ReleaseLocs, First, Invocations
<1>3. PlacesInv'
  BY <1>1 DEF IInv, PlacesInv, ThreadsAssumption, ClientLocs, ScheduleLocs, ReleaseLocs
<1>4. MutexInv'
  BY <1>1 DEF IInv, MutexInv, Locking
<1>5. RefsInv'
  BY <1>1 DEF IInv, RefsInv, Destroying, ScheduleLocs, ThreadsAssumption
<1>6. JoinedInv'
  BY <1>1 DEF IInv, JoinedInv, ThreadsAssumption
<1>7. HeldInv'
  BY <1>1 DEF IInv, HeldInv, First, ScheduleLocs, ThreadsAssumption
<1>8. InvocationsInv'
  <2>1. \A i : Unbegun(i)' <=> Unbegun(i)
    BY <1>1 DEF Unbegun, Queued, Holds, ThreadsAssumption
  <2> QED BY <1>1, <2>1 DEF IInv, InvocationsInv, Queued, Holds, ScheduleLocs, ThreadsAssumption
<1>9. CounterCountsWorks'
  <2>1. \A u \in Threads : (Running(u)' <=> Running(u)) /\ (Pushing(u)' <=> Pushing(u))
    BY <1>1 DEF Running, Pushing, ThreadsAssumption
  <2> QED BY <1>1, <2>1 DEF IInv, CounterCountsWorks
<1>10. RunsOnce'
  BY <1>1 DEF IInv, RunsOnce
<1> QED BY <1>2, <1>3, <1>4, <1>5, <1>6, <1>7, <1>8, <1>9, <1>10 DEF IInv

-----------------------------------------------------------------------------
(* Steps of threadWork *)

\* The head goes from the queue to the worker.
LEMMA TakeHeadKeepsIInv ==
  ASSUME ThreadsAssumption, IInv, NEW t \in Workers, TakeHead(t)
  PROVE  IInv'
<1> USE DEF Threads
<1> DEFINE e == Head(invocations)
<1>1. /\ UNCHANGED <<isActive, taskCounter, refs, isDefault, started>>
      /\ mutex' = Nobody /\ pc[t] = "look" /\ pc'[t] = "run" /\ pc' = [pc EXCEPT ![t] = "run"]
      /\ \A u \in Threads \ {t} : pc'[u] = pc[u] /\ held'[u] = held[u]
      /\ held'[t] = e /\ held' = [held EXCEPT ![t] = e]
      /\ invocations' = WithoutHead(invocations) /\ invocations # << >>
  BY DEF IInv, TypeOK, TakeHead, Goto
<1>2. /\ invocations' \in Seq(Invocations) /\ Len(invocations') = Len(invocations) - 1
      /\ Len(invocations) \in Nat
      /\ Distinct(invocations') /\ \A i : Queued(i)' <=> Queued(i) /\ i # e
      /\ Queued(e) /\ e \in Invocations
  <2>1. invocations \in Seq(Invocations) /\ Distinct(invocations)
    BY DEF IInv, TypeOK, RunsOnce, Distinct
  <2>2. e \in Invocations /\ Len(invocations) \in Nat
    BY <1>1, <2>1, HeadTailProperties, LenProperties
  <2> QED BY <1>1, <2>1, <2>2, WithoutHeadAt, HeadTaken DEF Queued
<1>3. /\ started[e] = 0 /\ e # Nobody /\ held[t] = Nobody /\ t # Owner /\ t \notin Clients
      /\ \A w \in Workers : held[w] # e
  BY <1>1, <1>2 DEF IInv, RunsOnce, Queued, Holds, HeldInv, InvocationsInv, ScheduleLocs,
                    ThreadsAssumption
<1> HIDE DEF e
<1>4. TypeOK'
  BY <1>1, <1>2 DEF IInv, TypeOK, WorkerLocs, ThreadsAssumption
<1>5. PlacesInv'
  BY <1>1, <1>3 DEF IInv, PlacesInv, WorkerLocs
<1>6. MutexInv'
  BY <1>1 DEF IInv, MutexInv, Locking, ThreadsAssumption
<1>7. HeldInv'
  BY <1>1, <1>3 DEF IInv, HeldInv, ScheduleLocs
<1>8. RefsInv'
  BY <1>1, <1>3 DEF IInv, RefsInv
<1>9. JoinedInv'
  BY <1>1 DEF IInv, JoinedInv
<1>10. InvocationsInv'
  <2>1. \A i : Unbegun(i) => Unbegun(i)'
    BY <1>1, <1>2 DEF Unbegun
  <2>2. \A c \in Clients : pc'[c] \in {"acquire"} \cup ScheduleLocs => Unbegun(First(c))'
    BY <1>1, <1>3, <2>1 DEF IInv, InvocationsInv
  <2>3. \A c \in Clients : started'[First(c)] = 0 => Unbegun(Second(c))'
    BY <1>1, <2>1 DEF IInv, InvocationsInv
  <2>4. \A w \in Workers : pc'[w] = "run" => started'[held'[w]] = 0
    BY <1>1, <1>3 DEF IInv, InvocationsInv
  <2>5. \A w \in Workers, c \in Clients : pc'[w] \in ScheduleLocs /\ held'[w] = First(c) =>
          started'[First(c)] = 1 /\ Unbegun(Second(c))'
    BY <1>1, <2>1 DEF IInv, InvocationsInv, ScheduleLocs
  <2>6. \A v, w \in Workers : held'[v] = held'[w] /\ held'[w] # Nobody => v = w
    BY <1>1, <1>3 DEF IInv, InvocationsInv
  <2>7. \A i \in Invocations : Queued(i)' => \A w \in Workers : held'[w] # i
    BY <1>1, <1>2, <1>3 DEF IInv, InvocationsInv
  <2> QED BY <2>2, <2>3, <2>4, <2>5, <2>6, <2>7 DEF InvocationsInv, Unbegun
<1>11. CounterCountsWorks'
  <2>1. /\ \A u \in Threads \ {t} : (Running(u)' <=> Running(u)) /\ (Pushing(u)' <=> Pushing(u))
        /\ ~Running(t) /\ Running(t)' /\ (Pushing(t)' <=> Pushing(t))
    BY <1>1, <1>3 DEF Running, Pushing
  <2>2. taskCounter' = taskCounter + 1 + 0 + (-1) /\ Len(invocations)' = Len(invocations) + (-1)
    BY <1>1, <1>2 DEF IInv, TypeOK
  <2> QED BY <2>1, <2>2, CounterKept
<1>12. RunsOnce'
  <2>1. \A i \in Invocations : Queued(i) => started[i] = 0
    BY DEF IInv, RunsOnce, Queued, Holds
  <2>2. \A i \in Invocations : Queued(i)' => started'[i] = 0
    BY <1>1, <1>2, <2>1
  <2> QED BY <1>1, <1>2, <1>4, <2>2 DEF IInv, RunsOnce, TypeOK, Queued, Holds, Distinct
<1> QED BY <1>4, <1>5, <1>6, <1>7, <1>8, <1>9, <1>10, <1>11, <1>12 DEF IInv

\* The invocation a worker has is run for the first time.
LEMMA RunKeepsIInv ==
  ASSUME ThreadsAssumption, IInv, NEW t \in Workers, Run(t)
  PROVE  IInv'
<1> USE DEF Threads
<1> DEFINE e == held[t]
<1>1. /\ UNCHANGED <<isActive, invocations, mutex, taskCounter, refs, isDefault, held>>
      /\ pc[t] = "run" /\ pc' = [pc EXCEPT ![t] = pc'[t]]
      /\ \A u \in Threads \ {t} : pc'[u] = pc[u]
      /\ \/ pc'[t] = "finish"
         \/ pc'[t] = "count" /\ e.part = "first"
      /\ started' = [started EXCEPT ![e] = @ + 1]
  BY DEF IInv, TypeOK, Run, Goto
<1>2. /\ e \in Invocations /\ started[e] = 0 /\ t # Owner /\ t \notin Clients
      /\ \A w \in Workers \ {t} : held[w] # e
      /\ ~Queued(e)
  BY <1>1 DEF IInv, TypeOK, HeldInv, InvocationsInv, ThreadsAssumption
<1>3. /\ started'[e] = 1 /\ \A i \in Invocations \ {e} : started'[i] = started[i]
      /\ started' \in [Invocations -> Nat]
  BY <1>1, <1>2 DEF IInv, TypeOK
<1> HIDE DEF e
<1>4. TypeOK'
  BY <1>1, <1>3 DEF IInv, TypeOK, WorkerLocs, ClientLocs, ScheduleLocs
<1>5. PlacesInv'
  BY <1>1, <1>2 DEF IInv, PlacesInv, WorkerLocs, ScheduleLocs
<1>6. MutexInv'
  BY <1>1 DEF IInv, MutexInv, Locking
<1>7. HeldInv'
  BY <1>1, <1>2 DEF IInv, HeldInv, ScheduleLocs, e
<1>8. RefsInv'
  BY <1>1, <1>2 DEF IInv, RefsInv
<1>9. JoinedInv'
  BY <1>1 DEF IInv, JoinedInv
<1>10. InvocationsInv'
  <2>1. \A i \in Invocations : Unbegun(i) => Unbegun(i)' /\ i # e
    BY <1>1, <1>2, <1>3 DEF Unbegun, e, Queued, Holds
  <2>2. \A c \in Clients : First(c) \in Invocations /\ Second(c) \in Invocations
    BY DEF First, Second, Invocations
  <2>3. \A c \in Clients : pc'[c] \in {"acquire"} \cup ScheduleLocs => Unbegun(First(c))'
    BY <1>1, <1>2, <2>1, <2>2 DEF IInv, InvocationsInv
  <2>4. \A c \in Clients : started'[First(c)] = 0 => Unbegun(Second(c))'
    BY <1>1, <1>3, <2>1, <2>2 DEF IInv, InvocationsInv
  <2>5. \A w \in Workers : pc'[w] = "run" => started'[held'[w]] = 0
    <3> SUFFICES ASSUME NEW w \in Workers, pc'[w] = "run" PROVE started'[held[w]] = 0
      BY <1>1
    <3>1. w # t /\ pc[w] = "run"
      BY <1>1
    <3>2. held[w] \in Invocations \ {e} /\ started[held[w]] = 0
      BY <1>2, <3>1 DEF IInv, TypeOK, HeldInv, InvocationsInv
    <3> QED BY <1>3, <3>2
  <2>6. \A w \in Workers, c \in Clients : pc'[w] \in ScheduleLocs /\ held'[w] = First(c) =>
          started'[First(c)] = 1 /\ Unbegun(Second(c))'
    <3> SUFFICES ASSUME NEW w \in Workers, NEW c \in Clients,
                        pc'[w] \in ScheduleLocs, held[w] = First(c)
                 PROVE  started'[First(c)] = 1 /\ Unbegun(Second(c))'
      BY <1>1
    <3>1. CASE w = t
      <4>1. started[First(c)] = 0 /\ e = First(c)
        BY <1>2, <3>1 DEF e
      <4>2. Unbegun(Second(c))
        BY <4>1 DEF IInv, InvocationsInv
      <4> QED BY <1>3, <2>1, <2>2, <4>1, <4>2
    <3>2. CASE w # t
      <4>1. started[First(c)] = 1 /\ Unbegun(Second(c)) /\ First(c) # e
        BY <1>1, <1>2, <3>2 DEF IInv, InvocationsInv
      <4> QED BY <1>3, <2>1, <2>2, <4>1
    <3> QED BY <3>1, <3>2
  <2> QED BY <1>1, <2>3, <2>4, <2>5, <2>6 DEF IInv, InvocationsInv, Unbegun, Queued, Holds
<1>11. CounterCountsWorks'
  <2>1. \A u \in Threads : (Running(u)' <=> Running(u)) /\ (Pushing(u)' <=> Pushing(u))
    BY <1>1 DEF Running, Pushing
  <2> QED BY <1>1, <2>1 DEF IInv, CounterCountsWorks
<1>12. RunsOnce'
  <2>1. \A j \in 1..Len(invocations) : invocations[j] \in Invocations \ {e}
    BY <1>2, ElementOfSeq DEF IInv, TypeOK, Queued, Holds
  <2> QED BY <1>1, <1>3, <2>1 DEF IInv, RunsOnce, TypeOK
<1> QED BY <1>4, <1>5, <1>6, <1>7, <1>8, <1>9, <1>10, <1>11, <1>12 DEF IInv

\* The counter goes down when the invocation is over.
LEMMA FinishKeepsIInv ==
  ASSUME ThreadsAssumption, IInv, NEW t \in Workers, Finish(t)
  PROVE  IInv'
<1> USE DEF Threads
<1>1. /\ UNCHANGED <<isActive, invocations, mutex, refs, isDefault, started>>
      /\ pc[t] = "finish" /\ pc'[t] = "lock" /\ pc' = [pc EXCEPT ![t] = "lock"]
      /\ \A u \in Threads \ {t} : pc'[u] = pc[u] /\ held'[u] = held[u]
      /\ held'[t] = Nobody /\ held' = [held EXCEPT ![t] = Nobody]
      /\ taskCounter' = taskCounter - 1 /\ taskCounter \in Nat
      /\ t # Owner /\ t \notin Clients
  BY DEF IInv, TypeOK, Finish, Goto, ThreadsAssumption
<1>2. CounterCountsWorks' /\ taskCounter >= 1
  <2>1. /\ \A u \in Threads \ {t} : (Running(u)' <=> Running(u)) /\ (Pushing(u)' <=> Pushing(u))
        /\ Running(t) /\ ~Running(t)' /\ (Pushing(t)' <=> Pushing(t))
    BY <1>1 DEF IInv, HeldInv, Running, Pushing
  <2>2. Len(invocations)' = Len(invocations) + 0 /\ taskCounter' = taskCounter + (-1) + 0 + 0
    BY <1>1, LenProperties DEF IInv, TypeOK
  <2> QED BY <2>1, <2>2, CounterKept
<1>3. TypeOK'
  BY <1>1, <1>2 DEF IInv, TypeOK, WorkerLocs
<1>4. PlacesInv'
  BY <1>1 DEF IInv, PlacesInv, WorkerLocs
<1>5. MutexInv'
  BY <1>1 DEF IInv, MutexInv, Locking
<1>6. HeldInv'
  BY <1>1 DEF IInv, HeldInv, ScheduleLocs
<1>7. RefsInv'
  BY <1>1 DEF IInv, RefsInv
<1>8. JoinedInv'
  BY <1>1 DEF IInv, JoinedInv
<1>9. InvocationsInv'
  <2>1. \A i \in Invocations : Unbegun(i) => Unbegun(i)'
    BY <1>1 DEF Unbegun, Queued, Holds, ThreadsAssumption
  <2>2. \A c \in Clients : First(c) \in Invocations /\ Second(c) \in Invocations
    BY DEF First, Second, Invocations
  <2>3. \A w \in Workers : pc'[w] \in ScheduleLocs => w # t
    BY <1>1 DEF ScheduleLocs
  <2>4. \A w \in Workers, c \in Clients : pc'[w] \in ScheduleLocs /\ held'[w] = First(c) =>
          started'[First(c)] = 1 /\ Unbegun(Second(c))'
    BY <1>1, <2>1, <2>2, <2>3 DEF IInv, InvocationsInv
  <2>5. \A c \in Clients : pc'[c] \in {"acquire"} \cup ScheduleLocs => Unbegun(First(c))'
    BY <1>1, <2>1, <2>2 DEF IInv, InvocationsInv
  <2>6. \A c \in Clients : started'[First(c)] = 0 => Unbegun(Second(c))'
    BY <1>1, <2>1, <2>2 DEF IInv, InvocationsInv
  <2> QED BY <1>1, <2>4, <2>5, <2>6 DEF IInv, InvocationsInv, Unbegun, Queued, Holds,
                                        ThreadsAssumption
<1>10. RunsOnce'
  BY <1>1 DEF IInv, RunsOnce
<1> QED BY <1>2, <1>3, <1>4, <1>5, <1>6, <1>7, <1>8, <1>9, <1>10 DEF IInv

-----------------------------------------------------------------------------
(* The theorem *)

\* The invariant holds in the beginning.
LEMMA InitIsGood ==
  ASSUME ThreadsAssumption, Init
  PROVE  IInv
<1> USE DEF Init, Threads
<1>1. TypeOK /\ PlacesInv
  BY DEF TypeOK, PlacesInv, ThreadsAssumption, WorkerLocs, ClientLocs, OwnerLocs, ReleaseLocs,
         ScheduleLocs, Invocations
<1>2. MutexInv /\ HeldInv /\ RefsInv /\ JoinedInv
  BY DEF MutexInv, HeldInv, RefsInv, JoinedInv, Locking, Destroying, ScheduleLocs, ThreadsAssumption
<1>3. Len(invocations) = 0 /\ \A i : ~Queued(i)
  BY DEF Queued, Holds
<1>4. InvocationsInv
  <2>1. \A i \in Invocations : Unbegun(i)
    BY <1>3 DEF Unbegun, ThreadsAssumption
  <2> QED BY <1>3, <2>1 DEF InvocationsInv, First, Second, Invocations, ScheduleLocs,
                            ThreadsAssumption
<1>5. CounterCountsWorks
  <2>1. {t \in Threads : Running(t)} = {} /\ {t \in Threads : Pushing(t)} = {}
    BY DEF Running, Pushing
  <2>2. Cardinality({t \in Threads : Running(t)}) = 0 /\ Cardinality({t \in Threads : Pushing(t)}) = 0
    BY <2>1, FS_EmptySet, Zenon
  <2>3. taskCounter = 0 /\ taskCounter = 0 + 0 + Len(invocations)
    BY <1>3
  <2> HIDE DEF Init, Threads
  <2> QED BY <2>2, <2>3 DEF CounterCountsWorks
<1>6. RunsOnce
  BY <1>3 DEF RunsOnce
<1> QED BY <1>1, <1>2, <1>4, <1>5, <1>6 DEF IInv

\* Every step keeps the invariant.
LEMMA StepKeepsIInv ==
  ASSUME ThreadsAssumption, IInv, [Next]_vars
  PROVE  IInv'
<1>1. CASE UNCHANGED vars
  BY <1>1 DEF vars, IInv, TypeOK, PlacesInv, MutexInv, HeldInv, RefsInv, JoinedInv, InvocationsInv,
              CounterCountsWorks, RunsOnce, Unbegun, Queued, Running, Pushing
<1>2. ASSUME NEW t \in Threads, ThreadStep(t) PROVE IInv'
  <2>1. CASE t \in Workers /\ Work(t)
    BY <2>1, LockingKeepsIInv, TakeHeadKeepsIInv, RunKeepsIInv, FinishKeepsIInv DEF Work
  <2>2. CASE t \in Clients /\ Acquire(t)
    BY <2>2, AcquireKeepsIInv
  <2>3. CASE LetGo(t) \/ (t = Owner /\ (CheckWorks \/ CheckRefs \/ Forget))
    BY <2>3, LettingGoKeepsIInv
  <2>4. CASE Schedule(t)
    BY <2>4, CountKeepsIInv, LockingKeepsIInv, PushKeepsIInv DEF Schedule
  <2> QED BY <1>2, <2>1, <2>2, <2>3, <2>4 DEF ThreadStep
<1>3. ASSUME NEW w \in Workers, SpuriousWakeup(w) PROVE IInv'
  BY <1>3, LockingKeepsIInv DEF Threads
<1> QED BY <1>1, <1>2, <1>3 DEF Next

\* The destructor has returned: no worker runs, no client is about to push, and
\* nobody has the mutex.
LEMMA DestroyedIsQuiet ==
  ASSUME ThreadsAssumption, IInv
  PROVE  NothingRunsAfterDestruction
<1> SUFFICES ASSUME NEW t \in Threads, pc[t] = "destroyed"
             PROVE  /\ \A w \in Workers : pc[w] = "exited"
                    /\ \A c \in Clients : ~Pushing(c)
                    /\ mutex = Nobody
  BY DEF NothingRunsAfterDestruction
<1>1. \A w \in Workers : pc[w] = "exited"
  BY DEF IInv, JoinedInv
<1>2. t \in Clients \cup {Owner} /\ refs = {}
  BY DEF IInv, PlacesInv, RefsInv, Threads, WorkerLocs, ScheduleLocs, Destroying
<1>3. \A c \in Clients : pc[c] \notin ScheduleLocs
  BY <1>2 DEF IInv, RefsInv
<1>4. \A u \in Threads : pc[u] \notin Locking
  BY <1>1, <1>3 DEF IInv, PlacesInv, Threads, Locking, ClientLocs, OwnerLocs, ReleaseLocs, ScheduleLocs
<1> QED BY <1>1, <1>3, <1>4 DEF IInv, TypeOK, MutexInv, Pushing, ScheduleLocs

\* hasWorks() never misses anything that is queued, running or about to be
\* queued, follow-ups of coroutines included; an invocation is run at most once
\* although the queue is not kept in order; and the destructor leaves nothing
\* of the pool running: for any finite numbers of workers and clients.
THEOREM PoolIsSafe ==
  ASSUME ThreadsAssumption
  PROVE  Spec => [](TypeOK /\ CounterCountsWorks /\ RunsOnce /\ NothingRunsAfterDestruction)
<1>1. Init => IInv
  BY InitIsGood
<1>2. IInv /\ [Next]_vars => IInv'
  BY StepKeepsIInv
<1>3. IInv => TypeOK /\ CounterCountsWorks /\ RunsOnce /\ NothingRunsAfterDestruction
  BY DestroyedIsQuiet DEF IInv
<1> QED BY <1>1, <1>2, <1>3, PTL DEF Spec

=============================================================================
