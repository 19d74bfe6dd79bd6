-------------------------- MODULE WorkQueue_proofs --------------------------
(***************************************************************************)
(* Proofs about WorkQueue, for any set of clients.  The inductive          *)
(* invariant IInv says where an invocation is before it is run, in which   *)
(* order the two sequences keep what a client has handed over, and what    *)
(* the event and isPolled stand for.                                       *)
(***************************************************************************)
EXTENDS WorkQueue, SequenceTheorems, TLAPS

First(c) == [by |-> c, n |-> 1]
Second(c) == [by |-> c, n |-> 2]
Follow(c) == [by |-> c, n |-> 0]

Holds(q, i) == \E j \in 1..Len(q) : q[j] = i
Distinct(q) == \A j, k \in 1..Len(q) : q[j] = q[k] => j = k
InOrder(q, a, b) == \A j, k \in 1..Len(q) : q[j] = a /\ q[k] = b => j < k

Waiting(i) == Holds(taken, i) \/ Holds(invocations, i)
Untouched(i) == ran[i] = 0 /\ ~Waiting(i)

\* An invocation waits in one place, once, and only before it is run.
OnceInv ==
  /\ Distinct(taken) /\ Distinct(invocations)
  /\ \A i \in Invocations : /\ ran[i] <= 1
                            /\ Waiting(i) => ran[i] = 0
                            /\ Holds(taken, i) => ~Holds(invocations, i)

\* What has not been handed over is nowhere; the follow-up comes with the run.
GivenInv ==
  \A c \in Clients : /\ given[c] = 0 => Untouched(First(c))
                     /\ given[c] < 2 => Untouched(Second(c))
                     /\ ran[First(c)] = 0 => Untouched(Follow(c))

\* A client's first invocation is ahead of its second one until it is run.
OrderInv ==
  \A c \in Clients :
    ran[First(c)] = 0 =>
      /\ given[c] > 0 => Waiting(First(c))
      /\ ran[Second(c)] = 0
      /\ Holds(invocations, First(c)) => ~Holds(taken, Second(c))
      /\ InOrder(taken, First(c), Second(c)) /\ InOrder(invocations, First(c), Second(c))

\* The event is up while something is queued, and isPolled while somebody is in
\* poll().
EventInv ==
  /\ invocations # << >> => event
  /\ signal = "pending" => invocations = << >>
  /\ isPolled <=> poller \notin {"loop", "stopped"}

IInv == TypeOK /\ OnceInv /\ GivenInv /\ OrderInv /\ EventInv

-----------------------------------------------------------------------------
(* The two sequences *)

\* Appending what is not there appends it only, and leaves pairs in order that
\* it is not the first of, or that it does not find the second of.
LEMMA Appended ==
  ASSUME NEW S, NEW q \in Seq(S), Distinct(q), NEW e \in S, ~Holds(q, e)
  PROVE  /\ Append(q, e) \in Seq(S) /\ Append(q, e) # << >> /\ Distinct(Append(q, e))
         /\ \A i : Holds(Append(q, e), i) <=> Holds(q, i) \/ i = e
         /\ \A a, b : InOrder(q, a, b) /\ a # b /\ (e = a => ~Holds(q, b)) =>
                        InOrder(Append(q, e), a, b)
<1> DEFINE r == Append(q, e)
<1>1. /\ Len(q) \in Nat /\ r \in Seq(S) /\ Len(r) = Len(q) + 1 /\ r # << >>
      /\ \A j \in 1..Len(q) : r[j] = q[j]
      /\ r[Len(q) + 1] = e
  BY LenProperties, AppendProperties
<1> HIDE DEF r
<1>2. Distinct(r)
  BY <1>1 DEF Distinct, Holds
<1>3. ASSUME NEW i PROVE Holds(r, i) <=> Holds(q, i) \/ i = e
  <2>1. ASSUME Holds(r, i) PROVE Holds(q, i) \/ i = e
    BY <1>1, <2>1 DEF Holds
  <2>2. ASSUME Holds(q, i) \/ i = e PROVE Holds(r, i)
    BY <1>1, <2>2 DEF Holds
  <2> QED BY <2>1, <2>2
<1>4. ASSUME NEW a, NEW b, InOrder(q, a, b), a # b, e = a => ~Holds(q, b)
      PROVE  InOrder(r, a, b)
  BY <1>1, <1>4 DEF InOrder, Holds
<1> QED BY <1>1, <1>2, <1>3, <1>4 DEF r

\* Taking the head takes the head only; what is behind the head of a pair in
\* order is not the head.
LEMMA HeadTaken ==
  ASSUME NEW S, NEW q \in Seq(S), q # << >>, Distinct(q)
  PROVE  /\ Tail(q) \in Seq(S) /\ Len(Tail(q)) = Len(q) - 1 /\ Len(q) \in Nat \ {0}
         /\ Head(q) \in S /\ Distinct(Tail(q)) /\ Holds(q, Head(q))
         /\ \A i : Holds(Tail(q), i) <=> Holds(q, i) /\ i # Head(q)
         /\ \A a, b : InOrder(q, a, b) => InOrder(Tail(q), a, b) /\ (Holds(q, a) => b # Head(q))
<1> DEFINE r == Tail(q)
<1>1. /\ Len(q) \in Nat \ {0} /\ r \in Seq(S) /\ Len(r) = Len(q) - 1
      /\ Head(q) \in S /\ Head(q) = q[1]
      /\ \A j \in 1..Len(r) : r[j] = q[j + 1]
  BY EmptySeq, HeadTailProperties, LenProperties
<1> HIDE DEF r
<1>2. Distinct(r) /\ Holds(q, Head(q))
  BY <1>1 DEF Distinct, Holds
<1>3. ASSUME NEW i PROVE Holds(r, i) <=> Holds(q, i) /\ i # Head(q)
  <2>1. ASSUME Holds(r, i) PROVE Holds(q, i) /\ i # Head(q)
    BY <1>1, <2>1 DEF Holds, Distinct
  <2>2. ASSUME Holds(q, i), i # Head(q) PROVE Holds(r, i)
    <3>1. PICK j \in 1..Len(q) : q[j] = i
      BY <2>2 DEF Holds
    <3>2. j - 1 \in 1..Len(r) /\ r[j - 1] = q[j]
      BY <1>1, <2>2, <3>1
    <3> QED BY <3>1, <3>2 DEF Holds
  <2> QED BY <2>1, <2>2
<1>4. ASSUME NEW a, NEW b, InOrder(q, a, b)
      PROVE  InOrder(r, a, b) /\ (Holds(q, a) => b # Head(q))
  BY <1>1, <1>4 DEF InOrder, Holds
<1> QED BY <1>1, <1>2, <1>3, <1>4 DEF r

\* The numbers of a client's invocations tell them apart.
LEMMA ThreeInvocations ==
  /\ \A c \in Clients : {First(c), Second(c), Follow(c)} \subseteq Invocations
  /\ \A i \in Invocations : i \in {First(i.by), Second(i.by), Follow(i.by)} /\ i.by \in Clients
  /\ \A c, d : First(c) # Second(d) /\ First(c) # Follow(d) /\ Second(c) # Follow(d)
  /\ \A c, d : /\ First(c) = First(d) => c = d
               /\ Second(c) = Second(d) => c = d
               /\ Follow(c) = Follow(d) => c = d
BY DEF First, Second, Follow, Invocations

-----------------------------------------------------------------------------
(* The steps *)

\* Steps that hand over, take out and run nothing.
LEMMA IdleKeeps ==
  ASSUME IInv, UNCHANGED <<invocations, taken, given, ran>>
  PROVE  OnceInv' /\ GivenInv' /\ OrderInv'
BY DEF IInv, OnceInv, GivenInv, OrderInv, Untouched, Waiting

\* A step that moves no invocation keeps the invariant.
LEMMA IdleStepKeepsIInv ==
  ASSUME IInv, StopperStep \/ Stop \/ WaitForWork \/ Enter \/ Wait \/ OutOfTime \/ CheckNotified
               \/ Decide \/ Leave \/ Left
  PROVE  IInv'
<1>1. UNCHANGED <<invocations, taken, given, ran>>
  BY DEF StopperStep, Raise, Notify, Wake, Stop, WaitForWork, Enter, Wait, OutOfTime, CheckNotified,
         Decide, Leave, Left
<1>2. OnceInv' /\ GivenInv' /\ OrderInv'
  BY <1>1, IdleKeeps
<1>3. /\ timed' \in BOOLEAN /\ event' \in BOOLEAN /\ isPolled' \in BOOLEAN
      /\ isNotified' \in BOOLEAN /\ stopFlag' \in BOOLEAN
      /\ signal' \in {"none", "pending", "ready"} /\ stopper' \in {"raise", "notify", "wake", "done"}
      /\ poller' \in {"loop", "take", "wait", "checkNotified", "run", "decide", "leave", "leaving",
                      "stopped"}
      /\ poller' = "run" <=> poller = "run"
      /\ event => event'
      /\ isPolled' <=> poller' \notin {"loop", "stopped"}
      /\ signal' = "pending" => signal = "pending" \/ invocations = << >>
  <2> USE DEF IInv, TypeOK, EventInv, Goto
  <2>1. CASE Raise
    BY <2>1 DEF Raise
  <2>2. CASE Notify
    BY <2>2 DEF Notify
  <2>3. CASE Wake
    BY <2>3 DEF Wake, NotifyInternal
  <2>4. CASE Stop
    BY <2>4 DEF Stop
  <2>5. CASE Enter
    BY <2>5 DEF Enter
  <2>6. CASE Wait \/ OutOfTime \/ CheckNotified
    BY <2>6 DEF Wait, OutOfTime, CheckNotified
  <2>7. CASE WaitForWork
    BY <2>7 DEF WaitForWork
  <2>8. CASE Decide
    BY <2>8 DEF Decide
  <2>9. CASE Leave \/ Left
    BY <2>9 DEF Leave, Left
  <2> QED BY <2>1, <2>2, <2>3, <2>4, <2>5, <2>6, <2>7, <2>8, <2>9 DEF StopperStep
<1>4. TypeOK'
  BY <1>1, <1>3 DEF IInv, TypeOK
<1>5. EventInv'
  BY <1>1, <1>3 DEF IInv, EventInv
<1> QED BY <1>2, <1>4, <1>5 DEF IInv

\* A client hands over an invocation.
LEMMA ScheduleKeepsIInv ==
  ASSUME IInv, NEW c \in Clients, Schedule(c)
  PROVE  IInv'
<1> DEFINE e == IF given[c] = 0 THEN First(c) ELSE Second(c)
<1>1. /\ given[c] \in {0, 1} /\ given'[c] = given[c] + 1 /\ given' \in [Clients -> 0..2]
      /\ \A d \in Clients \ {c} : given'[d] = given[d]
      /\ invocations' = Append(invocations, e)
      /\ UNCHANGED <<timed, taken, isPolled, isNotified, stopFlag, poller, stopper, ran>>
      /\ event' = TRUE /\ signal' \in {"none", "ready"}
  <2>1. given[c] \in {0, 1} /\ given'[c] = given[c] + 1
    BY DEF IInv, TypeOK, Schedule
  <2>2. [by |-> c, n |-> given'[c]] = e
    BY <2>1 DEF First, Second
  <2> QED BY <2>1, <2>2 DEF IInv, TypeOK, Schedule, NotifyInternal
<1>2. e \in Invocations /\ ran[e] = 0 /\ ~Holds(taken, e) /\ ~Holds(invocations, e)
  BY <1>1, ThreeInvocations DEF IInv, GivenInv, Untouched, Waiting
<1>3. given[c] = 0 => e = First(c) /\ ~Holds(invocations, Second(c)) /\ ~Holds(taken, Second(c))
                      /\ ran[Second(c)] = 0
  BY DEF IInv, GivenInv, Untouched, Waiting
<1>4. given[c] # 0 => e = Second(c)
  OBVIOUS
<1> HIDE DEF e
<1>5. /\ invocations' \in Seq(Invocations) /\ invocations' # << >> /\ Distinct(invocations')
      /\ \A i : Holds(invocations', i) <=> Holds(invocations, i) \/ i = e
      /\ \A a, b : InOrder(invocations, a, b) /\ a # b /\ (e = a => ~Holds(invocations, b)) =>
                     InOrder(invocations', a, b)
  BY <1>1, <1>2, Appended DEF IInv, TypeOK, OnceInv
<1>6. TypeOK'
  BY <1>1, <1>5 DEF IInv, TypeOK
<1>7. OnceInv'
  BY <1>1, <1>2, <1>5 DEF IInv, OnceInv, Waiting
<1>8. GivenInv'
  <2> SUFFICES ASSUME NEW d \in Clients
               PROVE  /\ given'[d] = 0 => Untouched(First(d))'
                      /\ given'[d] < 2 => Untouched(Second(d))'
                      /\ ran[First(d)] = 0 => Untouched(Follow(d))'
    BY <1>1 DEF GivenInv
  <2>1. \A i : i # e /\ Untouched(i) => Untouched(i)'
    BY <1>1, <1>5 DEF Untouched, Waiting
  <2>2. e # Follow(d) /\ (d # c => e # First(d) /\ e # Second(d))
    BY <1>1, <1>3, <1>4, ThreeInvocations
  <2>3. given'[d] = 0 => d # c
    BY <1>1
  <2>4. given'[d] < 2 => d # c \/ e = First(c)
    BY <1>1, <1>3
  <2> QED BY <1>1, <2>1, <2>2, <2>3, <2>4, ThreeInvocations DEF IInv, GivenInv
<1>9. OrderInv'
  <2> SUFFICES ASSUME NEW d \in Clients, ran[First(d)] = 0
               PROVE  /\ given'[d] > 0 => Waiting(First(d))'
                      /\ ran[Second(d)] = 0
                      /\ Holds(invocations', First(d)) => ~Holds(taken, Second(d))
                      /\ InOrder(taken, First(d), Second(d))
                      /\ InOrder(invocations', First(d), Second(d))
    BY <1>1 DEF OrderInv
  <2>1. /\ given[d] > 0 => Waiting(First(d))
        /\ ran[Second(d)] = 0
        /\ Holds(invocations, First(d)) => ~Holds(taken, Second(d))
        /\ InOrder(taken, First(d), Second(d)) /\ InOrder(invocations, First(d), Second(d))
    BY DEF IInv, OrderInv
  <2>2. given'[d] > 0 => Waiting(First(d))'
    <3>1. given'[d] > 0 => given[d] > 0 \/ e = First(d)
      BY <1>1, <1>3 DEF IInv, TypeOK
    <3>2. \A i : Waiting(i)' <=> Waiting(i) \/ i = e
      BY <1>1, <1>5 DEF Waiting
    <3> QED BY <2>1, <3>1, <3>2
  <2>3. e = First(d) => d = c /\ given[c] = 0
    BY <1>3, <1>4, ThreeInvocations
  <2>4. Holds(invocations', First(d)) => ~Holds(taken, Second(d))
    BY <1>3, <1>5, <2>1, <2>3
  <2>5. InOrder(invocations', First(d), Second(d))
    BY <1>3, <1>5, <2>1, <2>3, ThreeInvocations
  <2> QED BY <2>1, <2>2, <2>4, <2>5
<1>10. EventInv'
  BY <1>1 DEF IInv, EventInv
<1> QED BY <1>6, <1>7, <1>8, <1>9, <1>10 DEF IInv

\* The whole queue becomes what is taken out.
LEMMA TakeKeepsIInv ==
  ASSUME IInv, Take
  PROVE  IInv'
<1>1. /\ taken = << >> /\ taken' = invocations /\ invocations' = << >>
      /\ UNCHANGED <<timed, isPolled, isNotified, stopFlag, stopper, given, ran>>
      /\ \A i : ~Holds(taken, i) /\ ~Holds(invocations', i)
  BY DEF IInv, TypeOK, Take, Holds
<1>2. \A i : (Waiting(i)' <=> Waiting(i)) /\ (Untouched(i)' <=> Untouched(i))
  BY <1>1 DEF Waiting, Untouched
<1>3. TypeOK'
  BY <1>1 DEF IInv, TypeOK, Take
<1>4. OnceInv'
  BY <1>1, <1>2 DEF IInv, OnceInv, Distinct
<1>5. GivenInv'
  BY <1>1, <1>2 DEF IInv, GivenInv
<1>6. OrderInv'
  BY <1>1, <1>2 DEF IInv, OrderInv, InOrder
<1>7. EventInv'
  BY <1>1 DEF IInv, EventInv, Take, TypeOK
<1> QED BY <1>3, <1>4, <1>5, <1>6, <1>7 DEF IInv

\* The head is run, and may hand over its follow-up, the only thing that is new
\* in the queue.
LEMMA RunningKeeps ==
  ASSUME IInv, Running, NEW N,
         N = {} \/ \E c \in Clients : N = {Follow(c)} /\ Head(taken) = First(c),
         Distinct(invocations'),
         \A i : Holds(invocations', i) <=> Holds(invocations, i) \/ i \in N,
         \A c \in Clients : InOrder(invocations, First(c), Second(c)) =>
                              InOrder(invocations', First(c), Second(c))
  PROVE  OnceInv' /\ GivenInv' /\ OrderInv'
<1> DEFINE e == Head(taken)
<1>1. /\ taken # << >> /\ taken \in Seq(Invocations) /\ Distinct(taken)
      /\ taken' = Tail(taken) /\ UNCHANGED given /\ ran' = [ran EXCEPT ![e] = @ + 1]
  BY DEF IInv, TypeOK, OnceInv, Running
<1>2. /\ e \in Invocations /\ Distinct(taken') /\ Holds(taken, e)
      /\ \A i : Holds(taken', i) <=> Holds(taken, i) /\ i # e
      /\ \A a, b : InOrder(taken, a, b) => InOrder(taken', a, b) /\ (Holds(taken, a) => b # e)
  BY <1>1, HeadTaken
<1> HIDE DEF e
<1>3. /\ ran[e] = 0 /\ ~Holds(invocations, e) /\ ran'[e] = 1
      /\ \A i \in Invocations \ {e} : ran'[i] = ran[i]
  BY <1>1, <1>2 DEF IInv, OnceInv, TypeOK, Waiting
<1>4. \A i \in N : Untouched(i) /\ i # e /\ \E c \in Clients : i = Follow(c) /\ e = First(c)
  BY <1>3, ThreeInvocations DEF IInv, GivenInv, e
<1>5. OnceInv'
  BY <1>2, <1>3, <1>4 DEF IInv, OnceInv, Waiting, Untouched
<1>6. \A i \in Invocations : Untouched(i) /\ i \notin N => Untouched(i)'
  BY <1>2, <1>3 DEF Untouched, Waiting
<1>7. GivenInv'
  <2> SUFFICES ASSUME NEW d \in Clients
               PROVE  /\ given[d] = 0 => Untouched(First(d))'
                      /\ given[d] < 2 => Untouched(Second(d))'
                      /\ ran'[First(d)] = 0 => Untouched(Follow(d))'
    BY <1>1 DEF GivenInv
  <2>1. First(d) \notin N /\ Second(d) \notin N /\ (e # First(d) => Follow(d) \notin N)
    BY <1>4, ThreeInvocations
  <2>2. ran'[First(d)] = 0 => e # First(d) /\ ran[First(d)] = 0
    BY <1>3, ThreeInvocations
  <2> QED BY <1>6, <2>1, <2>2, ThreeInvocations DEF IInv, GivenInv
<1>8. OrderInv'
  <2> SUFFICES ASSUME NEW d \in Clients, ran'[First(d)] = 0
               PROVE  /\ given[d] > 0 => Waiting(First(d))'
                      /\ ran'[Second(d)] = 0
                      /\ Holds(invocations', First(d)) => ~Holds(taken', Second(d))
                      /\ InOrder(taken', First(d), Second(d))
                      /\ InOrder(invocations', First(d), Second(d))
    BY <1>1 DEF OrderInv
  <2>1. e # First(d) /\ ran[First(d)] = 0
    BY <1>3, ThreeInvocations
  <2>2. /\ given[d] > 0 => Waiting(First(d))
        /\ ran[Second(d)] = 0
        /\ Holds(invocations, First(d)) => ~Holds(taken, Second(d))
        /\ InOrder(taken, First(d), Second(d)) /\ InOrder(invocations, First(d), Second(d))
    BY <2>1 DEF IInv, OrderInv
  <2>3. e # Second(d)
    <3>1. SUFFICES ASSUME e = Second(d) PROVE FALSE
      OBVIOUS
    <3>2. given[d] > 0
      <4>1. ~(given[d] < 2)
        BY <1>2, <3>1 DEF IInv, GivenInv, Untouched, Waiting
      <4>2. given[d] \in 0..2
        BY DEF IInv, TypeOK
      <4> QED BY <4>1, <4>2
    <3> QED BY <1>2, <2>2, <3>1, <3>2 DEF Waiting
  <2>4. First(d) \notin N
    BY <1>4, ThreeInvocations
  <2> QED BY <1>2, <1>3, <2>1, <2>2, <2>3, <2>4, ThreeInvocations DEF Waiting
<1> QED BY <1>5, <1>7, <1>8

\* The polling thread runs an invocation that it has taken.
LEMMA RunKeepsIInv ==
  ASSUME IInv, Run \/ RunAndSchedule
  PROVE  IInv'
<1> DEFINE e == Head(taken)
<1>1. /\ Running /\ taken # << >> /\ taken \in Seq(Invocations) /\ Distinct(taken)
      /\ invocations \in Seq(Invocations) /\ Distinct(invocations)
  BY DEF IInv, TypeOK, OnceInv, Run, RunAndSchedule, Running
<1>2. /\ Tail(taken) \in Seq(Invocations) /\ Len(Tail(taken)) = Len(taken) - 1
      /\ Len(taken) \in Nat \ {0} /\ e \in Invocations /\ Holds(taken, e)
  BY <1>1, HeadTaken
<1>3. /\ invocations' \in Seq(Invocations)
      /\ (invocations' # << >> => event') /\ (signal' = "pending" => invocations' = << >>)
      /\ event' \in BOOLEAN /\ signal' \in {"none", "pending", "ready"}
      /\ OnceInv' /\ GivenInv' /\ OrderInv'
  <2>1. CASE Run
    <3>1. UNCHANGED <<invocations, event, signal>>
      BY <2>1 DEF Run
    <3>2. OnceInv' /\ GivenInv' /\ OrderInv'
      <4>1. \A i : Holds(invocations', i) <=> Holds(invocations, i) \/ i \in {}
        BY <3>1
      <4> QED BY <1>1, <3>1, <4>1, RunningKeeps
    <3> QED BY <1>1, <3>1, <3>2 DEF IInv, TypeOK, EventInv
  <2>2. CASE RunAndSchedule
    <3>1. PICK c \in Clients : e = First(c)
      BY <1>2, <2>2, ThreeInvocations DEF RunAndSchedule, First, Second, Follow
    <3>2. /\ invocations' = Append(invocations, Follow(c))
          /\ event' = TRUE /\ signal' \in {"none", "ready"}
      BY <2>2, <3>1 DEF IInv, TypeOK, RunAndSchedule, NotifyInternal, First, Follow
    <3>3. ~Holds(invocations, Follow(c)) /\ Follow(c) \in Invocations
      BY <1>2, <3>1, ThreeInvocations DEF IInv, OnceInv, GivenInv, Untouched, Waiting
    <3>4. /\ invocations' \in Seq(Invocations) /\ Distinct(invocations')
          /\ \A i : Holds(invocations', i) <=> Holds(invocations, i) \/ i = Follow(c)
          /\ \A a, b : InOrder(invocations, a, b) /\ a # b
                       /\ (Follow(c) = a => ~Holds(invocations, b)) => InOrder(invocations', a, b)
      BY <1>1, <3>2, <3>3, Appended
    <3>5. \A d \in Clients : InOrder(invocations, First(d), Second(d)) =>
                               InOrder(invocations', First(d), Second(d))
      BY <3>4, ThreeInvocations
    <3>6. OnceInv' /\ GivenInv' /\ OrderInv'
      <4>1. \A i : Holds(invocations', i) <=> Holds(invocations, i) \/ i \in {Follow(c)}
        BY <3>4
      <4> QED BY <1>1, <3>1, <3>4, <3>5, <4>1, RunningKeeps
    <3> QED BY <3>2, <3>4, <3>6
  <2> QED BY <2>1, <2>2
<1>4. ran' \in [Invocations -> Nat]
  BY <1>1 DEF IInv, TypeOK, Running
<1>5. TypeOK'
  <2>1. taken' = Tail(taken) /\ (Tail(taken) = << >> <=> Len(taken) = 1)
    BY <1>1, <1>2, EmptySeq DEF Running
  <2> QED BY <1>1, <1>2, <1>3, <1>4, <2>1 DEF IInv, TypeOK, Running
<1>6. EventInv'
  BY <1>1, <1>3 DEF IInv, EventInv, Running
<1> QED BY <1>3, <1>5, <1>6 DEF IInv

-----------------------------------------------------------------------------
(* The theorem *)

\* The invariant holds in the beginning.
LEMMA InitIsGood ==
  ASSUME WorkQueueAssumption, Init
  PROVE  IInv
<1>1. \A i : ~Holds(taken, i) /\ ~Holds(invocations, i)
  BY DEF Init, Holds
<1>2. \A i \in Invocations : Untouched(i)
  BY <1>1 DEF Init, Untouched, Waiting
<1>3. Distinct(taken) /\ Distinct(invocations)
      /\ \A a, b : InOrder(taken, a, b) /\ InOrder(invocations, a, b)
  BY DEF Init, Distinct, InOrder
<1>4. TypeOK
  <2>1. timed \in BOOLEAN
    BY DEF Init, WorkQueueAssumption
  <2>2. ran \in [Invocations -> Nat] /\ given \in [Clients -> 0..2]
    BY DEF Init
  <2>3. /\ invocations \in Seq(Invocations) /\ taken \in Seq(Invocations)
        /\ poller = "run" <=> taken # << >>
        /\ poller = "loop" /\ stopper = "raise" /\ signal = "none"
    BY DEF Init
  <2>4. /\ event \in BOOLEAN /\ isPolled \in BOOLEAN /\ isNotified \in BOOLEAN
        /\ stopFlag \in BOOLEAN
    BY DEF Init
  <2> QED BY <2>1, <2>2, <2>3, <2>4 DEF TypeOK
<1>5. OnceInv /\ GivenInv /\ OrderInv /\ EventInv
  BY <1>1, <1>2, <1>3, ThreeInvocations
     DEF Init, OnceInv, GivenInv, OrderInv, EventInv, Waiting
<1> QED BY <1>4, <1>5 DEF IInv

\* Every step keeps the invariant.
LEMMA StepKeepsIInv ==
  ASSUME IInv, [Next]_vars
  PROVE  IInv'
<1>1. CASE UNCHANGED vars
  BY <1>1, IdleKeeps DEF vars, IInv, TypeOK, EventInv
<1>2. CASE Poll
  BY <1>2, IdleStepKeepsIInv, TakeKeepsIInv, RunKeepsIInv DEF Poll
<1>3. CASE WaitForWork \/ StopperStep
  BY <1>3, IdleStepKeepsIInv
<1>4. CASE \E c \in Clients : Schedule(c)
  BY <1>4, ScheduleKeepsIInv
<1> QED BY <1>1, <1>2, <1>3, <1>4 DEF Next

\* The invariant implies what the theorem says.
LEMMA InvariantKeepsOrder ==
  ASSUME IInv
  PROVE  RunsOnceInOrder /\ QuietMeansDone /\ NobodySleepsOnWork
<1>1. \A c \in Clients : ran[Second(c)] <= ran[First(c)]
  <2> SUFFICES ASSUME NEW c \in Clients PROVE ran[Second(c)] <= ran[First(c)]
    OBVIOUS
  <2>1. /\ ran[First(c)] \in Nat /\ ran[Second(c)] \in Nat /\ ran[Second(c)] <= 1
        /\ ran[First(c)] = 0 => ran[Second(c)] = 0
    BY ThreeInvocations DEF IInv, TypeOK, OnceInv, OrderInv
  <2> QED BY <2>1
<1>2. RunsOnceInOrder
  BY <1>1 DEF IInv, OnceInv, RunsOnceInOrder, First, Second
<1>3. QuietMeansDone
  BY DEF IInv, TypeOK, EventInv, QuietMeansDone, HasWorks
<1>4. NobodySleepsOnWork
  BY DEF IInv, EventInv, NobodySleepsOnWork
<1> QED BY <1>2, <1>3, <1>4

\* A client's invocations are run once and in the order they were handed over,
\* whatever batches the poller takes; hasWorks() never says no while one is
\* queued or taken out; and nobody sleeps on a queue that is not empty: for any
\* set of clients, with and without timeouts.
THEOREM QueueIsSafe ==
  ASSUME WorkQueueAssumption
  PROVE  Spec => [](TypeOK /\ RunsOnceInOrder /\ QuietMeansDone /\ NobodySleepsOnWork)
<1>1. Init => IInv
  BY InitIsGood
<1>2. IInv /\ [Next]_vars => IInv'
  BY StepKeepsIInv
<1>3. IInv => TypeOK /\ RunsOnceInOrder /\ QuietMeansDone /\ NobodySleepsOnWork
  BY InvariantKeepsOrder DEF IInv
<1> QED BY <1>1, <1>2, <1>3, PTL DEF Spec

=============================================================================
