--------------------------- MODULE CoreTask_proofs ---------------------------
(***************************************************************************)
(* Proofs about CoreTask, for every number of resolvers.  The inductive    *)
(* invariant IInv is the conjunction of the named parts below: who holds   *)
(* each spin lock, which resolver has won and how far it is, where the     *)
(* ready callback and the continuation are, and which references remain.   *)
(* Then about what threads do around tasks, each with an invariant of its  *)
(* own: Timers, for any timers (who is inside of the lock of a state, and  *)
(* what a mark keeps away), Waiting, for any finite set of threads,        *)
(* Executors, for any executors, threads and coroutines, and StreamSocket, *)
(* for any numbers of packets, calls and clients.                          *)
(***************************************************************************)
EXTENDS CoreTask, Timers, Waiting, Executors, StreamSocket, FiniteSetTheorems, TLAPS

\* Each of the two spin locks is held by the one thread inside its section.
LocksInv ==
  /\ \A r \in Resolvers :
       pc[r] \in {"resolveLocked", "resolveUnlock"} => "ResolveLocked" \in flags
  /\ \A r, s \in Resolvers :
       /\ pc[r] \in {"resolveLocked", "resolveUnlock"}
       /\ pc[s] \in {"resolveLocked", "resolveUnlock"}
       => r = s
  /\ \A r \in Resolvers : pc[r] = "callbackTake" =>
       /\ "ReadyCallbackLocked" \in flags
       /\ pc[Registrar] \notin {"setCallbackCheck", "setCallbackStore"}
  /\ pc[Registrar] \in {"setCallbackCheck", "setCallbackStore"} =>
       "ReadyCallbackLocked" \in flags

\* The resolver whose outcome was stored is the only one beyond the check of
\* the Ready flag; the others are still to come or have been turned away.
WinnerInv ==
  /\ outcome # NoOutcome <=> "Ready" \in flags
  /\ \A r \in Resolvers :
       IF outcome # NoOutcome /\ outcome.by = r
       THEN /\ pc[r] \notin {"resolve", "resolveLocked"}
            /\ result[r] = IF pc[r] = "done" THEN "true" ELSE "pending"
       ELSE \/ /\ pc[r] \in {"resolve", "resolveLocked"}
               /\ result[r] = "pending"
            \/ /\ outcome # NoOutcome
               /\ pc[r] \in {"return", "done"}
               /\ result[r] = "false"

\* The ready callback is in one place at a time: with the registrar, in the
\* task, in the hands of the thread that invokes it, or invoked.
CallbackInv ==
  /\ notified \in {0, 1}
  /\ notified = 0 => "container" \in refs
  /\ notified = 1 => /\ ~readyCallback
                     /\ pc[Registrar] = "done"
                     /\ \A r \in Resolvers : pc[r] # "callbackInvoke"
  /\ readyCallback => /\ pc[Registrar] = "done"
                      /\ \A r \in Resolvers : pc[r] # "callbackInvoke"
  /\ \A r \in Resolvers : pc[r] = "callbackInvoke" => pc[Registrar] = "done"
  /\ pc[Registrar] = "callbackInvoke" => "Ready" \in flags
  /\ readyCallback /\ "Ready" \in flags => CallbackAhead(outcome.by)
  /\ pc[Registrar] = "setCallbackStore" /\ "Ready" \in flags =>
       pc[outcome.by] \in {"resolveUnlock", "callbackLock"}

\* The continuation is published, claimed by one thread, and dispatched.
ContinuationInv ==
  /\ "HasContinuation" \in flags =>
       pc[Awaiter] \in {"checkFlags", "claim", "dispatch", "inline", "done"}
  /\ pc[Awaiter] \in {"checkFlags", "claim", "dispatch", "inline"} =>
       "HasContinuation" \in flags
  /\ pc[Awaiter] = "flagContinuation" => continuation
  /\ "ContinuationScheduled" \in flags => {"Ready", "HasContinuation"} \subseteq flags
  /\ "HasContinuation" \in flags /\ "ContinuationScheduled" \notin flags => continuation
  /\ "ContinuationScheduled" \notin flags => runner = "none"
  /\ \A t \in Threads : pc[t] = "claim" => {"Ready", "HasContinuation"} \subseteq flags
  /\ \A t \in Threads : pc[t] = "dispatch" =>
       "ContinuationScheduled" \in flags /\ continuation /\ runner = "none"
  /\ \A t, u \in Threads : pc[t] = "dispatch" /\ pc[u] = "dispatch" => t = u
  /\ /\ {"Ready", "HasContinuation"} \subseteq flags
     /\ "ContinuationScheduled" \notin flags
     => ClaimAhead(outcome.by) \/ ClaimAhead(Awaiter)

\* The coroutine has been given the outcome, by its continuation or because it
\* never had to suspend.
Resumed ==
  \/ runner = "finished"
  \/ pc[Awaiter] = "done" /\ "HasContinuation" \notin flags

\* Until then its frame keeps a reference, and each resolver keeps his.
ReferencesInv ==
  /\ \A r \in Resolvers : pc[r] # "done" => r \in refs
  /\ ~Resumed => delivered = << >> /\ "frame" \in refs
  /\ pc[Awaiter] \in {"awaitGetError", "suspendGetError"} => "Ready" \in flags

IInv == TypeOK /\ LocksInv /\ WinnerInv /\ CallbackInv /\ ContinuationInv /\ ReferencesInv

\* A resolver keeps the invariant at each step of tryResolveInternal up to the
\* check for a continuation: only the first under the lock stores its outcome.
LEMMA ResolveStep ==
  ASSUME NEW r \in Resolvers, IInv, Resolve(r) PROVE IInv'
<1> USE ThreadsAssumption DEF IInv, Threads, Goto,
           Resolve, LockResolve, ResolveTooLate, ResolveNow, UnlockResolve,
           LockTakeCallback, TakeCallback, ReturnFromResolve, LockFlag, AlreadyResolved
<1>1. TypeOK'
  <2>1. CASE LockResolve(r)
    BY <2>1 DEF TypeOK, Flags, Kinds, Owners, ResolverLocs, AwaiterLocs, RegistrarLocs
  <2>2. CASE ResolveTooLate(r)
    BY <2>2 DEF TypeOK, Flags, Kinds, Owners, ResolverLocs, AwaiterLocs, RegistrarLocs
  <2>3. CASE ResolveNow(r)
    BY <2>3 DEF TypeOK, Flags, Kinds, Owners, ResolverLocs, AwaiterLocs, RegistrarLocs
  <2>4. CASE UnlockResolve(r)
    BY <2>4 DEF TypeOK, Flags, Kinds, Owners, ResolverLocs, AwaiterLocs, RegistrarLocs
  <2>5. CASE LockTakeCallback(r)
    BY <2>5 DEF TypeOK, Flags, Kinds, Owners, ResolverLocs, AwaiterLocs, RegistrarLocs
  <2>6. CASE TakeCallback(r)
    BY <2>6 DEF TypeOK, Flags, Kinds, Owners, ResolverLocs, AwaiterLocs, RegistrarLocs
  <2>7. CASE ReturnFromResolve(r)
    BY <2>7 DEF TypeOK, Flags, Kinds, Owners, ResolverLocs, AwaiterLocs, RegistrarLocs
  <2> QED
    BY <2>1, <2>2, <2>3, <2>4, <2>5, <2>6, <2>7
<1>2. LocksInv'
  BY DEF TypeOK, LocksInv, WinnerInv
<1>3. WinnerInv'
  BY DEF TypeOK, LocksInv, WinnerInv, ResolverLocs
<1>4. CallbackInv'
  BY DEF TypeOK, LocksInv, WinnerInv, CallbackInv, CallbackAhead
<1>5. ContinuationInv'
  BY DEF TypeOK, LocksInv, WinnerInv, ContinuationInv, ClaimAhead, CallbackAhead
<1>6. ReferencesInv'
  BY DEF TypeOK, LocksInv, WinnerInv, CallbackInv, ContinuationInv, ReferencesInv, Resumed
<1> QED
  BY <1>1, <1>2, <1>3, <1>4, <1>5, <1>6

\* So does the registrar in setReadyCallback: a callback that is stored finds the
\* task pending, and the winner still ahead of taking it.
LEMMA SetReadyCallbackStep ==
  ASSUME IInv, SetReadyCallback PROVE IInv'
<1> USE ThreadsAssumption DEF IInv, Threads, Goto,
           SetReadyCallback, LockSetCallback, SetCallbackReady,
           SetCallbackPending, StoreCallback, LockFlag
<1>1. TypeOK'
  <2>1. CASE LockSetCallback
    BY <2>1 DEF TypeOK, Flags, Kinds, Owners, ResolverLocs, AwaiterLocs, RegistrarLocs
  <2>2. CASE SetCallbackReady
    BY <2>2 DEF TypeOK, Flags, Kinds, Owners, ResolverLocs, AwaiterLocs, RegistrarLocs
  <2>3. CASE SetCallbackPending
    BY <2>3 DEF TypeOK, Flags, Kinds, Owners, ResolverLocs, AwaiterLocs, RegistrarLocs
  <2>4. CASE StoreCallback
    BY <2>4 DEF TypeOK, Flags, Kinds, Owners, ResolverLocs, AwaiterLocs, RegistrarLocs
  <2> QED
    BY <2>1, <2>2, <2>3, <2>4
<1>2. LocksInv'
  BY DEF TypeOK, LocksInv, WinnerInv
<1>3. WinnerInv'
  BY DEF TypeOK, LocksInv, WinnerInv, ResolverLocs
<1>4. CallbackInv'
  BY DEF TypeOK, LocksInv, WinnerInv, CallbackInv, CallbackAhead
<1>5. ContinuationInv'
  BY DEF TypeOK, LocksInv, WinnerInv, ContinuationInv, ClaimAhead, CallbackAhead
<1>6. ReferencesInv'
  BY DEF TypeOK, LocksInv, WinnerInv, CallbackInv, ContinuationInv, ReferencesInv, Resumed
<1> QED
  BY <1>1, <1>2, <1>3, <1>4, <1>5, <1>6

\* So does the awaiter, who publishes its continuation after it has stored it.
LEMMA AwaitStep ==
  ASSUME IInv, Await PROVE IInv'
<1> USE ThreadsAssumption DEF IInv, Threads, Goto,
           Await, AwaitReady, AwaitGetError, AwaitSuspend, SuspendGetError, AddRef,
           StoreContinuation, FlagContinuation, ResumeCoroutine
<1>1. TypeOK'
  <2>1. CASE AwaitReady
    BY <2>1 DEF TypeOK, Flags, Kinds, Owners, ResolverLocs, AwaiterLocs, RegistrarLocs
  <2>2. CASE AwaitGetError
    <3>1. outcome \in [by : Resolvers, kind : Kinds] /\ outcome.kind \in Kinds
      BY <2>2 DEF TypeOK, WinnerInv, ReferencesInv
    <3>2. delivered' = delivered \/ delivered' = Append(delivered, outcome.kind)
      BY <2>2
    <3>3. delivered' \in Seq(Kinds)
      BY <3>1, <3>2 DEF TypeOK
    <3> QED
      BY <2>2, <3>3 DEF TypeOK, Flags, Kinds, Owners, ResolverLocs, AwaiterLocs, RegistrarLocs
  <2>3. CASE AwaitSuspend
    BY <2>3 DEF TypeOK, Flags, Kinds, Owners, ResolverLocs, AwaiterLocs, RegistrarLocs
  <2>4. CASE SuspendGetError
    BY <2>4 DEF TypeOK, Flags, Kinds, Owners, ResolverLocs, AwaiterLocs, RegistrarLocs, WinnerInv, ReferencesInv
  <2>5. CASE AddRef
    BY <2>5 DEF TypeOK, Flags, Kinds, Owners, ResolverLocs, AwaiterLocs, RegistrarLocs
  <2>6. CASE StoreContinuation
    BY <2>6 DEF TypeOK, Flags, Kinds, Owners, ResolverLocs, AwaiterLocs, RegistrarLocs
  <2>7. CASE FlagContinuation
    BY <2>7 DEF TypeOK, Flags, Kinds, Owners, ResolverLocs, AwaiterLocs, RegistrarLocs
  <2> QED
    BY <2>1, <2>2, <2>3, <2>4, <2>5, <2>6, <2>7
<1>2. LocksInv'
  BY DEF TypeOK, LocksInv, WinnerInv
<1>3. WinnerInv'
  BY DEF TypeOK, LocksInv, WinnerInv, ResolverLocs
<1>4. CallbackInv'
  BY DEF TypeOK, LocksInv, WinnerInv, CallbackInv, CallbackAhead
<1>5. ContinuationInv'
  BY DEF TypeOK, LocksInv, WinnerInv, ContinuationInv, ClaimAhead, CallbackAhead
<1>6. ReferencesInv'
  BY DEF TypeOK, LocksInv, WinnerInv, CallbackInv, ContinuationInv, ReferencesInv, Resumed
<1> QED
  BY <1>1, <1>2, <1>3, <1>4, <1>5, <1>6

\* So does whoever has taken the ready callback and invokes it, once.
LEMMA RunCallbackStep ==
  ASSUME NEW t \in Threads, IInv, RunCallback(t) PROVE IInv'
<1> USE ThreadsAssumption DEF IInv, Threads, Goto,
           RunCallback, InvokeCallback
<1>1. TypeOK'
  BY DEF TypeOK, WinnerInv, ContinuationInv, ReferencesInv, Flags, Kinds, Owners, ResolverLocs, AwaiterLocs, RegistrarLocs
<1>2. LocksInv'
  BY DEF TypeOK, LocksInv, WinnerInv
<1>3. WinnerInv'
  BY DEF TypeOK, LocksInv, WinnerInv, ResolverLocs
<1>4. CallbackInv'
  <2>1. CASE t \in Resolvers
    BY <2>1 DEF TypeOK, LocksInv, WinnerInv, CallbackInv, CallbackAhead
  <2>2. CASE t = Registrar
    BY <2>2 DEF TypeOK, LocksInv, WinnerInv, CallbackInv, CallbackAhead
  <2>3. CASE t = Awaiter
    BY <2>3 DEF TypeOK, AwaiterLocs
  <2> QED
    BY <2>1, <2>2, <2>3
<1>5. ContinuationInv'
  BY DEF TypeOK, LocksInv, WinnerInv, ContinuationInv, ClaimAhead, CallbackAhead
<1>6. ReferencesInv'
  BY DEF TypeOK, LocksInv, WinnerInv, CallbackInv, ContinuationInv, ReferencesInv, Resumed
<1> QED
  BY <1>1, <1>2, <1>3, <1>4, <1>5, <1>6

\* So do both callers of tryScheduleContinuation: one of them claims the
\* continuation and the other turns back.
LEMMA TryScheduleContinuationStep ==
  ASSUME NEW t \in Threads, IInv, TryScheduleContinuation(t) PROVE IInv'
<1> USE ThreadsAssumption DEF IInv, Threads, Goto,
           TryScheduleContinuation, CheckFlags, Claim, Dispatch, InlineReturns, AfterSchedule
<1>1. TypeOK'
  <2>1. CASE CheckFlags(t)
    BY <2>1 DEF TypeOK, Flags, Kinds, Owners, ResolverLocs, AwaiterLocs, RegistrarLocs
  <2>2. CASE Claim(t)
    BY <2>2 DEF TypeOK, Flags, Kinds, Owners, ResolverLocs, AwaiterLocs, RegistrarLocs
  <2>3. CASE Dispatch(t)
    <3>1. t \in Resolvers \/ t = Awaiter
      BY <2>3 DEF TypeOK, RegistrarLocs
    <3>2. PICK to \in {"inline", AfterSchedule(t)} : pc' = [pc EXCEPT ![t] = to]
      BY <2>3
    <3> QED
      BY <2>3, <3>1, <3>2 DEF TypeOK, Flags, Kinds, Owners, ResolverLocs, AwaiterLocs, RegistrarLocs
  <2>4. CASE InlineReturns(t)
    BY <2>4 DEF TypeOK, Flags, Kinds, Owners, ResolverLocs, AwaiterLocs, RegistrarLocs
  <2> QED
    BY <2>1, <2>2, <2>3, <2>4
<1>2. LocksInv'
  BY DEF TypeOK, LocksInv, WinnerInv
<1>3. WinnerInv'
  BY DEF TypeOK, LocksInv, WinnerInv, ResolverLocs
<1>4. CallbackInv'
  BY DEF TypeOK, LocksInv, WinnerInv, CallbackInv, CallbackAhead
<1>5. ContinuationInv'
  BY DEF TypeOK, LocksInv, WinnerInv, ContinuationInv, ClaimAhead, CallbackAhead
<1>6. ReferencesInv'
  BY DEF TypeOK, LocksInv, WinnerInv, CallbackInv, ContinuationInv, ReferencesInv, Resumed
<1> QED
  BY <1>1, <1>2, <1>3, <1>4, <1>5, <1>6

\* So does the continuation's invocation, on whatever thread it runs.
LEMMA RunContinuationStep ==
  ASSUME IInv, RunContinuation PROVE IInv'
<1> USE ThreadsAssumption DEF IInv, Threads, Goto,
           RunContinuation, ContinuationGetError, ContinuationReleaseRef,
           ContinuationResume, ResumeCoroutine
<1>1. TypeOK'
  <2>1. CASE ContinuationGetError
    BY <2>1 DEF TypeOK, Flags, Kinds, Owners, ResolverLocs, AwaiterLocs, RegistrarLocs
  <2>2. CASE ContinuationReleaseRef
    BY <2>2 DEF TypeOK, Flags, Kinds, Owners, ResolverLocs, AwaiterLocs, RegistrarLocs
  <2>3. CASE ContinuationResume
    BY <2>3 DEF TypeOK, Flags, Kinds, Owners, ResolverLocs, AwaiterLocs, RegistrarLocs, WinnerInv, ContinuationInv
  <2> QED
    BY <2>1, <2>2, <2>3
<1>2. LocksInv'
  BY DEF TypeOK, LocksInv, WinnerInv
<1>3. WinnerInv'
  BY DEF TypeOK, LocksInv, WinnerInv, ResolverLocs
<1>4. CallbackInv'
  BY DEF TypeOK, LocksInv, WinnerInv, CallbackInv, CallbackAhead
<1>5. ContinuationInv'
  BY DEF TypeOK, LocksInv, WinnerInv, ContinuationInv, ClaimAhead, CallbackAhead
<1>6. ReferencesInv'
  BY DEF TypeOK, LocksInv, WinnerInv, CallbackInv, ContinuationInv, ReferencesInv, Resumed
<1> QED
  BY <1>1, <1>2, <1>3, <1>4, <1>5, <1>6

\* A new task is as the invariant says.
LEMMA InitIInv == Init => IInv
<1> SUFFICES ASSUME Init PROVE IInv
  OBVIOUS
<1> USE ThreadsAssumption DEF Init, Threads
<1>0. /\ \A r \in Resolvers : pc[r] = "resolve"
      /\ pc[Awaiter] = "awaitReady"
      /\ pc[Registrar] = "setCallbackLock"
      /\ \A t \in Threads : pc[t] \in {"resolve", "awaitReady", "setCallbackLock"}
  OBVIOUS
<1>1. TypeOK
  <2>1. pc \in [Threads -> ResolverLocs \cup AwaiterLocs \cup RegistrarLocs]
    BY DEF ResolverLocs, AwaiterLocs, RegistrarLocs
  <2>2. delivered \in Seq(Kinds)
    OBVIOUS
  <2> QED
    BY <1>0, <2>1, <2>2 DEF TypeOK, Flags, Owners, ResolverLocs, AwaiterLocs, RegistrarLocs
<1>2. LocksInv /\ WinnerInv
  BY DEF LocksInv, WinnerInv
<1> HIDE DEF Init, Threads
<1>3. CallbackInv
  <2>1. notified = 0 /\ "container" \in refs /\ ~readyCallback
    BY DEF Init
  <2> QED
    BY <1>0, <2>1 DEF CallbackInv
<1>5. ContinuationInv
  <2>1. flags = {} /\ runner = "none"
    BY DEF Init
  <2> QED
    BY <1>0, <2>1 DEF ContinuationInv
<1>4. ReferencesInv
  BY <1>0 DEF ReferencesInv, Resumed, Init
<1> QED
  BY <1>1, <1>2, <1>3, <1>4, <1>5 DEF IInv

\* Every step of whatever thread keeps the invariant.
LEMMA NextIInv == IInv /\ [Next]_vars => IInv'
<1> SUFFICES ASSUME IInv, [Next]_vars PROVE IInv'
  OBVIOUS
<1>1. ASSUME NEW t \in Threads, ThreadStep(t) PROVE IInv'
  BY <1>1, ResolveStep, SetReadyCallbackStep, AwaitStep, RunCallbackStep,
     TryScheduleContinuationStep DEF ThreadStep
<1>2. CASE RunContinuation
  BY <1>2, RunContinuationStep
<1>3. CASE Terminated \/ UNCHANGED vars
  BY <1>3 DEF Terminated, vars, IInv, TypeOK, LocksInv, WinnerInv, CallbackInv,
     ContinuationInv, ReferencesInv, Resumed, CallbackAhead, ClaimAhead
<1> QED
  BY <1>1, <1>2, <1>3 DEF Next

\* The invariant holds in every behaviour of the task.
THEOREM Invariance == Spec => []IInv
BY InitIInv, NextIInv, PTL DEF Spec

\* For any number of resolvers the state keeps its type.
THEOREM Typing == Spec => []TypeOK
<1>1. IInv => TypeOK
  BY DEF IInv
<1> QED
  BY <1>1, Invariance, PTL

\* tryResolveInternal returns true to the one resolver whose outcome is kept,
\* and to nobody else, however many of them race.
THEOREM ResultIsTruthful == Spec => []TruthfulResult
<1>1. IInv => TruthfulResult
  BY DEF IInv, TypeOK, WinnerInv, TruthfulResult
<1> QED
  BY <1>1, Invariance, PTL

\* A ready callback that races with the resolution of the task is not lost.
THEOREM CallbackIsNotLost == Spec => []NoLostCallback
<1>1. IInv => NoLostCallback
  BY DEF IInv, TypeOK, WinnerInv, CallbackInv, NoLostCallback
<1> QED
  BY <1>1, Invariance, PTL

\* A continuation that races with the resolution of the task is not lost.
THEOREM ContinuationIsNotLost == Spec => []NoLostContinuation
<1>1. IInv => NoLostContinuation
  BY DEF IInv, TypeOK, WinnerInv, ContinuationInv, NoLostContinuation, Threads
<1> QED
  BY <1>1, Invariance, PTL

\* The assertions on m_continuation in tryScheduleContinuation hold: the thread
\* that has claimed the continuation is alone and finds it.
THEOREM ClaimIsExclusive == Spec => []ClaimedContinuationIsThere
<1>1. IInv => ClaimedContinuationIsThere
  BY DEF IInv, ContinuationInv, ClaimedContinuationIsThere
<1> QED
  BY <1>1, Invariance, PTL

\* Neither a ready callback nor a continuation is left behind, whichever order
\* resolve, setContinuation and setReadyCallback come in.
THEOREM NothingLeftBehind == Spec => []NothingIsLost
  BY CallbackIsNotLost, ContinuationIsNotLost, ClaimIsExclusive, PTL DEF NothingIsLost

\* Resolvers, the registrar and the continuation only ever touch a live task.
THEOREM UsersKeepTheTask == Spec => []NoUseAfterRelease
<1>1. IInv => NoUseAfterRelease
  <2> SUFFICES ASSUME IInv PROVE NoUseAfterRelease
    OBVIOUS
  <2> USE ThreadsAssumption DEF IInv, TypeOK, Threads
  <2>1. ASSUME NEW r \in Resolvers, Touches(r) PROVE refs # {}
    BY <2>1 DEF Touches, ReferencesInv
  <2>2. ASSUME Touches(Registrar) PROVE refs # {}
    BY <2>2 DEF Touches, CallbackInv
  <2>3. ASSUME pc[Awaiter] \notin {"checkFlags", "claim", "dispatch", "inline", "done"}
        PROVE refs # {}
    BY <2>3 DEF ContinuationInv, ReferencesInv, Resumed
  <2>4. ASSUME RunnerTouches PROVE refs # {}
    BY <2>4 DEF RunnerTouches, ContinuationInv, ReferencesInv, Resumed
  <2> QED
    BY <2>1, <2>2, <2>3, <2>4 DEF NoUseAfterRelease
<1> QED
  BY <1>1, Invariance, PTL

-----------------------------------------------------------------------------
(* CoreTask implements the safety part of TaskContract. *)

\* A new task is an unsettled one of the contract.
LEMMA InitContract == Init => Contract!Init
BY DEF Init, Contract!Init

\* Each step of a thread is a step of the contract or none: what is settled and
\* delivered changes as the contract allows.
LEMMA StepContract == IInv /\ [Next]_vars => [Contract!Next]_Contract!contractVars
<1> SUFFICES ASSUME IInv, [Next]_vars
             PROVE Contract!Next \/ UNCHANGED Contract!contractVars
  OBVIOUS
<1> USE ThreadsAssumption DEF IInv, TypeOK, Threads, Goto, Contract!contractVars
<1>1. ASSUME NEW r \in Resolvers, Resolve(r)
      PROVE Contract!Next \/ UNCHANGED Contract!contractVars
  <2>1. CASE ResolveNow(r)
    BY <2>1 DEF ResolveNow, AlreadyResolved, WinnerInv, Contract!Next,
       Contract!Settle, Kinds, Contract!Kinds
  <2>2. CASE ~ResolveNow(r)
    BY <1>1, <2>2 DEF Resolve, LockResolve, ResolveTooLate, UnlockResolve,
       LockTakeCallback, TakeCallback, ReturnFromResolve
  <2> QED
    BY <2>1, <2>2
<1>2. CASE SetReadyCallback
  BY <1>2 DEF SetReadyCallback, LockSetCallback, SetCallbackReady,
     SetCallbackPending, StoreCallback
<1>3. CASE Await
  <2>1. CASE AwaitGetError \/ SuspendGetError
    <3>1. outcome # NoOutcome /\ delivered = << >>
      BY <2>1 DEF AwaitGetError, SuspendGetError, WinnerInv, ReferencesInv,
         ContinuationInv, Resumed
    <3>2. UNCHANGED <<outcome, notified>>
      BY <2>1 DEF AwaitGetError, SuspendGetError
    <3>3. delivered' = delivered \/ delivered' = Append(delivered, outcome.kind)
      BY <2>1 DEF AwaitGetError, SuspendGetError, ResumeCoroutine
    <3>4. delivered' = delivered \/ delivered' = <<outcome.kind>>
      BY <3>1, <3>3
    <3> QED
      BY <3>1, <3>2, <3>4 DEF Contract!Next, Contract!Deliver
  <2>2. CASE ~(AwaitGetError \/ SuspendGetError)
    BY <1>3, <2>2 DEF Await, AwaitReady, AwaitSuspend, AddRef, StoreContinuation,
       FlagContinuation
  <2> QED
    BY <2>1, <2>2
<1>4. ASSUME NEW t \in Threads, RunCallback(t)
      PROVE Contract!Next \/ UNCHANGED Contract!contractVars
  <2>1. outcome # NoOutcome
    BY <1>4 DEF RunCallback, WinnerInv, CallbackInv, AwaiterLocs
  <2>2. notified = 0
    BY <1>4 DEF RunCallback, CallbackInv, AwaiterLocs
  <2> QED
    BY <1>4, <2>1, <2>2 DEF RunCallback, InvokeCallback, Contract!Next, Contract!Notify
<1>5. ASSUME NEW t \in Threads, TryScheduleContinuation(t)
      PROVE Contract!Next \/ UNCHANGED Contract!contractVars
  BY <1>5 DEF TryScheduleContinuation, CheckFlags, Claim, Dispatch, InlineReturns
<1>6. CASE RunContinuation
  <2>1. CASE ContinuationResume
    <3>1. outcome # NoOutcome /\ delivered = << >>
      BY <2>1 DEF ContinuationResume, WinnerInv, ReferencesInv, ContinuationInv, Resumed
    <3>2. delivered' = <<outcome.kind>>
      BY <2>1, <3>1 DEF ContinuationResume, ResumeCoroutine
    <3> QED
      BY <2>1, <3>1, <3>2 DEF ContinuationResume, Contract!Next, Contract!Deliver
  <2>2. CASE ~ContinuationResume
    BY <1>6, <2>2 DEF RunContinuation, ContinuationGetError, ContinuationReleaseRef
  <2> QED
    BY <2>1, <2>2
<1>7. CASE Terminated \/ UNCHANGED vars
  BY <1>7 DEF Terminated, vars
<1> QED
  BY <1>1, <1>2, <1>3, <1>4, <1>5, <1>6, <1>7 DEF Next, ThreadStep

\* For any number of resolvers a task is settled at most once, and its outcome
\* is handed at most once to the coroutine and to the callback, never before.
THEOREM SafeContract == Spec => Contract!SafeSpec
BY InitContract, StepContract, Invariance, PTL DEF Spec, Contract!SafeSpec

-----------------------------------------------------------------------------
(* The timers *)

TimersTypeOK ==
  /\ list \subseteq TimerIds /\ cancelled \subseteq TimerIds /\ remaining \subseteq TimerIds
  /\ stateLock \in [TimerIds -> TimerIds \cup {Free}]
  /\ at \in [TimerIds -> {"new", "awaiting", "lockState", "checkState", "calling", "unlockState",
                          "destroy", "deleteTimer", "done"}]
  /\ called \in [TimerIds -> {"no", "ok", "error"}]
  /\ canceller \in {"idle", "mark", "resolve", "delete", "returned"}
  /\ canceller # "idle" => target \in Invoked

\* Who is inside of the section of its state has its lock, and a timer is listed from
\* its start to its end.
StatesInv ==
  /\ \A i \in TimerIds : at[i] \in {"checkState", "calling", "unlockState"} => stateLock[i] = i
  /\ \A i \in TimerIds : at[i] \in {"new", "deleteTimer", "done"} \/ i \in list

\* Past the mark a timer does not come to its callback; one that was not listed any
\* more had left it behind.
MarkInv ==
  /\ canceller \in {"resolve", "delete"} => target \in cancelled /\ at[target] # "calling"
  /\ canceller = "returned" => \/ target \in cancelled /\ at[target] # "calling"
                               \/ at[target] \in {"deleteTimer", "done"}

TimersInv == TimersTypeOK /\ StatesInv /\ MarkInv

\* The steps of a timer.
LEMMA TimerKeepsTimers ==
  ASSUME TimersAssumption, TimersInv, NEW i \in TimerIds, Start(i) \/ Fire(i) \/ TimerStep(i)
  PROVE  TimersInv'
<1> USE DEF TimerStep, Start, Fire, TimerCallback, Resume, LockState, CheckCancelled, Call,
            UnlockState, Unlist, DeleteTimer, TimerGoto, KeepCallers, TimersInv, TimersTypeOK
<1>1. TimersTypeOK'
  OBVIOUS
<1>2. StatesInv'
  BY DEF StatesInv
<1>3. MarkInv'
  BY DEF MarkInv, TimerIds
<1> QED
  BY <1>1, <1>2, <1>3

\* The steps of cancelInvokeAfter and of dispose.
LEMMA CallersKeepTimers ==
  ASSUME TimersAssumption, TimersInv, CancelLock \/ CancelStep \/ DisposeFlag \/ DisposeStep
  PROVE  TimersInv'
<1> USE DEF CancelStep, CancelLock, CancelMark, CancelResolve, CancelReturn, DisposeFlag,
            DisposeStep, DisposeLock, DisposeOne, DisposeReturn, MarkCancelled, TimersInv,
            TimersTypeOK
<1>1. TimersTypeOK'
  BY DEF TimerIds
<1>2. StatesInv'
  BY DEF StatesInv
<1>3. MarkInv'
  BY DEF MarkInv, StatesInv, TimerIds, TimersAssumption
<1> QED
  BY <1>1, <1>2, <1>3

\* Once cancelInvokeAfter has returned, the callback of its timer does not start, and
\* one that was running has come to its end.
THEOREM CancelledIsSilent ==
  ASSUME TimersAssumption
  PROVE  TimersSpec => SilentAfterCancel
<1> DEFINE Silent == \A i \in Invoked : called[i] # called'[i]
                                         => ~(canceller = "returned" /\ target = i)
<1>1. TimersInit => TimersInv
  BY DEF TimersInit, TimersInv, TimersTypeOK, StatesInv, MarkInv
<1>2. TimersInv /\ [TimersNext]_timerVars => TimersInv'
  <2>1. CASE UNCHANGED timerVars
    BY <2>1 DEF timerVars, TimersInv, TimersTypeOK, StatesInv, MarkInv
  <2>2. CASE TimersNext
    BY <2>2, TimerKeepsTimers, CallersKeepTimers DEF TimersNext
  <2> QED
    BY <2>1, <2>2
<1>3. TimersInv /\ [TimersNext]_timerVars => [Silent]_timerVars
  <2> SUFFICES ASSUME TimersInv, TimersNext, NEW i \in Invoked, called[i] # called'[i]
               PROVE  ~(canceller = "returned" /\ target = i)
    BY DEF timerVars
  <2>1. i \in TimerIds /\ i \notin Plain
    BY DEF TimerIds, TimersAssumption
  <2>2. Call(i)
    BY <2>1 DEF TimersNext, TimerStep, Start, Fire, TimerCallback, Resume, LockState,
       CheckCancelled, Call, UnlockState, Unlist, DeleteTimer, CancelStep, CancelLock, CancelMark,
       CancelResolve, CancelReturn, DisposeFlag, DisposeStep, DisposeLock, DisposeOne,
       DisposeReturn, TimersInv, TimersTypeOK
  <2> QED
    BY <2>2 DEF Call, TimerGoto, TimersInv, MarkInv
<1> QED
  BY <1>1, <1>2, <1>3, PTL DEF TimersSpec, SilentAfterCancel

-----------------------------------------------------------------------------
(* Threads that wait for each other *)

\* What the setter of a wait without timeout has in hand, or will find, the waiter
\* waits for; a signal, and what comes of it, means that the task is ready.
WaitInv ==
  /\ timed \in BOOLEAN /\ taskReady \in BOOLEAN
  /\ waitCallback \in BOOLEAN /\ touchedDead \in BOOLEAN
  /\ waiter \in {"start", "register"} => ~waitCallback /\ setter # "set"
  /\ waiter = "start" => event = "none"
  /\ waiter = "register" => event = "clear"
  /\ setter \in {"set", "done"} => ~waitCallback
  /\ ~timed /\ (waitCallback \/ setter = "set") => waiter = "wait" /\ event = "clear"
  /\ setter # "idle" \/ event = "signaled" \/ waitResult = "true" => taskReady
  /\ ~timed => ~touchedDead

\* The counter is the number of threads that have entered, and whoever goes on knew
\* it to be complete.
Inside == {t \in Attendees : place[t] # "outside"}
BarrierInv ==
  /\ place \in [Attendees -> {"outside", "notify", "lock", "check", "sleep", "asleep", "woken", "late",
                         "giveUp", "left"}]
  /\ entered \in [Attendees -> {"none", "true", "false"}]
  /\ arrived = Cardinality(Inside)
  /\ \A t \in Attendees : place[t] = "notify" \/ entered[t] = "true" => arrived = Total

\* The steps of a wait.
LEMMA WaitKeepsInv ==
  ASSUME WaitInv, WaitNext
  PROVE  WaitInv'
<1>1. CASE MakeReady
  BY <1>1, Zenon DEF MakeReady, WaitInv
<1>2. CASE TakeWaitCallback
  BY <1>2, Zenon DEF TakeWaitCallback, WaitInv
<1>3. CASE SetEvent
  <2>1. touchedDead' \in BOOLEAN /\ (event # "gone" => ~touchedDead')
    BY <1>3, Zenon DEF SetEvent
  <2>2. ~timed => event = "clear" /\ ~waitCallback'
    BY <1>3, Zenon DEF SetEvent, WaitInv
  <2>3. setter' = "done" /\ taskReady /\ waiter \notin {"start", "register"}
    BY <1>3, Zenon DEF SetEvent, WaitInv
  <2> QED
    BY <1>3, <2>1, <2>2, <2>3, Zenon DEF SetEvent, WaitInv
<1>4. CASE AlreadyReady
  BY <1>4, Zenon DEF AlreadyReady, WaiterGoes, WaitInv
<1>5. CASE MakeEvent
  BY <1>5, Zenon DEF MakeEvent, WaiterGoes, WaitInv
<1>6. CASE RegisterCallback
  BY <1>6, Zenon DEF RegisterCallback, WaiterGoes, WaitInv
<1>7. CASE WaitSucceeds
  BY <1>7, Zenon DEF WaitSucceeds, WaiterGoes, WaitInv
<1>8. CASE WaitTimesOut
  BY <1>8, Zenon DEF WaitTimesOut, WaiterGoes, WaitInv
<1>9. CASE DestroyEvent
  BY <1>9, Zenon DEF DestroyEvent, WaiterGoes, WaitInv
<1>10. CASE ClearCallback
  BY <1>10, Zenon DEF ClearCallback, WaiterGoes, WaitInv
<1> QED
  BY <1>1, <1>2, <1>3, <1>4, <1>5, <1>6, <1>7, <1>8, <1>9, <1>10
  DEF WaitNext, WaiterStep, SetterStep

\* A thread that enters adds itself to those inside, which makes the barrier complete
\* when it was the last one.
LEMMA EnterKeepsBarrier ==
  ASSUME BarrierAssumption, BarrierInv, NEW t \in Attendees, Enter(t)
  PROVE  BarrierInv'
<1>1. t \notin Inside /\ Inside' = Inside \cup {t}
  BY DEF Enter, BarrierGoto, BarrierInv, Inside
<1>2. IsFiniteSet(Attendees) /\ Inside \subseteq Attendees /\ IsFiniteSet(Inside)
  BY FS_Subset DEF BarrierAssumption, Inside
<1>3. Cardinality(Inside') = Cardinality(Inside) + 1
  BY <1>1, <1>2, FS_AddElement
<1>4. Cardinality(Inside) \in Nat /\ Total \in Nat /\ Cardinality(Inside) < Total
  BY <1>1, <1>2, FS_Subset, FS_CardinalityType DEF Total
<1>5. /\ place' \in [Attendees -> {"outside", "notify", "lock", "check", "sleep", "asleep", "woken",
                              "late", "giveUp", "left"}]
      /\ arrived' = Cardinality(Inside') /\ UNCHANGED entered
  BY <1>3 DEF Enter, BarrierGoto, BarrierInv
<1>6. \A u \in Attendees : (place[u] = "notify" \/ entered[u] = "true")' => arrived' = Total
  BY <1>3, <1>4 DEF Enter, BarrierGoto, BarrierInv
<1> QED
  BY <1>5, <1>6 DEF BarrierInv, Total

\* No other step changes who is inside, nor the counter.
LEMMA InsideKeepsBarrier ==
  ASSUME BarrierInv, NEW t \in Attendees,
         NotifyAll(t) \/ Lock(t) \/ Check(t) \/ Sleep(t) \/ TimeOut(t) \/ GiveUp(t)
  PROVE  BarrierInv'
<1> USE DEF NotifyAll, Lock, Check, Sleep, TimeOut, GiveUp, Leave, BarrierGoto, BarrierInv
<1>1. /\ place' \in [Attendees -> {"outside", "notify", "lock", "check", "sleep", "asleep", "woken",
                              "late", "giveUp", "left"}]
      /\ entered' \in [Attendees -> {"none", "true", "false"}] /\ UNCHANGED arrived
  OBVIOUS
<1>2. Inside' = Inside
  BY DEF Inside
<1>3. \A u \in Attendees : place'[u] = "notify" \/ entered'[u] = "true" => arrived = Total
  OBVIOUS
<1> QED
  BY <1>1, <1>2, <1>3 DEF Total

\* A wait without a timeout never lets the resolver set an event that is gone, TRUE from
\* wait() means a task that is ready, and nobody is told that all threads have come to
\* the barrier before they have.
THEOREM ThreadsMeetSafely ==
  ASSUME BarrierAssumption
  PROVE  WaitingSpec => [](EventOutlivesCallback /\ WaitIsTruthful /\ NobodyAhead)
<1>1. WaitingInit => WaitInv /\ BarrierInv
  <2>1. WaitInit => WaitInv
    BY DEF WaitInit, WaitInv
  <2>2. BarrierInit => BarrierInv
    <3> SUFFICES ASSUME BarrierInit PROVE BarrierInv
      OBVIOUS
    <3>1. Inside = {}
      BY DEF BarrierInit, Inside
    <3> QED
      BY <3>1, FS_EmptySet DEF BarrierInit, BarrierInv
  <2> QED
    BY <2>1, <2>2 DEF WaitingInit
<1>2. WaitInv /\ BarrierInv /\ [WaitingNext]_<<waitVars, barrierVars>> => WaitInv' /\ BarrierInv'
  <2> SUFFICES ASSUME WaitInv, BarrierInv, [WaitingNext]_<<waitVars, barrierVars>>
               PROVE  WaitInv' /\ BarrierInv'
    OBVIOUS
  <2>1. UNCHANGED waitVars => WaitInv'
    BY DEF waitVars, WaitInv
  <2>2. UNCHANGED barrierVars => BarrierInv'
    BY DEF barrierVars, BarrierInv, Inside, Total
  <2>3. BarrierNext => BarrierInv'
    BY EnterKeepsBarrier, InsideKeepsBarrier DEF BarrierNext, Step
  <2> QED
    BY <2>1, <2>2, <2>3, WaitKeepsInv DEF WaitingNext
<1>3. WaitInv /\ BarrierInv => EventOutlivesCallback /\ WaitIsTruthful /\ NobodyAhead
  BY DEF WaitInv, BarrierInv, EventOutlivesCallback, WaitIsTruthful, NobodyAhead
<1> QED
  BY <1>1, <1>2, <1>3, PTL DEF WaitingSpec

-----------------------------------------------------------------------------
(* The current executor *)

ExecTypeOK ==
  /\ guards \in [ExecThreads -> Seq(Execs)]
  /\ threadExec \in [ExecThreads -> Execs \cup {None}] /\ defaultExec \in Execs \cup {None}
  /\ holders \in [Execs -> SUBSET (Coros \cup {Owner, Finalizer})]
  /\ queued \in [Execs -> SUBSET Coros]
  /\ coro \in [Coros -> ExecThreads \cup {"new", "queued", "suspended", "done"}]
  /\ wanted \in [Coros -> Execs \cup {None}]

\* A coroutine is queued where it wants to go on, and holds a reference to the
\* executor it is queued to or suspended for.
QueuedInv ==
  \A c \in Coros :
    /\ \A e \in Execs : c \in queued[e] => coro[c] = "queued" /\ wanted[c] = e
    /\ coro[c] \in {"queued", "suspended"} /\ wanted[c] # None => c \in holders[wanted[c]]

ExecInv == ExecTypeOK /\ QueuedInv

\* The executor that is current on a thread is one, if there is any.
LEMMA CurrentType ==
  ASSUME ExecTypeOK, NEW t \in ExecThreads
  PROVE  Current(t) \in Execs \cup {None}
<1>1. CASE guards[t] # << >>
  <2>1. guards[t] \in Seq(Execs) /\ Len(guards[t]) \in 1..Len(guards[t])
    BY <1>1 DEF ExecTypeOK
  <2> QED
    BY <1>1, <2>1 DEF Current, Last
<1>2. CASE guards[t] = << >>
  BY <1>2 DEF Current, Weak, ExecTypeOK
<1> QED
  BY <1>1, <1>2

\* A guard less is a stack of guards as well.
LEMMA UnwindType ==
  ASSUME ExecTypeOK, NEW t \in ExecThreads, Unwind(t)
  PROVE  guards' \in [ExecThreads -> Seq(Execs)]
<1>1. guards[t] # << >> => Front(guards[t]) \in Seq(Execs)
  BY DEF ExecTypeOK, Front
<1> QED
  BY <1>1 DEF Unwind, ExecTypeOK

\* A coroutine that leaves its thread is queued, or suspended, or done.
LEMMA LeavingKeepsExec ==
  ASSUME ExecutorsAssumption, ExecInv, NEW c \in Coros,
         Suspend(c) \/ Finish(c) \/ \E e \in Execs : SwitchExecutor(c, e)
  PROVE  ExecInv'
<1>1. coro[c] \in ExecThreads /\ Unwind(coro[c])
  BY DEF Suspend, Finish, SwitchExecutor
<1>2. guards' \in [ExecThreads -> Seq(Execs)] /\ Current(coro[c]) \in Execs \cup {None}
  BY <1>1, UnwindType, CurrentType DEF ExecInv
<1>3. CASE Suspend(c)
  <2>1. ExecTypeOK'
    BY <1>2, <1>3 DEF Suspend, ExecInv, ExecTypeOK
  <2>2. QueuedInv'
    BY <1>1, <1>2, <1>3 DEF Suspend, ExecInv, ExecTypeOK, QueuedInv, ExecutorsAssumption
  <2> QED
    BY <2>1, <2>2 DEF ExecInv
<1>4. CASE Finish(c)
  <2>1. ExecTypeOK'
    BY <1>2, <1>4 DEF Finish, ExecInv, ExecTypeOK
  <2>2. QueuedInv'
    BY <1>1, <1>4 DEF Finish, ExecInv, ExecTypeOK, QueuedInv, ExecutorsAssumption
  <2> QED
    BY <2>1, <2>2 DEF ExecInv
<1>5. CASE \E e \in Execs : SwitchExecutor(c, e)
  <2>1. PICK e \in Execs : SwitchExecutor(c, e)
    BY <1>5
  <2>2. ExecTypeOK'
    BY <1>2, <2>1 DEF SwitchExecutor, Schedule, ExecInv, ExecTypeOK
  <2>3. QueuedInv'
    BY <1>1, <2>1 DEF SwitchExecutor, Schedule, ExecInv, ExecTypeOK, QueuedInv, ExecutorsAssumption
  <2> QED
    BY <2>2, <2>3 DEF ExecInv
<1> QED
  BY <1>3, <1>4, <1>5

\* A task is ready: its coroutine is queued where it wants to go on, or does right here.
LEMMA AwakeKeepsExec ==
  ASSUME ExecutorsAssumption, ExecInv, NEW c \in Coros, Awake(c)
  PROVE  ExecInv'
<1>1. ExecTypeOK'
  <2>1. CASE wanted[c] # None
    <3>1. /\ coro' = [coro EXCEPT ![c] = "queued"]
          /\ queued' = [queued EXCEPT ![wanted[c]] = @ \cup {c}] /\ wanted[c] \in Execs
          /\ UNCHANGED <<guards, threadExec, defaultExec, holders, wanted>>
      BY <2>1 DEF Awake, Schedule, ExecInv, ExecTypeOK
    <3> QED
      BY <3>1 DEF ExecInv, ExecTypeOK
  <2>2. CASE wanted[c] = None
    <3>1. PICK t \in ExecThreads : coro' = [coro EXCEPT ![c] = t]
      BY <2>2 DEF Awake
    <3> QED
      BY <2>2, <3>1 DEF Awake, ExecInv, ExecTypeOK
  <2> QED
    BY <2>1, <2>2
<1>2. QueuedInv'
  BY DEF Awake, Schedule, ExecInv, ExecTypeOK, QueuedInv, ExecutorsAssumption
<1> QED
  BY <1>1, <1>2 DEF ExecInv

\* A coroutine comes to a thread by a call, or out of a queue.
LEMMA ComingKeepsExec ==
  ASSUME ExecutorsAssumption, ExecInv, NEW c \in Coros, NEW t \in ExecThreads,
         StartCoroutine(c, t) \/ \E e \in Execs : Invoke(e, c, t)
  PROVE  ExecInv'
<1>1. CASE StartCoroutine(c, t)
  <2>1. ExecTypeOK'
    BY <1>1 DEF StartCoroutine, ExecInv, ExecTypeOK
  <2>2. QueuedInv'
    BY <1>1 DEF StartCoroutine, ExecInv, ExecTypeOK, QueuedInv, ExecutorsAssumption
  <2> QED
    BY <2>1, <2>2 DEF ExecInv
<1>2. CASE \E e \in Execs : Invoke(e, c, t)
  <2>1. PICK e \in Execs : Invoke(e, c, t)
    BY <1>2
  <2>2. ExecTypeOK'
    BY <2>1 DEF Invoke, ExecInv, ExecTypeOK
  <2>3. QueuedInv'
    BY <2>1 DEF Invoke, ExecInv, ExecTypeOK, QueuedInv, ExecutorsAssumption
  <2> QED
    BY <2>2, <2>3 DEF ExecInv
<1> QED
  BY <1>1, <1>2

\* Setting executors, and finalizing them.
LEMMA ExecutorsKeepExec ==
  ASSUME ExecutorsAssumption, ExecInv, NEW e \in Execs,
         \/ SetDefault(e) \/ BeginFinalize(e) \/ EndFinalize(e)
         \/ \E t \in ExecThreads : SetThisThreadExecutor(t, e)
  PROVE  ExecInv'
<1> USE DEF SetDefault, BeginFinalize, EndFinalize, SetThisThreadExecutor, ExecInv, ExecTypeOK
<1>1. ExecTypeOK'
  <2>1. CASE SetDefault(e) \/ \E t \in ExecThreads : SetThisThreadExecutor(t, e)
    BY <2>1
  <2>2. CASE BeginFinalize(e) \/ EndFinalize(e)
    BY <2>2
  <2> QED
    BY <2>1, <2>2
<1>2. QueuedInv'
  BY DEF QueuedInv, ExecutorsAssumption
<1> QED
  BY <1>1, <1>2

\* A coroutine that was scheduled, to switch or to go on after a task, resumes with the
\* executor it wanted as the current one, which no finalize() has let go of.
THEOREM CoroutinesResumeWhereTheyWant ==
  ASSUME ExecutorsAssumption
  PROVE  ExecSpec => ResumesOnWanted /\ []NothingQueuedBehind
<1> DEFINE Resumes == \A c \in Coros, t \in ExecThreads :
              (coro[c] = "queued" /\ coro'[c] = t) => Current(t)' = wanted[c]
<1>1. ExecInit => ExecInv
  BY DEF ExecInit, ExecInv, ExecTypeOK, QueuedInv, ExecutorsAssumption
<1>2. ExecInv /\ [ExecNext]_execVars => ExecInv'
  <2>1. ExecInv /\ UNCHANGED execVars => ExecInv'
    BY DEF execVars, ExecInv, ExecTypeOK, QueuedInv
  <2>2. ExecInv /\ ExecNext => ExecInv'
    BY AwakeKeepsExec, LeavingKeepsExec, ComingKeepsExec, ExecutorsKeepExec DEF ExecNext
  <2> QED
    BY <2>1, <2>2
<1>3. ExecInv /\ [ExecNext]_execVars => [Resumes]_execVars
  <2> SUFFICES ASSUME ExecInv, ExecNext, NEW c \in Coros, NEW t \in ExecThreads,
                      coro[c] = "queued", coro'[c] = t
               PROVE  Current(t)' = wanted[c]
    OBVIOUS
  <2>1. PICK e \in Execs : Invoke(e, c, t)
    BY DEF ExecNext, SetThisThreadExecutor, SetDefault, BeginFinalize, EndFinalize, Suspend,
           Awake, Finish, SwitchExecutor, StartCoroutine, Invoke, Schedule, ExecInv, ExecTypeOK,
           ExecutorsAssumption
  <2>2. guards'[t] = Append(guards[t], e) /\ guards[t] \in Seq(Execs) /\ wanted[c] = e
    BY <2>1 DEF Invoke, ExecInv, ExecTypeOK, QueuedInv
  <2>3. guards'[t] # << >> /\ Last(guards'[t]) = e
    BY <2>2 DEF Last
  <2> QED
    BY <2>2, <2>3 DEF Current
<1>4. ExecInv => NothingQueuedBehind
  BY DEF ExecInv, ExecTypeOK, QueuedInv, NothingQueuedBehind, Alive, ExecutorsAssumption
<1> QED
  BY <1>1, <1>2, <1>3, <1>4, PTL DEF ExecSpec, ResumesOnWanted

-----------------------------------------------------------------------------
(* A socket and a listener *)

Jobs == {"read", "resumeRead", "write", "resumeWrite", "close", "destroy"}
Queued(job) == job \in ToSet(queue)
Once(q) == \A i, j \in 1..Len(q) : q[i] = q[j] => i = j

SocketTypeOK ==
  /\ queue \in Seq(Jobs) /\ socketRefs \subseteq {"owner", "close", "read", "write"}
  /\ disposed \in BOOLEAN /\ alive \in BOOLEAN /\ stream \in BOOLEAN /\ source \in BOOLEAN
  /\ writes \in Nat /\ reader \in {"idle", "posted", "awaiting"}

\* A job is posted once, for whoever waits for it with a reference to the socket.
JobsInv ==
  /\ Once(queue)
  /\ Queued("read") => reader = "posted"
  /\ Queued("resumeRead") => reader = "awaiting" /\ ~source
  /\ source => reader = "awaiting"
  /\ reader # "idle" => "read" \in socketRefs
  /\ Queued("write") => writer = "posted"
  /\ Queued("resumeWrite") => writer = "called"
  /\ writes > 0 => writer = "writing" /\ writes = 1
  /\ writer \in {"posted", "writing", "called"} => "write" \in socketRefs
  /\ Queued("close") => "close" \in socketRefs
  /\ Queued("destroy") \/ "close" \in socketRefs => disposed

\* What is disposed and has its handle is still referred to by the job that closes
\* it, or by nobody: then the destructor waits for the job that does.
HandleInv ==
  /\ stream <=> phase = "open"
  /\ stream => alive
  /\ disposed /\ stream => "close" \in socketRefs \/ socketRefs = {}

\* What was received and what is pending are the packets, one by one, and a read() is
\* woken for data or for the end.
PacketsInv ==
  /\ received \in Seq(Nat) /\ pending \in Seq(Nat) /\ sent \in Nat
  /\ Len(received) + Len(pending) <= sent
  /\ \A i \in 1..Len(received) : received[i] = i
  /\ \A i \in 1..Len(pending) : pending[i] = Len(received) + i
  /\ Queued("resumeRead") => pending # << >> \/ ~stream
  /\ "empty" \notin answers

SocketInv == SocketTypeOK /\ JobsInv /\ HandleInv /\ PacketsInv

\* The mutex is held from the test of the server to the end of accept().
AcceptInv ==
  /\ accepted \in Seq(Nat) /\ delayed \in Seq(Nat) /\ connected \in Nat
  /\ acceptor \in {"idle", "checked", "waiting"}
  /\ acceptor # "idle" => acceptMutex # "free"
  /\ server => closer = "open"
  /\ server /\ (acceptor = "waiting" \/ acceptSource) => delayed = << >>

\* Clients, other than the null streams, follow each other in the order they came.
Ordered(s) == \A i, j \in 1..Len(s) : i < j /\ s[i] # 0 /\ s[j] # 0 => s[i] < s[j]

\* Every client that has come is in one of the lists; who is in accepted came before
\* who is in delayed, and each list is ordered.
ClientsInv ==
  /\ 1..connected \subseteq ToSet(accepted) \cup ToSet(delayed)
  /\ ToSet(accepted) \cup ToSet(delayed) \subseteq 0..connected
  /\ Ordered(accepted) /\ Ordered(delayed)
  /\ \A x \in ToSet(accepted) \ {0}, y \in ToSet(delayed) \ {0} : x < y

\* The clients are handed out once each and in the order they came, which is what
\* HandedOutInOrder says with a selection of those that are not null.
ClientsInOrder ==
  /\ Ordered(accepted \o delayed)
  /\ 1..connected \subseteq ToSet(accepted \o delayed)
  /\ ToSet(accepted \o delayed) \subseteq 0..connected

\* The head of the queue is taken, a job is put behind the others.
LEMMA HeadRemoved ==
  ASSUME NEW q \in Seq(Jobs), q # << >>, Once(q)
  PROVE  /\ Tail(q) \in Seq(Jobs) /\ Once(Tail(q))
         /\ Head(q) \in ToSet(q) /\ ToSet(Tail(q)) = ToSet(q) \ {Head(q)}
<1>1. /\ Tail(q) \in Seq(Jobs) /\ Len(q) \in Nat /\ Len(q) > 0 /\ Len(Tail(q)) = Len(q) - 1
      /\ \A i \in 1..Len(Tail(q)) : Tail(q)[i] = q[i + 1]
      /\ Head(q) = q[1]
  OBVIOUS
<1>2. DOMAIN q = 1..Len(q) /\ DOMAIN Tail(q) = 1..Len(Tail(q))
  BY <1>1
<1>3. Once(Tail(q))
  <2> SUFFICES ASSUME NEW i \in 1..Len(Tail(q)), NEW j \in 1..Len(Tail(q)), Tail(q)[i] = Tail(q)[j]
               PROVE  i = j
    BY DEF Once
  <2>1. q[i + 1] = q[j + 1] /\ i + 1 \in 1..Len(q) /\ j + 1 \in 1..Len(q)
    BY <1>1
  <2> QED
    BY <1>1, <2>1 DEF Once
<1>4. \A i \in 2..Len(q) : q[i] # Head(q) /\ i - 1 \in 1..Len(Tail(q)) /\ Tail(q)[i - 1] = q[i]
  BY <1>1 DEF Once
<1>5. ToSet(Tail(q)) \subseteq ToSet(q) \ {Head(q)}
  <2> SUFFICES ASSUME NEW i \in 1..Len(Tail(q)) PROVE Tail(q)[i] \in ToSet(q) \ {Head(q)}
    BY <1>2 DEF ToSet
  <2>1. i + 1 \in 2..Len(q) /\ Tail(q)[i] = q[i + 1]
    BY <1>1
  <2> QED
    BY <1>2, <1>4, <2>1 DEF ToSet
<1>6. ToSet(q) \ {Head(q)} \subseteq ToSet(Tail(q))
  <2> SUFFICES ASSUME NEW i \in 1..Len(q), q[i] # Head(q) PROVE q[i] \in ToSet(Tail(q))
    BY <1>2 DEF ToSet
  <2>1. i \in 2..Len(q)
    BY <1>1
  <2> QED
    BY <1>2, <1>4, <2>1 DEF ToSet
<1>7. Head(q) \in ToSet(q)
  BY <1>1, <1>2 DEF ToSet
<1> QED
  BY <1>1, <1>3, <1>5, <1>6, <1>7

\* A job that is posted once stands behind the others.
LEMMA JobPosted ==
  ASSUME NEW q \in Seq(Jobs), Once(q), NEW job \in Jobs, job \notin ToSet(q)
  PROVE  /\ Append(q, job) \in Seq(Jobs) /\ Once(Append(q, job))
         /\ ToSet(Append(q, job)) = ToSet(q) \cup {job}
<1> DEFINE r == Append(q, job)
<1>1. /\ r \in Seq(Jobs) /\ Len(q) \in Nat /\ Len(r) = Len(q) + 1 /\ r[Len(q) + 1] = job
      /\ \A i \in 1..Len(q) : r[i] = q[i]
  OBVIOUS
<1>2. DOMAIN q = 1..Len(q) /\ DOMAIN r = 1..Len(r)
  BY <1>1
<1>3. \A i \in 1..Len(q) : q[i] # job
  BY <1>2 DEF ToSet
<1> HIDE DEF r
<1>4. 1..Len(r) = 1..Len(q) \cup {Len(q) + 1}
  BY <1>1
<1>5. Once(r)
  BY <1>1, <1>3, <1>4 DEF Once
<1>6. ToSet(r) = ToSet(q) \cup {job}
  BY <1>1, <1>2, <1>4 DEF ToSet
<1> QED
  BY <1>1, <1>5, <1>6 DEF r

\* Steps of the owner and of the peer.
LEMMA OwnerKeepsSocket ==
  ASSUME SocketInv, Dispose \/ OwnerRelease \/ Read \/ Write
  PROVE  SocketInv'
<1> USE DEF SocketInv, Queued
<1>1. ASSUME NEW job \in Jobs, Post(job), job \notin ToSet(queue)
      PROVE  /\ queue' \in Seq(Jobs) /\ Once(queue')
             /\ ToSet(queue') = ToSet(queue) \cup {job}
  BY <1>1, JobPosted DEF Post, SocketTypeOK, JobsInv
<1>2. UNCHANGED queue => queue' \in Seq(Jobs) /\ Once(queue') /\ ToSet(queue') = ToSet(queue)
  BY DEF SocketTypeOK, JobsInv
<1>3. /\ "close" \in ToSet(queue) \/ "destroy" \in ToSet(queue) => disposed
      /\ "read" \in ToSet(queue) => reader # "idle"
      /\ "write" \in ToSet(queue) => writer # "idle"
  BY DEF JobsInv
<1>4. CASE Dispose
  <2>1. /\ queue' \in Seq(Jobs) /\ Once(queue')
        /\ ToSet(queue') = ToSet(queue) \cup {"close"}
    BY <1>1, <1>3, <1>4 DEF Dispose, Jobs
  <2> QED
    BY <1>4, <2>1 DEF Dispose, SocketTypeOK, JobsInv, HandleInv, PacketsInv, handleVars, readVars
<1>5. CASE OwnerRelease
  <2>1. \/ UNCHANGED queue
        \/ disposed' /\ Once(queue') /\ queue' \in Seq(Jobs)
           /\ ToSet(queue') = ToSet(queue) \cup {"destroy"}
    BY <1>1, <1>3, <1>5 DEF OwnerRelease, Jobs
  <2> QED
    BY <1>2, <1>5, <2>1
    DEF OwnerRelease, SocketTypeOK, JobsInv, HandleInv, PacketsInv, handleVars, readVars
<1>6. CASE Read
  <2>1. CASE disposed
    <3>1. UNCHANGED <<queue, socketRefs, reader, writer, disposed>>
      BY <1>6, <2>1 DEF Read
    <3> QED
      BY <1>2, <1>6, <3>1
      DEF Read, SocketTypeOK, JobsInv, HandleInv, PacketsInv, handleVars
  <2>2. CASE ~disposed
    <3>1. /\ reader' = "posted" /\ Once(queue') /\ queue' \in Seq(Jobs)
          /\ ToSet(queue') = ToSet(queue) \cup {"read"}
          /\ socketRefs' = socketRefs \cup {"read"}
      BY <1>1, <1>3, <1>6, <2>2 DEF Read, Jobs
    <3> QED
      BY <1>6, <3>1 DEF Read, SocketTypeOK, JobsInv, HandleInv, PacketsInv, handleVars
  <2> QED
    BY <2>1, <2>2
<1>7. CASE Write
  <2>1. \/ UNCHANGED queue
        \/ writer' = "posted" /\ Once(queue') /\ queue' \in Seq(Jobs)
           /\ ToSet(queue') = ToSet(queue) \cup {"write"}
    BY <1>1, <1>3, <1>7 DEF Write, Jobs
  <2> QED
    BY <1>2, <1>7, <2>1
    DEF Write, SocketTypeOK, JobsInv, HandleInv, PacketsInv, handleVars, readVars
<1> QED
  BY <1>4, <1>5, <1>6, <1>7

\* What the peer does is seen by the callbacks only.
LEMMA PeerKeepsSocket ==
  ASSUME SocketInv, PeerSend \/ PeerEnd
  PROVE  SocketInv'
<1>1. /\ UNCHANGED <<queue, disposed, socketRefs, alive, writer, stream, phase, writes, source>>
      /\ UNCHANGED <<pending, received, reader, answers>>
  BY DEF PeerSend, PeerEnd, handleVars, readVars
<1>2. sent' \in Nat /\ sent' >= sent
  BY DEF PeerSend, PeerEnd, SocketInv, PacketsInv
<1>3. SocketTypeOK' /\ JobsInv' /\ HandleInv'
  BY <1>1 DEF SocketInv, SocketTypeOK, JobsInv, HandleInv, Queued
<1>4. PacketsInv'
  BY <1>1, <1>2 DEF SocketInv, PacketsInv, Queued
<1> QED
  BY <1>3, <1>4 DEF SocketInv

\* What becomes of the awaiter of read() when it is notified.
LEMMA Notified ==
  ASSUME SocketTypeOK, JobsInv, NEW q \in Seq(Jobs), Once(q), ToSet(q) \subseteq ToSet(queue),
         NotifyReadAwaiter(q)
  PROVE  /\ source' = FALSE /\ queue' \in Seq(Jobs) /\ Once(queue')
         /\ ToSet(queue') = IF source THEN ToSet(q) \cup {"resumeRead"} ELSE ToSet(q)
<1>1. source => "resumeRead" \notin ToSet(q)
  BY DEF JobsInv, Queued
<1> QED
  BY <1>1, JobPosted DEF NotifyReadAwaiter, Jobs

\* The callbacks of libuv.
LEMMA CallbacksKeepSocket ==
  ASSUME SocketInv, Callbacks
  PROVE  SocketInv'
<1> USE DEF SocketInv, Queued
<1>1. queue \in Seq(Jobs) /\ Once(queue)
  BY DEF SocketTypeOK, JobsInv
<1>2. CASE ShutdownCallback \/ CloseCallback
  <2>1. /\ UNCHANGED <<queue, disposed, socketRefs, alive, writer, stream, writes, source>>
        /\ UNCHANGED <<pending, received, reader, answers, sent>>
        /\ phase # "open" /\ phase' # "open"
    BY <1>2 DEF ShutdownCallback, CloseCallback, readVars
  <2>2. SocketTypeOK' /\ JobsInv' /\ HandleInv'
    BY <2>1 DEF SocketTypeOK, JobsInv, HandleInv
  <2>3. PacketsInv'
    BY <2>1 DEF PacketsInv
  <2> QED
    BY <2>2, <2>3
<1>3. CASE ReadCallback
  <2>1. /\ source' = FALSE /\ queue' \in Seq(Jobs) /\ Once(queue')
        /\ ToSet(queue') = IF source THEN ToSet(queue) \cup {"resumeRead"} ELSE ToSet(queue)
    BY <1>1, <1>3, Notified DEF ReadCallback
  <2>2. /\ UNCHANGED <<disposed, socketRefs, alive, writer, stream, phase, writes>>
        /\ UNCHANGED <<received, reader, answers, sent>>
    BY <1>3 DEF ReadCallback, handleVars
  <2>3. SocketTypeOK' /\ JobsInv' /\ HandleInv'
    <3>1. SocketTypeOK'
      BY <2>1, <2>2 DEF SocketTypeOK
    <3>2. JobsInv'
      BY <2>1, <2>2 DEF JobsInv
    <3>3. HandleInv'
      BY <2>2 DEF HandleInv
    <3> QED
      BY <3>1, <3>2, <3>3
  <2>4. Len(received \o pending) = Len(received) + Len(pending) /\ InFlight \in Nat
    BY DEF PacketsInv, InFlight
  <2>5. PICK n \in 1..InFlight :
          pending' = pending \o [i \in 1..n |-> Len(received \o pending) + i]
    BY <1>3 DEF ReadCallback
  <2> DEFINE new == [i \in 1..n |-> Len(received \o pending) + i]
  <2>6. /\ new \in Seq(Nat) /\ Len(new) = n /\ n \in Nat /\ n > 0
        /\ \A i \in 1..n : new[i] = Len(received) + Len(pending) + i
    BY <2>4 DEF PacketsInv
  <2> HIDE DEF new
  <2>7. /\ pending' \in Seq(Nat) /\ Len(pending') = Len(pending) + n
        /\ \A i \in 1..Len(pending) : pending'[i] = pending[i]
        /\ \A i \in 1..n : pending'[Len(pending) + i] = new[i]
    BY <2>5, <2>6 DEF PacketsInv, new
  <2>8. \A i \in 1..Len(pending') : pending'[i] = Len(received) + i
    <3> SUFFICES ASSUME NEW i \in 1..Len(pending'), i \notin 1..Len(pending)
                 PROVE  pending'[i] = Len(received) + i
      BY <2>7 DEF PacketsInv
    <3> DEFINE k == i - Len(pending)
    <3>1. k \in 1..n /\ i = Len(pending) + k /\ Len(pending) \in Nat /\ Len(received) \in Nat
      BY <2>6, <2>7 DEF PacketsInv
    <3> HIDE DEF k
    <3>2. pending'[Len(pending) + k] = Len(received) + Len(pending) + k
      BY <2>6, <2>7, <3>1
    <3> QED
      BY <3>1, <3>2
  <2>9. Len(received) + Len(pending') <= sent
    BY <2>4, <2>5, <2>7 DEF InFlight, PacketsInv
  <2>10. pending' # << >>
    BY <2>6, <2>7 DEF PacketsInv
  <2>11. PacketsInv'
    BY <2>2, <2>7, <2>8, <2>9, <2>10 DEF PacketsInv
  <2> QED
    BY <2>3, <2>11
<1>4. CASE ReadCallbackEnd
  <2>1. /\ source' = FALSE /\ queue' \in Seq(Jobs) /\ Once(queue')
        /\ ToSet(queue') = IF source THEN ToSet(queue) \cup {"resumeRead"} ELSE ToSet(queue)
    BY <1>1, <1>4, Notified DEF ReadCallbackEnd
  <2>2. /\ UNCHANGED <<disposed, socketRefs, alive, writer, writes>>
        /\ UNCHANGED <<received, pending, reader, answers, sent>>
        /\ stream' = FALSE /\ phase' # "open"
    BY <1>4 DEF ReadCallbackEnd, CloseAndFree
  <2>3. SocketTypeOK' /\ JobsInv' /\ HandleInv'
    <3>1. SocketTypeOK'
      BY <2>1, <2>2 DEF SocketTypeOK
    <3>2. JobsInv'
      BY <2>1, <2>2 DEF JobsInv
    <3>3. HandleInv'
      BY <2>2 DEF HandleInv
    <3> QED
      BY <3>1, <3>2, <3>3
  <2>4. PacketsInv'
    BY <2>2 DEF PacketsInv
  <2> QED
    BY <2>3, <2>4
<1>5. CASE WriteCallback
  <2>1. writer = "writing" /\ writes = 1 /\ "resumeWrite" \notin ToSet(queue)
    BY <1>5 DEF WriteCallback, JobsInv, SocketTypeOK
  <2>2. /\ queue' \in Seq(Jobs) /\ Once(queue')
        /\ ToSet(queue') = ToSet(queue) \cup {"resumeWrite"}
    BY <1>1, <1>5, <2>1, JobPosted DEF WriteCallback, Post, Jobs
  <2>3. /\ UNCHANGED <<disposed, socketRefs, alive, stream, phase, source>>
        /\ UNCHANGED <<pending, received, reader, answers, sent>>
        /\ writer' = "called" /\ writes' = 0
    BY <1>5, <2>1 DEF WriteCallback, readVars
  <2>4. SocketTypeOK' /\ JobsInv' /\ HandleInv'
    BY <2>1, <2>2, <2>3 DEF SocketTypeOK, JobsInv, HandleInv
  <2>5. PacketsInv'
    BY <2>2, <2>3 DEF PacketsInv
  <2> QED
    BY <2>4, <2>5
<1> QED
  BY <1>2, <1>3, <1>4, <1>5 DEF Callbacks

\* closeStream takes the handle away, if it is there, and notifies the awaiter.
LEMMA Closed ==
  ASSUME SocketInv, NEW q \in Seq(Jobs), Once(q), ToSet(q) \subseteq ToSet(queue), CloseStream(q)
  PROVE  /\ stream' = FALSE /\ phase' # "open" /\ UNCHANGED writes
         /\ source' = FALSE /\ queue' \in Seq(Jobs) /\ Once(queue')
         /\ ToSet(queue') = IF source THEN ToSet(q) \cup {"resumeRead"} ELSE ToSet(q)
<1>1. /\ source' = FALSE /\ queue' \in Seq(Jobs) /\ Once(queue')
      /\ ToSet(queue') = IF source THEN ToSet(q) \cup {"resumeRead"} ELSE ToSet(q)
  BY Notified DEF CloseStream, SocketInv
<1>2. stream' = FALSE /\ phase' # "open" /\ UNCHANGED writes
  BY DEF CloseStream, CloseAndFree, handleVars, SocketInv, SocketTypeOK, HandleInv
<1> QED
  BY <1>1, <1>2

\* A job ends with its reference.  If that was the last one the handle is taken away,
\* or it was by whoever disposed the socket; nobody reads then.
LEMMA Released ==
  ASSUME SocketInv, NEW q \in Seq(Jobs), Once(q), ToSet(q) \subseteq ToSet(queue),
         NEW who \in {"read", "write"}, who \in socketRefs, who = "read" => ~source,
         ReleaseOnLoop(who, q)
  PROVE  /\ socketRefs' = socketRefs \ {who} /\ UNCHANGED <<writes, source>>
         /\ disposed' \in BOOLEAN /\ (disposed => disposed')
         /\ alive' \in BOOLEAN /\ stream' \in BOOLEAN /\ (stream' => stream)
         /\ queue' \in Seq(Jobs) /\ Once(queue') /\ ToSet(queue') = ToSet(q)
         /\ HandleInv'
<1>1. /\ socketRefs' = socketRefs \ {who} /\ alive' = (socketRefs' # {})
      /\ socketRefs' = {} => source = FALSE
  BY DEF ReleaseOnLoop, SocketInv, SocketTypeOK, JobsInv
<1>2. CASE socketRefs' = {} /\ ~disposed
  <2>1. CloseStream(q) /\ disposed' = TRUE
    BY <1>2 DEF ReleaseOnLoop
  <2>2. stream' = FALSE /\ phase' # "open" /\ UNCHANGED <<writes, source>>
        /\ queue' \in Seq(Jobs) /\ Once(queue') /\ ToSet(queue') = ToSet(q)
    BY <1>1, <1>2, <2>1, Closed
  <2> QED
    BY <1>1, <2>1, <2>2 DEF HandleInv
<1>3. CASE ~(socketRefs' = {} /\ ~disposed)
  <2>1. queue' = q /\ UNCHANGED <<disposed, source, stream, phase, reading, writes>>
    BY <1>3 DEF ReleaseOnLoop
  <2>2. HandleInv'
    BY <1>1, <1>3, <2>1 DEF HandleInv, SocketInv, SocketTypeOK
  <2>3. disposed' \in BOOLEAN /\ stream' \in BOOLEAN
    BY <2>1 DEF SocketInv, SocketTypeOK
  <2> QED
    BY <1>1, <2>1, <2>2, <2>3
<1> QED
  BY <1>2, <1>3

\* A read() that returns takes what is pending.
LEMMA ReturnKeepsSocket ==
  ASSUME SocketInv, NEW job \in {"read", "resumeRead"}, queue # << >>, Head(queue) = job,
         pending # << >> \/ ~stream, ReturnPending(Tail(queue)), UNCHANGED <<sent, writer>>
  PROVE  SocketInv'
<1> USE DEF SocketInv, Queued
<1>1. /\ Tail(queue) \in Seq(Jobs) /\ Once(Tail(queue)) /\ job \in ToSet(queue)
      /\ ToSet(Tail(queue)) = ToSet(queue) \ {job}
  BY HeadRemoved DEF SocketTypeOK, JobsInv
<1>2. "read" \in socketRefs /\ ~source
  BY <1>1 DEF JobsInv
<1>3. /\ received' = received \o pending /\ pending' = << >> /\ reader' = "idle"
      /\ answers' = answers \cup {IF pending # << >> THEN "data" ELSE IF stream THEN "empty" ELSE "end"}
      /\ ReleaseOnLoop("read", Tail(queue))
  BY DEF ReturnPending, Return
<1>4. /\ socketRefs' = socketRefs \ {"read"} /\ UNCHANGED <<writes, source>>
      /\ disposed' \in BOOLEAN /\ (disposed => disposed')
      /\ alive' \in BOOLEAN /\ stream' \in BOOLEAN
      /\ queue' \in Seq(Jobs) /\ Once(queue') /\ ToSet(queue') = ToSet(queue) \ {job}
      /\ HandleInv'
  BY <1>1, <1>2, <1>3, Released
<1>5. "read" \notin ToSet(queue') /\ "resumeRead" \notin ToSet(queue')
  BY <1>1, <1>4 DEF JobsInv
<1>6. SocketTypeOK'
  BY <1>3, <1>4 DEF SocketTypeOK
<1>7. JobsInv'
  BY <1>2, <1>3, <1>4, <1>5 DEF JobsInv
<1>8. PacketsInv'
  <2>1. /\ received' \in Seq(Nat) /\ pending' \in Seq(Nat) /\ Len(pending') = 0
        /\ Len(received') = Len(received) + Len(pending)
        /\ \A i \in 1..Len(received) : received'[i] = received[i]
        /\ \A i \in 1..Len(pending) : received'[Len(received) + i] = pending[i]
        /\ Len(received) \in Nat /\ Len(pending) \in Nat
    BY <1>3 DEF PacketsInv
  <2>2. \A i \in 1..Len(received') : received'[i] = i
    <3> SUFFICES ASSUME NEW i \in 1..Len(received'), i \notin 1..Len(received)
                 PROVE  received'[i] = i
      BY <2>1 DEF PacketsInv
    <3> DEFINE k == i - Len(received)
    <3>1. k \in 1..Len(pending) /\ i = Len(received) + k
      BY <2>1
    <3> HIDE DEF k
    <3>2. received'[Len(received) + k] = Len(received) + k
      BY <2>1, <3>1 DEF PacketsInv
    <3> QED
      BY <3>1, <3>2
  <2>3. "empty" \notin answers'
    BY <1>3 DEF PacketsInv
  <2> QED
    BY <1>5, <2>1, <2>2, <2>3 DEF PacketsInv
<1> QED
  BY <1>4, <1>6, <1>7, <1>8

\* The jobs of the loop.
LEMMA LoopKeepsSocket ==
  ASSUME SocketInv, LoopStep
  PROVE  SocketInv'
<1> USE DEF SocketInv, Queued
<1>1. /\ queue # << >> /\ Tail(queue) \in Seq(Jobs) /\ Once(Tail(queue))
      /\ Head(queue) \in ToSet(queue) /\ ToSet(Tail(queue)) = ToSet(queue) \ {Head(queue)}
  BY HeadRemoved
  DEF LoopStep, RunClose, RunDestroy, RunRead, ResumeRead, RunWrite, ResumeWrite, SocketTypeOK,
      JobsInv
<1>2. CASE RunClose \/ RunDestroy
  <2>1. PICK job \in {"close", "destroy"} : Head(queue) = job
    BY <1>2 DEF RunClose, RunDestroy
  <2>2. CloseStream(Tail(queue))
    BY <1>2 DEF RunClose, RunDestroy
  <2>3. /\ stream' = FALSE /\ phase' # "open" /\ UNCHANGED writes /\ source' = FALSE
        /\ queue' \in Seq(Jobs) /\ Once(queue')
        /\ ToSet(queue') = IF source THEN (ToSet(queue) \ {job}) \cup {"resumeRead"}
                           ELSE ToSet(queue) \ {job}
    BY <1>1, <2>1, <2>2, Closed
  <2>4. /\ UNCHANGED <<disposed, pending, received, reader, answers, sent, writer>>
        /\ \/ socketRefs' = socketRefs \ {"close"} /\ job = "close"
           \/ UNCHANGED socketRefs /\ job = "destroy"
        /\ alive' \in BOOLEAN
    BY <1>2, <2>1 DEF RunClose, RunDestroy
  <2>5. SocketTypeOK'
    BY <2>3, <2>4 DEF SocketTypeOK
  <2>6. JobsInv'
    BY <2>1, <2>3, <2>4 DEF JobsInv
  <2>7. HandleInv'
    BY <2>3 DEF HandleInv
  <2>8. PacketsInv'
    BY <2>3, <2>4 DEF PacketsInv
  <2> QED
    BY <2>5, <2>6, <2>7, <2>8
<1>3. CASE RunRead
  <2>1. Head(queue) = "read" /\ UNCHANGED <<sent, writer>>
    BY <1>3 DEF RunRead
  <2>2. CASE pending # << >> \/ ~stream
    <3>1. ReturnPending(Tail(queue))
      BY <1>3, <2>2 DEF RunRead
    <3> QED
      BY <1>1, <2>1, <2>2, <3>1, ReturnKeepsSocket
  <2>3. CASE ~(pending # << >> \/ ~stream)
    <3>1. /\ source' = TRUE /\ reader' = "awaiting" /\ queue' = Tail(queue)
          /\ UNCHANGED <<socketRefs, alive, disposed, stream, phase, writes>>
          /\ UNCHANGED <<received, pending, answers>>
      BY <1>3, <2>3 DEF RunRead
    <3>2. "read" \in socketRefs /\ "resumeRead" \notin ToSet(queue)
      BY <1>1, <2>1 DEF JobsInv
    <3>3. SocketTypeOK'
      BY <1>1, <3>1 DEF SocketTypeOK
    <3>4. JobsInv'
      BY <1>1, <2>1, <3>1, <3>2 DEF JobsInv
    <3>5. HandleInv' /\ PacketsInv'
      BY <1>1, <2>1, <3>1, <3>2 DEF HandleInv, PacketsInv
    <3> QED
      BY <3>3, <3>4, <3>5
  <2> QED
    BY <2>2, <2>3
<1>4. CASE ResumeRead
  <2>1. Head(queue) = "resumeRead" /\ ReturnPending(Tail(queue)) /\ UNCHANGED <<sent, writer>>
    BY <1>4 DEF ResumeRead
  <2>2. pending # << >> \/ ~stream
    BY <1>1, <2>1 DEF PacketsInv
  <2> QED
    BY <1>1, <2>1, <2>2, ReturnKeepsSocket
<1>5. CASE RunWrite /\ stream
  <2>1. /\ Head(queue) = "write" /\ writer' = "writing" /\ writes' = writes + 1
        /\ queue' = Tail(queue)
        /\ UNCHANGED <<socketRefs, alive, disposed, source, stream, phase, reader>>
        /\ UNCHANGED <<pending, received, answers, sent>>
    BY <1>5 DEF RunWrite
  <2>2. writer = "posted" /\ writes = 0 /\ "resumeWrite" \notin ToSet(queue)
    BY <1>1, <2>1 DEF JobsInv, SocketTypeOK
  <2>3. SocketTypeOK'
    BY <1>1, <2>1 DEF SocketTypeOK
  <2>4. JobsInv'
    BY <1>1, <2>1, <2>2 DEF JobsInv
  <2>5. HandleInv' /\ PacketsInv'
    BY <1>1, <2>1 DEF HandleInv, PacketsInv
  <2> QED
    BY <2>3, <2>4, <2>5
<1>6. CASE (RunWrite /\ ~stream) \/ ResumeWrite
  <2>1. PICK job \in {"write", "resumeWrite"} : Head(queue) = job
    BY <1>6 DEF RunWrite, ResumeWrite
  <2>2. /\ writer' \in {"failed", "done"} /\ ReleaseOnLoop("write", Tail(queue))
        /\ UNCHANGED <<reader, pending, received, answers, sent>>
    BY <1>6 DEF RunWrite, ResumeWrite
  <2>3. "write" \in socketRefs /\ writer \in {"posted", "called"}
    BY <1>1, <2>1 DEF JobsInv
  <2>4. /\ socketRefs' = socketRefs \ {"write"} /\ UNCHANGED <<writes, source>>
        /\ disposed' \in BOOLEAN /\ (disposed => disposed')
        /\ alive' \in BOOLEAN /\ stream' \in BOOLEAN /\ (stream' => stream)
        /\ queue' \in Seq(Jobs) /\ Once(queue') /\ ToSet(queue') = ToSet(queue) \ {job}
        /\ HandleInv'
    BY <1>1, <2>1, <2>2, <2>3, Released
  <2>5. "write" \notin ToSet(queue') /\ "resumeWrite" \notin ToSet(queue')
    BY <1>1, <2>1, <2>4 DEF JobsInv
  <2>6. SocketTypeOK'
    BY <2>2, <2>4 DEF SocketTypeOK
  <2>7. JobsInv'
    BY <2>2, <2>3, <2>4, <2>5 DEF JobsInv, SocketTypeOK
  <2>8. PacketsInv'
    BY <2>2, <2>4 DEF PacketsInv
  <2> QED
    BY <2>4, <2>6, <2>7, <2>8
<1> QED
  BY <1>2, <1>3, <1>4, <1>5, <1>6 DEF LoopStep

\* A client is put behind those who came before, or the first one is taken.
LEMMA ClientAdded ==
  ASSUME NEW s \in Seq(Nat), NEW x \in Nat, Ordered(s), x = 0 \/ \A y \in ToSet(s) \ {0} : y < x
  PROVE  /\ Append(s, x) \in Seq(Nat) /\ Ordered(Append(s, x))
         /\ ToSet(Append(s, x)) = ToSet(s) \cup {x}
<1> DEFINE r == Append(s, x)
<1>1. /\ r \in Seq(Nat) /\ Len(s) \in Nat /\ Len(r) = Len(s) + 1 /\ r[Len(s) + 1] = x
      /\ \A i \in 1..Len(s) : r[i] = s[i] /\ s[i] \in Nat
  OBVIOUS
<1>2. DOMAIN s = 1..Len(s) /\ DOMAIN r = 1..Len(r)
  BY <1>1
<1> HIDE DEF r
<1>3. 1..Len(r) = 1..Len(s) \cup {Len(s) + 1}
  BY <1>1
<1>4. ToSet(r) = ToSet(s) \cup {x}
  BY <1>1, <1>2, <1>3 DEF ToSet
<1>5. Ordered(r)
  <2> SUFFICES ASSUME NEW i \in 1..Len(r), NEW j \in 1..Len(r), i < j, r[i] # 0, r[j] # 0
               PROVE  r[i] < r[j]
    BY DEF Ordered
  <2>1. i \in 1..Len(s) /\ r[i] = s[i]
    BY <1>1
  <2>2. s[i] \in ToSet(s)
    BY <1>2, <2>1 DEF ToSet
  <2>3. CASE j \in 1..Len(s)
    BY <1>1, <2>1, <2>3 DEF Ordered
  <2>4. CASE j = Len(s) + 1
    BY <1>1, <2>1, <2>4, <2>2
  <2> QED
    BY <1>3, <2>3, <2>4
<1> QED
  BY <1>1, <1>4, <1>5 DEF r

\* The first client is taken out of a list.
LEMMA ClientTaken ==
  ASSUME NEW s \in Seq(Nat), s # << >>, Ordered(s)
  PROVE  /\ Tail(s) \in Seq(Nat) /\ Head(s) \in Nat /\ Ordered(Tail(s))
         /\ ToSet(s) = ToSet(Tail(s)) \cup {Head(s)}
         /\ Head(s) # 0 => \A y \in ToSet(Tail(s)) \ {0} : Head(s) < y
<1>1. /\ Tail(s) \in Seq(Nat) /\ Len(s) \in Nat /\ Len(s) > 0 /\ Len(Tail(s)) = Len(s) - 1
      /\ \A i \in 1..Len(Tail(s)) : Tail(s)[i] = s[i + 1]
      /\ Head(s) = s[1] /\ Head(s) \in Nat
  OBVIOUS
<1>2. DOMAIN s = 1..Len(s) /\ DOMAIN Tail(s) = 1..Len(Tail(s))
  BY <1>1
<1>3. \A i \in 1..Len(Tail(s)) : i + 1 \in 1..Len(s) /\ 1 < i + 1
  BY <1>1
<1>4. Ordered(Tail(s))
  <2> SUFFICES ASSUME NEW i \in 1..Len(Tail(s)), NEW j \in 1..Len(Tail(s)), i < j,
                      Tail(s)[i] # 0, Tail(s)[j] # 0
               PROVE  Tail(s)[i] < Tail(s)[j]
    BY DEF Ordered
  <2>1. i + 1 < j + 1
    BY <1>1
  <2> QED
    BY <1>1, <1>3, <2>1 DEF Ordered
<1>5. Head(s) # 0 => \A y \in ToSet(Tail(s)) \ {0} : Head(s) < y
  BY <1>1, <1>2, <1>3 DEF Ordered, ToSet
<1>6. ToSet(Tail(s)) \cup {Head(s)} \subseteq ToSet(s)
  BY <1>1, <1>2, <1>3 DEF ToSet
<1>7. ToSet(s) \subseteq ToSet(Tail(s)) \cup {Head(s)}
  <2> SUFFICES ASSUME NEW i \in 1..Len(s), i # 1 PROVE s[i] \in ToSet(Tail(s))
    BY <1>1, <1>2 DEF ToSet
  <2>1. i - 1 \in 1..Len(Tail(s)) /\ Tail(s)[i - 1] = s[i]
    BY <1>1
  <2> QED
    BY <1>2, <2>1 DEF ToSet
<1> QED
  BY <1>1, <1>4, <1>5, <1>6, <1>7

\* The steps of a listener.
LEMMA ListenerKeeps ==
  ASSUME AcceptInv, ClientsInv, ListenerNext
  PROVE  AcceptInv' /\ ClientsInv'
<1>1. CASE Accept \/ (TakeDelayed /\ delayed = << >>) \/ MakeSource \/ Close
  <2>1. CASE UNCHANGED <<accepted, delayed, connected>>
    BY <1>1, <2>1 DEF Accept, TakeDelayed, MakeSource, Close, AcceptInv, ClientsInv
  <2>2. CASE ~UNCHANGED <<accepted, delayed, connected>>
    <3>1. /\ accepted' = Append(accepted, 0)
          /\ UNCHANGED <<acceptMutex, acceptor, server, acceptSource, delayed, connected, closer>>
      BY <1>1, <2>2 DEF Accept, TakeDelayed, MakeSource, Close
    <3>2. /\ accepted' \in Seq(Nat) /\ Ordered(accepted')
          /\ ToSet(accepted') = ToSet(accepted) \cup {0}
      BY <3>1, ClientAdded DEF AcceptInv, ClientsInv
    <3>3. AcceptInv' /\ ClientsInv'
      BY <3>1, <3>2 DEF AcceptInv, ClientsInv
    <3> QED
      BY <3>3
  <2> QED
    BY <2>1, <2>2
<1>2. CASE TakeDelayed /\ delayed # << >>
  <2>1. /\ accepted' = Append(accepted, Head(delayed)) /\ delayed' = Tail(delayed)
        /\ acceptor' = "idle" /\ UNCHANGED <<server, acceptSource, connected, closer>>
    BY <1>2 DEF TakeDelayed
  <2>2. /\ delayed' \in Seq(Nat) /\ Head(delayed) \in Nat /\ Ordered(delayed')
        /\ ToSet(delayed) = ToSet(delayed') \cup {Head(delayed)}
        /\ Head(delayed) # 0 => \A y \in ToSet(delayed') \ {0} : Head(delayed) < y
    BY <1>2, <2>1, ClientTaken DEF AcceptInv, ClientsInv
  <2>3. /\ accepted' \in Seq(Nat) /\ Ordered(accepted')
        /\ ToSet(accepted') = ToSet(accepted) \cup {Head(delayed)}
    BY <2>1, <2>2, ClientAdded DEF AcceptInv, ClientsInv
  <2>4. AcceptInv'
    BY <1>2, <2>1, <2>2, <2>3 DEF AcceptInv
  <2>5. ClientsInv'
    BY <2>1, <2>2, <2>3 DEF ClientsInv
  <2> QED
    BY <2>4, <2>5
<1>3. CASE ConnectionCallback \/ CloseAccept
  <2>1. /\ UNCHANGED <<server, acceptMutex, acceptor>>
        /\ server => (acceptor # "waiting" /\ UNCHANGED closer)
        /\ \/ server /\ connected' = connected + 1 /\ DoAccept(connected + 1)
           \/ UNCHANGED connected /\ DoAccept(0)
    BY <1>3, Zenon DEF ConnectionCallback, CloseAccept, AcceptInv
  <2>2. PICK client \in {0, connected + 1} :
          /\ DoAccept(client) /\ connected' = IF client = 0 THEN connected ELSE client
          /\ UNCHANGED <<server, acceptMutex, acceptor>>
          /\ client # 0 => server
    BY <2>1 DEF AcceptInv
  <2>3. /\ client \in Nat /\ connected \in Nat /\ connected' \in Nat
        /\ client # 0 => client = connected + 1 /\ connected' = connected + 1
        /\ client = 0 => connected' = connected
    BY <2>2 DEF AcceptInv
  <2>4. ASSUME NEW y \in (ToSet(accepted) \cup ToSet(delayed)) \ {0}, client # 0
        PROVE  y < client
    BY <2>3, <2>4 DEF ClientsInv
  <2>5. CASE acceptSource
    <3>1. acceptSource' = FALSE /\ accepted' = Append(accepted, client) /\ UNCHANGED delayed
      BY <2>2, <2>5 DEF DoAccept
    <3>2. client # 0 => ToSet(delayed) = {}
      BY <2>2, <2>5 DEF AcceptInv, ToSet
    <3>3. /\ accepted' \in Seq(Nat) /\ Ordered(accepted')
          /\ ToSet(accepted') = ToSet(accepted) \cup {client}
      BY <2>3, <2>4, <3>1, ClientAdded DEF AcceptInv, ClientsInv
    <3>4. AcceptInv'
      BY <2>1, <2>2, <2>3, <2>5, <3>1, <3>3 DEF AcceptInv
    <3>5. ClientsInv'
      BY <2>3, <3>1, <3>2, <3>3 DEF ClientsInv
    <3> QED
      BY <3>4, <3>5
  <2>6. CASE ~acceptSource
    <3>1. delayed' = Append(delayed, client) /\ UNCHANGED <<accepted, acceptSource>>
      BY <2>2, <2>6 DEF DoAccept
    <3>2. /\ delayed' \in Seq(Nat) /\ Ordered(delayed')
          /\ ToSet(delayed') = ToSet(delayed) \cup {client}
      BY <2>3, <2>4, <3>1, ClientAdded DEF AcceptInv, ClientsInv
    <3>3. AcceptInv'
      BY <2>1, <2>2, <2>3, <2>6, <3>1, <3>2 DEF AcceptInv
    <3>4. ClientsInv'
      BY <2>3, <2>4, <3>1, <3>2 DEF ClientsInv
    <3> QED
      BY <3>3, <3>4
  <2> QED
    BY <2>5, <2>6
<1>4. \/ Accept \/ (TakeDelayed /\ delayed = << >>) \/ MakeSource \/ Close
      \/ TakeDelayed /\ delayed # << >>
      \/ ConnectionCallback \/ CloseAccept
  BY DEF ListenerNext
<1> QED
  BY <1>1, <1>2, <1>3, <1>4

\* Two lists, one behind the other.
LEMMA ListsInOrder ==
  ASSUME AcceptInv, ClientsInv
  PROVE  ClientsInOrder
<1> DEFINE s == accepted \o delayed
<1>1. /\ s \in Seq(Nat) /\ Len(accepted) \in Nat /\ Len(delayed) \in Nat
      /\ Len(s) = Len(accepted) + Len(delayed)
      /\ \A i \in 1..Len(accepted) : s[i] = accepted[i] /\ i \in 1..Len(s)
      /\ \A i \in 1..Len(delayed) :
           s[Len(accepted) + i] = delayed[i] /\ Len(accepted) + i \in 1..Len(s)
  BY DEF AcceptInv
<1>2. /\ DOMAIN accepted = 1..Len(accepted) /\ DOMAIN delayed = 1..Len(delayed)
      /\ DOMAIN s = 1..Len(s)
  BY <1>1 DEF AcceptInv
<1> HIDE DEF s
<1>3. \A i \in 1..Len(s) : \/ i \in 1..Len(accepted) /\ s[i] = accepted[i]
                           \/ \E k \in 1..Len(delayed) : i = Len(accepted) + k /\ s[i] = delayed[k]
  <2> SUFFICES ASSUME NEW i \in 1..Len(s), i \notin 1..Len(accepted)
               PROVE  \E k \in 1..Len(delayed) : i = Len(accepted) + k /\ s[i] = delayed[k]
    BY <1>1
  <2> DEFINE k == i - Len(accepted)
  <2>1. k \in 1..Len(delayed) /\ i = Len(accepted) + k
    BY <1>1
  <2> HIDE DEF k
  <2> QED
    BY <1>1, <2>1
<1>4. ToSet(s) = ToSet(accepted) \cup ToSet(delayed)
  <2>1. ToSet(s) \subseteq ToSet(accepted) \cup ToSet(delayed)
    BY <1>2, <1>3 DEF ToSet
  <2>2. ToSet(accepted) \subseteq ToSet(s)
    BY <1>1, <1>2 DEF ToSet
  <2>3. ToSet(delayed) \subseteq ToSet(s)
    <3> SUFFICES ASSUME NEW i \in 1..Len(delayed) PROVE delayed[i] \in ToSet(s)
      BY <1>2 DEF ToSet
    <3>1. Len(accepted) + i \in DOMAIN s /\ s[Len(accepted) + i] = delayed[i]
      BY <1>1, <1>2
    <3> QED
      BY <3>1 DEF ToSet
  <2> QED
    BY <2>1, <2>2, <2>3
<1>5. Ordered(s)
  <2> SUFFICES ASSUME NEW i \in 1..Len(s), NEW j \in 1..Len(s), i < j, s[i] # 0, s[j] # 0
               PROVE  s[i] < s[j]
    BY DEF Ordered
  <2>1. CASE j \in 1..Len(accepted)
    <3>1. i \in 1..Len(accepted) /\ s[i] = accepted[i] /\ s[j] = accepted[j]
      BY <1>1, <2>1
    <3> QED
      BY <3>1, <2>1 DEF ClientsInv, Ordered
  <2>2. ASSUME NEW m \in 1..Len(delayed), j = Len(accepted) + m, s[j] = delayed[m]
        PROVE  s[i] < s[j]
    <3>1. CASE i \in 1..Len(accepted)
      <4>1. accepted[i] \in ToSet(accepted) \ {0} /\ delayed[m] \in ToSet(delayed) \ {0}
        BY <1>1, <1>2, <2>2, <3>1 DEF ToSet
      <4> QED
        BY <1>1, <2>2, <3>1, <4>1 DEF ClientsInv
    <3>2. ASSUME NEW k \in 1..Len(delayed), i = Len(accepted) + k, s[i] = delayed[k]
          PROVE  s[i] < s[j]
      <4>1. k < m
        BY <1>1, <2>2, <3>2
      <4> QED
        BY <2>2, <3>2, <4>1 DEF ClientsInv, Ordered
    <3> QED
      BY <1>3, <3>1, <3>2
  <2> QED
    BY <1>3, <2>1, <2>2
<1> QED
  BY <1>4, <1>5 DEF s, ClientsInOrder, ClientsInv

\* The packets are those the peer has sent.
LEMMA PacketsInOrder ==
  ASSUME PacketsInv
  PROVE  BytesInOrder
<1> DEFINE s == received \o pending
           t == [i \in 1..sent |-> i]
<1>1. /\ s \in Seq(Nat) /\ Len(s) = Len(received) + Len(pending) /\ Len(s) \in Nat
      /\ \A i \in 1..Len(received) : s[i] = received[i]
      /\ \A i \in 1..Len(pending) : s[Len(received) + i] = pending[i]
      /\ Len(received) \in Nat /\ Len(pending) \in Nat
  BY DEF PacketsInv
<1>2. t \in Seq(Nat) /\ Len(t) = sent /\ \A i \in 1..sent : t[i] = i
  BY DEF PacketsInv
<1> HIDE DEF s, t
<1>3. \A i \in 1..Len(s) : s[i] = i
  <2> SUFFICES ASSUME NEW i \in 1..Len(s), i \notin 1..Len(received) PROVE s[i] = i
    BY <1>1 DEF PacketsInv
  <2> DEFINE k == i - Len(received)
  <2>1. k \in 1..Len(pending) /\ i = Len(received) + k
    BY <1>1
  <2> HIDE DEF k
  <2>2. s[Len(received) + k] = Len(received) + k
    BY <1>1, <2>1 DEF PacketsInv
  <2> QED
    BY <2>1, <2>2
<1>4. Len(s) <= Len(t)
  BY <1>1, <1>2 DEF PacketsInv
<1>5. \A i \in 1..Len(s) : s[i] = t[i]
  BY <1>1, <1>2, <1>3, <1>4 DEF PacketsInv
<1>6. SubSeq(s, 1, Len(s)) = SubSeq(t, 1, Len(s))
  BY <1>1, <1>2, <1>4, <1>5 DEF PacketsInv
<1>7. IsPrefix(s, t)
  BY <1>4, <1>6 DEF IsPrefix
<1> QED
  BY <1>7 DEF s, t, BytesInOrder, PacketsInv

\* read() returns what the peer has sent, whole and in order, and nothing empty before
\* the end; libuv calls back only into a socket that is there; and the clients of a
\* listener are handed out once each in the order they came.
THEOREM StreamsKeepOrder ==
  StreamsSpec => [](BytesInOrder /\ CallbackFindsObject /\ ClientsInOrder)
<1> DEFINE Inv == SocketInv /\ AcceptInv /\ ClientsInv
<1>1. StreamsInit => Inv
  <2>1. SocketInit => SocketInv
    <3>1. ToSet(<< >>) = {} /\ Once(<< >>)
      BY DEF ToSet, Once
    <3>2. SocketInit => SocketTypeOK /\ HandleInv
      <4>1. SocketInit => SocketTypeOK
        <5> SUFFICES ASSUME SocketInit PROVE SocketTypeOK
          OBVIOUS
        <5>1. disposed \in BOOLEAN /\ alive \in BOOLEAN /\ stream \in BOOLEAN /\ source \in BOOLEAN
          BY Zenon DEF SocketInit
        <5>2. queue \in Seq(Jobs) /\ writes \in Nat /\ reader = "idle" /\ socketRefs = {"owner"}
          BY DEF SocketInit
        <5> QED
          BY <5>1, <5>2 DEF SocketTypeOK
      <4>2. SocketInit => HandleInv
        BY Zenon DEF SocketInit, HandleInv
      <4> QED
        BY <4>1, <4>2
    <3>3. SocketInit => JobsInv
      BY <3>1 DEF SocketInit, JobsInv, Queued
    <3>4. SocketInit => PacketsInv
      BY <3>1 DEF SocketInit, PacketsInv, Queued
    <3> QED
      BY <3>2, <3>3, <3>4 DEF SocketInv
  <2>2. ListenerInit => AcceptInv /\ ClientsInv
    BY DEF ListenerInit, AcceptInv, ClientsInv, Ordered, ToSet
  <2> QED
    BY <2>1, <2>2 DEF StreamsInit
<1>2. Inv /\ [StreamsNext]_<<socketVars, listenerVars>> => Inv'
  <2> SUFFICES ASSUME Inv, [StreamsNext]_<<socketVars, listenerVars>> PROVE Inv'
    OBVIOUS
  <2>1. UNCHANGED socketVars => SocketInv'
    BY DEF socketVars, SocketInv, SocketTypeOK, JobsInv, HandleInv, PacketsInv, Queued
  <2>2. UNCHANGED listenerVars => AcceptInv' /\ ClientsInv'
    BY DEF listenerVars, AcceptInv, ClientsInv
  <2>3. SocketNext => SocketInv'
    BY OwnerKeepsSocket, PeerKeepsSocket, CallbacksKeepSocket, LoopKeepsSocket DEF SocketNext
  <2> QED
    BY <2>1, <2>2, <2>3, ListenerKeeps DEF StreamsNext
<1>3. Inv => BytesInOrder /\ CallbackFindsObject /\ ClientsInOrder
  BY PacketsInOrder, ListsInOrder DEF SocketInv, HandleInv, CallbackFindsObject
<1> QED
  BY <1>1, <1>2, <1>3, PTL DEF StreamsSpec

=============================================================================
