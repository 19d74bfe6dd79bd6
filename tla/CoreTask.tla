------------------------------ MODULE CoreTask ------------------------------
(***************************************************************************)
(* One async task: CoreTaskImpl (src/async/core_task_impl.cpp) together    *)
(* with the users that meet on it from different threads: the resolvers    *)
(* (TaskSource::resolve / reject), the coroutine that awaits it            *)
(* (TaskAwaiter in task.h) and the party that registers a ready callback   *)
(* (whenAll, whenAny, TaskCollection).  The flags of the atomic word       *)
(* m_flags, its two spin locks included, are the elements of a set; every  *)
(* atomic operation on it is one step.                                     *)
(***************************************************************************)
EXTENDS Naturals, Sequences

CONSTANTS Resolvers,   \* threads that try to resolve or reject the task
          Awaiter,     \* the thread that suspends a coroutine on the task
          Registrar,   \* the thread that registers the ready callback
          NoOutcome    \* the outcome of a task that is still pending

\* A task ends with a result or with an error.
Kinds == {"value", "error"}

ASSUME ThreadsAssumption ==
  /\ Resolvers # {}
  /\ Awaiter \notin Resolvers
  /\ Registrar \notin Resolvers
  /\ Awaiter # Registrar
  /\ Resolvers \cap {"frame", "invocation", "container"} = {}
  /\ NoOutcome \notin [by : Resolvers, kind : Kinds]

Threads == Resolvers \cup {Awaiter, Registrar}

\* TaskFlag_*.
Flags == {"Ready", "HasContinuation", "ContinuationScheduled",
          "ResolveLocked", "ReadyCallbackLocked"}

\* Who may own a reference: each resolver through its TaskSource, the awaiter
\* in the suspended coroutine frame, the argument of the continuation's
\* invocation, and the container of the party that registered the callback.
Owners == Resolvers \cup {"frame", "invocation", "container"}

VARIABLES
  flags,          \* m_flags
  outcome,        \* m_error or the result, with the resolver that stored it
  continuation,   \* is m_continuation set
  readyCallback,  \* is m_readyCallback set
  refs,           \* the outstanding references; {} once the task is freed
  pc,             \* where each thread is
  runner,         \* where the dispatched continuation is
  result,         \* what tryResolveInternal has returned to each resolver
  delivered,      \* what the awaiting coroutine has been given so far
  notified        \* how many times the ready callback has been invoked

vars == <<flags, outcome, continuation, readyCallback, refs, pc, runner,
          result, delivered, notified>>

ResolverLocs == {"resolve", "resolveLocked", "resolveUnlock", "callbackLock",
                 "callbackTake", "callbackInvoke", "checkFlags", "claim",
                 "dispatch", "inline", "return", "done"}
AwaiterLocs == {"awaitReady", "awaitGetError", "awaitSuspend", "suspendGetError",
                "addRef", "storeContinuation", "flagContinuation", "checkFlags",
                "claim", "dispatch", "inline", "done"}
RegistrarLocs == {"setCallbackLock", "setCallbackCheck", "setCallbackStore",
                  "callbackInvoke", "done"}

Init ==
  /\ flags = {}
  /\ outcome = NoOutcome
  /\ continuation = FALSE
  /\ readyCallback = FALSE
  /\ refs = Resolvers \cup {"frame", "container"}
  /\ pc = [t \in Threads |-> IF t = Awaiter THEN "awaitReady"
                             ELSE IF t = Registrar THEN "setCallbackLock"
                             ELSE "resolve"]
  /\ runner = "none"
  /\ result = [r \in Resolvers |-> "pending"]
  /\ delivered = << >>
  /\ notified = 0

Goto(t, from, to) ==
  /\ pc[t] = from
  /\ pc' = [pc EXCEPT ![t] = to]

\* LockFlagGuard: spins until the flag is clear, then sets it.
LockFlag(flag) ==
  /\ flag \notin flags
  /\ flags' = flags \cup {flag}

\* The ready callback of a container (TaskCollection, a list of whenAll):
\* it takes note of the completion and drops the container's reference.
InvokeCallback ==
  /\ notified' = notified + 1
  /\ refs' = refs \ {"container"}

\* The coroutine gets the outcome and its frame releases the awaiter.
ResumeCoroutine ==
  /\ delivered' = Append(delivered, outcome.kind)
  /\ refs' = refs \ {"frame"}

-----------------------------------------------------------------------------
(* tryResolveInternal *)

LockResolve(r) ==
  /\ Goto(r, "resolve", "resolveLocked")
  /\ LockFlag("ResolveLocked")
  /\ UNCHANGED <<outcome, continuation, readyCallback, refs, runner, result,
                 delivered, notified>>

\* A mutant of AlreadyResolved: the flag is not looked at under the lock.
NeverResolved == FALSE

AlreadyResolved == "Ready" \in flags

ResolveTooLate(r) ==
  /\ Goto(r, "resolveLocked", "return")
  /\ AlreadyResolved
  /\ flags' = flags \ {"ResolveLocked"}
  /\ result' = [result EXCEPT ![r] = "false"]
  /\ UNCHANGED <<outcome, continuation, readyCallback, refs, runner, delivered,
                 notified>>

ResolveNow(r) ==
  /\ Goto(r, "resolveLocked", "resolveUnlock")
  /\ ~AlreadyResolved
  /\ \E kind \in Kinds : outcome' = [by |-> r, kind |-> kind]
  /\ flags' = flags \cup {"Ready"}
  /\ UNCHANGED <<continuation, readyCallback, refs, runner, result, delivered,
                 notified>>

\* A mutant of UnlockResolve: the TaskSource goes away as soon as the task is
\* ready, before the resolver has notified anybody.
UnlockAndRelease(r) ==
  /\ Goto(r, "resolveUnlock", "callbackLock")
  /\ flags' = flags \ {"ResolveLocked"}
  /\ refs' = refs \ {r}
  /\ UNCHANGED <<outcome, continuation, readyCallback, runner, result, delivered,
                 notified>>

UnlockResolve(r) ==
  /\ Goto(r, "resolveUnlock", "callbackLock")
  /\ flags' = flags \ {"ResolveLocked"}
  /\ UNCHANGED <<outcome, continuation, readyCallback, refs, runner, result,
                 delivered, notified>>

\* The resolver returns and its TaskSource releases the task.
ReturnFromResolve(r) ==
  /\ Goto(r, "return", "done")
  /\ result' = [result EXCEPT ![r] = IF @ = "pending" THEN "true" ELSE @]
  /\ refs' = refs \ {r}
  /\ UNCHANGED <<flags, outcome, continuation, readyCallback, runner, delivered,
                 notified>>

-----------------------------------------------------------------------------
(* setReadyCallback and invokeReadyCallback *)

LockSetCallback ==
  /\ Goto(Registrar, "setCallbackLock", "setCallbackCheck")
  /\ LockFlag("ReadyCallbackLocked")
  /\ UNCHANGED <<outcome, continuation, readyCallback, refs, runner, result,
                 delivered, notified>>

\* A mutant of SetCallbackReady: the callback is stored and the lock released
\* although the task is ready.
SetCallbackReadyUnseen ==
  /\ Goto(Registrar, "setCallbackCheck", "done")
  /\ "Ready" \in flags
  /\ readyCallback' = TRUE
  /\ flags' = flags \ {"ReadyCallbackLocked"}
  /\ UNCHANGED <<outcome, continuation, refs, runner, result, delivered, notified>>

SetCallbackReady ==
  /\ Goto(Registrar, "setCallbackCheck", "callbackInvoke")
  /\ "Ready" \in flags
  /\ flags' = flags \ {"ReadyCallbackLocked"}
  /\ UNCHANGED <<outcome, continuation, readyCallback, refs, runner, result,
                 delivered, notified>>

SetCallbackPending ==
  /\ Goto(Registrar, "setCallbackCheck", "setCallbackStore")
  /\ "Ready" \notin flags
  /\ UNCHANGED <<flags, outcome, continuation, readyCallback, refs, runner,
                 result, delivered, notified>>

StoreCallback ==
  /\ Goto(Registrar, "setCallbackStore", "done")
  /\ readyCallback' = TRUE
  /\ flags' = flags \ {"ReadyCallbackLocked"}
  /\ UNCHANGED <<outcome, continuation, refs, runner, result, delivered, notified>>

\* A mutant of LockTakeCallback: the callback is taken without the lock, so
\* that it can be missed between the registrar's check and its store.
SkipTakeCallbackLock(r) ==
  /\ Goto(r, "callbackLock", "callbackTake")
  /\ UNCHANGED <<flags, outcome, continuation, readyCallback, refs, runner,
                 result, delivered, notified>>

LockTakeCallback(r) ==
  /\ Goto(r, "callbackLock", "callbackTake")
  /\ LockFlag("ReadyCallbackLocked")
  /\ UNCHANGED <<outcome, continuation, readyCallback, refs, runner, result,
                 delivered, notified>>

TakeCallback(r) ==
  /\ Goto(r, "callbackTake", IF readyCallback THEN "callbackInvoke" ELSE "checkFlags")
  /\ readyCallback' = FALSE
  /\ flags' = flags \ {"ReadyCallbackLocked"}
  /\ UNCHANGED <<outcome, continuation, refs, runner, result, delivered, notified>>

\* Outside of the lock, by the resolver or by the registrar itself.
RunCallback(t) ==
  /\ Goto(t, "callbackInvoke", IF t \in Resolvers THEN "checkFlags" ELSE "done")
  /\ InvokeCallback
  /\ UNCHANGED <<flags, outcome, continuation, readyCallback, runner, result,
                 delivered>>

-----------------------------------------------------------------------------
(* TaskAwaiter and setContinuation *)

\* await_ready: a ready task is asked for its error at once.
AwaitReady ==
  /\ Goto(Awaiter, "awaitReady",
          IF "Ready" \in flags THEN "awaitGetError" ELSE "awaitSuspend")
  /\ UNCHANGED <<flags, outcome, continuation, readyCallback, refs, runner,
                 result, delivered, notified>>

\* A ready task without an error is not waited for: the coroutine goes on.
AwaitGetError ==
  /\ pc[Awaiter] = "awaitGetError"
  /\ "ResolveLocked" \notin flags
  /\ \/ /\ outcome.kind = "value"
        /\ Goto(Awaiter, "awaitGetError", "done")
        /\ ResumeCoroutine
     \/ /\ outcome.kind = "error"
        /\ Goto(Awaiter, "awaitGetError", "awaitSuspend")
        /\ UNCHANGED <<refs, delivered>>
  /\ UNCHANGED <<flags, outcome, continuation, readyCallback, runner, result,
                 notified>>

\* await_suspend looks at the task once more: it may have become ready.
AwaitSuspend ==
  /\ Goto(Awaiter, "awaitSuspend",
          IF "Ready" \in flags THEN "suspendGetError" ELSE "addRef")
  /\ UNCHANGED <<flags, outcome, continuation, readyCallback, refs, runner,
                 result, delivered, notified>>

\* A rejected task rejects the coroutine's own task and destroys its frame.
SuspendGetError ==
  /\ pc[Awaiter] = "suspendGetError"
  /\ "ResolveLocked" \notin flags
  /\ \/ /\ outcome.kind = "error"
        /\ Goto(Awaiter, "suspendGetError", "done")
        /\ ResumeCoroutine
     \/ /\ outcome.kind = "value"
        /\ Goto(Awaiter, "suspendGetError", "addRef")
        /\ UNCHANGED <<refs, delivered>>
  /\ UNCHANGED <<flags, outcome, continuation, readyCallback, runner, result,
                 notified>>

\* The reference the continuation's invocation will own.
AddRef ==
  /\ Goto(Awaiter, "addRef", "storeContinuation")
  /\ refs' = refs \cup {"invocation"}
  /\ UNCHANGED <<flags, outcome, continuation, readyCallback, runner, result,
                 delivered, notified>>

StoreContinuation ==
  /\ Goto(Awaiter, "storeContinuation", "flagContinuation")
  /\ continuation' = TRUE
  /\ UNCHANGED <<flags, outcome, readyCallback, refs, runner, result, delivered,
                 notified>>

\* From here on the continuation may run, and free the task, on any thread.
FlagContinuation ==
  /\ Goto(Awaiter, "flagContinuation", "checkFlags")
  /\ flags' = flags \cup {"HasContinuation"}
  /\ UNCHANGED <<outcome, continuation, readyCallback, refs, runner, result,
                 delivered, notified>>

-----------------------------------------------------------------------------
(* tryScheduleContinuation, by the winning resolver and by the awaiter *)

\* Where tryScheduleContinuation returns to.
AfterSchedule(t) == IF t \in Resolvers THEN "return" ELSE "done"

CheckFlags(t) ==
  /\ Goto(t, "checkFlags",
          IF {"Ready", "HasContinuation"} \subseteq flags THEN "claim"
                                                          ELSE AfterSchedule(t))
  /\ UNCHANGED <<flags, outcome, continuation, readyCallback, refs, runner,
                 result, delivered, notified>>

\* The compare-exchange loop on TaskFlag_ContinuationScheduled.
Claim(t) ==
  /\ Goto(t, "claim", IF "ContinuationScheduled" \in flags THEN AfterSchedule(t)
                                                           ELSE "dispatch")
  /\ flags' = flags \cup {"ContinuationScheduled"}
  /\ UNCHANGED <<outcome, continuation, readyCallback, refs, runner, result,
                 delivered, notified>>

\* The continuation is moved out and given to an executor, or invoked inline
\* when there is none or the task does not continue on the captured one.
Dispatch(t) ==
  /\ pc[t] = "dispatch"
  /\ \E to \in {"inline", AfterSchedule(t)} : pc' = [pc EXCEPT ![t] = to]
  /\ continuation' = FALSE
  /\ runner' = "posted"
  /\ UNCHANGED <<flags, outcome, readyCallback, refs, result, delivered, notified>>

InlineReturns(t) ==
  /\ Goto(t, "inline", AfterSchedule(t))
  /\ runner = "finished"
  /\ UNCHANGED <<flags, outcome, continuation, readyCallback, refs, runner,
                 result, delivered, notified>>

-----------------------------------------------------------------------------
(* The continuation's invocation, on whatever thread runs it *)

ContinuationGetError ==
  /\ runner = "posted"
  /\ "ResolveLocked" \notin flags
  /\ runner' = "release"
  /\ UNCHANGED <<flags, outcome, continuation, readyCallback, refs, pc, result,
                 delivered, notified>>

\* A mutant of ContinuationReleaseRef: the reference is not given back.
ContinuationKeepRef ==
  /\ runner = "release"
  /\ runner' = "resume"
  /\ UNCHANGED <<flags, outcome, continuation, readyCallback, refs, pc, result,
                 delivered, notified>>

ContinuationReleaseRef ==
  /\ runner = "release"
  /\ runner' = "resume"
  /\ refs' = refs \ {"invocation"}
  /\ UNCHANGED <<flags, outcome, continuation, readyCallback, pc, result,
                 delivered, notified>>

ContinuationResume ==
  /\ runner = "resume"
  /\ runner' = "finished"
  /\ ResumeCoroutine
  /\ UNCHANGED <<flags, outcome, continuation, readyCallback, pc, result, notified>>

-----------------------------------------------------------------------------

Resolve(r) ==
  \/ LockResolve(r) \/ ResolveTooLate(r) \/ ResolveNow(r) \/ UnlockResolve(r)
  \/ LockTakeCallback(r) \/ TakeCallback(r) \/ ReturnFromResolve(r)

SetReadyCallback ==
  LockSetCallback \/ SetCallbackReady \/ SetCallbackPending \/ StoreCallback

Await ==
  \/ AwaitReady \/ AwaitGetError \/ AwaitSuspend \/ SuspendGetError
  \/ AddRef \/ StoreContinuation \/ FlagContinuation

TryScheduleContinuation(t) ==
  CheckFlags(t) \/ Claim(t) \/ Dispatch(t) \/ InlineReturns(t)

RunContinuation ==
  ContinuationGetError \/ ContinuationReleaseRef \/ ContinuationResume

ThreadStep(t) ==
  \/ t \in Resolvers /\ Resolve(t)
  \/ t = Registrar /\ SetReadyCallback
  \/ t = Awaiter /\ Await
  \/ RunCallback(t)
  \/ TryScheduleContinuation(t)

\* Everybody has returned and the continuation has run.
Terminated ==
  /\ \A t \in Threads : pc[t] = "done"
  /\ runner \in {"none", "finished"}
  /\ UNCHANGED vars

Next ==
  \/ \E t \in Threads : ThreadStep(t)
  \/ RunContinuation
  \/ Terminated

Spec == Init /\ [][Next]_vars

\* Every thread that can take its next step takes it: the spin locks are held
\* for a few instructions, and a TaskSource that goes away unresolved rejects
\* its task, so that every resolver gets to tryResolveInternal.
FairSpec ==
  /\ Spec
  /\ \A t \in Threads : WF_vars(ThreadStep(t))
  /\ WF_vars(RunContinuation)

-----------------------------------------------------------------------------
(* Properties *)

\* The type invariant: what m_flags, the task's fields and each thread's place
\* in its function may be.
TypeOK ==
  /\ flags \subseteq Flags
  /\ outcome \in [by : Resolvers, kind : Kinds] \cup {NoOutcome}
  /\ continuation \in BOOLEAN
  /\ readyCallback \in BOOLEAN
  /\ refs \subseteq Owners
  /\ pc \in [Threads -> ResolverLocs \cup AwaiterLocs \cup RegistrarLocs]
  /\ \A r \in Resolvers : pc[r] \in ResolverLocs
  /\ pc[Awaiter] \in AwaiterLocs
  /\ pc[Registrar] \in RegistrarLocs
  /\ runner \in {"none", "posted", "release", "resume", "finished"}
  /\ result \in [Resolvers -> {"pending", "true", "false"}]
  /\ delivered \in Seq(Kinds)
  /\ notified \in Nat

\* tryResolveInternal tells its caller the truth: it returns true exactly when
\* the outcome the task ends with is the one that caller has stored.
TruthfulResult ==
  \A r \in Resolvers :
    /\ result[r] = "true" => outcome # NoOutcome /\ outcome.by = r
    /\ result[r] = "false" => outcome # NoOutcome /\ outcome.by # r

\* A resolver that has made the task ready has still to look at the callback.
CallbackAhead(r) == pc[r] \in {"resolveUnlock", "callbackLock", "callbackTake"}

\* A callback stored on a ready task is never forgotten: setReadyCallback and
\* tryResolveInternal race, and whenever the callback is left in the task the
\* resolver that made it ready has not come to invokeReadyCallback yet.
NoLostCallback ==
  readyCallback /\ "Ready" \in flags => \E r \in Resolvers : CallbackAhead(r)

\* A thread that has still to come to the claim in tryScheduleContinuation.
ClaimAhead(t) ==
  \/ t \in Resolvers /\ (CallbackAhead(t) \/ pc[t] = "callbackInvoke")
  \/ pc[t] \in {"checkFlags", "claim"}

\* A continuation set on a ready task is never forgotten: as long as nobody has
\* claimed it, one of the two threads that may schedule it is about to.
NoLostContinuation ==
  /\ {"Ready", "HasContinuation"} \subseteq flags
  /\ "ContinuationScheduled" \notin flags
  => \E t \in Threads : ClaimAhead(t)

\* The assertion of tryScheduleContinuation: who has claimed the continuation
\* finds it there, and nobody else is about to move it out.
ClaimedContinuationIsThere ==
  /\ \A t \in Threads : pc[t] = "dispatch" => continuation
  /\ \A t, u \in Threads : pc[t] = "dispatch" /\ pc[u] = "dispatch" => t = u

\* However resolve, setContinuation and setReadyCallback interleave, what a task is
\* told to call when it is ready is called: nothing is left behind, and who claims
\* the continuation finds it.
NothingIsLost == NoLostCallback /\ NoLostContinuation /\ ClaimedContinuationIsThere

\* The locations at which a thread is about to read or write the task.
Touches(t) ==
  pc[t] \notin {"return", "done", "inline"}
    /\ ~(t = Registrar /\ pc[t] = "callbackInvoke")

RunnerTouches == runner \in {"posted", "release"}

\* Whoever uses the task while he holds a reference, or runs on behalf of one
\* that does, finds it alive: resolvers, the registrar, the continuation, and
\* the awaiter as long as it has not published its continuation.
NoUseAfterRelease ==
  /\ \A t \in Resolvers \cup {Registrar} : Touches(t) => refs # {}
  /\ pc[Awaiter] \notin {"checkFlags", "claim", "dispatch", "inline", "done"}
       => refs # {}
  /\ RunnerTouches => refs # {}

\* What the comment in tryScheduleContinuation claims: "So 'this' task can not
\* be used from this point any more", the point at which the continuation may
\* have been resumed and the last reference released.  setContinuation does
\* use it: it publishes the continuation and then calls tryScheduleContinuation.
NoUseAfterFree == \A t \in Threads : Touches(t) => refs # {}

\* The task implements its contract: settled once, then delivered once to the
\* coroutine and once to the ready callback, whatever the interleaving.
Contract == INSTANCE TaskContract
            WITH outcome <- outcome, delivered <- delivered, notified <- notified
ImplementsContract == Contract!Spec

\* Every reference is given back: the task is destroyed once everybody is done.
EventuallyFreed == <>(refs = {})

=============================================================================
