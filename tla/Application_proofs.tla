------------------------- MODULE Application_proofs -------------------------
(***************************************************************************)
(* Proofs of the safety properties of KernelRuntime and of Application     *)
(* around it, for any objects, coroutines and number of services.  The     *)
(* runtime's inductive invariant says what its thread knows at each of its *)
(* steps: which state it has set, what it has let go of, and that no       *)
(* object has come back with works since its visit.  It goes on to hold    *)
(* with the application's steps in between; on top of it the application   *)
(* knows which of its states belongs to each of its steps, and that the    *)
(* runtime only leaves Operable once it has been shut down.  Last comes    *)
(* the order in which Startup ends the modules and works through the       *)
(* services, for any services, dependencies and number of modules: the     *)
(* visit of the dependencies makes a list so nested that the sort, whose   *)
(* comparison is only a partial order, puts dependencies first all the     *)
(* same, and the operations keep to the batches made of it.  The           *)
(* coroutines in which the application works have an invariant of their    *)
(* own: what each awaits, who waits for it, and what it has settled.       *)
(***************************************************************************)
EXTENDS Application, Startup, Coroutines, WellFoundedInduction, TLAPS

-----------------------------------------------------------------------------
(* The runtime *)

\* From the visit that found no works to the end.
PastVisit ==
  \/ rtPc \in {"checkCaptured", "complete", "resetExecutor", "closeLoop", "completed"}
  \/ rtState \in {"ShutdownNeedCompletion", "ShutdownCompleted"}

\* The state the runtime thread leaves behind at each step of its shutdown.
StateAtPc ==
  /\ rtPc \in {"visit", "checkCaptured", "complete"} => rtState = "ShutdownProcessed"
  /\ rtState = "ShutdownNeedCompletion" <=> rtPc \in {"resetExecutor", "closeLoop", "completed"}
  /\ rtState = "ShutdownCompleted" => rtPc \in {"poll", "exit"}
  /\ rtPc = "exit" => rtState = "ShutdownCompleted"

\* What it has let go of.
Released ==
  /\ rtPc \in {"closeLoop", "completed"} \/ rtState = "ShutdownCompleted" => ~executor
  /\ rtPc = "completed" \/ rtState = "ShutdownCompleted" => ~registry

RtInv ==
  /\ RtTypeOK
  /\ StateAtPc
  /\ Released
  /\ PastVisit => works \cap Objects = {}

\* The runtime starts as the invariant says.
LEMMA RtInitially == RtInit => RtInv
  BY DEF RtInit, RtInv, RtTypeOK, StateAtPc, Released, PastVisit, RuntimeStates

\* Each step of the runtime thread keeps the invariant.
LEMMA RuntimeThreadKeeps == RtInv /\ RuntimeThread => RtInv'
<1> SUFFICES ASSUME RtInv, RuntimeThread PROVE RtInv'
  OBVIOUS
<1> USE DEF RtInv, RtTypeOK, StateAtPc, Released, PastVisit, RtGoto, Users, RuntimeStates
<1>1. CASE BindToCurrentThread
  BY <1>1 DEF BindToCurrentThread
<1>2. CASE Poll
  BY <1>2 DEF Poll
<1>3. CASE RunDefault
  BY <1>3 DEF RunDefault, RunInvocations, RunLoop
<1>4. CASE RunNoWait
  BY <1>4 DEF RunNoWait, RunInvocations, RunLoop
<1>5. CASE Polled
  BY <1>5 DEF Polled
<1>6. CASE Visit
  BY <1>6 DEF Visit, HasPendingWorks, HasInvocations
<1>7. CASE CheckCaptured
  BY <1>7 DEF CheckCaptured
<1>8. CASE NeedCompletion
  BY <1>8 DEF NeedCompletion
<1>9. CASE ResetExecutor
  BY <1>9 DEF ResetExecutor
<1>10. CASE CloseHandles
  BY <1>10 DEF CloseHandles, RunLoop
<1>11. CASE CloseLoop
  BY <1>11 DEF CloseLoop
<1>12. CASE Completed
  BY <1>12 DEF Completed
<1> QED
  BY <1>1, <1>2, <1>3, <1>4, <1>5, <1>6, <1>7, <1>8, <1>9, <1>10, <1>11, <1>12
  DEF RuntimeThread

\* So does each step of shutdown(), on whatever thread.
LEMMA ShutdownKeeps == RtInv /\ Shutdown => RtInv'
<1> SUFFICES ASSUME RtInv, Shutdown PROVE RtInv'
  OBVIOUS
<1> USE DEF RtInv, RtTypeOK, StateAtPc, Released, PastVisit, SdGoto, Users, RuntimeStates
<1>1. CASE BeginShutdown
  BY <1>1 DEF BeginShutdown
<1>2. CASE Dispose
  BY <1>2 DEF Dispose
<1>3. CASE Execute
  BY <1>3 DEF Execute
<1> QED
  BY <1>1, <1>2, <1>3 DEF Shutdown

\* So do the objects, which only get done, and the coroutines.
LEMMA UserStepKeeps == RtInv /\ UserStep => RtInv'
<1> SUFFICES ASSUME RtInv, UserStep PROVE RtInv'
  OBVIOUS
<1> USE DEF RtInv, RtTypeOK, StateAtPc, Released, PastVisit, RuntimeStates
<1>1. ASSUME NEW o \in Objects, ObjectDone(o) PROVE RtInv'
  BY <1>1 DEF ObjectDone
<1>2. ASSUME NEW h \in Holders, HolderAwaits(h) \/ HolderResumes(h) \/ HolderEnds(h)
      PROVE RtInv'
  BY <1>2 DEF HolderAwaits, HolderResumes, HolderEnds
<1> QED
  BY <1>1, <1>2 DEF UserStep

\* The invariant holds in every behaviour.
THEOREM RtInvariance == Spec => []RtInv
<1>1. RtInv /\ [Next]_rtVars => RtInv'
  <2>1. RtInv /\ UNCHANGED rtVars => RtInv'
    BY DEF rtVars, RtInv, RtTypeOK, StateAtPc, Released, PastVisit
  <2> QED
    BY <2>1, RuntimeThreadKeeps, ShutdownKeeps, UserStepKeeps DEF Next
<1> QED
  BY <1>1, RtInitially, PTL DEF Spec

\* Type correctness of the runtime, for any objects and coroutines.
THEOREM RtTyping == Spec => []RtTypeOK
  BY RtInvariance, PTL DEF RtInv

\* No runtime is completed under an object that still has works.
THEOREM ObjectsWaited == Spec => []ObjectsAreWaitedFor
<1>1. RtInv => ObjectsAreWaitedFor
  BY DEF RtInv, PastVisit, ObjectsAreWaitedFor
<1> QED
  BY <1>1, RtInvariance, PTL

\* ShutdownCompleted is the last thing the runtime thread does.
THEOREM CompletedIsLast == Spec => []CompletedMeansGone
<1>1. RtInv => CompletedMeansGone
  BY DEF RtInv, StateAtPc, Released, CompletedMeansGone
<1> QED
  BY <1>1, RtInvariance, PTL

\* The loop of the runtime thread ends only with the shutdown completed.
THEOREM LoopEnd == Spec => []LoopEndsCompleted
<1>1. RtInv => LoopEndsCompleted
  BY DEF RtInv, StateAtPc, LoopEndsCompleted
<1> QED
  BY <1>1, RtInvariance, PTL

-----------------------------------------------------------------------------
(* The application around it *)

\* The state stop() may still change is Active; every other state belongs to
\* the application's thread, which finds it as it has read it.
StateAtStep ==
  /\ appPc = "startup" <=> appState = "NotStarted"
  /\ appPc = "starting" <=> appState = "Initializing"
  /\ appPc \in {"take", "poll", "act"} =>
       \/ appState = last
       \/ last = "Active" /\ appState = "ShutdownRequested"
  /\ appPc \in {"take", "poll", "act"} => last # "ShutdownCompleted"
  /\ appPc = "shutdown" => appState = "RuntimeShutdownProcessed"
  /\ appPc = "finished" => appState = "ShutdownCompleted"
  /\ appState \notin {"RuntimeShutdownProcessed", "ShutdownCompleted"} \/ appPc = "shutdown" =>
       services = "none"

AppInv ==
  /\ RtInv
  /\ AppTypeOK
  /\ StateAtStep
  /\ RuntimeFollowsApplication
  /\ appState = "ShutdownCompleted" => rtState = "ShutdownCompleted"

\* The application starts as the invariant says.
LEMMA AppInitially == AppInit => AppInv
<1>1. AppInit => RtInv
  BY RtInitially DEF AppInit
<1>2. AppInit => "queue" \notin works /\ "services" \notin works
  BY NamesAssumption DEF AppInit, RtInit
<1> QED
  BY <1>1, <1>2, ServicesAssumption
  DEF AppInit, RtInit, AppInv, AppTypeOK, AppStates, StateAtStep, Polling,
      RuntimeFollowsApplication

\* The runtime does not see the application's thread: queue and services are
\* neither objects nor coroutines of its own.
LEMMA AppStepsKeepRuntime ==
  ASSUME RtInv, UNCHANGED <<rtState, rtPc, sdPc, posted, executor, registry,
                            disposed, handles>>,
         works' \cap Objects = works \cap Objects,
         captured' \subseteq executorRefs'
  PROVE  RtInv'
  BY DEF RtInv, RtTypeOK, StateAtPc, Released, PastVisit

\* The services' task keeps the executor it has captured.
LEMMA RunServicesKeeps == RtInv /\ RunServices => captured' \subseteq executorRefs'
  BY DEF RtInv, RtTypeOK, RunServices

\* The steps of the application's thread that leave the runtime's state alone.
LEMMA AppThreadKeeps == AppInv /\ AppThread => AppInv'
<1> SUFFICES ASSUME AppInv, AppThread PROVE AppInv'
  OBVIOUS
<1> USE ServicesAssumption
    DEF AppInv, AppTypeOK, AppStates, StateAtStep, RuntimeFollowsApplication,
        AppGoto, Polling
<1>q. "queue" \notin Objects /\ "services" \notin Objects
  BY NamesAssumption
<1>c. captured \subseteq executorRefs
  BY DEF RtInv, RtTypeOK
<1>u. UNCHANGED rtVars => RtInv'
  BY AppStepsKeepRuntime, <1>c DEF rtVars
<1>1. CASE StartupOnCurrentThread
  BY <1>1, <1>u DEF StartupOnCurrentThread, rtVars
<1>2. CASE StartupServices
  BY <1>2, <1>u DEF StartupServices, rtVars
<1>3. CASE Step
  <2>1. RtInv'
    BY <1>3, <1>q, <1>c, AppStepsKeepRuntime DEF Step
  <2> QED
    BY <1>3, <2>1 DEF Step
<1>4. CASE PollServices
  <2>1. RtInv'
    BY <1>4, <1>q, AppStepsKeepRuntime, RunServicesKeeps DEF PollServices
  <2> QED
    BY <1>4, <2>1 DEF PollServices, RunServices
<1>5. CASE PollNothing
  BY <1>5, <1>u DEF PollNothing, rtVars
<1>6. CASE PollEnds
  <2>1. RtInv'
    BY <1>6, <1>q, <1>c, AppStepsKeepRuntime DEF PollEnds
  <2> QED
    BY <1>6, <2>1 DEF PollEnds
<1>7. CASE ActIdle
  BY <1>7, <1>u DEF ActIdle, rtVars
<1>8. CASE ActShutdownRequested
  BY <1>8, <1>u DEF ActShutdownRequested, rtVars
<1>9. CASE ActGameShutdown
  BY <1>9, <1>u DEF ActGameShutdown, rtVars
<1>10. CASE ShutdownRuntime
  <2>1. RtInv'
    BY <1>10, ShutdownKeeps DEF ShutdownRuntime
  <2>2. UNCHANGED <<appVars, works, captured, executorRefs>>
    BY <1>10
    DEF ShutdownRuntime, Shutdown, BeginShutdown, Dispose, Execute, Users
  <2>3. rtState = "ShutdownCompleted" => rtState' = "ShutdownCompleted"
    BY <1>10 DEF ShutdownRuntime, Shutdown, BeginShutdown, Dispose, Execute
  <2> QED
    BY <1>10, <2>1, <2>2, <2>3 DEF ShutdownRuntime, appVars
<1>11. CASE BeginServicesShutdown
  <2>1. RtInv'
    BY <1>11, AppStepsKeepRuntime, RunServicesKeeps DEF BeginServicesShutdown
  <2> QED
    BY <1>11, <2>1 DEF BeginServicesShutdown, RunServices
<1>12. CASE ActRuntimeShutdown
  BY <1>12, <1>u DEF ActRuntimeShutdown, RuntimeIsDown, rtVars
<1> QED
  BY <1>1, <1>2, <1>3, <1>4, <1>5, <1>6, <1>7, <1>8, <1>9, <1>10, <1>11, <1>12
  DEF AppThread

\* stop() and the end of a service, on any thread.
LEMMA OthersKeep == AppInv /\ (Stop \/ ServiceDone \/ ServiceQueued) => AppInv'
<1> SUFFICES ASSUME AppInv, Stop \/ ServiceDone \/ ServiceQueued PROVE AppInv'
  OBVIOUS
<1> USE DEF AppInv, AppTypeOK, AppStates, StateAtStep, RuntimeFollowsApplication, Polling
<1>q. "queue" \notin Objects /\ "services" \notin Objects
  BY NamesAssumption
<1>c. captured \subseteq executorRefs
  BY DEF RtInv, RtTypeOK
<1>1. CASE Stop
  <2>1. RtInv'
    BY <1>1, <1>c, AppStepsKeepRuntime DEF Stop, rtVars
  <2> QED
    BY <1>1, <2>1 DEF Stop, rtVars
<1>2. CASE ServiceDone
  <2>1. RtInv'
    BY <1>2, <1>c, AppStepsKeepRuntime DEF ServiceDone
  <2> QED
    BY <1>2, <2>1 DEF ServiceDone
<1>3. CASE ServiceQueued
  <2>1. RtInv'
    BY <1>3, <1>c, <1>q, AppStepsKeepRuntime DEF ServiceQueued
  <2> QED
    BY <1>3, <2>1 DEF ServiceQueued
<1> QED
  BY <1>1, <1>2, <1>3

\* The runtime's side never touches what the application put into its sets, goes
\* from Operable only where shutdown() has been called, and never comes back from
\* ShutdownCompleted.
LEMMA RuntimeSideKeeps == AppInv /\ RuntimeSide => AppInv'
<1> SUFFICES ASSUME AppInv, RuntimeSide PROVE AppInv'
  OBVIOUS
<1>1. RtInv'
  BY RuntimeThreadKeeps, UserStepKeeps DEF AppInv, RuntimeSide
<1>2. CASE RuntimeThread
  <2>1. UNCHANGED <<works, captured, executorRefs>>
    BY <1>2
    DEF RuntimeThread, BindToCurrentThread, Poll, RunDefault, RunNoWait, RunInvocations, RunLoop, Polled,
        Visit, CheckCaptured, NeedCompletion, ResetExecutor, CloseHandles, CloseLoop,
        Completed, Users
  <2>2. /\ rtState' \notin {"NotInitialized", "Operable"} =>
             rtState \notin {"NotInitialized", "Operable"}
        /\ rtState = "ShutdownCompleted" => rtState' = "ShutdownCompleted"
    BY <1>2
    DEF RuntimeThread, BindToCurrentThread, Poll, RunDefault, RunNoWait, RunInvocations, RunLoop, Polled,
        Visit, CheckCaptured, NeedCompletion, ResetExecutor, CloseHandles, CloseLoop,
        Completed, RtGoto, AppInv, RtInv, RtTypeOK, StateAtPc
  <2> QED
    BY <1>1, <2>1, <2>2
    DEF AppInv, AppTypeOK, StateAtStep, RuntimeFollowsApplication, Polling, RuntimeSide,
        appVars
<1>3. CASE UserStep
  <2>1. /\ UNCHANGED rtState
        /\ "queue" \in works' <=> "queue" \in works
        /\ "services" \in works' <=> "services" \in works
        /\ "services" \in captured' <=> "services" \in captured
    BY <1>3, NamesAssumption
    DEF UserStep, ObjectDone, HolderAwaits, HolderResumes, HolderEnds
  <2> QED
    BY <1>1, <2>1
    DEF AppInv, AppTypeOK, StateAtStep, RuntimeFollowsApplication, Polling, RuntimeSide,
        appVars
<1> QED
  BY <1>2, <1>3 DEF RuntimeSide

\* The invariant holds in every behaviour.
THEOREM AppInvariance == AppSpec => []AppInv
<1>1. AppInv /\ [AppNext]_allVars => AppInv'
  <2>1. AppInv /\ UNCHANGED allVars => AppInv'
    BY DEF allVars, appVars, rtVars, AppInv, RtInv, RtTypeOK, StateAtPc, Released, PastVisit,
           AppTypeOK, StateAtStep, RuntimeFollowsApplication, Polling
  <2> QED
    BY <2>1, AppThreadKeeps, OthersKeep, RuntimeSideKeeps DEF AppNext
<1> QED
  BY <1>1, AppInitially, PTL DEF AppSpec

\* Type correctness of both threads, and of the application's works in the runtime's
\* sets (TypeOK).
THEOREM AppTyping == AppSpec => []TypeOK
<1>1. AppInv => TypeOK
  BY DEF AppInv, RtInv, TypeOK
<1> QED
  BY <1>1, AppInvariance, PTL

\* The modules are unloaded when the runtime thread has let go of everything.
THEOREM UnloadComesLast == AppSpec => []UnloadIsLast
<1>1. AppInv => UnloadIsLast
  BY DEF AppInv, RtInv, StateAtPc, Released, PastVisit, UnloadIsLast
<1> QED
  BY <1>1, AppInvariance, PTL

\* The runtime is shut down only for an application that has stopped.
THEOREM RuntimeFollows == AppSpec => []RuntimeFollowsApplication
  BY AppInvariance, PTL DEF AppInv

\* The application's state never goes back, whenever stop() is called.
THEOREM StatesGoForward == AppSpec => NeverBack
<1> DEFINE Forward ==
      appState' # appState =>
        <<appState, appState'>> \in
          {<<"NotStarted", "Initializing">>, <<"Initializing", "Active">>,
           <<"Initializing", "Invalid">>, <<"Active", "ShutdownRequested">>,
           <<"ShutdownRequested", "GameShutdownProcessed">>,
           <<"GameShutdownProcessed", "RuntimeShutdownProcessed">>,
           <<"RuntimeShutdownProcessed", "ShutdownCompleted">>}
<1>1. ASSUME AppInv, AppNext PROVE Forward
  BY <1>1
  DEF AppNext, AppThread, RuntimeSide, StartupOnCurrentThread, StartupServices, Step,
      PollServices, PollNothing, PollEnds, ActIdle, ActShutdownRequested, ActGameShutdown,
      ShutdownRuntime, BeginServicesShutdown, ActRuntimeShutdown, Stop, ServiceDone,
      ServiceQueued, AppGoto, appVars, AppInv, StateAtStep
<1>2. AppInv /\ [AppNext]_allVars => [Forward]_allVars
  BY <1>1
<1> QED
  BY <1>2, AppInvariance, PTL DEF AppSpec, NeverBack

-----------------------------------------------------------------------------
(* The modules: Startup is a specification of its own. *)

\* The stages before the application is active.
Starting == {"preInit", "init", "postInit"}

\* The phase that is next, by how far the application has come: the shutdown of the
\* modules is next only between a startup that went well and the end.
PhaseAtStage ==
  /\ stage = "modules" => nextPhase = "Init" /\ ~failed
  /\ stage \in Starting => nextPhase = "PostInit" /\ ~failed
  /\ stage = "invalid" => nextPhase = "PostInit" /\ failed
  /\ stage \in {"active", "stopping"} => (nextPhase = "Shutdown" <=> ~failed)
  /\ stage \in {"ended", "destroyed"} => nextPhase # "Shutdown"

\* No module was shut down while its shutdown is still to come, and none twice.
CallsAtStage ==
  \A m \in 1..Modules :
    /\ stage \in {"modules", "invalid"} \cup Starting \/ nextPhase = "Shutdown" =>
         shutdownCalls[m] = 0
    /\ shutdownCalls[m] <= 1
    /\ stage \in {"ended", "destroyed"} /\ ~failed => shutdownCalls[m] = 1

\* Nobody was preinitialised, nor is.
NobodyPreinitialized ==
  running # "preInit" /\ \A s \in Services : <<"preInit", s>> \notin begun

\* Who was initialised, and who was left out when a phase has failed: with the first
\* nobody who was, with the second nobody but those behind some other.
InitializedAtStage ==
  /\ stage = "modules" \/ initialized # 1..Modules => NobodyPreinitialized
  /\ stage \in Starting => initialized = 1..Modules
  /\ stage \in {"active", "stopping", "ended", "destroyed"} /\ failed =>
       \A m \in 1..Modules : shutdownCalls[m] = 0 =>
         /\ \A later \in m..Modules : shutdownCalls[later] = 0
         /\ m \in initialized =>
              nextPhase = "PostInit" /\ \E earlier \in 1..(m - 1) : shutdownCalls[earlier] = 1

ModulesInv ==
  /\ stage \in {"modules", "active", "invalid", "stopping", "ended", "destroyed"} \cup Starting
  /\ shutdownCalls \in [1..Modules -> Nat]
  /\ failed \in BOOLEAN
  /\ PhaseAtStage /\ CallsAtStage /\ InitializedAtStage

\* The properties of the modules are read off the invariant.
LEMMA ModulesInvImplies == ModulesInv => ModulesInOrder
<1> SUFFICES ASSUME ModulesInv PROVE ModulesInOrder
  OBVIOUS
<1>1. ModulesServeServices
  <2>1. \A s \in Services : <<"preInit", s>> \in begun => initialized = 1..Modules
    BY DEF ModulesInv, InitializedAtStage, NobodyPreinitialized
  <2>2. (\E m \in 1..Modules : shutdownCalls[m] > 0) /\ ~failed => stage \in {"ended", "destroyed"}
    BY DEF ModulesInv, PhaseAtStage, CallsAtStage, Starting
  <2> QED
    BY <2>1, <2>2 DEF ModulesServeServices
<1>2. ShutDownOnce
  BY DEF ModulesInv, CallsAtStage, ShutDownOnce
<1>3. LeftOutBehindTheFailed
  <2> SUFFICES ASSUME NEW m \in 1..Modules, shutdownCalls[m] = 0
               PROVE  /\ \A later \in m..Modules : shutdownCalls[later] = 0
                      /\ stage = "destroyed" /\ m \in initialized =>
                           nextPhase = "PostInit" /\ \E earlier \in 1..(m - 1) : shutdownCalls[earlier] = 1
    BY DEF LeftOutBehindTheFailed
  <2>1. CASE stage \in {"active", "stopping", "ended", "destroyed"} /\ failed
    BY <2>1 DEF ModulesInv, InitializedAtStage
  <2>2. CASE stage \in {"ended", "destroyed"} /\ ~failed
    BY <2>2 DEF ModulesInv, CallsAtStage
  <2>3. CASE stage \notin {"ended", "destroyed"} /\ ~(stage \in {"active", "stopping"} /\ failed)
    <3>1. \A later \in m..Modules : later \in 1..Modules
      BY ModulesAssumption
    <3>2. \A later \in 1..Modules : shutdownCalls[later] = 0
      BY <2>3 DEF ModulesInv, PhaseAtStage, CallsAtStage, Starting
    <3> QED
      BY <2>3, <3>1, <3>2
  <2> QED
    BY <2>1, <2>2, <2>3 DEF ModulesInv
<1> QED
  BY <1>1, <1>2, <1>3 DEF ModulesInOrder

\* The startup begins as the invariant says.
LEMMA ModulesInitially == StartupInit => ModulesInv
<1> SUFFICES ASSUME StartupInit, MmInit, stage = "modules", failed = FALSE PROVE ModulesInv
  BY DEF StartupInit
<1>1. /\ nextPhase = "Init" /\ shutdownCalls \in [1..Modules -> Nat]
      /\ \A m \in 1..Modules : shutdownCalls[m] = 0
  BY DEF MmInit
<1>2. \A m \in 1..Modules : shutdownCalls[m] <= 1
  BY <1>1
<1>3. NobodyPreinitialized
  BY DEF StartupInit, SpInit, NobodyPreinitialized
<1> QED
  BY <1>1, <1>2, <1>3, Zenon
  DEF ModulesInv, PhaseAtStage, CallsAtStage, InitializedAtStage, Starting

\* Services that come back, or are asked for, begin no operation.
LEMMA CallsBeginNothing ==
  ASSUME NobodyPreinitialized, ServiceCalls \/ \E s \in Services : Get(s)
  PROVE  NobodyPreinitialized'
<1>1. running' = running \/ running' \in {"none", "dispose"}
  BY DEF ServiceCalls, NextBatch, DisposeServices, Return, TaskDone, TaskRejected, Get
<1>2. UNCHANGED begun \/ begun' = begun \cup ({running} \X Head(todo))
  BY DEF ServiceCalls, NextBatch, DisposeServices, Return, TaskDone, TaskRejected, Get
<1>3. \A s \in Services : <<"preInit", s>> \notin {running} \X Head(todo)
  BY DEF NobodyPreinitialized
<1> QED
  BY <1>1, <1>2, <1>3 DEF NobodyPreinitialized

\* A step of the services alone.
LEMMA ServicesKeepModules ==
  ASSUME ModulesInv, UNCHANGED <<mmVars, stage, failed>>,
         NobodyPreinitialized => NobodyPreinitialized'
  PROVE  ModulesInv'
  BY DEF ModulesInv, PhaseAtStage, CallsAtStage, InitializedAtStage, Starting, mmVars

\* The two phases that may fail at a module: those up to it are shut down at once,
\* and the manager does not come to its shutdown any more.
LEMMA PhasesKeepModules == ModulesInv /\ (ModulesInit \/ ModulesPostInit) => ModulesInv'
<1> SUFFICES ASSUME ModulesInv, NEW n \in 0..Modules,
                    \/ InitModules(n) /\ Goto("modules", IF n = Modules THEN "preInit" ELSE "active")
                    \/ PostInitModules(n) /\ Goto("postInit", "active"),
                    failed' = (n # Modules), UNCHANGED spVars
             PROVE  ModulesInv'
  BY DEF ModulesInit, ModulesPostInit
<1>1. \A m \in 1..Modules : shutdownCalls[m] = 0
  BY DEF Goto, ModulesInv, CallsAtStage, Starting
<1>2. /\ NobodyPreinitialized' \/ initialized' = 1..Modules
      /\ n = Modules => initialized' = 1..Modules
      /\ initialized' = 1..n \/ (initialized' = 1..Modules /\ nextPhase = "PostInit")
  BY DEF InitModules, PostInitModules, Goto, ModulesInv, InitializedAtStage, NobodyPreinitialized,
         Starting, spVars
<1>3. CASE n = Modules
  BY <1>1, <1>2, <1>3
  DEF InitModules, PostInitModules, Goto, ModulesInv, PhaseAtStage, CallsAtStage,
      InitializedAtStage, Starting
<1>4. CASE n # Modules
  <2>1. /\ shutdownCalls' = ShutdownUpTo(n + 1)
        /\ stage' = "active" /\ failed' = TRUE /\ nextPhase' = nextPhase
        /\ nextPhase \in {"Init", "PostInit"}
    BY <1>4 DEF InitModules, PostInitModules, Goto, ModulesInv, PhaseAtStage, Starting
  <2>2. shutdownCalls' \in [1..Modules -> Nat]
    BY <2>1, ModulesAssumption DEF ShutdownUpTo, ModulesInv
  <2>3. \A m \in 1..Modules : shutdownCalls'[m] = (IF m <= n + 1 THEN 1 ELSE 0)
    BY <2>1, <1>1, ModulesAssumption DEF ShutdownUpTo
  <2>4. \A m \in 1..Modules : shutdownCalls'[m] <= 1
    BY <2>3
  <2>5. InitializedAtStage'
    <3> SUFFICES ASSUME NEW m \in 1..Modules, shutdownCalls'[m] = 0
                 PROVE  /\ \A later \in m..Modules : shutdownCalls'[later] = 0
                        /\ m \in initialized' =>
                             nextPhase' = "PostInit" /\ \E earlier \in 1..(m - 1) : shutdownCalls'[earlier] = 1
      BY <2>1, <1>2 DEF InitializedAtStage, Starting
    <3>1. m > n + 1 /\ m \in Nat /\ n \in Nat /\ Modules \in Nat
      BY <2>3, ModulesAssumption
    <3>2. \A later \in m..Modules : later \in 1..Modules /\ later > n + 1
      BY <3>1
    <3>3. 1 \in 1..(m - 1) /\ shutdownCalls'[1] = 1
      BY <2>3, <3>1
    <3>4. m \in initialized' => nextPhase = "PostInit"
      BY <1>2, <3>1
    <3> QED
      BY <2>1, <2>3, <3>2, <3>3, <3>4
  <2> QED
    BY <2>1, <2>2, <2>4, <2>5 DEF ModulesInv, PhaseAtStage, CallsAtStage, Starting
<1> QED
  BY <1>3, <1>4

\* The application shuts the modules down, and the manager's destructor does again,
\* which by then finds nothing to do.
LEMMA EndKeepsModules == ModulesInv /\ (ModulesShutdown \/ ManagerDestroyed) => ModulesInv'
<1> SUFFICES ASSUME ModulesInv, ModulesShutdown \/ ManagerDestroyed PROVE ModulesInv'
  OBVIOUS
<1>1. /\ stage \in {"stopping", "ended"} /\ stage' \in {"ended", "destroyed"}
      /\ UNCHANGED <<failed, initialized>> /\ (NobodyPreinitialized => NobodyPreinitialized')
  BY DEF ModulesShutdown, ManagerDestroyed, ShutdownModules, Goto, mmVars, spVars,
         NobodyPreinitialized
<1>2. CASE nextPhase = "Shutdown"
  <2>1. /\ \A m \in 1..Modules : shutdownCalls[m] = 0
        /\ shutdownCalls' = ShutdownUpTo(Modules) /\ nextPhase' = "Init"
    BY <1>2 DEF ModulesShutdown, ManagerDestroyed, ShutdownModules, ModulesInv, CallsAtStage
  <2>2. /\ shutdownCalls' \in [1..Modules -> Nat]
        /\ \A m \in 1..Modules : shutdownCalls'[m] = 1
    BY <2>1, ModulesAssumption DEF ShutdownUpTo, ModulesInv
  <2> QED
    BY <1>1, <2>1, <2>2
    DEF ModulesInv, PhaseAtStage, CallsAtStage, InitializedAtStage, Starting
<1>3. CASE nextPhase # "Shutdown"
  <2>1. UNCHANGED mmVars /\ (stage = "stopping" => failed)
    BY <1>3
    DEF ModulesShutdown, ManagerDestroyed, ShutdownModules, ModulesInv, PhaseAtStage, Goto
  <2> QED
    BY <1>1, <1>3, <2>1
    DEF mmVars, ModulesInv, PhaseAtStage, CallsAtStage, InitializedAtStage, Starting
<1> QED
  BY <1>2, <1>3

\* Every other step of the application leaves the modules alone.
LEMMA StagesKeepModules ==
  ASSUME ModulesInv, ServicesPreInit \/ Invalidate \/ ServicesInit \/ ServicesShutdown
  PROVE  ModulesInv'
<1>1. NobodyPreinitialized => stage = "preInit" \/ NobodyPreinitialized'
  <2>1. begun' = begun /\ (stage = "preInit" \/ running' \in {running, "init", "shutdown"})
    BY DEF ServicesPreInit, Invalidate, ServicesInit, ServicesShutdown, InitServices,
           ShutdownServices, Goto, spVars
  <2> QED
    BY <2>1 DEF NobodyPreinitialized
<1> USE DEF Goto, mmVars, ModulesInv, PhaseAtStage, CallsAtStage, InitializedAtStage, Starting
<1>2. CASE ServicesPreInit
  BY <1>1, <1>2 DEF ServicesPreInit
<1>3. CASE Invalidate
  BY <1>1, <1>3 DEF Invalidate
<1>4. CASE ServicesInit
  BY <1>1, <1>4 DEF ServicesInit
<1>5. CASE ServicesShutdown
  BY <1>1, <1>5 DEF ServicesShutdown
<1> QED
  BY <1>2, <1>3, <1>4, <1>5

\* Whatever fails, and whenever the runtime completes: no module is shut down twice, only
\* those behind one that has failed in its second phase are left out, and the services
\* find their modules there unless the startup has failed.
THEOREM ModulesEndInOrder == StartupSpec => []ModulesInOrder
<1>1. ModulesInv /\ [StartupNext]_startupVars => ModulesInv'
  <2> SUFFICES ASSUME ModulesInv, [StartupNext]_startupVars PROVE ModulesInv'
    OBVIOUS
  <2>1. CASE AppSteps
    <3>1. CASE StillPolled /\ ServiceCalls /\ UNCHANGED <<mmVars, stage, failed>>
      BY <3>1, CallsBeginNothing, ServicesKeepModules
    <3> QED
      BY <2>1, <3>1, PhasesKeepModules, EndKeepsModules, StagesKeepModules DEF AppSteps
  <2>2. CASE ServicesShutdown \/ ModulesShutdown
    BY <2>2, StagesKeepModules, EndKeepsModules
  <2>3. CASE \E s \in Requested : Get(s) /\ UNCHANGED <<mmVars, stage, failed>>
    BY <2>3, RequestedAssumption, CallsBeginNothing, ServicesKeepModules
  <2>4. CASE UNCHANGED startupVars
    BY <2>4, ServicesKeepModules DEF startupVars, spVars, NobodyPreinitialized
  <2> QED
    BY <2>1, <2>2, <2>3, <2>4 DEF StartupNext
<1> QED
  BY <1>1, ModulesInitially, ModulesInvImplies, PTL DEF StartupSpec

-----------------------------------------------------------------------------
(* The services of Startup, from here to their theorem ServicesKeepOrder, begin with *)
(* what its functions compute.  The library's theorems on recursion take operators,  *)
(* so that these are of first order.                                                 *)

\* Among natural numbers with a property, there is a least one.
LEMMA LeastOne ==
  ASSUME NEW T \in SUBSET Nat, T # {}
  PROVE  \E n \in T : \A m \in T : n <= m
<1>1. PICK n \in T : \A m \in T : ~(<<m, n>> \in OpToRel(<, Nat))
  BY NatLessThanWellFounded, WFMin
<1>2. \A m \in T : ~(m < n)
  BY <1>1 DEF OpToRel
<1> QED BY <1>2

\* What step says of a function at x depends on the function below x only.
Contracts(step, D, V, size) ==
  /\ size \in [D -> Nat] /\ step \in [D -> [[D -> V] -> V]]
  /\ \A x \in D : \A f, g \in [D -> V] :
       (\A y \in D : size[y] < size[x] => f[y] = g[y]) => step[x][f] = step[x][g]

\* Then there is a function that does as step says.
LEMMA Recursion ==
  ASSUME NEW D, NEW V, NEW step, NEW size, Contracts(step, D, V, size), V # {}
  PROVE  \E f \in [D -> V] : \A x \in D : f[x] = step[x][f]
<1> DEFINE A(n) == {f \in [D -> V] : \A x \in D : size[x] < n => f[x] = step[x][f]}
<1>0. /\ size \in [D -> Nat]
      /\ \A x \in D : \A f \in [D -> V] : step[x][f] \in V
      /\ \A x \in D : \A f, g \in [D -> V] :
           (\A y \in D : size[y] < size[x] => f[y] = g[y]) => step[x][f] = step[x][g]
  BY DEF Contracts
<1>1. \A n \in Nat : A(n) # {}
  <2> DEFINE T == {n \in Nat : A(n) = {}}
  <2> SUFFICES ASSUME T # {} PROVE FALSE
    OBVIOUS
  <2>1. PICK n \in T : \A m \in T : n <= m
    BY LeastOne
  <2>2. CASE n = 0
    <3>1. PICK v \in V : TRUE
      OBVIOUS
    <3>2. [x \in D |-> v] \in A(0)
      BY <1>0
    <3> QED BY <2>2, <3>2
  <2>3. CASE n # 0
    <3>1. n - 1 \in Nat /\ n - 1 \notin T
      BY <2>1, <2>3
    <3>2. PICK f \in A(n - 1) : TRUE
      BY <3>1
    <3> DEFINE g == [x \in D |-> IF size[x] < n - 1 THEN f[x] ELSE step[x][f]]
    <3>3. f \in [D -> V] /\ g \in [D -> V] /\ \A x \in D : size[x] < n - 1 => f[x] = step[x][f]
      BY <1>0, <3>2
    <3>4. ASSUME NEW x \in D, size[x] < n PROVE g[x] = step[x][g]
      <4>1. g[x] = step[x][f]
        BY <3>3
      <4>2. \A y \in D : size[y] < size[x] => size[y] < n - 1
        BY <1>0, <2>1, <3>4
      <4>3. \A y \in D : size[y] < size[x] => f[y] = g[y]
        BY <4>2
      <4> HIDE DEF g
      <4> QED BY <4>1, <4>3, <3>3, <1>0
    <3>5. g \in A(n)
      BY <3>3, <3>4
    <3> QED BY <2>1, <3>5
  <2> QED BY <2>2, <2>3
<1>2. \A n, m \in Nat : n <= m => \A f \in A(n), g \in A(m), x \in D : size[x] < n => f[x] = g[x]
  <2> SUFFICES ASSUME NEW n \in Nat, NEW m \in Nat, n <= m, NEW f \in A(n), NEW g \in A(m)
               PROVE  \A x \in D : size[x] < n => f[x] = g[x]
    BY Zenon
  <2> DEFINE T == {k \in 0..(n - 1) : \E x \in D : size[x] = k /\ f[x] # g[x]}
  <2>1. SUFFICES ASSUME T # {} PROVE FALSE
    BY <1>0
  <2>2. PICK k \in T : \A j \in T : k <= j
    <3>1. T \in SUBSET Nat
      OBVIOUS
    <3> QED BY <2>1, <3>1, LeastOne
  <2>3. PICK x \in D : size[x] = k /\ f[x] # g[x] /\ k < n
    BY <2>2
  <2>4. \A y \in D : size[y] < size[x] => f[y] = g[y]
    BY <1>0, <2>2, <2>3
  <2>5. f \in [D -> V] /\ g \in [D -> V] /\ f[x] = step[x][f] /\ g[x] = step[x][g]
    BY <2>3
  <2> QED BY <1>0, <2>3, <2>4, <2>5
<1> DEFINE pick(n) == CHOOSE f \in A(n) : TRUE
           h == [x \in D |-> pick(size[x] + 1)[x]]
<1>3. \A n \in Nat : pick(n) \in A(n) /\ pick(n) \in [D -> V]
  <2>1. \A n \in Nat : pick(n) \in A(n)
    BY <1>1, Zenon
  <2> HIDE DEF pick
  <2> QED BY <2>1
<1> HIDE DEF A, pick
<1>4. h \in [D -> V] /\ \A x \in D : size[x] + 1 \in Nat /\ h[x] = pick(size[x] + 1)[x]
  BY <1>0, <1>3
<1> HIDE DEF h
<1>5. ASSUME NEW x \in D PROVE h[x] = step[x][h]
  <2> DEFINE f == pick(size[x] + 1)
  <2>1. f \in A(size[x] + 1) /\ f \in [D -> V] /\ h[x] = f[x]
    BY <1>3, <1>4
  <2>2. f[x] = step[x][f]
    BY <1>0, <2>1 DEF A
  <2> HIDE DEF f
  <2>3. ASSUME NEW y \in D, size[y] < size[x] PROVE h[y] = f[y]
    <3>1. /\ size[y] + 1 \in Nat /\ size[x] + 1 \in Nat /\ size[y] + 1 <= size[x] + 1
          /\ size[y] < size[y] + 1
      BY <1>0, <2>3
    <3> QED BY <1>2, <1>3, <1>4, <2>1, <3>1
  <2> QED BY <1>0, <1>4, <2>1, <2>2, <2>3
<1> QED BY <1>4, <1>5

\* What holds of all that is smaller holds of x.
Inductive(D, size, G) ==
  /\ size \in [D -> Nat]
  /\ \A x \in D : (\A y \in D : size[y] < size[x] => y \in G) => x \in G

\* Induction over a size.
LEMMA SizeInduction ==
  ASSUME NEW D, NEW size, NEW G, Inductive(D, size, G)
  PROVE  \A x \in D : x \in G
<1> USE DEF Inductive
<1> DEFINE T == {size[x] : x \in D \ G}
<1> SUFFICES ASSUME T # {} PROVE FALSE
  OBVIOUS
<1>1. T \in SUBSET Nat
  OBVIOUS
<1>2. PICK n \in T : \A m \in T : n <= m
  BY <1>1, LeastOne
<1>3. PICK x \in D : x \notin G /\ size[x] = n
  OBVIOUS
<1>4. \A y \in D : y \notin G => size[x] <= size[y]
  BY <1>2, <1>3
<1> QED BY <1>3, <1>4

\* A list and its parts.
LEMMA ListFacts ==
  ASSUME NEW S, NEW s \in Seq(S)
  PROVE  /\ Len(s) \in Nat /\ DOMAIN s = 1..Len(s) /\ (s = << >> <=> Len(s) = 0)
         /\ \A i \in 1..Len(s) : s[i] \in S
         /\ s # << >> => /\ Head(s) \in S /\ Head(s) = s[1]
                         /\ Tail(s) \in Seq(S) /\ Len(Tail(s)) = Len(s) - 1
                         /\ \A i \in 1..(Len(s) - 1) : Tail(s)[i] = s[i + 1]
         /\ \A x \in S : /\ <<x>> \o s \in Seq(S) /\ Len(<<x>> \o s) = Len(s) + 1
                         /\ (<<x>> \o s)[1] = x
                         /\ \A i \in 2..(Len(s) + 1) : (<<x>> \o s)[i] = s[i - 1]
OBVIOUS

\* The length of two lists.
LEMMA LengthsAdd == \A a, b \in Seq(Services) : Len(a) + Len(b) \in Nat
OBVIOUS

\* The recursive definition of merge().
LEMMA MergedIs ==
  ASSUME NEW before
  PROVE  /\ Merged(before) \in [Seq(Services) \X Seq(Services) -> Seq(Services)]
         /\ \A a, b \in Seq(Services) : Merged(before)[<<a, b>>] =
              IF a = << >> THEN b
              ELSE IF b = << >> THEN a
              ELSE IF Head(b) \in before[Head(a)] THEN <<Head(b)>> \o Merged(before)[<<a, Tail(b)>>]
              ELSE <<Head(a)>> \o Merged(before)[<<Tail(a), b>>]
<1> DEFINE V == Seq(Services)
           D == V \X V
           body(a, b, f) == IF a = << >> THEN b
              ELSE IF b = << >> THEN a
              ELSE IF Head(b) \in before[Head(a)] THEN <<Head(b)>> \o f[<<a, Tail(b)>>]
              ELSE <<Head(a)>> \o f[<<Tail(a), b>>]
           step == [p \in D |-> [f \in [D -> V] |-> body(p[1], p[2], f)]]
           size == [p \in D |-> Len(p[1]) + Len(p[2])]
           P(f) == f = [p \in D |-> body(p[1], p[2], f)]
<1>1. << >> \in V /\ \A a, b \in V : Len(a) + Len(b) \in Nat
  BY LengthsAdd
<1>2. /\ \A x \in Services, s \in V : <<x>> \o s \in V
      /\ \A s \in V : s # << >> => Head(s) \in Services /\ Tail(s) \in V
  BY ListFacts
<1>3. \A a, b \in V : /\ a # << >> => Len(Tail(a)) + Len(b) < Len(a) + Len(b)
                      /\ b # << >> => Len(a) + Len(Tail(b)) < Len(a) + Len(b)
  BY ListFacts
<1> HIDE DEF V
<1>4. /\ \A p \in D : p[1] \in V /\ p[2] \in V /\ p = <<p[1], p[2]>>
      /\ \A a, b \in V : <<a, b>> \in D /\ <<a, b>>[1] = a /\ <<a, b>>[2] = b
  OBVIOUS
<1> HIDE DEF D
<1>5. size \in [D -> Nat] /\ \A a, b \in V : size[<<a, b>>] = Len(a) + Len(b)
  BY <1>1, <1>4
<1>6. ASSUME NEW a \in V, NEW b \in V, NEW f \in [D -> V] PROVE body(a, b, f) \in V
  <2>1. /\ b # << >> => <<a, Tail(b)>> \in D /\ Head(b) \in Services
        /\ a # << >> => <<Tail(a), b>> \in D /\ Head(a) \in Services
    BY <1>2, <1>4
  <2>2. /\ b # << >> => f[<<a, Tail(b)>>] \in V
        /\ a # << >> => f[<<Tail(a), b>>] \in V
    BY <2>1
  <2>3. /\ b # << >> => <<Head(b)>> \o f[<<a, Tail(b)>>] \in V
        /\ a # << >> => <<Head(a)>> \o f[<<Tail(a), b>>] \in V
    BY <1>2, <2>1, <2>2
  <2> QED BY <2>3
<1>7. ASSUME NEW a \in V, NEW b \in V, NEW f, NEW g \in [D -> V],
             \A y \in D : size[y] < size[<<a, b>>] => f[y] = g[y]
      PROVE  body(a, b, f) = body(a, b, g)
  <2> HIDE DEF size
  <2>1. a # << >> => /\ <<Tail(a), b>> \in D /\ Tail(a) \in V
                     /\ size[<<Tail(a), b>>] = Len(Tail(a)) + Len(b)
    BY <1>2, <1>4, <1>5
  <2>2. b # << >> => /\ <<a, Tail(b)>> \in D /\ Tail(b) \in V
                     /\ size[<<a, Tail(b)>>] = Len(a) + Len(Tail(b))
    BY <1>2, <1>4, <1>5
  <2>3. size[<<a, b>>] = Len(a) + Len(b)
    BY <1>5
  <2>4. /\ a # << >> => f[<<Tail(a), b>>] = g[<<Tail(a), b>>]
        /\ b # << >> => f[<<a, Tail(b)>>] = g[<<a, Tail(b)>>]
    BY <1>3, <1>7, <2>1, <2>2, <2>3
  <2> QED BY <2>4
<1> HIDE DEF body
<1>8. step \in [D -> [[D -> V] -> V]] /\ \A x \in D : \A f \in [D -> V] : step[x][f] = body(x[1], x[2], f)
  BY <1>4, <1>6
<1>9. ASSUME NEW x \in D, NEW f, NEW g \in [D -> V], \A y \in D : size[y] < size[x] => f[y] = g[y]
      PROVE  body(x[1], x[2], f) = body(x[1], x[2], g)
  <2> HIDE DEF size
  <2>1. x[1] \in V /\ x[2] \in V /\ x = <<x[1], x[2]>>
    BY <1>4
  <2>2. \A y \in D : size[y] < size[<<x[1], x[2]>>] => f[y] = g[y]
    BY <1>9, <2>1
  <2> QED BY <2>1, <2>2, <1>7
<1>10. Contracts(step, D, V, size)
  <2> HIDE DEF size, step
  <2>1. ASSUME NEW x \in D, NEW f \in [D -> V], NEW g \in [D -> V],
               \A y \in D : size[y] < size[x] => f[y] = g[y]
        PROVE  step[x][f] = step[x][g]
    <3>1. body(x[1], x[2], f) = body(x[1], x[2], g)
      BY <1>9, <2>1
    <3> QED BY <1>8, <3>1
  <2> QED BY <1>5, <1>8, <2>1 DEF Contracts
<1>11. PICK h \in [D -> V] : \A x \in D : h[x] = step[x][h]
  <2> HIDE DEF size, step
  <2> QED BY <1>1, <1>10, Recursion
<1>12. P(h)
  <2> HIDE DEF step
  <2> QED BY <1>8, <1>11
<1>13. Merged(before) = CHOOSE f : P(f)
  BY DEF Merged, body, D, V
<1>14. P(Merged(before))
  <2> HIDE DEF P
  <2> QED BY <1>12, <1>13
<1> DEFINE M == Merged(before)
<1>15. M = [p \in D |-> body(p[1], p[2], M)] /\ \A x \in D : M[x] = body(x[1], x[2], M)
  <2> HIDE DEF M
  <2>1. P(M)
    BY <1>14 DEF M
  <2> QED BY <2>1
<1> HIDE DEF M, P
<1>16. \A x \in D : M[x] = h[x]
  <2> DEFINE G == {x \in D : M[x] = h[x]}
  <2>1. ASSUME NEW x \in D, \A y \in D : size[y] < size[x] => y \in G PROVE x \in G
    <3> HIDE DEF size, step
    <3>1. body(x[1], x[2], M) = body(x[1], x[2], h)
      BY <1>9, <2>1
    <3> QED BY <1>8, <1>11, <1>15, <3>1
  <2> HIDE DEF size, step, G
  <2>2. \A x \in D : (\A y \in D : size[y] < size[x] => y \in G) => x \in G
    BY <2>1
  <2>3. size \in [D -> Nat]
    BY <1>5
  <2>4. \A x \in D : x \in G
    <3>1. Inductive(D, size, G)
      BY <2>2, <2>3 DEF Inductive
    <3> QED BY <3>1, SizeInduction
  <2> QED BY <2>4 DEF G
<1>17. M \in [D -> V] /\ \A a, b \in V : M[<<a, b>>] = body(a, b, M)
  BY <1>4, <1>15, <1>16
<1> QED BY <1>17 DEF M, D, V, body

\* The two halves of a list.
LEMMA Halves ==
  ASSUME NEW S, NEW s \in Seq(S), NEW half \in 0..Len(s)
  PROVE  /\ SubSeq(s, 1, half) \in Seq(S) /\ Len(SubSeq(s, 1, half)) = half
         /\ \A i \in 1..half : SubSeq(s, 1, half)[i] = s[i]
         /\ SubSeq(s, half + 1, Len(s)) \in Seq(S) /\ Len(SubSeq(s, half + 1, Len(s))) = Len(s) - half
         /\ \A i \in 1..(Len(s) - half) : SubSeq(s, half + 1, Len(s))[i] = s[half + i]
OBVIOUS

\* Half of what is at least two is neither nothing nor all.
LEMMA HalfOf == \A n \in Nat : n >= 2 => n \div 2 \in 1..(n - 1)
OBVIOUS

\* The recursive definition of sort().
LEMMA SortedIs ==
  ASSUME NEW before
  PROVE  \A s \in Seq(Services) :
           LET half == Len(s) \div 2
               left == SubSeq(s, 1, half)
               right == SubSeq(s, half + 1, Len(s))
           IN  /\ Sorted(s, before) \in Seq(Services)
               /\ Sorted(s, before) =
                    IF Len(s) < 2 THEN s
                    ELSE Merged(before)[<<Sorted(left, before), Sorted(right, before)>>]
<1> DEFINE V == Seq(Services)
           left(s) == SubSeq(s, 1, Len(s) \div 2)
           right(s) == SubSeq(s, (Len(s) \div 2) + 1, Len(s))
           body(s, f) == IF Len(s) < 2 THEN s ELSE Merged(before)[<<f[left(s)], f[right(s)]>>]
           step == [s \in V |-> [f \in [V -> V] |-> body(s, f)]]
           size == [s \in V |-> Len(s)]
           P(f) == f = [s \in V |-> body(s, f)]
<1>1. << >> \in V /\ size \in [V -> Nat]
  OBVIOUS
<1>2. ASSUME NEW s \in V, ~(Len(s) < 2)
      PROVE  left(s) \in V /\ right(s) \in V /\ size[left(s)] < size[s] /\ size[right(s)] < size[s]
  <2>1. Len(s) \in Nat /\ Len(s) \div 2 \in 1..(Len(s) - 1)
    BY <1>2, HalfOf
  <2>2. /\ left(s) \in V /\ Len(left(s)) = Len(s) \div 2
        /\ right(s) \in V /\ Len(right(s)) = Len(s) - (Len(s) \div 2)
    BY <2>1, Halves
  <2> HIDE DEF left, right, V
  <2> QED BY <2>1, <2>2
<1>3. \A a, b \in V : Merged(before)[<<a, b>>] \in V
  BY MergedIs
<1> HIDE DEF V, left, right
<1>4. ASSUME NEW s \in V, NEW f \in [V -> V] PROVE body(s, f) \in V
  <2>1. ~(Len(s) < 2) => f[left(s)] \in V /\ f[right(s)] \in V
    BY <1>2
  <2> QED BY <1>3, <2>1
<1>5. ASSUME NEW s \in V, NEW f, NEW g \in [V -> V], \A y \in V : size[y] < size[s] => f[y] = g[y]
      PROVE  body(s, f) = body(s, g)
  <2> HIDE DEF size
  <2>1. ~(Len(s) < 2) => f[left(s)] = g[left(s)] /\ f[right(s)] = g[right(s)]
    BY <1>2, <1>5
  <2> QED BY <2>1
<1> HIDE DEF body
<1>6. step \in [V -> [[V -> V] -> V]] /\ \A x \in V : \A f \in [V -> V] : step[x][f] = body(x, f)
  BY <1>4
<1> HIDE DEF size, step
<1>7. Contracts(step, V, V, size)
  <2>1. ASSUME NEW x \in V, NEW f \in [V -> V], NEW g \in [V -> V],
               \A y \in V : size[y] < size[x] => f[y] = g[y]
        PROVE  step[x][f] = step[x][g]
    <3>1. body(x, f) = body(x, g)
      BY <1>5, <2>1
    <3> QED BY <1>6, <3>1
  <2> QED BY <1>1, <1>6, <2>1 DEF Contracts
<1>8. PICK h \in [V -> V] : \A x \in V : h[x] = step[x][h]
  BY <1>1, <1>7, Recursion
<1>9. P(h)
  BY <1>6, <1>8
<1> DEFINE M == CHOOSE f : P(f)
<1>10. \A s : Sorted(s, before) = M[s]
  BY DEF Sorted, body, left, right, V
<1>11. P(M)
  <2> HIDE DEF P
  <2> QED BY <1>9
<1> HIDE DEF M
<1>12. \A x \in V : M[x] = body(x, M)
  BY <1>11
<1>13. \A x \in V : M[x] = h[x]
  <2> DEFINE G == {x \in V : M[x] = h[x]}
  <2>1. ASSUME NEW x \in V, \A y \in V : size[y] < size[x] => y \in G PROVE x \in G
    <3>1. body(x, M) = body(x, h)
      BY <1>5, <2>1
    <3> QED BY <1>6, <1>8, <1>12, <3>1
  <2> HIDE DEF G
  <2>2. \A x \in V : (\A y \in V : size[y] < size[x] => y \in G) => x \in G
    BY <2>1
  <2>3. \A x \in V : x \in G
    <3>1. Inductive(V, size, G)
      BY <1>1, <2>2 DEF Inductive
    <3> QED BY <3>1, SizeInduction
  <2> QED BY <2>3 DEF G
<1>14. \A x \in V : M[x] \in V
  BY <1>13
<1> SUFFICES ASSUME NEW s \in V
             PROVE  /\ Sorted(s, before) \in V
                    /\ Sorted(s, before) =
                         IF Len(s) < 2 THEN s
                         ELSE Merged(before)[<<Sorted(left(s), before), Sorted(right(s), before)>>]
  BY DEF V, left, right
<1> QED BY <1>10, <1>12, <1>14 DEF body

\* The recursive definition of what is left without the independent services.
LEMMA DependentIs ==
  ASSUME NEW members
  PROVE  \E keep \in [Seq(Services) -> Seq(Services)] :
           /\ Dependent(members) = keep[Sorted(Entries(members), Collected(members))]
           /\ \A s \in Seq(Services) :
                keep[s] = IF s = << >> THEN << >>
                          ELSE IF Collected(members)[Head(s)] = {} THEN keep[Tail(s)]
                          ELSE <<Head(s)>> \o keep[Tail(s)]
<1> DEFINE V == Seq(Services)
           body(s, f) == IF s = << >> THEN << >>
                         ELSE IF Collected(members)[Head(s)] = {} THEN f[Tail(s)]
                         ELSE <<Head(s)>> \o f[Tail(s)]
           step == [s \in V |-> [f \in [V -> V] |-> body(s, f)]]
           size == [s \in V |-> Len(s)]
           P(f) == f = [s \in V |-> body(s, f)]
<1>1. << >> \in V /\ size \in [V -> Nat]
  OBVIOUS
<1>2. \A s \in V : s # << >> => Head(s) \in Services /\ Tail(s) \in V /\ size[Tail(s)] < size[s]
  BY ListFacts
<1>3. \A x \in Services, s \in V : <<x>> \o s \in V
  BY ListFacts
<1> HIDE DEF V
<1>4. ASSUME NEW s \in V, NEW f \in [V -> V] PROVE body(s, f) \in V
  <2>1. s # << >> => f[Tail(s)] \in V /\ Head(s) \in Services
    BY <1>2
  <2> QED BY <1>1, <1>3, <2>1
<1>5. ASSUME NEW s \in V, NEW f, NEW g \in [V -> V], \A y \in V : size[y] < size[s] => f[y] = g[y]
      PROVE  body(s, f) = body(s, g)
  <2> HIDE DEF size
  <2>1. s # << >> => f[Tail(s)] = g[Tail(s)]
    BY <1>2, <1>5
  <2> QED BY <2>1
<1> HIDE DEF body
<1>6. step \in [V -> [[V -> V] -> V]] /\ \A x \in V : \A f \in [V -> V] : step[x][f] = body(x, f)
  BY <1>4
<1> HIDE DEF size, step
<1>7. Contracts(step, V, V, size)
  <2>1. ASSUME NEW x \in V, NEW f \in [V -> V], NEW g \in [V -> V],
               \A y \in V : size[y] < size[x] => f[y] = g[y]
        PROVE  step[x][f] = step[x][g]
    <3>1. body(x, f) = body(x, g)
      BY <1>5, <2>1
    <3> QED BY <1>6, <3>1
  <2> QED BY <1>1, <1>6, <2>1 DEF Contracts
<1>8. PICK h \in [V -> V] : \A x \in V : h[x] = step[x][h]
  BY <1>1, <1>7, Recursion
<1>9. P(h)
  BY <1>6, <1>8
<1> DEFINE M == CHOOSE f : P(f)
<1>10. Dependent(members) = M[Sorted(Entries(members), Collected(members))]
  BY DEF Dependent, body, V
<1>11. P(M)
  <2> HIDE DEF P
  <2> QED BY <1>9
<1> HIDE DEF M
<1>12. M = [x \in V |-> body(x, M)] /\ \A x \in V : M[x] = body(x, M)
  BY <1>11
<1>13. \A x \in V : M[x] = h[x]
  <2> DEFINE G == {x \in V : M[x] = h[x]}
  <2>1. ASSUME NEW x \in V, \A y \in V : size[y] < size[x] => y \in G PROVE x \in G
    <3>1. body(x, M) = body(x, h)
      BY <1>5, <2>1
    <3> QED BY <1>6, <1>8, <1>12, <3>1
  <2> HIDE DEF G
  <2>2. \A x \in V : (\A y \in V : size[y] < size[x] => y \in G) => x \in G
    BY <2>1
  <2>3. \A x \in V : x \in G
    <3>1. Inductive(V, size, G)
      BY <1>1, <2>2 DEF Inductive
    <3> QED BY <3>1, SizeInduction
  <2> QED BY <2>3 DEF G
<1>14. M \in [V -> V]
  BY <1>12, <1>13
<1>15. \A x \in V : M[x] = body(x, M)
  BY <1>12
<1> QED BY <1>10, <1>14, <1>15 DEF body, V

-----------------------------------------------------------------------------
(* What the sort does to a list *)

\* Nothing comes after what it goes before.
Ordered(s, before) == \A i, j \in DOMAIN s : s[i] \in before[s[j]] => i < j

\* What is in S comes before everything else.
AheadIn(s, S) == \A i, j \in DOMAIN s : s[j] \in S /\ i < j => s[i] \in S

\* In a list that was entered depth first, all between an entry and what goes before it,
\* if that comes later, goes before it too.
Nested(s, before) ==
  \A i, j, k \in DOMAIN s : i < k /\ k <= j /\ s[j] \in before[s[i]] => s[k] \in before[s[i]]

\* Among the services of M, before is transitive, and nothing goes before itself.
Precedence(before, M) ==
  /\ M \subseteq Services /\ before \in [Services -> SUBSET Services]
  /\ \A s \in M : s \notin before[s] /\ \A t \in before[s] \cap M : before[t] \subseteq before[s]

\* A set with all that goes before those of M that are in it.
Closed(S, before, M) == \A t \in M : t \in S => before[t] \subseteq S

\* The facts about a list and its tail that merging needs.
LEMMA Headed ==
  ASSUME NEW M, NEW s \in Seq(M), NEW x \in M
  PROVE  /\ ToSet(<<x>> \o s) = {x} \cup ToSet(s)
         /\ \A before : Precedence(before, M) /\ Ordered(s, before) /\ ToSet(s) \cap before[x] = {}
              => Ordered(<<x>> \o s, before)
         /\ \A S : AheadIn(s, S) /\ (x \in S \/ ToSet(s) \cap S = {}) => AheadIn(<<x>> \o s, S)
<1> DEFINE r == <<x>> \o s
<1>1. /\ r \in Seq(M) /\ Len(s) \in Nat /\ r[1] = x
      /\ \A i \in 2..(Len(s) + 1) : r[i] = s[i - 1]
      /\ DOMAIN s = 1..Len(s) /\ DOMAIN r = 1..(Len(s) + 1)
  OBVIOUS
<1> HIDE DEF r
<1>2. \A i \in DOMAIN r : i = 1 \/ (i - 1 \in DOMAIN s /\ r[i] = s[i - 1] /\ i > 1)
  BY <1>1
<1>3. \A i \in DOMAIN s : i + 1 \in DOMAIN r /\ r[i + 1] = s[i] /\ s[i] \in ToSet(s)
  BY <1>1 DEF ToSet
<1>4. ToSet(r) = {x} \cup ToSet(s)
  <2>1. ToSet(r) \subseteq {x} \cup ToSet(s)
    BY <1>1, <1>2, <1>3 DEF ToSet
  <2>2. {x} \cup ToSet(s) \subseteq ToSet(r)
    <3>1. x \in ToSet(r)
      <4>1. 1 \in DOMAIN r
        BY <1>1
      <4> QED BY <1>1, <4>1 DEF ToSet
    <3>2. \A i \in DOMAIN s : s[i] \in ToSet(r)
      BY <1>3 DEF ToSet
    <3> QED BY <3>1, <3>2 DEF ToSet
  <2> QED BY <2>1, <2>2
<1>5. ASSUME NEW before, Precedence(before, M), Ordered(s, before), ToSet(s) \cap before[x] = {}
      PROVE  Ordered(r, before)
  <2> SUFFICES ASSUME NEW i \in DOMAIN r, NEW j \in DOMAIN r, r[i] \in before[r[j]] PROVE i < j
    BY DEF Ordered
  <2>1. i \in Int /\ j \in Int /\ x \notin before[x]
    BY <1>1, <1>5 DEF Precedence
  <2>2. CASE j = 1
    BY <1>1, <1>2, <1>3, <1>5, <2>1, <2>2
  <2>3. CASE j # 1 /\ i = 1
    BY <1>1, <2>3
  <2>4. CASE j # 1 /\ i # 1
    <3>1. s[i - 1] \in before[s[j - 1]] /\ i - 1 \in DOMAIN s /\ j - 1 \in DOMAIN s
      BY <1>2, <2>4
    <3>2. i - 1 < j - 1
      BY <1>5, <3>1 DEF Ordered
    <3> QED BY <2>1, <3>2
  <2> QED BY <2>2, <2>3, <2>4
<1>6. ASSUME NEW S, AheadIn(s, S), x \in S \/ ToSet(s) \cap S = {} PROVE AheadIn(r, S)
  <2> SUFFICES ASSUME NEW i \in DOMAIN r, NEW j \in DOMAIN r, r[j] \in S, i < j PROVE r[i] \in S
    BY DEF AheadIn
  <2>1. i \in Int /\ j \in Int /\ j # 1 /\ j - 1 \in DOMAIN s /\ r[j] = s[j - 1]
    BY <1>1, <1>2
  <2>2. CASE i = 1
    BY <1>1, <1>3, <1>6, <2>1, <2>2
  <2>3. CASE i # 1
    <3>1. i - 1 \in DOMAIN s /\ r[i] = s[i - 1] /\ i - 1 < j - 1
      BY <1>2, <2>1, <2>3
    <3> QED BY <1>6, <2>1, <3>1 DEF AheadIn
  <2> QED BY <2>2, <2>3
<1> QED BY <1>4, <1>5, <1>6 DEF r

\* The same of a list that is taken apart.
LEMMA Tailed ==
  ASSUME NEW M, NEW s \in Seq(M), s # << >>
  PROVE  /\ Head(s) \in M /\ Tail(s) \in Seq(M) /\ Len(Tail(s)) < Len(s)
         /\ ToSet(s) = {Head(s)} \cup ToSet(Tail(s))
         /\ \A before : Precedence(before, M) /\ Ordered(s, before)
              => Ordered(Tail(s), before) /\ ToSet(s) \cap before[Head(s)] = {}
         /\ \A S : AheadIn(s, S)
              => AheadIn(Tail(s), S) /\ (Head(s) \notin S => ToSet(s) \cap S = {})
<1> DEFINE t == Tail(s)
<1>1. /\ Head(s) \in M /\ Head(s) = s[1] /\ t \in Seq(M) /\ Len(s) \in Nat \ {0}
      /\ Len(t) = Len(s) - 1 /\ \A i \in 1..(Len(s) - 1) : t[i] = s[i + 1]
      /\ DOMAIN s = 1..Len(s) /\ DOMAIN t = 1..(Len(s) - 1)
  OBVIOUS
<1> HIDE DEF t
<1>2. \A i \in DOMAIN t : i + 1 \in DOMAIN s /\ t[i] = s[i + 1] /\ i \in Nat \ {0}
  BY <1>1
<1>3. /\ 1 \in DOMAIN s
      /\ \A i \in DOMAIN s : i \in Nat /\ (i = 1 \/ (i > 1 /\ i - 1 \in DOMAIN t /\ t[i - 1] = s[i]))
  BY <1>1
<1>4. ToSet(s) = {Head(s)} \cup ToSet(t)
  <2>1. \A i \in DOMAIN s : s[i] \in {Head(s)} \cup ToSet(t)
    BY <1>1, <1>3 DEF ToSet
  <2>2. Head(s) \in ToSet(s) /\ \A i \in DOMAIN t : t[i] \in ToSet(s)
    BY <1>1, <1>2, <1>3 DEF ToSet
  <2> QED BY <2>1, <2>2 DEF ToSet
<1>5. ASSUME NEW before, Precedence(before, M), Ordered(s, before)
      PROVE  Ordered(t, before) /\ ToSet(s) \cap before[Head(s)] = {}
  <2>1. \A i, j \in DOMAIN t : t[i] \in before[t[j]] => i + 1 < j + 1
    BY <1>2, <1>5 DEF Ordered
  <2>2. \A i \in DOMAIN s : s[i] \notin before[s[1]]
    BY <1>3, <1>5 DEF Ordered
  <2> QED BY <1>1, <1>2, <2>1, <2>2 DEF Ordered, ToSet
<1>6. ASSUME NEW S, AheadIn(s, S)
      PROVE  AheadIn(t, S) /\ (Head(s) \notin S => ToSet(s) \cap S = {})
  <2>1. \A i, j \in DOMAIN t : i < j => i + 1 < j + 1
    BY <1>2
  <2>2. AheadIn(t, S)
    BY <1>2, <1>6, <2>1 DEF AheadIn
  <2>3. \A i \in DOMAIN s : s[i] \in S => i = 1 \/ s[1] \in S
    BY <1>3, <1>6 DEF AheadIn
  <2> QED BY <1>1, <2>2, <2>3 DEF ToSet
<1> QED BY <1>1, <1>4, <1>5, <1>6 DEF t

\* A merge is of all the elements.  It keeps the order, if in the second run what goes
\* before an element of the first is ahead; and it keeps ahead what both have ahead.
MergesWell(before, M, a, b, m) ==
  /\ m \in Seq(M) /\ ToSet(m) = ToSet(a) \cup ToSet(b)
  /\ /\ Ordered(a, before) /\ Ordered(b, before)
     /\ \A y \in ToSet(a) : AheadIn(b, before[y])
     => Ordered(m, before)
  /\ \A S \in SUBSET Services :
       /\ Closed(S, before, M) /\ AheadIn(a, S) /\ AheadIn(b, S)
       /\ ToSet(a) \subseteq S \/ ToSet(b) \cap S = {}
       => AheadIn(m, S)

\* A step that takes the head of the second run, and one that takes that of the first.
LEMMA TakingSecond ==
  ASSUME NEW M, NEW before, Precedence(before, M), NEW a \in Seq(M), NEW b \in Seq(M),
         a # << >>, b # << >>, Head(b) \in before[Head(a)],
         NEW m, MergesWell(before, M, a, Tail(b), m)
  PROVE  MergesWell(before, M, a, b, <<Head(b)>> \o m)
<1> DEFINE x == Head(b)
           r == <<x>> \o m
<1>1. /\ x \in M /\ Tail(b) \in Seq(M) /\ ToSet(b) = {x} \cup ToSet(Tail(b))
      /\ Head(a) \in M /\ Head(a) \in ToSet(a)
      /\ \A S : AheadIn(b, S) => AheadIn(Tail(b), S)
  BY Tailed
<1>2. m \in Seq(M) /\ ToSet(m) = ToSet(a) \cup ToSet(Tail(b)) /\ ToSet(r) = {x} \cup ToSet(m)
  BY <1>1, Headed DEF MergesWell
<1>3. r \in Seq(M)
  BY <1>1, <1>2, ListFacts
<1>4. ASSUME Ordered(a, before), Ordered(b, before), \A y \in ToSet(a) : AheadIn(b, before[y])
      PROVE  Ordered(r, before)
  <2>1. Ordered(Tail(b), before) /\ ToSet(b) \cap before[x] = {} /\ ToSet(a) \cap before[Head(a)] = {}
    BY <1>4, Tailed
  <2>2. Ordered(m, before)
    BY <1>1, <1>4, <2>1 DEF MergesWell
  <2>3. before[x] \subseteq before[Head(a)]
    BY <1>1 DEF Precedence
  <2>4. ToSet(m) \cap before[x] = {}
    BY <1>1, <1>2, <2>1, <2>3
  <2> QED BY <1>1, <1>2, <2>2, <2>4, Headed
<1>5. ASSUME NEW S \in SUBSET Services, Closed(S, before, M), AheadIn(a, S), AheadIn(b, S),
             ToSet(a) \subseteq S \/ ToSet(b) \cap S = {}
      PROVE  AheadIn(r, S)
  <2>1. AheadIn(m, S)
    BY <1>1, <1>5 DEF MergesWell
  <2>2. x \in S \/ ToSet(m) \cap S = {}
    <3> SUFFICES ASSUME x \notin S PROVE ToSet(m) \cap S = {}
      OBVIOUS
    <3>1. Head(a) \notin S
      BY <1>1, <1>5 DEF Closed
    <3>2. ToSet(a) \cap S = {}
      BY <1>5, <3>1, Tailed
    <3> QED BY <1>1, <1>2, <1>5, <3>1, <3>2
  <2> QED BY <1>1, <1>2, <2>1, <2>2, Headed
<1>6. ToSet(r) = ToSet(a) \cup ToSet(b)
  BY <1>1, <1>2
<1> QED BY <1>3, <1>4, <1>5, <1>6 DEF MergesWell

\* And from the first list.
LEMMA TakingFirst ==
  ASSUME NEW M, NEW before, Precedence(before, M), NEW a \in Seq(M), NEW b \in Seq(M),
         a # << >>, b # << >>, Head(b) \notin before[Head(a)],
         NEW m, MergesWell(before, M, Tail(a), b, m)
  PROVE  MergesWell(before, M, a, b, <<Head(a)>> \o m)
<1> DEFINE x == Head(a)
           r == <<x>> \o m
<1>1. /\ x \in M /\ Tail(a) \in Seq(M) /\ ToSet(a) = {x} \cup ToSet(Tail(a))
      /\ Head(b) \in M /\ Head(b) \in ToSet(b)
      /\ \A S : AheadIn(a, S) => AheadIn(Tail(a), S)
  BY Tailed
<1>2. m \in Seq(M) /\ ToSet(m) = ToSet(Tail(a)) \cup ToSet(b) /\ ToSet(r) = {x} \cup ToSet(m)
  BY <1>1, Headed DEF MergesWell
<1>3. r \in Seq(M)
  BY <1>1, <1>2, ListFacts
<1>4. ASSUME Ordered(a, before), Ordered(b, before), \A y \in ToSet(a) : AheadIn(b, before[y])
      PROVE  Ordered(r, before)
  <2>1. Ordered(Tail(a), before) /\ ToSet(a) \cap before[x] = {}
    BY <1>4, Tailed
  <2>2. Ordered(m, before)
    BY <1>1, <1>4, <2>1 DEF MergesWell
  <2>3. AheadIn(b, before[x])
    BY <1>1, <1>4
  <2>4. ToSet(b) \cap before[x] = {}
    BY <2>3, Tailed
  <2> QED BY <1>1, <1>2, <2>1, <2>2, <2>4, Headed
<1>5. ASSUME NEW S \in SUBSET Services, Closed(S, before, M), AheadIn(a, S), AheadIn(b, S),
             ToSet(a) \subseteq S \/ ToSet(b) \cap S = {}
      PROVE  AheadIn(r, S)
  <2>1. AheadIn(m, S)
    BY <1>1, <1>5 DEF MergesWell
  <2>2. x \in S \/ ToSet(m) \cap S = {}
    <3> SUFFICES ASSUME x \notin S PROVE ToSet(m) \cap S = {}
      OBVIOUS
    <3>1. ToSet(a) \cap S = {}
      BY <1>5, Tailed
    <3> QED BY <1>1, <1>2, <1>5, <3>1
  <2> QED BY <1>1, <1>2, <2>1, <2>2, Headed
<1>6. ToSet(r) = ToSet(a) \cup ToSet(b)
  BY <1>1, <1>2
<1> QED BY <1>3, <1>4, <1>5, <1>6 DEF MergesWell

\* The empty list.
LEMMA NothingIn == ToSet(<< >>) = {}
BY DEF ToSet

\* So the merge of any two lists is as it should be.
LEMMA MergedWell ==
  ASSUME NEW M, NEW before, Precedence(before, M)
  PROVE  \A a, b \in Seq(M) : MergesWell(before, M, a, b, Merged(before)[<<a, b>>])
<1> DEFINE V == Seq(M)
           D == V \X V
           F == Merged(before)
           size == [p \in D |-> Len(p[1]) + Len(p[2])]
           G == {p \in D : MergesWell(before, M, p[1], p[2], F[p])}
<1>0. \A s \in V : s \in Seq(Services)
  BY DEF Precedence
<1>1. /\ \A p \in D : p[1] \in V /\ p[2] \in V /\ p = <<p[1], p[2]>>
      /\ \A a, b \in V : <<a, b>> \in D /\ <<a, b>>[1] = a /\ <<a, b>>[2] = b
  <2> HIDE DEF V
  <2> QED OBVIOUS
<1>2. /\ \A a, b \in V : Len(a) + Len(b) \in Nat
      /\ \A a, b \in V : /\ a # << >> => Tail(a) \in V /\ Len(Tail(a)) + Len(b) < Len(a) + Len(b)
                         /\ b # << >> => Tail(b) \in V /\ Len(a) + Len(Tail(b)) < Len(a) + Len(b)
  BY LengthsAdd, ListFacts
<1> HIDE DEF V, D
<1>3. size \in [D -> Nat] /\ \A a, b \in V : size[<<a, b>>] = Len(a) + Len(b)
  BY <1>1, <1>2
<1> HIDE DEF size
<1>m. \A a, b \in V : F[<<a, b>>] =
        IF a = << >> THEN b
        ELSE IF b = << >> THEN a
        ELSE IF Head(b) \in before[Head(a)] THEN <<Head(b)>> \o F[<<a, Tail(b)>>]
        ELSE <<Head(a)>> \o F[<<Tail(a), b>>]
  <2>1. \A a, b \in Seq(Services) : F[<<a, b>>] =
          IF a = << >> THEN b
          ELSE IF b = << >> THEN a
          ELSE IF Head(b) \in before[Head(a)] THEN <<Head(b)>> \o F[<<a, Tail(b)>>]
          ELSE <<Head(a)>> \o F[<<Tail(a), b>>]
    BY MergedIs
  <2> HIDE DEF F
  <2> QED BY <1>0, <2>1
<1> HIDE DEF F
<1>4. ASSUME NEW a \in V, NEW b \in V, \A y \in D : size[y] < size[<<a, b>>] => y \in G
      PROVE  MergesWell(before, M, a, b, F[<<a, b>>])
  <2>1. CASE a = << >>
    <3>1. F[<<a, b>>] = b
      BY <1>m, <2>1
    <3> QED BY <2>1, <3>1, NothingIn DEF MergesWell, V
  <2>2. CASE a # << >> /\ b = << >>
    <3>1. F[<<a, b>>] = a
      BY <1>m, <2>2
    <3> QED BY <2>2, <3>1, NothingIn DEF MergesWell, V
  <2>3. CASE a # << >> /\ b # << >> /\ Head(b) \in before[Head(a)]
    <3>1. F[<<a, b>>] = <<Head(b)>> \o F[<<a, Tail(b)>>]
      BY <1>m, <2>3
    <3>2. <<a, Tail(b)>> \in D /\ Tail(b) \in V /\ size[<<a, Tail(b)>>] < size[<<a, b>>]
      <4>1. <<a, Tail(b)>> \in D /\ Tail(b) \in V /\ Len(a) + Len(Tail(b)) < Len(a) + Len(b)
        BY <1>1, <1>2, <2>3
      <4>2. size[<<a, Tail(b)>>] = Len(a) + Len(Tail(b)) /\ size[<<a, b>>] = Len(a) + Len(b)
        BY <1>3, <4>1
      <4> QED BY <4>1, <4>2
    <3>3. MergesWell(before, M, a, Tail(b), F[<<a, Tail(b)>>])
      <4>1. <<a, Tail(b)>> \in G
        BY <1>4, <3>2
      <4> QED BY <1>1, <3>2, <4>1
    <3> QED BY <2>3, <3>1, <3>3, TakingSecond DEF V
  <2>4. CASE a # << >> /\ b # << >> /\ Head(b) \notin before[Head(a)]
    <3>1. F[<<a, b>>] = <<Head(a)>> \o F[<<Tail(a), b>>]
      BY <1>m, <2>4
    <3>2. <<Tail(a), b>> \in D /\ Tail(a) \in V /\ size[<<Tail(a), b>>] < size[<<a, b>>]
      <4>1. <<Tail(a), b>> \in D /\ Tail(a) \in V /\ Len(Tail(a)) + Len(b) < Len(a) + Len(b)
        BY <1>1, <1>2, <2>4
      <4>2. size[<<Tail(a), b>>] = Len(Tail(a)) + Len(b) /\ size[<<a, b>>] = Len(a) + Len(b)
        BY <1>3, <4>1
      <4> QED BY <4>1, <4>2
    <3>3. MergesWell(before, M, Tail(a), b, F[<<Tail(a), b>>])
      <4>1. <<Tail(a), b>> \in G
        BY <1>4, <3>2
      <4> QED BY <1>1, <3>2, <4>1
    <3> QED BY <2>4, <3>1, <3>3, TakingFirst DEF V
  <2> QED BY <2>1, <2>2, <2>3, <2>4
<1>5. ASSUME NEW x \in D, \A y \in D : size[y] < size[x] => y \in G PROVE x \in G
  <2>1. x[1] \in V /\ x[2] \in V /\ x = <<x[1], x[2]>>
    BY <1>1
  <2> HIDE DEF G
  <2>2. \A y \in D : size[y] < size[<<x[1], x[2]>>] => y \in G
    BY <1>5, <2>1
  <2>3. MergesWell(before, M, x[1], x[2], F[<<x[1], x[2]>>])
    BY <1>4, <2>1, <2>2
  <2> QED BY <2>1, <2>3 DEF G
<1> HIDE DEF G
<1>6. \A x \in D : (\A y \in D : size[y] < size[x] => y \in G) => x \in G
  BY <1>5
<1>7. \A x \in D : x \in G
  <2>1. Inductive(D, size, G)
    BY <1>3, <1>6 DEF Inductive
  <2> QED BY <2>1, SizeInduction
<1>8. \A a, b \in V : MergesWell(before, M, a, b, F[<<a, b>>])
  BY <1>1, <1>7 DEF G
<1> QED BY <1>8 DEF V, F

\* The halves of a list have what it has, in its order.
LEMMA HalvesInOrder ==
  ASSUME NEW M, NEW s \in Seq(M), NEW half \in 0..Len(s)
  PROVE  LET a == SubSeq(s, 1, half)
             b == SubSeq(s, half + 1, Len(s))
         IN  /\ ToSet(s) = ToSet(a) \cup ToSet(b)
             /\ \A S : AheadIn(s, S) => /\ AheadIn(a, S) /\ AheadIn(b, S)
                                        /\ ToSet(a) \subseteq S \/ ToSet(b) \cap S = {}
             /\ \A before : Nested(s, before) =>
                  /\ Nested(a, before) /\ Nested(b, before)
                  /\ \A y \in ToSet(a) : AheadIn(b, before[y])
<1> DEFINE a == SubSeq(s, 1, half)
           b == SubSeq(s, half + 1, Len(s))
<1>1. /\ Len(s) \in Nat /\ DOMAIN s = 1..Len(s)
      /\ DOMAIN a = 1..half /\ \A i \in 1..half : a[i] = s[i]
      /\ DOMAIN b = 1..(Len(s) - half) /\ \A i \in 1..(Len(s) - half) : b[i] = s[half + i]
  BY Halves
<1> HIDE DEF a, b
<1>2. /\ \A i \in DOMAIN a : i \in DOMAIN s /\ a[i] = s[i] /\ i \in Int
      /\ \A i \in DOMAIN b : half + i \in DOMAIN s /\ b[i] = s[half + i] /\ i \in Int
      /\ \A i \in DOMAIN a, j \in DOMAIN b : i < half + j
      /\ \A i, j \in DOMAIN b : (i < j <=> half + i < half + j) /\ (i <= j <=> half + i <= half + j)
  BY <1>1
<1>3. ToSet(s) = ToSet(a) \cup ToSet(b)
  <2>1. ASSUME NEW i \in DOMAIN s PROVE s[i] \in ToSet(a) \cup ToSet(b)
    <3>1. i \in DOMAIN a \/ (i - half \in DOMAIN b /\ s[i] = b[i - half])
      BY <1>1
    <3> QED BY <1>2, <3>1 DEF ToSet
  <2>2. /\ \A i \in DOMAIN a : a[i] \in ToSet(s)
        /\ \A i \in DOMAIN b : b[i] \in ToSet(s)
    BY <1>2 DEF ToSet
  <2> QED BY <2>1, <2>2 DEF ToSet
<1>4. ASSUME NEW S, AheadIn(s, S)
      PROVE  /\ AheadIn(a, S) /\ AheadIn(b, S)
             /\ ToSet(a) \subseteq S \/ ToSet(b) \cap S = {}
  <2>1. AheadIn(a, S) /\ AheadIn(b, S)
    BY <1>2, <1>4 DEF AheadIn
  <2>2. \A i \in DOMAIN a, j \in DOMAIN b : b[j] \in S => a[i] \in S
    BY <1>2, <1>4 DEF AheadIn
  <2> QED BY <2>1, <2>2 DEF ToSet
<1>5. ASSUME NEW before, Nested(s, before)
      PROVE  /\ Nested(a, before) /\ Nested(b, before)
             /\ \A y \in ToSet(a) : AheadIn(b, before[y])
  <2>1. Nested(a, before)
    BY <1>2, <1>5 DEF Nested
  <2>2. Nested(b, before)
    BY <1>2, <1>5 DEF Nested
  <2>3. ASSUME NEW n \in DOMAIN a PROVE AheadIn(b, before[a[n]])
    <3> SUFFICES ASSUME NEW i \in DOMAIN b, NEW j \in DOMAIN b, b[j] \in before[a[n]], i < j
                 PROVE  b[i] \in before[a[n]]
      BY DEF AheadIn
    <3>1. /\ n \in DOMAIN s /\ half + i \in DOMAIN s /\ half + j \in DOMAIN s
          /\ n < half + i /\ half + i <= half + j
          /\ a[n] = s[n] /\ b[i] = s[half + i] /\ b[j] = s[half + j]
      BY <1>2
    <3> QED BY <1>5, <3>1 DEF Nested
  <2> QED BY <2>1, <2>2, <2>3 DEF ToSet
<1> QED BY <1>3, <1>4, <1>5 DEF a, b

\* So the sort of a nested list is ordered, and keeps ahead what was.
SortsWell(before, M, s, r) ==
  /\ r \in Seq(M) /\ ToSet(r) = ToSet(s)
  /\ \A S \in SUBSET Services : Closed(S, before, M) /\ AheadIn(s, S) => AheadIn(r, S)
  /\ Nested(s, before) => Ordered(r, before)

\* The halves are sorted first: by induction over the length.
LEMMA SortedWell ==
  ASSUME NEW M, NEW before, Precedence(before, M)
  PROVE  \A s \in Seq(M) : SortsWell(before, M, s, Sorted(s, before))
<1> DEFINE V == Seq(M)
           size == [s \in V |-> Len(s)]
           G == {s \in V : SortsWell(before, M, s, Sorted(s, before))}
<1>1. size \in [V -> Nat] /\ \A s \in V : size[s] = Len(s) /\ Len(s) \in Nat
  OBVIOUS
<1>2. ASSUME NEW s \in V, \A y \in V : size[y] < size[s] => y \in G PROVE s \in G
  <2> DEFINE half == Len(s) \div 2
             a == SubSeq(s, 1, half)
             b == SubSeq(s, half + 1, Len(s))
             left == Sorted(a, before)
             right == Sorted(b, before)
  <2>1. Sorted(s, before) = IF Len(s) < 2 THEN s ELSE Merged(before)[<<left, right>>]
    <3>1. s \in Seq(Services)
      BY DEF Precedence
    <3> QED BY <3>1, SortedIs
  <2>2. CASE Len(s) < 2
    <3>1. \A i, j \in DOMAIN s : s[i] \in before[s[j]] => i < j
      <4>1. \A i \in DOMAIN s : i = 1 /\ s[i] \in M
        BY <2>2
      <4> QED BY <4>1 DEF Precedence
    <3>2. Sorted(s, before) = s
      BY <2>1, <2>2
    <3> QED BY <3>1, <3>2 DEF SortsWell, Ordered
  <2>3. CASE ~(Len(s) < 2)
    <3>1. half \in 1..(Len(s) - 1) /\ Len(s) \in Nat
      BY <2>3, HalfOf
    <3> HIDE DEF half
    <3>2. /\ a \in V /\ Len(a) = half /\ b \in V /\ Len(b) = Len(s) - half
      BY <3>1, Halves
    <3> HIDE DEF a, b
    <3>3. SortsWell(before, M, a, left) /\ SortsWell(before, M, b, right)
      <4> HIDE DEF V, size
      <4>1. size[a] < size[s] /\ size[b] < size[s]
        BY <1>1, <3>1, <3>2
      <4> QED BY <1>2, <3>2, <4>1
    <3> HIDE DEF left, right
    <3>4. MergesWell(before, M, left, right, Merged(before)[<<left, right>>])
      BY <3>3, MergedWell DEF SortsWell
    <3>5. /\ ToSet(s) = ToSet(a) \cup ToSet(b)
          /\ \A S : AheadIn(s, S) => /\ AheadIn(a, S) /\ AheadIn(b, S)
                                     /\ ToSet(a) \subseteq S \/ ToSet(b) \cap S = {}
          /\ Nested(s, before) => /\ Nested(a, before) /\ Nested(b, before)
                                  /\ \A y \in ToSet(a) : AheadIn(b, before[y])
      BY <3>1, HalvesInOrder DEF a, b
    <3> DEFINE r == Merged(before)[<<left, right>>]
    <3>6. Sorted(s, before) = r
      BY <2>1, <2>3
    <3> HIDE DEF r, V
    <3>7. r \in Seq(M) /\ ToSet(r) = ToSet(s)
      BY <3>3, <3>4, <3>5 DEF MergesWell, SortsWell, r
    <3>8. ASSUME NEW S \in SUBSET Services, Closed(S, before, M), AheadIn(s, S) PROVE AheadIn(r, S)
      <4>1. AheadIn(left, S) /\ AheadIn(right, S) /\ (ToSet(left) \subseteq S \/ ToSet(right) \cap S = {})
        BY <3>3, <3>5, <3>8 DEF SortsWell
      <4> QED BY <3>4, <3>8, <4>1 DEF MergesWell, r
    <3>9. ASSUME Nested(s, before) PROVE Ordered(r, before)
      <4>1. Ordered(left, before) /\ Ordered(right, before)
        BY <3>3, <3>5, <3>9 DEF SortsWell
      <4>2. ASSUME NEW y \in ToSet(left) PROVE AheadIn(right, before[y])
        <5>1. y \in ToSet(a) /\ y \in M
          <6>1. ToSet(a) \subseteq M
            BY <3>2 DEF ToSet, V
          <6> QED BY <3>3, <6>1 DEF SortsWell
        <5>2. before[y] \in SUBSET Services /\ Closed(before[y], before, M)
          BY <5>1 DEF Precedence, Closed
        <5>3. AheadIn(b, before[y])
          BY <3>5, <3>9, <5>1
        <5> QED BY <3>3, <5>2, <5>3 DEF SortsWell
      <4> QED BY <3>4, <4>1, <4>2 DEF MergesWell, r
    <3>10. SortsWell(before, M, s, r)
      BY <3>7, <3>8, <3>9 DEF SortsWell
    <3> QED BY <3>6, <3>10
  <2> QED BY <2>2, <2>3
<1> HIDE DEF G, size
<1>3. \A s \in V : (\A y \in V : size[y] < size[s] => y \in G) => s \in G
  BY <1>2
<1>4. \A s \in V : s \in G
  <2> HIDE DEF V
  <2>1. Inductive(V, size, G)
    BY <1>1, <1>3 DEF Inductive
  <2> QED BY <2>1, SizeInduction
<1> QED BY <1>4 DEF G

-----------------------------------------------------------------------------
(* What collecting and keeping the dependencies comes to *)

\* Acyclic dependencies have a rank.
LEMMA Ranked ==
  ASSUME dependencies \in AcyclicDependencies
  PROVE  /\ dependencies \in [Services -> SUBSET Services]
         /\ \E rank \in [Services -> 1..Len(Accessors)] :
              \A s \in Services : \A d \in dependencies[s] : rank[d] < rank[s]
<1>1. PICK rank \in [Services -> 1..Len(Accessors)] :
        \E edges \in SUBSET {p \in Services \X Services : rank[p[2]] < rank[p[1]]} :
          dependencies = [s \in Services |-> {d \in Services : <<s, d>> \in edges}]
  BY DEF AcyclicDependencies
<1>2. PICK edges \in SUBSET {p \in Services \X Services : rank[p[2]] < rank[p[1]]} :
        dependencies = [s \in Services |-> {d \in Services : <<s, d>> \in edges}]
  BY <1>1
<1>3. \A s \in Services, d \in Services : <<s, d>> \in edges => rank[d] < rank[s]
  OBVIOUS
<1> QED BY <1>2, <1>3

\* What is collected is the least that has the dependencies and theirs.
LEMMA CollectedIs ==
  ASSUME dependencies \in AcyclicDependencies, NEW members \in SUBSET Services
  PROVE  LET c == Collected(members)
         IN  /\ Precedence(c, members)
             /\ \A s \in Services : dependencies[s] \subseteq c[s]
             /\ \A s \in Services : \A t \in c[s] :
                  t \in dependencies[s] \/ \E o \in dependencies[s] \cap members : t \in c[o]
             /\ \A s \in Services : s \notin c[s]
             /\ \A s \in Services : \A o \in c[s] \cap members : c[o] \subseteq c[s]
<1> DEFINE c == Collected(members)
           Holds(s, C) == dependencies[s] \cup UNION {dependencies[o] : o \in C \cap members} \subseteq C
<1>1. dependencies \in [Services -> SUBSET Services]
  BY Ranked
<1>2. PICK rank \in [Services -> 1..Len(Accessors)] :
        \A s \in Services : \A d \in dependencies[s] : rank[d] < rank[s]
  BY Ranked
<1>3. c = [s \in Services |-> {t \in Services : \A C \in SUBSET Services : Holds(s, C) => t \in C}]
  BY DEF Collected
<1> HIDE DEF c
<1>4. /\ c \in [Services -> SUBSET Services]
      /\ \A s, t \in Services : t \in c[s] <=> \A C \in SUBSET Services : Holds(s, C) => t \in C
  <2> HIDE DEF Holds
  <2> QED BY <1>3
<1>5. \A s \in Services, C \in SUBSET Services :
        Holds(s, C) <=> dependencies[s] \subseteq C /\ \A o \in C \cap members : dependencies[o] \subseteq C
  OBVIOUS
<1> HIDE DEF Holds
<1>6. ASSUME NEW s \in Services PROVE dependencies[s] \subseteq c[s]
  BY <1>1, <1>4, <1>5
<1>7. ASSUME NEW s \in Services, NEW o \in c[s] \cap members PROVE c[o] \subseteq c[s]
  <2> SUFFICES ASSUME NEW t \in c[o], NEW C \in SUBSET Services, Holds(s, C) PROVE t \in C
    BY <1>4
  <2>1. o \in C /\ o \in Services
    BY <1>4
  <2>2. Holds(o, C)
    BY <1>5, <2>1
  <2> QED BY <1>4, <2>1, <2>2
<1>8. ASSUME NEW s \in Services PROVE s \notin c[s]
  <2> DEFINE C == {t \in Services : rank[t] < rank[s]}
  <2>1. \A o \in C : \A d \in dependencies[o] : d \in C
    <3> SUFFICES ASSUME NEW o \in C, NEW d \in dependencies[o] PROVE d \in C
      OBVIOUS
    <3>1. d \in Services /\ o \in Services /\ rank[d] < rank[o] /\ rank[o] < rank[s]
      BY <1>1, <1>2
    <3>2. rank[d] \in Int /\ rank[o] \in Int /\ rank[s] \in Int
      BY <3>1
    <3> QED BY <3>1, <3>2
  <2>2. dependencies[s] \subseteq C
    BY <1>1, <1>2
  <2>3. s \notin C /\ C \in SUBSET Services
    <3>1. rank[s] \in Int
      OBVIOUS
    <3> QED BY <3>1
  <2> HIDE DEF C
  <2>4. Holds(s, C)
    BY <1>5, <2>1, <2>2, <2>3
  <2> QED BY <1>4, <2>3, <2>4
<1>9. ASSUME NEW s \in Services, NEW t \in c[s]
      PROVE  t \in dependencies[s] \/ \E o \in dependencies[s] \cap members : t \in c[o]
  <2> DEFINE C == dependencies[s] \cup UNION {c[o] : o \in dependencies[s] \cap members}
  <2>1. C \in SUBSET Services
    BY <1>1, <1>4
  <2>2. ASSUME NEW u \in C \cap members PROVE dependencies[u] \subseteq C
    <3>1. CASE u \in dependencies[s]
      BY <1>6, <2>1, <3>1
    <3>2. CASE \E o \in dependencies[s] \cap members : u \in c[o]
      <4>1. PICK o \in dependencies[s] \cap members : u \in c[o]
        BY <3>2
      <4>2. o \in Services /\ u \in Services
        BY <1>1, <2>1
      <4>3. dependencies[u] \subseteq c[u] /\ c[u] \subseteq c[o]
        BY <1>6, <1>7, <4>1, <4>2
      <4> QED BY <4>1, <4>3
    <3> QED BY <3>1, <3>2
  <2>3. Holds(s, C)
    <3> HIDE DEF Holds
    <3>1. dependencies[s] \subseteq C
      OBVIOUS
    <3> HIDE DEF C
    <3> QED BY <1>5, <2>1, <2>2, <3>1
  <2>4. t \in C
    <3> HIDE DEF C
    <3> QED BY <1>4, <2>1, <2>3
  <2> QED BY <2>4
<1>10. Precedence(c, members)
  BY <1>4, <1>7, <1>8 DEF Precedence
<1> QED BY <1>6, <1>7, <1>8, <1>9, <1>10 DEF c

-----------------------------------------------------------------------------
(* The entries *)

\* Of two visits that which has more left to enter is the larger.
LEMMA Deeper ==
  ASSUME NEW r \in Nat, NEW q \in Nat, r < q, NEW L \in Nat, NEW n \in Nat
  PROVE  r * (L + 1) + L < q * (L + 1) + n
<1>1. PICK e \in Nat : q = r + 1 + e
  <2>1. q - r - 1 \in Nat /\ q = r + 1 + (q - r - 1)
    OBVIOUS
  <2> QED BY <2>1
<1>2. q * (L + 1) = r * (L + 1) + (L + 1) + e * (L + 1)
  BY <1>1
<1>3. e * (L + 1) \in Nat /\ r * (L + 1) \in Nat
  OBVIOUS
<1> QED BY <1>2, <1>3

\* A visit gets smaller with each accessor, and with each service it enters.
LEMMA VisitsHaveSize ==
  ASSUME dependencies \in AcyclicDependencies
  PROVE  \E size \in [Visits -> Nat] :
           \A N \in SUBSET Services, e \in Seq(Services), n \in 0..Len(Accessors) : n # 0 =>
             /\ size[<<N, e, n - 1>>] < size[<<N, e, n>>]
             /\ \A s \in N, d \in Seq(Services) :
                  size[<<dependencies[s], d, Len(Accessors)>>] < size[<<N, e, n>>]
<1> DEFINE L == Len(Accessors)
           V == Seq(Services)
<1>1. L \in Nat /\ dependencies \in [Services -> SUBSET Services]
  BY Ranked, AccessorsAssumption
<1>2. PICK rank \in [Services -> 1..L] :
        \A s \in Services : \A d \in dependencies[s] : rank[d] < rank[s]
  BY Ranked
<1> DEFINE Bounds(N) == {k \in 0..L : \A d \in N : rank[d] <= k}
           R(N) == CHOOSE k \in Bounds(N) : \A j \in Bounds(N) : k <= j
<1>3. \A N \in SUBSET Services : R(N) \in Bounds(N) /\ \A j \in Bounds(N) : R(N) <= j
  <2> SUFFICES ASSUME NEW N \in SUBSET Services
               PROVE  \E k \in Bounds(N) : \A j \in Bounds(N) : k <= j
    OBVIOUS
  <2>1. L \in Bounds(N)
    <3>1. \A d \in N : rank[d] \in 1..L
      OBVIOUS
    <3> QED BY <1>1, <3>1
  <2>2. Bounds(N) \in SUBSET Nat
    BY <1>1
  <2> HIDE DEF Bounds
  <2> QED BY <2>1, <2>2, LeastOne
<1> HIDE DEF R
<1>4. \A N \in SUBSET Services : R(N) \in Nat
  BY <1>1, <1>3
<1>5. ASSUME NEW N \in SUBSET Services, NEW s \in N PROVE R(dependencies[s]) < R(N)
  <2>1. /\ dependencies[s] \in SUBSET Services /\ rank[s] \in 1..L
        /\ \A d \in dependencies[s] : rank[d] < rank[s] /\ rank[d] \in 1..L
    BY <1>1, <1>2
  <2>2. rank[s] - 1 \in Bounds(dependencies[s])
    BY <1>1, <2>1
  <2>3. R(dependencies[s]) <= rank[s] - 1 /\ rank[s] <= R(N) /\ R(N) \in Nat
    BY <1>3, <1>4, <2>1, <2>2
  <2> QED BY <1>4, <2>1, <2>3
<1> HIDE DEF L, V
<1> DEFINE size == [v \in Visits |-> R(v[1]) * (L + 1) + v[3]]
<1>6. /\ \A v \in Visits : v[1] \in SUBSET Services /\ v[3] \in 0..L
      /\ \A N \in SUBSET Services, e \in V, n \in 0..L :
           <<N, e, n>> \in Visits /\ <<N, e, n>>[1] = N /\ <<N, e, n>>[3] = n
  <2> HIDE DEF R
  <2> QED BY DEF Visits, L, V
<1>7. \A r \in Nat, n \in 0..L : r * (L + 1) + n \in Nat
  BY <1>1
<1>8. /\ size \in [Visits -> Nat]
      /\ \A N \in SUBSET Services, e \in V, n \in 0..L : size[<<N, e, n>>] = R(N) * (L + 1) + n
  <2>1. \A v \in Visits : R(v[1]) * (L + 1) + v[3] \in Nat
    BY <1>4, <1>6, <1>7
  <2> QED BY <1>6, <2>1
<1> HIDE DEF size
<1>9. ASSUME NEW N \in SUBSET Services, NEW e \in V, NEW n \in 0..L, n # 0
      PROVE  /\ size[<<N, e, n - 1>>] < size[<<N, e, n>>]
             /\ \A s \in N, d \in V : size[<<dependencies[s], d, L>>] < size[<<N, e, n>>]
  <2>1. n \in Nat /\ n - 1 \in 0..L /\ L \in 0..L
    BY <1>1, <1>9
  <2>2. size[<<N, e, n>>] = R(N) * (L + 1) + n /\ size[<<N, e, n - 1>>] = R(N) * (L + 1) + (n - 1)
    BY <1>8, <2>1
  <2>3. R(N) * (L + 1) + (n - 1) < R(N) * (L + 1) + n
    <3>1. R(N) * (L + 1) \in Nat
      BY <1>1, <1>4
    <3> QED BY <2>1, <3>1
  <2>4. ASSUME NEW s \in N, NEW d \in V PROVE size[<<dependencies[s], d, L>>] < size[<<N, e, n>>]
    <3>1. /\ R(dependencies[s]) \in Nat /\ R(N) \in Nat /\ R(dependencies[s]) < R(N)
          /\ dependencies[s] \in SUBSET Services
      BY <1>1, <1>4, <1>5
    <3>2. R(dependencies[s]) * (L + 1) + L < R(N) * (L + 1) + n
      BY <1>1, <2>1, <3>1, Deeper
    <3>3. size[<<dependencies[s], d, L>>] = R(dependencies[s]) * (L + 1) + L
      BY <1>8, <2>1, <3>1
    <3> QED BY <2>2, <3>2, <3>3
  <2> QED BY <2>2, <2>3, <2>4
<1> QED BY <1>8, <1>9 DEF L, V

\* The recursive definition of the entries.
LEMMA EntriesAre ==
  ASSUME dependencies \in AcyclicDependencies, NEW members \in SUBSET Services
  PROVE  \E visit \in [Visits -> Seq(Services)] :
           /\ Entries(members) = visit[<<members, << >>, Len(Accessors)>>]
           /\ \A N \in SUBSET Services, e \in Seq(Services), n \in 0..Len(Accessors) :
                visit[<<N, e, n>>] =
                  IF n = 0 THEN e
                  ELSE IF /\ Accessors[n] \in N \cap members
                          /\ Accessors[n] \notin ToSet(visit[<<N, e, n - 1>>])
                    THEN visit[<<dependencies[Accessors[n]],
                                 Append(visit[<<N, e, n - 1>>], Accessors[n]), Len(Accessors)>>]
                    ELSE visit[<<N, e, n - 1>>]
<1> DEFINE L == Len(Accessors)
           V == Seq(Services)
           enter(N, n, f, r) ==
             IF Accessors[n] \in N \cap members /\ Accessors[n] \notin ToSet(r)
               THEN f[<<dependencies[Accessors[n]], Append(r, Accessors[n]), L>>]
               ELSE r
           body(N, e, n, f) ==
             IF n = 0 THEN e ELSE [r \in V |-> enter(N, n, f, r)][f[<<N, e, n - 1>>]]
           step == [v \in Visits |-> [f \in [Visits -> V] |-> body(v[1], v[2], v[3], f)]]
           P(f) == f = [v \in Visits |-> body(v[1], v[2], v[3], f)]
<1>1. /\ L \in Nat /\ dependencies \in [Services -> SUBSET Services] /\ << >> \in V
      /\ \A n \in 0..L : n # 0 => n - 1 \in 0..L /\ Accessors[n] \in Services
      /\ \A e \in V, s \in Services : Append(e, s) \in V
  BY Ranked, AccessorsAssumption
<1>2. PICK size \in [Visits -> Nat] :
        \A N \in SUBSET Services, e \in V, n \in 0..L : n # 0 =>
          /\ size[<<N, e, n - 1>>] < size[<<N, e, n>>]
          /\ \A s \in N, d \in V : size[<<dependencies[s], d, L>>] < size[<<N, e, n>>]
  BY VisitsHaveSize
<1>3. /\ \A v \in Visits : /\ v[1] \in SUBSET Services /\ v[2] \in V /\ v[3] \in 0..L
                           /\ v = <<v[1], v[2], v[3]>>
      /\ \A N \in SUBSET Services, e \in V, n \in 0..L :
           <<N, e, n>> \in Visits /\ <<N, e, n>>[1] = N /\ <<N, e, n>>[2] = e /\ <<N, e, n>>[3] = n
  <2> HIDE DEF V, L
  <2> QED BY DEF Visits, L, V
<1>4. Entries(members) = (CHOOSE f : P(f))[<<members, << >>, L>>]
  BY DEF Entries
<1> HIDE DEF V, L
<1>5. ASSUME NEW N \in SUBSET Services, NEW e \in V, NEW n \in 0..L, n # 0, NEW f,
             f[<<N, e, n - 1>>] \in V, Accessors[n] \in N
      PROVE  /\ <<dependencies[Accessors[n]], Append(f[<<N, e, n - 1>>], Accessors[n]), L>> \in Visits
             /\ size[<<dependencies[Accessors[n]], Append(f[<<N, e, n - 1>>], Accessors[n]), L>>]
                  < size[<<N, e, n>>]
  <2>1. /\ Append(f[<<N, e, n - 1>>], Accessors[n]) \in V /\ L \in 0..L
        /\ dependencies[Accessors[n]] \in SUBSET Services
    BY <1>1, <1>5
  <2> DEFINE a == Append(f[<<N, e, n - 1>>], Accessors[n])
             d == dependencies[Accessors[n]]
  <2> HIDE DEF a
  <2>2. a \in V /\ d \in SUBSET Services /\ L \in 0..L
    BY <2>1 DEF a
  <2>3. <<d, a, L>> \in Visits
    BY <1>3, <2>2
  <2>4. size[<<d, a, L>>] < size[<<N, e, n>>]
    BY <1>2, <1>5, <2>2
  <2> QED BY <2>3, <2>4 DEF a
<1>e. \A N, e, n, f : n # 0 /\ f[<<N, e, n - 1>>] \in V =>
        body(N, e, n, f) = enter(N, n, f, f[<<N, e, n - 1>>])
  <2> HIDE DEF enter
  <2> QED OBVIOUS
<1>6. ASSUME NEW N \in SUBSET Services, NEW e \in V, NEW n \in 0..L, NEW f \in [Visits -> V]
      PROVE  body(N, e, n, f) \in V
  <2>1. CASE n = 0
    BY <2>1
  <2>2. CASE n # 0
    <3>1. f[<<N, e, n - 1>>] \in V
      BY <1>1, <1>3, <2>2
    <3>2. Accessors[n] \in N =>
            f[<<dependencies[Accessors[n]], Append(f[<<N, e, n - 1>>], Accessors[n]), L>>] \in V
      BY <1>5, <2>2, <3>1
    <3>3. body(N, e, n, f) = enter(N, n, f, f[<<N, e, n - 1>>])
      BY <1>e, <2>2, <3>1
    <3> HIDE DEF body
    <3> QED BY <3>1, <3>2, <3>3
  <2> QED BY <2>1, <2>2
<1>7. ASSUME NEW N \in SUBSET Services, NEW e \in V, NEW n \in 0..L, NEW f, NEW g \in [Visits -> V],
             \A y \in Visits : size[y] < size[<<N, e, n>>] => f[y] = g[y]
      PROVE  body(N, e, n, f) = body(N, e, n, g)
  <2>1. CASE n = 0
    BY <2>1
  <2>2. CASE n # 0
    <3>1. f[<<N, e, n - 1>>] = g[<<N, e, n - 1>>] /\ g[<<N, e, n - 1>>] \in V
      BY <1>1, <1>2, <1>3, <1>7, <2>2
    <3> DEFINE y == <<dependencies[Accessors[n]], Append(g[<<N, e, n - 1>>], Accessors[n]), L>>
    <3>2. Accessors[n] \in N => f[y] = g[y]
      <4>1. Accessors[n] \in N => y \in Visits /\ size[y] < size[<<N, e, n>>]
        BY <1>5, <2>2, <3>1
      <4> HIDE DEF y
      <4> QED BY <1>7, <4>1
    <3>3. /\ body(N, e, n, f) = enter(N, n, f, g[<<N, e, n - 1>>])
          /\ body(N, e, n, g) = enter(N, n, g, g[<<N, e, n - 1>>])
      BY <1>e, <2>2, <3>1
    <3> HIDE DEF body
    <3> QED BY <3>2, <3>3
  <2> QED BY <2>1, <2>2
<1> HIDE DEF body
<1>8. /\ step \in [Visits -> [[Visits -> V] -> V]]
      /\ \A v \in Visits : \A f \in [Visits -> V] : step[v][f] = body(v[1], v[2], v[3], f)
  BY <1>3, <1>6
<1> HIDE DEF step
<1>9. ASSUME NEW v \in Visits, NEW f, NEW g \in [Visits -> V],
             \A y \in Visits : size[y] < size[v] => f[y] = g[y]
      PROVE  body(v[1], v[2], v[3], f) = body(v[1], v[2], v[3], g)
  <2>1. v[1] \in SUBSET Services /\ v[2] \in V /\ v[3] \in 0..L /\ v = <<v[1], v[2], v[3]>>
    BY <1>3
  <2>2. \A y \in Visits : size[y] < size[<<v[1], v[2], v[3]>>] => f[y] = g[y]
    BY <1>9, <2>1
  <2> QED BY <1>7, <2>1, <2>2
<1>10. Contracts(step, Visits, V, size)
  <2>1. ASSUME NEW x \in Visits, NEW f \in [Visits -> V], NEW g \in [Visits -> V],
               \A y \in Visits : size[y] < size[x] => f[y] = g[y]
        PROVE  step[x][f] = step[x][g]
    <3>1. body(x[1], x[2], x[3], f) = body(x[1], x[2], x[3], g)
      BY <1>9, <2>1
    <3> QED BY <1>8, <3>1
  <2> QED BY <1>2, <1>8, <2>1 DEF Contracts
<1>11. PICK h \in [Visits -> V] : \A x \in Visits : h[x] = step[x][h]
  BY <1>1, <1>10, Recursion
<1>12. P(h)
  BY <1>8, <1>11
<1> DEFINE M == CHOOSE f : P(f)
<1>13. P(M)
  <2> HIDE DEF P
  <2> QED BY <1>12
<1> HIDE DEF M
<1>14. M = [v \in Visits |-> body(v[1], v[2], v[3], M)]
       /\ \A v \in Visits : M[v] = body(v[1], v[2], v[3], M)
  BY <1>13
<1>15. \A x \in Visits : M[x] = h[x]
  <2> DEFINE G == {x \in Visits : M[x] = h[x]}
  <2>1. ASSUME NEW x \in Visits, \A y \in Visits : size[y] < size[x] => y \in G PROVE x \in G
    <3>1. body(x[1], x[2], x[3], M) = body(x[1], x[2], x[3], h)
      BY <1>9, <2>1
    <3> QED BY <1>8, <1>11, <1>14, <3>1
  <2> HIDE DEF G
  <2>2. \A x \in Visits : (\A y \in Visits : size[y] < size[x] => y \in G) => x \in G
    BY <2>1
  <2>3. \A x \in Visits : x \in G
    <3>1. Inductive(Visits, size, G)
      BY <1>2, <2>2 DEF Inductive
    <3> QED BY <3>1, SizeInduction
  <2> QED BY <2>3 DEF G
<1>16. M \in [Visits -> V] /\ Entries(members) = M[<<members, << >>, L>>]
  <2>1. M \in [Visits -> V]
    BY <1>14, <1>15
  <2> QED BY <1>4, <2>1 DEF M
<1>17. ASSUME NEW N \in SUBSET Services, NEW e \in V, NEW n \in 0..L
       PROVE  M[<<N, e, n>>] = body(N, e, n, M)
  <2> DEFINE v == <<N, e, n>>
  <2>1. v \in Visits /\ v[1] = N /\ v[2] = e /\ v[3] = n
    BY <1>3
  <2>2. \A x \in Visits : M[x] = body(x[1], x[2], x[3], M)
    BY <1>14
  <2> HIDE DEF v
  <2>3. M[v] = body(v[1], v[2], v[3], M)
    BY <2>1, <2>2
  <2> QED BY <2>1, <2>3 DEF v
<1>18. ASSUME NEW N \in SUBSET Services, NEW e \in V, NEW n \in 0..L
       PROVE  M[<<N, e, n>>] = IF n = 0 THEN e ELSE enter(N, n, M, M[<<N, e, n - 1>>])
  <2>1. CASE n = 0
    BY <1>17, <2>1 DEF body
  <2>2. CASE n # 0
    <3>1. M[<<N, e, n - 1>>] \in V
      BY <1>1, <1>3, <1>16, <2>2
    <3>2. body(N, e, n, M) = enter(N, n, M, M[<<N, e, n - 1>>])
      BY <1>e, <2>2, <3>1
    <3> HIDE DEF enter
    <3> QED BY <1>17, <2>2, <3>2
  <2> QED BY <2>1, <2>2
<1> QED BY <1>16, <1>18 DEF L, V

\* An entry is finished when all that it collects is there, and what of this comes later
\* does so before anything else.
Finished(r, i, c, M) ==
  /\ c[r[i]] \cap M \subseteq ToSet(r)
  /\ \A j, k \in DOMAIN r : i < k /\ k <= j /\ r[j] \in c[r[i]] => r[k] \in c[r[i]]

\* The entries e, and maybe more.
Extends(r, e) == Len(e) <= Len(r) /\ \A i \in 1..Len(e) : r[i] = e[i]

\* The entries that a visit begins with: what is not finished waits for all it looks for.
Expecting(N, e, c, M) ==
  /\ e \in Seq(M) /\ IsInjective(e)
  /\ \A i \in 1..Len(e) : N \subseteq c[e[i]] \/ Finished(e, i, c, M)

\* What it has made of them after n accessors.
Visited(N, e, n, r, c, M) ==
  /\ r \in Seq(M) /\ IsInjective(r) /\ Extends(r, e)
  /\ \A i \in (Len(e) + 1)..Len(r) :
       /\ Finished(r, i, c, M)
       /\ \E s \in N \cap M : r[i] = s \/ r[i] \in c[s]
  /\ \A k \in 1..n : Accessors[k] \in N \cap M => Accessors[k] \in ToSet(r)

\* What is finished stays so when entries are added.
LEMMA FinishedStays ==
  ASSUME NEW M, NEW c, NEW e \in Seq(M), NEW r \in Seq(M), IsInjective(r), Extends(r, e),
         NEW i \in 1..Len(e), Finished(e, i, c, M)
  PROVE  Finished(r, i, c, M) /\ ToSet(e) \subseteq ToSet(r)
<1>1. /\ Len(e) \in Nat /\ Len(r) \in Nat /\ Len(e) <= Len(r)
      /\ DOMAIN e = 1..Len(e) /\ DOMAIN r = 1..Len(r) /\ \A k \in 1..Len(e) : r[k] = e[k]
      /\ \A k \in 1..Len(r) : r[k] \in M
  BY DEF Extends
<1>2. \A k \in DOMAIN e : k \in DOMAIN r /\ r[k] = e[k]
  BY <1>1
<1>3. ToSet(e) \subseteq ToSet(r)
  BY <1>2 DEF ToSet
<1>4. ASSUME NEW j \in DOMAIN r, r[j] \in c[r[i]] PROVE j \in DOMAIN e
  <2>1. r[j] \in c[e[i]] \cap M
    BY <1>1, <1>4
  <2>2. PICK k \in DOMAIN e : e[k] = r[j]
    BY <2>1 DEF Finished, ToSet
  <2> QED BY <1>2, <2>2 DEF IsInjective
<1>5. ASSUME NEW j \in DOMAIN r, NEW k \in DOMAIN r, i < k, k <= j, r[j] \in c[r[i]]
      PROVE  r[k] \in c[r[i]]
  <2>1. j \in DOMAIN e /\ k \in DOMAIN e
    BY <1>1, <1>4, <1>5
  <2> QED BY <1>1, <1>5, <2>1 DEF Finished
<1>6. c[r[i]] \cap M \subseteq ToSet(r)
  BY <1>1, <1>3 DEF Finished
<1> QED BY <1>3, <1>5, <1>6 DEF Finished

\* One entry more.
LEMMA Appended ==
  ASSUME NEW M, NEW e \in Seq(M), NEW s \in M, s \notin ToSet(e), IsInjective(e)
  PROVE  LET a == Append(e, s)
         IN  /\ a \in Seq(M) /\ IsInjective(a) /\ Extends(a, e)
             /\ Len(a) = Len(e) + 1 /\ a[Len(e) + 1] = s /\ Len(e) \in Nat
<1> DEFINE a == Append(e, s)
<1>1. /\ a \in Seq(M) /\ Len(a) = Len(e) + 1 /\ a[Len(e) + 1] = s /\ Len(e) \in Nat
      /\ \A i \in 1..Len(e) : a[i] = e[i]
      /\ DOMAIN a = 1..(Len(e) + 1) /\ DOMAIN e = 1..Len(e)
  OBVIOUS
<1> HIDE DEF a
<1>2. Extends(a, e)
  BY <1>1 DEF Extends
<1>3. \A i \in DOMAIN a : i = Len(e) + 1 \/ (i \in DOMAIN e /\ a[i] = e[i] /\ a[i] # s)
  BY <1>1 DEF ToSet
<1>4. IsInjective(a)
  <2> SUFFICES ASSUME NEW i \in DOMAIN a, NEW j \in DOMAIN a, a[i] = a[j] PROVE i = j
    BY DEF IsInjective
  <2> QED BY <1>1, <1>3 DEF IsInjective
<1> QED BY <1>1, <1>2, <1>4 DEF a

\* A visit that enters a service: the entries grow by it and what the visit of its
\* dependencies brings.
LEMMA Entered ==
  ASSUME dependencies \in AcyclicDependencies, NEW M \in SUBSET Services,
         NEW N \in SUBSET Services, NEW n \in 1..Len(Accessors), NEW e, NEW b, NEW r,
         Accessors[n] \in N \cap M, Accessors[n] \notin ToSet(b),
         Expecting(N, e, Collected(M), M),
         Visited(N, e, n - 1, b, Collected(M), M),
         LET a == Append(b, Accessors[n])
             d == dependencies[Accessors[n]]
         IN  Expecting(d, a, Collected(M), M) => Visited(d, a, Len(Accessors), r, Collected(M), M)
  PROVE  Visited(N, e, n, r, Collected(M), M)
<1> DEFINE s == Accessors[n]
           c == Collected(M)
           d == dependencies[s]
           a == Append(b, s)
           L == Len(Accessors)
<1>0. /\ L \in Nat /\ n \in Nat /\ \A t \in Services : \E k \in 1..L : t = Accessors[k]
  BY AccessorsAssumption DEF Services, ToSet
<1>1. /\ s \in N /\ s \in M /\ s \in Services /\ d \subseteq Services
      /\ d \subseteq c[s] /\ \A t \in Services : t \notin c[t]
      /\ \A t \in Services : \A o \in c[t] \cap M : c[o] \subseteq c[t]
      /\ \A t \in c[s] : t \in d \/ \E o \in d \cap M : t \in c[o]
  BY CollectedIs, Ranked
<1>2. /\ e \in Seq(M) /\ b \in Seq(M) /\ IsInjective(b) /\ Extends(b, e) /\ s \notin ToSet(b)
      /\ \A i \in 1..Len(e) : N \subseteq c[e[i]] \/ Finished(e, i, c, M)
      /\ \A i \in (Len(e) + 1)..Len(b) :
           Finished(b, i, c, M) /\ \E t \in N \cap M : b[i] = t \/ b[i] \in c[t]
      /\ \A k \in 1..(n - 1) : Accessors[k] \in N \cap M => Accessors[k] \in ToSet(b)
  BY DEF Expecting, Visited
<1> HIDE DEF c, d
<1>3. /\ a \in Seq(M) /\ IsInjective(a) /\ Extends(a, b) /\ Len(a) = Len(b) + 1
      /\ a[Len(b) + 1] = s /\ Len(b) \in Nat
  BY <1>1, <1>2, Appended
<1>4. Expecting(d, a, c, M) => Visited(d, a, L, r, c, M)
  BY DEF c, d
<1> HIDE DEF a, s, L
<1>5. /\ Len(e) \in Nat /\ Len(e) <= Len(b) /\ \A i \in 1..Len(e) : b[i] = e[i] /\ a[i] = e[i]
      /\ \A i \in 1..Len(b) : a[i] = b[i]
      /\ \A i \in 1..Len(a) : a[i] \in M
      /\ Extends(a, e)
  BY <1>2, <1>3 DEF Extends
<1>6. ASSUME NEW i \in 1..Len(a) PROVE d \subseteq c[a[i]] \/ Finished(a, i, c, M)
  <2>1. CASE i \in 1..Len(e) /\ N \subseteq c[e[i]]
    <3>1. a[i] = e[i] /\ a[i] \in Services /\ s \in c[a[i]] \cap M
      BY <1>1, <1>5, <1>6, <2>1
    <3> QED BY <1>1, <3>1
  <2>2. CASE i \in 1..Len(e) /\ Finished(e, i, c, M)
    BY <1>2, <1>3, <1>5, <2>2, FinishedStays
  <2>3. CASE i \in (Len(e) + 1)..Len(b)
    <3>1. i \in 1..Len(b) /\ Finished(b, i, c, M)
      BY <1>2, <1>5, <2>3
    <3> QED BY <1>2, <1>3, <3>1, FinishedStays
  <2>4. CASE i = Len(b) + 1
    BY <1>1, <1>3, <2>4
  <2>5. i \in 1..Len(e) \/ i \in (Len(e) + 1)..Len(b) \/ i = Len(b) + 1
    BY <1>3, <1>5
  <2> QED BY <1>2, <2>1, <2>2, <2>3, <2>4, <2>5
<1>7. Visited(d, a, L, r, c, M)
  BY <1>3, <1>4, <1>6 DEF Expecting
<1>8. /\ r \in Seq(M) /\ IsInjective(r) /\ Extends(r, a) /\ Len(r) \in Nat
      /\ \A i \in (Len(a) + 1)..Len(r) :
           Finished(r, i, c, M) /\ \E t \in d \cap M : r[i] = t \/ r[i] \in c[t]
      /\ \A k \in 1..L : Accessors[k] \in d \cap M => Accessors[k] \in ToSet(r)
  BY <1>7 DEF Visited
<1>9. /\ Extends(r, b) /\ Extends(r, e) /\ r[Len(b) + 1] = s /\ Len(b) + 1 <= Len(r)
      /\ DOMAIN r = 1..Len(r)
  BY <1>3, <1>5, <1>8 DEF Extends
<1>10. \A i \in (Len(a) + 1)..Len(r) : r[i] \in c[s]
  <2> SUFFICES ASSUME NEW i \in (Len(a) + 1)..Len(r) PROVE r[i] \in c[s]
    OBVIOUS
  <2>1. PICK t \in d \cap M : r[i] = t \/ r[i] \in c[t]
    BY <1>8
  <2> QED BY <1>1, <2>1
<1>11. /\ ToSet(b) \subseteq ToSet(r) /\ ToSet(a) \subseteq ToSet(r) /\ s \in ToSet(r)
  <2>1. /\ DOMAIN a = 1..Len(a) /\ DOMAIN b = 1..Len(b)
        /\ \A i \in DOMAIN a : i \in DOMAIN r /\ r[i] = a[i]
        /\ \A i \in DOMAIN b : i \in DOMAIN r /\ r[i] = b[i]
        /\ Len(b) + 1 \in DOMAIN r
    <3>1. DOMAIN a = 1..Len(a) /\ DOMAIN b = 1..Len(b) /\ DOMAIN r = 1..Len(r)
      BY <1>2, <1>3, <1>9
    <3>2. /\ Len(a) <= Len(r) /\ \A i \in 1..Len(a) : r[i] = a[i]
          /\ Len(b) <= Len(r) /\ \A i \in 1..Len(b) : r[i] = b[i]
      BY <1>8, <1>9 DEF Extends
    <3>3. 1..Len(a) \subseteq 1..Len(r) /\ 1..Len(b) \subseteq 1..Len(r) /\ Len(b) + 1 \in 1..Len(r)
      BY <1>3, <1>8, <1>9, <3>2
    <3> QED BY <3>1, <3>2, <3>3
  <2>2. ToSet(b) \subseteq ToSet(r) /\ ToSet(a) \subseteq ToSet(r)
    BY <2>1 DEF ToSet
  <2>3. s \in ToSet(r)
    BY <1>9, <2>1 DEF ToSet
  <2> QED BY <2>2, <2>3
<1>12. c[s] \cap M \subseteq ToSet(r)
  <2> SUFFICES ASSUME NEW t \in c[s] \cap M PROVE t \in ToSet(r)
    OBVIOUS
  <2>1. ASSUME NEW o \in d \cap M PROVE o \in ToSet(r)
    <3>1. PICK k \in 1..L : o = Accessors[k]
      BY <1>0, <1>1
    <3> QED BY <1>8, <3>1
  <2>2. ASSUME NEW o \in d \cap M, t \in c[o] PROVE t \in ToSet(r)
    <3>1. PICK i \in 1..Len(r) : r[i] = o
      BY <1>9, <2>1 DEF ToSet
    <3>2. CASE i \in (Len(a) + 1)..Len(r)
      BY <1>8, <2>2, <3>1, <3>2 DEF Finished
    <3>3. CASE i \in 1..Len(a)
      <4>1. a[i] = o
        BY <1>8, <3>1, <3>3 DEF Extends
      <4>2. ~(d \subseteq c[a[i]])
        BY <1>1, <4>1
      <4>3. Finished(a, i, c, M)
        BY <1>6, <3>3, <4>2
      <4> QED BY <1>11, <2>2, <4>1, <4>3 DEF Finished
    <3> QED BY <1>3, <3>1, <3>2, <3>3
  <2> QED BY <1>1, <2>1, <2>2
<1>13. Finished(r, Len(b) + 1, c, M)
  <2>1. \A j, k \in DOMAIN r : Len(b) + 1 < k /\ k <= j => r[k] \in c[s]
    BY <1>3, <1>8, <1>9, <1>10
  <2> QED BY <1>9, <1>12, <2>1 DEF Finished
<1>14. ASSUME NEW i \in (Len(e) + 1)..Len(r)
       PROVE  Finished(r, i, c, M) /\ \E t \in N \cap M : r[i] = t \/ r[i] \in c[t]
  <2>1. CASE i \in (Len(e) + 1)..Len(b)
    <3>1. i \in 1..Len(b) /\ Finished(b, i, c, M) /\ r[i] = b[i]
      BY <1>2, <1>5, <1>9, <2>1 DEF Extends
    <3>2. Finished(r, i, c, M)
      BY <1>2, <1>8, <1>9, <3>1, FinishedStays
    <3> QED BY <1>2, <2>1, <3>1, <3>2
  <2>2. CASE i = Len(b) + 1
    BY <1>1, <1>9, <1>13, <2>2
  <2>3. CASE i \in (Len(a) + 1)..Len(r)
    BY <1>1, <1>8, <1>10, <2>3
  <2>4. i \in (Len(e) + 1)..Len(b) \/ i = Len(b) + 1 \/ i \in (Len(a) + 1)..Len(r)
    BY <1>3, <1>5, <1>8
  <2> QED BY <2>1, <2>2, <2>3, <2>4
<1>15. ASSUME NEW k \in 1..n, Accessors[k] \in N \cap M PROVE Accessors[k] \in ToSet(r)
  <2>1. CASE k = n
    BY <1>11, <2>1 DEF s
  <2>2. CASE k # n
    <3>1. k \in 1..(n - 1)
      BY <1>0, <2>2
    <3> QED BY <1>2, <1>11, <1>15, <3>1
  <2> QED BY <2>1, <2>2
<1> QED BY <1>8, <1>9, <1>14, <1>15 DEF Visited, c

\* Any visit.
LEMMA VisitsEnterAll ==
  ASSUME dependencies \in AcyclicDependencies, NEW M \in SUBSET Services
  PROVE  /\ Entries(M) \in Seq(M) /\ M \subseteq ToSet(Entries(M))
         /\ Nested(Entries(M), Collected(M))
<1> DEFINE L == Len(Accessors)
           V == Seq(Services)
           c == Collected(M)
<1>1. PICK visit \in [Visits -> Seq(Services)] :
        /\ Entries(M) = visit[<<M, << >>, L>>]
        /\ \A N \in SUBSET Services, e \in Seq(Services), n \in 0..L :
             visit[<<N, e, n>>] =
               IF n = 0 THEN e
               ELSE IF Accessors[n] \in N \cap M /\ Accessors[n] \notin ToSet(visit[<<N, e, n - 1>>])
                 THEN visit[<<dependencies[Accessors[n]],
                              Append(visit[<<N, e, n - 1>>], Accessors[n]), L>>]
                 ELSE visit[<<N, e, n - 1>>]
  BY EntriesAre
<1>2. PICK size \in [Visits -> Nat] :
        \A N \in SUBSET Services, e \in V, n \in 0..L : n # 0 =>
          /\ size[<<N, e, n - 1>>] < size[<<N, e, n>>]
          /\ \A s \in N, d \in V : size[<<dependencies[s], d, L>>] < size[<<N, e, n>>]
  BY VisitsHaveSize
<1>3. /\ \A v \in Visits : /\ v[1] \in SUBSET Services /\ v[2] \in V /\ v[3] \in 0..L
                           /\ v = <<v[1], v[2], v[3]>>
      /\ \A N \in SUBSET Services, e \in V, n \in 0..L :
           <<N, e, n>> \in Visits /\ <<N, e, n>>[1] = N /\ <<N, e, n>>[2] = e /\ <<N, e, n>>[3] = n
  <2> HIDE DEF V, L, c
  <2> QED BY DEF Visits, L, V
<1>4. /\ L \in Nat /\ dependencies \in [Services -> SUBSET Services] /\ << >> \in V
      /\ \A n \in 0..L : n # 0 => n - 1 \in 0..L /\ Accessors[n] \in Services
      /\ \A e \in V, s \in Services : Append(e, s) \in V
      /\ \A e : e \in Seq(M) => e \in V
  BY Ranked, AccessorsAssumption
<1>5. \A t \in Services : \E k \in 1..L : t = Accessors[k]
  BY AccessorsAssumption DEF Services, ToSet
<1> HIDE DEF V, L
<1> DEFINE Good(N, e, n) == Expecting(N, e, c, M) => Visited(N, e, n, visit[<<N, e, n>>], c, M)
           G == {v \in Visits : Good(v[1], v[2], v[3])}
<1>6. ASSUME NEW N \in SUBSET Services, NEW e \in V, NEW n \in 0..L,
             \A y \in Visits : size[y] < size[<<N, e, n>>] => y \in G
      PROVE  Good(N, e, n)
  <2> SUFFICES ASSUME Expecting(N, e, c, M) PROVE Visited(N, e, n, visit[<<N, e, n>>], c, M)
    OBVIOUS
  <2> HIDE DEF c
  <2>0. e \in Seq(M) /\ IsInjective(e)
    BY DEF Expecting
  <2>1. CASE n = 0
    <3>1. visit[<<N, e, n>>] = e
      BY <1>1, <2>1 DEF V
    <3>2. Visited(N, e, 0, e, c, M)
      <4>1. Len(e) \in Nat
        BY <2>0
      <4>2. (Len(e) + 1)..Len(e) = {} /\ 1..0 = {}
        BY <4>1
      <4>3. Extends(e, e)
        BY <4>1 DEF Extends
      <4> QED BY <2>0, <4>2, <4>3 DEF Visited
    <3> QED BY <2>1, <3>1, <3>2
  <2>2. CASE n # 0
    <3> DEFINE b == visit[<<N, e, n - 1>>]
               s == Accessors[n]
               d == dependencies[s]
               a == Append(b, s)
    <3>1. n - 1 \in 0..L /\ s \in Services /\ n \in 1..L
      BY <1>4, <2>2
    <3>2. <<N, e, n - 1>> \in Visits /\ size[<<N, e, n - 1>>] < size[<<N, e, n>>] /\ b \in V
      BY <1>2, <1>3, <2>2, <3>1 DEF V
    <3>3. Visited(N, e, n - 1, b, c, M)
      <4>1. <<N, e, n - 1>> \in G
        BY <1>6, <3>2
      <4> HIDE DEF b
      <4>2. Good(N, e, n - 1)
        BY <1>3, <3>1, <4>1
      <4> QED BY <4>2 DEF b
    <3>4. visit[<<N, e, n>>] =
            IF s \in N \cap M /\ s \notin ToSet(b) THEN visit[<<d, a, L>>] ELSE b
      BY <1>1, <2>2 DEF V
    <3> HIDE DEF b
    <3>5. CASE s \in N \cap M /\ s \notin ToSet(b)
      <4>1. d \in SUBSET Services /\ a \in V /\ L \in 0..L /\ s \in N
        BY <1>4, <3>1, <3>2, <3>5
      <4>2. <<d, a, L>> \in Visits /\ size[<<d, a, L>>] < size[<<N, e, n>>]
        BY <1>2, <1>3, <2>2, <4>1
      <4> HIDE DEF d, a, s
      <4>3. <<d, a, L>> \in G
        BY <1>6, <4>2
      <4>4. Good(d, a, L)
        BY <1>3, <4>1, <4>3
      <4>5. Expecting(d, a, c, M) => Visited(d, a, L, visit[<<d, a, L>>], c, M)
        BY <4>4
      <4>6. visit[<<N, e, n>>] = visit[<<d, a, L>>]
        BY <3>4, <3>5
      <4> QED BY <3>1, <3>3, <3>5, <4>5, <4>6, Entered DEF c, d, a, s, L
    <3>6. CASE ~(s \in N \cap M /\ s \notin ToSet(b))
      <4>1. visit[<<N, e, n>>] = b
        BY <3>4, <3>6
      <4>2. \A k \in 1..n : k \in 1..(n - 1) \/ k = n
        BY <3>1
      <4>3. \A k \in 1..n : Accessors[k] \in N \cap M => Accessors[k] \in ToSet(b)
        BY <3>3, <3>6, <4>2 DEF Visited
      <4> QED BY <3>3, <4>1, <4>3 DEF Visited
    <3> QED BY <3>5, <3>6
  <2> QED BY <2>1, <2>2
<1>7. \A v \in Visits : (\A y \in Visits : size[y] < size[v] => y \in G) => v \in G
  <2> SUFFICES ASSUME NEW v \in Visits, \A y \in Visits : size[y] < size[v] => y \in G
               PROVE  v \in G
    OBVIOUS
  <2> HIDE DEF G
  <2>1. v[1] \in SUBSET Services /\ v[2] \in V /\ v[3] \in 0..L /\ v = <<v[1], v[2], v[3]>>
    BY <1>3
  <2>2. Good(v[1], v[2], v[3])
    <3>1. \A y \in Visits : size[y] < size[<<v[1], v[2], v[3]>>] => y \in G
      BY <2>1
    <3> HIDE DEF Good
    <3> QED BY <1>6, <2>1, <3>1
  <2> HIDE DEF Good
  <2> QED BY <2>2 DEF G
<1>8. Good(M, << >>, L)
  <2> HIDE DEF G
  <2>0. size \in [Visits -> Nat]
    BY <1>2
  <2>1. \A v \in Visits : v \in G
    <3> HIDE DEF Good, c
    <3>1. Inductive(Visits, size, G)
      BY <1>7, <2>0 DEF Inductive
    <3> QED BY <3>1, SizeInduction
  <2>2. <<M, << >>, L>> \in Visits /\ L \in 0..L
    <3>1. L \in 0..L /\ << >> \in V
      BY <1>4
    <3> HIDE DEF Good, c
    <3> QED BY <1>3, <3>1
  <2> HIDE DEF Good
  <2>3. <<M, << >>, L>> \in G
    BY <2>1, <2>2
  <2> QED BY <1>3, <1>4, <2>2, <2>3 DEF G
<1>9. Expecting(M, << >>, c, M)
  <2>1. << >> \in Seq(M) /\ IsInjective(<< >>) /\ 1..Len(<< >>) = {}
    BY DEF IsInjective
  <2> QED BY <2>1 DEF Expecting
<1> DEFINE r == Entries(M)
<1>10. Visited(M, << >>, L, r, c, M)
  BY <1>1, <1>8, <1>9
<1> HIDE DEF r, c
<1>11. /\ r \in Seq(M) /\ DOMAIN r = 1..Len(r) /\ Len(<< >>) = 0
       /\ \A i \in 1..Len(r) : Finished(r, i, c, M)
  BY <1>10 DEF Visited
<1>12. Nested(r, c)
  BY <1>11 DEF Nested, Finished
<1>13. M \subseteq ToSet(r)
  BY <1>5, <1>10 DEF Visited
<1> QED BY <1>11, <1>12, <1>13 DEF r, c

-----------------------------------------------------------------------------
(* The lists that the operations work through *)

\* The function that leaves the independent services out.
Keeps(keep, c) ==
  \A s \in Seq(Services) :
    keep[s] = IF s = << >> THEN << >>
              ELSE IF c[Head(s)] = {} THEN keep[Tail(s)] ELSE <<Head(s)>> \o keep[Tail(s)]

\* What is left without them is in its order.
LEMMA KeptInOrder ==
  ASSUME NEW M, NEW before, Precedence(before, M), NEW c,
         NEW keep, keep \in [Seq(Services) -> Seq(Services)],
         Keeps(keep, c)
  PROVE  \A s \in Seq(M) : /\ keep[s] \in Seq(M)
                           /\ ToSet(keep[s]) = {t \in ToSet(s) : c[t] # {}}
                           /\ Ordered(s, before) => Ordered(keep[s], before)
<1> DEFINE V == Seq(M)
           size == [s \in V |-> Len(s)]
           Good(s) == /\ keep[s] \in Seq(M)
                      /\ ToSet(keep[s]) = {t \in ToSet(s) : c[t] # {}}
                      /\ Ordered(s, before) => Ordered(keep[s], before)
           G == {s \in V : Good(s)}
<1>1. size \in [V -> Nat] /\ \A s \in V : size[s] = Len(s) /\ Len(s) \in Nat /\ s \in Seq(Services)
  BY DEF Precedence
<1>2. ASSUME NEW s \in V, \A y \in V : size[y] < size[s] => y \in G PROVE Good(s)
  <2>1. CASE s = << >>
    <3>1. keep[s] = << >>
      BY <1>1, <2>1 DEF Keeps
    <3> QED BY <2>1, <3>1, NothingIn
  <2>2. CASE s # << >>
    <3> DEFINE x == Head(s)
               t == Tail(s)
    <3>1. /\ x \in M /\ t \in V /\ Len(t) < Len(s) /\ ToSet(s) = {x} \cup ToSet(t)
          /\ Ordered(s, before) => Ordered(t, before) /\ ToSet(s) \cap before[x] = {}
      BY <2>2, Tailed
    <3>2. keep[s] = IF c[x] = {} THEN keep[t] ELSE <<x>> \o keep[t]
      BY <1>1, <2>2 DEF Keeps
    <3> HIDE DEF x, t
    <3>3. Good(t)
      <4>1. size[t] < size[s]
        BY <1>1, <3>1
      <4> HIDE DEF size, V, Good
      <4> QED BY <1>2, <3>1, <4>1
    <3>4. CASE c[x] = {}
      BY <3>1, <3>2, <3>3, <3>4
    <3>5. CASE c[x] # {}
      <4>1. keep[s] = <<x>> \o keep[t]
        BY <3>2, <3>5
      <4>2. keep[s] \in Seq(M) /\ ToSet(keep[s]) = {x} \cup ToSet(keep[t])
        BY <3>1, <3>3, <4>1, ListFacts, Headed
      <4>3. ToSet(keep[s]) = {u \in ToSet(s) : c[u] # {}}
        BY <3>1, <3>3, <3>5, <4>2
      <4>4. ASSUME Ordered(s, before) PROVE Ordered(keep[s], before)
        <5>1. Ordered(keep[t], before) /\ ToSet(keep[t]) \cap before[x] = {}
          BY <3>1, <3>3, <4>4
        <5> QED BY <3>1, <3>3, <4>1, <5>1, Headed
      <4> QED BY <4>2, <4>3, <4>4
    <3> QED BY <3>4, <3>5
  <2> QED BY <2>1, <2>2
<1> HIDE DEF Good, size
<1>3. \A s \in V : (\A y \in V : size[y] < size[s] => y \in G) => s \in G
  BY <1>2
<1> HIDE DEF G
<1>4. \A s \in V : s \in G
  <2> HIDE DEF V
  <2>1. Inductive(V, size, G)
    BY <1>1, <1>3 DEF Inductive
  <2> QED BY <2>1, SizeInduction
<1> QED BY <1>4 DEF G, Good

\* The dependent services of the members, in an order of what they collect.
LEMMA DependentInOrder ==
  ASSUME dependencies \in AcyclicDependencies, NEW M \in SUBSET Services
  PROVE  /\ Dependent(M) \in Seq(M) /\ Ordered(Dependent(M), Collected(M))
         /\ ToSet(Dependent(M)) = {s \in M : Collected(M)[s] # {}}
<1> DEFINE c == Collected(M)
           sorted == Sorted(Entries(M), c)
<1>1. Precedence(c, M)
  BY CollectedIs
<1>2. PICK keep \in [Seq(Services) -> Seq(Services)] :
        Dependent(M) = keep[sorted] /\ Keeps(keep, c)
  BY DependentIs DEF Keeps
<1>3. /\ Entries(M) \in Seq(M) /\ M \subseteq ToSet(Entries(M)) /\ Nested(Entries(M), c)
  BY VisitsEnterAll
<1>4. ToSet(Entries(M)) = M
  BY <1>3 DEF ToSet
<1> HIDE DEF c
<1>5. sorted \in Seq(M) /\ ToSet(sorted) = M /\ Ordered(sorted, c)
  BY <1>1, <1>3, <1>4, SortedWell DEF SortsWell
<1> HIDE DEF sorted
<1>6. /\ keep[sorted] \in Seq(M) /\ Ordered(keep[sorted], c)
      /\ ToSet(keep[sorted]) = {t \in M : c[t] # {}}
  <2>1. keep \in [Seq(Services) -> Seq(Services)] /\ Keeps(keep, c)
    BY <1>2
  <2>2. \A s \in Seq(M) : /\ keep[s] \in Seq(M)
                          /\ ToSet(keep[s]) = {t \in ToSet(s) : c[t] # {}}
                          /\ Ordered(s, c) => Ordered(keep[s], c)
    BY <1>1, <2>1, KeptInOrder, Zenon
  <2> QED BY <1>5, <2>2
<1> QED BY <1>2, <1>6 DEF c

-----------------------------------------------------------------------------
(* The batches *)

\* The services that an operation was begun on.
Begun(operation) == {s \in Services : <<operation, s>> \in begun}

\* In an operation the first service of such a pair waits for the second.
Waits(operation) ==
  {p \in Services \X Services :
     \/ /\ operation \in {"preInit", "init"}
        /\ p[1] \in initialization /\ p[2] \in dependencies[p[1]] \cap initialization
     \/ /\ operation = "shutdown"
        /\ p[2] \in shutdown \cap Begun("init") /\ p[1] \in dependencies[p[2]]}

\* In no batch is a service that waits for one of the same batch or a later one, and
\* what it waits for is in an earlier one or was begun.
Ahead(batches, waits, done) ==
  \A i \in 1..Len(batches) : \A p \in waits : p[1] \in batches[i] =>
    /\ p[2] \in done \/ \E j \in 1..(i - 1) : p[2] \in batches[j]
    /\ \A j \in i..Len(batches) : p[2] \notin batches[j]

\* What a service that was begun has waited for is over, and does not begin again.
Waited(operation) ==
  \A p \in Waits(operation) : p[1] \in Begun(operation) =>
    /\ p[2] \in Begun(operation)
    /\ running = operation => p[2] \notin pending /\ \A i \in 1..Len(todo) : p[2] \notin todo[i]

\* The services of the batches to come.
ToCome == {s \in Services : \E i \in 1..Len(todo) : s \in todo[i]}

\* Which operations have been begun at each stage.
OperationsAtStage ==
  /\ stage \in {"modules", "preInit"} => begun = {}
  /\ stage \in {"modules", "preInit", "active"} => running = "none"
  /\ stage = "init" => Begun("init") = {} /\ running \in {"none", "preInit"}
  /\ stage = "postInit" => running \in {"none", "init"}
  /\ stage = "invalid" => running \in {"none", "preInit", "init"}
  /\ stage \in {"stopping", "ended", "destroyed"} => running \in {"none", "shutdown", "dispose"}
  /\ stage \in {"init", "postInit", "active", "invalid"} => Begun("shutdown") = {} /\ Begun("dispose") = {}
  /\ running = "shutdown" => Begun("dispose") = {}

\* Unless one is rejected, the operations at the end leave nobody out.
NobodyLeftOut ==
  stage \in {"stopping", "ended", "destroyed"} /\ ~rejected =>
    /\ shutdown \cap Begun("init")
         \subseteq Begun("shutdown") \cup (IF running = "shutdown" THEN ToCome ELSE {})
    /\ running # "shutdown" =>
         Begun("init") \cup Begun("shutdown") \subseteq Begun("dispose") \cup ToCome

\* The inductive invariant: batches that are in order, and who is still in one.
ServicesInv ==
  /\ StartupTypeOK
  /\ dependencies \in AcyclicDependencies
  /\ begun \subseteq {"preInit", "init", "shutdown", "dispose"} \X created
  /\ Begun("preInit") \cup Begun("init") \subseteq initialization
  /\ ToCome \subseteq created
  /\ running = "none" => pending = {} /\ todo = << >>
  /\ running \in {"preInit", "init"} => ToCome \subseteq initialization
  /\ OperationsAtStage
  /\ \A operation \in {"preInit", "init", "shutdown"} : Waited(operation)
  /\ Ahead(todo, Waits(running), Begun(running))
  /\ NobodyLeftOut

\* The next batch of such a list is in order with what was done, and so is the rest.
LEMMA NextAhead ==
  ASSUME NEW S, NEW b \in Seq(S), b # << >>, NEW waits, NEW done, Ahead(b, waits, done)
  PROVE  /\ Ahead(Tail(b), waits, done \cup Head(b))
         /\ \A p \in waits : p[1] \in Head(b) =>
              p[2] \in done /\ p[2] \notin Head(b) /\ \A i \in 1..Len(Tail(b)) : p[2] \notin Tail(b)[i]
<1> DEFINE n == Len(b)
           t == Tail(b)
<1>1. n \in Nat /\ n >= 1 /\ Head(b) = b[1] /\ Len(t) = n - 1 /\ \A i \in 1..(n - 1) : t[i] = b[i + 1]
  BY ListFacts
<1> HIDE DEF n, t
<1>2. \A i \in 1..n : \A p \in waits : p[1] \in b[i] =>
        /\ p[2] \in done \/ \E j \in 1..(i - 1) : p[2] \in b[j]
        /\ \A j \in i..n : p[2] \notin b[j]
  BY DEF Ahead, n
<1>3. ASSUME NEW i \in 1..(n - 1), NEW p \in waits, p[1] \in t[i]
      PROVE  /\ p[2] \in done \cup b[1] \/ \E j \in 1..(i - 1) : p[2] \in t[j]
             /\ \A j \in i..(n - 1) : p[2] \notin t[j]
  <2>1. i + 1 \in 1..n /\ p[1] \in b[i + 1]
    BY <1>1, <1>3
  <2>2. /\ p[2] \in done \/ \E j \in 1..i : p[2] \in b[j]
        /\ \A j \in (i + 1)..n : p[2] \notin b[j]
    BY <1>1, <1>2, <2>1
  <2>3. \A j \in i..(n - 1) : j + 1 \in (i + 1)..n /\ t[j] = b[j + 1]
    BY <1>1
  <2>4. \A j \in 1..i : j = 1 \/ (j - 1 \in 1..(i - 1) /\ t[j - 1] = b[j])
    BY <1>1
  <2> QED BY <2>2, <2>3, <2>4
<1>4. \A p \in waits : p[1] \in b[1] =>
        p[2] \in done /\ p[2] \notin b[1] /\ \A i \in 1..(n - 1) : p[2] \notin t[i]
  <2> SUFFICES ASSUME NEW p \in waits, p[1] \in b[1]
               PROVE  p[2] \in done /\ p[2] \notin b[1] /\ \A i \in 1..(n - 1) : p[2] \notin t[i]
    OBVIOUS
  <2>1. 1 \in 1..n /\ 1..(1 - 1) = {} /\ \A i \in 1..(n - 1) : i + 1 \in 1..n
    BY <1>1
  <2>2. p[2] \in done /\ \A j \in 1..n : p[2] \notin b[j]
    BY <1>2, <2>1
  <2> QED BY <1>1, <2>1, <2>2
<1>5. Ahead(t, waits, done \cup b[1])
  BY <1>1, <1>3 DEF Ahead
<1> QED BY <1>1, <1>4, <1>5 DEF t

\* Who waits for whom of the services that are called to initialise them.
LEMMA InitBatchesAhead ==
  ASSUME dependencies \in AcyclicDependencies, initialization \subseteq Services,
         NEW operation \in {"preInit", "init"}
  PROVE  /\ InitBatches \in Seq(SUBSET Services)
         /\ \A i \in 1..Len(InitBatches) : InitBatches[i] \subseteq initialization
         /\ Ahead(InitBatches, Waits(operation), {})
<1> DEFINE M == initialization
           c == Collected(M)
           D == Dependent(M)
           I == Independent(M)
           n == Len(D)
           b == InitBatches
<1>1. /\ Precedence(c, M) /\ \A s \in Services : dependencies[s] \subseteq c[s]
  BY CollectedIs
<1>2. D \in Seq(M) /\ Ordered(D, c) /\ ToSet(D) = {s \in M : c[s] # {}}
  BY DependentInOrder
<1>3. I = {s \in M : c[s] = {}}
  BY DEF Independent
<1>4. InitBatches = <<I>> \o OneByOne(D)
  BY DEF InitBatches
<1> HIDE DEF D, I, c
<1>5. n \in Nat /\ DOMAIN D = 1..n /\ \A i \in 1..n : D[i] \in M
  BY <1>2, ListFacts
<1>6. OneByOne(D) \in Seq(SUBSET M) /\ Len(OneByOne(D)) = n /\ \A i \in 1..n : OneByOne(D)[i] = {D[i]}
  BY <1>5 DEF OneByOne
<1>7. b \in Seq(SUBSET M) /\ Len(b) = n + 1 /\ b[1] = I /\ \A i \in 2..(n + 1) : b[i] = {D[i - 1]}
  BY <1>3, <1>4, <1>5, <1>6
<1> HIDE DEF b
<1>8. ASSUME NEW i \in 1..(n + 1), NEW p \in Waits(operation), p[1] \in b[i]
      PROVE  /\ \E j \in 1..(i - 1) : p[2] \in b[j]
             /\ \A j \in i..(n + 1) : p[2] \notin b[j]
  <2> DEFINE s == p[1]
             d == p[2]
  <2>1. s \in M /\ d \in M /\ d \in c[s] /\ s \in Services
    BY <1>1 DEF Waits
  <2> HIDE DEF s, d
  <2>2. s \notin I /\ i # 1 /\ i \in 2..(n + 1) /\ s = D[i - 1] /\ i - 1 \in 1..n
    BY <1>3, <1>5, <1>7, <1>8, <2>1 DEF s
  <2>3. CASE d \in I
    <3>1. \A j \in 1..n : D[j] # d
      BY <1>2, <1>3, <1>5, <2>3 DEF ToSet
    <3>2. \A j \in i..(n + 1) : j \in 2..(n + 1) /\ j - 1 \in 1..n
      BY <1>5, <2>2
    <3>3. 1 \in 1..(i - 1)
      BY <2>2, <1>5
    <3> QED BY <1>7, <2>3, <3>1, <3>2, <3>3 DEF d
  <2>4. CASE d \notin I
    <3>1. d \in ToSet(D)
      BY <1>2, <1>3, <2>1, <2>4
    <3>2. PICK k \in 1..n : D[k] = d
      BY <1>5, <3>1 DEF ToSet
    <3>3. \A j \in 1..n : D[j] = d => j < i - 1
      BY <1>2, <1>5, <2>1, <2>2 DEF Ordered
    <3>4. k + 1 \in 2..(n + 1) /\ k + 1 \in 1..(i - 1) /\ b[k + 1] = {D[k]}
      BY <1>5, <1>7, <2>2, <3>2, <3>3
    <3>5. \A j \in i..(n + 1) : j \in 2..(n + 1) /\ j - 1 \in 1..n /\ ~(j - 1 < i - 1)
      BY <1>5, <2>2
    <3>6. \A j \in i..(n + 1) : d \notin b[j]
      BY <1>7, <3>3, <3>5
    <3> QED BY <3>2, <3>4, <3>6 DEF d
  <2> QED BY <2>3, <2>4
<1>9. \A i \in 1..(n + 1) : b[i] \subseteq M
  BY <1>5, <1>7
<1>10. b \in Seq(SUBSET Services)
  BY <1>7
<1>11. Ahead(b, Waits(operation), {})
  BY <1>7, <1>8 DEF Ahead
<1> QED BY <1>7, <1>9, <1>10, <1>11 DEF b

\* A batch more at the end of a list.
LEMMA BatchAdded ==
  ASSUME NEW S, NEW o \in Seq(S), NEW x \in S
  PROVE  LET b == o \o <<x>>
         IN  /\ b \in Seq(S) /\ Len(b) = Len(o) + 1 /\ b[Len(o) + 1] = x
             /\ \A i \in 1..Len(o) : b[i] = o[i]
OBVIOUS

\* Of the services that are called to shut them down, all are in a batch, and those that
\* others depend on come after these.
LEMMA ShutdownBatchesAhead ==
  ASSUME dependencies \in AcyclicDependencies, initialization \subseteq Services,
         shutdown \subseteq Services, created \subseteq Services,
         Begun("init") \subseteq initialization \cap created
  PROVE  /\ ShutdownBatches \in Seq(SUBSET Services)
         /\ \A i \in 1..Len(ShutdownBatches) : ShutdownBatches[i] \subseteq shutdown \cap created
         /\ \A s \in shutdown \cap created :
              \E i \in 1..Len(ShutdownBatches) : s \in ShutdownBatches[i]
         /\ Ahead(ShutdownBatches, Waits("shutdown"), {})
<1> DEFINE N == shutdown \cap created
           M == shutdown \cap created \cap initialization
           c == Collected(M)
           D == Dependent(M)
           R == Reverse(D)
           final == Independent(M) \cup (N \ initialization)
           n == Len(D)
           b == ShutdownBatches
<1>0. M \in SUBSET Services
  OBVIOUS
<1>1. /\ Precedence(c, M) /\ \A s \in Services : dependencies[s] \subseteq c[s]
  BY <1>0, CollectedIs
<1>2. D \in Seq(M) /\ Ordered(D, c) /\ ToSet(D) = {s \in M : c[s] # {}}
  BY <1>0, DependentInOrder
<1>3. Independent(M) = {s \in M : c[s] = {}}
  BY DEF Independent
<1>4. b = OneByOne(R) \o <<final>>
  BY DEF ShutdownBatches
<1>5. M \subseteq N /\ N \ initialization = N \ M /\ M \subseteq Services /\ N \subseteq Services
  OBVIOUS
<1>6. \A p \in Waits("shutdown") : p[2] \in M /\ p[1] \in dependencies[p[2]] /\ p[2] \in Services
  BY DEF Waits
<1> HIDE DEF D, c, M, N
<1>7. n \in Nat /\ DOMAIN D = 1..n /\ \A i \in 1..n : D[i] \in M
  BY <1>2, ListFacts
<1>8. R \in Seq(M) /\ Len(R) = n /\ \A i \in 1..n : n + 1 - i \in 1..n /\ R[i] = D[n + 1 - i]
  <2>1. \A i \in 1..n : n - i + 1 \in 1..n /\ n + 1 - i = n - i + 1
    BY <1>7
  <2>2. R = [i \in 1..n |-> D[n - i + 1]]
    BY DEF Reverse
  <2> QED BY <1>7, <2>1, <2>2
<1> HIDE DEF R
<1>9. OneByOne(R) \in Seq(SUBSET N) /\ Len(OneByOne(R)) = n /\ \A i \in 1..n : OneByOne(R)[i] = {R[i]}
  <2>1. OneByOne(R) = [i \in 1..n |-> {R[i]}] /\ \A i \in 1..n : {R[i]} \in SUBSET N
    BY <1>5, <1>7, <1>8 DEF OneByOne
  <2> QED BY <1>7, <2>1
<1>10. final \in SUBSET N
  BY <1>3, <1>5
<1> HIDE DEF final
<1>11. /\ b \in Seq(SUBSET N) /\ Len(b) = n + 1 /\ b[n + 1] = final
       /\ \A i \in 1..n : b[i] = {D[n + 1 - i]} /\ n + 1 - i \in 1..n
  <2> DEFINE o == OneByOne(R)
  <2>1. o \in Seq(SUBSET N) /\ Len(o) = n /\ \A i \in 1..n : o[i] = {D[n + 1 - i]} /\ n + 1 - i \in 1..n
    BY <1>8, <1>9
  <2>2. b = o \o <<final>>
    BY <1>4
  <2> HIDE DEF o, b, n
  <2>3. /\ b \in Seq(SUBSET N) /\ Len(b) = Len(o) + 1 /\ b[Len(o) + 1] = final
        /\ \A i \in 1..Len(o) : b[i] = o[i]
    BY <1>10, <2>1, <2>2, BatchAdded
  <2> QED BY <2>1, <2>3
<1> HIDE DEF b
<1>12. ASSUME NEW i \in 1..(n + 1), NEW p \in Waits("shutdown"), p[1] \in b[i]
       PROVE  /\ \E j \in 1..(i - 1) : p[2] \in b[j]
              /\ \A j \in i..(n + 1) : p[2] \notin b[j]
  <2> DEFINE d == p[1]
             s == p[2]
  <2>1. s \in M /\ d \in c[s]
    BY <1>1, <1>6
  <2> HIDE DEF s, d
  <2>2. s \in ToSet(D) /\ s \notin final
    BY <1>2, <1>3, <1>5, <2>1 DEF final
  <2>3. PICK k \in 1..n : D[k] = s
    BY <1>7, <2>2 DEF ToSet
  <2>4. n + 1 - k \in 1..n /\ n + 1 - (n + 1 - k) = k /\ s \in b[n + 1 - k]
    <3>1. n + 1 - k \in 1..n /\ n + 1 - (n + 1 - k) = k
      BY <1>7
    <3> QED BY <1>11, <2>3, <3>1
  <2>5. CASE i = n + 1
    <3>1. n + 1 - k \in 1..(i - 1) /\ \A j \in i..(n + 1) : j = n + 1
      BY <1>7, <2>4, <2>5
    <3> QED BY <1>11, <2>2, <2>4, <3>1 DEF s
  <2>6. CASE i # n + 1
    <3>1. i \in 1..n /\ d = D[n + 1 - i] /\ n + 1 - i \in 1..n
      BY <1>7, <1>11, <1>12, <2>6 DEF d
    <3>2. \A m \in 1..n : D[m] = s => n + 1 - i < m
      BY <1>2, <1>7, <2>1, <3>1 DEF Ordered
    <3>3. n + 1 - i < k
      BY <2>3, <3>2
    <3>4. n + 1 - k \in 1..(i - 1)
      BY <1>7, <2>4, <3>1, <3>3
    <3>5. ASSUME NEW j \in i..(n + 1) PROVE s \notin b[j]
      <4>1. CASE j = n + 1
        BY <1>11, <2>2, <4>1
      <4>2. CASE j # n + 1
        <5>1. j \in 1..n /\ n + 1 - j \in 1..n /\ ~(n + 1 - i < n + 1 - j)
          BY <1>7, <3>1, <3>5, <4>2
        <5> QED BY <1>11, <3>2, <5>1
      <4> QED BY <4>1, <4>2
    <3> QED BY <2>4, <3>4, <3>5 DEF s
  <2> QED BY <2>5, <2>6
<1>13. Ahead(b, Waits("shutdown"), {})
  BY <1>11, <1>12 DEF Ahead
<1>14. \A i \in 1..(n + 1) : b[i] \subseteq N
  BY <1>7, <1>11
<1>15. ASSUME NEW s \in N PROVE \E i \in 1..(n + 1) : s \in b[i]
  <2>1. CASE s \in final
    <3>1. n + 1 \in 1..(n + 1)
      BY <1>7
    <3> QED BY <1>11, <2>1, <3>1
  <2>2. CASE s \notin final
    <3>1. s \in ToSet(D)
      BY <1>2, <1>3, <1>5, <2>2 DEF final
    <3>2. PICK k \in 1..n : D[k] = s
      BY <1>7, <3>1 DEF ToSet
    <3>3. n + 1 - k \in 1..n /\ n + 1 - (n + 1 - k) = k /\ n + 1 - k \in 1..(n + 1)
      BY <1>7
    <3> QED BY <1>11, <3>2, <3>3
  <2> QED BY <2>1, <2>2
<1>16. b \in Seq(SUBSET Services)
  BY <1>5, <1>11
<1> QED BY <1>11, <1>13, <1>14, <1>15, <1>16 DEF b, N

-----------------------------------------------------------------------------
(* The operations keep the order *)

\* The invariant says what the properties say.
LEMMA ServicesInvImplies == ServicesInv => ServicesInOrder
<1> SUFFICES ASSUME ServicesInv PROVE ServicesInOrder
  OBVIOUS
<1>1. /\ StartupTypeOK /\ OperationsAtStage /\ NobodyLeftOut
      /\ \A operation \in {"preInit", "init", "shutdown"} : Waited(operation)
      /\ running = "none" => pending = {} /\ todo = << >>
      /\ dependencies \in [Services -> SUBSET Services]
  BY Ranked DEF ServicesInv
<1>2. initialization \subseteq Services /\ shutdown \subseteq Services /\ created \subseteq Services
  BY <1>1 DEF StartupTypeOK
<1>3. DependenciesFirst
  <2> SUFFICES ASSUME NEW operation \in {"preInit", "init"}, NEW s \in initialization,
                      <<operation, s>> \in begun, NEW d \in dependencies[s] \cap initialization
               PROVE  Ended(operation, d)
    BY DEF DependenciesFirst
  <2>1. <<s, d>> \in Waits(operation) /\ s \in Begun(operation) /\ Waited(operation)
    BY <1>1, <1>2 DEF Waits, Begun
  <2>2. d \in Begun(operation) /\ (running = operation => d \notin pending)
    BY <2>1 DEF Waited
  <2> QED BY <2>2 DEF Ended, Begun
<1>4. DependentsFirst
  <2> SUFFICES ASSUME NEW s \in shutdown, NEW d \in shutdown, <<"shutdown", d>> \in begun,
                      d \in dependencies[s], <<"init", s>> \in begun
               PROVE  Ended("shutdown", s)
    BY DEF DependentsFirst
  <2>1. <<d, s>> \in Waits("shutdown") /\ d \in Begun("shutdown") /\ Waited("shutdown")
    BY <1>1, <1>2 DEF Waits, Begun
  <2>2. s \in Begun("shutdown") /\ (running = "shutdown" => s \notin pending)
    BY <2>1 DEF Waited
  <2> QED BY <2>2 DEF Ended, Begun
<1>5. DisposedBeforeCleared
  <2> SUFFICES ASSUME stage \in {"ended", "destroyed"}, ~rejected, running = "none",
                      NEW s \in Services
               PROVE  /\ <<"init", s>> \in begun \/ <<"shutdown", s>> \in begun => Ended("dispose", s)
                      /\ <<"init", s>> \in begun /\ s \in shutdown => Ended("shutdown", s)
    BY DEF DisposedBeforeCleared
  <2>1. ToCome = {}
    BY <1>1 DEF ToCome
  <2>2. /\ shutdown \cap Begun("init") \subseteq Begun("shutdown")
        /\ Begun("init") \cup Begun("shutdown") \subseteq Begun("dispose")
    BY <1>1, <2>1 DEF NobodyLeftOut
  <2> QED BY <2>2 DEF Ended, Begun
<1> QED BY <1>1, <1>3, <1>4, <1>5 DEF ServicesInOrder, DependencyOrder

\* Before the startup nothing was begun.
LEMMA ServicesInitially == StartupInit => ServicesInv
<1> SUFFICES ASSUME StartupInit PROVE ServicesInv
  OBVIOUS
<1>1. /\ dependencies \in AcyclicDependencies
      /\ initialization \subseteq Services /\ shutdown \subseteq Services
      /\ created = {} /\ running = "none" /\ todo = << >> /\ pending = {} /\ begun = {}
      /\ rejected = FALSE /\ stage = "modules" /\ failed = FALSE
      /\ nextPhase = "Init" /\ initialized = {} /\ shutdownCalls = [m \in 1..Modules |-> 0]
  BY DEF StartupInit, SpInit, MmInit
<1>2. StartupTypeOK
  <2>1. todo \in Seq(SUBSET Services)
    BY <1>1
  <2>2. shutdownCalls \in [1..Modules -> Nat]
    BY <1>1
  <2> QED BY <1>1, <2>1, <2>2 DEF StartupTypeOK
<1>3. ToCome = {} /\ \A operation : Begun(operation) = {}
  BY <1>1 DEF ToCome, Begun
<1>4. OperationsAtStage
  BY <1>1, <1>3 DEF OperationsAtStage
<1>5. NobodyLeftOut
  BY <1>1 DEF NobodyLeftOut
<1>6. \A operation \in {"preInit", "init", "shutdown"} : Waited(operation)
  BY <1>3 DEF Waited
<1>7. Ahead(todo, Waits(running), Begun(running))
  BY <1>1 DEF Ahead
<1> QED BY <1>1, <1>2, <1>3, <1>4, <1>5, <1>6, <1>7 DEF ServicesInv

\* Of the services only those may change that exist.
SameServices ==
  UNCHANGED <<dependencies, initialization, shutdown, running, todo, pending, begun, rejected>>

\* What the steps of the modules keep.
LEMMA SameServicesKeep ==
  ASSUME ServicesInv, SameServices, StartupTypeOK', created \subseteq created',
         OperationsAtStage', NobodyLeftOut'
  PROVE  ServicesInv'
<1>1. Services' = Services /\ ToCome' = ToCome /\ \A operation : Begun(operation)' = Begun(operation)
  BY DEF Services, SameServices, ToCome, Begun
<1>2. \A operation : Waits(operation)' = Waits(operation)
  BY <1>1 DEF SameServices, Waits
<1>3. \A operation \in {"preInit", "init", "shutdown"} : Waited(operation)'
  BY <1>1, <1>2 DEF ServicesInv, SameServices, Waited
<1>4. Ahead(todo, Waits(running), Begun(running))'
  BY <1>1, <1>2 DEF ServicesInv, SameServices, Ahead
<1>5. AcyclicDependencies' = AcyclicDependencies
  BY DEF AcyclicDependencies, Services
<1> QED BY <1>1, <1>3, <1>4, <1>5 DEF ServicesInv, SameServices

\* The operations that begin no batch: the modules' steps, asking for a service, and the
\* end of the operations at a stage.
LEMMA StagesKeepServices ==
  ASSUME ServicesInv,
         \/ ModulesInit \/ ModulesPostInit \/ Invalidate \/ ModulesShutdown \/ ManagerDestroyed
         \/ UNCHANGED startupVars
         \/ \E s \in Requested : stage \notin {"modules", "ended", "destroyed"} /\ Get(s)
                                 /\ UNCHANGED <<mmVars, stage, failed>>
  PROVE  ServicesInv'
<1>1. /\ StartupTypeOK /\ OperationsAtStage /\ NobodyLeftOut
  BY DEF ServicesInv
<1>2. SameServices /\ created \subseteq created' /\ created' \subseteq Services
  BY <1>1, RequestedAssumption
  DEF StartupTypeOK, SameServices, ModulesInit, ModulesPostInit, Invalidate, ModulesShutdown,
      ManagerDestroyed, Get, Create, interfaces, spVars, startupVars
<1>3. /\ Services' = Services /\ ToCome' = ToCome /\ \A operation : Begun(operation)' = Begun(operation)
      /\ begun = {} => \A operation : Begun(operation) = {}
  BY <1>2 DEF Services, SameServices, ToCome, Begun
<1>4. OperationsAtStage'
  BY <1>1, <1>2, <1>3
  DEF OperationsAtStage, SameServices, ModulesInit, ModulesPostInit, Invalidate, ModulesShutdown,
      ManagerDestroyed, Get, Goto, startupVars, spVars
<1>5. NobodyLeftOut'
  <2>1. stage' \in {"stopping", "ended", "destroyed"} => stage \in {"stopping", "ended", "destroyed"}
    BY DEF ModulesInit, ModulesPostInit, Invalidate, ModulesShutdown, ManagerDestroyed, Get, Goto, startupVars
  <2> QED BY <1>1, <1>2, <1>3, <2>1 DEF NobodyLeftOut, SameServices
<1>6. StartupTypeOK'
  <2>1. failed' \in BOOLEAN /\ stage' \in {"modules", "preInit", "init", "postInit", "active", "invalid",
                                            "stopping", "ended", "destroyed"}
    BY <1>1
    DEF StartupTypeOK, ModulesInit, ModulesPostInit, Invalidate, ModulesShutdown, ManagerDestroyed,
        Goto, startupVars
  <2>2. /\ nextPhase' \in {"Init", "PostInit", "Shutdown"} /\ initialized' \subseteq 1..Modules
        /\ shutdownCalls' \in [1..Modules -> Nat]
    <3> DEFINE Types(p, i, c) == p \in {"Init", "PostInit", "Shutdown"} /\ i \subseteq 1..Modules
                                 /\ c \in [1..Modules -> Nat]
    <3>1. Types(nextPhase, initialized, shutdownCalls)
      BY <1>1 DEF StartupTypeOK
    <3>2. \A final \in Nat : ShutdownUpTo(final) \in [1..Modules -> Nat]
      BY <3>1, ModulesAssumption DEF ShutdownUpTo
    <3>3. Modules \in Nat /\ \A n \in 0..Modules : 1..n \subseteq 1..Modules /\ n + 1 \in Nat
      BY ModulesAssumption
    <3>4. CASE UNCHANGED mmVars
      BY <3>1, <3>4 DEF mmVars
    <3>5. CASE ModulesInit
      BY <3>1, <3>2, <3>3, <3>5 DEF ModulesInit, InitModules
    <3>6. CASE ModulesPostInit
      BY <3>1, <3>2, <3>3, <3>6 DEF ModulesPostInit, PostInitModules
    <3>7. CASE ShutdownModules
      BY <3>1, <3>2, <3>3, <3>7 DEF ShutdownModules, mmVars
    <3> QED BY <3>4, <3>5, <3>6, <3>7
            DEF Invalidate, ModulesShutdown, ManagerDestroyed, startupVars, mmVars
  <2> QED BY <1>1, <1>2, <1>3, <2>1, <2>2 DEF StartupTypeOK, SameServices
<1> QED BY <1>2, <1>4, <1>5, <1>6, SameServicesKeep

\* An operation begins that has not begun before, with batches that are in order.
Begins(operation) ==
  /\ running' = operation /\ operation \in {"preInit", "init", "shutdown", "dispose"}
  /\ Begun(operation) = {} /\ pending = {}
  /\ UNCHANGED <<dependencies, initialization, shutdown, pending, begun, rejected>>
  /\ todo' \in Seq(SUBSET Services)
  /\ \A i \in 1..Len(todo') : todo'[i] \subseteq created'
  /\ operation \in {"preInit", "init"} => \A i \in 1..Len(todo') : todo'[i] \subseteq initialization
  /\ Ahead(todo', Waits(operation), {})
  /\ created \subseteq created' /\ created' \subseteq Services

\* Such an operation keeps the invariant.
LEMMA BeginningKeeps ==
  ASSUME ServicesInv, NEW operation, Begins(operation),
         OperationsAtStage', NobodyLeftOut', UNCHANGED <<mmVars, failed>>,
         stage' \in {"modules", "preInit", "init", "postInit", "active", "invalid", "stopping",
                     "ended", "destroyed"}
  PROVE  ServicesInv'
<1>1. Services' = Services /\ \A o : Begun(o)' = Begun(o)
  BY DEF Services, Begins, Begun
<1>2. \A o : Waits(o)' = Waits(o)
  BY <1>1 DEF Begins, Waits
<1>3. \A o \in {"preInit", "init", "shutdown"} : Waited(o)'
  <2> SUFFICES ASSUME NEW o \in {"preInit", "init", "shutdown"} PROVE Waited(o)'
    OBVIOUS
  <2>1. CASE o = operation
    BY <1>1, <2>1 DEF Begins, Waited
  <2>2. CASE o # operation
    BY <1>1, <1>2, <2>2 DEF Begins, Waited, ServicesInv
  <2> QED BY <2>1, <2>2
<1>4. Ahead(todo, Waits(running), Begun(running))'
  <2>1. Waits(running)' = Waits(operation) /\ Begun(running)' = {}
    BY <1>1, <1>2 DEF Begins, Waits, Begun
  <2> QED BY <2>1 DEF Begins, Ahead
<1>5. AcyclicDependencies' = AcyclicDependencies
  BY DEF AcyclicDependencies, Services
<1>6. ToCome' \subseteq created' /\ (operation \in {"preInit", "init"} => ToCome' \subseteq initialization)
  BY DEF Begins, ToCome
<1>7. StartupTypeOK'
  <2>1. pending' = {} /\ running' \in {"none", "preInit", "init", "shutdown", "dispose"}
    BY DEF Begins
  <2> QED BY <1>1, <2>1 DEF StartupTypeOK, ServicesInv, Begins, mmVars
<1> QED BY <1>1, <1>3, <1>4, <1>5, <1>6, <1>7 DEF ServicesInv, Begins

\* (Pre)initialisation is such an operation: both come at stages of their own.
LEMMA InitKeepsServices ==
  ASSUME ServicesInv, ServicesPreInit \/ ServicesInit
  PROVE  ServicesInv'
<1>1. PICK operation \in {"preInit", "init"} :
        /\ InitServices(operation) /\ UNCHANGED <<mmVars, failed>>
        /\ operation = "preInit" => stage = "preInit" /\ stage' = "init"
        /\ operation = "init" => stage = "init" /\ stage' = "postInit"
  BY DEF ServicesPreInit, ServicesInit, Goto
<1>2. /\ StartupTypeOK /\ OperationsAtStage /\ dependencies \in AcyclicDependencies
      /\ initialization \subseteq Services
  BY DEF ServicesInv, StartupTypeOK
<1>3. /\ running = "none" /\ pending = {} /\ running' = operation /\ todo' = InitBatches
      /\ created' = created \cup initialization
      /\ UNCHANGED <<dependencies, initialization, shutdown, pending, begun, rejected>>
  BY <1>1 DEF InitServices, Create, interfaces, ServicesInv
<1>4. Services' = Services /\ \A o : Begun(o)' = Begun(o)
  BY <1>3 DEF Services, Begun
<1>5. /\ Begun("shutdown") = {} /\ Begun("dispose") = {} /\ Begun(operation) = {}
      /\ operation = "preInit" => Begun("init") = {}
  BY <1>1, <1>2 DEF OperationsAtStage, Begun
<1>6. Begins(operation)
  <2>1. /\ InitBatches \in Seq(SUBSET Services)
        /\ \A i \in 1..Len(InitBatches) : InitBatches[i] \subseteq initialization
        /\ Ahead(InitBatches, Waits(operation), {})
    BY <1>2, InitBatchesAhead
  <2> HIDE DEF InitBatches
  <2> QED BY <1>2, <1>3, <1>5, <2>1 DEF Begins, StartupTypeOK
<1>7. OperationsAtStage'
  BY <1>1, <1>2, <1>3, <1>4, <1>5 DEF OperationsAtStage
<1>8. NobodyLeftOut'
  BY <1>1 DEF NobodyLeftOut
<1>9. stage' \in {"init", "postInit"}
  BY <1>1
<1> QED BY <1>1, <1>6, <1>7, <1>8, <1>9, BeginningKeeps

\* The shutdown has everybody in a batch who is there.
LEMMA ShutdownKeepsServices ==
  ASSUME ServicesInv, ServicesShutdown
  PROVE  ServicesInv'
<1>1. /\ stage = "active" /\ stage' = "stopping" /\ UNCHANGED <<mmVars, failed>>
      /\ running = "none" /\ running' = "shutdown" /\ todo' = ShutdownBatches
      /\ UNCHANGED <<dependencies, initialization, shutdown, created, pending, begun, rejected>>
  BY DEF ServicesShutdown, Goto, ShutdownServices, interfaces
<1>2. /\ StartupTypeOK /\ OperationsAtStage /\ dependencies \in AcyclicDependencies
      /\ initialization \subseteq Services /\ shutdown \subseteq Services /\ created \subseteq Services
      /\ Begun("init") \subseteq initialization \cap created
  BY DEF ServicesInv, StartupTypeOK, Begun
<1>3. Services' = Services /\ \A o : Begun(o)' = Begun(o)
  BY <1>1 DEF Services, Begun
<1>4. Begun("shutdown") = {} /\ Begun("dispose") = {}
  BY <1>1, <1>2 DEF OperationsAtStage
<1>5. /\ ShutdownBatches \in Seq(SUBSET Services)
      /\ \A i \in 1..Len(ShutdownBatches) : ShutdownBatches[i] \subseteq shutdown \cap created
      /\ \A s \in shutdown \cap created :
           \E i \in 1..Len(ShutdownBatches) : s \in ShutdownBatches[i]
      /\ Ahead(ShutdownBatches, Waits("shutdown"), {})
  BY <1>2, ShutdownBatchesAhead
<1> HIDE DEF ShutdownBatches
<1>6. Begins("shutdown")
  BY <1>1, <1>2, <1>4, <1>5 DEF Begins, ServicesInv
<1>7. OperationsAtStage'
  BY <1>1, <1>2, <1>3, <1>4 DEF OperationsAtStage
<1>8. NobodyLeftOut'
  <2>1. shutdown \cap created \subseteq ToCome'
    BY <1>1, <1>2, <1>3, <1>5 DEF ToCome
  <2>2. shutdown \cap Begun("init") \subseteq shutdown \cap created
    BY <1>2
  <2> QED BY <1>1, <1>3, <2>1, <2>2 DEF NobodyLeftOut
<1> QED BY <1>1, <1>6, <1>7, <1>8, BeginningKeeps

\* What is disposed includes all that anything was begun on.
LEMMA DisposeKeepsServices ==
  ASSUME ServicesInv, DisposeServices, UNCHANGED <<mmVars, stage, failed>>
  PROVE  ServicesInv'
<1>1. /\ running = "shutdown" /\ running' = "dispose" /\ todo = << >> /\ todo' = <<created>>
      /\ UNCHANGED <<dependencies, initialization, shutdown, created, pending, begun, rejected>>
      /\ pending = {}
  BY DEF DisposeServices, interfaces
<1>2. /\ StartupTypeOK /\ OperationsAtStage /\ NobodyLeftOut /\ created \subseteq Services
      /\ begun \subseteq {"preInit", "init", "shutdown", "dispose"} \X created
  BY DEF ServicesInv, StartupTypeOK
<1>3. Services' = Services /\ \A o : Begun(o)' = Begun(o)
  BY <1>1 DEF Services, Begun
<1>4. Begun("dispose") = {} /\ stage \in {"stopping", "ended", "destroyed"}
  BY <1>1, <1>2 DEF OperationsAtStage, StartupTypeOK
<1>5. /\ Len(<<created>>) = 1 /\ <<created>>[1] = created
      /\ <<created>> \in Seq(SUBSET Services)
  BY <1>2
<1>6. Begins("dispose")
  <2>1. Waits("dispose") = {}
    BY DEF Waits
  <2> QED BY <1>1, <1>2, <1>4, <1>5, <2>1 DEF Begins, Ahead
<1>7. OperationsAtStage'
  BY <1>1, <1>2, <1>3, <1>4 DEF OperationsAtStage
<1>8. NobodyLeftOut'
  <2>1. ToCome = {} /\ ToCome' = created
    BY <1>1, <1>2, <1>3, <1>5 DEF ToCome
  <2>2. ~rejected => shutdown \cap Begun("init") \subseteq Begun("shutdown")
    BY <1>1, <1>2, <1>4, <2>1 DEF NobodyLeftOut
  <2>3. Begun("init") \cup Begun("shutdown") \subseteq created
    BY <1>2 DEF Begun
  <2> QED BY <1>1, <1>3, <2>1, <2>2, <2>3 DEF NobodyLeftOut
<1>9. stage' \in {"stopping", "ended", "destroyed"}
  BY <1>4
<1> QED BY <1>6, <1>7, <1>8, <1>9, BeginningKeeps

\* The next batch begins.
LEMMA BatchKeepsServices ==
  ASSUME ServicesInv, NextBatch, UNCHANGED <<mmVars, stage, failed>>
  PROVE  ServicesInv'
<1> DEFINE b == Head(todo)
<1>1. /\ running # "none" /\ pending = {} /\ todo # << >> /\ pending' = b /\ todo' = Tail(todo)
      /\ begun' = begun \cup ({running} \X b)
      /\ UNCHANGED <<dependencies, initialization, shutdown, created, running, rejected>>
  BY DEF NextBatch, interfaces
<1>2. /\ StartupTypeOK /\ OperationsAtStage /\ NobodyLeftOut /\ created \subseteq Services
      /\ todo \in Seq(SUBSET Services) /\ ToCome \subseteq created
      /\ running \in {"preInit", "init", "shutdown", "dispose"}
      /\ begun \subseteq {"preInit", "init", "shutdown", "dispose"} \X created
  BY <1>1 DEF ServicesInv, StartupTypeOK
<1>3. /\ Len(todo) \in Nat /\ 1 \in 1..Len(todo) /\ b = todo[1] /\ b \in SUBSET Services
      /\ Tail(todo) \in Seq(SUBSET Services) /\ Len(Tail(todo)) = Len(todo) - 1
      /\ \A i \in 1..(Len(todo) - 1) : i + 1 \in 1..Len(todo) /\ Tail(todo)[i] = todo[i + 1]
      /\ \A i \in 1..Len(todo) : i = 1 \/ i - 1 \in 1..(Len(todo) - 1)
  BY <1>1, <1>2, ListFacts
<1>4. Services' = Services
  BY DEF Services
<1> HIDE DEF b
<1>5. \A o : Begun(o)' = IF o = running THEN Begun(o) \cup b ELSE Begun(o)
  BY <1>1, <1>3, <1>4 DEF Begun
<1>6. ToCome' \subseteq ToCome /\ b \subseteq ToCome /\ ToCome = ToCome' \cup b
  <2>1. ToCome' \subseteq ToCome /\ b \subseteq ToCome
    BY <1>1, <1>3, <1>4 DEF ToCome
  <2>2. ASSUME NEW s \in ToCome, s \notin b PROVE s \in ToCome'
    <3>1. PICK i \in 1..Len(todo) : s \in todo[i]
      BY <2>2 DEF ToCome
    <3>2. i # 1 /\ i - 1 \in 1..(Len(todo) - 1) /\ (i - 1) + 1 = i
      BY <1>3, <2>2, <3>1
    <3>3. s \in Tail(todo)[i - 1] /\ i - 1 \in 1..Len(Tail(todo))
      BY <1>3, <3>1, <3>2
    <3> QED BY <1>1, <1>4, <2>2, <3>3 DEF ToCome
  <2> QED BY <2>1, <2>2
<1>7. \A o : Waits(o)' = Waits(o) \/ (o = "shutdown" /\ running = "init")
  BY <1>1, <1>4, <1>5 DEF Waits
<1>8. running = "init" => Begun("shutdown")' = {}
  BY <1>2, <1>5 DEF OperationsAtStage, StartupTypeOK
<1>9. /\ Ahead(Tail(todo), Waits(running), Begun(running) \cup b)
      /\ \A p \in Waits(running) : p[1] \in b =>
           p[2] \in Begun(running) /\ p[2] \notin b /\ \A i \in 1..Len(Tail(todo)) : p[2] \notin Tail(todo)[i]
  BY <1>1, <1>2, NextAhead DEF ServicesInv, b
<1>10. \A o \in {"preInit", "init", "shutdown"} : Waited(o)'
  <2> SUFFICES ASSUME NEW o \in {"preInit", "init", "shutdown"}, NEW p \in Waits(o)', p[1] \in Begun(o)'
               PROVE  /\ p[2] \in Begun(o)'
                      /\ running' = o => p[2] \notin pending' /\ \A i \in 1..Len(todo') : p[2] \notin todo'[i]
    BY DEF Waited
  <2>0. Waited(o)
    BY DEF ServicesInv
  <2>1. CASE o = "shutdown" /\ running = "init"
    BY <1>8, <2>1
  <2>2. CASE ~(o = "shutdown" /\ running = "init") /\ o # running
    <3>1. p \in Waits(o) /\ p[1] \in Begun(o) /\ running' # o
      BY <1>1, <1>5, <1>7, <2>2
    <3> QED BY <1>5, <2>0, <2>2, <3>1 DEF Waited
  <2>3. CASE ~(o = "shutdown" /\ running = "init") /\ o = running
    <3>1. p \in Waits(o) /\ p[1] \in Begun(o) \cup b
      BY <1>5, <1>7, <2>3
    <3>2. CASE p[1] \in b
      BY <1>1, <1>5, <1>9, <2>3, <3>1, <3>2
    <3>3. CASE p[1] \in Begun(o)
      <4>1. p[2] \in Begun(o) /\ \A i \in 1..Len(todo) : p[2] \notin todo[i]
        BY <2>0, <2>3, <3>1, <3>3 DEF Waited
      <4>2. p[2] \notin b /\ \A i \in 1..Len(Tail(todo)) : p[2] \notin Tail(todo)[i]
        BY <1>3, <4>1
      <4> QED BY <1>1, <1>5, <2>3, <4>1, <4>2
    <3> QED BY <3>1, <3>2, <3>3
  <2> QED BY <2>1, <2>2, <2>3
<1>11. Ahead(todo, Waits(running), Begun(running))'
  <2>1. Waits(running)' = Waits(running) /\ Begun(running)' = Begun(running) \cup b
    BY <1>1, <1>4, <1>5, <1>7 DEF Waits, Begun
  <2>2. Ahead(todo', Waits(running)', Begun(running)')
    BY <1>1, <1>9, <2>1
  <2> QED BY <2>2 DEF Ahead
<1>12. OperationsAtStage'
  BY <1>1, <1>2, <1>5 DEF OperationsAtStage, StartupTypeOK
<1>13. NobodyLeftOut'
  <2> SUFFICES ASSUME stage \in {"stopping", "ended", "destroyed"}, ~rejected PROVE NobodyLeftOut'
    BY <1>1 DEF NobodyLeftOut
  <2>1. running \in {"shutdown", "dispose"}
    BY <1>1, <1>2 DEF OperationsAtStage
  <2>2. Begun("init")' = Begun("init")
    BY <1>5, <2>1
  <2>3. CASE running = "shutdown"
    <3>1. Begun("shutdown")' = Begun("shutdown") \cup b
      BY <1>5, <2>3
    <3> QED BY <1>1, <1>2, <1>6, <2>2, <2>3, <3>1 DEF NobodyLeftOut
  <2>4. CASE running = "dispose"
    <3>1. Begun("shutdown")' = Begun("shutdown") /\ Begun("dispose")' = Begun("dispose") \cup b
      BY <1>5, <2>4
    <3> QED BY <1>1, <1>2, <1>6, <2>2, <2>4, <3>1 DEF NobodyLeftOut
  <2> QED BY <2>1, <2>3, <2>4
<1>14. StartupTypeOK'
  <2>1. b \subseteq created /\ \A s \in b : <<running, s>> \in begun'
    BY <1>1, <1>2, <1>6
  <2> QED BY <1>1, <1>2, <1>3, <1>4, <2>1 DEF StartupTypeOK, mmVars
<1>15. begun' \subseteq {"preInit", "init", "shutdown", "dispose"} \X created
  BY <1>1, <1>2, <1>6
<1>16. Begun("preInit")' \cup Begun("init")' \subseteq initialization
  BY <1>5, <1>6 DEF ServicesInv
<1>17. dependencies' \in AcyclicDependencies'
  BY <1>1, <1>4 DEF ServicesInv, AcyclicDependencies
<1> QED BY <1>1, <1>2, <1>6, <1>10, <1>11, <1>12, <1>13, <1>14, <1>15, <1>16, <1>17 DEF ServicesInv

\* Nothing begins, and what is awaited or is to come only gets less.
LEMMA EndingKeepsServices ==
  ASSUME ServicesInv,
         Return \/ (\E s \in Services : TaskDone(s) \/ TaskRejected(s)),
         UNCHANGED <<mmVars, stage, failed>>
  PROVE  ServicesInv'
<1>1. /\ UNCHANGED <<dependencies, initialization, shutdown, created, begun>>
      /\ pending' \subseteq pending /\ todo' \in {todo, << >>} /\ running' \in {running, "none"}
      /\ running' = running => todo' = todo /\ rejected' = rejected
      /\ running' = "none" => pending' = {} /\ todo' = << >>
      /\ running' = "none" => rejected' \/ (running # "shutdown" /\ todo = << >> /\ rejected' = rejected)
                              \/ (running = "none" /\ rejected' = rejected)
      /\ rejected' \in {rejected, TRUE}
  BY DEF Return, TaskDone, TaskRejected, interfaces, ServicesInv
<1>2. /\ Services' = Services /\ ToCome' \subseteq ToCome /\ \A o : Begun(o)' = Begun(o)
  <2>1. Services' = Services /\ \A o : Begun(o)' = Begun(o)
    BY <1>1 DEF Services, Begun
  <2> QED BY <1>1, <2>1 DEF ToCome
<1>3. \A o : Waits(o)' = Waits(o)
  BY <1>1, <1>2 DEF Waits
<1>4. /\ StartupTypeOK /\ OperationsAtStage /\ NobodyLeftOut
  BY DEF ServicesInv
<1>5. StartupTypeOK'
  <2>1. todo' \in Seq(SUBSET Services)
    <3>1. << >> \in Seq(SUBSET Services)
      OBVIOUS
    <3> QED BY <1>1, <1>4, <3>1 DEF StartupTypeOK
  <2>2. pending' \subseteq {s \in created : <<running', s>> \in begun}
    BY <1>1, <1>4 DEF StartupTypeOK
  <2>3. running' \in {"none", "preInit", "init", "shutdown", "dispose"} /\ rejected' \in BOOLEAN
    BY <1>1, <1>4 DEF StartupTypeOK
  <2> QED BY <1>1, <1>2, <1>4, <2>1, <2>2, <2>3 DEF StartupTypeOK, mmVars
<1>6. OperationsAtStage'
  BY <1>1, <1>2, <1>4 DEF OperationsAtStage
<1>7. NobodyLeftOut'
  <2>1. CASE running' = running
    <3>1. ToCome' = ToCome
      BY <1>1, <1>2, <2>1 DEF ToCome
    <3> QED BY <1>1, <1>2, <1>4, <2>1, <3>1 DEF NobodyLeftOut
  <2>2. CASE running' # running
    <3>1. running' = "none" /\ (rejected' \/ (running # "shutdown" /\ todo = << >> /\ rejected' = rejected))
      BY <1>1, <2>2
    <3>2. CASE rejected'
      BY <3>2 DEF NobodyLeftOut
    <3>3. CASE running # "shutdown" /\ todo = << >> /\ rejected' = rejected
      <4>1. ToCome = {}
        BY <3>3 DEF ToCome
      <4> QED BY <1>1, <1>2, <1>4, <3>1, <3>3, <4>1 DEF NobodyLeftOut
    <3> QED BY <3>1, <3>2, <3>3
  <2> QED BY <2>1, <2>2
<1>8. ASSUME NEW o \in {"preInit", "init", "shutdown"} PROVE Waited(o)'
  <2>1. Waited(o)
    BY DEF ServicesInv
  <2>2. running' = o => running = o /\ todo' = todo
    BY <1>1
  <2> QED BY <1>1, <1>2, <1>3, <2>1, <2>2 DEF Waited
<1>9. Ahead(todo, Waits(running), Begun(running))'
  <2>1. CASE running' = running /\ todo' = todo
    <3>1. Waits(running)' = Waits(running) /\ Begun(running)' = Begun(running)
      BY <1>1, <1>2, <1>3, <2>1 DEF Waits, Begun
    <3> QED BY <2>1, <3>1 DEF ServicesInv, Ahead
  <2>2. CASE todo' = << >>
    BY <2>2 DEF Ahead
  <2> QED BY <1>1, <2>1, <2>2
<1>10. dependencies' \in AcyclicDependencies'
  BY <1>1, <1>2 DEF ServicesInv, AcyclicDependencies
<1> QED BY <1>1, <1>2, <1>5, <1>6, <1>7, <1>8, <1>9, <1>10 DEF ServicesInv

\* The services are initialised after all that they depend on and shut down before, and
\* unless one fails, all are shut down and disposed that were begun on, before they are
\* destroyed, whatever they depend on and whoever asks for them meanwhile.
THEOREM ServicesKeepOrder == StartupSpec => []ServicesInOrder
<1>1. ServicesInv /\ [StartupNext]_startupVars => ServicesInv'
  <2> SUFFICES ASSUME ServicesInv, [StartupNext]_startupVars PROVE ServicesInv'
    OBVIOUS
  <2>1. CASE ServicesPreInit \/ ServicesInit
    BY <2>1, InitKeepsServices
  <2>2. CASE ServicesShutdown
    BY <2>2, ShutdownKeepsServices
  <2>3. CASE StillPolled /\ ServiceCalls /\ UNCHANGED <<mmVars, stage, failed>>
    BY <2>3, BatchKeepsServices, DisposeKeepsServices, EndingKeepsServices DEF ServiceCalls
  <2>4. CASE \/ ModulesInit \/ ModulesPostInit \/ Invalidate \/ ModulesShutdown \/ ManagerDestroyed
             \/ UNCHANGED startupVars
             \/ \E s \in Requested : stage \notin {"modules", "ended", "destroyed"} /\ Get(s)
                                     /\ UNCHANGED <<mmVars, stage, failed>>
    BY <2>4, StagesKeepServices
  <2> QED BY <2>1, <2>2, <2>3, <2>4 DEF StartupNext, AppSteps
<1> QED BY <1>1, ServicesInitially, ServicesInvImplies, PTL DEF StartupSpec

-----------------------------------------------------------------------------
(* The coroutines *)

Places == {"new", "running", "calling", "suspending", "subscribing", "waiting", "posted",
           "dying", "promise", "leaving", "gone"}

CoroTypeOK ==
  /\ at \in [Coros -> Places] /\ caller \in [Coros -> Coros \cup {None}]
  /\ holder \in [Tasks -> Coros \cup {Source, None}]
  /\ outcome \in [Tasks -> Tasks \cup {None, "value", Cancelled}]
  /\ continuation \in [Tasks -> Coros \cup {None}]
  /\ awaiting \in [Coros -> [on : Tasks \cup {None, Delay, Expiration}, try : BOOLEAN]]
  /\ errorOnDestroy \in [Coros -> Tasks \cup {None, Cancelled}]
  /\ taken \subseteq Tasks /\ rested \subseteq Coros /\ installing \subseteq Coros

\* Somebody waits for the first suspension of d, or for its end.
Pending(d) == caller[d] # None /\ (d \in installing \/ at[d] # "gone")

\* Who waits so does nothing else, and for one coroutine only.
CallersInv ==
  /\ \A d \in Coros : Pending(d) => at[caller[d]] = "calling"
  /\ \A d, e \in Coros : Pending(d) /\ Pending(e) /\ caller[d] = caller[e] => d = e

\* What a coroutine awaits, by where it is; one that is posted awaits no task
\* that is still pending.
AwaitInv ==
  \A c \in Coros :
    /\ at[c] \in {"new", "running", "calling"} => awaiting[c] = Nothing
    /\ at[c] = "suspending" => awaiting[c].on \in Tasks /\ holder[awaiting[c].on] # Source
    /\ at[c] = "subscribing" => awaiting[c].on = Expiration
    /\ at[c] = "posted" /\ awaiting[c].on \in Tasks => Ready(awaiting[c].on)
    /\ awaiting[c].on \notin Tasks => ~awaiting[c].try

\* Who is to continue after a pending task waits for it; a task that its source has
\* not given out yet has no continuation.
ContinuationInv ==
  \A t \in Tasks :
    /\ holder[t] = Source => continuation[t] = None
    /\ ~Ready(t) /\ continuation[t] # None =>
         at[continuation[t]] = "waiting" /\ awaiting[continuation[t]].on = t

\* A coroutine that is destroyed was not waiting by doTry(), and the error kept
\* for its promise is that of what it waited for.
ErrorInv ==
  \A c \in Coros : at[c] \in {"dying", "promise"} =>
    /\ ~awaiting[c].try
    /\ IF awaiting[c].on = Delay THEN errorOnDestroy[c] = Cancelled
       ELSE /\ awaiting[c].on \in Tasks /\ Failed(awaiting[c].on)
            /\ errorOnDestroy[c] = outcome[awaiting[c].on]

\* A coroutine with an outcome only leaves, and a value that was taken was there.
OutcomeInv ==
  /\ \A c \in Coros : Ready(c) => at[c] \in {"leaving", "gone"}
  /\ ValuesAreThere

CoroInv ==
  /\ CoroTypeOK /\ CallersInv /\ AwaitInv /\ ContinuationInv /\ ErrorInv /\ OutcomeInv

\* Whom a coroutine frees is still calling it.
LEMMA FreedAreCalling ==
  ASSUME CorosAssumption, CoroInv, NEW c \in Coros, at[c] # "gone", NEW x \in Coros,
         x \in Freed(c)
  PROVE  at[x] = "calling" /\ caller[c] = x /\ c \notin installing
  BY DEF CorosAssumption, Tasks, CoroInv, CoroTypeOK, CallersInv, Pending, Freed

\* Whom a task that is still pending wakes awaits it.
LEMMA WokenAreWaiting ==
  ASSUME CorosAssumption, CoroInv, NEW t \in Tasks, ~Ready(t), NEW x \in Coros, x \in Woken(t)
  PROVE  at[x] = "waiting" /\ awaiting[x].on = t
  BY DEF CorosAssumption, Tasks, CoroInv, ContinuationInv, Woken

\* A call: the caller waits for one coroutine only, which is new.
LEMMA CallKeeps ==
  ASSUME CorosAssumption, CoroInv, NEW c \in Coros, NEW d \in Coros, Call(c, d)
  PROVE  CoroInv'
<1>1. CoroTypeOK'
  BY DEF Call, CoroInv, CoroTypeOK, Places
<1>2. CallersInv'
  BY DEF Call, CoroInv, CallersInv, CoroTypeOK, Pending
<1>3. AwaitInv'
  BY DEF Call, CoroInv, CorosAssumption, Tasks, AwaitInv, CoroTypeOK, Ready
<1>4. ContinuationInv'
  BY DEF Call, CoroInv, CorosAssumption, Tasks, ContinuationInv, CoroTypeOK, Ready
<1>5. ErrorInv'
  BY DEF Call, CoroInv, ErrorInv, CoroTypeOK, Failed
<1>6. OutcomeInv'
  BY DEF Call, CoroInv, OutcomeInv, CoroTypeOK, ValuesAreThere, Ready
<1> QED
  BY <1>1, <1>2, <1>3, <1>4, <1>5, <1>6 DEF CoroInv

\* A task that a coroutine gets has no continuation yet.
LEMMA GetTaskKeeps ==
  ASSUME CorosAssumption, CoroInv, NEW c \in Coros, NEW s \in Sources, GetTask(c, s)
  PROVE  CoroInv'
<1>1. CoroTypeOK'
  BY DEF GetTask, CoroInv, CoroTypeOK
<1>2. CallersInv'
  BY DEF GetTask, CoroInv, CallersInv, Pending
<1>3. AwaitInv'
  BY DEF GetTask, CoroInv, AwaitInv, Ready
<1>4. ContinuationInv'
  BY DEF GetTask, CoroInv, ContinuationInv, Ready
<1>5. ErrorInv'
  BY DEF GetTask, CoroInv, ErrorInv, Failed
<1>6. OutcomeInv'
  BY DEF GetTask, CoroInv, OutcomeInv, ValuesAreThere, Ready
<1> QED
  BY <1>1, <1>2, <1>3, <1>4, <1>5, <1>6 DEF CoroInv

\* Neither has one that is made settled, so that nobody is to be woken.
LEMMA MakeTaskKeeps ==
  ASSUME CorosAssumption, CoroInv, NEW c \in Coros, NEW s \in Sources, MakeTask(c, s)
  PROVE  CoroInv'
<1>1. CoroTypeOK'
  BY DEF MakeTask, Settle, CoroInv, Tasks, CoroTypeOK
<1>2. CallersInv'
  BY DEF MakeTask, CoroInv, CallersInv, Pending
<1>3. AwaitInv'
  BY DEF MakeTask, Settle, CoroInv, AwaitInv, Ready
<1>4. ContinuationInv'
  BY DEF MakeTask, Settle, CoroInv, ContinuationInv, Ready
<1>5. ErrorInv'
  BY DEF MakeTask, Settle, CoroInv, ErrorInv, Failed
<1>6. OutcomeInv'
  BY DEF MakeTask, Settle, CoroInv, CorosAssumption, OutcomeInv, ValuesAreThere, Ready
<1> QED
  BY <1>1, <1>2, <1>3, <1>4, <1>5, <1>6 DEF CoroInv

\* A task that goes is awaited by nobody.
LEMMA DetachKeeps ==
  ASSUME CorosAssumption, CoroInv, NEW c \in Coros, NEW t \in Tasks, Detach(c, t)
  PROVE  CoroInv'
<1>1. CoroTypeOK'
  BY DEF Detach, CoroInv, CoroTypeOK
<1>2. CallersInv'
  BY DEF Detach, CoroInv, CallersInv, Pending
<1>3. AwaitInv'
  BY DEF Detach, CoroInv, CorosAssumption, AwaitInv, Ready
<1>4. ContinuationInv'
  BY DEF Detach, CoroInv, CorosAssumption, ContinuationInv, Ready
<1>5. ErrorInv'
  BY DEF Detach, CoroInv, ErrorInv, Failed
<1>6. OutcomeInv'
  BY DEF Detach, CoroInv, OutcomeInv, ValuesAreThere, Ready
<1> QED
  BY <1>1, <1>2, <1>3, <1>4, <1>5, <1>6 DEF CoroInv

\* A coroutine that awaits takes a value that is there, or begins to suspend.
LEMMA AwaitKeeps ==
  ASSUME CorosAssumption, CoroInv, NEW c \in Coros, NEW t \in Tasks, Await(c, t)
  PROVE  CoroInv'
<1>1. CoroTypeOK'
  BY DEF Await, CoroInv, Tasks, CoroTypeOK, Places
<1>2. CallersInv'
  BY DEF Await, CoroInv, CallersInv, CoroTypeOK, Pending
<1>3. AwaitInv'
  <2>1. PICK try \in BOOLEAN :
          IF AwaitReady(t, try) THEN UNCHANGED <<at, awaiting>>
          ELSE /\ at' = [at EXCEPT ![c] = "suspending"]
               /\ awaiting' = [awaiting EXCEPT ![c] = [on |-> t, try |-> try]]
    BY DEF Await
  <2>2. holder' = [holder EXCEPT ![t] = None] /\ UNCHANGED outcome
    BY DEF Await
  <2> USE DEF CoroInv, CorosAssumption, Tasks, AwaitInv, CoroTypeOK, Nothing, Ready
  <2>3. CASE UNCHANGED <<at, awaiting>>
    BY <2>2, <2>3
  <2>4. CASE /\ at' = [at EXCEPT ![c] = "suspending"]
             /\ awaiting' = [awaiting EXCEPT ![c] = [on |-> t, try |-> try]]
    BY <2>2, <2>4
  <2> QED
    BY <2>1, <2>3, <2>4
<1>4. ContinuationInv'
  BY DEF Await, CoroInv, CorosAssumption, ContinuationInv, CoroTypeOK, Ready
<1>5. ErrorInv'
  BY DEF Await, CoroInv, ErrorInv, CoroTypeOK, Failed
<1>6. OutcomeInv'
  BY DEF Await, AwaitReady, CoroInv, OutcomeInv, CoroTypeOK, ValuesAreThere, Ready, Failed
<1> QED
  BY <1>1, <1>2, <1>3, <1>4, <1>5, <1>6 DEF CoroInv

\* A coroutine that is rejected while it suspends wakes who awaits it.
LEMMA SuspendFailedKeeps ==
  ASSUME CorosAssumption, CoroInv, NEW c \in Coros, SuspendFailed(c)
  PROVE  CoroInv'
<1>b. ~Ready(c) /\ \A x \in Coros : x \in Woken(c) => at[x] = "waiting" /\ awaiting[x].on = c
  BY WokenAreWaiting DEF SuspendFailed, CoroInv, OutcomeInv, Tasks
<1>1. CoroTypeOK'
  BY DEF SuspendFailed, AwaitedFailed, Settle, CoroInv, CoroTypeOK, Move, Places
<1>2. CallersInv'
  BY <1>b DEF SuspendFailed, CoroInv, CallersInv, CoroTypeOK, Pending, Move
<1>3. AwaitInv'
  BY <1>b DEF SuspendFailed, AwaitedFailed, Settle, CoroInv, AwaitInv, CoroTypeOK, Ready, Move,
         Failed
<1>4. ContinuationInv'
  BY <1>b DEF SuspendFailed, AwaitedFailed, Settle, CoroInv, ContinuationInv, CoroTypeOK,
         Ready, Move, Failed
<1>5. ErrorInv'
  BY DEF SuspendFailed, Settle, CoroInv, ErrorInv, Failed, Move
<1>6. OutcomeInv'
  BY <1>b DEF SuspendFailed, Settle, CoroInv, CorosAssumption, OutcomeInv, ValuesAreThere,
         Ready, Move
<1> QED
  BY <1>1, <1>2, <1>3, <1>4, <1>5, <1>6 DEF CoroInv

\* A coroutine that suspends frees its caller, and becomes the continuation.
LEMMA SuspendKeeps ==
  ASSUME CorosAssumption, CoroInv, NEW c \in Coros, Suspend(c)
  PROVE  CoroInv'
<1>a. \A x \in Coros : x \in Freed(c) => at[x] = "calling" /\ caller[c] = x /\ c \notin installing
  BY FreedAreCalling DEF Suspend
<1>1. CoroTypeOK'
  BY DEF Suspend, CoroInv, CoroTypeOK, Move, Places
<1>2. CallersInv'
  BY DEF Suspend, CoroInv, CorosAssumption, Tasks, CallersInv, CoroTypeOK, Pending, Move, Freed
<1>3. AwaitInv'
  BY <1>a DEF Suspend, CoroInv, AwaitInv, Ready, Move
<1>4. ContinuationInv'
  BY <1>a DEF Suspend, CoroInv, ContinuationInv, CoroTypeOK, AwaitInv, Ready, Move
<1>5. ErrorInv'
  BY DEF Suspend, CoroInv, ErrorInv, Failed, Move
<1>6. OutcomeInv'
  BY <1>a DEF Suspend, CoroInv, OutcomeInv, ValuesAreThere, Ready, Move
<1> QED
  BY <1>1, <1>2, <1>3, <1>4, <1>5, <1>6 DEF CoroInv

\* The error that is kept for the promise is that of the awaited task.
LEMMA ContinueFailedKeeps ==
  ASSUME CorosAssumption, CoroInv, NEW c \in Coros, ContinueFailed(c)
  PROVE  CoroInv'
<1>1. CoroTypeOK'
  BY DEF ContinueFailed, AwaitedFailed, CoroInv, CoroTypeOK, Places, Failed
<1>2. CallersInv'
  BY DEF ContinueFailed, CoroInv, CallersInv, Pending
<1>3. AwaitInv'
  BY DEF ContinueFailed, CoroInv, AwaitInv, Ready
<1>4. ContinuationInv'
  BY DEF ContinueFailed, CoroInv, ContinuationInv, Ready
<1>5. ErrorInv'
  BY DEF ContinueFailed, AwaitedFailed, CoroInv, CorosAssumption, ErrorInv, CoroTypeOK, Failed
<1>6. OutcomeInv'
  BY DEF ContinueFailed, CoroInv, OutcomeInv, ValuesAreThere, Ready
<1> QED
  BY <1>1, <1>2, <1>3, <1>4, <1>5, <1>6 DEF CoroInv

\* A coroutine that was posted, and goes on, takes a value that is there.
LEMMA ContinueKeeps ==
  ASSUME CorosAssumption, CoroInv, NEW c \in Coros, Continue(c)
  PROVE  CoroInv'
<1>1. CoroTypeOK'
  BY DEF Continue, CoroInv, CoroTypeOK, Places, Nothing
<1>2. CallersInv'
  BY DEF Continue, CoroInv, CallersInv, Pending
<1>3. AwaitInv'
  BY DEF Continue, CoroInv, AwaitInv, CoroTypeOK, Nothing, Ready
<1>4. ContinuationInv'
  BY DEF Continue, CoroInv, ContinuationInv, Ready
<1>5. ErrorInv'
  BY DEF Continue, CoroInv, ErrorInv, Failed
<1>6. OutcomeInv'
  BY DEF Continue, AwaitedFailed, CoroInv, OutcomeInv, ValuesAreThere, Ready, Failed, AwaitInv
<1> QED
  BY <1>1, <1>2, <1>3, <1>4, <1>5, <1>6 DEF CoroInv

\* A coroutine that ends settles its task for the first time.
LEMMA FinishWithKeeps ==
  ASSUME CorosAssumption, CoroInv, NEW c \in Coros, NEW result \in {"value", c}, FinishWith(c,
         result)
  PROVE  CoroInv'
<1>b. ~Ready(c) /\ \A x \in Coros : x \in Woken(c) => at[x] = "waiting" /\ awaiting[x].on = c
  BY WokenAreWaiting DEF FinishWith, CoroInv, OutcomeInv, Tasks
<1>1. CoroTypeOK'
  BY DEF FinishWith, Settle, CoroInv, Tasks, CoroTypeOK, Move, Places
<1>2. CallersInv'
  BY <1>b DEF FinishWith, CoroInv, CallersInv, CoroTypeOK, Pending, Move
<1>3. AwaitInv'
  BY <1>b DEF FinishWith, Settle, CoroInv, CorosAssumption, AwaitInv, CoroTypeOK, Ready, Move
<1>4. ContinuationInv'
  BY <1>b DEF FinishWith, Settle, CoroInv, CorosAssumption, ContinuationInv, CoroTypeOK, Ready,
         Move
<1>5. ErrorInv'
  BY DEF FinishWith, Settle, CoroInv, ErrorInv, Failed, Move
<1>6. OutcomeInv'
  BY <1>b DEF FinishWith, Settle, CoroInv, CorosAssumption, OutcomeInv, ValuesAreThere, Ready,
         Move
<1> QED
  BY <1>1, <1>2, <1>3, <1>4, <1>5, <1>6 DEF CoroInv

\* The frame that goes frees who still waits for its first suspension.
LEMMA LeaveKeeps ==
  ASSUME CorosAssumption, CoroInv, NEW c \in Coros, Leave(c)
  PROVE  CoroInv'
<1>a. \A x \in Coros : x \in Freed(c) => at[x] = "calling" /\ caller[c] = x /\ c \notin installing
  BY FreedAreCalling DEF Leave
<1>1. CoroTypeOK'
  BY DEF Leave, DropLocals, CoroInv, CoroTypeOK, Move, Places
<1>2. CallersInv'
  BY DEF Leave, CoroInv, CorosAssumption, Tasks, CallersInv, CoroTypeOK, Pending, Move, Freed
<1>3. AwaitInv'
  BY <1>a DEF Leave, DropLocals, CoroInv, CorosAssumption, AwaitInv, Ready, Move
<1>4. ContinuationInv'
  BY <1>a DEF Leave, DropLocals, CoroInv, CorosAssumption, ContinuationInv, CoroTypeOK, Ready,
         Move
<1>5. ErrorInv'
  BY DEF Leave, CoroInv, ErrorInv, Failed, Move
<1>6. OutcomeInv'
  BY <1>a DEF Leave, CoroInv, OutcomeInv, ValuesAreThere, Ready, Move
<1> QED
  BY <1>1, <1>2, <1>3, <1>4, <1>5, <1>6 DEF CoroInv

\* With the local variables tasks go, and nothing else.
LEMMA DestroyKeeps ==
  ASSUME CorosAssumption, CoroInv, NEW c \in Coros, Destroy(c)
  PROVE  CoroInv'
<1>1. CoroTypeOK'
  BY DEF Destroy, DropLocals, CoroInv, CoroTypeOK, Places
<1>2. CallersInv'
  BY DEF Destroy, CoroInv, CallersInv, Pending
<1>3. AwaitInv'
  BY DEF Destroy, DropLocals, CoroInv, CorosAssumption, AwaitInv, Ready
<1>4. ContinuationInv'
  BY DEF Destroy, DropLocals, CoroInv, CorosAssumption, ContinuationInv, Ready
<1>5. ErrorInv'
  BY DEF Destroy, CoroInv, ErrorInv, Failed
<1>6. OutcomeInv'
  BY DEF Destroy, CoroInv, OutcomeInv, ValuesAreThere, Ready
<1> QED
  BY <1>1, <1>2, <1>3, <1>4, <1>5, <1>6 DEF CoroInv

\* The promise rejects a task that was not settled, and frees and wakes at once.
LEMMA DestroyPromiseKeeps ==
  ASSUME CorosAssumption, CoroInv, NEW c \in Coros, DestroyPromise(c)
  PROVE  CoroInv'
<1>a. \A x \in Coros : x \in Freed(c) => at[x] = "calling" /\ caller[c] = x /\ c \notin installing
  BY FreedAreCalling DEF DestroyPromise
<1>b. ~Ready(c) /\ \A x \in Coros : x \in Woken(c) => at[x] = "waiting" /\ awaiting[x].on = c
  BY WokenAreWaiting DEF DestroyPromise, CoroInv, OutcomeInv, Tasks
<1>1. CoroTypeOK'
  BY DEF DestroyPromise, Settle, CoroInv, CoroTypeOK, Move, Places
<1>2. CallersInv'
  BY <1>b DEF DestroyPromise, CoroInv, CorosAssumption, Tasks, CallersInv, CoroTypeOK, Pending,
         Move, Freed
<1>3. AwaitInv'
  BY <1>a, <1>b DEF DestroyPromise, Settle, CoroInv, CorosAssumption, AwaitInv, CoroTypeOK,
         Ready, Move, ErrorInv, Failed
<1>4. ContinuationInv'
  BY <1>a, <1>b DEF DestroyPromise, Settle, CoroInv, CorosAssumption, ContinuationInv,
         CoroTypeOK, Ready, Move, ErrorInv, Failed
<1>5. ErrorInv'
  BY DEF DestroyPromise, Settle, CoroInv, ErrorInv, Failed, Move
<1>6. OutcomeInv'
  BY <1>a, <1>b DEF DestroyPromise, Settle, CoroInv, CorosAssumption, OutcomeInv,
         ValuesAreThere, Ready, Move
<1> QED
  BY <1>1, <1>2, <1>3, <1>4, <1>5, <1>6 DEF CoroInv

\* A delay is awaited without doTry().
LEMMA AwaitDelayKeeps ==
  ASSUME CorosAssumption, CoroInv, NEW c \in Coros, AwaitDelay(c)
  PROVE  CoroInv'
<1>a. \A x \in Coros : x \in Freed(c) => at[x] = "calling" /\ caller[c] = x /\ c \notin installing
  BY FreedAreCalling DEF AwaitDelay
<1>1. CoroTypeOK'
  BY DEF AwaitDelay, CoroInv, CoroTypeOK, Move, Places
<1>2. CallersInv'
  BY DEF AwaitDelay, CoroInv, CorosAssumption, Tasks, CallersInv, CoroTypeOK, Pending, Move, Freed
<1>3. AwaitInv'
  BY <1>a DEF AwaitDelay, CoroInv, AwaitInv, CoroTypeOK, Nothing, Ready, Move
<1>4. ContinuationInv'
  BY <1>a DEF AwaitDelay, CoroInv, ContinuationInv, CoroTypeOK, Ready, Move
<1>5. ErrorInv'
  BY DEF AwaitDelay, CoroInv, ErrorInv, Failed, Move
<1>6. OutcomeInv'
  BY <1>a DEF AwaitDelay, CoroInv, OutcomeInv, ValuesAreThere, Ready, Move
<1> QED
  BY <1>1, <1>2, <1>3, <1>4, <1>5, <1>6 DEF CoroInv

\* A delay that is over, or cancelled.
LEMMA DelayOverKeeps ==
  ASSUME CorosAssumption, CoroInv, NEW c \in Coros, DelayOver(c)
  PROVE  CoroInv'
<1>1. CoroTypeOK'
  <2>1. /\ at' \in [Coros -> Places]
        /\ errorOnDestroy' \in [Coros -> Tasks \cup {None, Cancelled}]
    BY DEF DelayOver, CoroInv, CoroTypeOK, Places
  <2>2. Nothing \in [on : Tasks \cup {None, Delay, Expiration}, try : BOOLEAN]
    BY DEF Nothing
  <2>3. awaiting' \in [Coros -> [on : Tasks \cup {None, Delay, Expiration}, try : BOOLEAN]]
    BY <2>2 DEF DelayOver, CoroInv, CoroTypeOK
  <2> QED
    BY <2>1, <2>3 DEF DelayOver, CoroInv, CoroTypeOK
<1>2. CallersInv'
  BY DEF DelayOver, CoroInv, CallersInv, CoroTypeOK, Pending
<1>3. AwaitInv'
  <2>1. /\ \A x \in Coros : x # c => at'[x] = at[x] /\ awaiting'[x] = awaiting[x]
        /\ \/ at'[c] = "running" /\ awaiting'[c] = Nothing
           \/ at'[c] = "dying" /\ awaiting'[c] = awaiting[c]
        /\ UNCHANGED <<holder, outcome>>
    BY DEF DelayOver, CoroInv, CoroTypeOK
  <2> USE DEF CoroInv, CorosAssumption, Tasks, AwaitInv, Nothing, Ready
  <2>2. CASE at'[c] = "running" /\ awaiting'[c] = Nothing
    <3>1. awaiting'[c].on = None /\ awaiting'[c].try = FALSE /\ None \notin Tasks
      BY <2>2
    <3>2. \A t \in Tasks : Ready(t)' = Ready(t)
      BY <2>1
    <3> HIDE DEF Ready
    <3> QED
      BY <2>1, <2>2, <3>1, <3>2
  <2>3. CASE at'[c] = "dying" /\ awaiting'[c] = awaiting[c]
    BY <2>1, <2>3
  <2> QED
    BY <2>1, <2>2, <2>3
<1>4. ContinuationInv'
  BY DEF DelayOver, CoroInv, CorosAssumption, ContinuationInv, CoroTypeOK, Ready
<1>5. ErrorInv'
  BY DEF DelayOver, CoroInv, CorosAssumption, ErrorInv, CoroTypeOK, Failed, AwaitInv
<1>6. OutcomeInv'
  BY DEF DelayOver, CoroInv, OutcomeInv, CoroTypeOK, ValuesAreThere, Ready
<1> QED
  BY <1>1, <1>2, <1>3, <1>4, <1>5, <1>6 DEF CoroInv

\* What awaits the expiration awaits no task.
LEMMA AwaitExpirationKeeps ==
  ASSUME CorosAssumption, CoroInv, NEW c \in Coros, AwaitExpiration(c)
  PROVE  CoroInv'
<1>1. CoroTypeOK'
  BY DEF AwaitExpiration, CoroInv, CoroTypeOK, Places
<1>2. CallersInv'
  BY DEF AwaitExpiration, CoroInv, CallersInv, Pending
<1>3. AwaitInv'
  BY DEF AwaitExpiration, CoroInv, AwaitInv, CoroTypeOK, Nothing, Ready
<1>4. ContinuationInv'
  BY DEF AwaitExpiration, CoroInv, ContinuationInv, Ready
<1>5. ErrorInv'
  BY DEF AwaitExpiration, CoroInv, ErrorInv, Failed
<1>6. OutcomeInv'
  BY DEF AwaitExpiration, CoroInv, OutcomeInv, ValuesAreThere, Ready
<1> QED
  BY <1>1, <1>2, <1>3, <1>4, <1>5, <1>6 DEF CoroInv

\* One that is called back at once is posted, and awaits no task.
LEMMA SubscribeKeeps ==
  ASSUME CorosAssumption, CoroInv, NEW c \in Coros, Subscribe(c)
  PROVE  CoroInv'
<1>1. CoroTypeOK'
  BY DEF Subscribe, CoroInv, CoroTypeOK, Places
<1>2. CallersInv'
  BY DEF Subscribe, CoroInv, CallersInv, Pending
<1>3. AwaitInv'
  BY DEF Subscribe, CoroInv, CorosAssumption, AwaitInv, Ready
<1>4. ContinuationInv'
  BY DEF Subscribe, CoroInv, ContinuationInv, Ready
<1>5. ErrorInv'
  BY DEF Subscribe, CoroInv, ErrorInv, Failed
<1>6. OutcomeInv'
  BY DEF Subscribe, CoroInv, OutcomeInv, ValuesAreThere, Ready
<1> QED
  BY <1>1, <1>2, <1>3, <1>4, <1>5, <1>6 DEF CoroInv

\* The caller, until now not freed, goes on.
LEMMA AssignSubscriptionKeeps ==
  ASSUME CorosAssumption, CoroInv, NEW c \in Coros, AssignSubscription(c)
  PROVE  CoroInv'
<1>1. CoroTypeOK'
  BY DEF AssignSubscription, CoroInv, CoroTypeOK, Places
<1>2. CallersInv'
  BY DEF AssignSubscription, CoroInv, CallersInv, CoroTypeOK, Pending
<1>3. AwaitInv'
  BY DEF AssignSubscription, CoroInv, AwaitInv, Ready, CallersInv, Pending
<1>4. ContinuationInv'
  BY DEF AssignSubscription, CoroInv, ContinuationInv, Ready, CallersInv, Pending
<1>5. ErrorInv'
  BY DEF AssignSubscription, CoroInv, ErrorInv, Failed
<1>6. OutcomeInv'
  BY DEF AssignSubscription, CoroInv, OutcomeInv, ValuesAreThere, Ready, CallersInv, Pending
<1> QED
  BY <1>1, <1>2, <1>3, <1>4, <1>5, <1>6 DEF CoroInv

\* A source that settles its task wakes who awaits that.
LEMMA SettleSourceKeeps ==
  ASSUME CorosAssumption, CoroInv, NEW s \in Sources, SettleSource(s)
  PROVE  CoroInv'
<1>b. ~Ready(s) /\ \A x \in Coros : x \in Woken(s) => at[x] = "waiting" /\ awaiting[x].on = s
  BY WokenAreWaiting DEF SettleSource, CoroInv, OutcomeInv, Tasks
<1>1. CoroTypeOK'
  BY DEF SettleSource, Settle, CoroInv, Tasks, CoroTypeOK, Places
<1>2. CallersInv'
  BY <1>b DEF SettleSource, CoroInv, CallersInv, CoroTypeOK, Pending
<1>3. AwaitInv'
  BY <1>b DEF SettleSource, Settle, CoroInv, CorosAssumption, AwaitInv, CoroTypeOK, Ready
<1>4. ContinuationInv'
  BY DEF SettleSource, Settle, CoroInv, CorosAssumption, Tasks, ContinuationInv, CoroTypeOK,
         Ready, Woken
<1>5. ErrorInv'
  BY DEF SettleSource, Settle, CoroInv, ErrorInv, Failed
<1>6. OutcomeInv'
  BY <1>b DEF SettleSource, Settle, CoroInv, CorosAssumption, OutcomeInv, ValuesAreThere, Ready
<1> QED
  BY <1>1, <1>2, <1>3, <1>4, <1>5, <1>6 DEF CoroInv

\* The expiration posts only those that await it.
LEMMA ExpireKeeps ==
  ASSUME CorosAssumption, CoroInv, Expire
  PROVE  CoroInv'
<1>1. CoroTypeOK'
  BY DEF Expire, CoroInv, CoroTypeOK, Places
<1>2. CallersInv'
  BY DEF Expire, CoroInv, CallersInv, CoroTypeOK, Pending
<1>3. AwaitInv'
  BY DEF Expire, CoroInv, CorosAssumption, AwaitInv, Ready
<1>4. ContinuationInv'
  BY DEF Expire, CoroInv, CorosAssumption, ContinuationInv, CoroTypeOK, Ready
<1>5. ErrorInv'
  BY DEF Expire, CoroInv, ErrorInv, Failed
<1>6. OutcomeInv'
  BY DEF Expire, CoroInv, OutcomeInv, ValuesAreThere, Ready
<1> QED
  BY <1>1, <1>2, <1>3, <1>4, <1>5, <1>6 DEF CoroInv

\* At the beginning one coroutine runs, and nobody awaits anything.
LEMMA CoroInitially == CorosAssumption /\ CoroInit => CoroInv
  BY DEF CorosAssumption, CoroInit, CoroInv, CoroTypeOK, Places, CallersInv, Pending, AwaitInv,
         ContinuationInv, ErrorInv, OutcomeInv, ValuesAreThere, Ready, Nothing, Tasks

\* Every step keeps the invariant.
LEMMA CoroNextKeeps ==
  ASSUME CorosAssumption, CoroInv, [CoroNext]_coroVars
  PROVE  CoroInv'
<1>1. CASE UNCHANGED coroVars
  BY <1>1 DEF coroVars, CoroInv, CoroTypeOK, CallersInv, Pending, AwaitInv, ContinuationInv,
              ErrorInv, OutcomeInv, ValuesAreThere, Ready, Failed
<1>2. CASE \E c \in Coros : CoroStep(c)
  <2>1. PICK c \in Coros : CoroStep(c)
    BY <1>2
  <2>2. CASE \/ \E d \in Coros : Call(c, d)
             \/ \E s \in Sources : GetTask(c, s) \/ MakeTask(c, s)
             \/ \E t \in Tasks : Await(c, t) \/ Detach(c, t) \/ AsResult(c, t)
    BY <2>2, CallKeeps, GetTaskKeeps, MakeTaskKeeps, AwaitKeeps, DetachKeeps DEF AsResult
  <2>3. CASE \/ SuspendFailed(c) \/ Suspend(c) \/ ContinueFailed(c) \/ Continue(c)
             \/ AwaitDelay(c) \/ DelayOver(c) \/ AwaitExpiration(c) \/ Subscribe(c)
    BY <2>3, SuspendFailedKeeps, SuspendKeeps, ContinueFailedKeeps, ContinueKeeps,
       AwaitDelayKeeps, DelayOverKeeps, AwaitExpirationKeeps, SubscribeKeeps
  <2>4. CASE \/ CoReturn(c) \/ CoYield(c) \/ AwaitResult(c) \/ Leave(c) \/ Destroy(c)
             \/ DestroyPromise(c)
    BY <2>4, FinishWithKeeps, LeaveKeeps, DestroyKeeps, DestroyPromiseKeeps
    DEF CoReturn, CoYield, AwaitResult
  <2> QED
    BY <2>1, <2>2, <2>3, <2>4 DEF CoroStep
<1>3. CASE \E c \in Coros : AssignSubscription(c)
  BY <1>3, AssignSubscriptionKeeps
<1>4. CASE \E s \in Sources : SettleSource(s)
  BY <1>4, SettleSourceKeeps
<1>5. CASE Expire
  BY <1>5, ExpireKeeps
<1> QED
  BY <1>1, <1>2, <1>3, <1>4, <1>5 DEF CoroNext

\* No task is settled a second time.
LEMMA OutcomesStay ==
  ASSUME CoroInv, [CoroNext]_coroVars, NEW t \in Tasks, Ready(t)
  PROVE  outcome'[t] = outcome[t]
  BY DEF CoroInv, CoroTypeOK, Ready, CoroNext, CoroStep, coroVars, Call, GetTask, MakeTask, Await,
         Detach, AsResult, SuspendFailed, Suspend, ContinueFailed, Continue, CoReturn, CoYield,
         AwaitResult, FinishWith, Leave, Destroy, DestroyPromise, AwaitDelay, DelayOver,
         AwaitExpiration, Subscribe, AssignSubscription, SettleSource, Expire, Settle

\* The coroutines' invariant holds in every state.
LEMMA CoroInvariance ==
  ASSUME CorosAssumption
  PROVE  CoroSpec => []CoroInv
<1>1. CoroInit => CoroInv
  BY CoroInitially
<1>2. CoroInv /\ [CoroNext]_coroVars => CoroInv'
  BY CoroNextKeeps
<1> QED
  BY <1>1, <1>2, PTL DEF CoroSpec

\* The assertion of await_resume: whatever a coroutine takes from a task is there.
THEOREM TakenValuesAreThere ==
  ASSUME CorosAssumption
  PROVE  CoroSpec => []ValuesAreThere
<1>1. CoroInv => ValuesAreThere
  BY DEF CoroInv, OutcomeInv
<1> QED
  BY <1>1, CoroInvariance, PTL

\* An error goes up from the task that was awaited to the coroutine that did, or
\* from a delay that was cancelled, and arrives as it was raised.
THEOREM ErrorsGoUpUnchanged ==
  ASSUME CorosAssumption
  PROVE  CoroSpec => ErrorsGoUp
<1> DEFINE GoesUp(c) ==
      outcome[c] = None /\ outcome'[c] # None /\ at[c] # "running" =>
        /\ ~awaiting[c].try
        /\ IF awaiting[c].on = Delay THEN outcome'[c] = Cancelled
           ELSE Failed(awaiting[c].on) /\ outcome'[c] = outcome[awaiting[c].on]
<1>1. CoroInv /\ [CoroNext]_coroVars => [\A c \in Coros : GoesUp(c)]_coroVars
  <2> SUFFICES ASSUME CoroInv, [CoroNext]_coroVars, NEW c \in Coros,
                      outcome'[c] # outcome[c], at[c] # "running"
               PROVE  GoesUp(c)
    BY DEF coroVars
  <2> USE DEF CoroInv, CoroTypeOK, CorosAssumption, Tasks
  <2>1. \/ SuspendFailed(c) \/ DestroyPromise(c)
    BY DEF CoroNext, CoroStep, coroVars, Call, GetTask, MakeTask, Await, Detach, AsResult,
           SuspendFailed, Suspend, ContinueFailed, Continue, CoReturn, CoYield, AwaitResult,
           FinishWith, Leave, Destroy, DestroyPromise, AwaitDelay, DelayOver, AwaitExpiration,
           Subscribe, AssignSubscription, SettleSource, Expire, Settle
  <2>2. CASE SuspendFailed(c)
    BY <2>2 DEF SuspendFailed, AwaitedFailed, Settle
  <2>3. CASE DestroyPromise(c)
    BY <2>3 DEF DestroyPromise, Settle, ErrorInv
  <2> QED
    BY <2>1, <2>2, <2>3
<1> QED
  BY <1>1, CoroInvariance, PTL DEF CoroSpec, ErrorsGoUp

\* A coroutine whose task is settled does not run on, and the promise of one that is
\* destroyed with an error still has a task to reject.
THEOREM CoroutinesEndOnce ==
  ASSUME CorosAssumption
  PROVE  CoroSpec => OneOutcome
<1>1. CoroInv => \A c \in Coros : at[c] \in {"dying", "promise"} => ~Ready(c)
  BY DEF CoroInv, OutcomeInv
<1>2. CoroInv /\ CoroInv' /\ [CoroNext]_coroVars
        => [\A c \in Coros : Ready(c) => at'[c] # "running"]_coroVars
  <2> SUFFICES ASSUME CoroInv, CoroInv', [CoroNext]_coroVars, NEW c \in Coros, Ready(c)
               PROVE  at'[c] # "running"
    OBVIOUS
  <2>1. Ready(c)'
    BY OutcomesStay DEF Ready, Tasks
  <2> QED
    BY <2>1 DEF CoroInv, OutcomeInv
<1> QED
  BY <1>1, <1>2, CoroInvariance, PTL DEF CoroSpec, OneOutcome

=============================================================================
