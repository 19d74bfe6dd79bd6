---------------------------- MODULE Application ----------------------------
(***************************************************************************)
(* ApplicationImpl (core_application/src/app/application_impl.cpp) and the *)
(* kernel runtime it starts on a thread of its own: startup, the main loop *)
(* of step() and stop(), and the shutdown that goes back and forth between *)
(* the two threads.  The services' shutdown task is a coroutine on the     *)
(* application's work queue; while it awaits a service the task it awaits  *)
(* has captured that queue, and when it is resumed it is one of its works. *)
(***************************************************************************)
EXTENDS KernelRuntime

CONSTANT ServiceTasks  \* how many services the shutdown task may have to await

ASSUME ServicesAssumption == ServiceTasks \in Nat
ASSUME NamesAssumption == {"queue", "services"} \cap (Objects \cup Holders) = {}

VARIABLES
  appState,  \* m_appState
  appPc,     \* where the application's thread is
  last,      \* lastAppState of step()
  services,  \* m_shutdownServicesTask
  awaited    \* how many services it has awaited

appVars == <<appState, appPc, last, services, awaited>>
allVars == <<rtVars, appVars>>

AppStates == {"Invalid", "NotStarted", "Initializing", "Active",
              "ShutdownRequested", "GameShutdownProcessed",
              "RuntimeShutdownProcessed", "ShutdownCompleted"}

\* The constructor returns when the runtime thread has bound the runtime.
AppInit ==
  /\ RtInit
  /\ appState = "NotStarted"
  /\ appPc = "startup"
  /\ last = "NotStarted"
  /\ services = "none"
  /\ awaited = 0

AppGoto(from, to) == appPc = from /\ appPc' = to

-----------------------------------------------------------------------------
(* Startup and stop *)

StartupOnCurrentThread ==
  /\ AppGoto("startup", "starting")
  /\ rtState = "Operable"
  /\ appState' = "Initializing"
  /\ UNCHANGED <<rtVars, last, services, awaited>>

\* A service that fails makes the application invalid.  A module that fails
\* does not: the application becomes active.
StartupServices ==
  /\ AppGoto("starting", "idle")
  /\ appState' \in {"Active", "Invalid"}
  /\ UNCHANGED <<rtVars, last, services, awaited>>

\* A mutant of Stop: a store instead of the compare-exchange.
StopBlindly ==
  /\ appState \notin {"NotStarted", "Initializing", "Invalid"}
  /\ appState' = "ShutdownRequested"
  /\ UNCHANGED <<rtVars, appPc, last, services, awaited>>

\* From any thread; ignored unless the application is active.
Stop ==
  /\ appState = "Active"
  /\ appState' = "ShutdownRequested"
  /\ UNCHANGED <<rtVars, appPc, last, services, awaited>>

-----------------------------------------------------------------------------
(* The shutdown task of the services *)

\* The task runs until it has to await a service, or to its end.
RunServices ==
  \/ /\ awaited < ServiceTasks
     /\ services' = "awaits"
     /\ awaited' = awaited + 1
     /\ captured' = captured \cup {"services"}
     /\ executorRefs' = executorRefs \cup {"services"}
  \/ /\ services' = "ready"
     /\ UNCHANGED <<awaited, captured, executorRefs>>

\* The service is done: its task takes the continuation, with the executor, out
\* of itself and gives it to the work queue.
ServiceDone ==
  /\ services = "awaits"
  /\ services' = "dispatched"
  /\ captured' = captured \ {"services"}
  /\ UNCHANGED <<rtState, rtPc, sdPc, posted, executor, registry, disposed, works,
                 handles, executorRefs, appState, appPc, last, awaited>>

ServiceQueued ==
  /\ services = "dispatched"
  /\ services' = "queued"
  /\ works' = works \cup {"services"}
  /\ executorRefs' = executorRefs \ {"services"}
  /\ UNCHANGED <<rtState, rtPc, sdPc, posted, executor, registry, disposed, handles,
                 captured, appState, appPc, last, awaited>>

-----------------------------------------------------------------------------
(* step() *)

\* The work queue has works as long as it is polled.
Step ==
  /\ appPc = "idle"
  /\ last' = appState
  /\ IF appState = "ShutdownCompleted"
       THEN appPc' = "finished" /\ UNCHANGED works
       ELSE appPc' = "take" /\ works' = works \cup {"queue"}
  /\ UNCHANGED <<rtState, rtPc, sdPc, posted, executor, registry, disposed, handles,
                 executorRefs, captured, appState, services, awaited>>

Polling == appPc \in {"take", "poll"}

\* poll() runs what it finds queued, at once and as long as its time lasts.
PollServices ==
  /\ Polling
  /\ services = "queued"
  /\ appPc' = "poll"
  /\ works' = works \ {"services"}
  /\ RunServices
  /\ UNCHANGED <<rtState, rtPc, sdPc, posted, executor, registry, disposed, handles,
                 appState, last>>

PollNothing ==
  /\ AppGoto("take", "poll")
  /\ services # "queued"
  /\ UNCHANGED <<rtVars, appState, last, services, awaited>>

\* A mutant of PollEnds: the poll goes on counting as work.
PollStillCounted ==
  /\ AppGoto("poll", "act")
  /\ UNCHANGED <<rtVars, appState, last, services, awaited>>

\* The time is up; what has been queued since the last look stays queued.
PollEnds ==
  /\ AppGoto("poll", "act")
  /\ works' = works \ {"queue"}
  /\ UNCHANGED <<rtState, rtPc, sdPc, posted, executor, registry, disposed, handles,
                 executorRefs, captured, appState, last, services, awaited>>

ActIdle ==
  /\ AppGoto("act", "idle")
  /\ last \in {"Active", "Invalid"}
  /\ UNCHANGED <<rtVars, appState, last, services, awaited>>

ActShutdownRequested ==
  /\ AppGoto("act", "idle")
  /\ last = "ShutdownRequested"
  /\ appState' = "GameShutdownProcessed"
  /\ UNCHANGED <<rtVars, last, services, awaited>>

\* shutdownServicesAndRuntime.
ActGameShutdown ==
  /\ AppGoto("act", "shutdown")
  /\ last = "GameShutdownProcessed"
  /\ appState' = "RuntimeShutdownProcessed"
  /\ UNCHANGED <<rtVars, last, services, awaited>>

ShutdownRuntime ==
  /\ appPc = "shutdown"
  /\ Shutdown
  /\ UNCHANGED appVars

BeginServicesShutdown ==
  /\ AppGoto("shutdown", "idle")
  /\ sdPc = "returned"
  /\ RunServices
  /\ UNCHANGED <<rtState, rtPc, sdPc, posted, executor, registry, disposed, works,
                 handles, appState, last>>

\* A mutant of RuntimeIsDown: the runtime that is about to complete will do.
RuntimeIsAlmostDown == rtState \in {"ShutdownNeedCompletion", "ShutdownCompleted"}

RuntimeIsDown == rtState = "ShutdownCompleted"

\* The services are cleared and the modules unloaded.
ActRuntimeShutdown ==
  /\ AppGoto("act", "idle")
  /\ last = "RuntimeShutdownProcessed"
  /\ appState' = IF RuntimeIsDown THEN "ShutdownCompleted" ELSE appState
  /\ UNCHANGED <<rtVars, last, services, awaited>>

AppThread ==
  \/ StartupOnCurrentThread \/ StartupServices \/ Step \/ PollServices \/ PollNothing \/ PollEnds
  \/ ActIdle \/ ActShutdownRequested \/ ActGameShutdown \/ ShutdownRuntime
  \/ BeginServicesShutdown \/ ActRuntimeShutdown

RuntimeSide == (RuntimeThread \/ UserStep) /\ UNCHANGED appVars

AppNext == Alive /\ (AppThread \/ Stop \/ ServiceDone \/ ServiceQueued \/ RuntimeSide)

AppSpec == AppInit /\ [][AppNext]_allVars

\* Both threads run, the services' tasks end and disposed objects get done with
\* their works.  Nobody need ever call stop().
AppFairSpec ==
  /\ AppSpec
  /\ WF_allVars(AppThread)
  /\ WF_allVars(ServiceDone \/ ServiceQueued)
  /\ WF_allVars(RuntimeThread /\ UNCHANGED appVars)
  /\ \A o \in Objects : WF_allVars(disposed /\ ObjectDone(o) /\ UNCHANGED appVars)

-----------------------------------------------------------------------------
(* Properties *)

\* The types of the application's side, and its works in the runtime's sets.
AppTypeOK ==
  /\ appState \in AppStates
  /\ appPc \in {"startup", "starting", "idle", "take", "poll", "act", "shutdown",
               "finished"}
  /\ last \in AppStates
  /\ services \in {"none", "awaits", "dispatched", "queued", "ready"}
  /\ awaited \in 0..ServiceTasks
  /\ "services" \in captured <=> services = "awaits"
  /\ "services" \in works <=> services = "queued"
  /\ "queue" \in works <=> Polling

\* The type invariant of both threads, with the works of the application in the
\* sets of the runtime exactly while the application has them.
TypeOK == RtTypeOK /\ AppTypeOK

\* The modules are unloaded last: by then the runtime thread has let go of
\* everything, and no runtime object is left with code of a module to run.
UnloadIsLast ==
  appState = "ShutdownCompleted" =>
    /\ ~executor /\ ~registry /\ rtPc \in {"poll", "exit"}
    /\ works \cap Objects = {}

\* The runtime is shut down only for an application that has stopped, and never
\* before its game loop has had its step to shut down.
RuntimeFollowsApplication ==
  rtState \notin {"NotInitialized", "Operable"} =>
    appState \in {"RuntimeShutdownProcessed", "ShutdownCompleted"}

\* stop(), from any thread and at any time, never takes the application back.
NeverBack ==
  [][ appState' # appState =>
        <<appState, appState'>> \in
          {<<"NotStarted", "Initializing">>, <<"Initializing", "Active">>,
           <<"Initializing", "Invalid">>, <<"Active", "ShutdownRequested">>,
           <<"ShutdownRequested", "GameShutdownProcessed">>,
           <<"GameShutdownProcessed", "RuntimeShutdownProcessed">>,
           <<"RuntimeShutdownProcessed", "ShutdownCompleted">>} ]_allVars

\* An application that is stopped ends, unless coroutines with a captured executor
\* come back again and again, one never lets go of the runtime executor, or each
\* and every visit of the runtime happens to meet the application in its poll (the
\* samples sleep between two steps).
StopCompletes ==
  /\ <>[](captured \cap Holders = {} /\ executorRefs \cap LoopHolders = {})
  /\ <>(appState = "ShutdownRequested" /\ rtPc = "runDefault")
  /\ []<><<Visit>>_allVars => []<><<Visit /\ ~Polling>>_allVars
  => <>(appPc = "finished")

AwaitsRuntime == appPc = "act" /\ last = "RuntimeShutdownProcessed"

\* What step() asserts when the runtime is down: "m_shutdownServicesTask.isReady()".
ServicesReadyAsserted ==
  AwaitsRuntime /\ rtState = "ShutdownCompleted" => services = "ready"

=============================================================================
