------------------------------ MODULE Startup ------------------------------
(***************************************************************************)
(* The startup and the end of an application (application_impl.cpp) with   *)
(* its services and modules in detail, where module Application has only   *)
(* the states.  The runtime completes whenever it does: Application shows  *)
(* that it may before the services' shutdown has come to its end.          *)
(***************************************************************************)
EXTENDS ServiceProvider

CONSTANTS Requested,  \* a bound: the services that somebody asks for
          Modules     \* how many modules are registered

ASSUME RequestedAssumption == Requested \subseteq Services
ASSUME ModulesAssumption == Modules \in Nat

VARIABLES
  nextPhase,    \* ModuleManagerImpl::m_nextPhase
  initialized,  \* the modules whose moduleInit has succeeded
  shutdownCalls, \* how often moduleShutdown was called on each
  stage,  \* how far startupServices and then step() have come
  failed  \* has the startup failed

mmVars == <<nextPhase, initialized, shutdownCalls>>
startupVars == <<spVars, mmVars, stage, failed>>

-----------------------------------------------------------------------------
(* ModuleManagerImpl (module_manager.cpp): each phase is run as a whole under *)
(* m_mutex.                                                                   *)

MmInit ==
  /\ nextPhase = "Init" /\ initialized = {}
  /\ shutdownCalls = [m \in 1..Modules |-> 0]

\* moduleShutdown of the modules up to the given one.
ShutdownUpTo(last) ==
  [m \in 1..Modules |-> shutdownCalls[m] + (IF m <= last THEN 1 ELSE 0)]

\* The first n succeed.  If one fails, those before it and itself are shut down.
InitModules(n) ==
  /\ nextPhase = "Init"
  /\ initialized' = 1..n
  /\ nextPhase' = IF n = Modules THEN "PostInit" ELSE "Init"
  /\ shutdownCalls' = IF n = Modules THEN shutdownCalls ELSE ShutdownUpTo(n + 1)

\* A mutant of PostInitModules: the next phase is set before the result is looked at.
PostInitModulesAdvancing(n) ==
  /\ nextPhase = "PostInit"
  /\ nextPhase' = "Shutdown"
  /\ shutdownCalls' = IF n = Modules THEN shutdownCalls ELSE ShutdownUpTo(n + 1)
  /\ UNCHANGED initialized

PostInitModules(n) ==
  /\ nextPhase = "PostInit"
  /\ nextPhase' = IF n = Modules THEN "Shutdown" ELSE "PostInit"
  /\ shutdownCalls' = IF n = Modules THEN shutdownCalls ELSE ShutdownUpTo(n + 1)
  /\ UNCHANGED initialized

\* Nothing unless all phases have gone well; the modules are gone afterwards.
ShutdownModules ==
  IF nextPhase = "Shutdown"
    THEN /\ shutdownCalls' = ShutdownUpTo(Modules)
         /\ nextPhase' = "Init"
         /\ UNCHANGED initialized
    ELSE UNCHANGED mmVars

-----------------------------------------------------------------------------
(* The application *)

StartupInit ==
  /\ SpInit /\ MmInit
  /\ stage = "modules" /\ failed = FALSE

Goto(from, to) == stage = from /\ stage' = to

\* A module that fails leaves the application active, without its services.
ModulesInit ==
  \E n \in 0..Modules :
    /\ InitModules(n)
    /\ Goto("modules", IF n = Modules THEN "preInit" ELSE "active")
    /\ failed' = (n # Modules)
    /\ UNCHANGED spVars

ServicesPreInit ==
  /\ Goto("preInit", "init")
  /\ InitServices("preInit")
  /\ UNCHANGED <<mmVars, failed>>

\* A service that fails leaves it invalid, and nothing happens any more.
Invalidate ==
  /\ stage \in {"init", "postInit"} /\ rejected
  /\ stage' = "invalid" /\ failed' = TRUE
  /\ UNCHANGED <<spVars, mmVars>>

ServicesInit ==
  /\ Goto("init", "postInit") /\ ~rejected
  /\ InitServices("init")
  /\ UNCHANGED <<mmVars, failed>>

ModulesPostInit ==
  \E n \in 0..Modules :
    /\ Goto("postInit", "active") /\ ~rejected
    /\ running = "none"
    /\ PostInitModules(n)
    /\ failed' = (n # Modules)
    /\ UNCHANGED spVars

\* After a stop().
ServicesShutdown ==
  /\ Goto("active", "stopping")
  /\ ShutdownServices
  /\ UNCHANGED <<mmVars, failed>>

\* The runtime is down.  The services are cleared, then the modules, whether or not the
\* services' shutdown has ended: step() does not look at its task.
ModulesShutdown ==
  /\ Goto("stopping", "ended")
  /\ ShutdownModules
  /\ UNCHANGED <<spVars, failed>>

\* The destructor of the module manager shuts its modules down once more.
ManagerDestroyed ==
  /\ Goto("ended", "destroyed")
  /\ ShutdownModules
  /\ UNCHANGED <<spVars, failed>>

\* The operations are resumed by the application's queue, which nobody polls any more once
\* step() has returned false: one that was running then stays where it is.
StillPolled == stage \notin {"ended", "destroyed"}

AppSteps ==
  \/ ModulesInit \/ ServicesPreInit \/ Invalidate \/ ServicesInit \/ ModulesPostInit
  \/ ManagerDestroyed
  \/ StillPolled /\ ServiceCalls /\ UNCHANGED <<mmVars, stage, failed>>

StartupNext ==
  \/ AppSteps
  \/ ServicesShutdown \/ ModulesShutdown
  \/ \E s \in Requested :
       stage \notin {"modules", "ended", "destroyed"} /\ Get(s)
       /\ UNCHANGED <<mmVars, stage, failed>>

StartupSpec == StartupInit /\ [][StartupNext]_startupVars

\* The application polls, every task of a service ends and the runtime completes when
\* the services have: nobody need stop the application, nor force the runtime.
StartupFairSpec ==
  StartupSpec /\ WF_startupVars(AppSteps \/ (running = "none" /\ ModulesShutdown))

-----------------------------------------------------------------------------
(* Properties *)

\* The type invariant: what is awaited has been begun by the operation that runs.
StartupTypeOK ==
  /\ initialization \subseteq Services /\ shutdown \subseteq Services
  /\ created \subseteq Services
  /\ running \in {"none", "preInit", "init", "shutdown", "dispose"}
  /\ todo \in Seq(SUBSET Services)
  /\ pending \subseteq {s \in created : <<running, s>> \in begun}
  /\ rejected \in BOOLEAN /\ failed \in BOOLEAN
  /\ stage \in {"modules", "preInit", "init", "postInit", "active", "invalid", "stopping",
                "ended", "destroyed"}
  /\ nextPhase \in {"Init", "PostInit", "Shutdown"}
  /\ initialized \subseteq 1..Modules
  /\ shutdownCalls \in [1..Modules -> Nat]

\* Unless a task of a dependent service is rejected, or the runtime completes before the
\* services' shutdown, no service is destroyed that has been initialised or shut down and
\* not been disposed, nor one that was initialised and not been shut down.
DisposedBeforeCleared ==
  stage \in {"ended", "destroyed"} /\ ~rejected /\ running = "none" =>
    \A s \in Services :
      /\ <<"init", s>> \in begun \/ <<"shutdown", s>> \in begun => Ended("dispose", s)
      /\ <<"init", s>> \in begun /\ s \in shutdown => Ended("shutdown", s)

\* The services begin after what they depend on, end before it, and are disposed
\* before they are destroyed.
ServicesInOrder == StartupTypeOK /\ DependencyOrder /\ DisposedBeforeCleared

\* No service is initialised unless every module was, and unless the startup has failed
\* no module is shut down before the services are gone.
ModulesServeServices ==
  /\ \A s \in Services : <<"preInit", s>> \in begun => initialized = 1..Modules
  /\ (\E m \in 1..Modules : shutdownCalls[m] > 0) /\ ~failed => stage \in {"ended", "destroyed"}

\* A module is shut down at most once, however the startup goes, although a failed
\* phase, the application and the destructor all do it; and once if it goes well.
ShutDownOnce ==
  /\ \A m \in 1..Modules : shutdownCalls[m] <= 1
  /\ stage = "destroyed" /\ ~failed => \A m \in 1..Modules : shutdownCalls[m] = 1

\* The modules are shut down from the first one on, and one that was initialised is left
\* out only behind one that has failed in its second phase.
LeftOutBehindTheFailed ==
  \A m \in 1..Modules : shutdownCalls[m] = 0 =>
    /\ \A later \in m..Modules : shutdownCalls[later] = 0
    /\ stage = "destroyed" /\ m \in initialized =>
         nextPhase = "PostInit" /\ \E earlier \in 1..(m - 1) : shutdownCalls[earlier] = 1

\* Whatever the startup came to, and whenever the runtime completes: the modules are there
\* for the services, and who is shut down is, once, all but those behind a failed one.
ModulesInOrder == ModulesServeServices /\ ShutDownOnce /\ LeftOutBehindTheFailed

\* A stopped application ends, also with no services of a kind or rejected ones, and
\* without the runtime being forced to.
ShutdownEnds == stage = "stopping" ~> stage = "destroyed"

-----------------------------------------------------------------------------
\* The services of the instance that TLC checks, in this order.
FourServices == <<"a", "b", "c", "d">>

=============================================================================
