------------------------------ MODULE MCProved ------------------------------
(* The parts whose invariants are proved for all values of the constants,  *)
(* side by side, for TLC: what threads share (the pool, the polled queue,  *)
(* the references to an object, the source of one result for many tasks),  *)
(* the registry of runtime objects, and the Lua side of a debug session.   *)
(* A behaviour is about one part, the others stay where they begin.        *)
EXTENDS Parts_proofs

CONSTANTS Workers, Clients, Nobody,            \* of the pool
          Callers                              \* of the queue

VARIABLES part, isActive, queued, mutex, taskCounter, poolRefs, isDefault, pc, held, started,
  timed, invocations, taken, event, signal, isPolled, isNotified, stopFlag, poller, stopper,
  given, ran

\* The parts that are instances, each with what is proved of it.
Pool == INSTANCE ThreadPool_proofs WITH invocations <- queued, refs <- poolRefs
Queue == INSTANCE WorkQueue_proofs WITH Clients <- Callers, Timeouts <- BOOLEAN

ASSUME PartsAssumption ==
  /\ Pool!ThreadsAssumption /\ Queue!WorkQueueAssumption
  /\ RefCountAssumption /\ RenewalsAssumption
  /\ RegistryAssumption /\ LuaDebuggerAssumption /\ LuaAssumption /\ OneThread

poolVars == <<isActive, queued, mutex, taskCounter, poolRefs, isDefault, pc, held, started>>
queueVars == <<timed, invocations, taken, event, signal, isPolled, isNotified, stopFlag,
               poller, stopper, given, ran>>
allVars == <<part, poolVars, queueVars, refVars, sourceVars, registryVars, debuggeeVars,
             variableVars, luaVars>>

Init ==
  /\ part \in {"pool", "queue", "references", "source", "registry", "debuggee", "variables",
              "values"}
  /\ Pool!Init /\ Queue!Init /\ RefInit /\ SourceInit
  /\ RegistryInit /\ DebuggeeInit /\ VariablesInit /\ LuaInit
  \* a part at rest has one initial state
  /\ part = "queue" \/ timed
  /\ part = "references" \/ strong[CHOOSE u \in Users : TRUE] = 1
  /\ part = "debuggee" \/ hook = "none"

Next ==
  /\ UNCHANGED part
  /\ IF part = "pool" THEN Pool!Next ELSE UNCHANGED poolVars
  /\ IF part = "queue" THEN Queue!Next ELSE UNCHANGED queueVars
  /\ IF part = "references" THEN RefNext ELSE UNCHANGED refVars
  /\ IF part = "source" THEN SourceNext ELSE UNCHANGED sourceVars
  /\ IF part = "registry" THEN RegistryNext ELSE UNCHANGED registryVars
  /\ IF part = "debuggee" THEN DebuggeeNext ELSE UNCHANGED debuggeeVars
  /\ IF part = "variables" THEN VariablesNext ELSE UNCHANGED variableVars
  /\ IF part = "values" THEN LuaNext ELSE UNCHANGED luaVars

\* Init and Next of the parts, those that have words to keep each with its own
\* fairness while it is at work.
Spec ==
  /\ Init /\ [][Next]_allVars
  /\ \A t \in Pool!Threads : SF_poolVars(part = "pool" /\ Pool!ThreadStep(t))
  /\ WF_queueVars(part = "queue" /\ Queue!Poll)
  /\ WF_queueVars(part = "queue" /\ (Queue!Notify \/ Queue!Wake))

-----------------------------------------------------------------------------
\* hasWorks() of the pool counts all it has left to do, each invocation is run
\* once, and nothing of the pool runs after its destructor.
PoolKeepsCount ==
  Pool!TypeOK /\ Pool!CounterCountsWorks /\ Pool!RunsOnce /\ Pool!NothingRunsAfterDestruction

\* What the pool is given is run while it is active, and join() ends unless a
\* worker was about to wait.
PoolKeepsWord == Pool!QueuedIsRun /\ Pool!JoinEnds

\* The queue runs each invocation once and in order, hasWorks() counts what is
\* taken out, and nobody sleeps while something is queued.
QueueKeepsOrder ==
  Queue!TypeOK /\ Queue!RunsOnceInOrder /\ Queue!QuietMeansDone /\ Queue!NobodySleepsOnWork

\* What is queued is run as long as the loop goes on, and a loop that polls with
\* a timeout ends once it is told to.
QueueKeepsWord == Queue!QueuedIsRun /\ Queue!TimedLoopEnds

\* A visit of the registry is given objects that are alive, and reaches everyone who is
\* alive and registered from its beginning to its end.
VisitsMeetTheLiving == WeaklyVisitedAlive /\ EveryoneVisited

\* The debugger has the breakpoints of the last request for each source, finds its state
\* whenever its hook is called, and stops only where it was asked to.
BreakpointsKeepWord == BreakpointsAsAsked /\ HookFindsState /\ StopsAreAskedFor

\* A native value denotes the Lua object it was made of, and what came from Lua goes
\* back as it was.
ValuesKeepWord == ValueDenotesObject /\ ScalarsRoundTrip

-----------------------------------------------------------------------------
(* The invariants for all values of the constants: what is proved of each *)
(* part is carried over to the parts side by side.                        *)

\* A part is at work or at rest.
LEMMA InstancesStep ==
  ASSUME [Next]_allVars
  PROVE  /\ [Pool!Next]_(Pool!vars) /\ [Queue!Next]_(Queue!vars)
<1>1. CASE UNCHANGED allVars
  BY <1>1 DEF allVars, poolVars, queueVars, Pool!vars, Queue!vars
<1>2. CASE Next
  BY <1>2 DEF Next, poolVars, queueVars, Pool!vars, Queue!vars
<1> QED BY <1>1, <1>2

\* And so are those without instances.
LEMMA PartsStep ==
  ASSUME [Next]_allVars
  PROVE  /\ [RefNext]_refVars /\ [SourceNext]_sourceVars /\ [RegistryNext]_registryVars
         /\ [DebuggeeNext]_debuggeeVars /\ [VariablesNext]_variableVars /\ [LuaNext]_luaVars
<1>1. CASE UNCHANGED allVars
  BY <1>1 DEF allVars
<1>2. CASE Next
  BY <1>2 DEF Next
<1> QED BY <1>1, <1>2

\* The pool's counter, its invocations and its destructor, with any numbers of
\* workers and clients.
THEOREM PoolAlwaysKeepsCount == Spec => []PoolKeepsCount
<1>1. Init => Pool!IInv
  BY PartsAssumption, Pool!InitIsGood DEF Init
<1>2. Pool!IInv /\ [Next]_allVars => Pool!IInv'
  BY PartsAssumption, InstancesStep, Pool!StepKeepsIInv
<1>3. Pool!IInv => PoolKeepsCount
  BY PartsAssumption, Pool!DestroyedIsQuiet DEF PoolKeepsCount, Pool!IInv
<1> QED BY <1>1, <1>2, <1>3, PTL DEF Spec

\* The queue's order and hasWorks(), with any number of clients.
THEOREM QueueAlwaysKeepsOrder == Spec => []QueueKeepsOrder
<1>1. Init => Queue!IInv
  BY PartsAssumption, Queue!InitIsGood DEF Init
<1>2. Queue!IInv /\ [Next]_allVars => Queue!IInv'
  BY InstancesStep, Queue!StepKeepsIInv
<1>3. Queue!IInv => QueueKeepsOrder
  BY Queue!InvariantKeepsOrder DEF QueueKeepsOrder, Queue!IInv
<1> QED BY <1>1, <1>2, <1>3, PTL DEF Spec

\* What a Ptr and a WeakPtr refer to, with any numbers of threads and of Ptr.
THEOREM HoldersAlwaysKeepAlive == Spec => []HoldersKeepAlive
<1>1. Init => CountedInv
  BY PartsAssumption, RefInitially DEF Init, CountedInv
<1>2. CountedInv /\ [Next]_allVars => CountedInv'
  BY PartsAssumption, PartsStep, StepKeepsCountedInv
<1>3. CountedInv => HoldersKeepAlive
  BY PartsAssumption, InvariantKeepsAlive
<1> QED BY <1>1, <1>2, <1>3, PTL DEF Spec

\* The awaiters of a MultiTaskSource, with any numbers of callers and renewals.
THEOREM AwaitersAreAlwaysAnswered == Spec => []AwaitersAreAnswered
<1>1. Init => SourceInv
  BY PartsAssumption, SourceInitially DEF Init
<1>2. SourceInv /\ [Next]_allVars => SourceInv'
  BY PartsAssumption, PartsStep, StepKeepsSourceInv
<1>3. SourceInv => AwaitersAreAnswered
  BY AwaitersRelyOn
<1> QED BY <1>1, <1>2, <1>3, PTL DEF Spec

\* The visits of the registry, with any objects of any types.
THEOREM VisitsAlwaysMeetTheLiving == Spec => []VisitsMeetTheLiving
<1>1. Init => RegistryInv
  BY PartsAssumption, RegistryInitially DEF Init
<1>2. RegistryInv /\ [Next]_allVars => RegistryInv'
  BY PartsAssumption, PartsStep, StepKeepsRegistryInv
<1>3. RegistryInv => VisitsMeetTheLiving
  BY VisitsAreWhole DEF VisitsMeetTheLiving
<1> QED BY <1>1, <1>2, <1>3, PTL DEF Spec

\* The breakpoints, with any sources, lines, functions and number of requests.
THEOREM BreakpointsAlwaysKeepWord == Spec => []BreakpointsKeepWord
<1>1. Init => DebuggeeInv
  BY DebuggeeInitially DEF Init
<1>2. DebuggeeInv /\ [Next]_allVars => DebuggeeInv'
  BY PartsAssumption, PartsStep, StepKeepsDebuggeeInv
<1>3. DebuggeeInv => BreakpointsKeepWord
  BY BreakpointsAreAsAsked DEF BreakpointsKeepWord
<1> QED BY <1>1, <1>2, <1>3, PTL DEF Spec

\* What a pause shows, with any depth of the stack and any number of variables.
THEOREM NothingEverOutlivesThePause == Spec => []NothingOutlivesThePause
<1>1. Init => VariablesInv
  BY VariablesInitially DEF Init
<1>2. VariablesInv /\ [Next]_allVars => VariablesInv'
  BY PartsStep, StepKeepsVariablesInv
<1>3. VariablesInv => NothingOutlivesThePause
  BY NothingIsLeft
<1> QED BY <1>1, <1>2, <1>3, PTL DEF Spec

\* The native values of Lua objects, with any objects, any stack and any number of values.
THEOREM ValuesAlwaysKeepWord == Spec => []ValuesKeepWord
<1>1. Init => LuaInv
  BY LuaInitially DEF Init
<1>2. LuaInv /\ [Next]_allVars => LuaInv'
  BY PartsAssumption, PartsStep, StepKeepsLuaInv
<1>3. LuaInv => ValuesKeepWord
  BY PartsAssumption, ValuesDenote, ScalarsComeBack DEF ValuesKeepWord
<1> QED BY <1>1, <1>2, <1>3, PTL DEF Spec

=============================================================================
