-------------------------- MODULE ServiceProvider --------------------------
(***************************************************************************)
(* ServiceProviderImpl (src/service/service_provider_impl.cpp): in which   *)
(* order the services are initialised, shut down and disposed.  The three  *)
(* operations are coroutines that call services in batches: a batch is     *)
(* awaited before the next one is called.  A service stands for the types  *)
(* it exposes, so that dependencies are sets of services.                  *)
(***************************************************************************)
EXTENDS Naturals, Sequences, SequencesExt

CONSTANTS Accessors,  \* m_accessors, a sequence of services
          Optional    \* services that may lack IServiceInitialization or IServiceShutdown

Services == ToSet(Accessors)

ASSUME AccessorsAssumption == Accessors \in Seq(Services) /\ IsInjective(Accessors)
ASSUME OptionalAssumption == Optional \subseteq Services

VARIABLES
  dependencies,   \* what each service returns from getServiceDependencies()
  initialization, \* services with IServiceInitialization
  shutdown,       \* services with IServiceShutdown
  created,        \* services that exist: the others are created when they are asked for
  running,        \* the operation whose coroutine runs
  todo,           \* the batches it has still to call
  pending,        \* services whose task it awaits
  begun,          \* the calls that were made
  rejected        \* has an operation been rejected

spVars == <<dependencies, initialization, shutdown, created, running, todo, pending,
            begun, rejected>>
interfaces == <<dependencies, initialization, shutdown>>

\* Acyclic dependencies; the code aborts on others.  Only an initialization has any.
AcyclicDependencies ==
  UNION { { [s \in Services |-> {d \in Services : <<s, d>> \in edges}] :
              edges \in SUBSET {p \in Services \X Services : rank[p[2]] < rank[p[1]]} } :
          rank \in {r \in [Services -> 1..Len(Accessors)] : IsInjective(r)} }

SpInit ==
  /\ dependencies \in AcyclicDependencies
  /\ initialization \in {S \in SUBSET Services : Services \ S \subseteq Optional}
  /\ \A s \in Services \ initialization : dependencies[s] = {}
  /\ shutdown \in {S \in SUBSET Services : Services \ S \subseteq Optional}
  /\ created = {}
  /\ running = "none" /\ todo = << >> /\ pending = {} /\ begun = {} /\ rejected = FALSE

\* A service is created when its accessor is first asked for an interface.
Create(services) == created' = created \cup services

-----------------------------------------------------------------------------
(* OrderedServiceListBuilder *)

\* The entries as getServiceEntry makes them of the services that take part: one, then
\* its dependencies.  A visit is of the services to look for, the entries there are, and
\* how far it goes through the accessors; the last of these comes after the ones before.
Visits == (SUBSET Services) \X Seq(Services) \X (0..Len(Accessors))
Entries(members) ==
  LET visit[v \in Visits] ==
        IF v[3] = 0 THEN v[2]
        ELSE [entries \in Seq(Services) |->
               LET s == Accessors[v[3]]
               IN  IF s \in v[1] \cap members /\ s \notin ToSet(entries)
                     THEN visit[<<dependencies[s], Append(entries, s), Len(Accessors)>>]
                     ELSE entries][visit[<<v[1], v[2], v[3] - 1>>]]
  IN  visit[<<members, << >>, Len(Accessors)>>]

\* A mutant of Collected: what the dependencies depend on is left out.
CollectedDirect(members) == dependencies

\* The types an entry collects, its own and those of its dependencies that take part:
\* what is in every set that is closed in that way.
Collected(members) ==
  [s \in Services |->
    {t \in Services :
       \A C \in SUBSET Services :
         dependencies[s] \cup UNION {dependencies[o] : o \in C \cap members} \subseteq C => t \in C}]

\* std::list::sort, a stable merge sort of the two halves; before[s] is what goes
\* before s.
Merged(before) ==
  LET merge[runs \in Seq(Services) \X Seq(Services)] ==
        LET a == runs[1]
            b == runs[2]
        IN  IF a = << >> THEN b
            ELSE IF b = << >> THEN a
            ELSE IF Head(b) \in before[Head(a)] THEN <<Head(b)>> \o merge[<<a, Tail(b)>>]
            ELSE <<Head(a)>> \o merge[<<Tail(a), b>>]
  IN  merge

Sorted(list, before) ==
  LET sort[seq \in Seq(Services)] ==
        LET half == Len(seq) \div 2
        IN  IF Len(seq) < 2 THEN seq
            ELSE Merged(before)[<<sort[SubSeq(seq, 1, half)],
                                  sort[SubSeq(seq, half + 1, Len(seq))]>>]
  IN  sort[list]

\* The first list of takeOutServiceList; its order does not matter.
Independent(members) ==
  LET collected == Collected(members) IN {s \in members : collected[s] = {}}

\* The second: what is left of the list sorted by "the right one depends on the left
\* one", once those without dependencies are taken out.
Dependent(members) ==
  LET collected == Collected(members)
      keep[list \in Seq(Services)] ==
        IF list = << >> THEN << >>
        ELSE IF collected[Head(list)] = {} THEN keep[Tail(list)]
        ELSE <<Head(list)>> \o keep[Tail(list)]
  IN  keep[Sorted(Entries(members), collected)]

OneByOne(seq) == [i \in 1..Len(seq) |-> {seq[i]}]

\* makeInitOrderedServiceList: the independent ones at once, then one by one.
InitBatches ==
  <<Independent(initialization)>> \o OneByOne(Dependent(initialization))

\* makeShutdownOrderedServiceList: the dependent ones one by one in reverse, then
\* at once the independent ones and those without an initialization.
ShutdownBatches ==
  LET members == shutdown \cap created \cap initialization
  IN  OneByOne(Reverse(Dependent(members)))
      \o <<Independent(members) \cup ((shutdown \cap created) \ initialization)>>

-----------------------------------------------------------------------------
(* The operations *)

\* preInitServices and initServices: initServicesInternal up to its first batch.
\* Asking for the initialization creates the services that have one.
InitServices(operation) ==
  /\ running = "none" /\ running' = operation
  /\ Create(initialization)
  /\ todo' = InitBatches
  /\ UNCHANGED <<interfaces, pending, begun, rejected>>

\* shutdownServices does not create services any more.
ShutdownServices ==
  /\ running = "none" /\ running' = "shutdown"
  /\ todo' = ShutdownBatches
  /\ UNCHANGED <<interfaces, created, pending, begun, rejected>>

\* A mutant of NextBatch: waiting for no task at all is never over.
NextBatchOfSome ==
  /\ running # "none" /\ pending = {} /\ todo # << >>
  /\ Head(todo) # {}
  /\ pending' = Head(todo) /\ todo' = Tail(todo)
  /\ begun' = begun \cup ({running} \X Head(todo))
  /\ UNCHANGED <<interfaces, created, running, rejected>>

NextBatch ==
  /\ running # "none" /\ pending = {} /\ todo # << >>
  /\ pending' = Head(todo) /\ todo' = Tail(todo)
  /\ begun' = begun \cup ({running} \X Head(todo))
  /\ UNCHANGED <<interfaces, created, running, rejected>>

\* The task of a service is ready.  A rejected one goes unnoticed in a batch.
TaskDone(s) ==
  /\ s \in pending
  /\ pending' = pending \ {s}
  /\ UNCHANGED <<interfaces, created, running, todo, begun, rejected>>

\* A rejected task of a dependent service is rethrown: the operation is over.
TaskRejected(s) ==
  /\ s \in pending
  /\ running # "dispose" /\ dependencies[s] # {}
  /\ pending' = {} /\ todo' = << >>
  /\ running' = "none" /\ rejected' = TRUE
  /\ UNCHANGED <<interfaces, created, begun>>

\* After the shutdown whatever exists by then is disposed, all at once.
DisposeServices ==
  /\ running = "shutdown" /\ pending = {} /\ todo = << >>
  /\ running' = "dispose"
  /\ todo' = <<created>>
  /\ UNCHANGED <<interfaces, created, pending, begun, rejected>>

Return ==
  /\ running \in {"preInit", "init", "dispose"} /\ pending = {} /\ todo = << >>
  /\ running' = "none"
  /\ UNCHANGED <<interfaces, created, todo, pending, begun, rejected>>

\* The calls of services come back.
ServiceCalls == NextBatch \/ DisposeServices \/ Return \/ \E s \in Services : TaskDone(s) \/ TaskRejected(s)

\* Somebody asks for a service, which creates it, during a shutdown too.
Get(s) ==
  /\ s \notin created
  /\ Create({s})
  /\ UNCHANGED <<interfaces, running, todo, pending, begun, rejected>>

-----------------------------------------------------------------------------
(* Properties *)

Ended(operation, s) ==
  <<operation, s>> \in begun /\ ~(running = operation /\ s \in pending)

\* "dependencies come first, followed by other services that use them": a service
\* is neither preinitialised nor initialised before all it depends on.
DependenciesFirst ==
  \A operation \in {"preInit", "init"}, s \in initialization :
    <<operation, s>> \in begun =>
      \A d \in dependencies[s] \cap initialization : Ended(operation, d)

\* A service is not shut down while one that depends on it directly still needs it.
DependentsFirst ==
  \A s, d \in shutdown \cap created :
    <<"shutdown", d>> \in begun /\ d \in dependencies[s] /\ <<"init", s>> \in begun
    => Ended("shutdown", s)

\* Services begin after what they depend on and end before it, batch by batch.
DependencyOrder == DependenciesFirst /\ DependentsFirst

=============================================================================
