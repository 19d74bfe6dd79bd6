------------------------------ MODULE Services ------------------------------
(***************************************************************************)
(* Looking services up: every thread may ask the provider for a type.  The *)
(* instance is cached under the provider's lock, but it is asked for, and  *)
(* a lazy one created, outside of it: its constructor may look up other    *)
(* services.  Beside the services the provider keeps the known classes.    *)
(***************************************************************************)
EXTENDS Naturals, Sequences, SequencesExt, FiniteSets

CONSTANTS
  Accessors,  \* the services
  Lazy,       \* those whose instance is created when it is first asked for
  Types,
  Provides,   \* [Accessors -> SUBSET Types]: hasApi
  Needs,      \* [Lazy -> Seq(Types)]: what their constructors look up
  Classes, Implements,  \* [Classes -> SUBSET Types]
  Threads, MaxFrames, None

\* What the constants must satisfy.
ServicesAssumption ==
  /\ Lazy \subseteq Accessors /\ None \notin Accessors
  /\ Provides \in [Accessors -> SUBSET Types]
  /\ Needs \in [Lazy -> Seq(Types)]
  /\ Implements \in [Classes -> SUBSET Types]

VARIABLES
  accessors,  \* m_accessors, in the order of registration
  instances,  \* m_instances: the accessor whose instance a type was given
  built,      \* how often the instance of an accessor has been created
  mutex,      \* m_mutex of a lazy accessor: who creates its instance
  frames,     \* the calls of each thread, the innermost last
  answers,    \* all that find ever answered: <<type, accessor>>
  classes     \* m_classDescriptors

servicesVars == <<accessors, instances, built, mutex, frames, answers, classes>>

Init ==
  /\ accessors = << >>
  /\ instances = [y \in Types |-> None]
  /\ built = [a \in Accessors |-> IF a \in Lazy THEN 0 ELSE 1]
  /\ mutex = [a \in Lazy |-> None]
  /\ frames = [t \in Threads |-> << >>]
  /\ answers = {}
  /\ classes = << >>

-----------------------------------------------------------------------------
\* find and getAll: the accessors that have the type are collected under the lock.
Having(list, type) == SelectSeq(list, LAMBDA a : type \in Provides[a])

\* A mutant of FirstOf: the service registered last is found.
LastOf(list) == IF list = << >> THEN << >> ELSE <<Last(list)>>

FirstOf(list) == IF list = << >> THEN << >> ELSE <<Head(list)>>

Frame(op, type, lazily, todo) ==
  [op |-> op, type |-> type, lazily |-> lazily, todo |-> todo, needs |-> None]

Top(t) == Last(frames[t])
WithTop(t, frame) == frames' = [frames EXCEPT ![t] = Append(Front(@), frame)]
Pop(t) == frames' = [frames EXCEPT ![t] = Front(@)]

\* findInternal: a cached instance is returned at once.
Find(t, type) ==
  IF instances[type] # None
  THEN /\ answers' = answers \cup {<<type, instances[type]>>}
       /\ UNCHANGED frames
  ELSE /\ frames' = [frames EXCEPT ![t] =
                       Append(@, Frame("find", type, TRUE, FirstOf(Having(accessors, type))))]
       /\ UNCHANGED answers

CallFind(t, type) ==
  /\ frames[t] = << >>
  /\ Find(t, type)
  /\ UNCHANGED <<accessors, instances, built, mutex, classes>>

\* findAllInternal, which the shutdown calls without the lazy creation.
CallFindAll(t, type, lazily) ==
  /\ frames[t] = << >>
  /\ frames' = [frames EXCEPT ![t] =
                  <<Frame("all", type, lazily, Having(accessors, type))>>]
  /\ UNCHANGED <<accessors, instances, built, mutex, answers, classes>>

\* addServiceAccessorInternal.
AddService(t, a) ==
  /\ frames[t] = << >>
  /\ ~Contains(accessors, a)
  /\ accessors' = Append(accessors, a)
  /\ UNCHANGED <<instances, built, mutex, frames, answers, classes>>

\* The end of a frame: find keeps what it has found, unless another thread has.
Answer(t, a) ==
  /\ answers' = IF Top(t).op = "find" THEN answers \cup {<<Top(t).type, a>>} ELSE answers
  /\ instances' = IF Top(t).op = "find" /\ instances[Top(t).type] = None
                  THEN [instances EXCEPT ![Top(t).type] = a] ELSE instances
  /\ WithTop(t, [Top(t) EXCEPT !.todo = Tail(@), !.needs = None])

\* getApi of an accessor that has its instance, or may not create one.
GetApi(t) ==
  /\ frames[t] # << >>
  /\ LET f == Top(t) IN
       /\ f.todo # << >> /\ f.needs = None
       /\ LET a == Head(f.todo) IN
            /\ a \in Lazy => mutex[a] = None
            /\ built[a] > 0 \/ ~f.lazily
            /\ IF built[a] > 0 THEN Answer(t, a)
               ELSE /\ WithTop(t, [f EXCEPT !.todo = Tail(@)])
                    /\ UNCHANGED <<instances, answers>>
  /\ UNCHANGED <<accessors, built, mutex, classes>>

\* getApi of a lazy accessor that nobody has asked yet: its constructor begins.
BeginCreation(t) ==
  /\ frames[t] # << >>
  /\ LET f == Top(t) IN
       /\ f.todo # << >> /\ f.needs = None /\ f.lazily
       /\ LET a == Head(f.todo) IN
            /\ built[a] = 0
            /\ mutex[a] = None
            /\ mutex' = [mutex EXCEPT ![a] = t]
            /\ WithTop(t, [f EXCEPT !.needs = Needs[a]])
  /\ UNCHANGED <<accessors, instances, built, answers, classes>>

\* The constructor looks up the next type it needs.
LookUpNeeded(t) ==
  /\ frames[t] # << >>
  /\ LET f == Top(t)
         inner == Frame("find", Head(f.needs), TRUE, FirstOf(Having(accessors, Head(f.needs))))
         rest == [f EXCEPT !.needs = Tail(@)]
     IN /\ f.needs # None /\ f.needs # << >>
        /\ Len(frames[t]) < MaxFrames
        /\ IF instances[Head(f.needs)] # None
           THEN /\ answers' = answers \cup {<<Head(f.needs), instances[Head(f.needs)]>>}
                /\ WithTop(t, rest)
           ELSE /\ frames' = [frames EXCEPT ![t] = Front(@) \o <<rest, inner>>]
                /\ UNCHANGED answers
  /\ UNCHANGED <<accessors, instances, built, mutex, classes>>

EndCreation(t) ==
  /\ frames[t] # << >>
  /\ LET f == Top(t)
         a == Head(f.todo)
     IN /\ f.needs = << >>
        /\ built' = [built EXCEPT ![a] = @ + 1]
        /\ mutex' = [mutex EXCEPT ![a] = None]
        /\ Answer(t, a)
  /\ UNCHANGED <<accessors, classes>>

\* Nothing left to ask: the call returns.
Return(t) ==
  /\ frames[t] # << >>
  /\ Top(t).todo = << >>
  /\ Pop(t)
  /\ UNCHANGED <<accessors, instances, built, mutex, answers, classes>>

-----------------------------------------------------------------------------
(* The classes: addClass, findClasses of one type, of any and of all types. *)

AddClass(c) ==
  /\ ~Contains(classes, c)
  /\ classes' = Append(classes, c)
  /\ UNCHANGED <<accessors, instances, built, mutex, frames, answers>>

FindClasses(type) == SelectSeq(classes, LAMBDA c : type \in Implements[c])
FindClassesAny(types) == SelectSeq(classes, LAMBDA c : Implements[c] \cap types # {})
FindClassesAll(types) == SelectSeq(classes, LAMBDA c : types \subseteq Implements[c])

\* findClass: the code aborts when several classes have the type.
FindClass(type) == IF Len(FindClasses(type)) = 1 THEN Head(FindClasses(type)) ELSE None

Step(t) == GetApi(t) \/ BeginCreation(t) \/ LookUpNeeded(t) \/ EndCreation(t) \/ Return(t)

ServicesNext ==
  \E t \in Threads :
    \/ \E y \in Types : CallFind(t, y) \/ \E lazily \in BOOLEAN : CallFindAll(t, y, lazily)
    \/ \E a \in Accessors : AddService(t, a)
    \/ Step(t)

ClassesNext == \E c \in Classes : AddClass(c)

Next == ServicesNext \/ ClassesNext

Fairness == \A t \in Threads : WF_servicesVars(Step(t))
Spec == Init /\ [][Next]_servicesVars /\ Fairness

-----------------------------------------------------------------------------
\* Whoever looks a type up, and however the look-ups, the registrations and the
\* lazy creations interleave, all are given the same service, the one registered
\* first, of which there is one instance.
OneServicePerType ==
  /\ \A a \in Accessors : built[a] <= 1
  /\ \A one, other \in answers : one[1] = other[1] => one = other
  /\ \A one \in answers : one[2] = FirstOf(Having(accessors, one[1]))[1] /\ built[one[2]] = 1

\* What has been found once is found ever after.
FoundIsKept == [][\A y \in Types : instances[y] # None => instances'[y] = instances[y]]_instances

\* Every look-up returns: creating what a constructor needs never waits in a circle,
\* as long as the needs are not circular themselves.
LookUpsReturn == \A t \in Threads : []<>(frames[t] = << >>)

\* The classes of all types are among those of any type, in the order of addClass.
ClassesAgree ==
  \A types \in SUBSET Types \ {{}} :
    /\ FindClassesAll(types) = SelectSeq(FindClassesAny(types),
                                         LAMBDA c : \A y \in types : Contains(FindClasses(y), c))
    /\ ToSet(FindClassesAny(types)) = UNION {ToSet(FindClasses(y)) : y \in types}
    /\ \A y \in types : Len(FindClassesAll(types)) = 1 /\ FindClass(y) # None =>
                           FindClassesAll(types) = <<FindClass(y)>>
=============================================================================
