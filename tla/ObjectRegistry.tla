--------------------------- MODULE ObjectRegistry ---------------------------
(***************************************************************************)
(* RuntimeObjectRegistry: objects register themselves, by a weak reference *)
(* or by address, and the runtime visits those of a type, for instance to  *)
(* dispose them.  The registry's mutex is recursive: a visit may add and   *)
(* remove entries on its own thread.  refs counts the references to an     *)
(* object from outside, locked those that the visit has taken.             *)
(***************************************************************************)
EXTENDS Naturals, Sequences, SequencesExt, FiniteSets

CONSTANTS Weakly,      \* objects registered with Ptr<>, that is a weak reference
          ByAddress,   \* objects registered with IRttiObject&
          Wanted,      \* the objects of the type that is visited
          AutoRemoved  \* objects that have called setAutoRemove()

Objects == Weakly \cup ByAddress

\* What the constants must satisfy.
RegistryAssumption ==
  /\ Weakly \cap ByAddress = {} /\ Wanted \subseteq Objects /\ AutoRemoved \subseteq Weakly

VARIABLES
  entries,     \* m_objects
  refs,        \* objects that somebody else refers to
  life,        \* each object: "new", "alive", "dying" (its destructor runs), "dead"
  locked,      \* the instances of the visit, with a reference of its own
  visit, index,\* where the visit is: "idle", "collect", "drop", "callback", "release"
  visited,     \* the objects given to the callback
  awaited,     \* those that had to be: alive and registered when it began
  disturbed    \* has an object of another type been destroyed by the visit
registryVars == <<entries, refs, life, locked, visit, index, visited, awaited,
                  disturbed>>

RegistryInit ==
  /\ entries = << >> /\ refs = {} /\ locked = {}
  /\ life = [o \in Objects |-> "new"]
  /\ visit = "idle" /\ index = 0 /\ visited = {} /\ awaited = {}
  /\ disturbed = FALSE

MutexFree == visit = "idle"
Visit == UNCHANGED <<visit, index, visited, awaited, locked, disturbed>>

\* fastRemoveObjectAt: the last entry takes the place of the removed one.
RemovedAt(list, i) ==
  IF i = Len(list) THEN Front(list) ELSE Front([list EXCEPT ![i] = Last(list)])

\* removeObject: by the identifier of the registration.
Without(list, o) ==
  IF Contains(list, o) THEN RemovedAt(list, CHOOSE i \in 1..Len(list) : list[i] = o)
  ELSE list

\* addObject from the object's constructor.
Register(o) ==
  /\ MutexFree /\ life[o] = "new"
  /\ life' = [life EXCEPT ![o] = "alive"] /\ refs' = refs \cup {o}
  /\ entries' = Append(entries, o)
  /\ Visit

\* The last reference from outside goes.  Without one of the visit the
\* destructor begins.
DropRef(o) ==
  /\ o \in refs
  /\ refs' = refs \ {o}
  /\ life' = IF o \in locked THEN life ELSE [life EXCEPT ![o] = "dying"]
  /\ UNCHANGED entries /\ Visit

\* ~RuntimeObjectRegistration, the last thing the destructor does; an object
\* that removes itself automatically has none.
Unregister(o) ==
  /\ life[o] = "dying" /\ (MutexFree \/ o \in AutoRemoved)
  /\ life' = [life EXCEPT ![o] = "dead"]
  /\ entries' = IF o \in AutoRemoved THEN entries ELSE Without(entries, o)
  /\ UNCHANGED refs /\ Visit

BeginVisit ==
  /\ MutexFree /\ entries # << >>
  /\ visit' = "collect" /\ index' = 1
  /\ locked' = {} /\ visited' = {}
  /\ awaited' = {o \in Wanted : life[o] = "alive" /\ Contains(entries, o)}
  /\ disturbed' = FALSE
  /\ UNCHANGED <<entries, refs, life>>

Current == entries[index]

\* ObjectEntry::lock: a weak reference is tried, an address is trusted.
Lockable(o) == o \in ByAddress \/ life[o] = "alive"

\* A mutant of RemoveExpired: the index goes on although another entry has
\* taken the place.
RemoveExpiredAndSkip ==
  /\ visit = "collect" /\ index <= Len(entries) /\ ~Lockable(Current)
  /\ entries' = RemovedAt(entries, index)
  /\ index' = index + 1
  /\ UNCHANGED <<refs, life, locked, visit, visited, awaited, disturbed>>

RemoveExpired ==
  /\ visit = "collect" /\ index <= Len(entries) /\ ~Lockable(Current)
  /\ entries' = RemovedAt(entries, index)
  /\ UNCHANGED <<refs, life, locked, visit, index, visited, awaited, disturbed>>

Collect ==
  /\ visit = "collect" /\ index <= Len(entries) /\ Lockable(Current)
  /\ locked' = locked \cup {Current}
  /\ IF Current \in Wanted THEN index' = index + 1 /\ UNCHANGED visit
                           ELSE visit' = "drop" /\ UNCHANGED index
  /\ UNCHANGED <<entries, refs, life, visited, awaited, disturbed>>

\* An object of another type is released at once.  If its last reference has
\* gone meanwhile, it dies here, and removes its entry under the loop.
DropOther ==
  /\ visit = "drop"
  /\ locked' = locked \ {Current}
  /\ IF Current \in refs
     THEN UNCHANGED <<life, entries, disturbed>>
     ELSE /\ life' = [life EXCEPT ![Current] = "dead"]
          /\ entries' = IF Current \in AutoRemoved THEN entries ELSE RemovedAt(entries, index)
          /\ disturbed' = TRUE
  /\ visit' = "collect" /\ index' = index + 1
  /\ UNCHANGED <<refs, visited, awaited>>

Callback ==
  /\ visit = "collect" /\ index > Len(entries)
  /\ visit' = "release"
  /\ visited' = locked
  /\ UNCHANGED <<entries, refs, life, locked, index, awaited, disturbed>>

\* scope_on_leave: the references of the visit go, and objects with them.
Release ==
  /\ visit = "release"
  /\ IF locked = {} THEN visit' = "idle" /\ UNCHANGED <<locked, life, entries>>
     ELSE \E o \in locked :
       /\ locked' = locked \ {o}
       /\ life' = IF o \in refs THEN life ELSE [life EXCEPT ![o] = "dead"]
       /\ entries' = IF o \in refs \cup AutoRemoved THEN entries ELSE Without(entries, o)
       /\ UNCHANGED visit
  /\ UNCHANGED <<refs, index, visited, awaited, disturbed>>

RegistryNext ==
  \/ \E o \in Objects : Register(o) \/ DropRef(o) \/ Unregister(o)
  \/ BeginVisit \/ RemoveExpired \/ Collect \/ DropOther \/ Callback \/ Release

-----------------------------------------------------------------------------
\* An object registered with a weak reference is given to the callback alive,
\* and stays alive until the visit has released it.
WeaklyVisitedAlive == \A o \in Weakly \cap locked : life[o] = "alive"

\* A visit reaches every object that is alive from its beginning to its end,
\* while other entries expire and are removed around it.  The exception is a
\* visit that itself destroys an object of another type: the entry that
\* takes the place of the removed one is skipped.
EveryoneVisited ==
  visit = "release" /\ ~disturbed => \A o \in awaited \cap refs : o \in visited

=============================================================================
