------------------------------ MODULE Metadata ------------------------------
(***************************************************************************)
(* What a class says of itself, and what is computed from it: its bases    *)
(* without repetition, the two casts of RTTI, the methods found by name    *)
(* and the attributes with their inheritance; then the registry of the     *)
(* types and the one descriptor that all users of a class share.           *)
(***************************************************************************)
EXTENDS Naturals, Sequences, SequencesExt, FiniteSets

CONSTANTS
  Classes,     \* a sequence: the bases of a class are declared before it
  Bodies,      \* [methods, attributes]: what a class declares besides its bases
  Keys,        \* keys of attributes
  Inherited,   \* those with AttributeOptions::Inherited
  Names,       \* names of methods
  Threads, Descriptors, None

\* What the constants must satisfy.
MetadataAssumption ==
  /\ IsInjective(Classes)
  /\ Inherited \subseteq Keys
  /\ \A body \in Bodies : /\ body.methods \in Seq(Names)
                          /\ body.attributes \in Seq(Keys)

VARIABLES
  declared,    \* of the classes declared so far: [bases, methods, attributes]
  types,       \* the registry of the types, filled as the program starts
  lock,        \* the spin lock of getClassDescriptor
  current,     \* descriptorWeakRef
  refs,        \* strong references to each descriptor
  made,        \* descriptors made so far
  at           \* where each thread is: [loc, d]

classVars == <<declared, types>>
descriptorVars == <<lock, current, refs, made, at>>
metadataVars == <<classVars, descriptorVars>>

Init ==
  /\ declared = << >>
  /\ types = {}
  /\ lock = None /\ current = None
  /\ refs = [d \in Descriptors |-> 0]
  /\ made = {}
  /\ at = [t \in Threads |-> [loc |-> "out", d |-> None]]

-----------------------------------------------------------------------------
(* The classes.  A class is the place of its declaration. *)

ClassIds == 1..Len(declared)

\* A class is declared, its type is registered when the program starts.
Declare(bases, body) ==
  /\ Len(declared) < Len(Classes)
  /\ declared' = Append(declared, [bases |-> bases, methods |-> body.methods,
                                   attributes |-> body.attributes])
  /\ types' = types \cup {Len(declared) + 1}
  /\ UNCHANGED descriptorVars

DeclareNext ==
  \E bases \in {b \in UNION {[1..n -> ClassIds] : n \in 0..Len(declared)} : IsInjective(b)},
     body \in Bodies : Declare(bases, body)

\* ClassDirectBase, ClassAllBase: its bases, then all those of each base.
DirectBases(c) == declared[c].bases
RECURSIVE AllBases(_)
AllBases(c) == FoldLeft(LAMBDA list, b : list \o AllBases(b), DirectBases(c), DirectBases(c))

\* ClassAllUniqueBase: the first occurrence stays.
Distinct(list) == FoldLeft(LAMBDA r, x : IF Contains(r, x) THEN r ELSE Append(r, x), << >>, list)

AllUniqueBases(c) == Distinct(AllBases(c))

\* runtimeIs: one of the list of the bases, or the class itself.
RuntimeIs(c, type) == type \in types /\ Contains(<<c>> \o AllUniqueBases(c), type)

\* runtimeCast: down the bases, the first path that arrives; the path is what a
\* pointer to the target is made from.
RECURSIVE RuntimeCast(_, _)
RuntimeCast(c, type) ==
  IF c = type THEN <<c>>
  ELSE LET found == SelectSeq([i \in 1..Len(DirectBases(c)) |->
                                 RuntimeCast(DirectBases(c)[i], type)],
                              LAMBDA path : path # << >>)
       IN IF found = << >> THEN << >> ELSE <<c>> \o Head(found)

\* The interfaces of a descriptor: the bases, then the class itself.
ApiCollection(c) == Append(AllUniqueBases(c), c)
FindInterface(c, type) == Contains(ApiCollection(c), type)

\* findMethod: the first interface that declares the name.
FindMethod(c, name) ==
  LET with == SelectSeq(ApiCollection(c), LAMBDA i : Contains(declared[i].methods, name))
  IN IF with = << >> THEN None ELSE Head(with)

\* invokeInstanceImpl: the instance is cast to the interface of the method.
Invocable(c, name) == FindMethod(c, name) # None /\ RuntimeCast(c, FindMethod(c, name)) # << >>

\* getClassAllAttributes: its own, then what the bases have of the inherited keys.
AttributesOf(c) == [i \in 1..Len(declared[c].attributes) |->
                      [key |-> declared[c].attributes[i], of |-> c]]
AllAttributes(c) ==
  AttributesOf(c) \o
    FlattenSeq([i \in 1..Len(AllUniqueBases(c)) |->
                  SelectSeq(AttributesOf(AllUniqueBases(c)[i]),
                            LAMBDA a : a.key \in Inherited)])

\* RuntimeAttributeContainer: its keys once each, the first value, all values.
UniqueKeys(c) == {a.key : a \in ToSet(AllAttributes(c))}
GetAllValues(c, key) == SelectSeq(AllAttributes(c), LAMBDA a : a.key = key)
GetValue(c, key) == IF key \in UniqueKeys(c) THEN Head(GetAllValues(c, key)).of ELSE None

-----------------------------------------------------------------------------
(* getClassDescriptor: one descriptor for all, as long as somebody holds it. *)

Goto(t, loc, d) == at' = [at EXCEPT ![t] = [loc |-> loc, d |-> d]]

EnterLock(t) ==
  /\ at[t].loc = "out"
  /\ lock = None /\ lock' = t
  /\ Goto(t, "look", None)
  /\ UNCHANGED <<classVars, current, refs, made>>

\* descriptorWeakRef.lock(): another reference, if there is one left.
LockWeak(t) ==
  /\ at[t].loc = "look"
  /\ IF current # None /\ refs[current] > 0
     THEN /\ refs' = [refs EXCEPT ![current] = @ + 1]
          /\ Goto(t, "leave", current)
     ELSE /\ Goto(t, "make", None)
          /\ UNCHANGED refs
  /\ UNCHANGED <<classVars, lock, current, made>>

MakeDescriptor(t) ==
  /\ at[t].loc = "make"
  /\ \E d \in Descriptors \ made :
       /\ made' = made \cup {d}
       /\ refs' = [refs EXCEPT ![d] = 1]
       /\ Goto(t, "keep", d)
  /\ UNCHANGED <<classVars, lock, current>>

KeepWeak(t) ==
  /\ at[t].loc = "keep"
  /\ current' = at[t].d
  /\ Goto(t, "leave", at[t].d)
  /\ UNCHANGED <<classVars, lock, refs, made>>

LeaveLock(t) ==
  /\ at[t].loc = "leave"
  /\ lock' = None
  /\ Goto(t, "has", at[t].d)
  /\ UNCHANGED <<classVars, current, refs, made>>

\* The user lets the descriptor go; a dead one that nobody refers to is made anew.
ReleaseDescriptor(t) ==
  /\ at[t].loc = "has"
  /\ refs' = [refs EXCEPT ![at[t].d] = @ - 1]
  /\ Goto(t, "out", None)
  /\ made' = {d \in made : refs'[d] > 0 \/ d = current}
  /\ UNCHANGED <<classVars, lock, current>>

DescriptorNext ==
  \E t \in Threads : \/ EnterLock(t) \/ LockWeak(t) \/ MakeDescriptor(t) \/ KeepWeak(t)
                     \/ LeaveLock(t) \/ ReleaseDescriptor(t)

Next == DeclareNext \/ DescriptorNext

Spec == Init /\ [][Next]_metadataVars

-----------------------------------------------------------------------------
\* Two ways to walk the bases come to the same answer: an object gives a pointer
\* exactly to the types it says it is, which are those its descriptor lists.
CastsAgree ==
  \A c, type \in ClassIds :
    /\ RuntimeIs(c, type) <=> RuntimeCast(c, type) # << >>
    /\ RuntimeIs(c, type) <=> FindInterface(c, type)

\* A method found by its name can be invoked on any instance, wherever in the
\* hierarchy it was declared; and one that some base declares is found.
MethodsAreInvocable ==
  \A c \in ClassIds, name \in Names :
    /\ FindMethod(c, name) # None => Invocable(c, name)
    /\ (\E b \in ClassIds : RuntimeCast(c, b) # << >> /\ Contains(declared[b].methods, name))
         => FindMethod(c, name) # None

\* What a class declares itself wins over its bases; what comes from a base is
\* marked as inherited and comes from there once, by however many paths.
OwnAttributesWin ==
  \A c \in ClassIds, key \in Keys :
    /\ Contains(declared[c].attributes, key) => GetValue(c, key) = c
    /\ GetValue(c, key) \notin {c, None} => key \in Inherited
    /\ \A b \in ClassIds \ {c} :
         LET from == SelectSeq(GetAllValues(c, key), LAMBDA a : a.of = b)
         IN Len(from) = IF key \in Inherited /\ RuntimeCast(c, b) # << >>
                        THEN Len(SelectSeq(declared[b].attributes, LAMBDA k : k = key)) ELSE 0

\* At any time the users of a class share one descriptor.
OneDescriptor == Cardinality({d \in Descriptors : refs[d] > 0}) <= 1

MetadataAgrees == CastsAgree /\ MethodsAreInvocable /\ OwnAttributesWin /\ OneDescriptor

\* Violated, and not a property of any run: the value of an overriding base wins
\* over the one it overrides.  A base that is reached by a shorter path comes first.
MostDerivedWins ==
  \A c, b, e \in ClassIds, key \in Inherited :
    /\ b # c /\ e # b
    /\ RuntimeCast(c, b) # << >> /\ RuntimeCast(b, e) # << >>
    /\ Contains(declared[b].attributes, key)
    => GetValue(c, key) # e
=============================================================================
