---------------------------- MODULE ValueEvents -----------------------------
(* The wrappers through which native data are seen as runtime values, what  *)
(* keeps them alive, and the notification of changes (native_value_base.h,  *)
(* runtime_value_events.h). The data are an object with the fields "n", a   *)
(* number, and "l", a collection of numbers. A wrapper keeps the one it was *)
(* got from alive through that one's guard, and a collection refuses to     *)
(* move its elements while its guard is alive.                              *)
EXTENDS Naturals, Sequences, FiniteSets, FiniteSetsExt

CONSTANTS Wrappers, Subscriptions, None,
          MaxSize      \* bound on the elements of the collection

VARIABLES
  kind,        \* "vector" or "list"
  careful,     \* whether users give a value one wrapper at a time, and use only its own
               \* to replace the collection
  number, list,    \* the data
  place,       \* what a wrapper shows: <<>>, <<"n">>, <<"l">>, <<"l", i>>, or None
  parent,      \* the wrapper whose guard a wrapper holds
  held,        \* wrappers the user has a Ptr to
  handlers,    \* m_changeHandlers
  handle,      \* the wrapper a SubscriptionHandle refers to, weakly
  dangling,    \* wrappers of an element that has moved or gone
  by, called   \* the wrapper last changed through, and the subscriptions that were called

eventVars == <<kind, careful, number, list, place, parent, held, handlers, handle, dangling, by, called>>

Living == {w \in Wrappers : place[w] # None}
Elements == {w \in Living : Len(place[w]) = 2}

RECURSIVE Lineage(_)
Lineage(w) == IF parent[w] = None THEN {w} ELSE {w} \cup Lineage(parent[w])

\* A mutant of HasChildren: the guard is not looked at.
HasChildrenNever(w) == FALSE

\* hasChildren: the guard of the wrapper is alive.
HasChildren(w) == \E child \in Living : parent[child] = w

Init ==
  /\ kind \in {"vector", "list"} /\ careful \in BOOLEAN /\ number = 0 /\ list = <<>>
  /\ place = [w \in Wrappers |-> None] /\ parent = [w \in Wrappers |-> None]
  /\ held = {} /\ handlers = [w \in Wrappers |-> <<>>]
  /\ handle = [s \in Subscriptions |-> None]
  /\ dangling = {} /\ by = None /\ called = {}

Quiet == by' = None /\ called' = {}

\* makeValueRef, and setParent by the wrapper it is got from.
Wrap(new, what, from) ==
  /\ place[new] = None /\ (careful => \A w \in Living : place[w] # what)
  /\ place' = [place EXCEPT ![new] = what]
  /\ parent' = [parent EXCEPT ![new] = from]
  /\ held' = held \cup {new}
  /\ Quiet /\ UNCHANGED <<kind, careful, number, list, handlers, handle, dangling>>

MakeValueRef(new) == Wrap(new, <<>>, None)

\* getValue of the object: makeField
GetValue(w, new, key) == w \in held /\ place[w] = <<>> /\ Wrap(new, <<key>>, w)

\* getAt of the collection: makeChildValue
GetAt(w, new, i) == w \in held /\ place[w] = <<"l">> /\ i \in DOMAIN list /\ Wrap(new, <<"l", i>>, w)

\* The user drops a wrapper. With it go those that nothing refers to any more: a
\* guard lives as long as a wrapper that was got from its owner.
Drop(w) ==
  /\ w \in held /\ held' = held \ {w}
  /\ LET kept == UNION {Lineage(v) : v \in held'}
     IN /\ place' = [v \in Wrappers |-> IF v \in kept THEN place[v] ELSE None]
        /\ parent' = [v \in Wrappers |-> IF v \in kept THEN parent[v] ELSE None]
        /\ handlers' = [v \in Wrappers |-> IF v \in kept THEN handlers[v] ELSE <<>>]
        /\ handle' = [s \in Subscriptions |-> IF handle[s] \in kept THEN handle[s] ELSE None]
        /\ dangling' = dangling \cap kept
  /\ Quiet /\ UNCHANGED <<kind, careful, number, list>>

-----------------------------------------------------------------------------
\* subscribeOnChanges
SubscribeOnChanges(w, s) ==
  /\ w \in held /\ handle[s] = None
  /\ handlers' = [handlers EXCEPT ![w] = Append(@, s)]
  /\ handle' = [handle EXCEPT ![s] = w]
  /\ Quiet /\ UNCHANGED <<kind, careful, number, list, place, parent, held, dangling>>

\* SubscriptionHandle::reset, unsubscribe
Reset(s) ==
  /\ handle[s] # None
  /\ handlers' = [handlers EXCEPT ![handle[s]] = SelectSeq(@, LAMBDA e : e # s)]
  /\ handle' = [handle EXCEPT ![s] = None]
  /\ Quiet /\ UNCHANGED <<kind, careful, number, list, place, parent, held, dangling>>

\* notifyHandlers of one wrapper.
NotifyHandlers(w) == {handlers[w][i] : i \in DOMAIN handlers[w]}

\* notifyChanged: the handlers of the wrapper, then those of the ones it was got from.
NotifyChanged(w) == by' = w /\ called' = UNION {NotifyHandlers(v) : v \in Lineage(w)}

Data(n, l) ==
  /\ number' = n /\ list' = l
  /\ UNCHANGED <<kind, careful, place, parent, held, handlers, handle>>

\* setInt64 of a number, through its own wrapper.
SetInt64(w, v) ==
  /\ w \in held \ dangling
  /\ \/ place[w] = <<"n">> /\ Data(v, list)
     \/ w \in Elements /\ Data(number, [list EXCEPT ![place[w][2]] = v])
  /\ NotifyChanged(w) /\ UNCHANGED dangling

\* setValue of a field: through a wrapper made for it, which has the object's as its
\* parent, and once more when the scope of the change ends.
SetNumber(w, v) ==
  /\ w \in held /\ place[w] = <<>>
  /\ Data(v, list) /\ NotifyChanged(w) /\ UNCHANGED dangling

\* The same for the collection, which is cleared and filled again. The wrapper made
\* for it has no children, whoever else shows an element.
SetList(w, v) ==
  /\ w \in held /\ place[w] = <<>> /\ (careful => Elements = {})
  /\ Data(number, <<v>>) /\ NotifyChanged(w)
  /\ dangling' = dangling \cup Elements

\* setAt of a vector or a list: through a wrapper without a parent. Nobody is told.
SetAt(w, i, v) ==
  /\ w \in held /\ place[w] = <<"l">> /\ i \in DOMAIN list
  /\ Data(number, [list EXCEPT ![i] = v]) /\ Quiet /\ UNCHANGED dangling

\* append to a vector, whose elements may move.
AppendVector(w, v) ==
  /\ w \in held /\ place[w] = <<"l">> /\ kind = "vector" /\ Len(list) < MaxSize
  /\ ~HasChildren(w)
  /\ Data(number, Append(list, v)) /\ NotifyChanged(w)
  /\ dangling' \in {dangling, dangling \cup Elements}

\* append to a list, whose elements stay where they are.
AppendList(w, v) ==
  /\ w \in held /\ place[w] = <<"l">> /\ kind = "list" /\ Len(list) < MaxSize
  /\ Data(number, Append(list, v)) /\ NotifyChanged(w) /\ UNCHANGED dangling

Clear(w) ==
  /\ w \in held /\ place[w] = <<"l">> /\ ~HasChildren(w)
  /\ Data(number, <<>>) /\ NotifyChanged(w)
  /\ dangling' = dangling \cup Elements

Next ==
  \/ \E w \in Wrappers : MakeValueRef(w) \/ Drop(w) \/ Clear(w)
  \/ \E w, new \in Wrappers, key \in {"n", "l"} : GetValue(w, new, key)
  \/ \E w, new \in Wrappers, i \in 1..MaxSize : GetAt(w, new, i)
  \/ \E s \in Subscriptions : Reset(s) \/ \E w \in Wrappers : SubscribeOnChanges(w, s)
  \/ \E w \in Wrappers, v \in {0, 1} :
       \/ SetInt64(w, v) \/ SetNumber(w, v) \/ SetList(w, v) \/ AppendVector(w, v) \/ AppendList(w, v)
       \/ \E i \in 1..MaxSize : SetAt(w, i, v)

Spec == Init /\ [][Next]_eventVars

-----------------------------------------------------------------------------
\* A value of the data that a user holds is where it was: the collection does not move
\* its elements under a wrapper (the MY_DEBUG_FATAL of native_collection.h:78, 93, 111).
ElementsStayPut == careful => dangling = {}

\* While a wrapper is held, those it was got from live (the guard of
\* native_value_base.h:257), and a change made through it is told to all their handlers,
\* and to no others.
ChangesAreTold ==
  [][by' # None =>
      /\ Lineage(by') \subseteq Living
      /\ called' = {s \in Subscriptions : handle[s] # None /\ handle[s] \in Lineage(by')}]_eventVars
=============================================================================
