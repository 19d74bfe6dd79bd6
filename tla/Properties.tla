----------------------------- MODULE Properties -----------------------------
(* PropertyContainerImpl: a tree of properties under one shared mutex       *)
(* (property_container_impl.cpp). The tree is a JSON document with the      *)
(* values of RuntimeValues. A path is the sequence of what stands between   *)
(* its slashes, empty names included: "/" is <<"", "">>. set and            *)
(* mergeWithValue hold the mutex themselves; getRead and getModify leave it *)
(* locked in an object of their caller, who works on what they returned and *)
(* then drops the lock. A thread that holds the lock makes no other call:   *)
(* it would wait for itself.                                                *)
EXTENDS Naturals, Sequences, SequencesExt

CONSTANTS Threads,
          Paths,      \* the paths that are asked for
          Written,    \* the values that are set
          Documents,  \* the dictionaries that are merged
          Pieces,     \* [string with variables |-> its pieces: [kind, of], kind "text" for text]
          Resolved,   \* [kind of variable |-> [its name |-> what its resolver answers]]
          After,      \* [string with variables |-> the text after the last one]
          MaxItems,   \* bound on the length of an array that is merged into
          MaxDepth    \* bound on variables within variables: the code has none, and does not
                      \* return from a variable that leads to itself

VARIABLES
  tree,        \* m_propsRoot
  resolvers,   \* the kinds in m_variableResolvers
  holds,       \* what a thread holds of the mutex: "none", "shared" or "unique"
  at,          \* the path of the value or container it works on
  seen,        \* what getRead found, expanded
  did          \* the last thing that was done

propertyVars == <<tree, resolvers, holds, at, seen, did>>

Values == INSTANCE RuntimeValues WITH
            Types <- {}, Inputs <- {}, GetString <- <<>>, KeyOrder <- <<>>, LongBits <- 1,
            type <- tree, object <- tree, document <- tree, origin <- tree, applied <- tree,
            garbage <- tree

Empty == Values!Members(<<>>)
Missing == [kind |-> "missing"]
IsDict(v) == v.kind = "dict"
Did(what, path, value) == did' = [what |-> what, path |-> path, value |-> value]

\* strings::Split leaves the empty names to its callers, who skip them.
Names(path) == SelectSeq(path, LAMBDA name : name # "")

\* split_property_path
ParentOf(path) == SubSeq(path, 1, Len(path) - 1)
NameOf(path) == path[Len(path)]

\* findValueAtPath
Find(node, path) ==
  FoldLeft(LAMBDA n, name : IF IsDict(n) /\ name \in DOMAIN n.at THEN n.at[name] ELSE Missing,
           node, Names(path))

\* A mutant of PutAt: a dictionary on the way is made anew.
RECURSIVE PutAtAnew(_, _, _, _)
PutAtAnew(node, names, name, v) ==
  IF ~IsDict(node) \/ name = "" THEN Values!Failed(node)
  ELSE IF names = <<>>
  THEN Values!Done(Values!Members([k \in DOMAIN node.at \cup {name} |->
         IF k # name THEN node.at[k]
         ELSE Values!SetJson(IF name \in DOMAIN node.at THEN node.at[name] ELSE Values!Null, v)]))
  ELSE LET r == PutAtAnew(Empty, SubSeq(names, 2, Len(names)), name, v)
       IN [ok |-> r.ok, v |-> Values!Members([k \in DOMAIN node.at \cup {Head(names)} |->
                                IF k = Head(names) THEN r.v ELSE node.at[k]])]

\* getDictionaryAtPath, making what is missing, and setValue of the dictionary. What
\* was made on the way stays when setValue fails, on an empty name.
RECURSIVE PutAt(_, _, _, _)
PutAt(node, names, name, v) ==
  LET old(k) == IF k \in DOMAIN node.at THEN node.at[k] ELSE Values!Null
      With(k, w) == Values!Members([j \in DOMAIN node.at \cup {k} |-> IF j = k THEN w ELSE node.at[j]])
  IN CASE ~IsDict(node) -> Values!Failed(node)
       [] IsDict(node) /\ names = <<>> /\ name = "" -> Values!Failed(node)
       [] IsDict(node) /\ names = <<>> /\ name # "" -> Values!Done(With(name, Values!SetJson(old(name), v)))
       [] IsDict(node) /\ names # <<>> ->
            LET k == Head(names)
                r == PutAt(IF k \in DOMAIN node.at THEN node.at[k] ELSE Empty, SubSeq(names, 2, Len(names)), name, v)
            IN [ok |-> r.ok, v |-> With(k, r.v)]

-----------------------------------------------------------------------------
RECURSIVE Expand(_, _, _, _)

\* What stands for one variable: the string another property has, and nothing when
\* there is none; what a resolver answers; or the variable as it is.
Piece(root, kinds, piece, depth) ==
  LET found == Find(root, piece.of)
  IN CASE piece.kind = "text" -> piece.of
       [] piece.kind = "" -> IF found.kind = "str" /\ depth > 0
                             THEN Expand(root, kinds, found.v, depth - 1) ELSE ""
       [] piece.kind \in kinds /\ piece.of \in DOMAIN Resolved[piece.kind] ->
            Resolved[piece.kind][piece.of]
       [] OTHER -> piece.text

\* expandConfigString: a string whose variables, and what precedes them, come to
\* nothing stays as it is, with all that follows them.
Expand(root, kinds, s, depth) ==
  IF s \notin DOMAIN Pieces THEN s
  ELSE LET result == FoldLeft(LAMBDA acc, p : acc \o Piece(root, kinds, p, depth), "", Pieces[s])
       IN IF result = "" THEN s ELSE result \o After[s]

\* What a caller is given: a string is expanded when it is read.
View(root, kinds, path) ==
  LET v == Find(root, path) IN IF v.kind = "str" THEN Values!Scalar("str", Expand(root, kinds, v.v, MaxDepth))
                               ELSE v

Short(v) == v.kind = "list" => Len(v.items) < MaxItems

Unlocked == \A t \in Threads : holds[t] = "none"
NotUnique == \A t \in Threads : holds[t] # "unique"

Init ==
  /\ tree = Empty /\ resolvers = {}
  /\ holds = [t \in Threads |-> "none"] /\ at = [t \in Threads |-> <<>>]
  /\ seen = [t \in Threads |-> Missing]
  /\ did = [what |-> "none", path |-> <<>>, value |-> Missing]

\* getRead, and contains when the lock is dropped at once.
GetRead(t, path) ==
  /\ holds[t] = "none" /\ NotUnique
  /\ holds' = [holds EXCEPT ![t] = "shared"] /\ at' = [at EXCEPT ![t] = path]
  /\ seen' = [seen EXCEPT ![t] = View(tree, resolvers, path)]
  /\ Did("read", path, Missing) /\ UNCHANGED <<tree, resolvers>>

\* What getModify returns: a dictionary, or a container in one, that is there.
Container(path) ==
  LET v == Find(tree, path)
  IN IF IsDict(Find(tree, ParentOf(path))) /\ v.kind \in {"dict", "list"} THEN v ELSE Missing

\* getModify: on an error its caller has the lock, and nothing else.
GetModify(t, path) ==
  /\ holds[t] = "none" /\ Unlocked
  /\ holds' = [holds EXCEPT ![t] = "unique"] /\ at' = [at EXCEPT ![t] = path]
  /\ seen' = [seen EXCEPT ![t] = Container(path)]
  /\ Did("modify", path, Missing) /\ UNCHANGED <<tree, resolvers>>

\* Its caller sets a value of the dictionary.
SetValue(t, v) ==
  /\ holds[t] = "unique" /\ seen[t].kind = "dict"
  /\ Short(Find(tree, at[t] \o <<"k">>))
  /\ tree' = PutAt(tree, Names(at[t]), "k", v).v
  /\ Did("set", at[t] \o <<"k">>, v) /\ UNCHANGED <<resolvers, holds, at, seen>>

\* Its caller appends to the array.
AppendValue(t, v) ==
  /\ holds[t] = "unique" /\ seen[t].kind = "list" /\ Short(Find(tree, at[t]))
  /\ tree' = PutAt(tree, Names(ParentOf(at[t])), NameOf(at[t]), Values!Items(<<v>>)).v
  /\ Did("set", at[t], Values!Items(<<v>>)) /\ UNCHANGED <<resolvers, holds, at, seen>>

Unlock(t) ==
  /\ holds[t] # "none"
  /\ holds' = [holds EXCEPT ![t] = "none"] /\ at' = [at EXCEPT ![t] = <<>>]
  /\ seen' = [seen EXCEPT ![t] = Missing]
  /\ Did("unlock", <<>>, Missing) /\ UNCHANGED <<tree, resolvers>>

\* set
SetProperty(path, v) ==
  /\ Unlocked /\ Short(Find(tree, path))
  /\ LET r == PutAt(tree, Names(ParentOf(path)), NameOf(path), v)
     IN tree' = r.v /\ Did(IF r.ok THEN "set" ELSE "failed", path, v)
  /\ UNCHANGED <<resolvers, holds, at, seen>>

\* mergeWithValue
MergeWithValue(doc) ==
  /\ Unlocked /\ \A k \in DOMAIN doc.at : Short(Find(tree, <<k>>))
  /\ tree' = Values!SetJson(tree, doc) /\ Did("merge", <<>>, doc)
  /\ UNCHANGED <<resolvers, holds, at, seen>>

AddVariableResolver(kind) ==
  /\ Unlocked /\ resolvers' = resolvers \cup {kind}
  /\ Did("resolver", <<>>, Missing) /\ UNCHANGED <<tree, holds, at, seen>>

Next ==
  \/ \E t \in Threads : Unlock(t) \/ \E v \in Written : SetValue(t, v) \/ AppendValue(t, v)
  \/ \E t \in Threads, path \in Paths : GetRead(t, path) \/ GetModify(t, path)
  \/ \E path \in Paths, v \in Written : SetProperty(path, v)
  \/ \E doc \in Documents : MergeWithValue(doc)
  \/ \E kind \in DOMAIN Resolved : AddVariableResolver(kind)

Spec == Init /\ [][Next]_propertyVars

-----------------------------------------------------------------------------
\* What getRead returned is what the tree holds as long as its lock is held
\* (property_container.h: the value is read under the caller's lock).
ReadersSeeTheTree ==
  \A t \in Threads : holds[t] = "shared" => seen[t] = View(tree, resolvers, at[t])

\* What was in a dictionary or an array is still there.
Kept(old, new) ==
  /\ old.kind = "dict" /\ new.kind = "dict" => DOMAIN old.at \subseteq DOMAIN new.at
  /\ old.kind = "list" /\ new.kind = "list" => IsPrefix(old.items, new.items)

Apart(p, q) == ~IsPrefix(Names(p), Names(q)) /\ ~IsPrefix(Names(q), Names(p))

\* A string or number that was set is found, at its path and nowhere else; of a
\* dictionary or an array, what was there stays (property_container.h: "collections
\* (arrays and objects/dictionaries) will be merged").
SetIsFound ==
  [][did'.what = "set" =>
       /\ LET now == Find(tree', did'.path)
          IN IF did'.value.kind \in {"dict", "list"} THEN now.kind = did'.value.kind ELSE now = did'.value
       /\ did'.value.kind \in {"dict", "list"} => Kept(Find(tree, did'.path), Find(tree', did'.path))
       /\ Kept(tree, tree')
       /\ \A q \in Paths : Apart(did'.path, q) => Find(tree', q) = Find(tree, q)]_propertyVars
=============================================================================
