---------------------------- MODULE MCDebugging -----------------------------
(* The debug adapter, the scripts that are debugged, and the runtime values *)
(* that both speak in with the properties made of them, for TLC: a         *)
(* behaviour is about one part, the others stay where they begin.          *)
EXTENDS Integers, Sequences, FiniteSets

CONSTANTS None

VARIABLES part, eager, requested, wire, packet, session, request, dropped, debuggee, tasks, ready,
  seqId, written, paused, buffer, iterator, seen, entry, searchPaths, frames, required, imported, loads,
  outcome, type, object, document, origin, applied, garbage, kind,
  careful, number, list, place, parent, held, handlers, handle, dangling, by, called, tree,
  resolvers, holds, workAt, view, did

Requests == <<"initialize", "attach", "setBreakpoints", "source">>
Scripts == {<<"a", "m">>, <<"a", "n">>, <<"b", "n">>, <<"b", "k">>, <<"a", "c">>, <<"b", "s">>}
ScriptImports == [p \in Scripts |-> CASE p[2] = "m" -> <<"n", "k">>
                                     [] p = <<"b", "k">> -> <<"n">>
                                     [] p = <<"b", "n">> -> <<"s">>
                                     [] p[2] = "c" -> <<"n", "c">>
                                     [] OTHER -> <<>>]

Session == INSTANCE DebugSession WITH Commands <- Requests, sent <- written, Keys <- {"k1", "k2"},
           Values <- {"v"}, MaxLines <- 3
Realm == INSTANCE LuaRealm WITH Roots <- {"a", "b"}, Names <- {"m", "n", "k", "z", "c", "s"},
         Files <- Scripts, Imports <- ScriptImports, Silent <- {<<"b", "s">>}, MaxDepth <- 4,
         asked <- required

Num(n) == [kind |-> "int", v |-> n]
Text(s) == [kind |-> "str", v |-> s]
Halves(n) == [kind |-> "float", v |-> n]
Null == [kind |-> "null"]
Some(v) == [kind |-> "some", of |-> v]
Listed(items) == [kind |-> "list", items |-> items]
Dict(members) == [kind |-> "dict", at |-> members]

Of(wrapper, type_) == [kind |-> wrapper, of |-> type_]
Byte == [kind |-> "int", bits |-> 2, signed |-> FALSE]
Long == [kind |-> "int", bits |-> 3, signed |-> TRUE]
Enum == [kind |-> "name", names |-> {"s", "t"}, first |-> "s"]
NativeTypes ==
  {Enum, [kind |-> "object", of |-> [a |-> Byte, b |-> Of("opt", Enum)], order |-> <<"b", "a">>],
   Of("vector", [kind |-> "object", of |-> [a |-> Byte, b |-> Of("opt", Enum)], order |-> <<"b", "a">>]),
   Of("map", Of("vector", [kind |-> "float"])), Of("set", Byte), Of("opt", Of("list", Long)),
   [kind |-> "tuple", of |-> <<Long, [kind |-> "str"], [kind |-> "bool"]>>],
   [kind |-> "tuple", of |-> <<Long, Of("opt", [kind |-> "bool"])>>]}
NativeInputs ==
  {Listed(<<Num(6), Text("-1"), Halves(-3)>>), Listed(<<Null>>), Listed(<<Num(1), Text("x"), Some(Num(2))>>), Null,
   Dict([a |-> Text("2.500000"), b |-> Num(-3)]), Dict([b |-> Null]), Listed(<<Dict([a |-> Num(5)]), Null>>),
   Dict([a |-> Listed(<<Halves(1), Halves(4)>>), b |-> Some(Text("t"))])}
JsonDocuments ==
  {Dict([a |-> Halves(2)]), Dict([a |-> Null, b |-> Text("$x")]), Listed(<<Halves(4), Text("true"), Num(3)>>),
   Listed(<<Dict([b |-> Text("s")]), Dict([a |-> Num(-1)])>>), Listed(<<>>)}
StringValues == [s \in {"$x"} |-> "y"]
Natives == INSTANCE RuntimeValues WITH Types <- NativeTypes, Inputs <- NativeInputs, Documents <-
           JsonDocuments, KeyOrder <- <<"a", "b">>, GetString <- StringValues, LongBits <- 3, MaxItems <- 1
Events == INSTANCE ValueEvents WITH Wrappers <- {"w1", "w2", "w3"}, Subscriptions <- {"s1"}, MaxSize <- 2

PropertyPaths == {<<"a">>, <<"a", "b">>, <<"", "a", "b", "">>, <<"", "">>}
PropertyValues == {Text("$a"), Text("x"), Listed(<<Text("x")>>)}
Configs == {Dict([a |-> Dict([k |-> Text("$e")])]), Dict([a |-> Listed(<<Text("x")>>), k |-> Text("y")])}
StringPieces == [s \in {"$a", "$e"} |->
                   IF s = "$a" THEN <<[kind |-> "", of |-> <<"a", "k">>]>>
                   ELSE <<[kind |-> "text", of |-> "p"], [kind |-> "env", of |-> "v", text |-> "$e"]>>]
StringEnds == [s \in {"$a", "$e"} |-> IF s = "$a" THEN "z" ELSE ""]
Resolvers == [env |-> [v |-> "w"]]
Settings == INSTANCE Properties WITH Threads <- {"t1", "t2"}, Paths <- PropertyPaths, Written <-
            PropertyValues, Documents <- Configs, Pieces <- StringPieces, Resolved <- Resolvers,
            After <- StringEnds, MaxItems <- 2, MaxDepth <- 2, at <- workAt, seen <- view

sessionVars == <<eager, requested, wire, packet, session, request, dropped, debuggee, tasks,
                 ready, seqId, written, paused>>
headerVars == <<buffer, iterator, seen>>
realmVars == <<entry, searchPaths, frames, required, imported, loads, outcome>>
valueVars == <<type, object, document, origin, applied, garbage>>
eventVars == <<kind, careful, number, list, place, parent, held, handlers, handle, dangling, by,
               called>>
propertyVars == <<tree, resolvers, holds, workAt, view, did>>

Init ==
  /\ part \in {"session", "headers", "realm", "natives", "events", "properties"}
  /\ Session!Init /\ Realm!Init /\ Natives!Init /\ Events!Init /\ Settings!Init
  \* a part at rest has one initial state
  /\ part = "session" \/ eager = FALSE
  /\ part = "headers" \/ buffer = <<>>
  /\ part = "realm" \/ entry = "m"
  /\ part = "natives" \/ (type = Enum /\ garbage = 0)
  /\ part = "events" \/ (kind = "list" /\ careful)

Next ==
  /\ UNCHANGED part
  /\ IF part = "session" THEN Session!SessionNext ELSE UNCHANGED sessionVars
  /\ IF part = "headers" THEN Session!HeaderNext ELSE UNCHANGED headerVars
  /\ IF part = "realm" THEN Realm!Next ELSE UNCHANGED realmVars
  /\ IF part = "natives" THEN Natives!Next ELSE UNCHANGED valueVars
  /\ IF part = "events" THEN Events!Next ELSE UNCHANGED eventVars
  /\ IF part = "properties" THEN Settings!Next ELSE UNCHANGED propertyVars

\* Init and Next of the parts, each with its own fairness while it is at work.
Spec ==
  /\ Init /\ [][Next]_<<part, sessionVars, headerVars, realmVars, valueVars, eventVars, propertyVars>>
  /\ WF_sessionVars(part = "session" /\ Session!SessionLoop)
  /\ WF_sessionVars(part = "session" /\ Session!Handlers)
  /\ WF_realmVars(part = "realm" /\ (Realm!Require \/ Realm!Import \/ Realm!ModuleLoaded))

-----------------------------------------------------------------------------
\* Every client gets its answers, unless it is refused or does not wait for them and comes
\* in pieces, behind itself or into a pause; each under its own number.  And the headers of
\* a packet are all met.
SessionAnswers ==
  [](Session!AnswersAreDistinct /\ Session!EveryHeaderMet) /\ Session!RequestsAnswered

\* A script that was run has run all it requires, and no script runs for ever.
ScriptsRunWhole == [](part = "realm" => Realm!SuccessIsWhole) /\ Realm!ExecutionEnds

\* Whatever is assigned to a native value, it stays of its type, a document that is
\* applied twice changes nothing, and what was saved comes back.
NativesKeepWord == [](Natives!StaysOfItsType /\ Natives!ReapplyingIsIdle) /\ Natives!SavedComesBack

\* The elements of a collection stay where they are while they are held, and a change is
\* told to those who subscribed where it happened and above.
ChangesKeepWord == [](part = "events" => Events!ElementsStayPut) /\ Events!ChangesAreTold

\* A property that is set is found, nothing else is lost, and what a reader was given
\* is what the tree holds while it has the lock.
PropertiesKeepWord == []Settings!ReadersSeeTheTree /\ Settings!SetIsFound

=============================================================================
