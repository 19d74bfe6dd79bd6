------------------------------ MODULE LuaRealm ------------------------------
(***************************************************************************)
(* A realm of scripts: the script manager finds a file along its search    *)
(* paths, ExecuteFile calls the embedded program's require, require loads  *)
(* the file, and the file requires others while it runs.  Name is what a   *)
(* script asks for, a path is a root and a name.                           *)
(***************************************************************************)
EXTENDS Naturals, Sequences, SequencesExt, FiniteSets

CONSTANTS Roots, Names,
          Files,        \* the paths that exist: a set of <<root, name>>
          Imports,      \* of each file the names it requires, in order
          Silent,       \* files that return no value
          MaxDepth      \* the depth of calls at which Lua gives up

VARIABLES
  entry,         \* the name of the file to execute
  searchPaths,   \* m_searchPaths
  frames,        \* the files being loaded, the innermost last: [path, next]
  asked,         \* the name that require was called with
  imported,      \* my_Internals.importedModules
  loads,         \* the files loaded, in order
  outcome        \* of the execution: "none", "running", "ok" or "error"
realmVars == <<entry, searchPaths, frames, asked, imported, loads, outcome>>

NoName == "no name"
Init ==
  /\ entry \in Names
  /\ searchPaths = <<>> /\ frames = <<>> /\ asked = NoName /\ imported = {}
  /\ loads = <<>> /\ outcome = "none"

AddSearchPath(root) ==
  /\ outcome # "running" /\ ~Contains(searchPaths, root)
  /\ searchPaths' = Append(searchPaths, root)
  /\ UNCHANGED <<entry, frames, asked, imported, loads, outcome>>

\* A mutant of ResolvePath: the last root is taken.
ResolvePathLast(name) ==
  LET found == SelectSeq(searchPaths, LAMBDA r : <<r, name>> \in Files)
  IN IF found = <<>> THEN {} ELSE {<<Last(found), name>>}

\* The first root with such a file; nothing if there is none.
ResolvePath(name) ==
  LET found == SelectSeq(searchPaths, LAMBDA r : <<r, name>> \in Files)
  IN IF found = <<>> THEN {} ELSE {<<Head(found), name>>}

ExecuteFile ==
  /\ outcome \in {"none", "error"} /\ searchPaths # <<>>
  /\ asked' = entry /\ outcome' = "running" /\ loads' = <<>>
  /\ UNCHANGED <<entry, searchPaths, frames, imported>>

\* An error goes up through every require, and loads nothing more.
Fail == outcome' = "error" /\ frames' = <<>> /\ asked' = NoName /\ UNCHANGED imported

\* require looks into importedModules under resolvedPath, a variable that
\* does not exist yet: the cache never has anything, and the file is loaded.
Require ==
  /\ outcome = "running" /\ asked # NoName
  /\ IF ResolvePath(asked) = {} \/ Len(frames) >= MaxDepth
     THEN Fail /\ UNCHANGED loads
     ELSE \E path \in ResolvePath(asked) :
            /\ frames' = Append(frames, [path |-> path, next |-> 1])
            /\ loads' = Append(loads, path)
            /\ asked' = NoName
            /\ UNCHANGED <<imported, outcome>>
  /\ UNCHANGED <<entry, searchPaths>>

Top == Last(frames)
Running == outcome = "running" /\ asked = NoName /\ frames # <<>>

\* The file on top requires the next name.
Import ==
  /\ Running /\ Top.next <= Len(Imports[Top.path])
  /\ asked' = Imports[Top.path][Top.next]
  /\ frames' = [frames EXCEPT ![Len(frames)].next = @ + 1]
  /\ UNCHANGED <<entry, searchPaths, imported, loads, outcome>>

\* The file has run.  NativeLoadModule adds a nil to its values: a file
\* without a value makes require fail.
ModuleLoaded ==
  /\ Running /\ Top.next > Len(Imports[Top.path])
  /\ IF Top.path \in Silent THEN Fail
     ELSE /\ frames' = Front(frames)
          /\ imported' = imported \cup {Top.path}
          /\ outcome' = IF Len(frames) = 1 THEN "ok" ELSE outcome
          /\ UNCHANGED asked
  /\ UNCHANGED <<entry, searchPaths, loads>>

Next == (\E r \in Roots : AddSearchPath(r)) \/ ExecuteFile \/ Require \/ Import \/ ModuleLoaded

Fairness == WF_realmVars(Require \/ Import \/ ModuleLoaded)

Spec == Init /\ [][Next]_realmVars /\ Fairness

-----------------------------------------------------------------------------
\* The files that an execution may have to load, and those it can only fail on.
Needs(path) == UNION {ResolvePath(n) : n \in ToSet(Imports[path])}
Reached ==
  LET reach[k \in 0..Cardinality(Files)] ==
        IF k = 0 THEN ResolvePath(entry) ELSE reach[k - 1] \cup UNION {Needs(p) : p \in reach[k - 1]}
  IN reach[Cardinality(Files)]

\* An execution that succeeds has run its file and all that it requires, each
\* found in the first search path that has it, and each with a value for the
\* one that asked; the files that came before it had finished when it did.
SuccessIsWhole ==
  outcome = "ok" =>
    /\ ToSet(loads) = Reached /\ Reached \subseteq imported
    /\ Reached \cap Silent = {}
    /\ \A p \in Reached : \A n \in ToSet(Imports[p]) :
         \E i \in DOMAIN searchPaths : /\ <<searchPaths[i], n>> \in ToSet(loads)
                                       /\ \A j \in 1..(i - 1) : <<searchPaths[j], n>> \notin Files

\* However the files require each other, an execution comes to an end.
ExecutionEnds == outcome = "running" ~> outcome # "running"

\* A file that was loaded is not loaded again, which is what importedModules
\* is for.
LoadedOnce == \A i, j \in DOMAIN loads : i # j => loads[i] # loads[j]

=============================================================================
