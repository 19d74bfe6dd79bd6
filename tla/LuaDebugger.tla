---------------------------- MODULE LuaDebugger -----------------------------
(***************************************************************************)
(* What a debug session has in a Lua state.  LuaDebuggeeImpl: the break-   *)
(* points it has set, its hook, and the session table (DebuggerState) that *)
(* the hook finds the debuggee by.  LuaLock's lock and unlock do nothing   *)
(* in LuaApp, so that calling lock() twice costs nothing.                  *)
(*                                                                         *)
(* And what a stopped script shows: the frames of a StackTraceProvider and *)
(* the variables that VariableManager holds for them.  A compound variable *)
(* has a number, the number of its parent, and children once it was        *)
(* expanded; watched values hang below a root that keeps a reference to    *)
(* each of them.  All goes when the registrations of the provider go.      *)
(***************************************************************************)
EXTENDS Naturals, Sequences, SequencesExt, FiniteSets

CONSTANTS Sources, Lines, Names,   \* what breakpoints are set on
          MaxLines,                \* bounds the lines of one request
          MaxRequests,             \* and the requests for breakpoints
          Frames,                  \* the depth of the Lua stack
          MaxId,                   \* bounds the numbers of variables
          MaxChildren              \* and the compound values found in one variable

\* What the constants must satisfy.
LuaDebuggerAssumption == MaxLines \in Nat

VARIABLES
  sources,      \* m_sources: the id of a source is its place
  sourceBps,    \* m_sourceBreakpoints
  functionBps,  \* m_functionBreakpoints
  nextBpId, requests,
  hook,         \* the hook of the Lua state: "none", "script" or "debugger"
  prevHook,     \* m_prevLuaHook
  installed,    \* the session table is there
  wanted,       \* of each source the lines of the last request
  told,         \* the ids that request was answered with
  named,        \* the functions of the last request
  traced        \* the last event of the hook: "line" or "call", what, and "stop" or "go"
debuggeeVars == <<sources, sourceBps, functionBps, nextBpId, requests, hook, prevHook, installed,
                  wanted, told, named, traced>>

VARIABLES
  stopped,      \* the provider is there
  stackFrames,  \* _stackFrames: the levels that have a number
  frameScopes,  \* the roots registered for each frame
  watch,        \* the root of the watched values, or 0
  closing,      \* the registrations still to be reset, the provider being destroyed
  nextId,       \* _nextVariableId
  variables,    \* _compoundVariables: number, parent and key
  expanded,     \* the variables whose children were asked for
  watchRefs,    \* the references kept in the debugger's table
  left          \* how many values GetVariables and EvaluateWatch left on the Lua stack
variableVars == <<stopped, stackFrames, frameScopes, watch, closing, nextId, variables, expanded,
                  watchRefs, left>>

DebuggeeInit ==
  /\ sources = <<>> /\ sourceBps = {} /\ functionBps = {} /\ nextBpId = 0 /\ requests = 0
  /\ hook \in {"none", "script"} /\ prevHook = "none" /\ installed = FALSE
  /\ wanted = [s \in Sources |-> {}] /\ told = [s \in Sources |-> {}]
  /\ named = {} /\ traced = <<>>

SourceId(s, list) == CHOOSE i \in DOMAIN list : list[i] = s
StoreSource(s) == IF Contains(sources, s) THEN sources ELSE Append(sources, s)

\* What setBreakpoints adds: an id from the counter for each line in order.
NewBps(id, lines) ==
  {[source |-> id, id |-> nextBpId + i, line |-> lines[i]] : i \in DOMAIN lines}

\* A mutant of SetBreakpoints: what the source had stays.
SetBreakpointsKeep(s, lines) ==
  /\ requests < MaxRequests /\ requests' = requests + 1
  /\ sources' = StoreSource(s)
  /\ sourceBps' = sourceBps \cup NewBps(SourceId(s, sources'), lines)
  /\ nextBpId' = nextBpId + Len(lines)
  /\ wanted' = [wanted EXCEPT ![s] = ToSet(lines)]
  /\ told' = [told EXCEPT ![s] = {nextBpId + i : i \in DOMAIN lines}]
  /\ traced' = <<>> /\ UNCHANGED <<functionBps, hook, prevHook, installed, named>>

SetBreakpoints(s, lines) ==
  /\ requests < MaxRequests /\ requests' = requests + 1
  /\ sources' = StoreSource(s)
  /\ LET id == SourceId(s, sources')
     IN sourceBps' = {bp \in sourceBps : bp.source # id} \cup NewBps(id, lines)
  /\ nextBpId' = nextBpId + Len(lines)
  /\ wanted' = [wanted EXCEPT ![s] = ToSet(lines)]
  /\ told' = [told EXCEPT ![s] = {nextBpId + i : i \in DOMAIN lines}]
  /\ traced' = <<>> /\ UNCHANGED <<functionBps, hook, prevHook, installed, named>>

\* The answer is empty: the client does not hear of these ids.
SetFunctionBreakpoints(names) ==
  /\ requests < MaxRequests /\ requests' = requests + 1
  /\ functionBps' = {[id |-> nextBpId + i, name |-> names[i]] : i \in DOMAIN names}
  /\ nextBpId' = nextBpId + Len(names)
  /\ named' = ToSet(names) /\ traced' = <<>>
  /\ UNCHANGED <<sources, sourceBps, hook, prevHook, installed, wanted, told>>

\* InstallState asserts that there is no table yet.
ConfigurationDone ==
  /\ ~installed
  /\ installed' = TRUE /\ prevHook' = hook /\ hook' = "debugger"
  /\ traced' = <<>>
  /\ UNCHANGED <<sources, sourceBps, functionBps, nextBpId, requests, wanted, told, named>>

\* lua_sethook with an empty mask takes the hook off, whichever it is given:
\* the hook that was there before is not put back.
Disconnect ==
  /\ installed' = FALSE /\ prevHook' = "none" /\ hook' = "none"
  /\ traced' = <<>>
  /\ UNCHANGED <<sources, sourceBps, functionBps, nextBpId, requests, wanted, told, named>>

(* CheckPauseOnBreakpoint: "stop", "go", or what the element behind the end *)
(* of the breakpoints makes of it.                                         *)

AtLine(s, line) ==
  IF sourceBps = {} \/ \E bp \in sourceBps : sources[bp.source] = s /\ bp.line = line
  THEN {"go"} ELSE {"go", "stop"}

\* The condition of a breakpoint that cannot be evaluated counts as true.
AtCall(name, conditionFails) ==
  IF (\E bp \in functionBps : bp.name = name) /\ ~conditionFails THEN {"stop"} ELSE {"go"}

\* DebugTrace: nobody requests a pause or a step yet, a breakpoint is all that stops.
DebugTrace ==
  /\ hook = "debugger"
  /\ \/ \E s \in Sources, line \in Lines, end \in {"stop", "go"} :
          end \in AtLine(s, line) /\ traced' = <<"line", <<s, line>>, end>>
     \/ \E name \in Names, conditionFails \in BOOLEAN, end \in {"stop", "go"} :
          end \in AtCall(name, conditionFails) /\ traced' = <<"call", name, end>>
  /\ UNCHANGED <<sources, sourceBps, functionBps, nextBpId, requests, hook, prevHook, installed,
                 wanted, told, named>>

LineLists == UNION {[1..n -> Lines] : n \in 0..MaxLines}

DebuggeeNext ==
  \/ \E s \in Sources, lines \in LineLists : SetBreakpoints(s, lines)
  \/ \E names \in {<<n>> : n \in Names} \cup {<<>>} : SetFunctionBreakpoints(names)
  \/ ConfigurationDone \/ Disconnect \/ DebugTrace

-----------------------------------------------------------------------------
VariablesInit ==
  /\ stopped = FALSE /\ stackFrames = {} /\ frameScopes = [f \in Frames |-> {}] /\ watch = 0
  /\ closing = {} /\ nextId = 0 /\ variables = {} /\ expanded = {} /\ watchRefs = {} /\ left = 0

Entry(id, parent, key) == [id |-> id, parent |-> parent, key |-> key]
Ids == {e.id : e \in variables}
IsBelow(e, id) == e.parent = id /\ id # 0

\* The script stops: a provider for its stack.
Stop ==
  /\ ~stopped /\ closing = {} /\ nextId = 0
  /\ stopped' = TRUE
  /\ UNCHANGED <<stackFrames, frameScopes, watch, closing, nextId, variables, expanded, watchRefs,
                 left>>

GetStackTrace ==
  /\ stopped /\ stackFrames = {}
  /\ stackFrames' = Frames
  /\ UNCHANGED <<stopped, frameScopes, watch, closing, nextId, variables, expanded, watchRefs,
                 left>>

\* A root for the locals, and one for the closure if the function has upvalues.
GetScopes(frame, upvalues) ==
  /\ stopped /\ frame \in stackFrames /\ frameScopes[frame] = {} /\ nextId + 2 <= MaxId
  /\ LET new == IF upvalues THEN {nextId + 1, nextId + 2} ELSE {nextId + 1} IN
       /\ variables' = variables \cup {Entry(i, 0, 0) : i \in new}
       /\ frameScopes' = [frameScopes EXCEPT ![frame] = new]
       /\ nextId' = nextId + (IF upvalues THEN 2 ELSE 1)
  /\ UNCHANGED <<stopped, stackFrames, watch, closing, expanded, watchRefs, left>>

\* CreateVariableFromLuaStack: a value that has parts gets a number, and becomes a
\* variable below the one it was found in; any other is only shown.
CreateVariables(parent, n) == {Entry(nextId + k, parent, k) : k \in 1..n}

\* The path from the root is pushed on the Lua stack and stays there; each
\* compound child gets an entry, once.
GetVariables(id, children) ==
  /\ stopped /\ id \in Ids \ (expanded \cup {watch}) /\ nextId + children <= MaxId
  /\ variables' = variables \cup CreateVariables(id, children)
  /\ expanded' = expanded \cup {id}
  /\ nextId' = nextId + children
  /\ left' = left + IF \E e \in variables : e.id = id /\ e.parent # 0 THEN 1 ELSE 0
  /\ UNCHANGED <<stopped, stackFrames, frameScopes, watch, closing, watchRefs>>

\* luaL_ref: the first number that is not taken.
IsFree(ref) == ref \in (1..MaxId) \ watchRefs /\ \A r \in (1..MaxId) \ watchRefs : ref <= r

\* The value of an expression: if it is compound the watch root keeps a
\* reference to it.
EvaluateWatch(compound, ref) ==
  /\ stopped /\ stackFrames # {} /\ left < MaxId /\ nextId + 2 <= MaxId /\ IsFree(ref)
  /\ LET root == IF watch = 0 THEN nextId + 1 ELSE watch
         made == IF watch = 0 THEN 1 ELSE 0
     IN /\ watch' = root
        /\ nextId' = nextId + made + (IF compound THEN 1 ELSE 0)
        /\ variables' = variables \cup (IF watch = 0 THEN {Entry(root, 0, 0)} ELSE {})
                          \cup (IF compound THEN {Entry(nextId + made + 1, root, ref)} ELSE {})
  /\ watchRefs' = watchRefs \cup (IF compound THEN {ref} ELSE {})
  /\ left' = left + 1
  /\ UNCHANGED <<stopped, stackFrames, frameScopes, closing, expanded>>

\* The hook returns: its part of the Lua stack goes, and the members of the
\* provider are destroyed.
Resume ==
  /\ stopped
  /\ stopped' = FALSE /\ left' = 0
  /\ closing' = ({watch} \ {0}) \cup UNION {frameScopes[f] : f \in stackFrames}
  /\ stackFrames' = {} /\ frameScopes' = [f \in Frames |-> {}]
  /\ UNCHANGED <<watch, nextId, variables, expanded, watchRefs>>

\* A mutant of Removed: one pass over the variables.
RemovedOnce(id) == {e \in variables : e.id = id \/ e.parent = id}

\* Passes over the variables until one removes nothing: what is left to remove is
\* the least set that has the variable and the children of all that is in it.
IsWhole(set, id) ==
  \A e \in variables : (e.id = id \/ \E p \in set : e.parent = p.id) => e \in set
Removed(id) == {e \in variables : \A set \in SUBSET variables : IsWhole(set, id) => e \in set}

\* RemoveVariableAndChildren, for the watched values first and then for the frames; a
\* removed child of the watch root gives its reference back.
ResetRegistration(root) ==
  /\ root \in closing /\ (watch \in closing => root = watch)
  /\ LET gone == Removed(root) IN
       /\ variables' = variables \ gone
       /\ expanded' = expanded \ {e.id : e \in gone}
       /\ watchRefs' = watchRefs \ {e.key : e \in {x \in gone : IsBelow(x, watch)}}
  /\ watch' = IF root = watch THEN 0 ELSE watch
  /\ closing' = closing \ {root}
  /\ UNCHANGED <<stopped, stackFrames, frameScopes, nextId, left>>

VariablesNext ==
  \/ Stop \/ GetStackTrace \/ Resume
  \/ \E root \in closing : ResetRegistration(root)
  \/ \E f \in Frames, u \in BOOLEAN : GetScopes(f, u)
  \/ \E id \in 1..MaxId, n \in 0..MaxChildren : GetVariables(id, n)
  \/ \E c \in BOOLEAN, ref \in 1..MaxId : EvaluateWatch(c, ref)

-----------------------------------------------------------------------------
\* After any sequence of requests the breakpoints of a source are the lines
\* that its last request named, each under the id that request was answered
\* with, and no id stands for two breakpoints.
BreakpointsAsAsked ==
  /\ \A s \in Sources :
       LET bps == {b \in sourceBps : sources[b.source] = s}
       IN {b.line : b \in bps} = wanted[s] /\ {b.id : b \in bps} = told[s]
  /\ \A b, c \in sourceBps : b # c => b.id # c.id
  /\ \A b \in sourceBps, c \in functionBps : b.id # c.id

\* The hook of the debugger never runs without the table it looks for.
HookFindsState == hook = "debugger" => installed

\* The script stops in a function only if the last request named it, and on a line
\* only while there is a breakpoint somewhere.
StopsAreAskedFor ==
  (traced # <<>> /\ traced[3] = "stop") =>
    IF traced[1] = "call" THEN traced[2] \in named ELSE \E s \in Sources : wanted[s] # {}

\* Every variable hangs below a root that somebody holds, the references are
\* those of the watched values, one each, and once the script runs again
\* nothing is left of what was shown.
NothingOutlivesThePause ==
  /\ \A e \in variables : e.parent # 0 => e.parent \in Ids
  /\ {e.id : e \in {x \in variables : x.parent = 0}}
       = (UNION {frameScopes[f] : f \in Frames}) \cup ({watch} \ {0}) \cup closing
  /\ watchRefs = {e.key : e \in {x \in variables : IsBelow(x, watch)}}
  /\ ~stopped /\ closing = {} => variables = {} /\ watchRefs = {}

=============================================================================
