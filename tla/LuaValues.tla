----------------------------- MODULE LuaValues ------------------------------
(***************************************************************************)
(* Native values of Lua objects.  A value keeps its object on the Lua      *)
(* stack, at an index, or in the table of global references, under a       *)
(* number; scopes (InvocationGuardImpl with its ValueKeeperGuard) say      *)
(* which, and a value on the stack is good for its scope.  Each thread has *)
(* a root of its own for the global references.                            *)
(***************************************************************************)
EXTENDS Naturals, Sequences, SequencesExt, FiniteSets

CONSTANTS LuaThreads, LuaObjects,   \* threads that use the state; tables and functions of Lua
          MaxStack, MaxKept,  \* bound the Lua stack, the references
          MaxValues           \* and the values at one time

\* What the constants must satisfy: what the debugger does not show as an object.
LuaAssumption == "no table" \notin LuaObjects

\* The duty of the callers: one thread uses the state.
OneThread == \A s, t \in LuaThreads : s = t

Modes == {"OnStack", "AsReference"}
Other == "other"              \* anything else on the Lua stack

VARIABLES
  stack,    \* the Lua stack
  scopes,   \* the open scopes: mode, and m_stackTop
  table,    \* __My_GlobalRefs: the objects by number, or NoTable
  roots,    \* the threads whose root is alive
  values    \* the native values: mode, key, object, scope and thread
luaVars == <<stack, scopes, table, roots, values>>

NoTable == <<"no table">>

LuaInit ==
  /\ stack = <<>> /\ scopes = <<>> /\ table = NoTable /\ roots = {} /\ values = {}

\* The mode of the innermost guard; references if there is none.
KeepMode == IF scopes = <<>> THEN "AsReference" ELSE Last(scopes).mode

OpenInvocationScope(mode) ==
  /\ Len(scopes) < 2
  /\ scopes' = Append(scopes, [mode |-> mode, top |-> Len(stack)])
  /\ UNCHANGED <<stack, table, roots, values>>

\* Only a guard that keeps references puts the Lua stack back: in the other
\* mode what the calls left there stays.
CloseInvocationScope ==
  /\ scopes # <<>>
  /\ values' = {v \in values : v.mode = "AsReference" \/ v.scope < Len(scopes)}
  /\ stack' = IF Last(scopes).mode = "AsReference" /\ Last(scopes).top < Len(stack)
              THEN SubSeq(stack, 1, Last(scopes).top) ELSE stack
  /\ scopes' = Front(scopes)
  /\ UNCHANGED <<table, roots>>

-----------------------------------------------------------------------------
(* makeValueFromLuaStack, with the object on top of the stack `below`.      *)

\* LuaGlobalRefRoot::instance: a new root makes a new table, whatever was there.
Table(t) == IF t \in roots THEN table ELSE <<>>

MakeValue(t, object, below) ==
  IF KeepMode = "OnStack"
  THEN /\ stack' = Append(below, object)
       /\ values' = values \cup {[mode |-> "OnStack", key |-> Len(below) + 1, object |-> object,
                                  scope |-> Len(scopes), thread |-> t]}
       /\ UNCHANGED <<table, roots>>
  ELSE /\ stack' = below
       /\ Len(Table(t)) < MaxKept
       /\ table' = Append(Table(t), object) /\ roots' = roots \cup {t}
       /\ values' = values \cup {[mode |-> "AsReference", key |-> Len(Table(t)) + 1,
                                  object |-> object, scope |-> Len(scopes), thread |-> t]}

Room(n) == Len(stack) + n <= MaxStack

\* ExecuteImpl, LuaClosureValue::invoke and makeChildValue: a call or a
\* field leaves its result on the stack, and a value is made of it.  A scalar is
\* copied, and the stack is as before.
MakeResult(t, object) ==
  /\ Room(1) /\ Cardinality(values) < MaxValues
  /\ MakeValue(t, object, stack)
  /\ UNCHANGED scopes

\* setField leaves the table itself on the stack, and the field too if that
\* is a table.
SetField(v, fieldIsTable) ==
  /\ v \in values /\ Room(2)
  /\ stack' = stack \o (IF fieldIsTable THEN <<v.object, Other>> ELSE <<v.object>>)
  /\ UNCHANGED <<scopes, table, roots, values>>

\* A mutant of ReleaseValue: a root goes with any of its values.
ReleaseAny(v) ==
  /\ v \in values
  /\ values' = values \ {v}
  /\ IF v.mode = "AsReference"
     THEN roots' = roots \ {v.thread} /\ table' = NoTable
     ELSE UNCHANGED <<roots, table>>
  /\ UNCHANGED <<stack, scopes>>

\* unref gives nothing back.  The root of the thread goes with the last of
\* its values, and takes the table along.
ReleaseValue(v) ==
  /\ v \in values
  /\ values' = values \ {v}
  /\ IF v.mode = "AsReference" /\ ~\E w \in values' : w.mode = "AsReference" /\ w.thread = v.thread
     THEN roots' = roots \ {v.thread} /\ table' = NoTable
     ELSE UNCHANGED <<roots, table>>
  /\ UNCHANGED <<stack, scopes>>

LuaNext ==
  \/ \E mode \in Modes : OpenInvocationScope(mode)
  \/ CloseInvocationScope
  \/ \E t \in LuaThreads, object \in LuaObjects : MakeResult(t, object)
  \/ \E v \in values, fieldIsTable \in BOOLEAN : SetField(v, fieldIsTable)
  \/ \E v \in values : ReleaseValue(v)

-----------------------------------------------------------------------------
(* makeValueFromLuaStack and pushRuntimeValue by kinds.  A Lua number is     *)
(* made a LuaNumericValue, which holds a double and is an IntegerValue and a *)
(* FloatValue.  "wide" is an integer that no double holds.                   *)

Interfaces(kind) ==
  CASE kind = "nil"     -> {"Optional"}
    [] kind = "string"  -> {"String"}
    [] kind = "boolean" -> {"Boolean"}
    [] kind \in {"integer", "wide", "fraction"} -> {"Integer", "Float"}
    [] kind = "array"   -> {"Collection"}
    [] kind = "table"   -> {"Dictionary"}
    [] OTHER -> {}

\* pushRuntimeValue asks for the interfaces in this order, and pushes what the first one
\* it finds stands for.
PushOrder == <<"Optional", "String", "Boolean", "Integer", "Float", "Collection", "Dictionary">>
PushedAs == <<"nil", "string", "boolean", "integer", "float", "array", "table">>
IsFirst(i, kind) ==
  PushOrder[i] \in Interfaces(kind) /\ \A j \in 1..(i - 1) : PushOrder[j] \notin Interfaces(kind)
PushRuntimeValue(kind) ==
  IF Interfaces(kind) = {} THEN "error" ELSE PushedAs[CHOOSE i \in 1..7 : IsFirst(i, kind)]

-----------------------------------------------------------------------------
\* As long as one thread uses the state, a native value denotes the object it
\* was made of until it is released or its scope is left, whatever scopes,
\* calls and fields leave on the Lua stack and whichever values go first.
\* With two threads, the root of the second replaces the table of the first.
ValueDenotesObject ==
  \A v \in values :
    IF v.mode = "OnStack" THEN v.key \in DOMAIN stack /\ stack[v.key] = v.object
    ELSE table # NoTable /\ v.key \in DOMAIN table /\ table[v.key] = v.object

\* What came from Lua goes back as it was, in spite of the several interfaces a native
\* value has.  Two kinds of numbers do not, and go back as another integer: one with a
\* fraction is cut off, a wide one is rounded.
ScalarsRoundTrip ==
  \A kind \in {"nil", "string", "boolean", "integer", "array", "table"} :
    PushRuntimeValue(kind) = kind

=============================================================================
