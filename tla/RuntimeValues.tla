--------------------------- MODULE RuntimeValues ----------------------------
(* Runtime values: a native object seen through RuntimeValue, assigned from *)
(* other values and JSON documents and saved into them (runtime_value.cpp,  *)
(* native_runtime_value/*.h, json_to_runtime_value.cpp,                     *)
(* json_jsoncpp_write.cpp).                                                 *)
(*                                                                          *)
(* A type is a record: its "kind" is int (with bits and signed), float,     *)
(* bool, str, name (a value parsed from one of its "names"), opt, vector,   *)
(* list, set, map (each with the type "of" what is in it), tuple (types     *)
(* "of") or object ("of": a record of types, "order": its fields as         *)
(* declared). A value is a record of its kind and data; a float counts      *)
(* halves. Json::Value has the same values, but no "some". The widest       *)
(* integer has LongBits bits. Reading the text of a document is jsoncpp's   *)
(* work. Left out: a RuntimeValueRef as a destination, which keeps the      *)
(* source itself.                                                           *)
EXTENDS Integers, Sequences, FiniteSets, SequencesExt

CONSTANTS Types,       \* the types of the object
          Inputs,      \* other values it is assigned from
          Documents,   \* documents that did not come from the object
          GetString,   \* what the callback of a document replaces strings by
          KeyOrder,    \* the keys of maps and documents, in the order of std::string
          LongBits,
          MaxItems     \* bound: nothing is merged into a longer array than that

VARIABLES
  type, object,    \* the native object
  document,        \* a Json::Value
  origin,          \* the object that was saved into the document, or Nothing
  applied,         \* the document was applied, and nothing happened since
  garbage          \* what is found in an integer that nobody has set

valueVars == <<type, object, document, origin, applied, garbage>>

Null == [kind |-> "null"]
Nothing == [kind |-> "nothing"]
Some(v) == [kind |-> "some", of |-> v]
Items(s) == [kind |-> "list", items |-> s]
Members(f) == [kind |-> "dict", at |-> f]
Scalar(kind, v) == [kind |-> kind, v |-> v]
Keys(v) == SelectSeq(KeyOrder, LAMBDA k : k \in DOMAIN v.at)

\* The outcome of an assignment: a failed one keeps what it has done so far.
Done(v) == [ok |-> TRUE, v |-> v]
Failed(v) == [ok |-> FALSE, v |-> v]

\* What value-initialisation of a type gives.
RECURSIVE Default(_)
Default(T) ==
  CASE T.kind \in {"int", "float"} -> Scalar(T.kind, 0)
    [] T.kind = "bool" -> Scalar("bool", FALSE)
    [] T.kind = "str" -> Scalar("str", "")
    [] T.kind = "name" -> Scalar("str", T.first)
    [] T.kind = "opt" -> Null
    [] T.kind \in {"vector", "list", "set"} -> Items(<<>>)
    [] T.kind = "map" -> Members(<<>>)
    [] T.kind = "tuple" -> Items([i \in DOMAIN T.of |-> Default(T.of[i])])
    [] T.kind = "object" -> Members([k \in DOMAIN T.of |-> Default(T.of[k])])

-----------------------------------------------------------------------------
(* Primitives: what their setters leave behind.                             *)

\* static_cast of an integer to a type of that many bits.
Wrap(n, bits, signed) ==
  LET m == n % 2 ^ bits IN IF signed /\ m >= 2 ^ (bits - 1) THEN m - 2 ^ bits ELSE m

GetInt64(v) == Wrap(v.v, LongBits, TRUE)
GetUint64(v) == Wrap(v.v, LongBits, FALSE)

Longs == -(2 ^ (LongBits - 1)) .. 2 ^ (LongBits - 1) - 1

\* std::to_string of a float that counts halves.
Magnitude(n) == IF n < 0 THEN -n ELSE n
FloatText(h) ==
  (IF h < 0 THEN "-" ELSE "") \o ToString(Magnitude(h) \div 2)
    \o (IF h % 2 = 0 THEN ".000000" ELSE ".500000")

\* lexicalCast of a number: what is no number, or too large, is 0, and what
\* follows the number is ignored.
LexicalFloat(s) ==
  LET Meant(h) == s = FloatText(h) \/ (h % 2 = 0 /\ s = ToString(h \div 2))
      halves == -(2 ^ (LongBits + 1)) .. 2 ^ (LongBits + 1)
  IN IF \E h \in halves : Meant(h) THEN CHOOSE h \in halves : Meant(h) ELSE 0
LexicalInt(s) ==
  LET h == LexicalFloat(s)
      n == IF h < 0 THEN -(Magnitude(h) \div 2) ELSE h \div 2
  IN IF n \in Longs THEN n ELSE 0

\* lexical_cast of a primitive value to a string.
Text(v) ==
  CASE v.kind = "int" -> ToString(GetInt64(v))
    [] v.kind = "float" -> FloatText(v.v)
    [] v.kind = "bool" -> IF v.v THEN "true" ELSE "false"
    [] OTHER -> v.v

SetInteger(T, n) == Scalar("int", Wrap(n, T.bits, T.signed))
SetFloat(h) == Scalar("float", h)
SetBool(b) == Scalar("bool", b)
SetString(s) == Scalar("str", s)

\* A value that is kept as something else than its text, an enumeration say, takes
\* the texts that can be parsed.
ParseString(T, cur, s) == IF s \in T.names THEN Done(SetString(s)) ELSE Failed(cur)

\* assignPrimitiveValue, the source a primitive.
AssignPrimitive(T, cur, src) ==
  CASE T.kind = "str" -> Done(SetString(Text(src)))
    [] T.kind = "name" -> ParseString(T, cur, Text(src))
    [] T.kind = src.kind /\ T.kind \notin {"int", "str"} -> Done(src)
    [] T.kind = "bool" /\ src.kind = "str" -> Done(SetBool(src.v \in {"true", "True"}))
    [] T.kind = "float" /\ src.kind = "int" -> Done(SetFloat(2 * GetInt64(src)))
    [] T.kind = "float" /\ src.kind = "str" -> Done(SetFloat(LexicalFloat(src.v)))
    [] T.kind = "int" /\ src.kind = "int" ->
         Done(SetInteger(T, IF T.signed THEN GetInt64(src) ELSE GetUint64(src)))
    [] T.kind = "int" /\ src.kind = "float" -> Done(SetInteger(T, src.v \div 2))
    [] T.kind = "int" /\ src.kind = "str" -> Done(SetInteger(T, LexicalInt(src.v)))
    [] OTHER -> Failed(cur)

-----------------------------------------------------------------------------
(* RuntimeValue::assign.                                                    *)

\* An optional without a value, or a reference to nothing, empties what can be empty.
Cleared(T, cur) ==
  IF T.kind \in {"opt", "str", "vector", "list", "set", "map"} THEN Default(T) ELSE cur

RECURSIVE Assign(_, _, _, _)

\* append: a vector or list holds the new element before it is assigned.
AppendToVector(T, cur, src) ==
  LET r == Assign(T.of, Default(T.of), src, FALSE)
  IN [ok |-> r.ok, v |-> Items(Append(cur.items, r.v))]

\* append: a set, of integers here, takes the element when it is assigned and new.
\* Nobody has set the element before, and a source without a value does not.
AppendToSet(T, cur, src) ==
  LET r == Assign(T.of, SetInteger(T.of, garbage), src, FALSE)
  IN IF ~r.ok \/ Contains(cur.items, r.v) THEN Failed(cur)
     ELSE Done(Items(SelectSeq(cur.items, LAMBDA e : e.v < r.v.v) \o <<r.v>>
                     \o SelectSeq(cur.items, LAMBDA e : e.v > r.v.v)))

AppendTo(T, cur, src) == IF T.kind = "set" THEN AppendToSet(T, cur, src) ELSE AppendToVector(T, cur, src)

\* A mutant of AssignCollection: what was in the collection stays.
AssignCollectionKeep(T, cur, src, merge) ==
  FoldLeft(LAMBDA acc, s : IF acc.ok THEN AppendTo(T, acc.v, s) ELSE acc, Done(cur), src.items)

\* assignCollection
AssignCollection(T, cur, src, merge) ==
  FoldLeft(LAMBDA acc, s : IF acc.ok THEN AppendTo(T, acc.v, s) ELSE acc,
           Done(IF merge THEN cur ELSE Items(<<>>)), src.items)

\* A tuple takes the elements it has a place for.
AssignTuple(T, cur, src) ==
  LET SetAt(acc, i) ==
        LET r == Assign(T.of[i], acc.v.items[i], src.items[i], FALSE)
        IN [ok |-> r.ok, v |-> Items([acc.v.items EXCEPT ![i] = r.v])]
      places == [i \in 1..(IF Len(src.items) < Len(T.of) THEN Len(src.items) ELSE Len(T.of)) |-> i]
  IN FoldLeft(LAMBDA acc, i : IF acc.ok THEN SetAt(acc, i) ELSE acc, Done(cur), places)

SetFieldValue(T, cur, k, src) ==
  LET r == Assign(T.of[k], cur.at[k], src.at[k], FALSE)
  IN [ok |-> r.ok, v |-> Members([cur.at EXCEPT ![k] = r.v])]

\* assignObject: an object takes the fields it has.
AssignObject(T, cur, src) ==
  FoldLeft(LAMBDA acc, k : IF acc.ok THEN SetFieldValue(T, acc.v, k, src) ELSE acc, Done(cur),
           SelectSeq(T.order, LAMBDA k : k \in DOMAIN src.at))

\* A map has a value before it is assigned.
SetMember(T, cur, k, src) ==
  LET old == IF k \in DOMAIN cur.at THEN cur.at[k] ELSE Default(T.of)
      r == Assign(T.of, old, src, FALSE)
  IN [ok |-> r.ok, v |-> Members([j \in DOMAIN cur.at \cup {k} |-> IF j = k THEN r.v ELSE cur.at[j]])]

\* assignDictionary
AssignDictionary(T, cur, src, merge) ==
  FoldLeft(LAMBDA acc, k : IF acc.ok THEN SetMember(T, acc.v, k, src.at[k]) ELSE acc,
           Done(IF merge THEN cur ELSE Members(<<>>)), Keys(src))

\* StdOptionalValue::setValue
AssignOptional(T, cur, src) ==
  LET r == Assign(T.of, IF cur.kind = "some" THEN cur.of ELSE Default(T.of), src, FALSE)
  IN [ok |-> r.ok, v |-> Some(r.v)]

\* The option to merge is for the destination itself, not for what is in it, and
\* is lost when the source is an optional.
Assign(T, cur, src, merge) ==
  CASE src.kind = "null" /\ T.kind = "name" -> ParseString(T, cur, "")
    [] src.kind = "null" /\ T.kind # "name" -> Done(Cleared(T, cur))
    [] src.kind = "some" -> Assign(T, cur, src.of, FALSE)
    [] src.kind \notin {"null", "some"} /\ T.kind = "opt" -> AssignOptional(T, cur, src)
    [] src.kind \in {"int", "float", "bool", "str"}
       /\ T.kind \in {"int", "float", "bool", "str", "name"} -> AssignPrimitive(T, cur, src)
    [] src.kind = "list" /\ T.kind \in {"vector", "list", "set"} -> AssignCollection(T, cur, src, merge)
    [] src.kind = "list" /\ T.kind = "tuple" -> AssignTuple(T, cur, src)
    [] src.kind = "dict" /\ T.kind = "object" -> AssignObject(T, cur, src)
    [] src.kind = "dict" /\ T.kind = "map" -> AssignDictionary(T, cur, src, merge)
    [] OTHER -> Failed(cur)

-----------------------------------------------------------------------------
(* JSON.                                                                    *)

\* makeJsonValue: a value as a document. Unless nulls are written, the members
\* without a value are left out; elements never are.
RECURSIVE MakeJson(_, _)
MakeJson(v, nulls) ==
  CASE v.kind = "some" -> MakeJson(v.of, nulls)
    [] v.kind = "list" -> Items([i \in DOMAIN v.items |-> MakeJson(v.items[i], nulls)])
    [] v.kind = "dict" ->
         Members([k \in {k \in DOMAIN v.at : nulls \/ v.at[k] # Null} |-> MakeJson(v.at[k], nulls)])
    [] OTHER -> v

\* setJsonValue: writing a value into a document that is there. Arrays grow, objects
\* are merged, all else is replaced.
RECURSIVE SetJson(_, _)
SetJson(json, v) ==
  CASE v.kind = "some" -> SetJson(json, v.of)
    [] v.kind = "list" ->
         Items((IF json.kind = "list" THEN json.items ELSE <<>>)
               \o [i \in DOMAIN v.items |-> SetJson(Null, v.items[i])])
    [] v.kind = "dict" ->
         LET old == IF json.kind = "dict" THEN json.at ELSE <<>>
             field(k) == IF k \in DOMAIN old THEN old[k] ELSE Null
         IN Members([k \in DOMAIN old \cup DOMAIN v.at |->
                      IF k \in DOMAIN v.at THEN SetJson(field(k), v.at[k]) ELSE old[k]])
    [] OTHER -> v

\* RuntimeValue::assign with a JsonCollection or a JsonDictionary as its destination.
AssignJsonCollection(json, src, merge) == SetJson(IF merge THEN json ELSE Items(<<>>), src)
AssignJsonDictionary(json, src, merge) == SetJson(IF merge THEN json ELSE Members(<<>>), src)
RECURSIVE AssignJson(_, _, _)
AssignJson(json, src, merge) ==
  CASE src.kind = "null" -> Done(IF json.kind = "list" THEN Items(<<>>) ELSE Members(<<>>))
    [] src.kind = "some" -> AssignJson(json, src.of, FALSE)
    [] json.kind = "list" /\ src.kind = "list" -> Done(AssignJsonCollection(json, src, merge))
    [] json.kind = "dict" /\ src.kind = "dict" -> Done(AssignJsonDictionary(json, src, merge))
    [] OTHER -> Failed(json)

\* transformString: the callback of the document may replace a string.
Transform(s) == IF s \in DOMAIN GetString THEN GetString[s] ELSE s

\* getValueFromJson, of all that is in the document: null is an optional without a
\* value, and jsoncpp takes a real number without a fraction for an integer.
RECURSIVE FromJson(_)
FromJson(json) ==
  CASE json.kind = "float" /\ json.v % 2 = 0 -> Scalar("int", json.v \div 2)
    [] json.kind = "str" -> Scalar("str", Transform(json.v))
    [] json.kind = "list" -> Items([i \in DOMAIN json.items |-> FromJson(json.items[i])])
    [] json.kind = "dict" -> Members([k \in DOMAIN json.at |-> FromJson(json.at[k])])
    [] OTHER -> json

\* jsonToRuntimeValue: a string that is the document has no callback.
JsonToRuntimeValue(json) == IF json.kind = "str" THEN json ELSE FromJson(json)

-----------------------------------------------------------------------------
RECURSIVE Small(_)
Small(v) ==
  CASE v.kind = "some" -> Small(v.of)
    [] v.kind = "list" -> Len(v.items) <= MaxItems /\ \A i \in DOMAIN v.items : Small(v.items[i])
    [] v.kind = "dict" -> \A k \in DOMAIN v.at : Small(v.at[k])
    [] OTHER -> TRUE

Init ==
  /\ type \in Types /\ object = Default(type)
  /\ document = Members(<<>>) /\ origin = Nothing /\ applied = FALSE
  /\ garbage \in {0, 1}

\* RuntimeValue::assign(object, input)
AssignInput(input, merge) ==
  /\ merge => Small(object)
  /\ object' = Assign(type, object, input, merge).v
  /\ applied' = FALSE /\ UNCHANGED <<type, document, origin, garbage>>

\* The object is made anew.
Renew ==
  /\ object' = Default(type) /\ applied' = FALSE
  /\ UNCHANGED <<type, document, origin, garbage>>

\* runtimeToJsonValue, jsonWrite
Save(nulls) ==
  /\ document' = MakeJson(object, nulls)
  /\ origin' = [value |-> object, nulls |-> nulls] /\ applied' = FALSE
  /\ UNCHANGED <<type, object, garbage>>

\* jsonParseToValue: somebody else's document.
Parse(json) ==
  /\ document' = json /\ origin' = Nothing /\ applied' = FALSE
  /\ UNCHANGED <<type, object, garbage>>

\* RuntimeValue::assign(jsonAsRuntimeValue(document), object).  An optional without a
\* value only empties the document.
Write(merge) ==
  /\ document.kind \in {"list", "dict"} /\ (merge => Small(document))
  /\ LET r == AssignJson(document, object, merge)
     IN /\ document' = r.v
        /\ origin' = IF r.ok /\ ~merge /\ object # Null THEN [value |-> object, nulls |-> TRUE] ELSE Nothing
  /\ applied' = FALSE /\ UNCHANGED <<type, object, garbage>>

\* RuntimeValue::assign(object, jsonToRuntimeValue(document)), which asserts that the
\* document is not null.
Apply ==
  /\ document # Null
  /\ LET r == Assign(type, object, JsonToRuntimeValue(document), FALSE)
     IN object' = r.v /\ applied' = r.ok
  /\ UNCHANGED <<type, document, origin, garbage>>

Next ==
  \/ \E input \in Inputs, merge \in BOOLEAN : AssignInput(input, merge)
  \/ \E nulls \in BOOLEAN : Save(nulls)
  \/ \E json \in Documents : Parse(json)
  \/ \E merge \in BOOLEAN : Write(merge)
  \/ Renew \/ Apply

Spec == Init /\ [][Next]_valueVars

-----------------------------------------------------------------------------
RECURSIVE HasType(_, _)
HasType(T, v) ==
  CASE T.kind = "int" -> v = SetInteger(T, v.v)
    [] T.kind = "name" -> v.kind = "str" /\ v.v \in T.names
    [] T.kind = "opt" -> v = Null \/ (v.kind = "some" /\ HasType(T.of, v.of))
    [] T.kind \in {"vector", "list"} -> \A i \in DOMAIN v.items : HasType(T.of, v.items[i])
    [] T.kind = "set" -> \A i \in DOMAIN v.items : /\ HasType(T.of, v.items[i])
                                                  /\ i > 1 => v.items[i - 1].v < v.items[i].v
    [] T.kind = "tuple" -> /\ Len(v.items) = Len(T.of)
                           /\ \A i \in DOMAIN T.of : HasType(T.of[i], v.items[i])
    [] T.kind = "map" -> \A k \in DOMAIN v.at : HasType(T.of, v.at[k])
    [] T.kind = "object" -> /\ DOMAIN v.at = DOMAIN T.of
                            /\ \A k \in DOMAIN T.of : HasType(T.of[k], v.at[k])
    [] OTHER -> v.kind = T.kind

\* Whatever was assigned, and however far a failed assignment came (runtime_value.cpp
\* stops at the first error), the object is one of its type: its integers fit, its
\* sets have no element twice, its tuples and objects are whole.
StaysOfItsType == HasType(type, object)

\* Applying a document again changes nothing (json.h: a document is a value).
ReapplyingIsIdle ==
  applied => Assign(type, object, JsonToRuntimeValue(document), FALSE) = Done(object)

\* An object saved with its nulls, or written over a document, comes back from the
\* document whatever it has become; one saved without them comes back when made anew.
SavedComesBack ==
  [][(Apply /\ origin # Nothing /\ (origin.nulls \/ object = Default(type)))
       => object' = origin.value]_valueVars
=============================================================================
