------------------------------- MODULE Values -------------------------------
(***************************************************************************)
(* Evaluated values (cl_value_t): six kinds, told apart by the field k.    *)
(* Numbers are integers: the evaluator tests nothing of a double that an   *)
(* integer does not show, apart from rounding, NaN and infinity.           *)
(***************************************************************************)
EXTENDS Integers, Sequences, SequencesExt
LOCAL INSTANCE TLC

Str(s)       == [k |-> "str",  s |-> s]
Num(n)       == [k |-> "num",  n |-> n]
Bool(b)      == [k |-> "bool", b |-> b]
Null         == [k |-> "null"]
List(items)  == [k |-> "list", items |-> items]
Object(flds) == [k |-> "obj",  fields |-> flds]

\* The C NULL that a cl_value_t * may hold. It is never a value of a program.
NoValue      == [k |-> "none"]

IsStr(v)  == v.k = "str"
IsNum(v)  == v.k = "num"
IsBool(v) == v.k = "bool"
IsList(v) == v.k = "list"
IsObj(v)  == v.k = "obj"

Field(key, value) == [key |-> key, value |-> value]

\* cl_value_object_get: the first field with that key, or NULL.
Get(obj, key) ==
  LET i == SelectInSeq(obj.fields, LAMBDA f : f.key = key)
  IN  IF i = 0 THEN NoValue ELSE obj.fields[i].value

HasKey(obj, key) == \E i \in DOMAIN obj.fields : obj.fields[i].key = key

\* cl_val_require_string: what may stand where text is expected, and the text.
HasText(v) == v.k \in {"str", "num", "bool"}
Text(v) == CASE IsStr(v)  -> v.s
             [] IsNum(v)  -> ToString(v.n)
             [] IsBool(v) -> IF v.b THEN "true" ELSE "false"

\* A collection as a sequence of (key, value): what a for-loop iterates over.
IsCollection(v) == IsList(v) \/ IsObj(v)
Elements(v) ==
  IF IsList(v) THEN [i \in DOMAIN v.items |-> [key |-> Num(i - 1), value |-> v.items[i]]]
               ELSE [i \in DOMAIN v.fields |-> [key   |-> Str(v.fields[i].key),
                                                value |-> v.fields[i].value]]
=============================================================================
