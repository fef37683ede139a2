-------------------------------- MODULE Writer --------------------------------
(***************************************************************************)
(* The writer (cl_writer.c) and the export of results (cl_export.c): a     *)
(* tree becomes a text, symbol by symbol.  Only indentation is left out.   *)
(***************************************************************************)
EXTENDS Parser

(* An operator named Slip... is a plausible mistake in the definition that *)
(* follows it; the specification uses none of them.                        *)

Joined(texts, sep) ==
  FlattenSeq([i \in DOMAIN texts |-> IF i = 1 THEN texts[i] ELSE sep \o texts[i]])

Symbols(mark) == [i \in 1 .. Len(mark) |-> SubSeq(mark, i, i)]
Paren(text)   == <<"(">> \o text \o <<")">>

-----------------------------------------------------------------------------
(* Strings and numbers *)

\* Slip: only "${" is escaped.
SlipEscapedAt(s, i) ==
  CASE s[i] \in {"\"", "\\"} -> <<"\\", s[i]>>
    [] s[i] = "\n" -> <<"\\", "n">>
    [] s[i] = "\t" -> <<"\\", "t">>
    [] s[i] = "\r" -> <<"\\", "r">>
    [] s[i] = "$" /\ At(s, i + 1) = "{" -> <<s[i], s[i]>>
    [] OTHER -> <<s[i]>>

\* What is written for the ith symbol of a string.
EscapedAt(s, i) ==
  CASE s[i] \in {"\"", "\\"} -> <<"\\", s[i]>>
    [] s[i] = "\n" -> <<"\\", "n">>
    [] s[i] = "\t" -> <<"\\", "t">>
    [] s[i] = "\r" -> <<"\\", "r">>
    [] s[i] \in {"$", "%"} /\ At(s, i + 1) = "{" -> <<s[i], s[i]>>
    [] OTHER -> <<s[i]>>

\* cl_write_escaped_text, cl_write_string_literal
Escaped(s)     == FlattenSeq([i \in DOMAIN s |-> EscapedAt(s, i)])
WrittenStr(s)  == <<"\"">> \o Escaped(s) \o <<"\"">>

RECURSIVE DigitsOf(_)
DigitsOf(n) == (IF n < 10 THEN <<>> ELSE DigitsOf(n \div 10)) \o <<Digits[(n % 10) + 1]>>

\* cl_format_number: as an integer if it is one, else with the fewest decimals that read
\* back as the same number (never less than 0.0001 here, which is written differently).
WrittenNum(d) ==
  LET n      == IF d.m < 0 THEN -d.m ELSE d.m
      digits == DigitsOf(n)
      zeros  == [i \in 1 .. (IF Len(digits) > -d.e THEN 0 ELSE 1 - d.e - Len(digits)) |-> "0"]
      padded == zeros \o digits
      point  == Len(padded) + d.e
  IN  (IF d.m < 0 THEN <<"-">> ELSE <<>>)
      \o IF d.e >= 0 THEN digits \o [i \in 1 .. d.e |-> "0"]
         ELSE SubSeq(padded, 1, point) \o <<".">> \o SubSeq(padded, point + 1, Len(padded))

WrittenLit(v) ==
  CASE IsStr(v)  -> WrittenStr(v.s)
    [] IsNum(v)  -> WrittenNum(v.n)
    [] IsBool(v) -> <<IF v.b THEN "true" ELSE "false">>
    [] v = Null  -> <<"null">>

-----------------------------------------------------------------------------
(* Expressions *)

RECURSIVE Written(_)

\* cl_is_bare_ident
IsBareIdent(s) == s # <<>> /\ IsIdentStart(s[1]) /\ \A i \in DOMAIN s : IsIdentContinue(s[i])

\* Slip: a conditional is an operand like any other.
SlipOperand(x) == IF x.e = "binary" THEN Paren(Written(x)) ELSE Written(x)

\* cl_write_operand
Operand(x) == IF x.e \in {"binary", "cond"} THEN Paren(Written(x)) ELSE Written(x)

\* The key of an object's item: cl_write_computed_key, or a constant.
WrittenKey(key) ==
  CASE key.e = "lit" /\ IsStr(key.value) ->
         IF IsBareIdent(key.value.s) THEN key.value.s ELSE WrittenStr(key.value.s)
    [] key.e = "tpl" -> Written(key)
    [] OTHER -> Paren(Written(key))

WrittenStep(step) ==
  CASE step.s = "attr"     -> <<".">> \o step.name
    [] step.s = "dotsplat" -> <<".", "*">>
    [] step.s = "splat"    -> <<"[", "*", "]">>
    [] step.s \in {"index", "expr"} -> <<"[">> \o Written(step.x) \o <<"]">>
WrittenSteps(steps) == FlattenSeq([i \in DOMAIN steps |-> WrittenStep(steps[i])])

\* The base of cl_write_postfix.
WrittenBase(x) == IF x.e \in {"binary", "cond", "unary"} THEN Paren(Written(x)) ELSE Written(x)

WrittenArgs(x) ==
  Joined([i \in DOMAIN x.args |->
            Written(x.args[i]) \o IF x.expand /\ i = Len(x.args) THEN <<".", ".", ".">> ELSE <<>>], <<",", " ">>)

\* The variables and the collection of a loop.
WrittenLoop(key, val, coll) ==
  (IF key = <<>> THEN <<>> ELSE key \o <<",", " ">>) \o val \o <<" ", "in", " ">> \o Written(coll)

WrittenFor(x) ==
  LET isObject == x.keyExpr # <<>>
  IN  <<IF isObject THEN "{" ELSE "[", "for", " ">> \o WrittenLoop(x.key, x.val, x.coll) \o <<" ", ":", " ">>
      \o (IF isObject THEN Written(x.keyExpr[1]) \o <<" ", "=", ">", " ">> ELSE <<>>)
      \o Written(x.valExpr)
      \o (IF isObject /\ x.grouping THEN <<".", ".", ".">> ELSE <<>>)
      \o (IF x.test = <<>> THEN <<>> ELSE <<" ", "if", " ">> \o Written(x.test[1]))
      \o <<IF isObject THEN "}" ELSE "]">>

\* cl_write_template.  An else that is there but empty is not told from none here.
RECURSIVE WrittenParts(_)
WrittenParts(parts) ==
  LET One(p) ==
        CASE p.e = "lit"    -> Escaped(p.value.s)
          [] p.e = "interp" -> <<"$", "{">> \o Written(p.x) \o <<"}">>
          [] p.e = "tplif"  ->
               <<"%", "{", "if", " ">> \o Written(p.c) \o <<"}">> \o WrittenParts(p.t.parts)
               \o (IF p.f.parts = <<>> THEN <<>> ELSE <<"%", "{", "else", "}">> \o WrittenParts(p.f.parts))
               \o <<"%", "{", "endif", "}">>
          [] p.e = "tplfor" ->
               <<"%", "{", "for", " ">> \o WrittenLoop(p.key, p.val, p.coll) \o <<"}">>
               \o WrittenParts(p.body.parts) \o <<"%", "{", "endfor", "}">>
  IN  FlattenSeq([i \in DOMAIN parts |-> One(parts[i])])

\* cl_write_expr
Written(x) ==
  CASE x.e = "lit"     -> WrittenLit(x.value)
    [] x.e = "tpl"     -> <<"\"">> \o WrittenParts(x.parts) \o <<"\"">>
    [] x.e = "ref"     -> x.root \o WrittenSteps(x.steps)
    [] x.e = "postfix" -> WrittenBase(x.base) \o WrittenSteps(x.steps)
    [] x.e = "tuple"   -> <<"[">> \o Joined([i \in DOMAIN x.items |-> Written(x.items[i])], <<",", " ">>) \o <<"]">>
    [] x.e = "object"  ->
         <<"{", "\n">>
         \o FlattenSeq([i \in DOMAIN x.entries |->
              WrittenKey(x.entries[i].key) \o <<" ", "=", " ">> \o Written(x.entries[i].value) \o <<"\n">>])
         \o <<"}">>
    [] x.e = "call"    -> x.name \o <<"(">> \o WrittenArgs(x) \o <<")">>
    [] x.e = "for"     -> WrittenFor(x)
    [] x.e = "unary"   -> <<x.op>> \o Operand(x.a)
    [] x.e = "binary"  -> Operand(x.l) \o <<" ">> \o Symbols(x.op) \o <<" ">> \o Operand(x.r)
    [] x.e = "cond"    -> Operand(x.c) \o <<" ", "?", " ">> \o Operand(x.t) \o <<" ", ":", " ">> \o Operand(x.f)

-----------------------------------------------------------------------------
(* Documents *)

WrittenAttr(name, value) == name \o <<" ", "=", " ">> \o value \o <<"\n">>
WrittenBlock(type, labels, body) ==
  type \o FlattenSeq([i \in DOMAIN labels |-> <<" ">> \o labels[i]]) \o <<" ", "{", "\n">> \o body \o <<"}", "\n">>

\* cl_write_body
RECURSIVE WrittenBody(_)
WrittenBody(body) ==
  LET One(it) ==
        IF IsAttr(it) THEN WrittenAttr(it.name, Written(it.value))
        ELSE WrittenBlock(it.type, [i \in DOMAIN it.labels |-> Written(it.labels[i])], WrittenBody(it.body))
  IN  FlattenSeq([i \in DOMAIN body |-> One(body[i])])

\* cl_export_value
RECURSIVE Exported(_)
Exported(v) ==
  LET Key(key)  == IF IsBareIdent(key) THEN key ELSE WrittenStr(key)
      Line(fld) == Key(fld.key) \o <<" ", "=", " ">> \o Exported(fld.value) \o <<"\n">>
  IN  CASE IsList(v) -> <<"[">> \o Joined([i \in DOMAIN v.items |-> Exported(v.items[i])], <<",", " ">>) \o <<"]">>
        [] IsObj(v)  -> IF v.fields = <<>> THEN <<"{", "}">>
                        ELSE <<"{", "\n">> \o FlattenSeq([i \in DOMAIN v.fields |-> Line(v.fields[i])]) \o <<"}">>
        [] OTHER     -> WrittenLit(v)

\* cl_export_body: the labels of a result are text.
RECURSIVE ExportedBody(_)
ExportedBody(result) ==
  LET One(it) ==
        IF IsAttr(it) THEN WrittenAttr(it.name, Exported(it.value))
        ELSE WrittenBlock(it.type, [i \in DOMAIN it.labels |-> WrittenStr(it.labels[i])], ExportedBody(it.body))
  IN  FlattenSeq([i \in DOMAIN result |-> One(result[i])])

\* Slip: an attribute that is given again replaces the one before.
SlipIsShadowed(result, i) ==
  \E j \in i + 1 .. Len(result) : IsAttr(result[j]) /\ result[j].name = result[i].name

\* cl_json_is_shadowed
IsShadowed(result, i) ==
  \E j \in 1 .. i - 1 : IsAttr(result[j]) /\ result[j].name = result[i].name

\* cl_json_body: its attributes and blocks, in order, as JSON has them.
RECURSIVE Json(_)
Json(result) ==
  LET Block(i) == [type |-> result[i].type, labels |-> result[i].labels, body |-> Json(result[i].body)]
      places   == [i \in DOMAIN result |-> i]
      attrs    == SelectSeq(places, LAMBDA i : IsAttr(result[i]) /\ ~IsShadowed(result, i))
      blocks   == SelectSeq(places, LAMBDA i : IsBlock(result[i]))
  IN  [attributes |-> [n \in DOMAIN attrs |-> Field(result[attrs[n]].name, result[attrs[n]].value)],
       blocks     |-> [n \in DOMAIN blocks |-> Block(blocks[n])]]
=============================================================================
