------------------------------ MODULE RoundTrip ------------------------------
(***************************************************************************)
(* Which documents, as the parser makes them, the writer writes so that    *)
(* they are read back as they are, and which results the export does.      *)
(* Everything else is a limit of the writer.                               *)
(***************************************************************************)
EXTENDS Writer

\* The writer escapes "${" and "%{", but the lexer copies what is between the braces as
\* it stands: that has to end, and without a symbol that has an escape of its own.
RECURSIVE PlainFrom(_, _)
PlainFrom(s, i) ==
  LET markers == {j \in i .. Len(s) : s[j] \in {"$", "%"} /\ At(s, j + 1) = "{"}
      j   == Min(markers)
      end == SpanEnd(s, j + 2, 0)
  IN  markers = {} \/ /\ end <= Len(s)
                      /\ \A k \in j .. end : s[k] \notin {"\"", "\\", "\n", "\t", "\r"}
                      /\ PlainFrom(s, end + 1)
IsPlain(s) == PlainFrom(s, 1)

\* What stands between the braces of a directive ends where its expression does.
FillsSpan(written) == SpanEnd(written, 1, 0) > Len(written)

\* The name an expression is written with first, and whether a name is what it is
\* written with last: "for" first opens a for-expression, "(" next makes a call.
RECURSIVE FirstName(_)
FirstName(x) ==
  CASE x.e = "ref"     -> x.root
    [] x.e = "call"    -> x.name
    [] x.e = "postfix" -> FirstName(x.base)
    [] x.e = "binary" /\ x.l.e \notin {"binary", "cond"} -> FirstName(x.l)
    [] x.e = "cond" /\ x.c.e \notin {"binary", "cond"}   -> FirstName(x.c)
    [] OTHER -> <<>>

RECURSIVE EndsInName(_)
EndsInName(x) ==
  CASE x.e = "ref"    -> x.steps = <<>>
    [] x.e = "unary"  -> x.a.e \notin {"binary", "cond"} /\ EndsInName(x.a)
    [] x.e = "binary" -> x.r.e \notin {"binary", "cond"} /\ EndsInName(x.r)
    [] x.e = "cond"   -> x.f.e \notin {"binary", "cond"} /\ EndsInName(x.f)
    [] OTHER -> FALSE

-----------------------------------------------------------------------------
\* in: whether the expression is written within brackets, where newlines do not count.
RECURSIVE ReadsBack(_, _)

OperandReadsBack(x, in) == ReadsBack(x, in \/ x.e \in {"binary", "cond"})

StepReadsBack(step) ==
  CASE step.s = "index" -> ReadsBack(step.x, TRUE)
    [] step.s = "expr"  -> /\ ReadsBack(step.x, TRUE)
                           /\ ~(step.x.e = "lit" /\ (IsStr(step.x.value) \/ IsNum(step.x.value)))
    [] OTHER -> TRUE
StepsReadBack(steps) == \A i \in DOMAIN steps : StepReadsBack(steps[i])

KeyReadsBack(entries, i, in) ==
  LET key == entries[i].key
      isConstant == key.e = "lit" /\ IsStr(key.value)
  IN  /\ i = 1 => key # Literal(<<"for">>)
      /\ (i > 1 /\ in /\ ~isConstant /\ key.e # "tpl") => ~EndsInName(entries[i - 1].value)
      /\ ReadsBack(key, isConstant \/ in \/ key.e # "tpl")

HeadReadsBack(x) == FillsSpan(Written(x)) /\ ReadsBack(x, FALSE)

\* after: the symbol that the text after the parts begins with.
RECURSIVE PartsReadBack(_, _)
PartsReadBack(parts, after) ==
  \A i \in DOMAIN parts :
    LET p    == parts[i]
        next == IF i = Len(parts) THEN after ELSE IF parts[i + 1].e = "interp" THEN "$" ELSE "%"
    IN  CASE p.e = "lit"    -> IsPlain(p.value.s) /\ (p.value.s # <<>> => Last(p.value.s) # next)
          [] p.e = "interp" -> HeadReadsBack(p.x)
          [] p.e = "tplif"  -> HeadReadsBack(p.c) /\ PartsReadBack(p.t.parts, "%") /\ PartsReadBack(p.f.parts, "%")
          [] p.e = "tplfor" -> HeadReadsBack(p.coll) /\ PartsReadBack(p.body.parts, "%")

ReadsBack(x, in) ==
  CASE x.e = "lit"     -> (IsStr(x.value) => IsPlain(x.value.s)) /\ (IsNum(x.value) => x.value.n.m >= 0)
    [] x.e = "tpl"     -> PartsReadBack(x.parts, "\"")
    [] x.e = "ref"     -> StepsReadBack(x.steps)
    [] x.e = "postfix" -> /\ x.base.e \notin {"lit", "tpl", "ref", "postfix"}
                          /\ ReadsBack(x.base, in \/ x.base.e \in {"binary", "cond", "unary"})
                          /\ StepsReadBack(x.steps)
    [] x.e = "tuple"   -> /\ x.items # <<>> => FirstName(x.items[1]) # <<"for">>
                          /\ \A i \in DOMAIN x.items : ReadsBack(x.items[i], TRUE)
    [] x.e = "object"  -> \A i \in DOMAIN x.entries : KeyReadsBack(x.entries, i, in) /\ ReadsBack(x.entries[i].value, in)
    [] x.e = "call"    -> \A i \in DOMAIN x.args : ReadsBack(x.args[i], TRUE)
    [] x.e = "for"     -> \A y \in {x.coll, x.valExpr} \cup Range(x.keyExpr) \cup Range(x.test) :
                            ReadsBack(y, in \/ x.keyExpr = <<>>)
    [] x.e = "unary"   -> OperandReadsBack(x.a, in)
    [] x.e = "binary"  -> OperandReadsBack(x.l, in) /\ OperandReadsBack(x.r, in)
    [] x.e = "cond"    -> OperandReadsBack(x.c, in) /\ OperandReadsBack(x.t, in) /\ OperandReadsBack(x.f, in)

RECURSIVE BodyReadsBack(_)
BodyReadsBack(body) ==
  \A i \in DOMAIN body :
    IF IsAttr(body[i]) THEN ReadsBack(body[i].value, FALSE)
    ELSE BodyReadsBack(body[i].body) /\ \A l \in Range(body[i].labels) : ReadsBack(l, FALSE)

-----------------------------------------------------------------------------
\* A result: its strings, keys and labels are plain, and no object has "for" first.
RECURSIVE ValueReadsBack(_)
ValueReadsBack(v) ==
  CASE IsStr(v)  -> IsPlain(v.s)
    [] IsList(v) -> \A i \in DOMAIN v.items : ValueReadsBack(v.items[i])
    [] IsObj(v)  -> /\ v.fields # <<>> => v.fields[1].key # <<"for">>
                    /\ \A i \in DOMAIN v.fields : IsPlain(v.fields[i].key) /\ ValueReadsBack(v.fields[i].value)
    [] OTHER -> TRUE

RECURSIVE ResultReadsBack(_)
ResultReadsBack(result) ==
  \A i \in DOMAIN result :
    IF IsAttr(result[i]) THEN ValueReadsBack(result[i].value)
    ELSE ResultReadsBack(result[i].body) /\ \A l \in Range(result[i].labels) : IsPlain(l)
=============================================================================
