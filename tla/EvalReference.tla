--------------------------- MODULE EvalReference ---------------------------
(***************************************************************************)
(* What a document means, stated without a machine: the value of an        *)
(* expression as a function of the expression and its scope, where a name  *)
(* stands for the expression that defines it.  There is no record of what  *)
(* is being resolved; fuel bounds the unfolding, and an unfolding deeper   *)
(* than the number of definitions never ends, which is what "circular"     *)
(* means here.  Failures are values too, and the first one in evaluation   *)
(* order is the outcome.                                                   *)
(***************************************************************************)
EXTENDS Evaluator

Err(kind) == [k |-> "err", err |-> kind]
IsErr(v)  == v.k = "err"

\* The first failure of a sequence of outcomes, or ok when there is none.
FirstErr(vs, ok) ==
  LET i == SelectInSeq(vs, IsErr) IN IF i = 0 THEN ok ELSE vs[i]

OrErr(v, kind) == IF v = NoValue THEN Err(kind) ELSE v
AsText(v) == IF IsErr(v) THEN v ELSE IF HasText(v) THEN Str(Text(v)) ELSE Err("type")
Concat(vs) == FirstErr(vs, Str(FoldLeft(LAMBDA s, v : s \o v.s, "", vs)))
SameText(a, b) == HasText(a) /\ HasText(b) /\ Text(a) = Text(b)

\* A sequence of outcomes, each computed once (TLC computes an element of a
\* function constructor again at every use).
Each(vs) == SubSeq(vs, 1, Len(vs))

\* v indexed by key.
Index(v, key) ==
  CASE IsErr(key) -> key
    [] IsNum(key) -> IF ~IsList(v) THEN Err("type")
                     ELSE IF key.n + 1 \in DOMAIN v.items THEN v.items[key.n + 1] ELSE Err("range")
    [] IsStr(key) -> IF ~IsObj(v) THEN Err("type") ELSE OrErr(Get(v, key.s), "notfound")
    [] OTHER      -> Err("type")

\* w, unless v has failed, or is not a bool.
Unless(v, w)   == IF IsErr(v) THEN v ELSE w
Branch(v, t, f) == IF IsErr(v) THEN v ELSE IF ~IsBool(v) THEN Err("type") ELSE IF v.b THEN t ELSE f
BoolOnly(v)    == IF IsErr(v) \/ IsBool(v) THEN v ELSE Err("type")

Drop(s, n) == SubSeq(s, n + 1, Len(s))

\* Operators of outcomes: what an expression is when these are what its parts are.
Operands(vs, w) == FirstErr(vs, OrErr(w, "type"))

\* A field of an object whose keys up to it are ks, the last one its own.
FieldMeaning(ks, v) ==
  IF IsErr(AsText(Last(ks))) THEN AsText(Last(ks))
  ELSE IF \E j \in 1 .. Len(ks) - 1 : SameText(ks[j], Last(ks)) THEN Err("duplicate") ELSE v
ObjectMeaning(ks, vs) == FirstErr(vs, Object([i \in DOMAIN ks |-> Field(Text(ks[i]), vs[i])]))

Called(x, fn, vs, w) ==
  FirstErr(vs, IF x.expand /\ vs # <<>> /\ ~IsList(Last(vs)) THEN Err("type")
               ELSE IF Len(Args(x, vs)) \notin fn.min .. fn.max THEN Err("arity") ELSE OrErr(w, "call"))

\* A round of a loop: skipped, a failure, or a value with its key.
SkippedRound == [k |-> "skipped"]
RoundMeaning(test, key, v) ==
  CASE IsErr(test) -> test
    [] ~IsErr(test) /\ ~IsBool(test) -> Err("type")
    [] test = Bool(FALSE) -> SkippedRound
    [] test = Bool(TRUE)  -> IF IsErr(key) THEN key ELSE IF ~IsStr(key) THEN Err("type")
                             ELSE Unless(v, [k |-> "round", key |-> key.s, val |-> v])

\* The rounds rs of a loop that are not skipped make a list, or an object of the values
\* or of the groups of each key, in the order the keys come first.
RoundsOf(rs, key) == SelectSeq(rs, LAMBDA r : r.key = key)
Values(rs)        == List([i \in DOMAIN rs |-> rs[i].val])
Heads(rs)         == SelectSeq([n \in DOMAIN rs |-> n], LAMBDA n : \A m \in 1 .. n - 1 : rs[m].key # rs[n].key)
Distinct(rs)      ==
  Each([n \in DOMAIN rs |-> IF ~IsErr(rs[n]) /\ \E m \in 1 .. n - 1 : ~IsErr(rs[m]) /\ rs[m].key = rs[n].key
                              THEN Err("duplicate") ELSE rs[n]])
LoopObject(rs, heads, grouping) ==
  Object([j \in DOMAIN heads |->
            LET r == rs[heads[j]] IN Field(r.key, IF grouping THEN Values(RoundsOf(rs, r.key)) ELSE r.val)])
LoopMeaning(x, rs) ==
  CASE x.keyExpr = <<>> -> FirstErr(rs, Values(rs))
    [] x.keyExpr # <<>> /\ x.grouping -> FirstErr(rs, LoopObject(rs, Heads(rs), TRUE))
    [] x.keyExpr # <<>> /\ ~x.grouping -> FirstErr(Distinct(rs), LoopObject(rs, Heads(rs), FALSE))

\* The blocks that the steps of x can name, and the first with the most labels.
Fitting(x, all) ==
  {i \in all : /\ Len(doc[i].labels) \in 1 .. Len(x.steps)
               /\ \A k \in 1 .. Len(doc[i].labels) : x.steps[k].s = "attr"}
MostLabels(fits) ==
  CHOOSE i \in fits : \A j \in fits \ {i} :
    \/ Len(doc[i].labels) > Len(doc[j].labels)
    \/ Len(doc[i].labels) = Len(doc[j].labels) /\ i < j

RECURSIVE Meaning(_, _, _), Path(_, _, _, _), PathFrom(_, _, _, _), LoopOver(_, _, _, _),
          FromBlock(_, _, _, _), LabelText(_, _, _), BlockNamed(_, _, _), Compared(_, _, _, _, _)

\* The value of x in scope.
Meaning(x, scope, fuel) ==
  LET M(y)    == Meaning(y, scope, fuel)
      All(ys) == Each([i \in DOMAIN ys |-> M(ys[i])])
  IN CASE x.e = "lit"   -> x.value
       [] x.e = "tuple" -> LET Tup(vs) == FirstErr(vs, List(vs)) IN Tup(All(x.items))
       [] x.e = "object" ->
            LET Fields(ks) == ObjectMeaning(ks, Each([i \in DOMAIN ks |->
                                FieldMeaning(SubSeq(ks, 1, i), M(x.entries[i].value))]))
            IN  Fields(Each([i \in DOMAIN x.entries |-> M(x.entries[i].key)]))
       [] x.e \in {"cond", "tplif"} -> Branch(M(x.c), M(x.t), M(x.f))
       [] x.e = "unary" -> LET Un(v) == Operands(<<v>>, UnaryOp(x.op, v)) IN Un(M(x.a))
       [] x.e = "binary" ->
            LET Strict(l, r) == Operands(<<l, r>>, BinaryOp(x.op, l, r))
            IN  CASE x.op = "&&" -> Branch(M(x.l), BoolOnly(M(x.r)), Bool(FALSE))
                  [] x.op = "||" -> Branch(M(x.l), Bool(TRUE), BoolOnly(M(x.r)))
                  [] OTHER -> Strict(M(x.l), M(x.r))
       [] x.e = "call" ->
            LET Host(vs)    == Called(x, bindings.fns[x.name], vs, bindings.fns[x.name].answer)
                Builtin(vs) == Called(x, Builtins[x.name], vs, CallBuiltin(x.name, Args(x, vs)))
            IN  CASE x.name \in DOMAIN bindings.fns -> Host(All(x.args))
                  [] x.name \in DOMAIN Builtins \ DOMAIN bindings.fns -> Builtin(All(x.args))
                  [] OTHER -> Err("function")
       [] x.e = "tpl" -> Concat(Each([i \in DOMAIN x.parts |-> AsText(M(x.parts[i]))]))
       [] x.e \in {"for", "tplfor"} -> LoopOver(x, M(x.coll), scope, fuel)
       [] x.e = "postfix" -> PathFrom(M(x.base), x.steps, scope, fuel)
       [] x.e = "ref" ->
            CASE ScopeLookup(scope, x.root) # NoValue ->
                   PathFrom(ScopeLookup(scope, x.root), x.steps, scope, fuel)
              [] ScopeLookup(scope, x.root) = NoValue /\ x.root \in DOMAIN bindings.vals ->
                   PathFrom(bindings.vals[x.root], x.steps, scope, fuel)
              [] ScopeLookup(scope, x.root) = NoValue /\ x.root \notin DOMAIN bindings.vals ->
                   IF AttrAt(doc, x.root) > 0
                     THEN PathFrom(IF fuel = 0 THEN Err("circular")
                                   ELSE Meaning(doc[AttrAt(doc, x.root)].value, <<>>, fuel - 1), x.steps, scope, fuel)
                   ELSE IF x.steps = <<>> \/ x.steps[1].s # "attr" THEN Err("notfound")
                   ELSE FromBlock(x, BlockNamed(x, Fitting(x, BlocksOf(doc, x.root)), fuel), scope, fuel)

\* A loop over coll, of an expression or of a template.
LoopOver(x, coll, scope, fuel) ==
  LET Inside(s, y)     == Meaning(y, s, fuel)
      If(ys, s, v) == IF ys = <<>> THEN v ELSE Inside(s, ys[1])
      Round(s)     == RoundMeaning(If(x.test, s, Bool(TRUE)), If(x.keyExpr, s, Str("")), Inside(s, x.valExpr))
      Each1(es)    == Each([i \in DOMAIN es |-> IterScope(scope, x.key, x.val, es[i])])
      Expr(ss)     == LoopMeaning(x, SelectSeq(Each([i \in DOMAIN ss |-> Round(ss[i])]), LAMBDA r : r # SkippedRound))
      Tpl(ss)      == Concat(Each([i \in DOMAIN ss |-> Inside(ss[i], x.body)]))
  IN  Unless(coll, IF ~IsCollection(coll) THEN Err("type")
                   ELSE IF x.e = "for" THEN Expr(Each1(Elements(coll))) ELSE Tpl(Each1(Elements(coll))))

\* The block that was found, as an object of its attributes, and the steps after its labels.
FromBlock(x, found, scope, fuel) ==
  LET Obj(attrs, vs) == FirstErr(vs, Object([j \in DOMAIN vs |-> Field(attrs[j].name, vs[j])]))
      Entering(attrs)   == IF fuel = 0 THEN Err("circular")
                        ELSE Obj(attrs, Each([j \in DOMAIN attrs |-> Meaning(attrs[j].value, <<>>, fuel - 1)]))
  IN  Unless(found, PathFrom(Entering(SelectSeq(doc[found.block].body, IsAttr)),
                             Drop(x.steps, Len(doc[found.block].labels)), scope, fuel))

\* The value at the end of the steps from v.  A splat maps what follows it.
PathFrom(v, steps, scope, fuel) == Unless(v, Path(v, steps, scope, fuel))
Path(v, steps, scope, fuel) ==
  LET step == Head(steps)
      Listed(vs) == FirstErr(vs, List(vs))
      Mapped(es) == Listed(Each([i \in DOMAIN es |-> Path(es[i], Tail(steps), scope, fuel)]))
  IN  CASE steps = <<>> -> v
        [] steps # <<>> /\ step.s = "attr"  -> PathFrom(Index(v, Str(step.name)), Tail(steps), scope, fuel)
        [] steps # <<>> /\ step.s = "index" -> PathFrom(Index(v, Meaning(step.x, scope, fuel)), Tail(steps), scope, fuel)
        [] steps # <<>> /\ step.s = "splat" -> Mapped(IF IsList(v) THEN v.items ELSE <<v>>)

\* The text of a label.
LabelText(block, k, fuel) ==
  IF block.labels[k].e = "lit" THEN block.labels[k].value
  ELSE IF fuel = 0 THEN Err("circular")
  ELSE AsText(Meaning(block.labels[k], <<>>, fuel - 1))

\* Which of the blocks left the reference x means: the one whose labels spell the
\* first steps, most labels first.  Labels are read as long as they match.
BlockNamed(x, left, fuel) ==
  LET Try(b) == Compared(x, left, b, Each([k \in DOMAIN doc[b].labels |-> LabelText(doc[b], k, fuel)]), fuel)
  IN  IF left = {} THEN Err("notfound") ELSE Try(MostLabels(left))

Compared(x, left, b, text, fuel) ==
  LET stop == SelectInSeq([k \in DOMAIN text |-> text[k] = Str(x.steps[k].name)], LAMBDA same : ~same)
  IN  IF stop = 0 THEN [k |-> "block", block |-> b]
      ELSE Unless(text[stop], BlockNamed(x, left \ {b}, fuel))

\* A body, evaluated: its items with values for expressions, or the first failure.
ItemsOf(outcomes) ==
  LET Whole(bad) == IF IsErr(bad) THEN [ok |-> FALSE, err |-> bad.err]
                    ELSE [ok |-> TRUE, items |-> Each([i \in DOMAIN outcomes |-> outcomes[i].it])]
  IN  Whole(FirstErr(outcomes, Null))
AnItem(it) == [k |-> "item", it |-> it]
AttrMeaning(it, v) == Unless(v, AnItem(AttrItem(it.name, v)))
BlockMeaning(it, labels, body) ==
  FirstErr(labels, IF ~body.ok THEN Err(body.err)
                   ELSE AnItem(BlockItem(it.type, Each([j \in DOMAIN labels |-> labels[j].s]), body.items)))

RECURSIVE BodyMeaning(_, _, _)
BodyMeaning(body, top, fuel) ==
  LET OfItem(it) ==
        IF IsAttr(it)
          THEN AttrMeaning(it, IF top /\ it.name \in DOMAIN bindings.vals
                                 THEN bindings.vals[it.name] ELSE Meaning(it.value, <<>>, fuel))
          ELSE BlockMeaning(it, Each([j \in DOMAIN it.labels |-> LabelText(it, j, fuel)]), BodyMeaning(it.body, FALSE, fuel))
  IN  ItemsOf(Each([i \in DOMAIN body |-> OfItem(body[i])]))

DocumentMeaning == BodyMeaning(doc, TRUE, Definitions)

\* The evaluation returns what the document means: the same value for every item,
\* or a failure of the same kind as the first one the unfolding meets.  In
\* particular it reports a circular reference exactly when the unfolding of names
\* never ends, however the cycle runs: through attributes, blocks, computed labels,
\* lookups that only compare labels, loops, branches that are not taken.
AgreesWithMeaning ==
  result # <<>> => \E m \in {DocumentMeaning} :
                     /\ result.ok = m.ok
                     /\ result.ok => result.items = m.items
                     /\ ~result.ok => error = m.err
=============================================================================
