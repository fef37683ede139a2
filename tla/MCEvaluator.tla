---------------------------- MODULE MCEvaluator ----------------------------
(***************************************************************************)
(* Small documents for TLC.                                                *)
(*                                                                         *)
(* Names: attributes a and b, a block of type s, loop variables that carry *)
(* the same names.  The resolution documents are every combination of a    *)
(* pool of right-hand sides, so every way two attributes, a block and a    *)
(* label can depend on each other, cycles included, is among them.         *)
(***************************************************************************)
EXTENDS EvalReference, ValueOps

N(n)    == Lit(Num(n))
S(s)    == Lit(Str(s))
T       == Lit(Bool(TRUE))
F       == Lit(Bool(FALSE))
Name(n) == Ref(n, <<>>)
Dot(root, names) == Ref(root, Attrs(names))
Interp(x) == Template(<<x>>)

-----------------------------------------------------------------------------
(* Resolution: who depends on whom *)

Rhs      == {N(1), S("x"), Name("a"), Name("b"), Dot("s", <<"x", "p">>), Dot("s", <<"y", "p">>),
             Cond(F, Name("a"), Name("b"))}
InBlock  == {N(1), S("x"), Name("a"), Name("b"), Dot("s", <<"x", "p">>)}
Labels   == {S("x"), Interp(Name("b")), Template(<<S("x"), Dot("s", <<"y", "p">>)>>)}
Pair(ea, eb) == <<AttrItem("a", ea), AttrItem("b", eb)>>
SBlock(l, e) == BlockItem("s", <<l>>, <<AttrItem("p", e), BlockItem("t", <<>>, <<AttrItem("q", Name("a"))>>)>>)

ResolutionDocs ==
  {<<SBlock(l, e)>> \o Pair(ea, eb) : l \in Labels, e \in InBlock, ea \in Rhs, eb \in Rhs}
  \cup {Pair(ea, eb) \o <<SBlock(l, e)>> : l \in Labels, e \in InBlock, ea \in Rhs, eb \in {N(1), S("x")}}

\* Blocks of one type with one and two labels, the longest match first; computed
\* labels that look other blocks up.
TwoLabels(l1, l2, l3) ==
  <<BlockItem("s", <<l1>>, <<AttrItem("p", N(1)), AttrItem("y", ObjectExpr(<<Entry(S("p"), N(3))>>))>>),
    BlockItem("s", <<l2, l3>>, <<AttrItem("p", N(2))>>),
    AttrItem("a", Dot("s", <<"x", "y", "p">>)),
    AttrItem("b", Dot("s", <<"x", "p">>))>>

LabelDocs ==
  {TwoLabels(l1, l2, l3) : l1 \in {S("x"), Interp(Name("b")), Interp(Cond(T, S("x"), Name("a"))), Interp(Name("a"))},
                           l2 \in {S("x"), S("z"), Interp(Dot("s", <<"x", "p">>))},
                           l3 \in {S("y"), S("p"), Template(<<S("y"), IfPart(F, Interp(Name("b")), S(""))>>), Interp(Name("a"))}}

-----------------------------------------------------------------------------
(* Expressions: loops, templates, calls, operators, steps.  In each document *)
(* x is the expression and a, b are what it may refer to.                    *)

Ab(key, e) == ObjectExpr(<<Entry(S("a"), e), Entry(key, N(2))>>)
ListFor(val, coll, e) == For("", val, coll, <<>>, <<>>, e, FALSE)
Nums(ns)  == Tuple([i \in DOMAIN ns |-> N(ns[i])])
Objs      == Tuple(<<Ab(S("b"), N(1)), Ab(S("b"), N(1))>>)

Expressions ==
  { \* loop variables: shadowing, and resolution that must not see them
    ListFor("a", Nums(<<1, 2>>), Name("a")),
    ListFor("a", Nums(<<7, 8>>), Name("b")),
    ListFor("b", Tuple(<<Nums(<<1>>)>>), Name("a")),
    ListFor("b", Name("b"), ListFor("a", Nums(<<5>>), Tuple(<<Name("a"), Name("b")>>))),
    For("a", "b", Name("b"), <<>>, <<>>, Binary("+", Name("a"), N(1)), FALSE),
    For("b", "b", Nums(<<4, 4>>), <<>>, <<>>, Name("b"), FALSE),
    For("a", "b", Nums(<<3, 4, 5>>), <<Binary(">", Name("b"), N(3))>>, <<>>, Name("a"), FALSE),
    For("a", "b", Nums(<<3>>), <<Name("b")>>, <<>>, Name("zz"), FALSE),
    ListFor("c", Name("a"), Name("c")),
    ListFor("c", Name("b"), Dot("s", <<"x", "p">>)),
    For("k", "v", Ab(S("b"), N(9)), <<>>, <<Name("k")>>, Name("v"), FALSE),
    For("k", "v", Nums(<<1, 2>>), <<>>, <<S("k")>>, Name("v"), FALSE),
    For("k", "v", Nums(<<1, 2, 3>>), <<>>,
        <<Cond(Binary("==", Name("v"), N(2)), S("m"), S("k"))>>, Name("v"), TRUE),
    For("k", "v", Nums(<<1>>), <<>>, <<Name("v")>>, Name("v"), FALSE),
    \* templates
    Template(<<S("n"), Name("a"), IfPart(T, Template(<<Name("a")>>), S("")),
               IfPart(F, Template(<<Name("zz")>>), Template(<<T>>))>>),
    Template(<<ForPart("a", "c", Nums(<<7, 8>>), Template(<<Name("a"), Name("c"), Name("b")>>))>>),
    Template(<<ForPart("", "c", Name("b"), Template(<<Name("c")>>))>>),
    Template(<<IfPart(N(1), S("y"), S("z"))>>),
    Template(<<Name("a"), Objs>>),
    \* objects
    Ab(S("b"), Name("b")), Ab(S("a"), Name("zz")), Ab(Name("a"), Name("a")), Ab(Objs, N(1)),
    \* operators
    Binary("&&", F, Name("zz")), Binary("||", F, N(1)), Binary("&&", T, Name("a")),
    Binary("||", T, Name("x")), Binary("&&", N(1), Name("zz")),
    Binary("/", N(6), Unary("-", N(2))), Binary("%", N(1), N(0)), Binary("<", S("x"), N(1)),
    Binary("==", Ab(S("b"), N(1)), ObjectExpr(<<Entry(S("b"), N(2)), Entry(S("a"), N(1))>>)),
    Unary("!", N(1)), Unary("!", Binary("!=", Nums(<<1>>), Nums(<<1, 2>>))),
    Cond(N(1), Name("a"), Name("b")), Cond(T, Name("b"), Name("x")),
    \* calls
    Call("length", <<Name("b")>>, FALSE), Call("length", <<Name("b")>>, TRUE),
    Call("length", <<N(1)>>, FALSE), Call("coalesce", <<Lit(Null), Objs>>, TRUE),
    Call("keys", <<Ab(S("b"), N(1))>>, FALSE), Call("host", <<Name("a")>>, FALSE),
    Call("nofn", <<Name("x")>>, FALSE), Call("host", <<>>, FALSE), Call("fails", <<>>, FALSE),
    \* steps
    Postfix(Objs, <<IndexStep(N(1)), AttrStep("a")>>),
    Postfix(Objs, <<SplatStep, AttrStep("b")>>),
    Postfix(Ab(S("b"), N(1)), <<SplatStep, IndexStep(Template(<<S("b")>>))>>),
    ListFor("a", Nums(<<0, 1>>), Ref("b", <<IndexStep(Name("a"))>>)),
    Ref("b", <<IndexStep(N(2))>>), Ref("b", <<IndexStep(T)>>), Ref("b", <<AttrStep("a")>>),
    Ref("b", <<IndexStep(Unary("-", N(1)))>>), Postfix(Objs, <<IndexStep(Unary("-", N(2)))>>),
    Postfix(Objs, <<IndexStep(Binary("-", N(1), N(1))), AttrStep("b")>>),
    Postfix(Objs, <<SplatStep, AttrStep("c")>>), Ref("a", <<IndexStep(S("k"))>>),
    Dot("s", <<"x", "t">>), Ref("s", <<IndexStep(N(0))>>), Name("s"), Dot("s", <<"x", "p", "p">>)
  }

ExpressionDocs ==
  {<<AttrItem("a", ea), AttrItem("x", e), AttrItem("b", eb), AttrItem("b", Name("zz2")),
     SBlock(S("x"), Name("a"))>> :
     e \in Expressions, ea \in {N(3), Call("length", <<Name("b")>>, FALSE)},
     eb \in {Nums(<<1, 2>>), Tuple(<<>>), Ref("a", <<>>)}}

-----------------------------------------------------------------------------
NoNames == [n \in {} |-> Null]
HostFns ==
  [host   |-> [min |-> 1, max |-> 2, answer |-> List(<<Num(4)>>)],
   length |-> [min |-> 0, max |-> 1, answer |-> Num(42)],
   fails  |-> [min |-> 0, max |-> 0, answer |-> NoValue]]

MCBindings ==
  {[vals |-> NoNames, fns |-> NoNames],
   [vals |-> [a |-> Num(5), s |-> Object(<<Field("x", Num(6))>>)], fns |-> HostFns],
   [vals |-> [b |-> List(<<Num(8)>>), q |-> Null], fns |-> NoNames]}

MCDocs == ResolutionDocs \cup LabelDocs \cup ExpressionDocs

-----------------------------------------------------------------------------
(* Two kinds of document on which the code does not do what is written of it *)

\* Splats in one another's remaining steps: l[*].b[*], with and without a step more.
SplatDocs ==
  LET l == Tuple(<<ObjectExpr(<<Entry(S("b"), Objs)>>), ObjectExpr(<<Entry(S("b"), Nums(<<1>>))>>)>>)
  IN  {<<AttrItem("l", l), AttrItem("x", Ref("l", <<SplatStep, AttrStep("b"), SplatStep>> \o more))>> :
         more \in {<<>>, <<AttrStep("a")>>, <<IndexStep(N(0))>>, <<SplatStep>>}}

\* A splat "maps the remaining steps" over the elements, whatever they are: no step of
\* them yields a null pointer, for the next one to read or the list to keep.
SplatMapsRemainingSteps ==
  \A n \in DOMAIN stack : stack[n].op \in {"steps", "mapped"} => stack[n].acc[1] # NoValue

\* A label that uses another block of the same type, written after it or before it.
OtherBlockDocs ==
  LET user  == BlockItem("s", <<Interp(Dot("s", <<"x", "p">>))>>, <<AttrItem("p", N(1))>>)
      other == BlockItem("s", <<S("x")>>, <<AttrItem("p", S("y"))>>)
  IN  {<<user, other>>, <<other, user>>}

\* A label that uses another block, and not its own, has a value.
LabelsMayUseOtherBlocks == error # "circular"
=============================================================================
