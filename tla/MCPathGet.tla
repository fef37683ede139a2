------------------------------ MODULE MCPathGet ------------------------------
(***************************************************************************)
(* Small results to read, and the paths that read them.  A result is what  *)
(* a document means (EvalReference, which the run of Evaluator compares    *)
(* with the code), so a path can be compared with the reference that is    *)
(* spelled the same.                                                       *)
(***************************************************************************)
EXTENDS PathGet, ValueOps

VARIABLE document

MeaningOf(d) == INSTANCE EvalReference WITH
  Docs <- {}, Bindings <- {}, Builtins <- BuiltinArity, CallBuiltin <- ApplyBuiltin,
  BinaryOp <- ApplyBinary, UnaryOp <- ApplyUnary,
  doc <- d, bindings <- [vals |-> [p |-> Num(2)], fns |-> [n \in {} |-> Null]],
  stack <- <<>>, resolving <- <<>>, error <- "", result <- <<>>

N(n) == Lit(Num(n))
S(s) == Lit(Str(s))

\* Blocks of type s with every list of labels that two names allow, in pairs, with a
\* nested block, an object, a list, a null and a repeated attribute in them, and next to
\* attributes with the names the labels have.
Bodies ==
  {<<AttrItem("p", N(1)), AttrItem("p", N(-3))>>,
   <<AttrItem("x", ObjectExpr(<<Entry(S("p"), Tuple(<<N(-2), N(1)>>)), Entry(S("x"), Lit(Null))>>)),
     BlockItem("p", <<S("x")>>, <<AttrItem("p", Ref("p", <<>>))>>)>>,
   <<BlockItem("x", <<>>, <<AttrItem("s", Tuple(<<N(1), N(2)>>))>>), AttrItem("p", Tuple(<<S("s"), N(0)>>))>>}
LabelLists == {<<>>, <<S("x")>>, <<S("p")>>, <<S("x"), Template(<<Ref("p", <<>>)>>)>>, <<S("x"), S("p")>>}
Tops == {<<AttrItem("p", N(7))>>, <<AttrItem("s", ObjectExpr(<<Entry(S("x"), N(4))>>)), AttrItem("p", Tuple(<<>>))>>}

MCDocuments ==
  {<<BlockItem("s", l1, b1), BlockItem("s", l2, b2), AttrItem("p", N(7))>> :
     l1 \in LabelLists, l2 \in LabelLists, b1 \in Bodies, b2 \in Bodies}
  \cup {<<BlockItem("s", l1, b1)>> \o t : l1 \in LabelLists, b1 \in Bodies, t \in Tops}

MCPaths ==
  {<<>>} \cup {<<h>> \o r : h \in {Name("s"), Name("p"), Malformed},
                            r \in SeqOf({Name("x"), Name("p"), Name("s"), IndexAt(1), Malformed}, 2)}
         \cup {<<Name("s"), Name("x")>> \o r : r \in [1 .. 2 -> {Name("x"), Name("p"), Name("s"), IndexAt(1)}]}

MCIsLong(n) == n \in -2 .. 1

\* No list here has more than two items: none of the capacities is left out that matters.
MCCapacities == 0 .. 3

MCRoots == {MeaningOf(d)!DocumentMeaning.items : d \in MCDocuments}

\* There is an empty document at first.
MCInit ==
  /\ document = <<>>
  /\ root = <<>>
  /\ path = <<>>
  /\ it = [doing |-> "nothing", over |-> <<>>]
  /\ next = 0
  /\ seen = <<>>
  /\ max = 0
  /\ answer = <<>>

\* The host evaluates a document and chooses a path: what Init allows.
Evaluate ==
  /\ document = <<>>
  /\ \E d \in MCDocuments : document' = d /\ root' = MeaningOf(d)!DocumentMeaning.items
  /\ path' \in Paths
  /\ UNCHANGED <<it, next, seen, max, answer>>

Read == document # <<>> /\ Next /\ UNCHANGED document

MCSpec == MCInit /\ [][Evaluate \/ Read]_<<vars, document>>

\* The reference that is spelled like the path.
Spelled ==
  Ref(Head(path).name, [k \in 1 .. Len(path) - 1 |->
        IF path[k + 1].p = "name" THEN AttrStep(path[k + 1].name) ELSE IndexStep(N(path[k + 1].index))])

\* A path means what the reference spelled like it means to the evaluator: wherever the
\* reference has a value, the path names that value, or the block whose attributes are
\* that object.
PathMeansReference ==
  LET AttrsOf(body)  == SelectSeq(body, IsAttr)
      AsObject(attrs) == Object([j \in DOMAIN attrs |-> Field(attrs[j].name, attrs[j].value)])
      Same(v, r)     == \/ MeaningOf(document)!IsErr(v)
                        \/ r = AValue(v)
                        \/ r.names = "block" /\ v = AsObject(AttrsOf(r.block.body))
  IN  Idle /\ path # <<>> /\ Malformed \notin Range(path) =>
        Same(MeaningOf(document)!Meaning(Spelled, <<>>, MeaningOf(document)!Definitions), Resolve(root, path))
=============================================================================
