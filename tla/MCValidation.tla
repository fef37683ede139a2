---------------------------- MODULE MCValidation ----------------------------
(***************************************************************************)
(* Small schemas, built by calls or loaded, and small documents.           *)
(***************************************************************************)
EXTENDS Validation

Text_(s)  == Lit(Str(s))
Flag(b)   == Lit(Bool(b))
Set(name, x)           == AttrItem(name, x)
Declare(type, body)    == BlockItem("block", <<Text_(type)>>, body)
Full(type)             == ObjectExpr(<<Entry(Text_("type"), Text_(type)), Entry(Text_("required"), Flag(TRUE))>>)
Pairs(name)            == For("", "v", Ref(name, <<>>), <<>>, <<Ref("v", <<>>)>>, Ref("v", <<>>), FALSE)

\* x of a is required and one of two words, y is an object; b inside a has rules of its own.
Good == <<Set("strict", Flag(TRUE)),
          Declare("a", <<Set("x", ObjectExpr(<<Entry(Text_("values"), Tuple(<<Text_("r"), Text_("w")>>)),
                                               Entry(Text_("required"), Flag(TRUE)),
                                               Entry(Text_("type"), Text_("string"))>>)),
                         Declare("b", <<Set("x", Full("number"))>>),
                         Set("y", Text_("object"))>>),
          Declare("b", <<>>)>>

MCDeclarations ==
  {Good, <<>>,
   <<Declare("a", <<Declare("a", <<Declare("a", <<Set("x", Text_("list"))>>)>>)>>)>>,
   <<Set("strict", Flag(TRUE)), Declare("a", <<Set("x", Tuple(<<Text_("r")>>))>>), Set("strict", Flag(FALSE))>>,
   <<Declare("a", <<>>), Declare("a", <<>>)>>,
   <<Declare("a", <<Set("x", Text_("any")), Set("x", Text_("any"))>>)>>,
   <<Declare("a", <<Set("x", Tuple(<<Text_("r"), Text_("r")>>))>>)>>,
   <<Declare("a", <<Set("x", ObjectExpr(<<Entry(Text_("type"), Text_("number")),
                                          Entry(Text_("values"), Tuple(<<Text_("r")>>))>>))>>)>>,
   <<Declare("a", <<Set("x", ObjectExpr(<<Entry(Text_("kind"), Text_("any"))>>))>>)>>,
   <<Declare("a", <<>>), Set("lenient", Flag(TRUE))>>,
   <<BlockItem("a", <<>>, <<>>)>>,
   <<Set("strict", Text_("yes"))>>,
   <<BlockItem("block", <<Ref("v", <<>>)>>, <<>>)>>,
   <<Declare("a", <<Set("x", Lit(Num(1)))>>)>>,
   <<Declare("a", <<Set("x", Text_("str"))>>)>>,
   <<Declare("a", <<Set("x", ObjectExpr(<<Entry(Text_("type"), Lit(Null))>>))>>)>>,
   <<Declare("a", <<Set("x", ObjectExpr(<<Entry(Text_("required"), Text_("yes"))>>))>>)>>,
   <<Declare("a", <<Set("x", ObjectExpr(<<Entry(Ref("v", <<>>), Text_("any"))>>))>>)>>,
   <<Declare("a", <<Set("x", ObjectExpr(<<Entry(Text_("values"), Text_("r"))>>))>>)>>,
   <<Declare("a", <<Set("x", Tuple(<<>>))>>)>>,
   <<Declare("a", <<Set("x", Tuple(<<Text_("r"), Lit(Num(1))>>))>>)>>,
   <<BlockItem("block", <<Text_("a"), Text_("b")>>, <<>>)>>}

MCHostTypes == {"a"}
MCHostAttrs == {Attr("x", "num", TRUE, <<>>), Attr("x", "str", FALSE, <<"r", "w">>),
                Attr("y", "str", FALSE, <<"r", "r">>)}

Block(type, body) == BlockItem(type, <<>>, body)
MCDocuments ==
  {<<Set("x", Lit(Num(1))), Block("a", <<Set("x", Ref("v", <<>>)), Set("y", Pairs("v"))>>)>>,
   <<Block("a", <<Block("b", <<Set("x", Lit(Num(1)))>>), Set("x", Text_("r"))>>)>>,
   <<Block("b", <<>>), Block("a", <<Set("x", Text_("q")), Set("x", Tuple(<<>>))>>)>>}

MCBound     == [n \in {"v"} |-> Str("w")]
MCNewNames  == {"x"}
MCNewTypes  == {"b"}
MCNewValues == {Text_("w")}
=============================================================================
