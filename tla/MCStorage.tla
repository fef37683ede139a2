------------------------------ MODULE MCStorage ------------------------------
(***************************************************************************)
(* Texts for TLC, each with what it says.                                  *)
(***************************************************************************)
EXTENDS Storage

Session(t, loads, body, vs) == [text |-> t, loads |-> loads, body |-> body, values |-> vs]
Says(t, body)               == Session(t, TRUE, body, {})

NumLit(m, e) == Lit(Num([m |-> m, e |-> e]))
Name(n)      == Ref(<<n>>, <<>>)
X(x)         == <<AttrItem(<<"x">>, x)>>

-----------------------------------------------------------------------------
(* Expressions, spelled with every part in parentheses *)

RECURSIVE Spelled(_)
SpelledParts(parts) ==
  FlattenSeq([i \in DOMAIN parts |->
    IF parts[i].e = "lit" THEN Escaped(parts[i].value.s)
    ELSE IF parts[i].e = "interp" THEN <<"$", "{">> \o Spelled(parts[i].x) \o <<"}">>
    ELSE IF parts[i].e = "tplif"
      THEN <<"%", "{", "if", " ">> \o Spelled(parts[i].c) \o <<"}", "y", "%", "{", "else", "}", "z", "%", "{", "endif", "}">>
      ELSE <<"%", "{", "for", " ">> \o parts[i].val \o <<" ", "in", " ">> \o Spelled(parts[i].coll)
           \o <<"}", "y", "%", "{", "endfor", "}">>])

Spelled(x) ==
  CASE x.e = "lit"     -> WrittenLit(x.value)
    [] x.e = "tpl"     -> <<"\"">> \o SpelledParts(x.parts) \o <<"\"">>
    [] x.e = "ref"     -> Paren(x.root \o FlattenSeq([i \in DOMAIN x.steps |->
                            IF x.steps[i].s = "expr" THEN <<"[">> \o Paren(Spelled(x.steps[i].x)) \o <<"]">>
                            ELSE WrittenStep(x.steps[i])]))
    [] x.e = "postfix" -> Paren(Paren(Spelled(x.base)) \o WrittenSteps(x.steps))
    [] x.e = "tuple"   -> <<"[">> \o FlattenSeq([i \in DOMAIN x.items |-> Paren(Spelled(x.items[i])) \o <<",">>]) \o <<"]">>
    [] x.e = "object"  ->
         <<"{">> \o FlattenSeq([i \in DOMAIN x.entries |->
                      Paren(Spelled(x.entries[i].key)) \o <<":">> \o Paren(Spelled(x.entries[i].value)) \o <<",">>]) \o <<"}">>
    [] x.e = "call"    -> Paren(x.name \o <<"(">> \o Joined([i \in DOMAIN x.args |-> Paren(Spelled(x.args[i]))], <<",">>)
                                \o (IF x.expand THEN <<".", ".", ".">> ELSE <<>>) \o <<")">>)
    [] x.e = "for"     ->
         LET isObject == x.keyExpr # <<>>
         IN  <<IF isObject THEN "{" ELSE "[", "for", " ">> \o (IF x.key = <<>> THEN <<>> ELSE x.key \o <<",">>)
             \o x.val \o <<" ", "in">> \o Paren(Spelled(x.coll)) \o <<":">>
             \o (IF isObject THEN Paren(Spelled(x.keyExpr[1])) \o <<"=", ">">> ELSE <<>>) \o Paren(Spelled(x.valExpr))
             \o (IF x.grouping THEN <<".", ".", ".">> ELSE <<>>)
             \o (IF x.test = <<>> THEN <<>> ELSE <<"if">> \o Paren(Spelled(x.test[1])))
             \o <<IF isObject THEN "}" ELSE "]">>
    [] x.e = "unary"   -> Paren(<<x.op>> \o Paren(Spelled(x.a)))
    [] x.e = "binary"  -> Paren(Paren(Spelled(x.l)) \o Symbols(x.op) \o Paren(Spelled(x.r)))
    [] x.e = "cond"    -> Paren(Paren(Spelled(x.c)) \o <<"?">> \o Paren(Spelled(x.t)) \o <<":">> \o Paren(Spelled(x.f)))

Y == Literal(<<"y">>)
ListOver(coll, val, test)  == For(<<>>, <<"v">>, coll, test, <<>>, val, FALSE)
MapOver(coll, key, val)    == For(<<"k">>, <<"v">>, coll, <<>>, <<key>>, val, TRUE)

\* Expressions of every kind; names that are keywords elsewhere among them.
Small ==
  {Name("a"), Name("for"), NumLit(15, -1), Literal(<<"y">>), Lit(Bool(TRUE)), Lit(Null),
   Ref(<<"a">>, <<AttrStep(<<"b">>), SplatStep, IndexStep(NumLit(1, 0))>>),
   Ref(<<"a">>, <<DotSplat, IndexStep(Literal(<<"y">>)), ExprStep(Name("b"))>>), Ref(<<"a">>, <<ExprStep(Literal(<<"y">>))>>),
   Postfix(Tuple(<<Name("a")>>), <<IndexStep(NumLit(0, 0))>>), Postfix(Unary("-", Name("a")), <<AttrStep(<<"b">>)>>),
   Tuple(<<>>), Tuple(<<Name("for"), Name("b")>>), ObjectExpr(<<>>),
   ObjectExpr(<<Entry(Y, Name("a")), Entry(Name("a"), Name("b"))>>), ObjectExpr(<<Entry(Literal(<<"for">>), Name("a"))>>),
   Call(<<"f">>, <<>>, FALSE), Call(<<"f">>, <<Name("a"), Name("b")>>, TRUE),
   Unary("-", Name("a")), Unary("!", Unary("!", Name("a"))), Binary("*", Name("a"), Name("b")), Binary("-", Name("a"), NumLit(2, 0)),
   Cond(Name("a"), Name("b"), Name("c")), ListOver(Name("a"), Name("v"), <<Name("b")>>), MapOver(Name("a"), Name("k"), Name("v")),
   Template(<<Y, Interp(Name("a"))>>), Template(<<Interp(Y)>>),
   Template(<<IfPart(Name("a"), Template(<<Y>>), Template(<<Literal(<<"z">>)>>)), Y>>),
   Template(<<ForPart(<<>>, <<"v">>, Name("a"), Template(<<Y>>)), Interp(Name("a"))>>)}

\* Each of them in every place that an expression can have.
Around(x) ==
  {x, Unary("-", x), Cond(x, Name("a"), Name("b")), Cond(Name("a"), x, Name("b")), Cond(Name("a"), Name("b"), x),
   Tuple(<<x, Name("a")>>), Tuple(<<Name("a"), x>>), Call(<<"f">>, <<x>>, TRUE), Call(<<"f">>, <<Name("a"), x>>, FALSE),
   ObjectExpr(<<Entry(x, Name("a"))>>), ListOver(x, Name("v"), <<>>), ListOver(Name("a"), x, <<>>),
   ListOver(Name("a"), Name("v"), <<x>>), MapOver(x, Name("k"), Name("v")), MapOver(Name("a"), x, Name("v")),
   MapOver(Name("a"), Name("k"), x), Template(<<Interp(x)>>), Template(<<Y, Interp(x), Y>>),
   Template(<<IfPart(x, Template(<<Y>>), Template(<<Literal(<<"z">>)>>))>>),
   Template(<<ForPart(<<>>, <<"v">>, x, Template(<<Y>>))>>)}
  \cup {Postfix(x, <<s>>) : s \in {AttrStep(<<"b">>), IndexStep(NumLit(0, 0)), SplatStep}}
  \cup {w : w \in UNION {{o, Tuple(<<o>>)} : o \in {ObjectExpr(<<Entry(Y, x), Entry(key, Name("b"))>>) :
                                                 key \in {Literal(<<"z">>), Literal(<<"z", " ">>), Name("a")}}}}

\* Trees the parser makes: an index in brackets is computed unless it is a literal, the
\* base of a postfix is neither that of a reference without parentheses nor a step less.
Trees == (UNION {Around(x) : x \in Small}) \cup {Binary(op, l, r) : op \in {"-", "*"}, l \in Small, r \in Small}
         \cup {Template(<<Interp(Literal(<<"y", c>>))>>) : c \in {"}", "{", "\""}}
Spellings == {Says(<<"x", "=">> \o Spelled(x), X(x)) : x \in Trees}

\* Directives that trim, and marks that stand for themselves next to them.
If(c, t, f) == IfPart(c, Template(t), Template(f))
Sign(c)     == Literal(<<c>>)
Trims ==
  {Says(<<"x", "=", "\"">> \o t[1] \o <<"\"">>, X(Template(t[2]))) : t \in
     {<<<<"$", " ", "$", "{", "~", "a", "}">>, <<Sign("$"), Interp(Name("a"))>>>>,
      <<<<"%", " ", "$", "{", "~", "a", "~", "}", " ", "y">>, <<Sign("%"), Interp(Name("a")), Y>>>>,
      <<<<"$", "$", "{", "y", "}", "$", "{", "a", "}">>, <<Literal(<<"$", "{", "y", "}">>), Interp(Name("a"))>>>>,
      <<<<"%", " ", "%", "{", "~", "if", " ", "a", "~", "}", " ", "$", " ", "%", "{", "~", "endif", "}", "%">>,
        <<Sign("%"), If(Name("a"), <<Sign("$")>>, <<>>), Sign("%")>>>>,
      <<<<"%", "{", "if", " ", "a", "}", "%", " ", "%", "{", "~", "else", "}", "$", "%", "{", "endif", "}">>,
        <<If(Name("a"), <<Sign("%")>>, <<Sign("$")>>)>>>>}}
  \cup {Says(<<"x", "=", "<", "<", "z", "\n">> \o <<"$", "$", "{", " ", "$", "{", "a", "}">> \o t \o <<"\n", "z", "\n">>,
             X(Template(<<Literal(<<"$", "{", " ">>), Interp(Name("a")), Literal(t \o <<"\n">>)>>))) :
          t \in {<<>>, <<" ", "}">>, <<"\"", "}">>}}

-----------------------------------------------------------------------------
(* Operators without parentheses: the loosest of them, the last one of its *)
(* level, is the root.                                                     *)

LevelOf(op) == CHOOSE l \in DOMAIN Levels : op \in Levels[l]

RECURSIVE Grouped(_, _)
Grouped(operands, ops) ==
  IF ops = <<>> THEN operands[1]
  ELSE LET loosest == CHOOSE l \in DOMAIN Levels : /\ \E i \in DOMAIN ops : LevelOf(ops[i]) = l
                                                   /\ \A i \in DOMAIN ops : LevelOf(ops[i]) >= l
           root    == SelectLastInSeq(ops, LAMBDA op : LevelOf(op) = loosest)
       IN  Binary(ops[root], Grouped(SubSeq(operands, 1, root), SubSeq(ops, 1, root - 1)),
                  Grouped(SubSeq(operands, root + 1, Len(operands)), SubSeq(ops, root + 1, Len(ops))))

Flat(operands, ops) ==
  FlattenSeq([i \in DOMAIN operands |-> operands[i] \o IF i \in DOMAIN ops THEN <<" ">> \o Symbols(ops[i]) ELSE <<>>])

Operators == UNION Range(Levels)
Abcd      == <<Name("a"), Name("b"), Name("c"), Name("d")>>
AbcdText  == <<<<"a">>, <<"b">>, <<"c">>, <<"d">>>>
Prefixed  == <<Unary("-", Name("a")), Unary("!", Postfix(Tuple(<<>>), <<AttrStep(<<"b">>)>>)), Unary("-", Unary("-", Name("c")))>>
PrefixedText == <<<<"-", "a">>, <<"!", "[", "]", ".", "b">>, <<"-", "-", "c">>>>

Chains ==
  {Says(<<"x", "=">> \o Flat(AbcdText, ops), X(Grouped(Abcd, ops))) :
     ops \in [1 .. 3 -> {"||", "&&", "!=", ">=", "<", "+", "-", "/"}]}
  \cup {Says(<<"x", "=">> \o Flat(PrefixedText, ops), X(Grouped(Prefixed, ops))) : ops \in [1 .. 2 -> Operators]}
  \cup {Says(<<"x", "=">> \o Flat(<<<<"a">>, <<"b", "?", "c">>, <<"d", ":", "a", "?", "b", ":", "c">>, <<"d">>>>, <<p, q, p>>),
             X(Cond(Binary(p, Name("a"), Name("b")), Binary(q, Name("c"), Name("d")),
                    Cond(Name("a"), Name("b"), Binary(p, Name("c"), Name("d")))))) : p \in Operators, q \in Operators}

-----------------------------------------------------------------------------
(* Lines: heredocs, comments, newlines in brackets *)

Indents == {<<>>, <<" ">>, <<"\t", " ">>}
Inner   == {<<>>, <<"y">>, <<" ", " ", "y">>, <<"y", " ", "\\", "\"">>}
HeredocText(dash, indent, l1, l2) ==
  <<"x", "=", "<", "<">> \o dash \o <<"y", "z", "\r", "\n">> \o indent \o l1 \o <<"\r", "\n">> \o indent \o l2 \o <<"\n">>
  \o indent \o <<"y", "z", "\n", "a", "=", "1">>
HeredocSays(lines) == X(Literal(lines)) \o <<AttrItem(<<"a">>, NumLit(1, 0))>>

Heredocs ==
  {Says(HeredocText(<<"-">>, indent, l1, l2), HeredocSays(l1 \o <<"\n">> \o l2 \o <<"\n">>)) :
     indent \in Indents, l1 \in Inner, l2 \in Inner}
  \cup {Says(HeredocText(<<>>, indent, l1, l2), HeredocSays(indent \o l1 \o <<"\n">> \o indent \o l2 \o <<"\n">>)) :
          indent \in Indents, l1 \in Inner, l2 \in Inner}
  \cup {Says(HeredocText(<<"-">>, <<" ">>, l, <<>>), HeredocSays(l \o <<"\n", "\n">>)) : l \in {<<"y">>, <<"z", "y">>}}
  \cup {Says(<<"x", "=", "<", "<", "-", "y", "\n", " ", "z", "\n", "\t", "\t", "y">>, X(Literal(<<"z", "\n">>))),
        Says(<<"x", "=", "[", "<", "<", "y", "\n", "y", "\n", "]">>, X(Tuple(<<Literal(<<>>)>>)))}

Gaps == {<<"\n">>, <<" ", "\n", "\n">>, <<"#", "a", "{", "\n">>, <<"/", "/", "\"", "\n">>, <<"/", "*", "\n", "*", "}", "*", "/", "\n">>}
Lines ==
  {Says(g \o <<"x", "=", "[", "1", ",">> \o g \o h \o <<"2">> \o h \o <<"]">> \o h
          \o <<"s", "\"", "y", "\"", "\"", "$", "{", "a", "}", "\"", "{">> \o g
          \o <<"p", "=", "{">> \o h \o <<"a", "=", "1">> \o h \o <<"b", ":", "2", "c", "=", "3", "}", "}">> \o g,
        X(Tuple(<<NumLit(1, 0), NumLit(2, 0)>>))
        \o <<BlockItem(<<"s">>, <<Y, Template(<<Interp(Name("a"))>>)>>,
               <<AttrItem(<<"p">>, ObjectExpr(<<Entry(Literal(<<"a">>), NumLit(1, 0)), Entry(Literal(<<"b">>), NumLit(2, 0)),
                                                Entry(Literal(<<"c">>), NumLit(3, 0))>>))>>)>>) : g \in Gaps, h \in Gaps}

Numerals ==
  {Says(<<"x", "=">> \o n[1], X(NumLit(n[2], n[3]))) :
     n \in {<<<<"1", "2", "0">>, 12, 1>>, <<<<"0", "0", "7">>, 7, 0>>, <<<<"0", ".", "5", "0">>, 5, -1>>,
            <<<<"2", "e", "2">>, 2, 2>>, <<<<"2", "E", "-", "1">>, 2, -1>>, <<<<"1", "2", ".", "5", "e", "+", "1">>, 125, 0>>,
            <<<<"0", ".", "0">>, 0, 0>>,
            \* as long as the lexer's buffer, and longer: digits, a fraction or an exponent are lost
            <<<<"1", "2", "3", "4", "5", "6", "7">>, 1234567, 0>>, <<<<"1", "2", "3", "4", "5", "6", "7", "8">>, 1234567, 0>>,
            <<<<"1", "2", "3", "4", "5", "6", ".", "7", "5">>, 123456, 0>>, <<<<"1", ".", "2", "3", "4", "5", "6", "7">>, 123456, -5>>,
            <<<<"1", "2", ".", "5", "0", "e", "+", "1", "2">>, 125, -1>>, <<<<"1", "2", ".", "2", "5", "e", "1", "2">>, 1225, -1>>}}
  \cup {Says(<<"x", "=", "[">> \o [i \in 1 .. n |-> "1"] \o <<",", "2", "]">>, X(Tuple(<<NumLit(1111111, 0), NumLit(2, 0)>>))) : n \in 7 .. 9}

\* What is no document.
Broken ==
  {Session(t, FALSE, <<>>, {}) : t \in
     {<<"x", "=", "1", " ", "y", "=", "2">>, <<"x", "=", "\"", "y", "\n", "\"">>, <<"x", "=", "a", "&", "b">>,
      <<"x", "=", "\"", "\\", "y", "\"">>, <<"x", "=", "\"", "$", "{", "a", "\"">>, <<"x", "=", "<", "<", "y", "\n", "z">>,
      <<"x", "=", "<", "<", "y", " ", "z", "\n", "y">>, <<"x", "=", "<", "<", "y", "y", "y", "y", "\n", "y", "y", "y", "y">>,
      <<"x", "=", "(", "a">>, <<"x", "=", "a", "-", " ", "b">>, <<"x", "=", "[", "1", " ", "2", "]">>, <<"x", "=", "2", "e">>, <<"x", "=", "1", ".", "b">>,
      <<"}">>, <<"s", "{">>, <<"s", "\"", "y", "\"">>, <<"x">>, <<"\"", "y", "\"", "=", "1">>, <<"/", "*">>,
      <<"x", "=", "f", "(", "a", ".", ".", ".", ",", "b", ")">>, <<"x", "=", "\"", "%", "{", "if", " ", "a", "}", "\"">>,
      <<"x", "=", "\"", "$", "{", "a", " ", "b", "}", "\"">>, <<"x", "=", "a", "?", "b">>, <<"x", "=", "{", "\"", "y", "\"", "}">>}}

-----------------------------------------------------------------------------
(* Values that a host sets *)

Symbols6  == {"$", "{", "}", "\"", "\\", "n"}
ShortTexts == SeqOf(Symbols6, 4) \cup SeqOf({"%", "{", "}", "\n"}, 4) \cup {<<"\t", "\r">>}
Wrapped(v) == {v, List(<<v, Object(<<Field(<<"a">>, v), Field(<<"y", " ">>, Null)>>)>>)}
ValuesToSet ==
  {Str(s) : s \in ShortTexts} \cup {Num([m |-> m, e |-> e]) : m \in {-125, -5, 1, 705}, e \in -4 .. 2} \cup {Bool(TRUE)}
HostSessions == {Session(<<>>, TRUE, <<>>, ValuesToSet)}

\* Results with blocks, lists, objects, and names given twice.
Constants ==
  {Session(<<"x", "=", "[", "{", "a", "=", "-", "1", "\n", "\"", key, "\"", "=", "null", "}", ",", "[", "]", "]", "\n", "x", "=", "2", "\n",
             "s", "\"", "y", "\"", "{", "a", "=", "{", "\"", key, "\"", ":", "1", "}", "\n", "x", "=", "\"", "y", "\"", "\n", "x", "=", "3", "}", "\n",
             "s", "{", "}">>, TRUE,
     X(Tuple(<<ObjectExpr(<<Entry(Literal(<<"a">>), Unary("-", NumLit(1, 0))), Entry(Literal(<<key>>), Lit(Null))>>), Tuple(<<>>)>>))
     \o X(NumLit(2, 0))
     \o <<BlockItem(<<"s">>, <<Y>>, <<AttrItem(<<"a">>, ObjectExpr(<<Entry(Literal(<<key>>), NumLit(1, 0))>>))>> \o X(Y) \o X(NumLit(3, 0))),
          BlockItem(<<"s">>, <<>>, <<>>)>>,
     {Str(<<"y">>), Num([m |-> 7, e |-> 0])}) : key \in {"b", "for", "in"}}

MCSessions == Spellings \cup Trims \cup Chains \cup Heredocs \cup Lines \cup Numerals \cup Broken \cup HostSessions \cup Constants
MCNames    == {<<"x">>}
=============================================================================
