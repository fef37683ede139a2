-------------------------------- MODULE Parser --------------------------------
(***************************************************************************)
(* The parser (cl_parser.c): a recursive descent over the tokens of a      *)
(* text.  Every operator takes the tokens and a place, and gives what it   *)
(* has read and the place after it, or a failure.                          *)
(***************************************************************************)
EXTENDS TemplateScanner, TemplateGrammar

\* The steps of a reference that only the text tells apart: "a.*" and "a[*]" map alike,
\* and so do a["x"] and an index that is computed.
DotSplat    == [s |-> "dotsplat"]
ExprStep(x) == [s |-> "expr", x |-> x]

Read(x, n) == [ok |-> TRUE, x |-> x, next |-> n]
Unread     == [ok |-> FALSE]
Then(r, F(_)) == IF r.ok THEN F(r) ELSE r

Kind(t, n)     == IF n > Len(t) THEN "eof" ELSE t[n].kind
Word(t, n, w)  == Kind(t, n) = "ident" /\ t[n].x = <<w>>

\* What r has read, and a mark after it.
Closing(t, r, mark) ==
  Then(r, LAMBDA q : IF Kind(t, q.next) = mark THEN Read(q.x, q.next + 1) ELSE Unread)

AfterNewlines(t, n) == CHOOSE m \in n .. n + Len(t) : /\ Kind(t, m) # "newline"
                                                      /\ \A k \in n .. m - 1 : Kind(t, k) = "newline"

\* The binary operators, from the loosest to the tightest.
Levels == <<{"||"}, {"&&"}, {"==", "!="}, {"<", "<=", ">", ">="}, {"+", "-"}, {"*", "/", "%"}>>

(* An operator named Slip... is a plausible mistake in the definition that *)
(* follows it; the specification uses none of them.                        *)

RECURSIVE ParseExpr(_, _)
RECURSIVE ParseUnary(_, _)
RECURSIVE Quoted(_)

-----------------------------------------------------------------------------
(* Steps: .name, .*, [*], [index] *)

\* cl_parse_index_step: n is after the "[".
ParseIndex(t, n) ==
  LET lone == Kind(t, n + 1) = "]"
  IN  IF lone /\ Kind(t, n) = "number" THEN Read(IndexStep(Lit(Num(t[n].x))), n + 2)
      ELSE Then(Closing(t, ParseExpr(t, n), "]"), LAMBDA r :
             Read(IF lone /\ r.x.e = "lit" /\ IsStr(r.x.value) THEN IndexStep(r.x) ELSE ExprStep(r.x), r.next))

\* The steps of cl_parse_traversal and of cl_parse_postfix_steps.
RECURSIVE ParseSteps(_, _, _)
ParseSteps(t, n, steps) ==
  CASE Kind(t, n) = "." /\ Kind(t, n + 1) = "*"     -> ParseSteps(t, n + 2, Append(steps, DotSplat))
    [] Kind(t, n) = "." /\ Kind(t, n + 1) = "ident" -> ParseSteps(t, n + 2, Append(steps, AttrStep(t[n + 1].x)))
    [] Kind(t, n) = "." /\ Kind(t, n + 1) \notin {"*", "ident"} -> Unread
    [] Kind(t, n) = "[" /\ Kind(t, n + 1) = "*" /\ Kind(t, n + 2) = "]" ->
         ParseSteps(t, n + 3, Append(steps, SplatStep))
    [] Kind(t, n) = "[" /\ ~(Kind(t, n + 1) = "*" /\ Kind(t, n + 2) = "]") ->
         Then(ParseIndex(t, n + 1), LAMBDA r : ParseSteps(t, r.next, Append(steps, r.x)))
    [] OTHER -> Read(steps, n)

\* What r has read, and the steps after it.
WithSteps(t, r) ==
  Then(r, LAMBDA b : Then(ParseSteps(t, b.next, <<>>), LAMBDA q :
    Read(IF q.x = <<>> THEN b.x ELSE Postfix(b.x, q.x), q.next)))

-----------------------------------------------------------------------------
(* Calls, lists, objects and for-expressions *)

\* cl_parse_call: the arguments from n on, through the ")".
RECURSIVE ParseArgs(_, _, _, _)
ParseArgs(t, n, name, args) ==
  IF Kind(t, n) = ")" THEN Read(Call(name, args, FALSE), n + 1)
  ELSE Then(ParseExpr(t, n), LAMBDA r :
    LET all   == Append(args, r.x)
        comma == Kind(t, r.next + 1) = ","
    IN  CASE Kind(t, r.next) = "..." ->
               Closing(t, Read(Call(name, all, TRUE), r.next + (IF comma THEN 2 ELSE 1)), ")")
          [] Kind(t, r.next) = "," -> ParseArgs(t, r.next + 1, name, all)
          [] OTHER -> Closing(t, Read(Call(name, all, FALSE), r.next), ")"))

\* cl_parse_for: n is after "for", closer is "]" or "}".
ParseFor(t, n, closer) ==
  LET two  == Kind(t, n + 1) = ","
      in   == IF two THEN n + 3 ELSE n + 1
      None(m) == Read(<<>>, m)
      One(r)  == Then(r, LAMBDA q : Read(<<q.x>>, q.next))
      Key(m)  == IF closer = "}" THEN One(Closing(t, ParseExpr(t, m), "=>")) ELSE None(m)
      Test(m) == IF Word(t, m, "if") THEN One(ParseExpr(t, m + 1)) ELSE None(m)
  IN  IF Kind(t, n) # "ident" \/ (two /\ Kind(t, n + 2) # "ident") \/ ~Word(t, in, "in") THEN Unread
      ELSE Then(Closing(t, ParseExpr(t, in + 1), ":"), LAMBDA coll :
        Then(Key(coll.next), LAMBDA key :
          Then(ParseExpr(t, key.next), LAMBDA val :
            LET grouping == closer = "}" /\ Kind(t, val.next) = "..."
            IN  Then(Test(IF grouping THEN val.next + 1 ELSE val.next), LAMBDA test :
                  Closing(t, Read(For(IF two THEN t[n].x ELSE <<>>, IF two THEN t[n + 2].x ELSE t[n].x,
                                      coll.x, test.x, key.x, val.x, grouping), test.next), closer)))))

\* cl_parse_bracket: the items from n on, through the "]".
RECURSIVE ParseItems(_, _, _)
ParseItems(t, n, items) ==
  IF Kind(t, n) = "]" THEN Read(Tuple(items), n + 1)
  ELSE Then(ParseExpr(t, n), LAMBDA r :
    IF Kind(t, r.next) = "," THEN ParseItems(t, r.next + 1, Append(items, r.x))
                             ELSE Closing(t, Read(Tuple(Append(items, r.x)), r.next), "]"))

\* The key of an object's item: a name, a string, or an expression in parentheses.
ParseKey(t, n) ==
  CASE Kind(t, n) = "ident"  -> Read(Literal(t[n].x), n + 1)
    [] Kind(t, n) = "string" -> Then(Quoted(t[n].x), LAMBDA r : Read(r.x, n + 1))
    [] Kind(t, n) = "("      -> Closing(t, ParseExpr(t, n + 1), ")")
    [] OTHER -> Unread

\* cl_parse_object_body: the items from n on, through the "}".  Nothing has to separate
\* them.
RECURSIVE ParseEntries(_, _, _)
ParseEntries(t, n, entries) ==
  LET m == AfterNewlines(t, n)
  IN  IF Kind(t, m) = "}" THEN Read(ObjectExpr(entries), m + 1)
      ELSE Then(ParseKey(t, m), LAMBDA key :
        IF Kind(t, key.next) \notin {"=", ":"} THEN Unread
        ELSE Then(ParseExpr(t, key.next + 1), LAMBDA val :
          ParseEntries(t, IF Kind(t, val.next) = "," THEN val.next + 1 ELSE val.next,
                       Append(entries, Entry(key.x, val.x)))))

\* cl_parse_brace
ParseBrace(t, n) ==
  LET m == AfterNewlines(t, n + 1)
  IN  IF Word(t, m, "for") THEN ParseFor(t, m + 1, "}") ELSE ParseEntries(t, m, <<>>)

-----------------------------------------------------------------------------
(* Expressions *)

\* cl_parse_primary
ParsePrimary(t, n) ==
  CASE Kind(t, n) \in {"string", "heredoc"} -> Then(Quoted(t[n].x), LAMBDA r : Read(r.x, n + 1))
    [] Kind(t, n) = "number" -> Read(Lit(Num(t[n].x)), n + 1)
    [] Kind(t, n) = "(" -> WithSteps(t, Closing(t, ParseExpr(t, n + 1), ")"))
    [] Kind(t, n) = "[" ->
         WithSteps(t, IF Word(t, n + 1, "for") THEN ParseFor(t, n + 2, "]") ELSE ParseItems(t, n + 1, <<>>))
    [] Kind(t, n) = "{" -> WithSteps(t, ParseBrace(t, n))
    [] Word(t, n, "true")  -> Read(Lit(Bool(TRUE)), n + 1)
    [] Word(t, n, "false") -> Read(Lit(Bool(FALSE)), n + 1)
    [] Word(t, n, "null")  -> Read(Lit(Null), n + 1)
    [] Kind(t, n) = "ident" /\ t[n].x \notin {<<"true">>, <<"false">>, <<"null">>} ->
         IF Kind(t, n + 1) = "(" THEN WithSteps(t, ParseArgs(t, n + 2, t[n].x, <<>>))
         ELSE Then(ParseSteps(t, n + 1, <<>>), LAMBDA q : Read(Ref(t[n].x, q.x), q.next))
    [] OTHER -> Unread

ParseUnary(t, n) ==
  IF Kind(t, n) \in {"-", "!"}
    THEN Then(ParseUnary(t, n + 1), LAMBDA r : Read(Unary(Kind(t, n), r.x), r.next))
    ELSE ParsePrimary(t, n)

RECURSIVE ParseLevel(_, _, _)
RECURSIVE ParseMore(_, _, _)

\* cl_parse_or down to cl_parse_multiplicative: one function for each level.
ParseLevel(t, n, level) ==
  IF level > Len(Levels) THEN ParseUnary(t, n)
  ELSE ParseMore(t, ParseLevel(t, n, level + 1), level)

\* Slip: operators of one level group from the right.
SlipParseMore(t, left, level) ==
  Then(left, LAMBDA l :
    IF Kind(t, l.next) \notin Levels[level] THEN l
    ELSE Then(ParseLevel(t, l.next + 1, level), LAMBDA r :
      Read(Binary(Kind(t, l.next), l.x, r.x), r.next)))

\* What is on the left of the operators of a level, and the operators after it.
ParseMore(t, left, level) ==
  Then(left, LAMBDA l :
    IF Kind(t, l.next) \notin Levels[level] THEN l
    ELSE Then(ParseLevel(t, l.next + 1, level + 1), LAMBDA r :
      ParseMore(t, Read(Binary(Kind(t, l.next), l.x, r.x), r.next), level)))

\* cl_parse_expr
ParseExpr(t, n) ==
  Then(ParseLevel(t, n, 1), LAMBDA c :
    IF Kind(t, c.next) # "?" THEN c
    ELSE Then(Closing(t, ParseExpr(t, c.next + 1), ":"), LAMBDA a :
      Then(ParseExpr(t, a.next), LAMBDA b : Read(Cond(c.x, a.x, b.x), b.next))))

-----------------------------------------------------------------------------
(* Strings *)

\* cl_parser_parse_expr_string: all of the text is one expression.
OneExpr(l)   == IF ~l.ok THEN Unread ELSE Closing(l.tokens, ParseExpr(l.tokens, 1), "eof")
ExprOf(text) == OneExpr(Tokenize(text))

\* The directive, with r, which is read in its text.
WithHead(token, r) ==
  CASE token.bad # "" \/ ~r.ok -> [token EXCEPT !.bad = "invalid"]
    [] token.t = "for" /\ token.bad = "" /\ r.ok -> [token EXCEPT !.head.coll = r.x]
    [] OTHER -> [token EXCEPT !.head = r.x]
WithExpr(token) ==
  IF token.t \in {"interp", "if", "for"}
    THEN WithHead(token, ExprOf(IF token.t = "for" THEN token.head.coll ELSE token.head))
    ELSE token
WithExprs(tokens) == [i \in DOMAIN tokens |-> WithExpr(tokens[i])]

\* cl_parse_quoted: cl_compile_template by its grammar.
QuotedOf(r)  == IF r.error = "" THEN Read(Compiled(r.parts), 0) ELSE Unread
Quoted(text) == QuotedOf(ReadText(Places(WithExprs(Scan(text, 1, <<>>)))))

-----------------------------------------------------------------------------
(* Bodies *)

RECURSIVE ParseLabels(_, _, _)
ParseLabels(t, n, labels) ==
  IF Kind(t, n) # "string" THEN Read(labels, n)
  ELSE Then(Quoted(t[n].x), LAMBDA r : ParseLabels(t, n + 1, Append(labels, r.x)))

\* cl_parse_body: the items from n on, up to the "}" or, at the top, to the end.
RECURSIVE ParseBody(_, _, _, _)
ParseBody(t, n, top, items) ==
  LET m == AfterNewlines(t, n)
  IN  CASE Kind(t, m) = (IF top THEN "eof" ELSE "}") -> Read(items, m)
        [] Kind(t, m) = "ident" /\ Kind(t, m + 1) = "=" ->
             Then(ParseExpr(t, m + 2), LAMBDA r :
               IF Kind(t, r.next) \in {"newline", "eof", "}"}
                 THEN ParseBody(t, r.next, top, Append(items, AttrItem(t[m].x, r.x))) ELSE Unread)
        [] Kind(t, m) = "ident" /\ Kind(t, m + 1) \in {"string", "{"} ->
             Then(Closing(t, ParseLabels(t, m + 1, <<>>), "{"), LAMBDA labels :
               Then(Closing(t, ParseBody(t, labels.next, FALSE, <<>>), "}"), LAMBDA body :
                 ParseBody(t, body.next, top, Append(items, BlockItem(t[m].x, labels.x, body.x)))))
        [] OTHER -> Unread

\* cl_parser_parse
WholeBody(l)    == IF ~l.ok THEN Unread ELSE ParseBody(l.tokens, 1, TRUE, <<>>)
ParseText(text) == WholeBody(Tokenize(text))
=============================================================================
