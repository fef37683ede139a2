--------------------------- MODULE TemplateScanner ---------------------------
(***************************************************************************)
(* How the template compiler (cl_template.c) cuts a text into the tokens   *)
(* it works on.  The expression in a directive is still text: the parser   *)
(* reads it.  After a token that is bad nothing is read.                   *)
(***************************************************************************)
EXTENDS Lexer

Rtrim(s) == SubSeq(s, 1, SelectLastInSeq(s, LAMBDA c : c \notin White))
SkipWhite(s, i) == Skip(s, i, LAMBDA c : c \in White)

\* cl_tpl_strip_trailing_tilde: whether there is one, and what is before it.
EndsWithTilde(span) == Rtrim(span) # <<>> /\ Last(Rtrim(span)) = "~"
WithoutTilde(span)  == IF EndsWithTilde(span) THEN Rtrim(Front(Rtrim(span))) ELSE span

Cut(token, next) == [token |-> token, next |-> next]
BadDirective(t)  == Cut(Directive(t, <<>>, FALSE, FALSE, "invalid"), 0)

\* A directive whose text starts at i and ends with its "}".
SpannedTo(s, i, end, t, left) ==
  LET span == SubSeq(s, i, end - 1)
  IN  IF end > Len(s) THEN BadDirective(t)
      ELSE Cut(Directive(t, WithoutTilde(span), left, EndsWithTilde(span), ""), end + 1)
Spanned(s, i, t, left) == SpannedTo(s, i, SpanEnd(s, i, 0), t, left)

\* cl_tpl_close_bare_directive
Closed(s, i, t, left) ==
  LET a     == SkipWhite(s, i)
      right == At(s, a) = "~"
      b     == IF right THEN SkipWhite(s, a + 1) ELSE a
  IN  IF At(s, b) # "}" THEN BadDirective(t) ELSE Cut(Directive(t, <<>>, left, right, ""), b + 1)

\* cl_tpl_read_ident, with white space around the name; it is empty if there is none.
NameEnd(s, i)      == IF IsIdentStart(At(s, i)) THEN Skip(s, i, IsIdentContinue) ELSE i
NameTo(s, i, end)  == [name |-> SubSeq(s, i, end - 1), next |-> SkipWhite(s, end)]
NameFrom(s, i)     == NameTo(s, i, NameEnd(s, i))
NameAt(s, i)       == NameFrom(s, SkipWhite(s, i))

\* "%{for", its variables, "in" and its collection; i is after the keyword.
LoopOver(s, left, key, val, in) ==
  IF val = <<>> \/ in.name # <<"in">> THEN BadDirective("for")
  ELSE [Spanned(s, in.next, "for", left) EXCEPT !.token.head = Loop(key, val, @)]
LoopIn(s, left, key, val) == LoopOver(s, left, key, val.name, NameAt(s, val.next))
LoopWith(s, left, first) ==
  CASE first.name = <<>> -> BadDirective("for")
    [] first.name # <<>> /\ At(s, first.next) = "," -> LoopIn(s, left, first.name, NameAt(s, first.next + 1))
    [] OTHER -> LoopIn(s, left, <<>>, first)
Looping(s, i, left) == LoopWith(s, left, NameAt(s, i))

\* The directive at i, whose text starts at from; keyword is the name it starts with.
DirectiveWith(s, i, from, left, keyword) ==
  CASE At(s, i) = "$" -> Spanned(s, from, "interp", left)
    [] At(s, i) = "%" /\ keyword.name = <<"if">> -> Spanned(s, keyword.next, "if", left)
    [] At(s, i) = "%" /\ keyword.name \in {<<"else">>, <<"endif">>, <<"endfor">>} ->
         Closed(s, keyword.next, keyword.name[1], left)
    [] At(s, i) = "%" /\ keyword.name = <<"for">> -> Looping(s, keyword.next, left)
    [] OTHER -> BadDirective("unknown")
DirectiveFrom(s, i, from) == DirectiveWith(s, i, from, from = i + 3, NameAt(s, from))
DirectiveAt(s, i)         == DirectiveFrom(s, i, IF At(s, i + 2) = "~" THEN i + 3 ELSE i + 2)

RECURSIVE Scan(_, _, _)

\* The tokens so far, a directive, and those after it.
ScanAfter(s, cut, tokens) ==
  IF cut.token.bad # "" THEN Append(tokens, cut.token) ELSE Scan(s, cut.next, Append(tokens, cut.token))

\* The loop of cl_compile_template, from i on.
Scan(s, i, tokens) ==
  LET c == At(s, i)
  IN  CASE c = "" -> tokens
        [] c \in {"$", "%"} /\ At(s, i + 1) = c /\ At(s, i + 2) = "{" ->
             Scan(s, i + 3, Append(tokens, Escape(c)))
        [] c \in {"$", "%"} /\ At(s, i + 1) = "{" ->
             ScanAfter(s, DirectiveAt(s, i), tokens)
        [] OTHER -> Scan(s, i + 1, Append(tokens, Char(c)))
=============================================================================
