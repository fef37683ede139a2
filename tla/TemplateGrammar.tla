--------------------------- MODULE TemplateGrammar ---------------------------
(***************************************************************************)
(* What the text of a string means by the grammar of templates: white      *)
(* space that a directive trims is taken out first, and the rest is read   *)
(* by recursive descent, with no stack of open directives.  The run        *)
(* directives shows that the compiler (Directives) does the same.          *)
(***************************************************************************)
EXTENDS TemplateTokens

\* White space that touches the trimmed side of a directive, more of it between them
\* or not.
Erased(src, i) ==
  /\ IsSpace(src[i])
  /\ \E j \in DOMAIN src :
       /\ IsDirective(src[j])
       /\ \/ j > i /\ src[j].left /\ \A k \in i .. j - 1 : IsSpace(src[k])
          \/ j < i /\ src[j].right /\ \A k \in j + 1 .. i : IsSpace(src[k])

\* The places that are left, and what is at the nth of them.
Places(src) ==
  LET all == [i \in DOMAIN src |-> [at |-> i, token |-> src[i], erased |-> Erased(src, i)]]
  IN  SelectSeq(all, LAMBDA p : ~p.erased)
Tok(s, n) == IF n > Len(s) THEN [t |-> "end", bad |-> ""]
             ELSE IF IsDirective(s[n].token) THEN s[n].token ELSE [t |-> "text", bad |-> ""]

Found(parts, n) == [error |-> "", parts |-> parts, next |-> n]
Wrong(error, n) == [error |-> error, parts |-> <<>>, next |-> n]

\* ReadParts: the parts from the nth place on, up to what is not a part.  ReadIf and
\* ReadFor: one directive and all it encloses.  x: what ReadParts has found in it.
RECURSIVE ReadParts(_, _)

Expected(s, x, token, part) ==
  LET t == Tok(s, x.next).t
  IN  IF x.error # "" THEN x
      ELSE IF t = token THEN Found(<<part>>, x.next + 1)
      ELSE Wrong(IF t = "end" THEN "unterminated" ELSE "unexpected " \o t, x.next)

\* x: what the directive encloses up to an else or its end; y: the same after an else.
EndedIf(s, head, x, y) == Expected(s, y, "endif", IfPart(head, Template(x.parts), Template(y.parts)))
ElseOrEnd(s, head, x) ==
  IF x.error = "" /\ Tok(s, x.next).t = "else" THEN EndedIf(s, head, x, ReadParts(s, x.next + 1))
  ELSE Expected(s, x, "endif", IfPart(head, Template(x.parts), Template(<<>>)))
ReadIf(s, n) == ElseOrEnd(s, Tok(s, n).head, ReadParts(s, n + 1))

EndedFor(s, h, x) == Expected(s, x, "endfor", ForPart(h.key, h.val, h.coll, Template(x.parts)))
ReadFor(s, n)     == EndedFor(s, Tok(s, n).head, ReadParts(s, n + 1))

ReadLiteral(s, n) ==
  LET stop == CHOOSE m \in n + 1 .. Len(s) + 1 :
                Tok(s, m).t # "text" /\ \A k \in n .. m - 1 : Tok(s, k).t = "text"
  IN  Found(<<Literal(FlattenSeq([k \in 1 .. stop - n |-> Shown(s[n + k - 1].token)]))>>, stop)

ReadPart(s, n) ==
  CASE Tok(s, n).t = "text"   -> ReadLiteral(s, n)
    [] Tok(s, n).t = "interp" -> Found(<<Interp(Tok(s, n).head)>>, n + 1)
    [] Tok(s, n).t = "if"     -> ReadIf(s, n)
    [] Tok(s, n).t = "for"    -> ReadFor(s, n)

\* One part, and those after it.
Joining(one, more)  == IF more.error # "" THEN more ELSE Found(one.parts \o more.parts, more.next)
Continued(s, one)   == IF one.error # "" THEN one ELSE Joining(one, ReadParts(s, one.next))

ReadParts(s, n) ==
  CASE Tok(s, n).bad # "" -> Wrong(Tok(s, n).bad, n)
    [] Tok(s, n).bad = "" /\ Tok(s, n).t \in {"end", "else", "endif", "endfor"} -> Found(<<>>, n)
    [] OTHER -> Continued(s, ReadPart(s, n))

\* A whole text: every directive that is left open or closed twice is an error.
WholeText(s, x) ==
  IF x.error = "" /\ x.next <= Len(s) THEN Wrong("unexpected " \o Tok(s, x.next).t, x.next) ELSE x
ReadText(s) == WholeText(s, ReadParts(s, 1))
=============================================================================
