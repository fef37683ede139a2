------------------------------ MODULE Directives ------------------------------
(***************************************************************************)
(* The template compiler (cl_template.c): the text of a string becomes a   *)
(* tree of literals, interpolations and %{if} and %{for} directives.  The  *)
(* text is the sequence of what the scanner meets (TemplateTokens); an      *)
(* expression inside a directive is a model value here, or the error that  *)
(* reading it gives.                                                       *)
(***************************************************************************)
EXTENDS TemplateTokens, AnySequences, FiniteSets

CONSTANT Sources   \* the texts to compile: sequences of tokens

(* An operator named Slip... is a plausible mistake in the definition that *)
(* follows it; the specification uses none of them.                        *)

VARIABLES
  src,      \* s.src
  at,       \* s.pos
  literal,  \* literal: the characters since the last directive
  frames,   \* root, then stack.items: the root of the tree is the first frame
  names,    \* how many names of loop variables are allocated
  outcome   \* <<>>, then [ok |-> TRUE, expr] or [ok |-> FALSE, message, at]

vars == <<src, at, literal, frames, names, outcome>>

-----------------------------------------------------------------------------
NamesOf(head)   == IF head.key = "" THEN 1 ELSE 2

Frame(is, head) == [is |-> is, head |-> head, body |-> <<>>, else |-> <<>>, inElse |-> FALSE]

Compiling == outcome = <<>>
Token     == src[at]
Meets(t)  == Compiling /\ at <= Len(src) /\ Token.t = t /\ Token.bad = ""

\* The stack st with a part more in cl_tpl_current_target.
AddTo(st, part) ==
  LET top == Last(st)
  IN  Append(Front(st), IF top.inElse THEN [top EXCEPT !.else = Append(@, part)]
                                      ELSE [top EXCEPT !.body = Append(@, part)])

\* cl_tpl_rtrim_buf: the literal without the white space at its end.
Trimmed(s) == SubSeq(s, 1, SelectLastInSeq(s, LAMBDA c : c \notin White))

\* cl_tpl_flush_literal, after the trim a directive asks for; Flush is that of the
\* frames before the directive does what it does.
Flushed(s) == IF s = <<>> THEN frames ELSE AddTo(frames, Literal(s))
Flush      == Flushed(IF Token.left THEN Trimmed(literal) ELSE literal)
Top        == Last(Flush)

\* Where the scanner is after the directive and the white space it trims.
After ==
  IF Token.right
    THEN CHOOSE j \in at + 1 .. Len(src) + 1 :
           /\ \A i \in at + 1 .. j - 1 : IsSpace(src[i])
           /\ j <= Len(src) => ~IsSpace(src[j])
    ELSE at + 1

\* A directive is done: the stack is st from now on.
Do(st) ==
  /\ frames' = st
  /\ literal' = <<>>
  /\ at' = After
  /\ UNCHANGED <<src, outcome>>

\* The buffers are freed; the names of the loops that are still open are not.
Fail(message) ==
  /\ outcome' = [ok |-> FALSE, message |-> message, at |-> at]
  /\ UNCHANGED <<src, at, literal, frames, names>>

-----------------------------------------------------------------------------
ReadChar ==
  /\ Compiling
  /\ at <= Len(src)
  /\ ~IsDirective(Token)
  /\ literal' = literal \o Shown(Token)
  /\ at' = at + 1
  /\ UNCHANGED <<src, frames, names, outcome>>

\* No expression, no variable, no '}', no keyword: what a directive has read of
\* itself is freed.
Malformed ==
  /\ Compiling
  /\ at <= Len(src)
  /\ IsDirective(Token)
  /\ Token.bad # ""
  /\ Fail(Token.bad)

Interpolation ==
  /\ Meets("interp")
  /\ Do(AddTo(Flush, Interp(Token.head)))
  /\ UNCHANGED names

OpenIf ==
  /\ Meets("if")
  /\ Do(Append(Flush, Frame("if", Token.head)))
  /\ UNCHANGED names

\* Slip: an else that has had its else may have another.
SlipManyElses ==
  /\ Meets("else")
  /\ IF Top.is = "if"
       THEN Do(Append(Front(Flush), [Top EXCEPT !.inElse = TRUE, !.else = <<>>])) /\ UNCHANGED names
       ELSE Fail("unexpected else")

Else ==
  /\ Meets("else")
  /\ IF Top.is = "if" /\ ~Top.inElse
       THEN Do(Append(Front(Flush), [Top EXCEPT !.inElse = TRUE])) /\ UNCHANGED names
       ELSE Fail("unexpected else")

EndIf ==
  /\ Meets("endif")
  /\ IF Top.is = "if"
       THEN /\ Do(AddTo(Front(Flush), IfPart(Top.head, Template(Top.body), Template(Top.else))))
            /\ UNCHANGED names
       ELSE Fail("unexpected endif")

OpenFor ==
  /\ Meets("for")
  /\ Do(Append(Flush, Frame("for", Token.head)))
  /\ names' = names + NamesOf(Token.head)

\* Slip: free the name of the value only.
SlipKeepsKey ==
  /\ Meets("endfor")
  /\ IF Top.is = "for"
       THEN /\ Do(AddTo(Front(Flush), ForPart(Top.head.key, Top.head.val, Top.head.coll, Template(Top.body))))
            /\ names' = names - 1
       ELSE Fail("unexpected endfor")

EndFor ==
  /\ Meets("endfor")
  /\ IF Top.is = "for"
       THEN /\ Do(AddTo(Front(Flush), ForPart(Top.head.key, Top.head.val, Top.head.coll, Template(Top.body))))
            /\ names' = names - NamesOf(Top.head)
       ELSE Fail("unexpected endfor")

\* The message names the kind of the innermost open directive, which it reads from the
\* stack after the stack is freed: it may be either.
Unterminated ==
  /\ Compiling
  /\ at > Len(src)
  /\ Len(frames) > 1
  /\ \E kind \in {"if", "for"} : Fail("unterminated " \o kind)

Finish ==
  /\ Compiling
  /\ at > Len(src)
  /\ Len(frames) = 1
  /\ outcome' = [ok |-> TRUE, expr |-> Compiled(Last(Flushed(literal)).body)]
  /\ UNCHANGED <<src, at, literal, frames, names>>

Init ==
  /\ src \in Sources
  /\ at = 1
  /\ literal = <<>>
  /\ frames = <<Frame("root", "")>>
  /\ names = 0
  /\ outcome = <<>>

Next ==
  \/ ReadChar \/ Malformed \/ Interpolation
  \/ OpenIf \/ Else \/ EndIf \/ OpenFor \/ EndFor
  \/ Unterminated \/ Finish

Spec == Init /\ [][Next]_vars

-----------------------------------------------------------------------------
(* Correctness *)

NamesHeld(frame) == IF frame.is = "for" THEN NamesOf(frame.head) ELSE 0
Held(st)         == [n \in DOMAIN st |-> NamesHeld(st[n])]

\* The names that are allocated are those of the loops that are open: a loop that is
\* closed keeps none, however directives nest, and a text that is compiled leaves none.
NamesOfOpenLoops ==
  /\ names = Total(Held(frames))
  /\ ~Compiling /\ outcome.ok => names = 0

\* "unterminated %{for}" is said of a text whose innermost open directive is a %{for},
\* "unterminated %{if}" of one where it is an %{if}.
UnterminatedNamesInnermost ==
  \A kind \in {"if", "for"} :
    ~Compiling /\ ~outcome.ok /\ outcome.message = "unterminated " \o kind => Last(frames).is = kind
=============================================================================
