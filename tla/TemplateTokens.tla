--------------------------- MODULE TemplateTokens ---------------------------
(***************************************************************************)
(* What the template compiler meets in the text of a string: characters,   *)
(* escapes and directives, and the parts it makes of them.                 *)
(***************************************************************************)
EXTENDS Syntax

\* left and right tell whether a directive has a "~" on that side; bad is the error in
\* the directive itself, "" when it is well formed.
Char(c)   == [t |-> "char", c |-> c]
Escape(c) == [t |-> "escape", c |-> c]     \* $${ or %%{
Directive(t, head, left, right, bad) ==
  [t |-> t, head |-> head, left |-> left, right |-> right, bad |-> bad]

\* What a loop says of itself: its variables and its collection.
Loop(key, val, coll) == [key |-> key, val |-> val, coll |-> coll]

White              == {" ", "\t", "\n", "\r"}
IsSpace(token)     == token.t = "char" /\ token.c \in White
IsDirective(token) == token.t \notin {"char", "escape"}

\* The literal text a character or an escape stands for.
Shown(token) == IF token.t = "char" THEN <<token.c>> ELSE <<token.c, "{">>

Literal(s) == Lit(Str(s))
Interp(x)  == [e |-> "interp", x |-> x]

\* A text without a directive is a string, any other is a template.
Compiled(parts) ==
  CASE parts = <<>> -> Literal(<<>>)
    [] Len(parts) = 1 /\ parts[1].e = "lit" -> parts[1]
    [] OTHER -> Template(parts)
=============================================================================
