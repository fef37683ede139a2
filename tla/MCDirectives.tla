---------------------------- MODULE MCDirectives ----------------------------
(***************************************************************************)
(* Every short text, and what it means by the grammar (TemplateGrammar).   *)
(***************************************************************************)
EXTENDS Directives, TemplateGrammar

Bare(t)    == Directive(t, "", FALSE, FALSE, "")
Trims(t, head) == {Directive(t, head, l, r, "") : l \in BOOLEAN, r \in BOOLEAN}
OneName == Loop("", "v", "c")
Both    == Loop("k", "v", "c")

\* The alphabets: all there is, white space and trims, and nesting.
Every ==
  {Char("x"), Char(" "), Escape("$"), Escape("%"), Directive("interp", "e", FALSE, FALSE, ""), Directive("interp", "e", TRUE, TRUE, ""),
   Directive("interp", "e", TRUE, FALSE, "invalid expression"), Directive("if", "c", FALSE, TRUE, ""),
   Directive("else", "", TRUE, TRUE, ""), Directive("else", "", FALSE, FALSE, "takes no expression"),
   Directive("endif", "", TRUE, FALSE, ""), Directive("for", Both, FALSE, FALSE, ""),
   Directive("for", OneName, TRUE, FALSE, "expected 'in'"), Directive("endfor", "", FALSE, TRUE, ""),
   Directive("unknown", "", FALSE, FALSE, "unknown directive")}
Nesting ==
  {Char("x"), Directive("if", "c", FALSE, FALSE, ""), Bare("else"), Bare("endif"),
   Directive("for", OneName, FALSE, FALSE, ""), Bare("endfor")}
Spaces == {Char("x"), Char(" ")} \cup Trims("interp", "e")

MCSources ==
  SeqOf(Every, 4) \cup SeqOf(Nesting, 6) \cup SeqOf(Spaces, 5)
  \cup {<<Directive("if", "c", l, r, "")>> \o s \o <<Directive("endif", "", r, l, "")>> :
          l \in BOOLEAN, r \in BOOLEAN,
          s \in SeqOf({Char("x"), Char(" "), Directive("else", "", TRUE, FALSE, ""), Directive("else", "", FALSE, TRUE, ""),
                       Directive("for", Both, FALSE, TRUE, ""), Directive("endfor", "", TRUE, FALSE, "")}, 4)}

-----------------------------------------------------------------------------
\* A text compiles to the tree its grammar gives it, or fails at the first token that
\* no grammar allows there: each else, endif and endfor belongs to the innermost
\* directive that is open, a trimmed directive takes all the white space next to it and
\* no other character, and nothing is lost or said twice.
CompilesToItsGrammar ==
  ~Compiling =>
    LET s == Places(src)
        x == ReadText(s)
    IN  /\ outcome.ok <=> x.error = ""
        /\ outcome.ok => IF \A p \in Range(x.parts) : p.e = "lit"
                           THEN outcome.expr = IF x.parts = <<>> THEN Literal(<<>>) ELSE x.parts[1]
                           ELSE outcome.expr = Template(x.parts)
        /\ ~outcome.ok => /\ outcome.at = IF x.next > Len(s) THEN Len(src) + 1 ELSE s[x.next].at
                          /\ \/ outcome.message = x.error
                             \/ x.error = "unterminated" /\ outcome.message \in {"unterminated if", "unterminated for"}
=============================================================================
