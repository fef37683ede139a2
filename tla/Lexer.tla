-------------------------------- MODULE Lexer --------------------------------
(***************************************************************************)
(* The lexer (cl_lexer.c): a text becomes a sequence of tokens.            *)
(*                                                                         *)
(* A text is a sequence of symbols: a punctuation mark, a white space, a   *)
(* digit, or a word, which stands for the letters it is spelled with.      *)
(* Names and strings are sequences of symbols too.  Where an error is, and *)
(* what it says, is left out.                                              *)
(***************************************************************************)
EXTENDS TemplateTokens, Integers

CONSTANTS
  MarkerSize,   \* char marker[128] in cl_lex_heredoc
  NumberSize    \* char text[64] in cl_lex_number

-----------------------------------------------------------------------------
(* Symbols *)

Digits == <<"0", "1", "2", "3", "4", "5", "6", "7", "8", "9">>
Marks  == {"{", "}", "[", "]", "(", ")", ".", ",", "=", ":", "+", "-", "*", "/", "%", "!", "<", ">",
           "&", "|", "?", "#", "$", "\"", "\\", "~", "'"}

At(s, i) == IF i \in DOMAIN s THEN s[i] ELSE ""

IsDigit(c)         == c \in Range(Digits)
IsIdentStart(c)    == c # "" /\ c \notin Marks \cup White /\ ~IsDigit(c)
IsIdentContinue(c) == IsIdentStart(c) \/ IsDigit(c) \/ c = "-"
IsBlank(c)         == c \in White \ {"\n"}
InLine(c)          == c \notin {"", "\n"}

\* The first place from i on that is not one of these symbols.
Skip(s, i, These(_)) ==
  CHOOSE j \in i .. i + Len(s) : ~These(At(s, j)) /\ \A k \in i .. j - 1 : These(At(s, k))

-----------------------------------------------------------------------------
(* "${...}" and "%{...}" inside a string, copied as they are *)

\* The place after a string whose opening quote is before i.
RECURSIVE AfterString(_, _)
AfterString(s, i) ==
  CASE At(s, i) = ""   -> i
    [] At(s, i) = "\"" -> i + 1
    [] At(s, i) = "\\" /\ At(s, i + 1) # "" -> AfterString(s, i + 2)
    [] OTHER           -> AfterString(s, i + 1)

\* The place of the "}" that closes what is open before i, depth braces more being open,
\* or the end of the text.
RECURSIVE SpanEnd(_, _, _)
SpanEnd(s, i, depth) ==
  CASE At(s, i) = "" -> i
    [] At(s, i) = "\"" -> SpanEnd(s, AfterString(s, i + 1), depth)
    [] At(s, i) = "{"  -> SpanEnd(s, i + 1, depth + 1)
    [] At(s, i) = "}" /\ depth > 0 -> SpanEnd(s, i + 1, depth - 1)
    [] At(s, i) = "}" /\ depth = 0 -> i
    [] OTHER -> SpanEnd(s, i + 1, depth)

-----------------------------------------------------------------------------
(* Tokens: the kind of a mark is the mark itself.  x is the text of a name *)
(* or a string, or the number.                                             *)

Token(kind, x)   == [kind |-> kind, x |-> x]
Lexed(token, i)  == [ok |-> TRUE, token |-> token, next |-> i]
NoToken          == [ok |-> FALSE]

EscapeOf == [c \in {"\"", "\\", "/", "n", "t", "r"} |->
               CASE c = "n" -> "\n" [] c = "t" -> "\t" [] c = "r" -> "\r" [] OTHER -> c]

\* cl_lex_string: what follows the opening quote.
RECURSIVE LexString(_, _, _)
LexString(s, i, text) ==
  LET c   == At(s, i)
      end == SpanEnd(s, i + 2, 0)
  IN  CASE ~InLine(c) -> NoToken
        [] c = "\"" -> Lexed(Token("string", text), i + 1)
        [] c = "\\" -> IF At(s, i + 1) \in DOMAIN EscapeOf
                         THEN LexString(s, i + 2, Append(text, EscapeOf[s[i + 1]]))
                         ELSE NoToken
        [] c \in {"$", "%"} /\ At(s, i + 1) = "{" ->
             IF end > Len(s) THEN NoToken ELSE LexString(s, end + 1, text \o SubSeq(s, i, end))
        [] OTHER -> LexString(s, i + 1, Append(text, c))

\* How many blanks a line of a heredoc begins with.
Lead(line) == Skip(line, 1, LAMBDA c : c \in {" ", "\t"}) - 1

\* The line that starts at i and stops before stop, and where the next one starts.
WithoutReturn(line) == IF line # <<>> /\ Last(line) = "\r" THEN Front(line) ELSE line
LineTo(s, i, stop)  == [line |-> WithoutReturn(SubSeq(s, i, stop - 1)),
                        next |-> IF At(s, stop) = "\n" THEN stop + 1 ELSE stop]

\* The lines of a heredoc up to the closing marker, and how far that is indented.
RECURSIVE HeredocLines(_, _, _, _)
HeredocAfter(s, l, marker, lines) ==
  IF SubSeq(l.line, Lead(l.line) + 1, Len(l.line)) = marker
    THEN [ok |-> TRUE, lines |-> lines, indent |-> Lead(l.line), next |-> l.next]
    ELSE HeredocLines(s, l.next, marker, Append(lines, l.line))
HeredocLines(s, i, marker, lines) ==
  IF At(s, i) = "" THEN NoToken ELSE HeredocAfter(s, LineTo(s, i, Skip(s, i, InLine)), marker, lines)

\* A line without as much of its white space as the closing marker has.
Dedented(line, indent) ==
  SubSeq(line, (IF Lead(line) < indent THEN Lead(line) ELSE indent) + 1, Len(line))

HeredocToken(dash, found) ==
  LET Line(l) == Append(IF dash THEN Dedented(l, found.indent) ELSE l, "\n")
  IN  IF ~found.ok THEN NoToken
      ELSE Lexed(Token("heredoc", FlattenSeq([k \in DOMAIN found.lines |-> Line(found.lines[k])])), found.next)

\* The opening marker is between from and to; only blanks are after it on its line.
HeredocMarked(s, dash, from, to) ==
  IF ~IsIdentStart(At(s, from)) \/ to - from >= MarkerSize \/ At(s, Skip(s, to, IsBlank)) # "\n" THEN NoToken
  ELSE HeredocToken(dash, HeredocLines(s, Skip(s, to, IsBlank) + 1, SubSeq(s, from, to - 1), <<>>))
HeredocFrom(s, dash, from) == HeredocMarked(s, dash, from, Skip(s, from, IsIdentContinue))

\* cl_lex_heredoc: i is where "<<" is.
LexHeredoc(s, i) == HeredocFrom(s, At(s, i + 2) = "-", IF At(s, i + 2) = "-" THEN i + 3 ELSE i + 2)

-----------------------------------------------------------------------------
(* Numbers: the decimal m * 10^e, m not a multiple of ten. *)

RECURSIVE Decimal(_, _)
Decimal(m, e) == CASE m = 0 -> [m |-> 0, e |-> 0]
                   [] m # 0 /\ m % 10 = 0 -> Decimal(m \div 10, e + 1)
                   [] OTHER -> [m |-> m, e |-> e]

NatOf(digits) == FoldLeft(LAMBDA n, d : 10 * n + SelectInSeq(Digits, LAMBDA c : c = d) - 1, 0, digits)

\* The places after the digits, the fraction and the exponent of a number at i.
IntEnd(s, i)  == Skip(s, i, IsDigit)
FracEnd(s, i) == IF At(s, i) = "." /\ IsDigit(At(s, i + 1)) THEN Skip(s, i + 1, IsDigit) ELSE i
ExpStart(s, i) == IF At(s, i + 1) \in {"+", "-"} THEN i + 2 ELSE i + 1
ExpEnd(s, i)  == IF At(s, i) \in {"e", "E"} /\ IsDigit(At(s, ExpStart(s, i)))
                   THEN Skip(s, ExpStart(s, i), IsDigit) ELSE i

\* strtod of a number: its mantissa, with a fraction, times a power of ten.
Scaled(text, e) ==
  Decimal(NatOf(SelectSeq(text, IsDigit)),
          e - (IF "." \in Range(text) THEN Len(text) - SelectInSeq(text, LAMBDA c : c = ".") ELSE 0))
ExponentOf(text) == (IF At(text, 1) = "-" THEN -1 ELSE 1) * NatOf(SelectSeq(text, IsDigit))
SplitAt(text, n) ==
  IF n = 0 THEN Scaled(text, 0) ELSE Scaled(SubSeq(text, 1, n - 1), ExponentOf(SubSeq(text, n + 1, Len(text))))
NumberOf(text)   == SplitAt(text, SelectInSeq(text, LAMBDA c : c \in {"e", "E"}))

\* cl_lex_number: what does not fit in its buffer is not part of the number.
NumberTo(s, i, end) ==
  Lexed(Token("number", NumberOf(SubSeq(s, i, IF end - i >= NumberSize THEN i + NumberSize - 2 ELSE end - 1))), end)
LexNumber(s, i) == NumberTo(s, i, ExpEnd(s, FracEnd(s, IntEnd(s, i))))

-----------------------------------------------------------------------------
(* The loop of cl_lexer_tokenize *)

\* The mark at i, as long as it can be; "" if there is none.
MarkAt(s, i) ==
  LET a == At(s, i)
      b == At(s, i + 1)
  IN  CASE a = "." /\ b = "." /\ At(s, i + 2) = "." -> "..."
        [] a \in {"=", "!", "<", ">"} /\ b = "=" -> a \o b
        [] a \in {"&", "|"} /\ b = a -> a \o b
        [] a = "=" /\ b = ">" -> "=>"
        [] OTHER -> IF a \in Marks \ {"&", "|", "#", "$", "\"", "\\", "~", "'"} THEN a ELSE ""

\* A newline is a token only outside of brackets, and never twice or first.
Newline(tokens, depth) ==
  IF depth = 0 /\ tokens # <<>> /\ Last(tokens).kind # "newline"
    THEN Append(tokens, Token("newline", <<>>)) ELSE tokens

Deeper(depth, mark) ==
  CASE mark \in {"[", "("} -> depth + 1
    [] mark \in {"]", ")"} -> IF depth > 0 THEN depth - 1 ELSE 0
    [] OTHER -> depth

\* The place after the comment at i; that of a block comment without an end is 0.
CommentEnd(s, i) ==
  IF At(s, i + 1) # "*" \/ At(s, i) = "#" THEN Skip(s, i, InLine)
  ELSE LET ends == {j \in i + 2 .. Len(s) : At(s, j) = "*" /\ At(s, j + 1) = "/"}
       IN  IF ends = {} THEN 0 ELSE Min(ends) + 2

RECURSIVE Lex(_, _, _, _)

\* The tokens so far, one more, and those after it.
LexAfter(s, r, tokens, depth) ==
  IF ~r.ok THEN r ELSE Lex(s, r.next, Append(tokens, r.token), depth)

\* A heredoc has the newline after it in it.
LexAfterHeredoc(s, r, tokens, depth) ==
  IF ~r.ok THEN r ELSE Lex(s, r.next, Newline(Append(tokens, r.token), depth), depth)

Lex(s, i, tokens, depth) ==
  LET c == At(s, i)
      mark == MarkAt(s, i)
  IN  CASE c = ""     -> [ok |-> TRUE, tokens |-> Append(tokens, Token("eof", <<>>))]
        [] IsBlank(c) -> Lex(s, i + 1, tokens, depth)
        [] c = "\n"   -> Lex(s, i + 1, Newline(tokens, depth), depth)
        [] c = "#" \/ (c = "/" /\ At(s, i + 1) \in {"/", "*"}) ->
             IF CommentEnd(s, i) = 0 THEN NoToken ELSE Lex(s, CommentEnd(s, i), tokens, depth)
        [] c = "<" /\ At(s, i + 1) = "<" ->
             LexAfterHeredoc(s, LexHeredoc(s, i), tokens, depth)
        [] c = "\""   -> LexAfter(s, LexString(s, i + 1, <<>>), tokens, depth)
        [] IsDigit(c) -> LexAfter(s, LexNumber(s, i), tokens, depth)
        [] IsIdentStart(c) ->
             LET to == Skip(s, i, IsIdentContinue)
             IN  Lex(s, to, Append(tokens, Token("ident", SubSeq(s, i, to - 1))), depth)
        [] OTHER ->
             IF mark = "" THEN NoToken
             ELSE LexAfter(s, Lexed(Token(mark, <<>>), i + Len(mark)), tokens, Deeper(depth, mark))

\* cl_lexer_tokenize
Tokenize(s) == Lex(s, 1, <<>>, 0)
=============================================================================
