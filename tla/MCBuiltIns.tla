------------------------------ MODULE MCBuiltIns ------------------------------
(***************************************************************************)
(* Small calls for TLC: every function with every combination of arguments *)
(* from a pool for each of its parameters, some of a wrong kind.           *)
(***************************************************************************)
EXTENDS BuiltIns

S(text)  == Str(Symbols(text))
A        == S("a")
Obj(pairs) == Object([i \in DOMAIN pairs |-> Field(Symbols(pairs[i][1]), pairs[i][2])])

\* Texts with runs that overlap, with white space, numerals, and other values that are texts.
Runs     == {S(""), A, S("aa"), S("aaa"), S("aba"), S("abab"), S("baab"), S("ab")}
Numerals == {S("15"), S("-1.5"), S("1."), S(".5"), S("1e1"), S("+2"), S("-"), S("1e"), S(" 1"), S("0a"), S("bE")}
Spaced   == {Str(<<" ", "a", " ", "b", "\n">>), Str(<<"\t">>)}
Scalars  == {Num(15), Num(-20), Num(3), Bool(TRUE), Bool(FALSE), Null}

Integers1 == {Whole(n) : n \in {-3, -2, -1, 0, 1, 2, 3, 4}}
Halves    == {Num(5 * n) : n \in -6 .. 6}
Numbers1  == Halves \cup {Num(14), Num(-14), Num(16), Num(-16)}

\* Items that are equal without being written alike, and lists in lists.
Left     == Obj(<< <<"a", A>>, <<"b", Null>> >>)
Right    == Obj(<< <<"b", Null>>, <<"a", A>> >>)
Other    == Obj(<< <<"a", Num(10)>>, <<"e", A>> >>)
Items    == {A, Num(10), Left, Right, List(<<A, List(<<Num(10)>>)>>)}
ListsOf(set) == {List(s) : s \in SeqOf(set, 3)}
Objects1 == {Obj(<<>>), Left, Right, Other}
TextLists == ListsOf({A, S("b"), Num(15)}) \cup {List(<<A, Null>>)}

Of(name, pools) ==
  CASE Len(pools) = 1 -> {[name |-> name, args |-> <<x>>] : x \in pools[1]}
    [] Len(pools) = 2 -> {[name |-> name, args |-> <<x, y>>] : x \in pools[1], y \in pools[2]}
    [] Len(pools) = 3 -> {[name |-> name, args |-> <<x, y, z>>] : x \in pools[1], y \in pools[2], z \in pools[3]}

TextCalls ==
  UNION {Of(f, <<Runs \cup Spaced \cup Scalars>>) : f \in {"upper", "lower", "trimspace"}}
  \cup UNION {Of(f, <<Runs \cup Spaced, Runs \cup {Bool(TRUE), Null}>>) :
                f \in {"trim", "trimprefix", "trimsuffix", "split", "startswith", "endswith", "strcontains"}}
  \cup Of("replace", <<Runs, Runs, {S(""), S("aa"), S("b")}>>)
  \cup Of("join", <<Runs, TextLists \cup {A}>>)
  \cup Of("substr", <<Runs, Integers1 \cup {Num(5)}, Integers1>>)
  \cup Of("concat", <<Runs \cup Scalars, Runs \cup TextLists>>) \cup Of("concat", <<TextLists, TextLists>>)

Formats == {S(f) : f \in {"%s", "a%sb", "%d", "%s%d", "%d%d", "%%", "a%%b", "%", "%x", "%.1s", "%.", "%.101f"}}
FormatCalls ==
  Of("format", <<Formats>>) \cup Of("format", <<Formats, Scalars \cup {A, Whole(7)}>>)
  \cup Of("format", <<Formats, Scalars \cup {A}, {Whole(7), A}>>)
  \cup Of("format", <<{S("%.0f"), S("%.1f"), S("%f")}, Numbers1 \cup {A}>>)

NumberCalls ==
  UNION {Of(f, <<Numbers1 \cup {A}>>) : f \in {"abs", "floor", "ceil", "round"}}
  \cup Of("range", <<Halves>>) \cup Of("range", <<Halves, Halves>>) \cup Of("range", <<Halves, Halves, Halves>>)
  \cup UNION {Of(f, <<Numbers1, Numbers1>>) : f \in {"min", "max"}}
  \cup Of("parseint", <<Numerals \cup {S("110"), A}, {Whole(b) : b \in {1, 2, 10, 16, 36, 37}}>>)
  \cup UNION {Of(f, <<Numerals \cup Numbers1 \cup Scalars \cup {S("true"), S("false"), Left}>>) :
                f \in {"tostring", "tonumber", "tobool", "type"}}

ListCalls ==
  UNION {Of(f, <<ListsOf(Items) \cup {A}>>) : f \in {"reverse", "distinct", "flatten", "length"}}
  \cup Of("contains", <<ListsOf(Items), Items>>)
  \cup Of("element", <<ListsOf({A, Num(10)}), Integers1 \cup {Num(5)}>>)
  \cup Of("slice", <<ListsOf({A, Num(10)}), Integers1, Integers1>>)
  \cup Of("zipmap", <<TextLists, ListsOf({A, Num(10)})>>)

ObjectCalls ==
  UNION {Of(f, <<Objects1 \cup {A}>>) : f \in {"keys", "values", "length"}}
  \cup Of("merge", <<Objects1 \cup {A}>>) \cup Of("merge", <<Objects1, Objects1>>)
  \cup Of("merge", <<Objects1, Objects1, Objects1>>)
  \cup Of("lookup", <<Objects1, {A, S("b"), Null}>>) \cup Of("lookup", <<Objects1, {A, S("b")}, {Null, Num(5)}>>)
  \cup Of("coalesce", <<{Null, A}, {Null, Left}>>)

AllCalls == TextCalls \cup FormatCalls \cup NumberCalls \cup ListCalls \cup ObjectCalls
Unaries  == {"upper", "trimspace", "length", "keys", "reverse", "distinct", "flatten", "round", "tostring", "tonumber"}
=============================================================================
