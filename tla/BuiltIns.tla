------------------------------- MODULE BuiltIns -------------------------------
(***************************************************************************)
(* The built-in functions (cl_functions.c), called one in the argument of  *)
(* another.  A string is a sequence of symbols, and the number of Num(n)   *)
(* is n / 10, so that an integer is a multiple of ten.  NoValue is a       *)
(* failed call.                                                            *)
(***************************************************************************)
EXTENDS Writer, ValueOps, FiniteSets

CONSTANTS
  Calls,        \* the calls [name, args] that a document starts with
  Nestable,     \* the functions of one argument that are called with a result
  MaxNested,    \* bound: how deep calls are nested
  RangeLimit    \* CL_FN_RANGE_LIMIT

VARIABLES
  call,         \* the call that is evaluated
  result,       \* what it has returned, or Pending
  nested        \* how many results have become arguments

vars == <<call, result, nested>>

Pending == [k |-> "pending"]

(* An operator named Slip... is a plausible mistake in the definition that *)
(* follows it; the specification uses none of them.                        *)

-----------------------------------------------------------------------------
(* Arguments: what cl_fn_string, cl_fn_integer and cl_fn_kind let through. *)

One == 10

BoolText(b) == Symbols(IF b THEN "true" ELSE "false")
TextOf(v)   == CASE IsStr(v)  -> v.s
                 [] IsNum(v)  -> WrittenNum(Decimal(v.n, -1))
                 [] IsBool(v) -> BoolText(v.b)
IsInteger(v) == IsNum(v) /\ v.n % One = 0
AsInt(v)     == v.n \div One
Whole(n)     == Num(n * One)

AreTexts(vs)   == \A i \in DOMAIN vs : HasText(vs[i])
AreNumbers(vs) == \A i \in DOMAIN vs : IsNum(vs[i])
AreLists(vs)   == \A i \in DOMAIN vs : IsList(vs[i])
AreObjects(vs) == \A i \in DOMAIN vs : IsObj(vs[i])

\* A result, or the failure of a function that checks its arguments.
If(ok, v) == IF ok THEN v ELSE NoValue

-----------------------------------------------------------------------------
(* Strings *)

Small == <<"a", "b", "e", "f", "l", "r", "s", "t", "u">>
Large == <<"A", "B", "E", "F", "L", "R", "S", "T", "U">>
Mapped(s, from, to) ==
  [i \in DOMAIN s |-> IF s[i] \in Range(from) THEN to[SelectInSeq(from, LAMBDA c : c = s[i])] ELSE s[i]]

\* strstr: the first place where sub is in s at or after i, or 0.
PlaceOf(s, sub, i) ==
  LET places == {j \in i .. Len(s) - Len(sub) + 1 : SubSeq(s, j, j + Len(sub) - 1) = sub}
  IN  IF places = {} THEN 0 ELSE Min(places)

\* Slip: what is inside goes as well.
SlipTrimmed(s, cutset) == SelectSeq(s, LAMBDA c : c \notin cutset)

Trimmed(s, cutset) ==
  LET kept == {i \in DOMAIN s : s[i] \notin cutset}
  IN  IF kept = {} THEN <<>> ELSE SubSeq(s, Min(kept), Max(kept))

\* isspace
Spaces == {" ", "\t", "\n", "\r"}

\* Slip: the search goes on behind the first symbol of what was found.
RECURSIVE SlipPieces(_, _, _)
SlipPieces(s, sep, i) ==
  LET hit == PlaceOf(s, sep, i)
  IN  IF hit = 0 THEN <<SubSeq(s, i, Len(s))>>
      ELSE <<SubSeq(s, i, hit - 1)>> \o SlipPieces(s, sep, hit + 1)

\* The loop of cl_fn_split: what is between one separator and the next.
RECURSIVE Pieces(_, _, _)
Pieces(s, sep, i) ==
  LET hit == PlaceOf(s, sep, i)
  IN  IF hit = 0 THEN <<SubSeq(s, i, Len(s))>>
      ELSE <<SubSeq(s, i, hit - 1)>> \o Pieces(s, sep, hit + Len(sep))

\* The loop of cl_fn_replace.
RECURSIVE Replaced(_, _, _, _)
Replaced(s, search, repl, i) ==
  LET hit == PlaceOf(s, search, i)
  IN  IF hit = 0 THEN SubSeq(s, i, Len(s))
      ELSE SubSeq(s, i, hit - 1) \o repl \o Replaced(s, search, repl, hit + Len(search))

Concat(args) ==
  IF AreLists(args) THEN List(FlattenSeq([i \in DOMAIN args |-> args[i].items]))
  ELSE If(AreTexts(args), Str(FlattenSeq([i \in DOMAIN args |-> TextOf(args[i])])))

Split(sep, s) == If(sep # <<>>, List([i \in DOMAIN Pieces(s, sep, 1) |-> Str(Pieces(s, sep, 1)[i])]))

Replace(s, search, repl) == If(search # <<>>, Str(Replaced(s, search, repl, 1)))

Join(sep, items) ==
  If(AreTexts(items), Str(Joined([i \in DOMAIN items |-> TextOf(items[i])], sep)))

\* Where substr starts, after that many symbols; a negative offset counts from the end.
Offset(len, offset) == IF offset < 0 THEN offset + len ELSE offset

SubstrFrom(s, start, count) ==
  If(start \in 0 .. Len(s) /\ count >= -1,
     Str(SubSeq(s, start + 1, IF count < 0 \/ count > Len(s) - start THEN Len(s) ELSE start + count)))
Substr(s, offset, count) == SubstrFrom(s, Offset(Len(s), offset), count)

TrimPrefix(s, p) == IF IsPrefix(p, s) THEN SubSeq(s, Len(p) + 1, Len(s)) ELSE s
TrimSuffix(s, p) == IF IsSuffix(p, s) THEN SubSeq(s, 1, Len(s) - Len(p)) ELSE s

-----------------------------------------------------------------------------
(* format *)

\* A tenth of a number t / 10 ^ places, rounded to the nearest, a tie to the even one.
TiesToEven(n) == IF n % 10 > 5 \/ (n % 10 = 5 /\ (n \div 10) % 2 = 1) THEN n \div 10 + 1 ELSE n \div 10

\* snprintf of "%.*f"; the sign is written even if only zeros are left.
Fixed(n, places) ==
  LET whole  == IF places = 0 THEN TiesToEven(Abs(n)) * One ELSE Abs(n)
      zeros  == [i \in 1 .. places - 1 |-> "0"]
  IN  (IF n < 0 THEN <<"-">> ELSE <<>>) \o DigitsOf(whole \div One)
      \o IF places = 0 THEN <<>> ELSE <<".", Digits[(whole % One) + 1]>> \o zeros

NoPrecision  == -1
MaxPrecision == 100

\* The text of one verb, as a string, or NoValue.
Formatted(verb, precision, v) ==
  CASE verb = "s" -> If(precision = NoPrecision /\ HasText(v), Str(TextOf(v)))
    [] verb = "d" -> If(precision = NoPrecision /\ IsInteger(v), Str(Fixed(v.n, 0)))
    [] verb = "f" -> If(IsNum(v), Str(Fixed(v.n, IF precision = NoPrecision THEN 6 ELSE precision)))
    [] OTHER      -> NoValue

RECURSIVE FormatFrom(_, _, _, _)

\* Slip: the next verb takes the last of them.
SlipFormatVerb(fmt, i, precision, args, text) ==
  IF At(fmt, i) = "" \/ args = <<>> \/ precision > MaxPrecision THEN NoValue
  ELSE LET piece == Formatted(fmt[i], precision, Last(args))
       IN  If(piece # NoValue, FormatFrom(fmt, i + 1, Tail(args), text \o piece.s))

\* The verb at i takes the first of the arguments that are left.
FormatVerb(fmt, i, precision, args, text) ==
  IF At(fmt, i) = "" \/ args = <<>> \/ precision > MaxPrecision THEN NoValue
  ELSE LET piece == Formatted(fmt[i], precision, Head(args))
       IN  If(piece # NoValue, FormatFrom(fmt, i + 1, Tail(args), text \o piece.s))

\* cl_fn_format: the rest of the text, from i on.
FormatFrom(fmt, i, args, text) ==
  CASE At(fmt, i) = ""  -> If(args = <<>>, Str(text))
    [] At(fmt, i) = "%" ->
         (CASE At(fmt, i + 1) = "%" -> FormatFrom(fmt, i + 2, args, Append(text, "%"))
            [] At(fmt, i + 1) = "." ->
                 LET end == Skip(fmt, i + 2, IsDigit)
                 IN  If(end > i + 2, FormatVerb(fmt, end, NatOf(SubSeq(fmt, i + 2, end - 1)), args, text))
            [] OTHER -> FormatVerb(fmt, i + 1, NoPrecision, args, text))
    [] OTHER -> FormatFrom(fmt, i + 1, args, Append(text, fmt[i]))

-----------------------------------------------------------------------------
(* Numbers *)

Floor(n) == (n \div One) * One
Ceil(n)  == -Floor(-n)

\* Slip: halves go up.
SlipRound(n) == Floor(n + One \div 2)

\* round: halves go away from zero.
Round(n) == IF n < 0 THEN -Floor(One \div 2 - n) ELSE Floor(n + One \div 2)

WithoutSign(s) == IF At(s, 1) \in {"+", "-"} THEN Tail(s) ELSE s
Signed(s, n)   == IF At(s, 1) = "-" THEN -n ELSE n

Hexadecimals == Digits \o <<"a", "b", "c", "d", "e", "f">>
DigitIn(c)   == SelectInSeq(Hexadecimals, LAMBDA d : <<d>> = Mapped(<<c>>, Large, Small)) - 1

\* strtoll of a text that is all of it a number of that base; none here is out of range.
ParseInt(s, base) ==
  LET digits == WithoutSign(s)
  IN  If(/\ base \in 2 .. 36 /\ digits # <<>>
         /\ \A i \in DOMAIN digits : DigitIn(digits[i]) \in 0 .. base - 1,
         Whole(Signed(s, FoldLeft(LAMBDA n, d : base * n + DigitIn(d), 0, digits))))

RECURSIVE InTenths(_)
InTenths(d) == IF d.e <= -1 THEN d.m ELSE InTenths([m |-> d.m * 10, e |-> d.e - 1])

\* A decimal that strtod reads to its end; no text is hexadecimal, infinite or not a number.
PointEnd(s) == IF At(s, IntEnd(s, 1)) = "." THEN IntEnd(s, IntEnd(s, 1) + 1) ELSE IntEnd(s, 1)
IsDecimal(s) ==
  /\ \E i \in 1 .. PointEnd(s) - 1 : IsDigit(s[i])
  /\ ExpEnd(s, PointEnd(s)) = Len(s) + 1
ToNumber(v) ==
  CASE v = Null \/ IsNum(v) -> v
    [] IsStr(v) -> If(IsDecimal(WithoutSign(v.s)), Num(Signed(v.s, InTenths(NumberOf(WithoutSign(v.s))))))
    [] OTHER    -> NoValue
ToBool(v) ==
  CASE v = Null \/ IsBool(v) -> v
    [] IsStr(v) -> If(v.s \in {BoolText(TRUE), BoolText(FALSE)}, Bool(v.s = BoolText(TRUE)))
    [] OTHER    -> NoValue

-----------------------------------------------------------------------------
(* Lists and objects *)

\* cl_fn_object_set: a key that is there keeps its place.
SetIn(fields, f) ==
  LET i == SelectInSeq(fields, LAMBDA g : g.key = f.key)
  IN  IF i = 0 THEN Append(fields, f) ELSE [fields EXCEPT ![i] = f]

\* Slip: the earlier value stays.
SlipMerged(fields) ==
  FoldLeft(LAMBDA acc, f : IF \E i \in DOMAIN acc : acc[i].key = f.key THEN acc ELSE Append(acc, f), <<>>, fields)

\* The fields of an object that gets these one after the other.
Merged(fields) == FoldLeft(SetIn, <<>>, fields)

Merge(objs)          == If(AreObjects(objs), Object(Merged(FlattenSeq([i \in DOMAIN objs |-> objs[i].fields]))))
ZipMap(keys, values) ==
  If(Len(keys) = Len(values) /\ AreTexts(keys),
     Object(Merged([i \in DOMAIN keys |-> Field(TextOf(keys[i]), values[i])])))
Keys(obj)            == List([i \in DOMAIN obj.fields |-> Str(obj.fields[i].key)])
FieldValues(obj)     == List([i \in DOMAIN obj.fields |-> obj.fields[i].value])
Lookup(obj, key, default) == IF HasKey(obj, key) THEN Get(obj, key) ELSE default

Contained(items, v) == \E i \in DOMAIN items : Equal(items[i], v)

\* Slip: only neighbours are compared.
SlipDistinct(items) ==
  FoldLeft(LAMBDA acc, v : IF acc # <<>> /\ Equal(Last(acc), v) THEN acc ELSE Append(acc, v), <<>>, items)
Distinct(items) ==
  FoldLeft(LAMBDA acc, v : IF Contained(acc, v) THEN acc ELSE Append(acc, v), <<>>, items)

\* cl_fn_flatten_into
RECURSIVE Flattened(_)
Flattened(items) ==
  FlattenSeq([i \in DOMAIN items |-> IF IsList(items[i]) THEN Flattened(items[i].items) ELSE <<items[i]>>])

\* cl_fn_coalesce: the first argument that is not null.
Coalesced(args) == LET i == SelectInSeq(args, LAMBDA v : v # Null) IN IF i = 0 THEN NoValue ELSE args[i]

Element(items, index) == IF items = <<>> \/ index < 0 THEN NoValue ELSE items[(index % Len(items)) + 1]
Slice(items, from, to) == If(0 <= from /\ from <= to /\ to <= Len(items), List(SubSeq(items, from + 1, to)))

\* Slip: the last step is left out unless the steps end at the end.
SlipCount(start, end, step) == IF Quot(end - start, step) > 0 THEN Quot(end - start, step) ELSE 0

\* How many items range() has: the quotient rounded up.
Count(start, end, step) ==
  LET distance == IF step > 0 THEN end - start ELSE start - end
  IN  IF distance > 0 THEN (distance + Abs(step) - 1) \div Abs(step) ELSE 0

RangeFrom(start, end, step) ==
  If(step # 0 /\ Count(start, end, step) <= RangeLimit,
     List([i \in 1 .. Count(start, end, step) |-> Num(start + (i - 1) * step)]))
RangeOf(ns) ==
  CASE Len(ns) = 1 -> RangeFrom(0, ns[1], IF 0 <= ns[1] THEN One ELSE -One)
    [] Len(ns) = 2 -> RangeFrom(ns[1], ns[2], IF ns[1] <= ns[2] THEN One ELSE -One)
    [] Len(ns) = 3 -> RangeFrom(ns[1], ns[2], ns[3])

KindName(v) ==
  Symbols(CASE IsStr(v) -> "string" [] IsNum(v) -> "number" [] IsBool(v) -> "bool"
            [] v = Null -> "null" [] IsList(v) -> "list" [] IsObj(v) -> "object")

-----------------------------------------------------------------------------
(* The table of functions, by the kinds of their arguments: "text" is what *)
(* cl_fn_string takes, "any" is everything, "opt" may be missing.          *)

Parameters ==
  [upper |-> <<"text">>, lower |-> <<"text">>, trimspace |-> <<"text">>, length |-> <<"any">>,
   trim |-> <<"text", "text">>, trimprefix |-> <<"text", "text">>, trimsuffix |-> <<"text", "text">>,
   replace |-> <<"text", "text", "text">>, split |-> <<"text", "text">>, join |-> <<"text", "list">>,
   substr |-> <<"text", "int", "int">>, startswith |-> <<"text", "text">>, endswith |-> <<"text", "text">>,
   strcontains |-> <<"text", "text">>, parseint |-> <<"text", "int">>,
   abs |-> <<"num">>, floor |-> <<"num">>, ceil |-> <<"num">>, round |-> <<"num">>,
   keys |-> <<"obj">>, values |-> <<"obj">>, lookup |-> <<"obj", "text", "opt">>,
   contains |-> <<"list", "any">>, element |-> <<"list", "int">>, slice |-> <<"list", "int", "int">>,
   reverse |-> <<"list">>, distinct |-> <<"list">>, flatten |-> <<"list">>, zipmap |-> <<"list", "list">>,
   range |-> <<"num", "optnum", "optnum">>,
   type |-> <<"any">>, tostring |-> <<"any">>, tonumber |-> <<"any">>, tobool |-> <<"any">>]

\* The functions of one argument or more.
Variadics == {"concat", "format", "min", "max", "merge", "coalesce"}

OfText    == {f \in DOMAIN Parameters : Parameters[f][1] = "text"}
OfLists   == {f \in DOMAIN Parameters : Parameters[f][1] = "list"}
OfNumbers == {f \in DOMAIN Parameters : Parameters[f][1] = "num"} \cup {"min", "max"}
OfAny     == (DOMAIN Parameters \cup Variadics) \ (OfText \cup OfLists \cup OfNumbers)

Takes(kind, v) ==
  CASE kind = "text" -> HasText(v)
    [] kind \in {"num", "optnum"} -> IsNum(v)
    [] kind = "int"  -> IsInteger(v)
    [] kind = "list" -> IsList(v)
    [] kind = "obj"  -> IsObj(v)
    [] OTHER -> TRUE

\* The argument counts of cl_builtins, and the checks each function starts with.
Accepted(name, args) ==
  IF name \in Variadics THEN args # <<>> /\ (name \in {"min", "max"} => AreNumbers(args))
  ELSE /\ Len(args) <= Len(Parameters[name])
       /\ \A i \in DOMAIN Parameters[name] :
            IF i \in DOMAIN args THEN Takes(Parameters[name][i], args[i])
            ELSE Parameters[name][i] \in {"opt", "optnum"}

ApplyToText(name, s, args) ==
  CASE name = "upper"       -> Str(Mapped(s, Small, Large))
    [] name = "lower"       -> Str(Mapped(s, Large, Small))
    [] name = "trim"        -> Str(Trimmed(s, Range(TextOf(args[2]))))
    [] name = "trimspace"   -> Str(Trimmed(s, Spaces))
    [] name = "trimprefix"  -> Str(TrimPrefix(s, TextOf(args[2])))
    [] name = "trimsuffix"  -> Str(TrimSuffix(s, TextOf(args[2])))
    [] name = "replace"     -> Replace(s, TextOf(args[2]), TextOf(args[3]))
    [] name = "split"       -> Split(s, TextOf(args[2]))
    [] name = "join"        -> Join(s, args[2].items)
    [] name = "substr"      -> Substr(s, AsInt(args[2]), AsInt(args[3]))
    [] name = "startswith"  -> Bool(IsPrefix(TextOf(args[2]), s))
    [] name = "endswith"    -> Bool(IsSuffix(TextOf(args[2]), s))
    [] name = "strcontains" -> Bool(PlaceOf(s, TextOf(args[2]), 1) # 0)
    [] name = "parseint"    -> ParseInt(s, AsInt(args[2]))

ApplyToList(name, items, args) ==
  CASE name = "contains" -> Bool(Contained(items, args[2]))
    [] name = "element"  -> Element(items, AsInt(args[2]))
    [] name = "slice"    -> Slice(items, AsInt(args[2]), AsInt(args[3]))
    [] name = "reverse"  -> List(Reverse(items))
    [] name = "distinct" -> List(Distinct(items))
    [] name = "flatten"  -> List(Flattened(items))
    [] name = "zipmap"   -> ZipMap(items, args[2].items)

ApplyToNumbers(name, ns) ==
  CASE name = "abs"   -> Num(Abs(ns[1]))
    [] name = "floor" -> Num(Floor(ns[1]))
    [] name = "ceil"  -> Num(Ceil(ns[1]))
    [] name = "round" -> Num(Round(ns[1]))
    [] name = "range" -> RangeOf(ns)
    [] name = "min"   -> Num(Min(Range(ns)))
    [] name = "max"   -> Num(Max(Range(ns)))

ApplyToAny(name, v, args) ==
  CASE name = "length"   -> IF IsStr(v) THEN Whole(Len(v.s))
                            ELSE If(IsCollection(v), Whole(Len(Elements(v))))
    [] name = "keys"     -> Keys(v)
    [] name = "values"   -> FieldValues(v)
    [] name = "lookup"   -> Lookup(v, TextOf(args[2]), IF Len(args) = 3 THEN args[3] ELSE NoValue)
    [] name = "merge"    -> Merge(args)
    [] name = "concat"   -> Concat(args)
    [] name = "format"   -> If(HasText(v), FormatFrom(TextOf(v), 1, Tail(args), <<>>))
    [] name = "coalesce" -> Coalesced(args)
    [] name = "type"     -> Str(KindName(v))
    [] name = "tostring" -> IF v = Null THEN v ELSE If(HasText(v), Str(TextOf(v)))
    [] name = "tonumber" -> ToNumber(v)
    [] name = "tobool"   -> ToBool(v)

-----------------------------------------------------------------------------
(* The evaluation of one call in another *)

Init == /\ call \in Calls
        /\ result = Pending
        /\ nested = 0

\* A function of these names returns: its arguments are accepted and it has a result, or it fails.
Return(names, value) ==
  /\ result = Pending
  /\ call.name \in names
  /\ result' = If(Accepted(call.name, call.args), value)
  /\ UNCHANGED <<call, nested>>

ReturnOfText    == Return(OfText, ApplyToText(call.name, TextOf(call.args[1]), call.args))
ReturnOfList    == Return(OfLists, ApplyToList(call.name, call.args[1].items, call.args))
ReturnOfNumbers == Return(OfNumbers, ApplyToNumbers(call.name, [i \in DOMAIN call.args |-> call.args[i].n]))
ReturnOfAny     == Return(OfAny, ApplyToAny(call.name, call.args[1], call.args))

\* The result is the argument of another call.
Nest ==
  /\ result \notin {Pending, NoValue}
  /\ nested < MaxNested
  /\ \E f \in Nestable : call' = [name |-> f, args |-> <<result>>]
  /\ result' = Pending
  /\ nested' = nested + 1

Next == ReturnOfText \/ ReturnOfList \/ ReturnOfNumbers \/ ReturnOfAny \/ Nest
Spec == Init /\ [][Next]_vars

-----------------------------------------------------------------------------
(* Properties *)

Gave(name) == call.name = name /\ result \notin {Pending, NoValue}
T(i)       == TextOf(call.args[i])
N(i)       == AsInt(call.args[i])

\* The numbers of a set of places, from the smallest on.
InOrder(places) ==
  IF places = {} THEN <<>> ELSE SelectSeq([i \in 1 .. Max(places) |-> i], LAMBDA i : i \in places)

\* What split cuts a text into is the text again when it is joined, and no separator is
\* left in a piece nor cut off later than it could be; replace is a split that is joined
\* with something else; what substr leaves out is what is before and behind it, and an
\* offset from the end takes that many symbols (cl_fn_split, cl_fn_replace, cl_fn_substr).
PiecesRejoin ==
  /\ Gave("split") =>
       LET sep    == T(1)
           pieces == [i \in DOMAIN result.items |-> result.items[i].s]
       IN  /\ Joined(pieces, sep) = T(2)
           /\ \A i \in DOMAIN pieces :
                IF i = Len(pieces) THEN PlaceOf(pieces[i], sep, 1) = 0
                ELSE PlaceOf(pieces[i] \o sep, sep, 1) = Len(pieces[i]) + 1
  /\ Gave("replace") => result.s = Joined(Pieces(T(1), T(2), 1), T(3))
  /\ Gave("substr") =>
       LET rest == Substr(T(1), N(2), -1).s
       IN  /\ IsPrefix(result.s, rest)
           /\ N(3) # -1 => (Len(result.s) = N(3) \/ (result.s = rest /\ Len(rest) < N(3)))
           /\ IF N(2) < 0 THEN IsSuffix(rest, T(1)) /\ Len(rest) = -N(2)
              ELSE Substr(T(1), 0, N(2)).s \o rest = T(1)

\* trim and trimspace take everything they can from both ends and nothing from the inside;
\* a prefix or a suffix is taken once, and only if it is there (cl_fn_trim, cl_fn_trimspace,
\* cl_fn_trimprefix, cl_fn_trimsuffix).
TrimsOnlyTheEnds ==
  /\ call.name \in {"trim", "trimspace"} /\ Gave(call.name) =>
       LET s   == T(1)
           cut == IF call.name = "trim" THEN Range(T(2)) ELSE Spaces
       IN  /\ \E i, j \in 0 .. Len(s) :
                /\ s = SubSeq(s, 1, i) \o result.s \o SubSeq(s, j + 1, Len(s))
                /\ Range(SubSeq(s, 1, i)) \cup Range(SubSeq(s, j + 1, Len(s))) \subseteq cut
           /\ result.s # <<>> => {Head(result.s), Last(result.s)} \cap cut = {}
  /\ Gave("trimprefix") => (result.s = T(1) /\ ~IsPrefix(T(2), T(1))) \/ T(2) \o result.s = T(1)
  /\ Gave("trimsuffix") => (result.s = T(1) /\ ~IsSuffix(T(2), T(1))) \/ result.s \o T(2) = T(1)

\* range starts with its start and goes on, step by step, as long as the end is not reached:
\* the end itself is never in it, and one step more would be at the end or past it, also
\* when the steps do not divide the distance or go away from the end (cl_fn_range).
RangeStopsBeforeItsEnd ==
  Gave("range") =>
    LET ns    == [i \in DOMAIN call.args |-> call.args[i].n]
        start == IF Len(ns) = 1 THEN 0 ELSE ns[1]
        end   == IF Len(ns) = 1 THEN ns[1] ELSE ns[2]
        step  == IF Len(ns) = 3 THEN ns[3] ELSE IF start <= end THEN One ELSE -One
        items == result.items
        IsBefore(n) == IF step > 0 THEN n < end ELSE n > end
    IN  /\ \A i \in DOMAIN items : /\ IsBefore(items[i].n)
                                  /\ items[i].n = (IF i = 1 THEN start ELSE items[i - 1].n + step)
        /\ ~IsBefore(IF items = <<>> THEN start ELSE Last(items).n + step)

\* distinct keeps the first of equal items, in order, and nothing equal twice; contains
\* finds exactly what adds nothing to the distinct items; flatten leaves no list and keeps
\* the order of what is in them; element goes round; slice leaves out what is before and
\* behind it (cl_fn_distinct, cl_fn_contains, cl_fn_flatten, cl_fn_element, cl_fn_slice).
ListsKeepTheirItems ==
  LET items == call.args[1].items
      IsNew(i) == \A j \in 1 .. i - 1 : ~Equal(items[j], items[i])
  IN  /\ Gave("distinct") =>
           LET new == InOrder({i \in DOMAIN items : IsNew(i)})
           IN  result.items = [i \in DOMAIN new |-> items[new[i]]]
      /\ Gave("contains") => (result.b <=> Distinct(Append(items, call.args[2])) = Distinct(items))
      /\ Gave("flatten") =>
           /\ \A i \in DOMAIN result.items : ~IsList(result.items[i])
           /\ \A i \in 0 .. Len(items) :
                result.items = Flattened(SubSeq(items, 1, i)) \o Flattened(SubSeq(items, i + 1, Len(items)))
      /\ Gave("element") => \E i \in DOMAIN items : items[i] = result /\ (N(2) + 1 - i) % Len(items) = 0
      /\ Gave("slice") =>
           items = SubSeq(items, 1, N(2)) \o result.items \o SubSeq(items, N(3) + 1, Len(items))

\* An object that is put together from fields has every key once, where it came first, with
\* the value that came last, and lookup finds that; the keys and values of an object make
\* the same object again (cl_fn_merge, cl_fn_zipmap, cl_fn_object_set, cl_fn_lookup).
LaterObjectsWin ==
  LET IsMadeOf(obj, fields) ==
        LET First(key) == Min({i \in DOMAIN fields : fields[i].key = key})
            Latest(key) == Max({i \in DOMAIN fields : fields[i].key = key})
            places == InOrder({First(fields[i].key) : i \in DOMAIN fields})
        IN  obj.fields = [i \in DOMAIN places |-> fields[Latest(fields[places[i]].key)]]
  IN  /\ Gave("merge") =>
           /\ IsMadeOf(result, FlattenSeq([i \in DOMAIN call.args |-> call.args[i].fields]))
           /\ ZipMap(Keys(result).items, FieldValues(result).items) = result
      /\ Gave("zipmap") =>
           /\ IsMadeOf(result, [i \in DOMAIN call.args[1].items |->
                                  Field(TextOf(call.args[1].items[i]), call.args[2].items[i])])
           /\ \A i \in DOMAIN result.fields :
                Lookup(result, result.fields[i].key, NoValue) = result.fields[i].value
      /\ Gave("lookup") =>
           IF T(2) \in {f.key : f \in Range(call.args[1].fields)}
             THEN Field(T(2), result) \in Range(call.args[1].fields) ELSE result = call.args[3]

\* A number that is written reads back as the same number; parseint agrees with tonumber in
\* base ten; a number lies between its floor and its ceil, which are the same only for an
\* integer, and round takes the nearer one, the same for a number and its negative
\* (cl_fn_tonumber, cl_fn_tostring, cl_fn_parseint, cl_fn_round).
NumbersConvertBack ==
  /\ call.name \in {"tostring", "tonumber"} /\ Gave(call.name) =>
       /\ IsNum(result) => ToNumber(Str(TextOf(result))) = result
       /\ IsNum(call.args[1]) => ToNumber(result) = call.args[1]
  /\ Gave("parseint") => IsInteger(result) /\ (N(2) = 10 => result = ToNumber(Str(T(1))))
  /\ call.name \in {"floor", "ceil", "round"} /\ Gave(call.name) =>
       LET n == call.args[1].n
       IN  /\ result.n % One = 0 /\ Abs(result.n - n) < One
           /\ call.name = "floor" => result.n <= n
           /\ call.name = "ceil" => result.n >= n
           /\ call.name = "round" => 2 * Abs(result.n - n) <= One /\ Round(-n) = -result.n

\* A format has a text exactly if there is one argument for every verb, of the verb's kind,
\* and then it is the text between the verbs with the arguments in between, in order; a
\* doubled percent sign takes none, and a number reads back from the decimals that are
\* written of it (cl_fn_format).
FormatUsesItsArguments ==
  call.name = "format" /\ result # Pending /\ HasText(call.args[1]) =>
    LET fmt    == T(1)
        args   == Tail(call.args)
        signs  == InOrder({i \in DOMAIN fmt : fmt[i] = "%"})
        Fits(i) == At(fmt, signs[i] + 1) = "d" => IsInteger(args[i])
        between == Pieces(Replaced(fmt, <<"%", "d">>, <<"%", "s">>, 1), <<"%", "s">>, 1)
    IN  /\ (\A i \in DOMAIN signs : At(fmt, signs[i] + 1) \in {"s", "d"}) =>
             IF Len(args) = Len(signs) /\ AreTexts(args) /\ \A i \in DOMAIN args : Fits(i)
               THEN result.s = FlattenSeq([i \in DOMAIN between |->
                                 IF i = 1 THEN between[1] ELSE TextOf(args[i - 1]) \o between[i]])
               ELSE result = NoValue
        /\ args = <<>> /\ result # NoValue => Replaced(result.s, <<"%">>, <<"%", "%">>, 1) = fmt
        /\ fmt = <<"%", ".", "1", "f">> /\ result # NoValue => ToNumber(result) = args[1]
        /\ fmt = <<"%", ".", "0", "f">> /\ result # NoValue => 2 * Abs(ToNumber(result).n - args[1].n) <= One
=============================================================================
