------------------------------ MODULE ValueOps ------------------------------
(***************************************************************************)
(* The strict operators and some built-in functions, as operators on       *)
(* values.  NoValue is their failure.  Numbers are integers here, so "/"   *)
(* is for exact quotients.                                                 *)
(***************************************************************************)
EXTENDS Values

\* cl_value_equal: objects are equal whatever the order of their fields.
RECURSIVE Equal(_, _)
Equal(a, b) ==
  /\ a.k = b.k
  /\ CASE IsList(a) -> /\ Len(a.items) = Len(b.items)
                       /\ \A i \in DOMAIN a.items : Equal(a.items[i], b.items[i])
       [] IsObj(a)  -> /\ Len(a.fields) = Len(b.fields)
                       /\ \A i \in DOMAIN a.fields :
                            /\ HasKey(b, a.fields[i].key)
                            /\ Equal(a.fields[i].value, Get(b, a.fields[i].key))
       [] OTHER     -> a = b

\* fmod: the remainder has the sign of the dividend.
Abs(n)    == IF n < 0 THEN -n ELSE n
Rem(a, b) == IF a < 0 THEN -(Abs(a) % Abs(b)) ELSE a % Abs(b)
Quot(a, b) == IF (a < 0) = (b < 0) THEN Abs(a) \div Abs(b) ELSE -(Abs(a) \div Abs(b))

\* cl_eval_binary, both operands evaluated.
ApplyBinary(op, l, r) ==
  CASE op = "=="  -> Bool(Equal(l, r))
    [] op = "!="  -> Bool(~Equal(l, r))
    [] op \notin {"==", "!="} /\ ~(IsNum(l) /\ IsNum(r)) -> NoValue
    [] op \in {"/", "%"} /\ IsNum(l) /\ IsNum(r) ->
         IF r.n = 0 THEN NoValue
         ELSE Num(IF op = "/" THEN Quot(l.n, r.n) ELSE Rem(l.n, r.n))
    [] op \notin {"==", "!=", "/", "%"} /\ IsNum(l) /\ IsNum(r) ->
         CASE op = "+"  -> Num(l.n + r.n)
           [] op = "-"  -> Num(l.n - r.n)
           [] op = "*"  -> Num(l.n * r.n)
           [] op = "<"  -> Bool(l.n < r.n)
           [] op = "<=" -> Bool(l.n <= r.n)
           [] op = ">"  -> Bool(l.n > r.n)
           [] op = ">=" -> Bool(l.n >= r.n)

\* cl_eval_unary, the operand evaluated.
ApplyUnary(op, v) ==
  CASE op = "-" -> IF IsNum(v) THEN Num(-v.n) ELSE NoValue
    [] op = "!" -> IF IsBool(v) THEN Bool(~v.b) ELSE NoValue

\* Built-ins, by name: how many arguments, and the result.  The limit on
\* a variadic function's arguments is not one the bounded calls can reach.
Variadic == 100
BuiltinArity ==
  [length |-> [min |-> 1, max |-> 1], coalesce |-> [min |-> 1, max |-> Variadic],
   keys |-> [min |-> 1, max |-> 1]]

\* cl_fn_length, cl_fn_keys and cl_fn_coalesce
LengthFn(v) ==
  IF IsCollection(v) THEN Num(Len(Elements(v))) ELSE IF IsStr(v) THEN Num(Len(v.s)) ELSE NoValue
KeysFn(v) == IF IsObj(v) THEN List([i \in DOMAIN v.fields |-> Str(v.fields[i].key)]) ELSE NoValue
CoalesceFn(args) ==
  LET i == SelectInSeq(args, LAMBDA v : v # Null)
  IN  IF i = 0 THEN NoValue ELSE args[i]

ApplyBuiltin(name, args) ==
  CASE name = "length"   -> LengthFn(args[1])
    [] name = "keys"     -> KeysFn(args[1])
    [] name = "coalesce" -> CoalesceFn(args)
=============================================================================
