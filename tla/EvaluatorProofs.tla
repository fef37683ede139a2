--------------------------- MODULE EvaluatorProofs ---------------------------
EXTENDS Evaluator, AnySequencesProofs

-----------------------------------------------------------------------------
(* The invariant, of a stack st and the list ch of resolutions.  It is kept  *)
(* by each of the things a step can do to the two: the lemmas below say so   *)
(* of any stack and list, and the actions are cases of them.                 *)

Good(st, ch) == WellStacked(st) /\ Linked(st, ch) /\ KeysDiffer(st)

\* What is said of the first n calls holds as long as these do the same job.
LEMMA ListsTransfer ==
  ASSUME NEW st, NEW tt, NEW c, NEW n \in Nat, ListsEntities(st, c, n),
         \A j \in 1 .. n : tt[j].key = st[j].key
  PROVE  ListsEntities(tt, c, n)
  BY DEF ListsEntities, IsEntity

LEMMA ListsNoMore ==
  ASSUME NEW st, NEW c, NEW n \in Nat, ListsEntities(st, c, n), ~IsEntity(st, n + 1)
  PROVE  ListsEntities(st, c, n + 1)
<1>1. c \in Seq(1 .. n + 1)
  BY DEF ListsEntities
<1>2. \A j \in 1 .. n + 1 : IsEntity(st, j) <=> \E a \in DOMAIN c : c[a] = j
  <2>1. \A a \in DOMAIN c : c[a] \in 1 .. n
    BY DEF ListsEntities
  <2>2. QED
    BY <2>1 DEF ListsEntities
<1>3. QED
  BY <1>1, <1>2 DEF ListsEntities

LEMMA ListsNoLess ==
  ASSUME NEW st, NEW c, NEW n \in Nat, ListsEntities(st, c, n + 1), ~IsEntity(st, n + 1)
  PROVE  ListsEntities(st, c, n)
<1>1. \A a \in DOMAIN c : c[a] \in 1 .. n
  BY DEF ListsEntities
<1>2. c \in Seq(1 .. n)
  BY <1>1 DEF ListsEntities
<1>3. QED
  BY <1>1, <1>2 DEF ListsEntities

\* One more call, that resolves nothing.
LEMMA CallKeeps ==
  ASSUME NEW st, NEW ch, Good(st, ch), st # <<>>,
         NEW f, IsFrame(f), f.key = NoKey, f.op = "find" => st[Len(st)].op = "expr"
  PROVE  Good(Append(st, f), ch)
<1> DEFINE k  == Len(st)
           tt == Append(st, f)
<1>1. /\ k \in Nat
      /\ DOMAIN st = 1 .. k
      /\ IsSequence(tt)
      /\ Len(tt) = k + 1
      /\ DOMAIN tt = 1 .. k + 1
      /\ \A n \in 1 .. k : tt[n] = st[n]
      /\ tt[k + 1] = f
  BY AppendSequence DEF Good, WellStacked, IsSequence
<1> HIDE DEF tt
<1>2. k > 0
  BY <1>1 DEF Good, WellStacked, IsSequence
<1>3. WellStacked(tt)
  BY <1>1, <1>2 DEF WellStacked, Good
<1>4. ~IsEntity(tt, k + 1)
  BY <1>1 DEF IsEntity
<1>5. ListsEntities(tt, ch, k + 1)
  BY <1>1, <1>4, ListsTransfer, ListsNoMore DEF Good, Linked
<1>6. ASSUME NEW n \in 1 .. k, IsEntity(tt, n)
      PROVE  ListsEntities(tt, tt[n].parent, n - 1)
  <2>1. ListsEntities(st, st[n].parent, n - 1)
    BY <1>1, <1>6 DEF Good, Linked, IsEntity
  <2>2. QED
    BY <1>1, <2>1, ListsTransfer
<1>7. Linked(tt, ch)
  BY <1>1, <1>4, <1>5, <1>6 DEF Linked
<1>8. KeysDiffer(tt)
  BY <1>1, <1>4 DEF KeysDiffer, Good, IsEntity
<1>9. QED
  BY <1>3, <1>7, <1>8 DEF Good, tt

\* The same resolutions at the same places.
LEMMA SameKeysKeep ==
  ASSUME NEW st, NEW tt, NEW ch, Good(st, ch), WellStacked(tt), Len(tt) = Len(st),
         \A n \in 1 .. Len(st) :
           tt[n].key = st[n].key /\ (IsEntity(st, n) => tt[n].parent = st[n].parent)
  PROVE  Good(tt, ch)
<1> DEFINE k == Len(st)
<1>1. k \in Nat /\ DOMAIN st = 1 .. k /\ DOMAIN tt = 1 .. k
  BY DEF Good, WellStacked, IsSequence
<1>2. ListsEntities(tt, ch, k)
  BY <1>1, ListsTransfer DEF Good, Linked
<1>3. ASSUME NEW n \in 1 .. k, IsEntity(tt, n)
      PROVE  ListsEntities(tt, tt[n].parent, n - 1)
  <2>0. IsEntity(st, n) /\ tt[n].parent = st[n].parent
    BY <1>1, <1>3 DEF IsEntity
  <2>1. ListsEntities(st, st[n].parent, n - 1)
    BY <1>1, <2>0 DEF Good, Linked
  <2>2. QED
    BY <1>1, <2>0, <2>1, ListsTransfer
<1>4. KeysDiffer(tt)
  BY <1>1 DEF KeysDiffer, Good, IsEntity
<1>5. QED
  BY <1>1, <1>2, <1>3, <1>4 DEF Good, Linked

\* Other locals in the top call.
LEMMA ContinueKeeps ==
  ASSUME NEW st, NEW ch, Good(st, ch), st # <<>>,
         NEW f, IsFrame(f), f.key = st[Len(st)].key,
         f.key # NoKey => f.parent = st[Len(st)].parent,
         f.op = "find" => st[Len(st)].op = "find",
         st[Len(st)].op = "body" => f.op = "body"
  PROVE  Good(Append(Front(st), f), ch)
<1> DEFINE k  == Len(st)
           tt == Append(Front(st), f)
<1>1. k \in Nat \ {0} /\ DOMAIN st = 1 .. k
  BY DEF Good, WellStacked, IsSequence
<1>2. /\ IsSequence(Front(st))
      /\ Len(Front(st)) = k - 1
      /\ \A n \in 1 .. k - 1 : Front(st)[n] = st[n]
  BY <1>1, PrefixSequence DEF Front, Good, WellStacked
<1>3. /\ IsSequence(tt)
      /\ Len(tt) = k
      /\ DOMAIN tt = 1 .. k
      /\ \A n \in 1 .. k - 1 : tt[n] = st[n]
      /\ tt[k] = f
  <2> DEFINE u == Front(st)
  <2>1. /\ IsSequence(Append(u, f))
        /\ Len(Append(u, f)) = Len(u) + 1
        /\ \A n \in 1 .. Len(u) : Append(u, f)[n] = u[n]
        /\ Append(u, f)[Len(u) + 1] = f
    BY <1>2, AppendSequence
  <2>2. Len(u) = k - 1 /\ \A n \in 1 .. k - 1 : u[n] = st[n]
    BY <1>2
  <2> HIDE DEF u
  <2>3. Len(u) + 1 = k
    BY <1>1, <2>2
  <2>4. IsSequence(tt) /\ Len(tt) = k /\ tt[k] = f
    BY <2>1, <2>3 DEF u
  <2>5. DOMAIN tt = 1 .. k
    <3> HIDE DEF tt
    <3>1. QED
      BY <2>4 DEF IsSequence
  <2>6. ASSUME NEW n \in 1 .. k - 1
        PROVE  tt[n] = st[n]
    <3>1. n \in 1 .. Len(u)
      BY <2>2
    <3>2. Append(u, f)[n] = u[n]
      BY <2>1, <3>1
    <3>3. u[n] = st[n]
      BY <2>2
    <3>4. QED
      BY <3>2, <3>3 DEF u
  <2>7. QED
    BY <2>4, <2>5, <2>6
<1> HIDE DEF tt
<1>4. WellStacked(tt)
  BY <1>1, <1>3 DEF WellStacked, Good
<1>5. \A n \in 1 .. k :
        tt[n].key = st[n].key /\ (IsEntity(st, n) => tt[n].parent = st[n].parent)
  BY <1>1, <1>3 DEF IsEntity
<1>6. Good(tt, ch)
  BY <1>3, <1>4, <1>5, SameKeysKeep
<1>7. QED
  BY <1>6 DEF tt

\* The return of the top call; ch' is what it leaves of the list.
Left(st, ch) == IF IsEntity(st, Len(st)) THEN st[Len(st)].parent ELSE ch

LEMMA PopKeeps ==
  ASSUME NEW st, NEW ch, Good(st, ch), st # <<>>
  PROVE  /\ Good(Front(st), Left(st, ch))
         /\ Len(Front(st)) = Len(st) - 1
         /\ \A n \in 1 .. Len(st) - 1 : Front(st)[n] = st[n]
<1> DEFINE k  == Len(st)
           tt == Front(st)
<1>1. k \in Nat \ {0} /\ DOMAIN st = 1 .. k
  BY DEF Good, WellStacked, IsSequence
<1>2. /\ IsSequence(tt)
      /\ Len(tt) = k - 1
      /\ \A n \in 1 .. k - 1 : tt[n] = st[n]
  BY <1>1, PrefixSequence DEF Front, Good, WellStacked
<1>3. DOMAIN tt = 1 .. k - 1
  BY <1>1, <1>2 DEF IsSequence
<1> HIDE DEF tt
<1>4. WellStacked(tt)
  BY <1>1, <1>2, <1>3 DEF WellStacked, Good
<1>5. ListsEntities(st, Left(st, ch), k - 1)
  <2>1. CASE IsEntity(st, k)
    BY <1>1, <2>1 DEF Left, Good, Linked
  <2>2. CASE ~IsEntity(st, k)
    <3>1. ListsEntities(st, ch, (k - 1) + 1)
      BY <1>1 DEF Good, Linked
    <3>2. k - 1 \in Nat /\ ~IsEntity(st, (k - 1) + 1)
      BY <1>1, <2>2
    <3>3. ListsEntities(st, ch, k - 1)
      BY <3>1, <3>2, ListsNoLess
    <3>4. QED
      BY <3>3, <2>2 DEF Left
  <2>3. QED
    BY <2>1, <2>2
<1>6. ListsEntities(tt, Left(st, ch), k - 1)
  BY <1>1, <1>2, <1>5, ListsTransfer
<1>7. ASSUME NEW n \in 1 .. k - 1, IsEntity(tt, n)
      PROVE  ListsEntities(tt, tt[n].parent, n - 1)
  <2>1. ListsEntities(st, st[n].parent, n - 1)
    BY <1>1, <1>2, <1>7 DEF Good, Linked, IsEntity
  <2>2. QED
    BY <1>1, <1>2, <2>1, ListsTransfer
<1>8. KeysDiffer(tt)
  BY <1>1, <1>2, <1>3 DEF KeysDiffer, Good, IsEntity
<1>9. Linked(tt, Left(st, ch))
  BY <1>2, <1>3, <1>6, <1>7 DEF Linked
<1>10. QED
  BY <1>2, <1>4, <1>8, <1>9 DEF Good, tt

\* ... with other locals in its caller (the value that is returned, for one).
LEMMA ReturnKeeps ==
  ASSUME NEW st, NEW ch, Good(st, ch), st # <<>>, Len(st) > 1,
         NEW f, IsFrame(f), f.key = st[Len(st) - 1].key, f.parent = st[Len(st) - 1].parent,
         f.op = st[Len(st) - 1].op
  PROVE  Good(Append(Front(Front(st)), f), Left(st, ch))
<1> DEFINE u == Front(st)
<1>1. Len(st) \in Nat
  BY DEF Good, WellStacked, IsSequence
<1>2. /\ Good(u, Left(st, ch))
      /\ Len(u) = Len(st) - 1
      /\ u[Len(u)] = st[Len(st) - 1]
  <2>1. /\ Good(u, Left(st, ch))
        /\ Len(u) = Len(st) - 1
        /\ \A n \in 1 .. Len(st) - 1 : u[n] = st[n]
    BY PopKeeps
  <2>2. Len(st) - 1 \in 1 .. Len(st) - 1
    BY <1>1
  <2>3. QED
    BY <2>1, <2>2
<1> HIDE DEF u
<1>3. u # <<>>
  BY <1>1, <1>2
<1>4. Good(Append(Front(u), f), Left(st, ch))
  BY <1>2, <1>3, ContinueKeeps
<1>5. QED
  BY <1>4 DEF u

\* One more resolution, of something that is not being resolved.
LEMMA EnterKeeps ==
  ASSUME NEW st, NEW ch, Good(st, ch), st # <<>>,
         NEW f, IsFrame(f), f.op \in EntityOps, f.parent = ch,
         \A n \in DOMAIN ch : st[ch[n]].key # f.key
  PROVE  Good(Append(st, f), Append(ch, Len(st) + 1))
<1> DEFINE k  == Len(st)
           tt == Append(st, f)
           cc == Append(ch, k + 1)
<1>1. /\ k \in Nat
      /\ DOMAIN st = 1 .. k
      /\ IsSequence(tt)
      /\ Len(tt) = k + 1
      /\ DOMAIN tt = 1 .. k + 1
      /\ \A n \in 1 .. k : tt[n] = st[n]
      /\ tt[k + 1] = f
  BY AppendSequence DEF Good, WellStacked, IsSequence
<1>2. k > 0
  BY <1>1 DEF Good, WellStacked, IsSequence
<1> HIDE DEF tt
<1>3. WellStacked(tt)
  BY <1>1, <1>2 DEF WellStacked, Good, IsFrame, EntityOps
<1>4. IsEntity(tt, k + 1) /\ f.key # NoKey
  BY <1>1 DEF IsEntity, IsFrame
<1>5. /\ ch \in Seq(1 .. k)
      /\ ListsEntities(st, ch, k)
      /\ ListsEntities(tt, ch, k)
  <2>1. ListsEntities(st, ch, k)
    BY DEF Good, Linked
  <2>2. ListsEntities(tt, ch, k)
    BY <1>1, <2>1, ListsTransfer
  <2>3. QED
    BY <2>1, <2>2 DEF ListsEntities
<1>6. /\ cc \in Seq(1 .. k + 1)
      /\ DOMAIN cc = 1 .. Len(ch) + 1
      /\ \A a \in DOMAIN ch : cc[a] = ch[a] /\ ch[a] \in 1 .. k
      /\ cc[Len(ch) + 1] = k + 1
      /\ Len(ch) \in Nat /\ DOMAIN ch = 1 .. Len(ch)
  <2>1. /\ Len(ch) \in Nat /\ DOMAIN ch = 1 .. Len(ch)
        /\ \A a \in DOMAIN ch : ch[a] \in 1 .. k
    BY <1>5
  <2>2. ch \in Seq(1 .. k + 1) /\ k + 1 \in 1 .. k + 1
    <3>1. 1 .. k \subseteq 1 .. k + 1 /\ k + 1 \in 1 .. k + 1
      BY <1>1
    <3>2. ch \in [1 .. Len(ch) -> 1 .. k + 1]
      BY <1>5, <2>1, <3>1
    <3>3. QED
      BY <2>1, <3>1, <3>2
  <2>3. /\ cc \in Seq(1 .. k + 1)
        /\ DOMAIN cc = 1 .. Len(ch) + 1
        /\ \A a \in 1 .. Len(ch) : cc[a] = ch[a]
        /\ cc[Len(ch) + 1] = k + 1
    BY <2>2
  <2>4. QED
    BY <2>1, <2>3
<1> HIDE DEF cc
<1>7. ListsEntities(tt, cc, k + 1)
  <2>1. ASSUME NEW a \in DOMAIN cc, NEW b \in DOMAIN cc, a < b
        PROVE  cc[a] < cc[b]
    <3>1. a \in DOMAIN ch /\ cc[a] = ch[a] /\ ch[a] \in 1 .. k
      BY <1>6, <2>1
    <3>2. CASE b = Len(ch) + 1
      BY <1>1, <1>6, <3>1, <3>2
    <3>3. CASE b \in DOMAIN ch
      <4>1. cc[b] = ch[b] /\ ch[a] < ch[b]
        BY <1>5, <1>6, <2>1, <3>1, <3>3 DEF ListsEntities
      <4>2. QED
        BY <3>1, <4>1
    <3>4. QED
      BY <1>6, <3>2, <3>3
  <2>2. ASSUME NEW j \in 1 .. k
        PROVE  IsEntity(tt, j) <=> \E a \in DOMAIN cc : cc[a] = j
    <3>1. IsEntity(tt, j) <=> \E a \in DOMAIN ch : ch[a] = j
      BY <1>5 DEF ListsEntities
    <3>2. \A a \in DOMAIN cc : cc[a] = j => a \in DOMAIN ch
      BY <1>1, <1>6
    <3>3. \A a \in DOMAIN ch : a \in DOMAIN cc /\ cc[a] = ch[a]
      BY <1>6
    <3>4. QED
      BY <3>1, <3>2, <3>3
  <2>3. IsEntity(tt, k + 1) <=> \E a \in DOMAIN cc : cc[a] = k + 1
    BY <1>4, <1>6
  <2>4. \A j \in 1 .. k + 1 : IsEntity(tt, j) <=> \E a \in DOMAIN cc : cc[a] = j
    BY <1>1, <2>2, <2>3
  <2>5. QED
    BY <1>6, <2>1, <2>4 DEF ListsEntities
<1>8. ASSUME NEW n \in 1 .. k + 1, IsEntity(tt, n)
      PROVE  ListsEntities(tt, tt[n].parent, n - 1)
  <2>1. CASE n = k + 1
    BY <1>1, <1>5, <2>1
  <2>2. CASE n \in 1 .. k
    <3>1. ListsEntities(st, st[n].parent, n - 1)
      BY <1>1, <1>8, <2>2 DEF Good, Linked, IsEntity
    <3>2. QED
      BY <1>1, <2>2, <3>1, ListsTransfer
  <2>3. QED
    BY <1>1, <2>1, <2>2
<1>9. KeysDiffer(tt)
  <2>1. ASSUME NEW m \in 1 .. k, IsEntity(st, m)
        PROVE  st[m].key # f.key
    <3>1. IsEntity(tt, m)
      BY <1>1, <2>1 DEF IsEntity
    <3>2. PICK a \in DOMAIN ch : ch[a] = m
      BY <1>5, <3>1 DEF ListsEntities
    <3>3. QED
      BY <3>2
  <2>2. QED
    BY <1>1, <2>1 DEF KeysDiffer, Good, IsEntity
<1>10. Good(tt, cc)
  BY <1>1, <1>3, <1>7, <1>8, <1>9 DEF Good, Linked
<1>11. QED
  BY <1>10 DEF tt, cc

-----------------------------------------------------------------------------
(* The invariant of the specification, and what each of the things a call    *)
(* can do makes of it.                                                       *)

Inv ==
  /\ Good(stack, resolving)
  /\ error \in Errors
  /\ stack = <<>> <=> result # <<>>

LEMMA FrameIsFrame ==
  ASSUME NEW op \in Ops \ EntityOps, NEW x, NEW scope
  PROVE  LET f == Frame(op, x, scope)
         IN  IsFrame(f) /\ f.op = op /\ f.key = NoKey /\ f.parent = <<>>
BY ShortSequences DEF Frame, IsFrame

LEMMA TopIsFrame ==
  ASSUME Inv, stack # <<>>
  PROVE  /\ Len(stack) \in Nat \ {0}
         /\ IsFrame(Top)
         /\ Len(stack) = 1 => Top.op = "body"
         /\ Len(stack) > 1 => IsFrame(Caller)
         /\ Top.op = "find" => Len(stack) > 1 /\ Caller.op = "expr"
<1>1. IsSequence(stack) /\ DOMAIN stack = 1 .. Len(stack)
  BY DEF Inv, Good, WellStacked, IsSequence
<1>2. Len(stack) \in Nat \ {0}
  BY <1>1, NonEmpty DEF IsSequence
<1>3. Len(stack) \in DOMAIN stack /\ (Len(stack) > 1 => Len(stack) - 1 \in DOMAIN stack)
  BY <1>1, <1>2
<1>4. QED
  BY <1>1, <1>2, <1>3 DEF Inv, Good, WellStacked, Top, Caller

LEMMA CallOfKeeps ==
  ASSUME Inv, Running, NEW f, IsFrame(f), f.key = NoKey, f.op = "find" => Top.op = "expr",
         CallOf(f)
  PROVE  Inv'
<1>1. Good(Append(stack, f), resolving)
  BY CallKeeps DEF Inv, Running, Top
<1>2. Append(stack, f) # <<>>
  <2>1. IsSequence(stack)
    BY DEF Inv, Good, WellStacked
  <2>2. QED
    BY <2>1, AppendNonEmpty
<1>3. QED
  BY <1>1, <1>2 DEF Inv, CallOf, Running

LEMMA EvalKeeps ==
  ASSUME Inv, Running, NEW x, NEW scope, Eval(x, scope)
  PROVE  Inv'
<1>1. "expr" \in Ops \ EntityOps
  BY DEF Ops, EntityOps
<1>2. LET f == Frame("expr", x, scope)
      IN  IsFrame(f) /\ f.op = "expr" /\ f.key = NoKey
  BY <1>1, FrameIsFrame
<1>3. QED
  BY <1>2, CallOfKeeps DEF Eval

LEMMA ContinueOnKeeps ==
  ASSUME Inv, Running, NEW f, IsFrame(f), f.key = Top.key, f.key # NoKey => f.parent = Top.parent,
         f.op = "find" => Top.op = "find", Top.op = "body" => f.op = "body",
         Continue(f)
  PROVE  Inv'
<1>1. Good(Append(Front(stack), f), resolving)
  BY ContinueKeeps DEF Inv, Running, Top
<1>2. Append(Front(stack), f) # <<>>
  <2>1. IsSequence(Front(stack))
    BY PopKeeps DEF Inv, Good, WellStacked, Running
  <2>2. QED
    BY <2>1, AppendNonEmpty
<1>3. QED
  BY <1>1, <1>2 DEF Inv, Continue, Running

\* A value is returned to a caller: there is one below every call but the first.
LEMMA PopsKeep ==
  ASSUME Inv, Running, Len(stack) > 1, NEW v,
         stack' = Pop(v), resolving' = Left(stack, resolving), UNCHANGED <<inputs, error, result>>
  PROVE  Inv'
<1> DEFINE f == [Caller EXCEPT !.vals = Append(@, v)]
<1>1. IsFrame(Caller)
  BY TopIsFrame DEF Running
<1>2. IsFrame(f) /\ f.key = Caller.key /\ f.parent = Caller.parent /\ f.op = Caller.op
  <2>1. IsSequence(Append(Caller.vals, v))
    BY <1>1, AppendSequence DEF IsFrame
  <2>2. QED
    BY <1>1, <2>1 DEF IsFrame
<1> HIDE DEF f
<1>3. Good(Append(Front(Front(stack)), f), Left(stack, resolving))
  BY <1>2, ReturnKeeps DEF Inv, Running, Caller
<1>4. Append(Front(Front(stack)), f) # <<>>
  <2>1. /\ Good(Front(stack), Left(stack, resolving))
        /\ Len(Front(stack)) = Len(stack) - 1
    BY PopKeeps DEF Inv, Running
  <2>2. Front(stack) # <<>>
    <3>1. Len(stack) - 1 > 0
      <4>1. Len(stack) \in Nat
        BY TopIsFrame DEF Running
      <4>2. QED
        BY <4>1
    <3>2. IsSequence(Front(stack))
      BY <2>1 DEF Good, WellStacked
    <3>3. QED
      BY <2>1, <3>1, <3>2, NonEmpty
  <2>3. IsSequence(Front(Front(stack)))
    BY <2>1, <2>2, PopKeeps DEF Good, WellStacked
  <2>4. QED
    BY <2>3, AppendNonEmpty
<1>5. QED
  BY <1>3, <1>4 DEF Inv, Pop, WithCaller, Running, f

LEMMA YieldKeeps ==
  ASSUME Inv, Running, Top.op # "body" \/ Len(stack) > 1, Top.op \notin EntityOps,
         NEW v, Yield(v)
  PROVE  Inv'
<1>1. Len(stack) > 1 /\ ~IsEntity(stack, Len(stack))
  <2>1. IsFrame(Top) /\ Len(stack) \in Nat \ {0} /\ (Len(stack) = 1 => Top.op = "body")
    BY TopIsFrame DEF Running
  <2>2. Top.key = NoKey
    BY <2>1 DEF IsFrame
  <2>3. QED
    BY <2>1, <2>2 DEF IsEntity, Top
<1>2. resolving = Left(stack, resolving)
  BY <1>1 DEF Left
<1>3. QED
  BY <1>1, <1>2, PopsKeep DEF Yield

LEMMA LeaveKeeps ==
  ASSUME Inv, Running, Top.op \in EntityOps, NEW v, Leave(v)
  PROVE  Inv'
<1>1. Len(stack) > 1 /\ IsEntity(stack, Len(stack))
  <2>1. IsFrame(Top) /\ Len(stack) \in Nat \ {0} /\ (Len(stack) = 1 => Top.op = "body")
    BY TopIsFrame DEF Running
  <2>2. Top.key # NoKey
    BY <2>1 DEF IsFrame
  <2>3. Top.op # "body"
    BY DEF EntityOps
  <2>4. QED
    BY <2>1, <2>2, <2>3 DEF IsEntity, Top
<1>2. Top.parent = Left(stack, resolving)
  BY <1>1 DEF Left, Top
<1>3. QED
  BY <1>1, <1>2, PopsKeep DEF Leave

LEMMA FailKeeps ==
  ASSUME Inv, NEW kind \in Errors, Fail(kind)
  PROVE  Inv'
BY DEF Inv, Fail

LEMMA EnterOnKeeps ==
  ASSUME Inv, NEW lower, lower # <<>>, Good(lower, resolving), result = <<>>,
         \A n \in DOMAIN resolving : lower[resolving[n]].key = stack[resolving[n]].key,
         NEW key, key # NoKey, NEW op \in EntityOps, NEW x, Enter(key, Frame(op, x, <<>>), lower)
  PROVE  Inv'
<1> DEFINE f == [Frame(op, x, <<>>) EXCEPT !.key = key, !.parent = resolving]
<1>1. CASE IsResolving(key)
  <2>1. Fail("circular") /\ "circular" \in Errors
    BY <1>1 DEF Enter, Errors
  <2>2. QED
    BY <2>1, FailKeeps
<1>2. CASE ~IsResolving(key)
  <2>1. /\ stack' = Append(lower, f)
        /\ resolving' = Append(resolving, Len(lower) + 1)
        /\ UNCHANGED <<inputs, error, result>>
    BY <1>2 DEF Enter
  <2>2. IsFrame(f) /\ f.op \in EntityOps /\ f.parent = resolving /\ f.key = key
    BY ShortSequences DEF IsFrame, Frame, EntityOps, Ops
  <2>3. \A n \in DOMAIN resolving : lower[resolving[n]].key # f.key
    BY <1>2, <2>2 DEF IsResolving
  <2> HIDE DEF f
  <2>4. Good(Append(lower, f), Append(resolving, Len(lower) + 1))
    BY <2>2, <2>3, EnterKeeps
  <2>5. Append(lower, f) # <<>>
    <3>1. Len(Append(lower, f)) = Len(lower) + 1 /\ IsSequence(Append(lower, f)) /\ Len(lower) \in Nat
      BY AppendSequence DEF Good, WellStacked
    <3>2. QED
      BY <3>1, NonEmpty
  <2>6. QED
    BY <2>1, <2>4, <2>5 DEF Inv
<1>3. QED
  BY <1>1, <1>2

LEMMA EnterTopKeeps ==
  ASSUME Inv, Running, NEW key, key # NoKey, NEW op \in EntityOps, NEW x,
         Enter(key, Frame(op, x, <<>>), stack)
  PROVE  Inv'
BY EnterOnKeeps DEF Inv, Running

LEMMA LabelKeeps ==
  ASSUME Inv, Running, Top.op \notin EntityOps, NEW at, NEW block, NEW k, EvalLabel(at, block, k)
  PROVE  Inv'
<1> DEFINE lx == block.labels[k]
           f  == [Top EXCEPT !.vals = Append(@, lx.value)]
<1>1. CASE Continue(f)
  <2>1. IsFrame(Top)
    BY TopIsFrame DEF Running
  <2>2. IsSequence(Append(Top.vals, lx.value))
    BY <2>1, AppendSequence DEF IsFrame
  <2>3. IsFrame(f) /\ f.key = Top.key /\ f.parent = Top.parent /\ f.op = Top.op
    BY <2>1, <2>2 DEF IsFrame
  <2> HIDE DEF f
  <2>4. QED
    BY <1>1, <2>3, ContinueOnKeeps
<1>2. CASE Enter(LabelKey(at, k), Frame("label", lx, <<>>), stack)
  <2>1. LabelKey(at, k) # NoKey /\ "label" \in EntityOps
    BY DEF LabelKey, NoKey, EntityOps
  <2>2. QED
    BY <1>2, <2>1, EnterTopKeeps
<1>3. QED
  BY <1>1, <1>2 DEF EvalLabel

-----------------------------------------------------------------------------
(* The actions *)

LEMMA InitInv == Init => Inv
<1> SUFFICES ASSUME Init
             PROVE  Inv
  OBVIOUS
<1> DEFINE f == Frame("body", Body(doc), <<>>)
<1>1. IsFrame(f) /\ f.op = "body" /\ f.key = NoKey
  BY FrameIsFrame DEF Ops, EntityOps
<1> HIDE DEF f
<1>2. /\ IsSequence(<<f>>)
      /\ Len(<<f>>) = 1
      /\ DOMAIN <<f>> = {1}
      /\ <<f>>[1] = f
  BY ShortSequences
<1>3. WellStacked(<<f>>)
  BY <1>1, <1>2 DEF WellStacked
<1>4. ListsEntities(<<f>>, <<>>, 1)
  BY <1>1, <1>2 DEF ListsEntities, IsEntity
<1>5. Good(<<f>>, <<>>)
  BY <1>1, <1>2, <1>3, <1>4 DEF Good, Linked, KeysDiffer, IsEntity
<1>6. QED
  BY <1>5 DEF Init, Inv, Errors, f

\* A call of cl_eval_expr that is not a reference calls, returns or fails.
LEMMA ExpressionKeeps ==
  ASSUME Inv,
         \/ EvalLiteral \/ EvalTuple \/ EvalObject \/ EvalConditional
         \/ EvalUnary \/ EvalLogical \/ EvalBinary \/ EvalCall
         \/ EvalTemplate \/ EvalTemplateIf \/ EvalTemplateFor
  PROVE  Inv'
<1>0. {"type", "duplicate", "function", "arity", "call"} \subseteq Errors
  BY DEF Errors
<1>1. ASSUME NEW kind, IsExpr(kind)
      PROVE  Running /\ Top.op # "body" /\ Top.op \notin EntityOps
  BY <1>1 DEF IsExpr, EntityOps
<1>2. CASE EvalLiteral
  BY <1>0, <1>1, <1>2, EvalKeeps, YieldKeeps, FailKeeps DEF EvalLiteral
<1>3. CASE EvalTuple
  BY <1>0, <1>1, <1>3, EvalKeeps, YieldKeeps, FailKeeps DEF EvalTuple
<1>4. CASE EvalObject
  BY <1>0, <1>1, <1>4, EvalKeeps, YieldKeeps, FailKeeps DEF EvalObject
<1>5. CASE EvalConditional
  BY <1>0, <1>1, <1>5, EvalKeeps, YieldKeeps, FailKeeps DEF EvalConditional
<1>6. CASE EvalUnary
  BY <1>0, <1>1, <1>6, EvalKeeps, YieldKeeps, FailKeeps DEF EvalUnary
<1>7. CASE EvalLogical
  BY <1>0, <1>1, <1>7, EvalKeeps, YieldKeeps, FailKeeps DEF EvalLogical
<1>8. CASE EvalBinary
  BY <1>0, <1>1, <1>8, EvalKeeps, YieldKeeps, FailKeeps DEF EvalBinary
<1>9. CASE EvalCall
  BY <1>0, <1>1, <1>9, EvalKeeps, YieldKeeps, FailKeeps DEF EvalCall
<1>10. CASE EvalTemplate
  BY <1>0, <1>1, <1>10, EvalKeeps, YieldKeeps, FailKeeps DEF EvalTemplate
<1>11. CASE EvalTemplateIf
  BY <1>0, <1>1, <1>11, EvalKeeps, YieldKeeps, FailKeeps DEF EvalTemplateIf
<1>12. CASE EvalTemplateFor
  BY <1>0, <1>1, <1>12, EvalKeeps, YieldKeeps, FailKeeps DEF EvalTemplateFor
<1>13. QED
  BY <1>2, <1>3, <1>4, <1>5, <1>6, <1>7, <1>8, <1>9, <1>10, <1>11, <1>12

\* A call that starts to apply the steps of a reference does so in its own frame.
LEMMA BecomesSteps ==
  ASSUME Inv, Running, Top.op \notin EntityOps \cup {"body"},
         NEW op \in Ops \ (EntityOps \cup {"find"}), NEW x, NEW a,
         Continue([Frame(op, x, Top.scope) EXCEPT !.acc = a])
  PROVE  Inv'
<1> DEFINE f == [Frame(op, x, Top.scope) EXCEPT !.acc = a]
<1>1. IsFrame(f) /\ f.op = op /\ f.key = NoKey /\ f.parent = <<>>
  BY FrameIsFrame, ShortSequences DEF Frame, IsFrame
<1>2. Top.key = NoKey
  BY TopIsFrame DEF Running, IsFrame
<1> HIDE DEF f
<1>3. QED
  BY <1>1, <1>2, ContinueOnKeeps DEF f

LEMMA TopVals ==
  ASSUME Inv, Running
  PROVE  IsFrame(Top) /\ Len(Top.vals) \in Nat /\ Top.i \in Nat
BY TopIsFrame DEF IsFrame, IsSequence, Running

LEMMA IterationKeeps ==
  ASSUME Inv, Running, NEW acc, NextIteration(acc)
  PROVE  Inv'
<1> DEFINE f == [Top EXCEPT !.vals = <<Top.vals[1]>>, !.i = @ + 1, !.acc = acc]
<1>1. IsFrame(f) /\ f.op = Top.op /\ f.key = Top.key /\ f.parent = Top.parent
  BY TopVals, ShortSequences DEF IsFrame
<1> HIDE DEF f
<1>2. QED
  BY <1>1, ContinueOnKeeps DEF f, NextIteration

LEMMA ForKeeps ==
  ASSUME Inv, ForCollection \/ ForClause \/ ForSkip \/ ForAdd \/ ForDone
  PROVE  Inv'
<1>0. {"type", "duplicate"} \subseteq Errors
  BY DEF Errors
<1>1. Running /\ Top.op # "body" /\ Top.op \notin EntityOps
  BY DEF IsExpr, EntityOps, InFor, ForCollection, ForClause, ForSkip, ForAdd, ForDone
<1>2. CASE ForCollection
  BY <1>0, <1>1, <1>2, EvalKeeps, FailKeeps DEF ForCollection
<1>3. CASE ForClause
  BY <1>0, <1>1, <1>3, EvalKeeps, FailKeeps DEF ForClause
<1>4. CASE ForSkip
  BY <1>1, <1>4, IterationKeeps DEF ForSkip
<1>5. CASE ForAdd
  BY <1>0, <1>1, <1>5, IterationKeeps, FailKeeps DEF ForAdd
<1>6. CASE ForDone
  BY <1>1, <1>6, YieldKeeps DEF ForDone
<1>7. QED
  BY <1>2, <1>3, <1>4, <1>5, <1>6

LEMMA PostfixKeeps ==
  ASSUME Inv, EvalPostfix
  PROVE  Inv'
<1>1. Running /\ Top.op \notin EntityOps \cup {"body"}
  BY DEF EvalPostfix, IsExpr, EntityOps
<1>2. "steps" \in Ops \ (EntityOps \cup {"find"})
  BY DEF Ops, EntityOps
<1>3. QED
  BY <1>1, <1>2, EvalKeeps, BecomesSteps DEF EvalPostfix

LEMMA ReferenceKeeps ==
  ASSUME Inv, RefVariable \/ RefAttribute \/ RefBlock \/ RefSteps
  PROVE  Inv'
<1>1. Running /\ Top.op = "expr" /\ Top.op \notin EntityOps \cup {"body"}
  BY DEF RefVariable, RefAttribute, RefBlock, RefSteps, IsExpr, EntityOps
<1>2. "steps" \in Ops \ (EntityOps \cup {"find"})
  BY DEF Ops, EntityOps
<1>3. CASE RefVariable \/ RefSteps
  BY <1>1, <1>2, <1>3, BecomesSteps DEF RefVariable, RefSteps, ApplyTo
<1>4. CASE RefAttribute
  <2>1. PICK i : Enter(AttrKey(i), Frame("attr", doc[i].value, <<>>), stack)
    BY <1>4 DEF RefAttribute
  <2>2. AttrKey(i) # NoKey /\ "attr" \in EntityOps
    BY DEF AttrKey, NoKey, EntityOps
  <2>3. QED
    BY <1>1, <2>1, <2>2, EnterTopKeeps
<1>5. CASE RefBlock
  <2> DEFINE f == [Frame("find", Top.x, <<>>) EXCEPT !.acc = Probes(Top.x)]
  <2>1. IsFrame(f) /\ f.op = "find" /\ f.key = NoKey
    BY FrameIsFrame, ShortSequences DEF Frame, IsFrame, Ops, EntityOps
  <2> HIDE DEF f
  <2>2. "notfound" \in Errors
    BY DEF Errors
  <2>3. Fail("notfound") \/ CallOf(f)
    BY <1>5 DEF RefBlock, f
  <2>4. QED
    BY <1>1, <2>1, <2>2, <2>3, CallOfKeeps, FailKeeps
<1>6. QED
  BY <1>3, <1>4, <1>5

LEMMA FindKeeps ==
  ASSUME Inv, FindBlock \/ FindNothing
  PROVE  Inv'
<1>1. Running /\ Top.op = "find" /\ Top.op \notin EntityOps /\ ~IsEntity(stack, Len(stack))
  BY TopIsFrame DEF FindBlock, FindNothing, In, EntityOps, Running, IsFrame, IsEntity, Top
<1>2. CASE FindNothing
  BY <1>2, FailKeeps DEF FindNothing, Errors
<1>3. CASE FindBlock /\ NextProbe
  <2> DEFINE f == [Top EXCEPT !.acc = @ \ {FirstTried(@)}, !.vals = <<>>]
  <2>1. IsFrame(f) /\ f.op = Top.op /\ f.key = Top.key /\ f.parent = Top.parent
    BY <1>1, TopVals, ShortSequences DEF IsFrame
  <2> HIDE DEF f
  <2>2. QED
    BY <1>1, <1>3, <2>1, ContinueOnKeeps DEF NextProbe, f
<1>4. ASSUME NEW at, NEW block, NEW k, EvalLabel(at, block, k)
      PROVE  Inv'
  BY <1>1, <1>4, LabelKeeps
<1>5. ASSUME NEW i,
             Enter(BlockKey(i), Frame("block", Body(doc[i].body), <<>>),
                   WithCaller([Caller EXCEPT !.i = Len(Top.vals)]))
      PROVE  Inv'
  <2> DEFINE f == [Caller EXCEPT !.i = Len(Top.vals)]
             lower == Append(Front(Front(stack)), f)
  <2>1. Len(stack) \in Nat /\ Len(stack) > 1 /\ IsFrame(Caller) /\ Len(Top.vals) \in Nat
    BY <1>1, TopIsFrame, TopVals DEF Running
  <2>2. IsFrame(f) /\ f.op = Caller.op /\ f.key = Caller.key /\ f.parent = Caller.parent
    BY <2>1 DEF IsFrame
  <2> HIDE DEF f
  <2>3. Good(lower, resolving)
    BY <1>1, <2>1, <2>2, ReturnKeeps DEF Left, Caller, Inv, Running
  <2>4. /\ lower # <<>>
        /\ \A n \in 1 .. Len(stack) - 1 : lower[n].key = stack[n].key
    <3>1. /\ Good(Front(stack), resolving)
          /\ Len(Front(stack)) = Len(stack) - 1
          /\ \A n \in 1 .. Len(stack) - 1 : Front(stack)[n] = stack[n]
      BY <1>1, PopKeeps DEF Left, Inv, Running
    <3> DEFINE u == Front(stack)
    <3> HIDE DEF u
    <3>2. Len(u) \in Nat \ {0} /\ u # <<>> /\ Good(u, resolving)
      BY <2>1, <3>1 DEF u
    <3>3. /\ IsSequence(Front(u))
          /\ Len(Front(u)) = Len(u) - 1
          /\ \A n \in 1 .. Len(u) - 1 : Front(u)[n] = u[n]
      BY <3>2, PopKeeps DEF Good, WellStacked
    <3> DEFINE w == Front(u)
    <3> HIDE DEF w
    <3>4. /\ Len(Append(w, f)) = Len(w) + 1
          /\ IsSequence(Append(w, f))
          /\ \A n \in 1 .. Len(w) : Append(w, f)[n] = w[n]
          /\ Append(w, f)[Len(w) + 1] = f
      BY <3>3, AppendSequence DEF w
    <3>5. Len(w) + 1 = Len(stack) - 1 /\ Len(w) \in Nat
      BY <2>1, <3>1, <3>2, <3>3 DEF u, w
    <3>6. Append(w, f) # <<>>
      BY <3>4, <3>5, <2>1, NonEmpty
    <3>7. ASSUME NEW n \in 1 .. Len(stack) - 1
          PROVE  Append(w, f)[n].key = stack[n].key
      <4>1. CASE n = Len(w) + 1
        BY <2>2, <3>4, <3>5, <4>1 DEF Caller
      <4>2. CASE n \in 1 .. Len(w)
        <5>1. Append(w, f)[n] = w[n]
          BY <3>4, <4>2
        <5>2. n \in 1 .. Len(u) - 1 /\ w[n] = u[n]
          BY <3>3, <4>2 DEF w
        <5>3. u[n] = stack[n]
          BY <3>1 DEF u
        <5>4. QED
          BY <5>1, <5>2, <5>3
      <4>3. QED
        BY <3>5, <4>1, <4>2
    <3>8. QED
      BY <3>6, <3>7 DEF u, w
  <2>5. \A n \in DOMAIN resolving : lower[resolving[n]].key = stack[resolving[n]].key
    <3>1. \A n \in DOMAIN resolving : resolving[n] \in 1 .. Len(stack) - 1
      <4>1. ListsEntities(stack, resolving, Len(stack))
        BY DEF Inv, Good, Linked
      <4>2. \A n \in DOMAIN resolving : resolving[n] \in 1 .. Len(stack) /\ resolving[n] # Len(stack)
        BY <1>1, <2>1, <4>1 DEF ListsEntities
      <4>3. QED
        BY <2>1, <4>2
    <3> HIDE DEF lower
    <3>2. QED
      BY <2>4, <3>1
  <2>6. BlockKey(i) # NoKey /\ "block" \in EntityOps
    BY DEF BlockKey, NoKey, EntityOps
  <2>7. Enter(BlockKey(i), Frame("block", Body(doc[i].body), <<>>), lower)
    BY <1>5 DEF WithCaller, f
  <2> HIDE DEF lower
  <2>8. QED
    BY <1>1, <2>3, <2>4, <2>5, <2>6, <2>7, EnterOnKeeps DEF Inv, Running
<1>6. QED
  BY <1>2, <1>3, <1>4, <1>5 DEF FindBlock

\* The top call returns because of an error.
LEMMA ErrorPops ==
  ASSUME Inv, stack # <<>>, stack' = Front(stack), resolving' = Left(stack, resolving),
         error' \in Errors, stack' = <<>> <=> result' # <<>>
  PROVE  Inv'
BY PopKeeps DEF Inv

LEMMA ResolveKeeps ==
  ASSUME Inv, ResolveAttribute \/ ResolveLabel \/ ResolveBlock
  PROVE  Inv'
<1>1. Running /\ Top.op \in EntityOps
  BY DEF ResolveAttribute, ResolveLabel, ResolveBlock, In, EntityOps
<1>2. CASE ResolveAttribute
  BY <1>1, <1>2, EvalKeeps, LeaveKeeps DEF ResolveAttribute
<1>3. CASE ResolveBlock
  BY <1>1, <1>3, EvalKeeps, LeaveKeeps DEF ResolveBlock
<1>4. CASE ResolveLabel
  <2>1. CASE stack' = Front(stack) /\ resolving' = Top.parent /\ error' = "type"
             /\ UNCHANGED <<inputs, result>>
    <3>1. resolving' = Left(stack, resolving)
      BY <1>1, <2>1, TopIsFrame DEF Left, Top, IsEntity, IsFrame, Running
    <3>2. stack' # <<>>
      <4>1. Len(Front(stack)) = Len(stack) - 1 /\ IsSequence(Front(stack))
        BY <1>1, PopKeeps DEF Inv, Good, WellStacked, Running
      <4>2. Len(stack) > 1 /\ Len(stack) \in Nat
        <5>1. Len(stack) \in Nat \ {0}
          BY <1>1, TopIsFrame DEF Running
        <5>2. Top.op # "body"
          BY <1>1 DEF EntityOps
        <5>3. Len(stack) # 1
          BY <1>1, <5>2, TopIsFrame DEF Running
        <5>4. QED
          BY <5>1, <5>3
      <4>3. QED
        BY <2>1, <4>1, <4>2, NonEmpty
    <3>3. QED
      BY <1>1, <2>1, <3>1, <3>2, ErrorPops DEF Inv, Running, Errors
  <2>2. CASE (\E v : Leave(v)) \/ \E x : Eval(x, <<>>)
    BY <1>1, <2>2, EvalKeeps, LeaveKeeps
  <2>3. QED
    BY <1>4, <2>1, <2>2 DEF ResolveLabel
<1>5. QED
  BY <1>2, <1>3, <1>4

LEMMA SteppedKeeps ==
  ASSUME Inv, Running, NEW v, Stepped(v)
  PROVE  Inv'
<1> DEFINE f == [Top EXCEPT !.acc = <<v>>, !.i = @ + 1, !.vals = <<>>]
<1>1. IsFrame(f) /\ f.op = Top.op /\ f.key = Top.key /\ f.parent = Top.parent
  BY TopVals, ShortSequences DEF IsFrame
<1> HIDE DEF f
<1>2. QED
  BY <1>1, ContinueOnKeeps DEF f, Stepped

LEMMA StepsKeep ==
  ASSUME Inv, ApplyStep \/ StepsDone \/ ApplySplat \/ MapElement
  PROVE  Inv'
<1>0. {"type", "range", "notfound", "crash"} \subseteq Errors
  BY DEF Errors
<1>1. Running /\ Top.op \notin EntityOps \cup {"body"}
  BY DEF ApplyStep, StepsDone, ApplySplat, MapElement, In, EntityOps
<1>2. CASE ApplyStep
  BY <1>0, <1>1, <1>2, SteppedKeeps, EvalKeeps, FailKeeps
     DEF ApplyStep, StepInto, IndexList, IndexObject
<1>3. CASE StepsDone
  BY <1>1, <1>3, YieldKeeps DEF StepsDone
<1>4. CASE ApplySplat
  <2>1. "splat" \in Ops \ (EntityOps \cup {"find"})
    BY DEF Ops, EntityOps
  <2>2. QED
    BY <1>1, <1>4, <2>1, BecomesSteps DEF ApplySplat
<1>5. CASE MapElement
  <2> DEFINE n == Len(Top.vals)
             f == [Frame("mapped", Top.x, Top.scope) EXCEPT !.acc = <<Top.acc[n + 1]>>]
  <2>1. IsFrame(f) /\ f.op = "mapped" /\ f.key = NoKey
    BY FrameIsFrame, ShortSequences DEF Frame, IsFrame, Ops, EntityOps
  <2> HIDE DEF f
  <2>2. CallOf(f) \/ Yield(List(Top.vals))
    BY <1>5 DEF MapElement, f
  <2>3. QED
    BY <1>1, <2>1, <2>2, CallOfKeeps, YieldKeeps
<1>6. QED
  BY <1>2, <1>3, <1>4, <1>5

LEMMA BuiltKeeps ==
  ASSUME Inv, Running, NEW item, Built(item)
  PROVE  Inv'
<1> DEFINE f == [Top EXCEPT !.acc = Append(@, item), !.i = @ + 1, !.vals = <<>>]
<1>1. IsFrame(f) /\ f.op = Top.op /\ f.key = Top.key /\ f.parent = Top.parent
  BY TopVals, ShortSequences DEF IsFrame
<1> HIDE DEF f
<1>2. QED
  BY <1>1, ContinueOnKeeps DEF f, Built

LEMMA BodyKeeps ==
  ASSUME Inv, BuildAttribute \/ BuildBlock \/ BuildDone
  PROVE  Inv'
<1>1. Running /\ Top.op = "body" /\ Top.op \notin EntityOps
  BY DEF BuildAttribute, BuildBlock, BuildDone, InBody, In, EntityOps
<1>2. CASE BuildAttribute
  BY <1>1, <1>2, EvalKeeps, BuiltKeeps DEF BuildAttribute
<1>3. CASE BuildBlock
  <2> DEFINE at == Append(Top.at, Top.i + 1)
             f  == [Frame("body", Body(Item.body), <<>>) EXCEPT !.at = at]
  <2>1. IsFrame(f) /\ f.op = "body" /\ f.key = NoKey
    BY FrameIsFrame, ShortSequences DEF Frame, IsFrame, Ops, EntityOps
  <2> HIDE DEF f
  <2>2. \/ EvalLabel(at, Item, Len(Top.vals) + 1)
        \/ CallOf(f)
        \/ \E item : Built(item)
    BY <1>3 DEF BuildBlock, f
  <2>3. QED
    BY <1>1, <2>1, <2>2, LabelKeeps, CallOfKeeps, BuiltKeeps
<1>4. CASE BuildDone
  BY <1>1, <1>4, YieldKeeps DEF BuildDone
<1>5. QED
  BY <1>2, <1>3, <1>4

LEMMA FinishKeeps ==
  ASSUME Inv, Finish
  PROVE  Inv'
<1>1. Len(stack) = 1 /\ stack # <<>> /\ ~IsEntity(stack, 1)
  <2>1. Len(stack) = 1 /\ stack # <<>> /\ Top.op = "body"
    BY DEF Finish, In, Running
  <2>2. Top.key = NoKey
    BY <2>1, TopIsFrame DEF IsFrame, EntityOps
  <2>3. QED
    BY <2>1, <2>2 DEF IsEntity, Top
<1>2. Front(stack) = <<>>
  <2>1. IsSequence(Front(stack)) /\ Len(Front(stack)) = Len(stack) - 1
    BY <1>1, PopKeeps DEF Inv, Good, WellStacked
  <2>2. QED
    BY <1>1, <2>1, NonEmpty
<1>3. result' # <<>>
  BY DEF Finish
<1>4. resolving' = Left(stack, resolving)
  BY <1>1 DEF Left, Finish
<1>5. QED
  BY <1>1, <1>2, <1>3, <1>4, ErrorPops DEF Finish, Inv

LEMMA UnwindKeeps ==
  ASSUME Inv, Unwind
  PROVE  Inv'
<1>1. resolving' = Left(stack, resolving)
  BY DEF Unwind, Left, Top, IsEntity
<1>2. Front(stack) = <<>> <=> Len(stack) = 1
  <2>1. stack # <<>>
    BY DEF Unwind
  <2>2. IsSequence(Front(stack)) /\ Len(Front(stack)) = Len(stack) - 1
    BY <2>1, PopKeeps DEF Inv, Good, WellStacked
  <2>3. Len(stack) \in Nat
    BY <2>1, TopIsFrame
  <2>4. Front(stack) = <<>> <=> Len(Front(stack)) = 0
    BY <2>2, NonEmpty
  <2>5. QED
    BY <2>2, <2>3, <2>4
<1>3. stack' = <<>> <=> result' # <<>>
  <2>1. [ok |-> FALSE] # <<>>
    OBVIOUS
  <2>2. QED
    BY <1>2, <2>1 DEF Unwind, Inv
<1>4. QED
  BY <1>1, <1>3, ErrorPops DEF Unwind, Inv

LEMMA NextInv == Inv /\ [Next]_vars => Inv'
<1> SUFFICES ASSUME Inv, [Next]_vars
             PROVE  Inv'
  OBVIOUS
<1>1. CASE UNCHANGED vars
  BY <1>1 DEF vars, inputs, Inv
<1>2. CASE Returned
  BY <1>2 DEF Returned, vars, inputs, Inv
<1>3. QED
  BY <1>1, <1>2, ExpressionKeeps, PostfixKeeps, ForKeeps, ReferenceKeeps, FindKeeps, ResolveKeeps,
     StepsKeep, BodyKeeps, FinishKeeps, UnwindKeeps DEF Next

LEMMA Invariance == Spec => []Inv
BY InitInv, NextInv, PTL DEF Spec

\* For any document, bindings, built-ins and operators: the calls in progress are
\* stacked as the C functions call one another, and the host gets a result exactly
\* when all of them have returned.
THEOREM TypeCorrect == Spec => []TypeOK
<1>1. Inv => TypeOK
  BY DEF Inv, Good, TypeOK
<1>2. QED
  BY <1>1, Invariance, PTL

\* The list ctx->resolving holds the nodes of the calls in progress and no other,
\* on every path out of every call, errors included.
THEOREM NodesAreLive == Spec => []NoDanglingNode
<1>1. Inv => NoDanglingNode
  BY DEF Inv, Good, NoDanglingNode
<1>2. QED
  BY <1>1, Invariance, PTL

\* An attribute, a block or a label is never evaluated inside its own evaluation:
\* every cycle of definitions, however long, is cut where it closes.
THEOREM CyclesAreCut == Spec => []NoReentry
<1>1. Inv => NoReentry
  BY DEF Inv, Good, NoReentry
<1>2. QED
  BY <1>1, Invariance, PTL

-----------------------------------------------------------------------------
(* The evaluator implements Resolution, but for its liveness: every step   *)
(* begins or ends the innermost resolution, fails, drops a resolution      *)
(* after a failure, returns the result, or leaves what Resolution sees of  *)
(* the state as it is.                                                     *)

\* What a step of the evaluator does to the list of resolutions and the phase.
Refines == [Abstract!AbsNext]_(Abstract!absVars)

-----------------------------------------------------------------------------
(* Lists of places and the keys found there *)

KeysAt(st, c) == [n \in DOMAIN c |-> st[c[n]].key]

\* There is one way to list the resolutions among the first n calls: two lists
\* agree from their beginnings.
LEMMA ListsAgree ==
  ASSUME NEW st, NEW n \in Nat, NEW a, NEW b, ListsEntities(st, a, n), ListsEntities(st, b, n)
  PROVE  \A i \in DOMAIN a : i \in DOMAIN b /\ a[i] = b[i]
<1>1. /\ Len(a) \in Nat /\ DOMAIN a = 1 .. Len(a) /\ \A i \in 1 .. Len(a) : a[i] \in 1 .. n
      /\ Len(b) \in Nat /\ DOMAIN b = 1 .. Len(b) /\ \A i \in 1 .. Len(b) : b[i] \in 1 .. n
  BY DEF ListsEntities
<1>2. /\ \A i, j \in 1 .. Len(a) : i < j => a[i] < a[j]
      /\ \A i, j \in 1 .. Len(b) : i < j => b[i] < b[j]
      /\ \A i \in 1 .. Len(a) : \E j \in 1 .. Len(b) : b[j] = a[i]
      /\ \A i \in 1 .. Len(b) : \E j \in 1 .. Len(a) : a[j] = b[i]
  BY <1>1 DEF ListsEntities
<1> DEFINE Odd == {i \in 1 .. Len(a) : ~(i \in 1 .. Len(b) /\ a[i] = b[i])}
           m   == Min(Odd)
<1>3. SUFFICES ASSUME Odd # {}
               PROVE  FALSE
  BY <1>1
<1>4. m \in Odd /\ \A j \in Odd : m <= j
  <2>1. Odd \in SUBSET (1 .. Len(a))
    OBVIOUS
  <2> HIDE DEF Odd
  <2>2. QED
    BY <1>1, <1>3, <2>1, LeastPlace
<1> HIDE DEF m
<1>5. m \in 1 .. Len(a)
  BY <1>4
<1>6. \A j \in 1 .. Len(a) : j < m => j \in 1 .. Len(b) /\ a[j] = b[j]
  BY <1>1, <1>4, <1>5
<1>7. PICK j \in 1 .. Len(b) : b[j] = a[m]
  BY <1>2, <1>5
<1>8. ~(j < m)
  <2>1. SUFFICES ASSUME j < m
                 PROVE  FALSE
    OBVIOUS
  <2>2. j \in 1 .. Len(a)
    BY <1>1, <1>5, <2>1
  <2>3. a[j] = b[j] /\ a[j] < a[m]
    BY <1>2, <1>5, <1>6, <2>1, <2>2
  <2>4. a[m] \in Nat
    BY <1>1, <1>5
  <2>5. QED
    BY <1>7, <2>3, <2>4
<1>9. j # m
  BY <1>4, <1>7
<1>10. m \in 1 .. Len(b) /\ b[m] < a[m]
  <2>1. m < j /\ m \in 1 .. Len(b)
    BY <1>1, <1>5, <1>8, <1>9
  <2>2. QED
    BY <1>2, <1>7, <2>1
<1>11. PICK i \in 1 .. Len(a) : a[i] = b[m]
  BY <1>2, <1>10
<1>12. a[i] \in Nat /\ a[m] \in Nat
  BY <1>1, <1>5
<1>13. i < m
  <2>1. m < i => a[m] < a[i]
    BY <1>2, <1>5
  <2>2. a[i] < a[m]
    BY <1>10, <1>11
  <2>3. i # m /\ ~(m < i)
    BY <1>12, <2>1, <2>2
  <2>4. QED
    BY <1>1, <1>5, <2>3
<1>14. i \in 1 .. Len(b) /\ a[i] = b[i]
  BY <1>6, <1>13
<1>15. b[i] < b[m]
  BY <1>2, <1>10, <1>13, <1>14
<1>16. QED
  BY <1>11, <1>12, <1>14, <1>15

LEMMA OneList ==
  ASSUME NEW st, NEW n \in Nat, NEW a, NEW b, ListsEntities(st, a, n), ListsEntities(st, b, n)
  PROVE  a = b
<1>1. DOMAIN a = DOMAIN b /\ \A i \in DOMAIN a : a[i] = b[i]
  <2>1. /\ \A i \in DOMAIN a : i \in DOMAIN b /\ a[i] = b[i]
        /\ \A i \in DOMAIN b : i \in DOMAIN a /\ b[i] = a[i]
    BY ListsAgree
  <2>2. QED
    BY <2>1
<1>2. a \in [DOMAIN a -> 1 .. n] /\ b \in [DOMAIN b -> 1 .. n]
  BY DEF ListsEntities
<1>3. QED
  BY <1>1, <1>2

\* The innermost resolution, when it is the top call, is at the end of the list, and the
\* list it keeps is what is before it.
LEMMA ParentIsFront ==
  ASSUME NEW st, NEW ch, Good(st, ch), st # <<>>, IsEntity(st, Len(st))
  PROVE  /\ Len(ch) \in Nat \ {0}
         /\ st[Len(st)].parent = SubSeq(ch, 1, Len(ch) - 1)
<1> DEFINE k == Len(st)
           N == Len(ch)
           u == SubSeq(ch, 1, N - 1)
<1>1. k \in Nat \ {0} /\ k \in DOMAIN st
  <2>1. IsSequence(st)
    BY DEF Good, WellStacked
  <2>2. QED
    BY <2>1, NonEmpty DEF IsSequence
<1>2. /\ ListsEntities(st, ch, k)
      /\ ListsEntities(st, st[k].parent, k - 1)
  BY <1>1 DEF Good, Linked
<1>3. /\ N \in Nat /\ DOMAIN ch = 1 .. N
      /\ \A a \in 1 .. N : ch[a] \in 1 .. k
      /\ \A a, b \in 1 .. N : a < b => ch[a] < ch[b]
      /\ \A j \in 1 .. k : IsEntity(st, j) <=> \E a \in 1 .. N : ch[a] = j
  BY <1>2 DEF ListsEntities
<1>4. PICK last \in 1 .. N : ch[last] = k
  BY <1>1, <1>3
<1>5. last = N /\ N \in Nat \ {0}
  <2>1. last \in Nat /\ N \in Nat \ {0} /\ N \in 1 .. N
    BY <1>3
  <2>2. last < N => k < ch[N]
    BY <1>3, <1>4, <2>1
  <2>3. ch[N] \in 1 .. k
    BY <1>3, <2>1
  <2>4. QED
    BY <1>1, <2>1, <2>2, <2>3
<1>6. IsSequence(u) /\ Len(u) = N - 1 /\ \A a \in 1 .. N - 1 : u[a] = ch[a]
  <2>1. IsSequence(ch)
    BY <1>2, SeqIsSequence DEF ListsEntities
  <2>2. N - 1 \in Nat /\ N - 1 <= Len(ch)
    BY <1>5
  <2>3. QED
    BY <2>1, <2>2, PrefixSequence
<1>7. DOMAIN u = 1 .. N - 1
  <2> HIDE DEF u
  <2>1. QED
    BY <1>6 DEF IsSequence
<1> HIDE DEF u
<1>8. \A a \in 1 .. N - 1 : u[a] = ch[a] /\ ch[a] \in 1 .. k - 1
  <2>1. ASSUME NEW a \in 1 .. N - 1
        PROVE  ch[a] \in 1 .. k - 1
    <3>1. a \in 1 .. N /\ N \in 1 .. N /\ a < N
      BY <1>5
    <3>2. ch[a] < ch[N] /\ ch[a] \in 1 .. k /\ ch[N] = k
      BY <1>3, <1>4, <1>5, <3>1
    <3>3. QED
      BY <1>1, <3>2
  <2>2. QED
    BY <1>6, <2>1
<1>9. ListsEntities(st, u, k - 1)
  <2>1. u \in Seq(1 .. k - 1)
    <3>1. u \in [1 .. N - 1 -> 1 .. k - 1]
      BY <1>6, <1>8 DEF IsSequence
    <3>2. N - 1 \in Nat
      BY <1>5
    <3>3. QED
      BY <3>1, <3>2
  <2>2. \A a, b \in DOMAIN u : a < b => u[a] < u[b]
    <3>1. 1 .. N - 1 \subseteq 1 .. N
      BY <1>5
    <3>2. QED
      BY <1>3, <1>7, <1>8, <3>1
  <2>3. ASSUME NEW j \in 1 .. k - 1
        PROVE  IsEntity(st, j) <=> \E a \in DOMAIN u : u[a] = j
    <3>1. IsEntity(st, j) <=> \E a \in 1 .. N : ch[a] = j
      BY <1>1, <1>3
    <3>2. \A a \in 1 .. N : ch[a] = j => a \in 1 .. N - 1
      BY <1>1, <1>3, <1>4, <1>5
    <3>3. \A a \in 1 .. N - 1 : a \in 1 .. N
      BY <1>5
    <3>4. QED
      BY <1>7, <1>8, <3>1, <3>2, <3>3
  <2>4. QED
    BY <2>1, <2>2, <2>3 DEF ListsEntities
<1>10. st[k].parent = u
  <2>1. k - 1 \in Nat
    BY <1>1
  <2> HIDE DEF k
  <2>2. QED
    BY <1>2, <1>9, <2>1, OneList
<1>11. QED
  BY <1>5, <1>10 DEF u

LEMMA KeysOfSequence ==
  ASSUME NEW st, NEW k \in Nat, NEW c \in Seq(1 .. k)
  PROVE  /\ IsSequence(KeysAt(st, c))
         /\ Len(KeysAt(st, c)) = Len(c)
         /\ Len(c) \in Nat
         /\ DOMAIN KeysAt(st, c) = 1 .. Len(c)
<1> DEFINE K == {st[j].key : j \in 1 .. k}
           s == KeysAt(st, c)
<1>1. Len(c) \in Nat /\ DOMAIN c = 1 .. Len(c) /\ \A n \in 1 .. Len(c) : c[n] \in 1 .. k
  OBVIOUS
<1>2. s \in [1 .. Len(c) -> K]
  BY <1>1 DEF KeysAt
<1> HIDE DEF s, K
<1>3. s \in Seq(K) /\ Len(s) = Len(c) /\ DOMAIN s = 1 .. Len(c)
  BY <1>1, <1>2
<1>4. QED
  BY <1>1, <1>3, SeqIsSequence DEF s

\* One more place, past those that were listed.
LEMMA KeysAppend ==
  ASSUME NEW st, NEW tt, NEW k \in Nat, NEW c \in Seq(1 .. k),
         \A n \in DOMAIN c : tt[c[n]].key = st[c[n]].key
  PROVE  KeysAt(tt, Append(c, k + 1)) = Append(KeysAt(st, c), tt[k + 1].key)
<1> DEFINE s == KeysAt(st, c)
           d == Append(c, k + 1)
           t == KeysAt(tt, d)
           r == Append(s, tt[k + 1].key)
           N == Len(c)
<1>1. IsSequence(s) /\ Len(s) = N /\ N \in Nat /\ DOMAIN s = 1 .. N /\ DOMAIN c = 1 .. N
  BY KeysOfSequence
<1>2. /\ IsSequence(d) /\ Len(d) = N + 1
      /\ \A n \in 1 .. N : d[n] = c[n]
      /\ d[N + 1] = k + 1
  BY <1>1, SeqIsSequence, AppendSequence
<1>3. \A n \in 1 .. N : s[n] = st[c[n]].key
  BY <1>1 DEF KeysAt
<1> HIDE DEF s, N
<1>4. /\ IsSequence(r) /\ Len(r) = N + 1
      /\ \A n \in 1 .. N : r[n] = s[n]
      /\ r[N + 1] = tt[k + 1].key
  BY <1>1, AppendSequence
<1> HIDE DEF d, r
<1>5. DOMAIN d = 1 .. N + 1 /\ DOMAIN r = 1 .. N + 1
  BY <1>2, <1>4 DEF IsSequence
<1>6. t = [n \in 1 .. N + 1 |-> tt[d[n]].key]
  BY <1>5 DEF KeysAt
<1>7. ASSUME NEW n \in 1 .. N + 1
      PROVE  tt[d[n]].key = r[n]
  <2>1. CASE n = N + 1
    BY <1>2, <1>4, <2>1
  <2>2. CASE n \in 1 .. N
    BY <1>1, <1>2, <1>3, <1>4, <2>2
  <2>3. QED
    BY <1>1, <2>1, <2>2
<1>8. r = [n \in 1 .. N + 1 |-> r[n]]
  BY <1>4 DEF IsSequence
<1>9. t = r
  BY <1>6, <1>7, <1>8
<1>10. QED
  BY <1>9 DEF r, d, s

\* All places but the last.
LEMMA KeysFront ==
  ASSUME NEW st, NEW tt, NEW k \in Nat, NEW c \in Seq(1 .. k), Len(c) > 0,
         \A n \in 1 .. Len(c) - 1 : tt[c[n]].key = st[c[n]].key
  PROVE  KeysAt(tt, SubSeq(c, 1, Len(c) - 1)) = Front(KeysAt(st, c))
<1> DEFINE s == KeysAt(st, c)
           N == Len(c)
           d == SubSeq(c, 1, N - 1)
           t == KeysAt(tt, d)
           r == Front(s)
<1>1. IsSequence(s) /\ Len(s) = N /\ N \in Nat \ {0} /\ DOMAIN s = 1 .. N /\ DOMAIN c = 1 .. N
  BY KeysOfSequence
<1>2. N - 1 \in Nat /\ N - 1 <= N /\ 1 .. N - 1 \subseteq 1 .. N
  BY <1>1
<1>3. \A n \in 1 .. N : s[n] = st[c[n]].key
  BY <1>1 DEF KeysAt
<1> HIDE DEF s
<1>4. IsSequence(d) /\ Len(d) = N - 1 /\ \A n \in 1 .. N - 1 : d[n] = c[n]
  BY <1>2, SeqIsSequence, PrefixSequence
<1>5. IsSequence(r) /\ Len(r) = N - 1 /\ \A n \in 1 .. N - 1 : r[n] = s[n]
  BY <1>1, <1>2, PrefixSequence DEF Front
<1>6. \A n \in 1 .. N - 1 : tt[c[n]].key = st[c[n]].key
  OBVIOUS
<1> HIDE DEF d, r, N
<1>7. DOMAIN d = 1 .. N - 1
  BY <1>4 DEF IsSequence
<1>8. t = [n \in 1 .. N - 1 |-> tt[d[n]].key]
  BY <1>7 DEF KeysAt
<1>9. \A n \in 1 .. N - 1 : tt[d[n]].key = r[n]
  BY <1>2, <1>3, <1>4, <1>5, <1>6
<1>10. r = [n \in 1 .. N - 1 |-> r[n]]
  BY <1>5 DEF IsSequence
<1>11. t = r
  BY <1>8, <1>9, <1>10
<1>12. QED
  BY <1>11 DEF r, d, s, N

-----------------------------------------------------------------------------
(* What Resolution sees of a step *)

LEMMA ChainIs == Chain = KeysAt(stack, resolving) /\ Chain' = KeysAt(stack', resolving')
  BY DEF Chain, KeysAt

\* The places listed are those of calls, and the top call is listed or resolves nothing.
LEMMA Places ==
  ASSUME Inv, stack # <<>>
  PROVE  /\ Len(stack) \in Nat \ {0}
         /\ resolving \in Seq(1 .. Len(stack))
         /\ ~IsEntity(stack, Len(stack)) =>
              \A n \in DOMAIN resolving : resolving[n] \in 1 .. Len(stack) - 1
         /\ IsEntity(stack, Len(stack)) => Top.op \in EntityOps
         /\ Top.op \in EntityOps => IsEntity(stack, Len(stack)) /\ Len(stack) > 1
<1>1. /\ Len(stack) \in Nat \ {0}
      /\ IsFrame(Top)
      /\ Len(stack) = 1 => Top.op = "body"
  BY TopIsFrame
<1>2. ListsEntities(stack, resolving, Len(stack))
  BY DEF Inv, Good, Linked
<1>3. resolving \in Seq(1 .. Len(stack)) /\ \A n \in DOMAIN resolving : resolving[n] \in 1 .. Len(stack)
  BY <1>2 DEF ListsEntities
<1>4. ASSUME ~IsEntity(stack, Len(stack)), NEW n \in DOMAIN resolving
      PROVE  resolving[n] \in 1 .. Len(stack) - 1
  <2>1. resolving[n] # Len(stack)
    BY <1>1, <1>2, <1>4 DEF ListsEntities
  <2>2. QED
    BY <1>1, <1>3, <2>1
<1>5. IsEntity(stack, Len(stack)) <=> Top.op \in EntityOps
  BY <1>1 DEF IsFrame, IsEntity, Top
<1>6. Top.op \in EntityOps => Len(stack) > 1
  <2>1. "body" \notin EntityOps
    BY DEF EntityOps
  <2>2. Top.op \in EntityOps => Len(stack) # 1
    BY <1>1, <2>1
  <2>3. QED
    BY <1>1, <2>2
<1>7. QED
  BY <1>1, <1>3, <1>4, <1>5, <1>6

LEMMA PhaseIs ==
  ASSUME Inv, stack # <<>>
  PROVE  /\ result = <<>>
         /\ Phase = IF error = "" THEN "running" ELSE "failing"
BY DEF Inv, Phase

LEMMA SamePhase ==
  ASSUME UNCHANGED <<error, result>>
  PROVE  Phase' = Phase
BY DEF Phase

\* The same resolutions, of calls that may have other locals.
LEMMA SameIsStutter ==
  ASSUME UNCHANGED <<resolving, error, result>>,
         \A n \in DOMAIN resolving : stack'[resolving[n]].key = stack[resolving[n]].key
  PROVE  Refines
<1>1. Chain' = Chain
  BY DEF Chain
<1>2. Phase' = Phase
  BY SamePhase
<1>3. QED
  BY <1>1, <1>2 DEF Refines, Abstract!absVars

\* The calls below the top one keep their keys, and it leaves the list as it was before it.
LEMMA ReturnsAre ==
  ASSUME Inv, stack # <<>>, resolving' = Left(stack, resolving),
         \A n \in 1 .. Len(stack) - 1 : stack'[n].key = stack[n].key
  PROVE  IF IsEntity(stack, Len(stack)) THEN Chain # <<>> /\ Chain' = Front(Chain)
                                        ELSE Chain' = Chain
<1>1. /\ Len(stack) \in Nat \ {0}
      /\ resolving \in Seq(1 .. Len(stack))
      /\ ~IsEntity(stack, Len(stack)) =>
           \A n \in DOMAIN resolving : resolving[n] \in 1 .. Len(stack) - 1
  BY Places
<1>2. CASE ~IsEntity(stack, Len(stack))
  BY <1>1, <1>2 DEF Left, Chain
<1>3. CASE IsEntity(stack, Len(stack))
  <2>1. /\ Len(resolving) \in Nat \ {0}
        /\ resolving' = SubSeq(resolving, 1, Len(resolving) - 1)
    BY <1>3, ParentIsFront DEF Inv, Left
  <2>2. ASSUME NEW n \in 1 .. Len(resolving) - 1
        PROVE  resolving[n] \in 1 .. Len(stack) - 1
    <3>1. ListsEntities(stack, resolving, Len(stack))
      BY DEF Inv, Good, Linked
    <3>2. n \in 1 .. Len(resolving) /\ Len(resolving) \in 1 .. Len(resolving) /\ n < Len(resolving)
      BY <2>1
    <3>3. DOMAIN resolving = 1 .. Len(resolving)
      BY <1>1
    <3>4. resolving[n] < resolving[Len(resolving)]
      BY <3>1, <3>2, <3>3 DEF ListsEntities
    <3>5. resolving[n] \in 1 .. Len(stack) /\ resolving[Len(resolving)] \in 1 .. Len(stack)
      BY <1>1, <3>2
    <3>6. \A i, j, k \in Nat : i \in 1 .. k /\ j \in 1 .. k /\ i < j => i \in 1 .. k - 1
      OBVIOUS
    <3>7. resolving[n] \in Nat /\ resolving[Len(resolving)] \in Nat /\ Len(stack) \in Nat
      BY <1>1, <3>5
    <3>8. QED
      BY <3>4, <3>5, <3>6, <3>7
  <2>3. \A n \in 1 .. Len(resolving) - 1 : stack'[resolving[n]].key = stack[resolving[n]].key
    BY <2>2
  <2>4. KeysAt(stack', SubSeq(resolving, 1, Len(resolving) - 1)) = Front(KeysAt(stack, resolving))
    <3>1. Len(resolving) > 0
      BY <2>1
    <3>2. Len(stack) \in Nat /\ resolving \in Seq(1 .. Len(stack))
      BY <1>1
    <3>3. QED
      BY ONLY <2>3, <3>1, <3>2, KeysFront, Zenon
  <2>5. Chain' = Front(Chain)
    BY <2>1, <2>4, ChainIs
  <2>6. Chain # <<>>
    <3>1. IsSequence(Chain) /\ Len(Chain) = Len(resolving)
      BY <1>1, KeysOfSequence, ChainIs
    <3>2. QED
      BY <2>1, <3>1, NonEmpty
  <2>7. QED
    BY <1>3, <2>5, <2>6
<1>4. QED
  BY <1>2, <1>3

LEMMA BodyIsAlone ==
  ASSUME Inv, Len(stack) = 1, stack # <<>>
  PROVE  ~IsEntity(stack, Len(stack)) /\ Chain = <<>>
<1>1. Top.op = "body"
  BY TopIsFrame
<1>2. ~IsEntity(stack, Len(stack))
  BY <1>1, Places DEF EntityOps
<1>3. \A n \in DOMAIN resolving : resolving[n] \in 1 .. 0
  BY <1>2, Places
<1>4. resolving \in Seq(1 .. Len(stack)) /\ Len(stack) \in Nat
  BY Places
<1>5. Len(resolving) = 0
  <2>1. Len(resolving) \in Nat /\ DOMAIN resolving = 1 .. Len(resolving)
    BY <1>4
  <2>2. Len(resolving) > 0 => Len(resolving) \in DOMAIN resolving
    BY <2>1
  <2>3. QED
    BY <1>3, <2>1, <2>2
<1>6. IsSequence(Chain) /\ Len(Chain) = 0
  BY <1>4, <1>5, KeysOfSequence, ChainIs
<1>7. QED
  BY <1>2, <1>6, NonEmpty

LEMMA CallOfRefines ==
  ASSUME Inv, Running, NEW f, CallOf(f)
  PROVE  Refines
<1>1. /\ IsSequence(stack)
      /\ stack' = Append(stack, f)
      /\ UNCHANGED <<resolving, error, result>>
  BY DEF CallOf, Inv, Good, WellStacked
<1>2. \A n \in 1 .. Len(stack) : stack'[n] = stack[n]
  BY <1>1, AppendSequence
<1>3. resolving \in Seq(1 .. Len(stack))
  BY Places DEF Running
<1>4. \A n \in DOMAIN resolving : stack'[resolving[n]].key = stack[resolving[n]].key
  BY <1>2, <1>3
<1>5. QED
  BY <1>1, <1>4, SameIsStutter

LEMMA EvalRefines ==
  ASSUME Inv, Running, NEW x, NEW scope, Eval(x, scope)
  PROVE  Refines
BY CallOfRefines DEF Eval

\* The stack but for its top is a sequence of the same calls.
LEMMA Below ==
  ASSUME Inv, stack # <<>>
  PROVE  /\ IsSequence(Front(stack))
         /\ Len(Front(stack)) = Len(stack) - 1
         /\ \A n \in 1 .. Len(stack) - 1 : Front(stack)[n] = stack[n]
BY PopKeeps DEF Inv, Good, WellStacked

\* ... and the caller may have other locals.
LEMMA BelowCaller ==
  ASSUME Inv, Running, Len(stack) > 1, NEW f, f.key = Caller.key
  PROVE  /\ IsSequence(WithCaller(f))
         /\ Len(WithCaller(f)) = Len(stack) - 1
         /\ \A n \in 1 .. Len(stack) - 1 : WithCaller(f)[n].key = stack[n].key
<1> DEFINE u == Front(stack)
           w == Front(u)
           k == Len(stack)
<1>1. k \in Nat /\ k > 1 /\ stack # <<>>
  BY TopIsFrame DEF Running
<1>2. IsSequence(u) /\ Len(u) = k - 1 /\ \A n \in 1 .. k - 1 : u[n] = stack[n]
  BY <1>1, Below
<1> HIDE DEF u, k
<1>3. k - 2 \in Nat /\ k - 2 <= Len(u) /\ Len(u) - 1 = k - 2
  BY <1>1, <1>2
<1>4. IsSequence(w) /\ Len(w) = k - 2 /\ \A n \in 1 .. k - 2 : w[n] = u[n]
  BY <1>2, <1>3, PrefixSequence DEF Front
<1> HIDE DEF w
<1>5. /\ IsSequence(Append(w, f))
      /\ Len(Append(w, f)) = k - 1
      /\ \A n \in 1 .. k - 2 : Append(w, f)[n] = w[n]
      /\ Append(w, f)[k - 1] = f
  <2>1. k - 2 + 1 = k - 1
    BY <1>1
  <2>2. QED
    BY <1>4, <2>1, AppendSequence
<1>6. ASSUME NEW n \in 1 .. k - 1
      PROVE  Append(w, f)[n].key = stack[n].key
  <2>1. CASE n = k - 1
    BY <1>5, <2>1 DEF Caller, k
  <2>2. CASE n \in 1 .. k - 2
    BY <1>2, <1>4, <1>5, <2>2
  <2>3. n = k - 1 \/ n \in 1 .. k - 2
    BY <1>1
  <2>4. QED
    BY <2>1, <2>2, <2>3
<1>7. WithCaller(f) = Append(w, f)
  BY DEF WithCaller, w, u
<1>8. QED
  BY <1>5, <1>6, <1>7 DEF k

LEMMA ContinueRefines ==
  ASSUME Inv, Running, NEW f, f.key = Top.key, Continue(f)
  PROVE  Refines
<1> DEFINE u == Front(stack)
           k == Len(stack)
<1>1. /\ stack' = Append(u, f)
      /\ UNCHANGED <<resolving, error, result>>
  BY DEF Continue
<1>2. IsSequence(u) /\ Len(u) = k - 1 /\ \A n \in 1 .. k - 1 : u[n] = stack[n]
  BY Below DEF Running
<1>3. k \in Nat \ {0} /\ resolving \in Seq(1 .. k)
  BY Places DEF Running
<1> HIDE DEF u
<1>4. /\ \A n \in 1 .. k - 1 : stack'[n] = stack[n]
      /\ stack'[k] = f
  <2>1. k - 1 + 1 = k
    BY <1>3
  <2>2. QED
    BY <1>1, <1>2, <2>1, AppendSequence
<1>5. \A n \in 1 .. k : stack'[n].key = stack[n].key
  <2>1. \A n \in 1 .. k : n \in 1 .. k - 1 \/ n = k
    BY <1>3
  <2>2. QED
    BY <1>4, <2>1 DEF Top
<1>6. \A n \in DOMAIN resolving : stack'[resolving[n]].key = stack[resolving[n]].key
  BY <1>3, <1>5
<1>7. QED
  BY <1>1, <1>6, SameIsStutter

LEMMA FailRefines ==
  ASSUME Inv, Running, NEW kind, kind # "", Fail(kind)
  PROVE  Refines
<1>1. UNCHANGED <<stack, resolving, result>> /\ error' = kind
  BY DEF Fail
<1>2. Chain' = Chain
  BY <1>1 DEF Chain
<1>3. Phase = "running" /\ Phase' = "failing"
  <2>1. result = <<>> /\ Phase = "running"
    BY PhaseIs DEF Running
  <2>2. QED
    BY <1>1, <2>1 DEF Phase
<1>4. Abstract!Break
  BY <1>2, <1>3 DEF Abstract!Break
<1>5. QED
  BY <1>4 DEF Refines, Abstract!AbsNext

\* A value handed to the caller does not change what the caller resolves.
LEMMA PopBelow ==
  ASSUME Inv, Running, Len(stack) > 1, NEW v, stack' = Pop(v)
  PROVE  \A n \in 1 .. Len(stack) - 1 : stack'[n].key = stack[n].key
<1> DEFINE f == [Caller EXCEPT !.vals = Append(@, v)]
<1>1. f.key = Caller.key
  BY TopIsFrame DEF Running, IsFrame
<1>2. stack' = WithCaller(f)
  BY DEF Pop
<1> HIDE DEF f
<1>3. QED
  BY <1>1, <1>2, BelowCaller

LEMMA YieldRefines ==
  ASSUME Inv, Running, Top.op # "body" \/ Len(stack) > 1, Top.op \notin EntityOps,
         NEW v, Yield(v)
  PROVE  Refines
<1>1. Len(stack) > 1 /\ ~IsEntity(stack, Len(stack))
  <2>1. Len(stack) \in Nat \ {0} /\ (Len(stack) = 1 => Top.op = "body")
    BY TopIsFrame DEF Running
  <2>2. ~IsEntity(stack, Len(stack))
    BY Places DEF Running
  <2>3. Len(stack) # 1 => Len(stack) > 1
    <3>1. Len(stack) \in Nat \ {0}
      BY <2>1
    <3>2. QED
      BY ONLY <3>1
  <2>4. QED
    BY <2>1, <2>2, <2>3, Zenon
<1>2. Chain' = Chain
  BY <1>1, PopBelow, ReturnsAre DEF Yield, Left, Running
<1>3. Phase' = Phase
  BY SamePhase DEF Yield
<1>4. QED
  BY <1>2, <1>3 DEF Refines, Abstract!absVars

LEMMA LeaveRefines ==
  ASSUME Inv, Running, Top.op \in EntityOps, NEW v, Leave(v)
  PROVE  Refines
<1>1. Len(stack) > 1 /\ IsEntity(stack, Len(stack))
  BY Places DEF Running
<1>2. Chain # <<>> /\ Chain' = Front(Chain)
  BY <1>1, PopBelow, ReturnsAre DEF Leave, Left, Top, Running
<1>3. Phase' = Phase /\ Phase = "running"
  BY SamePhase, PhaseIs DEF Leave, Running
<1>4. Abstract!End
  BY <1>2, <1>3 DEF Abstract!End, Abstract!Front, Front
<1>5. QED
  BY <1>4 DEF Refines, Abstract!AbsNext

\* A resolution begins, above a stack that resolves what this one does.
LEMMA EnterRefines ==
  ASSUME Inv, Running, NEW lower, IsSequence(lower),
         resolving \in Seq(1 .. Len(lower)),
         \A n \in DOMAIN resolving : lower[resolving[n]].key = stack[resolving[n]].key,
         NEW key, NEW op, NEW x, Enter(key, Frame(op, x, <<>>), lower)
  PROVE  Refines
<1> DEFINE f == [Frame(op, x, <<>>) EXCEPT !.key = key, !.parent = resolving]
           k == Len(lower)
<1>1. CASE IsResolving(key)
  BY <1>1, FailRefines DEF Enter
<1>2. CASE ~IsResolving(key)
  <2>1. /\ stack' = Append(lower, f)
        /\ resolving' = Append(resolving, k + 1)
        /\ UNCHANGED <<error, result>>
    BY <1>2 DEF Enter
  <2>2. f.key = key
    BY DEF Frame
  <2> HIDE DEF f
  <2>3. /\ k \in Nat
        /\ \A n \in 1 .. k : stack'[n] = lower[n]
        /\ stack'[k + 1] = f
    BY <2>1, AppendSequence
  <2>4. \A n \in DOMAIN resolving :
          /\ resolving[n] \in 1 .. k
          /\ stack'[resolving[n]].key = stack[resolving[n]].key
    <3>1. \A n \in DOMAIN resolving : resolving[n] \in 1 .. k
      BY <2>3
    <3> HIDE DEF k
    <3>2. \A n \in DOMAIN resolving : stack'[resolving[n]] = lower[resolving[n]]
      BY <2>3, <3>1
    <3>3. QED
      BY <3>1, <3>2
  <2>5. KeysAt(stack', Append(resolving, k + 1)) = Append(KeysAt(stack, resolving), key)
    <3>1. resolving \in Seq(1 .. k)
      OBVIOUS
    <3>2. KeysAt(stack', Append(resolving, k + 1))
            = Append(KeysAt(stack, resolving), stack'[k + 1].key)
      BY ONLY <2>3, <2>4, <3>1, KeysAppend, Zenon
    <3>3. QED
      BY <2>2, <2>3, <3>2
  <2>6. Chain' = Append(Chain, key)
    BY <2>1, <2>5, ChainIs
  <2>7. key \notin Range(Chain)
    BY <1>2 DEF IsResolving, Range, Chain
  <2>8. Chain' # <<>> /\ Last(Chain') = key
    <3>1. IsSequence(Chain)
      BY <2>3, KeysOfSequence, ChainIs
    <3> DEFINE c == Chain
    <3> HIDE DEF c
    <3>2. IsSequence(Append(c, key)) /\ Len(Append(c, key)) = Len(c) + 1 /\ Append(c, key)[Len(c) + 1] = key
      BY <3>1, AppendSequence DEF c
    <3>3. Append(c, key) # <<>>
      BY <3>1, AppendNonEmpty DEF c
    <3>4. Last(Append(c, key)) = key
      BY <3>2 DEF Last
    <3>5. QED
      BY <2>6, <3>3, <3>4 DEF c
  <2>9. Phase' = Phase /\ Phase = "running"
    BY <2>1, SamePhase, PhaseIs DEF Running
  <2>10. Abstract!Begin(Last(Chain'))
    BY <2>6, <2>7, <2>8, <2>9 DEF Abstract!Begin, Abstract!Last, Last, Abstract!Range, Range
  <2>11. QED
    BY <2>8, <2>10 DEF Refines, Abstract!AbsNext, Abstract!Last, Last
<1>3. QED
  BY <1>1, <1>2

LEMMA EnterTopRefines ==
  ASSUME Inv, Running, NEW key, NEW op, NEW x, Enter(key, Frame(op, x, <<>>), stack)
  PROVE  Refines
<1>1. IsSequence(stack) /\ resolving \in Seq(1 .. Len(stack))
  BY Places DEF Inv, Good, WellStacked, Running
<1>2. QED
  BY <1>1, EnterRefines

LEMMA LabelRefines ==
  ASSUME Inv, Running, NEW at, NEW block, NEW k, EvalLabel(at, block, k)
  PROVE  Refines
<1> DEFINE f == [Top EXCEPT !.vals = Append(@, block.labels[k].value)]
<1>1. CASE Continue(f)
  <2>1. f.key = Top.key
    BY TopIsFrame DEF Running, IsFrame
  <2> HIDE DEF f
  <2>2. QED
    BY <1>1, <2>1, ContinueRefines
<1>2. CASE Enter(LabelKey(at, k), Frame("label", block.labels[k], <<>>), stack)
  BY <1>2, EnterTopRefines
<1>3. QED
  BY <1>1, <1>2 DEF EvalLabel

-----------------------------------------------------------------------------
(* The actions *)

LEMMA InitRefines == Init => Abstract!AbsInit
<1> SUFFICES ASSUME Init
             PROVE  Abstract!AbsInit
  OBVIOUS
<1>1. Inv
  BY InitInv
<1>2. /\ IsSequence(stack)
      /\ Len(stack) = 1
      /\ stack # <<>>
      /\ error = ""
  <2>1. IsSequence(stack) /\ error = ""
    BY <1>1 DEF Init, Inv, Good, WellStacked
  <2>2. Len(stack) = 1
    BY DEF Init
  <2>3. stack # <<>>
    <3>1. stack = <<>> => Len(stack) = 0
      OBVIOUS
    <3>2. QED
      BY <2>2, <3>1
  <2>4. QED
    BY <2>1, <2>2, <2>3
<1>3. Chain = <<>> /\ Phase = "running"
  BY <1>1, <1>2, BodyIsAlone, PhaseIs
<1>4. QED
  BY <1>3 DEF Abstract!AbsInit

\* A call of cl_eval_expr that is not a reference calls, returns or fails.
LEMMA ExpressionRefines ==
  ASSUME Inv,
         \/ EvalLiteral \/ EvalTuple \/ EvalObject \/ EvalConditional
         \/ EvalUnary \/ EvalLogical \/ EvalBinary \/ EvalCall
         \/ EvalTemplate \/ EvalTemplateIf \/ EvalTemplateFor
  PROVE  Refines
<1>1. ASSUME NEW kind, IsExpr(kind)
      PROVE  Running /\ Top.op # "body" /\ Top.op \notin EntityOps
  BY <1>1 DEF IsExpr, EntityOps
<1>2. CASE EvalLiteral
  BY <1>1, <1>2, EvalRefines, YieldRefines, FailRefines DEF EvalLiteral
<1>3. CASE EvalTuple
  BY <1>1, <1>3, EvalRefines, YieldRefines, FailRefines DEF EvalTuple
<1>4. CASE EvalObject
  BY <1>1, <1>4, EvalRefines, YieldRefines, FailRefines DEF EvalObject
<1>5. CASE EvalConditional
  BY <1>1, <1>5, EvalRefines, YieldRefines, FailRefines DEF EvalConditional
<1>6. CASE EvalUnary
  BY <1>1, <1>6, EvalRefines, YieldRefines, FailRefines DEF EvalUnary
<1>7. CASE EvalLogical
  BY <1>1, <1>7, EvalRefines, YieldRefines, FailRefines DEF EvalLogical
<1>8. CASE EvalBinary
  BY <1>1, <1>8, EvalRefines, YieldRefines, FailRefines DEF EvalBinary
<1>9. CASE EvalCall
  BY <1>1, <1>9, EvalRefines, YieldRefines, FailRefines DEF EvalCall
<1>10. CASE EvalTemplate
  BY <1>1, <1>10, EvalRefines, YieldRefines, FailRefines DEF EvalTemplate
<1>11. CASE EvalTemplateIf
  BY <1>1, <1>11, EvalRefines, YieldRefines, FailRefines DEF EvalTemplateIf
<1>12. CASE EvalTemplateFor
  BY <1>1, <1>12, EvalRefines, YieldRefines, FailRefines DEF EvalTemplateFor
<1>13. QED
  BY <1>2, <1>3, <1>4, <1>5, <1>6, <1>7, <1>8, <1>9, <1>10, <1>11, <1>12

\* A call that starts to apply the steps of a reference does so in its own frame.
LEMMA BecomesRefines ==
  ASSUME Inv, Running, Top.op \notin EntityOps, NEW op, NEW x, NEW a,
         Continue([Frame(op, x, Top.scope) EXCEPT !.acc = a])
  PROVE  Refines
<1> DEFINE f == [Frame(op, x, Top.scope) EXCEPT !.acc = a]
<1>1. f.key = NoKey
  BY DEF Frame
<1>2. Top.key = NoKey
  BY TopIsFrame DEF Running, IsFrame
<1> HIDE DEF f
<1>3. QED
  BY <1>1, <1>2, ContinueRefines DEF f

LEMMA IterationRefines ==
  ASSUME Inv, Running, NEW acc, NextIteration(acc)
  PROVE  Refines
<1> DEFINE f == [Top EXCEPT !.vals = <<Top.vals[1]>>, !.i = @ + 1, !.acc = acc]
<1>1. f.key = Top.key
  BY TopIsFrame DEF Running, IsFrame
<1> HIDE DEF f
<1>2. QED
  BY <1>1, ContinueRefines DEF f, NextIteration

LEMMA ForRefines ==
  ASSUME Inv, ForCollection \/ ForClause \/ ForSkip \/ ForAdd \/ ForDone
  PROVE  Refines
<1>1. Running /\ Top.op # "body" /\ Top.op \notin EntityOps
  BY DEF IsExpr, EntityOps, InFor, ForCollection, ForClause, ForSkip, ForAdd, ForDone
<1>2. CASE ForCollection
  BY <1>1, <1>2, EvalRefines, FailRefines DEF ForCollection
<1>3. CASE ForClause
  BY <1>1, <1>3, EvalRefines, FailRefines DEF ForClause
<1>4. CASE ForSkip
  BY <1>1, <1>4, IterationRefines DEF ForSkip
<1>5. CASE ForAdd
  BY <1>1, <1>5, IterationRefines, FailRefines DEF ForAdd
<1>6. CASE ForDone
  BY <1>1, <1>6, YieldRefines DEF ForDone
<1>7. QED
  BY <1>2, <1>3, <1>4, <1>5, <1>6

LEMMA PostfixRefines ==
  ASSUME Inv, EvalPostfix
  PROVE  Refines
<1>1. Running /\ Top.op \notin EntityOps
  BY DEF EvalPostfix, IsExpr, EntityOps
<1>2. QED
  BY <1>1, EvalRefines, BecomesRefines DEF EvalPostfix

LEMMA ReferenceRefines ==
  ASSUME Inv, RefVariable \/ RefAttribute \/ RefBlock \/ RefSteps
  PROVE  Refines
<1>1. Running /\ Top.op \notin EntityOps
  BY DEF RefVariable, RefAttribute, RefBlock, RefSteps, IsExpr, EntityOps
<1>2. CASE RefVariable \/ RefSteps
  BY <1>1, <1>2, BecomesRefines DEF RefVariable, RefSteps, ApplyTo
<1>3. CASE RefAttribute
  BY <1>1, <1>3, EnterTopRefines DEF RefAttribute
<1>4. CASE RefBlock
  BY <1>1, <1>4, CallOfRefines, FailRefines DEF RefBlock
<1>5. QED
  BY <1>2, <1>3, <1>4

LEMMA FindRefines ==
  ASSUME Inv, FindBlock \/ FindNothing
  PROVE  Refines
<1>1. Running /\ Top.op = "find" /\ ~IsEntity(stack, Len(stack)) /\ Len(stack) > 1 /\ IsFrame(Caller)
  <2>1. Running /\ Top.op = "find" /\ stack # <<>>
    BY DEF FindBlock, FindNothing, In, Running
  <2>2. Len(stack) > 1 /\ IsFrame(Caller)
    BY <2>1, TopIsFrame
  <2>3. QED
    BY <2>1, <2>2, Places DEF EntityOps
<1>2. CASE FindNothing
  BY <1>1, <1>2, FailRefines DEF FindNothing
<1>3. CASE FindBlock /\ NextProbe
  <2> DEFINE f == [Top EXCEPT !.acc = @ \ {FirstTried(@)}, !.vals = <<>>]
  <2>1. f.key = Top.key
    BY <1>1, TopIsFrame DEF IsFrame, Running
  <2> HIDE DEF f
  <2>2. QED
    BY <1>1, <1>3, <2>1, ContinueRefines DEF NextProbe, f
<1>4. ASSUME NEW at, NEW block, NEW k, EvalLabel(at, block, k)
      PROVE  Refines
  BY <1>1, <1>4, LabelRefines
<1>5. ASSUME NEW i, NEW n,
             Enter(BlockKey(i), Frame("block", Body(doc[i].body), <<>>), WithCaller([Caller EXCEPT !.i = n]))
      PROVE  Refines
  <2> DEFINE f == [Caller EXCEPT !.i = n]
             lower == WithCaller(f)
  <2>1. f.key = Caller.key
    BY <1>1 DEF IsFrame
  <2> HIDE DEF f
  <2>2. /\ IsSequence(lower)
        /\ Len(lower) = Len(stack) - 1
        /\ \A m \in 1 .. Len(stack) - 1 : lower[m].key = stack[m].key
    BY <1>1, <2>1, BelowCaller
  <2>3. Enter(BlockKey(i), Frame("block", Body(doc[i].body), <<>>), lower)
    BY <1>5 DEF f
  <2> HIDE DEF lower
  <2>4. \A m \in DOMAIN resolving : resolving[m] \in 1 .. Len(lower)
    BY <1>1, <2>2, Places DEF Running
  <2>5. resolving \in Seq(1 .. Len(lower))
    <3>0. resolving \in Seq(1 .. Len(stack))
      BY <1>1, Places DEF Running
    <3>1. Len(resolving) \in Nat /\ resolving \in [1 .. Len(resolving) -> 1 .. Len(stack)]
      BY <3>0
    <3>2. resolving \in [1 .. Len(resolving) -> 1 .. Len(lower)]
      BY <2>4, <3>1
    <3>3. QED
      BY <3>1, <3>2
  <2>6. \A m \in DOMAIN resolving : lower[resolving[m]].key = stack[resolving[m]].key
    BY <2>2, <2>4
  <2>7. QED
    BY <1>1, <2>2, <2>3, <2>5, <2>6, EnterRefines
<1>6. QED
  BY <1>2, <1>3, <1>4, <1>5 DEF FindBlock

LEMMA ResolveRefines ==
  ASSUME Inv, ResolveAttribute \/ ResolveLabel \/ ResolveBlock
  PROVE  Refines
<1>1. Running /\ Top.op \in EntityOps
  BY DEF ResolveAttribute, ResolveLabel, ResolveBlock, In, EntityOps
<1>2. CASE ResolveAttribute
  BY <1>1, <1>2, EvalRefines, LeaveRefines DEF ResolveAttribute
<1>3. CASE ResolveBlock
  BY <1>1, <1>3, EvalRefines, LeaveRefines DEF ResolveBlock
<1>4. CASE /\ stack' = Front(stack) /\ resolving' = Top.parent /\ error' = "type"
           /\ UNCHANGED <<inputs, result>>
  <2>1. IsEntity(stack, Len(stack))
    BY <1>1, Places DEF Running
  <2>2. resolving' = Left(stack, resolving)
    BY <1>4, <2>1 DEF Left, Top
  <2>3. Chain # <<>> /\ Chain' = Front(Chain)
    BY <1>1, <1>4, <2>1, <2>2, Below, ReturnsAre DEF Running
  <2>4. Phase = "running" /\ Phase' = "failing"
    <3>1. result = <<>> /\ Phase = "running"
      BY <1>1, PhaseIs DEF Running
    <3>2. QED
      BY <1>4, <3>1 DEF Phase
  <2>5. Abstract!Break
    BY <2>3, <2>4 DEF Abstract!Break, Abstract!Front, Front
  <2>6. QED
    BY <2>5 DEF Refines, Abstract!AbsNext
<1>5. CASE ResolveLabel
  <2>1. CASE (\E v : Leave(v)) \/ \E x : Eval(x, <<>>)
    BY <1>1, <2>1, EvalRefines, LeaveRefines
  <2>2. QED
    BY <1>4, <1>5, <2>1 DEF ResolveLabel
<1>6. QED
  BY <1>2, <1>3, <1>5

LEMMA SteppedRefines ==
  ASSUME Inv, Running, NEW v, Stepped(v)
  PROVE  Refines
<1> DEFINE f == [Top EXCEPT !.acc = <<v>>, !.i = @ + 1, !.vals = <<>>]
<1>1. f.key = Top.key
  BY TopIsFrame DEF Running, IsFrame
<1> HIDE DEF f
<1>2. QED
  BY <1>1, ContinueRefines DEF f, Stepped

LEMMA StepsRefine ==
  ASSUME Inv, ApplyStep \/ StepsDone \/ ApplySplat \/ MapElement
  PROVE  Refines
<1>1. Running /\ Top.op # "body" /\ Top.op \notin EntityOps
  BY DEF ApplyStep, StepsDone, ApplySplat, MapElement, In, EntityOps
<1>2. CASE ApplyStep
  BY <1>1, <1>2, SteppedRefines, EvalRefines, FailRefines
     DEF ApplyStep, StepInto, IndexList, IndexObject
<1>3. CASE StepsDone
  BY <1>1, <1>3, YieldRefines DEF StepsDone
<1>4. CASE ApplySplat
  BY <1>1, <1>4, BecomesRefines DEF ApplySplat
<1>5. CASE MapElement
  BY <1>1, <1>5, CallOfRefines, YieldRefines DEF MapElement
<1>6. QED
  BY <1>2, <1>3, <1>4, <1>5

LEMMA BuiltRefines ==
  ASSUME Inv, Running, NEW item, Built(item)
  PROVE  Refines
<1> DEFINE f == [Top EXCEPT !.acc = Append(@, item), !.i = @ + 1, !.vals = <<>>]
<1>1. f.key = Top.key
  BY TopIsFrame DEF Running, IsFrame
<1> HIDE DEF f
<1>2. QED
  BY <1>1, ContinueRefines DEF f, Built

LEMMA BodyRefines ==
  ASSUME Inv, BuildAttribute \/ BuildBlock \/ BuildDone
  PROVE  Refines
<1>1. Running /\ Top.op \notin EntityOps
  BY DEF BuildAttribute, BuildBlock, BuildDone, InBody, In, EntityOps
<1>2. CASE BuildAttribute
  BY <1>1, <1>2, EvalRefines, BuiltRefines DEF BuildAttribute
<1>3. CASE BuildBlock
  BY <1>1, <1>3, LabelRefines, CallOfRefines, BuiltRefines DEF BuildBlock
<1>4. CASE BuildDone
  BY <1>1, <1>4, YieldRefines DEF BuildDone
<1>5. QED
  BY <1>2, <1>3, <1>4

LEMMA FinishRefines ==
  ASSUME Inv, Finish
  PROVE  Refines
<1>1. Len(stack) = 1 /\ stack # <<>> /\ Running /\ stack' = Front(stack)
  <2>1. Len(stack) = 1 /\ stack # <<>> /\ Running /\ stack' = <<>>
    BY DEF Finish, In, Running
  <2>2. IsSequence(Front(stack)) /\ Len(Front(stack)) = 0
    BY <2>1, Below
  <2>3. QED
    BY <2>1, <2>2, NonEmpty
<1>2. Chain = <<>> /\ ~IsEntity(stack, Len(stack))
  BY <1>1, BodyIsAlone
<1>3. Chain' = Chain
  BY <1>1, <1>2, Below, ReturnsAre DEF Finish, Left
<1>4. Phase = "running" /\ Phase' = "done"
  <2>1. result' # <<>> /\ result'.ok
    BY DEF Finish
  <2>2. Phase = "running"
    BY <1>1, PhaseIs DEF Running
  <2>3. QED
    BY <2>1, <2>2 DEF Phase
<1>5. Abstract!Complete
  BY <1>2, <1>3, <1>4 DEF Abstract!Complete
<1>6. QED
  BY <1>5 DEF Refines, Abstract!AbsNext

LEMMA UnwindRefines ==
  ASSUME Inv, Unwind
  PROVE  Refines
<1>1. stack # <<>> /\ stack' = Front(stack) /\ resolving' = Left(stack, resolving)
      /\ error # "" /\ error' = error
  BY DEF Unwind, Left, Top, IsEntity
<1>2. IF IsEntity(stack, Len(stack)) THEN Chain # <<>> /\ Chain' = Front(Chain)
                                     ELSE Chain' = Chain
  BY <1>1, Below, ReturnsAre
<1>3. result = <<>> /\ Phase = "failing"
  BY <1>1, PhaseIs
<1>4. CASE Len(stack) = 1
  <2>1. Chain = <<>> /\ Chain' = Chain
    BY <1>1, <1>2, <1>4, BodyIsAlone
  <2>2. Phase' = "failed"
    <3>1. result' = [ok |-> FALSE]
      BY <1>4 DEF Unwind
    <3>2. result' # <<>> /\ ~result'.ok
      BY <3>1
    <3>3. QED
      BY <3>2 DEF Phase
  <2>3. Abstract!Complete
    BY <1>3, <2>1, <2>2 DEF Abstract!Complete
  <2>4. QED
    BY <2>3 DEF Refines, Abstract!AbsNext
<1>5. CASE Len(stack) # 1
  <2>1. Phase' = Phase
    BY <1>1, <1>5, SamePhase DEF Unwind
  <2>2. CASE IsEntity(stack, Len(stack))
    <3>1. Abstract!Drop
      BY <1>2, <1>3, <2>1, <2>2 DEF Abstract!Drop, Abstract!Front, Front
    <3>2. QED
      BY <3>1 DEF Refines, Abstract!AbsNext
  <2>3. CASE ~IsEntity(stack, Len(stack))
    BY <1>2, <2>1, <2>3 DEF Refines, Abstract!absVars
  <2>4. QED
    BY <2>2, <2>3
<1>6. QED
  BY <1>4, <1>5

LEMMA NextRefines ==
  ASSUME Inv, [Next]_vars
  PROVE  Refines
<1>1. CASE UNCHANGED vars
  <2>1. Chain' = Chain /\ Phase' = Phase
    BY <1>1, SamePhase DEF vars, inputs, Chain
  <2>2. QED
    BY <2>1 DEF Refines, Abstract!absVars
<1>2. CASE Returned
  BY <1>1, <1>2 DEF Returned
<1>3. QED
  BY <1>1, <1>2, ExpressionRefines, PostfixRefines, ForRefines, ReferenceRefines, FindRefines,
     ResolveRefines, StepsRefine, BodyRefines, FinishRefines, UnwindRefines DEF Next

\* The evaluator implements the safety part of Resolution, for any documents,
\* bindings and operators: cl_eval.c resolves definitions strictly one inside the
\* other, never one inside itself; after the first error it only drops them, innermost
\* first; and it returns, with a result or without one, when none is left.
THEOREM ResolvesInOrder == Spec => Abstract!AbsInit /\ [][Abstract!AbsNext]_(Abstract!absVars)
<1>1. Inv /\ [Next]_vars => [Abstract!AbsNext]_(Abstract!absVars)
  BY NextRefines DEF Refines
<1>2. QED
  BY <1>1, InitRefines, Invariance, PTL DEF Spec
=============================================================================
