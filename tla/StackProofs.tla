----------------------------- MODULE StackProofs -----------------------------
(***************************************************************************)
(* What the calls in progress have to do with the document: what the host  *)
(* binds is never evaluated, and the number of resolutions in progress is  *)
(* bounded by the document.                                                *)
(***************************************************************************)
EXTENDS EvaluatorProofs, FiniteSetTheorems

Bound       == DOMAIN bindings.vals
BlockPlaces == {i \in DOMAIN doc : IsBlock(doc[i])}

\* What can be in resolution because of the i-th item of the root body.
KeysOf(i) ==
  IF IsBlock(doc[i]) THEN {BlockKey(i)} \cup {LabelKey(<<i>>, k) : k \in 1 .. Len(doc[i].labels)}
                     ELSE {AttrKey(i)}
TopKeys   == UNION {KeysOf(i) : i \in DOMAIN doc}

\* What a call works on is in the document.
Fits(f) ==
  /\ f.op = "attr" => doc[f.key.at[1]].name \notin Bound
  /\ f.op \in {"attr", "block"} => f.key \in TopKeys
  /\ f.op = "find" => f.acc \subseteq BlockPlaces

\* The calls only the walk of a body makes: for a nested body, and for a label of a
\* block in one.
IsNested(f) == f.op = "label" /\ f.key \notin TopKeys
FromBody(f) == f.op = "body" \/ IsNested(f)

\* The walk f of the root body is at an attribute that is bound.
AtBound(f) == f.i < Len(f.x.items) /\ IsAttr(f.x.items[f.i + 1]) /\ f.x.items[f.i + 1].name \in Bound

(* OverriddenNotEvaluated is not inductive alone: that the root body calls   *)
(* nothing at such an attribute needs its path to be the empty one, which    *)
(* is what the override is decided by.  DepthBounded needs to know why       *)
(* there are so few resolutions: what is resolved is in the document, and    *)
(* the walks of bodies, which alone resolve labels of nested blocks, are all *)
(* below everything else.                                                    *)
Stacked(st) ==
  /\ \A n \in DOMAIN st : Fits(st[n])
  /\ \A m, n \in DOMAIN st : m < n /\ FromBody(st[n]) => st[m].op = "body"
  /\ st # <<>> => st[1].at = <<>> /\ (AtBound(st[1]) => Len(st) = 1)

OInv == Inv /\ doc \in Docs /\ bindings \in Bindings /\ Stacked(stack)

\* What each step has to show: the invariant of the next state, but for what Inv says.
Noted == UNCHANGED inputs /\ Stacked(stack')

\* A call that goes on with other locals.
SameCall(f, g) ==
  /\ f.op = g.op /\ f.key = g.key /\ f.at = g.at
  /\ f.op = "find" => f.acc \subseteq g.acc

-----------------------------------------------------------------------------
(* Names and places *)

LEMMA NotBound ==
  ASSUME bindings \in Bindings, NEW name
  PROVE  BoundTo(name) = NoValue <=> name \notin Bound
BY BindingsAssumption DEF BoundTo, Bound

LEMMA AttributeFound ==
  ASSUME doc \in Docs, NEW name, AttrAt(doc, name) > 0
  PROVE  /\ doc[AttrAt(doc, name)].name = name
         /\ AttrKey(AttrAt(doc, name)) \in TopKeys
<1> DEFINE I == {i \in 1 .. Len(doc) : IsAttr(doc[i]) /\ doc[i].name = name}
<1>1. Len(doc) \in Nat /\ DOMAIN doc = 1 .. Len(doc)
  BY DocsAssumption DEF IsSequence
<1>2. AttrAt(doc, name) = IF I # {} THEN Min(I) ELSE 0
  BY DEF AttrAt, SelectInSeq
<1>3. I # {}
  BY <1>2
<1>4. I \in SUBSET (1 .. Len(doc))
  OBVIOUS
<1>5. Min(I) \in I
  <2> HIDE DEF I
  <2>1. QED
    BY <1>1, <1>3, <1>4, LeastPlace
<1>6. AttrAt(doc, name) \in I
  BY <1>2, <1>3, <1>5
<1>7. ASSUME NEW i \in I
      PROVE  AttrKey(i) \in TopKeys
  <2>1. AttrKey(i) \in KeysOf(i)
    BY DEF KeysOf, IsAttr, IsBlock
  <2>2. i \in DOMAIN doc
    BY <1>1
  <2>3. QED
    BY <2>1, <2>2 DEF TopKeys
<1>8. QED
  BY <1>6, <1>7

LEMMA KeysOfBlock ==
  ASSUME NEW i \in BlockPlaces
  PROVE  /\ BlockKey(i) \in TopKeys
         /\ \A k \in 1 .. Len(doc[i].labels) : LabelKey(<<i>>, k) \in TopKeys
<1>1. KeysOf(i) = {BlockKey(i)} \cup {LabelKey(<<i>>, k) : k \in 1 .. Len(doc[i].labels)}
  BY DEF KeysOf, BlockPlaces
<1>2. i \in DOMAIN doc
  BY DEF BlockPlaces
<1>3. KeysOf(i) \subseteq TopKeys
  BY <1>2 DEF TopKeys
<1>4. QED
  BY <1>1, <1>3

LEMMA BlockHasLabels ==
  ASSUME doc \in Docs, NEW i \in BlockPlaces
  PROVE  Len(doc[i].labels) \in Nat /\ i \in 1 .. Len(doc) /\ Len(doc) \in Nat
BY DocsAssumption DEF BlockPlaces, IsSequence

\* Of any blocks there is one that is tried before the others, so the search makes progress.
LEMMA FirstIsOneOf ==
  ASSUME doc \in Docs, NEW left, left \subseteq BlockPlaces, left # {}
  PROVE  FirstTried(left) \in left
<1> DEFINE IsFirst(s, i) == i \in s /\ \A j \in s \ {i} : TriedBefore(i, j)
           S == {n \in Nat : \A s \in SUBSET BlockPlaces :
                               s # {} /\ s \subseteq 1 .. n => \E i \in s : IsFirst(s, i)}
<1>1. 0 \in S
  <2>1. 1 .. 0 = {}
    OBVIOUS
  <2>2. QED
    BY <2>1, Zenon
<1>2. ASSUME NEW n \in Nat, n \in S
      PROVE  n + 1 \in S
  <2>1. ASSUME NEW s \in SUBSET BlockPlaces, s # {}, s \subseteq 1 .. n + 1
        PROVE  \E i \in s : IsFirst(s, i)
    <3> DEFINE t == s \ {n + 1}
    <3>1. t \in SUBSET BlockPlaces /\ t \subseteq 1 .. n
      BY <2>1
    <3>2. CASE t = {}
      <4>1. s = {n + 1}
        BY <2>1, <3>2
      <4>2. QED
        BY <4>1
    <3>3. CASE t # {}
      <4>1. PICK i \in t : IsFirst(t, i)
        BY <1>2, <3>1, <3>3
      <4>2. CASE n + 1 \notin s
        BY <4>1, <4>2
      <4>3. CASE n + 1 \in s
        <5>1. i \in s /\ i < n + 1 /\ i \in Nat
          BY <3>1, <4>1
        <5>2. \A j \in s : Len(doc[j].labels) \in Nat /\ j \in Nat
          BY BlockHasLabels
        <5>3. CASE Len(doc[n + 1].labels) > Len(doc[i].labels)
          <6>1. ASSUME NEW j \in s \ {n + 1}
                PROVE  TriedBefore(n + 1, j)
            <7>1. j = i \/ TriedBefore(i, j)
              BY <4>1
            <7>2. Len(doc[i].labels) >= Len(doc[j].labels)
              BY <5>1, <5>2, <7>1 DEF TriedBefore
            <7>3. /\ Len(doc[i].labels) \in Nat
                  /\ Len(doc[j].labels) \in Nat
                  /\ Len(doc[n + 1].labels) \in Nat
              BY <4>3, <5>1, <5>2
            <7>4. Len(doc[n + 1].labels) > Len(doc[j].labels)
              BY <5>3, <7>2, <7>3
            <7>5. QED
              BY <7>4 DEF TriedBefore
          <6>2. QED
            BY <4>3, <6>1
        <5>4. CASE ~(Len(doc[n + 1].labels) > Len(doc[i].labels))
          <6>1. TriedBefore(i, n + 1)
            BY <4>3, <5>1, <5>2, <5>4 DEF TriedBefore
          <6>2. QED
            BY <4>1, <5>1, <6>1
        <5>5. QED
          BY <5>3, <5>4
      <4>4. QED
        BY <4>2, <4>3
    <3>4. QED
      BY <3>2, <3>3
  <2> HIDE DEF IsFirst
  <2>2. QED
    BY <2>1
<1>3. Len(doc) \in S
  <2>1. Nat \subseteq S
    <3> HIDE DEF S
    <3>1. QED
      BY <1>1, <1>2, AllNaturals
  <2>2. Len(doc) \in Nat
    BY DocsAssumption DEF IsSequence
  <2>3. QED
    BY <2>1, <2>2
<1>4. left \subseteq 1 .. Len(doc)
  BY BlockHasLabels
<1>5. \E i \in left : \A j \in left \ {i} : TriedBefore(i, j)
  BY <1>3, <1>4
<1>6. QED
  BY <1>5 DEF FirstTried

-----------------------------------------------------------------------------
(* The things a step can do to the stack *)

LEMMA Pushed ==
  ASSUME NEW st, IsSequence(st), st # <<>>, Stacked(st), ~AtBound(st[1]), NEW f, Fits(f),
         FromBody(f) => st[Len(st)].op = "body"
  PROVE  Stacked(Append(st, f))
<1> DEFINE k == Len(st)
           t == Append(st, f)
<1>1. /\ k \in Nat /\ IsSequence(t) /\ Len(t) = k + 1
      /\ \A n \in 1 .. k : t[n] = st[n]
      /\ t[k + 1] = f
  BY AppendSequence
<1>2. k \in Nat \ {0} /\ DOMAIN st = 1 .. k
  BY <1>1, NonEmpty DEF IsSequence
<1> HIDE DEF t
<1>3. DOMAIN t = 1 .. k + 1
  BY <1>1 DEF IsSequence
<1>4. \A n \in 1 .. k + 1 : n \in 1 .. k \/ n = k + 1
  BY <1>2
<1>5. ASSUME NEW n \in DOMAIN t
      PROVE  Fits(t[n])
  BY <1>1, <1>2, <1>3, <1>4 DEF Stacked
<1>6. ASSUME NEW m \in DOMAIN t, NEW n \in DOMAIN t, m < n, FromBody(t[n])
      PROVE  t[m].op = "body"
  <2>1. m \in 1 .. k /\ t[m] = st[m]
    BY <1>1, <1>2, <1>3, <1>6
  <2>2. CASE n \in 1 .. k
    <3>1. FromBody(st[n])
      BY <1>1, <1>6, <2>2
    <3>2. QED
      BY <1>2, <1>6, <2>1, <2>2, <3>1 DEF Stacked
  <2>3. CASE n = k + 1
    <3>1. FromBody(st[k])
      BY <1>1, <1>6, <2>3 DEF FromBody
    <3>2. m = k \/ m < k
      BY <1>2, <2>1
    <3>3. QED
      BY <1>2, <1>6, <1>1, <2>1, <2>3, <3>1, <3>2 DEF Stacked
  <2>4. QED
    BY <1>3, <1>4, <2>2, <2>3
<1>7. t[1] = st[1]
  BY <1>1, <1>2
<1>8. st[1].at = <<>>
  BY DEF Stacked
<1>9. Stacked(t)
  BY <1>5, <1>6, <1>7, <1>8 DEF Stacked
<1>10. QED
  BY <1>9 DEF t

LEMMA Popped ==
  ASSUME NEW st, IsSequence(st), st # <<>>, Stacked(st)
  PROVE  /\ IsSequence(Front(st))
         /\ Len(st) \in Nat \ {0}
         /\ Len(Front(st)) = Len(st) - 1
         /\ \A n \in 1 .. Len(st) - 1 : Front(st)[n] = st[n]
         /\ Stacked(Front(st))
<1> DEFINE k == Len(st)
           u == Front(st)
<1>1. k \in Nat \ {0} /\ DOMAIN st = 1 .. k
  BY NonEmpty DEF IsSequence
<1>2. IsSequence(u) /\ Len(u) = k - 1 /\ \A n \in 1 .. k - 1 : u[n] = st[n]
  BY <1>1, PrefixSequence DEF Front
<1> HIDE DEF u
<1>3. DOMAIN u = 1 .. k - 1
  BY <1>2 DEF IsSequence
<1>4. \A n \in DOMAIN u : n \in DOMAIN st /\ u[n] = st[n]
  BY <1>1, <1>2, <1>3
<1>5. ASSUME u # <<>>
      PROVE  u[1].at = <<>> /\ (AtBound(u[1]) => Len(u) = 1)
  <2>1. Len(u) # 0
    BY <1>2, <1>5, NonEmpty
  <2>2. k > 1
    BY <1>1, <1>2, <2>1
  <2>3. u[1] = st[1]
    BY <1>2, <1>1, <2>2
  <2>4. st[1].at = <<>> /\ ~AtBound(st[1])
    <3>1. Len(st) # 1
      BY <1>1, <2>2
    <3>2. QED
      BY <3>1, Zenon DEF Stacked
  <2>5. QED
    BY <2>3, <2>4
<1>6. ASSUME NEW n \in DOMAIN u
      PROVE  Fits(u[n])
  BY <1>4 DEF Stacked
<1>7. ASSUME NEW m \in DOMAIN u, NEW n \in DOMAIN u, m < n, FromBody(u[n])
      PROVE  u[m].op = "body"
  BY <1>4, <1>7 DEF Stacked
<1>8. Stacked(u)
  BY <1>5, <1>6, <1>7 DEF Stacked
<1>9. QED
  BY <1>1, <1>2, <1>8 DEF u

LEMMA Replaced ==
  ASSUME NEW st, IsSequence(st), st # <<>>, Stacked(st), NEW f,
         \/ SameCall(f, st[Len(st)])
         \/ Len(st) > 1 /\ f.op \notin {"attr", "label", "block", "find", "body"}
  PROVE  /\ IsSequence(Append(Front(st), f))
         /\ Len(Append(Front(st), f)) = Len(st)
         /\ Stacked(Append(Front(st), f))
         /\ Len(st) > 1 => Append(Front(st), f)[1] = st[1]
<1> DEFINE k == Len(st)
           u == Front(st)
           t == Append(u, f)
<1>1. /\ IsSequence(u)
      /\ k \in Nat \ {0}
      /\ Len(u) = k - 1
      /\ \A n \in 1 .. k - 1 : u[n] = st[n]
      /\ Stacked(u)
  BY Popped
<1> HIDE DEF u
<1>2. /\ IsSequence(t) /\ Len(t) = k
      /\ \A n \in 1 .. k - 1 : t[n] = u[n]
      /\ t[k] = f
  <2>1. k - 1 + 1 = k
    BY <1>1
  <2>2. QED
    BY <1>1, <2>1, AppendSequence
<1> HIDE DEF t
<1>3. DOMAIN t = 1 .. k /\ DOMAIN u = 1 .. k - 1 /\ DOMAIN st = 1 .. k
  BY <1>1, <1>2 DEF IsSequence
<1>4. \A n \in 1 .. k : n = k \/ (n \in 1 .. k - 1 /\ t[n] = st[n])
  <2>1. \A n \in 1 .. k : n = k \/ n \in 1 .. k - 1
    BY <1>1
  <2>2. \A n \in 1 .. k - 1 : t[n] = st[n]
    BY <1>1, <1>2
  <2>3. QED
    BY <2>1, <2>2
<1>5. Fits(f) /\ (FromBody(f) => FromBody(st[k]))
  <2>1. k \in DOMAIN st
    BY <1>1, <1>3
  <2>2. Fits(st[k])
    BY <2>1 DEF Stacked
  <2>3. CASE SameCall(f, st[k])
    BY <2>2, <2>3 DEF SameCall, Fits, FromBody, IsNested
  <2>4. CASE f.op \notin {"attr", "label", "block", "find", "body"}
    BY <2>4 DEF Fits, FromBody, IsNested
  <2>5. QED
    BY <2>3, <2>4
<1>6. ASSUME NEW n \in DOMAIN t
      PROVE  Fits(t[n])
  <2>1. CASE n = k
    BY <1>2, <1>5, <2>1
  <2>2. CASE n \in 1 .. k - 1 /\ t[n] = st[n]
    BY <1>3, <2>2 DEF Stacked
  <2>3. QED
    BY <1>3, <1>4, <2>1, <2>2
<1>7. ASSUME NEW m \in DOMAIN t, NEW n \in DOMAIN t, m < n, FromBody(t[n])
      PROVE  t[m].op = "body"
  <2>1. m \in 1 .. k - 1 /\ t[m] = st[m]
    BY <1>1, <1>3, <1>4, <1>7
  <2>2. FromBody(st[n])
    BY <1>2, <1>3, <1>4, <1>5, <1>7
  <2>3. QED
    BY <1>3, <1>7, <2>1, <2>2 DEF Stacked
<1>8. st[1].at = <<>>
  BY DEF Stacked
<1>9. CASE k = 1
  <2>1. t[1] = f /\ SameCall(f, st[1])
    BY <1>2, <1>9
  <2>2. t[1].at = <<>>
    BY <1>8, <2>1 DEF SameCall
  <2>3. Stacked(t)
    BY <1>2, <1>6, <1>7, <1>9, <2>2 DEF Stacked
  <2>4. QED
    BY <1>2, <1>9, <2>3 DEF t, u
<1>10. CASE k > 1
  <2>1. t[1] = st[1]
    BY <1>1, <1>2, <1>10
  <2>2. ~AtBound(st[1])
    <3>1. Len(st) # 1
      BY <1>1, <1>10
    <3>2. QED
      BY <3>1, Zenon DEF Stacked
  <2>3. Stacked(t)
    BY <1>6, <1>7, <1>8, <2>1, <2>2 DEF Stacked
  <2>4. QED
    BY <1>2, <2>1, <2>3 DEF t, u
<1>11. k = 1 \/ k > 1
  BY <1>1
<1>12. QED
  BY <1>9, <1>10, <1>11

\* The calls below the top are not made at an attribute that is bound.
Calling == Len(stack) > 1 \/ ~AtBound(Top)

LEMMA StackFacts ==
  ASSUME OInv, Running
  PROVE  /\ IsSequence(stack)
         /\ stack # <<>>
         /\ Len(stack) \in Nat \ {0}
         /\ Stacked(stack)
         /\ IsFrame(Top)
         /\ Fits(Top)
         /\ Len(stack) = 1 => Top.op = "body" /\ Top.at = <<>> /\ Top = stack[1]
         /\ Calling => ~AtBound(stack[1])
         /\ Top.op # "body" => Len(stack) > 1
<1>1. /\ IsSequence(stack)
      /\ stack # <<>>
      /\ Len(stack) \in Nat \ {0}
      /\ Stacked(stack)
      /\ IsFrame(Top)
      /\ Len(stack) = 1 => Top.op = "body"
  BY TopIsFrame DEF Running, OInv, Inv, Good, WellStacked
<1>2. Len(stack) = 1 => Top = stack[1]
  BY DEF Top
<1>3. stack[1].at = <<>> /\ (AtBound(stack[1]) => Len(stack) = 1)
  BY <1>1 DEF Stacked
<1>4. Len(stack) \in DOMAIN stack
  BY <1>1 DEF IsSequence
<1>5. Fits(Top)
  BY <1>1, <1>4 DEF Stacked, Top
<1>6. Calling => ~AtBound(stack[1])
  <2>1. Len(stack) \in Nat
    BY <1>1
  <2>2. \A n \in Nat : n > 1 => n # 1
    OBVIOUS
  <2>3. Len(stack) > 1 => Len(stack) # 1
    BY <2>1, <2>2, Zenon
  <2>4. QED
    BY <1>2, <1>3, <2>3, Zenon DEF Calling
<1>7. Top.op # "body" => Len(stack) > 1
  <2>1. \A n \in Nat \ {0} : n # 1 => n > 1
    OBVIOUS
  <2>2. QED
    BY <1>1, <2>1
<1>8. QED
  BY <1>1, <1>2, <1>3, <1>5, <1>6, <1>7

LEMMA CallOfNoted ==
  ASSUME OInv, Running, Calling, NEW f, f.op \notin EntityOps,
         Fits(f), f.op = "body" => Top.op = "body", CallOf(f)
  PROVE  Noted
<1>1. FromBody(f) => stack[Len(stack)].op = "body"
  BY DEF FromBody, IsNested, EntityOps, Top
<1>2. Stacked(Append(stack, f))
  BY <1>1, StackFacts, Pushed
<1>3. QED
  BY <1>2 DEF Noted, CallOf

LEMMA EvalNoted ==
  ASSUME OInv, Running, Calling, NEW x, NEW scope, Eval(x, scope)
  PROVE  Noted
<1>1. Frame("expr", x, scope).op \notin EntityOps \cup {"body"} /\ Fits(Frame("expr", x, scope))
  BY DEF Frame, EntityOps, Fits
<1>2. QED
  BY <1>1, CallOfNoted DEF Eval

\* Other locals in the top call.
LEMMA ContinueNoted ==
  ASSUME OInv, Running, NEW f, Continue(f), SameCall(f, Top)
  PROVE  Noted
<1>1. Stacked(Append(Front(stack), f))
  BY StackFacts, Replaced DEF Top
<1>2. QED
  BY <1>1 DEF Noted, Continue

\* The stack below the top call, whose caller may have other locals.
LEMMA CallerReplaced ==
  ASSUME OInv, Running, Len(stack) > 1, NEW f, SameCall(f, Caller)
  PROVE  /\ IsSequence(WithCaller(f))
         /\ Len(WithCaller(f)) = Len(stack) - 1
         /\ Stacked(WithCaller(f))
         /\ Len(stack) > 2 => WithCaller(f)[1] = stack[1]
<1> DEFINE u == Front(stack)
           k == Len(stack)
<1>1. /\ IsSequence(u)
      /\ k \in Nat \ {0}
      /\ Len(u) = k - 1
      /\ \A n \in 1 .. k - 1 : u[n] = stack[n]
      /\ Stacked(u)
  BY StackFacts, Popped
<1> HIDE DEF u
<1>2. k - 1 \in 1 .. k - 1 /\ 1 \in 1 .. k - 1 /\ k - 1 # 0
  BY <1>1
<1>3. u # <<>> /\ DOMAIN u = 1 .. k - 1
  BY <1>1, <1>2, NonEmpty DEF IsSequence
<1>4. u[k - 1] = Caller
  BY <1>1, <1>2 DEF Caller
<1>5. SameCall(f, u[Len(u)])
  BY <1>1, <1>4
<1>6. /\ IsSequence(Append(Front(u), f))
      /\ Len(Append(Front(u), f)) = k - 1
      /\ Stacked(Append(Front(u), f))
      /\ k - 1 > 1 => Append(Front(u), f)[1] = u[1]
  BY <1>1, <1>3, <1>5, Replaced
<1>7. u[1] = stack[1] /\ (k > 2 => k - 1 > 1)
  BY <1>1, <1>2
<1>8. QED
  BY <1>6, <1>7 DEF WithCaller, u

LEMMA PopNoted ==
  ASSUME OInv, Running, Len(stack) > 1, NEW v, stack' = Pop(v), UNCHANGED inputs
  PROVE  Noted
<1> DEFINE f == [Caller EXCEPT !.vals = Append(@, v)]
<1>1. SameCall(f, Caller)
  BY TopIsFrame DEF OInv, Running, IsFrame, SameCall
<1>2. stack' = WithCaller(f)
  BY DEF Pop
<1> HIDE DEF f
<1>3. QED
  BY <1>1, <1>2, CallerReplaced DEF Noted

LEMMA YieldNoted ==
  ASSUME OInv, Running, Top.op # "body" \/ Len(stack) > 1, NEW v, Yield(v)
  PROVE  Noted
BY StackFacts, PopNoted DEF Yield

LEMMA LeaveNoted ==
  ASSUME OInv, Running, Top.op # "body", NEW v, Leave(v)
  PROVE  Noted
BY StackFacts, PopNoted DEF Leave

LEMMA FailNoted ==
  ASSUME OInv, NEW kind, Fail(kind)
  PROVE  Noted
BY DEF OInv, Fail, Noted

\* A failure or the end: the top call is gone.
LEMMA DropNoted ==
  ASSUME OInv, stack # <<>>, stack' = Front(stack), UNCHANGED inputs
  PROVE  Noted
BY Popped DEF OInv, Inv, Good, WellStacked, Noted

LEMMA EnterNoted ==
  ASSUME OInv, Running, NEW lower, IsSequence(lower), lower # <<>>, Stacked(lower), ~AtBound(lower[1]),
         NEW key, NEW op \in EntityOps, op = "attr" => doc[key.at[1]].name \notin Bound,
         key \in TopKeys \/ (op = "label" /\ lower[Len(lower)].op = "body"),
         NEW x, Enter(key, Frame(op, x, <<>>), lower)
  PROVE  Noted
<1> DEFINE f == [Frame(op, x, <<>>) EXCEPT !.key = key, !.parent = resolving]
<1>1. CASE Fail("circular")
  BY <1>1, FailNoted
<1>2. CASE stack' = Append(lower, f) /\ UNCHANGED inputs
  <2>1. f.op = op /\ f.key = key
    BY DEF Frame
  <2> HIDE DEF f
  <2>2. Fits(f) /\ f.op # "body" /\ (FromBody(f) => lower[Len(lower)].op = "body")
    BY <2>1 DEF Fits, FromBody, IsNested, EntityOps
  <2>3. Stacked(Append(lower, f))
    BY <2>2, Pushed
  <2>4. QED
    BY <1>2, <2>3 DEF Noted
<1>3. QED
  BY <1>1, <1>2 DEF Enter

LEMMA LabelNoted ==
  ASSUME OInv, Running, Calling, NEW at, NEW block, NEW k, EvalLabel(at, block, k),
         LabelKey(at, k) \in TopKeys \/ Top.op = "body"
  PROVE  Noted
<1> DEFINE f == [Top EXCEPT !.vals = Append(@, block.labels[k].value)]
<1>1. CASE Continue(f)
  <2>1. SameCall(f, Top)
    BY StackFacts DEF IsFrame, SameCall
  <2> HIDE DEF f
  <2>2. QED
    BY <1>1, <2>1, ContinueNoted
<1>2. CASE Enter(LabelKey(at, k), Frame("label", block.labels[k], <<>>), stack)
  <2>1. "label" \in EntityOps /\ (LabelKey(at, k) \in TopKeys \/ stack[Len(stack)].op = "body")
    BY DEF EntityOps, Top
  <2>2. QED
    BY <1>2, <2>1, StackFacts, EnterNoted
<1>3. QED
  BY <1>1, <1>2 DEF EvalLabel

-----------------------------------------------------------------------------
(* The actions *)

\* A call of cl_eval_expr that is not a reference calls, returns or fails.
LEMMA ExpressionNoted ==
  ASSUME OInv,
         \/ EvalLiteral \/ EvalTuple \/ EvalObject \/ EvalConditional
         \/ EvalUnary \/ EvalLogical \/ EvalBinary \/ EvalCall
         \/ EvalTemplate \/ EvalTemplateIf \/ EvalTemplateFor
  PROVE  Noted
<1>1. ASSUME NEW kind, IsExpr(kind)
      PROVE  Running /\ Top.op # "body" /\ Calling
  BY <1>1, StackFacts DEF IsExpr, Calling
<1>2. CASE EvalLiteral
  BY <1>1, <1>2, EvalNoted, YieldNoted, FailNoted DEF EvalLiteral
<1>3. CASE EvalTuple
  BY <1>1, <1>3, EvalNoted, YieldNoted, FailNoted DEF EvalTuple
<1>4. CASE EvalObject
  BY <1>1, <1>4, EvalNoted, YieldNoted, FailNoted DEF EvalObject
<1>5. CASE EvalConditional
  BY <1>1, <1>5, EvalNoted, YieldNoted, FailNoted DEF EvalConditional
<1>6. CASE EvalUnary
  BY <1>1, <1>6, EvalNoted, YieldNoted, FailNoted DEF EvalUnary
<1>7. CASE EvalLogical
  BY <1>1, <1>7, EvalNoted, YieldNoted, FailNoted DEF EvalLogical
<1>8. CASE EvalBinary
  BY <1>1, <1>8, EvalNoted, YieldNoted, FailNoted DEF EvalBinary
<1>9. CASE EvalCall
  BY <1>1, <1>9, EvalNoted, YieldNoted, FailNoted DEF EvalCall
<1>10. CASE EvalTemplate
  BY <1>1, <1>10, EvalNoted, YieldNoted, FailNoted DEF EvalTemplate
<1>11. CASE EvalTemplateIf
  BY <1>1, <1>11, EvalNoted, YieldNoted, FailNoted DEF EvalTemplateIf
<1>12. CASE EvalTemplateFor
  BY <1>1, <1>12, EvalNoted, YieldNoted, FailNoted DEF EvalTemplateFor
<1>13. QED
  BY <1>2, <1>3, <1>4, <1>5, <1>6, <1>7, <1>8, <1>9, <1>10, <1>11, <1>12

\* A call that starts to apply the steps of a reference does so in its own frame.
LEMMA BecomesNoted ==
  ASSUME OInv, Running, Top.op # "body", NEW op \in {"steps", "splat"}, NEW x, NEW a,
         Continue([Frame(op, x, Top.scope) EXCEPT !.acc = a])
  PROVE  Noted
<1> DEFINE f == [Frame(op, x, Top.scope) EXCEPT !.acc = a]
<1>1. f.op = op
  BY DEF Frame
<1> HIDE DEF f
<1>2. Len(stack) > 1
  BY StackFacts
<1>3. Stacked(Append(Front(stack), f))
  BY <1>1, <1>2, StackFacts, Replaced
<1>4. QED
  BY <1>3 DEF Noted, Continue, f

LEMMA IterationNoted ==
  ASSUME OInv, Running, Top.op # "find", NEW acc, NextIteration(acc)
  PROVE  Noted
<1> DEFINE f == [Top EXCEPT !.vals = <<Top.vals[1]>>, !.i = @ + 1, !.acc = acc]
<1>1. SameCall(f, Top)
  BY StackFacts DEF IsFrame, SameCall
<1> HIDE DEF f
<1>2. QED
  BY <1>1, ContinueNoted DEF f, NextIteration

LEMMA ForNoted ==
  ASSUME OInv, ForCollection \/ ForClause \/ ForSkip \/ ForAdd \/ ForDone
  PROVE  Noted
<1>1. Running /\ Top.op \notin {"body", "find"}
  BY DEF IsExpr, InFor, ForCollection, ForClause, ForSkip, ForAdd, ForDone
<1>2. Calling
  BY <1>1, StackFacts DEF Calling
<1>3. CASE ForCollection
  BY <1>1, <1>2, <1>3, EvalNoted, FailNoted DEF ForCollection
<1>4. CASE ForClause
  BY <1>1, <1>2, <1>4, EvalNoted, FailNoted DEF ForClause
<1>5. CASE ForSkip
  BY <1>1, <1>5, IterationNoted DEF ForSkip
<1>6. CASE ForAdd
  BY <1>1, <1>6, IterationNoted, FailNoted DEF ForAdd
<1>7. CASE ForDone
  BY <1>1, <1>7, YieldNoted DEF ForDone
<1>8. QED
  BY <1>3, <1>4, <1>5, <1>6, <1>7

LEMMA PostfixNoted ==
  ASSUME OInv, EvalPostfix
  PROVE  Noted
<1>1. Running /\ Top.op # "body"
  BY DEF EvalPostfix, IsExpr
<1>2. Calling
  BY <1>1, StackFacts DEF Calling
<1>3. QED
  BY <1>1, <1>2, EvalNoted, BecomesNoted DEF EvalPostfix

\* A reference goes to an attribute only when nothing is bound to the name.
LEMMA ReferenceNoted ==
  ASSUME OInv, RefVariable \/ RefAttribute \/ RefBlock \/ RefSteps
  PROVE  Noted
<1>1. Running /\ Top.op = "expr"
  BY DEF RefVariable, RefAttribute, RefBlock, RefSteps, IsExpr
<1>2. Calling
  BY <1>1, StackFacts DEF Calling
<1>3. CASE RefVariable \/ RefSteps
  BY <1>1, <1>3, BecomesNoted DEF RefVariable, RefSteps, ApplyTo
<1>4. CASE RefAttribute
  <2> DEFINE i == AttrAt(doc, Top.x.root)
  <2>1. /\ i > 0
        /\ Enter(AttrKey(i), Frame("attr", doc[i].value, <<>>), stack)
        /\ BoundTo(Top.x.root) = NoValue
    BY <1>4 DEF RefAttribute, IsOuter
  <2>2. doc[i].name = Top.x.root /\ Top.x.root \notin Bound /\ AttrKey(i) \in TopKeys
    BY <2>1, AttributeFound, NotBound DEF OInv
  <2> HIDE DEF i
  <2>3. AttrKey(i).at[1] = i
    BY DEF AttrKey
  <2>4. "attr" \in EntityOps
    BY DEF EntityOps
  <2>5. QED
    BY <1>1, <1>2, <2>1, <2>2, <2>3, <2>4, StackFacts, EnterNoted
<1>5. CASE RefBlock
  <2> DEFINE f == [Frame("find", Top.x, <<>>) EXCEPT !.acc = Probes(Top.x)]
  <2>1. f.op \notin EntityOps \cup {"body"} /\ Fits(f)
    BY DEF Frame, EntityOps, Fits, Probes, BlocksOf, BlockPlaces
  <2> HIDE DEF f
  <2>2. Fail("notfound") \/ CallOf(f)
    BY <1>5 DEF RefBlock, f
  <2>3. QED
    BY <1>1, <1>2, <2>1, <2>2, CallOfNoted, FailNoted
<1>6. QED
  BY <1>3, <1>4, <1>5

LEMMA FindNoted ==
  ASSUME OInv, FindBlock \/ FindNothing
  PROVE  Noted
<1>1. Running /\ Top.op = "find" /\ Top.acc \subseteq BlockPlaces
  <2>1. Running /\ Top.op = "find"
    BY DEF FindBlock, FindNothing, In, Running
  <2>2. QED
    BY <2>1, StackFacts DEF Fits
<1>2. Len(stack) > 1 /\ Caller.op = "expr" /\ IsFrame(Caller) /\ Calling
  BY <1>1, TopIsFrame DEF OInv, Running, Calling
<1>3. CASE FindNothing
  BY <1>3, FailNoted DEF FindNothing
<1>4. CASE FindBlock /\ NextProbe
  <2> DEFINE f == [Top EXCEPT !.acc = @ \ {FirstTried(@)}, !.vals = <<>>]
  <2>1. SameCall(f, Top)
    BY <1>1, StackFacts DEF IsFrame, SameCall
  <2> HIDE DEF f
  <2>2. QED
    BY <1>1, <1>4, <2>1, ContinueNoted DEF NextProbe, f
<1>5. ASSUME NEW i \in BlockPlaces, NEW n \in Nat, n < Len(doc[i].labels),
             EvalLabel(<<i>>, doc[i], n + 1)
      PROVE  Noted
  <2>1. n + 1 \in 1 .. Len(doc[i].labels)
    BY <1>5, BlockHasLabels DEF OInv
  <2>2. LabelKey(<<i>>, n + 1) \in TopKeys
    BY <2>1, KeysOfBlock
  <2>3. QED
    BY <1>1, <1>2, <1>5, <2>2, LabelNoted
<1>6. ASSUME NEW i \in BlockPlaces, NEW n,
             Enter(BlockKey(i), Frame("block", Body(doc[i].body), <<>>), WithCaller([Caller EXCEPT !.i = n]))
      PROVE  Noted
  <2> DEFINE f == [Caller EXCEPT !.i = n]
             lower == WithCaller(f)
  <2>1. SameCall(f, Caller)
    BY <1>2 DEF IsFrame, SameCall
  <2> HIDE DEF f
  <2>2. Len(stack) > 2
    <3>1. Len(stack) = 2 => Caller = stack[1]
      BY DEF Caller
    <3>2. stack[1].op = "body" /\ Len(stack) \in Nat
      <4>1. WellStacked(stack) /\ 1 \in DOMAIN stack /\ Len(stack) \in Nat
        BY <1>1, StackFacts DEF OInv, Inv, Good, IsSequence
      <4>2. QED
        BY <4>1 DEF WellStacked
    <3>3. Len(stack) # 2
      BY <1>2, <3>1, <3>2
    <3>4. Len(stack) \in Nat /\ Len(stack) > 1
      BY <1>2, <3>2
    <3>5. \A k \in Nat : k > 1 /\ k # 2 => k > 2
      OBVIOUS
    <3>6. QED
      BY <3>3, <3>4, <3>5, Zenon
  <2>3. /\ IsSequence(lower)
        /\ Len(lower) = Len(stack) - 1
        /\ Stacked(lower)
        /\ lower[1] = stack[1]
    BY <1>1, <1>2, <2>1, <2>2, CallerReplaced
  <2>4. Enter(BlockKey(i), Frame("block", Body(doc[i].body), <<>>), lower)
    BY <1>6 DEF f
  <2> HIDE DEF lower
  <2>5. ~AtBound(lower[1]) /\ lower # <<>>
    <3>1. ~AtBound(lower[1])
      BY <1>1, <1>2, <2>3, StackFacts
    <3>2. Len(lower) # 0
      BY <2>2, <2>3, <1>1, StackFacts
    <3>3. QED
      BY <2>3, <3>1, <3>2, NonEmpty
  <2>6. BlockKey(i) \in TopKeys /\ "block" \in EntityOps
    BY KeysOfBlock DEF EntityOps
  <2>7. QED
    BY <1>1, <2>3, <2>4, <2>5, <2>6, EnterNoted
<1>7. CASE FindBlock /\ ~NextProbe
  <2> DEFINE i == FirstTried(Top.acc)
             n == Len(Top.vals)
  <2>1. i \in BlockPlaces
    BY <1>1, <1>7, FirstIsOneOf DEF FindBlock, OInv
  <2>2. n \in Nat
    BY <1>1, StackFacts DEF IsFrame, IsSequence
  <2>3. \/ n < Len(doc[i].labels) /\ EvalLabel(<<i>>, doc[i], n + 1)
        \/ Enter(BlockKey(i), Frame("block", Body(doc[i].body), <<>>), WithCaller([Caller EXCEPT !.i = n]))
    BY <1>7 DEF FindBlock
  <2> HIDE DEF i, n
  <2>4. QED
    BY <1>5, <1>6, <2>1, <2>2, <2>3
<1>8. QED
  BY <1>3, <1>4, <1>7

LEMMA ResolveNoted ==
  ASSUME OInv, ResolveAttribute \/ ResolveLabel \/ ResolveBlock
  PROVE  Noted
<1>1. Running /\ Top.op # "body"
  BY DEF ResolveAttribute, ResolveLabel, ResolveBlock, In
<1>2. Calling
  BY <1>1, StackFacts DEF Calling
<1>3. CASE ResolveAttribute
  BY <1>1, <1>2, <1>3, EvalNoted, LeaveNoted DEF ResolveAttribute
<1>4. CASE ResolveBlock
  BY <1>1, <1>2, <1>4, EvalNoted, LeaveNoted DEF ResolveBlock
<1>5. CASE ResolveLabel
  <2>1. CASE stack' = Front(stack) /\ UNCHANGED inputs
    BY <1>1, <2>1, DropNoted DEF Running
  <2>2. CASE (\E v : Leave(v)) \/ \E x : Eval(x, <<>>)
    BY <1>1, <1>2, <2>2, EvalNoted, LeaveNoted
  <2>3. QED
    BY <1>5, <2>1, <2>2 DEF ResolveLabel
<1>6. QED
  BY <1>3, <1>4, <1>5

LEMMA SteppedNoted ==
  ASSUME OInv, Running, Top.op # "find", NEW v, Stepped(v)
  PROVE  Noted
<1> DEFINE f == [Top EXCEPT !.acc = <<v>>, !.i = @ + 1, !.vals = <<>>]
<1>1. SameCall(f, Top)
  BY StackFacts DEF IsFrame, SameCall
<1> HIDE DEF f
<1>2. QED
  BY <1>1, ContinueNoted DEF f, Stepped

LEMMA StepsNoted ==
  ASSUME OInv, ApplyStep \/ StepsDone \/ ApplySplat \/ MapElement
  PROVE  Noted
<1>1. Running /\ Top.op # "body" /\ (ApplyStep => Top.op # "find")
  BY DEF ApplyStep, StepsDone, ApplySplat, MapElement, In
<1>2. Calling
  BY <1>1, StackFacts DEF Calling
<1>3. CASE ApplyStep
  BY <1>1, <1>2, <1>3, SteppedNoted, EvalNoted, FailNoted
     DEF ApplyStep, StepInto, IndexList, IndexObject
<1>4. CASE StepsDone
  BY <1>1, <1>4, YieldNoted DEF StepsDone
<1>5. CASE ApplySplat
  BY <1>1, <1>5, BecomesNoted DEF ApplySplat
<1>6. CASE MapElement
  <2> DEFINE f == [Frame("mapped", Top.x, Top.scope) EXCEPT !.acc = <<Top.acc[Len(Top.vals) + 1]>>]
  <2>1. f.op \notin EntityOps \cup {"body"} /\ Fits(f)
    BY DEF Frame, EntityOps, Fits
  <2> HIDE DEF f
  <2>2. CallOf(f) \/ Yield(List(Top.vals))
    BY <1>6 DEF MapElement, f
  <2>3. QED
    BY <1>1, <1>2, <2>1, <2>2, CallOfNoted, YieldNoted
<1>7. QED
  BY <1>3, <1>4, <1>5, <1>6

LEMMA BuiltNoted ==
  ASSUME OInv, Running, Top.op # "find", NEW item, Built(item)
  PROVE  Noted
<1> DEFINE f == [Top EXCEPT !.acc = Append(@, item), !.i = @ + 1, !.vals = <<>>]
<1>1. SameCall(f, Top)
  BY StackFacts DEF IsFrame, SameCall
<1> HIDE DEF f
<1>2. QED
  BY <1>1, ContinueNoted DEF f, Built

\* The root body evaluates an attribute only when nothing is bound to its name; at a
\* block, it calls whatever is bound.
LEMMA BodyNoted ==
  ASSUME OInv, BuildAttribute \/ BuildBlock \/ BuildDone
  PROVE  Noted
<1>1. Running /\ Top.op = "body"
  BY DEF BuildAttribute, BuildBlock, BuildDone, InBody, In
<1>2. CASE BuildAttribute
  <2>1. CASE \E item : Built(item)
    BY <1>1, <2>1, BuiltNoted
  <2>2. CASE ~IsOverridden(Top.at, Item.name) /\ Eval(Item.value, <<>>)
    <3>1. CASE Len(stack) > 1
      BY <1>1, <2>2, <3>1, EvalNoted DEF Calling
    <3>2. CASE Len(stack) = 1
      <4>1. Top.at = <<>>
        BY <1>1, <3>2, StackFacts
      <4>2. Item.name \notin Bound
        BY <2>2, <4>1, NotBound DEF IsOverridden, OInv
      <4>3. Calling
        BY <4>2 DEF Calling, AtBound, Item
      <4>4. QED
        BY <1>1, <2>2, <4>3, EvalNoted
    <3>3. Len(stack) > 1 \/ Len(stack) = 1
      <4>1. Len(stack) \in Nat \ {0}
        BY <1>1, StackFacts
      <4>2. \A n \in Nat \ {0} : n > 1 \/ n = 1
        OBVIOUS
      <4>3. QED
        BY <4>1, <4>2, Zenon
    <3>4. QED
      BY <3>1, <3>2, <3>3
  <2>3. QED
    BY <1>2, <2>1, <2>2 DEF BuildAttribute
<1>3. CASE BuildBlock
  <2> DEFINE at == Append(Top.at, Top.i + 1)
             f  == [Frame("body", Body(Item.body), <<>>) EXCEPT !.at = at]
  <2>1. f.op \notin EntityOps /\ Fits(f)
    BY DEF Frame, Fits, EntityOps
  <2> HIDE DEF f
  <2>2. \/ EvalLabel(at, Item, Len(Top.vals) + 1)
        \/ CallOf(f)
        \/ \E item : Built(item)
    BY <1>3 DEF BuildBlock, f
  <2>3. Calling
    BY <1>3 DEF BuildBlock, Calling, AtBound, Item, IsAttr, IsBlock
  <2>4. QED
    BY <1>1, <2>1, <2>2, <2>3, LabelNoted, CallOfNoted, BuiltNoted
<1>4. CASE BuildDone
  BY <1>1, <1>4, YieldNoted DEF BuildDone
<1>5. QED
  BY <1>2, <1>3, <1>4

LEMMA FinishNoted ==
  ASSUME OInv, Finish
  PROVE  Noted
BY DEF Finish, Noted, Stacked

LEMMA UnwindNoted ==
  ASSUME OInv, Unwind
  PROVE  Noted
BY DropNoted DEF Unwind

LEMMA InitOInv == Init => OInv
<1> SUFFICES ASSUME Init
             PROVE  OInv
  OBVIOUS
<1> DEFINE f == Frame("body", Body(doc), <<>>)
<1>1. f.op = "body" /\ f.at = <<>>
  BY DEF Frame
<1> HIDE DEF f
<1>2. DOMAIN <<f>> = {1} /\ Len(<<f>>) = 1 /\ <<f>>[1] = f
  OBVIOUS
<1>3. Stacked(<<f>>)
  BY <1>1, <1>2 DEF Stacked, Fits
<1>4. QED
  BY <1>3, InitInv DEF Init, OInv, f

LEMMA NextOInv == OInv /\ [Next]_vars => OInv'
<1> SUFFICES ASSUME OInv, [Next]_vars
             PROVE  OInv'
  OBVIOUS
<1>1. Inv'
  BY NextInv DEF OInv
<1>2. Noted
  <2>1. CASE UNCHANGED vars \/ Returned
    <3>1. UNCHANGED <<inputs, stack>>
      BY <2>1 DEF Returned, vars, inputs
    <3>2. QED
      BY <3>1 DEF OInv, Noted
  <2>2. QED
    BY <2>1, ExpressionNoted, PostfixNoted, ForNoted, ReferenceNoted, FindNoted, ResolveNoted,
       StepsNoted, BodyNoted, FinishNoted, UnwindNoted DEF Next
<1>3. doc' = doc /\ bindings' = bindings
  BY <1>2 DEF Noted, inputs
<1>4. Stacked(stack)'
  BY <1>2, <1>3 DEF Noted, Stacked, Fits, FromBody, IsNested, TopKeys, KeysOf, BlockPlaces, AtBound, Bound
<1>5. QED
  BY <1>1, <1>3, <1>4 DEF OInv

\* An attribute of the root body whose name the host has bound is evaluated neither
\* for the result nor for a reference, for any documents and bindings.
THEOREM OverridesHold == Spec => []OverriddenNotEvaluated
<1>1. OInv => OverriddenNotEvaluated
  BY DEF OInv, Stacked, Fits, AtBound, Bound, OverriddenNotEvaluated
<1>2. QED
  BY <1>1, InitOInv, NextOInv, PTL DEF Spec

-----------------------------------------------------------------------------
(* How many things can be in resolution *)

Weights == [i \in DOMAIN doc |-> Resolvable(doc[i])]

LEMMA KeysOfItem ==
  ASSUME doc \in Docs, NEW i \in DOMAIN doc
  PROVE  /\ Resolvable(doc[i]) \in Nat
         /\ IsFiniteSet(KeysOf(i))
         /\ Cardinality(KeysOf(i)) <= Resolvable(doc[i])
<1>1. CASE ~IsBlock(doc[i])
  <2>1. KeysOf(i) = {AttrKey(i)} /\ Resolvable(doc[i]) = 1
    BY <1>1 DEF KeysOf, Resolvable
  <2>2. IsFiniteSet({AttrKey(i)}) /\ Cardinality({AttrKey(i)}) = 1
    BY FS_Singleton
  <2>3. QED
    BY <2>1, <2>2
<1>2. CASE IsBlock(doc[i])
  <2> DEFINE n == Len(doc[i].labels)
             L == {LabelKey(<<i>>, k) : k \in 1 .. n}
             f == [k \in 1 .. n |-> LabelKey(<<i>>, k)]
  <2>1. n \in Nat
    BY <1>2, BlockHasLabels DEF BlockPlaces
  <2>2. IsFiniteSet(1 .. n) /\ Cardinality(1 .. n) = n
    BY <2>1, FS_Interval
  <2>3. f \in Surjection(1 .. n, L)
    BY DEF Surjection
  <2>4. IsFiniteSet(L) /\ Cardinality(L) <= n
    <3> HIDE DEF f, L, n
    <3>1. QED
      BY <2>2, <2>3, FS_Surjection
  <2>5. KeysOf(i) = L \cup {BlockKey(i)}
    BY <1>2 DEF KeysOf
  <2>6. Resolvable(doc[i]) = n + 1
    BY <1>2, <2>1 DEF Resolvable
  <2> HIDE DEF L, n
  <2>7. Cardinality(L) \in Nat
    BY <2>4, FS_CardinalityType
  <2>8. IsFiniteSet(L \cup {BlockKey(i)}) /\ Cardinality(L \cup {BlockKey(i)}) <= n + 1
    <3>1. /\ IsFiniteSet(L \cup {BlockKey(i)})
          /\ \/ Cardinality(L \cup {BlockKey(i)}) = Cardinality(L)
             \/ Cardinality(L \cup {BlockKey(i)}) = Cardinality(L) + 1
      BY <2>4, FS_AddElement, Zenon
    <3>2. QED
      BY <2>1, <2>4, <2>7, <3>1
  <2>9. QED
    BY <2>1, <2>5, <2>6, <2>8
<1>3. QED
  BY <1>1, <1>2

\* By induction on the number of items, along the running total of their weights.
LEMMA TopKeysCounted ==
  ASSUME doc \in Docs
  PROVE  /\ IsFiniteSet(TopKeys)
         /\ Total(Weights) \in Nat
         /\ Cardinality(TopKeys) <= Total(Weights)
<1>1. Len(doc) \in Nat /\ DOMAIN doc = 1 .. Len(doc)
  BY DocsAssumption DEF IsSequence
<1>2. /\ Weights \in Seq(Nat) /\ Len(Weights) = Len(doc)
      /\ \A i \in 1 .. Len(doc) : Weights[i] = Resolvable(doc[i])
  <2>1. Weights \in [1 .. Len(doc) -> Nat]
    BY <1>1, KeysOfItem DEF Weights
  <2>2. Weights \in Seq(Nat) /\ Len(Weights) = Len(doc)
    BY <1>1, <2>1
  <2>3. QED
    BY <1>1, <2>2 DEF Weights
<1>3. PICK p : IsRunning(p, Weights) /\ \A i \in 0 .. Len(Weights) : p[i] \in Nat
  BY <1>2, RunningExists
<1>4. Total(Weights) = p[Len(doc)]
  BY <1>2, <1>3, TotalOfRunning
<1> DEFINE UpTo(m) == UNION {KeysOf(i) : i \in 1 .. m}
           S == {m \in Nat : m <= Len(doc) => IsFiniteSet(UpTo(m)) /\ Cardinality(UpTo(m)) <= p[m]}
<1>5. 0 \in S
  <2>1. UpTo(0) = {}
    OBVIOUS
  <2>2. p[0] = 0
    BY <1>3 DEF IsRunning
  <2>3. IsFiniteSet({}) /\ Cardinality({}) <= p[0]
    BY <2>2, FS_EmptySet
  <2>4. IsFiniteSet(UpTo(0)) /\ Cardinality(UpTo(0)) <= p[0]
    BY <2>1, <2>3, Zenon
  <2> HIDE DEF UpTo
  <2>5. QED
    BY <2>4
<1>6. ASSUME NEW m \in Nat, m \in S
      PROVE  m + 1 \in S
  <2> SUFFICES ASSUME m + 1 <= Len(doc)
               PROVE  IsFiniteSet(UpTo(m + 1)) /\ Cardinality(UpTo(m + 1)) <= p[m + 1]
    OBVIOUS
  <2>1. m <= Len(doc) /\ m + 1 \in 1 .. Len(doc) /\ m \in 0 .. Len(doc) /\ (m + 1) - 1 = m
    BY <1>1
  <2>2. IsFiniteSet(UpTo(m)) /\ Cardinality(UpTo(m)) <= p[m]
    BY <1>6, <2>1
  <2>3. UpTo(m + 1) = UpTo(m) \cup KeysOf(m + 1)
    <3>1. 1 .. m + 1 = (1 .. m) \cup {m + 1}
      OBVIOUS
    <3>2. QED
      BY <3>1, Zenon
  <2>4. p[m + 1] = p[m] + Resolvable(doc[m + 1])
    BY <1>2, <1>3, <2>1 DEF IsRunning
  <2>5. /\ Resolvable(doc[m + 1]) \in Nat
        /\ IsFiniteSet(KeysOf(m + 1))
        /\ Cardinality(KeysOf(m + 1)) <= Resolvable(doc[m + 1])
    BY <1>1, <2>1, KeysOfItem
  <2>6. p[m] \in Nat
    BY <1>2, <1>3, <2>1
  <2> DEFINE A == UpTo(m)
             B == KeysOf(m + 1)
  <2> HIDE DEF UpTo, A, B
  <2>7. /\ IsFiniteSet(A \cup B)
        /\ Cardinality(A \cup B) = Cardinality(A) + Cardinality(B) - Cardinality(A \cap B)
    BY <2>2, <2>5, FS_Union DEF A, B
  <2>8. Cardinality(A) \in Nat /\ Cardinality(B) \in Nat /\ Cardinality(A \cap B) \in Nat
    <3>1. IsFiniteSet(A) /\ IsFiniteSet(B)
      BY <2>2, <2>5 DEF A, B
    <3>2. IsFiniteSet(A \cap B)
      <4>1. A \cap B \in SUBSET A
        OBVIOUS
      <4>2. QED
        BY <3>1, <4>1, FS_Subset
    <3>3. QED
      BY <3>1, <3>2, FS_CardinalityType
  <2>9. Cardinality(A) <= p[m] /\ Cardinality(B) <= Resolvable(doc[m + 1])
    BY <2>2, <2>5 DEF A, B
  <2>10. Cardinality(A \cup B) <= p[m + 1]
    BY <2>4, <2>5, <2>6, <2>7, <2>8, <2>9
  <2>11. QED
    BY <2>3, <2>7, <2>10 DEF A, B
<1>7. Len(doc) \in S
  <2> HIDE DEF S
  <2>1. Nat \subseteq S
    BY <1>5, <1>6, AllNaturals
  <2>2. QED
    BY <1>1, <2>1
<1>8. TopKeys = UpTo(Len(doc))
  BY <1>1 DEF TopKeys
<1>9. p[Len(doc)] \in Nat /\ Len(doc) <= Len(doc)
  BY <1>1, <1>2, <1>3
<1>10. QED
  <2> HIDE DEF UpTo
  <2>1. QED
    BY <1>4, <1>7, <1>8, <1>9

\* Every key in the chain is that of a definition, but for one of a nested block at most.
LEMMA ChainKeys ==
  ASSUME OInv
  PROVE  \E extra : \A n \in DOMAIN resolving : stack[resolving[n]].key \in TopKeys \cup {extra}
<1> DEFINE Nested == {n \in DOMAIN stack : IsNested(stack[n])}
<1>1. DOMAIN stack = 1 .. Len(stack) /\ Len(stack) \in Nat
  BY DEF OInv, Inv, Good, WellStacked, IsSequence
<1>2. ASSUME NEW m \in Nested, NEW n \in Nested
      PROVE  m = n
  <2>1. ASSUME NEW a \in Nested, NEW b \in Nested, a < b
        PROVE  FALSE
    <3>1. stack[a].op = "body"
      BY <2>1 DEF OInv, Stacked, FromBody
    <3>2. QED
      BY <3>1 DEF IsNested
  <2>2. m \in Nat /\ n \in Nat
    BY <1>1
  <2>3. m < n \/ n < m \/ m = n
    BY <2>2
  <2>4. QED
    BY <2>1, <2>3
<1> DEFINE extra == stack[CHOOSE n \in Nested : TRUE].key
<1>3. ASSUME NEW n \in DOMAIN resolving
      PROVE  stack[resolving[n]].key \in TopKeys \cup {extra}
  <2> DEFINE j == resolving[n]
  <2>1. j \in DOMAIN stack /\ IsEntity(stack, j)
    BY <1>1 DEF OInv, Inv, Good, Linked, ListsEntities
  <2>2. IsFrame(stack[j]) /\ Fits(stack[j])
    BY <2>1 DEF OInv, Inv, Good, WellStacked, Stacked
  <2>3. stack[j].op \in {"attr", "label", "block"}
    BY <2>1, <2>2 DEF IsFrame, IsEntity, EntityOps
  <2>4. CASE stack[j].key \in TopKeys
    BY <2>4
  <2>5. CASE stack[j].key \notin TopKeys
    <3>1. j \in Nested
      BY <2>1, <2>2, <2>3, <2>5 DEF Fits, IsNested
    <3>2. (CHOOSE m \in Nested : TRUE) \in Nested
      BY <3>1
    <3>3. j = CHOOSE m \in Nested : TRUE
      BY <1>2, <3>1, <3>2
    <3>4. QED
      BY <3>3
  <2>6. QED
    BY <2>4, <2>5
<1>4. QED
  BY <1>3

LEMMA ChainBounded ==
  ASSUME OInv
  PROVE  DepthBounded
<1>1. PICK extra : \A n \in DOMAIN resolving : stack[resolving[n]].key \in TopKeys \cup {extra}
  BY ChainKeys
<1> DEFINE K == TopKeys \cup {extra}
           D == 1 .. Len(resolving)
           f == [n \in D |-> stack[resolving[n]].key]
<1>2. DOMAIN resolving = D /\ Len(resolving) \in Nat
  BY DEF OInv, Inv, Good, Linked, ListsEntities
<1>3. f \in Injection(D, K)
  <2>1. f \in [D -> K]
    BY <1>1, <1>2
  <2>2. ASSUME NEW a \in D, NEW b \in D, f[a] = f[b]
        PROVE  a = b
    <3>1. /\ resolving[a] \in DOMAIN stack /\ IsEntity(stack, resolving[a])
          /\ resolving[b] \in DOMAIN stack /\ IsEntity(stack, resolving[b])
      BY <1>2 DEF OInv, Inv, Good, Linked, ListsEntities, WellStacked, IsSequence
    <3>2. resolving[a] = resolving[b]
      BY <2>2, <3>1 DEF OInv, Inv, Good, KeysDiffer
    <3>3. resolving[a] \in Nat /\ ~(a < b) /\ ~(b < a)
      <4>1. ListsEntities(stack, resolving, Len(stack))
        BY DEF OInv, Inv, Good, Linked
      <4>2. resolving[a] \in Nat /\ resolving[b] \in Nat
        BY <1>2, <4>1 DEF ListsEntities
      <4>3. \A x, y \in D : x < y => resolving[x] < resolving[y]
        BY <1>2, <4>1 DEF ListsEntities
      <4>4. QED
        BY <3>2, <4>2, <4>3
    <3>4. QED
      BY <1>2, <3>3
  <2>3. QED
    BY <2>1, <2>2 DEF Injection, IsInjective
<1>4. /\ IsFiniteSet(TopKeys)
      /\ Total(Weights) \in Nat
      /\ Cardinality(TopKeys) <= Total(Weights)
      /\ Cardinality(TopKeys) \in Nat
  BY TopKeysCounted, FS_CardinalityType DEF OInv
<1>5. IsFiniteSet(K) /\ Cardinality(K) <= Total(Weights) + 1 /\ Cardinality(K) \in Nat
  <2>1. IsFiniteSet(K) /\ (Cardinality(K) = Cardinality(TopKeys) \/ Cardinality(K) = Cardinality(TopKeys) + 1)
    BY <1>4, FS_AddElement
  <2> HIDE DEF K
  <2>2. QED
    BY <1>4, <2>1
<1>6. Cardinality(D) <= Cardinality(K)
  <2> HIDE DEF D, K, f
  <2>1. QED
    BY <1>3, <1>5, FS_Injection
<1>7. Cardinality(D) = Len(resolving)
  <2>1. Cardinality(D) = IF 1 > Len(resolving) THEN 0 ELSE Len(resolving) - 1 + 1
    BY <1>2, FS_Interval
  <2> HIDE DEF D
  <2>2. QED
    BY <1>2, <2>1
<1>8. Len(resolving) <= 1 + Total(Weights)
  <2> HIDE DEF D, K
  <2>1. QED
    BY <1>2, <1>4, <1>5, <1>6, <1>7
<1>9. QED
  BY <1>8 DEF DepthBounded, Definitions, Weights

\* However the references of a document are arranged, there are never more resolutions
\* in progress in cl_eval.c than things in the document to resolve, for any document.
THEOREM DepthIsBounded == Spec => []DepthBounded
BY ChainBounded, InitOInv, NextOInv, PTL DEF Spec
=============================================================================
