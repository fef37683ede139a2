-------------------------- MODULE SchemaLoadProofs --------------------------
(***************************************************************************)
(* Loading a schema: the rules are those of the declarations that have     *)
(* been read, each inside the rule its declaration stands in, whatever the *)
(* document; and the load fails exactly where a declaration is wrong.      *)
(***************************************************************************)
EXTENDS ValidationProofs

-----------------------------------------------------------------------------
(* Sequences whose elements have no common type *)

LEMMA SameElements ==
  ASSUME NEW s, NEW t, IsSequence(s), IsSequence(t), Len(s) = Len(t), \A n \in 1 .. Len(s) : s[n] = t[n]
  PROVE  s = t
<1>1. s = [n \in 1 .. Len(s) |-> s[n]] /\ t = [n \in 1 .. Len(s) |-> t[n]]
  BY DEF IsSequence
<1>2. [n \in 1 .. Len(s) |-> s[n]] = [n \in 1 .. Len(s) |-> t[n]]
  OBVIOUS
<1>3. QED
  BY <1>1, <1>2

LEMMA AppendsDiffer ==
  ASSUME NEW s, NEW t, NEW a, NEW b, IsSequence(s), IsSequence(t), Append(s, a) = Append(t, b)
  PROVE  s = t /\ a = b
<1>1. /\ Len(s) \in Nat /\ Len(Append(s, a)) = Len(s) + 1 /\ Append(s, a)[Len(s) + 1] = a
      /\ \A n \in 1 .. Len(s) : Append(s, a)[n] = s[n]
  BY AppendSequence
<1>2. /\ Len(t) \in Nat /\ Len(Append(t, b)) = Len(t) + 1 /\ Append(t, b)[Len(t) + 1] = b
      /\ \A n \in 1 .. Len(t) : Append(t, b)[n] = t[n]
  BY AppendSequence
<1>3. Len(s) = Len(t)
  <2>1. Len(s) + 1 = Len(t) + 1
    BY <1>1, <1>2
  <2>2. QED
    BY <1>1, <1>2, <2>1
<1>4. QED
  BY <1>1, <1>2, <1>3, SameElements

\* Numbers are reached by going on from those below.
LEMMA AllBelow ==
  ASSUME NEW S, NEW N \in Nat,
         \A n \in 1 .. N : (\A m \in 1 .. n - 1 : m \in S) => n \in S
  PROVE  \A n \in 1 .. N : n \in S
<1> DEFINE T == {n \in Nat : \A m \in 1 .. n : m <= N => m \in S}
<1>1. 0 \in T
  OBVIOUS
<1>2. ASSUME NEW n \in Nat, n \in T
      PROVE  n + 1 \in T
  <2>1. ASSUME NEW m \in 1 .. n + 1, m <= N
        PROVE  m \in S
    <3>1. CASE m \in 1 .. n
      BY <1>2, <2>1, <3>1
    <3>2. CASE m \notin 1 .. n
      <4>1. m = n + 1 /\ m \in 1 .. N
        BY <2>1, <3>2
      <4>2. \A k \in 1 .. m - 1 : k \in 1 .. n /\ k <= N
        BY <2>1, <4>1
      <4>3. QED
        BY <1>2, <4>1, <4>2
    <3>3. QED
      BY <3>1, <3>2
  <2>2. QED
    BY <2>1
<1> HIDE DEF T
<1>3. N \in T
  BY <1>1, <1>2, AllNaturals
<1>4. QED
  BY <1>3 DEF T

-----------------------------------------------------------------------------
(* The attributes that the items of a body declare *)

LEMMA AttrsAre ==
  ASSUME NEW body, NEW n \in Nat
  PROVE  \E g : Chain(g, "attrs", <<>>, body, <<>>, n) /\ AttrsOf(body, n) = g[n]
<1> DEFINE IsIt(g) ==
             g = [i \in 0 .. n |->
                    IF i = 0 THEN <<>>
                    ELSE IF IsAttr(body[i]) THEN Append(g[i - 1], AttrOf(body[i].name, ReadForm(body[i].value)))
                    ELSE g[i - 1]]
<1>1. \E g : IsIt(g)
  <2>1. PICK g : Chain(g, "attrs", <<>>, body, <<>>, n)
    BY ChainExists
  <2>2. IsIt(g)
    BY <2>1 DEF Chain, Made
  <2>3. QED
    BY <2>2
<1>2. AttrsOf(body, n) = (CHOOSE g : IsIt(g))[n]
  BY DEF AttrsOf
<1>3. IsIt(CHOOSE g : IsIt(g))
  BY <1>1
<1>4. Chain(CHOOSE g : IsIt(g), "attrs", <<>>, body, <<>>, n)
  BY <1>3 DEF Chain, Made
<1>5. QED
  BY <1>2, <1>4

LEMMA AttrsOfNone ==
  ASSUME NEW body
  PROVE  AttrsOf(body, 0) = <<>>
<1>1. PICK g : Chain(g, "attrs", <<>>, body, <<>>, 0) /\ AttrsOf(body, 0) = g[0]
  BY AttrsAre
<1>2. QED
  BY <1>1 DEF Chain

LEMMA AttrsOfMore ==
  ASSUME NEW body, NEW n \in Nat
  PROVE  AttrsOf(body, n + 1) =
           IF IsAttr(body[n + 1])
             THEN Append(AttrsOf(body, n), AttrOf(body[n + 1].name, ReadForm(body[n + 1].value)))
             ELSE AttrsOf(body, n)
<1>1. PICK g : Chain(g, "attrs", <<>>, body, <<>>, n) /\ AttrsOf(body, n) = g[n]
  BY AttrsAre
<1>2. PICK h : Chain(h, "attrs", <<>>, body, <<>>, n + 1) /\ AttrsOf(body, n + 1) = h[n + 1]
  BY AttrsAre
<1>3. g[n] = h[n]
  <2>1. n + 1 \in Nat /\ n <= n + 1
    OBVIOUS
  <2>2. QED
    BY <1>1, <1>2, <2>1, ChainsAgree
<1>4. h[n + 1] = Made("attrs", body, <<>>, n + 1, h[n])
  <2>1. n + 1 \in 0 .. n + 1 /\ n + 1 # 0 /\ (n + 1) - 1 = n
    OBVIOUS
  <2>2. QED
    BY <1>2, <2>1 DEF Chain
<1>5. QED
  BY <1>1, <1>2, <1>3, <1>4 DEF Made

\* They have the names of the items.
LEMMA AttrsNames ==
  ASSUME NEW body, NEW n \in Nat
  PROVE  LET attrs == AttrsOf(body, n)
         IN  /\ IsSequence(attrs)
             /\ \A name : (\E i \in DOMAIN attrs : attrs[i].name = name)
                            <=> \E j \in 1 .. n : IsAttr(body[j]) /\ body[j].name = name
<1> DEFINE Has(attrs, name) == \E i \in DOMAIN attrs : attrs[i].name = name
           Names(k, name) == \E j \in 1 .. k : IsAttr(body[j]) /\ body[j].name = name
           S == {k \in Nat : /\ IsSequence(AttrsOf(body, k))
                             /\ \A name : Has(AttrsOf(body, k), name) <=> Names(k, name)}
<1>1. 0 \in S
  <2>1. AttrsOf(body, 0) = <<>> /\ IsSequence(<<>>) /\ DOMAIN <<>> = {}
    BY AttrsOfNone, ShortSequences
  <2>2. QED
    BY <2>1
<1>2. ASSUME NEW k \in Nat, k \in S
      PROVE  k + 1 \in S
  <2> DEFINE a == AttrsOf(body, k)
             b == AttrsOf(body, k + 1)
             x == AttrOf(body[k + 1].name, ReadForm(body[k + 1].value))
  <2>1. IsSequence(a) /\ \A name : Has(a, name) <=> Names(k, name)
    BY <1>2
  <2>2. b = IF IsAttr(body[k + 1]) THEN Append(a, x) ELSE a
    BY AttrsOfMore
  <2>3. \A name : Names(k + 1, name) <=> Names(k, name) \/ (IsAttr(body[k + 1]) /\ body[k + 1].name = name)
    <3>1. \A j : j \in 1 .. k + 1 <=> j \in 1 .. k \/ j = k + 1
      OBVIOUS
    <3>2. QED
      BY <3>1
  <2>4. x.name = body[k + 1].name
    BY DEF AttrOf, Attr
  <2> HIDE DEF a, b, x, Names
  <2>5. IsSequence(b) /\ \A name : Has(b, name) <=> Names(k + 1, name)
    <3>1. CASE ~IsAttr(body[k + 1])
      BY <2>1, <2>2, <2>3, <3>1
    <3>2. CASE IsAttr(body[k + 1])
      <4>1. /\ IsSequence(b) /\ Len(a) \in Nat /\ Len(b) = Len(a) + 1
            /\ \A i \in 1 .. Len(a) : b[i] = a[i]
            /\ b[Len(a) + 1] = x
        BY <2>1, <2>2, <3>2, AppendSequence
      <4>2. DOMAIN a = 1 .. Len(a) /\ DOMAIN b = 1 .. Len(a) + 1
        BY <2>1, <4>1 DEF IsSequence
      <4>3. \A i : i \in DOMAIN b <=> i \in DOMAIN a \/ i = Len(a) + 1
        BY <4>1, <4>2
      <4>4. \A name : Has(b, name) <=> Has(a, name) \/ x.name = name
        BY <4>1, <4>2, <4>3
      <4>5. QED
        BY <2>1, <2>3, <2>4, <3>2, <4>1, <4>4
    <3>3. QED
      BY <3>1, <3>2
  <2>6. QED
    BY <2>5 DEF b
<1> HIDE DEF S
<1>3. Nat \subseteq S
  BY <1>1, <1>2, AllNaturals
<1>4. QED
  BY <1>3 DEF S

-----------------------------------------------------------------------------
(* The items of a document in the order in which a load reads them *)

\* Which places are before the first place in a block, and before the one behind a place.
LEMMA BeforeIn ==
  ASSUME NEW q \in Seq(Nat), NEW c \in Seq(Nat), NEW j \in Nat
  PROVE  Before(q, Append(c, j)) <=> Before(q, c) \/ (Under(q, c) /\ (Len(q) > Len(c) => q[Len(c) + 1] < j))
<1> DEFINE e == Append(c, j)
           k == Len(c)
<1>1. /\ k \in Nat /\ DOMAIN c = 1 .. k /\ DOMAIN e = 1 .. k + 1 /\ e[k + 1] = j
      /\ \A m \in 1 .. k : e[m] = c[m]
      /\ DOMAIN q = 1 .. Len(q) /\ Len(q) \in Nat
  OBVIOUS
<1> HIDE DEF e
<1>2. ASSUME Before(q, e)
      PROVE  Before(q, c) \/ (Under(q, c) /\ (Len(q) > k => q[k + 1] < j))
  <2>1. PICK n \in DOMAIN e : /\ n <= Len(q) + 1
                              /\ \A m \in 1 .. n - 1 : q[m] = e[m]
                              /\ n \in DOMAIN q => q[n] < e[n]
    BY <1>2 DEF Before
  <2> HIDE DEF k
  <2>2. CASE n = k + 1
    <3>1. k <= Len(q) /\ \A m \in 1 .. k : q[m] = c[m]
      BY <1>1, <2>1, <2>2
    <3>2. Len(q) > k => k + 1 \in DOMAIN q
      BY <1>1
    <3>3. QED
      BY <1>1, <2>1, <2>2, <3>1, <3>2 DEF Under, k
  <2>3. CASE n # k + 1
    <3>1. n \in 1 .. k /\ n \in DOMAIN c
      BY <1>1, <2>3
    <3>2. \A m \in 1 .. n - 1 : m \in 1 .. k
      BY <1>1, <3>1
    <3>3. e[n] = c[n] /\ \A m \in 1 .. n - 1 : q[m] = c[m]
      BY <1>1, <2>1, <3>1, <3>2
    <3>4. QED
      BY <2>1, <3>1, <3>3 DEF Before
  <2>4. QED
    BY <2>2, <2>3
<1>3. QED
  BY <1>2, BeforeInside, BeforeLast DEF e

LEMMA BeforeBehind ==
  ASSUME NEW q \in Seq(Nat), NEW d \in Seq(Nat), NEW i \in Nat
  PROVE  Before(q, Append(d, i + 1)) <=> Before(q, Append(d, i)) \/ Under(q, Append(d, i))
<1> DEFINE c == Append(d, i)
           k == Len(d) + 1
<1>1. /\ k \in Nat /\ Len(c) = k /\ c[k] = i /\ Len(d) = k - 1
      /\ \A m \in 1 .. k - 1 : c[m] = d[m]
      /\ \A m \in 1 .. Len(q) : q[m] \in Nat
      /\ Len(q) \in Nat /\ i + 1 \in Nat
  OBVIOUS
<1> HIDE DEF c, k
<1>2. /\ Before(q, Append(d, i + 1)) <=> Before(q, d) \/ (Under(q, d) /\ (Len(q) > Len(d) => q[Len(d) + 1] < i + 1))
      /\ Before(q, c) <=> Before(q, d) \/ (Under(q, d) /\ (Len(q) > Len(d) => q[Len(d) + 1] < i))
  BY <1>1, BeforeIn DEF c
<1>3. Under(q, c) <=> Under(q, d) /\ Len(q) > Len(d) /\ q[Len(d) + 1] = i
  <2>1. Under(q, c) <=> k <= Len(q) /\ \A m \in 1 .. k : q[m] = c[m]
    BY <1>1 DEF Under
  <2>2. Under(q, d) <=> k - 1 <= Len(q) /\ \A m \in 1 .. k - 1 : q[m] = d[m]
    BY <1>1 DEF Under
  <2>3. \A m : m \in 1 .. k <=> m \in 1 .. k - 1 \/ m = k
    BY <1>1 DEF k
  <2>4. Len(q) > Len(d) <=> k <= Len(q)
    BY <1>1
  <2>5. Len(d) + 1 = k
    BY <1>1
  <2>6. (\A m \in 1 .. k : q[m] = c[m]) <=> (\A m \in 1 .. k - 1 : q[m] = d[m]) /\ q[k] = i
    <3>1. \A m \in 1 .. k - 1 : c[m] = d[m]
      BY <1>1
    <3>2. c[k] = i
      BY <1>1
    <3>3. QED
      BY <2>3, <3>1, <3>2
  <2>7. k <= Len(q) => k - 1 <= Len(q)
    BY <1>1
  <2>8. QED
    BY <2>1, <2>2, <2>4, <2>5, <2>6, <2>7
<1>4. Len(q) > Len(d) => (q[Len(d) + 1] < i + 1 <=> q[Len(d) + 1] < i \/ q[Len(d) + 1] = i)
  BY <1>1
<1>5. QED
  BY <1>2, <1>3, <1>4 DEF c

LEMMA NotBeforeItself ==
  ASSUME NEW c \in Seq(Nat)
  PROVE  ~Before(c, c) /\ Under(c, c)
<1>1. \A n \in DOMAIN c : c[n] \in Nat
  OBVIOUS
<1>2. QED
  BY <1>1 DEF Before, Under

ItemAt(d, q)  == BodyAt(d, Front(q))[Last(q)]
IsSpot(d, q)  == q \in Seq(Nat) /\ q # <<>> /\ IsPath(d, Front(q)) /\ Last(q) \in DOMAIN BodyAt(d, Front(q))
IsInner(d, q) == IsSpot(d, q) /\ IsBlock(ItemAt(d, q))

\* Bodies are arrays, so a place in one is a positive number.
LEMMA BodyNumbers ==
  ASSUME NEW d, WellFormed(d), NEW p \in Seq(Nat), IsPath(d, p)
  PROVE  /\ IsBody(BodyAt(d, p)) /\ IsSequence(BodyAt(d, p))
         /\ Len(BodyAt(d, p)) \in Nat /\ DOMAIN BodyAt(d, p) = 1 .. Len(BodyAt(d, p))
BY BodyIsBody DEF IsBody, IsSequence

LEMMA InnerIsPath ==
  ASSUME NEW d, NEW q
  PROVE  IsInner(d, q) <=> q \in Seq(Nat) /\ q # <<>> /\ IsPath(d, q)
<1>1. ASSUME q \in Seq(Nat), q # <<>>
      PROVE  IsPath(d, q) <=> IsPath(d, Front(q)) /\ Last(q) \in BlocksIn(BodyAt(d, Front(q)))
  <2>1. Front(q) \in Seq(Nat) /\ Last(q) \in Nat /\ q = Append(Front(q), Last(q))
    BY <1>1, PathEnds
  <2>2. QED
    BY <2>1, PathOfAppend
<1>2. QED
  BY <1>1 DEF IsInner, IsSpot, ItemAt, BlocksIn

LEMMA SpotOf ==
  ASSUME NEW d, NEW p \in Seq(Nat), NEW i \in Nat
  PROVE  /\ IsSpot(d, Append(p, i)) <=> IsPath(d, p) /\ i \in DOMAIN BodyAt(d, p)
         /\ ItemAt(d, Append(p, i)) = BodyAt(d, p)[i]
         /\ Append(p, i) \in Seq(Nat)
BY PathIsEmptyOrNot DEF IsSpot, ItemAt

LEMMA SpotNumbers ==
  ASSUME NEW d, WellFormed(d), NEW q, IsSpot(d, q)
  PROVE  \A m \in 1 .. Len(q) : q[m] # 0
<1> DEFINE f == Front(q)
<1>1. /\ q \in Seq(Nat) /\ q # <<>> /\ IsPath(d, f) /\ f \in Seq(Nat)
      /\ Len(q) = Len(f) + 1 /\ \A m \in 1 .. Len(f) : f[m] = q[m]
  BY PathEnds DEF IsSpot
<1>2. Last(q) # 0
  <2>1. Last(q) \in 1 .. Len(BodyAt(d, f)) /\ Len(BodyAt(d, f)) \in Nat
    BY <1>1, BodyNumbers DEF IsSpot
  <2>2. QED
    BY <2>1
<1> HIDE DEF f
<1>3. ASSUME NEW m \in 1 .. Len(f)
      PROVE  f[m] # 0
  <2> DEFINE b == BodyAt(d, SubSeq(f, 1, m - 1))
  <2>1. m \in DOMAIN f /\ m - 1 \in 0 .. Len(f)
    BY <1>1
  <2>2. f[m] \in DOMAIN b
    BY <1>1, <2>1 DEF IsPath
  <2>3. DOMAIN b = 1 .. Len(b) /\ Len(b) \in Nat
    BY <1>1, <2>1, PrefixIsPath, BodyNumbers
  <2>4. QED
    BY <2>2, <2>3
<1>4. \A m \in 1 .. Len(q) : m \in 1 .. Len(f) \/ m = Len(q)
  BY <1>1
<1>5. q[Len(q)] # 0
  BY <1>2 DEF Last
<1>6. QED
  BY <1>1, <1>3, <1>4, <1>5

\* An item in the block at c is c itself, or stands somewhere in its body.
LEMMA SpotUnder ==
  ASSUME NEW d, WellFormed(d), NEW q, IsSpot(d, q), NEW c \in Seq(Nat), Under(q, c), q # c
  PROVE  IsPath(d, c) /\ Len(q) > Len(c) /\ q[Len(c) + 1] \in DOMAIN BodyAt(d, c)
<1> DEFINE f == Front(q)
           k == Len(c)
<1>1. /\ q \in Seq(Nat) /\ q # <<>> /\ IsPath(d, f) /\ Last(q) \in DOMAIN BodyAt(d, f)
      /\ f \in Seq(Nat) /\ Len(q) = Len(f) + 1 /\ \A m \in 1 .. Len(f) : f[m] = q[m]
  BY PathEnds DEF IsSpot
<1>2. k < Len(q) /\ k \in 0 .. Len(f)
  <2>1. k <= Len(q) /\ k # Len(q)
    BY <1>1, UnderIsPrefix DEF Under
  <2>2. QED
    BY <1>1, <2>1
<1>3. Under(f, c)
  BY <1>1, <1>2 DEF Under
<1>4. SubSeq(f, 1, k) = c
  BY <1>1, <1>3, UnderIsPrefix
<1> HIDE DEF f
<1>5. IsPath(d, c)
  <2>1. IsPath(d, SubSeq(f, 1, k))
    BY <1>1, <1>2, PrefixIsPath
  <2>2. QED
    BY <1>4, <2>1
<1>6. CASE Len(f) = k
  <2>1. f = c
    BY <1>1, <1>3, <1>6, UnderIsPrefix
  <2>2. q[k + 1] = Last(q)
    BY <1>1, <1>6 DEF Last
  <2>3. QED
    BY <1>1, <1>2, <1>5, <2>1, <2>2
<1>7. CASE Len(f) # k
  <2>1. k + 1 \in 1 .. Len(f) /\ DOMAIN f = 1 .. Len(f) /\ (k + 1) - 1 = k
    BY <1>1, <1>2, <1>7
  <2>2. f[k + 1] \in DOMAIN BodyAt(d, c)
    BY <1>1, <1>4, <2>1 DEF IsPath
  <2>3. QED
    BY <1>1, <1>2, <1>5, <2>1, <2>2
<1>8. QED
  BY <1>6, <1>7

\* Behind an attribute there is that attribute more;
LEMMA SpotsNext ==
  ASSUME NEW d, WellFormed(d), NEW p \in Seq(Nat), NEW i \in Nat, IsPath(d, p),
         ~IsBlock(BodyAt(d, p)[i]), NEW q, IsSpot(d, q)
  PROVE  Before(q, Append(p, i + 1)) <=> Before(q, Append(p, i)) \/ q = Append(p, i)
<1> DEFINE c == Append(p, i)
<1>1. c \in Seq(Nat) /\ q \in Seq(Nat)
  BY SpotOf DEF IsSpot
<1>2. ~IsPath(d, c)
  BY PathOfAppend DEF BlocksIn
<1>3. Before(q, Append(p, i + 1)) <=> Before(q, c) \/ Under(q, c)
  BY <1>1, BeforeBehind
<1> HIDE DEF c
<1>4. Under(q, c) => q = c
  BY <1>1, <1>2, SpotUnder
<1>5. Under(c, c)
  BY <1>1, NotBeforeItself
<1>6. QED
  BY <1>3, <1>4, <1>5 DEF c

\* at the beginning of a block, that block;
LEMMA SpotsInside ==
  ASSUME NEW d, WellFormed(d), NEW c \in Seq(Nat), NEW q, IsSpot(d, q)
  PROVE  Before(q, Append(c, 1)) <=> Before(q, c) \/ q = c
<1>1. q \in Seq(Nat) /\ \A m \in 1 .. Len(q) : q[m] # 0
  BY SpotNumbers DEF IsSpot
<1>2. Before(q, Append(c, 1)) => Before(q, c) \/ q = c
  BY <1>1, BeforeFirst
<1>3. Before(q, c) => Before(q, Append(c, 1))
  BY <1>1, BeforeInside
<1>4. Before(c, Append(c, 1))
  <2>1. Under(c, c) /\ ~(Len(c) > Len(c)) /\ 1 \in Nat
    BY NotBeforeItself
  <2>2. QED
    BY <2>1, BeforeLast
<1>5. QED
  BY <1>2, <1>3, <1>4

\* behind a block, nothing more than at its end;
LEMMA SpotsBehind ==
  ASSUME NEW d, WellFormed(d), NEW f \in Seq(Nat), NEW k \in Nat, IsPath(d, Append(f, k)), NEW q, IsSpot(d, q)
  PROVE  Before(q, Append(f, k + 1)) <=> Before(q, Append(Append(f, k), Len(BodyAt(d, Append(f, k))) + 1))
<1> DEFINE p == Append(f, k)
           n == Len(BodyAt(d, p))
<1>1. p \in Seq(Nat) /\ q \in Seq(Nat)
  BY SpotOf DEF IsSpot
<1>2. Before(q, Append(f, k + 1)) <=> Before(q, p) \/ Under(q, p)
  BY <1>1, BeforeBehind
<1>3. n \in Nat /\ DOMAIN BodyAt(d, p) = 1 .. n
  BY <1>1, BodyNumbers
<1> HIDE DEF p, n
<1>4. n + 1 \in Nat
  BY <1>3
<1>5. Before(q, Append(p, n + 1)) <=> Before(q, p) \/ (Under(q, p) /\ (Len(q) > Len(p) => q[Len(p) + 1] < n + 1))
  BY <1>1, <1>4, BeforeIn
<1>6. Under(q, p) => (Len(q) > Len(p) => q[Len(p) + 1] < n + 1)
  <2>1. SUFFICES ASSUME Under(q, p), Len(q) > Len(p) PROVE q[Len(p) + 1] < n + 1
    OBVIOUS
  <2>2. q # p
    BY <1>1, <2>1
  <2>3. q[Len(p) + 1] \in DOMAIN BodyAt(d, p)
    BY <1>1, <2>1, <2>2, SpotUnder
  <2>4. QED
    BY <1>3, <2>3
<1>7. QED
  BY <1>2, <1>5, <1>6 DEF p, n

\* at first, nothing; and in the end, everything.
LEMMA SpotsNone ==
  ASSUME NEW d, WellFormed(d), NEW q, IsSpot(d, q)
  PROVE  ~Before(q, <<1>>)
<1>1. Append(<<>>, 1) = <<1>> /\ <<>> \in Seq(Nat) /\ DOMAIN <<>> = {}
  OBVIOUS
<1>2. ~Before(q, <<>>) /\ q # <<>>
  BY <1>1 DEF Before, IsSpot
<1>3. QED
  BY <1>1, <1>2, SpotsInside

LEMMA SpotsAll ==
  ASSUME NEW d, WellFormed(d), NEW q, IsSpot(d, q), NEW n, n = Len(d) + 1
  PROVE  Before(q, <<n>>)
<1>1. <<>> \in Seq(Nat) /\ Len(<<>>) = 0 /\ q \in Seq(Nat) /\ q # <<>>
  BY DEF IsSpot
<1>2. BodyAt(d, <<>>) = d /\ IsPath(d, <<>>)
  BY BodyOfEmpty, PathOfEmpty
<1>3. Len(d) \in Nat /\ DOMAIN d = 1 .. Len(d)
  <2>1. Len(BodyAt(d, <<>>)) \in Nat /\ DOMAIN BodyAt(d, <<>>) = 1 .. Len(BodyAt(d, <<>>))
    BY <1>1, <1>2, BodyNumbers
  <2>2. QED
    BY <1>2, <2>1
<1>4. Under(q, <<>>)
  <2>1. Len(q) \in Nat /\ 1 .. 0 = {}
    BY <1>1
  <2>2. QED
    BY <1>1, <2>1 DEF Under
<1>5. q[0 + 1] \in DOMAIN d
  BY <1>1, <1>2, <1>4, SpotUnder
<1>6. q[0 + 1] < n /\ n \in Nat /\ Append(<<>>, n) = <<n>>
  BY <1>3, <1>5
<1>7. QED
  BY <1>1, <1>4, <1>6, BeforeLast

\* Every path of a document of the model is listed.
LEMMA AllPathsListed ==
  ASSUME NEW d \in Documents \cup Declarations, NEW p \in Seq(Nat), IsPath(d, p)
  PROVE  p \in PathsOf(d, MaxDepth)
<1> DEFINE P == PathsOf(d, MaxDepth)
           S == {n \in Nat : n <= Len(p) => SubSeq(p, 1, n) \in P}
<1>1. /\ <<>> \in P
      /\ \A q \in P : \A i \in BlocksIn(BodyAt(d, q)) : Append(q, i) \in P
  BY ListedPaths
<1> HIDE DEF P
<1>2. 0 \in S
  <2>1. SubSeq(p, 1, 0) = <<>>
    OBVIOUS
  <2>2. QED
    BY <1>1, <2>1
<1>3. ASSUME NEW n \in Nat, n \in S
      PROVE  n + 1 \in S
  <2>1. SUFFICES ASSUME n + 1 <= Len(p) PROVE SubSeq(p, 1, n + 1) \in P
    OBVIOUS
  <2> DEFINE q == SubSeq(p, 1, n)
  <2>2. n \in 0 .. Len(p) /\ n + 1 \in 0 .. Len(p)
    BY <2>1
  <2>3. q \in Seq(Nat) /\ p[n + 1] \in Nat /\ SubSeq(p, 1, n + 1) = Append(q, p[n + 1])
    BY <2>1, PrefixMore
  <2>4. IsPath(d, Append(q, p[n + 1]))
    BY <2>2, <2>3, PrefixIsPath
  <2>5. q \in P
    BY <1>3, <2>1
  <2> HIDE DEF q
  <2>6. p[n + 1] \in BlocksIn(BodyAt(d, q))
    BY <2>3, <2>4, PathOfAppend
  <2>7. QED
    BY <1>1, <2>3, <2>5, <2>6
<1> HIDE DEF S
<1>4. Nat \subseteq S
  BY <1>2, <1>3, AllNaturals
<1>5. Len(p) \in Nat /\ SubSeq(p, 1, Len(p)) = p
  OBVIOUS
<1>6. Len(p) <= Len(p) => SubSeq(p, 1, Len(p)) \in P
  BY <1>4, <1>5 DEF S
<1>7. SubSeq(p, 1, Len(p)) \in P
  <2> HIDE DEF P
  <2>1. Len(p) <= Len(p)
    BY <1>5
  <2>2. QED
    BY <1>6, <2>1
<1>8. QED
  BY <1>5, <1>7 DEF P

-----------------------------------------------------------------------------
(* The labels that lead to a declaration *)

LEMMA LabelsOfNone ==
  ASSUME NEW d
  PROVE  LabelsTo(d, <<>>) = <<>>
BY DEF LabelsTo

LEMMA LabelsAre ==
  ASSUME NEW d, NEW p \in Seq(Nat)
  PROVE  /\ IsSequence(LabelsTo(d, p)) /\ Len(LabelsTo(d, p)) = Len(p) /\ Len(p) \in Nat
         /\ \A n \in 1 .. Len(p) : LabelsTo(d, p)[n] = Label(BodyAt(d, SubSeq(p, 1, n - 1))[p[n]])
<1> DEFINE L == LabelsTo(d, p)
           R == {L[n] : n \in 1 .. Len(p)}
<1>1. L = [n \in 1 .. Len(p) |-> Label(BodyAt(d, SubSeq(p, 1, n - 1))[p[n]])] /\ Len(p) \in Nat
  <2>1. DOMAIN p = 1 .. Len(p)
    OBVIOUS
  <2>2. QED
    BY <2>1 DEF LabelsTo
<1>2. \A n \in 1 .. Len(p) : L[n] = Label(BodyAt(d, SubSeq(p, 1, n - 1))[p[n]])
  BY <1>1
<1>3. L \in [1 .. Len(p) -> R]
  BY <1>1
<1> HIDE DEF L, R
<1>4. L \in Seq(R) /\ Len(L) = Len(p)
  BY <1>1, <1>3
<1>5. QED
  BY <1>1, <1>2, <1>4, SeqIsSequence DEF L

LEMMA LabelsOfMore ==
  ASSUME NEW d, NEW p \in Seq(Nat), NEW i \in Nat
  PROVE  LabelsTo(d, Append(p, i)) = Append(LabelsTo(d, p), Label(BodyAt(d, p)[i]))
<1> DEFINE q == Append(p, i)
           s == LabelsTo(d, q)
           l == LabelsTo(d, p)
           t == Append(l, Label(BodyAt(d, p)[i]))
           n == Len(p)
<1>1. /\ q \in Seq(Nat) /\ Len(q) = n + 1 /\ q[n + 1] = i /\ n \in Nat
      /\ \A m \in 1 .. n : q[m] = p[m] /\ SubSeq(q, 1, m - 1) = SubSeq(p, 1, m - 1)
      /\ SubSeq(q, 1, (n + 1) - 1) = p
  BY PrefixOfAppend
<1>2. /\ IsSequence(l) /\ Len(l) = n
      /\ \A m \in 1 .. n : l[m] = Label(BodyAt(d, SubSeq(p, 1, m - 1))[p[m]])
  BY LabelsAre
<1>3. /\ IsSequence(s) /\ Len(s) = n + 1
      /\ \A m \in 1 .. n + 1 : s[m] = Label(BodyAt(d, SubSeq(q, 1, m - 1))[q[m]])
  <2>1. q \in Seq(Nat)
    BY <1>1
  <2> HIDE DEF q, n
  <2>2. /\ IsSequence(s) /\ Len(s) = Len(q)
        /\ \A m \in 1 .. Len(q) : s[m] = Label(BodyAt(d, SubSeq(q, 1, m - 1))[q[m]])
    BY <2>1, LabelsAre
  <2>3. Len(q) = n + 1
    BY <1>1
  <2>4. QED
    BY <2>2, <2>3
<1>4. /\ IsSequence(t) /\ Len(t) = Len(l) + 1 /\ \A m \in 1 .. Len(l) : t[m] = l[m]
      /\ t[Len(l) + 1] = Label(BodyAt(d, p)[i])
  BY <1>2, AppendSequence
<1> HIDE DEF s, l, t, q, n
<1>5. Len(t) = n + 1
  BY <1>2, <1>4
<1>6. ASSUME NEW m \in 1 .. n + 1
      PROVE  s[m] = t[m]
  <2>1. s[m] = Label(BodyAt(d, SubSeq(q, 1, m - 1))[q[m]])
    BY <1>3
  <2>2. CASE m = n + 1
    BY <1>1, <1>2, <1>4, <2>1, <2>2
  <2>3. CASE m # n + 1
    <3>1. m \in 1 .. n
      BY <1>1, <2>3
    <3>2. QED
      BY <1>1, <1>2, <1>4, <2>1, <3>1
  <2>4. QED
    BY <2>2, <2>3
<1>7. s = t
  BY <1>3, <1>4, <1>5, <1>6, SameElements
<1>8. QED
  BY <1>7 DEF s, t, l, q

-----------------------------------------------------------------------------
(* The types that lead to a rule, when each rule comes after its parent *)

Rooted(rs) == IsSequence(rs) /\ rs[1].parent = 0 /\ \A r \in 1 .. Len(rs) : r # 1 => rs[r].parent \in 1 .. r - 1

TypesTo(g, n) == g = [r \in 1 .. n |-> IF r = 1 THEN <<>> ELSE Append(g[rules[r].parent], rules[r].type)]

LEMMA TypesExist ==
  ASSUME Rooted(rules), NEW n \in Nat, n <= Len(rules)
  PROVE  \E g : TypesTo(g, n)
<1> DEFINE S == {m \in Nat : m <= Len(rules) => \E g : TypesTo(g, m)}
<1>1. 0 \in S
  <2> DEFINE g == [r \in 1 .. 0 |-> <<>>]
  <2>1. g = [r \in 1 .. 0 |-> IF r = 1 THEN <<>> ELSE Append(g[rules[r].parent], rules[r].type)]
    OBVIOUS
  <2>2. TypesTo(g, 0)
    BY <2>1 DEF TypesTo
  <2>3. QED
    BY <2>2
<1>2. ASSUME NEW m \in Nat, m \in S
      PROVE  m + 1 \in S
  <2>1. SUFFICES ASSUME m + 1 <= Len(rules) PROVE \E g : TypesTo(g, m + 1)
    OBVIOUS
  <2>2. Len(rules) \in Nat /\ m <= Len(rules)
    BY <2>1 DEF Rooted, IsSequence
  <2>3. PICK g : TypesTo(g, m)
    BY <1>2, <2>2
  <2> DEFINE h == [r \in 1 .. m + 1 |->
                     IF r = m + 1 THEN IF r = 1 THEN <<>> ELSE Append(g[rules[r].parent], rules[r].type) ELSE g[r]]
  <2>4. \A r \in 1 .. m : h[r] = g[r]
    OBVIOUS
  <2>5. \A r \in 1 .. m + 1 : r # 1 => rules[r].parent \in 1 .. m /\ rules[r].parent \in 1 .. r - 1
    <3>1. \A r \in 1 .. m + 1 : r \in 1 .. Len(rules)
      BY <2>1, <2>2
    <3>2. \A r \in 1 .. m + 1 : 1 .. r - 1 \subseteq 1 .. m
      OBVIOUS
    <3>3. QED
      BY <3>1, <3>2 DEF Rooted
  <2>6. h = [r \in 1 .. m + 1 |-> h[r]]
    OBVIOUS
  <2>7. h[m + 1] = IF m + 1 = 1 THEN <<>> ELSE Append(g[rules[m + 1].parent], rules[m + 1].type)
    OBVIOUS
  <2> HIDE DEF h
  <2>8. ASSUME NEW r \in 1 .. m + 1
        PROVE  h[r] = IF r = 1 THEN <<>> ELSE Append(h[rules[r].parent], rules[r].type)
    <3>1. r # 1 => h[rules[r].parent] = g[rules[r].parent]
      BY <2>4, <2>5
    <3>2. CASE r = m + 1
      BY <2>7, <3>1, <3>2
    <3>3. CASE r # m + 1
      <4>1. r \in 1 .. m
        BY <3>3
      <4>2. g[r] = IF r = 1 THEN <<>> ELSE Append(g[rules[r].parent], rules[r].type)
        BY <2>3, <4>1 DEF TypesTo
      <4>3. QED
        BY <2>4, <3>1, <4>1, <4>2
    <3>4. QED
      BY <3>2, <3>3
  <2>9. TypesTo(h, m + 1)
    BY <2>6, <2>8 DEF TypesTo
  <2>10. QED
    BY <2>9
<1> HIDE DEF S
<1>3. n \in S
  BY <1>1, <1>2, AllNaturals
<1>4. QED
  BY <1>3 DEF S

LEMMA TypesAgree ==
  ASSUME Rooted(rules), NEW n \in Nat, NEW m \in Nat, n <= m, m <= Len(rules),
         NEW g, TypesTo(g, n), NEW h, TypesTo(h, m)
  PROVE  \A r \in 1 .. n : g[r] = h[r]
<1> DEFINE S == {r \in 1 .. n : g[r] = h[r]}
<1>1. ASSUME NEW r \in 1 .. n, \A q \in 1 .. r - 1 : q \in S
      PROVE  r \in S
  <2>1. r \in 1 .. m /\ r \in 1 .. Len(rules)
    BY DEF Rooted, IsSequence
  <2>2. g[r] = IF r = 1 THEN <<>> ELSE Append(g[rules[r].parent], rules[r].type)
    BY DEF TypesTo
  <2>3. h[r] = IF r = 1 THEN <<>> ELSE Append(h[rules[r].parent], rules[r].type)
    BY <2>1 DEF TypesTo
  <2>4. r # 1 => rules[r].parent \in 1 .. r - 1
    BY <2>1 DEF Rooted
  <2>5. r # 1 => g[rules[r].parent] = h[rules[r].parent]
    BY <1>1, <2>4
  <2>6. QED
    BY <2>2, <2>3, <2>5
<1> HIDE DEF S
<1>2. \A r \in 1 .. n : r \in S
  BY <1>1, AllBelow
<1>3. QED
  BY <1>2 DEF S

LEMMA TypesGiven ==
  ASSUME Rooted(rules), NEW r \in 1 .. Len(rules)
  PROVE  \E g : TypesTo(g, r) /\ TypesOfRule(r) = g[r]
<1> DEFINE IsIt(g) == g = [k \in 1 .. r |-> IF k = 1 THEN <<>> ELSE Append(g[rules[k].parent], rules[k].type)]
<1>1. \E g : IsIt(g)
  <2>1. r \in Nat /\ r <= Len(rules)
    BY DEF Rooted, IsSequence
  <2>2. QED
    BY <2>1, TypesExist DEF TypesTo
<1>2. TypesOfRule(r) = (CHOOSE g : IsIt(g))[r]
  BY DEF TypesOfRule
<1>3. IsIt(CHOOSE g : IsIt(g))
  BY <1>1
<1>4. QED
  BY <1>2, <1>3 DEF TypesTo

LEMMA TypesAre ==
  ASSUME Rooted(rules), NEW r \in 1 .. Len(rules)
  PROVE  TypesOfRule(r) = IF r = 1 THEN <<>> ELSE Append(TypesOfRule(rules[r].parent), rules[r].type)
<1>1. PICK g : TypesTo(g, r) /\ TypesOfRule(r) = g[r]
  BY TypesGiven
<1>2. r \in Nat /\ Len(rules) \in Nat /\ r <= Len(rules) /\ r \in 1 .. r
  BY DEF Rooted, IsSequence
<1>3. g[r] = IF r = 1 THEN <<>> ELSE Append(g[rules[r].parent], rules[r].type)
  BY <1>1, <1>2 DEF TypesTo
<1>4. CASE r = 1
  BY <1>1, <1>3, <1>4
<1>5. CASE r # 1
  <2> DEFINE p == rules[r].parent
  <2>1. p \in 1 .. r - 1
    BY <1>5 DEF Rooted
  <2> HIDE DEF p
  <2>2. p \in 1 .. Len(rules) /\ p \in Nat /\ p <= r /\ p \in 1 .. p
    BY <1>2, <2>1
  <2>3. PICK h : TypesTo(h, p) /\ TypesOfRule(p) = h[p]
    BY <2>2, TypesGiven
  <2>4. h[p] = g[p]
    BY <1>1, <1>2, <2>2, <2>3, TypesAgree
  <2>5. QED
    BY <1>1, <1>3, <1>5, <2>3, <2>4 DEF p
<1>6. QED
  BY <1>4, <1>5

LEMMA TypesAreSequences ==
  ASSUME Rooted(rules)
  PROVE  \A r \in 1 .. Len(rules) : IsSequence(TypesOfRule(r))
<1> DEFINE S == {r \in 1 .. Len(rules) : IsSequence(TypesOfRule(r))}
<1>1. Len(rules) \in Nat
  BY DEF Rooted, IsSequence
<1>2. ASSUME NEW r \in 1 .. Len(rules), \A q \in 1 .. r - 1 : q \in S
      PROVE  r \in S
  <2>1. CASE r = 1
    BY <2>1, TypesAre, ShortSequences
  <2>2. CASE r # 1
    <3>1. IsSequence(TypesOfRule(rules[r].parent))
      BY <1>2, <2>2 DEF Rooted
    <3>2. TypesOfRule(r) = Append(TypesOfRule(rules[r].parent), rules[r].type)
      BY <2>2, TypesAre
    <3>3. IsSequence(Append(TypesOfRule(rules[r].parent), rules[r].type))
      BY <3>1, AppendSequence
    <3>4. QED
      BY <3>2, <3>3
  <2>3. QED
    BY <2>1, <2>2
<1> HIDE DEF S
<1>3. \A r \in 1 .. Len(rules) : r \in S
  BY <1>1, <1>2, AllBelow
<1>4. QED
  BY <1>3 DEF S

\* Different rules are in different places.
LEMMA TypesDiffer ==
  ASSUME Rooted(rules), RulesAreUnique
  PROVE  \A r, q \in 1 .. Len(rules) : TypesOfRule(r) = TypesOfRule(q) => r = q
<1> DEFINE S == {r \in 1 .. Len(rules) : \A q \in 1 .. Len(rules) : TypesOfRule(r) = TypesOfRule(q) => r = q}
<1>1. Len(rules) \in Nat /\ DOMAIN rules = 1 .. Len(rules)
  BY DEF Rooted, IsSequence
<1>2. ASSUME NEW r \in 1 .. Len(rules), \A q \in 1 .. r - 1 : q \in S
      PROVE  r \in S
  <2>1. SUFFICES ASSUME NEW q \in 1 .. Len(rules), TypesOfRule(r) = TypesOfRule(q) PROVE r = q
    OBVIOUS
  <2>2. ASSUME NEW k \in 1 .. Len(rules), k # 1
        PROVE  /\ rules[k].parent \in 1 .. k - 1 /\ rules[k].parent \in 1 .. Len(rules)
               /\ IsSequence(TypesOfRule(rules[k].parent))
               /\ TypesOfRule(k) = Append(TypesOfRule(rules[k].parent), rules[k].type)
               /\ TypesOfRule(k) # <<>>
    <3>1. rules[k].parent \in 1 .. k - 1
      BY <2>2 DEF Rooted
    <3>2. rules[k].parent \in 1 .. Len(rules)
      BY <1>1, <3>1
    <3>3. IsSequence(TypesOfRule(rules[k].parent)) /\ TypesOfRule(k) = Append(TypesOfRule(rules[k].parent), rules[k].type)
      BY <2>2, <3>2, TypesAreSequences, TypesAre
    <3>4. QED
      BY <3>1, <3>2, <3>3, AppendNonEmpty
  <2>3. TypesOfRule(r) = <<>> <=> r = 1
    BY <2>2, TypesAre
  <2>4. TypesOfRule(q) = <<>> <=> q = 1
    BY <2>2, TypesAre
  <2>5. CASE r = 1
    BY <2>1, <2>3, <2>4, <2>5
  <2>6. CASE r # 1
    <3>1. q # 1
      BY <2>1, <2>3, <2>4, <2>6
    <3>2. TypesOfRule(rules[r].parent) = TypesOfRule(rules[q].parent) /\ rules[r].type = rules[q].type
      <4>1. /\ IsSequence(TypesOfRule(rules[r].parent))
            /\ TypesOfRule(r) = Append(TypesOfRule(rules[r].parent), rules[r].type)
        BY <2>2, <2>6
      <4>2. /\ IsSequence(TypesOfRule(rules[q].parent))
            /\ TypesOfRule(q) = Append(TypesOfRule(rules[q].parent), rules[q].type)
        BY <2>2, <3>1
      <4> HIDE DEF S
      <4>3. Append(TypesOfRule(rules[r].parent), rules[r].type) = Append(TypesOfRule(rules[q].parent), rules[q].type)
        BY <2>1, <4>1, <4>2
      <4>4. QED
        BY <4>1, <4>2, <4>3, AppendsDiffer
    <3>3. rules[r].parent = rules[q].parent
      BY <1>2, <2>2, <2>6, <3>1, <3>2
    <3>4. QED
      BY <1>1, <3>2, <3>3 DEF RulesAreUnique
  <2>7. QED
    BY <2>5, <2>6
<1> HIDE DEF S
<1>3. \A r \in 1 .. Len(rules) : r \in S
  BY <1>1, <1>2, AllBelow
<1>4. QED
  BY <1>3 DEF S

\* A rule whose declaration stands where its parent's leads has the labels for its types.
LEMMA TypesFollow ==
  ASSUME Rooted(rules), NEW d, NEW of, of[1] = <<>>,
         \A r \in 1 .. Len(rules) : r # 1 => /\ of[r] \in Seq(Nat) /\ of[r] # <<>>
                                             /\ of[rules[r].parent] = Front(of[r])
                                             /\ rules[r].type = Label(ItemAt(d, of[r]))
  PROVE  \A r \in 1 .. Len(rules) : TypesOfRule(r) = LabelsTo(d, of[r])
<1> DEFINE S == {r \in 1 .. Len(rules) : TypesOfRule(r) = LabelsTo(d, of[r])}
<1>1. Len(rules) \in Nat
  BY DEF Rooted, IsSequence
<1>2. ASSUME NEW r \in 1 .. Len(rules), \A q \in 1 .. r - 1 : q \in S
      PROVE  r \in S
  <2>1. CASE r = 1
    BY <2>1, TypesAre, LabelsOfNone
  <2>2. CASE r # 1
    <3>1. of[r] \in Seq(Nat) /\ of[r] # <<>> /\ of[rules[r].parent] = Front(of[r]) /\ rules[r].type = Label(ItemAt(d, of[r]))
      BY <2>2
    <3>2. TypesOfRule(rules[r].parent) = LabelsTo(d, of[rules[r].parent])
      BY <1>2, <2>2 DEF Rooted
    <3>3. Front(of[r]) \in Seq(Nat) /\ Last(of[r]) \in Nat /\ of[r] = Append(Front(of[r]), Last(of[r]))
      BY <3>1, PathEnds
    <3>4. LabelsTo(d, of[r]) = Append(LabelsTo(d, Front(of[r])), Label(ItemAt(d, of[r])))
      <4> DEFINE f == Front(of[r])
                 l == Last(of[r])
      <4>1. f \in Seq(Nat) /\ l \in Nat /\ of[r] = Append(f, l) /\ ItemAt(d, of[r]) = BodyAt(d, f)[l]
        BY <3>3 DEF ItemAt
      <4> HIDE DEF f, l
      <4>2. LabelsTo(d, Append(f, l)) = Append(LabelsTo(d, f), Label(BodyAt(d, f)[l]))
        BY <4>1, LabelsOfMore
      <4>3. LabelsTo(d, of[r]) = Append(LabelsTo(d, f), Label(ItemAt(d, of[r])))
        BY <4>1, <4>2
      <4>4. QED
        BY <4>3 DEF f
    <3>5. TypesOfRule(r) = Append(TypesOfRule(rules[r].parent), rules[r].type)
      BY <2>2, TypesAre
    <3>6. QED
      BY <3>1, <3>2, <3>4, <3>5
  <2>3. QED
    BY <2>1, <2>2
<1> HIDE DEF S
<1>3. \A r \in 1 .. Len(rules) : r \in S
  BY <1>1, <1>2, AllBelow
<1>4. QED
  BY <1>3 DEF S

-----------------------------------------------------------------------------
(* The bodies being read, and the rules made of what has been read *)

LEMMA FrontSequence ==
  ASSUME NEW s, IsSequence(s), s # <<>>
  PROVE  /\ IsSequence(Front(s)) /\ Len(s) \in Nat /\ Len(s) # 0 /\ Len(Front(s)) = Len(s) - 1
         /\ \A n \in 1 .. Len(s) - 1 : Front(s)[n] = s[n]
         /\ Last(s) = s[Len(s)]
<1>1. Len(s) \in Nat /\ Len(s) # 0
  BY NonEmpty DEF IsSequence
<1> DEFINE k == Len(s) - 1
<1>2. k \in Nat /\ k <= Len(s)
  BY <1>1
<1> HIDE DEF k
<1>3. IsSequence(SubSeq(s, 1, k)) /\ Len(SubSeq(s, 1, k)) = k /\ \A n \in 1 .. k : SubSeq(s, 1, k)[n] = s[n]
  BY <1>2, PrefixSequence
<1>4. QED
  BY <1>1, <1>3 DEF Front, Last, k

LEMMA LastReplaced ==
  ASSUME NEW s, IsSequence(s), s # <<>>, NEW x
  PROVE  LET t == Append(Front(s), x)
         IN  /\ IsSequence(t) /\ t # <<>> /\ Len(t) = Len(s)
             /\ \A n \in 1 .. Len(s) : n # Len(s) => t[n] = s[n]
             /\ t[Len(s)] = x
<1> DEFINE f == Front(s)
           t == Append(f, x)
<1>1. /\ IsSequence(f) /\ Len(s) \in Nat /\ Len(s) # 0 /\ Len(f) = Len(s) - 1
      /\ \A n \in 1 .. Len(s) - 1 : f[n] = s[n]
  BY FrontSequence
<1> HIDE DEF f
<1>2. IsSequence(t) /\ Len(t) = Len(f) + 1 /\ (\A n \in 1 .. Len(f) : t[n] = f[n]) /\ t[Len(f) + 1] = x /\ t # <<>>
  BY <1>1, AppendSequence, AppendNonEmpty
<1> HIDE DEF t
<1>3. Len(f) + 1 = Len(s) /\ \A n \in 1 .. Len(s) : n # Len(s) => n \in 1 .. Len(f) /\ n \in 1 .. Len(s) - 1
  BY <1>1
<1>4. QED
  BY <1>1, <1>2, <1>3 DEF t, f

\* The frames are those of the bodies that lead to the place c, which is where the innermost is.
Follows(fs, d, c) ==
  /\ IsSequence(fs) /\ c \in Seq(Nat) /\ c # <<>> /\ Len(fs) = Len(c)
  /\ IsPath(d, Front(c)) /\ Last(c) \in 1 .. Len(BodyAt(d, Front(c))) + 1
  /\ \A n \in 1 .. Len(c) :
       fs[n] = [rule |-> fs[n].rule, body |-> BodyAt(d, SubSeq(c, 1, n - 1)), i |-> IF n = Len(c) THEN c[n] ELSE c[n] + 1]

\* Rule r is the one of the block at of[r]: each has the rule of the block around it for a parent.
Traced(rs, d, c, of) ==
  /\ Rooted(rs) /\ Len(rs) # 0 /\ of[1] = <<>>
  /\ \A r \in 1 .. Len(rs) : r # 1 => /\ IsInner(d, of[r]) /\ Before(of[r], c)
                                      /\ of[rs[r].parent] = Front(of[r])
                                      /\ rs[r].type = Label(ItemAt(d, of[r]))
  /\ \A r, q \in 1 .. Len(rs) : of[r] = of[q] => r = q
  /\ \A q : IsInner(d, q) /\ Before(q, c) => \E r \in 1 .. Len(rs) : of[r] = q

\* A rule has the attributes of its body, or of what has been read of it.
Filled(fs, rs, d, c, of) ==
  /\ \A n \in 1 .. Len(fs) : fs[n].rule \in 1 .. Len(rs) /\ of[fs[n].rule] = SubSeq(c, 1, n - 1)
  /\ \A n \in 1 .. Len(fs) : n # 1 => rs[fs[n].rule].attrs = AttrsOf(fs[n].body, fs[n].i - 1)
  /\ \A r \in 1 .. Len(rs) : r # 1 /\ (\A n \in 1 .. Len(fs) : fs[n].rule # r) =>
       rs[r].attrs = AttrsOf(BodyAt(d, of[r]), Len(BodyAt(d, of[r])))

Declared(d, c) == \A q : IsSpot(d, q) /\ Before(q, c) => Declares(BodyAt(d, Front(q)), Last(q), Front(q) = <<>>)

Loaded(fs, rs, s, d, c, of) ==
  /\ Follows(fs, d, c)
  /\ Traced(rs, d, c, of)
  /\ Filled(fs, rs, d, c, of)
  /\ Declared(d, c)
  /\ StrictIs(s, d, fs[1].i - 1)

LInv ==
  status = "loading" =>
    /\ reading[1].body \in Declarations
    /\ \E c, of : Loaded(reading, rules, strict, reading[1].body, c, of)

\* Where a load is.
Standing(d, c, of) ==
  /\ status = "loading" /\ d \in Declarations /\ WellFormed(d) /\ RulesInv
  /\ Loaded(reading, rules, strict, d, c, of)

LEMMA InLoad ==
  ASSUME LInv, RulesInv, status = "loading"
  PROVE  LET d == reading[1].body IN \E c, of : Standing(d, c, of)
BY DocumentsAreWellFormed DEF LInv, Standing

LEMMA LoadedHere ==
  ASSUME NEW d, NEW c, NEW of, Standing(d, c, of)
  PROVE  LET p == Front(c)
             i == Last(c)
             body == BodyAt(d, p)
         IN  /\ p \in Seq(Nat) /\ i \in Nat /\ c \in Seq(Nat) /\ c = Append(p, i) /\ Len(c) = Len(p) + 1 /\ Len(p) \in Nat
             /\ IsSequence(reading) /\ reading # <<>> /\ Len(reading) = Len(c)
             /\ Last(reading) = reading[Len(c)]
             /\ Last(reading) = [rule |-> Level, body |-> body, i |-> i]
             /\ IsPath(d, p) /\ IsBody(body) /\ Len(body) \in Nat /\ DOMAIN body = 1 .. Len(body)
             /\ AtEnd <=> i = Len(body) + 1
             /\ ~AtEnd => Item = body[i] /\ i \in 1 .. Len(body) /\ IsSpot(d, c) /\ ItemAt(d, c) = body[i]
             /\ Level \in 1 .. Len(rules) /\ of[Level] = p
             /\ Level = 1 <=> p = <<>>
<1> DEFINE p == Front(c)
           i == Last(c)
           body == BodyAt(d, p)
<1>1. Follows(reading, d, c) /\ Traced(rules, d, c, of) /\ Filled(reading, rules, d, c, of) /\ WellFormed(d)
  BY DEF Standing, Loaded
<1>2. /\ c \in Seq(Nat) /\ c # <<>> /\ IsSequence(reading) /\ Len(reading) = Len(c)
      /\ IsPath(d, p) /\ i \in 1 .. Len(body) + 1
  BY <1>1 DEF Follows
<1>3. /\ p \in Seq(Nat) /\ i \in Nat /\ c = Append(p, i) /\ Len(c) = Len(p) + 1 /\ c[Len(c)] = i /\ Len(p) \in Nat
  BY <1>2, PathEnds DEF Last
<1>4. reading # <<>> /\ Last(reading) = reading[Len(c)]
  <2>1. Len(reading) # 0
    BY <1>2, <1>3
  <2>2. QED
    BY <1>2, <2>1, NonEmpty DEF Last
<1>5. IsBody(body) /\ Len(body) \in Nat /\ DOMAIN body = 1 .. Len(body)
  BY <1>1, <1>2, <1>3, BodyNumbers
<1>6. SubSeq(c, 1, Len(c) - 1) = p
  BY DEF Front
<1>7. Len(c) \in 1 .. Len(c)
  BY <1>3
<1>8. Last(reading) = [rule |-> Level, body |-> body, i |-> i]
  <2>1. reading[Len(c)] = [rule |-> reading[Len(c)].rule, body |-> BodyAt(d, SubSeq(c, 1, Len(c) - 1)), i |-> c[Len(c)]]
    BY <1>1, <1>7 DEF Follows
  <2>2. QED
    BY <1>3, <1>4, <1>6, <2>1 DEF Level
<1>9. Level \in 1 .. Len(rules) /\ of[Level] = p
  <2>1. reading[Len(c)].rule \in 1 .. Len(rules) /\ of[reading[Len(c)].rule] = SubSeq(c, 1, Len(c) - 1)
    BY <1>1, <1>2, <1>7 DEF Filled
  <2>2. QED
    BY <1>4, <1>6, <2>1 DEF Level
<1>10. Level = 1 <=> p = <<>>
  <2>1. of[1] = <<>> /\ 1 \in 1 .. Len(rules) /\ \A r, q \in 1 .. Len(rules) : of[r] = of[q] => r = q
    BY <1>1, <1>9 DEF Traced
  <2>2. QED
    BY <1>9, <2>1
<1>11. Last(reading).body = body /\ Last(reading).i = i
  BY <1>8
<1>12. AtEnd <=> i = Len(body) + 1
  <2>1. AtEnd <=> i > Len(body)
    BY <1>11 DEF AtEnd
  <2> HIDE DEF body, i
  <2>2. QED
    BY <1>2, <1>5, <2>1
<1>13. ASSUME ~AtEnd
       PROVE  Item = body[i] /\ i \in 1 .. Len(body) /\ IsSpot(d, c) /\ ItemAt(d, c) = body[i]
  <2>1. i \in 1 .. Len(body)
    <3> HIDE DEF body, i
    <3>1. QED
      BY <1>2, <1>5, <1>12, <1>13
  <2>2. Item = body[i]
    BY <1>11 DEF Item
  <2>3. QED
    BY <1>2, <1>3, <1>5, <2>1, <2>2 DEF IsSpot, ItemAt
<1>14. QED
  BY <1>2, <1>3, <1>4, <1>5, <1>8, <1>9, <1>10, <1>12, <1>13

\* Where a declaration is wrong, the document declares no schema.
LEMMA WrongHereIsWrong ==
  ASSUME NEW d, NEW c, NEW of, Standing(d, c, of), ~AtEnd,
         ~Declares(BodyAt(d, Front(c)), Last(c), Front(c) = <<>>)
  PROVE  ~DeclaresSchema(d)
<1>1. Front(c) \in Seq(Nat) /\ IsPath(d, Front(c)) /\ Last(c) \in DOMAIN BodyAt(d, Front(c))
  BY LoadedHere
<1>2. Front(c) \in PathsOf(d, MaxDepth)
  BY <1>1, AllPathsListed DEF Standing
<1>3. QED
  BY <1>1, <1>2 DEF DeclaresSchema

LEMMA Numbers ==
  /\ DOMAIN <<>> = {}
  /\ \A n \in Nat : \A i \in 1 .. n : \A j \in 1 .. i - 1 : j \in 1 .. n
OBVIOUS

LEMMA NoPairs ==
  ASSUME NEW v, NEW n \in Nat, DOMAIN v = 1 .. n, \A i \in 1 .. n : \A j \in 1 .. i - 1 : v[j] # v[i]
  PROVE  ~Repeats(v)
<1>1. ASSUME NEW i \in 1 .. n, NEW j \in 1 .. n, i # j
      PROVE  v[i] # v[j]
  <2>1. i \in 1 .. j - 1 \/ j \in 1 .. i - 1
    BY <1>1
  <2>2. QED
    BY <2>1
<1>2. QED
  BY <1>1 DEF Repeats

\* The values of an enum that is right are distinct.
LEMMA NoRepeats ==
  ASSUME NEW form, NEW name, FormError(form) = "", HasItems(form)
  PROVE  ~Repeats(AttrOf(name, form).values)
<1>1. CASE form.enum = <<>>
  <2>1. AttrOf(name, form).values = <<>>
    BY <1>1 DEF AttrOf, Attr
  <2>2. QED
    BY <2>1, Numbers DEF Repeats
<1>2. CASE form.enum # <<>>
  <2> DEFINE x == form.enum[1]
             v == AttrOf(name, form).values
  <2>1. EnumError(x) = ""
    BY <1>2 DEF FormError
  <2>2. x.e = "tuple" /\ \A i \in DOMAIN x.items : ~IsWrong(x.items, i)
    BY <2>1 DEF EnumError
  <2>3. IsSequence(x.items)
    BY <1>2, <2>2 DEF HasItems
  <2>4. v = [i \in DOMAIN x.items |-> x.items[i].value.s]
    BY <1>2 DEF AttrOf, Attr
  <2> HIDE DEF x, v
  <2>5. PICK n \in Nat : DOMAIN x.items = 1 .. n
    BY <2>3 DEF IsSequence
  <2>6. \A i \in 1 .. n : \A j \in 1 .. i - 1 : x.items[j].value.s # x.items[i].value.s
    BY <2>2, <2>5 DEF IsWrong
  <2>7. \A i \in 1 .. n : \A j \in 1 .. i - 1 : v[j] # v[i]
    BY <2>4, <2>5, <2>6, Numbers
  <2>8. QED
    BY <2>4, <2>5, <2>7, NoPairs DEF v
<1>3. QED
  BY <1>1, <1>2

-----------------------------------------------------------------------------
(* An attribute is read. *)

LEMMA ConsumeIs ==
  ASSUME NEW d, NEW c, NEW of, Standing(d, c, of)
  PROVE  /\ IsSequence(Consume) /\ Len(Consume) = Len(c) /\ Consume # <<>>
         /\ \A n \in 1 .. Len(c) : n # Len(c) => Consume[n] = reading[n]
         /\ Consume[Len(c)] = [rule |-> Level, body |-> BodyAt(d, Front(c)), i |-> Last(c) + 1]
<1> DEFINE x == [Last(reading) EXCEPT !.i = @ + 1]
<1>1. IsSequence(reading) /\ reading # <<>> /\ Len(reading) = Len(c)
  BY LoadedHere
<1>2. Last(reading) = [rule |-> Level, body |-> BodyAt(d, Front(c)), i |-> Last(c)]
  BY LoadedHere
<1>3. x = [rule |-> Level, body |-> BodyAt(d, Front(c)), i |-> Last(c) + 1]
  BY <1>2
<1>4. Consume = Append(Front(reading), x)
  BY DEF Consume
<1> HIDE DEF x
<1>5. QED
  BY <1>1, <1>3, <1>4, LastReplaced

LEMMA PlaceNext ==
  ASSUME NEW d, NEW c, NEW of, Standing(d, c, of)
  PROVE  LET e == Append(Front(c), Last(c) + 1)
         IN  /\ e \in Seq(Nat) /\ e # <<>> /\ Len(e) = Len(c) /\ Front(e) = Front(c) /\ Last(e) = Last(c) + 1
             /\ \A n \in 1 .. Len(c) : SubSeq(e, 1, n - 1) = SubSeq(c, 1, n - 1)
             /\ \A n \in 1 .. Len(c) : n # Len(c) => e[n] = c[n]
             /\ e[Len(c)] = Last(c) + 1 /\ c[Len(c)] = Last(c)
<1> DEFINE p == Front(c)
           i == Last(c)
           e == Append(p, i + 1)
<1>1. p \in Seq(Nat) /\ i \in Nat /\ i + 1 \in Nat /\ c = Append(p, i) /\ Len(c) = Len(p) + 1 /\ Len(p) \in Nat
  BY LoadedHere
<1> HIDE DEF p, i
<1>2. /\ e \in Seq(Nat) /\ Len(e) = Len(p) + 1 /\ e[Len(p) + 1] = i + 1
      /\ \A m \in 1 .. Len(p) : e[m] = p[m]
      /\ \A m \in 0 .. Len(p) : SubSeq(e, 1, m) = SubSeq(p, 1, m)
  BY <1>1, PrefixOfAppend
<1>3. /\ c[Len(p) + 1] = i
      /\ \A m \in 1 .. Len(p) : c[m] = p[m]
      /\ \A m \in 0 .. Len(p) : SubSeq(c, 1, m) = SubSeq(p, 1, m)
  BY <1>1, PrefixOfAppend
<1>4. Front(e) = p /\ Last(e) = i + 1 /\ e # <<>>
  BY <1>1, PathIsEmptyOrNot
<1> HIDE DEF e
<1>5. ASSUME NEW n \in 1 .. Len(c)
      PROVE  SubSeq(e, 1, n - 1) = SubSeq(c, 1, n - 1) /\ (n # Len(c) => e[n] = c[n])
  <2>1. n - 1 \in 0 .. Len(p) /\ (n # Len(c) => n \in 1 .. Len(p))
    BY <1>1
  <2>2. QED
    BY <1>2, <1>3, <2>1
<1>6. QED
  BY <1>1, <1>2, <1>3, <1>4, <1>5 DEF p, i, e

LEMMA AttrRead ==
  ASSUME NEW d, NEW c, NEW of, Standing(d, c, of), ~AtEnd, ~IsBlock(Item),
         Declares(BodyAt(d, Front(c)), Last(c), Front(c) = <<>>)
  PROVE  LET e == Append(Front(c), Last(c) + 1)
         IN  /\ Follows(Consume, d, e)
             /\ Declared(d, e)
             /\ \A rs : Traced(rs, d, c, of) => Traced(rs, d, e, of)
<1> DEFINE p == Front(c)
           i == Last(c)
           e == Append(p, i + 1)
<1>1. /\ p \in Seq(Nat) /\ i \in Nat /\ c = Append(p, i) /\ IsPath(d, p) /\ ~IsBlock(BodyAt(d, p)[i])
      /\ Len(BodyAt(d, p)) \in Nat /\ i \in 1 .. Len(BodyAt(d, p)) /\ Len(c) = Len(p) + 1 /\ Len(p) \in Nat
  BY LoadedHere
<1>2. WellFormed(d) /\ Follows(reading, d, c) /\ Declared(d, c)
  BY DEF Standing, Loaded
<1>3. /\ e \in Seq(Nat) /\ e # <<>> /\ Len(e) = Len(c) /\ Front(e) = p /\ Last(e) = i + 1
      /\ \A n \in 1 .. Len(c) : SubSeq(e, 1, n - 1) = SubSeq(c, 1, n - 1)
      /\ \A n \in 1 .. Len(c) : n # Len(c) => e[n] = c[n]
      /\ e[Len(c)] = i + 1
  BY PlaceNext
<1>4. /\ IsSequence(Consume) /\ Len(Consume) = Len(c)
      /\ \A n \in 1 .. Len(c) : n # Len(c) => Consume[n] = reading[n]
      /\ Consume[Len(c)] = [rule |-> Level, body |-> BodyAt(d, p), i |-> i + 1]
  BY ConsumeIs
<1>5. SubSeq(c, 1, Len(c) - 1) = p
  BY DEF Front
<1>6. ASSUME NEW q, IsSpot(d, q)
      PROVE  Before(q, e) <=> Before(q, c) \/ q = c
  BY <1>1, <1>2, <1>6, SpotsNext
<1> HIDE DEF p, i, e
<1>7. Follows(Consume, d, e)
  <2>1. ASSUME NEW n \in 1 .. Len(c)
        PROVE  Consume[n] = [rule |-> Consume[n].rule, body |-> BodyAt(d, SubSeq(e, 1, n - 1)),
                             i |-> IF n = Len(c) THEN e[n] ELSE e[n] + 1]
    <3>1. CASE n = Len(c)
      <4>1. SubSeq(e, 1, n - 1) = p
        BY <1>3, <1>5, <3>1
      <4>2. Consume[n] = [rule |-> Level, body |-> BodyAt(d, SubSeq(e, 1, n - 1)), i |-> e[n]]
        BY <1>3, <1>4, <3>1, <4>1
      <4>3. Consume[n].rule = Level
        BY <4>2
      <4>4. QED
        BY <3>1, <4>2, <4>3
    <3>2. CASE n # Len(c)
      <4>1. reading[n] = [rule |-> reading[n].rule, body |-> BodyAt(d, SubSeq(c, 1, n - 1)), i |-> c[n] + 1]
        BY <1>2, <3>2 DEF Follows
      <4>2. QED
        BY <1>3, <1>4, <3>2, <4>1
    <3>3. QED
      BY <3>1, <3>2
  <2>2. Last(e) \in 1 .. Len(BodyAt(d, p)) + 1
    BY <1>1, <1>3
  <2>3. QED
    BY <1>1, <1>3, <1>4, <2>1, <2>2 DEF Follows
<1>8. Declared(d, e)
  <2>1. Declares(BodyAt(d, Front(c)), Last(c), Front(c) = <<>>)
    OBVIOUS
  <2>2. QED
    BY <1>2, <1>6, <2>1 DEF Declared
<1>9. ASSUME NEW rs, Traced(rs, d, c, of)
      PROVE  Traced(rs, d, e, of)
  <2>1. ~IsInner(d, c)
    BY <1>1, PathOfAppend, InnerIsPath DEF BlocksIn
  <2>2. \A q : IsInner(d, q) => (Before(q, e) <=> Before(q, c))
    BY <1>6, <2>1 DEF IsInner
  <2>3. QED
    BY <1>9, <2>2 DEF Traced
<1>10. QED
  BY <1>7, <1>8, <1>9 DEF p, i, e

\* A load goes on, or ends where a declaration is wrong.
GoesOn(d) == status' = "loading" /\ \E c, of : Loaded(reading', rules', strict', d, c, of)
Fails(d)  == status' = "failed" /\ ~DeclaresSchema(d)

\* The frames have different rules.
LEMMA FramesDiffer ==
  ASSUME NEW d, NEW c, NEW of, Standing(d, c, of)
  PROVE  \A n \in 1 .. Len(c) : n # Len(c) => reading[n].rule # Level
<1>1. ASSUME NEW n \in 1 .. Len(c), n # Len(c)
      PROVE  reading[n].rule # Level
  <2>1. of[reading[n].rule] = SubSeq(c, 1, n - 1)
    BY LoadedHere DEF Standing, Loaded, Filled
  <2>2. of[Level] = Front(c) /\ Len(c) = Len(Front(c)) + 1 /\ c \in Seq(Nat) /\ Len(Front(c)) \in Nat
    BY LoadedHere
  <2>3. Len(SubSeq(c, 1, n - 1)) = n - 1
    BY <2>2
  <2>4. n - 1 # Len(Front(c))
    BY <1>1, <2>2
  <2>5. QED
    BY <2>1, <2>2, <2>3, <2>4
<1>2. QED
  BY <1>1

LEMMA ConsumeRules ==
  ASSUME NEW d, NEW c, NEW of, Standing(d, c, of)
  PROVE  \A n \in 1 .. Len(c) : Consume[n].rule = reading[n].rule
<1>1. Consume[Len(c)].rule = Level /\ Level = reading[Len(c)].rule
  <2>1. Consume[Len(c)].rule = Level
    <3>1. Consume[Len(c)] = [rule |-> Level, body |-> BodyAt(d, Front(c)), i |-> Last(c) + 1]
      BY ConsumeIs
    <3>2. QED
      BY <3>1
  <2>2. Last(reading) = reading[Len(c)]
    BY LoadedHere
  <2>3. QED
    BY <2>1, <2>2 DEF Level
<1>2. QED
  BY <1>1, ConsumeIs

LEMMA LoadTopAttrStep ==
  ASSUME NEW d, NEW c, NEW of, Standing(d, c, of), LoadTopAttr
  PROVE  GoesOn(d) \/ Fails(d)
<1> DEFINE p == Front(c)
           i == Last(c)
           e == Append(p, i + 1)
<1>1. ~AtEnd /\ Level = 1 /\ Item.item = "attr"
  BY DEF LoadTopAttr, Reading
<1>2. /\ p = <<>> /\ i \in Nat /\ Len(c) = Len(p) + 1 /\ Item = BodyAt(d, p)[i]
      /\ i \in 1 .. Len(BodyAt(d, p))
  BY <1>1, LoadedHere
<1>3. Len(c) = 1 /\ BodyAt(d, p) = d
  BY <1>2, BodyOfEmpty
<1>4. Item = d[i]
  BY <1>2, <1>3
<1>5. IsAttr(Item) /\ ~IsBlock(Item)
  BY <1>1 DEF IsAttr, IsBlock
<1>6. Declares(BodyAt(d, p), i, p = <<>>) <=>
        Item.name = "strict" /\ Item.value.e = "lit" /\ IsBool(Item.value.value)
  BY <1>2, <1>3, <1>4, <1>5 DEF Declares
<1>7. CASE ~Declares(BodyAt(d, p), i, p = <<>>)
  <2>1. \E why : LoadFails(why)
    BY <1>6, <1>7 DEF LoadTopAttr
  <2>2. ~DeclaresSchema(d)
    BY <1>1, <1>7, WrongHereIsWrong
  <2>3. QED
    BY <2>1, <2>2 DEF Fails, LoadFails
<1>8. CASE Declares(BodyAt(d, p), i, p = <<>>)
  <2>1. /\ strict' = Item.value.value.b /\ reading' = Consume
        /\ rules' = rules /\ status' = status
    BY <1>6, <1>8 DEF LoadTopAttr
  <2>2. /\ Follows(Consume, d, e) /\ Declared(d, e)
        /\ \A rs : Traced(rs, d, c, of) => Traced(rs, d, e, of)
    BY <1>1, <1>5, <1>8, AttrRead
  <2>3. status = "loading" /\ Traced(rules, d, c, of) /\ Filled(reading, rules, d, c, of)
    BY DEF Standing, Loaded
  <2>4. Len(reading) = 1 /\ Len(Consume) = 1 /\ Consume[1].i = i + 1 /\ Consume[1].rule = reading[1].rule
    <3>1. /\ Len(reading) = Len(c) /\ Len(Consume) = Len(c)
          /\ Consume[Len(c)] = [rule |-> Level, body |-> BodyAt(d, p), i |-> i + 1]
      BY LoadedHere, ConsumeIs
    <3>2. Len(c) \in 1 .. Len(c)
      BY <1>3
    <3>3. Consume[Len(c)].i = i + 1
      BY <3>1
    <3>4. QED
      BY <1>3, <3>1, <3>2, <3>3, ConsumeRules
  <2>5. SubSeq(e, 1, 1 - 1) = SubSeq(c, 1, 1 - 1)
    <3>1. 1 \in 1 .. Len(c)
      BY <1>3
    <3>2. QED
      BY <3>1, PlaceNext
  <2> HIDE DEF e, p, i
  <2>6. Filled(Consume, rules, d, e, of)
    <3>1. \A n : n \in 1 .. 1 <=> n = 1
      OBVIOUS
    <3>2. QED
      BY <2>3, <2>4, <2>5, <3>1 DEF Filled
  <2>7. StrictIs(strict', d, Consume[1].i - 1)
    <3>1. Consume[1].i - 1 = i /\ i \in 1 .. i /\ i + 1 .. i = {}
      BY <1>2, <2>4
    <3>2. strict' = d[i].value.value.b /\ IsAttr(d[i]) /\ ~IsBlock(d[i])
      BY <1>4, <1>5, <2>1
    <3>3. StrictIs(strict', d, i)
      BY <3>1, <3>2 DEF StrictIs
    <3>4. QED
      BY <3>1, <3>3
  <2>8. Loaded(Consume, rules, strict', d, e, of)
    BY <2>2, <2>3, <2>6, <2>7 DEF Loaded
  <2>9. QED
    BY <2>1, <2>3, <2>8 DEF GoesOn
<1>9. QED
  BY <1>7, <1>8

\* The attribute rule of an item that is right is added.
LEMMA AttrMade ==
  ASSUME NEW d, NEW c, NEW of, Standing(d, c, of), ~AtEnd, Level # 1, IsAttr(Item), ~IsBlock(Item),
         Declares(BodyAt(d, Front(c)), Last(c), Front(c) = <<>>)
  PROVE  \E e : Loaded(Consume, WithAttr(Level, AttrOf(Item.name, ReadForm(Item.value))), strict, d, e, of)
<1> DEFINE p == Front(c)
           i == Last(c)
           body == BodyAt(d, p)
           e == Append(p, i + 1)
           a == AttrOf(Item.name, ReadForm(Item.value))
           rs == WithAttr(Level, a)
<1>1. /\ i \in Nat /\ Item = body[i] /\ i \in 1 .. Len(body) /\ Len(c) = Len(p) + 1 /\ Len(p) \in Nat
      /\ Level \in 1 .. Len(rules) /\ of[Level] = p /\ p # <<>> /\ p \in Seq(Nat)
      /\ Last(reading) = [rule |-> Level, body |-> body, i |-> i] /\ Last(reading) = reading[Len(c)]
      /\ Len(reading) = Len(c)
  BY LoadedHere
<1>2. /\ Follows(Consume, d, e) /\ Declared(d, e)
      /\ Traced(rs, d, c, of) => Traced(rs, d, e, of)
  BY AttrRead
<1>3. /\ Traced(rules, d, c, of) /\ Filled(reading, rules, d, c, of) /\ StrictIs(strict, d, reading[1].i - 1)
      /\ IsRules(rules) /\ Rooted(rules) /\ DOMAIN rules = 1 .. Len(rules)
  BY DEF Standing, Loaded, RulesInv, IsRules, Traced, IsSequence
<1>4. /\ IsSequence(rs) /\ Len(rs) = Len(rules)
      /\ \A r \in 1 .. Len(rules) : r # Level => rs[r] = rules[r]
      /\ rs[Level] = [parent |-> rules[Level].parent, type |-> rules[Level].type,
                      attrs |-> Append(rules[Level].attrs, a)]
  <2>1. Level \in DOMAIN rules
    BY <1>1, <1>3
  <2> HIDE DEF a
  <2>2. QED
    BY <1>3, <2>1, WithAttrIs
<1>5. Len(c) # 1 /\ Len(c) \in 1 .. Len(c) /\ 1 \in 1 .. Len(c)
  BY <1>1
<1>6. /\ Len(Consume) = Len(c) /\ \A n \in 1 .. Len(c) : n # Len(c) => Consume[n] = reading[n]
      /\ Consume[Len(c)] = [rule |-> Level, body |-> body, i |-> i + 1]
      /\ \A n \in 1 .. Len(c) : Consume[n].rule = reading[n].rule
  BY ConsumeIs, ConsumeRules
<1>7. /\ \A n \in 1 .. Len(c) : SubSeq(e, 1, n - 1) = SubSeq(c, 1, n - 1)
      /\ \A n \in 1 .. Len(c) : n # Len(c) => reading[n].rule # Level
  BY PlaceNext, FramesDiffer
<1>8. rules[Level].attrs = AttrsOf(body, i - 1)
  <2>1. rules[reading[Len(c)].rule].attrs = AttrsOf(reading[Len(c)].body, reading[Len(c)].i - 1)
    BY <1>1, <1>3, <1>5 DEF Filled
  <2>2. reading[Len(c)].rule = Level /\ reading[Len(c)].body = body /\ reading[Len(c)].i = i
    BY <1>1
  <2>3. QED
    BY <2>1, <2>2
<1>9. rs[Level].attrs = AttrsOf(body, i)
  <2> DEFINE k == i - 1
  <2>1. k \in Nat /\ k + 1 = i
    BY <1>1
  <2> HIDE DEF k
  <2>2. AttrsOf(body, k + 1) = IF IsAttr(body[k + 1])
                                 THEN Append(AttrsOf(body, k), AttrOf(body[k + 1].name, ReadForm(body[k + 1].value)))
                                 ELSE AttrsOf(body, k)
    BY <2>1, AttrsOfMore
  <2>3. AttrsOf(body, i) = Append(AttrsOf(body, k), AttrOf(body[i].name, ReadForm(body[i].value)))
    BY <1>1, <2>1, <2>2
  <2>4. AttrsOf(body, i) = Append(rules[Level].attrs, a)
    BY <1>1, <1>8, <2>3 DEF k
  <2>5. QED
    BY <1>4, <2>4
<1> HIDE DEF p, i, body, e, a, rs
<1>10. Traced(rs, d, c, of)
  <2>1. \A r \in 1 .. Len(rules) : rs[r].parent = rules[r].parent /\ rs[r].type = rules[r].type
    BY <1>4
  <2>2. Len(rs) = Len(rules) /\ Len(rules) # 0 /\ of[1] = <<>>
    BY <1>3, <1>4 DEF Traced
  <2>3. Rooted(rs)
    <3>1. rules[1].parent = 0 /\ \A r \in 1 .. Len(rules) : r # 1 => rules[r].parent \in 1 .. r - 1
      BY <1>3 DEF Rooted
    <3>2. Len(rules) \in Nat /\ 1 \in 1 .. Len(rules)
      BY <1>3, <2>2 DEF Rooted, IsSequence
    <3>3. rs[1].parent = 0
      BY <2>1, <3>1, <3>2
    <3>4. \A r \in 1 .. Len(rs) : r # 1 => rs[r].parent \in 1 .. r - 1
      BY <2>1, <2>2, <3>1
    <3>5. QED
      BY <1>4, <3>3, <3>4 DEF Rooted
  <2>4. \A r \in 1 .. Len(rs) : r # 1 => /\ IsInner(d, of[r]) /\ Before(of[r], c)
                                       /\ of[rs[r].parent] = Front(of[r])
                                       /\ rs[r].type = Label(ItemAt(d, of[r]))
    BY <1>3, <2>1, <2>2 DEF Traced
  <2>5. \A r, q \in 1 .. Len(rs) : of[r] = of[q] => r = q
    BY <1>3, <2>2 DEF Traced
  <2>6. \A q : IsInner(d, q) /\ Before(q, c) => \E r \in 1 .. Len(rs) : of[r] = q
    BY <1>3, <2>2 DEF Traced
  <2>7. QED
    BY <2>2, <2>3, <2>4, <2>5, <2>6 DEF Traced
<1>11. Filled(Consume, rs, d, e, of)
  <2>1. \A n \in 1 .. Len(c) : Consume[n].rule \in 1 .. Len(rs) /\ of[Consume[n].rule] = SubSeq(e, 1, n - 1)
    BY <1>1, <1>3, <1>4, <1>6, <1>7 DEF Filled
  <2>2. ASSUME NEW n \in 1 .. Len(c), n # 1
        PROVE  rs[Consume[n].rule].attrs = AttrsOf(Consume[n].body, Consume[n].i - 1)
    <3>1. CASE n = Len(c)
      <4>1. Consume[n].rule = Level /\ Consume[n].body = body /\ Consume[n].i = i + 1
        BY <1>6, <3>1
      <4>2. (i + 1) - 1 = i
        BY <1>1
      <4>3. QED
        BY <1>9, <4>1, <4>2
    <3>2. CASE n # Len(c)
      <4>1. reading[n].rule # Level /\ reading[n].rule \in 1 .. Len(rules)
        BY <1>1, <1>3, <1>7, <3>2 DEF Filled
      <4>2. rs[reading[n].rule] = rules[reading[n].rule] /\ Consume[n] = reading[n]
        BY <1>4, <1>6, <3>2, <4>1
      <4>3. rules[reading[n].rule].attrs = AttrsOf(reading[n].body, reading[n].i - 1)
        BY <1>1, <1>3, <2>2 DEF Filled
      <4>4. QED
        BY <4>2, <4>3
    <3>3. QED
      BY <3>1, <3>2
  <2>3. ASSUME NEW r \in 1 .. Len(rs), r # 1, \A n \in 1 .. Len(c) : Consume[n].rule # r
        PROVE  rs[r].attrs = AttrsOf(BodyAt(d, of[r]), Len(BodyAt(d, of[r])))
    <3>1. r # Level /\ \A n \in 1 .. Len(c) : reading[n].rule # r
      BY <1>5, <1>6, <2>3
    <3>2. rs[r] = rules[r] /\ r \in 1 .. Len(rules)
      BY <1>4, <3>1
    <3>3. QED
      BY <1>1, <1>3, <2>3, <3>1, <3>2 DEF Filled
  <2>4. QED
    BY <1>6, <2>1, <2>2, <2>3 DEF Filled
<1>12. StrictIs(strict, d, Consume[1].i - 1)
  BY <1>3, <1>5, <1>6
<1>13. Loaded(Consume, rs, strict, d, e, of)
  BY <1>2, <1>10, <1>11, <1>12 DEF Loaded
<1>14. QED
  BY <1>13 DEF rs, a

\* A name is taken when an item before this one declares it.
LEMMA NameTaken ==
  ASSUME NEW d, NEW c, NEW of, Standing(d, c, of), Level # 1, NEW name
  PROVE  FindAttr(Level, name) # 0 <=>
           \E j \in 1 .. Last(c) - 1 : IsAttr(BodyAt(d, Front(c))[j]) /\ BodyAt(d, Front(c))[j].name = name
<1> DEFINE body == BodyAt(d, Front(c))
           i == Last(c)
           attrs == rules[Level].attrs
<1>1. /\ i \in 1 .. Len(body) + 1 /\ Len(body) \in Nat /\ Len(c) \in Nat /\ Len(c) # 1 /\ Len(reading) = Len(c)
      /\ Last(reading) = [rule |-> Level, body |-> body, i |-> i] /\ Last(reading) = reading[Len(c)]
      /\ Level \in 1 .. Len(rules) /\ Len(c) \in 1 .. Len(c)
  <2>1. /\ Len(c) = Len(Front(c)) + 1 /\ Len(Front(c)) \in Nat /\ (Level = 1 <=> Front(c) = <<>>) /\ Front(c) \in Seq(Nat)
        /\ Last(reading) = [rule |-> Level, body |-> body, i |-> i] /\ Last(reading) = reading[Len(c)]
        /\ Level \in 1 .. Len(rules) /\ Len(body) \in Nat /\ Len(reading) = Len(c)
    BY LoadedHere
  <2>2. i \in 1 .. Len(body) + 1
    BY DEF Standing, Loaded, Follows
  <2>3. Len(Front(c)) # 0
    BY <2>1
  <2>4. QED
    BY <2>1, <2>2, <2>3
<1>2. attrs = AttrsOf(body, i - 1)
  <2>1. rules[reading[Len(c)].rule].attrs = AttrsOf(reading[Len(c)].body, reading[Len(c)].i - 1)
    BY <1>1 DEF Standing, Loaded, Filled
  <2>2. reading[Len(c)].rule = Level /\ reading[Len(c)].body = body /\ reading[Len(c)].i = i
    BY <1>1
  <2>3. QED
    BY <2>1, <2>2
<1>3. i - 1 \in Nat
  BY <1>1
<1> HIDE DEF body, i
<1>4. IsSequence(attrs) /\ ((\E k \in DOMAIN attrs : attrs[k].name = name)
                               <=> \E j \in 1 .. i - 1 : IsAttr(body[j]) /\ body[j].name = name)
  BY <1>2, <1>3, AttrsNames
<1>5. FindAttr(Level, name) # 0 <=> \E k \in DOMAIN attrs : attrs[k].name = name
  <2> DEFINE I == {k \in DOMAIN attrs : attrs[k].name = name}
  <2>1. IsFirstIn(FindAttr(Level, name), I)
    BY <1>4, AttrIs
  <2>2. 0 \notin DOMAIN attrs
    BY <1>4 DEF IsSequence
  <2>3. QED
    BY <2>1, <2>2 DEF IsFirstIn
<1>6. QED
  BY <1>4, <1>5 DEF body, i

\* An attribute of a block is right when its form is and its name is not taken.
LEMMA AttrIsRight ==
  ASSUME NEW d, NEW c, NEW of, Standing(d, c, of), ~AtEnd, Level # 1, IsAttr(Item), ~IsBlock(Item)
  PROVE  Declares(BodyAt(d, Front(c)), Last(c), Front(c) = <<>>)
           <=> FormError(ReadForm(Item.value)) = "" /\ MayAdd(Level, AttrOf(Item.name, ReadForm(Item.value)))
<1> DEFINE p == Front(c)
           i == Last(c)
           body == BodyAt(d, p)
           form == ReadForm(Item.value)
           a == AttrOf(Item.name, form)
<1>1. /\ p # <<>> /\ Item = body[i] /\ i \in DOMAIN body /\ p \in Seq(Nat) /\ IsPath(d, p)
  BY LoadedHere
<1>2. HasItems(form)
  <2>1. p \in PathsOf(d, MaxDepth) /\ d \in Declarations
    BY <1>1, AllPathsListed DEF Standing
  <2>2. QED
    BY <1>1, <2>1, ListsAssumption
<1>3. a.name = Item.name
  BY DEF AttrOf, Attr
<1>4. FindAttr(Level, Item.name) # 0 <=> \E j \in 1 .. i - 1 : IsAttr(body[j]) /\ body[j].name = Item.name
  BY NameTaken
<1> HIDE DEF form, a
<1>5. Declares(body, i, p = <<>>) <=>
        FormError(form) = "" /\ \A j \in 1 .. i - 1 : IsAttr(body[j]) => body[j].name # Item.name
  BY <1>1 DEF Declares, form
<1>6. FormError(form) = "" => (MayAdd(Level, a) <=> FindAttr(Level, Item.name) = 0)
  BY <1>2, <1>3, NoRepeats DEF MayAdd, a
<1> HIDE DEF p, i, body
<1>7. Declares(body, i, p = <<>>) <=> FormError(form) = "" /\ MayAdd(Level, a)
  BY <1>4, <1>5, <1>6
<1>8. QED
  BY <1>7 DEF p, i, body, form, a

LEMMA LoadAttrStep ==
  ASSUME NEW d, NEW c, NEW of, Standing(d, c, of), LoadAttr
  PROVE  GoesOn(d) \/ Fails(d)
<1> DEFINE right == Declares(BodyAt(d, Front(c)), Last(c), Front(c) = <<>>)
           made == AttrOf(Item.name, ReadForm(Item.value))
<1>1. ~AtEnd /\ Level # 1 /\ Item.item = "attr" /\ LoadForm(ReadForm(Item.value))
  BY DEF LoadAttr, Reading
<1>2. IsAttr(Item) /\ ~IsBlock(Item)
  BY <1>1 DEF IsAttr, IsBlock
<1>3. right <=> FormError(ReadForm(Item.value)) = "" /\ MayAdd(Level, made)
  BY <1>1, <1>2, AttrIsRight
<1>4. CASE ~right
  <2>1. \E why : LoadFails(why)
    BY <1>1, <1>3, <1>4 DEF LoadForm
  <2>2. ~DeclaresSchema(d)
    BY <1>1, <1>4, WrongHereIsWrong
  <2>3. QED
    BY <2>1, <2>2 DEF Fails, LoadFails
<1>5. CASE right
  <2>1. rules' = WithAttr(Level, made) /\ reading' = Consume /\ strict' = strict /\ status' = "loading"
    BY <1>1, <1>3, <1>5 DEF LoadForm, Standing
  <2>2. PICK e : Loaded(Consume, WithAttr(Level, made), strict, d, e, of)
    BY <1>1, <1>2, <1>5, AttrMade
  <2>3. Loaded(reading', rules', strict', d, e, of)
    BY <2>1, <2>2
  <2>4. QED
    BY <2>1, <2>3 DEF GoesOn
<1>6. QED
  BY <1>4, <1>5

-----------------------------------------------------------------------------
(* A block is entered. *)

LEMMA BeforeBeside ==
  ASSUME NEW p \in Seq(Nat), NEW j \in Nat, NEW i \in Nat
  PROVE  Before(Append(p, j), Append(p, i)) <=> j < i
<1> DEFINE q == Append(p, j)
           c == Append(p, i)
<1>1. Len(p) \in Nat /\ (\A m \in 1 .. Len(p) : q[m] = p[m] /\ c[m] = p[m]) /\ q[Len(p) + 1] = j /\ c[Len(p) + 1] = i
  BY PrefixOfAppend
<1>2. DOMAIN q = 1 .. Len(p) + 1 /\ DOMAIN c = 1 .. Len(p) + 1 /\ Len(q) = Len(p) + 1
  OBVIOUS
<1>3. \A m \in 1 .. Len(p) : p[m] \in Nat
  OBVIOUS
<1> HIDE DEF q, c
<1>4. ASSUME j < i
      PROVE  Before(q, c)
  <2>1. Len(p) + 1 \in DOMAIN c /\ Len(p) + 1 <= Len(q) + 1 /\ \A m \in 1 .. Len(p) + 1 - 1 : m \in 1 .. Len(p)
    BY <1>1, <1>2
  <2>2. QED
    BY <1>1, <1>4, <2>1 DEF Before
<1>5. ASSUME Before(q, c)
      PROVE  j < i
  <2>1. PICK n \in DOMAIN c : (\A m \in 1 .. n - 1 : q[m] = c[m]) /\ (n \in DOMAIN q => q[n] < c[n])
    BY <1>5 DEF Before
  <2>2. n \in 1 .. Len(p) \/ n = Len(p) + 1
    BY <1>1, <1>2
  <2>3. n \notin 1 .. Len(p)
    BY <1>1, <1>2, <1>3, <2>1
  <2>4. QED
    BY <1>1, <1>2, <2>1, <2>2, <2>3
<1>6. QED
  BY <1>4, <1>5 DEF q, c

\* There is a rule at this level for a label when a block before this one has it.
LEMMA LabelTaken ==
  ASSUME NEW d, NEW c, NEW of, Standing(d, c, of), NEW label
  PROVE  FindBlock(Level, label) # 0 <=>
           \E j \in 1 .. Last(c) - 1 : IsBlock(BodyAt(d, Front(c))[j]) /\ Label(BodyAt(d, Front(c))[j]) = label
<1> DEFINE p == Front(c)
           i == Last(c)
           body == BodyAt(d, p)
           I == {r \in DOMAIN rules : rules[r].parent = Level /\ rules[r].type = label}
<1>1. /\ p \in Seq(Nat) /\ i \in Nat /\ c = Append(p, i) /\ IsPath(d, p) /\ DOMAIN body = 1 .. Len(body)
      /\ Len(body) \in Nat /\ Level \in 1 .. Len(rules) /\ of[Level] = p
  BY LoadedHere
<1>2. i \in 1 .. Len(body) + 1
  BY DEF Standing, Loaded, Follows
<1>3. Traced(rules, d, c, of) /\ IsSequence(rules) /\ DOMAIN rules = 1 .. Len(rules) /\ Len(rules) \in Nat
  BY DEF Standing, Loaded, Traced, Rooted, IsSequence
<1>4. FindBlock(Level, label) # 0 <=> I # {}
  <2>1. IsFirstIn(FindBlock(Level, label), I)
    BY <1>3, RuleIs
  <2>2. 0 \notin I
    BY <1>3
  <2>3. QED
    BY <2>1, <2>2 DEF IsFirstIn
<1>5. ASSUME NEW r \in I
      PROVE  \E j \in 1 .. i - 1 : IsBlock(body[j]) /\ Label(body[j]) = label
  <2>1. r \in 1 .. Len(rules) /\ rules[r].parent = Level /\ rules[r].type = label /\ r # 1
    BY <1>1, <1>3 DEF Traced, Rooted
  <2>2. IsInner(d, of[r]) /\ Before(of[r], c) /\ p = Front(of[r]) /\ label = Label(ItemAt(d, of[r]))
    BY <1>1, <1>3, <2>1 DEF Traced
  <2> DEFINE j == Last(of[r])
  <2>3. of[r] \in Seq(Nat) /\ of[r] # <<>> /\ j \in DOMAIN body /\ IsBlock(body[j]) /\ ItemAt(d, of[r]) = body[j]
    BY <2>2 DEF IsInner, IsSpot, ItemAt
  <2>4. of[r] = Append(p, j) /\ j \in Nat
    BY <2>2, <2>3, PathEnds
  <2>5. j < i
    BY <1>1, <2>2, <2>4, BeforeBeside
  <2> HIDE DEF j, body
  <2>6. j \in 1 .. i - 1
    BY <1>1, <1>2, <2>3, <2>5
  <2>7. QED
    BY <2>2, <2>3, <2>6
<1>6. ASSUME NEW j \in 1 .. i - 1, IsBlock(body[j]), Label(body[j]) = label
      PROVE  I # {}
  <2> DEFINE q == Append(p, j)
  <2>1. j \in Nat /\ j < i /\ j \in DOMAIN body
    <3> HIDE DEF body, i
    <3>1. QED
      BY <1>1, <1>2
  <2>2. IsSpot(d, q) /\ ItemAt(d, q) = body[j]
    BY <1>1, <2>1, SpotOf
  <2>3. Front(q) = p /\ q # <<>> /\ Before(q, c)
    BY <1>1, <2>1, PathIsEmptyOrNot, BeforeBeside
  <2>4. PICK r \in 1 .. Len(rules) : of[r] = q
    BY <1>3, <1>6, <2>2, <2>3 DEF Traced, IsInner
  <2>5. r # 1
    BY <1>3, <2>3, <2>4 DEF Traced
  <2>6. rules[r].parent \in 1 .. Len(rules) /\ of[rules[r].parent] = p /\ rules[r].type = label
    <3>1. rules[r].parent \in 1 .. r - 1
      BY <1>3, <2>5 DEF Traced, Rooted
    <3>2. rules[r].parent \in 1 .. Len(rules)
      BY <1>3, <3>1
    <3>3. of[rules[r].parent] = Front(of[r]) /\ rules[r].type = Label(ItemAt(d, of[r]))
      BY <1>3, <2>5 DEF Traced
    <3>4. Label(ItemAt(d, of[r])) = label
      BY <1>6, <2>2, <2>4
    <3>5. QED
      BY <2>3, <2>4, <3>2, <3>3, <3>4
  <2>7. rules[r].parent = Level
    <3>1. \A x, y \in 1 .. Len(rules) : of[x] = of[y] => x = y
      BY <1>3 DEF Traced
    <3>2. QED
      BY <1>1, <2>6, <3>1
  <2>8. QED
    BY <1>3, <2>6, <2>7
<1>7. QED
  BY <1>4, <1>5, <1>6

\* Before the body of a block there is what is before the block, and the block itself.
LEMMA BlockFollows ==
  ASSUME NEW d, NEW c, NEW of, Standing(d, c, of), ~AtEnd, IsBlock(Item),
         Declares(BodyAt(d, Front(c)), Last(c), Front(c) = <<>>)
  PROVE  LET e == Append(c, 1)
         IN  /\ Follows(Append(Consume, Frame(Len(rules) + 1, Item.body)), d, e)
             /\ Declared(d, e)
             /\ IsInner(d, c) /\ ItemAt(d, c) = Item /\ BodyAt(d, c) = Item.body
             /\ \A n \in 1 .. Len(c) : SubSeq(e, 1, n - 1) = SubSeq(c, 1, n - 1)
             /\ SubSeq(e, 1, Len(c)) = c
<1> DEFINE e == Append(c, 1)
           new == Frame(Len(rules) + 1, Item.body)
           fs == Append(Consume, new)
<1>1. /\ c \in Seq(Nat) /\ c = Append(Front(c), Last(c)) /\ Front(c) \in Seq(Nat) /\ Last(c) \in Nat
      /\ Item = BodyAt(d, Front(c))[Last(c)] /\ IsSpot(d, c) /\ ItemAt(d, c) = Item /\ Len(c) \in Nat
      /\ c[Len(c)] = Last(c)
  <2>1. c[Len(c)] = Last(c)
    BY PlaceNext
  <2>2. /\ c \in Seq(Nat) /\ c = Append(Front(c), Last(c)) /\ Front(c) \in Seq(Nat) /\ Last(c) \in Nat
        /\ Len(c) = Len(Front(c)) + 1 /\ Len(Front(c)) \in Nat
    BY LoadedHere
  <2>3. Item = BodyAt(d, Front(c))[Last(c)] /\ IsSpot(d, c) /\ ItemAt(d, c) = Item
    BY LoadedHere
  <2>4. QED
    BY <2>1, <2>2, <2>3
<1>2. IsInner(d, c) /\ IsPath(d, c) /\ BodyAt(d, c) = Item.body
  <2>1. IsInner(d, c)
    BY <1>1 DEF IsInner
  <2>2. BodyAt(d, Append(Front(c), Last(c))) = Item.body
    BY <1>1, BodyOfAppend
  <2>3. QED
    BY <1>1, <2>1, <2>2, InnerIsPath
<1>3. WellFormed(d) /\ Follows(reading, d, c) /\ Declared(d, c)
  BY DEF Standing, Loaded
<1>4. /\ e \in Seq(Nat) /\ Len(e) = Len(c) + 1 /\ e[Len(c) + 1] = 1 /\ e # <<>> /\ Front(e) = c /\ Last(e) = 1
      /\ \A m \in 1 .. Len(c) : e[m] = c[m]
      /\ \A m \in 0 .. Len(c) : SubSeq(e, 1, m) = SubSeq(c, 1, m)
      /\ SubSeq(e, 1, Len(c)) = c
  BY <1>1, PrefixOfAppend, PathIsEmptyOrNot
<1> HIDE DEF e
<1>5. \A n \in 1 .. Len(c) : SubSeq(e, 1, n - 1) = SubSeq(c, 1, n - 1)
  <2>1. \A n \in 1 .. Len(c) : n - 1 \in 0 .. Len(c)
    BY <1>1
  <2>2. QED
    BY <1>4, <2>1
<1>6. /\ IsSequence(Consume) /\ Len(Consume) = Len(c)
      /\ \A n \in 1 .. Len(c) : n # Len(c) => Consume[n] = reading[n]
      /\ Consume[Len(c)] = [rule |-> Level, body |-> BodyAt(d, Front(c)), i |-> Last(c) + 1]
  BY ConsumeIs
<1>7. /\ IsSequence(fs) /\ Len(fs) = Len(c) + 1 /\ fs[Len(c) + 1] = new
      /\ \A n \in 1 .. Len(c) : fs[n] = Consume[n]
  BY <1>6, AppendSequence
<1>8. new = [rule |-> new.rule, body |-> BodyAt(d, c), i |-> 1]
  BY <1>2 DEF Frame
<1>9. Last(e) \in 1 .. Len(BodyAt(d, c)) + 1
  <2>1. Len(BodyAt(d, c)) \in Nat
    BY <1>1, <1>2, <1>3, BodyNumbers
  <2>2. QED
    BY <1>4, <2>1
<1> HIDE DEF fs, new
<1>10. Follows(fs, d, e)
  <2>1. ASSUME NEW n \in 1 .. Len(c) + 1
        PROVE  fs[n] = [rule |-> fs[n].rule, body |-> BodyAt(d, SubSeq(e, 1, n - 1)),
                        i |-> IF n = Len(c) + 1 THEN e[n] ELSE e[n] + 1]
    <3>1. CASE n = Len(c) + 1
      <4>1. n - 1 = Len(c)
        BY <1>1, <3>1
      <4>2. QED
        BY <1>4, <1>7, <1>8, <3>1, <4>1
    <3>2. CASE n = Len(c)
      <4>1. n # Len(c) + 1 /\ n \in 1 .. Len(c)
        BY <1>1, <3>2
      <4>2. SubSeq(e, 1, n - 1) = Front(c)
        BY <1>5, <3>2, <4>1 DEF Front
      <4>3. fs[n] = [rule |-> Level, body |-> BodyAt(d, SubSeq(e, 1, n - 1)), i |-> e[n] + 1]
        BY <1>1, <1>4, <1>6, <1>7, <3>2, <4>1, <4>2
      <4>4. fs[n].rule = Level
        BY <4>3
      <4>5. QED
        BY <4>1, <4>3, <4>4
    <3>3. CASE n # Len(c) + 1 /\ n # Len(c)
      <4>1. n \in 1 .. Len(c)
        BY <1>1, <3>3
      <4>2. reading[n] = [rule |-> reading[n].rule, body |-> BodyAt(d, SubSeq(c, 1, n - 1)), i |-> c[n] + 1]
        BY <1>3, <3>3, <4>1 DEF Follows
      <4>3. fs[n] = reading[n] /\ e[n] = c[n] /\ SubSeq(e, 1, n - 1) = SubSeq(c, 1, n - 1)
        BY <1>4, <1>5, <1>6, <1>7, <3>3, <4>1
      <4>4. QED
        BY <3>3, <4>2, <4>3
    <3>4. QED
      BY <3>1, <3>2, <3>3
  <2>2. QED
    BY <1>2, <1>4, <1>7, <1>9, <2>1 DEF Follows
<1>11. Declared(d, e)
  <2>1. \A q : IsSpot(d, q) => (Before(q, e) <=> Before(q, c) \/ q = c)
    BY <1>1, <1>3, SpotsInside DEF e
  <2>2. Declares(BodyAt(d, Front(c)), Last(c), Front(c) = <<>>)
    OBVIOUS
  <2>3. QED
    BY <1>3, <2>1, <2>2 DEF Declared
<1>12. QED
  BY <1>1, <1>2, <1>4, <1>5, <1>10, <1>11 DEF e, fs, new

\* The rules and their places when a rule is added for the place c.
WithPlace(of, c) == [r \in 1 .. Len(rules) + 1 |-> IF r = Len(rules) + 1 THEN c ELSE of[r]]

LEMMA RulesWith ==
  ASSUME NEW d, NEW c, NEW of, Standing(d, c, of), NEW label
  PROVE  LET rs == WithRule(Level, label)
             to == WithPlace(of, c)
             k  == Len(rules) + 1
         IN  /\ IsSequence(rs) /\ Len(rs) = k /\ Len(rules) \in Nat /\ Level \in 1 .. Len(rules) /\ 1 \in 1 .. Len(rules)
             /\ \A r \in 1 .. Len(rules) : rs[r] = rules[r] /\ to[r] = of[r] /\ r # k /\ r \in 1 .. k
             /\ \A r \in 1 .. k : r \in 1 .. Len(rules) \/ r = k
             /\ k \in 1 .. k /\ k # 1 /\ to[k] = c /\ rs[k].parent = Level /\ rs[k].type = label /\ rs[k].attrs = <<>>
<1> DEFINE k == Len(rules) + 1
<1>1. IsSequence(rules) /\ Level \in 1 .. Len(rules)
  BY LoadedHere DEF Standing, Loaded, Traced, Rooted
<1>2. Len(rules) \in Nat /\ k \in 1 .. k /\ 1 \in 1 .. Len(rules) /\ k # 1
  BY <1>1 DEF IsSequence
<1>3. \A r \in 1 .. Len(rules) : r # k /\ r \in 1 .. k
  BY <1>2
<1>4. \A r \in 1 .. k : r \in 1 .. Len(rules) \/ r = k
  BY <1>2
<1>5. /\ IsSequence(WithRule(Level, label)) /\ Len(WithRule(Level, label)) = k
      /\ \A r \in 1 .. Len(rules) : WithRule(Level, label)[r] = rules[r]
      /\ WithRule(Level, label)[k] = Rule(Level, label)
  BY <1>1, AppendSequence DEF WithRule
<1>6. /\ WithPlace(of, c)[k] = c
      /\ \A r \in 1 .. Len(rules) : WithPlace(of, c)[r] = of[r]
  BY <1>2, <1>3 DEF WithPlace
<1> HIDE DEF k
<1>7. /\ WithRule(Level, label)[k].parent = Level /\ WithRule(Level, label)[k].type = label
      /\ WithRule(Level, label)[k].attrs = <<>>
  BY <1>5 DEF Rule
<1>8. QED
  BY <1>1, <1>2, <1>3, <1>4, <1>5, <1>6, <1>7 DEF k

LEMMA BlockTraced ==
  ASSUME NEW d, NEW c, NEW of, Standing(d, c, of), ~AtEnd, IsBlock(Item),
         Declares(BodyAt(d, Front(c)), Last(c), Front(c) = <<>>)
  PROVE  Traced(WithRule(Level, Label(Item)), d, Append(c, 1), WithPlace(of, c))
<1> DEFINE rs == WithRule(Level, Label(Item))
           to == WithPlace(of, c)
           k  == Len(rules) + 1
           e  == Append(c, 1)
<1>1. /\ IsSequence(rs) /\ Len(rs) = k /\ Len(rules) \in Nat /\ Level \in 1 .. Len(rules) /\ 1 \in 1 .. Len(rules)
      /\ \A r \in 1 .. Len(rules) : rs[r] = rules[r] /\ to[r] = of[r] /\ r # k /\ r \in 1 .. k
      /\ \A r \in 1 .. k : r \in 1 .. Len(rules) \/ r = k
      /\ k \in 1 .. k /\ k # 1 /\ to[k] = c /\ rs[k].parent = Level /\ rs[k].type = Label(Item)
  BY RulesWith
<1>2. Traced(rules, d, c, of) /\ WellFormed(d)
  BY DEF Standing, Loaded
<1>3. c \in Seq(Nat) /\ c # <<>> /\ of[Level] = Front(c) /\ IsInner(d, c) /\ ItemAt(d, c) = Item
  BY LoadedHere, BlockFollows, NonEmpty
<1>4. \A q : IsSpot(d, q) => (Before(q, e) <=> Before(q, c) \/ q = c)
  BY <1>2, <1>3, SpotsInside
<1>5. ~Before(c, c)
  BY <1>3, NotBeforeItself
<1> HIDE DEF rs, to, e
<1>6. Rooted(rs)
  <2>1. ASSUME NEW r \in 1 .. k, r # 1
        PROVE  rs[r].parent \in 1 .. r - 1
    <3>1. CASE r \in 1 .. Len(rules)
      <4>1. rules[r].parent \in 1 .. r - 1
        BY <1>2, <2>1, <3>1 DEF Traced, Rooted
      <4>2. QED
        BY <1>1, <3>1, <4>1
    <3>2. CASE r = k
      <4>1. rs[r].parent \in 1 .. Len(rules)
        BY <1>1, <3>2
      <4>2. r - 1 = Len(rules)
        BY <1>1, <3>2
      <4>3. QED
        BY <4>1, <4>2
    <3>3. QED
      BY <1>1, <3>1, <3>2
  <2>2. rs[1].parent = 0
    BY <1>1, <1>2 DEF Traced, Rooted
  <2>3. QED
    BY <1>1, <2>1, <2>2 DEF Rooted
<1>7. \A r \in 1 .. Len(rules) : r # 1 => rules[r].parent \in 1 .. Len(rules)
  <2>1. \A r \in 1 .. Len(rules) : r # 1 => rules[r].parent \in 1 .. r - 1
    BY <1>2 DEF Traced, Rooted
  <2>2. \A r \in 1 .. Len(rules) : \A q \in 1 .. r - 1 : q \in 1 .. Len(rules)
    BY <1>1
  <2>3. QED
    BY <2>1, <2>2
<1>8. ASSUME NEW r \in 1 .. k, r # 1
      PROVE  /\ IsInner(d, to[r]) /\ Before(to[r], e)
             /\ to[rs[r].parent] = Front(to[r])
             /\ rs[r].type = Label(ItemAt(d, to[r]))
  <2>1. CASE r \in 1 .. Len(rules)
    <3>1. /\ IsInner(d, of[r]) /\ Before(of[r], c) /\ of[rules[r].parent] = Front(of[r])
          /\ rules[r].type = Label(ItemAt(d, of[r]))
      BY <1>2, <1>8, <2>1 DEF Traced
    <3>2. Before(of[r], e)
      BY <1>4, <3>1 DEF IsInner
    <3>3. to[r] = of[r] /\ rs[r] = rules[r] /\ to[rules[r].parent] = of[rules[r].parent]
      BY <1>1, <1>7, <1>8, <2>1
    <3>4. QED
      BY <3>1, <3>2, <3>3
  <2>2. CASE r = k
    <3>1. to[r] = c /\ rs[r].parent = Level /\ rs[r].type = Label(Item) /\ to[Level] = of[Level]
      BY <1>1, <2>2
    <3>2. Before(c, e)
      BY <1>3, <1>4 DEF IsInner
    <3>3. QED
      BY <1>3, <3>1, <3>2
  <2>3. QED
    BY <1>1, <2>1, <2>2
<1>9. \A r \in 1 .. Len(rules) : of[r] # c
  BY <1>2, <1>3, <1>5 DEF Traced
<1>10. \A r, q \in 1 .. k : to[r] = to[q] => r = q
  <2>1. \A r, q \in 1 .. Len(rules) : of[r] = of[q] => r = q
    BY <1>2 DEF Traced
  <2>2. QED
    BY <1>1, <1>9, <2>1
<1>11. ASSUME NEW q, IsInner(d, q), Before(q, e)
       PROVE  \E r \in 1 .. k : to[r] = q
  <2>1. CASE q = c
    BY <1>1, <2>1
  <2>2. CASE Before(q, c)
    <3>1. PICK r \in 1 .. Len(rules) : of[r] = q
      BY <1>2, <1>11, <2>2 DEF Traced
    <3>2. QED
      BY <1>1, <3>1
  <2>3. QED
    BY <1>4, <1>11, <2>1, <2>2 DEF IsInner
<1>12. to[1] = <<>> /\ k # 0
  BY <1>1, <1>2 DEF Traced
<1>13. QED
  BY <1>1, <1>6, <1>8, <1>10, <1>11, <1>12 DEF Traced, rs, to, e

LEMMA BlockFilled ==
  ASSUME NEW d, NEW c, NEW of, Standing(d, c, of), ~AtEnd, IsBlock(Item),
         Declares(BodyAt(d, Front(c)), Last(c), Front(c) = <<>>)
  PROVE  Filled(Append(Consume, Frame(Len(rules) + 1, Item.body)), WithRule(Level, Label(Item)), d,
                Append(c, 1), WithPlace(of, c))
<1> DEFINE rs == WithRule(Level, Label(Item))
           to == WithPlace(of, c)
           k  == Len(rules) + 1
           e  == Append(c, 1)
           new == Frame(k, Item.body)
           fs == Append(Consume, new)
           body == BodyAt(d, Front(c))
           i == Last(c)
           l == Len(c)
<1>1. /\ Len(rs) = k /\ Level \in 1 .. Len(rules)
      /\ \A r \in 1 .. Len(rules) : rs[r] = rules[r] /\ to[r] = of[r] /\ r # k /\ r \in 1 .. k
      /\ \A r \in 1 .. k : r \in 1 .. Len(rules) \/ r = k
      /\ k \in 1 .. k /\ to[k] = c /\ rs[k].attrs = <<>>
  BY RulesWith
<1>2. Filled(reading, rules, d, c, of)
  BY DEF Standing, Loaded
<1>3. /\ l \in Nat /\ Len(reading) = l /\ l \in 1 .. l /\ i \in Nat /\ i \in 1 .. Len(body) /\ Item = body[i]
      /\ Last(reading) = [rule |-> Level, body |-> body, i |-> i] /\ Last(reading) = reading[l]
  <2>1. Len(c) = Len(Front(c)) + 1 /\ Len(Front(c)) \in Nat
    BY LoadedHere
  <2>2. QED
    BY <2>1, LoadedHere
<1>4. /\ IsSequence(Consume) /\ Len(Consume) = l
      /\ \A n \in 1 .. l : n # l => Consume[n] = reading[n]
      /\ Consume[l] = [rule |-> Level, body |-> body, i |-> i + 1]
      /\ \A n \in 1 .. l : Consume[n].rule = reading[n].rule
  BY ConsumeIs, ConsumeRules
<1>5. /\ \A n \in 1 .. l : SubSeq(e, 1, n - 1) = SubSeq(c, 1, n - 1)
      /\ SubSeq(e, 1, l) = c
      /\ \A n \in 1 .. l : n # l => reading[n].rule # Level
  BY BlockFollows, FramesDiffer
<1>6. Len(fs) = l + 1 /\ fs[l + 1] = new /\ \A n \in 1 .. l : fs[n] = Consume[n]
  BY <1>4, AppendSequence
<1>7. new.rule = k /\ new.i = 1
  BY DEF Frame
<1>8. l # 1 => rules[Level].attrs = AttrsOf(body, i)
  <2>1. l # 1 => rules[reading[l].rule].attrs = AttrsOf(reading[l].body, reading[l].i - 1)
    BY <1>2, <1>3 DEF Filled
  <2>2. reading[l].rule = Level /\ reading[l].body = body /\ reading[l].i = i
    BY <1>3
  <2> DEFINE m == i - 1
  <2>3. m \in Nat /\ m + 1 = i
    BY <1>3
  <2>4. ~IsAttr(body[i])
    BY <1>3 DEF IsAttr, IsBlock
  <2> HIDE DEF m, body, i
  <2>5. AttrsOf(body, i) = AttrsOf(body, m)
    BY <2>3, <2>4, AttrsOfMore
  <2>6. QED
    BY <2>1, <2>2, <2>5 DEF m
<1> HIDE DEF rs, to, k, e, fs, new, body, i, l
<1>9. \A n \in 1 .. l + 1 : n \in 1 .. l \/ n = l + 1
  BY <1>3
<1>10. \A n \in 1 .. l : n \in 1 .. l + 1 /\ n # l + 1
  BY <1>3
<1>11. l + 1 \in 1 .. l + 1 /\ (l + 1) - 1 = l
  BY <1>3
<1>12. \A n \in 1 .. l : fs[n].rule = reading[n].rule /\ reading[n].rule \in 1 .. Len(rules) /\ of[reading[n].rule] = SubSeq(c, 1, n - 1)
  BY <1>2, <1>3, <1>4, <1>6 DEF Filled
<1>13. ASSUME NEW n \in 1 .. l + 1
       PROVE  fs[n].rule \in 1 .. k /\ to[fs[n].rule] = SubSeq(e, 1, n - 1)
  <2>1. CASE n \in 1 .. l
    BY <1>1, <1>5, <1>12, <2>1
  <2>2. CASE n = l + 1
    BY <1>1, <1>5, <1>6, <1>7, <1>11, <2>2
  <2>3. QED
    BY <1>9, <2>1, <2>2
<1>14. ASSUME NEW n \in 1 .. l + 1, n # 1
       PROVE  rs[fs[n].rule].attrs = AttrsOf(fs[n].body, fs[n].i - 1)
  <2>1. CASE n = l + 1
    <3>1. fs[n].rule = k /\ fs[n].i - 1 = 0
      BY <1>6, <1>7, <2>1
    <3>2. QED
      BY <1>1, <3>1, AttrsOfNone
  <2>2. CASE n = l
    <3>1. fs[n].rule = Level /\ fs[n].body = body /\ fs[n].i = i + 1 /\ rs[Level] = rules[Level]
      BY <1>1, <1>3, <1>4, <1>6, <2>2
    <3>2. (i + 1) - 1 = i
      BY <1>3
    <3>3. QED
      BY <1>8, <1>14, <2>2, <3>1, <3>2
  <2>3. CASE n \in 1 .. l /\ n # l
    <3>1. fs[n] = reading[n] /\ rs[reading[n].rule] = rules[reading[n].rule]
      BY <1>1, <1>4, <1>6, <1>12, <2>3
    <3>2. rules[reading[n].rule].attrs = AttrsOf(reading[n].body, reading[n].i - 1)
      BY <1>2, <1>3, <1>14, <2>3 DEF Filled
    <3>3. QED
      BY <3>1, <3>2
  <2>4. QED
    BY <1>9, <2>1, <2>2, <2>3
<1>15. ASSUME NEW r \in 1 .. k, r # 1, \A n \in 1 .. l + 1 : fs[n].rule # r
       PROVE  rs[r].attrs = AttrsOf(BodyAt(d, to[r]), Len(BodyAt(d, to[r])))
  <2>1. r # k
    BY <1>6, <1>7, <1>11, <1>15
  <2>2. r \in 1 .. Len(rules) /\ rs[r] = rules[r] /\ to[r] = of[r]
    BY <1>1, <2>1
  <2>3. \A n \in 1 .. l : reading[n].rule # r
    BY <1>10, <1>12, <1>15
  <2>4. QED
    BY <1>2, <1>3, <1>15, <2>2, <2>3 DEF Filled
<1>16. Filled(fs, rs, d, e, to)
  BY <1>1, <1>6, <1>13, <1>14, <1>15 DEF Filled
<1>17. QED
  BY <1>16 DEF rs, to, k, e, fs, new

\* A block does not say whether the schema is strict.
LEMMA StrictStays ==
  ASSUME NEW s, NEW d, NEW n \in Nat, n # 0, IsBlock(d[n]), StrictIs(s, d, n - 1)
  PROVE  StrictIs(s, d, n)
<1>1. /\ \A i \in 1 .. n : i \in 1 .. n - 1 \/ i = n
      /\ \A i \in 1 .. n - 1 : i \in 1 .. n
      /\ \A i \in 1 .. n - 1 : \A j \in i + 1 .. n : j \in i + 1 .. n - 1 \/ j = n
  OBVIOUS
<1>2. CASE \A i \in 1 .. n - 1 : IsBlock(d[i])
  <2>1. s = FALSE
    BY <1>2 DEF StrictIs
  <2>2. \A i \in 1 .. n : IsBlock(d[i])
    BY <1>1, <1>2
  <2>3. QED
    BY <2>1, <2>2 DEF StrictIs
<1>3. CASE ~\A i \in 1 .. n - 1 : IsBlock(d[i])
  <2>1. PICK i \in 1 .. n - 1 : IsAttr(d[i]) /\ s = d[i].value.value.b /\ \A j \in i + 1 .. n - 1 : IsBlock(d[j])
    BY <1>3 DEF StrictIs
  <2>2. i \in 1 .. n /\ \A j \in i + 1 .. n : IsBlock(d[j])
    BY <1>1, <2>1
  <2>3. ~\A j \in 1 .. n : IsBlock(d[j])
    BY <1>1, <1>3
  <2>4. QED
    BY <2>1, <2>2, <2>3 DEF StrictIs
<1>4. QED
  BY <1>2, <1>3

LEMMA LoadBlockStep ==
  ASSUME NEW d, NEW c, NEW of, Standing(d, c, of), LoadBlock
  PROVE  GoesOn(d) \/ Fails(d)
<1> DEFINE right == Declares(BodyAt(d, Front(c)), Last(c), Front(c) = <<>>)
           fs == Append(Consume, Frame(Len(rules) + 1, Item.body))
           rs == WithRule(Level, Label(Item))
<1>1. ~AtEnd /\ Item.item = "block" /\ IsBlock(Item)
  BY DEF LoadBlock, Reading, IsBlock
<1>2. Item = BodyAt(d, Front(c))[Last(c)]
  BY <1>1, LoadedHere
<1>3. right <=> /\ Item.type = "block" /\ Len(Item.labels) = 1 /\ IsText(Item.labels[1])
                /\ FindBlock(Level, Label(Item)) = 0
  <2>1. FindBlock(Level, Label(Item)) # 0 <=>
          \E j \in 1 .. Last(c) - 1 : IsBlock(BodyAt(d, Front(c))[j]) /\ Label(BodyAt(d, Front(c))[j]) = Label(Item)
    BY LabelTaken
  <2>2. QED
    BY <1>1, <1>2, <2>1 DEF Declares
<1>4. CASE ~right
  <2>1. \E why : LoadFails(why)
    BY <1>3, <1>4 DEF LoadBlock, Label
  <2>2. ~DeclaresSchema(d)
    BY <1>1, <1>4, WrongHereIsWrong
  <2>3. QED
    BY <2>1, <2>2 DEF Fails, LoadFails
<1>5. CASE right
  <2>1. rules' = rs /\ reading' = fs /\ strict' = strict /\ status' = "loading"
    BY <1>3, <1>5 DEF LoadBlock, Label, Standing
  <2>2. /\ Follows(fs, d, Append(c, 1))
        /\ Declared(d, Append(c, 1))
        /\ Traced(rs, d, Append(c, 1), WithPlace(of, c))
        /\ Filled(fs, rs, d, Append(c, 1), WithPlace(of, c))
    BY <1>1, <1>5, BlockFollows, BlockTraced, BlockFilled
  <2>3. StrictIs(strict, d, fs[1].i - 1)
    <3>1. /\ Len(c) = Len(Front(c)) + 1 /\ Len(Front(c)) \in Nat /\ Front(c) \in Seq(Nat) /\ Last(c) \in Nat
          /\ Last(c) \in 1 .. Len(BodyAt(d, Front(c))) /\ Last(reading) = reading[Len(c)]
          /\ Last(reading) = [rule |-> Level, body |-> BodyAt(d, Front(c)), i |-> Last(c)]
      BY <1>1, LoadedHere
    <3>2. /\ IsSequence(Consume) /\ Len(Consume) = Len(c)
          /\ \A n \in 1 .. Len(c) : n # Len(c) => Consume[n] = reading[n]
          /\ Consume[Len(c)] = [rule |-> Level, body |-> BodyAt(d, Front(c)), i |-> Last(c) + 1]
      BY ConsumeIs
    <3>3. 1 \in 1 .. Len(c)
      BY <3>1
    <3>4. fs[1] = Consume[1]
      BY <3>2, <3>3, AppendSequence
    <3>5. StrictIs(strict, d, reading[1].i - 1)
      BY DEF Standing, Loaded
    <3>6. CASE Len(c) # 1
      BY <3>2, <3>3, <3>4, <3>5, <3>6
    <3>7. CASE Len(c) = 1
      <4>1. Front(c) = <<>>
        <5>1. Len(c) = Len(Front(c)) + 1 /\ Len(Front(c)) \in Nat /\ Front(c) \in Seq(Nat)
          BY LoadedHere
        <5>2. Len(Front(c)) = 0
          BY <3>7, <5>1
        <5>3. QED
          BY <5>1, <5>2
      <4>2. BodyAt(d, Front(c)) = d
        BY <4>1, BodyOfEmpty
      <4>3. IsBlock(d[Last(c)]) /\ Last(c) # 0
        BY <1>1, <1>2, <3>1, <4>2
      <4>4. reading[1].i = Last(c) /\ Consume[1].i = Last(c) + 1
        <5>1. reading[1] = [rule |-> Level, body |-> BodyAt(d, Front(c)), i |-> Last(c)]
          BY <3>1, <3>7
        <5>2. Consume[1] = [rule |-> Level, body |-> BodyAt(d, Front(c)), i |-> Last(c) + 1]
          BY <3>2, <3>7
        <5>3. QED
          BY <5>1, <5>2
      <4>5. StrictIs(strict, d, Last(c))
        BY <3>1, <3>5, <4>3, <4>4, StrictStays
      <4>6. (Last(c) + 1) - 1 = Last(c)
        BY <3>1
      <4>7. QED
        BY <3>4, <4>4, <4>5, <4>6
    <3>8. QED
      BY <3>6, <3>7
  <2>4. Loaded(fs, rs, strict, d, Append(c, 1), WithPlace(of, c))
    BY <2>2, <2>3 DEF Loaded
  <2>5. QED
    BY <2>1, <2>4 DEF GoesOn
<1>6. QED
  BY <1>4, <1>5

-----------------------------------------------------------------------------
(* A block is left. *)

LEMMA FramesLeft ==
  ASSUME NEW d, NEW c, NEW of, Standing(d, c, of), AtEnd, Len(reading) # 1
  PROVE  LET p == Front(c)
             e == Append(Front(p), Last(p) + 1)
         IN  /\ Follows(Front(reading), d, e)
             /\ \A q : IsSpot(d, q) => (Before(q, e) <=> Before(q, c))
             /\ \A n \in 1 .. Len(c) - 1 : SubSeq(e, 1, n - 1) = SubSeq(c, 1, n - 1) /\ Front(reading)[n] = reading[n]
             /\ Len(Front(reading)) = Len(c) - 1
<1> DEFINE p == Front(c)
           f == Front(p)
           k == Last(p)
           e == Append(f, k + 1)
           fs == Front(reading)
<1>1. /\ p \in Seq(Nat) /\ c = Append(p, Last(c)) /\ c \in Seq(Nat) /\ Len(c) = Len(p) + 1 /\ Len(p) \in Nat
      /\ IsSequence(reading) /\ reading # <<>> /\ Len(reading) = Len(c) /\ IsPath(d, p)
      /\ Last(c) = Len(BodyAt(d, p)) + 1
  BY LoadedHere
<1>2. WellFormed(d) /\ Follows(reading, d, c)
  BY DEF Standing, Loaded
<1>3. p # <<>>
  BY <1>1
<1>4. f \in Seq(Nat) /\ k \in Nat /\ k + 1 \in Nat /\ p = Append(f, k) /\ Len(p) = Len(f) + 1 /\ Len(f) \in Nat
  <2>1. f \in Seq(Nat) /\ k \in Nat /\ p = Append(f, k) /\ Len(p) = Len(f) + 1
    BY <1>1, <1>3, PathEnds
  <2>2. QED
    BY <2>1
<1>5. IsPath(d, f) /\ k \in DOMAIN BodyAt(d, f)
  <2>1. IsPath(d, Append(f, k))
    BY <1>1, <1>4
  <2>2. QED
    BY <1>4, <2>1, PathOfAppend DEF BlocksIn
<1>6. Len(BodyAt(d, f)) \in Nat /\ DOMAIN BodyAt(d, f) = 1 .. Len(BodyAt(d, f))
  BY <1>2, <1>4, <1>5, BodyNumbers
<1>7. ASSUME NEW q, IsSpot(d, q)
      PROVE  Before(q, e) <=> Before(q, c)
  <2>1. IsPath(d, Append(f, k))
    BY <1>1, <1>4
  <2>2. Before(q, e) <=> Before(q, Append(Append(f, k), Len(BodyAt(d, Append(f, k))) + 1))
    BY <1>2, <1>4, <1>7, <2>1, SpotsBehind
  <2>3. QED
    BY <1>1, <1>4, <2>2
<1>8. /\ IsSequence(fs) /\ Len(fs) = Len(reading) - 1 /\ \A n \in 1 .. Len(reading) - 1 : fs[n] = reading[n]
  BY <1>1, FrontSequence
<1> HIDE DEF p, f, k, fs
<1>9. /\ e \in Seq(Nat) /\ Len(e) = Len(f) + 1 /\ e[Len(f) + 1] = k + 1 /\ Front(e) = f /\ Last(e) = k + 1 /\ e # <<>>
      /\ \A m \in 1 .. Len(f) : e[m] = f[m]
      /\ \A m \in 0 .. Len(f) : SubSeq(e, 1, m) = SubSeq(f, 1, m)
  BY <1>4, PrefixOfAppend, PathIsEmptyOrNot
<1>10. /\ p[Len(f) + 1] = k
       /\ \A m \in 1 .. Len(f) : p[m] = f[m]
       /\ \A m \in 0 .. Len(f) : SubSeq(p, 1, m) = SubSeq(f, 1, m)
  BY <1>4, PrefixOfAppend
<1>11. /\ \A m \in 1 .. Len(p) : c[m] = p[m]
       /\ \A m \in 0 .. Len(p) : SubSeq(c, 1, m) = SubSeq(p, 1, m)
  <2> DEFINE i == Last(c)
  <2>1. i \in Nat /\ c = Append(p, i) /\ p \in Seq(Nat)
    BY <1>1, LoadedHere
  <2> HIDE DEF i
  <2>2. /\ \A m \in 1 .. Len(p) : Append(p, i)[m] = p[m]
        /\ \A m \in 0 .. Len(p) : SubSeq(Append(p, i), 1, m) = SubSeq(p, 1, m)
    BY <2>1, PrefixOfAppend
  <2>3. QED
    BY <2>1, <2>2
<1> HIDE DEF e
<1>12. ASSUME NEW n \in 1 .. Len(p)
       PROVE  /\ SubSeq(e, 1, n - 1) = SubSeq(c, 1, n - 1) /\ fs[n] = reading[n]
              /\ (IF n = Len(p) THEN e[n] ELSE e[n] + 1) = c[n] + 1
  <2>1. n - 1 \in 0 .. Len(f) /\ n - 1 \in 0 .. Len(p) /\ n \in 1 .. Len(reading) - 1
    BY <1>1, <1>4
  <2>2. SubSeq(e, 1, n - 1) = SubSeq(c, 1, n - 1) /\ fs[n] = reading[n]
    BY <1>8, <1>9, <1>10, <1>11, <2>1
  <2>3. CASE n = Len(p)
    <3>1. n = Len(f) + 1
      BY <1>4, <2>3
    <3>2. e[n] = k + 1 /\ c[n] = k
      BY <1>9, <1>10, <1>11, <3>1
    <3>3. QED
      BY <2>2, <2>3, <3>2
  <2>4. CASE n # Len(p)
    <3>1. n \in 1 .. Len(f)
      BY <1>4, <2>4
    <3>2. e[n] = c[n]
      BY <1>9, <1>10, <1>11, <3>1
    <3>3. QED
      BY <2>2, <2>4, <3>2
  <2>5. QED
    BY <2>3, <2>4
<1>13. ASSUME NEW n \in 1 .. Len(p)
       PROVE  fs[n] = [rule |-> fs[n].rule, body |-> BodyAt(d, SubSeq(e, 1, n - 1)),
                       i |-> IF n = Len(p) THEN e[n] ELSE e[n] + 1]
  <2>1. n \in 1 .. Len(c) /\ n # Len(c)
    BY <1>1
  <2>2. reading[n] = [rule |-> reading[n].rule, body |-> BodyAt(d, SubSeq(c, 1, n - 1)), i |-> c[n] + 1]
    BY <1>2, <2>1 DEF Follows
  <2>3. QED
    BY <1>12, <2>2
<1>14. Last(e) \in 1 .. Len(BodyAt(d, f)) + 1
  BY <1>5, <1>6, <1>9
<1>15. Len(e) = Len(p) /\ Len(fs) = Len(p) /\ Len(c) - 1 = Len(p)
  BY <1>1, <1>4, <1>8, <1>9
<1>16. Follows(fs, d, e)
  BY <1>5, <1>8, <1>9, <1>13, <1>14, <1>15 DEF Follows
<1>17. QED
  BY <1>7, <1>12, <1>15, <1>16 DEF p, f, k, e, fs

LEMMA LoadReturnsStep ==
  ASSUME NEW d, NEW c, NEW of, Standing(d, c, of), LoadReturns, Len(reading) # 1
  PROVE  GoesOn(d)
<1> DEFINE p == Front(c)
           e == Append(Front(p), Last(p) + 1)
           fs == Front(reading)
           l == Len(c)
           body == BodyAt(d, p)
<1>1. AtEnd /\ reading' = fs /\ status' = "loading" /\ rules' = rules /\ strict' = strict
  BY DEF LoadReturns
<1>2. /\ Follows(fs, d, e) /\ Len(fs) = l - 1
      /\ \A q : IsSpot(d, q) => (Before(q, e) <=> Before(q, c))
      /\ \A n \in 1 .. l - 1 : SubSeq(e, 1, n - 1) = SubSeq(c, 1, n - 1) /\ fs[n] = reading[n]
  BY <1>1, FramesLeft
<1>3. /\ Traced(rules, d, c, of) /\ Filled(reading, rules, d, c, of) /\ Declared(d, c)
      /\ StrictIs(strict, d, reading[1].i - 1)
  BY DEF Standing, Loaded
<1>4. /\ l = Len(p) + 1 /\ Len(p) \in Nat /\ Len(reading) = l /\ Last(reading) = reading[l]
      /\ Last(reading) = [rule |-> Level, body |-> body, i |-> Last(c)] /\ Last(c) = Len(body) + 1
      /\ Len(body) \in Nat /\ of[Level] = p
  BY <1>1, LoadedHere
<1>5. l \in 1 .. l /\ l # 1 /\ 1 \in 1 .. l - 1 /\ (\A n \in 1 .. l - 1 : n \in 1 .. l)
      /\ (\A n \in 1 .. l : n \in 1 .. l - 1 \/ n = l)
  BY <1>4
<1>6. Traced(rules, d, e, of)
  BY <1>2, <1>3 DEF Traced, IsInner
<1>7. Declared(d, e)
  BY <1>2, <1>3 DEF Declared
<1>8. rules[Level].attrs = AttrsOf(body, Len(body))
  <2>1. rules[reading[l].rule].attrs = AttrsOf(reading[l].body, reading[l].i - 1)
    BY <1>3, <1>4, <1>5 DEF Filled
  <2>2. reading[l].rule = Level /\ reading[l].body = body /\ reading[l].i = Len(body) + 1
    BY <1>4
  <2>3. (Len(body) + 1) - 1 = Len(body)
    BY <1>4
  <2>4. QED
    BY <2>1, <2>2, <2>3
<1> HIDE DEF e, p, fs, l, body
<1>9. Filled(fs, rules, d, e, of)
  <2>1. ASSUME NEW n \in 1 .. l - 1
        PROVE  /\ fs[n].rule \in 1 .. Len(rules) /\ of[fs[n].rule] = SubSeq(e, 1, n - 1)
               /\ n # 1 => rules[fs[n].rule].attrs = AttrsOf(fs[n].body, fs[n].i - 1)
    BY <1>2, <1>3, <1>4, <1>5 DEF Filled
  <2>2. ASSUME NEW r \in 1 .. Len(rules), r # 1, \A n \in 1 .. l - 1 : fs[n].rule # r
        PROVE  rules[r].attrs = AttrsOf(BodyAt(d, of[r]), Len(BodyAt(d, of[r])))
    <3>1. CASE r = Level
      BY <1>4, <1>8, <3>1 DEF body
    <3>2. CASE r # Level
      <4>1. reading[l].rule # r
        BY <1>4, <3>2
      <4>2. \A n \in 1 .. l : reading[n].rule # r
        BY <1>2, <1>5, <2>2, <4>1
      <4>3. QED
        BY <1>3, <1>4, <2>2, <4>2 DEF Filled
    <3>3. QED
      BY <3>1, <3>2
  <2>3. QED
    BY <1>2, <2>1, <2>2 DEF Filled
<1>10. StrictIs(strict, d, fs[1].i - 1)
  BY <1>2, <1>3, <1>5
<1>11. Loaded(fs, rules, strict, d, e, of)
  BY <1>2, <1>3, <1>6, <1>7, <1>9, <1>10 DEF Loaded
<1>12. Loaded(reading', rules', strict', d, e, of)
  BY <1>1, <1>11
<1>13. QED
  BY <1>1, <1>12 DEF GoesOn

-----------------------------------------------------------------------------
(* A load begins, and ends *)

LEMMA FirstFrame ==
  ASSUME NEW fs, NEW d, NEW c, Follows(fs, d, c)
  PROVE  fs[1].body = d
<1>1. c \in Seq(Nat) /\ c # <<>>
  BY DEF Follows
<1>2. 1 \in 1 .. Len(c) /\ SubSeq(c, 1, 1 - 1) = <<>>
  BY <1>1
<1>3. fs[1] = [rule |-> fs[1].rule, body |-> BodyAt(d, <<>>), i |-> IF 1 = Len(c) THEN c[1] ELSE c[1] + 1]
  BY <1>2 DEF Follows
<1>4. fs[1].body = BodyAt(d, <<>>)
  BY <1>3
<1>5. QED
  BY <1>4, BodyOfEmpty

LEMMA LoadBegins ==
  ASSUME NEW d \in Declarations
  PROVE  Loaded(<<Frame(1, d)>>, <<Root>>, FALSE, d, <<1>>, [r \in {1} |-> <<>>])
<1> DEFINE c == <<1>>
           fs == <<Frame(1, d)>>
           rs == <<Root>>
           of == [r \in {1} |-> <<>>]
<1>1. WellFormed(d)
  BY DocumentsAreWellFormed
<1>2. BodyAt(d, <<>>) = d /\ IsPath(d, <<>>) /\ <<>> \in Seq(Nat)
  BY BodyOfEmpty, PathOfEmpty
<1>3. Len(d) \in Nat
  <2>1. Len(BodyAt(d, <<>>)) \in Nat
    BY <1>1, <1>2, BodyNumbers
  <2>2. QED
    BY <1>2, <2>1
<1>4. c = Append(<<>>, 1) /\ c \in Seq(Nat) /\ Len(c) = 1 /\ c[1] = 1 /\ c # <<>> /\ SubSeq(c, 1, 1 - 1) = <<>>
  OBVIOUS
<1>5. Front(c) = <<>> /\ Last(c) = 1
  <2>1. Front(Append(<<>>, 1)) = <<>> /\ Last(Append(<<>>, 1)) = 1
    BY <1>2, PathIsEmptyOrNot
  <2>2. QED
    BY <1>4, <2>1
<1>6. /\ IsSequence(fs) /\ Len(fs) = 1 /\ fs[1] = Frame(1, d)
      /\ IsSequence(rs) /\ Len(rs) = 1 /\ rs[1] = Root /\ of[1] = <<>>
  <2>1. IsSequence(fs) /\ IsSequence(rs)
    BY ShortSequences
  <2>2. QED
    BY <2>1
<1>7. fs[1] = [rule |-> 1, body |-> d, i |-> 1] /\ fs[1].rule = 1 /\ fs[1].i = 1
  <2>1. fs[1] = [rule |-> 1, body |-> d, i |-> 1]
    BY <1>6 DEF Frame
  <2>2. QED
    BY <2>1
<1>8. rs[1].parent = 0
  BY <1>6 DEF Root, Rule
<1>9. (\A n \in 1 .. 1 : n = 1) /\ 1 \in 1 .. 1 /\ 1 .. 1 - 1 = {} /\ 1 \in 1 .. Len(d) + 1
  BY <1>3
<1>10. \A q : IsSpot(d, q) => ~Before(q, c)
  BY <1>1, SpotsNone
<1> HIDE DEF c, fs, rs, of
<1>11. Follows(fs, d, c)
  BY <1>2, <1>4, <1>5, <1>6, <1>7, <1>9 DEF Follows
<1>12. Traced(rs, d, c, of)
  BY <1>6, <1>8, <1>9, <1>10 DEF Traced, Rooted, IsInner
<1>13. Filled(fs, rs, d, c, of)
  BY <1>4, <1>6, <1>7, <1>9 DEF Filled
<1>14. Declared(d, c)
  BY <1>10 DEF Declared
<1>15. StrictIs(FALSE, d, fs[1].i - 1)
  BY <1>7, <1>9 DEF StrictIs
<1>16. QED
  BY <1>11, <1>12, <1>13, <1>14, <1>15 DEF Loaded, c, fs, rs, of

\* What must hold of the rules when all of the document has been read.
IsLoaded(d) ==
  /\ DeclaresSchema(d)
  /\ \A p \in PathsOf(d, MaxDepth) : \E r \in DOMAIN rules : IsRuleOf(r, d, p)
  /\ \A r \in DOMAIN rules : \E p \in PathsOf(d, MaxDepth) : IsRuleOf(r, d, p)
  /\ \A r, q \in DOMAIN rules : TypesOfRule(r) = TypesOfRule(q) => r = q
  /\ StrictIs(strict, d, Len(d))

LEMMA LoadEnds ==
  ASSUME NEW d, NEW c, NEW of, Standing(d, c, of), AtEnd, Len(reading) = 1
  PROVE  IsLoaded(d)
<1>1. /\ WellFormed(d) /\ d \in Declarations /\ RulesAreUnique
      /\ Traced(rules, d, c, of) /\ Filled(reading, rules, d, c, of) /\ Declared(d, c)
      /\ StrictIs(strict, d, reading[1].i - 1)
  BY DEF Standing, Loaded, RulesInv
<1>2. /\ Len(c) = Len(Front(c)) + 1 /\ Len(Front(c)) \in Nat /\ Front(c) \in Seq(Nat) /\ Len(reading) = Len(c)
  BY LoadedHere
<1>3. Front(c) = <<>> /\ Len(c) = 1
  <2>1. Len(Front(c)) = 0
    BY <1>2
  <2>2. QED
    BY <1>2, <2>1
<1>4. BodyAt(d, Front(c)) = d
  BY <1>3, BodyOfEmpty
<1>5. /\ Last(c) = Len(d) + 1 /\ Len(d) \in Nat /\ c = Append(<<>>, Last(c))
      /\ Last(reading) = reading[1] /\ Last(reading) = [rule |-> Level, body |-> d, i |-> Last(c)]
  <2>1. /\ Last(c) = Len(BodyAt(d, Front(c))) + 1 /\ Len(BodyAt(d, Front(c))) \in Nat
        /\ c = Append(Front(c), Last(c)) /\ Last(reading) = reading[Len(c)]
        /\ Last(reading) = [rule |-> Level, body |-> BodyAt(d, Front(c)), i |-> Last(c)]
    BY LoadedHere
  <2>2. QED
    BY <1>3, <1>4, <2>1
<1>6. reading[1].rule = Level /\ reading[1].i - 1 = Len(d)
  <2>1. reading[1].rule = Level /\ reading[1].i = Len(d) + 1
    BY <1>5
  <2>2. QED
    BY <1>5, <2>1
<1>7. Level = 1 /\ 1 \in 1 .. Len(rules)
  BY <1>3, LoadedHere
<1>8. \A q : IsSpot(d, q) => Before(q, c)
  <2> DEFINE n == Last(c)
  <2>1. c = <<n>> /\ n = Len(d) + 1
    <3>1. Append(<<>>, n) = <<n>>
      OBVIOUS
    <3>2. QED
      BY <1>5, <3>1
  <2> HIDE DEF n
  <2>2. QED
    BY <1>1, <2>1, SpotsAll
<1>9. DeclaresSchema(d)
  <2>1. ASSUME NEW p \in PathsOf(d, MaxDepth), NEW i \in DOMAIN BodyAt(d, p)
        PROVE  Declares(BodyAt(d, p), i, p = <<>>)
    <3>1. p \in Seq(Nat) /\ IsPath(d, p)
      BY <1>1, PathsArePaths, ChangesAssumption
    <3>2. Len(BodyAt(d, p)) \in Nat /\ DOMAIN BodyAt(d, p) = 1 .. Len(BodyAt(d, p))
      BY <1>1, <3>1, BodyNumbers
    <3>3. i \in Nat
      BY <3>2
    <3>4. IsSpot(d, Append(p, i)) /\ Front(Append(p, i)) = p /\ Last(Append(p, i)) = i
      BY <3>1, <3>3, SpotOf, PathIsEmptyOrNot
    <3>5. Declares(BodyAt(d, Front(Append(p, i))), Last(Append(p, i)), Front(Append(p, i)) = <<>>)
      BY <1>1, <1>8, <3>4 DEF Declared
    <3>6. QED
      BY <3>4, <3>5
  <2>2. QED
    BY <2>1 DEF DeclaresSchema
<1>10. DOMAIN rules = 1 .. Len(rules) /\ Rooted(rules) /\ of[1] = <<>>
  BY <1>1 DEF Traced, Rooted, IsSequence
<1>11. \A r \in 1 .. Len(rules) : r # 1 => of[r] \in Seq(Nat) /\ of[r] # <<>> /\ IsPath(d, of[r])
  BY <1>1, InnerIsPath DEF Traced
<1>12. \A r \in 1 .. Len(rules) : TypesOfRule(r) = LabelsTo(d, of[r])
  <2>1. \A r \in 1 .. Len(rules) : r # 1 => /\ of[rules[r].parent] = Front(of[r])
                                           /\ rules[r].type = Label(ItemAt(d, of[r]))
    BY <1>1 DEF Traced
  <2>2. QED
    BY <1>10, <1>11, <2>1, TypesFollow
<1>13. \A r \in 1 .. Len(rules) : r # 1 => rules[r].attrs = AttrsOf(BodyAt(d, of[r]), Len(BodyAt(d, of[r])))
  <2>1. \A n \in 1 .. Len(reading) : reading[n].rule = 1
    BY <1>6, <1>7
  <2>2. QED
    BY <1>1, <2>1 DEF Filled
<1>14. \A r \in 1 .. Len(rules) : IsRuleOf(r, d, of[r])
  BY <1>10, <1>12, <1>13 DEF IsRuleOf
<1>15. ASSUME NEW p \in PathsOf(d, MaxDepth)
       PROVE  \E r \in 1 .. Len(rules) : of[r] = p
  <2>1. p \in Seq(Nat) /\ IsPath(d, p)
    BY <1>1, PathsArePaths, ChangesAssumption
  <2>2. CASE p = <<>>
    BY <1>7, <1>10, <2>2
  <2>3. CASE p # <<>>
    <3>1. IsInner(d, p)
      BY <2>1, <2>3, InnerIsPath
    <3>2. Before(p, c)
      BY <1>8, <3>1 DEF IsInner
    <3>3. QED
      BY <1>1, <3>1, <3>2 DEF Traced
  <2>4. QED
    BY <2>2, <2>3
<1>16. ASSUME NEW r \in 1 .. Len(rules)
       PROVE  of[r] \in PathsOf(d, MaxDepth)
  <2>1. <<>> \in Seq(Nat) /\ IsPath(d, <<>>)
    BY PathOfEmpty
  <2>2. of[r] \in Seq(Nat) /\ IsPath(d, of[r])
    BY <1>10, <1>11, <2>1
  <2>3. QED
    BY <1>1, <2>2, AllPathsListed
<1>17. /\ \A p \in PathsOf(d, MaxDepth) : \E r \in DOMAIN rules : IsRuleOf(r, d, p)
       /\ \A r \in DOMAIN rules : \E p \in PathsOf(d, MaxDepth) : IsRuleOf(r, d, p)
  BY <1>10, <1>14, <1>15, <1>16
<1>18. \A r, q \in DOMAIN rules : TypesOfRule(r) = TypesOfRule(q) => r = q
  BY <1>1, <1>10, TypesDiffer
<1>19. QED
  BY <1>1, <1>6, <1>9, <1>17, <1>18 DEF IsLoaded

-----------------------------------------------------------------------------
(* Every step *)

\* A step in a load goes on with it or ends it as the document says.
LEMMA LoadSteps ==
  ASSUME NEW d, NEW c, NEW of, Standing(d, c, of), RulesNext
  PROVE  GoesOn(d) \/ Fails(d) \/ (status' = "ready" /\ IsLoaded(d))
<1>1. status = "loading"
  BY DEF Standing
<1>2. LoadTopAttr \/ LoadAttr \/ LoadBlock \/ LoadReturns
  BY <1>1 DEF RulesNext, AddBlock, AddAttr, AddEnum, SetStrict, MayCall, LoadString
<1>3. CASE LoadTopAttr
  BY <1>3, LoadTopAttrStep
<1>4. CASE LoadAttr
  BY <1>4, LoadAttrStep
<1>5. CASE LoadBlock
  BY <1>5, LoadBlockStep
<1>6. CASE LoadReturns /\ Len(reading) # 1
  BY <1>6, LoadReturnsStep
<1>7. CASE LoadReturns /\ Len(reading) = 1
  <2>1. AtEnd /\ status' = "ready"
    BY <1>7 DEF LoadReturns
  <2>2. QED
    BY <1>7, <2>1, LoadEnds
<1>8. QED
  BY <1>2, <1>3, <1>4, <1>5, <1>6, <1>7

LEMMA LoadGoesOn ==
  ASSUME NEW d \in Declarations, GoesOn(d)
  PROVE  LInv'
<1>1. PICK c, of : Loaded(reading', rules', strict', d, c, of)
  BY DEF GoesOn
<1>2. reading'[1].body = d
  BY <1>1, FirstFrame DEF Loaded
<1>3. QED
  BY <1>1, <1>2 DEF LInv

LEMMA LoadKept ==
  ASSUME IInv, LInv, [Next]_vars
  PROVE  LInv'
<1>1. CASE UNCHANGED rulesVars
  BY <1>1 DEF LInv, rulesVars
<1>2. CASE RulesNext /\ status = "loading"
  <2> DEFINE d == reading[1].body
  <2>1. PICK c, of : Standing(d, c, of)
    BY <1>2, InLoad DEF IInv
  <2>2. GoesOn(d) \/ status' # "loading"
    BY <1>2, <2>1, LoadSteps DEF Fails
  <2>3. d \in Declarations
    BY <2>1 DEF Standing
  <2>4. QED
    BY <2>2, <2>3, LoadGoesOn DEF LInv
<1>3. CASE RulesNext /\ status # "loading"
  <2>1. (\E d \in Declarations : LoadString(d)) \/ status' = status
    BY <1>3 DEF RulesNext, AddBlock, AddAttr, AddEnum, SetStrict, MayCall, LoadTopAttr, LoadAttr, LoadBlock,
                LoadReturns, Reading
  <2>2. ASSUME NEW d \in Declarations, LoadString(d)
        PROVE  LInv'
    <3>1. reading' = <<Frame(1, d)>> /\ rules' = <<Root>> /\ strict' = FALSE /\ status' = "loading"
      BY <2>2 DEF LoadString
    <3>2. Loaded(reading', rules', strict', d, <<1>>, [r \in {1} |-> <<>>])
      BY <3>1, LoadBegins
    <3>3. QED
      BY <3>1, <3>2, LoadGoesOn DEF GoesOn
  <2>3. QED
    BY <1>3, <2>1, <2>2 DEF LInv
<1>4. RulesNext \/ UNCHANGED rulesVars
  BY DEF Next, vars, rulesVars, SetAttribute, RemoveAttribute, AddEmptyBlock, RemoveBlock, Change, Evaluate, Validate,
         PassAttr, CheckAttr, CheckBlock, LeaveBlock, LeaveRoot, IsAtA, IsAtEnd, Walking
<1>5. QED
  BY <1>1, <1>2, <1>3, <1>4

\* Whatever document a schema is loaded from, the load ends with exactly the rules the document
\* declares, where it declares them, or with no schema when a declaration is wrong anywhere
\* (cl_schema_load_string, cl_schema_load_block, cl_schema_load_attr).
THEOREM LoadsWhatIsDeclared == Spec => LoadedAsDeclared
<1>1. Init => LInv
  BY DEF Init, RulesInit, LInv
<1>2. IInv /\ LInv /\ [Next]_vars => LInv'
  BY LoadKept
<1>3. IInv /\ LInv /\ [Next]_vars =>
        [status = "loading" /\ status' # "loading" =>
           LET decl == reading[1].body
           IN  /\ (status' = "ready") <=> DeclaresSchema(decl)
               /\ status' = "ready" =>
                    /\ \A p \in PathsOf(decl, MaxDepth) : \E r \in DOMAIN rules : IsRuleOf(r, decl, p)
                    /\ \A r \in DOMAIN rules : \E p \in PathsOf(decl, MaxDepth) : IsRuleOf(r, decl, p)
                    /\ \A r, q \in DOMAIN rules : TypesOfRule(r) = TypesOfRule(q) => r = q
                    /\ StrictIs(strict, decl, Len(decl))]_vars
  <2>1. SUFFICES ASSUME IInv, LInv, [Next]_vars, status = "loading", status' # "loading"
                 PROVE  LET d == reading[1].body
                        IN  /\ (status' = "ready") <=> DeclaresSchema(d)
                            /\ status' = "ready" => IsLoaded(d)
    BY DEF IsLoaded
  <2> DEFINE d == reading[1].body
  <2>2. PICK c, of : Standing(d, c, of)
    BY <2>1, InLoad DEF IInv
  <2>3. RulesNext
    BY <2>1 DEF Next, vars, rulesVars, SetAttribute, RemoveAttribute, AddEmptyBlock, RemoveBlock, Change, Evaluate,
                Validate, PassAttr, CheckAttr, CheckBlock, LeaveBlock, LeaveRoot, IsAtA, IsAtEnd, Walking
  <2>4. Fails(d) \/ (status' = "ready" /\ IsLoaded(d))
    BY <2>1, <2>2, <2>3, LoadSteps DEF GoesOn
  <2> HIDE DEF d
  <2>5. ((status' = "ready") <=> DeclaresSchema(d)) /\ (status' = "ready" => IsLoaded(d))
    BY <2>4 DEF Fails, IsLoaded
  <2>6. QED
    BY <2>5 DEF d
<1>4. QED
  BY <1>1, <1>2, <1>3, ReachableHolds, PTL DEF Spec, LoadedAsDeclared

=============================================================================
