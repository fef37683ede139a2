---------------------------- MODULE PathGetProofs ----------------------------
(***************************************************************************)
(* What the iterators yield is what paths reach, in every result and for   *)
(* every path.                                                             *)
(***************************************************************************)
EXTENDS PathGet, AnySequencesProofs

-----------------------------------------------------------------------------
(* Sequences of parts *)

LEMMA SameSequence ==
  ASSUME NEW s, NEW t, IsSequence(s), IsSequence(t), Len(s) = Len(t),
         \A k \in 1 .. Len(s) : s[k] = t[k]
  PROVE  s = t
BY DEF IsSequence

LEMMA TabulatedSequence ==
  ASSUME NEW n \in Nat, NEW t, t = [k \in 1 .. n |-> t[k]]
  PROVE  IsSequence(t) /\ Len(t) = n
<1> DEFINE S == {t[k] : k \in 1 .. n}
<1>1. t \in [1 .. n -> S]
  BY Zenon
<1>2. t \in Seq(S) /\ Len(t) = n
  BY <1>1
<1>3. QED
  BY <1>2, SeqIsSequence

LEMMA TailSequence ==
  ASSUME NEW s, IsSequence(s), s # <<>>
  PROVE  /\ IsSequence(Tail(s))
         /\ Len(s) \in Nat \ {0}
         /\ Len(Tail(s)) = Len(s) - 1
         /\ Head(s) = s[1]
         /\ \A k \in 1 .. Len(s) - 1 : Tail(s)[k] = s[k + 1]
<1>1. s \in Seq(Elems(s))
  BY SequenceIsSeq
<1>2. Tail(s) \in Seq(Elems(s))
  BY <1>1
<1>3. IsSequence(Tail(s))
  BY <1>2, SeqIsSequence
<1>4. QED
  BY <1>1, <1>3

LEMMA SuffixSequence ==
  ASSUME NEW s, IsSequence(s), NEW m \in Nat \ {0}, m <= Len(s) + 1
  PROVE  /\ IsSequence(SubSeq(s, m, Len(s)))
         /\ Len(SubSeq(s, m, Len(s))) = Len(s) + 1 - m
         /\ \A k \in 1 .. Len(s) + 1 - m : SubSeq(s, m, Len(s))[k] = s[m + k - 1]
<1>1. s \in Seq(Elems(s)) /\ Len(s) \in Nat
  BY SequenceIsSeq DEF IsSequence
<1>2. SubSeq(s, m, Len(s)) \in Seq(Elems(s))
  BY <1>1
<1>3. IsSequence(SubSeq(s, m, Len(s)))
  BY <1>2, SeqIsSequence
<1>4. QED
  BY <1>1, <1>3

LEMMA TailOfAppend ==
  ASSUME NEW s, NEW x, IsSequence(s), s # <<>>
  PROVE  /\ Append(s, x) # <<>>
         /\ Head(Append(s, x)) = Head(s)
         /\ Tail(Append(s, x)) = Append(Tail(s), x)
<1> DEFINE a == Append(s, x)
<1>1. /\ IsSequence(a) /\ Len(s) \in Nat /\ Len(a) = Len(s) + 1
      /\ \A n \in 1 .. Len(s) : a[n] = s[n]
      /\ a[Len(s) + 1] = x
      /\ a # <<>>
  BY AppendSequence, AppendNonEmpty
<1>2. /\ IsSequence(Tail(s)) /\ Len(s) \in Nat \ {0} /\ Len(Tail(s)) = Len(s) - 1
      /\ Head(s) = s[1]
      /\ \A k \in 1 .. Len(s) - 1 : Tail(s)[k] = s[k + 1]
  BY TailSequence
<1> DEFINE b == Append(Tail(s), x)
<1>3. /\ IsSequence(b) /\ Len(b) = Len(s)
      /\ \A n \in 1 .. Len(s) - 1 : b[n] = s[n + 1]
      /\ b[Len(s)] = x
  BY <1>2, AppendSequence
<1> HIDE DEF a, b
<1> DEFINE t == Tail(a)
<1>4. /\ IsSequence(t) /\ Len(t) = Len(s)
      /\ Head(a) = a[1]
      /\ \A k \in 1 .. Len(s) : t[k] = a[k + 1]
  BY <1>1, TailSequence
<1> HIDE DEF t
<1>5. ASSUME NEW k \in 1 .. Len(s)
      PROVE  t[k] = b[k]
  <2>1. CASE k = Len(s)
    BY <1>1, <1>3, <1>4, <2>1
  <2>2. CASE k # Len(s)
    <3>1. k + 1 \in 1 .. Len(s) /\ k \in 1 .. Len(s) - 1
      <4> DEFINE n == Len(s)
      <4>1. n \in Nat /\ k \in 1 .. n /\ k # n
        BY <1>1, <2>2
      <4> HIDE DEF n
      <4>2. k + 1 \in 1 .. n /\ k \in 1 .. n - 1
        BY <4>1
      <4>3. QED
        BY <4>2 DEF n
    <3>2. QED
      BY <1>1, <1>3, <1>4, <3>1
  <2>3. QED
    BY <2>1, <2>2
<1>6. t = b
  BY <1>3, <1>4, <1>5, SameSequence
<1>7. Head(a) = Head(s)
  BY <1>1, <1>2, <1>4
<1>8. QED
  BY <1>1, <1>6, <1>7 DEF a, b, t

LEMMA SuffixOfAppend ==
  ASSUME NEW s, NEW x, IsSequence(s), NEW m \in Nat \ {0}, m <= Len(s) + 1
  PROVE  SubSeq(Append(s, x), m, Len(s) + 1) = Append(SubSeq(s, m, Len(s)), x)
<1> DEFINE a == Append(s, x)
           c == SubSeq(s, m, Len(s))
           b == Append(c, x)
           d == SubSeq(a, m, Len(a))
<1>1. /\ IsSequence(a) /\ Len(s) \in Nat /\ Len(a) = Len(s) + 1
      /\ \A n \in 1 .. Len(s) : a[n] = s[n]
      /\ a[Len(s) + 1] = x
  BY AppendSequence
<1>2. /\ IsSequence(c) /\ Len(c) = Len(s) + 1 - m
      /\ \A k \in 1 .. Len(s) + 1 - m : c[k] = s[m + k - 1]
  BY SuffixSequence
<1> HIDE DEF a, c
<1>3. /\ IsSequence(b) /\ Len(b) = Len(c) + 1
      /\ \A k \in 1 .. Len(c) : b[k] = c[k]
      /\ b[Len(c) + 1] = x
  <2>1. IsSequence(c)
    BY <1>2
  <2>2. QED
    BY <2>1, AppendSequence
<1>4. /\ IsSequence(d) /\ Len(d) = Len(a) + 1 - m
      /\ \A k \in 1 .. Len(a) + 1 - m : d[k] = a[m + k - 1]
  BY <1>1, SuffixSequence
<1> HIDE DEF b, d
<1>5. Len(b) = Len(d) /\ Len(d) = Len(s) + 2 - m
  BY <1>1, <1>2, <1>3, <1>4
<1>6. ASSUME NEW k \in 1 .. Len(d)
      PROVE  d[k] = b[k]
  <2>1. d[k] = a[m + k - 1]
    BY <1>1, <1>4
  <2>2. CASE k = Len(c) + 1
    <3>1. m + k - 1 = Len(s) + 1
      BY <1>1, <1>2, <2>2
    <3>2. QED
      BY <1>1, <1>3, <2>1, <2>2, <3>1
  <2>3. CASE k # Len(c) + 1
    <3>1. k \in 1 .. Len(c) /\ k \in 1 .. Len(s) + 1 - m /\ m + k - 1 \in 1 .. Len(s)
      BY <1>1, <1>2, <1>5, <2>3
    <3>2. QED
      BY <1>1, <1>2, <1>3, <2>1, <3>1
  <2>4. QED
    BY <2>2, <2>3
<1>7. d = b
  BY <1>3, <1>4, <1>5, <1>6, SameSequence
<1>8. QED
  BY <1>1, <1>7 DEF a, b, c, d

LEMMA PrefixIs ==
  ASSUME NEW s, NEW t, IsSequence(s), IsSequence(t)
  PROVE  IsPrefix(s, t) <=> Len(s) <= Len(t) /\ \A k \in 1 .. Len(s) : s[k] = t[k]
<1> DEFINE n == Len(s)
<1>1. n \in Nat /\ Len(t) \in Nat
  BY DEF IsSequence
<1>2. /\ IsSequence(SubSeq(s, 1, n)) /\ Len(SubSeq(s, 1, n)) = n
      /\ \A k \in 1 .. n : SubSeq(s, 1, n)[k] = s[k]
  BY <1>1, PrefixSequence
<1>3. ASSUME n <= Len(t)
      PROVE  IsPrefix(s, t) <=> \A k \in 1 .. n : s[k] = t[k]
  <2> DEFINE a == SubSeq(s, 1, n)
             b == SubSeq(t, 1, n)
  <2>1. /\ IsSequence(b) /\ Len(b) = n
        /\ \A k \in 1 .. n : b[k] = t[k]
    BY <1>1, <1>3, PrefixSequence
  <2>2. IsPrefix(s, t) <=> a = b
    BY <1>3 DEF IsPrefix
  <2> HIDE DEF a, b
  <2>3. ASSUME \A k \in 1 .. n : s[k] = t[k]
        PROVE  a = b
    <3>1. \A k \in 1 .. n : a[k] = b[k]
      BY <1>2, <2>1, <2>3 DEF a
    <3>2. IsSequence(a) /\ Len(a) = n
      BY <1>2 DEF a
    <3>3. QED
      BY <2>1, <3>1, <3>2, SameSequence
  <2>4. ASSUME a = b, NEW k \in 1 .. n
        PROVE  s[k] = t[k]
    BY <1>2, <2>1, <2>4 DEF a
  <2>5. QED
    BY <2>2, <2>3, <2>4
<1>4. QED
  BY <1>1, <1>3 DEF IsPrefix

-----------------------------------------------------------------------------
(* A body and its blocks *)

IsBody(body) ==
  /\ IsSequence(body)
  /\ \A i \in DOMAIN body : IF IsAttr(body[i]) THEN body[i].value # NoValue ELSE IsSequence(body[i].labels)

Names(labels) == [k \in DOMAIN labels |-> Name(labels[k])]

LEMMA NamesSequence ==
  ASSUME NEW labels, IsSequence(labels)
  PROVE  /\ IsSequence(Names(labels))
         /\ Len(labels) \in Nat
         /\ Len(Names(labels)) = Len(labels)
         /\ \A k \in 1 .. Len(labels) : Names(labels)[k] = Name(labels[k])
<1>1. Len(labels) \in Nat /\ DOMAIN labels = 1 .. Len(labels)
  BY DEF IsSequence
<1>2. Names(labels) = [k \in 1 .. Len(labels) |-> Names(labels)[k]]
  BY <1>1 DEF Names
<1>3. IsSequence(Names(labels)) /\ Len(Names(labels)) = Len(labels)
  BY <1>1, <1>2, TabulatedSequence
<1>4. QED
  BY <1>1, <1>3 DEF Names

LEMMA FitIs ==
  ASSUME NEW body, IsBody(body), NEW type, NEW parts, IsSequence(parts), NEW i
  PROVE  i \in Fits(body, type, parts) <=>
           /\ i \in DOMAIN body
           /\ IsBlock(body[i])
           /\ body[i].type = type
           /\ Len(body[i].labels) <= Len(parts)
           /\ \A k \in 1 .. Len(body[i].labels) : parts[k] = Name(body[i].labels[k])
<1>1. i \in Fits(body, type, parts) <=>
        i \in DOMAIN body /\ IsBlock(body[i]) /\ body[i].type = type /\ IsPrefix(Names(body[i].labels), parts)
  BY DEF Fits, BlocksOf, Names
<1>2. ASSUME i \in DOMAIN body, IsBlock(body[i])
      PROVE  IsPrefix(Names(body[i].labels), parts) <=>
               /\ Len(body[i].labels) <= Len(parts)
               /\ \A k \in 1 .. Len(body[i].labels) : parts[k] = Name(body[i].labels[k])
  <2> DEFINE labels == body[i].labels
             names  == Names(labels)
  <2>1. IsSequence(labels)
    BY <1>2 DEF IsBody, IsAttr, IsBlock
  <2>2. /\ IsSequence(names)
        /\ Len(names) = Len(labels)
        /\ \A k \in 1 .. Len(labels) : names[k] = Name(labels[k])
    BY <2>1, NamesSequence
  <2> HIDE DEF names
  <2>3. IsPrefix(names, parts) <=> Len(names) <= Len(parts) /\ \A k \in 1 .. Len(names) : names[k] = parts[k]
    BY <2>2, PrefixIs
  <2>4. IsPrefix(names, parts) <=>
          Len(labels) <= Len(parts) /\ \A k \in 1 .. Len(labels) : parts[k] = Name(labels[k])
    BY <2>2, <2>3
  <2>5. QED
    BY <2>4 DEF names
<1>3. QED
  BY <1>1, <1>2

\* Among any blocks there is one that LongestFit takes, and none has more labels.
LEMMA LongestIsOneOf ==
  ASSUME NEW body, IsBody(body), NEW fits, fits # {},
         \A i \in fits : i \in DOMAIN body /\ IsBlock(body[i])
  PROVE  \E i \in fits : /\ LongestFit(body, fits) = body[i]
                         /\ \A j \in fits : Len(body[j].labels) <= Len(body[i].labels)
<1> DEFINE many(i)     == Len(body[i].labels)
           Beats(i, j) == many(i) > many(j) \/ (many(i) = many(j) /\ i < j)
           IsFirst(s, i) == i \in s /\ \A j \in s \ {i} : Beats(i, j)
           S == {n \in Nat : \A s \in SUBSET fits : s # {} /\ s \subseteq 1 .. n => \E i \in s : IsFirst(s, i)}
<1>1. \A i \in fits : many(i) \in Nat
  BY DEF IsBody, IsAttr, IsBlock, IsSequence
<1>2. Len(body) \in Nat /\ DOMAIN body = 1 .. Len(body)
  BY DEF IsBody, IsSequence
<1>3. fits \subseteq 1 .. Len(body)
  BY <1>2
<1> HIDE DEF many
<1>4. 0 \in S
  <2>1. 1 .. 0 = {}
    OBVIOUS
  <2>2. QED
    BY <2>1, Zenon
<1>5. ASSUME NEW n \in Nat, n \in S
      PROVE  n + 1 \in S
  <2>1. ASSUME NEW s \in SUBSET fits, s # {}, s \subseteq 1 .. n + 1
        PROVE  \E i \in s : IsFirst(s, i)
    <3> DEFINE t == s \ {n + 1}
    <3>1. t \in SUBSET fits /\ t \subseteq 1 .. n
      BY <2>1
    <3>2. CASE t = {}
      <4>1. s = {n + 1}
        BY <2>1, <3>2
      <4>2. QED
        BY <4>1
    <3>3. CASE t # {}
      <4>1. PICK i \in t : IsFirst(t, i)
        BY <1>5, <3>1, <3>3
      <4>2. CASE n + 1 \notin s
        BY <4>1, <4>2
      <4>3. CASE n + 1 \in s
        <5>1. i \in s /\ i < n + 1 /\ i \in Nat
          BY <3>1, <4>1
        <5>2. many(i) \in Nat /\ many(n + 1) \in Nat
          BY <1>1, <2>1, <4>3, <5>1
        <5>3. CASE many(n + 1) > many(i)
          <6>1. ASSUME NEW j \in s \ {n + 1}
                PROVE  many(n + 1) > many(j)
            <7>1. j = i \/ Beats(i, j)
              BY <4>1
            <7>2. many(j) \in Nat
              BY <1>1, <2>1
            <7>3. many(i) >= many(j)
              BY <5>2, <7>1, <7>2
            <7>4. QED
              BY <5>2, <5>3, <7>2, <7>3
          <6>2. QED
            BY <4>3, <6>1
        <5>4. CASE ~(many(n + 1) > many(i))
          <6>1. Beats(i, n + 1)
            BY <5>1, <5>2, <5>4
          <6>2. QED
            BY <4>1, <5>1, <6>1
        <5>5. QED
          BY <5>3, <5>4
      <4>4. QED
        BY <4>2, <4>3
    <3>4. QED
      BY <3>2, <3>3
  <2>2. QED
    BY <1>5, <2>1
<1>6. Nat \subseteq S
  <2> HIDE DEF S
  <2>1. QED
    BY <1>4, <1>5, AllNaturals
<1>7. PICK m \in fits : IsFirst(fits, m)
  BY <1>2, <1>3, <1>6
<1> DEFINE i == CHOOSE i \in fits : \A j \in fits \ {i} : Beats(i, j)
<1>8. i \in fits /\ \A j \in fits \ {i} : Beats(i, j)
  BY <1>7
<1>9. LongestFit(body, fits) = body[i]
  BY DEF LongestFit, many
<1> HIDE DEF i
<1>10. \A j \in fits : many(j) <= many(i)
  BY <1>1, <1>8
<1>11. QED
  BY <1>8, <1>9, <1>10 DEF many

-----------------------------------------------------------------------------
(* The two recursive functions *)

\* A round of a resolution, or one step down into a result.
Stepped(kind, x) == IF kind = "round" THEN Round(x) ELSE UNION {Inside(place) : place \in x}

Chain(g, kind, x, n) ==
  /\ g = [k \in 0 .. n |-> g[k]]
  /\ g[0] = x
  /\ \A k \in 1 .. n : g[k] = Stepped(kind, g[k - 1])

LEMMA ChainsAgree ==
  ASSUME NEW kind, NEW x, NEW n \in Nat, NEW m \in Nat, NEW g, NEW h,
         Chain(g, kind, x, n), Chain(h, kind, x, m), n <= m
  PROVE  g[n] = h[n]
<1> DEFINE S == {k \in Nat : k <= n => g[k] = h[k]}
<1>1. 0 \in S
  BY DEF Chain
<1>2. ASSUME NEW k \in Nat, k \in S
      PROVE  k + 1 \in S
  <2>1. ASSUME k + 1 <= n
        PROVE  g[k + 1] = h[k + 1]
    <3>1. k <= n /\ k + 1 \in 1 .. n /\ k + 1 \in 1 .. m /\ (k + 1) - 1 = k
      BY <2>1
    <3>2. g[k + 1] = Stepped(kind, g[k]) /\ h[k + 1] = Stepped(kind, h[k])
      BY <3>1 DEF Chain
    <3>3. QED
      BY <1>2, <3>1, <3>2
  <2>2. QED
    BY <2>1
<1> HIDE DEF S
<1>3. n \in S
  BY <1>1, <1>2, AllNaturals
<1>4. QED
  BY <1>3 DEF S

LEMMA ChainExists ==
  ASSUME NEW kind, NEW x, NEW n \in Nat
  PROVE  \E g : Chain(g, kind, x, n)
<1> DEFINE S == {k \in Nat : \E g : Chain(g, kind, x, k)}
<1>1. 0 \in S
  <2>1. Chain([k \in 0 .. 0 |-> x], kind, x, 0)
    BY DEF Chain
  <2>2. QED
    BY <2>1
<1>2. ASSUME NEW m \in Nat, m \in S
      PROVE  m + 1 \in S
  <2>1. PICK g : Chain(g, kind, x, m)
    BY <1>2
  <2> DEFINE h == [k \in 0 .. m + 1 |-> IF k = m + 1 THEN Stepped(kind, g[m]) ELSE g[k]]
  <2>2. h = [k \in 0 .. m + 1 |-> h[k]] /\ h[0] = x
    BY <2>1 DEF Chain
  <2>3. ASSUME NEW k \in 1 .. m + 1
        PROVE  h[k] = Stepped(kind, h[k - 1])
    <3>1. k - 1 \in 0 .. m + 1 /\ k - 1 # m + 1
      OBVIOUS
    <3>2. h[k - 1] = g[k - 1]
      BY <3>1
    <3>3. CASE k = m + 1
      BY <3>2, <3>3
    <3>4. CASE k # m + 1
      <4>1. k \in 1 .. m /\ h[k] = g[k]
        BY <3>4
      <4>2. g[k] = Stepped(kind, g[k - 1])
        BY <2>1, <4>1 DEF Chain
      <4>3. QED
        BY <3>2, <4>1, <4>2
    <3>5. QED
      BY <3>3, <3>4
  <2> HIDE DEF h
  <2>4. Chain(h, kind, x, m + 1)
    BY <2>2, <2>3 DEF Chain
  <2>5. QED
    BY <2>4
<1> HIDE DEF S
<1>3. n \in S
  BY <1>1, <1>2, AllNaturals
<1>4. QED
  BY <1>3 DEF S

Unfolds(f, kind, x) == f = [n \in Nat |-> IF n = 0 THEN x ELSE Stepped(kind, f[n - 1])]

LEMMA SteppedExists ==
  ASSUME NEW kind, NEW x
  PROVE  \E f : Unfolds(f, kind, x)
<1> DEFINE c(n) == CHOOSE g : Chain(g, kind, x, n)
           f    == [n \in Nat |-> c(n)[n]]
<1>1. \A n \in Nat : Chain(c(n), kind, x, n)
  BY ChainExists
<1> HIDE DEF c
<1>2. f[0] = x
  BY <1>1 DEF Chain
<1>3. ASSUME NEW n \in Nat, n # 0
      PROVE  f[n] = Stepped(kind, f[n - 1])
  <2>1. n - 1 \in Nat /\ n - 1 <= n /\ n \in 1 .. n
    BY <1>3
  <2>2. c(n)[n] = Stepped(kind, c(n)[n - 1])
    BY <1>1, <2>1 DEF Chain
  <2>3. c(n - 1)[n - 1] = c(n)[n - 1]
    BY <1>1, <2>1, ChainsAgree
  <2>4. QED
    BY <2>1, <2>2, <2>3
<1>4. f = [n \in Nat |-> IF n = 0 THEN x ELSE Stepped(kind, f[n - 1])]
  <2>1. \A n \in Nat : f[n] = IF n = 0 THEN x ELSE Stepped(kind, f[n - 1])
    BY <1>2, <1>3
  <2>2. f = [n \in Nat |-> f[n]]
    OBVIOUS
  <2> HIDE DEF f
  <2>3. QED
    BY <2>1, <2>2
<1>5. QED
  BY <1>4 DEF Unfolds

LEMMA RoundsAre ==
  ASSUME NEW body, NEW parts
  PROVE  /\ Rounds(body, parts)[0] = Reach(AsBlock(body), parts)
         /\ \A n \in Nat : Rounds(body, parts)[n + 1] = Round(Rounds(body, parts)[n])
<1> DEFINE IsIt(f) == f = [n \in Nat |-> IF n = 0 THEN Reach(AsBlock(body), parts) ELSE Round(f[n - 1])]
<1>1. \E f : IsIt(f)
  <2>1. PICK f : Unfolds(f, "round", Reach(AsBlock(body), parts))
    BY SteppedExists
  <2>2. IsIt(f)
    BY <2>1 DEF Unfolds, Stepped
  <2>3. QED
    BY <2>2
<1>2. Rounds(body, parts) = CHOOSE f : IsIt(f)
  BY DEF Rounds
<1> DEFINE f == Rounds(body, parts)
<1>3. IsIt(f)
  BY <1>1, <1>2
<1> HIDE DEF f
<1>4. \A n \in Nat : f[n + 1] = Round(f[n])
  <2>1. ASSUME NEW n \in Nat
        PROVE  f[n + 1] = Round(f[n])
    <3>1. n + 1 \in Nat /\ n + 1 # 0 /\ (n + 1) - 1 = n
      OBVIOUS
    <3>2. QED
      BY <1>3, <3>1
  <2>2. QED
    BY <2>1
<1>5. f[0] = Reach(AsBlock(body), parts)
  BY <1>3
<1>6. QED
  BY <1>4, <1>5 DEF f

LEMMA WithinIs ==
  ASSUME NEW body
  PROVE  /\ Within(body)[0] = {AsBlock(body)}
         /\ \A n \in Nat : Within(body)[n + 1] = UNION {Inside(place) : place \in Within(body)[n]}
<1> DEFINE IsIt(f) == f = [n \in Nat |-> IF n = 0 THEN {AsBlock(body)} ELSE UNION {Inside(place) : place \in f[n - 1]}]
<1>1. \E f : IsIt(f)
  <2>1. PICK f : Unfolds(f, "down", {AsBlock(body)})
    BY SteppedExists
  <2>2. IsIt(f)
    BY <2>1 DEF Unfolds, Stepped
  <2>3. QED
    BY <2>2
<1>2. Within(body) = CHOOSE f : IsIt(f)
  BY DEF Within
<1> DEFINE f == Within(body)
<1>3. IsIt(f)
  BY <1>1, <1>2
<1> HIDE DEF f
<1>4. \A n \in Nat : f[n + 1] = UNION {Inside(place) : place \in f[n]}
  <2>1. ASSUME NEW n \in Nat
        PROVE  f[n + 1] = UNION {Inside(place) : place \in f[n]}
    <3>1. n + 1 \in Nat /\ n + 1 # 0 /\ (n + 1) - 1 = n
      OBVIOUS
    <3>2. QED
      BY <1>3, <3>1
  <2>2. QED
    BY <2>1
<1>5. f[0] = {AsBlock(body)}
  BY <1>3
<1>6. QED
  BY <1>4, <1>5 DEF f

-----------------------------------------------------------------------------
(* One round *)

\* What a part finds first in a sequence of attributes or of fields.
LEMMA FirstPlace ==
  ASSUME NEW n \in Nat, NEW I \in SUBSET (1 .. n), NEW i, i = IF I # {} THEN Min(I) ELSE 0
  PROVE  \/ i = 0 /\ I = {}
         \/ i \in I /\ i > 0 /\ \A j \in I : i <= j
<1>1. CASE I = {}
  BY <1>1
<1>2. CASE I # {}
  <2>1. i \in I /\ \A j \in I : i <= j
    BY <1>2, LeastPlace
  <2>2. QED
    BY <2>1
<1>3. QED
  BY <1>1, <1>2

LEMMA AttrPlace ==
  ASSUME NEW body, IsSequence(body), NEW name
  PROVE  LET i == AttrAt(body, name)
         IN  \/ i = 0 /\ \A j \in DOMAIN body : ~(IsAttr(body[j]) /\ body[j].name = name)
             \/ /\ i > 0 /\ i \in DOMAIN body /\ IsAttr(body[i]) /\ body[i].name = name
                /\ \A j \in DOMAIN body : IsAttr(body[j]) /\ body[j].name = name => i <= j
<1> DEFINE I == {j \in 1 .. Len(body) : IsAttr(body[j]) /\ body[j].name = name}
           i == AttrAt(body, name)
<1>1. Len(body) \in Nat /\ DOMAIN body = 1 .. Len(body)
  BY DEF IsSequence
<1>2. i = IF I # {} THEN Min(I) ELSE 0
  BY DEF AttrAt, SelectInSeq
<1>3. I \in SUBSET (1 .. Len(body))
  OBVIOUS
<1>4. \A j : j \in I <=> j \in DOMAIN body /\ IsAttr(body[j]) /\ body[j].name = name
  BY <1>1
<1> HIDE DEF I, i
<1>5. \/ i = 0 /\ I = {}
      \/ i \in I /\ i > 0 /\ \A j \in I : i <= j
  BY <1>1, <1>2, <1>3, FirstPlace
<1>6. \/ i = 0 /\ \A j \in DOMAIN body : ~(IsAttr(body[j]) /\ body[j].name = name)
      \/ /\ i > 0 /\ i \in DOMAIN body /\ IsAttr(body[i]) /\ body[i].name = name
         /\ \A j \in DOMAIN body : IsAttr(body[j]) /\ body[j].name = name => i <= j
  BY <1>4, <1>5
<1>7. QED
  BY <1>6 DEF i

LEMMA FieldPlace ==
  ASSUME NEW obj, IsSequence(obj.fields), NEW key
  PROVE  \/ Get(obj, key) = NoValue /\ \A j \in DOMAIN obj.fields : obj.fields[j].key # key
         \/ \E i \in DOMAIN obj.fields :
              /\ Get(obj, key) = obj.fields[i].value
              /\ obj.fields[i].key = key
              /\ \A j \in DOMAIN obj.fields : obj.fields[j].key = key => i <= j
<1> DEFINE I == {j \in 1 .. Len(obj.fields) : obj.fields[j].key = key}
           i == SelectInSeq(obj.fields, LAMBDA f : f.key = key)
<1>1. Len(obj.fields) \in Nat /\ DOMAIN obj.fields = 1 .. Len(obj.fields)
  BY DEF IsSequence
<1>2. i = IF I # {} THEN Min(I) ELSE 0
  BY DEF SelectInSeq
<1>3. Get(obj, key) = IF i = 0 THEN NoValue ELSE obj.fields[i].value
  BY DEF Get
<1>4. I \in SUBSET (1 .. Len(obj.fields))
  OBVIOUS
<1>5. \A j : j \in I <=> j \in DOMAIN obj.fields /\ obj.fields[j].key = key
  BY <1>1
<1> HIDE DEF I, i
<1>6. \/ i = 0 /\ I = {}
      \/ i \in I /\ i > 0 /\ \A j \in I : i <= j
  BY <1>1, <1>2, <1>4, FirstPlace
<1>7. QED
  BY <1>3, <1>5, <1>6

LEMMA BodyRound ==
  ASSUME NEW body, IsBody(body), NEW parts, IsSequence(parts), parts # <<>>
  PROVE  LET r == StepInBody(body, parts)
         IN  \/ r = GiveUp
             \/ \E i \in DOMAIN body : IsAttr(body[i]) /\ r = Reach(AValue(body[i].value), Tail(parts))
             \/ \E i \in DOMAIN body :
                  /\ ~IsAttr(body[i])
                  /\ Len(body[i].labels) + 1 <= Len(parts)
                  /\ r = Reach(ABlock(body[i]), SubSeq(parts, Len(body[i].labels) + 2, Len(parts)))
<1> DEFINE part == Head(parts)
           attr == AttrAt(body, part.name)
           fits == Fits(body, part.name, Tail(parts))
           b    == LongestFit(body, fits)
           r    == StepInBody(body, parts)
<1>1. r = IF part.p # "name" THEN GiveUp
          ELSE IF attr > 0 THEN Reach(AValue(body[attr].value), Tail(parts))
          ELSE IF fits = {} THEN GiveUp
          ELSE Reach(ABlock(b), SubSeq(parts, Len(b.labels) + 2, Len(parts)))
  BY DEF StepInBody
<1>2. IsSequence(Tail(parts)) /\ Len(parts) \in Nat \ {0} /\ Len(Tail(parts)) = Len(parts) - 1
  BY TailSequence
<1>3. attr = 0 \/ (attr > 0 /\ attr \in DOMAIN body /\ IsAttr(body[attr]))
  <2>1. IsSequence(body)
    BY DEF IsBody
  <2>2. QED
    BY <2>1, AttrPlace
<1>4. ASSUME fits # {}
      PROVE  \E i \in DOMAIN body : ~IsAttr(body[i]) /\ Len(body[i].labels) + 1 <= Len(parts) /\ b = body[i]
  <2>1. \A i \in fits : i \in DOMAIN body /\ IsBlock(body[i]) /\ Len(body[i].labels) <= Len(Tail(parts))
    <3> DEFINE type == part.name
               rest == Tail(parts)
    <3>1. IsSequence(rest)
      BY <1>2
    <3> HIDE DEF type, rest
    <3>2. \A i \in Fits(body, type, rest) : i \in DOMAIN body /\ IsBlock(body[i]) /\ Len(body[i].labels) <= Len(rest)
      BY <3>1, FitIs
    <3>3. QED
      BY <3>2 DEF type, rest
  <2> HIDE DEF fits, b
  <2>2. PICK i \in fits : LongestFit(body, fits) = body[i]
    BY <1>4, <2>1, LongestIsOneOf
  <2>3. Len(body[i].labels) \in Nat
    BY <2>1 DEF IsBody, IsAttr, IsBlock, IsSequence
  <2>4. b = body[i]
    BY <2>2 DEF b
  <2>5. ~IsAttr(body[i]) /\ i \in DOMAIN body
    BY <2>1 DEF IsAttr, IsBlock
  <2>6. Len(body[i].labels) + 1 <= Len(parts)
    BY <1>2, <2>1, <2>3
  <2>7. QED
    BY <2>4, <2>5, <2>6
<1> HIDE DEF part, attr, fits, b, r
<1>5. \/ r = GiveUp
      \/ \E i \in DOMAIN body : IsAttr(body[i]) /\ r = Reach(AValue(body[i].value), Tail(parts))
      \/ \E i \in DOMAIN body :
           /\ ~IsAttr(body[i])
           /\ Len(body[i].labels) + 1 <= Len(parts)
           /\ r = Reach(ABlock(body[i]), SubSeq(parts, Len(body[i].labels) + 2, Len(parts)))
  <2>1. CASE part.p # "name"
    BY <1>1, <2>1
  <2>2. CASE part.p = "name" /\ attr > 0
    BY <1>1, <1>3, <2>2
  <2>3. CASE part.p = "name" /\ ~(attr > 0) /\ fits = {}
    BY <1>1, <2>3
  <2>4. CASE part.p = "name" /\ ~(attr > 0) /\ fits # {}
    BY <1>1, <1>4, <2>4
  <2>5. QED
    BY <2>1, <2>2, <2>3, <2>4
<1>6. QED
  BY <1>5 DEF r

LEMMA ValueRound ==
  ASSUME NEW v, IsComplete(AValue(v)), NEW parts, parts # <<>>
  PROVE  LET r == StepInValue(v, parts)
         IN  \/ r = GiveUp
             \/ \E w : AValue(w) \in Inside(AValue(v)) /\ r = Reach(AValue(w), Tail(parts))
<1> DEFINE part == Head(parts)
           w    == Step(v, part)
           r    == StepInValue(v, parts)
<1>1. r = IF w = NoValue THEN GiveUp ELSE Reach(AValue(w), Tail(parts))
  BY DEF StepInValue
<1>2. ASSUME w # NoValue
      PROVE  AValue(w) \in Inside(AValue(v))
  <2>1. CASE IsList(v) /\ part.index + 1 \in DOMAIN v.items /\ w = v.items[part.index + 1]
    <3>1. Inside(AValue(v)) = {AValue(u) : u \in Range(v.items)}
      BY <2>1 DEF Inside, AValue, IsList, IsObj
    <3>2. w \in Range(v.items)
      BY <2>1 DEF Range
    <3>3. QED
      BY <3>1, <3>2
  <2>2. CASE IsObj(v) /\ w = Get(v, part.name)
    <3>1. Inside(AValue(v)) = {AValue(f.value) : f \in Range(v.fields)}
      BY <2>2 DEF Inside, AValue, IsList, IsObj
    <3>2. IsSequence(v.fields)
      BY <2>2 DEF IsComplete, AValue, IsList, IsObj
    <3>3. PICK i \in DOMAIN v.fields : w = v.fields[i].value
      BY <1>2, <2>2, <3>2, FieldPlace
    <3>4. v.fields[i] \in Range(v.fields)
      BY DEF Range
    <3>5. QED
      BY <3>1, <3>3, <3>4
  <2>3. w = NoValue \/ (IsList(v) /\ part.index + 1 \in DOMAIN v.items /\ w = v.items[part.index + 1])
                    \/ (IsObj(v) /\ w = Get(v, part.name))
    BY DEF Step, IsList, IsObj
  <2>4. QED
    BY <1>2, <2>1, <2>2, <2>3
<1>3. QED
  BY <1>1, <1>2

-----------------------------------------------------------------------------
(* A resolution stays in its result *)

IsForm(p) == (\E v : p = AValue(v)) \/ (\E b : p = ABlock(b))

OnTheWay(s, body, parts, n) ==
  /\ s = Reach(s.what, s.parts)
  /\ IsSequence(s.parts)
  /\ s.parts = <<>> \/ Len(s.parts) + n <= Len(parts)
  /\ s = GiveUp \/ (IsForm(s.what) /\ \E m \in 0 .. n : s.what \in Within(body)[m])

LEMMA CompleteBody ==
  ASSUME NEW b, IsComplete(ABlock(b))
  PROVE  IsBody(b.body)
<1>1. /\ IsSequence(b.body)
      /\ \A item \in Range(b.body) : IF IsAttr(item) THEN item.value # NoValue ELSE IsSequence(item.labels)
  BY DEF IsComplete, ABlock
<1>2. \A i \in DOMAIN b.body : b.body[i] \in Range(b.body)
  BY DEF Range
<1>3. QED
  BY <1>1, <1>2 DEF IsBody

LEMMA RoundInside ==
  ASSUME NEW p, IsForm(p), IsComplete(p), NEW parts, IsSequence(parts), parts # <<>>
  PROVE  LET r == Round(Reach(p, parts))
         IN  \/ r = GiveUp
             \/ /\ r = Reach(r.what, r.parts)
                /\ r.what \in Inside(p) /\ IsForm(r.what)
                /\ IsSequence(r.parts) /\ Len(r.parts) + 1 <= Len(parts)
<1> DEFINE r == Round(Reach(p, parts))
           Good == /\ r = Reach(r.what, r.parts)
                   /\ r.what \in Inside(p) /\ IsForm(r.what)
                   /\ IsSequence(r.parts) /\ Len(r.parts) + 1 <= Len(parts)
<1>1. IsSequence(Tail(parts)) /\ Len(parts) \in Nat \ {0} /\ Len(Tail(parts)) + 1 = Len(parts)
  BY TailSequence
<1>2. ASSUME \E v : p = AValue(v)
      PROVE  r = GiveUp \/ Good
  <2>1. PICK v : p = AValue(v)
    BY <1>2
  <2>2. r = StepInValue(v, parts)
    BY <2>1 DEF Round, Reach, AValue
  <2>3. ASSUME \E w : AValue(w) \in Inside(AValue(v)) /\ r = Reach(AValue(w), Tail(parts))
        PROVE  Good
    <3>1. PICK w : AValue(w) \in Inside(AValue(v)) /\ r = Reach(AValue(w), Tail(parts))
      BY <2>3
    <3> HIDE DEF r
    <3>2. r.what = AValue(w) /\ r.parts = Tail(parts)
      BY <3>1 DEF Reach
    <3>3. r = Reach(r.what, r.parts) /\ IsForm(r.what)
      BY <3>1, <3>2 DEF IsForm
    <3>4. r.what \in Inside(p)
      BY <2>1, <3>1, <3>2, Zenon
    <3>5. QED
      BY <1>1, <3>2, <3>3, <3>4
  <2>4. r = GiveUp \/ \E w : AValue(w) \in Inside(AValue(v)) /\ r = Reach(AValue(w), Tail(parts))
    BY <2>1, <2>2, ValueRound
  <2> HIDE DEF r
  <2>5. QED
    BY <2>3, <2>4
<1>3. ASSUME \E b : p = ABlock(b)
      PROVE  r = GiveUp \/ Good
  <2>1. PICK b : p = ABlock(b)
    BY <1>3
  <2> DEFINE body == b.body
  <2>2. r = StepInBody(body, parts)
    BY <2>1 DEF Round, Reach, ABlock
  <2>3. IsBody(body)
    BY <2>1, CompleteBody
  <2>4. Inside(p) = {AValue(item.value) : item \in {x \in Range(body) : IsAttr(x)}}
                    \cup {ABlock(item) : item \in {x \in Range(body) : ~IsAttr(x)}}
    BY <2>1 DEF Inside, ABlock
  <2>5. \A i \in DOMAIN body : body[i] \in Range(body)
    BY DEF Range
  <2> HIDE DEF r, body
  <2>6. \/ r = GiveUp
        \/ \E i \in DOMAIN body : IsAttr(body[i]) /\ r = Reach(AValue(body[i].value), Tail(parts))
        \/ \E i \in DOMAIN body :
             /\ ~IsAttr(body[i])
             /\ Len(body[i].labels) + 1 <= Len(parts)
             /\ r = Reach(ABlock(body[i]), SubSeq(parts, Len(body[i].labels) + 2, Len(parts)))
    BY <2>2, <2>3, BodyRound
  <2>7. ASSUME NEW i \in DOMAIN body, IsAttr(body[i]), r = Reach(AValue(body[i].value), Tail(parts))
        PROVE  Good
    <3>1. r.what = AValue(body[i].value) /\ r.parts = Tail(parts)
      BY <2>7 DEF Reach
    <3>2. r.what \in Inside(p)
      BY <2>4, <2>5, <2>7, <3>1
    <3>3. r = Reach(r.what, r.parts) /\ IsForm(r.what)
      BY <2>7, <3>1 DEF IsForm
    <3>4. QED
      BY <1>1, <3>1, <3>2, <3>3
  <2>8. ASSUME NEW i \in DOMAIN body, ~IsAttr(body[i]), Len(body[i].labels) + 1 <= Len(parts),
               r = Reach(ABlock(body[i]), SubSeq(parts, Len(body[i].labels) + 2, Len(parts)))
        PROVE  Good
    <3> DEFINE m == Len(body[i].labels) + 2
               q == SubSeq(parts, m, Len(parts))
    <3>1. Len(body[i].labels) \in Nat
      BY <2>3, <2>8 DEF IsBody, IsSequence
    <3>2. m \in Nat \ {0} /\ m <= Len(parts) + 1 /\ m >= 2
      BY <1>1, <2>8, <3>1
    <3>3. r.what = ABlock(body[i]) /\ r.parts = q
      BY <2>8 DEF Reach
    <3> HIDE DEF m
    <3>4. IsSequence(q) /\ Len(q) = Len(parts) + 1 - m
      BY <3>2, SuffixSequence
    <3>5. r.what \in Inside(p)
      BY <2>4, <2>5, <2>8, <3>3
    <3> HIDE DEF q
    <3>6. Len(q) + 1 <= Len(parts)
      BY <1>1, <3>2, <3>4
    <3>7. r = Reach(r.what, r.parts)
      BY <2>8, <3>3 DEF q, m
    <3>8. IsForm(r.what)
      BY <3>3 DEF IsForm
    <3>9. QED
      BY <3>3, <3>4, <3>5, <3>6, <3>7, <3>8
  <2>9. QED
    BY <2>6, <2>7, <2>8
<1>4. r = GiveUp \/ Good
  BY <1>2, <1>3 DEF IsForm
<1>5. QED
  BY <1>4

LEMMA RoundsStay ==
  ASSUME NEW body, NEW parts, IsSequence(parts), NEW most \in Nat,
         \A n \in 0 .. most : \A place \in Within(body)[n] : IsComplete(place)
  PROVE  \A n \in 0 .. most + 1 : OnTheWay(Rounds(body, parts)[n], body, parts, n)
<1> DEFINE s == Rounds(body, parts)
           w == Within(body)
           Good(n) == OnTheWay(s[n], body, parts, n)
           S == {n \in Nat : n <= most + 1 => Good(n)}
<1>1. s[0] = Reach(AsBlock(body), parts) /\ \A n \in Nat : s[n + 1] = Round(s[n])
  BY RoundsAre
<1>2. w[0] = {AsBlock(body)} /\ \A n \in Nat : w[n + 1] = UNION {Inside(place) : place \in w[n]}
  BY WithinIs
<1>3. Len(parts) \in Nat
  BY DEF IsSequence
<1> HIDE DEF s
<1>4. 0 \in S
  <2>1. s[0].what = AsBlock(body) /\ s[0].parts = parts
    BY <1>1 DEF Reach
  <2>2. IsForm(AsBlock(body))
    BY DEF IsForm, AsBlock
  <2>3. 0 \in 0 .. 0 /\ s[0].what \in Within(body)[0]
    BY <1>2, <2>1
  <2>4. Good(0)
    BY <1>1, <1>3, <2>1, <2>2, <2>3 DEF OnTheWay
  <2>5. QED
    BY <2>4
<1>5. ASSUME NEW n \in Nat, n \in S
      PROVE  n + 1 \in S
  <2> SUFFICES ASSUME n + 1 <= most + 1
               PROVE  Good(n + 1)
    OBVIOUS
  <2>1. Good(n) /\ n <= most
    BY <1>5
  <2>2. s[n + 1] = Round(s[n])
    BY <1>1
  <2>3. CASE s[n].parts = <<>>
    <3>1. s[n + 1] = s[n]
      BY <2>2, <2>3 DEF Round
    <3>2. s[n] = GiveUp \/ (IsForm(s[n].what) /\ \E m \in 0 .. n + 1 : s[n].what \in Within(body)[m])
      BY <2>1 DEF OnTheWay
    <3>3. QED
      BY <2>1, <2>3, <3>1, <3>2 DEF OnTheWay
  <2>4. CASE s[n].parts # <<>>
    <3> DEFINE p == s[n].what
               q == s[n].parts
               r == s[n + 1]
    <3>1. s[n] = Reach(p, q) /\ IsSequence(q) /\ q # <<>> /\ Len(q) + n <= Len(parts)
      BY <2>1, <2>4 DEF OnTheWay
    <3>2. s[n] # GiveUp
      BY <2>4 DEF GiveUp, Reach
    <3>3. PICK m \in 0 .. n : p \in w[m]
      BY <2>1, <3>2 DEF OnTheWay
    <3>4. IsComplete(p) /\ IsForm(p)
      <4>1. m \in 0 .. most
        BY <2>1
      <4>2. QED
        BY <2>1, <3>2, <3>3, <4>1 DEF OnTheWay
    <3>5. r = Round(Reach(p, q))
      BY <2>2, <3>1
    <3> HIDE DEF p, q, r
    <3>6. \/ r = GiveUp
          \/ /\ r = Reach(r.what, r.parts)
             /\ r.what \in Inside(p) /\ IsForm(r.what)
             /\ IsSequence(r.parts) /\ Len(r.parts) + 1 <= Len(q)
      BY <3>1, <3>4, <3>5, RoundInside
    <3>7. CASE r = GiveUp
      <4>1. r.parts = <<>> /\ r = Reach(r.what, r.parts)
        BY <3>7 DEF GiveUp, Reach
      <4>2. OnTheWay(r, body, parts, n + 1)
        BY <3>7, <4>1, ShortSequences DEF OnTheWay
      <4>3. QED
        BY <4>2 DEF r
    <3>8. CASE r # GiveUp
      <4>1. r.what \in w[m + 1]
        <5>1. w[m + 1] = UNION {Inside(place) : place \in w[m]}
          BY <1>2
        <5>2. QED
          BY <3>3, <3>6, <3>8, <5>1 DEF p
      <4>2. m + 1 \in 0 .. n + 1
        OBVIOUS
      <4>3. Len(r.parts) + (n + 1) <= Len(parts)
        <5>1. Len(q) \in Nat /\ Len(r.parts) \in Nat
          BY <3>1, <3>6, <3>8 DEF IsSequence
        <5>2. QED
          BY <1>3, <3>1, <3>6, <3>8, <5>1
      <4>4. \E k \in 0 .. n + 1 : r.what \in Within(body)[k]
        BY <4>1, <4>2
      <4>5. OnTheWay(r, body, parts, n + 1)
        BY <3>6, <3>8, <4>3, <4>4 DEF OnTheWay
      <4>6. QED
        BY <4>5 DEF r
    <3>9. QED
      BY <3>7, <3>8
  <2>5. QED
    BY <2>3, <2>4
<1> HIDE DEF S
<1>6. Nat \subseteq S
  BY <1>4, <1>5, AllNaturals
<1>7. QED
  BY <1>6 DEF S, s

-----------------------------------------------------------------------------
(* A path and the path with one more name *)

LEMMA BodyFollows ==
  ASSUME NEW body, IsBody(body), NEW parts, IsSequence(parts), parts # <<>>, NEW x
  PROVE  LET r == StepInBody(body, parts)
             t == StepInBody(body, Append(parts, x))
         IN  \/ r = GiveUp
             \/ t = Reach(r.what, Append(r.parts, x))
             \/ t.what.names = "block" /\ t.parts = <<>>
<1> DEFINE more  == Append(parts, x)
           rest  == Tail(parts)
           part  == Head(parts)
           attr  == AttrAt(body, part.name)
           fits  == Fits(body, part.name, rest)
           wider == Fits(body, part.name, Append(rest, x))
           b     == LongestFit(body, fits)
           c     == LongestFit(body, wider)
           r     == StepInBody(body, parts)
           t     == StepInBody(body, more)
           Goal  == \/ r = GiveUp
                    \/ t = Reach(r.what, Append(r.parts, x))
                    \/ t.what.names = "block" /\ t.parts = <<>>
<1>1. Head(more) = part /\ Tail(more) = Append(rest, x)
  BY TailOfAppend
<1>2. r = IF part.p # "name" THEN GiveUp
          ELSE IF attr > 0 THEN Reach(AValue(body[attr].value), rest)
          ELSE IF fits = {} THEN GiveUp
          ELSE Reach(ABlock(b), SubSeq(parts, Len(b.labels) + 2, Len(parts)))
  BY DEF StepInBody
<1>3. t = IF part.p # "name" THEN GiveUp
          ELSE IF attr > 0 THEN Reach(AValue(body[attr].value), Append(rest, x))
          ELSE IF wider = {} THEN GiveUp
          ELSE Reach(ABlock(c), SubSeq(more, Len(c.labels) + 2, Len(more)))
  <2> HIDE DEF more
  <2>1. QED
    BY <1>1 DEF StepInBody
<1>4. IsSequence(rest) /\ Len(parts) \in Nat \ {0} /\ Len(rest) \in Nat /\ Len(rest) + 1 = Len(parts)
  <2>1. IsSequence(rest) /\ Len(parts) \in Nat \ {0} /\ Len(rest) = Len(parts) - 1
    BY TailSequence
  <2>2. QED
    BY <2>1
<1>5. IsSequence(more) /\ Len(more) = Len(parts) + 1
  BY AppendSequence
<1> DEFINE longer == Append(rest, x)
           type   == part.name
<1>6. /\ IsSequence(longer) /\ Len(longer) = Len(rest) + 1
      /\ \A n \in 1 .. Len(rest) : longer[n] = rest[n]
  <2> HIDE DEF rest
  <2>1. QED
    BY <1>4, AppendSequence
<1> HIDE DEF longer, rest, type
<1>7. \A i : i \in fits <=>
        /\ i \in DOMAIN body /\ IsBlock(body[i]) /\ body[i].type = type
        /\ Len(body[i].labels) <= Len(rest)
        /\ \A k \in 1 .. Len(body[i].labels) : rest[k] = Name(body[i].labels[k])
  BY <1>4, FitIs DEF type
<1>8. \A i : i \in wider <=>
        /\ i \in DOMAIN body /\ IsBlock(body[i]) /\ body[i].type = type
        /\ Len(body[i].labels) <= Len(longer)
        /\ \A k \in 1 .. Len(body[i].labels) : longer[k] = Name(body[i].labels[k])
  <2> HIDE DEF wider
  <2>1. \A i : i \in Fits(body, type, longer) <=>
          /\ i \in DOMAIN body /\ IsBlock(body[i]) /\ body[i].type = type
          /\ Len(body[i].labels) <= Len(longer)
          /\ \A k \in 1 .. Len(body[i].labels) : longer[k] = Name(body[i].labels[k])
    BY <1>6, FitIs
  <2>2. wider = Fits(body, type, longer)
    BY DEF wider, type, longer
  <2>3. QED
    BY <2>1, <2>2
<1>9. \A i \in DOMAIN body : IsBlock(body[i]) => Len(body[i].labels) \in Nat
  BY DEF IsBody, IsAttr, IsBlock, IsSequence
<1>10. fits \subseteq wider
  <2>1. ASSUME NEW i \in fits
        PROVE  i \in wider
    <3> DEFINE m == Len(body[i].labels)
    <3>1. m \in Nat /\ m <= Len(rest)
      BY <1>7, <1>9
    <3> HIDE DEF m
    <3>2. \A k \in 1 .. m : k \in 1 .. Len(rest)
      BY <1>4, <3>1
    <3>3. m <= Len(longer)
      BY <1>4, <1>6, <3>1
    <3>4. QED
      BY <1>6, <1>7, <1>8, <3>2, <3>3 DEF m
  <2>2. QED
    BY <2>1
<1> HIDE DEF fits, wider, b, c, r, t, more, part, attr
<1>11. ASSUME part.p # "name"
       PROVE  Goal
  BY <1>2, <1>11
<1>12. ASSUME part.p = "name" /\ attr > 0
       PROVE  Goal
  <2>1. r = Reach(AValue(body[attr].value), rest) /\ t = Reach(AValue(body[attr].value), longer)
    BY <1>2, <1>3, <1>12 DEF longer
  <2>2. r.what = AValue(body[attr].value) /\ r.parts = rest
    BY <2>1 DEF Reach
  <2>3. QED
    BY <2>1, <2>2 DEF longer
<1>13. ASSUME part.p = "name" /\ ~(attr > 0) /\ fits = {}
       PROVE  Goal
  BY <1>2, <1>13
<1>14. ASSUME part.p = "name" /\ ~(attr > 0) /\ fits # {}
       PROVE  Goal
  <2>1. PICK j \in wider : c = body[j] /\ \A i \in wider : Len(body[i].labels) <= Len(body[j].labels)
    <3>1. wider # {}
      BY <1>10, <1>14
    <3>2. \A i \in wider : i \in DOMAIN body /\ IsBlock(body[i])
      BY <1>8
    <3>3. QED
      BY <3>1, <3>2, LongestIsOneOf DEF c
  <2>2. t = Reach(ABlock(c), SubSeq(more, Len(c.labels) + 2, Len(more)))
    BY <1>3, <1>14, <2>1
  <2>3. r = Reach(ABlock(b), SubSeq(parts, Len(b.labels) + 2, Len(parts)))
    BY <1>2, <1>14
  <2> DEFINE m == Len(c.labels)
  <2>4. m \in Nat /\ m <= Len(rest) + 1
    BY <1>6, <1>8, <1>9, <2>1
  <2>5. CASE m = Len(rest) + 1
    <3> DEFINE q == SubSeq(more, m + 2, Len(more))
    <3>1. m + 2 \in Nat \ {0} /\ m + 2 <= Len(more) + 1 /\ Len(more) + 1 - (m + 2) = 0
      BY <1>4, <1>5, <2>5
    <3> DEFINE f == m + 2
    <3> HIDE DEF f
    <3>2. IsSequence(SubSeq(more, f, Len(more))) /\ Len(SubSeq(more, f, Len(more))) = Len(more) + 1 - f
      BY <1>5, <3>1, SuffixSequence DEF f
    <3>3. IsSequence(q) /\ Len(q) = 0
      BY <3>1, <3>2 DEF f
    <3> HIDE DEF q
    <3>4. q = <<>>
      BY <3>3, NonEmpty
    <3>5. t = Reach(ABlock(c), q)
      BY <2>2 DEF q
    <3>6. t.what.names = "block" /\ t.parts = <<>>
      BY <3>4, <3>5 DEF Reach, ABlock
    <3>7. QED
      BY <3>6
  <2>6. CASE m # Len(rest) + 1
    <3>1. m <= Len(rest)
      BY <1>4, <2>4, <2>6
    <3>2. ASSUME NEW i \in wider
          PROVE  i \in fits
      <4> DEFINE n == Len(body[i].labels)
      <4>1. n \in Nat /\ n <= m
        BY <1>8, <1>9, <2>1
      <4> HIDE DEF n, m
      <4>2. n <= Len(rest)
        BY <1>4, <2>4, <3>1, <4>1
      <4>3. \A k \in 1 .. n : k \in 1 .. Len(rest)
        BY <1>4, <4>1, <4>2
      <4>4. QED
        BY <1>6, <1>7, <1>8, <4>2, <4>3 DEF n
    <3>3. fits = wider
      BY <1>10, <3>2
    <3>4. b = c
      BY <3>3 DEF b, c
    <3> DEFINE f == m + 2
               q == SubSeq(parts, f, Len(parts))
    <3>5. f \in Nat \ {0} /\ f <= Len(parts) + 1
      BY <1>4, <2>4, <3>1
    <3> HIDE DEF f
    <3>6. SubSeq(more, f, Len(parts) + 1) = Append(q, x)
      BY <3>5, SuffixOfAppend DEF more
    <3>7. SubSeq(more, f, Len(more)) = Append(q, x)
      BY <1>5, <3>6
    <3>8. t = Reach(ABlock(c), Append(q, x)) /\ r = Reach(ABlock(c), q)
      BY <2>2, <2>3, <3>4, <3>7 DEF f
    <3> HIDE DEF q
    <3>9. r.what = ABlock(c) /\ r.parts = q
      BY <3>8 DEF Reach
    <3>10. QED
      BY <3>8, <3>9
  <2>7. QED
    BY <2>5, <2>6
<1>15. Goal
  BY <1>11, <1>12, <1>13, <1>14
<1>16. QED
  BY <1>15 DEF r, t, more

LEMMA RoundFollows ==
  ASSUME NEW p, IsForm(p), IsComplete(p), NEW parts, IsSequence(parts), parts # <<>>, NEW x
  PROVE  LET r == Round(Reach(p, parts))
             t == Round(Reach(p, Append(parts, x)))
         IN  \/ r = GiveUp
             \/ t = Reach(r.what, Append(r.parts, x))
             \/ t.what.names = "block" /\ t.parts = <<>>
<1> DEFINE more == Append(parts, x)
           r    == Round(Reach(p, parts))
           t    == Round(Reach(p, more))
           Goal == \/ r = GiveUp
                   \/ t = Reach(r.what, Append(r.parts, x))
                   \/ t.what.names = "block" /\ t.parts = <<>>
<1>1. more # <<>> /\ Head(more) = Head(parts) /\ Tail(more) = Append(Tail(parts), x)
  BY TailOfAppend
<1>2. ASSUME NEW v, p = AValue(v)
      PROVE  Goal
  <2> DEFINE w == Step(v, Head(parts))
  <2> HIDE DEF more
  <2>1. r = StepInValue(v, parts) /\ t = StepInValue(v, more)
    BY <1>1, <1>2 DEF Round, Reach, AValue
  <2>2. /\ r = IF w = NoValue THEN GiveUp ELSE Reach(AValue(w), Tail(parts))
        /\ t = IF w = NoValue THEN GiveUp ELSE Reach(AValue(w), Append(Tail(parts), x))
    BY <1>1, <2>1 DEF StepInValue
  <2> HIDE DEF r, t, w
  <2>3. CASE w = NoValue
    BY <2>2, <2>3
  <2>4. CASE w # NoValue
    <3>1. r.what = AValue(w) /\ r.parts = Tail(parts)
      BY <2>2, <2>4 DEF Reach
    <3>2. QED
      BY <2>2, <2>4, <3>1
  <2>5. QED
    BY <2>3, <2>4
<1>3. ASSUME NEW b, p = ABlock(b)
      PROVE  Goal
  <2>1. IsBody(b.body)
    BY <1>3, CompleteBody
  <2>2. r = StepInBody(b.body, parts) /\ t = StepInBody(b.body, more)
    <3> HIDE DEF more
    <3>1. QED
      BY <1>1, <1>3 DEF Round, Reach, ABlock
  <2> DEFINE d == b.body
  <2> HIDE DEF r, t, d
  <2>3. LET r1 == StepInBody(d, parts)
            t1 == StepInBody(d, Append(parts, x))
        IN  \/ r1 = GiveUp
            \/ t1 = Reach(r1.what, Append(r1.parts, x))
            \/ t1.what.names = "block" /\ t1.parts = <<>>
    BY <2>1, BodyFollows DEF d
  <2>4. QED
    BY <2>2, <2>3 DEF d
<1>4. Goal
  BY <1>2, <1>3 DEF IsForm
<1>5. QED
  BY <1>4

\* What a path with one more name reads is what that name reads in what the path names;
\* but the name may complete the labels of a block with a longer list instead.
LEMMA OneMoreName ==
  ASSUME NEW body, NEW parts, IsSequence(parts), NEW x,
         \A n \in 0 .. Len(parts) : \A place \in Within(body)[n] : IsComplete(place)
  PROVE  LET s == Rounds(body, parts)[Len(parts)]
             r == Resolve(body, Append(parts, x))
         IN  \/ s = GiveUp
             \/ r.names = "block"
             \/ IsForm(s.what) /\ IsComplete(s.what) /\ r = Round(Reach(s.what, <<x>>)).what
<1> DEFINE more == Append(parts, x)
           s    == Rounds(body, parts)
           t    == Rounds(body, more)
           N    == Len(parts)
           After(n) == Round(Reach(s[n].what, <<x>>))
           Follows(n) ==
             \/ s[n] = GiveUp
             \/ t[n] = Reach(s[n].what, Append(s[n].parts, x))
             \/ s[n].parts = <<>> /\ t[n].parts = <<>> /\ t[n] = After(n)
             \/ t[n].what.names = "block" /\ t[n].parts = <<>>
           S == {n \in Nat : n <= N + 1 => Follows(n)}
<1>1. IsSequence(more) /\ N \in Nat /\ Len(more) = N + 1 /\ more # <<>>
  BY AppendSequence, AppendNonEmpty
<1>2. s[0] = Reach(AsBlock(body), parts) /\ \A n \in Nat : s[n + 1] = Round(s[n])
  BY RoundsAre
<1>3. t[0] = Reach(AsBlock(body), more) /\ \A n \in Nat : t[n + 1] = Round(t[n])
  <2> HIDE DEF more
  <2>1. QED
    BY RoundsAre
<1> DEFINE most == N
<1> HIDE DEF more, most
<1>4. \A n \in 0 .. N + 1 : OnTheWay(s[n], body, parts, n)
  BY <1>1, RoundsStay
<1>5. \A n \in 0 .. N + 1 : OnTheWay(t[n], body, more, n)
  BY <1>1, RoundsStay
<1> HIDE DEF s, t
<1>6. \A n \in 0 .. N : s[n] # GiveUp => IsForm(s[n].what) /\ IsComplete(s[n].what)
  <2>1. ASSUME NEW n \in 0 .. N, s[n] # GiveUp
        PROVE  IsForm(s[n].what) /\ IsComplete(s[n].what)
    <3>1. n \in 0 .. N + 1
      BY <1>1
    <3>2. PICK m \in 0 .. n : IsForm(s[n].what) /\ s[n].what \in Within(body)[m]
      BY <1>4, <2>1, <3>1 DEF OnTheWay
    <3>3. m \in 0 .. N
      BY <1>1
    <3>4. QED
      BY <3>2, <3>3
  <2>2. QED
    BY <2>1
<1>7. 0 \in S
  <2>1. s[0].what = AsBlock(body) /\ s[0].parts = parts
    BY <1>2 DEF Reach
  <2>2. QED
    BY <1>3, <2>1 DEF more
<1>8. ASSUME NEW n \in Nat, n \in S
      PROVE  n + 1 \in S
  <2> SUFFICES ASSUME n + 1 <= N + 1
               PROVE  Follows(n + 1)
    OBVIOUS
  <2>1. Follows(n) /\ n \in 0 .. N /\ n \in 0 .. N + 1
    BY <1>1, <1>8
  <2>2. s[n + 1] = Round(s[n]) /\ t[n + 1] = Round(t[n])
    BY <1>2, <1>3
  <2> DEFINE p == s[n].what
             q == s[n].parts
             r == s[n + 1]
             u == t[n + 1]
  <2>3. s[n] = Reach(p, q) /\ IsSequence(q)
    BY <1>4, <2>1 DEF OnTheWay
  <2>4. CASE s[n] = GiveUp
    <3>1. s[n].parts = <<>>
      BY <2>4 DEF GiveUp, Reach
    <3>2. s[n + 1] = GiveUp
      BY <2>2, <2>4, <3>1 DEF Round
    <3>3. QED
      BY <3>2
  <2>5. CASE t[n].what.names = "block" /\ t[n].parts = <<>>
    <3>1. t[n + 1] = t[n]
      BY <2>2, <2>5 DEF Round
    <3>2. QED
      BY <2>5, <3>1
  <2>6. CASE s[n].parts = <<>> /\ t[n].parts = <<>> /\ t[n] = After(n)
    <3>1. t[n + 1] = t[n] /\ s[n + 1] = s[n]
      BY <2>2, <2>6 DEF Round
    <3>2. QED
      BY <2>6, <3>1
  <2>7. CASE s[n] # GiveUp /\ t[n] = Reach(p, Append(q, x))
    <3>1. IsForm(p) /\ IsComplete(p)
      BY <1>6, <2>1, <2>7
    <3>2. CASE q = <<>>
      <4>1. r = s[n]
        BY <2>2, <3>2 DEF Round
      <4>2. Append(q, x) = <<x>>
        BY <3>2
      <4>3. u = Round(Reach(p, <<x>>))
        BY <2>2, <2>7, <4>2
      <4>4. u.parts = <<>>
        <5> DEFINE one == <<x>>
        <5>1. IsSequence(one) /\ Len(one) = 1 /\ one # <<>>
          BY ShortSequences
        <5>2. u = Round(Reach(p, one))
          BY <4>3
        <5> HIDE DEF one, u, p
        <5>3. u = GiveUp \/ (IsSequence(u.parts) /\ Len(u.parts) + 1 <= Len(one))
          BY <3>1, <5>1, <5>2, RoundInside
        <5>4. CASE u = GiveUp
          BY <5>4 DEF GiveUp, Reach
        <5>5. CASE IsSequence(u.parts) /\ Len(u.parts) + 1 <= Len(one)
          <6>1. Len(u.parts) \in Nat
            BY <5>5 DEF IsSequence
          <6>2. Len(u.parts) = 0
            BY <5>1, <5>5, <6>1
          <6>3. QED
            BY <5>5, <6>2, NonEmpty
        <5>6. QED
          BY <5>3, <5>4, <5>5
      <4>5. QED
        BY <3>2, <4>1, <4>3, <4>4
    <3>3. CASE q # <<>>
      <4> HIDE DEF p, q
      <4> DEFINE r1 == Round(Reach(p, q))
                 t1 == Round(Reach(p, Append(q, x)))
      <4>1. \/ r1 = GiveUp
            \/ t1 = Reach(r1.what, Append(r1.parts, x))
            \/ t1.what.names = "block" /\ t1.parts = <<>>
        BY <2>3, <3>1, <3>3, RoundFollows
      <4>2. r = r1 /\ u = t1
        BY <2>2, <2>3, <2>7
      <4> HIDE DEF r1, t1
      <4>3. QED
        BY <4>1, <4>2
    <3>4. QED
      BY <3>2, <3>3
  <2>8. QED
    BY <2>1, <2>4, <2>5, <2>6, <2>7
<1> DEFINE M == N + 1
<1>9. M \in S /\ M \in Nat /\ M \in 0 .. N + 1
  <2> HIDE DEF S
  <2>1. N + 1 \in S
    BY <1>1, <1>7, <1>8, AllNaturals
  <2>2. QED
    BY <1>1, <2>1
<1>10. Follows(M)
  BY <1>9
<1>11. s[M] = s[N]
  <2>1. N \in 0 .. N + 1 /\ N \in Nat
    BY <1>1
  <2>2. s[N].parts = <<>> \/ Len(s[N].parts) + N <= N
    BY <1>4, <2>1 DEF OnTheWay
  <2>3. IsSequence(s[N].parts)
    BY <1>4, <2>1 DEF OnTheWay
  <2>4. Len(s[N].parts) \in Nat
    BY <2>3 DEF IsSequence
  <2>5. s[N].parts = <<>>
    <3>1. CASE Len(s[N].parts) = 0
      BY <2>3, <3>1, NonEmpty
    <3>2. CASE Len(s[N].parts) # 0
      BY <2>1, <2>2, <2>4, <3>2
    <3>3. QED
      BY <3>1, <3>2
  <2>6. s[N + 1] = Round(s[N])
    BY <1>2, <2>1
  <2>7. QED
    BY <2>5, <2>6 DEF Round
<1>12. t[M].parts = <<>>
  <2>1. /\ t[M].parts = <<>> \/ Len(t[M].parts) + M <= M
        /\ IsSequence(t[M].parts)
    BY <1>1, <1>5, <1>9 DEF OnTheWay
  <2>2. Len(t[M].parts) \in Nat
    BY <2>1 DEF IsSequence
  <2> HIDE DEF M
  <2>3. CASE Len(t[M].parts) = 0
    BY <2>1, <2>3, NonEmpty
  <2>4. CASE Len(t[M].parts) # 0
    BY <1>9, <2>1, <2>2, <2>4
  <2>5. QED
    BY <2>3, <2>4
<1>13. Resolve(body, more) = t[M].what
  BY <1>1 DEF Resolve, t
<1>14. CASE s[M] = GiveUp
  BY <1>11, <1>14 DEF s
<1>15. CASE s[M] # GiveUp /\ t[M] = Reach(s[M].what, Append(s[M].parts, x))
  <2>1. t[M].parts = Append(s[M].parts, x)
    BY <1>15 DEF Reach
  <2>2. IsSequence(s[M].parts)
    BY <1>4, <1>9 DEF OnTheWay
  <2>3. t[M].parts # <<>>
    BY <2>1, <2>2, AppendNonEmpty
  <2>4. QED
    BY <1>12, <2>3
<1>16. CASE s[M] # GiveUp /\ t[M] = After(M)
  <2>1. N \in 0 .. N
    BY <1>1
  <2>2. IsForm(s[N].what) /\ IsComplete(s[N].what)
    BY <1>6, <1>11, <1>16, <2>1
  <2>3. t[M] = Round(Reach(s[N].what, <<x>>))
    BY <1>11, <1>16
  <2>4. QED
    BY <1>13, <2>2, <2>3 DEF s, more
<1>17. CASE t[M].what.names = "block"
  BY <1>13, <1>17 DEF more
<1>18. QED
  BY <1>10, <1>14, <1>15, <1>16, <1>17

-----------------------------------------------------------------------------
(* What a call walks *)

\* What the path of the call names; an empty path names the body itself.
Base == Rounds(root, path)[Len(path)].what

LEMMA RootsAreWhole ==
  ASSUME root \in Roots, path \in Paths
  PROVE  /\ IsSequence(path) /\ Len(path) \in Nat
         /\ \A n \in 0 .. Len(path) : \A place \in Within(root)[n] : IsComplete(place)
<1>1. IsSequence(path) /\ Len(path) \in Nat
  BY PathsAssumption DEF IsSequence
<1>2. \A n \in 0 .. Len(path) : n \in UNION {0 .. Len(parts) : parts \in Paths}
  OBVIOUS
<1>3. QED
  BY <1>1, <1>2, ResultsAssumption

LEMMA ResolvesInside ==
  ASSUME root \in Roots, path \in Paths, NEW parts, IsSequence(parts), Len(parts) <= Len(path)
  PROVE  LET p == Rounds(root, parts)[Len(parts)].what
         IN  p = Nothing \/ (IsForm(p) /\ IsComplete(p))
<1> DEFINE n == Len(parts)
           s == Rounds(root, parts)[n]
<1>1. n \in Nat /\ Len(path) \in Nat
  BY RootsAreWhole DEF IsSequence
<1>2. n \in 0 .. Len(path) + 1
  BY <1>1
<1>3. OnTheWay(s, root, parts, n)
  BY <1>1, <1>2, RootsAreWhole, RoundsStay
<1>4. CASE s = GiveUp
  BY <1>4 DEF GiveUp, Reach
<1>5. CASE s # GiveUp
  <2>1. PICK m \in 0 .. n : IsForm(s.what) /\ s.what \in Within(root)[m]
    BY <1>3, <1>5 DEF OnTheWay
  <2>2. m \in 0 .. Len(path)
    BY <1>1
  <2>3. QED
    BY <2>1, <2>2, RootsAreWhole
<1>6. QED
  BY <1>4, <1>5

LEMMA BaseIs ==
  ASSUME root \in Roots, path \in Paths
  PROVE  /\ Base = Nothing \/ (IsForm(Base) /\ IsComplete(Base))
         /\ path = <<>> => Base = AsBlock(root)
         /\ path # <<>> => Resolve(root, path) = Base
<1>1. Base = Nothing \/ (IsForm(Base) /\ IsComplete(Base))
  <2>1. IsSequence(path) /\ Len(path) <= Len(path)
    BY RootsAreWhole
  <2>2. QED
    BY <2>1, ResolvesInside DEF Base
<1>2. ASSUME path = <<>>
      PROVE  Base = AsBlock(root)
  <2>1. Len(path) = 0
    BY <1>2
  <2>2. Rounds(root, path)[0].what = AsBlock(root)
    <3>1. Rounds(root, path)[0] = Reach(AsBlock(root), path)
      BY RoundsAre
    <3>2. QED
      BY <3>1 DEF Reach
  <2>3. QED
    BY <2>1, <2>2 DEF Base
<1>3. path # <<>> => Resolve(root, path) = Base
  BY DEF Resolve, Base
<1>4. QED
  BY <1>1, <1>2, <1>3

LEMMA SearchedIsBody ==
  ASSUME root \in Roots, path \in Paths
  PROVE  IsBody(SearchedBody)
<1>1. IsBody(root)
  <2> DEFINE b == [body |-> root]
  <2>1. AsBlock(root) \in Within(root)[0]
    BY WithinIs
  <2>2. 0 \in 0 .. Len(path)
    BY RootsAreWhole
  <2>3. IsComplete(ABlock(b))
    BY <2>1, <2>2, RootsAreWhole DEF AsBlock
  <2>4. b.body = root
    OBVIOUS
  <2> HIDE DEF b
  <2>5. QED
    BY <2>3, <2>4, CompleteBody
<1>2. IsBody(<<>>)
  <2>1. DOMAIN <<>> = {}
    OBVIOUS
  <2>2. QED
    BY <2>1, ShortSequences DEF IsBody
<1>3. ASSUME path # <<>>, Len(path) # 1, Resolve(root, Front(path)).names = "block"
      PROVE  IsBody(Resolve(root, Front(path)).block.body)
  <2> DEFINE k == Len(path) - 1
             f == SubSeq(path, 1, k)
             r == Resolve(root, f)
  <2>1. IsSequence(path) /\ Len(path) \in Nat
    BY RootsAreWhole
  <2>2. Len(path) # 0
    BY <1>3, <2>1, NonEmpty
  <2>3. k \in Nat /\ k <= Len(path) /\ k # 0
    BY <1>3, <2>1, <2>2
  <2> HIDE DEF k
  <2>4. IsSequence(f) /\ Len(f) = k
    BY <2>1, <2>3, PrefixSequence
  <2>5. f = Front(path)
    BY DEF Front, k
  <2> HIDE DEF f
  <2>6. r = Rounds(root, f)[Len(f)].what
    <3>1. f # <<>>
      BY <2>3, <2>4
    <3>2. QED
      BY <3>1 DEF Resolve
  <2>7. r = Nothing \/ (IsForm(r) /\ IsComplete(r))
    BY <2>3, <2>4, <2>6, ResolvesInside
  <2> HIDE DEF r
  <2>8. r.names = "block"
    BY <1>3, <2>5 DEF r
  <2>9. PICK b : r = ABlock(b)
    BY <2>7, <2>8 DEF Nothing, IsForm, AValue
  <2>10. r.block.body = b.body /\ IsComplete(ABlock(b))
    BY <2>7, <2>8, <2>9 DEF ABlock, Nothing
  <2>11. IsBody(r.block.body)
    BY <2>10, CompleteBody
  <2>12. QED
    BY <2>5, <2>11 DEF r
<1>4. QED
  BY <1>1, <1>2, <1>3 DEF SearchedBody

-----------------------------------------------------------------------------
(* The invariant *)

\* The list that cl_get_ints copies.
Copied == LET v == Defined(root, path) IN IF AllLongs(v) THEN v.items ELSE <<>>

\* What is walked comes from the body and the path that were given.
OverIsNamed ==
  /\ root \in Roots
  /\ path \in Paths
  /\ it = [doing |-> it.doing, over |-> it.over]
  /\ it.doing \in {"nothing", "blocks", "attrs", "fields", "ints"}
  /\ IsSequence(it.over)
  /\ it.doing = "nothing" => it.over = <<>>
  /\ it.doing = "blocks" => it.over = SearchedBody
  /\ it.doing = "attrs" => it.over = <<>> \/ \E b : Base = ABlock(b) /\ it.over = b.body
  /\ it.doing = "fields" => it.over = <<>> \/ \E v : Base = AValue(v) /\ IsObj(v) /\ it.over = v.fields
  /\ it.doing = "ints" => it.over = Copied

\* IsWanted, for an iterator and a path.
Wants(doing, names, item) ==
  CASE doing = "blocks" -> IsBlock(item) /\ item.type = Last(names).name
    [] doing = "attrs"  -> IsAttr(item)
    [] doing \in {"fields", "ints"} -> TRUE

\* What was yielded is everything that is wanted among the items walked over, in their order.
Picks(at) ==
  /\ \A k \in 1 .. Len(seen) : at[k] \in 1 .. next /\ seen[k] = it.over[at[k]] /\ Wants(it.doing, path, seen[k])
  /\ \A k, l \in 1 .. Len(seen) : k < l => at[k] < at[l]
  /\ \A j \in 1 .. next : Wants(it.doing, path, it.over[j]) => \E k \in 1 .. Len(seen) : at[k] = j

SeenIsPicked ==
  /\ next \in Nat
  /\ next <= Len(it.over)
  /\ IsSequence(seen)
  /\ \E at : Picks(at)
  /\ it.doing = "ints" => Len(seen) = next /\ \A k \in 1 .. next : seen[k] = it.over[k]

\* The host's array is not passed, and the count is returned when there is nothing to write.
CountIsWhole ==
  /\ max \in Nat
  /\ it.doing = "nothing" => answer = <<>>
  /\ it.doing = "ints" => next <= max
  /\ it.doing = "ints" /\ answer # <<>> => answer = <<Len(it.over)>> /\ (next = max \/ next = Len(it.over))

WInv == OverIsNamed /\ SeenIsPicked /\ CountIsWhole

LEMMA WalkStarts ==
  ASSUME next = 0, seen = <<>>, IsSequence(it.over)
  PROVE  SeenIsPicked
<1>1. IsSequence(seen) /\ Len(seen) = 0
  BY ShortSequences
<1>2. Len(it.over) \in Nat
  BY DEF IsSequence
<1>3. Picks(<<>>)
  <2>1. 1 .. Len(seen) = {} /\ 1 .. next = {}
    BY <1>1
  <2>2. QED
    BY <2>1 DEF Picks
<1>4. QED
  BY <1>1, <1>2, <1>3 DEF SeenIsPicked

LEMMA InitWInv == Init => WInv
<1> SUFFICES ASSUME Init
             PROVE  WInv
  OBVIOUS
<1>1. it.doing = "nothing" /\ it.over = <<>> /\ it = [doing |-> it.doing, over |-> it.over]
  BY DEF Init
<1>2. IsSequence(it.over)
  BY <1>1, ShortSequences
<1>3. OverIsNamed
  BY <1>1, <1>2 DEF Init, OverIsNamed
<1>4. SeenIsPicked
  BY <1>2, WalkStarts DEF Init
<1>5. CountIsWhole
  BY <1>1 DEF Init, CountIsWhole
<1>6. QED
  BY <1>3, <1>4, <1>5 DEF WInv

LEMMA IdleMeans ==
  ASSUME WInv, Idle
  PROVE  next = 0 /\ seen = <<>> /\ answer = <<>>
<1>1. it.over = <<>>
  BY DEF Idle
<1>2. next = 0
  <2>1. Len(it.over) = 0
    BY <1>1
  <2>2. next \in Nat /\ next <= Len(it.over)
    BY DEF WInv, SeenIsPicked
  <2>3. QED
    BY <2>1, <2>2
<1>3. IsSequence(seen) /\ Len(seen) \in Nat
  BY DEF WInv, SeenIsPicked, IsSequence
<1>4. Len(seen) = 0
  <2>1. PICK at : Picks(at)
    BY DEF WInv, SeenIsPicked
  <2>2. \A k \in 1 .. Len(seen) : at[k] \in 1 .. next
    BY <2>1 DEF Picks
  <2>3. ASSUME Len(seen) # 0
        PROVE  FALSE
    <3>1. 1 \in 1 .. Len(seen)
      BY <1>3, <2>3
    <3>2. QED
      BY <1>2, <2>2, <3>1
  <2>4. QED
    BY <2>3
<1>5. answer = <<>>
  BY DEF Idle, WInv, CountIsWhole
<1>6. QED
  BY <1>2, <1>3, <1>4, <1>5, NonEmpty

LEMMA WalkBegins ==
  ASSUME next' = 0, seen' = <<>>, IsSequence(it'.over)
  PROVE  SeenIsPicked'
<1>1. IsSequence(seen') /\ Len(seen') = 0
  BY ShortSequences
<1>2. Len(it'.over) \in Nat
  BY DEF IsSequence
<1>3. \E at : Picks(at)'
  <2>1. 1 .. Len(seen') = {} /\ 1 .. next' = {}
    BY <1>1
  <2>2. Picks(<<>>)'
    BY <2>1 DEF Picks
  <2>3. QED
    BY <2>2
<1>4. QED
  BY <1>1, <1>2, <1>3 DEF SeenIsPicked

LEMMA WalkKeeps ==
  ASSUME WInv, Idle, NEW STATE what, NEW STATE over, Walk(what, over), max' \in Nat,
         what \in {"blocks", "attrs", "fields", "ints"},
         IsSequence(over),
         what = "blocks" => over = SearchedBody,
         what = "attrs" => over = <<>> \/ \E b : Base = ABlock(b) /\ over = b.body,
         what = "fields" => over = <<>> \/ \E v : Base = AValue(v) /\ IsObj(v) /\ over = v.fields,
         what = "ints" => over = Copied
  PROVE  WInv'
<1>1. /\ it' = [doing |-> what, over |-> over] /\ it'.doing = what /\ it'.over = over
      /\ root' = root /\ path' = path /\ next' = 0 /\ seen' = <<>> /\ answer' = <<>>
  BY IdleMeans DEF Walk
<1>2. SeenIsPicked'
  BY <1>1, WalkBegins
<1>3. Base' = Base /\ SearchedBody' = SearchedBody /\ Copied' = Copied
  BY <1>1 DEF Base, SearchedBody, Copied
<1>4. OverIsNamed'
  BY <1>1, <1>3 DEF OverIsNamed, WInv
<1>5. CountIsWhole'
  BY <1>1 DEF CountIsWhole
<1>6. QED
  BY <1>2, <1>4, <1>5 DEF WInv

LEMMA MaxIsLength ==
  ASSUME WInv
  PROVE  /\ max \in Nat
         /\ UNCHANGED max => max' \in Nat
         /\ max' \in Capacities => max' \in Nat
BY CapacitiesAssumption DEF WInv, CountIsWhole

LEMMA BlocksKeep ==
  ASSUME WInv, BlockIterInit
  PROVE  WInv'
<1>1. IsSequence(SearchedBody)
  BY SearchedIsBody DEF WInv, OverIsNamed, IsBody
<1>2. Idle /\ Walk("blocks", SearchedBody) /\ max' \in Nat
  BY MaxIsLength DEF BlockIterInit
<1>3. QED
  BY <1>1, <1>2, WalkKeeps

LEMMA AttrsKeep ==
  ASSUME WInv, AttrIterInit
  PROVE  WInv'
<1> DEFINE r == Resolve(root, path)
<1>1. /\ Idle
      /\ max' \in Nat
      /\ CASE path = <<>>                      -> Walk("attrs", root)
           [] path # <<>> /\ r.names = "block" -> Walk("attrs", r.block.body)
           [] path # <<>> /\ r.names = "value" -> Walk("fields", IF IsObj(r.value) THEN r.value.fields ELSE <<>>)
           [] path # <<>> /\ r.names = "nothing" -> Walk("attrs", <<>>)
  BY MaxIsLength DEF AttrIterInit
<1>2. /\ Base = Nothing \/ (IsForm(Base) /\ IsComplete(Base))
      /\ path = <<>> => Base = AsBlock(root)
      /\ path # <<>> => r = Base
  BY BaseIs DEF WInv, OverIsNamed
<1>3. IsSequence(<<>>)
  BY ShortSequences
<1> HIDE DEF r
<1>4. CASE path = <<>>
  <2> DEFINE b == [body |-> root]
  <2>1. Walk("attrs", root)
    BY <1>1, <1>4
  <2>2. Base = ABlock(b) /\ root = b.body
    BY <1>2, <1>4 DEF AsBlock
  <2>3. IsComplete(ABlock(b))
    BY <1>2, <2>2 DEF ABlock, Nothing
  <2>4. IsSequence(root)
    BY <2>2, <2>3, CompleteBody DEF IsBody
  <2> HIDE DEF b
  <2>5. QED
    BY <1>1, <2>1, <2>2, <2>4, WalkKeeps
<1>5. ASSUME path # <<>>, NEW b, Base = ABlock(b)
      PROVE  WInv'
  <2>1. r.names = "block" /\ r.block = b
    BY <1>2, <1>5 DEF ABlock
  <2>2. Walk("attrs", b.body)
    BY <1>1, <1>5, <2>1
  <2>3. IsComplete(ABlock(b))
    BY <1>2, <1>5 DEF ABlock, Nothing
  <2>4. IsSequence(b.body)
    BY <2>3, CompleteBody DEF IsBody
  <2>5. QED
    BY <1>1, <1>5, <2>2, <2>4, WalkKeeps
<1>6. ASSUME path # <<>>, NEW v, Base = AValue(v)
      PROVE  WInv'
  <2> DEFINE over == IF IsObj(v) THEN v.fields ELSE <<>>
  <2>1. r.names = "value" /\ r.value = v
    BY <1>2, <1>6 DEF AValue
  <2>2. Walk("fields", over)
    BY <1>1, <1>6, <2>1
  <2>3. IsObj(v) => IsSequence(v.fields)
    <3>1. IsComplete(AValue(v))
      BY <1>2, <1>6 DEF AValue, Nothing
    <3>2. QED
      BY <3>1 DEF IsComplete, AValue, IsList, IsObj
  <2>4. IsSequence(over) /\ (over = <<>> \/ \E u : Base = AValue(u) /\ IsObj(u) /\ over = u.fields)
    BY <1>3, <1>6, <2>3
  <2> HIDE DEF over
  <2>5. QED
    BY <1>1, <2>2, <2>4, WalkKeeps
<1>7. CASE path # <<>> /\ Base = Nothing
  <2>1. r.names = "nothing"
    BY <1>2, <1>7 DEF Nothing
  <2>2. Walk("attrs", <<>>)
    BY <1>1, <1>7, <2>1
  <2>3. QED
    BY <1>1, <1>3, <2>2, WalkKeeps
<1>8. QED
  BY <1>2, <1>4, <1>5, <1>6, <1>7 DEF IsForm

LEMMA IntsKeep ==
  ASSUME WInv, GetInts
  PROVE  WInv'
<1> DEFINE v  == Defined(root, path)
           over == IF AllLongs(v) THEN v.items ELSE <<>>
<1>1. Idle /\ Walk("ints", over) /\ max' \in Nat
  BY MaxIsLength DEF GetInts
<1>2. ASSUME AllLongs(v)
      PROVE  IsSequence(v.items)
  <2> DEFINE r == Resolve(root, path)
  <2>1. r.names = "value" /\ v = r.value
    BY <1>2 DEF Defined, AllLongs
  <2>2. r = Base
    <3>1. path = <<>> => r = Nothing
      BY DEF Resolve
    <3>2. path # <<>>
      BY <2>1, <3>1 DEF Nothing
    <3>3. QED
      BY <3>2, BaseIs DEF WInv, OverIsNamed
  <2>3. Base = Nothing \/ (IsForm(Base) /\ IsComplete(Base))
    BY BaseIs DEF WInv, OverIsNamed
  <2> HIDE DEF r
  <2>4. PICK u : r = AValue(u)
    BY <2>1, <2>2, <2>3 DEF Nothing, IsForm, ABlock
  <2>5. u = v /\ IsComplete(AValue(v))
    BY <2>1, <2>2, <2>3, <2>4 DEF AValue, Nothing
  <2> HIDE DEF v
  <2>6. IsList(v)
    BY <1>2 DEF AllLongs
  <2>7. QED
    BY <2>5, <2>6 DEF IsComplete, AValue, IsList, IsObj
<1>3. IsSequence(over)
  BY <1>2, ShortSequences
<1>4. over = Copied
  BY DEF Copied
<1> HIDE DEF over
<1>5. QED
  BY <1>1, <1>3, <1>4, WalkKeeps

LEMMA AdvanceKeeps ==
  ASSUME WInv, Advance
  PROVE  WInv'
<1>1. it' = it /\ root' = root /\ path' = path /\ max' = max /\ answer = <<>> /\ answer' = <<>>
  BY DEF Advance
<1>2. OverIsNamed'
  <2>1. Base' = Base /\ SearchedBody' = SearchedBody /\ Copied' = Copied
    BY <1>1 DEF Base, SearchedBody, Copied
  <2>2. QED
    BY <1>1, <2>1 DEF WInv, OverIsNamed
<1>3. PICK i \in next + 1 .. Len(it.over) :
        /\ Wants(it.doing, path, it.over[i])
        /\ \A j \in next + 1 .. i - 1 : ~Wants(it.doing, path, it.over[j])
        /\ next' = i
        /\ seen' = Append(seen, it.over[i])
  BY DEF Advance, IsWanted, Wants
<1>4. next \in Nat /\ IsSequence(seen) /\ Len(it.over) \in Nat
  BY DEF WInv, SeenIsPicked, OverIsNamed, IsSequence
<1>5. i \in Nat /\ next + 1 <= i /\ i <= Len(it.over)
  BY <1>3, <1>4
<1>0. PICK N : N = Len(seen)
  OBVIOUS
<1>6. /\ IsSequence(seen') /\ N \in Nat /\ Len(seen') = N + 1
      /\ \A n \in 1 .. N : seen'[n] = seen[n]
      /\ seen'[N + 1] = it.over[i]
  BY <1>0, <1>3, <1>4, AppendSequence
<1>8. PICK at : Picks(at)
  BY DEF WInv, SeenIsPicked
<1>9. /\ \A k \in 1 .. N : at[k] \in 1 .. next /\ seen[k] = it.over[at[k]] /\ Wants(it.doing, path, seen[k])
      /\ \A k, l \in 1 .. N : k < l => at[k] < at[l]
      /\ \A j \in 1 .. next : Wants(it.doing, path, it.over[j]) => \E k \in 1 .. N : at[k] = j
  BY <1>0, <1>8 DEF Picks
<1> DEFINE new == [k \in 1 .. N + 1 |-> IF k = N + 1 THEN i ELSE at[k]]
<1>10. new[N + 1] = i /\ \A k \in 1 .. N : new[k] = at[k]
  BY <1>6
<1> HIDE DEF new
<1>11. ASSUME NEW k \in 1 .. N + 1
       PROVE  new[k] \in 1 .. i /\ seen'[k] = it.over[new[k]] /\ Wants(it.doing, path, seen'[k])
  <2>1. CASE k = N + 1
    <3>1. new[k] = i /\ seen'[k] = it.over[i]
      BY <1>6, <1>10, <2>1
    <3>2. i \in 1 .. i
      BY <1>4, <1>5
    <3>3. QED
      BY <1>3, <3>1, <3>2
  <2>2. CASE k # N + 1
    <3>1. k \in 1 .. N
      BY <1>6, <2>2
    <3>2. new[k] = at[k] /\ at[k] \in 1 .. next
      BY <1>9, <1>10, <3>1
    <3>3. new[k] \in 1 .. i
      BY <1>4, <1>5, <3>2
    <3>4. QED
      BY <1>6, <1>9, <1>10, <3>1, <3>3
  <2>3. QED
    BY <2>1, <2>2
<1>12. ASSUME NEW k \in 1 .. N + 1, NEW l \in 1 .. N + 1, k < l
       PROVE  new[k] < new[l]
  <2>1. k \in 1 .. N /\ new[k] = at[k] /\ at[k] \in 1 .. next
    BY <1>6, <1>9, <1>10, <1>12
  <2>2. CASE l = N + 1
    BY <1>4, <1>5, <1>10, <2>1, <2>2
  <2>3. CASE l # N + 1
    <3>1. l \in 1 .. N /\ new[l] = at[l]
      BY <1>6, <1>10, <2>3
    <3>2. QED
      BY <1>9, <1>12, <2>1, <3>1
  <2>4. QED
    BY <2>2, <2>3
<1>13. ASSUME NEW j \in 1 .. i, Wants(it.doing, path, it.over[j])
       PROVE  \E k \in 1 .. N + 1 : new[k] = j
  <2>1. CASE j = i
    <3>1. N + 1 \in 1 .. N + 1
      BY <1>6
    <3>2. QED
      BY <1>10, <2>1, <3>1
  <2>2. CASE j # i
    <3>1. j \in 1 .. next
      <4>1. ~(j \in next + 1 .. i - 1)
        BY <1>3, <1>13
      <4>2. QED
        BY <1>4, <1>5, <2>2, <4>1
    <3>2. PICK k \in 1 .. N : at[k] = j
      BY <1>9, <1>13, <3>1
    <3>3. k \in 1 .. N + 1 /\ new[k] = j
      BY <1>6, <1>10, <3>2
    <3>4. QED
      BY <3>3
  <2>3. QED
    BY <2>1, <2>2
<1>14. \E p : Picks(p)'
  <2>1. Picks(new)'
    BY <1>1, <1>3, <1>6, <1>11, <1>12, <1>13 DEF Picks
  <2>2. QED
    BY <2>1
<1>15. ASSUME it.doing = "ints"
       PROVE  Len(seen') = i /\ i = next + 1 /\ \A k \in 1 .. i : seen'[k] = it.over[k]
  <2>1. \A x : Wants(it.doing, path, x)
    BY <1>15 DEF Wants
  <2>2. i = next + 1
    <3>1. ~(next + 1 \in next + 1 .. i - 1)
      BY <1>3, <2>1
    <3>2. QED
      BY <1>4, <1>5, <3>1
  <2>3. N = next /\ \A k \in 1 .. next : seen[k] = it.over[k]
    BY <1>0, <1>15 DEF WInv, SeenIsPicked
  <2>4. ASSUME NEW k \in 1 .. i
        PROVE  seen'[k] = it.over[k]
    <3>1. CASE k = i
      BY <1>6, <2>2, <2>3, <3>1
    <3>2. CASE k # i
      <4>1. k \in 1 .. next
        BY <1>4, <2>2, <3>2
      <4>2. QED
        BY <1>6, <2>3, <4>1
    <3>3. QED
      BY <3>1, <3>2
  <2>5. QED
    BY <1>6, <2>2, <2>3, <2>4
<1>16. SeenIsPicked'
  BY <1>1, <1>3, <1>5, <1>6, <1>14, <1>15 DEF SeenIsPicked
<1>17. CountIsWhole'
  <2>1. it.doing = "ints" => next < max
    BY DEF Advance, Room
  <2>2. max \in Nat
    BY MaxIsLength
  <2>3. it.doing = "ints" => i <= max
    BY <1>4, <1>15, <2>1, <2>2
  <2>4. QED
    BY <1>1, <1>3, <2>2, <2>3 DEF CountIsWhole
<1>18. QED
  BY <1>2, <1>16, <1>17 DEF WInv

LEMMA StillKeeps ==
  ASSUME WInv, UNCHANGED <<root, path, it, next, seen>>
  PROVE  OverIsNamed' /\ SeenIsPicked'
<1>1. root' = root /\ path' = path /\ it' = it /\ next' = next /\ seen' = seen
  OBVIOUS
<1>2. Base' = Base /\ SearchedBody' = SearchedBody /\ Copied' = Copied
  BY <1>1 DEF Base, SearchedBody, Copied
<1>3. OverIsNamed'
  BY <1>1, <1>2 DEF WInv, OverIsNamed
<1>4. PICK at : Picks(at)
  BY DEF WInv, SeenIsPicked
<1>5. Picks(at)'
  BY <1>1, <1>4 DEF Picks
<1>6. SeenIsPicked'
  BY <1>1, <1>5 DEF WInv, SeenIsPicked
<1>7. QED
  BY <1>3, <1>6

LEMMA ReturnKeeps ==
  ASSUME WInv, ReturnCount
  PROVE  WInv'
<1>1. /\ it.doing = "ints" /\ answer' = <<Len(it.over)>>
      /\ it' = it /\ next' = next /\ max' = max
      /\ next < Len(it.over) => ~(next < max)
  BY DEF ReturnCount, Room
<1>2. /\ next \in Nat /\ max \in Nat /\ Len(it.over) \in Nat
      /\ next <= max /\ next <= Len(it.over)
  BY <1>1 DEF WInv, OverIsNamed, SeenIsPicked, CountIsWhole, IsSequence
<1>3. next = max \/ next = Len(it.over)
  BY <1>1, <1>2
<1>4. CountIsWhole'
  BY <1>1, <1>2, <1>3 DEF CountIsWhole
<1>5. OverIsNamed' /\ SeenIsPicked'
  BY StillKeeps DEF ReturnCount
<1>6. QED
  BY <1>4, <1>5 DEF WInv

LEMMA NextWInv == WInv /\ [Next]_vars => WInv'
<1> SUFFICES ASSUME WInv, [Next]_vars
             PROVE  WInv'
  OBVIOUS
<1>1. CASE BlockIterInit
  BY <1>1, BlocksKeep
<1>2. CASE AttrIterInit
  BY <1>2, AttrsKeep
<1>3. CASE GetInts
  BY <1>3, IntsKeep
<1>4. CASE Advance
  BY <1>4, AdvanceKeeps
<1>5. CASE ReturnCount
  BY <1>5, ReturnKeeps
<1>6. CASE UNCHANGED vars
  <2>1. OverIsNamed' /\ SeenIsPicked'
    BY <1>6, StillKeeps DEF vars
  <2>2. CountIsWhole'
    BY <1>6 DEF vars, WInv, CountIsWhole
  <2>3. QED
    BY <2>1, <2>2 DEF WInv
<1>7. QED
  BY <1>1, <1>2, <1>3, <1>4, <1>5, <1>6 DEF Next

-----------------------------------------------------------------------------
(* Theorems *)

\* cl_get_ints writes nothing of a list that has an item it cannot write, and returns 0
\* for it.  What it has written of another list after any number of its steps is the
\* list up to there, and never more than the array holds; when it returns, the array is
\* full or the list is written, and the count is that of the list.
THEOREM ArraysAreWhole == Spec => []AllOrNothing
<1>1. WInv => AllOrNothing
  <2> DEFINE list == Defined(root, path)
  <2> SUFFICES ASSUME WInv, it.doing = "ints"
               PROVE  AllOrNothing
    BY DEF AllOrNothing
  <2>1. /\ next \in Nat /\ next <= Len(it.over) /\ IsSequence(seen) /\ IsSequence(it.over)
        /\ Len(seen) = next /\ \A k \in 1 .. next : seen[k] = it.over[k]
    BY DEF WInv, SeenIsPicked, OverIsNamed
  <2>2. /\ next <= max
        /\ answer # <<>> => answer = <<Len(it.over)>> /\ (next = max \/ next = Len(it.over))
    BY DEF WInv, CountIsWhole
  <2>3. it.over = IF AllLongs(list) THEN list.items ELSE <<>>
    BY DEF WInv, OverIsNamed, Copied
  <2> HIDE DEF list
  <2>4. ASSUME AllLongs(list)
        PROVE  /\ Len(seen) <= max
               /\ IsPrefix(seen, list.items)
               /\ answer # <<>> => answer = <<Len(list.items)>> /\ (Len(seen) = max \/ seen = list.items)
    <3>1. it.over = list.items
      BY <2>3, <2>4
    <3>2. IsPrefix(seen, it.over)
      BY <2>1, PrefixIs
    <3>3. next = Len(it.over) => seen = it.over
      BY <2>1, SameSequence
    <3>4. QED
      BY <2>1, <2>2, <2>4, <3>1, <3>2, <3>3
  <2>5. ASSUME ~AllLongs(list)
        PROVE  seen = <<>> /\ answer \in {<<>>, <<0>>}
    <3>1. it.over = <<>> /\ Len(it.over) = 0
      BY <2>3, <2>5
    <3>2. seen = <<>>
      <4>1. Len(seen) = 0
        BY <2>1, <3>1
      <4>2. QED
        BY <2>1, <4>1, NonEmpty
    <3>3. QED
      BY <2>2, <2>5, <3>1, <3>2
  <2>6. QED
    BY <2>4, <2>5 DEF AllOrNothing, list
<1>2. QED
  BY InitWInv, NextWInv, <1>1, PTL DEF Spec

LEMMA ConsSequence ==
  ASSUME NEW x, NEW s, IsSequence(s)
  PROVE  /\ IsSequence(<<x>> \o s)
         /\ <<x>> \o s # <<>>
         /\ Len(s) \in Nat
         /\ Len(<<x>> \o s) = Len(s) + 1
         /\ Head(<<x>> \o s) = x
         /\ Tail(<<x>> \o s) = s
<1> DEFINE S == Elems(s) \cup {x}
           t == <<x>> \o s
<1>1. s \in Seq(S) /\ Len(s) \in Nat
  <2>1. s \in Seq(Elems(s)) /\ Len(s) \in Nat
    BY SequenceIsSeq DEF IsSequence
  <2>2. QED
    BY <2>1
<1>2. x \in S
  OBVIOUS
<1> HIDE DEF S
<1>3. t \in Seq(S) /\ Len(t) = Len(s) + 1 /\ t[1] = x /\ \A k \in 1 .. Len(s) : t[k + 1] = s[k]
  BY <1>1, <1>2
<1> HIDE DEF t
<1>4. IsSequence(t)
  BY <1>3, SeqIsSequence
<1>5. Len(t) # 0
  BY <1>1, <1>3
<1>6. t # <<>>
  BY <1>4, <1>5, NonEmpty
<1> DEFINE u == Tail(t)
<1>7. /\ IsSequence(u) /\ Len(u) = Len(t) - 1 /\ Head(t) = t[1]
      /\ \A k \in 1 .. Len(t) - 1 : u[k] = t[k + 1]
  BY <1>4, <1>6, TailSequence
<1> HIDE DEF u
<1>8. Len(u) = Len(s) /\ Len(t) - 1 = Len(s)
  BY <1>1, <1>3, <1>7
<1>9. \A k \in 1 .. Len(u) : u[k] = s[k]
  BY <1>3, <1>7, <1>8
<1>10. u = s
  BY <1>7, <1>8, <1>9, SameSequence
<1>11. QED
  BY <1>1, <1>3, <1>4, <1>6, <1>7, <1>10 DEF t, u

LEMMA BlockReached ==
  ASSUME NEW body, IsBody(body), NEW j \in DOMAIN body, IsBlock(body[j])
  PROVE  LET b == body[j]
             r == Resolve(body, <<Name(b.type)>> \o [k \in DOMAIN b.labels |-> Name(b.labels[k])])
         IN  \/ AttrAt(body, b.type) > 0
             \/ r.names = "block" /\ r.block.type = b.type /\ r.block.labels = b.labels
<1> DEFINE b     == body[j]
           type  == b.type
           L     == Names(b.labels)
           parts == <<Name(type)>> \o L
           s     == Rounds(body, parts)
           fits  == Fits(body, type, L)
           c     == LongestFit(body, fits)
           n     == Len(b.labels)
<1>1. IsSequence(b.labels)
  BY DEF IsBody, IsAttr, IsBlock
<1>2. IsSequence(L) /\ n \in Nat /\ Len(L) = n /\ \A k \in 1 .. n : L[k] = Name(b.labels[k])
  BY <1>1, NamesSequence
<1> HIDE DEF L
<1>3. /\ IsSequence(parts) /\ parts # <<>> /\ Len(parts) = n + 1
      /\ Head(parts) = Name(type) /\ Tail(parts) = L
  BY <1>2, ConsSequence
<1> HIDE DEF parts
<1>4. s[0] = Reach(AsBlock(body), parts) /\ \A m \in Nat : s[m + 1] = Round(s[m])
  BY RoundsAre
<1> HIDE DEF s
<1>5. SUFFICES ASSUME ~(AttrAt(body, type) > 0)
               PROVE  LET r == Resolve(body, parts)
                      IN  r.names = "block" /\ r.block.type = type /\ r.block.labels = b.labels
  BY DEF parts, L, Names
<1>6. j \in fits
  <2> HIDE DEF b
  <2>1. \A i : i \in fits <=>
          /\ i \in DOMAIN body /\ IsBlock(body[i]) /\ body[i].type = type
          /\ Len(body[i].labels) <= Len(L)
          /\ \A k \in 1 .. Len(body[i].labels) : L[k] = Name(body[i].labels[k])
    BY <1>2, FitIs
  <2>2. n <= Len(L)
    BY <1>2
  <2>3. QED
    BY <1>2, <2>1, <2>2 DEF b
<1>7. \A i : i \in fits =>
        /\ i \in DOMAIN body /\ IsBlock(body[i]) /\ body[i].type = type
        /\ Len(body[i].labels) <= Len(L)
        /\ \A k \in 1 .. Len(body[i].labels) : L[k] = Name(body[i].labels[k])
  BY <1>2, FitIs
<1> HIDE DEF fits
<1>8. PICK i \in fits : c = body[i] /\ \A l \in fits : Len(body[l].labels) <= Len(body[i].labels)
  BY <1>6, <1>7, LongestIsOneOf
<1>9. c.type = type /\ c.labels = b.labels
  <2>1. IsSequence(c.labels)
    BY <1>7, <1>8 DEF IsBody, IsAttr, IsBlock
  <2>2. n <= Len(c.labels) /\ Len(c.labels) <= n /\ Len(c.labels) \in Nat
    BY <1>2, <1>6, <1>7, <1>8, <2>1 DEF IsSequence
  <2>3. Len(c.labels) = n
    BY <1>2, <2>2
  <2>4. ASSUME NEW k \in 1 .. n
        PROVE  c.labels[k] = b.labels[k]
    <3>1. Name(c.labels[k]) = Name(b.labels[k])
      BY <1>2, <1>7, <1>8, <2>3
    <3>2. Name(c.labels[k]).name = c.labels[k] /\ Name(b.labels[k]).name = b.labels[k]
      BY DEF Name
    <3>3. QED
      BY <3>1, <3>2
  <2>5. c.labels = b.labels
    BY <1>1, <2>1, <2>3, <2>4, SameSequence
  <2>6. QED
    BY <1>7, <1>8, <2>5
<1>10. s[1] = Reach(ABlock(c), <<>>)
  <2>1. s[1] = Round(s[0])
    <3>1. 0 \in Nat /\ 0 + 1 = 1
      OBVIOUS
    <3>2. QED
      BY <1>4, <3>1
  <2>2. Round(s[0]) = StepInBody(body, parts)
    <3>1. s[0].parts = parts /\ s[0].what = AsBlock(body)
      BY <1>4 DEF Reach
    <3>2. AsBlock(body).names = "block" /\ AsBlock(body).block.body = body
      BY DEF AsBlock, ABlock
    <3>3. QED
      BY <1>3, <3>1, <3>2 DEF Round
  <2> DEFINE attr == AttrAt(body, Head(parts).name)
  <2>3. Head(parts).p = "name" /\ Head(parts).name = type
    BY <1>3 DEF Name
  <2>4. StepInBody(body, parts) = Reach(ABlock(c), SubSeq(parts, Len(c.labels) + 2, Len(parts)))
    <3>1. fits # {} /\ Fits(body, Head(parts).name, Tail(parts)) = fits
      BY <1>3, <1>6, <2>3 DEF fits
    <3>2. ~(attr > 0)
      BY <1>5, <2>3
    <3>3. QED
      BY <2>3, <3>1, <3>2 DEF StepInBody
  <2>5. SubSeq(parts, Len(c.labels) + 2, Len(parts)) = <<>>
    <3> DEFINE m == n + 2
               q == SubSeq(parts, m, Len(parts))
    <3>1. m \in Nat \ {0} /\ m <= Len(parts) + 1 /\ Len(parts) + 1 - m = 0
      BY <1>2, <1>3
    <3> HIDE DEF m
    <3>2. IsSequence(q) /\ Len(q) = 0
      BY <1>3, <3>1, SuffixSequence
    <3> HIDE DEF q
    <3>3. q = <<>>
      BY <3>2, NonEmpty
    <3>4. Len(c.labels) + 2 = m
      BY <1>9 DEF m
    <3>5. QED
      BY <3>3, <3>4 DEF q
  <2>6. QED
    BY <2>1, <2>2, <2>4, <2>5
<1>11. s[n + 1] = s[1]
  <2> DEFINE S == {m \in Nat : s[m + 1] = s[1]}
  <2>1. 0 \in S
    OBVIOUS
  <2>2. ASSUME NEW m \in Nat, m \in S
        PROVE  m + 1 \in S
    <3>1. s[m + 1] = s[1] /\ m + 1 \in Nat
      BY <2>2
    <3>2. s[(m + 1) + 1] = Round(s[m + 1])
      BY <1>4, <3>1
    <3>3. s[m + 1].parts = <<>>
      BY <1>10, <3>1 DEF Reach
    <3>4. s[(m + 1) + 1] = s[1]
      BY <3>1, <3>2, <3>3 DEF Round
    <3>5. QED
      BY <3>1, <3>4
  <2> HIDE DEF S
  <2>3. n \in S
    BY <1>2, <2>1, <2>2, AllNaturals
  <2>4. QED
    BY <2>3 DEF S
<1>12. Resolve(body, parts) = ABlock(c)
  <2>1. Resolve(body, parts) = s[n + 1].what
    BY <1>3 DEF Resolve, s
  <2>2. s[n + 1].what = ABlock(c)
    BY <1>10, <1>11 DEF Reach
  <2>3. QED
    BY <2>1, <2>2
<1> HIDE DEF c
<1>13. ABlock(c).names = "block" /\ ABlock(c).block = c
  BY DEF ABlock
<1>14. QED
  BY <1>9, <1>12, <1>13

\* Every block the iterator yields is what its type and its labels name in the body that
\* is searched, whatever the body holds next to it, unless an attribute has that name.
THEOREM IteratedBlocksAreReached == Spec => []BlocksAreReached
<1>1. WInv => BlocksAreReached
  <2> SUFFICES ASSUME WInv, it.doing = "blocks", NEW b \in Range(seen)
               PROVE  LET r == Resolve(it.over, <<Name(b.type)>> \o [k \in DOMAIN b.labels |-> Name(b.labels[k])])
                      IN  \/ AttrAt(it.over, b.type) > 0
                          \/ r.names = "block" /\ r.block.type = b.type /\ r.block.labels = b.labels
    BY DEF BlocksAreReached
  <2>1. IsBody(it.over)
    BY SearchedIsBody DEF WInv, OverIsNamed
  <2>2. PICK at : Picks(at)
    BY DEF WInv, SeenIsPicked
  <2>3. PICK k \in 1 .. Len(seen) : b = seen[k]
    BY DEF Range, WInv, SeenIsPicked, IsSequence
  <2>4. at[k] \in 1 .. next /\ b = it.over[at[k]] /\ IsBlock(b)
    BY <2>2, <2>3 DEF Picks, Wants
  <2>5. at[k] \in DOMAIN it.over
    BY <2>4 DEF WInv, SeenIsPicked, OverIsNamed, IsSequence
  <2> DEFINE body == it.over
             j    == at[k]
  <2>6. b = body[j] /\ j \in DOMAIN body /\ IsBody(body) /\ IsBlock(body[j])
    BY <2>1, <2>4, <2>5
  <2> HIDE DEF body, j
  <2>7. LET c == body[j]
            r == Resolve(body, <<Name(c.type)>> \o [l \in DOMAIN c.labels |-> Name(c.labels[l])])
        IN  \/ AttrAt(body, c.type) > 0
            \/ r.names = "block" /\ r.block.type = c.type /\ r.block.labels = c.labels
    BY <2>6, BlockReached
  <2>8. QED
    BY <2>6, <2>7 DEF body
<1>2. QED
  BY InitWInv, NextWInv, <1>1, PTL DEF Spec

\* The first of the yielded items that has a key is the first that has it where the
\* iterator walks.
LEMMA FirstPicked ==
  ASSUME WInv, NEW i \in DOMAIN seen, NEW a \in DOMAIN it.over,
         Wants(it.doing, path, it.over[a]), KeyOf(it.over[a]) = KeyOf(seen[i]),
         \A j \in DOMAIN it.over :
           Wants(it.doing, path, it.over[j]) /\ KeyOf(it.over[j]) = KeyOf(seen[i]) => a <= j
  PROVE  seen[SelectInSeq(seen, LAMBDA x : KeyOf(x) = KeyOf(seen[i]))] = it.over[a]
<1> DEFINE key == KeyOf(seen[i])
           I   == {k \in 1 .. Len(seen) : KeyOf(seen[k]) = key}
           f   == SelectInSeq(seen, LAMBDA x : KeyOf(x) = key)
<1>1. f = IF I # {} THEN Min(I) ELSE 0
  BY DEF SelectInSeq
<1>2. /\ Len(seen) \in Nat /\ DOMAIN seen = 1 .. Len(seen)
      /\ Len(it.over) \in Nat /\ DOMAIN it.over = 1 .. Len(it.over)
      /\ next \in Nat /\ next <= Len(it.over)
  BY DEF WInv, SeenIsPicked, OverIsNamed, IsSequence
<1>3. PICK at : Picks(at)
  BY DEF WInv, SeenIsPicked
<1>4. /\ \A k \in 1 .. Len(seen) : at[k] \in 1 .. next /\ seen[k] = it.over[at[k]] /\ Wants(it.doing, path, seen[k])
      /\ \A k, l \in 1 .. Len(seen) : k < l => at[k] < at[l]
      /\ \A j \in 1 .. next : Wants(it.doing, path, it.over[j]) => \E k \in 1 .. Len(seen) : at[k] = j
  BY <1>3 DEF Picks
<1>5. I \in SUBSET (1 .. Len(seen)) /\ i \in I
  BY <1>2
<1>6. \A k : k \in I <=> k \in 1 .. Len(seen) /\ KeyOf(seen[k]) = key
  OBVIOUS
<1> HIDE DEF f, I, key
<1>7. f \in I /\ \A k \in I : f <= k
  BY <1>1, <1>2, <1>5, LeastPlace
<1>8. f \in 1 .. Len(seen) /\ KeyOf(seen[f]) = key
  BY <1>6, <1>7
<1>9. a <= at[f]
  <2>1. /\ at[f] \in 1 .. next /\ seen[f] = it.over[at[f]] /\ Wants(it.doing, path, seen[f])
    BY <1>4, <1>8
  <2>2. at[f] \in DOMAIN it.over
    BY <1>2, <2>1
  <2>3. Wants(it.doing, path, it.over[at[f]]) /\ KeyOf(it.over[at[f]]) = key
    BY <1>8, <2>1
  <2>4. QED
    BY <2>2, <2>3 DEF key
<1>10. a \in 1 .. next
  BY <1>2, <1>4, <1>8, <1>9
<1>11. PICK k \in 1 .. Len(seen) : at[k] = a
  BY <1>4, <1>10
<1>12. seen[k] = it.over[a] /\ k \in I
  <2>1. seen[k] = it.over[a]
    BY <1>4, <1>11
  <2>2. QED
    BY <1>6, <1>11, <2>1 DEF key
<1>13. f <= k
  BY <1>7, <1>12
<1>14. CASE f = k
  BY <1>12, <1>14 DEF f, key
<1>15. CASE f # k
  <2>1. f < k
    BY <1>8, <1>13, <1>15
  <2>2. at[f] < at[k]
    BY <1>4, <1>8, <2>1
  <2>3. at[f] \in Nat /\ a \in Nat
    BY <1>4, <1>8, <1>10, <1>2
  <2>4. QED
    BY <1>9, <1>11, <2>2, <2>3
<1>16. QED
  BY <1>14, <1>15

LEMMA AttributeReached ==
  ASSUME WInv, it.doing \in {"attrs", "fields"}, NEW i \in DOMAIN seen, IsForm(Base), IsComplete(Base)
  PROVE  LET key   == KeyOf(seen[i])
             first == seen[SelectInSeq(seen, LAMBDA x : KeyOf(x) = key)]
         IN  Round(Reach(Base, <<Name(key)>>)).what = AValue(first.value)
<1> DEFINE key   == KeyOf(seen[i])
           first == seen[SelectInSeq(seen, LAMBDA x : KeyOf(x) = KeyOf(seen[i]))]
           one   == <<Name(key)>>
           over  == it.over
<1>1. /\ Len(seen) \in Nat /\ DOMAIN seen = 1 .. Len(seen)
      /\ IsSequence(over) /\ Len(over) \in Nat /\ DOMAIN over = 1 .. Len(over)
      /\ next \in Nat /\ next <= Len(over)
  BY DEF WInv, SeenIsPicked, OverIsNamed, IsSequence
<1>2. PICK at : Picks(at)
  BY DEF WInv, SeenIsPicked
<1>3. at[i] \in 1 .. next /\ seen[i] = over[at[i]] /\ Wants(it.doing, path, seen[i])
  BY <1>1, <1>2 DEF Picks
<1>4. at[i] \in DOMAIN over /\ KeyOf(over[at[i]]) = key /\ Wants(it.doing, path, over[at[i]])
  <2>1. at[i] \in DOMAIN over
    BY <1>1, <1>3
  <2>2. QED
    BY <1>3, <2>1
<1>5. over # <<>>
  BY <1>1, <1>4
<1>6. one # <<>> /\ Head(one) = Name(key) /\ Head(one).p = "name" /\ Head(one).name = key
  BY DEF Name
<1> HIDE DEF one
<1>7. CASE it.doing = "attrs"
  <2>1. PICK b : Base = ABlock(b) /\ over = b.body
    BY <1>5, <1>7 DEF WInv, OverIsNamed
  <2> DEFINE a == AttrAt(over, key)
  <2>2. IsAttr(over[at[i]]) /\ over[at[i]].name = key
    BY <1>4, <1>7 DEF Wants, KeyOf
  <2> HIDE DEF over, key
  <2>3. /\ a > 0 /\ a \in DOMAIN over /\ IsAttr(over[a]) /\ over[a].name = key
        /\ \A j \in DOMAIN over : IsAttr(over[j]) /\ over[j].name = key => a <= j
    BY <1>1, <1>4, <2>2, AttrPlace
  <2>4. Round(Reach(Base, one)) = StepInBody(over, one)
    BY <1>6, <2>1 DEF Round, Reach, ABlock
  <2>5. StepInBody(over, one) = Reach(AValue(over[a].value), Tail(one))
    BY <1>6, <2>3 DEF StepInBody
  <2>6. Round(Reach(Base, one)).what = AValue(over[a].value)
    BY <2>4, <2>5 DEF Reach
  <2> HIDE DEF a
  <2>7. first = over[a]
    <3>1. Wants(it.doing, path, it.over[a]) /\ KeyOf(it.over[a]) = KeyOf(seen[i])
      BY <1>7, <2>3 DEF Wants, KeyOf, over, key
    <3>2. \A j \in DOMAIN it.over :
            Wants(it.doing, path, it.over[j]) /\ KeyOf(it.over[j]) = KeyOf(seen[i]) => a <= j
      BY <1>7, <2>3 DEF Wants, KeyOf, over, key
    <3>3. a \in DOMAIN it.over
      BY <2>3 DEF over
    <3>4. QED
      BY <3>1, <3>2, <3>3, FirstPicked DEF over
  <2>8. QED
    BY <2>6, <2>7 DEF one, key
<1>8. CASE it.doing = "fields"
  <2>1. PICK v : Base = AValue(v) /\ IsObj(v) /\ over = v.fields
    BY <1>5, <1>8 DEF WInv, OverIsNamed
  <2>2. over[at[i]].key = key
    BY <1>4, <1>8 DEF KeyOf
  <2> HIDE DEF over, key
  <2>3. PICK a \in DOMAIN v.fields :
          /\ Get(v, key) = v.fields[a].value
          /\ v.fields[a].key = key
          /\ \A j \in DOMAIN v.fields : v.fields[j].key = key => a <= j
    <3>1. \E j \in DOMAIN v.fields : v.fields[j].key = key
      BY <1>4, <2>1, <2>2
    <3>2. IsSequence(v.fields)
      BY <1>1, <2>1
    <3>3. QED
      BY <3>1, <3>2, FieldPlace
  <2>4. v.fields[a].value # NoValue
    <3>1. v.fields[a] \in Range(v.fields)
      BY DEF Range
    <3>2. IsComplete(AValue(v))
      BY <2>1
    <3>3. \A f \in Range(v.fields) : f.value # NoValue
      BY <2>1, <3>2 DEF IsComplete, AValue, IsList, IsObj
    <3>4. QED
      BY <3>1, <3>3
  <2>5. Step(v, Head(one)) = v.fields[a].value
    BY <1>6, <2>1, <2>3 DEF Step, IsObj, IsList
  <2>6. Round(Reach(Base, one)) = StepInValue(v, one)
    BY <1>6, <2>1 DEF Round, Reach, AValue
  <2>7. StepInValue(v, one) = Reach(AValue(v.fields[a].value), Tail(one))
    BY <2>4, <2>5 DEF StepInValue
  <2>8. Round(Reach(Base, one)).what = AValue(over[a].value)
    BY <2>1, <2>6, <2>7 DEF Reach
  <2>9. first = over[a]
    <3>1. Wants(it.doing, path, it.over[a]) /\ KeyOf(it.over[a]) = KeyOf(seen[i])
      BY <1>8, <2>1, <2>3 DEF Wants, KeyOf, over, key
    <3>2. \A j \in DOMAIN it.over :
            Wants(it.doing, path, it.over[j]) /\ KeyOf(it.over[j]) = KeyOf(seen[i]) => a <= j
      BY <1>8, <2>1, <2>3 DEF Wants, KeyOf, over, key
    <3>3. a \in DOMAIN it.over
      BY <2>1 DEF over
    <3>4. QED
      BY <3>1, <3>2, <3>3, FirstPicked DEF over
  <2>10. QED
    BY <2>8, <2>9 DEF one, key
<1>9. QED
  BY <1>7, <1>8

\* Every attribute and every field the iterator yields is what its name reads after the
\* path of the call; of several with one name it is the first that is read.
THEOREM IteratedAttributesAreReached == Spec => []AttributesAreReached
<1>1. WInv => AttributesAreReached
  <2> SUFFICES ASSUME WInv, it.doing \in {"attrs", "fields"}, NEW i \in DOMAIN seen
               PROVE  LET key   == KeyOf(seen[i])
                          first == seen[SelectInSeq(seen, LAMBDA x : KeyOf(x) = key)]
                          r     == Resolve(root, Append(path, Name(key)))
                      IN  r = AValue(first.value) \/ r.names = "block"
    BY DEF AttributesAreReached
  <2> DEFINE key   == KeyOf(seen[i])
             x     == Name(key)
             r     == Resolve(root, Append(path, x))
             first == seen[SelectInSeq(seen, LAMBDA y : KeyOf(y) = key)]
  <2>1. root \in Roots /\ path \in Paths
    BY DEF WInv, OverIsNamed
  <2>2. Base # Nothing
    <3>1. PICK at : Picks(at)
      BY DEF WInv, SeenIsPicked
    <3>2. at[i] \in 1 .. next
      BY <3>1 DEF Picks, WInv, SeenIsPicked, IsSequence
    <3>3. it.over # <<>>
      BY <3>2 DEF WInv, SeenIsPicked
    <3>4. QED
      BY <3>3 DEF WInv, OverIsNamed, Nothing, ABlock, AValue
  <2>3. IsForm(Base) /\ IsComplete(Base)
    BY <2>1, <2>2, BaseIs
  <2>4. Round(Reach(Base, <<x>>)).what = AValue(first.value)
    BY <2>3, AttributeReached
  <2>5. IsSequence(path) /\ \A n \in 0 .. Len(path) : \A place \in Within(root)[n] : IsComplete(place)
    BY <2>1, RootsAreWhole
  <2> DEFINE s == Rounds(root, path)[Len(path)]
  <2> HIDE DEF x
  <2>6. s = GiveUp \/ r.names = "block" \/ r = Round(Reach(s.what, <<x>>)).what
    BY <2>5, OneMoreName
  <2>7. s.what = Base
    BY DEF Base
  <2>8. s # GiveUp
    BY <2>2, <2>7 DEF GiveUp, Reach
  <2>9. r = AValue(first.value) \/ r.names = "block"
    BY <2>4, <2>6, <2>7, <2>8
  <2>10. QED
    BY <2>9 DEF x
<1>2. QED
  BY InitWInv, NextWInv, <1>1, PTL DEF Spec
=============================================================================
