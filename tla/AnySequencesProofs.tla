------------------------- MODULE AnySequencesProofs -------------------------
(* What is true of a sequence whatever its elements are. *)
EXTENDS AnySequences, WellFoundedInduction, TLAPS

Elems(s) == {s[n] : n \in 1 .. Len(s)}

LEMMA SequenceIsSeq ==
  ASSUME NEW s, IsSequence(s)
  PROVE  s \in Seq(Elems(s))
<1>1. s \in [1 .. Len(s) -> Elems(s)]
  BY DEF IsSequence, Elems
<1>2. QED
  BY <1>1 DEF IsSequence

LEMMA SeqIsSequence ==
  ASSUME NEW S, NEW s \in Seq(S)
  PROVE  IsSequence(s)
<1>1. Len(s) \in Nat /\ s \in [1 .. Len(s) -> S]
  OBVIOUS
<1>2. QED
  BY <1>1 DEF IsSequence

LEMMA AppendSequence ==
  ASSUME NEW s, NEW f, IsSequence(s)
  PROVE  /\ IsSequence(Append(s, f))
         /\ Len(s) \in Nat
         /\ Len(Append(s, f)) = Len(s) + 1
         /\ \A n \in 1 .. Len(s) : Append(s, f)[n] = s[n]
         /\ Append(s, f)[Len(s) + 1] = f
<1> DEFINE S == Elems(s) \cup {f}
<1>1. s \in Seq(S) /\ f \in S
  <2>1. s \in Seq(Elems(s))
    BY SequenceIsSeq
  <2>2. QED
    BY <2>1
<1>2. Append(s, f) \in Seq(S)
  BY <1>1
<1>3. IsSequence(Append(s, f))
  BY <1>2, SeqIsSequence
<1>4. QED
  BY <1>1, <1>3

LEMMA PrefixSequence ==
  ASSUME NEW s, NEW k \in Nat, IsSequence(s), k <= Len(s)
  PROVE  /\ IsSequence(SubSeq(s, 1, k))
         /\ Len(SubSeq(s, 1, k)) = k
         /\ \A n \in 1 .. k : SubSeq(s, 1, k)[n] = s[n]
<1>1. s \in Seq(Elems(s))
  BY SequenceIsSeq
<1>2. SubSeq(s, 1, k) \in Seq(Elems(s))
  BY <1>1
<1>3. IsSequence(SubSeq(s, 1, k))
  BY <1>2, SeqIsSequence
<1>4. QED
  BY <1>1, <1>3

LEMMA NonEmpty ==
  ASSUME NEW s, IsSequence(s)
  PROVE  s = <<>> <=> Len(s) = 0
<1>1. s \in Seq(Elems(s))
  BY SequenceIsSeq
<1>2. QED
  BY <1>1

LEMMA AppendNonEmpty ==
  ASSUME NEW s, NEW f, IsSequence(s)
  PROVE  Append(s, f) # <<>>
<1> DEFINE t == Append(s, f)
<1>1. IsSequence(t) /\ Len(t) = Len(s) + 1 /\ Len(s) \in Nat
  BY AppendSequence
<1> HIDE DEF t
<1>2. t # <<>>
  <2>1. Len(t) # 0
    BY <1>1
  <2>2. QED
    BY <1>1, <2>1, NonEmpty
<1>3. QED
  BY <1>2 DEF t

LEMMA ShortSequences ==
  /\ IsSequence(<<>>)
  /\ \A v : IsSequence(<<v>>)
<1>1. IsSequence(<<>>)
  <2>1. <<>> \in Seq({})
    OBVIOUS
  <2>2. QED
    BY <2>1, SeqIsSequence
<1>2. ASSUME NEW v
      PROVE  IsSequence(<<v>>)
  <2>1. <<v>> \in Seq({v})
    OBVIOUS
  <2>2. QED
    BY <2>1, SeqIsSequence
<1>3. QED
  BY <1>1, <1>2

\* There is a first place among any; SelectInSeq takes it.
LEMMA LeastPlace ==
  ASSUME NEW n \in Nat, NEW I \in SUBSET (1 .. n), I # {}
  PROVE  Min(I) \in I /\ \A j \in I : Min(I) <= j
<1> DEFINE Smaller == {ss \in Nat \X Nat : ss[1] < ss[2]}
<1>1. I \subseteq Nat
  OBVIOUS
<1>2. IsWellFoundedOn(Smaller, Nat)
  <2>1. Smaller = OpToRel(<, Nat)
    BY Zenon DEF OpToRel
  <2>2. QED
    BY <2>1, NatLessThanWellFounded, Zenon
<1>3. PICK i \in I : \A j \in I : ~(<<j, i>> \in Smaller)
  <2> HIDE DEF Smaller
  <2>1. QED
    BY <1>1, <1>2, WFMin, Zenon
<1>4. ASSUME NEW j \in I
      PROVE  i <= j
  <2>1. i \in Nat /\ j \in Nat
    BY <1>1
  <2>2. j < i => <<j, i>> \in Smaller
    BY <2>1
  <2>3. ~(<<j, i>> \in Smaller)
    BY <1>3
  <2> HIDE DEF Smaller
  <2>4. QED
    BY <2>1, <2>2, <2>3
<1>5. QED
  BY <1>4 DEF Min

\* Induction on the natural numbers, for a set of them.
LEMMA AllNaturals ==
  ASSUME NEW S, 0 \in S, \A n \in Nat : n \in S => n + 1 \in S
  PROVE  Nat \subseteq S
<1> DEFINE Smaller == {ss \in Nat \X Nat : ss[1] < ss[2]}
           T       == Nat \ S
<1>1. IsWellFoundedOn(Smaller, Nat)
  <2>1. Smaller = OpToRel(<, Nat)
    BY Zenon DEF OpToRel
  <2>2. QED
    BY <2>1, NatLessThanWellFounded, Zenon
<1>2. T \subseteq Nat
  OBVIOUS
<1>3. ASSUME T # {}
      PROVE  FALSE
  <2>1. PICK i \in T : \A j \in T : ~(<<j, i>> \in Smaller)
    <3> HIDE DEF Smaller, T
    <3>1. QED
      BY <1>1, <1>2, <1>3, WFMin, Zenon
  <2>2. i \in Nat /\ i \notin S /\ i # 0
    BY <2>1
  <2>3. i - 1 \in Nat /\ i = (i - 1) + 1
    BY <2>2
  <2>4. i - 1 \in T
    BY <2>2, <2>3
  <2>5. <<i - 1, i>> \in Smaller
    BY <2>2, <2>3
  <2>6. QED
    BY <2>1, <2>4, <2>5, Zenon
<1>4. QED
  BY <1>3

-----------------------------------------------------------------------------
(* The sum of a sequence.  Total is a fold over sets of places; g is the     *)
(* function that computes it, for the weights w of the places in D.          *)

Equation(g, D, w) == g = [s \in SUBSET D |-> IF s = {} THEN 0 ELSE g[s \ {Max(s)}] + w[Max(s)]]

LEMMA TotalIs ==
  ASSUME NEW w
  PROVE  Total(w) = (CHOOSE g : Equation(g, DOMAIN w, w))[DOMAIN w]
BY DEF Total, FoldLeft, MapThenFoldSet, Equation

LEMMA MaxIs ==
  ASSUME NEW n \in Nat, NEW s \in SUBSET (1 .. n), n \in s
  PROVE  Max(s) = n
<1>1. n \in s /\ \A y \in s : n >= y
  OBVIOUS
<1>2. ASSUME NEW x \in s, \A y \in s : x >= y
      PROVE  x = n
  BY <1>1, <1>2
<1>3. QED
  BY <1>1, <1>2 DEF Max

LEMMA MaxOf ==
  ASSUME NEW n \in Nat, NEW s \in SUBSET (1 .. n), s # {}
  PROVE  Max(s) \in s /\ \A y \in s : Max(s) >= y
<1> DEFINE S == {m \in Nat : \A t \in SUBSET (1 .. m) : t # {} => \E x \in t : \A y \in t : x >= y}
<1>1. 0 \in S
  <2>1. 1 .. 0 = {}
    OBVIOUS
  <2>2. QED
    BY <2>1, Zenon
<1>2. ASSUME NEW m \in Nat, m \in S
      PROVE  m + 1 \in S
  <2>1. ASSUME NEW t \in SUBSET (1 .. m + 1), t # {}
        PROVE  \E x \in t : \A y \in t : x >= y
    <3>1. CASE m + 1 \in t
      BY <3>1
    <3>2. CASE m + 1 \notin t
      <4>1. t \in SUBSET (1 .. m)
        BY <3>2
      <4>2. QED
        BY <4>1, <2>1, <1>2
    <3>3. QED
      BY <3>1, <3>2
  <2>2. QED
    BY <2>1
<1>3. n \in S
  <2> HIDE DEF S
  <2>1. QED
    BY <1>1, <1>2, AllNaturals
<1>4. \E x \in s : \A y \in s : x >= y
  BY <1>3
<1>5. QED
  BY <1>4 DEF Max

\* The function on sets of places that the fold is, for weights w.
LEMMA EquationHasSolution ==
  ASSUME NEW n \in Nat, NEW w, \A i \in 1 .. n : w[i] \in Nat
  PROVE  \E g : Equation(g, 1 .. n, w)
<1> DEFINE P(k) == \E g : Equation(g, 1 .. k, w)
           S    == {k \in Nat : k <= n => P(k)}
<1>1. 0 \in S
  <2> DEFINE g == [s \in {{}} |-> 0]
  <2>1. SUBSET (1 .. 0) = {{}}
    OBVIOUS
  <2>2. g = [s \in {{}} |-> IF s = {} THEN 0 ELSE g[s \ {Max(s)}] + w[Max(s)]]
    OBVIOUS
  <2>3. Equation(g, 1 .. 0, w)
    BY <2>1, <2>2, Zenon DEF Equation
  <2>4. QED
    BY <2>3
<1>2. ASSUME NEW k \in Nat, k \in S
      PROVE  k + 1 \in S
  <2> SUFFICES ASSUME k + 1 <= n PROVE P(k + 1)
    OBVIOUS
  <2>1. PICK g : Equation(g, 1 .. k, w)
    BY <1>2
  <2> DEFINE h == [s \in SUBSET (1 .. k + 1) |-> IF k + 1 \in s THEN g[s \ {k + 1}] + w[k + 1] ELSE g[s]]
  <2>2. ASSUME NEW s \in SUBSET (1 .. k + 1)
        PROVE  h[s] = IF s = {} THEN 0 ELSE h[s \ {Max(s)}] + w[Max(s)]
    <3>1. CASE k + 1 \in s
      <4>1. Max(s) = k + 1
        BY <3>1, MaxIs
      <4>2. s \ {k + 1} \in SUBSET (1 .. k + 1) /\ k + 1 \notin s \ {k + 1}
        OBVIOUS
      <4>3. h[s \ {k + 1}] = g[s \ {k + 1}]
        BY <4>2
      <4>4. QED
        BY <3>1, <4>1, <4>3
    <3>2. CASE k + 1 \notin s
      <4>1. s \in SUBSET (1 .. k) /\ h[s] = g[s]
        BY <3>2
      <4>2. g[s] = IF s = {} THEN 0 ELSE g[s \ {Max(s)}] + w[Max(s)]
        BY <4>1, <2>1 DEF Equation
      <4>3. s \ {Max(s)} \in SUBSET (1 .. k + 1) /\ k + 1 \notin s \ {Max(s)}
        BY <3>2
      <4>4. h[s \ {Max(s)}] = g[s \ {Max(s)}]
        BY <4>3
      <4>5. QED
        BY <4>1, <4>2, <4>4
    <3>3. QED
      BY <3>1, <3>2
  <2>3. h = [s \in SUBSET (1 .. k + 1) |-> h[s]]
    OBVIOUS
  <2> HIDE DEF h
  <2>4. Equation(h, 1 .. k + 1, w)
    BY <2>2, <2>3 DEF Equation
  <2>5. QED
    BY <2>4
<1>3. n \in S
  <2> HIDE DEF S
  <2>1. QED
    BY <1>1, <1>2, AllNaturals
<1>4. QED
  BY <1>3

\* p gives the running totals of w.
IsRunning(p, w) ==
  /\ p = [i \in 0 .. Len(w) |-> p[i]]
  /\ p[0] = 0
  /\ \A i \in 1 .. Len(w) : p[i] = p[i - 1] + w[i]

LEMMA TotalOfRunning ==
  ASSUME NEW w \in Seq(Nat), NEW p, IsRunning(p, w)
  PROVE  Total(w) = p[Len(w)]
<1> DEFINE g == CHOOSE f : Equation(f, 1 .. Len(w), w)
           S == {k \in Nat : k <= Len(w) => g[1 .. k] = p[k]}
<1>1. Len(w) \in Nat /\ DOMAIN w = 1 .. Len(w) /\ \A i \in 1 .. Len(w) : w[i] \in Nat
  OBVIOUS
<1>2. Equation(g, 1 .. Len(w), w)
  BY <1>1, EquationHasSolution, Zenon
<1>3. Total(w) = g[1 .. Len(w)]
  BY <1>1, TotalIs, Zenon
<1> HIDE DEF g
<1>4. 0 \in S
  <2>1. 1 .. 0 = {} /\ 1 .. 0 \in SUBSET (1 .. Len(w))
    OBVIOUS
  <2>2. QED
    BY <2>1, <1>2 DEF Equation, IsRunning
<1>5. ASSUME NEW k \in Nat, k \in S
      PROVE  k + 1 \in S
  <2> SUFFICES ASSUME k + 1 <= Len(w) PROVE g[1 .. k + 1] = p[k + 1]
    OBVIOUS
  <2> DEFINE s == 1 .. k + 1
  <2>1. s \in SUBSET (1 .. Len(w)) /\ s # {} /\ s \ {k + 1} = 1 .. k /\ k + 1 \in s
    <3>1. s \in SUBSET (1 .. Len(w))
      BY <1>1
    <3>2. s \ {k + 1} = 1 .. k
      <4>1. \A i : i \in s \ {k + 1} <=> i \in 1 .. k
        OBVIOUS
      <4>2. QED
        BY <4>1, Zenon
    <3>3. k + 1 \in s
      OBVIOUS
    <3>4. QED
      BY <3>1, <3>2, <3>3
  <2>2. Max(s) = k + 1
    BY MaxIs
  <2> HIDE DEF s
  <2>3. g[s] = g[1 .. k] + w[k + 1]
    <3>1. g[s] = IF s = {} THEN 0 ELSE g[s \ {Max(s)}] + w[Max(s)]
      BY <2>1, <1>2 DEF Equation
    <3>2. QED
      BY <3>1, <2>1, <2>2
  <2>4. g[1 .. k] = p[k]
    BY <1>1, <1>5
  <2>5. p[k + 1] = p[k] + w[k + 1]
    <3>1. k + 1 \in 1 .. Len(w) /\ (k + 1) - 1 = k
      BY <1>1
    <3>2. \A i \in 1 .. Len(w) : p[i] = p[i - 1] + w[i]
      BY DEF IsRunning
    <3>3. p[k + 1] = p[(k + 1) - 1] + w[k + 1]
      BY <3>1, <3>2, Zenon
    <3>4. QED
      BY <3>1, <3>3
  <2>6. QED
    BY <2>3, <2>4, <2>5 DEF s
<1>6. Len(w) \in S
  <2> HIDE DEF S
  <2>1. QED
    BY <1>1, <1>4, <1>5, AllNaturals
<1>7. QED
  BY <1>1, <1>3, <1>6

LEMMA RunningExists ==
  ASSUME NEW w \in Seq(Nat)
  PROVE  \E p : IsRunning(p, w) /\ \A i \in 0 .. Len(w) : p[i] \in Nat
<1> DEFINE R(p, k) == /\ p = [i \in 0 .. k |-> p[i]]
                      /\ p[0] = 0
                      /\ \A i \in 1 .. k : p[i] = p[i - 1] + w[i]
                      /\ \A i \in 0 .. k : p[i] \in Nat
           S == {k \in Nat : k <= Len(w) => \E p : R(p, k)}
<1>1. 0 \in S
  <2>1. R([i \in 0 .. 0 |-> 0], 0)
    OBVIOUS
  <2>2. QED
    BY <2>1
<1>2. ASSUME NEW k \in Nat, k \in S
      PROVE  k + 1 \in S
  <2> SUFFICES ASSUME k + 1 <= Len(w) PROVE \E p : R(p, k + 1)
    OBVIOUS
  <2>1. PICK p : R(p, k)
    BY <1>2
  <2> DEFINE q == [i \in 0 .. k + 1 |-> IF i = k + 1 THEN p[k] + w[k + 1] ELSE p[i]]
  <2>2. w[k + 1] \in Nat
    OBVIOUS
  <2>3. q = [i \in 0 .. k + 1 |-> q[i]] /\ q[0] = 0
    BY <2>1
  <2>4. ASSUME NEW i \in 1 .. k + 1
        PROVE  q[i] = q[i - 1] + w[i]
    <3>1. CASE i = k + 1
      BY <3>1
    <3>2. CASE i \in 1 .. k
      <4>1. q[i] = p[i] /\ q[i - 1] = p[i - 1]
        BY <3>2
      <4>2. p[i] = p[i - 1] + w[i]
        BY <3>2, <2>1
      <4>3. QED
        BY <4>1, <4>2
    <3>3. QED
      BY <3>1, <3>2
  <2>5. ASSUME NEW i \in 0 .. k + 1
        PROVE  q[i] \in Nat
    BY <2>1, <2>2
  <2> HIDE DEF q
  <2>6. R(q, k + 1)
    BY <2>3, <2>4, <2>5
  <2>7. QED
    BY <2>6
<1>3. Len(w) \in S
  <2> HIDE DEF S
  <2>1. QED
    BY <1>1, <1>2, AllNaturals
<1>4. QED
  BY <1>3 DEF IsRunning

LEMMA TotalOfAppend ==
  ASSUME NEW w \in Seq(Nat), NEW n \in Nat
  PROVE  /\ Total(w) \in Nat
         /\ Total(Append(w, n)) = Total(w) + n
<1>1. PICK p : IsRunning(p, w) /\ \A i \in 0 .. Len(w) : p[i] \in Nat
  BY RunningExists
<1> DEFINE v == Append(w, n)
           q == [i \in 0 .. Len(w) + 1 |-> IF i = Len(w) + 1 THEN p[Len(w)] + n ELSE p[i]]
<1>2. v \in Seq(Nat) /\ Len(v) = Len(w) + 1 /\ v[Len(w) + 1] = n /\ \A i \in 1 .. Len(w) : v[i] = w[i]
  OBVIOUS
<1>3. IsRunning(q, v)
  <2>1. q = [i \in 0 .. Len(w) + 1 |-> q[i]] /\ q[0] = 0
    BY <1>1 DEF IsRunning
  <2>2. ASSUME NEW i \in 1 .. Len(w) + 1
        PROVE  q[i] = q[i - 1] + v[i]
    <3>1. CASE i = Len(w) + 1
      BY <3>1, <1>2
    <3>2. CASE i \in 1 .. Len(w)
      <4>1. q[i] = p[i] /\ q[i - 1] = p[i - 1]
        BY <3>2
      <4>2. p[i] = p[i - 1] + w[i] /\ v[i] = w[i]
        BY <3>2, <1>1, <1>2 DEF IsRunning
      <4>3. QED
        BY <4>1, <4>2
    <3>3. QED
      BY <3>1, <3>2
  <2> HIDE DEF q, v
  <2>3. QED
    BY <2>1, <2>2, <1>2 DEF IsRunning
<1>4. Total(w) = p[Len(w)]
  BY <1>1, TotalOfRunning
<1>5. Total(v) = q[Len(w) + 1]
  BY <1>2, <1>3, TotalOfRunning
<1>6. QED
  BY <1>1, <1>4, <1>5

LEMMA TotalOfEmpty == Total(<<>>) = 0
<1>1. IsRunning([i \in 0 .. 0 |-> 0], <<>>)
  BY DEF IsRunning
<1>2. Total(<<>>) = [i \in 0 .. 0 |-> 0][Len(<<>>)]
  BY <1>1, TotalOfRunning
<1>3. QED
  BY <1>2

-----------------------------------------------------------------------------
(* A function on the natural numbers that repeats a step within a set *)

Iterates(g, n, x, F) == g[0] = x /\ \A m \in 0 .. n - 1 : g[m + 1] = F[g[m]]

LEMMA RepetitionGrows ==
  ASSUME NEW X, NEW x \in X, NEW F \in [X -> X], NEW n \in Nat
  PROVE  \E g \in [0 .. n -> X] : Iterates(g, n, x, F)
<1> DEFINE S == {k \in Nat : \E g \in [0 .. k -> X] : Iterates(g, k, x, F)}
<1>1. 0 \in S
  <2>1. [m \in 0 .. 0 |-> x] \in [0 .. 0 -> X] /\ Iterates([m \in 0 .. 0 |-> x], 0, x, F)
    BY DEF Iterates
  <2>2. QED
    BY <2>1
<1>2. ASSUME NEW k \in Nat, k \in S
      PROVE  k + 1 \in S
  <2>1. PICK g \in [0 .. k -> X] : Iterates(g, k, x, F)
    BY <1>2
  <2> DEFINE h == [m \in 0 .. k + 1 |-> IF m = k + 1 THEN F[g[k]] ELSE g[m]]
  <2>2. h \in [0 .. k + 1 -> X]
    OBVIOUS
  <2>3. h[0] = x
    BY <2>1 DEF Iterates
  <2>4. ASSUME NEW m \in 0 .. k
        PROVE  h[m + 1] = F[h[m]]
    <3>1. CASE m = k
      BY <3>1
    <3>2. CASE m \in 0 .. k - 1
      BY <2>1, <3>2 DEF Iterates
    <3>3. QED
      BY <3>1, <3>2
  <2>5. Iterates(h, k + 1, x, F)
    <3> HIDE DEF h
    <3>1. (k + 1) - 1 = k
      OBVIOUS
    <3>2. QED
      BY <2>3, <2>4, <3>1 DEF Iterates
  <2> HIDE DEF h
  <2>6. QED
    BY <2>2, <2>5
<1>3. n \in S
  <2> HIDE DEF S
  <2>1. QED
    BY <1>1, <1>2, AllNaturals
<1>4. QED
  BY <1>3

LEMMA RepetitionIsOne ==
  ASSUME NEW x, NEW F, NEW n \in Nat, NEW k \in Nat, n <= k,
         NEW g, Iterates(g, n, x, F), NEW h, Iterates(h, k, x, F)
  PROVE  g[n] = h[n]
<1> DEFINE S == {m \in Nat : m <= n => g[m] = h[m]}
<1>1. 0 \in S
  BY DEF Iterates
<1>2. ASSUME NEW m \in Nat, m \in S
      PROVE  m + 1 \in S
  <2>1. SUFFICES ASSUME m + 1 <= n PROVE g[m + 1] = h[m + 1]
    OBVIOUS
  <2>2. m \in 0 .. n - 1 /\ m \in 0 .. k - 1 /\ g[m] = h[m]
    BY <1>2, <2>1
  <2>3. QED
    BY <2>2 DEF Iterates
<1>3. n \in S
  <2> HIDE DEF S
  <2>1. QED
    BY <1>1, <1>2, AllNaturals
<1>4. QED
  BY <1>3

LEMMA RepetitionExists ==
  ASSUME NEW X, NEW x \in X, NEW F \in [X -> X]
  PROVE  \E f \in [Nat -> X] : f[0] = x /\ \A n \in Nat : f[n + 1] = F[f[n]]
<1> DEFINE IsIt(g, n) == g \in [0 .. n -> X] /\ Iterates(g, n, x, F)
           c(n) == CHOOSE g : IsIt(g, n)
           f    == [n \in Nat |-> c(n)[n]]
<1>1. \A n \in Nat : IsIt(c(n), n)
  <2>1. \A n \in Nat : \E g : IsIt(g, n)
    BY RepetitionGrows
  <2> HIDE DEF IsIt
  <2>2. QED
    BY <2>1
<1> HIDE DEF c
<1>2. \A n \in Nat : n \in 0 .. n /\ c(n)[n] \in X
  BY <1>1
<1>3. f \in [Nat -> X] /\ f[0] = x
  BY <1>1, <1>2 DEF Iterates
<1>4. ASSUME NEW n \in Nat
      PROVE  f[n + 1] = F[f[n]]
  <2>1. n + 1 \in Nat /\ n <= n + 1 /\ n \in 0 .. (n + 1) - 1
    OBVIOUS
  <2>2. Iterates(c(n), n, x, F) /\ Iterates(c(n + 1), n + 1, x, F)
    BY <1>1, <2>1
  <2>3. c(n)[n] = c(n + 1)[n]
    BY <2>1, <2>2, RepetitionIsOne
  <2>4. c(n + 1)[n + 1] = F[c(n + 1)[n]]
    BY <2>1, <2>2 DEF Iterates
  <2>5. QED
    BY <2>1, <2>3, <2>4
<1>5. QED
  BY <1>3, <1>4
=============================================================================
