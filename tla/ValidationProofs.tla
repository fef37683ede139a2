-------------------------- MODULE ValidationProofs --------------------------
(***************************************************************************)
(* The rules of a schema, and the walk of a document along them: for every *)
(* document, schema and result, and after any changes.  The first half is  *)
(* about paths, places and what is wrong at a place, which have no steps;  *)
(* the second half is the inductive invariant of the walk.                 *)
(***************************************************************************)
EXTENDS Validation, AnySequencesProofs

-----------------------------------------------------------------------------
(* Functions on 0 .. n whose value is made from the one before it: the     *)
(* bodies and the rules along a path, the bodies that are changed, the     *)
(* attributes that are declared, and the paths of a document by length.    *)

Made(kind, root, path, k, y) ==
  IF kind = "body" THEN y[path[k]].body
  ELSE IF kind = "rules" THEN
    {r \in DOMAIN rules : /\ rules[r].parent \in y
                          /\ rules[r].type = BodyAt(doc, SubSeq(path, 1, k - 1))[path[k]].type}
  ELSE IF kind = "up" THEN
    [BodyAt(root, SubSeq(path, 1, Len(path) - k)) EXCEPT ![path[Len(path) - k + 1]].body = y]
  ELSE IF kind = "attrs" THEN
    IF IsAttr(root[k]) THEN Append(y, AttrOf(root[k].name, ReadForm(root[k].value))) ELSE y
  ELSE y \cup UNION {OneDeeper(root, p) : p \in y}

Chain(g, kind, x, root, path, n) ==
  g = [k \in 0 .. n |-> IF k = 0 THEN x ELSE Made(kind, root, path, k, g[k - 1])]

LEMMA ChainExists ==
  ASSUME NEW kind, NEW x, NEW root, NEW path, NEW n \in Nat
  PROVE  \E g : Chain(g, kind, x, root, path, n)
<1> DEFINE S == {m \in Nat : \E g : Chain(g, kind, x, root, path, m)}
<1>1. 0 \in S
  <2> DEFINE g == [k \in 0 .. 0 |-> x]
  <2>1. Chain(g, kind, x, root, path, 0)
    BY DEF Chain
  <2>2. QED
    BY <2>1
<1>2. ASSUME NEW m \in Nat, m \in S
      PROVE  m + 1 \in S
  <2>1. PICK g : Chain(g, kind, x, root, path, m)
    BY <1>2
  <2> DEFINE h == [k \in 0 .. m + 1 |-> IF k = m + 1 THEN Made(kind, root, path, m + 1, g[m]) ELSE g[k]]
  <2>2. \A k \in 0 .. m : h[k] = g[k]
    OBVIOUS
  <2>3. h[m + 1] = Made(kind, root, path, m + 1, h[m])
    BY <2>2
  <2>4. \A k \in 0 .. m : h[k] = IF k = 0 THEN x ELSE Made(kind, root, path, k, h[k - 1])
    <3>1. ASSUME NEW k \in 0 .. m
          PROVE  h[k] = IF k = 0 THEN x ELSE Made(kind, root, path, k, h[k - 1])
      <4>1. g[k] = IF k = 0 THEN x ELSE Made(kind, root, path, k, g[k - 1])
        BY <2>1 DEF Chain
      <4>2. k # 0 => k - 1 \in 0 .. m
        OBVIOUS
      <4>3. QED
        BY <2>2, <4>1, <4>2
    <3>2. QED
      BY <3>1
  <2>5. h = [k \in 0 .. m + 1 |-> h[k]]
    OBVIOUS
  <2> HIDE DEF h
  <2>6. \A k \in 0 .. m + 1 : h[k] = IF k = 0 THEN x ELSE Made(kind, root, path, k, h[k - 1])
    BY <2>3, <2>4
  <2>7. Chain(h, kind, x, root, path, m + 1)
    BY <2>5, <2>6 DEF Chain
  <2>8. QED
    BY <2>7
<1> HIDE DEF S
<1>3. Nat \subseteq S
  BY <1>1, <1>2, AllNaturals
<1>4. QED
  BY <1>3 DEF S

\* Two of them have the same values as far as they are made in the same way.
LEMMA ChainsAgree ==
  ASSUME NEW kind, NEW x, NEW root, NEW p, NEW q, NEW n \in Nat, NEW k \in Nat, n <= k,
         \A m \in 1 .. n : \A y : Made(kind, root, p, m, y) = Made(kind, root, q, m, y),
         NEW g, Chain(g, kind, x, root, p, n), NEW h, Chain(h, kind, x, root, q, k)
  PROVE  g[n] = h[n]
<1> DEFINE S == {m \in Nat : m <= n => g[m] = h[m]}
<1>1. 0 \in S
  BY DEF Chain
<1>2. ASSUME NEW m \in Nat, m \in S
      PROVE  m + 1 \in S
  <2>1. SUFFICES ASSUME m + 1 <= n PROVE g[m + 1] = h[m + 1]
    OBVIOUS
  <2>2. g[m] = h[m] /\ m + 1 \in 1 .. n /\ m + 1 \in 0 .. k /\ m + 1 \in 0 .. n /\ (m + 1) - 1 = m
    BY <1>2, <2>1
  <2>3. g[m + 1] = Made(kind, root, p, m + 1, g[m])
    BY <2>2 DEF Chain
  <2>4. h[m + 1] = Made(kind, root, q, m + 1, h[m])
    BY <2>2 DEF Chain
  <2>5. QED
    BY <2>2, <2>3, <2>4
<1> HIDE DEF S
<1>3. Nat \subseteq S
  BY <1>1, <1>2, AllNaturals
<1>4. QED
  BY <1>3 DEF S

LEMMA BodyIs ==
  ASSUME NEW root, NEW path, Len(path) \in Nat
  PROVE  \E g : Chain(g, "body", root, root, path, Len(path)) /\ BodyAt(root, path) = g[Len(path)]
<1> DEFINE IsIt(g) == g = [n \in 0 .. Len(path) |-> IF n = 0 THEN root ELSE g[n - 1][path[n]].body]
<1>1. \E g : IsIt(g)
  <2>1. PICK g : Chain(g, "body", root, root, path, Len(path))
    BY ChainExists
  <2>2. IsIt(g)
    BY <2>1 DEF Chain, Made
  <2>3. QED
    BY <2>2
<1>2. BodyAt(root, path) = (CHOOSE g : IsIt(g))[Len(path)]
  BY DEF BodyAt
<1>3. IsIt(CHOOSE g : IsIt(g))
  BY <1>1
<1>4. Chain(CHOOSE g : IsIt(g), "body", root, root, path, Len(path))
  BY <1>3 DEF Chain, Made
<1>5. QED
  BY <1>2, <1>4

LEMMA RulesAre ==
  ASSUME NEW path, Len(path) \in Nat
  PROVE  \E g : Chain(g, "rules", {1}, doc, path, Len(path)) /\ RulesFor(path) = g[Len(path)]
<1> DEFINE IsIt(g) ==
             g = [n \in 0 .. Len(path) |->
                    IF n = 0 THEN {1}
                    ELSE {r \in DOMAIN rules : /\ rules[r].parent \in g[n - 1]
                                               /\ rules[r].type = BodyAt(doc, SubSeq(path, 1, n - 1))[path[n]].type}]
<1>1. \E g : IsIt(g)
  <2>1. PICK g : Chain(g, "rules", {1}, doc, path, Len(path))
    BY ChainExists
  <2>2. IsIt(g)
    BY <2>1 DEF Chain, Made
  <2>3. QED
    BY <2>2
<1>2. RulesFor(path) = (CHOOSE g : IsIt(g))[Len(path)]
  BY DEF RulesFor
<1>3. IsIt(CHOOSE g : IsIt(g))
  BY <1>1
<1>4. Chain(CHOOSE g : IsIt(g), "rules", {1}, doc, path, Len(path))
  BY <1>3 DEF Chain, Made
<1>5. QED
  BY <1>2, <1>4

LEMMA PathsAre ==
  ASSUME NEW root, NEW depth \in Nat
  PROVE  \E g : Chain(g, "paths", {<<>>}, root, <<>>, depth) /\ PathsOf(root, depth) = g[depth]
<1> DEFINE IsIt(g) ==
             g = [n \in 0 .. depth |->
                    IF n = 0 THEN {<<>>} ELSE g[n - 1] \cup UNION {OneDeeper(root, p) : p \in g[n - 1]}]
<1>1. \E g : IsIt(g)
  <2>1. PICK g : Chain(g, "paths", {<<>>}, root, <<>>, depth)
    BY ChainExists
  <2>2. IsIt(g)
    BY <2>1 DEF Chain, Made
  <2>3. QED
    BY <2>2
<1>2. PathsOf(root, depth) = (CHOOSE g : IsIt(g))[depth]
  BY DEF PathsOf
<1>3. IsIt(CHOOSE g : IsIt(g))
  BY <1>1
<1>4. Chain(CHOOSE g : IsIt(g), "paths", {<<>>}, root, <<>>, depth)
  BY <1>3 DEF Chain, Made
<1>5. QED
  BY <1>2, <1>4

LEMMA ChangedAre ==
  ASSUME NEW root, NEW path, Len(path) \in Nat, NEW new
  PROVE  \E g : Chain(g, "up", new, root, path, Len(path)) /\ WithBody(root, path, new) = g[Len(path)]
<1> DEFINE IsIt(g) ==
             g = [n \in 0 .. Len(path) |->
                    IF n = 0 THEN new
                    ELSE [BodyAt(root, SubSeq(path, 1, Len(path) - n)) EXCEPT ![path[Len(path) - n + 1]].body = g[n - 1]]]
<1>1. \E g : IsIt(g)
  <2>1. PICK g : Chain(g, "up", new, root, path, Len(path))
    BY ChainExists
  <2>2. IsIt(g)
    BY <2>1 DEF Chain, Made
  <2>3. QED
    BY <2>2
<1>2. WithBody(root, path, new) = (CHOOSE g : IsIt(g))[Len(path)]
  BY DEF WithBody
<1>3. IsIt(CHOOSE g : IsIt(g))
  BY <1>1
<1>4. Chain(CHOOSE g : IsIt(g), "up", new, root, path, Len(path))
  BY <1>3 DEF Chain, Made
<1>5. QED
  BY <1>2, <1>4

-----------------------------------------------------------------------------
(* What the recursive functions are, place by place *)

LEMMA PrefixOfAppend ==
  ASSUME NEW p \in Seq(Nat), NEW i \in Nat
  PROVE  /\ Append(p, i) \in Seq(Nat) /\ Len(Append(p, i)) = Len(p) + 1
         /\ Append(p, i)[Len(p) + 1] = i
         /\ SubSeq(Append(p, i), 1, Len(p)) = p
         /\ \A m \in 1 .. Len(p) : Append(p, i)[m] = p[m]
         /\ \A m \in 0 .. Len(p) : SubSeq(Append(p, i), 1, m) = SubSeq(p, 1, m)
  OBVIOUS

LEMMA BodyOfEmpty ==
  ASSUME NEW root
  PROVE  BodyAt(root, <<>>) = root
<1>1. Len(<<>>) = 0
  OBVIOUS
<1>2. PICK g : Chain(g, "body", root, root, <<>>, 0) /\ BodyAt(root, <<>>) = g[0]
  BY <1>1, BodyIs
<1>3. QED
  BY <1>2 DEF Chain

LEMMA BodyOfAppend ==
  ASSUME NEW root, NEW p \in Seq(Nat), NEW i \in Nat
  PROVE  BodyAt(root, Append(p, i)) = BodyAt(root, p)[i].body
<1> DEFINE q == Append(p, i)
           n == Len(p)
<1>1. n \in Nat /\ Len(q) = n + 1 /\ q[n + 1] = i /\ \A m \in 1 .. n : q[m] = p[m]
  OBVIOUS
<1>2. PICK g : Chain(g, "body", root, root, p, n) /\ BodyAt(root, p) = g[n]
  BY BodyIs
<1> HIDE DEF q
<1>3. PICK h : Chain(h, "body", root, root, q, n + 1) /\ BodyAt(root, q) = h[n + 1]
  <2>1. Len(q) \in Nat
    BY <1>1
  <2>2. QED
    BY <1>1, <2>1, BodyIs
<1>4. \A m \in 1 .. n : \A y : Made("body", root, p, m, y) = Made("body", root, q, m, y)
  BY <1>1 DEF Made
<1>5. g[n] = h[n]
  <2>1. n + 1 \in Nat /\ n <= n + 1
    BY <1>1
  <2>2. QED
    BY <1>1, <1>2, <1>3, <1>4, <2>1, ChainsAgree
<1>6. h[n + 1] = Made("body", root, q, n + 1, h[n])
  <2>1. n + 1 \in 0 .. n + 1 /\ n + 1 # 0 /\ (n + 1) - 1 = n
    BY <1>1
  <2>2. QED
    BY <1>3, <2>1 DEF Chain
<1>7. QED
  BY <1>1, <1>2, <1>3, <1>5, <1>6 DEF Made, q

LEMMA RulesOfEmpty == RulesFor(<<>>) = {1}
<1>1. Len(<<>>) = 0
  OBVIOUS
<1>2. PICK g : Chain(g, "rules", {1}, doc, <<>>, 0) /\ RulesFor(<<>>) = g[0]
  BY <1>1, RulesAre
<1>3. QED
  BY <1>2 DEF Chain

LEMMA RulesOfAppend ==
  ASSUME NEW p \in Seq(Nat), NEW i \in Nat
  PROVE  RulesFor(Append(p, i)) =
           {r \in DOMAIN rules : rules[r].parent \in RulesFor(p) /\ rules[r].type = BodyAt(doc, p)[i].type}
<1> DEFINE q == Append(p, i)
           n == Len(p)
<1>1. /\ n \in Nat /\ Len(q) = n + 1 /\ q[n + 1] = i /\ \A m \in 1 .. n : q[m] = p[m]
      /\ \A m \in 1 .. n : SubSeq(q, 1, m - 1) = SubSeq(p, 1, m - 1)
      /\ SubSeq(q, 1, (n + 1) - 1) = p
  BY PrefixOfAppend
<1>2. PICK g : Chain(g, "rules", {1}, doc, p, n) /\ RulesFor(p) = g[n]
  BY RulesAre
<1> HIDE DEF q
<1>3. PICK h : Chain(h, "rules", {1}, doc, q, n + 1) /\ RulesFor(q) = h[n + 1]
  <2>1. Len(q) \in Nat
    BY <1>1
  <2>2. QED
    BY <1>1, <2>1, RulesAre
<1>4. ASSUME NEW m \in 1 .. n, NEW y
      PROVE  Made("rules", doc, p, m, y) = Made("rules", doc, q, m, y)
  <2>1. q[m] = p[m] /\ SubSeq(q, 1, m - 1) = SubSeq(p, 1, m - 1)
    BY <1>1
  <2>2. QED
    BY <2>1 DEF Made
<1>5. g[n] = h[n]
  <2>1. n + 1 \in Nat /\ n <= n + 1
    BY <1>1
  <2>2. QED
    BY <1>1, <1>2, <1>3, <1>4, <2>1, ChainsAgree
<1>6. h[n + 1] = Made("rules", doc, q, n + 1, h[n])
  <2>1. n + 1 \in 0 .. n + 1 /\ n + 1 # 0 /\ (n + 1) - 1 = n
    BY <1>1
  <2>2. QED
    BY <1>3, <2>1 DEF Chain
<1>7. h[n + 1] = {r \in DOMAIN rules : /\ rules[r].parent \in h[n]
                                       /\ rules[r].type = BodyAt(doc, p)[i].type}
  BY <1>1, <1>6 DEF Made
<1>8. QED
  BY <1>2, <1>3, <1>5, <1>7 DEF q

LEMMA PathsOfNone ==
  ASSUME NEW root
  PROVE  PathsOf(root, 0) = {<<>>}
<1>1. PICK g : Chain(g, "paths", {<<>>}, root, <<>>, 0) /\ PathsOf(root, 0) = g[0]
  BY PathsAre
<1>2. QED
  BY <1>1 DEF Chain

LEMMA PathsOfMore ==
  ASSUME NEW root, NEW n \in Nat
  PROVE  PathsOf(root, n + 1) = PathsOf(root, n) \cup UNION {OneDeeper(root, p) : p \in PathsOf(root, n)}
<1>1. PICK g : Chain(g, "paths", {<<>>}, root, <<>>, n) /\ PathsOf(root, n) = g[n]
  BY PathsAre
<1>2. PICK h : Chain(h, "paths", {<<>>}, root, <<>>, n + 1) /\ PathsOf(root, n + 1) = h[n + 1]
  BY PathsAre
<1>3. n + 1 \in Nat /\ n <= n + 1 /\ n + 1 \in 0 .. n + 1 /\ n + 1 # 0 /\ (n + 1) - 1 = n
  OBVIOUS
<1>4. g[n] = h[n]
  BY <1>1, <1>2, <1>3, ChainsAgree
<1>5. h[n + 1] = Made("paths", root, <<>>, n + 1, h[n])
  BY <1>2, <1>3 DEF Chain
<1>6. QED
  BY <1>1, <1>2, <1>4, <1>5 DEF Made

LEMMA PathOfEmpty ==
  ASSUME NEW root
  PROVE  IsPath(root, <<>>)
<1>1. DOMAIN <<>> = {}
  OBVIOUS
<1>2. QED
  BY <1>1 DEF IsPath

LEMMA PathOfAppend ==
  ASSUME NEW root, NEW p \in Seq(Nat), NEW i \in Nat
  PROVE  IsPath(root, Append(p, i)) <=> IsPath(root, p) /\ i \in BlocksIn(BodyAt(root, p))
<1> DEFINE q == Append(p, i)
           n == Len(p)
           Holds(path, m) == /\ path[m] \in DOMAIN BodyAt(root, SubSeq(path, 1, m - 1))
                             /\ IsBlock(BodyAt(root, SubSeq(path, 1, m - 1))[path[m]])
<1>1. /\ n \in Nat /\ q[n + 1] = i /\ \A m \in 1 .. n : q[m] = p[m]
      /\ \A m \in 1 .. n : SubSeq(q, 1, m - 1) = SubSeq(p, 1, m - 1)
      /\ SubSeq(q, 1, (n + 1) - 1) = p
      /\ DOMAIN p = 1 .. n /\ DOMAIN q = 1 .. n + 1
  BY PrefixOfAppend
<1> HIDE DEF q
<1>2. IsPath(root, q) <=> \A m \in 1 .. n + 1 : Holds(q, m)
  BY <1>1 DEF IsPath
<1>3. IsPath(root, p) <=> \A m \in 1 .. n : Holds(p, m)
  BY <1>1 DEF IsPath
<1>4. \A m \in 1 .. n : Holds(q, m) <=> Holds(p, m)
  BY <1>1
<1>5. Holds(q, n + 1) <=> i \in BlocksIn(BodyAt(root, p))
  BY <1>1 DEF BlocksIn
<1>6. \A m : m \in 1 .. n + 1 <=> m \in 1 .. n \/ m = n + 1
  BY <1>1
<1> HIDE DEF Holds
<1>7. QED
  BY <1>2, <1>3, <1>4, <1>5, <1>6 DEF q

\* A path is empty or leads on from a shorter one.
LEMMA PathEnds ==
  ASSUME NEW p \in Seq(Nat), p # <<>>
  PROVE  /\ Front(p) \in Seq(Nat) /\ Last(p) \in Nat
         /\ p = Append(Front(p), Last(p))
         /\ Len(p) = Len(Front(p)) + 1
         /\ \A n \in 1 .. Len(Front(p)) : Front(p)[n] = p[n]
<1>1. Len(p) \in Nat /\ Len(p) # 0
  OBVIOUS
<1>2. /\ SubSeq(p, 1, Len(p) - 1) \in Seq(Nat) /\ Len(SubSeq(p, 1, Len(p) - 1)) = Len(p) - 1
      /\ \A n \in 1 .. Len(p) - 1 : SubSeq(p, 1, Len(p) - 1)[n] = p[n]
  <2> DEFINE k == Len(p) - 1
  <2>1. k \in 0 .. Len(p)
    BY <1>1
  <2> HIDE DEF k
  <2>2. SubSeq(p, 1, k) \in Seq(Nat) /\ Len(SubSeq(p, 1, k)) = k /\ \A n \in 1 .. k : SubSeq(p, 1, k)[n] = p[n]
    BY <2>1
  <2>3. QED
    BY <2>2 DEF k
<1>3. p[Len(p)] \in Nat
  BY <1>1
<1>4. Front(p) \in Seq(Nat) /\ Last(p) \in Nat /\ Len(p) = Len(Front(p)) + 1
      /\ \A n \in 1 .. Len(Front(p)) : Front(p)[n] = p[n]
  BY <1>1, <1>2, <1>3 DEF Front, Last
<1>5. p = Append(Front(p), Last(p))
  <2> DEFINE f == Front(p)
             l == Last(p)
  <2>1. f \in Seq(Nat) /\ l \in Nat /\ l = p[Len(p)] /\ Len(f) = Len(p) - 1 /\ \A n \in 1 .. Len(f) : f[n] = p[n]
    BY <1>1, <1>4 DEF Last
  <2> HIDE DEF f, l
  <2>2. /\ Append(f, l) \in Seq(Nat) /\ Len(Append(f, l)) = Len(p)
        /\ \A n \in 1 .. Len(p) : Append(f, l)[n] = p[n]
    BY <1>1, <2>1
  <2>3. p = Append(f, l)
    BY <2>2
  <2>4. QED
    BY <2>3 DEF f, l
<1>6. QED
  BY <1>4, <1>5

LEMMA PathIsEmptyOrNot ==
  ASSUME NEW p \in Seq(Nat), NEW i \in Nat
  PROVE  Front(Append(p, i)) = p /\ Last(Append(p, i)) = i /\ Append(p, i) # <<>>
BY PrefixOfAppend DEF Front, Last

\* What holds along a path holds along the beginning of it.
LEMMA PrefixIsPath ==
  ASSUME NEW root, NEW p \in Seq(Nat), IsPath(root, p), NEW n \in 0 .. Len(p)
  PROVE  SubSeq(p, 1, n) \in Seq(Nat) /\ Len(SubSeq(p, 1, n)) = n /\ IsPath(root, SubSeq(p, 1, n))
<1> DEFINE q == SubSeq(p, 1, n)
<1>1. /\ q \in Seq(Nat) /\ Len(q) = n
      /\ \A m \in 1 .. n : q[m] = p[m] /\ SubSeq(q, 1, m - 1) = SubSeq(p, 1, m - 1)
      /\ DOMAIN q = 1 .. n /\ DOMAIN p = 1 .. Len(p)
  OBVIOUS
<1> HIDE DEF q
<1>2. \A m \in 1 .. n : m \in 1 .. Len(p)
  OBVIOUS
<1>3. IsPath(root, q)
  BY <1>1, <1>2 DEF IsPath
<1>4. QED
  BY <1>1, <1>3 DEF q

-----------------------------------------------------------------------------
(* What SelectInSeq finds: the first place that fits, or 0 *)

IsFirstIn(f, I) == IF I = {} THEN f = 0 ELSE f \in I /\ \A j \in I : f <= j

LEMMA FirstIs ==
  ASSUME NEW n \in Nat, NEW I \in SUBSET (1 .. n)
  PROVE  IsFirstIn(IF I # {} THEN Min(I) ELSE 0, I)
BY LeastPlace DEF IsFirstIn

LEMMA RuleIs ==
  ASSUME IsSequence(rules), NEW parent, NEW type
  PROVE  IsFirstIn(FindBlock(parent, type), {i \in DOMAIN rules : rules[i].parent = parent /\ rules[i].type = type})
<1> DEFINE I == {i \in 1 .. Len(rules) : rules[i].parent = parent /\ rules[i].type = type}
<1>1. Len(rules) \in Nat /\ DOMAIN rules = 1 .. Len(rules)
  BY DEF IsSequence
<1>2. FindBlock(parent, type) = IF I # {} THEN Min(I) ELSE 0
  BY DEF FindBlock, SelectInSeq
<1>3. I \in SUBSET (1 .. Len(rules))
  OBVIOUS
<1> HIDE DEF I
<1>4. IsFirstIn(FindBlock(parent, type), I)
  BY <1>1, <1>2, <1>3, FirstIs
<1>5. QED
  BY <1>1, <1>4 DEF I

LEMMA NoRuleFound ==
  ASSUME IsSequence(rules), NEW parent, NEW type, FindBlock(parent, type) = 0
  PROVE  \A i \in DOMAIN rules : ~(rules[i].parent = parent /\ rules[i].type = type)
<1>1. DOMAIN rules = 1 .. Len(rules) /\ Len(rules) \in Nat
  BY DEF IsSequence
<1>2. QED
  BY <1>1, RuleIs DEF IsFirstIn

LEMMA AttrIs ==
  ASSUME NEW rule, IsSequence(rules[rule].attrs), NEW name
  PROVE  IsFirstIn(FindAttr(rule, name), {i \in DOMAIN rules[rule].attrs : rules[rule].attrs[i].name = name})
<1> DEFINE attrs == rules[rule].attrs
           I == {i \in 1 .. Len(attrs) : attrs[i].name = name}
<1>1. Len(attrs) \in Nat /\ DOMAIN attrs = 1 .. Len(attrs)
  BY DEF IsSequence
<1>2. FindAttr(rule, name) = IF I # {} THEN Min(I) ELSE 0
  BY DEF FindAttr, SelectInSeq
<1>3. I \in SUBSET (1 .. Len(attrs))
  OBVIOUS
<1> HIDE DEF I
<1>4. IsFirstIn(FindAttr(rule, name), I)
  BY <1>1, <1>2, <1>3, FirstIs
<1>5. QED
  BY <1>1, <1>4 DEF I

LEMMA NoAttrFound ==
  ASSUME NEW rule, IsSequence(rules[rule].attrs), NEW name, FindAttr(rule, name) = 0
  PROVE  \A i \in DOMAIN rules[rule].attrs : rules[rule].attrs[i].name # name
<1>1. DOMAIN rules[rule].attrs = 1 .. Len(rules[rule].attrs) /\ Len(rules[rule].attrs) \in Nat
  BY DEF IsSequence
<1>2. QED
  BY <1>1, AttrIs DEF IsFirstIn

LEMMA MissingIs ==
  ASSUME NEW rule, IsSequence(rules[rule].attrs), NEW body
  PROVE  IsFirstIn(Missing(rule, body),
                   {i \in DOMAIN rules[rule].attrs :
                      rules[rule].attrs[i].required /\ AttrAt(body, rules[rule].attrs[i].name) = 0})
<1> DEFINE attrs == rules[rule].attrs
           I == {i \in 1 .. Len(attrs) : attrs[i].required /\ AttrAt(body, attrs[i].name) = 0}
<1>1. Len(attrs) \in Nat /\ DOMAIN attrs = 1 .. Len(attrs)
  BY DEF IsSequence
<1>2. Missing(rule, body) = IF I # {} THEN Min(I) ELSE 0
  BY DEF Missing, SelectInSeq
<1>3. I \in SUBSET (1 .. Len(attrs))
  OBVIOUS
<1> HIDE DEF I
<1>4. IsFirstIn(Missing(rule, body), I)
  BY <1>1, <1>2, <1>3, FirstIs
<1>5. QED
  BY <1>1, <1>4 DEF I

LEMMA AttrAtIs ==
  ASSUME NEW body, IsSequence(body), NEW name
  PROVE  IsFirstIn(AttrAt(body, name), {i \in DOMAIN body : IsAttr(body[i]) /\ body[i].name = name})
<1> DEFINE I == {i \in 1 .. Len(body) : IsAttr(body[i]) /\ body[i].name = name}
<1>1. Len(body) \in Nat /\ DOMAIN body = 1 .. Len(body)
  BY DEF IsSequence
<1>2. AttrAt(body, name) = IF I # {} THEN Min(I) ELSE 0
  BY DEF AttrAt, SelectInSeq
<1>3. I \in SUBSET (1 .. Len(body))
  OBVIOUS
<1> HIDE DEF I
<1>4. IsFirstIn(AttrAt(body, name), I)
  BY <1>1, <1>2, <1>3, FirstIs
<1>5. QED
  BY <1>1, <1>4 DEF I

-----------------------------------------------------------------------------
(* The rules and their attributes are sequences, whatever the documents    *)
(* and the host put in them.                                               *)
IsRules(rs) ==
  /\ IsSequence(rs)
  /\ \A r \in DOMAIN rs : /\ rs[r] = [parent |-> rs[r].parent, type |-> rs[r].type, attrs |-> rs[r].attrs]
                          /\ IsSequence(rs[r].attrs)

RulesInv == IsRules(rules) /\ RulesAreUnique

-----------------------------------------------------------------------------
(* What is done to the rules *)

LEMMA RuleAdded ==
  ASSUME RulesInv, NEW parent, NEW type, FindBlock(parent, type) = 0, rules' = WithRule(parent, type)
  PROVE  RulesInv'
<1>1. /\ IsSequence(rules')
      /\ Len(rules) \in Nat
      /\ Len(rules') = Len(rules) + 1
      /\ \A n \in 1 .. Len(rules) : rules'[n] = rules[n]
      /\ rules'[Len(rules) + 1] = Rule(parent, type)
  BY AppendSequence DEF RulesInv, IsRules, WithRule
<1>2. DOMAIN rules = 1 .. Len(rules) /\ DOMAIN rules' = 1 .. Len(rules) + 1
  BY <1>1 DEF RulesInv, IsRules, IsSequence
<1>3. IsSequence(<<>>) /\ DOMAIN <<>> = {}
  BY ShortSequences
<1>4. IsRules(rules')
  BY <1>1, <1>2, <1>3 DEF RulesInv, IsRules, Rule
<1>5. \A i \in DOMAIN rules : ~(rules[i].parent = parent /\ rules[i].type = type)
  BY NoRuleFound DEF RulesInv, IsRules
<1>6. \A i, j \in DOMAIN rules' :
        rules'[i].parent = rules'[j].parent /\ rules'[i].type = rules'[j].type => i = j
  <2>1. \A i \in DOMAIN rules' : i \in DOMAIN rules \/ i = Len(rules) + 1
    BY <1>1, <1>2
  <2>2. QED
    BY <1>1, <1>2, <1>5, <2>1 DEF RulesInv, RulesAreUnique, Rule
<1>7. ASSUME NEW r \in DOMAIN rules'
      PROVE  /\ \A i, j \in DOMAIN rules'[r].attrs : rules'[r].attrs[i].name = rules'[r].attrs[j].name => i = j
             /\ \A i \in DOMAIN rules'[r].attrs : ~Repeats(rules'[r].attrs[i].values)
  <2>1. CASE r \in DOMAIN rules
    BY <1>1, <1>2, <2>1 DEF RulesInv, RulesAreUnique
  <2>2. CASE r = Len(rules) + 1
    BY <1>1, <1>3, <2>2 DEF Rule
  <2>3. QED
    BY <1>1, <1>2, <2>1, <2>2
<1>8. QED
  BY <1>4, <1>6, <1>7 DEF RulesInv, RulesAreUnique

LEMMA WithAttrIs ==
  ASSUME IsRules(rules), NEW rule \in DOMAIN rules, NEW attr
  PROVE  LET rs   == WithAttr(rule, attr)
             more == Append(rules[rule].attrs, attr)
         IN  /\ IsSequence(rs) /\ Len(rs) = Len(rules) /\ DOMAIN rs = DOMAIN rules
             /\ \A r \in DOMAIN rules : r # rule => rs[r] = rules[r]
             /\ rs[rule] = [parent |-> rules[rule].parent, type |-> rules[rule].type, attrs |-> more]
<1> DEFINE attrs == rules[rule].attrs
           more  == Append(attrs, attr)
           rs    == WithAttr(rule, attr)
<1>1. rules = [r \in 1 .. Len(rules) |-> rules[r]] /\ Len(rules) \in Nat
  BY DEF IsRules, IsSequence
<1>2. rs = [r \in 1 .. Len(rules) |-> IF r = rule THEN [rules[rule] EXCEPT !.attrs = more] ELSE rules[r]]
  BY <1>1 DEF WithAttr
<1> HIDE DEF rs
<1>3. DOMAIN rules = 1 .. Len(rules) /\ DOMAIN rs = 1 .. Len(rules)
  BY <1>1, <1>2
<1>4. \A r \in DOMAIN rules : r # rule => rs[r] = rules[r]
  BY <1>2, <1>3
<1>5. rs[rule] = [parent |-> rules[rule].parent, type |-> rules[rule].type, attrs |-> more]
  <2>1. rules[rule] = [parent |-> rules[rule].parent, type |-> rules[rule].type, attrs |-> attrs]
    BY DEF IsRules
  <2>2. rs[rule] = [rules[rule] EXCEPT !.attrs = more]
    BY <1>2, <1>3
  <2>3. QED
    BY <2>1, <2>2
<1>6. IsSequence(rs) /\ Len(rs) = Len(rules)
  <2>1. rs \in [1 .. Len(rules) -> {rs[r] : r \in 1 .. Len(rules)}]
    BY <1>2
  <2>2. rs \in Seq({rs[r] : r \in 1 .. Len(rules)}) /\ Len(rs) = Len(rules)
    BY <1>1, <2>1
  <2>3. QED
    BY <2>2, SeqIsSequence
<1>7. QED
  BY <1>3, <1>4, <1>5, <1>6 DEF rs

LEMMA AttrAdded ==
  ASSUME RulesInv, NEW rule \in DOMAIN rules, NEW attr, MayAdd(rule, attr), rules' = WithAttr(rule, attr)
  PROVE  RulesInv'
<1> DEFINE attrs == rules[rule].attrs
           more  == Append(attrs, attr)
<1>1. /\ IsSequence(more)
      /\ Len(attrs) \in Nat
      /\ Len(more) = Len(attrs) + 1
      /\ \A n \in 1 .. Len(attrs) : more[n] = attrs[n]
      /\ more[Len(attrs) + 1] = attr
  BY AppendSequence DEF RulesInv, IsRules
<1>2. DOMAIN attrs = 1 .. Len(attrs) /\ DOMAIN more = 1 .. Len(attrs) + 1
  BY <1>1 DEF RulesInv, IsRules, IsSequence
<1>3. /\ IsSequence(rules') /\ DOMAIN rules' = DOMAIN rules
      /\ \A r \in DOMAIN rules : r # rule => rules'[r] = rules[r]
      /\ rules'[rule] = [parent |-> rules[rule].parent, type |-> rules[rule].type, attrs |-> more]
  BY WithAttrIs DEF RulesInv
<1> HIDE DEF more
<1>4. IsRules(rules')
  BY <1>1, <1>3 DEF RulesInv, IsRules
<1>5. \A i, j \in DOMAIN rules' :
        rules'[i].parent = rules'[j].parent /\ rules'[i].type = rules'[j].type => i = j
  BY <1>3 DEF RulesInv, RulesAreUnique
<1>6. \A i \in DOMAIN attrs : attrs[i].name # attr.name
  BY NoAttrFound DEF RulesInv, IsRules, MayAdd
<1>7. /\ \A i, j \in DOMAIN more : more[i].name = more[j].name => i = j
      /\ \A i \in DOMAIN more : ~Repeats(more[i].values)
  <2>1. \A i \in DOMAIN more : i \in DOMAIN attrs \/ i = Len(attrs) + 1
    BY <1>1, <1>2
  <2>2. /\ \A i, j \in DOMAIN attrs : attrs[i].name = attrs[j].name => i = j
        /\ \A i \in DOMAIN attrs : ~Repeats(attrs[i].values)
    BY DEF RulesInv, RulesAreUnique
  <2>3. \A i \in DOMAIN attrs : more[i] = attrs[i]
    BY <1>1, <1>2
  <2>4. \A i, j \in DOMAIN more : more[i].name = more[j].name => i = j
    BY <1>1, <1>6, <2>1, <2>2, <2>3
  <2>5. \A i \in DOMAIN more : ~Repeats(more[i].values)
    BY <1>1, <2>1, <2>2, <2>3 DEF MayAdd
  <2>6. QED
    BY <2>4, <2>5
<1>8. ASSUME NEW r \in DOMAIN rules'
      PROVE  /\ \A i, j \in DOMAIN rules'[r].attrs : rules'[r].attrs[i].name = rules'[r].attrs[j].name => i = j
             /\ \A i \in DOMAIN rules'[r].attrs : ~Repeats(rules'[r].attrs[i].values)
  <2>1. CASE r = rule
    <3>1. rules'[r].attrs = more
      BY <1>3, <2>1
    <3>2. QED
      BY <1>7, <3>1
  <2>2. CASE r # rule
    BY <1>3, <2>2 DEF RulesInv, RulesAreUnique
  <2>3. QED
    BY <2>1, <2>2
<1>9. QED
  BY <1>4, <1>5, <1>8 DEF RulesInv, RulesAreUnique

LEMMA LoadFailed ==
  ASSUME NEW why, LoadFails(why)
  PROVE  RulesInv'
<1>1. rules' = <<>> /\ IsSequence(<<>>) /\ DOMAIN <<>> = {}
  BY ShortSequences DEF LoadFails
<1>2. QED
  BY <1>1 DEF RulesInv, IsRules, RulesAreUnique

LEMMA RulesKept ==
  ASSUME RulesInv, UNCHANGED rules
  PROVE  RulesInv'
BY DEF RulesInv, RulesAreUnique, IsRules

-----------------------------------------------------------------------------
LEMMA InitIsUnique ==
  ASSUME RulesInit
  PROVE  RulesInv
<1>1. \A v : DOMAIN <<v>> = {1} /\ <<v>>[1] = v
  OBVIOUS
<1>2. DOMAIN rules = {1} /\ rules[1] = Root /\ IsSequence(rules)
  BY <1>1, ShortSequences DEF RulesInit
<1>3. Root = [parent |-> Root.parent, type |-> Root.type, attrs |-> Root.attrs] /\ Root.attrs = <<>>
  BY DEF Root, Rule
<1>4. IsSequence(<<>>) /\ DOMAIN <<>> = {}
  BY ShortSequences
<1>5. IsRules(rules)
  BY <1>2, <1>3, <1>4 DEF IsRules
<1>6. RulesAreUnique
  BY <1>2, <1>3, <1>4 DEF RulesAreUnique
<1>7. QED
  BY <1>5, <1>6 DEF RulesInv

LEMMA StepIsUnique ==
  ASSUME RulesInv, [RulesNext]_rulesVars
  PROVE  RulesInv'
<1>1. ASSUME NEW parent, NEW type, AddBlock(parent, type)
      PROVE  RulesInv'
  BY <1>1, RuleAdded DEF AddBlock
<1>2. ASSUME NEW rule \in DOMAIN rules, NEW attr, AddAttr(rule, attr) \/ AddEnum(rule, attr)
      PROVE  RulesInv'
  BY <1>2, AttrAdded DEF AddAttr, AddEnum
<1>3. ASSUME NEW s, SetStrict(s)
      PROVE  RulesInv'
  BY <1>3, RulesKept DEF SetStrict
<1>4. ASSUME NEW decl, LoadString(decl)
      PROVE  RulesInv'
  BY <1>4, RulesKept DEF LoadString
<1>5. CASE LoadTopAttr
  BY <1>5, RulesKept, LoadFailed DEF LoadTopAttr
<1>6. CASE LoadAttr
  <2> DEFINE form == ReadForm(Item.value)
             attr == AttrOf(Item.name, form)
  <2>1. LoadForm(form)
    BY <1>6 DEF LoadAttr
  <2> HIDE DEF form
  <2>2. CASE FormError(form) # ""
    BY <2>1, <2>2, LoadFailed DEF LoadForm
  <2>3. CASE FormError(form) = "" /\ ~MayAdd(Level, attr)
    BY <2>1, <2>3, LoadFailed DEF LoadForm
  <2>4. CASE FormError(form) = "" /\ MayAdd(Level, attr)
    <3>1. rules' = WithAttr(Level, attr)
      BY <2>1, <2>4 DEF LoadForm
    <3>2. CASE Level \in DOMAIN rules
      BY <2>4, <3>1, <3>2, AttrAdded
    <3>3. CASE Level \notin DOMAIN rules
      <4>1. rules' = rules
        BY <3>1, <3>3 DEF WithAttr, RulesInv, IsRules, IsSequence
      <4>2. QED
        BY <4>1, RulesKept
    <3>4. QED
      BY <3>2, <3>3
  <2>5. QED
    BY <2>2, <2>3, <2>4
<1>7. CASE LoadBlock
  <2>1. \/ \E why : LoadFails(why)
        \/ \E type : FindBlock(Level, type) = 0 /\ rules' = WithRule(Level, type)
    BY <1>7 DEF LoadBlock
  <2>2. QED
    BY <2>1, LoadFailed, RuleAdded
<1>8. CASE LoadReturns
  BY <1>8, RulesKept DEF LoadReturns
<1>9. CASE UNCHANGED rulesVars
  BY <1>9, RulesKept DEF rulesVars
<1>10. QED
  BY <1>1, <1>2, <1>3, <1>4, <1>5, <1>6, <1>7, <1>8, <1>9 DEF RulesNext

\* However a schema is made, by calls on rules the host holds or by loading any document,
\* a name means one thing at each level: the validator, which takes the first rule of that
\* name, never passes over another (cl_schema_block_add_block, cl_schema_block_add_attr,
\* cl_schema_block_add_enum).
THEOREM NamesMeanOneThing == RulesSpec => []RulesAreUnique
<1>1. RulesInit => RulesInv
  BY InitIsUnique
<1>2. RulesInv /\ [RulesNext]_rulesVars => RulesInv'
  BY StepIsUnique
<1>3. RulesInv => RulesAreUnique
  BY DEF RulesInv
<1>4. QED
  BY <1>1, <1>2, <1>3, PTL DEF RulesSpec

-----------------------------------------------------------------------------
(* The bodies of a document are arrays of items, however deep they are. *)

Closed(S)     == \A b \in S : IsBody(b) /\ \A i \in BlocksIn(b) : b[i].body \in S
WellFormed(d) == \E S : d \in S /\ Closed(S)

\* A path one longer.
LEMMA PrefixMore ==
  ASSUME NEW p \in Seq(Nat), NEW n \in Nat, n + 1 <= Len(p)
  PROVE  /\ SubSeq(p, 1, n) \in Seq(Nat) /\ Len(SubSeq(p, 1, n)) = n /\ p[n + 1] \in Nat
         /\ SubSeq(p, 1, n + 1) = Append(SubSeq(p, 1, n), p[n + 1])
<1>1. SubSeq(p, 1, n) \in Seq(Nat) /\ Len(SubSeq(p, 1, n)) = n /\ \A m \in 1 .. n : SubSeq(p, 1, n)[m] = p[m]
  OBVIOUS
<1>2. /\ SubSeq(p, 1, n + 1) \in Seq(Nat) /\ Len(SubSeq(p, 1, n + 1)) = n + 1
      /\ \A m \in 1 .. n + 1 : SubSeq(p, 1, n + 1)[m] = p[m]
  OBVIOUS
<1>3. p[n + 1] \in Nat
  OBVIOUS
<1> DEFINE s == SubSeq(p, 1, n)
           t == SubSeq(p, 1, n + 1)
<1>4. s \in Seq(Nat) /\ Len(s) = n /\ t \in Seq(Nat) /\ Len(t) = n + 1 /\ t[n + 1] = p[n + 1]
      /\ \A m \in 1 .. n : t[m] = s[m]
  BY <1>1, <1>2
<1> HIDE DEF s, t
<1>5. t = Append(s, p[n + 1])
  BY <1>3, <1>4
<1>6. QED
  BY <1>1, <1>3, <1>5 DEF s, t

LEMMA BodyInClosed ==
  ASSUME NEW S, Closed(S), NEW root \in S, NEW p \in Seq(Nat), IsPath(root, p)
  PROVE  \A n \in 0 .. Len(p) : BodyAt(root, SubSeq(p, 1, n)) \in S
<1> DEFINE T == {n \in Nat : n <= Len(p) => BodyAt(root, SubSeq(p, 1, n)) \in S}
<1>1. 0 \in T
  <2>1. SubSeq(p, 1, 0) = <<>>
    OBVIOUS
  <2>2. QED
    BY <2>1, BodyOfEmpty
<1>2. ASSUME NEW n \in Nat, n \in T
      PROVE  n + 1 \in T
  <2>1. SUFFICES ASSUME n + 1 <= Len(p) PROVE BodyAt(root, SubSeq(p, 1, n + 1)) \in S
    OBVIOUS
  <2> DEFINE q == SubSeq(p, 1, n)
  <2>2. n \in 0 .. Len(p) /\ n + 1 \in 0 .. Len(p)
    BY <2>1
  <2>3. q \in Seq(Nat) /\ p[n + 1] \in Nat /\ SubSeq(p, 1, n + 1) = Append(q, p[n + 1])
    BY <2>1, <2>2, PrefixMore
  <2>4. IsPath(root, Append(q, p[n + 1]))
    BY <2>2, <2>3, PrefixIsPath
  <2>5. BodyAt(root, q) \in S
    BY <1>2, <2>1
  <2> HIDE DEF q
  <2>6. p[n + 1] \in BlocksIn(BodyAt(root, q))
    BY <2>3, <2>4, PathOfAppend
  <2>7. BodyAt(root, Append(q, p[n + 1])) = BodyAt(root, q)[p[n + 1]].body
    BY <2>3, BodyOfAppend
  <2>8. BodyAt(root, Append(q, p[n + 1])) \in S
    BY <2>5, <2>6, <2>7 DEF Closed
  <2>9. QED
    BY <2>3, <2>8 DEF q
<1> HIDE DEF T
<1>3. Nat \subseteq T
  BY <1>1, <1>2, AllNaturals
<1>4. QED
  BY <1>3 DEF T

LEMMA BodyIsBody ==
  ASSUME NEW root, WellFormed(root), NEW p \in Seq(Nat), IsPath(root, p)
  PROVE  IsBody(BodyAt(root, p))
<1>1. PICK S : root \in S /\ Closed(S)
  BY DEF WellFormed
<1>2. Len(p) \in 0 .. Len(p) /\ SubSeq(p, 1, Len(p)) = p
  OBVIOUS
<1>3. BodyAt(root, p) \in S
  BY <1>1, <1>2, BodyInClosed
<1>4. QED
  BY <1>1, <1>3 DEF Closed

LEMMA NoneIsBody == IsBody(<<>>) /\ BlocksIn(<<>>) = {}
BY ShortSequences DEF IsBody, BlocksIn

\* An item, and an item whose block has another body.
LEMMA ItemFields ==
  ASSUME NEW b, IsBody(b), NEW i \in DOMAIN b, NEW y
  PROVE  /\ IsAttr(b[i]) \/ IsBlock(b[i])
         /\ ~(IsAttr(b[i]) /\ IsBlock(b[i]))
         /\ IsBlock(b[i]) => /\ [b[i] EXCEPT !.body = y] = BlockItem(b[i].type, b[i].labels, y)
         /\ IsAttr(b[i]) => [b[i] EXCEPT !.value = y] = AttrItem(b[i].name, y)
BY DEF IsBody, IsAttr, IsBlock, AttrItem, BlockItem

\* A body in which one item is replaced.
LEMMA ItemReplaced ==
  ASSUME NEW S, NEW b, IsBody(b), \A i \in BlocksIn(b) : b[i].body \in S,
         NEW j \in DOMAIN b, NEW item,
         \/ item = AttrItem(item.name, item.value)
         \/ item = BlockItem(item.type, item.labels, item.body) /\ item.body \in S
  PROVE  /\ IsBody([b EXCEPT ![j] = item])
         /\ \A i \in BlocksIn([b EXCEPT ![j] = item]) : [b EXCEPT ![j] = item][i].body \in S
<1> DEFINE c == [b EXCEPT ![j] = item]
<1>1. Len(b) \in Nat /\ b = [n \in 1 .. Len(b) |-> b[n]] /\ DOMAIN b = 1 .. Len(b)
  BY DEF IsBody, IsSequence
<1>2. c = [n \in 1 .. Len(b) |-> IF n = j THEN item ELSE b[n]]
  BY <1>1
<1>3. IsSequence(c) /\ DOMAIN c = DOMAIN b
  <2> DEFINE R == {IF n = j THEN item ELSE b[n] : n \in 1 .. Len(b)}
  <2>1. c \in [1 .. Len(b) -> R]
    BY <1>2
  <2>2. DOMAIN c = DOMAIN b
    BY <1>1, <1>2
  <2> HIDE DEF R, c
  <2>3. c \in Seq(R)
    BY <1>1, <2>1
  <2>4. QED
    BY <2>2, <2>3, SeqIsSequence
<1>4. c[j] = item /\ \A n \in DOMAIN b : n # j => c[n] = b[n]
  BY <1>1, <1>2
<1> HIDE DEF c
<1>5. ASSUME NEW i \in DOMAIN c
      PROVE  /\ c[i] = IF IsAttr(c[i]) THEN AttrItem(c[i].name, c[i].value)
                                       ELSE BlockItem(c[i].type, c[i].labels, c[i].body)
             /\ IsBlock(c[i]) => c[i].body \in S
  <2>1. CASE i = j
    BY <1>4, <2>1 DEF IsAttr, IsBlock, AttrItem, BlockItem
  <2>2. CASE i # j
    BY <1>3, <1>4, <2>2 DEF IsBody, BlocksIn
  <2>3. QED
    BY <2>1, <2>2
<1>6. QED
  BY <1>3, <1>5 DEF IsBody, BlocksIn, c

-----------------------------------------------------------------------------
(* Places, and the order of the document *)

IsAPlace(q) == q \in Seq(Nat) /\ IsPlace(q)

\* The place is c or in the block at c.
Under(q, c) == Len(c) <= Len(q) /\ \A m \in 1 .. Len(c) : q[m] = c[m]

LEMMA SameSequence ==
  ASSUME NEW s \in Seq(Nat), NEW t \in Seq(Nat), Len(s) = Len(t), \A m \in 1 .. Len(s) : s[m] = t[m]
  PROVE  s = t
OBVIOUS

LEMMA UnderIsPrefix ==
  ASSUME NEW q \in Seq(Nat), NEW c \in Seq(Nat), Under(q, c)
  PROVE  /\ SubSeq(q, 1, Len(c)) = c
         /\ Len(q) = Len(c) => q = c
<1>1. \A m \in 1 .. Len(c) : q[m] = c[m]
  BY DEF Under
<1>2. Len(c) \in 0 .. Len(q) /\ Len(c) \in Nat
  BY DEF Under
<1> DEFINE s == SubSeq(q, 1, Len(c))
<1>3. s \in Seq(Nat) /\ Len(s) = Len(c) /\ \A m \in 1 .. Len(c) : s[m] = q[m]
  BY <1>2
<1> HIDE DEF s
<1>4. s = c
  <2>1. \A m \in 1 .. Len(s) : s[m] = c[m]
    BY <1>1, <1>3
  <2>2. QED
    BY <1>3, <2>1, SameSequence
<1>5. ASSUME Len(q) = Len(c)
      PROVE  q = c
  BY <1>1, <1>5
<1>6. QED
  BY <1>4, <1>5 DEF s

\* What is before the place behind c is before c, or at c, or in the block at c.
LEMMA BeforeNext ==
  ASSUME NEW q \in Seq(Nat), NEW d \in Seq(Nat), NEW i \in Nat, Before(q, Append(d, i + 1))
  PROVE  Before(q, Append(d, i)) \/ Under(q, Append(d, i))
<1> DEFINE c == Append(d, i)
           e == Append(d, i + 1)
           k == Len(d) + 1
<1>1. /\ k \in Nat /\ Len(c) = k /\ Len(e) = k /\ c[k] = i /\ e[k] = i + 1
      /\ DOMAIN c = 1 .. k /\ DOMAIN e = 1 .. k /\ DOMAIN q = 1 .. Len(q) /\ Len(q) \in Nat
      /\ \A m \in 1 .. k - 1 : c[m] = d[m] /\ e[m] = d[m]
      /\ \A m \in 1 .. Len(q) : q[m] \in Nat
  OBVIOUS
<1> HIDE DEF c, e, k
<1>2. PICK n \in DOMAIN e : /\ n <= Len(q) + 1
                            /\ \A m \in 1 .. n - 1 : q[m] = e[m]
                            /\ n \in DOMAIN q => q[n] < e[n]
  BY DEF Before, e
<1>3. CASE n # k
  <2>1. n \in DOMAIN c /\ e[n] = c[n] /\ \A m \in 1 .. n - 1 : q[m] = c[m]
    BY <1>1, <1>2, <1>3
  <2>2. Before(q, c)
    BY <1>2, <2>1 DEF Before
  <2>3. QED
    BY <2>2 DEF c
<1>4. CASE n = k
  <2>1. \A m \in 1 .. k - 1 : q[m] = c[m]
    BY <1>1, <1>2, <1>4
  <2>2. CASE k \in DOMAIN q /\ q[k] = i
    <3>1. \A m \in 1 .. k : q[m] = c[m]
      BY <1>1, <2>1, <2>2
    <3>2. Under(q, c)
      BY <1>1, <2>2, <3>1 DEF Under
    <3>3. QED
      BY <3>2 DEF c
  <2>3. CASE ~(k \in DOMAIN q /\ q[k] = i)
    <3>1. k \in DOMAIN q => q[k] < i
      BY <1>1, <1>2, <1>4, <2>3
    <3>2. Before(q, c)
      BY <1>1, <1>2, <1>4, <2>1, <3>1 DEF Before
    <3>3. QED
      BY <3>2 DEF c
  <2>4. QED
    BY <2>2, <2>3
<1>5. QED
  BY <1>3, <1>4

\* What is before the first place in a block is before the block, or the block.
LEMMA BeforeFirst ==
  ASSUME NEW q \in Seq(Nat), \A m \in 1 .. Len(q) : q[m] # 0,
         NEW c \in Seq(Nat), Before(q, Append(c, 1))
  PROVE  Before(q, c) \/ q = c
<1> DEFINE e == Append(c, 1)
           k == Len(c) + 1
<1>1. /\ k \in Nat /\ Len(e) = k /\ e[k] = 1 /\ Len(c) = k - 1
      /\ DOMAIN c = 1 .. k - 1 /\ DOMAIN e = 1 .. k /\ DOMAIN q = 1 .. Len(q) /\ Len(q) \in Nat
      /\ \A m \in 1 .. k - 1 : e[m] = c[m]
      /\ \A m \in 1 .. Len(q) : q[m] \in Nat
  OBVIOUS
<1> HIDE DEF e, k
<1>2. PICK n \in DOMAIN e : /\ n <= Len(q) + 1
                            /\ \A m \in 1 .. n - 1 : q[m] = e[m]
                            /\ n \in DOMAIN q => q[n] < e[n]
  BY DEF Before, e
<1>3. CASE n # k
  <2>1. n \in DOMAIN c /\ e[n] = c[n] /\ \A m \in 1 .. n - 1 : q[m] = c[m]
    BY <1>1, <1>2, <1>3
  <2>2. QED
    BY <1>2, <2>1 DEF Before
<1>4. CASE n = k
  <2>1. \A m \in 1 .. k - 1 : q[m] = c[m]
    BY <1>1, <1>2, <1>4
  <2>2. k \notin DOMAIN q
    BY <1>1, <1>2, <1>4
  <2>3. Len(q) = Len(c)
    BY <1>1, <1>2, <1>4, <2>2
  <2>4. Under(q, c)
    BY <1>1, <2>1, <2>3 DEF Under
  <2>5. QED
    BY <2>3, <2>4, UnderIsPrefix
<1>5. QED
  BY <1>3, <1>4

\* What is before a place behind the last item of a block is in the order it is in.
LEMMA BeforeLast ==
  ASSUME NEW q \in Seq(Nat), NEW c \in Seq(Nat), NEW j \in Nat, Under(q, c),
         Len(q) > Len(c) => q[Len(c) + 1] < j
  PROVE  Before(q, Append(c, j))
<1> DEFINE e == Append(c, j)
           k == Len(c) + 1
<1>1. /\ k \in Nat /\ e[k] = j /\ DOMAIN e = 1 .. k /\ DOMAIN q = 1 .. Len(q) /\ Len(q) \in Nat
      /\ Len(c) = k - 1 /\ \A m \in 1 .. k - 1 : e[m] = c[m]
  OBVIOUS
<1> HIDE DEF e, k
<1>2. \A m \in 1 .. k - 1 : q[m] = e[m]
  BY <1>1 DEF Under
<1>3. k <= Len(q) + 1
  BY <1>1 DEF Under
<1>4. k \in DOMAIN q => q[k] < e[k]
  BY <1>1 DEF k
<1>5. k \in DOMAIN e
  BY <1>1 DEF k
<1>6. Before(q, e)
  BY <1>2, <1>3, <1>4, <1>5 DEF Before
<1>7. QED
  BY <1>6 DEF e

\* What is before a place is before every place in its block.
LEMMA BeforeInside ==
  ASSUME NEW q \in Seq(Nat), NEW c \in Seq(Nat), NEW j \in Nat, Before(q, c)
  PROVE  Before(q, Append(c, j))
<1> DEFINE e == Append(c, j)
           k == Len(c)
<1>1. k \in Nat /\ DOMAIN c = 1 .. k /\ DOMAIN e = 1 .. k + 1 /\ \A m \in 1 .. k : e[m] = c[m]
  OBVIOUS
<1> HIDE DEF e, k
<1>2. PICK n \in DOMAIN c : /\ n <= Len(q) + 1
                            /\ \A m \in 1 .. n - 1 : q[m] = c[m]
                            /\ n \in DOMAIN q => q[n] < c[n]
  BY DEF Before
<1>3. n \in DOMAIN e /\ e[n] = c[n] /\ \A m \in 1 .. n - 1 : q[m] = e[m]
  BY <1>1, <1>2
<1>4. QED
  BY <1>2, <1>3 DEF Before, e

\* The numbers of a path and of a place are those of items, and of one place behind them.
LEMMA PlaceNumbers ==
  ASSUME WellFormed(doc), NEW q, IsAPlace(q)
  PROVE  \A m \in 1 .. Len(q) : q[m] # 0
<1> DEFINE f == Front(q)
<1>1. /\ q \in Seq(Nat) /\ q # <<>> /\ IsPath(doc, f) /\ Last(q) # 0
      /\ f \in Seq(Nat) /\ Len(q) = Len(f) + 1 /\ \A m \in 1 .. Len(f) : f[m] = q[m]
  <2>1. q \in Seq(Nat) /\ q # <<>> /\ IsPath(doc, f) /\ Last(q) \in 1 .. Len(BodyAt(doc, f)) + 1
    BY DEF IsAPlace, IsPlace
  <2>2. f \in Seq(Nat)
    BY <2>1, PathEnds
  <2>3. Len(BodyAt(doc, f)) \in Nat
    BY <2>1, <2>2, BodyIsBody DEF IsBody, IsSequence
  <2>4. QED
    BY <2>1, <2>3, PathEnds
<1> HIDE DEF f
<1>2. ASSUME NEW m \in 1 .. Len(f)
      PROVE  f[m] # 0
  <2> DEFINE b == BodyAt(doc, SubSeq(f, 1, m - 1))
  <2>1. m \in DOMAIN f /\ m - 1 \in 0 .. Len(f)
    BY <1>1
  <2>2. f[m] \in DOMAIN b
    BY <1>1, <2>1 DEF IsPath
  <2>3. IsBody(b)
    BY <1>1, <2>1, PrefixIsPath, BodyIsBody
  <2>4. DOMAIN b = 1 .. Len(b) /\ Len(b) \in Nat
    BY <2>3 DEF IsBody, IsSequence
  <2>5. QED
    BY <2>2, <2>4
<1>3. q[Len(q)] # 0
  BY <1>1 DEF Last
<1>4. \A m \in 1 .. Len(q) : m \in 1 .. Len(f) \/ m = Len(q)
  BY <1>1
<1>5. QED
  BY <1>1, <1>2, <1>3, <1>4

\* A place in the block at c is at an item of it, or of a block in it, or behind its last item.
LEMMA PlaceInside ==
  ASSUME WellFormed(doc), NEW q, IsAPlace(q), NEW c \in Seq(Nat), Under(q, c), q # c
  PROVE  /\ IsPath(doc, c)
         /\ Len(q) > Len(c)
         /\ q[Len(c) + 1] \in 1 .. Len(BodyAt(doc, c)) + 1
         /\ q[Len(c) + 1] = Len(BodyAt(doc, c)) + 1 => q = Append(c, Len(BodyAt(doc, c)) + 1)
<1> DEFINE f == Front(q)
           k == Len(c)
           b == BodyAt(doc, c)
<1>1. /\ q \in Seq(Nat) /\ q # <<>> /\ IsPath(doc, f) /\ Last(q) \in 1 .. Len(BodyAt(doc, f)) + 1
      /\ f \in Seq(Nat) /\ Len(q) = Len(f) + 1 /\ \A m \in 1 .. Len(f) : f[m] = q[m]
  BY PathEnds DEF IsAPlace, IsPlace
<1>2. k < Len(q) /\ k \in 0 .. Len(f)
  <2>1. k <= Len(q) /\ k # Len(q)
    BY <1>1, UnderIsPrefix DEF Under
  <2>2. QED
    BY <1>1, <2>1
<1>3. Under(f, c)
  BY <1>1, <1>2 DEF Under
<1>4. SubSeq(f, 1, k) = c
  BY <1>1, <1>3, UnderIsPrefix
<1>5. IsPath(doc, c)
  BY <1>1, <1>2, <1>4, PrefixIsPath
<1>6. IsBody(b) /\ Len(b) \in Nat /\ DOMAIN b = 1 .. Len(b)
  BY <1>5, BodyIsBody DEF IsBody, IsSequence
<1> HIDE DEF f
<1>7. CASE Len(f) = k
  <2>1. f = c
    BY <1>1, <1>3, <1>7, UnderIsPrefix
  <2>2. q[k + 1] = Last(q) /\ q = Append(c, Last(q))
    BY <1>1, <1>7, <2>1, PathEnds DEF Last, f
  <2>3. QED
    BY <1>1, <1>2, <1>5, <2>1, <2>2
<1>8. CASE Len(f) # k
  <2>1. k + 1 \in 1 .. Len(f) /\ DOMAIN f = 1 .. Len(f) /\ (k + 1) - 1 = k
    BY <1>1, <1>2, <1>8
  <2>2. f[k + 1] \in DOMAIN b
    BY <1>1, <1>4, <2>1 DEF IsPath
  <2>3. q[k + 1] \in 1 .. Len(b)
    BY <1>1, <1>6, <2>1, <2>2
  <2> HIDE DEF b, k
  <2>4. q[k + 1] \in 1 .. Len(b) + 1 /\ q[k + 1] # Len(b) + 1
    BY <1>6, <2>3
  <2>5. QED
    BY <1>2, <1>5, <2>4 DEF k, b
<1>9. QED
  BY <1>7, <1>8

-----------------------------------------------------------------------------
(* What is wrong depends on the document and the rules alone. *)

LEMMA SameRules ==
  ASSUME doc' = doc, rules' = rules
  PROVE  \A p : RulesFor(p)' = RulesFor(p)
BY DEF RulesFor

LEMMA SameWrongs ==
  ASSUME doc' = doc, rules' = rules, strict' = strict
  PROVE  /\ \A q : StructureAt(q)' = StructureAt(q)
         /\ \A q, given : ValuesAt(q, given)' = ValuesAt(q, given)
<1>2. \A q : StructureAt(q)' = StructureAt(q)
  BY DEF StructureAt, StructureOf, Unregistered, RulesFor
<1>3. \A q, given : ValuesAt(q, given)' = ValuesAt(q, given)
  BY DEF ValuesAt, ValuesOf, RulesFor
<1>4. QED
  BY <1>2, <1>3

-----------------------------------------------------------------------------
(* The walk.  The invariant is stated of any calls and any result that may *)
(* be given, so that a step proves it of the calls it leaves.              *)

Calls     == [rule : Nat, i : Nat]
At(calls) == [n \in DOMAIN calls |-> calls[n].i]

\* The values of the document count where they are what is known of it.
Counts(root) == root = <<>> \/ IsFresh
IsRight(q, root) == StructureAt(q) = {} /\ (Counts(root) => ValuesAt(q, Given(root)) = {})

IsBeside(root, c) ==
  root # <<>> =>
    /\ IsPath(root[1], Front(c))
    /\ \A n \in 0 .. Len(c) - 1 : Len(BodyAt(root[1], SubSeq(c, 1, n))) = Len(BodyAt(doc, SubSeq(c, 1, n)))

IsWalk(calls, root) ==
  /\ calls \in Seq(Calls) /\ calls # <<>>
  /\ IsPlace(At(calls))
  /\ \A n \in 1 .. Len(calls) : RulesFor(SubSeq(At(calls), 1, n - 1)) = {calls[n].rule}
  /\ root \in {<<>>, result}
  /\ IsBeside(root, At(calls))
  /\ \A q : IsAPlace(q) /\ Before(q, At(calls)) => IsRight(q, root)

LEMMA FrontIs ==
  ASSUME NEW S, NEW s \in Seq(S), s # <<>>
  PROVE  /\ Front(s) \in Seq(S) /\ Len(s) \in Nat /\ Len(s) = Len(Front(s)) + 1
         /\ Last(s) \in S /\ Last(s) = s[Len(s)]
         /\ \A n \in 1 .. Len(Front(s)) : Front(s)[n] = s[n]
<1>1. Len(s) \in Nat /\ Len(s) # 0
  OBVIOUS
<1> DEFINE k == Len(s) - 1
<1>2. k \in 0 .. Len(s) /\ k + 1 = Len(s)
  BY <1>1
<1> HIDE DEF k
<1>3. SubSeq(s, 1, k) \in Seq(S) /\ Len(SubSeq(s, 1, k)) = k /\ \A n \in 1 .. k : SubSeq(s, 1, k)[n] = s[n]
  BY <1>2
<1>4. Front(s) = SubSeq(s, 1, k)
  BY DEF Front, k
<1>5. Last(s) = s[Len(s)] /\ Last(s) \in S
  BY <1>1 DEF Last
<1>6. QED
  BY <1>1, <1>2, <1>3, <1>4, <1>5

LEMMA AtIs ==
  ASSUME NEW calls \in Seq(Calls)
  PROVE  /\ At(calls) \in Seq(Nat) /\ Len(At(calls)) = Len(calls) /\ Len(calls) \in Nat
         /\ \A n \in 1 .. Len(calls) : At(calls)[n] = calls[n].i
<1>1. Len(calls) \in Nat /\ DOMAIN calls = 1 .. Len(calls) /\ \A n \in 1 .. Len(calls) : calls[n] \in Calls
  OBVIOUS
<1> DEFINE k == Len(calls)
           a == At(calls)
<1>2. a \in [1 .. k -> Nat] /\ k \in Nat /\ \A n \in 1 .. k : a[n] = calls[n].i
  BY <1>1 DEF At, Calls
<1> HIDE DEF a, k
<1>3. a \in Seq(Nat) /\ Len(a) = k
  BY <1>2
<1>4. QED
  BY <1>2, <1>3 DEF a, k

LEMMA AtFront ==
  ASSUME NEW calls \in Seq(Calls), calls # <<>>
  PROVE  At(Front(calls)) = Front(At(calls)) /\ Last(At(calls)) = Last(calls).i /\ At(calls) # <<>>
<1> DEFINE f == Front(calls)
           a == At(calls)
<1>1. f \in Seq(Calls) /\ Len(calls) = Len(f) + 1 /\ Len(f) \in Nat /\ \A n \in 1 .. Len(f) : f[n] = calls[n]
  BY FrontIs
<1>2. Last(calls) = calls[Len(calls)]
  BY DEF Last
<1>3. a \in Seq(Nat) /\ Len(a) = Len(calls) /\ \A n \in 1 .. Len(calls) : a[n] = calls[n].i
  BY AtIs
<1>4. a # <<>>
  BY <1>1, <1>3
<1>5. Front(a) \in Seq(Nat) /\ Len(a) = Len(Front(a)) + 1 /\ Last(a) = a[Len(a)] /\ \A n \in 1 .. Len(Front(a)) : Front(a)[n] = a[n]
  BY <1>3, <1>4, FrontIs
<1>6. At(f) \in Seq(Nat) /\ Len(At(f)) = Len(f) /\ \A n \in 1 .. Len(f) : At(f)[n] = f[n].i
  BY <1>1, AtIs
<1> HIDE DEF f, a
<1>7. Len(At(f)) = Len(Front(a)) /\ \A n \in 1 .. Len(At(f)) : At(f)[n] = Front(a)[n]
  <2>1. Len(Front(a)) \in Nat
    BY <1>5, SeqIsSequence DEF IsSequence
  <2>2. Len(Front(a)) = Len(f)
    BY <1>1, <1>3, <1>5, <2>1
  <2>3. ASSUME NEW n \in 1 .. Len(f)
        PROVE  At(f)[n] = Front(a)[n]
    <3>1. n \in 1 .. Len(calls) /\ n \in 1 .. Len(Front(a))
      BY <1>1, <2>2
    <3>2. At(f)[n] = calls[n].i
      BY <1>1, <1>6
    <3>3. Front(a)[n] = calls[n].i
      BY <1>3, <1>5, <3>1
    <3>4. QED
      BY <3>2, <3>3
  <2>4. QED
    BY <1>6, <2>2, <2>3
<1>8. At(f) = Front(a)
  BY <1>5, <1>6, <1>7, SameSequence
<1>9. Last(a) = calls[Len(calls)].i
  BY <1>1, <1>3, <1>5
<1>10. QED
  BY <1>2, <1>4, <1>8, <1>9 DEF f, a

LEMMA AtAppend ==
  ASSUME NEW calls \in Seq(Calls), NEW v \in Calls
  PROVE  Append(calls, v) \in Seq(Calls) /\ Append(calls, v) # <<>> /\ At(Append(calls, v)) = Append(At(calls), v.i)
<1> DEFINE b == Append(calls, v)
           a == At(calls)
<1>1. /\ b \in Seq(Calls) /\ Len(b) = Len(calls) + 1 /\ Len(calls) \in Nat /\ b[Len(calls) + 1] = v
      /\ \A n \in 1 .. Len(calls) : b[n] = calls[n]
  OBVIOUS
<1>2. a \in Seq(Nat) /\ Len(a) = Len(calls) /\ \A n \in 1 .. Len(calls) : a[n] = calls[n].i
  BY AtIs
<1> HIDE DEF a, b
<1>3. At(b) \in Seq(Nat) /\ Len(At(b)) = Len(b) /\ \A n \in 1 .. Len(b) : At(b)[n] = b[n].i
  BY <1>1, AtIs
<1>4. v.i \in Nat
  BY DEF Calls
<1>5. /\ Append(a, v.i) \in Seq(Nat) /\ Len(Append(a, v.i)) = Len(a) + 1
      /\ \A n \in 1 .. Len(a) : Append(a, v.i)[n] = a[n]
      /\ Append(a, v.i)[Len(a) + 1] = v.i
  BY <1>2, <1>4
<1>6. ASSUME NEW n \in 1 .. Len(At(b))
      PROVE  At(b)[n] = Append(a, v.i)[n]
  <2>1. n \in 1 .. Len(calls) \/ n = Len(calls) + 1
    BY <1>1, <1>3
  <2>2. QED
    BY <1>1, <1>2, <1>3, <1>5, <2>1
<1>7. At(b) = Append(a, v.i)
  BY <1>1, <1>2, <1>3, <1>5, <1>6, SameSequence
<1>8. b # <<>>
  BY <1>1
<1>9. QED
  BY <1>1, <1>7, <1>8 DEF a, b

\* The walk is the one invariant of a body and its place: what each step reads.
LEMMA Walked ==
  ASSUME WellFormed(doc), NEW calls, NEW root, IsWalk(calls, root), root # <<>> => WellFormed(root[1])
  PROVE  LET c    == At(calls)
             path == Front(c)
             body == BodyAt(doc, path)
             call == Last(calls)
         IN  /\ c \in Seq(Nat) /\ c # <<>> /\ Len(c) = Len(calls) /\ Len(c) \in Nat
             /\ path \in Seq(Nat) /\ Len(path) \in Nat /\ path = At(Front(calls)) /\ Len(c) = Len(path) + 1
             /\ SubSeq(c, 1, Len(path)) = path
             /\ call \in Calls /\ Last(c) = call.i /\ c = Append(path, call.i)
             /\ IsPath(doc, path) /\ IsBody(body) /\ Len(body) \in Nat /\ DOMAIN body = 1 .. Len(body)
             /\ call.i \in 1 .. Len(body) + 1
             /\ RulesFor(path) = {call.rule}
             /\ root # <<>> => /\ IsPath(root[1], path)
                               /\ IsBody(BodyAt(root[1], path))
                               /\ Len(BodyAt(root[1], path)) = Len(body)
                               /\ DOMAIN BodyAt(root[1], path) = 1 .. Len(body)
<1> DEFINE c    == At(calls)
           path == Front(c)
           body == BodyAt(doc, path)
           call == Last(calls)
<1>1. calls \in Seq(Calls) /\ calls # <<>> /\ IsPlace(c) /\ IsBeside(root, c)
      /\ \A n \in 1 .. Len(calls) : RulesFor(SubSeq(c, 1, n - 1)) = {calls[n].rule}
  BY DEF IsWalk
<1>2. c \in Seq(Nat) /\ Len(c) = Len(calls) /\ Len(c) \in Nat
  BY <1>1, AtIs
<1>3. c # <<>> /\ path = At(Front(calls)) /\ Last(c) = call.i
  BY <1>1, AtFront
<1>4. call \in Calls /\ call = calls[Len(calls)]
  BY <1>1, FrontIs
<1> HIDE DEF c
<1>5. path \in Seq(Nat) /\ c = Append(path, call.i) /\ Len(c) = Len(path) + 1 /\ Len(path) \in Nat
  <2>1. path \in Seq(Nat) /\ c = Append(path, call.i) /\ Len(c) = Len(path) + 1
    BY <1>2, <1>3, PathEnds
  <2>2. QED
    BY <2>1, SeqIsSequence DEF IsSequence
<1> HIDE DEF path, call
<1>6. SubSeq(c, 1, Len(path)) = path
  BY <1>2, <1>4, <1>5, PrefixOfAppend DEF Calls
<1>7. IsPath(doc, path) /\ call.i \in 1 .. Len(body) + 1
  BY <1>1, <1>3 DEF IsPlace, path
<1>8. IsBody(body) /\ Len(body) \in Nat /\ DOMAIN body = 1 .. Len(body)
  BY <1>5, <1>7, BodyIsBody DEF IsBody, IsSequence
<1>9. Len(path) \in Nat /\ Len(path) \in 0 .. Len(c) - 1 /\ Len(calls) \in 1 .. Len(calls) /\ Len(calls) - 1 = Len(path)
  BY <1>2, <1>5
<1>10. RulesFor(path) = {call.rule}
  BY <1>1, <1>4, <1>6, <1>9
<1>11. ASSUME root # <<>>
       PROVE  /\ IsPath(root[1], path)
              /\ IsBody(BodyAt(root[1], path))
              /\ Len(BodyAt(root[1], path)) = Len(body)
              /\ DOMAIN BodyAt(root[1], path) = 1 .. Len(body)
  <2>1. IsPath(root[1], path)
    BY <1>1, <1>11 DEF IsBeside, path
  <2>2. IsBody(BodyAt(root[1], path))
    BY <1>5, <1>11, <2>1, BodyIsBody
  <2>3. \A n \in 0 .. Len(c) - 1 : Len(BodyAt(root[1], SubSeq(c, 1, n))) = Len(BodyAt(doc, SubSeq(c, 1, n)))
    BY <1>1, <1>11 DEF IsBeside
  <2>4. Len(BodyAt(root[1], path)) = Len(body)
    BY <1>6, <1>9, <2>3
  <2>5. QED
    BY <2>1, <2>2, <2>4 DEF IsBody, IsSequence
<1>12. QED
  BY <1>2, <1>3, <1>4, <1>5, <1>6, <1>7, <1>8, <1>10, <1>11 DEF c, path, call

\* A call has the rule, the body and the result of the call below it, when it is left.
LEMMA FrontWalk ==
  ASSUME WellFormed(doc), NEW calls, NEW root, IsWalk(calls, root), root # <<>> => WellFormed(root[1]), Len(calls) # 1
  PROVE  IsWalk(Front(calls), root)
<1> DEFINE c == At(calls)
           d == Front(c)
           f == Front(calls)
           e == Front(d)
<1>1. /\ calls \in Seq(Calls) /\ calls # <<>> /\ root \in {<<>>, result} /\ IsBeside(root, c)
      /\ \A n \in 1 .. Len(calls) : RulesFor(SubSeq(c, 1, n - 1)) = {calls[n].rule}
      /\ \A q : IsAPlace(q) /\ Before(q, c) => IsRight(q, root)
  BY DEF IsWalk
<1>2. /\ c \in Seq(Nat) /\ Len(c) = Len(calls) /\ Len(c) \in Nat /\ d \in Seq(Nat) /\ d = At(f)
      /\ Len(c) = Len(d) + 1 /\ Len(d) \in Nat /\ IsPath(doc, d)
      /\ Last(calls) \in Calls /\ c = Append(d, Last(calls).i)
      /\ root # <<>> => IsPath(root[1], d)
  BY Walked
<1>3. f \in Seq(Calls) /\ Len(calls) = Len(f) + 1 /\ Len(f) \in Nat /\ \A n \in 1 .. Len(f) : f[n] = calls[n]
  BY <1>1, FrontIs
<1> HIDE DEF c, f
<1>4. d # <<>> /\ f # <<>>
  <2>1. Len(f) # 0
    BY <1>3
  <2>2. Len(d) # 0
    BY <1>2
  <2>3. QED
    BY <2>1, <2>2
<1> HIDE DEF d
<1>5. e \in Seq(Nat) /\ Last(d) \in Nat /\ d = Append(e, Last(d)) /\ Len(d) = Len(e) + 1
  BY <1>2, <1>4, PathEnds
<1> HIDE DEF e
<1>6. IsPath(doc, e) /\ Last(d) \in BlocksIn(BodyAt(doc, e))
  <2>1. IsPath(doc, Append(e, Last(d)))
    BY <1>2, <1>5
  <2>2. QED
    BY <1>5, <2>1, PathOfAppend
<1>7. IsPlace(d)
  <2>1. IsBody(BodyAt(doc, e))
    BY <1>5, <1>6, BodyIsBody
  <2>2. Last(d) \in 1 .. Len(BodyAt(doc, e)) + 1
    BY <1>6, <2>1 DEF IsBody, IsSequence, BlocksIn
  <2>3. QED
    BY <1>4, <1>6, <2>2 DEF IsPlace, e
<1>8. \A n \in 0 .. Len(d) : SubSeq(c, 1, n) = SubSeq(d, 1, n)
  BY <1>2, PrefixOfAppend DEF Calls
<1>9. \A n \in 1 .. Len(f) : RulesFor(SubSeq(d, 1, n - 1)) = {f[n].rule}
  <2>1. ASSUME NEW n \in 1 .. Len(f)
        PROVE  RulesFor(SubSeq(d, 1, n - 1)) = {f[n].rule}
    <3>1. n \in 1 .. Len(calls)
      BY <1>3
    <3>2. n - 1 \in 0 .. Len(d)
      BY <1>2, <3>1
    <3>3. QED
      BY <1>1, <1>3, <1>8, <3>1, <3>2
  <2>2. QED
    BY <2>1
<1>10. IsBeside(root, d)
  <2>1. SUFFICES ASSUME root # <<>>
                 PROVE  /\ IsPath(root[1], e)
                        /\ \A n \in 0 .. Len(d) - 1 : Len(BodyAt(root[1], SubSeq(d, 1, n))) = Len(BodyAt(doc, SubSeq(d, 1, n)))
    BY DEF IsBeside, e
  <2>2. IsPath(root[1], e)
    <3>1. IsPath(root[1], Append(e, Last(d)))
      BY <1>2, <1>5, <2>1
    <3>2. QED
      BY <1>5, <3>1, PathOfAppend
  <2>3. \A n \in 0 .. Len(c) - 1 : Len(BodyAt(root[1], SubSeq(c, 1, n))) = Len(BodyAt(doc, SubSeq(c, 1, n)))
    BY <1>1, <2>1 DEF IsBeside
  <2>4. ASSUME NEW n \in 0 .. Len(d) - 1
        PROVE  Len(BodyAt(root[1], SubSeq(d, 1, n))) = Len(BodyAt(doc, SubSeq(d, 1, n)))
    <3>1. n \in 0 .. Len(c) - 1 /\ n \in 0 .. Len(d)
      BY <1>2
    <3>2. QED
      BY <1>8, <2>3, <3>1
  <2>5. QED
    BY <2>2, <2>4
<1>11. ASSUME NEW q, IsAPlace(q), Before(q, d)
       PROVE  IsRight(q, root)
  <2>1. Before(q, c)
    BY <1>2, <1>11, BeforeInside DEF IsAPlace, Calls
  <2>2. QED
    BY <1>1, <1>11, <2>1
<1>12. QED
  BY <1>1, <1>2, <1>3, <1>4, <1>7, <1>9, <1>10, <1>11 DEF IsWalk, f

\* When everything at a place and in the block there is right, the walk goes on behind it.
LEMMA NextItemWalk ==
  ASSUME WellFormed(doc), NEW calls, NEW root, IsWalk(calls, root), root # <<>> => WellFormed(root[1]),
         Last(calls).i <= Len(BodyAt(doc, Front(At(calls)))),
         \A q : IsAPlace(q) /\ Under(q, At(calls)) => IsRight(q, root)
  PROVE  IsWalk(NextItem(calls), root)
<1> DEFINE c == At(calls)
           d == Front(c)
           f == Front(calls)
           i == Last(calls).i
           v == [Last(calls) EXCEPT !.i = @ + 1]
           t == Append(f, v)
           e == Append(d, i + 1)
<1>1. /\ calls \in Seq(Calls) /\ calls # <<>> /\ root \in {<<>>, result} /\ IsBeside(root, c)
      /\ \A n \in 1 .. Len(calls) : RulesFor(SubSeq(c, 1, n - 1)) = {calls[n].rule}
      /\ \A q : IsAPlace(q) /\ Before(q, c) => IsRight(q, root)
  BY DEF IsWalk
<1>2. /\ c \in Seq(Nat) /\ Len(c) = Len(calls) /\ Len(c) \in Nat /\ d \in Seq(Nat) /\ d = At(f)
      /\ Len(c) = Len(d) + 1 /\ Len(d) \in Nat /\ IsPath(doc, d) /\ Len(BodyAt(doc, d)) \in Nat
      /\ Last(calls) \in Calls /\ c = Append(d, i)
      /\ root # <<>> => IsPath(root[1], d)
  BY Walked
<1>3. /\ f \in Seq(Calls) /\ Len(calls) = Len(f) + 1 /\ Len(f) \in Nat /\ Last(calls) = calls[Len(calls)]
      /\ \A n \in 1 .. Len(f) : f[n] = calls[n]
  BY <1>1, FrontIs
<1>4. v \in Calls /\ v.i = i + 1 /\ v.rule = Last(calls).rule /\ i \in Nat
  BY <1>2 DEF Calls
<1>5. t \in Seq(Calls) /\ t # <<>> /\ At(t) = e
  BY <1>2, <1>3, <1>4, AtAppend
<1>6. Len(t) = Len(calls) /\ (\A n \in 1 .. Len(f) : t[n] = calls[n]) /\ t[Len(calls)] = v
  BY <1>3, <1>4
<1> HIDE DEF c, f, v, i, t
<1>7. Front(e) = d /\ Last(e) = i + 1 /\ e # <<>> /\ Len(e) = Len(c) /\ e \in Seq(Nat)
  BY <1>2, <1>4, PathIsEmptyOrNot, PrefixOfAppend
<1>8. IsPlace(e)
  <2>1. i + 1 \in 1 .. Len(BodyAt(doc, d)) + 1
    BY <1>2, <1>4 DEF i, c
  <2>2. QED
    BY <1>2, <1>7, <2>1 DEF IsPlace
<1>9. \A n \in 0 .. Len(d) : SubSeq(c, 1, n) = SubSeq(e, 1, n)
  <2>1. i + 1 \in Nat
    BY <1>4
  <2>2. \A j \in Nat : \A n \in 0 .. Len(d) : SubSeq(Append(d, j), 1, n) = SubSeq(d, 1, n)
    BY <1>2, PrefixOfAppend
  <2>3. \A n \in 0 .. Len(d) : SubSeq(e, 1, n) = SubSeq(d, 1, n)
    BY <2>1, <2>2
  <2>4. \A n \in 0 .. Len(d) : SubSeq(c, 1, n) = SubSeq(d, 1, n)
    BY <1>2, <1>4, <2>2
  <2>5. QED
    BY <2>3, <2>4
<1> HIDE DEF e
<1>10. ASSUME NEW n \in 1 .. Len(t)
       PROVE  RulesFor(SubSeq(e, 1, n - 1)) = {t[n].rule}
  <2>1. n \in 1 .. Len(calls) /\ n - 1 \in 0 .. Len(d)
    <3>1. n \in 1 .. Len(calls)
      BY <1>6
    <3>2. QED
      BY <1>2, <3>1
  <2>2. RulesFor(SubSeq(e, 1, n - 1)) = {calls[n].rule}
    BY <1>1, <1>9, <2>1
  <2>3. t[n].rule = calls[n].rule
    <3>1. CASE n \in 1 .. Len(f)
      BY <1>6, <3>1
    <3>2. CASE n \notin 1 .. Len(f)
      BY <1>3, <1>4, <1>6, <2>1, <3>2
    <3>3. QED
      BY <3>1, <3>2
  <2>4. QED
    BY <2>2, <2>3
<1>11. IsBeside(root, e)
  <2>1. SUFFICES ASSUME root # <<>>
                 PROVE  \A n \in 0 .. Len(e) - 1 : Len(BodyAt(root[1], SubSeq(e, 1, n))) = Len(BodyAt(doc, SubSeq(e, 1, n)))
    BY <1>2, <1>7 DEF IsBeside
  <2>2. \A n \in 0 .. Len(c) - 1 : Len(BodyAt(root[1], SubSeq(c, 1, n))) = Len(BodyAt(doc, SubSeq(c, 1, n)))
    BY <1>1, <2>1 DEF IsBeside
  <2>3. ASSUME NEW n \in 0 .. Len(e) - 1
        PROVE  Len(BodyAt(root[1], SubSeq(e, 1, n))) = Len(BodyAt(doc, SubSeq(e, 1, n)))
    <3>1. n \in 0 .. Len(c) - 1 /\ n \in 0 .. Len(d)
      BY <1>2, <1>7
    <3>2. QED
      BY <1>9, <2>2, <3>1
  <2>4. QED
    BY <2>3
<1>12. ASSUME NEW q, IsAPlace(q), Before(q, e)
       PROVE  IsRight(q, root)
  <2>1. Before(q, c) \/ Under(q, c)
    BY <1>2, <1>4, <1>12, BeforeNext DEF IsAPlace, e
  <2>2. QED
    BY <1>1, <1>12, <2>1 DEF c
<1>13. IsWalk(t, root)
  BY <1>1, <1>5, <1>8, <1>10, <1>11, <1>12 DEF IsWalk
<1>14. QED
  BY <1>13 DEF NextItem, t, f, v

\* Into a block that has a rule: nothing is before its first item but what was before it, and it.
LEMMA EnterWalk ==
  ASSUME WellFormed(doc), NEW calls, NEW root, IsWalk(calls, root), root # <<>> => WellFormed(root[1]),
         Last(calls).i \in BlocksIn(BodyAt(doc, Front(At(calls)))),
         NEW rule \in Nat, RulesFor(At(calls)) = {rule}, IsRight(At(calls), root),
         root # <<>> => /\ Last(calls).i \in BlocksIn(BodyAt(root[1], Front(At(calls))))
                        /\ Len(BodyAt(root[1], At(calls))) = Len(BodyAt(doc, At(calls)))
  PROVE  IsWalk(Append(calls, Visit(rule)), root)
<1> DEFINE c == At(calls)
           d == Front(c)
           v == Visit(rule)
           t == Append(calls, v)
           e == Append(c, 1)
<1>1. /\ calls \in Seq(Calls) /\ calls # <<>> /\ root \in {<<>>, result} /\ IsBeside(root, c)
      /\ \A n \in 1 .. Len(calls) : RulesFor(SubSeq(c, 1, n - 1)) = {calls[n].rule}
      /\ \A q : IsAPlace(q) /\ Before(q, c) => IsRight(q, root)
  BY DEF IsWalk
<1>2. /\ c \in Seq(Nat) /\ Len(c) = Len(calls) /\ Len(c) \in Nat /\ d \in Seq(Nat)
      /\ IsPath(doc, d) /\ Last(calls) \in Calls /\ c = Append(d, Last(calls).i)
      /\ root # <<>> => IsPath(root[1], d)
  BY Walked
<1>3. IsPath(doc, c) /\ (root # <<>> => IsPath(root[1], c))
  <2>1. Last(calls).i \in Nat
    BY <1>2 DEF Calls
  <2>2. \A r : IsPath(r, c) <=> IsPath(r, d) /\ Last(calls).i \in BlocksIn(BodyAt(r, d))
    BY <1>2, <2>1, PathOfAppend
  <2>3. QED
    BY <1>2, <2>2
<1>4. v \in Calls /\ v.i = 1 /\ v.rule = rule
  BY DEF Visit, Calls
<1>5. t \in Seq(Calls) /\ t # <<>> /\ At(t) = e
  BY <1>1, <1>4, AtAppend
<1>6. Len(t) = Len(calls) + 1 /\ (\A n \in 1 .. Len(calls) : t[n] = calls[n]) /\ t[Len(calls) + 1] = v
  BY <1>1, <1>4
<1>20. IsRight(c, root) /\ RulesFor(c) = {rule}
       /\ (root # <<>> => Len(BodyAt(root[1], c)) = Len(BodyAt(doc, c)))
  OBVIOUS
<1> HIDE DEF c, v, t
<1>7. Front(e) = c /\ Last(e) = 1 /\ e # <<>> /\ Len(e) = Len(c) + 1 /\ e \in Seq(Nat)
  BY <1>2, PathIsEmptyOrNot, PrefixOfAppend
<1>8. IsPlace(e)
  <2>1. Len(BodyAt(doc, c)) \in Nat
    BY <1>2, <1>3, BodyIsBody DEF IsBody, IsSequence
  <2>2. QED
    BY <1>3, <1>7, <2>1 DEF IsPlace
<1>9. (\A n \in 0 .. Len(c) : SubSeq(e, 1, n) = SubSeq(c, 1, n)) /\ SubSeq(e, 1, Len(c)) = c
  BY <1>2, PrefixOfAppend
<1> HIDE DEF e
<1>10. ASSUME NEW n \in 1 .. Len(t)
       PROVE  RulesFor(SubSeq(e, 1, n - 1)) = {t[n].rule}
  <2>1. CASE n \in 1 .. Len(calls)
    <3>1. n - 1 \in 0 .. Len(c)
      BY <1>2, <2>1
    <3>2. QED
      BY <1>1, <1>6, <1>9, <2>1, <3>1
  <2>2. CASE n \notin 1 .. Len(calls)
    <3>1. n = Len(calls) + 1 /\ n - 1 = Len(c)
      BY <1>2, <1>6, <2>2
    <3>2. QED
      BY <1>4, <1>6, <1>9, <1>20, <3>1
  <2>3. QED
    BY <2>1, <2>2
<1>11. IsBeside(root, e)
  <2>1. SUFFICES ASSUME root # <<>>
                 PROVE  \A n \in 0 .. Len(e) - 1 : Len(BodyAt(root[1], SubSeq(e, 1, n))) = Len(BodyAt(doc, SubSeq(e, 1, n)))
    BY <1>3, <1>7 DEF IsBeside
  <2>2. \A n \in 0 .. Len(c) - 1 : Len(BodyAt(root[1], SubSeq(c, 1, n))) = Len(BodyAt(doc, SubSeq(c, 1, n)))
    BY <1>1, <2>1 DEF IsBeside
  <2>3. ASSUME NEW n \in 0 .. Len(e) - 1
        PROVE  Len(BodyAt(root[1], SubSeq(e, 1, n))) = Len(BodyAt(doc, SubSeq(e, 1, n)))
    <3>1. CASE n = Len(c)
      BY <1>9, <1>20, <2>1, <3>1
    <3>2. CASE n # Len(c)
      <4>1. n \in 0 .. Len(c) - 1 /\ n \in 0 .. Len(c)
        BY <1>2, <1>7, <3>2
      <4>2. QED
        BY <1>9, <2>2, <4>1
    <3>3. QED
      BY <3>1, <3>2
  <2>4. QED
    BY <2>3
<1>12. ASSUME NEW q, IsAPlace(q), Before(q, e)
       PROVE  IsRight(q, root)
  <2>1. Before(q, c) \/ q = c
    BY <1>2, <1>12, BeforeFirst, PlaceNumbers DEF IsAPlace, e
  <2>2. QED
    BY <1>1, <1>12, <1>20, <2>1
<1>13. IsWalk(t, root)
  BY <1>1, <1>5, <1>8, <1>10, <1>11, <1>12 DEF IsWalk
<1>14. QED
  BY <1>13 DEF t, v

LEMMA FirstWalk ==
  ASSUME WellFormed(doc), NEW root \in {<<>>, result}, root # <<>> => Len(root[1]) = Len(doc)
  PROVE  IsWalk(<<Visit(1)>>, root)
<1> DEFINE t == <<Visit(1)>>
           e == Append(<<>>, 1)
<1>1. Visit(1) \in Calls /\ Visit(1).i = 1 /\ Visit(1).rule = 1
  BY DEF Visit, Calls
<1>2. <<>> \in Seq(Calls) /\ <<>> \in Seq(Nat) /\ t = Append(<<>>, Visit(1)) /\ Len(t) = 1 /\ t[1] = Visit(1)
  OBVIOUS
<1>3. At(<<>>) = <<>>
  <2>1. At(<<>>) \in Seq(Nat) /\ Len(At(<<>>)) = Len(<<>>)
    BY <1>2, AtIs
  <2>2. QED
    BY <2>1
<1>4. t \in Seq(Calls) /\ t # <<>> /\ At(t) = e
  BY <1>1, <1>2, <1>3, AtAppend
<1> HIDE DEF t
<1>5. Front(e) = <<>> /\ Last(e) = 1 /\ e # <<>> /\ Len(e) = 1 /\ e \in Seq(Nat) /\ SubSeq(e, 1, 0) = <<>>
  <2>1. e \in Seq(Nat) /\ Len(e) = 1 /\ SubSeq(e, 1, 0) = <<>>
    OBVIOUS
  <2>2. QED
    BY <1>2, <2>1, PathIsEmptyOrNot
<1> HIDE DEF e
<1>6. IsPath(doc, <<>>) /\ BodyAt(doc, <<>>) = doc /\ IsBody(doc) /\ Len(doc) \in Nat
      /\ (root # <<>> => IsPath(root[1], <<>>) /\ BodyAt(root[1], <<>>) = root[1])
  <2>1. IsBody(doc)
    BY DEF WellFormed, Closed
  <2>2. QED
    BY <2>1, PathOfEmpty, BodyOfEmpty DEF IsBody, IsSequence
<1>7. IsPlace(e)
  BY <1>5, <1>6 DEF IsPlace
<1>8. \A n \in 1 .. Len(t) : RulesFor(SubSeq(e, 1, n - 1)) = {t[n].rule}
  <2>1. \A n \in 1 .. Len(t) : n = 1
    BY <1>2 DEF t
  <2>2. t[1].rule = 1 /\ SubSeq(e, 1, 1 - 1) = <<>>
    BY <1>1, <1>2, <1>5 DEF t
  <2>3. QED
    BY <2>1, <2>2, RulesOfEmpty
<1>9. IsBeside(root, e)
  <2>1. \A n \in 0 .. Len(e) - 1 : n = 0
    BY <1>5
  <2>2. QED
    BY <1>5, <1>6, <2>1 DEF IsBeside
<1>10. ASSUME NEW q, IsAPlace(q), Before(q, e)
       PROVE  IsRight(q, root)
  <2>1. Before(q, <<>>) \/ q = <<>>
    BY <1>2, <1>10, BeforeFirst, PlaceNumbers DEF IsAPlace, e
  <2>2. DOMAIN <<>> = {}
    OBVIOUS
  <2>3. QED
    BY <1>10, <2>1, <2>2 DEF Before, IsAPlace, IsPlace
<1>11. QED
  BY <1>4, <1>7, <1>8, <1>9, <1>10 DEF IsWalk, t

\* A block that has no rule has no rules in it, however deep.
LEMMA NoRulesBelow ==
  ASSUME NEW p \in Seq(Nat), NEW c \in Seq(Nat), Under(p, c), RulesFor(c) = {}
  PROVE  RulesFor(p) = {}
<1> DEFINE S == {n \in Nat : Len(c) <= n /\ n <= Len(p) => RulesFor(SubSeq(p, 1, n)) = {}}
<1>1. SubSeq(p, 1, Len(c)) = c /\ Len(c) \in Nat /\ Len(p) \in Nat /\ Len(c) <= Len(p)
  BY UnderIsPrefix DEF Under
<1>2. 0 \in S
  <2>1. SUFFICES ASSUME Len(c) <= 0 PROVE RulesFor(SubSeq(p, 1, 0)) = {}
    OBVIOUS
  <2>2. Len(c) = 0
    BY <1>1, <2>1
  <2>3. QED
    BY <1>1, <2>2
<1>3. ASSUME NEW n \in Nat, n \in S
      PROVE  n + 1 \in S
  <2>1. SUFFICES ASSUME Len(c) <= n + 1, n + 1 <= Len(p) PROVE RulesFor(SubSeq(p, 1, n + 1)) = {}
    OBVIOUS
  <2>2. CASE Len(c) = n + 1
    BY <1>1, <2>2
  <2>3. CASE Len(c) # n + 1
    <3> DEFINE q == SubSeq(p, 1, n)
    <3>1. RulesFor(q) = {}
      <4>1. Len(c) \in Nat /\ Len(p) \in Nat
        BY <1>1
      <4>2. Len(c) <= n
        BY <2>1, <2>3, <4>1
      <4>3. n <= Len(p)
        BY <2>1, <4>1
      <4>4. QED
        BY <1>3, <4>2, <4>3
    <3>2. q \in Seq(Nat) /\ p[n + 1] \in Nat /\ SubSeq(p, 1, n + 1) = Append(q, p[n + 1])
      BY <2>1, PrefixMore
    <3> HIDE DEF q
    <3>3. RulesFor(Append(q, p[n + 1])) = {}
      BY <3>1, <3>2, RulesOfAppend
    <3>4. QED
      BY <3>2, <3>3
  <2>4. QED
    BY <2>2, <2>3
<1> HIDE DEF S
<1>4. Nat \subseteq S
  BY <1>2, <1>3, AllNaturals
<1>5. SubSeq(p, 1, Len(p)) = p
  OBVIOUS
<1>6. Len(p) \in S
  BY <1>1, <1>4
<1>7. RulesFor(SubSeq(p, 1, Len(p))) = {}
  BY <1>1, <1>6 DEF S
<1>8. QED
  BY <1>5, <1>7

\* The rules of a block are rules of the schema.
LEMMA RulesAreRules ==
  ASSUME NEW p \in Seq(Nat), p # <<>>
  PROVE  RulesFor(p) \subseteq DOMAIN rules
<1>1. p = Append(Front(p), Last(p)) /\ Front(p) \in Seq(Nat) /\ Last(p) \in Nat
  BY PathEnds
<1>2. RulesFor(Append(Front(p), Last(p))) \subseteq DOMAIN rules
  BY <1>1, RulesOfAppend
<1>3. QED
  BY <1>1, <1>2

-----------------------------------------------------------------------------
(* What a step of the walk decides is what is wrong at its place. *)

OnWalk == RulesInv /\ WellFormed(doc) /\ walk # <<>> /\ IsWalk(walk, eroot) /\ (eroot # <<>> => WellFormed(eroot[1]))

\* What Walked says of the walk itself, by the names the steps use.
LEMMA Here ==
  ASSUME OnWalk
  PROVE  /\ Position \in Seq(Nat) /\ Position # <<>> /\ Len(Position) = Len(walk) /\ Len(walk) \in Nat
         /\ Front(Position) = Path /\ Last(Position) = Now.i /\ Position = Append(Path, Now.i)
         /\ Path \in Seq(Nat) /\ Len(Position) = Len(Path) + 1 /\ Len(Path) \in Nat
         /\ IsPath(doc, Path) /\ IsBody(Body) /\ Len(Body) \in Nat /\ DOMAIN Body = 1 .. Len(Body)
         /\ Now.i \in 1 .. Len(Body) + 1 /\ Now.i \in Nat /\ Now.rule \in Nat /\ RulesFor(Path) = {Now.rule}
         /\ Position = At(walk) /\ IsAPlace(Position) /\ Now = Last(walk)
         /\ eroot # <<>> => /\ IsBody(Ebody(Path)[1])
                            /\ Len(Ebody(Path)[1]) = Len(Body)
                            /\ DOMAIN Ebody(Path)[1] = 1 .. Len(Body)
<1>1. Position = At(walk)
  BY DEF Position, At
<1>2. Path = Front(At(walk)) /\ Now = Last(walk) /\ Body = BodyAt(doc, Path)
  BY <1>1 DEF Path, Now, Body
<1>3. IsPlace(At(walk))
  BY DEF OnWalk, IsWalk
<1>4. Now \in Calls => Now.i \in Nat /\ Now.rule \in Nat
  BY DEF Calls
<1>5. eroot # <<>> => Ebody(Path)[1] = BodyAt(eroot[1], Path)
  BY DEF Ebody
<1>6. LET c    == At(walk)
          path == Front(c)
          body == BodyAt(doc, path)
          call == Last(walk)
      IN  /\ c \in Seq(Nat) /\ c # <<>> /\ Len(c) = Len(walk) /\ Len(c) \in Nat
          /\ path \in Seq(Nat) /\ Len(path) \in Nat /\ Len(c) = Len(path) + 1
          /\ call \in Calls /\ Last(c) = call.i /\ c = Append(path, call.i)
          /\ IsPath(doc, path) /\ IsBody(body) /\ Len(body) \in Nat /\ DOMAIN body = 1 .. Len(body)
          /\ call.i \in 1 .. Len(body) + 1
          /\ RulesFor(path) = {call.rule}
          /\ eroot # <<>> => /\ IsBody(BodyAt(eroot[1], path))
                             /\ Len(BodyAt(eroot[1], path)) = Len(body)
                             /\ DOMAIN BodyAt(eroot[1], path) = 1 .. Len(body)
  BY Walked DEF OnWalk
<1>7. IsAPlace(Position)
  BY <1>1, <1>3, <1>6 DEF IsAPlace
<1>8. QED
  BY <1>1, <1>2, <1>4, <1>5, <1>6, <1>7

LEMMA HereNumbers ==
  ASSUME OnWalk
  PROVE  /\ Len(walk) \in Nat /\ Len(Path) \in Nat /\ Len(walk) = Len(Path) + 1
         /\ Len(Body) \in Nat /\ Now.i \in 1 .. Len(Body) + 1
BY Here

LEMMA WrongHere ==
  ASSUME OnWalk, Len(walk) # 1
  PROVE  /\ StructureAt(Position) = StructureOf(Now.rule, Path, Now.i)
         /\ \A given : ValuesAt(Position, given) =
                         IF Now.i > Len(Body) \/ ~IsAttr(Body[Now.i]) THEN {}
                         ELSE ValuesOf(Now.rule, Body[Now.i], Position, given)
         /\ Now.rule \in DOMAIN rules /\ IsSequence(rules[Now.rule].attrs)
<1>1. Len(Position) # 1 /\ Front(Position) = Path /\ Last(Position) = Now.i /\ RulesFor(Path) = {Now.rule}
  BY Here
<1>2. StructureAt(Position) = UNION {StructureOf(r, Path, Now.i) : r \in {Now.rule}}
  BY <1>1 DEF StructureAt
<1>3. ASSUME NEW given
      PROVE  ValuesAt(Position, given) =
               IF Now.i > Len(Body) \/ ~IsAttr(Body[Now.i]) THEN {}
               ELSE ValuesOf(Now.rule, Body[Now.i], Position, given)
  <2>1. ValuesAt(Position, given) =
          IF Now.i > Len(Body) \/ ~IsAttr(Body[Now.i]) THEN {}
          ELSE UNION {ValuesOf(r, Body[Now.i], Position, given) : r \in {Now.rule}}
    BY <1>1 DEF ValuesAt, Body
  <2>2. QED
    BY <2>1
<1>4. Path # <<>> /\ Path \in Seq(Nat)
  BY <1>1, Here
<1>5. Now.rule \in DOMAIN rules
  BY <1>1, <1>4, RulesAreRules
<1>6. QED
  BY <1>2, <1>3, <1>5 DEF OnWalk, RulesInv, IsRules

\* The attribute rule of a name is the one that is found.
LEMMA AttrFound ==
  ASSUME RulesInv, NEW rule \in DOMAIN rules, NEW name
  PROVE  LET attrs == rules[rule].attrs
             found == FindAttr(rule, name)
         IN  /\ found = 0 => \A a \in Range(attrs) : a.name # name
             /\ found # 0 => /\ attrs[found] \in Range(attrs) /\ attrs[found].name = name
                             /\ \A a \in Range(attrs) : a.name = name => a = attrs[found]
<1> DEFINE attrs == rules[rule].attrs
           found == FindAttr(rule, name)
<1>1. IsSequence(attrs) /\ DOMAIN attrs = 1 .. Len(attrs) /\ Len(attrs) \in Nat
  BY DEF RulesInv, IsRules, IsSequence
<1>2. IsFirstIn(found, {i \in DOMAIN attrs : attrs[i].name = name})
  BY <1>1, AttrIs
<1>3. \A i, j \in DOMAIN attrs : attrs[i].name = attrs[j].name => i = j
  BY DEF RulesInv, RulesAreUnique
<1>4. Range(attrs) = {attrs[i] : i \in DOMAIN attrs}
  BY DEF Range
<1> HIDE DEF attrs, found
<1>5. CASE {i \in DOMAIN attrs : attrs[i].name = name} = {}
  BY <1>2, <1>4, <1>5 DEF IsFirstIn, attrs, found
<1>6. CASE {i \in DOMAIN attrs : attrs[i].name = name} # {}
  <2>1. found \in DOMAIN attrs /\ attrs[found].name = name
    BY <1>2, <1>6 DEF IsFirstIn
  <2>2. found # 0
    BY <1>1, <2>1
  <2>3. \A a \in Range(attrs) : a.name = name => a = attrs[found]
    BY <1>3, <1>4, <2>1
  <2>4. QED
    BY <1>4, <2>1, <2>2, <2>3 DEF attrs, found
<1>7. QED
  BY <1>5, <1>6

\* What the walk knows of a value is what is certain of it.
LEMMA KnownIsCertain ==
  ASSUME OnWalk, Counts(eroot)
  PROVE  Known = CertainValue(Given(eroot), Body[Now.i].value)
<1> DEFINE x == Body[Now.i].value
<1>1. CASE eroot = <<>>
  <2>1. Known = LiteralKind(x) /\ Given(eroot) = "document"
    BY <1>1 DEF Known, Given
  <2>2. LiteralKind(x) = CertainValue("document", x)
    BY DEF LiteralKind, CertainValue, ExprValue
  <2>3. QED
    BY <2>1, <2>2
<1>2. CASE eroot # <<>>
  <2>1. eroot = <<doc>> /\ eroot[1] = doc
    BY <1>2 DEF OnWalk, IsWalk, Counts, IsFresh
  <2>2. Ebody(Path)[1] = Body
    BY <1>2, <2>1 DEF Ebody, Body
  <2>3. QED
    BY <1>2, <2>2 DEF Known, Given, CertainValue
<1>3. QED
  BY <1>1, <1>2

LEMMA AttrChecked ==
  ASSUME OnWalk, Len(walk) # 1, Now.i <= Len(Body), Body[Now.i].item = "attr"
  PROVE  /\ AttrProblem = Fine => IsRight(Position, eroot)
         /\ AttrProblem # Fine => /\ AttrProblem.at = Position /\ AttrProblem.what \notin {"missing", "crash"}
                                  /\ Counts(eroot) => AttrProblem \in WrongAt(Position, Given(eroot))
<1> DEFINE name  == Body[Now.i].name
           attrs == rules[Now.rule].attrs
           found == FindAttr(Now.rule, name)
           rest(g) == ValuesAt(Position, g)
           twice == \E j \in 1 .. Now.i - 1 : IsAttr(Body[j]) /\ Body[j].name = name
           fault == ValueProblem(attrs[found], Known)
<1>1. /\ StructureAt(Position) = StructureOf(Now.rule, Path, Now.i)
      /\ \A given : ValuesAt(Position, given) = ValuesOf(Now.rule, Body[Now.i], Position, given)
      /\ Now.rule \in DOMAIN rules
  <2>1. ~(Now.i > Len(Body)) /\ IsAttr(Body[Now.i])
    BY Here DEF IsAttr
  <2>2. QED
    BY <2>1, WrongHere
<1>2. Position = Append(Path, Now.i) /\ Now.i \in Nat /\ Len(Body) \in Nat /\ Body = BodyAt(doc, Path)
  BY Here DEF Body
<1>3. /\ found = 0 => \A a \in Range(attrs) : a.name # name
      /\ found # 0 => /\ attrs[found] \in Range(attrs) /\ attrs[found].name = name
                      /\ \A a \in Range(attrs) : a.name = name => a = attrs[found]
  BY <1>1, AttrFound DEF OnWalk
<1>4. StructureOf(Now.rule, Path, Now.i) =
        When(\A a \in Range(attrs) : a.name # name, Problem("attribute not allowed", Position))
        \cup When(twice, Problem("duplicate", Position))
  <2>1. IsItem(Body, Now.i, "attr") /\ ~IsItem(Body, Now.i, "block") /\ ~(Now.i > Len(Body))
    BY <1>2 DEF IsItem
  <2>2. QED
    BY <1>2, <2>1 DEF StructureOf, When
<1>5. AttrProblem = IF found = 0 THEN Problem("attribute not allowed", Position)
                    ELSE IF twice THEN Problem("duplicate", Position)
                    ELSE IF fault = "" THEN Fine ELSE Problem(fault, Position)
  BY DEF AttrProblem
<1>6. fault \in {"", "type", "enum"}
  BY DEF ValueProblem
<1>7. Counts(eroot) =>
        \A w : w \in rest(Given(eroot)) <=>
                \E a \in Range(attrs) : /\ a.name = name /\ ValueProblem(a, Known) # ""
                                        /\ w = Problem(ValueProblem(a, Known), Position)
  <2> DEFINE certain == CertainValue(Given(eroot), Body[Now.i].value)
  <2>1. rest(Given(eroot)) = ValuesOf(Now.rule, Body[Now.i], Position, Given(eroot))
    BY <1>1
  <2>2. \A w : w \in ValuesOf(Now.rule, Body[Now.i], Position, Given(eroot)) <=>
                \E a \in Range(attrs) : /\ a.name = name /\ ValueProblem(a, certain) # ""
                                        /\ w = Problem(ValueProblem(a, certain), Position)
    BY DEF ValuesOf
  <2>3. Counts(eroot) => Known = certain
    BY KnownIsCertain
  <2> HIDE DEF certain, rest, attrs, name
  <2>4. QED
    BY <2>1, <2>2, <2>3
<1>20. \A w : w \in StructureAt(Position) \cup rest(Given(eroot)) <=> w \in WrongAt(Position, Given(eroot))
  BY DEF WrongAt
<1> HIDE DEF name, attrs, found, rest, twice, fault
<1>8. CASE found = 0
  <2>1. AttrProblem = Problem("attribute not allowed", Position)
    BY <1>5, <1>8
  <2>2. AttrProblem \in StructureAt(Position)
    BY <1>1, <1>3, <1>4, <1>8, <2>1 DEF When
  <2>3. QED
    BY <1>20, <2>1, <2>2 DEF Problem, Fine
<1>9. CASE found # 0 /\ twice
  <2>1. AttrProblem = Problem("duplicate", Position)
    BY <1>5, <1>9
  <2>2. AttrProblem \in StructureAt(Position)
    BY <1>1, <1>4, <1>9, <2>1 DEF When
  <2>3. QED
    BY <1>20, <2>1, <2>2 DEF Problem, Fine
<1>10. CASE found # 0 /\ ~twice /\ fault # ""
  <2>1. AttrProblem = Problem(fault, Position)
    BY <1>5, <1>10
  <2>2. Counts(eroot) => AttrProblem \in rest(Given(eroot))
    BY <1>3, <1>7, <1>10, <2>1 DEF fault
  <2>3. QED
    BY <1>6, <1>10, <1>20, <2>1, <2>2 DEF Problem, Fine
<1>11. CASE found # 0 /\ ~twice /\ fault = ""
  <2>1. AttrProblem = Fine
    BY <1>5, <1>11
  <2>2. StructureAt(Position) = {}
    BY <1>1, <1>3, <1>4, <1>11 DEF When
  <2>3. Counts(eroot) => rest(Given(eroot)) = {}
    BY <1>3, <1>7, <1>11 DEF fault
  <2>4. QED
    BY <2>1, <2>2, <2>3 DEF IsRight, rest
<1>12. QED
  BY <1>8, <1>9, <1>10, <1>11

\* The rule that is found is the one the types lead to.
LEMMA RuleFound ==
  ASSUME OnWalk, Now.i <= Len(Body)
  PROVE  LET rule == FindBlock(Now.rule, Body[Now.i].type)
         IN  /\ rule = 0 => RulesFor(Position) = {}
             /\ rule # 0 => rule \in Nat /\ RulesFor(Position) = {rule}
<1> DEFINE type == Body[Now.i].type
           rule == FindBlock(Now.rule, type)
           I    == {i \in DOMAIN rules : rules[i].parent = Now.rule /\ rules[i].type = type}
<1>1. Path \in Seq(Nat) /\ Now.i \in Nat /\ Position = Append(Path, Now.i) /\ RulesFor(Path) = {Now.rule}
  BY Here
<1>2. RulesFor(Position) = {r \in DOMAIN rules : rules[r].parent \in RulesFor(Path) /\ rules[r].type = type}
  BY <1>1, RulesOfAppend DEF Body
<1>3. \A r : r \in RulesFor(Position) <=> r \in I
  BY <1>1, <1>2
<1>4. IsSequence(rules) /\ DOMAIN rules = 1 .. Len(rules) /\ Len(rules) \in Nat
  BY DEF OnWalk, RulesInv, IsRules, IsSequence
<1>5. IsFirstIn(rule, I)
  BY <1>4, RuleIs
<1>6. \A i, j \in I : i = j
  BY DEF OnWalk, RulesInv, RulesAreUnique
<1>7. I \subseteq 1 .. Len(rules)
  BY <1>4
<1> HIDE DEF I, rule, type
<1>8. CASE I = {}
  BY <1>3, <1>5, <1>8 DEF IsFirstIn, rule, type
<1>9. CASE I # {}
  <2>1. rule \in I /\ rule \in Nat /\ rule # 0
    <3>1. rule \in I
      BY <1>5, <1>9 DEF IsFirstIn
    <3>2. rule \in 1 .. Len(rules)
      BY <1>7, <3>1
    <3>3. QED
      BY <1>4, <3>1, <3>2
  <2>2. RulesFor(Position) = {rule}
    BY <1>3, <1>6, <2>1
  <2>3. QED
    BY <2>1, <2>2 DEF rule, type
<1>10. QED
  BY <1>8, <1>9

LEMMA BlockRight ==
  ASSUME OnWalk, Now.i <= Len(Body), Body[Now.i].item = "block", RulesFor(Position) # {}
  PROVE  IsRight(Position, eroot)
<1>1. ~IsAttr(Body[Now.i]) /\ ~IsItem(Body, Now.i, "attr") /\ ~(Now.i > Len(Body)) /\ Body = BodyAt(doc, Path)
  BY Here DEF IsAttr, IsItem, Body
<1>2. Position = Append(Path, Now.i) /\ Front(Position) = Path /\ Last(Position) = Now.i /\ Len(Position) = Len(walk)
  BY Here
<1>3. CASE Len(walk) = 1
  <2>1. StructureAt(Position) = {}
    BY <1>2, <1>3 DEF StructureAt, Unregistered, When
  <2>2. \A given : ValuesAt(Position, given) = {}
    BY <1>2, <1>3 DEF ValuesAt
  <2>3. QED
    BY <2>1, <2>2 DEF IsRight
<1>4. CASE Len(walk) # 1
  <2>1. StructureOf(Now.rule, Path, Now.i) = {}
    BY <1>1, <1>2 DEF StructureOf, When
  <2>2. QED
    BY <1>1, <1>4, <2>1, WrongHere DEF IsRight
<1>5. QED
  BY <1>3, <1>4

LEMMA BlockWrong ==
  ASSUME OnWalk, Now.i <= Len(Body), Body[Now.i].item = "block", RulesFor(Position) = {}
  PROVE  /\ Len(walk) # 1 => Problem("block not allowed", Position) \in StructureAt(Position)
         /\ Len(walk) = 1 /\ strict => Problem("not registered", Position) \in StructureAt(Position)
         /\ Len(walk) = 1 /\ ~strict => \A q : IsAPlace(q) /\ Under(q, Position) => IsRight(q, eroot)
<1>1. IsItem(Body, Now.i, "block") /\ Body = BodyAt(doc, Path)
  BY DEF IsItem, Body
<1>2. /\ Position = Append(Path, Now.i) /\ Front(Position) = Path /\ Last(Position) = Now.i
      /\ Len(Position) = Len(walk) /\ Path \in Seq(Nat) /\ Position \in Seq(Nat)
  BY Here
<1>3. ASSUME Len(walk) # 1
      PROVE  Problem("block not allowed", Position) \in StructureAt(Position)
  <2>1. Problem("block not allowed", Position) \in StructureOf(Now.rule, Path, Now.i)
    BY <1>1, <1>2 DEF StructureOf, When
  <2>2. QED
    BY <1>3, <2>1, WrongHere
<1>4. ASSUME Len(walk) = 1
      PROVE  Body = doc
  <2>1. Len(Path) = 0
    BY <1>4, HereNumbers
  <2>2. Path = <<>>
    BY <1>2, <2>1
  <2>3. QED
    BY <1>1, <2>2, BodyOfEmpty
<1>5. ASSUME Len(walk) = 1, strict
      PROVE  Problem("not registered", Position) \in StructureAt(Position)
  <2>1. IsItem(doc, Last(Position), "block")
    BY <1>1, <1>2, <1>4, <1>5
  <2>2. QED
    BY <1>2, <1>5, <2>1 DEF StructureAt, Unregistered, When
<1>6. ASSUME Len(walk) = 1, ~strict, NEW q, IsAPlace(q), Under(q, Position)
      PROVE  IsRight(q, eroot)
  <2>1. CASE q = Position
    <3>1. StructureAt(q) = {}
      BY <1>2, <1>6, <2>1 DEF StructureAt, Unregistered, When
    <3>2. \A given : ValuesAt(q, given) = {}
      BY <1>2, <1>6, <2>1 DEF ValuesAt
    <3>3. QED
      BY <3>1, <3>2 DEF IsRight
  <2>2. CASE q # Position
    <3>1. q \in Seq(Nat) /\ q # <<>>
      BY <1>6 DEF IsAPlace, IsPlace
    <3>2. Len(q) \in Nat /\ Len(q) > Len(Position)
      <4>1. Len(q) > Len(Position)
        BY <1>2, <1>6, <2>2, PlaceInside DEF OnWalk
      <4>2. QED
        BY <3>1, <4>1
    <3>3. Front(q) \in Seq(Nat) /\ Len(q) = Len(Front(q)) + 1 /\ \A n \in 1 .. Len(Front(q)) : Front(q)[n] = q[n]
      BY <3>1, PathEnds
    <3>4. Under(Front(q), Position)
      <4>1. Len(Front(q)) \in Nat /\ Len(Position) \in Nat
        BY <3>3, Here, SeqIsSequence DEF IsSequence
      <4>2. Len(Position) <= Len(Front(q))
        BY <3>2, <3>3, <4>1
      <4>3. \A m \in 1 .. Len(Position) : Front(q)[m] = Position[m]
        BY <1>6, <3>3, <4>1, <4>2 DEF Under
      <4>4. QED
        BY <4>2, <4>3 DEF Under
    <3>5. RulesFor(Front(q)) = {}
      BY <1>2, <3>3, <3>4, NoRulesBelow
    <3>6. Len(q) # 1
      <4>1. Len(Position) = 1
        BY <1>2, <1>6
      <4>2. ASSUME NEW k \in Nat, NEW m, m = 1, k > m
            PROVE  k # 1
        BY <4>2
      <4>3. QED
        BY <3>2, <4>1, <4>2
    <3>7. StructureAt(q) = {}
      BY <3>5, <3>6 DEF StructureAt
    <3>8. \A given : ValuesAt(q, given) = {}
      BY <3>5 DEF ValuesAt
    <3>9. QED
      BY <3>7, <3>8 DEF IsRight
  <2>3. QED
    BY <2>1, <2>2
<1>7. QED
  BY <1>3, <1>5, <1>6

\* Nothing is in an attribute.
LEMMA AttrUnder ==
  ASSUME OnWalk, Now.i <= Len(Body), Body[Now.i].item = "attr", NEW q, IsAPlace(q), Under(q, Position)
  PROVE  q = Position
<1>1. SUFFICES ASSUME q # Position PROVE FALSE
  OBVIOUS
<1>2. Position = Append(Path, Now.i) /\ Path \in Seq(Nat) /\ Now.i \in Nat /\ Position \in Seq(Nat)
  BY Here
<1>3. IsPath(doc, Position)
  BY <1>1, <1>2, PlaceInside DEF OnWalk
<1>4. Now.i \in BlocksIn(Body)
  BY <1>2, <1>3, PathOfAppend DEF Body
<1>5. QED
  BY <1>4 DEF BlocksIn, IsBlock

\* Nothing is wrong with an attribute of the root, or behind the last item of it.
LEMMA RootRight ==
  ASSUME OnWalk, Len(walk) = 1, Now.i <= Len(Body) => Body[Now.i].item = "attr"
  PROVE  IsRight(Position, eroot)
<1>1. Len(Position) = 1 /\ Last(Position) = Now.i /\ Path \in Seq(Nat)
  BY Here
<1>2. Body = doc
  <2>1. Len(Path) = 0
    BY HereNumbers
  <2>2. Path = <<>>
    BY <1>1, <2>1
  <2>3. QED
    BY <2>2, BodyOfEmpty DEF Body
<1>3. ~IsItem(doc, Last(Position), "block")
  BY <1>1, <1>2 DEF IsItem
<1>4. StructureAt(Position) = {}
  BY <1>1, <1>3 DEF StructureAt, Unregistered, When
<1>5. \A given : ValuesAt(Position, given) = {}
  BY <1>1 DEF ValuesAt
<1>6. QED
  BY <1>4, <1>5 DEF IsRight

\* At the end of a block it is known whether it lacks an attribute.
LEMMA EndChecked ==
  ASSUME OnWalk, Len(walk) # 1, Now.i > Len(Body)
  PROVE  /\ Missing(Now.rule, Body) = 0 => IsRight(Position, eroot)
         /\ Missing(Now.rule, Body) # 0 => Problem("missing", Path) \in StructureAt(Position)
         /\ PlaceOf(Problem("missing", Path)) = Position
<1> DEFINE attrs == rules[Now.rule].attrs
           found == Missing(Now.rule, Body)
           lacks(a) == a.required /\ \A k \in DOMAIN Body : IsAttr(Body[k]) => Body[k].name # a.name
<1>1. /\ StructureAt(Position) = StructureOf(Now.rule, Path, Now.i)
      /\ \A given : ValuesAt(Position, given) = {}
      /\ IsSequence(attrs)
  BY WrongHere
<1>2. /\ Position = Append(Path, Now.i) /\ Body = BodyAt(doc, Path) /\ Now.i = Len(Body) + 1
      /\ IsBody(Body) /\ Len(Body) \in Nat /\ DOMAIN Body = 1 .. Len(Body)
  <2>1. Position = Append(Path, Now.i) /\ IsBody(Body) /\ DOMAIN Body = 1 .. Len(Body)
    BY Here
  <2>2. Len(Body) \in Nat /\ Now.i = Len(Body) + 1
    BY HereNumbers
  <2>3. QED
    BY <2>1, <2>2 DEF Body
<1>3. StructureOf(Now.rule, Path, Now.i) = When(\E a \in Range(attrs) : lacks(a), Problem("missing", Path))
  <2>1. ~IsItem(Body, Now.i, "attr") /\ ~IsItem(Body, Now.i, "block")
    BY <1>2 DEF IsItem
  <2>2. QED
    BY <1>2, <2>1 DEF StructureOf, When
<1>4. ASSUME NEW name
      PROVE  AttrAt(Body, name) = 0 <=> \A k \in DOMAIN Body : IsAttr(Body[k]) => Body[k].name # name
  <2> DEFINE I == {i \in DOMAIN Body : IsAttr(Body[i]) /\ Body[i].name = name}
  <2>1. IsFirstIn(AttrAt(Body, name), I)
    BY <1>2, AttrAtIs DEF IsBody
  <2>2. I \subseteq 1 .. Len(Body)
    BY <1>2
  <2>3. AttrAt(Body, name) = 0 <=> I = {}
    BY <1>2, <2>1, <2>2 DEF IsFirstIn
  <2>4. QED
    BY <2>3
<1>5. found = 0 <=> ~\E a \in Range(attrs) : lacks(a)
  <2> DEFINE I == {i \in DOMAIN attrs : attrs[i].required /\ AttrAt(Body, attrs[i].name) = 0}
  <2>1. IsFirstIn(found, I)
    BY <1>1, MissingIs
  <2>2. I \subseteq 1 .. Len(attrs) /\ Len(attrs) \in Nat
    BY <1>1 DEF IsSequence
  <2>3. found = 0 <=> I = {}
    BY <2>1, <2>2 DEF IsFirstIn
  <2>4. \A i \in DOMAIN attrs : i \in I <=> lacks(attrs[i])
    BY <1>4
  <2>5. Range(attrs) = {attrs[i] : i \in DOMAIN attrs}
    BY DEF Range
  <2> HIDE DEF found, lacks
  <2>6. QED
    BY <2>3, <2>4, <2>5
<1>6. PlaceOf(Problem("missing", Path)) = Position
  BY <1>2 DEF PlaceOf, Problem
<1>7. QED
  BY <1>1, <1>3, <1>5, <1>6 DEF IsRight, When

\* Behind the last item of a block that is right, the block is right.
LEMMA LeaveRight ==
  ASSUME OnWalk, Now.i > Len(Body), IsRight(Position, eroot), NEW q, IsAPlace(q), Under(q, Path)
  PROVE  IsRight(q, eroot)
<1>1. /\ Position = Append(Path, Now.i) /\ Body = BodyAt(doc, Path) /\ Now.i = Len(Body) + 1
      /\ Path \in Seq(Nat) /\ Now.i \in Nat /\ Len(Body) \in Nat /\ Position = At(walk)
  BY Here DEF Body
<1>2. q = Position \/ Before(q, Position)
  <2>1. CASE q = Path
    <3>1. Len(q) > Len(Path) => q[Len(Path) + 1] < Now.i
      BY <1>1, <2>1
    <3>2. QED
      BY <1>1, <3>1, BeforeLast DEF IsAPlace
  <2>2. CASE q # Path
    <3>1. /\ q[Len(Path) + 1] \in 1 .. Len(Body) + 1
          /\ q[Len(Path) + 1] = Len(Body) + 1 => q = Position
      BY <1>1, <2>2, PlaceInside DEF OnWalk
    <3>2. CASE q[Len(Path) + 1] = Len(Body) + 1
      BY <3>1, <3>2
    <3>3. CASE q[Len(Path) + 1] # Len(Body) + 1
      <4>1. q[Len(Path) + 1] < Now.i
        BY <1>1, <3>1, <3>3
      <4>2. QED
        BY <1>1, <4>1, BeforeLast DEF IsAPlace
    <3>4. QED
      BY <3>2, <3>3
  <2>3. QED
    BY <2>1, <2>2
<1>3. Before(q, Position) => IsRight(q, eroot)
  BY <1>1 DEF OnWalk, IsWalk
<1>4. QED
  BY <1>2, <1>3

\* The result has an item beside each, and the same when it is of this document.
LEMMA Beside ==
  ASSUME OnWalk, Now.i <= Len(Body)
  PROVE  /\ Misfit # Crash /\ Misfit # Fine
         /\ Counts(eroot) => Fits /\ SameShape(BodyAt(doc, Position), Ebody(Position))
         /\ Fits /\ eroot # <<>> /\ Body[Now.i].item = "block" => Now.i \in BlocksIn(BodyAt(eroot[1], Path))
<1>1. Now.i \in 1 .. Len(Body) /\ (eroot # <<>> => DOMAIN Ebody(Path)[1] = 1 .. Len(Body))
  BY Here
<1>2. ~IsPastTheEnd
  BY <1>1 DEF IsPastTheEnd
<1>3. Misfit = Problem("result", Path)
  BY <1>2 DEF Misfit
<1>4. Counts(eroot) => Fits /\ SameShape(BodyAt(doc, Position), Ebody(Position))
  <2>1. CASE eroot = <<>>
    BY <2>1 DEF Fits, SameShape, Ebody
  <2>2. CASE eroot # <<>> /\ Counts(eroot)
    <3>1. eroot = <<doc>> /\ eroot[1] = doc
      BY <2>2 DEF OnWalk, IsWalk, Counts, IsFresh
    <3>2. \A p : Ebody(p)[1] = BodyAt(doc, p)
      BY <2>2, <3>1 DEF Ebody
    <3>3. QED
      BY <1>2, <3>2 DEF Fits, SameShape, Body
  <2>3. QED
    BY <2>1, <2>2
<1>5. eroot # <<>> => Ebody(Path)[1] = BodyAt(eroot[1], Path)
  BY DEF Ebody
<1>6. QED
  BY <1>1, <1>3, <1>4, <1>5 DEF Fits, BlocksIn, IsBlock, Problem, Crash, Fine

-----------------------------------------------------------------------------
(* The invariant *)

\* As IsFirstOf, of all places however deep.
FirstIsFound(problem, given) ==
  IF problem = Fine THEN \A q : IsAPlace(q) => WrongAt(q, given) = {}
  ELSE /\ IsAPlace(PlaceOf(problem))
       /\ problem \in WrongAt(PlaceOf(problem), given)
       /\ \A q : IsAPlace(q) /\ Before(q, PlaceOf(problem)) => WrongAt(q, given) = {}

VerdictIs(v) ==
  /\ v = [document |-> v["document"], result |-> v["result"]]
  /\ v["document"] # NotValidated => FirstIsFound(v["document"], "document")
  /\ v["result"] # NotValidated /\ IsFresh => FirstIsFound(v["result"], "result")
  /\ v["result"] # Crash
  /\ v["result"] = Fine => \A q : IsAPlace(q) => StructureAt(q) = {}

IInv ==
  /\ RulesInv
  /\ WellFormed(doc)
  /\ result # <<>> => WellFormed(result[1])
  /\ VerdictIs(verdict)
  /\ walk # <<>> => IsWalk(walk, eroot)

Still == UNCHANGED <<docVars, rulesVars>>

LEMMA SameFirst ==
  ASSUME doc' = doc, rules' = rules, strict' = strict
  PROVE  \A problem, given : FirstIsFound(problem, given)' <=> FirstIsFound(problem, given)
<1>1. /\ \A q : StructureAt(q)' = StructureAt(q)
      /\ \A q, given : ValuesAt(q, given)' = ValuesAt(q, given)
  BY SameWrongs
<1>2. \A q, given : WrongAt(q, given)' = WrongAt(q, given)
  BY <1>1 DEF WrongAt
<1>3. \A q : IsAPlace(q)' <=> IsAPlace(q)
  BY DEF IsAPlace, IsPlace
<1>4. \A problem : PlaceOf(problem)' = PlaceOf(problem)
  BY DEF PlaceOf
<1>5. QED
  BY <1>2, <1>3, <1>4 DEF FirstIsFound

LEMMA SameVerdict ==
  ASSUME Still
  PROVE  \A v : VerdictIs(v)' <=> VerdictIs(v)
<1>1. doc' = doc /\ result' = result /\ rules' = rules /\ strict' = strict
  BY DEF Still, docVars, rulesVars
<1>2. \A problem, given : FirstIsFound(problem, given)' <=> FirstIsFound(problem, given)
  BY <1>1, SameFirst
<1>3. \A q : StructureAt(q)' = StructureAt(q)
  BY <1>1, SameWrongs
<1>4. \A q : IsAPlace(q)' <=> IsAPlace(q)
  BY <1>1 DEF IsAPlace, IsPlace
<1>5. QED
  BY <1>1, <1>2, <1>3, <1>4 DEF VerdictIs, NotValidated, Crash, Fine, Problem, IsFresh

LEMMA SameWalk ==
  ASSUME Still
  PROVE  \A calls, root : IsWalk(calls, root)' <=> IsWalk(calls, root)
<1>1. doc' = doc /\ result' = result /\ rules' = rules /\ strict' = strict
  BY DEF Still, docVars, rulesVars
<1>2. \A p : RulesFor(p)' = RulesFor(p)
  BY <1>1, SameRules
<1>3. /\ \A q : StructureAt(q)' = StructureAt(q)
      /\ \A q, given : ValuesAt(q, given)' = ValuesAt(q, given)
  BY <1>1, SameWrongs
<1>4. \A q, root : IsRight(q, root)' <=> IsRight(q, root)
  BY <1>1, <1>3 DEF IsRight, Counts, IsFresh, Given
<1>5. \A q : IsPlace(q)' <=> IsPlace(q)
  BY <1>1 DEF IsPlace
<1>6. \A q : IsAPlace(q)' <=> IsAPlace(q)
  BY <1>5 DEF IsAPlace
<1>7. \A root, c : IsBeside(root, c)' <=> IsBeside(root, c)
  BY <1>1 DEF IsBeside
<1>8. QED
  BY <1>1, <1>2, <1>4, <1>5, <1>6, <1>7 DEF IsWalk, At, Calls

LEMMA InWalk ==
  ASSUME IInv, walk # <<>>
  PROVE  OnWalk /\ Position = At(walk)
<1>1. eroot \in {<<>>, result}
  BY DEF IInv, IsWalk
<1>2. OnWalk
  BY <1>1 DEF IInv, OnWalk
<1>3. QED
  BY <1>2, Here

\* A step that goes on.
LEMMA Continued ==
  ASSUME IInv, Still, NEW calls, NEW root, IsWalk(calls, root), walk' = calls, eroot' = root, verdict' = verdict
  PROVE  IInv'
<1>1. doc' = doc /\ result' = result /\ rules' = rules
  BY DEF Still, docVars, rulesVars
<1>2. RulesInv'
  BY <1>1, RulesKept DEF IInv
<1>3. VerdictIs(verdict)'
  BY SameVerdict DEF IInv
<1>4. IsWalk(walk, eroot)'
  BY SameWalk
<1>5. QED
  BY <1>1, <1>2, <1>3, <1>4 DEF IInv

\* A step that ends the validation.
LEMMA Ended ==
  ASSUME IInv, Still, NEW root, NEW problem, walk' = <<>>,
         verdict' = [verdict EXCEPT ![Given(root)] = problem],
         root = <<>> \/ IsFresh => FirstIsFound(problem, Given(root)),
         problem # Crash,
         problem = Fine => \A q : IsAPlace(q) => StructureAt(q) = {}
  PROVE  IInv'
<1> DEFINE v == [verdict EXCEPT ![Given(root)] = problem]
<1>1. doc' = doc /\ result' = result /\ rules' = rules
  BY DEF Still, docVars, rulesVars
<1>2. RulesInv'
  BY <1>1, RulesKept DEF IInv
<1>3. VerdictIs(v)
  <2>1. verdict = [document |-> verdict["document"], result |-> verdict["result"]]
    BY DEF IInv, VerdictIs
  <2>2. CASE root = <<>>
    <3>1. Given(root) = "document"
      BY <2>2 DEF Given
    <3>2. v = [document |-> problem, result |-> verdict["result"]]
      <4>1. PICK x, y : verdict = [document |-> x, result |-> y]
        BY <2>1
      <4>2. verdict["result"] = y
        BY <4>1
      <4>3. v = [[document |-> x, result |-> y] EXCEPT !["document"] = problem]
        BY <3>1, <4>1
      <4>4. [[document |-> x, result |-> y] EXCEPT !["document"] = problem] = [document |-> problem, result |-> y]
        OBVIOUS
      <4>5. QED
        BY <4>2, <4>3, <4>4
    <3>3. v["document"] = problem /\ v["result"] = verdict["result"]
      BY <3>2
    <3> HIDE DEF v
    <3>4. FirstIsFound(problem, "document")
      BY <2>2, <3>1
    <3>5. QED
      BY <3>2, <3>3, <3>4 DEF IInv, VerdictIs
  <2>3. CASE root # <<>>
    <3>1. Given(root) = "result"
      BY <2>3 DEF Given
    <3>2. v = [document |-> verdict["document"], result |-> problem]
      <4>1. PICK x, y : verdict = [document |-> x, result |-> y]
        BY <2>1
      <4>2. verdict["document"] = x
        BY <4>1
      <4>3. v = [[document |-> x, result |-> y] EXCEPT !["result"] = problem]
        BY <3>1, <4>1
      <4>4. [[document |-> x, result |-> y] EXCEPT !["result"] = problem] = [document |-> x, result |-> problem]
        OBVIOUS
      <4>5. QED
        BY <4>2, <4>3, <4>4
    <3>3. v["document"] = verdict["document"] /\ v["result"] = problem
      BY <3>2
    <3> HIDE DEF v
    <3>4. IsFresh => FirstIsFound(problem, "result")
      BY <2>3, <3>1
    <3>5. QED
      BY <3>2, <3>3, <3>4 DEF IInv, VerdictIs
  <2>4. QED
    BY <2>2, <2>3
<1>4. VerdictIs(verdict)'
  BY <1>3, SameVerdict
<1>5. QED
  BY <1>1, <1>2, <1>4 DEF IInv

\* A problem that is reported is at the place of the walk, where all that is before it is right.
LEMMA Reported ==
  ASSUME IInv, walk # <<>>, Still, NEW problem, Return(problem), problem # Crash, problem # Fine,
         Counts(eroot) => problem \in WrongAt(Position, Given(eroot)) /\ PlaceOf(problem) = Position
  PROVE  IInv'
<1>1. OnWalk /\ Position = At(walk)
  BY InWalk
<1>2. IsAPlace(Position)
  BY <1>1, Here
<1>3. \A q : IsAPlace(q) /\ Before(q, Position) => IsRight(q, eroot)
  BY <1>1 DEF IInv, IsWalk
<1>4. Counts(eroot) => FirstIsFound(problem, Given(eroot))
  BY <1>2, <1>3 DEF FirstIsFound, IsRight, WrongAt
<1>5. QED
  BY <1>4, Ended DEF Return, Counts

LEMMA PassAttrStep ==
  ASSUME IInv, PassAttr
  PROVE  IInv'
<1>1. /\ walk # <<>> /\ Still /\ Now.i <= Len(Body) /\ Body[Now.i].item = "attr" /\ Len(walk) = 1
      /\ walk' = NextItem(walk) /\ eroot' = eroot /\ verdict' = verdict
  BY DEF PassAttr, IsAtA, Walking, IsOfRoot, Continue, Still
<1>2. OnWalk /\ Position = At(walk)
  BY <1>1, InWalk
<1>3. IsRight(Position, eroot)
  BY <1>1, <1>2, RootRight
<1>4. \A q : IsAPlace(q) /\ Under(q, Position) => IsRight(q, eroot)
  BY <1>1, <1>2, <1>3, AttrUnder
<1>5. Last(walk).i <= Len(BodyAt(doc, Front(At(walk))))
  BY <1>1, <1>2 DEF Now, Body, Path
<1>6. IsWalk(NextItem(walk), eroot)
  BY <1>2, <1>4, <1>5, NextItemWalk DEF OnWalk
<1>7. QED
  BY <1>1, <1>6, Continued

LEMMA CheckAttrStep ==
  ASSUME IInv, CheckAttr
  PROVE  IInv'
<1>1. /\ walk # <<>> /\ Still /\ Now.i <= Len(Body) /\ Body[Now.i].item = "attr" /\ Len(walk) # 1
      /\ IF ~Fits THEN Return(Misfit)
         ELSE IF AttrProblem # Fine THEN Return(AttrProblem)
         ELSE Continue(NextItem(walk))
  BY DEF CheckAttr, IsAtA, Walking, IsOfRoot, Still
<1>2. OnWalk /\ Position = At(walk)
  BY <1>1, InWalk
<1>3. Misfit # Crash /\ Misfit # Fine /\ (Counts(eroot) => Fits)
  BY <1>1, <1>2, Beside
<1>4. /\ AttrProblem = Fine => IsRight(Position, eroot)
      /\ AttrProblem # Fine => /\ AttrProblem.at = Position /\ AttrProblem.what \notin {"missing", "crash"}
                               /\ Counts(eroot) => AttrProblem \in WrongAt(Position, Given(eroot))
  BY <1>1, <1>2, AttrChecked
<1>5. CASE ~Fits
  BY <1>1, <1>3, <1>5, Reported
<1>6. CASE Fits /\ AttrProblem # Fine
  <2>1. AttrProblem # Crash /\ PlaceOf(AttrProblem) = Position
    BY <1>4, <1>6 DEF Crash, Problem, PlaceOf
  <2>2. QED
    BY <1>1, <1>4, <1>6, <2>1, Reported
<1>7. CASE Fits /\ AttrProblem = Fine
  <2>1. walk' = NextItem(walk) /\ eroot' = eroot /\ verdict' = verdict
    BY <1>1, <1>7 DEF Continue
  <2>2. \A q : IsAPlace(q) /\ Under(q, Position) => IsRight(q, eroot)
    BY <1>1, <1>2, <1>4, <1>7, AttrUnder
  <2>3. Last(walk).i <= Len(BodyAt(doc, Front(At(walk))))
    BY <1>1, <1>2 DEF Now, Body, Path
  <2>4. IsWalk(NextItem(walk), eroot)
    BY <1>2, <2>2, <2>3, NextItemWalk DEF OnWalk
  <2>5. QED
    BY <1>1, <2>1, <2>4, Continued
<1>8. QED
  BY <1>5, <1>6, <1>7

LEMMA CheckBlockStep ==
  ASSUME IInv, CheckBlock
  PROVE  IInv'
<1> DEFINE rule == FindBlock(Now.rule, Body[Now.i].type)
<1>1. /\ walk # <<>> /\ Still /\ Now.i <= Len(Body) /\ Body[Now.i].item = "block"
      /\ IF ~Fits THEN Return(Misfit)
         ELSE IF rule # 0 THEN EnterBlock(rule)
         ELSE IF Len(walk) # 1 THEN Return(Problem("block not allowed", Position))
         ELSE IF strict THEN Return(Problem("not registered", Position))
         ELSE Continue(NextItem(walk))
  BY DEF CheckBlock, IsAtA, Walking, IsOfRoot, Still
<1>2. OnWalk /\ Position = At(walk) /\ Now = Last(walk) /\ Path = Front(At(walk)) /\ Body = BodyAt(doc, Path)
  BY <1>1, InWalk DEF Now, Path, Body
<1>3. /\ Misfit # Crash /\ Misfit # Fine
      /\ Counts(eroot) => Fits /\ SameShape(BodyAt(doc, Position), Ebody(Position))
      /\ Fits /\ eroot # <<>> => Now.i \in BlocksIn(BodyAt(eroot[1], Path))
  BY <1>1, <1>2, Beside
<1>4. /\ rule = 0 => RulesFor(Position) = {}
      /\ rule # 0 => rule \in Nat /\ RulesFor(Position) = {rule}
  BY <1>1, <1>2, RuleFound
<1> HIDE DEF rule
<1>5. CASE ~Fits
  BY <1>1, <1>3, <1>5, Reported
<1>6. CASE Fits /\ rule # 0 /\ ~SameShape(BodyAt(doc, Position), Ebody(Position))
  <2>1. Return(Problem("result", Position))
    BY <1>1, <1>6 DEF EnterBlock
  <2>2. Problem("result", Position) # Crash /\ Problem("result", Position) # Fine
    BY DEF Problem, Crash, Fine
  <2>3. QED
    BY <1>1, <1>3, <1>6, <2>1, <2>2, Reported
<1>7. CASE Fits /\ rule # 0 /\ SameShape(BodyAt(doc, Position), Ebody(Position))
  <2>1. walk' = Append(walk, Visit(rule)) /\ eroot' = eroot /\ verdict' = verdict
    BY <1>1, <1>7 DEF EnterBlock, Continue
  <2>2. IsRight(Position, eroot)
    BY <1>1, <1>2, <1>4, <1>7, BlockRight
  <2>3. Now.i \in BlocksIn(Body)
    <3>1. Now.i \in Nat /\ Now.i \in 1 .. Len(Body) + 1 /\ DOMAIN Body = 1 .. Len(Body) /\ Len(Body) \in Nat
      BY <1>2, Here
    <3>2. Now.i <= Len(Body)
      BY <1>1
    <3>3. \A i, n \in Nat : i \in 1 .. n + 1 /\ i <= n => i \in 1 .. n
      OBVIOUS
    <3>4. Now.i \in DOMAIN Body
      BY <3>1, <3>2, <3>3
    <3>5. QED
      BY <1>1, <3>4 DEF BlocksIn, IsBlock
  <2>4. eroot # <<>> => Len(BodyAt(eroot[1], Position)) = Len(BodyAt(doc, Position))
    BY <1>7 DEF SameShape, Ebody
  <2>5. IsWalk(Append(walk, Visit(rule)), eroot)
    BY <1>2, <1>3, <1>4, <1>7, <2>2, <2>3, <2>4, EnterWalk DEF OnWalk
  <2>6. QED
    BY <1>1, <2>1, <2>5, Continued
<1>8. CASE Fits /\ rule = 0 /\ Len(walk) # 1
  <2> DEFINE problem == Problem("block not allowed", Position)
  <2>1. problem \in StructureAt(Position)
    BY <1>1, <1>2, <1>4, <1>8, BlockWrong
  <2>2. problem # Crash /\ problem # Fine /\ PlaceOf(problem) = Position
    BY DEF Problem, Crash, Fine, PlaceOf
  <2>3. Return(problem)
    BY <1>1, <1>8
  <2> HIDE DEF problem
  <2>4. QED
    BY <1>1, <2>1, <2>2, <2>3, Reported DEF WrongAt
<1>9. CASE Fits /\ rule = 0 /\ Len(walk) = 1 /\ strict
  <2> DEFINE problem == Problem("not registered", Position)
  <2>1. problem \in StructureAt(Position)
    BY <1>1, <1>2, <1>4, <1>9, BlockWrong
  <2>2. problem # Crash /\ problem # Fine /\ PlaceOf(problem) = Position
    BY DEF Problem, Crash, Fine, PlaceOf
  <2>3. Return(problem)
    BY <1>1, <1>9
  <2> HIDE DEF problem
  <2>4. QED
    BY <1>1, <2>1, <2>2, <2>3, Reported DEF WrongAt
<1>10. CASE Fits /\ rule = 0 /\ Len(walk) = 1 /\ ~strict
  <2>1. walk' = NextItem(walk) /\ eroot' = eroot /\ verdict' = verdict
    BY <1>1, <1>10 DEF Continue
  <2>2. \A q : IsAPlace(q) /\ Under(q, Position) => IsRight(q, eroot)
    BY <1>1, <1>2, <1>4, <1>10, BlockWrong
  <2>3. Last(walk).i <= Len(BodyAt(doc, Front(At(walk))))
    BY <1>1, <1>2
  <2>4. IsWalk(NextItem(walk), eroot)
    BY <1>2, <2>2, <2>3, NextItemWalk DEF OnWalk
  <2>5. QED
    BY <1>1, <2>1, <2>4, Continued
<1>11. QED
  BY <1>5, <1>6, <1>7, <1>8, <1>9, <1>10

LEMMA LeaveBlockStep ==
  ASSUME IInv, LeaveBlock
  PROVE  IInv'
<1>1. /\ walk # <<>> /\ Still /\ Now.i > Len(Body) /\ Len(walk) # 1
      /\ IF Missing(Now.rule, Body) # 0 THEN Return(Problem("missing", Path))
         ELSE Continue(NextItem(Front(walk)))
  BY DEF LeaveBlock, IsAtEnd, Walking, IsOfRoot, Still
<1>2. OnWalk /\ Position = At(walk)
  BY <1>1, InWalk
<1>3. /\ Missing(Now.rule, Body) = 0 => IsRight(Position, eroot)
      /\ Missing(Now.rule, Body) # 0 => Problem("missing", Path) \in StructureAt(Position)
      /\ PlaceOf(Problem("missing", Path)) = Position
  BY <1>1, <1>2, EndChecked
<1>4. CASE Missing(Now.rule, Body) # 0
  <2> DEFINE problem == Problem("missing", Path)
  <2>1. problem # Crash /\ problem # Fine
    BY DEF Problem, Crash, Fine
  <2>2. problem \in StructureAt(Position) /\ PlaceOf(problem) = Position /\ Return(problem)
    BY <1>1, <1>3, <1>4
  <2> HIDE DEF problem
  <2>3. QED
    BY <1>1, <2>1, <2>2, Reported DEF WrongAt
<1>5. CASE Missing(Now.rule, Body) = 0
  <2> DEFINE f == Front(walk)
  <2>1. walk' = NextItem(f) /\ eroot' = eroot /\ verdict' = verdict
    BY <1>1, <1>5 DEF Continue
  <2>2. \A q : IsAPlace(q) /\ Under(q, Path) => IsRight(q, eroot)
    BY <1>1, <1>2, <1>3, <1>5, LeaveRight
  <2>3. IsWalk(f, eroot)
    BY <1>1, <1>2, FrontWalk DEF OnWalk
  <2>4. At(f) = Path /\ Path # <<>> /\ Path \in Seq(Nat) /\ IsPath(doc, Path)
    <3>1. walk \in Seq(Calls)
      BY <1>2 DEF OnWalk, IsWalk
    <3>2. At(f) = Path
      BY <1>1, <1>2, <3>1, AtFront, Here
    <3>3. f # <<>>
      BY <2>3 DEF IsWalk
    <3>4. f \in Seq(Calls)
      BY <2>3 DEF IsWalk
    <3>5. At(f) # <<>>
      BY <3>3, <3>4, AtFront
    <3>6. QED
      BY <1>2, <3>2, <3>5, Here
  <2>5. Last(f).i <= Len(BodyAt(doc, Front(At(f))))
    <3>1. Last(f).i = Last(Path) /\ f \in Seq(Calls)
      BY <2>3, <2>4, AtFront DEF IsWalk
    <3>2. Path = Append(Front(Path), Last(Path)) /\ Front(Path) \in Seq(Nat) /\ Last(Path) \in Nat
      BY <2>4, PathEnds
    <3>3. IsPath(doc, Append(Front(Path), Last(Path)))
      BY <2>4, <3>2
    <3>4. IsPath(doc, Front(Path)) /\ Last(Path) \in BlocksIn(BodyAt(doc, Front(Path)))
      BY <3>2, <3>3, PathOfAppend
    <3>5. IsBody(BodyAt(doc, Front(Path)))
      BY <1>2, <3>2, <3>4, BodyIsBody DEF OnWalk
    <3>6. Last(Path) <= Len(BodyAt(doc, Front(Path)))
      BY <3>4, <3>5 DEF IsBody, IsSequence, BlocksIn
    <3>7. QED
      BY <2>4, <3>1, <3>6
  <2> HIDE DEF f
  <2>6. \A q : IsAPlace(q) /\ Under(q, At(f)) => IsRight(q, eroot)
    BY <2>2, <2>4
  <2>7. IsWalk(NextItem(f), eroot)
    BY <1>2, <2>3, <2>5, <2>6, NextItemWalk DEF OnWalk
  <2>8. QED
    BY <1>1, <2>1, <2>7, Continued
<1>6. QED
  BY <1>4, <1>5

LEMMA LeaveRootStep ==
  ASSUME IInv, LeaveRoot
  PROVE  IInv'
<1>1. walk # <<>> /\ Still /\ Now.i > Len(Body) /\ Len(walk) = 1 /\ Return(Fine)
  BY DEF LeaveRoot, IsAtEnd, Walking, IsOfRoot, Still
<1>2. OnWalk /\ Position = At(walk)
  BY <1>1, InWalk
<1>3. Path = <<>>
  <2>1. Path \in Seq(Nat) /\ Len(Path) = 0
    BY <1>1, <1>2, Here
  <2>2. QED
    BY <2>1
<1>4. IsRight(Position, eroot)
  <2>1. Len(Body) \in Nat /\ Now.i \in Nat
    BY <1>2, Here
  <2>2. QED
    BY <1>1, <1>2, <2>1, RootRight
<1>5. \A q : Under(q, Path) <=> 0 <= Len(q)
  BY <1>3 DEF Under
<1>6. ASSUME NEW q, IsAPlace(q)
      PROVE  IsRight(q, eroot)
  <2>1. Under(q, Path)
    BY <1>5, <1>6 DEF IsAPlace
  <2>2. QED
    BY <1>1, <1>2, <1>4, <1>6, <2>1, LeaveRight
<1>7. Counts(eroot) => FirstIsFound(Fine, Given(eroot))
  BY <1>6 DEF FirstIsFound, IsRight, WrongAt
<1>8. Fine # Crash /\ \A q : IsAPlace(q) => StructureAt(q) = {}
  BY <1>6 DEF Fine, Crash, Problem, IsRight
<1>9. QED
  BY <1>1, <1>7, <1>8, Ended DEF Return, Counts

LEMMA ValidateStep ==
  ASSUME IInv, NEW root \in {<<>>, result}, Validate(root)
  PROVE  IInv'
<1>1. Still /\ walk = <<>>
  BY DEF Validate, Still
<1>2. CASE SameShape(doc, root)
  <2>1. walk' = <<Visit(1)>> /\ eroot' = root /\ verdict' = verdict
    BY <1>2 DEF Validate
  <2>2. root # <<>> => Len(root[1]) = Len(doc)
    BY <1>2 DEF SameShape
  <2>3. IsWalk(<<Visit(1)>>, root)
    BY <2>2, FirstWalk DEF IInv
  <2>4. QED
    BY <1>1, <2>1, <2>3, Continued
<1>3. CASE ~SameShape(doc, root)
  <2>1. verdict' = [verdict EXCEPT ![Given(root)] = Problem("result", <<>>)] /\ walk' = <<>>
    BY <1>1, <1>3 DEF Validate
  <2>2. Problem("result", <<>>) # Crash /\ Problem("result", <<>>) # Fine
    BY DEF Problem, Crash, Fine
  <2>3. ~(root = <<>> \/ IsFresh)
    BY <1>3 DEF SameShape, IsFresh
  <2>4. QED
    BY <1>1, <2>1, <2>2, <2>3, Ended
<1>4. QED
  BY <1>2, <1>3

-----------------------------------------------------------------------------
(* Changes to a document leave it a document. *)

LEMMA ItemAppended ==
  ASSUME NEW S, NEW b, IsBody(b), \A i \in BlocksIn(b) : b[i].body \in S, NEW item,
         \/ item = AttrItem(item.name, item.value)
         \/ item = BlockItem(item.type, item.labels, item.body) /\ item.body \in S
  PROVE  /\ IsBody(Append(b, item))
         /\ \A i \in BlocksIn(Append(b, item)) : Append(b, item)[i].body \in S
<1> DEFINE c == Append(b, item)
           k == Len(b)
<1>1. /\ IsSequence(c) /\ k \in Nat /\ Len(c) = k + 1 /\ c[k + 1] = item
      /\ \A n \in 1 .. k : c[n] = b[n]
  BY AppendSequence DEF IsBody
<1>2. DOMAIN b = 1 .. k
  BY DEF IsBody, IsSequence
<1>3. DOMAIN c = 1 .. k + 1
  BY <1>1 DEF IsSequence
<1> HIDE DEF c, k
<1>4. ASSUME NEW i \in DOMAIN c
      PROVE  /\ c[i] = IF IsAttr(c[i]) THEN AttrItem(c[i].name, c[i].value)
                                       ELSE BlockItem(c[i].type, c[i].labels, c[i].body)
             /\ IsBlock(c[i]) => c[i].body \in S
  <2>1. CASE i = k + 1
    BY <1>1, <2>1 DEF IsAttr, IsBlock, AttrItem, BlockItem
  <2>2. CASE i # k + 1
    <3>1. i \in DOMAIN b /\ c[i] = b[i]
      BY <1>1, <1>2, <1>3, <2>2
    <3>2. QED
      BY <3>1 DEF IsBody, BlocksIn
  <2>3. QED
    BY <2>1, <2>2
<1>5. QED
  BY <1>1, <1>4 DEF IsBody, BlocksIn, c

LEMMA ItemRemoved ==
  ASSUME NEW S, NEW b, IsBody(b), \A i \in BlocksIn(b) : b[i].body \in S, NEW j \in DOMAIN b
  PROVE  /\ IsBody(WithoutItem(b, j))
         /\ \A i \in BlocksIn(WithoutItem(b, j)) : WithoutItem(b, j)[i].body \in S
<1> DEFINE c == WithoutItem(b, j)
           R == {b[n] : n \in DOMAIN b}
<1>1. Len(b) \in Nat /\ DOMAIN b = 1 .. Len(b) /\ b = [n \in 1 .. Len(b) |-> b[n]]
  BY DEF IsBody, IsSequence
<1>2. b \in [1 .. Len(b) -> R]
  BY <1>1
<1> HIDE DEF R
<1>3. b \in Seq(R)
  BY <1>1, <1>2
<1>4. SubSeq(b, 1, j - 1) \in Seq(R) /\ SubSeq(b, j + 1, Len(b)) \in Seq(R)
  <2>1. j \in 1 .. Len(b)
    BY <1>1
  <2>2. \A m, n \in Int : 1 <= m /\ n <= Len(b) => SubSeq(b, m, n) \in Seq(R)
    BY <1>3
  <2>3. QED
    BY <1>1, <2>1, <2>2
<1>5. c \in Seq(R)
  BY <1>4 DEF WithoutItem, RemoveAt
<1> HIDE DEF c
<1>6. IsSequence(c)
  BY <1>5, SeqIsSequence
<1>7. ASSUME NEW i \in DOMAIN c
      PROVE  \E n \in DOMAIN b : c[i] = b[n]
  <2>1. c[i] \in R
    BY <1>5
  <2>2. QED
    BY <2>1 DEF R
<1>8. QED
  BY <1>6, <1>7 DEF IsBody, BlocksIn, c

LEMMA BlockReplaced ==
  ASSUME NEW T, NEW b, IsBody(b), \A i \in BlocksIn(b) : b[i].body \in T, NEW j \in BlocksIn(b), NEW y \in T
  PROVE  /\ IsBody([b EXCEPT ![j].body = y])
         /\ \A i \in BlocksIn([b EXCEPT ![j].body = y]) : [b EXCEPT ![j].body = y][i].body \in T
<1> DEFINE item == BlockItem(b[j].type, b[j].labels, y)
<1>1. j \in DOMAIN b /\ IsBlock(b[j])
  BY DEF BlocksIn
<1>2. [b[j] EXCEPT !.body = y] = item
  BY <1>1 DEF IsBody, IsAttr, IsBlock, AttrItem, BlockItem
<1>3. [b EXCEPT ![j].body = y] = [b EXCEPT ![j] = item]
  <2>1. [b EXCEPT ![j].body = y] = [b EXCEPT ![j] = [b[j] EXCEPT !.body = y]]
    OBVIOUS
  <2>2. QED
    BY <1>2, <2>1
<1>4. item = BlockItem(item.type, item.labels, item.body) /\ item.body \in T
  BY DEF BlockItem
<1> HIDE DEF item
<1>5. /\ IsBody([b EXCEPT ![j] = item])
      /\ \A i \in BlocksIn([b EXCEPT ![j] = item]) : [b EXCEPT ![j] = item][i].body \in T
  BY <1>1, <1>4, ItemReplaced
<1>6. QED
  BY <1>3, <1>5

\* A document in which one body is another.
LEMMA Changed ==
  ASSUME NEW S, Closed(S), NEW root \in S, NEW path \in Seq(Nat), IsPath(root, path),
         NEW new, IsBody(new), \A i \in BlocksIn(new) : new[i].body \in S
  PROVE  WellFormed(WithBody(root, path, new))
<1> DEFINE k == Len(path)
           above(n) == BodyAt(root, SubSeq(path, 1, k - n))
<1>1. k \in Nat
  OBVIOUS
<1>2. PICK g : Chain(g, "up", new, root, path, k) /\ WithBody(root, path, new) = g[k]
  BY <1>1, ChangedAre
<1>3. g[0] = new
  BY <1>1, <1>2 DEF Chain
<1>4. ASSUME NEW n \in 1 .. k
      PROVE  g[n] = [above(n) EXCEPT ![path[k - n + 1]].body = g[n - 1]]
  <2>1. n \in 0 .. k /\ n # 0
    BY <1>1
  <2>2. g[n] = Made("up", root, path, n, g[n - 1])
    BY <1>2, <2>1 DEF Chain
  <2>3. QED
    BY <2>2 DEF Made
<1>5. ASSUME NEW n \in 1 .. k
      PROVE  above(n) \in S /\ path[k - n + 1] \in BlocksIn(above(n))
  <2>1. k - n \in 0 .. k /\ k - n + 1 \in 1 .. k /\ (k - n + 1) - 1 = k - n
    BY <1>1
  <2>2. above(n) \in S
    BY <2>1, BodyInClosed
  <2>3. k - n + 1 \in DOMAIN path
    BY <2>1
  <2>4. path[k - n + 1] \in BlocksIn(BodyAt(root, SubSeq(path, 1, (k - n + 1) - 1)))
    BY <2>3 DEF IsPath, BlocksIn
  <2>5. QED
    BY <2>1, <2>2, <2>4
<1> DEFINE T == S \cup {g[n] : n \in 0 .. k}
<1> HIDE DEF above, k
<1>6. \A b \in S : IsBody(b) /\ \A i \in BlocksIn(b) : b[i].body \in T
  BY DEF Closed
<1>7. ASSUME NEW n \in 0 .. k
      PROVE  IsBody(g[n]) /\ \A i \in BlocksIn(g[n]) : g[n][i].body \in T
  <2>1. CASE n = 0
    BY <1>3, <2>1
  <2>2. CASE n # 0
    <3>1. n \in 1 .. k /\ n - 1 \in 0 .. k
      BY <1>1, <2>2
    <3>2. g[n - 1] \in T
      BY <3>1
    <3>3. above(n) \in S /\ path[k - n + 1] \in BlocksIn(above(n))
      BY <1>5, <3>1
    <3> DEFINE b == above(n)
               j == path[k - n + 1]
               y == g[n - 1]
    <3>4. IsBody(b) /\ \A i \in BlocksIn(b) : b[i].body \in T
      BY <1>6, <3>3
    <3>5. g[n] = [b EXCEPT ![j].body = y]
      BY <1>4, <3>1
    <3>6. y \in T /\ j \in BlocksIn(b)
      BY <3>2, <3>3
    <3> HIDE DEF b, j, y, T
    <3>7. /\ IsBody([b EXCEPT ![j].body = y])
          /\ \A i \in BlocksIn([b EXCEPT ![j].body = y]) : [b EXCEPT ![j].body = y][i].body \in T
      BY <3>4, <3>6, BlockReplaced
    <3>8. QED
      BY <3>5, <3>7
  <2>3. QED
    BY <2>1, <2>2
<1>8. Closed(T)
  BY <1>6, <1>7 DEF Closed
<1>9. g[k] \in T
  BY <1>1
<1>10. QED
  BY <1>2, <1>8, <1>9 DEF WellFormed, k

\* Every body may hold an empty one.
LEMMA WithNone ==
  ASSUME NEW d, WellFormed(d)
  PROVE  \E S : d \in S /\ <<>> \in S /\ Closed(S)
<1>1. PICK S : d \in S /\ Closed(S)
  BY DEF WellFormed
<1>2. Closed(S \cup {<<>>})
  BY <1>1, NoneIsBody DEF Closed
<1>3. QED
  BY <1>1, <1>2

\* What the host makes of a body.
LEMMA NewBodies ==
  ASSUME NEW S, Closed(S), <<>> \in S, NEW b \in S
  PROVE  /\ \A name, x : LET new == WithAttribute(b, name, x)
                         IN  IsBody(new) /\ \A i \in BlocksIn(new) : new[i].body \in S
         /\ \A type : LET new == WithBlock(b, type, <<>>)
                      IN  IsBody(new) /\ \A i \in BlocksIn(new) : new[i].body \in S
         /\ \A j \in DOMAIN b : LET new == WithoutItem(b, j)
                                IN  IsBody(new) /\ \A i \in BlocksIn(new) : new[i].body \in S
<1>1. IsBody(b) /\ \A i \in BlocksIn(b) : b[i].body \in S
  BY DEF Closed
<1>2. ASSUME NEW name, NEW x
      PROVE  LET new == WithAttribute(b, name, x)
             IN  IsBody(new) /\ \A i \in BlocksIn(new) : new[i].body \in S
  <2> DEFINE at == AttrAt(b, name)
  <2>1. CASE at # 0
    <3>1. at \in DOMAIN b /\ IsAttr(b[at])
      BY <1>1, <2>1, AttrAtIs DEF IsFirstIn, IsBody
    <3> DEFINE item == AttrItem(b[at].name, x)
    <3>2. [b[at] EXCEPT !.value = x] = item
      BY <1>1, <3>1, ItemFields
    <3>3. WithAttribute(b, name, x) = [b EXCEPT ![at] = item]
      <4>1. WithAttribute(b, name, x) = [b EXCEPT ![at] = [b[at] EXCEPT !.value = x]]
        BY <2>1 DEF WithAttribute
      <4>2. QED
        BY <3>2, <4>1
    <3>4. item = AttrItem(item.name, item.value)
      BY DEF AttrItem
    <3> HIDE DEF item, at
    <3>5. /\ IsBody([b EXCEPT ![at] = item])
          /\ \A i \in BlocksIn([b EXCEPT ![at] = item]) : [b EXCEPT ![at] = item][i].body \in S
      BY <1>1, <3>1, <3>4, ItemReplaced
    <3>6. QED
      BY <3>3, <3>5
  <2>2. CASE at = 0
    <3> DEFINE item == AttrItem(name, x)
    <3>1. item = AttrItem(item.name, item.value) /\ WithAttribute(b, name, x) = Append(b, item)
      BY <2>2 DEF AttrItem, WithAttribute
    <3> HIDE DEF item
    <3>2. QED
      BY <1>1, <3>1, ItemAppended
  <2>3. QED
    BY <2>1, <2>2
<1>3. ASSUME NEW type
      PROVE  LET new == WithBlock(b, type, <<>>)
             IN  IsBody(new) /\ \A i \in BlocksIn(new) : new[i].body \in S
  <2> DEFINE item == BlockItem(type, <<>>, <<>>)
  <2>1. item = BlockItem(item.type, item.labels, item.body) /\ item.body \in S /\ WithBlock(b, type, <<>>) = Append(b, item)
    BY DEF BlockItem, WithBlock
  <2> HIDE DEF item
  <2>2. QED
    BY <1>1, <2>1, ItemAppended
<1>4. QED
  BY <1>1, <1>2, <1>3, ItemRemoved

\* The paths that are enumerated are paths.
LEMMA PathsArePaths ==
  ASSUME NEW root, WellFormed(root), NEW n \in Nat
  PROVE  \A p \in PathsOf(root, n) : p \in Seq(Nat) /\ IsPath(root, p)
<1> DEFINE S == {m \in Nat : \A p \in PathsOf(root, m) : p \in Seq(Nat) /\ IsPath(root, p)}
<1>1. 0 \in S
  <2>1. <<>> \in Seq(Nat)
    OBVIOUS
  <2>2. QED
    BY <2>1, PathsOfNone, PathOfEmpty
<1>2. ASSUME NEW m \in Nat, m \in S
      PROVE  m + 1 \in S
  <2>1. ASSUME NEW p \in PathsOf(root, m + 1)
        PROVE  p \in Seq(Nat) /\ IsPath(root, p)
    <3>1. CASE p \in PathsOf(root, m)
      BY <1>2, <3>1
    <3>2. CASE p \notin PathsOf(root, m)
      <4>1. PICK q \in PathsOf(root, m) : p \in OneDeeper(root, q)
        BY <2>1, <3>2, PathsOfMore
      <4>2. PICK i \in BlocksIn(BodyAt(root, q)) : p = Append(q, i)
        BY <4>1 DEF OneDeeper
      <4>3. q \in Seq(Nat) /\ IsPath(root, q)
        BY <1>2, <4>1
      <4>4. i \in Nat
        <5>1. IsBody(BodyAt(root, q))
          BY <4>3, BodyIsBody
        <5>2. QED
          BY <4>2, <5>1 DEF BlocksIn, IsBody, IsSequence
      <4>5. QED
        BY <4>2, <4>3, <4>4, PathOfAppend
    <3>3. QED
      BY <3>1, <3>2
  <2>2. QED
    BY <2>1
<1> HIDE DEF S
<1>3. Nat \subseteq S
  BY <1>1, <1>2, AllNaturals
<1>4. QED
  BY <1>3 DEF S

LEMMA MorePaths ==
  ASSUME NEW root, NEW n \in Nat, NEW k \in Nat, n <= k
  PROVE  PathsOf(root, n) \subseteq PathsOf(root, k)
<1> DEFINE S == {m \in Nat : PathsOf(root, n) \subseteq PathsOf(root, n + m)}
<1>1. 0 \in S
  OBVIOUS
<1>2. ASSUME NEW m \in Nat, m \in S
      PROVE  m + 1 \in S
  <2>1. n + m \in Nat /\ n + (m + 1) = (n + m) + 1
    OBVIOUS
  <2>2. PathsOf(root, n + m) \subseteq PathsOf(root, (n + m) + 1)
    BY <2>1, PathsOfMore
  <2>3. QED
    BY <1>2, <2>1, <2>2
<1> HIDE DEF S
<1>3. Nat \subseteq S
  BY <1>1, <1>2, AllNaturals
<1>4. k - n \in Nat /\ n + (k - n) = k
  OBVIOUS
<1>5. QED
  BY <1>3, <1>4 DEF S

\* The paths that are listed are paths on into the blocks of what is listed.
LEMMA ListedPaths ==
  ASSUME NEW d \in Documents \cup Declarations
  PROVE  LET P == PathsOf(d, MaxDepth)
         IN  /\ <<>> \in P
             /\ \A p \in P : p \in Seq(Nat) /\ IsBody(BodyAt(d, p))
             /\ \A p \in P : \A i \in BlocksIn(BodyAt(d, p)) :
                  Append(p, i) \in P /\ BodyAt(d, Append(p, i)) = BodyAt(d, p)[i].body
<1> DEFINE P == PathsOf(d, MaxDepth)
           S == {n \in Nat : n <= MaxDepth => \A p \in PathsOf(d, n) : p \in Seq(Nat) /\ p \in PathsOf(d, Len(p))}
<1>1. MaxDepth \in Nat
  BY ChangesAssumption
<1>2. \A p \in P : IsBody(BodyAt(d, p)) /\ (BlocksIn(BodyAt(d, p)) # {} => Len(p) < MaxDepth)
  BY DocumentsAssumption
<1>3. 0 \in S
  <2>1. PathsOf(d, 0) = {<<>>} /\ Len(<<>>) = 0 /\ <<>> \in Seq(Nat)
    BY PathsOfNone
  <2>2. QED
    BY <2>1
<1> HIDE DEF P
<1>4. ASSUME NEW n \in Nat, n \in S
      PROVE  n + 1 \in S
  <2>1. SUFFICES ASSUME n + 1 <= MaxDepth, NEW p \in PathsOf(d, n + 1)
                 PROVE  p \in Seq(Nat) /\ p \in PathsOf(d, Len(p))
    OBVIOUS
  <2>2. n <= MaxDepth
    BY <1>1, <2>1
  <2>3. \A q \in PathsOf(d, n) : q \in Seq(Nat) /\ q \in PathsOf(d, Len(q)) /\ q \in P
    BY <1>1, <1>4, <2>2, MorePaths DEF P
  <2>4. CASE p \in PathsOf(d, n)
    BY <2>3, <2>4
  <2>5. CASE p \notin PathsOf(d, n)
    <3>1. PICK q \in PathsOf(d, n) : p \in OneDeeper(d, q)
      BY <2>1, <2>5, PathsOfMore
    <3>2. PICK i \in BlocksIn(BodyAt(d, q)) : p = Append(q, i)
      BY <3>1 DEF OneDeeper
    <3>3. i \in Nat
      BY <1>2, <2>3, <3>2 DEF BlocksIn, IsBody, IsSequence
    <3>4. q \in Seq(Nat) /\ Len(q) \in Nat /\ p \in Seq(Nat) /\ Len(p) = Len(q) + 1
      <4>1. q \in Seq(Nat)
        BY <2>3
      <4>2. QED
        BY <3>2, <3>3, <4>1
    <3>5. p \in PathsOf(d, Len(q) + 1)
      <4>1. q \in PathsOf(d, Len(q)) /\ p \in OneDeeper(d, q)
        BY <2>3, <3>1
      <4>2. PathsOf(d, Len(q) + 1) = PathsOf(d, Len(q)) \cup UNION {OneDeeper(d, x) : x \in PathsOf(d, Len(q))}
        BY <3>4, PathsOfMore
      <4>3. QED
        BY <4>1, <4>2
    <3>6. QED
      BY <3>4, <3>5
  <2>6. QED
    BY <2>4, <2>5
<1> HIDE DEF S
<1>5. MaxDepth \in S
  BY <1>1, <1>3, <1>4, AllNaturals
<1>6. \A p \in P : p \in Seq(Nat) /\ p \in PathsOf(d, Len(p))
  BY <1>1, <1>5 DEF S, P
<1>7. ASSUME NEW p \in P, NEW i \in BlocksIn(BodyAt(d, p))
      PROVE  Append(p, i) \in P /\ BodyAt(d, Append(p, i)) = BodyAt(d, p)[i].body
  <2>1. p \in Seq(Nat) /\ p \in PathsOf(d, Len(p)) /\ Len(p) < MaxDepth /\ IsBody(BodyAt(d, p))
    BY <1>2, <1>6, <1>7
  <2>2. i \in Nat
    BY <1>7, <2>1 DEF BlocksIn, IsBody, IsSequence
  <2>3. Len(p) \in Nat /\ Len(p) + 1 \in Nat /\ Len(p) + 1 <= MaxDepth
    BY <1>1, <2>1
  <2>4. Append(p, i) \in PathsOf(d, Len(p) + 1)
    <3>1. Append(p, i) \in OneDeeper(d, p)
      BY <1>7 DEF OneDeeper
    <3>2. QED
      BY <2>1, <2>3, <3>1, PathsOfMore
  <2>5. Append(p, i) \in P
    BY <1>1, <2>3, <2>4, MorePaths DEF P
  <2>6. QED
    BY <2>1, <2>2, <2>5, BodyOfAppend
<1>8. <<>> \in P
  <2>1. 0 \in Nat /\ 0 <= MaxDepth
    BY <1>1
  <2>2. QED
    BY <1>1, <2>1, PathsOfNone, MorePaths DEF P
<1>9. QED
  BY <1>2, <1>6, <1>7, <1>8 DEF P

LEMMA DocumentsAreWellFormed ==
  ASSUME NEW d \in Documents \cup Declarations
  PROVE  WellFormed(d)
<1> DEFINE B == {BodyAt(d, p) : p \in PathsOf(d, MaxDepth)}
<1>1. Closed(B)
  BY ListedPaths DEF Closed
<1>2. d \in B
  BY ListedPaths, BodyOfEmpty
<1>3. QED
  BY <1>1, <1>2 DEF WellFormed

-----------------------------------------------------------------------------
(* What the host does *)

LEMMA NoVerdictHolds ==
  ASSUME verdict' = NoVerdict
  PROVE  VerdictIs(verdict)'
<1>1. verdict'["document"] = NotValidated /\ verdict'["result"] = NotValidated
  BY DEF NoVerdict
<1>2. NotValidated # Crash /\ NotValidated # Fine
  BY DEF NotValidated, Crash, Fine, Problem
<1>3. verdict' = [document |-> verdict'["document"], result |-> verdict'["result"]]
  BY <1>1 DEF NoVerdict
<1>4. QED
  BY <1>1, <1>2, <1>3 DEF VerdictIs, NotValidated, Crash, Fine, Problem

LEMMA ChangeStep ==
  ASSUME IInv, NEW S, Closed(S), doc \in S, NEW path \in Seq(Nat), IsPath(doc, path),
         NEW new, IsBody(new), \A i \in BlocksIn(new) : new[i].body \in S,
         Change(WithBody(doc, path, new))
  PROVE  IInv'
<1>1. WellFormed(WithBody(doc, path, new))
  BY Changed
<1>2. doc' = WithBody(doc, path, new) /\ result' = result /\ rules' = rules /\ verdict' = NoVerdict /\ walk' = <<>>
  BY DEF Change, Idle, rulesVars
<1>3. WellFormed(doc')
  BY <1>1, <1>2
<1>4. RulesInv' /\ VerdictIs(verdict)'
  BY <1>2, RulesKept, NoVerdictHolds DEF IInv
<1>5. QED
  BY <1>2, <1>3, <1>4 DEF IInv

LEMMA HostSteps ==
  ASSUME IInv, NEW path \in PathsOf(doc, MaxDepth),
         \/ \E name \in NewNames, x \in NewValues : SetAttribute(path, name, x)
         \/ \E name \in NewNames : RemoveAttribute(path, name)
         \/ \E type \in NewTypes : AddEmptyBlock(path, type)
         \/ \E i \in DOMAIN BodyAt(doc, path) : RemoveBlock(path, i)
  PROVE  IInv'
<1> DEFINE b == BodyAt(doc, path)
<1>1. path \in Seq(Nat) /\ IsPath(doc, path)
  BY PathsArePaths, ChangesAssumption DEF IInv
<1>2. PICK S : doc \in S /\ <<>> \in S /\ Closed(S)
  BY WithNone DEF IInv
<1>3. b \in S
  <2>1. Len(path) \in 0 .. Len(path) /\ SubSeq(path, 1, Len(path)) = path
    BY <1>1
  <2>2. QED
    BY <1>1, <1>2, <2>1, BodyInClosed
<1>4. /\ \A name, x : LET new == WithAttribute(b, name, x)
                      IN  IsBody(new) /\ \A i \in BlocksIn(new) : new[i].body \in S
      /\ \A type : LET new == WithBlock(b, type, <<>>)
                   IN  IsBody(new) /\ \A i \in BlocksIn(new) : new[i].body \in S
      /\ \A j \in DOMAIN b : LET new == WithoutItem(b, j)
                             IN  IsBody(new) /\ \A i \in BlocksIn(new) : new[i].body \in S
  BY <1>2, <1>3, NewBodies
<1>5. \E new : /\ IsBody(new) /\ \A i \in BlocksIn(new) : new[i].body \in S
               /\ Change(WithBody(doc, path, new))
  <2>1. ASSUME NEW name, NEW x, SetAttribute(path, name, x)
        PROVE  Change(WithBody(doc, path, WithAttribute(b, name, x)))
    BY <2>1 DEF SetAttribute
  <2>2. ASSUME NEW type, AddEmptyBlock(path, type)
        PROVE  Change(WithBody(doc, path, WithBlock(b, type, <<>>)))
    BY <2>2 DEF AddEmptyBlock
  <2>3. ASSUME NEW name, RemoveAttribute(path, name)
        PROVE  AttrAt(b, name) \in DOMAIN b /\ Change(WithBody(doc, path, WithoutItem(b, AttrAt(b, name))))
    <3>1. IsBody(b)
      BY <1>2, <1>3 DEF Closed
    <3>2. AttrAt(b, name) # 0 /\ Change(WithBody(doc, path, WithoutItem(b, AttrAt(b, name))))
      BY <2>3 DEF RemoveAttribute
    <3>3. AttrAt(b, name) \in DOMAIN b
      BY <3>1, <3>2, AttrAtIs DEF IsFirstIn, IsBody
    <3>4. QED
      BY <3>2, <3>3
  <2>4. ASSUME NEW i \in DOMAIN b, RemoveBlock(path, i)
        PROVE  Change(WithBody(doc, path, WithoutItem(b, i)))
    BY <2>4 DEF RemoveBlock
  <2> HIDE DEF b
  <2>5. CASE \E name \in NewNames, x \in NewValues : SetAttribute(path, name, x)
    BY <1>4, <2>1, <2>5
  <2>6. CASE \E name \in NewNames : RemoveAttribute(path, name)
    BY <1>4, <2>3, <2>6
  <2>7. CASE \E type \in NewTypes : AddEmptyBlock(path, type)
    BY <1>4, <2>2, <2>7
  <2>8. CASE \E i \in DOMAIN b : RemoveBlock(path, i)
    BY <1>4, <2>4, <2>8
  <2>9. QED
    BY <2>5, <2>6, <2>7, <2>8 DEF b
<1>6. QED
  BY <1>1, <1>2, <1>5, ChangeStep

LEMMA EvaluateStep ==
  ASSUME IInv, Evaluate
  PROVE  IInv'
<1>1. /\ result' = <<doc>> /\ doc' = doc /\ rules' = rules /\ strict' = strict /\ walk' = <<>>
      /\ verdict' = [verdict EXCEPT !["result"] = NotValidated]
  BY DEF Evaluate, Idle, rulesVars
<1>2. result'[1] = doc /\ WellFormed(doc)
  BY <1>1 DEF IInv
<1>3. WellFormed(doc') /\ WellFormed(result'[1])
  BY <1>1, <1>2
<1>4. verdict' = [document |-> verdict["document"], result |-> NotValidated]
  <2>1. PICK x, y : verdict = [document |-> x, result |-> y]
    BY DEF IInv, VerdictIs
  <2>2. verdict["document"] = x
    BY <2>1
  <2>3. verdict' = [[document |-> x, result |-> y] EXCEPT !["result"] = NotValidated]
    BY <1>1, <2>1
  <2>4. [[document |-> x, result |-> y] EXCEPT !["result"] = NotValidated] = [document |-> x, result |-> NotValidated]
    OBVIOUS
  <2>5. QED
    BY <2>2, <2>3, <2>4
<1>5. verdict'["document"] = verdict["document"] /\ verdict'["result"] = NotValidated
  BY <1>4
<1>6. NotValidated # Crash /\ NotValidated # Fine
  BY DEF NotValidated, Crash, Fine, Problem
<1>7. \A problem, given : FirstIsFound(problem, given)' <=> FirstIsFound(problem, given)
  BY <1>1, SameFirst
<1>8. VerdictIs(verdict)'
  <2>1. verdict["document"] # NotValidated => FirstIsFound(verdict["document"], "document")
    BY DEF IInv, VerdictIs
  <2>2. QED
    BY <1>4, <1>5, <1>6, <1>7, <2>1 DEF VerdictIs, NotValidated, Crash, Fine, Problem
<1>9. RulesInv'
  BY <1>1, RulesKept DEF IInv
<1>10. QED
  BY <1>1, <1>3, <1>8, <1>9 DEF IInv

LEMMA RulesStep ==
  ASSUME IInv, RulesNext, Idle, verdict' = NoVerdict, UNCHANGED docVars
  PROVE  IInv'
<1>1. RulesInv'
  BY StepIsUnique DEF IInv
<1>2. doc' = doc /\ result' = result /\ walk' = <<>>
  BY DEF docVars, Idle
<1>3. QED
  BY <1>1, <1>2, NoVerdictHolds DEF IInv

LEMMA InitHolds ==
  ASSUME Init
  PROVE  IInv
<1>1. RulesInv
  BY InitIsUnique DEF Init
<1>2. WellFormed(doc) /\ result = <<>> /\ walk = <<>>
  BY DocumentsAreWellFormed DEF Init
<1>3. VerdictIs(verdict)
  <2>1. verdict = NoVerdict
    BY DEF Init
  <2>2. verdict["document"] = NotValidated /\ verdict["result"] = NotValidated
    BY <2>1 DEF NoVerdict
  <2>3. NotValidated # Crash /\ NotValidated # Fine
    BY DEF NotValidated, Crash, Fine, Problem
  <2>4. verdict = [document |-> verdict["document"], result |-> verdict["result"]]
    BY <2>1, <2>2 DEF NoVerdict
  <2>5. QED
    BY <2>2, <2>3, <2>4 DEF VerdictIs
<1>4. QED
  BY <1>1, <1>2, <1>3 DEF IInv

LEMMA StepHolds ==
  ASSUME IInv, [Next]_vars
  PROVE  IInv'
<1>1. CASE RulesNext /\ Idle /\ verdict' = NoVerdict /\ UNCHANGED docVars
  BY <1>1, RulesStep
<1>2. ASSUME NEW path \in PathsOf(doc, MaxDepth),
             \/ \E name \in NewNames, x \in NewValues : SetAttribute(path, name, x)
             \/ \E name \in NewNames : RemoveAttribute(path, name)
             \/ \E type \in NewTypes : AddEmptyBlock(path, type)
             \/ \E i \in DOMAIN BodyAt(doc, path) : RemoveBlock(path, i)
      PROVE  IInv'
  BY <1>2, HostSteps
<1>3. CASE Evaluate
  BY <1>3, EvaluateStep
<1>4. ASSUME NEW root \in {<<>>, result}, Validate(root)
      PROVE  IInv'
  BY <1>4, ValidateStep
<1>5. CASE PassAttr
  BY <1>5, PassAttrStep
<1>6. CASE CheckAttr
  BY <1>6, CheckAttrStep
<1>7. CASE CheckBlock
  BY <1>7, CheckBlockStep
<1>8. CASE LeaveBlock
  BY <1>8, LeaveBlockStep
<1>9. CASE LeaveRoot
  BY <1>9, LeaveRootStep
<1>10. CASE UNCHANGED vars
  <2>1. Still /\ walk' = walk /\ eroot' = eroot /\ verdict' = verdict
    BY <1>10 DEF vars, Still, docVars, rulesVars
  <2>2. CASE walk # <<>>
    BY <2>1, <2>2, Continued DEF IInv
  <2>3. CASE walk = <<>>
    <3>1. doc' = doc /\ result' = result /\ rules' = rules
      BY <2>1 DEF Still, docVars, rulesVars
    <3>2. VerdictIs(verdict)'
      BY <2>1, SameVerdict DEF IInv
    <3>3. RulesInv'
      BY <3>1, RulesKept DEF IInv
    <3>4. QED
      BY <2>1, <2>3, <3>1, <3>2, <3>3 DEF IInv
  <2>4. QED
    BY <2>2, <2>3
<1>11. QED
  BY <1>1, <1>2, <1>3, <1>4, <1>5, <1>6, <1>7, <1>8, <1>9, <1>10 DEF Next

-----------------------------------------------------------------------------
(* The theorems *)

\* The places that are enumerated are places.
LEMMA PlacesArePlaces ==
  ASSUME WellFormed(doc)
  PROVE  \A q \in Places : IsAPlace(q)
<1>1. ASSUME NEW path \in PathsOf(doc, MaxDepth), NEW i \in 1 .. Len(BodyAt(doc, path)) + 1
      PROVE  IsAPlace(Append(path, i))
  <2>1. path \in Seq(Nat) /\ IsPath(doc, path)
    BY PathsArePaths, ChangesAssumption
  <2>2. Len(BodyAt(doc, path)) \in Nat
    BY <2>1, BodyIsBody DEF IsBody, IsSequence
  <2>3. i \in Nat
    BY <2>2
  <2>4. Append(path, i) \in Seq(Nat) /\ Front(Append(path, i)) = path /\ Last(Append(path, i)) = i /\ Append(path, i) # <<>>
    BY <2>1, <2>3, PathIsEmptyOrNot
  <2>5. QED
    BY <2>1, <2>4 DEF IsAPlace, IsPlace
<1>2. QED
  BY <1>1 DEF Places, PlacesIn

LEMMA FirstIsFirst ==
  ASSUME WellFormed(doc), NEW problem, NEW given, FirstIsFound(problem, given)
  PROVE  IsFirstOf(problem, given)
BY PlacesArePlaces DEF FirstIsFound, IsFirstOf, IsAPlace

\* What is wrong with a value of the document alone is wrong with the value that it has.
LEMMA ResultFindsMore ==
  ASSUME NEW q
  PROVE  WrongAt(q, "document") \subseteq WrongAt(q, "result")
<1>1. ASSUME NEW r, NEW item
      PROVE  ValuesOf(r, item, q, "document") \subseteq ValuesOf(r, item, q, "result")
  <2>1. CASE item.value.e \in {"lit", "tuple", "object"}
    <3>1. CertainValue("document", item.value) = CertainValue("result", item.value)
      BY <2>1 DEF CertainValue
    <3>2. QED
      BY <3>1 DEF ValuesOf
  <2>2. CASE item.value.e \notin {"lit", "tuple", "object"}
    <3>1. CertainValue("document", item.value) = <<>>
      BY <2>2 DEF CertainValue
    <3>2. \A a : ValueProblem(a, <<>>) = ""
      BY DEF ValueProblem
    <3>3. QED
      BY <3>1, <3>2 DEF ValuesOf
  <2>3. QED
    BY <2>1, <2>2
<1>2. ValuesAt(q, "document") \subseteq ValuesAt(q, "result")
  BY <1>1 DEF ValuesAt
<1>3. QED
  BY <1>2 DEF WrongAt

LEMMA ReachableHolds == Spec => []IInv
<1>1. Init => IInv
  BY InitHolds
<1>2. IInv /\ [Next]_vars => IInv'
  BY StepHolds
<1>3. QED
  BY <1>1, <1>2, PTL DEF Spec

\* Whatever the schema and the document, and however both were made, validation reports the
\* first thing wrong in the order of the document and accepts when there is nothing
\* (cl_schema_validate, cl_schema_validate_block).
THEOREM FirstProblemIsReported == Spec => []FirstProblemReported
<1>1. IInv => FirstProblemReported
  <2>1. SUFFICES ASSUME IInv PROVE FirstProblemReported
    OBVIOUS
  <2>2. WellFormed(doc) /\ VerdictIs(verdict)
    BY <2>1 DEF IInv
  <2>3. /\ verdict["document"] # NotValidated => FirstIsFound(verdict["document"], "document")
        /\ verdict["result"] # NotValidated /\ IsFresh => FirstIsFound(verdict["result"], "result")
    BY <2>2 DEF VerdictIs
  <2>4. QED
    BY <2>2, <2>3, FirstIsFirst DEF FirstProblemReported, IsValidated
<1>2. QED
  BY <1>1, ReachableHolds, PTL

\* However the document was changed since it was evaluated, the result given to the validation
\* is never read past its end, and nothing is accepted whose structure is wrong
\* (cl_schema_check_result_shape).
THEOREM OldResultsAreSafe == Spec => []StaleResultIsSafe
<1>1. IInv => StaleResultIsSafe
  BY PlacesArePlaces DEF IInv, VerdictIs, StaleResultIsSafe
<1>2. QED
  BY <1>1, ReachableHolds, PTL

\* What the document alone is rejected for, it is rejected for with its own result too
\* (cl_literal_kind says less than evaluation, never something else).
THEOREM EarlyRejectionIsRight == Spec => []ResultOnlyAdds
<1>1. IInv => ResultOnlyAdds
  <2>1. SUFFICES ASSUME IInv, IsValidated("document"), verdict["document"] # Fine, IsValidated("result"), IsFresh,
                        verdict["result"] = Fine
                 PROVE  FALSE
    BY DEF ResultOnlyAdds
  <2> DEFINE problem == verdict["document"]
             q       == PlaceOf(problem)
  <2>2. IsAPlace(q) /\ problem \in WrongAt(q, "document")
    BY <2>1 DEF IInv, VerdictIs, IsValidated, FirstIsFound
  <2>3. \A p : IsAPlace(p) => WrongAt(p, "result") = {}
    BY <2>1 DEF IInv, VerdictIs, IsValidated, FirstIsFound
  <2> HIDE DEF problem, q
  <2>4. QED
    BY <2>2, <2>3, ResultFindsMore
<1>2. QED
  BY <1>1, ReachableHolds, PTL
=============================================================================
