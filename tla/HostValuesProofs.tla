--------------------------- MODULE HostValuesProofs ---------------------------
EXTENDS HostValues, AnySequencesProofs, FiniteSetTheorems

ItemNodes(node) == {node.items[i].node : i \in DOMAIN node.items}

(* A heap whose values only point to values of their own arena, and of which *)
(* none contains itself.                                                     *)
Apart(h)   == \A n \in DOMAIN h : Under(h, n) \subseteq NodesIn(h, h[n].arena)
NoCycle(h) == \A S \in SUBSET Inner(h) : S # {} => \E n \in S : Under(h, n) \cap S = {}
Whole(h)   == (\A n \in DOMAIN h : IsNode(h[n])) /\ Apart(h) /\ NoCycle(h)

\* No way out of R.
Closed(h, R) == \A n \in R \cap DOMAIN h : Under(h, n) \subseteq R

-----------------------------------------------------------------------------
(* Reachability *)

LEMMA ReachesClosed ==
  ASSUME NEW h, NEW v, NEW t \in DOMAIN h, NEW u \in Under(h, t), Reaches(h, v, t)
  PROVE  Reaches(h, v, u)
<1>1. t \in Inner(h)
  BY DEF Inner, Under
<1>2. SUFFICES ASSUME NEW S \in SUBSET Inner(h),
                      \A n \in S \cup {v} : Under(h, n) \cap Inner(h) \subseteq S
               PROVE  \E n \in S \cup {v} : u \in Under(h, n)
  BY DEF Reaches
<1>3. t = v \/ \E n \in S \cup {v} : t \in Under(h, n)
  BY <1>2 DEF Reaches
<1>4. t \in S \cup {v}
  BY <1>1, <1>2, <1>3
<1>5. QED
  BY <1>4

LEMMA ReachesLeast ==
  ASSUME NEW h, NEW R, Closed(h, R), NEW v \in R \cap DOMAIN h, NEW t, Reaches(h, v, t)
  PROVE  t \in R
<1> DEFINE S == R \cap Inner(h)
<1>1. S \in SUBSET Inner(h) /\ S \subseteq DOMAIN h
  BY DEF Inner
<1>2. \A n \in S \cup {v} : n \in R \cap DOMAIN h
  BY <1>1
<1>3. \A n \in S \cup {v} : Under(h, n) \subseteq R
  BY <1>2 DEF Closed
<1>4. \A n \in S \cup {v} : Under(h, n) \cap Inner(h) \subseteq S
  BY <1>3
<1>5. t = v \/ \E n \in S \cup {v} : t \in Under(h, n)
  BY <1>1, <1>4 DEF Reaches
<1>6. QED
  BY <1>3, <1>5

\* What n does not reach is not in the closed set of what it reaches.
LEMMA ReachedIsClosed ==
  ASSUME NEW h, NEW n, NEW c, ~Reaches(h, n, c)
  PROVE  \E R : n \in R /\ c \notin R /\ Closed(h, R)
<1> DEFINE R == {n} \cup {x \in UNION {Under(h, m) : m \in DOMAIN h} : Reaches(h, n, x)}
<1>1. Reaches(h, n, n)
  BY DEF Reaches
<1>2. \A x \in R : Reaches(h, n, x)
  BY <1>1
<1>3. Closed(h, R)
  BY <1>2, ReachesClosed DEF Closed
<1>4. QED
  BY <1>2, <1>3

-----------------------------------------------------------------------------
(* What may be done to a heap *)

LEMMA AddedNode ==
  ASSUME NEW node, IsNode(node), NEW key, NEW n
  PROVE  /\ IsNode(Added(node, key, n))
         /\ Added(node, key, n).arena = node.arena
         /\ ItemNodes(Added(node, key, n)) \subseteq ItemNodes(node) \cup {n}
<1> DEFINE its == Append(node.items, Item(key, n))
<1>1. /\ IsSequence(its)
      /\ Len(node.items) \in Nat
      /\ Len(its) = Len(node.items) + 1
      /\ \A i \in 1 .. Len(node.items) : its[i] = node.items[i]
      /\ its[Len(node.items) + 1] = Item(key, n)
  BY AppendSequence DEF IsNode
<1> HIDE DEF its
<1>2. /\ Added(node, key, n).items = its
      /\ Added(node, key, n).arena = node.arena
      /\ Added(node, key, n).kind = node.kind
      /\ DOMAIN Added(node, key, n) = DOMAIN node
  BY DEF Added, IsNode, its
<1>3. IsNode(Added(node, key, n))
  BY <1>1, <1>2 DEF IsNode
<1>4. ASSUME NEW i \in DOMAIN its
      PROVE  its[i].node \in ItemNodes(node) \cup {n}
  <2>1. DOMAIN its = 1 .. Len(node.items) + 1 /\ DOMAIN node.items = 1 .. Len(node.items)
    BY <1>1 DEF IsSequence, IsNode
  <2>2. CASE i = Len(node.items) + 1
    BY <1>1, <2>2 DEF Item
  <2>3. CASE i \in 1 .. Len(node.items)
    BY <1>1, <2>1, <2>3 DEF ItemNodes
  <2>4. QED
    BY <1>1, <2>1, <2>2, <2>3
<1>5. QED
  BY <1>2, <1>3, <1>4 DEF ItemNodes

LEMMA KeySetNode ==
  ASSUME NEW node, IsNode(node), NEW key, NEW n
  PROVE  /\ IsNode(KeySet(node, key, n))
         /\ KeySet(node, key, n).arena = node.arena
         /\ ItemNodes(KeySet(node, key, n)) \subseteq ItemNodes(node) \cup {n}
<1> DEFINE at  == SelectInSeq(node.items, LAMBDA it : it.key = key)
           set == [node EXCEPT !.items[at].node = n]
<1>1. CASE at = 0
  BY <1>1, AddedNode DEF KeySet
<1>2. CASE at # 0
  <2> HIDE DEF at
  <2>1. set.items = [node.items EXCEPT ![at].node = n] /\ set.arena = node.arena
        /\ set.kind = node.kind /\ DOMAIN set = DOMAIN node
    BY DEF IsNode
  <2> HIDE DEF set
  <2>2. Len(node.items) \in Nat /\ DOMAIN node.items = 1 .. Len(node.items)
    BY DEF IsNode, IsSequence
  <2>3. set.items \in [1 .. Len(node.items) -> {set.items[i] : i \in 1 .. Len(node.items)}]
    BY <2>1, <2>2
  <2>4. IsSequence(set.items)
    <3>1. set.items \in Seq({set.items[i] : i \in 1 .. Len(node.items)})
      BY <2>2, <2>3
    <3>2. QED
      BY <3>1, SeqIsSequence
  <2>5. ItemNodes(set) \subseteq ItemNodes(node) \cup {n}
    BY <2>1, <2>2 DEF ItemNodes
  <2>6. KeySet(node, key, n) = set
    BY <1>2 DEF KeySet, set, at
  <2>7. QED
    BY <2>1, <2>4, <2>5, <2>6 DEF IsNode
<1>3. QED
  BY <1>1, <1>2

\* A new node, of values that are there.
LEMMA NewNodeKeeps ==
  ASSUME NEW h, Whole(h), NEW n, n \notin DOMAIN h, NEW node, IsNode(node),
         ItemNodes(node) \subseteq NodesIn(h, node.arena)
  PROVE  Whole(Put(h, n, node))
<1> DEFINE g == Put(h, n, node)
<1>1. /\ DOMAIN g = DOMAIN h \cup {n}
      /\ g[n] = node
      /\ \A m \in DOMAIN h : g[m] = h[m]
  BY DEF Put
<1> HIDE DEF g
<1>2. /\ Under(g, n) = ItemNodes(node)
      /\ \A m \in DOMAIN h : Under(g, m) = Under(h, m)
      /\ \A a : NodesIn(h, a) \subseteq NodesIn(g, a)
      /\ \A m \in DOMAIN g : n \notin Under(g, m)
  BY <1>1 DEF Under, ItemNodes, NodesIn, Whole, Apart
<1>3. Apart(g)
  BY <1>1, <1>2 DEF Whole, Apart
<1>4. ASSUME NEW S \in SUBSET Inner(g), S # {}
      PROVE  \E m \in S : Under(g, m) \cap S = {}
  <2> DEFINE T == S \ {n}
  <2>1. T \in SUBSET Inner(h)
    BY <1>1 DEF Inner
  <2>2. CASE T = {}
    BY <1>1, <1>2, <1>4, <2>2 DEF Inner
  <2>3. CASE T # {}
    <3>1. PICK m \in T : Under(h, m) \cap T = {}
      BY <2>1, <2>3 DEF Whole, NoCycle
    <3>2. m \in DOMAIN h
      BY <2>1 DEF Inner
    <3>3. QED
      BY <1>1, <1>2, <3>1, <3>2
  <2>4. QED
    BY <2>2, <2>3
<1>5. NoCycle(g)
  BY <1>4 DEF NoCycle
<1>6. QED
  BY <1>1, <1>3, <1>5 DEF Whole, g

\* n put into c, which n does not lead to.
LEMMA ChangedNodeKeeps ==
  ASSUME NEW h, Whole(h), NEW c \in DOMAIN h, NEW n \in NodesIn(h, h[c].arena),
         NEW node, IsNode(node), node.arena = h[c].arena,
         ItemNodes(node) \subseteq ItemNodes(h[c]) \cup {n},
         NEW R, n \in R, c \notin R, Closed(h, R)
  PROVE  Whole([h EXCEPT ![c] = node])
<1> DEFINE g == [h EXCEPT ![c] = node]
<1>1. /\ DOMAIN g = DOMAIN h
      /\ g[c] = node
      /\ \A m \in DOMAIN h \ {c} : g[m] = h[m]
  OBVIOUS
<1> HIDE DEF g
<1>2. /\ Under(g, c) \subseteq Under(h, c) \cup {n}
      /\ \A m \in DOMAIN h \ {c} : Under(g, m) = Under(h, m)
      /\ \A a : NodesIn(g, a) = NodesIn(h, a)
  BY <1>1 DEF Under, ItemNodes, NodesIn
<1>3. Apart(g)
  BY <1>1, <1>2 DEF Whole, Apart
<1>4. ASSUME NEW S \in SUBSET Inner(g), S # {}
      PROVE  \E m \in S : Under(g, m) \cap S = {}
  <2> DEFINE T == S \cap R
  <2>1. \A m \in DOMAIN h : m \notin Inner(h) => Under(h, m) = {}
    BY DEF Inner, Under, Whole, IsNode, IsSequence
  <2>2. S \subseteq DOMAIN h /\ S \ {c} \subseteq Inner(h)
    BY <1>1 DEF Inner
  <2>3. CASE T # {}
    <3>1. T \in SUBSET Inner(h)
      BY <2>2
    <3>2. PICK m \in T : Under(h, m) \cap T = {}
      BY <2>3, <3>1 DEF Whole, NoCycle
    <3>3. m \in DOMAIN h \ {c} /\ Under(h, m) \subseteq R
      BY <2>2 DEF Closed
    <3>4. QED
      BY <1>2, <3>2, <3>3
  <2>4. CASE T = {}
    <3>1. n \notin S
      BY <2>4
    <3>2. \E m \in S : Under(h, m) \cap S = {}
      <4>1. CASE c \in Inner(h)
        BY <1>4, <2>2, <4>1 DEF Whole, NoCycle
      <4>2. CASE c \in S /\ c \notin Inner(h)
        BY <2>1, <4>2
      <4>3. CASE c \notin S
        BY <1>4, <2>2, <4>3 DEF Whole, NoCycle
      <4>4. QED
        BY <4>1, <4>2, <4>3
    <3>3. QED
      BY <1>2, <2>2, <3>1, <3>2
  <2>5. QED
    BY <2>3, <2>4
<1>5. NoCycle(g)
  BY <1>4 DEF NoCycle
<1>6. QED
  BY <1>1, <1>3, <1>5 DEF Whole, g

\* One arena freed.
LEMMA FreeKeeps ==
  ASSUME NEW h, Whole(h), NEW a
  PROVE  Whole([n \in NodesIn(h, a) |-> h[n]])
<1> DEFINE g == [n \in NodesIn(h, a) |-> h[n]]
<1>1. /\ DOMAIN g = NodesIn(h, a)
      /\ DOMAIN g \subseteq DOMAIN h
      /\ \A n \in DOMAIN g : g[n] = h[n] /\ g[n].arena = a /\ Under(g, n) = Under(h, n)
  BY DEF NodesIn, Under
<1> HIDE DEF g
<1>2. NodesIn(g, a) = NodesIn(h, a)
  BY <1>1 DEF NodesIn
<1>3. Apart(g)
  BY <1>1, <1>2 DEF Whole, Apart
<1>4. Inner(g) \subseteq Inner(h)
  BY <1>1 DEF Inner
<1>5. NoCycle(g)
  <2>1. ASSUME NEW S \in SUBSET Inner(g), S # {}
        PROVE  \E n \in S : Under(g, n) \cap S = {}
    <3>1. PICK n \in S : Under(h, n) \cap S = {}
      BY <1>4, <2>1 DEF Whole, NoCycle
    <3>2. n \in DOMAIN g
      BY DEF Inner
    <3>3. QED
      BY <1>1, <3>1, <3>2
  <2>2. QED
    BY <2>1 DEF NoCycle
<1>6. QED
  BY <1>1, <1>3, <1>5 DEF Whole, g

-----------------------------------------------------------------------------
(* The inductive invariant *)

HeapOK ==
  /\ next \in Nat \ {0}
  /\ DOMAIN heap \subseteq 1 .. next - 1
  /\ Whole(heap)

HostOK ==
  /\ Range(bound) \subseteq NodesIn(heap, "bindings")
  /\ call \in [on : BOOLEAN, owned : SUBSET Nat]
  /\ call.owned \subseteq NodesIn(heap, "result")
  /\ ~call.on => call.owned = {}
  /\ phase # "evaluating" => ~call.on /\ copying = <<>>

Dsts    == {copying[k].dst : k \in 1 .. Len(copying)}
Size(n) == Len(heap[n].items)

(* The copies in the making are apart from everything, each has at most as   *)
(* many items as what it copies, and fewer while the next one is copied.     *)
CopyingOK ==
  /\ copying \in Seq([src : Nat, dst : Nat])
  /\ \A k \in 1 .. Len(copying) :
       /\ copying[k].src \in DOMAIN heap \ Dsts
       /\ copying[k].dst \in NodesIn(heap, "result")
       /\ Size(copying[k].dst) <= Size(copying[k].src)
       /\ k < Len(copying) => Size(copying[k].dst) # Size(copying[k].src)
  /\ \A n \in DOMAIN heap : Under(heap, n) \cap Dsts = {}
  /\ \A j, k \in 1 .. Len(copying) : copying[j].dst = copying[k].dst => j = k

(* F has the values of the document and all that is in them, and nothing that *)
(* the call in progress made or that is being copied.  A host function may    *)
(* keep what an earlier call made, but that is in F since that call ended.    *)
Finished(F) ==
  /\ given \subseteq F
  /\ F \subseteq NodesIn(heap, "result")
  /\ Closed(heap, F)
  /\ F \cap (call.owned \cup Dsts) = {}

IInv == HeapOK /\ HostOK /\ CopyingOK /\ \E F : Finished(F)

LEMMA SizeIsNat ==
  ASSUME HeapOK, NEW n \in DOMAIN heap
  PROVE  Size(n) \in Nat /\ DOMAIN heap[n].items = 1 .. Size(n)
BY DEF HeapOK, Whole, IsNode, IsSequence, Size

LEMMA NothingCopied ==
  /\ copying = <<>> => CopyingOK /\ Dsts = {}
  /\ copying' = <<>> => CopyingOK' /\ Dsts' = {}
<1>1. <<>> \in Seq([src : Nat, dst : Nat]) /\ 1 .. Len(<<>>) = {}
  OBVIOUS
<1>2. QED
  BY <1>1 DEF CopyingOK, Dsts, Finished

LEMMA InitIInv == Init => IInv
<1> SUFFICES ASSUME Init PROVE IInv
  OBVIOUS
<1>1. DOMAIN heap = {} /\ DOMAIN bound = {} /\ copying = <<>> /\ given = {}
      /\ call = [on |-> FALSE, owned |-> {}] /\ phase = "building" /\ next = 1
  BY DEF Init, NoCall
<1>2. HeapOK
  BY <1>1 DEF HeapOK, Whole, Apart, NoCycle, Inner
<1>3. HostOK
  BY <1>1 DEF HostOK, Range
<1>4. Finished({})
  BY <1>1 DEF Finished, Closed
<1>5. QED
  BY <1>1, <1>2, <1>3, <1>4, NothingCopied DEF IInv

\* What a new node at next leaves as it is.
LEMMA Grown ==
  ASSUME HeapOK, NEW node, IsNode(node), ItemNodes(node) \subseteq NodesIn(heap, node.arena),
         heap' = Put(heap, next, node), next' = next + 1
  PROVE  /\ HeapOK'
         /\ next \notin DOMAIN heap
         /\ next \in Nat
         /\ DOMAIN heap' = DOMAIN heap \cup {next}
         /\ heap'[next] = node
         /\ Under(heap', next) = ItemNodes(node)
         /\ \A n \in DOMAIN heap : heap'[n] = heap[n] /\ Under(heap', n) = Under(heap, n)
         /\ \A a : NodesIn(heap, a) \subseteq NodesIn(heap', a)
<1>1. next \notin DOMAIN heap /\ next \in Nat
  BY DEF HeapOK
<1>2. Whole(heap')
  BY <1>1, NewNodeKeeps DEF HeapOK
<1>3. /\ DOMAIN heap' = DOMAIN heap \cup {next}
      /\ heap'[next] = node
      /\ \A n \in DOMAIN heap : heap'[n] = heap[n]
  BY <1>1 DEF Put
<1>4. HeapOK'
  BY <1>1, <1>2, <1>3 DEF HeapOK
<1>5. QED
  BY <1>1, <1>3, <1>4 DEF Under, ItemNodes, NodesIn

LEMMA NewNode ==
  ASSUME NEW arena \in {"bindings", "result"}, NEW kind \in Kinds
  PROVE  IsNode(Node(arena, kind)) /\ ItemNodes(Node(arena, kind)) = {}
         /\ Node(arena, kind).arena = arena /\ Node(arena, kind).items = <<>>
<1>1. IsSequence(<<>>) /\ DOMAIN <<>> = {}
  BY ShortSequences
<1>2. QED
  BY <1>1 DEF IsNode, ItemNodes, Node

\* What n put into c leaves as it is.
LEMMA Changed ==
  ASSUME HeapOK, NEW c \in DOMAIN heap, NEW n \in NodesIn(heap, heap[c].arena), NEW key,
         ~Reaches(heap, n, c), heap' = [heap EXCEPT ![c] = With(c, key, n)], next' = next
  PROVE  /\ HeapOK'
         /\ DOMAIN heap' = DOMAIN heap
         /\ \A m \in DOMAIN heap \ {c} : heap'[m] = heap[m] /\ Under(heap', m) = Under(heap, m)
         /\ \A a : NodesIn(heap, a) = NodesIn(heap', a)
<1> DEFINE node == With(c, key, n)
<1>1. IsNode(heap[c])
  BY DEF HeapOK, Whole
<1>2. IsNode(node) /\ node.arena = heap[c].arena /\ ItemNodes(node) \subseteq ItemNodes(heap[c]) \cup {n}
  BY <1>1, AddedNode, KeySetNode DEF With
<1>3. PICK R : n \in R /\ c \notin R /\ Closed(heap, R)
  BY ReachedIsClosed
<1> HIDE DEF node
<1>4. heap' = [heap EXCEPT ![c] = node]
  BY DEF node
<1>5. Whole(heap')
  <2>1. Whole(heap)
    BY DEF HeapOK
  <2>2. Whole([heap EXCEPT ![c] = node])
    BY ONLY <1>2, <1>3, <2>1, c \in DOMAIN heap, n \in NodesIn(heap, heap[c].arena), ChangedNodeKeeps
  <2>3. QED
    BY <1>4, <2>2
<1>6. QED
  BY <1>2, <1>4, <1>5 DEF HeapOK, NodesIn, Under

\* What finished holds as long as nothing in it changes and no call takes it over.
LEMMA FinishedGrows ==
  ASSUME NEW F, Finished(F), HeapOK,
         DOMAIN heap \subseteq DOMAIN heap',
         \A n \in F : heap'[n] = heap[n],
         given' = given,
         call'.owned \cup Dsts' \subseteq call.owned \cup Dsts \cup {next},
         next \notin DOMAIN heap
  PROVE  Finished(F)'
<1>1. F \subseteq DOMAIN heap
  BY DEF Finished, NodesIn
<1>2. F \subseteq NodesIn(heap', "result")
  BY <1>1 DEF Finished, NodesIn
<1>3. Closed(heap', F)
  BY <1>1 DEF Finished, Closed, Under
<1>4. F \cap (call'.owned \cup Dsts') = {}
  BY <1>1 DEF Finished
<1>5. QED
  BY <1>2, <1>3, <1>4 DEF Finished

\* When no call owns and nothing is copied, all of the result is finished.
LEMMA AllFinished ==
  ASSUME HeapOK', call'.owned = {}, Dsts' = {}, given' \subseteq NodesIn(heap', "result")
  PROVE  \E F : Finished(F)'
<1>1. Closed(heap', NodesIn(heap', "result"))
  BY DEF HeapOK, Whole, Apart, Closed, NodesIn
<1>2. QED
  BY <1>1 DEF Finished

LEMMA StartCopyKeeps ==
  ASSUME IInv, NEW src \in DOMAIN heap, src \notin Dsts, StartCopy(src),
         copying # <<>> => Size(CopyTop.dst) # Size(CopyTop.src),
         phase = "evaluating", UNCHANGED <<bound, call, given, phase>>
  PROVE  IInv'
<1> DEFINE node == Node("result", heap[src].kind)
           new  == [src |-> src, dst |-> next]
           N    == Len(copying)
<1>1. IsNode(node) /\ ItemNodes(node) = {} /\ node.arena = "result" /\ node.items = <<>>
  BY NewNode DEF IInv, HeapOK, Whole, IsNode
<1>2. HeapOK /\ HostOK /\ CopyingOK /\ heap' = Put(heap, next, node) /\ next' = next + 1
  BY DEF IInv, StartCopy
<1> HIDE DEF node
<1>3. /\ HeapOK'
      /\ next \notin DOMAIN heap
      /\ next \in Nat
      /\ DOMAIN heap' = DOMAIN heap \cup {next}
      /\ heap'[next] = node
      /\ Under(heap', next) = {}
      /\ \A n \in DOMAIN heap : heap'[n] = heap[n] /\ Under(heap', n) = Under(heap, n)
      /\ \A a : NodesIn(heap, a) \subseteq NodesIn(heap', a)
  BY <1>1, <1>2, Grown
<1>4. HostOK'
  BY <1>2, <1>3 DEF HostOK
<1>5. /\ N \in Nat
      /\ copying' \in Seq([src : Nat, dst : Nat])
      /\ Len(copying') = N + 1
      /\ \A k \in 1 .. N : copying'[k] = copying[k]
      /\ copying'[N + 1] = new
  <2>1. new \in [src : Nat, dst : Nat] /\ copying \in Seq([src : Nat, dst : Nat])
    BY <1>2, <1>3 DEF CopyingOK, HeapOK
  <2>2. QED
    BY <2>1 DEF StartCopy
<1> HIDE DEF new
<1>6. Dsts' = Dsts \cup {next} /\ Dsts \subseteq DOMAIN heap
  <2>1. 1 .. N + 1 = (1 .. N) \cup {N + 1}
    BY <1>5
  <2>2. Dsts' = {copying'[k].dst : k \in (1 .. N) \cup {N + 1}}
    BY <1>5, <2>1 DEF Dsts
  <2>3. new.dst = next
    BY DEF new
  <2>4. Dsts' = Dsts \cup {next}
    BY <1>5, <2>2, <2>3 DEF Dsts
  <2>5. \A k \in 1 .. N : copying[k].dst \in DOMAIN heap
    BY <1>2 DEF CopyingOK, NodesIn
  <2>6. QED
    BY <2>4, <2>5 DEF Dsts
<1>7. ASSUME NEW k \in 1 .. N
      PROVE  /\ copying[k].src \in DOMAIN heap \ Dsts
             /\ copying[k].dst \in NodesIn(heap, "result")
             /\ Size(copying[k].dst) <= Size(copying[k].src)
             /\ Size(copying[k].dst) # Size(copying[k].src)
  <2>1. CASE k < N
    BY <1>2, <2>1 DEF CopyingOK
  <2>2. CASE k = N
    BY <1>2, <1>5, <2>2 DEF CopyingOK, CopyTop, Last
  <2>3. QED
    BY <1>5, <2>1, <2>2
<1>8. \A n \in DOMAIN heap : Size(n)' = Size(n)
  BY <1>3 DEF Size
<1>9. ASSUME NEW k \in 1 .. N + 1
      PROVE  /\ copying'[k].src \in DOMAIN heap' \ Dsts'
             /\ copying'[k].dst \in NodesIn(heap', "result")
             /\ Len(heap'[copying'[k].dst].items) <= Len(heap'[copying'[k].src].items)
             /\ k < N + 1 => Len(heap'[copying'[k].dst].items) # Len(heap'[copying'[k].src].items)
  <2>1. CASE k \in 1 .. N
    <3>1. copying'[k] = copying[k]
      BY <1>5, <2>1
    <3>2. /\ copying[k].src \in DOMAIN heap \ Dsts
          /\ copying[k].dst \in NodesIn(heap, "result")
          /\ Size(copying[k].dst) <= Size(copying[k].src)
          /\ Size(copying[k].dst) # Size(copying[k].src)
      BY <1>7, <2>1
    <3>3. copying[k].dst \in DOMAIN heap
      BY <3>2 DEF NodesIn
    <3>4. /\ heap'[copying[k].dst] = heap[copying[k].dst]
          /\ heap'[copying[k].src] = heap[copying[k].src]
      BY <1>3, <3>2, <3>3
    <3>5. copying[k].src \in DOMAIN heap' \ Dsts'
      BY <1>3, <1>6, <3>2
    <3>6. copying[k].dst \in NodesIn(heap', "result")
      BY <1>3, <3>2
    <3>7. QED
      BY <3>1, <3>2, <3>4, <3>5, <3>6 DEF Size
  <2>2. CASE k = N + 1
    <3>1. copying'[k].src = src /\ copying'[k].dst = next
      BY <1>5, <2>2 DEF new
    <3>2. next \in NodesIn(heap', "result")
      BY <1>1, <1>3 DEF NodesIn
    <3>3. src \in DOMAIN heap' \ Dsts'
      BY <1>3, <1>6
    <3>4. Len(heap'[next].items) = 0
      BY <1>1, <1>3
    <3>5. Size(src) \in Nat /\ Len(heap'[src].items) = Size(src)
      BY <1>2, <1>8, SizeIsNat DEF Size
    <3>6. QED
      BY <1>5, <2>2, <3>1, <3>2, <3>3, <3>4, <3>5
  <2>3. QED
    BY <1>5, <2>1, <2>2
<1>10. \A n \in DOMAIN heap' : Under(heap', n) \cap Dsts' = {}
  BY <1>2, <1>3, <1>6 DEF CopyingOK, HeapOK, Whole, Apart, NodesIn
<1>11. \A j, k \in 1 .. N + 1 : copying'[j].dst = copying'[k].dst => j = k
  <2>1. \A j \in 1 .. N : copying[j].dst # next
    BY <1>3, <1>6 DEF Dsts
  <2>2. \A j, k \in 1 .. N : copying[j].dst = copying[k].dst => j = k
    BY <1>2 DEF CopyingOK
  <2>3. copying'[N + 1].dst = next
    BY <1>5 DEF new
  <2>4. \A k \in 1 .. N + 1 : k \in 1 .. N \/ k = N + 1
    BY <1>5
  <2>5. QED
    BY ONLY <1>5, <2>1, <2>2, <2>3, <2>4
<1>12. CopyingOK'
  BY <1>5, <1>9, <1>10, <1>11 DEF CopyingOK, Size
<1>13. PICK F : Finished(F)
  BY DEF IInv
<1>14. Finished(F)'
  <2>1. F \subseteq DOMAIN heap
    BY <1>13 DEF Finished, NodesIn
  <2>2. QED
    BY <1>2, <1>3, <1>6, <1>13, <2>1, FinishedGrows
<1>15. QED
  BY <1>3, <1>4, <1>12, <1>14 DEF IInv

LEMMA PutKeeps ==
  ASSUME IInv, copying = <<>>, NEW c \in DOMAIN heap, NEW n \in NodesIn(heap, heap[c].arena), NEW key,
         c \in call.owned \cup NodesIn(heap, "bindings"),
         ~Reaches(heap, n, c), heap' = [heap EXCEPT ![c] = With(c, key, n)],
         UNCHANGED <<next, bound, call, copying, given, phase>>
  PROVE  IInv'
<1>1. HeapOK /\ HostOK
  BY DEF IInv
<1>2. /\ HeapOK'
      /\ DOMAIN heap' = DOMAIN heap
      /\ \A m \in DOMAIN heap \ {c} : heap'[m] = heap[m] /\ Under(heap', m) = Under(heap, m)
      /\ \A a : NodesIn(heap, a) = NodesIn(heap', a)
  BY <1>1, Changed
<1>3. HostOK'
  BY <1>1, <1>2 DEF HostOK
<1>4. CopyingOK' /\ Dsts' = {}
  BY NothingCopied
<1>5. PICK F : Finished(F)
  BY DEF IInv
<1>6. Finished(F)'
  <2>1. F \subseteq DOMAIN heap /\ c \notin F
    BY <1>5 DEF Finished, NodesIn
  <2>2. next \notin DOMAIN heap
    BY <1>1 DEF HeapOK
  <2>3. QED
    BY <1>1, <1>2, <1>4, <1>5, <2>1, <2>2, FinishedGrows
<1>7. QED
  BY <1>2, <1>3, <1>4, <1>6 DEF IInv

LEMMA FrontOf ==
  ASSUME NEW T, NEW s \in Seq(T), Len(s) > 1
  PROVE  /\ Front(s) \in Seq(T)
         /\ Len(Front(s)) = Len(s) - 1
         /\ \A k \in 1 .. Len(s) - 1 : Front(s)[k] = s[k] /\ k \in 1 .. Len(s)
<1>1. Len(s) \in Nat /\ IsSequence(s)
  BY SeqIsSequence
<1>2. Len(s) - 1 \in Nat /\ Len(s) - 1 <= Len(s)
  BY <1>1
<1>3. /\ IsSequence(Front(s))
      /\ Len(Front(s)) = Len(s) - 1
      /\ \A k \in 1 .. Len(s) - 1 : Front(s)[k] = s[k]
  BY <1>1, <1>2, PrefixSequence DEF Front
<1>4. \A k \in 1 .. Len(s) - 1 : k \in 1 .. Len(s) /\ s[k] \in T
  BY <1>1
<1>5. Front(s) \in [1 .. Len(s) - 1 -> T]
  BY <1>3, <1>4 DEF IsSequence
<1>6. QED
  BY <1>2, <1>3, <1>4, <1>5

LEMMA ReturnDepth ==
  ASSUME CopyingOK, CopyReturns
  PROVE  /\ Len(copying) \in Nat /\ Len(copying) > 1 /\ copying # <<>>
         /\ Len(copying) - 1 \in 1 .. Len(copying)
<1>1. Len(copying) \in Nat
  BY DEF CopyingOK
<1>2. Len(copying) > 1
  BY DEF CopyReturns
<1>3. copying # <<>>
  BY <1>2
<1>4. QED
  BY <1>1, <1>2, <1>3

LEMMA CopyReturnsKeeps ==
  ASSUME IInv, CopyReturns
  PROVE  IInv'
<1> DEFINE N     == Len(copying)
           below == copying[N - 1]
           top   == copying[N]
           it    == heap[below.src].items[Len(heap[below.dst].items) + 1]
           node  == Added(heap[below.dst], it.key, top.dst)
<1>1. /\ HeapOK /\ HostOK /\ CopyingOK
      /\ N > 1
      /\ N \in Nat
      /\ top = CopyTop
      /\ Size(top.dst) = Size(top.src)
      /\ heap' = [heap EXCEPT ![below.dst] = node]
      /\ copying' = Front(copying)
      /\ UNCHANGED <<next, bound, call, given, phase>>
  <2>1. HeapOK /\ HostOK /\ CopyingOK
    BY DEF IInv
  <2>2. N > 1 /\ N \in Nat
    BY <2>1, ReturnDepth
  <2>3. top = CopyTop
    BY DEF CopyTop, Last
  <2>4. Size(top.dst) = Size(top.src)
    BY <2>3 DEF CopyReturns, CopyDone, Copied, Size
  <2>5. heap' = [heap EXCEPT ![below.dst] = node]
    BY <2>3 DEF CopyReturns
  <2>6. copying' = Front(copying) /\ UNCHANGED <<next, bound, call, given, phase>>
    BY DEF CopyReturns
  <2>7. QED
    BY <2>1, <2>2, <2>3, <2>4, <2>5, <2>6
<1> HIDE DEF it
<1>2. /\ below.src \in DOMAIN heap \ Dsts
      /\ below.dst \in NodesIn(heap, "result")
      /\ Size(below.dst) <= Size(below.src)
      /\ Size(below.dst) # Size(below.src)
      /\ top.dst \in NodesIn(heap, "result")
      /\ top.dst # below.dst
  <2>1. N - 1 \in 1 .. N /\ N \in 1 .. N /\ N - 1 < N /\ N - 1 # N
    BY <1>1
  <2>2. QED
    BY <1>1, <2>1 DEF CopyingOK
<1>3. /\ copying' \in Seq([src : Nat, dst : Nat])
      /\ Len(copying') = N - 1
      /\ \A k \in 1 .. N - 1 : copying'[k] = copying[k] /\ k \in 1 .. N
  <2>1. copying \in Seq([src : Nat, dst : Nat]) /\ copying' = Front(copying)
    BY <1>1 DEF CopyingOK
  <2>2. QED
    BY ONLY <1>1, <2>1, FrontOf
<1>4. /\ below.dst \in Dsts /\ top.dst \in Dsts
      /\ Dsts' \subseteq Dsts \ {top.dst}
  <2>1. N - 1 \in 1 .. N /\ N \in 1 .. N
    BY <1>1
  <2>2. below.dst \in Dsts /\ top.dst \in Dsts
    BY <2>1 DEF Dsts
  <2>3. ASSUME NEW k \in 1 .. N - 1
        PROVE  copying'[k].dst \in Dsts \ {top.dst}
    <3>1. copying'[k] = copying[k] /\ k \in 1 .. N /\ k # N
      BY <1>1, <1>3
    <3>2. copying[k].dst # top.dst
      BY <1>1, <2>1, <3>1 DEF CopyingOK
    <3>3. QED
      BY <3>1, <3>2 DEF Dsts
  <2>4. QED
    BY <1>3, <2>2, <2>3 DEF Dsts
<1>5. /\ IsNode(heap[below.dst])
      /\ heap[below.dst].arena = "result"
      /\ below.dst \in DOMAIN heap
      /\ Len(heap[below.dst].items) \in Nat
  BY <1>1, <1>2 DEF HeapOK, Whole, NodesIn, IsNode, IsSequence
<1>6. /\ IsNode(node)
      /\ node.arena = "result"
      /\ ItemNodes(node) \subseteq ItemNodes(heap[below.dst]) \cup {top.dst}
      /\ Len(node.items) = Size(below.dst) + 1
  <2>1. node.items = Append(heap[below.dst].items, Item(it.key, top.dst))
    BY <1>5 DEF Added, IsNode
  <2>2. Len(node.items) = Size(below.dst) + 1
    BY <1>5, <2>1, AppendSequence DEF Size, IsNode
  <2> HIDE DEF below, top
  <2>3. QED
    BY <1>5, <2>2, AddedNode
<1> HIDE DEF node
<1>7. /\ DOMAIN heap' = DOMAIN heap
      /\ heap'[below.dst] = node
      /\ \A m \in DOMAIN heap \ {below.dst} : heap'[m] = heap[m] /\ Under(heap', m) = Under(heap, m)
      /\ \A a : NodesIn(heap', a) = NodesIn(heap, a)
      /\ Under(heap', below.dst) \subseteq Under(heap, below.dst) \cup {top.dst}
  BY <1>1, <1>5, <1>6 DEF NodesIn, Under, ItemNodes
<1>8. HeapOK'
  <2> DEFINE R == DOMAIN heap \ {below.dst}
  <2>1. Closed(heap, R)
    BY <1>1, <1>4 DEF Closed, CopyingOK, HeapOK, Whole, Apart, NodesIn
  <2>2. top.dst \in R /\ below.dst \notin R
    BY <1>2 DEF NodesIn
  <2>3. Whole(heap)
    BY <1>1 DEF HeapOK
  <2>4. top.dst \in NodesIn(heap, heap[below.dst].arena)
    BY <1>2, <1>5
  <2> HIDE DEF R, below, top
  <2>5. Whole([heap EXCEPT ![below.dst] = node])
    BY ONLY <1>5, <1>6, <2>1, <2>2, <2>3, <2>4, ChangedNodeKeeps
  <2>6. QED
    BY <1>1, <1>7, <2>5 DEF HeapOK
<1>9. HostOK'
  <2>1. copying # <<>>
    BY <1>1
  <2>2. QED
    BY <1>1, <1>7, <2>1 DEF HostOK
<1>10. CopyingOK'
  <2>1. ASSUME NEW k \in 1 .. N - 1
        PROVE  /\ copying'[k].src \in DOMAIN heap' \ Dsts'
               /\ copying'[k].dst \in NodesIn(heap', "result")
               /\ Len(heap'[copying'[k].dst].items) <= Len(heap'[copying'[k].src].items)
               /\ k < N - 1 => Len(heap'[copying'[k].dst].items) # Len(heap'[copying'[k].src].items)
    <3>1. copying'[k] = copying[k] /\ k \in 1 .. N /\ k < N
      BY <1>1, <1>3
    <3>2. /\ copying[k].src \in DOMAIN heap \ Dsts
          /\ copying[k].dst \in NodesIn(heap, "result")
          /\ Size(copying[k].dst) <= Size(copying[k].src)
          /\ Size(copying[k].dst) # Size(copying[k].src)
      BY <1>1, <3>1 DEF CopyingOK
    <3>3. copying[k].src \in DOMAIN heap' \ Dsts' /\ copying[k].dst \in NodesIn(heap', "result")
      BY <1>4, <1>7, <3>2
    <3>4. copying[k].dst \in DOMAIN heap
      BY <3>2 DEF NodesIn
    <3>5. heap'[copying[k].src] = heap[copying[k].src]
      BY <1>4, <1>7, <3>2
    <3>6. CASE k = N - 1
      <4>1. Len(heap'[copying[k].dst].items) = Size(copying[k].dst) + 1
        BY <1>6, <1>7, <3>6
      <4>2. Size(copying[k].dst) \in Nat /\ Size(copying[k].src) \in Nat
        BY <1>1, <3>2, <3>4, SizeIsNat
      <4>3. Size(copying[k].dst) + 1 <= Size(copying[k].src)
        BY <3>2, <4>2
      <4>4. QED
        BY <3>1, <3>3, <3>5, <3>6, <4>1, <4>3, <1>1 DEF Size
    <3>7. CASE k # N - 1
      <4>1. copying[k].dst # below.dst
        <5>1. N - 1 \in 1 .. N
          BY <1>1
        <5>2. QED
          BY <1>1, <3>1, <3>7, <5>1 DEF CopyingOK
      <4>2. heap'[copying[k].dst] = heap[copying[k].dst]
        BY <1>7, <3>4, <4>1
      <4>3. QED
        BY <3>1, <3>2, <3>3, <3>5, <4>2 DEF Size
    <3>8. QED
      BY <3>6, <3>7
  <2>2. \A n \in DOMAIN heap' : Under(heap', n) \cap Dsts' = {}
    BY <1>1, <1>4, <1>5, <1>7 DEF CopyingOK
  <2>3. \A j, k \in 1 .. N - 1 : copying'[j].dst = copying'[k].dst => j = k
    BY <1>1, <1>3 DEF CopyingOK
  <2>4. QED
    BY <1>3, <2>1, <2>2, <2>3 DEF CopyingOK, Size
<1>11. PICK F : Finished(F)
  BY DEF IInv
<1>12. Finished(F)'
  <2>1. F \subseteq DOMAIN heap /\ below.dst \notin F
    BY <1>4, <1>11 DEF Finished, NodesIn
  <2>2. next \notin DOMAIN heap
    BY <1>1 DEF HeapOK
  <2>3. QED
    BY <1>1, <1>4, <1>7, <1>11, <2>1, <2>2, FinishedGrows
<1>13. QED
  BY <1>8, <1>9, <1>10, <1>12 DEF IInv

LEMMA CopyFinishedKeeps ==
  ASSUME IInv, CopyFinished
  PROVE  IInv'
<1> DEFINE n == CopyTop.dst
<1>1. /\ HeapOK /\ HostOK /\ CopyingOK
      /\ Len(copying) = 1
      /\ copying' = <<>>
      /\ UNCHANGED <<heap, next, bound, phase>>
  BY DEF IInv, CopyFinished
<1>2. n \in NodesIn(heap, "result") /\ n \in Dsts /\ n \in Nat
  <2>1. n = copying[1].dst
    BY <1>1 DEF CopyTop, Last
  <2>2. QED
    BY <1>1, <2>1 DEF CopyingOK, Dsts, HeapOK, NodesIn
<1> HIDE DEF n
<1>3. HeapOK' /\ CopyingOK' /\ Dsts' = {}
  BY <1>1, NothingCopied DEF HeapOK
<1>4. phase = "evaluating"
  <2>1. copying # <<>>
    BY <1>1
  <2>2. QED
    BY <1>1, <2>1 DEF HostOK
<1>5. CASE call.on
  <2>1. given' = given /\ call' = [call EXCEPT !.owned = IF heap[n].kind = "scalar" THEN @ ELSE @ \cup {n}]
    BY <1>5 DEF CopyFinished, n
  <2>2. /\ call' \in [on : BOOLEAN, owned : SUBSET Nat]
        /\ call'.on
        /\ call'.owned \subseteq call.owned \cup {n}
    BY <1>1, <1>2, <1>5, <2>1 DEF HostOK
  <2>3. HostOK'
    BY <1>1, <1>2, <1>4, <2>2 DEF HostOK
  <2>4. PICK F : Finished(F)
    BY DEF IInv
  <2>5. Finished(F)'
    BY <1>1, <1>2, <1>3, <2>1, <2>2, <2>4 DEF Finished
  <2>6. QED
    BY <1>3, <2>3, <2>5 DEF IInv
<1>6. CASE ~call.on
  <2>1. given' = given \cup {n} /\ call' = call
    BY <1>6 DEF CopyFinished, n
  <2>2. HostOK'
    BY <1>1, <1>4, <2>1 DEF HostOK
  <2>3. given \subseteq NodesIn(heap, "result")
    BY DEF IInv, Finished
  <2>4. call'.owned = {} /\ given' \subseteq NodesIn(heap', "result")
    BY <1>1, <1>2, <1>6, <2>1, <2>3 DEF HostOK
  <2>5. \E F : Finished(F)'
    BY <1>3, <2>4, AllFinished
  <2>6. QED
    BY <1>3, <2>2, <2>5 DEF IInv
<1>7. QED
  BY <1>5, <1>6

\* A step that makes and changes no value.
LEMMA SameHeapKeeps ==
  ASSUME IInv, UNCHANGED <<heap, next, copying, given>>, call'.owned \subseteq call.owned, HostOK'
  PROVE  IInv'
<1>1. HeapOK' /\ CopyingOK' /\ Dsts' = Dsts
  BY DEF IInv, HeapOK, CopyingOK, Dsts, Size
<1>2. PICK F : Finished(F)
  BY DEF IInv
<1>3. Finished(F)'
  BY <1>1, <1>2 DEF Finished
<1>4. QED
  BY <1>1, <1>3 DEF IInv

\* A new node that is not for the document yet.
LEMMA NewValueKeeps ==
  ASSUME IInv, copying = <<>>, NEW arena \in {"bindings", "result"}, NEW kind \in Kinds,
         heap' = Put(heap, next, Node(arena, kind)), next' = next + 1,
         UNCHANGED <<bound, copying, given, phase>>,
         \/ call' = call
         \/ call.on /\ arena = "result" /\ call' = [call EXCEPT !.owned = @ \cup {next}]
  PROVE  IInv'
<1> DEFINE node == Node(arena, kind)
<1>1. HeapOK /\ HostOK
  BY DEF IInv
<1>2. IsNode(node) /\ ItemNodes(node) = {} /\ node.arena = arena
  BY NewNode
<1> HIDE DEF node
<1>3. heap' = Put(heap, next, node)
  BY DEF node
<1>4. /\ HeapOK'
      /\ next \notin DOMAIN heap
      /\ next \in Nat
      /\ DOMAIN heap' = DOMAIN heap \cup {next}
      /\ heap'[next] = node
      /\ \A n \in DOMAIN heap : heap'[n] = heap[n]
      /\ \A a : NodesIn(heap, a) \subseteq NodesIn(heap', a)
  BY <1>1, <1>2, <1>3, Grown
<1>5. CopyingOK' /\ Dsts' = {}
  BY NothingCopied
<1>6. /\ call' \in [on : BOOLEAN, owned : SUBSET Nat]
      /\ call'.on = call.on
      /\ call'.owned \subseteq call.owned \cup {next}
      /\ arena # "result" \/ ~call.on => call'.owned = call.owned
  BY <1>1, <1>4 DEF HostOK
<1>7. next \in NodesIn(heap', arena)
  BY <1>2, <1>4 DEF NodesIn
<1>8. call'.owned \subseteq NodesIn(heap', "result")
  BY <1>1, <1>4, <1>6, <1>7 DEF HostOK
<1>9. HostOK'
  BY <1>1, <1>4, <1>6, <1>8 DEF HostOK
<1>10. PICK F : Finished(F)
  BY DEF IInv
<1>11. Finished(F)'
  <2>1. F \subseteq DOMAIN heap
    BY <1>10 DEF Finished, NodesIn
  <2>2. QED
    BY <1>1, <1>4, <1>5, <1>6, <1>10, <2>1, FinishedGrows
<1>12. QED
  BY <1>4, <1>5, <1>9, <1>11 DEF IInv

LEMMA MakeValueKeeps ==
  ASSUME IInv, NEW kind \in Kinds, NEW ns \in SeqOf(given, MaxItems), MakeValue(kind, ns)
  PROVE  IInv'
<1> DEFINE keys == SetToSeq(Keys)
           its  == [i \in DOMAIN ns |-> Item(IF kind = "object" THEN keys[i] ELSE NoName, ns[i])]
           node == [Node("result", kind) EXCEPT !.items = its]
<1>1. /\ HeapOK /\ HostOK
      /\ copying = <<>>
      /\ heap' = Put(heap, next, node)
      /\ next' = next + 1
      /\ given' = given \cup {next}
      /\ UNCHANGED <<bound, copying, call, phase>>
  BY DEF IInv, MakeValue, Evaluating, Idle
<1>2. PICK m \in Nat : ns \in [1 .. m -> given]
  BY BoundsAssumption DEF SeqOf
<1>3. IsNode(node) /\ ItemNodes(node) \subseteq given /\ node.arena = "result"
  <2>1. node.items = its /\ node.arena = "result" /\ node.kind = kind
        /\ DOMAIN node = {"arena", "kind", "items"}
    BY DEF Node
  <2>2. its \in Seq({its[i] : i \in 1 .. m})
    BY <1>2
  <2>3. IsSequence(its)
    BY <2>2, SeqIsSequence
  <2>4. \A i \in DOMAIN its : its[i].node \in given
    BY <1>2 DEF Item
  <2> HIDE DEF its, node
  <2>5. QED
    BY <2>1, <2>3, <2>4 DEF IsNode, ItemNodes
<1> HIDE DEF node
<1>4. PICK F : Finished(F)
  BY DEF IInv
<1>5. given \subseteq F /\ F \subseteq NodesIn(heap, "result")
  BY <1>4 DEF Finished
<1>6. /\ HeapOK'
      /\ next \notin DOMAIN heap
      /\ DOMAIN heap' = DOMAIN heap \cup {next}
      /\ heap'[next] = node
      /\ Under(heap', next) = ItemNodes(node)
      /\ \A n \in DOMAIN heap : heap'[n] = heap[n] /\ Under(heap', n) = Under(heap, n)
      /\ \A a : NodesIn(heap, a) \subseteq NodesIn(heap', a)
  BY <1>1, <1>3, <1>5, Grown
<1>7. HostOK'
  BY <1>1, <1>6 DEF HostOK
<1>8. CopyingOK' /\ Dsts' = {}
  BY <1>1, NothingCopied
<1>9. \E G : Finished(G)'
  <2> PICK G : G = F \cup {next}
    OBVIOUS
  <2>1. next \in NodesIn(heap', "result")
    BY <1>3, <1>6 DEF NodesIn
  <2>2. F \subseteq DOMAIN heap
    BY <1>5 DEF NodesIn
  <2>3. Closed(heap', G)
    BY <1>3, <1>4, <1>5, <1>6, <2>2 DEF Finished, Closed
  <2>4. call'.owned \subseteq DOMAIN heap
    BY <1>1 DEF HostOK, NodesIn
  <2>5. QED
    BY <1>1, <1>4, <1>5, <1>6, <1>8, <2>1, <2>3, <2>4 DEF Finished
<1>10. QED
  BY <1>6, <1>7, <1>8, <1>9 DEF IInv

\* One arena freed, when the evaluation is over.
LEMMA FreedKeeps ==
  ASSUME IInv, ~call.on, copying = <<>>, NEW arena \in {"bindings", "result"},
         heap' = [n \in NodesIn(heap, arena) |-> heap[n]],
         UNCHANGED <<next, call, copying>>,
         IF arena = "bindings" THEN given' = {} /\ bound' = bound
                               ELSE given' = given /\ Range(bound') = {}
  PROVE  IInv'
<1>1. HeapOK /\ HostOK
  BY DEF IInv
<1>2. DOMAIN heap' = NodesIn(heap, arena) /\ NodesIn(heap', arena) = NodesIn(heap, arena)
  BY DEF NodesIn
<1>3. HeapOK'
  <2>1. Whole(heap')
    BY <1>1, FreeKeeps DEF HeapOK
  <2>2. QED
    BY <1>1, <1>2, <2>1 DEF HeapOK, NodesIn
<1>4. call'.owned = {}
  BY <1>1 DEF HostOK
<1>5. HostOK'
  BY <1>1, <1>2, <1>4 DEF HostOK
<1>6. CopyingOK' /\ Dsts' = {}
  BY NothingCopied
<1>7. given' \subseteq NodesIn(heap', "result")
  BY <1>2 DEF IInv, Finished
<1>8. \E F : Finished(F)'
  BY <1>3, <1>4, <1>6, <1>7, AllFinished
<1>9. QED
  BY <1>3, <1>5, <1>6, <1>8 DEF IInv

LEMMA NextIInv == IInv /\ [Next]_vars => IInv'
<1> SUFFICES ASSUME IInv, [Next]_vars
             PROVE  IInv'
  OBVIOUS
<1>0. HeapOK /\ HostOK /\ CopyingOK
  BY DEF IInv
<1>a. phase = "building" => ~call.on /\ copying = <<>>
  BY <1>0 DEF HostOK
<1>b. call.on \/ copying # <<>> => phase = "evaluating"
  BY <1>0 DEF HostOK
<1>c. ASSUME NEW key, NEW c, NEW n
      PROVE  /\ {c, n} \subseteq NodesIn(heap, "bindings") => n \in NodesIn(heap, heap[c].arena) /\ c \in DOMAIN heap
             /\ {c, n} \subseteq NodesIn(heap, "result") => n \in NodesIn(heap, heap[c].arena) /\ c \in DOMAIN heap
  BY DEF NodesIn
<1>1. ASSUME NEW kind \in Kinds, NewBoundValue(kind) PROVE IInv'
  <2>1. copying = <<>>
    BY <1>1, <1>a DEF NewBoundValue, MayBuild, InCall, Idle
  <2>2. /\ heap' = Put(heap, next, Node("bindings", kind))
        /\ next' = next + 1
        /\ UNCHANGED <<bound, copying, given, phase, call>>
    BY <1>1 DEF NewBoundValue
  <2>3. QED
    BY <2>1, <2>2, NewValueKeeps
<1>2. ASSUME NEW c \in DOMAIN heap, NEW n \in DOMAIN heap, NEW key, PutIntoBound(c, key, n) PROVE IInv'
  <2>1. copying = <<>>
    BY <1>2, <1>a DEF PutIntoBound, MayBuild, InCall, Idle
  <2>2. /\ {c, n} \subseteq NodesIn(heap, "bindings")
        /\ ~Reaches(heap, n, c)
        /\ heap' = [heap EXCEPT ![c] = With(c, key, n)]
        /\ UNCHANGED <<next, bound, call, copying, given, phase>>
    BY <1>2 DEF PutIntoBound, MayHold
  <2>3. QED
    BY <1>c, <2>1, <2>2, PutKeeps
<1>3. ASSUME NEW name, NEW n \in DOMAIN heap, Bind(name, n) PROVE IInv'
  <2>1. /\ bound' = Put(bound, name, n)
        /\ n \in NodesIn(heap, "bindings")
        /\ UNCHANGED <<heap, next, call, copying, given, phase>>
    BY <1>3 DEF Bind
  <2>2. Range(bound') \subseteq Range(bound) \cup {n}
    BY <2>1 DEF Range, Put
  <2>3. HostOK'
    BY <1>0, <2>1, <2>2 DEF HostOK
  <2>4. QED
    BY <2>1, <2>3, SameHeapKeeps
<1>4. CASE StartEvaluation
  <2>1. /\ phase' = "evaluating"
        /\ UNCHANGED <<heap, next, bound, call, copying, given>>
    BY <1>4 DEF StartEvaluation
  <2>2. QED
    BY <1>0, <2>1, SameHeapKeeps DEF HostOK
<1>5. ASSUME NEW kind \in Kinds, NEW ns \in SeqOf(given, MaxItems), MakeValue(kind, ns) PROVE IInv'
  BY <1>5, MakeValueKeeps
<1>6. ASSUME NEW name \in DOMAIN bound, UseBinding(name) PROVE IInv'
  <2>1. /\ copying = <<>>
        /\ phase = "evaluating"
        /\ StartCopy(bound[name])
        /\ UNCHANGED <<bound, call, given, phase>>
    BY <1>6 DEF UseBinding, Evaluating, Idle
  <2>2. bound[name] \in DOMAIN heap
    BY <1>0, <1>6 DEF HostOK, Range, NodesIn
  <2>3. bound[name] \notin Dsts
    BY <2>1, NothingCopied
  <2>4. QED
    BY <2>1, <2>2, <2>3, StartCopyKeeps
<1>7. CASE EvaluatorFails
  <2>1. UNCHANGED <<heap, next, bound, call, copying, given, phase>>
    BY <1>7 DEF EvaluatorFails
  <2>2. QED
    BY <1>0, <2>1, SameHeapKeeps DEF HostOK
<1>8. CASE Return
  <2>1. ~call.on /\ copying = <<>> /\ UNCHANGED <<next, bound, call, copying>>
    BY <1>8 DEF Return, Idle
  <2>2. CASE failed
    <3>1. heap' = [n \in NodesIn(heap, "bindings") |-> heap[n]] /\ given' = {}
      BY <1>8, <2>2 DEF Return
    <3>2. QED
      BY <2>1, <3>1, FreedKeeps
  <2>3. CASE ~failed
    <3>1. UNCHANGED <<heap, given>>
      BY <1>8, <2>3 DEF Return
    <3>2. QED
      BY <1>0, <2>1, <3>1, SameHeapKeeps DEF HostOK
  <2>4. QED
    BY <2>2, <2>3
<1>9. CASE CopyItem
  <2> DEFINE N   == Len(copying)
             top == copying[N]
             src == heap[top.src].items[Size(top.dst) + 1].node
  <2>1. /\ copying # <<>>
        /\ top = CopyTop
        /\ Size(top.dst) # Size(top.src)
        /\ StartCopy(src)
        /\ UNCHANGED <<bound, call, given, phase>>
    BY <1>9 DEF CopyItem, CopyTop, Last, CopyDone, Copied, Size
  <2>2. N \in 1 .. N
    BY <1>0, <2>1 DEF CopyingOK
  <2>3. /\ top.src \in DOMAIN heap
        /\ top.dst \in DOMAIN heap
        /\ Size(top.dst) <= Size(top.src)
    BY <1>0, <2>2 DEF CopyingOK, NodesIn
  <2>4. Size(top.dst) + 1 \in DOMAIN heap[top.src].items
    <3>1. Size(top.dst) \in Nat /\ Size(top.src) \in Nat /\ DOMAIN heap[top.src].items = 1 .. Size(top.src)
      BY <1>0, <2>3, SizeIsNat
    <3>2. QED
      BY <2>1, <2>3, <3>1
  <2>5. src \in Under(heap, top.src)
    BY <2>4 DEF Under
  <2>6. src \in DOMAIN heap
    BY <1>0, <2>3, <2>5 DEF HeapOK, Whole, Apart, NodesIn
  <2>7. src \notin Dsts
    BY <1>0, <2>3, <2>5 DEF CopyingOK
  <2> HIDE DEF src
  <2>8. QED
    BY <1>b, <2>1, <2>6, <2>7, StartCopyKeeps
<1>10. CASE CopyReturns
  BY <1>10, CopyReturnsKeeps
<1>11. CASE CopyFinished
  BY <1>11, CopyFinishedKeeps
<1>12. CASE BeginCall
  <2>1. /\ call' = [on |-> TRUE, owned |-> {}]
        /\ phase = "evaluating"
        /\ UNCHANGED <<heap, next, bound, copying, given, phase>>
    BY <1>12 DEF BeginCall, Evaluating
  <2>2. HostOK'
    BY <1>0, <2>1 DEF HostOK
  <2>3. QED
    BY <2>1, <2>2, SameHeapKeeps
<1>13. ASSUME NEW kind \in Kinds, NewCallValue(kind) PROVE IInv'
  <2>1. /\ call.on
        /\ copying = <<>>
        /\ heap' = Put(heap, next, Node("result", kind))
        /\ next' = next + 1
        /\ call' = [call EXCEPT !.owned = IF kind = "scalar" THEN @ ELSE @ \cup {next}]
        /\ UNCHANGED <<bound, copying, given, phase>>
    BY <1>13 DEF NewCallValue, InCall, Idle
  <2>2. call' = call \/ call' = [call EXCEPT !.owned = @ \cup {next}]
    BY <1>0, <2>1 DEF HostOK
  <2>3. QED
    BY <2>1, <2>2, NewValueKeeps
<1>14. ASSUME NEW c \in DOMAIN heap, NEW n \in DOMAIN heap, NEW key, PutIntoOwned(c, key, n) PROVE IInv'
  <2>1. /\ copying = <<>>
        /\ {c, n} \subseteq NodesIn(heap, "result")
        /\ c \in call.owned
        /\ ~Reaches(heap, n, c)
        /\ heap' = [heap EXCEPT ![c] = With(c, key, n)]
        /\ UNCHANGED <<next, bound, call, copying, given, phase>>
    BY <1>14 DEF PutIntoOwned, MayHold, InCall, Idle
  <2>2. QED
    BY <1>c, <2>1, PutKeeps
<1>15. ASSUME NEW src \in DOMAIN heap, CallCopy(src) PROVE IInv'
  <2>1. /\ copying = <<>>
        /\ call.on
        /\ StartCopy(src)
        /\ UNCHANGED <<bound, call, given, phase>>
    BY <1>15 DEF CallCopy, InCall, Idle
  <2>2. src \notin Dsts
    BY <2>1, NothingCopied
  <2>3. QED
    BY <1>b, <2>1, <2>2, StartCopyKeeps
<1>16. CASE CallError
  <2>1. UNCHANGED <<heap, next, bound, call, copying, given, phase>>
    BY <1>16 DEF CallError
  <2>2. QED
    BY <1>0, <2>1, SameHeapKeeps DEF HostOK
<1>17. ASSUME NEW n \in DOMAIN heap, CallReturns(n) PROVE IInv'
  <2>1. /\ copying = <<>>
        /\ n \in NodesIn(heap, "result")
        /\ given' \subseteq given \cup {n}
        /\ call' = [on |-> FALSE, owned |-> {}]
        /\ UNCHANGED <<heap, next, bound, copying, phase>>
    BY <1>17 DEF CallReturns, InCall, Idle, NoCall
  <2>2. HeapOK' /\ HostOK'
    BY <1>0, <2>1 DEF HostOK, HeapOK
  <2>3. CopyingOK' /\ Dsts' = {}
    BY <2>1, NothingCopied
  <2>4. given \subseteq NodesIn(heap, "result")
    BY DEF IInv, Finished
  <2>5. \E F : Finished(F)'
    BY <2>1, <2>2, <2>3, <2>4, AllFinished
  <2>6. QED
    BY <2>2, <2>3, <2>5 DEF IInv
<1>18. CASE CallReturnsNull
  <2>1. /\ call' = [on |-> FALSE, owned |-> {}]
        /\ copying = <<>>
        /\ UNCHANGED <<heap, next, bound, copying, given, phase>>
    BY <1>18 DEF CallReturnsNull, NoCall, InCall, Idle
  <2>2. HostOK'
    BY <1>0, <2>1 DEF HostOK
  <2>3. QED
    BY <2>1, <2>2, SameHeapKeeps
<1>19. CASE FreeBindings
  <2>1. /\ phase # "evaluating"
        /\ heap' = [n \in NodesIn(heap, "result") |-> heap[n]]
        /\ bound' = [name \in {} |-> 0]
        /\ UNCHANGED <<next, call, copying, given>>
    BY <1>19 DEF FreeBindings
  <2>2. ~call.on /\ copying = <<>> /\ Range(bound') = {}
    BY <1>0, <2>1 DEF HostOK, Range
  <2>3. QED
    BY <2>1, <2>2, FreedKeeps
<1>20. CASE UNCHANGED vars
  BY <1>20 DEF vars, IInv, HeapOK, HostOK, CopyingOK, Dsts, Size, Finished
<1>21. QED
  BY <1>1, <1>2, <1>3, <1>4, <1>5, <1>6, <1>7, <1>8, <1>9, <1>10, <1>11, <1>12, <1>13, <1>14,
     <1>15, <1>16, <1>17, <1>18, <1>19, <1>20 DEF Next, Build, Evaluate, Copy, HostFunction

\* No step but the end of a failed evaluation changes what is finished.
LEMMA FinishedStays ==
  ASSUME IInv, [Next]_vars, phase' # "failed", NEW F, Finished(F)
  PROVE  \A n \in F : n \in DOMAIN heap' /\ heap'[n] = heap[n]
<1> DEFINE Stays == \A n \in F : n \in DOMAIN heap' /\ heap'[n] = heap[n]
<1> SUFFICES Stays
  OBVIOUS
<1>1. /\ HeapOK /\ HostOK /\ CopyingOK
      /\ next \notin DOMAIN heap
      /\ F \subseteq DOMAIN heap
      /\ F \subseteq NodesIn(heap, "result")
      /\ F \cap (call.owned \cup Dsts) = {}
      /\ F \cap NodesIn(heap, "bindings") = {}
  BY DEF IInv, HeapOK, Finished, NodesIn
<1>2. ASSUME NEW node, heap' = Put(heap, next, node) PROVE Stays
  BY <1>1, <1>2 DEF Put
<1>3. ASSUME NEW c, NEW node, heap' = [heap EXCEPT ![c] = node],
             c \in NodesIn(heap, "bindings") \cup call.owned \cup Dsts
      PROVE  Stays
  BY <1>1, <1>3
<1>4. CASE UNCHANGED heap
  BY <1>1, <1>4
<1> HIDE DEF Stays
<1>5. CASE Build
  <2>1. ASSUME NEW kind \in Kinds, NewBoundValue(kind) PROVE Stays
    BY <1>2, <2>1 DEF NewBoundValue
  <2>2. ASSUME NEW c, NEW n, NEW key, PutIntoBound(c, key, n) PROVE Stays
    BY <1>3, <2>2 DEF PutIntoBound
  <2>3. ASSUME NEW name, NEW n, Bind(name, n) PROVE Stays
    BY <1>4, <2>3 DEF Bind
  <2>4. QED
    BY <1>5, <2>1, <2>2, <2>3 DEF Build
<1>6. CASE Evaluate
  <2>1. ASSUME NEW kind, NEW ns, MakeValue(kind, ns) PROVE Stays
    BY <1>2, <2>1 DEF MakeValue
  <2>2. ASSUME NEW name, UseBinding(name) PROVE Stays
    BY <1>2, <2>2 DEF UseBinding, StartCopy
  <2>3. CASE Return
    BY <1>4, <2>3 DEF Return
  <2>4. QED
    BY <1>4, <1>6, <2>1, <2>2, <2>3 DEF Evaluate, StartEvaluation, EvaluatorFails
<1>7. CASE Copy
  <2>1. CASE CopyItem
    BY <1>2, <2>1 DEF CopyItem, StartCopy
  <2>2. CASE CopyReturns
    <3> DEFINE below == copying[Len(copying) - 1]
    <3>1. below.dst \in Dsts
      <4>1. Len(copying) - 1 \in 1 .. Len(copying)
        BY <1>1, <2>2, ReturnDepth DEF IInv
      <4>2. QED
        BY <4>1 DEF Dsts
    <3>2. PICK node : heap' = [heap EXCEPT ![below.dst] = node]
      BY <2>2 DEF CopyReturns
    <3>3. QED
      BY <1>3, <3>1, <3>2
  <2>3. QED
    BY <1>4, <1>7, <2>1, <2>2 DEF Copy, CopyFinished
<1>8. CASE HostFunction
  <2>1. ASSUME NEW kind, NewCallValue(kind) PROVE Stays
    BY <1>2, <2>1 DEF NewCallValue
  <2>2. ASSUME NEW c, NEW n, NEW key, PutIntoOwned(c, key, n) PROVE Stays
    BY <1>3, <2>2 DEF PutIntoOwned
  <2>3. ASSUME NEW src, CallCopy(src) PROVE Stays
    BY <1>2, <2>3 DEF CallCopy, StartCopy
  <2>4. ASSUME NEW n, CallReturns(n) PROVE Stays
    BY <1>4, <2>4 DEF CallReturns
  <2>5. QED
    BY <1>4, <1>8, <2>1, <2>2, <2>3, <2>4 DEF HostFunction, BeginCall, CallError, CallReturnsNull
<1>9. CASE FreeBindings
  <2>1. heap' = [n \in NodesIn(heap, "result") |-> heap[n]]
    BY <1>9 DEF FreeBindings
  <2>2. QED
    BY <1>1, <2>1 DEF Stays
<1>10. CASE UNCHANGED vars
  BY <1>4, <1>10 DEF vars
<1>11. QED
  BY <1>5, <1>6, <1>7, <1>8, <1>9, <1>10 DEF Next, Stays

-----------------------------------------------------------------------------
(* The theorems *)

\* Every pointer of the bindings, of the call, of the document and of a copy in the
\* making is to a node that is allocated: cl_call_invoke, cl_val_copy and the two arenas.
THEOREM TypeCorrect == Spec => []TypeOK
<1>1. IInv => TypeOK
  <2> SUFFICES ASSUME IInv PROVE TypeOK
    OBVIOUS
  <2>1. HeapOK /\ HostOK /\ CopyingOK /\ given \subseteq DOMAIN heap
    BY DEF IInv, Finished, NodesIn
  <2>2. DOMAIN copying = 1 .. Len(copying)
    BY <2>1 DEF CopyingOK
  <2>3. \A k \in 1 .. Len(copying) : copying[k].src \in DOMAIN heap /\ copying[k].dst \in DOMAIN heap
    BY <2>1 DEF CopyingOK, NodesIn
  <2>4. Range(bound) \subseteq DOMAIN heap /\ call.owned \subseteq DOMAIN heap
    BY <2>1 DEF HostOK, NodesIn
  <2>5. QED
    BY <2>1, <2>2, <2>3, <2>4 DEF TypeOK, HeapOK, Whole
<1>2. QED
  BY InitIInv, NextIInv, <1>1, PTL DEF Spec

\* No value ever contains itself: cl_bindings_list_add and the other three refuse what
\* would close a cycle, and no other way to make or to copy a value closes one.
THEOREM NoCycles == Spec => []Acyclic
<1>1. IInv => Acyclic
  BY DEF IInv, HeapOK, Whole, NoCycle, Acyclic
<1>2. QED
  BY InitIInv, NextIInv, <1>1, PTL DEF Spec

\* No value of the result points into the bindings, nor the other way round, and the
\* document only has values of the result: cl_eval_binding and cl_call_copy copy.
THEOREM ArenasStayApart == Spec => []ArenasApart
<1>1. IInv => ArenasApart
  BY DEF IInv, HeapOK, Whole, Apart, Finished, ArenasApart
<1>2. QED
  BY InitIInv, NextIInv, <1>1, PTL DEF Spec

\* No host function changes a value the document has, whatever it kept from the calls
\* before: cl_call_list_add and cl_call_object_set only take what their own call made.
THEOREM ValuesAreFixed == Spec => ValuesNeverChange
<1> DEFINE Fixed == \A v \in given, n \in DOMAIN heap :
                      phase' # "failed" /\ Reaches(heap, v, n) => n \in DOMAIN heap' /\ heap'[n] = heap[n]
<1>1. IInv /\ [Next]_vars => Fixed
  <2> SUFFICES ASSUME IInv, [Next]_vars, NEW v \in given, NEW n \in DOMAIN heap,
                      phase' # "failed", Reaches(heap, v, n)
               PROVE  n \in DOMAIN heap' /\ heap'[n] = heap[n]
    OBVIOUS
  <2>1. PICK F : Finished(F)
    BY DEF IInv
  <2>2. v \in F \cap DOMAIN heap /\ Closed(heap, F)
    BY <2>1 DEF Finished, NodesIn
  <2>3. n \in F
    BY <2>2, ReachesLeast
  <2>4. QED
    BY <2>1, <2>3, FinishedStays
<1>2. QED
  BY InitIInv, NextIInv, <1>1, PTL DEF Spec, ValuesNeverChange

-----------------------------------------------------------------------------
(***************************************************************************)
(* No object of a host, of a call or of the result has a key twice.        *)
(***************************************************************************)
KeysApart(node) == \A i, j \in DOMAIN node.items : node.items[i].key = node.items[j].key => i = j

(* A copy in the making has the keys that the items it has are copied from.  *)
(* KeysOnce is not inductive without it: the key that CopyReturns adds is    *)
(* not looked up, it is new because the object that is copied has it once.   *)
KeysCopied ==
  \A k \in 1 .. Len(copying) :
    LET src == copying[k].src
        dst == copying[k].dst
    IN  /\ heap[dst].kind = heap[src].kind
        /\ \A i \in DOMAIN heap[dst].items : heap[dst].items[i].key = heap[src].items[i].key

KInv == IInv /\ KeysOnce /\ KeysCopied

-----------------------------------------------------------------------------
(* Keys of one object *)

LEMMA AddedKeys ==
  ASSUME NEW node, IsNode(node), NEW key, NEW n, KeysApart(node),
         \A i \in DOMAIN node.items : node.items[i].key # key
  PROVE  KeysApart(Added(node, key, n))
<1> DEFINE its == Append(node.items, Item(key, n))
           N   == Len(node.items)
<1>1. /\ N \in Nat
      /\ DOMAIN node.items = 1 .. N
      /\ DOMAIN its = 1 .. N + 1
      /\ \A i \in 1 .. N : its[i] = node.items[i]
      /\ its[N + 1].key = key
  BY AppendSequence DEF IsNode, IsSequence, Item
<1>2. Added(node, key, n).items = its
  BY DEF Added, IsNode
<1> HIDE DEF its, N
<1>3. \A i \in 1 .. N + 1 : i \in 1 .. N \/ i = N + 1
  BY <1>1
<1>4. ASSUME NEW i \in 1 .. N + 1, NEW j \in 1 .. N + 1, its[i].key = its[j].key
      PROVE  i = j
  BY <1>1, <1>3, <1>4 DEF KeysApart
<1>5. QED
  BY <1>1, <1>2, <1>4 DEF KeysApart

\* The search of cl_val_object_set misses no key.
LEMMA NoKeyFound ==
  ASSUME NEW node, IsNode(node), NEW key, SelectInSeq(node.items, LAMBDA it : it.key = key) = 0
  PROVE  \A i \in DOMAIN node.items : node.items[i].key # key
<1> DEFINE I == {i \in 1 .. Len(node.items) : node.items[i].key = key}
<1>1. Len(node.items) \in Nat /\ DOMAIN node.items = 1 .. Len(node.items)
  BY DEF IsNode, IsSequence
<1>2. SelectInSeq(node.items, LAMBDA it : it.key = key) = IF I # {} THEN Min(I) ELSE 0
  BY DEF SelectInSeq
<1>3. I = {}
  <2>1. SUFFICES ASSUME I # {} PROVE FALSE
    OBVIOUS
  <2>2. Min(I) \in I
    BY <1>1, <2>1, LeastPlace
  <2>3. 0 \in 1 .. Len(node.items)
    BY <1>2, <2>1, <2>2
  <2>4. QED
    BY <1>1, <2>3
<1>4. QED
  BY <1>1, <1>3

LEMMA SetKeys ==
  ASSUME NEW node, IsNode(node), NEW key, NEW n, KeysApart(node)
  PROVE  KeysApart(KeySet(node, key, n))
<1> DEFINE at == SelectInSeq(node.items, LAMBDA it : it.key = key)
<1>1. CASE at = 0
  <2>1. \A i \in DOMAIN node.items : node.items[i].key # key
    BY <1>1, NoKeyFound
  <2>2. KeySet(node, key, n) = Added(node, key, n)
    BY <1>1 DEF KeySet
  <2>3. QED
    BY <2>1, <2>2, AddedKeys
<1>2. CASE at # 0
  <2> DEFINE set == [node EXCEPT !.items[at].node = n]
  <2>1. KeySet(node, key, n) = set
    BY <1>2 DEF KeySet
  <2> HIDE DEF at
  <2>2. set.items = [node.items EXCEPT ![at].node = n]
    BY DEF IsNode
  <2> HIDE DEF set
  <2>3. DOMAIN set.items = DOMAIN node.items
    BY <2>2
  <2>4. QED
    BY <2>1, <2>2, <2>3 DEF KeysApart
<1>3. QED
  BY <1>1, <1>2

LEMMA WithKeys ==
  ASSUME HeapOK, NEW c \in DOMAIN heap, NEW key, NEW n, heap[c].kind = "object" => KeysApart(heap[c])
  PROVE  With(c, key, n).kind = "object" => KeysApart(With(c, key, n))
<1>1. IsNode(heap[c])
  BY DEF HeapOK, Whole
<1>2. CASE heap[c].kind = "list"
  BY <1>1, <1>2 DEF With, Added, IsNode
<1>3. CASE heap[c].kind = "object"
  BY <1>1, <1>3, SetKeys DEF With
<1>4. CASE heap[c].kind = "scalar"
  <2>1. KeySet(heap[c], key, n).kind = "scalar"
    BY <1>1, <1>4 DEF KeySet, Added, IsNode
  <2>2. QED
    BY <1>4, <2>1 DEF With
<1>5. QED
  BY <1>1, <1>2, <1>3, <1>4 DEF IsNode, Kinds

\* The keys of an object the evaluator makes are different ones.
LEMMA KeysInOrder ==
  \A i, j \in 1 .. Cardinality(Keys) : SetToSeq(Keys)[i] = SetToSeq(Keys)[j] => i = j
<1> DEFINE n == Cardinality(Keys)
<1>1. PICK f : f \in Bijection(1 .. n, Keys)
  BY KeysAssumption, FS_CardinalityType DEF ExistsBijection
<1>2. f \in [1 .. n -> Keys] /\ IsInjective(f)
  BY <1>1 DEF Bijection, Injection, IsInjective
<1>3. SetToSeq(Keys) \in [1 .. n -> Keys] /\ IsInjective(SetToSeq(Keys))
  BY <1>2 DEF SetToSeq
<1>4. QED
  BY <1>3 DEF IsInjective

-----------------------------------------------------------------------------
(* Steps *)

\* A new node.
LEMMA GrownKeys ==
  ASSUME HeapOK, KeysOnce, NEW node, node.kind = "object" => KeysApart(node),
         heap' = Put(heap, next, node)
  PROVE  /\ KeysOnce'
         /\ heap'[next] = node
         /\ \A n \in DOMAIN heap : heap'[n] = heap[n]
<1>1. /\ next \notin DOMAIN heap
      /\ DOMAIN heap' = DOMAIN heap \cup {next}
      /\ heap'[next] = node
      /\ \A n \in DOMAIN heap : heap'[n] = heap[n]
  BY DEF HeapOK, Put
<1>2. QED
  BY <1>1 DEF KeysOnce, KeysApart

\* A new node, and no copy starts.
LEMMA NewNodeKeys ==
  ASSUME KInv, NEW node, node.kind = "object" => KeysApart(node), heap' = Put(heap, next, node),
         copying' = copying
  PROVE  KeysOnce' /\ KeysCopied'
<1>1. HeapOK /\ CopyingOK /\ KeysOnce /\ KeysCopied
  BY DEF KInv, IInv
<1>2. KeysOnce' /\ \A n \in DOMAIN heap : heap'[n] = heap[n]
  BY <1>1, GrownKeys
<1>3. \A k \in 1 .. Len(copying) : copying[k].src \in DOMAIN heap /\ copying[k].dst \in DOMAIN heap
  BY <1>1 DEF CopyingOK, NodesIn
<1>4. QED
  BY <1>1, <1>2, <1>3 DEF KeysCopied

LEMMA EmptyNode ==
  ASSUME NEW arena, NEW kind
  PROVE  LET node == Node(arena, kind) IN node.kind = kind /\ DOMAIN node.items = {} /\ KeysApart(node)
BY DEF Node, KeysApart

\* cl_val_copy is called.
LEMMA StartCopyKeys ==
  ASSUME KInv, NEW src \in DOMAIN heap, StartCopy(src)
  PROVE  KeysOnce' /\ KeysCopied'
<1> DEFINE node == Node("result", heap[src].kind)
           N    == Len(copying)
<1>1. HeapOK /\ CopyingOK /\ KeysOnce /\ KeysCopied
  BY DEF KInv, IInv
<1>2. node.kind = heap[src].kind /\ DOMAIN node.items = {} /\ KeysApart(node)
  BY EmptyNode
<1> HIDE DEF node
<1>3. heap' = Put(heap, next, node) /\ copying' = Append(copying, [src |-> src, dst |-> next])
  BY DEF StartCopy, node
<1>4. KeysOnce' /\ heap'[next] = node /\ \A n \in DOMAIN heap : heap'[n] = heap[n]
  BY <1>1, <1>2, <1>3, GrownKeys
<1>5. /\ N \in Nat
      /\ Len(copying') = N + 1
      /\ copying'[N + 1] = [src |-> src, dst |-> next]
      /\ \A k \in 1 .. N : copying'[k] = copying[k]
  <2>1. IsSequence(copying)
    BY <1>1, SeqIsSequence DEF CopyingOK
  <2>2. QED
    BY <1>3, <2>1, AppendSequence
<1>6. \A k \in 1 .. N : copying[k].src \in DOMAIN heap /\ copying[k].dst \in DOMAIN heap
  BY <1>1 DEF CopyingOK, NodesIn
<1>7. ASSUME NEW k \in 1 .. N + 1
      PROVE  LET s == copying'[k].src
                 d == copying'[k].dst
             IN  /\ heap'[d].kind = heap'[s].kind
                 /\ \A i \in DOMAIN heap'[d].items : heap'[d].items[i].key = heap'[s].items[i].key
  <2>1. CASE k \in 1 .. N
    BY <1>1, <1>4, <1>5, <1>6, <2>1 DEF KeysCopied
  <2>2. CASE k = N + 1
    BY <1>2, <1>4, <1>5, <2>2
  <2>3. QED
    BY <1>5, <2>1, <2>2
<1>8. QED
  BY <1>4, <1>5, <1>7 DEF KeysCopied

\* A value is put into a container, while nothing is copied.
LEMMA PutKeys ==
  ASSUME KInv, NEW c \in DOMAIN heap, NEW key, NEW n, heap' = [heap EXCEPT ![c] = With(c, key, n)],
         copying = <<>>, copying' = copying
  PROVE  KeysOnce' /\ KeysCopied'
<1> DEFINE node == With(c, key, n)
<1>1. HeapOK /\ KeysOnce
  BY DEF KInv, IInv
<1>2. node.kind = "object" => KeysApart(node)
  BY <1>1, WithKeys DEF KeysOnce, KeysApart
<1> HIDE DEF node
<1>3. heap' = [heap EXCEPT ![c] = node]
  BY DEF node
<1>4. KeysOnce'
  BY <1>1, <1>2, <1>3 DEF KeysOnce, KeysApart
<1>5. QED
  BY <1>4 DEF KeysCopied

\* cl_val_copy returns to itself: the key of the next item is a new one.
LEMMA CopyReturnsKeys ==
  ASSUME KInv, CopyReturns
  PROVE  KeysOnce' /\ KeysCopied'
<1> DEFINE N     == Len(copying)
           below == copying[N - 1]
           S     == heap[below.src]
           D     == heap[below.dst]
           it    == S.items[Len(D.items) + 1]
           node  == Added(D, it.key, copying[N].dst)
<1>1. /\ HeapOK /\ CopyingOK /\ KeysOnce /\ KeysCopied
      /\ N > 1
      /\ heap' = [heap EXCEPT ![below.dst] = node]
      /\ copying' = Front(copying)
  BY DEF KInv, IInv, CopyReturns, CopyTop, Last
<1>2. /\ N \in Nat
      /\ N - 1 \in 1 .. N
      /\ Len(copying') = N - 1
      /\ \A k \in 1 .. N - 1 : copying'[k] = copying[k] /\ k \in 1 .. N
  <2>1. copying \in Seq([src : Nat, dst : Nat])
    BY <1>1 DEF CopyingOK
  <2>2. N \in Nat
    BY <2>1
  <2>3. N - 1 \in 1 .. N
    BY <1>1, ReturnDepth
  <2>4. QED
    BY <1>1, <2>1, <2>2, <2>3, FrontOf
<1>3. /\ below.src \in DOMAIN heap
      /\ below.dst \in DOMAIN heap
      /\ Size(below.dst) <= Size(below.src)
      /\ Size(below.dst) # Size(below.src)
      /\ D.kind = S.kind
      /\ \A i \in DOMAIN D.items : D.items[i].key = S.items[i].key
  <2>1. N - 1 < N
    BY <1>2
  <2>2. QED
    BY <1>1, <1>2, <2>1 DEF CopyingOK, KeysCopied, NodesIn
<1>4. /\ IsNode(D) /\ IsNode(S)
      /\ Len(D.items) \in Nat /\ DOMAIN D.items = 1 .. Len(D.items)
      /\ Len(S.items) \in Nat /\ DOMAIN S.items = 1 .. Len(S.items)
      /\ Len(D.items) + 1 <= Len(S.items)
      /\ D.kind = "object" => KeysApart(D) /\ KeysApart(S)
  <2>1. IsNode(D) /\ IsNode(S)
    BY <1>1, <1>3 DEF HeapOK, Whole
  <2>2. /\ Len(D.items) \in Nat /\ DOMAIN D.items = 1 .. Len(D.items)
        /\ Len(S.items) \in Nat /\ DOMAIN S.items = 1 .. Len(S.items)
    BY <2>1 DEF IsNode, IsSequence
  <2>3. Len(D.items) + 1 <= Len(S.items)
    BY <1>3, <2>2 DEF Size
  <2>4. D.kind = "object" => KeysApart(D) /\ KeysApart(S)
    BY <1>1, <1>3 DEF KeysOnce, KeysApart
  <2>5. QED
    BY <2>1, <2>2, <2>3, <2>4
<1>a. heap[below.dst] = D /\ heap[below.src] = S /\ it = S.items[Len(D.items) + 1]
      /\ node = Added(D, it.key, copying[N].dst)
  OBVIOUS
<1> HIDE DEF D, S, it, node
<1>5. node.kind = "object" => KeysApart(node)
  <2>1. SUFFICES ASSUME node.kind = "object" PROVE KeysApart(node)
    OBVIOUS
  <2>2. D.kind = "object"
    BY <1>4, <1>a, <2>1 DEF Added, IsNode
  <2>3. KeysApart(D) /\ KeysApart(S)
    BY <1>4, <2>2
  <2>4. ASSUME NEW i \in DOMAIN D.items
        PROVE  D.items[i].key # it.key
    <3>1. i \in DOMAIN S.items /\ Len(D.items) + 1 \in DOMAIN S.items /\ i # Len(D.items) + 1
      BY <1>4
    <3>2. D.items[i].key = S.items[i].key
      BY <1>3
    <3>3. QED
      BY <1>a, <2>3, <3>1, <3>2 DEF KeysApart
  <2>5. QED
    BY <1>4, <1>a, <2>3, <2>4, AddedKeys
<1>6. /\ node.kind = D.kind
      /\ DOMAIN node.items = 1 .. Len(D.items) + 1
      /\ \A i \in 1 .. Len(D.items) : node.items[i] = D.items[i]
      /\ node.items[Len(D.items) + 1].key = it.key
  <2>1. node.items = Append(D.items, Item(it.key, copying[N].dst)) /\ node.kind = D.kind
    BY <1>4, <1>a DEF Added, IsNode
  <2>2. IsSequence(D.items)
    BY <1>4 DEF IsNode
  <2>3. /\ IsSequence(node.items)
        /\ Len(node.items) = Len(D.items) + 1
        /\ \A i \in 1 .. Len(D.items) : node.items[i] = D.items[i]
        /\ node.items[Len(D.items) + 1] = Item(it.key, copying[N].dst)
    BY <2>1, <2>2, AppendSequence
  <2>4. QED
    BY <2>1, <2>3 DEF IsSequence, Item
<1>7. \A i \in DOMAIN node.items : node.items[i].key = S.items[i].key
  <2>1. ASSUME NEW i \in 1 .. Len(D.items) PROVE node.items[i].key = S.items[i].key
    BY <1>3, <1>4, <1>6, <2>1
  <2>2. node.items[Len(D.items) + 1].key = S.items[Len(D.items) + 1].key
    BY <1>6, <1>a
  <2>3. \A i \in 1 .. Len(D.items) + 1 : i \in 1 .. Len(D.items) \/ i = Len(D.items) + 1
    BY <1>4
  <2>4. QED
    BY <1>6, <2>1, <2>2, <2>3
<1>8. KeysOnce'
  BY <1>1, <1>3, <1>5 DEF KeysOnce, KeysApart
<1>9. ASSUME NEW k \in 1 .. N - 1
      PROVE  LET s == copying'[k].src
                 d == copying'[k].dst
             IN  /\ heap'[d].kind = heap'[s].kind
                 /\ \A i \in DOMAIN heap'[d].items : heap'[d].items[i].key = heap'[s].items[i].key
  <2>1. /\ k \in 1 .. N
        /\ copying[k].src \in DOMAIN heap
        /\ copying[k].dst \in DOMAIN heap
        /\ copying[k].src # below.dst
    <3>1. k \in 1 .. N /\ below.dst \in Dsts
      BY <1>2 DEF Dsts
    <3>2. QED
      BY <1>1, <3>1 DEF CopyingOK, NodesIn
  <2>a. copying'[k] = copying[k]
    BY <1>2
  <2>2. heap'[copying[k].src] = heap[copying[k].src]
    BY <1>1, <2>1
  <2>3. CASE k = N - 1
    <3>1. heap'[below.dst] = node
      BY <1>1, <1>3
    <3>2. copying'[k] = below
      BY <2>a, <2>3
    <3>3. heap'[below.src] = S
      BY <1>a, <2>2, <2>3
    <3>4. QED
      BY <1>3, <1>6, <1>7, <3>1, <3>2, <3>3
  <2>4. CASE k # N - 1
    <3>1. copying[k].dst # below.dst
      BY <1>1, <1>2, <2>1, <2>4 DEF CopyingOK
    <3>2. heap'[copying[k].dst] = heap[copying[k].dst]
      BY <1>1, <2>1, <3>1
    <3>3. QED
      BY <1>1, <2>a, <2>1, <2>2, <3>2 DEF KeysCopied
  <2>5. QED
    BY <2>3, <2>4
<1>10. KeysCopied'
  BY <1>2, <1>9 DEF KeysCopied
<1>11. QED
  BY <1>8, <1>10

\* Nothing is added, and nothing is copied any more, or the same as before.
LEMMA FewerKeys ==
  ASSUME KInv, DOMAIN heap' \subseteq DOMAIN heap, \A n \in DOMAIN heap' : heap'[n] = heap[n],
         copying' = <<>> \/ (copying' = copying /\ heap' = heap)
  PROVE  KeysOnce' /\ KeysCopied'
<1>1. KeysOnce /\ KeysCopied
  BY DEF KInv
<1>2. KeysOnce'
  BY <1>1 DEF KeysOnce
<1>3. QED
  BY <1>1, <1>2 DEF KeysCopied

\* An object the evaluator makes has its keys in order.
LEMMA MakeValueKeys ==
  ASSUME KInv, NEW kind \in Kinds, NEW ns \in SeqOf(given, MaxItems), MakeValue(kind, ns)
  PROVE  KeysOnce' /\ KeysCopied'
<1> DEFINE keys == SetToSeq(Keys)
           its  == [i \in DOMAIN ns |-> Item(IF kind = "object" THEN keys[i] ELSE NoName, ns[i])]
           node == [Node("result", kind) EXCEPT !.items = its]
<1>1. heap' = Put(heap, next, node) /\ UNCHANGED copying /\ (kind = "object" => Len(ns) <= Cardinality(Keys))
  BY DEF MakeValue
<1>2. PICK m \in Nat : ns \in [1 .. m -> given]
  BY BoundsAssumption DEF SeqOf
<1>3. node.kind = kind /\ node.items = its /\ DOMAIN its = 1 .. m /\ Len(ns) = m
  BY <1>2 DEF Node
<1>4. ASSUME kind = "object"
      PROVE  KeysApart(node)
  <2>1. Cardinality(Keys) \in Nat
    BY KeysAssumption, FS_CardinalityType
  <2>2. \A i \in 1 .. m : i \in 1 .. Cardinality(Keys)
    BY <1>1, <1>3, <1>4, <2>1
  <2>3. \A i \in 1 .. m : its[i].key = keys[i]
    BY <1>3, <1>4 DEF Item
  <2> HIDE DEF its, keys, node
  <2>4. \A i, j \in 1 .. m : keys[i] = keys[j] => i = j
    BY <2>2, KeysInOrder DEF keys
  <2>5. QED
    BY <1>3, <2>3, <2>4 DEF KeysApart
<1> HIDE DEF node
<1>5. QED
  BY <1>1, <1>3, <1>4, NewNodeKeys

-----------------------------------------------------------------------------
LEMMA InitKInv == Init => KInv
<1> SUFFICES ASSUME Init PROVE KInv
  OBVIOUS
<1>1. DOMAIN heap = {} /\ Len(copying) = 0
  BY DEF Init
<1>2. QED
  BY <1>1, InitIInv DEF KInv, KeysOnce, KeysCopied

LEMMA NextKInv == KInv /\ [Next]_vars => KInv'
<1> SUFFICES ASSUME KInv, [Next]_vars
             PROVE  KInv'
  OBVIOUS
<1> DEFINE Kept == KeysOnce' /\ KeysCopied'
<1>0. /\ IInv /\ IInv'
      /\ HeapOK /\ HostOK /\ CopyingOK
  BY NextIInv DEF KInv, IInv
<1> SUFFICES Kept
  BY <1>0 DEF KInv
<1>a. phase # "evaluating" => copying = <<>>
  BY <1>0 DEF HostOK
<1>b. ASSUME UNCHANGED <<heap, copying>> PROVE Kept
  BY <1>b, FewerKeys
<1>c. ASSUME copying' = <<>>, NEW ns \in SUBSET DOMAIN heap, heap' = [n \in ns |-> heap[n]] PROVE Kept
  BY <1>c, FewerKeys
<1>d. ASSUME NEW arena, NEW kind, heap' = Put(heap, next, Node(arena, kind)), copying' = copying PROVE Kept
  BY <1>d, EmptyNode, NewNodeKeys
<1> HIDE DEF Kept
<1>1. ASSUME NEW kind \in Kinds, NewBoundValue(kind) PROVE Kept
  BY <1>1, <1>d DEF NewBoundValue
<1>2. ASSUME NEW c \in DOMAIN heap, NEW n \in DOMAIN heap, NEW key, PutIntoBound(c, key, n) PROVE Kept
  <2>1. copying = <<>> /\ heap' = [heap EXCEPT ![c] = With(c, key, n)] /\ UNCHANGED copying
    BY <1>2, <1>a DEF PutIntoBound, MayBuild, InCall, Idle
  <2>2. QED
    BY <2>1, PutKeys DEF Kept
<1>3. ASSUME NEW name, NEW n \in DOMAIN heap, Bind(name, n) PROVE Kept
  BY <1>3, <1>b DEF Bind
<1>4. CASE StartEvaluation
  BY <1>4, <1>b DEF StartEvaluation
<1>5. ASSUME NEW kind \in Kinds, NEW ns \in SeqOf(given, MaxItems), MakeValue(kind, ns) PROVE Kept
  BY <1>5, MakeValueKeys DEF Kept
<1>6. ASSUME NEW name \in DOMAIN bound, UseBinding(name) PROVE Kept
  <2>1. bound[name] \in DOMAIN heap
    BY <1>0, <1>6 DEF HostOK, Range, NodesIn
  <2>2. QED
    BY <1>6, <2>1, StartCopyKeys DEF UseBinding, Kept
<1>7. CASE EvaluatorFails
  BY <1>7, <1>b DEF EvaluatorFails
<1>8. CASE Return
  <2>1. copying = <<>> /\ copying' = <<>>
    BY <1>8 DEF Return, Idle
  <2>2. heap' = heap \/ heap' = [n \in NodesIn(heap, "bindings") |-> heap[n]]
    BY <1>8 DEF Return
  <2>3. NodesIn(heap, "bindings") \in SUBSET DOMAIN heap
    BY DEF NodesIn
  <2>4. QED
    BY <1>b, <1>c, <2>1, <2>2, <2>3
<1>9. CASE CopyItem
  <2> DEFINE N   == Len(copying)
             top == copying[N]
             src == heap[top.src].items[Size(top.dst) + 1].node
  <2>1. copying # <<>> /\ Size(top.dst) # Size(top.src) /\ StartCopy(src)
    BY <1>9 DEF CopyItem, CopyTop, Last, CopyDone, Copied, Size
  <2>2. N \in 1 .. N
    BY <1>0, <2>1 DEF CopyingOK
  <2>3. top.src \in DOMAIN heap /\ top.dst \in DOMAIN heap /\ Size(top.dst) <= Size(top.src)
    BY <1>0, <2>2 DEF CopyingOK, NodesIn
  <2>4. Size(top.dst) + 1 \in DOMAIN heap[top.src].items
    <3>1. Size(top.dst) \in Nat /\ Size(top.src) \in Nat /\ DOMAIN heap[top.src].items = 1 .. Size(top.src)
      BY <1>0, <2>3, SizeIsNat
    <3>2. QED
      BY <2>1, <2>3, <3>1
  <2>5. src \in DOMAIN heap
    BY <1>0, <2>3, <2>4 DEF Under, HeapOK, Whole, Apart, NodesIn
  <2> HIDE DEF src
  <2>6. QED
    BY <2>1, <2>5, StartCopyKeys DEF Kept
<1>10. CASE CopyReturns
  BY <1>10, CopyReturnsKeys DEF Kept
<1>11. CASE CopyFinished
  <2>1. copying' = <<>> /\ heap' = heap
    BY <1>11 DEF CopyFinished
  <2>2. QED
    BY <2>1, FewerKeys DEF Kept
<1>12. CASE BeginCall \/ CallError \/ CallReturnsNull
  BY <1>12, <1>b DEF BeginCall, CallError, CallReturnsNull
<1>13. ASSUME NEW kind \in Kinds, NewCallValue(kind) PROVE Kept
  BY <1>13, <1>d DEF NewCallValue
<1>14. ASSUME NEW c \in DOMAIN heap, NEW n \in DOMAIN heap, NEW key, PutIntoOwned(c, key, n) PROVE Kept
  <2>1. copying = <<>> /\ heap' = [heap EXCEPT ![c] = With(c, key, n)] /\ UNCHANGED copying
    BY <1>14 DEF PutIntoOwned, InCall, Idle
  <2>2. QED
    BY <2>1, PutKeys DEF Kept
<1>15. ASSUME NEW src \in DOMAIN heap, CallCopy(src) PROVE Kept
  BY <1>15, StartCopyKeys DEF CallCopy, Kept
<1>16. ASSUME NEW n \in DOMAIN heap, CallReturns(n) PROVE Kept
  BY <1>16, <1>b DEF CallReturns
<1>17. CASE FreeBindings
  <2>1. heap' = [n \in NodesIn(heap, "result") |-> heap[n]] /\ copying' = <<>>
    BY <1>17, <1>a DEF FreeBindings
  <2>2. NodesIn(heap, "result") \in SUBSET DOMAIN heap
    BY DEF NodesIn
  <2>3. QED
    BY <1>c, <2>1, <2>2
<1>18. CASE UNCHANGED vars
  BY <1>18, <1>b DEF vars
<1>19. QED
  BY <1>1, <1>2, <1>3, <1>4, <1>5, <1>6, <1>7, <1>8, <1>9, <1>10, <1>11, <1>12, <1>13, <1>14,
     <1>15, <1>16, <1>17, <1>18 DEF Next, Build, Evaluate, Copy, HostFunction

-----------------------------------------------------------------------------
\* An object has every key once, whoever made it: cl_bindings_object_set and
\* cl_call_object_set look for the key first, the evaluator gives each key once, and
\* cl_val_copy, which does not look, copies an object that has each once.
THEOREM KeysAreUnique == Spec => []KeysOnce
<1>1. KInv => KeysOnce
  BY DEF KInv
<1>2. QED
  BY InitKInv, NextKInv, <1>1, PTL DEF Spec

-----------------------------------------------------------------------------
(***************************************************************************)
(* A copy is equal to what it is a copy of.                                *)
(***************************************************************************)

Pairs(h) == (DOMAIN h) \X (DOMAIN h)
ItemPair(h, p, i) == <<h[p[1]].items[i].node, h[p[2]].items[i].node>>

\* R pairs nodes that look alike, and whatever they hold.
Matching(h, R) ==
  /\ R \subseteq Pairs(h)
  /\ \A p \in R : LookAlike(h, p) /\ \A i \in DOMAIN h[p[1]].items : ItemPair(h, p, i) \in R

(* S is closed and holds everything the copies in the making are copied      *)
(* from, and none of the copies.  R pairs nodes of S with their finished     *)
(* copies, the items of the copies in the making among them.                 *)
Matched(S, R) ==
  /\ S \subseteq DOMAIN heap
  /\ Closed(heap, S)
  /\ S \cap Dsts = {}
  /\ Matching(heap, R)
  /\ \A p \in R : p[1] \in S /\ p[2] \notin Dsts
  /\ \A k \in 1 .. Len(copying) :
       /\ copying[k].src \in S
       /\ \A i \in 1 .. Size(copying[k].dst) : ItemPair(heap, <<copying[k].src, copying[k].dst>>, i) \in R
       /\ k + 1 \in 1 .. Len(copying) =>
            copying[k + 1].src = heap[copying[k].src].items[Size(copying[k].dst) + 1].node

EInv == KInv /\ (copying # <<>> => \E S, R : Matched(S, R))

-----------------------------------------------------------------------------
(* Pairs that match are the same as far down as one looks *)

LEMMA SameDownIs ==
  ASSUME NEW h, \A n \in DOMAIN h : Under(h, n) \subseteq DOMAIN h
  PROVE  \A p \in Pairs(h) :
           /\ SameDown(h)[0][p] <=> LookAlike(h, p)
           /\ \A n \in Nat :
                SameDown(h)[n + 1][p] <=>
                  /\ LookAlike(h, p)
                  /\ \A i \in DOMAIN h[p[1]].items : SameDown(h)[n][ItemPair(h, p, i)]
<1> DEFINE D == Pairs(h)
           Level(n, below) ==
             [p \in D |-> /\ LookAlike(h, p)
                          /\ n > 0 => \A i \in DOMAIN h[p[1]].items : below[ItemPair(h, p, i)]]
           X == [D -> BOOLEAN]
           x == [p \in D |-> LookAlike(h, p)]
           F == [below \in X |-> Level(1, below)]
           IsIt(f) == f = [n \in Nat |-> Level(n, f[n - 1])]
<1>1. x \in X /\ F \in [X -> X]
  BY DEF LookAlike
<1>2. PICK f \in [Nat -> X] : f[0] = x /\ \A n \in Nat : f[n + 1] = F[f[n]]
  <2> HIDE DEF F, X, x
  <2>1. QED
    BY <1>1, RepetitionExists
<1>3. \A n \in Nat : f[n] = Level(n, f[n - 1])
  <2>1. f[0] = Level(0, f[0 - 1])
    <3>1. ASSUME NEW below
          PROVE  Level(0, below) = x
      <4>1. ASSUME NEW p \in D
            PROVE  Level(0, below)[p] = x[p]
        <5>1. LookAlike(h, p) \in BOOLEAN
          BY DEF LookAlike
        <5>2. ~(0 > 0)
          OBVIOUS
        <5>3. Level(0, below)[p] = (LookAlike(h, p) /\ (0 > 0 => \A i \in DOMAIN h[p[1]].items : below[ItemPair(h, p, i)]))
          BY Zenon
        <5>4. (LookAlike(h, p) /\ (0 > 0 => \A i \in DOMAIN h[p[1]].items : below[ItemPair(h, p, i)])) = LookAlike(h, p)
          BY <5>1, <5>2, Zenon
        <5>5. QED
          BY <5>3, <5>4, Zenon
      <4>2. QED
        BY <4>1, Zenon
    <3>2. f[0] = x
      BY <1>2
    <3> HIDE DEF Level, x
    <3>3. QED
      BY <3>1, <3>2, Zenon
  <2>2. ASSUME NEW n \in Nat, n # 0
        PROVE  f[n] = Level(n, f[n - 1])
    <3>1. n - 1 \in Nat /\ (n - 1) + 1 = n /\ n > 0
      BY <2>2
    <3>2. f[n - 1] \in X
      BY <1>2, <3>1
    <3>3. f[n] = F[f[n - 1]]
      BY <1>2, <3>1
    <3>4. F[f[n - 1]] = Level(1, f[n - 1])
      BY <3>2
    <3>5. Level(n, f[n - 1]) = Level(1, f[n - 1])
      BY <3>1
    <3>6. QED
      BY <3>3, <3>4, <3>5
  <2> HIDE DEF Level
  <2>3. QED
    BY <2>1, <2>2
<1>4. IsIt(f)
  <2>1. f = [n \in Nat |-> f[n]]
    BY <1>2
  <2> HIDE DEF Level
  <2>2. QED
    BY <1>3, <2>1
<1>5. SameDown(h) = CHOOSE g : IsIt(g)
  BY Zenon DEF SameDown, ItemPair, Pairs
<1> DEFINE s == SameDown(h)
<1>6. IsIt(s)
  <2> HIDE DEF IsIt
  <2>1. QED
    BY <1>4, <1>5
<1> HIDE DEF s
<1>7. \A n \in Nat : s[n] = Level(n, s[n - 1])
  <2> HIDE DEF Level
  <2>1. QED
    BY <1>6
<1>8. ASSUME NEW p \in D
      PROVE  s[0][p] <=> LookAlike(h, p)
  <2>1. 0 \in Nat /\ ~(0 > 0)
    OBVIOUS
  <2>2. QED
    BY <1>7, <2>1, Zenon
<1>9. ASSUME NEW p \in D, NEW n \in Nat
      PROVE  s[n + 1][p] <=> /\ LookAlike(h, p)
                             /\ \A i \in DOMAIN h[p[1]].items : s[n][ItemPair(h, p, i)]
  <2>1. n + 1 \in Nat /\ (n + 1) - 1 = n /\ n + 1 > 0
    OBVIOUS
  <2>2. s[n + 1] = Level(n + 1, s[n])
    <3> HIDE DEF Level
    <3>1. QED
      BY <1>7, <2>1
  <2>3. QED
    BY <2>1, <2>2
<1>10. QED
  BY <1>8, <1>9 DEF s

LEMMA MatchingIsSame ==
  ASSUME NEW h, \A n \in DOMAIN h : Under(h, n) \subseteq DOMAIN h, NEW R, Matching(h, R), NEW n \in Nat
  PROVE  \A p \in R : SameDown(h)[n][p]
<1> DEFINE T == {m \in Nat : \A p \in R : SameDown(h)[m][p]}
<1>1. R \subseteq Pairs(h)
  BY DEF Matching
<1>2. 0 \in T
  BY <1>1, SameDownIs DEF Matching
<1>3. ASSUME NEW m \in Nat, m \in T
      PROVE  m + 1 \in T
  <2>1. ASSUME NEW p \in R
        PROVE  SameDown(h)[m + 1][p]
    <3>1. LookAlike(h, p) /\ \A i \in DOMAIN h[p[1]].items : ItemPair(h, p, i) \in R
      BY DEF Matching
    <3>2. \A i \in DOMAIN h[p[1]].items : SameDown(h)[m][ItemPair(h, p, i)]
      BY <1>3, <3>1
    <3>3. QED
      BY <1>1, <3>1, <3>2, SameDownIs
  <2>2. QED
    BY <2>1
<1>4. n \in T
  <2> HIDE DEF T
  <2>1. QED
    BY <1>2, <1>3, AllNaturals
<1>5. QED
  BY <1>4

-----------------------------------------------------------------------------
(* Steps *)

\* What two heaps have alike they hold alike.
LEMMA SameNodes ==
  ASSUME NEW h, NEW g, NEW R, Matching(h, R), DOMAIN h \subseteq DOMAIN g,
         \A p \in R : g[p[1]] = h[p[1]] /\ g[p[2]] = h[p[2]]
  PROVE  Matching(g, R)
<1>1. R \subseteq Pairs(g)
  BY DEF Matching, Pairs
<1>2. ASSUME NEW p \in R
      PROVE  LookAlike(g, p) /\ \A i \in DOMAIN g[p[1]].items : ItemPair(g, p, i) \in R
  <2>1. LookAlike(h, p) /\ \A i \in DOMAIN h[p[1]].items : ItemPair(h, p, i) \in R
    BY DEF Matching
  <2>2. g[p[1]] = h[p[1]] /\ g[p[2]] = h[p[2]]
    OBVIOUS
  <2>3. QED
    BY <2>1, <2>2 DEF LookAlike, ItemPair
<1>3. QED
  BY <1>1, <1>2 DEF Matching

\* cl_val_copy is called, by others or by itself.
LEMMA StartCopyMatched ==
  ASSUME KInv, NEW S, NEW R, Matched(S, R), NEW src \in S, StartCopy(src),
         copying # <<>> => src = heap[CopyTop.src].items[Size(CopyTop.dst) + 1].node
  PROVE  Matched(S, R)'
<1> DEFINE node == Node("result", heap[src].kind)
           new  == [src |-> src, dst |-> next]
           N    == Len(copying)
<1>1. /\ HeapOK /\ CopyingOK
      /\ S \subseteq DOMAIN heap /\ Closed(heap, S) /\ S \cap Dsts = {}
      /\ Matching(heap, R)
      /\ \A p \in R : p \in Pairs(heap) /\ p[1] \in S /\ p[2] \in DOMAIN heap \ Dsts
  BY DEF KInv, IInv, Matched, Matching, Pairs
<1>2. IsNode(node) /\ ItemNodes(node) = {} /\ node.arena = "result" /\ node.items = <<>>
  BY <1>1, NewNode DEF HeapOK, Whole, IsNode
<1>3. heap' = Put(heap, next, node) /\ next' = next + 1
  BY DEF StartCopy
<1> HIDE DEF node
<1>4. /\ next \notin DOMAIN heap
      /\ next \in Nat
      /\ DOMAIN heap' = DOMAIN heap \cup {next}
      /\ heap'[next] = node
      /\ \A n \in DOMAIN heap : heap'[n] = heap[n] /\ Under(heap', n) = Under(heap, n)
  BY <1>1, <1>2, <1>3, Grown
<1>5. /\ N \in Nat
      /\ Len(copying') = N + 1
      /\ \A k \in 1 .. N : copying'[k] = copying[k]
      /\ copying'[N + 1] = new
  <2>1. IsSequence(copying)
    BY <1>1, SeqIsSequence DEF CopyingOK
  <2>2. copying' = Append(copying, new)
    BY DEF StartCopy
  <2>3. QED
    BY <2>1, <2>2, AppendSequence
<1>6. Dsts' \subseteq Dsts \cup {next}
  <2>1. ASSUME NEW k \in 1 .. N + 1
        PROVE  copying'[k].dst \in Dsts \cup {next}
    <3>1. CASE k \in 1 .. N
      BY <1>5, <3>1 DEF Dsts
    <3>2. CASE k = N + 1
      BY <1>5, <3>2
    <3>3. QED
      BY <1>5, <3>1, <3>2
  <2>2. QED
    BY <1>5, <2>1 DEF Dsts
<1>7. S \subseteq DOMAIN heap' /\ Closed(heap', S) /\ S \cap Dsts' = {}
  BY <1>1, <1>4, <1>6 DEF Closed
<1>8. Matching(heap', R)
  BY <1>1, <1>4, SameNodes
<1>9. \A p \in R : p[1] \in S /\ p[2] \notin Dsts'
  BY <1>1, <1>4, <1>6
<1>10. ASSUME NEW k \in 1 .. N + 1
       PROVE  /\ copying'[k].src \in S
              /\ \A i \in 1 .. Len(heap'[copying'[k].dst].items) :
                   ItemPair(heap', <<copying'[k].src, copying'[k].dst>>, i) \in R
              /\ k + 1 \in 1 .. N + 1 =>
                   copying'[k + 1].src = heap'[copying'[k].src].items[Len(heap'[copying'[k].dst].items) + 1].node
  <2>1. CASE k \in 1 .. N
    <3>1. copying'[k] = copying[k]
      BY <1>5, <2>1
    <3>2. copying[k].src \in S /\ copying[k].src \in DOMAIN heap /\ copying[k].dst \in DOMAIN heap
      BY <1>1, <2>1 DEF Matched, CopyingOK, NodesIn
    <3>3. heap'[copying[k].src] = heap[copying[k].src] /\ heap'[copying[k].dst] = heap[copying[k].dst]
      BY <1>4, <3>2
    <3>4. \A i \in 1 .. Size(copying[k].dst) : ItemPair(heap, <<copying[k].src, copying[k].dst>>, i) \in R
      BY <2>1 DEF Matched
    <3>5. \A i \in 1 .. Size(copying[k].dst) : ItemPair(heap', <<copying[k].src, copying[k].dst>>, i) \in R
      BY <3>3, <3>4 DEF ItemPair
    <3>6. CASE k = N
      <4>1. copying # <<>> /\ CopyTop = copying[k]
        BY <1>5, <2>1, <3>6 DEF CopyTop, Last
      <4>2. copying'[k + 1].src = heap[copying[k].src].items[Size(copying[k].dst) + 1].node
        BY <1>5, <3>6, <4>1
      <4>3. QED
        BY <3>1, <3>2, <3>3, <3>5, <4>2 DEF Size
    <3>7. CASE k # N
      <4>1. k + 1 \in 1 .. N
        BY <1>5, <2>1, <3>7
      <4>2. copying'[k + 1].src = heap[copying[k].src].items[Size(copying[k].dst) + 1].node
        BY <1>5, <2>1, <4>1 DEF Matched
      <4>3. QED
        BY <3>1, <3>2, <3>3, <3>5, <4>2 DEF Size
    <3>8. QED
      BY <3>6, <3>7
  <2>2. CASE k = N + 1
    <3>1. copying'[k].src = src /\ copying'[k].dst = next /\ k + 1 \notin 1 .. N + 1
      BY <1>5, <2>2
    <3>2. 1 .. Len(heap'[next].items) = {}
      BY <1>2, <1>4
    <3>3. copying'[k].src \in S
      BY <3>1
    <3>4. \A i \in 1 .. Len(heap'[copying'[k].dst].items) :
            ItemPair(heap', <<copying'[k].src, copying'[k].dst>>, i) \in R
      BY <3>1, <3>2
    <3>5. QED
      BY <3>1, <3>3, <3>4
  <2>3. k \in 1 .. N \/ k = N + 1
    BY <1>5
  <2>4. QED
    BY <2>1, <2>2, <2>3, Zenon
<1>11. QED
  BY <1>5, <1>7, <1>8, <1>9, <1>10 DEF Matched, Size

LEMMA AddedItems ==
  ASSUME NEW node, IsNode(node), NEW key, NEW n
  PROVE  LET new == Added(node, key, n).items
         IN  /\ Len(node.items) \in Nat
             /\ Len(new) = Len(node.items) + 1
             /\ \A i \in 1 .. Len(node.items) : new[i] = node.items[i]
             /\ new[Len(node.items) + 1].node = n
<1> DEFINE new == Append(node.items, Item(key, n))
<1>1. Added(node, key, n).items = new
  BY DEF Added, IsNode
<1>2. /\ Len(node.items) \in Nat
      /\ Len(new) = Len(node.items) + 1
      /\ \A i \in 1 .. Len(node.items) : new[i] = node.items[i]
      /\ new[Len(node.items) + 1] = Item(key, n)
  BY AppendSequence DEF IsNode
<1> HIDE DEF new
<1>3. QED
  BY <1>1, <1>2 DEF Item

\* cl_val_copy returns to itself: what it copied and its copy are one pair more.
LEMMA CopyReturnsMatched ==
  ASSUME KInv, NEW S, NEW R, Matched(S, R), CopyReturns
  PROVE  \E Q : Matched(S, Q)'
<1> DEFINE N     == Len(copying)
           below == copying[N - 1]
           top   == copying[N]
           D     == heap[below.dst]
           at    == Len(D.items) + 1
           key   == heap[below.src].items[at].key
           node  == Added(D, key, top.dst)
<1>q. PICK Q : Q = R \cup {<<top.src, top.dst>>}
  OBVIOUS
<1>1. /\ HeapOK /\ CopyingOK /\ KeysCopied
      /\ N > 1
      /\ heap' = [heap EXCEPT ![below.dst] = node]
      /\ copying' = Front(copying)
      /\ Size(top.dst) = Size(top.src)
  BY DEF KInv, IInv, CopyReturns, CopyTop, Last, CopyDone, Copied, Size
<1>2. /\ N \in Nat
      /\ N - 1 \in 1 .. N
      /\ N \in 1 .. N
      /\ Len(copying') = N - 1
      /\ \A k \in 1 .. N - 1 : copying'[k] = copying[k] /\ k \in 1 .. N
  <2>1. copying \in Seq([src : Nat, dst : Nat])
    BY <1>1 DEF CopyingOK
  <2>2. N \in Nat
    BY <2>1
  <2>3. N - 1 \in 1 .. N /\ N \in 1 .. N
    BY <1>1, <2>2
  <2>4. QED
    BY <1>1, <2>1, <2>2, <2>3, FrontOf
<1>3. /\ S \subseteq DOMAIN heap /\ Closed(heap, S) /\ S \cap Dsts = {}
      /\ Matching(heap, R)
      /\ \A p \in R : p \in Pairs(heap) /\ p[1] \in S /\ p[2] \in DOMAIN heap \ Dsts
  BY DEF Matched, Matching, Pairs
<1>4. /\ below.dst \in DOMAIN heap /\ below.dst \in Dsts
      /\ top.dst \in DOMAIN heap /\ top.dst \in Dsts
      /\ below.dst # top.dst
      /\ below.src \in S /\ top.src \in S
      /\ top.src = heap[below.src].items[at].node
  <2>1. N - 1 \in 1 .. N /\ (N - 1) + 1 = N /\ N - 1 # N
    BY <1>2
  <2>2. /\ below.dst \in DOMAIN heap /\ below.dst \in Dsts
        /\ top.dst \in DOMAIN heap /\ top.dst \in Dsts
    BY <1>1, <1>2 DEF CopyingOK, NodesIn, Dsts
  <2>3. below.dst # top.dst
    BY <1>1, <1>2, <2>1 DEF CopyingOK
  <2>4. below.src \in S /\ top.src \in S
    BY <1>2 DEF Matched
  <2>5. top.src = heap[below.src].items[at].node
    BY <1>2, <2>1 DEF Matched, Size
  <2>6. QED
    BY <2>2, <2>3, <2>4, <2>5
<1>5. /\ Len(D.items) \in Nat
      /\ Len(node.items) = at
      /\ \A i \in 1 .. Len(D.items) : node.items[i] = D.items[i]
      /\ node.items[at].node = top.dst
  <2>1. IsNode(D)
    BY <1>1, <1>4 DEF HeapOK, Whole
  <2> HIDE DEF D, key
  <2>2. QED
    BY <2>1, AddedItems
<1> HIDE DEF node
<1>6. /\ DOMAIN heap' = DOMAIN heap
      /\ heap'[below.dst] = node
      /\ \A n \in DOMAIN heap \ {below.dst} : heap'[n] = heap[n]
  BY <1>1, <1>4
<1>7. Dsts' \subseteq Dsts \ {top.dst}
  <2>1. ASSUME NEW k \in 1 .. N - 1
        PROVE  copying'[k].dst \in Dsts \ {top.dst}
    <3>1. copying'[k] = copying[k] /\ k \in 1 .. N /\ k # N
      BY <1>2
    <3>2. copying[k].dst # top.dst
      BY <1>1, <1>2, <3>1 DEF CopyingOK
    <3>3. QED
      BY <3>1, <3>2 DEF Dsts
  <2>2. QED
    BY <1>2, <2>1 DEF Dsts
<1>8. \A n \in S : n \in DOMAIN heap /\ heap'[n] = heap[n]
  BY <1>3, <1>4, <1>6
<1>9. S \subseteq DOMAIN heap' /\ Closed(heap', S) /\ S \cap Dsts' = {}
  BY <1>3, <1>6, <1>7, <1>8 DEF Closed, Under
<1>10. Matching(heap', R)
  <2>1. \A p \in R : heap'[p[1]] = heap[p[1]] /\ heap'[p[2]] = heap[p[2]]
    BY <1>3, <1>4, <1>6, <1>8
  <2>2. QED
    BY <1>3, <1>6, <2>1, SameNodes
<1>11. heap'[top.src] = heap[top.src] /\ heap'[top.dst] = heap[top.dst]
  BY <1>4, <1>6, <1>8
<1>12. Matching(heap', Q)
  <2> DEFINE p == <<top.src, top.dst>>
  <2>1. p \in Pairs(heap')
    BY <1>4, <1>6, <1>8 DEF Pairs
  <2>2. /\ heap[top.dst].kind = heap[top.src].kind
        /\ \A i \in DOMAIN heap[top.dst].items : heap[top.dst].items[i].key = heap[top.src].items[i].key
    BY <1>1, <1>2 DEF KeysCopied
  <2>3. DOMAIN heap[top.src].items = 1 .. Size(top.dst) /\ DOMAIN heap[top.dst].items = 1 .. Size(top.dst)
    BY <1>1, <1>4, <1>8, SizeIsNat
  <2>4. LookAlike(heap', p)
    BY <1>1, <1>11, <2>2, <2>3 DEF LookAlike, Size
  <2>5. \A i \in 1 .. Size(top.dst) : ItemPair(heap, p, i) \in R
    BY <1>2 DEF Matched
  <2>6. \A i \in DOMAIN heap'[top.src].items : ItemPair(heap', p, i) \in R
    BY <1>11, <2>3, <2>5 DEF ItemPair
  <2>7. ASSUME NEW q \in Q
        PROVE  /\ q \in Pairs(heap')
               /\ LookAlike(heap', q)
               /\ \A i \in DOMAIN heap'[q[1]].items : ItemPair(heap', q, i) \in Q
    <3>1. CASE q \in R
      BY <1>q, <1>10, <3>1 DEF Matching
    <3>2. CASE q = p
      <4>1. q[1] = top.src
        BY <3>2
      <4> HIDE DEF p
      <4>2. QED
        BY <1>q, <2>1, <2>4, <2>6, <3>2, <4>1
    <3>3. QED
      BY <1>q, <3>1, <3>2
  <2>8. QED
    BY <2>7 DEF Matching
<1>13. ASSUME NEW p \in Q
       PROVE  p[1] \in S /\ p[2] \notin Dsts'
  <2>1. CASE p \in R
    BY <1>3, <1>7, <2>1
  <2>2. CASE p = <<top.src, top.dst>>
    BY <1>4, <1>7, <2>2
  <2>3. QED
    BY <1>q, <2>1, <2>2
<1>14. ASSUME NEW k \in 1 .. N - 1
       PROVE  /\ copying'[k].src \in S
              /\ \A i \in 1 .. Len(heap'[copying'[k].dst].items) :
                   ItemPair(heap', <<copying'[k].src, copying'[k].dst>>, i) \in Q
              /\ k + 1 \in 1 .. N - 1 =>
                   copying'[k + 1].src = heap'[copying'[k].src].items[Len(heap'[copying'[k].dst].items) + 1].node
  <2>1. k \in 1 .. N /\ copying'[k] = copying[k]
    BY <1>2
  <2>2. /\ copying[k].src \in S
        /\ heap'[copying[k].src] = heap[copying[k].src]
        /\ \A i \in 1 .. Size(copying[k].dst) : ItemPair(heap, <<copying[k].src, copying[k].dst>>, i) \in R
    BY <1>8, <2>1 DEF Matched
  <2>3. CASE k = N - 1
    <3>1. copying[k].dst = below.dst /\ copying[k].src = below.src /\ k + 1 \notin 1 .. N - 1
      BY <1>2, <2>3
    <3>2. ASSUME NEW i \in 1 .. at
          PROVE  ItemPair(heap', <<below.src, below.dst>>, i) \in Q
      <4>1. CASE i \in 1 .. Len(D.items)
        <5>1. node.items[i] = heap[below.dst].items[i]
          BY <1>5, <4>1
        <5>2. ItemPair(heap', <<below.src, below.dst>>, i) = ItemPair(heap, <<below.src, below.dst>>, i)
          BY <1>6, <2>2, <3>1, <5>1 DEF ItemPair
        <5>3. QED
          BY <1>q, <2>2, <3>1, <4>1, <5>2 DEF Size
      <4>2. CASE i = at
        <5>1. ItemPair(heap', <<below.src, below.dst>>, i) = <<top.src, top.dst>>
          BY <1>4, <1>5, <1>6, <2>2, <3>1, <4>2 DEF ItemPair
        <5>2. QED
          BY <1>q, <5>1
      <4>3. i \in 1 .. Len(D.items) \/ i = at
        <5>1. Len(D.items) \in Nat
          BY <1>5
        <5>2. QED
          BY <5>1
      <4>4. QED
        BY <4>1, <4>2, <4>3
    <3>3. Len(heap'[below.dst].items) = at
      BY <1>5, <1>6
    <3> HIDE DEF at
    <3>4. QED
      BY <2>1, <2>2, <3>1, <3>2, <3>3
  <2>4. CASE k # N - 1
    <3>1. k + 1 \in 1 .. N - 1 /\ k + 1 \in 1 .. N /\ copying'[k + 1] = copying[k + 1]
      BY <1>2, <2>4
    <3>2. copying[k].dst # below.dst /\ copying[k].dst \in DOMAIN heap
      BY <1>1, <1>2, <2>1, <2>4 DEF CopyingOK, NodesIn
    <3>3. heap'[copying[k].dst] = heap[copying[k].dst]
      BY <1>6, <3>2
    <3>4. copying[k + 1].src = heap[copying[k].src].items[Size(copying[k].dst) + 1].node
      BY <2>1, <3>1 DEF Matched
    <3>5. \A i \in 1 .. Size(copying[k].dst) : ItemPair(heap', <<copying[k].src, copying[k].dst>>, i) \in R
      BY <2>2, <3>3 DEF ItemPair
    <3>6. QED
      BY <1>q, <2>1, <2>2, <3>1, <3>3, <3>4, <3>5 DEF Size
  <2>5. QED
    BY <2>3, <2>4
<1>15. Matched(S, Q)'
  <2>1. \A k \in 1 .. Len(copying') :
          /\ copying'[k].src \in S
          /\ \A i \in 1 .. Size(copying[k].dst)' : ItemPair(heap', <<copying'[k].src, copying'[k].dst>>, i) \in Q
          /\ k + 1 \in 1 .. Len(copying') =>
               copying'[k + 1].src = heap'[copying'[k].src].items[Size(copying[k].dst)' + 1].node
    BY <1>2, <1>14 DEF Size
  <2>2. QED
    BY <1>9, <1>12, <1>13, <2>1 DEF Matched
<1>16. QED
  BY <1>15

LEMMA InitEInv == Init => EInv
BY InitKInv DEF EInv, Init

LEMMA NextEInv == EInv /\ [Next]_vars => EInv'
<1> SUFFICES ASSUME EInv, [Next]_vars
             PROVE  EInv'
  OBVIOUS
<1> DEFINE Goal == copying' # <<>> => \E S, R : Matched(S, R)'
<1>0. /\ KInv /\ KInv'
      /\ HeapOK /\ HostOK /\ CopyingOK
      /\ copying # <<>> => \E S, R : Matched(S, R)
  BY NextKInv DEF EInv, KInv, IInv
<1> SUFFICES Goal
  BY <1>0 DEF EInv
<1>a. phase # "evaluating" => copying = <<>>
  BY <1>0 DEF HostOK
<1>b. ASSUME copying = <<>> \/ UNCHANGED heap, UNCHANGED copying
      PROVE  Goal
  <2>1. CASE copying = <<>>
    BY <1>b, <2>1
  <2>2. CASE UNCHANGED heap
    <3>1. ASSUME NEW S, NEW R, Matched(S, R)
          PROVE  Matched(S, R)'
      BY <1>b, <2>2, <3>1 DEF Matched, Dsts, Size
    <3>2. QED
      BY <1>0, <1>b, <3>1
  <2>3. QED
    BY <1>b, <2>1, <2>2
<1>c. ASSUME NEW src \in DOMAIN heap, copying = <<>>, StartCopy(src)
      PROVE  Goal
  <2>1. Dsts = {} /\ 1 .. Len(copying) = {}
    BY <1>c DEF Dsts
  <2>2. Closed(heap, DOMAIN heap)
    BY <1>0 DEF HeapOK, Whole, Apart, Closed, NodesIn
  <2>3. Matching(heap, {})
    BY DEF Matching
  <2>4. PICK S : S = DOMAIN heap
    OBVIOUS
  <2>5. Matched(S, {})
    BY <2>1, <2>2, <2>3, <2>4 DEF Matched
  <2>6. Matched(S, {})'
    BY <1>0, <1>c, <2>4, <2>5, StartCopyMatched
  <2>7. QED
    BY <2>6
<1> HIDE DEF Goal
<1>1. CASE CopyItem
  <2> DEFINE N   == Len(copying)
             top == copying[N]
             src == heap[top.src].items[Size(top.dst) + 1].node
  <2>1. copying # <<>> /\ Size(top.dst) # Size(top.src) /\ StartCopy(src) /\ top = CopyTop
    BY <1>1 DEF CopyItem, CopyTop, Last, CopyDone, Copied, Size
  <2>2. N \in 1 .. N
    BY <1>0, <2>1 DEF CopyingOK
  <2>3. top.src \in DOMAIN heap /\ top.dst \in DOMAIN heap /\ Size(top.dst) <= Size(top.src)
    BY <1>0, <2>2 DEF CopyingOK, NodesIn
  <2>4. Size(top.dst) + 1 \in DOMAIN heap[top.src].items
    <3>1. Size(top.dst) \in Nat /\ Size(top.src) \in Nat /\ DOMAIN heap[top.src].items = 1 .. Size(top.src)
      BY <1>0, <2>3, SizeIsNat
    <3>2. QED
      BY <2>1, <2>3, <3>1
  <2>5. PICK S, R : Matched(S, R)
    BY <1>0, <2>1
  <2>6. src \in S
    <3>1. top.src \in S /\ Closed(heap, S)
      BY <2>2, <2>5 DEF Matched
    <3>2. src \in Under(heap, top.src)
      BY <2>4 DEF Under
    <3>3. QED
      BY <2>3, <3>1, <3>2 DEF Closed
  <2> HIDE DEF N
  <2>7. Matched(S, R)'
    BY <1>0, <2>1, <2>5, <2>6, StartCopyMatched
  <2>8. QED
    BY <2>7 DEF Goal
<1>2. CASE CopyReturns
  <2>1. copying # <<>>
    BY <1>2, <1>0, ReturnDepth
  <2>2. PICK S, R : Matched(S, R)
    BY <1>0, <2>1
  <2>3. QED
    BY <1>0, <1>2, <2>2, CopyReturnsMatched DEF Goal
<1>3. CASE CopyFinished
  BY <1>3 DEF CopyFinished, Goal
<1>4. ASSUME NEW name \in DOMAIN bound, UseBinding(name) PROVE Goal
  <2>1. bound[name] \in DOMAIN heap
    BY <1>0, <1>4 DEF HostOK, Range, NodesIn
  <2>2. QED
    BY <1>4, <1>c, <2>1 DEF UseBinding, Evaluating, Idle
<1>5. ASSUME NEW src \in DOMAIN heap, CallCopy(src) PROVE Goal
  BY <1>5, <1>c DEF CallCopy, InCall, Idle
<1>6. CASE Build
  BY <1>6, <1>a, <1>b DEF Build, NewBoundValue, PutIntoBound, Bind, MayBuild, InCall, Idle
<1>7. CASE StartEvaluation \/ EvaluatorFails \/ Return
  BY <1>7, <1>b DEF StartEvaluation, EvaluatorFails, Return, Idle, Evaluating
<1>8. ASSUME NEW kind \in Kinds, NEW ns \in SeqOf(given, MaxItems), MakeValue(kind, ns) PROVE Goal
  BY <1>8, <1>b DEF MakeValue, Evaluating, Idle
<1>9. CASE BeginCall \/ CallError \/ CallReturnsNull
  BY <1>9, <1>b DEF BeginCall, CallError, CallReturnsNull
<1>10. ASSUME NEW kind \in Kinds, NewCallValue(kind) PROVE Goal
  BY <1>10, <1>b DEF NewCallValue, InCall, Idle
<1>11. ASSUME NEW c, NEW n, NEW key, PutIntoOwned(c, key, n) PROVE Goal
  BY <1>11, <1>b DEF PutIntoOwned, InCall, Idle
<1>12. ASSUME NEW n, CallReturns(n) PROVE Goal
  BY <1>12, <1>b DEF CallReturns
<1>13. CASE FreeBindings
  BY <1>13, <1>a, <1>b DEF FreeBindings
<1>14. CASE UNCHANGED vars
  BY <1>14, <1>b DEF vars
<1>15. QED
  BY <1>1, <1>2, <1>3, <1>4, <1>5, <1>6, <1>7, <1>8, <1>9, <1>10, <1>11, <1>12, <1>13, <1>14
     DEF Next, Evaluate, Copy, HostFunction

-----------------------------------------------------------------------------
\* At every moment of a copy, what has been copied is the same value, key by key and in
\* order, as what it has been copied from, however the bound value shares its parts
\* (cl_val_copy): the copy that is finished is equal to the whole of it.
THEOREM CopiesAreWhole == Spec => []CopiesAreEqual
<1>1. EInv => CopiesAreEqual
  <2> SUFFICES ASSUME EInv, NEW k \in DOMAIN copying
               PROVE  LET src == heap[copying[k].src]
                          dst == heap[copying[k].dst]
                      IN  /\ dst.kind = src.kind
                          /\ \A i \in DOMAIN dst.items :
                               /\ i \in DOMAIN src.items
                               /\ dst.items[i].key = src.items[i].key
                               /\ SameDown(heap)[next][<<src.items[i].node, dst.items[i].node>>]
    BY DEF CopiesAreEqual
  <2>1. HeapOK /\ CopyingOK /\ KeysCopied /\ next \in Nat
    BY DEF EInv, KInv, IInv, HeapOK
  <2>2. k \in 1 .. Len(copying) /\ copying # <<>>
    BY <2>1 DEF CopyingOK
  <2>3. PICK S, R : Matched(S, R)
    BY <2>2 DEF EInv
  <2>4. /\ copying[k].src \in DOMAIN heap /\ copying[k].dst \in DOMAIN heap
        /\ Size(copying[k].dst) <= Size(copying[k].src)
    BY <2>1, <2>2 DEF CopyingOK, NodesIn
  <2>5. /\ Size(copying[k].src) \in Nat /\ DOMAIN heap[copying[k].src].items = 1 .. Size(copying[k].src)
        /\ Size(copying[k].dst) \in Nat /\ DOMAIN heap[copying[k].dst].items = 1 .. Size(copying[k].dst)
    BY <2>1, <2>4, SizeIsNat
  <2>6. /\ heap[copying[k].dst].kind = heap[copying[k].src].kind
        /\ \A i \in DOMAIN heap[copying[k].dst].items :
             heap[copying[k].dst].items[i].key = heap[copying[k].src].items[i].key
    BY <2>1, <2>2 DEF KeysCopied
  <2>7. \A i \in 1 .. Size(copying[k].dst) : ItemPair(heap, <<copying[k].src, copying[k].dst>>, i) \in R
    BY <2>2, <2>3 DEF Matched
  <2>8. \A n \in DOMAIN heap : Under(heap, n) \subseteq DOMAIN heap
    BY <2>1 DEF HeapOK, Whole, Apart, NodesIn
  <2>9. \A p \in R : SameDown(heap)[next][p]
    BY <2>1, <2>3, <2>8, MatchingIsSame DEF Matched
  <2>10. QED
    BY <2>4, <2>5, <2>6, <2>7, <2>9 DEF ItemPair
<1>2. QED
  BY InitEInv, NextEInv, <1>1, PTL DEF Spec
=============================================================================
