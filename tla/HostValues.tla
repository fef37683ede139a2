------------------------------ MODULE HostValues ------------------------------
(***************************************************************************)
(* The values a host and an evaluation share: the graph of cl_value_t      *)
(* nodes, the two arenas they live in, the host's bindings (cl_bindings.c) *)
(* and the calls of host functions (cl_call.c).                            *)
(*                                                                         *)
(* The evaluator is seen from here as something that makes containers of   *)
(* values it has, reads bindings and calls host functions, in any order    *)
(* (Evaluator says in which).  The host obeys what cl.h asks of it: only   *)
(* values of a cl_bindings_t go into a cl_bindings_t, only values of the   *)
(* result come back from a function.  Nothing stops it from keeping        *)
(* pointers from one call to the next.                                     *)
(***************************************************************************)
EXTENDS Naturals, SequencesExt, AnySequences, FiniteSets

CONSTANTS
  Names,      \* what the host may bind before it evaluates
  LateNames,  \* what a host function may bind while it runs
  Keys,       \* keys of objects
  MaxBound,   \* bound: nodes the host builds in its bindings
  MaxValues,  \* bound: nodes the evaluator and host functions build in the result
  MaxItems,   \* bound: items of a container
  MaxCalls,   \* bound: calls of host functions
  MaxCopies   \* bound: calls of cl_call_copy

ASSUME BoundsAssumption ==
  {MaxBound, MaxValues, MaxItems, MaxCalls, MaxCopies} \subseteq Nat

ASSUME KeysAssumption == IsFiniteSet(Keys)

(* An operator named Slip... is a plausible mistake in the definition that *)
(* follows it; the specification uses none of them.                        *)

VARIABLES
  heap,       \* the nodes that are allocated, by address: [arena, kind, items]
  next,       \* the next address
  bound,      \* bindings->items: the node of each bound name
  copies,     \* ctx->bound_copies: the copy of each bound name, 0 until it is made
  call,       \* the cl_call_t in progress: [on, owned]
  copying,    \* the calls of cl_val_copy in progress, outermost first: [src, dst]
  copyFor,    \* the name whose value the outermost of them copies, outside of a call
  given,      \* the nodes that are values of the document
  failed,     \* ctx->failed
  phase,      \* "building", "evaluating", "returned" or "failed"
  used        \* how much of the bounds is used: [bound, values, calls, copies]

vars == <<heap, next, bound, copies, call, copying, copyFor, given, failed, phase, used>>

Kinds  == {"scalar", "list", "object"}
NoName == ""
NoCall == [on |-> FALSE, owned |-> {}]

-----------------------------------------------------------------------------
(* The graph *)

Node(arena, kind) == [arena |-> arena, kind |-> kind, items |-> <<>>]
Item(key, n)      == [key |-> key, node |-> n]     \* a list's items have the key NoName

NodesIn(h, arena) == {n \in DOMAIN h : h[n].arena = arena}
Under(h, n)       == {h[n].items[i].node : i \in DOMAIN h[n].items}
Put(h, n, node)   == [m \in DOMAIN h \cup {n} |-> IF m = n THEN node ELSE h[m]]

\* The containers with something in them.
Inner(h) == {n \in DOMAIN h : h[n].items # <<>>}

\* Slip: look one level down only.
SlipShallow(h, v, target) == target = v \/ target \in Under(h, v)

\* cl_value_reaches: target is v or is somewhere inside it, that is, it is under every
\* set of containers that v leads into and that leads nowhere else.
Reaches(h, v, target) ==
  \A S \in SUBSET Inner(h) :
    (\A n \in S \cup {v} : Under(h, n) \cap Inner(h) \subseteq S) =>
      \/ target = v
      \/ \E n \in S \cup {v} : target \in Under(h, n)

Added(node, key, n) == [node EXCEPT !.items = Append(@, Item(key, n))]

\* Slip: append without a look at the keys that are there.
SlipAppendKey(node, key, n) == Added(node, key, n)

\* The object with that key set, in its place when it has it already.
KeySet(node, key, n) ==
  LET at == SelectInSeq(node.items, LAMBDA it : it.key = key)
  IN  IF at = 0 THEN Added(node, key, n) ELSE [node EXCEPT !.items[at].node = n]

\* The container c as it is when n has been put into it under key.
With(c, key, n) == IF heap[c].kind = "list" THEN Added(heap[c], NoName, n) ELSE KeySet(heap[c], key, n)

\* What the checks common to cl_bindings_list_add, cl_bindings_object_set,
\* cl_call_list_add and cl_call_object_set leave.
MayHold(c, n) ==
  /\ heap[c].kind # "scalar"
  /\ ~Reaches(heap, n, c)

\* Room within MaxItems for one more.
HasRoom(c, key) ==
  \/ Len(heap[c].items) < MaxItems
  \/ heap[c].kind = "object" /\ \E i \in DOMAIN heap[c].items : heap[c].items[i].key = key

KeysOf(c) == IF heap[c].kind = "list" THEN {NoName} ELSE Keys

-----------------------------------------------------------------------------
(* The host's bindings.  The host builds them before the evaluation, and may *)
(* go on in a function it has bound.                                         *)

Idle     == copying = <<>>
InCall   == call.on /\ Idle
MayBuild == phase = "building" \/ InCall

\* cl_bindings_string, _number, _bool, _null, _list, _object
NewBoundValue(kind) ==
  /\ MayBuild
  /\ used.bound < MaxBound
  /\ heap' = Put(heap, next, Node("bindings", kind))
  /\ next' = next + 1
  /\ used' = [used EXCEPT !.bound = @ + 1]
  /\ UNCHANGED <<bound, copies, call, copying, copyFor, given, failed, phase>>

\* cl_bindings_list_add, cl_bindings_object_set
PutIntoBound(c, key, n) ==
  /\ MayBuild
  /\ {c, n} \subseteq NodesIn(heap, "bindings")
  /\ MayHold(c, n)
  /\ HasRoom(c, key)
  /\ heap' = [heap EXCEPT ![c] = With(c, key, n)]
  /\ UNCHANGED <<next, bound, copies, call, copying, copyFor, given, failed, phase, used>>

\* cl_bindings_set
Bind(name, n) ==
  /\ MayBuild
  /\ name \in LateNames => call.on
  /\ n \in NodesIn(heap, "bindings")
  /\ bound' = Put(bound, name, n)
  /\ UNCHANGED <<heap, next, copies, call, copying, copyFor, given, failed, phase, used>>

-----------------------------------------------------------------------------
(* The evaluation *)

\* cl_document_evaluate_with: the table of copies has the length of the bindings then.
StartEvaluation ==
  /\ phase = "building"
  /\ phase' = "evaluating"
  /\ copies' = [name \in DOMAIN bound |-> 0]
  /\ UNCHANGED <<heap, next, bound, call, copying, copyFor, given, failed, used>>

Evaluating == phase = "evaluating" /\ ~call.on /\ Idle /\ ~failed

\* The evaluator makes a value: a scalar, or a container of values it has.
MakeValue(kind, ns) ==
  /\ Evaluating
  /\ used.values < MaxValues
  /\ kind = "scalar" => ns = <<>>
  /\ kind = "object" => Len(ns) <= Cardinality(Keys)
  /\ LET keys == SetToSeq(Keys)
         its  == [i \in DOMAIN ns |-> Item(IF kind = "object" THEN keys[i] ELSE NoName, ns[i])]
     IN  heap' = Put(heap, next, [Node("result", kind) EXCEPT !.items = its])
  /\ next' = next + 1
  /\ given' = given \cup {next}
  /\ used' = [used EXCEPT !.values = @ + 1]
  /\ UNCHANGED <<bound, copies, call, copying, copyFor, failed, phase>>

\* cl_val_copy, called on src: allocate the copy of the node itself.
StartCopy(src) ==
  /\ heap' = Put(heap, next, Node("result", heap[src].kind))
  /\ next' = next + 1
  /\ copying' = Append(copying, [src |-> src, dst |-> next])

\* Slip: the bound value itself instead of a copy.
SlipNoCopy(name) ==
  /\ Evaluating
  /\ name \in DOMAIN bound \cap DOMAIN copies
  /\ copies[name] = 0
  /\ copies' = [copies EXCEPT ![name] = bound[name]]
  /\ given' = given \cup {bound[name]}
  /\ UNCHANGED <<heap, next, bound, call, copying, copyFor, failed, phase, used>>

\* cl_eval_binding, the first time; afterwards it returns the copy and changes nothing.
UseBinding(name) ==
  /\ Evaluating
  /\ name \in DOMAIN bound \cap DOMAIN copies
  /\ copies[name] = 0
  /\ StartCopy(bound[name])
  /\ copyFor' = name
  /\ UNCHANGED <<bound, copies, call, given, failed, phase, used>>

CopyTop  == Last(copying)
Copied   == Len(heap[CopyTop.dst].items)          \* items of the top call that are copied
CopyDone == Copied = Len(heap[CopyTop.src].items)

\* Slip: a kind of value that cl_val_copy has no case for.
SlipNoScalars ==
  /\ copying # <<>>
  /\ ~CopyDone
  /\ heap[heap[CopyTop.src].items[Copied + 1].node].kind # "scalar"
  /\ StartCopy(heap[CopyTop.src].items[Copied + 1].node)
  /\ UNCHANGED <<bound, copies, call, copyFor, given, failed, phase, used>>

\* cl_val_copy calls itself on the next item.
CopyItem ==
  /\ copying # <<>>
  /\ ~CopyDone
  /\ StartCopy(heap[CopyTop.src].items[Copied + 1].node)
  /\ UNCHANGED <<bound, copies, call, copyFor, given, failed, phase, used>>

\* Slip: every item under the key of the first one.
SlipFirstKey ==
  /\ Len(copying) > 1
  /\ CopyDone
  /\ LET below == copying[Len(copying) - 1]
     IN  heap' = [heap EXCEPT ![below.dst] = Added(@, heap[below.src].items[1].key, CopyTop.dst)]
  /\ copying' = Front(copying)
  /\ UNCHANGED <<next, bound, copies, call, copyFor, given, failed, phase, used>>

\* It returns to itself, which adds the copy to its own.
CopyReturns ==
  /\ Len(copying) > 1
  /\ CopyDone
  /\ LET below == copying[Len(copying) - 1]
         it    == heap[below.src].items[Len(heap[below.dst].items) + 1]
     IN  heap' = [heap EXCEPT ![below.dst] = Added(@, it.key, CopyTop.dst)]
  /\ copying' = Front(copying)
  /\ UNCHANGED <<next, bound, copies, call, copyFor, given, failed, phase, used>>

\* The outermost call returns to cl_eval_binding or to cl_call_copy.
CopyFinished ==
  /\ Len(copying) = 1
  /\ CopyDone
  /\ LET n == CopyTop.dst
     IN  IF call.on
           THEN /\ call' = [call EXCEPT !.owned = IF heap[n].kind = "scalar" THEN @ ELSE @ \cup {n}]
                /\ UNCHANGED <<copies, given>>
           ELSE /\ copies' = [copies EXCEPT ![copyFor] = n]
                /\ given' = given \cup {n}
                /\ UNCHANGED call
  /\ copying' = <<>>
  /\ UNCHANGED <<heap, next, bound, copyFor, failed, phase, used>>

-----------------------------------------------------------------------------
(* Calls of host functions: cl_call_invoke, and what the function may do *)

\* The arguments are values of the document, like others the host may have seen.
BeginCall ==
  /\ Evaluating
  /\ used.calls < MaxCalls
  /\ call' = [on |-> TRUE, owned |-> {}]
  /\ used' = [used EXCEPT !.calls = @ + 1]
  /\ UNCHANGED <<heap, next, bound, copies, copying, copyFor, given, failed, phase>>

\* cl_call_string, _number, _bool, _null; cl_call_list and _object own what they make.
NewCallValue(kind) ==
  /\ InCall
  /\ used.values < MaxValues
  /\ heap' = Put(heap, next, Node("result", kind))
  /\ next' = next + 1
  /\ call' = [call EXCEPT !.owned = IF kind = "scalar" THEN @ ELSE @ \cup {next}]
  /\ used' = [used EXCEPT !.values = @ + 1]
  /\ UNCHANGED <<bound, copies, copying, copyFor, given, failed, phase>>

\* Slip: any container of the result will do.
SlipAnyContainer(c, key, n) ==
  /\ InCall
  /\ {c, n} \subseteq NodesIn(heap, "result")
  /\ MayHold(c, n)
  /\ HasRoom(c, key)
  /\ heap' = [heap EXCEPT ![c] = With(c, key, n)]
  /\ UNCHANGED <<next, bound, copies, call, copying, copyFor, given, failed, phase, used>>

\* cl_call_list_add, cl_call_object_set: on a container this call has made.
PutIntoOwned(c, key, n) ==
  /\ InCall
  /\ {c, n} \subseteq NodesIn(heap, "result")
  /\ c \in call.owned
  /\ MayHold(c, n)
  /\ HasRoom(c, key)
  /\ heap' = [heap EXCEPT ![c] = With(c, key, n)]
  /\ UNCHANGED <<next, bound, copies, call, copying, copyFor, given, failed, phase, used>>

\* cl_call_copy, of any value there is.  Only the root of the copy is owned.
CallCopy(src) ==
  /\ InCall
  /\ used.copies < MaxCopies
  /\ src \in DOMAIN heap
  /\ StartCopy(src)
  /\ used' = [used EXCEPT !.copies = @ + 1]
  /\ UNCHANGED <<bound, copies, call, copyFor, given, failed, phase>>

\* cl_call_error: the function may go on after it.
CallError ==
  /\ InCall
  /\ failed' = TRUE
  /\ UNCHANGED <<heap, next, bound, copies, call, copying, copyFor, given, phase, used>>

\* The function returns n; the call and its list of containers are gone.
CallReturns(n) ==
  /\ InCall
  /\ n \in NodesIn(heap, "result")
  /\ given' = IF failed THEN given ELSE given \cup {n}
  /\ call' = NoCall
  /\ UNCHANGED <<heap, next, bound, copies, copying, copyFor, failed, phase, used>>

\* It returns NULL, which is a failure even when it has not reported one.
CallReturnsNull ==
  /\ InCall
  /\ call' = NoCall
  /\ failed' = TRUE
  /\ UNCHANGED <<heap, next, bound, copies, copying, copyFor, given, phase, used>>

\* The evaluator fails for a reason of its own.
EvaluatorFails ==
  /\ Evaluating
  /\ failed' = TRUE
  /\ UNCHANGED <<heap, next, bound, copies, call, copying, copyFor, given, phase, used>>

\* The evaluation returns; after a failure its result is freed at once.
Return ==
  /\ phase = "evaluating"
  /\ ~call.on
  /\ Idle
  /\ IF failed
       THEN /\ phase' = "failed"
            /\ heap' = [n \in NodesIn(heap, "bindings") |-> heap[n]]
            /\ given' = {}
            /\ copies' = [name \in {} |-> 0]
       ELSE phase' = "returned" /\ UNCHANGED <<heap, given, copies>>
  /\ UNCHANGED <<next, bound, call, copying, copyFor, failed, used>>

\* Slip: the names stay.
SlipStaleNames ==
  /\ phase \in {"returned", "failed"}
  /\ heap' = [n \in NodesIn(heap, "result") |-> heap[n]]
  /\ UNCHANGED <<next, bound, copies, call, copying, copyFor, given, failed, phase, used>>

\* cl_bindings_free, as soon as the evaluation has returned.
FreeBindings ==
  /\ phase \in {"returned", "failed"}
  /\ heap' = [n \in NodesIn(heap, "result") |-> heap[n]]
  /\ bound' = [name \in {} |-> 0]
  /\ UNCHANGED <<next, copies, call, copying, copyFor, given, failed, phase, used>>

-----------------------------------------------------------------------------
Init ==
  /\ heap = [n \in {} |-> Node("bindings", "scalar")]
  /\ next = 1
  /\ bound = [name \in {} |-> 0]
  /\ copies = [name \in {} |-> 0]
  /\ call = NoCall
  /\ copying = <<>>
  /\ copyFor = NoName
  /\ given = {}
  /\ failed = FALSE
  /\ phase = "building"
  /\ used = [bound |-> 0, values |-> 0, calls |-> 0, copies |-> 0]

Build ==
  \/ \E kind \in Kinds : NewBoundValue(kind)
  \/ \E c, n \in DOMAIN heap : \E key \in KeysOf(c) : PutIntoBound(c, key, n)
  \/ \E name \in Names \cup LateNames, n \in DOMAIN heap : Bind(name, n)

Evaluate ==
  \/ StartEvaluation
  \/ \E kind \in Kinds, ns \in SeqOf(given, MaxItems) : MakeValue(kind, ns)
  \/ \E name \in DOMAIN bound : UseBinding(name)
  \/ EvaluatorFails
  \/ Return

Copy == CopyItem \/ CopyReturns \/ CopyFinished

HostFunction ==
  \/ BeginCall
  \/ \E kind \in Kinds : NewCallValue(kind)
  \/ \E c, n \in DOMAIN heap : \E key \in KeysOf(c) : PutIntoOwned(c, key, n)
  \/ \E src \in DOMAIN heap : CallCopy(src)
  \/ CallError
  \/ \E n \in DOMAIN heap : CallReturns(n)
  \/ CallReturnsNull

Next == Build \/ Evaluate \/ Copy \/ HostFunction \/ FreeBindings

\* A copy goes on until it returns; what the host and the document do next is theirs.
Spec == Init /\ [][Next]_vars /\ WF_vars(Copy)

-----------------------------------------------------------------------------
(* Correctness *)

IsNode(node) ==
  /\ DOMAIN node = {"arena", "kind", "items"}
  /\ node.arena \in {"bindings", "result"}
  /\ node.kind \in Kinds
  /\ IsSequence(node.items)

TypeOK ==
  /\ next \in Nat \ {0}
  /\ DOMAIN heap \subseteq 1 .. next - 1
  /\ \A n \in DOMAIN heap : IsNode(heap[n])
  /\ Range(bound) \cup call.owned \cup given \subseteq DOMAIN heap
  /\ \A k \in DOMAIN copying : {copying[k].src, copying[k].dst} \subseteq DOMAIN heap

\* No value contains itself, whatever the host adds to what: a copy, a comparison, an
\* export of a value always ends.
Acyclic ==
  \A S \in SUBSET Inner(heap) : S # {} => \E n \in S : Under(heap, n) \cap S = {}

\* A value only points to values of its own arena, and the document only has values of
\* the result: freeing the bindings leaves the result whole, and the other way round.
ArenasApart ==
  /\ \A n \in DOMAIN heap : Under(heap, n) \subseteq NodesIn(heap, heap[n].arena)
  /\ given \subseteq NodesIn(heap, "result")

\* An object never has a key twice.
KeysOnce ==
  \A n \in DOMAIN heap :
    heap[n].kind = "object" =>
      \A i, j \in DOMAIN heap[n].items : heap[n].items[i].key = heap[n].items[j].key => i = j

\* Two nodes of the same kind, with the same keys in the same order.
LookAlike(h, p) ==
  /\ h[p[1]].kind = h[p[2]].kind
  /\ Len(h[p[1]].items) = Len(h[p[2]].items)
  /\ \A i \in DOMAIN h[p[1]].items : h[p[1]].items[i].key = h[p[2]].items[i].key

\* Which pairs of nodes are the same value, as far as it can be seen n levels down.
SameDown(h) ==
  LET same[n \in Nat] ==
        [p \in (DOMAIN h) \X (DOMAIN h) |->
           /\ LookAlike(h, p)
           /\ n > 0 => \A i \in DOMAIN h[p[1]].items :
                        same[n - 1][<<h[p[1]].items[i].node, h[p[2]].items[i].node>>]]
  IN  same

\* A copy is, item by item, the same value as what it is a copy of.  No value is deeper
\* than there are nodes.
CopiesAreEqual ==
  \A k \in DOMAIN copying :
    LET src == heap[copying[k].src]
        dst == heap[copying[k].dst]
    IN  /\ dst.kind = src.kind
        /\ \A i \in DOMAIN dst.items :
             /\ i \in DOMAIN src.items
             /\ dst.items[i].key = src.items[i].key
             /\ SameDown(heap)[next][<<src.items[i].node, dst.items[i].node>>]

\* No step, of any host function, changes a value the document has, or anything in
\* it, as long as the result is there.
ValuesNeverChange ==
  [][\A v \in given, n \in DOMAIN heap :
       phase' # "failed" /\ Reaches(heap, v, n) => n \in DOMAIN heap' /\ heap'[n] = heap[n]]_vars

\* Every copy that is started ends.
CopiesEnd == copying # <<>> ~> copying = <<>>

\* bound_copies is "parallel to bindings->items".
CopiesParallel == phase = "evaluating" => DOMAIN copies = DOMAIN bound
=============================================================================
