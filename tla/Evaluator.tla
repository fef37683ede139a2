------------------------------ MODULE Evaluator ------------------------------
(***************************************************************************)
(* The evaluation of a document (cl_eval.c): a recursive walk of the tree  *)
(* in C, a machine with an explicit control stack here.  One frame stands  *)
(* for one C call in progress; its locals are the frame's fields; a call   *)
(* pushes a frame, a return pops it and hands the value to the caller      *)
(* (appended to the caller's vals).                                        *)
(*                                                                         *)
(* The context shared by all calls (cl_eval_ctx_t) is the other variables. *)
(* resolving, a linked list in C whose nodes are locals of calls still in  *)
(* progress, is the sequence of the places of those calls on the stack,    *)
(* outermost first; each of them keeps, in parent, what the list was       *)
(* before, and puts it back when it returns.                               *)
(***************************************************************************)
EXTENDS Syntax, AnySequences, FiniteSets

CONSTANTS
  Docs,               \* the documents to evaluate: sequences of items
  Bindings,           \* what the host may bind: records [vals, fns] of functions from names
  Builtins,           \* the built-in functions: name -> [min, max]
  CallBuiltin(_, _),  \* name, arguments: a value, or NoValue when it fails
  BinaryOp(_, _, _),  \* operator and two operands of a strict operator, likewise
  UnaryOp(_, _)       \* operator and operand, likewise

(* An operator named Slip... is a plausible mistake in the definition that *)
(* follows it; the specification uses none of them.                        *)

ASSUME DocsAssumption ==
  \A d \in Docs : IsSequence(d) /\ \A i \in DOMAIN d : IsBlock(d[i]) => IsSequence(d[i].labels)

\* cl_bindings_set refuses NULL.
ASSUME BindingsAssumption ==
  \A b \in Bindings :
    /\ {"vals", "fns"} \subseteq DOMAIN b
    /\ \A name \in DOMAIN b.vals : b.vals[name] # NoValue

VARIABLES
  doc,        \* ctx.doc->root
  bindings,   \* ctx.bindings
  stack,      \* the calls in progress
  resolving,  \* ctx.resolving
  error,      \* ctx.failed and ctx.err: "" or the kind of the first error
  result      \* what cl_document_evaluate_with returns: <<>> until it returns
                \* [ok |-> TRUE, items], or [ok |-> FALSE] for NULL

vars   == <<doc, bindings, stack, resolving, error, result>>
inputs == <<doc, bindings>>

-----------------------------------------------------------------------------
(* Things that can be "in resolution": top-level attributes and blocks, and  *)
(* label expressions, by identity (the path of the item, the label's place). *)

NoKey            == [kind |-> "none", at |-> <<>>, label |-> 0]
AttrKey(i)       == [kind |-> "attr", at |-> <<i>>, label |-> 0]
BlockKey(i)      == [kind |-> "block", at |-> <<i>>, label |-> 0]
LabelKey(at, k)  == [kind |-> "label", at |-> at, label |-> k]

(* Frames.  op: the function; x: the syntax it works on; scope: the loop     *)
(* variables in scope; vals: the values its calls have returned; acc: what   *)
(* it has built; i: its loop counter; at: the path of its body; key, parent: *)
(* the node it has linked into ctx->resolving (NoKey when it has none).      *)
Frame(op, x, scope) ==
  [op |-> op, x |-> x, scope |-> scope, vals |-> <<>>, acc |-> <<>>, i |-> 0,
   at |-> <<>>, key |-> NoKey, parent |-> <<>>]

\* What a frame that does not evaluate an expression works on.
Body(items)  == [e |-> "body", items |-> items]
Steps(steps) == [e |-> "steps", steps |-> steps]

Top     == stack[Len(stack)]
Running == stack # <<>> /\ error = ""

IsExpr(kind) == Running /\ Top.op = "expr" /\ Top.x.e = kind
In(op)       == Running /\ Top.op = op

\* What the top call may do: call another, change its locals, return, fail.
Caller         == stack[Len(stack) - 1]
WithCaller(f)  == Append(Front(Front(stack)), f)
Pop(v)         == WithCaller([Caller EXCEPT !.vals = Append(@, v)])
CallOf(f)      == stack' = Append(stack, f) /\ UNCHANGED <<inputs, resolving, error, result>>
Continue(f)    == stack' = Append(Front(stack), f) /\ UNCHANGED <<inputs, resolving, error, result>>
Yield(v)       == stack' = Pop(v) /\ UNCHANGED <<inputs, resolving, error, result>>
Fail(kind)     == error' = kind /\ UNCHANGED <<inputs, stack, resolving, result>>
Eval(x, scope) == CallOf(Frame("expr", x, scope))

\* Slip: compare with the innermost resolution only ("a = a", but not "a = b, b = a").
SlipInnermostOnly(key) == resolving # <<>> /\ stack[Last(resolving)].key = key

\* cl_eval_is_resolving
IsResolving(key) == \E n \in DOMAIN resolving : stack[resolving[n]].key = key

\* Enter the resolution of key, unless it is under way already.  lower is the
\* stack the new frame is put on.
Enter(key, f, lower) ==
  IF IsResolving(key)
    THEN Fail("circular")
    ELSE /\ stack' = Append(lower, [f EXCEPT !.key = key, !.parent = resolving])
         /\ resolving' = Append(resolving, Len(lower) + 1)
         /\ UNCHANGED <<inputs, error, result>>

\* Slip: clear the list instead of restoring it.
SlipLeaveClears(v) ==
  /\ resolving' = <<>>
  /\ stack' = Pop(v)
  /\ UNCHANGED <<inputs, error, result>>

\* Return v from a resolution: unlink the node, then return.
Leave(v) ==
  /\ resolving' = Top.parent
  /\ stack' = Pop(v)
  /\ UNCHANGED <<inputs, error, result>>

-----------------------------------------------------------------------------
(* Names: loop variables, bindings *)

\* cl_scope_lookup: the innermost frame first, its key before its value.
ScopeLookup(scope, name) ==
  LET Has == {n \in DOMAIN scope : name \in {scope[n].key, scope[n].val}}
  IN  IF Has = {} THEN NoValue
      ELSE LET s == scope[CHOOSE n \in Has : \A m \in Has : m <= n]
           IN  IF s.key = name THEN s.keyValue ELSE s.valValue

\* cl_eval_binding (its copy of the value is the subject of HostValues).
BoundTo(name) ==
  IF name \in DOMAIN bindings.vals THEN bindings.vals[name] ELSE NoValue

\* The scope of one iteration of a "for" over coll.
IterScope(scope, key, val, elem) ==
  Append(scope, [key |-> key, keyValue |-> elem.key, val |-> val, valValue |-> elem.value])

-----------------------------------------------------------------------------
(* cl_eval_expr, one action per kind of expression *)

EvalLiteral == IsExpr("lit") /\ Yield(Top.x.value)

EvalTuple ==
  /\ IsExpr("tuple")
  /\ LET n == Len(Top.vals)
     IN  IF n < Len(Top.x.items) THEN Eval(Top.x.items[n + 1], Top.scope)
                                 ELSE Yield(List(Top.vals))

\* Keys and values alternate in vals; a key is checked before its value is evaluated.
EvalObject ==
  /\ IsExpr("object")
  /\ LET n       == Len(Top.vals)
         entries == Top.x.entries
         key(j)  == Text(Top.vals[2 * j - 1])
         Built   == [j \in 1 .. Len(entries) |-> Field(key(j), Top.vals[2 * j])]
     IN  IF n % 2 = 0
           THEN IF n < 2 * Len(entries) THEN Eval(entries[n \div 2 + 1].key, Top.scope)
                                        ELSE Yield(Object(Built))
           ELSE IF ~HasText(Top.vals[n]) THEN Fail("type")
                ELSE IF \E j \in 1 .. n \div 2 : key(j) = key(n \div 2 + 1)
                  THEN Fail("duplicate")
                  ELSE Eval(entries[n \div 2 + 1].value, Top.scope)

\* Only the chosen branch is evaluated.
EvalConditional ==
  /\ IsExpr("cond")
  /\ CASE Top.vals = <<>>      -> Eval(Top.x.c, Top.scope)
       [] Len(Top.vals) = 1    -> IF ~IsBool(Top.vals[1]) THEN Fail("type")
                                  ELSE Eval(IF Top.vals[1].b THEN Top.x.t ELSE Top.x.f, Top.scope)
       [] OTHER                -> Yield(Top.vals[2])

EvalUnary ==
  /\ IsExpr("unary")
  /\ IF Top.vals = <<>> THEN Eval(Top.x.a, Top.scope)
     ELSE LET v == UnaryOp(Top.x.op, Top.vals[1])
          IN  IF v = NoValue THEN Fail("type") ELSE Yield(v)

\* && and || check the left operand first and may not evaluate the right one.
EvalLogical ==
  /\ IsExpr("binary")
  /\ Top.x.op \in {"&&", "||"}
  /\ IF Top.vals = <<>> THEN Eval(Top.x.l, Top.scope)
     ELSE IF ~IsBool(Last(Top.vals)) THEN Fail("type")
     ELSE IF Len(Top.vals) = 1 /\ Top.vals[1].b = (Top.x.op = "&&") THEN Eval(Top.x.r, Top.scope)
     ELSE Yield(Last(Top.vals))

EvalBinary ==
  /\ IsExpr("binary")
  /\ Top.x.op \notin {"&&", "||"}
  /\ CASE Top.vals = <<>>   -> Eval(Top.x.l, Top.scope)
       [] Len(Top.vals) = 1 -> Eval(Top.x.r, Top.scope)
       [] OTHER -> LET v == BinaryOp(Top.x.op, Top.vals[1], Top.vals[2])
                   IN  IF v = NoValue THEN Fail("type") ELSE Yield(v)

\* The arguments of a call, a trailing "..." expanded.
Args(x, vals) ==
  IF x.expand /\ vals # <<>> THEN Front(vals) \o Last(vals).items ELSE vals

\* A host function shadows a built-in of the same name.  The host's callback is
\* represented by what it answers: a value, or NoValue when it reports an error.
EvalCall ==
  /\ IsExpr("call")
  /\ LET name   == Top.x.name
         n      == Len(Top.vals)
         isHost == name \in DOMAIN bindings.fns
         fn     == IF isHost THEN bindings.fns[name] ELSE Builtins[name]
         args   == Args(Top.x, Top.vals)
         v      == IF isHost THEN fn.answer ELSE CallBuiltin(name, args)
     IN  IF ~isHost /\ name \notin DOMAIN Builtins THEN Fail("function")
         ELSE IF n < Len(Top.x.args) THEN Eval(Top.x.args[n + 1], Top.scope)
         ELSE IF Top.x.expand /\ n > 0 /\ ~IsList(Last(Top.vals)) THEN Fail("type")
         ELSE IF Len(args) \notin fn.min .. fn.max THEN Fail("arity")
         ELSE IF v = NoValue THEN Fail("call") ELSE Yield(v)

\* A value that is not text stops the template at the part that produced it.
EvalTemplate ==
  /\ IsExpr("tpl")
  /\ LET n == Len(Top.vals)
     IN  IF n > 0 /\ ~HasText(Last(Top.vals)) THEN Fail("type")
         ELSE IF n < Len(Top.x.parts) THEN Eval(Top.x.parts[n + 1], Top.scope)
         ELSE Yield(Str(FoldLeft(LAMBDA s, v : s \o Text(v), "", Top.vals)))

EvalTemplateIf ==
  /\ IsExpr("tplif")
  /\ CASE Top.vals = <<>>   -> Eval(Top.x.c, Top.scope)
       [] Len(Top.vals) = 1 -> IF ~IsBool(Top.vals[1]) THEN Fail("type")
                               ELSE Eval(IF Top.vals[1].b THEN Top.x.t ELSE Top.x.f, Top.scope)
       [] OTHER             -> Yield(Top.vals[2])

\* The body is rendered once per element; the texts are appended to the buffer.
EvalTemplateFor ==
  /\ IsExpr("tplfor")
  /\ LET n == Len(Top.vals)
     IN  IF n = 0 THEN Eval(Top.x.coll, Top.scope)
         ELSE IF ~IsCollection(Top.vals[1]) THEN Fail("type")
         ELSE LET elems == Elements(Top.vals[1])
              IN  IF n <= Len(elems)
                    THEN Eval(Top.x.body, IterScope(Top.scope, Top.x.key, Top.x.val, elems[n]))
                    ELSE Yield(Str(FoldLeft(LAMBDA s, v : s \o v.s, "", Tail(Top.vals))))

EvalPostfix ==
  /\ IsExpr("postfix")
  /\ IF Top.vals = <<>> THEN Eval(Top.x.base, Top.scope)
     ELSE Continue([Frame("steps", Steps(Top.x.steps), Top.scope) EXCEPT !.acc = <<Top.vals[1]>>])

-----------------------------------------------------------------------------
(* cl_eval_for.  vals is the collection, then what the current iteration has *)
(* evaluated of Clauses; acc is the list items or object fields so far; i    *)
(* counts the finished iterations.                                           *)

Clauses(x) == x.test \o x.keyExpr \o <<x.valExpr>>
Got        == Tail(Top.vals)
HasColl    == Top.vals # <<>> /\ IsCollection(Top.vals[1])
InFor      == IsExpr("for") /\ HasColl

\* The values of the current iteration that may not be what they are.
BadClause(x, got) ==
  \/ x.test # <<>> /\ got # <<>> /\ ~IsBool(got[1])
  \/ /\ x.keyExpr # <<>>
     /\ Len(got) > Len(x.test)
     /\ ~IsStr(got[Len(x.test) + 1])

Skipped(x, got) == x.test # <<>> /\ got # <<>> /\ IsBool(got[1]) /\ ~got[1].b

NextIteration(acc) ==
  Continue([Top EXCEPT !.vals = <<Top.vals[1]>>, !.i = @ + 1, !.acc = acc])

\* The result with one more value: appended to a list, or under its key to an
\* object, where a key that is there already takes the value into its group.
Grown(x, got, acc) ==
  LET v  == Last(got)
      k  == got[Len(x.test) + 1].s
      at == SelectInSeq(acc, LAMBDA f : f.key = k)
  IN  IF x.keyExpr = <<>> THEN Append(acc, v)
      ELSE IF ~x.grouping THEN Append(acc, Field(k, v))
      ELSE IF at = 0 THEN Append(acc, Field(k, List(<<v>>)))
      ELSE [acc EXCEPT ![at].value = List(Append(@.items, v))]

DuplicateKey(x, got, acc) ==
  /\ x.keyExpr # <<>>
  /\ ~x.grouping
  /\ \E f \in Range(acc) : f.key = got[Len(x.test) + 1].s

ForCollection ==
  /\ IsExpr("for")
  /\ ~HasColl
  /\ IF Top.vals = <<>> THEN Eval(Top.x.coll, Top.scope) ELSE Fail("type")

ForClause ==
  /\ InFor
  /\ ~Skipped(Top.x, Got)
  /\ Top.i < Len(Elements(Top.vals[1]))
  /\ Len(Got) < Len(Clauses(Top.x))
  /\ IF BadClause(Top.x, Got) THEN Fail("type")
     ELSE Eval(Clauses(Top.x)[Len(Got) + 1],
               IterScope(Top.scope, Top.x.key, Top.x.val, Elements(Top.vals[1])[Top.i + 1]))

ForSkip == InFor /\ Skipped(Top.x, Got) /\ NextIteration(Top.acc)

ForAdd ==
  /\ InFor
  /\ ~Skipped(Top.x, Got)
  /\ Len(Got) = Len(Clauses(Top.x))
  /\ IF DuplicateKey(Top.x, Got, Top.acc) THEN Fail("duplicate")
                                          ELSE NextIteration(Grown(Top.x, Got, Top.acc))

ForDone ==
  /\ InFor
  /\ Top.i = Len(Elements(Top.vals[1]))
  /\ Yield(IF Top.x.keyExpr = <<>> THEN List(Top.acc) ELSE Object(Top.acc))

-----------------------------------------------------------------------------
(* cl_eval_traversal: the root of a reference is a loop variable, else a     *)
(* binding, else a top-level attribute, else a top-level block whose labels  *)
(* are the first steps.  The rest of the steps is applied to what it is.     *)

\* Apply to base the steps of the reference x after the first n.
ApplyTo(base, x, n) ==
  Continue([Frame("steps", Steps(SubSeq(x.steps, n + 1, Len(x.steps))), Top.scope)
              EXCEPT !.acc = <<base>>])

\* The blocks a reference may mean: the type is the root, and there are as many
\* labels (one at least) as leading ".name" steps they would have to match.
Probes(x) ==
  {i \in BlocksOf(doc, x.root) :
     LET n == Len(doc[i].labels)
     IN  n \in 1 .. Len(x.steps) /\ \A k \in 1 .. n : x.steps[k].s = "attr"}

\* Slip: document order alone, a short label list before a long one.
SlipDocumentOrder(i, j) == i < j

\* The order they are tried in: most labels first, then document order.
TriedBefore(i, j) ==
  \/ Len(doc[i].labels) > Len(doc[j].labels)
  \/ Len(doc[i].labels) = Len(doc[j].labels) /\ i < j

FirstTried(left) == CHOOSE i \in left : \A j \in left \ {i} : TriedBefore(i, j)

\* Slip: a top-level attribute before a binding of the same name.
SlipAttributeFirst(x) ==
  /\ ScopeLookup(Top.scope, x.root) = NoValue
  /\ BoundTo(x.root) = NoValue \/ AttrAt(doc, x.root) > 0

RootLocal(x) == ScopeLookup(Top.scope, x.root)
IsOuter(x)   == RootLocal(x) = NoValue /\ BoundTo(x.root) = NoValue

RefVariable ==
  /\ IsExpr("ref")
  /\ Top.vals = <<>>
  /\ ~IsOuter(Top.x)
  /\ ApplyTo(IF RootLocal(Top.x) # NoValue THEN RootLocal(Top.x) ELSE BoundTo(Top.x.root), Top.x, 0)

RefAttribute ==
  /\ IsExpr("ref")
  /\ Top.vals = <<>>
  /\ IsOuter(Top.x)
  /\ LET i == AttrAt(doc, Top.x.root)
     IN  i > 0 /\ Enter(AttrKey(i), Frame("attr", doc[i].value, <<>>), stack)

RefBlock ==
  /\ IsExpr("ref")
  /\ Top.vals = <<>>
  /\ IsOuter(Top.x)
  /\ AttrAt(doc, Top.x.root) = 0
  /\ IF Top.x.steps = <<>> \/ Top.x.steps[1].s # "attr"
       THEN Fail("notfound")
       ELSE CallOf([Frame("find", Top.x, <<>>) EXCEPT !.acc = Probes(Top.x)])

\* The root has been resolved; i is the number of steps its labels took.
RefSteps ==
  /\ IsExpr("ref")
  /\ Top.vals # <<>>
  /\ ApplyTo(Top.vals[1], Top.x, Top.i)

\* cl_eval_label, for the k-th label of a block at path at: constant text, or an
\* expression that is evaluated at the top level.
EvalLabel(at, block, k) ==
  LET x == block.labels[k]
  IN  IF x.e = "lit" THEN Continue([Top EXCEPT !.vals = Append(@, x.value)])
                     ELSE Enter(LabelKey(at, k), Frame("label", x, <<>>), stack)

\* Slip: after a mismatch, start over with the same block.
SlipSameProbe == Continue([Top EXCEPT !.vals = <<>>])

NextProbe == Continue([Top EXCEPT !.acc = @ \ {FirstTried(@)}, !.vals = <<>>])

\* cl_eval_find_block_by_labels.  acc is the set of probes left; vals, the labels
\* of the first of them that have been evaluated, up to the first mismatch.
FindBlock ==
  /\ In("find")
  /\ Top.acc # {}
  /\ LET i == FirstTried(Top.acc)
         n == Len(Top.vals)
         mismatch == n > 0 /\ Last(Top.vals).s # Top.x.steps[n].name
     IN  IF mismatch THEN NextProbe
         ELSE IF n < Len(doc[i].labels) THEN EvalLabel(<<i>>, doc[i], n + 1)
         ELSE Enter(BlockKey(i), Frame("block", Body(doc[i].body), <<>>),
                    WithCaller([Caller EXCEPT !.i = n]))

FindNothing == In("find") /\ Top.acc = {} /\ Fail("notfound")

\* Slip: evaluate in the scope of the reference (dynamic scoping).
SlipDynamicScope ==
  /\ In("attr")
  /\ IF Top.vals = <<>> THEN Eval(Top.x, Caller.scope) ELSE Leave(Top.vals[1])

\* The three things under resolution.  Each is evaluated at the top level: the
\* loop variables of the expression that refers to it are not in its scope.
ResolveAttribute ==
  /\ In("attr")
  /\ IF Top.vals = <<>> THEN Eval(Top.x, <<>>) ELSE Leave(Top.vals[1])

\* The parser compiles a computed label to a template, whose value is text; the
\* last case is the code's guard against any other.
ResolveLabel ==
  /\ In("label")
  /\ IF Top.vals = <<>> THEN Eval(Top.x, <<>>)
     ELSE IF HasText(Top.vals[1]) THEN Leave(Str(Text(Top.vals[1])))
     ELSE /\ resolving' = Top.parent
          /\ stack' = Front(stack)
          /\ error' = "type"
          /\ UNCHANGED <<inputs, result>>

\* cl_eval_body_as_object: the attributes only; a nested block is not evaluated.
ResolveBlock ==
  /\ In("block")
  /\ LET attrs == SelectSeq(Top.x.items, IsAttr)
         n     == Len(Top.vals)
     IN  IF n < Len(attrs) THEN Eval(attrs[n + 1].value, <<>>)
         ELSE Leave(Object([j \in DOMAIN attrs |-> Field(attrs[j].name, Top.vals[j])]))

-----------------------------------------------------------------------------
(* cl_eval_apply_steps.  x: the steps; i: how many are applied; acc: <<the   *)
(* value so far>>; vals: the index being evaluated.  "mapped" is the inner   *)
(* loop of a splat, which applies the steps after it to one element.         *)

Stepped(v) == Continue([Top EXCEPT !.acc = <<v>>, !.i = @ + 1, !.vals = <<>>])

\* cl_eval_index_list, cl_eval_index_object
IndexList(list, n) ==
  IF ~IsList(list) THEN Fail("type")
  ELSE IF n \notin 0 .. Len(list.items) - 1 THEN Fail("range")
  ELSE Stepped(list.items[n + 1])

IndexObject(obj, key) ==
  IF ~IsObj(obj) THEN Fail("type")
  ELSE IF ~HasKey(obj, key) THEN Fail("notfound")
  ELSE Stepped(Get(obj, key))

\* cl_eval_apply_step; a step applied to NULL (after a splat in the inner loop)
\* reads through the null pointer: "crash" stands for the end of the process.
StepInto(value, step) ==
  \/ /\ step.s = "attr"
     /\ IF value = NoValue THEN Fail("crash") ELSE IndexObject(value, step.name)
  \/ /\ step.s = "index"
     /\ Top.vals = <<>>
     /\ Eval(step.x, Top.scope)
  \/ /\ step.s = "index"
     /\ Top.vals # <<>>
     /\ LET key == Top.vals[1]
        IN  IF ~IsNum(key) /\ ~IsStr(key) THEN Fail("type")
            ELSE IF value = NoValue THEN Fail("crash")
            ELSE IF IsNum(key) THEN IndexList(value, key.n) ELSE IndexObject(value, key.s)
  \/ step.s = "splat" /\ Stepped(NoValue)

ApplyStep ==
  /\ Running
  /\ Top.op \in {"steps", "mapped"}
  /\ Top.i < Len(Top.x.steps)
  /\ Top.op = "steps" => Top.x.steps[Top.i + 1].s # "splat"
  /\ StepInto(Top.acc[1], Top.x.steps[Top.i + 1])

StepsDone ==
  /\ Running
  /\ Top.op \in {"steps", "mapped"}
  /\ Top.i = Len(Top.x.steps)
  /\ Yield(Top.acc[1])

\* A splat takes a list as it is and anything else as a list of one.
ApplySplat ==
  /\ In("steps")
  /\ Top.i < Len(Top.x.steps)
  /\ Top.x.steps[Top.i + 1].s = "splat"
  /\ LET v    == Top.acc[1]
         rest == SubSeq(Top.x.steps, Top.i + 2, Len(Top.x.steps))
     IN  Continue([Frame("splat", Steps(rest), Top.scope)
                     EXCEPT !.acc = IF IsList(v) THEN v.items ELSE <<v>>])

MapElement ==
  /\ In("splat")
  /\ LET n == Len(Top.vals)
     IN  IF n < Len(Top.acc) THEN CallOf([Frame("mapped", Top.x, Top.scope) EXCEPT !.acc = <<Top.acc[n + 1]>>])
                             ELSE Yield(List(Top.vals))

-----------------------------------------------------------------------------
(* cl_eval_build_body.  acc: the items built; i: how many.  Only the root    *)
(* body, the one with an empty path, is overridden by bindings.              *)

Built(item) == Continue([Top EXCEPT !.acc = Append(@, item), !.i = @ + 1, !.vals = <<>>])
InBody      == In("body") /\ Top.i < Len(Top.x.items)
Item        == Top.x.items[Top.i + 1]
IsOverridden(at, name) == at = <<>> /\ BoundTo(name) # NoValue

BuildAttribute ==
  /\ InBody
  /\ IsAttr(Item)
  /\ IF IsOverridden(Top.at, Item.name) THEN Built(AttrItem(Item.name, BoundTo(Item.name)))
     ELSE IF Top.vals = <<>> THEN Eval(Item.value, <<>>)
     ELSE Built(AttrItem(Item.name, Top.vals[1]))

BuildBlock ==
  /\ InBody
  /\ IsBlock(Item)
  /\ LET at == Append(Top.at, Top.i + 1)
         n  == Len(Top.vals)
         k  == Len(Item.labels)
     IN  IF n < k THEN EvalLabel(at, Item, n + 1)
         ELSE IF n = k THEN CallOf([Frame("body", Body(Item.body), <<>>) EXCEPT !.at = at])
         ELSE Built(BlockItem(Item.type, [j \in 1 .. k |-> Text(Top.vals[j])], Top.vals[k + 1]))

BuildDone ==
  /\ In("body")
  /\ Len(stack) > 1
  /\ Top.i = Len(Top.x.items)
  /\ Yield(Top.acc)

-----------------------------------------------------------------------------
(* cl_document_evaluate_with *)

Init ==
  /\ doc \in Docs
  /\ bindings \in Bindings
  /\ stack = <<Frame("body", Body(doc), <<>>)>>
  /\ resolving = <<>>
  /\ error = ""
  /\ result = <<>>

Finish ==
  /\ In("body")
  /\ Len(stack) = 1
  /\ Top.i = Len(Top.x.items)
  /\ stack' = <<>>
  /\ result' = [ok |-> TRUE, items |-> Top.acc]
  /\ UNCHANGED <<inputs, resolving, error>>

\* Slip: forget to report the failure to the host.
SlipSilentFailure ==
  /\ error # ""
  /\ stack # <<>>
  /\ stack' = Front(stack)
  /\ resolving' = IF Top.key = NoKey THEN resolving ELSE Top.parent
  /\ UNCHANGED <<inputs, error, result>>

\* Slip: return on failure before the list is restored.
SlipUnwindKeepsNode ==
  /\ error # ""
  /\ stack # <<>>
  /\ stack' = Front(stack)
  /\ result' = IF Len(stack) = 1 THEN [ok |-> FALSE] ELSE result
  /\ UNCHANGED <<inputs, resolving, error>>

\* After a failure every call returns NULL to its caller; one that has linked a
\* node into ctx->resolving takes it out first.  The result is then freed.
Unwind ==
  /\ error # ""
  /\ stack # <<>>
  /\ stack' = Front(stack)
  /\ resolving' = IF Top.key = NoKey THEN resolving ELSE Top.parent
  /\ result' = IF Len(stack) = 1 THEN [ok |-> FALSE] ELSE result
  /\ UNCHANGED <<inputs, error>>

Returned == stack = <<>> /\ UNCHANGED vars

Next ==
  \/ EvalLiteral \/ EvalTuple \/ EvalObject \/ EvalConditional
  \/ EvalUnary \/ EvalLogical \/ EvalBinary \/ EvalCall
  \/ EvalTemplate \/ EvalTemplateIf \/ EvalTemplateFor \/ EvalPostfix
  \/ ForCollection \/ ForClause \/ ForSkip \/ ForAdd \/ ForDone
  \/ RefVariable \/ RefAttribute \/ RefBlock \/ RefSteps
  \/ FindBlock \/ FindNothing
  \/ ResolveAttribute \/ ResolveLabel \/ ResolveBlock
  \/ ApplyStep \/ StepsDone \/ ApplySplat \/ MapElement
  \/ BuildAttribute \/ BuildBlock \/ BuildDone
  \/ Finish \/ Unwind \/ Returned

\* The evaluation is one sequential C function: it goes on until it returns.
Spec == Init /\ [][Next]_vars /\ WF_vars(Next)

-----------------------------------------------------------------------------
(* Correctness *)

Ops       == {"expr", "attr", "label", "block", "find", "steps", "mapped", "splat", "body"}
EntityOps == {"attr", "label", "block"}
Errors    == {"", "circular", "notfound", "type", "duplicate", "range", "function", "arity",
              "call", "crash"}

IsFrame(f) ==
  /\ DOMAIN f = {"op", "x", "scope", "vals", "acc", "i", "at", "key", "parent"}
  /\ f.op \in Ops
  /\ f.i \in Nat
  /\ IsSequence(f.vals)
  /\ f.key # NoKey <=> f.op \in EntityOps

\* Which calls can be on top of which: the walk of the root body is at the bottom,
\* and a search for a block is made by the traversal just below it.
WellStacked(st) ==
  /\ IsSequence(st)
  /\ \A n \in DOMAIN st :
       /\ IsFrame(st[n])
       /\ n = 1 => st[n].op = "body"
       /\ st[n].op = "find" => n > 1 /\ st[n - 1].op = "expr"

TypeOK ==
  /\ WellStacked(stack)
  /\ error \in Errors
  /\ stack = <<>> <=> result # <<>>

IsEntity(st, n) == st[n].key # NoKey

\* chain names, outermost first, every call among the first n of st that is resolving
\* something, and no other.
ListsEntities(st, chain, n) ==
  /\ chain \in Seq(1 .. n)
  /\ \A a, b \in DOMAIN chain : a < b => chain[a] < chain[b]
  /\ \A j \in 1 .. n : IsEntity(st, j) <=> \E a \in DOMAIN chain : chain[a] = j

Linked(st, chain) ==
  /\ ListsEntities(st, chain, Len(st))
  /\ \A n \in DOMAIN st : IsEntity(st, n) => ListsEntities(st, st[n].parent, n - 1)

KeysDiffer(st) ==
  \A m, n \in DOMAIN st :
    IsEntity(st, m) /\ IsEntity(st, n) /\ st[m].key = st[n].key => m = n

\* ctx->resolving is a list of locals of calls in progress: it never holds a node of
\* a call that has returned (not even while a failure unwinds the stack), it misses
\* none, and what each call will put back is the list as it should be below it.
NoDanglingNode == Linked(stack, resolving)

\* Nothing is resolved inside its own resolution.
NoReentry == KeysDiffer(stack)

\* How many things can be in resolution at once: the items of the root body and
\* the labels of its blocks, and one label of a nested block.
Resolvable(item) == 1 + (IF IsBlock(item) THEN Len(item.labels) ELSE 0)
Definitions      == 1 + Total([i \in DOMAIN doc |-> Resolvable(doc[i])])

\* The C stack is bounded by the document: never more resolutions in progress than
\* there are definitions to resolve, however the references are arranged.
DepthBounded == Len(resolving) <= Definitions

\* Where a reference looks is what the result shows: while the document is walked, a
\* top-level attribute or label that is resolved once more has the value it was
\* already given in the result, whatever loop variables are in scope around it.
SeenIsBuilt ==
  LET built == stack[1].acc
      ValueOf(n) == stack[n].vals[1]
  IN  \A n \in DOMAIN stack :
        LET at == stack[n].key.at
        IN  stack[n].vals # <<>> =>
              /\ stack[n].op = "attr" /\ at[1] \in DOMAIN built =>
                   ValueOf(n) = built[at[1]].value
              /\ stack[n].op = "label" /\ at[1] \in DOMAIN built /\ Len(at) = 1 =>
                   /\ HasText(ValueOf(n))
                   /\ Text(ValueOf(n)) = built[at[1]].labels[stack[n].key.label]

\* The expression of a top-level attribute whose name the host has bound is never
\* evaluated, neither for the result nor for a reference: a default that would fail
\* does no harm.
OverriddenNotEvaluated ==
  \A n \in DOMAIN stack :
    LET f     == stack[n]
        bound == DOMAIN bindings.vals
    IN  /\ f.op = "attr" => doc[f.key.at[1]].name \notin bound
        /\ n = 1 /\ f.i < Len(f.x.items) /\ IsAttr(f.x.items[f.i + 1])
             /\ f.x.items[f.i + 1].name \in bound =>
             Len(stack) = 1

\* Every evaluation returns.
Terminates == <>(result # <<>>)

\* The definitions in resolution, as the abstract specification sees them.
Chain == [n \in DOMAIN resolving |-> stack[resolving[n]].key]
Phase == CASE result # <<>>             -> IF result.ok THEN "done" ELSE "failed"
           [] result = <<>> /\ error # "" -> "failing"
           [] result = <<>> /\ error = "" -> "running"

Abstract == INSTANCE Resolution WITH chain <- Chain, phase <- Phase

\* The evaluator implements Resolution.
ImplementsResolution == Abstract!AbsSpec
=============================================================================
