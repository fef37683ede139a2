----------------------------- MODULE Validation -----------------------------
(***************************************************************************)
(* A host that builds or loads a schema, changes a document it holds       *)
(* (cl_mutate.c), evaluates it and validates it against the schema         *)
(* (cl_schema_validate), with or without a result.  Nothing ties a result  *)
(* to the document: it is of the document as it was when it was evaluated. *)
(* Validation is a walk, one call for the root and one for each block that *)
(* is entered, with a step for each item.                                  *)
(***************************************************************************)
EXTENDS SchemaRules, Tree

CONSTANTS
  Documents,    \* the documents a host may have loaded
  Bound,        \* the variables of the host, a function from names to values
  NewNames,     \* the attributes it may set or remove in a body
  NewTypes,     \* the blocks it may add to one
  NewValues,    \* the literals it may give to an attribute
  MaxChanges,   \* bound: changes to the document
  MaxDepth      \* bound: how deep blocks are nested

ASSUME ChangesAssumption == MaxChanges \in Nat /\ MaxDepth \in Nat

\* A body is an array of items of two kinds.
IsBody(body) ==
  /\ IsSequence(body)
  /\ \A i \in DOMAIN body :
       body[i] = IF IsAttr(body[i]) THEN AttrItem(body[i].name, body[i].value)
                                    ELSE BlockItem(body[i].type, body[i].labels, body[i].body)

ASSUME DocumentsAssumption ==
  \A d \in Documents \cup Declarations : \A p \in PathsOf(d, MaxDepth) :
    /\ IsBody(BodyAt(d, p))
    /\ BlocksIn(BodyAt(d, p)) # {} => Len(p) < MaxDepth

\* A list of the values of an enum is an array.
HasItems(form) == form.enum # <<>> /\ form.enum[1].e = "tuple" => IsSequence(form.enum[1].items)

ASSUME ListsAssumption ==
  \A d \in Declarations : \A p \in PathsOf(d, MaxDepth) : \A i \in DOMAIN BodyAt(d, p) :
    IsAttr(BodyAt(d, p)[i]) => HasItems(ReadForm(BodyAt(d, p)[i].value))

VARIABLES
  doc,       \* the body of the document
  result,    \* no or one body: the one that the host evaluated last, as it was then
  changes,   \* changes made so far
  eroot,     \* no or one body: the result that the validation in progress was given
  walk,      \* the calls of the validation in progress, outermost first
  verdict    \* the problem that was found in the document alone, and with its result

vars == <<rules, strict, held, reading, status, error, doc, result, changes, eroot, walk, verdict>>

-----------------------------------------------------------------------------
(* Evaluation of the documents of this model, whose attributes are         *)
(* literals, lists, objects, for-expressions and variables of the host.    *)
(* There is one evaluated item for each item, in order, a block for a      *)
(* block and the value of the expression for an attribute                  *)
(* (cl_eval_build_body): so a result is given by the body it is of.        *)

ExprValue(x) ==
  CASE x.e = "lit"    -> x.value
    [] x.e = "ref"    -> Bound[x.root]
    [] x.e = "object" -> Object(<<>>)
    [] x.e = "tuple"  -> List(<<>>)
    [] x.e = "for"    -> IF x.keyExpr = <<>> THEN List(<<>>) ELSE Object(<<>>)

-----------------------------------------------------------------------------
(* Validation.  A problem is what is wrong and where: the path of the      *)
(* block or attribute whose line is reported.                              *)

Problem(what, at) == [what |-> what, at |-> at]
Fine              == Problem("", <<>>)

\* The result would be read past its end.
Crash == Problem("crash", <<>>)

TypeAccepts(type, v) == type = "any" \/ type = v.k

\* Slip: take a for-expression for a list.
SlipLiteralKind(x) ==
  CASE x.e = "lit"             -> <<x.value>>
    [] x.e \in {"tuple", "for"} -> <<List(<<>>)>>
    [] x.e = "object"          -> <<Object(<<>>)>>
    [] OTHER                   -> <<>>

\* cl_literal_kind, cl_expr_as_string: no or one value, known without evaluation.
\* Of lists and objects only the kind is known.
LiteralKind(x) ==
  CASE x.e = "lit"    -> <<x.value>>
    [] x.e = "tuple"  -> <<List(<<>>)>>
    [] x.e = "object" -> <<Object(<<>>)>>
    [] OTHER          -> <<>>

\* What a value that is known does wrong to its rule.
ValueProblem(attr, known) ==
  IF known = <<>> THEN ""
  ELSE IF ~TypeAccepts(attr.type, known[1]) THEN "type"
  ELSE IF IsStr(known[1]) /\ attr.values # <<>> /\ known[1].s \notin Range(attr.values) THEN "enum"
  ELSE ""

\* Slip: trust that the result is of this document.
SlipAnyShape(body, ebody) == TRUE

\* cl_schema_check_result_shape; ebody is no or one body of a result.
SameShape(body, ebody) == ebody = <<>> \/ Len(ebody[1]) = Len(body)

\* Slip: the last attribute rule is not asked for.
SlipMissing(rule, body) ==
  SelectInSeq(rules[rule].attrs,
              LAMBDA a : a.required /\ AttrAt(body, a.name) = 0 /\ a # Last(rules[rule].attrs))

\* The first attribute rule that is required and missing, as a place, or 0.
Missing(rule, body) ==
  SelectInSeq(rules[rule].attrs, LAMBDA a : a.required /\ AttrAt(body, a.name) = 0)

\* A call of cl_schema_validate_block, or for rule 1 of cl_schema_validate: its rule and
\* the item it is at.  Its block is the item that the call below it is at.
Visit(rule) == [rule |-> rule, i |-> 1]
Now         == Last(walk)

Position  == [n \in DOMAIN walk |-> walk[n].i]
Path      == Front(Position)
Body      == BodyAt(doc, Path)
IsOfRoot  == Len(walk) = 1

\* The evaluated body beside the one at path, when there is a result.
Ebody(path) == IF eroot = <<>> THEN <<>> ELSE <<BodyAt(eroot[1], path)>>

\* The evaluated item beside the item: &ebody->items[i]
IsPastTheEnd == eroot # <<>> /\ Now.i \notin DOMAIN Ebody(Path)[1]
Fits         == eroot = <<>> \/ (~IsPastTheEnd /\ Ebody(Path)[1][Now.i].item = Body[Now.i].item)
Misfit       == IF IsPastTheEnd THEN Crash ELSE Problem("result", Path)

Known == IF eroot = <<>> THEN LiteralKind(Body[Now.i].value) ELSE <<ExprValue(Ebody(Path)[1][Now.i].value)>>

\* What is wrong with the attribute that the walk is at.
AttrProblem ==
  LET name == Body[Now.i].name
      rule == FindAttr(Now.rule, name)
  IN  IF rule = 0 THEN Problem("attribute not allowed", Position)
      ELSE IF \E j \in 1 .. Now.i - 1 : IsAttr(Body[j]) /\ Body[j].name = name THEN Problem("duplicate", Position)
      ELSE IF ValueProblem(rules[Now.rule].attrs[rule], Known) = "" THEN Fine
      ELSE Problem(ValueProblem(rules[Now.rule].attrs[rule], Known), Position)

-----------------------------------------------------------------------------
(* The walk.  Nothing else happens during it. *)

docVars == <<doc, result, changes>>
Walking == walk # <<>> /\ UNCHANGED <<docVars, rulesVars>>

\* The validation returns, with the first problem or with none.
Given(root)    == IF root = <<>> THEN "document" ELSE "result"
Return(problem) ==
  /\ verdict' = [verdict EXCEPT ![Given(eroot)] = problem]
  /\ walk' = <<>>
  /\ eroot' = <<>>

Continue(calls) == walk' = calls /\ UNCHANGED <<eroot, verdict>>
NextItem(calls) == Append(Front(calls), [Last(calls) EXCEPT !.i = @ + 1])

IsAtA(kind) == Walking /\ Now.i <= Len(Body) /\ Body[Now.i].item = kind
IsAtEnd     == Walking /\ Now.i > Len(Body)

\* cl_schema_validate, up to its loop
Validate(root) ==
  /\ walk = <<>>
  /\ status \in {"building", "ready"}
  /\ IF SameShape(doc, root)
       THEN walk' = <<Visit(1)>> /\ eroot' = root /\ UNCHANGED verdict
       ELSE verdict' = [verdict EXCEPT ![Given(root)] = Problem("result", <<>>)] /\ UNCHANGED <<eroot, walk>>
  /\ UNCHANGED <<docVars, rulesVars>>

\* Attributes of the root are not checked.
PassAttr == IsAtA("attr") /\ IsOfRoot /\ Continue(NextItem(walk))

CheckAttr ==
  /\ IsAtA("attr")
  /\ ~IsOfRoot
  /\ IF ~Fits THEN Return(Misfit)
     ELSE IF AttrProblem # Fine THEN Return(AttrProblem)
     ELSE Continue(NextItem(walk))

EnterBlock(rule) ==
  IF ~SameShape(BodyAt(doc, Position), Ebody(Position)) THEN Return(Problem("result", Position))
  ELSE Continue(Append(walk, Visit(rule)))

CheckBlock ==
  /\ IsAtA("block")
  /\ LET rule == FindBlock(Now.rule, Body[Now.i].type)
     IN  IF ~Fits THEN Return(Misfit)
         ELSE IF rule # 0 THEN EnterBlock(rule)
         ELSE IF ~IsOfRoot THEN Return(Problem("block not allowed", Position))
         ELSE IF strict THEN Return(Problem("not registered", Position))
         ELSE Continue(NextItem(walk))

LeaveBlock ==
  /\ IsAtEnd
  /\ ~IsOfRoot
  /\ IF Missing(Now.rule, Body) # 0 THEN Return(Problem("missing", Path))
     ELSE Continue(NextItem(Front(walk)))

LeaveRoot == IsAtEnd /\ IsOfRoot /\ Return(Fine)

-----------------------------------------------------------------------------
(* What the host does *)

NotValidated == Problem("not validated", <<>>)
NoVerdict    == [document |-> NotValidated, result |-> NotValidated]

Idle == walk = <<>> /\ UNCHANGED <<walk, eroot>>

Change(new) ==
  /\ Idle
  /\ changes < MaxChanges
  /\ doc' = new
  /\ changes' = changes + 1
  /\ verdict' = NoVerdict
  /\ UNCHANGED <<result, rulesVars>>

SetAttribute(path, name, x) == Change(WithBody(doc, path, WithAttribute(BodyAt(doc, path), name, x)))

AddEmptyBlock(path, type) ==
  /\ Len(path) < MaxDepth
  /\ Change(WithBody(doc, path, WithBlock(BodyAt(doc, path), type, <<>>)))

RemoveAttribute(path, name) ==
  /\ AttrAt(BodyAt(doc, path), name) # 0
  /\ Change(WithBody(doc, path, WithoutItem(BodyAt(doc, path), AttrAt(BodyAt(doc, path), name))))

RemoveBlock(path, i) ==
  /\ IsBlock(BodyAt(doc, path)[i])
  /\ Change(WithBody(doc, path, WithoutItem(BodyAt(doc, path), i)))

Evaluate ==
  /\ Idle
  /\ result' = <<doc>>
  /\ verdict' = [verdict EXCEPT !["result"] = NotValidated]
  /\ UNCHANGED <<doc, changes, rulesVars>>

Init ==
  /\ RulesInit
  /\ doc \in Documents
  /\ result = <<>>
  /\ changes = 0
  /\ eroot = <<>>
  /\ walk = <<>>
  /\ verdict = NoVerdict

Next ==
  \/ RulesNext /\ Idle /\ verdict' = NoVerdict /\ UNCHANGED docVars
  \/ \E path \in PathsOf(doc, MaxDepth) :
       \/ \E name \in NewNames, x \in NewValues : SetAttribute(path, name, x)
       \/ \E name \in NewNames : RemoveAttribute(path, name)
       \/ \E type \in NewTypes : AddEmptyBlock(path, type)
       \/ \E i \in DOMAIN BodyAt(doc, path) : RemoveBlock(path, i)
  \/ Evaluate
  \/ \E root \in {<<>>, result} : Validate(root)
  \/ PassAttr \/ CheckAttr \/ CheckBlock \/ LeaveBlock \/ LeaveRoot

Spec == Init /\ [][Next]_vars

-----------------------------------------------------------------------------
(* Correctness *)

\* The rules that the types of a block and of those around it lead to.
RulesFor(path) ==
  LET for[n \in 0 .. Len(path)] ==
        IF n = 0 THEN {1}
        ELSE {r \in DOMAIN rules : /\ rules[r].parent \in for[n - 1]
                                   /\ rules[r].type = BodyAt(doc, SubSeq(path, 1, n - 1))[path[n]].type}
  IN  for[Len(path)]

\* The places of a document at which something may be wrong: each item, and behind the last
\* item of a block, where it is known what the block lacks.
IsPlace(place) ==
  /\ place # <<>>
  /\ IsPath(doc, Front(place))
  /\ Last(place) \in 1 .. Len(BodyAt(doc, Front(place))) + 1
PlacesIn(path) == {Append(path, i) : i \in 1 .. Len(BodyAt(doc, path)) + 1}
Places         == UNION {PlacesIn(path) : path \in PathsOf(doc, MaxDepth)}

\* The order of the document: where two places part, the smaller number comes first,
\* and a block comes before what it holds.
Before(p, q) ==
  \E n \in DOMAIN q : /\ n <= Len(p) + 1
                      /\ \A m \in 1 .. n - 1 : p[m] = q[m]
                      /\ n \in DOMAIN p => p[n] < q[n]

When(condition, problem) == IF condition THEN {problem} ELSE {}

IsItem(body, i, kind) == i <= Len(body) /\ body[i].item = kind

\* What is wrong with the structure of the document at a place.
Unregistered(place) ==
  When(strict /\ IsItem(doc, Last(place), "block") /\ RulesFor(place) = {}, Problem("not registered", place))

StructureOf(rule, path, i) ==
  LET body  == BodyAt(doc, path)
      place == Append(path, i)
      attrs == Range(rules[rule].attrs)
  IN  When(IsItem(body, i, "attr") /\ \A a \in attrs : a.name # body[i].name,
           Problem("attribute not allowed", place))
      \cup When(IsItem(body, i, "attr") /\ \E k \in 1 .. i - 1 : IsAttr(body[k]) /\ body[k].name = body[i].name,
                Problem("duplicate", place))
      \cup When(IsItem(body, i, "block") /\ RulesFor(place) = {}, Problem("block not allowed", place))
      \cup When(i > Len(body) /\ \E a \in attrs : a.required /\ \A k \in DOMAIN body : IsAttr(body[k]) => body[k].name # a.name,
                Problem("missing", path))

StructureAt(place) ==
  IF Len(place) = 1 THEN Unregistered(place)
  ELSE UNION {StructureOf(r, Front(place), Last(place)) : r \in RulesFor(Front(place))}

\* What is wrong with its values: those that evaluation gives, or of the document alone
\* those that are certain.
CertainValue(given, x) ==
  IF given = "result" \/ x.e \in {"lit", "tuple", "object"} THEN <<ExprValue(x)>> ELSE <<>>

ValuesOf(rule, item, place, given) ==
  {Problem(ValueProblem(a, CertainValue(given, item.value)), place) :
     a \in {b \in Range(rules[rule].attrs) :
              b.name = item.name /\ ValueProblem(b, CertainValue(given, item.value)) # ""}}

ValuesAt(place, given) ==
  LET path == Front(place)
      body == BodyAt(doc, path)
      i    == Last(place)
  IN  IF Len(place) = 1 \/ i > Len(body) THEN {}
      ELSE IF ~IsAttr(body[i]) THEN {}
      ELSE UNION {ValuesOf(r, body[i], place, given) : r \in RulesFor(path)}

WrongAt(place, given) == StructureAt(place) \cup ValuesAt(place, given)

\* Where a problem that is reported at a block or an attribute was found.
PlaceOf(problem) ==
  IF problem.what = "missing" THEN Append(problem.at, Len(BodyAt(doc, problem.at)) + 1) ELSE problem.at

IsFirstOf(problem, given) ==
  IF problem = Fine THEN \A place \in Places : WrongAt(place, given) = {}
  ELSE LET found == PlaceOf(problem)
       IN  /\ IsPlace(found)
           /\ problem \in WrongAt(found, given)
           /\ \A place \in Places : Before(place, found) => WrongAt(place, given) = {}

IsFresh          == result = <<doc>>
IsValidated(given) == verdict[given] # NotValidated

\* Validation reports the first thing wrong, in the order of the document, and accepts when
\* there is nothing: of the structure and of the literals with the document alone, of the
\* structure and of every value with a result of that document (README, "Block schemas").
FirstProblemReported ==
  /\ IsValidated("document") => IsFirstOf(verdict["document"], "document")
  /\ IsValidated("result") /\ IsFresh => IsFirstOf(verdict["result"], "result")

\* Whatever became of the document after it was evaluated, no item of the result is taken
\* for what it is not or looked for past the end, and the structure is what is checked now.
StaleResultIsSafe ==
  /\ verdict["result"] # Crash
  /\ verdict["result"] = Fine => \A place \in Places : StructureAt(place) = {}

\* What the document alone is rejected for, it is rejected for with its result too: a host
\* that validates early never turns away a document that would be right once evaluated.
ResultOnlyAdds ==
  IsValidated("document") /\ verdict["document"] # Fine /\ IsValidated("result") /\ IsFresh => verdict["result"] # Fine

\* The types that lead to a rule from the root of the schema.
TypesOfRule(rule) ==
  LET to[r \in 1 .. rule] == IF r = 1 THEN <<>> ELSE Append(to[rules[r].parent], rules[r].type)
  IN  to[rule]

\* What a document declares: the types of blocks by the labels that lead to a declaration,
\* and the attributes by the items of its body, of which those up to n are meant.
Label(block)         == block.labels[1].value.s
LabelsTo(decl, path) == [n \in DOMAIN path |-> Label(BodyAt(decl, SubSeq(path, 1, n - 1))[path[n]])]

AttrsOf(body, n) ==
  LET to[i \in 0 .. n] ==
        IF i = 0 THEN <<>>
        ELSE IF IsAttr(body[i]) THEN Append(to[i - 1], AttrOf(body[i].name, ReadForm(body[i].value)))
        ELSE to[i - 1]
  IN  to[n]

\* The last attribute of the root among the items up to n says whether the schema is strict.
StrictIs(s, decl, n) ==
  IF \A i \in 1 .. n : IsBlock(decl[i]) THEN s = FALSE
  ELSE \E i \in 1 .. n : /\ IsAttr(decl[i]) /\ s = decl[i].value.value.b
                         /\ \A j \in i + 1 .. n : IsBlock(decl[j])

\* An item is a declaration, of something that no item before it in the body declares.
Declares(body, i, isRoot) ==
  IF IsBlock(body[i])
    THEN /\ body[i].type = "block" /\ Len(body[i].labels) = 1 /\ IsText(body[i].labels[1])
         /\ \A j \in 1 .. i - 1 : IsBlock(body[j]) => Label(body[j]) # Label(body[i])
  ELSE IF isRoot THEN body[i].name = "strict" /\ body[i].value.e = "lit" /\ IsBool(body[i].value.value)
  ELSE /\ FormError(ReadForm(body[i].value)) = ""
       /\ \A j \in 1 .. i - 1 : IsAttr(body[j]) => body[j].name # body[i].name

DeclaresSchema(decl) ==
  \A p \in PathsOf(decl, MaxDepth) : \A i \in DOMAIN BodyAt(decl, p) : Declares(BodyAt(decl, p), i, p = <<>>)

\* The rule that the declaration at path must become; the rule of the root has no attributes.
IsRuleOf(rule, decl, path) ==
  /\ TypesOfRule(rule) = LabelsTo(decl, path)
  /\ path # <<>> => rules[rule].attrs = AttrsOf(BodyAt(decl, path), Len(BodyAt(decl, path)))

\* A load ends with the rules the document declares, each inside the rule its declaration
\* stands in and no two in one place, or with no schema when any declaration of the document
\* is wrong.
LoadedAsDeclared ==
  [][status = "loading" /\ status' # "loading" =>
       LET decl == reading[1].body
       IN  /\ (status' = "ready") <=> DeclaresSchema(decl)
           /\ status' = "ready" =>
                /\ \A p \in PathsOf(decl, MaxDepth) : \E r \in DOMAIN rules : IsRuleOf(r, decl, p)
                /\ \A r \in DOMAIN rules : \E p \in PathsOf(decl, MaxDepth) : IsRuleOf(r, decl, p)
                /\ \A r, q \in DOMAIN rules : TypesOfRule(r) = TypesOfRule(q) => r = q
                /\ StrictIs(strict, decl, Len(decl))]_vars
=============================================================================
