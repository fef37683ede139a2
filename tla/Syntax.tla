------------------------------- MODULE Syntax -------------------------------
(***************************************************************************)
(* The document tree the parser builds (cl_ast.h): bodies of attributes    *)
(* and blocks, and expressions.  An expression is a record whose field e   *)
(* names its kind.  What the parser keeps as plain text next to an         *)
(* optional expression (a constant block label, a constant object key, a   *)
(* constant index) is a literal expression here.                           *)
(***************************************************************************)
EXTENDS Values

Lit(v)                == [e |-> "lit", value |-> v]
Ref(root, steps)      == [e |-> "ref", root |-> root, steps |-> steps]
Postfix(base, steps)  == [e |-> "postfix", base |-> base, steps |-> steps]
Tuple(items)          == [e |-> "tuple", items |-> items]
Entry(key, value)     == [key |-> key, value |-> value]
ObjectExpr(entries)   == [e |-> "object", entries |-> entries]
Cond(c, t, f)         == [e |-> "cond", c |-> c, t |-> t, f |-> f]
Unary(op, a)          == [e |-> "unary", op |-> op, a |-> a]
Binary(op, l, r)      == [e |-> "binary", op |-> op, l |-> l, r |-> r]
Call(name, args, expand) == [e |-> "call", name |-> name, args |-> args, expand |-> expand]

\* A for-expression.  key = "" when it has no key variable; test, keyExpr are
\* sequences of no or one expression: the filter, and the key of an object "for".
For(key, val, coll, test, keyExpr, valExpr, grouping) ==
  [e |-> "for", key |-> key, val |-> val, coll |-> coll, test |-> test,
   keyExpr |-> keyExpr, valExpr |-> valExpr, grouping |-> grouping]

\* A template: its parts in order.  Literal text is a part Lit(Str(_)), an
\* interpolation is its expression, and the two directives are expressions of
\* their own whose bodies are templates again.
Template(parts)            == [e |-> "tpl", parts |-> parts]
IfPart(c, t, f)            == [e |-> "tplif", c |-> c, t |-> t, f |-> f]
ForPart(key, val, coll, b) == [e |-> "tplfor", key |-> key, val |-> val, coll |-> coll, body |-> b]

\* Traversal steps: .name, [index], and the two spellings of the splat.
AttrStep(name) == [s |-> "attr", name |-> name]
IndexStep(x)   == [s |-> "index", x |-> x]
SplatStep      == [s |-> "splat"]
Attrs(names)   == [i \in DOMAIN names |-> AttrStep(names[i])]

AttrItem(name, value)         == [item |-> "attr", name |-> name, value |-> value]
BlockItem(type, labels, body) == [item |-> "block", type |-> type, labels |-> labels, body |-> body]

IsAttr(item)  == item.item = "attr"
IsBlock(item) == item.item = "block"

\* Slip: the last attribute of that name.
SlipLastOfName(body, name) == SelectLastInSeq(body, LAMBDA it : IsAttr(it) /\ it.name = name)

\* cl_body_get_attribute: the place of the first attribute of that name, or 0.
AttrAt(body, name) == SelectInSeq(body, LAMBDA it : IsAttr(it) /\ it.name = name)

\* cl_body_find_blocks: the places of the blocks of that type.
BlocksOf(body, type) == {i \in DOMAIN body : IsBlock(body[i]) /\ body[i].type = type}
=============================================================================
