------------------------------ MODULE SchemaRules ------------------------------
(***************************************************************************)
(* The rules of a schema: what a host builds with the calls of             *)
(* cl_schema.c, and what cl_schema_load.c builds with the same calls from  *)
(* a document it only reads.  A rule has an address, its place in rules,   *)
(* which never changes: the host keeps pointers to rules.  Rule 1 is the   *)
(* root level of the schema.                                               *)
(***************************************************************************)
EXTENDS Syntax, AnySequences, FiniteSets

CONSTANTS
  Declarations,  \* the documents a schema may be loaded from
  HostTypes,     \* types of blocks the host may declare by calls
  HostAttrs,     \* the attribute rules it may add by calls
  MaxRules       \* bound: rules the host adds up to

ASSUME MaxRulesAssumption == MaxRules \in Nat

(* An operator named Slip... is a plausible mistake in the definition that *)
(* follows it; the specification uses none of them.                        *)

VARIABLES
  rules,    \* every rule: [parent, type, attrs]
  strict,   \* schema->strict
  held,     \* the rules the host has been given
  reading,  \* the bodies being loaded, outermost first: [rule, body, i], i the next item
  status,   \* "building", "loading", "ready", or "failed": the schema is freed
  error     \* why the load failed

rulesVars == <<rules, strict, held, reading, status, error>>

-----------------------------------------------------------------------------
Types == {"any", "str", "num", "bool", "list", "obj"}

Rule(parent, type) == [parent |-> parent, type |-> type, attrs |-> <<>>]
Root               == Rule(0, "")
Attr(name, type, required, values) ==
  [name |-> name, type |-> type, required |-> required, values |-> values]

\* cl_schema_find_block, cl_schema_find_attr: the place of the rule of that name, or 0.
FindBlock(parent, type) == SelectInSeq(rules, LAMBDA r : r.parent = parent /\ r.type = type)
FindAttr(rule, name)    == SelectInSeq(rules[rule].attrs, LAMBDA a : a.name = name)

Repeats(values) == \E i, j \in DOMAIN values : i # j /\ values[i] = values[j]

\* Slip: take an attribute whose name is there already.
SlipAnyAttr(rule, attr) == TRUE

\* What cl_schema_block_add_attr and cl_schema_block_add_enum accept.
MayAdd(rule, attr) == FindAttr(rule, attr.name) = 0 /\ ~Repeats(attr.values)

WithAttr(rule, attr)    == [rules EXCEPT ![rule].attrs = Append(@, attr)]
WithRule(parent, type)  == Append(rules, Rule(parent, type))

-----------------------------------------------------------------------------
(* The calls of a host.  One that returns NULL or -1 changes nothing. *)

MayCall == status \in {"building", "ready"} /\ UNCHANGED <<reading, status, error>>

AddBlock(parent, type) ==
  /\ MayCall
  /\ Len(rules) < MaxRules
  /\ parent \in held \cup {1}
  /\ FindBlock(parent, type) = 0
  /\ rules' = WithRule(parent, type)
  /\ held' = held \cup {Len(rules) + 1}
  /\ UNCHANGED strict

AddAttr(rule, attr) ==
  /\ MayCall
  /\ rule \in held
  /\ attr.values = <<>>
  /\ MayAdd(rule, attr)
  /\ rules' = WithAttr(rule, attr)
  /\ UNCHANGED <<strict, held>>

AddEnum(rule, attr) ==
  /\ MayCall
  /\ rule \in held
  /\ attr.type = "str" /\ attr.values # <<>>
  /\ MayAdd(rule, attr)
  /\ rules' = WithAttr(rule, attr)
  /\ UNCHANGED <<strict, held>>

SetStrict(s) ==
  /\ MayCall
  /\ strict' = s
  /\ UNCHANGED <<rules, held>>

-----------------------------------------------------------------------------
(* Loading.  An attribute of the document is a rule in one of three forms. *)

IsText(x) == x.e = "lit" /\ IsStr(x.value)

\* cl_schema_parse_type
TypeNames    == {"any", "string", "number", "bool", "list", "object"}
TypeNamed(s) == CASE s = "string" -> "str" [] s = "number" -> "num" [] s = "object" -> "obj" [] OTHER -> s

\* cl_schema_load_type
TypeError(x) ==
  IF ~IsText(x) THEN "type must be a string" ELSE IF x.value.s \in TypeNames THEN "" ELSE "invalid type"

NoForm == [error |-> "", type |-> "any", typed |-> FALSE, required |-> FALSE, enum |-> <<>>]

\* One key of the object form, when those before it were right.
ReadEntry(form, entry) ==
  LET x == entry.value
  IN  CASE form.error # "" -> form
        [] form.error = "" /\ ~IsText(entry.key) -> [form EXCEPT !.error = "computed key"]
        [] form.error = "" /\ entry.key = Lit(Str("type")) ->
             IF TypeError(x) # "" THEN [form EXCEPT !.error = TypeError(x)]
                                  ELSE [form EXCEPT !.type = TypeNamed(x.value.s), !.typed = TRUE]
        [] form.error = "" /\ entry.key = Lit(Str("required")) ->
             IF x.e = "lit" /\ IsBool(x.value) THEN [form EXCEPT !.required = x.value.b]
                                               ELSE [form EXCEPT !.error = "required"]
        [] form.error = "" /\ entry.key = Lit(Str("values")) -> [form EXCEPT !.enum = <<x>>]
        [] OTHER -> [form EXCEPT !.error = "unknown key"]

ReadForm(x) ==
  CASE IsText(x)      -> IF TypeError(x) # "" THEN [NoForm EXCEPT !.error = TypeError(x)]
                                              ELSE [NoForm EXCEPT !.type = TypeNamed(x.value.s)]
    [] x.e = "tuple"  -> [NoForm EXCEPT !.enum = <<x>>]
    [] x.e = "object" -> FoldLeft(ReadEntry, NoForm, x.entries)
    [] OTHER          -> [NoForm EXCEPT !.error = "form"]

\* cl_schema_load_enum: the first thing that is wrong with a list of values.
IsWrong(items, i) == ~IsText(items[i]) \/ \E j \in 1 .. i - 1 : items[j].value.s = items[i].value.s
WrongItem(items)  == CHOOSE i \in DOMAIN items : IsWrong(items, i) /\ \A j \in 1 .. i - 1 : ~IsWrong(items, j)

EnumError(x) ==
  IF x.e # "tuple" THEN "not a list"
  ELSE IF x.items = <<>> THEN "empty"
  ELSE IF \A i \in DOMAIN x.items : ~IsWrong(x.items, i) THEN ""
  ELSE IF IsText(x.items[WrongItem(x.items)]) THEN "repeated" ELSE "not strings"

FormError(form) ==
  IF form.error # "" THEN form.error
  ELSE IF form.enum = <<>> THEN ""
  ELSE IF form.typed /\ form.type # "str" THEN "values of another type"
  ELSE EnumError(form.enum[1])

\* The rule of attribute name when its form is right.
AttrOf(name, form) ==
  IF form.enum = <<>> THEN Attr(name, form.type, form.required, <<>>)
  ELSE Attr(name, "str", form.required,
            [i \in DOMAIN form.enum[1].items |-> form.enum[1].items[i].value.s])

Item    == Last(reading).body[Last(reading).i]
Level   == Last(reading).rule
AtEnd   == Last(reading).i > Len(Last(reading).body)
Consume == Append(Front(reading), [Last(reading) EXCEPT !.i = @ + 1])

Frame(rule, body) == [rule |-> rule, body |-> body, i |-> 1]

Reading(kind) == status = "loading" /\ ~AtEnd /\ Item.item = kind

\* The first problem ends the load: what is loaded so far is freed.
LoadFails(why) ==
  /\ status' = "failed"
  /\ error' = why
  /\ reading' = <<>>
  /\ rules' = <<>>
  /\ held' = {}
  /\ UNCHANGED strict

\* The document becomes a schema of its own, which is fresh.
LoadString(decl) ==
  /\ status = "building"
  /\ rules = <<Root>>
  /\ status' = "loading"
  /\ reading' = <<Frame(1, decl)>>
  /\ strict' = FALSE
  /\ UNCHANGED <<rules, held, error>>

\* The top level of the document may say strict, and have no other attribute.
LoadTopAttr ==
  /\ Reading("attr")
  /\ Level = 1
  /\ IF Item.name # "strict" THEN LoadFails("unknown item")
     ELSE IF ~(Item.value.e = "lit" /\ IsBool(Item.value.value)) THEN LoadFails("strict")
     ELSE /\ strict' = Item.value.value.b
          /\ reading' = Consume
          /\ UNCHANGED <<rules, held, status, error>>

\* The attribute of an item that is right in itself, and its problem otherwise.
LoadForm(form) ==
  IF FormError(form) # "" THEN LoadFails(FormError(form))
  ELSE IF ~MayAdd(Level, AttrOf(Item.name, form)) THEN LoadFails("duplicate attribute")
  ELSE /\ rules' = WithAttr(Level, AttrOf(Item.name, form))
       /\ reading' = Consume
       /\ UNCHANGED <<strict, held, status, error>>

LoadAttr == Reading("attr") /\ Level # 1 /\ LoadForm(ReadForm(Item.value))

\* Slip: a nested declaration is registered at the root of the schema.
SlipFlat ==
  /\ Reading("block")
  /\ IF Item.type # "block" THEN LoadFails("not a block")
     ELSE IF Len(Item.labels) # 1 THEN LoadFails("labels")
     ELSE IF ~IsText(Item.labels[1]) THEN LoadFails("computed label")
     ELSE IF FindBlock(1, Item.labels[1].value.s) # 0 THEN LoadFails("duplicate block")
     ELSE /\ rules' = WithRule(1, Item.labels[1].value.s)
          /\ reading' = Append(Consume, Frame(Len(rules) + 1, Item.body))
          /\ UNCHANGED <<strict, held, status, error>>

LoadBlock ==
  /\ Reading("block")
  /\ IF Item.type # "block" THEN LoadFails("not a block")
     ELSE IF Len(Item.labels) # 1 THEN LoadFails("labels")
     ELSE IF ~IsText(Item.labels[1]) THEN LoadFails("computed label")
     ELSE IF FindBlock(Level, Item.labels[1].value.s) # 0 THEN LoadFails("duplicate block")
     ELSE /\ rules' = WithRule(Level, Item.labels[1].value.s)
          /\ reading' = Append(Consume, Frame(Len(rules) + 1, Item.body))
          /\ UNCHANGED <<strict, held, status, error>>

LoadReturns ==
  /\ status = "loading"
  /\ AtEnd
  /\ reading' = Front(reading)
  /\ status' = IF Len(reading) = 1 THEN "ready" ELSE "loading"
  /\ UNCHANGED <<rules, strict, held, error>>

-----------------------------------------------------------------------------
RulesInit ==
  /\ rules = <<Root>>
  /\ strict = FALSE
  /\ held = {}
  /\ reading = <<>>
  /\ status = "building"
  /\ error = ""

RulesNext ==
  \/ \E parent \in DOMAIN rules, type \in HostTypes : AddBlock(parent, type)
  \/ \E rule \in DOMAIN rules, attr \in HostAttrs : AddAttr(rule, attr) \/ AddEnum(rule, attr)
  \/ \E s \in BOOLEAN : SetStrict(s)
  \/ \E decl \in Declarations : LoadString(decl)
  \/ LoadTopAttr \/ LoadAttr \/ LoadBlock \/ LoadReturns

RulesSpec == RulesInit /\ [][RulesNext]_rulesVars

-----------------------------------------------------------------------------
(* Correctness *)

\* At each level every block type has one rule, in every rule every attribute has one,
\* and an enum has distinct values: whatever calls and loads made the schema, a name
\* means one thing to the validator, which takes the first it finds.
RulesAreUnique ==
  /\ \A i, j \in DOMAIN rules :
       rules[i].parent = rules[j].parent /\ rules[i].type = rules[j].type => i = j
  /\ \A r \in DOMAIN rules :
       /\ \A i, j \in DOMAIN rules[r].attrs : rules[r].attrs[i].name = rules[r].attrs[j].name => i = j
       /\ \A i \in DOMAIN rules[r].attrs : ~Repeats(rules[r].attrs[i].values)

=============================================================================
