-------------------------------- MODULE Storage --------------------------------
(***************************************************************************)
(* A host that loads a text, changes the document, saves it or exports     *)
(* what it evaluates to, and loads the text again: cl_load_string,         *)
(* cl_body_set_..., cl_document_to_string (what cl_save_file writes) and   *)
(* cl_evaluated_to_string, in any order.                                   *)
(***************************************************************************)
EXTENDS RoundTrip, Tree, FiniteSets

CONSTANTS
  Sessions,    \* texts to begin with, what each says, and the values the host may set
  Names,       \* names of the attributes the host sets
  MaxChanges,  \* how many times it sets one
  MaxSaves     \* how many times it saves or exports: a text may grow with each

VARIABLES
  text,      \* the text there is
  meant,     \* what it was written from: by whom, and the document or the result
  doc,       \* the document in memory
  status,    \* of doc: "unread", "read" (from text), "failed" or "changed"
  values,    \* the values the host may set
  changes,   \* how many it has set
  saves      \* how many times it has saved or exported

vars == <<text, meant, doc, status, values, changes, saves>>

\* What a text is from: a person who writes (loads: whether it is a document at all), a
\* document that was saved, or a result that was exported.
From(who, body, loads) == [who |-> who, body |-> body, loads |-> loads]

-----------------------------------------------------------------------------
(* What a document evaluates to, when all its expressions are constants *)

RECURSIVE IsConstant(_)
IsConstant(x) ==
  CASE x.e = "lit"    -> TRUE
    [] x.e = "tuple"  -> \A i \in DOMAIN x.items : IsConstant(x.items[i])
    [] x.e = "object" -> \A i \in DOMAIN x.entries : /\ x.entries[i].key.e = "lit" /\ IsStr(x.entries[i].key.value)
                                                     /\ IsConstant(x.entries[i].value)
    [] x.e = "unary"  -> x.op = "-" /\ x.a.e = "lit" /\ IsNum(x.a.value)
    [] OTHER -> FALSE

RECURSIVE ConstantBody(_)
ConstantBody(body) ==
  \A i \in DOMAIN body :
    IF IsAttr(body[i]) THEN IsConstant(body[i].value)
    ELSE ConstantBody(body[i].body) /\ \A l \in Range(body[i].labels) : IsConstant(l)

RECURSIVE ValueOf(_)
ValueOf(x) ==
  CASE x.e = "lit"    -> x.value
    [] x.e = "tuple"  -> List([i \in DOMAIN x.items |-> ValueOf(x.items[i])])
    [] x.e = "object" -> Object([i \in DOMAIN x.entries |->
                                   Field(x.entries[i].key.value.s, ValueOf(x.entries[i].value))])
    [] x.e = "unary"  -> Num([x.a.value.n EXCEPT !.m = -@])

RECURSIVE ResultOf(_)
ResultOf(body) ==
  LET One(it) == IF IsAttr(it) THEN AttrItem(it.name, ValueOf(it.value))
                 ELSE BlockItem(it.type, [i \in DOMAIN it.labels |-> it.labels[i].value.s], ResultOf(it.body))
  IN  [i \in DOMAIN body |-> One(body[i])]

-----------------------------------------------------------------------------
Init ==
  \E s \in Sessions :
    /\ text = s.text
    /\ meant = From("person", s.body, s.loads)
    /\ values = s.values
    /\ doc = <<>>
    /\ status = "unread"
    /\ changes = 0
    /\ saves = 0

\* cl_load_string
Load ==
  /\ status = "unread"
  /\ LET r == ParseText(text)
     IN  IF r.ok THEN doc' = r.x /\ status' = "read" ELSE doc' = <<>> /\ status' = "failed"
  /\ UNCHANGED <<text, meant, values, changes, saves>>

HasDocument == status \in {"read", "changed"}

\* cl_body_set_string, cl_body_set_number and cl_body_set_bool, on the root
SetValue ==
  /\ HasDocument
  /\ changes < MaxChanges
  /\ \E name \in Names, v \in values : doc' = WithAttribute(doc, name, Lit(v))
  /\ status' = "changed"
  /\ changes' = changes + 1
  /\ UNCHANGED <<text, meant, values, saves>>

\* cl_document_to_string, cl_save_file
Save ==
  /\ HasDocument
  /\ saves < MaxSaves
  /\ text' = WrittenBody(doc)
  /\ meant' = From("document", doc, TRUE)
  /\ status' = "unread"
  /\ saves' = saves + 1
  /\ UNCHANGED <<doc, values, changes>>

\* cl_document_evaluate, cl_evaluated_to_string
Export ==
  /\ HasDocument
  /\ saves < MaxSaves
  /\ ConstantBody(doc)
  /\ LET result == ResultOf(doc)
     IN  text' = ExportedBody(result) /\ meant' = From("result", result, TRUE)
  /\ status' = "unread"
  /\ saves' = saves + 1
  /\ UNCHANGED <<doc, values, changes>>

Next == Load \/ SetValue \/ Save \/ Export

Spec == Init /\ [][Next]_vars

-----------------------------------------------------------------------------
(* Correctness *)

Tried == status \in {"read", "failed"}

\* A text is read as the document that its author means: operators group by level and to
\* the left, a conditional and a unary operator as far as they reach, whatever stands in
\* parentheses as one, newlines and comments separate nothing but items, and a heredoc
\* loses the white space of its closing marker.  What is no document is not read.  The
\* author has to know that a numeral longer than the lexer's buffer is only as much of it
\* as fits there; what comes after it is read all the same.
ReadsAsMeant ==
  Tried /\ meant.who = "person" =>
    IF meant.loads THEN status = "read" /\ doc = meant.body ELSE status = "failed"

\* A document that is saved is read back as it was, except for what RoundTrip names:
\* operands, bases, keys and strings stand in the parentheses, quotes and escapes that
\* make the parser read the same tree.
SavedReadsBack ==
  Tried /\ meant.who = "document" /\ BodyReadsBack(meant.body) => status = "read" /\ doc = meant.body

\* A result that is exported gives the same values when it is loaded and evaluated.
Reproduced == status = "read" /\ ConstantBody(doc) /\ ResultOf(doc) = meant.body
ExportReadsBack == Tried /\ meant.who = "result" => Reproduced

\* It does, except for what RoundTrip names, and there it never does.
ExportReadsExactly ==
  Tried /\ meant.who = "result" => (ResultReadsBack(meant.body) <=> Reproduced)

\* The attributes of a JSON object are those that a lookup in the result finds: each name
\* once, with the value of the first attribute that has it.
RECURSIVE JsonAgrees(_)
JsonAgrees(result) ==
  LET json == Json(result)
      used == {result[i].name : i \in {j \in DOMAIN result : IsAttr(result[j])}}
  IN  /\ Len(json.attributes) = Cardinality(used)
      /\ \A name \in used : Get([fields |-> json.attributes], name) = result[AttrAt(result, name)].value
      /\ \A i \in DOMAIN result : IsBlock(result[i]) => JsonAgrees(result[i].body)
JsonShowsWhatLookupsFind == HasDocument /\ ConstantBody(doc) => JsonAgrees(ResultOf(doc))
=============================================================================
