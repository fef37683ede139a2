------------------------------- MODULE PathGet -------------------------------
(***************************************************************************)
(* Reading an evaluated body by path (cl_get.c).  A path is a string in C; *)
(* here it is the sequence of parts cl_path_next reads from it: names,     *)
(* indexes, and Malformed where it gives up (an unclosed bracket, an empty *)
(* name, an index that does not fit in a size_t).  .name and ["name"] are  *)
(* the same part.                                                          *)
(*                                                                         *)
(* The resolution of a path is an operator.  What takes several calls, or  *)
(* writes into an array of the host, is a machine: the block iterator, the *)
(* attribute iterator, and the copy of a list of integers.                 *)
(***************************************************************************)
EXTENDS Syntax, AnySequences, FiniteSets

CONSTANTS
  Roots,      \* the evaluated bodies a host may read
  Paths,      \* the paths it may ask for
  Capacities, \* the lengths of the arrays it may give; 0 is also what NULL comes to
  IsLong(_)   \* which numbers are integral and fit in a long

(* An operator named Slip... is a plausible mistake in the definition that *)
(* follows it; the specification uses none of them.                        *)

VARIABLES
  root,    \* the body that is read
  path,    \* the path given to the call
  it,      \* what the call walks: [doing, over], over a body, an object's fields or a list
  next,    \* it->next, or the loop counter
  seen,    \* what the iterator has yielded, or what is written to the host's array
  max,     \* the length of the host's array
  answer   \* the count that the copy of a list has returned, when it has: <<count>>

vars == <<root, path, it, next, seen, max, answer>>

-----------------------------------------------------------------------------
Name(s)   == [p |-> "name", name |-> s]
IndexAt(n) == [p |-> "index", index |-> n]
Malformed == [p |-> "malformed"]

\* What a path names: nothing, a value, or a block.
Nothing  == [names |-> "nothing"]
AValue(v) == [names |-> "value", value |-> v]
ABlock(b) == [names |-> "block", block |-> b]

\* Slip: the block that comes first wins, however few labels it has.
SlipFirstFit(body, fits) == body[CHOOSE i \in fits : \A j \in fits : i <= j]

\* The longest list of labels wins, and the first block among equals.
LongestFit(body, fits) ==
  body[CHOOSE i \in fits : \A j \in fits \ {i} :
         \/ Len(body[i].labels) > Len(body[j].labels)
         \/ Len(body[i].labels) = Len(body[j].labels) /\ i < j]

\* cl_get_find_block: the labels must be the next parts; there may be none.
Fits(body, type, parts) ==
  {i \in BlocksOf(body, type) : IsPrefix([k \in DOMAIN body[i].labels |-> Name(body[i].labels[k])], parts)}

\* cl_get_step
Step(value, part) ==
  CASE part.p = "index" /\ IsList(value) /\ part.index + 1 \in DOMAIN value.items ->
         value.items[part.index + 1]
    [] part.p = "name" /\ IsObj(value) -> Get(value, part.name)
    [] OTHER -> NoValue

\* Where the loop of cl_get_resolve is: what the parts read so far name, and those left.
Reach(what, parts) == [what |-> what, parts |-> parts]
GiveUp             == Reach(Nothing, <<>>)

StepInValue(value, parts) ==
  LET v == Step(value, Head(parts))
  IN  IF v = NoValue THEN GiveUp ELSE Reach(AValue(v), Tail(parts))

StepInBody(body, parts) ==
  LET part == Head(parts)
      attr == AttrAt(body, part.name)
      fits == Fits(body, part.name, Tail(parts))
      b    == LongestFit(body, fits)
  IN  IF part.p # "name" THEN GiveUp
      ELSE IF attr > 0 THEN Reach(AValue(body[attr].value), Tail(parts))
      ELSE IF fits = {} THEN GiveUp
      ELSE Reach(ABlock(b), SubSeq(parts, Len(b.labels) + 2, Len(parts)))

\* One round of the loop.
Round(s) ==
  IF s.parts = <<>> THEN s
  ELSE IF s.what.names = "value" THEN StepInValue(s.what.value, s.parts)
  ELSE StepInBody(s.what.block.body, s.parts)

\* The root is read like the body of a block.
AsBlock(body) == ABlock([body |-> body])

\* The rounds of a resolution.
Rounds(body, parts) ==
  LET s[n \in Nat] == IF n = 0 THEN Reach(AsBlock(body), parts) ELSE Round(s[n - 1])
  IN  s

\* cl_get_resolve: every round reads a part or more.  An empty path is malformed.
Resolve(body, parts) == IF parts = <<>> THEN Nothing ELSE Rounds(body, parts)[Len(parts)].what

-----------------------------------------------------------------------------
(* What evaluation leaves for a host to read. *)

\* What is directly in a place of a result, and what is in it n steps down.
Inside(place) ==
  CASE place.names = "block" ->
         {AValue(item.value) : item \in {x \in Range(place.block.body) : IsAttr(x)}}
         \cup {ABlock(item) : item \in {x \in Range(place.block.body) : ~IsAttr(x)}}
    [] place.names = "value" /\ IsList(place.value) -> {AValue(v) : v \in Range(place.value.items)}
    [] place.names = "value" /\ IsObj(place.value) -> {AValue(f.value) : f \in Range(place.value.fields)}
    [] OTHER -> {}

Within(body) ==
  LET s[n \in Nat] == IF n = 0 THEN {AsBlock(body)} ELSE UNION {Inside(place) : place \in s[n - 1]}
  IN  s

\* Every attribute and every field has a value.
IsComplete(place) ==
  CASE place.names = "block" ->
         /\ IsSequence(place.block.body)
         /\ \A item \in Range(place.block.body) :
              IF IsAttr(item) THEN item.value # NoValue ELSE IsSequence(item.labels)
    [] place.names = "value" /\ IsList(place.value) -> IsSequence(place.value.items)
    [] place.names = "value" /\ IsObj(place.value) ->
         IsSequence(place.value.fields) /\ \A f \in Range(place.value.fields) : f.value # NoValue
    [] OTHER -> TRUE

ASSUME ResultsAssumption ==
  \A n \in UNION {0 .. Len(parts) : parts \in Paths}, body \in Roots :
    \A place \in Within(body)[n] : IsComplete(place)

ASSUME PathsAssumption == \A parts \in Paths : IsSequence(parts)

ASSUME CapacitiesAssumption == Capacities \subseteq Nat

-----------------------------------------------------------------------------
\* cl_get_defined: a null value does not count.
Defined(body, parts) ==
  LET r == Resolve(body, parts)
  IN  IF r.names = "value" /\ r.value # Null THEN r.value ELSE NoValue

Idle == it = [doing |-> "nothing", over |-> <<>>]
Walk(what, over) ==
  /\ it' = [doing |-> what, over |-> over]
  /\ UNCHANGED <<root, path, next, seen, answer>>

\* The body that cl_block_iter_init searches: the whole path is read first, then what
\* is before its last part must name a block, or be empty.
SearchedBody ==
  LET parent == Resolve(root, Front(path))
  IN  IF path = <<>> \/ Malformed \in Range(path) \/ Last(path).p # "name" THEN <<>>
      ELSE IF Len(path) = 1 THEN root
      ELSE IF parent.names = "block" THEN parent.block.body ELSE <<>>

BlockIterInit == Idle /\ Walk("blocks", SearchedBody) /\ UNCHANGED max

\* cl_attr_iter_init; an empty path walks the base itself.
AttrIterInit ==
  /\ Idle
  /\ LET r == Resolve(root, path)
     IN  CASE path = <<>>                           -> Walk("attrs", root)
           [] path # <<>> /\ r.names = "block"      -> Walk("attrs", r.block.body)
           [] path # <<>> /\ r.names = "value"      -> Walk("fields", IF IsObj(r.value) THEN r.value.fields ELSE <<>>)
           [] path # <<>> /\ r.names = "nothing"    -> Walk("attrs", <<>>)
  /\ UNCHANGED max

IsLongItem(v) == IsNum(v) /\ IsLong(v.n)

\* What is checked before anything is written.
AllLongs(v) == v # NoValue /\ IsList(v) /\ \A i \in DOMAIN v.items : IsLongItem(v.items[i])

\* Slip: check an item as it is written.
SlipOnePass ==
  /\ Idle
  /\ max' \in Capacities
  /\ LET v == Defined(root, path)
     IN  Walk("ints", IF v # NoValue /\ IsList(v) THEN SelectSeq(v.items, IsLongItem) ELSE <<>>)

\* cl_get_ints, up to the loop that writes.
GetInts ==
  /\ Idle
  /\ max' \in Capacities
  /\ LET v == Defined(root, path)
     IN  Walk("ints", IF AllLongs(v) THEN v.items ELSE <<>>)

\* Slip: one item too many.
SlipRoom == it.doing = "ints" => next <= max

\* The host's array has room for one more item.
Room == it.doing = "ints" => next < max

\* What an iterator stops at.
IsWanted(item) ==
  CASE it.doing = "blocks" -> IsBlock(item) /\ item.type = Last(path).name
    [] it.doing = "attrs"  -> IsAttr(item)
    [] it.doing \in {"fields", "ints"} -> TRUE

\* cl_block_iter_next, cl_attr_iter_next, one round of the loop of cl_get_ints: the next
\* item that is wanted, if there is one.
Advance ==
  /\ ~Idle
  /\ answer = <<>>
  /\ Room
  /\ \E i \in next + 1 .. Len(it.over) :
       /\ IsWanted(it.over[i])
       /\ \A j \in next + 1 .. i - 1 : ~IsWanted(it.over[j])
       /\ next' = i
       /\ seen' = Append(seen, it.over[i])
  /\ UNCHANGED <<root, path, it, max, answer>>

\* The end of cl_get_ints: what is returned is the length of the list, written or not.
ReturnCount ==
  /\ it.doing = "ints"
  /\ answer = <<>>
  /\ next < Len(it.over) => ~Room
  /\ answer' = <<Len(it.over)>>
  /\ UNCHANGED <<root, path, it, next, seen, max>>

Init ==
  /\ root \in Roots
  /\ path \in Paths
  /\ it = [doing |-> "nothing", over |-> <<>>]
  /\ next = 0
  /\ seen = <<>>
  /\ max = 0
  /\ answer = <<>>

Next == BlockIterInit \/ AttrIterInit \/ GetInts \/ Advance \/ ReturnCount

Spec == Init /\ [][Next]_vars /\ WF_vars(Advance \/ ReturnCount)

-----------------------------------------------------------------------------
(* Correctness *)

\* What an iterator yields, paths reach: a block by its type and its labels, in the body
\* that is searched, unless an attribute has the name of the type.
BlocksAreReached ==
  it.doing = "blocks" =>
    \A b \in Range(seen) :
      LET r == Resolve(it.over, <<Name(b.type)>> \o [k \in DOMAIN b.labels |-> Name(b.labels[k])])
      IN  \/ AttrAt(it.over, b.type) > 0
          \/ r.names = "block" /\ r.block.type = b.type /\ r.block.labels = b.labels

KeyOf(item) == IF it.doing = "attrs" THEN item.name ELSE item.key

\* What the attribute iterator yields at a path is what the path with one more name
\* reads (the first of the values with that name), or the name is a label there: it
\* completes the labels of a block with a longer list.
AttributesAreReached ==
  it.doing \in {"attrs", "fields"} =>
    \A i \in DOMAIN seen :
      LET key   == KeyOf(seen[i])
          first == seen[SelectInSeq(seen, LAMBDA x : KeyOf(x) = key)]
          r     == Resolve(root, Append(path, Name(key)))
      IN  r = AValue(first.value) \/ r.names = "block"

\* The host's array is written only when every item of the list can be, from its start,
\* in order, and never past its end.  Once the call has returned, the first
\* min(count, max) items are there and the count is that of the whole list; of a list
\* that cannot be copied nothing is written and the count is 0 (README.md:617-622).
AllOrNothing ==
  it.doing = "ints" =>
    LET list == Defined(root, path)
    IN  IF AllLongs(list)
        THEN /\ Len(seen) <= max
             /\ IsPrefix(seen, list.items)
             /\ answer # <<>> => answer = <<Len(list.items)>> /\ (Len(seen) = max \/ seen = list.items)
        ELSE seen = <<>> /\ answer \in {<<>>, <<0>>}
=============================================================================
