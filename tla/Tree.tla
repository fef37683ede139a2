-------------------------------- MODULE Tree --------------------------------
(***************************************************************************)
(* Changes a host makes to a document it has loaded (cl_mutate.c).  A body *)
(* is named by the places of the blocks that lead to it from the root.     *)
(* Places are where things are now: removing an item moves what follows.   *)
(***************************************************************************)
EXTENDS Syntax

\* The body the host reaches by that path.
BodyAt(root, path) ==
  LET at[n \in 0 .. Len(path)] == IF n = 0 THEN root ELSE at[n - 1][path[n]].body
  IN  at[Len(path)]

\* Every place of the path is a block's.
IsPath(root, path) ==
  \A n \in DOMAIN path :
    LET body == BodyAt(root, SubSeq(path, 1, n - 1))
    IN  path[n] \in DOMAIN body /\ IsBlock(body[path[n]])

\* The document with another body there; up[n] is the new body n blocks above.
WithBody(root, path, new) ==
  LET up[n \in 0 .. Len(path)] ==
        IF n = 0 THEN new
        ELSE [BodyAt(root, SubSeq(path, 1, Len(path) - n)) EXCEPT ![path[Len(path) - n + 1]].body = up[n - 1]]
  IN  up[Len(path)]

\* Paths of every body of a document, the root's among them, to blocks depth deep.
BlocksIn(body)        == {i \in DOMAIN body : IsBlock(body[i])}
OneDeeper(root, path) == {Append(path, i) : i \in BlocksIn(BodyAt(root, path))}
PathsOf(root, depth) ==
  LET to[n \in 0 .. depth] ==
        IF n = 0 THEN {<<>>} ELSE to[n - 1] \cup UNION {OneDeeper(root, p) : p \in to[n - 1]}
  IN  to[depth]

\* cl_body_set_string and its like: a new value for the first attribute of that name.
WithAttribute(body, name, x) ==
  IF AttrAt(body, name) # 0 THEN [body EXCEPT ![AttrAt(body, name)].value = x]
  ELSE Append(body, AttrItem(name, x))

\* cl_body_add_block: the block is empty.
WithBlock(body, type, labels) == Append(body, BlockItem(type, labels, <<>>))

\* cl_body_remove_attribute (the first of that name), cl_body_remove_block
WithoutItem(body, i) == RemoveAt(body, i)
=============================================================================
