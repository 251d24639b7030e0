----------------------------- MODULE ChoiceTree -----------------------------
(***************************************************************************)
(* choice.tree (armplat_1901.py lines 1713-1743): the menu tree built from *)
(* a list of dotted keys.  A node is the key prefix it stands for; a key   *)
(* of the list is a leaf.                                                  *)
(***************************************************************************)
EXTENDS DbValues

\* filter(lambda k: k.startswith(meta), keylist), at segment boundaries.
Under(kl, meta) ==
  {k \in kl : IsPrefix(meta, k) /\ (k = meta \/ k[Len(meta) + 1] = DOT)}

\* f"{meta}.{k}" for the first segment k of a key below meta; "" for the
\* key meta itself when the list holds keys below it too.
Child(meta, k) == IF k = meta THEN meta \o <<DOT>> ELSE Dot(meta, k[Len(meta) + 2])

\* The child nodes choice.tree gives the node meta, given the keys ks of
\* the list under it: none for a leaf.
ChildNodes(meta, ks) == IF ks = {meta} THEN {} ELSE {Child(meta, k) : k \in ks}
ChildrenOf(kl, meta) == ChildNodes(meta, Under(kl, meta))

RECURSIVE Nodes(_, _)
Nodes(kl, meta) == {meta} \cup UNION {Nodes(kl, c) : c \in ChildrenOf(kl, meta)}
=============================================================================
