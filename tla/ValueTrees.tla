----------------------------- MODULE ValueTrees -----------------------------
(***************************************************************************)
(* What indexing promises: a value is a tree, and a change through         *)
(* v[a][b][c] is a change at that one place.  Places above it that are no  *)
(* arrays become arrays, and what stood there stays, as element 0.         *)
(*                                                                         *)
(* A tree is a function from its places, which are sequences of keys, to   *)
(* what is there: an array, NULL or another leaf.                          *)
(***************************************************************************)
EXTENDS Naturals, Sequences

ArrayHere == [kind |-> "array"]
NullHere == [kind |-> "null"]

IsPrefix(p, q) == Len(p) <= Len(q) /\ SubSeq(q, 1, Len(p)) = p
Above(place) == {SubSeq(place, 1, i) : i \in 0 .. Len(place) - 1}

\* A tree without what is at a place and below it.
Without(tree, place) == [p \in {p \in DOMAIN tree : ~IsPrefix(place, p)} |-> tree[p]]

\* What stands where an array is needed, and moves to its element 0.
GivesWay(tree, place) ==
  {p \in Above(place) \cap DOMAIN tree : tree[p] \notin {ArrayHere, NullHere}}

\* A tree with the tree new at a place.
Put(tree, place, new) ==
  LET kept == DOMAIN Without(tree, place)
      moved == {Append(p, 0) : p \in GivesWay(tree, place)}
      around == {p \in kept \cup Above(place) \cup moved : ~IsPrefix(place, p)}
      below == {place \o p : p \in DOMAIN new}
  IN  [p \in around \cup below |->
         CASE p \in below -> new[SubSeq(p, Len(place) + 1, Len(p))]
           [] p \in Above(place) -> ArrayHere
           [] p \in kept \ Above(place) -> tree[p]
           [] OTHER -> tree[SubSeq(p, 1, Len(p) - 1)]]
=============================================================================
