----------------------------- MODULE ForestShape -----------------------------
(***************************************************************************)
(* The shape of a set of shares, each naming its previous share: what      *)
(* util/forest.py keeps incrementally, written down from the items alone.  *)
(* Nothing here is a state machine; Forest and Tracker are.                *)
(*                                                                         *)
(* A share's hash commits to its previous_hash, so chains have no cycle:   *)
(* hashes are numbered in an order in which a share follows the share it   *)
(* names. None is the previous_hash of a first share.                      *)
(***************************************************************************)
EXTENDS Naturals, FiniteSets

CONSTANT Hash      \* the hashes of the shares that may ever be seen

ASSUME HashAssumption == Hash \subseteq Nat \ {0}

None == 0
Node == Hash \cup {None}

\* What the hashes of the shares commit to: each share's previous_hash.
Previous == {p \in [Hash -> Node] : \A h \in Hash : p[h] < h}

-----------------------------------------------------------------------------
\* In all that follows I is the set of shares present and p their previous_hash.

Children(I, p, x) == {i \in I : p[i] = x}

\* Everything the walk from a node meets, up to the first hash that is absent.
Chain(I, p) ==
  LET chain[x \in Node] == IF x \in I THEN {x} \cup chain[p[x]] ELSE {x}
  IN chain

\* get_last: the absent hash where the walk ends.
Last(I, p, x) == CHOOSE t \in Chain(I, p)[x] : t \notin I

\* get_height: the number of shares the walk meets.
Height(I, p, x) == Cardinality(Chain(I, p)[x] \cap I)

\* y is x or was built on x.
Descends(I, p, x, y) == x \in Chain(I, p)[y]

\* The shares nothing is built on, and the absent hashes something is built on.
HeadSet(I, p) == {h \in I : Children(I, p, h) = {}}
TailSet(I, p) == {p[i] : i \in I} \ I

HeadsAbove(I, p, t) == {h \in HeadSet(I, p) : Last(I, p, h) = t}
=============================================================================
