------------------------------- MODULE Forest -------------------------------
(***************************************************************************)
(* What a Tracker promises: a set of shares that grows by any share not    *)
(* yet in it and shrinks by a head or by a root, never from the middle of  *)
(* a chain. This is the reference implementation of the repository's own   *)
(* tests, DumbTracker, whose heads and tails are computed from the items.  *)
(***************************************************************************)
EXTENDS ForestShape

VARIABLES items,           \* the shares in the tracker
          previous_hash    \* what each share's hash commits to

vars == <<items, previous_hash>>

Init ==
  /\ items = {}
  /\ previous_hash \in Previous

Add(h) ==
  /\ h \notin items
  /\ items' = items \cup {h}
  /\ UNCHANGED previous_hash

Remove(h) ==
  /\ h \in items
  /\ h \in HeadSet(items, previous_hash) \/ previous_hash[h] \notin items
  /\ items' = items \ {h}
  /\ UNCHANGED previous_hash

Next == \E h \in Hash : Add(h) \/ Remove(h)

Spec == Init /\ [][Next]_vars
=============================================================================
