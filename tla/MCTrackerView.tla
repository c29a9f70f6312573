---------------------------- MODULE MCTrackerView ----------------------------
(* TrackerView with works that tell any two sets of shares apart by their sums. *)
EXTENDS TrackerView

MCWork == [h \in Hash |-> 2 ^ h]
=============================================================================
