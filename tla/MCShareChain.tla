----------------------------- MODULE MCShareChain -----------------------------
(* Small forests of shares for ShareChain. *)
EXTENDS ShareChain

MCWork == [h \in Hash |-> 2 ^ h]
MCTimestamp == [h \in Hash |-> h]

\* Each share is built on one of the two before it: chains, forks and late branches.
MCForests == {p \in Previous : \A h \in Hash : p[h] \in {h - 1, h - 2}}

\* Shares that fail check(), that have too high a reward, or that are too large.
Flaw(b, e, l) == [bad |-> b, excess |-> e, heavy |-> l]
MCFlawless == {Flaw({}, {}, {})}
MCFlaws == {Flaw({}, {}, {}), Flaw({1}, {}, {}), Flaw({1, 2, 3}, {}, {}), Flaw({2, 3}, {}, {}),
            Flaw({}, {3}, {}), Flaw({}, {}, {3}), Flaw({1, 2}, {3}, {}), Flaw({3}, {4}, {5})}
=============================================================================
