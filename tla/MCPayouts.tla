------------------------------ MODULE MCPayouts ------------------------------
(* A few makers and levels for Payouts. *)
EXTENDS Payouts

CONSTANTS ann, ben, script, dev

Maker(a, d, t, l, x, f, k, n, o) ==
  [address |-> a, donation |-> d, target |-> t, later |-> l, txs |-> x, fees |-> f, known |-> k, fit |-> n,
   old |-> o]

\* An easy and a hard target, early and late, with all transactions and without some of them.
MCMakers == {Maker(ann, 0, 200, 9, <<1, 2>>, <<7, 5>>, {1, 2}, 1, FALSE),
             Maker(script, 3, 1, -5, <<3, 1, 2>>, <<3, 7, 5>>, {2}, 2, TRUE)}

\* The address of a script has the hash that ben's has.
MCLegacy == [a \in Payee |-> IF a = script THEN ben ELSE a]

\* A clock as far behind as it may be, one further, one just right, and one ahead.
MCSkews == {-Ahead - 1, -Ahead, 0, 4}

\* Jumps of growing length, and mixed.
MCLevels == {[h \in Hash |-> 1 + ((h * h) % 3)]}
=============================================================================
