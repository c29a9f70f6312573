-------------------------------- MODULE MCWork --------------------------------
(* A parent chain with a fork, for Work. *)
EXTENDS Work

CONSTANTS b0, b1, c1, b2

MCPrevious == [b \in Block |-> IF b = b2 THEN b1 ELSE b0]
MCHeight == [b \in Block |-> IF b = b2 THEN 2 ELSE IF b = b0 THEN 0 ELSE 1]
\* The target falls with c1: its own hash is not below the target of the block on it.
MCMeets == (Block \X Block) \ {<<c1, c1>>}

\* Miners with shares of one target, and with those of two; many blocks and no miners; and miners
\* with little from the parent chain.
Bound(blocks, targets, shares, jobs, told, most) ==
  [blocks |-> blocks, targets |-> targets, shares |-> shares, jobs |-> jobs, told |-> told, times |-> most]
MCBounds == {Bound({}, {1}, 3, 3, 3, 3), Bound({}, {1}, 4, 1, 4, 4), Bound({}, {1, 2}, 2, 2, 3, 2),
             Bound(Block, {1}, 0, 1, 0, 3), Bound({b1}, {1}, 1, 1, 2, 2)}
=============================================================================
