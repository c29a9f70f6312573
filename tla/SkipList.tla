------------------------------- MODULE SkipList -------------------------------
(***************************************************************************)
(* util/skiplist.py: sums over the n shares from a share on, found by      *)
(* jumps. Every share has a level drawn at random; its jump i leads to the *)
(* next share of a level above i, with the sum of what is jumped over. The *)
(* jumps are filled in by the walks themselves, each as far as it gets.    *)
(*                                                                         *)
(* The sums are those of data.WeightsSkipList: shares counted, weight for  *)
(* each payee, all weight, and the weight that goes to the donation. A     *)
(* walk ends at a count, or in the middle of a share at a weight.          *)
(***************************************************************************)
EXTENDS Naturals, Sequences

CONSTANTS Payee,     \* who is paid: addresses
          Unit       \* the 65535 a share's weight is divided in

ASSUME UnitAssumption == Unit \in Nat \ {0}

Zero == [count |-> 0, weights |-> [a \in Payee |-> 0], total |-> 0, donation |-> 0]

\* get_delta: what a share of so many attempts adds.
Delta(address, attempts, donation) ==
  [count |-> 1,
   weights |-> [a \in Payee |-> IF a = address THEN attempts * (Unit - donation) ELSE 0],
   total |-> attempts * Unit,
   donation |-> attempts * donation]

combine_deltas(d, e) ==
  [count |-> d.count + e.count,
   weights |-> [a \in Payee |-> d.weights[a] + e.weights[a]],
   total |-> d.total + e.total,
   donation |-> d.donation + e.donation]

\* The part of one share's delta that fills up a weight of room.
Part(d, room) ==
  LET of(w) == ((room \div Unit) * w) \div (d.total \div Unit)
  IN [count |-> 1, weights |-> [a \in Payee |-> of(d.weights[a])],
      total |-> room, donation |-> of(d.donation)]

apply_delta(sol, d, desired_weight) ==
  IF sol.total + d.total > desired_weight /\ d.count = 1
  THEN combine_deltas(sol, Part(d, desired_weight - sol.total))
  ELSE combine_deltas(sol, d)

\* judge: too far, there, or not there yet.
Over(sol, max_shares, desired_weight) == sol.count > max_shares \/ sol.total > desired_weight
There(sol, max_shares, desired_weight) == sol.count = max_shares \/ sol.total = desired_weight

-----------------------------------------------------------------------------
\* A walk: where it is, its sum so far, the jumps of the list, and the jumps that wait to
\* be filled in: for each level the share it starts from and the sum since (count 0: no
\* step made yet).

\* The walk meets pos: previous and delta are those of the share, len its level.
Meet(w, pos, len, previous, delta) ==
  LET known == pos \in DOMAIN w.skips
      begun == IF known THEN w.skips
               ELSE [x \in DOMAIN w.skips \cup {pos} |->
                       IF x = pos THEN <<[to |-> previous, delta |-> delta]>> ELSE w.skips[x]]
      ending == {i \in DOMAIN w.updates : i < len}
      fill[i \in 0 .. len] ==
        IF i = 0 THEN begun
        ELSE IF i - 1 \notin ending THEN fill[i - 1]
        ELSE [fill[i - 1] EXCEPT ![w.updates[i - 1].from] =
                Append(@, [to |-> pos, delta |-> w.updates[i - 1].delta])]
      skip == begun[pos]
      starting == Len(skip) .. len - 1
  IN [w EXCEPT !.skips = fill[len],
               !.updates = [i \in (DOMAIN w.updates \ ending) \cup starting |->
                              IF i \in starting THEN [from |-> pos, delta |-> Zero]
                              ELSE w.updates[i]]]

\* The longest jump that does not go too far.
Jump(w, max_shares, desired_weight) ==
  LET skip == w.skips[w.pos]
      ok == {i \in DOMAIN skip :
               ~Over(apply_delta(w.sol, skip[i].delta, desired_weight), max_shares, desired_weight)}
  IN skip[CHOOSE i \in ok : \A j \in ok : j <= i]

\* Mutant: what waits to be filled in has the weights of the last jump alone.
TurnUnsummed(w, len, previous, delta, max_shares, desired_weight) ==
  LET met == Meet(w, w.pos, len, previous, delta)
      jump == Jump(met, max_shares, desired_weight)
      sol == apply_delta(met.sol, jump.delta, desired_weight)
  IN IF There(sol, max_shares, desired_weight)
     THEN [met EXCEPT !.sol = sol, !.done = TRUE]
     ELSE [met EXCEPT !.sol = sol, !.pos = jump.to,
             !.updates = [i \in DOMAIN met.updates |->
                            [met.updates[i] EXCEPT !.delta = [combine_deltas(@, jump.delta) EXCEPT
                                                                !.weights = jump.delta.weights]]]]

\* One turn of the loop of __call__.
Turn(w, len, previous, delta, max_shares, desired_weight) ==
  LET met == Meet(w, w.pos, len, previous, delta)
      jump == Jump(met, max_shares, desired_weight)
      sol == apply_delta(met.sol, jump.delta, desired_weight)
  IN IF There(sol, max_shares, desired_weight)
     THEN [met EXCEPT !.sol = sol, !.done = TRUE]
     ELSE [met EXCEPT !.sol = sol, !.pos = jump.to,
             !.updates = [i \in DOMAIN met.updates |->
                            [met.updates[i] EXCEPT !.delta = combine_deltas(@, jump.delta)]]]

Start(skips, start, max_shares, desired_weight) ==
  [pos |-> start, sol |-> Zero, skips |-> skips, updates |-> [i \in {} |-> Zero],
   done |-> There(Zero, max_shares, desired_weight)]
=============================================================================
