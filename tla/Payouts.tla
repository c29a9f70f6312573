------------------------------- MODULE Payouts -------------------------------
(***************************************************************************)
(* data.BaseShare.generate_transaction, which makes a share and the        *)
(* coinbase it commits to, and data.BaseShare.check, by which every other  *)
(* node makes both again and compares; with the choice of the share's      *)
(* version in work.py, the vote it rests on, and the payout weights, which *)
(* are sums over the shares before, found through a SkipList.              *)
(*                                                                         *)
(* A share may be made while the whole chain is there and be checked when  *)
(* most of it has been removed, or the other way round, with a skip list   *)
(* that other walks have filled. One tracker that grows and is pruned      *)
(* stands for them all.                                                    *)
(*                                                                         *)
(* share holds what the shares ever made say. Versions are those of a      *)
(* chain that this code begins: 17, then 35 and 36 by vote. A share of     *)
(* version 17 carries the transactions that are new, and where the others  *)
(* are found; the place in a share's list is told by the transaction.      *)
(* Left out: the cut at 4000 payees, the encodings, the block's size, and  *)
(* the marks check leaves on shares, which are ShareChain's.               *)
(***************************************************************************)
EXTENDS Chain, SkipList, Integers, FiniteSetsExt

CONSTANTS CHAIN_LENGTH, REAL_CHAIN_LENGTH, TARGET_LOOKBEHIND, SHARE_PERIOD,
          MIN_TARGET, MAX_TARGET,
          Far,             \* the 99 of far_share_hash
          VoteFrom,        \* CHAIN_LENGTH*9//10: how far back the vote begins
          VoteLength,      \* CHAIN_LENGTH//10: and how many shares take part
          RefDepth,        \* the 100 shares before, in which transactions are referred to
          Ahead,           \* the 600 seconds a share may be ahead of the clock of who checks it
          Skews,           \* how much a clock that checks a share is ahead of that which made it
          legacy_address,  \* the address with the same hash that begins as for a public key
          Spread,          \* 65535*SPREAD*attempts of a block: the most weight that is paid
          Epoch,           \* the clock when the first share is made
          Space,           \* the 2**256 of hashes
          Base, Digits,    \* of the floating numbers targets are rounded to
          Levels,          \* the levels that may be drawn for the skip list
          FlagDays,        \* whether dustfix_flag_day_enabled, on every node alike
          donation_address,
          Subsidy,         \* SUBSIDY_FUNC of every height
          Makers,          \* what a share may be made from: see MakersAssumption
          MaxForks         \* bound: the most shares made on a share that has been built on before

ASSUME PayoutsAssumption ==
  /\ {CHAIN_LENGTH, REAL_CHAIN_LENGTH, VoteLength, SHARE_PERIOD, Space} \subseteq Nat \ {0}
  /\ {TARGET_LOOKBEHIND, Far, VoteFrom, RefDepth, Ahead} \subseteq Nat /\ Skews \subseteq Int
  /\ {Spread, Subsidy, MIN_TARGET, MAX_TARGET} \subseteq Nat
  /\ {MaxShares, Keep, Base, Digits} \subseteq Nat /\ Epoch \in Int
  /\ TARGET_LOOKBEHIND >= 2 /\ TARGET_LOOKBEHIND <= REAL_CHAIN_LENGTH
  /\ REAL_CHAIN_LENGTH <= CHAIN_LENGTH
  /\ Far <= REAL_CHAIN_LENGTH /\ RefDepth <= REAL_CHAIN_LENGTH /\ VoteFrom + VoteLength <= CHAIN_LENGTH /\ CHAIN_LENGTH + 1 < Keep
  /\ MIN_TARGET <= MAX_TARGET /\ MAX_TARGET < Space
  /\ Base >= 2 /\ Digits >= 2
  /\ IsFiniteSet(Payee) /\ donation_address \in Payee
  /\ legacy_address \in [Payee -> Payee]
  /\ \A a \in Payee : legacy_address[legacy_address[a]] = legacy_address[a]
  /\ Levels \subseteq [Hash -> Nat \ {0}] /\ FlagDays \subseteq BOOLEAN

\* A maker: the address to be paid, the donation it gives, the target it would like, how much
\* later than the share before its clock stands (or before it), the transactions the coin daemon
\* offers it and their fees, how many fit, and whether it runs a release that knows no 36.
ASSUME MakersAssumption ==
  \A m \in Makers : /\ m.address \in Payee /\ m.donation \in 0 .. Unit
                    /\ m.target \in Nat /\ m.later \in Int
                    /\ m.fees \in Seq(Nat) /\ m.known \subseteq DOMAIN m.fees
                    /\ m.txs \in Seq(Nat) /\ Len(m.txs) = Len(m.fees)
                    /\ m.fit \in 0 .. Len(m.fees) /\ m.old \in BOOLEAN

VARIABLES made,       \* with what clock and for which address the shares were made
          skips,      \* tracker.get_cumulative_weights.skips
          level,      \* the level the skip list draws for each share
          flag_day    \* dustfix_flag_day_enabled

payVars == <<share, items, made, skips, level, flag_day>>

-----------------------------------------------------------------------------
\* Arithmetic.

clip(x, low, high) == IF x < low THEN low ELSE IF x > high THEN high ELSE x
target_to_average_attempts(t) == Space \div (t + 1)

\* Base to the power n: the weight of a digit with n behind it.
Power(n) ==
  LET power[k \in Nat] == IF k = 0 THEN 1 ELSE Base * power[k - 1]
  IN power[n]

\* The number of digits of t, with one in front where the first would read as a sign.
Length(t) ==
  LET digits[n \in Nat] == IF n = 0 THEN 0 ELSE 1 + digits[n \div Base]
      n == digits[t]
  IN IF n > 0 /\ t \div Power(n - 1) >= Base \div 2 THEN n + 1 ELSE n

\* FloatingInteger.from_target_upper_bound: the first Digits digits of t, and zeros.
Rounded(t) ==
  LET n == Length(t) IN
  IF n <= Digits THEN t ELSE (t \div Power(n - Digits)) * Power(n - Digits)

-----------------------------------------------------------------------------
\* Sums over a set and over a chain.

\* Of the values of f at the members of S.
SumIn(f, S) == MapThenSumSet(LAMBDA i : f[i], S)

SumOver(path, f) == FoldFunction(+, 0, [i \in DOMAIN path |-> f[path[i]]])

Attempts == [h \in DOMAIN share |-> target_to_average_attempts(share[h].bits)]
MinAttempts == [h \in DOMAIN share |-> target_to_average_attempts(share[h].max_bits)]

-----------------------------------------------------------------------------
\* The payout weights.

get_delta(h) == Delta(share[h].address, Attempts[h], share[h].donation)

\* SkipList.__call__. (The memo of the last five answers in front of it is left out: it repeats
\* what the same call answered before.)
get_cumulative_weights(start, max_shares, desired_weight) ==
  LET walk[n \in 0 .. MaxShares] ==
        IF n = 0 THEN Start(skips, start, max_shares, desired_weight)
        ELSE LET w == walk[n - 1] IN
             IF w.done THEN w
             ELSE Turn(w, level[w.pos], share[w.pos].previous, get_delta(w.pos), max_shares, desired_weight)
  IN walk[MaxShares]

-----------------------------------------------------------------------------
\* Versions.

SUCCESSOR(v) == IF v < 35 THEN 35 ELSE IF v = 35 THEN 36 ELSE None
PAYS_LEGACY_DONATION(v) == v < 36

\* desired_version: the successor, where there is one.
Desired(v) == IF SUCCESSOR(v) = None THEN v ELSE SUCCESSOR(v)

\* Whether version v may follow without a vote.
ByFlagDay(v) == flag_day /\ v = 36

\* get_desired_version_counts: the attempts that vote for v, or for anything, before h.
Voters(h) == get_chain(get_nth_parent_hash(h, VoteFrom), VoteLength)
Votes(h, v) ==
  SumOver(Voters(h), [x \in DOMAIN share |-> IF share[x].desired_version = v THEN Attempts[x] ELSE 0])
AllVotes(h) == SumOver(Voters(h), Attempts)

\* The share type get_work takes for a share on previous.
share_type(previous) ==
  LET v == IF previous = None THEN 17 ELSE share[previous].version IN
  IF previous = None \/ SUCCESSOR(v) = None \/ get_height(previous) < CHAIN_LENGTH THEN v
  ELSE IF ByFlagDay(SUCCESSOR(v)) \/ Votes(previous, SUCCESSOR(v)) > (AllVotes(previous) * 95) \div 100
  THEN SUCCESSOR(v) ELSE v

\* What check says of the version v of a share on previous.
VersionPasses(v, previous) ==
  LET before == share[previous].version IN
  IF get_height(previous) >= CHAIN_LENGTH
  THEN \/ v = before
       \/ /\ v = SUCCESSOR(before)
          /\ ByFlagDay(v) \/ Votes(previous, v) >= (AllVotes(previous) * 60) \div 100
  ELSE v # SUCCESSOR(before)

-----------------------------------------------------------------------------
\* generate_transaction.

\* get_pool_attempts_per_second, of the easiest targets, in whole attempts.
get_pool_attempts_per_second(previous, dist) ==
  LET far == get_nth_parent_hash(previous, dist - 1)
      time == share[previous].timestamp - share[far].timestamp
  IN SumOver(get_chain(previous, dist - 1), MinAttempts) \div (IF time <= 0 THEN 1 ELSE time)

pre_target3(previous) ==
  IF get_height(previous) < TARGET_LOOKBEHIND THEN MAX_TARGET
  ELSE LET aps == get_pool_attempts_per_second(previous, TARGET_LOOKBEHIND)
           pre_target == IF aps = 0 THEN Space - 1 ELSE Space \div (SHARE_PERIOD * aps) - 1
           before == share[previous].max_bits
           pre_target2 == clip(pre_target, (before * 9) \div 10, (before * 11) \div 10)
       IN clip(pre_target2, MIN_TARGET, MAX_TARGET)

\* Mutant: a fee that is not known counts as none among the transactions taken out.
ClaimedKnown(subsidy, fees, known, fit) ==
  subsidy - SumIn(fees, known \ (1 .. fit))

\* The subsidy a share claims, after the transactions that do not fit are taken out.
\* known: the fees that are not None.
ClaimedSubsidy(subsidy, fees, known, fit) ==
  LET included == 1 .. fit
      removed == DOMAIN fees \ included
  IN IF removed \subseteq known THEN subsidy - SumIn(fees, removed)
     ELSE Subsidy + SumIn(fees, included \cap known)

\* What is paid to whom: weights is the answer of get_cumulative_weights.
Amounts(version, address, subsidy, weights, total) ==
  LET shared == [a \in Payee |-> IF weights[a] = 0 THEN 0
                                 ELSE (subsidy * (199 * weights[a])) \div (200 * total)]
      finder == [shared EXCEPT ![address] = @ + subsidy \div 200]
      remainder == subsidy - SumIn(finder, Payee)
      rest == IF PAYS_LEGACY_DONATION(version) THEN donation_address ELSE address
  IN [finder EXCEPT ![rest] = @ + remainder]

\* Mutant: the window is what the tracker holds.
WeightsForAll(previous) ==
  get_cumulative_weights(
    IF previous = None THEN None ELSE share[previous].previous,
    IF get_height(previous) = 0 THEN 0 ELSE get_height(previous) - 1, Spread)

\* The call of get_cumulative_weights in generate_transaction: from the share before the previous.
WeightsFor(previous) ==
  LET max(x, y) == IF x > y THEN x ELSE y
      min(x, y) == IF x < y THEN x ELSE y
  IN get_cumulative_weights(
       IF previous = None THEN None ELSE share[previous].previous,
       max(0, min(get_height(previous), REAL_CHAIN_LENGTH) - 1),
       Spread)

\* The time of a share of version v on previous.
Timestamp(v, previous, desired) ==
  LET before == share[previous].timestamp IN
  IF previous = None THEN desired
  ELSE IF v < 32 THEN clip(desired, before + 1, before + 2 * SHARE_PERIOD - 1)
  ELSE IF desired > before THEN desired ELSE before + 1

\* tx_hash_to_this: how many shares before a share on previous tx was new, 0 where it was not.
Back(previous, tx) ==
  LET reach == IF get_height(previous) < RefDepth THEN get_height(previous) ELSE RefDepth
      past == get_chain(previous, reach)
      there == {i \in DOMAIN past : tx \in share[past[i]].new_transaction_hashes}
  IN IF there = {} THEN 0 ELSE CHOOSE i \in there : \A k \in there : i <= k

\* transaction_hash_refs, for the transactions that fit.
Refs(previous, txs) == [n \in DOMAIN txs |-> [share_count |-> Back(previous, txs[n]), tx |-> txs[n]]]

\* The share on data.previous with what it commits to; walk is WeightsFor(data.previous).
\* data is share_data with the version; subsidy is the one left by ClaimedSubsidy. Shares before 34
\* say of an address but its hash, and say of the transactions.
Generated(data, desired_timestamp, desired_target, txs, walk) ==
  LET previous == data.previous
      easiest == pre_target3(previous)
      refs == IF data.version < 34 THEN Refs(previous, txs) ELSE <<>>
  IN [previous |-> previous, version |-> data.version,
      address |-> IF data.version < 34 THEN legacy_address[data.address] ELSE data.address,
      new_transaction_hashes |-> {refs[n].tx : n \in {i \in DOMAIN refs : refs[i].share_count = 0}},
      transaction_hash_refs |-> refs,
      donation |-> data.donation, desired_version |-> data.desired_version,
      subsidy |-> data.subsidy, most |-> data.most,
      max_bits |-> Rounded(easiest),
      bits |-> Rounded(clip(desired_target, easiest \div 30, easiest)),
      timestamp |-> Timestamp(data.version, previous, desired_timestamp),
      far_share_hash |-> IF get_last(previous) = None /\ get_height(previous) < Far THEN None
                         ELSE get_nth_parent_hash(previous, Far),
      amounts |-> Amounts(data.version, data.address, data.subsidy, walk.sol.weights, walk.sol.total)]

\* The assertion at its head.
HasHistory(previous) == get_height(previous) >= REAL_CHAIN_LENGTH \/ get_last(previous) = None

-----------------------------------------------------------------------------
\* How many shares fork off the shares made before them.
Forks == Cardinality({h \in DOMAIN share : \E x \in 1 .. h - 1 : share[x].previous = share[h].previous})

\* A miner of some node finds a share on previous.
Mine(previous, m) ==
  LET type == share_type(previous)
      v == IF m.old /\ type = 36 THEN 35 ELSE type
      clock == (IF previous = None THEN Epoch ELSE share[previous].timestamp) + m.later
      data == [previous |-> previous, version |-> v, address |-> m.address,
               donation |-> IF PAYS_LEGACY_DONATION(v) THEN m.donation ELSE 0,
               desired_version |-> IF m.old THEN 35 ELSE Desired(v),
               subsidy |-> ClaimedSubsidy(
                 Subsidy + SumIn(m.fees, DOMAIN m.fees), m.fees, m.known, m.fit),
               most |-> Subsidy + SumIn(m.fees, 1 .. m.fit)]
      walk == WeightsFor(previous)
  IN /\ Len(share) < MaxShares
     /\ (\E h \in DOMAIN share : share[h].previous = previous) => Forks < MaxForks
     /\ previous \in items \cup {None}
     /\ HasHistory(previous)
     /\ m.old /\ previous # None => share[previous].version # 36
     /\ share' = Append(share, Generated(data, clock, m.target, SubSeq(m.txs, 1, m.fit), walk))
     /\ made' = Append(made, [clock |-> clock, address |-> m.address])
     /\ items' = items \cup {Len(share) + 1}
     /\ skips' = walk.skips
     /\ UNCHANGED <<level, flag_day>>

\* What attempt_verify requires before it calls check.
Judgeable(h) == get_height(h) >= CHAIN_LENGTH + 1 \/ get_last(h) = None

\* What check asks first, by its own clock now: of the time, and of the version.
Admitted(h, now) ==
  /\ share[h].timestamp <= now + Ahead
  /\ share[h].previous # None => VersionPasses(share[h].version, share[h].previous)

\* check finds the transactions a share refers to in the shares before, or in itself ...
RefsResolve(h) ==
  \A n \in DOMAIN share[h].transaction_hash_refs :
    LET ref == share[h].transaction_hash_refs[n]
    IN ref.tx \in share[get_nth_parent_hash(h, ref.share_count)].new_transaction_hashes

\* ... makes the share again from what it says itself, and compares.
Remade(h) ==
  LET s == share[h]
      txs == [n \in DOMAIN s.transaction_hash_refs |-> s.transaction_hash_refs[n].tx]
  IN Generated([previous |-> s.previous, version |-> s.version, address |-> s.address,
                donation |-> s.donation, desired_version |-> s.desired_version,
                subsidy |-> s.subsidy, most |-> s.most],
               s.timestamp, s.bits, txs, WeightsFor(s.previous))

check(h, now) == Admitted(h, now) /\ RefsResolve(h) /\ share[h] = Remade(h)

\* Some node verifies h; the walk fills in jumps.
Verify(h, now) ==
  /\ h \in items /\ Judgeable(h)
  /\ Admitted(h, now) /\ RefsResolve(h)
  /\ skips' = WeightsFor(share[h].previous).skips
  /\ UNCHANGED <<share, items, made, level, flag_day>>

\* get_expected_payouts, of the best share.
ExpectedWeights(best) ==
  get_cumulative_weights(
    best, IF get_height(best) < REAL_CHAIN_LENGTH THEN get_height(best) ELSE REAL_CHAIN_LENGTH, Spread)

get_expected_payouts(best) ==
  /\ skips' = ExpectedWeights(best).skips
  /\ UNCHANGED <<share, items, made, level, flag_day>>

\* Shares leave the tracker, and the skip list forgets them.
Remove(S) ==
  /\ S # {}
  /\ items' = items \ S
  /\ skips' = [h \in DOMAIN skips \ S |-> skips[h]]
  /\ UNCHANGED <<share, made, level, flag_day>>

DropTails == Remove(items \ Pruned)

\* clean_tracker drops a stale head.
DropHead == \E h \in Heads(items) : Heads(items) # {h} /\ Remove({h})

Init ==
  /\ share = <<>> /\ items = {} /\ made = <<>> /\ skips = [h \in {} |-> <<>>]
  /\ level \in Levels /\ flag_day \in FlagDays

Next ==
  \/ \E previous \in items \cup {None}, m \in Makers : Mine(previous, m)
  \/ \E h \in items, skew \in Skews : Verify(h, made[h].clock + skew)
  \/ \E h \in Heads(items) : get_expected_payouts(h)
  \/ DropTails \/ DropHead

Spec == Init /\ [][Next]_payVars

-----------------------------------------------------------------------------
\* The plain sum over the chain as it was made, none of it removed: whole shares while there is
\* room for them, and of the next share the part that fills the weight up.
PlainWeights(start, max_shares, desired_weight) ==
  LET path == FullPath(start)
      sum[n \in 0 .. Len(path)] ==
        IF n = 0 \/ n > max_shares THEN Zero
        ELSE apply_delta(sum[n - 1], get_delta(path[n]), desired_weight)
      last == CHOOSE n \in 0 .. Len(path) :
                /\ n = max_shares \/ sum[n].total = desired_weight
                /\ \A k \in 0 .. n - 1 : sum[k].total < desired_weight
  IN sum[last]

\* Whatever walks came before and whatever was removed, an answer of the skip list is the plain
\* sum over the chain as it was made. (data.py:732-780, util/skiplist.py:12-56.)
WindowExact ==
  \A h \in items : HasHistory(h) =>
    LET whole == Len(FullPath(h))
        window == IF whole < REAL_CHAIN_LENGTH THEN whole ELSE REAL_CHAIN_LENGTH
    IN /\ WeightsFor(h).sol = PlainWeights(share[h].previous, window - 1, Spread)
       /\ ExpectedWeights(h).sol = PlainWeights(h, window, Spread)

\* A share this code has made passes check wherever and whenever it may be checked: by a node
\* that has more of the chain or less, after the vote has moved on, with targets and timestamps
\* rounded and clipped a second time, and transactions found where they were. For the clock of who
\* checks it, neither the clock it was made with may be more than 600 seconds ahead, nor the share
\* before it 600; and it must be paid to an address that its version can say: before 34 that is
\* none of a script (P2SH) or of a witness program. (data.py:543-635 against 200-365, 507-514 and
\* work.py:346-371.)
OwnSharesPass ==
  \A h \in items, skew \in Skews :
    LET now == made[h].clock + skew
        previous == share[h].previous
    IN /\ Judgeable(h)
       /\ made[h].clock <= now + Ahead
       /\ previous # None => share[previous].timestamp < now + Ahead
       /\ made[h].address = share[h].address
       => check(h, now)

\* The coinbase pays out the subsidy to the last unit, nobody a negative amount, and the subsidy
\* is never more than the coin grants for the transactions left in. (data.py:289-329.)
PaidInFull ==
  \A h \in DOMAIN share :
    LET s == share[h] IN
    /\ SumIn(s.amounts, Payee) = s.subsidy
    /\ \A a \in Payee : s.amounts[a] >= 0
    /\ s.subsidy <= s.most
=============================================================================
