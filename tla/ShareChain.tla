------------------------------ MODULE ShareChain ------------------------------
(***************************************************************************)
(* data.OkayTracker and the parts of node.Node and node.P2PNode that drive *)
(* it: shares arrive in any order, think() verifies them, names the        *)
(* ancestors that are missing and decides which share to build on, and     *)
(* clean_tracker() drops stale heads and old tails.                        *)
(*                                                                         *)
(* Each handler runs to its end in one turn of the reactor, so it is one   *)
(* action, think() included; download_shares yields while its request is   *)
(* out, so it is two. The trackers' dictionaries and walks are those of    *)
(* ForestShape, which Tracker and TrackerView implement.                   *)
(*                                                                         *)
(* A share's own content decides whether check() passes, so the failing    *)
(* shares are a set fixed at the start. The clock enters as the choice of  *)
(* which shares were seen long ago; equal claims are told apart by         *)
(* time_seen, so by choice.                                                *)
(***************************************************************************)
EXTENDS ForestShape, Integers, Sequences, FiniteSetsExt

Sq == INSTANCE SequencesExt

CONSTANTS CHAIN_LENGTH,    \* net.CHAIN_LENGTH
          Few,             \* the 5 of think and clean_tracker
          Slack,           \* the 10 of clean_tracker
          Generations,     \* the 6 of Share.check: how far naughty is passed on
          Window,          \* CHAIN_LENGTH*15//16
          Work,            \* the expected work of each share
          Timestamp,       \* the timestamp inside each share, none in the future
          Hour, Day,       \* how far behind the best share, or now, a head may be to matter
          Solved,          \* shares that solve a block of the parent chain
          Forests,         \* the forests of shares the network may produce
          MaxBatch,        \* bound: the most shares a peer announces at once
          Flaws            \* which shares fail check(), claim too high a reward, or make
                           \* too large a block

ASSUME ShareChainAssumption ==
  /\ IsFiniteSet(Hash)
  /\ {CHAIN_LENGTH, Few, Window, Generations} \subseteq Nat \ {0} /\ {Slack, MaxBatch, Hour, Day} \subseteq Nat
  /\ Window <= CHAIN_LENGTH
  /\ Work \in [Hash -> Nat] /\ Timestamp \in [Hash -> Nat]
  /\ Solved \subseteq Hash
  /\ Forests \subseteq Previous
  /\ Flaws \subseteq [bad : SUBSET Hash, excess : SUBSET Hash, heavy : SUBSET Hash]

VARIABLES previous_hash,   \* the previous_hash inside each share
          bad,             \* the shares check() refuses
          excess,          \* the shares check() finds an excessive reward in
          heavy,           \* the shares whose transactions are over a block's limits
          items,           \* OkayTracker.items
          verified,        \* OkayTracker.verified.items
          naughty,         \* the naughty of each share
          best,            \* Node.best_share_var
          desired,         \* the hashes of Node.desired_var
          error,           \* what the last handler raised
          asked,           \* the answer download_shares waits for, or <<>>
          downloading      \* whether the loop of download_shares still runs

network == <<previous_hash, bad, excess, heavy>>
chainVars == <<network, items, verified, naughty, best, desired, error, asked, downloading>>

-----------------------------------------------------------------------------
\* The tracker's walks, over the shares I.

get_last(I, x)   == Last(I, previous_hash, x)
get_height(I, x) == Height(I, previous_hash, x)
Heads(I)         == HeadSet(I, previous_hash)
Tails(I)         == TailSet(I, previous_hash)
Over(I, t)       == HeadsAbove(I, previous_hash, t)
Kids(I, x)       == Children(I, previous_hash, x)
Removable(I, h)  == h \in Heads(I) \/ previous_hash[h] \notin I

nth_parent(x, n) ==
  LET up[k \in 0 .. n] == IF k = 0 THEN x ELSE previous_hash[up[k - 1]]
  IN up[n]

\* get_chain: the n shares from x on.
get_chain(x, n) == [i \in 1 .. n |-> nth_parent(x, i - 1)]

SumWork(S) == MapThenSumSet(LAMBDA x : Work[x], S)
get_work(I, x) == SumWork(Chain(I, previous_hash)[x] \cap I)

-----------------------------------------------------------------------------
(***************************************************************************)
(* think(). Its working state is a record s; a raised exception stops it   *)
(* and leaves the trackers as they are at that point.                      *)
(***************************************************************************)
Raise(s, e) == [s EXCEPT !.error = e]
Unless(s, t) == IF s.error = "none" THEN t ELSE s

\* Mutant: one ancestor more than the walks of think() leave.
JudgeableLonger(s, h) == get_height(s.items, h) > CHAIN_LENGTH + 1 \/ get_last(s.items, h) = None

\* attempt_verify refuses to judge a share without CHAIN_LENGTH ancestors to judge it by.
Judgeable(s, h) == get_height(s.items, h) > CHAIN_LENGTH \/ get_last(s.items, h) = None

\* Mutant: the mark is passed on for ever.
CheckedForever(marks, h) ==
  LET parent == previous_hash[h]
  IN IF parent = None THEN marks
     ELSE [marks EXCEPT ![h] = IF marks[parent] > 0 THEN marks[parent] + 1
                               ELSE IF h \in excess THEN 1 ELSE @]

\* Share.check's mark on a share, passed on by a parent that has one already. A first
\* share of all is not looked at.
Checked(marks, h) ==
  LET parent == previous_hash[h]
  IN IF parent = None THEN marks
     ELSE [marks EXCEPT ![h] = IF marks[parent] > 0 THEN (marks[parent] + 1) % (Generations + 1)
                               ELSE IF h \in excess THEN 1 ELSE @]

\* The marks of the shares of path but those of V, which were checked before.
Marked(marks, path, V) ==
  Sq!FoldLeft(LAMBDA m, h : IF h \in V THEN m ELSE Checked(m, h), marks, path)

\* attempt_verify on the shares of path in turn, up to the last of them.
Attempt(s, path) ==
  IF \E h \in Range(path) \ s.verified : ~Judgeable(s, h) THEN Raise(s, "AssertionError")
  ELSE [s EXCEPT !.verified = @ \cup (Range(path) \ bad),
                 !.naughty = Marked(@, path, s.verified)]

\* The newest of the few shares at a head of I.
newest(I, head) ==
  Max({Timestamp[x] : x \in Range(get_chain(head, Min({Few, get_height(I, head)})))})

\* Mutant: dated by the oldest of them.
WishOldest(I, head, x) ==
  IF x = None THEN {}
  ELSE {<<x, Min({Timestamp[y] : y \in Range(get_chain(head, Min({Few, get_height(I, head)})))})>>}

\* What is missing, dated by the newest.
Wish(I, head, x) == IF x = None THEN {} ELSE {<<x, newest(I, head)>>}

Passes(s, h) == h \in s.verified \/ h \notin bad

\* An unverified head: from it down to the first share that passes. When none does,
\* for want of ancestors, the first missing one is desired.
VerifyHead(s, head) ==
  LET last == get_last(s.items, head)
      tall == get_height(s.items, head)
      n    == IF last = None THEN tall ELSE Min({Few, Max({0, tall - CHAIN_LENGTH})})
      path == get_chain(head, n)
      good == {i \in 1 .. n : Passes(s, path[i])}
      k    == IF good = {} THEN n ELSE Min(good)
      done == Attempt(s, SubSeq(path, 1, k))
      fell == SubSeq(path, 1, IF good = {} THEN n ELSE k - 1)
      want == IF good = {} THEN Wish(s.items, head, last) ELSE {}
  IN Unless(s, [done EXCEPT !.bads = @ \o fell, !.desired = @ \cup want])

\* A share that failed leaves the tracker, unless it is in the middle of a chain.
RemoveBad(s, b) ==
  Unless(s, IF b \in s.verified THEN Raise(s, "AssertionError")
            ELSE IF b \notin s.items THEN Raise(s, "KeyError")
            ELSE IF ~Removable(s.items, b) THEN s
            ELSE [s EXCEPT !.items = @ \ {b}, !.naughty[b] = 0])

\* A verified head: its chain is verified further down, to CHAIN_LENGTH shares, and
\* what is missing below is desired.
ExtendHead(s, head) ==
  LET tall  == get_height(s.verified, head)
      last  == get_last(s.verified, head)
      below == get_height(s.items, last)
      end   == get_last(s.items, last)
      want  == Max({0, CHAIN_LENGTH - tall})
      can   == IF end = None THEN below ELSE Max({0, below - 1 - CHAIN_LENGTH})
      path  == get_chain(last, Min({want, can}))
      stop  == {i \in DOMAIN path : ~Passes(s, path[i])}
      done  == Attempt(s, IF stop = {} THEN path ELSE SubSeq(path, 1, Min(stop)))
      need  == IF tall < CHAIN_LENGTH THEN Wish(s.verified, head, end) ELSE {}
  IN Unless(s, [done EXCEPT !.desired = @ \cup need])

\* score: how many verified shares are under the best head of a tail and, once they are
\* CHAIN_LENGTH, the work of the newest of them; the parent chain moves at one pace here.
score(s, t) ==
  LET top  == CHOOSE h \in Over(s.verified, t) :
                \A g \in Over(s.verified, t) : get_work(s.verified, g) <= get_work(s.verified, h)
      tall == get_height(s.verified, top)
  IN IF tall < CHAIN_LENGTH THEN <<tall, 0>>
     ELSE <<CHAIN_LENGTH, SumWork(Range(get_chain(top, Window)))>>

Exceeds(a, b) == a[1] > b[1] \/ (a[1] = b[1] /\ a[2] > b[2])

\* sorted() meets a tail that is None and one that is not, of the same score, and has
\* no order for them: a TypeError.
Incomparable(s) ==
  \E t \in Tails(s.verified) \ {None} :
    None \in Tails(s.verified) /\ score(s, t) = score(s, None)

best_tail(s) ==
  CHOOSE t \in Tails(s.verified) :
    \A u \in Tails(s.verified) \ {t} :
      \/ Exceeds(score(s, t), score(s, u))
      \/ score(s, t) = score(s, u) /\ t > u

\* Mutant: the heirs of a naughty share go free.
PunishSinner(s, h) ==
  CASE h \in Solved    -> -1
    [] h \notin Solved -> IF s.naughty[h] = 1 \/ h \in heavy THEN 1 ELSE 0

\* should_punish_reason: a block solution is never punished; a naughty share is, and one
\* whose transactions, all of them known here, would make too large a block.
Punish(s, h) ==
  CASE h \in Solved                          -> -1
    [] h \notin Solved /\ s.naughty[h] > 0   -> s.naughty[h]
    [] h \notin Solved /\ s.naughty[h] = 0   -> IF h \in heavy THEN 1 ELSE 0

\* What a head is ranked by: the work up to some shares under it, less its own when it is
\* to be punished; then the punishment; then (not shown) how early it was seen.
HeadScore(s, h) ==
  LET under == nth_parent(h, Min({Few, get_height(s.verified, h)}))
  IN <<get_work(s.verified, under) - Min({Punish(s, h), 1}) * Work[h], -Punish(s, h)>>

\* The n best heads over the best tail, whichever way equal ones are ordered.
TopHeads(s, n) ==
  LET all == IF s.verified = {} THEN {} ELSE Over(s.verified, best_tail(s))
  IN {K \in SUBSET all :
        /\ Cardinality(K) = Min({n, Cardinality(all)})
        /\ \A k \in K, h \in all \ K : ~Exceeds(HeadScore(s, h), HeadScore(s, k))}

\* best_descendent: up the longest line of shares that are not naughty.
best_descendent(s, h) ==
  LET ahead(a, b) == a[1] > b[1] \/ (a[1] = b[1] /\ a[2] >= b[2])
      end[y \in Hash] ==
        LET kids == {end[k] : k \in {x \in Kids(s.items, y) : s.naughty[x] = 0}}
            far  == CHOOSE e \in kids : \A f \in kids : ahead(e, f)
        IN IF kids = {} THEN <<0, y>> ELSE <<far[1] + 1, far[2]>>
  IN end[h][2]

\* The share to build on in place of a head that is to be punished: the first ancestor
\* that is not, then up another branch from there.
Jump(s, h) ==
  LET line == get_chain(h, get_height(s.items, h))
      fair == {i \in DOMAIN line : Punish(s, line[i]) <= 0}
      a    == line[Min(fair)]
  IN CASE fair = {}                           -> [Raise(s, "KeyError") EXCEPT !.best = None]
       [] 1 \in fair                          -> [s EXCEPT !.best = h]
       [] fair # {} /\ 1 \notin fair          ->
            [s EXCEPT !.best = IF Punish(s, a) < 0 THEN a ELSE best_descendent(s, a)]

\* Heads left far behind by the best share, or by the clock where there is none, no longer
\* have their ancestors asked for.
timestamp_cutoff(b) ==
  IF b = None THEN Max(Range(Timestamp)) - Day ELSE Timestamp[b] - Hour
Recent(s) == [s EXCEPT !.desired = {w[1] : w \in {v \in @ : v[2] >= timestamp_cutoff(s.best)}}]

Decisions(s) ==
  IF s.error # "none" THEN {s}
  ELSE IF Incomparable(s) THEN {Raise(s, "TypeError")}
  ELSE {[(IF r.error = "none" THEN Recent(r) ELSE r) EXCEPT !.top = K] :
          r \in IF s.verified = {} THEN {s} ELSE {Jump(s, h) : h \in UNION TopHeads(s, 1)},
          K \in TopHeads(s, Few)}

\* The loops of think(). A set's order is the interpreter's choice.
Verify(s, heads) == {Sq!FoldLeft(VerifyHead, s, order) : order \in Sq!SetToSeqs(heads)}
Purge(s)         == Sq!FoldLeft(RemoveBad, s, s.bads)
Extend(s, heads) == {Sq!FoldLeft(ExtendHead, s, order) : order \in Sq!SetToSeqs(heads)}

\* think() on the shares I of which V are verified and N naughty.
think(I, V, N) ==
  LET start  == [items |-> I, verified |-> V, naughty |-> N, desired |-> {}, bads |-> <<>>,
                 best |-> None, top |-> {}, error |-> "none"]
      judged == {Purge(s) : s \in Verify(start, Heads(I) \ Heads(V))}
  IN UNION {Decisions(s) : s \in UNION {Extend(r, Heads(r.verified)) : r \in judged}}

-----------------------------------------------------------------------------
\* A handler that ended in the working state r; the variables the rest of the node
\* watches are set only when nothing was raised.
Become(r) ==
  /\ items' = r.items /\ verified' = r.verified /\ naughty' = r.naughty
  /\ error' = r.error
  /\ IF r.error = "none" THEN best' = r.best /\ desired' = r.desired
     ELSE UNCHANGED <<best, desired>>
  /\ UNCHANGED network

Init ==
  /\ previous_hash \in Forests
  /\ \E f \in Flaws : bad = f.bad /\ excess = f.excess /\ heavy = f.heavy
  /\ items = {} /\ verified = {} /\ naughty = [h \in Hash |-> 0]
  /\ best = None /\ desired = {}
  /\ error = "none"
  /\ asked = <<>> /\ downloading = TRUE

set_best_share(I, V, N) == \E r \in think(I, V, N) : Become(r)

\* Shares from a peer, or one of our own; those already present are skipped.
handle_shares(S) ==
  IF S \subseteq items THEN UNCHANGED <<network, items, verified, naughty, best, desired, error>>
  ELSE set_best_share(items \cup S, verified, naughty)

\* A new block of the parent chain.
NewWork == set_best_share(items, verified, naughty) /\ UNCHANGED <<asked, downloading>>

\* Shares announced by a peer.
Hear ==
  /\ \E S \in SUBSET (Hash \ items) : Cardinality(S) \in 1 .. MaxBatch /\ handle_shares(S)
  /\ UNCHANGED <<asked, downloading>>

\* Mutant: one share short.
handle_get_shares_short(h, parents) ==
  LET stops == Heads(items)
      line  == get_chain(h, Min({parents, get_height(Hash, h)}))
      stop  == {i \in DOMAIN line : line[i] \in stops}
  IN Range(IF stop = {} THEN line ELSE SubSeq(line, 1, Min(stop) - 1))

\* What a peer that has every share answers to a request for h and some of its
\* ancestors: the line from h down to a share the request named in stops.
handle_get_shares(h, parents) ==
  LET upTo(x) == nth_parent(x, Min({Max({0, get_height(items, x) - 1}), 2 * Few}))
      stops   == Heads(items) \cup {upTo(x) : x \in Heads(items)}
      line    == get_chain(h, Min({parents + 1, get_height(Hash, h)}))
      stop    == {i \in DOMAIN line : line[i] \in stops}
  IN Range(IF stop = {} THEN line ELSE SubSeq(line, 1, Min(stop) - 1))

\* download_shares: a desired share and a random number of its ancestors are asked for.
Ask ==
  /\ downloading /\ asked = <<>>
  /\ \E h \in desired, parents \in 0 .. Cardinality(Hash) :
       asked' = <<handle_get_shares(h, parents)>>
  /\ UNCHANGED <<network, items, verified, naughty, best, desired, error, downloading>>

\* What handle_shares raises here ends the loop for good.
Answered ==
  /\ asked # <<>> /\ asked' = <<>>
  /\ handle_shares(asked[1])
  /\ downloading' = (asked[1] \subseteq items \/ error' = "none")

\* The request timed out or failed, or the peer had nothing to send.
Unanswered ==
  /\ asked # <<>> /\ asked' = <<>>
  /\ UNCHANGED <<network, items, verified, naughty, best, desired, error, downloading>>

-----------------------------------------------------------------------------
\* clean_tracker, whose loops run until nothing more is to be removed.

\* Mutant: the share stays among the verified.
TakeOutHalf(s, h) ==
  Unless(s, IF ~Removable(s.items, h) THEN Raise(s, "NotImplementedError")
            ELSE [s EXCEPT !.items = @ \ {h}, !.naughty[h] = 0])

TakeOut(s, h) ==
  Unless(s, IF (h \in s.verified /\ ~Removable(s.verified, h)) \/ ~Removable(s.items, h)
            THEN Raise(s, "NotImplementedError")
            ELSE [s EXCEPT !.items = @ \ {h}, !.verified = @ \ {h}, !.naughty[h] = 0])

\* As many rounds as can change anything.
Rounds == [i \in 1 .. Cardinality(Hash) |-> i]

\* Heads seen long ago that are not among the best; an unverified one only when the
\* roots over its tail have also been there for a while.
EatRound(s, old, quiet) ==
  LET gone == {h \in Heads(s.items) :
                 /\ h \notin s.top /\ h \in old
                 /\ (h \in s.verified) \/ Kids(s.items, get_last(s.items, h)) \subseteq quiet}
  IN Sq!FoldLeft(TakeOut, s, Sq!SetToSeq(gone))

EatHeads(s, old, quiet) ==
  IF s.top = {} THEN s ELSE Sq!FoldLeft(LAMBDA r, i : EatRound(r, old, quiet), s, Rounds)

\* The roots of the trees in which every head is very tall.
TakeRoot(s, h) == IF previous_hash[h] \in Tails(s.items) THEN TakeOut(s, h) ELSE s

DropRound(s) ==
  LET tall == {t \in Tails(s.items) :
                 \A h \in Over(s.items, t) : get_height(s.items, h) >= 2 * CHAIN_LENGTH + Slack}
  IN Sq!FoldLeft(TakeRoot, s, Sq!SetToSeq(UNION {Kids(s.items, t) : t \in tall}))

DropTails(s) == Sq!FoldLeft(LAMBDA r, i : DropRound(r), s, Rounds)

\* Mutant: the best share is not chosen again.
clean_tracker_once(old, quiet) ==
  \E s \in think(items, verified, naughty) :
    Become(IF s.error = "none" THEN DropTails(EatHeads(s, old, quiet)) ELSE s)

clean_tracker(old, quiet) ==
  \E s \in think(items, verified, naughty) :
    LET r == IF s.error = "none" THEN DropTails(EatHeads(s, old, quiet)) ELSE s
    IN IF r.error # "none" THEN Become(r) ELSE set_best_share(r.items, r.verified, r.naughty)

\* Bound: all but one of the shares have been there for five minutes, or none has; and
\* two minutes have passed for those at least, or for all.
Clean ==
  /\ \E old \in {items \ {h} : h \in Node} \cup {{}} :
       \E quiet \in {old, items} : clean_tracker(old, quiet)
  /\ UNCHANGED <<asked, downloading>>

Next == Hear \/ Ask \/ Answered \/ Unanswered \/ NewWork \/ Clean

Spec == Init /\ [][Next]_chainVars

\* Here no head is old enough to be dropped.
SyncNext ==
  \/ Hear \/ Ask \/ Answered \/ Unanswered \/ NewWork
  \/ clean_tracker({}, {}) /\ UNCHANGED <<asked, downloading>>

\* The loop of download_shares goes on; and of its requests, which go to peers picked
\* at random, ever again one is answered in full. (This is strong fairness of Answered,
\* which is enabled whenever a request is out.)
SyncFairness ==
  /\ WF_chainVars(Ask)
  /\ []<>(asked # <<>>) =>
       []<><<asked # <<>> /\ asked' = <<>> /\ asked[1] \subseteq items'>>_chainVars

SyncSpec == Init /\ [][SyncNext]_chainVars /\ SyncFairness

-----------------------------------------------------------------------------
\* The types of the variables; the verified shares are among the tracker's (the assertions
\* of SubsetTracker), and no share check() refuses is one of them.
ChainTypeOK ==
  /\ previous_hash \in Forests /\ {bad, excess, heavy} \subseteq SUBSET Hash
  /\ items \subseteq Hash /\ verified \subseteq items \ bad
  /\ naughty \in [Hash -> 0 .. Generations]
  /\ best \in Node
  /\ desired \subseteq Hash
  /\ asked = <<>> \/ asked[1] \subseteq Hash
  /\ downloading \in BOOLEAN
  /\ error \in {"none", "KeyError", "TypeError", "NotImplementedError", "AssertionError"}

\* No assertion of think() fails and no share is taken out of the middle of a chain:
\* attempt_verify always has the ancestors it needs, and what leaves the tracker can
\* leave the verified one.
NoAssertion == error \notin {"AssertionError", "NotImplementedError"}

\* The share the node builds on is in its tracker whenever its last handler ended; one that
\* raised may have taken it out before.
BestPresent == error = "none" => best \in items \cup {None}

\* Nor is it a naughty one, whichever way the node had to jump.
NeverOnNaughty == error = "none" /\ best \in Hash \ Solved => naughty[best] = 0

\* A head that is not far behind the best share is verified or the ancestors it lacks are
\* being asked for; and a verified chain shorter than CHAIN_LENGTH ends at the first share
\* of all, at a share check() refuses, or above ancestors that are being asked for.
NoStall ==
  error = "none" =>
    /\ \A h \in Heads(items) \ verified :
         newest(items, h) >= timestamp_cutoff(best) => get_last(items, h) \in desired
    /\ \A h \in Heads(verified) :
         get_height(verified, h) < CHAIN_LENGTH /\ newest(verified, h) >= timestamp_cutoff(best) =>
           LET t == get_last(verified, h)
           IN t = None \/ t \in bad \/ get_last(items, t) \in desired

\* think() finds an order for the tails it has to choose between, as it does where None
\* sorts before every hash.
TailsHaveAnOrder == error # "TypeError"

\* When no share is flawed, the node runs out of ancestors to ask for, in whatever order
\* shares are announced and answers come in; with NoStall, every head is then verified
\* over CHAIN_LENGTH shares or down to the first share of all.
SyncCompletes == <>[](desired = {})
=============================================================================
