----------------------------- MODULE ParentChain -----------------------------
(***************************************************************************)
(* What a node knows of the coin's own chain: the work the coin daemon     *)
(* gives (node.py: bitcoind_work), the best block header, which peers and  *)
(* the daemon tell of (best_block_header, handle_header), and the work     *)
(* made of both (work.py: compute_work).                                   *)
(*                                                                         *)
(* The daemon is asked for work over and over, and after every answer for  *)
(* the header of the block that work is on; that answer may come late,     *)
(* when the work is another, or not at all. Peers tell of any block at any *)
(* time.                                                                   *)
(***************************************************************************)
EXTENDS Naturals

CONSTANTS Block,        \* the blocks there are
          no_header,    \* None
          previous_block,  \* [Block -> Block]: the block before (of the first, itself)
          height,
          genesis,      \* the block the daemon is on when the node starts
          PowMeets      \* pairs: the hash of the first is below the target of work on the second

ASSUME ParentChainAssumption ==
  /\ genesis \in Block /\ <<genesis, genesis>> \in PowMeets /\ no_header \notin Block
  /\ previous_block \in [Block -> Block] /\ height \in [Block -> Nat]
  /\ \A b \in Block \ {genesis} : height[b] = height[previous_block[b]] + 1
  /\ PowMeets \subseteq Block \X Block

VARIABLES bitcoind_work,       \* on: the block to build on; txs: whether it has transactions
          best_block_header,
          header_polls,        \* the blocks whose headers the daemon is asked for, and has not given
          current_work         \* like bitcoind_work

parentVars == <<bitcoind_work, best_block_header, header_polls, current_work>>

Work == [on : Block, txs : BOOLEAN]

\* compute_work: on the block the daemon does not know yet, or on the daemon's.
compute_work(work, header) ==
  IF header # no_header /\ header # genesis
     /\ previous_block[header] = work.on /\ <<header, work.on>> \in PowMeets
  THEN [on |-> header, txs |-> FALSE] ELSE work

\* Mutant: the header of the daemon's own block is not taken when another is there.
handle_header_forward(new) ==
  IF /\ <<new, bitcoind_work.on>> \in PowMeets
     /\ \/ best_block_header = no_header
        \/ previous_block[new] = bitcoind_work.on /\ best_block_header = bitcoind_work.on
  THEN new ELSE best_block_header

\* handle_header: the best header there is then. A block that is its own parent has none here.
handle_header(new) ==
  LET on == bitcoind_work.on
      child(b) == b # genesis /\ previous_block[b] = on
  IN IF /\ <<new, on>> \in PowMeets
        /\ \/ best_block_header = no_header
           \/ child(new) /\ best_block_header = on
           \/ new = on /\ ~child(best_block_header)
     THEN new ELSE best_block_header

\* Mutant: nothing but transactions does.
IsNewsTxs(before, after) == ~before.txs /\ after.txs

\* What makes miners get new work at once, of a change of current_work.
IsNews(before, after) == before.on # after.on \/ (~before.txs /\ after.txs)

ParentInit ==
  /\ bitcoind_work \in [on : {genesis}, txs : {FALSE}]
  /\ \/ best_block_header = genesis /\ header_polls = {}
     \/ best_block_header = no_header /\ header_polls = {genesis}
  /\ current_work = compute_work(bitcoind_work, best_block_header)

\* work_poller: the daemon's work, which never goes back to a lower block; and poll_header.
GotWork(work) ==
  /\ work.on = bitcoind_work.on \/ height[work.on] > height[bitcoind_work.on]
  /\ bitcoind_work' = work
  /\ header_polls' = header_polls \cup {work.on}
  /\ current_work' = compute_work(work, best_block_header)
  /\ UNCHANGED best_block_header

\* A header is told of.
Told(new) ==
  /\ best_block_header' = handle_header(new)
  /\ current_work' = compute_work(bitcoind_work, best_block_header')
  /\ UNCHANGED bitcoind_work

PeerHeader(new) == Told(new) /\ UNCHANGED header_polls

\* The answer to a poll, perhaps to one of long ago. A poll that fails is one never answered.
PollAnswered(b) ==
  /\ b \in header_polls
  /\ header_polls' = header_polls \ {b}
  /\ Told(b)

ParentNext ==
  \/ \E work \in Work : GotWork(work)
  \/ \E b \in Block : PeerHeader(b) \/ PollAnswered(b)

ParentSpec == ParentInit /\ [][ParentNext]_parentVars

-----------------------------------------------------------------------------
\* Once the daemon has answered the poll for the block its work is on, the best header is that
\* block or a child of it, whatever peers said in between and however late answers came; unless
\* the hash of the block is above the target of the next, when node.py:260 drops the header.
HeaderSettles ==
  LET on == bitcoind_work.on IN
  /\ on \notin header_polls /\ <<on, on>> \in PowMeets =>
       best_block_header # no_header
       /\ (best_block_header = on \/ previous_block[best_block_header] = on)
  /\ current_work.on = on \/ previous_block[current_work.on] = on
=============================================================================
