--------------------------------- MODULE Work ---------------------------------
(***************************************************************************)
(* work.WorkerBridge and bitcoin/stratum.py: jobs made from the parent     *)
(* chain's work and the best share, sent to miners over stratum, and what  *)
(* comes of the headers they return: shares, pseudoshares, and the counts  *)
(* of stale shares that the next jobs announce.                            *)
(*                                                                         *)
(* A header is told by its job and its hash, a small number, and meets the *)
(* targets not below it. The tracker is a Chain; which head is the best is *)
(* left open. Left out: merged mining, addresses, rates and their statistics,  *)
(* and the getwork interface, which is GetWork's.                          *)
(***************************************************************************)
EXTENDS Chain, ParentChain

CONSTANTS CHAIN_LENGTH,
          Session,                    \* slots for stratum connections
          MAX_STRATUM_CONNECTIONS, MAX_STRATUM_SETUP_CALLS, MAX_ACTIVE_STRATUM_JOBS,
          MaxSiblings,                \* the 4 dead shares on one parent that are kept
          Hashes,                     \* the hashes headers have
          share_target,               \* the target a job proposes for pseudoshares, unless its share's is easier
          Targets,                    \* those the difficulty of a session may be adjusted to
          Wishes,                     \* the targets a user may fix in its name
          TxChoices,                  \* whether the daemon's work has transactions
          Bounds                      \* bounds, of which a behaviour goes by one: the blocks that come, the
                                      \* targets of shares, the shares and jobs made, the shares told of,
                                      \* and the events of new work

ASSUME WorkAssumption ==
  /\ CHAIN_LENGTH \in Nat \ {0} /\ {Keep, MaxShares} \subseteq Nat /\ CHAIN_LENGTH + 1 < Keep
  /\ IsFiniteSet(Session)
  /\ share_target \in Nat \ {0}
  /\ Targets \cup Wishes \subseteq Hashes /\ Hashes \subseteq Nat \ {0}
  /\ TxChoices \subseteq BOOLEAN /\ \A b \in Bounds : b.blocks \subseteq Block /\ b.targets \subseteq Nat \ {0}

no_wish == 0     \* None: no target is 0

VARIABLES bound,             \* one of Bounds
          best_share,        \* node.best_share_var
          times,             \* new_work_event.times
          job,               \* every job made: what it is built on and what came of it
          session,           \* the sessions
          active_connections,
          my_share_hashes, my_doa_share_hashes,
          removed_unstales,  \* of them those removed at the end of the chain, and what they announced
          removed_doa,       \* removed_doa_unstales_var
          unseen,            \* those of my_doa_share_hashes that tracker_view has summed as not dead
          shares_received,   \* the shares share_received has told of, in turn
          unrecorded,        \* those taken from a header above its session's target
          raised             \* those tracker.add was given when it had them

bridgeVars == <<share, items, best_share, times, job, my_share_hashes, my_doa_share_hashes,
                removed_unstales, removed_doa, unseen, shares_received, unrecorded, raised>>
workVars == <<bound, parentVars, bridgeVars, session, active_connections>>

Closed == [open |-> FALSE, losing |-> FALSE, queued |-> FALSE, setup_calls |-> 0, wish |-> no_wish,
           fixed |-> FALSE, target |-> no_wish, jobs |-> <<>>, sent |-> 0]

-----------------------------------------------------------------------------
\* Stale shares.

OnChain(h) == Sq!ToSet(Path(h))
\* is_child_of(h, best), for a share of the tracker.
IsUnder(h, best) == h \in OnChain(best)

\* The part of the counts that is of the chain in the tracker (tracker_view). What the view has
\* summed of a share it keeps, for the shares after it too when the share itself is gone.
Announcing(S, kind) == {h \in S : share[h].stale_info = kind}
delta(best) ==
  LET mine == OnChain(best) \cap my_share_hashes
  IN [mine |-> Cardinality(mine),
      doa |-> Cardinality(OnChain(best) \cap my_doa_share_hashes)
              - Cardinality(Sq!ToSet(FullPath(best)) \cap unseen),
      orphan_announce |-> Cardinality(Announcing(mine, "orphan")),
      dead_announce |-> Cardinality(Announcing(mine, "doa"))]

get_stale_counts ==
  LET d == delta(best_share)
      lost == Cardinality(my_share_hashes) - (d.mine + removed_unstales.all)
      dead == Cardinality(my_doa_share_hashes) - (d.doa + removed_doa)
  IN [orphans |-> lost - dead, doas |-> dead,
      orphans_recorded |-> d.orphan_announce + removed_unstales.orphan,
      doas_recorded |-> d.dead_announce + removed_unstales.doa]

stale_info ==
  LET c == get_stale_counts IN
  IF c.orphans > c.orphans_recorded THEN "orphan"
  ELSE IF c.doas > c.doas_recorded THEN "doa" ELSE "none"

\* Mutant: shares off the best chain are counted too.
CountRemovedAll(S) ==
  LET mine == S \cap my_share_hashes
  IN /\ removed_unstales' =
          [all |-> removed_unstales.all + Cardinality(mine),
           orphan |-> removed_unstales.orphan + Cardinality(Announcing(mine, "orphan")),
           doa |-> removed_unstales.doa + Cardinality(Announcing(mine, "doa"))]
     /\ removed_doa' = removed_doa + Cardinality(S \cap my_doa_share_hashes)

\* The watcher of tracker.verified.removed, for the shares of S.
CountRemoved(S) ==
  LET mine == {h \in S \cap my_share_hashes : IsUnder(h, best_share)}
  IN /\ removed_unstales' =
          [all |-> removed_unstales.all + Cardinality(mine),
           orphan |-> removed_unstales.orphan + Cardinality(Announcing(mine, "orphan")),
           doa |-> removed_unstales.doa + Cardinality(Announcing(mine, "doa"))]
     /\ removed_doa' = removed_doa
          + Cardinality({h \in S \cap my_doa_share_hashes : IsUnder(h, best_share)})

-----------------------------------------------------------------------------
\* Events.

Queue(ss) == [s \in Session |-> IF ss[s].open THEN [ss[s] EXCEPT !.queued = TRUE] ELSE ss[s]]

\* new_work_event.happened n times, ss being the sessions otherwise; every one queues a send.
Happened(n, ss) ==
  /\ times + n <= bound.times
  /\ times' = times + n
  /\ session' = IF n > 0 THEN Queue(ss) ELSE ss

\* The shares that can be verified (attempt_verify).
Judgeable(h) == get_height(h) >= CHAIN_LENGTH + 1 \/ get_last(h) = None

\* set_best_share, once share' and items' are known: some head is the best, or the same share.
set_best_share ==
  best_share' \in {h \in Heads(items) : Judgeable(h)}' \cup ({best_share} \cap (items' \cup {None}))

BestNews == IF best_share' # best_share THEN 1 ELSE 0
WorkNews == IF IsNews(current_work, current_work') THEN 1 ELSE 0

-----------------------------------------------------------------------------
\* The node.

\* The daemon's work: the node thinks again, and the bridge computes its work.
NodeGotWork(work) ==
  /\ GotWork(work)
  /\ UNCHANGED <<bound, share, items, job, active_connections, my_share_hashes, my_doa_share_hashes,
                 removed_unstales, removed_doa, unseen, shares_received, unrecorded, raised>>
  /\ set_best_share
  /\ Happened(BestNews + WorkNews, session)

\* A header, from a peer or the daemon.
NodeHeader(b) ==
  /\ PeerHeader(b) \/ PollAnswered(b)
  /\ Happened(WorkNews, session)
  /\ UNCHANGED <<bound, share, items, best_share, job, active_connections, my_share_hashes,
                 my_doa_share_hashes, removed_unstales, removed_doa, unseen, shares_received, unrecorded,
                 raised>>

\* A share of another node.
PeerShare(previous) ==
  /\ Len(share) < bound.shares
  /\ IF share = <<>> THEN previous = None ELSE previous \in items /\ Judgeable(previous)
  /\ share' = Append(share, [previous |-> previous, job |-> 0, hash |-> 0, stale_info |-> "none"])
  /\ items' = items \cup {Len(share) + 1}
  /\ set_best_share
  /\ Happened(BestNews, session)
  /\ UNCHANGED <<bound, parentVars, job, active_connections, my_share_hashes, my_doa_share_hashes,
                 removed_unstales, removed_doa, unseen, shares_received, unrecorded, raised>>

\* clean_tracker takes out the shares of S.
TakeOut(S) ==
  /\ S # {}
  /\ CountRemoved(S)
  /\ items' = items \ S
  /\ UNCHANGED share
  /\ set_best_share
  /\ Happened(BestNews, session)
  /\ UNCHANGED <<bound, parentVars, job, active_connections, my_share_hashes, my_doa_share_hashes,
                 shares_received, unrecorded, raised>>

\* The best share is among the heads it keeps.
DropHead == \E h \in Heads(items) \ {best_share} : TakeOut({h}) /\ unseen' = unseen \ {h}

\* No fork is as long as what the tracker keeps, and the best share is never as far behind.
DropTails ==
  LET gone == items \ Pruned
  IN /\ \A h \in Heads(items) \cup {best_share} : gone \subseteq OnChain(h)
     /\ TakeOut(gone)
     /\ UNCHANGED unseen

-----------------------------------------------------------------------------
\* Stratum sessions.

Connect(s) ==
  /\ ~session[s].open
  /\ active_connections < MAX_STRATUM_CONNECTIONS
  /\ active_connections' = active_connections + 1
  /\ session' = [session EXCEPT ![s] = [Closed EXCEPT !.open = TRUE]]
  /\ UNCHANGED <<bound, parentVars, bridgeVars>>

\* Mutant: a connection stays counted where the setup calls were too many.
DisconnectCounted(s) ==
  /\ session[s].open
  /\ active_connections' = IF session[s].losing THEN active_connections ELSE active_connections - 1
  /\ session' = [session EXCEPT ![s] = Closed]
  /\ UNCHANGED <<bound, parentVars, bridgeVars>>

\* connectionLost.
Disconnect(s) ==
  /\ session[s].open
  /\ active_connections' = active_connections - 1
  /\ session' = [session EXCEPT ![s] = Closed]
  /\ UNCHANGED <<bound, parentVars, bridgeVars>>

\* _allow_setup_call and what the call does then. Once the connection is being closed, no more is
\* read from it.
SetupCall(s, allowed) ==
  LET n == session[s].setup_calls + 1
      counted == [session[s] EXCEPT !.setup_calls = n]
  IN /\ session[s].open /\ ~session[s].losing
     /\ session' = [session EXCEPT ![s] =
                      IF n <= MAX_STRATUM_SETUP_CALLS THEN allowed ELSE [counted EXCEPT !.losing = TRUE]]
     /\ UNCHANGED <<bound, parentVars, bridgeVars, active_connections>>

rpc_subscribe(s) ==
  SetupCall(s, [session[s] EXCEPT !.setup_calls = @ + 1, !.queued = TRUE])
rpc_authorize(s, wish) ==
  SetupCall(s, [session[s] EXCEPT !.setup_calls = @ + 1, !.queued = TRUE, !.wish = wish])
rpc_configure(s) ==
  SetupCall(s, [session[s] EXCEPT !.setup_calls = @ + 1])

\* get_work raises: the node has no share or no peers.
SendFails(s) ==
  /\ session[s].queued
  /\ session' = [session EXCEPT ![s].queued = FALSE, ![s].losing = TRUE]
  /\ UNCHANGED <<bound, parentVars, bridgeVars, active_connections>>

larger(x, y) == IF x > y THEN x ELSE y

\* The target a session goes by once it is sent a job whose shares have the target min_share_target.
\* Block targets are below all others.
NextTarget(p, min_share_target) ==
  IF p.wish # no_wish THEN p.wish
  ELSE larger(min_share_target, IF p.target = no_wish THEN share_target ELSE p.target)

\* handler_map has its limit of jobs; the one asked for longest ago goes.
Kept(jobs) == IF Len(jobs) > MAX_ACTIVE_STRATUM_JOBS THEN Tail(jobs) ELSE jobs

\* _run_queued_send_work: get_work and its job. The target of its share is the job's own: it goes
\* with the rates, the payouts and the target that the miner's name asks for.
SendWork(s) ==
  LET p == session[s]
      new(target) ==
        [previous |-> best_share, on |-> current_work.on, txs |-> current_work.txs, times |-> times,
         stale_info |-> stale_info, min_share_target |-> target, received |-> {}]
  IN /\ p.queued /\ Len(job) < bound.jobs
     /\ \E target \in bound.targets :
          /\ job' = Append(job, new(target))
          /\ session' = [session EXCEPT ![s] =
                           [p EXCEPT !.queued = FALSE, !.fixed = p.wish # no_wish,
                                     !.target = NextTarget(p, target), !.sent = Len(job) + 1,
                                     !.jobs = Kept(Append(@, Len(job) + 1))]]
     /\ UNCHANGED <<bound, parentVars, share, items, best_share, times, active_connections, my_share_hashes,
                    my_doa_share_hashes, removed_unstales, removed_doa, unseen, shares_received, unrecorded,
                    raised>>

\* handler_map[j] touches the job: it has its whole life again.
Touched(jobs, j) == Append(Sq!RemoveAt(jobs, CHOOSE i \in DOMAIN jobs : jobs[i] = j), j)
Asked(s, j) == [session[s] EXCEPT !.jobs = Touched(@, j)]

\* A job was not asked for in time.
JobExpires(s) ==
  /\ session[s].jobs # <<>>
  /\ session' = [session EXCEPT ![s].jobs = Tail(@)]
  /\ UNCHANGED <<bound, parentVars, bridgeVars, active_connections>>

-----------------------------------------------------------------------------
\* A header is returned.

on_time(j) == job[j].times = times

\* The share a header stands for: one there is, or the next.
ShareOf(j, p) ==
  LET is == {h \in DOMAIN share : share[h].job = j /\ share[h].hash = p}
  IN IF is = {} THEN Len(share) + 1 ELSE CHOOSE h \in is : TRUE

Siblings(previous) == {h \in items : share[h].previous = previous}

\* Mutant: a header whose hash is the target is none of its pseudoshares.
IsPseudoshareBelow(j, p, target) == p < target /\ p \notin job[j].received

\* Whether a header is taken as a share; and as a pseudoshare, for a session's target.
IsShare(j, p) == p <= job[j].min_share_target /\ p \notin job[j].received
IsPseudoshare(j, p, target) == p <= target /\ p \notin job[j].received

\* Whether the share is put in the tracker, where few dead ones are wanted.
Wanted(j) == on_time(j) \/ Cardinality(Siblings(job[j].previous)) < MaxSiblings

\* got_response up to tracker.add: the share is this node's. Where it was already, and alive, the
\* view has summed it by now or has not: main.py and web.py ask it for the counts at any time.
Found(j, p) ==
  LET h == ShareOf(j, p) IN
  /\ h <= bound.shares
  /\ share' = IF h \in DOMAIN share THEN share
              ELSE Append(share, [previous |-> job[j].previous, job |-> j, hash |-> p,
                                  stale_info |-> job[j].stale_info])
  /\ my_share_hashes' = my_share_hashes \cup {h}
  /\ my_doa_share_hashes' = my_doa_share_hashes \cup (IF on_time(j) THEN {} ELSE {h})
  /\ \/ UNCHANGED unseen
     \/ ~on_time(j) /\ h \in items \ my_doa_share_hashes /\ unseen' = unseen \cup {h}

\* The pseudoshare part, and the difficulty, which is adjusted or not and then work is sent again.
\* The new target is not below that of the job answered; of the other jobs' nothing is asked.
Answered(s, j, p, n) ==
  LET q == Asked(s, j)
      adjusted == {[q EXCEPT !.target = larger(job[j].min_share_target, t), !.queued = TRUE] : t \in Targets}
  IN /\ job' = IF IsPseudoshare(j, p, q.target)
               THEN [job EXCEPT ![j].received = @ \cup {p}] ELSE job
     /\ \E next \in {q} \cup (IF q.fixed THEN {} ELSE adjusted) :
          Happened(n, [session EXCEPT ![s] = next])

\* tracker.add raises, and nothing more is done.
Raised(s, j, p) ==
  /\ raised' = raised \cup {ShareOf(j, p)}
  /\ session' = [session EXCEPT ![s] = Asked(s, j)]
  /\ UNCHANGED <<items, best_share, times, job, shares_received, unrecorded>>

\* The share is added or left, and the rest follows.
Taken(s, j, p) ==
  /\ items' = items \cup (IF Wanted(j) THEN {ShareOf(j, p)} ELSE {})
  /\ IF on_time(j) THEN set_best_share ELSE UNCHANGED best_share
  /\ Len(shares_received) < bound.told
  /\ shares_received' = Append(shares_received, ShareOf(j, p))
  /\ unrecorded' = unrecorded \cup (IF p <= session[s].target THEN {} ELSE {ShareOf(j, p)})
  /\ Answered(s, j, p, BestNews)
  /\ UNCHANGED raised

AsShare(s, j, p) ==
  /\ IsShare(j, p)
  /\ Found(j, p)
  /\ IF Wanted(j) /\ ShareOf(j, p) \in items THEN Raised(s, j, p) ELSE Taken(s, j, p)
  /\ UNCHANGED <<bound, parentVars, active_connections, removed_unstales, removed_doa>>

AsPseudoshare(s, j, p) ==
  /\ ~IsShare(j, p)
  /\ UNCHANGED best_share
  /\ Answered(s, j, p, 0)
  /\ UNCHANGED <<bound, parentVars, share, items, active_connections, my_share_hashes, my_doa_share_hashes,
                 removed_unstales, removed_doa, unseen, shares_received, unrecorded, raised>>

\* rpc_submit: a header of a job the session has.
rpc_submit(s, j, p) ==
  /\ session[s].open /\ ~session[s].losing
  /\ j \in Sq!ToSet(session[s].jobs)
  /\ AsShare(s, j, p) \/ AsPseudoshare(s, j, p)

-----------------------------------------------------------------------------
WorkInit ==
  /\ ParentInit
  /\ bound \in Bounds /\ (bound.blocks = {} => best_block_header = genesis)
  /\ share = <<>> /\ items = {} /\ best_share = None /\ times = 0 /\ job = <<>>
  /\ session = [s \in Session |-> Closed] /\ active_connections = 0
  /\ my_share_hashes = {} /\ my_doa_share_hashes = {}
  /\ removed_unstales = [all |-> 0, orphan |-> 0, doa |-> 0] /\ removed_doa = 0
  /\ unseen = {} /\ shares_received = <<>> /\ unrecorded = {} /\ raised = {}

WorkNext ==
  \/ \E b \in bound.blocks, txs \in TxChoices : NodeGotWork([on |-> b, txs |-> txs])
  \/ \E b \in bound.blocks : NodeHeader(b)
  \/ \E h \in items \cup {None} : PeerShare(h)
  \/ DropHead \/ DropTails
  \/ \E s \in Session :
       \/ Connect(s) \/ Disconnect(s)
       \/ rpc_subscribe(s) \/ rpc_configure(s) \/ \E wish \in Wishes \cup {no_wish} : rpc_authorize(s, wish)
       \/ SendWork(s) \/ SendFails(s) \/ JobExpires(s)
       \/ \E j \in DOMAIN job, p \in Hashes : rpc_submit(s, j, p)

WorkSpec == WorkInit /\ [][WorkNext]_workVars

-----------------------------------------------------------------------------
WorkTypeOK ==
  /\ items \subseteq DOMAIN share /\ best_share \in items \cup {None}
  /\ bitcoind_work \in Work /\ current_work \in Work /\ best_block_header \in Block \cup {no_header}
  /\ my_doa_share_hashes \subseteq my_share_hashes /\ my_share_hashes \subseteq DOMAIN share
  /\ active_connections = Cardinality({s \in Session : session[s].open})
  /\ \A s \in Session : ~session[s].open => session[s] = Closed

\* A share counted as on time was built on the best share and the parent work of its moment, and
\* not without transactions when there are some; and the last job a session was sent is one of
\* these, unless another is queued: no change is missed.
JobsCurrent ==
  /\ \A j \in DOMAIN job : on_time(j) =>
       /\ job[j].previous = best_share /\ job[j].on = current_work.on
       /\ current_work.txs => job[j].txs
  /\ \A s \in Session :
       session[s].sent # 0 /\ ~session[s].queued /\ ~session[s].losing => on_time(session[s].sent)

\* forest.py:265 "item already present": a header is taken as a share once, counted once and
\* added once, though a miner may return it again, in time or late.
TakenOnce ==
  /\ raised = {}
  /\ \A i, k \in DOMAIN shares_received : shares_received[i] = shares_received[k] => i = k

\* The one way a header is taken again: when it was taken before, it was below the target of its
\* job's shares and above its session's, be it that the user fixed that one, that an easier job is
\* answered late, or that the target was lowered after another job. Every other header is taken
\* once, however often and by whatever changes of work and of targets it is returned.
\* (work.py:554 against 599-606.)
TakenAgain ==
  /\ raised \subseteq unrecorded
  /\ \A i, k \in DOMAIN shares_received :
       shares_received[i] = shares_received[k] /\ i # k => shares_received[i] \in unrecorded

\* get_stale_counts tells, of the shares this node made, how many are off the best chain, dead on
\* arrival or not, though much of the chain has been removed; and the chain never announces more
\* of them than there are. Unless some header was taken again: a share that comes again late is
\* one of the dead ones then, though it is in the chain and tracker_view may have summed it alive.
\* And unless a dead share began a chain of its own: its job is of a time with no shares, and a
\* miner who goes on with that job until the first shares are removed adds a chain that what was
\* removed is not part of.
StaleExact ==
  TakenOnce /\ (\A h \in my_doa_share_hashes : share[h].previous # None) =>
  LET off == my_share_hashes \ Sq!ToSet(FullPath(best_share))
      on == my_share_hashes \cap Sq!ToSet(FullPath(best_share))
      c == get_stale_counts
  IN /\ c = [orphans |-> Cardinality(off \ my_doa_share_hashes),
             doas |-> Cardinality(off \cap my_doa_share_hashes),
             orphans_recorded |-> Cardinality(Announcing(on, "orphan")),
             doas_recorded |-> Cardinality(Announcing(on, "doa"))]
     /\ c.orphans_recorded <= c.orphans /\ c.doas_recorded <= c.doas
=============================================================================
