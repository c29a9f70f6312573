-------------------------- MODULE WorkRequestsProofs --------------------------
(* Proofs about the parent chain, the bridge and its miners: which header a  *)
(* node settles on, for every tree of blocks and every order in which their  *)
(* headers are told of; that the bridge and its miners leave the parent chain*)
(* alone; the types of their own state, that a job counted as on time is     *)
(* current, which header may be taken again, and that the shares of this     *)
(* node that went stale are counted exactly. And about the requests a node   *)
(* sends over its connections: that each ends once, whatever races for it.   *)
EXTENDS Work, Requests, FoldLemmas, SequenceTheorems

\* The types of what is known, and what may never change but by compute_work.
ParentTypeOK ==
  /\ bitcoind_work \in Work
  /\ best_block_header \in Block \cup {no_header}

BestSettles ==
  bitcoind_work.on \notin header_polls /\ <<bitcoind_work.on, bitcoind_work.on>> \in PowMeets =>
    /\ best_block_header # no_header
    /\ best_block_header = bitcoind_work.on \/ previous_block[best_block_header] = bitcoind_work.on

WorkComputed == current_work = compute_work(bitcoind_work, best_block_header)

ParentInv == ParentTypeOK /\ BestSettles /\ WorkComputed

-----------------------------------------------------------------------------
\* compute_work gives work on the block of the daemon's work or on a child of that.
LEMMA ComputedOn ==
  ASSUME NEW work, NEW header
  PROVE  \/ compute_work(work, header).on = work.on
         \/ previous_block[compute_work(work, header).on] = work.on
  BY DEF compute_work

\* A block but the first is not its own parent.
LEMMA NotItsOwnParent ==
  ASSUME NEW b \in Block, b # genesis
  PROVE  previous_block[b] # b
  BY ParentChainAssumption

\* Whatever header is told of, the best one stays with the daemon's block once it is there.
LEMMA BestKept ==
  ASSUME ParentTypeOK, NEW new \in Block,
         best_block_header # no_header,
         best_block_header = bitcoind_work.on \/ previous_block[best_block_header] = bitcoind_work.on
  PROVE  /\ handle_header(new) # no_header
         /\ handle_header(new) = bitcoind_work.on \/ previous_block[handle_header(new)] = bitcoind_work.on
  BY ParentChainAssumption DEF handle_header, ParentTypeOK, Work

\* The header of the daemon's own block settles it, when its hash is low enough.
LEMMA OwnHeader ==
  ASSUME ParentTypeOK, <<bitcoind_work.on, bitcoind_work.on>> \in PowMeets
  PROVE  /\ handle_header(bitcoind_work.on) # no_header
         /\ \/ handle_header(bitcoind_work.on) = bitcoind_work.on
            \/ previous_block[handle_header(bitcoind_work.on)] = bitcoind_work.on
  <1>1. bitcoind_work.on \in Block
    BY DEF ParentTypeOK, Work
  <1>2. CASE best_block_header = no_header
    BY <1>1, <1>2, ParentChainAssumption DEF handle_header
  <1>3. CASE best_block_header # no_header
    BY <1>1, <1>3, ParentChainAssumption DEF handle_header, ParentTypeOK
  <1> QED BY <1>2, <1>3

\* handle_header returns a header or keeps there being none.
LEMMA HeaderType ==
  ASSUME ParentTypeOK, NEW new \in Block
  PROVE  handle_header(new) \in Block \cup {no_header}
  BY DEF handle_header, ParentTypeOK

-----------------------------------------------------------------------------
LEMMA InvInit == ParentInit => ParentInv
  <1> SUFFICES ASSUME ParentInit PROVE ParentInv
    OBVIOUS
  <1>1. bitcoind_work.on = genesis /\ bitcoind_work \in Work
    BY ParentChainAssumption DEF ParentInit, Work
  <1>2. ParentTypeOK
    BY <1>1, ParentChainAssumption DEF ParentInit, ParentTypeOK
  <1>3. BestSettles
    BY <1>1, ParentChainAssumption DEF ParentInit, BestSettles
  <1>4. WorkComputed
    BY DEF ParentInit, WorkComputed
  <1> QED BY <1>2, <1>3, <1>4 DEF ParentInv

\* The daemon's new work is asked about at once, so nothing is claimed of it yet.
LEMMA InvGotWork ==
  ASSUME ParentInv, NEW work \in Work, GotWork(work)
  PROVE  ParentInv'
  <1>1. ParentTypeOK'
    BY DEF ParentInv, ParentTypeOK, GotWork
  <1>2. BestSettles'
    BY DEF BestSettles, GotWork
  <1>3. WorkComputed'
    BY DEF WorkComputed, GotWork, compute_work
  <1> QED BY <1>1, <1>2, <1>3 DEF ParentInv

\* A header told of keeps the types and recomputes the work, whoever tells of it.
LEMMA ToldKeeps ==
  ASSUME ParentInv, NEW new \in Block, Told(new)
  PROVE  ParentTypeOK' /\ WorkComputed'
  <1>1. ParentTypeOK'
    BY HeaderType DEF ParentInv, ParentTypeOK, Told
  <1>2. WorkComputed'
    BY DEF WorkComputed, Told, compute_work
  <1> QED BY <1>1, <1>2

LEMMA InvPeerHeader ==
  ASSUME ParentInv, NEW new \in Block, PeerHeader(new)
  PROVE  ParentInv'
  <1>1. Told(new) /\ UNCHANGED header_polls
    BY DEF PeerHeader
  <1>2. ParentTypeOK' /\ WorkComputed'
    BY <1>1, ToldKeeps
  <1>3. BestSettles'
    BY <1>1, BestKept DEF ParentInv, BestSettles, Told
  <1> QED BY <1>2, <1>3 DEF ParentInv

LEMMA InvPollAnswered ==
  ASSUME ParentInv, NEW b \in Block, PollAnswered(b)
  PROVE  ParentInv'
  <1>1. Told(b) /\ header_polls' = header_polls \ {b}
    BY DEF PollAnswered
  <1>2. ParentTypeOK' /\ WorkComputed'
    BY <1>1, ToldKeeps
  <1>3. BestSettles'
    <2>1. CASE b = bitcoind_work.on
      BY <1>1, <2>1, OwnHeader DEF ParentInv, BestSettles, Told
    <2>2. CASE b # bitcoind_work.on
      BY <1>1, <2>2, BestKept DEF ParentInv, BestSettles, Told
    <2> QED BY <2>1, <2>2
  <1> QED BY <1>2, <1>3 DEF ParentInv

LEMMA InvNext == ParentInv /\ [ParentNext]_parentVars => ParentInv'
  <1> SUFFICES ASSUME ParentInv, [ParentNext]_parentVars PROVE ParentInv'
    OBVIOUS
  <1>1. ASSUME NEW work \in Work, GotWork(work) PROVE ParentInv'
    BY <1>1, InvGotWork
  <1>2. ASSUME NEW b \in Block, PeerHeader(b) PROVE ParentInv'
    BY <1>2, InvPeerHeader
  <1>3. ASSUME NEW b \in Block, PollAnswered(b) PROVE ParentInv'
    BY <1>3, InvPollAnswered
  <1>4. CASE UNCHANGED parentVars
    BY <1>4 DEF parentVars, ParentInv, ParentTypeOK, BestSettles, WorkComputed, compute_work
  <1> QED BY <1>1, <1>2, <1>3, <1>4 DEF ParentNext

LEMMA InvSettles == ParentInv => HeaderSettles
  BY ComputedOn DEF ParentInv, BestSettles, WorkComputed, HeaderSettles

-----------------------------------------------------------------------------
\* For every tree of blocks: once the daemon has answered for the block its work is on, the
\* best header is that block or a child of it, in whatever order peers and late answers tell
\* of headers; and miners always work on one of the two (node.py: handle_header).
THEOREM Settles == ParentSpec => []HeaderSettles
  <1>1. ParentSpec => []ParentInv
    BY InvInit, InvNext, PTL DEF ParentSpec
  <1> QED BY <1>1, InvSettles, PTL

-----------------------------------------------------------------------------
\* The actions that are about shares, sessions and jobs alone.
LEMMA ShareStepKeepsParent ==
  ASSUME \/ \E h \in items \cup {None} : PeerShare(h)
         \/ DropHead \/ DropTails
  PROVE  UNCHANGED parentVars
  BY DEF PeerShare, DropHead, DropTails, TakeOut

LEMMA SetupKeepsParent ==
  ASSUME NEW s \in Session,
         \/ rpc_subscribe(s) \/ rpc_configure(s) \/ \E wish \in Wishes \cup {no_wish} : rpc_authorize(s, wish)
  PROVE  UNCHANGED parentVars
  BY DEF rpc_subscribe, rpc_configure, rpc_authorize, SetupCall

LEMMA SubmitKeepsParent ==
  ASSUME NEW s \in Session, NEW j \in DOMAIN job, NEW p \in Hashes, rpc_submit(s, j, p)
  PROVE  UNCHANGED parentVars
  BY DEF rpc_submit, AsShare, AsPseudoshare

LEMMA SessionStepKeepsParent ==
  ASSUME NEW s \in Session,
         \/ Connect(s) \/ Disconnect(s)
         \/ SendWork(s) \/ SendFails(s) \/ JobExpires(s)
  PROVE  UNCHANGED parentVars
  BY DEF Connect, Disconnect, SendWork, SendFails, JobExpires

\* What the node hears of the parent chain is a step of ParentChain.
LEMMA NodeStepIsParentStep ==
  ASSUME WorkAssumption, bound \in Bounds,
         \/ \E b \in bound.blocks, txs \in TxChoices : NodeGotWork([on |-> b, txs |-> txs])
         \/ \E b \in bound.blocks : NodeHeader(b)
  PROVE  ParentNext
  <1>1. bound.blocks \subseteq Block
    BY DEF WorkAssumption
  <1>2. ASSUME NEW b \in bound.blocks, NEW txs \in TxChoices, NodeGotWork([on |-> b, txs |-> txs])
        PROVE  ParentNext
    <2>1. [on |-> b, txs |-> txs] \in Work
      BY <1>1 DEF Work, WorkAssumption
    <2>2. GotWork([on |-> b, txs |-> txs])
      BY <1>2 DEF NodeGotWork
    <2> QED BY <2>1, <2>2 DEF ParentNext
  <1>3. ASSUME NEW b \in bound.blocks, NodeHeader(b) PROVE ParentNext
    BY <1>1, <1>3 DEF NodeHeader, ParentNext
  <1> QED BY <1>2, <1>3

LEMMA StepIsParentStep ==
  ASSUME bound \in Bounds, [WorkNext]_workVars
  PROVE  [ParentNext]_parentVars /\ (bound \in Bounds)'
  <1>1. CASE \/ \E b \in bound.blocks, txs \in TxChoices : NodeGotWork([on |-> b, txs |-> txs])
             \/ \E b \in bound.blocks : NodeHeader(b)
    <2>1. ParentNext
      BY <1>1, WorkAssumption, NodeStepIsParentStep
    <2>2. bound' = bound
      BY <1>1 DEF NodeGotWork, NodeHeader
    <2> QED BY <2>1, <2>2
  <1>2. CASE \/ \E h \in items \cup {None} : PeerShare(h)
             \/ DropHead \/ DropTails
    <2>1. bound' = bound
      BY <1>2 DEF PeerShare, DropHead, DropTails, TakeOut
    <2> QED BY <1>2, <2>1, ShareStepKeepsParent
  <1>3. ASSUME NEW s \in Session,
               \/ Connect(s) \/ Disconnect(s)
               \/ rpc_subscribe(s) \/ rpc_configure(s) \/ \E wish \in Wishes \cup {no_wish} : rpc_authorize(s, wish)
               \/ SendWork(s) \/ SendFails(s) \/ JobExpires(s)
               \/ \E j \in DOMAIN job, p \in Hashes : rpc_submit(s, j, p)
        PROVE  UNCHANGED parentVars /\ bound' = bound
    <2>1. UNCHANGED parentVars
      BY <1>3, SetupKeepsParent, SubmitKeepsParent, SessionStepKeepsParent
    <2>2. bound' = bound
      BY <1>3 DEF Connect, Disconnect, rpc_subscribe, rpc_configure, rpc_authorize, SetupCall,
                  SendWork, SendFails, JobExpires, rpc_submit, AsShare, AsPseudoshare
    <2> QED BY <2>1, <2>2
  <1>4. CASE UNCHANGED workVars
    BY <1>4 DEF workVars, parentVars
  <1> QED BY <1>1, <1>2, <1>3, <1>4 DEF WorkNext

\* Every behaviour of the node, its bridge and its miners is one of ParentChain: no share, no
\* miner and no job changes what is known of the parent chain (work.py:127-152, node.py:228-297).
THEOREM ImplementsParent == WorkSpec => ParentSpec
  <1>1. WorkInit => ParentInit /\ bound \in Bounds
    BY DEF WorkInit
  <1>2. bound \in Bounds /\ [WorkNext]_workVars => [ParentNext]_parentVars /\ (bound \in Bounds)'
    BY StepIsParentStep
  <1> QED BY <1>1, <1>2, PTL DEF WorkSpec, ParentSpec

\* So the header a node settles on is settled whatever its miners do, for any tree of blocks and
\* any number of shares, sessions and jobs (node.py:258-272).
THEOREM WorkSettles == WorkSpec => []HeaderSettles
  BY ImplementsParent, Settles, PTL

-----------------------------------------------------------------------------
Stale == {"none", "orphan", "doa"}
JobRecord == [previous : Nat, on : Block, txs : BOOLEAN, times : Nat, stale_info : Stale,
              min_share_target : Nat, received : SUBSET Hashes]
ShareRecord == [previous : Nat, job : Nat, hash : Nat, stale_info : Stale]
SessionRecord == [open : BOOLEAN, losing : BOOLEAN, queued : BOOLEAN, setup_calls : Nat,
                  wish : Wishes \cup {no_wish}, fixed : BOOLEAN, target : Nat, jobs : Seq(Nat), sent : Nat]

\* The shapes of shares, jobs and sessions.
Shapes ==
  /\ share \in Seq(ShareRecord) /\ job \in Seq(JobRecord) /\ times \in Nat
  /\ session \in [Session -> SessionRecord]

\* What is known of shares refers to shares there are.
SharesKnown ==
  /\ items \subseteq DOMAIN share /\ best_share \in items \cup {None}
  /\ my_doa_share_hashes \subseteq my_share_hashes /\ my_share_hashes \subseteq DOMAIN share

\* A slot that is not in use is as new, and those in use are counted.
SlotsCounted ==
  /\ active_connections = Cardinality({s \in Session : session[s].open})
  /\ \A s \in Session : ~session[s].open => session[s] = Closed

-----------------------------------------------------------------------------
\* Shapes: what each part of a step keeps.

LEMMA TargetsAreNat ==
  /\ share_target \in Nat /\ \A b \in Bounds : b.targets \subseteq Nat
  /\ Hashes \subseteq Nat /\ Targets \subseteq Nat /\ Wishes \subseteq Nat
  BY WorkAssumption

LEMMA JobIsRecord ==
  ASSUME Shapes, NEW j \in DOMAIN job
  PROVE  j \in 1 .. Len(job) /\ job \in Seq(JobRecord) /\ job[j] \in JobRecord
  <1>1. j \in 1 .. Len(job) /\ job \in Seq(JobRecord)
    BY DEF Shapes
  <1> QED BY <1>1, ElementOfSeq

LEMMA ClosedShape == Closed \in SessionRecord /\ Closed.jobs = <<>> /\ Closed.sent = 0 /\ ~Closed.open
  BY DEF Closed, SessionRecord, no_wish

LEMMA BestIsThere ==
  ASSUME set_best_share
  PROVE  best_share' \in items' \cup {None}
  BY DEF set_best_share, Heads

LEMMA NewsIsNat == BestNews \in {0, 1} /\ WorkNews \in {0, 1}
  BY DEF BestNews, WorkNews

\* An event queues a send for every open session, and changes nothing else of it.
LEMMA HappenedKeeps ==
  ASSUME NEW n \in Nat, NEW ss \in [Session -> SessionRecord], times \in Nat, Happened(n, ss)
  PROVE  /\ times' = times + n
         /\ session' \in [Session -> SessionRecord]
         /\ n = 0 => session' = ss
         /\ \A s \in Session :
              /\ (session'[s].open <=> ss[s].open) /\ (session'[s].losing <=> ss[s].losing)
              /\ session'[s].target = ss[s].target /\ session'[s].jobs = ss[s].jobs
              /\ session'[s].sent = ss[s].sent
              /\ ~ss[s].open => session'[s] = ss[s]
              /\ n > 0 /\ ss[s].open => session'[s].queued
  <1>1. CASE n = 0
    BY <1>1 DEF Happened
  <1>2. CASE n > 0
    <2>1. times' = times + n /\ session' = Queue(ss)
      BY <1>2 DEF Happened
    <2>2. ASSUME NEW s \in Session
          PROVE  /\ session'[s] \in SessionRecord
                 /\ (session'[s].open <=> ss[s].open) /\ (session'[s].losing <=> ss[s].losing)
                 /\ session'[s].target = ss[s].target /\ session'[s].jobs = ss[s].jobs
                 /\ session'[s].sent = ss[s].sent
                 /\ ~ss[s].open => session'[s] = ss[s]
                 /\ ss[s].open => session'[s].queued
      <3>1. session'[s] = IF ss[s].open THEN [ss[s] EXCEPT !.queued = TRUE] ELSE ss[s]
        BY <2>1 DEF Queue
      <3>2. ss[s] \in SessionRecord
        OBVIOUS
      <3> QED BY <3>1, <3>2 DEF SessionRecord
    <2>3. session' \in [Session -> SessionRecord]
      BY <2>1, <2>2 DEF Queue
    <2> QED BY <1>2, <2>1, <2>2, <2>3
  <1> QED BY <1>1, <1>2

LEMMA StaleInfoType == stale_info \in Stale
  BY DEF stale_info, Stale

LEMMA NextTargetType ==
  ASSUME NEW p \in SessionRecord, NEW target \in Nat
  PROVE  NextTarget(p, target) \in Nat
  BY WorkAssumption DEF NextTarget, SessionRecord, larger, no_wish

\* A list of jobs after one more has come and one too many has gone, and after one was asked for.
LEMMA KeptJobs ==
  ASSUME NEW jobs \in Seq(Nat), NEW j \in Nat
  PROVE  Kept(Append(jobs, j)) \in Seq(Nat)
  <1>1. /\ Append(jobs, j) \in Seq(Nat) /\ Len(Append(jobs, j)) = Len(jobs) + 1
        /\ Len(jobs) + 1 # 0
    OBVIOUS
  <1>2. Tail(Append(jobs, j)) \in Seq(Nat)
    BY <1>1
  <1> QED BY <1>1, <1>2 DEF Kept

LEMMA TouchedJobs ==
  ASSUME NEW jobs \in Seq(Nat), NEW j \in Nat, j \in Sq!ToSet(jobs)
  PROVE  Touched(jobs, j) \in Seq(Nat)
  <1>1. PICK i : i = CHOOSE k \in DOMAIN jobs : jobs[k] = j
    OBVIOUS
  <1>2. \E k \in DOMAIN jobs : jobs[k] = j
    BY DEF Sq!ToSet
  <1>3. i \in 1 .. Len(jobs)
    BY <1>1, <1>2
  <1>4. SubSeq(jobs, 1, i - 1) \in Seq(Nat) /\ SubSeq(jobs, i + 1, Len(jobs)) \in Seq(Nat)
    BY <1>3
  <1>5. Sq!RemoveAt(jobs, i) \in Seq(Nat)
    BY <1>4 DEF Sq!RemoveAt
  <1>6. Append(Sq!RemoveAt(jobs, i), j) \in Seq(Nat)
    BY <1>5
  <1> QED BY <1>1, <1>6 DEF Touched

-----------------------------------------------------------------------------
\* The types, action by action.

TypesHold == Shapes /\ SharesKnown /\ SlotsCounted

LEMMA EventTypes ==
  ASSUME TypesHold, NEW n \in Nat, Happened(n, session), UNCHANGED active_connections
  PROVE  /\ times' \in Nat /\ session' \in [Session -> SessionRecord]
         /\ SlotsCounted'
  <1>1. times' \in Nat /\ session' \in [Session -> SessionRecord]
    BY HappenedKeeps DEF TypesHold, Shapes
  <1>2. ASSUME NEW s \in Session
        PROVE  /\ session'[s].open <=> session[s].open
               /\ ~session[s].open => session'[s] = session[s]
    BY HappenedKeeps DEF TypesHold, Shapes
  <1>3. {s \in Session : session'[s].open} = {s \in Session : session[s].open}
    BY <1>2
  <1>4. ASSUME NEW s \in Session, ~session'[s].open PROVE session'[s] = Closed
    BY <1>2, <1>4 DEF TypesHold, SlotsCounted
  <1>5. SlotsCounted'
    BY <1>3, <1>4 DEF TypesHold, SlotsCounted, Closed
  <1> QED BY <1>1, <1>5

\* What the node hears and drops: a share comes, shares go, the best share changes.
LEMMA NodeGotWorkTypes ==
  ASSUME TypesHold, NEW work, NodeGotWork(work)
  PROVE  TypesHold'
  <1>1. BestNews + WorkNews \in Nat /\ Happened(BestNews + WorkNews, session)
    BY NewsIsNat DEF NodeGotWork
  <1>2. /\ times' \in Nat /\ session' \in [Session -> SessionRecord]
        /\ SlotsCounted'
    BY <1>1, EventTypes DEF NodeGotWork
  <1>3. Shapes'
    BY <1>2 DEF TypesHold, Shapes, NodeGotWork
  <1>4. SharesKnown'
    BY BestIsThere DEF TypesHold, SharesKnown, NodeGotWork
  <1> QED BY <1>2, <1>3, <1>4 DEF TypesHold

LEMMA NodeHeaderTypes ==
  ASSUME TypesHold, NEW b, NodeHeader(b)
  PROVE  TypesHold'
  <1>1. WorkNews \in Nat /\ Happened(WorkNews, session)
    BY NewsIsNat DEF NodeHeader
  <1>2. /\ times' \in Nat /\ session' \in [Session -> SessionRecord]
        /\ SlotsCounted'
    BY <1>1, EventTypes DEF NodeHeader
  <1>3. Shapes' /\ SharesKnown'
    BY <1>2 DEF TypesHold, Shapes, SharesKnown, NodeHeader
  <1> QED BY <1>2, <1>3 DEF TypesHold

LEMMA PeerShareTypes ==
  ASSUME TypesHold, NEW previous \in items \cup {None}, PeerShare(previous)
  PROVE  TypesHold'
  <1> DEFINE new == [previous |-> previous, job |-> 0, hash |-> 0, stale_info |-> "none"]
  <1>1. /\ share' = Append(share, new) /\ items' = items \cup {Len(share) + 1}
        /\ UNCHANGED <<job, active_connections, my_share_hashes, my_doa_share_hashes>>
    BY DEF PeerShare
  <1>2. new \in ShareRecord
    BY DEF TypesHold, Shapes, SharesKnown, ShareRecord, Stale, None
  <1>3. share' \in Seq(ShareRecord) /\ DOMAIN share' = DOMAIN share \cup {Len(share) + 1}
    BY <1>1, <1>2 DEF TypesHold, Shapes
  <1>4. BestNews \in Nat /\ Happened(BestNews, session)
    BY NewsIsNat DEF PeerShare
  <1>5. /\ times' \in Nat /\ session' \in [Session -> SessionRecord]
        /\ SlotsCounted'
    BY <1>1, <1>4, EventTypes
  <1>6. best_share' \in items' \cup {None}
    BY BestIsThere DEF PeerShare
  <1>7. Shapes' /\ SharesKnown'
    BY <1>1, <1>3, <1>5, <1>6 DEF TypesHold, Shapes, SharesKnown
  <1> QED BY <1>5, <1>7 DEF TypesHold

LEMMA TakeOutTypes ==
  ASSUME TypesHold, NEW S, TakeOut(S)
  PROVE  TypesHold'
  <1>1. BestNews \in Nat /\ Happened(BestNews, session)
    BY NewsIsNat DEF TakeOut
  <1>2. /\ times' \in Nat /\ session' \in [Session -> SessionRecord]
        /\ SlotsCounted'
    BY <1>1, EventTypes DEF TakeOut
  <1>3. best_share' \in items' \cup {None}
    BY BestIsThere DEF TakeOut
  <1>4. Shapes' /\ SharesKnown'
    BY <1>2, <1>3 DEF TypesHold, Shapes, SharesKnown, TakeOut
  <1> QED BY <1>2, <1>4 DEF TypesHold

\* A step that changes one session only, and leaves it as open as it was.
LEMMA OneSessionTypes ==
  ASSUME TypesHold, NEW s \in Session, NEW new \in SessionRecord,
         session' = [session EXCEPT ![s] = new], new.open = session[s].open,
         session[s].open,
         UNCHANGED <<bridgeVars, active_connections>>
  PROVE  TypesHold'
  <1>1. session' \in [Session -> SessionRecord]
    BY DEF TypesHold, Shapes
  <1>2. {t \in Session : session'[t].open} = {t \in Session : session[t].open}
    BY DEF TypesHold, Shapes
  <1>3. SlotsCounted'
    BY <1>2 DEF TypesHold, Shapes, SlotsCounted
  <1>4. Shapes' /\ SharesKnown'
    BY <1>1 DEF TypesHold, Shapes, SharesKnown, bridgeVars
  <1> QED BY <1>3, <1>4 DEF TypesHold

LEMMA ConnectTypes ==
  ASSUME TypesHold, NEW s \in Session, Connect(s)
  PROVE  TypesHold'
  <1> DEFINE new == [Closed EXCEPT !.open = TRUE]
             Open == {t \in Session : session[t].open}
  <1>1. new \in SessionRecord /\ new.open
    BY ClosedShape DEF SessionRecord
  <1>2. session' = [session EXCEPT ![s] = new] /\ UNCHANGED bridgeVars
    BY DEF Connect
  <1>3. session' \in [Session -> SessionRecord]
    BY <1>1, <1>2 DEF TypesHold, Shapes
  <1>4. {t \in Session : session'[t].open} = Open \cup {s} /\ s \notin Open
    BY <1>1, <1>2 DEF TypesHold, Shapes, Connect
  <1>5. IsFiniteSet(Open)
    BY FS_Subset, WorkAssumption DEF WorkAssumption
  <1>6. Cardinality(Open \cup {s}) = Cardinality(Open) + 1
    BY <1>4, <1>5, FS_AddElement
  <1>7. active_connections' = Cardinality({t \in Session : session'[t].open})
    BY <1>4, <1>6 DEF TypesHold, SlotsCounted, Connect
  <1>8. ASSUME NEW t \in Session, ~session'[t].open PROVE session'[t] = Closed
    BY <1>1, <1>2, <1>8 DEF TypesHold, Shapes, SlotsCounted
  <1>9. SlotsCounted'
    BY <1>7, <1>8 DEF SlotsCounted, Closed
  <1>10. Shapes' /\ SharesKnown'
    BY <1>2, <1>3 DEF TypesHold, Shapes, SharesKnown, bridgeVars
  <1> QED BY <1>9, <1>10 DEF TypesHold

LEMMA DisconnectTypes ==
  ASSUME TypesHold, NEW s \in Session, Disconnect(s)
  PROVE  TypesHold'
  <1> DEFINE Open == {t \in Session : session[t].open}
  <1>1. session' = [session EXCEPT ![s] = Closed] /\ UNCHANGED bridgeVars
    BY DEF Disconnect
  <1>2. session' \in [Session -> SessionRecord]
    BY <1>1, ClosedShape DEF TypesHold, Shapes
  <1>3. {t \in Session : session'[t].open} = Open \ {s} /\ s \in Open
    BY <1>1, ClosedShape DEF TypesHold, Shapes, Disconnect
  <1>4. IsFiniteSet(Open)
    BY FS_Subset, WorkAssumption DEF WorkAssumption
  <1>5. Cardinality(Open \ {s}) = Cardinality(Open) - 1
    BY <1>3, <1>4, FS_RemoveElement
  <1>6. active_connections' = Cardinality({t \in Session : session'[t].open})
    BY <1>3, <1>5 DEF TypesHold, SlotsCounted, Disconnect
  <1>7. ASSUME NEW t \in Session, ~session'[t].open PROVE session'[t] = Closed
    BY <1>1, <1>7 DEF TypesHold, Shapes, SlotsCounted
  <1>8. SlotsCounted'
    BY <1>6, <1>7 DEF SlotsCounted, Closed
  <1>9. Shapes' /\ SharesKnown'
    BY <1>1, <1>2 DEF TypesHold, Shapes, SharesKnown, bridgeVars
  <1> QED BY <1>8, <1>9 DEF TypesHold

\* The setup calls: a session is as before, with one more call, or is being closed.
LEMMA SetupCallEffect ==
  ASSUME Shapes, NEW s \in Session,
         \/ rpc_subscribe(s) \/ rpc_configure(s) \/ \E wish \in Wishes \cup {no_wish} : rpc_authorize(s, wish)
  PROVE  \E new \in SessionRecord :
           /\ session' = [session EXCEPT ![s] = new]
           /\ new.open /\ session[s].open
           /\ new.jobs = session[s].jobs /\ new.sent = session[s].sent /\ new.target = session[s].target
           /\ session[s].queued => new.queued \/ new.losing
           /\ ~session[s].losing /\ UNCHANGED <<bridgeVars, active_connections>>
  <1> DEFINE p == session[s]
             n == p.setup_calls + 1
             losing == [[p EXCEPT !.setup_calls = n] EXCEPT !.losing = TRUE]
  <1>1. p \in SessionRecord /\ n \in Nat
    BY DEF Shapes, SessionRecord
  <1>2. /\ losing \in SessionRecord /\ losing.open = p.open /\ losing.losing
        /\ losing.jobs = p.jobs /\ losing.sent = p.sent /\ losing.target = p.target
    BY <1>1 DEF SessionRecord
  <1>3. ASSUME NEW allowed \in SessionRecord, SetupCall(s, allowed), allowed.open = p.open,
               allowed.jobs = p.jobs, allowed.sent = p.sent, allowed.target = p.target, p.queued => allowed.queued
        PROVE  \E new \in SessionRecord :
           /\ session' = [session EXCEPT ![s] = new]
           /\ new.open /\ p.open
           /\ new.jobs = p.jobs /\ new.sent = p.sent /\ new.target = p.target
           /\ p.queued => new.queued \/ new.losing
           /\ ~p.losing /\ UNCHANGED <<bridgeVars, active_connections>>
    <2>1. /\ p.open /\ ~p.losing /\ UNCHANGED <<bridgeVars, active_connections>>
          /\ session' = [session EXCEPT ![s] = allowed] \/ session' = [session EXCEPT ![s] = losing]
      BY <1>3 DEF SetupCall
    <2> QED BY <1>2, <1>3, <2>1
  <1>4. CASE rpc_subscribe(s)
    <2> DEFINE allowed == [p EXCEPT !.setup_calls = @ + 1, !.queued = TRUE]
    <2>1. /\ allowed \in SessionRecord /\ allowed.open = p.open /\ allowed.queued
          /\ allowed.jobs = p.jobs /\ allowed.sent = p.sent /\ allowed.target = p.target
      BY <1>1 DEF SessionRecord
    <2> QED BY <1>3, <1>4, <2>1 DEF rpc_subscribe
  <1>5. CASE rpc_configure(s)
    <2> DEFINE allowed == [p EXCEPT !.setup_calls = @ + 1]
    <2>1. /\ allowed \in SessionRecord /\ allowed.open = p.open /\ allowed.queued = p.queued
          /\ allowed.jobs = p.jobs /\ allowed.sent = p.sent /\ allowed.target = p.target
      BY <1>1 DEF SessionRecord
    <2> QED BY <1>3, <1>5, <2>1 DEF rpc_configure
  <1>6. ASSUME NEW wish \in Wishes \cup {no_wish}, rpc_authorize(s, wish)
        PROVE  \E new \in SessionRecord :
           /\ session' = [session EXCEPT ![s] = new]
           /\ new.open /\ p.open
           /\ new.jobs = p.jobs /\ new.sent = p.sent /\ new.target = p.target
           /\ p.queued => new.queued \/ new.losing
           /\ ~p.losing /\ UNCHANGED <<bridgeVars, active_connections>>
    <2> DEFINE allowed == [p EXCEPT !.setup_calls = @ + 1, !.queued = TRUE, !.wish = wish]
    <2>1. /\ allowed \in SessionRecord /\ allowed.open = p.open /\ allowed.queued
          /\ allowed.jobs = p.jobs /\ allowed.sent = p.sent /\ allowed.target = p.target
      BY <1>1 DEF SessionRecord
    <2> QED BY <1>3, <1>6, <2>1 DEF rpc_authorize
  <1> QED BY <1>4, <1>5, <1>6

LEMMA SetupTypes ==
  ASSUME TypesHold, NEW s \in Session,
         \/ rpc_subscribe(s) \/ rpc_configure(s) \/ \E wish \in Wishes \cup {no_wish} : rpc_authorize(s, wish)
  PROVE  TypesHold'
  <1>1. PICK new \in SessionRecord :
          /\ session' = [session EXCEPT ![s] = new]
          /\ new.open /\ session[s].open
          /\ UNCHANGED <<bridgeVars, active_connections>>
    BY SetupCallEffect DEF TypesHold
  <1> QED BY <1>1, OneSessionTypes

LEMMA SendFailsTypes ==
  ASSUME TypesHold, NEW s \in Session, SendFails(s)
  PROVE  TypesHold'
  <1> DEFINE new == [session[s] EXCEPT !.queued = FALSE, !.losing = TRUE]
  <1>1. session[s] \in SessionRecord /\ session[s].open
    BY DEF TypesHold, Shapes, SlotsCounted, SendFails, Closed
  <1>2. new \in SessionRecord /\ new.open
    BY <1>1 DEF SessionRecord
  <1>3. session' = [session EXCEPT ![s] = new] /\ UNCHANGED <<bridgeVars, active_connections>>
    BY <1>1 DEF SendFails, TypesHold, Shapes
  <1> QED BY <1>1, <1>2, <1>3, OneSessionTypes

LEMMA JobExpiresTypes ==
  ASSUME TypesHold, NEW s \in Session, JobExpires(s)
  PROVE  TypesHold'
  <1> DEFINE new == [session[s] EXCEPT !.jobs = Tail(@)]
  <1>1. session[s] \in SessionRecord /\ session[s].open /\ session[s].jobs # <<>>
    BY DEF TypesHold, Shapes, SlotsCounted, JobExpires, Closed
  <1>2. new \in SessionRecord /\ new.open
    <2>1. Tail(session[s].jobs) \in Seq(Nat)
      BY <1>1 DEF SessionRecord
    <2> QED BY <1>1, <2>1 DEF SessionRecord
  <1>3. session' = [session EXCEPT ![s] = new] /\ UNCHANGED <<bridgeVars, active_connections>>
    BY <1>1 DEF JobExpires, TypesHold, Shapes
  <1> QED BY <1>1, <1>2, <1>3, OneSessionTypes

-----------------------------------------------------------------------------
\* A job made.

\* What SendWork does: one more job, of now, and it is the session's last.
LEMMA SendWorkEffect ==
  ASSUME TypesHold, current_work \in Work, bound \in Bounds, NEW s \in Session, SendWork(s)
  PROVE  \E new \in JobRecord, next \in SessionRecord :
           /\ job' = Append(job, new)
           /\ new.previous = best_share /\ new.on = current_work.on /\ new.txs = current_work.txs
           /\ new.times = times /\ new.stale_info = stale_info
           /\ session' = [session EXCEPT ![s] = next]
           /\ session[s].open /\ next.open
           /\ next.sent = Len(job) + 1
           /\ UNCHANGED <<share, items, best_share, times, active_connections, my_share_hashes,
                          my_doa_share_hashes, removed_unstales, removed_doa, unseen, shares_received,
                          unrecorded, raised, current_work>>
  <1>1. PICK p \in SessionRecord : p = session[s] /\ p.open
    BY DEF TypesHold, Shapes, SlotsCounted, SendWork, Closed
  <1>2. PICK target \in bound.targets :
          /\ job' = Append(job, [previous |-> best_share, on |-> current_work.on, txs |-> current_work.txs,
                                 times |-> times, stale_info |-> stale_info,
                                 min_share_target |-> target, received |-> {}])
          /\ session' = [session EXCEPT ![s] =
                           [p EXCEPT !.queued = FALSE, !.fixed = p.wish # no_wish,
                                     !.target = NextTarget(p, target), !.sent = Len(job) + 1,
                                     !.jobs = Kept(Append(@, Len(job) + 1))]]
    BY <1>1 DEF SendWork
  <1>3. target \in Nat
    BY <1>2, TargetsAreNat
  <1>4. PICK new : new = [previous |-> best_share, on |-> current_work.on, txs |-> current_work.txs,
                          times |-> times, stale_info |-> stale_info,
                          min_share_target |-> target, received |-> {}]
    OBVIOUS
  <1>5. best_share \in Nat
    BY DEF TypesHold, Shapes, SharesKnown, None
  <1>6. /\ new \in JobRecord
        /\ new.previous = best_share /\ new.on = current_work.on /\ new.txs = current_work.txs
        /\ new.times = times /\ new.stale_info = stale_info
    BY <1>3, <1>4, <1>5, StaleInfoType DEF TypesHold, Shapes, JobRecord, Work
  <1>7. Len(job) + 1 \in Nat /\ p.jobs \in Seq(Nat)
    BY <1>1 DEF TypesHold, Shapes, SessionRecord
  <1>8. PICK jobs \in Seq(Nat), t \in Nat : jobs = Kept(Append(p.jobs, Len(job) + 1)) /\ t = NextTarget(p, target)
    BY <1>1, <1>3, <1>7, KeptJobs, NextTargetType
  <1>9. PICK next : next = [p EXCEPT !.queued = FALSE, !.fixed = p.wish # no_wish, !.target = t,
                                     !.sent = Len(job) + 1, !.jobs = jobs]
    OBVIOUS
  <1>10. next \in SessionRecord /\ next.open /\ next.sent = Len(job) + 1
    BY <1>1, <1>7, <1>8, <1>9 DEF SessionRecord
  <1>11. /\ job' = Append(job, new) /\ session' = [session EXCEPT ![s] = next]
    BY <1>2, <1>4, <1>8, <1>9
  <1>12. UNCHANGED <<share, items, best_share, times, active_connections, my_share_hashes,
                     my_doa_share_hashes, removed_unstales, removed_doa, unseen, shares_received,
                     unrecorded, raised, current_work>>
    BY DEF SendWork, parentVars
  <1> QED BY <1>1, <1>6, <1>10, <1>11, <1>12

LEMMA SendWorkTypes ==
  ASSUME TypesHold, current_work \in Work, bound \in Bounds, NEW s \in Session, SendWork(s)
  PROVE  TypesHold'
  <1>1. PICK new \in JobRecord, next \in SessionRecord :
           /\ job' = Append(job, new)
           /\ session' = [session EXCEPT ![s] = next]
           /\ session[s].open /\ next.open
           /\ UNCHANGED <<share, items, best_share, times, active_connections, my_share_hashes,
                          my_doa_share_hashes, current_work>>
    BY SendWorkEffect
  <1>2. session' \in [Session -> SessionRecord]
    BY <1>1 DEF TypesHold, Shapes
  <1>3. {t \in Session : session'[t].open} = {t \in Session : session[t].open}
    BY <1>1 DEF TypesHold, Shapes
  <1>4. SlotsCounted'
    BY <1>1, <1>3 DEF TypesHold, Shapes, SlotsCounted
  <1>5. job' \in Seq(JobRecord)
    BY <1>1 DEF TypesHold, Shapes
  <1>6. Shapes' /\ SharesKnown'
    BY <1>1, <1>2, <1>5 DEF TypesHold, Shapes, SharesKnown
  <1> QED BY <1>4, <1>6 DEF TypesHold

-----------------------------------------------------------------------------
\* A header returned.

LEMMA OneJobChanged ==
  ASSUME NEW jobs \in Seq(JobRecord), NEW i \in 1 .. Len(jobs), NEW e \in JobRecord
  PROVE  /\ [jobs EXCEPT ![i] = e] \in Seq(JobRecord)
         /\ Len([jobs EXCEPT ![i] = e]) = Len(jobs)
         /\ \A k \in 1 .. Len(jobs) : [jobs EXCEPT ![i] = e][k] = IF k = i THEN e ELSE jobs[k]
  BY ExceptSeq

\* A job that has received one more header says what it said.
LEMMA JobReplaced ==
  ASSUME Shapes, NEW j \in DOMAIN job, NEW p, NEW had \in JobRecord, job' = [job EXCEPT ![j] = had],
         had.previous = job[j].previous, had.on = job[j].on,
         had.txs = job[j].txs, had.times = job[j].times, had.stale_info = job[j].stale_info,
         had.received = job[j].received \cup {p}
  PROVE  /\ job' \in Seq(JobRecord) /\ Len(job') = Len(job)
         /\ \A i \in DOMAIN job :
              /\ job'[i].previous = job[i].previous /\ job'[i].on = job[i].on
              /\ job'[i].txs = job[i].txs /\ job'[i].times = job[i].times
              /\ job'[i].stale_info = job[i].stale_info
              /\ job[i].received \subseteq job'[i].received
         /\ p \in job'[j].received
  <1>1. j \in 1 .. Len(job) /\ job \in Seq(JobRecord) /\ DOMAIN job = 1 .. Len(job)
    BY JobIsRecord DEF Shapes
  <1>2. /\ job' \in Seq(JobRecord) /\ Len(job') = Len(job)
        /\ \A i \in 1 .. Len(job) : job'[i] = IF i = j THEN had ELSE job[i]
    BY <1>1, OneJobChanged
  <1> QED BY <1>1, <1>2

LEMMA ReceivedMore ==
  ASSUME Shapes, NEW j \in DOMAIN job, NEW p \in Hashes, job' = [job EXCEPT ![j].received = @ \cup {p}]
  PROVE  /\ job' \in Seq(JobRecord) /\ Len(job') = Len(job)
         /\ \A i \in DOMAIN job :
              /\ job'[i].previous = job[i].previous /\ job'[i].on = job[i].on
              /\ job'[i].txs = job[i].txs /\ job'[i].times = job[i].times
              /\ job'[i].stale_info = job[i].stale_info
              /\ job[i].received \subseteq job'[i].received
         /\ p \in job'[j].received
  <1>1. job[j] \in JobRecord
    BY JobIsRecord
  <1>2. PICK had : had = [job[j] EXCEPT !.received = @ \cup {p}]
    OBVIOUS
  <1>3. /\ had \in JobRecord /\ had.previous = job[j].previous /\ had.on = job[j].on
        /\ had.txs = job[j].txs /\ had.times = job[j].times /\ had.stale_info = job[j].stale_info
        /\ had.received = job[j].received \cup {p}
    BY <1>1, <1>2 DEF JobRecord
  <1>4. job' = [job EXCEPT ![j] = had]
    BY <1>2
  <1> QED BY <1>3, <1>4, JobReplaced

\* What is left of a session whose header was answered.
AnsweredSession(o, q) ==
  /\ q.open /\ q.sent = o.sent /\ (q.losing <=> o.losing)
  /\ o.queued => q.queued

LEMMA LargerIsNat ==
  ASSUME NEW x \in Nat, NEW y \in Nat
  PROVE  larger(x, y) \in Nat
  BY DEF larger

LEMMA AdjustedSession ==
  ASSUME NEW o \in SessionRecord, o.open, NEW t \in Targets, NEW m \in Nat,
         NEW q, q = [o EXCEPT !.target = larger(m, t), !.queued = TRUE]
  PROVE  q \in SessionRecord /\ AnsweredSession(o, q)
  <1>1. larger(m, t) \in Nat
    BY TargetsAreNat, LargerIsNat
  <1>2. PICK x \in Nat : x = larger(m, t)
    BY <1>1
  <1>3. q = [o EXCEPT !.target = x, !.queued = TRUE]
    BY <1>2
  <1> QED BY <1>2, <1>3 DEF SessionRecord, AnsweredSession

\* A session whose job was asked for.
LEMMA AskedSession ==
  ASSUME Shapes, NEW s \in Session, session[s].open, NEW j \in DOMAIN job, j \in Sq!ToSet(session[s].jobs)
  PROVE  /\ Asked(s, j) \in SessionRecord /\ AnsweredSession(session[s], Asked(s, j))
         /\ Asked(s, j).target = session[s].target
  <1>1. session[s] \in SessionRecord /\ session[s].jobs \in Seq(Nat) /\ j \in Nat
    BY JobIsRecord DEF Shapes, SessionRecord
  <1>2. PICK o \in SessionRecord, jobs \in Seq(Nat) : o = session[s] /\ jobs = Touched(o.jobs, j)
    BY <1>1, TouchedJobs
  <1>3. Asked(s, j) = [o EXCEPT !.jobs = jobs]
    BY <1>2 DEF Asked
  <1>4. PICK q : q = [o EXCEPT !.jobs = jobs]
    OBVIOUS
  <1>5. /\ q \in SessionRecord /\ (q.open <=> o.open) /\ q.sent = o.sent /\ (q.losing <=> o.losing)
        /\ q.target = o.target /\ (q.queued <=> o.queued)
    BY <1>2, <1>4 DEF SessionRecord
  <1> QED BY <1>2, <1>3, <1>4, <1>5 DEF AnsweredSession

\* The answer to a header: the job may have received it, and the session's difficulty may be
\* another and work be sent again.
LEMMA AnsweredEffect ==
  ASSUME Shapes, NEW s \in Session, NEW j \in DOMAIN job, NEW p \in Hashes, NEW n \in Nat,
         session[s].open, j \in Sq!ToSet(session[s].jobs), Answered(s, j, p, n)
  PROVE  /\ \E q \in SessionRecord :
              Happened(n, [session EXCEPT ![s] = q]) /\ AnsweredSession(session[s], q)
         /\ job' \in Seq(JobRecord) /\ Len(job') = Len(job)
         /\ \A i \in DOMAIN job :
              /\ job'[i].previous = job[i].previous /\ job'[i].on = job[i].on
              /\ job'[i].txs = job[i].txs /\ job'[i].times = job[i].times
              /\ job'[i].stale_info = job[i].stale_info
              /\ job[i].received \subseteq job'[i].received
         /\ IsPseudoshare(j, p, session[s].target) => p \in job'[j].received
  <1>1. PICK o \in SessionRecord : o = Asked(s, j) /\ AnsweredSession(session[s], o) /\ o.target = session[s].target
    BY AskedSession
  <1>2. PICK q : /\ Happened(n, [session EXCEPT ![s] = q])
                 /\ \/ q = o
                    \/ \E t \in Targets : q = [o EXCEPT !.target = larger(job[j].min_share_target, t),
                                                        !.queued = TRUE]
    BY <1>1 DEF Answered
  <1>3. AnsweredSession(o, o) /\ o.open /\ job[j].min_share_target \in Nat
    BY <1>1, JobIsRecord DEF AnsweredSession, JobRecord
  <1>4. q \in SessionRecord /\ AnsweredSession(o, q)
    BY <1>2, <1>3, AdjustedSession
  <1>5. AnsweredSession(session[s], q)
    BY <1>1, <1>4 DEF AnsweredSession
  <1>6. CASE IsPseudoshare(j, p, session[s].target)
    <2>1. job' = [job EXCEPT ![j].received = @ \cup {p}]
      BY <1>1, <1>6 DEF Answered
    <2> QED BY <1>2, <1>4, <1>5, <2>1, ReceivedMore
  <1>7. CASE ~IsPseudoshare(j, p, session[s].target)
    <2>1. job' = job
      BY <1>1, <1>7 DEF Answered
    <2> QED BY <1>2, <1>4, <1>5, <1>7, <2>1 DEF Shapes
  <1> QED BY <1>6, <1>7

\* After an event the sessions are those it happened to, and as open.
LEMMA AnsweredSessions ==
  ASSUME TypesHold, NEW s \in Session, NEW q \in SessionRecord, NEW n \in Nat,
         session[s].open, AnsweredSession(session[s], q),
         Happened(n, [session EXCEPT ![s] = q]), UNCHANGED active_connections
  PROVE  /\ times' = times + n /\ times' \in Nat
         /\ session' \in [Session -> SessionRecord]
         /\ SlotsCounted'
         /\ n = 0 => session' = [session EXCEPT ![s] = q]
         /\ \A t \in Session :
              /\ (session'[t].open <=> session[t].open) /\ (session'[t].losing <=> session[t].losing)
              /\ session'[t].sent = session[t].sent
              /\ t # s => session'[t].jobs = session[t].jobs
              /\ n > 0 /\ session[t].open => session'[t].queued
  <1> DEFINE ss == [session EXCEPT ![s] = q]
  <1>1. ss \in [Session -> SessionRecord] /\ times \in Nat
    BY DEF TypesHold, Shapes
  <1>2. \A t \in Session : ss[t] = IF t = s THEN q ELSE session[t]
    BY DEF TypesHold, Shapes
  <1> HIDE DEF ss
  <1>3. Happened(n, ss)
    BY DEF ss
  <1>4. /\ times' = times + n /\ session' \in [Session -> SessionRecord]
        /\ n = 0 => session' = ss
    BY <1>1, <1>3, HappenedKeeps
  <1>5. ASSUME NEW t \in Session
        PROVE  /\ (session'[t].open <=> session[t].open) /\ (session'[t].losing <=> session[t].losing)
               /\ session'[t].sent = session[t].sent
               /\ t # s => session'[t].jobs = session[t].jobs
               /\ ~session[t].open => session'[t] = session[t]
               /\ n > 0 /\ session[t].open => session'[t].queued
    <2>1. /\ (session'[t].open <=> ss[t].open) /\ (session'[t].losing <=> ss[t].losing)
          /\ session'[t].target = ss[t].target /\ session'[t].jobs = ss[t].jobs
          /\ session'[t].sent = ss[t].sent
          /\ ~ss[t].open => session'[t] = ss[t]
          /\ n > 0 /\ ss[t].open => session'[t].queued
      BY <1>1, <1>3, HappenedKeeps
    <2> QED BY <1>2, <2>1 DEF AnsweredSession
  <1>6. {t \in Session : session'[t].open} = {t \in Session : session[t].open}
    BY <1>5
  <1>7. ASSUME NEW t \in Session, ~session'[t].open PROVE session'[t] = Closed
    BY <1>5, <1>7 DEF TypesHold, SlotsCounted
  <1>8. SlotsCounted'
    BY <1>6, <1>7 DEF TypesHold, SlotsCounted, Closed
  <1> QED BY <1>1, <1>4, <1>5, <1>8 DEF ss

\* The share a header stands for is one there is, found with this job and hash, or the next.
LEMMA ShareOfIs ==
  ASSUME NEW j, NEW p
  PROVE  \/ /\ ShareOf(j, p) \in DOMAIN share
            /\ share[ShareOf(j, p)].job = j /\ share[ShareOf(j, p)].hash = p
         \/ /\ ShareOf(j, p) = Len(share) + 1
            /\ \A h \in DOMAIN share : share[h].job # j \/ share[h].hash # p
  <1> DEFINE is == {h \in DOMAIN share : share[h].job = j /\ share[h].hash = p}
  <1>1. CASE is = {}
    BY <1>1 DEF ShareOf
  <1>2. CASE is # {}
    <2>1. ShareOf(j, p) = CHOOSE h \in is : TRUE
      BY <1>2 DEF ShareOf
    <2>2. ShareOf(j, p) \in is
      BY <1>2, <2>1
    <2> QED BY <2>2
  <1> QED BY <1>1, <1>2

LEMMA OneShareMore ==
  ASSUME NEW shares \in Seq(ShareRecord), NEW e \in ShareRecord
  PROVE  /\ Append(shares, e) \in Seq(ShareRecord)
         /\ DOMAIN Append(shares, e) = DOMAIN shares \cup {Len(shares) + 1}
         /\ Len(shares) + 1 \notin DOMAIN shares
         /\ Append(shares, e)[Len(shares) + 1] = e
         /\ \A h \in DOMAIN shares : Append(shares, e)[h] = shares[h]
  OBVIOUS

LEMMA FoundEffect ==
  ASSUME TypesHold, NEW j \in DOMAIN job, NEW p \in Hashes, Found(j, p)
  PROVE  /\ share' \in Seq(ShareRecord)
         /\ DOMAIN share' = DOMAIN share \cup {ShareOf(j, p)}
         /\ \A h \in DOMAIN share : share'[h] = share[h]
         /\ ShareOf(j, p) \notin DOMAIN share =>
              share'[ShareOf(j, p)].job = j /\ share'[ShareOf(j, p)].hash = p
         /\ my_share_hashes' = my_share_hashes \cup {ShareOf(j, p)}
         /\ my_doa_share_hashes' \subseteq my_share_hashes'
  <1>1. job[j] \in JobRecord /\ j \in Nat /\ p \in Nat
    BY JobIsRecord, TargetsAreNat DEF TypesHold
  <1>2. PICK e : e = [previous |-> job[j].previous, job |-> j, hash |-> p, stale_info |-> job[j].stale_info]
    OBVIOUS
  <1>3. e \in ShareRecord /\ e.job = j /\ e.hash = p
    BY <1>1, <1>2 DEF JobRecord, ShareRecord
  <1>4. share \in Seq(ShareRecord)
    BY DEF TypesHold, Shapes
  <1>5. share' = IF ShareOf(j, p) \in DOMAIN share THEN share ELSE Append(share, e)
    BY <1>2 DEF Found
  <1>6. my_share_hashes' = my_share_hashes \cup {ShareOf(j, p)}
        /\ my_doa_share_hashes' \subseteq my_share_hashes'
    BY DEF Found, TypesHold, SharesKnown
  <1>7. CASE ShareOf(j, p) \in DOMAIN share
    BY <1>4, <1>5, <1>6, <1>7
  <1>8. CASE ShareOf(j, p) = Len(share) + 1
    BY <1>3, <1>4, <1>5, <1>6, <1>8, OneShareMore
  <1> QED BY <1>7, <1>8, ShareOfIs

\* The three things that come of a header returned: taken, raised, or not a share.
LEMMA SubmitCases ==
  ASSUME NEW s \in Session, NEW j \in DOMAIN job, NEW p \in Hashes, rpc_submit(s, j, p)
  PROVE  /\ session[s].open /\ session[s].jobs # <<>> /\ UNCHANGED active_connections
         /\ UNCHANGED current_work /\ j \in Sq!ToSet(session[s].jobs)
         /\ \/ IsShare(j, p) /\ Found(j, p) /\ Taken(s, j, p)
            \/ /\ IsShare(j, p) /\ Found(j, p) /\ Raised(s, j, p)
               /\ ShareOf(j, p) \in items
            \/ AsPseudoshare(s, j, p)
  <1>1. session[s].jobs # <<>>
    BY DEF rpc_submit, Sq!ToSet
  <1> QED BY <1>1 DEF rpc_submit, AsShare, AsPseudoshare, parentVars

LEMMA TakenTypes ==
  ASSUME TypesHold, NEW s \in Session, NEW j \in DOMAIN job, NEW p \in Hashes,
         session[s].open, j \in Sq!ToSet(session[s].jobs), Found(j, p), Taken(s, j, p), UNCHANGED active_connections
  PROVE  TypesHold'
  <1>1. BestNews \in Nat /\ Answered(s, j, p, BestNews)
    BY NewsIsNat DEF Taken
  <1>2. PICK q \in SessionRecord :
          Happened(BestNews, [session EXCEPT ![s] = q]) /\ AnsweredSession(session[s], q)
    BY <1>1, AnsweredEffect DEF TypesHold
  <1>3. times' \in Nat /\ session' \in [Session -> SessionRecord] /\ SlotsCounted'
    BY <1>1, <1>2, AnsweredSessions
  <1>4. job' \in Seq(JobRecord)
    BY <1>1, AnsweredEffect DEF TypesHold
  <1>5. share' \in Seq(ShareRecord) /\ DOMAIN share' = DOMAIN share \cup {ShareOf(j, p)}
        /\ my_share_hashes' = my_share_hashes \cup {ShareOf(j, p)}
        /\ my_doa_share_hashes' \subseteq my_share_hashes'
    BY FoundEffect
  <1>6. items' \subseteq items \cup {ShareOf(j, p)} /\ items \subseteq items'
    BY DEF Taken
  <1>7. best_share' \in items' \cup {None}
    <2>1. set_best_share \/ best_share' = best_share
      BY DEF Taken
    <2> QED BY <1>6, <2>1, BestIsThere DEF TypesHold, SharesKnown
  <1>8. SharesKnown'
    BY <1>5, <1>6, <1>7 DEF TypesHold, SharesKnown
  <1> QED BY <1>3, <1>4, <1>5, <1>8 DEF TypesHold, Shapes

LEMMA RaisedTypes ==
  ASSUME TypesHold, NEW s \in Session, NEW j \in DOMAIN job, NEW p \in Hashes,
         session[s].open, j \in Sq!ToSet(session[s].jobs), Found(j, p), Raised(s, j, p),
         UNCHANGED active_connections
  PROVE  TypesHold'
  <1>1. UNCHANGED <<items, best_share, times, job>> /\ session' = [session EXCEPT ![s] = Asked(s, j)]
    BY DEF Raised
  <1>2. Asked(s, j) \in SessionRecord /\ Asked(s, j).open
    BY AskedSession DEF TypesHold, AnsweredSession
  <1>3. share' \in Seq(ShareRecord) /\ DOMAIN share' = DOMAIN share \cup {ShareOf(j, p)}
        /\ my_share_hashes' = my_share_hashes \cup {ShareOf(j, p)}
        /\ my_doa_share_hashes' \subseteq my_share_hashes'
    BY FoundEffect
  <1>4. PICK q \in SessionRecord : q = Asked(s, j) /\ q.open
    BY <1>2
  <1>5. /\ session' \in [Session -> SessionRecord]
        /\ \A t \in Session : session'[t] = IF t = s THEN q ELSE session[t]
    BY <1>1, <1>4 DEF TypesHold, Shapes
  <1>6. Shapes' /\ SharesKnown'
    BY <1>1, <1>3, <1>5 DEF TypesHold, Shapes, SharesKnown
  <1>7. {t \in Session : session'[t].open} = {t \in Session : session[t].open}
    BY <1>4, <1>5
  <1>8. SlotsCounted'
    BY <1>4, <1>5, <1>7 DEF TypesHold, SlotsCounted, Closed
  <1> QED BY <1>6, <1>8 DEF TypesHold

LEMMA SubmitTypes ==
  ASSUME TypesHold, NEW s \in Session, NEW j \in DOMAIN job, NEW p \in Hashes, rpc_submit(s, j, p)
  PROVE  TypesHold'
  <1>1. session[s].open /\ j \in Sq!ToSet(session[s].jobs) /\ UNCHANGED active_connections
    BY SubmitCases
  <1>2. CASE Found(j, p) /\ Taken(s, j, p)
    BY <1>1, <1>2, TakenTypes
  <1>3. CASE Found(j, p) /\ Raised(s, j, p)
    BY <1>1, <1>3, RaisedTypes
  <1>4. CASE AsPseudoshare(s, j, p)
    <2>1. Answered(s, j, p, 0) /\ UNCHANGED <<share, items, best_share, my_share_hashes, my_doa_share_hashes>>
      BY <1>4 DEF AsPseudoshare
    <2>2. PICK q \in SessionRecord :
            Happened(0, [session EXCEPT ![s] = q]) /\ AnsweredSession(session[s], q)
      BY <1>1, <2>1, AnsweredEffect DEF TypesHold
    <2>3. times' \in Nat /\ session' \in [Session -> SessionRecord] /\ SlotsCounted'
      BY <1>1, <2>2, AnsweredSessions
    <2>4. job' \in Seq(JobRecord)
      BY <1>1, <2>1, AnsweredEffect DEF TypesHold
    <2> QED BY <2>1, <2>3, <2>4 DEF TypesHold, Shapes, SharesKnown
  <1> QED BY <1>2, <1>3, <1>4, SubmitCases

-----------------------------------------------------------------------------
LEMMA ParentHolds == ParentSpec => []ParentInv
  BY InvInit, InvNext, PTL DEF ParentSpec

\* What the bridge does not change: the parent chain, and the bound a behaviour goes by.
Outside == ParentInv /\ bound \in Bounds

LEMMA CurrentWorkType == Outside => current_work \in Work /\ bound \in Bounds
  BY ParentChainAssumption DEF Outside, ParentInv, ParentTypeOK, WorkComputed, compute_work, Work

LEMMA TypesInit == WorkInit => TypesHold
  <1> SUFFICES ASSUME WorkInit PROVE TypesHold
    OBVIOUS
  <1>1. Shapes
    BY ClosedShape DEF WorkInit, Shapes
  <1>2. SharesKnown
    BY DEF WorkInit, SharesKnown
  <1>3. {s \in Session : session[s].open} = {}
    BY ClosedShape DEF WorkInit
  <1>4. SlotsCounted
    BY <1>3, FS_EmptySet DEF WorkInit, SlotsCounted
  <1> QED BY <1>1, <1>2, <1>4 DEF TypesHold

\* Every step keeps the types: one case for each action.
LEMMA TypesNext ==
  ASSUME TypesHold, Outside, [WorkNext]_workVars
  PROVE  TypesHold'
  <1>1. ASSUME NEW b \in bound.blocks, NEW txs \in TxChoices, NodeGotWork([on |-> b, txs |-> txs])
        PROVE  TypesHold'
    BY <1>1, NodeGotWorkTypes
  <1>2. ASSUME NEW b \in bound.blocks, NodeHeader(b) PROVE TypesHold'
    BY <1>2, NodeHeaderTypes
  <1>3. ASSUME NEW h \in items \cup {None}, PeerShare(h) PROVE TypesHold'
    BY <1>3, PeerShareTypes
  <1>4. CASE DropHead \/ DropTails
    BY <1>4, TakeOutTypes DEF DropHead, DropTails
  <1>5. ASSUME NEW s \in Session, Connect(s) \/ Disconnect(s) PROVE TypesHold'
    BY <1>5, ConnectTypes, DisconnectTypes
  <1>6. ASSUME NEW s \in Session,
               rpc_subscribe(s) \/ rpc_configure(s) \/ \E wish \in Wishes \cup {no_wish} : rpc_authorize(s, wish)
        PROVE  TypesHold'
    BY <1>6, SetupTypes
  <1>7. ASSUME NEW s \in Session, SendWork(s) \/ SendFails(s) \/ JobExpires(s) PROVE TypesHold'
    BY <1>7, CurrentWorkType, SendWorkTypes, SendFailsTypes, JobExpiresTypes
  <1>8. ASSUME NEW s \in Session, NEW j \in DOMAIN job, NEW p \in Hashes, rpc_submit(s, j, p)
        PROVE  TypesHold'
    BY <1>8, SubmitTypes
  <1>9. CASE UNCHANGED workVars
    BY <1>9 DEF workVars, bridgeVars, TypesHold, Shapes, SharesKnown, SlotsCounted, Closed
  <1> QED BY <1>1, <1>2, <1>3, <1>4, <1>5, <1>6, <1>7, <1>8, <1>9 DEF WorkNext

LEMMA AllTypesHold == WorkSpec => [](TypesHold /\ Outside)
  <1>1. WorkInit /\ ParentInit => TypesHold
    BY TypesInit
  <1>2. WorkInit => ParentInit
    BY DEF WorkInit
  <1>3. TypesHold /\ Outside /\ [WorkNext]_workVars => TypesHold'
    BY TypesNext
  <1>4. WorkSpec => []ParentInv
    BY ImplementsParent, ParentHolds, PTL
  <1>5. WorkInit => bound \in Bounds
    BY DEF WorkInit
  <1>6. bound \in Bounds /\ [WorkNext]_workVars => (bound \in Bounds)'
    BY StepIsParentStep
  <1>7. ParentInv /\ bound \in Bounds => Outside
    BY DEF Outside
  <1> QED BY <1>1, <1>2, <1>3, <1>4, <1>5, <1>6, <1>7, PTL DEF WorkSpec

\* The bridge's state keeps its types, every connected miner is counted once, and the share
\* built on is one the tracker has (stratum.py:237-256, work.py:75-98).
THEOREM WorkTypes == WorkSpec => []WorkTypeOK
  <1>1. TypesHold /\ Outside => WorkTypeOK
    BY CurrentWorkType DEF TypesHold, SharesKnown, SlotsCounted, WorkTypeOK, Outside, ParentInv, ParentTypeOK
  <1> QED BY <1>1, AllTypesHold, PTL

-----------------------------------------------------------------------------
\* Jobs are current.

\* The last job sent was made, and none was after now.
JobsKnown ==
  /\ \A s \in Session : session[s].sent # 0 => session[s].sent \in DOMAIN job
  /\ \A j \in DOMAIN job : job[j].times <= times

\* The two halves of JobsCurrent.
JobsNow ==
  \A j \in DOMAIN job : on_time(j) =>
    /\ job[j].previous = best_share /\ job[j].on = current_work.on
    /\ current_work.txs => job[j].txs

Latest(p) == p.sent # 0 /\ ~p.queued /\ ~p.losing => on_time(p.sent)

SessionsLatest == \A s \in Session : Latest(session[s])

JobInv == JobsKnown /\ JobsNow /\ SessionsLatest

\* Nothing happens but what the sessions know: the jobs are as current as before.
LEMMA QuietJobs ==
  ASSUME TypesHold, JobInv, NEW s \in Session, NEW new \in SessionRecord,
         session' = [session EXCEPT ![s] = new],
         UNCHANGED <<job, times, best_share, current_work>>,
         new.sent # 0 => new.sent = session[s].sent,
         Latest(new)
  PROVE  JobInv'
  <1>1. \A t \in Session : session'[t] = IF t = s THEN new ELSE session[t]
    BY DEF TypesHold, Shapes
  <1>2. JobsKnown'
    BY <1>1 DEF JobInv, JobsKnown
  <1>3. JobsNow'
    BY DEF JobInv, JobsNow, on_time
  <1>4. SessionsLatest'
    BY <1>1 DEF JobInv, SessionsLatest, Latest, on_time
  <1> QED BY <1>2, <1>3, <1>4 DEF JobInv

\* Work and best share change with an event, after which no job is on time and every session
\* waits for another; without one, all that may change is that transactions have gone.
LEMMA EventJobs ==
  ASSUME TypesHold, JobInv, NEW n \in Nat, times' = times + n, session' \in [Session -> SessionRecord],
         Len(job') = Len(job), job' \in Seq(JobRecord),
         \A i \in DOMAIN job :
           /\ job'[i].previous = job[i].previous /\ job'[i].on = job[i].on
           /\ job'[i].txs = job[i].txs /\ job'[i].times = job[i].times,
         \A t \in Session :
           /\ session'[t].losing <=> session[t].losing
           /\ session'[t].sent = session[t].sent
           /\ n > 0 /\ session[t].open => session'[t].queued
           /\ n = 0 /\ session[t].queued => session'[t].queued,
         n = 0 => best_share' = best_share /\ ~IsNews(current_work, current_work')
  PROVE  JobInv'
  <1>1. DOMAIN job' = DOMAIN job /\ times \in Nat /\ \A j \in DOMAIN job : job[j].times \in Nat
    <2>1. job \in Seq(JobRecord) /\ times \in Nat
      BY DEF TypesHold, Shapes
    <2>2. DOMAIN job' = DOMAIN job
      BY <2>1
    <2>3. ASSUME NEW j \in DOMAIN job PROVE job[j].times \in Nat
      <3>1. job[j] \in JobRecord
        BY JobIsRecord DEF TypesHold
      <3> QED BY <3>1 DEF JobRecord
    <2> QED BY <2>1, <2>2, <2>3
  <1>2. JobsKnown'
    BY <1>1 DEF JobInv, JobsKnown
  <1>3. JobsNow'
    <2>1. CASE n = 0
      BY <1>1, <2>1 DEF JobInv, JobsNow, on_time, IsNews
    <2>2. CASE n > 0
      BY <1>1, <2>2 DEF JobInv, JobsKnown, JobsNow, on_time
    <2> QED BY <2>1, <2>2
  <1>4. ASSUME NEW t \in Session, session'[t].sent # 0, ~session'[t].queued, ~session'[t].losing
        PROVE  on_time(session[t].sent)'
    <2>1. session[t] \in SessionRecord /\ session[t].sent # 0
      BY <1>4 DEF TypesHold, Shapes
    <2>2. session[t].open
      BY <2>1, ClosedShape DEF TypesHold, SlotsCounted
    <2>3. n = 0
      BY <1>4, <2>2
    <2>4. on_time(session[t].sent)
      BY <1>4, <2>1, <2>3 DEF JobInv, SessionsLatest, Latest
    <2>5. session[t].sent \in DOMAIN job
      BY <2>1 DEF JobInv, JobsKnown
    <2>6. session'[t].sent = session[t].sent
      OBVIOUS
    <2> QED BY <1>1, <2>3, <2>4, <2>5, <2>6 DEF on_time
  <1>5. SessionsLatest'
    BY <1>4 DEF SessionsLatest, Latest, on_time
  <1> QED BY <1>2, <1>3, <1>5 DEF JobInv

\* The events of the node.
LEMMA NodeEventJobs ==
  ASSUME TypesHold, JobInv, NEW n \in Nat, Happened(n, session), UNCHANGED job,
         n = 0 => best_share' = best_share /\ ~IsNews(current_work, current_work')
  PROVE  JobInv'
  <1>1. /\ times' = times + n /\ session' \in [Session -> SessionRecord]
        /\ n = 0 => session' = session
    BY HappenedKeeps DEF TypesHold, Shapes
  <1>2. ASSUME NEW t \in Session
        PROVE  /\ session'[t].losing <=> session[t].losing
               /\ session'[t].sent = session[t].sent
               /\ n > 0 /\ session[t].open => session'[t].queued
               /\ n = 0 /\ session[t].queued => session'[t].queued
    <2>1. /\ session'[t].losing <=> session[t].losing
          /\ session'[t].sent = session[t].sent
          /\ n > 0 /\ session[t].open => session'[t].queued
      BY HappenedKeeps DEF TypesHold, Shapes
    <2> QED BY <1>1, <2>1
  <1>3. job' = job /\ job \in Seq(JobRecord)
    BY DEF TypesHold, Shapes
  <1> QED BY <1>1, <1>2, <1>3, EventJobs

LEMMA NoBestNews == BestNews = 0 => best_share' = best_share
  BY DEF BestNews

LEMMA NoWorkNews == WorkNews = 0 => ~IsNews(current_work, current_work')
  BY DEF WorkNews

LEMMA SameWorkIsNoNews == current_work' = current_work => ~IsNews(current_work, current_work')
  BY DEF IsNews

LEMMA NodeJobs ==
  ASSUME TypesHold, JobInv,
         \/ \E work : NodeGotWork(work)
         \/ \E b : NodeHeader(b)
         \/ \E h : PeerShare(h)
         \/ \E S : TakeOut(S)
  PROVE  JobInv'
  <1>1. ASSUME NEW work, NodeGotWork(work) PROVE JobInv'
    <2>1. /\ Happened(BestNews + WorkNews, session) /\ UNCHANGED job
          /\ BestNews + WorkNews \in Nat
          /\ BestNews + WorkNews = 0 => BestNews = 0 /\ WorkNews = 0
      BY <1>1, NewsIsNat DEF NodeGotWork
    <2> QED BY <2>1, NoBestNews, NoWorkNews, NodeEventJobs
  <1>2. ASSUME NEW b, NodeHeader(b) PROVE JobInv'
    <2>1. Happened(WorkNews, session) /\ UNCHANGED <<job, best_share>> /\ WorkNews \in Nat
      BY <1>2, NewsIsNat DEF NodeHeader
    <2> QED BY <2>1, NoWorkNews, NodeEventJobs
  <1>3. ASSUME NEW h, PeerShare(h) PROVE JobInv'
    <2>1. Happened(BestNews, session) /\ UNCHANGED <<job, current_work>> /\ BestNews \in Nat
      BY <1>3, NewsIsNat DEF PeerShare, parentVars
    <2> QED BY <2>1, NoBestNews, SameWorkIsNoNews, NodeEventJobs
  <1>4. ASSUME NEW S, TakeOut(S) PROVE JobInv'
    <2>1. Happened(BestNews, session) /\ UNCHANGED <<job, current_work>> /\ BestNews \in Nat
      BY <1>4, NewsIsNat DEF TakeOut, parentVars
    <2> QED BY <2>1, NoBestNews, SameWorkIsNoNews, NodeEventJobs
  <1> QED BY <1>1, <1>2, <1>3, <1>4

\* What the sessions do by themselves.
LEMMA SessionJobs ==
  ASSUME TypesHold, JobInv, NEW s \in Session,
         \/ Connect(s) \/ Disconnect(s) \/ SendFails(s) \/ JobExpires(s)
         \/ rpc_subscribe(s) \/ rpc_configure(s) \/ \E wish \in Wishes \cup {no_wish} : rpc_authorize(s, wish)
  PROVE  JobInv'
  <1> DEFINE o == session[s]
  <1>1. o \in SessionRecord
    BY DEF TypesHold, Shapes
  <1>2. Latest(o)
    BY DEF JobInv, SessionsLatest
  <1> HIDE DEF o
  <1>3. CASE Connect(s)
    <2>1. PICK new : new = [Closed EXCEPT !.open = TRUE]
      OBVIOUS
    <2>2. new \in SessionRecord /\ new.sent = 0
      BY <2>1, ClosedShape DEF SessionRecord
    <2>3. session' = [session EXCEPT ![s] = new] /\ UNCHANGED <<job, times, best_share, current_work>>
      BY <1>3, <2>1 DEF Connect, bridgeVars, parentVars
    <2>4. Latest(new)
      BY <2>2 DEF Latest
    <2> QED BY <2>2, <2>3, <2>4, QuietJobs
  <1>4. CASE Disconnect(s)
    <2>1. session' = [session EXCEPT ![s] = Closed] /\ UNCHANGED <<job, times, best_share, current_work>>
      BY <1>4 DEF Disconnect, bridgeVars, parentVars
    <2>2. Latest(Closed)
      BY ClosedShape DEF Latest
    <2> QED BY <2>1, <2>2, ClosedShape, QuietJobs
  <1>5. CASE SendFails(s)
    <2>1. PICK new : new = [o EXCEPT !.queued = FALSE, !.losing = TRUE]
      OBVIOUS
    <2>2. new \in SessionRecord /\ new.sent = o.sent /\ new.losing
      BY <1>1, <2>1 DEF SessionRecord
    <2>3. session' = [session EXCEPT ![s] = new] /\ UNCHANGED <<job, times, best_share, current_work>>
      BY <1>5, <2>1 DEF SendFails, bridgeVars, parentVars, o
    <2> QED BY <2>2, <2>3, QuietJobs DEF Latest, o
  <1>6. CASE JobExpires(s)
    <2>1. PICK new : new = [o EXCEPT !.jobs = Tail(@)]
      OBVIOUS
    <2>2. o.jobs # <<>> /\ Tail(o.jobs) \in Seq(Nat)
      BY <1>1, <1>6 DEF JobExpires, o, SessionRecord
    <2>3. /\ new \in SessionRecord /\ new.sent = o.sent
          /\ (new.queued <=> o.queued) /\ (new.losing <=> o.losing)
      BY <1>1, <2>1, <2>2 DEF SessionRecord
    <2>4. Latest(new)
      BY <1>2, <2>3 DEF Latest
    <2>5. session' = [session EXCEPT ![s] = new] /\ UNCHANGED <<job, times, best_share, current_work>>
      BY <1>6, <2>1 DEF JobExpires, bridgeVars, parentVars, o
    <2> QED BY <2>3, <2>4, <2>5, QuietJobs DEF o
  <1>7. CASE \/ rpc_subscribe(s) \/ rpc_configure(s)
             \/ \E wish \in Wishes \cup {no_wish} : rpc_authorize(s, wish)
    <2>1. PICK new \in SessionRecord :
            /\ session' = [session EXCEPT ![s] = new]
            /\ new.sent = o.sent
            /\ o.queued => new.queued \/ new.losing
            /\ ~o.losing /\ UNCHANGED bridgeVars
      BY <1>7, SetupCallEffect DEF TypesHold, o
    <2>2. UNCHANGED <<job, times, best_share, current_work>>
      BY <1>7, <2>1, SetupKeepsParent DEF bridgeVars, parentVars
    <2>3. Latest(new)
      BY <1>2, <2>1 DEF Latest
    <2> QED BY <2>1, <2>2, <2>3, QuietJobs DEF o
  <1> QED BY <1>3, <1>4, <1>5, <1>6, <1>7

\* A job made is the session's last, and of now.
LEMMA SendWorkJobs ==
  ASSUME TypesHold, JobInv, current_work \in Work, bound \in Bounds, NEW s \in Session, SendWork(s)
  PROVE  JobInv'
  <1>1. PICK new \in JobRecord, next \in SessionRecord :
           /\ job' = Append(job, new)
           /\ new.previous = best_share /\ new.on = current_work.on /\ new.txs = current_work.txs
           /\ new.times = times
           /\ session' = [session EXCEPT ![s] = next]
           /\ next.sent = Len(job) + 1
           /\ UNCHANGED <<best_share, times, current_work>>
    BY SendWorkEffect
  <1>2. job \in Seq(JobRecord) /\ times \in Nat /\ Len(job) + 1 \in Nat
    BY DEF TypesHold, Shapes
  <1>3. /\ DOMAIN job' = DOMAIN job \cup {Len(job) + 1} /\ job'[Len(job) + 1] = new
        /\ \A j \in DOMAIN job : job'[j] = job[j]
    BY <1>1, <1>2
  <1>4. \A t \in Session : session'[t] = IF t = s THEN next ELSE session[t]
    BY <1>1 DEF TypesHold, Shapes
  <1>5. JobsKnown'
    BY <1>1, <1>2, <1>3, <1>4 DEF JobInv, JobsKnown
  <1>6. JobsNow'
    BY <1>1, <1>3 DEF JobInv, JobsNow, on_time
  <1>7. ASSUME NEW t \in Session PROVE Latest(session[t])'
    <2>1. CASE t = s
      BY <1>1, <1>3, <1>4, <2>1 DEF Latest, on_time
    <2>2. CASE t # s
      BY <1>1, <1>3, <1>4, <2>2 DEF JobInv, JobsKnown, SessionsLatest, Latest, on_time
    <2> QED BY <2>1, <2>2
  <1>8. SessionsLatest'
    BY <1>7 DEF SessionsLatest
  <1> QED BY <1>5, <1>6, <1>8 DEF JobInv

\* A header returned changes what a job has received and perhaps the best share.
LEMMA AnsweredJobs ==
  ASSUME TypesHold, JobInv, NEW s \in Session, NEW j \in DOMAIN job, NEW p \in Hashes, NEW n \in Nat,
         session[s].open, j \in Sq!ToSet(session[s].jobs), Answered(s, j, p, n),
         UNCHANGED <<active_connections, current_work>>,
         n = 0 => best_share' = best_share
  PROVE  JobInv'
  <1>1. PICK q \in SessionRecord :
          Happened(n, [session EXCEPT ![s] = q]) /\ AnsweredSession(session[s], q)
    BY AnsweredEffect DEF TypesHold
  <1>2. /\ job' \in Seq(JobRecord) /\ Len(job') = Len(job)
        /\ \A i \in DOMAIN job :
             /\ job'[i].previous = job[i].previous /\ job'[i].on = job[i].on
             /\ job'[i].txs = job[i].txs /\ job'[i].times = job[i].times
    BY AnsweredEffect DEF TypesHold
  <1>3. /\ times' = times + n /\ session' \in [Session -> SessionRecord]
        /\ n = 0 => session' = [session EXCEPT ![s] = q]
    BY <1>1, AnsweredSessions
  <1>4. ASSUME NEW t \in Session
        PROVE  /\ session'[t].losing <=> session[t].losing
               /\ session'[t].sent = session[t].sent
               /\ n > 0 /\ session[t].open => session'[t].queued
    BY <1>1, AnsweredSessions
  <1>5. ASSUME NEW t \in Session, n = 0, session[t].queued
        PROVE  session'[t].queued
    BY <1>1, <1>3, <1>5 DEF AnsweredSession, TypesHold, Shapes
  <1> QED BY <1>2, <1>3, <1>4, <1>5, SameWorkIsNoNews, EventJobs

LEMMA SubmitJobs ==
  ASSUME TypesHold, JobInv, NEW s \in Session, NEW j \in DOMAIN job, NEW p \in Hashes, rpc_submit(s, j, p)
  PROVE  JobInv'
  <1>1. /\ session[s].open /\ j \in Sq!ToSet(session[s].jobs)
        /\ UNCHANGED <<active_connections, current_work>>
    BY SubmitCases
  <1>2. CASE Taken(s, j, p)
    BY <1>1, <1>2, NewsIsNat, NoBestNews, AnsweredJobs DEF Taken
  <1>3. CASE Raised(s, j, p)
    <2>1. UNCHANGED <<best_share, times, job, current_work>> /\ session' = [session EXCEPT ![s] = Asked(s, j)]
      BY <1>1, <1>3 DEF Raised
    <2>2. PICK q \in SessionRecord : q = Asked(s, j) /\ AnsweredSession(session[s], q)
      BY <1>1, AskedSession DEF TypesHold
    <2>3. Latest(session[s])
      BY DEF JobInv, SessionsLatest
    <2>4. Latest(q) /\ q.sent = session[s].sent
      BY <2>2, <2>3 DEF Latest, AnsweredSession
    <2> QED BY <2>1, <2>2, <2>4, QuietJobs
  <1>4. CASE AsPseudoshare(s, j, p)
    BY <1>1, <1>4, AnsweredJobs DEF AsPseudoshare
  <1> QED BY <1>2, <1>3, <1>4, SubmitCases

LEMMA JobsInit == WorkInit => JobInv
  BY ClosedShape DEF WorkInit, JobInv, JobsKnown, JobsNow, SessionsLatest, Latest

LEMMA JobsNext ==
  ASSUME TypesHold, Outside, JobInv, [WorkNext]_workVars
  PROVE  JobInv'
  <1>1. ASSUME NEW b \in bound.blocks, NEW txs \in TxChoices, NodeGotWork([on |-> b, txs |-> txs])
        PROVE  JobInv'
    BY <1>1, NodeJobs
  <1>2. ASSUME NEW b \in bound.blocks, NodeHeader(b) PROVE JobInv'
    BY <1>2, NodeJobs
  <1>3. ASSUME NEW h \in items \cup {None}, PeerShare(h) PROVE JobInv'
    BY <1>3, NodeJobs
  <1>4. CASE DropHead \/ DropTails
    BY <1>4, NodeJobs DEF DropHead, DropTails
  <1>5. ASSUME NEW s \in Session,
               \/ Connect(s) \/ Disconnect(s) \/ SendFails(s) \/ JobExpires(s)
               \/ rpc_subscribe(s) \/ rpc_configure(s) \/ \E wish \in Wishes \cup {no_wish} : rpc_authorize(s, wish)
        PROVE  JobInv'
    BY <1>5, SessionJobs
  <1>6. ASSUME NEW s \in Session, SendWork(s) PROVE JobInv'
    BY <1>6, CurrentWorkType, SendWorkJobs
  <1>7. ASSUME NEW s \in Session, NEW j \in DOMAIN job, NEW p \in Hashes, rpc_submit(s, j, p)
        PROVE  JobInv'
    BY <1>7, SubmitJobs
  <1>8. CASE UNCHANGED workVars
    BY <1>8 DEF workVars, bridgeVars, parentVars, JobInv, JobsKnown, JobsNow, SessionsLatest, Latest, on_time
  <1> QED BY <1>1, <1>2, <1>3, <1>4, <1>5, <1>6, <1>7, <1>8 DEF WorkNext

\* No change that matters is missed: a job counted as on time is built on the best share and the
\* parent work of its moment, and a session that waits for nothing has such a job; for any number
\* of miners, jobs, shares and blocks (work.py:154-170, 478-486, stratum.py:70-104).
THEOREM JobsStayCurrent == WorkSpec => []JobsCurrent
  <1>1. JobInv => JobsCurrent
    BY DEF JobInv, JobsNow, SessionsLatest, Latest, JobsCurrent
  <1>2. WorkSpec => []JobInv
    BY AllTypesHold, JobsInit, JobsNext, PTL DEF WorkSpec
  <1> QED BY <1>1, <1>2, PTL

-----------------------------------------------------------------------------
\* Headers are taken once, but for those taken from above their session's target.

\* Every share a miner here has found was told of, and is among what its job has received, or was
\* taken from a header above its session's target.
Recorded ==
  \A h \in DOMAIN share : share[h].job # 0 =>
    /\ share[h].job \in DOMAIN job
    /\ h \in unrecorded \/ share[h].hash \in job[share[h].job].received
    /\ \E i \in DOMAIN shares_received : shares_received[i] = h

ToldOfShares ==
  /\ shares_received \in Seq(Nat)
  /\ \A i \in DOMAIN shares_received : shares_received[i] \in DOMAIN share

\* Where none was taken again, the view has summed none that was alive and is dead now.
SeenAsTheyAre == TakenOnce => unseen = {}

TakenInv == Recorded /\ ToldOfShares /\ TakenAgain /\ SeenAsTheyAre /\ IsFiniteSet(my_share_hashes)

LEMMA ToldMore ==
  ASSUME NEW told \in Seq(Nat), NEW h \in Nat, NEW more, more = Append(told, h)
  PROVE  /\ more \in Seq(Nat) /\ DOMAIN more = DOMAIN told \cup {Len(told) + 1}
         /\ Len(told) + 1 \notin DOMAIN told /\ more[Len(told) + 1] = h
         /\ \A i \in DOMAIN told : more[i] = told[i]
  OBVIOUS

\* Where no share comes and none is told of.
LEMMA QuietTaken ==
  ASSUME TakenInv, UNCHANGED <<share, job, my_share_hashes, shares_received, unrecorded, raised>>,
         unseen' \subseteq unseen
  PROVE  TakenInv'
  BY DEF TakenInv, Recorded, ToldOfShares, TakenAgain, SeenAsTheyAre, TakenOnce

LEMMA NodeTaken ==
  ASSUME TakenInv,
         \/ \E work : NodeGotWork(work)
         \/ \E b : NodeHeader(b)
         \/ DropHead \/ DropTails
  PROVE  TakenInv'
  <1>1. UNCHANGED <<share, job, my_share_hashes, shares_received, unrecorded, raised>>
    BY DEF NodeGotWork, NodeHeader, DropHead, DropTails, TakeOut
  <1>2. unseen' \subseteq unseen
    BY DEF NodeGotWork, NodeHeader, DropHead, DropTails
  <1> QED BY <1>1, <1>2, QuietTaken

\* A share of another node is none that a miner here has found.
LEMMA PeerShareTaken ==
  ASSUME TypesHold, TakenInv, NEW previous \in items \cup {None}, PeerShare(previous)
  PROVE  TakenInv'
  <1>1. PICK e : e = [previous |-> previous, job |-> 0, hash |-> 0, stale_info |-> "none"]
    OBVIOUS
  <1>2. e \in ShareRecord /\ e.job = 0
    BY <1>1 DEF TypesHold, Shapes, SharesKnown, ShareRecord, Stale, None
  <1>3. /\ share' = Append(share, e)
        /\ UNCHANGED <<job, my_share_hashes, shares_received, unrecorded, raised, unseen>>
    BY <1>1 DEF PeerShare
  <1>4. share \in Seq(ShareRecord)
    BY DEF TypesHold, Shapes
  <1>5. Recorded' /\ ToldOfShares'
    BY <1>2, <1>3, <1>4, OneShareMore DEF TakenInv, Recorded, ToldOfShares
  <1> QED BY <1>3, <1>5 DEF TakenInv, TakenAgain, SeenAsTheyAre, TakenOnce

LEMMA SessionTaken ==
  ASSUME TakenInv, NEW s \in Session,
         \/ Connect(s) \/ Disconnect(s) \/ SendFails(s) \/ JobExpires(s)
         \/ rpc_subscribe(s) \/ rpc_configure(s) \/ \E wish \in Wishes \cup {no_wish} : rpc_authorize(s, wish)
  PROVE  TakenInv'
  <1>1. UNCHANGED bridgeVars
    BY DEF Connect, Disconnect, SendFails, JobExpires, rpc_subscribe, rpc_configure, rpc_authorize, SetupCall
  <1> QED BY <1>1, QuietTaken DEF bridgeVars

LEMMA SendWorkTaken ==
  ASSUME TypesHold, TakenInv, current_work \in Work, bound \in Bounds, NEW s \in Session, SendWork(s)
  PROVE  TakenInv'
  <1>1. PICK new \in JobRecord :
           /\ job' = Append(job, new)
           /\ UNCHANGED <<share, my_share_hashes, shares_received, unrecorded, raised, unseen>>
    BY SendWorkEffect
  <1>2. DOMAIN job \subseteq DOMAIN job' /\ \A j \in DOMAIN job : job'[j] = job[j]
    BY <1>1 DEF TypesHold, Shapes
  <1>3. Recorded'
    BY <1>1, <1>2 DEF TakenInv, Recorded
  <1> QED BY <1>1, <1>3 DEF TakenInv, ToldOfShares, TakenAgain, SeenAsTheyAre, TakenOnce

\* A job that has received more records what it did.
LEMMA AnsweredTaken ==
  ASSUME TypesHold, NEW s \in Session, NEW j \in DOMAIN job, NEW p \in Hashes, NEW n \in Nat,
         session[s].open, j \in Sq!ToSet(session[s].jobs), Answered(s, j, p, n)
  PROVE  /\ DOMAIN job' = DOMAIN job
         /\ \A i \in DOMAIN job : job[i].received \subseteq job'[i].received
  <1>1. /\ job' \in Seq(JobRecord) /\ Len(job') = Len(job)
        /\ \A i \in DOMAIN job : job[i].received \subseteq job'[i].received
    BY AnsweredEffect DEF TypesHold
  <1> QED BY <1>1 DEF TypesHold, Shapes

\* A share that is not new was taken from a header above its session's target, for otherwise its job
\* would have received the header; and it was told of.
LEMMA ShareAgain ==
  ASSUME TypesHold, TakenInv, NEW j \in DOMAIN job, NEW p, IsShare(j, p), ShareOf(j, p) \in DOMAIN share
  PROVE  /\ ShareOf(j, p) \in unrecorded
         /\ \E i \in DOMAIN shares_received : shares_received[i] = ShareOf(j, p)
  <1>1. j \in 1 .. Len(job)
    BY JobIsRecord DEF TypesHold
  <1>2. PICK h \in DOMAIN share : h = ShareOf(j, p)
    OBVIOUS
  <1>3. share \in Seq(ShareRecord)
    BY DEF TypesHold, Shapes
  <1>4. share[h].job = j /\ share[h].hash = p
    BY <1>2, <1>3, ShareOfIs
  <1> QED BY <1>1, <1>2, <1>4 DEF TakenInv, Recorded, IsShare

\* What was told of, when one share more is.
LEMMA TakenTold ==
  ASSUME TypesHold, TakenInv, NEW s \in Session, NEW j \in DOMAIN job, NEW p \in Hashes,
         Found(j, p), Taken(s, j, p)
  PROVE  /\ ShareOf(j, p) \in Nat /\ shares_received \in Seq(Nat)
         /\ shares_received' = Append(shares_received, ShareOf(j, p))
  <1>1. share \in Seq(ShareRecord)
    BY DEF TypesHold, Shapes
  <1>2. ShareOf(j, p) \in Nat
    BY <1>1, ShareOfIs
  <1> QED BY <1>2 DEF Taken, TakenInv, ToldOfShares

\* So where shares are still told of once, the one taken is new.
LEMMA ShareIsNew ==
  ASSUME TypesHold, TakenInv, NEW s \in Session, NEW j \in DOMAIN job, NEW p \in Hashes,
         IsShare(j, p), Found(j, p), Taken(s, j, p), TakenOnce'
  PROVE  ShareOf(j, p) \notin DOMAIN share
  <1>1. SUFFICES ASSUME ShareOf(j, p) \in DOMAIN share PROVE FALSE
    OBVIOUS
  <1>2. PICK told, more, h : told = shares_received /\ more = shares_received' /\ h = ShareOf(j, p)
    OBVIOUS
  <1>3. h \in Nat /\ told \in Seq(Nat) /\ more = Append(told, h)
    BY <1>2, TakenTold
  <1>4. /\ DOMAIN more = DOMAIN told \cup {Len(told) + 1}
        /\ Len(told) + 1 \notin DOMAIN told /\ more[Len(told) + 1] = h
        /\ \A i \in DOMAIN told : more[i] = told[i]
    BY <1>3, ToldMore
  <1>5. PICK i \in DOMAIN told : told[i] = h
    BY <1>1, <1>2, ShareAgain
  <1>6. \A a, c \in DOMAIN more : more[a] = more[c] => a = c
    BY <1>2 DEF TakenOnce
  <1> QED BY <1>4, <1>5, <1>6

\* Whatever is taken, what was taken once before was so too.
LEMMA OnceBefore ==
  ASSUME TypesHold, TakenInv, [WorkNext]_workVars, TakenOnce'
  PROVE  TakenOnce
  <1>1. CASE UNCHANGED <<shares_received, raised>>
    BY <1>1 DEF TakenOnce
  <1>2. ASSUME NEW s \in Session, NEW j \in DOMAIN job, NEW p \in Hashes, Found(j, p), Taken(s, j, p)
        PROVE  TakenOnce
    <2>1. PICK told, more, h : told = shares_received /\ more = shares_received' /\ h = ShareOf(j, p)
      OBVIOUS
    <2>2. h \in Nat /\ told \in Seq(Nat) /\ more = Append(told, h)
      BY <1>2, <2>1, TakenTold
    <2>3. DOMAIN told \subseteq DOMAIN more /\ \A i \in DOMAIN told : more[i] = told[i]
      BY <2>2, ToldMore
    <2>4. raised = {} /\ \A a, c \in DOMAIN more : more[a] = more[c] => a = c
      BY <1>2, <2>1 DEF TakenOnce, Taken
    <2> QED BY <2>1, <2>3, <2>4 DEF TakenOnce
  <1>3. ASSUME NEW s \in Session, NEW j \in DOMAIN job, NEW p \in Hashes, rpc_submit(s, j, p)
        PROVE  TakenOnce
    <2>1. ASSUME Raised(s, j, p) PROVE FALSE
      BY <2>1 DEF Raised, TakenOnce
    <2>2. CASE AsPseudoshare(s, j, p)
      BY <1>1, <2>2 DEF AsPseudoshare
    <2> QED BY <1>2, <1>3, <2>1, <2>2, SubmitCases
  <1>4. ASSUME NEW s \in Session,
               \/ Connect(s) \/ Disconnect(s) \/ SendFails(s) \/ JobExpires(s) \/ SendWork(s)
               \/ rpc_subscribe(s) \/ rpc_configure(s) \/ \E wish \in Wishes \cup {no_wish} : rpc_authorize(s, wish)
        PROVE  UNCHANGED <<shares_received, raised>>
    BY <1>4 DEF Connect, Disconnect, SendFails, JobExpires, SendWork, rpc_subscribe, rpc_configure,
                rpc_authorize, SetupCall, bridgeVars
  <1>5. ASSUME \/ \E b \in bound.blocks, txs \in TxChoices : NodeGotWork([on |-> b, txs |-> txs])
               \/ \E b \in bound.blocks : NodeHeader(b)
               \/ \E h \in items \cup {None} : PeerShare(h)
               \/ DropHead \/ DropTails
        PROVE  UNCHANGED <<shares_received, raised>>
    BY <1>5 DEF NodeGotWork, NodeHeader, PeerShare, DropHead, DropTails, TakeOut
  <1>6. ASSUME UNCHANGED workVars PROVE UNCHANGED <<shares_received, raised>>
    BY <1>6 DEF workVars, bridgeVars
  <1> QED BY <1>1, <1>3, <1>4, <1>5, <1>6 DEF WorkNext

LEMMA TakenTaken ==
  ASSUME TypesHold, TakenInv, NEW s \in Session, NEW j \in DOMAIN job, NEW p \in Hashes,
         session[s].open, j \in Sq!ToSet(session[s].jobs), IsShare(j, p), Found(j, p), Taken(s, j, p),
         TakenOnce' => TakenOnce
  PROVE  TakenInv'
  <1>1. BestNews \in Nat /\ Answered(s, j, p, BestNews)
    BY NewsIsNat DEF Taken
  <1>2. /\ DOMAIN job' = DOMAIN job
        /\ \A i \in DOMAIN job : job[i].received \subseteq job'[i].received
    BY <1>1, AnsweredTaken
  <1>3. PICK told, more, h : told = shares_received /\ more = shares_received' /\ h = ShareOf(j, p)
    OBVIOUS
  <1>4. h \in Nat /\ told \in Seq(Nat) /\ more = Append(told, h)
    BY <1>3, TakenTold
  <1>5. /\ more \in Seq(Nat) /\ DOMAIN more = DOMAIN told \cup {Len(told) + 1}
        /\ Len(told) + 1 \notin DOMAIN told /\ more[Len(told) + 1] = h
        /\ \A i \in DOMAIN told : more[i] = told[i]
    BY <1>4, ToldMore
  <1>6. /\ DOMAIN share' = DOMAIN share \cup {h}
        /\ \A x \in DOMAIN share : share'[x] = share[x]
        /\ h \notin DOMAIN share => share'[h].job = j /\ share'[h].hash = p
        /\ my_share_hashes' = my_share_hashes \cup {h}
    BY <1>3, FoundEffect
  <1>7. unrecorded' = unrecorded \cup (IF p <= session[s].target THEN {} ELSE {h}) /\ raised' = raised
    BY <1>3 DEF Taken
  <1>8. h \in DOMAIN share => h \in unrecorded
    BY <1>3, ShareAgain
  <1>9. h \in unrecorded' \/ p \in job'[j].received
    <2>1. CASE p <= session[s].target
      <3>1. IsPseudoshare(j, p, session[s].target)
        BY <2>1 DEF IsShare, IsPseudoshare
      <3> QED BY <1>1, <3>1, AnsweredEffect DEF TypesHold
    <2> QED BY <1>7, <2>1
  <1>10. Recorded'
    <2>1. ASSUME NEW x \in DOMAIN share, share'[x].job # 0
          PROVE  /\ share'[x].job \in DOMAIN job'
                 /\ x \in unrecorded' \/ share'[x].hash \in job'[share'[x].job].received
                 /\ \E i \in DOMAIN more : more[i] = x
      <3>1. share'[x] = share[x]
        BY <1>6
      <3>2. /\ share[x].job \in DOMAIN job
            /\ x \in unrecorded \/ share[x].hash \in job[share[x].job].received
            /\ \E i \in DOMAIN told : told[i] = x
        BY <1>3, <2>1, <3>1 DEF TakenInv, Recorded
      <3> QED BY <1>2, <1>5, <1>7, <3>1, <3>2
    <2>2. CASE h \in DOMAIN share
      BY <1>3, <1>6, <2>1, <2>2 DEF Recorded
    <2>3. CASE h \notin DOMAIN share
      <3>1. /\ share'[h].job \in DOMAIN job'
            /\ h \in unrecorded' \/ share'[h].hash \in job'[share'[h].job].received
            /\ \E i \in DOMAIN more : more[i] = h
        BY <1>2, <1>5, <1>6, <1>9, <2>3
      <3> QED BY <1>3, <1>6, <2>1, <3>1 DEF Recorded
    <2> QED BY <2>2, <2>3
  <1>11. ToldOfShares'
    BY <1>3, <1>5, <1>6 DEF TakenInv, ToldOfShares
  <1>12. \A i \in DOMAIN told : told[i] = h => h \in unrecorded
    BY <1>3, <1>8 DEF TakenInv, ToldOfShares
  <1>13. TakenAgain'
    <2>1. ASSUME NEW i \in DOMAIN more, NEW k \in DOMAIN more, more[i] = more[k], i # k
          PROVE  more[i] \in unrecorded
      <3>1. CASE i \in DOMAIN told /\ k \in DOMAIN told
        BY <1>3, <1>5, <2>1, <3>1 DEF TakenInv, TakenAgain
      <3>2. CASE i = Len(told) + 1 \/ k = Len(told) + 1
        BY <1>5, <1>12, <2>1, <3>2
      <3> QED BY <1>5, <3>1, <3>2
    <2>2. raised' \subseteq unrecorded'
      BY <1>7 DEF TakenInv, TakenAgain
    <2> QED BY <1>3, <1>7, <2>1, <2>2 DEF TakenAgain
  <1>14. SeenAsTheyAre'
    <2>1. SUFFICES ASSUME TakenOnce' PROVE unseen' = {}
      BY DEF SeenAsTheyAre
    <2>2. h \notin items
      BY <1>3, <2>1, ShareIsNew DEF TypesHold, SharesKnown
    <2>3. unseen' = unseen
      BY <1>3, <2>2 DEF Found
    <2> QED BY <2>1, <2>3 DEF TakenInv, SeenAsTheyAre
  <1>15. IsFiniteSet(my_share_hashes')
    BY <1>6, FS_AddElement DEF TakenInv
  <1> QED BY <1>10, <1>11, <1>13, <1>14, <1>15 DEF TakenInv

\* What tracker.add was given is there already.
LEMMA RaisedTaken ==
  ASSUME TypesHold, TakenInv, NEW s \in Session, NEW j \in DOMAIN job, NEW p \in Hashes,
         IsShare(j, p), Found(j, p), Raised(s, j, p), ShareOf(j, p) \in items
  PROVE  TakenInv'
  <1>1. PICK h : h = ShareOf(j, p)
    OBVIOUS
  <1>2. h \in DOMAIN share /\ h \in unrecorded
    BY <1>1, ShareAgain DEF TypesHold, SharesKnown
  <1>3. /\ UNCHANGED <<share, job, shares_received, unrecorded>> /\ raised' = raised \cup {h}
        /\ my_share_hashes' = my_share_hashes \cup {h}
    BY <1>1, <1>2 DEF Raised, Found
  <1>4. Recorded' /\ ToldOfShares'
    BY <1>3 DEF TakenInv, Recorded, ToldOfShares
  <1>5. TakenAgain'
    BY <1>2, <1>3 DEF TakenInv, TakenAgain
  <1>6. SeenAsTheyAre'
    BY <1>3 DEF SeenAsTheyAre, TakenOnce
  <1>7. IsFiniteSet(my_share_hashes')
    BY <1>3, FS_AddElement DEF TakenInv
  <1> QED BY <1>4, <1>5, <1>6, <1>7 DEF TakenInv

LEMMA SubmitTaken ==
  ASSUME TypesHold, TakenInv, NEW s \in Session, NEW j \in DOMAIN job, NEW p \in Hashes, rpc_submit(s, j, p),
         TakenOnce' => TakenOnce
  PROVE  TakenInv'
  <1>1. session[s].open /\ j \in Sq!ToSet(session[s].jobs)
    BY SubmitCases
  <1>2. CASE IsShare(j, p) /\ Found(j, p) /\ Taken(s, j, p)
    BY <1>1, <1>2, TakenTaken
  <1>3. CASE IsShare(j, p) /\ Found(j, p) /\ Raised(s, j, p) /\ ShareOf(j, p) \in items
    BY <1>3, RaisedTaken
  <1>4. CASE AsPseudoshare(s, j, p)
    <2>1. Answered(s, j, p, 0)
          /\ UNCHANGED <<share, my_share_hashes, shares_received, unrecorded, raised, unseen>>
      BY <1>4 DEF AsPseudoshare
    <2>2. /\ DOMAIN job' = DOMAIN job
          /\ \A i \in DOMAIN job : job[i].received \subseteq job'[i].received
      BY <1>1, <2>1, AnsweredTaken
    <2>3. Recorded'
      BY <2>1, <2>2 DEF TakenInv, Recorded
    <2> QED BY <2>1, <2>3 DEF TakenInv, ToldOfShares, TakenAgain, SeenAsTheyAre, TakenOnce
  <1> QED BY <1>2, <1>3, <1>4, SubmitCases

LEMMA TakenInit == WorkInit => TakenInv
  BY FS_EmptySet DEF WorkInit, TakenInv, Recorded, ToldOfShares, TakenAgain, SeenAsTheyAre

LEMMA TakenNext ==
  ASSUME TypesHold, Outside, TakenInv, [WorkNext]_workVars
  PROVE  TakenInv'
  <1>1. ASSUME NEW b \in bound.blocks, NEW txs \in TxChoices, NodeGotWork([on |-> b, txs |-> txs])
        PROVE  TakenInv'
    BY <1>1, NodeTaken
  <1>2. ASSUME NEW b \in bound.blocks, NodeHeader(b) PROVE TakenInv'
    BY <1>2, NodeTaken
  <1>3. ASSUME NEW h \in items \cup {None}, PeerShare(h) PROVE TakenInv'
    BY <1>3, PeerShareTaken
  <1>4. CASE DropHead \/ DropTails
    BY <1>4, NodeTaken
  <1>5. ASSUME NEW s \in Session,
               \/ Connect(s) \/ Disconnect(s) \/ SendFails(s) \/ JobExpires(s)
               \/ rpc_subscribe(s) \/ rpc_configure(s) \/ \E wish \in Wishes \cup {no_wish} : rpc_authorize(s, wish)
        PROVE  TakenInv'
    BY <1>5, SessionTaken
  <1>6. ASSUME NEW s \in Session, SendWork(s) PROVE TakenInv'
    BY <1>6, CurrentWorkType, SendWorkTaken
  <1>7. ASSUME NEW s \in Session, NEW j \in DOMAIN job, NEW p \in Hashes, rpc_submit(s, j, p)
        PROVE  TakenInv'
    BY <1>7, OnceBefore, SubmitTaken
  <1>8. CASE UNCHANGED workVars
    BY <1>8, QuietTaken DEF workVars, bridgeVars
  <1> QED BY <1>1, <1>2, <1>3, <1>4, <1>5, <1>6, <1>7, <1>8 DEF WorkNext

\* Whatever the targets of jobs and sessions and however they change: a header that was taken as a
\* share is taken again, told of again or added again only where it was above its session's target
\* when it was taken before, the one case in which the place where headers are recorded
\* (work.py:599-606) leaves out one that the other place takes (work.py:554).
THEOREM HeadersTakenAgain == WorkSpec => []TakenAgain
  <1>1. TypesHold /\ Outside /\ TakenInv /\ [WorkNext]_workVars => TakenInv'
    BY TakenNext
  <1>2. TakenInv => TakenAgain
    BY DEF TakenInv
  <1> QED BY <1>1, <1>2, TakenInit, AllTypesHold, PTL DEF WorkSpec

-----------------------------------------------------------------------------
\* Walks down the chains: the shares a walk of Chain meets, as a set.

Linked(sh) == sh \in Seq(ShareRecord) /\ BackLinked(sh)

On(sh, S, x) == Sq!ToSet(Walk(sh, S, x))
Full(sh, x) == On(sh, 1 .. Len(sh), x)

LEMMA PathIsWalk == \A S, x : PathIn(S, x) = Walk(share, S, x)
  BY DEF PathIn, Walk, Steps

\* Records that each name an earlier one.
LEMMA LinkedIs ==
  ASSUME NEW sh
  PROVE  Linked(sh) <=> sh \in Seq(ShareRecord) /\ \A h \in 1 .. Len(sh) : sh[h].previous < h
  <1>1. ASSUME sh \in Seq(ShareRecord)
        PROVE  Len(sh) \in Nat /\ \A h \in 1 .. Len(sh) : sh[h].previous \in Nat
    <2>1. ASSUME NEW h \in 1 .. Len(sh) PROVE sh[h].previous \in Nat
      <3>1. PICK r : r = sh[h] /\ r \in ShareRecord
        BY <1>1
      <3> QED BY <3>1 DEF ShareRecord
    <2> QED BY <1>1, <2>1
  <1> QED BY <1>1 DEF Linked, BackLinked

LEMMA LinkedPrevious ==
  ASSUME NEW sh, Linked(sh), NEW h \in 1 .. Len(sh)
  PROVE  /\ Len(sh) \in Nat /\ h \in Nat /\ sh[h].previous \in Nat /\ sh[h].previous < h
         /\ h \in 0 .. Len(sh) /\ sh[h].previous \in 0 .. Len(sh) /\ sh[h] \in ShareRecord
  <1>1. sh \in Seq(ShareRecord) /\ Len(sh) \in Nat /\ BackLinked(sh)
    BY DEF Linked
  <1>2. sh[h] \in ShareRecord
    BY <1>1
  <1> QED BY <1>1, <1>2, PreviousIs

LEMMA OnSteps ==
  ASSUME NEW sh, Linked(sh), NEW S \in SUBSET (1 .. Len(sh)), NEW x \in 0 .. Len(sh)
  PROVE  /\ x \in S => On(sh, S, x) = {x} \cup On(sh, S, sh[x].previous)
         /\ x \notin S => On(sh, S, x) = {}
  <1>1. CASE x \in S
    <2>1. sh[x].previous \in 0 .. Len(sh)
      BY <1>1, LinkedPrevious
    <2>2. PICK w \in Seq(Nat) : w = Walk(sh, S, sh[x].previous)
      BY <2>1, WalkSteps DEF Linked
    <2>3. Walk(sh, S, x) = <<x>> \o w
      BY <1>1, <2>2, WalkSteps DEF Linked
    <2>4. Sq!ToSet(<<x>> \o w) = {x} \cup Sq!ToSet(w)
      <3>1. PICK v : v = <<x>> \o w
        OBVIOUS
      <3>2. Len(v) = Len(w) + 1 /\ DOMAIN v = 1 .. Len(v) /\ v[1] = x
            /\ \A i \in 1 .. Len(w) : v[i + 1] = w[i]
        BY <3>1, <2>2
      <3>3. \A i \in DOMAIN v : i = 1 \/ (i - 1 \in 1 .. Len(w) /\ v[i] = w[i - 1])
        BY <3>2, <2>2
      <3>4. ASSUME NEW i \in 1 .. Len(w) PROVE i + 1 \in DOMAIN v /\ v[i + 1] = w[i]
        BY <3>2
      <3>5. DOMAIN w = 1 .. Len(w) /\ 1 \in DOMAIN v
        BY <2>2, <3>2
      <3>6. {v[i] : i \in DOMAIN v} = {x} \cup {w[i] : i \in DOMAIN w}
        <4>1. ASSUME NEW i \in DOMAIN v PROVE v[i] \in {x} \cup {w[k] : k \in DOMAIN w}
          BY <3>2, <3>3, <3>5
        <4>2. ASSUME NEW i \in DOMAIN w PROVE w[i] \in {v[k] : k \in DOMAIN v}
          BY <3>4, <3>5
        <4>3. x \in {v[k] : k \in DOMAIN v}
          BY <3>2, <3>5
        <4> QED BY <4>1, <4>2, <4>3
      <3> QED BY <3>1, <3>6 DEF Sq!ToSet
    <2> QED BY <1>1, <2>2, <2>3, <2>4 DEF On
  <1>2. CASE x \notin S
    <2>1. Walk(sh, S, x) = <<>>
      BY <1>2, WalkSteps DEF Linked
    <2>2. Sq!ToSet(<<>>) = {}
      <3>1. DOMAIN <<>> = {}
        OBVIOUS
      <3> QED BY <3>1 DEF Sq!ToSet
    <2> QED BY <1>2, <2>1, <2>2 DEF On
  <1> QED BY <1>1, <1>2

\* What a walk meets: shares of S no later than where it starts, and all that walks from them meet.
LEMMA OnBelow ==
  ASSUME NEW sh, Linked(sh), NEW S \in SUBSET (1 .. Len(sh)), NEW x \in 0 .. Len(sh)
  PROVE  /\ x \in S => x \in On(sh, S, x)
         /\ \A y \in On(sh, S, x) : y \in S /\ y <= x /\ On(sh, S, y) \subseteq On(sh, S, x)
  <1> DEFINE Ok(z) == \A y \in On(sh, S, z) : y \in S /\ y <= z /\ On(sh, S, y) \subseteq On(sh, S, z)
             T == {z \in 0 .. Len(sh) : Ok(z)}
  <1>1. ASSUME NEW z \in 0 .. Len(sh), \A y \in 0 .. Len(sh) : y < z => y \in T
        PROVE  z \in T
    <2>1. CASE z \in S
      <3>1. /\ On(sh, S, z) = {z} \cup On(sh, S, sh[z].previous)
            /\ sh[z].previous \in 0 .. Len(sh) /\ sh[z].previous < z /\ z \in Nat
            /\ sh[z].previous \in Nat
        BY <2>1, OnSteps, LinkedPrevious
      <3>2. Ok(sh[z].previous)
        BY <1>1, <3>1
      <3>3. ASSUME NEW y \in On(sh, S, z) PROVE y \in S /\ y <= z /\ On(sh, S, y) \subseteq On(sh, S, z)
        <4>1. CASE y = z
          BY <2>1, <3>1, <4>1
        <4>2. CASE y \in On(sh, S, sh[z].previous)
          <5>1. y \in S /\ y <= sh[z].previous /\ On(sh, S, y) \subseteq On(sh, S, sh[z].previous)
            BY <3>2, <4>2
          <5>2. y \in Nat
            BY <5>1
          <5> QED BY <3>1, <5>1, <5>2
        <4> QED BY <3>1, <4>1, <4>2
      <3> QED BY <3>3
    <2>2. CASE z \notin S
      BY <2>2, OnSteps
    <2> QED BY <2>1, <2>2
  <1>2. Len(sh) \in Nat
    BY DEF Linked, BackLinked
  <1>3. x \in T
    <2> HIDE DEF T
    <2> QED BY <1>1, <1>2, ByShares
  <1>4. Ok(x)
    BY <1>3
  <1>5. x \in S => x \in On(sh, S, x)
    BY OnSteps
  <1> QED BY <1>4, <1>5

\* A share nothing is built on is met from nowhere else.
LEMMA MetFromItself ==
  ASSUME NEW sh, Linked(sh), NEW S \in SUBSET (1 .. Len(sh)), NEW x \in 0 .. Len(sh),
         NEW h, \A y \in S : sh[y].previous # h, h \in On(sh, S, x)
  PROVE  x = h
  <1> DEFINE T == {z \in 0 .. Len(sh) : h \in On(sh, S, z) => z = h}
  <1>1. ASSUME NEW z \in 0 .. Len(sh), \A y \in 0 .. Len(sh) : y < z => y \in T
        PROVE  z \in T
    <2>1. SUFFICES ASSUME h \in On(sh, S, z), z # h PROVE FALSE
      OBVIOUS
    <2>2. z \in S
      BY <2>1, OnSteps
    <2>3. /\ h \in On(sh, S, sh[z].previous)
          /\ sh[z].previous \in 0 .. Len(sh) /\ sh[z].previous < z
      BY <2>1, <2>2, OnSteps, LinkedPrevious
    <2>4. sh[z].previous = h
      BY <1>1, <2>3
    <2> QED BY <2>2, <2>4
  <1>2. Len(sh) \in Nat
    BY DEF Linked, BackLinked
  <1>3. x \in T
    <2> HIDE DEF T
    <2> QED BY <1>1, <1>2, ByShares
  <1> QED BY <1>3

\* Of a set that has, with each of its shares, the one before when that is there, nothing is left
\* in a walk when the set is gone; and a walk that meets none of a set is as before without it.
LEMMA OnCut ==
  ASSUME NEW sh, Linked(sh), NEW S \in SUBSET (1 .. Len(sh)), NEW R \in SUBSET S,
         \A y \in R : sh[y].previous \in S => sh[y].previous \in R
  PROVE  \A x \in 0 .. Len(sh) : On(sh, S \ R, x) = On(sh, S, x) \ R
  <1> DEFINE T == {z \in 0 .. Len(sh) : On(sh, S \ R, z) = On(sh, S, z) \ R}
  <1>0. S \ R \in SUBSET (1 .. Len(sh))
    OBVIOUS
  <1>1. ASSUME NEW z \in 0 .. Len(sh), \A y \in 0 .. Len(sh) : y < z => y \in T
        PROVE  z \in T
    <2>1. CASE z \in S
      <3>1. /\ On(sh, S, z) = {z} \cup On(sh, S, sh[z].previous)
            /\ sh[z].previous \in 0 .. Len(sh) /\ sh[z].previous < z
        BY <2>1, OnSteps, LinkedPrevious
      <3>2. On(sh, S \ R, sh[z].previous) = On(sh, S, sh[z].previous) \ R
        BY <1>1, <3>1
      <3>3. CASE z \in R
        <4>1. On(sh, S \ R, z) = {}
          BY <1>0, <3>3, OnSteps
        <4>2. sh[z].previous \notin S \ R
          BY <2>1, <3>3
        <4>3. On(sh, S \ R, sh[z].previous) = {}
          BY <1>0, <3>1, <4>2, OnSteps
        <4> QED BY <3>1, <3>2, <3>3, <4>1, <4>3
      <3>4. CASE z \notin R
        <4>1. On(sh, S \ R, z) = {z} \cup On(sh, S \ R, sh[z].previous)
          BY <1>0, <2>1, <3>4, OnSteps
        <4> QED BY <3>1, <3>2, <3>4, <4>1
      <3> QED BY <3>3, <3>4
    <2>2. CASE z \notin S
      <3>1. On(sh, S, z) = {} /\ On(sh, S \ R, z) = {}
        BY <1>0, <2>2, OnSteps
      <3> QED BY <3>1
    <2> QED BY <2>1, <2>2
  <1>2. Len(sh) \in Nat
    BY DEF Linked, BackLinked
  <1>3. \A x \in 0 .. Len(sh) : x \in T
    <2> HIDE DEF T
    <2> QED BY <1>1, <1>2, ByShares
  <1> QED BY <1>3

LEMMA OnWithout ==
  ASSUME NEW sh, Linked(sh), NEW S \in SUBSET (1 .. Len(sh)), NEW h, \A y \in S : sh[y].previous # h,
         NEW x \in 0 .. Len(sh), x # h
  PROVE  On(sh, S \ {h}, x) = On(sh, S, x)
  <1> DEFINE T == {z \in 0 .. Len(sh) : z # h => On(sh, S \ {h}, z) = On(sh, S, z)}
  <1>0. S \ {h} \in SUBSET (1 .. Len(sh))
    OBVIOUS
  <1>1. ASSUME NEW z \in 0 .. Len(sh), \A y \in 0 .. Len(sh) : y < z => y \in T
        PROVE  z \in T
    <2>1. SUFFICES ASSUME z # h PROVE On(sh, S \ {h}, z) = On(sh, S, z)
      OBVIOUS
    <2>2. CASE z \in S
      <3>1. /\ On(sh, S, z) = {z} \cup On(sh, S, sh[z].previous)
            /\ sh[z].previous \in 0 .. Len(sh) /\ sh[z].previous < z /\ sh[z].previous # h
        BY <2>2, OnSteps, LinkedPrevious
      <3>2. On(sh, S \ {h}, z) = {z} \cup On(sh, S \ {h}, sh[z].previous)
        BY <1>0, <2>1, <2>2, OnSteps
      <3>3. On(sh, S \ {h}, sh[z].previous) = On(sh, S, sh[z].previous)
        BY <1>1, <3>1
      <3> QED BY <3>1, <3>2, <3>3
    <2>3. CASE z \notin S
      <3>1. On(sh, S, z) = {} /\ On(sh, S \ {h}, z) = {}
        BY <1>0, <2>3, OnSteps
      <3> QED BY <3>1
    <2> QED BY <2>2, <2>3
  <1>2. Len(sh) \in Nat
    BY DEF Linked, BackLinked
  <1>3. x \in T
    <2> HIDE DEF T
    <2> QED BY <1>1, <1>2, ByShares
  <1> QED BY <1>3

\* Of two shares met by one walk, one is met from the other.
LEMMA OneMeetsOther ==
  ASSUME NEW sh, Linked(sh), NEW S \in SUBSET (1 .. Len(sh)), NEW x \in 0 .. Len(sh),
         NEW y \in On(sh, S, x), NEW z \in On(sh, S, x)
  PROVE  y \in On(sh, S, z) \/ z \in On(sh, S, y)
  <1> DEFINE T == {w \in 0 .. Len(sh) :
                     \A u, v \in On(sh, S, w) : u \in On(sh, S, v) \/ v \in On(sh, S, u)}
  <1>1. ASSUME NEW w \in 0 .. Len(sh), \A u \in 0 .. Len(sh) : u < w => u \in T
        PROVE  w \in T
    <2>1. CASE w \in S
      <3>1. /\ On(sh, S, w) = {w} \cup On(sh, S, sh[w].previous)
            /\ sh[w].previous \in 0 .. Len(sh) /\ sh[w].previous < w
        BY <2>1, OnSteps, LinkedPrevious
      <3>2. \A u, v \in On(sh, S, sh[w].previous) : u \in On(sh, S, v) \/ v \in On(sh, S, u)
        BY <1>1, <3>1
      <3> QED BY <3>1, <3>2
    <2>2. CASE w \notin S
      BY <2>2, OnSteps
    <2> QED BY <2>1, <2>2
  <1>2. Len(sh) \in Nat
    BY DEF Linked, BackLinked
  <1>3. x \in T
    <2> HIDE DEF T
    <2> QED BY <1>1, <1>2, ByShares
  <1> QED BY <1>3

\* More shares change no walk from an old one.
LEMMA OnExtended ==
  ASSUME NEW sh, Linked(sh), NEW more, Linked(more), Len(sh) <= Len(more),
         \A h \in 1 .. Len(sh) : more[h] = sh[h],
         NEW S \in SUBSET (1 .. Len(sh)), NEW S2 \in SUBSET (1 .. Len(more)),
         S2 \cap (1 .. Len(sh)) = S, NEW x \in 0 .. Len(sh)
  PROVE  On(more, S2, x) = On(sh, S, x)
  <1> DEFINE T == {z \in 0 .. Len(sh) : On(more, S2, z) = On(sh, S, z)}
  <1>2. Len(sh) \in Nat /\ Len(more) \in Nat
    BY DEF Linked, BackLinked
  <1>1. ASSUME NEW z \in 0 .. Len(sh), \A y \in 0 .. Len(sh) : y < z => y \in T
        PROVE  z \in T
    <2>0. z \in 0 .. Len(more)
      BY <1>2
    <2>1. CASE z \in S
      <3>1. /\ On(sh, S, z) = {z} \cup On(sh, S, sh[z].previous)
            /\ sh[z].previous \in 0 .. Len(sh) /\ sh[z].previous < z
        BY <2>1, OnSteps, LinkedPrevious
      <3>2. On(more, S2, z) = {z} \cup On(more, S2, more[z].previous) /\ more[z] = sh[z]
        BY <2>0, <2>1, OnSteps
      <3>3. On(more, S2, sh[z].previous) = On(sh, S, sh[z].previous)
        BY <1>1, <3>1
      <3> QED BY <3>1, <3>2, <3>3
    <2>2. CASE z \notin S
      <3>1. z \notin S2
        <4>1. z = 0 \/ z \in 1 .. Len(sh)
          BY <1>2
        <4> QED BY <2>2, <4>1
      <3>2. On(sh, S, z) = {} /\ On(more, S2, z) = {}
        BY <2>0, <2>2, <3>1, OnSteps
      <3> QED BY <3>2
    <2> QED BY <2>1, <2>2
  <1>3. x \in T
    <2> HIDE DEF T
    <2> QED BY <1>1, <1>2, ByShares
  <1> QED BY <1>3

\* Every share lies under one nothing is built on.
LEMMA UnderSomeHead ==
  ASSUME NEW sh, Linked(sh), NEW S \in SUBSET (1 .. Len(sh)), NEW x \in S
  PROVE  \E h \in S : x \in On(sh, S, h) /\ \A y \in S : sh[y].previous # h
  <1> DEFINE U == {h \in S : x \in On(sh, S, h)}
  <1>1. x \in U /\ U # {}
    <2>1. x \in 0 .. Len(sh)
      BY LinkedPrevious
    <2> QED BY <2>1, OnBelow
  <1>2. PICK h : h = Top(U)
    OBVIOUS
  <1>3. h \in U /\ \A y \in U : y <= h
    <2>1. Len(sh) \in Nat
      BY DEF Linked, BackLinked
    <2>2. U \in SUBSET (1 .. Len(sh))
      OBVIOUS
    <2> HIDE DEF U
    <2>3. h \in U /\ \A y \in U : h >= y
      BY <1>1, <1>2, <2>1, <2>2, TopOfIndices
    <2> QED BY <2>1, <2>2, <2>3
  <1>4. ASSUME NEW y \in S, sh[y].previous = h PROVE FALSE
    <2>1. On(sh, S, y) = {y} \cup On(sh, S, h) /\ h < y /\ h \in Nat /\ y \in Nat
      BY <1>4, OnSteps, LinkedPrevious
    <2>2. y \in U
      BY <1>3, <2>1
    <2>3. y <= h
      BY <1>3, <2>2
    <2> QED BY <2>1, <2>3
  <1> QED BY <1>3, <1>4

\* What lies under every head is in every walk from what is not part of it.
LEMMA TrunkCut ==
  ASSUME NEW sh, Linked(sh), NEW S \in SUBSET (1 .. Len(sh)), NEW R \in SUBSET S,
         \A y \in R : sh[y].previous \in S => sh[y].previous \in R,
         \A h \in S : (\A y \in S : sh[y].previous # h) => R \subseteq On(sh, S, h),
         NEW x \in S \ R
  PROVE  On(sh, S, x) = R \cup On(sh, S \ R, x)
  <1>1. PICK h \in S : x \in On(sh, S, h) /\ \A y \in S : sh[y].previous # h
    <2>1. x \in S
      OBVIOUS
    <2> QED BY ONLY <2>1, UnderSomeHead, Linked(sh), S \in SUBSET (1 .. Len(sh))
  <1>2. x \in 0 .. Len(sh) /\ h \in 0 .. Len(sh) /\ \A y \in S : y \in 0 .. Len(sh)
    <2>1. Len(sh) \in Nat
      BY ONLY Linked(sh) DEF Linked, BackLinked
    <2> QED BY ONLY <2>1, S \in SUBSET (1 .. Len(sh)), R \in SUBSET S, x \in S \ R, h \in S
  <1>4. \A w \in 0 .. Len(sh) : On(sh, S \ R, w) = On(sh, S, w) \ R
    BY ONLY OnCut, Linked(sh), S \in SUBSET (1 .. Len(sh)), R \in SUBSET S,
            \A y \in R : sh[y].previous \in S => sh[y].previous \in R
  <1>3. ASSUME NEW y \in R PROVE y \in On(sh, S, x)
    <2>1. y \in On(sh, S, h)
      BY <1>1
    <2>2. CASE x \in On(sh, S, y)
      <3>1. S \ R \in SUBSET (1 .. Len(sh)) /\ y \notin S \ R
        OBVIOUS
      <3>2. On(sh, S \ R, y) = On(sh, S, y) \ R
        BY <1>2, <1>4
      <3>3. On(sh, S \ R, y) = {}
        BY <1>2, <3>1, OnSteps
      <3> QED BY <2>2, <3>2, <3>3
    <2> QED BY <1>1, <1>2, <2>1, <2>2, OneMeetsOther
  <1> QED BY <1>2, <1>3, <1>4

-----------------------------------------------------------------------------
\* The end of clean_tracker.

Ripe(S) ==
  {r \in S : LET t == share[r].previous IN
             /\ t \notin S
             /\ \A h \in Heads(S) : share[Sq!Last(PathIn(S, h))].previous = t => Len(PathIn(S, h)) >= Keep}
Rounds(f) == f = [n \in 0 .. MaxShares |-> IF n = 0 THEN items ELSE f[n - 1] \ Ripe(f[n - 1])]

LEMMA RoundsExist == \E f \in [0 .. MaxShares -> SUBSET items] : Rounds(f)
  <1> DEFINE Is(f, n) == /\ f \in [0 .. MaxShares -> SUBSET items] /\ f[0] = items
                         /\ \A k \in 1 .. n : f[k] = f[k - 1] \ Ripe(f[k - 1])
             T == {n \in 0 .. MaxShares : \E f : Is(f, n)}
  <1>0. MaxShares \in Nat
    BY WorkAssumption
  <1>1. 0 \in T
    <2>1. PICK f : f = [n \in 0 .. MaxShares |-> items]
      OBVIOUS
    <2>2. f \in [0 .. MaxShares -> SUBSET items] /\ f[0] = items
      BY <1>0, <2>1
    <2>3. Is(f, 0)
      BY <2>2
    <2> HIDE DEF Is
    <2> QED BY <1>0, <2>3
  <1>2. ASSUME NEW n \in 1 .. MaxShares, n - 1 \in T PROVE n \in T
    <2>1. PICK f : Is(f, n - 1)
      BY <1>2
    <2>2. PICK S \in SUBSET items : S = f[n - 1] \ Ripe(f[n - 1])
      <3>1. f[n - 1] \in SUBSET items
        BY <1>0, <2>1
      <3> QED BY <3>1
    <2>3. PICK g : g = [f EXCEPT ![n] = S]
      OBVIOUS
    <2>4. /\ g \in [0 .. MaxShares -> SUBSET items]
          /\ \A k \in 0 .. MaxShares : g[k] = IF k = n THEN S ELSE f[k]
      BY <2>1, <2>3
    <2>5. g[0] = items
      BY <1>0, <2>1, <2>4
    <2>6. ASSUME NEW k \in 1 .. n PROVE g[k] = g[k - 1] \ Ripe(g[k - 1])
      <3>1. k \in 0 .. MaxShares /\ k - 1 \in 0 .. MaxShares /\ k - 1 # n
        BY <1>0
      <3>2. g[k - 1] = f[k - 1]
        BY <2>4, <3>1
      <3>3. CASE k = n
        BY <2>2, <2>4, <3>1, <3>2, <3>3
      <3>4. CASE k # n
        <4>1. k \in 1 .. n - 1
          BY <3>4
        <4>2. f[k] = f[k - 1] \ Ripe(f[k - 1])
          BY <2>1, <4>1
        <4> QED BY <2>4, <3>1, <3>2, <3>4, <4>2
      <3> QED BY <3>3, <3>4
    <2>7. Is(g, n)
      BY <2>4, <2>5, <2>6
    <2> HIDE DEF Is
    <2> QED BY <1>0, <2>7
  <1>3. MaxShares \in T
    <2> HIDE DEF T
    <2>1. \A n \in 0 .. MaxShares : n \in T
      BY <1>0, <1>1, <1>2, UpTo
    <2> QED BY <1>0, <2>1
  <1>4. PICK f : Is(f, MaxShares)
    BY <1>3
  <1>5. \A n \in 0 .. MaxShares : f[n] = IF n = 0 THEN items ELSE f[n - 1] \ Ripe(f[n - 1])
    BY <1>0, <1>4
  <1>6. f = [n \in 0 .. MaxShares |-> IF n = 0 THEN items ELSE f[n - 1] \ Ripe(f[n - 1])]
    BY <1>4, <1>5
  <1> QED BY <1>4, <1>6 DEF Rounds

\* What is left has, with each of its shares, those built on it.
LEMMA PrunedIsAbove ==
  /\ Pruned \in SUBSET items
  /\ \A c \in items : share[c].previous \in Pruned => c \in Pruned
  <1> DEFINE F == CHOOSE f : Rounds(f)
             Above(S) == S \in SUBSET items /\ \A c \in items : share[c].previous \in S => c \in S
             T == {n \in 0 .. MaxShares : Above(F[n])}
  <1>0. MaxShares \in Nat
    BY WorkAssumption
  <1>1. Pruned = F[MaxShares]
    BY DEF Pruned, Rounds, Ripe
  <1>2. Rounds(F)
    BY RoundsExist
  <1> HIDE DEF F
  <1>3. \A n \in 0 .. MaxShares : F[n] = IF n = 0 THEN items ELSE F[n - 1] \ Ripe(F[n - 1])
    BY <1>2 DEF Rounds
  <1>4. 0 \in T
    <2>1. 0 \in 0 .. MaxShares
      BY <1>0
    <2>2. F[0] = items
      BY <1>3, <2>1
    <2>3. Above(items)
      OBVIOUS
    <2> HIDE DEF Above
    <2> QED BY <2>1, <2>2, <2>3
  <1>5. ASSUME NEW n \in 1 .. MaxShares, n - 1 \in T PROVE n \in T
    <2> HIDE DEF Above
    <2>0. n \in 0 .. MaxShares /\ F[n] = F[n - 1] \ Ripe(F[n - 1])
      <3>1. n \in 0 .. MaxShares /\ n # 0
        BY <1>0
      <3>2. F[n] = IF n = 0 THEN items ELSE F[n - 1] \ Ripe(F[n - 1])
        BY ONLY <1>3, <3>1
      <3> QED BY ONLY <3>1, <3>2
    <2>1. PICK S : Above(S) /\ F[n] = S \ Ripe(S)
      BY <1>5, <2>0
    <2>2. S \in SUBSET items /\ \A c \in items : share[c].previous \in S => c \in S
      BY <2>1 DEF Above
    <2>4. ASSUME NEW c \in items, share[c].previous \in S \ Ripe(S) PROVE c \in S \ Ripe(S)
      <3>1. c \in S
        BY <2>2, <2>4
      <3>2. c \notin Ripe(S)
        BY <2>4 DEF Ripe
      <3> QED BY <3>1, <3>2
    <2>5. S \ Ripe(S) \in SUBSET items
      BY <2>2
    <2>6. Above(S \ Ripe(S))
      BY <2>4, <2>5 DEF Above
    <2> QED BY <2>0, <2>1, <2>6
  <1>6. MaxShares \in T
    <2> HIDE DEF T
    <2>1. \A n \in 0 .. MaxShares : n \in T
      BY <1>0, <1>4, <1>5, UpTo
    <2> QED BY <1>0, <2>1
  <1> QED BY <1>1, <1>6

-----------------------------------------------------------------------------
\* Stale shares are counted exactly.

\* No dead share of this node began a chain.
Rooted == \A h \in my_doa_share_hashes : share[h].previous # None

StaleKinds == {"orphan", "doa"}

\* Of this node's shares those under x that announce a kind, and those of a kind that are not under x.
AnnouncedOf(sh, mine, x, info) == {h \in mine \cap Full(sh, x) : sh[h].stale_info = info}
LostOf(sh, mine, dead, x, info) == {h \in mine \ Full(sh, x) : h \in dead <=> info = "doa"}
AnnouncedOn(x, info) == AnnouncedOf(share, my_share_hashes, x, info)
LostBy(x, info) == LostOf(share, my_share_hashes, my_doa_share_hashes, x, info)

\* A share under which are those of T that were removed; and one whose own last was removed.
Grounded(T, h) == Full(share, h) = T \cup On(share, items, h)
Island(h) == share[h].previous \notin items \cup {None} /\ \A y \in items : share[y].previous # h

ChainsFit == Linked(share) /\ \A j \in DOMAIN job : job[j].previous \in 0 .. Len(share)

\* What is left of the tracker stands on T.
Stands(T) ==
  /\ T \subseteq DOMAIN share \ items
  /\ \A h \in items : Grounded(T, h) \/ Island(h)
  /\ \A j \in DOMAIN job : job[j].previous \in items => Grounded(T, job[j].previous)

\* So does the best share.
BestStands(T) ==
  /\ best_share = None => T = {}
  /\ best_share \in items => Grounded(T, best_share)

\* What was counted of those removed is what there is in T.
RemovedCounted(T) ==
  /\ removed_unstales.all = Cardinality(T \cap my_share_hashes)
  /\ removed_unstales.orphan = Cardinality(Announcing(T \cap my_share_hashes, "orphan"))
  /\ removed_unstales.doa = Cardinality(Announcing(T \cap my_share_hashes, "doa"))
  /\ removed_doa = Cardinality(T \cap my_doa_share_hashes)

\* Nowhere is more announced than is lost, and less where a job may announce one more.
NeverMore == \A x \in 0 .. Len(share), info \in StaleKinds : Cardinality(AnnouncedOn(x, info)) <= Cardinality(LostBy(x, info))
JobsOwed ==
  \A j \in DOMAIN job : job[j].stale_info \in StaleKinds =>
    Cardinality(AnnouncedOn(job[j].previous, job[j].stale_info)) < Cardinality(LostBy(job[j].previous, job[j].stale_info))

StaleInv ==
  /\ ChainsFit
  /\ Rooted => /\ \E T : Stands(T) /\ BestStands(T) /\ RemovedCounted(T)
               /\ NeverMore /\ JobsOwed

-----------------------------------------------------------------------------
\* How the module's own walks are told.
LEMMA PathsAreWalks ==
  /\ \A h : OnChain(h) = On(share, items, h)
  /\ \A h : Sq!ToSet(FullPath(h)) = On(share, DOMAIN share, h)
  <1>1. \A h : Path(h) = Walk(share, items, h) /\ FullPath(h) = Walk(share, DOMAIN share, h)
    BY PathIsWalk DEF Path, FullPath
  <1> QED BY <1>1 DEF OnChain, On

\* A share more.
LEMMA ShareMore ==
  ASSUME NEW sh, Linked(sh), NEW e \in ShareRecord, e.previous \in 0 .. Len(sh),
         NEW more, more = Append(sh, e)
  PROVE  /\ Linked(more) /\ Len(more) = Len(sh) + 1 /\ Len(sh) \in Nat
         /\ \A h \in 1 .. Len(sh) : more[h] = sh[h]
         /\ more[Len(sh) + 1] = e
  <1>1. sh \in Seq(ShareRecord) /\ Len(sh) \in Nat
    BY DEF Linked, BackLinked
  <1>2. /\ more \in Seq(ShareRecord) /\ Len(more) = Len(sh) + 1
        /\ \A h \in 1 .. Len(sh) : more[h] = sh[h]
        /\ more[Len(sh) + 1] = e
    BY <1>1
  <1>3. ASSUME NEW h \in 1 .. Len(more) PROVE more[h].previous < h
    <2>1. CASE h \in 1 .. Len(sh)
      <3>1. sh[h].previous < h
        BY <2>1 DEF Linked, BackLinked
      <3> QED BY <1>2, <2>1, <3>1
    <2>2. CASE h = Len(sh) + 1
      <3>1. more[h].previous = e.previous
        BY <1>2, <2>2
      <3> QED BY <1>1, <2>2, <3>1
    <2> QED BY <1>1, <1>2, <2>1, <2>2
  <1> QED BY <1>1, <1>2, <1>3 DEF Linked, BackLinked

\* It changes no walk from an old share; and a share lies on top of the one it names.
LEMMA FullSame ==
  ASSUME NEW sh, Linked(sh), NEW more, Linked(more), Len(sh) <= Len(more),
         \A h \in 1 .. Len(sh) : more[h] = sh[h], NEW x \in 0 .. Len(sh)
  PROVE  Full(more, x) = Full(sh, x)
  <1>1. PICK S, S2 : S = 1 .. Len(sh) /\ S2 = 1 .. Len(more)
    OBVIOUS
  <1>2. S2 \cap (1 .. Len(sh)) = S /\ S \in SUBSET (1 .. Len(sh)) /\ S2 \in SUBSET (1 .. Len(more))
    BY <1>1 DEF Linked, BackLinked
  <1>3. On(more, S2, x) = On(sh, S, x)
    BY <1>2, OnExtended
  <1> QED BY <1>1, <1>3 DEF Full

LEMMA FullSteps ==
  ASSUME NEW sh, Linked(sh), NEW x \in 0 .. Len(sh)
  PROVE  /\ x # None => Full(sh, x) = {x} \cup Full(sh, sh[x].previous)
         /\ x = None => Full(sh, x) = {}
         /\ Full(sh, x) \subseteq 1 .. Len(sh) /\ \A y \in Full(sh, x) : y <= x
  <1>1. PICK S : S = 1 .. Len(sh)
    OBVIOUS
  <1>2. Len(sh) \in Nat /\ (x \in S <=> x # None)
    BY <1>1 DEF Linked, BackLinked, None
  <1>3. /\ x \in S => On(sh, S, x) = {x} \cup On(sh, S, sh[x].previous)
        /\ x \notin S => On(sh, S, x) = {}
    BY <1>1, OnSteps
  <1>4. \A y \in On(sh, S, x) : y \in S /\ y <= x
    BY <1>1, OnBelow
  <1> QED BY <1>1, <1>2, <1>3, <1>4 DEF Full

\* The best share is chosen among shares that stand: an island is too low to be judged.
LEMMA IslandsAreLow ==
  ASSUME NEW sh, Linked(sh), NEW S \in SUBSET (1 .. Len(sh)), NEW h \in S,
         sh[h].previous \notin S \cup {None}
  PROVE  /\ Len(Walk(sh, S, h)) = 1
         /\ sh[Sq!Last(Walk(sh, S, h))].previous # None
  <1>1. h \in 0 .. Len(sh) /\ sh[h].previous \in 0 .. Len(sh)
    BY LinkedPrevious
  <1>2. Walk(sh, S, h) = <<h>> \o Walk(sh, S, sh[h].previous) /\ Walk(sh, S, sh[h].previous) = <<>>
    BY <1>1, WalkSteps DEF Linked
  <1>3. Walk(sh, S, h) = <<h>>
    BY <1>2
  <1> QED BY <1>3 DEF Sq!Last

\* So it stands after a choice, if what there is then does and it did where it was not chosen anew.
LEMMA BestStandsNext ==
  ASSUME Linked(share'), items' \in SUBSET (1 .. Len(share')), NEW T, set_best_share,
         \A h \in items' : Grounded(T, h)' \/ Island(h)',
         NEW b, b = best_share, b = None => T = {}, b \in items' => Grounded(T, b)'
  PROVE  BestStands(T)'
  <1>1. PICK c : c = best_share'
    OBVIOUS
  <1>2. c = b \/ (c \in items' /\ Judgeable(c)')
    BY <1>1 DEF set_best_share, Heads
  <1>3. ASSUME c = None PROVE T = {}
    <2>1. None \notin 1 .. Len(share')
      BY DEF None
    <2> QED BY <1>2, <1>3, <2>1
  <1>4. ASSUME c \in items' PROVE Grounded(T, c)'
    <2>1. CASE c = b
      BY <1>4, <2>1
    <2>2. CASE Judgeable(c)'
      <3>1. PICK sh, S : sh = share' /\ S = items' /\ Linked(sh) /\ S \in SUBSET (1 .. Len(sh)) /\ c \in S
        BY <1>4
      <3>2. PICK w : w = Walk(sh, S, c)
        OBVIOUS
      <3>3. Path(c)' = w
        BY <3>1, <3>2 DEF Path, PathIn, Walk, Steps
      <3>4. Len(w) >= CHAIN_LENGTH + 1 \/ sh[Sq!Last(w)].previous = None
        BY <1>4, <2>2, <3>1, <3>3 DEF Judgeable, get_height, get_last
      <3>5. ASSUME Island(c)' PROVE FALSE
        <4>1. sh[c].previous \notin S \cup {None}
          BY <3>1, <3>5 DEF Island
        <4>2. Len(w) = 1 /\ sh[Sq!Last(w)].previous # None
          BY ONLY <3>1, <3>2, <4>1, IslandsAreLow
        <4>3. CHAIN_LENGTH \in Nat \ {0}
          BY WorkAssumption
        <4> QED BY <3>4, <4>2, <4>3
      <3> QED BY <1>4, <3>5
    <2> QED BY <1>2, <1>4, <2>1, <2>2
  <1>5. Grounded(T, c)' <=> Full(share', best_share') = T \cup On(share', items', best_share')
    BY <1>1 DEF Grounded
  <1>6. BestStands(T)' <=> (c = None => T = {}) /\ (c \in items' => Grounded(T, c)')
    BY <1>1, <1>5 DEF BestStands, Grounded
  <1> QED BY <1>3, <1>4, <1>6

\* Where the shares there are stay, what stands on T stays; one that comes does, or is an island.
LEMMA StandsMore ==
  ASSUME ChainsFit, items \subseteq DOMAIN share, NEW T, Stands(T),
         NEW e \in ShareRecord, e.previous \in 0 .. Len(share), share' = Append(share, e),
         \/ items' = items
         \/ /\ items' = items \cup {Len(share) + 1}
            /\ \/ e.previous = None /\ T = {}
               \/ e.previous \in items /\ Grounded(T, e.previous)
               \/ e.previous \notin items \cup {None},
         DOMAIN job' = DOMAIN job, \A j \in DOMAIN job : job'[j].previous = job[j].previous
  PROVE  /\ Stands(T)'
         /\ \A h \in items : Grounded(T, h) => Grounded(T, h)'
  <1>0. PICK sh, more, N, S, S2 :
          sh = share /\ more = share' /\ N = Len(sh) /\ S = items /\ S2 = items'
    OBVIOUS
  <1>1. /\ sh = share /\ more = share' /\ more = Append(sh, e) /\ N = Len(sh) /\ S = items /\ S2 = items'
        /\ Linked(sh) /\ e.previous \in 0 .. N
        /\ S \in SUBSET (1 .. N) /\ DOMAIN share = 1 .. N
    <2>1. Linked(share) /\ DOMAIN share = 1 .. Len(share)
      BY DEF ChainsFit, Linked, BackLinked
    <2> QED BY <1>0, <2>1
  <1>2. /\ Linked(more) /\ Len(more) = N + 1 /\ N \in Nat
        /\ \A h \in 1 .. N : more[h] = sh[h]
        /\ more[N + 1] = e
    <2>1. Linked(more)
      BY <1>1, ShareMore
    <2>2. Len(more) = Len(sh) + 1
      BY <1>1, ShareMore
    <2>3. \A h \in 1 .. Len(sh) : more[h] = sh[h]
      BY <1>1, ShareMore
    <2>4. more[Len(sh) + 1] = e
      BY <1>1, ShareMore
    <2> QED BY <1>1, <2>1, <2>2, <2>3, <2>4 DEF Linked, BackLinked
  <1>3. S2 \in SUBSET (1 .. Len(more)) /\ S2 \cap (1 .. N) = S /\ DOMAIN share' = 1 .. N + 1
        /\ S2 \subseteq S \cup {N + 1} /\ S \subseteq S2
    <2>1. S2 = S \/ S2 = S \cup {N + 1}
      BY <1>1
    <2>2. DOMAIN more = 1 .. Len(more)
      BY <1>2 DEF Linked, BackLinked
    <2> QED BY <1>1, <1>2, <2>1, <2>2
  <1>4. ASSUME NEW x \in 0 .. N PROVE Full(more, x) = Full(sh, x)
    <2>1. /\ Linked(sh) /\ Linked(more) /\ Len(sh) <= Len(more) /\ x \in 0 .. Len(sh)
          /\ \A h \in 1 .. Len(sh) : more[h] = sh[h]
      BY <1>1, <1>2
    <2> QED BY ONLY <2>1, FullSame
  <1>5. ASSUME NEW x \in 0 .. N PROVE On(more, S2, x) = On(sh, S, x)
    <2>1. /\ Linked(sh) /\ Linked(more) /\ Len(sh) <= Len(more) /\ x \in 0 .. Len(sh)
          /\ S \in SUBSET (1 .. Len(sh)) /\ S2 \in SUBSET (1 .. Len(more)) /\ S2 \cap (1 .. Len(sh)) = S
          /\ \A h \in 1 .. Len(sh) : more[h] = sh[h]
      BY <1>1, <1>2, <1>3
    <2> QED BY ONLY <2>1, OnExtended
  <1>6. ASSUME NEW h \in S, Grounded(T, h) PROVE Grounded(T, h)'
    <2>1. h \in 0 .. N
      BY <1>1, <1>2
    <2> QED BY <1>1, <1>4, <1>5, <1>6, <2>1 DEF Grounded
  <1>7. ASSUME NEW h \in S PROVE Grounded(T, h)' \/ Island(h)'
    <2>1. CASE Grounded(T, h)
      BY <1>6, <2>1
    <2>2. CASE Island(h) /\ ~Grounded(T, h)
      <3>1. h \in 1 .. N /\ sh[h].previous \notin S \cup {None} /\ \A y \in S : sh[y].previous # h
        BY <1>1, <2>2 DEF Island
      <3>2. sh[h].previous < h /\ sh[h].previous \in Nat /\ h \in Nat
        BY <1>1, <3>1, LinkedPrevious
      <3>3. more[h] = sh[h] /\ \A y \in S : more[y] = sh[y]
        BY <1>1, <1>2, <3>1
      <3>4. more[h].previous \notin S2 \cup {None}
        BY <1>1, <1>2, <1>3, <3>1, <3>2, <3>3
      <3>5. ASSUME NEW y \in S2, more[y].previous = h PROVE FALSE
        <4>1. y = N + 1
          BY <1>3, <3>1, <3>3, <3>5
        <4>2. S2 = S \cup {N + 1}
          BY <1>1, <1>2, <3>5, <4>1
        <4>3. e.previous = h
          BY <1>2, <3>5, <4>1
        <4>4. h \in S /\ h # None /\ N + 1 \notin S
          BY <1>1, <1>2, <3>1 DEF None
        <4> QED BY <1>1, <2>2, <4>2, <4>3, <4>4
      <3> QED BY <1>1, <3>4, <3>5 DEF Island
    <2> QED BY <1>1, <1>7, <2>1, <2>2 DEF Stands
  <1>8. ASSUME N + 1 \in S2 PROVE Grounded(T, N + 1)' \/ Island(N + 1)'
    <2>0. N + 1 \notin S /\ N + 1 \in 0 .. Len(more)
      BY <1>1, <1>2
    <2>1. Full(more, N + 1) = {N + 1} \cup Full(sh, e.previous)
      <3>1. PICK x \in 0 .. Len(more) : x = N + 1 /\ x # None
        BY <1>2, <2>0 DEF None
      <3>2. Full(more, x) = {x} \cup Full(more, more[x].previous)
        BY ONLY <1>2, <3>1, FullSteps
      <3> QED BY <1>1, <1>2, <1>4, <3>1, <3>2
    <2>2. On(more, S2, N + 1) = {N + 1} \cup On(sh, S, e.previous)
      <3>1. PICK x \in 0 .. Len(more) : x = N + 1 /\ x \in S2 /\ more[x].previous = e.previous
        BY <1>2, <1>8, <2>0
      <3>2. On(more, S2, x) = {x} \cup On(more, S2, more[x].previous)
        BY ONLY <1>2, <1>3, <3>1, OnSteps
      <3> QED BY <1>1, <1>5, <3>1, <3>2
    <2>3. CASE e.previous = None /\ T = {}
      <3>1. e.previous \notin S /\ e.previous \notin 1 .. N /\ e.previous \in 0 .. N
        BY <1>1, <2>3 DEF None
      <3>2. On(sh, S, e.previous) = {}
        BY <1>1, <3>1, OnSteps
      <3>3. Full(sh, e.previous) = {}
        BY <1>1, <2>3, FullSteps
      <3> QED BY <1>1, <2>1, <2>2, <2>3, <3>2, <3>3 DEF Grounded
    <2>4. CASE e.previous \in S /\ Grounded(T, e.previous)
      BY <1>1, <2>1, <2>2, <2>4 DEF Grounded
    <2>5. CASE e.previous \notin S \cup {None}
      <3>1. more[N + 1].previous \notin S2 \cup {None}
        BY <1>1, <1>2, <1>3, <2>5
      <3>2. ASSUME NEW y \in S2, more[y].previous = N + 1 PROVE FALSE
        <4>1. y \in 1 .. Len(more)
          BY <1>3, <3>2
        <4>2. more[y].previous < y /\ y \in Nat
          BY <1>2, <4>1, LinkedPrevious
        <4> QED BY <1>2, <3>2, <4>1, <4>2
      <3> QED BY <1>1, <3>1, <3>2 DEF Island
    <2> QED BY <1>1, <1>8, <2>0, <2>3, <2>4, <2>5
  <1>9. T \subseteq DOMAIN share' \ items'
    BY <1>1, <1>2, <1>3 DEF Stands
  <1>10. ASSUME NEW j \in DOMAIN job', job'[j].previous \in items' PROVE Grounded(T, job[j].previous)'
    <2>1. PICK p : p = job[j].previous /\ p = job'[j].previous /\ p \in 0 .. N /\ p \in S2
      BY <1>1, <1>10 DEF ChainsFit
    <2>2. p \in S
      BY <1>1, <1>2, <1>3, <2>1
    <2>3. Grounded(T, p)
      BY <1>1, <1>10, <2>1, <2>2 DEF Stands
    <2>4. Grounded(T, p)'
      BY <1>6, <2>2, <2>3
    <2> QED BY <2>1, <2>4 DEF Grounded
  <1>11. \A h \in items' : Grounded(T, h)' \/ Island(h)'
    BY <1>1, <1>3, <1>7, <1>8
  <1> QED BY <1>1, <1>6, <1>9, <1>10, <1>11 DEF Stands

\* What a set holds of two others that have nothing in common.
LEMMA CountSplit ==
  ASSUME NEW M, IsFiniteSet(M), NEW A, NEW B, A \cap B = {}
  PROVE  /\ IsFiniteSet(M \cap (A \cup B)) /\ IsFiniteSet(M \cap A) /\ IsFiniteSet(M \cap B)
         /\ Cardinality(M \cap A) \in Nat /\ Cardinality(M \cap B) \in Nat
         /\ Cardinality(M \cap (A \cup B)) = Cardinality(M \cap A) + Cardinality(M \cap B)
  <1>1. PICK P, Q : P = M \cap A /\ Q = M \cap B
    OBVIOUS
  <1>2. IsFiniteSet(P) /\ IsFiniteSet(Q)
    BY <1>1, FS_Subset
  <1>3. P \cap Q = {} /\ P \cup Q = M \cap (A \cup B)
    BY <1>1
  <1>4. /\ IsFiniteSet(P \cup Q)
        /\ Cardinality(P \cup Q) = Cardinality(P) + Cardinality(Q) - Cardinality(P \cap Q)
    BY <1>2, FS_Union
  <1>5. Cardinality(P) \in Nat /\ Cardinality(Q) \in Nat /\ Cardinality({}) = 0
    BY <1>2, FS_CardinalityType, FS_EmptySet
  <1>6. Cardinality(P \cup Q) = Cardinality(P) + Cardinality(Q)
    <2>1. Cardinality(P \cap Q) = 0
      BY ONLY <1>3, <1>5
    <2> QED BY ONLY <1>4, <1>5, <2>1
  <1>7. Cardinality(P \cup Q) = Cardinality(M \cap (A \cup B)) /\ IsFiniteSet(M \cap (A \cup B))
    BY ONLY <1>3, <1>4
  <1> QED BY ONLY <1>1, <1>2, <1>5, <1>6, <1>7

\* What a set holds outside another.
LEMMA CountRest ==
  ASSUME NEW M, IsFiniteSet(M), NEW B
  PROVE  /\ IsFiniteSet(M \ B) /\ Cardinality(M \ B) \in Nat /\ Cardinality(M) \in Nat
         /\ Cardinality(M) = Cardinality(M \cap B) + Cardinality(M \ B)
         /\ Cardinality(M \cap B) \in Nat
  <1>1. PICK A : A = M \ B
    OBVIOUS
  <1>2. A \cap B = {} /\ M \cap (A \cup B) = M /\ M \cap A = A
    BY <1>1
  <1>3. /\ IsFiniteSet(M \cap A) /\ Cardinality(M \cap A) \in Nat /\ Cardinality(M \cap B) \in Nat
        /\ Cardinality(M \cap (A \cup B)) = Cardinality(M \cap A) + Cardinality(M \cap B)
    BY <1>2, CountSplit
  <1>4. /\ Cardinality(M \cap (A \cup B)) = Cardinality(M) /\ Cardinality(M \cap A) = Cardinality(M \ B)
        /\ IsFiniteSet(M \cap A) <=> IsFiniteSet(M \ B)
    BY ONLY <1>1, <1>2
  <1>5. PICK x, y, z : x = Cardinality(M) /\ y = Cardinality(M \cap B) /\ z = Cardinality(M \ B)
    OBVIOUS
  <1>6. x = z + y /\ y \in Nat /\ z \in Nat
    BY ONLY <1>3, <1>4, <1>5
  <1>7. x = y + z /\ x \in Nat
    BY ONLY <1>6
  <1> QED BY ONLY <1>3, <1>4, <1>5, <1>6, <1>7

\* While what was removed stands under what there is, stale shares are counted exactly.
LEMMA CountsAreExact ==
  ASSUME ChainsFit, SharesKnown, IsFiniteSet(my_share_hashes), unseen = {},
         NEW T, Stands(T), BestStands(T), RemovedCounted(T)
  PROVE  get_stale_counts =
           [orphans |-> Cardinality(LostBy(best_share, "orphan")), doas |-> Cardinality(LostBy(best_share, "doa")),
            orphans_recorded |-> Cardinality(AnnouncedOn(best_share, "orphan")),
            doas_recorded |-> Cardinality(AnnouncedOn(best_share, "doa"))]
  <1>1. PICK mine, dead, b, A, B :
          /\ mine = my_share_hashes /\ dead = my_doa_share_hashes /\ b = best_share
          /\ A = OnChain(b) /\ B = Full(share, b)
    OBVIOUS
  <1>2. /\ IsFiniteSet(mine) /\ dead \subseteq mine /\ IsFiniteSet(dead)
        /\ items \in SUBSET (1 .. Len(share)) /\ Linked(share) /\ b \in 0 .. Len(share)
        /\ b \in items \cup {None}
    <2>1. /\ mine = my_share_hashes /\ dead \subseteq mine /\ b \in items \cup {None}
          /\ items \subseteq DOMAIN share /\ Linked(share)
      BY <1>1 DEF SharesKnown, ChainsFit
    <2>2. DOMAIN share = 1 .. Len(share) /\ Len(share) \in Nat
      BY <2>1 DEF Linked, BackLinked
    <2>3. IsFiniteSet(dead)
      BY <2>1, FS_Subset
    <2> QED BY <2>1, <2>2, <2>3 DEF None
  <1>3. A = On(share, items, b)
    BY <1>1, PathsAreWalks
  <1>4. A \subseteq items
    BY <1>2, <1>3, OnBelow
  <1>5. T \cap A = {} /\ B = T \cup A
    <2>1. T \cap A = {}
      BY <1>4 DEF Stands
    <2>2. CASE b = None
      <3>1. b \notin items
        BY <1>2, <2>2 DEF None
      <3>2. A = {}
        BY <1>2, <1>3, <3>1, OnSteps
      <3>3. B = {}
        BY <1>1, <1>2, <2>2, FullSteps
      <3>4. T = {}
        BY <1>1, <2>2 DEF BestStands
      <3> QED BY <3>2, <3>3, <3>4
    <2>3. CASE b \in items
      BY <1>1, <1>3, <2>1, <2>3 DEF BestStands, Grounded
    <2> QED BY <1>2, <2>1, <2>2, <2>3
  <1>6. ASSUME NEW M, IsFiniteSet(M)
        PROVE  /\ Cardinality(M \cap B) = Cardinality(M \cap A) + Cardinality(M \cap T)
               /\ Cardinality(M \cap A) \in Nat /\ Cardinality(M \cap T) \in Nat
               /\ Cardinality(M \ B) = Cardinality(M) - (Cardinality(M \cap A) + Cardinality(M \cap T))
               /\ Cardinality(M) \in Nat /\ Cardinality(M \ B) \in Nat
    <2>1. /\ Cardinality(M \cap (T \cup A)) = Cardinality(M \cap T) + Cardinality(M \cap A)
          /\ Cardinality(M \cap A) \in Nat /\ Cardinality(M \cap T) \in Nat
      BY <1>5, <1>6, CountSplit
    <2>2. /\ Cardinality(M) = Cardinality(M \cap B) + Cardinality(M \ B)
          /\ Cardinality(M) \in Nat /\ Cardinality(M \ B) \in Nat /\ Cardinality(M \cap B) \in Nat
      BY <1>6, CountRest
    <2> QED BY <1>5, <2>1, <2>2
  <1>7. PICK c : c = get_stale_counts
    OBVIOUS
  <1>8. PICK nm, nd, no, na :
          /\ nm = Cardinality(A \cap mine) /\ nd = Cardinality(A \cap dead)
          /\ no = Cardinality(Announcing(A \cap mine, "orphan"))
          /\ na = Cardinality(Announcing(A \cap mine, "doa"))
    OBVIOUS
  <1>9. c = [orphans |-> (Cardinality(mine) - (nm + Cardinality(T \cap mine)))
                           - (Cardinality(dead) - (nd + Cardinality(T \cap dead))),
             doas |-> Cardinality(dead) - (nd + Cardinality(T \cap dead)),
             orphans_recorded |-> no + Cardinality(Announcing(T \cap mine, "orphan")),
             doas_recorded |-> na + Cardinality(Announcing(T \cap mine, "doa"))]
    <2>1. delta(best_share) = [mine |-> nm, doa |-> nd, orphan_announce |-> no, dead_announce |-> na]
      <3>1. PICK U : U = Sq!ToSet(FullPath(b))
        OBVIOUS
      <3>2. Cardinality(U \cap unseen) = 0
        <4>1. U \cap unseen = {}
          OBVIOUS
        <4> QED BY <4>1, FS_EmptySet
      <3>3. nd - Cardinality(U \cap unseen) = nd
        <4>1. nd \in Nat
          BY <1>2, <1>8, FS_Subset, FS_CardinalityType
        <4> QED BY <3>2, <4>1
      <3> QED BY <1>1, <1>8, <3>1, <3>3 DEF delta
    <2> QED BY <1>1, <1>7, <2>1 DEF get_stale_counts, RemovedCounted
  <1>10. /\ Cardinality(dead \ B) = Cardinality(dead) - (nd + Cardinality(T \cap dead))
         /\ Cardinality(mine \ B) = Cardinality(mine) - (nm + Cardinality(T \cap mine))
         /\ Cardinality(dead \ B) \in Nat /\ Cardinality(mine \ B) \in Nat
    <2>1. /\ dead \cap A = A \cap dead /\ dead \cap T = T \cap dead
          /\ mine \cap A = A \cap mine /\ mine \cap T = T \cap mine
      OBVIOUS
    <2>2. /\ Cardinality(dead \ B) = Cardinality(dead) - (Cardinality(dead \cap A) + Cardinality(dead \cap T))
          /\ Cardinality(dead \ B) \in Nat
      BY ONLY <1>6, <1>2
    <2>3. /\ Cardinality(mine \ B) = Cardinality(mine) - (Cardinality(mine \cap A) + Cardinality(mine \cap T))
          /\ Cardinality(mine \ B) \in Nat
      BY ONLY <1>6, <1>2
    <2> QED BY <1>8, <2>1, <2>2, <2>3
  <1>11. LostBy(best_share, "doa") = dead \ B
    BY <1>1, <1>2 DEF LostBy, LostOf
  <1>12. Cardinality(LostBy(best_share, "orphan")) = Cardinality(mine \ B) - Cardinality(dead \ B)
    <2>1. PICK M : M = mine \ B
      OBVIOUS
    <2>2. IsFiniteSet(M)
      BY <1>2, <2>1, CountRest
    <2>3. LostBy(best_share, "orphan") = M \ dead /\ M \cap dead = dead \ B
      BY <1>1, <1>2, <2>1 DEF LostBy, LostOf
    <2>4. Cardinality(M) = Cardinality(M \cap dead) + Cardinality(M \ dead)
          /\ Cardinality(M \ dead) \in Nat /\ Cardinality(M \cap dead) \in Nat
      BY <2>2, CountRest
    <2>5. /\ Cardinality(LostBy(best_share, "orphan")) = Cardinality(M \ dead)
          /\ Cardinality(M \cap dead) = Cardinality(dead \ B) /\ Cardinality(M) = Cardinality(mine \ B)
      BY ONLY <2>1, <2>3
    <2> QED BY ONLY <2>4, <2>5
  <1>13. ASSUME NEW info
         PROVE  Cardinality(AnnouncedOn(best_share, info)) = Cardinality(Announcing(A \cap mine, info))
                                                            + Cardinality(Announcing(T \cap mine, info))
    <2>1. PICK M : M = {h \in mine : share[h].stale_info = info}
      OBVIOUS
    <2>2. IsFiniteSet(M)
      BY <1>2, <2>1, FS_Subset
    <2>3. /\ AnnouncedOn(best_share, info) = M \cap B
          /\ Announcing(A \cap mine, info) = M \cap A /\ Announcing(T \cap mine, info) = M \cap T
      BY <1>1, <2>1 DEF AnnouncedOn, AnnouncedOf, Announcing
    <2>4. Cardinality(M \cap B) = Cardinality(M \cap A) + Cardinality(M \cap T)
      BY <1>6, <2>2
    <2> QED BY <2>3, <2>4
  <1>14. Cardinality(AnnouncedOn(best_share, "orphan")) = no + Cardinality(Announcing(T \cap mine, "orphan"))
    BY <1>8, <1>13
  <1>15. Cardinality(AnnouncedOn(best_share, "doa")) = na + Cardinality(Announcing(T \cap mine, "doa"))
    BY <1>8, <1>13
  <1>16. Cardinality(LostBy(best_share, "doa")) = Cardinality(dead) - (nd + Cardinality(T \cap dead))
    BY <1>10, <1>11
  <1>17. Cardinality(LostBy(best_share, "orphan")) =
           (Cardinality(mine) - (nm + Cardinality(T \cap mine))) - (Cardinality(dead) - (nd + Cardinality(T \cap dead)))
    BY <1>10, <1>12
  <1> QED BY <1>7, <1>9, <1>14, <1>15, <1>16, <1>17

\* A share that comes changes nothing of what was counted of those removed.
LEMMA CountedMore ==
  ASSUME SharesKnown, share \in Seq(ShareRecord), NEW T \in SUBSET DOMAIN share, RemovedCounted(T),
         NEW e \in ShareRecord, share' = Append(share, e), NEW M \in SUBSET {Len(share) + 1},
         my_share_hashes' = my_share_hashes \cup M,
         \/ my_doa_share_hashes' = my_doa_share_hashes
         \/ my_doa_share_hashes' = my_doa_share_hashes \cup {Len(share) + 1},
         UNCHANGED <<removed_unstales, removed_doa>>
  PROVE  RemovedCounted(T)'
  <1>1. Len(share) + 1 \notin T /\ \A h \in T : share'[h] = share[h]
    BY OneShareMore
  <1>2. T \cap my_share_hashes' = T \cap my_share_hashes /\ T \cap my_doa_share_hashes' = T \cap my_doa_share_hashes
    BY <1>1
  <1>3. ASSUME NEW info PROVE {h \in T \cap my_share_hashes' : share'[h].stale_info = info}
                               = {h \in T \cap my_share_hashes : share[h].stale_info = info}
    BY <1>1, <1>2
  <1>4. Cardinality(T \cap my_share_hashes') = Cardinality(T \cap my_share_hashes)
        /\ Cardinality(T \cap my_doa_share_hashes') = Cardinality(T \cap my_doa_share_hashes)
    BY ONLY <1>2
  <1>5. ASSUME NEW info PROVE Announcing(T \cap my_share_hashes, info)' = Announcing(T \cap my_share_hashes, info)
    BY <1>3 DEF Announcing
  <1>6. Cardinality(Announcing(T \cap my_share_hashes, "orphan"))' = Cardinality(Announcing(T \cap my_share_hashes, "orphan"))
    BY <1>5
  <1>7. Cardinality(Announcing(T \cap my_share_hashes, "doa"))' = Cardinality(Announcing(T \cap my_share_hashes, "doa"))
    BY <1>5
  <1> QED BY <1>4, <1>6, <1>7 DEF RemovedCounted

\* Nor what is announced under a share there was; and no less is lost there.
LEMMA AnnouncedSame ==
  ASSUME NEW sh, Linked(sh), NEW more, Linked(more), Len(more) = Len(sh) + 1,
         \A h \in 1 .. Len(sh) : more[h] = sh[h],
         NEW mine \in SUBSET (1 .. Len(sh)), NEW M \in SUBSET {Len(sh) + 1}, NEW x \in 0 .. Len(sh), NEW info,
         NEW ours, ours = mine \cup M
  PROVE  \A h : h \in AnnouncedOf(more, ours, x, info) <=> h \in AnnouncedOf(sh, mine, x, info)
  <1>1. PICK F : F = Full(sh, x)
    OBVIOUS
  <1>2. Len(sh) \in Nat /\ Len(sh) + 1 \notin 1 .. Len(sh) /\ Len(sh) <= Len(more)
    BY DEF Linked, BackLinked
  <1>3. Full(more, x) = F
    BY <1>1, <1>2, FullSame
  <1>4. F \subseteq 1 .. Len(sh)
    BY <1>1, FullSteps
  <1>5. (mine \cup M) \cap F = mine \cap F
    BY <1>2, <1>4
  <1>6. \A h \in mine \cap F : more[h] = sh[h]
    OBVIOUS
  <1> QED BY <1>1, <1>3, <1>5, <1>6 DEF AnnouncedOf

LEMMA LostMore ==
  ASSUME NEW sh, Linked(sh), NEW more, Linked(more), Len(more) = Len(sh) + 1,
         \A h \in 1 .. Len(sh) : more[h] = sh[h],
         NEW mine \in SUBSET (1 .. Len(sh)), IsFiniteSet(mine), NEW dead \in SUBSET mine,
         NEW M \in SUBSET {Len(sh) + 1}, NEW D \in SUBSET M, NEW x \in 0 .. Len(sh), NEW info
  PROVE  /\ Cardinality(AnnouncedOf(sh, mine, x, info)) \in Nat
         /\ Cardinality(LostOf(sh, mine, dead, x, info)) <= Cardinality(LostOf(more, mine \cup M, dead \cup D, x, info))
         /\ Cardinality(LostOf(sh, mine, dead, x, info)) \in Nat
         /\ Cardinality(LostOf(more, mine \cup M, dead \cup D, x, info)) \in Nat
  <1>1. PICK F : F = Full(sh, x)
    OBVIOUS
  <1>2. Len(sh) \in Nat /\ Len(sh) + 1 \notin 1 .. Len(sh) /\ Len(sh) <= Len(more)
    BY DEF Linked, BackLinked
  <1>3. Full(more, x) = F
    BY <1>1, <1>2, FullSame
  <1>6. PICK A, L, L2 : /\ A = AnnouncedOf(sh, mine, x, info) /\ L = LostOf(sh, mine, dead, x, info)
                        /\ L2 = LostOf(more, mine \cup M, dead \cup D, x, info)
    OBVIOUS
  <1>7. A \in SUBSET mine /\ L \in SUBSET L2 /\ L2 \in SUBSET (mine \cup M)
    <2>1. A \in SUBSET mine
      BY <1>6 DEF AnnouncedOf
    <2>2. L2 \in SUBSET (mine \cup M)
      BY <1>6 DEF LostOf
    <2>3. ASSUME NEW h \in L PROVE h \in L2
      <3>1. h \in mine /\ h \notin F /\ (h \in dead <=> info = "doa")
        BY <1>1, <1>6 DEF LostOf
      <3>2. h \notin D
        BY <1>2, <3>1
      <3> QED BY <1>3, <1>6, <3>1, <3>2 DEF LostOf
    <2> QED BY <2>1, <2>2, <2>3
  <1>8. IsFiniteSet(mine \cup M)
    <2>1. IsFiniteSet(M)
      BY FS_Singleton, FS_Subset
    <2> QED BY <2>1, FS_Union
  <1>9. IsFiniteSet(A) /\ IsFiniteSet(L2)
    <2>1. IsFiniteSet(A)
      BY ONLY <1>7, FS_Subset, IsFiniteSet(mine)
    <2>2. IsFiniteSet(L2)
      BY ONLY <1>7, <1>8, FS_Subset
    <2> QED BY <2>1, <2>2
  <1>10. IsFiniteSet(L) /\ Cardinality(L) <= Cardinality(L2)
    BY ONLY <1>7, <1>9, FS_Subset
  <1>11. Cardinality(A) \in Nat /\ Cardinality(L) \in Nat /\ Cardinality(L2) \in Nat
    BY <1>9, <1>10, FS_CardinalityType
  <1> QED BY <1>6, <1>10, <1>11

\* On top of a share, one that comes announces one more only where one is owed.
LEMMA AnnouncedOnTop ==
  ASSUME NEW sh, Linked(sh), NEW more, Linked(more), Len(more) = Len(sh) + 1,
         \A h \in 1 .. Len(sh) : more[h] = sh[h],
         NEW mine \in SUBSET (1 .. Len(sh)), IsFiniteSet(mine), NEW dead \in SUBSET mine,
         NEW M \in SUBSET {Len(sh) + 1}, NEW D \in SUBSET M, NEW info,
         NEW p, p = more[Len(sh) + 1].previous,
         Cardinality(AnnouncedOf(sh, mine, p, info)) <= Cardinality(LostOf(sh, mine, dead, p, info)),
         M # {} /\ more[Len(sh) + 1].stale_info = info =>
           Cardinality(AnnouncedOf(sh, mine, p, info)) < Cardinality(LostOf(sh, mine, dead, p, info))
  PROVE  Cardinality(AnnouncedOf(more, mine \cup M, Len(sh) + 1, info))
           <= Cardinality(LostOf(more, mine \cup M, dead \cup D, Len(sh) + 1, info))
  <1>1. PICK n, F, A, L : /\ n = Len(sh) + 1 /\ F = Full(sh, p) /\ A = AnnouncedOf(sh, mine, p, info)
                          /\ L = LostOf(sh, mine, dead, p, info)
    OBVIOUS
  <1>2. /\ Len(sh) \in Nat /\ n \notin 1 .. Len(sh) /\ Len(sh) <= Len(more)
        /\ n \in 0 .. Len(more) /\ n \in 1 .. Len(more) /\ n # None /\ n \in Nat
    BY <1>1 DEF Linked, BackLinked, None
  <1>3. p \in 0 .. Len(sh)
    <2>1. more[n].previous \in Nat /\ more[n].previous < n
      BY ONLY <1>2, LinkedPrevious, Linked(more)
    <2> QED BY <1>1, <1>2, <2>1
  <1>4. Full(more, p) = F
    BY <1>1, <1>2, <1>3, FullSame
  <1>5. Full(more, n) = {n} \cup F
    <2>1. Full(more, n) = {n} \cup Full(more, more[n].previous)
      BY ONLY <1>2, FullSteps, Linked(more)
    <2> QED BY <1>1, <1>4, <2>1
  <1>6. F \subseteq 1 .. Len(sh)
    BY <1>1, <1>3, FullSteps
  <1>7. A = {h \in mine \cap F : sh[h].stale_info = info} /\ L = {h \in mine \ F : h \in dead <=> info = "doa"}
    BY <1>1 DEF AnnouncedOf, LostOf
  <1>8. LostOf(more, mine \cup M, dead \cup D, n, info) = L
    <2>1. (mine \cup M) \ ({n} \cup F) = mine \ F
      BY <1>1, <1>2
    <2>2. \A h \in mine \ F : h \in dead \cup D <=> h \in dead
      BY <1>1, <1>2
    <2> QED BY <1>5, <1>7, <2>1, <2>2 DEF LostOf
  <1>9. PICK A2 : A2 = AnnouncedOf(more, mine \cup M, n, info)
    OBVIOUS
  <1>10. /\ \A h \in A2 : h \in A \/ (h = n /\ M # {} /\ more[n].stale_info = info)
         /\ A \subseteq A2
    <2>1. A2 = {h \in (mine \cup M) \cap ({n} \cup F) : more[h].stale_info = info}
      BY <1>5, <1>9 DEF AnnouncedOf
    <2>2. \A h \in F : more[h] = sh[h]
      BY <1>6
    <2>3. ASSUME NEW h \in A2 PROVE h \in A \/ (h = n /\ M # {} /\ more[n].stale_info = info)
      <3>1. CASE h = n
        BY <1>1, <1>2, <2>1, <3>1
      <3>2. CASE h # n
        <4>1. h \in mine \cap F /\ more[h].stale_info = info
          BY <1>1, <2>1, <3>2
        <4> QED BY <1>7, <2>2, <4>1
      <3> QED BY <3>1, <3>2
    <2>4. ASSUME NEW h \in A PROVE h \in A2
      <3>1. h \in mine \cap F /\ sh[h].stale_info = info
        BY <1>7
      <3> QED BY <2>1, <2>2, <3>1
    <2> QED BY <2>3, <2>4
  <1>11. IsFiniteSet(A) /\ Cardinality(A) \in Nat /\ Cardinality(L) \in Nat
    <2>1. A \in SUBSET mine /\ L \in SUBSET mine
      BY <1>7
    <2>2. IsFiniteSet(A)
      BY ONLY <2>1, FS_Subset, IsFiniteSet(mine)
    <2>3. IsFiniteSet(L)
      BY ONLY <2>1, FS_Subset, IsFiniteSet(mine)
    <2> QED BY <2>2, <2>3, FS_CardinalityType
  <1>12. Cardinality(A2) <= Cardinality(L)
    <2>1. CASE M # {} /\ more[n].stale_info = info
      <3>1. PICK U : U = A \cup {n}
        OBVIOUS
      <3>2. IsFiniteSet(U) /\ Cardinality(U) <= Cardinality(A) + 1 /\ Cardinality(U) \in Nat
        <4>1. IsFiniteSet(U) /\ Cardinality(U) = IF n \in A THEN Cardinality(A) ELSE Cardinality(A) + 1
          BY ONLY <1>11, <3>1, FS_AddElement
        <4> QED BY ONLY <1>11, <4>1
      <3>3. A2 \in SUBSET U
        BY <1>10, <3>1
      <3>4. IsFiniteSet(A2) /\ Cardinality(A2) <= Cardinality(U)
        BY ONLY <3>2, <3>3, FS_Subset
      <3>5. Cardinality(A2) \in Nat
        BY <3>4, FS_CardinalityType
      <3>6. Cardinality(A) < Cardinality(L)
        BY <1>1, <2>1
      <3> QED BY <1>11, <3>2, <3>4, <3>5, <3>6
    <2>2. CASE ~(M # {} /\ more[n].stale_info = info)
      <3>1. A2 = A
        BY <1>10, <2>2
      <3>2. Cardinality(A2) = Cardinality(A) /\ Cardinality(A) <= Cardinality(L)
        BY <1>1, <3>1
      <3> QED BY <3>2
    <2> QED BY <2>1, <2>2
  <1>13. Cardinality(LostOf(more, mine \cup M, dead \cup D, n, info)) = Cardinality(L)
    BY ONLY <1>8
  <1> QED BY <1>1, <1>9, <1>12, <1>13

\* Announced and lost after a share more.
LEMMA OwedMore ==
  ASSUME ChainsFit, my_share_hashes \subseteq DOMAIN share, my_doa_share_hashes \subseteq my_share_hashes,
         IsFiniteSet(my_share_hashes), NeverMore, JobsOwed,
         NEW e \in ShareRecord, e.previous \in 0 .. Len(share), share' = Append(share, e),
         NEW M \in SUBSET {Len(share) + 1}, NEW D \in SUBSET M,
         my_share_hashes' = my_share_hashes \cup M, my_doa_share_hashes' = my_doa_share_hashes \cup D,
         M # {} => \E j \in DOMAIN job : e.previous = job[j].previous /\ e.stale_info = job[j].stale_info,
         DOMAIN job' = DOMAIN job,
         \A j \in DOMAIN job : job'[j].previous = job[j].previous /\ job'[j].stale_info = job[j].stale_info
  PROVE  NeverMore' /\ JobsOwed'
  <1>1. PICK sh, more, mine, dead, n :
          sh = share /\ more = share' /\ mine = my_share_hashes /\ dead = my_doa_share_hashes /\ n = Len(share) + 1
    OBVIOUS
  <1>2. /\ Linked(sh) /\ Len(sh) \in Nat /\ n = Len(sh) + 1
        /\ mine \in SUBSET (1 .. Len(sh)) /\ IsFiniteSet(mine) /\ dead \in SUBSET mine
        /\ e.previous \in 0 .. Len(sh) /\ more = Append(sh, e)
        /\ M \in SUBSET {Len(sh) + 1} /\ D \in SUBSET M
    BY <1>1 DEF ChainsFit, Linked, BackLinked
  <1>3. Linked(more)
    BY <1>2, ShareMore
  <1>4. Len(more) = Len(sh) + 1
    BY <1>2, ShareMore
  <1>5. \A h \in 1 .. Len(sh) : more[h] = sh[h]
    BY <1>2, ShareMore
  <1>6. more[Len(sh) + 1] = e
    BY <1>2, ShareMore
  <1>7. ASSUME NEW x \in 0 .. Len(sh), NEW info
        PROVE  /\ AnnouncedOn(x, info)' = AnnouncedOn(x, info)
               /\ Cardinality(AnnouncedOn(x, info)) \in Nat
               /\ Cardinality(LostBy(x, info)) <= Cardinality(LostBy(x, info)')
               /\ Cardinality(LostBy(x, info)) \in Nat
               /\ Cardinality(LostBy(x, info)') \in Nat
    <2>1. PICK A, A2, L, L2 : /\ A = AnnouncedOf(sh, mine, x, info) /\ A2 = AnnouncedOf(more, mine \cup M, x, info)
                              /\ L = LostOf(sh, mine, dead, x, info)
                              /\ L2 = LostOf(more, mine \cup M, dead \cup D, x, info)
      OBVIOUS
    <2>0. /\ Linked(sh) /\ Linked(more) /\ Len(more) = Len(sh) + 1
          /\ \A h \in 1 .. Len(sh) : more[h] = sh[h]
          /\ mine \in SUBSET (1 .. Len(sh)) /\ IsFiniteSet(mine) /\ dead \in SUBSET mine
          /\ M \in SUBSET {Len(sh) + 1} /\ D \in SUBSET M /\ x \in 0 .. Len(sh)
      BY <1>2, <1>3, <1>4, <1>5
    <2>4. A2 = A
      <3>1. PICK ours : ours = mine \cup M
        OBVIOUS
      <3>2. \A h : h \in AnnouncedOf(more, ours, x, info) <=> h \in AnnouncedOf(sh, mine, x, info)
        BY ONLY <2>0, <3>1, AnnouncedSame
      <3>3. A2 = AnnouncedOf(more, ours, x, info) /\ A = AnnouncedOf(sh, mine, x, info)
        BY ONLY <2>1, <3>1
      <3>4. A2 \subseteq mine \cup M /\ A \subseteq mine
        BY ONLY <3>1, <3>3 DEF AnnouncedOf
      <3> QED BY ONLY <3>2, <3>3, <3>4
    <2>5. Cardinality(A) \in Nat
      BY ONLY <2>0, <2>1, LostMore
    <2>6. Cardinality(L) <= Cardinality(L2)
      BY ONLY <2>0, <2>1, LostMore
    <2>7. Cardinality(L) \in Nat
      BY ONLY <2>0, <2>1, LostMore
    <2>8. Cardinality(L2) \in Nat
      BY ONLY <2>0, <2>1, LostMore
    <2>2. A2 = A /\ Cardinality(A) \in Nat /\ Cardinality(L) <= Cardinality(L2)
          /\ Cardinality(L) \in Nat /\ Cardinality(L2) \in Nat
      BY ONLY <2>4, <2>5, <2>6, <2>7, <2>8
    <2>3. AnnouncedOn(x, info) = A /\ AnnouncedOn(x, info)' = A2 /\ LostBy(x, info) = L /\ LostBy(x, info)' = L2
      BY <1>1, <2>1 DEF AnnouncedOn, LostBy
    <2> QED BY <2>2, <2>3
  <1>8. ASSUME NEW info \in StaleKinds
        PROVE  Cardinality(AnnouncedOn(n, info)') <= Cardinality(LostBy(n, info)')
    <2>1. PICK p, A, L : /\ p = e.previous /\ A = AnnouncedOf(sh, mine, p, info)
                         /\ L = LostOf(sh, mine, dead, p, info)
      OBVIOUS
    <2>2. A = AnnouncedOn(p, info) /\ L = LostBy(p, info) /\ p \in 0 .. Len(sh)
      BY <1>1, <1>2, <2>1 DEF AnnouncedOn, LostBy
    <2>3. Cardinality(A) <= Cardinality(L)
      BY <1>1, <2>2 DEF NeverMore
    <2>4. ASSUME M # {}, more[Len(sh) + 1].stale_info = info PROVE Cardinality(A) < Cardinality(L)
      <3>1. PICK j \in DOMAIN job : p = job[j].previous /\ e.stale_info = job[j].stale_info
        BY <2>1, <2>4
      <3>2. job[j].stale_info = info
        BY <1>6, <2>4, <3>1
      <3> QED BY <2>2, <3>1, <3>2 DEF JobsOwed
    <2>5. p = more[Len(sh) + 1].previous
      BY <1>6, <2>1
    <2>6. Cardinality(AnnouncedOf(more, mine \cup M, Len(sh) + 1, info))
           <= Cardinality(LostOf(more, mine \cup M, dead \cup D, Len(sh) + 1, info))
      BY ONLY <1>2, <1>3, <1>4, <1>5, <2>1, <2>3, <2>4, <2>5, AnnouncedOnTop
    <2> QED BY <1>1, <1>2, <2>6 DEF AnnouncedOn, LostBy
  <1>9. ASSUME NEW x \in 0 .. Len(more), NEW info \in StaleKinds
        PROVE  Cardinality(AnnouncedOn(x, info)') <= Cardinality(LostBy(x, info)')
    <2>1. CASE x \in 0 .. Len(sh)
      <3>1. Cardinality(AnnouncedOn(x, info)) <= Cardinality(LostBy(x, info))
        BY <1>1, <2>1 DEF NeverMore
      <3>2. Cardinality(AnnouncedOn(x, info)') = Cardinality(AnnouncedOn(x, info))
        BY <1>7, <2>1
      <3> QED BY <1>7, <2>1, <3>1, <3>2
    <2>2. CASE x = n
      BY <1>8, <2>2
    <2> QED BY <1>2, <1>4, <2>1, <2>2
  <1>10. NeverMore'
    BY <1>1, <1>9 DEF NeverMore
  <1>11. ASSUME NEW j \in DOMAIN job', NEW q, NEW k, q = job'[j].previous, k = job'[j].stale_info, k \in StaleKinds
         PROVE  Cardinality(AnnouncedOn(q, k)') < Cardinality(LostBy(q, k)')
    <2>1. j \in DOMAIN job /\ q = job[j].previous /\ k = job[j].stale_info /\ q \in 0 .. Len(sh)
      BY <1>1, <1>11 DEF ChainsFit
    <2>2. Cardinality(AnnouncedOn(q, k)) < Cardinality(LostBy(q, k))
      BY <1>11, <2>1 DEF JobsOwed
    <2>3. Cardinality(AnnouncedOn(q, k)') = Cardinality(AnnouncedOn(q, k))
      BY <1>7, <2>1
    <2> QED BY <1>7, <2>1, <2>2, <2>3
  <1>12. JobsOwed'
    <2>1. ASSUME NEW j \in DOMAIN job', job'[j].stale_info \in StaleKinds
          PROVE  Cardinality(AnnouncedOn(job[j].previous, job[j].stale_info)')
                   < Cardinality(LostBy(job[j].previous, job[j].stale_info)')
      <3>1. PICK q, k : q = job'[j].previous /\ k = job'[j].stale_info
        OBVIOUS
      <3>2. Cardinality(AnnouncedOn(q, k)') < Cardinality(LostBy(q, k)')
        BY <1>11, <2>1, <3>1
      <3> QED BY <3>1, <3>2 DEF AnnouncedOn, LostBy
    <2> QED BY <2>1 DEF JobsOwed
  <1> QED BY <1>10, <1>12

\* What is judged is no island.
LEMMA JudgedStands ==
  ASSUME Linked(share), items \in SUBSET (1 .. Len(share)), NEW c \in items, Judgeable(c)
  PROVE  ~Island(c)
  <1>1. PICK sh, S : sh = share /\ S = items /\ Linked(sh) /\ S \in SUBSET (1 .. Len(sh)) /\ c \in S
    OBVIOUS
  <1>2. PICK w : w = Walk(sh, S, c)
    OBVIOUS
  <1>3. Path(c) = w
    BY <1>1, <1>2, PathIsWalk DEF Path
  <1>4. Len(w) >= CHAIN_LENGTH + 1 \/ sh[Sq!Last(w)].previous = None
    BY <1>1, <1>3 DEF Judgeable, get_height, get_last
  <1>5. SUFFICES ASSUME Island(c) PROVE FALSE
    OBVIOUS
  <1>6. sh[c].previous \notin S \cup {None}
    BY <1>1, <1>5 DEF Island
  <1>7. Len(w) = 1 /\ sh[Sq!Last(w)].previous # None
    BY ONLY <1>1, <1>2, <1>6, IslandsAreLow
  <1>8. CHAIN_LENGTH \in Nat \ {0}
    BY WorkAssumption
  <1> QED BY <1>4, <1>7, <1>8

\* On what shares are built: what was removed, what stands, or what is no longer there.
LEMMA StoodOn ==
  ASSUME ChainsFit, SharesKnown, NEW T, Stands(T), BestStands(T), NEW p,
         \/ p = best_share
         \/ p = None /\ share = <<>>
         \/ p \in items /\ Judgeable(p)
         \/ p # None /\ \E j \in DOMAIN job : p = job[j].previous
  PROVE  \/ p = None /\ T = {}
         \/ p \in items /\ Grounded(T, p)
         \/ p \notin items \cup {None}
  <1>1. CASE p = best_share
    BY <1>1 DEF SharesKnown, BestStands
  <1>2. CASE p = None /\ share = <<>>
    BY <1>2 DEF Stands
  <1>3. CASE p \in items /\ Judgeable(p)
    <2>1. Linked(share) /\ items \in SUBSET (1 .. Len(share))
      BY DEF ChainsFit, SharesKnown, Linked, BackLinked
    <2>2. ~Island(p)
      BY <1>3, <2>1, JudgedStands
    <2> QED BY <1>3, <2>2 DEF Stands
  <1>4. CASE p # None /\ \E j \in DOMAIN job : p = job[j].previous
    BY <1>4 DEF Stands
  <1> QED BY <1>1, <1>2, <1>3, <1>4

LEMMA ChainsFitMore ==
  ASSUME ChainsFit, NEW e \in ShareRecord, e.previous \in 0 .. Len(share), share' = Append(share, e),
         DOMAIN job' = DOMAIN job, \A j \in DOMAIN job : job'[j].previous = job[j].previous
  PROVE  ChainsFit' /\ Len(share') = Len(share) + 1 /\ Len(share) \in Nat
  <1>1. PICK sh, more : sh = share /\ more = share' /\ Linked(sh) /\ more = Append(sh, e)
    BY DEF ChainsFit
  <1>2. Linked(more)
    BY <1>1, ShareMore
  <1>3. Len(more) = Len(sh) + 1
    BY <1>1, ShareMore
  <1>4. Len(sh) \in Nat
    BY <1>1 DEF Linked, BackLinked
  <1>5. \A j \in DOMAIN job' : job'[j].previous \in 0 .. Len(more)
    BY <1>1, <1>3, <1>4 DEF ChainsFit
  <1> QED BY <1>1, <1>2, <1>3, <1>4, <1>5 DEF ChainsFit

\* A share that comes where shares come keeps all of it.
LEMMA Grown ==
  ASSUME TypesHold, StaleInv, IsFiniteSet(my_share_hashes),
         NEW e \in ShareRecord, e.previous \in 0 .. Len(share), share' = Append(share, e),
         items' = items \/ items' = items \cup {Len(share) + 1},
         NEW M \in SUBSET {Len(share) + 1}, NEW D \in SUBSET M,
         my_share_hashes' = my_share_hashes \cup M, my_doa_share_hashes' = my_doa_share_hashes \cup D,
         M # {} => \E j \in DOMAIN job : e.previous = job[j].previous /\ e.stale_info = job[j].stale_info,
         \/ e.previous = best_share
         \/ e.previous = None /\ share = <<>>
         \/ e.previous \in items /\ Judgeable(e.previous)
         \/ e.previous # None /\ \E j \in DOMAIN job : e.previous = job[j].previous
         \/ D # {} /\ e.previous = None,
         set_best_share \/ best_share' = best_share,
         UNCHANGED <<removed_unstales, removed_doa>>,
         DOMAIN job' = DOMAIN job,
         \A j \in DOMAIN job : job'[j].previous = job[j].previous /\ job'[j].stale_info = job[j].stale_info
  PROVE  StaleInv'
  <1>1. /\ ChainsFit /\ SharesKnown /\ share \in Seq(ShareRecord)
        /\ items \subseteq DOMAIN share /\ best_share \in items \cup {None}
        /\ my_share_hashes \subseteq DOMAIN share /\ my_doa_share_hashes \subseteq my_share_hashes
    BY DEF StaleInv, TypesHold, Shapes, SharesKnown
  <1>2. ChainsFit' /\ Len(share') = Len(share) + 1 /\ Len(share) \in Nat
    BY <1>1, ChainsFitMore
  <1>3. SUFFICES ASSUME Rooted'
                 PROVE  /\ \E T : Stands(T)' /\ BestStands(T)' /\ RemovedCounted(T)'
                        /\ NeverMore' /\ JobsOwed'
    BY <1>2 DEF StaleInv
  <1>4. /\ DOMAIN share = 1 .. Len(share) /\ Len(share) + 1 \notin DOMAIN share
        /\ \A h \in DOMAIN share : share'[h] = share[h]
        /\ share'[Len(share) + 1] = e
    BY <1>1
  <1>5. Rooted
    <2>1. ASSUME NEW h \in my_doa_share_hashes PROVE share[h].previous # None
      <3>1. h \in DOMAIN share /\ h \in my_doa_share_hashes'
        BY <1>1
      <3>2. share'[h].previous # None
        BY <1>3, <3>1 DEF Rooted
      <3> QED BY <1>4, <3>1, <3>2
    <2> QED BY <2>1 DEF Rooted
  <1>6. ~(D # {} /\ e.previous = None)
    <2>1. SUFFICES ASSUME D # {}, e.previous = None PROVE FALSE
      OBVIOUS
    <2>2. Len(share) + 1 \in my_doa_share_hashes'
      BY <2>1
    <2>3. share'[Len(share) + 1].previous # None
      BY <1>3, <2>2 DEF Rooted
    <2> QED BY <1>4, <2>1, <2>3
  <1>7. PICK T : Stands(T) /\ BestStands(T) /\ RemovedCounted(T)
    BY <1>5 DEF StaleInv
  <1>8. NeverMore /\ JobsOwed
    BY <1>5 DEF StaleInv
  <1>9. \/ e.previous = None /\ T = {}
        \/ e.previous \in items /\ Grounded(T, e.previous)
        \/ e.previous \notin items \cup {None}
    <2>1. PICK p : p = e.previous
      OBVIOUS
    <2>2. \/ p = best_share
          \/ p = None /\ share = <<>>
          \/ p \in items /\ Judgeable(p)
          \/ p # None /\ \E j \in DOMAIN job : p = job[j].previous
      BY <1>6, <2>1
    <2>3. \/ p = None /\ T = {}
          \/ p \in items /\ Grounded(T, p)
          \/ p \notin items \cup {None}
      BY ONLY <1>1, <1>7, <2>2, StoodOn
    <2> QED BY <2>1, <2>3
  <1>10. Stands(T)'
    BY <1>1, <1>7, <1>9, StandsMore
  <1>11. \A h \in items : Grounded(T, h) => Grounded(T, h)'
    BY <1>1, <1>7, <1>9, StandsMore
  <1>12. BestStands(T)'
    <2>1. PICK b : b = best_share
      OBVIOUS
    <2>2. items' \in SUBSET (1 .. Len(share')) /\ Linked(share')
      BY <1>1, <1>2, <1>4 DEF ChainsFit
    <2>3. b = None => T = {}
      BY <1>7, <2>1 DEF BestStands
    <2>4. ASSUME b \in items' PROVE Grounded(T, b)'
      <3>1. b # None
        BY <2>2, <2>4 DEF None
      <3>2. b \in items
        BY <1>1, <2>1, <3>1
      <3>3. Grounded(T, b)
        BY <1>7, <2>1, <3>2 DEF BestStands
      <3> QED BY <1>11, <3>2, <3>3
    <2>5. CASE set_best_share
      <3>1. \A h \in items' : Grounded(T, h)' \/ Island(h)'
        BY <1>10 DEF Stands
      <3> QED BY <2>1, <2>2, <2>3, <2>4, <2>5, <3>1, BestStandsNext
    <2>6. CASE best_share' = best_share
      BY <2>1, <2>3, <2>4, <2>6 DEF BestStands, Grounded
    <2> QED BY <2>5, <2>6
  <1>13. RemovedCounted(T)'
    <2>1. T \in SUBSET DOMAIN share
      BY <1>7 DEF Stands
    <2>2. my_doa_share_hashes' = my_doa_share_hashes
          \/ my_doa_share_hashes' = my_doa_share_hashes \cup {Len(share) + 1}
      OBVIOUS
    <2> QED BY <1>1, <1>7, <2>1, <2>2, CountedMore
  <1>14. NeverMore' /\ JobsOwed'
    BY <1>1, <1>8, OwedMore
  <1> QED BY <1>10, <1>12, <1>13, <1>14

\* So a share of another node does, and one of this node's.
LEMMA PeerShareStale ==
  ASSUME TypesHold, TakenInv, StaleInv, NEW previous \in items \cup {None}, PeerShare(previous)
  PROVE  StaleInv'
  <1>1. PICK e : e = [previous |-> previous, job |-> 0, hash |-> 0, stale_info |-> "none"]
    OBVIOUS
  <1>2. share \in Seq(ShareRecord) /\ items \subseteq DOMAIN share /\ IsFiniteSet(my_share_hashes)
    BY DEF TypesHold, Shapes, SharesKnown, TakenInv
  <1>3. previous \in 0 .. Len(share) /\ previous \in Nat
    <2>1. DOMAIN share = 1 .. Len(share) /\ Len(share) \in Nat
      BY <1>2
    <2> QED BY <1>2, <2>1 DEF None
  <1>4. e \in ShareRecord /\ e.previous = previous
    BY <1>1, <1>3 DEF ShareRecord, Stale
  <1>5. /\ share' = Append(share, e) /\ items' = items \cup {Len(share) + 1} /\ set_best_share
        /\ UNCHANGED <<job, my_share_hashes, my_doa_share_hashes, removed_unstales, removed_doa>>
        /\ \/ previous = None /\ share = <<>>
           \/ previous \in items /\ Judgeable(previous)
    BY <1>1 DEF PeerShare
  <1>6. PICK M : M = {}
    OBVIOUS
  <1>7. /\ M \in SUBSET {Len(share) + 1} /\ M \in SUBSET M /\ M = {}
        /\ my_share_hashes' = my_share_hashes \cup M /\ my_doa_share_hashes' = my_doa_share_hashes \cup M
    BY <1>5, <1>6
  <1> QED BY <1>2, <1>3, <1>4, <1>5, <1>6, <1>7, Grown

\* What changes no share changes nothing of it, though another share be chosen.
LEMMA SameShares ==
  ASSUME TypesHold, StaleInv, set_best_share \/ best_share' = best_share,
         UNCHANGED <<share, items, my_share_hashes, my_doa_share_hashes, removed_unstales, removed_doa>>,
         DOMAIN job' = DOMAIN job,
         \A j \in DOMAIN job : job'[j].previous = job[j].previous /\ job'[j].stale_info = job[j].stale_info
  PROVE  StaleInv'
  <1>1. ChainsFit'
    BY DEF StaleInv, ChainsFit
  <1>2. SUFFICES ASSUME Rooted'
                 PROVE  /\ \E T : Stands(T)' /\ BestStands(T)' /\ RemovedCounted(T)'
                        /\ NeverMore' /\ JobsOwed'
    BY <1>1 DEF StaleInv
  <1>3. Rooted
    BY <1>2 DEF Rooted
  <1>4. PICK T : Stands(T) /\ BestStands(T) /\ RemovedCounted(T)
    BY <1>3 DEF StaleInv
  <1>5. \A h : (Grounded(T, h)' <=> Grounded(T, h)) /\ (Island(h)' <=> Island(h))
    BY DEF Grounded, Island
  <1>6. Stands(T)'
    <2>1. T \subseteq DOMAIN share' \ items'
      BY <1>4 DEF Stands
    <2>2. \A h \in items' : Grounded(T, h)' \/ Island(h)'
      BY <1>4, <1>5 DEF Stands
    <2>3. ASSUME NEW j \in DOMAIN job', job'[j].previous \in items' PROVE Grounded(T, job[j].previous)'
      <3>1. PICK p : p = job[j].previous /\ p = job'[j].previous /\ p \in items
        BY <2>3
      <3>2. Grounded(T, p)
        BY <1>4, <3>1 DEF Stands
      <3>3. Grounded(T, p)'
        BY <1>5, <3>2
      <3> QED BY <3>1, <3>3 DEF Grounded
    <2> QED BY <2>1, <2>2, <2>3 DEF Stands
  <1>7. BestStands(T)'
    <2>1. PICK b : b = best_share
      OBVIOUS
    <2>2. Linked(share') /\ items' \in SUBSET (1 .. Len(share'))
      <3>1. DOMAIN share = 1 .. Len(share)
        BY <1>1 DEF StaleInv, ChainsFit, Linked, BackLinked
      <3> QED BY <1>1, <3>1 DEF ChainsFit, TypesHold, SharesKnown
    <2>3. (b = None => T = {}) /\ (b \in items' => Grounded(T, b)')
      BY <1>4, <1>5, <2>1 DEF BestStands
    <2>4. CASE set_best_share
      <3>1. \A h \in items' : Grounded(T, h)' \/ Island(h)'
        BY <1>6 DEF Stands
      <3> QED BY <2>1, <2>2, <2>3, <2>4, <3>1, BestStandsNext
    <2>5. CASE best_share' = best_share
      BY <2>1, <2>3, <2>5 DEF BestStands, Grounded
    <2> QED BY <2>4, <2>5
  <1>8. RemovedCounted(T)'
    BY <1>4 DEF RemovedCounted, Announcing
  <1>9. NeverMore'
    BY <1>3 DEF StaleInv, NeverMore, AnnouncedOn, LostBy
  <1>10. JobsOwed'
    <2>1. JobsOwed
      BY <1>3 DEF StaleInv
    <2>2. ASSUME NEW j \in DOMAIN job', job'[j].stale_info \in StaleKinds
          PROVE  Cardinality(AnnouncedOf(share', my_share_hashes', job'[j].previous, job'[j].stale_info))
                   < Cardinality(LostOf(share', my_share_hashes', my_doa_share_hashes',
                                        job'[j].previous, job'[j].stale_info))
      <3>1. PICK q, k : q = job'[j].previous /\ k = job'[j].stale_info /\ k \in StaleKinds
                        /\ q = job[j].previous /\ k = job[j].stale_info /\ j \in DOMAIN job
        BY <2>2
      <3>2. Cardinality(AnnouncedOn(q, k)) < Cardinality(LostBy(q, k))
        BY <2>1, <3>1 DEF JobsOwed
      <3> QED BY <3>1, <3>2 DEF AnnouncedOn, LostBy
    <2> QED BY <2>2 DEF JobsOwed, AnnouncedOn, LostBy
  <1> QED BY <1>6, <1>7, <1>8, <1>9, <1>10

LEMMA CardinalitiesAreNat ==
  ASSUME IsFiniteSet(my_share_hashes), NEW x, NEW info
  PROVE  Cardinality(AnnouncedOn(x, info)) \in Nat /\ Cardinality(LostBy(x, info)) \in Nat
  <1>1. PICK A, L : A = AnnouncedOn(x, info) /\ L = LostBy(x, info)
    OBVIOUS
  <1>2. A \in SUBSET my_share_hashes /\ L \in SUBSET my_share_hashes
    BY <1>1 DEF AnnouncedOn, LostBy, AnnouncedOf, LostOf
  <1>3. IsFiniteSet(A)
    BY <1>2, FS_Subset
  <1>4. IsFiniteSet(L)
    BY <1>2, FS_Subset
  <1> QED BY <1>1, <1>3, <1>4, FS_CardinalityType

\* What a job announces is owed on the best share, and the chain announces no more than is lost.
LEMMA CountsOwed ==
  ASSUME TypesHold, StaleInv, Rooted, IsFiniteSet(my_share_hashes), unseen = {}, stale_info \in StaleKinds
  PROVE  Cardinality(AnnouncedOn(best_share, stale_info)) < Cardinality(LostBy(best_share, stale_info))
  <1>1. PICK T : Stands(T) /\ BestStands(T) /\ RemovedCounted(T)
    BY DEF StaleInv
  <1>2. get_stale_counts =
           [orphans |-> Cardinality(LostBy(best_share, "orphan")), doas |-> Cardinality(LostBy(best_share, "doa")),
            orphans_recorded |-> Cardinality(AnnouncedOn(best_share, "orphan")),
            doas_recorded |-> Cardinality(AnnouncedOn(best_share, "doa"))]
    BY <1>1, CountsAreExact DEF StaleInv, TypesHold
  <1>3. PICK c : c = get_stale_counts
    OBVIOUS
  <1>4. \/ c.orphans > c.orphans_recorded /\ stale_info = "orphan"
        \/ c.doas > c.doas_recorded /\ stale_info = "doa"
    BY <1>3 DEF stale_info, StaleKinds
  <1>5. PICK la, ld, aa, ad : /\ la = Cardinality(LostBy(best_share, "orphan")) /\ ld = Cardinality(LostBy(best_share, "doa"))
                              /\ aa = Cardinality(AnnouncedOn(best_share, "orphan"))
                              /\ ad = Cardinality(AnnouncedOn(best_share, "doa"))
    OBVIOUS
  <1>6. la \in Nat /\ ld \in Nat /\ aa \in Nat /\ ad \in Nat
    BY <1>5, CardinalitiesAreNat
  <1>7. c.orphans = la /\ c.doas = ld /\ c.orphans_recorded = aa /\ c.doas_recorded = ad
    BY <1>2, <1>3, <1>5
  <1>8. CASE c.orphans > c.orphans_recorded /\ stale_info = "orphan"
    BY <1>5, <1>6, <1>7, <1>8
  <1>9. CASE c.doas > c.doas_recorded /\ stale_info = "doa"
    BY <1>5, <1>6, <1>7, <1>9
  <1> QED BY <1>4, <1>8, <1>9

\* A job made announces what is owed.
LEMMA SendWorkStale ==
  ASSUME TypesHold, TakenInv, TakenOnce, StaleInv, current_work \in Work, bound \in Bounds,
         NEW s \in Session, SendWork(s)
  PROVE  StaleInv'
  <1>1. PICK new \in JobRecord :
          /\ job' = Append(job, new) /\ new.previous = best_share /\ new.stale_info = stale_info
          /\ UNCHANGED <<share, items, best_share, my_share_hashes, my_doa_share_hashes, removed_unstales,
                         removed_doa>>
    BY SendWorkEffect
  <1>2. IsFiniteSet(my_share_hashes) /\ unseen = {} /\ job \in Seq(JobRecord)
        /\ best_share \in items \cup {None} /\ items \subseteq DOMAIN share
    BY DEF TakenInv, SeenAsTheyAre, TypesHold, Shapes, SharesKnown
  <1>3. /\ DOMAIN job' = DOMAIN job \cup {Len(job) + 1} /\ job'[Len(job) + 1] = new
        /\ \A j \in DOMAIN job : job'[j] = job[j]
    BY <1>1, <1>2
  <1>4. best_share \in 0 .. Len(share)
    <2>1. DOMAIN share = 1 .. Len(share) /\ Len(share) \in Nat
      BY DEF StaleInv, ChainsFit, Linked, BackLinked
    <2> QED BY <1>2, <2>1 DEF None
  <1>5. ChainsFit'
    BY <1>1, <1>3, <1>4 DEF StaleInv, ChainsFit
  <1>6. SUFFICES ASSUME Rooted'
                 PROVE  /\ \E T : Stands(T)' /\ BestStands(T)' /\ RemovedCounted(T)'
                        /\ NeverMore' /\ JobsOwed'
    BY <1>5 DEF StaleInv
  <1>7. Rooted
    BY <1>1, <1>6 DEF Rooted
  <1>8. PICK T : Stands(T) /\ BestStands(T) /\ RemovedCounted(T)
    BY <1>7 DEF StaleInv
  <1>9. \A h : (Grounded(T, h)' <=> Grounded(T, h)) /\ (Island(h)' <=> Island(h))
    BY <1>1 DEF Grounded, Island
  <1>10. Stands(T)'
    <2>1. T \subseteq DOMAIN share' \ items'
      BY <1>1, <1>8 DEF Stands
    <2>2. \A h \in items' : Grounded(T, h)' \/ Island(h)'
      BY <1>1, <1>8, <1>9 DEF Stands
    <2>3. ASSUME NEW j \in DOMAIN job', job'[j].previous \in items'
          PROVE  Full(share', job'[j].previous) = T \cup On(share', items', job'[j].previous)
      <3>1. PICK p : p = job'[j].previous /\ p \in items
        BY <1>1, <2>3
      <3>2. p = best_share \/ \E i \in DOMAIN job : p = job[i].previous
        BY <1>1, <1>3, <3>1
      <3>3. Grounded(T, p)
        BY <1>8, <3>1, <3>2 DEF Stands, BestStands
      <3>4. Grounded(T, p)'
        BY <1>9, <3>3
      <3> QED BY <3>1, <3>4 DEF Grounded
    <2> QED BY <2>1, <2>2, <2>3 DEF Stands, Grounded
  <1>11. BestStands(T)' /\ RemovedCounted(T)'
    BY <1>1, <1>8 DEF BestStands, Grounded, RemovedCounted, Announcing
  <1>12. NeverMore'
    BY <1>1, <1>7 DEF StaleInv, NeverMore, AnnouncedOn, LostBy
  <1>13. ASSUME NEW j \in DOMAIN job', job'[j].stale_info \in StaleKinds
         PROVE  Cardinality(AnnouncedOf(share', my_share_hashes', job'[j].previous, job'[j].stale_info))
                  < Cardinality(LostOf(share', my_share_hashes', my_doa_share_hashes',
                                       job'[j].previous, job'[j].stale_info))
    <2>1. PICK q, k : q = job'[j].previous /\ k = job'[j].stale_info /\ k \in StaleKinds
      BY <1>13
    <2>2. CASE j \in DOMAIN job
      <3>1. q = job[j].previous /\ k = job[j].stale_info
        BY <1>3, <2>1, <2>2
      <3>2. Cardinality(AnnouncedOn(q, k)) < Cardinality(LostBy(q, k))
        BY <1>7, <2>1, <2>2, <3>1 DEF StaleInv, JobsOwed
      <3> QED BY <1>1, <2>1, <3>2 DEF AnnouncedOn, LostBy
    <2>3. CASE j = Len(job) + 1
      <3>1. q = best_share /\ k = stale_info
        BY <1>1, <1>3, <2>1, <2>3
      <3>2. Cardinality(AnnouncedOn(best_share, stale_info)) < Cardinality(LostBy(best_share, stale_info))
        BY <1>2, <1>7, <2>1, <3>1, CountsOwed
      <3>3. Cardinality(AnnouncedOn(q, k)) < Cardinality(LostBy(q, k))
        BY ONLY <3>1, <3>2
      <3> QED BY <1>1, <2>1, <3>3 DEF AnnouncedOn, LostBy
    <2> QED BY <1>3, <2>2, <2>3
  <1>14. JobsOwed'
    BY <1>13 DEF JobsOwed, AnnouncedOn, LostBy
  <1> QED BY <1>10, <1>11, <1>12, <1>14

LEMMA NodeStale ==
  ASSUME TypesHold, StaleInv, (\E work : NodeGotWork(work)) \/ (\E b : NodeHeader(b))
  PROVE  StaleInv'
  <1>1. /\ set_best_share \/ best_share' = best_share
        /\ UNCHANGED <<share, items, job, my_share_hashes, my_doa_share_hashes, removed_unstales, removed_doa>>
    BY DEF NodeGotWork, NodeHeader
  <1>2. DOMAIN job' = DOMAIN job
        /\ \A j \in DOMAIN job : job'[j].previous = job[j].previous /\ job'[j].stale_info = job[j].stale_info
    BY <1>1
  <1> QED BY <1>1, <1>2, SameShares

LEMMA QuietStale ==
  ASSUME TypesHold, StaleInv, UNCHANGED bridgeVars
  PROVE  StaleInv'
  <1>1. /\ best_share' = best_share
        /\ UNCHANGED <<share, items, job, my_share_hashes, my_doa_share_hashes, removed_unstales, removed_doa>>
    BY DEF bridgeVars
  <1>2. DOMAIN job' = DOMAIN job
        /\ \A j \in DOMAIN job : job'[j].previous = job[j].previous /\ job'[j].stale_info = job[j].stale_info
    BY <1>1
  <1> QED BY <1>1, <1>2, SameShares

LEMMA SessionStale ==
  ASSUME TypesHold, StaleInv, NEW s \in Session,
         \/ Connect(s) \/ Disconnect(s) \/ SendFails(s) \/ JobExpires(s)
         \/ rpc_subscribe(s) \/ rpc_configure(s) \/ \E wish \in Wishes \cup {no_wish} : rpc_authorize(s, wish)
  PROVE  StaleInv'
  <1>1. UNCHANGED bridgeVars
    BY DEF Connect, Disconnect, SendFails, JobExpires, rpc_subscribe, rpc_configure, rpc_authorize, SetupCall
  <1> QED BY <1>1, QuietStale

\* A header taken as a share is one more: in time it is on the best share, late it is dead.
LEMMA TakenStale ==
  ASSUME TypesHold, TakenInv, JobInv, StaleInv, NEW s \in Session, NEW j \in DOMAIN job, NEW p \in Hashes,
         session[s].open, j \in Sq!ToSet(session[s].jobs), IsShare(j, p), Found(j, p), Taken(s, j, p),
         TakenOnce', UNCHANGED <<removed_unstales, removed_doa>>
  PROVE  StaleInv'
  <1>1. PICK e, n : /\ e = [previous |-> job[j].previous, job |-> j, hash |-> p, stale_info |-> job[j].stale_info]
                    /\ n = Len(share) + 1
    OBVIOUS
  <1>2. /\ e \in ShareRecord /\ e.previous = job[j].previous /\ e.stale_info = job[j].stale_info
        /\ e.previous \in 0 .. Len(share)
    <2>1. job[j] \in JobRecord /\ j \in Nat /\ p \in Nat
      BY JobIsRecord, TargetsAreNat DEF TypesHold
    <2> QED BY <1>1, <2>1 DEF JobRecord, ShareRecord, StaleInv, ChainsFit
  <1>3. ShareOf(j, p) = n /\ n \notin DOMAIN share
    BY <1>1, ShareIsNew, ShareOfIs
  <1>4. /\ share' = Append(share, e)
        /\ my_share_hashes' = my_share_hashes \cup {n}
        /\ my_doa_share_hashes' = my_doa_share_hashes \cup (IF on_time(j) THEN {} ELSE {n})
    BY <1>1, <1>3 DEF Found
  <1>5. /\ items' = items \/ items' = items \cup {n}
        /\ set_best_share \/ best_share' = best_share
    BY <1>3 DEF Taken
  <1>6. BestNews \in Nat /\ Answered(s, j, p, BestNews)
    BY NewsIsNat DEF Taken
  <1>7. /\ job' \in Seq(JobRecord) /\ Len(job') = Len(job)
        /\ \A i \in DOMAIN job : job'[i].previous = job[i].previous /\ job'[i].stale_info = job[i].stale_info
    BY <1>6, AnsweredEffect DEF TypesHold
  <1>8. DOMAIN job' = DOMAIN job
    BY <1>7 DEF TypesHold, Shapes
  <1>9. PICK M, D : M = {n} /\ D = IF on_time(j) THEN {} ELSE {n}
    OBVIOUS
  <1>10. /\ M \in SUBSET {Len(share) + 1} /\ D \in SUBSET M
         /\ my_share_hashes' = my_share_hashes \cup M /\ my_doa_share_hashes' = my_doa_share_hashes \cup D
    BY <1>1, <1>4, <1>9
  <1>11. \/ e.previous = best_share
         \/ e.previous # None /\ \E i \in DOMAIN job : e.previous = job[i].previous
         \/ D # {} /\ e.previous = None
    <2>1. CASE on_time(j)
      BY <1>2, <2>1 DEF JobInv, JobsNow
    <2>2. CASE ~on_time(j)
      BY <1>2, <1>9, <2>2
    <2> QED BY <2>1, <2>2
  <1>12. \E i \in DOMAIN job : e.previous = job[i].previous /\ e.stale_info = job[i].stale_info
    BY <1>2
  <1>13. IsFiniteSet(my_share_hashes)
    BY DEF TakenInv
  <1>14. items' = items \/ items' = items \cup {Len(share) + 1}
    BY <1>1, <1>5
  <1> QED BY <1>2, <1>4, <1>5, <1>7, <1>8, <1>10, <1>11, <1>12, <1>13, <1>14, Grown

LEMMA SubmitStale ==
  ASSUME TypesHold, TakenInv, JobInv, StaleInv, NEW s \in Session, NEW j \in DOMAIN job, NEW p \in Hashes,
         rpc_submit(s, j, p), TakenOnce'
  PROVE  StaleInv'
  <1>1. /\ session[s].open /\ session[s].jobs # <<>> /\ j \in Sq!ToSet(session[s].jobs)
    BY SubmitCases
  <1>2. UNCHANGED <<removed_unstales, removed_doa>>
    BY DEF rpc_submit, AsShare, AsPseudoshare
  <1>3. CASE IsShare(j, p) /\ Found(j, p) /\ Taken(s, j, p)
    BY <1>1, <1>2, <1>3, TakenStale
  <1>4. ASSUME Raised(s, j, p) PROVE FALSE
    BY <1>4 DEF Raised, TakenOnce
  <1>5. CASE AsPseudoshare(s, j, p)
    <2>1. /\ Answered(s, j, p, 0) /\ best_share' = best_share
          /\ UNCHANGED <<share, items, my_share_hashes, my_doa_share_hashes, removed_unstales, removed_doa>>
      BY <1>5 DEF AsPseudoshare
    <2>2. /\ job' \in Seq(JobRecord) /\ Len(job') = Len(job)
          /\ \A i \in DOMAIN job : job'[i].previous = job[i].previous /\ job'[i].stale_info = job[i].stale_info
      BY <1>1, <2>1, AnsweredEffect DEF TypesHold
    <2>3. DOMAIN job' = DOMAIN job
      BY <2>2 DEF TypesHold, Shapes
    <2> QED BY <2>1, <2>2, <2>3, SameShares
  <1> QED BY <1>3, <1>4, <1>5, SubmitCases

\* Of the shares taken out those on the best chain are counted with what was removed of it.
LEMMA CountedOut ==
  ASSUME IsFiniteSet(my_share_hashes), my_doa_share_hashes \subseteq my_share_hashes,
         NEW T, RemovedCounted(T), NEW S, T \cap S = {}, CountRemoved(S),
         UNCHANGED <<share, my_share_hashes, my_doa_share_hashes>>,
         NEW C, C = {h \in S : IsUnder(h, best_share)}
  PROVE  RemovedCounted(T \cup C)'
  <1>1. PICK mine, dead : mine = my_share_hashes /\ dead = my_doa_share_hashes
    OBVIOUS
  <1>2. IsFiniteSet(mine) /\ IsFiniteSet(dead) /\ T \cap C = {}
    <2>1. IsFiniteSet(dead)
      BY <1>1, FS_Subset
    <2> QED BY <1>1, <2>1
  <1>3. ASSUME NEW info
        PROVE  /\ Cardinality(Announcing((T \cup C) \cap mine, info))
                    = Cardinality(Announcing(T \cap mine, info)) + Cardinality(Announcing(C \cap mine, info))
    <2>1. PICK M : M = {h \in mine : share[h].stale_info = info}
      OBVIOUS
    <2>2. IsFiniteSet(M)
      BY <1>2, <2>1, FS_Subset
    <2>3. Cardinality(M \cap (T \cup C)) = Cardinality(M \cap T) + Cardinality(M \cap C)
      BY <1>2, <2>2, CountSplit
    <2>4. /\ Announcing((T \cup C) \cap mine, info) = M \cap (T \cup C)
          /\ Announcing(T \cap mine, info) = M \cap T /\ Announcing(C \cap mine, info) = M \cap C
      BY <2>1 DEF Announcing
    <2> QED BY <2>3, <2>4
  <1>4. ASSUME NEW M, IsFiniteSet(M)
        PROVE  Cardinality((T \cup C) \cap M) = Cardinality(T \cap M) + Cardinality(C \cap M)
    <2>1. Cardinality(M \cap (T \cup C)) = Cardinality(M \cap T) + Cardinality(M \cap C)
      BY <1>2, <1>4, CountSplit
    <2>2. M \cap (T \cup C) = (T \cup C) \cap M /\ M \cap T = T \cap M /\ M \cap C = C \cap M
      OBVIOUS
    <2> QED BY <2>1, <2>2
  <1>5. /\ Cardinality((T \cup C) \cap mine) = Cardinality(T \cap mine) + Cardinality(C \cap mine)
        /\ Cardinality((T \cup C) \cap dead) = Cardinality(T \cap dead) + Cardinality(C \cap dead)
    BY <1>2, <1>4
  <1>6. PICK Cm, Cd : /\ Cm = {h \in S \cap mine : IsUnder(h, best_share)}
                      /\ Cd = {h \in S \cap dead : IsUnder(h, best_share)}
    OBVIOUS
  <1>7. Cm = C \cap mine /\ Cd = C \cap dead
    BY <1>6
  <1>8. /\ removed_unstales' =
             [all |-> removed_unstales.all + Cardinality(Cm),
              orphan |-> removed_unstales.orphan + Cardinality(Announcing(Cm, "orphan")),
              doa |-> removed_unstales.doa + Cardinality(Announcing(Cm, "doa"))]
        /\ removed_doa' = removed_doa + Cardinality(Cd)
    BY <1>1, <1>6 DEF CountRemoved
  <1>9. \A info, A : Announcing(A, info)' = Announcing(A, info)
    BY DEF Announcing
  <1>10. /\ removed_unstales.all = Cardinality(T \cap mine)
         /\ removed_unstales.orphan = Cardinality(Announcing(T \cap mine, "orphan"))
         /\ removed_unstales.doa = Cardinality(Announcing(T \cap mine, "doa"))
         /\ removed_doa = Cardinality(T \cap dead)
    BY <1>1 DEF RemovedCounted
  <1>11. /\ removed_unstales'.all = Cardinality((T \cup C) \cap mine)
         /\ removed_doa' = Cardinality((T \cup C) \cap dead)
    BY <1>5, <1>7, <1>8, <1>10
  <1>12. removed_unstales'.orphan = Cardinality(Announcing((T \cup C) \cap mine, "orphan"))
    BY <1>3, <1>7, <1>8, <1>10
  <1>13. removed_unstales'.doa = Cardinality(Announcing((T \cup C) \cap mine, "doa"))
    BY <1>3, <1>7, <1>8, <1>10
  <1>14. mine = my_share_hashes' /\ dead = my_doa_share_hashes' /\ share' = share
    BY <1>1
  <1> QED BY <1>11, <1>12, <1>13, <1>14 DEF RemovedCounted, Announcing

\* What is left stands, when what was removed and what is taken out of the chain are under it.
LEMMA LeftStands ==
  ASSUME TypesHold, TakenInv, StaleInv, NEW S, TakeOut(S), items' \subseteq items,
         NEW b, b = best_share,
         Rooted => \E T : /\ T \subseteq DOMAIN share \ items'
                          /\ \A h \in items' : Grounded(T, h)' \/ Island(h)'
                          /\ \A j \in DOMAIN job : job[j].previous \in items' => Grounded(T, job[j].previous)'
                          /\ b = None => T = {}
                          /\ b \in items' => Grounded(T, b)'
                          /\ RemovedCounted(T)'
  PROVE  StaleInv'
  <1>1. UNCHANGED <<share, job, my_share_hashes, my_doa_share_hashes>> /\ set_best_share
    BY DEF TakeOut
  <1>2. ChainsFit'
    BY <1>1 DEF StaleInv, ChainsFit
  <1>3. SUFFICES ASSUME Rooted'
                 PROVE  /\ \E T : Stands(T)' /\ BestStands(T)' /\ RemovedCounted(T)'
                        /\ NeverMore' /\ JobsOwed'
    BY <1>2 DEF StaleInv
  <1>4. Rooted
    BY <1>1, <1>3 DEF Rooted
  <1>5. PICK T : /\ T \subseteq DOMAIN share \ items'
                 /\ \A h \in items' : Grounded(T, h)' \/ Island(h)'
                 /\ \A j \in DOMAIN job : job[j].previous \in items' => Grounded(T, job[j].previous)'
                 /\ b = None => T = {}
                 /\ b \in items' => Grounded(T, b)'
                 /\ RemovedCounted(T)'
    BY <1>4
  <1>6. Stands(T)'
    <2>1. ASSUME NEW j \in DOMAIN job', job'[j].previous \in items' PROVE Grounded(T, job[j].previous)'
      <3>1. job' = job
        BY <1>1
      <3> QED BY <1>5, <2>1, <3>1
    <2> QED BY <1>1, <1>5, <2>1 DEF Stands
  <1>7. BestStands(T)'
    <2>1. Linked(share') /\ items' \in SUBSET (1 .. Len(share'))
      <3>1. DOMAIN share = 1 .. Len(share)
        BY DEF StaleInv, ChainsFit, Linked, BackLinked
      <3> QED BY <1>1, <1>2, <3>1 DEF ChainsFit, TypesHold, SharesKnown
    <2> QED BY <1>1, <1>5, <2>1, BestStandsNext
  <1>8. NeverMore' /\ JobsOwed'
    BY <1>1, <1>4 DEF StaleInv, NeverMore, JobsOwed, AnnouncedOn, LostBy
  <1> QED BY <1>5, <1>6, <1>7, <1>8

LEMMA DropHeadStale ==
  ASSUME TypesHold, TakenInv, StaleInv, DropHead
  PROVE  StaleInv'
  <1>1. PICK h \in Heads(items) \ {best_share} : TakeOut({h})
    BY DEF DropHead
  <1>2. PICK b, sh, S : b = best_share /\ sh = share /\ S = items
    OBVIOUS
  <1>3. /\ items' = S \ {h} /\ share' = sh /\ CountRemoved({h})
        /\ UNCHANGED <<share, job, my_share_hashes, my_doa_share_hashes>>
        /\ h \in S /\ \A y \in S : sh[y].previous # h
        /\ h # b
    BY <1>1, <1>2 DEF TakeOut, Heads
  <1>4. /\ Linked(sh) /\ S \in SUBSET (1 .. Len(sh)) /\ Len(sh) \in Nat /\ b \in S \cup {None}
        /\ DOMAIN share = 1 .. Len(sh)
    <2>1. Linked(sh) /\ DOMAIN share = 1 .. Len(sh) /\ Len(sh) \in Nat
      BY <1>2 DEF StaleInv, ChainsFit, Linked, BackLinked
    <2> QED BY <1>2, <2>1 DEF TypesHold, SharesKnown
  <1>5. h \notin OnChain(best_share)
    <2>1. SUFFICES ASSUME h \in OnChain(best_share) PROVE FALSE
      OBVIOUS
    <2>2. h \in On(sh, S, b)
      BY <1>2, <2>1, PathsAreWalks
    <2>3. b \in 0 .. Len(sh)
      BY <1>4 DEF None
    <2>4. b = h
      BY ONLY <1>3, <1>4, <2>2, <2>3, MetFromItself
    <2> QED BY <1>3, <2>4
  <1>6. ASSUME NEW x \in items' PROVE On(sh, S \ {h}, x) = On(sh, S, x)
    <2>1. x \in 0 .. Len(sh) /\ x # h
      BY <1>3, <1>4
    <2> QED BY ONLY <1>3, <1>4, <2>1, OnWithout
  <1>7. ASSUME NEW T, NEW x \in items', Grounded(T, x) PROVE Grounded(T, x)'
    <2>1. Full(sh, x) = T \cup On(sh, S, x)
      BY <1>2, <1>7 DEF Grounded
    <2>2. Full(sh, x) = T \cup On(sh, S \ {h}, x)
      BY <1>6, <2>1
    <2> QED BY <1>3, <2>2 DEF Grounded
  <1>8. ASSUME Rooted
        PROVE  \E T : /\ T \subseteq DOMAIN share \ items'
                      /\ \A x \in items' : Grounded(T, x)' \/ Island(x)'
                      /\ \A j \in DOMAIN job : job[j].previous \in items' => Grounded(T, job[j].previous)'
                      /\ b = None => T = {}
                      /\ b \in items' => Grounded(T, b)'
                      /\ RemovedCounted(T)'
    <2>1. PICK T : Stands(T) /\ BestStands(T) /\ RemovedCounted(T)
      BY <1>8 DEF StaleInv
    <2>2. T \subseteq DOMAIN share \ items'
      BY <1>2, <1>3, <2>1 DEF Stands
    <2>3. ASSUME NEW x \in items' PROVE Grounded(T, x)' \/ Island(x)'
      <3>1. x \in items
        BY <1>2, <1>3
      <3>2. CASE Grounded(T, x)
        BY <1>7, <3>2
      <3>3. CASE Island(x)
        BY <1>2, <1>3, <3>3 DEF Island
      <3> QED BY <2>1, <3>1, <3>2, <3>3 DEF Stands
    <2>4. ASSUME NEW j \in DOMAIN job, job[j].previous \in items' PROVE Grounded(T, job[j].previous)'
      <3>1. PICK p : p = job[j].previous /\ p = job'[j].previous
        BY <1>3
      <3>2. p \in items' /\ p \in items
        BY <1>2, <1>3, <2>4, <3>1
      <3>3. Grounded(T, p)
        BY <2>1, <3>1, <3>2 DEF Stands
      <3>4. Grounded(T, p)'
        BY <1>7, <3>2, <3>3
      <3> QED BY <3>1, <3>4 DEF Grounded
    <2>5. b = None => T = {}
      BY <1>2, <2>1 DEF BestStands
    <2>6. ASSUME b \in items' PROVE Grounded(T, b)'
      <3>1. b \in items
        BY <1>2, <1>3, <2>6
      <3>2. Grounded(T, b)
        BY <1>2, <2>1, <3>1 DEF BestStands
      <3> QED BY <1>7, <2>6, <3>2
    <2>7. RemovedCounted(T)'
      <3>1. PICK C : C = {x \in {h} : IsUnder(x, best_share)}
        OBVIOUS
      <3>2. T \cup C = T
        BY <1>5, <3>1 DEF IsUnder
      <3>3. T \cap {h} = {}
        BY <1>2, <1>3, <2>1 DEF Stands
      <3>4. IsFiniteSet(my_share_hashes) /\ my_doa_share_hashes \subseteq my_share_hashes
        BY DEF TakenInv, TypesHold, SharesKnown
      <3>5. RemovedCounted(T \cup C)'
        BY <1>3, <2>1, <3>1, <3>3, <3>4, CountedOut
      <3> QED BY <3>2, <3>5
    <2> QED BY <2>2, <2>3, <2>4, <2>5, <2>6, <2>7
  <1>9. items' \subseteq items
    BY <1>2, <1>3
  <1> QED BY <1>1, <1>2, <1>8, <1>9, LeftStands

\* What goes at the end is under every head and under the best share, so under all that is left;
\* nothing is left but what stands on it.
LEMMA DropTailsStale ==
  ASSUME TypesHold, TakenInv, StaleInv, DropTails
  PROVE  StaleInv'
  <1>1. PICK gone, b, sh, S : gone = items \ Pruned /\ b = best_share /\ sh = share /\ S = items
    OBVIOUS
  <1>2. /\ TakeOut(gone) /\ gone # {}
        /\ \A h \in Heads(items) \cup {best_share} : gone \subseteq OnChain(h)
    BY <1>1 DEF DropTails, TakeOut
  <1>3. /\ items' = S \ gone /\ share' = sh /\ CountRemoved(gone)
        /\ UNCHANGED <<share, job, my_share_hashes, my_doa_share_hashes>>
    BY <1>1, <1>2 DEF TakeOut
  <1>4. /\ Linked(sh) /\ S \in SUBSET (1 .. Len(sh)) /\ Len(sh) \in Nat /\ b \in S \cup {None}
        /\ DOMAIN share = 1 .. Len(sh)
    <2>1. Linked(sh) /\ DOMAIN share = 1 .. Len(sh) /\ Len(sh) \in Nat
      BY <1>1 DEF StaleInv, ChainsFit, Linked, BackLinked
    <2> QED BY <1>1, <2>1 DEF TypesHold, SharesKnown
  <1>5. /\ gone \in SUBSET S
        /\ \A y \in gone : sh[y].previous \in S => sh[y].previous \in gone
    BY <1>1, PrunedIsAbove
  <1>6. \A h \in S : (\A y \in S : sh[y].previous # h) => gone \subseteq On(sh, S, h)
    BY <1>1, <1>2, PathsAreWalks DEF Heads
  <1>7. b \in S /\ b # None
    <2>1. gone \subseteq On(sh, S, b)
      BY <1>1, <1>2, PathsAreWalks
    <2>2. b \in 0 .. Len(sh) /\ None \notin 1 .. Len(sh)
      BY <1>4 DEF None
    <2>3. ASSUME b \notin S PROVE FALSE
      <3>1. On(sh, S, b) = {}
        BY ONLY <1>4, <2>2, <2>3, OnSteps
      <3> QED BY <1>2, <2>1, <3>1
    <2> QED BY <1>4, <2>2, <2>3
  <1>8. ASSUME NEW x \in S \ gone PROVE On(sh, S, x) = gone \cup On(sh, S \ gone, x)
    BY ONLY <1>4, <1>5, <1>6, x \in S \ gone, TrunkCut
  <1>9. ASSUME NEW T, NEW x \in S \ gone, Grounded(T, x) PROVE Grounded(T \cup gone, x)'
    <2>1. Full(sh, x) = T \cup On(sh, S, x)
      BY <1>1, <1>9 DEF Grounded
    <2>2. Full(sh, x) = (T \cup gone) \cup On(sh, S \ gone, x)
      BY <1>8, <2>1
    <2> QED BY <1>3, <2>2 DEF Grounded
  <1>10. ASSUME NEW x \in S \ gone, Island(x) PROVE FALSE
    <2>1. sh[x].previous \notin S /\ \A y \in S : sh[y].previous # x
      BY <1>1, <1>10 DEF Island
    <2>2. gone \subseteq On(sh, S, x)
      BY <1>6, <2>1
    <2>3. x \in 1 .. Len(sh) /\ x \in 0 .. Len(sh)
      BY <1>4
    <2>4. sh[x].previous \in 0 .. Len(sh)
      BY <1>4, <2>3, LinkedPrevious
    <2>5. On(sh, S, x) = {x} \cup On(sh, S, sh[x].previous)
      BY <1>4, <1>10, <2>3, OnSteps
    <2>6. On(sh, S, sh[x].previous) = {}
      BY <1>4, <2>1, <2>4, OnSteps
    <2> QED BY <1>2, <1>10, <2>2, <2>5, <2>6
  <1>11. ASSUME Rooted
        PROVE  \E T : /\ T \subseteq DOMAIN share \ items'
                      /\ \A x \in items' : Grounded(T, x)' \/ Island(x)'
                      /\ \A j \in DOMAIN job : job[j].previous \in items' => Grounded(T, job[j].previous)'
                      /\ b = None => T = {}
                      /\ b \in items' => Grounded(T, b)'
                      /\ RemovedCounted(T)'
    <2>1. PICK T : Stands(T) /\ BestStands(T) /\ RemovedCounted(T)
      BY <1>11 DEF StaleInv
    <2>2. PICK U : U = T \cup gone
      OBVIOUS
    <2>3. U \subseteq DOMAIN share \ items'
      BY <1>1, <1>3, <1>4, <1>5, <2>1, <2>2 DEF Stands
    <2>4. ASSUME NEW x \in items' PROVE Grounded(U, x)'
      <3>1. x \in S \ gone
        BY <1>3
      <3>2. Grounded(T, x)
        BY <1>1, <1>10, <2>1, <3>1 DEF Stands
      <3>3. Full(sh, x) = (T \cup gone) \cup On(sh, S \ gone, x)
        BY <1>3, <1>9, <3>1, <3>2 DEF Grounded
      <3> QED BY <1>3, <2>2, <3>3 DEF Grounded
    <2>5. ASSUME NEW j \in DOMAIN job, job[j].previous \in items' PROVE Grounded(U, job[j].previous)'
      <3>1. PICK p : p = job[j].previous /\ p = job'[j].previous
        BY <1>3
      <3>2. Grounded(U, p)'
        BY <2>4, <2>5, <3>1
      <3> QED BY <3>1, <3>2 DEF Grounded
    <2>6. RemovedCounted(U)'
      <3>1. PICK C : C = {x \in gone : IsUnder(x, best_share)}
        OBVIOUS
      <3>2. T \cup C = U
        BY <1>2, <2>2, <3>1 DEF IsUnder
      <3>3. T \cap gone = {}
        BY <1>1, <1>5, <2>1 DEF Stands
      <3>4. IsFiniteSet(my_share_hashes) /\ my_doa_share_hashes \subseteq my_share_hashes
        BY DEF TakenInv, TypesHold, SharesKnown
      <3>5. RemovedCounted(T \cup C)'
        BY <1>3, <2>1, <3>1, <3>3, <3>4, CountedOut
      <3> QED BY <3>2, <3>5
    <2> QED BY <1>7, <2>3, <2>4, <2>5, <2>6
  <1>12. items' \subseteq items
    BY <1>1, <1>3
  <1> QED BY <1>1, <1>2, <1>11, <1>12, LeftStands

-----------------------------------------------------------------------------
LEMMA StaleInit == WorkInit => StaleInv
  <1> SUFFICES ASSUME WorkInit PROVE StaleInv
    OBVIOUS
  <1>1. /\ share = <<>> /\ items = {} /\ best_share = None /\ job = <<>>
        /\ my_share_hashes = {} /\ my_doa_share_hashes = {}
        /\ removed_unstales = [all |-> 0, orphan |-> 0, doa |-> 0] /\ removed_doa = 0
    BY DEF WorkInit
  <1>2. share \in Seq(ShareRecord) /\ Len(share) = 0 /\ DOMAIN job = {}
    BY <1>1
  <1>3. ChainsFit
    BY <1>2 DEF ChainsFit, Linked, BackLinked
  <1>4. Stands({}) /\ BestStands({})
    BY <1>1, <1>2 DEF Stands, BestStands
  <1>5. Cardinality({}) = 0 /\ \A info : {} \cap my_share_hashes = {} /\ Announcing({}, info) = {}
    BY FS_EmptySet DEF Announcing
  <1>6. RemovedCounted({})
    <2>1. /\ {} \cap my_share_hashes = {} /\ {} \cap my_doa_share_hashes = {}
          /\ Announcing({}, "orphan") = {} /\ Announcing({}, "doa") = {}
      BY <1>5
    <2> QED BY <1>1, <1>5, <2>1 DEF RemovedCounted
  <1>7. NeverMore
    <2>1. ASSUME NEW x, NEW info PROVE Cardinality(AnnouncedOn(x, info)) <= Cardinality(LostBy(x, info))
      <3>1. AnnouncedOn(x, info) = {} /\ LostBy(x, info) = {}
        BY <1>1 DEF AnnouncedOn, LostBy, AnnouncedOf, LostOf
      <3>2. Cardinality(AnnouncedOn(x, info)) = 0 /\ Cardinality(LostBy(x, info)) = 0
        BY <1>5, <3>1
      <3> QED BY <3>2
    <2> QED BY <2>1 DEF NeverMore
  <1>8. JobsOwed
    BY <1>2 DEF JobsOwed
  <1> QED BY <1>3, <1>4, <1>6, <1>7, <1>8 DEF StaleInv

LEMMA StaleNext ==
  ASSUME TypesHold, Outside, JobInv, TakenInv, StaleInv, TakenOnce, TakenOnce', [WorkNext]_workVars
  PROVE  StaleInv'
  <1>1. ASSUME NEW b \in bound.blocks, NEW txs \in TxChoices, NodeGotWork([on |-> b, txs |-> txs])
        PROVE  StaleInv'
    BY <1>1, NodeStale
  <1>2. ASSUME NEW b \in bound.blocks, NodeHeader(b) PROVE StaleInv'
    BY <1>2, NodeStale
  <1>3. ASSUME NEW h \in items \cup {None}, PeerShare(h) PROVE StaleInv'
    BY <1>3, PeerShareStale
  <1>4. CASE DropHead \/ DropTails
    BY <1>4, DropHeadStale, DropTailsStale
  <1>5. ASSUME NEW s \in Session,
               \/ Connect(s) \/ Disconnect(s) \/ SendFails(s) \/ JobExpires(s)
               \/ rpc_subscribe(s) \/ rpc_configure(s) \/ \E wish \in Wishes \cup {no_wish} : rpc_authorize(s, wish)
        PROVE  StaleInv'
    BY <1>5, SessionStale
  <1>6. ASSUME NEW s \in Session, SendWork(s) PROVE StaleInv'
    BY <1>6, CurrentWorkType, SendWorkStale
  <1>7. ASSUME NEW s \in Session, NEW j \in DOMAIN job, NEW p \in Hashes, rpc_submit(s, j, p)
        PROVE  StaleInv'
    BY <1>7, SubmitStale
  <1>8. CASE UNCHANGED workVars
    BY <1>8, QuietStale DEF workVars
  <1> QED BY <1>1, <1>2, <1>3, <1>4, <1>5, <1>6, <1>7, <1>8 DEF WorkNext

LEMMA ExactFromInv ==
  ASSUME TypesHold, TakenInv, TakenOnce => StaleInv
  PROVE  StaleExact
  <1>1. SUFFICES ASSUME TakenOnce, StaleInv, Rooted
                 PROVE  LET off == my_share_hashes \ Sq!ToSet(FullPath(best_share))
                            on == my_share_hashes \cap Sq!ToSet(FullPath(best_share))
                            c == get_stale_counts
                        IN /\ c = [orphans |-> Cardinality(off \ my_doa_share_hashes),
                                   doas |-> Cardinality(off \cap my_doa_share_hashes),
                                   orphans_recorded |-> Cardinality(Announcing(on, "orphan")),
                                   doas_recorded |-> Cardinality(Announcing(on, "doa"))]
                           /\ c.orphans_recorded <= c.orphans /\ c.doas_recorded <= c.doas
    BY DEF StaleExact, Rooted
  <1>2. PICK mine, dead, b, F : /\ mine = my_share_hashes /\ dead = my_doa_share_hashes /\ b = best_share
                                /\ F = Sq!ToSet(FullPath(b))
    OBVIOUS
  <1>3. F = Full(share, b)
    <2>1. DOMAIN share = 1 .. Len(share)
      BY DEF StaleInv, ChainsFit, Linked, BackLinked
    <2>2. F = On(share, DOMAIN share, b)
      BY <1>2, PathsAreWalks
    <2> QED BY <2>1, <2>2 DEF Full
  <1>4. /\ LostBy(b, "orphan") = (mine \ F) \ dead /\ LostBy(b, "doa") = (mine \ F) \cap dead
        /\ AnnouncedOn(b, "orphan") = Announcing(mine \cap F, "orphan")
        /\ AnnouncedOn(b, "doa") = Announcing(mine \cap F, "doa")
    BY <1>2, <1>3 DEF LostBy, LostOf, AnnouncedOn, AnnouncedOf, Announcing
  <1>5. PICK T : Stands(T) /\ BestStands(T) /\ RemovedCounted(T)
    BY <1>1 DEF StaleInv
  <1>6. PICK c : c = get_stale_counts
    OBVIOUS
  <1>7. c = [orphans |-> Cardinality(LostBy(b, "orphan")), doas |-> Cardinality(LostBy(b, "doa")),
             orphans_recorded |-> Cardinality(AnnouncedOn(b, "orphan")),
             doas_recorded |-> Cardinality(AnnouncedOn(b, "doa"))]
    BY <1>1, <1>2, <1>5, <1>6, CountsAreExact DEF StaleInv, TypesHold, TakenInv, SeenAsTheyAre
  <1>8. /\ Cardinality(AnnouncedOn(b, "orphan")) <= Cardinality(LostBy(b, "orphan"))
        /\ Cardinality(AnnouncedOn(b, "doa")) <= Cardinality(LostBy(b, "doa"))
    <2>1. b \in 0 .. Len(share)
      <3>1. DOMAIN share = 1 .. Len(share) /\ Len(share) \in Nat
        BY DEF StaleInv, ChainsFit, Linked, BackLinked
      <3> QED BY <1>2, <3>1 DEF TypesHold, SharesKnown, None
    <2> QED BY <1>1, <2>1 DEF StaleInv, NeverMore, StaleKinds
  <1>9. c.orphans_recorded <= c.orphans /\ c.doas_recorded <= c.doas
    BY <1>7, <1>8
  <1>10. c = [orphans |-> Cardinality((mine \ F) \ dead), doas |-> Cardinality((mine \ F) \cap dead),
              orphans_recorded |-> Cardinality(Announcing(mine \cap F, "orphan")),
              doas_recorded |-> Cardinality(Announcing(mine \cap F, "doa"))]
    BY <1>4, <1>7
  <1> QED BY <1>2, <1>6, <1>9, <1>10

\* For any number of miners, shares, forks and blocks, and however much of the chain has gone: as
\* long as no header was taken again, and no dead share began a chain, the counts of stale shares a
\* job goes by are those of the shares this node made that are off the best chain, the watcher of
\* removed shares missing none and counting none twice, and the chain never announces more of them
\* than there are (work.py:89-99, 176-195, 408-413).
THEOREM StaleCountsExact == WorkSpec => []StaleExact
  <1> DEFINE OnceStale == TakenOnce => StaleInv
  <1>1. TypesHold /\ Outside /\ TakenInv /\ [WorkNext]_workVars => TakenInv'
    BY TakenNext
  <1>2. TypesHold /\ Outside /\ JobInv /\ TakenInv /\ OnceStale /\ [WorkNext]_workVars => OnceStale'
    BY OnceBefore, StaleNext
  <1>3. TypesHold /\ TakenInv /\ OnceStale => StaleExact
    BY ExactFromInv
  <1>4. WorkSpec => []JobInv
    BY AllTypesHold, JobsInit, JobsNext, PTL DEF WorkSpec
  <1>5. WorkSpec => []TakenInv
    BY <1>1, TakenInit, AllTypesHold, PTL DEF WorkSpec
  <1>6. WorkInit => OnceStale
    BY StaleInit
  <1> HIDE DEF OnceStale
  <1> QED BY <1>2, <1>3, <1>4, <1>5, <1>6, AllTypesHold, PTL DEF WorkSpec

-----------------------------------------------------------------------------
\* The requests of util/deferral.py: what they are made of, and the invariant they keep.
Ids == Req \cup BlockHash
Entry == [conn : Conn, id : Ids, req : Req]
Answers == Conn \X Ids
State ==
  [state : [Conn -> {"up", "aborting", "lost"}], map : [Conn -> Seq(Entry)], timers : SUBSET Entry,
   coming : SUBSET Answers, outcome : [Req -> {"none", "out", "ended", "twice"}],
   asking : Req \cup {Asleep}]

\* The maps have the entries whose timers run, each once.
Listed(s) ==
  /\ \A c \in Conn : \A i, j \in DOMAIN s.map[c] : s.map[c][i] = s.map[c][j] => i = j
  /\ \A c \in Conn : \A i \in DOMAIN s.map[c] : s.map[c][i].conn = c /\ s.map[c][i] \in s.timers
  /\ \A e \in s.timers : \E i \in DOMAIN s.map[e.conn] : s.map[e.conn][i] = e

\* A request is out while it has an entry, or one of P, whose deferreds are about to fire.
Due(s, P) ==
  /\ P \subseteq Entry /\ P \cap s.timers = {}
  /\ \A e, d \in s.timers \cup P : e.req = d.req => e = d
  /\ \A e \in s.timers \cup P : s.outcome[e.req] = "out"
  /\ \A r \in Req : s.outcome[r] = "out" => \E e \in s.timers \cup P : e.req = r
  /\ \A r \in Req : s.outcome[r] # "twice"

\* Nothing is out on a peer's connection that is lost, but on those of X.
Alive(k, s, P, X) ==
  k = "peer" => \A e \in s.timers \cup P : s.state[e.conn] # "lost" \/ e.conn \in X

\* The pings of a peer are made in turn.
InTurn(s) ==
  \A i, j \in 1 .. Pings :
    i < j /\ s.outcome[<<"ping", i>>] = "out" => s.outcome[<<"ping", j>>] = "none"

\* download_shares waits for a request that is out.
Waits(s) == s.asking # Asleep => s.asking[1] = "download" /\ s.outcome[s.asking] = "out"

Core(k, s, P, X) == s \in State /\ Listed(s) /\ Due(s, P) /\ Alive(k, s, P, X) /\ InTurn(s)
Sound(k, s, P, X) == Core(k, s, P, X) /\ Waits(s)

\* What may become of requests in one turn.
Onward(o, p) ==
  \A r \in Req : /\ o[r] = "out" => p[r] \in {"out", "ended"}
                 /\ o[r] = "ended" => p[r] = "ended"

\* The invariant, between turns: the entries and the outcomes agree, nothing is about to fire,
\* and nothing is out on the connection of a peer that is gone. That pings come in turn is part
\* of it since PingAgain must find the next name free, and so is that what fires has left the
\* map before, or a caller that asks again would meet its own entry there.
RequestsInv == kind \in Kinds /\ Sound(kind, Now, {}, {})

\* The names of the requests.
LEMMA ReqIs ==
  /\ \A r \in Req : /\ r[1] \in {"download", "notice", "block", "announce", "ping"}
                    /\ r[1] = "ping" => r[2] \in 1 .. Pings /\ r = <<"ping", r[2]>>
                    /\ r[1] = "announce" => r = <<"announce", 1>>
  /\ \A i \in 1 .. Pings : <<"ping", i>> \in Req
  /\ <<"announce", 1>> \in Req
  /\ Asleep \notin Req
  BY DEF Req, Asleep

LEMMA ReqFinite == IsFiniteSet(Req) /\ Cardinality(Req) \in Nat
  <1>1. MaxOut \in Nat /\ Pings \in Nat
    BY RequestsAssumption
  <1>2. IsFiniteSet(1 .. MaxOut) /\ IsFiniteSet(1 .. Pings)
    BY <1>1, FS_Interval
  <1>3. IsFiniteSet({"download", "notice", "block"})
    <2>1. IsFiniteSet({"download"}) /\ IsFiniteSet({"notice"}) /\ IsFiniteSet({"block"})
      BY FS_Singleton
    <2>2. {"download", "notice", "block"} = ({"download"} \cup {"notice"}) \cup {"block"}
      OBVIOUS
    <2> QED BY <2>1, <2>2, FS_Union
  <1>4. IsFiniteSet({"announce"}) /\ IsFiniteSet({1}) /\ IsFiniteSet({"ping"})
    BY FS_Singleton
  <1>5. IsFiniteSet({"download", "notice", "block"} \X (1 .. MaxOut))
    BY <1>2, <1>3, FS_Product
  <1>6. IsFiniteSet({"announce"} \X {1}) /\ IsFiniteSet({"ping"} \X (1 .. Pings))
    BY <1>2, <1>4, FS_Product
  <1>7. IsFiniteSet(Req)
    BY <1>5, <1>6, FS_Union DEF Req
  <1> QED BY <1>7, FS_CardinalityType

LEMMA StateIs ==
  ASSUME NEW s \in State
  PROVE  /\ s.state \in [Conn -> {"up", "aborting", "lost"}] /\ s.map \in [Conn -> Seq(Entry)]
         /\ s.timers \subseteq Entry /\ s.coming \subseteq Answers
         /\ s.outcome \in [Req -> {"none", "out", "ended", "twice"}] /\ s.asking \in Req \cup {Asleep}
  BY DEF State

\* What Call makes of the state, part by part.
LEMMA CallIs ==
  ASSUME NEW s \in State, NEW c \in Conn, NEW id \in Ids, NEW r \in Req,
         NEW e, e = [conn |-> c, id |-> id, req |-> r], NEW t, t = Call(s, c, id, r)
  PROVE  /\ e \in Entry /\ t \in State
         /\ t.state = s.state /\ t.asking = s.asking
         /\ t.map = [s.map EXCEPT ![c] = Append(@, e)]
         /\ t.timers = s.timers \cup {e}
         /\ t.outcome = [s.outcome EXCEPT ![r] = "out"]
         /\ t.coming \in {s.coming, s.coming \cup {<<c, id>>}}
  <1>1. e \in Entry
    BY DEF Entry
  <1>2. PICK st, mp, tm, cm, oc, as : s = [state |-> st, map |-> mp, timers |-> tm, coming |-> cm,
                                           outcome |-> oc, asking |-> as]
    BY DEF State
  <1>4. /\ st \in [Conn -> {"up", "aborting", "lost"}] /\ mp \in [Conn -> Seq(Entry)]
        /\ tm \in SUBSET Entry /\ cm \in SUBSET (Answers)
        /\ oc \in [Req -> {"none", "out", "ended", "twice"}] /\ as \in Req \cup {Asleep}
    BY <1>2 DEF State
  <1>5. PICK mp2 \in [Conn -> Seq(Entry)] : mp2 = [mp EXCEPT ![c] = Append(@, e)]
    <2>1. mp[c] \in Seq(Entry)
      BY <1>4
    <2>2. Append(mp[c], e) \in Seq(Entry)
      BY <1>1, <2>1
    <2> QED BY <1>4, <2>2
  <1>6. PICK oc2 \in [Req -> {"none", "out", "ended", "twice"}] : oc2 = [oc EXCEPT ![r] = "out"]
    BY <1>4
  <1>7. PICK tm2 \in SUBSET Entry : tm2 = tm \cup {e}
    BY <1>1, <1>4
  <1>8. PICK cm2 \in SUBSET (Answers) :
          /\ cm2 = IF s.state[c] = "up" /\ ~ (\E x \in Range(s.map[c]) : x.id = id)
                   THEN cm \cup {<<c, id>>} ELSE cm
          /\ cm2 \in {cm, cm \cup {<<c, id>>}}
    <2>1. <<c, id>> \in Answers
      BY DEF Answers
    <2> QED BY <1>4, <2>1
  <1>9. t = [state |-> st, map |-> mp2, timers |-> tm2, coming |-> cm2, outcome |-> oc2, asking |-> as]
    BY <1>2, <1>5, <1>6, <1>7, <1>8 DEF Call
  <1>10. t \in State
    BY ONLY <1>4, <1>9, mp2 \in [Conn -> Seq(Entry)], tm2 \in SUBSET Entry, cm2 \in SUBSET Answers,
       oc2 \in [Req -> {"none", "out", "ended", "twice"}] DEF State
  <1>11. /\ t.state = s.state /\ t.asking = s.asking /\ t.map = mp2 /\ t.timers = tm2 /\ t.outcome = oc2
         /\ t.coming = cm2 /\ s.map = mp /\ s.timers = tm /\ s.coming = cm /\ s.outcome = oc
    BY ONLY <1>2, <1>9
  <1> QED BY ONLY <1>1, <1>5, <1>6, <1>7, <1>8, <1>10, <1>11

\* A request that may be made: its entry is new, and so is its name.
LEMMA CallSound ==
  ASSUME NEW k, NEW s, NEW P, NEW X, Core(k, s, P, X),
         NEW c \in Conn, NEW id \in Ids, NEW r \in Req, s.outcome[r] = "none",
         k = "peer" => s.state[c] # "lost" \/ c \in X,
         \A i, j \in 1 .. Pings :
           /\ r = <<"ping", i>> /\ i < j => s.outcome[<<"ping", j>>] = "none"
           /\ r = <<"ping", j>> /\ i < j => s.outcome[<<"ping", i>>] # "out",
         NEW t, t = Call(s, c, id, r)
  PROVE  /\ Core(k, t, P, X) /\ t.state = s.state /\ t.asking = s.asking
         /\ t.outcome = [s.outcome EXCEPT ![r] = "out"]
  <1>s. s \in State
    BY DEF Core
  <1>1. PICK e : e = [conn |-> c, id |-> id, req |-> r]
    OBVIOUS
  <1>0. e.conn = c /\ e.req = r
    BY <1>1
  <1>2. /\ e \in Entry /\ t \in State /\ t.state = s.state /\ t.asking = s.asking
        /\ t.map = [s.map EXCEPT ![c] = Append(@, e)]
        /\ t.timers = s.timers \cup {e}
        /\ t.outcome = [s.outcome EXCEPT ![r] = "out"]
    BY <1>s, <1>1, CallIs
  <1>3. /\ s.map \in [Conn -> Seq(Entry)] /\ s.timers \subseteq Entry
        /\ s.outcome \in [Req -> {"none", "out", "ended", "twice"}]
    BY StateIs DEF Core
  <1>4. \A d \in s.timers \cup P : d.req # r /\ d # e /\ d \in Entry /\ d.req \in Req /\ d.conn \in Conn
    BY <1>0, <1>3 DEF Core, Due, Entry
  <1>5. Listed(t)
    <2> DEFINE q == s.map[c]
    <2>1. /\ q \in Seq(Entry) /\ Len(q) \in Nat /\ DOMAIN q = 1 .. Len(q)
          /\ t.map[c] = Append(q, e) /\ DOMAIN t.map[c] = 1 .. Len(q) + 1
          /\ t.map[c][Len(q) + 1] = e /\ \A i \in DOMAIN q : t.map[c][i] = q[i]
      BY <1>2, <1>3
    <2>2. \A x \in Conn : x # c => t.map[x] = s.map[x]
      BY <1>2, <1>3
    <2>3. \A i \in DOMAIN t.map[c] : i = Len(q) + 1 \/ i \in DOMAIN q
      BY <2>1
    <2>4. \A i \in DOMAIN q : q[i] \in s.timers /\ q[i].conn = c /\ q[i] # e
      BY <1>4 DEF Core, Listed
    <2>5. ASSUME NEW x \in Conn, NEW i \in DOMAIN t.map[x], NEW j \in DOMAIN t.map[x], t.map[x][i] = t.map[x][j]
          PROVE  i = j
      <3>1. CASE x # c
        BY <2>2, <2>5, <3>1 DEF Core, Listed
      <3>2. CASE x = c
        <4>1. \A a, b \in DOMAIN q : q[a] = q[b] => a = b
          BY DEF Core, Listed
        <4> HIDE DEF q
        <4> QED BY <2>1, <2>3, <2>4, <2>5, <3>2, <4>1
      <3> QED BY <3>1, <3>2
    <2>6. ASSUME NEW x \in Conn, NEW i \in DOMAIN t.map[x]
          PROVE  t.map[x][i].conn = x /\ t.map[x][i] \in t.timers
      <3>1. CASE x # c
        BY <1>2, <2>2, <3>1 DEF Core, Listed
      <3>2. CASE x = c
        <4> HIDE DEF q
        <4> QED BY <1>0, <1>2, <2>1, <2>3, <2>4, <3>2
      <3> QED BY <3>1, <3>2
    <2>7. ASSUME NEW d \in t.timers PROVE \E i \in DOMAIN t.map[d.conn] : t.map[d.conn][i] = d
      <3>1. CASE d = e
        <4>1. Len(q) + 1 \in DOMAIN t.map[c]
          BY <2>1
        <4> HIDE DEF q
        <4> QED BY <1>0, <2>1, <3>1, <4>1
      <3>2. CASE d \in s.timers
        <4>1. PICK i \in DOMAIN s.map[d.conn] : s.map[d.conn][i] = d
          BY <3>2 DEF Core, Listed
        <4>2. d.conn \in Conn
          BY <1>4, <3>2
        <4>3. CASE d.conn # c
          BY <2>2, <4>1, <4>2, <4>3
        <4>4. CASE d.conn = c
          <5>1. i \in DOMAIN q /\ q[i] = d /\ i \in DOMAIN t.map[c]
            BY <2>1, <4>1, <4>4
          <5> HIDE DEF q
          <5> QED BY <2>1, <4>4, <5>1
        <4> QED BY <4>3, <4>4
      <3> QED BY <1>2, <2>7, <3>1, <3>2
    <2> HIDE DEF q
    <2> QED BY <2>5, <2>6, <2>7 DEF Listed
  <1>6. \A x \in Req : t.outcome[x] = IF x = r THEN "out" ELSE s.outcome[x]
    BY <1>2, <1>3
  <1>7. Due(t, P)
    <2>1. P \subseteq Entry /\ P \cap t.timers = {}
      BY <1>2, <1>4 DEF Core, Due
    <2>2. \A x, d \in t.timers \cup P : x.req = d.req => x = d
      BY <1>0, <1>2, <1>4 DEF Core, Due
    <2>3. \A x \in t.timers \cup P : t.outcome[x.req] = "out"
      BY <1>0, <1>2, <1>4, <1>6 DEF Core, Due
    <2>4. \A x \in Req : t.outcome[x] = "out" => \E d \in t.timers \cup P : d.req = x
      BY <1>0, <1>2, <1>6 DEF Core, Due
    <2>5. \A x \in Req : t.outcome[x] # "twice"
      BY <1>6 DEF Core, Due
    <2> QED BY <2>1, <2>2, <2>3, <2>4, <2>5 DEF Due
  <1>8. Alive(k, t, P, X)
    BY <1>0, <1>2 DEF Core, Alive
  <1>9. InTurn(t)
    <2>1. ASSUME NEW i \in 1 .. Pings, NEW j \in 1 .. Pings, i < j, t.outcome[<<"ping", i>>] = "out"
          PROVE  t.outcome[<<"ping", j>>] = "none"
      <3>1. <<"ping", i>> \in Req /\ <<"ping", j>> \in Req
        BY ReqIs
      <3>2. r # <<"ping", j>>
        <4>1. SUFFICES ASSUME r = <<"ping", j>> PROVE FALSE
          OBVIOUS
        <4>2. s.outcome[<<"ping", i>>] # "out"
          BY <2>1, <4>1
        <4>3. <<"ping", i>> = r
          BY <1>6, <2>1, <3>1, <4>2
        <4> QED BY <2>1, <4>1, <4>3
      <3>3. CASE r = <<"ping", i>>
        BY <1>6, <2>1, <3>1, <3>2, <3>3
      <3>4. CASE r # <<"ping", i>>
        <4>1. s.outcome[<<"ping", i>>] = "out"
          BY <1>6, <2>1, <3>1, <3>4
        <4> QED BY <1>6, <2>1, <3>1, <3>2, <4>1 DEF Core, InTurn
      <3> QED BY <3>3, <3>4
    <2> QED BY <2>1 DEF InTurn
  <1> QED BY <1>2, <1>5, <1>7, <1>8, <1>9 DEF Core

\* The core speaks of entries and outcomes, and of connections that are lost.
LEMMA SameCore ==
  ASSUME NEW k, NEW s, NEW P, NEW X, Core(k, s, P, X), NEW t \in State,
         t.map = s.map, t.timers = s.timers, t.outcome = s.outcome,
         \A c \in Conn : t.state[c] = "lost" => s.state[c] = "lost"
  PROVE  Core(k, t, P, X)
  <1>1. s \in State /\ P \subseteq Entry
    BY DEF Core, Due
  <1>2. \A e \in s.timers \cup P : e.conn \in Conn
    BY <1>1, StateIs DEF Entry
  <1>3. Alive(k, t, P, X)
    BY <1>2 DEF Core, Alive
  <1> QED BY <1>3 DEF Core, Listed, Due, InTurn

\* What disconnect, the next question and the end of a request change, part by part.
LEMMA DisconnectIs ==
  ASSUME NEW s \in State, NEW c \in Conn, NEW t, t = disconnect(s, c)
  PROVE  /\ t \in State /\ t.map = s.map /\ t.timers = s.timers /\ t.outcome = s.outcome
         /\ t.asking = s.asking /\ t.coming = s.coming
         /\ \A x \in Conn : t.state[x] = "lost" => s.state[x] = "lost"
         /\ t.state[c] # "up" /\ \A x \in Conn \ {c} : t.state[x] = s.state[x]
  <1>1. PICK st, mp, tm, cm, oc, as : s = [state |-> st, map |-> mp, timers |-> tm, coming |-> cm,
                                           outcome |-> oc, asking |-> as]
    BY DEF State
  <1>2. /\ st \in [Conn -> {"up", "aborting", "lost"}] /\ mp \in [Conn -> Seq(Entry)]
        /\ tm \in SUBSET Entry /\ cm \in SUBSET Answers
        /\ oc \in [Req -> {"none", "out", "ended", "twice"}] /\ as \in Req \cup {Asleep}
    BY <1>1 DEF State
  <1>3. PICK st2 \in [Conn -> {"up", "aborting", "lost"}] :
          st2 = [st EXCEPT ![c] = IF @ = "up" THEN "aborting" ELSE @]
    BY <1>2
  <1>4. t = [state |-> st2, map |-> mp, timers |-> tm, coming |-> cm, outcome |-> oc, asking |-> as]
    BY <1>1, <1>3 DEF disconnect
  <1>5. t \in State
    BY ONLY <1>2, <1>4, st2 \in [Conn -> {"up", "aborting", "lost"}] DEF State
  <1>6. \A x \in Conn : (st2[x] = "lost" => st[x] = "lost") /\ (x # c => st2[x] = st[x])
    BY <1>2, <1>3
  <1>7. st2[c] # "up"
    BY <1>2, <1>3
  <1>8. /\ t.state = st2 /\ s.state = st /\ t.map = s.map /\ t.timers = s.timers /\ t.outcome = s.outcome
        /\ t.asking = s.asking /\ t.coming = s.coming
    BY ONLY <1>1, <1>4
  <1> QED BY ONLY <1>5, <1>6, <1>7, <1>8

LEMMA AskingIs ==
  ASSUME NEW s \in State, NEW a \in Req \cup {Asleep}, NEW t, t = [s EXCEPT !.asking = a]
  PROVE  /\ t \in State /\ t.map = s.map /\ t.timers = s.timers /\ t.outcome = s.outcome
         /\ t.asking = a /\ t.coming = s.coming /\ t.state = s.state
  BY DEF State

Ended(s, r) == [s EXCEPT !.outcome[r] = IF @ = "out" THEN "ended" ELSE "twice"]

LEMMA EndedIs ==
  ASSUME NEW s \in State, NEW r \in Req, NEW t, t = Ended(s, r)
  PROVE  /\ t \in State /\ t.map = s.map /\ t.timers = s.timers
         /\ t.outcome = [s.outcome EXCEPT ![r] = IF @ = "out" THEN "ended" ELSE "twice"]
         /\ t.asking = s.asking /\ t.coming = s.coming /\ t.state = s.state
  <1>1. PICK st, mp, tm, cm, oc, as : s = [state |-> st, map |-> mp, timers |-> tm, coming |-> cm,
                                           outcome |-> oc, asking |-> as]
    BY DEF State
  <1>2. /\ st \in [Conn -> {"up", "aborting", "lost"}] /\ mp \in [Conn -> Seq(Entry)]
        /\ tm \in SUBSET Entry /\ cm \in SUBSET Answers
        /\ oc \in [Req -> {"none", "out", "ended", "twice"}] /\ as \in Req \cup {Asleep}
    BY <1>1 DEF State
  <1>3. PICK oc2 \in [Req -> {"none", "out", "ended", "twice"}] :
          oc2 = [oc EXCEPT ![r] = IF @ = "out" THEN "ended" ELSE "twice"]
    BY <1>2
  <1>4. t = [state |-> st, map |-> mp, timers |-> tm, coming |-> cm, outcome |-> oc2, asking |-> as]
    BY <1>1, <1>3 DEF Ended
  <1>5. t \in State
    BY ONLY <1>2, <1>4, oc2 \in [Req -> {"none", "out", "ended", "twice"}] DEF State
  <1>6. /\ t.outcome = oc2 /\ s.outcome = oc /\ t.map = s.map /\ t.timers = s.timers
        /\ t.asking = s.asking /\ t.coming = s.coming /\ t.state = s.state
    BY ONLY <1>1, <1>4
  <1> QED BY <1>3, <1>5, <1>6

LEMMA CallTyped ==
  ASSUME NEW s \in State, NEW c \in Conn, NEW id \in Ids, NEW r \in Req
  PROVE  Call(s, c, id, r) \in State /\ Call(s, c, id, r).state = s.state
  <1>1. PICK e : e = [conn |-> c, id |-> id, req |-> r]
    OBVIOUS
  <1>2. PICK t : t = Call(s, c, id, r)
    OBVIOUS
  <1>3. t \in State
    BY <1>1, <1>2, CallIs
  <1>4. t.state = s.state
    BY <1>2 DEF Call, State
  <1> QED BY <1>2, <1>3, <1>4

\* The round sets what is waited for, and may make one request more.
LEMMA RoundIs ==
  ASSUME NEW s \in State, NEW next, NEW t, t = Round(s, next)
  PROVE  /\ t \in State /\ t.state = s.state
         /\ \/ t = [s EXCEPT !.asking = Asleep]
            \/ \E r \in Req : /\ r[1] = "download" /\ s.outcome[r] = "none" /\ next \in Conn /\ s.state[next] # "lost"
                              /\ t = [Call(s, next, r, r) EXCEPT !.asking = r]
  <1>1. CASE next \notin Peers(s) \/ Unused(s, "download") = {}
    <2>1. t = [s EXCEPT !.asking = Asleep]
      BY <1>1 DEF Round
    <2>2. Asleep \in Req \cup {Asleep}
      OBVIOUS
    <2> QED BY <2>1, <2>2, AskingIs
  <1>2. CASE ~ (next \notin Peers(s) \/ Unused(s, "download") = {})
    <2>1. PICK r \in Unused(s, "download") : r = CHOOSE x \in Unused(s, "download") : TRUE
      BY <1>2
    <2>2. t = [Call(s, next, r, r) EXCEPT !.asking = r]
      BY <1>2, <2>1 DEF Round
    <2>3. /\ r \in Req /\ r \in Ids /\ r[1] = "download" /\ s.outcome[r] = "none"
          /\ next \in Conn /\ s.state[next] # "lost" /\ r \in Req \cup {Asleep}
      BY <1>2, <2>1 DEF Unused, Peers, Ids
    <2>4. PICK u \in State : u = Call(s, next, r, r) /\ u.state = s.state
      BY <2>3, CallTyped
    <2>5. t \in State /\ t.state = u.state
      BY <2>2, <2>3, <2>4, AskingIs
    <2> QED BY <2>2, <2>3, <2>4, <2>5
  <1> QED BY <1>1, <1>2

\* No request but one not yet made.
Made(o, p) == p = o \/ \E r \in Req : o[r] = "none" /\ p = [o EXCEPT ![r] = "out"]

\* Whoever is asked next, download_shares waits for what it has just asked, or for nothing.
LEMMA RoundSound ==
  ASSUME NEW k, NEW s, NEW P, NEW X, Core(k, s, P, X), NEW next, NEW t, t = Round(s, next)
  PROVE  Sound(k, t, P, X) /\ Made(s.outcome, t.outcome)
  <1>0. s \in State
    BY DEF Core
  <1>1. CASE t = [s EXCEPT !.asking = Asleep]
    <2>1. Asleep \in Req \cup {Asleep}
      OBVIOUS
    <2>2. /\ t \in State /\ t.map = s.map /\ t.timers = s.timers /\ t.outcome = s.outcome
          /\ t.asking = Asleep /\ t.state = s.state
      BY <1>0, <1>1, <2>1, AskingIs
    <2>3. Core(k, t, P, X)
      BY <2>2, SameCore
    <2> QED BY <2>2, <2>3 DEF Sound, Waits, Made
  <1>2. ASSUME NEW r \in Req, r[1] = "download", s.outcome[r] = "none", next \in Conn, s.state[next] # "lost",
               t = [Call(s, next, r, r) EXCEPT !.asking = r]
        PROVE  Sound(k, t, P, X) /\ Made(s.outcome, t.outcome)
    <2>1. r \in Ids /\ r \in Req \cup {Asleep} /\ \A i : r # <<"ping", i>>
      BY <1>2 DEF Ids
    <2>2. PICK u : u = Call(s, next, r, r)
      OBVIOUS
    <2>3. Core(k, u, P, X) /\ u.outcome = [s.outcome EXCEPT ![r] = "out"]
      BY ONLY <1>2, <2>1, <2>2, Core(k, s, P, X), CallSound
    <2>4. u \in State
      BY <2>3 DEF Core
    <2>5. /\ t \in State /\ t.map = u.map /\ t.timers = u.timers /\ t.outcome = u.outcome
          /\ t.asking = r /\ t.state = u.state
      BY <1>2, <2>1, <2>2, <2>4, AskingIs
    <2>6. Core(k, t, P, X)
      BY <2>3, <2>5, SameCore
    <2>7. s.outcome \in [Req -> {"none", "out", "ended", "twice"}]
      BY <1>0, StateIs
    <2>8. t.outcome[r] = "out"
      BY <2>3, <2>5, <2>7
    <2> QED BY <1>2, <2>3, <2>5, <2>6, <2>8 DEF Sound, Waits, Made
  <1> QED BY <1>0, <1>1, <1>2, RoundIs

\* The same, when a peer is blamed first.
LEMMA ResumeSound ==
  ASSUME NEW k, NEW s, NEW P, NEW X, Core(k, s, P, X), NEW c \in Conn, NEW how, NEW next,
         NEW t, t = Resume(s, c, how, next)
  PROVE  Sound(k, t, P, X) /\ Made(s.outcome, t.outcome)
  <1>1. CASE t = Round(s, next)
    BY <1>1, RoundSound
  <1>2. CASE t = Round(disconnect(s, c), next)
    <2>1. PICK u : u = disconnect(s, c)
      OBVIOUS
    <2>2. s \in State
      BY DEF Core
    <2>3. /\ u \in State /\ u.map = s.map /\ u.timers = s.timers /\ u.outcome = s.outcome
          /\ \A x \in Conn : u.state[x] = "lost" => s.state[x] = "lost"
      BY <2>1, <2>2, DisconnectIs
    <2>4. Core(k, u, P, X)
      BY <2>3, SameCore
    <2> QED BY <1>2, <2>1, <2>3, <2>4, RoundSound
  <1> QED BY <1>1, <1>2 DEF Resume

\* What comes of a deferred that fires, in whatever state.
LEMMA FireTyped ==
  ASSUME NEW s \in State, NEW e \in Entry, NEW how, NEW next
  PROVE  Fire(s, e, how, next) \in State
  <1>1. e.req \in Req /\ e.conn \in Conn
    BY DEF Entry
  <1>2. PICK u \in State : u = Ended(s, e.req)
    BY <1>1, EndedIs
  <1>3. disconnect(u, e.conn) \in State
    BY <1>1, DisconnectIs
  <1>4. Resume(u, e.conn, how, next) \in State
    <2>1. Round(u, next) \in State
      BY RoundIs
    <2>2. Round(disconnect(u, e.conn), next) \in State
      BY <1>3, RoundIs
    <2> QED BY <2>1, <2>2 DEF Resume
  <1>5. ASSUME e.req[1] = "ping" PROVE PingAgain(u, e.conn, e.req) \in State
    <2>1. CASE e.req[2] = Pings
      BY <2>1 DEF PingAgain
    <2>2. CASE e.req[2] # Pings
      <3>1. e.req[2] + 1 \in 1 .. Pings
        BY <1>1, <1>5, <2>2, ReqIs, RequestsAssumption
      <3>2. PICK r \in Req : r = <<"ping", e.req[2] + 1>> /\ r \in Ids
        BY <3>1, ReqIs DEF Ids
      <3>3. PingAgain(u, e.conn, e.req) = Call(u, e.conn, r, r)
        BY <2>2, <3>2 DEF PingAgain
      <3> QED BY <1>1, <3>2, <3>3, CallTyped
    <2> QED BY <2>1, <2>2
  <1>6. \/ Fire(s, e, how, next) \in {Resume(u, e.conn, how, next), disconnect(u, e.conn), u}
        \/ /\ e.req[1] = "ping"
           /\ Fire(s, e, how, next) = PingAgain(u, e.conn, e.req)
    BY <1>2 DEF Fire, Ended
  <1> QED BY <1>3, <1>4, <1>5, <1>6

\* RemoveFirst takes away one place of the element, when there is one.
LEMMA RemovedAt ==
  ASSUME NEW S, NEW q \in Seq(S), NEW e, \E i \in DOMAIN q : q[i] = e
  PROVE  \E k \in DOMAIN q : q[k] = e /\ Seqs!RemoveFirst(q, e) = Seqs!RemoveAt(q, k)
  <1>1. Len(q) \in Nat /\ DOMAIN q = 1 .. Len(q)
    OBVIOUS
  <1> DEFINE T == {i \in 1 .. Len(q) : q[i] = e}
  <1>2. T \in SUBSET Nat /\ T # {}
    BY <1>1
  <1>3. PICK m \in T : \A y \in T : m <= y
    <2> HIDE DEF T
    <2> QED BY <1>2, LeastNumber
  <1>4. PICK k : k = CHOOSE x \in T : \A y \in T : x <= y
    OBVIOUS
  <1>5. k \in T
    <2> HIDE DEF T
    <2> QED BY <1>3, <1>4
  <1>6. Seqs!SelectInSeq(q, LAMBDA v : v = e) = IF T # {} THEN Seqs!Min(T) ELSE 0
    BY DEF Seqs!SelectInSeq
  <1>7. Seqs!Min(T) = k
    BY <1>4 DEF Seqs!Min
  <1>8. Seqs!SelectInSeq(q, LAMBDA v : v = e) = k
    <2> HIDE DEF T
    <2> QED BY <1>2, <1>6, <1>7
  <1>9. k \in DOMAIN q /\ q[k] = e
    BY <1>1, <1>5
  <1>10. Seqs!RemoveFirst(q, e) = Seqs!RemoveAt(q, k)
    BY <1>1, <1>8, <1>9 DEF Seqs!RemoveFirst
  <1> QED BY <1>9, <1>10

\* What is left of a sequence that lists each of its elements once.
LEMMA RemovedIs ==
  ASSUME NEW S, NEW q \in Seq(S), NEW k \in DOMAIN q, \A i, j \in DOMAIN q : q[i] = q[j] => i = j,
         NEW u, u = Seqs!RemoveFirst(q, q[k])
  PROVE  /\ u \in Seq(S) /\ Len(u) = Len(q) - 1
         /\ \A i \in DOMAIN u : \E j \in DOMAIN q : j # k /\ u[i] = q[j] /\ j = IF i < k THEN i ELSE i + 1
         /\ \A j \in DOMAIN q : j # k => \E i \in DOMAIN u : u[i] = q[j]
  <1>1. Len(q) \in Nat /\ DOMAIN q = 1 .. Len(q) /\ k \in 1 .. Len(q)
    OBVIOUS
  <1>2. PICK x \in DOMAIN q : q[x] = q[k] /\ Seqs!RemoveFirst(q, q[k]) = Seqs!RemoveAt(q, x)
    BY RemovedAt
  <1>3. u = Seqs!RemoveAt(q, k)
    BY <1>2
  <1>4. PICK a : a = SubSeq(q, 1, k - 1)
    OBVIOUS
  <1>5. PICK b : b = SubSeq(q, k + 1, Len(q))
    OBVIOUS
  <1>6. u = a \o b
    BY <1>3, <1>4, <1>5 DEF Seqs!RemoveAt
  <1>n. PICK n \in Nat : n = Len(q)
    BY <1>1
  <1>k. k \in 1 .. n /\ DOMAIN q = 1 .. n /\ \A i \in 1 .. n : q[i] \in S
    BY <1>1, <1>n
  <1>7. a \in Seq(S) /\ Len(a) = k - 1 /\ \A i \in 1 .. k - 1 : a[i] = q[i]
    BY <1>1, <1>4
  <1>8. b \in Seq(S) /\ Len(b) = n - k /\ \A i \in 1 .. n - k : b[i] = q[i + k]
    BY <1>1, <1>5, <1>n
  <1>9. /\ u \in Seq(S) /\ Len(u) = n - 1 /\ DOMAIN u = 1 .. n - 1
        /\ \A i \in 1 .. n - 1 : u[i] = IF i <= k - 1 THEN a[i] ELSE b[i - (k - 1)]
    <2>1. /\ a \o b \in Seq(S) /\ Len(a \o b) = Len(a) + Len(b)
          /\ \A i \in 1 .. Len(a) + Len(b) : (a \o b)[i] = IF i <= Len(a) THEN a[i] ELSE b[i - Len(a)]
      BY ONLY <1>7, <1>8, ConcatProperties
    <2>2. Len(a) + Len(b) = n - 1 /\ Len(a) = k - 1
      BY ONLY <1>k, <1>7, <1>8, n \in Nat
    <2>3. /\ u \in Seq(S) /\ Len(u) = n - 1
          /\ \A i \in 1 .. n - 1 : u[i] = IF i <= k - 1 THEN a[i] ELSE b[i - (k - 1)]
      BY ONLY <1>6, <2>1, <2>2
    <2>4. DOMAIN u = 1 .. n - 1
      BY ONLY <2>3
    <2> QED BY <2>3, <2>4
  <1>10. ASSUME NEW i \in 1 .. n - 1
         PROVE  u[i] = IF i < k THEN q[i] ELSE q[i + 1]
    <2>1. CASE i < k
      <3>1. i <= k - 1 /\ i \in 1 .. k - 1
        BY ONLY <1>k, <2>1, n \in Nat, i \in 1 .. n - 1
      <3> QED BY <1>7, <1>9, <2>1, <3>1
    <2>2. CASE ~ (i < k)
      <3>1. i - (k - 1) \in 1 .. n - k /\ (i - (k - 1)) + k = i + 1 /\ ~ (i <= k - 1)
        BY ONLY <1>k, <2>2, n \in Nat, i \in 1 .. n - 1
      <3>2. b[i - (k - 1)] = q[(i - (k - 1)) + k]
        BY <1>8, <3>1
      <3> QED BY <1>9, <2>2, <3>1, <3>2
    <2> QED BY <2>1, <2>2
  <1>11. ASSUME NEW i \in DOMAIN u
         PROVE  \E j \in DOMAIN q : j # k /\ u[i] = q[j] /\ j = IF i < k THEN i ELSE i + 1
    <2>0. i \in 1 .. n - 1
      BY <1>9, <1>11
    <2>1. CASE i < k
      <3>1. i \in 1 .. n /\ i # k
        BY ONLY <1>k, <2>0, <2>1, n \in Nat
      <3> QED BY <1>k, <1>10, <2>0, <2>1, <3>1
    <2>2. CASE ~ (i < k)
      <3>1. i + 1 \in 1 .. n /\ i + 1 # k
        BY ONLY <1>k, <2>0, <2>2, n \in Nat
      <3> QED BY <1>k, <1>10, <2>0, <2>2, <3>1
    <2> QED BY <2>1, <2>2
  <1>12. ASSUME NEW j \in DOMAIN q, j # k PROVE \E i \in DOMAIN u : u[i] = q[j]
    <2>0. j \in 1 .. n
      BY <1>k, <1>12
    <2>1. CASE j < k
      <3>1. j \in 1 .. n - 1
        BY ONLY <1>k, <2>0, <2>1, n \in Nat
      <3> QED BY <1>9, <1>10, <2>1, <3>1
    <2>2. CASE ~ (j < k)
      <3>1. j - 1 \in 1 .. n - 1 /\ ~ (j - 1 < k) /\ (j - 1) + 1 = j
        BY ONLY <1>k, <1>12, <2>0, <2>2, n \in Nat
      <3> QED BY <1>9, <1>10, <3>1
    <2> QED BY <2>1, <2>2
  <1> QED BY <1>n, <1>9, <1>11, <1>12

\* An entry leaves the map, whatever the state.
LEMMA PopIs ==
  ASSUME NEW s \in State, NEW e \in Entry, NEW t, t = Pop(s, e)
  PROVE  /\ t \in State /\ t.state = s.state /\ t.asking = s.asking /\ t.outcome = s.outcome
         /\ t.coming = s.coming /\ t.timers = s.timers \ {e}
         /\ t.map = [s.map EXCEPT ![e.conn] = Seqs!RemoveFirst(@, e)]
  <1>0. e.conn \in Conn
    BY DEF Entry
  <1>1. PICK st, mp, tm, cm, oc, as : s = [state |-> st, map |-> mp, timers |-> tm, coming |-> cm,
                                           outcome |-> oc, asking |-> as]
    BY DEF State
  <1>2. /\ st \in [Conn -> {"up", "aborting", "lost"}] /\ mp \in [Conn -> Seq(Entry)]
        /\ tm \in SUBSET Entry /\ cm \in SUBSET Answers
        /\ oc \in [Req -> {"none", "out", "ended", "twice"}] /\ as \in Req \cup {Asleep}
    BY <1>1 DEF State
  <1>3. Seqs!RemoveFirst(mp[e.conn], e) \in Seq(Entry)
    <2> DEFINE q == mp[e.conn]
    <2>1. q \in Seq(Entry) /\ Len(q) \in Nat
      BY <1>0, <1>2
    <2> HIDE DEF q
    <2>2. CASE \E i \in DOMAIN q : q[i] = e
      <3>1. PICK k \in DOMAIN q : Seqs!RemoveFirst(q, e) = Seqs!RemoveAt(q, k)
        BY <2>1, <2>2, RemovedAt
      <3>2. SubSeq(q, 1, k - 1) \in Seq(Entry) /\ SubSeq(q, k + 1, Len(q)) \in Seq(Entry)
        BY <2>1
      <3>3. Seqs!RemoveFirst(q, e) \in Seq(Entry)
        BY <3>1, <3>2 DEF Seqs!RemoveAt
      <3> QED BY <3>3 DEF q
    <2>3. CASE ~ \E i \in DOMAIN q : q[i] = e
      <3>1. Seqs!RemoveFirst(q, e) \in Seq(Entry)
        BY <2>1, <2>3 DEF Seqs!RemoveFirst
      <3> QED BY <3>1 DEF q
    <2> QED BY <2>2, <2>3
  <1>4. PICK mp2 \in [Conn -> Seq(Entry)] : mp2 = [mp EXCEPT ![e.conn] = Seqs!RemoveFirst(@, e)]
    BY <1>0, <1>2, <1>3
  <1>5. PICK tm2 \in SUBSET Entry : tm2 = tm \ {e}
    BY <1>2
  <1>6. t = [state |-> st, map |-> mp2, timers |-> tm2, coming |-> cm, outcome |-> oc, asking |-> as]
    BY <1>1, <1>4, <1>5 DEF Pop
  <1>7. t \in State
    BY ONLY <1>2, <1>6, mp2 \in [Conn -> Seq(Entry)], tm2 \in SUBSET Entry DEF State
  <1>8. /\ t.state = s.state /\ t.asking = s.asking /\ t.outcome = s.outcome /\ t.coming = s.coming
        /\ t.timers = tm2 /\ t.map = mp2 /\ s.map = mp /\ s.timers = tm
    BY ONLY <1>1, <1>6
  <1> QED BY ONLY <1>4, <1>5, <1>7, <1>8

\* An entry leaves the map, and its deferred is about to fire.
LEMMA PopSound ==
  ASSUME NEW k, NEW s, NEW P, NEW X, Core(k, s, P, X), NEW e \in s.timers, NEW t, t = Pop(s, e)
  PROVE  /\ Core(k, t, P \cup {e}, X) /\ t.timers = s.timers \ {e} /\ t.state = s.state
         /\ t.asking = s.asking /\ t.outcome = s.outcome /\ e \notin P
  <1>s. s \in State /\ e \in Entry /\ e.conn \in Conn
    BY StateIs DEF Core, Entry
  <1>1. /\ t \in State /\ t.state = s.state /\ t.asking = s.asking /\ t.outcome = s.outcome
        /\ t.timers = s.timers \ {e}
        /\ t.map = [s.map EXCEPT ![e.conn] = Seqs!RemoveFirst(@, e)]
    BY <1>s, PopIs
  <1>2. s.map \in [Conn -> Seq(Entry)] /\ s.timers \subseteq Entry
    BY <1>s, StateIs
  <1>3. PICK q \in Seq(Entry) : q = s.map[e.conn]
    BY <1>s, <1>2
  <1>4. /\ \A i, j \in DOMAIN q : q[i] = q[j] => i = j
        /\ \A i \in DOMAIN q : q[i].conn = e.conn /\ q[i] \in s.timers
    BY <1>s, <1>3 DEF Core, Listed
  <1>5. PICK n \in DOMAIN q : q[n] = e
    BY <1>3 DEF Core, Listed
  <1>6. PICK u : u = Seqs!RemoveFirst(q, q[n])
    OBVIOUS
  <1>7. /\ u \in Seq(Entry)
        /\ \A i \in DOMAIN u : \E j \in DOMAIN q : j # n /\ u[i] = q[j] /\ j = IF i < n THEN i ELSE i + 1
        /\ \A j \in DOMAIN q : j # n => \E i \in DOMAIN u : u[i] = q[j]
    BY <1>4, <1>6, RemovedIs
  <1>8. t.map[e.conn] = u /\ \A x \in Conn : x # e.conn => t.map[x] = s.map[x]
    BY <1>s, <1>1, <1>2, <1>3, <1>5, <1>6
  <1>9. Listed(t)
    <2>1. ASSUME NEW x \in Conn, NEW i \in DOMAIN t.map[x], NEW j \in DOMAIN t.map[x], t.map[x][i] = t.map[x][j]
          PROVE  i = j
      <3>1. CASE x # e.conn
        BY <1>8, <2>1, <3>1 DEF Core, Listed
      <3>2. CASE x = e.conn
        <4>1. i \in DOMAIN u /\ j \in DOMAIN u /\ u[i] = u[j]
          BY <1>8, <2>1, <3>2
        <4>2. i \in Nat /\ j \in Nat /\ n \in Nat
          <5>1. DOMAIN u = 1 .. Len(u) /\ DOMAIN q = 1 .. Len(q)
            BY <1>7
          <5> QED BY <4>1, <5>1
        <4>3. PICK a \in DOMAIN q : u[i] = q[a] /\ a = IF i < n THEN i ELSE i + 1
          BY <1>7, <4>1
        <4>4. PICK b \in DOMAIN q : u[j] = q[b] /\ b = IF j < n THEN j ELSE j + 1
          BY <1>7, <4>1
        <4>5. a = b
          BY <1>4, <4>1, <4>3, <4>4
        <4> QED BY ONLY <4>2, <4>3, <4>4, <4>5
      <3> QED BY <3>1, <3>2
    <2>2. ASSUME NEW x \in Conn, NEW i \in DOMAIN t.map[x]
          PROVE  t.map[x][i].conn = x /\ t.map[x][i] \in t.timers
      <3>1. s.map[x] \in Seq(Entry)
        BY <1>2
      <3>2. CASE x # e.conn
        <4>1. t.map[x][i].conn = x /\ t.map[x][i] \in s.timers
          BY <1>8, <2>2, <3>2 DEF Core, Listed
        <4> QED BY <1>1, <3>2, <4>1
      <3>3. CASE x = e.conn
        <4>1. PICK j \in DOMAIN q : j # n /\ u[i] = q[j]
          BY <1>7, <1>8, <2>2, <3>3
        <4>2. q[j] # e
          BY <1>4, <1>5, <4>1
        <4> QED BY <1>1, <1>4, <1>8, <3>3, <4>1, <4>2
      <3> QED BY <3>2, <3>3
    <2>3. ASSUME NEW d \in t.timers PROVE \E i \in DOMAIN t.map[d.conn] : t.map[d.conn][i] = d
      <3>1. d \in s.timers /\ d # e /\ d.conn \in Conn
        BY <1>1, <1>2 DEF Entry
      <3>2. PICK j \in DOMAIN s.map[d.conn] : s.map[d.conn][j] = d
        BY <3>1 DEF Core, Listed
      <3>3. CASE d.conn # e.conn
        BY <1>8, <3>1, <3>2, <3>3
      <3>4. CASE d.conn = e.conn
        <4>1. j \in DOMAIN q /\ q[j] = d /\ j # n
          BY <1>3, <1>5, <3>1, <3>2, <3>4
        <4> QED BY <1>7, <1>8, <3>4, <4>1
      <3> QED BY <3>3, <3>4
    <2> QED BY <2>1, <2>2, <2>3 DEF Listed
  <1>10. t.timers \cup (P \cup {e}) = s.timers \cup P
    BY <1>1
  <1>11. Due(t, P \cup {e}) /\ e \notin P
    <2>1. P \subseteq Entry /\ P \cap s.timers = {}
      BY DEF Core, Due
    <2>2. P \cup {e} \subseteq Entry /\ (P \cup {e}) \cap t.timers = {}
      BY <1>s, <1>1, <2>1
    <2> QED BY <1>1, <1>10, <2>1, <2>2 DEF Core, Due
  <1>12. Alive(k, t, P \cup {e}, X) /\ InTurn(t)
    BY <1>1, <1>10 DEF Core, Alive, InTurn
  <1> QED BY <1>1, <1>9, <1>11, <1>12 DEF Core

\* One of the requests that are due has ended.
LEMMA EndedSound ==
  ASSUME NEW k, NEW s, NEW P, NEW X, Core(k, s, P, X), NEW e \in P,
         NEW u, u = Ended(s, e.req)
  PROVE  /\ Core(k, u, P \ {e}, X) /\ s.outcome[e.req] = "out"
         /\ u.outcome = [s.outcome EXCEPT ![e.req] = "ended"]
         /\ u.state = s.state /\ u.asking = s.asking
  <1>1. s \in State /\ P \subseteq Entry /\ e \in Entry /\ e.req \in Req /\ s.outcome[e.req] = "out"
    BY DEF Core, Due, Entry
  <1>2. /\ u \in State /\ u.map = s.map /\ u.timers = s.timers
        /\ u.outcome = [s.outcome EXCEPT ![e.req] = "ended"]
        /\ u.asking = s.asking /\ u.state = s.state
    <2>1. /\ u \in State /\ u.map = s.map /\ u.timers = s.timers
          /\ u.outcome = [s.outcome EXCEPT ![e.req] = IF @ = "out" THEN "ended" ELSE "twice"]
          /\ u.asking = s.asking /\ u.coming = s.coming /\ u.state = s.state
      BY ONLY <1>1, u = Ended(s, e.req), EndedIs
    <2> QED BY <1>1, <2>1
  <1>3. /\ s.outcome \in [Req -> {"none", "out", "ended", "twice"}] /\ s.timers \subseteq Entry
    BY <1>1, StateIs
  <1>4. \A r \in Req : u.outcome[r] = IF r = e.req THEN "ended" ELSE s.outcome[r]
    BY <1>2, <1>3
  <1>5. \A d \in s.timers \cup P : d \in Entry /\ d.req \in Req /\ (d.req = e.req => d = e)
    BY <1>1, <1>3 DEF Core, Due, Entry
  <1>6. e \notin s.timers
    BY DEF Core, Due
  <1>7. Due(u, P \ {e})
    <2>1. P \ {e} \subseteq Entry /\ (P \ {e}) \cap u.timers = {}
      BY <1>1, <1>2 DEF Core, Due
    <2>2. \A x, d \in u.timers \cup (P \ {e}) : x.req = d.req => x = d
      BY <1>2 DEF Core, Due
    <2>3. ASSUME NEW d \in u.timers \cup (P \ {e}) PROVE u.outcome[d.req] = "out"
      <3>1. d \in s.timers \cup P /\ d # e
        BY <1>2, <1>6, <2>3
      <3> QED BY <1>4, <1>5, <3>1 DEF Core, Due
    <2>4. ASSUME NEW r \in Req, u.outcome[r] = "out" PROVE \E d \in u.timers \cup (P \ {e}) : d.req = r
      <3>1. r # e.req /\ s.outcome[r] = "out"
        BY <1>4, <2>4
      <3>2. PICK d \in s.timers \cup P : d.req = r
        BY <3>1 DEF Core, Due
      <3> QED BY <1>2, <3>1, <3>2
    <2>5. \A r \in Req : u.outcome[r] # "twice"
      BY <1>4 DEF Core, Due
    <2> QED BY <2>1, <2>2, <2>3, <2>4, <2>5 DEF Due
  <1>8. Listed(u)
    BY <1>2 DEF Core, Listed
  <1>9. Alive(k, u, P \ {e}, X)
    BY <1>2 DEF Core, Alive
  <1>10. InTurn(u)
    <2>1. ASSUME NEW i \in 1 .. Pings, NEW j \in 1 .. Pings, i < j, u.outcome[<<"ping", i>>] = "out"
          PROVE  u.outcome[<<"ping", j>>] = "none"
      <3>1. <<"ping", i>> \in Req /\ <<"ping", j>> \in Req
        BY ReqIs
      <3>2. s.outcome[<<"ping", i>>] = "out"
        BY <1>4, <2>1, <3>1
      <3>3. s.outcome[<<"ping", j>>] = "none"
        BY <2>1, <3>2 DEF Core, InTurn
      <3> QED BY <1>1, <1>4, <3>1, <3>3
    <2> QED BY <2>1 DEF InTurn
  <1> QED BY <1>1, <1>2, <1>7, <1>8, <1>9, <1>10 DEF Core

\* The deferred of a request that is due fires: the request ends, and what its caller does then
\* keeps the rest.
LEMMA FireSound ==
  ASSUME NEW k, NEW s, NEW P, NEW X, Sound(k, s, P, X), NEW e \in P, NEW how, NEW next,
         NEW t, t = Fire(s, e, how, next)
  PROVE  /\ Sound(k, t, P \ {e}, X) /\ s.outcome[e.req] = "out"
         /\ Made([s.outcome EXCEPT ![e.req] = "ended"], t.outcome)
  <1>0. Core(k, s, P, X) /\ Waits(s) /\ e \in Entry /\ e.req \in Req /\ e.conn \in Conn
    BY DEF Sound, Core, Due, Entry
  <1>1. PICK u : u = Ended(s, e.req)
    OBVIOUS
  <1>2. /\ Core(k, u, P \ {e}, X) /\ s.outcome[e.req] = "out"
        /\ u.outcome = [s.outcome EXCEPT ![e.req] = "ended"]
        /\ u.state = s.state /\ u.asking = s.asking
    BY <1>0, <1>1, EndedSound
  <1>3. s \in State /\ u \in State /\ s.outcome \in [Req -> {"none", "out", "ended", "twice"}]
    BY <1>0, <1>2, StateIs DEF Core
  <1>4. \A r \in Req : u.outcome[r] = IF r = e.req THEN "ended" ELSE s.outcome[r]
    BY <1>2, <1>3
  <1>5. CASE e.req[1] = "download"
    <2>1. t = Resume(u, e.conn, how, next)
      BY <1>1, <1>5 DEF Fire, Ended
    <2>2. Sound(k, t, P \ {e}, X) /\ Made(u.outcome, t.outcome)
      BY <1>0, <1>2, <2>1, ResumeSound
    <2> QED BY <1>2, <2>2
  <1>6. ASSUME e.req[1] # "download" PROVE Waits(u)
    <2>1. s.asking # e.req /\ (s.asking # Asleep => s.asking \in Req)
      <3>1. s.asking \in Req \cup {Asleep} /\ Asleep \notin Req
        BY <1>3, StateIs, ReqIs
      <3>2. CASE s.asking = Asleep
        BY <1>0, <3>1, <3>2
      <3>3. CASE s.asking # Asleep
        BY <1>0, <1>6, <3>1, <3>3 DEF Waits
      <3> QED BY <3>2, <3>3
    <2> QED BY <1>0, <1>2, <1>4, <2>1 DEF Waits
  <1>7. CASE e.req[1] # "download" /\ (t = u \/ t = disconnect(u, e.conn))
    <2>1. Core(k, t, P \ {e}, X) /\ t.outcome = u.outcome /\ t.asking = u.asking
      <3>1. CASE t = u
        BY <1>2, <3>1
      <3>2. CASE t = disconnect(u, e.conn)
        <4>1. /\ t \in State /\ t.map = u.map /\ t.timers = u.timers /\ t.outcome = u.outcome
              /\ t.asking = u.asking
              /\ \A x \in Conn : t.state[x] = "lost" => u.state[x] = "lost"
          BY <1>0, <1>3, <3>2, DisconnectIs
        <4>2. Core(k, t, P \ {e}, X)
          BY <1>2, <4>1, SameCore
        <4> QED BY <4>1, <4>2
      <3> QED BY <1>7, <3>1, <3>2
    <2>2. Waits(t)
      BY <1>6, <1>7, <2>1 DEF Waits
    <2> QED BY <1>2, <2>1, <2>2 DEF Sound, Made
  <1>8. CASE e.req[1] = "ping" /\ t = PingAgain(u, e.conn, e.req) /\ e.req[2] # Pings
    <2>1. PICK p \in 1 .. Pings : e.req = <<"ping", p>> /\ p = e.req[2] /\ p # Pings
      BY <1>0, <1>8, ReqIs
    <2>2. p + 1 \in 1 .. Pings /\ p < p + 1 /\ p \in Nat /\ Pings \in Nat
      BY <2>1, RequestsAssumption
    <2>3. PICK r \in Req : r = <<"ping", p + 1>>
      BY <2>2, ReqIs
    <2>4. r \in Ids /\ r # e.req /\ r[1] = "ping" /\ r[2] = p + 1
      BY <2>1, <2>2, <2>3 DEF Ids
    <2>5. t = Call(u, e.conn, r, r)
      BY <1>8, <2>1, <2>3 DEF PingAgain
    <2>6. \A i, j \in 1 .. Pings : i < j /\ s.outcome[<<"ping", i>>] = "out" => s.outcome[<<"ping", j>>] = "none"
      BY <1>0 DEF Core, InTurn
    <2>7. \A j \in 1 .. Pings : p < j => u.outcome[<<"ping", j>>] = "none"
      <3>1. ASSUME NEW j \in 1 .. Pings, p < j PROVE u.outcome[<<"ping", j>>] = "none"
        <4>1. s.outcome[<<"ping", j>>] = "none" /\ <<"ping", j>> \in Req
          BY <1>2, <2>1, <2>6, <3>1, ReqIs
        <4>2. <<"ping", j>> # e.req
          BY <2>1, <3>1
        <4> QED BY <1>4, <4>1, <4>2
      <3> QED BY <3>1
    <2>8. u.outcome[r] = "none"
      BY <2>2, <2>3, <2>7
    <2>9. k = "peer" => u.state[e.conn] # "lost" \/ e.conn \in X
      BY <1>0, <1>2 DEF Core, Alive
    <2>10. ASSUME NEW i \in 1 .. Pings, NEW j \in 1 .. Pings
           PROVE  /\ r = <<"ping", i>> /\ i < j => u.outcome[<<"ping", j>>] = "none"
                  /\ r = <<"ping", j>> /\ i < j => u.outcome[<<"ping", i>>] # "out"
      <3>1. ASSUME r = <<"ping", i>>, i < j PROVE u.outcome[<<"ping", j>>] = "none"
        <4>1. i = p + 1
          BY <2>4, <3>1
        <4>2. p < j
          BY <2>2, <3>1, <4>1
        <4> QED BY <2>7, <4>2
      <3>2. ASSUME r = <<"ping", j>>, i < j PROVE u.outcome[<<"ping", i>>] # "out"
        <4>1. j = p + 1
          BY <2>4, <3>2
        <4>2. i = p \/ i < p
          BY <2>2, <3>2, <4>1
        <4>3. <<"ping", i>> \in Req
          BY ReqIs
        <4>4. CASE i = p
          BY <1>4, <2>1, <4>3, <4>4
        <4>5. CASE i < p
          <5>1. s.outcome[<<"ping", p>>] = "out"
            BY <1>2, <2>1
          <5>2. s.outcome[<<"ping", i>>] # "out"
            BY <2>6, <4>5, <5>1
          <5> QED BY <1>4, <4>3, <5>2
        <4> QED BY <4>2, <4>4, <4>5
      <3> QED BY <3>1, <3>2
    <2>11. Core(k, t, P \ {e}, X) /\ t.asking = u.asking /\ t.outcome = [u.outcome EXCEPT ![r] = "out"]
      <3>1. \A i, j \in 1 .. Pings :
              /\ r = <<"ping", i>> /\ i < j => u.outcome[<<"ping", j>>] = "none"
              /\ r = <<"ping", j>> /\ i < j => u.outcome[<<"ping", i>>] # "out"
        BY <2>10
      <3>2. /\ Core(k, t, P \ {e}, X) /\ t.state = u.state /\ t.asking = u.asking
            /\ t.outcome = [u.outcome EXCEPT ![r] = "out"]
        <4>1. PICK Q : Q = P \ {e}
          OBVIOUS
        <4>2. PICK c \in Conn : c = e.conn
          BY <1>0
        <4>3. Core(k, u, Q, X) /\ t = Call(u, c, r, r) /\ (k = "peer" => u.state[c] # "lost" \/ c \in X)
          BY <1>2, <2>5, <2>9, <4>1, <4>2
        <4>4. r \in Ids /\ r \in Req
          BY <2>4
        <4>5. /\ Core(k, t, Q, X) /\ t.state = u.state /\ t.asking = u.asking
              /\ t.outcome = [u.outcome EXCEPT ![r] = "out"]
          BY ONLY <2>8, <3>1, <4>3, <4>4, c \in Conn, CallSound
        <4> QED BY <4>1, <4>5
      <3> QED BY <3>2
    <2>12. Waits(t)
      <3>1. u.outcome \in [Req -> {"none", "out", "ended", "twice"}] /\ u.asking \in Req \cup {Asleep}
        BY <1>3, StateIs
      <3>2. Waits(u)
        BY <1>6, <1>8
      <3> QED BY <2>11, <3>1, <3>2 DEF Waits
    <2> QED BY <1>2, <2>8, <2>11, <2>12 DEF Sound, Made
  <1>9. \/ e.req[1] = "download"
        \/ e.req[1] # "download" /\ (t = u \/ t = disconnect(u, e.conn))
        \/ e.req[1] = "ping" /\ t = PingAgain(u, e.conn, e.req) /\ e.req[2] # Pings
    <2>1. CASE e.req[1] = "ping"
      <3>1. t = PingAgain(u, e.conn, e.req)
        BY <1>1, <2>1 DEF Fire, Ended
      <3> QED BY <2>1, <3>1 DEF PingAgain
    <2>2. CASE e.req[1] # "ping"
      BY <1>1, <2>2 DEF Fire, Ended
    <2> QED BY <2>1, <2>2
  <1> QED BY <1>5, <1>7, <1>8, <1>9

\* What the end of one request makes of the others.
LEMMA Stepwise ==
  ASSUME NEW o \in [Req -> {"none", "out", "ended", "twice"}], NEW r \in Req, o[r] = "out",
         NEW p, Made([o EXCEPT ![r] = "ended"], p)
  PROVE  /\ Onward(o, p) /\ p[r] = "ended"
         /\ {x \in Req : p[x] = "ended"} = {x \in Req : o[x] = "ended"} \cup {r}
  BY DEF Made, Onward

LEMMA OnwardOn ==
  ASSUME NEW o, NEW p, NEW q, Onward(o, p), Onward(p, q)
  PROVE  Onward(o, q)
  BY DEF Onward

\* What the folds of got_response and of respond_all do in one step, and what they come to.
PopOne(r, e, id) == IF e.id = id THEN Pop(r, e) ELSE r
FireOne(r, e, id, how, next) == IF e.id = id THEN Fire(r, e, how, next) ELSE r
LoseOne(r, c, next) ==
  IF r.map[c] = <<>> THEN r
  ELSE Fire(Pop(r, r.map[c][Len(r.map[c])]), r.map[c][Len(r.map[c])], "lost", next)

Popping(g, s, q, id) ==
  g = [t \in SUBSET DOMAIN q |->
         IF t = {} THEN s ELSE PopOne(g[t \ {Seqs!Max(t)}], q[Seqs!Max(t)], id)]
Firing(g, s, q, id, how, next) ==
  g = [t \in SUBSET DOMAIN q |->
         IF t = {} THEN s ELSE FireOne(g[t \ {Seqs!Max(t)}], q[Seqs!Max(t)], id, how, next)]
Losing(g, s, q, c, next) ==
  g = [t \in SUBSET DOMAIN q |-> IF t = {} THEN s ELSE LoseOne(g[t \ {Seqs!Max(t)}], c, next)]

Popped(s, q, id) == (CHOOSE g : Popping(g, s, q, id))[DOMAIN q]
Fired(s, q, id, how, next) == (CHOOSE g : Firing(g, s, q, id, how, next))[DOMAIN q]
LostAll(s, q, c, next) == (CHOOSE g : Losing(g, s, q, c, next))[DOMAIN q]

\* The folds of the model are these.
LEMMA GotIs ==
  ASSUME NEW s, NEW c, NEW id, NEW how, NEW next
  PROVE  got_response(s, c, id, how, next) = Fired(Popped(s, s.map[c], id), s.map[c], id, how, next)
  BY DEF got_response, Seqs!FoldLeft, Seqs!MapThenFoldSet, Fired, Popped, Firing, Popping, PopOne, FireOne

LEMMA RespondIs ==
  ASSUME NEW s, NEW c, NEW next
  PROVE  respond_all(s, c, next) = LostAll(s, [i \in 1 .. Cardinality(Req) |-> i], c, next)
  BY DEF respond_all, Seqs!FoldLeft, Seqs!MapThenFoldSet, LostAll, Losing, LoseOne, Seqs!Last

\* What a fold chooses of the indices is the last of them.
LEMMA MaxIsTop ==
  ASSUME NEW M, NEW q \in Seq(M), NEW t \in SUBSET DOMAIN q, t # {}
  PROVE  Seqs!Max(t) = Top(t) /\ Top(t) \in DOMAIN q /\ t \ {Top(t)} \in SUBSET DOMAIN q
  <1>1. Seqs!Max(t) = Top(t)
    BY DEF Seqs!Max, Top
  <1>2. DOMAIN q = 1 .. Len(q) /\ Len(q) \in Nat
    OBVIOUS
  <1> QED BY <1>1, <1>2, TopOfIndices

\* Each goes along states of the model, one step at a time.
LEMMA PoppedAlong ==
  ASSUME NEW s \in State, NEW q \in Seq(Entry), NEW id
  PROVE  \E f \in [0 .. Len(q) -> State] :
           /\ f[0] = s /\ f[Len(q)] = Popped(s, q, id)
           /\ \A n \in 1 .. Len(q) : f[n] = PopOne(f[n - 1], q[n], id)
  <1> DEFINE step == [p \in State \X Entry |-> PopOne(p[1], p[2], id)]
  <1>1. ASSUME NEW r \in State, NEW e \in Entry PROVE PopOne(r, e, id) \in State
    BY PopIs DEF PopOne
  <1>2. step \in [State \X Entry -> State]
    BY <1>1
  <1>3. ASSUME NEW r \in State, NEW e \in Entry PROVE step[r, e] = PopOne(r, e, id)
    OBVIOUS
  <1> HIDE DEF step
  <1>4. \A i \in DOMAIN q : q[i] \in Entry
    OBVIOUS
  <1> DEFINE G == CHOOSE g : Popping(g, s, q, id)
  <1>6. Popping(G, s, q, id)
    <2>1. PICK g \in [SUBSET DOMAIN q -> State] : Folds(g, step, s, q)
      BY <1>2, FoldExists
    <2>2. ASSUME NEW t \in SUBSET DOMAIN q
          PROVE  g[t] = IF t = {} THEN s ELSE PopOne(g[t \ {Seqs!Max(t)}], q[Seqs!Max(t)], id)
      <3>1. CASE t = {}
        BY <2>1, <3>1 DEF Folds
      <3>2. CASE t # {}
        <4>1. g[t] = step[g[t \ {Top(t)}], q[Top(t)]]
          BY <2>1, <3>2 DEF Folds
        <4>2. Seqs!Max(t) = Top(t) /\ Top(t) \in DOMAIN q /\ t \ {Top(t)} \in SUBSET DOMAIN q
          BY <3>2, MaxIsTop
        <4> QED BY <1>3, <1>4, <3>2, <4>1, <4>2
      <3> QED BY <3>1, <3>2
    <2>3. g = [t \in SUBSET DOMAIN q |-> g[t]]
      OBVIOUS
    <2>4. Popping(g, s, q, id)
      BY <2>2, <2>3 DEF Popping
    <2> QED BY <2>4
  <1>7. FoldsIn(State, G, step, s, q)
    <2> HIDE DEF G
    <2>1. ASSUME NEW t \in SUBSET DOMAIN q
          PROVE  G[t] = IF t = {} THEN s ELSE PopOne(G[t \ {Seqs!Max(t)}], q[Seqs!Max(t)], id)
      BY <1>6 DEF Popping
    <2>2. G[{}] = s
      BY <2>1
    <2>3. ASSUME NEW t \in SUBSET DOMAIN q, t # {}, G[t \ {Top(t)}] \in State
          PROVE  G[t] = step[G[t \ {Top(t)}], q[Top(t)]]
      <3>1. Seqs!Max(t) = Top(t) /\ Top(t) \in DOMAIN q
        BY <2>3, MaxIsTop
      <3>2. G[t] = PopOne(G[t \ {Top(t)}], q[Top(t)], id)
        BY <2>1, <2>3, <3>1
      <3> QED BY <1>3, <1>4, <2>3, <3>1, <3>2
    <2> QED BY <2>2, <2>3 DEF FoldsIn
  <1>8. Popped(s, q, id) = G[DOMAIN q]
    BY DEF Popped
  <1> HIDE DEF G
  <1>9. PICK f : Along(f, State, G, step, s, q)
    BY <1>2, <1>7, FoldSteps
  <1>10. ASSUME NEW n \in 1 .. Len(q) PROVE f[n] = PopOne(f[n - 1], q[n], id)
    <2>1. n - 1 \in 0 .. Len(q) /\ q[n] \in Entry
      BY <1>4
    <2>2. f[n - 1] \in State /\ f[n] = step[f[n - 1], q[n]]
      BY <1>9, <2>1 DEF Along
    <2> QED BY <1>3, <2>1, <2>2
  <1> QED BY <1>8, <1>9, <1>10 DEF Along
LEMMA FiredAlong ==
  ASSUME NEW s \in State, NEW q \in Seq(Entry), NEW id, NEW how, NEW next
  PROVE  \E f \in [0 .. Len(q) -> State] :
           /\ f[0] = s /\ f[Len(q)] = Fired(s, q, id, how, next)
           /\ \A n \in 1 .. Len(q) : f[n] = FireOne(f[n - 1], q[n], id, how, next)
  <1> DEFINE step == [p \in State \X Entry |-> FireOne(p[1], p[2], id, how, next)]
  <1>1. ASSUME NEW r \in State, NEW e \in Entry PROVE FireOne(r, e, id, how, next) \in State
    BY FireTyped DEF FireOne
  <1>2. step \in [State \X Entry -> State]
    BY <1>1
  <1>3. ASSUME NEW r \in State, NEW e \in Entry PROVE step[r, e] = FireOne(r, e, id, how, next)
    OBVIOUS
  <1> HIDE DEF step
  <1>4. \A i \in DOMAIN q : q[i] \in Entry
    OBVIOUS
  <1> DEFINE G == CHOOSE g : Firing(g, s, q, id, how, next)
  <1>6. Firing(G, s, q, id, how, next)
    <2>1. PICK g \in [SUBSET DOMAIN q -> State] : Folds(g, step, s, q)
      BY <1>2, FoldExists
    <2>2. ASSUME NEW t \in SUBSET DOMAIN q
          PROVE  g[t] = IF t = {} THEN s ELSE FireOne(g[t \ {Seqs!Max(t)}], q[Seqs!Max(t)], id, how, next)
      <3>1. CASE t = {}
        BY <2>1, <3>1 DEF Folds
      <3>2. CASE t # {}
        <4>1. g[t] = step[g[t \ {Top(t)}], q[Top(t)]]
          BY <2>1, <3>2 DEF Folds
        <4>2. Seqs!Max(t) = Top(t) /\ Top(t) \in DOMAIN q /\ t \ {Top(t)} \in SUBSET DOMAIN q
          BY <3>2, MaxIsTop
        <4> QED BY <1>3, <1>4, <3>2, <4>1, <4>2
      <3> QED BY <3>1, <3>2
    <2>3. g = [t \in SUBSET DOMAIN q |-> g[t]]
      OBVIOUS
    <2>4. Firing(g, s, q, id, how, next)
      BY <2>2, <2>3 DEF Firing
    <2> QED BY <2>4
  <1>7. FoldsIn(State, G, step, s, q)
    <2> HIDE DEF G
    <2>1. ASSUME NEW t \in SUBSET DOMAIN q
          PROVE  G[t] = IF t = {} THEN s ELSE FireOne(G[t \ {Seqs!Max(t)}], q[Seqs!Max(t)], id, how, next)
      BY <1>6 DEF Firing
    <2>2. G[{}] = s
      BY <2>1
    <2>3. ASSUME NEW t \in SUBSET DOMAIN q, t # {}, G[t \ {Top(t)}] \in State
          PROVE  G[t] = step[G[t \ {Top(t)}], q[Top(t)]]
      <3>1. Seqs!Max(t) = Top(t) /\ Top(t) \in DOMAIN q
        BY <2>3, MaxIsTop
      <3>2. G[t] = FireOne(G[t \ {Top(t)}], q[Top(t)], id, how, next)
        BY <2>1, <2>3, <3>1
      <3> QED BY <1>3, <1>4, <2>3, <3>1, <3>2
    <2> QED BY <2>2, <2>3 DEF FoldsIn
  <1>8. Fired(s, q, id, how, next) = G[DOMAIN q]
    BY DEF Fired
  <1> HIDE DEF G
  <1>9. PICK f : Along(f, State, G, step, s, q)
    BY <1>2, <1>7, FoldSteps
  <1>10. ASSUME NEW n \in 1 .. Len(q) PROVE f[n] = FireOne(f[n - 1], q[n], id, how, next)
    <2>1. n - 1 \in 0 .. Len(q) /\ q[n] \in Entry
      BY <1>4
    <2>2. f[n - 1] \in State /\ f[n] = step[f[n - 1], q[n]]
      BY <1>9, <2>1 DEF Along
    <2> QED BY <1>3, <2>1, <2>2
  <1> QED BY <1>8, <1>9, <1>10 DEF Along
LEMMA LostAlong ==
  ASSUME NEW s \in State, NEW q \in Seq(Nat), NEW c \in Conn, NEW next
  PROVE  \E f \in [0 .. Len(q) -> State] :
           /\ f[0] = s /\ f[Len(q)] = LostAll(s, q, c, next)
           /\ \A n \in 1 .. Len(q) : f[n] = LoseOne(f[n - 1], c, next)
  <1> DEFINE step == [p \in State \X Nat |-> LoseOne(p[1], c, next)]
  <1>1. ASSUME NEW r \in State, NEW e \in Nat PROVE LoseOne(r, c, next) \in State
    <2> DEFINE m == r.map[c]
    <2>1. m \in Seq(Entry)
      BY StateIs
    <2> HIDE DEF m
    <2>2. CASE m # <<>>
      <3>1. m[Len(m)] \in Entry
        BY <2>1, <2>2
      <3>2. PICK u \in State : u = Pop(r, m[Len(m)])
        BY <3>1, PopIs
      <3>3. Fire(u, m[Len(m)], "lost", next) \in State
        BY <3>1, FireTyped
      <3>4. LoseOne(r, c, next) = Fire(u, m[Len(m)], "lost", next)
        BY <2>2, <3>2 DEF LoseOne, m
      <3> QED BY <3>3, <3>4
    <2>3. CASE m = <<>>
      BY <2>3 DEF LoseOne, m
    <2> QED BY <2>2, <2>3
  <1>2. step \in [State \X Nat -> State]
    BY <1>1
  <1>3. ASSUME NEW r \in State, NEW e \in Nat PROVE step[r, e] = LoseOne(r, c, next)
    OBVIOUS
  <1> HIDE DEF step
  <1>4. \A i \in DOMAIN q : q[i] \in Nat
    OBVIOUS
  <1> DEFINE G == CHOOSE g : Losing(g, s, q, c, next)
  <1>6. Losing(G, s, q, c, next)
    <2>1. PICK g \in [SUBSET DOMAIN q -> State] : Folds(g, step, s, q)
      BY <1>2, FoldExists
    <2>2. ASSUME NEW t \in SUBSET DOMAIN q
          PROVE  g[t] = IF t = {} THEN s ELSE LoseOne(g[t \ {Seqs!Max(t)}], c, next)
      <3>1. CASE t = {}
        BY <2>1, <3>1 DEF Folds
      <3>2. CASE t # {}
        <4>1. g[t] = step[g[t \ {Top(t)}], q[Top(t)]]
          BY <2>1, <3>2 DEF Folds
        <4>2. Seqs!Max(t) = Top(t) /\ Top(t) \in DOMAIN q /\ t \ {Top(t)} \in SUBSET DOMAIN q
          BY <3>2, MaxIsTop
        <4> QED BY <1>3, <1>4, <3>2, <4>1, <4>2
      <3> QED BY <3>1, <3>2
    <2>3. g = [t \in SUBSET DOMAIN q |-> g[t]]
      OBVIOUS
    <2>4. Losing(g, s, q, c, next)
      BY <2>2, <2>3 DEF Losing
    <2> QED BY <2>4
  <1>7. FoldsIn(State, G, step, s, q)
    <2> HIDE DEF G
    <2>1. ASSUME NEW t \in SUBSET DOMAIN q
          PROVE  G[t] = IF t = {} THEN s ELSE LoseOne(G[t \ {Seqs!Max(t)}], c, next)
      BY <1>6 DEF Losing
    <2>2. G[{}] = s
      BY <2>1
    <2>3. ASSUME NEW t \in SUBSET DOMAIN q, t # {}, G[t \ {Top(t)}] \in State
          PROVE  G[t] = step[G[t \ {Top(t)}], q[Top(t)]]
      <3>1. Seqs!Max(t) = Top(t) /\ Top(t) \in DOMAIN q
        BY <2>3, MaxIsTop
      <3>2. G[t] = LoseOne(G[t \ {Top(t)}], c, next)
        BY <2>1, <2>3, <3>1
      <3> QED BY <1>3, <1>4, <2>3, <3>1, <3>2
    <2> QED BY <2>2, <2>3 DEF FoldsIn
  <1>8. LostAll(s, q, c, next) = G[DOMAIN q]
    BY DEF LostAll
  <1> HIDE DEF G
  <1>9. PICK f : Along(f, State, G, step, s, q)
    BY <1>2, <1>7, FoldSteps
  <1>10. ASSUME NEW n \in 1 .. Len(q) PROVE f[n] = LoseOne(f[n - 1], c, next)
    <2>1. n - 1 \in 0 .. Len(q) /\ q[n] \in Nat
      BY <1>4
    <2>2. f[n - 1] \in State /\ f[n] = step[f[n - 1], q[n]]
      BY <1>9, <2>1 DEF Along
    <2> QED BY <1>3, <2>1, <2>2
  <1> QED BY <1>8, <1>9, <1>10 DEF Along

\* The entries of a stretch of a map that wait for one id.
Waiting(q, a, b, id) == {q[i] : i \in {j \in a .. b : q[j].id = id}}

AllWaiting(q, id) == Waiting(q, 1, Len(q), id)

\* One place more, or one less, of a map that has no entry twice.
LEMMA WaitingGrows ==
  ASSUME NEW q \in Seq(Entry), \A i, j \in DOMAIN q : q[i] = q[j] => i = j, NEW n \in 1 .. Len(q), NEW id
  PROVE  /\ q[n].id = id => /\ Waiting(q, 1, n, id) = Waiting(q, 1, n - 1, id) \cup {q[n]}
                            /\ q[n] \in Waiting(q, n, Len(q), id)
                            /\ Waiting(q, n + 1, Len(q), id) = Waiting(q, n, Len(q), id) \ {q[n]}
         /\ q[n].id # id => /\ Waiting(q, 1, n, id) = Waiting(q, 1, n - 1, id)
                            /\ Waiting(q, n + 1, Len(q), id) = Waiting(q, n, Len(q), id)
         /\ q[n] \notin Waiting(q, 1, n - 1, id)
  <1>1. PICK N \in Nat : N = Len(q) /\ DOMAIN q = 1 .. N /\ n \in 1 .. N
    OBVIOUS
  <1>2. \A j : (j \in 1 .. n <=> j \in 1 .. n - 1 \/ j = n) /\ (j \in n .. N <=> j \in n + 1 .. N \/ j = n)
    BY ONLY <1>1, N \in Nat
  <1>3. \A j : (j \in 1 .. n - 1 => j \in 1 .. N /\ j # n) /\ (j \in n + 1 .. N => j \in 1 .. N /\ j # n)
    BY ONLY <1>1, N \in Nat
  <1>4. \A j \in 1 .. N : j # n => q[j] # q[n]
    BY <1>1
  <1>5. /\ \A x : x \in Waiting(q, 1, n, id) <=> \E j \in 1 .. n : q[j].id = id /\ x = q[j]
        /\ \A x : x \in Waiting(q, 1, n - 1, id) <=> \E j \in 1 .. n - 1 : q[j].id = id /\ x = q[j]
        /\ \A x : x \in Waiting(q, n, N, id) <=> \E j \in n .. N : q[j].id = id /\ x = q[j]
        /\ \A x : x \in Waiting(q, n + 1, N, id) <=> \E j \in n + 1 .. N : q[j].id = id /\ x = q[j]
    BY DEF Waiting
  <1>6. q[n] \notin Waiting(q, 1, n - 1, id) /\ q[n] \notin Waiting(q, n + 1, N, id)
    BY ONLY <1>3, <1>4, <1>5
  <1>7. \A x : x \in Waiting(q, 1, n, id) <=> x \in Waiting(q, 1, n - 1, id) \/ (q[n].id = id /\ x = q[n])
    BY ONLY <1>2, <1>5
  <1>8. \A x : x \in Waiting(q, n, N, id) <=> x \in Waiting(q, n + 1, N, id) \/ (q[n].id = id /\ x = q[n])
    BY ONLY <1>2, <1>5
  <1>9. q[n].id = id => /\ Waiting(q, 1, n, id) = Waiting(q, 1, n - 1, id) \cup {q[n]}
                        /\ q[n] \in Waiting(q, n, N, id)
                        /\ Waiting(q, n + 1, N, id) = Waiting(q, n, N, id) \ {q[n]}
    BY ONLY <1>6, <1>7, <1>8
  <1>10. q[n].id # id => /\ Waiting(q, 1, n, id) = Waiting(q, 1, n - 1, id)
                         /\ Waiting(q, n + 1, N, id) = Waiting(q, n, N, id)
    BY ONLY <1>7, <1>8
  <1> QED BY <1>1, <1>6, <1>9, <1>10

MapOf(s, c) == s.map[c]
PopsKeep(s, q, t) ==
  t.outcome = s.outcome /\ q \in Seq(Entry) /\ \A i, j \in DOMAIN q : q[i] = q[j] => i = j

\* got_response pops all who wait for the id.
LEMMA PoppedSound ==
  ASSUME NEW k, NEW s, NEW P, P = {}, NEW X, Sound(k, s, P, X), NEW c \in Conn, NEW id,
         NEW q, q = MapOf(s, c), NEW t, t = Popped(s, q, id), NEW W, W = AllWaiting(q, id)
  PROVE  Sound(k, t, W, X) /\ PopsKeep(s, q, t)
  <1>1. s \in State /\ s.map \in [Conn -> Seq(Entry)] /\ Core(k, s, P, X) /\ Waits(s)
    BY StateIs DEF Sound, Core
  <1>2. /\ q \in Seq(Entry) /\ \A i, j \in DOMAIN q : q[i] = q[j] => i = j
        /\ \A i \in DOMAIN q : q[i] \in s.timers
    BY <1>1 DEF Core, Listed, MapOf
  <1>3. PICK f \in [0 .. Len(q) -> State] :
           /\ f[0] = s /\ f[Len(q)] = t
           /\ \A n \in 1 .. Len(q) : f[n] = PopOne(f[n - 1], q[n], id)
    BY <1>1, <1>2, PoppedAlong
  <1> DEFINE Good(n) == /\ Core(k, f[n], Waiting(q, 1, n, id), X)
                        /\ f[n].timers = s.timers \ Waiting(q, 1, n, id)
                        /\ f[n].outcome = s.outcome /\ f[n].asking = s.asking /\ f[n].state = s.state
             T == {n \in 0 .. Len(q) : Good(n)}
  <1>4. Len(q) \in Nat /\ Len(q) \in 0 .. Len(q) /\ DOMAIN q = 1 .. Len(q)
    BY <1>2
  <1>5. 0 \in T
    <2>1. Waiting(q, 1, 0, id) = P
      BY DEF Waiting
    <2>2. Good(0)
      BY <1>1, <1>3, <2>1
    <2> QED BY <1>4, <2>2
  <1>6. ASSUME NEW n \in 1 .. Len(q), n - 1 \in T PROVE n \in T
    <2>0. n \in 0 .. Len(q) /\ n \in DOMAIN q
      BY <1>4
    <2>1. Good(n - 1) /\ f[n] = PopOne(f[n - 1], q[n], id)
      BY <1>3, <1>6
    <2> HIDE DEF Good
    <2>2. Good(n)
      <3>1. CASE q[n].id = id
        <4>1. f[n] = Pop(f[n - 1], q[n])
          BY <2>1, <3>1 DEF PopOne
        <4>2. PICK V : V = Waiting(q, 1, n - 1, id)
          OBVIOUS
        <4>3. /\ Core(k, f[n - 1], V, X) /\ f[n - 1].timers = s.timers \ V
              /\ f[n - 1].outcome = s.outcome /\ f[n - 1].asking = s.asking /\ f[n - 1].state = s.state
          BY <2>1, <4>2 DEF Good
        <4>4. q[n] \notin V /\ Waiting(q, 1, n, id) = V \cup {q[n]}
          <5>1. /\ q[n].id = id => /\ Waiting(q, 1, n, id) = Waiting(q, 1, n - 1, id) \cup {q[n]}
                                   /\ q[n] \in Waiting(q, n, Len(q), id)
                                   /\ Waiting(q, n + 1, Len(q), id) = Waiting(q, n, Len(q), id) \ {q[n]}
                /\ q[n].id # id => /\ Waiting(q, 1, n, id) = Waiting(q, 1, n - 1, id)
                                   /\ Waiting(q, n + 1, Len(q), id) = Waiting(q, n, Len(q), id)
                /\ q[n] \notin Waiting(q, 1, n - 1, id)
            BY ONLY <1>2, n \in 1 .. Len(q), WaitingGrows
          <5> QED BY <3>1, <4>2, <5>1
        <4>5. q[n] \in f[n - 1].timers
          BY <1>2, <2>0, <4>3, <4>4
        <4>6. PICK r, u, e : r = f[n - 1] /\ u = f[n] /\ e = q[n]
          OBVIOUS
        <4>7. Core(k, r, V, X) /\ e \in r.timers /\ u = Pop(r, e)
          BY <4>1, <4>3, <4>5, <4>6
        <4>8. /\ Core(k, u, V \cup {e}, X) /\ u.timers = r.timers \ {e} /\ u.state = r.state
              /\ u.asking = r.asking /\ u.outcome = r.outcome /\ e \notin V
          BY ONLY <4>7, PopSound
        <4>9. r.timers \ {e} = s.timers \ (V \cup {e})
          BY <4>3, <4>6
        <4> QED BY <4>3, <4>4, <4>6, <4>8, <4>9 DEF Good
      <3>2. CASE q[n].id # id
        <4>1. f[n] = f[n - 1]
          BY <2>1, <3>2 DEF PopOne
        <4>2. Waiting(q, 1, n, id) = Waiting(q, 1, n - 1, id)
          BY <1>2, <3>2, WaitingGrows
        <4> QED BY <2>1, <4>1, <4>2 DEF Good
      <3> QED BY <3>1, <3>2
    <2> QED BY <2>0, <2>2
  <1>7. Good(Len(q))
    <2>1. Len(q) \in T
      <3> HIDE DEF T
      <3> QED BY <1>4, <1>5, <1>6, UpTo
    <2> QED BY <2>1
  <1>8. Waits(t)
    BY <1>1, <1>3, <1>7 DEF Waits
  <1> QED BY <1>2, <1>3, <1>7, <1>8 DEF Sound, AllWaiting, PopsKeep

\* And then it lets each of them know.
LEMMA FiredSound ==
  ASSUME NEW k, NEW s, NEW q \in Seq(Entry), \A i, j \in DOMAIN q : q[i] = q[j] => i = j,
         NEW id, NEW X, Sound(k, s, Waiting(q, 1, Len(q), id), X), NEW how, NEW next,
         NEW t, t = Fired(s, q, id, how, next)
  PROVE  Sound(k, t, {}, X) /\ Onward(s.outcome, t.outcome)
  <1>1. s \in State
    BY DEF Sound, Core
  <1>2. PICK f \in [0 .. Len(q) -> State] :
           /\ f[0] = s /\ f[Len(q)] = t
           /\ \A n \in 1 .. Len(q) : f[n] = FireOne(f[n - 1], q[n], id, how, next)
    BY <1>1, FiredAlong
  <1> DEFINE Good(n) == /\ Sound(k, f[n], Waiting(q, n + 1, Len(q), id), X)
                        /\ Onward(s.outcome, f[n].outcome)
             T == {n \in 0 .. Len(q) : Good(n)}
  <1>3. Len(q) \in Nat /\ Len(q) \in 0 .. Len(q) /\ DOMAIN q = 1 .. Len(q) /\ 0 \in 0 .. Len(q)
    OBVIOUS
  <1>4. 0 \in T
    <2>1. Onward(s.outcome, s.outcome)
      BY DEF Onward
    <2>2. 0 + 1 = 1
      OBVIOUS
    <2>3. Good(0)
      BY <1>2, <2>1, <2>2
    <2> QED BY <1>3, <2>3
  <1>5. ASSUME NEW n \in 1 .. Len(q), n - 1 \in T PROVE n \in T
    <2>0. n \in 0 .. Len(q) /\ n \in DOMAIN q /\ (n - 1) + 1 = n
      BY <1>3
    <2>1. Good(n - 1) /\ f[n] = FireOne(f[n - 1], q[n], id, how, next)
      BY <1>2, <1>5
    <2>2. Good(n)
      <3>2. PICK W : W = Waiting(q, n, Len(q), id)
        OBVIOUS
      <3>3. Sound(k, f[n - 1], W, X) /\ Onward(s.outcome, f[n - 1].outcome)
        BY <2>0, <2>1, <3>2
      <3> HIDE DEF Good
      <3>1. CASE q[n].id = id
        <4>4. q[n] \in W /\ Waiting(q, n + 1, Len(q), id) = W \ {q[n]}
          BY <3>1, <3>2, WaitingGrows
        <4>6. PICK r, u, e : r = f[n - 1] /\ u = f[n] /\ e = q[n]
          OBVIOUS
        <4>7. Sound(k, r, W, X) /\ e \in W /\ u = Fire(r, e, how, next)
          BY <2>1, <3>1, <3>3, <4>4, <4>6 DEF FireOne
        <4>8. /\ Sound(k, u, W \ {e}, X) /\ r.outcome[e.req] = "out"
              /\ Made([r.outcome EXCEPT ![e.req] = "ended"], u.outcome)
          BY ONLY <4>7, FireSound
        <4>9. r.outcome \in [Req -> {"none", "out", "ended", "twice"}] /\ e.req \in Req
          BY <4>7, StateIs DEF Sound, Core, Due, Entry
        <4>10. Onward(r.outcome, u.outcome)
          BY <4>8, <4>9, Stepwise
        <4>11. Onward(s.outcome, u.outcome)
          BY <3>3, <4>6, <4>10, OnwardOn
        <4> QED BY <4>4, <4>6, <4>8, <4>11 DEF Good
      <3>4. CASE q[n].id # id
        <4>1. f[n] = f[n - 1]
          BY <2>1, <3>4 DEF FireOne
        <4>2. Waiting(q, n + 1, Len(q), id) = W
          BY <3>2, <3>4, WaitingGrows
        <4> QED BY <3>3, <4>1, <4>2 DEF Good
      <3> QED BY <3>1, <3>4
    <2> HIDE DEF Good
    <2> QED BY <2>0, <2>2
  <1>6. Good(Len(q))
    <2>1. Len(q) \in T
      <3> HIDE DEF T
      <3> QED BY <1>3, <1>4, <1>5, UpTo
    <2> QED BY <2>1
  <1>7. Waiting(q, Len(q) + 1, Len(q), id) = {}
    BY <1>3 DEF Waiting
  <1> QED BY <1>2, <1>6, <1>7

\* An answer ends all who wait for it, each once, though some ask again at once.
LEMMA GotSound ==
  ASSUME NEW k, NEW s, NEW X, Sound(k, s, {}, X), NEW c \in Conn, NEW id, NEW how, NEW next,
         NEW t, t = got_response(s, c, id, how, next)
  PROVE  Sound(k, t, {}, X) /\ Onward(s.outcome, t.outcome)
  <1>1. PICK q, P : q = MapOf(s, c) /\ P = {}
    OBVIOUS
  <1>2. PICK u, W : u = Popped(s, q, id) /\ W = AllWaiting(q, id)
    OBVIOUS
  <1>3. t = Fired(u, q, id, how, next)
    BY <1>1, <1>2, GotIs DEF MapOf
  <1>4. /\ Sound(k, u, Waiting(q, 1, Len(q), id), X) /\ u.outcome = s.outcome
        /\ q \in Seq(Entry) /\ \A i, j \in DOMAIN q : q[i] = q[j] => i = j
    <2>1. Sound(k, s, P, X)
      BY <1>1
    <2>2. Sound(k, u, W, X) /\ PopsKeep(s, q, u)
      BY ONLY <1>1, <1>2, <2>1, c \in Conn, PoppedSound
    <2> QED BY <1>2, <2>2 DEF AllWaiting, PopsKeep
  <1>5. Sound(k, t, {}, X) /\ Onward(u.outcome, t.outcome)
    BY ONLY <1>3, <1>4, FiredSound
  <1> QED BY <1>4, <1>5

\* The requests that ended: each turn of the loop adds one, so that the loop comes to its end.
EndedIn(s) == {r \in Req : s.outcome[r] = "ended"}

LEMMA EndedCount ==
  ASSUME NEW s
  PROVE  IsFiniteSet(EndedIn(s)) /\ Cardinality(EndedIn(s)) \in Nat
  BY ReqFinite, FS_Subset, FS_CardinalityType DEF EndedIn

\* A turn of respond_all's loop ends one request, when there is one.
LEMMA LoseSound ==
  ASSUME NEW k, NEW s, NEW P, P = {}, NEW X, Sound(k, s, P, X), NEW c \in Conn, NEW next,
         NEW t, t = LoseOne(s, c, next)
  PROVE  /\ Sound(k, t, P, X) /\ Onward(s.outcome, t.outcome)
         /\ s.map[c] = <<>> => t = s
         /\ s.map[c] # <<>> => Cardinality(EndedIn(t)) = Cardinality(EndedIn(s)) + 1
  <1>1. CASE s.map[c] = <<>>
    <2>1. t = s
      BY <1>1 DEF LoseOne
    <2> QED BY <1>1, <2>1 DEF Onward
  <1>2. CASE s.map[c] # <<>>
    <2>1. s \in State /\ Core(k, s, P, X) /\ Waits(s) /\ s.map \in [Conn -> Seq(Entry)]
      BY StateIs DEF Sound, Core
    <2>2. PICK q \in Seq(Entry) : q = s.map[c]
      BY <2>1
    <2>3. Len(q) \in DOMAIN q
      BY <1>2, <2>2
    <2>4. PICK e \in s.timers : e = q[Len(q)]
      BY <2>1, <2>2, <2>3 DEF Core, Listed
    <2>5. PICK u : u = Pop(s, e)
      OBVIOUS
    <2>6. t = Fire(u, e, "lost", next)
      BY <1>2, <2>2, <2>4, <2>5 DEF LoseOne
    <2>7. PICK D : D = P \cup {e}
      OBVIOUS
    <2>8. /\ Core(k, u, P \cup {e}, X) /\ u.timers = s.timers \ {e} /\ u.state = s.state
          /\ u.asking = s.asking /\ u.outcome = s.outcome /\ e \notin P
      <3>1. Core(k, s, P, X) /\ e \in s.timers /\ u = Pop(s, e)
        BY <2>1, <2>5
      <3> QED BY ONLY <3>1, PopSound
    <2>9. Sound(k, u, D, X) /\ e \in D
      BY <2>1, <2>7, <2>8 DEF Sound, Waits
    <2>10. /\ Sound(k, t, D \ {e}, X) /\ u.outcome[e.req] = "out"
           /\ Made([u.outcome EXCEPT ![e.req] = "ended"], t.outcome)
      <3>1. PICK how : how = "lost"
        OBVIOUS
      <3>2. Sound(k, u, D, X) /\ e \in D /\ t = Fire(u, e, how, next)
        BY <2>6, <2>9, <3>1
      <3>3. PICK r, d, W : r = u /\ d = e /\ W = D
        OBVIOUS
      <3>4. Sound(k, r, W, X) /\ d \in W /\ t = Fire(r, d, how, next)
        BY <3>2, <3>3
      <3>5. /\ Sound(k, t, W \ {d}, X) /\ r.outcome[d.req] = "out"
            /\ Made([r.outcome EXCEPT ![d.req] = "ended"], t.outcome)
        BY ONLY <3>4, FireSound
      <3> QED BY <3>3, <3>5
    <2>11. D \ {e} = P
      BY <2>7
    <2>12. s.outcome \in [Req -> {"none", "out", "ended", "twice"}] /\ e.req \in Req
      BY <2>1, StateIs DEF Entry
    <2>13. /\ Onward(s.outcome, t.outcome)
           /\ EndedIn(t) = EndedIn(s) \cup {e.req} /\ e.req \notin EndedIn(s)
      BY <2>8, <2>10, <2>12, Stepwise DEF EndedIn
    <2>14. Cardinality(EndedIn(t)) = Cardinality(EndedIn(s)) + 1
      BY <2>13, EndedCount, FS_AddElement
    <2> QED BY <1>2, <2>10, <2>11, <2>13, <2>14
  <1> QED BY <1>1, <1>2

\* When respond_all is through, nothing is left on the connection.
LEMMA RespondSound ==
  ASSUME NEW k, NEW s, NEW c \in Conn, Sound(k, s, {}, {c}), NEW next, NEW t, t = respond_all(s, c, next)
  PROVE  Sound(k, t, {}, {}) /\ Onward(s.outcome, t.outcome)
  <1>0. PICK N \in Nat : N = Cardinality(Req) /\ IsFiniteSet(Req)
    BY ReqFinite
  <1>1. PICK P, X : P = {} /\ X = {c}
    OBVIOUS
  <1>2. PICK q \in Seq(Nat) : q = [i \in 1 .. N |-> i] /\ Len(q) = N
    <2>1. [i \in 1 .. N |-> i] \in Seq(Nat) /\ Len([i \in 1 .. N |-> i]) = N
      BY IsASeq
    <2> QED BY <2>1
  <1>3. t = LostAll(s, q, c, next)
    BY <1>0, <1>2, RespondIs
  <1>4. Sound(k, s, P, X) /\ s \in State
    BY <1>1 DEF Sound, Core
  <1>5. PICK f \in [0 .. N -> State] :
           /\ f[0] = s /\ f[N] = t
           /\ \A n \in 1 .. N : f[n] = LoseOne(f[n - 1], c, next)
    <2>1. PICK f \in [0 .. Len(q) -> State] :
           /\ f[0] = s /\ f[Len(q)] = LostAll(s, q, c, next)
           /\ \A n \in 1 .. Len(q) : f[n] = LoseOne(f[n - 1], c, next)
      BY <1>4, LostAlong
    <2> QED BY <1>2, <1>3, <2>1
  <1> DEFINE Good(n) == /\ Sound(k, f[n], P, X) /\ Onward(s.outcome, f[n].outcome)
                        /\ f[n].map[c] = <<>> \/ Cardinality(EndedIn(f[n])) >= n
             T == {n \in 0 .. N : Good(n)}
  <1>6. 0 \in T
    <2>1. Onward(s.outcome, s.outcome)
      BY DEF Onward
    <2>2. Cardinality(EndedIn(s)) >= 0
      BY EndedCount
    <2>3. Good(0) /\ 0 \in 0 .. N
      BY <1>4, <1>5, <2>1, <2>2
    <2> QED BY <2>3
  <1>7. ASSUME NEW n \in 1 .. N, n - 1 \in T PROVE n \in T
    <2>0. n \in 0 .. N /\ n \in Nat
      OBVIOUS
    <2>1. PICK r, u : r = f[n - 1] /\ u = f[n]
      OBVIOUS
    <2>2. /\ Sound(k, r, P, X) /\ Onward(s.outcome, r.outcome) /\ u = LoseOne(r, c, next)
          /\ r.map[c] = <<>> \/ Cardinality(EndedIn(r)) >= n - 1
      BY <1>5, <1>7, <2>1
    <2>3. /\ Sound(k, u, P, X) /\ Onward(r.outcome, u.outcome)
          /\ r.map[c] = <<>> => u = r
          /\ r.map[c] # <<>> => Cardinality(EndedIn(u)) = Cardinality(EndedIn(r)) + 1
      BY ONLY <1>1, <2>2, c \in Conn, LoseSound
    <2>4. Onward(s.outcome, u.outcome)
      BY <2>2, <2>3, OnwardOn
    <2>5. u.map[c] = <<>> \/ Cardinality(EndedIn(u)) >= n
      <3>1. CASE r.map[c] = <<>>
        BY <2>3, <3>1
      <3>2. CASE r.map[c] # <<>>
        <4>1. PICK m \in Nat : m = Cardinality(EndedIn(r))
          BY EndedCount
        <4>2. m >= n - 1 /\ Cardinality(EndedIn(u)) = m + 1
          BY <2>2, <2>3, <3>2, <4>1
        <4> QED BY <2>0, <4>2
      <3> QED BY <3>1, <3>2
    <2> QED BY <2>0, <2>1, <2>3, <2>4, <2>5
  <1>8. Good(N)
    <2>1. N \in T
      <3>1. N \in 0 .. N
        OBVIOUS
      <3> HIDE DEF T
      <3> QED BY <1>6, <1>7, <3>1, UpTo
    <2> QED BY <2>1
  <1>9. /\ Sound(k, t, {}, {c}) /\ Onward(s.outcome, t.outcome)
        /\ t.map[c] = <<>> \/ Cardinality(EndedIn(t)) >= N
    BY <1>1, <1>5, <1>8
  <1> HIDE DEF T, Good
  <1>10. t \in State /\ Listed(t) /\ Due(t, {}) /\ Alive(k, t, {}, {c}) /\ InTurn(t) /\ Waits(t)
    BY <1>9 DEF Sound, Core
  <1>11. t.timers \subseteq Entry
    BY <1>10, StateIs
  <1>12. \A e \in t.timers : e.conn # c
    <2>1. CASE t.map[c] = <<>>
      <3>1. DOMAIN t.map[c] = {}
        BY <2>1
      <3> QED BY <1>10, <3>1 DEF Listed
    <2>2. CASE Cardinality(EndedIn(t)) >= N
      <3>1. EndedIn(t) \subseteq Req /\ Cardinality(EndedIn(t)) <= N
        BY <1>0, FS_Subset DEF EndedIn
      <3>2. Cardinality(EndedIn(t)) = N
        BY <2>2, <3>1, EndedCount
      <3>3. EndedIn(t) = Req
        BY <1>0, <3>1, <3>2, FS_Subset
      <3>4. \A e \in t.timers : e.req \in Req /\ t.outcome[e.req] = "out"
        BY <1>10, <1>11 DEF Due, Entry
      <3> QED BY <3>3, <3>4 DEF EndedIn
    <2> QED BY <1>9, <2>1, <2>2
  <1>13. Alive(k, t, {}, {})
    BY <1>10, <1>12 DEF Alive
  <1> QED BY <1>9, <1>10, <1>13 DEF Sound, Core

\* What every action but Forget does.
Keeps == RequestsInv' /\ Onward(outcome, outcome')

\* A turn goes from the present state to the one it computes.
LEMMA Turn ==
  ASSUME RequestsInv, NEW k, k = kind, NEW P, P = {}, NEW t, Sound(k, t, P, P), Onward(outcome, t.outcome), Become(t)
  PROVE  Keeps
  <1>1. t \in State
    BY DEF Sound, Core
  <1>2. PICK st, mp, tm, cm, oc, as : t = [state |-> st, map |-> mp, timers |-> tm, coming |-> cm,
                                           outcome |-> oc, asking |-> as]
    BY <1>1 DEF State
  <1>3. /\ state' = t.state /\ map' = t.map /\ timers' = t.timers /\ coming' = t.coming
        /\ outcome' = t.outcome /\ asking' = t.asking /\ kind' = kind
    BY DEF Become
  <1>4. Now' = t
    BY <1>2, <1>3 DEF Now
  <1>5. kind' \in Kinds /\ Sound(kind', Now', {}, {})
    BY <1>3, <1>4 DEF RequestsInv
  <1>6. RequestsInv'
    BY <1>5 DEF RequestsInv
  <1> QED BY <1>3, <1>6 DEF Keeps

LEMMA NowIs ==
  ASSUME RequestsInv
  PROVE  /\ Now \in State /\ Core(kind, Now, {}, {}) /\ Sound(kind, Now, {}, {}) /\ Waits(Now)
         /\ Now.state = state /\ Now.map = map /\ Now.timers = timers /\ Now.coming = coming
         /\ Now.outcome = outcome /\ Now.asking = asking
         /\ outcome \in [Req -> {"none", "out", "ended", "twice"}] /\ kind \in Kinds
         /\ Listed(Now) /\ Due(Now, {}) /\ Alive(kind, Now, {}, {}) /\ InTurn(Now)
         /\ \A r \in Req : outcome[r] # "twice"
  <1>1. Now \in State /\ Core(kind, Now, {}, {}) /\ Sound(kind, Now, {}, {}) /\ Waits(Now) /\ kind \in Kinds
    BY DEF RequestsInv, Sound, Core
  <1>2. /\ Now.state = state /\ Now.map = map /\ Now.timers = timers /\ Now.coming = coming
        /\ Now.outcome = outcome /\ Now.asking = asking
    BY DEF Now
  <1>3. outcome \in [Req -> {"none", "out", "ended", "twice"}]
    BY <1>1, <1>2, StateIs
  <1>4. Listed(Now) /\ Due(Now, {}) /\ Alive(kind, Now, {}, {}) /\ InTurn(Now)
    BY <1>1 DEF Core
  <1>5. \A r \in Req : outcome[r] # "twice"
    BY <1>2, <1>4 DEF Due
  <1> QED BY <1>1, <1>2, <1>3, <1>4, <1>5

LEMMA MadeOnward ==
  ASSUME NEW o \in [Req -> {"none", "out", "ended", "twice"}], NEW p, Made(o, p)
  PROVE  Onward(o, p)
  BY DEF Made, Onward

\* The actions, one by one.
LEMMA DownloadKeeps ==
  ASSUME RequestsInv, NEW c \in Conn, Download(c)
  PROVE  Keeps
  <1>1. PICK k, P, t : k = kind /\ P = {} /\ t = Round(Now, c)
    OBVIOUS
  <1>2. Core(k, Now, P, P)
    BY <1>1, NowIs
  <1>3. Sound(k, t, P, P) /\ Made(Now.outcome, t.outcome)
    BY ONLY <1>1, <1>2, RoundSound
  <1>4. Onward(outcome, t.outcome)
    BY <1>3, NowIs, MadeOnward
  <1>5. Become(t)
    BY <1>1 DEF Download
  <1> QED BY <1>1, <1>3, <1>4, <1>5, Turn

\* A request that may be made is made.
LEMMA CallKeeps ==
  ASSUME RequestsInv, NEW c \in Conn, NEW id \in Ids, NEW r \in Req, outcome[r] = "none",
         kind = "peer" => state[c] # "lost",
         \A i, j \in 1 .. Pings :
           /\ r = <<"ping", i>> /\ i < j => outcome[<<"ping", j>>] = "none"
           /\ r = <<"ping", j>> /\ i < j => outcome[<<"ping", i>>] # "out",
         Become(Call(Now, c, id, r))
  PROVE  Keeps
  <1>1. PICK k, P, s, t : k = kind /\ P = {} /\ s = Now /\ t = Call(s, c, id, r)
    OBVIOUS
  <1>2. Core(k, s, P, P) /\ s.outcome[r] = "none" /\ (k = "peer" => s.state[c] # "lost" \/ c \in P)
    BY <1>1, NowIs
  <1>3. \A i, j \in 1 .. Pings :
           /\ r = <<"ping", i>> /\ i < j => s.outcome[<<"ping", j>>] = "none"
           /\ r = <<"ping", j>> /\ i < j => s.outcome[<<"ping", i>>] # "out"
    BY <1>1, NowIs
  <1>4. t = Call(s, c, id, r)
    BY <1>1
  <1>5. /\ Core(k, t, P, P) /\ t.state = s.state /\ t.asking = s.asking
        /\ t.outcome = [s.outcome EXCEPT ![r] = "out"]
    BY ONLY <1>2, <1>3, <1>4, c \in Conn, id \in Ids, r \in Req, CallSound
  <1>6. s.outcome = outcome /\ outcome \in [Req -> {"none", "out", "ended", "twice"}] /\ Waits(s) /\ s \in State
    BY <1>1, NowIs
  <1>7. Waits(t) /\ Made(outcome, t.outcome)
    <2>1. s.asking \in Req \cup {Asleep}
      BY <1>6, StateIs
    <2> QED BY <1>2, <1>5, <1>6, <2>1 DEF Waits, Made
  <1>8. Sound(k, t, P, P)
    BY <1>5, <1>7 DEF Sound
  <1>9. Onward(outcome, t.outcome)
    BY <1>6, <1>7, MadeOnward
  <1>10. Become(t)
    BY <1>1
  <1> QED BY <1>1, <1>8, <1>9, <1>10, Turn

LEMMA AnnouncedKeeps ==
  ASSUME RequestsInv, NEW c \in Conn, Announced(c)
  PROVE  Keeps
  <1>1. PICK r \in Req : r = <<"announce", 1>>
    BY ReqIs
  <1>2. Become(Call(Now, c, r, r)) /\ c \in Peers(Now) /\ Unused(Now, "announce") # {}
    BY <1>1 DEF Announced
  <1>3. state[c] # "lost"
    BY <1>2, NowIs DEF Peers
  <1>4. outcome[r] = "none"
    <2>1. PICK x \in Unused(Now, "announce") : TRUE
      BY <1>2
    <2>2. x \in Req /\ x[1] = "announce" /\ outcome[x] = "none"
      BY <2>1, NowIs DEF Unused
    <2> QED BY <1>1, <2>2, ReqIs
  <1>5. r \in Ids /\ \A i : r # <<"ping", i>>
    BY <1>1 DEF Ids
  <1> QED BY <1>2, <1>3, <1>4, <1>5, CallKeeps

LEMMA PingKeeps ==
  ASSUME RequestsInv, NEW c \in Conn, Ping(c)
  PROVE  Keeps
  <1>0. Pings \in Nat /\ 1 \in 1 .. Pings
    BY RequestsAssumption
  <1>1. PICK r \in Req : r = <<"ping", 1>>
    BY <1>0, ReqIs
  <1>2. Become(Call(Now, c, r, r)) /\ c \in Peers(Now) /\ Cardinality(Unused(Now, "ping")) = Pings
    BY <1>1 DEF Ping
  <1>3. state[c] # "lost"
    BY <1>2, NowIs DEF Peers
  <1>4. \A i \in 1 .. Pings : outcome[<<"ping", i>>] = "none"
    <2> DEFINE All == {"ping"} \X (1 .. Pings)
    <2>1. IsFiniteSet(1 .. Pings) /\ Cardinality(1 .. Pings) = Pings
      BY <1>0, FS_Interval
    <2>2. IsFiniteSet({"ping"}) /\ Cardinality({"ping"}) = 1
      BY FS_Singleton
    <2>3. IsFiniteSet(All) /\ Cardinality(All) = 1 * Pings
      BY <2>1, <2>2, FS_Product
    <2>4. Cardinality(All) = Cardinality(Unused(Now, "ping"))
      BY <1>0, <1>2, <2>3
    <2>5. Unused(Now, "ping") \in SUBSET All
      BY ReqIs DEF Unused
    <2>6. Unused(Now, "ping") = All
      <3> HIDE DEF All
      <3> QED BY <2>3, <2>4, <2>5, FS_Subset
    <2>7. ASSUME NEW i \in 1 .. Pings PROVE outcome[<<"ping", i>>] = "none"
      <3>1. <<"ping", i>> \in All
        OBVIOUS
      <3>2. <<"ping", i>> \in Unused(Now, "ping")
        BY <2>6, <3>1
      <3> QED BY <3>2, NowIs DEF Unused
    <2> QED BY <2>7
  <1>5. r \in Ids /\ outcome[r] = "none"
    BY <1>0, <1>1, <1>4 DEF Ids
  <1>6. \A i, j \in 1 .. Pings :
          /\ r = <<"ping", i>> /\ i < j => outcome[<<"ping", j>>] = "none"
          /\ r = <<"ping", j>> /\ i < j => outcome[<<"ping", i>>] # "out"
    BY <1>4
  <1> QED BY <1>2, <1>3, <1>5, <1>6, CallKeeps

LEMMA NoticeKeeps ==
  ASSUME RequestsInv, NEW c \in Conn, Notice(c)
  PROVE  Keeps
  <1>1. PICK r \in Unused(Now, "notice") : Become(Call(Now, c, r, r))
    BY DEF Notice
  <1>2. r \in Req /\ r \in Ids /\ r[1] = "notice" /\ outcome[r] = "none"
    BY <1>1, NowIs DEF Unused, Ids
  <1>3. kind # "peer"
    BY DEF Notice
  <1>4. \A i : r # <<"ping", i>>
    BY <1>2
  <1> QED BY <1>1, <1>2, <1>3, <1>4, CallKeeps

LEMMA HeaderKeeps ==
  ASSUME RequestsInv, NEW c \in Conn, NEW hash \in BlockHash, get_block_header(c, hash)
  PROVE  Keeps
  <1>1. PICK r \in Unused(Now, "block") : Become(Call(Now, c, hash, r))
    BY DEF get_block_header
  <1>2. r \in Req /\ hash \in Ids /\ r[1] = "block" /\ outcome[r] = "none"
    BY <1>1, NowIs DEF Unused, Ids
  <1>3. kind # "peer"
    BY DEF get_block_header
  <1>4. \A i : r # <<"ping", i>>
    BY <1>2
  <1> QED BY <1>1, <1>2, <1>3, <1>4, CallKeeps

\* What may still come, and which connections are up, says nothing of what is out.
LEMMA SameSound ==
  ASSUME NEW k, NEW s, NEW P, NEW X, Sound(k, s, P, X), NEW t \in State,
         t.map = s.map, t.timers = s.timers, t.outcome = s.outcome, t.asking = s.asking,
         \A c \in Conn : t.state[c] = "lost" => s.state[c] = "lost"
  PROVE  Sound(k, t, P, X)
  <1>1. Core(k, s, P, X) /\ Waits(s)
    BY DEF Sound
  <1>2. Core(k, t, P, X)
    BY <1>1, SameCore
  <1> QED BY <1>1, <1>2 DEF Sound, Waits

LEMMA ReplyKeeps ==
  ASSUME RequestsInv, NEW c \in Conn, NEW id, NEW next, Reply(c, id, next)
  PROVE  Keeps
  <1>1. PICK how, rest : Become([got_response(Now, c, id, how, next) EXCEPT !.coming = @ \ (coming \ rest)])
    BY DEF Reply
  <1>2. PICK k, P, s : k = kind /\ P = {} /\ s = got_response(Now, c, id, how, next)
    OBVIOUS
  <1>3. Sound(k, s, P, P) /\ Onward(outcome, s.outcome)
    <2>1. PICK r : r = Now
      OBVIOUS
    <2>2. Sound(k, r, {}, P) /\ s = got_response(r, c, id, how, next) /\ r.outcome = outcome
      BY <1>2, <2>1, NowIs
    <2>3. Sound(k, s, {}, P) /\ Onward(r.outcome, s.outcome)
      BY ONLY <2>2, c \in Conn, GotSound
    <2> QED BY <1>2, <2>2, <2>3
  <1>4. s \in State
    BY <1>3 DEF Sound, Core
  <1>5. PICK t : t = [s EXCEPT !.coming = @ \ (coming \ rest)]
    OBVIOUS
  <1>6. /\ t \in State /\ t.map = s.map /\ t.timers = s.timers /\ t.outcome = s.outcome
        /\ t.asking = s.asking /\ t.state = s.state
    BY <1>4, <1>5 DEF State
  <1>7. Sound(k, t, P, P)
    BY <1>3, <1>6, SameSound
  <1>8. Become(t)
    BY <1>1, <1>2, <1>5
  <1> QED BY <1>2, <1>3, <1>6, <1>7, <1>8, Turn

LEMMA timeoutKeeps ==
  ASSUME RequestsInv, NEW e \in timers, NEW next, timeout(e, next)
  PROVE  Keeps
  <1>1. PICK k, P, s, u, f : /\ k = kind /\ P = {} /\ s = Now /\ u = Pop(s, e)
                             /\ f = Fire(u, e, "timeout", next)
    OBVIOUS
  <1>2. Core(k, s, P, P) /\ Waits(s) /\ s \in State /\ s.timers = timers /\ s.map = map /\ s.outcome = outcome
    BY <1>1, NowIs
  <1>3. e \in Entry /\ e.conn \in Conn /\ e.req \in Req
    BY <1>2, StateIs DEF Entry
  <1>4. e \in Range(map[e.conn])
    BY <1>2 DEF Core, Listed, Range
  <1>5. Become(IF kind = "peer" THEN disconnect(f, e.conn) ELSE f)
    BY <1>1, <1>4 DEF timeout
  <1>6. PICK D : D = P \cup {e}
    OBVIOUS
  <1>7. /\ Core(k, u, P \cup {e}, P) /\ u.timers = s.timers \ {e} /\ u.state = s.state
        /\ u.asking = s.asking /\ u.outcome = s.outcome /\ e \notin P
    <2>1. Core(k, s, P, P) /\ e \in s.timers /\ u = Pop(s, e)
      BY <1>1, <1>2
    <2> QED BY ONLY <2>1, PopSound
  <1>8. Sound(k, u, D, P) /\ e \in D
    BY <1>2, <1>6, <1>7 DEF Sound, Waits
  <1>9. /\ Sound(k, f, D \ {e}, P) /\ u.outcome[e.req] = "out"
        /\ Made([u.outcome EXCEPT ![e.req] = "ended"], f.outcome)
    <2>1. PICK how, d, r, W : how = "timeout" /\ d = e /\ r = u /\ W = D
      OBVIOUS
    <2>2. Sound(k, r, W, P) /\ d \in W /\ f = Fire(r, d, how, next)
      BY <1>1, <1>8, <2>1
    <2>3. /\ Sound(k, f, W \ {d}, P) /\ r.outcome[d.req] = "out"
          /\ Made([r.outcome EXCEPT ![d.req] = "ended"], f.outcome)
      BY ONLY <2>2, FireSound
    <2> QED BY <2>1, <2>3
  <1>10. Sound(k, f, P, P)
    <2>1. D \ {e} = P
      BY <1>1, <1>6
    <2> QED BY <1>9, <2>1
  <1>11. Onward(outcome, f.outcome)
    <2>1. s.outcome \in [Req -> {"none", "out", "ended", "twice"}]
      BY <1>2, StateIs
    <2> QED BY <1>2, <1>3, <1>7, <1>9, <2>1, Stepwise
  <1>12. PICK t : t = IF kind = "peer" THEN disconnect(f, e.conn) ELSE f
    OBVIOUS
  <1>13. Sound(k, t, P, P) /\ t.outcome = f.outcome
    <2>1. f \in State
      BY <1>10 DEF Sound, Core
    <2>2. CASE t = f
      BY <1>10, <2>2
    <2>3. CASE t = disconnect(f, e.conn)
      <3>1. /\ t \in State /\ t.map = f.map /\ t.timers = f.timers /\ t.outcome = f.outcome
            /\ t.asking = f.asking
            /\ \A x \in Conn : t.state[x] = "lost" => f.state[x] = "lost"
        BY <1>3, <2>1, <2>3, DisconnectIs
      <3> QED BY <1>10, <3>1, SameSound
    <2> QED BY <1>12, <2>2, <2>3
  <1>14. Become(t)
    BY <1>5, <1>12
  <1> QED BY <1>1, <1>11, <1>13, <1>14, Turn

LEMMA connectionLostKeeps ==
  ASSUME RequestsInv, NEW c \in Conn, NEW next, connectionLost(c, next)
  PROVE  Keeps
  <1>1. PICK s : s = [Now EXCEPT !.state[c] = "lost", !.coming = {x \in @ : x[1] # c}]
    OBVIOUS
  <1>2. Become(IF kind = "peer" THEN respond_all(s, c, next) ELSE s)
    BY <1>1 DEF connectionLost
  <1>3. /\ s \in State /\ s.map = map /\ s.timers = timers /\ s.outcome = outcome /\ s.asking = asking
        /\ \A x \in Conn : x # c => s.state[x] = state[x]
    <2>1. PICK st, mp, tm, cm, oc, as : Now = [state |-> st, map |-> mp, timers |-> tm, coming |-> cm,
                                               outcome |-> oc, asking |-> as]
      BY DEF Now
    <2>2. /\ st \in [Conn -> {"up", "aborting", "lost"}] /\ mp \in [Conn -> Seq(Entry)]
          /\ tm \in SUBSET Entry /\ cm \in SUBSET Answers
          /\ oc \in [Req -> {"none", "out", "ended", "twice"}] /\ as \in Req \cup {Asleep}
      BY <2>1, NowIs DEF State
    <2>3. PICK st2 \in [Conn -> {"up", "aborting", "lost"}] : st2 = [st EXCEPT ![c] = "lost"]
      BY <2>2
    <2>4. PICK cm2 \in SUBSET Answers : cm2 = {x \in cm : x[1] # c}
      BY <2>2
    <2>5. s = [state |-> st2, map |-> mp, timers |-> tm, coming |-> cm2, outcome |-> oc, asking |-> as]
      BY <1>1, <2>1, <2>3, <2>4
    <2>6. s \in State
      BY ONLY <2>2, <2>5, st2 \in [Conn -> {"up", "aborting", "lost"}], cm2 \in SUBSET Answers DEF State
    <2>7. Now.state = st /\ s.state = st2 /\ s.map = mp /\ s.timers = tm /\ s.outcome = oc /\ s.asking = as
      BY ONLY <2>1, <2>5
    <2>8. mp = map /\ tm = timers /\ oc = outcome /\ as = asking /\ st = state
      BY <2>1, NowIs
    <2>9. \A x \in Conn : x # c => st2[x] = st[x]
      BY <2>2, <2>3
    <2> QED BY <2>6, <2>7, <2>8, <2>9
  <1>4. timers \subseteq Entry
    BY NowIs, StateIs
  <1>5. Alive(kind, s, {}, {c})
    <2>1. \A e \in timers : e.conn \in Conn
      BY <1>4 DEF Entry
    <2>2. kind = "peer" => \A e \in timers : state[e.conn] # "lost"
      BY NowIs DEF Alive
    <2> QED BY <1>3, <2>1, <2>2 DEF Alive
  <1>6. Listed(s) /\ Due(s, {}) /\ InTurn(s) /\ Waits(s)
    BY <1>3, NowIs DEF Listed, Due, InTurn, Waits
  <1>7. Sound(kind, s, {}, {c})
    BY <1>3, <1>5, <1>6 DEF Sound, Core
  <1>8. CASE kind = "peer"
    <2>1. PICK k, t, P : k = kind /\ t = respond_all(s, c, next) /\ P = {}
      OBVIOUS
    <2>2. Sound(k, t, {}, {}) /\ Onward(s.outcome, t.outcome)
      BY <1>7, <2>1, RespondSound
    <2>3. Become(t)
      BY <1>2, <1>8, <2>1
    <2>4. Sound(k, t, P, P) /\ Onward(outcome, t.outcome)
      BY <1>3, <2>1, <2>2
    <2> QED BY <2>1, <2>3, <2>4, Turn
  <1>9. CASE kind # "peer"
    <2>1. PICK k, P : k = kind /\ P = {}
      OBVIOUS
    <2>2. Alive(kind, s, {}, {})
      BY <1>9 DEF Alive
    <2>3. Sound(k, s, P, P)
      BY <1>3, <1>6, <2>1, <2>2 DEF Sound, Core
    <2>4. Become(s) /\ Onward(outcome, s.outcome)
      BY <1>2, <1>3, <1>9 DEF Onward
    <2> QED BY <2>1, <2>3, <2>4, Turn
  <1> QED BY <1>8, <1>9

LEMMA _timeoutKeeps ==
  ASSUME RequestsInv, NEW c \in Conn, _timeout(c)
  PROVE  Keeps
  <1>1. PICK k, P, s, t : k = kind /\ P = {} /\ s = Now /\ t = disconnect(s, c)
    OBVIOUS
  <1>2. Sound(k, s, P, P) /\ s \in State /\ s.outcome = outcome
    BY <1>1, NowIs
  <1>3. /\ t \in State /\ t.map = s.map /\ t.timers = s.timers /\ t.outcome = s.outcome
        /\ t.asking = s.asking
        /\ \A x \in Conn : t.state[x] = "lost" => s.state[x] = "lost"
    BY <1>1, <1>2, DisconnectIs
  <1>4. Sound(k, t, P, P)
    BY <1>2, <1>3, SameSound
  <1>5. Become(t) /\ Onward(outcome, t.outcome)
    BY <1>1, <1>2, <1>3 DEF _timeout, Onward
  <1> QED BY <1>1, <1>4, <1>5, Turn

LEMMA connectionMadeKeeps ==
  ASSUME RequestsInv, NEW c \in Conn, connectionMade(c)
  PROVE  Keeps
  <1>1. PICK k, P, s, t : k = kind /\ P = {} /\ s = Now /\ t = [s EXCEPT !.state[c] = "up"]
    OBVIOUS
  <1>2. Sound(k, s, P, P) /\ s \in State /\ s.outcome = outcome
    BY <1>1, NowIs
  <1>3. /\ t \in State /\ t.map = s.map /\ t.timers = s.timers /\ t.outcome = s.outcome
        /\ t.asking = s.asking
        /\ \A x \in Conn : t.state[x] = "lost" => s.state[x] = "lost"
    <2>1. PICK st, mp, tm, cm, oc, as : s = [state |-> st, map |-> mp, timers |-> tm, coming |-> cm,
                                             outcome |-> oc, asking |-> as]
      BY <1>2 DEF State
    <2>2. /\ st \in [Conn -> {"up", "aborting", "lost"}] /\ mp \in [Conn -> Seq(Entry)]
          /\ tm \in SUBSET Entry /\ cm \in SUBSET Answers
          /\ oc \in [Req -> {"none", "out", "ended", "twice"}] /\ as \in Req \cup {Asleep}
      BY <1>2, <2>1 DEF State
    <2>3. PICK st2 \in [Conn -> {"up", "aborting", "lost"}] : st2 = [st EXCEPT ![c] = "up"]
      BY <2>2
    <2>5. t = [state |-> st2, map |-> mp, timers |-> tm, coming |-> cm, outcome |-> oc, asking |-> as]
      <3>1. t = [s EXCEPT !.state[c] = "up"]
        BY <1>1
      <3> QED BY ONLY <2>1, <2>3, <3>1
    <2>6. t \in State
      BY ONLY <2>2, <2>5, st2 \in [Conn -> {"up", "aborting", "lost"}] DEF State
    <2>7. /\ s.state = st /\ t.state = st2 /\ t.map = s.map /\ t.timers = s.timers /\ t.outcome = s.outcome
          /\ t.asking = s.asking
      BY ONLY <2>1, <2>5
    <2>8. \A x \in Conn : st2[x] = "lost" => st[x] = "lost"
      BY <2>2, <2>3
    <2> QED BY <2>6, <2>7, <2>8
  <1>4. Sound(k, t, P, P)
    BY <1>2, <1>3, SameSound
  <1>5. Become(t) /\ Onward(outcome, t.outcome)
    BY <1>1, <1>2, <1>3 DEF connectionMade, Onward
  <1> QED BY <1>1, <1>4, <1>5, Turn

\* The name of a request that ended is free again.
LEMMA ForgetSound ==
  ASSUME RequestsInv, NEW r \in Req, Forget(r)
  PROVE  RequestsInv' /\ outcome' = [outcome EXCEPT ![r] = "none"] /\ outcome[r] = "ended"
  <1>1. PICK t : t = [Now EXCEPT !.outcome[r] = "none", !.coming = {x \in @ : x[2] # r}]
    OBVIOUS
  <1>2. Become(t) /\ outcome[r] = "ended"
    BY <1>1 DEF Forget
  <1>3. /\ t \in State /\ t.map = map /\ t.timers = timers /\ t.state = state /\ t.asking = asking
        /\ t.outcome = [outcome EXCEPT ![r] = "none"]
        /\ t = [state |-> t.state, map |-> t.map, timers |-> t.timers, coming |-> t.coming,
                outcome |-> t.outcome, asking |-> t.asking]
    <2>1. PICK st, mp, tm, cm, oc, as : Now = [state |-> st, map |-> mp, timers |-> tm, coming |-> cm,
                                               outcome |-> oc, asking |-> as]
      BY DEF Now
    <2>2. /\ st \in [Conn -> {"up", "aborting", "lost"}] /\ mp \in [Conn -> Seq(Entry)]
          /\ tm \in SUBSET Entry /\ cm \in SUBSET Answers
          /\ oc \in [Req -> {"none", "out", "ended", "twice"}] /\ as \in Req \cup {Asleep}
      BY <2>1, NowIs DEF State
    <2>3. PICK oc2 \in [Req -> {"none", "out", "ended", "twice"}] : oc2 = [oc EXCEPT ![r] = "none"]
      BY <2>2
    <2>4. PICK cm2 \in SUBSET Answers : cm2 = {x \in cm : x[2] # r}
      BY <2>2
    <2>5. t = [state |-> st, map |-> mp, timers |-> tm, coming |-> cm2, outcome |-> oc2, asking |-> as]
      BY ONLY <1>1, <2>1, <2>3, <2>4
    <2>6. t \in State
      BY ONLY <2>2, <2>5, oc2 \in [Req -> {"none", "out", "ended", "twice"}], cm2 \in SUBSET Answers DEF State
    <2>7. t.map = mp /\ t.timers = tm /\ t.outcome = oc2 /\ t.asking = as /\ t.coming = cm2 /\ t.state = st
      BY ONLY <2>5
    <2>8. mp = map /\ tm = timers /\ oc = outcome /\ as = asking /\ st = state
      BY <2>1, NowIs
    <2> QED BY <2>3, <2>5, <2>6, <2>7, <2>8
  <1>4. outcome \in [Req -> {"none", "out", "ended", "twice"}] /\ timers \subseteq Entry /\ asking \in Req \cup {Asleep}
    BY NowIs, StateIs
  <1>5. \A x \in Req : t.outcome[x] = IF x = r THEN "none" ELSE outcome[x]
    BY <1>3, <1>4
  <1>6. Listed(t) /\ Alive(kind, t, {}, {})
    BY <1>3, NowIs DEF Listed, Alive
  <1>7. Due(t, {})
    <2>1. \A e \in timers : e.req \in Req /\ outcome[e.req] = "out"
      BY <1>4, NowIs DEF Due, Entry
    <2> QED BY <1>2, <1>3, <1>5, <2>1, NowIs DEF Due
  <1>8. InTurn(t)
    <2>1. \A i \in 1 .. Pings : <<"ping", i>> \in Req
      BY ReqIs
    <2> QED BY <1>5, <2>1, NowIs DEF InTurn
  <1>9. Waits(t)
    BY <1>2, <1>3, <1>4, <1>5, NowIs DEF Waits
  <1>10. /\ state' = t.state /\ map' = t.map /\ timers' = t.timers /\ coming' = t.coming
         /\ outcome' = t.outcome /\ asking' = t.asking /\ kind' = kind
    BY <1>2 DEF Become
  <1>11. Now' = t
    BY <1>3, <1>10 DEF Now
  <1>12. kind' \in Kinds /\ Sound(kind', Now', {}, {})
    BY <1>3, <1>6, <1>7, <1>8, <1>9, <1>10, <1>11, NowIs DEF Sound, Core
  <1> QED BY <1>2, <1>3, <1>10, <1>12 DEF RequestsInv

\* What one turn makes of the requests is a step of the promise.
LEMMA KeepsSteps ==
  ASSUME RequestsInv, Keeps
  PROVE  RequestsInv' /\ Promised!Next
  <1>1. outcome \in [Req -> {"none", "out", "ended", "twice"}] /\ \A r \in Req : outcome[r] # "twice"
    BY NowIs
  <1>2. /\ outcome' \in [Req -> {"none", "out", "ended", "twice"}] /\ \A r \in Req : outcome'[r] # "twice"
        /\ RequestsInv' /\ Onward(outcome, outcome')
    <2>1. Sound(kind', Now', {}, {}) /\ RequestsInv' /\ Onward(outcome, outcome')
      BY DEF Keeps, RequestsInv
    <2>2. Now' \in State /\ Due(Now', {}) /\ Now'.outcome = outcome'
      BY <2>1 DEF Sound, Core, Now
    <2> QED BY <2>1, <2>2, StateIs DEF Due
  <1>3. ASSUME NEW r \in Req PROVE outcome'[r] \in Promised!After(outcome[r])
    <2>1. outcome[r] \in {"none", "out", "ended"} /\ outcome'[r] \in {"none", "out", "ended"}
      BY <1>1, <1>2
    <2>2. /\ outcome[r] = "out" => outcome'[r] \in {"out", "ended"}
          /\ outcome[r] = "ended" => outcome'[r] = "ended"
      BY <1>2 DEF Onward
    <2> QED BY <2>1, <2>2 DEF Promised!After
  <1>4. outcome' = [r \in Req |-> outcome'[r]]
    BY <1>2
  <1> QED BY <1>2, <1>3, <1>4 DEF Promised!Next

\* Every step keeps the invariant and is one the promise allows.
LEMMA RequestsStep ==
  ASSUME RequestsInv, Next
  PROVE  RequestsInv' /\ Promised!Next
  <1>1. ASSUME NEW c \in Conn, Download(c) PROVE RequestsInv' /\ Promised!Next
    BY <1>1, DownloadKeeps, KeepsSteps
  <1>2. ASSUME NEW c \in Conn, Announced(c) PROVE RequestsInv' /\ Promised!Next
    BY <1>2, AnnouncedKeeps, KeepsSteps
  <1>3. ASSUME NEW c \in Conn, Ping(c) PROVE RequestsInv' /\ Promised!Next
    BY <1>3, PingKeeps, KeepsSteps
  <1>4. ASSUME NEW c \in Conn, Notice(c) PROVE RequestsInv' /\ Promised!Next
    BY <1>4, NoticeKeeps, KeepsSteps
  <1>5. ASSUME NEW c \in Conn, NEW hash \in BlockHash, get_block_header(c, hash) PROVE RequestsInv' /\ Promised!Next
    BY <1>5, HeaderKeeps, KeepsSteps
  <1>6. ASSUME NEW next \in Choices, NEW x \in coming, Reply(x[1], x[2], next) PROVE RequestsInv' /\ Promised!Next
    <2>1. x[1] \in Conn
      BY NowIs, StateIs DEF Answers
    <2> QED BY <1>6, <2>1, ReplyKeeps, KeepsSteps
  <1>7. ASSUME NEW next \in Choices, NEW e \in timers, timeout(e, next) PROVE RequestsInv' /\ Promised!Next
    BY <1>7, timeoutKeeps, KeepsSteps
  <1>8. ASSUME NEW next \in Choices, NEW c \in Conn, connectionLost(c, next) PROVE RequestsInv' /\ Promised!Next
    BY <1>8, connectionLostKeeps, KeepsSteps
  <1>9. ASSUME NEW c \in Conn, _timeout(c) PROVE RequestsInv' /\ Promised!Next
    BY <1>9, _timeoutKeeps, KeepsSteps
  <1>10. ASSUME NEW c \in Conn, connectionMade(c) PROVE RequestsInv' /\ Promised!Next
    BY <1>10, connectionMadeKeeps, KeepsSteps
  <1>11. ASSUME NEW r \in Req, Forget(r) PROVE RequestsInv' /\ Promised!Next
    <2>1. RequestsInv' /\ outcome' = [outcome EXCEPT ![r] = "none"] /\ outcome[r] = "ended"
      BY <1>11, ForgetSound
    <2>2. outcome \in [Req -> {"none", "out", "ended", "twice"}] /\ \A x \in Req : outcome[x] # "twice"
      BY NowIs
    <2>3. ASSUME NEW x \in Req PROVE outcome'[x] \in Promised!After(outcome[x])
      <3>1. outcome[x] \in {"none", "out", "ended"}
        BY <2>2
      <3>2. outcome'[x] = IF x = r THEN "none" ELSE outcome[x]
        BY <2>1, <2>2
      <3> QED BY <2>1, <3>1, <3>2 DEF Promised!After
    <2>4. outcome' = [x \in Req |-> outcome'[x]]
      BY <2>1, <2>2
    <2> QED BY <2>1, <2>3, <2>4 DEF Promised!Next
  <1> QED BY <1>1, <1>2, <1>3, <1>4, <1>5, <1>6, <1>7, <1>8, <1>9, <1>10, <1>11 DEF Next

LEMMA RequestsStart ==
  ASSUME Init
  PROVE  RequestsInv /\ Promised!Init
  <1>1. Now.state = state /\ Now.map = map /\ Now.timers = {} /\ Now.coming = {} /\ Now.outcome = outcome
    BY DEF Now, Init
  <1>2. \A c \in Conn : map[c] = <<>> /\ DOMAIN map[c] = {}
    BY DEF Init
  <1>3. \A r \in Req : outcome[r] = "none"
    BY DEF Init
  <1>4. Now \in State
    <2>1. map \in [Conn -> Seq(Entry)]
      BY DEF Init
    <2>2. state \in [Conn -> {"up", "aborting", "lost"}] /\ outcome \in [Req -> {"none", "out", "ended", "twice"}]
      BY DEF Init
    <2>3. asking \in Req \cup {Asleep} /\ timers \in SUBSET Entry /\ coming \in SUBSET Answers
      BY DEF Init
    <2> QED BY <2>1, <2>2, <2>3 DEF Now, State
  <1>5. Listed(Now) /\ Due(Now, {}) /\ Alive(kind, Now, {}, {})
    BY <1>1, <1>2, <1>3 DEF Listed, Due, Alive
  <1>6. InTurn(Now)
    BY <1>1, <1>3, ReqIs DEF InTurn
  <1>7. Waits(Now)
    BY DEF Waits, Now, Init
  <1>8. RequestsInv
    BY <1>4, <1>5, <1>6, <1>7 DEF Init, RequestsInv, Sound, Core
  <1> QED BY <1>8 DEF Init, Promised!Init

LEMMA RequestsTyped ==
  ASSUME RequestsInv
  PROVE  RequestsTypeOK
  <1>1. /\ Now \in State /\ Listed(Now) /\ Due(Now, {}) /\ Alive(kind, Now, {}, {}) /\ Waits(Now) /\ kind \in Kinds
        /\ Now.state = state /\ Now.map = map /\ Now.timers = timers /\ Now.coming = coming
        /\ Now.outcome = outcome /\ Now.asking = asking
    BY NowIs
  <1>2. state \in [Conn -> {"up", "aborting", "lost"}] /\ map \in [Conn -> Seq(Entry)] /\ timers \subseteq Entry
    BY <1>1, StateIs
  <1>3. \A c \in Conn : map[c] \in Seq(Entry) /\ Range(map[c]) = {map[c][i] : i \in DOMAIN map[c]}
    BY <1>2 DEF Range
  <1>4. UNION {Range(map[c]) : c \in Conn} = timers
    <2>1. ASSUME NEW c \in Conn, NEW e \in Range(map[c]) PROVE e \in timers
      <3>1. PICK i \in DOMAIN map[c] : map[c][i] = e
        BY <1>3
      <3> QED BY <1>1, <3>1 DEF Listed
    <2>2. ASSUME NEW e \in timers PROVE \E c \in Conn : e \in Range(map[c])
      <3>1. e.conn \in Conn
        BY <1>2 DEF Entry
      <3>2. PICK i \in DOMAIN map[e.conn] : map[e.conn][i] = e
        BY <1>1 DEF Listed
      <3> QED BY <1>3, <3>1, <3>2
    <2> QED BY <2>1, <2>2
  <1>5. ASSUME NEW c \in Conn
        PROVE  /\ Seqs!IsInjective(map[c])
               /\ \A e \in Range(map[c]) : e.conn = c /\ e.id \in Req \cup BlockHash
    <2>1. \A i, j \in DOMAIN map[c] : map[c][i] = map[c][j] => i = j
      BY <1>1 DEF Listed
    <2>2. Seqs!IsInjective(map[c])
      BY <2>1 DEF Seqs!IsInjective
    <2>3. ASSUME NEW e \in Range(map[c]) PROVE e.conn = c /\ e.id \in Req \cup BlockHash
      BY <1>1, <1>2, <1>3 DEF Listed, Entry, Ids
    <2> QED BY <2>2, <2>3
  <1>6. {e.req : e \in timers} = {r \in Req : outcome[r] = "out"}
    <2>1. \A e \in timers : e.req \in Req
      BY <1>2 DEF Entry
    <2> QED BY <1>1, <2>1 DEF Due
  <1>7. kind = "peer" => \A e \in timers : state[e.conn] # "lost"
    BY <1>1 DEF Alive
  <1>8. asking # Asleep => asking \in {e.req : e \in timers}
    <2>1. asking \in Req \cup {Asleep}
      BY <1>1, StateIs
    <2> QED BY <1>1, <1>6, <2>1 DEF Waits
  <1> QED BY <1>1, <1>2, <1>4, <1>5, <1>6, <1>7, <1>8 DEF RequestsTypeOK

LEMMA RequestsAlways == Spec => [](RequestsInv) /\ Promised!Init /\ [][Promised!Next]_outcome
  <1>1. Init => RequestsInv /\ Promised!Init
    BY RequestsStart
  <1>2. RequestsInv /\ [Next]_requestsVars => RequestsInv' /\ [Promised!Next]_outcome
    <2>1. ASSUME RequestsInv, UNCHANGED requestsVars PROVE RequestsInv' /\ UNCHANGED outcome
      BY <2>1 DEF requestsVars, RequestsInv, Now
    <2> QED BY <2>1, RequestsStep
  <1> QED BY <1>1, <1>2, PTL DEF Spec

\* The types, and what is tied together between turns, whatever answers, timers and losses race:
\* every request that is out has one entry in a map and one timer that runs, nothing else has
\* any, no peer that is gone is waited for, and download_shares waits for a request that is out.
THEOREM RequestsTypeCorrect == Spec => []RequestsTypeOK
  BY RequestsAlways, RequestsTyped, PTL

\* The requests refine Promise, but for its fairness: no request ends twice, none is lost sight
\* of before its end, and only the name of one that ended is used anew.
THEOREM RequestsKeepTheirPromise == Spec => Promised!Init /\ [][Promised!Next]_outcome
  BY RequestsAlways, PTL
=============================================================================
