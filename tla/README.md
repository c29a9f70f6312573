# A TLA+ model of Defcoin P2Pool

P2Pool is a decentralised mining pool. Its miners build a chain of *shares*, headers that meet an
easier target than a block of the coin does, and every share's coinbase pays those who found the
shares before it. Each node keeps that sharechain with its peers, decides which share to build on,
stores the chain on disk, and hands work to the miners connected to it.

The source is Python on Twisted (`src/backend/p2pool`). Everything runs in **one thread**: a handler
runs to its end before another starts, so the unit of atomicity is one turn of the reactor. What can
come in between is everything that happens at a `yield` of an `inlineCallbacks` function, between
two timer calls, between two chunks of TCP data, and, for what is on disk, a crash between any two
calls of the operating system. The modules follow that rule: a handler is one action, a function
that yields is one action for each stretch between yields, and the store, which is all about
crashes, is cut at every line written.

## Running it

    tlc -workers 2 -config ShareChain.cfg MCShareChain
    tlapm ShareChainProofs.tla

`PROJECT.json` lists the runs, the lines each definition stands for, for each property a mutation
of the model that it catches, the hazards of the code, and what was found.

## 1. Inventory

Paths are below `src/backend/p2pool`.

| Component | Source | State | Operations | Modelled by |
|---|---|---|---|---|
| Tracker | `util/forest.py` | `items`, `reverse`, `heads`, `tails` | `add`, `remove`, the walks | `Tracker`, `Forest` |
| TrackerView | `util/forest.py` | the memo: `_deltas`, `_reverse_deltas`, `_delta_refs`, `_reverse_delta_refs` | `get_height`, `get_work`, `get_last`; three removal events | `TrackerView` |
| OkayTracker | `data.py` | the tracker of all shares, the `verified` one, each share's `naughty` | `attempt_verify`, `think`, `score` | `ShareChain`; what `check` computes: `Payouts` |
| Node | `node.py` | `best_share_var`, `desired_var`, `mining_txs_var` | `handle_shares`, `set_best_share`, `clean_tracker` | `ShareChain`; `set_best_share` again in `Work` |
| P2PNode | `node.py` | the loop of `download_shares` | `handle_share_hashes`, `handle_get_shares`, `handle_bestblock`, `broadcast_share` | `ShareChain`, `Requests`, `ParentChain`, each in part |
| ShareStore | `data.py`, `main.py` | the files; `known`, `known_desired` | save, forget, read at start | `ShareStore` |
| Connections | `p2p.py`, `util/p2protocol.py` | `Node.peers`, `bans`; `conns` and `attempts` of the factories; each `Protocol` | dial, accept, version handshake, disconnect, ban, timeouts | `Peers`; their requests: `Requests` |
| Transaction relay | `p2p.py` | `remote_tx_hashes`, `remembered_txs` and their sizes | `have_tx`, `losing_tx`, `remember_tx`, `forget_tx` | not modelled (section 6) |
| Work interface | `bitcoin/worker_interface.py` | handlers, stale handlers, quotas, views, polls | `_getwork`, long polls, `new_work_event` | `GetWork` |
| CachingWorkerBridge | `bitcoin/worker_interface.py` | `_cache`, `_times` | `get_work` | `GetWork` |
| ExpiringDict | `util/expiring_dict.py` | the dictionary and its order | set, get, delete, expire, evict | `ExpiringDict` |
| WorkerBridge | `work.py` | own shares, dead shares, what was removed of them; `new_work_event` | `compute_work`, `get_work`, `got_response`, `get_stale_counts` | `Work`, `Payouts` |
| Stratum | `bitcoin/stratum.py` | sessions, jobs, difficulty | setup calls, `_send_work`, `rpc_submit` | `Work`; its calls to miners: `Requests` |
| Payouts | `data.py` | none: sums over a window of shares | `generate_transaction`, `check`, `get_expected_payouts` | `Payouts` |
| Skip list | `util/skiplist.py` | `skips` | `__call__`, `forget_item` | `SkipList`, `Payouts` |
| Deferred utilities | `util/deferral.py`, `util/variable.py` | outstanding requests, awaited values, watchers | `GenericDeferrer`, `ReplyMatcher`; `DeferredCacher`, `Event`, `Variable` | `Requests` and `Promise` for the first two |
| Parent-chain headers | `node.py`, `work.py` | `bitcoind_work`, `best_block_header`, `current_work` | `work_poller`, `handle_header`, `poll_header`, `compute_work` | `ParentChain`, `Work` |
| Coin daemon RPC | `bitcoin/helper.py`, `bitcoin/p2p.py` | none that is kept | `getwork`, `submit_block` | not modelled: calls of an external service |
| Encodings | `bitcoin/data.py`, `util/pack.py`, addresses, `sha256` | none | pack, unpack | only `FloatingInteger`'s rounding, in `Payouts` |
| Web, graphs, logging | `web.py`, `util/graph.py` | histories for display | reports | only the pings it sends to peers, in `Requests` |
| Libraries, frontend | `SOAPpy`, `wstools`, `nattraverso`, `frontend` | | | not modelled: third-party and presentation |

### How they interact

* A `Protocol` hands announced shares to `P2PNode.handle_shares`, which adds them to the tracker and
  calls `Node.set_best_share`, which calls `think()`. `think()` changes the tracker (verifies shares,
  removes bad ones) and returns the best share, what is desired and what is bad.
* `set_best_share` sets `best_share_var` and `desired_var`. `download_shares` waits for the second, and
  sends `get_shares` to a peer, through the `GenericDeferrer` of its `Protocol`; `WorkerBridge` watches
  the first and fires `new_work_event`.
* The daemon's work and the best block header, from peers, the daemon and polls, are made into
  `current_work` by `compute_work`; a change of it that matters fires `new_work_event` too.
* A looping call runs `clean_tracker` every five seconds; it calls `think()` and removes stale heads
  and old tails. The tracker's `removed` events reach `ShareStore.forget_share` and
  `forget_verified_share`, `WorkerBridge`'s counts of removed shares, and the skip list's `forget_item`.
  Another looping call saves the best chain once a minute.
* `new_work_event` wakes every long poll and every Stratum session; both take work from the
  `CachingWorkerBridge`, which asks `WorkerBridge.get_work` for new work when its cache has none.
* `get_work` makes the share a job commits to (`generate_transaction`, over the skip list's sums), and
  `got_response` puts the share found into the tracker and has it chosen and broadcast.

### What is hard, and what makes each part correct

* **Tracker.** Shares arrive in any order, so the forest is patched at both ends and in the middle:
  heads join tails, roots go from under several heads. The memo stores sums relative to shared
  references that move when a root goes. Correct: dictionaries equal to what the present shares
  define; every memoized answer equal to the walk; no share leaves from the middle of a chain.
* **OkayTracker and Node.** The boundary conditions of verification ("XXX review boundary
  conditions"), the marks of naughty parents that depend on the order of verification, exceptions
  halfway through `think()`, an answer computed for a tracker that has changed since. Correct: no
  assertion fails, the share built on is there and not naughty, what is missing is being asked for,
  and asking ends.
* **ShareStore.** A crash at any point, a line half written, several files removed in turn. Correct:
  what was saved and not given up can be read back; files no longer wanted go.
* **Connections.** Two peers dial each other at once; chunks hold several messages and the parser
  does not stop at a disconnect; attempts end in three ways. Correct: the tables and counters equal
  the live connections; both ends agree; only misbehaviour is punished.
* **Work interface.** One piece of work for many miners through a bounded cache, nonces and
  timestamps; handlers that expire, move and are evicted beside the quotas that count them; polls
  that end in four ways. Correct: no header twice, no old work, exact quotas and counts.
* **Bridge and Stratum.** Two sources of events, jobs that outlive them, headers returned twice and
  late, difficulty that changes under a job that is out, own shares that leave the tracker. Correct: a
  job counted as on time is current, every session gets the latest; stale shares are counted exactly
  whatever was pruned; a header is one share.
* **Parent chain.** Headers and answers come in any order, some from long ago. Correct: the node settles
  on the daemon's block or a child of it.
* **Payouts and skip list.** The same sum is taken by nodes that hold more or less of the chain, through
  jumps filled in by other walks, before and after a vote on versions; amounts are rounded. Correct:
  every answer is the plain sum; a share made here passes everywhere; all is paid out, no more.
* **Deferreds.** Answer, refusal, timer and loss of the connection race for each request, and who is
  woken may ask again at once. Correct: a request ends, and once; the loop that fetches shares goes on.

## 2. The modules

| Module | What it is |
|---|---|
| `ForestShape` | What a set of shares is: chains, lasts, heads, tails as definitions. |
| `Forest` | The abstract tracker: a set of shares to which one is added, or taken from an end. It is the `DumbTracker` of `test/util/test_forest.py`. |
| `Tracker` | `Tracker.add` and `Tracker.remove`, case by case, with the patched dictionaries. Refines `Forest` (`Abstract == INSTANCE Forest WITH ...`). |
| `TrackerView` | `Tracker` with the memo in place of the walks. Refines `Tracker`. |
| `ForestLemmas`, `TrackerProofs` | Walks in a forest; proofs about `Tracker` and `TrackerView`. |
| `ShareChainProofs` | Proofs about `ShareChain`. |
| `FoldLemmas` | What proofs need to know of folds, of sums over finite sets, and of walks over shares in the order they were made. |
| `ShareChain` | `OkayTracker`, `Node` and the downloading of shares, over `ForestShape`. |
| `Chain` | The tracker as chains of shares, where memo and events do not matter. Shared by `Payouts` and `Work`. |
| `SkipList` | The skip list and the sums it takes, as operators. |
| `Payouts` | Shares made and checked, versions, targets, payouts, over `Chain` and `SkipList`. |
| `PayoutsProofs` | Proofs about `SkipList` and `Payouts`. |
| `ParentChain` | What a node knows of the coin's own chain. |
| `Work` | The bridge and its Stratum miners, over `Chain` and `ParentChain`, which it implements. |
| `Promise` | What deferreds promise: a request ends, and once. |
| `Requests` | Requests over connections of three kinds, and those who ask. Refines `Promise`. |
| `WorkRequestsProofs` | Proofs about `ParentChain`; that `Work` implements it; proofs about `Work` and `Requests`. |
| `ShareStore` | The store, its files, and the start of `main`. |
| `Peers` | All the peers of a network, with both ends of every connection. |
| `PeersStoreProofs` | Proofs about `Peers` and `ShareStore`. |
| `ExpiringDict` | The dictionary the work interface is built of, as operators. |
| `GetWork` | The work interface in front of the bridge. |
| `GetWorkProofs` | Proofs about `GetWork`. |
| `MC...` | Small instances for TLC. |

### Tracker, TrackerView

A share's hash commits to the hash it names as its parent, so there are no cycles: hashes are numbers and a share's parent is a smaller
number or `None` = 0. `previous_hash` is chosen at the start among all such functions. `Add(h)` is
`Attach` over the tail `get_last` finds; `Remove(h)` has the four branches of `remove` (a lone share,
a head, a single root of its tail, one of several roots) and no action for the rest, where the code
raises `NotImplementedError`.

`TrackerView` adds `view`, the four dictionaries of the default view. `Query(x)` is `get_delta_to_last`
with the path compression it does; `ViewAdd` and the three `ViewRemove...` do what `add` and `remove` do,
including the queries they make on the way and the events `remove_special`, `remove_special2` and
`removed`. A fresh object that serves as a reference is the least number not in use; the references are
compared for identity alone.

### ShareChain

`think(I, V, N)` is the whole of `OkayTracker.think`, as a set of results: it is run over the unverified
heads (`VerifyHead`), the bad shares (`RemoveBad`), the verified heads (`ExtendHead`), then the choice of a
tail (`best_tail`), a head (`TopHeads`) and the jump away from a punished share (`Jump`), and the
cut-off of desired shares (`Recent`). Wherever Python iterates over a set or a dictionary every order is
taken; wherever `sorted` meets equal keys told apart only by `time_seen`, either is. An exception leaves the
working state as it was at that point, which `Become` turns into the new state of the node: the trackers
changed, `best` and `desired` not. `Clean` is `clean_tracker`, with `think` before and after;
which heads have been there for five minutes (`node.py:429-434`) is any set in the code, here all shares but one, or none.

What is abstracted: whether `check()` accepts a share is fixed for each share, and so is what it finds
of excessive reward and block limits; the score of a tail takes the parent chain to move at one pace;
`best_descendent`'s limit of 20 is above every height here; the addresses in `desired` and
`bad_peer_addresses` (which name a peer to ask and to punish) and the `punish_aggressively` option are left
out. A node that starts with shares from disk is in a state that hearing them reaches, so `Init` is empty.

### ShareStore

`disk` holds for each file the lines that can be read, whether the last line lacks its newline, and how many lines there are;
`known` and `known_desired` are the two dictionaries. `save_shares` sets the list
of lines to save, and each `Save` is one `add_share` or `add_verified_hash`. `SaveFails` is a write that stops halfway
and raises (the disk is full), `Crash` may come anywhere, in the middle of a write or of the removal of
several files: the process stops, and what it has written is there. (Nothing calls `fsync`, so when the machine
itself loses power, more of what was last written may be lost; that is left out.) `Restart` is `ShareStore.__init__` and the start of `main`. `saved` and `tears`
are history, read by no action but for the bound on `tears`.

### Peers

A connection has two ends, `<<l, "out">>` and `<<l, "in">>`, each with its `Protocol`. `dataReceived`
handles one chunk: any number of the messages on the wire, message by message, with what each does to the
state and with the parser that goes on after `disconnect` and stops at an exception. `Ping` stands for
every message in order, `Wrong` for one its handler takes for misbehaviour. `rude` is chosen among `Rudes` at the
start; a rude peer says anything of `Chunks` at any time.

Abstracted: how long a ban lasts and its score (a ban is there until `Expire`), the exemption of
localhost, the address store (a peer may dial any other), the measuring of pings. `_think` of the client factory
dials one address a call, `Reconnect` is the `SingleClientFactory` of `connect_addrs`.

### GetWork

Each dictionary of `WorkerInterface` is an `ExpiringDict`: a sequence of entries, the first to expire
first, each with the units it has left. `Tick` is one unit of time. The code looks for expired entries
once a second and before reads; here an entry goes when its time is up. `given` is history: what was
handed to whom, with the timestamps it covers and the time there is to work on it, and `again` is whether two
handouts overlapped. `Request` is a getwork, `LongPoll` the first half of a long poll, and
`PollTimesOut`, `PollDropped` and `NewWork` its second halves. `Submit` is returned work that meets the
share target, `StratumWork` a Stratum session that takes work from the same bridge.

Abstracted: one identity for each client, used for quotas and for long polls; the content of work.

### Payouts, over Chain and SkipList

`Mine(previous, m)` is the path from `get_work` to `got_response` as far as the share's content goes:
`share_type` (the vote, 95%), `ClaimedSubsidy` (transactions that do not fit are taken out, some of
unknown fee), `Generated` (`generate_transaction`: target, timestamp, far share, references to transactions, amounts). `check(h, now)`
asks for the time of the share by the checker's clock and for its version by the vote of 60% (`Admitted`), finds the transactions the share refers to
(`RefsResolve`), makes the share again from what it says and compares (`Remade`). `Verify`, `get_expected_payouts`
and `Mine` all walk the skip list and leave the jumps they filled in; `DropTails` and `DropHead` take
shares out and make it forget them. One tracker that grows and is pruned stands for all nodes, of
which one has more of the chain and another less: what a share is made with and what it is checked with
are states of it at different times. Their clocks differ by `Skews`. `made` is history, read by the property and by `Verify`: what the
maker's clock said of each share, and whom it meant to pay.

A new chain begins with version 17 (`work.py:347`), goes to 35 and then to 36 by vote (`SUCCESSOR`), or to 36 by flag day. Version 17 has rules of its own: timestamps
are clipped from both sides (`Timestamp`), a share lists the transactions that none of the 100 shares before it lists (`Back`, `Refs`), and of the
address that is paid it keeps the hash alone, which reads as a public key's whatever it was (`legacy_address`).

`Turn` is one turn of the loop of `SkipList.__call__`: a share met for the first time gets its jump to its parent,
jumps that end there are filled in, jumps that start there begin to wait, and the longest jump that
does not go too far is taken. Levels, which the code draws at random, are chosen at the start.

Abstracted: a chain that began with versions 32 to 34 under older releases; a place in a share's list of transactions is told by the
transaction; the cut at 4000 payees, the block's size, the hash link, the encoding of the coinbase; a share that was removed is not
added again, so its level is drawn once, and the assertion of `skiplist.py:29-30` is not evaluated (`WindowExact` fails if jumps get out of step); a share's target is a number
below `Space` and is rounded by `Rounded`, which does to `Digits` digits of base `Base` what
`FloatingInteger` does to three bytes, sign bit included.

### ParentChain

`GotWork` is an answer of the daemon and the poll for a header that follows, `PeerHeader` a header told of by
a peer or the daemon's own connection, `PollAnswered` the late answer to any poll still out. `PowMeets` says
of which blocks the hash is below the target of work on which: at a retarget it may not be, and
`node.py:260` then drops the header. Blocks form any tree of growing height; the daemon never
goes back to a lower one.

### Work

A job is what `get_work` fixes (previous share, parent block, transactions or not, the count of events,
what it announces of stale shares, the target of its share) and the headers received for it. The target of a job's share goes with rates and
payouts and with what the miner's name asks for (`work.py:373-392`, `data.py:208-214`), so `SendWork` takes any of `bound.targets`. A session goes by one target,
which is raised to that of the job just sent (`NextTarget`) or just answered (`Answered`), never to that of an older job a miner may still return. `rpc_submit` is one call of
`got_response`: `AsShare` with `Found`, `Raised` or `Taken`, or `AsPseudoshare`, then the record of received headers
and the adjustment of difficulty. `CountRemoved` is the watcher of `tracker.verified.removed`, and
`get_stale_counts`, `stale_info` read what it keeps. Every way to change `best_share` or `current_work`
goes through `Happened`, which queues a send for every session, as the event's watchers do.
A session keeps its jobs in an `ExpiringDict` that a lookup touches (`Touched`): a job that is asked for again and again outlives
any number of changes of work. That is what the condition of `StaleExact` is about. A job made before the node had any share has no parent;
a miner that returned a header of it at least every 300 seconds, until the shares found since were so many that the first was removed,
would then begin a second chain with it, whose shares the counts take for ones that build on what was removed. TLC finds that with four shares.
Such a share is dead on arrival, so the property is stated for nodes none of whose dead shares began a chain.

A header below its job's share target and above its session's is not recorded as received, so it may be taken again. `shares_received`, `unrecorded` and `raised` are history: the
shares told of in turn, those taken in that way, and those `tracker.add` refused. `unseen` is what such a share does to the counts: returned late it becomes
a dead one, but the sums `tracker_view` has of it already count it alive; `StaleExact` therefore speaks of nodes where no header was taken again.

Assumed, and in the code's comments or its other parts: no fork is longer than what the tracker keeps, and the best
share is among the heads `clean_tracker` keeps; peers and miners build on shares that can be verified. Which head is the
best is left open: any that can be verified. Abstracted: a header is a job and a small number for its
hash; merged mining, addresses, rates and their statistics, work reissued when punishment begins. `SendFails` is
`get_work` raising because the node has no peers or no share.

### Requests, with Promise

`kind` is the kind of the connections: a peer's `get_shares` (a `GenericDeferrer` whose timeout ends the connection and whose
loss ends what is out), the Stratum server's calls to a miner (neither, so every request ends by its
timer, most miners never answering), the daemon's `get_block_header` (a `ReplyMatcher`, with several waiting for one hash).
`Fire` is a deferred that fires, with what its waiter does in the same turn: `download_shares` goes
on to another peer (`Round`), `get_peer_ping` asks the same one again (`PingAgain`), a share announced and not given is blamed
on the peer. `respond_all` ends the last entry over and over until none is left, those that its own ends add included.

Left out: time (a timer may fire at any moment), the drawing of ids (never twice the same), `stop()`.

## 3. The runs

| Run | Bounds | Shows |
|---|---|---|
| `tracker_view` | 4 hashes, every forest over them | `TypeOK`, `TablesAgree`: the patched dictionaries are the computed ones. `RefsConsistent`, `CacheExact`: every cached sum is that of its path, after any sequence of additions, removals and queries. `RefinesTracker`: the memoized tracker does what the one with walks does; `RefinesForest`: and that is what `DumbTracker` does. |
| `sharechain` | 5 shares, each built on one of the two before it; 8 choices of flawed shares; batches of 2; `CHAIN_LENGTH` 2 | `ChainTypeOK` (what is verified is in the tracker and not bad), `NoAssertion`, `BestPresent`, `NeverOnNaughty`, `NoStall`. |
| `sharechain_sync` | the same forests, no flaws, `CHAIN_LENGTH` 1, no head dropped, fair answers | `SyncCompletes`: asking ends. |
| `sharestore` | 2 shares, 3 lines a file, 4 file names, 2 torn writes | `StoreTypeOK`, `SavedSurvives`, `LossBounded`, `KnownIsStored`, `DesiredIsTracked`. |
| `peers` | 2 peers that dial each other through both kinds of factory, both honest or one rude, 2 connections, 2 messages on each wire, `max_conns` 2 and 1 | `PeersTypeOK`, `PeersExact`, `CountsExact`, `NoRaise`; `Mutual` between honest ones. |
| `getwork` | 3 clients, two of them of one IPv6 site, limits of 1 and 2, 2 pieces of work, one change of work | `GetWorkTypeOK` (the count of polls is that of the clients polling), `NeverTwice`, `CurrentWork`, `QuotasExact`, `PollsPrompt`, `HandlersKept`. |
| `payouts` | 6 shares, one of them a fork, two makers, one with the address of a script, `CHAIN_LENGTH` 3, pruning above 5, four clocks; 198 thousand states | `WindowExact`, `OwnSharesPass`, `PaidInFull`. |
| `work` | 4 blocks in a fork, 3 shares and 3 jobs or 4 shares and a job, a session, by five combinations of bounds; 3.1 million states | `WorkTypeOK`, `HeaderSettles`, `JobsCurrent`, `StaleExact`, `TakenAgain`. |
| `requests` | 2 connections of each kind, 2 requests of a sort, 3 pings; 112 thousand states | `RequestsTypeOK`; `KeepsPromise`: `Requests` implements `Promise`, its fairness included; `LoopGoesOn`. |
| `sharechain_order`, `peers_ban`, `work_twice` | as the runs above; honest peers alone; a user who fixes a target below the shares' | each finds the disagreement of section 4. |

Why these bounds are enough for the cases meant:

* `tracker_view`: a root with several heads over it, two roots over one tail, and a share that joins two
  trees need three or four shares. The proofs of section 5 drop the bound for everything but the memo.
* `sharechain`: `CHAIN_LENGTH` 2 and 5 shares let a chain be too short, just long enough and one too
  long to be judged, and a fork stand on each; `clean_tracker` drops tails from a height of 4 on. `Few` (the 5
  of the code) is 2 and `Generations` (6) is 2, so that both limits are reached. Batches of two give shares
  in one message that arrive parent first or child first.
* `sharestore`: 2 shares make 4 lines; files of 3 lines fill up, so saving and forgetting go over several
  files. Two tears are needed for a torn line behind a torn line.
* `peers`: two connections are enough for two peers to be doubly connected, and for one to end while
  the other is set up. With `SameIdent` 1 the limit per network is reached, and bob's `max_conns` 1 is.
* `getwork`: with lives of 1 and 2 units, and entries put in at different times, every dictionary
  loses entries while others still hold what belongs to them; with limits of 1 and 2 each is full. The two clients of the same site are interchangeable and are
  declared symmetric; the properties of that run are all safety.
* `payouts`: chains of 6 with `CHAIN_LENGTH` 3 are voted on, pruned and forked, and reach version 36; transactions are referred to one share back and two; one maker's
  clock is behind the share before, the other ahead of it; a checker's clock is ahead, as far behind as the limit, or further. The vote window is of 2 shares, which agree
  or not, with attempts that differ widely, so that a vote is won, lost, and moves on; no vote falls between 60% and 95%. `Spread` is 80 units of weight, so that the window ends by weight in the middle of a
  share on hard chains and by count on easy ones. Levels of 1 and 2 let jumps go over one share and
  over several. Targets of two digits of base 4 below 1024 are rounded, and the digit that reads as a sign occurs.
* `work`: `Bounds` are five combinations of which a behaviour goes by one: two jobs whose shares have different targets, an older and easier one among them; three shares, jobs and events
  with a still parent chain (the tracker keeps 3, so own shares are pruned and counted, on the chain and off it); four shares and four events
  with one job, which a miner returns when the chain it began with has gone; the whole tree of blocks
  with a job and no share; one block with one of each. Beside a chain of two there is a fork, and the target falls
  with it (`c1`). Hashes 1 and 2 are a share and a pseudoshare only where the share's target is 1, and both shares where it is 2.
* `requests`: with two connections the loop goes from one to the other, and one can be lost while it asks the
  other; two requests wait for one hash of the daemon; the third ping is made while the connection is being lost.

`CHECK_DEADLOCK FALSE` stands where the system may stop: a store that has used up its file names, a bound of shares, jobs or
events in `work` and `payouts`, and a network whose peers have nothing to say.

### Fairness

`sharechain_sync` and `requests` need it.

* `SyncFairness` says that the loop of `download_shares` goes on (`WF` of `Ask`; nothing but an exception ends the loop, and
  in this run none is raised) and that, if requests are sent for ever, again and again one is answered in full: each
  goes to a peer picked at random, with a timeout, so this holds when some peer has the shares. Nothing is assumed of
  peers announcing shares, or of the order of anything. `SyncNext` leaves out the dropping of old heads: a head dropped
  and announced again for ever is never done with.
* `Fairness` of `Requests` says that the reactor fires every timer that is not cancelled and tells of every connection
  that was aborted. It is stated as "again and again there is no timer of this request", which is weak
  fairness of `timeout(e, ...)`, as nothing disables that but the end of the request; it says nothing of which
  peer is asked next. `WF` of `Download` is the second the loop sleeps; `WF` of `Forget` only frees names for use again, a
  device of the bound. Nothing is assumed of answers. `LoopGoesOn` assumes in its own text that from some time on there is always a peer.

## 4. What was found

Three places where the code does something else than it, or its documents, say; each has a run that
finds it and is described in `PROJECT.json` under `findings`.

1. `data.py:867`: `think()` sorts pairs of a score and a tail hash. Two tails of equal score, one of them
   `None`, have no order in Python 3: a `TypeError`, which from `download_shares` ends its loop.
   `sharechain_order`.
2. `p2p.py:135`: a disconnect leaves the parser running, so an honest peer's duplicate connection may end
   in a ban. `peers_ban`.
3. `work.py:554`: a returned header is recorded only where it meets the pseudoshare target, and the share branch asks that
   record alone. A user who fixes a target below the shares' (`stratum.py:123-126`) makes shares that are not
   recorded: returned again they are taken again, and `tracker.add` raises or the share is counted twice and marked dead.
   `work_twice`. It also happens without a fixed target, when a job is answered whose share's target is above the session's by now: sent before a harder one, or
   before the target was lowered on another's answer. `HeadersTakenAgain` proves that a header above its session's target is the only one.

Seen while modelling, where no document of the repository says what should be:

* `data.py:298`, `475-491`: shares below version 34 keep of an address its hash, and `check` remakes the coinbase for the public key of that
  hash. A miner with the address of a script (P2SH) or a witness program in a new chain, of version 17, makes shares that fail their own check; `OwnSharesPass` has the
  exception in its text.
* `data.py:362` and `545`: a share on one dated 600 seconds ahead of the clock is dated a second later and refused, by its own node too.
* `data.py:546`: the message of that refusal takes a number from a string and is a `TypeError`; the share is refused all the same.
* `data.py:836`: a share may be listed twice among the bad ones, by two heads over it; the second removal is a `KeyError` in the middle of `think()`, which
  leaves the handler with the trackers half purged. The runs go on from there.
* `data.py:909`: below share version 34, the jump away from a punished share ends at its parent and then climbs through every
  child that is not naughty, so back to a share punished for its size.
* `data.py:1108`: a line appended behind one that lacks its newline cannot be read, though the store
  has recorded it as saved. `LossBounded` says how much that can cost.
* `worker_interface.py:293`: cached work is handed out again with a new time to work on it, while the handler keeps
  its first 300 seconds.
* `p2p.py:873`: a penalty sets the ban anew, so a ban of an hour becomes one of 30 seconds times the square of the
  score when the request lost with the connection is blamed on the host a second time; and `forgive_transgressions` takes the score below zero,
  so that the next penalty may be a ban of no length.
* `node.py:145`: the bare `except` of `download_shares` takes the mere loss of a connection for misbehaviour of the peer.
* `node.py:260`: where the target falls with the next block, the header of the daemon's own block may be dropped; `HeaderSettles`
  has the exception in its text.

## 5. What is proved

TLAPS proves these for every value of the constants.

**The tracker** (`TrackerProofs`, on `ForestLemmas`), assuming only that hashes are positive
numbers (`HashAssumption`), for any set of them, finite or not:

* `TypeCorrect`, `TablesCorrect`: `Spec => []TypeOK` and `Spec => []TablesAgree`.
* `Refinement`: `Spec => RefinesForest`.

The inductive invariant `IInv` is `TablesAgree`, the finiteness of `items`, and that each parent is an earlier
number. Finiteness is needed because the code drops a tail when no head is left over it, and only in a finite forest does
every tail have a head (`TailHasHead`). The argument is one lemma for each branch of `add` and `remove`. Each rests on how
the last of every share changes: `LastAfterAdd` (what ended at the new share now ends where it does),
`LastAfterRemove` (what ended where a removed root did now ends at the root if it is above it, and is as
before if not), and on `OnlyChildIsUnderAll` (over a tail with one root, every head is above that root, which is why
that branch may move all heads without asking). These go by induction over the
numbering, instantiated from a least-element lemma (`NodeInduction`). `StepRefines` shows that a step of the tracker is a step of `Forest`;
with `IInv` the guards, which ask the dictionaries, mean that the share is at an end of the forest.

**The memo** (`TrackerProofs`, with `FoldLemmas`), for any work in the shares besides (`WorkAssumption`):

* `RefsAreConsistent`, `CacheIsExact`: `ViewSpec => []RefsConsistent` and `ViewSpec => []CacheExact`.
* `ViewRefinement`: `ViewSpec => RefinesTracker`.

`CacheExact` is not inductive: a cached delta is the sum of a share's own part and of its reference's, and a reference serves many shares.
`ViewIInv` adds to `IInv` what makes each part exact by itself. A delta between two hashes is the difference of their depths and of their weights, counted over
all the ancestors they could ever have (`Exact`); such deltas add and subtract whatever shares are present (`PlusIsExact`, `MinusIsExact`), so moving a
reference from the tail to a removed root leaves every delta that uses it exact. `MemoSound` says that all deltas are of this kind and that the four dictionaries
are each other's inverses; `Good` says that each goes down to a hash its share's walk meets, and it is only this which depends on the shares present.
`PathsFit` then turns a difference of depths into a path of `nth_parent` over present shares, and a difference of weights into the sum of the work on it.

A walk caches its stops in turn, a fold of `_set_delta`, and each of them down to the end of its chain (`DeltaToLast`); no other share's tail moves
(`SetDeltaSound`, `Lowers`). A new share cuts no walk short (`ChainGrows`). A removed head is on no other walk (`HeadHasNoHeirs`). A root that is removed is on many: what was cached
down to it must first be cached further (`NothingDownTo`), which is why the handler asks for the delta of every user of the reference there, and what was cached
down to its parent ends at the root afterwards (`RefMoves`, `HandleRoot`), or is forgotten if some of it may not pass through the root (`HandleForkedRoot`). Since the answers of
the memo are those of the walk (`IsChildOfIsWalk`, `AskAll`), each step is one of `Tracker` or none (`ViewStep`), and `IInv` comes with it.

**The store** (`PeersStoreProofs`), for any finite or infinite set of shares and any positive
`Keep` and `MaxLines`:

* `StoreTypes`, `NothingSavedIsLost`, `KnownIsTrue`, `NothingKeptForEver`: `StoreTypeOK`,
  `SavedSurvives`, `KnownIsStored` and `DesiredIsTracked` always hold.
* `LossIsBounded`: `StoreSpec => []LossBounded`, for any number of writes that stop halfway.

None of the three safety properties about whole writes is inductive. `StoreInv` adds: `Unbroken` (while no write was torn
every file ends in a newline, or the next line would be lost); `Wanted` (what is saved is wanted in some
file, or `check_remove` could remove the file it is in); `Tracked` (what is wanted is in the tracker or about to be forgotten;
`DesiredIsTracked` speaks only of the idle node); `DownIsIdle` (a dead process has nothing left to do). The proof has one
lemma for each action (`SaveKept`, `ForgetKept`, `CrashKept`, `RestartKept`, ...) with a step for each conjunct it can disturb.

Nor is `LossBounded`: a line that a torn write spoiled may be counted as lost only much later, when it is saved again (the store
believes it is in a file) or when another file that holds it goes, because that one is not wanted. `LossInv` therefore counts `Lost`, the lines believed
to be in a file that does not hold them and those saved that no file which is wanted for them holds, and adds two for every file
that lacks its last newline (`Opens`), for what it may yet cost: `|Lost| + 2 |Opens| <= 2 tears`. A torn write opens a file; the next
line that goes there closes it, and spoils two lines at most (`LossSave`); a torn write behind a torn line spoils one and leaves
the file open (`LossTorn`); nothing else adds to `Lost`, the removal of files and the restart included (`LossForget`,
`LossCrash`, `LossRestart`).

**The sharechain** (`ShareChainProofs`, on `ForestLemmas` and `FoldLemmas`), for any finite set of shares in any set of forests, any choices of
flawed shares, any positive `CHAIN_LENGTH`, `Few`, `Window` (at most `CHAIN_LENGTH`) and `Generations`, any work and timestamps
(`ShareChainAssumption`):

* `TrackersInOrder`, `AncestorsSuffice`, `BestIsPresent`, `BestIsNotNaughty`: `ChainTypeOK`, `NoAssertion`, `BestPresent` and
  `NeverOnNaughty` always hold.
* `NoHeadStalls`: `TimesGrow => (Spec => []NoStall)`, where `TimesGrow` says that no share is dated before the one it is built on.

`ChainInv` says that the forest stays, that the verified shares are among the tracker's and not bad, that the marks are numbers up to
`Generations`, that nothing but a `KeyError` or a `TypeError` was raised, and, when nothing was, that the best share is there and
not naughty. The work is in what `think` and `clean_tracker` do in between, which is a fold of a handler over a
set in some order: for each loop a lemma says what its rounds keep (`VerifyKeeps`, `PurgeKeeps`, `ExtendKeeps`, `EatHeadsKeeps`,
`DropTailsKeeps`), from one about a round. These facts carry it. A share on a walk of no more shares than there are above its last stays in the tracker
(`Ancestor`), which is why the two limits of `think`, with their different off-by-ones, both leave `attempt_verify` the ancestors it needs. The heads
one round of `clean_tracker` takes out are heads until each has gone, in any order (`EatRoundKeeps`); the roots over a tail likewise. Marks wrap at
`Generations`, whatever order shares are marked in (`MarksKept`). And from a share that is not naughty the way up, along the longest line of
shares that are not, ends at one that is not (`BestDescendentIsFair`), so a jump ends well (`JumpEnds`). After a raise `best` is the share chosen
before, which the handler may have taken out: this is why `BestPresent` and `NeverOnNaughty` speak of handlers that ended.

`NoStall` needs no invariant but `ChainInv`, for every `think` that raises nothing establishes it anew (`ThinkAnswers`); what takes an argument
is that its three loops do so together, in any order of the heads. While heads are judged, every share has a fate
(`Fate`): what is missing under it is desired, or it or a share above it is verified, or it is listed as bad after all that are
above it and are listed, or no head above it was looked at yet. `JudgedFate` keeps that from head to head. The purge that follows takes
listed shares out while they are heads or roots, and so may make a head of a share that nobody judged. It leaves no gaps: shares over
one that stays go from the top (`NoHole`), hence none is left over a new head (`NoneUpon`); one listed last would have gone too
(`ListedLastLeaves`); and one with a verified share above it is no head. So what a new head lacks is desired, under the name it had before the purge
(`SameMissing`), because a share is only listed when it is well above what is missing (`Deep`). Then, `ExtendReaches`: shares verified under
a verified head are no heads (`ExtendedHeads`), so every head has had its turn, after which its chain is `CHAIN_LENGTH` long or
ends where `NoStall` allows (`ExtendedReach`), whatever else is verified later.

`TimesGrow` is needed: a wish is dated by the newest of the `Few` shares at the head that was judged. If they all fail check() and are dated
long before the share under them, the wish for what it lacks is dropped as old, they are purged, and that share, now a head and not old, has
to wait for the next `think`; TLC shows it with `Few` 1 and timestamps that fall. `generate_transaction` dates no share before its
parent, and a share that passes check() is dated as it would; of one that fails nothing is known.

**The peers** (`PeersStoreProofs`), for any finite set of peers, any set of rude ones, any limits, networks of addresses and `connect_addrs`:

* `TypesKept`, `NothingRaises`, `PeersAreExact`, `CountsAreExact`, `EstablishedTogether`: all five properties of the run.

`IInv` has one part for each table, read from the connections and back (`TablesExact`, `ConnsExact`, `AttemptsLive`, `IncomingLive`),
and what the messages on their way still promise: `HeardInOrder` (a `Protocol` that is open and has read a version is established, with another's nonce),
`WiresShort` and `Greeted` (an end not yet established, whose far end is open, has the version first on its wire). `NoRaise` is part of it, since a handler cut short would leave tables
half updated. There is one lemma for each handler; a chunk of messages goes by `MessageKeeps`, along the fold. A rude peer may claim any nonce, another's included,
which is why `EstablishedTogether` is of honest ends.

**The work interface** (`GetWorkProofs`), for any finite set of clients and parameters and any positive limits and lives, with
unverified clients allowed no more handlers than others (`GetWorkAssumption`):

* `TypesKept`, `NobodyTwice`, `WorkIsCurrent`, `QuotasAreExact`, `PollsArePrompt`, `HandlersAreKept`: all six properties of the run.

The handlers are functions of a record of the whole state, so the invariant is of such a record and a time, `Sound(s, t)`. Its parts are: every
dictionary is in the order its entries expire in and within its limit (`AllOrderly`); a piece of work is given in one generation alone
(`GivenBy`); no nonce that the cache has yet to give was given (`CacheAhead`), and a request that is answered again gets later timestamps than all given
(`RequestsAhead`); every root that is kept was given (`RootsGiven`); each quota dictionary lasts exactly as long as the handlers of its
owner, holds them all and no other's (`Quota`), and no owner goes over its limit (`QuotasKept`). `Quota` is the delicate one: the entry
of a quota is put again with every handler, so it expires with the last of them, and it is this which makes it safe that the sets and
the handlers expire apart. `NeverTwice` is `~ again`, which says nothing of what is yet to be given; `CacheAhead` and `RequestsAhead` make it inductive.

**The parent chain** (`WorkRequestsProofs`), for every set of blocks in any tree of growing height and any `PowMeets` that holds of the first block and itself:

* `Settles`: `ParentSpec => []HeaderSettles`. The inductive invariant `ParentInv` adds to it the types and that `current_work` is always what
  `compute_work` makes of the other two; without it the second half of `HeaderSettles` does not follow. The lemma that carries it is
  `BestKept`: once the best header is the daemon's block or a child of it, no header told of takes it away.

**The bridge and its miners** (`WorkRequestsProofs`), for any finite set of session slots, any shares, jobs, hashes, targets and bounds:

* `ImplementsParent`: `WorkSpec => ParentSpec`, by one lemma for each group of actions, most of which leave the parent chain alone. With it
  `WorkSettles` carries `HeaderSettles` over to the whole.
* `WorkTypes`: `WorkSpec => []WorkTypeOK`. `TypesHold` adds the shapes of shares, jobs and sessions, which the count of
  connections and the membership of `best_share` rest on.
* `JobsStayCurrent`: `WorkSpec => []JobsCurrent`. `JobInv` adds that no job is from the future (or an event could make an old
  one on time again) and that sessions name jobs there are. The argument: every step that changes `best_share`, or `current_work` in
  a way that matters, counts the event (`HappenedKeeps`), so no older job is on time after it, and every open session has a send queued.
* `HeadersTakenAgain`: `WorkSpec => []TakenAgain`, for any targets of jobs, sessions and users. `TakenInv` adds that every share of this node's miners was told of, and is
  among the received headers of its job unless it is in `unrecorded` (`Recorded`); the guard of `AsShare` asks for just that record.
* `StaleCountsExact`: `WorkSpec => []StaleExact`. The counts are kept in two halves, what is on the part of the best
  chain the tracker has and what was removed of it, and the property is about their sum. `StaleInv` therefore tells which shares were removed: there is
  one set `T` such that all that is left stands on `T` (`Stands`: the whole chain of a share is `T` and what is left of it), but for islands, single shares
  whose own last was removed; what was counted is what there is in `T` (`RemovedCounted`); and the best share is no island, because an island is too low to
  be judged (`IslandsAreLow`), and is not none unless `T` is empty (`BestStands`). `DropHead` takes nothing out of any chain that stays (`OnWithout`), so nothing is counted; what
  `DropTails` takes out lies under every head and the best share, so under every share that is left (`TrunkCut`), which is what the watcher's test at the
  moment of each removal needs. That the chain never announces more than there is follows from two more parts: nowhere, under no share and not
  only under the best one, is more announced than lost (`NeverMore`), and a job that will announce one more is built where one is owed
  (`JobsOwed`). The walks of `Chain` are recursive functions; `Walk` and `On` say the same of any list of shares that name earlier ones, and
  their lemmas go up the numbers of shares (`ByShares`). It rests on `TakenOnce`, which `StaleExact` presupposes, since a share taken twice would be counted in one half only, on `TakenInv`, by which a share taken for the first time is new, and on `JobInv`, since a share in
  time must be on the best share.

**Payouts** (`PayoutsProofs`, with `FoldLemmas`), for any finite set of payees, any set of makers of the right types (`MakersAssumption`), any
levels the skip list may draw, any clocks, and any values of the constants that fit each other (`PayoutsAssumption`: the votes lie
within `CHAIN_LENGTH`, the far share and the references within the payout window and that within what is kept, the hash of an address
reads as the same address twice, and targets are written in at least two digits):

* `WindowAlwaysExact`, `OwnSharesAlwaysPass`, `AlwaysPaidInFull`: `WindowExact`, `OwnSharesPass` and `PaidInFull` always hold.

The inductive invariant `KeptAll` is `Kept /\ PaidInFull`. `Kept` says that what is in the tracker is an upper part of the shares
made (`Placed`), that every jump the skip list has stored spans shares and holds their plain sum (`SkipsTrue`), and that each share was
made as this node makes them (`AllMade`). The skip list is a monoid: deltas combine in any grouping and what a limit cuts off depends on the total alone
(`CombineAssoc`, `ApplyType`), so a walk through whatever jumps there are, true ones, answers as the walk over single shares does
(`WeightsAnswer`), and stores true ones only (`FillTrue`, `TurnTrue`). `PlainIsAnswer` says that this walk is the sum `WindowExact` compares with.
That a share of one's own passes *later* needs more: `AllMade` is said of the whole list of shares, not of the tracker, because the tracker loses what is below. A
longer list changes nothing of what a share saw (`MadeExtended`), a tracker with enough history sees what the list holds
(`HistoryIs`, `MadeIsRemade`), and a target that was clipped and rounded is a fixed point of clipping and rounding (`RoundedTwice`), as a
timestamp is (`TimeTwice`), which is ahead of its maker's clock only where it follows the share before. A transaction is found where it was
(`BackIs`, `RefsAreThere`), for `check` asks for more of the chain than the references reach. So `check` works out the same share, and admits it (`FittingPasses`). What is paid: the weights add up to the total but for the donations
(`AnswerBalanced`), each amount is rounded down and one address gets the rest, which makes it the whole reward (`AmountsPaid`);
and what is claimed is no more than the transactions left in the share allow (`ClaimFits`).

**Requests** (`WorkRequestsProofs`), for any connections, any kinds of them, and any positive `MaxOut` and `Pings` (`RequestsAssumption`):

* `RequestsTypeCorrect`: `Spec => []RequestsTypeOK`.
* `RequestsKeepTheirPromise`: `Spec => Promised!Init /\ [][Promised!Next]_outcome`: every step ends requests that are out, makes new ones or
  does neither, and none ends twice. This is `KeepsPromise` but for the fairness in it.

The handlers are functions of a record of the state, and one of them may fire many deferreds, each of which may wake a caller that asks again at once.
So the invariant `Sound(kind, s, P, X)` is of such a record *within* a turn: `P` are the entries that have left the maps and are about to fire,
`X` the connections whose `respond_all` still runs; between turns both are empty (`RequestsInv`). Its parts: maps and timers hold the same
entries, each once (`Listed`); a request is out if and only if it has an entry there or in `P` (`Due`); nothing is out on a lost peer's connection outside `X` (`Alive`); pings are made in
turn, so that the next name is free (`InTurn`); `download_shares` waits for a request that is out (`Waits`). `PopSound` moves an entry to `P`;
`FireSound` takes it out, ends its request, and lets those who waited run on (`ResumeSound`, `RoundSound`, `CallSound`). A packet answers
several requests in one turn (`GotSound`): all of them leave the maps before the first fires, and meanwhile only new ones are added (`WaitingGrows`). `respond_all` goes on while there are entries,
which its own callers may add to; it ends because each turn of its loop ends a request and there are finitely many (`EndedCount`, `LoseSound`, `RespondSound`).
`Stepwise` turns what became of the outcomes in a turn into a step of `Promise`.

**Lemmas shared** (`FoldLemmas`): a fold of the community modules over a sequence or a set, with its step given as a function, goes along states of the
type it starts in (`FoldExists`, `FoldSteps`); a sum over a finite set exists, changes with one of its terms by the difference, and is 0 if all its terms are
(`SumExists`, `SumChange`, `SumOfNothing`), whichever of them is taken first (`SumTakes`). Shares that name earlier ones (`BackLinked`) have each a line
down to the first, of some length (`DepthOf`), with a share at each distance (`NthBack`); a walk over those in the tracker is the start of it.
`ForestLemmas` has what walks do when a share is added or removed.

**Out of the prover's reach**, and so left to TLC: `SyncCompletes`, `LoopGoesOn` and the fairness in `KeepsPromise` (liveness, `ENABLED`). The library's
induction theorems have operator parameters, which no prover here can instantiate: the proofs above go by sets
of numbers (`NodeInduction`, `UpTo`, `BySize`) instead. No module uses `RECURSIVE`; recursion is written as recursive functions or folds.

## 6. Not modelled

* **Transaction relay.** `have_tx`, `losing_tx`, `remember_tx` and `forget_tx` spread transactions so that shares below version 34 can name
  them: those a new chain begins with, until it votes for 35. What such a share refers to is modelled (`Payouts`), not how a peer comes by the transactions.
* **Penalties' durations and scores.** A ban is a flag in `Peers`; `Requests` has none.
* **`DeferredCacher`, `RobustLoopingCall`, `retry`, `Variable`'s nested transitions, `stop()`.** The first may do
  the same call twice when asked while it wakes those who waited; the others are timers, loops and lists of watchers.
* **`broadcast_share` and block solutions.** They send, and change a set of shares already sent.
* **The height tracker** is a cache of what the daemon reports of heights.
* **Encodings, addresses, web, graphs, logging** are sequential conversions and reports.
* **Vendored libraries** (`SOAPpy`, `wstools`, `nattraverso`) are more than half of the lines of code that are not tests, and not
  of this program; the share of the repository's lines that the modules stand for stays low for that reason.

## 7. Plan

What could follow, the most important first:

1. **Penalties** (`p2p.py`): ban scores and durations, with `forgive_transgressions`.
2. **Broadcast** (`node.py`, `work.py`): `broadcast_share` with the shares a peer already has, and a dead share that was not added.
3. **Start** (`main.py`): the start with the best share of the store, composed with `ShareChain`.
4. **Proofs**: every safety property that a passing run checks is proved. `NoHeadStalls` could do with less: with dates that
   may fall at a share that fails check(), what holds is that its parent waits for one `think`.
