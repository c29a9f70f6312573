------------------------------- MODULE GetWork -------------------------------
(***************************************************************************)
(* Handing work to miners (bitcoin/worker_interface.py): the getwork       *)
(* interface, its long polls and its quotas, in front of the               *)
(* CachingWorkerBridge, which makes one piece of work serve many miners.   *)
(*                                                                         *)
(* A piece of work names a coinbase; the bridge completes it with a nonce  *)
(* of its own, and the two make the merkle root that names the job. A      *)
(* miner may vary the header's nonce, and move the timestamp Roll seconds  *)
(* on; a further request for the same work gets the same root and the      *)
(* timestamps after those.                                                 *)
(*                                                                         *)
(* A request runs in one turn of the reactor, but for a long poll, which   *)
(* waits between its two halves. The Stratum server takes work from the    *)
(* same bridge. Time passes in units; every deadline is a number of them.  *)
(***************************************************************************)
EXTENDS ExpiringDict, FiniteSets, FiniteSetsExt

CONSTANTS Client,          \* the clients, by the address they come from
          site,            \* the IPv6 prefix a client is in
          no_site,         \* that of an IPv4 client
          Param,           \* what work is asked for: the payout address and the targets
          Nonces,          \* 2**_my_bits: the nonces the bridge has for one piece of work
          MAX_CACHED_WORK_ITEMS,
          MAX_STALE_GETWORK_HANDLERS,
          MAX_CURRENT_GETWORK_HANDLERS,
          MAX_GETWORK_HANDLERS_PER_CLIENT,
          MAX_UNVERIFIED_GETWORK_HANDLERS_PER_CLIENT,
          MAX_GETWORK_HANDLERS_PER_IPV6_PREFIX,
          MAX_VERIFIED_GETWORK_CLIENTS,
          MAX_LONG_POLL_IDENTITIES,
          MAX_CONCURRENT_LONG_POLLS,
          HandlerLife,     \* the 300 seconds of a handler
          VerifiedLife,    \* VERIFIED_GETWORK_CLIENT_TTL
          ViewLife,        \* LONG_POLL_IDENTITY_TTL
          PollLife,        \* LONG_POLL_TIMEOUT
          Roll,            \* and as a number of timestamps
          MaxOffset,       \* MAX_GETWORK_ROLL_TIMESTAMP_OFFSET
          MaxWorks,        \* bound: the pieces of work there are
          MaxTimes         \* bound: how often the work changes

MaxActive == MAX_CURRENT_GETWORK_HANDLERS + MAX_STALE_GETWORK_HANDLERS

ASSUME GetWorkAssumption ==
  /\ {Nonces, MAX_CACHED_WORK_ITEMS, MAX_STALE_GETWORK_HANDLERS, MAX_CURRENT_GETWORK_HANDLERS,
      MAX_GETWORK_HANDLERS_PER_CLIENT, MAX_UNVERIFIED_GETWORK_HANDLERS_PER_CLIENT,
      MAX_GETWORK_HANDLERS_PER_IPV6_PREFIX, MAX_VERIFIED_GETWORK_CLIENTS,
      MAX_LONG_POLL_IDENTITIES, MAX_CONCURRENT_LONG_POLLS,
      HandlerLife, VerifiedLife, ViewLife, PollLife, Roll} \subseteq Nat \ {0}
  /\ {MaxOffset, MaxWorks, MaxTimes} \subseteq Nat
  /\ MAX_UNVERIFIED_GETWORK_HANDLERS_PER_CLIENT <= MAX_GETWORK_HANDLERS_PER_CLIENT

VARIABLES times,           \* new_work_event.times
          wi,              \* the dictionaries of the WorkerInterface
          bridge,          \* the cache of the CachingWorkerBridge
          waiting,         \* the long polls that wait, the oldest first
          _long_poll_waiters,
          given,           \* history: the jobs handed out
          again            \* history: whether the same header was handed out to two miners

getWorkVars == <<times, wi, bridge, waiting, _long_poll_waiters, given, again>>

-----------------------------------------------------------------------------
(***************************************************************************)
(* A request works on a record s of wi, bridge, given and again, at the    *)
(* time the work has changed t times.                                      *)
(***************************************************************************)

\* Mutant: the handlers of the work before are forgotten too.
_sync_getwork_generation_all(s, t) ==
  IF s.wi._getwork_generation = t THEN s
  ELSE [s EXCEPT !.wi = [@ EXCEPT !.merkle_root_to_handler = <<>>,
                                  !.getwork_roots_by_client = <<>>,
                                  !.getwork_roots_by_ipv6_prefix = <<>>,
                                  !.getwork_by_request = <<>>,
                                  !._getwork_generation = t]]

\* The stale handlers, once those of old are put with them.
MadeStale(stale, old) ==
  Sq!FoldLeft(LAMBDA d, e : touch(d, e.key, e.value, HandlerLife, MAX_STALE_GETWORK_HANDLERS), stale, old)

\* The handlers of the work before become stale, and all else about it is forgotten.
_sync_getwork_generation(s, t) ==
  LET w == s.wi
  IN IF w._getwork_generation = t THEN s
     ELSE [s EXCEPT !.wi =
             [w EXCEPT !.stale_merkle_root_to_handler =
                          MadeStale(w.stale_merkle_root_to_handler, w.merkle_root_to_handler),
                       !.merkle_root_to_handler = <<>>,
                       !.getwork_roots_by_client = <<>>,
                       !.getwork_roots_by_ipv6_prefix = <<>>,
                       !.getwork_by_request = <<>>,
                       !._getwork_generation = t]]

Linked(w, root) == root \in Keys(w.merkle_root_to_handler) \cup Keys(w.stale_merkle_root_to_handler)

_getwork_client_roots(w, c) ==
  Get(w.getwork_roots_by_client, c, {}) \cap Keys(w.merkle_root_to_handler)

_getwork_ipv6_prefix_roots(w, c) ==
  Get(w.getwork_roots_by_ipv6_prefix, site[c], {}) \cap Keys(w.merkle_root_to_handler)

\* Mutant: the site of a client is not looked at.
_can_issue_getwork_anywhere(w, c) ==
  /\ Cardinality(_getwork_client_roots(w, c)) <
       (IF c \in Keys(w.verified_getwork_clients) THEN MAX_GETWORK_HANDLERS_PER_CLIENT
        ELSE MAX_UNVERIFIED_GETWORK_HANDLERS_PER_CLIENT)
  /\ Len(w.merkle_root_to_handler) < MAX_CURRENT_GETWORK_HANDLERS

_can_issue_getwork(w, c) ==
  /\ Cardinality(_getwork_client_roots(w, c)) <
       (IF c \in Keys(w.verified_getwork_clients) THEN MAX_GETWORK_HANDLERS_PER_CLIENT
        ELSE MAX_UNVERIFIED_GETWORK_HANDLERS_PER_CLIENT)
  /\ \/ site[c] = no_site
     \/ Cardinality(_getwork_ipv6_prefix_roots(w, c)) < MAX_GETWORK_HANDLERS_PER_IPV6_PREFIX
  /\ Len(w.merkle_root_to_handler) < MAX_CURRENT_GETWORK_HANDLERS

_remember_getwork_handler(w, root, c) ==
  [w EXCEPT
     !.merkle_root_to_handler = touch(@, root, c, HandlerLife, MAX_CURRENT_GETWORK_HANDLERS),
     !.getwork_roots_by_client =
        touch(@, c, _getwork_client_roots(w, c) \cup {root}, HandlerLife, MaxActive),
     !.getwork_roots_by_ipv6_prefix =
        IF site[c] = no_site THEN @
        ELSE touch(@, site[c], _getwork_ipv6_prefix_roots(w, c) \cup {root}, HandlerLife,
                   MAX_CURRENT_GETWORK_HANDLERS)]

\* What is cached once a nonce of entry has been taken.
CachedAfter(rest, entry) ==
  IF entry.nonce + 1 = Nonces THEN rest
  ELSE SubSeq(Append(rest, [entry EXCEPT !.nonce = @ + 1]),
              IF Len(rest) >= MAX_CACHED_WORK_ITEMS THEN 2 ELSE 1, Len(rest) + 1)

\* The cache of work that is current, and where in it the work for p is.
CurrentCache(b, t) == IF b._times = t THEN b._cache ELSE <<>>
CachedFor(cache, p) == {i \in DOMAIN cache : cache[i].param = p}

\* New work for p, or the work cached for it.
WorkAt(b, cache, p) ==
  LET at == CachedFor(cache, p)
  IN IF at = {} THEN [param |-> p, work |-> b.works + 1, nonce |-> 0] ELSE cache[Max(at)]

\* Mutant: work that is no longer current stays in the cache.
NextWorkKept(b, t, p) == WorkAt(b, b._cache, p)

\* The work of the bridge for p at its next nonce, or new work at its first.
NextWork(b, t, p) == WorkAt(b, CurrentCache(b, t), p)

\* CachingWorkerBridge.get_work.
get_work(b, t, p) ==
  LET entry == NextWork(b, t, p)
      cache == CurrentCache(b, t)
      at    == CachedFor(cache, p)
  IN [_cache |-> CachedAfter(IF at = {} THEN cache ELSE Sq!RemoveAt(cache, Max(at)), entry),
      _times |-> t,
      works  |-> Max({b.works, entry.work})]

Root(entry) == <<entry.work, entry.nonce>>

\* A miner gets root with the timestamps from offset to offset + Roll.
Give(s, t, root, offset) ==
  LET used == {g \in s.given : g.root = root /\ g.offset - Roll <= offset /\ offset <= g.offset + Roll}
  IN [s EXCEPT !.given = @ \cup {[root |-> root, offset |-> offset, times |-> t]},
               !.again = @ \/ used # {}]

\* Mutant: the windows of timestamps meet.
StrideShort == Roll

Stride == Roll + 1

\* Mutant: timestamps are moved on without end.
CachedWorkUncapped(w, c, p) ==
  LET cached == Get(w.getwork_by_request, <<c, p>>, [root |-> <<0, 0>>, next |-> 0])
  IN IF cached.root \in Keys(w.merkle_root_to_handler) THEN {cached} ELSE {}

\* _get_cached_getwork: the next timestamps of work this client has, or that there is none.
CachedWork(w, c, p) ==
  LET cached == Get(w.getwork_by_request, <<c, p>>, [root |-> <<0, 0>>, next |-> 0])
  IN IF cached.root \in Keys(w.merkle_root_to_handler) /\ cached.next <= MaxOffset
     THEN {cached} ELSE {}

\* The half of _getwork that answers with work, or refuses to.
_getwork(s0, t, c, p) ==
  LET s      == _sync_getwork_generation(s0, t)
      cached == CachedWork(s.wi, c, p)
      at     == CHOOSE x \in cached : TRUE
      entry  == NextWork(s.bridge, t, p)
      root   == Root(entry)
      remember(w, r, next) ==
        [w EXCEPT !.getwork_by_request =
                    touch(@, <<c, p>>, [root |-> r, next |-> next], HandlerLife, MaxActive)]
      rolled == [s EXCEPT !.wi = remember(@, at.root, at.next + Stride)]
      forgot == [s EXCEPT !.wi.getwork_by_request = Delete(@, <<c, p>>)]
      made   == [forgot EXCEPT !.wi = remember(_remember_getwork_handler(@, root, c), root, Stride),
                               !.bridge = get_work(@, t, p)]
  IN IF cached # {} THEN Give(rolled, t, at.root, at.next)
     ELSE IF ~_can_issue_getwork(s.wi, c) THEN forgot
     ELSE Give(made, t, root, 0)

Now == [wi |-> wi, bridge |-> bridge, given |-> given, again |-> again]

Become(s) ==
  /\ s.bridge.works <= MaxWorks
  /\ wi' = s.wi /\ bridge' = s.bridge /\ given' = s.given /\ again' = s.again

-----------------------------------------------------------------------------
Init ==
  /\ times = 0
  /\ wi = [merkle_root_to_handler |-> <<>>, stale_merkle_root_to_handler |-> <<>>,
           getwork_roots_by_client |-> <<>>, getwork_roots_by_ipv6_prefix |-> <<>>,
           getwork_by_request |-> <<>>, verified_getwork_clients |-> <<>>,
           worker_views |-> <<>>, _getwork_generation |-> 0]
  /\ bridge = [_cache |-> <<>>, _times |-> 0, works |-> 0]
  /\ waiting = <<>> /\ _long_poll_waiters = 0
  /\ given = {} /\ again = FALSE

\* A request for work.
Request(c, p) ==
  /\ Become(_getwork(Now, times, c, p))
  /\ UNCHANGED <<times, waiting, _long_poll_waiters>>

\* A request for work other than the client has seen: the answer, and the view it leaves.
Push(s, t, c, p) ==
  _getwork([s EXCEPT !.wi.worker_views = touch(@, c, t, ViewLife, MAX_LONG_POLL_IDENTITIES)], t, c, p)

\* Mutant: nobody is ever behind.
BehindNever(c) == FALSE

\* Whether the work has changed since the client last heard.
Behind(c) == Get(wi.worker_views, c, times) # times

\* A long poll, answered at once, made to wait, or turned away.
LongPoll(c, p) ==
  LET s == _sync_getwork_generation(Now, times)
  IN /\ UNCHANGED times
     /\ \/ /\ Behind(c)
           /\ Become(Push(s, times, c, p))
           /\ UNCHANGED <<waiting, _long_poll_waiters>>
        \/ /\ ~Behind(c)
           /\ _long_poll_waiters < MAX_CONCURRENT_LONG_POLLS
           /\ Become(s)
           /\ waiting' = Append(waiting, [client |-> c, param |-> p, left |-> PollLife])
           /\ _long_poll_waiters' = _long_poll_waiters + 1
        \/ /\ ~Behind(c)
           /\ _long_poll_waiters >= MAX_CONCURRENT_LONG_POLLS
           /\ Become(s)
           /\ UNCHANGED <<waiting, _long_poll_waiters>>

\* Nobody came in time: the poll is answered with the work there is.
PollTimesOut(i) ==
  /\ waiting[i].left = 0
  /\ Become(Push(Now, times, waiting[i].client, waiting[i].param))
  /\ waiting' = Sq!RemoveAt(waiting, i)
  /\ _long_poll_waiters' = _long_poll_waiters - 1
  /\ UNCHANGED times

\* Mutant: a poll that is given up stays counted.
PollDroppedCounted(i) ==
  /\ waiting' = Sq!RemoveAt(waiting, i)
  /\ UNCHANGED <<times, wi, bridge, _long_poll_waiters, given, again>>

\* The client of a poll goes away.
PollDropped(i) ==
  /\ waiting' = Sq!RemoveAt(waiting, i)
  /\ _long_poll_waiters' = _long_poll_waiters - 1
  /\ UNCHANGED <<times, wi, bridge, given, again>>

\* The polls answered, the oldest first.
Answered(s, t, polls) == Sq!FoldLeft(LAMBDA r, q : Push(r, t, q.client, q.param), s, polls)

\* new_work_event.happened: every poll is answered, in the turn of the event.
NewWork ==
  /\ times < MaxTimes
  /\ times' = times + 1
  /\ Become(Answered(Now, times + 1, waiting))
  /\ waiting' = <<>>
  /\ _long_poll_waiters' = _long_poll_waiters - Len(waiting)

\* A miner returns a header, whose root names its handler; one that meets the share target
\* earns the client that was given the work a larger quota.
Submit(root) ==
  LET s == _sync_getwork_generation(Now, times)
      c == IF root \in Keys(s.wi.merkle_root_to_handler) THEN At(s.wi.merkle_root_to_handler, root)
           ELSE At(s.wi.stale_merkle_root_to_handler, root)
  IN /\ Become(IF Linked(s.wi, root)
               THEN [s EXCEPT !.wi.verified_getwork_clients =
                                touch(@, c, TRUE, VerifiedLife, MAX_VERIFIED_GETWORK_CLIENTS)]
               ELSE s)
     /\ UNCHANGED <<times, waiting, _long_poll_waiters>>

\* The Stratum server takes work, and sends it to a miner with all its timestamps.
StratumWork(p) ==
  /\ Become(Give([Now EXCEPT !.bridge = get_work(@, times, p)], times, Root(NextWork(bridge, times, p)), 0))
  /\ UNCHANGED <<times, waiting, _long_poll_waiters>>

\* Time passes; a poll that is due comes first.
Tick ==
  /\ \A i \in DOMAIN waiting : waiting[i].left > 0
  /\ waiting' = [i \in DOMAIN waiting |-> [waiting[i] EXCEPT !.left = @ - 1]]
  /\ wi' = [wi EXCEPT !.merkle_root_to_handler = Elapsed(@),
                      !.stale_merkle_root_to_handler = Elapsed(@),
                      !.getwork_roots_by_client = Elapsed(@),
                      !.getwork_roots_by_ipv6_prefix = Elapsed(@),
                      !.getwork_by_request = Elapsed(@),
                      !.verified_getwork_clients = Elapsed(@),
                      !.worker_views = Elapsed(@)]
  /\ UNCHANGED <<times, bridge, _long_poll_waiters, given, again>>

Next ==
  \/ \E c \in Client, p \in Param : Request(c, p) \/ LongPoll(c, p)
  \/ \E i \in DOMAIN waiting : PollTimesOut(i) \/ PollDropped(i)
  \/ NewWork
  \/ \E g \in given : Submit(g.root)
  \/ \E p \in Param : StratumWork(p)
  \/ Tick

Spec == Init /\ [][Next]_getWorkVars
-----------------------------------------------------------------------------
Job == (1 .. MaxWorks) \X (0 .. Nonces - 1)

\* The types of the variables; no dictionary has more entries than it may, and the polls
\* counted are those that wait, however they end.
GetWorkTypeOK ==
  /\ _long_poll_waiters = Len(waiting) /\ _long_poll_waiters <= MAX_CONCURRENT_LONG_POLLS
  /\ times \in 0 .. MaxTimes /\ wi._getwork_generation \in 0 .. times
  /\ Keys(wi.merkle_root_to_handler) \cup Keys(wi.stale_merkle_root_to_handler) \subseteq Job
  /\ Len(wi.merkle_root_to_handler) <= MAX_CURRENT_GETWORK_HANDLERS
  /\ Len(wi.stale_merkle_root_to_handler) <= MAX_STALE_GETWORK_HANDLERS
  /\ Len(wi.verified_getwork_clients) <= MAX_VERIFIED_GETWORK_CLIENTS
  /\ Len(wi.worker_views) <= MAX_LONG_POLL_IDENTITIES
  /\ Len(bridge._cache) <= MAX_CACHED_WORK_ITEMS
  /\ \A e \in Range(bridge._cache) : e.param \in Param /\ e.work \in 1 .. MaxWorks /\ e.nonce \in 0 .. Nonces - 1
  /\ \A g \in given : g.root \in Job /\ g.offset <= MaxOffset

\* No two miners work on the same headers, whether they share work through the bridge, ask
\* for more of it, or the work was put aside and taken up again.
NeverTwice == ~again

\* No miner is given work that was made before the work last changed.
CurrentWork == \A g, h \in given : g.root[1] = h.root[1] => g.times = h.times

\* The quotas count every handler of a client and of a site, and no other, however entries
\* ran out or were dropped; so no client and no site holds more than its share.
QuotasExact ==
  LET handlers(C) == {e.key : e \in {x \in Range(wi.merkle_root_to_handler) : x.value \in C}}
  IN \A c \in Client :
       /\ _getwork_client_roots(wi, c) = handlers({c})
       /\ Cardinality(handlers({c})) <= MAX_GETWORK_HANDLERS_PER_CLIENT
       /\ site[c] # no_site =>
            LET all == handlers({d \in Client : site[d] = site[c]})
            IN /\ _getwork_ipv6_prefix_roots(wi, c) = all
               /\ Cardinality(all) <= MAX_GETWORK_HANDLERS_PER_IPV6_PREFIX

\* A handler is never dropped to make room: it goes when its time is up, or when the work
\* changes, and then it is stale unless so many newer ones are.
HandlersKept ==
  [][\A e \in Range(wi.merkle_root_to_handler) :
       \/ e.key \in Keys(wi'.merkle_root_to_handler)
       \/ e.left = 1
       \/ wi'._getwork_generation # wi._getwork_generation
          /\ \/ e.key \in Keys(wi'.stale_merkle_root_to_handler)
             \/ Len(wi'.stale_merkle_root_to_handler) = MAX_STALE_GETWORK_HANDLERS]_getWorkVars

\* A poll waits only while its client is not known to have missed a change of work.
PollsPrompt == \A q \in Range(waiting) : Get(wi.worker_views, q.client, times) = times
=============================================================================
