------------------------------- MODULE Requests -------------------------------
(***************************************************************************)
(* The requests a node sends over its connections, and what becomes of     *)
(* them (util/deferral.py): an answer, a timer and the loss of the         *)
(* connection race for each. There are three kinds of connection:          *)
(*   "peer"    p2p.Protocol.get_shares, a GenericDeferrer: a timeout ends  *)
(*             the connection, and its loss ends what is still out;        *)
(*   "miner"   the calls of the Stratum server (jsonrpc.LineBasedPeer), a  *)
(*             GenericDeferrer without either;                             *)
(*   "daemon"  get_block_header of the parent chain's protocol, a          *)
(*             ReplyMatcher: several may wait for one block.               *)
(* Those who ask peers go on when they have their answer, in the turn that *)
(* ends the request: the loop of node.download_shares picks a peer again,  *)
(* and web.get_peer_ping asks the same one, even one that is lost. What    *)
(* they blame on a peer is counted by Node.penalize_peer.                  *)
(*                                                                         *)
(* Time is left out: a timer may fire at any moment after it is set. The   *)
(* ids of a GenericDeferrer, drawn from 2 ** 30 or 2 ** 256, are taken     *)
(* never to be drawn twice.                                                *)
(***************************************************************************)
EXTENDS Naturals, Sequences, FiniteSets, Functions

Seqs == INSTANCE SequencesExt

CONSTANTS Kinds,            \* the kinds of connections there may be
          Conn,             \* the connections, a host at the end of each
          nobody,           \* no connection
          MaxOut,           \* bound: how many requests of one sort may be known at a time
          Pings             \* the 3 of get_peer_ping: how often a peer is asked

ASSUME RequestsAssumption ==
  /\ Kinds \subseteq {"peer", "miner", "daemon"} /\ nobody \notin Conn
  /\ {MaxOut, Pings} \subseteq Nat \ {0}

VARIABLES kind,             \* the kind of the connections
          state,            \* each connection: "up", "aborting" after disconnect, "lost"
          map,              \* the entries of each connection's map, in the order they were made
          timers,           \* the entries whose timer runs
          coming,           \* what the far ends may still answer
          outcome,          \* what became of each request
          asking            \* download_shares: the request it waits for, or Asleep

requestsVars == <<kind, state, map, timers, coming, outcome, asking>>

\* A request, by the one who makes it; the pings of a peer are made in turn.
Req == ({"download", "notice", "block"} \X (1 .. MaxOut))
       \cup ({"announce"} \X {1}) \cup ({"ping"} \X (1 .. Pings))
Asleep == <<"asleep", 0>>
BlockHash == {"block 1", "block 2"} \X {0}

Now == [state |-> state, map |-> map, timers |-> timers, coming |-> coming, outcome |-> outcome,
        asking |-> asking]

Become(s) ==
  \E t \in {s} :
    /\ state' = t.state /\ map' = t.map /\ timers' = t.timers /\ coming' = t.coming
    /\ outcome' = t.outcome /\ asking' = t.asking
    /\ UNCHANGED kind

-----------------------------------------------------------------------------
\* Making a request.

Unused(s, by) == {r \in Req : r[1] = by /\ s.outcome[r] = "none"}

\* GenericDeferrer.__call__, and ReplyMatcher's, which asks once for each hash. What is
\* sent to a connection that is no longer up is not read by anyone.
Call(s, c, id, r) ==
  LET e     == [conn |-> c, id |-> id, req |-> r]
      asked == \E x \in Range(s.map[c]) : x.id = id
  IN [s EXCEPT !.map[c] = Append(@, e),
               !.timers = @ \cup {e},
               !.coming = IF s.state[c] = "up" /\ ~asked THEN @ \cup {<<c, id>>} ELSE @,
               !.outcome[r] = "out"]

Peers(s) == {c \in Conn : s.state[c] # "lost"}

\* The next round of download_shares: a peer is asked, or there is none, or nothing to ask.
Round(s, next) ==
  LET free == Unused(s, "download")
  IN IF next \notin Peers(s) \/ free = {} THEN [s EXCEPT !.asking = Asleep]
     ELSE LET r == CHOOSE x \in free : TRUE
          IN [Call(s, next, r, r) EXCEPT !.asking = r]

\* Ends the connection, in a later turn; also what badPeerHappened does to it.
disconnect(s, c) == [s EXCEPT !.state[c] = IF @ = "up" THEN "aborting" ELSE @]

-----------------------------------------------------------------------------
\* The end of a request, and what those who waited for it do then.

\* Mutant: a timeout is not caught, and ends the loop.
Resume_untimed(s, c, how, next) ==
  CASE how = "timeout"  -> [s EXCEPT !.asking = <<"ended", 0>>]
    [] how = "answered" -> Round(s, next)
    [] OTHER            -> Round(disconnect(s, c), next)

\* download_shares goes on: a failure is blamed on the peer, a timeout is not.
Resume(s, c, how, next) ==
  IF how \in {"answered", "timeout"} THEN Round(s, next) ELSE Round(disconnect(s, c), next)

\* get_peer_ping asks again, whatever came of the last ping.
PingAgain(s, c, r) ==
  IF r[2] = Pings THEN s ELSE Call(s, c, <<"ping", r[2] + 1>>, <<"ping", r[2] + 1>>)

\* The deferred fires; a deferred that has fired does not fire again.
Fire(s0, e, how, next) ==
  LET by == e.req[1]
      s  == [s0 EXCEPT !.outcome[e.req] = IF @ = "out" THEN "ended" ELSE "twice"]
  IN CASE by = "download"                      -> Resume(s, e.conn, how, next)
       [] by = "announce" /\ how # "answered"  -> disconnect(s, e.conn)
       [] by = "ping"                          -> PingAgain(s, e.conn, e.req)
       [] OTHER                                -> s

\* Mutant: the timer runs on.
PopTimed(s, e) == [s EXCEPT !.map[e.conn] = Seqs!RemoveFirst(@, e)]

\* The entry leaves the map, and its timer stops.
Pop(s, e) == [s EXCEPT !.map[e.conn] = Seqs!RemoveFirst(@, e), !.timers = @ \ {e}]

\* got_response: nothing for an id that is not there; all those who wait, for one that is.
got_response(s, c, id, how, next) ==
  LET pop(r, e)  == IF e.id = id THEN Pop(r, e) ELSE r
      fire(r, e) == IF e.id = id THEN Fire(r, e, how, next) ELSE r
  IN Seqs!FoldLeft(fire, Seqs!FoldLeft(pop, s, s.map[c]), s.map[c])

\* Mutant: only what was out at first is ended.
respond_all_once(s, c, next) ==
  Seqs!FoldLeft(LAMBDA r, e : Fire(Pop(r, e), e, "lost", next), s, Seqs!Reverse(s.map[c]))

\* respond_all: the last entry goes, and what its end adds goes too, until none is left.
respond_all(s, c, next) ==
  LET one(r, i) == IF r.map[c] = <<>> THEN r
                   ELSE LET e == Seqs!Last(r.map[c]) IN Fire(Pop(r, e), e, "lost", next)
  IN Seqs!FoldLeft(one, s, [i \in 1 .. Cardinality(Req) |-> i])

-----------------------------------------------------------------------------
\* Those who ask.

\* download_shares wakes, with shares to ask for.
Download(c) ==
  /\ kind = "peer" /\ asking = Asleep
  /\ c \in Peers(Now) /\ Unused(Now, "download") # {}
  /\ Become(Round(Now, c))

\* handle_share_hashes, when a peer announces shares.
Announced(c) ==
  /\ kind = "peer" /\ c \in Peers(Now) /\ Unused(Now, "announce") # {}
  /\ Become(Call(Now, c, <<"announce", 1>>, <<"announce", 1>>))

\* refresh_pings; bound: one peer at a time.
Ping(c) ==
  /\ kind = "peer" /\ c \in Peers(Now) /\ Cardinality(Unused(Now, "ping")) = Pings
  /\ Become(Call(Now, c, <<"ping", 1>>, <<"ping", 1>>))

\* The Stratum server tells a miner of work or of a difficulty.
Notice(c) ==
  /\ kind = "miner" /\ state[c] = "up"
  /\ \E r \in Unused(Now, "notice") : Become(Call(Now, c, r, r))

\* poll_header.
get_block_header(c, hash) ==
  /\ kind = "daemon" /\ state[c] = "up"
  /\ \E r \in Unused(Now, "block") : Become(Call(Now, c, hash, r))

-----------------------------------------------------------------------------
\* The ways a request ends, with the peer download_shares asks next should it go on.

Choices == IF asking = Asleep THEN {nobody} ELSE Conn \cup {nobody}

\* A reply is read, also one that came in the same chunk as what ended the connection; and
\* the same one may come again. A daemon does not refuse.
Reply(c, id, next) ==
  /\ state[c] # "lost" /\ <<c, id>> \in coming
  /\ \E how \in IF kind = "daemon" THEN {"answered"} ELSE {"answered", "refused"},
        rest \in {coming, coming \ {<<c, id>>}} :
       Become([got_response(Now, c, id, how, next) EXCEPT
                 !.coming = @ \ (coming \ rest)])

\* The timer's own entry is popped, and after the end of the request a peer is disconnected.
timeout(e, next) ==
  /\ e \in timers
  /\ LET s == IF e \in Range(map[e.conn]) THEN Fire(Pop(Now, e), e, "timeout", next)
              ELSE [Now EXCEPT !.outcome[e.req] = "twice"]
     IN Become(IF kind = "peer" THEN disconnect(s, e.conn) ELSE s)

\* connectionLost: a peer leaves Node.peers before its requests are ended.
connectionLost(c, next) ==
  /\ state[c] # "lost"
  /\ LET s == [Now EXCEPT !.state[c] = "lost", !.coming = {x \in @ : x[1] # c}]
     IN Become(IF kind = "peer" THEN respond_all(s, c, next) ELSE s)

\* A connection is lost, or has been idle for too long and is given up.
_timeout(c) == state[c] = "up" /\ Become(disconnect(Now, c))

\* A new connection, whose map is new. Bound: the old one's timers have run out.
connectionMade(c) ==
  /\ state[c] = "lost" /\ map[c] = <<>>
  /\ Become([Now EXCEPT !.state[c] = "up"])

\* Bound: a late answer to a request comes before its name is used anew.
Forget(r) ==
  /\ outcome[r] = "ended"
  /\ r[1] = "ping" => \A x \in Req : x[1] = "ping" => outcome[x] # "out"
  /\ Become([Now EXCEPT !.outcome[r] = "none", !.coming = {x \in @ : x[2] # r}])

-----------------------------------------------------------------------------
Init ==
  /\ kind \in Kinds
  /\ state = [c \in Conn |-> "lost"]
  /\ map = [c \in Conn |-> <<>>] /\ timers = {} /\ coming = {}
  /\ outcome = [r \in Req |-> "none"]
  /\ asking = Asleep

Next ==
  \/ \E c \in Conn : Download(c) \/ Announced(c) \/ Ping(c) \/ Notice(c)
  \/ \E c \in Conn, hash \in BlockHash : get_block_header(c, hash)
  \/ \E next \in Choices :
       \/ \E x \in coming : Reply(x[1], x[2], next)
       \/ \E e \in timers : timeout(e, next)
       \/ \E c \in Conn : connectionLost(c, next)
  \/ \E c \in Conn : _timeout(c) \/ connectionMade(c)
  \/ \E r \in Req : Forget(r)

\* The reactor calls every timer and tells of every connection that was aborted (this is weak
\* fairness of timeout and of connectionLost, which nothing but they or the end of the request
\* disables); it wakes download_shares, which sleeps for a second; and late answers end.
Fairness ==
  /\ \A r \in Req : []<>(\A e \in timers : e.req # r)
  /\ \A c \in Conn : []<>(state[c] # "aborting")
  /\ WF_requestsVars(\E c \in Conn : Download(c))
  /\ \A r \in Req : WF_requestsVars(Forget(r))

Spec == Init /\ [][Next]_requestsVars /\ Fairness

-----------------------------------------------------------------------------
\* The types of the variables. Every request that is out has one entry and one timer that
\* runs, no other has any, and none is out on a peer's connection that is lost.
RequestsTypeOK ==
  /\ kind \in Kinds /\ state \in [Conn -> {"up", "aborting", "lost"}]
  /\ UNION {Range(map[c]) : c \in Conn} = timers
  /\ \A c \in Conn : Seqs!IsInjective(map[c]) /\ \A e \in Range(map[c]) : e.conn = c /\ e.id \in Req \cup BlockHash
  /\ {e.req : e \in timers} = {r \in Req : outcome[r] = "out"}
  /\ kind = "peer" => \A e \in timers : state[e.conn] # "lost"
  /\ asking # Asleep => asking \in {e.req : e \in timers}

Promised == INSTANCE Promise WITH Req <- Req, outcome <- outcome

\* Whatever races for it, a request ends, and ends once.
KeepsPromise == Promised!Spec

\* While there is always a peer, download_shares asks for shares again and again: neither a
\* refusal, nor a timeout, nor the loss of a connection ends it.
LoopGoesOn ==
  <>[](kind = "peer" /\ \E c \in Conn : state[c] # "lost")
    => []<><<asking' \in Req \ {asking}>>_requestsVars
=============================================================================
