-------------------------------- MODULE Peers --------------------------------
(***************************************************************************)
(* The sharechain network of p2p.py: every peer dials others and is        *)
(* dialled, so two peers may be connecting to each other at once. Which    *)
(* connection reaches whom is known only from the nonce in its version     *)
(* message, after which a second connection to the same peer is dropped.   *)
(*                                                                         *)
(* Each peer runs Node, ClientFactory, ServerFactory, for each address it  *)
(* was told to keep a SingleClientFactory, and at its end of each          *)
(* connection a Protocol. What TCP has delivered is handed to a Protocol   *)
(* in chunks, each of them one turn of the reactor whatever messages it    *)
(* holds. The rude peers do not run this code: they say anything and read  *)
(* nothing.                                                                *)
(***************************************************************************)
EXTENDS Naturals, Sequences, FiniteSets, Functions

Sq == INSTANCE SequencesExt

CONSTANTS Peer,             \* the peers, each standing for its nonce
          Rudes,            \* which of them may not keep to the protocol
          ident,            \* the /16 network of each peer's host
          connect_addrs,    \* pairs: the first keeps a connection to the second
          desired_conns,    \* how many outgoing connections a peer is content with
          max_attempts,     \* how many it may have under way
          max_conns,        \* how many incoming ones each takes
          SameIdent,        \* the 3 of buildProtocol: how many of them from one network
          nobody,           \* no peer
          MaxLinks,         \* bound: the connections in the network at one time
          MaxWire           \* bound: the messages on their way to one end

ASSUME PeersAssumption ==
  /\ IsFiniteSet(Peer) /\ Rudes \subseteq SUBSET Peer /\ nobody \notin Peer
  /\ {ident, max_conns} \subseteq [Peer -> Nat]
  /\ connect_addrs \subseteq Peer \X Peer
  /\ {desired_conns, max_attempts, SameIdent, MaxLinks, MaxWire} \subseteq Nat

VARIABLES rude,         \* the peers that do not keep to the protocol
          link,         \* the connections: who dialled whom, and for which factory
          end,          \* what the Protocol at each end of one knows
          wire,         \* the messages on their way to each end
          peers,        \* Node.peers: the end that reaches each nonce
          attempts,     \* ClientFactory.attempts
          conns,        \* ClientFactory.conns
          incoming,     \* ServerFactory.conns
          bans,         \* Node.bans: the hosts banned now, a host to each peer
          error         \* what a callback raised

peersVars == <<rude, link, end, wire, peers, attempts, conns, incoming, bans, error>>

Link == 1 .. MaxLinks
End  == Link \X {"out", "in"}

Far(e)    == <<e[1], IF e[2] = "out" THEN "in" ELSE "out">>
Owner(e)  == IF e[2] = "out" THEN link[e[1]].client ELSE link[e[1]].server
Remote(e) == Owner(Far(e))

Version(p) == [type |-> "version", nonce |-> p]
Old        == [type |-> "old", nonce |-> nobody]       \* the version of a peer that is too old
Ping       == [type |-> "ping", nonce |-> nobody]      \* any message that is in order
Wrong      == [type |-> "wrong", nonce |-> nobody]     \* one its handler takes for misbehaviour
Garbage    == [type |-> "garbage", nonce |-> nobody]   \* one that cannot be unpacked
Corrupt    == [type |-> "corrupt", nonce |-> nobody]   \* one whose checksum or length is wrong

Message == {Version(p) : p \in Peer} \cup {Old, Ping, Wrong, Garbage, Corrupt}

\* An end on which nothing has been heard. It is "none" before connectionMade, and
\* "aborting" between disconnect and connectionLost.
Fresh(state) == [state |-> state, other_version |-> FALSE, nonce |-> nobody]

Alive(e) == end[e].state \in {"open", "aborting"}
connected2(e) == Alive(e) /\ end[e].nonce # nobody

\* What is written to an end that is gone, or is not read by it, is lost.
Written(e, said) == IF end[e].state = "lost" \/ Owner(e) \in rude THEN wire[e] ELSE wire[e] \o said

-----------------------------------------------------------------------------
\* Dialling.

NoLink   == [client |-> nobody, server |-> nobody, kind |-> "client"]
Spare(l) == link[l] = NoLink

\* The end e goes, and the connection with it when the other end has gone.
Gone(e) ==
  /\ end' = [end EXCEPT ![e] = Fresh("lost")]
  /\ wire' = [wire EXCEPT ![e] = <<>>]
  /\ link' = IF end[Far(e)].state = "lost" THEN [link EXCEPT ![e[1]] = NoLink] ELSE link

Dial(a, b, kind) ==
  /\ ~ {a, b} \subseteq rude
  /\ \E l \in Link :
       /\ Spare(l) /\ \A k \in Link : Spare(k) => l <= k
       /\ link' = [link EXCEPT ![l] = [client |-> a, server |-> b, kind |-> kind]]
       /\ end' = [e \in End |-> IF e[1] = l THEN Fresh("none") ELSE end[e]]
       /\ wire' = [e \in End |-> IF e[1] = l THEN <<>> ELSE wire[e]]
  /\ UNCHANGED <<rude, peers, conns, incoming, bans, error>>

\* ClientFactory._think, then startedConnecting.
_think(a, b) ==
  /\ Cardinality(conns[a]) < desired_conns
  /\ Cardinality(attempts[a]) < max_attempts
  /\ ident[b] \notin attempts[a]
  /\ b \notin bans[a]
  /\ Dial(a, b, "client")
  /\ attempts' = [attempts EXCEPT ![a] = @ \cup {ident[b]}]

\* SingleClientFactory dials whenever it has no connection.
Reconnect(a, b) ==
  /\ <<a, b>> \in connect_addrs
  /\ \A l \in Link : link[l] = [client |-> a, server |-> b, kind |-> "single"] => end[<<l, "out">>].state = "lost"
  /\ Dial(a, b, "single")
  /\ UNCHANGED attempts

\* clientConnectionFailed and clientConnectionLost.
attempt_over(l) ==
  attempts' = IF link[l].kind = "single" THEN attempts
              ELSE [attempts EXCEPT ![link[l].client] = @ \ {ident[link[l].server]}]

\* Mutant: a failed attempt stays under way.
clientConnectionFailedKept(l) ==
  /\ end[<<l, "out">>].state = "none"
  /\ Gone(<<l, "out">>)
  /\ UNCHANGED <<rude, peers, attempts, conns, incoming, bans, error>>

clientConnectionFailed(l) ==
  /\ end[<<l, "out">>].state = "none"
  /\ Gone(<<l, "out">>)
  /\ attempt_over(l)
  /\ UNCHANGED <<rude, peers, conns, incoming, bans, error>>

\* connectionMade: the version is sent at once.
connectionMade(e) ==
  /\ end[e].state = "none"
  /\ end' = [end EXCEPT ![e] = Fresh("open")]
  /\ wire' = [wire EXCEPT ![Far(e)] =
                IF Owner(e) \in rude THEN @ ELSE Written(Far(e), <<Version(Owner(e))>>)]

Connected(l) ==
  /\ connectionMade(<<l, "out">>)
  /\ UNCHANGED <<rude, link, peers, attempts, conns, incoming, bans, error>>

-----------------------------------------------------------------------------
\* Being dialled.

Total(a) == FoldFunctionOnSet(+, 0, incoming[a], DOMAIN incoming[a])

\* ServerFactory.buildProtocol: whether a takes a connection of b's.
buildProtocol(a, b) ==
  /\ Total(a) < max_conns[a]
  /\ incoming[a][ident[b]] < SameIdent
  /\ b \notin bans[a]

Accept(l) ==
  LET a == link[l].server
      b == link[l].client
  IN /\ connectionMade(<<l, "in">>)
     /\ buildProtocol(a, b)
     /\ incoming' = [incoming EXCEPT ![a][ident[b]] = @ + 1]
     /\ UNCHANGED <<rude, link, peers, attempts, conns, bans, error>>

\* The connection is refused, or the client has given up before it was accepted.
Refuse(l) ==
  /\ end[<<l, "in">>].state = "none"
  /\ ~buildProtocol(link[l].server, link[l].client) \/ end[<<l, "out">>].state = "lost"
  /\ Gone(<<l, "in">>)
  /\ UNCHANGED <<rude, peers, attempts, conns, incoming, bans, error>>

-----------------------------------------------------------------------------
(***************************************************************************)
(* One chunk of messages. The working record s holds what the end knows,   *)
(* the owner's peers and conns, whether the remote host was banned, what   *)
(* was written, and whether the parser has stopped.                        *)
(***************************************************************************)

disconnect(s) == [s EXCEPT !.self.state = "aborting"]

badPeerHappened(s) == [disconnect(s) EXCEPT !.banned = TRUE]

\* proto_connected and got_conn, and the first messages to the new peer.
got_conn(s, e, nonce) ==
  IF nonce \in DOMAIN s.peers THEN [disconnect(s) EXCEPT !.stopped = TRUE, !.error = "ValueError"]
  ELSE [s EXCEPT !.self.nonce = nonce,
                 !.peers = [p \in DOMAIN @ \cup {nonce} |-> IF p = nonce THEN e ELSE @[p]],
                 !.conns = IF e[2] = "out" /\ link[e[1]].kind = "client" THEN @ \cup {e[1]} ELSE @,
                 !.said = Append(@, Ping)]

\* Mutants: neither a connection to itself nor a second one to a peer is looked for.
OwnNonceMissed(e, m) == FALSE
DuplicateMissed(s, m) == FALSE

\* What the version message tells: the peer is this node, or one already connected.
OwnNonce(e, m) == m.nonce = Owner(e)
Duplicate(s, m) == m.nonce \in DOMAIN s.peers

\* Mutant: a version message leaves no trace.
HeardNothing(s) == s

Heard(s) == [s EXCEPT !.self.other_version = TRUE]

\* Mutant: a duplicate is left alone, and its connection open.
TurnAwayLater(s) == s

\* The end of a duplicate.
TurnAway(s) == disconnect(s)

handle_version(s, e, m) ==
  LET new == ~s.self.other_version /\ m # Old
  IN CASE ~new                                            -> badPeerHappened(s)
       [] new /\ OwnNonce(e, m)                           -> badPeerHappened(Heard(s))
       [] new /\ ~OwnNonce(e, m) /\ Duplicate(s, m)       -> TurnAway(Heard(s))
       [] new /\ ~OwnNonce(e, m) /\ ~Duplicate(s, m)      -> got_conn(Heard(s), e, m.nonce)

\* The parser's step for one message. A disconnect does not stop it.
packetReceived(s, e, m) ==
  LET version == m.type \in {"version", "old"}
      first   == s.self.nonce = nobody
  IN CASE s.stopped                                     -> s
       [] ~s.stopped /\ m = Garbage                     -> [disconnect(s) EXCEPT !.stopped = TRUE]
       [] ~s.stopped /\ m = Corrupt                     -> [badPeerHappened(s) EXCEPT !.stopped = TRUE]
       [] ~s.stopped /\ version                         -> handle_version(s, e, m)
       [] ~s.stopped /\ m \in {Ping, Wrong} /\ first    -> badPeerHappened(s)
       [] ~s.stopped /\ m = Ping /\ ~first              -> s
       [] ~s.stopped /\ m = Wrong /\ ~first             -> badPeerHappened(s)

\* What TCP may hand over at once: the next messages written, or whatever a rude peer says.
Chunks(e) ==
  IF Remote(e) \in rude
  THEN UNION {[1 .. k -> Message] : k \in 1 .. MaxWire}
  ELSE {SubSeq(wire[e], 1, k) : k \in 1 .. Len(wire[e])}

\* What a chunk leaves in the working record.
Received(e, chunk) ==
  Sq!FoldLeft(LAMBDA s, m : packetReceived(s, e, m),
    [self |-> end[e], peers |-> peers[Owner(e)], conns |-> conns[Owner(e)], banned |-> FALSE,
     said |-> <<>>, stopped |-> FALSE, error |-> "none"],
    chunk)

dataReceived(e, chunk) ==
  LET a == Owner(e)
      s == Received(e, chunk)
  IN /\ end[e].state = "open" /\ a \notin rude
     /\ end' = [end EXCEPT ![e] = s.self]
     /\ wire' = [wire EXCEPT ![e] = SubSeq(@, Len(chunk) + 1, Len(@)),
                             ![Far(e)] = Written(Far(e), IF s.self.state = "open" THEN s.said ELSE <<>>)]
     /\ peers' = [peers EXCEPT ![a] = s.peers]
     /\ conns' = [conns EXCEPT ![a] = s.conns]
     /\ bans' = [bans EXCEPT ![a] = IF s.banned THEN @ \cup {Remote(e)} ELSE @]
     /\ error' = s.error
     /\ UNCHANGED <<rude, link, attempts, incoming>>

\* _connect_timeout and _timeout.
_timeout(e) ==
  /\ end[e].state = "open"
  /\ end' = [end EXCEPT ![e].state = "aborting"]
  /\ UNCHANGED <<rude, link, wire, peers, attempts, conns, incoming, bans, error>>

\* proto_disconnected and lost_conn: whether they find what they take out.
Known(e) ==
  LET a == Owner(e)
  IN /\ end[e].nonce \in DOMAIN peers[a] /\ peers[a][end[e].nonce] = e
     /\ e[2] = "out" /\ link[e[1]].kind = "client" => e[1] \in conns[a]

\* Mutant: an incoming connection that was never established keeps its place.
proto_lost_connection_established(e) ==
  incoming' = IF connected2(e) THEN [incoming EXCEPT ![Owner(e)][ident[Remote(e)]] = @ - 1]
              ELSE incoming

\* ServerFactory.proto_lost_connection.
proto_lost_connection(e) ==
  incoming' = [incoming EXCEPT ![Owner(e)][ident[Remote(e)]] = @ - 1]

\* The end was aborted, or the far end is gone: an established end leaves Node.peers,
\* and every end the counts of its factory.
connectionLost(e) ==
  LET a == Owner(e)
  IN /\ end[e].state = "aborting" \/ (end[e].state = "open" /\ end[Far(e)].state = "lost")
     /\ Gone(e)
     /\ IF connected2(e) /\ ~Known(e)
        THEN error' = "ValueError" /\ UNCHANGED <<peers, conns, incoming, attempts>>
        ELSE /\ error' = "none"
             /\ peers' = [peers EXCEPT ![a] =
                            [p \in DOMAIN @ \ {end[e].nonce} |-> @[p]]]
             /\ conns' = [conns EXCEPT ![a] = IF e[2] = "out" THEN @ \ {e[1]} ELSE @]
             /\ IF e[2] = "in"
                THEN proto_lost_connection(e) /\ UNCHANGED attempts
                ELSE attempt_over(e[1]) /\ UNCHANGED incoming
     /\ UNCHANGED <<rude, bans>>

\* A ban runs out.
Expire(a, b) ==
  /\ b \in bans[a]
  /\ bans' = [bans EXCEPT ![a] = @ \ {b}]
  /\ UNCHANGED <<rude, link, end, wire, peers, attempts, conns, incoming, error>>

-----------------------------------------------------------------------------
Init ==
  /\ rude \in Rudes
  /\ link = [l \in Link |-> NoLink]
  /\ end = [e \in End |-> Fresh("lost")]
  /\ wire = [e \in End |-> <<>>]
  /\ peers = [a \in Peer |-> <<>>]
  /\ attempts = [a \in Peer |-> {}]
  /\ conns = [a \in Peer |-> {}]
  /\ incoming = [a \in Peer |-> [i \in {ident[b] : b \in Peer} |-> 0]]
  /\ bans = [a \in Peer |-> {}]
  /\ error = "none"

Next ==
  \/ \E a, b \in Peer : _think(a, b) \/ Reconnect(a, b) \/ Expire(a, b)
  \/ \E l \in Link : Connected(l) \/ clientConnectionFailed(l) \/ Accept(l) \/ Refuse(l)
  \/ \E e \in End :
       \/ end[e].state = "open" /\ \E chunk \in Chunks(e) : dataReceived(e, chunk)
       \/ _timeout(e)
       \/ connectionLost(e)

Spec == Init /\ [][Next]_peersVars

-----------------------------------------------------------------------------
\* The types of the variables; no more waits on a wire than the version and the message
\* to a new peer.
PeersTypeOK ==
  /\ \A l \in Link : link[l].client \in Peer \cup {nobody} /\ link[l].server \in Peer \cup {nobody}
  /\ \A e \in End : /\ end[e].state \in {"none", "open", "aborting", "lost"}
                    /\ end[e].nonce \in Peer \cup {nobody}
                    /\ end[e].other_version \in BOOLEAN
                    /\ end[e].nonce # nobody => end[e].other_version
                    /\ Len(wire[e]) <= 2
  /\ \A a \in Peer : /\ DOMAIN peers[a] \subseteq Peer /\ attempts[a] \subseteq {ident[b] : b \in Peer}
                     /\ conns[a] \subseteq Link /\ bans[a] \subseteq Peer
  /\ error \in {"none", "ValueError"}

\* Node.peers holds each established end of a peer exactly once, under the nonce it heard
\* there, never its own; so no two live connections of a peer reach the same nonce, and
\* ClientFactory.conns are the outgoing ones among them.
PeersExact ==
  \A a \in Peer :
    LET up == {e \in End : connected2(e) /\ Owner(e) = a}
    IN /\ {peers[a][p] : p \in DOMAIN peers[a]} = up
       /\ \A p \in DOMAIN peers[a] : end[peers[a][p]].nonce = p
       /\ a \notin DOMAIN peers[a]
       /\ conns[a] = {l \in Link : <<l, "out">> \in up /\ link[l].kind = "client"}

IncomingExact ==
  \A a \in Peer :
    /\ Total(a) <= max_conns[a]
    /\ \A i \in DOMAIN incoming[a] :
         /\ incoming[a][i] <= SameIdent
         /\ incoming[a][i] =
              Cardinality({l \in Link : Alive(<<l, "in">>) /\ link[l].server = a /\ ident[link[l].client] = i})

AttemptsExact ==
  \A a \in Peer :
    LET live == {l \in Link : /\ end[<<l, "out">>].state # "lost"
                              /\ link[l].client = a /\ link[l].kind = "client"}
    IN /\ attempts[a] = {ident[link[l].server] : l \in live}
       /\ Cardinality(attempts[a]) = Cardinality(live)
       /\ Cardinality(live) <= max_attempts

\* ServerFactory.conns counts the live incoming connections of each network, which are
\* never more than the limits; and ClientFactory.attempts are the networks the client
\* factory is connected to or is dialling: none is left behind, none dialled twice.
CountsExact == IncomingExact /\ AttemptsExact

\* got_conn and lost_conn never raise: no callback of the reactor is cut short.
NoRaise == error = "none"

\* Once everything sent has been read and every loss has been noticed, an end is
\* established exactly when the other is: no peer keeps a peer that dropped it.
Mutual ==
  \A l \in Link :
    LET i == <<l, "in">>
        o == <<l, "out">>
    IN {link[l].client, link[l].server} \cap rude = {}
       /\ {end[i].state, end[o].state} = {"open"} /\ wire[i] = <<>> /\ wire[o] = <<>>
       => connected2(i) /\ connected2(o)

\* Only misbehaviour is punished: "Do not reject a peer only because another connection
\* from the same IP address exists", and a duplicate is disconnected, not banned.
HonestNotBanned == \A a \in Peer : bans[a] \subseteq rude \cup {a}
=============================================================================
