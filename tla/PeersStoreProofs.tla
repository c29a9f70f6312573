-------------------------- MODULE PeersStoreProofs --------------------------
(***************************************************************************)
(* Proofs about what a node keeps outside its memory of shares: the tables *)
(* of its peers (Peers), and the files of its shares (ShareStore).         *)
(*                                                                         *)
(* Of the files: nothing that was saved is lost while every write is       *)
(* whole, and nothing is kept for ever: proved for every tree of shares,   *)
(* every size of a file and every number of files.                         *)
(*                                                                         *)
(* That saved lines survive is not inductive: a file may go with what it   *)
(* holds. It does not because the store wants every saved line in some     *)
(* file (Wanted), wants of a file only what is in it (KnownIsStored), and  *)
(* no file ends in the middle of a line (Unbroken).                        *)
(*                                                                         *)
(* When writes stop halfway, each spoils two saved lines at most, whatever *)
(* files go and however often the node starts again (LossInv).             *)
(***************************************************************************)
EXTENDS Peers, ShareStore, FoldLemmas, SequenceTheorems

-----------------------------------------------------------------------------
\* The tables of the peers.

Hosts    == {ident[b] : b \in Peer}
LinkSet  == [client : Peer \cup {nobody}, server : Peer \cup {nobody}, kind : {"client", "single"}]
EndState == [state : {"none", "open", "aborting", "lost"}, other_version : BOOLEAN,
             nonce : Peer \cup {nobody}]
Tables   == UNION {[D -> End] : D \in SUBSET Peer}

Types ==
  /\ rude \in SUBSET Peer
  /\ link \in [Link -> LinkSet]
  /\ end \in [End -> EndState]
  /\ wire \in [End -> Seq(Message)]
  /\ peers \in [Peer -> Tables]
  /\ attempts \in [Peer -> SUBSET Hosts]
  /\ conns \in [Peer -> SUBSET Link]
  /\ incoming \in [Peer -> [Hosts -> Nat]]
  /\ bans \in [Peer -> SUBSET Peer]
  /\ error \in {"none", "ValueError"}

\* A connection is two peers' until both its ends are gone.
LinksKept ==
  \A l \in Link :
    IF link[l] = NoLink THEN end[<<l, "out">>].state = "lost" /\ end[<<l, "in">>].state = "lost"
    ELSE link[l].client \in Peer /\ link[l].server \in Peer

\* What an end has heard: nothing before it is open, and a version that left it open
\* established it.
HeardInOrder ==
  \A e \in End :
    /\ end[e].state \in {"none", "lost"} => end[e] = Fresh(end[e].state)
    /\ end[e].nonce # nobody => end[e].other_version
    /\ end[e].nonce # nobody => end[e].nonce # Owner(e)
    /\ end[e].state = "open" /\ end[e].other_version => end[e].nonce # nobody

\* Node.peers, read both ways.
TablesExact ==
  /\ \A a \in Peer : \A p \in DOMAIN peers[a] :
       connected2(peers[a][p]) /\ Owner(peers[a][p]) = a /\ end[peers[a][p]].nonce = p
  /\ \A e \in End : connected2(e) =>
       end[e].nonce \in DOMAIN peers[Owner(e)] /\ peers[Owner(e)][end[e].nonce] = e

ConnsExact ==
  \A a \in Peer : \A l \in Link :
    l \in conns[a] <=> connected2(<<l, "out">>) /\ link[l].client = a /\ link[l].kind = "client"

\* The client's attempts: one for each connection of the client factory, no two of which
\* are to one network.
Live(a) == {l \in Link : end[<<l, "out">>].state # "lost" /\ link[l].client = a /\ link[l].kind = "client"}
OneEach(a) == /\ attempts[a] = {ident[link[l].server] : l \in Live(a)}
              /\ \A k, l \in Live(a) : ident[link[k].server] = ident[link[l].server] => k = l
              /\ Cardinality(attempts[a]) <= max_attempts
AttemptsLive == \A a \in Peer : OneEach(a)

Into(a, i) == {l \in Link : Alive(<<l, "in">>) /\ link[l].server = a /\ ident[link[l].client] = i}
IncomingLive ==
  \A a \in Peer :
    /\ Total(a) <= max_conns[a]
    /\ \A i \in Hosts : incoming[a][i] <= SameIdent /\ incoming[a][i] = Cardinality(Into(a, i))

\* What is on its way to an end: at most the version and one message, the version first.
WiresShort ==
  \A e, d \in End : d = Far(e) =>
    /\ Len(wire[e]) <= 2
    /\ end[d].state = "none" => wire[e] = <<>>
    /\ Alive(d) /\ end[d].nonce = nobody => Len(wire[e]) <= 1

\* An end that has not established a connection which the far end holds open is yet to hear
\* the version, and it comes first.
Greeted ==
  \A e, d \in End : d = Far(e) =>
    (/\ end[e].state \in {"none", "open"} /\ end[d].state = "open"
     /\ Owner(e) \notin rude /\ Owner(d) \notin rude
     /\ end[e].nonce = nobody
     => ~ end[e].other_version /\ wire[e] # <<>> /\ wire[e][1] = Version(Owner(d)))

IInv == /\ Types /\ LinksKept /\ HeardInOrder /\ TablesExact /\ ConnsExact
        /\ AttemptsLive /\ IncomingLive /\ WiresShort /\ Greeted /\ NoRaise

-----------------------------------------------------------------------------
(***************************************************************************)
(* The working record of a chunk.                                          *)
(***************************************************************************)
WorkingRecord == [self : EndState, peers : Tables, conns : SUBSET Link, banned : BOOLEAN,
                  said : Seq(Message), stopped : BOOLEAN, error : {"none", "ValueError"}]

Untouched(s, e) == /\ s.self.nonce = end[e].nonce /\ s.said = <<>>
                   /\ s.peers = peers[Owner(e)] /\ s.conns = conns[Owner(e)]

\* What got_conn makes of the tables a and c of a peer.
With(a, n, e) == [p \in DOMAIN a \cup {n} |-> IF p = n THEN e ELSE a[p]]
Joined(c, e) == IF e[2] = "out" /\ link[e[1]].kind = "client" THEN c \cup {e[1]} ELSE c

Established(s, e) ==
  /\ end[e].nonce = nobody /\ s.said = <<Ping>>
  /\ s.self.nonce \in Peer /\ s.self.nonce # Owner(e) /\ s.self.nonce \notin DOMAIN peers[Owner(e)]
  /\ s.peers = With(peers[Owner(e)], s.self.nonce, e) /\ s.conns = Joined(conns[Owner(e)], e)

Working(e) ==
  {s \in WorkingRecord :
     /\ s.error = "none" /\ s.self.state \in {"open", "aborting"}
     /\ s.self.nonce # nobody => s.self.other_version
     /\ s.self.state = "open" /\ s.self.other_version => s.self.nonce # nobody
     /\ Untouched(s, e) \/ Established(s, e)}

LEMMA Messages ==
  ASSUME NEW m \in Message
  PROVE  /\ m.type \in {"version", "old"} => (m # Old => m.type = "version" /\ m.nonce \in Peer)
         /\ m.type = "version" => m # Old /\ m # Garbage /\ m # Corrupt
         /\ m.type \notin {"version", "old"} => m \in {Ping, Wrong, Garbage, Corrupt}
  BY DEF Message, Version, Old, Ping, Wrong, Garbage, Corrupt

LEMMA DisconnectKeeps ==
  ASSUME NEW e \in End, NEW s \in Working(e), nobody \notin Peer
  PROVE  /\ disconnect(s) \in Working(e) /\ badPeerHappened(s) \in Working(e)
         /\ disconnect(s).self.other_version = s.self.other_version
         /\ badPeerHappened(s).self.other_version = s.self.other_version
         /\ [disconnect(s) EXCEPT !.stopped = TRUE] \in Working(e)
         /\ [badPeerHappened(s) EXCEPT !.stopped = TRUE] \in Working(e)
         /\ [disconnect(s) EXCEPT !.stopped = TRUE].self.other_version = s.self.other_version
         /\ [badPeerHappened(s) EXCEPT !.stopped = TRUE].self.other_version = s.self.other_version
  BY DEF disconnect, badPeerHappened, Working, WorkingRecord, EndState, Untouched, Established

LEMMA TablesGrow ==
  ASSUME NEW e \in End, NEW t \in Tables, NEW n \in Peer
  PROVE  With(t, n, e) \in Tables /\ DOMAIN With(t, n, e) = DOMAIN t \cup {n}
  <1>1. PICK D \in SUBSET Peer : t \in [D -> End]
    BY DEF Tables
  <1>2. With(t, n, e) \in [D \cup {n} -> End]
    BY <1>1 DEF With
  <1>3. D \cup {n} \in SUBSET Peer
    OBVIOUS
  <1> QED BY <1>1, <1>2, <1>3 DEF Tables, With

LEMMA GotConnKeeps ==
  ASSUME NEW e \in End, NEW s \in Working(e), nobody \notin Peer, s.self.nonce = nobody,
         NEW n \in Peer, n \notin DOMAIN s.peers, n # Owner(e)
  PROVE  got_conn(Heard(s), e, n) \in Working(e) /\ got_conn(Heard(s), e, n).self.other_version
  <1> DEFINE h == Heard(s)
             r == got_conn(h, e, n)
  <1>1. /\ s.peers = peers[Owner(e)] /\ s.conns = conns[Owner(e)] /\ s.said = <<>> /\ end[e].nonce = nobody
        /\ s \in WorkingRecord
    BY DEF Working, Untouched, Established
  <1>2. /\ h.peers = s.peers /\ h.conns = s.conns /\ h.said = s.said
        /\ h \in WorkingRecord /\ h.self = [s.self EXCEPT !.other_version = TRUE] /\ h.error = s.error
    BY <1>1 DEF Heard, WorkingRecord, EndState
  <1>3. r = [h EXCEPT !.self.nonce = n, !.peers = With(@, n, e), !.conns = Joined(@, e), !.said = Append(@, Ping)]
    BY <1>2 DEF got_conn, With, Joined
  <1>4. With(s.peers, n, e) \in Tables /\ Joined(s.conns, e) \in SUBSET Link
    <2>1. e[1] \in Link
      BY DEF End
    <2> QED BY <2>1, <1>1, TablesGrow DEF WorkingRecord, Joined
  <1>5. Append(<<>>, Ping) = <<Ping>> /\ <<Ping>> \in Seq(Message)
    BY DEF Message
  <1> HIDE DEF r, h
  <1>6. /\ r.self = [s.self EXCEPT !.other_version = TRUE, !.nonce = n] /\ r.peers = With(s.peers, n, e)
        /\ r.conns = Joined(s.conns, e) /\ r.said = <<Ping>> /\ r.error = s.error
        /\ r \in WorkingRecord
    <2>1. s.self \in EndState /\ h.self \in EndState
      BY <1>1, <1>2 DEF WorkingRecord
    <2>2. [h.self EXCEPT !.nonce = n] \in EndState
      BY <2>1 DEF EndState
    <2>3. [h.self EXCEPT !.nonce = n] = [s.self EXCEPT !.other_version = TRUE, !.nonce = n]
      BY <1>2, <2>1 DEF EndState
    <2>4. r = [h EXCEPT !.self = [h.self EXCEPT !.nonce = n], !.peers = With(s.peers, n, e),
                        !.conns = Joined(s.conns, e), !.said = <<Ping>>]
      BY <1>1, <1>2, <1>3, <1>5
    <2> HIDE DEF WorkingRecord
    <2> QED BY <1>2, <1>4, <1>5, <2>2, <2>3, <2>4 DEF WorkingRecord
  <1>7. r.self.other_version /\ r.self.nonce = n /\ r.self.state = s.self.state
    BY <1>6, <1>1 DEF WorkingRecord, EndState
  <1>8. Established(r, e)
    BY <1>1, <1>6, <1>7 DEF Established
  <1>9. r \in Working(e)
    BY <1>6, <1>7, <1>8 DEF Working
  <1> QED BY <1>7, <1>9 DEF r, h

\* One message, whatever it is, leaves the working record in order; the version is not
\* forgotten, and once it was read it has been noted.
LEMMA MessageKeeps ==
  ASSUME NEW e \in End, NEW s \in Working(e), NEW m \in Message, nobody \notin Peer
  PROVE  /\ packetReceived(s, e, m) \in Working(e)
         /\ s.self.other_version => packetReceived(s, e, m).self.other_version
         /\ ~ s.stopped /\ m.type = "version" => packetReceived(s, e, m).self.other_version
  <1>1. CASE s.stopped
    BY <1>1 DEF packetReceived
  <1>2. CASE ~ s.stopped /\ m.type \notin {"version", "old"}
    <2>1. packetReceived(s, e, m) \in {s, badPeerHappened(s), [disconnect(s) EXCEPT !.stopped = TRUE],
                                       [badPeerHappened(s) EXCEPT !.stopped = TRUE]}
      <3>1. m \in {Ping, Wrong, Garbage, Corrupt}
        BY <1>2, Messages
      <3>2. Garbage # Ping /\ Garbage # Wrong /\ Garbage # Corrupt /\ Corrupt # Ping /\ Corrupt # Wrong /\ Ping # Wrong
        BY DEF Ping, Wrong, Garbage, Corrupt
      <3>3. CASE m = Garbage
        BY <1>2, <3>2, <3>3 DEF packetReceived
      <3>4. CASE m = Corrupt
        BY <1>2, <3>2, <3>4 DEF packetReceived
      <3>5. CASE m = Ping
        BY <1>2, <3>2, <3>5 DEF packetReceived
      <3>6. CASE m = Wrong
        BY <1>2, <3>2, <3>6 DEF packetReceived
      <3> QED BY <3>1, <3>3, <3>4, <3>5, <3>6
    <2>2. m.type # "version"
      BY <1>2
    <2>3. ASSUME NEW r \in {s, badPeerHappened(s), [disconnect(s) EXCEPT !.stopped = TRUE],
                            [badPeerHappened(s) EXCEPT !.stopped = TRUE]}
          PROVE  r \in Working(e) /\ r.self.other_version = s.self.other_version
      BY DisconnectKeeps
    <2> QED BY <2>1, <2>2, <2>3
  <1>3. CASE ~ s.stopped /\ m.type \in {"version", "old"}
    <2>1. packetReceived(s, e, m) = handle_version(s, e, m)
      <3>1. m # Garbage /\ m # Corrupt /\ m # Ping /\ m # Wrong
        BY <1>3 DEF Ping, Wrong, Garbage, Corrupt
      <3> QED BY <1>3, <3>1 DEF packetReceived
    <2>2. CASE s.self.other_version \/ m = Old
      <3>1. handle_version(s, e, m) = badPeerHappened(s)
        BY <2>2 DEF handle_version
      <3>2. m.type = "version" => s.self.other_version
        BY <2>2 DEF Old
      <3> QED BY <2>1, <3>1, <3>2, DisconnectKeeps
    <2>3. CASE ~ s.self.other_version /\ m # Old
      <3>1. m.nonce \in Peer /\ s.self.nonce = nobody
        BY <1>3, <2>3, Messages DEF Working
      <3> DEFINE h == Heard(s)
      <3>2. /\ h.self.other_version /\ h.self.nonce = nobody /\ h.peers = s.peers
            /\ disconnect(h) \in Working(e) /\ badPeerHappened(h) \in Working(e)
            /\ disconnect(h).self.other_version /\ badPeerHappened(h).self.other_version
        BY <3>1 DEF Heard, disconnect, badPeerHappened, Working, WorkingRecord, EndState, Untouched, Established
      <3> HIDE DEF h
      <3>3. CASE OwnNonce(e, m)
        <4>1. handle_version(s, e, m) = badPeerHappened(h)
          BY <2>3, <3>3 DEF handle_version, h
        <4> QED BY <2>1, <3>2, <4>1
      <3>4. CASE ~ OwnNonce(e, m) /\ Duplicate(s, m)
        <4>1. handle_version(s, e, m) = disconnect(h)
          BY <2>3, <3>4 DEF handle_version, TurnAway, h
        <4> QED BY <2>1, <3>2, <4>1
      <3>5. CASE ~ OwnNonce(e, m) /\ ~ Duplicate(s, m)
        <4>1. handle_version(s, e, m) = got_conn(Heard(s), e, m.nonce)
          BY <2>3, <3>5 DEF handle_version
        <4>2. m.nonce \notin DOMAIN s.peers /\ m.nonce # Owner(e)
          BY <3>5 DEF OwnNonce, Duplicate
        <4> QED BY <2>1, <3>1, <4>1, <4>2, GotConnKeeps
      <3> QED BY <3>3, <3>4, <3>5
    <2> QED BY <2>2, <2>3
  <1> QED BY <1>1, <1>2, <1>3

Start(e) == [self |-> end[e], peers |-> peers[Owner(e)], conns |-> conns[Owner(e)], banned |-> FALSE,
             said |-> <<>>, stopped |-> FALSE, error |-> "none"]

\* What a chunk leaves in the working record.
LEMMA ReceivedKeeps ==
  ASSUME NEW e \in End, NEW chunk \in Seq(Message), nobody \notin Peer, Start(e) \in Working(e)
  PROVE  /\ Received(e, chunk) \in Working(e)
         /\ Len(chunk) > 0 /\ chunk[1].type = "version" => Received(e, chunk).self.other_version
  <1> DEFINE R    == Working(e)
             step == [p \in R \X Message |-> packetReceived(p[1], e, p[2])]
  <1>1. step \in [R \X Message -> R]
    BY MessageKeeps
  <1>2. ASSUME NEW s \in R, NEW m \in Message PROVE step[s, m] = packetReceived(s, e, m)
    OBVIOUS
  <1> HIDE DEF R
  <1>3. \A i \in DOMAIN chunk : chunk[i] \in Message
    OBVIOUS
  <1>4. ASSUME NEW t \in SUBSET DOMAIN chunk, t # {}
        PROVE  Sq!Max(t) = Top(t) /\ Top(t) \in DOMAIN chunk /\ t \ {Top(t)} \in SUBSET DOMAIN chunk
    <2>1. Sq!Max(t) = Top(t)
      BY DEF Sq!Max, Top
    <2>2. DOMAIN chunk = 1 .. Len(chunk) /\ Len(chunk) \in Nat
      OBVIOUS
    <2> QED BY <1>4, <2>1, <2>2, TopOfIndices
  <1> DEFINE Is(g) == g = [t \in SUBSET DOMAIN chunk |->
                             IF t = {} THEN Start(e)
                             ELSE packetReceived(g[t \ {Sq!Max(t)}], e, chunk[Sq!Max(t)])]
             G == CHOOSE g : Is(g)
  <1>5. Received(e, chunk) = G[DOMAIN chunk]
    BY DEF Received, Sq!FoldLeft, Sq!MapThenFoldSet, Start
  <1>6. Is(G)
    <2>1. PICK g \in [SUBSET DOMAIN chunk -> R] : Folds(g, step, Start(e), chunk)
      <3> HIDE DEF step
      <3> QED BY <1>1, FoldExists DEF R
    <2>2. ASSUME NEW t \in SUBSET DOMAIN chunk
          PROVE  g[t] = IF t = {} THEN Start(e)
                        ELSE packetReceived(g[t \ {Sq!Max(t)}], e, chunk[Sq!Max(t)])
      <3>1. CASE t = {}
        BY <2>1, <3>1 DEF Folds
      <3>2. CASE t # {}
        <4>1. g[t] = step[g[t \ {Top(t)}], chunk[Top(t)]]
          BY <2>1, <3>2 DEF Folds
        <4> HIDE DEF step
        <4> QED BY <1>2, <1>3, <1>4, <3>2, <4>1
      <3> QED BY <3>1, <3>2
    <2>3. g = [t \in SUBSET DOMAIN chunk |-> g[t]]
      OBVIOUS
    <2>4. Is(g)
      BY <2>2, <2>3
    <2> HIDE DEF Is
    <2> QED BY <2>4
  <1>7. FoldsIn(R, G, step, Start(e), chunk)
    <2>1. ASSUME NEW t \in SUBSET DOMAIN chunk
          PROVE  G[t] = IF t = {} THEN Start(e)
                        ELSE packetReceived(G[t \ {Sq!Max(t)}], e, chunk[Sq!Max(t)])
      <3> HIDE DEF G
      <3> QED BY <1>6
    <2> HIDE DEF G
    <2>2. G[{}] = Start(e)
      BY <2>1
    <2>3. ASSUME NEW t \in SUBSET DOMAIN chunk, t # {}, G[t \ {Top(t)}] \in R
          PROVE  G[t] = step[G[t \ {Top(t)}], chunk[Top(t)]]
      <3>1. G[t] = packetReceived(G[t \ {Top(t)}], e, chunk[Top(t)])
        BY <1>4, <2>1, <2>3
      <3> HIDE DEF step
      <3> QED BY <1>2, <1>3, <1>4, <2>3, <3>1
    <2> HIDE DEF step
    <2> QED BY <2>2, <2>3 DEF FoldsIn
  <1> HIDE DEF G, step, Is
  <1>8. PICK f : Along(f, R, G, step, Start(e), chunk)
    BY <1>1, <1>7, FoldSteps DEF R
  <1>9. Received(e, chunk) = f[Len(chunk)] /\ f[Len(chunk)] \in R
    BY <1>5, <1>8 DEF Along
  <1> DEFINE T == {n \in 0 .. Len(chunk) : n > 0 => f[n].self.other_version}
  <1>10. ASSUME Len(chunk) > 0, chunk[1].type = "version" PROVE f[Len(chunk)].self.other_version
    <2>1. 0 \in T
      OBVIOUS
    <2>2. ASSUME NEW n \in 1 .. Len(chunk), n - 1 \in T PROVE n \in T
      <3>1. n - 1 \in 0 .. Len(chunk) /\ n \in 0 .. Len(chunk) /\ n > 0 /\ chunk[n] \in Message
        BY <1>3
      <3>2. f[n - 1] \in R
        BY <1>8, <3>1 DEF Along
      <3>3. f[n] = packetReceived(f[n - 1], e, chunk[n])
        <4>1. f[n] = step[f[n - 1], chunk[n]]
          BY <1>8 DEF Along
        <4> QED BY <1>2, <3>1, <3>2, <4>1
      <3>4. f[n].self.other_version
        <4>1. CASE n = 1
          <5>1. f[n - 1] = Start(e)
            <6>1. n - 1 = 0
              BY <4>1
            <6> QED BY <1>8, <6>1 DEF Along
          <5>2. ~ Start(e).stopped
            BY DEF Start
          <5> QED BY <1>10, <3>1, <3>2, <3>3, <4>1, <5>1, <5>2, MessageKeeps DEF R
        <4>2. CASE n # 1
          <5>1. f[n - 1].self.other_version
            BY <2>2, <4>2
          <5> QED BY <3>1, <3>2, <3>3, <5>1, MessageKeeps DEF R
        <4> QED BY <4>1, <4>2
      <3> QED BY <3>1, <3>4
    <2>3. Len(chunk) \in T
      <3>1. Len(chunk) \in Nat /\ Len(chunk) \in 0 .. Len(chunk)
        OBVIOUS
      <3> HIDE DEF T
      <3>2. \A n \in 1 .. Len(chunk) : n - 1 \in T => n \in T
        BY <2>2
      <3>3. \A n \in 0 .. Len(chunk) : n \in T
        BY <3>1, <2>1, <3>2, UpTo
      <3> QED BY <3>1, <3>3
    <2> QED BY <1>10, <2>3
  <1> QED BY <1>9, <1>10 DEF R

-----------------------------------------------------------------------------
LEMMA Ends ==
  /\ \A e \in End : e[1] \in Link /\ e[2] \in {"out", "in"} /\ e = <<e[1], e[2]>>
  /\ \A e \in End : Far(e) \in End /\ Far(e) # e /\ Far(Far(e)) = e /\ Far(e)[1] = e[1]
  /\ \A l \in Link : /\ <<l, "out">> \in End /\ <<l, "in">> \in End
                     /\ Far(<<l, "out">>) = <<l, "in">> /\ Far(<<l, "in">>) = <<l, "out">>
                     /\ Owner(<<l, "out">>) = link[l].client /\ Owner(<<l, "in">>) = link[l].server
  /\ \A e, d \in End : d[1] = e[1] => d \in {e, Far(e)}
  BY DEF End, Far, Owner

\* An end that is not gone belongs to two peers.
LEMMA Owned ==
  ASSUME LinksKept, NEW e \in End, end[e].state # "lost"
  PROVE  /\ link[e[1]] # NoLink /\ link[e[1]].client \in Peer /\ link[e[1]].server \in Peer
         /\ Owner(e) \in Peer /\ Remote(e) \in Peer
  BY Ends DEF LinksKept, Owner, Remote, Far

LEMMA Constants ==
  /\ IsFiniteSet(Peer) /\ nobody \notin Peer /\ IsFiniteSet(Hosts) /\ IsFiniteSet(Link)
  /\ \A a \in Peer : ident[a] \in Hosts /\ ident[a] \in Nat /\ max_conns[a] \in Nat
  /\ desired_conns \in Nat /\ max_attempts \in Nat /\ SameIdent \in Nat /\ MaxLinks \in Nat
  <1>1. IsFiniteSet(Hosts)
    <2>1. ident \in [Peer -> Hosts]
      BY PeersAssumption DEF Hosts
    <2>2. ident \in Surjection(Peer, Hosts)
      BY <2>1 DEF Surjection, Hosts
    <2> QED BY <2>2, PeersAssumption, FS_Surjection DEF ExistsSurjection
  <1>2. IsFiniteSet(Link)
    BY PeersAssumption, FS_Interval DEF Link
  <1> QED BY <1>1, <1>2, PeersAssumption DEF Hosts

LEMMA TotalIsSum ==
  ASSUME NEW a \in Peer
  PROVE  Total(a) = SumOf(incoming[a]) /\ Total(a)' = SumOf(incoming'[a])
  BY DEF Total, SumOf, FoldFunctionOnSet, MapThenFoldSet

LEMMA InitIInv == Init => IInv
  <1> SUFFICES ASSUME Init PROVE IInv
    OBVIOUS
  <1>1. <<>> \in Tables /\ DOMAIN <<>> = {} /\ <<>> \in Seq(Message)
    <2>1. <<>> = [p \in {} |-> p]
      OBVIOUS
    <2>2. [p \in {} |-> p] \in [{} -> End]
      OBVIOUS
    <2>3. <<>> \in Tables
      BY <2>1, <2>2 DEF Tables
    <2> QED BY <2>3
  <1>2. Types
    BY <1>1, PeersAssumption DEF Init, Types, NoLink, LinkSet, Fresh, EndState, Hosts
  <1>3. LinksKept
    BY Ends DEF Init, LinksKept, Fresh
  <1>4. HeardInOrder
    BY Ends DEF Init, HeardInOrder, Fresh
  <1>5. TablesExact /\ ConnsExact
    BY <1>1, Ends DEF Init, TablesExact, ConnsExact, connected2, Fresh, Alive
  <1>6. AttemptsLive
    <2>1. \A a \in Peer : Live(a) = {}
      BY Ends DEF Init, Live, Fresh
    <2> QED BY <2>1, Constants, FS_EmptySet DEF Init, AttemptsLive, OneEach
  <1>7. IncomingLive
    <2> SUFFICES ASSUME NEW a \in Peer
                 PROVE  Total(a) <= max_conns[a] /\ \A i \in Hosts : incoming[a][i] <= SameIdent /\ incoming[a][i] = Cardinality(Into(a, i))
      BY DEF IncomingLive
    <2>1. \A i \in Hosts : Into(a, i) = {}
      BY Ends DEF Init, Into, Alive, Fresh
    <2>2. incoming[a] \in [Hosts -> Int] /\ \A i \in Hosts : incoming[a][i] = 0
      BY DEF Init, Hosts
    <2>3. Total(a) = 0
      BY <2>2, Constants, SumOfNothing, TotalIsSum
    <2> QED BY <2>1, <2>2, <2>3, Constants, FS_EmptySet
  <1>8. WiresShort /\ Greeted
    BY Ends DEF Init, WiresShort, Greeted, Alive, Fresh
  <1> QED BY <1>2, <1>3, <1>4, <1>5, <1>6, <1>7, <1>8 DEF IInv, NoRaise, Init

-----------------------------------------------------------------------------
(***************************************************************************)
(* A step that leaves alone what a part of the invariant is about leaves   *)
(* that part.                                                              *)
(***************************************************************************)
StaysUp(e) == /\ connected2(e)' <=> connected2(e)
              /\ connected2(e) => end'[e].nonce = end[e].nonce /\ link'[e[1]] = link[e[1]]

LEMMA OwnerSame ==
  ASSUME NEW e \in End, link'[e[1]] = link[e[1]]
  PROVE  Owner(e)' = Owner(e) /\ Remote(e)' = Remote(e)
  BY DEF Owner, Remote, Far

LEMMA TablesSame ==
  ASSUME Types, TablesExact, ConnsExact, UNCHANGED <<peers, conns>>, \A e \in End : StaysUp(e)
  PROVE  TablesExact' /\ ConnsExact'
  <1>1. ASSUME NEW a \in Peer, NEW p \in DOMAIN peers[a], NEW e, e = peers[a][p]
        PROVE  connected2(e)' /\ Owner(e)' = a /\ end'[e].nonce = p
    <2>1. e \in End
      BY <1>1 DEF Types, Tables
    <2>2. connected2(e) /\ Owner(e) = a /\ end[e].nonce = p
      BY <1>1 DEF TablesExact
    <2> QED BY <2>1, <2>2, OwnerSame DEF StaysUp
  <1>2. ASSUME NEW e \in End, connected2(e)'
        PROVE  end'[e].nonce \in DOMAIN peers[Owner(e)'] /\ peers[Owner(e)'][end'[e].nonce] = e
    <2>1. connected2(e) /\ end'[e].nonce = end[e].nonce /\ Owner(e)' = Owner(e)
      BY <1>2, OwnerSame DEF StaysUp
    <2> QED BY <2>1 DEF TablesExact
  <1>3. TablesExact'
    BY <1>1, <1>2 DEF TablesExact
  <1>4. ASSUME NEW a \in Peer, NEW l \in Link
        PROVE  l \in conns[a] <=> connected2(<<l, "out">>)' /\ link'[l].client = a /\ link'[l].kind = "client"
    <2>1. StaysUp(<<l, "out">>) /\ <<l, "out">>[1] = l
      BY Ends
    <2> QED BY <2>1 DEF ConnsExact, StaysUp
  <1>5. ConnsExact'
    BY <1>4 DEF ConnsExact
  <1> QED BY <1>3, <1>5

LEMMA OneEachSame ==
  ASSUME NEW a \in Peer, OneEach(a), attempts'[a] = attempts[a], Live(a)' = Live(a),
         \A l \in Live(a) : link'[l] = link[l]
  PROVE  OneEach(a)'
  <1>1. {ident[link'[l].server] : l \in Live(a)'} = {ident[link[l].server] : l \in Live(a)}
    OBVIOUS
  <1>2. ASSUME NEW k \in Live(a)', NEW l \in Live(a)', ident[link'[k].server] = ident[link'[l].server]
        PROVE  k = l
    <2>1. k \in Live(a) /\ l \in Live(a) /\ link'[k] = link[k] /\ link'[l] = link[l]
      OBVIOUS
    <2> QED BY <1>2, <2>1 DEF OneEach
  <1> QED BY <1>1, <1>2 DEF OneEach

LEMMA AttemptsSame ==
  ASSUME AttemptsLive, UNCHANGED attempts,
         \A l \in Link : /\ end'[<<l, "out">>].state = "lost" <=> end[<<l, "out">>].state = "lost"
                         /\ end[<<l, "out">>].state # "lost" => link'[l] = link[l]
  PROVE  AttemptsLive'
  <1>1. ASSUME NEW a \in Peer PROVE Live(a)' = Live(a) /\ \A l \in Live(a) : link'[l] = link[l]
    BY DEF Live
  <1> QED BY <1>1, OneEachSame DEF AttemptsLive

LEMMA IncomingSame ==
  ASSUME Types, IncomingLive, UNCHANGED incoming,
         \A l \in Link : /\ Alive(<<l, "in">>)' <=> Alive(<<l, "in">>)
                         /\ Alive(<<l, "in">>) => link'[l] = link[l]
  PROVE  IncomingLive'
  <1>1. ASSUME NEW a \in Peer, NEW i \in Hosts PROVE Into(a, i)' = Into(a, i)
    BY DEF Into
  <1>2. ASSUME NEW a \in Peer PROVE Total(a)' = Total(a)
    BY TotalIsSum
  <1> QED BY <1>1, <1>2 DEF IncomingLive

-----------------------------------------------------------------------------
(***************************************************************************)
(* Dialling.                                                               *)
(***************************************************************************)
Dialled(l) ==
  /\ link[l] = NoLink /\ link'[l] # NoLink /\ link'[l].client \in Peer /\ link'[l].server \in Peer
  /\ \A k \in Link : k # l => link'[k] = link[k]
  /\ \A e \in End : e[1] = l => end[e] = Fresh("lost") /\ end'[e] = Fresh("none") /\ wire'[e] = <<>>
  /\ \A e \in End : e[1] # l => end'[e] = end[e] /\ wire'[e] = wire[e]

LEMMA DialEffect ==
  ASSUME IInv, NEW a \in Peer, NEW b \in Peer, NEW kind \in {"client", "single"}, Dial(a, b, kind)
  PROVE  /\ end' \in [End -> EndState] /\ wire' \in [End -> Seq(Message)] /\ link' \in [Link -> LinkSet]
         /\ \E l \in Link : Dialled(l) /\ link'[l] = [client |-> a, server |-> b, kind |-> kind]
  <1>1. PICK l \in Link :
          /\ Spare(l)
          /\ link' = [link EXCEPT ![l] = [client |-> a, server |-> b, kind |-> kind]]
          /\ end' = [e \in End |-> IF e[1] = l THEN Fresh("none") ELSE end[e]]
          /\ wire' = [e \in End |-> IF e[1] = l THEN <<>> ELSE wire[e]]
    BY DEF Dial
  <1>2. link[l] = NoLink /\ end[<<l, "out">>].state = "lost" /\ end[<<l, "in">>].state = "lost"
    BY <1>1 DEF IInv, LinksKept, Spare
  <1>3. end' \in [End -> EndState] /\ wire' \in [End -> Seq(Message)] /\ link' \in [Link -> LinkSet]
    BY <1>1 DEF IInv, Types, EndState, LinkSet, Fresh
  <1>4. /\ link'[l] = [client |-> a, server |-> b, kind |-> kind] /\ link'[l] # NoLink
        /\ \A k \in Link : k # l => link'[k] = link[k]
    BY <1>1, Constants DEF NoLink, IInv, Types
  <1>5. ASSUME NEW e \in End
        PROVE  /\ e[1] = l => end[e] = Fresh("lost") /\ end'[e] = Fresh("none") /\ wire'[e] = <<>>
               /\ e[1] # l => end'[e] = end[e] /\ wire'[e] = wire[e]
    <2>1. e[1] = l => e = <<l, "out">> \/ e = <<l, "in">>
      BY Ends
    <2>2. e[1] = l => end[e].state = "lost"
      BY <1>2, <2>1
    <2>3. end[e].state = "lost" => end[e] = Fresh("lost")
      BY DEF IInv, HeardInOrder
    <2> QED BY <1>1, <2>2, <2>3
  <1> QED BY <1>2, <1>3, <1>4, <1>5 DEF Dialled

LEMMA DialKeeps ==
  ASSUME IInv, NEW l \in Link, Dialled(l), UNCHANGED <<rude, peers, conns, incoming, error>>,
         end' \in [End -> EndState]
  PROVE  /\ LinksKept' /\ HeardInOrder' /\ TablesExact' /\ ConnsExact'
         /\ IncomingLive' /\ WiresShort' /\ Greeted' /\ NoRaise'
  <1>1. ASSUME NEW k \in Link
        PROVE  IF link'[k] = NoLink THEN end'[<<k, "out">>].state = "lost" /\ end'[<<k, "in">>].state = "lost"
               ELSE link'[k].client \in Peer /\ link'[k].server \in Peer
    BY Ends DEF IInv, LinksKept, Dialled
  <1>2. LinksKept'
    BY <1>1 DEF LinksKept
  <1>3. ASSUME NEW e \in End
        PROVE  StaysUp(e) /\ (Alive(e)' <=> Alive(e)) /\ (Alive(e) => e[1] # l)
               /\ (e[1] # l => Owner(e)' = Owner(e) /\ Remote(e)' = Remote(e) /\ Far(e)[1] # l)
    <2>1. e[1] # l => link'[e[1]] = link[e[1]]
      BY Ends DEF Dialled
    <2>2. e[1] # l => Owner(e)' = Owner(e) /\ Remote(e)' = Remote(e) /\ Far(e)[1] # l
      BY <2>1, OwnerSame, Ends
    <2>3. (Alive(e)' <=> Alive(e)) /\ (Alive(e) => e[1] # l) /\ (connected2(e)' <=> connected2(e))
      BY DEF Dialled, Alive, connected2, Fresh
    <2> QED BY <2>1, <2>2, <2>3 DEF StaysUp, connected2, Dialled
  <1>4. TablesExact' /\ ConnsExact'
    BY <1>3, TablesSame DEF IInv
  <1>5. IncomingLive'
    <2>1. ASSUME NEW k \in Link
          PROVE (Alive(<<k, "in">>)' <=> Alive(<<k, "in">>)) /\ (Alive(<<k, "in">>) => link'[k] = link[k])
      BY <1>3, Ends DEF Dialled
    <2> QED BY <2>1, IncomingSame DEF IInv
  <1>6. ASSUME NEW e \in End
        PROVE  /\ end'[e].state \in {"none", "lost"} => end'[e] = Fresh(end'[e].state)
               /\ end'[e].nonce # nobody => end'[e].other_version
               /\ end'[e].nonce # nobody => end'[e].nonce # Owner(e)'
               /\ end'[e].state = "open" /\ end'[e].other_version => end'[e].nonce # nobody
    <2>1. CASE e[1] = l
      BY <2>1 DEF Dialled, Fresh
    <2>2. CASE e[1] # l
      BY <2>2, <1>3 DEF Dialled, IInv, HeardInOrder
    <2> QED BY <2>1, <2>2
  <1>7. HeardInOrder'
    BY <1>6 DEF HeardInOrder
  <1>8. ASSUME NEW e \in End, NEW d \in End, d = Far(e)
        PROVE  /\ Len(wire'[e]) <= 2
               /\ end'[d].state = "none" => wire'[e] = <<>>
               /\ Alive(d)' /\ end'[d].nonce = nobody => Len(wire'[e]) <= 1
    <2>1. CASE e[1] = l
      BY <2>1, Len(<<>>) = 0 DEF Dialled
    <2>2. CASE e[1] # l
      <3>1. d[1] # l
        BY <1>8, <2>2, Ends
      <3> QED BY <3>1, <2>2, <1>3, <1>8 DEF Dialled, IInv, WiresShort
    <2> QED BY <2>1, <2>2
  <1>9. WiresShort'
    BY <1>8 DEF WiresShort
  <1>10. ASSUME NEW e \in End, NEW d \in End, d = Far(e),
                end'[e].state \in {"none", "open"}, end'[d].state = "open",
                Owner(e)' \notin rude, Owner(d)' \notin rude, end'[e].nonce = nobody
         PROVE  ~ end'[e].other_version /\ wire'[e] # <<>> /\ wire'[e][1] = Version(Owner(d))'
    <2>1. d[1] = e[1]
      BY <1>10, Ends
    <2>2. e[1] # l
      BY <1>10, <2>1 DEF Fresh, Dialled
    <2> QED BY <2>1, <2>2, <1>3, <1>10 DEF IInv, Greeted, Dialled, Version
  <1>11. Greeted'
    BY <1>10 DEF Greeted
  <1> QED BY <1>2, <1>4, <1>5, <1>7, <1>9, <1>11 DEF IInv, NoRaise

LEMMA DialledOut ==
  ASSUME NEW l \in Link, Dialled(l)
  PROVE  /\ end[<<l, "out">>].state = "lost" /\ end'[<<l, "out">>].state = "none"
         /\ \A k \in Link : k # l => end'[<<k, "out">>] = end[<<k, "out">>] /\ link'[k] = link[k]
  <1>1. end[<<l, "out">>] = Fresh("lost") /\ end'[<<l, "out">>] = Fresh("none")
    BY Ends DEF Dialled
  <1>2. ASSUME NEW k \in Link, k # l PROVE end'[<<k, "out">>] = end[<<k, "out">>] /\ link'[k] = link[k]
    BY <1>2, Ends DEF Dialled
  <1> QED BY <1>1, <1>2 DEF Fresh

LEMMA ThinkKeeps ==
  ASSUME IInv, NEW a \in Peer, NEW b \in Peer, _think(a, b)
  PROVE  IInv'
  <1>1. /\ Dial(a, b, "client") /\ ident[b] \notin attempts[a] /\ Cardinality(attempts[a]) < max_attempts
        /\ attempts' = [attempts EXCEPT ![a] = @ \cup {ident[b]}]
    BY DEF _think
  <1>2. UNCHANGED <<rude, peers, conns, incoming, bans, error>>
    BY <1>1 DEF Dial
  <1>3. /\ end' \in [End -> EndState] /\ wire' \in [End -> Seq(Message)] /\ link' \in [Link -> LinkSet]
        /\ \E l \in Link : Dialled(l) /\ link'[l] = [client |-> a, server |-> b, kind |-> "client"]
    BY <1>1, DialEffect
  <1>4. PICK l \in Link : Dialled(l) /\ link'[l] = [client |-> a, server |-> b, kind |-> "client"]
    BY <1>3
  <1>5. Types'
    BY <1>1, <1>2, <1>3, Constants DEF IInv, Types
  <1>6. /\ end[<<l, "out">>].state = "lost" /\ end'[<<l, "out">>].state = "none"
        /\ \A k \in Link : k # l => end'[<<k, "out">>] = end[<<k, "out">>] /\ link'[k] = link[k]
    BY <1>4, DialledOut
  <1>7. Live(a)' = Live(a) \cup {l} /\ l \notin Live(a)
    BY <1>4, <1>6 DEF Live
  <1>8. ASSUME NEW c \in Peer, c # a PROVE Live(c)' = Live(c)
    BY <1>4, <1>6, <1>8 DEF Live
  <1>9. ASSUME NEW c \in Peer, NEW k \in Live(c) PROVE k \in Link /\ k # l /\ link'[k] = link[k]
    BY <1>6 DEF Live
  <1>10. ASSUME NEW c \in Peer PROVE OneEach(c)'
    <2>1. CASE c # a
      <3>1. attempts'[c] = attempts[c] /\ OneEach(c)
        BY <2>1, <1>1 DEF IInv, Types, AttemptsLive
      <3> QED BY <2>1, <3>1, <1>8, <1>9, OneEachSame
    <2>2. CASE c = a
      <3>1. attempts'[a] = attempts[a] \cup {ident[b]}
        BY <1>1 DEF IInv, Types
      <3>2. attempts[a] = {ident[link[k].server] : k \in Live(a)}
        BY DEF IInv, AttemptsLive, OneEach
      <3>3. attempts'[a] = {ident[link'[k].server] : k \in Live(a)'}
        BY <3>1, <3>2, <1>4, <1>7, <1>9
      <3>4. ASSUME NEW j \in Live(a)', NEW k \in Live(a)', ident[link'[j].server] = ident[link'[k].server]
            PROVE  j = k
        <4>1. \A i \in Live(a) : ident[link'[i].server] # ident[b]
          BY <3>2, <1>1, <1>9
        <4>2. ident[link'[l].server] = ident[b]
          BY <1>4
        <4>3. CASE j \in Live(a) /\ k \in Live(a)
          <5>1. link'[j] = link[j] /\ link'[k] = link[k]
            BY <4>3, <1>9
          <5> QED BY <3>4, <4>3, <5>1 DEF IInv, AttemptsLive, OneEach
        <4> QED BY <3>4, <4>1, <4>2, <4>3, <1>7
      <3>5. Cardinality(attempts'[a]) <= max_attempts
        <4>1. IsFiniteSet(attempts[a])
          BY Constants, FS_Subset DEF IInv, Types
        <4>2. Cardinality(attempts'[a]) = Cardinality(attempts[a]) + 1 /\ Cardinality(attempts[a]) \in Nat
          BY <4>1, <3>1, <1>1, FS_AddElement, FS_CardinalityType
        <4> QED BY <4>2, <1>1, Constants
      <3> QED BY <2>2, <3>3, <3>4, <3>5 DEF OneEach
    <2> QED BY <2>1, <2>2
  <1>11. AttemptsLive'
    BY <1>10 DEF AttemptsLive
  <1> QED BY <1>2, <1>3, <1>4, <1>5, <1>11, DialKeeps DEF IInv

LEMMA ReconnectKeeps ==
  ASSUME IInv, NEW a \in Peer, NEW b \in Peer, Reconnect(a, b)
  PROVE  IInv'
  <1>1. Dial(a, b, "single") /\ UNCHANGED attempts
    BY DEF Reconnect
  <1>2. UNCHANGED <<rude, peers, conns, incoming, bans, error>>
    BY <1>1 DEF Dial
  <1>3. /\ end' \in [End -> EndState] /\ wire' \in [End -> Seq(Message)] /\ link' \in [Link -> LinkSet]
        /\ \E l \in Link : Dialled(l) /\ link'[l] = [client |-> a, server |-> b, kind |-> "single"]
    BY <1>1, DialEffect
  <1>4. PICK l \in Link : Dialled(l) /\ link'[l] = [client |-> a, server |-> b, kind |-> "single"]
    BY <1>3
  <1>5. Types'
    BY <1>1, <1>2, <1>3 DEF IInv, Types
  <1>6. /\ end[<<l, "out">>].state = "lost" /\ link'[l].kind = "single"
        /\ \A k \in Link : k # l => end'[<<k, "out">>] = end[<<k, "out">>] /\ link'[k] = link[k]
    <2>1. link'[l].kind = "single"
      BY <1>4
    <2> QED BY <1>4, <2>1, DialledOut
  <1>7. ASSUME NEW c \in Peer PROVE Live(c)' = Live(c) /\ \A k \in Live(c) : link'[k] = link[k]
    BY <1>6 DEF Live
  <1>8. AttemptsLive'
    BY <1>1, <1>7, OneEachSame DEF IInv, AttemptsLive
  <1> QED BY <1>2, <1>3, <1>4, <1>5, <1>8, DialKeeps DEF IInv

-----------------------------------------------------------------------------
(***************************************************************************)
(* A connection is made at one end of it.                                  *)
(***************************************************************************)
LEMMA MadeEffect ==
  ASSUME IInv, NEW e \in End, connectionMade(e)
  PROVE  /\ end' \in [End -> EndState] /\ wire' \in [End -> Seq(Message)]
         /\ end[e] = Fresh("none") /\ end'[e] = Fresh("open") /\ wire[Far(e)] = <<>>
         /\ wire'[Far(e)] = <<>> \/ wire'[Far(e)] = <<Version(Owner(e))>>
         /\ Owner(e) \notin rude /\ Owner(Far(e)) \notin rude /\ end[Far(e)].state # "lost"
              => wire'[Far(e)] = <<Version(Owner(e))>>
         /\ \A d \in End : d # e => end'[d] = end[d]
         /\ \A d \in End : d # Far(e) => wire'[d] = wire[d]
  <1>1. /\ end[e].state = "none" /\ end' = [end EXCEPT ![e] = Fresh("open")]
        /\ wire' = [wire EXCEPT ![Far(e)] =
                      IF Owner(e) \in rude THEN @ ELSE Written(Far(e), <<Version(Owner(e))>>)]
    BY DEF connectionMade
  <1>2. end[e] = Fresh("none") /\ wire[Far(e)] = <<>> /\ Far(e) \in End
    BY <1>1, Ends DEF IInv, HeardInOrder, WiresShort
  <1>3. Owner(e) \in Peer /\ Version(Owner(e)) \in Message
    BY <1>1, Owned DEF IInv, Message
  <1>4. <<>> \o <<Version(Owner(e))>> = <<Version(Owner(e))>> /\ <<Version(Owner(e))>> \in Seq(Message)
    BY <1>3
  <1>5. wire'[Far(e)] = IF Owner(e) \in rude \/ end[Far(e)].state = "lost" \/ Owner(Far(e)) \in rude
                        THEN <<>> ELSE <<Version(Owner(e))>>
    BY <1>1, <1>2, <1>4 DEF Written, IInv, Types
  <1>6. wire' = [wire EXCEPT ![Far(e)] = wire'[Far(e)]] /\ <<>> \in Seq(Message)
    BY <1>1, <1>2 DEF IInv, Types
  <1>7. wire' \in [End -> Seq(Message)]
    BY <1>2, <1>4, <1>5, <1>6 DEF IInv, Types
  <1>8. end' \in [End -> EndState]
    BY <1>1 DEF IInv, Types, EndState, Fresh
  <1>9. end'[e] = Fresh("open") /\ \A d \in End : d # e => end'[d] = end[d]
    BY <1>1 DEF IInv, Types
  <1>10. \A d \in End : d # Far(e) => wire'[d] = wire[d]
    BY <1>1 DEF IInv, Types
  <1> QED BY <1>2, <1>5, <1>7, <1>8, <1>9, <1>10

LEMMA MadeKeeps ==
  ASSUME IInv, NEW e \in End, connectionMade(e), UNCHANGED <<rude, link, peers, conns, error>>
  PROVE  LinksKept' /\ HeardInOrder' /\ TablesExact' /\ ConnsExact' /\ WiresShort' /\ Greeted' /\ NoRaise'
  <1>1. /\ end[e] = Fresh("none") /\ end'[e] = Fresh("open") /\ wire[Far(e)] = <<>>
        /\ wire'[Far(e)] = <<>> \/ wire'[Far(e)] = <<Version(Owner(e))>>
        /\ Owner(e) \notin rude /\ Owner(Far(e)) \notin rude /\ end[Far(e)].state # "lost"
             => wire'[Far(e)] = <<Version(Owner(e))>>
        /\ \A d \in End : d # e => end'[d] = end[d]
        /\ \A d \in End : d # Far(e) => wire'[d] = wire[d]
    BY MadeEffect
  <1>2. end[e].state = "none" /\ end'[e].state = "open" /\ end[e].nonce = nobody /\ end'[e].nonce = nobody
        /\ ~ end[e].other_version /\ ~ end'[e].other_version
    BY <1>1 DEF Fresh
  <1>3. ASSUME NEW d \in End PROVE Owner(d)' = Owner(d) /\ StaysUp(d)
    BY <1>1, <1>2, OwnerSame DEF StaysUp, connected2, Alive
  <1>4. LinksKept'
    <2>1. ASSUME NEW l \in Link, link[l] = NoLink
          PROVE  end'[<<l, "out">>].state = "lost" /\ end'[<<l, "in">>].state = "lost"
      BY <1>1, <1>2, <2>1, Ends DEF IInv, LinksKept
    <2> QED BY <2>1 DEF IInv, LinksKept
  <1>5. HeardInOrder'
    <2>1. ASSUME NEW d \in End
          PROVE  /\ end'[d].state \in {"none", "lost"} => end'[d] = Fresh(end'[d].state)
                 /\ end'[d].nonce # nobody => end'[d].other_version
                 /\ end'[d].nonce # nobody => end'[d].nonce # Owner(d)'
                 /\ end'[d].state = "open" /\ end'[d].other_version => end'[d].nonce # nobody
      BY <1>1, <1>2, <1>3 DEF IInv, HeardInOrder
    <2> QED BY <2>1 DEF HeardInOrder
  <1>6. TablesExact' /\ ConnsExact'
    BY <1>3, TablesSame DEF IInv
  <1>7. ASSUME NEW x \in End, NEW y \in End, y = Far(x)
        PROVE  /\ Len(wire'[x]) <= 2
               /\ end'[y].state = "none" => wire'[x] = <<>>
               /\ Alive(y)' /\ end'[y].nonce = nobody => Len(wire'[x]) <= 1
    <2>1. CASE y = e
      <3>1. x = Far(e)
        BY <1>7, <2>1, Ends
      <3>2. Len(<<>>) = 0 /\ Len(<<Version(Owner(e))>>) = 1
        OBVIOUS
      <3>3. Len(wire'[x]) \in {0, 1}
        BY <1>1, <3>1, <3>2
      <3>4. Len(wire'[x]) <= 2 /\ Len(wire'[x]) <= 1
        <4> DEFINE n == Len(wire'[x])
        <4>1. n \in {0, 1}
          BY <3>3
        <4> HIDE DEF n
        <4>2. n <= 2 /\ n <= 1
          BY <4>1
        <4> QED BY <4>2 DEF n
      <3> QED BY <1>2, <2>1, <3>4
    <2>2. CASE y # e
      <3>1. x # Far(e)
        BY <1>7, <2>2, Ends
      <3> QED BY <1>1, <1>7, <2>2, <3>1 DEF IInv, WiresShort, Alive
    <2> QED BY <2>1, <2>2
  <1>8. WiresShort'
    BY <1>7 DEF WiresShort
  <1>9. ASSUME NEW x \in End, NEW y \in End, y = Far(x),
                end'[x].state \in {"none", "open"}, end'[y].state = "open",
                Owner(x)' \notin rude, Owner(y)' \notin rude, end'[x].nonce = nobody
         PROVE  ~ end'[x].other_version /\ wire'[x] # <<>> /\ wire'[x][1] = Version(Owner(y))'
    <2>0. Owner(x)' = Owner(x) /\ Owner(y)' = Owner(y) /\ x # y
      BY <1>3, <1>9, Ends
    <2>1. CASE y = e
      <3>1. x = Far(e)
        BY <1>9, <2>1, Ends
      <3>2. wire'[x] = <<Version(Owner(y))>>
        BY <1>1, <1>2, <1>9, <2>0, <2>1, <3>1
      <3>3. ~ end'[x].other_version
        BY <1>1, <1>9, <2>0, <2>1 DEF IInv, HeardInOrder, Fresh
      <3> QED BY <2>0, <3>2, <3>3 DEF Version
    <2>2. CASE x = e
      <3>1. y # e /\ x # Far(e)
        BY <1>9, <2>2, Ends
      <3> QED BY <1>1, <1>2, <1>9, <2>0, <2>2, <3>1 DEF IInv, Greeted, Version
    <2>3. CASE x # e /\ y # e
      <3>1. x # Far(e)
        BY <1>9, <2>3, Ends
      <3> QED BY <1>1, <1>9, <2>0, <2>3, <3>1 DEF IInv, Greeted, Version
    <2> QED BY <2>1, <2>2, <2>3
  <1>10. Greeted'
    BY <1>9 DEF Greeted
  <1> QED BY <1>4, <1>5, <1>6, <1>8, <1>10 DEF IInv, NoRaise

LEMMA ConnectedKeeps ==
  ASSUME IInv, NEW l \in Link, Connected(l)
  PROVE  IInv'
  <1>1. connectionMade(<<l, "out">>) /\ UNCHANGED <<rude, link, peers, attempts, conns, incoming, bans, error>>
    BY DEF Connected
  <1>2. /\ end' \in [End -> EndState] /\ wire' \in [End -> Seq(Message)]
        /\ end[<<l, "out">>].state = "none" /\ end'[<<l, "out">>].state = "open"
        /\ \A d \in End : d # <<l, "out">> => end'[d] = end[d]
    <2>1. <<l, "out">> \in End
      BY Ends
    <2>2. end[<<l, "out">>] = Fresh("none") /\ end'[<<l, "out">>] = Fresh("open")
      BY <1>1, <2>1, MadeEffect
    <2>3. /\ end' \in [End -> EndState] /\ wire' \in [End -> Seq(Message)]
          /\ \A d \in End : d # <<l, "out">> => end'[d] = end[d]
      BY <1>1, <2>1, MadeEffect
    <2> QED BY <2>2, <2>3 DEF Fresh
  <1>3. Types'
    BY <1>1, <1>2 DEF IInv, Types
  <1>4. AttemptsLive'
    <2>1. ASSUME NEW k \in Link PROVE end'[<<k, "out">>].state = "lost" <=> end[<<k, "out">>].state = "lost"
      BY <1>2, Ends
    <2> QED BY <1>1, <2>1, AttemptsSame DEF IInv
  <1>5. IncomingLive'
    <2>1. ASSUME NEW k \in Link PROVE Alive(<<k, "in">>)' <=> Alive(<<k, "in">>)
      <3>1. <<k, "in">> \in End /\ <<k, "in">> # <<l, "out">>
        BY Ends
      <3> QED BY <1>2, <3>1 DEF Alive
    <2> QED BY <1>1, <2>1, IncomingSame DEF IInv
  <1>6. LinksKept' /\ HeardInOrder' /\ TablesExact' /\ ConnsExact' /\ WiresShort' /\ Greeted' /\ NoRaise'
    BY <1>1, MadeKeeps, Ends
  <1> QED BY <1>3, <1>4, <1>5, <1>6 DEF IInv

\* A change of one count of incoming connections.
LEMMA IncomingChange ==
  ASSUME Types, IncomingLive, NEW a \in Peer, NEW i \in Hosts, NEW v \in Nat,
         incoming' = [incoming EXCEPT ![a][i] = v],
         v <= SameIdent, v = Cardinality(Into(a, i)'), Total(a) - incoming[a][i] + v <= max_conns[a],
         \A c \in Peer, j \in Hosts : c # a \/ j # i => Into(c, j)' = Into(c, j)
  PROVE  IncomingLive' /\ incoming' \in [Peer -> [Hosts -> Nat]]
  <1>1. incoming' \in [Peer -> [Hosts -> Nat]]
    BY DEF Types
  <1>2. /\ \A c \in Peer : c # a => incoming'[c] = incoming[c]
        /\ incoming'[a] = [incoming[a] EXCEPT ![i] = v] /\ incoming'[a][i] = v
        /\ \A j \in Hosts : j # i => incoming'[a][j] = incoming[a][j]
    BY DEF Types
  <1>3. Total(a)' = Total(a) - incoming[a][i] + v
    <2>1. incoming[a] \in [Hosts -> Int] /\ incoming'[a] \in [Hosts -> Int]
      BY <1>1 DEF Types
    <2>2. SumOf(incoming'[a]) = SumOf(incoming[a]) - incoming[a][i] + incoming'[a][i]
      BY <1>2, <2>1, Constants, SumChange
    <2> QED BY <1>2, <2>2, TotalIsSum
  <1>4. ASSUME NEW c \in Peer
        PROVE  Total(c)' <= max_conns[c] /\ \A j \in Hosts : incoming'[c][j] <= SameIdent /\ incoming'[c][j] = Cardinality(Into(c, j)')
    <2>1. CASE c # a
      <3>1. Total(c)' = Total(c)
        BY <1>2, <2>1, TotalIsSum
      <3> QED BY <1>2, <2>1, <3>1 DEF IncomingLive
    <2>2. CASE c = a
      <3>1. Total(a)' <= max_conns[a]
        BY <1>3
      <3>2. ASSUME NEW j \in Hosts PROVE incoming'[a][j] <= SameIdent /\ incoming'[a][j] = Cardinality(Into(a, j)')
        <4>1. CASE j = i
          BY <1>2, <4>1
        <4>2. CASE j # i
          BY <1>2, <4>2 DEF IncomingLive
        <4> QED BY <4>1, <4>2
      <3> QED BY <2>2, <3>1, <3>2
    <2> QED BY <2>1, <2>2
  <1> QED BY <1>1, <1>4 DEF IncomingLive

LEMMA IntoFinite ==
  ASSUME NEW a, NEW i
  PROVE  IsFiniteSet(Into(a, i)) /\ Cardinality(Into(a, i)) \in Nat /\ Into(a, i) \subseteq Link
  BY Constants, FS_Subset, FS_CardinalityType DEF Into

LEMMA AcceptKeeps ==
  ASSUME IInv, NEW l \in Link, Accept(l)
  PROVE  IInv'
  <1> DEFINE e == <<l, "in">>
  <1>0. e \in End /\ end[e].state = "none" /\ e[1] = l
    BY Ends DEF Accept, connectionMade
  <1>1. PICK a \in Peer, b \in Peer, i \in Hosts : a = link[l].server /\ b = link[l].client /\ i = ident[b]
    <2>1. link[l].client \in Peer /\ link[l].server \in Peer
      BY <1>0, Owned DEF IInv
    <2> QED BY <2>1, Constants
  <1>2. /\ connectionMade(e) /\ Total(a) < max_conns[a] /\ incoming[a][i] < SameIdent
        /\ incoming' = [incoming EXCEPT ![a][i] = @ + 1]
        /\ UNCHANGED <<rude, link, peers, attempts, conns, bans, error>>
    BY <1>1 DEF Accept, buildProtocol
  <1>3. /\ end' \in [End -> EndState] /\ wire' \in [End -> Seq(Message)]
        /\ end'[e].state = "open"
        /\ \A d \in End : d # e => end'[d] = end[d]
    <2> HIDE DEF e
    <2>1. end'[e] = Fresh("open")
      BY <1>0, <1>2, MadeEffect
    <2>2. /\ end' \in [End -> EndState] /\ wire' \in [End -> Seq(Message)]
          /\ \A d \in End : d # e => end'[d] = end[d]
      BY <1>0, <1>2, MadeEffect
    <2> QED BY <2>1, <2>2 DEF Fresh
  <1>4. AttemptsLive'
    <2>1. ASSUME NEW k \in Link PROVE end'[<<k, "out">>].state = "lost" <=> end[<<k, "out">>].state = "lost"
      BY <1>3, Ends
    <2> QED BY <1>2, <2>1, AttemptsSame DEF IInv
  <1>5. /\ Alive(e)' /\ ~ Alive(e)
        /\ \A k \in Link : k # l => (Alive(<<k, "in">>)' <=> Alive(<<k, "in">>))
    <2>1. \A k \in Link : k # l => <<k, "in">> \in End /\ <<k, "in">> # e
      BY Ends
    <2> QED BY <1>0, <1>3, <2>1 DEF Alive
  <1>6. Into(a, i)' = Into(a, i) \cup {l} /\ l \notin Into(a, i)
    BY <1>1, <1>2, <1>5 DEF Into
  <1>7. ASSUME NEW c \in Peer, NEW j \in Hosts, c # a \/ j # i PROVE Into(c, j)' = Into(c, j)
    BY <1>1, <1>2, <1>5, <1>7 DEF Into
  <1>8. Cardinality(Into(a, i)') = incoming[a][i] + 1 /\ incoming[a][i] \in Nat
    <2>1. incoming[a][i] = Cardinality(Into(a, i))
      BY DEF IInv, IncomingLive
    <2>2. IsFiniteSet(Into(a, i)) /\ Cardinality(Into(a, i)) \in Nat
      BY IntoFinite
    <2>3. Cardinality(Into(a, i) \cup {l}) = Cardinality(Into(a, i)) + 1
      BY <1>6, <2>2, FS_AddElement
    <2> QED BY <1>6, <2>1, <2>2, <2>3
  <1>9. Total(a) \in Int
    <2>1. incoming[a] \in [Hosts -> Int]
      BY DEF IInv, Types
    <2>2. SumOf(incoming[a]) \in Int
      BY <2>1, Constants, SumChange
    <2> QED BY <2>2, TotalIsSum
  <1>10. IncomingLive' /\ incoming' \in [Peer -> [Hosts -> Nat]]
    <2>1. PICK v \in Nat : v = incoming[a][i] + 1
      BY <1>8
    <2>2. incoming' = [incoming EXCEPT ![a][i] = v]
      BY <1>2, <2>1
    <2>3. v <= SameIdent /\ v = Cardinality(Into(a, i)') /\ Total(a) - incoming[a][i] + v <= max_conns[a]
      BY <1>2, <1>8, <1>9, <2>1, Constants
    <2> QED BY <1>7, <2>2, <2>3, IncomingChange DEF IInv
  <1>11. Types'
    BY <1>2, <1>3, <1>10 DEF IInv, Types
  <1>12. LinksKept' /\ HeardInOrder' /\ TablesExact' /\ ConnsExact' /\ WiresShort' /\ Greeted' /\ NoRaise'
    BY <1>0, <1>2, MadeKeeps
  <1> QED BY <1>4, <1>10, <1>11, <1>12 DEF IInv

-----------------------------------------------------------------------------
(***************************************************************************)
(* An end goes.                                                            *)
(***************************************************************************)
LEMMA GoneEffect ==
  ASSUME IInv, NEW e \in End, Gone(e)
  PROVE  /\ end' \in [End -> EndState] /\ wire' \in [End -> Seq(Message)] /\ link' \in [Link -> LinkSet]
         /\ end'[e] = Fresh("lost") /\ wire'[e] = <<>>
         /\ \A d \in End : d # e => end'[d] = end[d] /\ wire'[d] = wire[d]
         /\ \A l \in Link : l # e[1] => link'[l] = link[l]
         /\ end[Far(e)].state # "lost" => link'[e[1]] = link[e[1]]
         /\ link'[e[1]] # link[e[1]] => link'[e[1]] = NoLink /\ end[Far(e)].state = "lost"
  <1>1. <<>> \in Seq(Message) /\ NoLink \in LinkSet /\ Fresh("lost") \in EndState
    BY DEF NoLink, LinkSet, Fresh, EndState
  <1>2. e[1] \in Link
    BY Ends
  <1> QED BY <1>1, <1>2 DEF Gone, IInv, Types

LEMMA GoneKeeps ==
  ASSUME IInv, NEW e \in End, end[e].state # "lost", Gone(e), UNCHANGED rude
  PROVE  LinksKept' /\ HeardInOrder' /\ WiresShort' /\ Greeted'
  <1>1. /\ end'[e] = Fresh("lost") /\ wire'[e] = <<>>
        /\ \A d \in End : d # e => end'[d] = end[d] /\ wire'[d] = wire[d]
        /\ \A l \in Link : l # e[1] => link'[l] = link[l]
        /\ end[Far(e)].state # "lost" => link'[e[1]] = link[e[1]]
        /\ link'[e[1]] # link[e[1]] => link'[e[1]] = NoLink /\ end[Far(e)].state = "lost"
    BY GoneEffect
  <1>2. end'[e].state = "lost" /\ end'[e].nonce = nobody /\ ~ end'[e].other_version
    BY <1>1 DEF Fresh
  <1>3. ASSUME NEW d \in End, d # e, end[d].state # "lost" PROVE link'[d[1]] = link[d[1]] /\ Owner(d)' = Owner(d)
    <2>1. CASE d[1] = e[1]
      <3>1. d = Far(e)
        BY <1>3, <2>1, Ends
      <3> QED BY <1>1, <1>3, <2>1, <3>1, OwnerSame
    <2>2. CASE d[1] # e[1]
      BY <1>1, <2>2, Ends, OwnerSame
    <2> QED BY <2>1, <2>2
  <1>4. LinksKept'
    <2>1. ASSUME NEW l \in Link
          PROVE  IF link'[l] = NoLink THEN end'[<<l, "out">>].state = "lost" /\ end'[<<l, "in">>].state = "lost"
                 ELSE link'[l].client \in Peer /\ link'[l].server \in Peer
      <3>1. CASE l # e[1]
        <4>1. <<l, "out">> # e /\ <<l, "in">> # e /\ <<l, "out">> \in End /\ <<l, "in">> \in End
          BY <3>1, Ends
        <4> QED BY <1>1, <3>1, <4>1 DEF IInv, LinksKept
      <3>2. CASE l = e[1]
        <4>1. link[l] # NoLink /\ link[l].client \in Peer /\ link[l].server \in Peer
          BY <3>2, Owned DEF IInv
        <4>2. CASE link'[l] = link[l]
          BY <4>1, <4>2
        <4>3. CASE link'[l] # link[l]
          <5>1. link'[l] = NoLink /\ end[Far(e)].state = "lost" /\ Far(e) # e /\ Far(e) \in End
            BY <1>1, <3>2, <4>3, Ends
          <5>2. end'[Far(e)].state = "lost" /\ end'[e].state = "lost"
            BY <1>1, <1>2, <5>1
          <5>3. <<l, "out">> \in {e, Far(e)} /\ <<l, "in">> \in {e, Far(e)}
            BY <3>2, Ends
          <5> QED BY <5>1, <5>2, <5>3
        <4> QED BY <4>2, <4>3
      <3> QED BY <3>1, <3>2
    <2> QED BY <2>1 DEF LinksKept
  <1>5. HeardInOrder'
    <2>1. ASSUME NEW d \in End
          PROVE  /\ end'[d].state \in {"none", "lost"} => end'[d] = Fresh(end'[d].state)
                 /\ end'[d].nonce # nobody => end'[d].other_version
                 /\ end'[d].nonce # nobody => end'[d].nonce # Owner(d)'
                 /\ end'[d].state = "open" /\ end'[d].other_version => end'[d].nonce # nobody
      <3>1. CASE d = e
        BY <1>1, <1>2, <3>1
      <3>2. CASE d # e /\ end[d].state = "lost"
        <4>1. end'[d] = Fresh("lost")
          BY <1>1, <3>2 DEF IInv, HeardInOrder
        <4> QED BY <4>1 DEF Fresh
      <3>3. CASE d # e /\ end[d].state # "lost"
        BY <1>1, <1>3, <3>3 DEF IInv, HeardInOrder
      <3> QED BY <3>1, <3>2, <3>3
    <2> QED BY <2>1 DEF HeardInOrder
  <1>6. WiresShort'
    <2>1. ASSUME NEW x \in End, NEW y \in End, y = Far(x)
          PROVE  /\ Len(wire'[x]) <= 2
                 /\ end'[y].state = "none" => wire'[x] = <<>>
                 /\ Alive(y)' /\ end'[y].nonce = nobody => Len(wire'[x]) <= 1
      <3>1. CASE x = e
        BY <1>1, <3>1, Len(<<>>) = 0
      <3>2. CASE x # e /\ y = e
        BY <1>1, <1>2, <2>1, <3>2 DEF IInv, WiresShort, Alive
      <3>3. CASE x # e /\ y # e
        BY <1>1, <2>1, <3>3 DEF IInv, WiresShort, Alive
      <3> QED BY <3>1, <3>2, <3>3
    <2> QED BY <2>1 DEF WiresShort
  <1>7. Greeted'
    <2>1. ASSUME NEW x \in End, NEW y \in End, y = Far(x),
                 end'[x].state \in {"none", "open"}, end'[y].state = "open",
                 Owner(x)' \notin rude, Owner(y)' \notin rude, end'[x].nonce = nobody
          PROVE  ~ end'[x].other_version /\ wire'[x] # <<>> /\ wire'[x][1] = Version(Owner(y))'
      <3>1. x # e /\ y # e
        BY <1>2, <2>1
      <3>2. Owner(x)' = Owner(x) /\ Owner(y)' = Owner(y)
        BY <1>1, <1>3, <2>1, <3>1
      <3> QED BY <1>1, <2>1, <3>1, <3>2 DEF IInv, Greeted, Version
    <2> QED BY <2>1 DEF Greeted
  <1> QED BY <1>4, <1>5, <1>6, <1>7

\* An attempt of the client factory is over with its end.
LEMMA AttemptOver ==
  ASSUME IInv, NEW l \in Link, end[<<l, "out">>].state # "lost", end'[<<l, "out">>].state = "lost", attempt_over(l),
         \A k \in Link : k # l => link'[k] = link[k] /\ end'[<<k, "out">>] = end[<<k, "out">>]
  PROVE  AttemptsLive' /\ attempts' \in [Peer -> SUBSET Hosts]
  <1>1. CASE link[l].kind = "single"
    <2>1. ASSUME NEW c \in Peer PROVE Live(c)' = Live(c) /\ \A k \in Live(c) : link'[k] = link[k]
      BY <1>1 DEF Live
    <2>2. UNCHANGED attempts
      BY <1>1 DEF attempt_over
    <2> QED BY <2>1, <2>2, OneEachSame DEF IInv, AttemptsLive, Types
  <1>2. CASE link[l].kind # "single"
    <2>1. PICK a \in Peer, h \in Hosts : a = link[l].client /\ h = ident[link[l].server]
      <3>1. <<l, "out">> \in End /\ <<l, "out">>[1] = l
        BY Ends
      <3>2. link[l].client \in Peer /\ link[l].server \in Peer
        BY <3>1, Owned DEF IInv
      <3> QED BY <3>2, Constants
    <2>2. attempts' = [attempts EXCEPT ![a] = @ \ {h}] /\ link[l].kind = "client"
      BY <1>2, <2>1 DEF attempt_over, IInv, Types, LinkSet
    <2>3. attempts' \in [Peer -> SUBSET Hosts] /\ attempts'[a] = attempts[a] \ {h}
          /\ \A c \in Peer : c # a => attempts'[c] = attempts[c]
      BY <2>2 DEF IInv, Types
    <2>4. Live(a)' = Live(a) \ {l} /\ l \in Live(a)
      BY <2>1, <2>2 DEF Live
    <2>5. ASSUME NEW c \in Peer, c # a PROVE Live(c)' = Live(c)
      BY <2>1, <2>5 DEF Live
    <2>6. \A c \in Peer : \A k \in Live(c) : k # l => link'[k] = link[k]
      BY DEF Live
    <2>7. ASSUME NEW c \in Peer, c # a PROVE OneEach(c)'
      <3>1. l \notin Live(c)
        BY <2>1, <2>7 DEF Live
      <3>2. \A k \in Live(c) : link'[k] = link[k]
        BY <2>6, <3>1
      <3> QED BY <2>3, <2>5, <2>7, <3>2, OneEachSame DEF IInv, AttemptsLive
    <2>8. OneEach(a)'
      <3>1. OneEach(a)
        BY DEF IInv, AttemptsLive
      <3>2. \A k \in Live(a) : ident[link[k].server] = h => k = l
        BY <2>1, <2>4, <3>1 DEF OneEach
      <3>3. attempts'[a] = {ident[link'[k].server] : k \in Live(a)'}
        <4>1. attempts[a] = {ident[link[k].server] : k \in Live(a)}
          BY <3>1 DEF OneEach
        <4>2. \A k \in Live(a)' : link'[k] = link[k] /\ k \in Live(a) /\ k # l
          BY <2>4, <2>6
        <4>3. ASSUME NEW x \in attempts'[a] PROVE x \in {ident[link'[k].server] : k \in Live(a)'}
          <5>1. PICK k \in Live(a) : x = ident[link[k].server]
            BY <2>3, <4>1
          <5>2. k # l
            BY <2>1, <2>3, <5>1
          <5>3. k \in Live(a)' /\ link'[k] = link[k]
            BY <2>4, <2>6, <5>2
          <5> QED BY <5>1, <5>3
        <4>4. ASSUME NEW k \in Live(a)' PROVE ident[link'[k].server] \in attempts'[a]
          <5>1. link'[k] = link[k] /\ k \in Live(a) /\ k # l
            BY <4>2
          <5> QED BY <2>3, <3>2, <4>1, <5>1
        <4> QED BY <4>3, <4>4
      <3>4. ASSUME NEW j \in Live(a)', NEW k \in Live(a)', ident[link'[j].server] = ident[link'[k].server]
            PROVE  j = k
        <4>1. j \in Live(a) /\ k \in Live(a) /\ link'[j] = link[j] /\ link'[k] = link[k]
          BY <2>4, <2>6
        <4> QED BY <3>1, <3>4, <4>1 DEF OneEach
      <3>5. Cardinality(attempts'[a]) <= max_attempts
        <4>1. IsFiniteSet(attempts[a])
          BY Constants, FS_Subset DEF IInv, Types
        <4>2. Cardinality(attempts'[a]) <= Cardinality(attempts[a]) /\ Cardinality(attempts'[a]) \in Nat
              /\ Cardinality(attempts[a]) \in Nat
          BY <4>1, <2>3, FS_Subset, FS_CardinalityType
        <4> QED BY <3>1, <4>2, Constants DEF OneEach
      <3> QED BY <3>3, <3>4, <3>5 DEF OneEach
    <2> QED BY <2>3, <2>7, <2>8 DEF AttemptsLive
  <1> QED BY <1>1, <1>2

\* A connection that was not made goes: nothing is known of it but the attempt.
LEMMA UnmadeGone ==
  ASSUME IInv, NEW e \in End, end[e].state = "none", Gone(e), UNCHANGED <<peers, conns>>
  PROVE  /\ TablesExact' /\ ConnsExact'
         /\ \A d \in End : (Alive(d)' <=> Alive(d)) /\ (Alive(d) => link'[d[1]] = link[d[1]])
  <1>1. /\ end'[e] = Fresh("lost")
        /\ \A d \in End : d # e => end'[d] = end[d]
        /\ \A l \in Link : l # e[1] => link'[l] = link[l]
        /\ end[Far(e)].state # "lost" => link'[e[1]] = link[e[1]]
    BY GoneEffect
  <1>2. ASSUME NEW d \in End PROVE (Alive(d)' <=> Alive(d)) /\ (Alive(d) => link'[d[1]] = link[d[1]])
    <2>1. CASE d = e
      BY <1>1, <2>1 DEF Alive, Fresh
    <2>2. CASE d # e
      <3>1. Alive(d)' <=> Alive(d)
        BY <1>1, <2>2 DEF Alive
      <3>2. Alive(d) => link'[d[1]] = link[d[1]]
        <4>1. d[1] = e[1] => d = Far(e)
          BY <2>2, Ends
        <4> QED BY <1>1, <4>1, Ends DEF Alive
      <3> QED BY <3>1, <3>2
    <2> QED BY <2>1, <2>2
  <1>3. ASSUME NEW d \in End PROVE StaysUp(d)
    <2>1. CASE d = e
      BY <1>1, <2>1 DEF StaysUp, connected2, Alive, Fresh
    <2>2. CASE d # e
      BY <1>1, <1>2, <2>2 DEF StaysUp, connected2
    <2> QED BY <2>1, <2>2
  <1> QED BY <1>2, <1>3, TablesSame DEF IInv

LEMMA FailedKeeps ==
  ASSUME IInv, NEW l \in Link, clientConnectionFailed(l)
  PROVE  IInv'
  <1> DEFINE e == <<l, "out">>
  <1>1. /\ e \in End /\ e[1] = l /\ end[e].state = "none" /\ Gone(e) /\ attempt_over(l)
        /\ UNCHANGED <<rude, peers, conns, incoming, bans, error>>
    BY Ends DEF clientConnectionFailed
  <1>2. /\ end' \in [End -> EndState] /\ wire' \in [End -> Seq(Message)] /\ link' \in [Link -> LinkSet]
        /\ end'[e] = Fresh("lost")
        /\ \A d \in End : d # e => end'[d] = end[d]
        /\ \A k \in Link : k # e[1] => link'[k] = link[k]
    <2> HIDE DEF e
    <2> QED BY <1>1, GoneEffect
  <1>3. LinksKept' /\ HeardInOrder' /\ WiresShort' /\ Greeted'
    BY <1>1, GoneKeeps
  <1>4. /\ TablesExact' /\ ConnsExact'
        /\ \A d \in End : (Alive(d)' <=> Alive(d)) /\ (Alive(d) => link'[d[1]] = link[d[1]])
    <2> HIDE DEF e
    <2> QED BY <1>1, UnmadeGone
  <1>5. IncomingLive'
    <2>1. ASSUME NEW k \in Link
          PROVE  (Alive(<<k, "in">>)' <=> Alive(<<k, "in">>)) /\ (Alive(<<k, "in">>) => link'[k] = link[k])
      <3>1. <<k, "in">> \in End /\ <<k, "in">>[1] = k
        BY Ends
      <3> QED BY <1>4, <3>1
    <2> QED BY <1>1, <2>1, IncomingSame DEF IInv
  <1>6. AttemptsLive' /\ attempts' \in [Peer -> SUBSET Hosts]
    <2>1. end'[<<l, "out">>].state = "lost" /\ end[<<l, "out">>].state # "lost"
      BY <1>1, <1>2 DEF Fresh
    <2>2. \A k \in Link : k # l => link'[k] = link[k] /\ end'[<<k, "out">>] = end[<<k, "out">>]
      BY <1>1, <1>2, Ends
    <2> QED BY <1>1, <2>1, <2>2, AttemptOver
  <1>7. Types'
    BY <1>1, <1>2, <1>6 DEF IInv, Types
  <1> QED BY <1>1, <1>3, <1>4, <1>5, <1>6, <1>7 DEF IInv, NoRaise

LEMMA RefuseKeeps ==
  ASSUME IInv, NEW l \in Link, Refuse(l)
  PROVE  IInv'
  <1> DEFINE e == <<l, "in">>
  <1>1. /\ e \in End /\ e[1] = l /\ end[e].state = "none" /\ Gone(e) /\ Far(e) = <<l, "out">>
        /\ UNCHANGED <<rude, peers, attempts, conns, incoming, bans, error>>
    BY Ends DEF Refuse
  <1>2. /\ end' \in [End -> EndState] /\ wire' \in [End -> Seq(Message)] /\ link' \in [Link -> LinkSet]
        /\ \A d \in End : d # e => end'[d] = end[d]
        /\ \A k \in Link : k # e[1] => link'[k] = link[k]
        /\ end[Far(e)].state # "lost" => link'[e[1]] = link[e[1]]
    <2> HIDE DEF e
    <2> QED BY <1>1, GoneEffect
  <1>3. LinksKept' /\ HeardInOrder' /\ WiresShort' /\ Greeted'
    BY <1>1, GoneKeeps
  <1>4. /\ TablesExact' /\ ConnsExact'
        /\ \A d \in End : (Alive(d)' <=> Alive(d)) /\ (Alive(d) => link'[d[1]] = link[d[1]])
    <2> HIDE DEF e
    <2> QED BY <1>1, UnmadeGone
  <1>5. IncomingLive'
    <2>1. ASSUME NEW k \in Link
          PROVE  (Alive(<<k, "in">>)' <=> Alive(<<k, "in">>)) /\ (Alive(<<k, "in">>) => link'[k] = link[k])
      <3>1. <<k, "in">> \in End /\ <<k, "in">>[1] = k
        BY Ends
      <3> QED BY <1>4, <3>1
    <2> QED BY <1>1, <2>1, IncomingSame DEF IInv
  <1>6. AttemptsLive'
    <2>1. ASSUME NEW k \in Link
          PROVE  /\ end'[<<k, "out">>].state = "lost" <=> end[<<k, "out">>].state = "lost"
                 /\ end[<<k, "out">>].state # "lost" => link'[k] = link[k]
      <3>1. <<k, "out">> \in End /\ <<k, "out">> # e
        BY Ends
      <3>2. k = l => <<k, "out">> = Far(e)
        BY <1>1
      <3> QED BY <1>1, <1>2, <3>1, <3>2
    <2> QED BY <1>1, <2>1, AttemptsSame DEF IInv
  <1>7. Types'
    BY <1>1, <1>2 DEF IInv, Types
  <1> QED BY <1>1, <1>3, <1>4, <1>5, <1>6, <1>7 DEF IInv, NoRaise

LEMMA TimeoutKeeps ==
  ASSUME IInv, NEW e \in End, _timeout(e)
  PROVE  IInv'
  <1>1. /\ end[e].state = "open" /\ end' = [end EXCEPT ![e].state = "aborting"]
        /\ UNCHANGED <<rude, link, wire, peers, attempts, conns, incoming, bans, error>>
    BY DEF _timeout
  <1>2. /\ end' \in [End -> EndState] /\ end'[e].state = "aborting" /\ end'[e].nonce = end[e].nonce
        /\ end'[e].other_version = end[e].other_version
        /\ \A d \in End : d # e => end'[d] = end[d]
    BY <1>1 DEF IInv, Types, EndState
  <1>3. ASSUME NEW d \in End
        PROVE  StaysUp(d) /\ (Alive(d)' <=> Alive(d)) /\ Owner(d)' = Owner(d)
               /\ end'[d].nonce = end[d].nonce /\ end'[d].other_version = end[d].other_version
               /\ (end'[d].state # end[d].state => d = e)
    BY <1>1, <1>2, OwnerSame DEF StaysUp, Alive, connected2
  <1>4. Types'
    BY <1>1, <1>2 DEF IInv, Types
  <1>5. LinksKept'
    <2>1. ASSUME NEW l \in Link, link[l] = NoLink
          PROVE  end'[<<l, "out">>].state = "lost" /\ end'[<<l, "in">>].state = "lost"
      BY <1>1, <1>2, <2>1, Ends DEF IInv, LinksKept
    <2> QED BY <1>1, <2>1 DEF IInv, LinksKept
  <1>6. HeardInOrder'
    <2>1. ASSUME NEW d \in End
          PROVE  /\ end'[d].state \in {"none", "lost"} => end'[d] = Fresh(end'[d].state)
                 /\ end'[d].nonce # nobody => end'[d].other_version
                 /\ end'[d].nonce # nobody => end'[d].nonce # Owner(d)'
                 /\ end'[d].state = "open" /\ end'[d].other_version => end'[d].nonce # nobody
      BY <1>2, <1>3 DEF IInv, HeardInOrder
    <2> QED BY <2>1 DEF HeardInOrder
  <1>7. TablesExact' /\ ConnsExact'
    BY <1>1, <1>3, TablesSame DEF IInv
  <1>8. IncomingLive'
    <2>1. ASSUME NEW k \in Link PROVE Alive(<<k, "in">>)' <=> Alive(<<k, "in">>)
      BY <1>3, Ends
    <2> QED BY <1>1, <2>1, IncomingSame DEF IInv
  <1>9. AttemptsLive'
    <2>1. ASSUME NEW k \in Link PROVE end'[<<k, "out">>].state = "lost" <=> end[<<k, "out">>].state = "lost"
      BY <1>1, <1>2, Ends
    <2> QED BY <1>1, <2>1, AttemptsSame DEF IInv
  <1>10. WiresShort'
    <2>1. ASSUME NEW x \in End, NEW y \in End, y = Far(x)
          PROVE  /\ Len(wire'[x]) <= 2
                 /\ end'[y].state = "none" => wire'[x] = <<>>
                 /\ Alive(y)' /\ end'[y].nonce = nobody => Len(wire'[x]) <= 1
      BY <1>1, <1>2, <1>3, <2>1 DEF IInv, WiresShort
    <2> QED BY <2>1 DEF WiresShort
  <1>11. Greeted'
    <2>1. ASSUME NEW x \in End, NEW y \in End, y = Far(x),
                 end'[x].state \in {"none", "open"}, end'[y].state = "open",
                 Owner(x)' \notin rude, Owner(y)' \notin rude, end'[x].nonce = nobody
          PROVE  ~ end'[x].other_version /\ wire'[x] # <<>> /\ wire'[x][1] = Version(Owner(y))'
      BY <1>1, <1>2, <1>3, <2>1 DEF IInv, Greeted, Version
    <2> QED BY <1>1, <2>1 DEF Greeted
  <1> QED BY <1>1, <1>4, <1>5, <1>6, <1>7, <1>8, <1>9, <1>10, <1>11 DEF IInv, NoRaise

\* What the rest of the invariant is about does not change with the bans.
LEMMA BansApart ==
  ASSUME IInv, bans' \in [Peer -> SUBSET Peer],
         UNCHANGED <<rude, link, end, wire, peers, attempts, conns, incoming, error>>
  PROVE  IInv'
  <1>1. ASSUME NEW d \in End
        PROVE  StaysUp(d) /\ (Alive(d)' <=> Alive(d)) /\ Owner(d)' = Owner(d)
    BY OwnerSame DEF StaysUp, Alive, connected2
  <1>2. Types' /\ LinksKept'
    BY DEF IInv, Types, LinksKept
  <1>3. HeardInOrder'
    BY <1>1 DEF IInv, HeardInOrder
  <1>4. TablesExact' /\ ConnsExact'
    BY <1>1, TablesSame DEF IInv
  <1>5. IncomingLive'
    BY <1>1, Ends, IncomingSame DEF IInv
  <1>6. AttemptsLive'
    BY AttemptsSame DEF IInv
  <1>7. WiresShort'
    BY <1>1 DEF IInv, WiresShort
  <1>8. Greeted'
    BY <1>1 DEF IInv, Greeted, Version
  <1> QED BY <1>2, <1>3, <1>4, <1>5, <1>6, <1>7, <1>8 DEF IInv, NoRaise

\* A connection that was made goes, and with it what the tables and the counts held of it.
LEMMA LostKeeps ==
  ASSUME IInv, NEW e \in End, connectionLost(e)
  PROVE  IInv'
  <1>1. /\ Alive(e) /\ end[e].state # "lost" /\ Gone(e) /\ UNCHANGED <<rude, bans>>
        /\ e[1] \in Link /\ e[2] \in {"out", "in"} /\ e = <<e[1], e[2]>>
    BY Ends DEF connectionLost, Alive
  <1>2. PICK a \in Peer, h \in Hosts, l \in Link :
          a = Owner(e) /\ h = ident[Remote(e)] /\ l = e[1] /\ link[l].client \in Peer
    <2>1. Owner(e) \in Peer /\ Remote(e) \in Peer /\ link[e[1]].client \in Peer
      BY <1>1, Owned DEF IInv
    <2> QED BY <1>1, <2>1, Constants
  <1>3. connected2(e) => Known(e)
    <2> SUFFICES ASSUME connected2(e) PROVE Known(e)
      OBVIOUS
    <2>1. end[e].nonce \in DOMAIN peers[Owner(e)] /\ peers[Owner(e)][end[e].nonce] = e
      BY DEF IInv, TablesExact
    <2>2. e[2] = "out" /\ link[e[1]].kind = "client" => e[1] \in conns[Owner(e)]
      BY <1>1, <1>2, Ends DEF IInv, ConnsExact
    <2> QED BY <2>1, <2>2 DEF Known
  <1>4. /\ error' = "none"
        /\ peers' = [peers EXCEPT ![a] = [p \in DOMAIN @ \ {end[e].nonce} |-> @[p]]]
        /\ conns' = [conns EXCEPT ![a] = IF e[2] = "out" THEN @ \ {l} ELSE @]
        /\ e[2] = "in" => incoming' = [incoming EXCEPT ![a][h] = @ - 1] /\ UNCHANGED attempts
        /\ e[2] = "out" => attempt_over(l) /\ UNCHANGED incoming
    BY <1>1, <1>2, <1>3 DEF connectionLost, proto_lost_connection
  <1>5. /\ end' \in [End -> EndState] /\ wire' \in [End -> Seq(Message)] /\ link' \in [Link -> LinkSet]
        /\ end'[e] = Fresh("lost")
        /\ \A d \in End : d # e => end'[d] = end[d]
        /\ \A k \in Link : k # l => link'[k] = link[k]
        /\ end[Far(e)].state # "lost" => link'[l] = link[l]
    BY <1>1, <1>2, GoneEffect
  <1>6. LinksKept' /\ HeardInOrder' /\ WiresShort' /\ Greeted'
    BY <1>1, GoneKeeps
  <1>7. ~ Alive(e)' /\ ~ connected2(e)' /\ end'[e].state = "lost"
    BY <1>5 DEF Alive, connected2, Fresh
  <1>8. ASSUME NEW d \in End, d # e
        PROVE  /\ Alive(d)' <=> Alive(d)
               /\ connected2(d)' <=> connected2(d)
               /\ end[d].state # "lost" => link'[d[1]] = link[d[1]] /\ Owner(d)' = Owner(d)
    <2>1. (Alive(d)' <=> Alive(d)) /\ (connected2(d)' <=> connected2(d))
      BY <1>5, <1>8 DEF Alive, connected2
    <2>2. ASSUME end[d].state # "lost" PROVE link'[d[1]] = link[d[1]]
      <3>1. d[1] = l => d = Far(e)
        BY <1>2, <1>8, Ends
      <3> QED BY <1>5, <2>2, <3>1, Ends
    <2> QED BY <2>1, <2>2, OwnerSame
  <1>9. /\ \A c \in Peer : c # a => peers'[c] = peers[c] /\ conns'[c] = conns[c]
        /\ peers'[a] = [p \in DOMAIN peers[a] \ {end[e].nonce} |-> peers[a][p]]
        /\ conns'[a] = IF e[2] = "out" THEN conns[a] \ {l} ELSE conns[a]
        /\ peers' \in [Peer -> Tables] /\ conns' \in [Peer -> SUBSET Link]
    <2>1. [p \in DOMAIN peers[a] \ {end[e].nonce} |-> peers[a][p]] \in Tables
      <3>1. PICK D \in SUBSET Peer : peers[a] \in [D -> End]
        BY DEF IInv, Types, Tables
      <3>2. [p \in D \ {end[e].nonce} |-> peers[a][p]] \in [D \ {end[e].nonce} -> End]
        BY <3>1
      <3>3. D \ {end[e].nonce} \in SUBSET Peer
        OBVIOUS
      <3> QED BY <3>1, <3>2, <3>3 DEF Tables
    <2> QED BY <1>4, <2>1 DEF IInv, Types
  <1>10. ASSUME NEW c \in Peer, NEW p \in DOMAIN peers'[c], NEW d, d = peers'[c][p]
         PROVE  connected2(d)' /\ Owner(d)' = c /\ end'[d].nonce = p
    <2>1. p \in DOMAIN peers[c] /\ d = peers[c][p] /\ (c = a => p # end[e].nonce)
      BY <1>9, <1>10
    <2>2. d \in End /\ connected2(d) /\ Owner(d) = c /\ end[d].nonce = p
      BY <2>1 DEF IInv, Types, Tables, TablesExact
    <2>3. d # e
      BY <1>2, <2>1, <2>2
    <2>4. end[d].state # "lost"
      BY <2>2 DEF connected2, Alive
    <2> QED BY <1>5, <1>8, <2>2, <2>3, <2>4
  <1>11. ASSUME NEW d \in End, connected2(d)'
         PROVE  end'[d].nonce \in DOMAIN peers'[Owner(d)'] /\ peers'[Owner(d)'][end'[d].nonce] = d
    <2>1. d # e /\ connected2(d) /\ end'[d] = end[d]
      BY <1>5, <1>7, <1>8, <1>11
    <2>2. Owner(d)' = Owner(d) /\ Owner(d) \in Peer
      <3>1. end[d].state # "lost"
        BY <2>1 DEF connected2, Alive
      <3> QED BY <1>8, <2>1, <3>1, Owned DEF IInv
    <2>3. end[d].nonce \in DOMAIN peers[Owner(d)] /\ peers[Owner(d)][end[d].nonce] = d
      BY <2>1 DEF IInv, TablesExact
    <2>4. Owner(d) = a => end[d].nonce # end[e].nonce
      <3>1. ASSUME Owner(d) = a, end[d].nonce = end[e].nonce PROVE FALSE
        <4>1. connected2(e)
          BY <1>1, <2>1, <3>1 DEF connected2
        <4>2. peers[a][end[e].nonce] = e
          BY <1>2, <4>1 DEF IInv, TablesExact
        <4> QED BY <2>1, <2>3, <3>1, <4>2
      <3> QED BY <3>1
    <2> QED BY <1>9, <2>1, <2>2, <2>3, <2>4
  <1>12. TablesExact'
    BY <1>10, <1>11 DEF TablesExact
  <1>13. ASSUME NEW c \in Peer, NEW k \in Link
         PROVE  k \in conns'[c] <=> connected2(<<k, "out">>)' /\ link'[k].client = c /\ link'[k].kind = "client"
    <2> DEFINE d == <<k, "out">>
    <2>0. d \in End /\ d[1] = k /\ Owner(d) = link[k].client
          /\ (k \in conns[c] <=> connected2(d) /\ link[k].client = c /\ link[k].kind = "client")
      BY Ends DEF IInv, ConnsExact
    <2>1. CASE d = e
      <3>1. k = l /\ e[2] = "out"
        BY <1>2, <2>1
      <3>2. k \notin conns'[c]
        BY <1>2, <1>9, <2>0, <2>1, <3>1
      <3> QED BY <1>7, <2>1, <3>2
    <2>2. CASE d # e
      <3>1. e[2] = "out" => k # l
        BY <1>1, <1>2, <2>2
      <3>2. k \in conns'[c] <=> k \in conns[c]
        BY <1>9, <3>1
      <3>3. connected2(d) => end[d].state # "lost"
        BY DEF connected2, Alive
      <3>4. (connected2(d)' <=> connected2(d)) /\ (connected2(d) => link'[k] = link[k])
        BY <1>8, <2>0, <2>2, <3>3
      <3> QED BY <2>0, <3>2, <3>4
    <2> QED BY <2>1, <2>2
  <1>14. ConnsExact'
    BY <1>13 DEF ConnsExact
  <1>15. AttemptsLive' /\ attempts' \in [Peer -> SUBSET Hosts]
    <2>1. CASE e[2] = "out"
      <3>1. e = <<l, "out">>
        BY <1>1, <1>2, <2>1
      <3>2. \A k \in Link : k # l => link'[k] = link[k] /\ end'[<<k, "out">>] = end[<<k, "out">>]
        BY <1>5, <3>1, Ends
      <3> QED BY <1>1, <1>4, <1>7, <2>1, <3>1, <3>2, AttemptOver
    <2>2. CASE e[2] = "in"
      <3>1. ASSUME NEW k \in Link
            PROVE  /\ end'[<<k, "out">>].state = "lost" <=> end[<<k, "out">>].state = "lost"
                   /\ end[<<k, "out">>].state # "lost" => link'[k] = link[k]
        <4>1. <<k, "out">> \in End /\ <<k, "out">> # e /\ <<k, "out">>[1] = k
          BY <1>1, <2>2, Ends
        <4> QED BY <1>5, <1>8, <4>1
      <3>2. AttemptsLive'
        BY <1>4, <2>2, <3>1, AttemptsSame DEF IInv
      <3> QED BY <1>4, <2>2, <3>2 DEF IInv, Types
    <2> QED BY <1>1, <2>1, <2>2
  <1>16. IncomingLive' /\ incoming' \in [Peer -> [Hosts -> Nat]]
    <2>1. CASE e[2] = "out"
      <3>1. ASSUME NEW k \in Link
            PROVE  (Alive(<<k, "in">>)' <=> Alive(<<k, "in">>)) /\ (Alive(<<k, "in">>) => link'[k] = link[k])
        <4>1. <<k, "in">> \in End /\ <<k, "in">> # e /\ <<k, "in">>[1] = k
          BY <1>1, <2>1, Ends
        <4>2. Alive(<<k, "in">>) => end[<<k, "in">>].state # "lost"
          BY DEF Alive
        <4> QED BY <1>8, <4>1, <4>2
      <3>2. IncomingLive'
        BY <1>4, <2>1, <3>1, IncomingSame DEF IInv
      <3> QED BY <1>4, <2>1, <3>2 DEF IInv, Types
    <2>2. CASE e[2] = "in"
      <3>1. e = <<l, "in">> /\ link[l].server = a /\ ident[link[l].client] = h
        BY <1>1, <1>2, <2>2, Ends DEF Remote
      <3>2. ASSUME NEW k \in Link, k # l
            PROVE  (Alive(<<k, "in">>)' <=> Alive(<<k, "in">>)) /\ link'[k] = link[k]
        <4>1. <<k, "in">> \in End /\ <<k, "in">> # e
          BY <3>1, <3>2, Ends
        <4> QED BY <1>5, <1>8, <3>2, <4>1
      <3>3. ~ Alive(<<l, "in">>)' /\ Alive(<<l, "in">>)
        BY <1>1, <1>7, <3>1
      <3>4. Into(a, h)' = Into(a, h) \ {l} /\ l \in Into(a, h)
        BY <3>1, <3>2, <3>3 DEF Into
      <3>5. ASSUME NEW c \in Peer, NEW j \in Hosts, c # a \/ j # h PROVE Into(c, j)' = Into(c, j)
        BY <3>1, <3>2, <3>3, <3>5 DEF Into
      <3>6. Cardinality(Into(a, h)') = incoming[a][h] - 1 /\ incoming[a][h] \in Nat /\ incoming[a][h] >= 1
            /\ incoming[a][h] <= SameIdent /\ Total(a) <= max_conns[a]
        <4>1. incoming[a][h] = Cardinality(Into(a, h)) /\ incoming[a][h] <= SameIdent /\ Total(a) <= max_conns[a]
          BY DEF IInv, IncomingLive
        <4>2. IsFiniteSet(Into(a, h)) /\ Cardinality(Into(a, h)) \in Nat
          BY IntoFinite
        <4>3. Cardinality(Into(a, h) \ {l}) = Cardinality(Into(a, h)) - 1
          BY <3>4, <4>2, FS_RemoveElement
        <4>4. Cardinality(Into(a, h)) # 0
          BY <3>4, <4>2, FS_EmptySet
        <4> QED BY <3>4, <4>1, <4>2, <4>3, <4>4
      <3>7. Total(a) \in Int
        <4>1. incoming[a] \in [Hosts -> Int]
          BY DEF IInv, Types
        <4>2. SumOf(incoming[a]) \in Int
          BY <4>1, Constants, SumChange
        <4> QED BY <4>2, TotalIsSum
      <3>8. PICK v \in Nat : v = incoming[a][h] - 1
        BY <3>6
      <3>9. incoming' = [incoming EXCEPT ![a][h] = v]
        BY <1>4, <2>2, <3>8
      <3>10. v <= SameIdent /\ v = Cardinality(Into(a, h)') /\ Total(a) - incoming[a][h] + v <= max_conns[a]
        BY <3>6, <3>7, <3>8, Constants
      <3> QED BY <3>5, <3>9, <3>10, IncomingChange DEF IInv
    <2> QED BY <1>1, <2>1, <2>2
  <1>17. Types'
    BY <1>1, <1>4, <1>5, <1>9, <1>15, <1>16 DEF IInv, Types
  <1> QED BY <1>4, <1>6, <1>12, <1>14, <1>15, <1>16, <1>17 DEF IInv, NoRaise

-----------------------------------------------------------------------------
(***************************************************************************)
(* A chunk is handled.                                                     *)
(***************************************************************************)
LEMMA RestOfWire ==
  ASSUME NEW w \in Seq(Message), NEW n \in Nat
  PROVE  /\ SubSeq(w, n + 1, Len(w)) \in Seq(Message)
         /\ Len(SubSeq(w, n + 1, Len(w))) <= Len(w)
         /\ w = <<>> => SubSeq(w, n + 1, Len(w)) = <<>>
  <1>1. Len(w) \in Nat /\ n + 1 \in Nat
    OBVIOUS
  <1> DEFINE r == SubSeq(w, n + 1, Len(w))
  <1>2. \A i \in (n + 1) .. Len(w) : w[i] \in Message
    OBVIOUS
  <1>3. r \in Seq(Message)
    BY <1>1, <1>2, SubSeqProperties
  <1>4. Len(r) = IF n + 1 <= Len(w) THEN Len(w) - n ELSE 0
    BY <1>1, <1>2, SubSeqProperties
  <1>5. Len(r) <= Len(w) /\ (w = <<>> => Len(r) = 0)
    BY <1>1, <1>4
  <1>6. w = <<>> => r = <<>>
    BY <1>3, <1>5, EmptySeq
  <1> QED BY <1>3, <1>5, <1>6

LEMMA StartWorks ==
  ASSUME IInv, NEW e \in End, end[e].state = "open"
  PROVE  Start(e) \in Working(e)
  <1>1. Owner(e) \in Peer
    BY Owned DEF IInv
  <1>2. end[e] \in EndState /\ peers[Owner(e)] \in Tables /\ conns[Owner(e)] \in SUBSET Link
        /\ (end[e].nonce # nobody => end[e].other_version)
        /\ (end[e].state = "open" /\ end[e].other_version => end[e].nonce # nobody)
    BY <1>1 DEF IInv, Types, HeardInOrder
  <1>3. <<>> \in Seq(Message)
    OBVIOUS
  <1>4. Start(e) \in WorkingRecord
    BY <1>2, <1>3 DEF Start, WorkingRecord
  <1>5. Untouched(Start(e), e)
    BY DEF Start, Untouched
  <1>6. Start(e).self = end[e] /\ Start(e).error = "none"
    BY DEF Start
  <1> QED BY <1>2, <1>4, <1>5, <1>6 DEF Working

LEMMA ChunkOfMessages ==
  ASSUME IInv, NEW e \in End, end[e].state = "open", NEW chunk \in Chunks(e)
  PROVE  /\ chunk \in Seq(Message) /\ Len(chunk) \in Nat
         /\ Remote(e) \notin rude => wire[e] # <<>> /\ Len(chunk) > 0 /\ chunk[1] = wire[e][1]
  <1>0. wire[e] \in Seq(Message) /\ Len(wire[e]) \in Nat
    BY DEF IInv, Types
  <1>1. CASE Remote(e) \in rude
    <2>1. PICK k \in 1 .. MaxWire : chunk \in [1 .. k -> Message]
      BY <1>1 DEF Chunks
    <2>2. chunk \in Seq(Message) /\ Len(chunk) \in Nat
      BY <2>1, PeersAssumption
    <2> QED BY <1>1, <2>2
  <1>2. CASE Remote(e) \notin rude
    <2>1. PICK k \in 1 .. Len(wire[e]) : chunk = SubSeq(wire[e], 1, k)
      BY <1>2 DEF Chunks
    <2>2. \A i \in 1 .. k : wire[e][i] \in Message
      BY <1>0, <2>1
    <2>3. chunk \in Seq(Message) /\ Len(chunk) = k /\ chunk[1] = wire[e][1]
      BY <1>0, <2>1, <2>2, SubSeqProperties
    <2> QED BY <1>0, <2>1, <2>3
  <1> QED BY <1>1, <1>2

LEMMA OneSaid ==
  ASSUME NEW said, said \in {<<>>, <<Ping>>}
  PROVE  said \in Seq(Message) /\ Len(said) <= 1 /\ Len(said) \in Nat
  <1>1. CASE said = <<>>
    BY <1>1, EmptySeq
  <1>2. CASE said = <<Ping>>
    <2>1. Ping \in Message
      BY DEF Message
    <2> QED BY <1>2, <2>1
  <1> QED BY <1>1, <1>2

LEMMA ChunkKeeps ==
  ASSUME IInv, NEW e \in End, NEW chunk \in Chunks(e), dataReceived(e, chunk)
  PROVE  IInv'
  <1>1. PICK s \in Working(e) :
          s = Received(e, chunk) /\ (Len(chunk) > 0 /\ chunk[1].type = "version" => s.self.other_version)
    <2>1. Start(e) \in Working(e) /\ chunk \in Seq(Message)
      BY StartWorks, ChunkOfMessages DEF dataReceived
    <2> QED BY <2>1, ReceivedKeeps, Constants
  <1>2. PICK a \in Peer, f \in End : a = Owner(e) /\ f = Far(e) /\ f # e /\ e = Far(f) /\ Remote(e) \in Peer
    <2>1. Owner(e) \in Peer /\ Remote(e) \in Peer
      BY Owned DEF IInv, dataReceived
    <2> QED BY <2>1, Ends
  <1>3. /\ end[e].state = "open" /\ a \notin rude
        /\ end' = [end EXCEPT ![e] = s.self]
        /\ wire' = [wire EXCEPT ![e] = SubSeq(@, Len(chunk) + 1, Len(@)),
                                ![f] = Written(f, IF s.self.state = "open" THEN s.said ELSE <<>>)]
        /\ peers' = [peers EXCEPT ![a] = s.peers]
        /\ conns' = [conns EXCEPT ![a] = s.conns]
        /\ bans' = [bans EXCEPT ![a] = IF s.banned THEN @ \cup {Remote(e)} ELSE @]
        /\ error' = s.error
        /\ UNCHANGED <<rude, link, attempts, incoming>>
    BY <1>1, <1>2 DEF dataReceived
  <1>4. /\ s.self \in EndState /\ s.peers \in Tables /\ s.conns \in SUBSET Link /\ s.said \in Seq(Message)
        /\ s.banned \in BOOLEAN /\ s.error = "none" /\ s.self.state \in {"open", "aborting"}
        /\ s.self.nonce # nobody => s.self.other_version
        /\ s.self.state = "open" /\ s.self.other_version => s.self.nonce # nobody
        /\ Untouched(s, e) \/ Established(s, e)
    BY DEF Working, WorkingRecord
  <1>5. /\ chunk \in Seq(Message) /\ Len(chunk) \in Nat
        /\ Remote(e) \notin rude => wire[e] # <<>> /\ Len(chunk) > 0 /\ chunk[1] = wire[e][1]
    BY <1>3, ChunkOfMessages
  <1> DEFINE said == IF s.self.state = "open" /\ end[f].state # "lost" /\ Owner(f) \notin rude THEN s.said ELSE <<>>
  <1>6. /\ end' \in [End -> EndState] /\ end'[e] = s.self /\ \A d \in End : d # e => end'[d] = end[d]
        /\ peers' \in [Peer -> Tables] /\ peers'[a] = s.peers /\ \A c \in Peer : c # a => peers'[c] = peers[c]
        /\ conns' \in [Peer -> SUBSET Link] /\ conns'[a] = s.conns /\ \A c \in Peer : c # a => conns'[c] = conns[c]
        /\ bans' \in [Peer -> SUBSET Peer]
    <2>1. end' \in [End -> EndState] /\ end'[e] = s.self /\ \A d \in End : d # e => end'[d] = end[d]
      BY <1>3, <1>4 DEF IInv, Types
    <2>2. peers' \in [Peer -> Tables] /\ peers'[a] = s.peers /\ \A c \in Peer : c # a => peers'[c] = peers[c]
      BY <1>3, <1>4 DEF IInv, Types
    <2>3. conns' \in [Peer -> SUBSET Link] /\ conns'[a] = s.conns /\ \A c \in Peer : c # a => conns'[c] = conns[c]
      BY <1>3, <1>4 DEF IInv, Types
    <2>4. bans' \in [Peer -> SUBSET Peer]
      BY <1>2, <1>3 DEF IInv, Types
    <2> QED BY <2>1, <2>2, <2>3, <2>4
  <1>7. /\ wire' \in [End -> Seq(Message)]
        /\ wire'[e] = SubSeq(wire[e], Len(chunk) + 1, Len(wire[e]))
        /\ wire'[f] = wire[f] \o said
        /\ \A d \in End : d # e /\ d # f => wire'[d] = wire[d]
    <2>1. wire[e] \in Seq(Message) /\ wire[f] \in Seq(Message) /\ wire[f] \o <<>> = wire[f]
      BY ConcatEmptySeq DEF IInv, Types
    <2>2. said \in Seq(Message)
      BY <1>4, EmptySeq
    <2>3. Written(f, IF s.self.state = "open" THEN s.said ELSE <<>>) = wire[f] \o said
      BY <2>1 DEF Written
    <2>4. wire[f] \o said \in Seq(Message)
      BY <2>1, <2>2
    <2>5. SubSeq(wire[e], Len(chunk) + 1, Len(wire[e])) \in Seq(Message)
      BY <1>5, <2>1, RestOfWire
    <2> HIDE DEF said
    <2> QED BY <1>2, <1>3, <2>3, <2>4, <2>5 DEF IInv, Types
  <1> HIDE DEF said
  <1>8. ASSUME NEW d \in End
        PROVE  Owner(d)' = Owner(d) /\ (Alive(d)' <=> Alive(d)) /\ (d # e => StaysUp(d))
    BY <1>3, <1>4, <1>6, OwnerSame DEF StaysUp, Alive, connected2
  <1>9. Types'
    BY <1>3, <1>4, <1>6, <1>7 DEF IInv, Types
  <1>10. LinksKept'
    <2>1. ASSUME NEW l \in Link, link[l] = NoLink
          PROVE  end'[<<l, "out">>].state = "lost" /\ end'[<<l, "in">>].state = "lost"
      BY <1>3, <1>6, <2>1, Ends DEF IInv, LinksKept
    <2> QED BY <1>3, <2>1 DEF IInv, LinksKept
  <1>11. s.self.nonce # nobody => s.self.nonce # a
    BY <1>2, <1>4 DEF Untouched, Established, IInv, HeardInOrder
  <1>12. HeardInOrder'
    <2>1. ASSUME NEW d \in End
          PROVE  /\ end'[d].state \in {"none", "lost"} => end'[d] = Fresh(end'[d].state)
                 /\ end'[d].nonce # nobody => end'[d].other_version
                 /\ end'[d].nonce # nobody => end'[d].nonce # Owner(d)'
                 /\ end'[d].state = "open" /\ end'[d].other_version => end'[d].nonce # nobody
      <3>1. CASE d = e
        BY <1>2, <1>4, <1>6, <1>8, <1>11, <3>1
      <3>2. CASE d # e
        BY <1>6, <1>8, <3>2 DEF IInv, HeardInOrder
      <3> QED BY <3>1, <3>2
    <2> QED BY <2>1 DEF HeardInOrder
  <1>13. TablesExact' /\ ConnsExact'
    <2>1. CASE Untouched(s, e)
      <3>1. StaysUp(e)
        BY <1>3, <1>6, <1>8, <2>1 DEF StaysUp, connected2, Untouched
      <3>2. UNCHANGED <<peers, conns>>
        BY <1>2, <1>3, <2>1 DEF Untouched, IInv, Types
      <3> QED BY <1>8, <3>1, <3>2, TablesSame DEF IInv
    <2>2. CASE Established(s, e)
      <3>1. PICK n \in Peer : n = s.self.nonce /\ n # a /\ n \notin DOMAIN peers[a]
        BY <1>2, <2>2 DEF Established
      <3>2. peers'[a] = With(peers[a], n, e) /\ conns'[a] = Joined(conns[a], e) /\ ~ connected2(e)
        BY <1>2, <1>6, <2>2, <3>1 DEF Established, connected2
      <3>3. DOMAIN peers'[a] = DOMAIN peers[a] \cup {n} /\ peers'[a][n] = e
            /\ \A p \in DOMAIN peers[a] : peers'[a][p] = peers[a][p]
        BY <3>1, <3>2 DEF With
      <3>4. connected2(e)' /\ end'[e].nonce = n /\ Owner(e)' = a
        BY <1>2, <1>3, <1>6, <1>8, <3>1, Constants DEF connected2, Alive
      <3>5. ASSUME NEW c \in Peer, NEW p \in DOMAIN peers'[c], NEW d, d = peers'[c][p]
            PROVE  connected2(d)' /\ Owner(d)' = c /\ end'[d].nonce = p
        <4>1. CASE c = a /\ p = n
          BY <3>3, <3>4, <3>5, <4>1
        <4>2. CASE ~ (c = a /\ p = n)
          <5>1. p \in DOMAIN peers[c] /\ d = peers[c][p]
            BY <1>6, <3>3, <3>5, <4>2
          <5>2. d \in End /\ connected2(d) /\ Owner(d) = c /\ end[d].nonce = p
            BY <5>1 DEF IInv, Types, Tables, TablesExact
          <5>3. d # e
            BY <3>2, <5>2
          <5> QED BY <1>8, <5>2, <5>3 DEF StaysUp
        <4> QED BY <4>1, <4>2
      <3>6. ASSUME NEW d \in End, connected2(d)'
            PROVE  end'[d].nonce \in DOMAIN peers'[Owner(d)'] /\ peers'[Owner(d)'][end'[d].nonce] = d
        <4>1. CASE d = e
          BY <3>3, <3>4, <4>1
        <4>2. CASE d # e
          <5>1. connected2(d) /\ end'[d].nonce = end[d].nonce /\ Owner(d)' = Owner(d)
            BY <1>8, <3>6, <4>2 DEF StaysUp
          <5>2. end[d].nonce \in DOMAIN peers[Owner(d)] /\ peers[Owner(d)][end[d].nonce] = d
            BY <5>1 DEF IInv, TablesExact
          <5>3. Owner(d) \in Peer
            BY <5>1, Owned DEF IInv, connected2, Alive
          <5> QED BY <1>6, <3>3, <5>1, <5>2, <5>3
        <4> QED BY <4>1, <4>2
      <3>7. TablesExact'
        BY <3>5, <3>6 DEF TablesExact
      <3>8. ASSUME NEW c \in Peer, NEW k \in Link
            PROVE  k \in conns'[c] <=> connected2(<<k, "out">>)' /\ link'[k].client = c /\ link'[k].kind = "client"
        <4>1. <<k, "out">> \in End /\ <<k, "out">>[1] = k
              /\ (k \in conns[c] <=> connected2(<<k, "out">>) /\ link[k].client = c /\ link[k].kind = "client")
          BY Ends DEF IInv, ConnsExact
        <4>2. CASE e = <<k, "out">>
          <5>1. link[k].client = a /\ k \notin conns[c] /\ e[1] = k /\ e[2] = "out"
            BY <1>2, <3>2, <4>1, <4>2, Ends
          <5>2. c = a => (k \in conns'[c] <=> link[k].kind = "client")
            BY <3>2, <5>1 DEF Joined
          <5>3. c # a => k \notin conns'[c]
            BY <1>6, <5>1
          <5> QED BY <1>3, <3>4, <4>2, <5>1, <5>2, <5>3
        <4>3. CASE e # <<k, "out">>
          <5>1. k \in conns'[c] <=> k \in conns[c]
            <6>1. e[2] = "out" => e[1] # k
              BY <4>3, Ends
            <6> QED BY <1>6, <3>2, <6>1 DEF Joined
          <5>2. StaysUp(<<k, "out">>)
            BY <1>8, <4>1, <4>3
          <5> QED BY <1>3, <4>1, <5>1, <5>2 DEF StaysUp
        <4> QED BY <4>2, <4>3
      <3>9. ConnsExact'
        BY <3>8 DEF ConnsExact
      <3> QED BY <3>7, <3>9
    <2> QED BY <1>4, <2>1, <2>2
  <1>14. IncomingLive'
    <2>1. ASSUME NEW k \in Link PROVE Alive(<<k, "in">>)' <=> Alive(<<k, "in">>)
      BY <1>8, Ends
    <2> QED BY <1>3, <2>1, IncomingSame DEF IInv
  <1>15. AttemptsLive'
    <2>1. ASSUME NEW k \in Link PROVE end'[<<k, "out">>].state = "lost" <=> end[<<k, "out">>].state = "lost"
      BY <1>3, <1>4, <1>6, Ends
    <2> QED BY <1>3, <2>1, AttemptsSame DEF IInv
  <1>16. WiresShort'
    <2>1. ASSUME NEW x \in End, NEW y \in End, y = Far(x)
          PROVE  /\ Len(wire'[x]) <= 2
                 /\ end'[y].state = "none" => wire'[x] = <<>>
                 /\ Alive(y)' /\ end'[y].nonce = nobody => Len(wire'[x]) <= 1
      <3>0. /\ wire[x] \in Seq(Message) /\ Len(wire[x]) \in Nat /\ Len(wire[x]) <= 2
            /\ end[y].state = "none" => wire[x] = <<>>
            /\ Alive(y) /\ end[y].nonce = nobody => Len(wire[x]) <= 1
        BY <2>1 DEF IInv, Types, WiresShort
      <3>1. CASE x = e
        <4>1. y # e
          BY <1>2, <2>1, <3>1
        <4>2. Len(wire'[x]) <= Len(wire[x]) /\ (wire[x] = <<>> => wire'[x] = <<>>) /\ Len(wire'[x]) \in Nat
          BY <1>5, <1>7, <3>0, <3>1, RestOfWire, LenProperties
        <4>3. end'[y] = end[y]
          BY <1>6, <4>1
        <4>4. Len(wire'[x]) <= 2
          BY <3>0, <4>2
        <4>5. Alive(y)' /\ end'[y].nonce = nobody => Len(wire'[x]) <= 1
          BY <1>8, <3>0, <4>2, <4>3
        <4> QED BY <3>0, <4>2, <4>3, <4>4, <4>5
      <3>2. CASE x = f
        <4>1. y = e /\ Alive(e) /\ end'[y] = s.self
          BY <1>2, <1>3, <1>6, <2>1, <3>2 DEF Alive
        <4>2. CASE Untouched(s, e)
          <5>1. said = <<>>
            BY <4>2 DEF said, Untouched
          <5>2. wire'[x] = wire[x]
            BY <1>7, <3>0, <3>2, <5>1, ConcatEmptySeq
          <5> QED BY <1>4, <3>0, <4>1, <4>2, <5>2 DEF Untouched
        <4>3. CASE Established(s, e)
          <5>1. Len(wire[x]) <= 1 /\ s.self.nonce # nobody
            BY <3>0, <4>1, <4>3, Constants DEF Established
          <5>2. said \in {<<>>, <<Ping>>} /\ Ping \in Message
            BY <4>3 DEF said, Established, Message
          <5>3. said \in Seq(Message) /\ Len(said) <= 1 /\ Len(said) \in Nat
            BY <5>2, OneSaid
          <5>4. Len(wire'[x]) = Len(wire[x]) + Len(said)
            BY <1>7, <3>0, <3>2, <5>3
          <5>5. Len(wire'[x]) <= 2
            BY <3>0, <5>1, <5>3, <5>4
          <5> QED BY <1>4, <4>1, <5>1, <5>5
        <4> QED BY <1>4, <4>2, <4>3
      <3>3. CASE x # e /\ x # f
        <4>1. wire'[x] = wire[x] /\ y # e
          BY <1>2, <1>7, <2>1, <3>3, Ends
        <4> QED BY <1>6, <1>8, <3>0, <4>1
      <3> QED BY <3>1, <3>2, <3>3
    <2> QED BY <2>1 DEF WiresShort
  <1>17. Greeted'
    <2>1. ASSUME NEW x \in End, NEW y \in End, y = Far(x),
                 end'[x].state \in {"none", "open"}, end'[y].state = "open",
                 Owner(x)' \notin rude, Owner(y)' \notin rude, end'[x].nonce = nobody
          PROVE  ~ end'[x].other_version /\ wire'[x] # <<>> /\ wire'[x][1] = Version(Owner(y))'
      <3>0. Owner(x)' = Owner(x) /\ Owner(y)' = Owner(y)
        BY <1>8
      <3>1. CASE x = e
        <4>1. y # e /\ end'[y] = end[y] /\ end'[x] = s.self
          BY <1>2, <1>6, <2>1, <3>1
        <4>2. end[x].nonce = nobody
          BY <1>4, <2>1, <3>1, <4>1 DEF Untouched, Established
        <4>3. wire[x] # <<>> /\ wire[x][1] = Version(Owner(y))
          BY <1>3, <2>1, <3>0, <3>1, <4>1, <4>2 DEF IInv, Greeted
        <4>4. Remote(e) \notin rude
          BY <2>1, <3>0, <3>1 DEF Remote
        <4>5. s.self.other_version
          BY <1>1, <1>5, <3>1, <4>3, <4>4 DEF Version
        <4>6. s.self.state = "open"
          BY <1>4, <2>1, <4>1
        <4> QED BY <1>4, <2>1, <4>1, <4>5, <4>6
      <3>2. CASE x = f
        <4>1. y = e /\ end[e].state = "open" /\ end'[x] = end[x]
          BY <1>2, <1>3, <1>6, <2>1, <3>2
        <4>2. ~ end[x].other_version /\ wire[x] # <<>> /\ wire[x][1] = Version(Owner(y))
          BY <2>1, <3>0, <4>1 DEF IInv, Greeted
        <4>3. wire[x] \in Seq(Message) /\ said \in Seq(Message)
          BY <1>4, EmptySeq DEF IInv, Types, said
        <4>4. wire'[x] # <<>> /\ wire'[x][1] = wire[x][1]
          <5>1. wire'[x] = wire[x] \o said /\ Len(wire[x]) \in Nat \ {0} /\ Len(said) \in Nat
            BY <1>7, <3>2, <4>2, <4>3, EmptySeq
          <5>2. Len(wire'[x]) = Len(wire[x]) + Len(said) /\ wire'[x][1] = wire[x][1]
            BY <4>3, <5>1
          <5> QED BY <5>1, <5>2
        <4> QED BY <3>0, <4>1, <4>2, <4>4 DEF Version
      <3>3. CASE x # e /\ x # f
        <4>1. wire'[x] = wire[x] /\ y # e
          BY <1>2, <1>7, <2>1, <3>3, Ends
        <4> QED BY <1>6, <2>1, <3>0, <3>3, <4>1 DEF IInv, Greeted, Version
      <3> QED BY <3>1, <3>2, <3>3
    <2> QED BY <1>3, <2>1 DEF Greeted
  <1> QED BY <1>3, <1>4, <1>9, <1>10, <1>12, <1>13, <1>14, <1>15, <1>16, <1>17 DEF IInv, NoRaise

LEMMA NextIInv == IInv /\ [Next]_peersVars => IInv'
  <1> SUFFICES ASSUME IInv, [Next]_peersVars PROVE IInv'
    OBVIOUS
  <1>1. ASSUME NEW a \in Peer, NEW b \in Peer, _think(a, b) PROVE IInv'
    BY <1>1, ThinkKeeps
  <1>2. ASSUME NEW a \in Peer, NEW b \in Peer, Reconnect(a, b) PROVE IInv'
    BY <1>2, ReconnectKeeps
  <1>3. ASSUME NEW a \in Peer, NEW b \in Peer, Expire(a, b) PROVE IInv'
    <2>1. bans \in [Peer -> SUBSET Peer] /\ bans' = [bans EXCEPT ![a] = @ \ {b}]
      BY <1>3 DEF Expire, IInv, Types
    <2>2. bans' \in [Peer -> SUBSET Peer]
      BY <2>1
    <2> QED BY <1>3, <2>2, BansApart DEF Expire
  <1>4. ASSUME NEW l \in Link, Connected(l) PROVE IInv'
    BY <1>4, ConnectedKeeps
  <1>5. ASSUME NEW l \in Link, clientConnectionFailed(l) PROVE IInv'
    BY <1>5, FailedKeeps
  <1>6. ASSUME NEW l \in Link, Accept(l) PROVE IInv'
    BY <1>6, AcceptKeeps
  <1>7. ASSUME NEW l \in Link, Refuse(l) PROVE IInv'
    BY <1>7, RefuseKeeps
  <1>8. ASSUME NEW e \in End, NEW chunk \in Chunks(e), dataReceived(e, chunk) PROVE IInv'
    BY <1>8, ChunkKeeps
  <1>9. ASSUME NEW e \in End, _timeout(e) PROVE IInv'
    BY <1>9, TimeoutKeeps
  <1>10. ASSUME NEW e \in End, connectionLost(e) PROVE IInv'
    BY <1>10, LostKeeps
  <1>11. CASE UNCHANGED peersVars
    <2>1. bans' \in [Peer -> SUBSET Peer]
      BY <1>11 DEF IInv, Types, peersVars
    <2> QED BY <1>11, <2>1, BansApart DEF peersVars
  <1> QED BY <1>1, <1>2, <1>3, <1>4, <1>5, <1>6, <1>7, <1>8, <1>9, <1>10, <1>11 DEF Next

LEMMA SpecIInv == Spec => []IInv
  BY InitIInv, NextIInv, PTL DEF Spec

-----------------------------------------------------------------------------
(***************************************************************************)
(* The properties that the runs check, of every network.                   *)
(***************************************************************************)

\* Every variable keeps its type, and no more than the version and one message ever wait
\* on a wire: what connectionMade and got_conn write is all that is written.
THEOREM TypesKept == Spec => []PeersTypeOK
  <1>1. IInv => PeersTypeOK
    <2> SUFFICES ASSUME IInv PROVE PeersTypeOK
      OBVIOUS
    <2>1. \A l \in Link : link[l].client \in Peer \cup {nobody} /\ link[l].server \in Peer \cup {nobody}
      BY DEF IInv, Types, LinkSet
    <2>2. ASSUME NEW e \in End
          PROVE  /\ end[e].state \in {"none", "open", "aborting", "lost"}
                 /\ end[e].nonce \in Peer \cup {nobody} /\ end[e].other_version \in BOOLEAN
                 /\ end[e].nonce # nobody => end[e].other_version
                 /\ Len(wire[e]) <= 2
      <3>1. Far(e) \in End
        BY Ends
      <3> QED BY <3>1 DEF IInv, Types, EndState, HeardInOrder, WiresShort
    <2>3. ASSUME NEW a \in Peer
          PROVE  /\ DOMAIN peers[a] \subseteq Peer /\ attempts[a] \subseteq {ident[b] : b \in Peer}
                 /\ conns[a] \subseteq Link /\ bans[a] \subseteq Peer
      BY DEF IInv, Types, Tables, Hosts
    <2> QED BY <2>1, <2>2, <2>3 DEF PeersTypeOK, IInv, Types
  <1> QED BY SpecIInv, <1>1, PTL

\* No callback of the reactor is cut short: got_conn never finds its peer in Node.peers
\* already, and lost_conn always finds what it takes out.
THEOREM NothingRaises == Spec => []NoRaise
  <1>1. IInv => NoRaise
    BY DEF IInv
  <1> QED BY SpecIInv, <1>1, PTL

\* Node.peers and ClientFactory.conns are exactly the established ends of each peer,
\* however many peers dial each other at once and whatever nonces the rude ones claim.
THEOREM PeersAreExact == Spec => []PeersExact
  <1>1. ASSUME IInv, NEW a \in Peer
        PROVE  LET joined == {e \in End : connected2(e) /\ Owner(e) = a}
               IN /\ {peers[a][p] : p \in DOMAIN peers[a]} = joined
                  /\ \A p \in DOMAIN peers[a] : end[peers[a][p]].nonce = p
                  /\ a \notin DOMAIN peers[a]
                  /\ conns[a] = {l \in Link : <<l, "out">> \in joined /\ link[l].kind = "client"}
    <2> DEFINE joined == {e \in End : connected2(e) /\ Owner(e) = a}
    <2>1. \A p \in DOMAIN peers[a] : peers[a][p] \in joined /\ end[peers[a][p]].nonce = p /\ p \in Peer
      BY <1>1 DEF IInv, Types, Tables, TablesExact
    <2>2. \A e \in joined : end[e].nonce \in DOMAIN peers[a] /\ peers[a][end[e].nonce] = e
      BY <1>1 DEF IInv, TablesExact
    <2>3. {peers[a][p] : p \in DOMAIN peers[a]} = joined
      BY <2>1, <2>2
    <2>4. a \notin DOMAIN peers[a]
      BY <1>1, <2>1 DEF IInv, HeardInOrder, connected2
    <2>5. ASSUME NEW l \in Link
          PROVE  l \in conns[a] <=> <<l, "out">> \in joined /\ link[l].kind = "client"
      <3>1. <<l, "out">> \in End /\ Owner(<<l, "out">>) = link[l].client
        BY Ends
      <3> QED BY <1>1, <3>1 DEF IInv, ConnsExact
    <2>6. conns[a] = {l \in Link : <<l, "out">> \in joined /\ link[l].kind = "client"}
      <3>1. conns[a] \subseteq Link
        BY <1>1 DEF IInv, Types
      <3> HIDE DEF joined
      <3> QED BY <2>5, <3>1
    <2> QED BY <2>1, <2>3, <2>4, <2>6
  <1>2. IInv => PeersExact
    BY <1>1 DEF PeersExact
  <1> QED BY SpecIInv, <1>2, PTL

\* ServerFactory.conns counts the live incoming connections of every network and
\* ClientFactory.attempts holds the networks of the live outgoing ones, each once; so both
\* stay within their limits, and no place is ever left behind.
THEOREM CountsAreExact == Spec => []CountsExact
  <1>1. ASSUME IInv, NEW a \in Peer, NEW live, live = Live(a)
        PROVE  /\ attempts[a] = {ident[link[l].server] : l \in live}
               /\ Cardinality(attempts[a]) = Cardinality(live)
               /\ Cardinality(live) <= max_attempts
    <2>1. OneEach(a) /\ live \subseteq Link /\ IsFiniteSet(Link)
      BY <1>1, Constants DEF IInv, AttemptsLive, Live
    <2>2. IsFiniteSet(live)
      BY <2>1, FS_Subset
    <2> DEFINE network == [l \in live |-> ident[link[l].server]]
    <2>3. network \in Bijection(live, attempts[a])
      <3>1. network \in [live -> attempts[a]]
        BY <1>1, <2>1 DEF OneEach
      <3>2. \A k, l \in live : network[k] = network[l] => k = l
        BY <1>1, <2>1 DEF OneEach
      <3>3. \A i \in attempts[a] : \E l \in live : network[l] = i
        BY <1>1, <2>1 DEF OneEach
      <3> HIDE DEF network
      <3> QED BY <3>1, <3>2, <3>3 DEF Bijection, Injection, Surjection, IsInjective
    <2>4. Cardinality(live) = Cardinality(attempts[a])
      <3> HIDE DEF network
      <3> QED BY <2>2, <2>3, FS_Bijection DEF ExistsBijection
    <2> QED BY <1>1, <2>1, <2>4 DEF OneEach
  <1>2. IInv => AttemptsExact
    BY <1>1 DEF AttemptsExact, Live
  <1>3. IInv => IncomingExact
    <2> SUFFICES ASSUME IInv, NEW a \in Peer
                 PROVE  /\ Total(a) <= max_conns[a]
                        /\ \A i \in DOMAIN incoming[a] :
                             incoming[a][i] <= SameIdent /\ incoming[a][i] = Cardinality(Into(a, i))
      BY DEF IncomingExact, Into
    <2>1. DOMAIN incoming[a] = Hosts
      BY DEF IInv, Types
    <2> QED BY <2>1 DEF IInv, IncomingLive
  <1>4. IInv => CountsExact
    BY <1>2, <1>3 DEF CountsExact
  <1> QED BY SpecIInv, <1>4, PTL

\* No peer keeps a peer that dropped it: a duplicate is turned away by both ends or by one
\* whose loss the other is told of, in whatever order the versions are read.
THEOREM EstablishedTogether == Spec => []Mutual
  <1>1. ASSUME IInv, NEW l \in Link, NEW i, NEW o, i = <<l, "in">>, o = <<l, "out">>,
               {link[l].client, link[l].server} \cap rude = {},
               {end[i].state, end[o].state} = {"open"}, wire[i] = <<>>, wire[o] = <<>>
        PROVE  connected2(i) /\ connected2(o)
    <2>1. /\ i \in End /\ o \in End
          /\ Far(i) = o /\ Far(o) = i /\ Owner(i) = link[l].server /\ Owner(o) = link[l].client
          /\ end[i].state = "open" /\ end[o].state = "open"
      BY <1>1, Ends
    <2>2. Owner(i) \notin rude /\ Owner(o) \notin rude
      BY <1>1, <2>1
    <2>3. end[i].nonce # nobody
      BY <1>1, <2>1, <2>2 DEF IInv, Greeted
    <2>4. end[o].nonce # nobody
      BY <1>1, <2>1, <2>2 DEF IInv, Greeted
    <2> QED BY <2>1, <2>3, <2>4 DEF connected2, Alive
  <1>2. IInv => Mutual
    <2> SUFFICES ASSUME IInv PROVE Mutual
      OBVIOUS
    <2> QED BY <1>1 DEF Mutual
  <1> QED BY SpecIInv, <1>2, PTL

-----------------------------------------------------------------------------
\* The files of the shares.

\* No file has a last line without a newline.
Unbroken == tears = 0 => \A f \in DOMAIN disk : ~ disk[f].open

\* What has been saved is wanted in some file.
Wanted ==
  tears = 0 /\ up =>
    \A e \in saved : \E f \in DOMAIN known_desired : e \in known_desired[f]

\* What is wanted is about a share of the tracker, or about to be forgotten.
Tracked ==
  /\ \A f \in DOMAIN known_desired : known_desired[f] \subseteq Lines(items, verified) \cup to_forget
  /\ to_save \subseteq Lines(items, verified)

\* Nothing is left to do when the process is gone.
DownIsIdle == ~ up => to_save = {} /\ to_forget = {}

StoreInv ==
  /\ StoreTypeOK
  /\ Unbroken /\ Wanted /\ KnownIsStored /\ SavedSurvives
  /\ Tracked /\ DownIsIdle

-----------------------------------------------------------------------------
\* A bounded set of numbers that is not empty has a greatest one.
LEMMA GreatestNumber ==
  ASSUME NEW n \in Nat, NEW S \in SUBSET (0 .. n), S # {}
  PROVE  Max(S) \in S /\ \A y \in S : y <= Max(S)
  <1> DEFINE T == {n - x : x \in S}
  <1>1. T \subseteq Nat /\ T # {}
    <2>1. \A x \in S : x \in 0 .. n /\ n - x \in Nat
      OBVIOUS
    <2> QED BY <2>1
  <1>2. \E m \in T : \A y \in T : <<y, m>> \notin OpToRel(<, Nat)
    BY <1>1, NatLessThanWellFounded, WFMin
  <1>3. PICK m \in T : \A y \in T : <<y, m>> \notin OpToRel(<, Nat)
    BY <1>2
  <1>4. \A y \in T : ~ (y < m)
    BY <1>1, <1>3 DEF OpToRel
  <1>5. PICK x \in S : m = n - x
    OBVIOUS
  <1>6. \A y \in S : x >= y
    <2>1. SUFFICES ASSUME NEW y \in S PROVE x >= y
      OBVIOUS
    <2>2. n - y \in T
      OBVIOUS
    <2>3. ~ (n - y < n - x)
      BY <1>4, <1>5, <2>2
    <2>4. x \in Nat /\ y \in Nat
      OBVIOUS
    <2> QED BY <2>3, <2>4
  <1>7. \E z \in S : \A y \in S : z >= y
    BY <1>6
  <1>8. Max(S) \in S /\ \A y \in S : Max(S) >= y
    BY <1>7 DEF Max
  <1>9. S \subseteq Nat
    OBVIOUS
  <1> QED BY <1>8, <1>9

NewFile == [whole |-> {}, tail |-> {}, open |-> FALSE, lines |-> 0]

LEMMA NewFileIsFile ==
  /\ NewFile \in File
  /\ NewFile.lines = 0 /\ NewFile.whole = {} /\ NewFile.open = FALSE
  <1>1. 0 \in 0 .. MaxLines
    BY ShareStoreAssumption
  <1>2. {} \in SUBSET Entry /\ FALSE \in BOOLEAN
    OBVIOUS
  <1>3. NewFile \in File
    BY <1>1, <1>2, Zenon DEF NewFile, File
  <1> QED BY <1>3 DEF NewFile

\* The next line goes to a file that has room for it: a file of the disk, or a new one
\* behind all others.
LEMMA RoomForLine ==
  ASSUME StoreTypeOK
  PROVE  /\ filename \in Nat
         /\ contents(filename) \in File
         /\ contents(filename).lines + 1 \in 0 .. MaxLines
         /\ filename \notin DOMAIN disk => contents(filename).whole = {} /\ ~ contents(filename).open
  <1>0. MaxLines \in Nat /\ MaxLines # 0 /\ MaxSuffix \in Nat
    BY ShareStoreAssumption
  <1>1. CASE DOMAIN disk = {}
    <2>1. filename = 0 /\ contents(filename) = NewFile
      BY <1>1 DEF filename, contents, NewFile
    <2> QED BY <2>1, <1>0, NewFileIsFile
  <1>2. CASE DOMAIN disk # {}
    <2> DEFINE last == Max(DOMAIN disk)
    <2>1. DOMAIN disk \in SUBSET (0 .. MaxSuffix) /\ \A f \in DOMAIN disk : disk[f] \in File
      BY DEF StoreTypeOK
    <2>2. last \in DOMAIN disk /\ \A y \in DOMAIN disk : y <= last
      BY <1>0, <1>2, <2>1, GreatestNumber
    <2>3. disk[last] \in File /\ last \in Nat
      BY <2>1, <2>2
    <2>4. disk[last].lines \in 0 .. MaxLines
      BY <2>3 DEF File
    <2>5. CASE disk[last].lines < MaxLines
      <3>1. filename = last
        BY <1>2, <2>5 DEF filename
      <3>2. contents(filename) = disk[last]
        BY <3>1, <2>2 DEF contents
      <3> QED BY <3>1, <3>2, <2>2, <2>3, <2>4, <2>5, <1>0
    <2>6. CASE ~ (disk[last].lines < MaxLines)
      <3>1. filename = last + 1
        BY <1>2, <2>6 DEF filename
      <3>2. last + 1 \notin DOMAIN disk
        BY <2>2, <2>3
      <3>3. contents(filename) = NewFile
        BY <3>1, <3>2 DEF contents, NewFile
      <3> QED BY <3>1, <3>3, <2>3, <1>0, NewFileIsFile
    <2> QED BY <2>5, <2>6
  <1> QED BY <1>1, <1>2

LEMMA EntryKinds == \A h \in Hash : <<"share", h>> \in Entry /\ <<"verified", h>> \in Entry
  BY DEF Entry

LEMMA LinesAreEntries ==
  ASSUME NEW I \in SUBSET Hash, NEW V \in SUBSET Hash
  PROVE  Lines(I, V) \subseteq Entry
  BY DEF Lines, Entry

\* One more file, or one more line in a file, at g.
LEMMA PutIs ==
  ASSUME NEW g, NEW f, NEW x
  PROVE  /\ DOMAIN Put(g, f, x) = DOMAIN g \cup {f}
         /\ Put(g, f, x)[f] = x
         /\ \A k \in DOMAIN g : k # f => Put(g, f, x)[k] = g[k]
  BY DEF Put

LEMMA DropIs ==
  ASSUME NEW g, NEW S
  PROVE  /\ DOMAIN Drop(g, S) = DOMAIN g \ S
         /\ \A k \in DOMAIN g \ S : Drop(g, S)[k] = g[k]
  BY DEF Drop

-----------------------------------------------------------------------------
(***************************************************************************)
(* One lemma per step that touches the files.                              *)
(***************************************************************************)

\* What a line appended by _add_line does to the files.
LEMMA AddedLine ==
  ASSUME StoreTypeOK, NEW e \in Entry, _add_line(e), filename <= MaxSuffix
  PROVE  /\ DOMAIN disk' = DOMAIN disk \cup {filename}
         /\ \A f \in DOMAIN disk' : disk'[f] \in File
         /\ DOMAIN disk' \subseteq 0 .. MaxSuffix
         /\ \A f \in DOMAIN disk : f # filename => disk'[f] = disk[f]
         /\ (\A f \in DOMAIN disk : ~ disk[f].open) =>
              /\ \A f \in DOMAIN disk' : ~ disk'[f].open
              /\ e \in disk'[filename].whole
              /\ \A f \in DOMAIN disk : readable(f) \subseteq readable(f)'
  <1> DEFINE c == contents(filename)
             d == IF c.open THEN [c EXCEPT !.tail = {}, !.open = FALSE, !.lines = @ + 1]
                  ELSE [c EXCEPT !.whole = @ \cup {e}, !.lines = @ + 1]
  <1>1. disk' = Put(disk, filename, d)
    BY DEF _add_line
  <1>2. /\ filename \in Nat /\ c \in File /\ c.lines + 1 \in 0 .. MaxLines
    BY RoomForLine
  <1>3. d \in File
    BY <1>2 DEF File
  <1>4. /\ DOMAIN disk' = DOMAIN disk \cup {filename}
        /\ disk'[filename] = d
        /\ \A f \in DOMAIN disk : f # filename => disk'[f] = disk[f]
    <2> HIDE DEF d
    <2> QED BY <1>1 DEF Put
  <1>5. \A f \in DOMAIN disk' : disk'[f] \in File
    BY <1>3, <1>4 DEF StoreTypeOK
  <1>6. filename \in 0 .. MaxSuffix
    BY <1>2, ShareStoreAssumption
  <1>7. DOMAIN disk' \subseteq 0 .. MaxSuffix
    BY <1>4, <1>6 DEF StoreTypeOK
  <1>8. ASSUME \A f \in DOMAIN disk : ~ disk[f].open
        PROVE  /\ \A f \in DOMAIN disk' : ~ disk'[f].open
               /\ e \in disk'[filename].whole
               /\ \A f \in DOMAIN disk : readable(f) \subseteq readable(f)'
    <2>1. ~ c.open
      <3>1. CASE filename \in DOMAIN disk
        BY <3>1, <1>8 DEF contents
      <3>2. CASE filename \notin DOMAIN disk
        BY <3>2, RoomForLine
      <3> QED BY <3>1, <3>2
    <2>2. d = [c EXCEPT !.whole = @ \cup {e}, !.lines = @ + 1]
      BY <2>1
    <2>3. d.whole = c.whole \cup {e} /\ d.tail = c.tail /\ d.open = c.open
      BY <2>2, <1>2 DEF File
    <2>4. \A f \in DOMAIN disk' : ~ disk'[f].open
      BY <2>1, <2>3, <1>4, <1>8
    <2>5. e \in disk'[filename].whole
      BY <2>3, <1>4
    <2>6. ASSUME NEW f \in DOMAIN disk PROVE readable(f) \subseteq readable(f)'
      <3>1. CASE f = filename
        BY <3>1, <2>3, <1>4 DEF readable, contents
      <3>2. CASE f # filename
        BY <3>2, <1>4 DEF readable
      <3> QED BY <3>1, <3>2
    <2> QED BY <2>4, <2>5, <2>6
  <1> QED BY <1>4, <1>5, <1>7, <1>8

\* A torn write keeps the shape of the files.
LEMMA TornLineShape ==
  ASSUME StoreTypeOK, NEW e \in Entry, TornLine(e)
  PROVE  /\ DOMAIN disk' \subseteq 0 .. MaxSuffix /\ \A f \in DOMAIN disk' : disk'[f] \in File
         /\ tears' \in 0 .. MaxTears /\ tears' # 0
  <1> DEFINE c == contents(filename)
             torn(kept) == [c EXCEPT !.tail = IF c.open THEN {} ELSE kept, !.open = TRUE, !.lines = @ + 1]
  <1>1. PICK kept \in {{}, {e}} : disk' = Put(disk, filename, torn(kept))
    BY DEF TornLine
  <1>2. filename \in Nat /\ c \in File /\ c.lines + 1 \in 0 .. MaxLines
    BY RoomForLine
  <1>3. kept \in SUBSET Entry
    OBVIOUS
  <1>4. torn(kept) \in File
    BY <1>2, <1>3 DEF File
  <1>5. /\ DOMAIN disk' = DOMAIN disk \cup {filename}
        /\ disk'[filename] = torn(kept)
        /\ \A f \in DOMAIN disk : f # filename => disk'[f] = disk[f]
    <2> HIDE DEF torn
    <2> QED BY <1>1 DEF Put
  <1>6. filename \in 0 .. MaxSuffix
    BY <1>2, ShareStoreAssumption DEF TornLine
  <1>7. \A f \in DOMAIN disk' : disk'[f] \in File
    BY <1>4, <1>5 DEF StoreTypeOK
  <1>8. tears' \in 0 .. MaxTears /\ tears' # 0
    BY ShareStoreAssumption DEF TornLine, StoreTypeOK
  <1> QED BY <1>5, <1>6, <1>7, <1>8 DEF StoreTypeOK

\* A file that still holds something wanted is not among those that go.
LEMMA WantedStays ==
  ASSUME StoreTypeOK, KnownIsStored, Wanted, tears = 0, up,
         NEW e, NEW x \in saved \ {e}
  PROVE  \E f \in DOMAIN known_desired \ check_remove(Without(e)) :
            f \in DOMAIN disk /\ x \in Without(e)[f] /\ x \in readable(f)
  <1>1. PICK f \in DOMAIN known_desired : x \in known_desired[f]
    BY DEF Wanted
  <1>2. x \in Without(e)[f] /\ f \notin check_remove(Without(e))
    BY <1>1 DEF Without, check_remove
  <1>3. f \in DOMAIN disk /\ x \in readable(f)
    BY <1>1 DEF KnownIsStored, StoreTypeOK
  <1> QED BY <1>1, <1>2, <1>3

-----------------------------------------------------------------------------
\* Before its first start a node has saved nothing.
LEMMA StoreBegins == StoreInit => StoreInv
  <1> SUFFICES ASSUME StoreInit PROVE StoreInv
    OBVIOUS
  <1>1. DOMAIN disk = {} /\ DOMAIN known = {} /\ DOMAIN known_desired = {}
    BY DEF StoreInit
  <1>2. StoreTypeOK
    <2>1. up \in BOOLEAN /\ verified \subseteq items /\ items \subseteq Hash
      BY DEF StoreInit
    <2>2. to_save \subseteq Entry /\ to_forget \subseteq Entry /\ saved \subseteq Entry
      BY DEF StoreInit
    <2>3. tears \in 0 .. MaxTears
      BY ShareStoreAssumption DEF StoreInit
    <2> QED BY <1>1, <2>1, <2>2, <2>3 DEF StoreTypeOK
  <1>3. Unbroken /\ Wanted /\ KnownIsStored /\ SavedSurvives /\ Tracked /\ DownIsIdle
    BY <1>1 DEF StoreInit, Unbroken, Wanted, KnownIsStored, SavedSurvives, Tracked, DownIsIdle
  <1> QED BY <1>2, <1>3 DEF StoreInv

\* A line saved is one that a file already holds, or goes to a file as a whole.
LEMMA SaveKept ==
  ASSUME StoreInv, NEW e \in Entry, Save(e)
  PROVE  StoreInv'
  <1> USE DEF StoreInv
  <1>0. e \in to_save /\ e \in Lines(items, verified)
    BY DEF Save, NextToSave, Tracked
  <1>1. CASE Holds(e) # {}
    <2>1. PICK f \in Holds(e) : known_desired' = [known_desired EXCEPT ![f] = @ \cup {e}]
      BY <1>1 DEF Save
    <2>2. f \in DOMAIN known /\ e \in known[f] /\ f \in DOMAIN known_desired
      BY DEF Holds, StoreTypeOK
    <2>3. /\ disk' = disk /\ known' = known /\ tears' = tears /\ up' = up
          /\ items' = items /\ verified' = verified /\ to_forget' = to_forget
          /\ saved' = saved \cup {e} /\ to_save' = to_save \ {e}
      BY <1>1 DEF Save, tracker
    <2>4. /\ DOMAIN known_desired' = DOMAIN known_desired
          /\ known_desired'[f] = known_desired[f] \cup {e}
          /\ \A g \in DOMAIN known_desired : g # f => known_desired'[g] = known_desired[g]
      BY <2>1, <2>2
    <2>5. StoreTypeOK'
      BY <2>2, <2>3, <2>4 DEF StoreTypeOK
    <2>6. Unbroken'
      BY <2>3 DEF Unbroken
    <2>7. KnownIsStored'
      BY <2>2, <2>3, <2>4 DEF KnownIsStored, readable, StoreTypeOK
    <2>8. Wanted'
      <3>1. SUFFICES ASSUME tears = 0, up, NEW x \in saved \cup {e}
                     PROVE  \E g \in DOMAIN known_desired' : x \in known_desired'[g]
        BY <2>3 DEF Wanted
      <3>2. CASE x = e
        BY <3>2, <2>2, <2>4
      <3>3. CASE x \in saved
        <4>1. PICK g \in DOMAIN known_desired : x \in known_desired[g]
          BY <3>1, <3>3 DEF Wanted
        <4> QED BY <4>1, <2>4
      <3> QED BY <3>1, <3>2, <3>3
    <2>9. SavedSurvives'
      <3>1. SUFFICES ASSUME tears = 0 PROVE saved \cup {e} \subseteq Stored
        BY <2>3 DEF SavedSurvives, Stored, readable
      <3>2. e \in Stored
        BY <3>1, <2>2 DEF KnownIsStored, Stored
      <3> QED BY <3>1, <3>2 DEF SavedSurvives
    <2>10. Tracked'
      BY <1>0, <2>2, <2>3, <2>4 DEF Tracked, Lines
    <2>11. DownIsIdle'
      BY <2>3 DEF DownIsIdle
    <2> QED BY <2>5, <2>6, <2>7, <2>8, <2>9, <2>10, <2>11
  <1>2. CASE Holds(e) = {}
    <2> DEFINE of(g) == IF filename \in DOMAIN g THEN g[filename] ELSE {}
    <2>1. /\ _add_line(e) /\ filename <= MaxSuffix
          /\ tears' = tears /\ up' = up
          /\ items' = items /\ verified' = verified /\ to_forget' = to_forget
          /\ saved' = saved \cup {e} /\ to_save' = to_save \ {e}
      BY <1>2 DEF Save, tracker
    <2>2. /\ known' = Put(known, filename, of(known) \cup {e})
          /\ known_desired' = Put(known_desired, filename, of(known_desired) \cup {e})
      BY <1>2 DEF Save
    <2>3. /\ DOMAIN known' = DOMAIN known \cup {filename}
          /\ known'[filename] = of(known) \cup {e}
          /\ \A f \in DOMAIN known : f # filename => known'[f] = known[f]
      <3> HIDE DEF of
      <3> QED BY <2>2 DEF Put
    <2>4. /\ DOMAIN known_desired' = DOMAIN known_desired \cup {filename}
          /\ known_desired'[filename] = of(known_desired) \cup {e}
          /\ \A f \in DOMAIN known_desired : f # filename => known_desired'[f] = known_desired[f]
      <3> HIDE DEF of
      <3> QED BY <2>2 DEF Put
    <2>5. /\ DOMAIN disk' = DOMAIN disk \cup {filename}
          /\ \A f \in DOMAIN disk' : disk'[f] \in File
          /\ DOMAIN disk' \subseteq 0 .. MaxSuffix
      BY <2>1, AddedLine
    <2>6. tears = 0 =>
            /\ \A f \in DOMAIN disk' : ~ disk'[f].open
            /\ e \in disk'[filename].whole
            /\ \A f \in DOMAIN disk : readable(f) \subseteq readable(f)'
      BY <2>1, AddedLine DEF Unbroken
    <2>7. StoreTypeOK'
      <3>1. \A f \in DOMAIN known' : known'[f] \subseteq Entry /\ known_desired'[f] \subseteq Entry
        BY <2>3, <2>4 DEF StoreTypeOK
      <3>2. DOMAIN known_desired' = DOMAIN known'
        BY <2>3, <2>4 DEF StoreTypeOK
      <3> QED BY <2>1, <2>5, <3>1, <3>2 DEF StoreTypeOK
    <2>8. Unbroken'
      BY <2>1, <2>6 DEF Unbroken
    <2>9. KnownIsStored'
      <3>1. SUFFICES ASSUME tears = 0, NEW f \in DOMAIN known'
                     PROVE  /\ f \in DOMAIN disk' /\ known'[f] \subseteq readable(f)'
                            /\ known_desired'[f] \subseteq known'[f]
        BY <2>1 DEF KnownIsStored
      <3>2. CASE f \in DOMAIN known
        <4>1. f \in DOMAIN disk /\ known[f] \subseteq readable(f) /\ known_desired[f] \subseteq known[f]
          BY <3>1, <3>2 DEF KnownIsStored
        <4>2. f \in DOMAIN disk' /\ readable(f) \subseteq readable(f)'
          BY <3>1, <4>1, <2>5, <2>6
        <4>3. CASE f = filename
          <5>1. known'[f] = known[f] \cup {e} /\ known_desired'[f] = known_desired[f] \cup {e}
            BY <3>2, <4>3, <2>3, <2>4 DEF StoreTypeOK
          <5>2. e \in readable(f)'
            BY <3>1, <4>3, <2>6 DEF readable
          <5> QED BY <4>1, <4>2, <5>1, <5>2
        <4>4. CASE f # filename
          BY <3>2, <4>1, <4>2, <4>4, <2>3, <2>4 DEF StoreTypeOK
        <4> QED BY <4>3, <4>4
      <3>3. CASE f \notin DOMAIN known
        <4>1. f = filename /\ f \notin DOMAIN known_desired
          BY <3>1, <3>3, <2>3 DEF StoreTypeOK
        <4>2. known'[f] = {e} /\ known_desired'[f] = {e}
          BY <3>3, <4>1, <2>3, <2>4
        <4>3. f \in DOMAIN disk' /\ e \in readable(f)'
          BY <3>1, <4>1, <2>5, <2>6 DEF readable
        <4> QED BY <4>2, <4>3
      <3> QED BY <3>2, <3>3
    <2>10. Wanted'
      <3>1. SUFFICES ASSUME tears = 0, up, NEW x \in saved \cup {e}
                     PROVE  \E g \in DOMAIN known_desired' : x \in known_desired'[g]
        BY <2>1 DEF Wanted
      <3>2. CASE x = e
        BY <3>2, <2>4
      <3>3. CASE x \in saved
        <4>1. PICK g \in DOMAIN known_desired : x \in known_desired[g]
          BY <3>1, <3>3 DEF Wanted
        <4> QED BY <4>1, <2>4
      <3> QED BY <3>1, <3>2, <3>3
    <2>11. SavedSurvives'
      <3>1. SUFFICES ASSUME tears = 0, NEW x \in saved \cup {e} PROVE x \in Stored'
        BY <2>1 DEF SavedSurvives
      <3>2. CASE x = e
        BY <3>1, <3>2, <2>5, <2>6 DEF Stored, readable
      <3>3. CASE x \in saved
        <4>1. PICK f \in DOMAIN disk : x \in readable(f)
          BY <3>1, <3>3 DEF SavedSurvives, Stored
        <4>2. f \in DOMAIN disk' /\ x \in readable(f)'
          BY <3>1, <4>1, <2>5, <2>6
        <4> QED BY <4>2 DEF Stored
      <3> QED BY <3>1, <3>2, <3>3
    <2>12. Tracked'
      <3>1. ASSUME NEW f \in DOMAIN known_desired', NEW x \in known_desired'[f]
            PROVE  x \in Lines(items, verified) \cup to_forget
        <4>1. CASE f \in DOMAIN known_desired /\ x \in known_desired[f]
          BY <4>1 DEF Tracked
        <4>2. CASE ~ (f \in DOMAIN known_desired /\ x \in known_desired[f])
          <5>1. x = e
            BY <3>1, <4>2, <2>4
          <5> QED BY <5>1, <1>0
        <4> QED BY <4>1, <4>2
      <3> QED BY <3>1, <2>1 DEF Tracked, Lines
    <2>13. DownIsIdle'
      BY <2>1 DEF DownIsIdle
    <2> QED BY <2>7, <2>8, <2>9, <2>10, <2>11, <2>12, <2>13
  <1> QED BY <1>1, <1>2

\* A torn write is the end of what SavedSurvives and its like say.
LEMMA SaveFailsKept ==
  ASSUME StoreInv, NEW e \in Entry, SaveFails(e)
  PROVE  StoreInv'
  <1> USE DEF StoreInv
  <1>1. TornLine(e) /\ UNCHANGED <<known, known_desired, up, items, verified, to_forget, saved>> /\ to_save' = {}
    BY DEF SaveFails, tracker
  <1>2. /\ DOMAIN disk' \subseteq 0 .. MaxSuffix /\ \A f \in DOMAIN disk' : disk'[f] \in File
        /\ tears' \in 0 .. MaxTears /\ tears' # 0
    BY <1>1, TornLineShape
  <1>3. StoreTypeOK'
    BY <1>1, <1>2 DEF StoreTypeOK
  <1>4. Unbroken' /\ Wanted' /\ KnownIsStored' /\ SavedSurvives'
    BY <1>2 DEF Unbroken, Wanted, KnownIsStored, SavedSurvives
  <1>5. Tracked' /\ DownIsIdle'
    BY <1>1 DEF Tracked, Lines, DownIsIdle
  <1> QED BY <1>3, <1>4, <1>5

\* The files of which nothing is wanted go, and with them nothing that was saved and is not
\* given up.
LEMMA ForgetKept ==
  ASSUME StoreInv, NEW e \in Entry, Forget(e)
  PROVE  StoreInv'
  <1> USE DEF StoreInv
  <1> DEFINE gone == check_remove(Without(e))
  <1>1. /\ known_desired' = Drop(Without(e), gone) /\ known' = Drop(known, gone)
        /\ disk' = Drop(disk, gone)
        /\ saved' = saved \ {e} /\ to_forget' = to_forget \ {e}
        /\ UNCHANGED <<up, items, verified, to_save, tears>>
    BY DEF Forget, tracker
  <1>2. /\ DOMAIN known_desired' = DOMAIN known_desired \ gone
        /\ \A f \in DOMAIN known_desired \ gone : known_desired'[f] = known_desired[f] \ {e}
    <2>1. /\ DOMAIN Without(e) = DOMAIN known_desired
          /\ \A f \in DOMAIN known_desired : Without(e)[f] = known_desired[f] \ {e}
      BY DEF Without
    <2> HIDE DEF gone
    <2> QED BY <1>1, <2>1 DEF Drop
  <1>3. /\ DOMAIN known' = DOMAIN known \ gone
        /\ \A f \in DOMAIN known \ gone : known'[f] = known[f]
    <2> HIDE DEF gone
    <2> QED BY <1>1 DEF Drop
  <1>4. /\ DOMAIN disk' = DOMAIN disk \ gone
        /\ \A f \in DOMAIN disk \ gone : disk'[f] = disk[f]
    <2> HIDE DEF gone
    <2> QED BY <1>1 DEF Drop
  <1> HIDE DEF gone
  <1>5. StoreTypeOK'
    <2>1. \A f \in DOMAIN known' : known'[f] \subseteq Entry /\ known_desired'[f] \subseteq Entry
      BY <1>2, <1>3 DEF StoreTypeOK
    <2>2. DOMAIN known_desired' = DOMAIN known'
      BY <1>2, <1>3 DEF StoreTypeOK
    <2>3. DOMAIN disk' \subseteq 0 .. MaxSuffix /\ \A f \in DOMAIN disk' : disk'[f] \in File
      BY <1>4 DEF StoreTypeOK
    <2> QED BY <1>1, <2>1, <2>2, <2>3 DEF StoreTypeOK
  <1>6. Unbroken'
    BY <1>1, <1>4 DEF Unbroken
  <1>7. KnownIsStored'
    <2>1. SUFFICES ASSUME tears = 0, NEW f \in DOMAIN known \ gone
                   PROVE  /\ f \in DOMAIN disk' /\ known'[f] \subseteq readable(f)'
                          /\ known_desired'[f] \subseteq known'[f]
      BY <1>1, <1>3 DEF KnownIsStored
    <2>2. f \in DOMAIN disk /\ known[f] \subseteq readable(f) /\ known_desired[f] \subseteq known[f]
      BY <2>1 DEF KnownIsStored
    <2>3. readable(f)' = readable(f)
      BY <2>1, <2>2, <1>4 DEF readable
    <2> QED BY <2>1, <2>2, <2>3, <1>2, <1>3, <1>4 DEF StoreTypeOK
  <1>8. ASSUME tears = 0, up, NEW x \in saved \ {e}
        PROVE  \E f \in DOMAIN known_desired \ gone :
                  f \in DOMAIN disk /\ x \in known_desired[f] \ {e} /\ x \in readable(f)
    BY <1>8, WantedStays DEF Without, gone
  <1>9. Wanted'
    BY <1>1, <1>2, <1>8 DEF Wanted
  <1>10. SavedSurvives'
    <2>1. SUFFICES ASSUME tears = 0, NEW x \in saved \ {e} PROVE x \in Stored'
      BY <1>1 DEF SavedSurvives
    <2>2. CASE up
      <3>1. PICK f \in DOMAIN known_desired \ gone : f \in DOMAIN disk /\ x \in readable(f)
        BY <2>1, <2>2, <1>8
      <3>2. f \in DOMAIN disk' /\ x \in readable(f)'
        BY <3>1, <1>4 DEF readable
      <3> QED BY <3>2 DEF Stored
    <2>3. CASE ~ up
      BY <2>3 DEF Forget, DownIsIdle
    <2> QED BY <2>2, <2>3
  <1>11. Tracked' /\ DownIsIdle'
    BY <1>1, <1>2 DEF Tracked, Lines, DownIsIdle
  <1> QED BY <1>5, <1>6, <1>7, <1>9, <1>10, <1>11

\* The tracker changes only between handlers, and what leaves it is forgotten.
LEMMA TrackerKept ==
  ASSUME StoreInv, NEW h \in Hash,
         Added(h) \/ Verified(h) \/ VerifiedRemoved(h) \/ Removed(h)
  PROVE  StoreInv'
  <1> USE DEF StoreInv
  <1>1. /\ UNCHANGED <<disk, known, known_desired, up, saved, tears>>
        /\ up /\ to_save = {} /\ to_forget = {} /\ to_save' = {}
    BY DEF Added, Verified, VerifiedRemoved, Removed, Idle, jobs
  <1>2. /\ items' \subseteq Hash /\ verified' \subseteq items'
        /\ to_forget' \subseteq Entry
        /\ Lines(items, verified) \subseteq Lines(items', verified') \cup to_forget'
    <2>1. verified \subseteq items /\ items \subseteq Hash
      BY DEF StoreTypeOK
    <2>2. CASE Added(h)
      BY <1>1, <2>1, <2>2 DEF Added, Lines, jobs
    <2>3. CASE Verified(h)
      BY <1>1, <2>1, <2>3 DEF Verified, Lines, jobs
    <2>4. CASE VerifiedRemoved(h)
      <3>1. items' = items /\ verified' = verified \ {h} /\ to_forget' = {<<"verified", h>>}
        BY <2>4 DEF VerifiedRemoved
      <3>2. to_forget' \subseteq Entry
        BY <3>1, EntryKinds
      <3>3. {"verified"} \X verified \subseteq ({"verified"} \X (verified \ {h})) \cup {<<"verified", h>>}
        OBVIOUS
      <3> QED BY <2>1, <3>1, <3>2, <3>3 DEF Lines
    <2>5. CASE Removed(h)
      <3>1. /\ items' = items \ {h} /\ verified' = verified /\ to_forget' = {<<"share", h>>}
            /\ h \notin verified
        BY <2>5 DEF Removed
      <3>2. to_forget' \subseteq Entry
        BY <3>1, EntryKinds
      <3>3. {"share"} \X items \subseteq ({"share"} \X (items \ {h})) \cup {<<"share", h>>}
        OBVIOUS
      <3> QED BY <2>1, <3>1, <3>2, <3>3 DEF Lines
    <2> QED BY <2>2, <2>3, <2>4, <2>5
  <1>3. StoreTypeOK'
    BY <1>1, <1>2 DEF StoreTypeOK
  <1>4. Unbroken' /\ Wanted' /\ KnownIsStored' /\ SavedSurvives'
    BY <1>1 DEF Unbroken, Wanted, KnownIsStored, SavedSurvives, Stored, readable
  <1>5. Tracked'
    BY <1>1, <1>2 DEF Tracked
  <1>6. DownIsIdle'
    BY <1>1 DEF DownIsIdle
  <1> QED BY <1>3, <1>4, <1>5, <1>6

\* A pass saves lines about shares of the tracker.
LEMMA PassKept ==
  ASSUME StoreInv, save_shares
  PROVE  StoreInv'
  <1> USE DEF StoreInv
  <1>1. UNCHANGED <<disk, known, known_desired, up, items, verified, to_forget, saved, tears>> /\ up
    BY DEF save_shares, Idle, tracker
  <1>2. PICK best \in items : to_save' = Lines(best_chain(best), best_chain(best) \cap verified)
    BY DEF save_shares
  <1>3. best_chain(best) \subseteq items
    BY DEF best_chain
  <1>4. to_save' \subseteq Lines(items, verified)
    BY <1>2, <1>3 DEF Lines
  <1>5. StoreTypeOK'
    <2>1. Lines(items, verified) \subseteq Entry
      BY LinesAreEntries DEF StoreTypeOK
    <2> QED BY <1>1, <1>4, <2>1 DEF StoreTypeOK
  <1>6. Unbroken' /\ Wanted' /\ KnownIsStored' /\ SavedSurvives'
    BY <1>1 DEF Unbroken, Wanted, KnownIsStored, SavedSurvives, Stored, readable
  <1>7. Tracked' /\ DownIsIdle'
    BY <1>1, <1>4 DEF Tracked, DownIsIdle, Lines
  <1> QED BY <1>5, <1>6, <1>7

\* The process may die anywhere: what is saved is then on the disk, whatever was to go.
LEMMA CrashKept ==
  ASSUME StoreInv, Crash
  PROVE  StoreInv'
  <1> USE DEF StoreInv
  <1>1. /\ up /\ up' = FALSE /\ DOMAIN known' = {} /\ DOMAIN known_desired' = {}
        /\ items' = {} /\ verified' = {} /\ to_save' = {} /\ to_forget' = {}
    BY DEF Crash
  <1>2. /\ Wanted' /\ KnownIsStored' /\ Tracked' /\ DownIsIdle'
    BY <1>1 DEF Wanted, KnownIsStored, Tracked, DownIsIdle
  <1>3. SUFFICES /\ DOMAIN disk' \subseteq 0 .. MaxSuffix /\ \A f \in DOMAIN disk' : disk'[f] \in File
                 /\ saved' \subseteq Entry /\ tears' \in 0 .. MaxTears
                 /\ Unbroken' /\ SavedSurvives'
    BY <1>1, <1>2 DEF StoreTypeOK
  <1>4. CASE UNCHANGED <<disk, saved, tears>>
    BY <1>4 DEF StoreTypeOK, Unbroken, SavedSurvives, Stored, readable
  <1>5. ASSUME NEW e \in to_save, TornLine(e), saved' = saved
        PROVE  /\ DOMAIN disk' \subseteq 0 .. MaxSuffix /\ \A f \in DOMAIN disk' : disk'[f] \in File
               /\ saved' \subseteq Entry /\ tears' \in 0 .. MaxTears
               /\ Unbroken' /\ SavedSurvives'
    <2>1. e \in Entry
      BY DEF StoreTypeOK
    <2>2. /\ DOMAIN disk' \subseteq 0 .. MaxSuffix /\ \A f \in DOMAIN disk' : disk'[f] \in File
          /\ tears' \in 0 .. MaxTears /\ tears' # 0
      BY <1>5, <2>1, TornLineShape
    <2> QED BY <1>5, <2>2 DEF StoreTypeOK, Unbroken, SavedSurvives
  <1>6. ASSUME NEW e \in to_forget, NEW some \in SUBSET check_remove(Without(e)),
               disk' = Drop(disk, some), saved' = saved \ {e}, tears' = tears
        PROVE  /\ DOMAIN disk' \subseteq 0 .. MaxSuffix /\ \A f \in DOMAIN disk' : disk'[f] \in File
               /\ saved' \subseteq Entry /\ tears' \in 0 .. MaxTears
               /\ Unbroken' /\ SavedSurvives'
    <2>1. /\ DOMAIN disk' = DOMAIN disk \ some
          /\ \A f \in DOMAIN disk \ some : disk'[f] = disk[f]
      BY <1>6 DEF Drop
    <2>2. Unbroken'
      BY <1>6, <2>1 DEF Unbroken
    <2>3. SavedSurvives'
      <3>1. SUFFICES ASSUME tears = 0, NEW x \in saved \ {e} PROVE x \in Stored'
        BY <1>6 DEF SavedSurvives
      <3>2. PICK f \in DOMAIN known_desired \ check_remove(Without(e)) :
              f \in DOMAIN disk /\ x \in readable(f)
        BY <3>1, <1>1, WantedStays
      <3>3. f \in DOMAIN disk' /\ x \in readable(f)'
        BY <3>2, <2>1 DEF readable
      <3> QED BY <3>3 DEF Stored
    <2> QED BY <1>6, <2>1, <2>2, <2>3 DEF StoreTypeOK
  <1> QED BY <1>4, <1>5, <1>6 DEF Crash

\* A new process believes what it reads.
LEMMA RestartKept ==
  ASSUME StoreInv, Restart
  PROVE  StoreInv'
  <1> USE DEF StoreInv
  <1>1. /\ ~ up /\ up' = TRUE /\ UNCHANGED <<disk, to_save, saved, tears>> /\ to_save = {}
        /\ known' = [f \in DOMAIN disk |-> readable(f)] /\ known_desired' = known'
    BY DEF Restart, DownIsIdle
  <1>2. PICK I \in SUBSET {h \in Hash : <<"share", h>> \in Stored} : \E V \in SUBSET I :
          items' = I /\ verified' = V /\ to_forget' = Stored \ Lines(I, V)
    BY DEF Restart
  <1>3. /\ DOMAIN known' = DOMAIN disk /\ DOMAIN known_desired' = DOMAIN disk
        /\ \A f \in DOMAIN disk : known'[f] = readable(f) /\ known_desired'[f] = readable(f)
    BY <1>1
  <1>4. \A f \in DOMAIN disk : readable(f) \subseteq Entry
    BY DEF StoreTypeOK, File, readable
  <1>5. Stored \subseteq Entry
    BY <1>4 DEF Stored
  <1>6. StoreTypeOK'
    <2>1. items' \subseteq Hash /\ verified' \subseteq items' /\ to_forget' \subseteq Entry
      BY <1>2, <1>5
    <2> QED BY <1>1, <1>3, <1>4, <2>1 DEF StoreTypeOK
  <1>7. Unbroken' /\ SavedSurvives'
    BY <1>1 DEF Unbroken, SavedSurvives, Stored, readable
  <1>8. KnownIsStored'
    BY <1>1, <1>3 DEF KnownIsStored, readable
  <1>9. Wanted'
    <2>1. SUFFICES ASSUME tears = 0, NEW x \in saved
                   PROVE  \E f \in DOMAIN disk : x \in readable(f)
      BY <1>1, <1>3 DEF Wanted
    <2> QED BY <2>1 DEF SavedSurvives, Stored
  <1>10. Tracked'
    <2>1. \A f \in DOMAIN disk : readable(f) \subseteq Stored
      BY DEF Stored
    <2>2. Stored \subseteq Lines(items', verified') \cup to_forget'
      BY <1>2
    <2> QED BY <1>1, <1>3, <2>1, <2>2 DEF Tracked
  <1>11. DownIsIdle'
    BY <1>1 DEF DownIsIdle
  <1> QED BY <1>6, <1>7, <1>8, <1>9, <1>10, <1>11

-----------------------------------------------------------------------------
\* The strengthened invariant holds of every run of the store.
THEOREM StoreInvariance == StoreSpec => []StoreInv
  <1>1. StoreInv /\ [StoreNext]_storeVars => StoreInv'
    <2>1. SUFFICES ASSUME StoreInv, [StoreNext]_storeVars PROVE StoreInv'
      OBVIOUS
    <2>2. CASE StoreNext
      <3>1. CASE \E e \in Entry : Save(e) \/ SaveFails(e) \/ Forget(e)
        BY <3>1, <2>1, SaveKept, SaveFailsKept, ForgetKept
      <3>2. CASE save_shares
        BY <3>2, <2>1, PassKept
      <3>3. CASE \E h \in Hash : Added(h) \/ Verified(h) \/ VerifiedRemoved(h) \/ Removed(h)
        BY <3>3, <2>1, TrackerKept
      <3>4. CASE Crash
        BY <3>4, <2>1, CrashKept
      <3>5. CASE Restart
        BY <3>5, <2>1, RestartKept
      <3> QED BY <2>2, <3>1, <3>2, <3>3, <3>4, <3>5 DEF StoreNext
    <2>3. CASE UNCHANGED storeVars
      <3>1. UNCHANGED <<disk, known, known_desired, up, items, verified, to_save, to_forget, saved, tears>>
        BY <2>3 DEF storeVars, tracker, jobs
      <3> QED BY <2>1, <3>1 DEF StoreInv, StoreTypeOK, Unbroken, Wanted, KnownIsStored,
                                SavedSurvives, Tracked, DownIsIdle, Stored, readable, Lines
    <2> QED BY <2>1, <2>2, <2>3
  <1> QED BY <1>1, StoreBegins, PTL DEF StoreSpec

\* What has been saved and not been given up can be read back after a crash at any moment,
\* as long as every write is whole.
THEOREM NothingSavedIsLost == StoreSpec => []SavedSurvives
  <1>1. StoreInv => SavedSurvives
    BY DEF StoreInv
  <1> QED BY <1>1, StoreInvariance, PTL

\* The store's picture of its files is right.
THEOREM KnownIsTrue == StoreSpec => []KnownIsStored
  <1>1. StoreInv => KnownIsStored
    BY DEF StoreInv
  <1> QED BY <1>1, StoreInvariance, PTL

\* No file is kept for the sake of a share the tracker has let go.
THEOREM NothingKeptForEver == StoreSpec => []DesiredIsTracked
  <1>1. StoreInv => DesiredIsTracked
    <2>1. SUFFICES ASSUME StoreInv, Idle, NEW f \in DOMAIN known_desired, NEW e \in known_desired[f]
                   PROVE  e[2] \in (IF e[1] = "share" THEN items ELSE verified)
      BY DEF DesiredIsTracked
    <2>2. e \in Lines(items, verified)
      BY <2>1 DEF StoreInv, Tracked, Idle
    <2> QED BY <2>2 DEF Lines
  <1> QED BY <1>1, StoreInvariance, PTL

\* The store's variables have their types, and no file outgrows its limit.
THEOREM StoreTypes == StoreSpec => []StoreTypeOK
  <1>1. StoreInv => StoreTypeOK
    BY DEF StoreInv
  <1> QED BY <1>1, StoreInvariance, PTL

-----------------------------------------------------------------------------
(***************************************************************************)
(* What torn writes may spoil. The bound is not inductive: a line may be   *)
(* lost only when the file it is believed to be in goes, long after the    *)
(* write that spoiled it. So the lines counted are those believed to be in *)
(* a file that does not hold them and those saved that no file is kept     *)
(* for; and a file without a last newline may yet cost two.                *)
(***************************************************************************)

\* A line in a file that is wanted for its sake; or when the node is down, in any.
Secure(e) ==
  IF up THEN \E f \in DOMAIN known : f \in DOMAIN disk /\ e \in known_desired[f] /\ e \in readable(f)
  ELSE e \in Stored

Phantom == {e \in Entry : \E f \in DOMAIN known : e \in known[f] /\ e \notin readable(f)}

Lost == {e \in saved : ~ Secure(e)} \cup Phantom

Opens == {f \in DOMAIN disk : disk[f].open}

\* A last line without its newline is one line.
LastLines ==
  \A f \in DOMAIN disk : /\ \E x : disk[f].tail \subseteq {x}
                         /\ disk[f].tail # {} => disk[f].open

LossInv ==
  /\ IsFiniteSet(Lost)
  /\ Cardinality(Lost) + 2 * Cardinality(Opens) <= 2 * tears
  /\ LastLines
  /\ DOMAIN known \subseteq DOMAIN disk

LEMMA OpensAreFew ==
  ASSUME StoreTypeOK
  PROVE  IsFiniteSet(Opens) /\ Cardinality(Opens) \in Nat
  <1>1. IsFiniteSet(0 .. MaxSuffix)
    BY ShareStoreAssumption, FS_Interval
  <1>2. Opens \subseteq 0 .. MaxSuffix
    BY DEF Opens, StoreTypeOK
  <1> QED BY <1>1, <1>2, FS_Subset, FS_CardinalityType

LEMMA OneMore ==
  ASSUME NEW S, IsFiniteSet(S), NEW x, NEW T, T \subseteq S \cup {x}
  PROVE  IsFiniteSet(T) /\ Cardinality(T) \in Nat /\ Cardinality(S) \in Nat /\ Cardinality(T) <= Cardinality(S) + 1
  <1>1. /\ IsFiniteSet(S \cup {x}) /\ Cardinality(S) \in Nat
        /\ Cardinality(S \cup {x}) = IF x \in S THEN Cardinality(S) ELSE Cardinality(S) + 1
    BY FS_AddElement, FS_CardinalityType
  <1>2. IsFiniteSet(T) /\ Cardinality(T) <= Cardinality(S \cup {x}) /\ Cardinality(T) \in Nat
    BY <1>1, FS_Subset, FS_CardinalityType
  <1> QED BY <1>1, <1>2

\* Where the next line goes to a file whose last line has no newline.
Broken == filename \in DOMAIN disk /\ disk[filename].open

LEMMA LineGoes ==
  ASSUME StoreTypeOK, LastLines, NEW e \in Entry, _add_line(e)
  PROVE  /\ DOMAIN disk' = DOMAIN disk \cup {filename} /\ LastLines'
         /\ \E t : \A f \in DOMAIN disk : \A x \in readable(f) : x \in readable(f)' \/ (Broken /\ x = t)
         /\ ~ Broken => e \in disk'[filename].whole
         /\ Opens' = Opens \ {filename}
  <1> DEFINE c == contents(filename)
             d == IF c.open THEN [c EXCEPT !.tail = {}, !.open = FALSE, !.lines = @ + 1]
                  ELSE [c EXCEPT !.whole = @ \cup {e}, !.lines = @ + 1]
  <1>1. disk' = Put(disk, filename, d)
    BY DEF _add_line
  <1>2. c \in File /\ (filename \notin DOMAIN disk => ~ c.open /\ c.tail = {})
    BY RoomForLine DEF contents
  <1>3. filename \in DOMAIN disk => c = disk[filename]
    BY DEF contents
  <1> HIDE DEF c
  <1>4. /\ c.open => d.whole = c.whole /\ d.tail = {} /\ ~ d.open
        /\ ~ c.open => d.whole = c.whole \cup {e} /\ d.tail = c.tail /\ ~ d.open
    BY <1>2 DEF File
  <1>5. ~ c.open => c.tail = {}
    BY <1>2, <1>3 DEF LastLines
  <1>6. Broken <=> c.open
    BY <1>2, <1>3 DEF Broken
  <1>7. /\ DOMAIN disk' = DOMAIN disk \cup {filename}
        /\ disk'[filename] = d
        /\ \A f \in DOMAIN disk : f # filename => disk'[f] = disk[f]
    <2> HIDE DEF d
    <2> QED BY <1>1 DEF Put
  <1> HIDE DEF d
  <1>8. LastLines'
    BY <1>4, <1>5, <1>7 DEF LastLines
  <1>9. \E t : \A f \in DOMAIN disk : \A x \in readable(f) : x \in readable(f)' \/ (Broken /\ x = t)
    <2>1. PICK t : c.tail \subseteq {t}
      BY <1>2, <1>3 DEF LastLines
    <2>2. ASSUME NEW f \in DOMAIN disk, NEW x \in readable(f) PROVE x \in readable(f)' \/ (Broken /\ x = t)
      <3>1. CASE f = filename
        BY <1>3, <1>4, <1>6, <1>7, <2>1, <2>2, <3>1 DEF readable
      <3>2. CASE f # filename
        BY <1>7, <2>2, <3>2 DEF readable
      <3> QED BY <3>1, <3>2
    <2> QED BY <2>2
  <1>10. ~ Broken => e \in disk'[filename].whole
    BY <1>4, <1>6, <1>7
  <1>11. Opens' = Opens \ {filename}
    BY <1>4, <1>7 DEF Opens
  <1> QED BY <1>7, <1>8, <1>9, <1>10, <1>11

LEMMA TornLineGoes ==
  ASSUME StoreTypeOK, LastLines, NEW e \in Entry, TornLine(e)
  PROVE  /\ DOMAIN disk' = DOMAIN disk \cup {filename} /\ LastLines'
         /\ \E t : \A f \in DOMAIN disk : \A x \in readable(f) : x \in readable(f)' \/ (Broken /\ x = t)
         /\ Opens' = Opens \cup {filename} /\ (Broken => filename \in Opens)
         /\ tears \in Nat /\ tears' = tears + 1
  <1> DEFINE c == contents(filename)
             torn(kept) == [c EXCEPT !.tail = IF c.open THEN {} ELSE kept, !.open = TRUE, !.lines = @ + 1]
  <1>1. PICK kept \in {{}, {e}} : disk' = Put(disk, filename, torn(kept))
    BY DEF TornLine
  <1> DEFINE d == torn(kept)
  <1>2. c \in File /\ (filename \notin DOMAIN disk => ~ c.open /\ c.tail = {})
    BY RoomForLine DEF contents
  <1>3. filename \in DOMAIN disk => c = disk[filename]
    BY DEF contents
  <1> HIDE DEF c
  <1>4. d.whole = c.whole /\ d.open /\ d.tail = IF c.open THEN {} ELSE kept
    BY <1>2 DEF File
  <1>5. ~ c.open => c.tail = {}
    BY <1>2, <1>3 DEF LastLines
  <1>6. Broken <=> c.open
    BY <1>2, <1>3 DEF Broken
  <1>7. /\ DOMAIN disk' = DOMAIN disk \cup {filename}
        /\ disk'[filename] = d
        /\ \A f \in DOMAIN disk : f # filename => disk'[f] = disk[f]
    <2> HIDE DEF torn
    <2> QED BY <1>1 DEF Put
  <1> HIDE DEF torn
  <1>8. LastLines'
    <2>1. \E x : d.tail \subseteq {x}
      BY <1>4
    <2> QED BY <1>4, <1>7, <2>1 DEF LastLines
  <1>9. \E t : \A f \in DOMAIN disk : \A x \in readable(f) : x \in readable(f)' \/ (Broken /\ x = t)
    <2>1. PICK t : c.tail \subseteq {t}
      BY <1>2, <1>3 DEF LastLines
    <2>2. ASSUME NEW f \in DOMAIN disk, NEW x \in readable(f) PROVE x \in readable(f)' \/ (Broken /\ x = t)
      <3>1. CASE f = filename
        BY <1>3, <1>4, <1>5, <1>6, <1>7, <2>1, <2>2, <3>1 DEF readable
      <3>2. CASE f # filename
        BY <1>7, <2>2, <3>2 DEF readable
      <3> QED BY <3>1, <3>2
    <2> QED BY <2>2
  <1>10. Opens' = Opens \cup {filename} /\ (Broken => filename \in Opens)
    BY <1>4, <1>7 DEF Opens, Broken
  <1>11. tears \in Nat /\ tears' = tears + 1
    BY ShareStoreAssumption DEF TornLine, StoreTypeOK
  <1> QED BY <1>7, <1>8, <1>9, <1>10, <1>11

\* Nothing more is lost.
LEMMA LossShrinks ==
  ASSUME StoreTypeOK, LossInv, tears' = tears, Lost' \subseteq Lost, Opens' \subseteq Opens, LastLines',
         DOMAIN known' \subseteq DOMAIN disk'
  PROVE  LossInv'
  <1>1. tears \in Nat /\ IsFiniteSet(Lost) /\ Cardinality(Lost) + 2 * Cardinality(Opens) <= 2 * tears
    BY ShareStoreAssumption DEF StoreTypeOK, LossInv
  <1>2. /\ IsFiniteSet(Lost') /\ Cardinality(Lost') <= Cardinality(Lost)
        /\ Cardinality(Lost') \in Nat /\ Cardinality(Lost) \in Nat
    BY <1>1, FS_Subset, FS_CardinalityType
  <1>3. Cardinality(Opens') <= Cardinality(Opens) /\ Cardinality(Opens') \in Nat /\ Cardinality(Opens) \in Nat
    BY OpensAreFew, FS_Subset, FS_CardinalityType
  <1>4. Cardinality(Lost') + 2 * Cardinality(Opens') <= 2 * tears'
    BY <1>1, <1>2, <1>3
  <1> QED BY <1>2, <1>4 DEF LossInv

-----------------------------------------------------------------------------
\* One lemma per step that touches the files or what is saved.

\* A line saved costs two when it is joined to one without a newline, which it ends.
LEMMA LossSave ==
  ASSUME StoreTypeOK, LossInv, up, NEW e \in Entry, Save(e)
  PROVE  LossInv'
  <1>1. up' /\ tears' = tears /\ saved' = saved \cup {e}
    BY DEF Save
  <1>2. tears \in Nat
    BY ShareStoreAssumption DEF StoreTypeOK
  <1>3. CASE Holds(e) # {}
    <2>1. PICK g \in Holds(e) : known_desired' = [known_desired EXCEPT ![g] = @ \cup {e}]
      BY <1>3 DEF Save
    <2>2. disk' = disk /\ known' = known
      BY <1>3 DEF Save
    <2>3. g \in DOMAIN known /\ e \in known[g] /\ g \in DOMAIN disk /\ DOMAIN known_desired = DOMAIN known
      BY DEF Holds, LossInv, StoreTypeOK
    <2>4. /\ e \in known_desired'[g]
          /\ \A f \in DOMAIN known : known_desired[f] \subseteq known_desired'[f]
      BY <2>1, <2>3
    <2>5. Phantom' = Phantom
      BY <2>2 DEF Phantom, readable
    <2>6. Lost' \subseteq Lost
      <3> SUFFICES ASSUME NEW x \in saved', ~ Secure(x)' PROVE x \in Lost
        BY <2>5 DEF Lost
      <3>1. \A f \in DOMAIN disk : readable(f)' = readable(f)
        BY <2>2 DEF readable
      <3>2. ~ Secure(x)
        BY <1>1, <2>2, <2>4, <3>1 DEF Secure
      <3>3. CASE x \in saved
        BY <3>2, <3>3 DEF Lost
      <3>4. CASE x = e
        <4>1. e \notin readable(g)
          BY <1>1, <2>2, <2>3, <2>4, <3>1, <3>4 DEF Secure
        <4> QED BY <2>3, <3>4, <4>1 DEF Phantom, Lost
      <3> QED BY <1>1, <3>3, <3>4
    <2>7. IsFiniteSet(Lost') /\ Cardinality(Lost') <= Cardinality(Lost) /\ Cardinality(Lost) \in Nat
          /\ Cardinality(Lost') \in Nat
      BY <2>6, FS_Subset, FS_CardinalityType DEF LossInv
    <2>8. Opens' = Opens /\ LastLines'
      BY <2>2 DEF Opens, LossInv, LastLines
    <2> QED BY <1>1, <1>2, <2>2, <2>7, <2>8, OpensAreFew DEF LossInv
  <1>4. CASE Holds(e) = {}
    <2>1. _add_line(e)
      BY <1>4 DEF Save
    <2> DEFINE of(g) == IF filename \in DOMAIN g THEN g[filename] ELSE {}
    <2>2. /\ known' = Put(known, filename, of(known) \cup {e})
          /\ known_desired' = Put(known_desired, filename, of(known_desired) \cup {e})
      BY <1>4 DEF Save
    <2>3. DOMAIN known_desired = DOMAIN known /\ DOMAIN known \subseteq DOMAIN disk
      BY DEF StoreTypeOK, LossInv
    <2>4. /\ DOMAIN known' = DOMAIN known \cup {filename}
          /\ known'[filename] = of(known) \cup {e}
          /\ \A f \in DOMAIN known : f # filename => known'[f] = known[f]
      BY <2>2 DEF Put
    <2>5. /\ known_desired'[filename] = of(known_desired) \cup {e}
          /\ \A f \in DOMAIN known : f # filename => known_desired'[f] = known_desired[f]
      BY <2>2, <2>3 DEF Put
    <2>6. /\ DOMAIN disk' = DOMAIN disk \cup {filename} /\ LastLines'
          /\ ~ Broken => e \in disk'[filename].whole
          /\ Opens' = Opens \ {filename}
      BY <2>1, LineGoes DEF LossInv
    <2>7. PICK t : \A f \in DOMAIN disk : \A x \in readable(f) : x \in readable(f)' \/ (Broken /\ x = t)
      BY <2>1, LineGoes DEF LossInv
    <2>8. \A f : f = filename /\ ~ Broken => e \in readable(f)'
      BY <2>6 DEF readable
    <2>9. \A f \in DOMAIN known : /\ f \in DOMAIN known' /\ f \in DOMAIN disk /\ f \in DOMAIN disk'
                                  /\ \A x \in known_desired[f] : x \in known_desired'[f]
      BY <2>3, <2>4, <2>5, <2>6
    <2>10. ASSUME NEW x \in Lost', ~ (Broken /\ x \in {e, t}) PROVE x \in Lost
      <3>1. CASE x \in saved' /\ ~ Secure(x)'
        <4>1. CASE x = e
          <5>1. filename \in DOMAIN known' /\ filename \in DOMAIN disk' /\ e \in known_desired'[filename]
            BY <2>4, <2>5, <2>6
          <5>2. \A f : f = filename => e \in readable(f)'
            BY <2>8, <2>10, <4>1
          <5> QED BY <1>1, <3>1, <4>1, <5>1, <5>2 DEF Secure
        <4>2. CASE x # e
          <5>1. x \in saved
            BY <1>1, <3>1, <4>2
          <5>2. ~ Secure(x)
            <6> SUFFICES ASSUME Secure(x) PROVE FALSE
              OBVIOUS
            <6>1. PICK f \in DOMAIN known : f \in DOMAIN disk /\ x \in known_desired[f] /\ x \in readable(f)
              BY DEF Secure
            <6>2. x \in readable(f)'
              BY <2>7, <2>10, <6>1
            <6> QED BY <1>1, <2>9, <3>1, <6>1, <6>2 DEF Secure
          <5> QED BY <5>1, <5>2 DEF Lost
        <4> QED BY <4>1, <4>2
      <3>2. CASE x \in Phantom'
        <4>1. PICK f \in DOMAIN known' : x \in known'[f] /\ x \notin readable(f)'
          BY <3>2 DEF Phantom
        <4>2. f \in DOMAIN known /\ x \in known[f]
          <5>1. CASE f # filename
            BY <2>4, <4>1, <5>1
          <5>2. CASE f = filename
            <6>1. x # e
              BY <2>8, <2>10, <4>1, <5>2
            <6> QED BY <2>4, <4>1, <5>2, <6>1
          <5> QED BY <5>1, <5>2
        <4>3. x \notin readable(f)
          BY <2>7, <2>9, <2>10, <4>1, <4>2
        <4> QED BY <3>2, <4>2, <4>3 DEF Phantom, Lost
      <3> QED BY <2>10, <3>1, <3>2 DEF Lost
    <2>11. IsFiniteSet(Lost) /\ Cardinality(Lost) \in Nat /\ Cardinality(Opens) \in Nat /\ IsFiniteSet(Opens)
           /\ Cardinality(Lost) + 2 * Cardinality(Opens) <= 2 * tears
      BY FS_CardinalityType, OpensAreFew DEF LossInv
    <2>12. CASE ~ Broken
      <3>1. Lost' \subseteq Lost
        BY <2>10, <2>12
      <3>2. IsFiniteSet(Lost') /\ Cardinality(Lost') <= Cardinality(Lost) /\ Cardinality(Lost') \in Nat
        BY <2>11, <3>1, FS_Subset, FS_CardinalityType
      <3>3. Opens' \subseteq Opens
        BY <2>6
      <3>4. Cardinality(Opens') <= Cardinality(Opens) /\ Cardinality(Opens') \in Nat
        BY <2>11, <3>3, FS_Subset, FS_CardinalityType
      <3>5. Cardinality(Lost') + 2 * Cardinality(Opens') <= 2 * tears'
        BY <1>1, <1>2, <2>11, <3>2, <3>4
      <3> QED BY <2>3, <2>4, <2>6, <3>2, <3>5 DEF LossInv
    <2>13. CASE Broken
      <3>1. Lost' \subseteq (Lost \cup {t}) \cup {e}
        BY <2>10
      <3>2. /\ IsFiniteSet(Lost \cup {t}) /\ Cardinality(Lost \cup {t}) <= Cardinality(Lost) + 1
            /\ Cardinality(Lost \cup {t}) \in Nat
        BY <2>11, OneMore
      <3>3. /\ IsFiniteSet(Lost') /\ Cardinality(Lost') \in Nat
            /\ Cardinality(Lost') <= Cardinality(Lost \cup {t}) + 1
        BY <3>1, <3>2, OneMore
      <3>4. filename \in Opens
        BY <2>13 DEF Broken, Opens
      <3>5. Cardinality(Opens') = Cardinality(Opens) - 1
        BY <2>6, <2>11, <3>4, FS_RemoveElement
      <3>6. Cardinality(Lost') + 2 * Cardinality(Opens') <= 2 * tears'
        BY <1>1, <1>2, <2>11, <3>2, <3>3, <3>5
      <3> QED BY <2>3, <2>4, <2>6, <3>3, <3>6 DEF LossInv
    <2> QED BY <2>12, <2>13
  <1> QED BY <1>3, <1>4

\* A torn write spoils the line before it at most, and leaves a file without a newline.
LEMMA LossTorn ==
  ASSUME StoreTypeOK, LossInv, NEW e \in Entry, TornLine(e),
         \E t : \A x \in Lost' : x \in Lost \/ (Broken /\ x = t),
         DOMAIN known' \subseteq DOMAIN known
  PROVE  LossInv'
  <1>1. /\ DOMAIN disk' = DOMAIN disk \cup {filename} /\ LastLines'
        /\ Opens' = Opens \cup {filename} /\ (Broken => filename \in Opens)
        /\ tears \in Nat /\ tears' = tears + 1
    BY TornLineGoes DEF LossInv
  <1>2. IsFiniteSet(Lost) /\ Cardinality(Lost) \in Nat /\ Cardinality(Opens) \in Nat /\ IsFiniteSet(Opens)
        /\ Cardinality(Lost) + 2 * Cardinality(Opens) <= 2 * tears
    BY FS_CardinalityType, OpensAreFew DEF LossInv
  <1>3. PICK t : \A x \in Lost' : x \in Lost \/ (Broken /\ x = t)
    OBVIOUS
  <1>4. CASE ~ Broken
    <2>1. Lost' \subseteq Lost
      BY <1>3, <1>4
    <2>2. IsFiniteSet(Lost') /\ Cardinality(Lost') <= Cardinality(Lost) /\ Cardinality(Lost') \in Nat
      BY <1>2, <2>1, FS_Subset, FS_CardinalityType
    <2>3. Cardinality(Opens') <= Cardinality(Opens) + 1 /\ Cardinality(Opens') \in Nat
      BY <1>1, <1>2, OneMore
    <2>4. Cardinality(Lost') + 2 * Cardinality(Opens') <= 2 * tears'
      BY <1>1, <1>2, <2>2, <2>3
    <2> QED BY <1>1, <2>2, <2>4 DEF LossInv
  <1>5. CASE Broken
    <2>1. Lost' \subseteq Lost \cup {t}
      BY <1>3
    <2>2. IsFiniteSet(Lost') /\ Cardinality(Lost') <= Cardinality(Lost) + 1 /\ Cardinality(Lost') \in Nat
      BY <1>2, <2>1, OneMore
    <2>3. Opens' = Opens
      BY <1>1, <1>5
    <2>4. Cardinality(Opens') = Cardinality(Opens)
      BY <2>3
    <2>5. Cardinality(Lost') + 2 * Cardinality(Opens') <= 2 * tears'
      BY ONLY <1>1, <1>2, <2>2, <2>4
    <2> QED BY <1>1, <2>2, <2>5 DEF LossInv
  <1> QED BY <1>4, <1>5

LEMMA LossFails ==
  ASSUME StoreTypeOK, LossInv, up, NEW e \in Entry, SaveFails(e)
  PROVE  LossInv'
  <1>1. TornLine(e) /\ UNCHANGED <<known, known_desired, up, saved>>
    BY DEF SaveFails
  <1>2. PICK t : \A f \in DOMAIN disk : \A x \in readable(f) : x \in readable(f)' \/ (Broken /\ x = t)
    BY <1>1, TornLineGoes DEF LossInv
  <1>3. DOMAIN disk \subseteq DOMAIN disk' /\ DOMAIN known \subseteq DOMAIN disk
    BY <1>1, TornLineGoes DEF LossInv
  <1>4. ASSUME NEW x \in Lost', ~ (Broken /\ x = t) PROVE x \in Lost
    <2>1. CASE x \in saved' /\ ~ Secure(x)'
      <3>1. ~ Secure(x)
        BY <1>1, <1>2, <1>3, <1>4, <2>1 DEF Secure
      <3> QED BY <1>1, <2>1, <3>1 DEF Lost
    <2>2. CASE x \in Phantom'
      <3>1. PICK f \in DOMAIN known : x \in known[f] /\ x \notin readable(f)'
        BY <1>1, <2>2 DEF Phantom
      <3>2. x \notin readable(f)
        BY <1>2, <1>3, <1>4, <3>1
      <3> QED BY <2>2, <3>1, <3>2 DEF Phantom, Lost
    <2> QED BY <1>4, <2>1, <2>2 DEF Lost
  <1>5. \E s : \A x \in Lost' : x \in Lost \/ (Broken /\ x = s)
    BY <1>4
  <1> QED BY <1>1, <1>5, LossTorn

\* A file goes when nothing is wanted of it, so nothing that was secure goes with it.
LEMMA LossForget ==
  ASSUME StoreTypeOK, LossInv, up, NEW e \in Entry, Forget(e)
  PROVE  LossInv'
  <1> DEFINE gone == check_remove(Without(e))
  <1>1. /\ known_desired' = Drop(Without(e), gone) /\ known' = Drop(known, gone)
        /\ disk' = Drop(disk, gone) /\ saved' = saved \ {e} /\ up' = up /\ tears' = tears
    BY DEF Forget
  <1>2. /\ DOMAIN known_desired = DOMAIN known /\ DOMAIN known \subseteq DOMAIN disk
        /\ DOMAIN Without(e) = DOMAIN known
    BY DEF StoreTypeOK, LossInv, Without
  <1>3. /\ DOMAIN known' = DOMAIN known \ gone /\ DOMAIN disk' = DOMAIN disk \ gone
        /\ \A f \in DOMAIN known' : known'[f] = known[f] /\ known_desired'[f] = known_desired[f] \ {e}
        /\ \A f \in DOMAIN disk' : disk'[f] = disk[f]
    BY <1>1, <1>2 DEF Drop, Without
  <1>4. \A f \in DOMAIN disk' : readable(f)' = readable(f)
    BY <1>3 DEF readable
  <1>5. \A f \in gone : known_desired[f] \subseteq {e}
    BY <1>2 DEF check_remove, Without
  <1> HIDE DEF gone
  <1>6. Lost' \subseteq Lost
    <2> SUFFICES ASSUME NEW x \in Lost' PROVE x \in Lost
      OBVIOUS
    <2>1. CASE x \in saved' /\ ~ Secure(x)'
      <3>1. x \in saved /\ x # e
        BY <1>1, <2>1
      <3>2. ~ Secure(x)
        <4> SUFFICES ASSUME Secure(x) PROVE FALSE
          OBVIOUS
        <4>1. PICK f \in DOMAIN known : f \in DOMAIN disk /\ x \in known_desired[f] /\ x \in readable(f)
          BY DEF Secure
        <4>2. f \notin gone
          BY <1>5, <3>1, <4>1
        <4>3. f \in DOMAIN known' /\ f \in DOMAIN disk' /\ x \in known_desired'[f] /\ x \in readable(f)'
          BY <1>3, <1>4, <3>1, <4>1, <4>2
        <4> QED BY <1>1, <2>1, <4>3 DEF Secure
      <3> QED BY <3>1, <3>2 DEF Lost
    <2>2. CASE x \in Phantom'
      <3>1. PICK f \in DOMAIN known' : x \in known'[f] /\ x \notin readable(f)'
        BY <2>2 DEF Phantom
      <3>2. f \in DOMAIN known /\ x \in known[f] /\ x \notin readable(f)
        BY <1>2, <1>3, <1>4, <3>1
      <3> QED BY <2>2, <3>2 DEF Phantom, Lost
    <2> QED BY <2>1, <2>2 DEF Lost
  <1>7. Opens' \subseteq Opens /\ LastLines' /\ DOMAIN known' \subseteq DOMAIN disk'
    BY <1>2, <1>3 DEF Opens, LossInv, LastLines
  <1> QED BY <1>1, <1>6, <1>7, LossShrinks


\* The process may die with nothing written, in a write, or with some files removed.
LEMMA LossCrash ==
  ASSUME StoreInv, LossInv, Crash
  PROVE  LossInv'
  <1>1. up /\ up' = FALSE /\ known' = <<>> /\ StoreTypeOK
    BY DEF Crash, StoreInv
  <1>2. DOMAIN known' = {}
    BY <1>1
  <1>3. Phantom' = {} /\ \A x : x \in Lost' <=> x \in saved' /\ x \notin Stored'
    <2>1. Phantom' = {}
      BY <1>2 DEF Phantom
    <2> QED BY <1>1, <2>1 DEF Lost, Secure
  <1>4. \A x : Secure(x) => \E f \in DOMAIN known : f \in DOMAIN disk /\ x \in known_desired[f] /\ x \in readable(f)
    BY <1>1 DEF Secure
  <1>5. CASE UNCHANGED <<disk, saved, tears>>
    <2>1. /\ \A f \in DOMAIN disk' : f \in DOMAIN disk /\ readable(f)' = readable(f)
          /\ \A f \in DOMAIN disk : f \in DOMAIN disk' /\ readable(f)' = readable(f)
      BY <1>5 DEF readable
    <2>2. Lost' \subseteq Lost
      <3> SUFFICES ASSUME NEW x \in saved, x \notin Stored' PROVE ~ Secure(x)
        BY <1>3, <1>5 DEF Lost
      <3> QED BY <1>4, <2>1 DEF Stored
    <2>3. Opens' = Opens /\ LastLines'
      BY <1>5 DEF Opens, LossInv, LastLines
    <2> QED BY <1>1, <1>2, <1>5, <2>2, <2>3, LossShrinks
  <1>6. CASE (\E e \in to_save : NextToSave(e) /\ TornLine(e)) /\ UNCHANGED saved
    <2>1. PICK e \in to_save : TornLine(e)
      BY <1>6
    <2>2. e \in Entry
      BY <1>1 DEF StoreTypeOK
    <2>3. PICK t : \A f \in DOMAIN disk : \A x \in readable(f) : x \in readable(f)' \/ (Broken /\ x = t)
      BY <1>1, <2>1, <2>2, TornLineGoes DEF LossInv
    <2>4. DOMAIN disk \subseteq DOMAIN disk'
      BY <1>1, <2>1, <2>2, TornLineGoes DEF LossInv
    <2>5. ASSUME NEW x \in Lost', ~ (Broken /\ x = t) PROVE x \in Lost
      <3>1. x \in saved /\ x \notin Stored'
        BY <1>3, <1>6, <2>5
      <3>2. ~ Secure(x)
        BY <1>4, <2>3, <2>4, <2>5, <3>1 DEF Stored
      <3> QED BY <3>1, <3>2 DEF Lost
    <2>6. \E s : \A x \in Lost' : x \in Lost \/ (Broken /\ x = s)
      BY <2>5
    <2> QED BY <1>1, <1>2, <2>1, <2>2, <2>6, LossTorn
  <1>7. CASE /\ \E e \in to_forget : /\ \E some \in SUBSET check_remove(Without(e)) : disk' = Drop(disk, some)
                                     /\ saved' = saved \ {e}
             /\ UNCHANGED tears
    <2>1. PICK e \in to_forget : /\ \E some \in SUBSET check_remove(Without(e)) : disk' = Drop(disk, some)
                                 /\ saved' = saved \ {e}
      BY <1>7
    <2>2. PICK some \in SUBSET check_remove(Without(e)) : disk' = Drop(disk, some)
      BY <2>1
    <2>3. /\ DOMAIN disk' = DOMAIN disk \ some
          /\ \A f \in DOMAIN disk' : disk'[f] = disk[f]
      BY <2>2 DEF Drop
    <2>4. \A f \in DOMAIN disk' : readable(f)' = readable(f)
      BY <2>3 DEF readable
    <2>5. \A f \in some : known_desired[f] \subseteq {e}
      BY DEF check_remove, Without
    <2>6. DOMAIN known_desired = DOMAIN known
      BY <1>1 DEF StoreTypeOK
    <2>7. Lost' \subseteq Lost
      <3> SUFFICES ASSUME NEW x \in saved, x # e, x \notin Stored', Secure(x) PROVE FALSE
        BY <1>3, <2>1 DEF Lost
      <3>1. PICK f \in DOMAIN known : f \in DOMAIN disk /\ x \in known_desired[f] /\ x \in readable(f)
        BY <1>4
      <3>2. f \notin some
        BY <2>5, <3>1
      <3> QED BY <2>3, <2>4, <3>1, <3>2 DEF Stored
    <2>8. Opens' \subseteq Opens /\ LastLines'
      BY <2>3 DEF Opens, LossInv, LastLines
    <2> QED BY <1>1, <1>2, <1>7, <2>7, <2>8, LossShrinks
  <1> QED BY <1>5, <1>6, <1>7 DEF Crash

\* What the files hold is believed and wanted again.
LEMMA LossRestart ==
  ASSUME StoreInv, LossInv, Restart
  PROVE  LossInv'
  <1>1. /\ ~ up /\ up' = TRUE /\ known' = [f \in DOMAIN disk |-> readable(f)] /\ known_desired' = known'
        /\ disk' = disk /\ saved' = saved /\ tears' = tears /\ StoreTypeOK
    BY DEF Restart, StoreInv
  <1>2. \A f \in DOMAIN disk : readable(f)' = readable(f)
    BY <1>1 DEF readable
  <1>3. DOMAIN known' = DOMAIN disk /\ DOMAIN disk' = DOMAIN disk
        /\ \A f \in DOMAIN disk : known'[f] = readable(f) /\ known_desired'[f] = readable(f)
    BY <1>1
  <1>4. Phantom' = {}
    BY <1>2, <1>3 DEF Phantom
  <1>5. Lost' \subseteq Lost
    <2> SUFFICES ASSUME NEW x \in saved, ~ Secure(x)' PROVE ~ Secure(x)
      BY <1>1, <1>4 DEF Lost
    <2> QED BY <1>1, <1>2, <1>3 DEF Secure, Stored
  <1>6. Opens' = Opens /\ LastLines'
    BY <1>1 DEF Opens, LossInv, LastLines
  <1> QED BY <1>1, <1>3, <1>5, <1>6, LossShrinks

\* The steps that touch neither the files nor what is saved.
LEMMA LossStays ==
  ASSUME StoreTypeOK, LossInv, UNCHANGED <<disk, known, known_desired, up, saved, tears>>
  PROVE  LossInv'
  <1>1. \A f : readable(f)' = readable(f)
    BY DEF readable
  <1>2. Phantom' = Phantom /\ Stored' = Stored
    BY <1>1 DEF Phantom, Stored
  <1>3. Lost' = Lost
    BY <1>1, <1>2 DEF Lost, Secure
  <1>4. Opens' = Opens /\ LastLines'
    BY DEF Opens, LossInv, LastLines
  <1> QED BY <1>3, <1>4, LossShrinks DEF LossInv

LEMMA LossInit ==
  ASSUME StoreInit
  PROVE  LossInv
  <1>1. DOMAIN disk = {} /\ DOMAIN known = {} /\ saved = {} /\ tears = 0
    BY DEF StoreInit
  <1>2. Lost = {} /\ Opens = {}
    BY <1>1 DEF Lost, Phantom, Opens
  <1>3. IsFiniteSet({}) /\ Cardinality({}) = 0
    BY FS_EmptySet
  <1> QED BY <1>1, <1>2, <1>3 DEF LossInv, LastLines

LEMMA LossInvariance == StoreSpec => [](StoreInv /\ LossInv)
  <1>1. StoreInv /\ LossInv /\ [StoreNext]_storeVars => LossInv'
    <2>1. SUFFICES ASSUME StoreInv, LossInv, [StoreNext]_storeVars PROVE LossInv'
      OBVIOUS
    <2>2. StoreTypeOK /\ DownIsIdle
      BY <2>1 DEF StoreInv
    <2>3. ASSUME NEW e \in Entry, Save(e) \/ SaveFails(e) \/ Forget(e) PROVE LossInv'
      <3>1. up
        BY <2>2, <2>3 DEF Save, SaveFails, Forget, NextToSave, DownIsIdle
      <3> QED BY <2>1, <2>2, <2>3, <3>1, LossSave, LossFails, LossForget
    <2>4. ASSUME save_shares \/ \E h \in Hash : Added(h) \/ Verified(h) \/ VerifiedRemoved(h) \/ Removed(h)
          PROVE  LossInv'
      <3>1. UNCHANGED <<disk, known, known_desired, up, saved, tears>>
        BY <2>4 DEF save_shares, Added, Verified, VerifiedRemoved, Removed
      <3> QED BY <2>1, <2>2, <3>1, LossStays
    <2>5. CASE UNCHANGED storeVars
      <3>1. UNCHANGED <<disk, known, known_desired, up, saved, tears>>
        BY <2>5 DEF storeVars
      <3> QED BY <2>1, <2>2, <3>1, LossStays
    <2> QED BY <2>1, <2>3, <2>4, <2>5, LossCrash, LossRestart DEF StoreNext
  <1> QED BY <1>1, LossInit, StoreInvariance, PTL DEF StoreSpec

\* However often the disk fills up or the process stops in the middle of a line, each time
\* two of the lines saved are spoiled at most: the line itself and the one it is joined to.
THEOREM LossIsBounded == StoreSpec => []LossBounded
  <1>1. ASSUME StoreInv, LossInv PROVE LossBounded
    <2>1. saved \ Stored \subseteq Lost
      <3> SUFFICES ASSUME NEW x \in saved, Secure(x) PROVE x \in Stored
        BY DEF Lost
      <3> QED BY DEF Secure, Stored
    <2>2. tears \in Nat /\ StoreTypeOK
      BY <1>1, ShareStoreAssumption DEF StoreInv, StoreTypeOK
    <2>3. /\ IsFiniteSet(saved \ Stored) /\ Cardinality(saved \ Stored) <= Cardinality(Lost)
          /\ Cardinality(saved \ Stored) \in Nat /\ Cardinality(Lost) \in Nat
      BY <1>1, <2>1, FS_Subset, FS_CardinalityType DEF LossInv
    <2>4. Cardinality(Opens) \in Nat
      BY <2>2, OpensAreFew
    <2>5. Cardinality(Lost) + 2 * Cardinality(Opens) <= 2 * tears
      BY <1>1 DEF LossInv
    <2> QED BY <2>2, <2>3, <2>4, <2>5 DEF LossBounded
  <1> QED BY <1>1, LossInvariance, PTL
=============================================================================
