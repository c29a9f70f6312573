CONSTANTS
  alice = alice
  bob = bob
  nobody = nobody
  Peer = {alice, bob}
  Rudes <- MCHonest
  ident <- MCident
  connect_addrs <- MCconnect
  desired_conns = 1
  max_attempts = 2
  max_conns <- MCmax_conns
  SameIdent = 1
  MaxLinks = 2
  MaxWire = 2
SPECIFICATION Spec
INVARIANT HonestNotBanned
CHECK_DEADLOCK FALSE
