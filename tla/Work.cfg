CONSTANTS
  b0 = b0
  b1 = b1
  c1 = c1
  b2 = b2
  Block = {b0, b1, c1, b2}
  no_header = no_header
  previous_block <- MCPrevious
  height <- MCHeight
  genesis = b0
  PowMeets <- MCMeets
  CHAIN_LENGTH = 1
  Keep = 3
  MaxShares = 4
  Session = {1}
  MAX_STRATUM_CONNECTIONS = 1
  MAX_STRATUM_SETUP_CALLS = 1
  MAX_ACTIVE_STRATUM_JOBS = 2
  MaxSiblings = 1
  Hashes = {1, 2}
  share_target = 2
  Targets = {1, 2}
  Wishes = {}
  TxChoices = {FALSE, TRUE}
  Bounds <- MCBounds
SPECIFICATION WorkSpec
INVARIANTS WorkTypeOK HeaderSettles JobsCurrent StaleExact TakenAgain
CHECK_DEADLOCK FALSE
