CONSTANTS
  ann = ann
  ben = ben
  script = script
  dev = dev
  Payee = {ann, ben, script, dev}
  Unit = 4
  CHAIN_LENGTH = 3
  REAL_CHAIN_LENGTH = 3
  TARGET_LOOKBEHIND = 2
  SHARE_PERIOD = 3
  MIN_TARGET = 0
  MAX_TARGET = 250
  Far = 2
  VoteFrom = 0
  VoteLength = 2
  RefDepth = 2
  Ahead = 5
  Skews <- MCSkews
  legacy_address <- MCLegacy
  Keep = 5
  Spread = 80
  Epoch = 10
  Space = 1024
  Base = 4
  Digits = 2
  Levels <- MCLevels
  FlagDays = {FALSE}
  donation_address = dev
  Subsidy = 1000
  Makers <- MCMakers
  MaxShares = 6
  MaxForks = 1
SPECIFICATION Spec
INVARIANTS WindowExact OwnSharesPass PaidInFull
CHECK_DEADLOCK FALSE
