CONSTANTS
  Hash = {1, 2, 3, 4, 5}
  CHAIN_LENGTH = 1
  Few = 2
  Slack = 2
  MaxBatch = 2
  Generations = 2
  Window = 1
  Work <- MCWork
  Timestamp <- MCTimestamp
  Hour = 1
  Day = 12
  Solved = {2}
  Forests <- MCForests
  Flaws <- MCFlawless
SPECIFICATION SyncSpec
PROPERTY SyncCompletes
