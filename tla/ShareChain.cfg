CONSTANTS
  Hash = {1, 2, 3, 4, 5}
  CHAIN_LENGTH = 2
  Few = 2
  Slack = 0
  MaxBatch = 2
  Generations = 2
  Window = 2
  Work <- MCWork
  Timestamp <- MCTimestamp
  Hour = 1
  Day = 12
  Solved = {2}
  Forests <- MCForests
  Flaws <- MCFlaws
SPECIFICATION Spec
INVARIANTS ChainTypeOK NoAssertion BestPresent NeverOnNaughty NoStall
