CONSTANTS
  Hash = {1, 2}
  previous_hash <- MCprevious_hash
  Keep = 2
  MaxLines = 3
  MaxSuffix = 3
  MaxTears = 2
SPECIFICATION StoreSpec
INVARIANTS StoreTypeOK SavedSurvives LossBounded KnownIsStored DesiredIsTracked
CHECK_DEADLOCK FALSE
