CONSTANTS
  Hash = {1, 2, 3, 4}
  Work <- MCWork
SPECIFICATION ViewSpec
INVARIANTS TypeOK TablesAgree RefsConsistent CacheExact
PROPERTIES RefinesForest RefinesTracker
