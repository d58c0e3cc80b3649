\* The two views are refreshed independently.
SPECIFICATION IndexSpec
CONSTANTS
  k1 = k1
  k2 = k2
  b1 = b1
  b2 = b2
  NoBatch = NoBatch
  Keys <- OneKey
  Batches <- TwoBatches
  KeysOf <- SameKeysOf
  DeletesOf <- NoDeletes
  Orchestrators = {o1}
  Executors = {e1}
  Jobs = {1, 2}
  Gets = {}
  IndexFirst = TRUE
  MinWALsToCompact = 1
  MaxInserts = 1
  MaxAttempts = 2
  MaxFailures = 0
PROPERTIES VisibleStays
CHECK_DEADLOCK FALSE
