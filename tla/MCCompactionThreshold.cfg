\* Two orchestrators, and compaction from two NEW rows on.
SPECIFICATION FairSpec
CONSTANTS
  k1 = k1
  k2 = k2
  b1 = b1
  b2 = b2
  b3 = b3
  b4 = b4
  NoBatch = NoBatch
  Keys <- OneKey
  Batches <- MCBatches
  KeysOf <- SameKeysOf
  Orchestrators = {o1, o2}
  Executors = {e1, e2}
  Jobs = {1, 2}
  MinWALsToCompact = 2
  MaxInserts = 2
  MaxAttempts = 2
  MaxFailures = 1
PROPERTIES EveryWALCompacted
CHECK_DEADLOCK FALSE
