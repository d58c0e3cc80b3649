\* Two orchestrators, one executor, no failures.
SPECIFICATION Spec
CONSTANTS
  k1 = k1
  k2 = k2
  b1 = b1
  b2 = b2
  b3 = b3
  b4 = b4
  NoBatch = NoBatch
  Keys <- OneKey
  Batches <- MCBatches
  KeysOf <- SameKeysOf
  Orchestrators = {o1, o2}
  Executors = {e1}
  Jobs = {1, 2}
  MinWALsToCompact = 1
  MaxInserts = 1
  MaxAttempts = 2
  MaxFailures = 0
PROPERTIES MergesTakeTheirRows
CHECK_DEADLOCK FALSE
