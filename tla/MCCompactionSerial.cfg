\* One orchestrator, one executor, one INSERT at a time, no failures.
SPECIFICATION Spec
CONSTANTS
  k1 = k1
  k2 = k2
  b1 = b1
  b2 = b2
  b3 = b3
  b4 = b4
  NoBatch = NoBatch
  Keys <- MCKeys
  Batches <- FourBatches
  KeysOf <- FourKeysOf
  Orchestrators = {o1}
  Executors = {e1}
  Jobs = {1, 2, 3, 4}
  MinWALsToCompact = 1
  MaxInserts = 1
  MaxAttempts = 2
  MaxFailures = 0
PROPERTIES MergePreservesLookups ImplementsStore
CHECK_DEADLOCK FALSE
