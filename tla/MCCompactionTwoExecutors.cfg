\* One orchestrator, two executors, one INSERT at a time, no failures.
SPECIFICATION Spec
CONSTANTS
  k1 = k1
  k2 = k2
  b1 = b1
  b2 = b2
  b3 = b3
  b4 = b4
  NoBatch = NoBatch
  Keys <- MCKeys
  Batches <- MCBatches
  KeysOf <- MCKeysOf
  Orchestrators = {o1}
  Executors = {e1, e2}
  Jobs = {1, 2}
  MinWALsToCompact = 1
  MaxInserts = 1
  MaxAttempts = 2
  MaxFailures = 0
INVARIANTS RunsNewestFirst
CHECK_DEADLOCK FALSE
