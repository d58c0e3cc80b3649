\* Two batches over two keys with a delete, one BatchGet, an index that serves
\* before the first write, and one failure of any kind, a restart included.
SPECIFICATION FairIndexSpec
CONSTANTS
  k1 = k1
  k2 = k2
  b1 = b1
  b2 = b2
  NoBatch = NoBatch
  Keys <- TwoKeys
  Batches <- TwoBatches
  KeysOf <- MixedKeysOf
  DeletesOf <- MixedDeletes
  Orchestrators = {o1}
  Executors = {e1}
  Jobs = {1, 2}
  Gets = {g1}
  IndexFirst = TRUE
  MinWALsToCompact = 1
  MaxInserts = 1
  MaxAttempts = 1
  MaxFailures = 1
INVARIANTS LookupMatchesViews NothingMissed QuietViewsAreCurrent
PROPERTIES EveryBatchVisible
CHECK_DEADLOCK FALSE
