\* Two writers and a deleter; every read mode.
SPECIFICATION FairSpec
CONSTANTS
  BatchSize = 2
  Concurrency = 3
  MaxCalls = 2
INVARIANTS TrackedIsApplied ListsMatchMaps AlarmsAreExact
PROPERTIES Terminates
CHECK_DEADLOCK FALSE
