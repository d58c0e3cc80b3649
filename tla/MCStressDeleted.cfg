\* Deleted keys are read back.
SPECIFICATION Spec
CONSTANTS
  BatchSize = 2
  Concurrency = 3
  MaxCalls = 2
INVARIANTS AlarmsMeanMisses
CHECK_DEADLOCK FALSE
