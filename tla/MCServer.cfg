\* One writer and a processing channel that fills up; a call over HTTP/2.
SPECIFICATION FairServerSpec
CONSTANTS
  r1 = r1
  r2 = r2
  r3 = r3
  Requests <- MCRequests
  Size <- LadenSize
  MaxBatchBytes = 2
  MaxConcurrent = 1
  MaxFailures = 1
  Enabled <- WithIndex
  HTTP1 <- OverHTTP1
INVARIANTS AckedIsDurable OneAnswer TimerGuardsBatch OverfilledByOne
PROPERTIES EveryCallReturns DrainsOnShutdown ShutdownCompletes
CHECK_DEADLOCK FALSE
