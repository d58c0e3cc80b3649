\* A call over HTTP/2 while main shuts the server down.
SPECIFICATION ServerSpec
CONSTANTS
  r1 = r1
  r2 = r2
  r3 = r3
  Requests <- MCRequests
  Size <- LadenSize
  MaxBatchBytes = 2
  MaxConcurrent = 1
  MaxFailures = 1
  Enabled <- WithIndex
  HTTP1 <- OverHTTP1
INVARIANTS NoCallCutOff
CHECK_DEADLOCK FALSE
