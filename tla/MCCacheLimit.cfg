\* Three items and eight bytes: both limits bite.
SPECIFICATION FairSpec
CONSTANTS
  Callers = {c1, c2}
  p1 = p1
  p2 = p2
  p3 = p3
  p4 = p4
  p5 = p5
  p6 = p6
  Paths <- MCPaths
  SizeOf <- MCSizeOf
  MaxSize = 8
  MaxItems = 3
INVARIANTS BytesWithinLimit DownloadsOnce
PROPERTIES DriftBounded EveryGetReturns
