\* Batches on both sides of the size up to which sort.Slice keeps the order of
\* equal keys; lengths on both sides of the boundary between one-byte and
\* two-byte varints.
SPECIFICATION Spec
CONSTANTS
  KeyLengths = {1, 63, 64}
  ValueLengths = {0, 128}
  MaxRecords = 3
  StableUpTo = 2
INVARIANTS KeysInOrder RoundTrip SizeIsExact OnlyWholeRecords
PROPERTIES KeepsLastSorted
CHECK_DEADLOCK FALSE
