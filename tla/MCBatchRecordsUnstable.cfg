\* A batch larger than what sort.Slice sorts by insertion; a put and a delete of
\* one key are enough.
SPECIFICATION Spec
CONSTANTS
  KeyLengths = {1, 2}
  ValueLengths = {0, 1}
  MaxRecords = 3
  StableUpTo = 2
INVARIANTS KeepsLastOccurrence
CHECK_DEADLOCK FALSE
