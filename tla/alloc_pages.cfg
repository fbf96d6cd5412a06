SPECIFICATION Spec
CONSTANTS
  HeapSize = 128
  MinorLimit = 32
  Garbage = {0, 1, 2, 3, 4, 5, 6}
  FieldCounts = {0}
  MaxObjects = 20
INVARIANTS PagesFit
CHECK_DEADLOCK FALSE
