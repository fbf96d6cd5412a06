SPECIFICATION Spec
CONSTANTS
  HeapSize = 128
  MinorLimit = 32
  Garbage = {0}
  FieldCounts = {4, 27}
  MaxObjects = 20
INVARIANTS EdenNotExceeded
CHECK_DEADLOCK FALSE
