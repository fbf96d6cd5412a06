SPECIFICATION Spec
CONSTANTS
  HeapSize = 32
  MinorLimit = 8
  Garbage = {0, 3}
  FieldCounts = {0, 1, 2, 3}
  MaxObjects = 5
INVARIANTS TypeOK InstancesDisjoint VisitFindsPages
CHECK_DEADLOCK FALSE
