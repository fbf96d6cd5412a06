SPECIFICATION Spec
CONSTANTS
  Vectors = {a, b}
  size_ = 8
  kBitsPerWord = 5
  IntBits = 3
INVARIANTS TypeOK SignBitsTogether
PROPERTIES ImplementsIndexSet
CHECK_DEADLOCK FALSE
