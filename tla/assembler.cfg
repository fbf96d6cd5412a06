SPECIFICATION RunSpec
CONSTANTS
  Calls <- SmallCalls
  Capacity = 24
  MaxCalls = 2
INVARIANTS TypeOK RegionHoldsCode
PROPERTIES ImplementsAddMachine
