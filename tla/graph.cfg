SPECIFICATION FairSpec
CONSTANTS
  Bodies <- SmallBodies
  StackLimit = 8
INVARIANTS TypeOK TempsMatchDepth NoInstructionLost GraphComputesSource
PROPERTIES BuildEnds
