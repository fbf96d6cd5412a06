SPECIFICATION FairMainSpec
CONSTANTS
  Idents <- Names
  Kinds <- PlainKinds
  Prefix <- UpToFunc
  Free <- MainTokens
  MaxTokens <- Longest
  StackLimit = 3
  CoreSizes <- Sizes
INVARIANTS MainTypeOK TreesFitBuilder ListingIsTranslation CoreFits ExampleAccepted
PROPERTIES MainReturns
