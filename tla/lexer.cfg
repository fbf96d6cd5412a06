SPECIFICATION FairSpec
CONSTANTS
  Char <- Chars
  Files <- SmallFiles
INVARIANTS TypeOK TokensFollowReference IdentifiersCut ExampleTokens
PROPERTIES LexEnds
