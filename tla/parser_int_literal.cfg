SPECIFICATION Spec
CONSTANTS
  Idents <- ExampleNames
  Kinds <- PlainKinds
  MaxTokens = 72
  Prefix <- Example
  Free <- AnyToken
INVARIANTS IntLocalsHoldInts
