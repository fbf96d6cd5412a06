SPECIFICATION FairSpec
CONSTANTS
  Idents = {"A", "Int"}
  Kinds <- PlainKinds
  MaxTokens = 11
  Prefix <- NoPrefix
  Free <- AnyToken
INVARIANTS TypeOK UnderConstruction PrivateConfined RegisteredOnce EnumOrdinals
PROPERTIES PrivateQualifies ImplementsCodeUnit ParseTerminates
