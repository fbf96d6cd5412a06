SPECIFICATION Spec
CONSTANTS
  Idents = {"A", "Int"}
  Kinds = {"kVAR", "kFUNC", "kCLASS", "kOBJECT", "kLBRACE", "kRBRACE", "kCOLON", "kSEMICOLON",
           "kLPAREN", "kRPAREN", "kEQUALS", "kRETURN", "kLIT_NUMBER", "kPLUS", "kCOMMA"}
  MaxTokens = 29
  Prefix <- OneClass
  Free <- AnyToken
INVARIANTS ScopeFollowsGrammar LocalsStayInDefinition FieldNodesAgree
