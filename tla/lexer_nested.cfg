SPECIFICATION Spec
CONSTANTS
  Charsets   <- MCCharsets
  DfaStates  <- MCDfaStates
  DfaInit = 1
  SymbolType <- MCSymbolType
  Groups     <- NestedComments
  Texts      <- NestTexts
  LaterTexts = {}
  Padding = 0
  MaxLoads = 0
INVARIANT NoTokenWithinGroup
