SPECIFICATION Spec
CONSTANTS
  Charsets   <- MCCharsets
  DfaStates  <- MCDfaStates
  DfaInit = 1
  SymbolType <- MCSymbolType
  Groups     <- Comments
  Texts      <- MCTexts
  LaterTexts <- AgainTexts
  Padding = 0
  MaxLoads = 1
INVARIANTS TokensTile LongestMatch PlacesExact CommentSpan
PROPERTY ReadReturns
