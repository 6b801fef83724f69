SPECIFICATION Spec
CONSTANTS
  Charsets   <- MCCharsets
  DfaStates  <- MCDfaStates
  DfaInit = 1
  SymbolType <- MCSymbolType
  Groups     <- Comments
  Texts      <- WordTexts
  LaterTexts = {}
  Padding = 0
  MaxLoads = 0
INVARIANT WordsWhole
