SPECIFICATION LexedSpec
CONSTANTS
  SymbolType  <- CommentedSymbolType
  Productions <- ListProductions
  LalrStates  <- ListLalrStates
  LalrInit = 0
  Items <- TheItems
  StartSymbol = "List"
  Charsets  <- ListCharsets
  DfaStates <- ListDfaStates
  DfaInit = 1
  Groups    <- BlockComment
  Texts      <- ListTexts
  LaterTexts <- OtherTexts
  Padding = 0
  MaxText = 8
  MaxGap = 2
  MaxLoads = 1
INVARIANTS LexerAsAssumed BytesSpellText
PROPERTIES LexedImplementsParser LexedImplementsDerivation LexedCallReturns
