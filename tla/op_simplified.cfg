SPECIFICATION HandlersSpec
CONSTANTS
  SymbolType  <- OpSymbolType
  Productions <- OpProductions
  LalrStates  <- OpLalrStates
  LalrInit = 0
  Handled = {0, 1, 3, 4, 6, 8, 9}
  SingleLexeme = {"-", "(", ")", "*", "/", "+"}
  SetForward = {9}
  SetMerge = {}
  MinChilds = 2
  MaxText = 7
  MaxGap = 0
  MaxResets = 0
INVARIANT NumbersKept
CHECK_DEADLOCK FALSE
