SPECIFICATION HandlersSpec
CONSTANTS
  SymbolType  <- RightSymbolType
  Productions <- RightProductions
  LalrStates  <- RightLalrStates
  LalrInit = 0
  Handled = {0, 2, 3}
  SingleLexeme = {",", "(", ")"}
  SetForward = {}
  SetMerge = {3}
  MinChilds = 2
  MaxText = 10
  MaxGap = 0
  MaxResets = 0
INVARIANTS ChildsFitProduction ValuesFollowTree ListsReturned SimplifiesTree
CHECK_DEADLOCK FALSE
