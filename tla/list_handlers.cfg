SPECIFICATION HandlersSpec
CONSTANTS
  SymbolType  <- ListSymbolType
  Productions <- ListProductions
  LalrStates  <- ListLalrStates
  LalrInit = 0
  Handled = {0, 2, 3, 4, 5}
  SingleLexeme = {"[", "]", "{", "}", ",", ";"}
  SetForward = {}
  SetMerge = {}
  MinChilds = 2
  MaxText = 8
  MaxGap = 0
  MaxResets = 1
INVARIANTS NodesFollowStack TreesSpellText CallsInPostorder ListsSound NoDangling SimplifiesTree
CHECK_DEADLOCK FALSE
