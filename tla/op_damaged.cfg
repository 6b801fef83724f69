SPECIFICATION Spec
CONSTANTS
  SymbolType  <- OpSymbolType
  Productions <- OpProductions
  LalrStates  <- DamagedLalrStates
  LalrInit = 0
  MaxText = 4
  MaxGap = 1
  MaxResets = 1
INVARIANTS StackIsPath ErrorPointsAt TextConserved
PROPERTY VerdictSticks
