SPECIFICATION Spec
CONSTANTS
  SymbolType  <- OpSymbolType
  Productions <- OpProductions
  LalrStates  <- OpLalrStates
  LalrInit = 0
  Items <- OpItems
  StartSymbol = "E"
  MaxText = 5
  MaxGap = 0
  MaxResets = 0
INVARIANTS TypeOK HandlesMatch NoInternalError ShiftsViable VerdictExact ExpectedHelps
PROPERTY ImplementsDerivation
