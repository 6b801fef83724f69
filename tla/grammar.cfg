SPECIFICATION Spec
CONSTANTS
  Header <- HeaderUnits
  Files <- AllFiles
INVARIANTS RowsWhole LoadedExact FoundByID PathsCounted
PROPERTY LoadReturns
CHECK_DEADLOCK FALSE
