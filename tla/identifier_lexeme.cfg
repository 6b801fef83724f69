SPECIFICATION Spec
CONSTANTS
  Header <- HeaderUnits
  Files <- IdentifierFiles
INVARIANT OnlySingleLexemes
CHECK_DEADLOCK FALSE
