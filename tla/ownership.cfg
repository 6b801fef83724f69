SPECIFICATION OwnSpec
CONSTANTS
  BlockSize = 8
  Sizes = {3, 5, 8}
  SizeMod = 16
  MaxNodes = 3
  Strings <- ClientStrings
  MaxLoads = 3
  MaxBuilders = 3
INVARIANTS TreesReadable FreedOnce NothingLeaks NodesSound
CHECK_DEADLOCK FALSE
