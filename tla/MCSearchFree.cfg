SPECIFICATION SearchSpec
CONSTANTS
  MaxNodes = 3
  MaxFound = 4
  Capacity = 5
  STOP_MERG_ND_RK_ITEMS = 3
INVARIANT RankGoodToUse
