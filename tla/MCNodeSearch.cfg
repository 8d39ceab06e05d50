SPECIFICATION NodeSpec
CONSTANTS
  MaxNodes = 2
  MaxFound = 3
  Capacity = 3
  STOP_MERG_ND_RK_ITEMS = 2
  N = 2
  Names = {"p", "q"}
  Paths <- MCPaths
  Postings <- MCPostings
  Heads <- MCHeads
  Scorings <- MCScorings
  ItemsAt <- MCItemsAt
  IdsAt <- MCIdsAt
  MAX_SEARCH_ITEMS = 2
  MaxFails = 1
INVARIANTS NodeTypeOK VisitsCommon HandlesOfFrames ReleasedOnce NothingLeft AnswerHasAll ScanLimit
PROPERTIES ImplementsSearch
