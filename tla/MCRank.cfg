SPECIFICATION Spec
CONSTANTS
  Size = 4
  STOP = 2
  Scores = {1, 2}
  Depths = {0, 1, 2}
  Brws = {1, 2}
  MaxOffers = 6
  MaxNodes = 3
  MaxPage = 5
  UINT8_MAX = 3
  NULL = NULL
  Items <- RankItems
  Compares = {"stage0", "stage1"}
  Lt <- LessThan
INVARIANTS RankTypeOK HeapOrder KeepIsHeap KeepsBest SortedBestFirst PagesPartition
