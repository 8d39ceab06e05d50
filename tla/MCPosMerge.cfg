SPECIFICATION Spec
CONSTANTS
  N = 3
  RD_NUM = 3
  Ids = {1, 2, 3}
  MinLen = 0
  MaxLen = 6
  MaxOcc = 2
  Files <- MCFiles
INVARIANTS TypeOK ReportsCommonIds
PROPERTY Contract
PROPERTY SizedGetsLoadedData
PROPERTY Terminates
