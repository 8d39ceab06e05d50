SPECIFICATION Spec
CONSTANTS
  N = 1
  RD_NUM = 2
  Ids = {1, 2, 3}
  MinLen = 1
  MaxLen = 4
  MaxOcc = 2
  Files <- MCFiles
PROPERTY CallbackGetsLoadedData
