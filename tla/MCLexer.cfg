SPECIFICATION Spec
CONSTANTS
  MaxNest = 5
  MaxStack = 6
INVARIANTS LexTypeOK TokensOfText
