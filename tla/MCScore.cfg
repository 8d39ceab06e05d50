SPECIFICATION Spec
CONSTANTS
  Queries <- MCQueries
  DocFans <- MCDocFans
  Symbols <- MCSymbols
  Above <- MCAbove
  Garbage = {255}
  MaxPush = 3
  NULL = NULL
INVARIANTS ScoreTypeOK MarkedAreChamps CleanBetweenDocuments ScoreIsMatching
PROPERTY CrossedStaysCrossed
