SPECIFICATION Spec
CONSTANTS
  Formulas <- MCFormulas
  Vars = {"a", "b"}
  SymbolId <- MCSymbolId
  MaxLength = 7
  MaxNodes = 15
  MAX_TEX_TR_DEPTH = 4
  MAX_TEX_TR_LEAVES = 7
  MAX_BRW_PIN_SZ = 6
INVARIANTS TexTypeOK TreeOfFormula SubpathsOfLeaves
PROPERTY TraversalsEnd
