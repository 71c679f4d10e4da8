SPECIFICATION Spec
CONSTANTS
  Inputs <- HexLines
  MaxUrl = 3
  MaxPath = 0
  MaxQuery = 0
  MaxVersion = 0
  MaxFields = 0
INVARIANTS
  HexEscapesAreDecoded
CHECK_DEADLOCK FALSE
