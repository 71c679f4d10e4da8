SPECIFICATION Spec
CONSTANTS
  Inputs <- PostLines
  MaxUrl = 0
  MaxPath = 0
  MaxQuery = 0
  MaxVersion = 0
  MaxFields = 0
INVARIANTS
  QuestionIsThere
CHECK_DEADLOCK FALSE
