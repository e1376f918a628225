SPECIFICATION BothSpec
CONSTANTS
  MaxLen = 5
  Old <- MCOld
  New <- MCNew
  Programs <- MCPrograms
INVARIANTS
  TypeOK
  LeftOver
  AnswerNoneLeft
PROPERTIES
  ImplementsStringEditor
  AnswerImplementsStringEditor
  Terminates
CHECK_DEADLOCK FALSE
