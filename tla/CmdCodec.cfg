SPECIFICATION Spec
CONSTANTS
  Pieces <- MCPieces
  MaxPieces = 3
  Numbers <- MCNumbers
  Order <- MCOrder
  Socket <- MCSocket
  MsgSize = 45
INVARIANTS
  RoutedBack
  FirstValueCounts
  AnswersSurvive
CHECK_DEADLOCK FALSE
