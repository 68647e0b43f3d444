SPECIFICATION Spec
CONSTANTS
  a = a
  token = token
  value = value
  Char <- MCChar
  Token <- MCToken
  Original <- MCOriginal
  Window = 1
  MaxDepth = 7
  Inputs <- MCInputs
INVARIANTS PathsStayValid TextsConserved SignalsKept AgreesWithSseStream
CHECK_DEADLOCK FALSE
