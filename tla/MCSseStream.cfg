SPECIFICATION FairSpec
CONSTANTS
  a = a
  b = b
  token = token
  value = value
  content = content
  reasoning = reasoning
  Path <- MCPath
  InDelta <- MCPath
  FirstChoice <- MCPath
  Owner <- MCOwner
  FlushOwner <- MCFlushOwner
  Char <- MCChar
  Token <- MCToken
  Original <- MCOriginal
  Window = 1
  Capacity = 1
  Scripts <- MCScripts
  MaxSkipped = 1
  MaxBody = 3
INVARIANTS InOrder NothingKept EndsLast SignalsForwarded
PROPERTIES StreamEnds KeepsSubscription
CHECK_DEADLOCK FALSE
