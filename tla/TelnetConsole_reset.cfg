SPECIFICATION Spec
CONSTANTS
  TxSize = 4
  RxSize = 4
  Batch = 2
  Chunk = 2
  MaxOut = 0
  MaxIn = 5
  MaxConns = 2
INVARIANT
  TypedReadOnce
CHECK_DEADLOCK FALSE
