SPECIFICATION FairSpec
CONSTANTS
  TxSize = 4
  RxSize = 4
  Batch = 2
  Chunk = 2
  MaxOut = 2
  MaxIn = 3
  MaxConns = 2
PROPERTY
  SecondClientAnswered
CHECK_DEADLOCK FALSE
