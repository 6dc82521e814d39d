\* Rings of four, so that they fill up and wrap; two sessions.  Up to three
\* tokens; three answers are more than the reply buffer holds.
SPECIFICATION TelnetSpec
CONSTANTS
  TxSize = 4
  RxSize = 4
  Batch = 2
  Chunk = 2
  MaxOut = 4
  MaxIn = 3
  MaxConns = 2
  REPLY = 7
  CHUNK = 9
  MaxTokens = 3
INVARIANTS
  BytesInOrder
  DataIntact
  RepliesBounded
PROPERTY
  OutputFlushed
CHECK_DEADLOCK FALSE
