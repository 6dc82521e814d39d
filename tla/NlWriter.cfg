\* Images of up to two and a half buffers, any split of recv().
SPECIFICATION FairSpec
CONSTANTS
  BUF = 4
  UNIT = 2
  MaxLen = 9
INVARIANTS
  BufferOwnership
  ProgramOnce
PROPERTIES
  StallIsTheFlash
  WriterNotReused
  PushEnds
  StreamSpec
