SPECIFICATION FairSpec
CONSTANTS
  kernel = kernel
  rootfs = rootfs
  a = a
  b = b
  MaxTries = 2
  Prompt = TRUE
  Slots <- OneSlot
  Base <- OneBase
  Span <- OneSpan
  FlashCells = 4
  CellsPerBlock = 2
  KernelSlot = kernel
  RamCells = 1
  Images <- MCImages
  Size <- MCSize
  NoImage = NoImage
  Attempts = 1
  BlankCheck = TRUE
  AutoReboot = TRUE
  MaxConns = 2
INVARIANTS
  NoReadUnderWrite
  CommittedStays
PROPERTIES
  ConnectionEnds
  ArmedReboots
