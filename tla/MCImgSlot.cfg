SPECIFICATION Spec
CONSTANTS
  kernel = kernel
  rootfs = rootfs
  a = a
  b = b
  c = c
  Slots <- MCSlots
  Base <- MCBase
  Span <- MCSpan
  FlashCells = 8
  CellsPerBlock = 2
  KernelSlot = kernel
  RamCells = 1
  Images <- MCImages
  Size <- MCSize
  NoImage = NoImage
  Attempts = 2
  BlankCheck = TRUE
INVARIANTS
  HeaderLast
  NeverReprogrammed
  AnswersTrue
PROPERTIES
  NeighboursSafe
