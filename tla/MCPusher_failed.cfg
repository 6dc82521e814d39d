SPECIFICATION Spec
CONSTANTS
  kernel = kernel
  rootfs = rootfs
  a = a
  b = b
  MaxTries = 1
  Prompt = TRUE
  Slots <- TwoSlots
  Base <- TwoBase
  Span <- TwoSpan
  FlashCells = 6
  CellsPerBlock = 2
  KernelSlot = kernel
  RamCells = 1
  Images <- MCImages
  Size <- MCSize
  NoImage = NoImage
  Attempts = 1
  BlankCheck = TRUE
  AutoReboot = TRUE
  MaxConns = 2
PROPERTY
  FailedPushDoesNotReboot
