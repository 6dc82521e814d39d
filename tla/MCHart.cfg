CONSTANTS
    Idx <- MCIdx
    Hi <- MCHi
    Tables <- MCTables
    Ram <- MCRam
    Device <- MCDevice
    Pages <- MCPages
    Slots <- MCSlots
    SlotOf <- MCSlotOf
    SstatusValues <- MCSstatusValues
    PteValues <- MCPteValues
    BootPt <- MCBootPt
    Irqs = {5}
    NoPage = NoPage
    Bare = Bare
    MaxEdits = 1
    MANT_SIZE = 2
    EXP_SIZE = 5
    ICVT_SIZE = 9
    Operands <- MCOperands
    Addends <- MCAddends
SPECIFICATION HartSpec
INVARIANTS TlbCoherent FetchCoherent NeverMachine RoundedOnce ReadOutExact
