\* A queue of four and indices modulo eight, so that they wrap; a disk of two
\* sectors.  Two processes with one call each on a window of two words.
SPECIFICATION DevicesSpec
CONSTANTS
    QueueSize = 4
    IdxMod = 8
    MaxChain = 5
    Requests <- MCRequests
    Sectors = 2
    SectorLen = 2
    HdrLen = 2
    OffMod = 64
    Procs = {p, q}
    Xfers <- MCXfers
    Pins = {0, 1}
    NGpio = 2
    PinMod = 4
    Boards <- MCBoards
    Replies = {5, 6}
    WordBytes = 2
    DataBytes = 4
    MaxCalls = 1
INVARIANTS RingsHoldInflight NoLostInterrupt ReadIsExact CallsExact
PROPERTIES ChainsReturn CallsReturn
CHECK_DEADLOCK FALSE
