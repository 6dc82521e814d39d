SPECIFICATION MachineSpec
CONSTANTS
    RxRing = 2
    PlatRing = 1
    Burst = 1
    MaxTyped = 0
    MaxTel = 0
    MaxSent = 0
    CycMod = 4
    CycPerUs = 1
    MaxSlice = 2
    MaxTime = 8
    Delays = {1}
    MaxArms = 1
    MaxOther = 0
    ResetTypes = {1}
    AddrMod = 16
    RamBase = 8
    RamSize = 4
INVARIANT ClockTrue
