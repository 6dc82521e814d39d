SPECIFICATION MachineSpec
CONSTANTS
    RxRing = 2
    PlatRing = 1
    Burst = 2
    MaxTyped = 2
    MaxTel = 1
    MaxSent = 1
    CycMod = 2
    CycPerUs = 1
    MaxSlice = 1
    MaxTime = 3
    Delays = {1}
    MaxArms = 2
    MaxOther = 1
    ResetTypes = {1}
    AddrMod = 16
    RamBase = 8
    RamSize = 4
INVARIANTS SleepHidesNothing InputDelivered TimerTrue
PROPERTIES BytesArrive TimerFires
