CONSTANTS
    QueueSize = 2
    IdxMod = 4
    MaxChain = 3
    FrameLen <- MCFrameLen
    ForGuest <- MCForGuest
    RxBuffers <- MCRxBuffers
    TxChains <- MCTxChains
    NetHdrLen = 1
    FrameMax = 3
    FrameMin = 2
    RingCap = 8
    Budget = 2
SPECIFICATION NetSpec
INVARIANTS NetQueuesSound FramesIntact WireFollowsGuest
PROPERTIES FrameLeavesRing
