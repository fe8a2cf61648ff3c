SPECIFICATION Spec
CONSTANTS
    Ctx <- LoopOnly
    MaxCalls = 3
    MsgLen = 2
    SndBuf = 1
    MaxInbound = 1
    PeerMayReset = FALSE
PROPERTY OutputDrains

