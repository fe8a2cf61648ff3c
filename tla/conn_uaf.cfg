SPECIFICATION Spec
CONSTANTS
    Ctx <- LoopAndForeign
    MaxCalls = 3
    MsgLen = 2
    SndBuf = 1
    MaxInbound = 1
    PeerMayReset = FALSE
INVARIANT NoUseAfterFree
CHECK_DEADLOCK FALSE
