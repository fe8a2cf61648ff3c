\* A FATAL log or a use after free stops the process: those states have no
\* successor, so deadlock is not checked here (NoFatalDispatch and
\* NoUseAfterFree report them).
SPECIFICATION Spec
CONSTANTS
    Ctx <- LoopAndForeign
    MaxCalls = 3
    MsgLen = 2
    SndBuf = 1
    MaxInbound = 1
    PeerMayReset = TRUE
INVARIANT TypeOK
INVARIANT StreamIntact
PROPERTY StateTransitions
PROPERTY CloseLeadsToDisconnected
CHECK_DEADLOCK FALSE
