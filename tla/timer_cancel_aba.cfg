\* Three timers over two addresses, added and cancelled from loop callbacks.
SPECIFICATION Spec
CONSTANTS
    Addr <- MCAddr
    MaxTimers = 3
    MaxTime = 2
    Delays = {0, 1}
    Intervals = {0, 1}
    Ctx <- LoopOnly
INVARIANT CancelHitsTarget
