\* Three timers over two addresses, one-shot and repeating, added and
\* cancelled from the loop and from another thread.
SPECIFICATION Spec
CONSTANTS
    Addr <- MCAddr
    MaxTimers = 3
    MaxTime = 2
    Delays = {0, 1}
    Intervals = {0, 1}
    Ctx <- LoopAndForeign
INVARIANT TypeOK
INVARIANT EntriesMatchTimers
PROPERTY Refines
PROPERTY DueTimersFire
