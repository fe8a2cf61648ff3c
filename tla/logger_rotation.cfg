\* Two threads logging across one day boundary: two ticks to a second and
\* two seconds to a day, the clock running through both days.
SPECIFICATION Spec
CONSTANTS
    t1 = t1
    t2 = t2
    NoFile = NoFile
    Stderr = Stderr
    Threads <- MCThreads
    MsgsEach = 2
    Severities = {0, 3, 5}
    SEVERITY = 3
    STDERR = FALSE
    PerSecond = 2
    Day = 2
    MaxTime = 7
    DiskMayFill = TRUE
    FdopenMayFail = TRUE
INVARIANT RotatesDaily
CHECK_DEADLOCK FALSE
