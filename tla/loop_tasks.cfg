\* Two producers hand two tasks each to the loop through RunInLoop; Exit
\* may be called from a loop callback or from another thread.  The pipe
\* holds every byte the producers and an in-loop Exit can write.
\* After the loop stops, a producer may stay blocked on the pipe for good:
\* a stopped loop is a legitimate end state.
SPECIFICATION Spec
CONSTANTS
    p1 = p1
    p2 = p2
    Producers <- MCProducers
    TasksEach = 2
    PipeCap = 5
    ReadChunk = 2
    ExitBy <- Anywhere
INVARIANT NoLostWakeup
PROPERTY AllTasksRun
CHECK_DEADLOCK FALSE
