\* Two io loops and three connections: the third goes round to the first
\* loop again.  After the clients stop connecting and closing, the server
\* waits in its loops: a state with no step is a legitimate end.
SPECIFICATION Spec
CONSTANTS
    PoolSize = 2
    MaxConns = 3
INVARIANT TypeOK
PROPERTY StartReturns
CHECK_DEADLOCK FALSE
