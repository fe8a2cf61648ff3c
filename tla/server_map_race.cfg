\* One io loop, two connections: the second is accepted while the first
\* is being removed on the io thread.
SPECIFICATION Spec
CONSTANTS
    PoolSize = 1
    MaxConns = 2
INVARIANT ConnectionsTracked
CHECK_DEADLOCK FALSE
