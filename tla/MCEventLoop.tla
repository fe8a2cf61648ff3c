---------------------------- MODULE MCEventLoop ----------------------------
EXTENDS EventLoop

CONSTANTS p1, p2

MCProducers == {p1, p2}
NoExit == {}
ForeignOnly == {"foreign"}
LoopOnly == {"loop"}
Anywhere == {"loop", "foreign"}
=============================================================================
