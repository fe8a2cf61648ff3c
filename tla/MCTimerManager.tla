--------------------------- MODULE MCTimerManager ---------------------------
EXTENDS TimerManager

\* Two addresses for three timers: the allocator must reuse one.
MCAddr == {1, 2}
LoopOnly == {"loop"}
LoopAndForeign == {"loop", "foreign"}
=============================================================================
