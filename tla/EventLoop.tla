----------------------------- MODULE EventLoop -----------------------------
(***************************************************************************)
(* The cross-thread task hand-off of one EventLoop (src/EventLoop.cpp):    *)
(* foreign threads call RunInLoop, which puts the task into m_tasks        *)
(* (src/buzz/BlockingQueue.h, unbounded) and then writes one byte to the   *)
(* wakeup pipe; the loop polls the pipe's read end, reads at most          *)
(* sizeof(buf) bytes and drains every queued task.  Exit sets m_exited and *)
(* writes a byte only when called on the loop thread.                      *)
(*                                                                         *)
(* The pipe is created by pipe2(..., O_CLOEXEC): it is blocking, so a      *)
(* write to a full pipe waits until the loop reads.                        *)
(***************************************************************************)
EXTENDS Naturals, Sequences, SequencesExt, FiniteSets

CONSTANTS
    Producers,   \* foreign threads calling RunInLoop
    TasksEach,   \* tasks each producer submits
    PipeCap,     \* capacity of the wakeup pipe, in bytes
    ReadChunk,   \* sizeof(buf) of the wakeup read
    ExitBy       \* where Exit may be called from: a subset of {"loop", "foreign"}

ASSUME /\ Producers # {} /\ TasksEach \in Nat \ {0}
       /\ PipeCap \in Nat \ {0} /\ ReadChunk \in Nat \ {0}
       /\ ExitBy \subseteq {"loop", "foreign"}

VARIABLES
    pc,       \* producer: "put" (about to Put) | "wake" (between Put and Wakeup) | "done"
    sent,     \* tasks each producer has put
    queue,    \* m_tasks
    pipe,     \* unread bytes in the wakeup pipe
    lpc,      \* loop: "poll" | "dispatch" | "drain" | "timers" | "exitWake" | "stopped"
    wake,     \* the wakeup channel is in m_active_channel
    exited,   \* m_exited
    exitReq,  \* history: Exit was called
    putLog,   \* history: tasks in the order they were put
    ranLog    \* history: tasks in the order the loop ran them

vars == <<pc, sent, queue, pipe, lpc, wake, exited, exitReq, putLog, ranLog>>

Tasks == Producers \X (1..TasksEach)

-----------------------------------------------------------------------------
(* Producers: RunInLoop from a foreign thread.                             *)

\* BlockingQueue::Put on an unbounded queue: push_back under the mutex.
PutTask(q, t) == Append(q, t)

Put(p) ==
    /\ pc[p] = "put" /\ sent[p] < TasksEach
    /\ LET t == <<p, sent[p] + 1>> IN
         /\ queue' = PutTask(queue, t)
         /\ putLog' = Append(putLog, t)
    /\ sent' = [sent EXCEPT ![p] = @ + 1]
    /\ pc' = [pc EXCEPT ![p] = "wake"]
    /\ UNCHANGED <<pipe, lpc, wake, exited, exitReq, ranLog>>

\* Mutant: the wakeup write is skipped.
WakeupNone(p) ==
    /\ pc[p] = "wake"
    /\ pc' = [pc EXCEPT ![p] = IF sent[p] = TasksEach THEN "done" ELSE "put"]
    /\ UNCHANGED <<sent, queue, pipe, lpc, wake, exited, exitReq, putLog, ranLog>>

\* EventLoop::Wakeup: a blocking one-byte write.
Wakeup(p) ==
    /\ pc[p] = "wake" /\ pipe < PipeCap
    /\ pipe' = pipe + 1
    /\ pc' = [pc EXCEPT ![p] = IF sent[p] = TasksEach THEN "done" ELSE "put"]
    /\ UNCHANGED <<sent, queue, lpc, wake, exited, exitReq, putLog, ranLog>>

\* EventLoop::Exit on another thread: IsInLoopThread() is false, so no byte.
ForeignExit ==
    /\ "foreign" \in ExitBy /\ ~exitReq /\ lpc # "stopped"
    /\ exited' = TRUE /\ exitReq' = TRUE
    /\ UNCHANGED <<pc, sent, queue, pipe, lpc, wake, putLog, ranLog>>

-----------------------------------------------------------------------------
(* The loop thread: EventLoop::Loop.                                       *)

\* PollerEpoll::Poll: the pipe is readable, or the timeout runs out.
Poll ==
    /\ lpc = "poll"
    /\ wake' = (pipe > 0)
    /\ lpc' = "dispatch"
    /\ UNCHANGED <<pc, sent, queue, pipe, exited, exitReq, putLog, ranLog>>

\* The wakeup channel's read callback: ::read(fd, buf, sizeof(buf)).
ReadWakeup ==
    /\ lpc = "dispatch" /\ wake
    /\ pipe' = pipe - Min({pipe, ReadChunk})
    /\ wake' = FALSE /\ lpc' = "drain"
    /\ UNCHANGED <<pc, sent, queue, exited, exitReq, putLog, ranLog>>

\* while (m_tasks.Poll(task, 0)) task();
DrainTask ==
    /\ lpc = "drain" /\ queue # <<>>
    /\ ranLog' = Append(ranLog, Head(queue))
    /\ queue' = Tail(queue)
    /\ UNCHANGED <<pc, sent, pipe, lpc, wake, exited, exitReq, putLog>>

\* Mutant: the drain may stop with tasks still queued (`if` for `while`).
DrainEndEarly ==
    /\ lpc = "drain"
    /\ lpc' = "timers"
    /\ UNCHANGED <<pc, sent, queue, pipe, wake, exited, exitReq, putLog, ranLog>>

\* Poll(task, 0) returns false on an empty queue: the callback returns.
DrainEnd ==
    /\ lpc = "drain" /\ queue = <<>>
    /\ lpc' = "timers"
    /\ UNCHANGED <<pc, sent, queue, pipe, wake, exited, exitReq, putLog, ranLog>>

\* No ready channel: HandleEvent is not called.
DispatchNone ==
    /\ lpc = "dispatch" /\ ~wake
    /\ lpc' = "timers"
    /\ UNCHANGED <<pc, sent, queue, pipe, wake, exited, exitReq, putLog, ranLog>>

\* EventLoop::Exit from a timer callback on the loop thread: m_exited, then
\* Wakeup(), which blocks while the pipe is full.
LoopExit ==
    /\ "loop" \in ExitBy /\ ~exitReq /\ lpc = "timers"
    /\ exited' = TRUE /\ exitReq' = TRUE
    /\ lpc' = "exitWake"
    /\ UNCHANGED <<pc, sent, queue, pipe, wake, putLog, ranLog>>

LoopExitWake ==
    /\ lpc = "exitWake" /\ pipe < PipeCap
    /\ pipe' = pipe + 1
    /\ lpc' = "timers"
    /\ UNCHANGED <<pc, sent, queue, wake, exited, exitReq, putLog, ranLog>>

\* After TimerManager::Schedule, `while (m_exited == false)` is re-tested.
EndCycle ==
    /\ lpc = "timers"
    /\ lpc' = IF exited THEN "stopped" ELSE "poll"
    /\ UNCHANGED <<pc, sent, queue, pipe, wake, exited, exitReq, putLog, ranLog>>

-----------------------------------------------------------------------------
Init ==
    /\ pc = [p \in Producers |-> "put"]
    /\ sent = [p \in Producers |-> 0]
    /\ queue = <<>>
    /\ pipe = 0
    /\ lpc = "poll"
    /\ wake = FALSE
    /\ exited = FALSE
    /\ exitReq = FALSE
    /\ putLog = <<>>
    /\ ranLog = <<>>

LoopStep ==
    \/ Poll \/ ReadWakeup \/ DrainTask \/ DrainEnd \/ DispatchNone
    \/ LoopExitWake \/ EndCycle

Next ==
    \/ \E p \in Producers : Put(p) \/ Wakeup(p)
    \/ ForeignExit \/ LoopExit
    \/ LoopStep

\* The loop thread and a producer between Put and Wakeup keep running; a
\* producer need not submit its next task, and nobody need call Exit.
Fairness ==
    /\ WF_vars(LoopStep)
    /\ \A p \in Producers : WF_vars(Wakeup(p))

Spec == Init /\ [][Next]_vars /\ Fairness

-----------------------------------------------------------------------------
TypeOK ==
    /\ pc \in [Producers -> {"put", "wake", "done"}]
    /\ sent \in [Producers -> 0..TasksEach]
    /\ queue \in Seq(Tasks)
    /\ pipe \in 0..PipeCap
    /\ lpc \in {"poll", "dispatch", "drain", "timers", "exitWake", "stopped"}
    /\ wake \in BOOLEAN /\ exited \in BOOLEAN /\ exitReq \in BOOLEAN
    /\ putLog \in Seq(Tasks) /\ ranLog \in Seq(Tasks)

\* No lost wakeup: whenever the loop is about to block in epoll_wait with a
\* task queued, a wakeup byte is in the pipe or its producer is about to
\* write one (RunInLoop's Put-then-Wakeup against the read-then-drain of
\* the wakeup callback).
NoLostWakeup ==
    (lpc = "poll" /\ queue # <<>>) =>
        \/ pipe > 0
        \/ \E p \in Producers : pc[p] = "wake"

\* Every task handed to RunInLoop is eventually run by the loop, unless
\* Exit is called first (the loop then stops without draining the queue).
AllTasksRun ==
    \A t \in Tasks : (t \in ToSet(putLog)) ~> (t \in ToSet(ranLog) \/ exitReq)

\* The spec: an Exit called off the loop thread wakes the loop "so it
\* observes the flag promptly rather than waiting out the current poll
\* timeout": the loop never starts a poll with nothing to wake it once
\* Exit has been called.
ExitIsPrompt == (exitReq /\ lpc = "poll") => pipe > 0

=============================================================================
