---------------------------- MODULE TimerManager ----------------------------
(***************************************************************************)
(* TimerManager (src/Timer.cpp) of one EventLoop.  Timers are heap         *)
(* objects: AddTimer allocates one (new Timer) at some free address and     *)
(* marshals Insert onto the loop; the application's TimerId is just that    *)
(* address.  m_timers is a std::set of (expiration, pointer) pairs, so    *)
(* it is ordered by expiration, then by address.  Schedule extracts every  *)
(* due entry (GetExpired), runs them in set order, and Reset re-inserts    *)
(* the repeating ones at now + interval and deletes the one-shot ones.     *)
(*                                                                         *)
(* The model keeps the heap: which addresses hold a live Timer, and for    *)
(* each the Timer's creation sequence, expiration and interval.  Calls come *)
(* from the loop thread (run in place by RunInLoop, possibly from inside a *)
(* timer callback) or from another thread (queued and drained by the loop *)
(* between cycles).  Time is a small discrete clock.                       *)
(***************************************************************************)
EXTENDS Naturals, Sequences, SequencesExt, FiniteSets

CONSTANTS
    Addr,        \* addresses a Timer can be allocated at: a set of naturals
    MaxTimers,   \* bound on AddTimer calls (m_timer_seq values 0..MaxTimers-1)
    MaxTime,     \* the clock stops advancing here
    Delays,      \* delays passed to RunAfter / RunEvery, in ticks
    Intervals,   \* repeat intervals; 0 is a one-shot timer
    Ctx          \* where the application calls from: a subset of {"loop", "foreign"}

ASSUME /\ Addr \subseteq Nat /\ Addr # {}
       /\ MaxTimers \in Nat \ {0} /\ MaxTime \in Nat
       /\ Delays \subseteq Nat /\ Intervals \subseteq Nat
       /\ Ctx \subseteq {"loop", "foreign"}

VARIABLES
    now,        \* Timestamp::Now()
    heap,       \* heap[a]: the Timer object at address a
    timers,     \* m_timers: a set of <<expiration, address>>
    batch,      \* the vector GetExpired returned, in set order
    pos,        \* index in batch of the next timer to Run
    phase,      \* "idle" (polling, dispatching, draining) | "run" (in Schedule)
    queue,      \* Insert and CannelInLoop calls marshalled through m_tasks
    nextSeq,    \* m_timer_seq
    handles,    \* TimerIds the application holds: <<address, seq it was issued for>>
    cancelDone, \* history: seqs whose cancel request CannelInLoop has handled
    killed      \* history: seqs of the Timers CannelInLoop removed

vars == <<now, heap, timers, batch, pos, phase, queue, nextSeq, handles,
          cancelDone, killed>>

Seqs == 0..(MaxTimers - 1)
MaxWhen == MaxTime + Max(Delays \cup Intervals)
Times == 0..MaxWhen
Cell == [live : BOOLEAN, seq : Seqs, when : Times, iv : Intervals]
Entry == Times \X Addr

\* The address order of std::pair<Timestamp, Timer*>: expiration, then pointer.
EntryLess(e, f) == e[1] < f[1] \/ (e[1] = f[1] /\ e[2] < f[2])

Free == {a \in Addr : ~heap[a].live}

-----------------------------------------------------------------------------
(* Operations that run on the loop thread.                                 *)

\* TimerManager::Insert: m_timers.insert(make_pair(timer->Expiration(), timer)).
Insert(a) == timers' = timers \cup {<<heap[a].when, a>>}

\* TimerManager::CannelInLoop for the TimerId holding address a: it reads
\* timer->Expiration() through the pointer (the Timer may have been deleted,
\* or its memory reused by a newer Timer), finds that pair and deletes it.
CannelInLoop(a) ==
    LET e == <<heap[a].when, a>> IN
    IF e \in timers
       THEN /\ timers' = timers \ {e}
            /\ heap' = [heap EXCEPT ![a].live = FALSE]
            /\ killed' = killed \cup {heap[a].seq}
       ELSE UNCHANGED <<timers, heap, killed>>

\* Mutant: `lower_bound` taken on (now, nullptr): an entry due exactly now
\* is left for a later Schedule.
DueBefore(e) == e[1] < now
\* GetExpired: the entries up to lower_bound((now, UINTPTR_MAX)).
Due(e) == e[1] <= now

GetExpired ==
    /\ phase = "idle"
    /\ LET due == {e \in timers : Due(e)} IN
         /\ batch' = SetToSortSeq(due, EntryLess)
         /\ timers' = timers \ due
    /\ pos' = 1
    /\ phase' = "run"
    /\ UNCHANGED <<now, heap, queue, nextSeq, handles, cancelDone, killed>>

\* Mutant: the loop over the expired vector runs while i <= size().
RunTimerPastEnd ==
    /\ phase = "run" /\ pos <= Len(batch) + 1
    /\ pos' = pos + 1
    /\ UNCHANGED <<now, heap, timers, batch, phase, queue, nextSeq, handles,
                   cancelDone, killed>>

\* it.second->Run(): the callback; calls it makes are separate steps taken
\* before the next RunTimer.
RunTimer ==
    /\ phase = "run" /\ pos <= Len(batch)
    /\ pos' = pos + 1
    /\ UNCHANGED <<now, heap, timers, batch, phase, queue, nextSeq, handles,
                   cancelDone, killed>>

\* Mutant: Restart based on the old expiration instead of the firing time.
RestartFromExpiration(c) == [c EXCEPT !.when = c.when + c.iv]
\* Timer::Restart(now) for a repeating timer.
Restart(c) == [c EXCEPT !.when = now + c.iv]

\* Mutant: Insert is called with the key taken before Restart.
ResetInsertFirst ==
    /\ phase = "run" /\ pos = Len(batch) + 1
    /\ LET ran == {batch[i][2] : i \in 1..Len(batch)}
           rep == {a \in ran : heap[a].iv > 0}
       IN /\ heap' = [a \in Addr |-> IF a \in rep THEN Restart(heap[a])
                                     ELSE IF a \in ran THEN [heap[a] EXCEPT !.live = FALSE]
                                     ELSE heap[a]]
          /\ timers' = timers \cup {<<heap[a].when, a>> : a \in rep}
    /\ batch' = <<>> /\ pos' = 1 /\ phase' = "idle"
    /\ UNCHANGED <<now, queue, nextSeq, handles, cancelDone, killed>>

\* TimerManager::Reset: Restart and Insert the repeating timers, delete
\* the others.
Reset ==
    /\ phase = "run" /\ pos = Len(batch) + 1
    /\ LET ran == {batch[i][2] : i \in 1..Len(batch)}
           rep == {a \in ran : heap[a].iv > 0}
       IN /\ heap' = [a \in Addr |-> IF a \in rep THEN Restart(heap[a])
                                     ELSE IF a \in ran THEN [heap[a] EXCEPT !.live = FALSE]
                                     ELSE heap[a]]
          /\ timers' = timers \cup {<<Restart(heap[a]).when, a>> : a \in rep}
    /\ batch' = <<>> /\ pos' = 1 /\ phase' = "idle"
    /\ UNCHANGED <<now, queue, nextSeq, handles, cancelDone, killed>>

\* The loop drains one marshalled call (the wakeup callback, between cycles).
DrainOp ==
    /\ phase = "idle" /\ queue # <<>>
    /\ LET op == Head(queue) IN
         IF op.op = "Insert"
            THEN Insert(op.addr) /\ UNCHANGED <<heap, killed, cancelDone>>
            ELSE CannelInLoop(op.addr) /\ cancelDone' = cancelDone \cup {op.seq}
    /\ queue' = Tail(queue)
    /\ UNCHANGED <<now, batch, pos, phase, nextSeq, handles>>

\* Poll returns after its timeout and the clock has moved on.
Tick ==
    /\ phase = "idle" /\ now < MaxTime
    /\ now' = now + 1
    /\ UNCHANGED <<heap, timers, batch, pos, phase, queue, nextSeq, handles,
                   cancelDone, killed>>

-----------------------------------------------------------------------------
(* The application: RunAfter / RunEvery (AddTimer) and Cannel.  On the loop *)
(* thread the call runs in place, from a channel callback (idle) or from a *)
(* timer callback (after a RunTimer).                                      *)

InLoop(ctx) == ctx = "loop" => (phase = "idle" \/ pos > 1)

\* AddTimer: new Timer(task, when, interval), then RunInLoop(Insert).
AddTimer(ctx, d, iv) ==
    /\ ctx \in Ctx /\ InLoop(ctx)
    /\ nextSeq < MaxTimers /\ Free # {}
    /\ \E a \in Free :
         /\ heap' = [heap EXCEPT ![a] = [live |-> TRUE, seq |-> nextSeq,
                                          when |-> now + d, iv |-> iv]]
         /\ handles' = handles \cup {<<a, nextSeq>>}
         /\ IF ctx = "loop"
               THEN timers' = timers \cup {<<now + d, a>>} /\ UNCHANGED queue
               ELSE queue' = Append(queue, [op |-> "Insert", addr |-> a, seq |-> nextSeq])
                    /\ UNCHANGED timers
    /\ nextSeq' = nextSeq + 1
    /\ UNCHANGED <<now, batch, pos, phase, cancelDone, killed>>

\* EventLoop::RunAt and RunAfter: a one-shot timer, d ticks from now.
RunAfter(ctx, d) == AddTimer(ctx, d, 0)

\* EventLoop::RunEvery: first due one interval from now, then every interval.
RunEvery(ctx, iv) == AddTimer(ctx, iv, iv)

\* TimerManager::Cannel: RunInLoop(CannelInLoop).
Cannel(ctx, h) ==
    /\ ctx \in Ctx /\ InLoop(ctx)
    /\ h \in handles
    /\ handles' = handles \ {h}
    /\ IF ctx = "loop"
          THEN CannelInLoop(h[1]) /\ cancelDone' = cancelDone \cup {h[2]}
               /\ UNCHANGED queue
          ELSE queue' = Append(queue, [op |-> "Cancel", addr |-> h[1], seq |-> h[2]])
               /\ UNCHANGED <<timers, heap, killed, cancelDone>>
    /\ UNCHANGED <<now, batch, pos, phase, nextSeq>>

-----------------------------------------------------------------------------
Init ==
    /\ now = 0
    /\ heap = [a \in Addr |-> [live |-> FALSE, seq |-> 0, when |-> 0, iv |-> 0]]
    /\ timers = {}
    /\ batch = <<>>
    /\ pos = 1
    /\ phase = "idle"
    /\ queue = <<>>
    /\ nextSeq = 0
    /\ handles = {}
    /\ cancelDone = {}
    /\ killed = {}

LoopStep == GetExpired \/ RunTimer \/ Reset \/ DrainOp \/ Tick

AppStep ==
    \E ctx \in Ctx :
        \/ \E d \in Delays : RunAfter(ctx, d)
        \/ \E iv \in Intervals \ {0} : RunEvery(ctx, iv)
        \/ \E h \in handles : Cannel(ctx, h)

Next == LoopStep \/ AppStep

\* The loop thread keeps cycling (Poll returns within its timeout), and in
\* the idle part of every cycle the clock may advance and the wakeup
\* channel is drained: both only in that part, so strongly fair.  The
\* application need not call anything.
Fairness == WF_vars(LoopStep) /\ SF_vars(Tick) /\ SF_vars(DrainOp)

Spec == Init /\ [][Next]_vars /\ Fairness

-----------------------------------------------------------------------------
(* The refinement: the pending timers are those in m_timers, those of the  *)
(* current batch not yet run, and the repeating ones already run, at the   *)
(* expiration Reset is about to give them.                                 *)

Logical(a) == [seq |-> heap[a].seq, when |-> heap[a].when, iv |-> heap[a].iv]

AbsPending ==
    LET ranA   == {batch[i][2] : i \in 1..(pos - 1)}
        unrunA == {batch[i][2] : i \in pos..Len(batch)}
    IN  {Logical(e[2]) : e \in timers}
        \cup {Logical(a) : a \in unrunA}
        \cup {[Logical(a) EXCEPT !.when = now + heap[a].iv] : a \in {b \in ranA : heap[b].iv > 0}}

TQ == INSTANCE TimerQueue WITH Seqs <- Seqs, Times <- 0..(MaxWhen + MaxTime),
                               Intervals <- Intervals, now <- now, pending <- AbsPending

-----------------------------------------------------------------------------
TypeOK ==
    /\ now \in 0..MaxTime
    /\ heap \in [Addr -> Cell]
    /\ timers \subseteq Entry
    /\ batch \in Seq(Entry)
    /\ pos \in 1..(Len(batch) + 1)
    /\ phase \in {"idle", "run"}
    /\ nextSeq \in 0..MaxTimers
    /\ handles \subseteq Addr \X Seqs
    /\ cancelDone \subseteq Seqs /\ killed \subseteq Seqs

\* Every entry of m_timers is keyed by the current expiration of a live
\* Timer: what CannelInLoop's find(make_pair(timer->Expiration(), timer))
\* relies on (Insert, Reset's Restart-then-Insert, GetExpired's erase).
EntriesMatchTimers ==
    \A e \in timers : heap[e[2]].live /\ heap[e[2]].when = e[1]

\* TimerManager implements the timer queue: due timers fire earliest first,
\* repeating timers are re-armed at firing time plus interval (drift
\* correcting), and a removed timer never comes back.
Refines == TQ!Spec

\* Every timer due within the clock's range eventually fires or is
\* cancelled: once the clock has stopped, the loop's Schedule leaves no
\* pending timer due by MaxTime (a repeating one ends up re-armed past it).
DueTimersFire == <>[](\A t \in AbsPending : t.when > MaxTime)

\* The spec: timers are ordered by (due-time, sequence), so timers due at
\* the same instant fire in creation order.
SameInstantInSeqOrder ==
    \A i, j \in 1..Len(batch) :
        (i < j /\ batch[i][1] = batch[j][1]) => heap[batch[i][2]].seq < heap[batch[j][2]].seq

\* Cancelling a TimerId removes only the timer it was issued for.
CancelHitsTarget == killed \subseteq cancelDone

\* Once CannelInLoop has handled a cancel, that timer never runs again.
CancelStopsTimer ==
    [][(phase = "run" /\ pos' = pos + 1) => heap[batch[pos][2]].seq \notin cancelDone]_vars

=============================================================================
