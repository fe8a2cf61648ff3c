----------------------------- MODULE TimerQueue -----------------------------
(***************************************************************************)
(* What a loop's timer subsystem promises its users: a set of pending     *)
(* timers, each a record [seq, when, iv] (creation sequence, due time,    *)
(* repeat interval, 0 for a one-shot timer).  Due timers fire in          *)
(* ascending due-time order; a repeating timer is re-armed at its firing  *)
(* time plus its interval; cancel removes a pending timer.                 *)
(*                                                                         *)
(* The order among timers due at the same instant is left open here; the  *)
(* detailed module states the tie-break separately.                        *)
(***************************************************************************)
EXTENDS Naturals

CONSTANTS Seqs, Times, Intervals

VARIABLES now, pending

Timers == [seq : Seqs, when : Times, iv : Intervals]

\* A timer becomes pending (TimerManager::Insert).
Add(t) ==
    /\ t.seq \notin {u.seq : u \in pending}
    /\ pending' = pending \cup {t}
    /\ UNCHANGED now

Tick ==
    /\ now' = now + 1
    /\ UNCHANGED pending

\* The earliest due timer fires.
Fire(t) ==
    /\ t \in pending /\ t.when <= now
    /\ \A u \in pending : t.when <= u.when
    /\ pending' = (pending \ {t})
                  \cup (IF t.iv > 0 THEN {[t EXCEPT !.when = now + t.iv]} ELSE {})
    /\ UNCHANGED now

Cancel(t) ==
    /\ t \in pending
    /\ pending' = pending \ {t}
    /\ UNCHANGED now

Init == now = 0 /\ pending = {}

Next ==
    \/ \E t \in Timers : Add(t)
    \/ Tick
    \/ \E t \in pending : Fire(t) \/ Cancel(t)

Spec == Init /\ [][Next]_<<now, pending>>

=============================================================================
