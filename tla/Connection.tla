----------------------------- MODULE Connection -----------------------------
(***************************************************************************)
(* One accepted TcpConnection (src/buzz/TcpConnection.cpp) on its owning   *)
(* EventLoop (src/EventLoop.cpp), together with the parts of the loop it   *)
(* runs on: the epoll cycle (src/buzz/PollerEpoll.cpp), the dispatch of    *)
(* its Channel (src/Channel.cpp), the cross-thread task queue drained by   *)
(* the wakeup channel, and the timers that a delayed Close() arms.         *)
(*                                                                         *)
(* Actors: the loop thread; the application, calling SendMessage, Close    *)
(* and Shutdown either from a callback on the loop thread ("loop") or from *)
(* another thread ("foreign"); and the peer and kernel socket buffers.     *)
(*                                                                         *)
(* Bytes are abstracted to units <<m, i>>: the i-th unit of message m.     *)
(* A handler run on the loop thread is one atomic step: callbacks run to   *)
(* completion and the only state foreign threads touch is m_state (CAS)    *)
(* and the task queue (under its mutex).                                   *)
(***************************************************************************)
EXTENDS Naturals, Sequences, SequencesExt, FiniteSets

CONSTANTS
    Ctx,           \* contexts the application calls from, a subset of {"loop", "foreign"}
    MaxCalls,      \* bound on application API calls (also bounds message ids)
    MsgLen,        \* units per message
    SndBuf,        \* capacity of the kernel send buffer, in units
    MaxInbound,    \* bound on unread units the peer has sent us
    PeerMayReset   \* whether the peer may abort the connection (RST)

ASSUME /\ Ctx \subseteq {"loop", "foreign"} /\ Ctx # {}
       /\ MaxCalls \in Nat \ {0} /\ MsgLen \in Nat \ {0}
       /\ SndBuf \in Nat \ {0} /\ MaxInbound \in Nat \ {0}
       /\ PeerMayReset \in BOOLEAN

VARIABLES
    \* TcpConnection members
    state,        \* m_state
    interest,     \* m_channel->m_events, a subset of {"IN", "OUT"}
    outBuf,       \* m_output_buffer contents
    registry,     \* TcpServer::m_connections still holds the connection
    closeCbs,     \* number of times m_close_event_handler (RemoveConnection) ran
    accepted,     \* history: the bytes each SendBase handed to the byte stream, in order
    appHolds,     \* the application holds a TcpConnectionPtr
    \* socket and peer
    inbound,      \* units the peer sent that we have not read
    peerFin,      \* the peer half-closed (read returns 0 once inbound is empty)
    rst,          \* the peer reset the connection
    rstSeen,      \* a read has already returned ECONNRESET
    sndq,         \* kernel send buffer
    delivered,    \* units the peer has read, in order
    wrShut,       \* Socket::ShutdownWrite was called
    \* the owning EventLoop
    lpc,          \* "poll" | "dispatch" | "drain" | "timers" | "aborted"
    active,       \* channels of m_active_channel not yet dispatched
    revents,      \* m_revents recorded for the connection's channel by the last Poll
    tasks,        \* m_tasks: the BlockingQueue of marshalled callbacks
    pipe,         \* bytes in the wakeup pipe
    armed,        \* HandlerClose timers in TimerManager::m_timers
    expired,      \* timers extracted by GetExpired in the current Schedule
    ran,          \* how many of those have run
    \* application history
    calls, closeReq, shutdownReq,
    freed         \* messages whose caller storage is gone (freed, or reused)

hv == <<state, interest, outBuf, registry, closeCbs, accepted, appHolds,
        inbound, rstSeen, sndq, wrShut, armed>>
peerOnly == <<peerFin, rst, delivered>>
loopVars == <<lpc, active, revents, tasks, pipe, expired, ran>>
appVars == <<calls, closeReq, shutdownReq, freed>>
vars == <<hv, peerOnly, loopVars, appVars>>

States == {"Disconnected", "Connecting", "Connected", "Disconnecting"}
Events == {"IN", "OUT", "ERR", "HUP"}
Ops == {"ConnectEstablished", "SendBase", "HandlerClose", "HandlerShutdown", "InsertTimer"}
Task(op, m) == [op |-> op, msg |-> m]
\* Callbacks bound to the raw `this` rather than to shared_from_this().
RawTasks == {"SendBase", "HandlerShutdown"}
Units(m) == [i \in 1..MsgLen |-> <<m, i>>]
\* SendBase reads the message through the caller's pointer: once the
\* caller's storage is gone it reads whatever is there (message id 0).
Bytes(m) == IF m \in freed THEN Units(0) ELSE Units(m)
Space == SndBuf - Len(sndq)

\* The TcpConnection object exists while some shared pointer holds it: the
\* server's map, the application, a pending timer (the Timer owns a callback
\* bound to shared_from_this()), or a queued callback bound to one.
Alive ==
    \/ registry \/ appHolds \/ armed + expired > 0
    \/ \E i \in 1..Len(tasks) : tasks[i].op \notin RawTasks

-----------------------------------------------------------------------------
(* Handlers run on the loop thread; each changes only the variables hv.    *)

\* Channel::EnableRead, EnableWrite, EnableReadWrite: set or clear the
\* event in m_events; UpdateChannel then re-arms epoll with it.
EnableRead(ev, on) == IF on THEN ev \cup {"IN"} ELSE ev \ {"IN"}
EnableWrite(ev, on) == IF on THEN ev \cup {"OUT"} ELSE ev \ {"OUT"}
EnableReadWrite(ev, r, w) == EnableWrite(EnableRead(ev, r), w)

\* HandlerClose, with RunInLoop(m_close_event_handler) executed in place
\* (it is already on the loop thread): TcpServer::RemoveConnection erases
\* the map entry.  Its assert on m_state is compiled out (NDEBUG).
HandlerClose ==
    /\ state' = "Disconnected"
    /\ interest' = EnableReadWrite(interest, FALSE, FALSE)
    /\ registry' = FALSE
    /\ closeCbs' = closeCbs + 1
    /\ UNCHANGED <<outBuf, accepted, appHolds, inbound, rstSeen, sndq, wrShut, armed>>

\* The Connected state-change callback hands the application its handle.
ConnectEstablished ==
    /\ IF state = "Connecting"
          THEN /\ state' = "Connected"
               /\ interest' = EnableRead(interest, TRUE)
               /\ appHolds' = TRUE
          ELSE UNCHANGED <<state, interest, appHolds>>
    /\ UNCHANGED <<outBuf, registry, closeCbs, accepted, inbound, rstSeen, sndq, wrShut, armed>>

HandlerShutdown ==
    /\ wrShut' = (wrShut \/ "IN" \notin interest)
    /\ UNCHANGED <<state, interest, outBuf, registry, closeCbs, accepted, appHolds,
                   inbound, rstSeen, armed, sndq>>

CanWrite == ~rst /\ ~wrShut /\ Space > 0
\* errno of a ::write that fails
WriteErrors == IF rst THEN {"ECONNRESET", "EPIPE"}
               ELSE IF wrShut THEN {"EPIPE"} ELSE {"EAGAIN"}
\* Append the unwritten remainder and enable write interest.
Backlog(rest) ==
    /\ outBuf' = outBuf \o rest
    /\ interest' = EnableWrite(interest, TRUE)
Direct == "OUT" \notin interest /\ outBuf = <<>>
\* Mutant: the remainder is taken from messgae + nwtote - 1.
RemainderOffByOne(m, n) == SubSeq(Bytes(m), n, MsgLen)
\* What is left of message m after ::write took n units of it.
Remainder(m, n) == SubSeq(Bytes(m), n + 1, MsgLen)

SendBase(m) ==
    \/ /\ state = "Disconnected"
       /\ UNCHANGED hv
    \/ /\ state # "Disconnected"
       /\ \/ ~Direct
          \/ Direct /\ ~CanWrite /\ \E err \in WriteErrors : err # "ECONNRESET"
       /\ Backlog(Bytes(m))
       /\ accepted' = Append(accepted, Bytes(m))
       /\ UNCHANGED <<state, registry, closeCbs, appHolds, inbound, rstSeen, sndq, wrShut, armed>>
    \/ /\ state # "Disconnected" /\ Direct /\ CanWrite
       /\ LET n == Min({MsgLen, Space}) IN
            /\ sndq' = sndq \o SubSeq(Bytes(m), 1, n)
            /\ IF n < MsgLen THEN Backlog(Remainder(m, n))
                             ELSE UNCHANGED <<outBuf, interest>>
       /\ accepted' = Append(accepted, Bytes(m))
       /\ UNCHANGED <<state, registry, closeCbs, appHolds, inbound, rstSeen, wrShut, armed>>
    \* fault_error: the message is dropped
    \/ /\ state # "Disconnected" /\ Direct /\ ~CanWrite
       /\ "ECONNRESET" \in WriteErrors
       /\ UNCHANGED hv

HandleWrite ==
    \/ /\ "OUT" \in interest /\ CanWrite /\ outBuf # <<>>
       /\ LET n == Min({Len(outBuf), Space}) IN
            /\ sndq' = sndq \o SubSeq(outBuf, 1, n)
            /\ outBuf' = SubSeq(outBuf, n + 1, Len(outBuf))
            /\ interest' = IF n = Len(outBuf) THEN EnableWrite(interest, FALSE) ELSE interest
       \* then `if (m_state == kDisconnecting) Shutdown()`: its CAS expects
       \* kConnected, so in kDisconnecting it changes nothing
       /\ UNCHANGED <<state, registry, closeCbs, accepted, appHolds, inbound, rstSeen, wrShut, armed>>
    \* write interest is off, or ::write failed and is only logged
    \/ /\ ~("OUT" \in interest /\ CanWrite /\ outBuf # <<>>)
       /\ UNCHANGED hv

PendingReset == rst /\ ~rstSeen

\* Mutant: a read of 0 bytes is taken for EAGAIN instead of a peer close.
HandleReadIgnoresEof ==
    \/ /\ PendingReset
       /\ rstSeen' = TRUE
       /\ UNCHANGED <<state, interest, outBuf, registry, closeCbs, accepted, appHolds,
                      inbound, sndq, wrShut, armed>>
    \/ /\ ~PendingReset /\ inbound > 0
       /\ inbound' = 0
       /\ UNCHANGED <<state, interest, outBuf, registry, closeCbs, accepted, appHolds,
                      rstSeen, sndq, wrShut, armed>>
    \/ /\ ~PendingReset /\ inbound = 0
       /\ UNCHANGED hv

HandleRead ==
    \* readv fails with ECONNRESET: the error callback runs, nothing else
    \/ /\ PendingReset
       /\ rstSeen' = TRUE
       /\ UNCHANGED <<state, interest, outBuf, registry, closeCbs, accepted, appHolds,
                      inbound, sndq, wrShut, armed>>
    \* n > 0: the message callback gets the input buffer
    \/ /\ ~PendingReset /\ inbound > 0
       /\ inbound' = 0
       /\ UNCHANGED <<state, interest, outBuf, registry, closeCbs, accepted, appHolds,
                      rstSeen, sndq, wrShut, armed>>
    \* n == 0
    \/ /\ ~PendingReset /\ inbound = 0 /\ (peerFin \/ rst)
       /\ HandlerClose
    \* EAGAIN
    \/ /\ ~PendingReset /\ inbound = 0 /\ ~peerFin /\ ~rst
       /\ UNCHANGED hv

Exec(t) ==
    CASE t.op = "ConnectEstablished" -> ConnectEstablished
      [] t.op = "SendBase"           -> SendBase(t.msg)
      [] t.op = "HandlerClose"       -> HandlerClose
      [] t.op = "HandlerShutdown"    -> HandlerShutdown
      [] t.op = "InsertTimer"        ->
            /\ armed' = armed + 1
            /\ UNCHANGED <<state, interest, outBuf, registry, closeCbs, accepted, appHolds,
                           inbound, rstSeen, sndq, wrShut>>

-----------------------------------------------------------------------------
(* The owning loop: EventLoop::Loop, one action per step of its cycle.     *)

\* LOG(FATAL), or a dereference of freed memory: the process stops.
Abort ==
    /\ lpc' = "aborted"
    /\ UNCHANGED hv

\* What epoll reports for the connection's descriptor.  EPOLLERR and
\* EPOLLHUP are reported whatever m_events asks for.
Ready(e) ==
    CASE e = "IN"  -> "IN" \in interest /\ (inbound > 0 \/ peerFin \/ rst)
      [] e = "OUT" -> "OUT" \in interest /\ (Space > 0 \/ rst \/ wrShut)
      [] e = "ERR" -> rst
      [] e = "HUP" -> rst \/ (wrShut /\ peerFin)
ConnRevents == IF Alive THEN {e \in Events : Ready(e)} ELSE {}

\* NearEndTime, then PollerEpoll::Poll: every ready descriptor, or none
\* once the timeout (nearest timer, at most 5 s) runs out.
Poll ==
    /\ lpc = "poll"
    /\ revents' = ConnRevents
    /\ active' = {c \in {"wakeup", "conn"} :
                    \/ c = "wakeup" /\ pipe > 0
                    \/ c = "conn" /\ ConnRevents # {}}
    /\ lpc' = "dispatch"
    /\ UNCHANGED <<hv, peerOnly, tasks, pipe, expired, ran, appVars>>

\* The wakeup channel's read callback: read the pipe, then drain m_tasks.
DispatchWakeup ==
    /\ lpc = "dispatch" /\ "wakeup" \in active
    /\ active' = active \ {"wakeup"}
    /\ pipe' = 0
    /\ lpc' = "drain"
    /\ UNCHANGED <<hv, peerOnly, revents, tasks, expired, ran, appVars>>

DrainTask ==
    /\ lpc = "drain" /\ tasks # <<>>
    /\ tasks' = Tail(tasks)
    /\ \/ Head(tasks).op \in RawTasks /\ ~Alive /\ Abort
       \/ ~(Head(tasks).op \in RawTasks /\ ~Alive) /\ Exec(Head(tasks)) /\ UNCHANGED lpc
    /\ UNCHANGED <<peerOnly, active, revents, pipe, expired, ran, appVars>>

DrainEnd ==
    /\ lpc = "drain" /\ tasks = <<>>
    /\ lpc' = "dispatch"
    /\ UNCHANGED <<hv, peerOnly, active, revents, tasks, pipe, expired, ran, appVars>>

\* Channel::HandleEvent with the revents recorded at Poll time.
DispatchConn ==
    /\ lpc = "dispatch" /\ "conn" \in active
    /\ active' = active \ {"conn"}
    /\ \/ ~Alive /\ Abort
       \/ Alive /\ "IN" \in revents /\ HandleRead /\ UNCHANGED lpc
       \/ Alive /\ "IN" \notin revents /\ "OUT" \in revents /\ HandleWrite /\ UNCHANGED lpc
       \/ Alive /\ revents \cap {"IN", "OUT"} = {} /\ Abort
    /\ UNCHANGED <<peerOnly, revents, tasks, pipe, expired, ran, appVars>>

\* TimerManager::Schedule: GetExpired extracts the k timers that are due.
StartSchedule(k) ==
    /\ lpc = "dispatch" /\ active = {}
    /\ armed' = armed - k
    /\ expired' = k
    /\ lpc' = "timers"
    /\ UNCHANGED <<state, interest, outBuf, registry, closeCbs, accepted, appHolds,
                   inbound, rstSeen, sndq, wrShut, peerOnly, active, revents, tasks,
                   pipe, ran, appVars>>

\* Mutant: the loop over the expired vector runs while i <= size().
FireTimerPastEnd ==
    /\ lpc = "timers" /\ ran <= expired
    /\ ran' = ran + 1
    /\ HandlerClose
    /\ UNCHANGED <<peerOnly, lpc, active, revents, tasks, pipe, expired, appVars>>

\* for (auto& it : expired) it.second->Run(): the timer's HandlerClose.
FireTimer ==
    /\ lpc = "timers" /\ ran < expired
    /\ ran' = ran + 1
    /\ HandlerClose
    /\ UNCHANGED <<peerOnly, lpc, active, revents, tasks, pipe, expired, appVars>>

\* Reset: one-shot timers are deleted, dropping their shared pointers.
EndSchedule ==
    /\ lpc = "timers" /\ ran = expired
    /\ expired' = 0 /\ ran' = 0
    /\ lpc' = "poll"
    /\ UNCHANGED <<hv, peerOnly, active, revents, tasks, pipe, appVars>>

-----------------------------------------------------------------------------
(* The application.  A "loop" call runs inside a callback of the loop      *)
(* thread (an application timer, at Schedule time); a "foreign" call runs  *)
(* on another thread while the loop does anything.                         *)

CanCall(ctx) ==
    /\ ctx \in Ctx /\ appHolds /\ calls < MaxCalls
    /\ lpc # "aborted"
    /\ ctx = "loop" => lpc = "timers"

\* EventLoop::RunInLoop from a foreign thread: m_tasks.Put, then Wakeup.
Enqueue(t) ==
    /\ tasks' = Append(tasks, t)
    /\ pipe' = pipe + 1

SendMessage(ctx) ==
    /\ CanCall(ctx)
    /\ calls' = calls + 1
    /\ \/ state # "Connected" /\ UNCHANGED <<hv, tasks, pipe>>
       \/ state = "Connected" /\ ctx = "loop" /\ SendBase(calls + 1) /\ UNCHANGED <<tasks, pipe>>
       \/ state = "Connected" /\ ctx = "foreign" /\ Enqueue(Task("SendBase", calls + 1))
          /\ UNCHANGED hv
    /\ UNCHANGED <<peerOnly, lpc, active, revents, expired, ran, closeReq, shutdownReq, freed>>

\* The caller's message storage goes away once SendMessage has returned:
\* SendMessage(Buffer*) calls RetrieveAll, so the next append may reuse
\* the bytes; a std::string or a raw buffer may be destroyed or reused.
\* Only messages a queued SendBase still points at are tracked.
CallerFree(m) ==
    /\ lpc # "aborted" /\ m \notin freed
    /\ \E i \in 1..Len(tasks) : tasks[i] = Task("SendBase", m)
    /\ freed' = freed \cup {m}
    /\ UNCHANGED <<hv, peerOnly, loopVars, calls, closeReq, shutdownReq>>

\* Close(seconds): delay "now" runs HandlerClose, "later" arms a timer
\* through RunAfter -> AddTimer -> RunInLoop(Insert).
\* Mutant: the CAS pair is replaced by a check that m_state is not kConnecting.
CloseCasAnyState == state # "Connecting"
\* The two compare_exchange_strong calls of Close(): one of them succeeds.
CloseCas == state \in {"Connected", "Disconnecting"}

Close(ctx, delay) ==
    /\ CanCall(ctx)
    /\ calls' = calls + 1
    /\ closeReq' = TRUE
    /\ \/ ~CloseCas /\ UNCHANGED <<hv, tasks, pipe>>
       \/ /\ CloseCas /\ ctx = "loop" /\ delay = "now"
          /\ HandlerClose /\ UNCHANGED <<tasks, pipe>>
       \/ /\ CloseCas /\ ctx = "loop" /\ delay = "later"
          /\ state' = "Disconnecting" /\ armed' = armed + 1
          /\ UNCHANGED <<interest, outBuf, registry, closeCbs, accepted, appHolds,
                         inbound, rstSeen, sndq, wrShut, tasks, pipe>>
       \/ /\ CloseCas /\ ctx = "foreign"
          /\ state' = "Disconnecting"
          /\ Enqueue(Task(IF delay = "now" THEN "HandlerClose" ELSE "InsertTimer", 0))
          /\ UNCHANGED <<interest, outBuf, registry, closeCbs, accepted, appHolds,
                         inbound, rstSeen, sndq, wrShut, armed>>
    /\ UNCHANGED <<peerOnly, lpc, active, revents, expired, ran, shutdownReq, freed>>

Shutdown(ctx) ==
    /\ CanCall(ctx)
    /\ calls' = calls + 1
    /\ shutdownReq' = TRUE
    /\ \/ state # "Connected" /\ UNCHANGED <<hv, tasks, pipe>>
       \/ /\ state = "Connected" /\ ctx = "loop"
          /\ state' = "Disconnecting"
          /\ wrShut' = (wrShut \/ "IN" \notin interest)
          /\ UNCHANGED <<interest, outBuf, registry, closeCbs, accepted, appHolds,
                         inbound, rstSeen, sndq, armed, tasks, pipe>>
       \/ /\ state = "Connected" /\ ctx = "foreign"
          /\ state' = "Disconnecting"
          /\ Enqueue(Task("HandlerShutdown", 0))
          /\ UNCHANGED <<interest, outBuf, registry, closeCbs, accepted, appHolds,
                         inbound, rstSeen, sndq, wrShut, armed>>
    /\ UNCHANGED <<peerOnly, lpc, active, revents, expired, ran, closeReq, freed>>

AppRelease ==
    /\ appHolds /\ lpc # "aborted"
    /\ appHolds' = FALSE
    /\ UNCHANGED <<state, interest, outBuf, registry, closeCbs, accepted, inbound,
                   rstSeen, sndq, wrShut, armed, peerOnly, loopVars, appVars>>

-----------------------------------------------------------------------------
(* The peer and the kernel.  Once the object is destroyed its descriptor   *)
(* is closed and nothing of it matters any more.                           *)

PeerCan == Alive /\ ~rst /\ lpc # "aborted"

PeerSend ==
    /\ PeerCan /\ ~peerFin /\ inbound < MaxInbound
    /\ inbound' = inbound + 1
    /\ UNCHANGED <<state, interest, outBuf, registry, closeCbs, accepted, appHolds,
                   rstSeen, sndq, wrShut, armed, peerOnly, loopVars, appVars>>

PeerFin ==
    /\ PeerCan /\ ~peerFin
    /\ peerFin' = TRUE
    /\ UNCHANGED <<hv, rst, delivered, loopVars, appVars>>

PeerRead ==
    /\ PeerCan /\ sndq # <<>>
    /\ delivered' = Append(delivered, Head(sndq))
    /\ sndq' = Tail(sndq)
    /\ UNCHANGED <<state, interest, outBuf, registry, closeCbs, accepted, appHolds,
                   inbound, rstSeen, wrShut, armed, peerFin, rst, loopVars, appVars>>

\* RST discards what either side had not read yet.
PeerReset ==
    /\ PeerMayReset /\ PeerCan
    /\ rst' = TRUE
    /\ inbound' = 0
    /\ sndq' = <<>>
    /\ UNCHANGED <<state, interest, outBuf, registry, closeCbs, accepted, appHolds,
                   rstSeen, wrShut, armed, peerFin, delivered, loopVars, appVars>>

-----------------------------------------------------------------------------
(* TcpServer::NewConnection has built the connection (m_state kConnecting, *)
(* channel registered with kNoneEvent, map entry added) and, from the      *)
(* acceptor thread, queued ConnectEstablished on this loop.                *)
Init ==
    /\ state = "Connecting"
    /\ interest = {}
    /\ outBuf = <<>>
    /\ registry = TRUE
    /\ closeCbs = 0
    /\ accepted = <<>>
    /\ appHolds = FALSE
    /\ inbound = 0
    /\ peerFin = FALSE
    /\ rst = FALSE
    /\ rstSeen = FALSE
    /\ sndq = <<>>
    /\ delivered = <<>>
    /\ wrShut = FALSE
    /\ lpc = "poll"
    /\ active = {}
    /\ revents = {}
    /\ tasks = <<Task("ConnectEstablished", 0)>>
    /\ pipe = 1
    /\ armed = 0
    /\ expired = 0
    /\ ran = 0
    /\ calls = 0
    /\ closeReq = FALSE
    /\ shutdownReq = FALSE
    /\ freed = {}

ScheduleNone == StartSchedule(0)
ScheduleDue == \E k \in 1..armed : StartSchedule(k)

LoopStep ==
    \/ Poll \/ DispatchWakeup \/ DrainTask \/ DrainEnd \/ DispatchConn
    \/ ScheduleNone \/ ScheduleDue \/ FireTimer \/ EndSchedule

AppStep ==
    \E ctx \in Ctx :
        \/ SendMessage(ctx)
        \/ \E d \in {"now", "later"} : Close(ctx, d)
        \/ Shutdown(ctx)
    \/ \E m \in 1..MaxCalls : CallerFree(m)

PeerStep == PeerSend \/ PeerFin \/ PeerRead \/ PeerReset

Next == LoopStep \/ AppStep \/ AppRelease \/ PeerStep

\* The loop thread never stops (Poll always returns within its timeout);
\* the clock advances, so a timer that keeps being checked becomes due;
\* the peer keeps reading what we send.
Fairness ==
    /\ WF_vars(LoopStep)
    /\ SF_vars(ScheduleDue)
    /\ WF_vars(PeerRead)

Spec == Init /\ [][Next]_vars /\ Fairness

-----------------------------------------------------------------------------
TypeOK ==
    /\ state \in States
    /\ interest \subseteq {"IN", "OUT"}
    /\ outBuf \in Seq((0..MaxCalls) \X (1..MsgLen))
    /\ registry \in BOOLEAN /\ appHolds \in BOOLEAN
    /\ closeCbs \in Nat
    /\ accepted \in Seq(Seq((0..MaxCalls) \X (1..MsgLen)))
    /\ inbound \in 0..MaxInbound
    /\ peerFin \in BOOLEAN /\ rst \in BOOLEAN /\ rstSeen \in BOOLEAN /\ wrShut \in BOOLEAN
    /\ sndq \in Seq((0..MaxCalls) \X (1..MsgLen)) /\ Len(sndq) <= SndBuf
    /\ delivered \in Seq((0..MaxCalls) \X (1..MsgLen))
    /\ lpc \in {"poll", "dispatch", "drain", "timers", "aborted"}
    /\ active \subseteq {"wakeup", "conn"}
    /\ revents \subseteq Events
    /\ tasks \in Seq([op : Ops, msg : 0..MaxCalls])
    /\ pipe \in Nat /\ armed \in Nat /\ expired \in Nat /\ ran \in 0..expired
    /\ calls \in 0..MaxCalls /\ closeReq \in BOOLEAN /\ shutdownReq \in BOOLEAN
    /\ freed \subseteq 1..MaxCalls

\* The byte stream: what the peer has read, then the kernel send buffer,
\* then m_output_buffer, is exactly the bytes the SendBase calls took from
\* their callers' pointers, in the order the calls ran, each contiguous,
\* none lost or repeated (SendBase's partial writes and remainders,
\* HandleWrite's drains).  After a reset the kernel drops data, and the
\* peer has still read only a prefix.  Whether those bytes are still the
\* caller's message is NoUseAfterFree's question.
StreamIntact ==
    LET stream == FlattenSeq(accepted)
    IN  /\ IsPrefix(delivered, stream)
        /\ ~rst => delivered \o sndq \o outBuf = stream

\* m_state only moves along the state machine's edges (every CAS, the
\* plain store in HandlerClose): Disconnected is terminal.
Edges == {<<"Connecting", "Connected">>, <<"Connected", "Disconnecting">>,
          <<"Connected", "Disconnected">>, <<"Disconnecting", "Disconnected">>}
StateTransitions == [][state' # state => <<state, state'>> \in Edges]_state

\* Close() from the application, or the peer closing, eventually drives the
\* connection to Disconnected (HandlerClose, queued, timed or on read 0),
\* unless the process aborts first.
CloseLeadsToDisconnected ==
    (closeReq \/ peerFin) ~> (state = "Disconnected" \/ lpc = "aborted")

\* The close notification (RemoveConnection) fires at most once.
CloseNotifiedOnce == closeCbs <= 1

\* After Shutdown() the connection eventually half-closes its write side
\* (or is closed altogether), as the spec of shutdown() says.
ShutdownHalfCloses ==
    shutdownReq ~> (wrShut \/ state = "Disconnected")

\* Pending output eventually drains to the kernel while the connection stays
\* up and the peer keeps reading (back-pressure driven by write readiness).
OutputDrains ==
    outBuf # <<>> ~> (outBuf = <<>> \/ state = "Disconnected" \/ rst)

\* Channel::HandleEvent is only handed readiness with IN or OUT in it; any
\* other set is its LOG(FATAL) branch.
NoFatalDispatch ==
    "conn" \in active => revents \cap {"IN", "OUT"} # {}

\* Nothing dereferences freed memory: once the TcpConnection is destroyed
\* no callback bound to its raw this is queued and its Channel is not in
\* the list of channels still to dispatch; and no queued SendBase holds a
\* pointer to message bytes its caller has already released (SendMessage
\* binds the raw `const void*` of a foreign caller's message).
NoUseAfterFree ==
    /\ ~Alive => /\ "conn" \notin active
                 /\ \A i \in 1..Len(tasks) : tasks[i].op \notin RawTasks
    /\ \A i \in 1..Len(tasks) : tasks[i].op = "SendBase" => tasks[i].msg \notin freed

=============================================================================
