------------------------------- MODULE Server -------------------------------
(***************************************************************************)
(* TcpServer (src/buzz/TcpServer.cpp) with its EventLoopThreadPoll         *)
(* (src/buzz/EventLoopThreadPoll.cpp).  Thread 0 runs the base loop: it    *)
(* starts the pool, accepts, and owns m_connections.  Threads 1..PoolSize  *)
(* are the io loops; each accepted connection lives on the loop Get()      *)
(* hands out.                                                              *)
(*                                                                         *)
(* m_connections is a std::map with no lock.  NewConnection writes it on   *)
(* thread 0; RemoveConnection, the close callback that HandlerClose runs   *)
(* in place on the io thread, erases from it.  A map update is modelled as *)
(* a read of the map into a thread-local copy followed by a write of the   *)
(* updated copy: when two threads overlap, one update is lost, which is    *)
(* one outcome of the data race.                                           *)
(* Each io loop's PollerEpoll keeps its channels in m_channels, a std::set *)
(* with no lock either: the TcpConnection constructor adds to it on thread *)
(* 0, and the destructor removes from it on the io thread.                 *)
(*                                                                         *)
(* A task queued on an io loop by RunInLoop runs eventually: EventLoop.tla *)
(* shows that the wakeup is never lost.                                    *)
(***************************************************************************)
EXTENDS Naturals, FiniteSets

CONSTANTS
    PoolSize,   \* Start(poll_size)
    MaxConns    \* connections accepted

ASSUME PoolSize \in Nat /\ MaxConns \in Nat \ {0}

Threads == 0..PoolSize
IoThreads == 1..PoolSize
Conns == 1..MaxConns
Idle == [kind |-> "idle"]

VARIABLES
    spc,      \* thread 0: "start" | "wait" (in GetLoop) | "serve"
    made,     \* m_threads.size()
    got,      \* m_event_loops.size()
    tpc,      \* io thread: "none" | "spawned" (constructing its EventLoop) | "loop"
    waiting,  \* thread 0 is blocked in m_cond.wait
    rr,       \* the pool's m_id
    nextId,   \* the server's m_id
    cstate,   \* m_state of each connection, "none" before it is built
    loopOf,   \* m_owner_loop of each connection
    tasks,    \* ConnectEstablished tasks queued on each io loop
    conns,    \* the keys of m_connections
    busy,     \* a map update in progress on each thread, with its copy
    added,    \* history: connections whose insert completed
    erased,   \* history: connections whose erase completed
    chans,    \* the connection channels in each io loop's PollerEpoll m_channels
    regd,     \* history: channels whose AddChannel completed
    unregd    \* history: channels whose RemoveChannel completed

vars == <<spc, made, got, tpc, waiting, rr, nextId, cstate, loopOf, tasks,
          conns, busy, added, erased, chans, regd, unregd>>

poller == <<chans, regd, unregd>>

Running(t) == IF t = 0 THEN spc = "serve" ELSE tpc[t] = "loop"

\* EventLoopThreadPoll::Get: round robin over the started loops, or the
\* base loop when the pool is empty.
Get == IF PoolSize = 0 THEN 0 ELSE (rr % PoolSize) + 1

-----------------------------------------------------------------------------
(* Thread 0: EventLoopThreadPoll::Start, one EventLoopThread::GetLoop per  *)
(* io thread.                                                              *)

\* Mutant: the loop runs for i <= poll_size.
StartSpawnOffByOne ==
    /\ spc = "start" /\ made <= PoolSize
    /\ made' = made + 1
    /\ tpc' = [tpc EXCEPT ![made + 1] = "spawned"]
    /\ spc' = "wait"
    /\ UNCHANGED <<got, waiting, rr, nextId, cstate, loopOf, tasks, conns, busy, added, erased, poller>>

\* new EventLoopThread, then GetLoop spawns its thread.
StartSpawn ==
    /\ spc = "start" /\ made < PoolSize
    /\ made' = made + 1
    /\ tpc' = [tpc EXCEPT ![made + 1] = "spawned"]
    /\ spc' = "wait"
    /\ UNCHANGED <<got, waiting, rr, nextId, cstate, loopOf, tasks, conns, busy, added, erased, poller>>

\* m_cond.wait(lock, [this] { return m_loop; }) under m_mutex: return the
\* published loop, or block until notified and test again.
GetLoopWait ==
    /\ spc = "wait" /\ ~waiting
    /\ IF tpc[made] = "loop"
       THEN got' = got + 1 /\ spc' = "start" /\ UNCHANGED waiting
       ELSE waiting' = TRUE /\ UNCHANGED <<got, spc>>
    /\ UNCHANGED <<made, tpc, rr, nextId, cstate, loopOf, tasks, conns, busy, added, erased, poller>>

StartEnd ==
    /\ spc = "start" /\ made = PoolSize
    /\ spc' = "serve"
    /\ UNCHANGED <<made, got, tpc, waiting, rr, nextId, cstate, loopOf, tasks, conns, busy, added, erased, poller>>

\* Mutant: m_loop is published without notify_one.
ThreadInitNoNotify(t) ==
    /\ tpc[t] = "spawned"
    /\ tpc' = [tpc EXCEPT ![t] = "loop"]
    /\ UNCHANGED <<spc, made, got, waiting, rr, nextId, cstate, loopOf, tasks, conns, busy, added, erased, poller>>

\* The io thread: constructs its EventLoop, sets m_loop under m_mutex,
\* notify_one, then Loop().
ThreadInit(t) ==
    /\ tpc[t] = "spawned"
    /\ tpc' = [tpc EXCEPT ![t] = "loop"]
    /\ waiting' = FALSE
    /\ UNCHANGED <<spc, made, got, rr, nextId, cstate, loopOf, tasks, conns, busy, added, erased, poller>>

-----------------------------------------------------------------------------
(* Thread 0: TcpServer::NewConnection on a successful accept.              *)

\* Channel's constructor, on the constructing thread: m_poller is the
\* loop's poller, and AddChannel(this) reads its m_channels.
Channel(c, l) ==
    busy' = [busy EXCEPT ![0] = [kind |-> "add", c |-> c, copy |-> chans[l]]]

\* TcpConnection's constructor: m_owner_loop is the io loop, m_state is
\* kConnecting, and m_channel is a new Channel on the io loop.
TcpConnection(c, l) ==
    /\ cstate' = [cstate EXCEPT ![c] = "Connecting"]
    /\ loopOf' = [loopOf EXCEPT ![c] = l]
    /\ Channel(c, l)

\* Get's m_id++, done only when the pool has loops.
NextRr(r) == IF PoolSize = 0 THEN r ELSE r + 1

\* The name takes m_id++, Get picks the io loop, and the TcpConnection
\* constructor starts in kConnecting: its Channel's constructor calls
\* AddChannel on the io loop's poller, which reads m_channels on this thread.
NewConnection ==
    /\ spc = "serve" /\ busy[0] = Idle /\ nextId < MaxConns
    /\ TcpConnection(nextId + 1, Get)
    /\ nextId' = nextId + 1
    /\ rr' = NextRr(rr)
    /\ UNCHANGED <<spc, made, got, tpc, waiting, tasks, conns, added, erased, poller>>

\* AddChannel: epoll_ctl ADD, then m_channels.insert completes; the
\* constructor returns and m_connections[conn_name] reads the map.
AddChannel ==
    /\ busy[0].kind = "add"
    /\ LET c == busy[0].c IN
         /\ chans' = [chans EXCEPT ![loopOf[c]] = busy[0].copy \cup {c}]
         /\ regd' = regd \cup {c}
         /\ busy' = [busy EXCEPT ![0] = [kind |-> "insert", c |-> c, copy |-> conns]]
    /\ UNCHANGED <<spc, made, got, tpc, waiting, rr, nextId, cstate, loopOf, tasks,
                   conns, added, erased, unregd>>

\* The map write completes; the handlers are copied in; then
\* io_loop->RunInLoop(ConnectEstablished): in place when the io loop is the
\* base loop, where ConnectEstablished's own RunInLoop also runs in place.
InsertConnection ==
    /\ busy[0].kind = "insert"
    /\ LET c == busy[0].c IN
         /\ conns' = busy[0].copy \cup {c}
         /\ added' = added \cup {c}
         /\ IF loopOf[c] = 0
            THEN cstate' = [cstate EXCEPT ![c] = "Connected"] /\ UNCHANGED tasks
            ELSE tasks' = [tasks EXCEPT ![loopOf[c]] = @ \cup {c}] /\ UNCHANGED cstate
    /\ busy' = [busy EXCEPT ![0] = Idle]
    /\ UNCHANGED <<spc, made, got, tpc, waiting, rr, nextId, loopOf, erased, poller>>

-----------------------------------------------------------------------------
(* An io loop (thread 0 too when the pool is empty).                       *)

\* The queued ConnectEstablished: its lambda runs in place and moves
\* kConnecting to kConnected by CAS, then EnableRead.
ConnectEstablished(t, c) ==
    /\ Running(t) /\ busy[t] = Idle /\ c \in tasks[t]
    /\ tasks' = [tasks EXCEPT ![t] = @ \ {c}]
    /\ cstate' = [cstate EXCEPT ![c] = IF @ = "Connecting" THEN "Connected" ELSE @]
    /\ UNCHANGED <<spc, made, got, tpc, waiting, rr, nextId, loopOf, conns, busy, added, erased, poller>>

\* The peer closes: HandleRead reads 0, HandlerClose sets kDisconnected and
\* runs the close callback in place: RemoveConnection reads the map.
HandlerClose(t, c) ==
    /\ Running(t) /\ busy[t] = Idle
    /\ loopOf[c] = t /\ cstate[c] = "Connected"
    /\ cstate' = [cstate EXCEPT ![c] = "Disconnected"]
    /\ busy' = [busy EXCEPT ![t] = [kind |-> "erase", c |-> c, copy |-> conns]]
    /\ UNCHANGED <<spc, made, got, tpc, waiting, rr, nextId, loopOf, tasks, conns, added, erased, poller>>

\* ~Channel, run on the io thread: RemoveChannel(this) reads m_channels.
ChannelDestroy(t, c) ==
    busy' = [busy EXCEPT ![t] = [kind |-> "remove", c |-> c, copy |-> chans[t]]]

\* m_connections.erase(conn->Name()) completes and drops the map's
\* reference.  The model takes the map's reference and HandlerClose's
\* guard_this to be the only ones (reference counts are not modelled; an
\* application holding a TcpConnectionPtr only delays what follows): on
\* return the TcpConnection is destroyed, and with it its Channel.
RemoveConnection(t) ==
    /\ busy[t].kind = "erase"
    /\ conns' = busy[t].copy \ {busy[t].c}
    /\ erased' = erased \cup {busy[t].c}
    /\ ChannelDestroy(t, busy[t].c)
    /\ UNCHANGED <<spc, made, got, tpc, waiting, rr, nextId, cstate, loopOf, tasks, added, poller>>

\* RemoveChannel: epoll_ctl DEL, then m_channels.erase completes.
RemoveChannel(t) ==
    /\ busy[t].kind = "remove"
    /\ chans' = [chans EXCEPT ![t] = busy[t].copy \ {busy[t].c}]
    /\ unregd' = unregd \cup {busy[t].c}
    /\ busy' = [busy EXCEPT ![t] = Idle]
    /\ UNCHANGED <<spc, made, got, tpc, waiting, rr, nextId, cstate, loopOf, tasks,
                   conns, added, erased, regd>>

-----------------------------------------------------------------------------
\* EventLoopThreadPoll's constructor: no threads, no loops, m_id = 0.
PoolInit ==
    /\ made = 0 /\ got = 0 /\ rr = 0
    /\ tpc = [t \in IoThreads |-> "none"]
    /\ waiting = FALSE

\* TcpServer's constructor, then Start called on the base loop's thread.
Init ==
    /\ spc = "start" /\ PoolInit /\ nextId = 0
    /\ cstate = [c \in Conns |-> "none"]
    /\ loopOf = [c \in Conns |-> 0]
    /\ tasks = [t \in Threads |-> {}]
    /\ conns = {}
    /\ busy = [t \in Threads |-> Idle]
    /\ added = {} /\ erased = {}
    /\ chans = [t \in Threads |-> {}]
    /\ regd = {} /\ unregd = {}

BaseStep == StartSpawn \/ GetLoopWait \/ StartEnd \/ AddChannel \/ InsertConnection

LoopStep(t) ==
    \/ \E c \in Conns : ConnectEstablished(t, c)
    \/ RemoveConnection(t)
    \/ RemoveChannel(t)

Next ==
    \/ BaseStep \/ NewConnection
    \/ \E t \in IoThreads : ThreadInit(t)
    \/ \E t \in Threads : LoopStep(t) \/ \E c \in Conns : HandlerClose(t, c)

\* Every thread keeps running its own steps; accepts and peer closes are
\* up to the clients.
Fairness ==
    /\ WF_vars(BaseStep)
    /\ \A t \in IoThreads : WF_vars(ThreadInit(t))
    /\ \A t \in Threads : WF_vars(LoopStep(t))

Spec == Init /\ [][Next]_vars /\ Fairness

-----------------------------------------------------------------------------
TypeOK ==
    /\ spc \in {"start", "wait", "serve"}
    /\ made \in 0..PoolSize /\ got \in 0..PoolSize
    /\ tpc \in [IoThreads -> {"none", "spawned", "loop"}]
    /\ waiting \in BOOLEAN
    /\ rr \in Nat /\ nextId \in 0..MaxConns
    /\ cstate \in [Conns -> {"none", "Connecting", "Connected", "Disconnected"}]
    /\ loopOf \in [Conns -> Threads]
    /\ tasks \in [Threads -> SUBSET Conns]
    /\ conns \subseteq Conns /\ added \subseteq Conns /\ erased \subseteq Conns
    /\ chans \in [Threads -> SUBSET Conns]
    /\ regd \subseteq Conns /\ unregd \subseteq Conns

\* Start returns: the GetLoop handshake of every io thread completes, however
\* the thread's publish of m_loop and the caller's wait interleave.
StartReturns == <>(spc = "serve")

\* Whenever no thread is in the middle of a map update, m_connections holds
\* exactly the connections inserted by NewConnection and not yet erased by
\* RemoveConnection.
ConnectionsTracked ==
    (\A t \in Threads : busy[t] = Idle) => conns = added \ erased

\* Whenever no thread is in the middle of a set update, each io loop's
\* PollerEpoll m_channels holds exactly the channels of its connections
\* that AddChannel registered (in the TcpConnection constructor, on the
\* accepting thread) and RemoveChannel has not yet removed (in the
\* destructor, on the io thread).  ~PollerEpoll deletes every channel left
\* in the set.
ChannelsTracked ==
    (\A t \in Threads : busy[t] = Idle) =>
        \A l \in Threads : chans[l] = {c \in regd \ unregd : loopOf[c] = l}

=============================================================================
