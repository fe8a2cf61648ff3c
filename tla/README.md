# TLA+ models of buzz

buzz is a small C++ reactor library. Each `EventLoop` runs on its own
thread. The loop waits on epoll, dispatches the ready `Channel`s, and then
runs the timers that are due. `TcpServer` accepts connections on its own
loop and hands each one to an io loop from an `EventLoopThreadPoll`. A
`TcpConnection` lives on its io loop. The application may call
`SendMessage`, `Close` and `Shutdown` on a connection from any thread.
Calls made off the loop thread are marshalled with `RunInLoop`: the
callback is put into a `BlockingQueue`, and a byte is written to a wakeup
pipe that the loop polls.

This directory holds TLA+ models of those parts. The models are checked
with TLC.

## Inventory

| Part | Source | State | Operations | Interacts with |
|---|---|---|---|---|
| TcpConnection | `src/buzz/TcpConnection.cpp` | `m_state` (atomic, changed by CAS), channel interest, output buffer, shared ownership | Close, Shutdown, SendMessage, SendBase, ConnectEstablished, ConnectDestroyed, HandlerClose, HandlerShutdown, HandleRead, HandleWrite | EventLoop (RunInLoop, RunAfter), Channel, TcpServer (close callback), the peer |
| EventLoop | `src/EventLoop.cpp` | `m_active_channel`, `m_tasks`, wakeup pipe, `m_exited` | Loop cycle, RunInLoop, Wakeup, wakeup-channel drain, Exit, RunAt/RunAfter/RunEvery | Poller, Channel, TimerManager, other threads |
| Channel | `src/Channel.cpp` | `m_events`, `m_revents` | Enable*, HandleEvent | Poller, its owner's handlers |
| PollerEpoll | `src/buzz/PollerEpoll.cpp` | the epoll set, ready array | Poll, Add/Update/RemoveChannel | kernel |
| TimerManager | `src/Timer.cpp` | `m_timers`, a set ordered by (Timestamp, Timer*) | AddTimer→Insert, Cannel→CannelInLoop, Schedule (GetExpired, Run, Reset), NearEndTime | EventLoop |
| BlockingQueue | `src/buzz/BlockingQueue.h` | deque, under a mutex and two condition variables | Put, Poll | producers, the loop |
| TcpServer | `src/buzz/TcpServer.cpp` | `m_connections` map, id counter | NewConnection, RemoveConnection, destructor | pool, connections |
| EventLoopThreadPoll | `src/buzz/EventLoopThreadPoll.cpp` | threads, loops, round-robin index | Start (GetLoop handshake), Get, destructor | TcpServer |
| Buffer | `src/Buffer.h`, `src/buzz/Buffer.cpp` | vector, reader and writer indices | Append, Retrieve, MakeSpace, ReadFd, Prepend, Shrink | TcpConnection |
| Logger | `src/Logger.cpp`, `src/buzz/Logger.h` | the open log file, the time of the last rotation, `g_stop_writing`, under one mutex | LOG (LogMessage, ~LogMessage), Write, CreateLogfile, FlushUnlocked | every thread that logs; the clock and the file system |
| Timestamp | `src/buzz/Timestamp.cpp`, `Timestamp.h` | a microsecond count | Now, SecondsSinceEpoch, ToFormattedString | Logger, TimerManager |

The following parts are not modelled:

- Socket and InetAddress are system-call wrappers. Their effect is the kernel behaviour the Connection model gives the peer.
- Timestamp is modelled only as far as Logger uses it: the clock, and a name per second. The engine's modules model `LOG(FATAL)` as the process aborting.
- Signal, CurrentThread and `any.h` hold no state that the model needs.
- The examples are applications of the library.

Behaviours that make this code hard:

- **Foreign calls against loop handlers.** A CAS on `m_state` runs on the caller's thread. The handler it queues runs later on the loop.
- **Ownership.** Some callbacks hold the connection through `shared_from_this()`: HandlerClose, ConnectEstablished and the timers. Others hold the raw `this`: SendBase and HandlerShutdown. A queued raw callback can outlive the object.
- **Stale readiness.** Readiness is recorded once at Poll. A task drained from the wakeup channel earlier in the same cycle can change the connection before its channel is dispatched.
- **Peer behaviour.** The peer can be slow (a full send buffer), can half-close (FIN), or can reset.
- **Timers.** Timers are ordered by address. Cancel can race a timer that has already fired.

## Modules

### Connection.tla (with MCConnection.tla)

This module models one accepted connection and the io loop it runs on.

State:

- Members of the connection: `state` (`m_state`), `interest` (`m_events`), `outBuf` (`m_output_buffer`), `registry` (the server's map entry), `appHolds` (the application's pointer) and `closeCbs` (how many times RemoveConnection ran).
- The socket: `inbound`, `peerFin`, `rst` and `rstSeen`; `sndq`, the kernel send buffer; `delivered`, what the peer has read; and `wrShut`.
- The loop: `lpc`, its position in the cycle; `active` and `revents`, as recorded at Poll; `tasks` (`m_tasks`); `pipe`; and the HandlerClose timers, in `armed`, `expired` and `ran`.
- The callers: `freed`, the messages whose storage the caller has already released.
- History: `accepted`, the bytes each SendBase call took.

Bytes are abstracted to units `<<message, index>>`. SendMessage from a foreign thread does not copy the message. It binds the caller's `const void*` (TcpConnection.cpp:108), so SendBase reads the bytes only when the loop runs it (`Bytes(m)`). `CallerFree(m)` is the caller releasing a message whose SendBase is still queued. Examples are `SendMessage(Buffer*)`, whose RetrieveAll (line 97) frees the bytes for reuse, and a `std::string` going out of scope. After that, SendBase reads stale memory, modelled as units of message 0.

Actions:

- Channel's `EnableRead`, `EnableWrite` and `EnableReadWrite` are operators on the interest set, used by the handlers that call them.
- The loop has one action per step of `EventLoop::Loop`: Poll, DispatchWakeup (read the pipe), DrainTask and DrainEnd (`while (m_tasks.Poll(task, 0)) task()`), DispatchConn (`Channel::HandleEvent`), and StartSchedule, FireTimer and EndSchedule (`TimerManager::Schedule`).
- The application has SendMessage, Close(now/later) and Shutdown, each called from a loop callback or from a foreign thread, plus AppRelease and CallerFree.
- The peer has PeerSend, PeerFin, PeerRead and PeerReset.
- LOG(FATAL), or a call into a destroyed object, is the Abort step. It is terminal.

Each handler is one atomic step. This is sound because a handler runs to completion on the loop thread, and the only state it shares with other threads is `m_state`, changed by CAS, and the queue, under its mutex.

Fairness:

- Weak fairness on the loop: `Poll` always returns within its timeout.
- Strong fairness on running due timers: the clock advances, so a timer that stays armed becomes due at a later Schedule.
- Weak fairness on the peer reading: the scenario is a live peer.

The application has no fairness. Its calls are optional.

| Run | Checks | Shows |
|---|---|---|
| conn_threads | TypeOK, StreamIntact, StateTransitions, CloseLeadsToDisconnected | passes (897k states, about 65 s) with loop and foreign-thread calls, callers releasing their messages, half-close and resets: what the peer reads is exactly the bytes the SendBase calls took, ordered and lossless; `m_state` only makes legal moves; and a Close or a peer FIN always ends in Disconnected unless the process aborted first |
| conn_double_close | CloseNotifiedOnce | **violated**: Close's second CAS lets HandlerClose run twice |
| conn_write_starvation | OutputDrains | **violated**: IN-before-OUT dispatch starves writes |
| conn_fatal_dispatch | NoFatalDispatch | **violated**: a reset before ConnectEstablished hits LOG(FATAL) |
| conn_uaf | NoUseAfterFree | **violated** in 5 steps: a foreign SendMessage returns, its caller releases the message, and the queued SendBase still points at it. With the message kept alive, the SendBase can instead outlive the connection itself |

`ShutdownHalfCloses` (Shutdown sends FIN) is defined but is not one of
the project's runs. TLC finds it violated with `conn_shutdown.cfg`:
HandlerShutdown requires read interest to be off, which it never is while
connected. The defect shows on every call of Shutdown, so an ordinary
test finds it. The runs are kept for defects that need an interleaving.

Bounds:

- `MaxCalls=3` gives up to three application calls, for example two sends and a close, or a Close(later) followed by Close(now).
- `MsgLen=2` with `SndBuf=1` forces partial writes and a backlog.
- `MaxInbound=1` lets the peer keep the socket readable.

These bounds are the smallest that reach every branch of SendBase, HandleWrite and HandleRead, and every order of a foreign task relative to a cycle.

Assumptions:

- The build is NDEBUG: `assert` is compiled out, as the `(void) n` after the asserts suggests. HandlerClose's `assert(m_state ...)` therefore does not stop a second close.
- The application thread that receives a pointer from a callback may keep it (`appHolds`) and release it at any time.

### EventLoop.tla (with MCEventLoop.tla)

This module models the cross-thread hand-off of one loop: RunInLoop from
several foreign threads, the wakeup pipe, the drain in the wakeup
channel's read callback, and Exit.

State: `pc` and `sent` per producer; `queue` (`m_tasks`); `pipe`, the
unread bytes; `lpc`, the loop's place in its cycle; `wake`, whether the
wakeup channel was active at Poll; `exited` (`m_exited`); and the history
variables `exitReq`, `putLog` and `ranLog`.

Actions:

- A producer does `Put` (push_back under the queue's mutex) and then
  `Wakeup` (a one-byte blocking write; enabled only while the pipe has
  room). The two are separate steps because RunInLoop makes two calls.
- The loop does `Poll`, then `ReadWakeup` (reads at most `ReadChunk`
  bytes, `sizeof(buf)`) or `DispatchNone`, then `DrainTask` until the
  queue is empty and `DrainEnd`, then `EndCycle`, which re-tests
  `m_exited`.
- `ForeignExit` sets `m_exited` without a byte. `LoopExit` and
  `LoopExitWake` are Exit from a loop callback: the flag, then a blocking
  Wakeup on the loop's own pipe.

Fairness: weak fairness on the loop and on each producer's Wakeup (a
thread that is between its two calls continues). Producers need not put
more tasks, and nobody need call Exit.

| Run | Checks | Shows |
|---|---|---|
| loop_tasks | NoLostWakeup, AllTasksRun | passes (5k states): no task sits in the queue while the loop blocks with nothing to wake it, and every task runs unless Exit comes first |

`TypeOK` is defined but not checked by the run. Its ranges are fixed by
the kernel (the pipe's capacity) and by the model's own bounds, and no
change to EventLoop.cpp can take a variable out of them.

Bounds: two producers with two tasks each, and `ReadChunk=2`, give a
read that leaves bytes behind and a Put that lands between the read and
the drain. `PipeCap=5` holds every byte that can be written; a smaller
pipe makes an in-loop Exit block on its own pipe (the hazard listed at
`EventLoop.cpp:153`), which needs an unrealistically full 64 KiB pipe in
the real program. Deadlock checking is off because a stopped loop is a
legitimate end, and a producer may stay blocked on its pipe write after
the loop has stopped.

`ExitIsPrompt` (after Exit, the loop does not start another blocking
poll) is defined but not kept as a run. TLC finds it violated with
`ExitBy = {"foreign"}`, two producers, one task each, `PipeCap = 3` and
`ReadChunk = 2`: Exit from another thread writes no wakeup byte
(`EventLoop.cpp:113`), so the loop sleeps out the poll timeout. The spec
says the loop sees the flag promptly; the hazard list records it.

### TimerQueue.tla and TimerManager.tla (with MCTimerManager.tla)

`TimerQueue` is the abstract promise of the timer subsystem: a set of
pending timers `[seq, when, iv]`; the earliest due one fires; a repeating
timer is re-armed at its firing time plus its interval; cancel removes a
pending timer.

`TimerManager` follows `src/Timer.cpp`. `heap` is the Timer objects by
address, drawn from a small pool `Addr` so that a freed address is
reused. `timers` is `m_timers`, a set of `<<when, address>>` entries,
ordered by `EntryLess` (time, then address). `batch` and `pos` are the
result of GetExpired and the position of Run in it. `queue` holds the
AddTimer/Cannel calls made from other threads and marshalled by
RunInLoop. `handles` are the TimerIds returned to the application.

Actions: `RunAfter(ctx, d)` and `RunEvery(ctx, iv)`, the EventLoop
entry points, which are `AddTimer(ctx, d, 0)` and `AddTimer(ctx, iv, iv)`
(an interval of 0 would be a one-shot timer, so RunEvery takes a positive
one); `AddTimer` and `Cannel(ctx, h)` from the loop (in
place) or a foreign thread (queued); `DrainOp` runs a queued call
(Insert or CannelInLoop); `GetExpired` removes all due entries in order;
`RunTimer` runs the next one; `Reset` re-arms the repeating ones with
`Restart(now)` and reinserts them, and frees the one-shot ones; `Tick`
advances the clock up to `MaxTime`.

Refinement: `AbsPending` maps the detailed state to the abstract set. It
holds the entries in `m_timers`, the timers of the current batch not yet
run, and the repeating timers already run, at their re-armed time. The
`Refines` property checks `TQ!Spec` under this mapping.

Fairness: weak fairness on the loop's steps, and strong fairness on
`Tick` and `DrainOp`, which other steps keep disabling for a moment
while a batch runs.

| Run | Checks | Shows |
|---|---|---|
| timer_refines | TypeOK, EntriesMatchTimers, Refines, DueTimersFire | passes (456k states, about 45 s): with adds and cancels from both threads, the code implements the abstract queue, every key in `m_timers` matches its Timer, and every timer due within the clock range eventually fires or is cancelled |
| timer_cancel_aba | CancelHitsTarget | **violated**: a TimerId is the Timer's address; cancelling a timer that has already fired cancels a newer timer at the same address |

Bounds: three timers over two addresses forces an address to be reused.
Delays `{0, 1}` and intervals `{0, 1}` give same-instant timers, timers
due later, and repeating timers. `MaxTime=2` lets a repeating timer fire
twice.

`CancelStopsTimer` (a cancelled timer does not run again) is defined but
not kept as a run. With `Ctx <- LoopOnly` TLC finds it violated:
GetExpired removes due entries before running them, so a callback that
cancels a timer of its own batch does not stop it, and Reset re-inserts
a repeating one (`Timer.cpp:148`).

`SameInstantInSeqOrder` (timers due at the same instant fire in the
order they were added) is defined but not run. TLC finds it violated: the
set is ordered by address. The spec (section 4.3) breaks ties by
sequence, so this is a divergence between spec and code. It is recorded
as a hazard, with the constants that show it, not as a run. The two Timer
runs check the cancel defect and the refinement of the whole manager.

### ByteQueue.tla and Buffer.tla (with MCBuffer.tla)

`ByteQueue` is what a Buffer promises: its readable region is a FIFO of
bytes. Bytes enter only at the back and leave only from the front, or
all at once.

`Buffer` models the members `m_buffer` (`buf`, a sequence of cells, with
`Zero` for a value-initialised cell), `m_reader_index` and
`m_writer_index`. The member functions that call each other (`AppendTo`,
`EnsureWritableBytes`, `MakeSpace`, `ReadFdInto`) are operators on a
record of the three members, so each public operation is one action that
includes every call it makes:

- `AppendBytes(s)` is `Buffer::Append`.
- `Retrieve(len)` covers Retrieve and RetrieveUntil.
- `RetrieveAll` covers RetrieveAll and RetrieveAsString.
- `ReadFd(s)` is a readv that returned the bytes `s`. What one readv can
  return (`ReadCapacity`) depends on `iov_cnt`.

A buffer belongs to one connection and is used only on its loop thread,
so the operations do not interleave. Retrieve's `len <= ReadableBytes()`
is an `assert` that NDEBUG compiles out. The model keeps it as a guard
because every caller honours it.

| Run | Checks | Shows |
|---|---|---|
| buffer_refines | TypeOK, Refines | passes (2.6k states): the readable region refines `ByteQueue` across both branches of MakeSpace and both iovecs of ReadFd, and the indices stay ordered |

Bounds: `kCheapPrepend` and `kInitialSize` are scaled to 2, and
`extrabuf` to 3. With up to 3 bytes per call and 4 readable bytes, every
branch is reached:

- Appends both move the content forward and grow the vector.
- Reads both fit the writable space and spill into extrabuf.
- Reads use one iovec once the writable space reaches the size of
  extrabuf.

Each branch is confirmed by a mutant that only it can expose.

Prepend and Shrink are not modelled. Nothing in the library or the
examples calls them. Both are defective: Prepend copies to
`Begin() + len`, and Shrink copies from `Begin()`. They are listed as
hazards.

### Server.tla (with MCServer.tla)

This module models `TcpServer` together with its `EventLoopThreadPoll`.
Thread 0 is the base loop: it starts the pool, accepts, and owns
`m_connections`. Threads `1..PoolSize` are the io loops. The connection
itself is reduced to its `m_state` and its loop; Connection.tla models
its inside.

State:

- The pool: `spc`, thread 0's place in Start; `made` and `got`, the
  sizes of `m_threads` and `m_event_loops`; `tpc` per io thread;
  `waiting`, thread 0 blocked in `m_cond.wait`; and `rr`, the pool's
  `m_id`.
- The server: `nextId` (its `m_id`); `cstate` and `loopOf` per
  connection; `tasks`, the ConnectEstablished tasks queued on each io
  loop; and `conns`, the keys of `m_connections`.
- The pollers: `chans[l]`, the connection channels in io loop `l`'s
  `PollerEpoll::m_channels`.
- `busy[t]` is a container update in progress on thread `t`, with the
  copy of the map or set it read. `added`, `erased`, `regd` and `unregd`
  are history variables.

Actions:

- `StartSpawn`, `GetLoopWait` and `StartEnd` are `Start`'s loop: create
  an `EventLoopThread`, then `GetLoop` waits with its predicate (it
  returns at once when the thread has already published its loop).
  `ThreadInit(t)` is the new thread's body: it builds its loop, publishes
  it, and notifies under the mutex.
- `NewConnection` takes a name, calls `Get` (round robin by
  `m_id++ % m_event_poll_size`) and starts the `TcpConnection`
  constructor, whose `Channel` constructor reads the io loop's
  `m_channels` in AddChannel. `AddChannel` writes the set, and the
  constructor returns and reads the map. `InsertConnection` writes the map and queues ConnectEstablished on
  the io loop (in place when the loop is the base loop).
- `ConnectEstablished(t, c)` runs the queued task. `HandlerClose(t, c)` is
  the peer's close: it sets kDisconnected and starts RemoveConnection,
  which runs in place on the io thread and reads the map.
  `RemoveConnection(t)` writes it back. The model assumes the map's
  reference and HandlerClose's guard are the only ones left; reference
  counts are not modelled. Under that assumption, when HandlerClose
  returns the connection is destroyed, and `~Channel` reads `m_channels`
  (`ChannelDestroy`). `RemoveChannel(t)`
  writes it back.

`m_connections` is a `std::map` used from two threads with no lock. A
map update is split into its read and its write, so two overlapping
updates lose one of them. Each poller's `m_channels`, a `std::set`, is
treated the same way. This is one outcome of the data race; others,
such as a corrupted tree, are worse.

Fairness: weak fairness on thread 0's steps, on each io thread's start,
and on each loop's steps. The EventLoop module shows that a queued task
is always woken, which justifies weak fairness on ConnectEstablished.
Accepts and peer closes come from clients and have no fairness.

| Run | Checks | Shows |
|---|---|---|
| server_pool | TypeOK, StartReturns | passes (1,048 states): Start returns however the thread's notify and the caller's wait interleave, with accepts and closes spread over both io loops |
| server_map_race | ConnectionsTracked | **violated**: an io thread erasing a closed connection and the acceptor inserting a new one overlap, and the map loses the insert |

`ChannelsTracked` (each `m_channels` holds exactly the live channels of
its loop) is defined but not kept as a run. With the server_map_race
constants, TLC finds it violated in 15 steps: the io thread's
RemoveChannel for a closed connection overlaps the accepting thread's
AddChannel for a new one on the same loop, and one update is lost. It is
the same defect as the map race, in a second container.

Bounds: two io loops and three connections make the round robin wrap
around, and let a close on one loop overlap an accept. One loop with two
connections is the smallest case of the map race. Deadlock checking is
off: once the clients stop, a server waiting in its loops is a
legitimate end.

### Logger.tla (with MCLogger.tla)

A `LOG(severity)` statement below `FLAG_SEVERITY` builds a LogMessage.
Its LogMessageData takes the timestamp when the statement starts (`LOG`,
`LogMessage`, `LogMessageData`). The destructor, when the statement
ends, calls `LogFileObject::Write`, and then aborts on FATAL (`EndLog`).
Write holds `m_mutex` for its whole body, so its body is one step. The
step does the following:

- It rotates when no file is open, or when the message's day differs
  from the day of `now_last_rotate_time` (`Rotating`).
- `CreateLogfile` fails with O_EXCL when a file with the same name
  exists. The name is the message's second. On that failure Write
  returns and the message is dropped (`Drop`). If fdopen fails, the old
  file has already been closed, and `m_file` is NULL.
- On success, the rotation time is `Timestamp::Now()`.
- `WriteOut` writes and flushes. With the disk full the text is lost,
  and fwrite may or may not report ENOSPC. A report latches
  `g_stop_writing` for good.

The environment has two actions: the clock ticks (`Tick`), and the disk
fills and is freed (`DiskSpace`). Time is counted in ticks, with
`PerSecond` ticks to a second and `Day` seconds to a rotation interval.
The file name is `ToFormattedString` at second resolution plus the pid.
It is modelled by the second, since it is the same name for every
message of one second.

| Run | Checks | Shows |
|---|---|---|
| logger_rotation | RotatesDaily | **violated**: a message stamped before midnight and written after it rotates to a file named for the old day, and the new day's messages then go into that file |

The shortest trace has one thread. Its LOG statement starts before
midnight and ends after it, and it is the first message, so it creates
a file named for the old day. `now_last_rotate_time` is already in the
new day, so the next message does not rotate. With several threads the
same thing happens every midnight: one thread's message rotates first,
then another thread's late message rotates again, to the old day's name.

`NoMessageDropped` is defined but not run. With `DiskMayFill` and
`FdopenMayFail` set to FALSE in the same configuration, TLC finds it
violated in 9 states. Two threads stamp messages in the same second
before midnight, and the second one's rotation fails on O_EXCL. Its
message is dropped, and in the trace that message is a FATAL one, just
before the abort.

Bounds: two threads, two statements each, a clock of two days of two
seconds of two ticks. These are the smallest bounds that reach a late
message crossing a day boundary and two creations in one second. No
deadlock check: the clock and the statements are bounded, so every
behaviour ends.

## Plan

Done: Connection, EventLoop, TimerQueue/TimerManager, ByteQueue/Buffer,
Server (TcpServer with EventLoopThreadPoll), Logger.

Still open:

1. BlockingQueue in bounded mode. The library builds its only queue
   unbounded, so this mode is reachable only by applications that use
   the header directly. Its timed Put has two defects, listed as hazards:
   - it waits on `m_not_empty` (`BlockingQueue.h:34`), so it can take a
     notify meant for a blocked consumer;
   - its loop condition is inverted (`BlockingQueue.h:35`): it returns
     false as soon as it is woken with the queue still full, and sleeps
     out its timeout when room appears.
   A module for this mode needs two runs, a pass run and a violation run.
   Both would have to replace runs that check code the library uses.

The project keeps its runs to 12, one for each question it asks. A new
module therefore either folds its checks into an existing run or
replaces a weaker one. For this reason ExitIsPrompt, CancelStopsTimer,
ChannelsTracked, SameInstantInSeqOrder, ShutdownHalfCloses and
NoMessageDropped are defined but not run. Their
sections give the constants under which TLC finds them violated.

## Not modelled

- `~TcpServer` and `~EventLoopThreadPoll`. The pool destructor deletes
  EventLoopThreads whose `std::thread` is still joinable, which calls
  `std::terminate` on every shutdown of a server with io threads. Nothing
  after it can be observed, so ConnectDestroyed at destruction is not
  modelled either.
- accept failing with EAGAIN or EINTR (`TcpServer.cpp:53`). The code
  builds a connection on fd -1, and adding its channel to epoll hits
  LOG(FATAL). This happens deterministically on the first spurious
  wakeup, with no interleaving involved.
- `Buffer::Prepend` and `Buffer::Shrink`, which nothing calls.
- The read of `it->second` after the erase in CannelInLoop
  (`Timer.cpp:124`). Its outcome depends on the allocator.
- accept failing with EMFILE or ENFILE (`TcpServer.cpp:53`). The code
  logs and returns without taking the pending connection. The listening
  fd stays readable under level-triggered epoll, so the base loop spins
  on it. The model has no fd table, and a spin changes no state.
- A task stream that never ends (`EventLoop.cpp:57`). The drain runs
  until the queue is empty, so a task that queues another one starves
  Poll forever. EventLoop.tla bounds the tasks each thread puts, so every
  drain ends.
- In Logger: FlushUnlocked's byte and time counters (every LOG passes
  `force_flush`, so each Write flushes), changing `FLAG_STDERR` at run
  time, and the text formatting. The ENOSPC latch is modelled, but no
  property is stated about it: neither the code nor the spec says what
  should follow ENOSPC.
- Sockets, addresses, signals and `any.h` (see the inventory), and the
  parts of Timestamp that Logger does not use.
