# TLA+ specifications of muduo

muduo (`src/muduo`) is a C++ network library of the reactor kind: one event loop
per thread, non-blocking sockets, callbacks. Most of its code runs on one thread
at a time, and its correctness rests on a few protocols between that thread and
the others, on the order of things inside one iteration of the loop, and on
input that arrives in pieces. These modules model the library and the example
programs that come with it; TLC checks them on small instances, and TLAPS proves
central results for instances of any size.

`PROJECT.json` maps each definition to the lines it translates, lists every part
of the repository with its status, and lists the hazards with the properties that
cover them.

## The system and where it is modelled

Library (below `src/muduo/muduo`):

| part | source | module |
|---|---|---|
| event loop: poll, handlers, functors, wakeup, quit | `net/EventLoop.cc` | `EventLoop`, `SerialExecutor` (abstract), `LoopAndLogProofs` |
| the walk over the active channels | `net/EventLoop.cc`, `net/Channel.cc`, `net/TcpConnection.cc` | `Dispatch`, `PollersProofs` |
| thread that runs a loop; thread start | `net/EventLoopThread.cc`, `base/Thread.cc` | `EventLoopThread`, `ThreadsProofs` |
| timers | `net/TimerQueue.cc`, `net/Timer.*` | `TimerQueue`, `TimerQueueProofs` |
| channel, its interests and dispatch | `net/Channel.cc` | `Channel` (operators) |
| pollers | `net/Poller.*`, `net/poller/*` | `Poller` (abstract), `PollPoller`, `EPollPoller`, `PollersProofs` |
| one connection, and the server as it sees it | `net/TcpConnection.cc`, `net/TcpServer.cc` | `TcpConnection`, `TcpConnectionProofs` |
| server, acceptor, pool of loops | `net/TcpServer.cc`, `net/Acceptor.cc`, `net/EventLoopThreadPool.cc` | `TcpServer`, `ThreadsProofs` |
| connector and client | `net/Connector.cc`, `net/TcpClient.cc` | `Connector`, `ConnectorProofs` |
| byte buffer, byte order | `net/Buffer.*`, `net/Endian.h` | `Buffer` (operators), `BufferQueue`, `ByteQueue` (abstract), `EchoAndBufferProofs` |
| thread pool, blocking queues, latch | `base/ThreadPool.cc`, `base/*Queue.h`, `base/CountDownLatch.*` | `ThreadPool`, `ThreadsProofs` |
| asynchronous log, rolling log file | `base/AsyncLogging.cc`, `base/LogFile.cc`, `base/FileUtil.cc` | `AsyncLogging`, `LoopAndLogProofs` |
| dates, time zones, numbers to text | `base/Date.cc`, `base/TimeZone.cc`, `base/LogStream.cc` | `Conversions` |
| HTTP server, inspector | `net/http`, `net/inspect/Inspector.cc` | `HttpServer` |
| protobuf codec | `net/protobuf` | `BinaryCodecs` |
| RPC channel | `net/protorpc/RpcChannel.cc` | `RpcBalancer`, `RpcProofs` |

Examples (below `src/muduo/examples`):

| part | source | module |
|---|---|---|
| codecs of chat, protobuf, FastCGI | `asio/chat/codec.h`, `protobuf/codec`, `fastcgi` | `BinaryCodecs` |
| line protocols of hub and sudoku; any protocol over input in pieces | `hub/codec.cc`, `sudoku/server_*.cc` | `Streams` |
| RPC balancers | `protobuf/rpcbalancer` | `RpcBalancer`, `RpcProofs` |
| memcached server | `memcached/server` | `Memcached` |
| publish and subscribe | `hub` | `Hub` |
| chat servers | `asio/chat/server*.cc` | `Hub` |
| relays | `socks4a` | `Tunnel` |
| multiplexer, demultiplexer | `multiplexer` | `Multiplexer` |
| idle and limited connections | `idleconnection`, `maxconnection` | `Idle`, `EchoAndBufferProofs` |
| sudoku servers, solver, statistics | `sudoku` | `SudokuServer` (with the statistics), `SudokuSolver` |
| load generators | `sudoku`, `memcached/client`, `pingpong`, `protobuf/rpcbench`, `asio/chat` | `LoadClients` |
| word count; ttcp | `wordcount`; `ace/ttcp` | `WordCount`; `SimpleServers` |
| small servers, file transfer | `simple`, `netty`, `filetransfer` | `SimpleServers` |
| libcurl and c-ares adapters | `curl`; `cdns` | `Adapters` |

How the parts lean on each other: every other object lives on an `EventLoop`,
reaches it through `runInLoop`/`queueInLoop`, and is called back from the
pollers' active channels. `EventLoop` is shown to implement `SerialExecutor`;
`TimerQueue`, `TcpServer` and the servers of the examples then use a loop as
that executor (a FIFO queue of functors). `TcpConnection`, `Connector`, `Dispatch`
and `SimpleServers` need the finer structure of an iteration (poll, then
handlers, then one batch of functors) and model it. Both pollers are shown to
implement `Poller`, the buffer to implement `ByteQueue`. `Streams` composes
`Buffer::readFd` with every codec and with the HTTP server; `RpcBalancer` composes
client channels, a balancer and server channels; `Multiplexer` composes both ends
of its link; `AsyncLogging` has its log file inside.

## Modelling conventions

- A critical section of a mutex is one step, and so is an atomic operation. Code
  of another thread between two accesses of shared state is two steps:
  `queueInLoop` pushes in one step and writes the eventfd in the next.
- An action is a whole handler or functor, unless another thread can see the
  middle of it, or user code is called from the middle of it.
- `assert` is modelled as in a release build: execution goes on and the failure is
  recorded in `failed`; so is the use of a freed object. The one exception is
  `demux.cc`, where a failed assertion ends the program as in a debug build:
  what the program does with an id that is in use twice means nothing.
- Payloads are model values or small numbers; text, logging and socket options
  are left out. Where bytes matter (the buffer, the codecs, numbers to text) they
  are bytes.
- What system calls and external libraries (libcurl, c-ares, the peer) do is
  chosen nondeterministically among the outcomes the code distinguishes.
- Variables such as `got`, `taken`, `told`, `history` or `received` record what has
  happened, for the properties; no guard reads them but for the bounds.
- Operators named `X_Something` in front of an operator `X` are faulty variants
  of it, used to see that a property notices the fault. No specification uses
  them.

## The modules of the library

**EventLoop.** `pc` is the loop thread's position in `loop()`;
`pendingFunctors`, `functors`, `wakeupFd`, `quit` and `calling` are the members
of those names. Foreign threads are in `waking` between their update and the
`wakeup()` that follows. User callbacks are the steps the loop thread may take
while `InCallback`: queue, run at once, or quit. `early` are the functors the
loop thread queued before `loop()`: they get no wakeup and may wait for the poll
time limit, and the properties except them, as the code does.

**Dispatch.** Several connections on one loop: the list `activeChannels_` while it
is walked, and handlers that close, force to close or destruct connections that
come later in it. `held` is the connection a `TcpConnectionPtr` of the program
keeps; a functor keeps the connection it is bound to; the tie keeps one during its
own handler.

**EventLoopThread.** The owner and the child as two program counters: the
latch of `Thread::start`, the condition of `startLoop`, the publication of
`loop_`, the loop with its `quit_`, and the destructor's quit and join.

**TimerQueue.** Timers are raw pointers, so `heap` is modelled and addresses are
reused; the sequence number is what tells an old `TimerId` from a new timer.
`timers` and `activeTimers` are the two indexes, `batch` the vector of expired
timers, `cancelingTimers` what callbacks of the batch cancel. Threads other than
the loop's are between handing a timer over and reading its sequence number
(`adding`).

**Poller, PollPoller, EPollPoller.** The array of `pollfd` with the indices kept
in the channels, the swap on removal and the complemented descriptor of a
channel that is not interested; `index_` as the poller's belief about the
kernel's list, the choice of ADD, MOD or DEL, and the growing event list.

**TcpConnection.** One connection from its entry in the server's map to its
destructor. Reference counts are modelled by who holds a pointer
(`Referenced`), and functors bound to a raw `this` do not count. Actors: the I/O
loop, the server's loop (the same thread or another, chosen in `Init`), user code
on the I/O thread, and user code on a foreign thread. `Uses` lists calls the
code does not cope with; in the passing run it is empty.

**TcpServer.** The acceptor with its spare descriptor, the table of descriptors
of the process (other code of it may take or free one, also between the close of the
spare descriptor, `accept()` and its reopening), the round robin over the loops, and the life of connections as functors that go back and forth between
the base loop and their I/O loop.

**Connector.** The connector `k` under its `client`: connect with its three kinds
of errno, retry timers with the growing delay, reconnection, stop, and the
destructor of the client with its two ways out. `holder` is the one-second timer
that keeps the connector. A retry timer set in an iteration is not due before
`poll()` has waited (`fresh`): the least delay is half a second, and no handler
is taken to last that long.

**Buffer, BufferQueue.** A buffer is its vector and two indexes; each method is an
operator. `BufferQueue` makes one action of each and maps the buffer to the bytes
between the indexes, a `ByteQueue`.

**ThreadPool.** Wait sets for the two conditions, spurious wakeups, notified
threads that must get the mutex again; `kind` chooses between the pool, the
bounded and the unbounded blocking queue.

**AsyncLogging.** Buffers are sequences of numbered lines. The logging thread's
wait ends by notification, by time or spuriously. The log file rolls by size and
by period and flushes by interval; `written` is what reached it.

**Streams, BinaryCodecs, HttpServer.** The message callbacks are recursive
operators on a record for the connection. `Streams` draws up to `MaxItems` items
for one protocol, some of them bad, and hands their bytes over in pieces of any
size through `readFd`.

**Conversions.** `getJulianDayNumber` and `getYearMonthDay` against a day count
that starts at a known date and steps through the calendar; `toLocalTime` and
`fromLocalTime` over zones with gaps and overlaps; `convert` and the fixed buffer of
`LogStream` against the value read back from the digits.

The modules of the examples say at their head what stands for what.

## The runs

Small specifications that ask the same kind of question share a run: the variable
`which` chooses the specification in the initial state, and the variables of the
others do not change. What is proved is stated about the very definitions that a
run checks: `MCThreads` extends `EventLoopThread`, `ThreadPool`, `AsyncLogging` and
`TcpServer`, `MCClients` extends `Connector`, `MCServices` extends `RpcBalancer` and
`Idle`, `MCPollersTimers` extends `TimerQueue` and has the variables of the pollers
and of the walk itself. The other components of these runs take `x1`, `x2`, ... for
their own variables by `INSTANCE ... WITH`, so that the state space is the disjoint
union of theirs.

| run | result | states | what it shows |
|---|---|---|---|
| `eventloop` | pass | 219,245 | no lost wakeup (`NoLostWakeup`), no lost quit (`NoLostQuit`), queued functors run and quit ends the loop without the poll time limit (`QueuedFunctorRuns`, `QuitEndsLoop`), and the batches are one FIFO executor (`ImplementsExecutor`) |
| `threads` | pass | 36,483 | `startLoop` hands out a live loop (`LoopIsHandedOver`) and returns, and the destructor ends a running loop (`StartAndStopReturn`); tasks are taken once and in order (`TakenInOrder`), and `stop` returns (`TasksRunAndStopReturns`); lines reach the log in order, the youngest being dropped under overload (`LogIsInOrder`), every other one is written, and the thread ends after `stop` (`LineIsWritten`); descriptors add up through refusals (`DescriptorsAddUp`), and peers are refused rather than left waiting, unless another thread took the spare descriptor (`BacklogDrains`) |
| `pollers_timers` | pass | 263,329 | both pollers keep their indices right (`IndexesMirror`) and implement `Poller` (`ImplementsPoller`), and none of many ready channels is left out (`ReportsAll`); the walk over active channels meets no destroyed one (`ActiveChannelsAreAlive`); the timer queue's indexes agree, nothing dangles, a cancelled timer does not come back and the timerfd is armed (`TimersAreSound`), a cancel hits only the timer it names (`OnlyNamedTimerCancelled`), and each timer runs or is cancelled (`TimersRun`) |
| `tcpconnection` | pass | 136,043 | data leaves whole and in order, and the channel watches for writability exactly while output waits (`OutputIsSent`); shutdown happens when the buffer is empty and is not forgotten (`ShutdownOnceDrained`); one callback up and one down, and one `connectDestroyed` (`UpThenDownOnce`); every assertion holds and the destructor finds a closed connection (`ClosesCleanly`); every close ends in removal (`ClosedIsRemoved`) |
| `clients` | pass | 79,911 | one connection attempt at a time and none forgotten (`OneAttempt`), every descriptor closed once (`SocketsAccounted`), nothing begun after `stop()` (`StopIsFinal`); load generators, word count, transfers, downloads and lookups come to their end (`ComesToAnEnd`) with exact results (`ResultsAreExact`) and the right number of requests in flight (`InFlightIsKept`) |
| `streams` | pass | 223,461 | every codec and the HTTP server deliver whole items in order for every cut of the stream, and nothing after a bad one (`DeliversWholeItems`); the buffer's indexes stay in order (`IndexesInOrder`) and it is a queue of bytes (`ImplementsByteQueue`); the conversions agree with their references (`ConversionsAreExact`) |
| `services` | pass | 1,708,221 | a call gets its own answer and at most one (`CallsAnsweredOnce`), a request exactly one and the right one, from memcached, sudoku servers, solver and statistics (`RequestsAnsweredRight`); relayed streams stay apart (`RelayedApart`); views that several connections or threads have of shared state agree (`ViewsAgree`); idle connections are closed in time and only they (`IdleExactly`) |
| `eventloopthread_quit_before_loop` | violation | | a destructor between the publication of `loop_` and the entry into `loop()` waits for ever: `loop()` clears `quit_` (`DestructorReturns`) |
| `timerqueue_addtimer_return` | violation | | `addTimer` on a foreign thread reads a timer that the loop may have deleted (`AddedTimerIsAlive`) |
| `tcpconnection_paused_close` | violation | | closing while reading is stopped puts the descriptor back on epoll's list, and `handleClose` runs twice (`AssertionsHold`) |
| `tcpconnection_foreign_close` | violation | | `forceClose` on another thread overwrites `kDisconnected`; `connectDestroyed` is called twice (`ConnectDestroyedOnce`) |
| `connector_early_destruct` | violation | | a client destructed in the iteration in which it was connected destructs the connector with `channel_` set (`ChannelGone`) |

Each violation is a disagreement between the code and a line of the repository
that is quoted under `findings` in `PROJECT.json`. `eventloop`, `threads`,
`streams` and `services` do not check for deadlock, because a loop that has
returned, a program that has ended, or a model whose bounds are used up, stops;
in `pollers_timers` and `clients` an explicit stutter allows that to the parts
concerned, so that the pollers, the walk and the connector are checked for it.

### What the passing runs leave out or allow

Some of the code does not keep what one might wish of it, and no line of the
repository promises it. The models have the behaviour; the properties say how far
it goes.

- *Multiplexer.* Assertions of `demux.cc` fail when an id comes up again while the
  demultiplexer still holds the connection of its last owner (`:128`), when a client
  left from an earlier link sends or goes down on the next one (`:97`, `:144`), and when
  the link is lost while a socks connection is up (`:159`, `:188`). `DemuxFailsOnlyThen`
  says that they fail in no other case. The demultiplexer has one link at a time:
  the multiplexer connects again only when its loss has been noticed, and that
  `onServerConnection` shuts down a second link is not modelled.
- *Tunnel.* A callback of back pressure that was queued before `teardown()` follows the
  null `clientConn_` (`tunnel.h:125`, `:161`), which ends the program. The model records
  it in `failed`, and `NullOnlyAfterTeardown`, a part of `RelayedApart`, says that it
  happens in no other way. The assertion of `tcprelay.cc:29` and `balancer.cc:38`
  (`TunnelIsInMap`) does not hold either: a connection that goes down twice, by the path
  of `tcpconnection_paused_close`, is erased twice.
- *Memcached.* A `get` that meets a key that is too long answers with an error and
  leaves the items it has found in `outputBuf_`; they go out with the next `get` of that
  session. `AnsweredOnce` allows values of an earlier request in that place only. A
  line of more than 1024 bytes shuts the connection down and is still taken as a
  request when its end comes.
- *RPC.* A closure that a service runs after its connection is gone uses a freed
  channel; the model ends that server and loses its calls (`lateDoneCrashes`). A server
  has one connection at a time: what a late closure does to the channel of another
  caller is not modelled.
- *Acceptor.* When another thread opens a descriptor between the close of the spare
  one and `accept()`, the spare is lost (`stolen`), and the peers in the queue may be
  neither served nor refused. `BacklogDrains` excepts exactly these behaviours.
- *AsyncLogging.* `stop()` sets `running_` and notifies without the mutex, in two steps;
  the thread may miss both until its wait ends by time. Lines appended after the last
  swap are lost.
- *PollPoller.* The first update of a channel is an enable, but for the destructor of an
  `Acceptor` that never listened: its `disableAll()` pushes an entry that is not
  hidden, and the assertion of `removeChannel` (`PollPoller.cc:140`) fails. `IndexesMirror` says
  that it fails exactly then, and that no other does.
- *Idle connections.* Time goes in half seconds. The wheel may be up to a second early,
  since the tick in which a connection is heard from counts as a whole one. The
  sorted list takes a step of the clock forward for silence, and a clock that is set
  back delays the timer of both; the bounds in `IdleExactly` have these terms.
- *Sudoku clients.* `onMessage` looks at its buffer only while it holds `kCells + 2` bytes,
  so that a short answer (`NoSolution`) at the end waits for more input that may never
  come. `ComesToAnEnd` excepts a batch client in that state (`Stuck`).
- *Connections.* A foreign `forceClose()`, reading stopped during a close, a send whose
  sender lets go and a server destructed during a shutdown are left out of the passing
  run; the first two are violation runs.

### Bounds

- `eventloop`: two foreign threads and three functors let a push fall before, in
  and after a batch while another thread quits; `MaxQuits = 2` allows one quit
  before `loop()` and one during it.
- `threads`: two producers, two workers, a queue of one place and one spurious
  wakeup give a notified thread that finds the place taken. Four lines, buffers
  of two and a limit of three buffers give full, spare and dropped buffers and two
  rolls. Three descriptors with three peers and 0, 1 or 2 I/O threads exhaust the
  table, the spare included.
- `pollers_timers`: three channels are the least for which the swap on removal
  moves a third channel's entry; the event list starts at one entry so that it
  has to grow twice; descriptors become ready for all events or none. Two
  addresses and two timers give reuse of an address, and two timers in one
  batch; delays 0 and 2 with intervals 0 and 1 give timers due at once, together,
  and again. `MaxTime` bounds the clock, `MaxPending` and `MaxQueued` the functors
  in flight. Two connections are enough for one handler to act on the other; the
  proof is for any number.
- `tcpconnection`: two messages of two chunks and a high-water mark of two
  chunks give direct, partial and buffered writes and the crossing of the mark;
  two closing or reading calls give each pair of them.
- `clients`: delays 2, 4 and 7 reach the cap in two failures, with three calls of
  stop, disconnect or forceClose and any number of retries. Two clients of three
  requests with two in flight; one broken connection; two hashers and two
  receivers with a high-water mark of one record; files of none, one and several
  blocks; downloads shorter and longer than the number of pieces; three names of
  which one is local.
- `streams`: two items of each protocol, so that an item follows a good and a bad
  one, with every cut; two readable bytes over a buffer of initial size one, so
  that it moves and grows; 1899 to 2104 holds every rule for leap years; numbers of
  five bits for the digits, in a buffer of eight.
- `services`: two or three connections, which is one more than a handler works
  on; bounds on requests, ticks, bytes and changes of one to four, each given in
  `MCServices`. The ring of the statistics has three seconds and sees gaps shorter
  than, as long as and longer than itself. The solver works on boards of 2 x 2
  boxes, all fillings of three cells.

### Fairness

Only of what the program's threads do by themselves: a loop thread that can
step does, a call that has begun on another thread goes on (`wakeup`, `Starting`,
`Destructing`, a producer, a worker, `stop`), a handler of a readable timerfd is
called and time passes. In `EventLoop` the expiry of the poll time limit is
deliberately not part of it: the liveness properties hold without. In
`EventLoopThread` it is, because a quit during the start may rely on it. Nobody
is obliged to call anything, the network is not obliged to answer a connector,
and retry timers need not be due. Fairness is weak except for the functors of the
base loop in `TcpServer`: an iteration runs them after whatever handlers it had,
so that a listening socket that is always ready does not keep them back, which
is strong fairness. For the programs of `clients` that run to an end, `ComesToAnEnd`
assumes weak fairness of each as a whole, not of its actions: as long as
anything that moves it on can happen, something does, in any order.

## What is proved

Twenty-five theorems in eight modules, for every value of the constants that the
named assumptions admit. Each assumption stands in the module that declares the
constant and is evaluated by TLC in the run that extends it. A theorem about an
invariant `P` has one shape: an inductive invariant that implies `P`, a lemma that
`Init` establishes it, one lemma per action that it is preserved, and a last step
in temporal logic.

`LoopAndLogProofs`, the event loop (`QuitBound`, which only bounds the model):

- `TypeCorrect`: `Spec => []TypeOK`. `TypeOK` includes that
  `callingPendingFunctors_` is set exactly while a batch is run; the next
  theorem rests on that, because it decides whether the loop wakes itself.
- `NoWakeupIsLost`: `Spec => []NoLostWakeup`. The property speaks of the moment
  in `poll()` and is not inductive. `WakeupPending` extends it to the whole span
  from the taking of a batch to the return of `poll()`. It cannot be
  extended to the handling of events: there `handleRead` resets the eventfd and
  handlers queue without waking, which is right because the batch is taken
  before the next `poll()`.
- `NoQuitIsLost`: `Spec => []NoLostQuit`, along the same lines: a quit by a
  foreign thread is followed by its wakeup; one by the loop thread itself is
  seen by the test of `quit_` before the next `poll()`.
- `LoopIsExecutor`: `Spec => ImplementsExecutor`, the refinement of
  `SerialExecutor`. A step of the loop is the executor's step of the same kind or
  leaves the executor's queue, which is what is left of the batch followed by
  `pendingFunctors_`, alone.

`LoopAndLogProofs`, the log (`LogAssumption`: sizes and intervals are natural
numbers, the period and the limit of buffers positive, `NULL` is no buffer):
`LogKeepsOrder`, that lines reach the files once, in order and without gap but for
the dropped ones; that the spare buffers are back where `threadFunc` asserts it;
that what is dropped of a batch is younger than what is kept; and that no file is
opened twice. `LogInvariant` says of every line where it is
(written, in `toWrite`, in `buffers` or in the current buffer) in this order, that at
the asserts there are enough buffers to take the spares from, and that a roll gives
a name later than every name before (`FileInv`). The written lines are cut and joined
along buffers of buffers; where that asks for induction over a sequence, the proof
takes the least counterexample instead (`LeastNat`), which needs no operator as a
parameter.

`PollersProofs` (`Descriptors`: descriptors are natural numbers, for the poll poller's
complement `-fd - 1`):

- `IndexesAreRight`: `index_` of every channel of the poll poller is the place of its
  own entry, hidden or not, through every swap on removal, and that of the epoll
  poller mirrors the kernel's list, so that `epoll_ctl` never fails. `PollInv` is
  stronger than the property: the array holds nothing but the entries of the
  channels, each as `updateChannel` wrote it last.
- `PollersArePollers`: both implement `Poller` (its safety part; it has no other).
- `WalkIsSafe`: no handler of a walk runs on a destroyed connection, for any number
  of connections. By `WalkInv` the map, the state and the interest in events of a
  connection agree; one that is closed and still with the poller has exactly one
  `connectDestroyed` queued, in this batch or the next; and what the walk has still
  to come to is open.

`TimerQueueProofs` (`NaturalTimes`, `NaturalAddresses`: times, and the addresses that order
timers of one expiration, are natural numbers): `QueueIsSound`, that both indexes
agree and hold live timers, that a cancelled timer is gone, and that the timerfd is
armed whenever a timer waits for it; and `CancelIsExact`, that a step removes no
timer but the one a cancel names. `QueueInv` adds that sequence numbers are given
out once (`NumbersAreUnique`) and that a timer of the batch that was cancelled is in
`cancelingTimers_` until `reset()` has looked (`CancelledIsNoted`). `AlarmInv` is needed
for the timerfd: `reset()` leaves it alone when the first expiration is invalid, and
then the timer that was added by a callback has armed it.

`TcpConnectionProofs` (`SizeAssumption`, `UsesAssumption`): `OutputInOrder` and `ShutdownWaits`,
for any program, those that make the calls of `Uses` included: the peer gets what
was sent, in order, and the write side is shut when the buffer is empty and not
before. For programs that make none of these calls and call `forceClose()`
on the thread of the loop (`Uses = {}` and `Spec`, which has no `foreignForceClose`: the
instance of the passing run; the violation runs show that the others do break it)
`ConnectionCloses` and `CallbacksPaired`: every close ends in the removal from the map, with
one callback up and one down, at most one `connectDestroyed`, and no assertion
failed. The invariant has a part for each stage of a connection (`ConnectingInv`,
`UpInv`, `DownInv`), one for its channel (`ChannelInv`), one for the place in the loop
(`LoopInv`), and one for the functors bound to a raw `this` (`RawInv`: somebody keeps
the connection for as long as they are queued).

`ThreadsProofs` (`LoopAssumption`, `PoolAssumption`, `ServerAssumption`: sizes are natural numbers,
the threads' names differ, there are finitely many producers, a process has at least
one descriptor):

- `LoopHandedOver`: `startLoop` returns a live loop, and the thread does not touch an
  object whose destructor has returned.
- `TasksTakenInOrder`: the tasks taken, followed by the queue, are the tasks put, and a
  bounded queue keeps to its bound, whoever is woken. `PoolInv` counts: the latch
  stands at the number of tasks that have not run, each runs on one worker.
- `NoDescriptorLeaks`: every descriptor is free, spare, taken by other code, or that of
  one connection, also when another thread is faster at the spare one. Rests on `QueueInv`: each connection has at most one functor on
  its way between the loops, of the kind its state calls for.

`ConnectorProofs` (`DelayAssumption`: the delays are positive and in order):
`AttemptsOneByOne`, `NoSocketIsLeaked` and `StopEndsAttempts` hold however early the client is
destructed; `OneAttemptAtATime`, which adds that the connector is at rest when it is
destructed, is proved for programs that destruct the client after the functors of
the connector have run (`~DestructsEarly`), which is the line that
`connector_early_destruct` draws. `Core` is inductive in both cases, `Kept` only in
the second.

`EchoAndBufferProofs`, the buffer (`BufferAssumption`: sizes are natural numbers; `QueueAssumption`:
chunks are sequences of bytes): `IndexesStayInOrder` and `BufferIsByteQueue`, the refinement of
`ByteQueue`. There is a lemma per operator that says what it does to the indexes and
to the bytes between them.

`EchoAndBufferProofs`, the echo servers with a limit (`IdleAssumption`: finitely many
connections, an idle time of at least a second): `IdleAreClosedInTime`, that no timer shuts
down a connection that was heard from within the idle time, but for the second in
which the wheel may be early and the time by which the clock was set forward; that
none which was silent for longer stays, as long as the clock is not set back; and that
`maxconnection` serves no more than it may. `WheelInv` names the last bucket that holds a
connection; `ListInv` says that the list is in the order of the last messages and
relates the age that is computed to the silence.

`RpcProofs` (`RpcAssumption`: each call has its channel, the servers are numbered
from 1): `CallsGetOwnAnswers`, that a call through the balancer ends once, with the
answer to its own request, whatever backends answer in whatever order and whatever
connections break, and that every message that arrives can be parsed. The
invariant follows a call through the two renamings of its id: `IdsApart` on a
channel, `Travels` between balancer and server (under the id the balancer chose there
is at most this call), `AnswersTo` on the way back.

Two remarks on the provers. Lemmas on sequences and ranges are stated for what a
proof needs, rather than taken from the libraries, where these would slow down
every later step. Many leaves name their prover and a limit of 60 seconds; on an
idle machine all need a small part of it.

## What is only model-checked

- Every liveness property, since fairness and ENABLED are beyond the prover:
  `QueuedFunctorRuns`, `QuitEndsLoop`, `StartAndStopReturn`, `TasksRunAndStopReturns`, `LineIsWritten`,
  `BacklogDrains`, `ComesToAnEnd` and the others that `PROJECT.json` lists as temporal.
- What recursive definitions compute for every input: `DeliversWholeItems` (the codecs and
  the HTTP parser) and `ConversionsAreExact`, which need induction over data.
- `ResultsAreExact` and `InFlightIsKept` of the load generators, and `RelayedApart`, `ViewsAgree`
  and `RequestsAnsweredRight` of the servers of the examples: each is a conjunction over
  several small programs whose variables share a state space by `INSTANCE`, and each
  program is small enough for TLC to say most of what there is to say.

## What is not modelled

- Formatting of log lines and time stamps (`Logging`, `Timestamp`), wrappers of
  pthreads, atomics, sockets, addresses, zlib and /proc: their meaning is built
  into the models that use them, and they have no protocol of their own.
- Classes that only set callbacks or format text: `RpcServer`, the inspectors of
  process, performance and system, type aliases, boilerplate.
- Examples that echo, print or measure with one or two callbacks and keep no
  state (`twisted`, `roundtrip`, `zeromq`, `asio/tutorial`, `procmon` and others);
  test programs; the adapters in `contrib`, whose behaviour is that of libraries
  outside the repository; the samples in `socket`, and `note`.
- In the modelled parts: calls of `Connector` and `TcpClient` from other threads
  and a second `connect()`, and destruction of a server that has I/O threads, all
  of which the code marks as unsafe; a second call of `EventLoop::loop()`; the
  blocking version of ttcp; signals and process exit; failing allocation.

The hazards in `PROJECT.json` that have a note instead of a property say why.
