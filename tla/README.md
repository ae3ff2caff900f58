# KnetLib: models, checks and proofs

KnetLib is a reactor-style C++ network library ("one loop per thread"). This
directory holds TLA+ models of its core, the TLC configurations that check them
on small instances, and TLAPS proofs for all sizes. Paths below are
relative to the directory that holds `src/` (the repository) and `tla/`.

## 1. The system

| part | state | operations | talks to |
|---|---|---|---|
| `EventLoop` | `quit_`, `pendingTasks_`, `doingPendingTasks_`, `activeChannels_`, an eventfd | `loop`, `quit`, `runInLoop`, `queueInLoop`, `wakeup`, `doPendingTasks` | every other part queues tasks in it, from any thread |
| `Epoll`, `Channel` | the epoll set; per channel `events_`, `revents_`, `pooling`, `tie_` | `poll`, `updateChannel`, `removeChannel`; `enable*`/`disable*`, `handleEvents` | the loop polls, channels call back their owners by raw pointer |
| `TcpConnection` | `state_` (atomic), `outputBuffer_`, its channel; kept by `shared_ptr` | `send`, `shutdown`, `forceClose`, `stopRead`, `startRead` from any thread; `handleRead/Write/Close/Error` in the loop | loop, channel, owner (`closeCallback_`), application callbacks |
| `TimerQueue`, `Timer` | `timers_` ordered by time, one timerfd, `Timer` objects held by raw pointer | `addTimer`, `cancelTimer`, `handleRead` | loop (tasks and channel), application callbacks |
| `EventLoopThread`, `EventLoopThreadPool` | `loop_`, `exiting_`, the thread; the round-robin index | `startLoop`, `threadFunc`, `stop`; `getNextLoop` | an `EventLoop` on the thread's stack |
| `TcpServer`, `TcpServerSingle`, `Acceptor` | the listening socket, `connections_`, the pool | `start`, `newConnection`, `closeConnection`, `stop` | pool, connections |
| `TcpClient`, `Connector` | `connected_`, `connection_`, `retryTimer_`, `connector_` | `start`, `retry`, `newConnection`, `disconnect`, `closeConnection` | loop, timers, connection |
| `AsyncLogging`, `Logger` | front-end buffers under a mutex, back-end buffers, `running_`, files | `append`, `threadFunc`, `rollFile`, `stop`; global enable/disable | all threads append |
| `Buffer` | a vector, `readerIndex_`, `writerIndex_` | `append`, `prepend`, `retrieve`, `makeSpace`, integers, `readFd`, `swap` | connections read into it and write from it |
| `ThreadPool` | `tasks`, `stop`, a mutex and a condition variable | `add`, the workers' loop, the destructor | any thread adds, tasks may add and wait for futures |
| `InetAddress`, legacy `Server`/`Connection`/`Socket`, `utils` | see section 7 | | |

What is hard here is concurrency and lifetime rather than arithmetic: tasks
pushed by other threads against an `epoll_wait` without timeout; an atomic state
that other threads exchange while the loop closes; raw `this`, `Channel*` and
`Timer*` pointers that outlive a step; calls that come before or after the window
in which they work (`quit` before `loop`, `cancelTimer` after the timer fired);
buffers swapped between two threads. `PROJECT.json` lists each such hazard at its
line, with the properties aimed at it.

What makes each part correct, in one line:

- **EventLoop** - a serial executor: accepted tasks run once, in order, in the
  loop thread, and nothing but the push is needed to get them run.
- **TcpConnection** - the bytes accepted leave in order, a half close comes after
  them and does come, and the connection is closed once and stays closed.
- **TimerQueue** - no timer forgotten or leaked, and none used after it was freed.
- **EventLoopThread** - start and stop return.
- **TcpServer** - initialises a worker before using it, serves every client, leaks no
  descriptor, and leaves connections open until they are closed.
- **TcpClient** - every socket has one owner, an attempt that fails is followed by
  another, only real connections are announced, the retry timer lives exactly as long
  as it is needed.
- **AsyncLogging and Logger** - every line in the files once and in order; stop flushes.
- **Buffer** - a queue of bytes, whatever becomes of the vector underneath.
- **ThreadPool** - every accepted task is run once; the destructor waits for all of them.

## 2. Modules

| module | models | composes |
|---|---|---|
| `Executor` | what `queueInLoop` promises: an abstract serial executor | |
| `EventLoop` | `EventLoop.cpp`, `Epoll::poll` | refines `Executor` |
| `EventLoopThread` | `EventLoopThread.cpp` | extends `EventLoop`, whose steps are its steps |
| `TcpConnection` | `TcpConnection.cpp`, `Channel.cpp`, `Epoll::updateChannel` | its loop is the executor |
| `TimerQueue` | `TimerQueue.cpp`, `Timer.h`, the timer API of `EventLoop.cpp` | its loop is the executor |
| `TcpServer` | `TcpServer.cpp`, `Acceptor.cpp`, `EventLoopThreadPool.cpp` | each of its loops is the executor |
| `TcpClient` | `TcpClient.cpp`, `Connector.cpp` | `TimerQueue` and `TcpConnection` by what they promise |
| `AsyncLogging` | `AsyncLogging.cpp`, `Logger.cpp` | |
| `Buffer` | `Buffer.h`, `Buffer.cpp` | |
| `ThreadPool` | `ThreadPool.cpp`, `ThreadPool.h` | |
| `EventLoopProofs` | theorems | extends `EventLoopThread`, and so `EventLoop` |
| `TcpConnectionProofs`, `TimerQueueProofs`, `TcpServerProofs`, `TcpClientProofs`, `AsyncLoggingProofs`, `BufferProofs`, `ThreadPoolProofs` | theorems | each extends the module it is named after |

The `map` of `PROJECT.json` gives the lines each definition translates.
Definitions marked "Mutated form" are not part of a specification: they are the
plausible bugs the checks are shown to catch (`mutants` in `PROJECT.json`).
Every module has a `TypeOK` (`LifeTypeOK` in `EventLoopThread`) that states the ranges
of its variables; it is proved for `EventLoop`, `TcpClient` and `ThreadPool`, and part of the
inductive invariants of the other proofs in a form without the bounds (`Types`). It
holds in all the passing runs' state spaces, but is not one of their properties.

### EventLoop

`lpc` is where the loop thread is: outside `loop()`, at the `while`, in
`epoll_wait`, in the list of active channels, in a callback, at the swap, in the
batch, in a task. Other threads make two-step calls: the push under `mutex_` (or
`quit_ = true`), then the write to the eventfd; `call[t]` remembers that the write
is still to come, and the loop runs freely in between. The eventfd is a counter
with the limit `EventfdMax`, at which a write fails and is only logged. `enqueued`
and `executed` are history variables. The other file descriptors are one channel
`"io"` that may become ready at any time; its callback is application code, which
may call `queueInLoop` and `quit`.

The refinement mapping to `Executor` takes `tasks \o pendingTasks_` for what
waits: the swap is a stutter.

### EventLoopThread

The owner's `startLoop` and `stop` and the thread's `threadFunc`, around the
actions of `EventLoop`. `startLoop` tests `loop_`, waits on `cond_`, is notified by
the publication or woken for no reason, and tests again. Once it has returned, the
pointer is anybody's: the owner, other threads and the callbacks in the loop queue
tasks and may `quit()` it, also while `stop()` is under way, which makes the two steps
of `Quit` and `Wakeup` as one of the `Threads`. So `stop()` may find a loop that runs,
one that is about to return, or none. `StopEarly` says whether `stop()` may come before
the thread has entered `loop()`.

### TcpConnection

One connection with everything that can reach it. The loop thread alternates
between `Poll`, the callbacks of `handleEventWithGuard` in their order (`todo`),
queued tasks (`queue`) and application code (`user`), in which `send`,
`shutdown`, `forceClose`, `stopRead` and `startRead` may be called. Other threads
call the same operations, split at the load of `state_`, the exchange and the
`queueInLoop`. Data is a sequence of numbered units, so that order, loss and
duplication show. The socket is external: a send buffer of `SndBuf` units, the
peer's FIN, a reset, `SO_ERROR`, and the epoll events these cause. `Alive` says
whether any `shared_ptr` is left: the server's (`owner`), a thread's (`refs`), one in
a queued task, or the guard of `handleEvents`. A failed assert stops the model
(`aborted`), as the default build keeps asserts. The run has every use of the
connection; `Used` and `MaxQueue` only bound it (the operations that are called, and the
tasks in the queue when another thread begins a call). `late` is a history variable
that records the uses at a wrong moment which the code lets happen: a close between
`poll()` and the connection's turn in the batch, an exchange of `state_`, or a switch of
reading, after the close. The properties say that nothing else leads astray. Where the
code goes on with an object that is gone (`lpc = "polled"` or a `stopRead`/`startRead`
task at the head of the queue, and not `Alive`), the model's loop thread stops.

### TimerQueue

Times are relative and in the milliseconds `durationFromNow` rounds up to:
`when_[x]` counts down and `timerfd` is off, counting, or readable at 0. Timer
objects are `unused`, `alive` or `freed`, and a use of a freed one is a `fault`.
`handleRead` is split into taking the batch, each callback (application code, may
add and cancel), the restart or delete after it, and the re-arming. Lateness is
counted to `MaxLate` and saturates there. Addresses are not reused after a delete.
`Poll` and `handleRead` are two steps, because callbacks of other channels may come
between them and arm the timerfd again, so that the read fails; the code logs that
and goes on. `cancelTimer` is called at any time and by anyone, once per Timer; `stray`
is a history variable that records a call which found no entry in `timers_`.

### TcpServer

Loop 0 is the base loop, loops 1 to `numThreads_` the workers, each a serial executor
with its `queue`. `Accept` is one `Acceptor::handleRead` with the `newConnection` it
calls: it picks the loop by `next_` and either makes the connection at once (no
workers) or queues it, written as the connection itself. A connection is in the
backlog, accepted (its descriptor is in a task), connected, or destroyed; `fds` are
the open descriptors, at most `MaxFds`, and `kept` the connections the application
holds. `AppKeeps` says whether `connectionCallback_` stores the connection; the server
does not. Destruction follows the order of the members: the callbacks, then the pool
(each worker quits and is joined, and drops its tasks), then the acceptor; the base
loop is not running then, the workers do what they like. A task or the close of a
connection that comes after the callbacks are gone is the fault `destroyed`, a queued
`start` included, as the base loop may be run without its server. `acceptor_->stop()` has nothing to do there:
`TcpServer` replaces the callback that would fill `connections_`.

### TcpClient

Clients in the thread of one loop. `Connector` and `TcpClient` keep their members:
the Connector's socket, `connected_` and whether its channel is in the epoll set;
`connection_`, `connected_` and `retryTimer_` of the client. Descriptors are numbers,
`socket()` takes the lowest free one, so that a closed descriptor is soon somebody
else's. What matters of the loop is the batch: channels become ready in some order,
`Poll` takes them all, and they are handled one after another by raw pointer, the
timer's channel by running the expired timers in any order. Destroying a Connector
while its pointer is in the batch leaves a `Dead` entry there; other undefined
behaviour is a `fault`. A `TcpConnection` is only its socket here (its own module has
the rest), and the application keeps no copy of it. Other threads call `disconnect()`,
split at its test of `connection_`. The peer accepts, refuses, does not answer, closes
or resets. A client that is destroyed may be made again; a `disconnect()` of another
thread that has returned may have left its task in the queue, which is then `stale`.

`SyncConnect`, `AnswerRace` and `DisconnectRace` are the three things the code does not
handle; they are off in the run and described in section 3.

### Buffer

Every operation is a function of a buffer, a record of the vector (size and data) and
the two indices; there is no RECURSIVE operator. The actions apply them with every
argument the asserts allow, so a run starts each operation in every state that a
sequence of operations reaches. Bytes are digits of base `Base`, and an integer of `w`
bytes is encoded in two's complement, most significant digit first, as `htobe*` does.
`Digits` is the value of a sequence of digits, a recursive function, and `Power(n)` the
value of a one with `n` zeros. The base is even, as 256 is, so that the first byte tells
the sign.
`size_t` arithmetic cannot wrap below the sizes a process can allocate, and is plain
arithmetic here. The reference is the sequence `Contents`.

### ThreadPool

A step is what a worker, `add()` or the destructor does while it holds `task_mtx`, or a
notification, which comes after the unlock and wakes one (or all) of those who wait at
that moment. Waits may end spuriously, but are not assumed to. Tasks may add tasks and
wait for the future of a task accepted later; `MaxBlocked` says how many workers may
wait so at once.

### AsyncLogging and Logger

A buffer is a sequence of line numbers, a `BufferPtr` a sequence of at most one
buffer. The critical sections of `append` and `threadFunc` are steps; the wait, each
buffer's write and the final flush are steps of their own. `rollFile` archives the
file under the current second and the first free serial number. `lost` collects the
lines the code knowingly gives up (backlog of more than 25 buffers, failed `fopen`).
Lines are shorter than a buffer, which the 4 kB line buffer of `Logger.h` ensures.
`LogLine` is `logBase` from the point where the line is formatted: as `useAsyncLogging`
and the instance say, it goes to `append`, nowhere, or to the Logger's own file
(`syncLog`). `Stop` and `Disable` are the steps of `disableAsyncLogging()`. `LogAnytime =
FALSE` means that nobody logs during that call.

## 3. Runs

| run | bounds | shows |
|---|---|---|
| `EventLoop` | 2 threads, 3 tasks, eventfd full after one write | no lost wakeup, FIFO, refinement of the serial executor with progress, `quit()` stops the loop |
| `EventLoopThread` | 2 threads (one the owner), 2 tasks | `startLoop()` returns whether it finds `loop_` set or has to wait; `stop()` returns whoever else uses and quits the loop |
| `TcpConnection` | 1 other thread, 2 units, send buffer of 1, high water mark 2, 1 task queued when a call begins, all operations | in every use: the byte stream, EPOLLOUT on exactly while there is output, the half close after the data; asserts, the single close and the unregistered channel fail only in the ways the properties name |
| `TcpConnection_progress` | the same with 3 units, `send` and `shutdown` by both threads | the byte stream, output drains, `shutdown()` completes |
| `TimerQueue` | 3 timers, delays up to 2 ms, intervals of 1 ms, 1 ms late, 1 task of another thread at a time | always armed in time, no leak, every pending timer runs or is cancelled, a use after free only by a `cancelTimer` that found no entry |
| `TcpServer` | 3 clients, up to 2 workers, 2 descriptors, destroyed at any time | workers initialised before their connections, every client is served, only a task dropped by the destruction leaks its descriptor |
| `AsyncLogging` | 6 lines, 2 lines per buffer, roll at 2 lines, backlog of 2, 2 seconds | the log is complete and ordered, asserts hold, every line reaches a file, `stop()` returns and has flushed, also with lines logged after `disableAsyncLogging()` |
| `TcpClient` | 2 clients, 2 descriptors, one timerfd | every socket has one owner, the retry timer follows its client, only real connections, a client keeps trying |
| `Buffer` | base 2, prepend space 2, initial space 1, up to 3 bytes per call, vector of up to 6 | a byte queue in every reachable state, the asserts of `makeSpace`, integers read back |
| `ThreadPool` | 3 workers, 1 other thread, 4 tasks, 2 workers in `future::get` | every task once, no lost notification, the destructor returns |

Why these bounds are enough for the questions asked. Two threads besides the loop
are enough for two pushes and a quit to interleave with one poll, and three tasks
for one in each of: ran, in the batch, queued. For the invariants of section 5 the
theorems lift the bounds. A send buffer of one unit makes every send of two a partial write, and
three units, in `TcpConnection_progress`, let a send follow a buffered rest. All operations
with three units, and liveness of all operations, are beyond five minutes of TLC, hence
the two runs. `MaxQueue = 1` lets another thread begin a call only with an empty queue,
but what the loop queues meanwhile (two tasks in one callback) and the call's own task
then share it. Three timers allow one running, one
in the same batch and one pending. With three clients the round robin over two
workers wraps, and the third finds no descriptor left. Six lines fill three
buffers, which is what a backlog, two rolls in one second and the reuse of both
spare buffers take. Two clients share the timerfd and a batch, and with two
descriptors each of their sockets reuses the number of an earlier one. A vector of
six with three bytes per call grows more than once, moves its contents to the front
with and without overlap, and fills `readFd`'s extra buffer. With three workers of
which two wait for futures, the third has to run what both wait for, and four tasks
leave one for the destructor to find in the queue.
`CHECK_DEADLOCK FALSE` is used where the system may come to rest (a closed
connection, bounded input used up, everything stopped); `EventLoop` is checked for
deadlock.

Runs that end in a violation, each a disagreement between the code and what the
repository says of it (`findings` in `PROJECT.json`):

| run | what happens |
|---|---|
| `TcpServer_unkept` | nobody but the task of `newConnection` holds the connection (`TcpServer.cpp:112`), so without a copy in the application it is destroyed when the task ends; the echo servers of the README and of `examples/` keep none |
| `AsyncLogging_idle_loss` | a wake-up with nothing logged uses up `newBuffer1`; the next round empties the buffer with the newest lines to replace it |

The code does not handle some uses that nothing rules out. Part of them are in the
passing runs; the properties there name them as what alone leads astray, and these
states are reachable (give TLC the negation as an invariant to get the trace):

- `TcpConnection.cpp:142`: `shutdown()` asserts that the connection is not closed
  (`aborted = "shutdown"`). Another thread may come after the loop has closed it, and so
  may the loop thread alone: `send()` in the same callback meets EPIPE and closes it.
- `TcpConnection.cpp:155`: `shutdown()` or `forceClose()` of another thread loads
  `state_`, the loop closes, the exchange turns `kDisconnected` back into
  `kDisconnecting`, and the connection is closed twice (`closes = 2`), which
  `TcpServerSingle.cpp:105` treats as fatal.
- `TcpConnection.cpp:247`: with reading stopped a reset is reported as HUP and ERR
  without IN, and both callbacks close (`aborted = "handleClose"`).
- `TcpConnection.cpp:174`: `startRead()` puts the channel of a closed connection back
  into the epoll set; `:168` and `:175`: the queued task holds a raw `this` and may find
  the connection destroyed.
- `EventLoop.cpp:93`: a connection closed and released by an earlier callback of the
  batch leaves its `Channel*` dangling in `activeChannels_` before `tie_` can be locked
  (`lpc = "polled"` without `Alive`), although the comment at `Channel.cpp:36-42` and
  `src/README.md:234` expect the tie to prevent it.
- `TimerQueue.cpp:115-117`: `cancelTimer` deletes the Timer also when it found no entry
  for it: one that has run (deleted twice), the one whose callback is running, or one
  later in the batch (both used after). The comment there says that it is safe.
- `TcpServer.cpp:20`, `:49`, `:110`: workers run tasks of, and close connections of, a
  server whose callbacks are destroyed, and a queued `start()` meets a server that is
  gone (`fault = "destroyed"`); the descriptor in a dropped task stays open.
- `TcpClient.cpp:101`: the task of another thread's `disconnect()` holds a raw `this` and
  may run after the client was destroyed (`fault = "disconnect() of a dead client"`).
- `EventLoopThread.cpp:43`: the thread may leave its loop and destroy the EventLoop
  between the two statements of the owner's `quit()`, which then writes a closed eventfd
  (`opc = "wake"` with `thread = "exited"`).

The others would make a property of the run fail altogether, and are flags of the
models. The passing runs stay inside of them; with the flag set in a copy of the run's
cfg, TLC shows the trace:

- `StopEarly = TRUE` in `EventLoopThread`: `loop()` begins with `quit_ = false`
  (`EventLoop.cpp:88`), so a `stop()` right after `startLoop()`, as in
  `test/EventLoopThreadTest.cpp:70`, can be overwritten and then never returns
  (`StopReturns` fails).
- `QueueBeforeLoop = TRUE` in `EventLoop`: a task the loop thread queues outside
  `loop()` is not signalled (`EventLoop.cpp:127`), so `NoLostWakeup` fails.
- `IdleTimeout = TRUE` in `AsyncLogging`: also the assert at `AsyncLogging.cpp:175`.
- `LogAnytime = TRUE`: a line logged during `disableAsyncLogging()` may meet the null
  `currentBuffer_` of the final flush (`NoAssertionFails` fails) or, between the reset of
  the instance and that of `useAsyncLogging`, be dropped (`LogComplete` fails).
- `SyncConnect = TRUE` in `TcpClient`: a `connect()` that answers at once calls
  `handleWrite` from `start()`. If it succeeded, `newConnection` cancels a timer that does
  not exist yet or, by way of `retry()`, the one whose callback is running
  (`TcpClient.cpp:81`, both a `fault`). If it failed, `SO_ERROR` is 0 and the
  failure is announced as a connection (`Connector.cpp:79`, `OnlyRealConnections` fails).
- `AnswerRace = TRUE`: an answer and the timeout of the same attempt in one batch, the
  timer first: `retry()` destroys the Connector whose `Channel*` comes later in the batch
  (`TcpClient.cpp:63`, a `Dead` entry, which nothing handles: the loop is stuck).
- `DisconnectRace = TRUE`: `closeConnection` resets `connection_` between the test and the
  use of another thread's `disconnect()` (`TcpClient.cpp:97`, `fault = "null connection_"`).
- `MaxBlocked = 3` in `ThreadPool`, as many as there are workers: all of them wait for
  tasks that nobody is left to run, and TLC reports the deadlock (with deadlock
  checking on; `PoolProgresses` fails).

## 4. Fairness

- `EventLoop`: weak fairness of what the loop thread does by itself (it is
  scheduled and callbacks return) and of each pending eventfd write. I/O need not
  happen and nobody has to call anything, so progress rests on the wakeup alone.
- `EventLoopThread`: the same, each thread finishes the call it is in while the EventLoop
  exists, and the owner that was notified tests `loop_` again. No wait has to end spuriously.
- `TcpConnection`: callbacks return; strong fairness of `Poll`, `HandleEvents` and `RunTask`,
  because every turn of `loop()` polls, handles all active channels and then runs the
  queue, so other work delays none of them for ever; a thread finishes its call; the peer takes data until it goes
  away (without that `OutputDrains` would be a claim about the network).
- `TimerQueue`: time passes, callbacks return, every turn polls the timerfd and handles
  its channel (strong fairness, for the same reason).
- `TcpServer`: each loop runs its tasks and handles its events; clients go away in
  the end, without which those that wait for a descriptor might wait for ever.
- `AsyncLogging`: the back-end thread is scheduled, its timed wait ends, and
  `disableAsyncLogging()` goes on when its join can return.
- `TcpClient`: the loop handles its batch and polls again (strong fairness of `Poll`,
  which calls of the application interrupt but do not replace), threads finish their
  calls, timers expire, and of infinitely many attempts that could be answered before
  their timeout one is accepted. `KeepsTrying` speaks of behaviours in which from some
  point on nothing is refused.
- `ThreadPool`: every thread is scheduled, tasks return once the future they wait for is
  ready, and a notification follows its `add()`. No wait has to end spuriously.

## 5. Proofs

The eight proof modules are checked by TLAPS from the assumptions named in the modules
they extend: sets that have to be finite or disjoint, bounds that are naturals, flags
that are Boolean, an even base of the digits, and a descriptor for every client (the code
ends the process when `socket()` fails). The theorems hold for every value of the constants within these:
any number of threads, timers, clients or lines, any sizes, with no bound on how many
of anything there are. Each follows the same pattern, an inductive invariant (`IInv`
and stronger ones) that holds initially, is kept by each action, and implies the
property. Every inductive invariant was checked with TLC on the run's instance before
it was proved.

Where a property needs a use of the component that the code does not enforce, the
theorem has that as a hypothesis, which is the flag of the model that the passing run
sets too; section 3 says what goes wrong without it. A property that names its own
exceptions (`late`, `stray`, a dropped task) needs none.

| theorem | property | hypothesis |
|---|---|---|
| `TypeCorrect`, `TasksAreFifo`, `ImplementsExecutorSafety` | `TypeOK`, `Fifo`, the safety part of `Executor` | |
| `WakeupsAreNotLost` | `NoLostWakeup` | `QueueBeforeLoop = FALSE` |
| `StartedLoopIsFifo` | `Fifo` for a loop run by `EventLoopThread` | |
| `StreamKept`, `WritingMatchesOutput`, `HalfCloseAfterOutput` | `ByteStream`, `WritingIffOutput`, `HalfCloseFlushes` | |
| `AssertsAlwaysHold`, `ClosesOnce`, `ClosedStaysUnregistered` | `AssertsHold`, `ClosedOnce`, `ClosedChannelUnregistered` | |
| `TimersNeverForgotten`, `TimersNeverLeak`, `UseAfterFreeNeedsStray` | `NoForgottenTimer`, `NoLeak`, `UseAfterFreeOnlyByStray` | |
| `InitComesFirst`, `FdsAlwaysOwned` | `InitBeforeConnections`, `FdsOwned` | |
| `TypeCorrect`, `SocketOwnedTheorem`, `TimerFollowsClientTheorem` | `TypeOK`, `SocketOwned`, `TimerFollowsClient` of `TcpClient` | |
| `OnlyRealConnectionsTheorem` | `OnlyRealConnections` | `AsyncConnect`: `SyncConnect = FALSE` |
| `OrderlyStopFlushes` | `StopFlushes` | `OrderlyStop`: `LogAnytime = FALSE` |
| `NeverIdleKeepsAsserts`, `NeverIdleKeepsLog` | `NoAssertionFails`, `LogComplete` | `NeverIdle`: `OrderlyStop` and `IdleTimeout = FALSE` |
| `SpaceAlwaysMade`, `AlwaysAByteQueue`, `IntegersAlwaysReadBack` | `SpaceIsMade`, `ActsAsByteQueue`, `IntegersReadBack` | |
| `TasksRunOnce` | `EveryTaskOnce` | |

### The arguments

- **EventLoop.** `QueueInv` is inductive whatever `QueueBeforeLoop` is. `Fifo` alone is
  not: that the batch is empty at the swap needs `PhaseInv` (the batch is empty unless
  `doingPendingTasks_`). `NoLostWakeup` speaks of the moment
  of `epoll_wait` only; its strengthening `SignalInv` says that a non-empty queue is
  signalled (eventfd positive, or a thread about to write it) everywhere *except* between
  the return of `epoll_wait` and the swap, where the signal may be consumed because the
  swap is still to come. The refinement maps every step to a step of `Executor` or a
  stutter, using `QueueInv`.
- **EventLoopThread.** Every step of `LifeNext` is a step of the loop or leaves it alone
  (`LifeStepIsLoopStep`), so `QueueInv` carries over, whoever quits the loop.
- **TcpConnection.** `ByteStream` and `WritingIffOutput` need each other: `sendInLoop`
  writes directly only while the channel is not writing, which keeps the order only
  because then nothing is buffered. `OutputInv` has both and, for `HalfCloseFlushes`, that
  there is no output after the write side is shut down. A step does one of three things
  to the output (`OutputStep`: nothing, take on data, write some of it), and that is what
  is shown of each action. The life of the connection is treated in the same way: a step
  closes an open connection (`Closes`) or leaves it as it is (`Stays`), except for an
  exchange or a switch of reading after the close, which `late` then holds. So `CloseInv`
  says that closed is closed until an exchange comes late, and `EventsInv` that what
  `poll()` returned is still true when the callbacks act on it: there is output when
  `handleWrite` is called, which comes last; a hang-up with EPOLLIN is left to
  `handleRead`, which looks at `state_` first; and an error is handled first.
- **TimerQueue.** `NoForgottenTimer` is inductive with the types and `BatchInv` (a batch
  exists only inside `handleRead`): an insert arms the timerfd or finds a timer that is no
  later (`InsertArms`), a cancel may leave it set too early, never too late, and a
  millisecond passes for both. `NoLeak` holds because each step moves a Timer or frees it.
  `UseAfterFreeOnlyByStray` needs `AliveInv`, which holds until a cancel is stray
  (`SafeInv`): pending, batched and queued Timers are alive and each in one place, so that
  a cancel which finds its Timer in `timers_` frees one that neither the batch nor a queued
  `addTimer` still points to.
- **TcpServer.** `StartInv` and `WorkerInv` say what the queues can hold: at most one
  `start` in the base loop's, and in a worker's, in front of all connections, the task that
  calls `threadInitCallback_` until it has run. `ConnInv` says that a connection is
  accepted once and queued only in the loop it was assigned to, until it runs there or
  the loop is stopped. `OwnedInv` adds to `FdsOwned` that a descriptor is that of a
  connection that was accepted.
- **TcpClient.** `SocketOwned` holds whichever races are possible. Each client has at most
  one socket to close (`SockOf`): its Connector's until the hand-over, `connection_` after
  it. So there are no more open descriptors than clients, and one that starts an attempt
  finds a free one (`SpareFd`, by counting), which is what the types need. `ListInv` and
  `ActiveLive` say that a channel waits once, in `ready` or `batch`, and that its object is
  there and has what it waits to handle; a Connector's channel is then that of an
  attempt that was answered, hence `OnlyRealConnections`. For `TimerFollowsClient`,
  `StartedInv` ties the timers to `retryTimer_`, so that the destructor, which looks at
  the latter, leaves none; `NeedInv` says that who is started and not connected has one.
  A callback must not reach `newConnection`'s cancel for a second time or without a timer:
  `WaitInv` says that it waits once, and for a timer that exists, which needs `OrderInv`,
  that in a batch the callbacks of expired timers come before every channel left.
- **AsyncLogging.** `FlushInv` follows the stop: `running_` is cleared, the back end leaves
  its loop only then, takes all, writes it, ends, and only then the join returns.
  `SpareInv` counts buffers: the back end collects with both of its spare buffers and then
  has at least as many as it has to give back (`Wanted`), also after it has dropped a
  backlog, which leaves two. `LogComplete` is proved of one sequence, `Whole`: the rolled
  files second by second, the log file, what the back end has taken and not written, what
  waits in the front end, the Logger's own file. A step leaves `Whole` as it is (a buffer
  is moved, taken or written, a file is rolled), appends the next line, or cuts out a
  segment whose lines become `lost`; each keeps it ascending and complete (`LogInv`). That
  needs that files are rolled under the current second only, which is the last one with
  files (`WriteInv`). What `FlattenSeq` makes of a concatenation is proved by induction,
  for which `NatSet` is enough: a set of naturals that has 0 and with `n` also `n + 1` has
  all of them, because its complement would have a least element.
- **Buffer.** The invariant is only that the indices are in order and that the vector holds
  the reserved space; the work is in the lemmas about `Copy`, `MoveToFront`, `Resize` and the
  operations built on them, pointwise over the bytes, an overlapping move included. For `IntegersReadBack`, `DigitsConcat`
  says that the value of two sequences of digits is the value of the first times a power
  plus that of the second, and `DigitAt` that quotient and remainder of the value give each
  digit back, both by induction with `NatSet`; so the bytes of an integer are those of
  its value, and in an even base the upper half of the values are the negative ones.
- **ThreadPool.** Tasks are numbered as they are accepted, so those taken are `1..Taken` and
  the queue holds the rest in order (`QueueInv`). Each task taken was run once or is with
  exactly one worker (`WorkerInv`, `RunsInv`); a worker leaves only a stopped pool with an
  empty queue, which stays so (`EndInv`).

### Model-checked only

- Liveness (progress of the executor included), which rests on fairness: `QuitStopsLoop`,
  `StartReturns`, both `StopReturns`, `ShutdownCompletes`, `OutputDrains`, `TimerRuns`, `Served`,
  `LineReachesFile`, `KeepsTrying`, `PoolProgresses`.

Every invariant that a run checks is stated by a theorem.

## 6. Plan

Done: all parts that keep state of their own, with the exceptions of section 7, and a
theorem for each safety property. What is left is liveness, which stays with TLC as long
as the provers cannot reason about fairness, and the set of `TcpServerSingle`.

## 7. Not modelled

- `TcpServerSingle`'s `connections_` as a set. Inside `TcpServer` it stays empty, and a
  single connection with its owner is part of `TcpConnection`. Its `stop()` and its
  destructor iterate over the set while `forceClose()` erases the current element through
  `closeConnection` (`TcpServerSingle.cpp:23`, `:70`), so they are undefined whenever
  there is a connection: that is read off the code without a model.
- `Logger`: formatting, the level filter, `setLogFile`, fatal messages (the process aborts)
  and a second `setAsyncLogging()`, which stops the instance as `disableAsyncLogging()`
  does and starts a new one.
- `InetAddress`, `Timestamp`, `utils` (conversions and I/O without state); the legacy
  `Server`, `Connection` and `Socket` (thin wrappers kept beside the library); the tests,
  examples and scripts.
- Failing system calls that the code only logs (`epoll_ctl`, `timerfd_settime`), `accept4()`
  errors that it treats as fatal, destructors of a loop or a timer queue that still has
  work, and a `TcpServer` or `TcpClient` destroyed in another thread than its loop's.
- A connection lost after it was established is not retried by `TcpClient`, whose timer
  was cancelled; the model has this, and no document says otherwise.
