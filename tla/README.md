# A TLA+ verification project for fppnet

fppnet is a C++ network library in the style of muduo: one event loop per
thread, non-blocking sockets, level-triggered epoll, connections owned by
`shared_ptr`, work handed from thread to thread as functors.  This directory
holds TLA+ models of its components, TLC configurations that check them on
small instances, and proofs checked by TLAPS.  `PROJECT.json` lists, for every
definition that models code, the lines it models; file names below are relative
to the repository's `src/net/` unless a directory is given; those of the base
library are in `src/base/thread/`, `src/base/logging/` and `src/base/datetime/`.

## 1. Inventory of the system

### Reactor

| Component | State | Operations | Interacts with |
|---|---|---|---|
| `EventLoop` | `looping_`, `quit_`, `callingPendingFunctors_`, `pendingFunctors_` (under `mutex_`), the eventfd, `activeChannels_` | `loop`, `quit`, `runInLoop`, `queueInLoop`, `wakeup`, `handleRead`, `doPendingFunctors`, timers by `TimerQueue` | every other class of `net/` |
| `Channel`, `EPoller` (and the unused `Poller`) | `events_`, `revents_`, `index_`; the map of channels and the epoll set | enable/disable, `handleEvent`; `poll`, `updateChannel`, `removeChannel` | called by the owner of the channel, on its loop's thread |
| `TimerQueue`, `Timer` | `timers_` by expiration, `activeTimers_` by address, `cancelingTimers_`, the timerfd; each `Timer`'s expiration, interval, sequence | `addTimer`, `cancel` (any thread), `addTimerInLoop`, `cancelInLoop`, `handleRead`, `getExpired`, `reset` | queued through `EventLoop::runInLoop`; its callbacks may add and cancel timers |
| `EventLoopThread` | `loop_` under `mutex_`/`cond_`, the thread, a loop on the thread's stack | constructor, `startLoop`, `threadFunc`, destructor (quit and join) | owner thread and loop thread |
| `EventLoopThreadPool` | `numThreads_`, `loops_`, `next_` | `setThreadNum`, `start`, `getNextLoop` | chooses the loop of a connection |

### Connections

| Component | State | Operations | Interacts with |
|---|---|---|---|
| `Acceptor` | listening socket and channel | `listen`, `handleRead` | calls `TcpServer::newConnection` |
| `TcpServer` | `connections_`, `started_`, the pool | `start`, `newConnection`, `removeConnection`, `removeConnectionInLoop` | base loop and I/O loops |
| `TcpConnection` | `state_`, the channel, `inputBuffer_`, `outputBuffer_` | `send`, `shutdown`, `connectEstablished`, `handleRead/Write/Close/Error`, `connectDestroyed` | user callbacks, its loop, the server |
| `Connector`, `TcpClient` | connection state machine, retry delay; one connection | `start`, `restart`, `stop`, `connect`, `retry`, `disconnect` | a retry timer, user threads |
| `Buffer` | one vector and two indices | `append`, `prepend`, `retrieve*`, `ensureWritableBytes`, `shrink`, `readFd` | `TcpConnection` |
| `Socket`, `SocketsOps`, `InetAddress` | a descriptor, an address | system calls | |

### Base library (`src/base/`)

| Component | State | Operations |
|---|---|---|
| `BlockingQueue`, `BoundedBlockingQueue`, `CountDownLatch`, `MutexLock`, `Condition` | a deque or counter under a mutex, condition variables | `put`/`take`, `wait`/`countDown` |
| `ThreadPool`, `Thread` | task queue, `running_`, worker threads | `start`, `stop`, `run`, `take` |
| `SignalSlot`, `WeakCallback`, `Singleton`, `ThreadLocal`, `Atomic` | slot lists, one object | connect, call |
| `AsyncLogging` (two versions), `LogFile`, `LogStream`, `Logging` | front-end buffers under a mutex, a back-end thread, the log file | `append`, `stop`, `threadFunc`, `rollFile` |
| `Date`, `Timestamp`, `TimeZone` | a day number, microseconds, a table of transitions read from a zone file | `getJulianDayNumber`, `getYearMonthDay`, `toUtcTime`, `fromUtcTime`, `toLocalTime`, `fromLocalTime` |

### What is hard here, and what makes each part correct

* *Hand-over between threads.*  A functor is pushed under a mutex, but the
  decision to wake the loop and the write of the eventfd come after the unlock,
  and the loop drains the eventfd, swaps the vector and goes back to sleep in
  between.  Correct: no functor and no `quit()` waits in a sleeping loop without
  a wakeup under way, every functor runs once, in order.
* *Birth and death of a loop.*  The thread starts before the members it uses
  are initialised; `loop()` clears a `quit_` that came too early.  Correct:
  `startLoop` returns a loop that exists, the destructor joins.
* *Ownership across loops.*  Closing a connection goes I/O loop → base loop →
  I/O loop, from inside the handler of the channel that will be destroyed.
  Correct: no assert fails, nothing is destroyed while in use, callbacks come as
  up, then down, and a closed connection is released.
* *Timers that act on timers.*  Callbacks and other threads add, cancel and
  repeat timers while expired ones are being run, and addresses are used again.
  Correct: both sets agree, no leak or double deletion, the timerfd is armed for
  the earliest timer, a cancelled timer stays out, a due timer runs.
* *Index arithmetic of `Buffer`.*  Growing, moving, reading in two parts.
  Correct: it is a byte queue.
* *Retries against decisions of the user.*  `Connector` retries by timers, `TcpClient`
  reconnects when the peer closes, and the user stops, connects again, disconnects or
  destroys the client meanwhile; callbacks hold raw `this`.  Correct: no assert fails,
  one attempt at a time, no descriptor leaks, `stop()` lasts, and otherwise a
  connection comes about.
* *Monitors and stop.*  `ThreadPool` notifies one worker per task and stops without
  its mutex; spurious wakeups.  Correct: no task is lost or run twice, nobody sleeps
  over a task, `stop()` returns.
* *The log under pressure.*  Appenders fill buffers while the thread of the log swaps,
  drops, writes, rolls files and gives buffers back; `fwrite` may fail; `stop()` comes
  at any time.  Correct: every line is in one place, in order, or accounted for.
* *A line of the log.*  A text of the current second cached per thread while the clock
  may be set back, a buffer of 4000 bytes, a FATAL line that must be out before the
  program ends.
* *Calendar arithmetic.*  Division of negative numbers, leap years, an hour that the
  clock shows twice.  Correct: the conversions invert each other.

The `hazards` of `PROJECT.json` list these at their lines, with the properties
that watch each of them.

## 2. Modules and how they correspond to the code

**`TaskQueue`** is what `EventLoop` promises: functors are executed one at a
time, each once, in the order of submission.

**`EventLoop`** is one loop with its loop thread and other threads that call
it.  `pc` is the place of the loop thread; `looping`, `quit`, `calling`,
`pending`, `functors` are the code's variables.  `queueInLoop` and `quit` are two
steps each (`QueueInLoop`, `QueueInLoopReturn`; `Quit`, `QuitReturn`): first the
shared state, then the eventfd.  `doPendingFunctors` is the swap, one step per
functor, and the return.  The counter of the eventfd is abstracted to "readable",
a functor to its number.  User code runs in callbacks and functors
(`InUserCode`) and may call anything there.

**`EventLoopThread`** EXTENDS `EventLoop`: its loop thread executes
`threadFunc`, one of the callers owns the object.  Constructor, `startLoop` and
destructor are steps of the owner; the initialisation of `mutex_` is a step of
the constructor that frees the mutex, whoever holds it.  With `CtorFirst` the new
thread reaches the lock after the constructor has finished.

**`EventLoopThreadPool`** is the sequential choice of loops.  **`PooledServer`** EXTENDS
`TcpServer` and the pool with `setThreadNum` and `start` on the base loop's thread, where
the pool asserts to be; `Accept` is `newConnection` with the loop that `getNextLoop`
returns.  Before `start` the acceptor does not listen and nothing comes in.

**`TcpServer`** composes `TcpServer`, `TcpConnection`, `Channel`, `EPoller` and
the accepting half of `Acceptor` on a base loop and I/O loops.  Of `EventLoop` it
uses what is proved of it: each loop has a `queue` of functors and a `phase` (waiting in
`poll`, handling the channels that were `active`, executing functors), and `todo[l]` is
what its thread does next: the rest of a handler or of the functors swapped out.  `Poll`
fills `active` with the events of that moment, `Dispatch` takes one channel at a time
and turns its events into the callbacks of `Channel::handleEvent`, so that an event is
handled although a callback before it changed the connection.  A handler is one step up to the point where
it calls user code or another loop.  `Alive(c)` is the reference count:
the server's map, functors bound to a `shared_ptr`, functors of the batch being
executed, calls under way; `send` and `shutdown` bind the raw `this` and keep
nothing alive.  The kernel is a choice: what epoll reports (`Revents`), how much
a write takes (`WriteResults`), what the peer does.  A callback may call `send` and
`shutdown` of every live connection of its loop (`MayUse`); setups with `own` have callbacks
that use only the connection they are called for.  After a failed assert or a
use of a destroyed object the model stops: the build is a Debug build, so an
assert aborts, and after the other nothing is known.

**`TimerQueue`** has the two sets, the heap of `Timer` objects (addresses are
reused, sequences are not), the timerfd and the clock.  `addTimer` of another
thread is three steps: allocate, queue, read the sequence for the `TimerId`.

**`Buffer`** is the vector with its two indices, next to `content`, the byte
queue it stands for.  `ShrinkAtFront` says of the user that it calls `shrink` only while
the content starts at `kCheapPrepend`; `shrink` itself has no such condition.

**`Connector`** is the state machine of one connector: `connect_`, `state_`, the
channel of the attempt, the retry delay and the timer.  The loop thread has a
`queue` and a `todo` as in `TcpServer`; `connect(2)` ends in one of the outcomes
the code tells apart (`ConnectResults`).  `retry` is two steps, because `stop()` of
another thread may come between its test of `connect_` and its timer.  `GetExpired` is the
timerfd's handler: it takes any of the pending timers out of the queue and puts the batch in
front of `todo`, and from then on they all run, cancelled or not (`TimerQueue.cpp:171-173`).
Time is abstracted: a pending timer may be due in every iteration after the one that set it
(the shortest delay is half a second).

**`TcpClient`** EXTENDS `Connector` with the client: `connect`, `disconnect`, `stop`,
`newConnection`, `removeConnection`, the destructor, and of `TcpConnection` the way
from up to destroyed.  The user is code on the loop thread or another thread; a call of
the other thread is one step per access to shared state.  What may be called when is in
`MayCall` and `MayConnect`: `connect()` once, or again after `stop()` when the connector
has come to rest (otherwise `Connector.cpp:41` and `:108` assert); the destructor on the
loop thread (`TcpClient.cpp:56` names the race of any other), in any callback, functor or
timer.  The code takes more for granted of its users, and a setup says whether they are
`careful`: a careful user does not connect again in a timer of the batch that holds the
cancelled retry timer; keeps a pointer to the connection when it destroys the client, and
does not do so in the iteration that connected it; and, when it destroys a client that is
connecting, does so no more than a second before the attempt ends.  None of these is a
condition of the code; what happens to other users is in section 3.

**`LogFile`** and **`BlockingQueue`** are the parts of `AsyncLogging`: the file with its
roll by size and by period, its flush and a `fwrite` that may fail, and the monitors
`BlockingQueue` and `BoundedBlockingQueue` (capacity `Unbounded` or a number).
**`AsyncLogging`** composes them with the appenders, the thread of the log and the owner
that starts and stops it; `backend` chooses between `AsyncLoggingDoubleBuffering` and
`AsyncLoggingT`.  `append` and the critical section of `threadFunc` hold the mutex and
are one step each; the wait may end without reason.

**`ThreadPool`** has workers, the queue, `mutex_` and `cond_`, and the owner, who uses it
as `ThreadPool_test.cc` does: start, tasks that count a `CountDownLatch` down, perhaps
wait for it, stop.  `take` is split at the points where `stop()`, which does not lock,
may come.  With `StopRace = FALSE`, `stop()` notifies when no worker is between its test
and its wait.

**`LogStream`** formats operands into the fixed buffer: a text is appended whole or not
at all, a number needs `kMaxNumericSize` bytes; the digits of integers are those of
`convert` and `convertHex`.  **`Logging`** EXTENDS it with the `Logger` each thread makes
for a line, the cached time, the settings shared by all threads and the end of the
program after FATAL.

**`Date`** has the two formulas of `Date.cc`, and the calendar (`LeapYear`, `NextDay`)
as their reference.  **`TimeZone`** has the table that `readTimeZoneFile` makes of a zone
file and the four conversions; a local `struct tm` is kept as the seconds its fields spell,
with its flag.  `fillHMS` and the borrow of `toUtcTime` follow C's truncating division.

**`EventLoopProofs`** (with `EventLoopThread`), **`TcpServerProofs`** (with `PooledServer` and
`EventLoopThreadPool`), **`BufferProofs`, `TimeZoneProofs`** (with `Date`), **`ThreadPoolProofs`, `TimerQueueProofs`,
`AsyncLoggingProofs`** (with `LogFile`) and **`TcpClientProofs`** (with `Connector`) hold the
theorems.  **`MCTcpServer`, `MCTcpClient`, `MCBuffer`,
`MCLogging`, `MCTimeZone`** define the instances for TLC: which servers and clients are
looked at, which inputs, zones and instants are put in.

## 3. Runs

### Passing

| Run | Checks | Bounds |
|---|---|---|
| `EventLoopThread` | `StartLoopResult`, `StartLoopReturns`, `RunningLoopIsJoined` of the thread; `Inv` (inductive invariant), `PromptWakeup`, `ImplementsTaskQueue`, `FunctorsRun`, `QuitStops` of the loop it runs | owner and one more user, one I/O channel, four functors, spurious wakeups, `quit()` by anyone: enough for a swap with several functors, functors that queue functors during it, and two threads between push and wakeup |
| `TcpServer` | `NoAssertFails`, `NoStaleThis`, `UpThenDown`, `NoDanglingChannel`, `RoundRobin`, `ClosedIsReleased` | six servers, `SoundSetups`, each from `setThreadNum` and `start` on: two connections on one loop with all callbacks, which use either connection; one connection across two loops with three sends and two messages; two connections on two I/O loops; one connection across two loops with a write-complete callback, and with a user thread; two connections on one I/O loop whose callbacks use either.  In the last three the code's races are met (`CallbacksOnly` is false): there the run checks `UpThenDown` and the threads of `NoStaleThis` |
| `TimerQueue` | `SetsAgree`, `OneOwner`, `ArmedForEarliest`, `CancelledStaysOut`, `DueTimersRun` | two timers at two addresses, one-shot or repeating, one other thread, expirations up to 3, four ticks: cancellation before, during and after expiry, equal expirations, an overdue insertion |
| `Buffer` | `HoldsContent`, `SpaceIsMade` | prepend area 1, initial size 2, inputs up to 3 bytes of two values, contents that are added to up to 2: the vector is grown, moved, shrunk (at the front) and read into across its end |
| `TcpClient` | `NoAssertFails`, `SocketsOwned`, `NoStaleThis`, `StopHolds`, `Reconnects` | three users (`SoundSetups`): code of the loop thread that stops, connects again and disconnects a client with retry; one that destroys it; another thread that stops and disconnects; all of them careful.  Two connections: one closed by the peer and its successor; all retry delays up to the limit |
| `AsyncLogging` | `RollsInTime`, `EveryLineOnce`, `BuffersComeBack`, `StoppedIsOnDisk`, `LogMakesProgress` | four lines of two lengths; buffers in which one line, two lines or the longer line do not fit; a limit of two buffers instead of 25, so that lines are dropped; queues without bound and of capacity one; rolls after 2 bytes and every 2 seconds, checked at every second line.  `StoppedIsOnDisk` says of the queue that a line put before the stop message is written when `stop()` returns; double buffering does not promise that, see below |
| `ThreadPool` | `OneAwakePerTask`, `EachTaskOnce`, `PoolMakesProgress` | up to three workers, three tasks, spurious wakeups; no thread at all too (`run` executes the task itself) |
| `TimeZone` | `UtcFollowsCalendar`, `LocalTimeRoundTrip` | quarters of an hour around the transitions of six zones, those of `TimeZone_unittest.cc` among them, midnights at ends of months, leap days and before the epoch; zone files that end early |
| `Logging` | `LineTellsItsTime`, `LineIsWhole`, `FatalIsWritten` | two threads, a clock that shows two seconds and may be set back, two lines, operands that leave exactly the room of a number or less, the smallest int |

The bounds appear in the guards under their names (`MaxFunctors`, `MaxQueue`,
`MaxNow`, `setup.sends`, ...).  `MaxNow` stops the clock: its last tick happens
while the loop polls, and nothing is inserted after it (`BeforeLastTick`), so
that `DueTimersRun` is not refuted by the end of time.  Deadlock is not checked
in `TcpServer` (all connections released, or a stop after an assert) and in
`TimerQueue` (the clock stopped).

Likewise `MaxConns`, whose last connection is not closed by its peer, `MaxLines`,
`MaxTasks`, `MaxTime`.  Deadlock is not checked either where a client has nothing left to
do (`TcpClient`), after `stop()` (`AsyncLogging`, `ThreadPool`) and after `abort()`
(`Logging`).  The largest runs, `AsyncLogging`, `Logging` and `TcpServer`, have between
two and four hundred thousand states; `Logging` uses the symmetry of its threads, which
no property distinguishes.

In `TcpServer`, a thread of the user that calls `send` or `shutdown` meets the
races listed below, so all properties but `UpThenDown`, `RoundRobin` and the part of
`NoStaleThis` that is about threads are stated for a server whose user stays in callbacks
(`CallbacksOnly`).  When it has I/O threads, the callbacks may use only the connection they
are called for, and there is no write-complete callback, because of `TcpServerDoubleClose`.

### Where the code does not do what is said of it

Three runs end in a violation:

* `TcpServerDoubleClose` (`AssertionsHold`): a send between `handleClose` and
  `connectDestroyed` puts the channel back into epoll; the second hang-up calls
  `handleClose` again and leads to `assert(n == 1)` (`TcpServer.cpp:97`).  The run has a
  write-complete callback that sends; with `Setups <- OthersSendSetups` a callback of
  another connection on the same I/O loop does it.
* `TcpClientCareless` (`StartsIdle`): a retry timer and another timer expire together, and
  the other one calls `stop()` and `connect()`.  `stop()` cannot take the retry timer out of
  the batch any more, and `startInLoop` runs a second time, in `kConnecting`: the assert of
  `Connector.cpp:41`.
* `BufferShrink` (`IndicesInRange`): `Buffer::shrink` leaves the indices of the old vector
  (`Buffer.h:127-131`), which after a `retrieve` may lie behind the end of the new one, and
  point to other bytes in any case.  Nothing in the repository calls it.

The models show more of this kind.  Each line says what to change in a cfg to see TLC's
counterexample.

| To reproduce | What happens |
|---|---|
| `EventLoopThread.cfg` with `CtorFirst = FALSE`, `UserQuits = FALSE`, `MaxFunctors = 0`: `StartLoopReturns` fails | the new thread locks `mutex_` before the constructor initialises it and the notification is lost (`EventLoopThread.cpp:10`, members in `EventLoopThread.h:27-29`) |
| `EventLoopThread.cfg` with `UserQuits = FALSE`, `PROPERTY DtorReturns` | a `quit()` between the publication of `loop_` and the entry of `loop()` is cleared there; the destructor hangs (`EventLoop.cpp:85`) |
| `TcpServer.cfg` with `Setups <- UserSetups`, `INVARIANT NoDanglingFunctor` | `send` and `shutdown` of another thread queue the raw `this`, behind `connectDestroyed` (`TcpConnection.cpp:46`, `:88`); `TcpConnection.h:59` says "Thread safe." |
| `TcpServer.cfg` with `Setups <- OneLoopSetups`, `INVARIANT ShutdownIsCarriedOut` | `handleWrite` tests `kDisconnected` where `shutdown` set `kDisconnecting`: a half close that had to wait for output never happens (`TcpConnection.cpp:154`) |
| `TimerQueue.cfg` with `INVARIANT AddTimerReadsItsTimer` | `addTimer` reads the sequence of a `Timer` that the loop thread may have deleted (`TimerQueue.cpp:117`) |
| `TcpClient.cfg` with `Setups <- LostStopSetups` (`StopHolds` fails) | another thread stops a client while its loop thread is between the test of `connect_` and `restart()`: the client reconnects (`TcpClient.cpp:141-145`, `Connector.cpp:95`) |
| `TcpClient.cfg` with `Setups <- ConnectAgainSetups` (`NoAssertFails`, `SocketsOwned` fail) | another thread calls `connect()` after `stop()` while the first `startInLoop` is still queued: `state_` is `kDisconnected` and there is no channel, so nothing it can look at tells it, and two attempts start (`Connector.cpp:33`, `:108`) |
| `TcpClient.cfg` with `Setups <- DestroyAnytimeSetups` (`NoAssertFails`, `NoStaleThis`, `SocketsOwned` fail) | the client is destroyed in its connection callback, and with it a `Connector` whose `resetChannel` is still queued; or its connector is still waiting for `connect()` when the second is over: `assert(!channel_)` (`Connector.cpp:29`) fails and the functor is left with a raw `this`.  A connection that nobody else points to goes with the client (`TcpClient.cpp:45-66`), although its channel is registered and perhaps among the active ones of this iteration: its `handleClose` runs on a dead object |
| `ThreadPool.cfg` with `StopRace = TRUE` (`PoolMakesProgress` fails) | `stop()` notifies while a worker is between its test and its wait; the worker sleeps and `stop()` never joins it (`ThreadPool.cc:50`) |
| a cfg for module `EventLoop` with its constants from `EventLoopThread.cfg`, `EarlyQueue = TRUE`, `SPECIFICATION Spec`, `INVARIANT PromptWakeup` | a functor queued by the loop's own thread *before* `loop()` gets no wakeup and waits for the poll timeout (`EventLoop.cpp:164`) |

Met while modelling, without a property:

* `quit()` of another thread writes the eventfd after the loop may have been
  destroyed by its thread (`EventLoop.cpp:115`): `ThreadEnd` between `DtorQuit` and
  `DtorQuitReturn`.
* `shutdown` of another thread tests and sets `state_` in two steps
  (`TcpConnection.cpp:86-87`) and can take a connection back from `kDisconnected` to
  `kDisconnecting`.
* A cancellation that overtakes the queued `addTimerInLoop` is forgotten
  (`TimerQueue.cpp:150`): `NoteCancel` notes the timers that are in `timers_` or are being
  run.  A timer cancelled by another callback of the same batch still runs once.
* Functors queued after the last swap before `quit()` are never executed.
* `TcpServer.h:35` says of `start()` that it is thread safe; it tests and sets `started_`
  without a lock (`TcpServer.cpp:39`), and the first call from another thread ends in the
  check of `EventLoopThreadPool::start` that it is on the base loop's thread.
* The thread of the double-buffering log waits when there *are* filled buffers and not
  when there are none (`AsyncLoggingDoubleBuffering.h:114`): with nothing to
  write it spins, and filled buffers may wait for the flush interval.  What is
  in `currentBuffer_` or `buffers_` after its last swap is not written when it stops.
* An empty line given to the queue log fails the assert of `AsyncLoggingQueue.h:89`, since
  an empty string is its request to stop.  `Condition::wait` does not restore
  `MutexLock::holder_`.
* `readTimeZoneFile` returns true whatever it met (`TimeZone.cc:213`), so `valid()` holds
  for a zone whose file could not be read, and its conversions look at an empty table:
  `LocalTimeRoundTrip` assumes that there is a local time type.  `fromLocalTime`
  resolves a repeated hour only (`:300`): summer times of half an hour and changes of
  the standard time backwards are not inverted, hence `Regular`.
* The prefix of a line has room for a thread id of five digits (`Logging.cpp:93` asserts
  it); a `FATAL` line is lost when `setOutput` was called without `setFlush`; a line that
  is too long loses its line number and its end of line.

## 4. Fairness

* `EventLoop`: a thread inside a call finishes it; the loop thread does not stop
  between two statements; `epoll_wait` returns when the eventfd is readable
  (level-triggered).  Callbacks and functors return: strong fairness, since they
  may make calls, which disable the return for a moment, any number of times.
  Nothing obliges the user to call anything, a channel to become ready or the poll
  to time out, so `FunctorsRun` and `QuitStops` rest on the eventfd alone.
* `EventLoopThread`: the same, and a mutex that is free again and again is
  granted.  A spurious wakeup and the owner's decision to destroy are not owed.
* `TcpServer`: each loop thread and the server's part of the base loop run.
  Peers, users and incoming connections owe nothing.
* `TimerQueue`: the clock runs, the loop executes functors and expired timers.
  Other threads owe nothing.
* `TcpClient`: the loop thread runs, a call that began ends, the server is reachable one
  day (`ServerComesUp`): without it a client may retry for ever, which is what it is for.
  A timer that stays pending while the loop goes on is run in the end: `GetExpired` may find
  any of the pending timers due, and strong fairness (`SF_vars(Expire ...)`) says that it
  does not find none of them for ever.
  Users and peers owe nothing.
* `AsyncLogging`: the thread of the log runs, which includes the timeout of its wait; a
  put and a join that can go on do.  The clock owes nothing: `LogMakesProgress` does not
  need a file to be rolled.
* `ThreadPool`: each worker runs when it can, `stop()` and the latch's wait go on.  No
  strong fairness for `mutex_` is needed: the tasks are finitely many, and a worker that
  finds none waits and lets the others have the mutex.
* `TimeZone`, `Logging`: safety only.

## 5. What is proved

`EventLoopProofs`, for any sets of threads and channels and any number of functors:

* `TypeCorrect`: `Spec => []TypeOK`.
* `Invariance`: `Inv` is an invariant, if `EarlyQueue = FALSE`.
* `NoLostWakeup`: hence `PromptWakeup`.
* `Refinement`: `Spec => Tasks!Spec`, with the queue `functors \o pending`.

`PromptWakeup` speaks of a sleeping loop only and is not inductive.  `Inv` says
for every place of the loop thread why a pending functor will be found: either
the swap is still to come (`dispatch`, `inCallback`), or the eventfd is readable
or about to be written by the thread that pushed (`PendingCovered`).  That a
functor queued by a *functor* is covered needs `calling` to be set exactly between
the swap and the end of the batch (`FlagsAgree`), and that the loop thread does
not queue outside of the loop (`QueuesInsideLoop`).  `QuitCovered` is the same for
`quit_`.  In `Refinement`, `DoPendingFunctors` is a stuttering step (the swap does
not change `functors \o pending`, since `functors` is empty there: `FunctorsLocal`,
an invariant for either value of `EarlyQueue`), `QueueInLoop` is `Submit` and
`CallFunctor` is `Execute`.

The same module proves `EventLoopThread`:

* `ThreadRunsLoop`: `ThreadSpec => Spec`.  Every step of the owner and of `threadFunc` is a
  step of `EventLoop` or leaves its variables alone.
* `ThreadPromptWakeup`: hence no wakeup is lost in a loop that an `EventLoopThread` runs.
* `StartLoopCorrect`: `StartLoopResult` is an invariant.  `StartLoopInv` adds who holds
  `mutex_`, that `loop_` is set exactly after its publication, and that an owner that
  sleeps has not been overtaken by the notification, since it tested `loop_` under the mutex.

`TcpServerProofs`, for any sets of loops, connections and user threads and for every
server in `Setups`:

* `ServerUpThenDown`: `UpThenDown`, also when other threads call `send` and `shutdown` and
  write-complete callbacks come late.  `GeneralInv` says on which loop an operation may be
  (`InPlace`), that a connection which was not accepted is nowhere (`Unborn`), that
  `connectEstablished` and `connectDestroyed` are each under way once, and where they can
  no longer be (`UpOnce`, `DownOnce`).
* `ServerNoStaleThis`: its first half, every function runs on the thread it asserts, holds
  for all servers too (`InPlace`); its second half, and `ServerNoAssertFails` and
  `ServerNoDanglingChannel`, where `CallbacksOnly` holds.  On a single loop that includes
  callbacks which use other connections and write-complete callbacks; with I/O loops TLC
  finds the assert of `TcpServerDoubleClose` for either of them, and with a user thread the
  dangling functor of section 3.
* `RoundRobinInvariant`: `RoundRobin` is an inductive invariant of the pool.
* `PooledIsServer`: `PooledSpec => Spec /\ PoolSpec`, and hence `PooledServerSafe`: the server
  with its pool has the properties of both.

The second half of the inductive invariant `IInv`, `CallbackInv`, follows one connection
through its life (`LifeInv`): `connectEstablished`, then the events of its channel, then
`removeConnectionInLoop`, `connectDestroyed` and the removal of the channel, each under way
only while `state_`, the map and `index_` are as it expects.  `UniqueInv` and `EventInv` say that only one of an active event, `handleRead` and
`handleClose` is left that could close it, which is why `handleClose` does not come twice
from one `handleEvent`.  `ClosingInv` is the heart: after `handleClose` the channel is
deleted from epoll, or, when a callback of this or another connection could send and enable
it again, everything is on one loop and `connectDestroyed` comes in the same iteration, before the
next poll (`PhaseInv` and `QueueInv` order the work of an iteration).  `CallInv` says
how deep callbacks nest: a `send` or `shutdown` inside a callback is executed before
anything else, while the callback's `shared_ptr` keeps the connection alive.  Since each part
speaks of one connection, the proof is by connection (`ByConnection`, `Together`): a step
of one is *quiet* for the others, and the steps of its own life have a lemma each.

`BufferProofs`, for any prepend area, initial size, bytes and inputs, and a user that shrinks
only at the front (`ShrinkAtFront`; otherwise `BufferShrink`):

* `ContentPreserved`: `HoldsContent` is an invariant.  It is inductive: one lemma per
  helper says what `Resized`, `Moved`, `Written`, `ReadIn`, `Prepended`, `Shrunk`
  do to `Content`, byte by byte, and `SameSeq` turns equality at every index
  into equality.  `kCheapPrepend <= size` is in `WellFormed` because `retrieveAll`
  needs it.
* `SpaceMade`: `SpaceIsMade` follows from it by the arithmetic of `MustGrow`.

`TimeZoneProofs`, for every date of the proleptic Gregorian calendar after the year -4800:

* `DateRoundTrip`: `getYearMonthDay` inverts `getJulianDayNumber`.  With the year counted
  from March, a day number is `365 y + y/4 - y/100 + y/400` and the days since 1 March;
  `YearFound` shows that the divisions of `getYearMonthDay` recover century and year, by
  the uniqueness of quotients.
* `DayNumbersCountDays`: the next day of the calendar has the next number, over the ends
  of months, leap years and centuries.
* `DayNumberRoundTrip`: the other way round; every day number from 1 January -4799 on is
  that of a date.

and for any zone files and instants:

* `UtcCorrect`: `UtcFollowsCalendar` is an invariant.  `ToUtcTimeSplits` shows that the
  truncating division with its borrow is the flooring one, before the epoch too; the rest
  is the calendar.  The instants start in the year -4799 (`UtcConversions`).
* `LocalTimeCorrect`: `LocalTimeRoundTrip` is an invariant.  `FindsLatest` says that
  `findLocaltime` finds the latest transition not after its key whenever the keys rise,
  and in a regular zone both clocks do (`RegularRises`).  An instant is then either found
  again directly (`SameType`), or it is in the hour shown twice and `fromLocalTime` takes
  it back by an hour (`ShownTwice`); `RoundTripInRegularZones` is the result for any table.
  `ReadIsWellFormed` shows that what `readTimeZoneFile` makes of a file is such a table.

`ThreadPoolProofs`, for any number of workers and tasks, and for either value of
`StopRace`:

* `NoWakeupLost`: `OneAwakePerTask` is an invariant.  It is not inductive: a worker that is
  awake may see `running_` cleared and end.  `TasksCovered` counts the workers that will
  look at the queue before they look at `running_` again (`Committed`); `notify` makes one
  more of them for each task, and a worker stops being one only when it takes a task or
  when the queue is empty.  That needs `MutexHeld` and `WaitsForEmpty`: between its test and
  its wait a worker has the mutex, so nothing is put into the queue.
* `TasksExecutedOnce`: `EachTaskOnce`.  `Placed` also says of a task that was not submitted
  yet that it is nowhere, and `LatchCounts` ties the latch to the tasks that are not done.

`TimerQueueProofs`, for any number of timers, addresses and threads:

* `TimerSetsAgree`, `TimersHaveOneOwner`, `TimerfdIsArmed`, `CancelledTimersStayOut`: the four
  safety invariants.  `IInv` says of every address which of four places has its `Timer`
  (`Owned`), that the hand-over by functor happens once (`QueuedOnce`, `CalledOnce`), that
  sequences are not used again although addresses are (`Unique`), that a cancelled timer
  exists only while it is being run and is then known to `reset` (`CancelledIsKnown`), and
  that the timerfd is armed for every timer, not the first alone (`ArmedForAll`), since a
  cancellation changes which is the first.

`AsyncLoggingProofs`, for any lines, limits, periods and either back end, `fwrite` failing or
not:

* `LogRollsInTime`: `RollsInTime`; `Rolling` ties `startOfPeriod_` and the name of the last
  file to `lastRoll_`, and `late` to `count_`.
* `BuffersAreReturned`: `BuffersComeBack`; `Exchange` counts, at every place of the thread,
  the buffers given away against those that will come back.
* `StopLeavesNothing`: `StoppedIsOnDisk`; `Phases` relates the places of the two threads, and
  `StopMessage` says that the empty message is in the queue once.  `BeforeStop` says that
  the lines of before it are in the files, refused, or still in front of it; that the file's
  buffer is empty in the end is the destructor of the `LogFile`.
* `EveryLineIsOnce`: `EveryLineOnce`.  It speaks of one row of places; the inductive
  `LinesInv` takes it apart.  `Order` says of each place (files, buffers being written,
  buffers being filled, queue) that it is in order and before the next, and that what was
  dropped is older than all that is still to be written, which is what puts a later
  message after it; `Conserved` balances the numbers of the lines; `Apart` says that one
  back end's places are empty.  `OrderConcat` says what order means for two rows in a row,
  `FileLinesAppend` where an append that may roll puts what `fwrite` takes, `HandOver` that
  writing a buffer or a message keeps the balance, and `MarkKept` and `MarkMade` that a
  message stays where it marks what was dropped.

`TcpClientProofs`, for any number of connections and every user in `Setups`, provided that
they are careful and another thread does not connect again after `stop()` (`CarefulUsers`;
TLC's counterexamples without it are in section 3, and `SoundSetups` satisfy it):

* `ClientAssertsHold`, `ClientSocketsOwned`, `ClientNoStaleThis`: the three safety invariants.
* `StopIsFinal`: the safety half of `StopHolds`, for users on the loop thread or without
  retry (the other case is `LostStopSetups`).

`IInv` has two halves.  `Ordered` is about the work of the loop thread, `todo \o queue`: at
most one item is an attempt, the rest of a handler comes first, events come before the swap
and functors after it, `resetChannel` is queued only while events are handled, `handleError`
comes before `handleWrite`.  Lemmas say how a handler, a functor, a poll and the swap keep
it.  The other half needs only the *set* of that work: there is one attempt (`Tokens`), what
`state_` says of it (`States`), why `channel_` is reset before the next one starts
(`ChannelReset`), which connections exist (`Connections`), what the user has done (`Users`),
what is over after the destructor (`Gone`), and who owns which descriptor (`Sockets`).  That
the timer of a retry cannot be run together with the channel of the previous attempt is part
of `ChannelReset`, and is the reason why `connecting` finds no `channel_`.  A timer that was
taken into a batch is an attempt until it has run, also when `stop()` or `~TcpClient` has
cancelled it meanwhile: `~TcpClient` then leaves `connect_` cleared and the `Connector` to
the timer of `removeConnector`, so that it finds a live object and starts nothing (`Gone`).

The assumptions are the `ASSUME`s of the modules; TLC evaluates them on every run.  Each
inductive invariant was checked by TLC on small instances before it was proved.

Only model-checked: `Logging` (whose digits are a recursive operator, and what a recursion
computes needs induction over data), and all liveness (fairness and `ENABLED` are out of the
prover's reach).

## 6. What is not modelled

`Poller` (unused since `EPoller`), `TcpServer::start` from another thread and the
destruction of the server, `SignalSlot` and `WeakCallback` (used by nothing in the repository),
the constructor of `TcpClient`.  System call wrappers, formatting of addresses and
timestamps, and single primitives (`Atomic`, `Singleton`, `ThreadLocal`) have no state worth a
model.  Errors of `epoll_ctl`, growth of `events_`, the high-water mark (stored and never
used) and the destructor of `TimerQueue` are left out, as are tasks that throw
(`ThreadPool` aborts or passes them on), the destructor of `TcpClient` on a foreign thread,
the bytes of zone files and the text of doubles (`snprintf`).  The memory model is
sequential consistency: `quit_`, `state_`, `connect_` and `running_` are plain
variables in the code.

## 7. Plan

1. *Done:* `EventLoop` with its proofs, `EventLoopThread`, the pool with its proofs,
   `TcpServer`/`TcpConnection`/`Channel`/`EPoller`, `PooledServer`, `TimerQueue`, `Buffer` with its proofs,
   `Connector` and `TcpClient`, `AsyncLogging` with `LogFile` and the blocking queues,
   `ThreadPool`, `LogStream` and `Logging`, `Date` and `TimeZone` with their proofs.
2. *Done:* the proofs of section 5.
   Next: the invariants of `Logging`, with the digits of `LogStream` as a recursive function.
3. The destruction of `TcpServer`; `Poller`'s bookkeeping (swap with the last
   entry, negative descriptors); the slot lists of `SignalSlot`.
