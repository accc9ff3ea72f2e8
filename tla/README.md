# A TLA+ model of the reactor in `reactor/s13` and of the solver in `sudoku`

The repository rebuilds the muduo network library step by step: `reactor/s01` to
`reactor/s13` are thirteen stages of the same classes, the last one (identical to
`s12`) being the complete library: one event loop per thread, timers, a thread
pool, a TCP server and a TCP client. Around it are small programs (`asio/chat`,
`simple/*`, `sudoku`, `filetransfer`, `downloadClient`, `finger`) written against
the original muduo library, which is not part of the repository. This directory
models `reactor/s13`, and the solver of `sudoku`, the one program with an algorithm of its own. The makefiles do not define `NDEBUG`, so a failing `assert`
aborts the process, and the models treat it so; `assertInLoopThread()` only logs.

## Inventory

| Part | State | Operations | What is hard | What makes it correct |
|---|---|---|---|---|
| `EventLoop` | `quit_`, `looping_`, `callingPendingFunctors_`, `pendingFunctors_` (mutex), eventfd, channels to handle | `loop`, `quit`, `runInLoop`, `queueInLoop`, `wakeup`, `handleRead`, `doPendingFunctors` | callers on other threads between every two statements; sleeping in `::poll` on something that was just queued; functors that queue functors | FIFO, once, only in the loop; no lost wakeup; `quit()` stops it |
| `Poller`, `Channel` | `pollFds_`, `channels_`, each channel's `fd_`, `events_`, `idx_` | `updateChannel`, `removeChannel`, `poll`, `enable*`/`disable*` | removal swaps with the last entry; a muted entry is a negative descriptor | indices match the array; a map from descriptor to interest |
| `TcpConnection` | `state_`, its channel, `outputBuffer_`, the socket | `send`, `shutdown`, `connectEstablished`, `connectDistroyed`, `handleRead/Write/Close/Error`, `sendInLoop`, `shutdownInLoop` | partial writes; other threads checking `state_` and acting later; close against shutdown; teardown across two loops | the stream keeps its order; shutdown waits for output; one teardown |
| `TcpServer`, `Acceptor` | `connectionMap_`, `nextConnId_`, `started_`, the listening channel | `start`, `newConnection`, `removeConnection(InLoop)`, `listen`, `handleRead` | hand-off between base loop and I/O loops; descriptors running out | each accepted connection is in the map until it is torn down |
| `TimerQueue`, `Timer`, `TimerId` | `timers_`, `activeTimers_`, `cancelingTimers_`, the timerfd | `addTimer`, `cancel`, `getExpired`, `reset`, `insert`, `handleRead` | cancelling inside a batch; re-arming; widths | no timer is forgotten, early or run after an effective cancel |
| `EventLoopThread`, `EventLoopThreadPool` | `loop_` (mutex, condition), thread; `loops_`, `next_` | `startLoop`, `threadFuc`, destructor; `start`, `getNextLoop` | the destructor's `quit()` races the start of `loop()` | destructor returns; round robin |
| `Connector`, `TcpClient` | `state_`, `connect_`, `retryDelayMs_`, `channel_`, `timerId_`; `connection_` (mutex), `retry_` | `start`, `stop`, `restart`, `retry`, `handleWrite/Error`; `connect`, `disconnect`, `stop` | retry timers, stale channels, calls from other threads | one attempt at a time; backoff bounded |
| `Buffer` | `buffer_`, `readIndex_`, `writeIndex_` | `append`, `retrieve*`, `readFd`, `swap`, `makeSpace` | index arithmetic, moving data | a FIFO of bytes |
| `SudokuSolver` | the linked nodes, `columns_`, `stack_`, the board | `solveSudoku`, `solve`, `cover`, `uncover`, `get_min_column` | links that backtracking must restore exactly | the answer is a completion, and none is missed |
| `Socket`, `SocketsOps`, `InetAddress` | a descriptor or an address | one system call each | - | pure I/O, not modelled |

How they interact: a `Channel` belongs to one loop and calls back into its owner
(timer queue, acceptor, connector, connection, the loop itself for the eventfd). Owners
change their channel through `EventLoop` in the `Poller`. Threads meet in one
place only, the mutex around `pendingFunctors_`: every cross-thread call is a
functor run by the loop that owns the object. A server's base loop accepts and keeps
the map; a connection lives on one I/O loop.

## Modules

| Module | Models | Notes |
|---|---|---|
| `TaskQueue` | what `queueInLoop()` promises | abstract FIFO queue of tasks: posted, begun, ended, begun only while the loop is open |
| `EventLoop` | `EventLoop.cc` | implements `TaskQueue` |
| `MCEventLoop` | instance for TLC | |
| `EventLoopProofs` | proofs about `EventLoop` and `EventLoopThread` | the second through an instance |
| `PollSet` | what `Poller` promises | abstract map from descriptor to the events it is watched for |
| `Poller` | `Poller.cc`, the registering calls of `Channel` | implements `PollSet` |
| `MCPoller` | instance for TLC | |
| `PollerProofs` | proofs about `Poller` | |
| `TcpConnection` | `TcpConnection.cc`, the removal in `TcpServer.cc`, `Channel::handleEvent` | one connection, its loop as a task queue plus events |
| `MCTcpConnection` | instance for TLC | |
| `TcpConnectionProofs` | proofs about `TcpConnection` | |
| `Alarms` | what `runAt`, `runAfter`, `runEvery`, `cancel` promise | abstract: an alarm runs when due, not before, once or with its interval, not after an effective cancel |
| `TimerQueue` | `TimerQueue.cc`, `Timer`, `TimerId` | implements `Alarms`; the clock and the timerfd are the environment |
| `MCTimerQueue` | instance for TLC | the set of delays |
| `TimerQueueProofs` | proofs about `TimerQueue` | |
| `EventLoopThread` | `EventLoopThread.cc` and its owner | composed with `EventLoop` (`INSTANCE`): the owner is the loop's one other thread |
| `MCEventLoopThread` | instance for TLC | |
| `TcpServer` | `TcpServer.cc`, `Acceptor.cc`, `EventLoopThreadPool.cc` | several connections over several loops; who keeps an object alive |
| `MCTcpServer` | instance for TLC | |
| `TcpServerProofs` | proofs about `TcpServer` | |
| `TcpClient` | `TcpClient.cc`, `Connector.cc` | attempts, retries, stop and reconnection |
| `MCTcpClient` | instance for TLC | |
| `TcpClientProofs` | proofs about `TcpClient` | |
| `ByteQueue` | what `Buffer` promises | abstract queue of bytes |
| `Buffer` | `Buffer.h`, `Buffer.cc` | implements `ByteQueue` |
| `MCBuffer` | instance for TLC | |
| `BufferProofs` | proofs about `Buffer` | |
| `Sudoku` | `sudoku/sudoku.cc` | the dancing links and the search |
| `MCSudoku` | instance for TLC | the 95 puzzles |
| `SudokuProofs` | proofs about `Sudoku` | every size of box, every puzzle |

A definition is named after the member it stands for where there is one, and a
comment over an action names the code otherwise. Definitions under a comment
that begins with "Mutant:" are variants of the definition that follows them; they
are not part of any specification and serve to show that a property notices the
corresponding mistake.

### EventLoop

`pc` is where the loop's thread is: outside `loop()`, between its two assignments,
at the `while`, in `::poll`, choosing a channel, in a channel's callback, between two
functors, in a functor. `threadPc` is `"wakeup"` for another thread that has done
its `push_back` or set `quit_` and has not written the eventfd yet. The mutex makes
`push_back` and `swap` single steps; everything else that another thread can observe is
a step of its own. `pendingFunctors_` and the local batch `functors` are sequences; a
functor is a model value that may, while it runs, queue others or quit the
loop (`QueueOnLoop`, `QuitOnLoop`). The Poller is cut down to what matters here: `::poll`
returns when the eventfd is readable, when another channel is ready, or with nothing.
A functor is queued at most once at a time, which bounds the queues. The loop may be
entered again after it was left.

`EarlyTasks` are functors the loop's own thread queues before it calls `loop()`. No wakeup
is written for them (`EventLoop.cc:170` looks only at the thread and at
`callingPendingFunctors_`), so they wait for the timeout of `::poll`; the
properties about wakeups leave them out and `EarlyTasksRun` is about them.

### Poller

All calls happen on the loop's thread, so one call is one action. `pollFds_` is the array,
`idx_` the index from 0 that each channel keeps, a muted entry is `-fd - 1` as in the
code. The callers' discipline is `life`: a new channel is enabled for something, changes its
events any number of times (including enabling something after disabling everything,
which a `sendInLoop()` between the close and the removal does), is disabled and removed, and is then destroyed; between
the last two a `sendInLoop()` of another thread may still update it, and a
descriptor can be used again by another channel as soon as the first is removed, which is
what `Connector` and the connection it creates do. An assertion of the code is a separate
operator (`AddAsserts`, `UpdateAsserts`, `RemoveAsserts`, `FindAsserts`): a conjunct of the
action, and the subject of `AssertsFailForRemovedOnly`: the late update always fails them, whatever became of the
descriptor and of the place in the array, and nothing else does. `idx_` is not reset by a removal, so
that these assertions are all that keeps a stale index from changing another channel's entry.

### TcpConnection

The connection's loop is the task queue that `EventLoop` was shown to implement, plus events
of this connection's channel. An event may come between any two functors, which is
more than the code's "all functors after every poll" allows; what the code guarantees
beyond it is in the fairness (`SF` for functors). A message is a model value that
stands for `Length` bytes; `::write` takes any part of them.

`Poll` takes any set of flags `::poll` may report of the socket, what was not asked for included, and leaves in
`revents` the calls that `Channel::handleEvent()` has still to make for them: first `closeCallback_` for a hang-up without POLLIN,
then `errorCallback_`, `readCallback_` and `writeCallback_`. Each call is an action, and so is each way in which
`handleRead()` ends; the application's code runs in between. POLLPRI is handled as POLLRDHUP is, and POLLNVAL as POLLERR, so
these two stand for the others. The flags are not looked at again after a handler changed the channel, so one event may close
the connection twice: once for the hang-up, once for the end of file that `handleRead()` finds. `hungUp` is a history variable that marks such an
event. The removals of the two are counted in `removing`.

Other threads run `send()` and `shutdown()` statement by statement; `inCallback` is application code on the loop's
thread, which may send and shut down any number of times. The peer closes (`"fin"`) or resets;
a reset is found as one error, by `::read`, `::write` or the `getsockopt()` of `handleError()`, then as an end of file; what arrived before
either is read first. `sameLoop` says whether the server's
loop is the connection's, in which case `removeConnectionInLoop()` runs inside
`handleClose()`; otherwise it is a step of the other loop. `state_` starts with any value,
since no constructor sets it. `aborted` names the assertion that failed; nothing happens after
it. Every thread keeps its `TcpConnectionPtr`, so that the object outlives the calls. A
`writeCompleteCallback_` is set. The application does nothing in the second
`connectionCallback_`, where `connected()` is false and `send()` and `shutdown()` have no
effect.

### TimerQueue

`timer` maps an address to the `Timer` there, `Free` when there is none, so that addresses are used
again as an allocator does. `timers_` and `activeTimers_` are the two sets of the class, the batch is
`expiredTimers` with `uncalled` the part whose callbacks have not begun. A `TimerId` carries the
sequence narrowed to an int of `2 * SequenceInt` values (`TimerId.h:13`), and the time to an expiration is
narrowed to an int of `2 * TimeInt` values (`TimerQueue.cc:37`). `cancelInLoop()` makes a `Timer`
to search with, which takes a sequence. `addTimer()` and `cancel()` act at once on the loop's thread,
in a timer's callback too, and become functors elsewhere. Time is counted in 100
microseconds, the least the timerfd is set to. There is one clock where the code has two, the time of day of `Timestamp::now()`
(`TimerQueue.cc:37`) and the timerfd's `CLOCK_MONOTONIC` (`TimerQueue.cc:24`): nobody sets the time of day while the
program runs. The timerfd is `armed` for a time or `Never`, and
`readable` from then until it is set again: `handleRead()` never reads it (stage `s02` did), so
after a batch the loop is woken by the descriptor that stayed readable and `insert()` need
not set it for a timer that is not the new earliest.

`NotStalled` is an assumption about the environment: the loop's thread is not held up for
2^31 microseconds (half an hour), neither in a batch nor before a queued insertion. Without it
the narrowed time of an overdue timer wraps around to one far in the future.
`cancelled` is a history variable. It counts a `cancel()` that found its timer, active or in the batch:
one that overtakes the `addTimer()` another thread has queued finds nothing, and the timer runs.

### EventLoopThread

The loop's variables and steps are those of `EventLoop`, with `Threads <- {Owner}`; the module adds
`loop_` (the shared pointer, guarded by the mutex), where the owner is and where `threadFuc()` is, and
lets each step of the loop be taken only where the program can take it. `cond_.wait()` may wake up
for no reason. `startLoop()` returns as soon as the loop exists, so that the owner queues functors,
quits and destroys the object while the thread may not have reached `loop()` yet. The owner
ends every call on the loop before the next, the destructor included.

### TcpServer

The base loop accepts (`NewConnection`, `DropConnection` for descriptor 0, which
`Acceptor::handleRead()` takes for a failure); each connection lives on the loop `getNextLoop()` gave it.
A loop has its functors `pending`, the `batch` it is calling and what of it is `spent`: a functor holds its
`TcpConnectionPtr` until the whole batch is destroyed at the end of `doPendingFunctors()`, which is where a
connection is destroyed and its descriptor closed (`BatchEnds`). `::accept` gives the least free
descriptor, so that descriptors are used again. What happens inside a connection is in `TcpConnection`; here it is
`"new"`, `"up"`, `"closed"` (after `handleClose()`) or `"down"` (out of the `Poller`), and is closed once; the event that
`handleEvent()` closes twice is in `TcpConnection`. A client may close before its
connection is established. `handling` is the connection whose `handleEvent()` is running, which uses the
object by a raw pointer.

### TcpClient

One loop does the work in rounds (`Poll`, events, `SwapPending`, functors); `connect()`, `stop()` and
`disconnect()` are calls on its thread, carried out at once, or on another thread, statement by statement. Where the
code tests an atomic flag and acts on it, `next` says what was decided, and the other thread may
come between. `channel_` names the Channel object the `Connector` has, `watched` the ones
the `Poller` points to: a Channel that is watched and is not `channel_` has been destroyed. An attempt ends in one of the
ways of the code: at once with an error that is retried or one that is not, by an
event, by `SO_ERROR`, by a connection to itself, or connected. The time of a retry is not counted; the delay is.
`connection_` is reduced to none, up, and shut by our `shutdown()`, since `handleClose()` asserts the second.

The code asks the application for discipline that nothing enforces: `connect()` while something of an
earlier `connect()` is under way fails the assertion at `Connector.cc:14` or starts two attempts. A history variable,
`hasty`, marks such a call, and no call of the application follows it. `stopped` says that a `stop()` took
effect, which one that comes between the test in `removeConnection()` and `restart()` does not.

### Buffer

`buffer_` is a sequence of bytes, indices count from 0 as in the code, and each member is an operator on a buffer as a
value, so that `append()` inside `readFd()` is the same operator. `input` is the history that lets `ByteQueue` say
what was put; how much is taken at a time is the caller's argument, which `ByteQueue` leaves open. `::readv` brings up to what fits into the vector and `extraBuf`.

### Sudoku

A node is its column and the cell and value of its row; its `right` and `left` neighbours inside a row never change, so
the links are the rings of the columns (`up`, `down`) and the header (`left`, `right`), with the sizes. `Built` gives them as
the constructor leaves them: it adds each node at the end of its ring, so that a ring has the order of `nodes_` (`Order`).

The recursion of `solve()` is `calls`, a stack of the `col` and `row` of each call; with `todo`, the columns that a loop of `solve()` has
still to cover or to uncover, and `at`, the variable of the loop inside, it says where the program is. A step is an iteration of a loop: of
`get_min_column()` (`Smaller`, `NotSmaller`), of `cover()` (`HideRow`, which takes out three nodes) and of `uncover()` (`ShowRow`), between
what comes before and after the loop. `UnlinkColumn` to `ShowNode` are the assignments, in the order of the code; a covered column and a hidden
node keep their own links. `covered` is a history: the columns that are covered, in the order they were. `BoxSize` is 3 in the code.

## Runs

| Run | Bounds | Shows |
|---|---|---|
| `loop` | two threads, three functors, one of them early, eventfd limit 2 | `NoLostWakeup`, `TaskQueue`; each functor is called (`EveryTaskRuns`, `EarlyTasksRun`), `QuitStopsLoop`, `PollIsNotStarved` |
| `poller_registry` | three channels, descriptors 0 to 2 | `AssertsFailForRemovedOnly`, `IndicesMatch`, `PollSet` |
| `timers` | two addresses, delays -1, 2 and 4 with `TimeInt` 3, intervals 0 and 1, clock up to 4, two `addTimer()`, two waiting functors | the two sets agree, one owner per timer, the timerfd covers every timer, no assertion fails, `Alarms` with its liveness |
| `connection` | one other thread, two messages of two bytes, every set of flags | stream order, POLLOUT exactly while buffered, one teardown, shutdown after the output, no message after the close but in the event closed twice, which assertion fails when; `ShutdownCompletes`, `OutputDrains`, `TeardownCompletes` |
| `loop_thread` | two functors, eventfd limit 2 | `StartLoopReturns`, `ThreadRunsWork`, `JoinsUnlessForgotten` |
| `server` | up to two I/O loops, four clients, descriptors 0 to 2 | objects outlive their use, descriptors are accounted for, the map is right, loads are equal; closed connections end, waiting clients are accepted |
| `client` | two Channel names, four timer ids, delays 1 to 3, two waiting functors | the Connector's assertions, one attempt at a time, no Channel destroyed while watched, `StopHolds`, `KeepsTrying` |
| `buffer` | two byte values, prepend 2, size 3, `extraBuf` 2, five readable bytes | `ByteQueue` |
| `sudoku` | boards of 4 x 4 cells, 95 puzzles | the answer is right (`SolvesExactly`), backtracking restores the links (`LinksMatchStack`) |
| `close_assert` | as `connection` | the assertion of `handleClose()`, violated |
| `thread_exit` | as `loop_thread` | the destructor that returns, violated |
| `buffer_retrieve` | as `buffer` | the string of `retrieveAsString()`, violated |

The type invariants `TypeOK` document the variables. They are proved, and
in `Sudoku` the inductive invariant takes their place. They are left out of the configurations, which list what is hard to get right, and
so are the invariants of the last section of each module, which are there for the proofs.

Why the bounds are enough: a lost wakeup needs one functor, one caller and the loop; a
second thread and a functor that queues another cover their mixtures, and an eventfd limit
of 2 lets the counter saturate. Three entries are the smallest array in which the last entry, a
middle one and the first differ, and descriptor 0 is included for the sign. Two
messages of two bytes give every partial write and one message waiting behind another.
Two addresses, one of them reused, give two timers in one batch, a stale `TimerId`, and a timer inserted
while another is in the batch; a delay of -1 is overdue, 2 is soon, and 4 is beyond the int of width
`TimeInt`. `SequenceInt` is 8, where nothing overflows. `MaxNow` bounds the
clock; `ClockRuns` lets it take one more step while an overdue timer waits for a timerfd that is about to go
off, so that the bound cannot make a timer wait; a timer
due after the bound is not due at all for the liveness. `MaxCreated` bounds `addTimer()` and `MaxFunctors` the queue.
Two I/O loops and four clients let `next_` wrap around, three descriptors let them run out and be used
again, and no I/O loop at all is included. Four timer ids leave one free beside the pending one, the one the `Connector`
knows, and the one a `stop()` is cancelling. Delays 1, 2 and 3 reach the limit, which is no power of two times the first.
With prepend 2 and size 3, five readable bytes need both ways to make space and reads through `extraBuf`.
Boards of 4 x 4 cells have puzzles that need backtracking, that have several completions or none, and whose clues
contradict each other; all 288 completed boards can be enumerated, so that "no solution" is checked against the definition.
The runs other than `loop`, `poller_registry` and `buffer` set `CHECK_DEADLOCK FALSE`, since a closed connection, an
aborted process, a clock at its bound, a joined thread, clients that are all gone and a solved puzzle have nothing left to do.

Fairness. The loop's thread and callers that are inside a call keep running (`WF`). Nothing is
assumed of I/O or of the timeout of `::poll` in `FairSpec` of `EventLoop`; only `EarlyTasksRun` has the
timeout (`kTimeOutMs` is ten seconds) as a premise, since nothing else calls a functor that was queued before `loop()`. In `TcpConnection` callbacks return, queued functors run
although events keep coming (the loop calls them after every poll, `EventLoop.cc:113`), the peer keeps
reading so that the socket becomes writable again and again, and a close that happened is
reported, by a hang-up or as something to read, and, the data before it being finite, read. In `TimerQueue` time passes, callbacks return and, as
above, functors run between events (`SF`). In `EventLoopThread` both threads keep running (`WF`). In `TcpServer` every round of
a loop handles all ready channels, the listening one included, and then takes its functors (`SF`); clients owe nothing, except
that `WaitingClientsAreAccepted` has their closing as a premise, without which descriptors stay used up. In `TcpClient` timers go off, an
attempt is answered, and of infinitely many attempts not all fail. `Sudoku` has no fairness: `solve()` is a
deterministic function, and its termination is not checked.

## Disagreements found

Three runs end in a violation:

* `close_assert`: `handleClose()` asserts `connected()` (`TcpConnection.cc:148`), and fails after our own `shutdown()` when
  the peer closes in turn; a single thread is enough.
* `thread_exit`: the destructor of `EventLoopThread` calls `quit()` and joins (`EventLoopThread.h:38`). If the new thread has not
  executed `quit_ = false` in `loop()` (`EventLoop.cc:100`), the quit is forgotten and the destructor waits for ever.
  `JoinsUnlessForgotten` shows that this is the only way.
* `buffer_retrieve`: `retrieveAsString()` makes a string of `writeableBytes()` bytes (`Buffer.h:79`) in place of `readableBytes()`.

`AbortsExplained` of the run `connection` describes the remaining assertions that legal uses make fail:
`connectDistroyed()` after a `shutdown()` that came between (`TcpConnection.cc:74`),
`connectEstablished()` on an object whose uninitialized `state_` happens to be `kConnected`
(`TcpConnection.cc:63`), and `Poller::updateChannel()` on behalf of a `sendInLoop()` that was queued before the
connection was torn down and runs after (`Poller.cc:68`), and `removeConnectionInLoop()` called a second time
(`TcpServer.cc:73`). The last takes an event with POLLHUP and another read event but without POLLIN: `handleClose()` leaves `state_` as it is, so
that the second one of the event passes its own assertion. Linux reports POLLIN with every POLLHUP of a TCP socket; the code does not
say that it relies on this, and the model does not. No line of the repository speaks of it, so there is no
run that calls it a violation. These are all the assertions that fail in the model, where every thread keeps its pointer to the
connection; what becomes of a functor whose object was destroyed (`TcpConnection.cc:46` binds `this`) is not in it. Two more that the models
name without a run of their own: `cancelInLoop()` fails its assertion (`TimerQueue.cc:140`) for a timer whose sequence does not fit into the
int parameter of `TimerId`'s constructor (`TimerId.h:13`), for which the theorem about `TimerQueue` has a premise; and a `stop()` of another
thread is lost between the test in `TcpClient::removeConnection()` and `restart()` (`TcpClient.cc:104`), which `StopHolds` leaves out.

## What is proved

For every set of threads, functors, channels and descriptors, with TLAPS:

* `EventLoopProofs`: the inductive invariant is `LoopInv` = types, `PcInv` (which variables can
  be set where the loop's thread is), `WakeInv` and `NoSleepAfterQuit`. `NoLostWakeup` alone is not
  inductive: a functor that is pending at the `while` condition must be announced
  already, or the next `::poll` sleeps on it. `WakeInv` therefore says that a pending functor is
  announced everywhere except while channels are handled, from where the swap is still to
  come. Then `Spec => []NoLostWakeup`, `[]NoSleepAfterQuit`, and `Spec => TQ!Spec` by a step
  simulation in which the queue is the batch followed by the pending functors.

  The second half is about `EventLoopThread`. Its two threads together make steps of `EventLoop` only (`ThreadRunsEventLoop`), so that
  `LoopInv`, with the owner as the only other thread, holds of the composition without being proved again (`CallsAreHeard`); this
  is what `Threads = {Owner}` and `EarlyTasks = {}` in the theorems say, of two constants of `EventLoop` that `EventLoopThread` does not have.
  `ThreadInv` adds where the two threads can be at a time. From it come the states that the liveness of the run `loop_thread`
  rests on: `NotificationIsKept`, and `QuitHoldsUnlessForgotten`, by which the flag of the destructor's `quit()` can be undone only by
  a `loop()` that reached its `quit_ = false` later.

* `PollerProofs`: `RegistryInv` = types, `RegisteredInv` (a registered channel is found under its
  descriptor and at its index, with its events, muted if it has none), `MapInv`, `FdInv`,
  `IndicesMatch` and `ActiveInv`. The interesting case is `RemoveInv`: the last entry's channel is the only one
  whose index changes, and `RemainingEntries` says where the others are. Then `IndicesMatch` and `AssertsFailForRemovedOnly` follow, the latter
  because a registered channel is what the map has under its descriptor, and a removed one never is;
  and `PollerIsPollSet`: what `PollSet` watches a descriptor for is the `events` of the array's entry for it, and nothing once
  that entry was muted, which nothing undoes. `updateChannel()` changes this for one descriptor, `removeChannel()` forgets
  a muted one and leaves the others as they are, although it moves an entry, and `poll()` reports only descriptors that are watched.

* `BufferProofs`: each member has a law that says what becomes of the indices and of the readable bytes, on any
  buffer that is `Sound`: copying over the front cannot overtake what is still to be copied, resizing keeps what there is,
  and what `readFd()` puts behind `extraBuf` is the rest of what it read. From the laws, `TypeOK` is inductive as it
  stands; the assertions in `Buffer.cc` follow (`RoomIsAlwaysMade`), and every call is a step of `ByteQueue` (`BufferIsByteQueue`).

* `TimerQueueProofs`: `TimerQueueInv` = types, `SetsAgree`, `OneOwner`, `TimerfdCovers`, `BatchInv` (no
  batch outside of `handleRead()`), `LagInv` (what `NotStalled` says, kept from one tick to the next),
  `QueueInv` (a queued insertion is for its own id, once) and `SequenceInv` (sequences are given out
  once). `OneOwner` needs `QueueInv`, because destroying a timer must not destroy one that is still
  queued; `TimerfdCovers` needs `LagInv`, because only a time that is not too far past narrows to one that is
  not in the future. `NoAssertFails` follows as long as no sequence exceeds the int
  (a larger one fails the assertion, see above).

  `TimersAreAlarms` adds `AlarmInv`: `NamesInv` (ids are given out once, and each timer goes by one of them),
  `CancelInv` (a timer that was cancelled and still exists is in the batch and in `cancelingTimers_`) and `DueInv` (a timer in the batch
  was due when it was taken). With it every step is one of `Alarms` or a stutter: a callback that begins is a run that was
  due, the re-arming at the end of the batch keeps the interval, and a `cancel()` that found its timer keeps it
  from running, inside its own callback too. The premise is `MaxCreated < SequenceInt`: beyond it an id can name
  another timer.

* `TcpServerProofs`: `ServerInv` = types, `PoolInv`, `OnceInv`, `ConnInv`, `HandlingInv`, `HeldInv`, `FdInv` and
  `DescriptorsAccounted`. None of the four invariants the run checks is inductive alone, since the step that would break
  one is a functor that some loop still has. `ConnInv` says which: a connection that is new has its `connectEstablished()`
  waiting on its own loop, one that was closed has its `removeConnectionInLoop()` waiting on the base loop or its
  `connectDistroyed()` on its own, never both, and no other functor of a connection waits anywhere. Waiting once
  (`OnceInv`) is what lets calling a functor end its waiting. `HeldInv` ties the life of an object to the map and the
  functors, the ones already called but not destroyed included. From these follow `AliveWhileUsed` and `MapAgrees`.
  `SharesAreEqual` has an invariant of its own, `ShareInv`: there is a number that every loop has, and the loops before
  `next_` have one more.

* `TcpConnectionProofs`: `ConnectionInv` = types, `BeforeInv` (nothing happens before `connectEstablished()`), `LifeInv` (the
  two `connectionCallback_`s against the channel and `state_`), `TeardownInv`, `SenderInv`, `WritingWhileBuffered` and
  `AbortsExplained`. `TeardownInv` has the four stages as alternatives: not closed; the removal waits on the
  server's loop; `connectDistroyed()` waits; down. It is proved for events with any flags, calls of other threads and functors in any
  order, and `TornDownOnce` counts what it says. A removal may be left over in the last two stages, or wait twice in the second, only after
  the event that was closed twice (`hungUp`), and such a removal aborts. In the same event only, `handleRead()` comes after the close: `LifeInv` says
  so, of the calls that are left, and `NoMessageAfterClose` follows from it. The proofs of this property and of `ShutdownAfterDrain` need only
  the invariant before the step. `StreamInOrder` needs `StreamInv`, that what was sent followed by what is buffered is what was accepted.
  This has one exception, which the proof found: when `handleClose()` comes before `handleWrite()` in one event, `disableAll()`
  does not keep the latter from writing; what it leaves in the buffer is then lost, and nothing is sent after it.

* `TcpClientProofs`: `ClientInv` = types, `StopInv` (after a `stop()` nothing is decided that still has to be done) and, unless
  `hasty`, `FunctorsInv` (`startInLoop()` and `resetChannel()` wait once), `OneInv`, `ChannelInv`, `StateInv`, `ReadyInv`
  and the assertions. `OneInv` is `OneAttempt` with every combination spelled out, and with the steps between a test
  and what follows it. `ChannelInv` is the heart of it: while a `resetChannel()` waits, whatever leads to another
  Channel is excluded: no `startInLoop()` waits, no thread is inside `connect()`, nothing was decided that connects. This is
  why a `resetChannel()` that was queued for one attempt never destroys the next one's Channel.

* `SudokuProofs`: the inductive invariant `Inv` has three parts, each a formula in the puzzle, the links and the sequences, so that
  most lemmas are about these alone.

  `LinksInv` says that the links dance. `covered` gives every node a number: 0 while it is linked, otherwise the position at which it
  was unlinked (`HeaderSince`, `NodeSince`). One node outlasts another if it is linked whenever the other is; two nodes of a ring that were
  hidden for the same column are compared by their `Order`, in which `cover()` hides them. Every node, an unlinked one too,
  has next to it the nearest nodes of its ring that outlast it (`Dances`). `cover()` keeps this because what it takes out is
  outlasted by all that stays, `uncover()` because the last thing taken out finds its neighbours linked. Inside the loops of
  the two, the rows before and after `at` count as hidden or shown (`Ahead`).

  `CallsInv`, `PcInv` and `WalkInv` tie `covered` to the calls: four columns for each row chosen, first the call's own, then the other three in the
  order of `->right`, the last call's perhaps in part. So `uncover()` meets the columns in the opposite order, and no column is
  covered twice.

  `SearchInv` says that a completion which takes the rows of the calls before one call takes none of the rows that this call has tried. At the
  end no row is left, and some row would have to be taken in every completion since one value is in the cell, or one cell has the
  value; so there is no completion. When no column is left, the rows chosen fill every blank cell once and every unit with
  every value, which makes `board` a completion; that a complete board has no value twice in a unit is a matter of
  cardinalities. From `Inv` follow `SolvesExactly` and `LinksMatchStack`.

  `ConstructorIsSafe` needs none of this: if a box's side is at most 3, as in the code, none of the constructor's assertions fails
  for any puzzle (`ConstructorAssertionsHold`). `nodes_`, sized by `kMaxNodes`, is never exceeded and full for the empty board (its columns are
  counted by `Order`), and no two columns have one place in `columns_`, which needs the premise: `get_row_col()` and the others write a value as a
  decimal digit. This property is proved only: it is about the puzzle, not about the steps of a run.

So that they can be proved about, four definitions have a form that suits the prover and means the same: the loops of `Sudoku` are
steps, `Stream` in `TcpConnection` is given position by position, `Accepts` in `TcpServer` says that no smaller descriptor is free, and
`TornDownOnce` counts positions of the queue.

Assumptions on the constants, named after the modules: `EventLoopAssumption` (early tasks are tasks, `NoTask` is none,
the eventfd limit is positive), `EventLoopThreadAssumption` (the same without early tasks), `PollerAssumption` (descriptors are
naturals), `TimerQueueAssumption` (delays are integers that the int of `howMuchTimeFromNow()` can hold in the negative
direction, the widths are positive), `BufferAssumption` (sizes are naturals, the filling byte is a byte),
`TcpServerAssumption` (numbers and descriptors are naturals), `TcpConnectionAssumption` (messages are not empty),
`TcpClientAssumption` (the first delay is positive and at most the limit; a new Channel need not have the address of the last) and
`SudokuAssumption` (a box has a side, a puzzle has an integer for each cell).
TLC evaluates them all.

Only model-checked: every liveness property, which is out of the prover's reach, and with it the liveness half of
`ImplementsAlarms` (`TimersAreAlarms` is the other half, `ImplementsAlarmsSafely`). Every invariant that a run checks is a theorem.

## Plan

The modules cover the reactor, and every safety property the runs check of it is a theorem, and so is every one of the solver. What is left, in this order:

1. More about `EventLoop`: that what a caller hands over from one thread is called in the order of the calls, as a theorem
   about `TaskQueue` that carries over by the refinement.
2. `TcpConnection`: an abstract specification of a connection (established, messages, closed; bytes taken, bytes sent), which
   `ConnectionInv` and `StreamInv` should suffice to refine.
3. `Sudoku`: that `solve()` ends, which needs a measure of the search and fairness, and so stays with TLC.

One passing run per module answers all its questions.

## Not modelled

`Socket`, `SocketsOps` and `InetAddress` are single system calls. Stages `s01` to `s12` are earlier versions of the
same classes: modelling them too would repeat the modules above with less in them, so most lines of the repository, of which the last stage
is a small part, stand for nothing that is not modelled. The programs on the original muduo library are callbacks without state of
their own; that library's `Buffer`, `EventLoop` and thread pool are not in the repository, so the chat codec and the sudoku servers
would be models of code that cannot be read here. Logging is left out everywhere, and so are `EventLoop`'s
thread-local `owerLoop` and the destructors of loops, of `TcpServer`, `TcpClient` and `Connector`: no program lets one of these go while its loop runs.
`Buffer::swap()` is called by nothing. In `TcpClient`, the application calls `connect()` again only as described there: a hasty one is
the last call of a behaviour. `Sudoku` reads a puzzle as digits and leaves the formatting of the answer out.
