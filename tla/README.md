# A verification project for webservers

TLA+ models of the server code in this repository, with TLC runs and TLAPS proofs.

## 1. The system

The repository holds two generations of a Linux server and the exercises they grew from.

**mymuduo** (`src/src/`) is a multi-reactor TCP library after muduo: one `EventLoop` per thread.

| component | state | operations | interacts with |
|---|---|---|---|
| EventLoop | `quit_`, `callingPendingFunctors_`, `pendingFunctors_`, `activeChannels_`, the eventfd | `loop`, `quit`, `runInLoop`, `queueInLoop`, `wakeup`, `handleRead`, `doPendingFunctors` | every other component calls it; other threads hand it functors |
| Channel, Poller, EpollPoller | a channel's `events_`, `revents_`, `index_`, `tie_`; `channels_`; the kernel's epoll set | `enableReading` ... `disableAll`, `remove`, `tie`, `handlelEvent`, `updateChannel`, `removeChannel`, `poll` | called by the owner of the loop; calls back into TcpConnection, Acceptor, EventLoop |
| Buffer | `buffer_`, `readerIndex_`, `writerIndex_` | `append`, `retrieve*`, `makeSpace`, `readFd`, `writeFd` | owned by TcpConnection |
| TcpConnection | `state_`, the output buffer, its channel | `handleRead/Write/Close`, `send`, `shutdown`, `connectionEstablished`, `connnectionDestroyed` | its own loop; TcpServer through `closeCallback_` |
| TcpServer | `connections_`, `nextConnId_`, `started_` | `start`, `newConnection`, `removeConnection`, the destructor | runs on the base loop, queues work on the sub-loops |
| Acceptor | `listening_`, its channel | `listen`, `handleRead` | calls TcpServer::newConnection |
| EventLoopThread, Thread | `loop_`, `exiting_`, the condition variable; `started_`, `joined_` | `startLoop`, `threadFunc_`, the destructor; `start`, `join` | two threads and a condition variable |
| EventLoopThreadPool | `loops_`, `next_`, `started_` | `start`, `getNextLoop`, `getAllLoops` | TcpServer picks a loop for each connection |

**The old HTTP server** (`src/bck/`) is a one-acceptor, worker-pool server:

| component | state | operations | interacts with |
|---|---|---|---|
| `main.cpp` | the epoll set, `users[]` | accept, close, read and hand over, write | reads and writes on its own thread, hands requests to the pool |
| `threadpool.h`, `locker.*` | `m_workqueue`, mutex, semaphore, `m_stop` | `append`, `work`, `run`, the destructor | `main.cpp` produces, the workers consume |
| `http_conn` | read and write buffers, `m_check_state`, `m_iv`, `m_user_count` | `init`, `read`, `process`, `process_read`, `process_write`, `write`, `close_conn` | owned in turn by the main thread and a worker, by re-arming EPOLLONESHOT |

`src/bck/train/` holds textbook exercises, each a program of its own. The largest,
`chapter 4/epoll.c`, is an echo server on one thread with edge-triggered connections.

### What is hard, and what makes each component correct

- **EventLoop.** Any thread queues functors, or calls `quit()`, at any moment of the owner's loop.
  Correct means: a functor accepted is run once, in order, and never waits for unrelated traffic;
  `quit()` ends the loop even when the owner is about to block. The lock that should protect the
  vector is never taken, so the model has to say what remains true without it.
- **Channel and EpollPoller.** Three views of one fact (`index_`, `channels_`, the kernel's set)
  are changed by different functions, and descriptors are reused. Correct means they agree after
  every sequence of calls, `epoll_ctl` is never wrong, and no pointer to a dead channel is followed.
- **Buffer.** Index arithmetic at the edges, compaction, and a read split over two blocks.
  Correct means a first-in first-out queue that does not grow without need.
- **TcpServer and TcpConnection.** A connection is opened by the base loop, used by a sub-loop,
  removed by the base loop and destroyed by the sub-loop, with `shutdown()` coming from a third
  thread. Correct means it is reported up once and down once, torn down by one functor at a time,
  forgotten after it is down, and finally released.
- **Output.** `send()` and `shutdown()` race with writes that are cut short or fail. Correct means
  bytes leave in order, none is lost on a healthy connection, completion means completion, and the
  write end is closed after the last buffered byte.
- **EventLoopThread and its pool.** A handshake with a semaphore and a condition variable at the
  start, an unlocked read, `quit()` and `join()` at the end. Correct means `start()` returns usable
  loops and the destructor ends, after every thread has.
- **HTTP server, threads.** The ownership of a connection moves between epoll, the main thread,
  the queue and a worker; a worker may close a connection whose descriptor `accept` gives out again
  while the worker is still inside the object. Correct means one holder at a time, no connection
  without one, queue and semaphore in step, `m_user_count` exact, and a client that goes away
  noticed wherever its connection is.
- **HTTP server, one connection.** A request comes in pieces cut anywhere, an answer leaves in
  pieces cut anywhere, and an object is used by one connection after the other. Correct means that
  what is understood depends on the bytes alone, that what is sent is the answer, in order and
  complete, and that nothing is left over from the connection before.
- **Echo server.** An edge-triggered event is reported once. Correct means none is forgotten, and
  that an array of events stays valid while descriptors are closed and given out again.

Every hazard is listed, with its line and the properties that would catch it, in `PROJECT.json`.

## 2. Modules

| module | models | properties |
|---|---|---|
| `Executor` | what a loop promises its callers: accepted functors run at most once, in order | the target of the refinement |
| `EventLoop` | `EventLoop.{h,cc}` with one owner and any number of callers | below |
| `Poller` | `Channel`, `Poller`, `EpollPoller` and the kernel's epoll set of one loop | below |
| `EventLoopProofs` | | proofs about `EventLoop` and about the `Poller` a loop owns |
| `Buffer`, `MCBuffer` | `Buffer.{h,cc}`, all member functions as operators | below |
| `BufferProofs` | | proofs |
| `TcpServer`, `MCTcpServer` | the life of connections: `TcpServer`, `TcpConnection`, `Acceptor`, `getNextLoop`, the dispatch of `Channel::handleEventWithGuand` | below |
| `TcpServerProofs` | | proofs |
| `ConnectionOutput` | the sending side of one `TcpConnection` | below |
| `ConnectionOutputProofs` | | proofs |
| `EventLoopThreadPool` | `EventLoopThreadPool::start`, `EventLoopThread`, `Thread`, and the part of `loop()`/`quit()` they meet | below |
| `EventLoopThreadPoolProofs` | | proofs |
| `HttpServer` | `main.cpp`, `threadpool.h`, `locker.cpp` and the descriptor side of `http_conn` | below |
| `HttpServerProofs` | | proofs |
| `HttpConnection`, `MCHttpConnection` | one `http_conn` object: reading, parsing, answering, writing | below |
| `HttpConnectionProofs` | | proofs |
| `EpollEcho` | the exercise `chapter 4/epoll.c` | below |
| `EpollEchoProofs` | | proofs |

How they fit together: `TcpServer` and `ConnectionOutput` use a loop as `Executor` describes it
(a queue swapped and run in order), which `EventLoop` is shown to implement; `TcpServer` uses a
channel as `Poller` describes it (watched by the kernel exactly while `index_` is `kAdded`), which
`EventLoopProofs` proves. `ConnectionOutput` takes `handleClose` as one step, and `TcpServer` has the
rest of it; `TcpServer` takes `shutdownInLoop` with nothing to write, and `ConnectionOutput` has
the rest of that. `HttpServer` takes a call of `read`, `process` or `write` with one of its
outcomes and shows that the calls for one object come one at a time (`OneHolder`); on that,
`HttpConnection` says what they do.

### State and actions

**EventLoop.** `quit`, `calling`, `pending`, `functor` and `eventfd` are `quit_`,
`callingPendingFunctors_`, `pendingFunctors_`, the local vector of `doPendingFunctors` and the
counter of `wakeupFd_`; `loopPc` is the owner's place in `loop()`, `call[t]` a thread's place in
`queueInLoop`, `quit` or the swap. `std::unique_lock<std::mutex>(mutex_);` (EventLoop.cc:109, 137)
declares an unlocked local variable, so every access to the vector is a begin step
(`QueueInLoop`, `SwapBegin`), which reads the vector, and an end step (`Emplaced`, `SwapEnd`),
which writes it. When two threads are inside at once, `torn` is set and the outcome is a choice:
the element is added, lost, or others are lost with it, or the process dies (`Crash`).
`runInLoop` on the owner's thread runs the functor in place and is not an action.

**Poller.** `fd`, `events`, `index` are a channel's members, `channels` the map, `ptr` and `mask`
the kernel's set, `slots` the size of the event list. Channels are constructed on free descriptors
and destroyed by functors, after the events of the same poll, as `TcpServer` does it; `Destroy`
also gives the descriptor back.

**Buffer.** A record of the vector and its two indices. `append`, `readFd` and `retrieve` are the
operators of those names; `ReadFd` delivers up to what the two blocks of `readv` can take.

**TcpServer.** Per connection `state_`, `loop_`, its channel's `index_`, `events_` and `revents_`;
per loop the queue, the batch being run and the place in `loop()`. A step of a loop is one
callback or one functor, split only where another thread can read `state_`
(`connnectionDestroyed`) and between the test and the rest of `shutdown()`. The condition
`if (state_ = kConnected)` (TcpConnection.cc:186) is the assignment it is. The other end connects,
sends, closes and resets at any time, before `accept` too. The number of sub-loops is the choice
`setThreadNum` makes before `start()`; zero is the default of the code.

**ConnectionOutput.** A byte is its message and its place in it, so order and completeness can be
stated. `WriteResults` gives what `write()` may return: a part or all of the bytes, `EPIPE` or
`ECONNRESET` once the other end is gone or this side shut down, another error otherwise.
`KeepRemainder` is the code's own condition for keeping the rest (TcpConnection.cc:145-158).

**EventLoopThreadPool.** One place for the owner, one per thread, and the semaphore, the
condition variable, `loop_`, `quit_` and the eventfd between them. Critical sections of `mutex_`
are single steps; the destructor's read of `loop_`, the two halves of `quit()`, and `join()` are
separate ones. Only the destructor calls `quit()`, so it never finds `loop_` null, and its branch without
`join()` (EventLoopThread.cc:19) is not taken. While the pool runs, `Deal` is a call of `getNextLoop`.

**HttpServer.** `armed` is what epoll watches a descriptor for; fetching its event disarms it
(`EPOLLONESHOT`), `modfd` arms it again. `batch` is what is left of `events[]`, `main` and
`worker[w]` are places in the code: `append` is three steps (`AppendLock`, `append`, `Post`),
`run()` three (`SemWait`, `Lock`, `Pop`), and `close_conn` on a worker four, because the main
thread can do anything between them: `rmfd` frees the descriptor (`ProcessCloses`), then `m_sockfd`
is reset and `m_user_count` read (`Forget`), written (`Uncount`), and `process()` still calls
`modfd` (`Rearm`). `accept` gives the lowest free descriptor; when it fails the code initialises
`users[-1]` (`AcceptFails`). Three history variables name what the properties except: `refused`
(connections `append` did not take), `phantom` (users counted for a failed `accept`) and
`overtaken` (a connection was opened or closed while a worker was between closing one and leaving
`process()`). Reuse of the freed descriptor by a file `do_request` opens for a moment is left out.

**HttpConnection.** `obj` is the object: the read buffer with its two indices, `m_check_state`,
`url`, `m_linger`, `m_content_length`, the write buffer, `m_iv` and the two byte counts. A byte is
`\r`, `\n`, `\0` or stands for a text without line ends: a request line, a header, a byte of a
body, a line of the answer, a byte of the file. `parse_line` replaces line ends by zeros as the
code does, so looking at the same bytes twice is visible. `process_read` is one action per turn of
its loop (`RequestLine`, `HeaderLine`, `Body`, `LineOpen`), `write()` one per call of `writev`
(`WriteSome`) and one per way out. `init(sockfd, addr)` (`Accept`) leaves the object alone, as in
the code; `fresh` records whether it happened to be as `init()` leaves it. The first connection on a
descriptor finds zeros: `new http_conn[MAX_FD]` (main.cpp:60) initialises nothing, but an array of that
size comes on fresh pages. `Request` says what a
request is from its bytes as a whole, without the state machine; it is what the parser is compared
with: `Eols` are the line ends before the first malformed one, `Blanks` the empty lines behind the
request line, the first of which ends the headers; a later `Content-Length` counts instead of an
earlier one.

**EpollEcho.** `ready` is epoll's list: a connection enters it when something happens to it and
leaves it when it is reported, the listening socket stays. `epoll_wait` reports what is on the list
in any order, since none is promised. `ret` is both the result of the last
call and the bound of the `for` loop, as in the code. After a reset, `read` and `write` report
`ECONNRESET` once and then end of file and `SIGPIPE`, as Linux does.

Definitions commented "Fault:" are not part of the model. Each is the definition after it with one
plausible mistake, and is used to show that some property would notice.

## 3. What the runs check

Passing runs (deadlock is checked for the poller and the buffer, which never stop; a loop that
has quit, a connection that is closed and a pool that is gone do stop):

| run | instance | shows |
|---|---|---|
| `loop_safety` | 2 callers and the owner, 3 functors | `NoLostWakeup` even in a damaged vector; `Conservation` and `ImplementsExecutor` until it is damaged; `PendingRuns` and `QuitStops` under fairness |
| `poller_safety` | 3 channels, 2 descriptors, 1 event slot | `Agreement`, `NoDangling` |
| `buffer_fifo` | sizes 2 + 3, 2 extra bytes, 9 bytes in all | `Layout`, `Contents`, `GrowsOnlyWhenNeeded` |
| `server_life` | 2 connections, no or 1 sub-loop | `ReportedOnce`, `OneTeardown`, `MapTracks`, `WatchedWhileUp`; `CloseReported` and `Forgotten` under fairness |
| `output_safety` | 2 callers, 3 messages of 1 or 2 bytes, high-water mark 3 | `WatchedWhileBuffered`, `SentInOrder`, `CompleteMeansSent`, `FlushedBeforeShutdown` |
| `http_server` | 2 workers, descriptors 4 to 6, 3 clients, queue limit 1, `MAX_FD` 3 | `OneHolder`, `QueueAccounted`, `UsersCounted`; `HangUpCloses` under fairness |
| `http_connection` | 7 streams of bytes, 2 connections on one object, file of 2 bytes, small buffers | `SplitIndependent`, `WaitsOnlyForMore`, `SentInOrder`, `AnswerComplete` |
| `epoll_echo` | 2 descriptors, 3 clients, 3 bytes, `BUFSIZE` 2 | `NothingForgotten`, `EventsCurrent`; `EofCloses` under fairness |
| `pool_start_stop` | 3 threads, each loop dealt out up to 3 times | `LoopsUsable`, `JoinedBeforeGone`, `Balanced`; `StartReturns` and `RunningIsJoined` under fairness |

`TypeOK` is the type invariant of each module. It is proved for the modules of section 4; the runs of
`TcpServer`, `ConnectionOutput`, `HttpConnection` and `EpollEcho` check it as well.

Runs in which the code does not do what the repository says of it:

| run | property | what happens |
|---|---|---|
| `loop_vector_race` | `VectorExclusive` | two threads are inside `pendingFunctors_` at once: the lock object is never locked (EventLoop.cc:109) |
| `output_rest` | `RestSaved` | what `write()` did not take of a message on a healthy connection is neither sent nor put into `outputBuffer_`, although the comments at TcpConnection.cc:113 and :146 say it is saved there: the condition at :145 keeps the rest only after `EPIPE` or `ECONNRESET` |
| `http_stale` | `OwnAnswer` | `init(sockfd, addr)` does not reset the object (http_conn.cpp:93): a client's whole request is left in the buffer when it closes, and the next client on that descriptor, with the first bytes it sends, is answered with the file of the one before |

`RestSaved` fails in the shortest way there is: the first `write()` returns -1 with an error that is
neither `EPIPE` nor `ECONNRESET`. The sockets `accept` gives are blocking (Socket.cc:33), so there it
takes a signal; the code looks for `EWOULDBLOCK` (:136), as a non-blocking socket would report it.

Disagreements that the models contain and the properties of the passing runs name as exceptions, or
say nothing about:

- `connnectionDestroyed` assigns in its condition (TcpConnection.cc:186), calls `closeCallback_`
  again and is queued again: a closed connection goes round between two loops for ever and is never
  released. `OneTeardown` and `WatchedWhileUp` say that this is harmless to everything but the
  memory and the processor: one functor per dead connection at any time.
- A failed write makes `remaining` one more than the length (`len - (-1)`, TcpConnection.cc:128), so
  that the byte behind the message is appended to the buffer (:154). `TypeOK` of `ConnectionOutput`
  admits that byte in the buffer and nowhere else; `SentInOrder` says that it never goes out.
- `loop()` clears `quit_` when it starts (EventLoop.cc:68); a `quit()` before that is lost and the
  destructor waits in `join()` for ever. `RunningIsJoined` excepts exactly this loop.
- A loop that is awake sees `quit_` and is destroyed before `quit()` has called `wakeup()` on it
  (EventLoop.cc:93); the model lets the late wake-up have no effect.
- The queue takes one request more than its limit: `threadpool.h:21` calls `m_max_requests` the largest
  number of requests in the queue, `append` compares with `>` (:79, next to the question ">还是>=").
  The model compares as the code does. `QueueAccounted` is about queue and semaphore only.
- `append` refuses a request and `main` ignores it (threadpool.h:79, main.cpp:120): the connection
  is never served, nor closed when its client leaves. `OneHolder` and `HangUpCloses` except it.
- A worker overtaken inside `close_conn` or `process()` may reset `m_sockfd` of the next
  connection, lose an update of `m_user_count`, or arm a connection that is not its own:
  `overtaken` in `OneHolder`, `UsersCounted` and `HangUpCloses`.
- A failed `accept` counts a user for ever (main.cpp:104): `phantom`.
- A body that comes in two pieces is parsed as lines and then counted from the wrong place
  (http_conn.cpp:357): the exception of `WaitsOnlyForMore`.
- After two calls of `writev` that end inside the header the file is started too early
  (http_conn.cpp:216): `cut` in `SentInOrder`.
- Error pages are built and never sent, because `m_bytes_to_send` is set for files only
  (http_conn.cpp:462) and `write()` returns at once when it is 0 (:189), against :612, where `process()`
  is said to generate the answer, and :181, where `write()` is said to write all data. `WriteNothing`
  does what the code does; `AnswerComplete` speaks of files only and `SentInOrder` of a prefix, so
  neither would mind code that sends the page. What follows a request in the same read is dropped
  by `init()`; the test of `S_IROTH` never holds (:318).
- `epoll.c` loses events in three ways (:115, :133, :149): the three sets in `NothingForgotten`.

Other comments the model disagrees with, not worth a run of their own: `TcpConnection.h:22` says
a connection's loop is never the main loop, which it is with no sub-loops (`server_life` has
such behaviours); `EventLoopThreadPool.cc:35` says the rotation includes the base loop, while
`EventLoopThreadPool.h:31` and `TcpServer.cc:50` say that it deals to the sub-loops, which is what the code
does when there are any (`Balanced` compares the sub-loops with each other and says nothing of the base
loop); `TcpConnection.cc:170` says that closing the write end raises EPOLLHUP, which
needs the other end to close as well.

### Bounds

- `MaxFunctors`, `MaxWakeups` (EventLoop): three functors are enough for one being emplaced by
  each of two callers while one is run, and for a functor that queues a functor. `MaxWakeups`
  only stops `quit()` from counting the eventfd up without limit.
- Two descriptors for three channels force reuse; one slot forces the event list to grow and
  leaves a ready descriptor for the next poll.
- The buffer's sizes make compaction, growth, an exact fit and a read into the second block all
  occur within nine bytes; chunks of different lengths and bytes tell positions apart.
- Two connections are the least for which one is being torn down while the other is accepted; one
  sub-loop is the least for which the map and the connection are on different threads. Connections on
  different sub-loops share only the base loop, which is present, and the theorems are for any number
  of sub-loops. `Shared` has one connection that another thread shuts
  down; the other is shut down only by its own callback.
- With a high-water mark of three, messages of one and two bytes cross it and stay below it.
- Three descriptors for two workers and three clients: one connection with each worker and one
  being accepted, and the descriptor a worker has just closed given out again. A queue limit of one
  lets the queue hold two requests and refuse the third; `MAX_FD` is reached by three users, failed
  accepts included.
- Seven streams: with and without a body, kept and closed connections, two requests in a row, for
  a file, a directory and neither, and three kinds of malformed line ends. They are cut at every
  byte. Two connections on one object are enough for one to leave something to the next. The
  buffers are small enough for the longest stream to fill the read buffer.
- Two connections of the echo server and a newline among three bytes: an event behind the listening
  socket's, a descriptor closed and reopened in one round, and bytes behind a newline all occur.
- Three threads give the pool a first, a middle and a last one; `MaxDeals` lets `next_` go round three
  times.

A bound that is a constant (`MaxClients`, `MaxBytes`, `MaxConns`) is in the guard of the action
it limits. The theorems of section 4 hold without these bounds.

### Fairness

- EventLoop: the owner keeps taking the steps of `loop()` and a call that has begun is finished
  (threads are scheduled). `epoll_wait` is obliged to return only when the eventfd is readable;
  the 10 s time-out is not relied on, and nobody is obliged to call anything.
- TcpServer: every loop's thread is scheduled, and so is the accept callback. Nothing is assumed
  of the other end, of `accept` succeeding, or of the thread that calls `shutdown()`.
- HttpServer: the main thread and every worker are scheduled (weak fairness each). Nothing is
  assumed of the clients, nor of the fairness of the mutex.
- EpollEcho: the one thread is scheduled. Clients send finitely much (`MaxBytes`), without which
  the `while` loop of one connection may never end.
- EventLoopThreadPool: threads are scheduled; `epoll_wait` returns when the eventfd is written;
  `cond_.wait` returns when notified. Spurious wake-ups are possible and not relied on, and the
  owner may never stop the pool.

## 4. What is proved

TLAPS checks these for every value of the constants.

**EventLoopProofs** (assuming that the owner is not one of the callers, and natural bounds).
`TypeInvariance`, `LoopInvariance`, `WakeupNeverLost`, `FunctorsConserved`,
`LoopImplementsExecutor`. `NoLostWakeup` speaks of the owner in `epoll_wait` and is not inductive:
a functor queued while functors run has to have its wake-up by then. `LoopInvariant` adds that
`callingPendingFunctors_` is set exactly from the swap to the end of the functors
(`OwnerControl`) and that from the swap on a pending functor has its wake-up written or on the
way (`WakeupOwed`). `Conservation` needs in addition that a thread inside the vector is alone
there with a current view until `torn` (`AloneInVector`), and that the local vector is empty
outside its run (`LocalVector`). The refinement follows from `Conservation`: the functor run next
is the one at position `Len(ran) + 1` of those accepted.

**EventLoopProofs, the poller** (`None` is neither a channel nor a descriptor; at least one slot;
the specification is `PollerSpec`).
`PollerCorrect` proves `PollerInvariant`, `PollerAgreement` what callers rely on. `Agreement` is
inductive together with `Ownership` (no two live channels share a descriptor, a dead one is
`kNew`): without it a reused descriptor would let one channel's DEL hit another's registration.
`NoDangling` needs `EventsFirst`: channels die in functors, when no event is left to handle.

**BufferProofs** (a reserve and sizes that are natural numbers, chunks of bytes).
`BufferIsQueue` proves `TypeOK`, `Layout` and `Contents`, `BufferGrowth` the action property
`GrowsOnlyWhenNeeded`. The lemmas say what each member function does to the indices and the
readable bytes (`MakeSpaceCorrect`, `AppendCorrect`, `ReadFdCorrect`, `RetrieveCorrect`), over
facts about slices of sequences.

**EventLoopThreadPoolProofs** (a natural number of threads). `PoolCorrect` proves
`PoolInvariant`, `PoolHandshake` proves `LoopsUsable` and `JoinedBeforeGone` from it, `PoolBalanced`
`Balanced`, which needs the exact difference: the loops before `next_` have been returned once more
than those from it on (`InTurn`).
`LoopsUsable` alone is not inductive: `PoolInvariant` adds that the owner starts and stops threads
in order (`InOrder`), that a thread's effects are those of its place (`WorkerState`), and that a
loop is left only after `quit()`, which only the destructor calls (`Quitting`).

**HttpServerProofs** (finitely many descriptors, which are numbers, and workers; a positive limit).
`QueueCorrect` proves `QueueInvariant`, and from it `ServerTypes` and `QueueAgreesWithSemaphore`.
`QueueAccounted` counts workers between the semaphore and the end of their critical section
(`LetThrough`), so the proof follows the cardinality of that set through every step; that a backlog
never becomes negative needs `AcceptHasClient`. `UserCountExact` proves `UsersCounted` from
`CountInvariant`, which adds `ClosingAlone`: while nobody has been overtaken at most one worker is
closing a connection, the `m_user_count` it has read is still current, and `m_sockfd` is set for
exactly the open connections and the one being closed.

`OneHolderAlways` proves `OneHolder`, which says of the set of `Holders` of a descriptor that it has
one element. A step takes a descriptor from one holder to another, so the induction is on
`HolderInvariant`: each open connection that was not refused is with exactly one of epoll, the event
array, the main thread, the queue and the workers and there in one place (`HeldOnce`), every other
descriptor is with none (`Unheld`), and the descriptor a worker is closing is not open
(`HandOver`). It rests on `QueueInvariant` for the types and on `CountInvariant` for the single worker
inside `close_conn`.

**TcpServerProofs** (each sub-loop is the loop of one thread only and none is the base loop, which is
how `EventLoopThreadPool::start` makes them; no more loops than `setThreadNum` asked for; any set of
connections, shared with other threads or not). `ServerCorrect` proves `ServerInvariant`. None of the
run's properties is inductive: that a connection is reported down once depends on no second
`handleClose` being possible, which depends on its channel being off the list of active channels,
which depends on what is queued. `Stages` states them together: a connection is not accepted, opening
(one `connectionEstablished` on its way, not registered), serving (registered, nothing on its way) or
dismantled (reported down, not registered, exactly one of `removeConnectionInLoop` and
`connnectionDestroyed` on its way), and with it goes whether it is in the map. "One functor" is
`InOnePlace`, a position in one queue of one loop, which a step moves, so that no cardinalities have
to be followed; `OneTeardown` counts at the end. `LoopInvariant` ties the active channels to
connections that are serving on that very loop, and the unfinished `connnectionDestroyed` to the head
of the batch. `SpreadEvenly`, which no run checks, follows from `PoolInvariant`, which has the exact
difference instead of the bound: the loops before `next_` have one connection more than those from it on. `OnOwnLoop`
(`RunsAtHome`) is an invariant of its own: every functor is queued on the loop on whose thread it must
run, the base loop for the map and `loop_` for all else, which is what the code relies on instead of
locks. From these: `ServerTypes`, `ReportsExact`, `TeardownOnce`, `MapExact`, `WatchExact`,
`DealtEvenly`.

**ConnectionOutputProofs** (messages have at least one byte). `OutputCorrect` proves
`OutputInvariant`, and from it `OutputTypes`, `EpolloutMatchesBuffer`, `WireInOrder`,
`CompletionsExact` and the action property `ShutdownAfterFlush`. The order of what goes out needs that
each message is on its way once (`OnTheWayOnce`) and no byte accepted twice (`AcceptedOnce`), and
that nothing is written directly while there is something in the buffer. The last is a consequence of
`OnlyAfterFault`: bytes are kept only when a write has failed and no later one can succeed. The lemma
`HandleWriteIdle` is what that means for the code: in no reachable state does `handleWrite` send a
byte. The condition at TcpConnection.cc:145 keeps the rest for exactly the connections to which it can
no longer be sent, so the output buffer serves no connection at all.

**EpollEchoProofs** (finitely many descriptors, which are numbers; the listening socket is not one of
them; a positive `BUFSIZE`). `EchoCorrect` proves `EchoInvariant`, and from it `EchoTypes`,
`EdgesKept` and `ArrayCurrent`. `EventsCurrent` needs that epoll lists only open descriptors
(`ListedOpen`) and that nothing is left to handle outside the `for` loop (`IdleOutside`); that
`accept` always finds a connection needs `BacklogCounted`.

**HttpConnectionProofs** (a stream is any sequence of the bytes of section 2 without `\0` and without a
negative `Content-Length`; the files have at least one byte; the write buffer has room for the six
lines of an answer and the two bytes that `add_response` leaves free, which the 2048 bytes of the code have
many times over). `ConnectionCorrect` proves `ConnectionInvariant`, and from it `ConnectionTypes`,
`ParseSplitIndependent`, `ParseWaits`, `AnswerInOrder` and `AnswerWhole`: for every stream, every way
`read()` cuts it, every way `writev()` cuts the answer, and any number of connections after each other.

That the answer depends on the bytes alone cannot be seen at the moment of the answer: `parse_line`
has replaced the line ends by zeros and the members of the object are all that is left of the headers.
`ParseInvariant` therefore relates the object to `Current`, the bytes as they arrived, at every turn of
the loop of `process_read` and between calls of `read()`: `m_start_line` is behind a line end of the
whole (`AtLine`), from there on the buffer is still as it arrived and without a line end up to
`m_checked_index` (`ReadingLines`), and `url`, `m_content_length` and `m_linger` are what the lines
before `m_start_line` say (`GotRequestLine`, `LengthTo`, `LingerTo`). No induction over the data is
needed, because the steps of the parser are the induction: one of them takes one line (`NextLine`,
`FirstTaken`, `HeaderTaken`, `BlankTaken`), and a call of `read()` leaves the lines that were complete
what they were (`EolsExtended`, `LineExtended`, `HeadersExtended`). `NoLineFound` is the other half:
when `parse_line` reports `LINE_OPEN` or `LINE_BAD`, the bytes have no further line end, so nothing
complete is left waiting. `InBody` keeps track of the one exception, bodies that come after their
headers.

For the answer, `Described` says that `m_iv` is what is left of it (`IovIsRest`: byte for byte), which
holds until two calls have ended inside the header; that the counts are right (`Writing`) does not
depend on that.

`NoDeadChannel`, `BufferLayout` and `PoolJoined` state parts of the invariants above on their own.
All invariants proved by induction were checked by TLC on the instances of section 3 first.

Only model-checked:

- the liveness properties: they need fairness and ENABLED, which the prover does not have;
- the violations of section 3, which are counterexamples.

Every invariant a passing run checks is stated by a theorem.

## 5. What is not modelled

- `Logger`, `Timestamp`, `InetAddress`, `noncopyable`, `DefaultPoller`: formatting, time, addresses
  and a factory; no protocol depends on them. `threadPool.h` has declarations only.
- The destructor of `TcpServer`: it erases from the map it walks over and calls back into an
  object that is going, which is undefined behaviour. Socket options; `EventLoop`'s check that a
  thread has one loop.
- `retrieveAsString(len)` with more than is readable, which would copy bytes behind `writerIndex_`
  (Buffer.h:71); its only caller passes `readableBytes()`.
- The ends of the HTTP server: `~threadpool` and the code after the main loop run only when
  `epoll_wait` fails on a valid descriptor. `class cond` is not used.
- HTTP details that no property tells apart: methods other than GET, the version, the `Host`
  header (whose comparison never matches), lengths of lines, `mmap` of a file that cannot be opened.
- Requests with a zero byte, at which the C strings of the parser end, and with a negative
  `Content-Length`, for which `parse_request_content` writes in front of the body and perhaps of the
  buffer (http_conn.cpp:566): `StreamAssumption` and `LengthAssumption` leave them out.
- What `users[-1]` and the late writes of an overtaken worker do to memory, beyond the members
  modelled.
- Names of connections (`ip:port#id`) are the connections themselves: ids are never reused below
  2^31 connections.
- Load: a base loop that spins because `accept` fails with EMFILE and the listening socket stays
  readable (Acceptor.cc:49), a client of the echo server that never stops sending (epoll.c:131).
- How long a blocking `write()` blocks (accepted sockets are not made non-blocking,
  Socket.cc:33), and memory: what a bare pointer bound in `send()` points to when it is used.
- The other exercises in `src/bck/train/`: a page each, used by no server; `prod.c` does not compile.

## 6. Plan

Done: all components with TLC, and the proofs of all their invariants.

Left: sending and closing in one module, where a late `shutdown()` and `enableWriting` can register a
removed channel again (TcpConnection.cc:156).
