# hydrogenWeb in TLA+

TLA+ models of hydrogenWeb's network library and of the programs built on it,
the TLC runs that check them on small instances, and TLAPS proofs of their safety
properties for all instances. Every module is translated
from the code; the map from definitions to lines is in `PROJECT.json`.
Paths below are relative to the repository.

## 1. The system and its parts

hydrogenWeb is a reactor library in the manner of muduo (one `EventLoop` per
thread, callbacks, `poll(2)`), an HTTP server on top of it, and a few older
utilities (a semaphore, a bounded buffer, robust I/O). `application/` holds a
web application and four echo servers.

| Part | State it keeps | Operations | Hard because |
|---|---|---|---|
| `EventLoop` | `_quit`, `_processingFunctors`, `_unprocessedFunctors` under `_mutex`, an eventfd | `loop`, `quit`, `waken`, `runInLoopThread`, `addToLoopThread` | any thread calls in at any point of the loop |
| `Poller`, `Channel` | `_fds`, `_channels`, the `_index` and `_events` of every channel | `updateChannel`, `removeChannel`, `poll` | three structures must agree after swaps and negated descriptors |
| `TimerQueue`, `Timer` | `_timers`, a timerfd | `addTimer`, `timerHandler`, `reset` | time passes between computing an expiration and arming the timerfd |
| `Acceptor`, `TcpServer`, `TcpConnection` | `_connections`, `_state`, buffers, shared_ptrs in functors | accept, establish, read, write, `send`, `shutdown`, close, destroy | life times: raw pointers, `shared_ptr`s and queued functors |
| `EventLoopThread`, `EventLoopThreadPool` | `_loop` under `_mutex`, a thread | `start`, destructor, `run`, `nextLoop` | handshake and join |
| `HyBuffer` | a vector and two indices | `append`, `prepend`, `readFd`, `clear*` | index arithmetic |
| `HttpServer`, `HttpContext`, `HttpRequest`, `HttpResponse` | parser state and request per connection | `parseRequest`, `processRequest`, `reset` | TCP cuts requests anywhere, clients pipeline, reads fail |
| web application | the table `users`, open descriptors | `onRequest`: pages, `/time`, `/booklist`, `/signup`, `/signin` | several steps per request that can each fail, a process that runs for long |
| echo servers | connections, children, a pool, a `SharedBuf` | `main`, `echo`, `sigchld_handler`, `echoThread` | processes, signals and threads; blocking reads; system calls that fail |
| `SharedBuf`, `Sem` | counts and a deque | `wait`, `post`, `insert`, `remove` | one `notify_one` per `post`, barging and spurious wake-ups |
| `Riob`, `Rio` | `_cnt`, `_bufptr`, `_buf` | `readlineb`, `readnb`, `readn`, `writen` | short counts, signals, errors |
| `sio`, `Timestamp` formatting, one-call wrappers | none | formatting and system calls | — |

How they interact: the `Poller` belongs to an `EventLoop` and is called by
channels on the loop thread only. `TimerQueue`, `Acceptor` and `TcpConnection`
own a channel each and react to its events; everything another thread wants of
them goes through `runInLoopThread()`. `TcpServer` owns the connections by
`shared_ptr` and drops them by a functor it queues. `HttpServer` is the
application of a `TcpServer`: its callbacks see the connection and its
`HyBuffer`, and it keeps an `HttpContext` in each connection. The web
application is its `HttpCallback`. The echo servers do not use the reactor; they
are built on `socketDetail`, `unixUtility`, `Riob` and, with threads, `SharedBuf`.

`PROJECT.json` lists under `hazards` the lines where this is easy to get wrong
and hard to test, each with the properties that watch it.

What makes each part correct:

- `EventLoop`: functors run once, in order, on the loop thread; the loop does
  not sleep on a queued functor or on a set `_quit`.
- `Poller`: `_fds`, `_channels` and the cached indices describe one bijection;
  an operation on one channel does not change another.
- `TimerQueue`: the timerfd is armed for the earliest timer; none is lost.
- TCP: a connection is established once, told of its end once, and never used
  after it is gone; output drains before `shutdown()` takes effect.
- HTTP: the k-th answer is for the k-th request and nothing else.
- Web application: pages say what the database holds; descriptors last.
- Echo servers: lines come back, connections that ended are closed, children
  are reaped.
- `HyBuffer`, `Riob`: bytes come out as they went in.
- `SharedBuf`: a bounded FIFO queue that does not strand a thread.

## 2. Modules

| Module | Models | Remarks |
|---|---|---|
| `SerialExecutor` | what the loop promises its users | abstract specification |
| `EventLoop` | `src/EventLoop.cpp` | implements `SerialExecutor` |
| `EventLoopProofs` | | theorems about `EventLoop`, `EventLoopThread` and `EventLoopThreadPool` |
| `Poller` | `src/Poller.cpp`, registration in `Channel` | operators on a poller state, and a specification of its own |
| `PollerProofs` | | theorems about `Poller` |
| `TimerQueue` | `src/TimerQueue.cpp`, `Timer.cpp` | with a clock |
| `TimerQueueProofs` | | theorems about `TimerQueue` |
| `TcpServer` | `TcpServer.cpp`, `TcpConnection.cpp`, `Acceptor.cpp`, the dispatch in `Channel.cpp` | composes with `Poller` by `INSTANCE` |
| `TcpServerProofs` | | theorems about `TcpServer`; uses the lemmas of `PollerProofs` |
| `EventLoopThread`, `EventLoopThreadPool` | the sources of these names | the pool extends the thread |
| `HyBuffer` | `HyBuffer.hpp`, `HyBuffer.cpp` | |
| `HttpServer` | `HttpServer.cpp`, `HttpContext.cpp`, `HttpRequest.hpp`, `HttpResponse.cpp` | one connection |
| `WebApp` | `application/hydrogenWeb.cpp` | extends `HttpServer` with its callback |
| `WebAppProofs` | | theorems about `HttpServer` and `WebApp` |
| `EchoServer` | `application/echoServer*.cpp`, `echoClient.cpp`, parts of `socketDetail.cpp` and `unixUtility.cpp` | four servers, one chosen in `Init` |
| `EchoServerProofs` | | theorems about `EchoServer` |
| `BoundedBuffer` | what `SharedBuf` promises | abstract specification |
| `SharedBuf` | `sem.hpp`, `sharedBuf.cpp` | implements `BoundedBuffer` |
| `SharedBufProofs` | | theorems about `SharedBuf` |
| `RobustIo` | `robustio.cpp` | |
| `BufferProofs` | | theorems about `RobustIo` and `HyBuffer`, on common lemmas about sequences |
| `MC*` | | values of constants for TLC; `MCBuffers` puts `HyBuffer` and `RobustIo` side by side in one run |

Definitions keep the code's names; a leading underscore is dropped. An operator
that precedes a definition and is described as a variation of it (for instance
`RemoveWithoutReindex` before `RemoveChannel`) is a plausible mistake in that
code, listed in `PROJECT.json` under `mutants`: put in place of the definition
it makes the named property fail.

### How state and steps correspond to the code

**EventLoop.** A step ends where another thread can see it: the push under
`_mutex`, the store to `_quit`, the write of the eventfd, the swap, the test of
the `while`, the return of `poll()`. `waken()` is a step of its own after
`quit()` and `addToLoopThread()`, which is where a wake-up could get lost.
Functors and callbacks of the loop may themselves queue functors and quit.
`runInLoopThread()` on the loop thread is a plain call and has no step.

**Poller.** `UpdateChannel`, `RemoveChannel` and `FillActiveChannels` are
operators from one poller state to the next. Descriptors are integers, because
`-fd - 1` and descriptor 0 matter. Assertions are predicates (`UpdateAsserts`,
`RemoveAsserts`, `FillAsserts`): the build compiles them out, so they are shown
to hold and not assumed.

**TimerQueue.** `now` moves between any two steps. `ResetTimerfd` computes the
delay from the time it is then: zero disarms the timerfd, a negative value is
rejected and the old setting stays. `assertFailed` records that the `assert` on
the way would have failed. `added` and `hasRun` are history: which timers were
added, and whose callback ran.

**TcpServer.** `Poll`, the dispatch of one `revents` bit, each functor, and the
return of an application callback are steps; between a callback's call and its
return the application may call `send()` and `shutdown()` on any connection it
holds. `Workers` are other threads doing so; their calls are cut at the test of
`_state`, the store, and the push of the functor. `Live(c)` is the reference
count of the connection being positive: a `send()` functor captures `this` and
does not count. `fault` is the first failed assertion, use of a freed
connection, or write after `SHUT_WR`. `TcpServer::run()` does not start
`_threadPool`, so `nextLoop()` is the server's own loop, and so it is here.
`scene` says which connections come, which workers there are and how much output
may wait: it is chosen at the start and never changes.

**EventLoopThread, EventLoopThreadPool.** One owner and one thread per object;
`_loop` is tested and published under `_mutex`. The pool runs `start()` and the
destructor of a temporary in each round, as the code does. The `_quit` of each
loop is `threadQuit` here, as `EventLoop` has a `quit` of its own.

**HyBuffer.** Bytes and both indices are explicit; `writableBytes()` is
`size() - _readerIndex` as written. `overrun` stops the model at the first
store behind the vector.

**HttpServer.** A request is a sequence of pieces, two per line or `name=value`
pair; `OnMessage` reads any number of them. A piece is the request it belongs to
and its position in it, so that answers can be compared with requests. `skip` is the
reader index one behind the writer index. A read that fails reaches `onMessage()`
all the same (`OnMessageWithoutData`), because its -1 is stored in a `size_t`.
`pc = "dead"` is the end of the process: the exception `std::stoi()` throws for
a body without a Content-Length, or a search from behind the end of the buffer.

**WebApp.** Each branch of `onRequest()` is an action that ends in the
`ProcessRequest` of `HttpServer`; database calls and files may fail in each of
them. `app = "any"` is the server alone, under a callback that does as it
likes. Descriptors are counted: `serveFile()` never closes its file, and a failed
query of the book list leaves its handle open. Clients come one after another and
share the table of users.

**EchoServer.** `kind` is the program that runs. A connection goes from the
backlog through `main()` to whoever serves it; `holders` are the processes that
have its descriptor open. A line is two pieces, so that a segment can end inside
of it and `readlineb()` can read ahead. Signals interrupt `main()` between its
steps. The programs call `Accept()` with the three arguments of an earlier
version of `socketDetail`; it is taken for the present one.

**SharedBuf.** One round of the `while` in `Sem::wait()` is a step, as is each
critical section. A woken thread tests again and others may come before it.

**RobustIo.** A byte is its position in the stream. Every system call transfers
any number of bytes it can, is interrupted, or fails.

## 3. The runs

| Run | Shows | Distinct states |
|---|---|---|
| `event_loop` | serial executor, no lost wake-up or quit, queued functors run, `quit()` returns; without leaning on the ten-second poll timeout | 180,725 |
| `poller` | index bijection, assertions, what `poll()` reports, every operation leaves each other channel registered and its pollfd as it was | 135,301 |
| `timer_queue` | armed for the earliest; a timer that was added is in one place until its callback ran, a repeating one for ever; every timer runs | 124,984 |
| `tcp_server` | nothing dangles, callbacks come in order, output drains, closed connections go down; with another thread calling `send()`/`shutdown()` and a reused descriptor the queued `send()` is the only source of faults and the store of `shutdown()` the only step back of `_state` | 195,377 |
| `event_loop_thread` | `start()` returns a live loop; the destructor returns after `quit()` of a running loop | 9,261 |
| `buffers` | `HyBuffer`: content intact; no overrun from a drained buffer. `Riob`: no byte lost, duplicated or reordered; counts, line ends and ends of the stream are exact; calls return | 412,110 |
| `http_server` | answers match requests, nothing after the last answer, which requests can be refused wrongly or end the process, clients that wait are answered; pages of the web application are true, sign-ups are confirmed, what uses descriptors up | 116,272 |
| `echo_servers` | no child stays a zombie, the lines of `echoClient` come back, descriptors of ended connections are closed | 81,227 |
| `shared_buf` | bounded FIFO buffer, semaphores account for it, nobody sleeps on a positive count, all return | 15,592 |
| `timer_assert` | violation: the delay asserted positive is not | |
| `tcp_send` | violation: a `send()` on another thread is not safe against the end of the connection | |
| `thread_pool_run` | violation: `EventLoopThreadPool::run()` never returns | |

### Bounds, and why they are enough

- `event_loop`: two other threads and four functors. Two threads can be between
  push and wake-up at once, and with four functors there are some in the local
  vector, some queued behind it and some queued by a running functor.
- `poller`: three descriptors (one of them 0) and four channels, two sharing a
  descriptor. A removal can hit the first, a middle or the last pollfd while
  the last is negated or not, and a descriptor is reused. No bound on the number
  of operations; the proofs cover all sizes.
- `timer_queue`: three timers (one repeating, one shorter than its interval) and
  a clock of six ticks, three rounds of the repeating timer.
- `tcp_server` and `tcp_send`: two scenes. In one, two connections are open at the same time
  and used from the loop only, with one message of output; in the other, two
  connections follow each other on one descriptor, with a worker and two
  messages, so that a queued `send()` meets one that waits.
- `event_loop_thread`: the objects are independent; one would do and three are
  as cheap.
- `buffers`, the `HyBuffer`: the constants 8 and 1024 of the code are 2 and 3, chunks are up to
  4 bytes and the vector grows to 8: every branch of `reserve()` is taken with
  the readable bytes at every place.
- `http_server`: up to three requests per connection under any callback, which
  covers what one leaves behind for the next and for the one after; up to three
  connections of the web application with one or two requests and three
  descriptors, so that names are taken, passwords are wrong and descriptors run
  out.
- `echo_servers`: an `echoClient` of two lines and a client that sends up to two
  lines in pieces and leaves as it likes; one worker, a buffer of one, one
  failing `accept()` or `fork()`. The two meet in every server: queued behind
  each other, as children that exit together, and in one round of `select()`.
- `shared_buf`: a buffer of two and three operations per thread, so both
  semaphores reach zero and their maximum with a thread asleep on either side.
- `buffers`, the `Riob`: four bytes with every placing of newlines, a pipe of
  three, an internal buffer of two, and calls for one to three bytes: calls end
  before, inside, at and beyond a refill, and lines end with a newline, at `maxlen`
  and at end of file. The two share nothing; a behaviour is one of either.

Deadlock is checked for `event_loop`, `poller` and `shared_buf`. It
is not for the others because there a model may rightly stop: the clock
or the supply of connections, requests or vector space ends, an owner
needs no more of its thread, or a fault ended the program.

### Fairness

Weak fairness only.

- `EventLoop`: each step of the loop thread, because the scheduler runs it; a
  `poll()` is only assumed to return when the eventfd is readable. A thread that
  owes a `waken()` makes it. Nothing makes anyone enter `loop()`, call an
  operation, or a descriptor ready.
- `TimerQueue`: time passes, the loop thread runs.
- `TcpServer`, `HttpServer`, `WebApp`: the loop thread runs; application
  callbacks return.
- `EchoServer`: every process and thread runs, a pending signal is delivered,
  and the rest of a line that `echoClient` wrote with one call arrives. Nobody
  has to connect, to send or to leave.
- `EventLoopThread`: owner and thread run once they are in a call; nothing makes
  an owner call, and spurious wake-ups are not relied on.
- `SharedBuf`: every thread that is not asleep runs. Spurious wake-ups happen
  but are not relied on.
- `RobustIo`: the writer goes on and at last closes; a system call that can
  transfer is not interrupted for ever.

## 4. Where code and expectation differ

Three runs end in a counterexample:

- `timer_assert`. `runAfter()` computes the expiration, `resetTimerfd()` the
  delay from a later clock; `assert(microSecs > 0)` (`src/TimerQueue.cpp:131`)
  does not hold. In a build without assertions the timerfd is then disarmed or
  left as it was, and timers are late until an earlier one is added.
  `ArmedForEarliest` and `EveryTimerRuns` name this as their one exception.
- `tcp_send`. DESIGN.md (`TcpConnection`, line 136) says that connections are
  used through `shared_ptr` and are thread safe. `send()` from another thread
  tests `_state` there and queues a functor that holds `this` only
  (`src/TcpConnection.cpp:163`), and `sendInLoopThread()` (`:187`) does not look
  at `_state` again. TLC's trace has the loop's thread shut the connection down
  between the two: the functor writes to a socket that was shut down. With the
  peer closing in between and no `shared_ptr` left, the same functor uses a
  destroyed connection, or meets a channel that was removed.
  `OnlyQueuedSendFaults` names this as the only thing that goes wrong.
- `thread_pool_run`. The `EventLoopThread` in `EventLoopThreadPool::run()` is a
  temporary, whose destructor joins a thread that nobody can stop. `TcpServer`
  does not call `run()`, so the server works on one loop.

Other behaviour a reader may not expect is modelled as it is and delimited by
the premises of the passing properties:

- `shutdown()` from another thread tests and stores `_state` in two steps
  (`src/TcpConnection.cpp:230`), and a disconnected connection can become
  disconnecting again: the exception in `StateGoesForward`.
- `writableBytes()` counts unread bytes as room (`include/core/HyBuffer.hpp:32`),
  so appending to a buffer with unread bytes can store behind the vector:
  `DrainedIsSafe` and `ContentIntact` say when it does not.
- A second request in one segment is not answered before more data arrives
  (`src/HttpServer.cpp:38`): `RequestsAnswered` is about clients that wait.
- A POST whose body is not complete in the buffer is refused with 400, and the
  request after a POST loses its first byte (`src/HttpContext.cpp:74`, `:94`);
  one without a Content-Length, or a read that fails after a body, ends the
  process (`:72`, `src/TcpConnection.cpp:74`): the exceptions of
  `OnlyBodiesFail`.
- When the rest of such a refused body arrives, the request is complete and is
  executed after all (`src/HttpServer.cpp:35`): a sign-up is then made although
  the client was told 400, one exception of `SignUpsAreConfirmed`. The others are
  a connection that an earlier answer shut down, and the want of the page or of a
  descriptor for it.
- After a refusal the request line is parsed again with `_method` set
  (`HttpRequest.hpp:52`): the exception in `AnswersMatch`.
- `serveFile()` leaks a descriptor per page (`application/hydrogenWeb.cpp:168`):
  `PagesServed` says that this and failed book lists (`:283`) are all that is
  leaked.
- In the `select()` echo server half a line stops everybody
  (`application/echoServerm.cpp:79`), and a line that was read ahead is not
  echoed before more data arrives: `HeldUp` and the restriction of `LinesEchoed`
  to `echoClient`. A failed `accept()` leaves the other servers, a child or a
  worker in `echo(-1)` for good; a listener that could not be opened makes the
  forking server fork such children without end.
- `sigchld_handler()` builds a `std::string` (`application/echoServerp.cpp:43`),
  which is not safe in a signal handler; the allocator is not modelled.
- `readlineb()` counts the terminating zero when the line ends at end of file or
  at `maxlen` (`src/robustio.cpp:64`): `LineCount` in `ResultsAreRight`.
- `loop()` begins with `_quit = false`, so a `quit()` between the return of
  `start()` and that store is forgotten: the reason why `DestructorReturns`
  asks for a quit of a running loop.

## 5. What is proved

TLAPS checks the following for every value of the constants that satisfies the
named assumptions: any number of threads, channels, connections, timers,
requests or bytes. Each theorem about a run's property names the property. The
inductive invariants were checked with TLC before they were proved.

`EventLoopProofs`, from `ThreadsAssumption` (the loop thread and the mark
`Early` are not among the other threads):

- `TypeCorrect`: `TypeOK`, which also ties `_processingFunctors` and the local
  vector to the phase of the loop.
- `NoWakeupIsLost`: `NoLostWakeup`. It is not inductive: the loop could arrive at
  its test of `_quit` with a functor queued during `processFunctors()` and no
  wake-up. `WakeupInv` extends the claim to every phase except between the
  return of `poll()` and the swap, the stretch in which the queue will be
  looked at without a wake-up; with the fact that `_processingFunctors` is set
  exactly inside `processFunctors()` it is inductive (`WakeupInvariant`).
- `NoQuitIsLost`: `NoLostQuit`. `_quit` is clear at the step from the test to
  `poll()`, and every later `quit()` either comes with a pending `waken()` or
  is made by the loop thread outside `poll()`.
- `EventLoopImplements`: `ImplementsExecutor`. The executor's pending tasks are
  the local vector followed by the queue; the swap is a stutter because it
  happens with an empty vector, and `HeadTailOfConcat` gives the step that
  completes a functor.

`PollerProofs`, from `FdAssumption` (descriptors are natural numbers):

- `PollerInvariant`: `TypeOK /\ IndexInv`, inductive as they stand. One lemma per
  operator: `AddConsistent`, `ChangeConsistent`, `RemoveConsistent` (the swap
  with the last pollfd, negated or not) and `RegisterConsistent`; each also says
  what becomes of the pollfds of the other channels.
- `PollerAssertsHold`: `NoAssertFails`, a consequence of `IndexInv`.
- `PollReportsEachOnce`, `OthersStayUntouched`: the action properties
  `ReportsEachOnce` and `OthersUntouched`. The first rests on
  `PollableIsRegistered`, which needs `IndexInv`; the second on what the lemmas
  say of each channel other than the one that is registered, updated or removed,
  the moved one among them.

`TimerQueueProofs`, from `TimerAssumption` (delays and intervals are natural
numbers, `None` is not):

- `NoTimerLostHolds`: `NoTimerLost`, about each timer that was ever added
  (`added`). `TimersInv` says that the queue, the two lists of the handler and
  the queued requests hold a timer once each and are apart, and `Accounted` that
  what they hold was added, that one whose callback did not run is still held
  and not behind its callback, and that a repeating one is held in any case.
  The first is needed because a timer in two places would be doubled by the next
  restart and could be lost from one of them unseen.
- `ArmedForEarliestHolds`: `ArmedForEarliest`. `ArmedInv` also covers the moment
  between the computation of an expiration and `timerfd_settime()`, where it is
  about what will be armed. `EarliestIsLeast`: a set of entries that is not empty
  has an earliest one, by well-foundedness of the natural numbers.

`TcpServerProofs`, from `ServerAssumption` (the listener's descriptor is natural
and differs from those of the connections, because it is open all the time;
`None` is neither a connection nor a fault):

- `NoDanglingChannelHolds`, `CallbackProtocolHolds`, `OnlyQueuedSendFaultsHolds`:
  the invariants of these names; `StateGoesForwardHolds` and
  `ShutdownDrainsHolds`: the action properties. All rest on the inductive invariant
  `Core`: a connection is in one of three stages, told apart by what the
  application heard (`NotYet`, `Up`, `Down`), and each stage fixes whether it is
  in `_connections`, which functors are queued for it and whether the `Poller`
  knows its channel; `establish` and `destroy` are queued once (`Once`); the events
  left over from a `poll()` cannot close a connection a second time
  (`EventsInv`); no two live connections have one descriptor; and while nothing
  failed the tables of the `Poller` are consistent. The lemmas about `Poller` come
  from `PollerProofs` through an instance (`PP`); there is one lemma per action.
  The queued `send()` is a disjunct of its own: after a fault the model stops.
- `IdleIsSettledHolds`: when the loop is in `poll()` with nothing queued, each
  connection is unknown to the server, or up and polled for input, or down and gone
  from `_connections` and the `Poller`. This is what `ClosedConnectionsGoDown` needs
  besides fairness. `Core` does not say that an open connection is polled, and
  `updateChannel()` never makes a negative descriptor positive again; `Watched`
  adds that the descriptor of a connection in the map is not negative and wants
  input, which no update, no removal of another channel and no new connection
  changes.

`EventLoopProofs` also has the theorems about `EventLoopThread` and
`EventLoopThreadPool`, for any set of objects and without assumptions on it:

- `StartedLoopIsAliveHolds`: `StartedLoopIsAlive`, from the handshake of
  `_loop` (`Handshake`): it is set before `loop()` is entered, and only `quit()`
  makes `loop()` return.
- `WaitsEndHolds`: an owner that sleeps in `start()` has a thread that is still to
  publish `_loop` and to notify, and a destructor that joins after a `quit()` of a
  running loop joins a thread that is gone or finds `_quit` set. This is what
  `StartReturns` and `DestructorReturns` need besides fairness. `Handshake`
  carries it: the owner goes to sleep under `_mutex` only while `_loop` is not
  set, and a `quit()` after `loop()` cleared `_quit` is not overwritten.
- `RunNeverReturns`: in a pool with any positive number of threads `run()` never
  returns and no loop is ever put into `_loops`. This proves what the run
  `thread_pool_run` shows for two threads.

`WebAppProofs`, from `HttpAssumption` (scripts are sequences of requests, and a
GET has no body) and `WebAssumption` (at least one descriptor and one client):

- `AnswersMatchHolds`, `LastAnswerIsLastHolds`, `OnlyBodiesFailHolds`: the
  invariants of `HttpServer`, under any callback and under the web application.
  `HttpInv` says that there is one request `c` at which the parser is: buffer and
  net together hold the rest of the stream without a gap (`Queue`), the parser's
  state and `_request` fit the first piece of it (`Position`), only the first piece
  behind a body is damaged (`Damage`), a refusal has a reason (`Verdict`), and
  while the connection is open `c` is the next request to be answered (`Open`).
  None of the properties is inductive without it: what an answer is made of was
  decided when its lines were parsed, and what is parsed depends on where in the
  stream the last request ended.
- `SignUpsAreConfirmedHolds`: the action property. A client that waits has one
  request under way (`Waits`), so that a sign-up on a connection that was shut
  down follows a refusal.
- `NothingOverlookedHolds`: when the server is back in `poll()`, everything the
  client sent was read and the connection is open, a client that waits has an
  answer to every request: no cut of the stream leaves a whole request in the
  buffer with nothing to wake the server. This is what `RequestsAnswered` needs
  besides fairness. It takes `Drained` in addition to `HttpInv`: `onMessage()`
  returns with no complete line in the buffer, which is so because a client that
  waits has nothing behind the request that is answered (`AnsweredIsLast`).
- `PagesAreTrueHolds`, `PagesServedHolds`: with the count of what was leaked
  (`costly = files + dbs`) they are inductive (`WebInv`).

`SharedBufProofs`, from `BufAssumption` (finitely many producers and consumers,
no thread is both, the buffer has room for one item):

- `SemaphoresAccountHolds`: `SemaphoresAccount`, which is inductive together with
  the fact that a thread inside an operation has not used up its quota. `MoveOne`
  says how the number of threads at a place changes when one thread moves.
- `SharedBufImplements`: `ImplementsBuffer`. The deque is the abstract buffer;
  that it is neither full when a producer pushes nor empty when a consumer pops
  follows from the accounts (`AccessIsSafe`).
- `NoSleepOnPositiveHolds`: `NoSleepOnPositive`. With the accounts it is
  inductive: each `post()` adds one to the count and wakes one sleeper if there
  is one, and who takes from the count was awake (`GroupStep`).
- `StuckMeansOthersDoneHolds`: when no thread can go on, a producer sleeps only on
  a full buffer after all consumers returned for good, and a consumer only on an
  empty one after all producers did. Both invariants are needed: sleepers on each
  side mean that both counts are zero, and the accounts do not allow that while
  nobody is inside an operation. This is what `AllReturn` needs besides fairness.

`BufferProofs`, about `RobustIo` from `RioAssumption` (sizes and lengths are
positive):

- `NothingLostHolds`: `NothingLost`, an equality of sequences, is proved byte by
  byte: `InOrder` says at which position of which buffer each byte is.
- `ResultsAreRightHolds`: `ResultsAreRight`. What a call returns depends on what it
  has stored so far: a call that still runs has room left and no newline in what
  it stored (`Calling`). The count of `readlineb()` is fixed in each case: a line that
  ended, `maxlen`, end of file with and without bytes before it.

and about `HyBuffer` from `BufferAssumption` (sizes are natural numbers, and
the bound on the growth of the vector is not below the size it is constructed with):

- `ContentIntactHolds`: `ContentIntact`. `BufferInv` adds that the indices are in
  order, that the vector is never shorter than the prependable bytes, and, in
  place of the equality of sequences, which byte is at which index (`Holds`), up
  to the first store behind the vector. `ReserveKeeps` is the heart of it: moving
  the readable bytes to the front or growing the vector keeps them.
- `DrainedIsSafeHolds`: the action property `DrainedIsSafe`. With nothing to read,
  `writableBytes()` counts no unread byte as room, and `reserve()` makes enough of
  it.

`EchoServerProofs`, from `EchoAssumption` (`None` is not a client, lines, workers
and bounds are natural numbers, the buffer has room for one connection):

- `NoForgottenChildHolds`: `NoForgottenChild`, for any number of children that exit
  together. The type part is not inductive: that no more threads spin than calls
  failed needs the descriptors -1 that are on the way to one, in `main()` and in
  the `SharedBuf` (`Spins`).
- `DescriptorsAccountedHolds`: in each of the four servers the descriptor of a
  connection is open from `accept()` to the end of its service and not after, but
  for the parent that is about to close its copy. `Connections` says for each
  stage of a connection who holds it, and that the buffer has it once. This is
  what `ConnectionsReleased` needs besides fairness.

Only model-checked are the liveness properties: the prover handles neither fairness
nor `ENABLED`. They are `QueuedFunctorsRun`, `QuitReturns`, `EveryTimerRuns`,
`ClosedConnectionsGoDown`, `StartReturns`, `DestructorReturns`, `RequestsAnswered`,
`LinesEchoed`, `ConnectionsReleased`, `AllReturn` and `CallsReturn`. What has to be
true in every state for them to hold is proved for most: `NoLostWakeup` and
`NoLostQuit` for the loop, `NoTimerLost` and `ArmedForEarliest` for the timers, and
`IdleIsSettled`, `WaitsEnd`, `StuckMeansOthersDone`, `NothingOverlooked` and
`DescriptorsAccounted` for the others named above.

`TypeOK` is proved in every module with proofs. In `EventLoop` and `Poller` no run
checks it; in the other modules it is a conjunct of an invariant.

## 6. What is not modelled

- The text of responses, `Timestamp::toString`, and `sio`, whose conversion of
  numbers has no caller outside of its unit test.
- Address conversions and wrappers that only log the failure of one call.
- SQL as text: a name that contains a quote is outside the model, in which a
  query means what its author meant.
- The web application with threads: the pool cannot be started (section 4).
- In `TcpServer`, a peer that resets a connection (the `EPIPE`/`SIGPIPE` path;
  `EchoServer` has it), and `POLLERR` and `POLLNVAL`, which
  `Channel::handleEvent()` only logs.
- Destruction of an `EventLoop`'s own channels, among it the read of
  `Channel::_handlingEvent` before it was set.
- Query, header and body values that no property tells apart.
- The difference between the two clocks: expirations are of the system clock, the
  timerfd is a `CLOCK_MONOTONIC` one (`src/unixUtility.cpp:165`). `TimerQueue` has
  one clock that does not go back, so a clock that is set is outside of it.
- A file that is opened but cannot be mapped (a directory):
  `application/hydrogenWeb.cpp:177` passes `MAP_FAILED` on to `setBody()`.
  `ServeStatic` has files that can be opened and mapped, and ones that cannot be
  opened.
- The response buffer of one answer as a `HyBuffer`: `appendToBuffer()`
  (`src/HttpResponse.cpp:11`) appends to a buffer with unread bytes and can meet
  the overrun described in section 4. `HttpServer` has the answer as a whole.
- The echo of a line that was not finished when its client left
  (`application/echoServer.cpp:28`, `echoServerm.cpp:85`), and the `SIGPIPE` it may
  raise: `EndOfFile` of `EchoServer` goes to the close at once.

## 7. Plan

Done, in this order: `EventLoop` with its abstract specification and proofs;
`Poller` with proofs; `TimerQueue`; `TcpServer` on `Poller`; the threads; the
buffer; HTTP; `SharedBuf` with its abstract specification; robust I/O; failing
reads and the web application; the echo servers; proofs of the safety properties
of `SharedBuf`, the threads, `Poller`, `TcpServer`, `TimerQueue`, HTTP, the web
application and robust I/O; proofs about `HyBuffer` and the echo servers, and of
the safety parts of liveness properties.

Next: model `HttpServer` on a `TcpServer` connection (closing while output waits).
