# Ryugu in TLA+

Ryugu is a small network library in C++11: event loops over epoll, timers,
TCP servers with one loop per thread, and an HTTP server as an example.
This directory holds its specification: TLA+ modules translated from the
source, TLC configurations that check them on small instances, and theorems
that TLAPS proves for every instance.

To run something: `tlc -config TimerQueue_safety.cfg MCTimerQueue`, or
`tlapm TimerQueueProofs.tla`.

## The system

| Part | State | Operations | Talks to |
|---|---|---|---|
| **EventLoop** (`net/EventLoop`) | `pendingFunctors` under a mutex, `callingPendingFunctors`, `isStop`, the eventfd | `loop`, `stop`, `runInLoop`, `queueInLoop`, `doPendingFunctors`, `wakeup`, `handleEventfdRead`, `updateChannel`, `removeChannel` | every other part runs in one; other threads hand functors over |
| **Poller, Channel** (`net/Poller`, `net/Channel`) | what is registered with epoll and the interest of each channel; the array of the channels reported last | `addChannel`, `updateChannel`, `removeChannel`, `loopOnce`, `enableRead/Write/All`, `tie` | holds raw `Channel*`; calls the handlers of timers, connections, the acceptor and the eventfd |
| **TimerQueue, Timer** (`net/TimerQueue`, `net/Timer`) | `timers` by due date, `activeTimers` by address, the timerfd | `addTimer`, `handleRead`, `getExpired`, `reset`, `insert` | runs the callbacks in its loop; two clocks |
| **TcpServer, Acceptor** (`net/TcpServer`, `net/Acceptor`) | `connMap_`: descriptor to connection, in the main loop | `start`, `newConnection`, `removeConnection`, `removeConnectionInLoop` | hands every connection to a loop of the pool |
| **TcpConn: life** (`net/TcpConn`) | `state_`, the channel's interest, the holders of its `shared_ptr` | `connectEstablished`, `handleRead`, `handleClose`, `forceClose`, `connectDestroyed` | functors between its loop, the main loop and other threads |
| **TcpConn: input** | `readBuf`, the context the user attached | `handleRead`, the message callback, `getInput` | the peer's stream, the user's callback |
| **TcpConn: output** | `writeBuf`, the interest in EPOLLOUT | `send`, `sendInLoop`, `handleWrite`, `shutdown`, `shutdownInLoop`, `handleClose` | the kernel's socket buffer, the peer |
| **Buffer** (`net/Buffer`) | a vector and `[bg, ed)` | `writeIn`, `append`, `writeInFromFd`, `readOut`, `readOutToFd`, `consume`, `consumeUntil`, `find` | one for the input and one for the output of a connection |
| **EventLoopThread(Pool)** | the thread's `loop` under a mutex, `handlers`, the round robin index | `start`, `threadFunc`, the destructor, `getOneLoop` | gives TcpServer its loops |
| **Echo server, WebServer** (`examples/Test/test.cpp`, `examples/WebServer`) | the state of the parser, kept per connection | `onMessage`, `parseRequest`, `onRequest` | the input buffer, `send`, `shutdown` |
| Sockets, InetAddr, Endian, Timestamp, Logging, TcpClient | | wrappers, formatting; TcpClient is declared only | |

The hard part is what runs between two lines of it. Threads meet at the queue
of functors and at `state_`, which is read and written without a lock.
Connections are kept alive by references spread over a map, lambdas in queues
and users, while epoll holds raw pointers to their channels. The descriptor,
key of `connMap_`, is reused by the kernel as soon as the last reference is
gone. Timers are due by one clock and alarmed by another. The socket takes
what it likes of what it is given. `PROJECT.json` lists these hazards at their
lines, with the properties that watch them.

What each part owes:

* EventLoop: a functor handed over runs once, in order, and soon; the loop never sleeps over one.
* TimerQueue: a timer runs when it is due, not before, and again only an interval later; it is freed once.
* TcpServer and TcpConn: no pointer outlives its connection, the map tells the truth, assertions hold, nothing leaks.
* Output and Buffer: bytes leave in the order they came, each once.
* Input and WebServer: whatever the cut of the stream, no byte is skipped, each request is handled as it was sent, and one request leaves nothing to the next.
* EventLoopThread(Pool) and the end of TcpServer: no pointer to a loop is used before or after its life, every thread is joined, and the program ends.

## Modules

| Module | Models | Note |
|---|---|---|
| `TaskExecutor` | what an EventLoop promises | abstract: a FIFO queue, each task once |
| `EventLoop` | `EventLoop` and the eventfd | refines `TaskExecutor` |
| `EventLoopProofs` | | theorems about `EventLoop` |
| `TimerQueue` | `TimerQueue`, `Timer`, `runAt`, `runAfter`, `runEvery` | |
| `TimerQueueProofs` | | theorems about `TimerQueue` |
| `TcpServer` | the life of connections over several loops | uses an EventLoop as `TaskExecutor` describes it: a FIFO queue |
| `TcpServerProofs` | | theorems about `TcpServer` |
| `Buffer` | the operations of `Buffer` on a value | no state |
| `SequenceFacts` | | lemmas on sequences: induction, cuts, what `FlattenSeq` joins |
| `BufferProofs` | | lemmas on the operations of `Buffer` |
| `ByteQueue` | what a Buffer promises | abstract: a queue of bytes |
| `ConnOutput` | `send` to `handleWrite`, and the ways in which a connection ends under it | extends `Buffer` |
| `ConnOutputProofs` | | theorems about `ConnOutput` |
| `ConnInput` | `handleRead` and the message callbacks of the echo and the web server | extends `Buffer`; its `readBuf` refines `ByteQueue` |
| `ConnInputProofs` | | theorems about `ConnInput` |
| `LoopThread` | `EventLoopThread`, `EventLoopThreadPool`, `TcpServer::start` and `~TcpServer` | composes the threads of a program, each with its loop |
| `LoopThreadProofs` | | theorems about `LoopThread` |
| `MC...` | | instances for TLC: the names of threads, tasks and so on |

Each module begins with what it takes for granted. Each definition that stands
for code is listed under `map` in `PROJECT.json` with its lines. Every module
has a section of mutated definitions, bugs that a change of the code could
introduce, which no behaviour uses: `PROJECT.json` (`mutants`) says which of
them breaks which property.

### EventLoop

A task is one call of `queueInLoop` or `runInLoop`. A step is a critical
section, a system call, or a piece of code of one thread between two of those.
`Push` is the locked part of `queueInLoop`. What remains to be done by the
caller is in `owedWakeups`: one `wakeup()` for `queueInLoop`, two for
`runInLoop`, which calls it again. `loopPc` is the place of the loop thread;
handlers and functors are arbitrary code and may call `queueInLoop`,
`runInLoop` and `stop` (`SelfQueueInLoop`, `SelfRunInLoop`, `Stop`).
`callingPendingFunctors` starts with either value, as the constructor does not
set it. The variables `accepted`, `executed`, `direct` and `unannounced` are
history. `queueInLoop` is modelled in full, including that it reads
`callingPendingFunctors` on the loop's thread only.

### TimerQueue

A unit of time is 100 µs, the least delay the code gives the timerfd.
`timers` is a set of entries, as in the code; `activeTimers` repeats it
by address. The timerfd is its expiry on the monotonic clock (`fdDeadline`),
readable from then on until it is read or armed anew. `handleRead` is four
steps: it takes its now (`HandleRead`), reads the timerfd and takes what
expired (`GetExpired`), runs the callbacks (`RunTimer`, one each, within
which timers may be added), and calls `reset` (`Reset`). Time passes
between any two of them. `Tick` and `SetClock` are the environment: time
passes, and the wall clock is stepped. `ranAt` is history.

### TcpServer

A loop is epoll_wait (`Poll`), the dispatch of the channels reported, and the
batch of functors (`SwapFunctors` to `FunctorsDone`). `frame` is what a loop is
in the middle of: a user's callback, or `handleClose` between `closeCb` and
`setState(DisConnected)`. `Alive(c)` says who holds a reference: the map, a
functor that captured the `shared_ptr` (and was not destroyed with its vector),
a frame, or another thread. The destructor is part of the step that drops the
last one: the descriptor is free from there, and epoll forgets it. Other
threads read `state_`, write it and queue their functor in three steps
(`UserTests`, `UserSets`, `UserQueues`). `inLoop` is kept as the code keeps it,
set at the first `update` and never reset. A callback may make any number of
calls before it returns; giving the connection to another thread and `forceClose`
are the last of them, the latter because what comes behind it finds the
connection DisConnecting. epoll_wait reports at most
`MaxReported` channels at a time, `cstMaxChannels - 1` in the code.

### Buffer, ConnOutput

`Buffer` keeps the vector, its capacity, `bg` and `ed`. A vector that grows may
choose any capacity that is enough. `ConnOutput` numbers the bytes that
`sendInLoop` gets, so that `wire` shows what the kernel was given, in which
order. Epoll dispatches by interest and not by what was reported, so
`HandleWrite` may come with no room (the write fails with EAGAIN), and goes
before `HandleRead` in one round (`turn`). The two
oddities of `readOutToFd`, that it writes from the front of the vector and that
it returns 0, are definitions of their own (`ToWrite`, `ReadOutResult`).

Every way in which a connection ends is there, as far as the output sees it:
`shutdown` and `forceClose` set `state` in the calling thread and leave a functor
in `toRun`; the peer's FIN (`PeerEnds`), after which it may go on reading, makes
`read` return 0; `handleClose` drops the interest in both events; and
`connectDestroyed` takes the channel out of epoll. After the peer's RST
(`PeerResets`) the first call on the socket reports ECONNRESET (`sockError`) and
only the next write raises SIGPIPE, which nothing in the program ignores; after our
own `shutdownWrite` the first write does. Who holds the connection meanwhile,
and the races for `state_`, are in `TcpServer`.

### ConnInput

One established connection and its message callback, which is that of the echo
server or that of the web server (`app`). A byte of the model is a piece of a
request that contains nothing smaller the parser looks for: a word with its
space, a version, a header field, CR, LF; so the stream can be cut wherever a
cut makes a difference. A path is whatever is in front of the next space; one of
several pieces is stored as "other". `HandleRead` is the read and the call of the callback.
The web server's callback then is one step per round of `parseRequest`'s loop
(`RequestLine`, `HeaderLine`, `EmptyLine`, `BadRequestLine`) and `OnRequest`,
which includes `HttpContext::reset`. `Find` returns the end, as `Buffer::find`
does, where its caller expects null. The assertions of `setMethod` and
`consumeUntil` are steps that end the process. `sent`, `handled`, `refused` and
`wholeReads` are history; `wholeReads` stays true while each read brings exactly
one request with a well-formed request line. That `read` returns 0 is in
`TcpServer` and `ConnOutput`, what the socket does with an answer in `ConnOutput`.

`Grammatical` says what the parser takes for one request: it has a CRLF, and if
its first line is a request line then its path is one piece and its other lines
are header fields up to an empty one, which ends it. `MCConnInput` assumes it of the five requests of the
runs, so TLC evaluates it there.

### LoopThread

`pc` is the main thread: `start` of the pool, one thread after the other, with
the condition variable (`check` holds the mutex, `blocked` waits; a wakeup may be
spurious), the loop, and the destructors in the order of C++: the body of
`~TcpServer`, `acceptor_`, `threadPool_` (`pool`, `stop`, `join` for each
`EventLoopThread`), `connMap_`, the main loop. `at` is where each loop and the
thread around it is. `~EventLoopThread` reads `loop` without the mutex, calls
`stop()` and joins, in three steps, while the thread may be anywhere. If it
reads null the destructor of a joinable `std::thread` calls `std::terminate`
(`terminated`); a call on a loop that does not exist ends in `dangling`. A
callback may stop the main loop, as both examples do, or its own loop, which no
example does and the public `getLoop()->stop()` allows (`stoppedInside`).

## Runs

| Run | States | Shows |
|---|---|---|
| `EventLoop` | 85,458 | three functors, two foreign threads and the loop's own: `ExactlyOnceInOrder`, `NoLostWakeup`; the loop implements `TaskExecutor`; every functor runs though epoll_wait never times out (`PromptExecution`); with the timeout, `stop()` is obeyed and every functor runs or the loop is left |
| `TimerQueue_safety` | 2,757,948 | three timers, the wall clock set once: `HeldOnce`, `Timely`, `NeverEarly`, and no timer runs again before its interval is over, however late the loop comes (`RunsSpaced`) |
| `TimerQueue_liveness` | 12,794 | due timers run |
| `TcpServer_threads` | 990,926 | two connections on two descriptors, one loop or two, another thread: `ChannelsAlive`, `MapFaithful`, `OpenMeansMapped`, `AssertionsHold` |
| `TcpServer_release` | 96,628 | two connections that follow each other on one descriptor, with another thread: every connection whose peer closed is destroyed, and as long as the other thread kept out, it is closed once (`ClosedOnce`) |
| `ConnInput` | 216,601 | two requests of five kinds, cut into reads anywhere: `NothingSkipped`, `HandledAsSent`, `NothingAfterClose`, `MethodSetOnce`, `WholeRequestsHandled`; `readBuf` is a queue of bytes |
| `ConnInput_split` | violated | a request in two reads fails an assertion, see below |
| `LoopThread` | 121,507 | none to two threads and two connections: `EndsCleanly`, `ServerOutlivesThreads`, `Balanced`, `DestroyedLast`; `start()` returns, and the program ends once its main loop was stopped |
| `ConnOutput_bytes` | 608,770 | with assertions and without, closed or reset by either side: what waits is exactly the bytes behind those counted as written (`RestIsKept`), it is watched for until the connection is closed (`PendingIsWatched`), it is written as long as the peer reads and nobody ends the connection (`Drained`), and the order is kept up to the first write behind `bg` (`InOrderUntilRewound`) |
| `ConnOutput_order` | violated | a byte is sent twice and another never, see below |
| `ConnOutput_shutdown` | violated | `shutdown` over a buffer that is not empty, see below |
| `ConnOutput_assertion` | violated | an assertion of `handleWrite` fails, see below |

### Bounds, and why they are enough

* EventLoop: two foreign threads are needed for a push between another
  thread's push and its wakeup; three functors fill the three places a functor
  can be in (run, in the batch, pending). There is no other bound; each task is
  handed over once.
* TimerQueue: `MaxTime`, 6 units, is more than the longest delay plus the
  least delay; three timers make a batch of two with a third one added by its
  callbacks. `MaxClockSets` = 1 is a step forward or back at any moment.
* TcpServer: two connections and one descriptor are the least in which a
  descriptor is reused while the first connection is still on its way out
  (`TcpServer_release`); a second descriptor lets them overlap
  (`TcpServer_threads`, which reuses as well). `Pools` has the server with a loop
  of its own for the connections and the one where a single loop does
  everything. One other thread with one call is enough for a write of
  `state_` to come between any two steps of the loops. With `MaxReported` = 2 a
  round reports both connections, or one of them and the acceptor.
* ConnInput: what one request can leave to another shows with two, so
  `MaxRequests` = 2; the five kinds are a request with and without a header, one
  by HTTP/1.0 to `/quit`, a line without a version and a word without a space.
  `MaxCapacity` = 20 is more than two requests need (16), so that a vector may
  grow more than it must; a read of any length hits every case of `writeIn`:
  room, moved to the front, grown, both. Three requests hold as well (2,616,028
  states, two minutes).
* LoopThread: two threads are needed for one that is started or destroyed while
  another runs; with two connections both loops, or one loop twice, may be busy
  when the main loop is stopped, and the round robin wraps. Three connections
  hold as well (2,058,086 states, four minutes).
* ConnOutput: messages of 1, 2 and 4 bytes against room for 2 are less than,
  equal to and more than what the socket takes; `MaxBytes` bounds what is
  sent in total, `MaxLate` the threads that saw Connected. `MaxBytes` = 6 of
  `ConnOutput_bytes` has room for a message that is written in parts and for one or
  two that follow it from a callback or another thread.

Deadlock is not checked: every instance stops by itself, when its functors,
connections, bytes, requests or its time run out, or its program ends. That
nothing waits for ever before that is what the liveness properties say.

### Fairness

* `EventLoop!PromptSpec`: the loop thread takes its steps (handlers and functors
  return, epoll_wait reports a readable eventfd) and a thread in `queueInLoop`
  gets to its `wakeup`. Nothing is assumed of the timeout. `TimeoutFires` adds
  that epoll_wait returns after 500 ms without anything to report; it is the
  premise of the two properties that need it.
* `TimerQueue!FairSpec`: the loop polls, callbacks return, time goes on. In its
  run the handlers take no time, so that the end of the modelled time cannot come
  in the middle of one.
* `TcpServer!FairSpec`: each loop gets on, since `Poll` returns at least every
  500 ms and callbacks return; other threads finish their calls and let go of
  their references. The end of the stream is reported until it was read, as epoll is
  level triggered.
* `ConnOutput!FairSpec`: the peer reads as long as it did not reset the
  connection, and what level triggered epoll reports is dispatched (`Reported`): the end of the
  stream or an error, and, if EPOLLOUT is watched, room or a closed write end.
  `ClosingSpec` adds that the functor of `shutdown` runs, and that the peer, once it
  has read all there is after our FIN, sends its own: the peer of the comment
  above `shutdownInLoop`.
* `LoopThread!FairSpec`: every thread is scheduled, epoll_wait returns at the
  latest after its 500 ms, and functors return. Peers need not close, nor a
  callback stop anything; a spurious wakeup need not come.

## Where the code differs from what it says

* **Order of the output.** `Buffer::readOutToFd` writes `size()` bytes from
  `getData()`, the front of the vector, where the data begins at `bg`
  (`Buffer.h:42`). Once one write from the buffer was partial, the next one sends
  the same bytes again and as many at the end are counted as written and never
  sent (`ConnOutput_order`: of four bytes, two go out directly, `handleWrite` sends 3,
  and the second `handleWrite` sends 3 instead of 4), against the
  comment at `TcpConn.cpp:115`. `InOrderUntilRewound` shows that everything else
  keeps the order.
* **shutdown with bytes waiting.** `shutdownInLoop` closes the write end whatever
  is in the buffer (the TODO at `TcpConn.cpp:214` asks whether the channel is
  writing), and EPOLLOUT stays watched: the next `handleWrite` raises SIGPIPE, where
  the comment at `TcpConn.cpp:206-210` has the connection end by the
  peer's close (`ConnOutput_shutdown`).
* **Write interest.** `readOutToFd` returns a variable that stays 0, so
  `handleWrite` never clears its interest in EPOLLOUT: a build with assertions
  aborts at `TcpConn.cpp:67` once the buffer is empty (`ConnOutput_assertion`), one
  without writes nothing in every round.
* **A request in two reads.** `Buffer::find` returns the end of the data when
  there is no CRLF, and `HttpContext.h:98` and `121` test for null. A request line
  without a version yet is refused, and one that is complete but for its CRLF
  makes `consumeUntil` fail its assertion, `Buffer.cpp:113` (`ConnInput_split`).
  `WholeRequestsHandled` says what holds instead.

Not counted among these: the comment at `TimerQueue.cpp:28` says that delays below
100 ms are taken as 100 ms, where the next line, and `TimeFromNow`, take 100 µs;
`handleClose` leaves behind what waits in the buffer, also
for a peer that closed its write end only and reads on (`Drained` names every
close as its exception); `WebServer.h:83` asks for the header "Conneciton", so
that only the version and the callback decide whether a connection is closed;
`onMessage` handles one request per read, so that a pipelined one waits for the
next (`NothingSkipped` says that it is there); a refused line stays in the buffer
and is parsed again by the next read, against `setMethod`'s assertion
(`MethodSetOnce`); a callback that stops its io loop ends the program badly when
the server is destroyed (`EndsCleanly`); and `connectDestroyed` is not run for a
connection whose loop saw `stop()` before its last swap, which is harmless, as its
descriptor leaves epoll when it is closed.

Nor are these: `callingPendingFunctors` is not initialised, which costs
a functor queued before `loop()` at most the timeout; and another thread's
`forceClose` or `shutdown` can bring a closed connection back to DisConnecting,
after which `handleClose` runs a second time, harmlessly (`MapFaithful`,
`ChannelsAlive` and `AssertionsHold` hold with it; `ClosedOnce` is stated without
other threads).

## Proofs

`EventLoopProofs`, from no assumption on `Threads` and `Tasks`:

* `TypeCorrect`.
* `Order`: `ExactlyOnceInOrder`. The invariant is not inductive as it stands.
  `SwapFunctors` replaces the batch, which loses nothing only because the batch is
  empty outside of `doPendingFunctors`; `OrderInv` adds that.
* `WakeupsAreNotLost`: `NoLostWakeup` speaks of the loop in epoll_wait only.
  `WakeupInv` carries what the other places must provide: before the swap pending
  functors do no harm, and between the swap and epoll_wait each functor pushed
  brought its wakeup, which nobody reads there, or the loop thread pushed it
  with `callingPendingFunctors` set.
* `Refinement`: `EventLoop` implements `TaskExecutor`; every step is `Accept`,
  `Execute`, `Finish` or a stutter.

`TimerQueueProofs`, from `DelayAssumption` (the least delay is positive),
`InputAssumption` and `BoundAssumption`:

* `TypeCorrect`.
* `AlarmsAreTimely`: `Timely`. `AlarmInv` adds that both clocks agree
  until one is set, and what is true inside the callbacks: `reset` arms the timerfd
  only for valid due dates, so any queued timer with an invalid one must
  have been added by a callback of the round, which armed the timerfd for it.
* `TimersHeldOnce`: `HeldOnce`, with the batch empty outside of the callbacks.
* `CallbacksAreNotEarly`: `NeverEarly`, from what the batch was selected by.
* `RunsStaySpaced`: `RunsSpaced`, an action property. `RunsInv` says it of each entry
  before it is due: its timer never ran, or repeats and ran an interval before the
  entry's date (`MayRun`). `reset` keeps that because a timer of the batch ran at the very now
  from which the next date is counted. It needs nothing of the clock.

`LoopThreadProofs`, from `MaxThreadsAssumption` (the number of threads is a
natural number), for any set of connections:

* `TypeCorrect`. `CurrentIsThread` adds that the main thread is at work on a
  thread of the pool, not on the one after the last.
* `ThreadsEndFirst`: `ServerOutlivesThreads`. `JoinInv` says how far `~pool` got:
  every thread before `current` is over, and one never asked for never begins.
  It needs nothing of how the loops are stopped.
* `PointersAreLive`: `EndsCleanly`. `KeptInv` follows a pointer from the thread that
  publishes it to `handlers` and to `loopOf`: each loop kept anywhere is one
  that `start()` returned, and `EventLoopThread::loop` is set exactly while it is
  there. `StopInv` adds that a loop is left only when it was told, which is why a
  callback that stops its own loop takes the promise away.
* `DealtEvenly`: `Balanced`. `RoundInv` says who has one connection more than the
  others: the loops before `next` in `handlers`, which keeps the threads in order.
* `DestroyedComesLast`: `DestroyedLast`, an action property. `OrderInv` looks at
  what a loop has still to run, its batch followed by its queue: a connection
  that connects waits for its `connectEstablished` there, in its own loop, with
  nothing about it in front (or the loop has ended); so `connectDestroyed`
  never overtakes it.

`TcpServerProofs`, from `NamesAssumption` (a null is no connection and no
descriptor), `ReportAssumption` and `CallsAssumption`, for any number of loops, connections, descriptors and other threads:

* `TypeCorrect`. `TypeInv` adds where a call of another thread is (`CallInv`), and
  that a batch and the array of epoll_wait are empty outside of the phase that
  works on them (`PhaseInv`).
* `ChannelsStayAlive`: `ChannelsAlive`. A raw pointer in epoll is safe as long as
  a reference is somewhere: `EpollInv` says that a channel in epoll belongs to a
  connection that is in the map or has its `removeConnectionInLoop` or
  `connectDestroyed` in a queue, which captured the `shared_ptr`. That a functor
  of `send` or `shutdown`, which captures a plain `this`, is covered by the
  reference of the thread that queued it (`RawInv`) is not a property of the code but
  what the model assumes of its users (`UserReleases`).
* `MapStaysFaithful`: `MapFaithful`, and `OpenStaysMapped`: `OpenMeansMapped`.
  `OwnerInv` is the core: while anyone holds a connection, its
  descriptor is not the key of another, since the kernel reuses it only after the
  destructor. It needs to know what anything refers to (`KnownInv`).
* `AssertionsAlwaysHold`: `AssertionsHold`, an action property. Functors and
  channels are in the loop they belong to (`PlaceInv`); before
  `connectEstablished` nothing happens to a connection (`FreshInv`); and its functor
  is in one place (`OnceInv`), or a second run would find another state than
  Connecting.
* `ClosedOnlyOnce`: `ClosedOnce`. `ReadingInv` says that a channel that reads is one of
  an open connection, and not of one on its way out; `QuietInv` that without other
  threads an open connection reads until `handleClose`.

The proof first says of each action which of the variables it writes and how
(`Writers`, and the lemmas up to `Moves`: what a step may do to references,
states and queues), and then takes one conjunct of `ServerInv` after the other over
those moves rather than over the actions.

`SequenceFacts` holds what the library lacks: induction over the
natural numbers as a statement about sets of numbers (its own theorems take an
operator as parameter), cuts of a sequence, and what `FlattenSeq` joins, proved from its
definition as a fold by way of its partial results. `BufferProofs` says for each
operation of `Buffer` what it does to the contents, for any vector and any
indices.

`ConnOutputProofs`, from `LengthAssumption`, `RoomAssumption` and
`BoundAssumption`:

* `TypeCorrect`.
* `RestStaysInBuffer`: `RestIsKept`. It is about what `sendInLoop` and `handleWrite`
  keep, not about what the kernel was given in its place, which is wrong behind the first
  partial write from the buffer (`StreamInOrder`).
* `PendingStaysWatched`: `PendingIsWatched`, for a connection that was not closed.
* `OrderUntilRewound`: `InOrderUntilRewound`, kept by `HandleWrite` only because the
  buffer holds the bytes that were not yet written, from its front as long as `bg`
  is 0.

`CountInv` adds that the written and the waiting bytes make up those asked for: an
empty buffer alone would not tell too many written from all of them.

`ConnInputProofs`, from `RequestAssumption` (requests are sequences of bytes) and
`BoundAssumption`, for any set of requests, any number of them and any cut of
the stream:

* `TypeCorrect`, `BufferStaysWellFormed`.
* `MethodIsSetOnce`: `MethodSetOnce`. A method is left in the request between two
  requests only by a line that was refused (`MethodInv`).
* `NothingIsSentAfterClose`: `NothingAfterClose`, with `ClosingInv`: while the
  connection is Connected, no answer announced its end.
* `BufferIsAQueue`: `readBuf` implements `ByteQueue`; each step writes behind, takes
  from the front, or stutters.
* `StreamIsRead` (`NothingSkipped`), `RequestsKeepTheirMeaning` (`HandledAsSent`)
  and `WholeRequestsSucceed` (`WholeRequestsHandled`), when every request is
  `Grammatical`. Without that the client and the parser disagree where a
  request ends, and none of the three says anything. `StreamInv` relates
  the parser's state to the stream: what is still to come, in the buffer and in
  flight, is the rest of the request the parser is in, from the line it is at, and
  what it knows of that request is what the lines behind it say (`ParserInv`). `EchoInv`
  does that for the echo server. `WholeInv` adds, for reads that bring
  whole requests, that the buffer holds the rest of one request and nothing else.

Every invariant and action property, and both refinements, that a run checks is
the statement of a theorem. TLC finds the inductive invariants to hold on the
instances of the runs as well. Only model-checked are the liveness properties,
since the prover has no rule for fairness: `PromptExecution`,
`EveryTaskRunsOrLoopExits`, `StopIsObeyed`, `DueTimersRun`, `Released`,
`StartReturns`, `EndReached` and `Drained`. That the definitions compute what the
code does is not a theorem either: the map and the mutants are the evidence.

## Not modelled

* TcpClient (no code), logging, formatting, addresses, byte order: no behaviour
  of their own.
* `TimerQueue::cancel`: declared, not implemented.
* The text of `HttpResponse`, of paths and queries, and the handlers of
  `Server_test.cpp`: what they decide, whether the connection is closed, is a
  choice in `OnRequest`.
* `~TimerQueue`, which closes the timerfd and does not delete the timers still
  queued: the process ends there.
* A server destroyed while its main loop goes on: functors of `removeConnection`
  that are still queued would then run on a server that is gone. Both examples
  leave the loop first.
* Data races as such (`isStop`, `state_`, `addTimer` from another thread): a
  write is seen by the next read. For `state_` every order of the reads and
  writes is modelled; for a `std::set` used from two threads there is no
  outcome to model.
* The members of `WebServer`: `httpCB_` is destroyed before `server_`, whose pool
  threads may still call it (`WebServer.h:24-25`). `LoopThread` follows the main of the
  echo server, which has no such member.
* `send` and `shutdown` capture `this` and the caller's buffer. The model assumes
  the caller keeps both (`UserReleases`); nothing in the code sees to it.

## Plan

What is left:

* Safety lemmas the liveness properties rest on, as far as they can be stated
  without fairness: in each state where work is pending, a step towards it is
  possible.
* The destructor of `WebServer` with its pool, as a second program of `LoopThread`.
