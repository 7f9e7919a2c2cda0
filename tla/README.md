# TLA+ specifications of CAN Telemetry Monitor

These modules specify the server and the REST client of this repository: the
frame store, the epoll reactor with its worker pool, how requests are cut out of
a byte stream and time out, the event streams, the bus statistics, the life of
the process from start-up to shutdown, and the clients that poll. TLC checks them on small instances; TLAPS proves the
theorems in the `*Proofs` modules for every value of the constants.
`PROJECT.json` lists the runs, the lines every definition models, the mutants
that show each property can fail, and the hazards the properties are for.

## The system

A backend process receives frames from a SocketCAN interface, keeps the last
ones, and serves them over HTTP.

| Part | State | Operations | Talks to |
|---|---|---|---|
| `FrameStore` | deque of at most `capacity_` frames, `next_sequence_`, `total_appended_`, `overwritten_` | `append`, `queryAfter`, `stats`, all under one `shared_mutex` | written by the receiver thread, read by workers and by the loop thread |
| `CanReceiver` | socket, running flag, its thread | `start`, `stop`, `receiveLoop` | `FrameStore::append`, `CanBusStatistics::recordReceived` |
| `CanSender` | socket | `open`, `close`, `sendRaw` | called by workers through `CanRuntime` |
| `CanBusStatistics` | totals, per-id counters, a sliding window of samples | `recordReceived`, `snapshot` | receiver thread and workers |
| `CanRuntime` | the four above | `start`, `stop`, `queryFrames`, `busStats`, `sendFrame` | `Connection`, `main` |
| `EventLoop` | `conn_map`, epoll set, `timer_` | `addEvent`, `updateEvent`, `removeEvent`, `isRegistered`, `loop`, `handleEvents`, `handleNewConnection`, `dispatchSseEvents` | one thread; workers call `updateEvent` and `removeEvent` |
| `Connection` | `recv_buf`, `send_buf`, SSE cursor and flags, four mutexes | `handleRead`, `handleWrite`, `startSse`, `pumpSse` | workers and the loop thread |
| `ThreadPool` | task queue | `submit`, `workerLoop` | the loop submits, four workers run |
| `Timer` | heap and `fd_expire_map_` | `addTimer`, `updateTimer`, `removeTimer`, `tick` | loop thread and workers |
| `HttpRequest`, `HttpResponse`, `Logger` | a request being parsed; headers; a file | `parse`, `serialize`, `log` | `Connection` |
| `Server`, `main` | listening socket | start-up, shutdown | all |
| QML client, `wwwroot` page | the cursor (`lastSequence`, `after`), the rows | a refresh every 500 ms, a form to send | HTTP |

What is hard here, and hardly reachable by the repository's tests:

- **Descriptor numbers change hands.** Tasks, epoll events and timers name a
  connection by its number. The loop closes a connection (timer, overflow) and
  accepts a new one with the same number while workers still hold tasks.
- **Locks are short.** `conn_mutex_` covers the lookup, not the `epoll_ctl` or
  `write` that follows; `send_mutex_` covers the look at `send_buf`, not the
  `updateEvent` that follows from it.
- **Edge-triggered epoll** reports a change once, and three places switch the
  interest of one descriptor (`processRequest`, the end of `handleWrite`,
  `dispatchSseEvents`), in different threads.
- **Bounded buffers** on every way: frames are overwritten, slow streams cut off.
- **Clients overlap their own requests**: the refresh timer does not wait.
- **Requests come in any portions**, and two readings of their headers
  (`extractContentLength`, `HttpRequest::parse`) decide where they end; the
  request object outlives a parse that failed.
- **Clocks are read before locks**: snapshots of the statistics and entries of
  the timer heap are stale when they are used.
- **Shutdown runs beside the workers**: sockets are closed, and their numbers
  given out again, while tasks that know them are still under way.

For each part, what makes it correct: the store keeps exactly the newest frames
under numbers never used twice; a reader that is ahead of a frame still stored
has seen it; the table, the kernel and the timers agree on who has which number;
only its own client, its own timer or its own overflow ends a connection;
responses go to the client that asked, once and in order; no request, response
or event is forgotten; a request ends where its client says; an idle connection
is closed and no other; running totals are what a recount would give; nothing is
used after it was destroyed, and the process ends when it is told to, with
nothing left behind; the process survives its clients.

## Modules

| Module | What it is | Code |
|---|---|---|
| `FrameStore` | the store, without a `Next` of its own | `FrameStore.cpp` |
| `FrameStoreProofs` | lemmas about `append`, `queryAfter` and the log the store is | |
| `FrameLog` | abstract: an endless log with a sliding window, and a reader that never passes a kept frame unseen | README "CAN 帧存储" |
| `PollingClient` | EXTENDS `FrameStore`: receiver, REST query, polling client; `LogSpec` is the refinement of `FrameLog` | `Main.qml`, `index.html`, `Connection.cpp` (`/api/can/frames`), `CanReceiver.cpp` |
| `PollingClientProofs` | theorems about it | |
| `Reactor` | loop thread, workers, connections, timers, with sockets, epoll and clients around them | `EventLoop.cpp`, `Connection.cpp` (`handleRead`, `handleWrite`), `ThreadPool.cpp`, `Timer.cpp` |
| `ReactorProofs` | theorems about it | |
| `SseStream` | EXTENDS `FrameStore`: one event stream from the receiver to the client; also refines `FrameLog` | `Connection.cpp` (`startSse`, `appendSsePayload`, `pumpSse`), `EventLoop.cpp` (`dispatchSseEvents`) |
| `SseStreamProofs` | theorems about it | |
| `BusStatistics` | EXTENDS `FrameStore`: receive thread, statistics, workers that take snapshots, the clock | `CanBusStatistics.cpp`, `CanReceiver.cpp`, `CanRuntime::busStats` |
| `BusStatisticsProofs` | theorems about it | |
| `Lifecycle` | the process: main thread, receive thread, workers, the descriptor table | `main.cpp`, `Server.cpp`, `CanRuntime.cpp`, `CanReceiver.cpp`, `CanSender.cpp`, constructors and destructors of `EventLoop` and `ThreadPool` |
| `LifecycleProofs` | theorems about it | |
| `HttpFraming` | pure operators: where a request ends, and what `parse` makes of it | `Connection.cpp` (`extractContentLength`), `HttpRequest.cpp` |
| `TimerHeap` | the timers, without a `Next` of their own | `Timer.cpp` |
| `RequestStream` | abstract: plain messages are handled once, in order, complete | |
| `HttpSession` | EXTENDS `HttpFraming` and `TimerHeap`: portions, tasks, parsing and time-outs; `StreamSpec` is the refinement of `RequestStream` | `Connection.cpp` (`handleRead`), `EventLoop.cpp`, `ThreadPool.cpp` |
| `HttpSessionProofs` | theorems about it | |
| `NatRecursion` | induction and recursion over the numbers, for the proofs about sums and texts | |
| `MC...` | instances for TLC | |

`FrameStore` and `FrameLog` are shared by three components. `Reactor`,
`SseStream`, `HttpSession` and `Lifecycle` look at the same loop and workers from
four sides, each with the part of the others that its questions need: `Reactor`
has descriptor numbers and sockets, with requests as tokens; `HttpSession` has
bytes and time, with a connection that keeps its number; `SseStream` has what a
stream adds; `Lifecycle` has what happens before and after.

**Correspondence.** Variables carry the names of the members they stand for.
A step is what the code does under one lock or in one system call.

- `FrameStore`: a frame is its sequence number and identifier. `QueryAfter`
  returns a set; frames carry their numbers, so the order is determined.
- `PollingClient`: a slot is one `XMLHttpRequest`; `Poll` is the timer, `Serve`
  the server's single `queryFrames` call, `Deliver` the callback, `Fail` a lost
  request or answer. `shown` is history. Identifiers are filtered by the server
  (`?id=`) with `NoFilter` for a client that sends none, as the QML client does.
- `Reactor`: `pc` of a worker names the point in `handleIOEvent`, `handleRead`,
  `updateEvent` or `handleWrite`; `read_mutex_` and `write_mutex_` are held
  exactly at `ReadHeld` and `WriteHeld`. `removeEvent` is one step, lock to
  unlock. `updateEvent` is two (`Check`, `Modify`): the `epoll_ctl` is after the
  unlock. `Lookup` and `Submit` split `handleEvents` the same way. `epoll_wait`
  and `tick` are one step (`EpollWait`): only the loop thread runs between them.
  A request and its response are one token, `<<connection, number>>`;
  `BadRequests` are those `HttpRequest::parse` rejects (400, `recv_buf` cleared,
  interest `EPOLLOUT`). The socket takes `SocketRoom` responses until the client
  reads. A client may connect, send, read, shut down its side, abort (`Aborting`),
  and close (`Leaving`): a close is `ShutDown` and then `Refuse` of what it has not
  read. A worker may throw on a request for a directory (`Directories`). Beside
  the number, `timers` keeps for whom the entry of `fd_expire_map_` was made.
- The kernel (external in the map): a descriptor belongs to one socket; accept
  takes the smallest free number; closing removes it from epoll; `epoll_ctl`
  reports a condition that holds already. A reset of a connection still open on
  both sides is `ECONNRESET` for the first call and `EPIPE` with `SIGPIPE` for a
  write after it; one that comes after the client's FIN, as after an ordinary
  close, is `EPIPE` with `SIGPIPE` for the next write at once.
- `SseStream`: one connection that keeps its number (numbers changing hands are
  `Reactor`'s subject), so looking it up and acting on it is one step. `Pump`,
  `AppendFrame`, `Heartbeat` are `pumpSse` frame by frame, because workers drain
  the buffer in between. A frame or comment is one unit of `MaxPending`
  (`kMaxSsePendingBytes`) and `SocketRoom`, and the client reads one at a time.
  `Stream` is the whole stream in the client's order, read or not.
- `BusStatistics`: `RecordReceived` and `Snapshot` are what happens under
  `mutex_`; `Stamp` and `ReadClock` are the readings of the clock before it. An
  element of `Ids` is what the statistics see of a frame (number, format, length).
  Differences are taken modulo `Size`, for 2^64. `recorded` is history. `rate` is
  the number of samples; the code divides it by the window in floating point.
- `Lifecycle`: `main` is the place of the main thread in `main`, `CanRuntime::stop`
  and the destructors, in the order C++ runs them (the pool before the table,
  `EventLoop.h:40-50`); `file` is the descriptor table, which closes whatever is
  named. `CanRuntime::stop` is one sequence of steps that is passed once or
  twice (after the loop or a failed `init`, and by the destructor). A task is one
  request: `send` or `page`. `claimed` counts the answers `"sent":true`.
- `HttpFraming`: a text is a sequence of tokens of size 1, so that sizes add up;
  sums of sizes are modulo `Size`. `ExtractContentLength` takes the first
  `Content-Length` and passes over lines without colon, `StoredLength` takes the
  last and stops there: this difference is the code's. `stored` is what the
  headers of `req` hold. A client's `Message` is the lengths it announces, a junk
  line or none, and a body; `Render` is its text.
- `TimerHeap`: `heap_` is a set (two equal entries are popped together, the second
  finds the map empty). `addTimer` and `updateTimer` are the same code.
- `HttpSession`: `Arrive` brings a portion, which may hold parts of several
  messages; `Read` is one turn of the read loop; `HandleRequest`, `Reject` and
  `StopParsing` are the three ways through one turn of the parse loop. `handled`
  is what `processRequest` was called with.

## Runs

| Run | Question | Instance | Result |
|---|---|---|---|
| `polling` | do overlapping, failing, reordered polls ever lose a frame that is still stored? is the pair the sliding log? | capacity 2, two identifiers with and without filter, two slots, limits 1 and 2, four frames | holds; 43 thousand states |
| `reactor` | do table, kernel and timers stay in step when a number is given away under running tasks, and is no input forgotten? | two connections, one number, one request each, one rejected and one that may throw, two workers, timers, one client that aborts or closes | holds; 3.5 million states |
| `reactor_live` | is every request read, every response in order, every end noticed? | one connection, two requests, the first bad, two workers | holds; 62 thousand states |
| `sse` | is the stream complete and in order up to overwritten frames, and cut off only for a reason? | capacity 2, three frames, buffer 2, socket 1, two workers, no heartbeat | holds; 1.9 million states |
| `sse_live` | does every frame arrive, and does overflow end the stream? | capacity 1, two frames, one worker, heartbeat | holds; 260 thousand states |
| `lifecycle` | is everything still there when it is used, and gone when the process ends? does it end? | two workers, one connection, six numbers, two tasks, every start-up step may fail | holds; 142 thousand states |
| `statistics` | do window and sums survive snapshots with old clock values? is a rate that of some moment? | two workers, window 2, clock up to 4, three frames in two formats | holds; 524 thousand states |
| `session` | does every plain message get handled once, whole and in order? is only an idle connection closed, and surely? | one connection, two workers, four sessions (below), two portions, `Size` 8 | holds; 261 thousand states |
| `fd_reuse_write` | `README.md:271`: nothing written for an old object after reuse | two connections, one number, one request each | **violated** |
| `fd_reuse_close` | `README.md:271`: the table protects the mapping | same | **violated** |
| `close_kills` | `README.md:279`: a disconnect is cleaned up | one connection, two requests, close | **violated** |
| `stranded` | `README.md:14`: locks protect concurrent reading and writing | one connection, two requests | **violated** |

**Why these bounds.** One descriptor number for two connections is the smallest
case in which a number changes hands, and it forces it. Two workers are what
races; the locks and the queue make further workers equivalent to one that is
slow. Two frames of capacity with three or four frames make the store overwrite
while polls are under way and, with a filter, make a query skip a frame. Limits
below the number of stored frames make a query cut. `SocketRoom` 1 makes every
second write return `EAGAIN`. `MaxPending` 2 makes a stream overflow in the
middle of a pump. `sse` leaves the heartbeat out (`MaxTasks = 0`) and `sse_live`
has one worker: both together are too large, and the race the heartbeat repairs
is between one worker and the loop. `MaxFrames`, `MaxRequests` and `MaxTasks`
bound the environment only: what the bus, the clients and the clock do.
`NoInputForgotten` is checked in `reactor`, where two connections share a number;
the liveness properties `EveryRequestRead` and `ShutDownIsNoticed` are checked in
`reactor_live` on one connection with two requests, as two connections with
three requests between them are about four million states, too many for liveness.

In `lifecycle` six numbers are enough for all that can be open at once but one
page, so that a closed number is given out again at once. In `statistics` a
window of 2 in a clock of 4 lets samples expire while a worker holds a clock
value from before; `Size` only has to be above all sums, and a sample newer than
the clock value would wrap to a huge age if it were not looked at first. The
sessions of `session` are one message or two of each kind that matters: a POST
with its body and a GET; a message rejected for a junk line after its
`Content-Length`, and a GET; a length that wraps header and length to 0; a body
nobody announced. Two portions cut them at any place, and `Horizon` lets the
clients act before and after one time-out. `Size` 8 is just above the longest
text with a sensible length.

Deadlock is not checked in the reactor, stream and session runs, as the system
may stop: clients may all leave, and `SIGPIPE` may kill the process. It is not
checked in `statistics`, where clock and bus are bounded, nor in `lifecycle`,
where the process ends; there `StopsOnSignal` says that it does.

**Fairness.** The loop thread and each worker get to run (weak fairness of their
whole step: threads of the operating system). A client that has not left reads
what it is sent: without it a socket stays full for ever and no server could
make progress; in `reactor_live` it is needed after a 400, which leaves
`EPOLLOUT` as the only interest. In `sse_live` time passes: ten seconds after a
heartbeat the next is due. In `polling` the refresh timer repeats, and since
requests may fail any number of times, a client that keeps asking is served and
answered in the end (strong fairness). In `lifecycle` and `session` only the
threads are fair: nothing is assumed of signals, clients, the network and the
clock. `SilenceEnds` names the one thing it needs as its own hypothesis: that
seconds go on passing. Nothing is assumed of the bus, nor that clients send,
leave or abort.

**What the passing runs show beyond "holds".** Some of the properties draw the
line around behaviour a reader may not expect:

- `RejectedForReason`: a message that is as it should be *is* refused with 400 if
  the connection has had a text with a `Content-Length` rejected before: `req`
  is not replaced then (`Connection.cpp:525-536`). The property says that this is
  the only reason.
- `StreamSpec`: the promise ends at the first message that is not plain, since a
  length that wraps or disagrees makes the server take part of a message for the
  next request. `OncePerHeader` says that even then the parse loop cannot go
  round for ever.
- `PagesKeepTheirNumber` excludes the listening number, which `~Server` and then
  `~EventLoop` close: a page a worker opened in between may lose its number.
- The receive thread may end at any poll (`CanReceiver.cpp:61`), and the server
  goes on without it. `lifecycle` shows that shutdown is clean all the same;
  nothing in the code notices, and nothing here claims it does.
- `SentMeansOnBus` holds although a worker may write to a number that the sender
  no longer has: by then only pages can have it, and they are open for reading.
- `StatsLeadStore`: the answers of `/api/can/stats` may be one frame ahead of
  those of `/api/can/frames`, never behind.

**What the violations show.** All but the third come from a step that acts on what
was checked before a lock was released.

1. `fd_reuse_write`: between `isRegistered` (`EventLoop.cpp:313`) and `write`
   (`Connection.cpp:804`) the loop may close the connection and accept another
   under its number, which then receives the old one's response.
2. `fd_reuse_close`: an event of a closed connection still in the batch finds
   the newcomer by number, and a worker closes it.
3. `close_kills`: the client closes, what is written to it comes back as RST, and
   the next write raises `SIGPIPE`. An abort does the same when one worker reads
   the reset before another writes. The run of `reactor` has both, and a worker
   that throws (`Connection.cpp:754`, `tellg` of a directory), which ends the
   process as well: no thread of the pool catches.
4. `stranded`: the `updateEvent(EPOLLIN)` at the end of `handleWrite` comes
   after the `EPOLLIN | EPOLLOUT` of a response appended meanwhile. The response
   stays in `send_buf`. Event streams have the same race; `EveryFrameDelivered`
   holds for them because the heartbeat arms the socket again, up to ten seconds
   later (the mutant `HeartbeatNever` shows that nothing else does).

## Proofs

The theorems of the `*Proofs` modules hold for every value of the constants. The
assumptions are those named in the modules: the capacity and the window are
positive (the constructors throw otherwise), the clock stays below 2^64,
`NoFilter` is not an identifier, descriptors are positive numbers and differ
from the listening one, `None` is not a connection, the pool has a worker, a pump
fetches at least one frame, the send buffer and the socket have room for one
unit, starting points and bounds are natural numbers. Two are about widths: the
bits of all frames there are add up to less than 2^64 (`BitsAssumption`; a frame
is estimated at 158 at most), and a client's messages are each shorter than 2^64
(`Message`) while the lengths they announce may be anything.

**Polling.** `NoRetainedFrameSkipped` is not inductive: a cursor may jump when an
answer arrives. `IInv` adds that every known number is below `next_sequence`
(`NumbersAreBelowNext`) and that an answer under way has no hole a stored frame
would fill (`AnswersAreComplete`); the latter holds because `QueryAfter` takes
the oldest matches, and an append only removes frames or adds a newer one. From
`IInv`: type correctness, `StoreIsWindow`, `SequenceIdentifiesFrame`,
`NoRetainedFrameSkipped`, the action property `OnlyNewRows`, and `ImplementsLog`: initial states map to initial states,
`Receive` to `Publish`, `Deliver` to `Advance`, all else to a stutter.

**Reactor.** `TableOwnsSockets` needs that `accept` never returns a number whose
old entry is still there, which holds as `removeEvent` erases and closes under
one lock; that accepting does not touch a connection already there needs
`OwnersAreAccepted`. Workers call `removeEvent` with a number their connection
was really given (`TasksAreServed`). `RegisteredHasTimer` needs that expired
descriptors are handled before the next `tick` (`ExpiredFirst`), and that what the
loop has looked up is still registered or gone when it arms the timer, but not
replaced (`FoundIsCurrent`): only the loop accepts. Together they
are `IInv`. From it: type correctness, `TableStaysInStep`, `TimersStayArmed`,
and `OnlyOwnTask`: who closes a connection is the loop's expiry or a task of
this very connection, never a task left over from an earlier one.

`InOrder` needs an invariant of its own, `OrderInv`, since the order in which a
client is answered is that of the places its requests pass: answered and
written, answered and in `send_buf`, read, still in the socket. `Orderly` says
that along these places a connection's requests are its own and their numbers
grow. The place between a `write` and the erase that follows is the hard one:
what is written is then both in the socket and at the front of `send_buf`, while
other workers append behind it. It needs `OneWriter` (`write_mutex_`) and
`WroteBeforeErase` (what a worker has written is still there to be erased), and
`Orderly` speaks of the positions of `send_buf` that are `Pending` only.
`NumberedWhenAccepted` gives that a connection nobody has numbered is in no
worker's hands. All this is said of connections that share their number with no
other (`OwnNumber`): for those that do, order fails together with the rest, which
is `fd_reuse_write`. `OwnNumber`, once lost, does not come back, so nothing is
assumed about a connection before it is known to be alone.

One more theorem draws the line around what a violation shows; no run lists its
property, TLC has checked its invariant on the instances of `reactor` and
`fd_reuse_close`. `AloneByOwnFate`: a connection that shares its number with
no other is closed because of its own client or its own timer, so `fd_reuse_close`
has no second cause. Its invariant `FateInv` follows an error event from the
socket to the epoll batch, the loop, the queue and the worker (`ErrorsAreOwn`),
and says that a worker about to drop a connection was told so by that
connection's socket, unless the socket is gone (`DropsAreOwn`).

**Statistics.** `WindowIsSuffix` is not inductive: that a snapshot drops nothing
too early needs that no worker's clock value is ahead of the clock and that what
is recorded is in the order of its stamps (`StampsAreOrdered`); then the samples
that have expired for an older clock value are a prefix of those that have
expired now. `RateIsHonest` counts the recorded frames younger than the window
at both clock values: the window lies between the two sets.

`TypeCorrect` and `TotalsAgree` rest on `TotalsInv` and, relative to it, on
`IInv`. That the unsigned `window_estimated_bits_` never goes below zero is that
it *is* the sum of the window, so types and totals are one invariant. A frame
adds one sample's bits (`SumOf` of a sequence with one more element), a snapshot
pops a prefix (`SumOf` of a prefix and of the rest); that nothing wraps at `Size`
needs `FramesAreBounded`. The counters per identifier need `KeysHaveFrames`: a
key in the map has had a frame, so a first frame and a later one are told apart
as the code does.

**Lifecycle.** `IInv` says who owns which number at every place of the main
thread (`RuntimeOwnsSockets`, `ServerOwnsSockets`, `TableOwnsConns`), between
which places the receive thread and the workers live (`ThreadNeedsReceiver`,
`PoolInStep`), and what the number in a worker's hand may stand for by now
(`NumbersInHand`): the sender's, or a page's of any worker, or nothing. The last
gives `SentMeansOnBus`, and with the ownership of the runtime's sockets that a
close of the shutdown cannot hit a page.

**Session: timers.** `IInv` says that the map's time of a connection is that of
its last event plus the time-out and that its entry is in the heap. From it
`IdleBeforeClosed`, and `ArmedTimersAreInTheHeap`, which no run lists: the code's
reason why leaving stale entries in the heap is safe.

**Session: requests.** What `handleRead` does to `recv_buf` is said relative to
the whole stream of what the client sends. `SessionInv` has, beside the types and
that the messages are a plan's: `recv_buf` is the end of what was read, and as
many headers have ended before it as requests were handled (`BufferIsTail`); a
length in `req` has a rejected text behind it (`StoredForReason`); and, until a
message that is not plain has had its turn (`HadStray`), the cut is where a
message ends and nothing is stored (`InStep`). The two parts of the parse loop
are apart in this: `BufferIsTail` must survive a length that wraps the sum, for
which it is enough that a text that parses has its header whole (`RequestLen`
below the header's end is rejected); `InStep` needs that a plain message,
standing at the beginning of the buffer, is recognised as whole only when it is,
cut where it ends, accepted, and parsed as it was meant, which are the lemmas
about `HeaderEnd`, `ExtractContentLength`, `StoredLength` and `Render`. Where the
messages stand in the stream (`Laid`) is proved of the concatenation of any
sequence of texts. From `SessionInv`: `TypeCorrect`, `HandledOncePerHeader`,
`PlainRejectedForReason`, and the refinement `KeepsPromise`: `Arrive` maps to
`Send` of the messages that have become complete, `HandleRequest` to `Handle` of
the next one or, after a message that is not plain, to `Stray`, all else to a
stutter.

**Event stream.** `StreamInOrder` is not inductive. The proof follows `Stream`:
what the client has read, what is in its socket, and the buffer less what a write
has taken and not yet erased. Each step leaves it, appends one item, or drops a
comment that is read. That a write only moves items needs `OneWriter`: one worker
writes at a time, and what it has written is the front of the buffer until it
erases it, whatever the pump appends meanwhile. `IInv` adds that nothing is sent
before `startSse` (`AskedOnce`), that the cursor is the newest event taken up or
the start (`CursorLeads`), that events are the store's frames
(`EventsAreFrames`), and that a kept frame passed by an event, or by the cursor
of a stream that goes on, is in the stream, and one passed by a fetched frame is
fetched too (`NothingKeptIsPassed`). The cursor of a stream that has overflowed
has passed a frame it did not take; that stream ends. From `IInv`: the types and
the buffer's limit, `StreamInOrder`, `EndsForReason` (the timer's decision and the
close that follows it are two steps, between which a worker may start the
stream), and `ImplementsLog`:
`Receive` maps to `Publish`, `ReadEvents` of an event to `Advance`, all else to a
stutter. The lemmas about `append` and `queryAfter` are those of the polling
client's proof, in `FrameStoreProofs`.

**Sums and texts.** `SumOf`, the concatenation of the messages and the places
where they end are recursive functions. `NatRecursion` proves, from the
well-foundedness of strict inclusion on finite sets, that a set of numbers that
has 0 and with each number the next has them all (`Induction`), and that a
function defined by its first value and a step exists and obeys its definition
(`Recursion`): stated with sets and functions, where the library's theorems take
an operator. A proof by induction gives the set of the numbers it has shown the
claim for.

Only model-checked: liveness, which is out of the prover's reach, as is
`ENABLED`: `EveryFrameShownOrLost`, `EveryRequestRead`, `ShutDownIsNoticed`,
`OverflowCloses`, `EveryFrameDelivered`, `StopsOnSignal`, `PlainIsHandled` and
`SilenceEnds`; and `NoInputForgotten`, a statement about the states at rest whose
proof would have to account for every edge of every event on its way. Every other
invariant and action property of a passing run, and every refinement, is a
theorem. `IInv`, `OrderInv`, `TotalsInv` and `SessionInv` have
been checked by TLC on the instances of the runs as well.

## Not modelled, and what is left

Left out for good: JSON and HTTP formatting, query strings, the logger, socket
options, rendering in the clients (no state that anything else depends on); the
echo of a POST to another route; the scripts and tests, read for what they state.

Left out with an effect the reader should know:

- A restart of the server: frames are numbered from 1 again, and a client that
  keeps its cursor shows nothing until they pass it. Sequence numbers identify
  frames within one run of the server; nothing in the code says more.
- The width of `lastSequence` in `Main.qml:14`, a QML int.
- The wall clock in `Timer.cpp` (`time(nullptr)`): in `TimerHeap` it never goes
  back or jumps.
- Several connections in `HttpSession`, and numbers changing hands there:
  `Reactor` has them, with requests as tokens.
- Headers other than `Content-Length`, and that name in another spelling. With a
  tab beside it, `extractContentLength` sees the name (it trims tabs) and `parse`
  does not (it trims spaces): one more way for the two to disagree.
- What a drained task meets after `~EventLoop` has closed its descriptor: in
  `Lifecycle` it is served all the same, where `handleRead` would get `EBADF`. The
  model allows more than the code, so what it shows holds for the code.
- A request that arrives with the end of file, which is read and dropped: the end
  of a connection counts as settled, and no promise about it is stated anywhere.
- The branch of `handleEvents` for an error without input or output: with an error
  `poll` reports both, and one of them is always asked for.
- The effect of `GET` of a directory where `tellg` answers with another number: an
  empty page or 404.
- `accept` failing for want of descriptors (`AcceptFails` in `Reactor`): the
  client waits for the next one to connect, and no property says otherwise.

Worth doing next: a proof of `NoInputForgotten`; a theorem that bounds `stranded`,
as `InOrder` and `AloneByOwnFate` bound two of the other violations.
