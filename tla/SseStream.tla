----------------------------- MODULE SseStream -----------------------------
(***************************************************************************)
(* One event stream (GET /api/can/stream) over the frame store: the loop   *)
(* thread pumps frames into the connection's bounded send buffer           *)
(* (EventLoop::dispatchSseEvents, Connection::pumpSse), the workers write  *)
(* them to the socket (Connection::handleWrite), the client reads or       *)
(* leaves, and the CAN receiver goes on storing.                           *)
(*                                                                         *)
(* The connection keeps its descriptor for itself here (Reactor is about   *)
(* descriptors changing hands), so looking it up and acting on it is one   *)
(* step.  Its client asks for the stream once and sends nothing else.  An  *)
(* event or a comment is one unit of the buffer and of the socket.         *)
(***************************************************************************)
EXTENDS FrameStore

CONSTANTS
    Workers,      \* threads of the pool
    Starts,       \* values of ?after= a client may ask for
    PumpLimit,    \* frames one pump fetches (100 in the code)
    MaxPending,   \* kMaxSsePendingBytes, in units
    SocketRoom,   \* units a socket holds until the client reads
    MaxFrames,    \* bound: frames received before the bus falls silent
    MaxTasks      \* bound: a heartbeat falls due only with fewer tasks queued (0: never)

ASSUME LimitsAssumption ==
    /\ Starts \subseteq Nat
    /\ {PumpLimit, MaxPending, SocketRoom} \subseteq Nat \ {0}
    /\ MaxFrames \in Nat /\ MaxTasks \in Nat

VARIABLES
    \* the client and its socket
    start,        \* the ?after= asked for
    asked,        \* the request has been sent
    unread,       \* it is in the socket, not yet read by the server
    fin,          \* the client has left
    sock,         \* what has been written and the client has not read
    received,     \* history: the frames the client has read
    interest,     \* the events registered with epoll
    ready,        \* the descriptor is in epoll's ready list
    \* the loop thread
    registered,   \* the connection is in conn_map
    loop,         \* program counter
    batch,        \* the events epoll_wait returned, not handled yet
    toSend,       \* frames fetched by pumpSse, not appended yet
    appended,     \* pumpSse's flag
    task_queue,   \* the pool's queue of revents
    \* the connection
    recv_buf,     \* the request has been read, not yet processed
    send_buf,     \* frames and comments to write
    sse_active_, sse_overflow_, sse_after_sequence_,
    beatDue,      \* 10 s have passed since sse_last_heartbeat_
    \* the workers
    pc,           \* program counter
    revents,      \* the task
    wrote         \* what the last write took

clientVars == <<start, asked, unread, fin, sock, received>>
epollVars == <<interest, ready>>
loopVars == <<registered, loop, batch, toSend, appended, task_queue>>
sseVars == <<sse_active_, sse_overflow_, sse_after_sequence_, beatDue>>
bufVars == <<recv_buf, send_buf>>
workerVars == <<pc, revents, wrote>>
vars == <<storeVars, clientVars, epollVars, loopVars, sseVars, bufVars, workerVars>>

In == {"in"}
InOut == {"in", "out"}

\* ": connected" and ": heartbeat".
Comment == [sequence |-> 0, id |-> NoFilter]

Init ==
    /\ StoreInit
    /\ start \in Starts
    /\ asked = FALSE /\ unread = FALSE /\ fin = FALSE
    /\ sock = <<>> /\ received = <<>>
    /\ interest = In /\ ready = FALSE
    /\ registered = TRUE
    /\ loop = "wait" /\ batch = {} /\ toSend = {} /\ appended = FALSE
    /\ task_queue = <<>>
    /\ recv_buf = FALSE /\ send_buf = <<>>
    /\ sse_active_ = FALSE /\ sse_overflow_ = FALSE /\ sse_after_sequence_ = 0
    /\ beatDue = FALSE
    /\ pc = [w \in Workers |-> "idle"]
    /\ revents = [w \in Workers |-> {}]
    /\ wrote = [w \in Workers |-> 0]

-----------------------------------------------------------------------------
(* The bus, the clock, the client and epoll.                               *)

Room == SocketRoom - Len(sock)
Polled == {e \in InOut : (e = "in" /\ (unread \/ fin)) \/ (e = "out" /\ Room > 0)}

\* The socket becomes ready for `event`.
Wake(event) == ready' = (ready \/ (registered /\ event \in interest))

\* updateEvent: nothing once the connection is closed.
UpdateEvent(events) ==
    IF registered
    THEN interest' = events /\ ready' = (ready \/ Polled \cap events # {})
    ELSE UNCHANGED epollVars

Receive(id) ==
    /\ next_sequence <= MaxFrames
    /\ Append1(id)
    /\ UNCHANGED <<clientVars, epollVars, loopVars, sseVars, bufVars, workerVars>>

\* Ten seconds since the last heartbeat.
Clock ==
    /\ sse_active_ /\ ~ beatDue /\ Len(task_queue) < MaxTasks
    /\ beatDue' = TRUE
    /\ UNCHANGED <<sse_active_, sse_overflow_, sse_after_sequence_>>
    /\ UNCHANGED <<storeVars, clientVars, epollVars, loopVars, bufVars, workerVars>>

Ask ==
    /\ ~ asked /\ ~ fin
    /\ asked' = TRUE /\ unread' = TRUE
    /\ Wake("in")
    /\ UNCHANGED <<start, fin, sock, received, interest>>
    /\ UNCHANGED <<storeVars, loopVars, sseVars, bufVars, workerVars>>

\* The client reads an event or a comment.
ReadEvents ==
    /\ sock # <<>> /\ ~ fin
    /\ received' = IF Head(sock) = Comment THEN received ELSE Append(received, Head(sock))
    /\ sock' = Tail(sock)
    /\ IF Room = 0 THEN Wake("out") ELSE UNCHANGED ready
    /\ UNCHANGED <<start, asked, unread, fin, interest>>
    /\ UNCHANGED <<storeVars, loopVars, sseVars, bufVars, workerVars>>

Leave ==
    /\ ~ fin
    /\ fin' = TRUE
    /\ Wake("in")
    /\ UNCHANGED <<start, asked, unread, sock, received, interest>>
    /\ UNCHANGED <<storeVars, loopVars, sseVars, bufVars, workerVars>>

-----------------------------------------------------------------------------
(* The loop thread: epoll_wait, tick, dispatchSseEvents, handleEvents.     *)

\* removeEvent for this connection; closing the descriptor ends its epoll life.
Close ==
    /\ registered' = FALSE
    /\ interest' = {}
    /\ ready' = FALSE

\* Mutant of Spared: the timer closes whatever has been silent.
SparedNever == FALSE

\* An expired timer is armed again if its connection is a stream by now.
Spared == sse_active_

\* epoll_wait with its 100 ms timeout, then tick, which may close a connection
\* that is not spared; the worker that makes it a stream may come in between.
EpollWait ==
    /\ loop = "wait"
    /\ batch' = IF ready THEN Polled \cap interest ELSE {}
    /\ ready' = FALSE
    /\ \/ loop' = "dispatch"
       \/ registered /\ ~ Spared /\ loop' = "timedOut"
    /\ UNCHANGED <<registered, toSend, appended, task_queue, interest>>
    /\ UNCHANGED <<storeVars, clientVars, sseVars, bufVars, workerVars>>

TimedOut ==
    /\ loop = "timedOut"
    /\ Close
    /\ loop' = "dispatch"
    /\ UNCHANGED <<batch, toSend, appended, task_queue>>
    /\ UNCHANGED <<storeVars, clientVars, sseVars, bufVars, workerVars>>

\* pumpSse up to its query of the store.
Pump ==
    /\ loop = "dispatch"
    /\ IF registered /\ sse_active_ /\ ~ sse_overflow_
       THEN /\ toSend' = QueryAfter(sse_after_sequence_, NoFilter, PumpLimit)
            /\ loop' = "append"
       ELSE loop' = "overflow" /\ UNCHANGED toSend
    /\ UNCHANGED <<registered, batch, appended, task_queue>>
    /\ UNCHANGED <<storeVars, clientVars, epollVars, sseVars, bufVars, workerVars>>

\* Mutant of Fits: the new frame is not counted.
FitsUncounted == Len(send_buf) <= MaxPending
Fits == Len(send_buf) + 1 <= MaxPending
AfterPump(armed) == IF armed THEN "arm" ELSE "overflow"

\* The cursor after a frame has been taken up.
Advanced(f) == IF f.sequence > sse_after_sequence_ THEN f.sequence ELSE sse_after_sequence_

\* One round of pumpSse's loop: the cursor moves first, whether the frame
\* then fits or not; one that does not fit ends the pump.
AppendFrame ==
    /\ loop = "append" /\ toSend # {}
    /\ \E f \in toSend :
          /\ \A g \in toSend : f.sequence <= g.sequence
          /\ sse_after_sequence_' = Advanced(f)
          /\ IF Fits
             THEN /\ send_buf' = Append(send_buf, f)
                  /\ appended' = TRUE
                  /\ toSend' = toSend \ {f}
                  /\ UNCHANGED <<loop, sse_overflow_>>
             ELSE /\ sse_overflow_' = TRUE
                  /\ toSend' = {}
                  /\ loop' = AfterPump(appended)
                  /\ UNCHANGED <<send_buf, appended>>
    /\ UNCHANGED <<registered, batch, task_queue, sse_active_, beatDue, recv_buf>>
    /\ UNCHANGED <<storeVars, clientVars, epollVars, workerVars>>

\* Mutant of Heartbeat: every pump, not only one that sends the comment,
\* restarts the ten seconds, so that the heartbeat is never due.
HeartbeatNever ==
    /\ loop = "append" /\ toSend = {}
    /\ loop' = AfterPump(appended)
    /\ beatDue' = FALSE
    /\ UNCHANGED <<registered, batch, toSend, appended, task_queue, send_buf>>
    /\ UNCHANGED <<sse_active_, sse_overflow_, sse_after_sequence_, recv_buf>>
    /\ UNCHANGED <<storeVars, clientVars, epollVars, workerVars>>

\* The end of pumpSse.
Heartbeat ==
    /\ loop = "append" /\ toSend = {}
    /\ send_buf' = IF beatDue /\ Fits THEN Append(send_buf, Comment) ELSE send_buf
    /\ sse_overflow_' = (sse_overflow_ \/ (beatDue /\ ~ Fits))
    /\ appended' = (appended \/ (beatDue /\ Fits))
    /\ loop' = AfterPump(appended')
    /\ beatDue' = FALSE
    /\ UNCHANGED <<registered, batch, toSend, task_queue>>
    /\ UNCHANGED <<sse_active_, sse_after_sequence_, recv_buf>>
    /\ UNCHANGED <<storeVars, clientVars, epollVars, workerVars>>

\* Something was appended: wait for the socket to take it.
ArmStream ==
    /\ loop = "arm"
    /\ UpdateEvent(InOut)
    /\ appended' = FALSE
    /\ loop' = "overflow"
    /\ UNCHANGED <<registered, batch, toSend, task_queue>>
    /\ UNCHANGED <<storeVars, clientVars, sseVars, bufVars, workerVars>>

\* Mutant of CloseOverflowed: the overflow is logged and nothing else.
CloseOverflowedLogged ==
    /\ loop = "overflow"
    /\ UNCHANGED <<registered, epollVars>>
    /\ loop' = "events"
    /\ UNCHANGED <<batch, toSend, appended, task_queue>>
    /\ UNCHANGED <<storeVars, clientVars, sseVars, bufVars, workerVars>>

\* A stream that has overflowed is closed.
CloseOverflowed ==
    /\ loop = "overflow"
    /\ IF sse_active_ /\ sse_overflow_ THEN Close ELSE UNCHANGED <<registered, epollVars>>
    /\ loop' = "events"
    /\ UNCHANGED <<batch, toSend, appended, task_queue>>
    /\ UNCHANGED <<storeVars, clientVars, sseVars, bufVars, workerVars>>

HandleEvents ==
    /\ loop = "events"
    /\ task_queue' = IF registered /\ batch # {} THEN Append(task_queue, batch) ELSE task_queue
    /\ batch' = {}
    /\ loop' = "wait"
    /\ UNCHANGED <<registered, toSend, appended>>
    /\ UNCHANGED <<storeVars, clientVars, epollVars, sseVars, bufVars, workerVars>>

LoopStep ==
    \/ EpollWait \/ TimedOut \/ Pump \/ AppendFrame \/ Heartbeat
    \/ ArmStream \/ CloseOverflowed \/ HandleEvents

-----------------------------------------------------------------------------
(* The workers: handleIOEvent, handleRead, handleWrite.                    *)

ReadHeld == \E w \in Workers : pc[w] \in {"read", "drop", "parse", "readMod"}

\* Mutant of WriteHeld: handleWrite without write_mutex_.
NeverHeld == FALSE
WriteHeld == \E w \in Workers : pc[w] \in {"write", "erase", "writeMod"}

Goto(w, label) ==
    /\ pc' = [pc EXCEPT ![w] = label]
    /\ revents' = IF label = "idle" THEN [revents EXCEPT ![w] = {}] ELSE revents

Take(w) ==
    /\ pc[w] = "idle" /\ task_queue # <<>>
    /\ task_queue' = Tail(task_queue)
    /\ revents' = [revents EXCEPT ![w] = Head(task_queue)]
    /\ pc' = [pc EXCEPT ![w] = IF "in" \in Head(task_queue) THEN "readLock" ELSE "gate"]
    /\ UNCHANGED <<registered, loop, batch, toSend, appended, wrote>>
    /\ UNCHANGED <<storeVars, clientVars, epollVars, sseVars, bufVars>>

\* The two mutexes, and handleIOEvent's way to handleWrite.
Move(w) ==
    /\ \/ pc[w] = "readLock" /\ ~ ReadHeld /\ Goto(w, "read")
       \/ pc[w] = "gate" /\ Goto(w, IF "out" \in revents[w] /\ registered THEN "writeLock" ELSE "idle")
       \/ pc[w] = "writeLock" /\ ~ WriteHeld /\ Goto(w, "write")
    /\ UNCHANGED <<storeVars, clientVars, epollVars, loopVars, sseVars, bufVars, wrote>>

\* One read(2): the request, nothing more for now, or the end (also when
\* the descriptor is closed already).
Read(w) ==
    /\ pc[w] = "read"
    /\ IF registered /\ unread
       THEN unread' = FALSE /\ recv_buf' = TRUE /\ UNCHANGED <<pc, revents>>
       ELSE /\ Goto(w, IF registered /\ ~ fin THEN "parse" ELSE "drop")
            /\ UNCHANGED <<unread, recv_buf>>
    /\ UNCHANGED <<start, asked, fin, sock, received, send_buf, wrote>>
    /\ UNCHANGED <<storeVars, epollVars, loopVars, sseVars>>

\* handleRead at the end of file: removeEvent, whatever was read before.
Drop(w) ==
    /\ pc[w] = "drop"
    /\ Close
    /\ Goto(w, "gate")
    /\ UNCHANGED <<loop, batch, toSend, appended, task_queue, wrote>>
    /\ UNCHANGED <<storeVars, clientVars, sseVars, bufVars>>

\* processRequest with startSse.
Parse(w) ==
    /\ pc[w] = "parse"
    /\ IF recv_buf
       THEN /\ recv_buf' = FALSE
            /\ send_buf' = Append(send_buf, Comment)
            /\ sse_active_' = TRUE
            /\ sse_after_sequence_' = start
            /\ beatDue' = FALSE
            /\ Goto(w, "readMod")
       ELSE Goto(w, "gate") /\ UNCHANGED <<recv_buf, send_buf, sse_active_, sse_after_sequence_, beatDue>>
    /\ UNCHANGED <<sse_overflow_, wrote, storeVars, clientVars, epollVars, loopVars>>

\* The updateEvent of processRequest, and the one at the end of handleWrite.
Modify(w) ==
    /\ \/ pc[w] = "readMod" /\ UpdateEvent(InOut) /\ Goto(w, "parse")
       \/ pc[w] = "writeMod" /\ UpdateEvent(In) /\ Goto(w, "idle")
    /\ UNCHANGED <<storeVars, clientVars, loopVars, sseVars, bufVars, wrote>>

\* One round of handleWrite: the snapshot of send_buf and its write(2).
Write(w) ==
    LET n == IF Room < Len(send_buf) THEN Room ELSE Len(send_buf)
    IN  /\ pc[w] = "write"
        /\ \/ /\ send_buf = <<>>
              /\ Goto(w, "writeMod")
              /\ UNCHANGED <<sock, wrote, registered, epollVars>>
           \/ /\ send_buf # <<>> /\ ~ registered                  \* EBADF
              /\ Goto(w, "idle")
              /\ UNCHANGED <<sock, wrote, registered, epollVars>>
           \/ /\ send_buf # <<>> /\ registered /\ Room = 0        \* EAGAIN
              /\ Goto(w, "idle")
              /\ UNCHANGED <<sock, wrote, registered, epollVars>>
           \/ /\ send_buf # <<>> /\ registered /\ Room > 0
              /\ sock' = sock \o SubSeq(send_buf, 1, n)
              /\ wrote' = [wrote EXCEPT ![w] = n]
              /\ Goto(w, "erase")
              /\ UNCHANGED <<registered, epollVars>>
        /\ UNCHANGED <<start, asked, unread, fin, received>>
        /\ UNCHANGED <<loop, batch, toSend, appended, task_queue, storeVars, sseVars, bufVars>>

\* Mutant of Erased: the buffer is cleared, not only what was written.
ErasedAll(w) == <<>>
Erased(w) == SubSeq(send_buf, wrote[w] + 1, Len(send_buf))

Erase(w) ==
    /\ pc[w] = "erase"
    /\ send_buf' = Erased(w)
    /\ wrote' = [wrote EXCEPT ![w] = 0]
    /\ Goto(w, "write")
    /\ UNCHANGED <<recv_buf, storeVars, clientVars, epollVars, loopVars, sseVars>>

WorkerStep(w) ==
    Take(w) \/ Move(w) \/ Read(w) \/ Drop(w) \/ Parse(w) \/ Modify(w) \/ Write(w) \/ Erase(w)

-----------------------------------------------------------------------------

Next ==
    \/ \E id \in Ids : Receive(id)
    \/ Clock \/ Ask \/ ReadEvents \/ Leave
    \/ LoopStep
    \/ \E w \in Workers : WorkerStep(w)

Spec == Init /\ [][Next]_vars

\* Threads run, time passes, and a client that has not left reads.
FairSpec ==
    /\ Spec
    /\ WF_vars(LoopStep)
    /\ \A w \in Workers : WF_vars(WorkerStep(w))
    /\ WF_vars(Clock) /\ WF_vars(ReadEvents)

-----------------------------------------------------------------------------

Item == Frame \cup {Comment}
Labels == {"idle", "readLock", "read", "drop", "parse", "readMod", "gate",
           "writeLock", "write", "erase", "writeMod"}

\* Every variable has its type, and the send buffer its bound.
TypeOK ==
    /\ next_sequence \in Nat \ {0} /\ total_appended \in Nat /\ overwritten \in Nat
    /\ frames \in Seq(Frame)
    /\ start \in Starts /\ asked \in BOOLEAN /\ unread \in BOOLEAN /\ fin \in BOOLEAN
    /\ sock \in Seq(Item) /\ Len(sock) <= SocketRoom
    /\ received \in Seq(Frame)
    /\ interest \subseteq InOut /\ ready \in BOOLEAN
    /\ registered \in BOOLEAN
    /\ loop \in {"wait", "timedOut", "dispatch", "append", "arm", "overflow", "events"}
    /\ batch \subseteq InOut
    /\ toSend \subseteq Frame /\ appended \in BOOLEAN
    /\ task_queue \in Seq(SUBSET InOut)
    /\ recv_buf \in BOOLEAN
    /\ send_buf \in Seq(Item) /\ Len(send_buf) <= MaxPending
    /\ sse_active_ \in BOOLEAN /\ sse_overflow_ \in BOOLEAN /\ beatDue \in BOOLEAN
    /\ sse_after_sequence_ \in Nat
    /\ pc \in [Workers -> Labels]
    /\ revents \in [Workers -> SUBSET InOut]
    /\ wrote \in [Workers -> Nat]

\* All that the stream has taken up, in the order the client gets it: read,
\* in the socket, and in the buffer less what a write has just taken from it.
Taken == IF \E w \in Workers : pc[w] = "erase"
         THEN wrote[CHOOSE w \in Workers : pc[w] = "erase"] ELSE 0
Stream == received \o (sock \o SubSeq(send_buf, Taken + 1, Len(send_buf)))
Events == {i \in DOMAIN Stream : Stream[i] # Comment}

\* The stream carries each frame once and in order, all newer than what the
\* client asked from, while the pump appends to the buffer that workers drain.
StreamInOrder ==
    /\ \A i \in Events : Stream[i].sequence > start
    /\ \A i, j \in Events : i < j => Stream[i].sequence < Stream[j].sequence

-----------------------------------------------------------------------------
(* The inductive invariant of the proofs.                                  *)

\* The client asks once, and nothing is sent before startSse.
AskedOnce ==
    /\ ~ asked => ~ unread /\ ~ recv_buf /\ ~ sse_active_
    /\ unread => ~ recv_buf /\ ~ sse_active_
    /\ recv_buf => ~ sse_active_
    /\ ~ sse_active_ => send_buf = <<>> /\ sock = <<>> /\ received = <<>>
    /\ loop = "append" => sse_active_ /\ ~ sse_overflow_
    /\ loop # "append" => toSend = {}

\* One worker writes at a time, and what it has written is at the front of the
\* buffer until it is erased; removeEvent follows the end of the connection.
OneWriter ==
    /\ \A v, w \in Workers :
          {pc[v], pc[w]} \subseteq {"write", "erase", "writeMod"} => v = w
    /\ \A w \in Workers : pc[w] = "erase" => wrote[w] \in 1 .. Len(send_buf)
    /\ \A w \in Workers : pc[w] = "drop" => fin \/ ~ registered

\* The cursor is the newest event taken up, or where the stream began.
CursorLeads ==
    /\ \A i \in Events : /\ Stream[i].sequence <= sse_after_sequence_
                          /\ Stream[i].sequence < next_sequence
    /\ \A f \in toSend : sse_after_sequence_ < f.sequence /\ f.sequence < next_sequence
    /\ sse_active_ => /\ start <= sse_after_sequence_
                      /\ sse_after_sequence_ = start \/ sse_after_sequence_ < next_sequence

\* An event is the frame the store has, or had, under its number.
EventsAreFrames ==
    /\ \A i \in Events, j \in DOMAIN frames :
          Stream[i].sequence = frames[j].sequence => Stream[i] = frames[j]
    /\ \A f \in toSend, j \in DOMAIN frames : f.sequence = frames[j].sequence => f = frames[j]
    /\ \A f, g \in toSend : f.sequence = g.sequence => f = g

Carried(f) == \E i \in Events : Stream[i] = f

\* A frame that is still stored, newer than `start` and passed by an event, or
\* by the cursor of a stream that goes on, is in the stream; one passed by a
\* frame fetched is fetched too.
NothingKeptIsPassed ==
    \A j \in DOMAIN frames :
        /\ \A i \in Events :
              start < frames[j].sequence /\ frames[j].sequence <= Stream[i].sequence
                  => Carried(frames[j])
        /\ /\ sse_active_ /\ ~ sse_overflow_
           /\ start < frames[j].sequence /\ frames[j].sequence <= sse_after_sequence_
           => Carried(frames[j])
        /\ \A f \in toSend :
              sse_after_sequence_ < frames[j].sequence /\ frames[j].sequence <= f.sequence
                  => frames[j] \in toSend

IInv ==
    /\ TypeOK /\ StoreIsWindow /\ AskedOnce /\ OneWriter
    /\ StreamInOrder /\ CursorLeads /\ EventsAreFrames /\ NothingKeptIsPassed

-----------------------------------------------------------------------------

\* A stream is broken off only when its client has left or is too slow, however
\* silent it is: the timer takes its decision to close against a connection that
\* is no stream, and closes nothing without one.  (A worker may start the stream
\* between the decision and the close.)
EndsForReason ==
    [][/\ registered /\ ~ registered' => fin \/ sse_overflow_ \/ loop = "timedOut"
       /\ loop # "timedOut" /\ loop' = "timedOut" => ~ sse_active_]_vars

\* A slow client is cut off: its buffer does not stay full for ever.
OverflowCloses == sse_overflow_ ~> ~ registered

\* Every frame stored while the stream is open is in the end received, unless
\* it was overwritten before the pump came round or the stream has ended.  The
\* heartbeat is needed: handleWrite's last updateEvent can undo the pump's.
EveryFrameDelivered ==
    \A n \in 1 .. MaxFrames :
        (sse_active_ /\ n > start /\ n > overwritten /\ n < next_sequence)
            ~> (~ registered \/ n <= overwritten \/ \E i \in DOMAIN received : received[i].sequence = n)

-----------------------------------------------------------------------------

\* A stream is a reader of the sliding log, as the polling client is.
Log == INSTANCE FrameLog WITH
          last     <- next_sequence - 1,
          window   <- [n \in {frames[i].sequence : i \in DOMAIN frames}
                          |-> frames[n - overwritten].id],
          filter   <- NoFilter,
          from     <- start,
          position <- IF received = <<>> THEN 0 ELSE received[Len(received)].sequence,
          seen     <- {received[i] : i \in DOMAIN received}

LogSpec == Log!Spec

=============================================================================
