------------------------------ MODULE Reactor ------------------------------
(***************************************************************************)
(* The HTTP reactor: one event-loop thread (src/src/EventLoop.cpp), the    *)
(* worker threads of the pool (ThreadPool.cpp), and the request/response   *)
(* life of a Connection (Connection.cpp).  Event streams are the subject   *)
(* of SseStream; every connection here is a plain HTTP one.                *)
(*                                                                         *)
(* A step is what the code does under one lock or in one system call.      *)
(* read_mutex_ and write_mutex_ are held exactly at the program counters   *)
(* ReadHeld and WriteHeld, conn_mutex_ for the whole of removeEvent,       *)
(* isRegistered and the checks, and for nothing longer: epoll_ctl(MOD) of  *)
(* updateEvent, read and write happen outside it, which is where a file    *)
(* descriptor can change hands.                                            *)
(*                                                                         *)
(* The kernel part (sockets, epoll in edge-triggered mode, descriptor      *)
(* numbers) is modelled from what the code relies on.  A request and a     *)
(* response are one token <<connection, number>>.                          *)
(***************************************************************************)
EXTENDS Integers, Sequences

CONSTANTS
    Conns,        \* client connections, each made at most once
    Fds,          \* descriptor numbers left for connections
    Workers,      \* threads of the pool
    None,         \* no connection
    MaxRequests,  \* bound, per connection: the requests its client sends
    BadRequests,  \* requests HttpRequest::parse rejects
    Directories,  \* requests whose path names a directory under wwwroot
    SocketRoom,   \* responses a socket holds until the client reads
    Timeouts,     \* whether the 15 s connection timers may expire
    Aborting,     \* the clients that may abort their connection
    Leaving       \* the clients that may close it with responses unread

ASSUME FdsAssumption == Fds \subseteq Nat \ {0}
ASSUME NoneAssumption == None \notin Conns
ASSUME BoundsAssumption == MaxRequests \in [Conns -> Nat] /\ SocketRoom \in Nat \ {0}

VARIABLES
    \* the kernel and the clients
    client,       \* per connection: "new", "backlog", "accepted"
    sentReqs,     \* requests the client has sent
    unread,       \* requests in the socket, not yet read by the server
    fin,          \* the client has shut down its sending side
    reset,        \* "none", "pending" (ECONNRESET to report), "reported", "broken" (EPIPE)
    wire,         \* what has been written into the socket
    clientRead,   \* how much of it the client has read
    owner,        \* per descriptor: the connection whose socket it is
    interest,     \* per descriptor: the events registered with epoll
    ready,        \* descriptors in epoll's ready list
    listenReady,  \* the listening socket is in the ready list
    alive,        \* FALSE once SIGPIPE or an exception has killed the process
    \* the event loop
    conn_map,     \* per descriptor: the registered connection
    timers,       \* per descriptor: for whom its entry in fd_expire_map_ was made
    loop,         \* program counter of the loop thread
    batch,        \* events epoll_wait returned, not handled yet
    expired,      \* descriptors tick returned, not handled yet
    found,        \* the event just looked up: [conn, revents]
    task_queue,   \* the pool's queue of [conn, revents]
    \* the connections
    fd_,          \* the descriptor of the Connection object, 0 before accept
    recv_buf,     \* requests read
    send_buf,     \* responses to write
    \* the workers
    pc,           \* program counter
    work,         \* the task: [conn, revents]
    ev,           \* events updateEvent is called with
    wrote         \* what the last write took

kernelVars == <<client, sentReqs, unread, fin, reset, wire, clientRead, owner,
                interest, ready, listenReady, alive>>
loopVars == <<conn_map, timers, loop, batch, expired, found, task_queue>>
connVars == <<fd_, recv_buf, send_buf>>
workerVars == <<pc, work, ev, wrote>>
vars == <<kernelVars, loopVars, connVars, workerVars>>

In == {"in"}
Out == {"out"}
InOut == {"in", "out"}
Listen == 0    \* stands for listen_fd
NoTask == [conn |-> None, revents |-> {}]

Init ==
    /\ client = [c \in Conns |-> "new"]
    /\ sentReqs = [c \in Conns |-> 0]
    /\ unread = [c \in Conns |-> <<>>]
    /\ fin = [c \in Conns |-> FALSE]
    /\ reset = [c \in Conns |-> "none"]
    /\ wire = [c \in Conns |-> <<>>]
    /\ clientRead = [c \in Conns |-> 0]
    /\ owner = [f \in Fds |-> None]
    /\ interest = [f \in Fds |-> {}]
    /\ ready = {}
    /\ listenReady = FALSE
    /\ alive = TRUE
    /\ conn_map = [f \in Fds |-> None]
    /\ timers = [f \in Fds |-> None]
    /\ loop = "events"
    /\ batch = {}
    /\ expired = {}
    /\ found = NoTask
    /\ task_queue = <<>>
    /\ fd_ = [c \in Conns |-> 0]
    /\ recv_buf = [c \in Conns |-> <<>>]
    /\ send_buf = [c \in Conns |-> <<>>]
    /\ pc = [w \in Workers |-> "idle"]
    /\ work = [w \in Workers |-> NoTask]
    /\ ev = [w \in Workers |-> {}]
    /\ wrote = [w \in Workers |-> 0]

-----------------------------------------------------------------------------
(* Sockets and epoll.                                                      *)

\* The descriptor still belongs to the connection's own socket.
Holds(c) == fd_[c] # 0 /\ owner[fd_[c]] = c

Room(c) == SocketRoom - (Len(wire[c]) - clientRead[c])

\* What poll reports of a socket.
Polled(c) ==
    {e \in {"in", "out", "err"} :
        \/ e = "in"  /\ (unread[c] # <<>> \/ fin[c] \/ reset[c] # "none")
        \/ e = "out" /\ (Room(c) > 0 \/ reset[c] # "none")
        \/ e = "err" /\ reset[c] \in {"pending", "broken"}}

Revents(f) == Polled(owner[f]) \cap (interest[f] \cup {"err"})

\* Something happens to c's socket that poll would report as `events`: the
\* descriptor enters the ready list if that is among what it waits for.
Wake(c, events) ==
    ready' = IF Holds(c) /\ events \cap (interest[fd_[c]] \cup {"err"}) # {}
             THEN ready \cup {fd_[c]} ELSE ready

\* epoll_ctl ADD or MOD on descriptor f with the socket of c behind it:
\* edge-triggered, but a condition that holds already counts as an edge.
Arm(f, c, events) ==
    /\ interest' = [interest EXCEPT ![f] = events]
    /\ ready' = IF Polled(c) \cap (events \cup {"err"}) # {} THEN ready \cup {f} ELSE ready

-----------------------------------------------------------------------------
(* The clients.                                                            *)

Gone(c) == client[c] = "accepted" /\ ~ Holds(c)
Talking(c) == client[c] # "new" /\ ~ Gone(c) /\ ~ fin[c] /\ reset[c] = "none"

Connect(c) ==
    /\ client[c] = "new"
    /\ client' = [client EXCEPT ![c] = "backlog"]
    /\ listenReady' = TRUE
    /\ UNCHANGED <<sentReqs, unread, fin, reset, wire, clientRead, owner, interest, ready, alive>>

Request(c) ==
    /\ Talking(c) /\ sentReqs[c] < MaxRequests[c]
    /\ sentReqs' = [sentReqs EXCEPT ![c] = @ + 1]
    /\ unread' = [unread EXCEPT ![c] = Append(@, <<c, sentReqs[c] + 1>>)]
    /\ Wake(c, In)
    /\ UNCHANGED <<client, fin, reset, wire, clientRead, owner, interest, listenReady, alive>>

\* The client reads everything written to it.
ReadResponses(c) ==
    /\ clientRead[c] < Len(wire[c]) /\ ~ Gone(c) /\ reset[c] = "none"
    /\ clientRead' = [clientRead EXCEPT ![c] = Len(wire[c])]
    /\ IF Room(c) = 0 THEN Wake(c, Out) ELSE UNCHANGED ready
    /\ UNCHANGED <<client, sentReqs, unread, fin, reset, wire, owner, interest, listenReady, alive>>

\* The client sends no more, but still reads.
ShutDown(c) ==
    /\ Talking(c)
    /\ fin' = [fin EXCEPT ![c] = TRUE]
    /\ Wake(c, In)
    /\ UNCHANGED <<client, sentReqs, unread, reset, wire, clientRead, owner, interest, listenReady, alive>>

\* The client aborts.
Abort(c) ==
    /\ c \in Aborting /\ Talking(c)
    /\ reset' = [reset EXCEPT ![c] = "pending"]
    /\ Wake(c, {"in", "out", "err"})
    /\ UNCHANGED <<client, sentReqs, unread, fin, wire, clientRead, owner, interest, listenReady, alive>>

\* The client has closed its socket: the FIN was ShutDown, and a response that
\* arrives and is not read is refused with RST.  After a FIN that is EPIPE at once.
Refuse(c) ==
    /\ c \in Leaving /\ fin[c] /\ reset[c] = "none"
    /\ clientRead[c] < Len(wire[c]) /\ ~ Gone(c)
    /\ reset' = [reset EXCEPT ![c] = "broken"]
    /\ Wake(c, {"in", "out", "err"})
    /\ UNCHANGED <<client, sentReqs, unread, fin, wire, clientRead, owner, interest, listenReady, alive>>

ClientStep(c) ==
    /\ Connect(c) \/ Request(c) \/ ReadResponses(c) \/ ShutDown(c) \/ Abort(c) \/ Refuse(c)
    /\ UNCHANGED <<loopVars, connVars, workerVars>>

-----------------------------------------------------------------------------
(* EventLoop: the connection table, under conn_mutex_.                     *)

\* Mutant of MayRemove: the expected connection is ignored.
MayRemoveAny(f, expected) == conn_map[f] # None

\* removeEvent: nothing when the descriptor is not registered, or is
\* registered for another connection than the expected one.
MayRemove(f, expected) ==
    conn_map[f] # None /\ (expected # None => conn_map[f] = expected)

\* Mutant of RemoveEvent: the descriptor is closed but its entry is kept.
RemoveEventKeepingEntry(f, expected) ==
    IF MayRemove(f, expected)
    THEN /\ timers' = [timers EXCEPT ![f] = None]
         /\ owner' = [owner EXCEPT ![f] = None]
         /\ interest' = [interest EXCEPT ![f] = {}]
         /\ ready' = ready \ {f}
         /\ UNCHANGED conn_map
    ELSE UNCHANGED <<timers, conn_map, owner, interest, ready>>

\* Mutant of RemoveEvent: removeTimer comes before the check of expected.
RemoveEventTimerFirst(f, expected) ==
    /\ timers' = [timers EXCEPT ![f] = None]
    /\ IF MayRemove(f, expected)
       THEN /\ conn_map' = [conn_map EXCEPT ![f] = None]
            /\ owner' = [owner EXCEPT ![f] = None]
            /\ interest' = [interest EXCEPT ![f] = {}]
            /\ ready' = ready \ {f}
       ELSE UNCHANGED <<conn_map, owner, interest, ready>>

\* What removeEvent does under its lock, close(fd) included.
RemoveEvent(f, expected) ==
    IF MayRemove(f, expected)
    THEN /\ timers' = [timers EXCEPT ![f] = None]
         /\ conn_map' = [conn_map EXCEPT ![f] = None]
         /\ owner' = [owner EXCEPT ![f] = None]
         /\ interest' = [interest EXCEPT ![f] = {}]
         /\ ready' = ready \ {f}
    ELSE UNCHANGED <<timers, conn_map, owner, interest, ready>>

Registered(c) == fd_[c] # 0 /\ conn_map[fd_[c]] = c

-----------------------------------------------------------------------------
(* The loop thread.                                                        *)

ListenEvent == [fd |-> Listen, revents |-> In]

\* A new round, once the last batch is handled.  epoll_wait returns every ready
\* descriptor that still polls as ready, or nothing after 100 ms; being
\* edge-triggered it empties the list.  Timer::tick follows at once: any set of
\* armed timers may have run out.  (A step of another thread in between would
\* have the effect it has after both.)
EpollWait ==
    /\ loop = "events" /\ batch = {}
    /\ batch' = {[fd |-> f, revents |-> Revents(f)] : f \in {g \in ready : Revents(g) # {}}}
                  \cup (IF listenReady THEN {ListenEvent} ELSE {})
    /\ ready' = {}
    /\ listenReady' = FALSE
    /\ expired' \in SUBSET {f \in Fds : Timeouts /\ timers[f] # None}
    /\ timers' = [f \in Fds |-> IF f \in expired' THEN None ELSE timers[f]]
    /\ loop' = IF expired' = {} THEN "events" ELSE "expire"
    /\ UNCHANGED <<client, sentReqs, unread, fin, reset, wire, clientRead, owner, interest, alive>>
    /\ UNCHANGED <<conn_map, found, task_queue, connVars, workerVars>>

\* One expired descriptor: removeEvent without an expected connection.
Expire(f) ==
    /\ loop = "expire" /\ f \in expired
    /\ RemoveEvent(f, None)
    /\ expired' = expired \ {f}
    /\ loop' = IF expired' = {} THEN "events" ELSE "expire"
    /\ UNCHANGED <<client, sentReqs, unread, fin, reset, wire, clientRead, listenReady, alive>>
    /\ UNCHANGED <<batch, found, task_queue, connVars, workerVars>>

\* handleEvents, a connection: the lookup under conn_mutex_.  (The branch for an
\* error without IN and OUT is never taken: with an error poll reports both, and
\* one of them is always asked for.)
Lookup(e) ==
    /\ loop = "events" /\ e \in batch /\ e.fd # Listen
    /\ batch' = batch \ {e}
    /\ IF conn_map[e.fd] = None
       THEN UNCHANGED <<loop, found>>
       ELSE /\ found' = [conn |-> conn_map[e.fd], revents |-> e.revents]
            /\ loop' = "submit"
    /\ UNCHANGED <<kernelVars, conn_map, timers, expired, task_queue, connVars, workerVars>>

\* updateTimer and submit, outside conn_mutex_.
Submit ==
    /\ loop = "submit"
    /\ timers' = [timers EXCEPT ![fd_[found.conn]] = found.conn]
    /\ task_queue' = Append(task_queue, found)
    /\ found' = NoTask
    /\ loop' = "events"
    /\ UNCHANGED <<kernelVars, conn_map, batch, expired, connVars, workerVars>>

\* handleEvents, the listening socket: one accept with its addEvent and
\* addTimer; or accept fails (EAGAIN, or EMFILE) and the loop over accept ends.
Waiting == {c \in Conns : client[c] = "backlog"}
FreeFds == {f \in Fds : owner[f] = None}

\* Mutant of AcceptEvents: EPOLLERR, which epoll reports unasked, is asked for.
AcceptEventsWithError == {"in", "err"}

\* The events a new connection is registered for.
AcceptEvents == In

Accept(c) ==
    /\ loop = "events" /\ ListenEvent \in batch
    /\ c \in Waiting
    /\ \E f \in FreeFds :
          /\ \A g \in FreeFds : f <= g
          /\ client' = [client EXCEPT ![c] = "accepted"]
          /\ owner' = [owner EXCEPT ![f] = c]
          /\ fd_' = [fd_ EXCEPT ![c] = f]
          /\ conn_map' = IF conn_map[f] # None THEN conn_map ELSE [conn_map EXCEPT ![f] = c]
          /\ Arm(f, c, AcceptEvents)
          /\ timers' = [timers EXCEPT ![f] = c]
    /\ UNCHANGED <<sentReqs, unread, fin, reset, wire, clientRead, listenReady, alive>>
    /\ UNCHANGED <<loop, batch, expired, found, task_queue, recv_buf, send_buf, workerVars>>

AcceptFails ==
    /\ loop = "events" /\ ListenEvent \in batch
    /\ Waiting = {} \/ FreeFds = {}
    /\ batch' = batch \ {ListenEvent}
    /\ UNCHANGED <<kernelVars, conn_map, timers, loop, expired, found, task_queue, connVars, workerVars>>

LoopStep ==
    \/ EpollWait
    \/ \E f \in Fds : Expire(f)
    \/ \E e \in batch : Lookup(e)
    \/ Submit
    \/ \E c \in Conns : Accept(c)
    \/ AcceptFails

-----------------------------------------------------------------------------
(* The workers: ThreadPool::workerLoop around EventLoop::handleIOEvent.    *)

ReadPcs == {"read", "readDrop", "parse", "readCheck", "readMod"}
WritePcs == {"write", "erase", "writeDrop", "writeCheck", "writeMod"}
Pcs == {"idle", "errorDrop", "readLock", "gate", "writeLock"} \cup ReadPcs \cup WritePcs
ReadHeld(c) == \E w \in Workers : work[w].conn = c /\ pc[w] \in ReadPcs

\* Mutant of WriteHeld: handleWrite without write_mutex_.
NeverHeld(c) == FALSE
WriteHeld(c) == \E w \in Workers : work[w].conn = c /\ pc[w] \in WritePcs

Fd(w) == fd_[work[w].conn]

Goto(w, label) ==
    /\ pc' = [pc EXCEPT ![w] = label]
    /\ work' = IF label = "idle" THEN [work EXCEPT ![w] = NoTask] ELSE work

\* The next task; handleIOEvent's dispatch on revents.
Take(w) ==
    /\ pc[w] = "idle" /\ task_queue # <<>>
    /\ task_queue' = Tail(task_queue)
    /\ LET task == Head(task_queue)
       IN  /\ work' = [work EXCEPT ![w] = task]
           /\ pc' = [pc EXCEPT ![w] = IF "err" \in task.revents THEN "errorDrop"
                                      ELSE IF "in" \in task.revents THEN "readLock"
                                      ELSE "gate"]
    /\ UNCHANGED <<kernelVars, conn_map, timers, loop, batch, expired, found, connVars, ev, wrote>>

\* handleIOEvent on EPOLLERR, handleRead on end of file or error, handleWrite
\* on error: removeEvent(fd, this).
Drop(w) ==
    /\ pc[w] \in {"errorDrop", "readDrop", "writeDrop"}
    /\ RemoveEvent(Fd(w), work[w].conn)
    /\ Goto(w, IF pc[w] = "readDrop" THEN "gate" ELSE "idle")
    /\ UNCHANGED <<client, sentReqs, unread, fin, reset, wire, clientRead, listenReady, alive>>
    /\ UNCHANGED <<loop, batch, expired, found, task_queue, connVars, ev, wrote>>

LockRead(w) ==
    /\ pc[w] = "readLock" /\ ~ ReadHeld(work[w].conn)
    /\ Goto(w, "read")
    /\ UNCHANGED <<kernelVars, loopVars, connVars, ev, wrote>>

\* Mutant of AfterRead: end of file is taken for "nothing more to read".
AfterReadNoEof(o) == IF o # None /\ reset[o] = "none" THEN "parse" ELSE "readDrop"

\* A read(2) that returned no data: EAGAIN, or end of file or an error.
AfterRead(o) == IF o # None /\ ~ fin[o] /\ reset[o] = "none" THEN "parse" ELSE "readDrop"

\* One read(2) of handleRead, on whatever socket the number stands for now.
Read(w) ==
    LET c == work[w].conn
        o == owner[Fd(w)]
    IN  /\ pc[w] = "read"
        /\ IF o # None /\ unread[o] # <<>>
           THEN /\ recv_buf' = [recv_buf EXCEPT ![c] = @ \o unread[o]]
                /\ unread' = [unread EXCEPT ![o] = <<>>]
                /\ UNCHANGED <<pc, work, reset>>
           ELSE /\ Goto(w, AfterRead(o))
                /\ reset' = IF o # None /\ reset[o] = "pending"
                            THEN [reset EXCEPT ![o] = "reported"] ELSE reset
                /\ UNCHANGED <<recv_buf, unread>>
        /\ UNCHANGED <<client, sentReqs, fin, wire, clientRead, owner, interest, ready, listenReady, alive>>
        /\ UNCHANGED <<loopVars, fd_, send_buf, ev, wrote>>

\* One round of handleRead's second loop.  A whole request is answered and
\* leaves recv_buf; one that does not parse is answered 400 and takes
\* everything else in recv_buf with it.
Answer(w) ==
    LET c == work[w].conn
        request == Head(recv_buf[c])
        bad == request \in BadRequests
    IN  /\ pc[w] = "parse"
        /\ IF recv_buf[c] = <<>>
           THEN Goto(w, "gate") /\ UNCHANGED <<recv_buf, send_buf, ev>>
           ELSE /\ send_buf' = [send_buf EXCEPT ![c] = Append(@, request)]
                /\ recv_buf' = [recv_buf EXCEPT ![c] = IF bad THEN <<>> ELSE Tail(@)]
                /\ ev' = [ev EXCEPT ![w] = IF bad THEN Out ELSE InOut]
                /\ Goto(w, "readCheck")
        /\ UNCHANGED <<kernelVars, loopVars, fd_, wrote>>

\* processRequest for a path that names a directory: it opens, and where tellg
\* answers with the largest number there is, the string for the content throws
\* out of the thread.  (Elsewhere it is an empty page or a 404, as in Answer.)
Throw(w) ==
    LET c == work[w].conn
    IN  /\ pc[w] = "parse"
        /\ recv_buf[c] # <<>> /\ Head(recv_buf[c]) \in Directories \ BadRequests
        /\ alive' = FALSE
        /\ UNCHANGED <<client, sentReqs, unread, fin, reset, wire, clientRead, owner>>
        /\ UNCHANGED <<interest, ready, listenReady, loopVars, connVars, workerVars>>

\* Where updateEvent returns to: handleRead after a 400 is over.
AfterUpdate(w) ==
    IF pc[w] \in WritePcs THEN "idle" ELSE IF ev[w] = Out THEN "gate" ELSE "parse"

\* updateEvent, the look at the table.
Check(w) ==
    /\ pc[w] \in {"readCheck", "writeCheck"}
    /\ IF Registered(work[w].conn)
       THEN Goto(w, IF pc[w] = "readCheck" THEN "readMod" ELSE "writeMod") /\ UNCHANGED ev
       ELSE Goto(w, AfterUpdate(w)) /\ ev' = [ev EXCEPT ![w] = {}]
    /\ UNCHANGED <<kernelVars, loopVars, connVars, wrote>>

\* updateEvent, the epoll_ctl after conn_mutex_ has been released.
Modify(w) ==
    /\ pc[w] \in {"readMod", "writeMod"}
    /\ IF owner[Fd(w)] = None
       THEN UNCHANGED <<interest, ready>>
       ELSE Arm(Fd(w), owner[Fd(w)], ev[w])
    /\ Goto(w, AfterUpdate(w))
    /\ ev' = [ev EXCEPT ![w] = {}]
    /\ UNCHANGED <<client, sentReqs, unread, fin, reset, wire, clientRead, owner, listenReady, alive>>
    /\ UNCHANGED <<loopVars, connVars, wrote>>

\* Mutant of MayWrite: handleWrite is skipped when there is nothing to write.
MayWriteSome(w) ==
    "out" \in work[w].revents /\ Registered(work[w].conn) /\ send_buf[work[w].conn] # <<>>

\* handleIOEvent: write only with EPOLLOUT and while still registered.
MayWrite(w) == "out" \in work[w].revents /\ Registered(work[w].conn)

Gate(w) ==
    /\ pc[w] = "gate"
    /\ Goto(w, IF MayWrite(w) THEN "writeLock" ELSE "idle")
    /\ UNCHANGED <<kernelVars, loopVars, connVars, ev, wrote>>

LockWrite(w) ==
    /\ pc[w] = "writeLock" /\ ~ WriteHeld(work[w].conn)
    /\ Goto(w, "write")
    /\ UNCHANGED <<kernelVars, loopVars, connVars, ev, wrote>>

\* Mutant of DrainedEvents: EPOLLIN is not asked for again.
DrainedEventsOut == Out

\* The events handleWrite leaves the descriptor registered for.
DrainedEvents == In

\* One round of handleWrite: the snapshot of send_buf and its write(2).
Write(w) ==
    LET c == work[w].conn
        o == owner[Fd(w)]
        n == IF Room(o) < Len(send_buf[c]) THEN Room(o) ELSE Len(send_buf[c])
    IN  /\ pc[w] = "write"
        /\ \/ /\ send_buf[c] = <<>>
              /\ ev' = [ev EXCEPT ![w] = DrainedEvents]
              /\ Goto(w, "writeCheck")
              /\ UNCHANGED <<reset, alive, wire, wrote>>
           \/ /\ send_buf[c] # <<>> /\ o = None                     \* EBADF
              /\ Goto(w, "writeDrop")
              /\ UNCHANGED <<reset, alive, wire, ev, wrote>>
           \/ /\ send_buf[c] # <<>> /\ o # None /\ reset[o] = "pending"
              /\ reset' = [reset EXCEPT ![o] = "reported"]          \* ECONNRESET
              /\ Goto(w, "writeDrop")
              /\ UNCHANGED <<alive, wire, ev, wrote>>
           \/ /\ send_buf[c] # <<>> /\ o # None /\ reset[o] \in {"reported", "broken"}
              /\ alive' = FALSE                                     \* EPIPE, SIGPIPE
              /\ UNCHANGED <<pc, work, reset, wire, ev, wrote>>
           \/ /\ send_buf[c] # <<>> /\ o # None /\ reset[o] = "none" /\ Room(o) = 0
              /\ Goto(w, "idle")                                    \* EAGAIN
              /\ UNCHANGED <<reset, alive, wire, ev, wrote>>
           \/ /\ send_buf[c] # <<>> /\ o # None /\ reset[o] = "none" /\ Room(o) > 0
              /\ wire' = [wire EXCEPT ![o] = @ \o SubSeq(send_buf[c], 1, n)]
              /\ wrote' = [wrote EXCEPT ![w] = n]
              /\ Goto(w, "erase")
              /\ UNCHANGED <<reset, alive, ev>>
        /\ UNCHANGED <<client, sentReqs, unread, fin, clientRead, owner, interest, ready, listenReady>>
        /\ UNCHANGED <<loopVars, connVars>>

\* handleWrite: what was written leaves send_buf.
Erase(w) ==
    LET c == work[w].conn
    IN  /\ pc[w] = "erase"
        /\ send_buf' = [send_buf EXCEPT ![c] = SubSeq(@, wrote[w] + 1, Len(@))]
        /\ wrote' = [wrote EXCEPT ![w] = 0]
        /\ Goto(w, "write")
        /\ UNCHANGED <<kernelVars, loopVars, fd_, recv_buf, ev>>

WorkerStep(w) ==
    \/ Take(w) \/ Drop(w) \/ LockRead(w) \/ Read(w) \/ Answer(w) \/ Throw(w)
    \/ Check(w) \/ Modify(w) \/ Gate(w) \/ LockWrite(w) \/ Write(w) \/ Erase(w)

-----------------------------------------------------------------------------

Next ==
    \/ \E c \in Conns : ClientStep(c)
    \/ alive /\ LoopStep
    \/ alive /\ \E w \in Workers : WorkerStep(w)

Spec == Init /\ [][Next]_vars

\* Threads run: the loop thread and each worker.  Clients read what they are
\* sent; nothing else is assumed of them.
FairSpec ==
    /\ Spec
    /\ WF_vars(alive /\ LoopStep)
    /\ \A w \in Workers : WF_vars(alive /\ WorkerStep(w))
    /\ \A c \in Conns : WF_vars(ReadResponses(c) /\ UNCHANGED <<loopVars, connVars, workerVars>>)

-----------------------------------------------------------------------------

Task == [conn : Conns \cup {None}, revents : SUBSET {"in", "out", "err"}]
Token == Conns \X Nat

\* Every variable has its type.
TypeOK ==
    /\ client \in [Conns -> {"new", "backlog", "accepted"}]
    /\ sentReqs \in [Conns -> Nat]
    /\ unread \in [Conns -> Seq(Token)]
    /\ fin \in [Conns -> BOOLEAN]
    /\ reset \in [Conns -> {"none", "pending", "reported", "broken"}]
    /\ wire \in [Conns -> Seq(Token)]
    /\ clientRead \in [Conns -> Nat]
    /\ owner \in [Fds -> Conns \cup {None}]
    /\ interest \in [Fds -> SUBSET {"in", "out"}]
    /\ ready \subseteq Fds
    /\ listenReady \in BOOLEAN /\ alive \in BOOLEAN
    /\ conn_map \in [Fds -> Conns \cup {None}]
    /\ timers \in [Fds -> Conns \cup {None}]
    /\ loop \in {"events", "expire", "submit"}
    /\ batch \subseteq [fd : Fds \cup {Listen}, revents : SUBSET {"in", "out", "err"}]
    /\ expired \subseteq Fds
    /\ found \in Task
    /\ task_queue \in Seq(Task)
    /\ fd_ \in [Conns -> Fds \cup {0}]
    /\ recv_buf \in [Conns -> Seq(Token)]
    /\ send_buf \in [Conns -> Seq(Token)]
    /\ pc \in [Workers -> Pcs]
    /\ work \in [Workers -> Task]
    /\ ev \in [Workers -> SUBSET {"in", "out"}]
    /\ wrote \in [Workers -> Nat]

\* The table and the kernel agree: a descriptor is registered for exactly the
\* connection whose socket it is, so accept never meets an old entry and no
\* socket is left open outside the table.
TableOwnsSockets ==
    \A f \in Fds : /\ conn_map[f] = owner[f]
                   /\ owner[f] # None => fd_[owner[f]] = f

\* Every registered connection has a time-out of its own: the timer of its
\* number was armed for it, or the loop has just seen it expire.  A closed
\* connection may have its number re-armed in vain, but neither disarms the one
\* that has the number now nor leaves it a timer of its own that runs out early.
RegisteredHasTimer ==
    \A f \in Fds : conn_map[f] # None => timers[f] = conn_map[f] \/ f \in expired

\* Strengthenings for the proofs.  A descriptor is owned only by an accepted
\* connection; whatever is queued, looked up or being served is a connection
\* that was given a descriptor; expired descriptors are handled before events.
Served == {c \in Conns : fd_[c] # 0}
OwnersAreAccepted == \A f \in Fds : owner[f] # None => client[owner[f]] = "accepted"
TasksAreServed ==
    /\ \A w \in Workers : pc[w] # "idle" => work[w].conn \in Served
    /\ \A i \in DOMAIN task_queue : task_queue[i].conn \in Served
    /\ loop = "submit" => found.conn \in Served
FoundIsCurrent == loop = "submit" => conn_map[fd_[found.conn]] \in {None, found.conn}
ExpiredFirst == expired # {} => loop = "expire"

\* The inductive invariant of the safety proofs.
IInv ==
    /\ TypeOK
    /\ TableOwnsSockets
    /\ RegisteredHasTimer
    /\ OwnersAreAccepted
    /\ TasksAreServed
    /\ FoundIsCurrent
    /\ ExpiredFirst

\* Only an accepted connection has a number; one worker at a time is in
\* handleWrite with a connection, and between the write and the erase it knows
\* how many responses of send_buf are out.
NumberedWhenAccepted == \A c \in Conns : client[c] # "accepted" => fd_[c] = 0
OneWriter ==
    \A v, w \in Workers :
        pc[v] \in WritePcs /\ pc[w] \in WritePcs /\ work[v].conn = work[w].conn => v = w
WroteBeforeErase ==
    \A w \in Workers : IF pc[w] = "erase" THEN wrote[w] \in 1 .. Len(send_buf[work[w].conn])
                       ELSE wrote[w] = 0

\* Where the requests of connection c are, oldest first: answered and written,
\* answered (what is pending at the positions P of send_buf), read, sent.
Below(s, t) == \A i \in DOMAIN s, j \in DOMAIN t : s[i][2] < t[j][2]
Ours(c, n, s) == (\A i \in DOMAIN s : s[i][1] = c /\ s[i][2] <= n)
                 /\ \A i, j \in DOMAIN s : i < j => s[i][2] < s[j][2]
Orderly(c, n, written, send, P, recv, sent) ==
    /\ Ours(c, n, written) /\ Ours(c, n, send) /\ Ours(c, n, recv) /\ Ours(c, n, sent)
    /\ \A i \in DOMAIN written, j \in P : written[i][2] < send[j][2]
    /\ Below(written, recv) /\ Below(written, sent)
    /\ Below(send, recv) /\ Below(send, sent)
    /\ Below(recv, sent)
Pending(c) ==
    {j \in DOMAIN send_buf[c] : \A w \in Workers : work[w].conn = c => j > wrote[w]}

\* No other connection was given this one's number.
OwnNumber(c) == fd_[c] # 0 => \A d \in Conns \ {c} : fd_[d] # fd_[c]

\* The inductive invariant behind ResponsesInOrder.
OrderInv ==
    /\ IInv /\ NumberedWhenAccepted /\ OneWriter /\ WroteBeforeErase
    /\ \A c \in Conns : OwnNumber(c) =>
          Orderly(c, sentReqs[c], wire[c], send_buf[c], Pending(c), recv_buf[c], unread[c])

\* Threads close only what they serve: a connection goes when the loop expires
\* its number or when a worker with a task of this very connection drops it,
\* never by a task left over from an earlier connection with the same number.
OnlyOwnTaskCloses ==
    [][\A c \in Conns : Holds(c) /\ ~ Holds(c)' =>
          \/ fd_[c] \in expired
          \/ \E w \in Workers : work[w].conn = c /\ pc[w] \in {"errorDrop", "readDrop", "writeDrop"}]_vars

\* What a client does that ends its connection.
Ended(c) == fin[c] \/ reset[c] # "none"

\* A connection goes because of its own client or its own timer.
OnlyOwnFateCloses ==
    [][\A c \in Conns : Holds(c) /\ ~ Holds(c)' => Ended(c) \/ fd_[c] \in expired]_vars

\* The same of a connection that shares its number with no other: there is no
\* second reason why OnlyOwnFateCloses fails.
AloneGoesByOwnFate ==
    [][\A c \in Conns : OwnNumber(c) /\ Holds(c) /\ ~ Holds(c)' =>
          Ended(c) \/ fd_[c] \in expired]_vars

\* The inductive invariant behind it.  An error event of c, wherever it is kept,
\* was caused by c's client; who is about to drop c was told so by c's socket.
ErrorOf(c, task) == task.conn = c /\ "err" \in task.revents
ErrorsAreOwn(c) ==
    /\ fd_[c] # 0 => \A e \in batch : e.fd = fd_[c] /\ "err" \in e.revents => Ended(c)
    /\ ErrorOf(c, found) => Ended(c)
    /\ \A i \in DOMAIN task_queue : ErrorOf(c, task_queue[i]) => Ended(c)
DropPcs == {"errorDrop", "readDrop", "writeDrop"}
DropsAreOwn(c) ==
    \A w \in Workers : work[w].conn = c /\ pc[w] \in DropPcs => Ended(c) \/ owner[fd_[c]] = None
ReadyIsOwned == \A f \in ready : owner[f] # None
BatchIsGiven == \A e \in batch : e.fd # Listen => \E c \in Conns : fd_[c] = e.fd
FateInv ==
    /\ IInv /\ NumberedWhenAccepted /\ ReadyIsOwned /\ BatchIsGiven
    /\ \A c \in Conns : OwnNumber(c) => ErrorsAreOwn(c) /\ DropsAreOwn(c)

\* However many workers serve a connection, its client is sent its own responses
\* only, none twice and in the order of its requests, as long as no other
\* connection is given the same number.  (WritesReachOwnClient says what happens
\* to those that share one.)
ResponsesInOrder ==
    \A c \in Conns : OwnNumber(c) =>
        /\ \A i \in DOMAIN wire[c] : wire[c][i][1] = c
        /\ \A i, j \in DOMAIN wire[c] : i < j => wire[c][i][2] < wire[c][j][2]

\* A response is written to the socket of the client that asked for it.
WritesReachOwnClient ==
    \A c \in Conns : \A i \in DOMAIN wire[c] : wire[c][i][1] = c

\* Nothing is forgotten in a send buffer: while no thread has anything left to
\* do, a connection with responses to write waits for its socket to take them.
AtRest ==
    /\ loop = "events" /\ batch = {} /\ ready = {} /\ ~ listenReady
    /\ task_queue = <<>> /\ \A w \in Workers : pc[w] = "idle"
NothingStranded ==
    AtRest => \A c \in Conns :
        Registered(c) /\ send_buf[c] # <<>> => "out" \in interest[fd_[c]]

\* Input is not forgotten whoever changes whose interest: updateEvent's epoll_ctl
\* follows its look at the table, so it may set the events of a connection that
\* was given the number in between.  At rest no connection that can be written
\* to still has a request, an end of file or an error to report.
NoInputForgotten ==
    alive /\ AtRest => \A c \in Conns :
        Registered(c) /\ Room(c) > 0 => Polled(c) \subseteq Out

\* A client that closes or aborts costs the server its connection, never the
\* process: handleWrite answers an error of write(2) with removeEvent.
ServerSurvives == alive

\* Edge-triggered epoll with interest switched by several threads never loses
\* a request: one that has reached the socket of a registered connection is
\* read, or the connection is closed.
EveryRequestRead ==
    \A c \in Conns : (Registered(c) /\ unread[c] # <<>>) ~> (~ Registered(c) \/ unread[c] = <<>>)

\* A client that has shut down is noticed and its descriptor released.
ShutDownIsNoticed == \A c \in Conns : (Registered(c) /\ fin[c]) ~> ~ Registered(c)

=============================================================================
