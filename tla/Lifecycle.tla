----------------------------- MODULE Lifecycle -----------------------------
(***************************************************************************)
(* The life of the server process: main (src/src/main.cpp) starts the CAN  *)
(* runtime and the server, runs the loop until a signal, and takes         *)
(* everything down again (CanRuntime.cpp, CanSender.cpp, CanReceiver.cpp,  *)
(* Server.cpp, the constructors and destructors of EventLoop and           *)
(* ThreadPool), while the receive thread and the workers still run.        *)
(*                                                                         *)
(* The threads share the descriptor numbers of the process: `file` is the  *)
(* kernel's table of them, and every read, write and close goes by number. *)
(* A task of a worker is what processRequest does for one request: "send"  *)
(* writes a frame to the CAN socket, "page" opens a file of wwwroot.  How  *)
(* requests arrive and responses leave is the subject of Reactor.          *)
(***************************************************************************)
EXTENDS Integers, Sequences

CONSTANTS
    Workers,     \* threads of the pool
    Conns,       \* connections the clients may open
    Fds,         \* descriptor numbers
    None,        \* nothing
    MaxTasks,    \* bound: requests that arrive
    MaxFrames    \* bound: frames of other nodes on the bus

ASSUME FdsAssumption == Fds \subseteq Nat \ {0}
ASSUME DistinctAssumption ==
    /\ None \notin Workers \cup Conns \cup {"sender", "receiver", "listen", "epoll"}
    /\ Workers \cap Conns = {}
    /\ (Workers \cup Conns) \cap {"sender", "receiver", "listen", "epoll"} = {}
ASSUME WorkersAssumption == Workers # {}     \* setThreadPool(4)
ASSUME BoundsAssumption == MaxTasks \in Nat /\ MaxFrames \in Nat

VARIABLES
    file,          \* per descriptor number: what is open there
    pending,       \* frames in the socket of the receiver
    onBus,         \* frames this process has put on the bus
    main,          \* program counter of the main thread, which is the loop thread
    unwinding,     \* main has returned: the runtime is being destroyed
    stop_flag,
    sender_fd,     \* CanSender::socket_fd_, 0 for -1
    receiver_,     \* whether CanRuntime has a receiver
    receiver_fd,   \* CanReceiver::socket_fd_, 0 for -1
    running_,      \* CanReceiver::running_
    rcv,           \* program counter of the receive thread
    polled,        \* the number it has loaded
    stored,        \* frames appended to the store
    listen_fd, epoll_fd,
    conn_map,      \* per descriptor number: "listen", a connection, or None
    task_queue, submitted,
    pool_stop,     \* ThreadPool::stop_
    pc,            \* per worker
    work,          \* per worker: its task
    fd,            \* per worker: the number it has loaded or opened
    claimed        \* sends answered with "sent": true

kernelVars == <<file, pending, onBus>>
mainVars == <<main, unwinding>>
runtimeVars == <<sender_fd, receiver_, receiver_fd, running_>>
rcvVars == <<rcv, polled, stored>>
serverVars == <<listen_fd, epoll_fd, conn_map, task_queue, submitted, pool_stop>>
workerVars == <<pc, work, fd, claimed>>
vars == <<kernelVars, mainVars, stop_flag, runtimeVars, rcvVars, serverVars, workerVars>>

Tasks == {"send", "page"}
Things == {"sender", "receiver", "listen", "epoll"} \cup Conns \cup Workers

Init ==
    /\ file = [f \in Fds |-> None]
    /\ pending = 0 /\ onBus = 0
    /\ main = "openSender" /\ unwinding = FALSE /\ stop_flag = FALSE
    /\ sender_fd = 0 /\ receiver_ = FALSE /\ receiver_fd = 0 /\ running_ = FALSE
    /\ rcv = "none" /\ polled = 0 /\ stored = 0
    /\ listen_fd = 0 /\ epoll_fd = 0
    /\ conn_map = [f \in Fds |-> None]
    /\ task_queue = <<>> /\ submitted = 0 /\ pool_stop = FALSE
    /\ pc = [w \in Workers |-> "off"]
    /\ work = [w \in Workers |-> None]
    /\ fd = [w \in Workers |-> 0]
    /\ claimed = 0

-----------------------------------------------------------------------------
(* Descriptors: the smallest free number is given out; a number can be     *)
(* closed by whoever names it, and closing a free one has no effect.       *)

Free == {f \in Fds : file[f] = None}
Opens(f, thing) ==
    /\ f \in Free /\ \A g \in Free : f <= g
    /\ file' = [file EXCEPT ![f] = thing]
Closes(f) == file' = [g \in Fds |-> IF g = f THEN None ELSE file[g]]

\* Mutant of FailedOpen: a socket that cannot be bound is not closed.
FailedOpenLeaks(thing) == \E f \in Free : Opens(f, thing)

\* socket, ioctl, bind, listen or setsockopt fails: the number, if there was
\* one already, is closed again.  No other thread opens descriptors meanwhile.
FailedOpen(thing) == UNCHANGED file

-----------------------------------------------------------------------------
(* main: start-up.                                                         *)

\* CanSender::open; main returns when it fails.
OpenSender ==
    /\ main = "openSender"
    /\ \/ \E f \in Fds : /\ Opens(f, "sender")
                         /\ sender_fd' = f
          /\ main' = "openReceiver"
          /\ UNCHANGED unwinding
       \/ /\ FailedOpen("sender")
          /\ main' = "stopReceiver" /\ unwinding' = TRUE
          /\ UNCHANGED sender_fd
    /\ UNCHANGED <<pending, onBus, stop_flag, receiver_, receiver_fd, running_>>
    /\ UNCHANGED <<rcvVars, serverVars, workerVars>>

\* CanReceiver::start, openSocket; the filters are empty.  When it fails
\* CanRuntime::start drops the receiver and closes the sender.
OpenReceiver ==
    /\ main = "openReceiver"
    /\ \/ \E f \in Fds : /\ Opens(f, "receiver")
                         /\ receiver_fd' = f
          /\ receiver_' = TRUE
          /\ main' = "startThread"
          /\ UNCHANGED <<unwinding, sender_fd>>
       \/ /\ Closes(sender_fd)
          /\ sender_fd' = 0
          /\ main' = "stopReceiver" /\ unwinding' = TRUE
          /\ UNCHANGED <<receiver_, receiver_fd>>
    /\ UNCHANGED <<pending, onBus, stop_flag, running_, rcvVars, serverVars, workerVars>>

\* The receive thread is started, or cannot be: both sockets are closed.
StartThread ==
    /\ main = "startThread"
    /\ \/ /\ running_' = TRUE
          /\ rcv' = "check"
          /\ main' = "openListen"
          /\ UNCHANGED <<file, unwinding, sender_fd, receiver_, receiver_fd>>
       \/ /\ file' = [g \in Fds |-> IF g \in {sender_fd, receiver_fd} THEN None ELSE file[g]]
          /\ receiver_fd' = 0 /\ receiver_' = FALSE /\ sender_fd' = 0
          /\ main' = "stopReceiver" /\ unwinding' = TRUE
          /\ UNCHANGED <<running_, rcv>>
    /\ UNCHANGED <<pending, onBus, stop_flag, polled, stored, serverVars, workerVars>>

\* Server::init: the listening socket; on failure main stops the runtime.
OpenListen ==
    /\ main = "openListen"
    /\ \/ \E f \in Fds : /\ Opens(f, "listen")
                         /\ listen_fd' = f
          /\ main' = "openEpoll"
       \/ /\ FailedOpen("listen")
          /\ main' = "stopReceiver"
          /\ UNCHANGED listen_fd
    /\ UNCHANGED <<pending, onBus, unwinding, stop_flag, runtimeVars, rcvVars>>
    /\ UNCHANGED <<epoll_fd, conn_map, task_queue, submitted, pool_stop, workerVars>>

\* The constructor of EventLoop, and the listening socket in its table.
OpenEpoll ==
    /\ main = "openEpoll"
    /\ \E f \in Fds : Opens(f, "epoll") /\ epoll_fd' = f
    /\ conn_map' = [conn_map EXCEPT ![listen_fd] = "listen"]
    /\ main' = "startPool"
    /\ UNCHANGED <<pending, onBus, unwinding, stop_flag, runtimeVars, rcvVars>>
    /\ UNCHANGED <<listen_fd, task_queue, submitted, pool_stop, workerVars>>

\* epoll_create fails: exit(EXIT_FAILURE), without any destructor of main's.
EpollFails ==
    /\ main = "openEpoll"
    /\ main' = "killed"
    /\ UNCHANGED <<kernelVars, unwinding, stop_flag, runtimeVars, rcvVars, serverVars, workerVars>>

StartPool ==
    /\ main = "startPool"
    /\ pc' = [w \in Workers |-> "idle"]
    /\ main' = "loop"
    /\ UNCHANGED <<kernelVars, unwinding, stop_flag, runtimeVars, rcvVars, serverVars>>
    /\ UNCHANGED <<work, fd, claimed>>

\* A thread of the pool cannot be created: the constructor throws with joinable
\* threads in its vector, or past main, and either is std::terminate.
PoolFails ==
    /\ main = "startPool"
    /\ main' = "killed"
    /\ UNCHANGED <<kernelVars, unwinding, stop_flag, runtimeVars, rcvVars, serverVars, workerVars>>

-----------------------------------------------------------------------------
(* main: the event loop.                                                   *)

LoopCheck ==
    /\ main = "loop"
    /\ main' = IF stop_flag THEN "stopReceiver" ELSE "round"
    /\ UNCHANGED <<kernelVars, unwinding, stop_flag, runtimeVars, rcvVars, serverVars, workerVars>>

\* A round ends: after its events, or because epoll_wait has failed.
EndRound ==
    /\ main = "round"
    /\ main' \in {"loop", "stopReceiver"}
    /\ UNCHANGED <<kernelVars, unwinding, stop_flag, runtimeVars, rcvVars, serverVars, workerVars>>

Accept(c) ==
    /\ main = "round" /\ \A f \in Fds : conn_map[f] # c
    /\ \E f \in Fds : Opens(f, c) /\ conn_map' = [conn_map EXCEPT ![f] = c]
    /\ UNCHANGED <<pending, onBus, mainVars, stop_flag, runtimeVars, rcvVars>>
    /\ UNCHANGED <<listen_fd, epoll_fd, task_queue, submitted, pool_stop, workerVars>>

Submit(task) ==
    /\ main = "round" /\ submitted < MaxTasks
    /\ \E f \in Fds : conn_map[f] \in Conns
    /\ task_queue' = Append(task_queue, task)
    /\ submitted' = submitted + 1
    /\ UNCHANGED <<kernelVars, mainVars, stop_flag, runtimeVars, rcvVars>>
    /\ UNCHANGED <<listen_fd, epoll_fd, conn_map, pool_stop, workerVars>>

-----------------------------------------------------------------------------
(* main: CanRuntime::stop, called after the loop, after a failed init, and *)
(* by the destructor of the runtime.                                       *)

\* Mutant of StopReceiver: the thread is not told to stop.
StopReceiverSilently ==
    /\ main = "stopReceiver"
    /\ main' = IF receiver_ THEN "joinReceiver" ELSE "closeSender"
    /\ UNCHANGED <<kernelVars, unwinding, stop_flag, sender_fd, receiver_, receiver_fd, running_>>
    /\ UNCHANGED <<rcvVars, serverVars, workerVars>>

StopReceiver ==
    /\ main = "stopReceiver"
    /\ main' = IF receiver_ THEN "joinReceiver" ELSE "closeSender"
    /\ running_' = (running_ /\ ~ receiver_)
    /\ UNCHANGED <<kernelVars, unwinding, stop_flag, sender_fd, receiver_, receiver_fd>>
    /\ UNCHANGED <<rcvVars, serverVars, workerVars>>

\* Mutant of Joined: the thread is detached instead of joined.
Detached == TRUE

Joined == rcv = "ended"

JoinReceiver ==
    /\ main = "joinReceiver" /\ Joined
    /\ main' = "closeReceiver"
    /\ UNCHANGED <<kernelVars, unwinding, stop_flag, runtimeVars, rcvVars, serverVars, workerVars>>

\* Mutant of CloseReceiver: the number is not forgotten when it is closed.
CloseReceiverKeeping ==
    /\ main = "closeReceiver"
    /\ Closes(receiver_fd)
    /\ main' = "resetReceiver"
    /\ UNCHANGED <<pending, onBus, unwinding, stop_flag, runtimeVars>>
    /\ UNCHANGED <<rcvVars, serverVars, workerVars>>

CloseReceiver ==
    /\ main = "closeReceiver"
    /\ Closes(receiver_fd)
    /\ receiver_fd' = 0
    /\ main' = "resetReceiver"
    /\ UNCHANGED <<pending, onBus, unwinding, stop_flag, sender_fd, receiver_, running_>>
    /\ UNCHANGED <<rcvVars, serverVars, workerVars>>

\* receiver_.reset(): the destructor of the receiver stops it once more.
ResetReceiver ==
    /\ main = "resetReceiver"
    /\ Closes(receiver_fd)
    /\ receiver_fd' = 0 /\ receiver_' = FALSE
    /\ main' = "closeSender"
    /\ UNCHANGED <<pending, onBus, unwinding, stop_flag, sender_fd, running_>>
    /\ UNCHANGED <<rcvVars, serverVars, workerVars>>

\* CanSender::close, then what follows CanRuntime::stop.
CloseSender ==
    /\ main = "closeSender"
    /\ Closes(sender_fd)
    /\ sender_fd' = 0
    /\ main' = IF unwinding THEN "exited" ELSE "closeListen"
    /\ UNCHANGED <<pending, onBus, unwinding, stop_flag, receiver_, receiver_fd, running_>>
    /\ UNCHANGED <<rcvVars, serverVars, workerVars>>

-----------------------------------------------------------------------------
(* main: the destructors of Server, EventLoop and ThreadPool.              *)

\* ~Server: close(listen_fd); there is an EventLoop to delete unless init failed.
CloseListen ==
    /\ main = "closeListen"
    /\ Closes(listen_fd)
    /\ main' = IF epoll_fd # 0 THEN "closeEpoll" ELSE "stopReceiver"
    /\ unwinding' = (epoll_fd = 0)
    /\ UNCHANGED <<pending, onBus, stop_flag, runtimeVars, rcvVars, serverVars, workerVars>>

\* ~EventLoop.
CloseEpoll ==
    /\ main = "closeEpoll"
    /\ Closes(epoll_fd)
    /\ main' = "closeConns"
    /\ UNCHANGED <<pending, onBus, unwinding, stop_flag, runtimeVars, rcvVars, serverVars, workerVars>>

\* Under conn_mutex_, every number in the table is closed, the listening one
\* too, which ~Server has closed already.  (Its entry goes at once: nobody
\* looks before the lock is released.)
CloseConn(f) ==
    /\ main = "closeConns" /\ conn_map[f] # None
    /\ Closes(f)
    /\ conn_map' = [conn_map EXCEPT ![f] = None]
    /\ UNCHANGED <<pending, onBus, mainVars, stop_flag, runtimeVars, rcvVars>>
    /\ UNCHANGED <<listen_fd, epoll_fd, task_queue, submitted, pool_stop, workerVars>>

\* Mutant of AfterClear: the pool is declared before the table and its mutex,
\* and so destroyed after them.
AfterClearMembersFirst == "destroyLoop"

\* The members of EventLoop go in reverse order of declaration: the pool first.
AfterClear == "stopPool"

ClearConns ==
    /\ main = "closeConns" /\ \A f \in Fds : conn_map[f] = None
    /\ main' = AfterClear
    /\ UNCHANGED <<kernelVars, unwinding, stop_flag, runtimeVars, rcvVars, serverVars, workerVars>>

\* ~ThreadPool: tell the workers, then join them.
StopPool ==
    /\ main = "stopPool"
    /\ pool_stop' = TRUE
    /\ main' = "joinPool"
    /\ UNCHANGED <<kernelVars, unwinding, stop_flag, runtimeVars, rcvVars>>
    /\ UNCHANGED <<listen_fd, epoll_fd, conn_map, task_queue, submitted, workerVars>>

JoinPool ==
    /\ main = "joinPool" /\ \A w \in Workers : pc[w] = "done"
    /\ main' = "destroyLoop"
    /\ UNCHANGED <<kernelVars, unwinding, stop_flag, runtimeVars, rcvVars, serverVars, workerVars>>

\* The other members of EventLoop; then the runtime's destructor, which calls
\* stop once more.
DestroyLoop ==
    /\ main = "destroyLoop"
    /\ main' = "stopReceiver" /\ unwinding' = TRUE
    /\ UNCHANGED <<kernelVars, stop_flag, runtimeVars, rcvVars, serverVars, workerVars>>

MainStep ==
    \/ OpenSender \/ OpenReceiver \/ StartThread \/ OpenListen
    \/ OpenEpoll \/ EpollFails \/ StartPool \/ PoolFails
    \/ LoopCheck \/ EndRound
    \/ \E c \in Conns : Accept(c)
    \/ \E task \in Tasks : Submit(task)
    \/ StopReceiver \/ JoinReceiver \/ CloseReceiver \/ ResetReceiver \/ CloseSender
    \/ CloseListen \/ CloseEpoll \/ ClearConns
    \/ \E f \in Fds : CloseConn(f)
    \/ StopPool \/ JoinPool \/ DestroyLoop

-----------------------------------------------------------------------------
(* The receive thread.                                                     *)

RcvCheck ==
    /\ rcv = "check"
    /\ IF running_ /\ receiver_fd # 0
       THEN rcv' = "poll" /\ polled' = receiver_fd
       ELSE rcv' = "ended" /\ UNCHANGED polled
    /\ UNCHANGED <<kernelVars, mainVars, stop_flag, runtimeVars, stored, serverVars, workerVars>>

\* Mutant of Readable: read without a look at POLLIN.
ReadableAlways == TRUE

Readable == pending > 0

\* poll and read: nothing within 100 ms; a frame, which may be one to ignore
\* (an error or remote frame, or too short); or an error, which ends the thread.
RcvPoll ==
    /\ rcv = "poll"
    /\ \/ ~ Readable /\ rcv' = "check" /\ UNCHANGED pending
       \/ Readable /\ pending' = pending - 1 /\ rcv' \in {"check", "append"}
       \/ rcv' = "ended" /\ UNCHANGED pending
    /\ UNCHANGED <<file, onBus, mainVars, stop_flag, runtimeVars, polled, stored>>
    /\ UNCHANGED <<serverVars, workerVars>>

RcvAppend ==
    /\ rcv = "append"
    /\ stored' = stored + 1
    /\ rcv' = "check"
    /\ UNCHANGED <<kernelVars, mainVars, stop_flag, runtimeVars, polled, serverVars, workerVars>>

RcvStep == RcvCheck \/ RcvPoll \/ RcvAppend

-----------------------------------------------------------------------------
(* The workers.                                                            *)

Goto(w, label) == pc' = [pc EXCEPT ![w] = label]

\* A task is served even when the shutdown has closed its connection, where the
\* code's handleRead ends with EBADF: the model allows more than the code does.
Take(w) ==
    /\ pc[w] = "idle" /\ task_queue # <<>>
    /\ work' = [work EXCEPT ![w] = Head(task_queue)]
    /\ task_queue' = Tail(task_queue)
    /\ Goto(w, IF Head(task_queue) = "send" THEN "isOpen" ELSE "openPage")
    /\ UNCHANGED <<kernelVars, mainVars, stop_flag, runtimeVars, rcvVars>>
    /\ UNCHANGED <<listen_fd, epoll_fd, conn_map, submitted, pool_stop, fd, claimed>>

\* A worker ends when the pool stops and no task is left.
MayReturn == pool_stop /\ task_queue = <<>>

Return(w) ==
    /\ pc[w] = "idle" /\ MayReturn
    /\ Goto(w, "done")
    /\ UNCHANGED <<kernelVars, mainVars, stop_flag, runtimeVars, rcvVars, serverVars>>
    /\ UNCHANGED <<work, fd, claimed>>

\* CanRuntime::sendFrame refuses an identifier or data out of range, asks
\* isOpen, and then sendRaw loads the number.
IsOpen(w) ==
    /\ pc[w] = "isOpen"
    /\ \/ Goto(w, "respond")
       \/ sender_fd # 0 /\ Goto(w, "load")
    /\ UNCHANGED <<kernelVars, mainVars, stop_flag, runtimeVars, rcvVars, serverVars>>
    /\ UNCHANGED <<work, fd, claimed>>

Load(w) ==
    /\ pc[w] = "load"
    /\ fd' = [fd EXCEPT ![w] = sender_fd]
    /\ Goto(w, IF sender_fd # 0 THEN "write" ELSE "respond")
    /\ UNCHANGED <<kernelVars, mainVars, stop_flag, runtimeVars, rcvVars, serverVars>>
    /\ UNCHANGED <<work, claimed>>

\* Mutant of TakesWrites: pages are opened for writing too.
TakesWritesPages(thing) == thing = "sender" \/ thing \in Conns \cup Workers

\* write(2) succeeds on a socket with a peer; a page is open for reading only.
TakesWrites(thing) == thing = "sender" \/ thing \in Conns

\* The frame is written to whatever has the number by now.  A frame on the bus
\* also reaches the receiver's socket on the same interface, if there is one.
\* When the socket takes nothing more, write(2) fails.
WriteFrame(w) ==
    LET to == file[fd[w]]
    IN  /\ pc[w] = "write"
        /\ \/ /\ TakesWrites(to)
              /\ claimed' = claimed + 1
              /\ onBus' = IF to = "sender" THEN onBus + 1 ELSE onBus
              /\ pending' = IF to = "sender" /\ \E f \in Fds : file[f] = "receiver"
                            THEN pending + 1 ELSE pending
           \/ UNCHANGED <<claimed, onBus, pending>>
        /\ Goto(w, "respond")
        /\ UNCHANGED <<file, mainVars, stop_flag, runtimeVars, rcvVars, serverVars, work, fd>>

\* GET of a page: the ifstream, or 404.
OpenPage(w) ==
    /\ pc[w] = "openPage"
    /\ \/ \E f \in Fds : Opens(f, w) /\ fd' = [fd EXCEPT ![w] = f]
       \/ UNCHANGED <<file, fd>>
    /\ Goto(w, "respond")
    /\ UNCHANGED <<pending, onBus, mainVars, stop_flag, runtimeVars, rcvVars, serverVars>>
    /\ UNCHANGED <<work, claimed>>

\* updateEvent looks into the table, under conn_mutex_.
Respond(w) ==
    /\ pc[w] = "respond" /\ main # "closeConns"
    /\ Goto(w, IF work[w] = "page" /\ fd[w] # 0 THEN "closePage" ELSE "idle")
    /\ fd' = IF work[w] = "page" THEN fd ELSE [fd EXCEPT ![w] = 0]
    /\ UNCHANGED <<kernelVars, mainVars, stop_flag, runtimeVars, rcvVars, serverVars>>
    /\ UNCHANGED <<work, claimed>>

\* The ifstream closes its number at the end of its block.
ClosePage(w) ==
    /\ pc[w] = "closePage"
    /\ Closes(fd[w])
    /\ fd' = [fd EXCEPT ![w] = 0]
    /\ Goto(w, "idle")
    /\ UNCHANGED <<pending, onBus, mainVars, stop_flag, runtimeVars, rcvVars, serverVars>>
    /\ UNCHANGED <<work, claimed>>

WorkerStep(w) ==
    \/ Take(w) \/ Return(w) \/ IsOpen(w) \/ Load(w) \/ WriteFrame(w)
    \/ OpenPage(w) \/ Respond(w) \/ ClosePage(w)

-----------------------------------------------------------------------------
(* The outside: SIGINT or SIGTERM, and frames of other nodes.              *)

Signal ==
    /\ ~ stop_flag
    /\ stop_flag' = TRUE
    /\ UNCHANGED <<kernelVars, mainVars, runtimeVars, rcvVars, serverVars, workerVars>>

BusFrame ==
    /\ stored + pending < MaxFrames /\ \E f \in Fds : file[f] = "receiver"
    /\ pending' = pending + 1
    /\ UNCHANGED <<file, onBus, mainVars, stop_flag, runtimeVars, rcvVars, serverVars, workerVars>>

Alive == main \notin {"exited", "killed"}

Next ==
    /\ Alive
    /\ \/ MainStep
       \/ RcvStep
       \/ \E w \in Workers : WorkerStep(w)
       \/ Signal
       \/ BusFrame

Spec == Init /\ [][Next]_vars

\* The threads run.  Nothing is assumed of signals, clients or the bus.
FairSpec ==
    /\ Spec
    /\ WF_vars(Alive /\ MainStep)
    /\ WF_vars(Alive /\ RcvStep)
    /\ \A w \in Workers : WF_vars(Alive /\ WorkerStep(w))

-----------------------------------------------------------------------------

Starting == {"openSender", "openReceiver", "startThread", "openListen", "openEpoll", "startPool"}
Running == {"loop", "round"}
Stopping == {"stopReceiver", "joinReceiver", "closeReceiver", "resetReceiver", "closeSender"}
Destroying == {"closeListen", "closeEpoll", "closeConns", "stopPool", "joinPool", "destroyLoop"}

\* Every variable has its type; no frame is read that is not there.
TypeOK ==
    /\ file \in [Fds -> Things \cup {None}]
    /\ pending \in Nat /\ onBus \in Nat
    /\ main \in Starting \cup Running \cup Stopping \cup Destroying \cup {"exited", "killed"}
    /\ unwinding \in BOOLEAN /\ stop_flag \in BOOLEAN
    /\ sender_fd \in Fds \cup {0} /\ receiver_fd \in Fds \cup {0} /\ polled \in Fds \cup {0}
    /\ listen_fd \in Fds \cup {0} /\ epoll_fd \in Fds \cup {0}
    /\ receiver_ \in BOOLEAN /\ running_ \in BOOLEAN
    /\ rcv \in {"none", "check", "poll", "append", "ended"} /\ stored \in Nat
    /\ conn_map \in [Fds -> Conns \cup {"listen", None}]
    /\ task_queue \in Seq(Tasks) /\ submitted \in Nat /\ pool_stop \in BOOLEAN
    /\ pc \in [Workers -> {"off", "idle", "isOpen", "load", "write", "openPage", "respond",
                           "closePage", "done"}]
    /\ work \in [Workers -> Tasks \cup {None}]
    /\ fd \in [Workers -> Fds \cup {0}]
    /\ claimed \in Nat

\* The receive thread polls and reads its own socket, never a number that is
\* closed or has been given to something else: stop joins before it closes.
PollsOwnSocket == rcv = "poll" => polled # 0 /\ file[polled] = "receiver"

\* No frame reaches the store once the runtime has dropped its receiver.
StoreQuietAfterStop == [][stored' # stored => receiver_]_vars

\* A client that is told "sent" has had its frame put on the bus, although the
\* sender may be closed, and its number given to a page, between the worker's
\* load of the number and its write.
SentMeansOnBus == claimed = onBus

\* No worker runs when the table, its mutex and the runtime are destroyed, and
\* the receive thread has ended before the store goes.
NoUseAfterDestroy ==
    /\ main = "destroyLoop" \/ unwinding => \A w \in Workers : pc[w] \in {"off", "done"}
    /\ unwinding => rcv \in {"none", "ended"}

\* A descriptor a worker has opened is closed by that worker: no part of the
\* shutdown closes a number it has closed before, which a page may have by
\* then.  The listening socket is the exception: ~Server closes it, and
\* ~EventLoop, which has it in its table, closes the number again.
PagesKeepTheirNumber ==
    [][\A f \in Fds, w \in Workers :
          file[f] = w /\ file'[f] # w /\ f # listen_fd => pc[w] = "closePage" /\ fd[w] = f]_vars

\* Whatever start-up step failed, and however many tasks were queued at the
\* signal: when main returns no descriptor is open, every thread has been
\* joined, and no task is left in the queue.
ExitLeavesNothing ==
    main = "exited" =>
        /\ \A f \in Fds : file[f] = None
        /\ rcv \in {"none", "ended"}
        /\ \A w \in Workers : pc[w] \in {"off", "done"}
        /\ task_queue = <<>>

\* After a signal the process ends: main waits for the receive thread and for
\* the workers, and neither waits for main.
StopsOnSignal == stop_flag ~> ~ Alive

-----------------------------------------------------------------------------
(* The inductive invariant the proofs use.                                 *)

\* The socket of the runtime that has a number is open there and nowhere else.
RuntimeOwnsSockets ==
    /\ \A f \in Fds : /\ file[f] = "sender" <=> f = sender_fd
                      /\ file[f] = "receiver" <=> f = receiver_fd
    /\ receiver_fd # 0 => receiver_
    /\ main \in Running \cup (Starting \ {"openSender"}) => sender_fd # 0
    /\ main \in Destroying \cup {"openSender", "exited"} => sender_fd = 0
    /\ main \in Destroying \cup {"openSender", "openReceiver", "closeSender", "exited"} => ~ receiver_
    /\ main = "startThread" => receiver_fd # 0
    /\ main = "resetReceiver" => receiver_fd = 0
    /\ main = "exited" => unwinding
    /\ unwinding => ~ receiver_ /\ main \in Stopping \cup {"exited"}

\* The receive thread lives between its start and its join.
ThreadNeedsReceiver ==
    /\ rcv \notin {"none", "ended"} =>
          /\ receiver_fd # 0
          /\ main \notin {"openSender", "openReceiver", "startThread", "closeReceiver"}
    /\ rcv = "poll" => polled = receiver_fd

\* The listening socket and epoll, from their creation to their (first) close.
ServerOwnsSockets ==
    /\ \A f \in Fds :
          /\ file[f] = "listen" <=>
                /\ f = listen_fd
                /\ ~ unwinding /\ main \notin (Destroying \ {"closeListen"}) \cup {"exited"}
          /\ file[f] = "epoll" <=>
                /\ f = epoll_fd
                /\ ~ unwinding
                /\ main \notin (Destroying \ {"closeListen", "closeEpoll"}) \cup {"exited"}
    /\ main \in Starting \ {"openEpoll", "startPool"} => listen_fd = 0
    /\ main \in Starting \ {"startPool"} => epoll_fd = 0
    /\ main \in {"openEpoll", "startPool"} => listen_fd # 0
    /\ main \in {"startPool"} \cup Running \cup (Destroying \ {"closeListen"}) => epoll_fd # 0

\* A connection is open exactly where the table says.
TableOwnsConns ==
    /\ \A f \in Fds, c \in Conns : file[f] = c <=> conn_map[f] = c
    /\ \A f \in Fds : conn_map[f] = "listen" => f = listen_fd
    /\ main \in (Starting \ {"startPool"}) \cup {"stopPool", "joinPool", "destroyLoop", "exited"} =>
          \A f \in Fds : conn_map[f] = None
    /\ unwinding \/ epoll_fd = 0 => \A f \in Fds : conn_map[f] = None

\* Where the workers are in the life of the process.
PoolInStep ==
    /\ main \in Starting \/ epoll_fd = 0 => \A w \in Workers : pc[w] = "off"
    /\ main \in {"destroyLoop", "exited"} \/ unwinding =>
          /\ \A w \in Workers : pc[w] \in {"off", "done"}
          /\ task_queue = <<>>
    /\ main \in Starting \/ epoll_fd = 0 => task_queue = <<>>
    /\ \A w \in Workers : pc[w] = "done" => task_queue = <<>> /\ pool_stop
    /\ pool_stop => epoll_fd # 0 /\ (unwinding \/ main \in {"joinPool", "destroyLoop"})

\* What the number a worker has in hand stands for: its page, unless it has
\* the number of the listening socket, or what is left of the sender's number.
NumbersInHand ==
    \A w \in Workers :
        /\ pc[w] \in {"isOpen", "load", "write"} => work[w] = "send"
        /\ pc[w] \in {"openPage", "closePage"} => work[w] = "page"
        /\ pc[w] \in {"off", "idle", "done", "openPage"} => fd[w] = 0
        /\ pc[w] \in {"write", "closePage"} => fd[w] # 0
        /\ pc[w] \in {"respond", "closePage"} /\ work[w] = "page" /\ fd[w] # 0 =>
              /\ file[fd[w]] \in Workers \cup {None}
              /\ fd[w] # listen_fd => file[fd[w]] = w
        /\ pc[w] = "write" =>
              /\ file[fd[w]] \in Workers \cup {"sender", None}
              /\ main \in Running => fd[w] = sender_fd
        /\ \A f \in Fds : file[f] = w => /\ pc[w] \in {"respond", "closePage"}
                                        /\ work[w] = "page" /\ fd[w] = f

IInv ==
    /\ TypeOK /\ RuntimeOwnsSockets /\ ThreadNeedsReceiver /\ ServerOwnsSockets
    /\ TableOwnsConns /\ PoolInStep /\ NumbersInHand /\ SentMeansOnBus

=============================================================================
