---------------------------- MODULE HttpSession ----------------------------
(***************************************************************************)
(* Requests on connections over time: the bytes a client sends arrive in   *)
(* any portions, the loop arms the connection's timer at each event and    *)
(* queues a task, workers read what is there, cut requests out of recv_buf *)
(* and parse them, and a connection on which nothing happens is closed     *)
(* (handleRead in src/src/Connection.cpp, loop and handleEvents in         *)
(* src/src/EventLoop.cpp).                                                 *)
(*                                                                         *)
(* A connection keeps its descriptor here and stands for it; how numbers   *)
(* change hands, and how responses are written, is Reactor's subject.  So  *)
(* an event is "there is something to read", and an event for output only  *)
(* counts as one that finds nothing.                                       *)
(***************************************************************************)
EXTENDS HttpFraming, TimerHeap

CONSTANTS
    Workers,     \* threads of the pool
    Conns,       \* connections, and their descriptors
    None,        \* no connection
    Plans,       \* what the clients may want to send: [Conns -> Seq(message)]
    MaxPortions, \* bound: portions in which a client's bytes arrive
    Horizon      \* bound: clients are active up to this time

ASSUME ConnsAssumption == TimerFds = Conns /\ None \notin Conns
ASSUME PlansAssumption == Plans \subseteq [Conns -> Seq(Message)]
ASSUME BoundsAssumption == MaxPortions \in Nat /\ Horizon \in Nat

VARIABLES
    messages,    \* per client: the messages it sends
    arrived,     \* per client: how many of its tokens have reached the socket
    portions,    \* per client: in how many portions
    fin,         \* per client: it sends no more
    ready,       \* epoll's ready list
    taken,       \* per connection: how many tokens have been read from the socket
    status,      \* per connection: "new", "open" (in conn_map) or "closed"
    loop, batch, expired, found,
    task_queue,
    pc, work,    \* per worker
    recv_buf,    \* per connection
    stored,      \* per connection: the Content-Length in req's headers
    handled,     \* history: what processRequest was called with
    lengthKept,  \* history: a rejected text has left a Content-Length behind
    lastEvent    \* history: when the timer was last armed, while open

clientVars == <<messages, arrived, portions, fin>>
loopVars == <<loop, batch, expired, found, task_queue>>
workerVars == <<pc, work>>
connVars == <<taken, recv_buf, stored, handled, lengthKept>>
vars == <<clientVars, ready, status, lastEvent, loopVars, workerVars, connVars, timerVars>>

Transcripts == UNION {{plan[c] : c \in Conns} : plan \in Plans}
WireLength == [ms \in Transcripts |-> [n \in 0 .. Len(ms) |->
    Len(FlattenSeq([i \in 1 .. n |-> Render(ms[i])]))]]
Wire == [ms \in Transcripts |-> FlattenSeq([i \in DOMAIN ms |-> Render(ms[i])])]
Stream(c) == Wire[messages[c]]
Unread(c) == arrived[c] > taken[c]

Init ==
    /\ messages \in Plans
    /\ arrived = [c \in Conns |-> 0] /\ portions = [c \in Conns |-> 0]
    /\ fin = [c \in Conns |-> FALSE]
    /\ ready = {}
    /\ taken = [c \in Conns |-> 0]
    /\ status = [c \in Conns |-> "new"]
    /\ loop = "events" /\ batch = {} /\ expired = {} /\ found = None
    /\ task_queue = <<>>
    /\ pc = [w \in Workers |-> "idle"] /\ work = [w \in Workers |-> None]
    /\ recv_buf = [c \in Conns |-> <<>>]
    /\ stored = [c \in Conns |-> NoLength]
    /\ handled = [c \in Conns |-> <<>>]
    /\ lengthKept = [c \in Conns |-> FALSE]
    /\ lastEvent = [c \in Conns |-> 0]
    /\ TimerInit

-----------------------------------------------------------------------------
(* The clients, the network and the clock.                                 *)

Active(c) == status[c] = "open" /\ ~ fin[c] /\ clock <= Horizon

\* Some more of what the client sends arrives.
Arrive(c) ==
    /\ Active(c) /\ portions[c] < MaxPortions
    /\ \E n \in arrived[c] + 1 .. Len(Stream(c)) : arrived' = [arrived EXCEPT ![c] = n]
    /\ portions' = [portions EXCEPT ![c] = @ + 1]
    /\ ready' = ready \cup {c}
    /\ UNCHANGED <<messages, fin, status, lastEvent, loopVars, workerVars, connVars, timerVars>>

Finish(c) ==
    /\ Active(c)
    /\ fin' = [fin EXCEPT ![c] = TRUE]
    /\ ready' = ready \cup {c}
    /\ UNCHANGED <<messages, arrived, portions, status, lastEvent>>
    /\ UNCHANGED <<loopVars, workerVars, connVars, timerVars>>

\* A second passes.  The clock is of interest only until the last timer is due.
Second ==
    /\ \E e \in heap_ : clock < e.expire_time
    /\ clock' = clock + 1
    /\ UNCHANGED <<heap_, fd_expire_map_>>
    /\ UNCHANGED <<clientVars, ready, status, lastEvent, loopVars, workerVars, connVars>>

-----------------------------------------------------------------------------
(* The loop thread.                                                        *)

\* removeEvent: the table, the timer and the socket, under conn_mutex_.
RemoveEvent(c) ==
    IF status[c] = "open"
    THEN /\ status' = [status EXCEPT ![c] = "closed"]
         /\ RemoveTimer(c)
         /\ ready' = ready \ {c}
    ELSE UNCHANGED <<status, heap_, fd_expire_map_, ready>>

\* A new round: epoll_wait empties the ready list, and tick follows.
EpollWait ==
    /\ loop = "events" /\ expired = {} /\ batch = {}
    /\ batch' = ready
    /\ ready' = {}
    /\ expired' = Expiring
    /\ TickTimers
    /\ UNCHANGED <<loop, found, task_queue, clock>>
    /\ UNCHANGED <<clientVars, status, lastEvent, workerVars, connVars>>

Expire(c) ==
    /\ loop = "events" /\ c \in expired
    /\ RemoveEvent(c)
    /\ expired' = expired \ {c}
    /\ UNCHANGED <<loop, batch, found, task_queue, clock>>
    /\ UNCHANGED <<clientVars, lastEvent, workerVars, connVars>>

\* handleNewConnection.
Accept(c) ==
    /\ loop = "events" /\ expired = {} /\ status[c] = "new"
    /\ status' = [status EXCEPT ![c] = "open"]
    /\ AddTimer(c)
    /\ lastEvent' = [lastEvent EXCEPT ![c] = clock]
    /\ UNCHANGED <<clientVars, ready, loopVars, workerVars, connVars, clock>>

\* handleEvents: the lookup, under conn_mutex_.
Lookup(c) ==
    /\ loop = "events" /\ expired = {} /\ c \in batch
    /\ batch' = batch \ {c}
    /\ IF status[c] = "open"
       THEN found' = c /\ loop' = "update"
       ELSE UNCHANGED <<found, loop>>
    /\ UNCHANGED <<expired, task_queue>>
    /\ UNCHANGED <<clientVars, ready, status, lastEvent, workerVars, connVars, timerVars>>

\* updateTimer and submit; the connection may be closed by now.
UpdateTimer ==
    /\ loop = "update"
    /\ AddTimer(found)
    /\ task_queue' = Append(task_queue, found)
    /\ lastEvent' = [lastEvent EXCEPT ![found] = clock]
    /\ found' = None
    /\ loop' = "events"
    /\ UNCHANGED <<batch, expired, clock, clientVars, ready, status, workerVars, connVars>>

LoopStep ==
    \/ EpollWait \/ UpdateTimer
    \/ \E c \in Conns : Expire(c) \/ Accept(c) \/ Lookup(c)

-----------------------------------------------------------------------------
(* The workers: handleRead, under read_mutex_.                             *)

ReadHeld(c) == \E w \in Workers : work[w] = c /\ pc[w] \in {"read", "parse"}

Goto(w, label, c) ==
    /\ pc' = [pc EXCEPT ![w] = label]
    /\ work' = [work EXCEPT ![w] = c]

Take(w) ==
    /\ pc[w] = "idle" /\ task_queue # <<>>
    /\ task_queue' = Tail(task_queue)
    /\ Goto(w, "lock", Head(task_queue))
    /\ UNCHANGED <<loop, batch, expired, found>>
    /\ UNCHANGED <<clientVars, ready, status, lastEvent, connVars, timerVars>>

Lock(w) ==
    /\ pc[w] = "lock" /\ ~ ReadHeld(work[w])
    /\ Goto(w, "read", work[w])
    /\ UNCHANGED <<clientVars, ready, status, lastEvent, loopVars, connVars, timerVars>>

\* read(2) once: some bytes; nothing for now; or the end of the connection,
\* after which nothing of recv_buf is looked at.
Read(w) ==
    LET c == work[w]
    IN  /\ pc[w] = "read"
        /\ IF status[c] = "open" /\ Unread(c)
           THEN /\ recv_buf' = [recv_buf EXCEPT ![c] =
                                   @ \o SubSeq(Stream(c), taken[c] + 1, arrived[c])]
                /\ taken' = [taken EXCEPT ![c] = arrived[c]]
                /\ UNCHANGED <<workerVars, status, heap_, fd_expire_map_, ready>>
           ELSE /\ IF status[c] = "open" /\ ~ fin[c]
                   THEN /\ Goto(w, "parse", c)
                        /\ UNCHANGED <<status, heap_, fd_expire_map_, ready>>
                   ELSE /\ Goto(w, "idle", None)
                        /\ RemoveEvent(c)
                /\ UNCHANGED <<recv_buf, taken>>
        /\ UNCHANGED <<clientVars, lastEvent, loopVars, stored, handled, lengthKept, clock>>

WholeRequest(c) ==
    HasHeader(recv_buf[c]) /\ Len(recv_buf[c]) >= RequestLen(recv_buf[c])

\* request_text, if recv_buf holds a whole one.
RequestTexts(c) ==
    IF WholeRequest(c) THEN {SubSeq(recv_buf[c], 1, RequestLen(recv_buf[c]))} ELSE {}

\* Mutant of AfterHandling: req is not replaced after a request that was handled.
AfterHandlingKept(text, old) == StoredLength(text, old)
AfterHandling(text, old) == NoLength

\* Mutant of UpdateEvent: the table is not looked at.
UpdateEventUnchecked(c) == ready \cup {c}

\* updateEvent, after a response went into send_buf.
UpdateEvent(c) == IF status[c] = "open" THEN ready \cup {c} ELSE ready

\* Mutant of Rest: the request is not erased.
RestUnerased(buffer, text) == buffer
Rest(buffer, text) == SubSeq(buffer, Len(text) + 1, Len(buffer))

\* processRequest.
HandleRequest(w) ==
    LET c == work[w]
    IN  /\ pc[w] = "parse"
        /\ \E text \in RequestTexts(c) :
              /\ Accepted(text, stored[c])
              /\ handled' = [handled EXCEPT ![c] = Append(@, Parsed(text, stored[c]))]
              /\ recv_buf' = [recv_buf EXCEPT ![c] = Rest(@, text)]
              /\ stored' = [stored EXCEPT ![c] = AfterHandling(text, @)]
        /\ ready' = UpdateEvent(c)
        /\ UNCHANGED <<taken, lengthKept>>
        /\ UNCHANGED <<clientVars, status, lastEvent, loopVars, workerVars, timerVars>>

\* A text parse does not accept.
BadTexts(c) == {text \in RequestTexts(c) : ~ Accepted(text, stored[c])}

\* 400: the buffer is cleared, and req keeps the headers parse has stored.
Reject(w) ==
    LET c == work[w]
    IN  /\ pc[w] = "parse"
        /\ \E text \in BadTexts(c) :
              /\ stored' = [stored EXCEPT ![c] = StoredLength(text, @)]
              /\ lengthKept' = [lengthKept EXCEPT ![c] =
                                   @ \/ StoredLength(text, NoLength) # NoLength]
        /\ recv_buf' = [recv_buf EXCEPT ![c] = <<>>]
        /\ ready' = UpdateEvent(c)
        /\ Goto(w, "idle", None)
        /\ UNCHANGED <<taken, handled>>
        /\ UNCHANGED <<clientVars, status, lastEvent, loopVars, timerVars>>

Incomplete(c) == ~ WholeRequest(c)

StopParsing(w) ==
    /\ pc[w] = "parse" /\ Incomplete(work[w])
    /\ Goto(w, "idle", None)
    /\ UNCHANGED <<clientVars, ready, status, lastEvent, loopVars, connVars, timerVars>>

WorkerStep(w) ==
    Take(w) \/ Lock(w) \/ Read(w) \/ HandleRequest(w) \/ Reject(w) \/ StopParsing(w)

-----------------------------------------------------------------------------

Next ==
    \/ \E c \in Conns : Arrive(c) \/ Finish(c)
    \/ Second
    \/ LoopStep
    \/ \E w \in Workers : WorkerStep(w)

Spec == Init /\ [][Next]_vars

\* The threads run.  Nothing is assumed of clients, the network and the clock.
FairSpec ==
    /\ Spec
    /\ WF_vars(LoopStep)
    /\ \A w \in Workers : WF_vars(WorkerStep(w))

-----------------------------------------------------------------------------

\* Every variable has its type.
TypeOK ==
    /\ \A c \in Conns : arrived[c] \in 0 .. Len(Stream(c)) /\ taken[c] \in 0 .. arrived[c]
    /\ fin \in [Conns -> BOOLEAN] /\ portions \in [Conns -> 0 .. MaxPortions]
    /\ ready \subseteq {c \in Conns : status[c] = "open"}
    /\ status \in [Conns -> {"new", "open", "closed"}]
    /\ loop \in {"events", "update"} /\ batch \subseteq Conns /\ expired \subseteq Conns
    /\ found \in Conns \cup {None} /\ (found # None <=> loop = "update")
    /\ task_queue \in Seq(Conns)
    /\ pc \in [Workers -> {"idle", "lock", "read", "parse"}]
    /\ work \in [Workers -> Conns \cup {None}]
    /\ \A w \in Workers : pc[w] = "idle" <=> work[w] = None
    /\ recv_buf \in [Conns -> Seq(Tokens)]
    /\ stored \in [Conns -> Lengths \cup {NoLength}]
    /\ handled \in [Conns -> Seq([known : BOOLEAN, body : Nat])]
    /\ lengthKept \in [Conns -> BOOLEAN]
    /\ clock \in Nat /\ lastEvent \in [Conns -> 0 .. clock]
    /\ heap_ \subseteq [fd : Conns, expire_time : Nat]
    /\ fd_expire_map_ \in [Conns -> Nat]

-----------------------------------------------------------------------------

\* Where headers end among the first n tokens of what the client sends.
EndsUpTo(c, n) == {i \in 1 .. n : Stream(c)[i].kind = "end"}

\* Whatever a length says, also one that wraps the sum: a header is worth one
\* request at most, and no worker goes round its parse loop for nothing.
OncePerHeader == \A c \in Conns : Len(handled[c]) <= Cardinality(EndsUpTo(c, taken[c]))

-----------------------------------------------------------------------------
(* The invariants behind the other properties.                             *)

\* Where the client's messages come from; and what the counters are.
FromPlans ==
    messages \in Plans /\ arrived \in [Conns -> Nat] /\ taken \in [Conns -> Nat]

\* What has been cut off or thrown away; recv_buf is what was read after it,
\* and what was handled had its headers in it.
Cut(c) == taken[c] - Len(recv_buf[c])
BufferIsTail ==
    \A c \in Conns :
        /\ Len(recv_buf[c]) <= taken[c]
        /\ recv_buf[c] = SubSeq(Stream(c), Cut(c) + 1, taken[c])
        /\ Len(handled[c]) <= Cardinality(EndsUpTo(c, Cut(c)))

\* Only a rejected text leaves a length behind.
StoredForReason == \A c \in Conns : stored[c] # NoLength => lengthKept[c]

\* The connection is at a boundary between messages, with nothing left over from
\* the last one; or a message that is not plain has had its turn.
HadStray(c) ==
    \E i \in 1 .. Len(messages[c]) : i <= Len(handled[c]) + 1 /\ ~ Plain(messages[c][i])
InStep ==
    \A c \in Conns :
        \/ HadStray(c)
        \/ /\ Len(handled[c]) <= Len(messages[c])
           /\ Cut(c) = WireLength[messages[c]][Len(handled[c])]
           /\ stored[c] = NoLength

SessionInv == TypeOK /\ FromPlans /\ BufferIsTail /\ StoredForReason /\ InStep

\* The inductive invariant behind ExpiredWasIdle: the map's time is that of the
\* last event, and a number tick has returned had its time.
TimesMatch ==
    /\ \A c \in Conns : fd_expire_map_[c] # 0 => fd_expire_map_[c] = lastEvent[c] + Timeout
    /\ \A c \in expired : clock >= lastEvent[c] + Timeout
TimerTypes ==
    /\ clock \in Nat /\ lastEvent \in [Conns -> Nat] /\ fd_expire_map_ \in [Conns -> Nat]
    /\ heap_ \subseteq [fd : Conns, expire_time : Nat \ {0}]
    /\ expired \subseteq Conns
    /\ loop \in {"events", "update"} /\ (loop = "update" => found \in Conns /\ expired = {})
IInv == TimerTypes /\ HeapCoversMap /\ TimesMatch

\* The connection is closed by the loop because its timer ran out.
ClosedByTimer(c) == c \in expired /\ status[c] = "open" /\ status'[c] = "closed"

\* The timer closes a connection only after a whole time-out without an event
\* on it: an entry of the heap from before the last event does not count.
ExpiredWasIdle == [][\A c \in Conns : ClosedByTimer(c) => clock >= lastEvent[c] + Timeout]_vars

PlainTexts(c) ==
    {Render(messages[c][i]) : i \in {k \in DOMAIN messages[c] : Plain(messages[c][k])}}

\* A message that is as it should be gets a 400 only if the connection has
\* rejected a text with a Content-Length before, which req still holds.
RejectedForReason ==
    [][\A w \in Workers : \A c \in Conns :
          work[w] = c /\ Reject(w) /\ BadTexts(c) \subseteq PlainTexts(c) => lengthKept[c]]_vars

\* The session keeps the promise of RequestStream: however the bytes are
\* portioned and whichever worker reads them, plain messages are cut where they
\* end, handled once and in order, and not before they are complete.
WhollyArrived(c) ==
    Max({n \in 0 .. Len(messages[c]) : WireLength[messages[c]][n] <= arrived[c]})
SentMessages == [c \in Conns |-> WhollyArrived(c)]
Outcomes == [known : BOOLEAN, body : 0 .. Size]

Promise == INSTANCE RequestStream WITH
    Clients <- Conns, IsPlain <- Plain, Means <- Meaning, Results <- Outcomes,
    sent <- SentMessages
StreamSpec == Promise!Spec

\* A plain message that has arrived, after nothing but plain ones, is handled
\* or its connection ends, even if the client then waits for the answer before
\* it sends anything more, and even if several came in one portion.
PlainIsHandled ==
    \A c \in Conns : \A n \in 1 .. 3 :
        (status[c] = "open" /\ Promise!PlainUpTo(c, n) /\ SentMessages[c] >= n)
            ~> (Len(handled[c]) >= n \/ status[c] = "closed")

\* No connection outlives its client's silence: whatever is left in recv_buf,
\* if time goes on the timer ends it.
SilenceEnds ==
    WF_vars(Second) => \A c \in Conns : (status[c] = "open") ~> (status[c] = "closed")

=============================================================================
