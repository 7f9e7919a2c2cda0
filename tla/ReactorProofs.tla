--------------------------- MODULE ReactorProofs ---------------------------
(***************************************************************************)
(* Proofs about the reactor, for every number of connections, descriptors, *)
(* workers and requests.                                                   *)
(***************************************************************************)
EXTENDS Reactor, TLAPS

LEMMA InitIInv == Init => IInv
  <1> SUFFICES ASSUME Init PROVE IInv
    OBVIOUS
  <1> USE DEF Init
  <1>1. TypeOK
    <2>1. <<>> \in Seq(Token) /\ <<>> \in Seq(Task) /\ NoTask \in Task
      BY DEF NoTask, Task
    <2> QED  BY <2>1 DEF TypeOK, Pcs
  <1>2. TableOwnsSockets /\ RegisteredHasTimer /\ OwnersAreAccepted
    BY DEF TableOwnsSockets, RegisteredHasTimer, OwnersAreAccepted
  <1>3. TasksAreServed /\ FoundIsCurrent /\ ExpiredFirst
    BY DEF TasksAreServed, FoundIsCurrent, ExpiredFirst
  <1> QED  BY <1>1, <1>2, <1>3 DEF IInv

-----------------------------------------------------------------------------
(* The clients: they only touch their own sockets.                         *)

\* What the kernel does to the ready list stays a set of descriptors.
LEMMA WakeType ==
    ASSUME TypeOK, NEW c \in Conns, NEW events, Wake(c, events)
    PROVE  ready' \subseteq Fds
  BY DEF Wake, Holds, TypeOK

LEMMA ClientPreserves ==
    ASSUME IInv, NEW c \in Conns, ClientStep(c)
    PROVE  IInv'
  <1> USE DEF IInv
  <1>1. UNCHANGED <<loopVars, connVars, workerVars, owner, interest, alive>>
    BY DEF ClientStep, Connect, Request, ReadResponses, ShutDown, Abort, Refuse
  <1>2. /\ \A d \in Conns : client[d] = "accepted" => client'[d] = "accepted"
        /\ client' \in [Conns -> {"new", "backlog", "accepted"}]
    BY DEF ClientStep, Connect, Request, ReadResponses, ShutDown, Abort, Refuse, TypeOK
  <1>3. ready' \subseteq Fds /\ listenReady' \in BOOLEAN
    <2>1. CASE Connect(c)
      BY <2>1 DEF Connect, TypeOK
    <2>2. CASE Request(c)
      BY <2>2, WakeType DEF Request, TypeOK
    <2>3. CASE ReadResponses(c)
      BY <2>3, WakeType DEF ReadResponses, TypeOK
    <2>4. CASE ShutDown(c)
      BY <2>4, WakeType DEF ShutDown, TypeOK
    <2>5. CASE Abort(c)
      BY <2>5, WakeType DEF Abort, TypeOK
    <2>6. CASE Refuse(c)
      BY <2>6, WakeType DEF Refuse, TypeOK
    <2> QED  BY <2>1, <2>2, <2>3, <2>4, <2>5, <2>6 DEF ClientStep
  <1>4. /\ sentReqs' \in [Conns -> Nat]
        /\ unread' \in [Conns -> Seq(Token)]
    <2>1. CASE Request(c)
      <3>1. <<c, sentReqs[c] + 1>> \in Token /\ unread[c] \in Seq(Token)
        BY DEF TypeOK, Token
      <3>2. Append(unread[c], <<c, sentReqs[c] + 1>>) \in Seq(Token)
        BY <3>1
      <3> QED  BY <2>1, <3>2 DEF Request, TypeOK
    <2>2. CASE ~ Request(c)
      BY <2>2 DEF ClientStep, Connect, ReadResponses, ShutDown, Abort, Refuse, TypeOK
    <2> QED  BY <2>1, <2>2
  <1>5. /\ fin' \in [Conns -> BOOLEAN]
        /\ reset' \in [Conns -> {"none", "pending", "reported", "broken"}]
        /\ wire' \in [Conns -> Seq(Token)]
        /\ clientRead' \in [Conns -> Nat]
    <2>1. Len(wire[c]) \in Nat
      BY DEF TypeOK
    <2>2. CASE ShutDown(c)
      BY <2>2 DEF ShutDown, TypeOK
    <2>3. CASE Abort(c)
      BY <2>3 DEF Abort, TypeOK
    <2>4. CASE ReadResponses(c)
      BY <2>1, <2>4 DEF ReadResponses, TypeOK
    <2>5. CASE Connect(c)
      BY <2>5 DEF Connect, TypeOK
    <2>6. CASE Request(c)
      BY <2>6 DEF Request, TypeOK
    <2>7. CASE Refuse(c)
      BY <2>7 DEF Refuse, TypeOK
    <2> QED  BY <2>2, <2>3, <2>4, <2>5, <2>6, <2>7 DEF ClientStep
  <1>6. TypeOK'
    BY <1>1, <1>2, <1>3, <1>4, <1>5 DEF TypeOK, loopVars, connVars, workerVars
  <1>7. (TableOwnsSockets /\ RegisteredHasTimer)'
    BY <1>1 DEF TableOwnsSockets, RegisteredHasTimer, loopVars, connVars
  <1>8. OwnersAreAccepted'
    BY <1>1, <1>2 DEF OwnersAreAccepted, TypeOK
  <1>9. (TasksAreServed /\ FoundIsCurrent /\ ExpiredFirst)'
    BY <1>1 DEF TasksAreServed, FoundIsCurrent, ExpiredFirst, Served, loopVars, connVars, workerVars
  <1> QED  BY <1>6, <1>7, <1>8, <1>9

-----------------------------------------------------------------------------
(* removeEvent, and epoll_ctl.                                             *)

\* Whoever calls removeEvent, the table and the kernel stay in step.
LEMMA RemovePreserves ==
    ASSUME IInv, NEW f \in Fds, NEW expected, RemoveEvent(f, expected)
    PROVE  /\ timers' \in [Fds -> Conns \cup {None}]
           /\ conn_map' \in [Fds -> Conns \cup {None}]
           /\ owner' \in [Fds -> Conns \cup {None}]
           /\ interest' \in [Fds -> SUBSET {"in", "out"}]
           /\ ready' \subseteq Fds
           /\ \A g \in Fds : conn_map'[g] = owner'[g]
           /\ \A g \in Fds : owner'[g] # None => owner'[g] = owner[g]
           /\ \A g \in Fds : g # f => timers'[g] = timers[g]
           /\ conn_map'[f] # None => timers' = timers
           /\ \A g \in Fds : g # f => owner'[g] = owner[g]
           /\ owner'[f] # owner[f] => MayRemove(f, expected)
  <1>1. CASE MayRemove(f, expected)
    <2>1. /\ timers' = [timers EXCEPT ![f] = None]
          /\ conn_map' = [conn_map EXCEPT ![f] = None]
          /\ owner' = [owner EXCEPT ![f] = None]
          /\ interest' = [interest EXCEPT ![f] = {}]
          /\ ready' = ready \ {f}
      BY <1>1 DEF RemoveEvent
    <2>2. /\ conn_map \in [Fds -> Conns \cup {None}]
          /\ owner \in [Fds -> Conns \cup {None}]
          /\ interest \in [Fds -> SUBSET {"in", "out"}]
          /\ timers \in [Fds -> Conns \cup {None}]
          /\ ready \subseteq Fds
          /\ \A g \in Fds : conn_map[g] = owner[g]
      BY DEF IInv, TypeOK, TableOwnsSockets
    <2> QED  BY <1>1, <2>1, <2>2
  <1>2. CASE ~ MayRemove(f, expected)
    BY <1>2 DEF IInv, TypeOK, TableOwnsSockets, RemoveEvent
  <1> QED  BY <1>1, <1>2

\* epoll_ctl leaves only registered events and known descriptors.
LEMMA ArmType ==
    ASSUME TypeOK, NEW f \in Fds, NEW c, NEW events \in SUBSET {"in", "out"}, Arm(f, c, events)
    PROVE  interest' \in [Fds -> SUBSET {"in", "out"}] /\ ready' \subseteq Fds
  BY DEF Arm, TypeOK

-----------------------------------------------------------------------------
(* The loop thread.                                                        *)

LEMMA EpollWaitPreserves == ASSUME IInv, EpollWait PROVE IInv'
  <1> USE DEF IInv, EpollWait, connVars, workerVars
  <1>1. batch' \subseteq [fd : Fds \cup {Listen}, revents : SUBSET {"in", "out", "err"}]
    <2>1. \A f \in Fds : Revents(f) \subseteq {"in", "out", "err"}
      BY DEF Revents, Polled
    <2>2. ready \subseteq Fds
      BY DEF TypeOK
    <2> QED  BY <2>1, <2>2 DEF ListenEvent, In
  <1>2. /\ expired' \subseteq Fds /\ timers' \in [Fds -> Conns \cup {None}]
        /\ \A f \in Fds : timers'[f] = timers[f] \/ f \in expired'
    BY DEF TypeOK
  <1>3. expired = {}
    BY DEF ExpiredFirst
  <1>4. TypeOK'
    BY <1>1, <1>2 DEF TypeOK
  <1>5. (TableOwnsSockets /\ OwnersAreAccepted /\ RegisteredHasTimer)'
    BY <1>2, <1>3 DEF TableOwnsSockets, OwnersAreAccepted, RegisteredHasTimer
  <1>6. (TasksAreServed /\ FoundIsCurrent /\ ExpiredFirst)'
    BY DEF TasksAreServed, FoundIsCurrent, ExpiredFirst, Served
  <1> QED  BY <1>4, <1>5, <1>6

LEMMA ExpirePreserves == ASSUME IInv, NEW f \in Fds, Expire(f) PROVE IInv'
  <1> USE DEF IInv, Expire, connVars, workerVars
  <1>1. RemoveEvent(f, None)
    OBVIOUS
  <1>2. conn_map'[f] = None
    BY <1>1 DEF RemoveEvent, MayRemove, TypeOK
  <1>3. TypeOK'
    BY <1>1, RemovePreserves DEF TypeOK
  <1>4. (TableOwnsSockets /\ OwnersAreAccepted)'
    BY <1>1, RemovePreserves DEF TableOwnsSockets, OwnersAreAccepted
  <1>5. RegisteredHasTimer'
    <2> SUFFICES ASSUME NEW g \in Fds, conn_map'[g] # None
                 PROVE  timers'[g] = conn_map'[g] \/ g \in expired'
      BY DEF RegisteredHasTimer
    <2>1. g # f /\ conn_map'[g] = conn_map[g] /\ timers'[g] = timers[g]
      BY <1>1, <1>2, RemovePreserves DEF TableOwnsSockets
    <2> QED  BY <1>1, <2>1, RemovePreserves DEF RegisteredHasTimer
  <1>6. (TasksAreServed /\ FoundIsCurrent /\ ExpiredFirst)'
    BY DEF TasksAreServed, FoundIsCurrent, ExpiredFirst, Served
  <1> QED  BY <1>3, <1>4, <1>5, <1>6

LEMMA LookupPreserves == ASSUME IInv, NEW e \in batch, Lookup(e) PROVE IInv'
  <1> USE DEF IInv, Lookup, kernelVars, connVars, workerVars
  <1>1. e.fd \in Fds /\ e.revents \in SUBSET {"in", "out", "err"}
    BY DEF TypeOK
  <1>2. conn_map[e.fd] # None => conn_map[e.fd] \in Served
    <2>1. conn_map[e.fd] \in Conns \cup {None} /\ e.fd # 0
      BY <1>1, FdsAssumption DEF TypeOK
    <2> QED  BY <1>1, <2>1 DEF TableOwnsSockets, Served
  <1>3. found' \in Task
    BY <1>1 DEF TypeOK, Task
  <1>4. TypeOK'
    BY <1>3 DEF TypeOK
  <1>5. (TableOwnsSockets /\ OwnersAreAccepted /\ RegisteredHasTimer)'
    BY DEF TableOwnsSockets, OwnersAreAccepted, RegisteredHasTimer
  <1>6. (TasksAreServed /\ ExpiredFirst)'
    BY <1>2 DEF TasksAreServed, ExpiredFirst, Served
  <1>7. FoundIsCurrent'
    <2>1. conn_map[e.fd] # None => fd_[conn_map[e.fd]] = e.fd
      BY <1>1 DEF TableOwnsSockets
    <2> QED  BY <2>1 DEF FoundIsCurrent
  <1> QED  BY <1>4, <1>5, <1>6, <1>7

LEMMA SubmitPreserves == ASSUME IInv, Submit PROVE IInv'
  <1> USE DEF IInv, Submit, kernelVars, connVars, workerVars
  <1>1. found.conn \in Served /\ fd_[found.conn] \in Fds
    BY DEF TasksAreServed, Served, TypeOK
  <1>2. task_queue' \in Seq(Task) /\ found' \in Task
    BY DEF TypeOK, NoTask, Task
  <1>3. TypeOK'
    <2>1. timers' \in [Fds -> Conns \cup {None}]
      BY <1>1 DEF Served, TypeOK
    <2> QED  BY <1>2, <2>1 DEF TypeOK
  <1>4. (TableOwnsSockets /\ OwnersAreAccepted /\ RegisteredHasTimer)'
    <2>1. (TableOwnsSockets /\ OwnersAreAccepted)'
      BY DEF TableOwnsSockets, OwnersAreAccepted
    <2>2. /\ conn_map[fd_[found.conn]] \in {None, found.conn}
          /\ timers \in [Fds -> Conns \cup {None}]
          /\ timers' = [timers EXCEPT ![fd_[found.conn]] = found.conn]
          /\ UNCHANGED <<conn_map, expired>>
      BY DEF FoundIsCurrent, TypeOK
    <2>3. RegisteredHasTimer'
      BY <1>1, <2>2 DEF RegisteredHasTimer
    <2> QED  BY <2>1, <2>3
  <1>5. \A i \in DOMAIN task_queue' : task_queue'[i].conn \in Served
    <2> TAKE i \in DOMAIN task_queue'
    <2>1. task_queue \in Seq(Task) /\ found \in Task /\ task_queue' = Append(task_queue, found)
      BY DEF TypeOK
    <2>2. CASE i = Len(task_queue) + 1
      BY <1>1, <2>1, <2>2
    <2>3. CASE i # Len(task_queue) + 1
      <3>1. i \in DOMAIN task_queue /\ task_queue'[i] = task_queue[i]
        BY <2>1, <2>3
      <3> QED  BY <3>1 DEF TasksAreServed
    <2> QED  BY <2>2, <2>3
  <1>6. (TasksAreServed /\ FoundIsCurrent /\ ExpiredFirst)'
    BY <1>5 DEF TasksAreServed, FoundIsCurrent, ExpiredFirst, Served
  <1> QED  BY <1>3, <1>4, <1>6

LEMMA AcceptPreserves == ASSUME IInv, NEW c \in Conns, Accept(c) PROVE IInv'
  <1> USE DEF IInv, Accept, connVars, workerVars
  <1>1. PICK f \in FreeFds :
           /\ client' = [client EXCEPT ![c] = "accepted"]
           /\ owner' = [owner EXCEPT ![f] = c]
           /\ fd_' = [fd_ EXCEPT ![c] = f]
           /\ conn_map' = IF conn_map[f] # None THEN conn_map ELSE [conn_map EXCEPT ![f] = c]
           /\ Arm(f, c, AcceptEvents)
           /\ timers' = [timers EXCEPT ![f] = c]
    OBVIOUS
  <1>2. f \in Fds /\ owner[f] = None /\ conn_map[f] = None /\ f # 0
    BY FdsAssumption DEF FreeFds, TableOwnsSockets
  <1>3. client[c] = "backlog"
    BY DEF Waiting
  <1>4. \A g \in Fds : owner[g] # c
    BY <1>3, NoneAssumption DEF OwnersAreAccepted
  <1>5. interest' \in [Fds -> SUBSET {"in", "out"}] /\ ready' \subseteq Fds
    BY <1>1, <1>2, ArmType DEF AcceptEvents, In
  <1>6. TypeOK'
    BY <1>1, <1>2, <1>5 DEF TypeOK
  <1>7. TableOwnsSockets'
    BY <1>1, <1>2, <1>4 DEF TableOwnsSockets, TypeOK
  <1>8. OwnersAreAccepted' /\ RegisteredHasTimer'
    <2>1. \A g \in Fds : owner'[g] # None => client'[owner'[g]] = "accepted"
      <3> TAKE g \in Fds
      <3>1. CASE g = f
        BY <1>1, <1>2, <3>1 DEF TypeOK
      <3>2. CASE g # f
        <4>1. owner'[g] = owner[g] /\ owner[g] # c /\ owner[g] \in Conns \cup {None}
          BY <1>1, <1>2, <1>4, <3>2 DEF TypeOK
        <4> QED  BY <1>1, <4>1 DEF OwnersAreAccepted, TypeOK
      <3> QED  BY <3>1, <3>2
    <2>2. RegisteredHasTimer'
      BY <1>1, <1>2 DEF RegisteredHasTimer, TypeOK
    <2> QED  BY <2>1, <2>2 DEF OwnersAreAccepted
  <1>9. (TasksAreServed /\ FoundIsCurrent /\ ExpiredFirst)'
    BY <1>1, <1>2 DEF TasksAreServed, FoundIsCurrent, ExpiredFirst, Served, TypeOK
  <1> QED  BY <1>6, <1>7, <1>8, <1>9

LEMMA AcceptFailsPreserves == ASSUME IInv, AcceptFails PROVE IInv'
  BY DEF IInv, AcceptFails, kernelVars, connVars, workerVars, TypeOK, TableOwnsSockets,
         RegisteredHasTimer, OwnersAreAccepted, TasksAreServed, FoundIsCurrent, ExpiredFirst, Served

LEMMA LoopPreserves == ASSUME IInv, LoopStep PROVE IInv'
  BY EpollWaitPreserves, ExpirePreserves, LookupPreserves, SubmitPreserves,
     AcceptPreserves, AcceptFailsPreserves DEF LoopStep

-----------------------------------------------------------------------------
(* The workers.                                                            *)

\* A busy worker serves a connection that has a descriptor.
LEMMA Serving ==
    ASSUME IInv, NEW w \in Workers, pc[w] # "idle"
    PROVE  /\ work[w].conn \in Conns /\ work[w].conn \in Served
           /\ Fd(w) \in Fds
           /\ work[w].revents \in SUBSET {"in", "out", "err"}
           /\ recv_buf[work[w].conn] \in Seq(Token)
           /\ send_buf[work[w].conn] \in Seq(Token)
  <1>1. work[w].conn \in Served /\ work[w] \in Task
    BY DEF IInv, TasksAreServed, TypeOK
  <1> QED  BY <1>1 DEF Served, Fd, IInv, TypeOK, Task

\* Going to a label keeps the worker's task, or gives it up.
LEMMA GotoType ==
    ASSUME IInv, NEW w \in Workers, pc[w] # "idle", NEW label \in Pcs, Goto(w, label)
    PROVE  /\ pc' \in [Workers -> Pcs] /\ work' \in [Workers -> Task]
           /\ \A v \in Workers : pc'[v] # "idle" => work'[v].conn \in Served
  <1>1. /\ pc \in [Workers -> Pcs] /\ work \in [Workers -> Task]
        /\ \A v \in Workers : pc[v] # "idle" => work[v].conn \in Served
    BY DEF IInv, TasksAreServed, TypeOK
  <1>2. NoTask \in Task
    BY DEF NoTask, Task
  <1> QED  BY <1>1, <1>2 DEF Goto

\* The part of the invariant no worker step below disturbs, unless it removes
\* a connection.
LEMMA WorkerKeeps ==
    ASSUME IInv, UNCHANGED <<client, owner, conn_map, timers, loop, expired, found, task_queue, fd_>>,
           \A v \in Workers : pc'[v] # "idle" => work'[v].conn \in Served
    PROVE  (TableOwnsSockets /\ RegisteredHasTimer /\ OwnersAreAccepted /\ TasksAreServed
            /\ FoundIsCurrent /\ ExpiredFirst)'
  BY DEF IInv, TableOwnsSockets, RegisteredHasTimer, OwnersAreAccepted, TasksAreServed,
         FoundIsCurrent, ExpiredFirst, Served

LEMMA TakePreserves == ASSUME IInv, NEW w \in Workers, Take(w) PROVE IInv'
  <1> USE DEF Take, kernelVars, connVars
  <1>1. /\ task_queue \in Seq(Task) /\ task_queue # <<>>
        /\ task_queue' = Tail(task_queue)
    BY DEF IInv, TypeOK
  <1>2. /\ Head(task_queue) \in Task /\ task_queue' \in Seq(Task)
        /\ Head(task_queue) = task_queue[1] /\ 1 \in DOMAIN task_queue
    BY <1>1
  <1>3. /\ work' = [work EXCEPT ![w] = Head(task_queue)]
        /\ \E label \in Pcs : pc' = [pc EXCEPT ![w] = label]
    BY DEF Pcs
  <1>4. TypeOK'
    BY <1>2, <1>3 DEF IInv, TypeOK
  <1>5. (TableOwnsSockets /\ RegisteredHasTimer /\ OwnersAreAccepted /\ FoundIsCurrent /\ ExpiredFirst)'
    BY DEF IInv, TableOwnsSockets, RegisteredHasTimer, OwnersAreAccepted, FoundIsCurrent, ExpiredFirst
  <1>6. \A v \in Workers : pc'[v] # "idle" => work'[v].conn \in Served
    <2>1. Head(task_queue).conn \in Served
      BY <1>2 DEF IInv, TasksAreServed
    <2>2. work \in [Workers -> Task] /\ pc \in [Workers -> Pcs]
      BY DEF IInv, TypeOK
    <2> QED  BY <1>3, <2>1, <2>2 DEF IInv, TasksAreServed
  <1>7. \A i \in DOMAIN task_queue' : task_queue'[i].conn \in Served
    <2> TAKE i \in DOMAIN task_queue'
    <2>1. i + 1 \in DOMAIN task_queue /\ task_queue'[i] = task_queue[i + 1]
      BY <1>1
    <2> QED  BY <2>1 DEF IInv, TasksAreServed
  <1>8. TasksAreServed'
    BY <1>6, <1>7 DEF IInv, TasksAreServed, Served
  <1> QED  BY <1>4, <1>5, <1>8 DEF IInv

\* Removing the task's own connection leaves every other one its timer.
LEMMA DropPreserves == ASSUME IInv, NEW w \in Workers, Drop(w) PROVE IInv'
  <1> USE DEF Drop, connVars
  <1> DEFINE f == Fd(w)
  <1>1. pc[w] # "idle" /\ f \in Fds
    BY Serving
  <1>2. RemoveEvent(f, work[w].conn)
    OBVIOUS
  <1>3. /\ pc' \in [Workers -> Pcs] /\ work' \in [Workers -> Task]
        /\ \A v \in Workers : pc'[v] # "idle" => work'[v].conn \in Served
    BY <1>1, GotoType DEF Pcs
  <1> HIDE DEF f
  <1>4. TypeOK'
    BY <1>1, <1>2, <1>3, RemovePreserves DEF IInv, TypeOK
  <1>5. (TableOwnsSockets /\ OwnersAreAccepted)'
    BY <1>1, <1>2, RemovePreserves DEF IInv, TableOwnsSockets, OwnersAreAccepted
  <1>6. RegisteredHasTimer'
    <2> SUFFICES ASSUME NEW g \in Fds, conn_map'[g] # None
                 PROVE  timers'[g] = conn_map'[g] \/ g \in expired'
      BY DEF RegisteredHasTimer
    <2>1. conn_map'[g] = conn_map[g] /\ timers'[g] = timers[g] /\ expired' = expired
      BY <1>1, <1>2, RemovePreserves DEF IInv, TableOwnsSockets
    <2> QED  BY <2>1 DEF IInv, RegisteredHasTimer
  <1>7. (TasksAreServed /\ ExpiredFirst)'
    BY <1>3 DEF IInv, TasksAreServed, ExpiredFirst, Served
  <1>8. FoundIsCurrent'
    <2> SUFFICES ASSUME loop = "submit"
                 PROVE  conn_map'[fd_[found.conn]] \in {None, found.conn}
      BY DEF FoundIsCurrent
    <2>1. fd_[found.conn] \in Fds /\ conn_map[fd_[found.conn]] \in {None, found.conn}
      BY DEF IInv, TasksAreServed, FoundIsCurrent, Served, TypeOK
    <2> QED  BY <1>1, <1>2, <2>1, RemovePreserves DEF IInv, TableOwnsSockets
  <1> QED  BY <1>4, <1>5, <1>6, <1>7, <1>8 DEF IInv

\* The lock, the gate and the table lookups of a worker change only where it is.
LEMMA MovePreserves ==
    ASSUME IInv, NEW w \in Workers, LockRead(w) \/ LockWrite(w) \/ Gate(w) \/ Check(w)
    PROVE  IInv'
  <1> USE DEF kernelVars, loopVars, connVars
  <1>1. pc[w] # "idle"
    BY DEF LockRead, LockWrite, Gate, Check
  <1>2. PICK label \in Pcs : Goto(w, label)
    BY DEF LockRead, LockWrite, Gate, Check, AfterUpdate, Pcs, ReadPcs, WritePcs
  <1>3. UNCHANGED <<kernelVars, loopVars, connVars, wrote>> /\ ev' \in [Workers -> SUBSET {"in", "out"}]
    BY DEF LockRead, LockWrite, Gate, Check, IInv, TypeOK
  <1>4. /\ pc' \in [Workers -> Pcs] /\ work' \in [Workers -> Task]
        /\ \A v \in Workers : pc'[v] # "idle" => work'[v].conn \in Served
    BY <1>1, <1>2, GotoType
  <1>5. TypeOK'
    BY <1>3, <1>4 DEF IInv, TypeOK
  <1> QED  BY <1>3, <1>4, <1>5, WorkerKeeps DEF IInv

LEMMA ReadPreserves == ASSUME IInv, NEW w \in Workers, Read(w) PROVE IInv'
  <1> DEFINE c == work[w].conn
             o == owner[Fd(w)]
  <1>1. pc[w] # "idle"
    BY DEF Read
  <1>2. c \in Conns /\ o \in Conns \cup {None} /\ recv_buf[c] \in Seq(Token)
    BY <1>1, Serving DEF IInv, TypeOK
  <1>3. /\ \/ o # None /\ recv_buf' = [recv_buf EXCEPT ![c] = recv_buf[c] \o unread[o]]
                       /\ unread' = [unread EXCEPT ![o] = <<>>]
           \/ UNCHANGED <<recv_buf, unread>>
        /\ \/ o # None /\ reset' = [reset EXCEPT ![o] = "reported"]
           \/ UNCHANGED reset
        /\ UNCHANGED <<pc, work>> \/ Goto(w, AfterRead(o))
        /\ UNCHANGED <<client, sentReqs, fin, wire, clientRead, owner, interest, ready,
                       listenReady, alive, loopVars, fd_, send_buf, ev, wrote>>
    BY DEF Read
  <1> HIDE DEF c, o
  <1>4. /\ pc' \in [Workers -> Pcs] /\ work' \in [Workers -> Task]
        /\ \A v \in Workers : pc'[v] # "idle" => work'[v].conn \in Served
    <2>1. CASE UNCHANGED <<pc, work>>
      BY <2>1 DEF IInv, TypeOK, TasksAreServed
    <2>2. CASE Goto(w, AfterRead(o))
      BY <1>1, <2>2, GotoType DEF AfterRead, Pcs, ReadPcs
    <2> QED  BY <1>3, <2>1, <2>2
  <1>5. unread' \in [Conns -> Seq(Token)] /\ recv_buf' \in [Conns -> Seq(Token)]
    <2>1. /\ unread \in [Conns -> Seq(Token)] /\ recv_buf \in [Conns -> Seq(Token)]
          /\ <<>> \in Seq(Token)
      BY DEF IInv, TypeOK
    <2>2. o # None => recv_buf[c] \o unread[o] \in Seq(Token)
      BY <1>2, <2>1
    <2> QED  BY <1>2, <1>3, <2>1, <2>2
  <1>6. reset' \in [Conns -> {"none", "pending", "reported", "broken"}]
    <2>1. reset \in [Conns -> {"none", "pending", "reported", "broken"}]
      BY DEF IInv, TypeOK
    <2> QED  BY <1>2, <1>3, <2>1
  <1>7. TypeOK'
    BY <1>3, <1>4, <1>5, <1>6 DEF IInv, TypeOK, loopVars
  <1> QED  BY <1>3, <1>4, <1>7, WorkerKeeps DEF IInv, loopVars

LEMMA AnswerPreserves == ASSUME IInv, NEW w \in Workers, Answer(w) PROVE IInv'
  <1> USE DEF Answer, kernelVars, loopVars
  <1> DEFINE c == work[w].conn
  <1>1. pc[w] # "idle" /\ c \in Conns /\ recv_buf[c] \in Seq(Token) /\ send_buf[c] \in Seq(Token)
    BY Serving
  <1>2. /\ pc' \in [Workers -> Pcs] /\ work' \in [Workers -> Task]
        /\ \A v \in Workers : pc'[v] # "idle" => work'[v].conn \in Served
    BY <1>1, GotoType DEF Pcs, ReadPcs
  <1>3. CASE recv_buf[c] = <<>>
    <2>1. TypeOK'
      BY <1>2, <1>3 DEF IInv, TypeOK
    <2> QED  BY <1>2, <1>3, <2>1, WorkerKeeps DEF IInv
  <1>4. CASE recv_buf[c] # <<>>
    <2>1. /\ Append(send_buf[c], Head(recv_buf[c])) \in Seq(Token)
          /\ Tail(recv_buf[c]) \in Seq(Token) /\ <<>> \in Seq(Token)
      BY <1>1, <1>4
    <2>2. /\ send_buf' = [send_buf EXCEPT ![c] = Append(send_buf[c], Head(recv_buf[c]))]
          /\ \/ recv_buf' = [recv_buf EXCEPT ![c] = <<>>]
             \/ recv_buf' = [recv_buf EXCEPT ![c] = Tail(recv_buf[c])]
          /\ \/ ev' = [ev EXCEPT ![w] = Out]
             \/ ev' = [ev EXCEPT ![w] = InOut]
      BY <1>4
    <2>3. /\ send_buf' \in [Conns -> Seq(Token)] /\ recv_buf' \in [Conns -> Seq(Token)]
          /\ ev' \in [Workers -> SUBSET {"in", "out"}]
      <3>1. /\ send_buf \in [Conns -> Seq(Token)] /\ recv_buf \in [Conns -> Seq(Token)]
            /\ ev \in [Workers -> SUBSET {"in", "out"}]
        BY DEF IInv, TypeOK
      <3> HIDE DEF c, Answer
      <3>2. send_buf' \in [Conns -> Seq(Token)]
        BY <2>1, <2>2, <3>1
      <3>3. recv_buf' \in [Conns -> Seq(Token)]
        BY <2>1, <2>2, <3>1
      <3>4. ev' \in [Workers -> SUBSET {"in", "out"}]
        BY <2>2, <3>1 DEF Out, InOut
      <3> QED  BY <3>2, <3>3, <3>4
    <2>4. TypeOK'
      BY <1>2, <2>3 DEF IInv, TypeOK
    <2> QED  BY <1>2, <2>4, WorkerKeeps DEF IInv
  <1> QED  BY <1>3, <1>4

LEMMA ModifyPreserves == ASSUME IInv, NEW w \in Workers, Modify(w) PROVE IInv'
  <1> USE DEF Modify, loopVars, connVars
  <1>1. pc[w] # "idle" /\ Fd(w) \in Fds /\ ev[w] \in SUBSET {"in", "out"}
    BY Serving DEF IInv, TypeOK
  <1>2. /\ pc' \in [Workers -> Pcs] /\ work' \in [Workers -> Task]
        /\ \A v \in Workers : pc'[v] # "idle" => work'[v].conn \in Served
    BY <1>1, GotoType DEF AfterUpdate, Pcs, ReadPcs
  <1>3. interest' \in [Fds -> SUBSET {"in", "out"}] /\ ready' \subseteq Fds
    BY <1>1, ArmType DEF IInv, TypeOK
  <1>4. ev' \in [Workers -> SUBSET {"in", "out"}]
    BY DEF IInv, TypeOK
  <1>5. TypeOK'
    BY <1>2, <1>3, <1>4 DEF IInv, TypeOK
  <1> QED  BY <1>2, <1>5, WorkerKeeps DEF IInv

LEMMA WritePreserves == ASSUME IInv, NEW w \in Workers, Write(w) PROVE IInv'
  <1> DEFINE c == work[w].conn
             o == owner[Fd(w)]
             n == IF Room(o) < Len(send_buf[c]) THEN Room(o) ELSE Len(send_buf[c])
             taken == SubSeq(send_buf[c], 1, n)
  <1>1. pc[w] # "idle"
    BY DEF Write
  <1>2. c \in Conns /\ o \in Conns \cup {None} /\ send_buf[c] \in Seq(Token)
    BY <1>1, Serving DEF IInv, TypeOK
  <1>3. /\ \/ o # None /\ Room(o) > 0 /\ wire' = [wire EXCEPT ![o] = wire[o] \o taken]
                       /\ wrote' = [wrote EXCEPT ![w] = n]
           \/ UNCHANGED <<wire, wrote>>
        /\ \/ o # None /\ reset' = [reset EXCEPT ![o] = "reported"]
           \/ UNCHANGED reset
        /\ alive' = FALSE \/ UNCHANGED alive
        /\ ev' = [ev EXCEPT ![w] = DrainedEvents] \/ UNCHANGED ev
        /\ UNCHANGED <<pc, work>> \/ \E label \in WritePcs \cup {"idle"} : Goto(w, label)
        /\ UNCHANGED <<client, sentReqs, unread, fin, clientRead, owner, interest, ready,
                       listenReady, loopVars, connVars>>
    BY DEF Write, WritePcs
  <1>4. /\ pc' \in [Workers -> Pcs] /\ work' \in [Workers -> Task]
        /\ \A v \in Workers : pc'[v] # "idle" => work'[v].conn \in Served
    <2>1. CASE UNCHANGED <<pc, work>>
      BY <2>1 DEF IInv, TypeOK, TasksAreServed
    <2>2. CASE \E label \in WritePcs \cup {"idle"} : Goto(w, label)
      BY <1>1, <2>2, GotoType DEF Pcs
    <2> QED  BY <1>3, <2>1, <2>2
  <1>5. ev' \in [Workers -> SUBSET {"in", "out"}] /\ alive' \in BOOLEAN
    <2>1. ev \in [Workers -> SUBSET {"in", "out"}] /\ alive \in BOOLEAN
      BY DEF IInv, TypeOK
    <2> QED  BY <1>3, <2>1 DEF DrainedEvents, In
  <1>6. reset' \in [Conns -> {"none", "pending", "reported", "broken"}]
    <2>1. reset \in [Conns -> {"none", "pending", "reported", "broken"}]
      BY DEF IInv, TypeOK
    <2> HIDE DEF o, c
    <2> QED  BY <1>2, <1>3, <2>1
  <1>7. wire' \in [Conns -> Seq(Token)] /\ wrote' \in [Workers -> Nat]
    <2>1. wire \in [Conns -> Seq(Token)] /\ wrote \in [Workers -> Nat] /\ clientRead \in [Conns -> Nat]
      BY DEF IInv, TypeOK
    <2>2. CASE o # None /\ Room(o) > 0
      <3>1. wire[o] \in Seq(Token) /\ clientRead[o] \in Nat
        BY <1>2, <2>1, <2>2
      <3>2. Room(o) \in Int
        BY <3>1, BoundsAssumption DEF Room
      <3>3. n \in Nat /\ n <= Len(send_buf[c])
        BY <1>2, <2>2, <3>2
      <3>4. taken \in Seq(Token)
        BY <1>2, <3>3
      <3>5. wire[o] \o taken \in Seq(Token)
        BY <3>1, <3>4
      <3> HIDE DEF n, taken, o, c
      <3> QED  BY <1>2, <1>3, <2>1, <2>2, <3>3, <3>5
    <2>3. CASE ~ (o # None /\ Room(o) > 0)
      BY <1>3, <2>1, <2>3
    <2> QED  BY <2>2, <2>3
  <1>8. TypeOK'
    BY <1>3, <1>4, <1>5, <1>6, <1>7 DEF IInv, TypeOK, loopVars, connVars
  <1> QED  BY <1>3, <1>4, <1>8, WorkerKeeps DEF IInv, loopVars, connVars

LEMMA ErasePreserves == ASSUME IInv, NEW w \in Workers, Erase(w) PROVE IInv'
  <1> USE DEF Erase, kernelVars, loopVars
  <1> DEFINE c == work[w].conn
  <1>1. pc[w] # "idle" /\ c \in Conns /\ send_buf[c] \in Seq(Token) /\ wrote[w] \in Nat
    BY Serving DEF IInv, TypeOK
  <1>2. /\ pc' \in [Workers -> Pcs] /\ work' \in [Workers -> Task]
        /\ \A v \in Workers : pc'[v] # "idle" => work'[v].conn \in Served
    BY <1>1, GotoType DEF Pcs, WritePcs
  <1>3. SubSeq(send_buf[c], wrote[w] + 1, Len(send_buf[c])) \in Seq(Token)
    BY <1>1
  <1>4. send_buf' \in [Conns -> Seq(Token)] /\ wrote' \in [Workers -> Nat]
    BY <1>1, <1>3 DEF IInv, TypeOK
  <1>5. TypeOK'
    BY <1>2, <1>4 DEF IInv, TypeOK
  <1> QED  BY <1>2, <1>5, WorkerKeeps DEF IInv

\* The exception changes nothing but that the process is gone.
LEMMA ThrowPreserves == ASSUME IInv, NEW w \in Workers, Throw(w) PROVE IInv'
  <1>1. /\ UNCHANGED <<client, sentReqs, unread, fin, reset, wire, clientRead, owner, interest,
                       ready, listenReady, loopVars, connVars, workerVars>>
        /\ alive' = FALSE
    BY DEF Throw
  <1>2. TypeOK'
    BY <1>1 DEF IInv, TypeOK, loopVars, connVars, workerVars
  <1>3. \A v \in Workers : pc'[v] # "idle" => work'[v].conn \in Served
    BY <1>1 DEF IInv, TasksAreServed, workerVars
  <1> QED  BY <1>1, <1>2, <1>3, WorkerKeeps DEF IInv, loopVars, connVars

LEMMA WorkerPreserves == ASSUME IInv, NEW w \in Workers, WorkerStep(w) PROVE IInv'
  BY TakePreserves, DropPreserves, MovePreserves, ReadPreserves, AnswerPreserves,
     ThrowPreserves, ModifyPreserves, WritePreserves, ErasePreserves DEF WorkerStep

-----------------------------------------------------------------------------
(* The invariant, and what follows from it.                                *)

LEMMA NextPreserves == IInv /\ [Next]_vars => IInv'
  <1> SUFFICES ASSUME IInv, [Next]_vars PROVE IInv'
    OBVIOUS
  <1>1. CASE Next
    BY <1>1, ClientPreserves, LoopPreserves, WorkerPreserves DEF Next
  <1>2. CASE UNCHANGED vars
    BY <1>2 DEF vars, kernelVars, loopVars, connVars, workerVars, IInv, TypeOK, TableOwnsSockets,
                RegisteredHasTimer, OwnersAreAccepted, TasksAreServed, FoundIsCurrent, ExpiredFirst, Served
  <1> QED  BY <1>1, <1>2

LEMMA Invariance == Spec => []IInv
  BY InitIInv, NextPreserves, PTL DEF Spec

\* Type correctness of the reactor (EventLoop, ThreadPool, Connection).
THEOREM TypeCorrect == Spec => []TypeOK
  <1>1. IInv => TypeOK
    BY DEF IInv
  <1> QED  BY <1>1, Invariance, PTL

\* EventLoop's conn_map_ and the kernel's descriptors never drift apart,
\* whatever the workers, the timers and the clients do and in whatever order.
THEOREM TableStaysInStep == Spec => []TableOwnsSockets
  <1>1. IInv => TableOwnsSockets
    BY DEF IInv
  <1> QED  BY <1>1, Invariance, PTL

\* No registered connection loses its timer (EventLoop::removeEvent disarms
\* only after the check of the expected connection) or has an earlier one's
\* (accept arms anew; only the loop accepts, so not between look-up and updateTimer).
THEOREM TimersStayArmed == Spec => []RegisteredHasTimer
  <1>1. IInv => RegisteredHasTimer
    BY DEF IInv
  <1> QED  BY <1>1, Invariance, PTL

-----------------------------------------------------------------------------
(* Who closes a connection.                                                *)

\* A step that is neither a removal nor an accept closes nothing.
LEMMA OthersCloseNothing ==
    ASSUME IInv, [Next]_vars, NEW c \in Conns, Holds(c),
           ~ \E f \in Fds : Expire(f), ~ \E w \in Workers : Drop(w)
    PROVE  Holds(c)'
  <1>1. CASE UNCHANGED <<owner, fd_>>
    BY <1>1 DEF Holds
  <1>2. CASE \E d \in Conns : Accept(d)
    <2>1. PICK d \in Conns : Accept(d)
      BY <1>2
    <2>2. PICK f \in FreeFds : owner' = [owner EXCEPT ![f] = d] /\ fd_' = [fd_ EXCEPT ![d] = f]
      BY <2>1 DEF Accept
    <2>3. client[d] = "backlog" /\ fd_[c] \in Fds /\ client[c] = "accepted"
      <3>1. client[d] = "backlog"
        BY <2>1 DEF Accept, Waiting
      <3>2. fd_[c] \in Fds
        BY DEF Holds, IInv, TypeOK
      <3>3. client[c] = "accepted"
        BY <3>2, NoneAssumption DEF Holds, IInv, OwnersAreAccepted
      <3> QED  BY <3>1, <3>2, <3>3
    <2>4. d # c /\ f # fd_[c]
      BY <2>2, <2>3, NoneAssumption DEF Holds, FreeFds
    <2> QED  BY <2>2, <2>3, <2>4 DEF Holds, IInv, TypeOK
  <1>3. CASE Next /\ ~ \E d \in Conns : Accept(d)
    <2>1. CASE \E d \in Conns : ClientStep(d)
      BY <1>1, <2>1 DEF ClientStep, Connect, Request, ReadResponses, ShutDown, Abort, Refuse, connVars
    <2>2. CASE LoopStep
      BY <1>1, <1>3, <2>2 DEF LoopStep, EpollWait, Lookup, Submit, AcceptFails, kernelVars, connVars
    <2>3. CASE \E w \in Workers : WorkerStep(w)
      <3>1. PICK w \in Workers : WorkerStep(w)
        BY <2>3
      <3>2. CASE Take(w) \/ LockRead(w) \/ LockWrite(w) \/ Gate(w) \/ Check(w) \/ Answer(w) \/ Throw(w) \/ Erase(w)
        BY <1>1, <3>2 DEF Take, LockRead, LockWrite, Gate, Check, Answer, Throw, Erase, kernelVars, connVars
      <3>3. CASE Read(w) \/ Modify(w) \/ Write(w)
        BY <1>1, <3>3 DEF Read, Modify, Write, connVars
      <3> QED  BY <3>1, <3>2, <3>3 DEF WorkerStep
    <2> QED  BY <1>3, <2>1, <2>2, <2>3 DEF Next
  <1>4. CASE UNCHANGED vars
    BY <1>1, <1>4 DEF vars, kernelVars, connVars
  <1> QED  BY <1>2, <1>3, <1>4

\* A worker's removeEvent, which names its own connection, closes no other.
LEMMA DropClosesOwn ==
    ASSUME IInv, NEW w \in Workers, Drop(w), NEW c \in Conns, Holds(c), ~ Holds(c)'
    PROVE  work[w].conn = c
  <1>1. Fd(w) \in Fds /\ work[w].conn \in Conns
    BY Serving DEF Drop
  <1>2. RemoveEvent(Fd(w), work[w].conn) /\ fd_' = fd_
    BY DEF Drop, connVars
  <1>3. fd_[c] \in Fds /\ owner'[fd_[c]] # owner[fd_[c]]
    BY <1>2 DEF Holds, IInv, TypeOK
  <1>4. Fd(w) = fd_[c] /\ MayRemove(fd_[c], work[w].conn)
    BY <1>1, <1>2, <1>3, RemovePreserves
  <1> QED  BY <1>1, <1>3, <1>4, NoneAssumption DEF MayRemove, Holds, IInv, TableOwnsSockets

\* removeEvent(fd, expected) and the check of expected: a task that outlived
\* its connection never closes the connection that has its number now.
THEOREM OnlyOwnTask == Spec => OnlyOwnTaskCloses
  <1> DEFINE Own == \A c \in Conns : Holds(c) /\ ~ Holds(c)' =>
                       \/ fd_[c] \in expired
                       \/ \E w \in Workers :
                             work[w].conn = c /\ pc[w] \in {"errorDrop", "readDrop", "writeDrop"}
  <1>1. IInv /\ [Next]_vars => Own
    <2> SUFFICES ASSUME IInv, [Next]_vars, NEW c \in Conns, Holds(c), ~ Holds(c)'
                 PROVE  \/ fd_[c] \in expired
                        \/ \E w \in Workers :
                              work[w].conn = c /\ pc[w] \in {"errorDrop", "readDrop", "writeDrop"}
      OBVIOUS
    <2>1. CASE \E f \in Fds : Expire(f)
      <3>1. PICK f \in Fds : Expire(f)
        BY <2>1
      <3>2. RemoveEvent(f, None) /\ f \in expired /\ fd_' = fd_
        BY <3>1 DEF Expire, connVars
      <3>3. fd_[c] \in Fds /\ owner'[fd_[c]] # owner[fd_[c]]
        BY <3>2 DEF Holds, IInv, TypeOK
      <3>4. fd_[c] = f
        BY <3>2, <3>3, RemovePreserves
      <3> QED  BY <3>2, <3>4
    <2>2. CASE \E w \in Workers : Drop(w)
      BY <2>2, DropClosesOwn DEF Drop
    <2> QED  BY <2>1, <2>2, OthersCloseNothing
  <1>2. [][IInv /\ [Next]_vars => Own]_vars
    BY <1>1, PTL
  <1> QED  BY <1>1, Invariance, PTL DEF Spec, OnlyOwnTaskCloses

-----------------------------------------------------------------------------
(* The order of responses: what appending and cutting keeps in order.      *)

LEMMA TokenNumber ==
    ASSUME NEW s \in Seq(Token)
    PROVE  \A i \in DOMAIN s : s[i][1] \in Conns /\ s[i][2] \in Nat
<1>1. \A i \in DOMAIN s : s[i] \in Token
  OBVIOUS
<1>2. QED
  BY <1>1 DEF Token

\* Two parts put together.
LEMMA OursJoined ==
    ASSUME NEW c, NEW n, NEW s \in Seq(Token), NEW t \in Seq(Token),
           Ours(c, n, s), Ours(c, n, t), Below(s, t)
    PROVE  Ours(c, n, s \o t)
<1> DEFINE u == s \o t
           l == Len(s)
           m == Len(t)
<1>1. /\ l \in Nat /\ m \in Nat /\ DOMAIN s = 1 .. l /\ DOMAIN t = 1 .. m /\ DOMAIN u = 1 .. l + m
      /\ \A i \in 1 .. l : u[i] = s[i]
      /\ \A i \in l + 1 .. l + m : u[i] = t[i - l] /\ i - l \in 1 .. m
  OBVIOUS
<1> HIDE DEF u, l, m
<1>2. \A i \in DOMAIN u : i \in 1 .. l \/ i \in l + 1 .. l + m
  BY <1>1
<1>3. \A i \in DOMAIN u : u[i][1] = c /\ u[i][2] <= n
  BY <1>1, <1>2 DEF Ours
<1>4. ASSUME NEW i \in DOMAIN u, NEW j \in DOMAIN u, i < j PROVE u[i][2] < u[j][2]
  <2>1. CASE i \in 1 .. l /\ j \in 1 .. l
    BY <1>1, <1>4, <2>1 DEF Ours
  <2>2. CASE i \in 1 .. l /\ j \in l + 1 .. l + m
    BY <1>1, <2>2 DEF Below
  <2>3. CASE i \in l + 1 .. l + m /\ j \in l + 1 .. l + m
    <3>1. i - l < j - l /\ i - l \in DOMAIN t /\ j - l \in DOMAIN t
      BY <1>1, <1>4, <2>3
    <3>2. QED
      BY <1>1, <2>3, <3>1 DEF Ours
  <2>4. QED
    BY <1>1, <1>2, <1>4, <2>1, <2>2, <2>3
<1>5. QED
  BY <1>3, <1>4 DEF Ours, u

LEMMA BelowJoined ==
    ASSUME NEW s \in Seq(Token), NEW t \in Seq(Token), NEW v \in Seq(Token)
    PROVE  /\ Below(s, v) /\ Below(t, v) => Below(s \o t, v)
           /\ Below(v, s) /\ Below(v, t) => Below(v, s \o t)
<1> DEFINE u == s \o t
           l == Len(s)
           m == Len(t)
<1>1. /\ l \in Nat /\ m \in Nat /\ DOMAIN s = 1 .. l /\ DOMAIN t = 1 .. m /\ DOMAIN u = 1 .. l + m
      /\ \A i \in 1 .. l : u[i] = s[i]
      /\ \A i \in l + 1 .. l + m : u[i] = t[i - l] /\ i - l \in 1 .. m
  OBVIOUS
<1> HIDE DEF u, l, m
<1>2. \A i \in DOMAIN u : i \in 1 .. l \/ i \in l + 1 .. l + m
  BY <1>1
<1>3. \A i \in DOMAIN u : (i \in DOMAIN s /\ u[i] = s[i]) \/ (i - l \in DOMAIN t /\ u[i] = t[i - l])
  BY <1>1, <1>2
<1>4. QED
  BY <1>3 DEF Below, u

LEMMA OursEmpty ==
    ASSUME NEW c, NEW n, NEW s
    PROVE  Ours(c, n, <<>>) /\ Below(<<>>, s) /\ Below(s, <<>>)
  BY DEF Ours, Below

\* A part without its first, or its first ones.
LEMMA OursSuffix ==
    ASSUME NEW c, NEW n, NEW s \in Seq(Token), NEW k \in 0 .. Len(s)
    PROVE  LET t == SubSeq(s, k + 1, Len(s))
           IN  /\ t \in Seq(Token) /\ DOMAIN t = 1 .. Len(s) - k
               /\ \A i \in 1 .. Len(s) - k : t[i] = s[k + i] /\ k + i \in DOMAIN s
               /\ Ours(c, n, s) => Ours(c, n, t)
               /\ \A v : (Below(s, v) => Below(t, v)) /\ (Below(v, s) => Below(v, t))
<1> DEFINE t == SubSeq(s, k + 1, Len(s))
           m == Len(s)
<1>1. /\ m \in Nat /\ k \in Nat /\ k <= m /\ DOMAIN s = 1 .. m
      /\ t \in Seq(Token) /\ DOMAIN t = 1 .. m - k
      /\ \A i \in 1 .. m - k : t[i] = s[k + i] /\ k + i \in 1 .. m
  OBVIOUS
<1> HIDE DEF t, m
<1>2. \A i \in DOMAIN t : k + i \in DOMAIN s /\ t[i] = s[k + i] /\ i \in Nat
  BY <1>1
<1>3. ASSUME Ours(c, n, s) PROVE Ours(c, n, t)
  <2>1. \A i, j \in DOMAIN t : i < j => k + i < k + j
    BY <1>1
  <2>2. QED
    BY <1>2, <1>3, <2>1 DEF Ours
<1>4. \A v : (Below(s, v) => Below(t, v)) /\ (Below(v, s) => Below(v, t))
  BY <1>2 DEF Below
<1>5. QED
  BY <1>1, <1>3, <1>4 DEF t, m

LEMMA OursPrefix ==
    ASSUME NEW c, NEW n, NEW s \in Seq(Token), NEW k \in 0 .. Len(s)
    PROVE  LET t == SubSeq(s, 1, k)
           IN  /\ t \in Seq(Token) /\ DOMAIN t = 1 .. k
               /\ \A i \in 1 .. k : t[i] = s[i] /\ i \in DOMAIN s
               /\ Ours(c, n, s) => Ours(c, n, t)
               /\ \A v : (Below(s, v) => Below(t, v)) /\ (Below(v, s) => Below(v, t))
<1> DEFINE t == SubSeq(s, 1, k)
<1>1. /\ k \in Nat /\ k <= Len(s) /\ DOMAIN s = 1 .. Len(s) /\ Len(s) \in Nat
      /\ t \in Seq(Token) /\ DOMAIN t = 1 .. k
      /\ \A i \in 1 .. k : t[i] = s[i] /\ i \in DOMAIN s
  OBVIOUS
<1> HIDE DEF t
<1>2. Ours(c, n, s) => Ours(c, n, t)
  BY <1>1 DEF Ours
<1>3. \A v : (Below(s, v) => Below(t, v)) /\ (Below(v, s) => Below(v, t))
  BY <1>1 DEF Below
<1>4. QED
  BY <1>1, <1>2, <1>3 DEF t

-----------------------------------------------------------------------------
(* The steps on the parts of a connection.                                 *)

LEMMA OneToken ==
    ASSUME NEW t \in Token
    PROVE  <<t>> \in Seq(Token) /\ DOMAIN <<t>> = 1 .. 1 /\ <<t>>[1] = t
  OBVIOUS

\* A request is sent.
LEMMA OrderlyRequest ==
    ASSUME NEW c \in Conns, NEW n \in Nat, NEW W \in Seq(Token), NEW S \in Seq(Token), NEW P,
           NEW R \in Seq(Token), NEW U \in Seq(Token), Orderly(c, n, W, S, P, R, U)
    PROVE  Orderly(c, n + 1, W, S, P, R, Append(U, <<c, n + 1>>))
<1> DEFINE t == <<c, n + 1>>
           T == <<t>>
<1>1. t \in Token /\ t[1] = c /\ t[2] = n + 1
  BY DEF Token
<1> HIDE DEF t
<1>2. T \in Seq(Token) /\ DOMAIN T = 1 .. 1 /\ T[1] = t
  BY <1>1, OneToken
<1>3. Append(U, t) = U \o T
  BY <1>1
<1> HIDE DEF T
<1>4. \A i \in DOMAIN T : i = 1
  BY <1>2
<1>5. ASSUME NEW s \in Seq(Token), Ours(c, n, s) PROVE Ours(c, n + 1, s) /\ Below(s, T)
  <2>1. \A i \in DOMAIN s : s[i][1] = c /\ s[i][2] <= n /\ s[i][2] \in Nat
    BY <1>5, TokenNumber DEF Ours
  <2>2. \A i \in DOMAIN s : s[i][1] = c /\ s[i][2] <= n + 1 /\ s[i][2] < n + 1
    BY <2>1
  <2>3. \A i \in DOMAIN s, j \in DOMAIN T : s[i][2] < T[j][2]
    BY <1>1, <1>2, <1>4, <2>2
  <2>4. QED
    BY <1>5, <2>2, <2>3 DEF Ours, Below
<1>6. Ours(c, n + 1, T)
  <2>1. \A i, j \in DOMAIN T : ~ (i < j)
    BY <1>4
  <2>2. QED
    BY <1>1, <1>2, <1>4, <2>1 DEF Ours
<1>7. /\ Ours(c, n, W) /\ Ours(c, n, S) /\ Ours(c, n, R) /\ Ours(c, n, U)
      /\ Below(W, U) /\ Below(S, U) /\ Below(R, U)
  BY DEF Orderly
<1>8. /\ Ours(c, n + 1, W) /\ Ours(c, n + 1, S) /\ Ours(c, n + 1, R) /\ Ours(c, n + 1, U)
      /\ Below(W, T) /\ Below(S, T) /\ Below(R, T) /\ Below(U, T)
  BY <1>5, <1>7
<1>9. Ours(c, n + 1, U \o T)
  BY <1>2, <1>6, <1>8, OursJoined
<1>10. Below(W, U \o T) /\ Below(S, U \o T) /\ Below(R, U \o T)
  BY <1>2, <1>7, <1>8, BelowJoined
<1>11. QED
  BY <1>3, <1>8, <1>9, <1>10 DEF Orderly, t

\* The socket is read out.
LEMMA OrderlyRead ==
    ASSUME NEW c, NEW n, NEW W \in Seq(Token), NEW S \in Seq(Token), NEW P,
           NEW R \in Seq(Token), NEW U \in Seq(Token), Orderly(c, n, W, S, P, R, U)
    PROVE  Orderly(c, n, W, S, P, R \o U, <<>>)
<1>1. Ours(c, n, R \o U) /\ Below(W, R \o U) /\ Below(S, R \o U)
  BY OursJoined, BelowJoined DEF Orderly
<1>2. QED
  BY <1>1, OursEmpty DEF Orderly

\* The first request read is answered; the others stay or are thrown away.
LEMMA OrderlyAnswer ==
    ASSUME NEW c, NEW n, NEW W \in Seq(Token), NEW S \in Seq(Token), NEW P,
           NEW R \in Seq(Token), NEW U \in Seq(Token), R # <<>>, Orderly(c, n, W, S, P, R, U),
           NEW Q, Q \subseteq P \cup {Len(S) + 1}, P \subseteq DOMAIN S
    PROVE  /\ Orderly(c, n, W, Append(S, Head(R)), Q, Tail(R), U)
           /\ Orderly(c, n, W, Append(S, Head(R)), Q, <<>>, U)
<1> DEFINE t == Head(R)
           T == <<t>>
           rest == SubSeq(R, 2, Len(R))
           l == Len(S)
<1>1. /\ t \in Token /\ t = R[1] /\ 1 \in DOMAIN R /\ Tail(R) = rest /\ 1 \in 0 .. Len(R)
      /\ Len(R) \in Nat
  OBVIOUS
<1>2. /\ rest \in Seq(Token) /\ DOMAIN rest = 1 .. Len(R) - 1
      /\ \A i \in 1 .. Len(R) - 1 : rest[i] = R[1 + i] /\ 1 + i \in DOMAIN R
      /\ Ours(c, n, R) => Ours(c, n, rest)
      /\ \A v : (Below(R, v) => Below(rest, v)) /\ (Below(v, R) => Below(v, rest))
  <2>1. 1 + 1 = 2
    OBVIOUS
  <2>2. QED
    BY <1>1, <2>1, OursSuffix
<1> HIDE DEF t, rest
<1>3. T \in Seq(Token) /\ DOMAIN T = 1 .. 1 /\ T[1] = t
  BY <1>1, OneToken
<1>4. Append(S, t) = S \o T
  BY <1>1
<1> HIDE DEF T
<1>5. \A i \in DOMAIN T : i = 1
  BY <1>3
<1>6. /\ Ours(c, n, W) /\ Ours(c, n, S) /\ Ours(c, n, R) /\ Ours(c, n, U)
      /\ Below(W, R) /\ Below(W, U) /\ Below(S, R) /\ Below(S, U) /\ Below(R, U)
      /\ \A i \in DOMAIN W, j \in P : W[i][2] < S[j][2]
  BY DEF Orderly
<1>7. Ours(c, n, T)
  <2>1. \A i, j \in DOMAIN T : ~ (i < j)
    BY <1>5
  <2>2. QED
    BY <1>1, <1>3, <1>5, <1>6, <2>1 DEF Ours
<1>8. Below(W, T) /\ Below(S, T) /\ Below(T, U)
  BY <1>1, <1>3, <1>5, <1>6 DEF Below
<1>9. Below(T, rest)
  <2>1. \A j \in DOMAIN rest : R[1][2] < rest[j][2]
    <3>1. ASSUME NEW j \in 1 .. Len(R) - 1 PROVE R[1][2] < rest[j][2]
      <4>1. 1 < 1 + j /\ 1 + j \in DOMAIN R /\ rest[j] = R[1 + j]
        BY <1>1, <1>2
      <4>2. QED
        BY <1>1, <1>6, <4>1 DEF Ours
    <3>2. QED
      BY <1>2, <3>1
  <2>2. QED
    BY <1>1, <1>3, <1>5, <2>1 DEF Below
<1>10. Ours(c, n, S \o T) /\ Below(S \o T, rest) /\ Below(S \o T, U)
  BY <1>2, <1>3, <1>6, <1>7, <1>8, <1>9, OursJoined, BelowJoined
<1>11. \A i \in DOMAIN W, j \in Q : W[i][2] < (S \o T)[j][2]
  <2>1. l \in Nat /\ DOMAIN S = 1 .. l
    OBVIOUS
  <2>2. (\A j \in 1 .. l : (S \o T)[j] = S[j]) /\ (S \o T)[l + 1] = t
    BY <1>1, <1>4, <2>1
  <2>3. ASSUME NEW i \in DOMAIN W, NEW j \in Q PROVE W[i][2] < (S \o T)[j][2]
    <3>1. CASE j \in P
      BY <1>6, <2>1, <2>2, <3>1
    <3>2. CASE j = l + 1
      <4>1. 1 \in DOMAIN T /\ T[1] = t
        BY <1>3
      <4>2. W[i][2] < t[2]
        BY <1>8, <4>1 DEF Below
      <4>3. QED
        BY <2>2, <3>2, <4>2
    <3>3. QED
      BY <3>1, <3>2
  <2>4. QED
    BY <2>3
<1>12. Orderly(c, n, W, S \o T, Q, rest, U)
  BY <1>2, <1>6, <1>10, <1>11 DEF Orderly
<1>13. Orderly(c, n, W, S \o T, Q, <<>>, U)
  BY <1>6, <1>10, <1>11, OursEmpty DEF Orderly
<1>14. QED
  BY <1>1, <1>4, <1>12, <1>13 DEF t

\* The first k responses are written; the others are pending.
LEMMA OrderlyWrite ==
    ASSUME NEW c, NEW n, NEW W \in Seq(Token), NEW S \in Seq(Token),
           NEW R \in Seq(Token), NEW U \in Seq(Token), Orderly(c, n, W, S, DOMAIN S, R, U),
           NEW k \in 0 .. Len(S)
    PROVE  Orderly(c, n, W \o SubSeq(S, 1, k), S, {j \in DOMAIN S : j > k}, R, U)
<1> DEFINE V == SubSeq(S, 1, k)
           P == {j \in DOMAIN S : j > k}
<1>1. /\ Ours(c, n, W) /\ Ours(c, n, S) /\ Ours(c, n, R) /\ Ours(c, n, U)
      /\ Below(W, S) /\ Below(W, R) /\ Below(W, U) /\ Below(S, R) /\ Below(S, U) /\ Below(R, U)
  BY DEF Orderly, Below
<1>2. /\ V \in Seq(Token) /\ DOMAIN V = 1 .. k
      /\ \A i \in 1 .. k : V[i] = S[i] /\ i \in DOMAIN S
      /\ Ours(c, n, V) /\ Below(V, R) /\ Below(V, U) /\ Below(W, V)
  BY <1>1, OursPrefix
<1> HIDE DEF V
<1>3. Ours(c, n, W \o V) /\ Below(W \o V, R) /\ Below(W \o V, U)
  BY <1>1, <1>2, OursJoined, BelowJoined
<1>4. \A i \in DOMAIN (W \o V), j \in P : (W \o V)[i][2] < S[j][2]
  <2> DEFINE l == Len(W)
             X == W \o V
  <2>1. /\ l \in Nat /\ DOMAIN W = 1 .. l /\ DOMAIN X = 1 .. l + k /\ k \in Nat
        /\ \A i \in 1 .. l : X[i] = W[i]
        /\ \A i \in l + 1 .. l + k : X[i] = V[i - l] /\ i - l \in 1 .. k
    <3>1. V \in Seq(Token) /\ Len(V) = k /\ k \in Nat
      BY <1>2
    <3> DEFINE m == Len(V)
    <3>2. /\ l \in Nat /\ m \in Nat /\ DOMAIN W = 1 .. l /\ DOMAIN X = 1 .. l + m
          /\ \A i \in 1 .. l : X[i] = W[i]
          /\ \A i \in l + 1 .. l + m : X[i] = V[i - l] /\ i - l \in 1 .. m
      BY <1>2
    <3>3. QED
      BY <3>1, <3>2
  <2> HIDE DEF X, l
  <2>2. ASSUME NEW i \in DOMAIN X, NEW j \in P PROVE X[i][2] < S[j][2]
    <3>1. CASE i \in 1 .. l
      BY <1>1, <2>1, <3>1 DEF Below
    <3>2. CASE i \in l + 1 .. l + k
      <4>1. X[i] = S[i - l] /\ i - l \in DOMAIN S /\ i - l < j
        BY <1>2, <2>1, <3>2
      <4>2. QED
        BY <1>1, <4>1 DEF Ours
    <3>3. i \in 1 .. l \/ i \in l + 1 .. l + k
      BY <2>1
    <3>4. QED
      BY <3>1, <3>2, <3>3
  <2>3. QED
    BY <2>2 DEF X
<1>5. QED
  BY <1>1, <1>3, <1>4 DEF Orderly, V

\* What was written leaves the buffer.
LEMMA OrderlyErase ==
    ASSUME NEW c, NEW n, NEW W \in Seq(Token), NEW S \in Seq(Token), NEW P,
           NEW R \in Seq(Token), NEW U \in Seq(Token), Orderly(c, n, W, S, P, R, U),
           NEW k \in 0 .. Len(S), {j \in DOMAIN S : j > k} \subseteq P
    PROVE  LET rest == SubSeq(S, k + 1, Len(S))
           IN  Orderly(c, n, W, rest, DOMAIN rest, R, U)
<1> DEFINE rest == SubSeq(S, k + 1, Len(S))
<1>1. /\ Ours(c, n, W) /\ Ours(c, n, S) /\ Ours(c, n, R) /\ Ours(c, n, U)
      /\ Below(W, R) /\ Below(W, U) /\ Below(S, R) /\ Below(S, U) /\ Below(R, U)
      /\ \A i \in DOMAIN W, j \in P : W[i][2] < S[j][2]
  BY DEF Orderly
<1>2. /\ rest \in Seq(Token) /\ DOMAIN rest = 1 .. Len(S) - k
      /\ \A i \in 1 .. Len(S) - k : rest[i] = S[k + i] /\ k + i \in DOMAIN S
      /\ Ours(c, n, rest) /\ Below(rest, R) /\ Below(rest, U)
  BY <1>1, OursSuffix
<1>3. Len(S) \in Nat /\ k \in Nat
  OBVIOUS
<1> HIDE DEF rest
<1>4. \A i \in 1 .. Len(S) - k : k + i \in P
  BY <1>2, <1>3
<1>5. \A i \in DOMAIN W, j \in DOMAIN rest : W[i][2] < rest[j][2]
  BY <1>1, <1>2, <1>4
<1>6. QED
  BY <1>1, <1>2, <1>5 DEF Orderly, rest

-----------------------------------------------------------------------------
(* The order of responses, step by step.                                   *)

\* A connection keeps the number it was given.
LEMMA NumbersStay ==
    ASSUME IInv, NumberedWhenAccepted, [Next]_vars
    PROVE  NumberedWhenAccepted' /\ \A c \in Conns : fd_[c] # 0 => fd_'[c] = fd_[c]
<1>1. client \in [Conns -> {"new", "backlog", "accepted"}] /\ fd_ \in [Conns -> Fds \cup {0}]
  BY DEF IInv, TypeOK
<1>2. CASE UNCHANGED <<client, fd_>>
  BY <1>2 DEF NumberedWhenAccepted
<1>3. ASSUME NEW c \in Conns, Accept(c)
      PROVE  NumberedWhenAccepted' /\ \A d \in Conns : fd_[d] # 0 => fd_'[d] = fd_[d]
  <2>1. PICK f \in FreeFds : client' = [client EXCEPT ![c] = "accepted"]
                             /\ fd_' = [fd_ EXCEPT ![c] = f]
    BY <1>3 DEF Accept
  <2>2. client[c] = "backlog" /\ fd_[c] = 0
    BY <1>3 DEF Accept, Waiting, NumberedWhenAccepted
  <2>3. QED
    BY <1>1, <2>1, <2>2 DEF NumberedWhenAccepted
<1>4. ASSUME NEW c \in Conns, ClientStep(c)
      PROVE  NumberedWhenAccepted' /\ \A d \in Conns : fd_[d] # 0 => fd_'[d] = fd_[d]
  <2>1. fd_' = fd_
    BY <1>4 DEF ClientStep, connVars
  <2>2. \A d \in Conns : client'[d] # "accepted" => client[d] # "accepted"
    BY <1>1, <1>4 DEF ClientStep, Connect, Request, ReadResponses, ShutDown, Abort, Refuse
  <2>3. QED
    BY <2>1, <2>2 DEF NumberedWhenAccepted
<1>5. CASE LoopStep /\ ~ \E c \in Conns : Accept(c)
  BY <1>2, <1>5 DEF LoopStep, EpollWait, Expire, Lookup, Submit, AcceptFails, kernelVars, connVars
<1>6. ASSUME NEW w \in Workers, WorkerStep(w) PROVE UNCHANGED <<client, fd_>>
  <2>1. CASE Take(w) \/ Drop(w) \/ LockRead(w) \/ LockWrite(w) \/ Gate(w) \/ Check(w) \/ Modify(w)
    BY <2>1 DEF Take, Drop, LockRead, LockWrite, Gate, Check, Modify, kernelVars, connVars
  <2>2. CASE Read(w) \/ Answer(w) \/ Throw(w) \/ Write(w) \/ Erase(w)
    BY <2>2 DEF Read, Answer, Throw, Write, Erase, kernelVars, connVars
  <2>3. QED
    BY <1>6, <2>1, <2>2 DEF WorkerStep
<1>7. CASE UNCHANGED vars
  BY <1>2, <1>7 DEF vars, kernelVars, connVars
<1>8. QED
  BY <1>2, <1>3, <1>4, <1>5, <1>6, <1>7 DEF Next

LEMMA OwnNumberStays ==
    ASSUME fd_ \in [Conns -> Fds \cup {0}],
           \A d \in Conns : fd_[d] # 0 => fd_'[d] = fd_[d],
           NEW c \in Conns, OwnNumber(c)'
    PROVE  OwnNumber(c)
  BY DEF OwnNumber

\* Nobody enters handleWrite for a connection another worker is writing to.
LEMMA StepOneWriter == ASSUME IInv, OneWriter, [Next]_vars PROVE OneWriter'
<1>1. pc \in [Workers -> Pcs] /\ work \in [Workers -> Task]
  BY DEF IInv, TypeOK
<1>2. CASE \A v \in Workers : pc'[v] \in WritePcs => pc[v] \in WritePcs /\ work'[v] = work[v]
  BY <1>2 DEF OneWriter
<1>3. CASE UNCHANGED workerVars
  BY <1>2, <1>3 DEF workerVars
<1>4. ASSUME NEW w \in Workers, WorkerStep(w) PROVE OneWriter'
  <2>1. ASSUME NEW label, Goto(w, label), label \in WritePcs => pc[w] \in WritePcs
        PROVE  OneWriter'
    <3>1. "idle" \notin WritePcs
      BY DEF WritePcs
    <3>2. \A v \in Workers : pc'[v] \in WritePcs => pc[v] \in WritePcs /\ work'[v] = work[v]
      BY <1>1, <2>1, <3>1 DEF Goto
    <3>3. QED
      BY <1>2, <3>2
  <2>2. CASE Take(w)
    <3>1. /\ work' = [work EXCEPT ![w] = Head(task_queue)]
          /\ pc' = [pc EXCEPT ![w] = pc'[w]] /\ pc'[w] \in {"errorDrop", "readLock", "gate"}
      BY <1>1, <2>2 DEF Take
    <3>2. QED
      BY <1>1, <1>2, <3>1 DEF WritePcs
  <2>3. CASE Drop(w) \/ LockRead(w) \/ Gate(w)
    BY <2>1, <2>3 DEF Drop, LockRead, Gate, WritePcs
  <2>4. CASE LockWrite(w)
    <3>1. /\ pc' = [pc EXCEPT ![w] = "write"] /\ work' = work
          /\ \A v \in Workers : pc[v] \in WritePcs => work[v].conn # work[w].conn
      BY <2>4 DEF LockWrite, Goto, WriteHeld
    <3>2. QED
      BY <1>1, <3>1 DEF OneWriter
  <2>5. CASE Read(w)
    BY <1>3, <2>1, <2>5 DEF Read, AfterRead, WritePcs, workerVars
  <2>6. CASE Answer(w)
    BY <2>1, <2>6 DEF Answer, WritePcs
  <2>7. CASE Check(w)
    BY <2>1, <2>7 DEF Check, AfterUpdate, WritePcs
  <2>8. CASE Modify(w)
    BY <2>1, <2>8 DEF Modify, AfterUpdate, WritePcs
  <2>9. CASE Write(w)
    <3>1. pc[w] \in WritePcs /\ (UNCHANGED <<pc, work>> \/ \E label : Goto(w, label))
      BY <2>9 DEF Write, WritePcs
    <3>2. QED
      BY <1>2, <2>1, <3>1
  <2>10. CASE Erase(w)
    BY <2>1, <2>10 DEF Erase, WritePcs
  <2>11. CASE Throw(w)
    BY <1>3, <2>11 DEF Throw, workerVars
  <2>12. QED
    BY <1>4, <2>2, <2>3, <2>4, <2>5, <2>6, <2>7, <2>8, <2>9, <2>10, <2>11 DEF WorkerStep
<1>5. CASE LoopStep
  BY <1>3, <1>5 DEF LoopStep, EpollWait, Expire, Lookup, Submit, Accept, AcceptFails
<1>6. CASE \E c \in Conns : ClientStep(c)
  BY <1>3, <1>6 DEF ClientStep
<1>7. CASE UNCHANGED vars
  BY <1>3, <1>7 DEF vars
<1>8. QED
  BY <1>4, <1>5, <1>6, <1>7 DEF Next

\* What is pending depends on the workers that have written and not erased.
LEMMA PendingSame ==
    ASSUME NEW c \in Conns, send_buf[c] \in Seq(Token), send_buf'[c] = send_buf[c],
           \A w \in Workers :
               \/ work'[w].conn = work[w].conn /\ wrote'[w] = wrote[w]
               \/ (work[w].conn # c \/ wrote[w] = 0) /\ (work'[w].conn # c \/ wrote'[w] = 0)
    PROVE  Pending(c)' = Pending(c)
<1>1. \A j \in DOMAIN send_buf[c] : j > 0
  OBVIOUS
<1>2. \A j \in DOMAIN send_buf[c], w \in Workers :
         (work'[w].conn = c => j > wrote'[w]) <=> (work[w].conn = c => j > wrote[w])
  BY <1>1
<1>3. Pending(c) = {j \in DOMAIN send_buf[c] : \A w \in Workers : work[w].conn = c => j > wrote[w]}
  BY DEF Pending
<1>4. Pending(c)' = {j \in DOMAIN send_buf'[c] : \A w \in Workers : work'[w].conn = c => j > wrote'[w]}
  BY DEF Pending
<1>5. QED
  BY <1>2, <1>3, <1>4

Ordered(c) == Orderly(c, sentReqs[c], wire[c], send_buf[c], Pending(c), recv_buf[c], unread[c])

\* Steps that move no token.
Quiet ==
    /\ UNCHANGED <<sentReqs, wire, send_buf, recv_buf, unread, wrote>>
    /\ \A w \in Workers : pc'[w] = "erase" <=> pc[w] = "erase"
    /\ \A w \in Workers : pc[w] = "erase" => work'[w] = work[w]

LEMMA QuietKeeps ==
    ASSUME OrderInv, Quiet, NumberedWhenAccepted', \A c \in Conns : fd_[c] # 0 => fd_'[c] = fd_[c]
    PROVE  WroteBeforeErase' /\ \A c \in Conns : OwnNumber(c)' => Ordered(c)'
<1>1. WroteBeforeErase'
  BY DEF OrderInv, WroteBeforeErase, Quiet
<1>2. ASSUME NEW c \in Conns, OwnNumber(c)' PROVE Ordered(c)'
  <2>1. send_buf[c] \in Seq(Token) /\ fd_ \in [Conns -> Fds \cup {0}]
    BY DEF OrderInv, IInv, TypeOK
  <2>2. Ordered(c)
    BY <1>2, <2>1, OwnNumberStays DEF OrderInv, Ordered
  <2>3. \A w \in Workers : wrote[w] # 0 => work'[w] = work[w]
    BY DEF OrderInv, WroteBeforeErase, Quiet
  <2>4. Pending(c)' = Pending(c)
    BY <2>1, <2>3, PendingSame DEF Quiet
  <2>5. QED
    BY <2>2, <2>4 DEF Quiet, Ordered
<1>3. QED
  BY <1>1, <1>2

Kept == WroteBeforeErase' /\ \A c \in Conns : OwnNumber(c)' => Ordered(c)'

\* A worker goes on without writing or erasing.
LEMMA GotoIsQuiet ==
    ASSUME TypeOK, NEW w \in Workers, NEW label, Goto(w, label), label # "erase", pc[w] # "erase"
    PROVE  /\ \A v \in Workers : pc'[v] = "erase" <=> pc[v] = "erase"
           /\ \A v \in Workers : pc[v] = "erase" => work'[v] = work[v]
  BY DEF TypeOK, Goto

LEMMA WorkerIsQuiet ==
    ASSUME TypeOK, NEW w \in Workers,
           Take(w) \/ Drop(w) \/ LockRead(w) \/ LockWrite(w) \/ Gate(w) \/ Check(w) \/ Modify(w)
           \/ Throw(w)
    PROVE  Quiet
<1>1. CASE Take(w)
  <2>1. /\ work' = [work EXCEPT ![w] = Head(task_queue)]
        /\ pc' = [pc EXCEPT ![w] = pc'[w]] /\ pc'[w] \in {"errorDrop", "readLock", "gate"}
        /\ pc[w] = "idle"
    BY <1>1 DEF Take, TypeOK
  <2>2. /\ \A v \in Workers : pc'[v] = "erase" <=> pc[v] = "erase"
        /\ \A v \in Workers : pc[v] = "erase" => work'[v] = work[v]
    BY <2>1 DEF TypeOK
  <2>3. QED
    BY <1>1, <2>2 DEF Take, Quiet, kernelVars, connVars
<1>2. ASSUME NEW label, Goto(w, label), label # "erase", pc[w] # "erase",
             UNCHANGED <<sentReqs, wire, send_buf, recv_buf, unread, wrote>>
      PROVE  Quiet
  BY <1>2, GotoIsQuiet DEF Quiet
<1>3. CASE Drop(w) \/ LockRead(w) \/ LockWrite(w) \/ Gate(w)
  BY <1>2, <1>3 DEF Drop, LockRead, LockWrite, Gate, kernelVars, connVars
<1>4. CASE Check(w) \/ Modify(w)
  BY <1>2, <1>4 DEF Check, Modify, AfterUpdate, kernelVars, connVars
<1>5. CASE Throw(w)
  BY <1>5 DEF Throw, Quiet, connVars, workerVars
<1>6. QED
  BY <1>1, <1>3, <1>4, <1>5

LEMMA LoopIsQuiet == ASSUME LoopStep \/ UNCHANGED vars PROVE Quiet
<1>1. UNCHANGED <<workerVars, sentReqs, wire, send_buf, recv_buf, unread>>
  BY DEF LoopStep, EpollWait, Expire, Lookup, Submit, Accept, AcceptFails, vars, kernelVars, connVars
<1>2. QED
  BY <1>1 DEF Quiet, workerVars

LEMMA RequestOrder == ASSUME OrderInv, NEW c \in Conns, Request(c),
                             UNCHANGED <<loopVars, connVars, workerVars>>
                      PROVE  Kept
<1>1. /\ sentReqs' = [sentReqs EXCEPT ![c] = sentReqs[c] + 1]
      /\ unread' = [unread EXCEPT ![c] = Append(unread[c], <<c, sentReqs[c] + 1>>)]
      /\ UNCHANGED <<wire, send_buf, recv_buf, fd_, pc, work, wrote>>
  BY DEF Request, connVars, workerVars
<1>2. /\ sentReqs \in [Conns -> Nat] /\ unread \in [Conns -> Seq(Token)]
      /\ \A d \in Conns : /\ wire[d] \in Seq(Token) /\ send_buf[d] \in Seq(Token)
                          /\ recv_buf[d] \in Seq(Token) /\ unread[d] \in Seq(Token)
  BY DEF OrderInv, IInv, TypeOK
<1>3. WroteBeforeErase'
  BY <1>1 DEF OrderInv, WroteBeforeErase
<1>4. ASSUME NEW d \in Conns, OwnNumber(d)' PROVE Ordered(d)'
  <2>1. Ordered(d)
    BY <1>1, <1>4 DEF OrderInv, Ordered, OwnNumber
  <2>2. Pending(d)' = Pending(d)
    BY <1>1, <1>2, PendingSame
  <2>3. CASE d = c
    <3>1. Orderly(c, sentReqs[c] + 1, wire[c], send_buf[c], Pending(c), recv_buf[c],
                  Append(unread[c], <<c, sentReqs[c] + 1>>))
      BY <1>2, <2>1, <2>3, OrderlyRequest DEF Ordered
    <3>2. QED
      BY <1>1, <1>2, <2>2, <2>3, <3>1 DEF Ordered
  <2>4. CASE d # c
    BY <1>1, <1>2, <2>1, <2>2, <2>4 DEF Ordered
  <2>5. QED
    BY <2>3, <2>4
<1>5. QED
  BY <1>3, <1>4 DEF Kept

\* A connection whose number is its own is read and written by its own tasks.
LEMMA OwnSocket ==
    ASSUME IInv, NEW w \in Workers, pc[w] # "idle", owner[Fd(w)] # None, NEW c \in Conns, OwnNumber(c),
           c = owner[Fd(w)] \/ c = work[w].conn
    PROVE  c = owner[Fd(w)] /\ c = work[w].conn
<1> DEFINE d == work[w].conn
           o == owner[Fd(w)]
<1>1. d \in Conns /\ Fd(w) \in Fds /\ Fd(w) = fd_[d] /\ o \in Conns
  BY Serving DEF IInv, TypeOK, Fd
<1>2. fd_[o] = Fd(w) /\ Fd(w) # 0
  BY <1>1, FdsAssumption DEF IInv, TableOwnsSockets
<1>3. QED
  BY <1>1, <1>2 DEF OwnNumber

LEMMA ReadOrder == ASSUME OrderInv, NEW w \in Workers, Read(w),
                          NumberedWhenAccepted', \A c \in Conns : fd_[c] # 0 => fd_'[c] = fd_[c]
                   PROVE  Kept
<1> DEFINE c == work[w].conn
           o == owner[Fd(w)]
<1>1. CASE o # None /\ unread[o] # <<>>
  <2>1. /\ recv_buf' = [recv_buf EXCEPT ![c] = recv_buf[c] \o unread[o]]
        /\ unread' = [unread EXCEPT ![o] = <<>>]
        /\ UNCHANGED <<sentReqs, wire, send_buf, fd_, pc, work, wrote>>
        /\ pc[w] = "read"
    BY <1>1 DEF Read
  <2>2. /\ recv_buf \in [Conns -> Seq(Token)] /\ unread \in [Conns -> Seq(Token)]
        /\ \A d \in Conns : /\ wire[d] \in Seq(Token) /\ send_buf[d] \in Seq(Token)
                            /\ recv_buf[d] \in Seq(Token) /\ unread[d] \in Seq(Token)
        /\ IInv
    BY DEF OrderInv, IInv, TypeOK
  <2>3. WroteBeforeErase'
    BY <2>1 DEF OrderInv, WroteBeforeErase
  <2>4. ASSUME NEW d \in Conns, OwnNumber(d)' PROVE Ordered(d)'
    <3>1. OwnNumber(d) /\ Ordered(d)
      BY <2>1, <2>4 DEF OrderInv, Ordered, OwnNumber
    <3>2. Pending(d)' = Pending(d)
      BY <2>1, <2>2, PendingSame
    <3>3. CASE d = c \/ d = o
      <4>1. d = c /\ d = o
        BY <1>1, <2>1, <2>2, <3>1, <3>3, OwnSocket
      <4>2. Orderly(d, sentReqs[d], wire[d], send_buf[d], Pending(d), recv_buf[d] \o unread[d], <<>>)
        BY <2>2, <3>1, OrderlyRead DEF Ordered
      <4> HIDE DEF c, o
      <4>3. recv_buf'[d] = recv_buf[d] \o unread[d] /\ unread'[d] = <<>>
        BY <2>1, <2>2, <4>1
      <4>4. QED
        BY <2>1, <3>2, <4>2, <4>3 DEF Ordered
    <3>4. CASE d # c /\ d # o
      <4> HIDE DEF c, o
      <4>1. recv_buf'[d] = recv_buf[d] /\ unread'[d] = unread[d]
        BY <2>1, <2>2, <3>4
      <4>2. QED
        BY <2>1, <3>1, <3>2, <4>1 DEF Ordered
    <3>5. QED
      BY <3>3, <3>4
  <2>5. QED
    BY <2>3, <2>4 DEF Kept
<1>2. CASE ~ (o # None /\ unread[o] # <<>>)
  <2>1. Goto(w, AfterRead(o)) /\ UNCHANGED <<sentReqs, wire, send_buf, recv_buf, unread, wrote>>
        /\ pc[w] = "read"
    BY <1>2 DEF Read
  <2>2. Quiet
    BY <2>1, GotoIsQuiet DEF AfterRead, Quiet, OrderInv, IInv
  <2>3. QED
    BY <2>2, QuietKeeps DEF Kept
<1>3. QED
  BY <1>1, <1>2

LEMMA AnswerOrder == ASSUME OrderInv, NEW w \in Workers, Answer(w),
                            NumberedWhenAccepted', \A c \in Conns : fd_[c] # 0 => fd_'[c] = fd_[c]
                     PROVE  Kept
<1> DEFINE c == work[w].conn
<1>1. CASE recv_buf[c] = <<>>
  <2>1. Goto(w, "gate") /\ UNCHANGED <<sentReqs, wire, send_buf, recv_buf, unread, wrote>>
        /\ pc[w] = "parse"
    BY <1>1 DEF Answer, kernelVars
  <2>2. Quiet
    BY <2>1, GotoIsQuiet DEF Quiet, OrderInv, IInv
  <2>3. QED
    BY <2>2, QuietKeeps DEF Kept
<1>2. CASE recv_buf[c] # <<>>
  <2> DEFINE longer == Append(send_buf[c], Head(recv_buf[c]))
  <2>1. /\ send_buf' = [send_buf EXCEPT ![c] = longer]
        /\ \/ recv_buf' = [recv_buf EXCEPT ![c] = <<>>]
           \/ recv_buf' = [recv_buf EXCEPT ![c] = Tail(recv_buf[c])]
        /\ Goto(w, "readCheck") /\ pc[w] = "parse"
        /\ UNCHANGED <<sentReqs, wire, unread, fd_, wrote>>
    BY <1>2 DEF Answer, kernelVars
  <2>2. /\ recv_buf \in [Conns -> Seq(Token)] /\ send_buf \in [Conns -> Seq(Token)]
        /\ \A d \in Conns : /\ wire[d] \in Seq(Token) /\ send_buf[d] \in Seq(Token)
                            /\ recv_buf[d] \in Seq(Token) /\ unread[d] \in Seq(Token)
        /\ IInv /\ TypeOK
    BY DEF OrderInv, IInv, TypeOK
  <2>3. c \in Conns
    BY <2>1, <2>2, Serving
  <2>4. work' = work /\ pc' = [pc EXCEPT ![w] = "readCheck"]
    BY <2>1 DEF Goto
  <2>5. /\ Len(longer) = Len(send_buf[c]) + 1 /\ DOMAIN longer = 1 .. Len(send_buf[c]) + 1
        /\ DOMAIN send_buf[c] = 1 .. Len(send_buf[c]) /\ Len(send_buf[c]) \in Nat
    BY <1>2, <2>2, <2>3
  <2> HIDE DEF longer
  <2>6. \A d \in Conns : Len(send_buf'[d]) \in Nat /\ Len(send_buf[d]) <= Len(send_buf'[d])
    <3>1. \A d \in Conns : Len(send_buf[d]) \in Nat /\ (d # c => send_buf'[d] = send_buf[d])
      BY <2>1, <2>2
    <3>2. send_buf'[c] = longer
      BY <2>1, <2>2, <2>3
    <3>3. QED
      BY <2>5, <3>1, <3>2
  <2>7. WroteBeforeErase'
    <3>1. ASSUME NEW v \in Workers
          PROVE  IF pc'[v] = "erase" THEN wrote'[v] \in 1 .. Len(send_buf'[work'[v].conn])
                                     ELSE wrote'[v] = 0
      <4>1. CASE pc[v] = "erase"
        <5>1. pc'[v] = "erase" /\ work'[v] = work[v] /\ wrote'[v] = wrote[v]
          BY <2>1, <2>2, <2>4, <4>1 DEF TypeOK
        <5>2. work[v].conn \in Conns /\ wrote[v] \in 1 .. Len(send_buf[work[v].conn])
          BY <2>2, <4>1, Serving DEF OrderInv, WroteBeforeErase
        <5>3. QED
          BY <2>6, <5>1, <5>2
      <4>2. CASE pc[v] # "erase"
        BY <2>1, <2>2, <2>4, <4>2 DEF TypeOK, OrderInv, WroteBeforeErase
      <4>3. QED
        BY <4>1, <4>2
    <3>2. QED
      BY <3>1 DEF WroteBeforeErase
  <2>8. ASSUME NEW d \in Conns, OwnNumber(d)' PROVE Ordered(d)'
    <3>1. OwnNumber(d) /\ Ordered(d)
      BY <2>1, <2>8 DEF OrderInv, Ordered, OwnNumber
    <3>2. CASE d = c
      <4> HIDE DEF c
      <4>1. Pending(d) \subseteq DOMAIN send_buf[d]
        BY DEF Pending
      <4>2. Pending(d)' \subseteq Pending(d) \cup {Len(send_buf[d]) + 1}
        <5>1. send_buf'[d] = longer /\ UNCHANGED <<work, wrote>>
          BY <2>1, <2>2, <2>3, <2>4, <3>2
        <5>2. \A j \in DOMAIN longer : j \in DOMAIN send_buf[d] \/ j = Len(send_buf[d]) + 1
          BY <2>5, <3>2
        <5>3. Pending(d)' = {j \in DOMAIN longer : \A v \in Workers : work[v].conn = d => j > wrote[v]}
          BY <5>1 DEF Pending
        <5>4. Pending(d) = {j \in DOMAIN send_buf[d] :
                               \A v \in Workers : work[v].conn = d => j > wrote[v]}
          BY DEF Pending
        <5>5. QED
          BY <5>2, <5>3, <5>4
      <4>2a. recv_buf[d] # <<>>
        BY <1>2, <3>2
      <4>3. /\ Orderly(d, sentReqs[d], wire[d], longer, Pending(d)', Tail(recv_buf[d]), unread[d])
            /\ Orderly(d, sentReqs[d], wire[d], longer, Pending(d)', <<>>, unread[d])
        <5> DEFINE Q == Pending(d)'
        <5>1. Q \subseteq Pending(d) \cup {Len(send_buf[d]) + 1}
          BY <4>2
        <5> HIDE DEF Q
        <5>2. /\ Orderly(d, sentReqs[d], wire[d], longer, Q, Tail(recv_buf[d]), unread[d])
              /\ Orderly(d, sentReqs[d], wire[d], longer, Q, <<>>, unread[d])
          BY <2>2, <2>3, <3>1, <3>2, <4>1, <4>2a, <5>1, OrderlyAnswer DEF Ordered, longer
        <5>3. QED
          BY <5>2 DEF Q
      <4>4. send_buf'[d] = longer /\ recv_buf'[d] \in {<<>>, Tail(recv_buf[d])}
        BY <2>1, <2>2, <2>3, <3>2
      <4>5. QED
        BY <2>1, <3>2, <4>3, <4>4 DEF Ordered
    <3>3. CASE d # c
      <4> HIDE DEF c
      <4>1. recv_buf'[d] = recv_buf[d] /\ send_buf'[d] = send_buf[d]
        BY <2>1, <2>2, <3>3
      <4>2. Pending(d)' = Pending(d)
        BY <2>1, <2>2, <2>4, <4>1, PendingSame
      <4>3. QED
        BY <2>1, <3>1, <4>1, <4>2 DEF Ordered
    <3>4. QED
      BY <3>2, <3>3
  <2>9. QED
    BY <2>7, <2>8 DEF Kept
<1>3. QED
  BY <1>1, <1>2

\* A worker about to write has erased all it wrote, and nobody else is writing.
LEMMA AllPending ==
    ASSUME OrderInv, NEW w \in Workers, pc[w] = "write"
    PROVE  Pending(work[w].conn) = DOMAIN send_buf[work[w].conn]
<1> DEFINE c == work[w].conn
<1>1. send_buf[c] \in Seq(Token)
  BY Serving DEF OrderInv
<1>2. ASSUME NEW v \in Workers, work[v].conn = c PROVE wrote[v] = 0
  <2>1. pc[v] # "erase"
    BY <1>2 DEF OrderInv, OneWriter, WritePcs
  <2>2. QED
    BY <2>1 DEF OrderInv, WroteBeforeErase
<1>3. \A j \in DOMAIN send_buf[c] : j > 0
  BY <1>1
<1> HIDE DEF c
<1>4. Pending(c) = DOMAIN send_buf[c]
  BY <1>2, <1>3 DEF Pending
<1>5. QED
  BY <1>4 DEF c

LEMMA WriteOrder == ASSUME OrderInv, NEW w \in Workers, Write(w),
                           NumberedWhenAccepted', \A c \in Conns : fd_[c] # 0 => fd_'[c] = fd_[c]
                    PROVE  Kept
<1> DEFINE c == work[w].conn
           o == owner[Fd(w)]
           n == IF Room(o) < Len(send_buf[c]) THEN Room(o) ELSE Len(send_buf[c])
           taken == SubSeq(send_buf[c], 1, n)
           Taking == /\ send_buf[c] # <<>> /\ o # None /\ Room(o) > 0
                     /\ wire' = [wire EXCEPT ![o] = wire[o] \o taken]
                     /\ wrote' = [wrote EXCEPT ![w] = n]
                     /\ Goto(w, "erase")
<1>1. CASE ~ Taking
  <2>1. UNCHANGED <<sentReqs, wire, send_buf, recv_buf, unread, wrote>> /\ pc[w] = "write"
        /\ (UNCHANGED <<pc, work>> \/ \E label : label # "erase" /\ Goto(w, label))
    BY <1>1 DEF Write, connVars
  <2>2. Quiet
    <3>1. TypeOK
      BY DEF OrderInv, IInv
    <3>2. CASE UNCHANGED <<pc, work>>
      BY <2>1, <3>2 DEF Quiet
    <3>3. CASE \E label : label # "erase" /\ Goto(w, label)
      <4>1. pc[w] # "erase"
        BY <2>1
      <4>2. PICK label : label # "erase" /\ Goto(w, label)
        BY <3>3
      <4>3. QED
        BY <2>1, <3>1, <4>1, <4>2, GotoIsQuiet DEF Quiet
    <3>4. QED
      BY <2>1, <3>2, <3>3
  <2>3. QED
    BY <2>2, QuietKeeps DEF Kept
<1>2. CASE Taking
  <2>1. /\ UNCHANGED <<sentReqs, send_buf, recv_buf, unread, fd_>>
        /\ pc[w] = "write" /\ work' = work /\ pc' = [pc EXCEPT ![w] = "erase"]
        /\ wire' = [wire EXCEPT ![o] = wire[o] \o taken]
        /\ wrote' = [wrote EXCEPT ![w] = n]
        /\ o # None
    BY <1>2 DEF Write, connVars, Goto
  <2>2. /\ wire \in [Conns -> Seq(Token)] /\ wrote \in [Workers -> Nat]
        /\ pc \in [Workers -> Pcs]
        /\ \A d \in Conns : /\ wire[d] \in Seq(Token) /\ send_buf[d] \in Seq(Token)
                            /\ recv_buf[d] \in Seq(Token) /\ unread[d] \in Seq(Token)
                            /\ clientRead[d] \in Nat
        /\ IInv /\ TypeOK
    BY DEF OrderInv, IInv, TypeOK
  <2>3. c \in Conns /\ o \in Conns
    BY <2>1, <2>2, Serving DEF TypeOK
  <2>4. n \in 1 .. Len(send_buf[c])
    <3>1. Len(send_buf[c]) \in Nat \ {0}
      BY <1>2, <2>2, <2>3
    <3>2. Len(wire[o]) \in Nat /\ clientRead[o] \in Nat /\ SocketRoom \in Nat
      BY <2>2, <2>3, BoundsAssumption
    <3>3. Room(o) \in Int /\ Room(o) > 0
      BY <1>2, <3>2 DEF Room
    <3>4. QED
      BY <3>1, <3>3
  <2> HIDE DEF n
  <2>5. WroteBeforeErase'
    BY <2>1, <2>2, <2>4 DEF OrderInv, WroteBeforeErase
  <2>6. ASSUME NEW d \in Conns, OwnNumber(d)' PROVE Ordered(d)'
    <3>1. OwnNumber(d) /\ Ordered(d)
      BY <2>1, <2>6 DEF OrderInv, Ordered, OwnNumber
    <3>2. CASE d = c \/ d = o
      <4>1. d = c /\ d = o
        BY <2>1, <2>2, <3>1, <3>2, OwnSocket
      <4>2. Pending(d) = DOMAIN send_buf[d]
        BY <2>1, <4>1, AllPending
      <4>3. Orderly(d, sentReqs[d], wire[d], send_buf[d], DOMAIN send_buf[d], recv_buf[d], unread[d])
        BY <3>1, <4>2 DEF Ordered
      <4>4. n \in 0 .. Len(send_buf[d])
        BY <2>4, <4>1
      <4>5. Orderly(d, sentReqs[d], wire[d] \o SubSeq(send_buf[d], 1, n), send_buf[d],
                    {j \in DOMAIN send_buf[d] : j > n}, recv_buf[d], unread[d])
        BY <2>2, <4>3, <4>4, OrderlyWrite
      <4>6. wire'[d] = wire[d] \o SubSeq(send_buf[d], 1, n)
        BY <2>1, <2>2, <4>1
      <4>7. Pending(d)' = {j \in DOMAIN send_buf[d] : j > n}
        <5>1. wrote'[w] = n /\ \A v \in Workers \ {w} : wrote'[v] = wrote[v]
          BY <2>1, <2>2
        <5>2. \A j \in DOMAIN send_buf[d], v \in Workers : work[v].conn = d => j > wrote[v]
          BY <4>2 DEF Pending
        <5>3. Pending(d)' = {j \in DOMAIN send_buf[d] :
                                \A v \in Workers : work[v].conn = d => j > wrote'[v]}
          BY <2>1 DEF Pending
        <5>4. work[w].conn = d
          BY <4>1
        <5> HIDE DEF c, o
        <5>5. QED
          BY <5>1, <5>2, <5>3, <5>4
      <4>8. QED
        BY <2>1, <4>5, <4>6, <4>7 DEF Ordered
    <3>3. CASE d # c /\ d # o
      <4>1. wire'[d] = wire[d]
        BY <2>1, <2>2, <3>3
      <4>2. Pending(d)' = Pending(d)
        <5>1. \A v \in Workers : work'[v] = work[v] /\ (v # w => wrote'[v] = wrote[v])
          BY <2>1, <2>2
        <5>2. work[w].conn # d
          BY <3>3
        <5> HIDE DEF c, o
        <5>3. QED
          BY <2>1, <2>2, <5>1, <5>2, PendingSame
      <4>3. QED
        BY <2>1, <3>1, <4>1, <4>2 DEF Ordered
    <3>4. QED
      BY <3>2, <3>3
  <2>7. QED
    BY <2>5, <2>6 DEF Kept
<1>3. QED
  BY <1>1, <1>2

LEMMA EraseOrder == ASSUME OrderInv, NEW w \in Workers, Erase(w) PROVE Kept
<1> DEFINE c == work[w].conn
           n == wrote[w]
           rest == SubSeq(send_buf[c], n + 1, Len(send_buf[c]))
<1>1. /\ send_buf' = [send_buf EXCEPT ![c] = rest]
      /\ wrote' = [wrote EXCEPT ![w] = 0]
      /\ pc[w] = "erase" /\ work' = work /\ pc' = [pc EXCEPT ![w] = "write"]
      /\ UNCHANGED <<sentReqs, wire, recv_buf, unread, fd_>>
  BY DEF Erase, Goto, kernelVars
<1>2. /\ send_buf \in [Conns -> Seq(Token)] /\ wrote \in [Workers -> Nat]
      /\ pc \in [Workers -> Pcs]
      /\ \A d \in Conns : /\ wire[d] \in Seq(Token) /\ send_buf[d] \in Seq(Token)
                          /\ recv_buf[d] \in Seq(Token) /\ unread[d] \in Seq(Token)
      /\ IInv
  BY DEF OrderInv, IInv, TypeOK
<1>3. c \in Conns /\ n \in 1 .. Len(send_buf[c]) /\ Len(send_buf[c]) \in Nat
  BY <1>1, <1>2, Serving DEF OrderInv, WroteBeforeErase
<1>4. \A v \in Workers : v # w /\ work[v].conn = c => wrote[v] = 0 /\ pc[v] # "erase"
  BY <1>1 DEF OrderInv, WroteBeforeErase, OneWriter, WritePcs
<1> HIDE DEF rest
<1>5. WroteBeforeErase'
  <2>1. ASSUME NEW v \in Workers
        PROVE  IF pc'[v] = "erase" THEN wrote'[v] \in 1 .. Len(send_buf'[work'[v].conn])
                                   ELSE wrote'[v] = 0
    <3>1. CASE v = w
      BY <1>1, <1>2, <3>1
    <3>2. CASE v # w
      <4>1. pc'[v] = pc[v] /\ wrote'[v] = wrote[v] /\ work'[v] = work[v]
        BY <1>1, <1>2, <3>2
      <4>2. pc[v] = "erase" => send_buf'[work[v].conn] = send_buf[work[v].conn]
        <5>1. ASSUME pc[v] = "erase" PROVE work[v].conn \in Conns /\ work[v].conn # c
          BY <1>2, <1>4, <3>2, <5>1, Serving
        <5> HIDE DEF c
        <5>2. QED
          BY <1>1, <1>2, <5>1
      <4>3. QED
        BY <4>1, <4>2 DEF OrderInv, WroteBeforeErase
    <3>3. QED
      BY <3>1, <3>2
  <2>2. QED
    BY <2>1 DEF WroteBeforeErase
<1>6. ASSUME NEW d \in Conns, OwnNumber(d)' PROVE Ordered(d)'
  <2>1. OwnNumber(d) /\ Ordered(d)
    BY <1>1, <1>6 DEF OrderInv, Ordered, OwnNumber
  <2>2. CASE d = c
    <3>1. send_buf'[d] = rest
      BY <1>1, <1>2, <1>3, <2>2
    <3>2. \A v \in Workers : work[v].conn = d => wrote'[v] = 0 /\ (v # w => wrote[v] = 0)
      BY <1>1, <1>2, <1>4, <2>2
    <3>3. \A j \in DOMAIN send_buf[d] : j > 0
      BY <1>2
    <3>4. {j \in DOMAIN send_buf[d] : j > n} \subseteq Pending(d)
      BY <1>3, <3>2, <3>3 DEF Pending
    <3>5. n \in 0 .. Len(send_buf[d])
      BY <1>3, <2>2
    <3>6. Orderly(d, sentReqs[d], wire[d], send_buf[d], Pending(d), recv_buf[d], unread[d])
      BY <2>1 DEF Ordered
    <3> HIDE DEF n
    <3>7. Orderly(d, sentReqs[d], wire[d], rest, DOMAIN rest, recv_buf[d], unread[d])
      BY <1>2, <2>2, <3>4, <3>5, <3>6, OrderlyErase DEF rest
    <3>8. Pending(d)' = DOMAIN rest
      <4>1. rest \in Seq(Token)
        BY <1>2, <1>3, <2>2, <3>5 DEF rest
      <4>2. \A j \in DOMAIN rest : j > 0
        BY <4>1
      <4>3. Pending(d)' = {j \in DOMAIN rest : \A v \in Workers : work[v].conn = d => j > wrote'[v]}
        BY <1>1, <3>1 DEF Pending
      <4>4. QED
        BY <3>2, <4>2, <4>3
    <3>9. QED
      BY <1>1, <3>1, <3>7, <3>8 DEF Ordered
  <2>3. CASE d # c
    <3>1. send_buf'[d] = send_buf[d]
      BY <1>1, <1>2, <2>3
    <3>2. \A v \in Workers : work'[v] = work[v] /\ (v # w => wrote'[v] = wrote[v])
      BY <1>1, <1>2
    <3>3. work[w].conn # d
      BY <2>3
    <3> HIDE DEF c, n
    <3>4. Pending(d)' = Pending(d)
      BY <1>2, <3>1, <3>2, <3>3, PendingSame
    <3>5. QED
      BY <1>1, <2>1, <3>1, <3>4 DEF Ordered
  <2>4. QED
    BY <2>2, <2>3
<1>7. QED
  BY <1>5, <1>6 DEF Kept

LEMMA InitOrder == Init => OrderInv
<1> SUFFICES ASSUME Init PROVE OrderInv
  OBVIOUS
<1>1. IInv
  BY InitIInv
<1>2. NumberedWhenAccepted /\ OneWriter /\ WroteBeforeErase
  BY DEF Init, NumberedWhenAccepted, OneWriter, WroteBeforeErase, WritePcs
<1>3. ASSUME NEW c \in Conns
      PROVE  Orderly(c, sentReqs[c], wire[c], send_buf[c], Pending(c), recv_buf[c], unread[c])
  <2>1. wire[c] = <<>> /\ send_buf[c] = <<>> /\ recv_buf[c] = <<>> /\ unread[c] = <<>>
    BY DEF Init
  <2>2. \A i \in DOMAIN wire[c] : FALSE
    BY <2>1
  <2>3. QED
    BY <2>1, <2>2, OursEmpty DEF Orderly
<1>4. QED
  BY <1>1, <1>2, <1>3 DEF OrderInv

LEMMA StepOrder == OrderInv /\ [Next]_vars => OrderInv'
<1> SUFFICES ASSUME OrderInv, [Next]_vars PROVE OrderInv'
  OBVIOUS
<1>1. IInv /\ TypeOK /\ NumberedWhenAccepted /\ OneWriter
  BY DEF OrderInv, IInv
<1>2. IInv'
  BY <1>1, NextPreserves
<1>3. NumberedWhenAccepted' /\ \A c \in Conns : fd_[c] # 0 => fd_'[c] = fd_[c]
  BY <1>1, NumbersStay
<1>4. OneWriter'
  BY <1>1, StepOneWriter
<1>5. Kept
  <2>1. CASE Quiet
    BY <1>3, <2>1, QuietKeeps DEF Kept
  <2>2. ASSUME NEW c \in Conns, ClientStep(c) PROVE Kept
    <3>1. CASE Request(c)
      BY <2>2, <3>1, RequestOrder DEF ClientStep
    <3>2. CASE ~ Request(c)
      <4>1. UNCHANGED <<sentReqs, wire, unread, connVars, workerVars>>
        BY <2>2, <3>2 DEF ClientStep, Connect, ReadResponses, ShutDown, Abort, Refuse
      <4>2. Quiet
        BY <4>1 DEF Quiet, connVars, workerVars
      <4>3. QED
        BY <2>1, <4>2
    <3>3. QED
      BY <3>1, <3>2
  <2>3. ASSUME NEW w \in Workers, WorkerStep(w) PROVE Kept
    <3>1. CASE Take(w) \/ Drop(w) \/ LockRead(w) \/ LockWrite(w) \/ Gate(w) \/ Check(w) \/ Modify(w)
               \/ Throw(w)
      BY <1>1, <2>1, <3>1, WorkerIsQuiet
    <3>2. QED
      BY <1>3, <2>3, <3>1, ReadOrder, AnswerOrder, WriteOrder, EraseOrder DEF WorkerStep
  <2>4. CASE LoopStep \/ UNCHANGED vars
    BY <2>1, <2>4, LoopIsQuiet
  <2>5. QED
    BY <2>2, <2>3, <2>4 DEF Next
<1>6. QED
  BY <1>2, <1>3, <1>4, <1>5 DEF OrderInv, Kept, Ordered

\* Connection::handleRead and handleWrite, with any number of workers: a
\* connection that shares its number with no other sends its client that
\* client's responses only, each once and in the order of the requests.
THEOREM InOrder == Spec => []ResponsesInOrder
<1>1. OrderInv => ResponsesInOrder
  BY DEF OrderInv, Orderly, Ours, ResponsesInOrder
<1>2. Spec => []OrderInv
  BY InitOrder, StepOrder, PTL DEF Spec
<1>3. QED
  BY <1>1, <1>2, PTL

-----------------------------------------------------------------------------
(* Who ends a connection that is alone on its number.                      *)

\* A client that has ended its connection has ended it for good.
LEMMA EndedStays ==
    ASSUME IInv, [Next]_vars, NEW c \in Conns, Ended(c)
    PROVE  Ended(c)'
<1>1. fin \in [Conns -> BOOLEAN] /\ reset \in [Conns -> {"none", "pending", "reported", "broken"}]
  BY DEF IInv, TypeOK
<1>2. CASE UNCHANGED <<fin, reset>>
  BY <1>2 DEF Ended
<1>3. ASSUME NEW d \in Conns, ClientStep(d) PROVE Ended(c)'
  BY <1>1, <1>2, <1>3 DEF ClientStep, Connect, Request, ReadResponses, ShutDown, Abort, Refuse, Ended
<1>4. CASE LoopStep
  BY <1>2, <1>4 DEF LoopStep, EpollWait, Expire, Lookup, Submit, Accept, AcceptFails, kernelVars
<1>5. ASSUME NEW w \in Workers, WorkerStep(w) PROVE Ended(c)'
  <2>1. CASE Take(w) \/ Drop(w) \/ LockRead(w) \/ LockWrite(w) \/ Gate(w) \/ Check(w)
             \/ Modify(w) \/ Answer(w) \/ Throw(w) \/ Erase(w)
    BY <1>2, <2>1
       DEF Take, Drop, LockRead, LockWrite, Gate, Check, Modify, Answer, Throw, Erase, kernelVars
  <2>2. CASE Read(w)
    BY <1>1, <2>2 DEF Read, Ended
  <2>3. CASE Write(w)
    BY <1>1, <2>3 DEF Write, Ended
  <2>4. QED
    BY <1>5, <2>1, <2>2, <2>3 DEF WorkerStep
<1>6. QED
  BY <1>2, <1>3, <1>4, <1>5 DEF Next, vars, kernelVars

\* A number that was given back is not given to another connection while c is
\* alone on it.
LEMMA FreeStays ==
    ASSUME IInv, NumberedWhenAccepted, [Next]_vars,
           NEW c \in Conns, OwnNumber(c)', fd_[c] # 0, owner[fd_[c]] = None
    PROVE  owner'[fd_[c]] = None
<1>1. /\ owner \in [Fds -> Conns \cup {None}] /\ fd_ \in [Conns -> Fds \cup {0}]
      /\ fd_[c] \in Fds /\ client[c] = "accepted"
  BY DEF IInv, TypeOK, NumberedWhenAccepted
<1>2. CASE UNCHANGED owner
  BY <1>2
<1>3. ASSUME NEW d \in Conns, Accept(d) PROVE owner'[fd_[c]] = None
  <2>1. PICK f \in FreeFds : owner' = [owner EXCEPT ![f] = d] /\ fd_' = [fd_ EXCEPT ![d] = f]
    BY <1>3 DEF Accept
  <2>2. d # c
    BY <1>1, <1>3 DEF Accept, Waiting
  <2>3. f # fd_[c]
    BY <1>1, <2>1, <2>2 DEF OwnNumber
  <2>4. QED
    BY <1>1, <2>1, <2>3
<1>4. ASSUME NEW f \in Fds, NEW e, RemoveEvent(f, e) PROVE owner'[fd_[c]] = None
  BY <1>1, <1>4 DEF RemoveEvent
<1>5. CASE \E d \in Conns : ClientStep(d)
  BY <1>2, <1>5 DEF ClientStep, Connect, Request, ReadResponses, ShutDown, Abort, Refuse
<1>6. CASE LoopStep
  BY <1>2, <1>3, <1>4, <1>6 DEF LoopStep, EpollWait, Expire, Lookup, Submit, AcceptFails, kernelVars
<1>7. ASSUME NEW w \in Workers, WorkerStep(w) PROVE owner'[fd_[c]] = None
  <2>1. CASE Drop(w)
    BY <1>4, <2>1, Serving DEF Drop
  <2>2. CASE ~ Drop(w)
    BY <1>2, <1>7, <2>2
       DEF WorkerStep, Take, LockRead, Read, Answer, Throw, Check, Modify, Gate, LockWrite, Write, Erase,
           kernelVars
  <2>3. QED
    BY <2>1, <2>2
<1>8. QED
  BY <1>2, <1>5, <1>6, <1>7 DEF Next, vars, kernelVars

\* The socket behind a connection's number is its own or gone.
LEMMA AloneOwns ==
    ASSUME IInv, NEW c \in Conns, OwnNumber(c), fd_[c] # 0
    PROVE  owner[fd_[c]] \in {c, None}
<1>1. owner \in [Fds -> Conns \cup {None}] /\ fd_[c] \in Fds
  BY DEF IInv, TypeOK
<1>2. owner[fd_[c]] # None => fd_[owner[fd_[c]]] = fd_[c]
  BY <1>1 DEF IInv, TableOwnsSockets
<1>3. QED
  BY <1>1, <1>2 DEF OwnNumber

\* Only sockets are in epoll's list, and only numbers that were given in a batch.
LEMMA ReadyStep == ASSUME IInv, ReadyIsOwned, [Next]_vars PROVE ReadyIsOwned'
<1>1. owner \in [Fds -> Conns \cup {None}] /\ ready \subseteq Fds /\ interest \in [Fds -> SUBSET {"in", "out"}]
  BY DEF IInv, TypeOK
<1>2. CASE UNCHANGED <<owner, ready>>
  BY <1>2 DEF ReadyIsOwned
<1>3. ASSUME NEW c \in Conns, NEW events, Wake(c, events), owner' = owner PROVE ReadyIsOwned'
  BY <1>3, NoneAssumption DEF Wake, Holds, ReadyIsOwned
<1>4. ASSUME NEW f \in Fds, NEW e, RemoveEvent(f, e) PROVE ReadyIsOwned'
  BY <1>1, <1>4 DEF RemoveEvent, ReadyIsOwned
<1>5. ASSUME NEW c \in Conns, ClientStep(c) PROVE ReadyIsOwned'
  BY <1>2, <1>3, <1>5 DEF ClientStep, Connect, Request, ReadResponses, ShutDown, Abort, Refuse
<1>6. CASE LoopStep
  <2>1. CASE EpollWait
    BY <2>1 DEF EpollWait, ReadyIsOwned
  <2>2. ASSUME NEW c \in Conns, Accept(c) PROVE ReadyIsOwned'
    <3>1. PICK f \in FreeFds : owner' = [owner EXCEPT ![f] = c] /\ Arm(f, c, AcceptEvents)
      BY <2>2 DEF Accept
    <3>2. ready' \subseteq ready \cup {f} /\ f \in Fds
      BY <3>1 DEF Arm, FreeFds
    <3>3. QED
      BY <1>1, <3>1, <3>2, NoneAssumption DEF ReadyIsOwned
  <2>3. QED
    BY <1>2, <1>4, <1>6, <2>1, <2>2 DEF LoopStep, Expire, Lookup, Submit, AcceptFails, kernelVars
<1>7. ASSUME NEW w \in Workers, WorkerStep(w) PROVE ReadyIsOwned'
  <2>1. CASE Drop(w)
    BY <1>4, <2>1, Serving DEF Drop
  <2>2. CASE Modify(w)
    <3>1. owner' = owner /\ (ready' = ready \/ (owner[Fd(w)] # None /\ ready' \subseteq ready \cup {Fd(w)}))
      BY <2>2 DEF Modify, Arm
    <3>2. QED
      BY <3>1 DEF ReadyIsOwned
  <2>3. CASE Read(w) \/ Write(w)
    BY <1>2, <2>3 DEF Read, Write
  <2>4. CASE Take(w) \/ LockRead(w) \/ Answer(w) \/ Throw(w) \/ Check(w) \/ Gate(w) \/ LockWrite(w) \/ Erase(w)
    BY <1>2, <2>4 DEF Take, LockRead, Answer, Throw, Check, Gate, LockWrite, Erase, kernelVars
  <2>5. QED
    BY <1>7, <2>1, <2>2, <2>3, <2>4 DEF WorkerStep
<1>8. QED
  BY <1>2, <1>5, <1>6, <1>7 DEF Next, vars, kernelVars

\* What leaves the loop's hands as it was, or gone.
LEMMA BatchStep ==
    ASSUME IInv, NumberedWhenAccepted, ReadyIsOwned, BatchIsGiven, [Next]_vars
    PROVE  BatchIsGiven'
<1>1. \A c \in Conns : fd_[c] # 0 => fd_'[c] = fd_[c]
  BY NumbersStay
<1>2. CASE batch' \subseteq batch
  BY <1>1, <1>2, FdsAssumption DEF BatchIsGiven, Listen
<1>3. CASE EpollWait
  <2>1. ASSUME NEW e \in batch', e.fd # Listen PROVE \E c \in Conns : fd_'[c] = e.fd
    <3>1. e.fd \in ready /\ fd_' = fd_
      BY <1>3, <2>1 DEF EpollWait, ListenEvent, connVars
    <3>2. owner[e.fd] \in Conns /\ fd_[owner[e.fd]] = e.fd
      BY <3>1 DEF ReadyIsOwned, IInv, TypeOK, TableOwnsSockets
    <3>3. QED
      BY <3>1, <3>2
  <2>2. QED
    BY <2>1 DEF BatchIsGiven
<1>4. CASE LoopStep /\ ~ EpollWait
  BY <1>2, <1>4 DEF LoopStep, Expire, Lookup, Submit, Accept, AcceptFails
<1>5. CASE ~ LoopStep
  <2>1. CASE \E c \in Conns : ClientStep(c)
    BY <1>2, <2>1 DEF ClientStep, loopVars
  <2>2. ASSUME NEW w \in Workers, WorkerStep(w) PROVE batch' = batch
    BY <2>2 DEF WorkerStep, Take, Drop, LockRead, Read, Answer, Throw, Check, Modify, Gate, LockWrite,
                Write, Erase, loopVars
  <2>3. QED
    BY <1>2, <1>5, <2>1, <2>2 DEF Next, vars, loopVars
<1>6. QED
  BY <1>3, <1>4, <1>5

\* What the loop holds of a connection's errors, unless it learns of a new one.
LEMMA ErrorsStay ==
    ASSUME NEW c \in Conns, ErrorsAreOwn(c), Ended(c) => Ended(c)', fd_'[c] = fd_[c],
           fd_[c] # 0 =>
               \A e \in batch' : e.fd = fd_[c] /\ "err" \in e.revents => e \in batch \/ Ended(c)',
           ErrorOf(c, found') => ErrorOf(c, found) \/ Ended(c)',
           \A i \in DOMAIN task_queue' : ErrorOf(c, task_queue'[i]) => Ended(c)'
    PROVE  ErrorsAreOwn(c)'
BY DEF ErrorsAreOwn, ErrorOf

LEMMA ErrorsUntouched ==
    ASSUME NEW c \in Conns, ErrorsAreOwn(c), Ended(c) => Ended(c)', fd_'[c] = fd_[c],
           UNCHANGED <<batch, found, task_queue>>
    PROVE  ErrorsAreOwn(c)'
<1>1. \A i \in DOMAIN task_queue' : ErrorOf(c, task_queue'[i]) => Ended(c)'
  BY DEF ErrorsAreOwn
<1>2. QED
  BY <1>1, ErrorsStay

\* The loop thread passes an event of c on, or learns of one from c's socket.
LEMMA LoopErrors ==
    ASSUME FateInv, LoopStep, NEW c \in Conns, OwnNumber(c)', ErrorsAreOwn(c), Ended(c) => Ended(c)',
           OwnNumber(c), fd_[c] # 0 => fd_'[c] = fd_[c]
    PROVE  ErrorsAreOwn(c)'
<1>1. /\ IInv /\ NumberedWhenAccepted /\ ReadyIsOwned /\ BatchIsGiven
      /\ fd_ \in [Conns -> Fds \cup {0}] /\ task_queue \in Seq(Task)
      /\ owner \in [Fds -> Conns \cup {None}] /\ conn_map \in [Fds -> Conns \cup {None}]
      /\ ready \subseteq Fds /\ None \notin Conns
  BY NoneAssumption DEF FateInv, IInv, TypeOK
<1>2. \A i \in DOMAIN task_queue : ErrorOf(c, task_queue[i]) => Ended(c)'
  BY DEF ErrorsAreOwn
<1>3. CASE EpollWait
  <2>1. UNCHANGED <<fd_, found, task_queue>>
    BY <1>3 DEF EpollWait, connVars
  <2>2. ASSUME NEW e \in batch', fd_[c] # 0, e.fd = fd_[c], "err" \in e.revents PROVE Ended(c)
    <3>1. e.fd \in ready /\ e.revents = Revents(e.fd)
      BY <1>3, <2>2, FdsAssumption DEF EpollWait, ListenEvent, Listen
    <3>2. owner[e.fd] = c
      BY <1>1, <2>2, <3>1, AloneOwns DEF ReadyIsOwned
    <3>3. reset[c] # "none"
      BY <2>2, <3>1, <3>2 DEF Revents, Polled
    <3>4. QED
      BY <3>3 DEF Ended
  <2>3. QED
    BY <1>2, <2>1, <2>2, ErrorsStay
<1>4. ASSUME NEW e \in batch, Lookup(e) PROVE ErrorsAreOwn(c)'
  <2>1. fd_' = fd_ /\ task_queue' = task_queue /\ batch' \subseteq batch
    BY <1>4 DEF Lookup, connVars
  <2>2. ASSUME ErrorOf(c, found'), found' # found PROVE Ended(c)
    <3>1. conn_map[e.fd] = c /\ "err" \in e.revents
      BY <1>4, <2>2 DEF Lookup, ErrorOf
    <3>2. PICK d \in Conns : fd_[d] = e.fd /\ e.fd # 0
      BY <1>1, <1>4 DEF Lookup, BatchIsGiven, Listen
    <3>3. e.fd \in Fds
      BY <1>1, <3>2
    <3>4. fd_[c] = e.fd
      BY <1>1, <3>1, <3>3 DEF IInv, TableOwnsSockets
    <3>5. QED
      BY <1>4, <3>1, <3>2, <3>4 DEF ErrorsAreOwn
  <2>3. QED
    BY <1>2, <2>1, <2>2, ErrorsStay
<1>5. CASE Submit
  <2>1. fd_' = fd_ /\ batch' = batch /\ found' = NoTask /\ task_queue' = Append(task_queue, found)
    BY <1>5 DEF Submit, connVars
  <2>2. ~ ErrorOf(c, found')
    BY <2>1 DEF ErrorOf, NoTask
  <2>3. \A i \in DOMAIN task_queue' : task_queue'[i] = found \/ (i \in DOMAIN task_queue /\ task_queue'[i] = task_queue[i])
    <3>1. found \in Task
      BY <1>1 DEF IInv, TypeOK
    <3>2. QED
      BY <1>1, <2>1, <3>1
  <2>4. \A i \in DOMAIN task_queue' : ErrorOf(c, task_queue'[i]) => Ended(c)'
    BY <1>2, <2>3 DEF ErrorsAreOwn
  <2>5. QED
    BY <2>1, <2>2, <2>4, ErrorsStay
<1>6. ASSUME NEW d \in Conns, Accept(d) PROVE ErrorsAreOwn(c)'
  <2>1. PICK f \in FreeFds : fd_' = [fd_ EXCEPT ![d] = f]
    BY <1>6 DEF Accept
  <2>2. UNCHANGED <<batch, found, task_queue>> /\ fd_[d] = 0
    BY <1>1, <1>6 DEF Accept, Waiting, NumberedWhenAccepted
  <2>3. CASE d # c
    BY <1>1, <2>1, <2>2, <2>3, ErrorsUntouched
  <2>4. CASE d = c
    <3>1. fd_'[c] = f /\ f # 0
      BY <1>1, <2>1, <2>4, FdsAssumption DEF FreeFds
    <3>2. ASSUME NEW e \in batch, e.fd = f PROVE FALSE
      <4>1. PICK g \in Conns : fd_[g] = f
        BY <1>1, <3>1, <3>2 DEF BatchIsGiven, Listen
      <4>2. g # c
        BY <2>2, <2>4, <3>1, <4>1
      <4>3. fd_'[g] = f
        BY <1>1, <2>1, <2>4, <4>1, <4>2
      <4>4. QED
        BY <3>1, <4>2, <4>3 DEF OwnNumber
    <3>3. QED
      BY <1>2, <2>2, <3>1, <3>2 DEF ErrorsAreOwn, ErrorOf
  <2>5. QED
    BY <2>3, <2>4
<1>7. CASE AcceptFails \/ \E f \in Fds : Expire(f)
  <2>1. UNCHANGED <<fd_, found, task_queue>> /\ batch' \subseteq batch
    BY <1>7 DEF AcceptFails, Expire, connVars
  <2>2. QED
    BY <1>2, <2>1, ErrorsStay
<1>8. QED
  BY <1>3, <1>4, <1>5, <1>6, <1>7 DEF LoopStep

\* A client's or worker's step leaves the loop's events alone; the queue shrinks.
LEMMA OtherErrors ==
    ASSUME FateInv, NEW c \in Conns, ErrorsAreOwn(c), Ended(c) => Ended(c)',
           (\E d \in Conns : ClientStep(d)) \/ (\E w \in Workers : WorkerStep(w)) \/ UNCHANGED vars
    PROVE  ErrorsAreOwn(c)'
<1>1. CASE UNCHANGED <<batch, found, task_queue, fd_>>
  BY <1>1, ErrorsUntouched
<1>2. ASSUME NEW w \in Workers, Take(w) PROVE ErrorsAreOwn(c)'
  <2>1. /\ task_queue \in Seq(Task) /\ task_queue # <<>> /\ task_queue' = Tail(task_queue)
        /\ UNCHANGED <<batch, found, fd_>>
    BY <1>2 DEF Take, connVars, FateInv, IInv, TypeOK
  <2>2. \A i \in DOMAIN task_queue' : i + 1 \in DOMAIN task_queue /\ task_queue'[i] = task_queue[i + 1]
    BY <2>1
  <2>3. \A i \in DOMAIN task_queue' : ErrorOf(c, task_queue'[i]) => Ended(c)'
    BY <2>2 DEF ErrorsAreOwn
  <2>4. QED
    BY <2>1, <2>3, ErrorsStay
<1>3. ASSUME NEW w \in Workers, WorkerStep(w), ~ Take(w) PROVE UNCHANGED <<batch, found, task_queue, fd_>>
  BY <1>3 DEF WorkerStep, Drop, LockRead, Read, Answer, Throw, Check, Modify, Gate, LockWrite,
              Write, Erase, loopVars, connVars
<1>4. QED
  BY <1>1, <1>2, <1>3 DEF ClientStep, vars, loopVars, connVars

\* Who is about to drop c, unless another worker comes to it.
LEMMA DropsStay ==
    ASSUME FateInv, NEW c \in Conns, DropsAreOwn(c), Ended(c) => Ended(c)',
           fd_[c] # 0 => fd_'[c] = fd_[c] /\ (owner[fd_[c]] = None => owner'[fd_[c]] = None),
           NEW w \in Workers, \A v \in Workers \ {w} : pc'[v] = pc[v] /\ work'[v] = work[v],
           work'[w].conn = c /\ pc'[w] \in DropPcs =>
               (work[w].conn = c /\ pc[w] \in DropPcs) \/ Ended(c)' \/ owner'[fd_'[c]] = None
    PROVE  DropsAreOwn(c)'
<1>1. ASSUME NEW v \in Workers, work[v].conn = c, pc[v] \in DropPcs
      PROVE  Ended(c)' \/ owner'[fd_'[c]] = None
  <2>1. fd_[c] # 0
    BY <1>1 DEF DropPcs, FateInv, IInv, TasksAreServed, Served
  <2>2. QED
    BY <1>1, <2>1 DEF DropsAreOwn
<1>2. QED
  BY <1>1 DEF DropsAreOwn

LEMMA WorkerDrops ==
    ASSUME FateInv, NEW w \in Workers, WorkerStep(w), NEW c \in Conns, OwnNumber(c),
           ErrorsAreOwn(c), DropsAreOwn(c), Ended(c) => Ended(c)',
           fd_[c] # 0 => fd_'[c] = fd_[c] /\ (owner[fd_[c]] = None => owner'[fd_[c]] = None)
    PROVE  DropsAreOwn(c)'
<1>1. /\ IInv /\ pc \in [Workers -> Pcs] /\ work \in [Workers -> Task]
      /\ reset \in [Conns -> {"none", "pending", "reported", "broken"}]
  BY DEF FateInv, IInv, TypeOK
<1>2. ASSUME NEW label \in Pcs \ DropPcs, Goto(w, label) PROVE DropsAreOwn(c)'
  <2>1. \A v \in Workers \ {w} : pc'[v] = pc[v] /\ work'[v] = work[v]
    BY <1>1, <1>2 DEF Goto
  <2>2. pc'[w] \notin DropPcs
    BY <1>1, <1>2 DEF Goto
  <2>3. QED
    BY <2>1, <2>2, DropsStay
<1>3. CASE UNCHANGED <<pc, work>>
  BY <1>3, DropsStay
<1>4. ASSUME pc[w] # "idle", work[w].conn = c
      PROVE  fd_[c] # 0 /\ Fd(w) = fd_[c] /\ owner[Fd(w)] \in {c, None}
  <2>1. fd_[c] # 0 /\ Fd(w) = fd_[c]
    BY <1>1, <1>4 DEF IInv, TasksAreServed, Served, Fd
  <2>2. QED
    BY <1>1, <2>1, AloneOwns
<1>5. CASE Take(w)
  <2>1. /\ task_queue \in Seq(Task) /\ task_queue # <<>>
        /\ work' = [work EXCEPT ![w] = Head(task_queue)]
        /\ pc' = [pc EXCEPT ![w] = IF "err" \in Head(task_queue).revents THEN "errorDrop"
                                   ELSE IF "in" \in Head(task_queue).revents THEN "readLock"
                                   ELSE "gate"]
    BY <1>5 DEF Take, FateInv, IInv, TypeOK
  <2>2. \A v \in Workers \ {w} : pc'[v] = pc[v] /\ work'[v] = work[v]
    BY <1>1, <2>1
  <2>3. 1 \in DOMAIN task_queue /\ Head(task_queue) = task_queue[1]
    BY <2>1
  <2>4. work'[w].conn = c /\ pc'[w] \in DropPcs => ErrorOf(c, task_queue[1])
    BY <1>1, <2>1, <2>3 DEF DropPcs, ErrorOf
  <2>5. QED
    BY <2>2, <2>3, <2>4, DropsStay DEF ErrorsAreOwn
<1>6. CASE Read(w)
  <2>1. CASE UNCHANGED <<pc, work>>
    BY <1>3, <2>1
  <2>2. CASE Goto(w, AfterRead(owner[Fd(w)]))
    <3>1. pc[w] = "read" /\ UNCHANGED <<owner, fd_>>
      BY <1>6 DEF Read
    <3>2. \A v \in Workers \ {w} : pc'[v] = pc[v] /\ work'[v] = work[v]
      BY <1>1, <2>2 DEF Goto
    <3>3. CASE AfterRead(owner[Fd(w)]) = "parse"
      BY <1>2, <2>2, <3>3 DEF Pcs, ReadPcs, DropPcs
    <3>4. CASE AfterRead(owner[Fd(w)]) = "readDrop"
      <4>1. work' = work
        BY <2>2, <3>4 DEF Goto
      <4>2. work[w].conn = c => owner'[fd_'[c]] = None \/ Ended(c)
        BY <1>4, <3>1, <3>4 DEF AfterRead, Ended
      <4>3. QED
        BY <3>2, <4>1, <4>2, DropsStay
    <3>5. QED
      BY <3>3, <3>4 DEF AfterRead
  <2>3. QED
    BY <1>6, <2>1, <2>2 DEF Read
<1>7. CASE Write(w)
  <2>1. pc[w] = "write" /\ UNCHANGED <<owner, fd_>>
    BY <1>7 DEF Write, connVars
  <2>2. CASE Goto(w, "writeCheck") \/ Goto(w, "idle") \/ Goto(w, "erase") \/ UNCHANGED <<pc, work>>
    BY <1>2, <1>3, <2>2 DEF Pcs, WritePcs, DropPcs
  <2>3. CASE Goto(w, "writeDrop") /\ (owner[Fd(w)] = None \/ reset'[owner[Fd(w)]] = "reported")
    <3>1. \A v \in Workers \ {w} : pc'[v] = pc[v] /\ work'[v] = work[v]
      BY <1>1, <2>3 DEF Goto
    <3>2. work' = work
      BY <2>3 DEF Goto
    <3>3. work[w].conn = c => owner'[fd_'[c]] = None \/ Ended(c)'
      BY <1>4, <2>1, <2>3 DEF Ended
    <3>4. QED
      BY <3>1, <3>2, <3>3, DropsStay
  <2>4. QED
    <3>1. owner[Fd(w)] \in Conns \cup {None}
      BY <1>1, <2>1, Serving DEF IInv, TypeOK
    <3>2. QED
      BY <1>1, <1>7, <2>2, <2>3, <3>1 DEF Write
<1>8. CASE Drop(w) \/ LockRead(w) \/ Answer(w) \/ Check(w) \/ Modify(w) \/ Gate(w)
           \/ LockWrite(w) \/ Erase(w)
  <2>1. \E label \in Pcs \ DropPcs : Goto(w, label)
    BY <1>8 DEF Drop, LockRead, Answer, Check, Modify, Gate, LockWrite, Erase, AfterUpdate,
                Pcs, ReadPcs, WritePcs, DropPcs
  <2>2. QED
    BY <1>2, <2>1
<1>9. CASE Throw(w)
  BY <1>3, <1>9 DEF Throw, workerVars
<1>10. QED
  BY <1>5, <1>6, <1>7, <1>8, <1>9 DEF WorkerStep

LEMMA InitFate == Init => FateInv
<1> SUFFICES ASSUME Init PROVE FateInv
  OBVIOUS
<1>1. IInv
  BY InitIInv
<1>2. NumberedWhenAccepted /\ ReadyIsOwned /\ BatchIsGiven
  BY DEF Init, NumberedWhenAccepted, ReadyIsOwned, BatchIsGiven
<1>3. ASSUME NEW c \in Conns PROVE ErrorsAreOwn(c) /\ DropsAreOwn(c)
  BY DEF Init, ErrorsAreOwn, ErrorOf, NoTask, DropsAreOwn, DropPcs
<1>4. QED
  BY <1>1, <1>2, <1>3 DEF FateInv

LEMMA StepFate == FateInv /\ [Next]_vars => FateInv'
<1> SUFFICES ASSUME FateInv, [Next]_vars PROVE FateInv'
  OBVIOUS
<1>1. IInv /\ NumberedWhenAccepted /\ ReadyIsOwned /\ BatchIsGiven /\ fd_ \in [Conns -> Fds \cup {0}]
  BY DEF FateInv, IInv, TypeOK
<1>2. IInv' /\ ReadyIsOwned' /\ BatchIsGiven'
  BY <1>1, NextPreserves, ReadyStep, BatchStep
<1>3. NumberedWhenAccepted' /\ \A c \in Conns : fd_[c] # 0 => fd_'[c] = fd_[c]
  BY <1>1, NumbersStay
<1>4. ASSUME NEW c \in Conns, OwnNumber(c)' PROVE ErrorsAreOwn(c)' /\ DropsAreOwn(c)'
  <2>1. OwnNumber(c) /\ ErrorsAreOwn(c) /\ DropsAreOwn(c)
    BY <1>1, <1>3, <1>4, OwnNumberStays DEF FateInv
  <2>2. Ended(c) => Ended(c)'
    BY <1>1, EndedStays
  <2>3. fd_[c] # 0 => fd_'[c] = fd_[c] /\ (owner[fd_[c]] = None => owner'[fd_[c]] = None)
    BY <1>1, <1>3, <1>4, FreeStays
  <2>4. ErrorsAreOwn(c)'
    BY <1>3, <1>4, <2>1, <2>2, LoopErrors, OtherErrors DEF Next
  <2>5. DropsAreOwn(c)'
    <3>1. CASE UNCHANGED <<pc, work>>
      <4>1. ASSUME NEW v \in Workers, work[v].conn = c, pc[v] \in DropPcs
            PROVE  Ended(c)' \/ owner'[fd_'[c]] = None
        <5>1. fd_[c] # 0
          BY <1>1, <4>1 DEF DropPcs, IInv, TasksAreServed, Served
        <5>2. QED
          BY <2>1, <2>2, <2>3, <4>1, <5>1 DEF DropsAreOwn
      <4>2. QED
        BY <3>1, <4>1 DEF DropsAreOwn
    <3>2. ASSUME NEW w \in Workers, WorkerStep(w) PROVE DropsAreOwn(c)'
      BY <2>1, <2>2, <2>3, <3>2, WorkerDrops
    <3>3. CASE LoopStep \/ \E d \in Conns : ClientStep(d)
      BY <3>1, <3>3
         DEF LoopStep, EpollWait, Expire, Lookup, Submit, Accept, AcceptFails, ClientStep, workerVars
    <3>4. QED
      BY <3>1, <3>2, <3>3 DEF Next, vars, workerVars
  <2>6. QED
    BY <2>4, <2>5
<1>5. QED
  BY <1>2, <1>3, <1>4 DEF FateInv

\* EventLoop and Connection: a connection that shares its number with no other
\* is closed because of its own client or its own timer.
THEOREM AloneByOwnFate == Spec => AloneGoesByOwnFate
<1> DEFINE Own == \A c \in Conns : Holds(c) /\ ~ Holds(c)' =>
                     \/ fd_[c] \in expired
                     \/ \E w \in Workers :
                           work[w].conn = c /\ pc[w] \in {"errorDrop", "readDrop", "writeDrop"}
           Fate == \A c \in Conns : OwnNumber(c) /\ Holds(c) /\ ~ Holds(c)' =>
                      Ended(c) \/ fd_[c] \in expired
<1>1. FateInv /\ [Own]_vars => [Fate]_vars
  <2> SUFFICES ASSUME FateInv, Own, NEW c \in Conns, OwnNumber(c), Holds(c), ~ Holds(c)',
                      fd_[c] \notin expired
               PROVE  Ended(c)
    OBVIOUS
  <2>1. PICK w \in Workers : work[w].conn = c /\ pc[w] \in DropPcs
    BY DEF DropPcs
  <2>2. c # None
    BY NoneAssumption
  <2>3. QED
    BY <2>1, <2>2 DEF FateInv, DropsAreOwn, Holds
<1>2. Spec => []FateInv
  BY InitFate, StepFate, PTL DEF Spec
<1>3. Spec => [][Own]_vars
  BY OnlyOwnTask DEF OnlyOwnTaskCloses
<1>4. QED
  BY <1>1, <1>2, <1>3, PTL DEF AloneGoesByOwnFate

=============================================================================
