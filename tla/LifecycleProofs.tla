-------------------------- MODULE LifecycleProofs --------------------------
(***************************************************************************)
(* Proofs about the life of the process, for every number of workers,      *)
(* descriptors, connections and tasks.  One lemma per step of a thread:    *)
(* each part of IInv is preserved by it.                                   *)
(***************************************************************************)
EXTENDS Lifecycle, TLAPS

LEMMA InitIInv == Init => IInv
  <1> SUFFICES ASSUME Init PROVE IInv
    OBVIOUS
  <1> USE FdsAssumption, DistinctAssumption DEF Init
  <1>1. TypeOK
    <2>1. file \in [Fds -> Things \cup {None}] /\ conn_map \in [Fds -> Conns \cup {"listen", None}]
      OBVIOUS
    <2>2. task_queue \in Seq(Tasks)
      OBVIOUS
    <2> QED  BY <2>1, <2>2 DEF TypeOK, Starting
  <1>2. RuntimeOwnsSockets /\ ThreadNeedsReceiver
    BY DEF RuntimeOwnsSockets, ThreadNeedsReceiver, Starting, Running, Stopping, Destroying
  <1>3. ServerOwnsSockets /\ TableOwnsConns
    BY DEF ServerOwnsSockets, TableOwnsConns, Starting, Running, Destroying
  <1>4. PoolInStep /\ NumbersInHand /\ SentMeansOnBus
    BY DEF PoolInStep, NumbersInHand, SentMeansOnBus, Starting
  <1> QED  BY <1>1, <1>2, <1>3, <1>4 DEF IInv

-----------------------------------------------------------------------------
(* main: start-up.                                                         *)

LEMMA OpenSenderPreserves ==
    ASSUME IInv, OpenSender
    PROVE  IInv'
  <1> USE DEF OpenSender, FailedOpen, Free, Opens, rcvVars, serverVars, workerVars
  <1>0. TypeOK /\ RuntimeOwnsSockets /\ ThreadNeedsReceiver /\ ServerOwnsSockets /\
     TableOwnsConns /\ PoolInStep /\ NumbersInHand /\ SentMeansOnBus
    BY DEF IInv
  <1>1. (RuntimeOwnsSockets /\ ThreadNeedsReceiver /\ ServerOwnsSockets /\ TableOwnsConns /\
     PoolInStep /\ SentMeansOnBus)'
    BY <1>0, FdsAssumption, DistinctAssumption DEF RuntimeOwnsSockets, ThreadNeedsReceiver,
       ServerOwnsSockets, TableOwnsConns, PoolInStep, SentMeansOnBus, TypeOK, Destroying,
       Running, Starting, Stopping, Tasks, Things
  <1>2. TypeOK'
    BY <1>0 DEF TypeOK, RuntimeOwnsSockets, Destroying, Running, Starting, Stopping, Tasks,
       Things
  <1>3. NumbersInHand'
    BY <1>0, FdsAssumption, DistinctAssumption DEF NumbersInHand, TypeOK, PoolInStep,
       Destroying, Running, Starting, Stopping, Tasks, Things
  <1> QED  BY <1>1, <1>2, <1>3 DEF IInv

LEMMA OpenReceiverPreserves ==
    ASSUME IInv, OpenReceiver
    PROVE  IInv'
  <1> USE DEF OpenReceiver, Closes, Free, Opens, rcvVars, serverVars, workerVars
  <1>0. TypeOK /\ RuntimeOwnsSockets /\ ThreadNeedsReceiver /\ ServerOwnsSockets /\
     TableOwnsConns /\ PoolInStep /\ NumbersInHand /\ SentMeansOnBus
    BY DEF IInv
  <1>1. (RuntimeOwnsSockets /\ ThreadNeedsReceiver /\ ServerOwnsSockets /\ TableOwnsConns /\
     PoolInStep /\ SentMeansOnBus)'
    BY <1>0, FdsAssumption, DistinctAssumption DEF RuntimeOwnsSockets, ThreadNeedsReceiver,
       ServerOwnsSockets, TableOwnsConns, PoolInStep, SentMeansOnBus, TypeOK, Destroying,
       Running, Starting, Stopping, Tasks, Things
  <1>2. TypeOK'
    <2>1. file' \in [Fds -> Things \cup {None}]
      BY <1>0 DEF TypeOK, Things
    <2>2. /\ sender_fd' \in Fds \cup {0} /\ receiver_fd' \in Fds \cup {0}
          /\ receiver_' \in BOOLEAN /\ unwinding' \in BOOLEAN
          /\ main' \in Starting \cup Stopping
      BY <1>0 DEF TypeOK, Starting, Stopping
    <2> QED  BY <1>0, <2>1, <2>2 DEF TypeOK, rcvVars, serverVars, workerVars
  <1>3. NumbersInHand'
    BY <1>0, FdsAssumption, DistinctAssumption DEF NumbersInHand, TypeOK, PoolInStep,
       Destroying, Running, Starting, Stopping, Tasks, Things
  <1> QED  BY <1>1, <1>2, <1>3 DEF IInv

LEMMA StartThreadPreserves ==
    ASSUME IInv, StartThread
    PROVE  IInv'
  <1> USE DEF StartThread, serverVars, workerVars
  <1>0. TypeOK /\ RuntimeOwnsSockets /\ ThreadNeedsReceiver /\ ServerOwnsSockets /\
     TableOwnsConns /\ PoolInStep /\ NumbersInHand /\ SentMeansOnBus
    BY DEF IInv
  <1>1. (ServerOwnsSockets /\ TableOwnsConns /\ PoolInStep /\ SentMeansOnBus)'
    BY <1>0, FdsAssumption, DistinctAssumption DEF ServerOwnsSockets, TableOwnsConns,
       PoolInStep, SentMeansOnBus, TypeOK, Destroying, Running, Starting, Stopping, Tasks,
       Things
  <1>2. TypeOK'
    BY <1>0 DEF TypeOK, Destroying, Running, Starting, Stopping, Tasks, Things
  <1>3. RuntimeOwnsSockets'
    <2>1. CASE main' = "openListen"
      BY <1>0, <2>1 DEF TypeOK, RuntimeOwnsSockets, Starting, Running, Stopping, Destroying
    <2>2. CASE main' = "stopReceiver"
      <3>1. /\ file' = [g \in Fds |-> IF g \in {sender_fd, receiver_fd} THEN None ELSE file[g]]
            /\ receiver_fd' = 0 /\ ~ receiver_' /\ sender_fd' = 0
        BY <2>2
      <3>2. \A f \in Fds : file'[f] # "sender" /\ file'[f] # "receiver"
        BY <1>0, <3>1, DistinctAssumption DEF RuntimeOwnsSockets
      <3> QED  BY <1>0, <2>2, <3>1, <3>2, FdsAssumption
               DEF RuntimeOwnsSockets, Starting, Running, Stopping, Destroying
    <2> QED  BY <2>1, <2>2
  <1>4. ThreadNeedsReceiver'
    BY <1>0 DEF ThreadNeedsReceiver, TypeOK, RuntimeOwnsSockets, Destroying, Running, Starting,
       Stopping, Tasks, Things
  <1>5. NumbersInHand'
    BY <1>0, FdsAssumption, DistinctAssumption DEF NumbersInHand, TypeOK, PoolInStep,
       Destroying, Running, Starting, Stopping, Tasks, Things
  <1> QED  BY <1>1, <1>2, <1>3, <1>4, <1>5 DEF IInv

LEMMA OpenListenPreserves ==
    ASSUME IInv, OpenListen
    PROVE  IInv'
  <1> USE DEF OpenListen, FailedOpen, Free, Opens, rcvVars, runtimeVars, workerVars
  <1>0. TypeOK /\ RuntimeOwnsSockets /\ ThreadNeedsReceiver /\ ServerOwnsSockets /\
     TableOwnsConns /\ PoolInStep /\ NumbersInHand /\ SentMeansOnBus
    BY DEF IInv
  <1>1. (RuntimeOwnsSockets /\ ThreadNeedsReceiver /\ TableOwnsConns /\ PoolInStep /\
     SentMeansOnBus)'
    BY <1>0, FdsAssumption, DistinctAssumption DEF RuntimeOwnsSockets, ThreadNeedsReceiver,
       TableOwnsConns, PoolInStep, SentMeansOnBus, TypeOK, Destroying, Running, Starting,
       Stopping, Tasks, Things
  <1>2. TypeOK'
    BY <1>0 DEF TypeOK, Destroying, Running, Starting, Stopping, Tasks, Things
  <1>3. ServerOwnsSockets'
    BY <1>0 DEF ServerOwnsSockets, TypeOK, RuntimeOwnsSockets, Destroying, Running, Starting,
       Stopping, Tasks, Things
  <1>4. NumbersInHand'
    BY <1>0, FdsAssumption, DistinctAssumption DEF NumbersInHand, TypeOK, PoolInStep,
       Destroying, Running, Starting, Stopping, Tasks, Things
  <1> QED  BY <1>1, <1>2, <1>3, <1>4 DEF IInv

LEMMA OpenEpollPreserves ==
    ASSUME IInv, OpenEpoll
    PROVE  IInv'
  <1> USE DEF OpenEpoll, Free, Opens, rcvVars, runtimeVars, workerVars
  <1>0. TypeOK /\ RuntimeOwnsSockets /\ ThreadNeedsReceiver /\ ServerOwnsSockets /\
     TableOwnsConns /\ PoolInStep /\ NumbersInHand /\ SentMeansOnBus
    BY DEF IInv
  <1>1. (RuntimeOwnsSockets /\ ThreadNeedsReceiver /\ PoolInStep /\ SentMeansOnBus)'
    BY <1>0, FdsAssumption, DistinctAssumption DEF RuntimeOwnsSockets, ThreadNeedsReceiver,
       PoolInStep, SentMeansOnBus, TypeOK, Destroying, Running, Starting, Stopping, Tasks,
       Things
  <1>2. TypeOK'
    BY <1>0 DEF TypeOK, RuntimeOwnsSockets, Destroying, Running, Starting, Stopping, Tasks,
       Things
  <1>3. ServerOwnsSockets'
    BY <1>0, FdsAssumption, DistinctAssumption DEF ServerOwnsSockets, TypeOK,
       RuntimeOwnsSockets, Destroying, Running, Starting, Stopping, Tasks, Things
  <1>4. TableOwnsConns'
    BY <1>0, FdsAssumption, DistinctAssumption DEF TableOwnsConns, TypeOK, RuntimeOwnsSockets,
       Destroying, Running, Starting, Stopping, Tasks, Things
  <1>5. NumbersInHand'
    BY <1>0, FdsAssumption, DistinctAssumption DEF NumbersInHand, TypeOK, PoolInStep,
       Destroying, Running, Starting, Stopping, Tasks, Things
  <1> QED  BY <1>1, <1>2, <1>3, <1>4, <1>5 DEF IInv

LEMMA EpollFailsPreserves ==
    ASSUME IInv, EpollFails
    PROVE  IInv'
  <1> USE DEF EpollFails, kernelVars, rcvVars, runtimeVars, serverVars, workerVars
  <1>0. TypeOK /\ RuntimeOwnsSockets /\ ThreadNeedsReceiver /\ ServerOwnsSockets /\
     TableOwnsConns /\ PoolInStep /\ NumbersInHand /\ SentMeansOnBus
    BY DEF IInv
  <1>1. (RuntimeOwnsSockets /\ ThreadNeedsReceiver /\ ServerOwnsSockets /\ TableOwnsConns /\
     PoolInStep /\ NumbersInHand /\ SentMeansOnBus)'
    BY <1>0 DEF RuntimeOwnsSockets, ThreadNeedsReceiver, ServerOwnsSockets, TableOwnsConns,
       PoolInStep, NumbersInHand, SentMeansOnBus, TypeOK, Destroying, Running, Starting,
       Stopping, Tasks, Things
  <1>2. TypeOK'
    BY <1>0 DEF TypeOK, Destroying, Running, Starting, Stopping, Tasks, Things
  <1> QED  BY <1>1, <1>2 DEF IInv

LEMMA PoolFailsPreserves ==
    ASSUME IInv, PoolFails
    PROVE  IInv'
  <1> USE DEF PoolFails, kernelVars, rcvVars, runtimeVars, serverVars, workerVars
  <1>0. TypeOK /\ RuntimeOwnsSockets /\ ThreadNeedsReceiver /\ ServerOwnsSockets /\
     TableOwnsConns /\ PoolInStep /\ NumbersInHand /\ SentMeansOnBus
    BY DEF IInv
  <1>1. (RuntimeOwnsSockets /\ ThreadNeedsReceiver /\ ServerOwnsSockets /\ TableOwnsConns /\
     PoolInStep /\ NumbersInHand /\ SentMeansOnBus)'
    BY <1>0 DEF RuntimeOwnsSockets, ThreadNeedsReceiver, ServerOwnsSockets, TableOwnsConns,
       PoolInStep, NumbersInHand, SentMeansOnBus, TypeOK, Destroying, Running, Starting,
       Stopping, Tasks, Things
  <1>2. TypeOK'
    BY <1>0 DEF TypeOK, Destroying, Running, Starting, Stopping, Tasks, Things
  <1> QED  BY <1>1, <1>2 DEF IInv

LEMMA StartPoolPreserves ==
    ASSUME IInv, StartPool
    PROVE  IInv'
  <1> USE DEF StartPool, kernelVars, rcvVars, runtimeVars, serverVars
  <1>0. TypeOK /\ RuntimeOwnsSockets /\ ThreadNeedsReceiver /\ ServerOwnsSockets /\
     TableOwnsConns /\ PoolInStep /\ NumbersInHand /\ SentMeansOnBus
    BY DEF IInv
  <1>1. (RuntimeOwnsSockets /\ ThreadNeedsReceiver /\ ServerOwnsSockets /\ TableOwnsConns /\
     SentMeansOnBus)'
    BY <1>0 DEF RuntimeOwnsSockets, ThreadNeedsReceiver, ServerOwnsSockets, TableOwnsConns,
       SentMeansOnBus, TypeOK, Destroying, Running, Starting, Stopping, Tasks, Things
  <1>2. TypeOK'
    BY <1>0 DEF TypeOK, Destroying, Running, Starting, Stopping, Tasks, Things
  <1>3. PoolInStep'
    BY <1>0 DEF PoolInStep, TypeOK, RuntimeOwnsSockets, ThreadNeedsReceiver, ServerOwnsSockets,
       TableOwnsConns, NumbersInHand, SentMeansOnBus, Destroying, Running, Starting, Stopping,
       Tasks, Things
  <1>4. NumbersInHand'
    BY <1>0 DEF NumbersInHand, TypeOK, PoolInStep, Destroying, Running, Starting, Stopping,
       Tasks, Things
  <1> QED  BY <1>1, <1>2, <1>3, <1>4 DEF IInv

-----------------------------------------------------------------------------
(* main: the event loop.                                                   *)

LEMMA LoopCheckPreserves ==
    ASSUME IInv, LoopCheck
    PROVE  IInv'
  <1> USE DEF LoopCheck, kernelVars, rcvVars, runtimeVars, serverVars, workerVars
  <1>0. TypeOK /\ RuntimeOwnsSockets /\ ThreadNeedsReceiver /\ ServerOwnsSockets /\
     TableOwnsConns /\ PoolInStep /\ NumbersInHand /\ SentMeansOnBus
    BY DEF IInv
  <1>1. (RuntimeOwnsSockets /\ ThreadNeedsReceiver /\ ServerOwnsSockets /\ TableOwnsConns /\
     PoolInStep /\ NumbersInHand /\ SentMeansOnBus)'
    BY <1>0 DEF RuntimeOwnsSockets, ThreadNeedsReceiver, ServerOwnsSockets, TableOwnsConns,
       PoolInStep, NumbersInHand, SentMeansOnBus, TypeOK, Destroying, Running, Starting,
       Stopping, Tasks, Things
  <1>2. TypeOK'
    BY <1>0 DEF TypeOK, Destroying, Running, Starting, Stopping, Tasks, Things
  <1> QED  BY <1>1, <1>2 DEF IInv

LEMMA EndRoundPreserves ==
    ASSUME IInv, EndRound
    PROVE  IInv'
  <1> USE DEF EndRound, kernelVars, rcvVars, runtimeVars, serverVars, workerVars
  <1>0. TypeOK /\ RuntimeOwnsSockets /\ ThreadNeedsReceiver /\ ServerOwnsSockets /\
     TableOwnsConns /\ PoolInStep /\ NumbersInHand /\ SentMeansOnBus
    BY DEF IInv
  <1>1. (RuntimeOwnsSockets /\ ThreadNeedsReceiver /\ ServerOwnsSockets /\ TableOwnsConns /\
     PoolInStep /\ NumbersInHand /\ SentMeansOnBus)'
    BY <1>0 DEF RuntimeOwnsSockets, ThreadNeedsReceiver, ServerOwnsSockets, TableOwnsConns,
       PoolInStep, NumbersInHand, SentMeansOnBus, TypeOK, Destroying, Running, Starting,
       Stopping, Tasks, Things
  <1>2. TypeOK'
    BY <1>0 DEF TypeOK, Destroying, Running, Starting, Stopping, Tasks, Things
  <1> QED  BY <1>1, <1>2 DEF IInv

LEMMA AcceptPreserves ==
    ASSUME IInv, NEW c \in Conns, Accept(c)
    PROVE  IInv'
  <1> USE DEF Accept, Free, Opens, mainVars, rcvVars, runtimeVars, workerVars
  <1>0. TypeOK /\ RuntimeOwnsSockets /\ ThreadNeedsReceiver /\ ServerOwnsSockets /\
     TableOwnsConns /\ PoolInStep /\ NumbersInHand /\ SentMeansOnBus
    BY DEF IInv
  <1>1. (RuntimeOwnsSockets /\ ThreadNeedsReceiver /\ ServerOwnsSockets /\ PoolInStep /\
     SentMeansOnBus)'
    BY <1>0, FdsAssumption, DistinctAssumption DEF RuntimeOwnsSockets, ThreadNeedsReceiver,
       ServerOwnsSockets, PoolInStep, SentMeansOnBus, TypeOK, Destroying, Running, Starting,
       Stopping, Tasks, Things
  <1>2. TypeOK'
    BY <1>0 DEF TypeOK, Destroying, Running, Starting, Stopping, Tasks, Things
  <1>3. TableOwnsConns'
    BY <1>0, FdsAssumption, DistinctAssumption DEF TableOwnsConns, TypeOK, RuntimeOwnsSockets,
       ThreadNeedsReceiver, ServerOwnsSockets, PoolInStep, NumbersInHand, SentMeansOnBus,
       Destroying, Running, Starting, Stopping, Tasks, Things
  <1>4. NumbersInHand'
    BY <1>0, FdsAssumption, DistinctAssumption DEF NumbersInHand, TypeOK, RuntimeOwnsSockets,
       ThreadNeedsReceiver, ServerOwnsSockets, TableOwnsConns, PoolInStep, SentMeansOnBus,
       Destroying, Running, Starting, Stopping, Tasks, Things
  <1> QED  BY <1>1, <1>2, <1>3, <1>4 DEF IInv

LEMMA SubmitPreserves ==
    ASSUME IInv, NEW task \in Tasks, Submit(task)
    PROVE  IInv'
  <1> USE DEF Submit, kernelVars, mainVars, rcvVars, runtimeVars, workerVars
  <1>0. TypeOK /\ RuntimeOwnsSockets /\ ThreadNeedsReceiver /\ ServerOwnsSockets /\
     TableOwnsConns /\ PoolInStep /\ NumbersInHand /\ SentMeansOnBus
    BY DEF IInv
  <1>1. (RuntimeOwnsSockets /\ ThreadNeedsReceiver /\ ServerOwnsSockets /\ TableOwnsConns /\
     NumbersInHand /\ SentMeansOnBus)'
    BY <1>0 DEF RuntimeOwnsSockets, ThreadNeedsReceiver, ServerOwnsSockets, TableOwnsConns,
       NumbersInHand, SentMeansOnBus, TypeOK, Destroying, Running, Starting, Stopping, Tasks,
       Things
  <1>2. TypeOK'
    BY <1>0 DEF TypeOK, Destroying, Running, Starting, Stopping, Tasks, Things
  <1>3. PoolInStep'
    BY <1>0, FdsAssumption, DistinctAssumption DEF PoolInStep, TypeOK, TableOwnsConns,
       Destroying, Running, Starting, Stopping, Tasks, Things
  <1> QED  BY <1>1, <1>2, <1>3 DEF IInv

-----------------------------------------------------------------------------
(* main: CanRuntime::stop.                                                 *)

LEMMA StopReceiverPreserves ==
    ASSUME IInv, StopReceiver
    PROVE  IInv'
  <1> USE DEF StopReceiver, kernelVars, rcvVars, serverVars, workerVars
  <1>0. TypeOK /\ RuntimeOwnsSockets /\ ThreadNeedsReceiver /\ ServerOwnsSockets /\
     TableOwnsConns /\ PoolInStep /\ NumbersInHand /\ SentMeansOnBus
    BY DEF IInv
  <1>1. (RuntimeOwnsSockets /\ ThreadNeedsReceiver /\ ServerOwnsSockets /\ TableOwnsConns /\
     PoolInStep /\ NumbersInHand /\ SentMeansOnBus)'
    BY <1>0 DEF RuntimeOwnsSockets, ThreadNeedsReceiver, ServerOwnsSockets, TableOwnsConns,
       PoolInStep, NumbersInHand, SentMeansOnBus, TypeOK, Destroying, Running, Starting,
       Stopping, Tasks, Things
  <1>2. TypeOK'
    BY <1>0 DEF TypeOK, Destroying, Running, Starting, Stopping, Tasks, Things
  <1> QED  BY <1>1, <1>2 DEF IInv

LEMMA JoinReceiverPreserves ==
    ASSUME IInv, JoinReceiver
    PROVE  IInv'
  <1> USE DEF JoinReceiver, Joined, kernelVars, rcvVars, runtimeVars, serverVars, workerVars
  <1>0. TypeOK /\ RuntimeOwnsSockets /\ ThreadNeedsReceiver /\ ServerOwnsSockets /\
     TableOwnsConns /\ PoolInStep /\ NumbersInHand /\ SentMeansOnBus
    BY DEF IInv
  <1>1. (RuntimeOwnsSockets /\ ThreadNeedsReceiver /\ ServerOwnsSockets /\ TableOwnsConns /\
     PoolInStep /\ NumbersInHand /\ SentMeansOnBus)'
    BY <1>0 DEF RuntimeOwnsSockets, ThreadNeedsReceiver, ServerOwnsSockets, TableOwnsConns,
       PoolInStep, NumbersInHand, SentMeansOnBus, TypeOK, Destroying, Running, Starting,
       Stopping, Tasks, Things
  <1>2. TypeOK'
    BY <1>0 DEF TypeOK, Destroying, Running, Starting, Stopping, Tasks, Things
  <1> QED  BY <1>1, <1>2 DEF IInv

LEMMA CloseReceiverPreserves ==
    ASSUME IInv, CloseReceiver
    PROVE  IInv'
  <1> USE DEF CloseReceiver, Closes, rcvVars, serverVars, workerVars
  <1>0. TypeOK /\ RuntimeOwnsSockets /\ ThreadNeedsReceiver /\ ServerOwnsSockets /\
     TableOwnsConns /\ PoolInStep /\ NumbersInHand /\ SentMeansOnBus
    BY DEF IInv
  <1>1. (RuntimeOwnsSockets /\ ThreadNeedsReceiver /\ PoolInStep /\ SentMeansOnBus)'
    BY <1>0, FdsAssumption, DistinctAssumption DEF RuntimeOwnsSockets, ThreadNeedsReceiver,
       PoolInStep, SentMeansOnBus, TypeOK, Destroying, Running, Starting, Stopping, Tasks,
       Things
  <1>2. TypeOK'
    BY <1>0 DEF TypeOK, Destroying, Running, Starting, Stopping, Tasks, Things
  <1>3. ServerOwnsSockets'
    BY <1>0, FdsAssumption, DistinctAssumption DEF ServerOwnsSockets, TypeOK,
       RuntimeOwnsSockets, Destroying, Running, Starting, Stopping, Tasks, Things
  <1>4. TableOwnsConns'
    BY <1>0, FdsAssumption, DistinctAssumption DEF TableOwnsConns, TypeOK, RuntimeOwnsSockets,
       Destroying, Running, Starting, Stopping, Tasks, Things
  <1>5. NumbersInHand'
    BY <1>0, FdsAssumption, DistinctAssumption DEF NumbersInHand, TypeOK, RuntimeOwnsSockets,
       Destroying, Running, Starting, Stopping, Tasks, Things
  <1> QED  BY <1>1, <1>2, <1>3, <1>4, <1>5 DEF IInv

LEMMA ResetReceiverPreserves ==
    ASSUME IInv, ResetReceiver
    PROVE  IInv'
  <1> USE DEF ResetReceiver, Closes, rcvVars, serverVars, workerVars
  <1>0. TypeOK /\ RuntimeOwnsSockets /\ ThreadNeedsReceiver /\ ServerOwnsSockets /\
     TableOwnsConns /\ PoolInStep /\ NumbersInHand /\ SentMeansOnBus
    BY DEF IInv
  <1>1. (RuntimeOwnsSockets /\ PoolInStep /\ SentMeansOnBus)'
    BY <1>0, FdsAssumption, DistinctAssumption DEF RuntimeOwnsSockets, PoolInStep,
       SentMeansOnBus, TypeOK, Destroying, Running, Starting, Stopping, Tasks, Things
  <1>2. TypeOK'
    BY <1>0 DEF TypeOK, Destroying, Running, Starting, Stopping, Tasks, Things
  <1>3. ThreadNeedsReceiver'
    BY <1>0 DEF ThreadNeedsReceiver, TypeOK, RuntimeOwnsSockets, Destroying, Running, Starting,
       Stopping, Tasks, Things
  <1>4. ServerOwnsSockets'
    BY <1>0 DEF ServerOwnsSockets, TypeOK, RuntimeOwnsSockets, Destroying, Running, Starting,
       Stopping, Tasks, Things
  <1>5. TableOwnsConns'
    BY <1>0, FdsAssumption, DistinctAssumption DEF TableOwnsConns, TypeOK, RuntimeOwnsSockets,
       Destroying, Running, Starting, Stopping, Tasks, Things
  <1>6. NumbersInHand'
    BY <1>0 DEF NumbersInHand, TypeOK, RuntimeOwnsSockets, Destroying, Running, Starting,
       Stopping, Tasks, Things
  <1> QED  BY <1>1, <1>2, <1>3, <1>4, <1>5, <1>6 DEF IInv

LEMMA CloseSenderPreserves ==
    ASSUME IInv, CloseSender
    PROVE  IInv'
  <1> USE DEF CloseSender, Closes, rcvVars, serverVars, workerVars
  <1>0. TypeOK /\ RuntimeOwnsSockets /\ ThreadNeedsReceiver /\ ServerOwnsSockets /\
     TableOwnsConns /\ PoolInStep /\ NumbersInHand /\ SentMeansOnBus
    BY DEF IInv
  <1>1. (RuntimeOwnsSockets /\ ThreadNeedsReceiver /\ PoolInStep /\ SentMeansOnBus)'
    BY <1>0, FdsAssumption, DistinctAssumption DEF RuntimeOwnsSockets, ThreadNeedsReceiver,
       PoolInStep, SentMeansOnBus, TypeOK, Destroying, Running, Starting, Stopping, Tasks,
       Things
  <1>2. TypeOK'
    BY <1>0 DEF TypeOK, Destroying, Running, Starting, Stopping, Tasks, Things
  <1>3. ServerOwnsSockets'
    BY <1>0, FdsAssumption, DistinctAssumption DEF ServerOwnsSockets, TypeOK,
       RuntimeOwnsSockets, Destroying, Running, Starting, Stopping, Tasks, Things
  <1>4. TableOwnsConns'
    BY <1>0, FdsAssumption, DistinctAssumption DEF TableOwnsConns, TypeOK, RuntimeOwnsSockets,
       Destroying, Running, Starting, Stopping, Tasks, Things
  <1>5. NumbersInHand'
    BY <1>0, FdsAssumption, DistinctAssumption DEF NumbersInHand, TypeOK, RuntimeOwnsSockets,
       Destroying, Running, Starting, Stopping, Tasks, Things
  <1> QED  BY <1>1, <1>2, <1>3, <1>4, <1>5 DEF IInv

-----------------------------------------------------------------------------
(* main: the destructors.                                                  *)

LEMMA CloseListenPreserves ==
    ASSUME IInv, CloseListen
    PROVE  IInv'
  <1> USE DEF CloseListen, Closes, rcvVars, runtimeVars, serverVars, workerVars
  <1>0. TypeOK /\ RuntimeOwnsSockets /\ ThreadNeedsReceiver /\ ServerOwnsSockets /\
     TableOwnsConns /\ PoolInStep /\ NumbersInHand /\ SentMeansOnBus
    BY DEF IInv
  <1>1. (RuntimeOwnsSockets /\ ThreadNeedsReceiver /\ NumbersInHand /\ SentMeansOnBus)'
    BY <1>0, FdsAssumption, DistinctAssumption DEF RuntimeOwnsSockets, ThreadNeedsReceiver,
       NumbersInHand, SentMeansOnBus, TypeOK, Destroying, Running, Starting, Stopping, Tasks,
       Things
  <1>2. TypeOK'
    BY <1>0 DEF TypeOK, Destroying, Running, Starting, Stopping, Tasks, Things
  <1>3. ServerOwnsSockets'
    BY <1>0, FdsAssumption, DistinctAssumption DEF ServerOwnsSockets, TypeOK,
       RuntimeOwnsSockets, Destroying, Running, Starting, Stopping, Tasks, Things
  <1>4. TableOwnsConns'
    BY <1>0, FdsAssumption, DistinctAssumption DEF TableOwnsConns, TypeOK, ServerOwnsSockets,
       Destroying, Running, Starting, Stopping, Tasks, Things
  <1>5. PoolInStep'
    BY <1>0 DEF PoolInStep, TypeOK, RuntimeOwnsSockets, Destroying, Running, Starting, Stopping,
       Tasks, Things
  <1> QED  BY <1>1, <1>2, <1>3, <1>4, <1>5 DEF IInv

LEMMA CloseEpollPreserves ==
    ASSUME IInv, CloseEpoll
    PROVE  IInv'
  <1> USE DEF CloseEpoll, Closes, rcvVars, runtimeVars, serverVars, workerVars
  <1>0. TypeOK /\ RuntimeOwnsSockets /\ ThreadNeedsReceiver /\ ServerOwnsSockets /\
     TableOwnsConns /\ PoolInStep /\ NumbersInHand /\ SentMeansOnBus
    BY DEF IInv
  <1>1. (RuntimeOwnsSockets /\ ThreadNeedsReceiver /\ ServerOwnsSockets /\ PoolInStep /\
     SentMeansOnBus)'
    BY <1>0, FdsAssumption, DistinctAssumption DEF RuntimeOwnsSockets, ThreadNeedsReceiver,
       ServerOwnsSockets, PoolInStep, SentMeansOnBus, TypeOK, Destroying, Running, Starting,
       Stopping, Tasks, Things
  <1>2. TypeOK'
    BY <1>0 DEF TypeOK, Destroying, Running, Starting, Stopping, Tasks, Things
  <1>3. TableOwnsConns'
    BY <1>0, FdsAssumption, DistinctAssumption DEF TableOwnsConns, TypeOK, ServerOwnsSockets,
       Destroying, Running, Starting, Stopping, Tasks, Things
  <1>4. NumbersInHand'
    BY <1>0, FdsAssumption, DistinctAssumption DEF NumbersInHand, TypeOK, RuntimeOwnsSockets,
       ThreadNeedsReceiver, ServerOwnsSockets, TableOwnsConns, PoolInStep, SentMeansOnBus,
       Destroying, Running, Starting, Stopping, Tasks, Things
  <1> QED  BY <1>1, <1>2, <1>3, <1>4 DEF IInv

LEMMA ClearConnsPreserves ==
    ASSUME IInv, ClearConns
    PROVE  IInv'
  <1> USE DEF ClearConns, AfterClear, kernelVars, rcvVars, runtimeVars, serverVars, workerVars
  <1>0. TypeOK /\ RuntimeOwnsSockets /\ ThreadNeedsReceiver /\ ServerOwnsSockets /\
     TableOwnsConns /\ PoolInStep /\ NumbersInHand /\ SentMeansOnBus
    BY DEF IInv
  <1>1. (RuntimeOwnsSockets /\ ThreadNeedsReceiver /\ ServerOwnsSockets /\ TableOwnsConns /\
     PoolInStep /\ NumbersInHand /\ SentMeansOnBus)'
    BY <1>0 DEF RuntimeOwnsSockets, ThreadNeedsReceiver, ServerOwnsSockets, TableOwnsConns,
       PoolInStep, NumbersInHand, SentMeansOnBus, TypeOK, Destroying, Running, Starting,
       Stopping, Tasks, Things
  <1>2. TypeOK'
    BY <1>0 DEF TypeOK, Destroying, Running, Starting, Stopping, Tasks, Things
  <1> QED  BY <1>1, <1>2 DEF IInv

LEMMA CloseConnPreserves ==
    ASSUME IInv, NEW f \in Fds, CloseConn(f)
    PROVE  IInv'
  <1> USE DEF CloseConn, Closes, mainVars, rcvVars, runtimeVars, workerVars
  <1>0. TypeOK /\ RuntimeOwnsSockets /\ ThreadNeedsReceiver /\ ServerOwnsSockets /\
     TableOwnsConns /\ PoolInStep /\ NumbersInHand /\ SentMeansOnBus
    BY DEF IInv
  <1>1. (RuntimeOwnsSockets /\ ThreadNeedsReceiver /\ ServerOwnsSockets /\ TableOwnsConns /\
     PoolInStep /\ SentMeansOnBus)'
    BY <1>0, FdsAssumption, DistinctAssumption DEF RuntimeOwnsSockets, ThreadNeedsReceiver,
       ServerOwnsSockets, TableOwnsConns, PoolInStep, SentMeansOnBus, TypeOK, Destroying,
       Running, Starting, Stopping, Tasks, Things
  <1>2. TypeOK'
    BY <1>0 DEF TypeOK, Destroying, Running, Starting, Stopping, Tasks, Things
  <1>3. NumbersInHand'
    BY <1>0, FdsAssumption, DistinctAssumption DEF NumbersInHand, TypeOK, TableOwnsConns,
       Destroying, Running, Starting, Stopping, Tasks, Things
  <1> QED  BY <1>1, <1>2, <1>3 DEF IInv

LEMMA StopPoolPreserves ==
    ASSUME IInv, StopPool
    PROVE  IInv'
  <1> USE DEF StopPool, kernelVars, rcvVars, runtimeVars, workerVars
  <1>0. TypeOK /\ RuntimeOwnsSockets /\ ThreadNeedsReceiver /\ ServerOwnsSockets /\
     TableOwnsConns /\ PoolInStep /\ NumbersInHand /\ SentMeansOnBus
    BY DEF IInv
  <1>1. (RuntimeOwnsSockets /\ ThreadNeedsReceiver /\ ServerOwnsSockets /\ TableOwnsConns /\
     NumbersInHand /\ SentMeansOnBus)'
    BY <1>0 DEF RuntimeOwnsSockets, ThreadNeedsReceiver, ServerOwnsSockets, TableOwnsConns,
       NumbersInHand, SentMeansOnBus, TypeOK, Destroying, Running, Starting, Stopping, Tasks,
       Things
  <1>2. TypeOK'
    BY <1>0 DEF TypeOK, Destroying, Running, Starting, Stopping, Tasks, Things
  <1>3. PoolInStep'
    BY <1>0 DEF PoolInStep, TypeOK, RuntimeOwnsSockets, ServerOwnsSockets, Destroying, Running,
       Starting, Stopping, Tasks, Things
  <1> QED  BY <1>1, <1>2, <1>3 DEF IInv

LEMMA JoinPoolPreserves ==
    ASSUME IInv, JoinPool
    PROVE  IInv'
  <1> USE DEF JoinPool, kernelVars, rcvVars, runtimeVars, serverVars, workerVars
  <1>0. TypeOK /\ RuntimeOwnsSockets /\ ThreadNeedsReceiver /\ ServerOwnsSockets /\
     TableOwnsConns /\ PoolInStep /\ NumbersInHand /\ SentMeansOnBus
    BY DEF IInv
  <1>1. (RuntimeOwnsSockets /\ ThreadNeedsReceiver /\ ServerOwnsSockets /\ TableOwnsConns /\
     NumbersInHand /\ SentMeansOnBus)'
    BY <1>0 DEF RuntimeOwnsSockets, ThreadNeedsReceiver, ServerOwnsSockets, TableOwnsConns,
       NumbersInHand, SentMeansOnBus, TypeOK, Destroying, Running, Starting, Stopping, Tasks,
       Things
  <1>2. TypeOK'
    BY <1>0 DEF TypeOK, Destroying, Running, Starting, Stopping, Tasks, Things
  <1>3. PoolInStep'
    <2>1. \E w \in Workers : pc[w] = "done"
      BY WorkersAssumption
    <2>2. task_queue = <<>>
      BY <1>0, <2>1 DEF PoolInStep
    <2> QED  BY <1>0, <2>2 DEF PoolInStep, ServerOwnsSockets, RuntimeOwnsSockets, Starting, Running, Stopping, Destroying
  <1> QED  BY <1>1, <1>2, <1>3 DEF IInv

LEMMA DestroyLoopPreserves ==
    ASSUME IInv, DestroyLoop
    PROVE  IInv'
  <1> USE DEF DestroyLoop, kernelVars, rcvVars, runtimeVars, serverVars, workerVars
  <1>0. TypeOK /\ RuntimeOwnsSockets /\ ThreadNeedsReceiver /\ ServerOwnsSockets /\
     TableOwnsConns /\ PoolInStep /\ NumbersInHand /\ SentMeansOnBus
    BY DEF IInv
  <1>1. (RuntimeOwnsSockets /\ ThreadNeedsReceiver /\ ServerOwnsSockets /\ TableOwnsConns /\
     PoolInStep /\ NumbersInHand /\ SentMeansOnBus)'
    BY <1>0 DEF RuntimeOwnsSockets, ThreadNeedsReceiver, ServerOwnsSockets, TableOwnsConns,
       PoolInStep, NumbersInHand, SentMeansOnBus, TypeOK, Destroying, Running, Starting,
       Stopping, Tasks, Things
  <1>2. TypeOK'
    BY <1>0 DEF TypeOK, Destroying, Running, Starting, Stopping, Tasks, Things
  <1> QED  BY <1>1, <1>2 DEF IInv

-----------------------------------------------------------------------------
(* The receive thread.                                                     *)

LEMMA RcvCheckPreserves ==
    ASSUME IInv, RcvCheck
    PROVE  IInv'
  <1> USE DEF RcvCheck, kernelVars, mainVars, runtimeVars, serverVars, workerVars
  <1>0. TypeOK /\ RuntimeOwnsSockets /\ ThreadNeedsReceiver /\ ServerOwnsSockets /\
     TableOwnsConns /\ PoolInStep /\ NumbersInHand /\ SentMeansOnBus
    BY DEF IInv
  <1>1. (RuntimeOwnsSockets /\ ThreadNeedsReceiver /\ ServerOwnsSockets /\ TableOwnsConns /\
     PoolInStep /\ NumbersInHand /\ SentMeansOnBus)'
    BY <1>0 DEF RuntimeOwnsSockets, ThreadNeedsReceiver, ServerOwnsSockets, TableOwnsConns,
       PoolInStep, NumbersInHand, SentMeansOnBus, TypeOK, Destroying, Running, Starting,
       Stopping, Tasks, Things
  <1>2. TypeOK'
    BY <1>0 DEF TypeOK, Destroying, Running, Starting, Stopping, Tasks, Things
  <1> QED  BY <1>1, <1>2 DEF IInv

LEMMA RcvPollPreserves ==
    ASSUME IInv, RcvPoll
    PROVE  IInv'
  <1> USE DEF RcvPoll, Readable, mainVars, runtimeVars, serverVars, workerVars
  <1>0. TypeOK /\ RuntimeOwnsSockets /\ ThreadNeedsReceiver /\ ServerOwnsSockets /\
     TableOwnsConns /\ PoolInStep /\ NumbersInHand /\ SentMeansOnBus
    BY DEF IInv
  <1>1. (RuntimeOwnsSockets /\ ThreadNeedsReceiver /\ ServerOwnsSockets /\ TableOwnsConns /\
     PoolInStep /\ NumbersInHand /\ SentMeansOnBus)'
    BY <1>0 DEF RuntimeOwnsSockets, ThreadNeedsReceiver, ServerOwnsSockets, TableOwnsConns,
       PoolInStep, NumbersInHand, SentMeansOnBus, TypeOK, Destroying, Running, Starting,
       Stopping, Tasks, Things
  <1>2. TypeOK'
    BY <1>0 DEF TypeOK, Destroying, Running, Starting, Stopping, Tasks, Things
  <1> QED  BY <1>1, <1>2 DEF IInv

LEMMA RcvAppendPreserves ==
    ASSUME IInv, RcvAppend
    PROVE  IInv'
  <1> USE DEF RcvAppend, kernelVars, mainVars, runtimeVars, serverVars, workerVars
  <1>0. TypeOK /\ RuntimeOwnsSockets /\ ThreadNeedsReceiver /\ ServerOwnsSockets /\
     TableOwnsConns /\ PoolInStep /\ NumbersInHand /\ SentMeansOnBus
    BY DEF IInv
  <1>1. (RuntimeOwnsSockets /\ ThreadNeedsReceiver /\ ServerOwnsSockets /\ TableOwnsConns /\
     PoolInStep /\ NumbersInHand /\ SentMeansOnBus)'
    BY <1>0 DEF RuntimeOwnsSockets, ThreadNeedsReceiver, ServerOwnsSockets, TableOwnsConns,
       PoolInStep, NumbersInHand, SentMeansOnBus, TypeOK, Destroying, Running, Starting,
       Stopping, Tasks, Things
  <1>2. TypeOK'
    BY <1>0 DEF TypeOK, Destroying, Running, Starting, Stopping, Tasks, Things
  <1> QED  BY <1>1, <1>2 DEF IInv

-----------------------------------------------------------------------------
(* The workers.                                                            *)

LEMMA TakePreserves ==
    ASSUME IInv, NEW w \in Workers, Take(w)
    PROVE  IInv'
  <1> USE DEF Take, Goto, kernelVars, mainVars, rcvVars, runtimeVars
  <1>0. TypeOK /\ RuntimeOwnsSockets /\ ThreadNeedsReceiver /\ ServerOwnsSockets /\
     TableOwnsConns /\ PoolInStep /\ NumbersInHand /\ SentMeansOnBus
    BY DEF IInv
  <1>1. (RuntimeOwnsSockets /\ ThreadNeedsReceiver /\ ServerOwnsSockets /\ TableOwnsConns /\
     PoolInStep /\ NumbersInHand /\ SentMeansOnBus)'
    BY <1>0 DEF RuntimeOwnsSockets, ThreadNeedsReceiver, ServerOwnsSockets, TableOwnsConns,
       PoolInStep, NumbersInHand, SentMeansOnBus, TypeOK, Destroying, Running, Starting,
       Stopping, Tasks, Things
  <1>2. TypeOK'
    BY <1>0 DEF TypeOK, Destroying, Running, Starting, Stopping, Tasks, Things
  <1> QED  BY <1>1, <1>2 DEF IInv

LEMMA ReturnPreserves ==
    ASSUME IInv, NEW w \in Workers, Return(w)
    PROVE  IInv'
  <1> USE DEF Return, Goto, MayReturn, kernelVars, mainVars, rcvVars, runtimeVars, serverVars
  <1>0. TypeOK /\ RuntimeOwnsSockets /\ ThreadNeedsReceiver /\ ServerOwnsSockets /\
     TableOwnsConns /\ PoolInStep /\ NumbersInHand /\ SentMeansOnBus
    BY DEF IInv
  <1>1. (RuntimeOwnsSockets /\ ThreadNeedsReceiver /\ ServerOwnsSockets /\ TableOwnsConns /\
     PoolInStep /\ NumbersInHand /\ SentMeansOnBus)'
    BY <1>0 DEF RuntimeOwnsSockets, ThreadNeedsReceiver, ServerOwnsSockets, TableOwnsConns,
       PoolInStep, NumbersInHand, SentMeansOnBus, TypeOK, Destroying, Running, Starting,
       Stopping, Tasks, Things
  <1>2. TypeOK'
    BY <1>0 DEF TypeOK, Destroying, Running, Starting, Stopping, Tasks, Things
  <1> QED  BY <1>1, <1>2 DEF IInv

LEMMA IsOpenPreserves ==
    ASSUME IInv, NEW w \in Workers, IsOpen(w)
    PROVE  IInv'
  <1> USE DEF IsOpen, Goto, kernelVars, mainVars, rcvVars, runtimeVars, serverVars
  <1>0. TypeOK /\ RuntimeOwnsSockets /\ ThreadNeedsReceiver /\ ServerOwnsSockets /\
     TableOwnsConns /\ PoolInStep /\ NumbersInHand /\ SentMeansOnBus
    BY DEF IInv
  <1>1. (RuntimeOwnsSockets /\ ThreadNeedsReceiver /\ ServerOwnsSockets /\ TableOwnsConns /\
     PoolInStep /\ NumbersInHand /\ SentMeansOnBus)'
    BY <1>0 DEF RuntimeOwnsSockets, ThreadNeedsReceiver, ServerOwnsSockets, TableOwnsConns,
       PoolInStep, NumbersInHand, SentMeansOnBus, TypeOK, Destroying, Running, Starting,
       Stopping, Tasks, Things
  <1>2. TypeOK'
    BY <1>0 DEF TypeOK, Destroying, Running, Starting, Stopping, Tasks, Things
  <1> QED  BY <1>1, <1>2 DEF IInv

LEMMA LoadPreserves ==
    ASSUME IInv, NEW w \in Workers, Load(w)
    PROVE  IInv'
  <1> USE DEF Load, Goto, kernelVars, mainVars, rcvVars, runtimeVars, serverVars
  <1>0. TypeOK /\ RuntimeOwnsSockets /\ ThreadNeedsReceiver /\ ServerOwnsSockets /\
     TableOwnsConns /\ PoolInStep /\ NumbersInHand /\ SentMeansOnBus
    BY DEF IInv
  <1>1. (RuntimeOwnsSockets /\ ThreadNeedsReceiver /\ ServerOwnsSockets /\ TableOwnsConns /\
     PoolInStep /\ SentMeansOnBus)'
    BY <1>0 DEF RuntimeOwnsSockets, ThreadNeedsReceiver, ServerOwnsSockets, TableOwnsConns,
       PoolInStep, SentMeansOnBus, TypeOK, Destroying, Running, Starting, Stopping, Tasks,
       Things
  <1>2. TypeOK'
    BY <1>0 DEF TypeOK, Destroying, Running, Starting, Stopping, Tasks, Things
  <1>3. NumbersInHand'
    BY <1>0 DEF NumbersInHand, TypeOK, RuntimeOwnsSockets, Destroying, Running, Starting,
       Stopping, Tasks, Things
  <1> QED  BY <1>1, <1>2, <1>3 DEF IInv

LEMMA WriteFramePreserves ==
    ASSUME IInv, NEW w \in Workers, WriteFrame(w)
    PROVE  IInv'
  <1> USE DEF WriteFrame, Goto, TakesWrites, mainVars, rcvVars, runtimeVars, serverVars
  <1>0. TypeOK /\ RuntimeOwnsSockets /\ ThreadNeedsReceiver /\ ServerOwnsSockets /\
     TableOwnsConns /\ PoolInStep /\ NumbersInHand /\ SentMeansOnBus
    BY DEF IInv
  <1>1. (RuntimeOwnsSockets /\ ThreadNeedsReceiver /\ ServerOwnsSockets /\ TableOwnsConns /\
     PoolInStep /\ NumbersInHand)'
    BY <1>0 DEF RuntimeOwnsSockets, ThreadNeedsReceiver, ServerOwnsSockets, TableOwnsConns,
       PoolInStep, NumbersInHand, TypeOK, Destroying, Running, Starting, Stopping, Tasks, Things
  <1>2. TypeOK'
    BY <1>0 DEF TypeOK, Destroying, Running, Starting, Stopping, Tasks, Things
  <1>3. SentMeansOnBus'
    BY <1>0, FdsAssumption, DistinctAssumption DEF SentMeansOnBus, TypeOK, NumbersInHand,
       Destroying, Running, Starting, Stopping, Tasks, Things
  <1> QED  BY <1>1, <1>2, <1>3 DEF IInv

LEMMA OpenPagePreserves ==
    ASSUME IInv, NEW w \in Workers, OpenPage(w)
    PROVE  IInv'
  <1> USE DEF OpenPage, Free, Goto, Opens, mainVars, rcvVars, runtimeVars, serverVars
  <1>0. TypeOK /\ RuntimeOwnsSockets /\ ThreadNeedsReceiver /\ ServerOwnsSockets /\
     TableOwnsConns /\ PoolInStep /\ NumbersInHand /\ SentMeansOnBus
    BY DEF IInv
  <1>1. (RuntimeOwnsSockets /\ ThreadNeedsReceiver /\ ServerOwnsSockets /\ TableOwnsConns /\
     PoolInStep /\ SentMeansOnBus)'
    BY <1>0, FdsAssumption, DistinctAssumption DEF RuntimeOwnsSockets, ThreadNeedsReceiver,
       ServerOwnsSockets, TableOwnsConns, PoolInStep, SentMeansOnBus, TypeOK, Destroying,
       Running, Starting, Stopping, Tasks, Things
  <1>2. TypeOK'
    <2>1. file' \in [Fds -> Things \cup {None}] /\ fd' \in [Workers -> Fds \cup {0}]
      BY <1>0 DEF TypeOK, Things
    <2>2. pc' = [pc EXCEPT ![w] = "respond"]
      OBVIOUS
    <2> QED  BY <1>0, <2>1, <2>2 DEF TypeOK, mainVars, runtimeVars, rcvVars, serverVars
  <1>3. NumbersInHand'
    <2>1. CASE UNCHANGED <<file, fd>>
      BY <1>0, <2>1 DEF TypeOK, NumbersInHand, mainVars, runtimeVars, serverVars
    <2>2. ASSUME NEW f \in Fds, Opens(f, w), fd' = [fd EXCEPT ![w] = f]
          PROVE  NumbersInHand'
      <3>1. /\ file[f] = None /\ file' = [file EXCEPT ![f] = w]
            /\ file \in [Fds -> Things \cup {None}] /\ fd \in [Workers -> Fds \cup {0}]
            /\ pc \in [Workers -> {"off", "idle", "isOpen", "load", "write", "openPage", "respond",
                                   "closePage", "done"}]
            /\ f # 0 /\ w # None
        BY <1>0, <2>2, FdsAssumption, DistinctAssumption DEF TypeOK, Free, Opens
      <3>2. UNCHANGED <<main, sender_fd, listen_fd, work>> /\ work[w] = "page" /\ pc[w] = "openPage"
        BY <1>0 DEF NumbersInHand, mainVars, runtimeVars, serverVars
      <3>3. pc' = [pc EXCEPT ![w] = "respond"]
        BY DEF Goto
      <3>4. \A v \in Workers : file[f] # v
        BY <3>1, DistinctAssumption
      <3> HIDE DEF OpenPage
      <3>5. ASSUME NEW v \in Workers, v # w
            PROVE  /\ pc'[v] = pc[v] /\ fd'[v] = fd[v]
                   /\ fd[v] # 0 /\ file[fd[v]] \in Workers \cup {"sender", None} =>
                         file'[fd[v]] \in {file[fd[v]], w}
                   /\ fd[v] # 0 /\ file[fd[v]] = v => file'[fd[v]] = v
                   /\ \A g \in Fds : file'[g] = v => file[g] = v
        BY <2>2, <3>1, <3>3, <3>4, <3>5
      <3>6. \A g \in Fds : file'[g] = w => g = f
        BY <1>0, <3>1, <3>2 DEF NumbersInHand
      <3>7. file'[f] = w /\ fd'[w] = f /\ pc'[w] = "respond"
        BY <2>2, <3>1, <3>3
      <3> QED  BY <1>0, <3>1, <3>2, <3>5, <3>6, <3>7 DEF NumbersInHand
    <2> QED  BY <2>1, <2>2
  <1> QED  BY <1>1, <1>2, <1>3 DEF IInv

LEMMA RespondPreserves ==
    ASSUME IInv, NEW w \in Workers, Respond(w)
    PROVE  IInv'
  <1> USE DEF Respond, Goto, kernelVars, mainVars, rcvVars, runtimeVars, serverVars
  <1>0. TypeOK /\ RuntimeOwnsSockets /\ ThreadNeedsReceiver /\ ServerOwnsSockets /\
     TableOwnsConns /\ PoolInStep /\ NumbersInHand /\ SentMeansOnBus
    BY DEF IInv
  <1>1. (RuntimeOwnsSockets /\ ThreadNeedsReceiver /\ ServerOwnsSockets /\ TableOwnsConns /\
     PoolInStep /\ NumbersInHand /\ SentMeansOnBus)'
    BY <1>0 DEF RuntimeOwnsSockets, ThreadNeedsReceiver, ServerOwnsSockets, TableOwnsConns,
       PoolInStep, NumbersInHand, SentMeansOnBus, TypeOK, Destroying, Running, Starting,
       Stopping, Tasks, Things
  <1>2. TypeOK'
    BY <1>0 DEF TypeOK, Destroying, Running, Starting, Stopping, Tasks, Things
  <1> QED  BY <1>1, <1>2 DEF IInv

LEMMA ClosePagePreserves ==
    ASSUME IInv, NEW w \in Workers, ClosePage(w)
    PROVE  IInv'
  <1> USE DEF ClosePage, Closes, Goto, mainVars, rcvVars, runtimeVars, serverVars
  <1>0. TypeOK /\ RuntimeOwnsSockets /\ ThreadNeedsReceiver /\ ServerOwnsSockets /\
     TableOwnsConns /\ PoolInStep /\ NumbersInHand /\ SentMeansOnBus
    BY DEF IInv
  <1>1. (ThreadNeedsReceiver /\ PoolInStep /\ NumbersInHand /\ SentMeansOnBus)'
    BY <1>0, FdsAssumption, DistinctAssumption DEF ThreadNeedsReceiver, PoolInStep,
       NumbersInHand, SentMeansOnBus, TypeOK, Destroying, Running, Starting, Stopping, Tasks,
       Things
  <1>2. TypeOK'
    BY <1>0 DEF TypeOK, Destroying, Running, Starting, Stopping, Tasks, Things
  <1>3. RuntimeOwnsSockets'
    BY <1>0, FdsAssumption, DistinctAssumption DEF RuntimeOwnsSockets, TypeOK, NumbersInHand,
       Destroying, Running, Starting, Stopping, Tasks, Things
  <1>4. ServerOwnsSockets'
    BY <1>0, FdsAssumption, DistinctAssumption DEF ServerOwnsSockets, TypeOK, NumbersInHand,
       Destroying, Running, Starting, Stopping, Tasks, Things
  <1>5. TableOwnsConns'
    BY <1>0, FdsAssumption, DistinctAssumption DEF TableOwnsConns, TypeOK, NumbersInHand,
       Destroying, Running, Starting, Stopping, Tasks, Things
  <1> QED  BY <1>1, <1>2, <1>3, <1>4, <1>5 DEF IInv

-----------------------------------------------------------------------------
(* The outside.                                                            *)

LEMMA SignalPreserves ==
    ASSUME IInv, Signal
    PROVE  IInv'
  <1> USE DEF Signal, kernelVars, mainVars, rcvVars, runtimeVars, serverVars, workerVars
  <1>0. TypeOK /\ RuntimeOwnsSockets /\ ThreadNeedsReceiver /\ ServerOwnsSockets /\
     TableOwnsConns /\ PoolInStep /\ NumbersInHand /\ SentMeansOnBus
    BY DEF IInv
  <1>1. (RuntimeOwnsSockets /\ ThreadNeedsReceiver /\ ServerOwnsSockets /\ TableOwnsConns /\
     PoolInStep /\ NumbersInHand /\ SentMeansOnBus)'
    BY <1>0 DEF RuntimeOwnsSockets, ThreadNeedsReceiver, ServerOwnsSockets, TableOwnsConns,
       PoolInStep, NumbersInHand, SentMeansOnBus, TypeOK, Destroying, Running, Starting,
       Stopping, Tasks, Things
  <1>2. TypeOK'
    BY <1>0 DEF TypeOK, Destroying, Running, Starting, Stopping, Tasks, Things
  <1> QED  BY <1>1, <1>2 DEF IInv

LEMMA BusFramePreserves ==
    ASSUME IInv, BusFrame
    PROVE  IInv'
  <1> USE DEF BusFrame, mainVars, rcvVars, runtimeVars, serverVars, workerVars
  <1>0. TypeOK /\ RuntimeOwnsSockets /\ ThreadNeedsReceiver /\ ServerOwnsSockets /\
     TableOwnsConns /\ PoolInStep /\ NumbersInHand /\ SentMeansOnBus
    BY DEF IInv
  <1>1. (RuntimeOwnsSockets /\ ThreadNeedsReceiver /\ ServerOwnsSockets /\ TableOwnsConns /\
     PoolInStep /\ NumbersInHand /\ SentMeansOnBus)'
    BY <1>0 DEF RuntimeOwnsSockets, ThreadNeedsReceiver, ServerOwnsSockets, TableOwnsConns,
       PoolInStep, NumbersInHand, SentMeansOnBus, TypeOK, Destroying, Running, Starting,
       Stopping, Tasks, Things
  <1>2. TypeOK'
    BY <1>0 DEF TypeOK, Destroying, Running, Starting, Stopping, Tasks, Things
  <1> QED  BY <1>1, <1>2 DEF IInv

-----------------------------------------------------------------------------
(* The theorems.                                                           *)

LEMMA NextIInv == IInv /\ [Next]_vars => IInv'
  <1> SUFFICES ASSUME IInv, [Next]_vars PROVE IInv'
    OBVIOUS
  <1>1. CASE UNCHANGED vars
    BY <1>1 DEF IInv, vars, kernelVars, mainVars, runtimeVars, rcvVars, serverVars, workerVars,
                TypeOK, RuntimeOwnsSockets, ThreadNeedsReceiver, ServerOwnsSockets,
                TableOwnsConns, PoolInStep, NumbersInHand, SentMeansOnBus
  <1>2. CASE MainStep
    BY <1>2, OpenSenderPreserves, OpenReceiverPreserves, StartThreadPreserves,
       OpenListenPreserves, OpenEpollPreserves, EpollFailsPreserves, StartPoolPreserves,
       PoolFailsPreserves,
       LoopCheckPreserves, EndRoundPreserves, AcceptPreserves, SubmitPreserves,
       StopReceiverPreserves, JoinReceiverPreserves, CloseReceiverPreserves,
       ResetReceiverPreserves, CloseSenderPreserves, CloseListenPreserves,
       CloseEpollPreserves, ClearConnsPreserves, CloseConnPreserves, StopPoolPreserves,
       JoinPoolPreserves, DestroyLoopPreserves
       DEF MainStep
  <1>3. CASE RcvStep
    BY <1>3, RcvCheckPreserves, RcvPollPreserves, RcvAppendPreserves DEF RcvStep
  <1>4. ASSUME NEW w \in Workers, WorkerStep(w) PROVE IInv'
    BY <1>4, TakePreserves, ReturnPreserves, IsOpenPreserves, LoadPreserves,
       WriteFramePreserves, OpenPagePreserves, RespondPreserves, ClosePagePreserves
       DEF WorkerStep
  <1> QED  BY <1>1, <1>2, <1>3, <1>4, SignalPreserves, BusFramePreserves DEF Next

\* In every reachable state the descriptors, the table, the receive thread and
\* the pool are in step with main: what the theorems below rest on.
THEOREM LifecycleInvariant == Spec => []IInv
  BY InitIInv, NextIInv, PTL DEF Spec

\* Every variable has its type: no read takes a frame that is not there, and
\* no thread reaches a point its code does not have.
THEOREM TypeCorrect == Spec => []TypeOK
  <1>1. IInv => TypeOK
    BY DEF IInv
  <1> QED  BY <1>1, LifecycleInvariant, PTL

\* However main is interrupted, the receive thread only polls the socket that
\* was opened for it: CanReceiver::stop joins the thread before the close.
THEOREM ReceiverPollsItsSocket == Spec => []PollsOwnSocket
  <1>1. IInv => PollsOwnSocket
    <2> SUFFICES ASSUME IInv, rcv = "poll" PROVE polled # 0 /\ file[polled] = "receiver"
      BY DEF PollsOwnSocket
    <2>1. polled = receiver_fd /\ receiver_fd # 0 /\ receiver_fd \in Fds \cup {0}
      BY DEF IInv, ThreadNeedsReceiver, TypeOK
    <2> QED  BY <2>1 DEF IInv, RuntimeOwnsSockets
  <1> QED  BY <1>1, LifecycleInvariant, PTL

\* CanSender::sendRaw never reports as sent a frame that did not reach the bus,
\* although close may come between its load of the number and its write(2).
THEOREM SentIsOnBus == Spec => []SentMeansOnBus
  <1>1. IInv => SentMeansOnBus
    BY DEF IInv
  <1> QED  BY <1>1, LifecycleInvariant, PTL

\* The destructors run in an order that leaves no thread behind: the members of
\* EventLoop and of CanRuntime go when nobody uses them any more.
THEOREM NothingUsedAfterDestroy == Spec => []NoUseAfterDestroy
  <1>1. IInv => NoUseAfterDestroy
    <2> SUFFICES ASSUME IInv PROVE NoUseAfterDestroy
      OBVIOUS
    <2>1. main = "destroyLoop" \/ unwinding => \A w \in Workers : pc[w] \in {"off", "done"}
      BY DEF IInv, PoolInStep
    <2>2. unwinding => rcv \in {"none", "ended"}
      BY DEF IInv, RuntimeOwnsSockets, ThreadNeedsReceiver, TypeOK
    <2> QED  BY <2>1, <2>2 DEF NoUseAfterDestroy
  <1> QED  BY <1>1, LifecycleInvariant, PTL

\* When main returns, after whatever failure or signal, nothing is left open,
\* running or queued.
THEOREM ExitIsClean == Spec => []ExitLeavesNothing
  <1>1. IInv => ExitLeavesNothing
    <2> SUFFICES ASSUME IInv, main = "exited"
                 PROVE  /\ \A f \in Fds : file[f] = None
                        /\ rcv \in {"none", "ended"}
                        /\ \A w \in Workers : pc[w] \in {"off", "done"}
                        /\ task_queue = <<>>
      BY DEF ExitLeavesNothing
    <2>1. unwinding /\ sender_fd = 0 /\ ~ receiver_ /\ receiver_fd = 0
      BY DEF IInv, RuntimeOwnsSockets, TypeOK
    <2>2. (\A w \in Workers : pc[w] \in {"off", "done"}) /\ task_queue = <<>>
      BY DEF IInv, PoolInStep
    <2>3. rcv \in {"none", "ended"}
      BY <2>1 DEF IInv, ThreadNeedsReceiver, TypeOK
    <2>4. ASSUME NEW f \in Fds PROVE file[f] = None
      <3>1. file[f] # "sender" /\ file[f] # "receiver"
        BY <2>1, FdsAssumption DEF IInv, RuntimeOwnsSockets
      <3>2. file[f] # "listen" /\ file[f] # "epoll"
        BY <2>1 DEF IInv, ServerOwnsSockets
      <3>3. \A c \in Conns : file[f] # c
        BY <2>1, DistinctAssumption DEF IInv, TableOwnsConns
      <3>4. \A w \in Workers : file[f] # w
        BY <2>2 DEF IInv, NumbersInHand
      <3> QED  BY <3>1, <3>2, <3>3, <3>4 DEF IInv, TypeOK, Things
    <2> QED  BY <2>2, <2>3, <2>4
  <1> QED  BY <1>1, LifecycleInvariant, PTL

\* Nothing is appended to the store once CanRuntime::stop has let go of the
\* receiver, so what is answered afterwards does not change any more.
THEOREM StoreIsQuiet == Spec => StoreQuietAfterStop
  <1>1. IInv /\ [Next]_vars => [stored' # stored => receiver_]_vars
    <2> SUFFICES ASSUME IInv, Next, stored' # stored PROVE receiver_
      BY DEF vars, rcvVars
    <2>1. rcv = "append"
      <3>1. MainStep => UNCHANGED stored
        BY DEF MainStep, OpenSender, OpenReceiver, StartThread, OpenListen, OpenEpoll,
               EpollFails, StartPool, PoolFails, LoopCheck, EndRound, Accept, Submit, StopReceiver,
               JoinReceiver, CloseReceiver, ResetReceiver, CloseSender, CloseListen,
               CloseEpoll, ClearConns, CloseConn, StopPool, JoinPool, DestroyLoop, rcvVars
      <3>2. \A w \in Workers : WorkerStep(w) => UNCHANGED stored
        BY DEF WorkerStep, Take, Return, IsOpen, Load, WriteFrame, OpenPage, Respond,
               ClosePage, rcvVars
      <3>3. RcvStep => RcvAppend \/ UNCHANGED stored
        BY DEF RcvStep, RcvCheck, RcvPoll
      <3> QED  BY <3>1, <3>2, <3>3 DEF Next, Signal, BusFrame, RcvAppend, rcvVars
    <2> QED  BY <2>1 DEF IInv, ThreadNeedsReceiver, RuntimeOwnsSockets
  <1> QED  BY <1>1, LifecycleInvariant, PTL DEF Spec, StoreQuietAfterStop

\* Whose descriptors main may close while the number is a page's: only the
\* listening one's.
LEMMA MainSparesPages ==
    ASSUME IInv, MainStep, NEW f \in Fds, NEW w \in Workers,
           file[f] = w, file'[f] # w
    PROVE  f = listen_fd
  <1> USE DistinctAssumption DEF Opens, Free, Closes, FailedOpen
  <1>0. file \in [Fds -> Things \cup {None}]
    BY DEF IInv, TypeOK
  <1>1. f # sender_fd /\ f # receiver_fd
    BY DEF IInv, RuntimeOwnsSockets
  <1>2. CASE OpenSender \/ OpenReceiver \/ StartThread \/ OpenListen \/ OpenEpoll \/ \E c \in Conns : Accept(c)
    BY <1>0, <1>1, <1>2 DEF OpenSender, OpenReceiver, StartThread, OpenListen, OpenEpoll, Accept
  <1>3. CASE CloseReceiver \/ ResetReceiver \/ CloseSender
    BY <1>1, <1>3 DEF CloseReceiver, ResetReceiver, CloseSender
  <1>4. CASE CloseListen
    BY <1>4 DEF CloseListen
  <1>5. CASE CloseEpoll
    <2>1. f # epoll_fd
      BY <1>5 DEF CloseEpoll, IInv, ServerOwnsSockets, RuntimeOwnsSockets, Stopping, Destroying
    <2> QED  BY <1>5, <2>1 DEF CloseEpoll
  <1>6. ASSUME NEW g \in Fds, CloseConn(g) PROVE f = listen_fd
    <2>1. f = g /\ conn_map[f] # None
      BY <1>6 DEF CloseConn
    <2>2. \A c \in Conns : conn_map[f] # c
      BY <2>1 DEF IInv, TableOwnsConns
    <2>3. conn_map[f] = "listen"
      BY <2>1, <2>2 DEF IInv, TypeOK
    <2> QED  BY <2>3 DEF IInv, TableOwnsConns
  <1>7. CASE \/ EpollFails \/ StartPool \/ PoolFails \/ LoopCheck \/ EndRound \/ StopReceiver \/ JoinReceiver
             \/ ClearConns \/ StopPool \/ JoinPool \/ DestroyLoop
             \/ \E task \in Tasks : Submit(task)
    BY <1>7 DEF EpollFails, StartPool, PoolFails, LoopCheck, EndRound, Submit, StopReceiver,
                JoinReceiver, ClearConns, StopPool, JoinPool, DestroyLoop, kernelVars
  <1> QED  BY <1>2, <1>3, <1>4, <1>5, <1>6, <1>7 DEF MainStep

\* No close of the shutdown but the second one of the listening number hits a
\* page: the other numbers are forgotten, or erased, when they are closed.
THEOREM PagesAreSpared == Spec => PagesKeepTheirNumber
  <1>1. ASSUME IInv, Next, NEW f \in Fds, NEW w \in Workers,
               file[f] = w, file'[f] # w, f # listen_fd
        PROVE  pc[w] = "closePage" /\ fd[w] = f
    <2>1. ~ MainStep
      BY <1>1, MainSparesPages
    <2>2. ~ (RcvStep \/ Signal \/ BusFrame)
      BY <1>1 DEF RcvStep, RcvCheck, RcvPoll, RcvAppend, Signal, BusFrame, kernelVars
    <2>3. PICK v \in Workers : WorkerStep(v)
      BY <1>1, <2>1, <2>2 DEF Next
    <2>4. \/ ClosePage(v)
          \/ OpenPage(v)
      BY <1>1, <2>3 DEF WorkerStep, Take, Return, IsOpen, Load, WriteFrame, Respond, kernelVars
    <2>5. ClosePage(v)
      <3>1. file \in [Fds -> Things \cup {None}] /\ w # None
        BY <1>1, DistinctAssumption DEF IInv, TypeOK
      <3> QED  BY <1>1, <2>4, <3>1 DEF OpenPage, Opens, Free
    <2>6. pc[v] = "closePage" /\ fd[v] = f
      BY <1>1, <2>5 DEF ClosePage, Closes
    <2>7. work[v] = "page" /\ fd[v] # 0
      BY <1>1, <2>6 DEF IInv, NumbersInHand
    <2>8. file[f] = v
      BY <1>1, <2>6, <2>7 DEF IInv, NumbersInHand
    <2> QED  BY <1>1, <2>6, <2>8
  <1>2. IInv /\ [Next]_vars =>
            [\A f \in Fds, w \in Workers :
                file[f] = w /\ file'[f] # w /\ f # listen_fd => pc[w] = "closePage" /\ fd[w] = f]_vars
    BY <1>1
  <1> QED  BY <1>2, LifecycleInvariant, PTL DEF Spec, PagesKeepTheirNumber

=============================================================================
