------------------------ MODULE PollingClientProofs ------------------------
(***************************************************************************)
(* Proofs about the frame store and its polling clients, for every store   *)
(* capacity, number of overlapping requests, identifier set and limit.     *)
(***************************************************************************)
EXTENDS PollingClient, FrameStoreProofs, TLAPS

-----------------------------------------------------------------------------
(* The inductive invariant holds initially.                                *)

\* The client invariant types the store.
LEMMA TypedStore == TypeOK => StoreTyped
  BY DEF TypeOK, StoreTyped

LEMMA InitIInv == Init => IInv
  <1> SUFFICES ASSUME Init PROVE IInv
    OBVIOUS
  <1> USE DEF Init, StoreInit
  <1>1. TypeOK
    <2>1. frames \in Seq(Frame) /\ lastSequence \in Nat /\ shown \subseteq Frame
      OBVIOUS
    <2> QED  BY <2>1 DEF TypeOK
  <1>2. StoreIsWindow
    BY CapacityAssumption DEF StoreIsWindow
  <1>3. Known = {}
    BY DEF Known
  <1>4. NumbersAreBelowNext
    BY <1>3 DEF NumbersAreBelowNext
  <1>5. SequenceIdentifiesFrame
    BY <1>3 DEF SequenceIdentifiesFrame
  <1>6. AnswersAreComplete /\ NoRetainedFrameSkipped
    BY DEF AnswersAreComplete, NoRetainedFrameSkipped
  <1> QED  BY <1>1, <1>2, <1>4, <1>5, <1>6 DEF IInv

-----------------------------------------------------------------------------
(* Every step preserves it: one lemma per action.                          *)

LEMMA ReceivePreserves ==
    ASSUME IInv, NEW id \in Ids, Receive(id)
    PROVE  IInv'
  <1> DEFINE new == [sequence |-> next_sequence, id |-> id]
  <1>1. TypeOK /\ StoreIsWindow /\ Append1(id) /\ UNCHANGED clientVars
    BY DEF IInv, Receive
  <1>2. StoreTyped /\ StoreTyped' /\ StoreIsWindow'
    BY <1>1, TypedStore, AppendKeepsWindow
  <1>3. next_sequence' = next_sequence + 1 /\ next_sequence \in Nat
    BY <1>1 DEF Append1, TypeOK
  <1>4. TypeOK'
    BY <1>1, <1>2 DEF TypeOK, StoreTyped, clientVars
  <1>5. /\ frames'[Len(frames')] = new
        /\ \A i \in DOMAIN frames' :
              i # Len(frames') =>
                 LET j == IF Full THEN i + 1 ELSE i
                 IN  j \in DOMAIN frames /\ frames'[i] = frames[j]
    BY <1>1, <1>2, AppendedFrames
  <1>6. \A i \in DOMAIN frames' :
           frames'[i] = new \/ \E j \in DOMAIN frames : frames'[i] = frames[j]
    BY <1>5
  <1>7. Known' \subseteq Known \cup {new}
    BY <1>1, <1>6 DEF Known, clientVars
  <1>8. \A f \in Known : f.sequence < next_sequence
    BY DEF IInv, NumbersAreBelowNext
  <1>9. \A f \in Known : f \in Frame
    BY <1>1 DEF TypeOK, Known
  <1>10. NumbersAreBelowNext'
    <2>1. \A f \in Known' : f.sequence < next_sequence'
      BY <1>3, <1>7, <1>8, <1>9 DEF Frame
    <2>2. lastSequence' < next_sequence' /\ \A s \in Slots : asked'[s] <= lastSequence'
      BY <1>1, <1>3 DEF IInv, NumbersAreBelowNext, TypeOK, clientVars
    <2>3. /\ \A s \in Slots : \A f \in answer'[s] : asked'[s] < f.sequence
          /\ \A f \in shown' : f.sequence <= lastSequence'
      BY <1>1 DEF IInv, NumbersAreBelowNext, clientVars
    <2> QED  BY <2>1, <2>2, <2>3 DEF NumbersAreBelowNext
  <1>11. SequenceIdentifiesFrame'
    <2>1. \A f \in Known : f.sequence # new.sequence
      BY <1>3, <1>8, <1>9 DEF Frame
    <2> QED  BY <1>7, <2>1 DEF IInv, SequenceIdentifiesFrame
  <1>12. AnswersAreComplete'
    <2> SUFFICES ASSUME NEW s \in Slots, NEW i \in DOMAIN frames', NEW g \in answer[s],
                        asked[s] < frames'[i].sequence,
                        frames'[i].sequence <= g.sequence,
                        Wanted(frames'[i].id, filter)
                 PROVE  frames'[i] \in answer[s]
      BY <1>1 DEF AnswersAreComplete, Wanted, clientVars
    <2>1. g \in Known /\ g.sequence < next_sequence /\ g.sequence \in Nat
      BY <1>8, <1>9 DEF Known, Frame
    <2>2. frames'[i] # new
      BY <1>3, <2>1
    <2> QED  BY <1>6, <2>2 DEF IInv, AnswersAreComplete
  <1>13. NoRetainedFrameSkipped'
    <2> SUFFICES ASSUME NEW i \in DOMAIN frames',
                        frames'[i].sequence <= lastSequence,
                        Wanted(frames'[i].id, filter)
                 PROVE  frames'[i] \in shown
      BY <1>1 DEF NoRetainedFrameSkipped, Wanted, clientVars
    <2>1. frames'[i] # new
      BY <1>1, <1>3 DEF IInv, NumbersAreBelowNext, TypeOK
    <2> QED  BY <1>6, <2>1 DEF IInv, NoRetainedFrameSkipped
  <1> QED  BY <1>2, <1>4, <1>10, <1>11, <1>12, <1>13 DEF IInv

LEMMA PollPreserves ==
    ASSUME IInv, NEW s \in Slots, Poll(s)
    PROVE  IInv'
  <1> USE DEF IInv, Poll, storeVars
  <1>1. TypeOK'
    BY DEF TypeOK
  <1>2. Known' = Known
    BY DEF Known
  <1>3. NumbersAreBelowNext'
    BY <1>2 DEF NumbersAreBelowNext, TypeOK
  <1>4. AnswersAreComplete'
    <2> SUFFICES ASSUME NEW t \in Slots, NEW i \in DOMAIN frames, NEW g \in answer[t],
                        asked'[t] < frames[i].sequence,
                        frames[i].sequence <= g.sequence,
                        Wanted(frames[i].id, filter)
                 PROVE  frames[i] \in answer[t]
      BY DEF AnswersAreComplete, Wanted
    <2>1. asked[t] <= asked'[t] /\ asked[t] \in Nat /\ asked'[t] \in Nat
      BY DEF NumbersAreBelowNext, TypeOK
    <2>2. frames[i].sequence = overwritten + i /\ i \in Nat /\ overwritten \in Nat
      BY DEF StoreIsWindow, TypeOK
    <2>3. asked[t] < frames[i].sequence
      BY <2>1, <2>2
    <2> QED  BY <2>3 DEF AnswersAreComplete
  <1> QED  BY <1>1, <1>2, <1>3, <1>4
           DEF StoreIsWindow, SequenceIdentifiesFrame, NoRetainedFrameSkipped, Wanted

LEMMA ServePreserves ==
    ASSUME IInv, NEW s \in Slots, NEW limit \in Limits, Serve(s, limit)
    PROVE  IInv'
  <1> DEFINE Q == QueryAfter(asked[s], filter, limit)
  <1> USE DEF IInv, Serve, storeVars
  <1>1. limit \in Nat
    BY LimitsAssumption
  <1>2. answer' = [answer EXCEPT ![s] = Q] /\ answer \in [Slots -> SUBSET Frame]
    BY DEF TypeOK
  <1>3. Q \subseteq {frames[i] : i \in DOMAIN frames}
    BY QueryIsSound
  <1>4. \A i \in DOMAIN frames : frames[i] \in Frame
    BY DEF TypeOK
  <1>5. TypeOK'
    BY <1>2, <1>3, <1>4 DEF TypeOK
  <1>6. Known' \subseteq Known
    BY <1>2, <1>3 DEF Known
  <1>7. NumbersAreBelowNext' /\ SequenceIdentifiesFrame'
    <2>1. ASSUME NEW t \in Slots, NEW f \in answer'[t]
          PROVE  asked'[t] < f.sequence
      <3>1. CASE t = s
        <4>1. f \in Q /\ f \in Frame /\ asked[s] \in Nat
          BY <1>2, <1>3, <1>4, <2>1, <3>1 DEF TypeOK
        <4>2. f.sequence > asked[s]
          BY <4>1, QueryIsSound
        <4> QED  BY <3>1, <4>1, <4>2 DEF Frame
      <3>2. CASE t # s
        BY <1>2, <2>1, <3>2 DEF NumbersAreBelowNext
      <3> QED  BY <3>1, <3>2
    <2> QED  BY <1>6, <2>1 DEF NumbersAreBelowNext, SequenceIdentifiesFrame
  <1>8. AnswersAreComplete'
    <2> SUFFICES ASSUME NEW t \in Slots, NEW i \in DOMAIN frames, NEW g \in answer'[t],
                        asked[t] < frames[i].sequence,
                        frames[i].sequence <= g.sequence,
                        Wanted(frames[i].id, filter)
                 PROVE  frames[i] \in answer'[t]
      BY DEF AnswersAreComplete, Wanted
    <2>1. CASE t = s
      <3>1. answer'[t] = Q /\ asked[t] \in Nat
        BY <1>2, <2>1 DEF TypeOK
      <3> QED  BY <1>1, <2>1, <3>1, TypedStore, QueryIsComplete
    <2>2. CASE t # s
      BY <1>2, <2>2 DEF AnswersAreComplete
    <2> QED  BY <2>1, <2>2
  <1> QED  BY <1>5, <1>7, <1>8 DEF StoreIsWindow, NoRetainedFrameSkipped, Wanted

\* What Deliver does to the cursor, and why nothing retained is jumped over.
LEMMA DeliverPreserves ==
    ASSUME IInv, NEW s \in Slots, Deliver(s)
    PROVE  IInv'
  <1> USE DEF IInv, Deliver, storeVars
  <1>1. PICK m \in {lastSequence} \cup {f.sequence : f \in answer[s]} :
           IsNewest(m, lastSequence, answer[s]) /\ lastSequence' = m
    OBVIOUS
  <1>2. answer' = [answer EXCEPT ![s] = {}] /\ answer \in [Slots -> SUBSET Frame]
    BY DEF TypeOK
  <1>3. \A f \in answer[s] : f.sequence \in Nat
    BY <1>2 DEF Frame
  <1>4. lastSequence \in Nat /\ lastSequence' \in Nat /\ lastSequence <= lastSequence'
    BY <1>1, <1>3 DEF TypeOK, IsNewest
  <1>5. TypeOK'
    BY <1>2, <1>4 DEF TypeOK
  <1>6. Known' \subseteq Known
    BY <1>2 DEF Known
  <1>7. NumbersAreBelowNext'
    <2>1. \A f \in Known' : f.sequence < next_sequence'
      BY <1>6 DEF NumbersAreBelowNext
    <2>2. lastSequence' < next_sequence'
      BY <1>1 DEF NumbersAreBelowNext, Known
    <2>3. \A t \in Slots : asked'[t] <= lastSequence'
      BY <1>4 DEF NumbersAreBelowNext, TypeOK
    <2>4. \A t \in Slots : \A f \in answer'[t] : asked'[t] < f.sequence
      BY <1>2 DEF NumbersAreBelowNext
    <2>5. ASSUME NEW f \in shown' PROVE f.sequence <= lastSequence'
      <3>1. CASE f \in answer[s]
        BY <1>1, <3>1 DEF IsNewest
      <3>2. CASE f \in shown
        <4>1. f.sequence \in Nat
          BY <3>2 DEF TypeOK, Frame
        <4> QED  BY <1>4, <3>2, <4>1 DEF NumbersAreBelowNext
      <3> QED  BY <2>5, <3>1, <3>2
    <2> QED  BY <2>1, <2>2, <2>3, <2>4, <2>5 DEF NumbersAreBelowNext
  <1>8. SequenceIdentifiesFrame'
    BY <1>6 DEF SequenceIdentifiesFrame
  <1>9. AnswersAreComplete'
    BY <1>2 DEF AnswersAreComplete, Wanted
  <1>10. NoRetainedFrameSkipped'
    <2> SUFFICES ASSUME NEW i \in DOMAIN frames,
                        frames[i].sequence <= lastSequence',
                        Wanted(frames[i].id, filter)
                 PROVE  frames[i] \in shown \cup answer[s]
      BY DEF NoRetainedFrameSkipped, Wanted
    <2>1. frames[i].sequence \in Nat
      BY DEF StoreIsWindow, TypeOK
    <2>2. CASE frames[i].sequence <= lastSequence
      BY <2>2 DEF NoRetainedFrameSkipped
    <2>3. CASE ~ (frames[i].sequence <= lastSequence)
      <3>1. PICK g \in answer[s] : g.sequence = lastSequence'
        BY <1>1, <2>3
      <3>2. asked[s] < frames[i].sequence
        BY <1>4, <2>1, <2>3 DEF NumbersAreBelowNext, TypeOK
      <3> QED  BY <3>1, <3>2 DEF AnswersAreComplete
    <2> QED  BY <2>2, <2>3
  <1> QED  BY <1>5, <1>7, <1>8, <1>9, <1>10 DEF StoreIsWindow

LEMMA FailPreserves ==
    ASSUME IInv, NEW s \in Slots, Fail(s)
    PROVE  IInv'
  <1> USE DEF IInv, Fail, storeVars
  <1>1. answer' = [answer EXCEPT ![s] = {}] /\ answer \in [Slots -> SUBSET Frame]
    BY DEF TypeOK
  <1>2. TypeOK'
    BY <1>1 DEF TypeOK
  <1>3. Known' \subseteq Known
    BY <1>1 DEF Known
  <1>4. NumbersAreBelowNext' /\ SequenceIdentifiesFrame'
    BY <1>1, <1>3 DEF NumbersAreBelowNext, SequenceIdentifiesFrame
  <1>5. AnswersAreComplete'
    BY <1>1 DEF AnswersAreComplete, Wanted
  <1> QED  BY <1>2, <1>4, <1>5 DEF StoreIsWindow, NoRetainedFrameSkipped, Wanted

LEMMA StutterPreserves == IInv /\ UNCHANGED vars => IInv'
  <1> SUFFICES ASSUME IInv, UNCHANGED vars PROVE IInv'
    OBVIOUS
  <1> USE DEF IInv, vars, storeVars, clientVars
  <1>1. TypeOK' /\ StoreIsWindow'
    BY DEF TypeOK, StoreIsWindow
  <1>2. Known' = Known
    BY DEF Known
  <1>3. NumbersAreBelowNext' /\ SequenceIdentifiesFrame'
    BY <1>2 DEF NumbersAreBelowNext, SequenceIdentifiesFrame
  <1>4. AnswersAreComplete' /\ NoRetainedFrameSkipped'
    BY DEF AnswersAreComplete, NoRetainedFrameSkipped, Wanted
  <1> QED  BY <1>1, <1>3, <1>4

LEMMA NextPreserves == IInv /\ [Next]_vars => IInv'
  BY ReceivePreserves, PollPreserves, ServePreserves, DeliverPreserves,
     FailPreserves, StutterPreserves
     DEF Next

LEMMA Invariance == Spec => []IInv
  <1>1. Init => IInv
    BY InitIInv
  <1>2. IInv /\ [Next]_vars => IInv'
    BY NextPreserves
  <1> QED  BY <1>1, <1>2, PTL DEF Spec

-----------------------------------------------------------------------------
(* The theorems.                                                           *)

\* Every variable keeps its type, whatever the sizes.
THEOREM TypeCorrect == Spec => []TypeOK
  <1>1. IInv => TypeOK
    BY DEF IInv
  <1> QED  BY <1>1, Invariance, PTL

\* FrameStore: counters and deque agree after every append, and the deque is
\* the run of the newest sequence numbers.
THEOREM StoreStaysWindow == Spec => []StoreIsWindow
  <1>1. IInv => StoreIsWindow
    BY DEF IInv
  <1> QED  BY <1>1, Invariance, PTL

\* FrameStore::append: a sequence number is never given to two frames.
THEOREM SequencesAreUnique == Spec => []SequenceIdentifiesFrame
  <1>1. IInv => SequenceIdentifiesFrame
    BY DEF IInv
  <1> QED  BY <1>1, Invariance, PTL

\* Polling with after=lastSequence never jumps over a frame still stored,
\* however many polls overlap.
THEOREM NothingRetainedIsSkipped == Spec => []NoRetainedFrameSkipped
  <1>1. IInv => NoRetainedFrameSkipped
    BY DEF IInv
  <1> QED  BY <1>1, Invariance, PTL

\* An answer that no other has overtaken brings only new rows: the client
\* that waits for each answer shows every frame once, in order.
THEOREM RowsAreNew == Spec => OnlyNewRows
  <1> DEFINE New(s) == \A f \in answer[s], g \in shown : f.sequence > g.sequence
  <1>1. ASSUME IInv, NEW s \in Slots, asked[s] = lastSequence
        PROVE  New(s)
    <2> SUFFICES ASSUME NEW f \in answer[s], NEW g \in shown
                 PROVE  f.sequence > g.sequence
      OBVIOUS
    <2>1. f.sequence \in Nat /\ g.sequence \in Nat /\ lastSequence \in Nat
      BY <1>1 DEF IInv, TypeOK, Frame
    <2>2. lastSequence < f.sequence /\ g.sequence <= lastSequence
      BY <1>1 DEF IInv, NumbersAreBelowNext
    <2> QED  BY <2>1, <2>2
  <1>2. IInv => [\A s \in Slots : Deliver(s) /\ asked[s] = lastSequence => New(s)]_vars
    BY <1>1
  <1> QED  BY <1>2, Invariance, PTL DEF OnlyNewRows

-----------------------------------------------------------------------------
(* The store and the client implement FrameLog.                            *)

\* An append publishes one frame of the log and slides its window.
LEMMA ReceivePublishes ==
    ASSUME IInv, NEW id \in Ids, Receive(id)
    PROVE  Log!Publish(id)
  <1>1. StoreTyped /\ StoreIsWindow /\ Append1(id)
    BY TypedStore DEF IInv, Receive
  <1>2. /\ next_sequence' - 1 = (next_sequence - 1) + 1
        /\ Stored' = [n \in {t \in DOMAIN Stored \cup {(next_sequence - 1) + 1} :
                                t + Capacity > (next_sequence - 1) + 1}
                         |-> IF n = (next_sequence - 1) + 1 THEN id ELSE Stored[n]]
    BY <1>1, AppendSlides
  <1>3. UNCHANGED <<filter, lastSequence, shown>>
    BY DEF Receive, clientVars
  <1> QED  BY <1>2, <1>3 DEF Log!Publish, Stored

\* The delivery of an answer advances the reader.
LEMMA DeliverAdvances ==
    ASSUME IInv, IInv', NEW s \in Slots, Deliver(s)
    PROVE  Log!Advance
  <1> DEFINE D == {frames[i].sequence : i \in DOMAIN frames}
             W == [n \in D |-> frames[n - overwritten].id]
  <1>1. /\ TypeOK /\ TypeOK' /\ StoreIsWindow /\ NumbersAreBelowNext'
        /\ NumbersAreBelowNext /\ SequenceIdentifiesFrame /\ NoRetainedFrameSkipped'
    BY DEF IInv
  <1>2. UNCHANGED storeVars /\ UNCHANGED filter /\ shown' = shown \cup answer[s]
    BY DEF Deliver
  <1>3. \A n \in D : n - overwritten \in DOMAIN frames /\ frames[n - overwritten].sequence = n
    BY <1>1 DEF StoreIsWindow, TypeOK
  <1>4. \A n \in D : Log!Entry(n, W[n]) = frames[n - overwritten]
    <2> TAKE n \in D
    <2>1. frames[n - overwritten] \in Frame
      BY <1>1, <1>3 DEF TypeOK
    <2>2. W[n] = frames[n - overwritten].id
      OBVIOUS
    <2> QED  BY <1>3, <2>1, <2>2 DEF Frame, Log!Entry
  <1>5. lastSequence' \in lastSequence .. (next_sequence - 1)
    <2>1. lastSequence \in Nat /\ lastSequence' \in Nat /\ next_sequence \in Nat
      BY <1>1 DEF TypeOK
    <2>2. lastSequence <= lastSequence'
      <3>1. PICK m \in {lastSequence} \cup {f.sequence : f \in answer[s]} :
               IsNewest(m, lastSequence, answer[s]) /\ lastSequence' = m
        BY DEF Deliver
      <3> QED  BY <2>1, <3>1 DEF IsNewest
    <2>3. lastSequence' < next_sequence
      BY <1>1, <1>2 DEF NumbersAreBelowNext, storeVars
    <2> QED  BY <2>1, <2>2, <2>3
  <1>6. ASSUME NEW f \in shown' \ shown
        PROVE  /\ f.sequence \in 1 .. (next_sequence - 1)
               /\ f.sequence \in D => f.id = W[f.sequence]
    <2>1. f \in Known /\ f \in Frame
      BY <1>1, <1>2 DEF Known, TypeOK
    <2>2. f.sequence < next_sequence /\ f.sequence \in Nat \ {0} /\ next_sequence \in Nat
      BY <1>1, <2>1 DEF NumbersAreBelowNext, Frame, TypeOK
    <2>3. ASSUME f.sequence \in D PROVE f.id = W[f.sequence]
      <3>1. frames[f.sequence - overwritten] \in Known
        BY <1>3, <2>3 DEF Known
      <3>2. frames[f.sequence - overwritten] = f
        BY <1>1, <1>3, <2>1, <2>3, <3>1 DEF SequenceIdentifiesFrame
      <3> QED  BY <2>3, <3>2
    <2> QED  BY <2>2, <2>3
  <1>7. ASSUME NEW n \in Log!Owed(lastSequence')
        PROVE  Log!Entry(n, W[n]) \in shown'
    <2>1. n \in D /\ n <= lastSequence' /\ (filter = NoFilter \/ W[n] = filter)
      BY DEF Log!Owed
    <2>2. Wanted(frames[n - overwritten].id, filter)
      BY <2>1 DEF Wanted
    <2>3. frames[n - overwritten] \in shown'
      BY <1>1, <1>2, <1>3, <2>1, <2>2 DEF NoRetainedFrameSkipped, Wanted, storeVars
    <2> QED  BY <1>4, <2>1, <2>3
  <1>8. /\ UNCHANGED <<next_sequence - 1, filter>>
        /\ UNCHANGED [n \in {frames[i].sequence : i \in DOMAIN frames} |-> frames[n - overwritten].id]
    BY <1>2 DEF storeVars
  <1> QED  BY <1>2, <1>5, <1>6, <1>7, <1>8 DEF Log!Advance

\* The store and a client that polls it implement the sliding log and its
\* reader, under the mapping given with the instance Log.
THEOREM ImplementsLog == Spec => LogSpec
  <1>1. Init => Log!Init
    <2> SUFFICES ASSUME Init PROVE Log!Init
      OBVIOUS
    <2>1. next_sequence - 1 = 0 /\ frames = <<>> /\ lastSequence = 0 /\ shown = {}
      BY DEF Init, StoreInit
    <2>2. {frames[i].sequence : i \in DOMAIN frames} = {}
      BY <2>1
    <2>3. [n \in {frames[i].sequence : i \in DOMAIN frames} |-> frames[n - overwritten].id]
             = [n \in {} |-> NoFilter]
      BY <2>2
    <2>4. filter \in Ids \cup {NoFilter}
      BY DEF Init
    <2> QED  BY <2>1, <2>3, <2>4 DEF Log!Init
  <1>2. IInv /\ IInv' /\ [Next]_vars => [Log!Next]_Log!vars
    <2> SUFFICES ASSUME IInv, IInv', [Next]_vars PROVE [Log!Next]_Log!vars
      OBVIOUS
    <2>1. ASSUME NEW id \in Ids, Receive(id) PROVE Log!Next
      BY <2>1, ReceivePublishes DEF Log!Next
    <2>2. ASSUME NEW s \in Slots, Deliver(s) PROVE Log!Next
      BY <2>2, DeliverAdvances DEF Log!Next
    <2>3. ASSUME UNCHANGED <<storeVars, filter, lastSequence, shown>> PROVE UNCHANGED Log!vars
      BY <2>3 DEF storeVars, Log!vars
    <2> QED  BY <2>1, <2>2, <2>3 DEF Next, Poll, Serve, Fail, vars, clientVars
  <1> QED  BY <1>1, <1>2, Invariance, PTL DEF Spec, Log!Spec, LogSpec

=============================================================================
