--------------------------- MODULE PollingClient ---------------------------
(***************************************************************************)
(* The REST polling clients (src/qml_client/Main.qml refresh, and the same *)
(* loop in src/wwwroot/index.html) reading the frame store that the CAN    *)
(* receiver fills.                                                         *)
(*                                                                         *)
(* A timer fires every 500 ms whether or not the answer to the last poll   *)
(* has arrived, so several requests may be under way, may be served in     *)
(* any order, and their answers may arrive in any order.  A slot is one    *)
(* XMLHttpRequest.  A client only ever reads the store (queryAfter is      *)
(* const), so one client stands for any number of them.                    *)
(***************************************************************************)
EXTENDS FrameStore

CONSTANTS
    Slots,      \* requests that can be under way together
    Limits,     \* values of ?limit= that clients ask for
    MaxFrames   \* bound: frames received before the bus falls silent

\* processRequest answers 400 to a limit of 0 or above 1000.
ASSUME LimitsAssumption == Limits \subseteq 1 .. 1000
ASSUME MaxFramesAssumption == MaxFrames \in Nat

VARIABLES
    filter,         \* ?id= of this client's polls, NoFilter when absent
    lastSequence,   \* highest sequence number the client has been given
    phase,          \* of each slot: "idle", "asked" or "answered"
    asked,          \* of each slot: the ?after= of its request
    answer,         \* of each slot: the frames of its response
    shown           \* history: the frames ever put in the table

clientVars == <<filter, lastSequence, phase, asked, answer, shown>>
vars == <<storeVars, clientVars>>

Init ==
    /\ StoreInit
    /\ filter \in Ids \cup {NoFilter}
    /\ lastSequence = 0
    /\ phase = [s \in Slots |-> "idle"]
    /\ asked = [s \in Slots |-> 0]
    /\ answer = [s \in Slots |-> {}]
    /\ shown = {}

\* CanReceiver::receiveLoop stores one more frame.
Receive(id) ==
    /\ next_sequence <= MaxFrames
    /\ Append1(id)
    /\ UNCHANGED clientVars

\* Mutant of Poll: the client asks from the number after its last.
PollNext(s) ==
    /\ phase[s] = "idle"
    /\ phase' = [phase EXCEPT ![s] = "asked"]
    /\ asked' = [asked EXCEPT ![s] = lastSequence + 1]
    /\ UNCHANGED <<storeVars, filter, lastSequence, answer, shown>>

\* The refresh timer fires: a request with the current lastSequence.
Poll(s) ==
    /\ phase[s] = "idle"
    /\ phase' = [phase EXCEPT ![s] = "asked"]
    /\ asked' = [asked EXCEPT ![s] = lastSequence]
    /\ UNCHANGED <<storeVars, filter, lastSequence, answer, shown>>

\* GET /api/can/frames on the server: one call of queryFrames.
Serve(s, limit) ==
    /\ phase[s] = "asked"
    /\ phase' = [phase EXCEPT ![s] = "answered"]
    /\ answer' = [answer EXCEPT ![s] = QueryAfter(asked[s], filter, limit)]
    /\ UNCHANGED <<storeVars, filter, lastSequence, asked, shown>>

\* The largest of a cursor and the sequence numbers of some frames.
IsNewest(m, cursor, fs) ==
    LET S == {cursor} \cup {f.sequence : f \in fs}
    IN  m \in S /\ \A n \in S : n <= m

\* The callback of a successful request: every frame becomes a row and
\* lastSequence takes the maximum.
Deliver(s) ==
    /\ phase[s] = "answered"
    /\ phase' = [phase EXCEPT ![s] = "idle"]
    /\ answer' = [answer EXCEPT ![s] = {}]
    /\ \E m \in {lastSequence} \cup {f.sequence : f \in answer[s]} :
          /\ IsNewest(m, lastSequence, answer[s])
          /\ lastSequence' = m
    /\ shown' = shown \cup answer[s]
    /\ UNCHANGED <<storeVars, filter, asked>>

\* The request, or its answer, is lost: a status outside 200..299 (0 when the
\* connection breaks) makes the callback return before it touches anything.
Fail(s) ==
    /\ phase[s] # "idle"
    /\ phase' = [phase EXCEPT ![s] = "idle"]
    /\ answer' = [answer EXCEPT ![s] = {}]
    /\ UNCHANGED <<storeVars, filter, lastSequence, asked, shown>>

Next ==
    \/ \E id \in Ids : Receive(id)
    \/ \E s \in Slots : \/ Poll(s)
                        \/ \E limit \in Limits : Serve(s, limit)
                        \/ Deliver(s)
                        \/ Fail(s)

Spec == Init /\ [][Next]_vars

\* The refresh timer repeats for ever; requests may fail, but a client that
\* keeps asking is in the end served and in the end answered (the strong
\* fairness).  Nothing is assumed of the bus.
Fairness ==
    \A s \in Slots : /\ WF_vars(Poll(s))
                     /\ SF_vars(\E limit \in Limits : Serve(s, limit))
                     /\ SF_vars(Deliver(s))

FairSpec == Spec /\ Fairness

-----------------------------------------------------------------------------

\* Every variable has its type.  Type invariant of the store and the client.
TypeOK ==
    /\ next_sequence \in Nat \ {0}
    /\ total_appended \in Nat
    /\ overwritten \in Nat
    /\ frames \in Seq(Frame)
    /\ filter \in Ids \cup {NoFilter}
    /\ lastSequence \in Nat
    /\ phase \in [Slots -> {"idle", "asked", "answered"}]
    /\ asked \in [Slots -> Nat]
    /\ \A s \in Slots : phase[s] # "answered" => answer[s] = {}
    /\ answer \in [Slots -> SUBSET Frame]
    /\ shown \subseteq Frame

\* Frames that can be met anywhere: shown, in a response, in the store.
Known == shown \cup (UNION {answer[s] : s \in Slots}) \cup {frames[i] : i \in DOMAIN frames}

\* A sequence number stands for one frame for ever: whatever a client has
\* been shown, is about to be shown, or would find in the store under one
\* number is the same frame.
SequenceIdentifiesFrame ==
    \A f, g \in Known : f.sequence = g.sequence => f = g

\* A client whose lastSequence is past a frame the store still holds has
\* been shown that frame, however its polls overlapped, failed or were
\* answered out of order: a hole in what it shows is an overwritten frame.
NoRetainedFrameSkipped ==
    \A i \in DOMAIN frames :
        frames[i].sequence <= lastSequence /\ Wanted(frames[i].id, filter)
            => frames[i] \in shown

\* Numbers are handed out in order: everything known is older than the next,
\* answers are newer than what was asked for, rows no newer than the cursor.
NumbersAreBelowNext ==
    /\ \A f \in Known : f.sequence < next_sequence
    /\ lastSequence < next_sequence
    /\ \A s \in Slots : asked[s] <= lastSequence
    /\ \A s \in Slots : \A f \in answer[s] : asked[s] < f.sequence
    /\ \A f \in shown : f.sequence <= lastSequence

\* An answer under way has no hole that a frame still stored would fill.
AnswersAreComplete ==
    \A s \in Slots : \A i \in DOMAIN frames : \A g \in answer[s] :
        /\ asked[s] < frames[i].sequence
        /\ frames[i].sequence <= g.sequence
        /\ Wanted(frames[i].id, filter)
        => frames[i] \in answer[s]

\* The inductive invariant of the safety proofs.
IInv ==
    /\ TypeOK
    /\ StoreIsWindow
    /\ NumbersAreBelowNext
    /\ SequenceIdentifiesFrame
    /\ AnswersAreComplete
    /\ NoRetainedFrameSkipped

\* An answer that no other answer has overtaken brings only rows newer than
\* every row already there: no frame twice, none out of order.  (Overlapping
\* polls of one cursor do bring the same frames twice.)
OnlyNewRows ==
    [][\A s \in Slots : Deliver(s) /\ asked[s] = lastSequence =>
          \A f \in answer[s], g \in shown : f.sequence > g.sequence]_vars

\* No frame the client wants is forgotten: once stored it is in the end
\* shown or overwritten.
EveryFrameShownOrLost ==
    \A n \in 1 .. MaxFrames :
        (\E i \in DOMAIN frames : frames[i].sequence = n /\ Wanted(frames[i].id, filter))
            ~> (n <= overwritten \/ \E f \in shown : f.sequence = n)

-----------------------------------------------------------------------------

\* The store and the client implement the sliding log with a reader.
Log == INSTANCE FrameLog WITH
          last     <- next_sequence - 1,
          window   <- [n \in {frames[i].sequence : i \in DOMAIN frames}
                          |-> frames[n - overwritten].id],
          from     <- 0,
          position <- lastSequence,
          seen     <- shown

LogSpec == Log!Spec

=============================================================================
