----------------------------- MODULE FrameStore -----------------------------
(***************************************************************************)
(* The bounded store of CAN frames (src/src/FrameStore.cpp).               *)
(*                                                                         *)
(* append and queryAfter hold the store's shared_mutex for their whole     *)
(* body, so each is one atomic step whatever threads call them.  A frame   *)
(* keeps its sequence number and its CAN identifier; the payload, the      *)
(* timestamp and the other fields play no part in what the store decides.  *)
(*                                                                         *)
(* The module has no Next of its own: it is EXTENDed by the modules that   *)
(* put writers and readers around the store.                               *)
(***************************************************************************)
EXTENDS Naturals, Sequences, FiniteSets

CONSTANTS
    Capacity,   \* capacity_, what the constructor is given
    Ids,        \* the CAN identifiers that occur on the bus
    NoFilter    \* std::nullopt as an id_filter

\* The constructor throws std::invalid_argument on a capacity of 0.
ASSUME CapacityAssumption == Capacity \in Nat \ {0}
ASSUME NoFilterAssumption == NoFilter \notin Ids

VARIABLES
    next_sequence,    \* sequence number the next frame is given
    total_appended,   \* frames ever stored
    overwritten,      \* frames dropped to make room
    frames            \* the deque, oldest frame first

storeVars == <<next_sequence, total_appended, overwritten, frames>>

Frame == [sequence : Nat \ {0}, id : Ids]

\* Mutant of StoreInit: numbering from 0, which "after=0" would then hide.
StoreInitFromZero ==
    /\ next_sequence = 0
    /\ total_appended = 0
    /\ overwritten = 0
    /\ frames = <<>>

StoreInit ==
    /\ next_sequence = 1
    /\ total_appended = 0
    /\ overwritten = 0
    /\ frames = <<>>

\* The frames kept when one more is about to be stored, and whether one went.
Full == Len(frames) >= Capacity
\* Mutant of Kept: the full deque is not popped.
KeptAll == frames
Kept == IF Full THEN Tail(frames) ELSE frames

Append1(id) ==
    /\ next_sequence' = next_sequence + 1
    /\ total_appended' = total_appended + 1
    /\ overwritten' = IF Full THEN overwritten + 1 ELSE overwritten
    /\ frames' = Append(Kept, [sequence |-> next_sequence, id |-> id])

\* The store's three counters and its deque agree, and the deque is the
\* unbroken run of the newest sequence numbers, never longer than Capacity:
\* what FrameStore::stats reports adds up after every append, evicting or not.
StoreIsWindow ==
    /\ total_appended = overwritten + Len(frames)
    /\ next_sequence = total_appended + 1
    /\ Len(frames) <= Capacity
    /\ \A i \in DOMAIN frames : frames[i].sequence = overwritten + i

Wanted(id, filter) == filter = NoFilter \/ id = filter

\* Mutant of Matching: the frame the caller already has is returned again.
MatchingInclusive(after, filter) ==
    {i \in DOMAIN frames : frames[i].sequence >= after /\ Wanted(frames[i].id, filter)}

\* Positions of the stored frames a query would return if it had no limit.
Matching(after, filter) ==
    {i \in DOMAIN frames : /\ frames[i].sequence > after
                           /\ Wanted(frames[i].id, filter)}

\* Mutant of QueryAfter: the limit keeps the newest matching frames.
QueryNewest(after, filter, limit) ==
    LET M == Matching(after, filter)
    IN  {frames[j] : j \in {i \in M : Cardinality({k \in M : k >= i}) <= limit}}

\* The answer of queryAfter, as a set: the oldest `limit` matching frames.
\* The frames carry their sequence number, so the set determines the order
\* in which the vector lists them.
QueryAfter(after, filter, limit) ==
    LET M == Matching(after, filter)
    IN  {frames[j] : j \in {i \in M : Cardinality({k \in M : k <= i}) <= limit}}

=============================================================================
