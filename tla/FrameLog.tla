------------------------------ MODULE FrameLog ------------------------------
(***************************************************************************)
(* What the frame store and a polling client promise together, without     *)
(* saying how: an endless log of frames of which the last Capacity are     *)
(* kept, and a reader whose position moves forward over it.  The reader    *)
(* asks for what comes after some number, may take any step forward, may   *)
(* be told of frames late, early or again,                                 *)
(* and may lose frames that are gone from the window; what it may not do   *)
(* is move past a frame that is still kept without having seen it.         *)
(***************************************************************************)
EXTENDS Naturals

CONSTANTS Capacity, Ids, NoFilter

VARIABLES
    last,       \* sequence number of the newest frame, 0 before the first
    window,     \* the frames still kept: sequence number -> identifier
    filter,     \* the identifier the reader asks for, or NoFilter
    from,       \* the reader wants what is newer than this
    position,   \* the reader has been told about everything up to here
    seen        \* the frames the reader has been given

vars == <<last, window, filter, from, position, seen>>

Entry(s, id) == [sequence |-> s, id |-> id]

Init ==
    /\ last = 0
    /\ window = [s \in {} |-> NoFilter]
    /\ filter \in Ids \cup {NoFilter}
    /\ from \in Nat
    /\ position = 0
    /\ seen = {}

\* One more frame; the window slides to the last Capacity numbers.
Publish(id) ==
    /\ last' = last + 1
    /\ window' = [s \in {t \in DOMAIN window \cup {last + 1} : t + Capacity > last + 1}
                    |-> IF s = last + 1 THEN id ELSE window[s]]
    /\ UNCHANGED <<filter, from, position, seen>>

\* Frames a reader standing at p must have been given.
Owed(p) == {s \in DOMAIN window : from < s /\ s <= p /\ (filter = NoFilter \/ window[s] = filter)}

\* The reader is given some frames of the log and moves on.
Advance ==
    /\ position' \in position .. last
    /\ seen \subseteq seen'
    /\ \A f \in seen' \ seen : /\ f.sequence \in 1 .. last
                               /\ f.sequence \in DOMAIN window => f.id = window[f.sequence]
    /\ \A s \in Owed(position') : Entry(s, window[s]) \in seen'
    /\ UNCHANGED <<last, window, filter, from>>

Next == (\E id \in Ids : Publish(id)) \/ Advance

Spec == Init /\ [][Next]_vars

=============================================================================
