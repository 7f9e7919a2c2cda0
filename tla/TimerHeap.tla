----------------------------- MODULE TimerHeap -----------------------------
(***************************************************************************)
(* The timers (src/src/Timer.cpp).  A heap of entries that are never       *)
(* removed before they are due, and a map with the expiry that counts: an  *)
(* entry that is popped and is not the one in the map is stale.  Every     *)
(* operation holds mutex_.                                                 *)
(*                                                                         *)
(* Two equal entries are popped together, and the second finds the map     *)
(* empty, so the heap is a set here.  The module has no Next of its own.   *)
(***************************************************************************)
EXTENDS Naturals

CONSTANTS
    TimerFds,    \* descriptor numbers
    Timeout      \* TIMEOUT_SEC

ASSUME TimeoutAssumption == Timeout \in Nat \ {0}

VARIABLES
    clock,            \* time(nullptr)
    heap_,
    fd_expire_map_    \* 0: the number has no timer

timerVars == <<clock, heap_, fd_expire_map_>>

Entry(fd, expire) == [fd |-> fd, expire_time |-> expire]

TimerInit ==
    /\ clock = 0
    /\ heap_ = {}
    /\ fd_expire_map_ = [fd \in TimerFds |-> 0]

\* Mutant of AddTimer: the time is noted without an entry for it in the heap.
AddTimerMapOnly(fd) ==
    /\ fd_expire_map_' = [fd_expire_map_ EXCEPT ![fd] = clock + Timeout]
    /\ UNCHANGED heap_

\* addTimer and updateTimer.
AddTimer(fd) ==
    /\ heap_' = heap_ \cup {Entry(fd, clock + Timeout)}
    /\ fd_expire_map_' = [fd_expire_map_ EXCEPT ![fd] = clock + Timeout]

RemoveTimer(fd) ==
    /\ fd_expire_map_' = [fd_expire_map_ EXCEPT ![fd] = 0]
    /\ UNCHANGED heap_

DueEntries == {e \in heap_ : e.expire_time <= clock}

\* Mutant of Matches: a stale entry counts.
MatchesAny(e) == fd_expire_map_[e.fd] # 0
Matches(e) == fd_expire_map_[e.fd] = e.expire_time

\* The numbers tick returns.
Expiring == {e.fd : e \in {d \in DueEntries : Matches(d)}}

TickTimers ==
    /\ heap_' = heap_ \ DueEntries
    /\ fd_expire_map_' = [fd \in TimerFds |-> IF fd \in Expiring THEN 0 ELSE fd_expire_map_[fd]]

\* Every armed timer has its entry in the heap, and none expires later than
\* one timeout from now: an armed timer is never missed.
HeapCoversMap ==
    /\ \A fd \in TimerFds : fd_expire_map_[fd] # 0 => Entry(fd, fd_expire_map_[fd]) \in heap_
    /\ \A e \in heap_ : e.expire_time <= clock + Timeout

=============================================================================
