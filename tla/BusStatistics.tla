--------------------------- MODULE BusStatistics ---------------------------
(***************************************************************************)
(* The bus statistics (src/src/CanBusStatistics.cpp): totals, counters per *)
(* identifier, and a sliding window of samples with a running sum.  The    *)
(* receive thread stamps a frame, records it here and then appends it to   *)
(* the store; workers that answer GET /api/can/stats read the clock and    *)
(* then, under the same mutex, take a snapshot, which also drops expired   *)
(* samples.  The clock goes on between any two of these steps.             *)
(*                                                                         *)
(* An element of Ids stands for what the statistics see of a frame.        *)
(***************************************************************************)
EXTENDS FrameStore, Integers

CONSTANTS
    Workers,     \* threads that answer requests
    Window,      \* window_ns_
    Size,        \* 2^64: unsigned differences are taken modulo Size
    MaxNow,      \* bound: the last clock reading
    MaxFrames    \* bound: frames received

ASSUME KindsAssumption == Ids \subseteq [id : Nat, is_extended : BOOLEAN, dlc : 0 .. 8]
\* The constructor throws on a window of 0; the clock does not reach 2^64.
ASSUME ClockAssumption ==
    /\ Window \in Nat \ {0} /\ MaxNow \in Nat /\ MaxFrames \in Nat
    /\ Size \in Nat \ {0} /\ MaxNow + Window < Size
\* Nor do the bits of all frames, at most 158 each.
ASSUME BitsAssumption == 158 * MaxFrames < Size

VARIABLES
    now,                             \* CLOCK_MONOTONIC
    rcv, frame,                      \* the receive thread, and its frame
    total_received_frames_, total_received_payload_bytes_,
    per_id_,                         \* per key: its counters
    window_samples_, window_estimated_bits_,
    recorded,                        \* history: all frames recorded, with their time
    pc, now_ns, rate                 \* the workers: their clock reading, their answer

statVars == <<total_received_frames_, total_received_payload_bytes_, per_id_,
              window_samples_, window_estimated_bits_>>
rcvVars == <<rcv, frame, recorded>>
workerVars == <<pc, now_ns, rate>>
vars == <<storeVars, now, statVars, rcvVars, workerVars>>

Time == 0 .. MaxNow
Stamped == [kind : Ids, timestamp_ns : Time]

\* estimateClassicCanBits: a header, the data, and at worst one stuff bit in five.
EstimateBits(kind) ==
    LET unstuffed == (IF kind.is_extended THEN 67 ELSE 47) + 8 * kind.dlc
    IN  unstuffed + (unstuffed + 4) \div 5

Sample(f) == [timestamp_ns |-> f.timestamp_ns, estimated_bits |-> EstimateBits(f.kind)]
Samples == {Sample(f) : f \in Stamped}

Key(kind) == <<kind.is_extended, kind.id>>

Init ==
    /\ StoreInit
    /\ now = 0
    /\ rcv = "read" /\ frame \in {[kind |-> k, timestamp_ns |-> 0] : k \in Ids}
    /\ total_received_frames_ = 0 /\ total_received_payload_bytes_ = 0
    /\ per_id_ = <<>>
    /\ window_samples_ = <<>> /\ window_estimated_bits_ = 0
    /\ recorded = <<>>
    /\ pc = [w \in Workers |-> "idle"]
    /\ now_ns = [w \in Workers |-> 0]
    /\ rate = [w \in Workers |-> 0]

-----------------------------------------------------------------------------
(* removeExpiredSamplesLocked                                              *)

Minus(a, b) == (a - b) % Size

\* Mutant of Expired: no look whether the sample is newer than the clock value.
ExpiredUnguarded(sample, t) == Minus(t, sample.timestamp_ns) >= Window
\* Mutant of Expired: a sample of exactly the window's age is kept.
ExpiredLate(sample, t) ==
    t >= sample.timestamp_ns /\ Minus(t, sample.timestamp_ns) > Window

Expired(sample, t) ==
    t >= sample.timestamp_ns /\ Minus(t, sample.timestamp_ns) >= Window

\* How many samples the loop pops: up to the first that has not expired.
Popped(samples, t) ==
    CHOOSE k \in 0 .. Len(samples) :
        /\ \A j \in 1 .. k : Expired(samples[j], t)
        /\ k < Len(samples) => ~ Expired(samples[k + 1], t)

\* The sum of a sequence of numbers.
SumOf(numbers) ==
    LET sum[n \in 0 .. Len(numbers)] == IF n = 0 THEN 0 ELSE sum[n - 1] + numbers[n]
    IN  sum[Len(numbers)]

BitsOf(samples) == SumOf([i \in DOMAIN samples |-> samples[i].estimated_bits])

\* Mutant of RemoveExpired: the sum keeps what is popped.
RemoveExpiredKeepingSum(samples, bits, t) ==
    /\ window_samples_' = SubSeq(samples, Popped(samples, t) + 1, Len(samples))
    /\ window_estimated_bits_' = bits

RemoveExpired(samples, bits, t) ==
    /\ window_samples_' = SubSeq(samples, Popped(samples, t) + 1, Len(samples))
    /\ window_estimated_bits_' = Minus(bits, BitsOf(SubSeq(samples, 1, Popped(samples, t))))

-----------------------------------------------------------------------------
(* The clock and the receive thread (CanReceiver::receiveLoop).            *)

Tick ==
    /\ now < MaxNow
    /\ now' = now + 1
    /\ UNCHANGED <<storeVars, statVars, rcvVars, workerVars>>

\* A frame is read and clock_gettime stamps it.
Stamp(kind) ==
    /\ rcv = "read" /\ next_sequence <= MaxFrames
    /\ frame' = [kind |-> kind, timestamp_ns |-> now]
    /\ rcv' = "record"
    /\ UNCHANGED <<storeVars, now, statVars, recorded, workerVars>>

Counters(key) ==
    IF key \in DOMAIN per_id_ THEN per_id_[key]
    ELSE [frame_count |-> 0, payload_bytes |-> 0, last_timestamp_ns |-> 0]

\* recordReceived, under mutex_.
RecordReceived ==
    LET kind == frame.kind
        key == Key(kind)
        sample == Sample(frame)
        counted == [frame_count |-> Counters(key).frame_count + 1,
                    payload_bytes |-> Counters(key).payload_bytes + kind.dlc,
                    last_timestamp_ns |-> frame.timestamp_ns]
    IN  /\ total_received_frames_' = total_received_frames_ + 1
        /\ total_received_payload_bytes_' = total_received_payload_bytes_ + kind.dlc
        /\ per_id_' = [k \in DOMAIN per_id_ \cup {key} |->
                          IF k = key THEN counted ELSE per_id_[k]]
        /\ RemoveExpired(Append(window_samples_, sample),
                         window_estimated_bits_ + sample.estimated_bits, frame.timestamp_ns)
        /\ recorded' = Append(recorded, frame)

\* Mutant of Deliver: the frame is stored first and counted then.
DeliverStoredFirst ==
    /\ \/ /\ rcv = "record" /\ rcv' = "store"
          /\ Append1(frame.kind)
          /\ UNCHANGED <<statVars, recorded>>
       \/ /\ rcv = "store" /\ rcv' = "read"
          /\ RecordReceived
          /\ UNCHANGED storeVars
    /\ UNCHANGED <<now, frame, workerVars>>

\* The statistics count the frame, then the store gets it.
Deliver ==
    /\ \/ /\ rcv = "record" /\ rcv' = "store"
          /\ RecordReceived
          /\ UNCHANGED storeVars
       \/ /\ rcv = "store" /\ rcv' = "read"
          /\ Append1(frame.kind)
          /\ UNCHANGED <<statVars, recorded>>
    /\ UNCHANGED <<now, frame, workerVars>>

-----------------------------------------------------------------------------
(* The workers: CanRuntime::busStats.                                      *)

\* monotonicNowNs, before the mutex.
ReadClock(w) ==
    /\ pc[w] = "idle"
    /\ now_ns' = [now_ns EXCEPT ![w] = now]
    /\ pc' = [pc EXCEPT ![w] = "snapshot"]
    /\ UNCHANGED <<storeVars, now, statVars, rcvVars, rate>>

\* snapshot, under mutex_: the frames of the last window.
Snapshot(w) ==
    /\ pc[w] = "snapshot"
    /\ RemoveExpired(window_samples_, window_estimated_bits_, now_ns[w])
    /\ rate' = [rate EXCEPT ![w] = Len(window_samples_')]
    /\ now_ns' = [now_ns EXCEPT ![w] = 0]
    /\ pc' = [pc EXCEPT ![w] = "idle"]
    /\ UNCHANGED <<total_received_frames_, total_received_payload_bytes_, per_id_>>
    /\ UNCHANGED <<storeVars, now, rcvVars>>

Next ==
    \/ Tick
    \/ \E kind \in Ids : Stamp(kind)
    \/ Deliver
    \/ \E w \in Workers : ReadClock(w) \/ Snapshot(w)

Spec == Init /\ [][Next]_vars

-----------------------------------------------------------------------------

\* Every variable has its type.
TypeOK ==
    /\ next_sequence \in Nat \ {0} /\ total_appended \in Nat /\ overwritten \in Nat
    /\ frames \in Seq(Frame)
    /\ now \in Time
    /\ rcv \in {"read", "record", "store"} /\ frame \in Stamped
    /\ total_received_frames_ \in Nat /\ total_received_payload_bytes_ \in Nat
    /\ DOMAIN per_id_ \subseteq {Key(kind) : kind \in Ids}
    /\ \A key \in DOMAIN per_id_ :
          per_id_[key] \in [frame_count : Nat, payload_bytes : Nat, last_timestamp_ns : Time]
    /\ window_samples_ \in Seq(Samples) /\ window_estimated_bits_ \in Nat
    /\ recorded \in Seq(Stamped)
    /\ pc \in [Workers -> {"idle", "snapshot"}]
    /\ now_ns \in [Workers -> Time]
    /\ rate \in [Workers -> Nat]

Dropped == Len(recorded) - Len(window_samples_)

\* The window holds the newest recorded frames, in order and without a hole,
\* and none is dropped before its time: a worker with a clock value from
\* before the newest frame drops nothing it should not.
WindowIsSuffix ==
    /\ Dropped >= 0
    /\ \A i \in DOMAIN window_samples_ : window_samples_[i] = Sample(recorded[Dropped + i])
    /\ \A i \in 1 .. Dropped : recorded[i].timestamp_ns + Window <= now

\* What makes WindowIsSuffix and RateIsOfMoment inductive: nothing is stamped
\* later than the clock, and what is recorded is in the order of its stamps.
StampsAreOrdered ==
    /\ frame.timestamp_ns <= now
    /\ \A i, j \in DOMAIN recorded : i < j => recorded[i].timestamp_ns <= recorded[j].timestamp_ns
    /\ \A i \in DOMAIN recorded :
          recorded[i].timestamp_ns <= (IF rcv = "record" THEN frame.timestamp_ns ELSE now)
    /\ \A w \in Workers : now_ns[w] <= now

\* The running sum is the sum of the samples, whoever dropped which of them.
SumMatches == window_estimated_bits_ = BitsOf(window_samples_)

Fresh(t) == Cardinality({i \in DOMAIN recorded : recorded[i].timestamp_ns + Window > t})

\* The rate a worker answers is that of a moment between its reading of the
\* clock and its answer, although others drop samples and frames are recorded
\* in between.
RateIsOfMoment ==
    [][\A w \in Workers : pc[w] = "snapshot" /\ pc'[w] = "idle" =>
          Fresh(now) <= rate'[w] /\ rate'[w] <= Fresh(now_ns[w])]_vars

\* The frames recorded for a key, and the data bytes of some frames.
Of(key) == {i \in DOMAIN recorded : <<recorded[i].kind.is_extended, recorded[i].kind.id>> = key}
Bytes(I) == SumOf([i \in DOMAIN recorded |-> IF i \in I THEN recorded[i].kind.dlc ELSE 0])

\* The counters of an identifier are those of the frames with that identifier
\* and format, and all of them together make the totals.
PerIdAgrees ==
    /\ total_received_frames_ = Len(recorded)
    /\ total_received_payload_bytes_ = Bytes(DOMAIN recorded)
    /\ \A kind \in Ids :
          LET key == <<kind.is_extended, kind.id>>
          IN  Of(key) # {} =>
                /\ key \in DOMAIN per_id_
                /\ per_id_[key].frame_count = Cardinality(Of(key))
                /\ per_id_[key].payload_bytes = Bytes(Of(key))
                /\ \A i \in Of(key) : recorded[i].timestamp_ns <= per_id_[key].last_timestamp_ns

\* Whatever is kept as a running total is what recounting would give: the bits
\* in the window, the totals, and the counters of every identifier.
TotalsMatch == SumMatches /\ PerIdAgrees

\* The statistics are never behind the store: a client that has been given
\* frame n and asks for the totals then is told of at least n frames.
StatsLeadStore ==
    /\ total_appended <= total_received_frames_
    /\ total_received_frames_ <= total_appended + 1

CountedBeforeStored ==
    total_received_frames_ = total_appended + (IF rcv = "store" THEN 1 ELSE 0)
Types ==
    /\ now \in Time /\ rcv \in {"read", "record", "store"} /\ frame \in Stamped
    /\ recorded \in Seq(Stamped) /\ window_samples_ \in Seq(Samples)
    /\ pc \in [Workers -> {"idle", "snapshot"}] /\ now_ns \in [Workers -> Time]
    /\ rate \in [Workers -> Nat]
    /\ total_received_frames_ \in Nat /\ total_appended \in Nat

\* The inductive invariant of the safety proofs.
IInv == Types /\ StampsAreOrdered /\ WindowIsSuffix /\ CountedBeforeStored

\* What TotalsMatch needs beside IInv: a key in the map has had a frame, and as
\* many frames are recorded as the store has numbers for.
KeysHaveFrames == \A key \in DOMAIN per_id_ : Of(key) # {}
FramesAreBounded ==
    /\ next_sequence = total_appended + 1
    /\ next_sequence <= MaxFrames + (IF rcv = "read" THEN 1 ELSE 0)
TotalsInv == TypeOK /\ TotalsMatch /\ KeysHaveFrames /\ FramesAreBounded

=============================================================================
