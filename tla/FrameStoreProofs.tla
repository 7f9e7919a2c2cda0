-------------------------- MODULE FrameStoreProofs --------------------------
(***************************************************************************)
(* The frame store for any capacity and any frames: what append keeps,     *)
(* what queryAfter answers, and the log that the store is.  For the proofs *)
(* of the modules that put writers and readers around it.                  *)
(***************************************************************************)
EXTENDS FrameStore, FiniteSetTheorems, TLAPS

\* The types of the store's variables.
StoreTyped ==
    /\ next_sequence \in Nat \ {0} /\ total_appended \in Nat /\ overwritten \in Nat
    /\ frames \in Seq(Frame)

\* The store as a function from sequence number to identifier.
Stored == [n \in {frames[i].sequence : i \in DOMAIN frames} |-> frames[n - overwritten].id]

-----------------------------------------------------------------------------
(* Append.                                                                 *)

\* Making room keeps a suffix of the deque: what Kept holds and where.
LEMMA KeptIsSuffix ==
    ASSUME frames \in Seq(Frame)
    PROVE  /\ Kept \in Seq(Frame)
           /\ Len(Kept) = IF Full THEN Len(frames) - 1 ELSE Len(frames)
           /\ \A i \in 1 .. Len(Kept) : Kept[i] = frames[IF Full THEN i + 1 ELSE i]
  <1>1. CASE Full
    <2>1. frames # <<>> /\ Len(frames) >= 1
      BY <1>1, CapacityAssumption DEF Full
    <2> QED  BY <1>1, <2>1 DEF Kept
  <1>2. CASE ~ Full
    BY <1>2 DEF Kept
  <1> QED  BY <1>1, <1>2

\* After append every stored frame is the new one, at the back, or one that
\* was stored before, at most one place further back.
LEMMA AppendedFrames ==
    ASSUME StoreTyped, NEW id \in Ids, Append1(id)
    PROVE  /\ frames' \in Seq(Frame)
           /\ Len(frames') = Len(Kept) + 1
           /\ frames'[Len(frames')] = [sequence |-> next_sequence, id |-> id]
           /\ \A i \in DOMAIN frames' :
                 i # Len(frames') =>
                    LET j == IF Full THEN i + 1 ELSE i
                    IN  j \in DOMAIN frames /\ frames'[i] = frames[j]
  <1> DEFINE new == [sequence |-> next_sequence, id |-> id]
  <1>1. new \in Frame
    BY DEF StoreTyped, Frame
  <1>2. /\ Kept \in Seq(Frame)
        /\ Len(Kept) = IF Full THEN Len(frames) - 1 ELSE Len(frames)
        /\ \A i \in 1 .. Len(Kept) : Kept[i] = frames[IF Full THEN i + 1 ELSE i]
    BY KeptIsSuffix DEF StoreTyped
  <1>3. frames' = Append(Kept, new)
    BY DEF Append1
  <1>4. frames' \in Seq(Frame) /\ Len(frames') = Len(Kept) + 1 /\ frames'[Len(frames')] = new
    BY <1>1, <1>2, <1>3
  <1>5. ASSUME NEW i \in DOMAIN frames', i # Len(frames')
        PROVE  LET j == IF Full THEN i + 1 ELSE i
               IN  j \in DOMAIN frames /\ frames'[i] = frames[j]
    <2>1. i \in 1 .. Len(Kept)
      BY <1>4, <1>5
    <2>2. frames'[i] = Kept[i]
      BY <1>1, <1>2, <1>3, <2>1
    <2>3. frames \in Seq(Frame)
      BY DEF StoreTyped
    <2> QED  BY <1>2, <2>1, <2>2, <2>3
  <1> QED  BY <1>4, <1>5

\* Append keeps the types and the window.
LEMMA AppendKeepsWindow ==
    ASSUME StoreTyped, StoreIsWindow, NEW id \in Ids, Append1(id)
    PROVE  StoreTyped' /\ StoreIsWindow'
  <1> DEFINE new == [sequence |-> next_sequence, id |-> id]
  <1>1. /\ frames' \in Seq(Frame)
        /\ Len(frames') = Len(Kept) + 1
        /\ frames'[Len(frames')] = new
        /\ \A i \in DOMAIN frames' :
              i # Len(frames') =>
                 LET j == IF Full THEN i + 1 ELSE i
                 IN  j \in DOMAIN frames /\ frames'[i] = frames[j]
    BY AppendedFrames
  <1>2. Len(Kept) = IF Full THEN Len(frames) - 1 ELSE Len(frames)
    BY KeptIsSuffix DEF StoreTyped
  <1>3. /\ next_sequence' = next_sequence + 1
        /\ total_appended' = total_appended + 1
        /\ overwritten' = IF Full THEN overwritten + 1 ELSE overwritten
    BY DEF Append1
  <1>4. Len(frames) \in Nat /\ Len(frames') \in Nat /\ DOMAIN frames' = 1 .. Len(frames')
    BY <1>1 DEF StoreTyped
  <1>5. /\ next_sequence \in Nat /\ total_appended \in Nat /\ overwritten \in Nat
        /\ total_appended = overwritten + Len(frames)
        /\ next_sequence = total_appended + 1
        /\ Len(frames) <= Capacity
    BY DEF StoreTyped, StoreIsWindow
  <1>6. total_appended' = overwritten' + Len(frames') /\ next_sequence' = total_appended' + 1
    BY <1>1, <1>2, <1>3, <1>4, <1>5
  <1>7. Len(frames') <= Capacity
    BY <1>1, <1>2, <1>4, <1>5, CapacityAssumption DEF Full
  <1>8. ASSUME NEW i \in DOMAIN frames'
        PROVE  frames'[i].sequence = overwritten' + i
    <2>1. CASE i = Len(frames')
      BY <1>1, <1>3, <1>4, <1>5, <1>6, <2>1
    <2>2. CASE i # Len(frames')
      BY <1>1, <1>3, <1>4, <1>5, <2>2 DEF StoreIsWindow
    <2> QED  BY <2>1, <2>2
  <1>9. next_sequence' \in Nat \ {0} /\ total_appended' \in Nat /\ overwritten' \in Nat
    BY <1>3, <1>5
  <1>10. StoreTyped'
    BY <1>1, <1>9 DEF StoreTyped
  <1> QED  BY <1>6, <1>7, <1>8, <1>10 DEF StoreIsWindow

\* A stored frame stands at the place its number gives it.
LEMMA StoredPlace ==
    ASSUME StoreTyped, StoreIsWindow
    PROVE  /\ \A i \in DOMAIN frames : /\ frames[i] \in Frame
                                       /\ frames[i].sequence \in Nat \ {0}
                                       /\ frames[i].sequence < next_sequence
           /\ \A i, j \in DOMAIN frames :
                 frames[i].sequence = frames[j].sequence => i = j
           /\ \A n \in DOMAIN Stored :
                 /\ n - overwritten \in DOMAIN frames
                 /\ frames[n - overwritten] = [sequence |-> n, id |-> Stored[n]]
  <1>1. ASSUME NEW i \in DOMAIN frames
        PROVE  /\ frames[i] \in Frame
               /\ frames[i].sequence \in Nat \ {0} /\ frames[i].sequence = overwritten + i
               /\ frames[i].sequence < next_sequence
               /\ i \in Nat /\ frames[i].sequence - overwritten = i
    <2>1. frames[i] \in Frame /\ i \in Nat /\ i <= Len(frames) /\ i > 0
      BY DEF StoreTyped
    <2>2. frames[i].sequence = overwritten + i /\ next_sequence = overwritten + Len(frames) + 1
      BY DEF StoreTyped, StoreIsWindow
    <2>3. overwritten \in Nat /\ Len(frames) \in Nat
      BY DEF StoreTyped
    <2> QED  BY <2>1, <2>2, <2>3
  <1>2. \A i, j \in DOMAIN frames : frames[i].sequence = frames[j].sequence => i = j
    BY <1>1 DEF StoreTyped
  <1>3. ASSUME NEW n \in DOMAIN Stored
        PROVE  /\ n - overwritten \in DOMAIN frames
               /\ frames[n - overwritten] = [sequence |-> n, id |-> Stored[n]]
    <2>1. PICK i \in DOMAIN frames : n = frames[i].sequence
      BY DEF Stored
    <2>2. n - overwritten = i
      BY <1>1, <2>1
    <2>3. Stored[n] = frames[i].id
      BY <2>2 DEF Stored
    <2> QED  BY <1>1, <2>1, <2>2, <2>3 DEF Frame
  <1> QED  BY <1>1, <1>2, <1>3

-----------------------------------------------------------------------------
(* queryAfter.                                                             *)

\* What queryAfter returns: stored, wanted frames newer than the cursor.
LEMMA QueryIsSound ==
    ASSUME NEW after, NEW filter, NEW f, NEW limit, f \in QueryAfter(after, filter, limit)
    PROVE  \E i \in DOMAIN frames : /\ f = frames[i]
                                    /\ frames[i].sequence > after
                                    /\ Wanted(frames[i].id, filter)
  BY DEF QueryAfter, Matching

\* The limit cuts from the new end: a matching frame at or before a returned
\* one is returned.
LEMMA QueryIsComplete ==
    ASSUME StoreTyped, StoreIsWindow, NEW filter,
           NEW after \in Nat, NEW limit \in Nat,
           NEW g \in QueryAfter(after, filter, limit),
           NEW i \in DOMAIN frames,
           after < frames[i].sequence,
           frames[i].sequence <= g.sequence,
           Wanted(frames[i].id, filter)
    PROVE  frames[i] \in QueryAfter(after, filter, limit)
  <1> DEFINE M == Matching(after, filter)
             UpTo(n) == {k \in M : k <= n}
  <1>1. PICK j \in M : g = frames[j] /\ Cardinality(UpTo(j)) <= limit
    BY DEF QueryAfter
  <1>2. frames \in Seq(Frame) /\ DOMAIN frames = 1 .. Len(frames) /\ Len(frames) \in Nat
    BY DEF StoreTyped
  <1>3. j \in DOMAIN frames /\ M \subseteq DOMAIN frames
    BY DEF Matching
  <1>4. frames[i].sequence = overwritten + i /\ frames[j].sequence = overwritten + j
    BY <1>3 DEF StoreIsWindow
  <1>5. i <= j
    BY <1>1, <1>2, <1>3, <1>4 DEF StoreTyped
  <1>6. frames[i].sequence \in Nat
    BY <1>2, <1>4 DEF StoreTyped
  <1>7. i \in M
    BY <1>6 DEF Matching
  <1>8. IsFiniteSet(UpTo(j)) /\ UpTo(i) \subseteq UpTo(j)
    <2>1. IsFiniteSet(1 .. Len(frames))
      BY <1>2, FS_Interval
    <2>2. UpTo(j) \subseteq 1 .. Len(frames)
      BY <1>2, <1>3
    <2>3. IsFiniteSet(UpTo(j))
      BY <2>1, <2>2, FS_Subset
    <2> QED  BY <1>2, <1>3, <1>5, <2>3
  <1>9. /\ Cardinality(UpTo(i)) <= Cardinality(UpTo(j))
        /\ Cardinality(UpTo(i)) \in Nat /\ Cardinality(UpTo(j)) \in Nat
    BY <1>8, FS_Subset, FS_CardinalityType
  <1>10. Cardinality(UpTo(i)) <= limit
    BY <1>1, <1>9
  <1> QED  BY <1>7, <1>10 DEF QueryAfter

-----------------------------------------------------------------------------
(* The store as a log.                                                     *)

\* The sequence numbers of a deque numbered from o + 1 on.
LEMMA NumbersOfWindow ==
    ASSUME NEW fr \in Seq(Frame), NEW o \in Nat,
           \A i \in DOMAIN fr : fr[i].sequence = o + i
    PROVE  {fr[i].sequence : i \in DOMAIN fr} = (o + 1) .. (o + Len(fr))
  <1>1. Len(fr) \in Nat /\ DOMAIN fr = 1 .. Len(fr)
    OBVIOUS
  <1>2. ASSUME NEW n \in (o + 1) .. (o + Len(fr))
        PROVE  n \in {fr[i].sequence : i \in DOMAIN fr}
    <2>1. n \in Int /\ n - o \in 1 .. Len(fr) /\ o + (n - o) = n
      BY <1>1
    <2>2. fr[n - o].sequence = o + (n - o)
      BY <1>1, <2>1
    <2> QED  BY <1>1, <2>1, <2>2
  <1>3. ASSUME NEW i \in DOMAIN fr
        PROVE  fr[i].sequence \in (o + 1) .. (o + Len(fr))
    BY <1>1
  <1> QED  BY <1>2, <1>3

\* An append slides the window of the log by one number.
LEMMA AppendSlides ==
    ASSUME StoreTyped, StoreIsWindow, NEW id \in Ids, Append1(id)
    PROVE  /\ next_sequence' - 1 = (next_sequence - 1) + 1
           /\ Stored' = [n \in {t \in DOMAIN Stored \cup {(next_sequence - 1) + 1} :
                                   t + Capacity > (next_sequence - 1) + 1}
                            |-> IF n = (next_sequence - 1) + 1 THEN id ELSE Stored[n]]
  <1> DEFINE D == {frames[i].sequence : i \in DOMAIN frames}
             W == [n \in D |-> frames[n - overwritten].id]
             new == [sequence |-> next_sequence, id |-> id]
             kept == {t \in D \cup {next_sequence} : t + Capacity > next_sequence}
             slid == [n \in kept |-> IF n = next_sequence THEN id ELSE W[n]]
  <1>1. StoreTyped' /\ StoreIsWindow'
    BY AppendKeepsWindow
  <1>2. /\ frames' \in Seq(Frame)
        /\ Len(frames') = Len(Kept) + 1
        /\ frames'[Len(frames')] = new
        /\ \A i \in DOMAIN frames' :
              i # Len(frames') =>
                 LET j == IF Full THEN i + 1 ELSE i
                 IN  j \in DOMAIN frames /\ frames'[i] = frames[j]
    BY <1>1, AppendedFrames
  <1>3. /\ next_sequence' = next_sequence + 1
        /\ overwritten' = IF Full THEN overwritten + 1 ELSE overwritten
    BY DEF Append1
  <1>4. /\ frames \in Seq(Frame) /\ Len(frames) \in Nat /\ overwritten \in Nat
        /\ overwritten' \in Nat /\ Len(frames') \in Nat /\ next_sequence \in Nat
        /\ next_sequence = overwritten + Len(frames) + 1
        /\ next_sequence' = overwritten' + Len(frames') + 1
        /\ Len(frames) <= Capacity /\ Len(frames') <= Capacity
    BY <1>1, <1>2 DEF StoreTyped, StoreIsWindow
  <1>5. D = (overwritten + 1) .. (overwritten + Len(frames))
    BY <1>1, <1>4, NumbersOfWindow DEF StoreIsWindow
  <1>6. {frames'[i].sequence : i \in DOMAIN frames'} = (overwritten' + 1) .. (overwritten' + Len(frames'))
    BY <1>1, <1>2, <1>4, NumbersOfWindow DEF StoreIsWindow
  <1>7. kept = (overwritten' + 1) .. (overwritten' + Len(frames'))
    <2>0. D \cup {next_sequence} = (overwritten + 1) .. next_sequence
      BY <1>4, <1>5
    <2>1. CASE Full
      <3>1. Len(frames) = Capacity /\ overwritten' = overwritten + 1 /\ Len(frames') = Len(frames)
        BY <1>3, <1>4, <2>1, CapacityAssumption DEF Full
      <3> QED  BY <1>4, <3>1, <2>0, CapacityAssumption
    <2>2. CASE ~ Full
      <3>1. Len(frames) < Capacity /\ overwritten' = overwritten /\ Len(frames') = Len(frames) + 1
        BY <1>3, <1>4, <2>2, CapacityAssumption DEF Full
      <3> QED  BY <1>4, <3>1, <2>0, CapacityAssumption
    <2> QED  BY <2>1, <2>2
  <1>8. ASSUME NEW n \in kept
        PROVE  frames'[n - overwritten'].id = slid[n]
    <2>1. n \in Nat /\ n - overwritten' \in DOMAIN frames'
      BY <1>2, <1>4, <1>7
    <2>2. CASE n = next_sequence
      <3>1. n - overwritten' = Len(frames')
        BY <1>3, <1>4, <2>2
      <3> QED  BY <1>2, <2>2, <3>1
    <2>3. CASE n # next_sequence
      <3>1. n - overwritten' # Len(frames')
        BY <1>3, <1>4, <2>1, <2>3
      <3>2. frames'[n - overwritten'] = frames[n - overwritten]
        <4>1. (IF Full THEN (n - overwritten') + 1 ELSE n - overwritten') = n - overwritten
          BY <1>3, <1>4, <2>1
        <4> QED  BY <1>2, <2>1, <3>1, <4>1
      <3>3. n \in D
        BY <2>3
      <3> QED  BY <2>3, <3>2, <3>3
    <2> QED  BY <2>2, <2>3
  <1>9. [n \in {frames'[i].sequence : i \in DOMAIN frames'} |-> frames'[n - overwritten'].id] = slid
    BY <1>6, <1>7, <1>8
  <1>10. next_sequence' - 1 = (next_sequence - 1) + 1 /\ (next_sequence - 1) + 1 = next_sequence
    BY <1>3, <1>4
  <1> QED  BY <1>9, <1>10 DEF Stored

=============================================================================
