------------------------ MODULE BusStatisticsProofs ------------------------
(***************************************************************************)
(* The sliding window of BusStatistics for any window, clock, frames and   *)
(* workers: what it holds, what a worker answers from it, that every       *)
(* running total is what counting again would give, and that the           *)
(* statistics are ahead of the store.                                      *)
(***************************************************************************)
EXTENDS BusStatistics, FrameStoreProofs, NatRecursion, FiniteSetTheorems, TLAPS

-----------------------------------------------------------------------------
(* Arithmetic.                                                             *)

LEMMA SmallMod ==
    ASSUME NEW n \in Nat \ {0}, NEW x \in 0 .. n - 1
    PROVE  x % n = x
  OBVIOUS

-----------------------------------------------------------------------------
(* Sums.                                                                   *)

\* What SumOf computes on its way: the sums of the prefixes.
Sums(f, F) ==
    /\ F \in [0 .. Len(f) -> Nat]
    /\ F[0] = 0
    /\ \A n \in 1 .. Len(f) : F[n] = F[n - 1] + f[n]

LEMMA SumsExist == ASSUME NEW f \in Seq(Nat) PROVE \E F : Sums(f, F)
<1> DEFINE step == [n \in Nat |-> [s \in Nat |-> s + IF n + 1 \in 1 .. Len(f) THEN f[n + 1] ELSE 0]]
<1>1. step \in [Nat -> [Nat -> Nat]]
  OBVIOUS
<1>2. PICK F : Recursive(F, Nat, 0, step)
  <2> HIDE DEF step
  <2>1. 0 \in Nat
    OBVIOUS
  <2>2. QED
    BY <1>1, <2>1, Recursion
<1>3. F \in [Nat -> Nat] /\ F[0] = 0
  BY <1>2 DEF Recursive
<1>4. ASSUME NEW n \in 1 .. Len(f) PROVE F[n] = F[n - 1] + f[n]
  <2>1. n - 1 \in Nat /\ (n - 1) + 1 = n
    OBVIOUS
  <2>2. F[n] = step[n - 1][F[n - 1]]
    <3> HIDE DEF step
    <3> QED
      BY <1>2, <2>1 DEF Recursive
  <2>3. F[n - 1] \in Nat
    BY <1>3, <2>1
  <2>4. QED
    BY <2>1, <2>2, <2>3
<1>5. Sums(f, [n \in 0 .. Len(f) |-> F[n]])
  <2> HIDE DEF step
  <2>1. Len(f) \in Nat
    OBVIOUS
  <2>2. \A n \in 1 .. Len(f) : n \in 0 .. Len(f) /\ n - 1 \in 0 .. Len(f)
    OBVIOUS
  <2>3. QED
    BY <1>3, <1>4, <2>1, <2>2 DEF Sums
<1>6. QED
  BY <1>5

\* Two sequences have the same n first elements.
SamePrefix(f, g, n) ==
    /\ n \in Nat /\ Len(f) \in Nat /\ Len(g) \in Nat /\ n <= Len(f) /\ n <= Len(g)
    /\ \A i \in 1 .. n : f[i] = g[i]

\* Sums of equal prefixes are equal.
LEMMA SumsAgree ==
    ASSUME NEW f, NEW g, NEW F, NEW G, NEW n, Sums(f, F), Sums(g, G), SamePrefix(f, g, n)
    PROVE  F[n] = G[n]
<1> DEFINE T == {k \in Nat : k <= n => F[k] = G[k]}
<1>1. 0 \in T
  BY DEF Sums
<1>2. ASSUME NEW k \in Nat, k \in T PROVE k + 1 \in T
  <2>1. SUFFICES ASSUME k + 1 <= n PROVE F[k + 1] = G[k + 1]
    OBVIOUS
  <2>2. k + 1 \in 1 .. n /\ k + 1 \in 1 .. Len(f) /\ k + 1 \in 1 .. Len(g) /\ (k + 1) - 1 = k
    BY <2>1 DEF SamePrefix
  <2>3. F[k + 1] = F[k] + f[k + 1] /\ G[k + 1] = G[k] + g[k + 1]
    BY <2>2 DEF Sums
  <2>4. F[k] = G[k] /\ f[k + 1] = g[k + 1]
    BY <1>2, <2>1, <2>2 DEF SamePrefix
  <2>5. QED
    BY <2>3, <2>4
<1>3. Nat \subseteq T
  <2> HIDE DEF T
  <2> QED BY <1>1, <1>2, Induction
<1>4. QED
  BY <1>3 DEF SamePrefix

LEMMA SumIs == ASSUME NEW f \in Seq(Nat), NEW F, Sums(f, F) PROVE SumOf(f) = F[Len(f)]
<1> DEFINE sum == CHOOSE s : s = [n \in 0 .. Len(f) |-> IF n = 0 THEN 0 ELSE s[n - 1] + f[n]]
<1>1. F = [n \in 0 .. Len(f) |-> IF n = 0 THEN 0 ELSE F[n - 1] + f[n]]
  BY DEF Sums
<1>2. sum = [n \in 0 .. Len(f) |-> IF n = 0 THEN 0 ELSE sum[n - 1] + f[n]]
  BY <1>1
<1>3. SumOf(f) = sum[Len(f)]
  BY DEF SumOf
<1>4. Sums(f, sum)
  <2> HIDE DEF sum
  <2> DEFINE T == {k \in Nat : k <= Len(f) => sum[k] \in Nat}
  <2>1. Len(f) \in Nat
    OBVIOUS
  <2>2. sum[0] = 0 /\ \A n \in 1 .. Len(f) : sum[n] = sum[n - 1] + f[n]
    <3>1. \A n \in 1 .. Len(f) : n # 0 /\ n \in 0 .. Len(f)
      OBVIOUS
    <3>2. 0 \in 0 .. Len(f)
      OBVIOUS
    <3>3. sum[0] = 0
      BY <1>2, <3>2
    <3>4. QED
      BY <1>2, <3>1, <3>3
  <2>3. 0 \in T
    BY <2>2
  <2>4. ASSUME NEW k \in Nat, k \in T PROVE k + 1 \in T
    <3>1. SUFFICES ASSUME k + 1 <= Len(f) PROVE sum[k + 1] \in Nat
      OBVIOUS
    <3>2. k + 1 \in 1 .. Len(f) /\ (k + 1) - 1 = k /\ sum[k] \in Nat /\ f[k + 1] \in Nat
      BY <2>4, <3>1
    <3>3. QED
      BY <2>2, <3>2
  <2>5. Nat \subseteq T
    <3> HIDE DEF T
    <3> QED BY <2>3, <2>4, Induction
  <2>6. \A n \in 0 .. Len(f) : sum[n] \in Nat
    BY <2>5
  <2>7. DOMAIN sum = 0 .. Len(f) /\ sum = [n \in 0 .. Len(f) |-> sum[n]]
    BY <1>2
  <2>8. sum \in [0 .. Len(f) -> Nat]
    BY <2>6, <2>7
  <2>9. QED
    BY <2>2, <2>8 DEF Sums
<1>5. SamePrefix(f, f, Len(f))
  BY DEF SamePrefix
<1> HIDE DEF sum
<1>6. sum[Len(f)] = F[Len(f)]
  BY <1>4, <1>5, SumsAgree
<1>7. QED
  BY <1>3, <1>6

LEMMA SumOfType == ASSUME NEW f \in Seq(Nat) PROVE SumOf(f) \in Nat
<1>1. PICK F : Sums(f, F)
  BY SumsExist
<1>2. SumOf(f) = F[Len(f)] /\ Len(f) \in 0 .. Len(f)
  BY <1>1, SumIs
<1>3. QED
  BY <1>1, <1>2 DEF Sums

LEMMA SumOfNone == ASSUME NEW f \in Seq(Nat), Len(f) = 0 PROVE SumOf(f) = 0
<1>1. PICK F : Sums(f, F)
  BY SumsExist
<1>2. QED
  BY <1>1, SumIs DEF Sums

\* One more number.
LEMMA SumOfAppend ==
    ASSUME NEW f \in Seq(Nat), NEW g \in Seq(Nat), Len(g) = Len(f) + 1,
           \A i \in 1 .. Len(f) : g[i] = f[i]
    PROVE  SumOf(g) = SumOf(f) + g[Len(g)]
<1>1. PICK F, G : Sums(f, F) /\ Sums(g, G)
  BY SumsExist
<1>2. SamePrefix(f, g, Len(f)) /\ Len(g) \in 1 .. Len(g) /\ Len(g) - 1 = Len(f)
  BY DEF SamePrefix
<1>3. F[Len(f)] = G[Len(f)]
  BY <1>1, <1>2, SumsAgree
<1>4. G[Len(g)] = G[Len(f)] + g[Len(g)]
  BY <1>1, <1>2 DEF Sums
<1>5. QED
  BY <1>1, <1>3, <1>4, SumIs

\* A sum in two parts.
LEMMA SumOfSplit ==
    ASSUME NEW f \in Seq(Nat), NEW p \in Seq(Nat), NEW s \in Seq(Nat),
           Len(f) = Len(p) + Len(s),
           \A i \in 1 .. Len(p) : f[i] = p[i],
           \A i \in 1 .. Len(s) : f[Len(p) + i] = s[i]
    PROVE  SumOf(f) = SumOf(p) + SumOf(s)
<1>1. PICK F, P, S : Sums(f, F) /\ Sums(p, P) /\ Sums(s, S)
  BY SumsExist
<1>1a. F[Len(p)] = P[Len(p)]
  <2>1. SamePrefix(f, p, Len(p))
    BY DEF SamePrefix
  <2>2. QED
    BY <1>1, <2>1, SumsAgree
<1> DEFINE a == Len(p)
           b == Len(s)
           T == {k \in Nat : k <= b => F[a + k] = F[a] + S[k]}
<1>2. a \in Nat /\ b \in Nat /\ Len(f) = a + b /\ Len(p) = a /\ Len(s) = b /\ a \in 0 .. Len(f)
      /\ Len(f) \in Nat /\ Len(p) \in Nat /\ a <= Len(f) /\ a <= Len(p)
  OBVIOUS
<1>2b. \A i \in 1 .. b : f[a + i] = s[i] /\ s[i] \in Nat
  OBVIOUS
<1> HIDE DEF a, b
<1>3. F[a] = P[a]
  BY <1>1a, <1>2
<1>4. F[a] \in Nat
  BY <1>1, <1>2 DEF Sums
<1>5. 0 \in T
  BY <1>1, <1>2, <1>4 DEF Sums
<1>6. ASSUME NEW k \in Nat, k \in T PROVE k + 1 \in T
  <2>1. SUFFICES ASSUME k + 1 <= b PROVE F[a + (k + 1)] = F[a] + S[k + 1]
    OBVIOUS
  <2>2. k + 1 \in 1 .. b /\ a + (k + 1) \in 1 .. Len(f) /\ (a + (k + 1)) - 1 = a + k
        /\ (k + 1) - 1 = k /\ k \in 0 .. b
    BY <1>2, <2>1
  <2>3. F[a + (k + 1)] = F[a + k] + f[a + (k + 1)] /\ S[k + 1] = S[k] + s[k + 1]
        /\ S[k] \in Nat
    BY <1>1, <2>2 DEF Sums, b
  <2>4. F[a + k] = F[a] + S[k] /\ f[a + (k + 1)] = s[k + 1] /\ s[k + 1] \in Nat
    <3>1. k <= b
      BY <1>2, <2>1
    <3>2. QED
      BY <1>2b, <1>6, <2>2, <3>1
  <2>5. QED
    BY <1>4, <2>3, <2>4
<1>7. Nat \subseteq T
  <2> HIDE DEF T
  <2> QED BY <1>5, <1>6, Induction
<1>8. F[a + b] = F[a] + S[b]
  BY <1>2, <1>7
<1>9. SumOf(f) = F[a + b] /\ SumOf(p) = P[a] /\ SumOf(s) = S[b]
  BY <1>1, <1>2, SumIs DEF a, b
<1>10. QED
  BY <1>3, <1>8, <1>9

\* A frame has at most 158 bits, and so has each of a sum's terms.
LEMMA SumOfBits ==
    ASSUME NEW f \in Seq(Nat), \A i \in 1 .. Len(f) : f[i] <= 158
    PROVE  SumOf(f) <= 158 * Len(f)
<1>1. Len(f) \in Nat
  OBVIOUS
<1>2. PICK F : Sums(f, F)
  BY SumsExist
<1> DEFINE T == {k \in Nat : k <= Len(f) => F[k] <= 158 * k}
<1>3. 0 \in T
  BY <1>2 DEF Sums
<1>4. ASSUME NEW k \in Nat, k \in T PROVE k + 1 \in T
  <2>1. SUFFICES ASSUME k + 1 <= Len(f) PROVE F[k + 1] <= 158 * (k + 1)
    OBVIOUS
  <2>2. k + 1 \in 1 .. Len(f) /\ (k + 1) - 1 = k /\ k \in 0 .. Len(f)
    BY <2>1
  <2>3. F[k + 1] = F[k] + f[k + 1] /\ F[k] \in Nat
    BY <1>2, <2>2 DEF Sums
  <2>4. F[k] <= 158 * k /\ f[k + 1] \in Nat /\ f[k + 1] <= 158
    BY <1>1, <1>4, <2>1, <2>2
  <2>5. QED
    BY <2>3, <2>4
<1>5. Nat \subseteq T
  <2> HIDE DEF T
  <2> QED BY <1>3, <1>4, Induction
<1>6. QED
  BY <1>1, <1>2, <1>5, SumIs

-----------------------------------------------------------------------------
(* The samples.                                                            *)

LEMMA SampleOf ==
    ASSUME NEW f \in Stamped
    PROVE  Sample(f) \in Samples /\ Sample(f).timestamp_ns = f.timestamp_ns
           /\ f.timestamp_ns \in Time /\ f.kind \in Ids
  BY DEF Sample, Samples, Stamped

LEMMA SampleTime == ASSUME NEW s \in Samples PROVE s.timestamp_ns \in Time
  BY SampleOf DEF Samples

\* The guard keeps the unsigned difference from wrapping.
LEMMA ExpiredIsOld ==
    ASSUME NEW s \in Samples, NEW t \in Time
    PROVE  Expired(s, t) <=> s.timestamp_ns + Window <= t
<1>1. s.timestamp_ns \in 0 .. MaxNow /\ t \in 0 .. MaxNow
  BY SampleTime DEF Time
<1>2. MaxNow \in Nat /\ Window \in Nat \ {0} /\ Size \in Nat \ {0} /\ MaxNow + Window < Size
  BY ClockAssumption
<1>3. CASE t >= s.timestamp_ns
  <2>1. t - s.timestamp_ns \in 0 .. Size - 1
    BY <1>1, <1>2, <1>3
  <2>2. Minus(t, s.timestamp_ns) = t - s.timestamp_ns
    BY <1>2, <2>1, SmallMod DEF Minus
  <2>3. QED
    BY <1>1, <1>2, <1>3, <2>2 DEF Expired
<1>4. CASE ~ (t >= s.timestamp_ns)
  BY <1>1, <1>2, <1>4 DEF Expired
<1>5. QED
  BY <1>3, <1>4

\* The loop pops the longest expired prefix.
LEMMA PoppedPrefix ==
    ASSUME NEW samples \in Seq(Samples), NEW t \in Time
    PROVE  /\ Popped(samples, t) \in 0 .. Len(samples)
           /\ \A j \in 1 .. Popped(samples, t) : Expired(samples[j], t)
           /\ Popped(samples, t) < Len(samples) => ~ Expired(samples[Popped(samples, t) + 1], t)
<1> DEFINE n == Len(samples)
           T == {i \in 1 .. n + 1 : i <= n => ~ Expired(samples[i], t)}
<1>1. n \in Nat
  OBVIOUS
<1>2. n + 1 \in T /\ T \in SUBSET Nat
  BY <1>1
<1>3. PICK m \in T : \A i \in T : m <= i
  BY <1>2, LeastNumber
<1>4. /\ m - 1 \in 0 .. n
      /\ \A j \in 1 .. m - 1 : Expired(samples[j], t)
      /\ m - 1 < n => ~ Expired(samples[(m - 1) + 1], t)
  BY <1>1, <1>3
<1>5. \E k \in 0 .. n : /\ \A j \in 1 .. k : Expired(samples[j], t)
                        /\ k < n => ~ Expired(samples[k + 1], t)
  BY <1>4
<1>6. QED
  BY <1>5 DEF Popped

-----------------------------------------------------------------------------
(* What removing expired samples leaves.                                   *)

\* The samples are those of the last frames of rec; the frames before were old at t.
Suffix(samples, rec) ==
    /\ Len(samples) <= Len(rec)
    /\ \A i \in DOMAIN samples : samples[i] = Sample(rec[Len(rec) - Len(samples) + i])
OldBefore(samples, rec, t) ==
    \A i \in 1 .. Len(rec) - Len(samples) : rec[i].timestamp_ns + Window <= t

LEMMA WindowIsSuffixOfRecorded ==
    ASSUME Types
    PROVE  WindowIsSuffix <=> Suffix(window_samples_, recorded)
                              /\ OldBefore(window_samples_, recorded, now)
<1>1. Len(recorded) \in Nat /\ Len(window_samples_) \in Nat
  BY DEF Types
<1>2. Dropped >= 0 <=> Len(window_samples_) <= Len(recorded)
  BY <1>1 DEF Dropped
<1>3. QED
  BY <1>2 DEF WindowIsSuffix, Suffix, OldBefore, Dropped

LEMMA RemoveExpiredKeepsSuffix ==
    ASSUME NEW samples \in Seq(Samples), NEW bits, NEW t \in Time, NEW u \in Time, t <= u,
           NEW rec \in Seq(Stamped), Suffix(samples, rec), OldBefore(samples, rec, u),
           RemoveExpired(samples, bits, t)
    PROVE  /\ window_samples_' \in Seq(Samples)
           /\ Suffix(window_samples_', rec)
           /\ OldBefore(window_samples_', rec, u)
           /\ window_samples_' # <<>> => ~ Expired(window_samples_'[1], t)
<1> DEFINE k == Popped(samples, t)
           n == Len(samples)
           m == Len(rec)
           rest == window_samples_'
<1>1. /\ k \in 0 .. n
      /\ \A j \in 1 .. k : Expired(samples[j], t)
      /\ k < n => ~ Expired(samples[k + 1], t)
  BY PoppedPrefix
<1>2. rest = SubSeq(samples, k + 1, n)
  BY DEF RemoveExpired
<1>3. n \in Nat /\ m \in Nat /\ n <= m
  BY DEF Suffix
<1> HIDE DEF k
<1>4. rest \in Seq(Samples) /\ Len(rest) = n - k /\ \A i \in 1 .. n - k : rest[i] = samples[k + i]
  BY <1>1, <1>2, <1>3
<1>5. Suffix(rest, rec)
  <2>1. ASSUME NEW i \in DOMAIN rest PROVE rest[i] = Sample(rec[m - Len(rest) + i])
    <3>1. i \in 1 .. n - k
      BY <1>4
    <3>2. k + i \in DOMAIN samples /\ rest[i] = samples[k + i]
      <4>1. k + i \in 1 .. n
        BY <1>1, <1>3, <3>1
      <4>2. DOMAIN samples = 1 .. n
        OBVIOUS
      <4>3. QED
        BY <1>4, <3>1, <4>1, <4>2
    <3>3. samples[k + i] = Sample(rec[m - n + (k + i)])
      BY <3>2 DEF Suffix
    <3>4. m - n + (k + i) = m - Len(rest) + i
      BY <1>1, <1>3, <1>4, <3>1
    <3>5. QED
      BY <3>2, <3>3, <3>4
  <2>2. Len(rest) <= m
    BY <1>1, <1>3, <1>4
  <2>3. QED
    BY <2>1, <2>2 DEF Suffix
<1>6. OldBefore(rest, rec, u)
  <2>1. ASSUME NEW i \in 1 .. m - (n - k) PROVE rec[i].timestamp_ns + Window <= u
    <3>1. CASE i <= m - n
      <4>1. i \in 1 .. m - n
        BY <1>3, <3>1
      <4>2. QED
        BY <4>1 DEF OldBefore
    <3>2. CASE ~ (i <= m - n)
      <4> DEFINE j == i - (m - n)
      <4>1. j \in 1 .. k /\ j \in DOMAIN samples /\ i \in DOMAIN rec /\ m - n + j = i
        BY <1>1, <1>3, <3>2
      <4>2. samples[j] = Sample(rec[i])
        BY <4>1 DEF Suffix
      <4>3. Expired(samples[j], t)
        BY <1>1, <4>1
      <4>4. rec[i] \in Stamped /\ samples[j] \in Samples
        BY <4>1
      <4>5. samples[j].timestamp_ns + Window <= t
        BY <4>3, <4>4, ExpiredIsOld
      <4>6. rec[i].timestamp_ns + Window <= t /\ rec[i].timestamp_ns \in Time
        BY <4>2, <4>4, <4>5, SampleOf
      <4>7. QED
        BY <4>6, ClockAssumption DEF Time
    <3>3. QED
      BY <3>1, <3>2
  <2>2. QED
    BY <1>4, <2>1 DEF OldBefore
<1>7. rest # <<>> => ~ Expired(rest[1], t)
  BY <1>1, <1>3, <1>4
<1>8. QED
  BY <1>4, <1>5, <1>6, <1>7

-----------------------------------------------------------------------------
(* The steps.                                                              *)

LEMMA InitIInv == Init => IInv
<1> SUFFICES ASSUME Init PROVE IInv
  OBVIOUS
<1>1. 0 \in Time
  BY ClockAssumption DEF Time
<1>2. Types
  BY <1>1 DEF Init, StoreInit, Types, Stamped
<1>3. StampsAreOrdered /\ WindowIsSuffix /\ CountedBeforeStored
  BY <1>1 DEF Init, StoreInit, StampsAreOrdered, WindowIsSuffix, Dropped, CountedBeforeStored, Time
<1>4. QED
  BY <1>2, <1>3 DEF IInv

LEMMA TickIInv == ASSUME IInv, Tick PROVE IInv'
<1>1. now' = now + 1 /\ now' \in Time /\ now \in Time
  BY ClockAssumption DEF Tick, IInv, Types, Time
<1>2. UNCHANGED <<storeVars, statVars, rcvVars, workerVars>>
  BY DEF Tick
<1>3. Types'
  BY <1>1, <1>2 DEF IInv, Types, storeVars, statVars, rcvVars, workerVars
<1>4. StampsAreOrdered'
  BY <1>1, <1>2, SampleOf DEF IInv, Types, StampsAreOrdered, rcvVars, workerVars, Time
<1>5. WindowIsSuffix'
  <2>1. \A i \in DOMAIN recorded : recorded[i].timestamp_ns \in Nat
    BY SampleOf DEF IInv, Types, Time
  <2>2. \A i \in 1 .. Dropped : i \in DOMAIN recorded
    BY DEF IInv, Types, Dropped
  <2>3. \A i \in 1 .. Dropped : recorded[i].timestamp_ns + Window <= now'
    BY <1>1, <2>1, <2>2, ClockAssumption DEF IInv, WindowIsSuffix, Time
  <2>4. QED
    BY <1>2, <2>3 DEF IInv, WindowIsSuffix, Dropped, statVars, rcvVars
<1>6. CountedBeforeStored'
  BY <1>2 DEF IInv, CountedBeforeStored, storeVars, statVars, rcvVars
<1>7. QED
  BY <1>3, <1>4, <1>5, <1>6 DEF IInv

LEMMA StampIInv == ASSUME IInv, NEW kind \in Ids, Stamp(kind) PROVE IInv'
<1>1. /\ rcv = "read" /\ rcv' = "record"
      /\ frame' = [kind |-> kind, timestamp_ns |-> now]
      /\ UNCHANGED <<storeVars, now, statVars, recorded, workerVars>>
  BY DEF Stamp
<1>2. frame' \in Stamped /\ frame'.timestamp_ns = now
  BY <1>1 DEF IInv, Types, Stamped
<1>3. Types'
  BY <1>1, <1>2 DEF IInv, Types, storeVars, statVars, workerVars
<1>4. StampsAreOrdered'
  BY <1>1, <1>2 DEF IInv, Types, StampsAreOrdered, workerVars, Time
<1>5. WindowIsSuffix' /\ CountedBeforeStored'
  BY <1>1 DEF IInv, WindowIsSuffix, Dropped, CountedBeforeStored, storeVars, statVars
<1>6. QED
  BY <1>3, <1>4, <1>5 DEF IInv

LEMMA RecordIInv ==
    ASSUME IInv, rcv = "record", rcv' = "store", RecordReceived,
           UNCHANGED <<storeVars, now, frame, workerVars>>
    PROVE  IInv'
<1> DEFINE s == Sample(frame)
           samples == Append(window_samples_, s)
           rec == Append(recorded, frame)
           m == Len(recorded)
           n == Len(window_samples_)
<1>1. Types /\ StampsAreOrdered /\ CountedBeforeStored
      /\ Suffix(window_samples_, recorded) /\ OldBefore(window_samples_, recorded, now)
  BY WindowIsSuffixOfRecorded DEF IInv
<1>2. /\ frame \in Stamped /\ s \in Samples /\ frame.timestamp_ns \in Time /\ now \in Time
      /\ frame.timestamp_ns <= now
      /\ recorded \in Seq(Stamped) /\ window_samples_ \in Seq(Samples)
  BY <1>1, SampleOf DEF Types, StampsAreOrdered
<1> HIDE DEF s
<1>3. /\ samples \in Seq(Samples) /\ rec \in Seq(Stamped)
      /\ Len(samples) = n + 1 /\ Len(rec) = m + 1 /\ m \in Nat /\ n \in Nat /\ n <= m
      /\ \A i \in 1 .. m : rec[i] = recorded[i]
      /\ rec[m + 1] = frame
      /\ \A i \in 1 .. n : samples[i] = window_samples_[i]
      /\ samples[n + 1] = s
  BY <1>1, <1>2 DEF Suffix
<1> HIDE DEF samples, rec
<1>4. Suffix(samples, rec)
  <2>1. ASSUME NEW i \in 1 .. n + 1 PROVE samples[i] = Sample(rec[(m + 1) - (n + 1) + i])
    <3>1. CASE i = n + 1
      BY <1>3, <3>1 DEF s
    <3>2. CASE i # n + 1
      <4>1. i \in 1 .. n /\ i \in DOMAIN window_samples_ /\ m - n + i \in 1 .. m
        BY <1>2, <1>3, <3>2
      <4>2. samples[i] = window_samples_[i]
        BY <1>3, <4>1
      <4>5. window_samples_[i] = Sample(recorded[m - n + i])
        BY <1>1, <4>1 DEF Suffix
      <4>3. rec[m - n + i] = recorded[m - n + i] /\ (m + 1) - (n + 1) + i = m - n + i
        BY <1>3, <4>1
      <4>4. QED
        BY <4>2, <4>3, <4>5
    <3>3. QED
      BY <3>1, <3>2
  <2>2. DOMAIN samples = 1 .. n + 1 /\ Len(samples) <= Len(rec)
    BY <1>3
  <2>3. \A i \in DOMAIN samples : samples[i] = Sample(rec[Len(rec) - Len(samples) + i])
    BY <1>3, <2>1, <2>2
  <2>4. QED
    BY <2>2, <2>3 DEF Suffix
<1>5. OldBefore(samples, rec, now)
  <2>1. ASSUME NEW i \in 1 .. (m + 1) - (n + 1) PROVE rec[i].timestamp_ns + Window <= now
    <3>1. i \in 1 .. m /\ i \in 1 .. m - n
      BY <1>3
    <3>2. QED
      BY <1>1, <1>3, <3>1 DEF OldBefore
  <2>2. QED
    BY <1>3, <2>1 DEF OldBefore
<1>6. \E bits : RemoveExpired(samples, bits, frame.timestamp_ns)
  BY DEF RecordReceived, samples, s
<1>7. window_samples_' \in Seq(Samples) /\ Suffix(window_samples_', rec)
      /\ OldBefore(window_samples_', rec, now)
  BY <1>2, <1>3, <1>4, <1>5, <1>6, RemoveExpiredKeepsSuffix
<1>8. /\ recorded' = rec /\ total_received_frames_' = total_received_frames_ + 1
      /\ now' = now /\ frame' = frame /\ total_appended' = total_appended
      /\ pc' = pc /\ now_ns' = now_ns /\ rate' = rate
  BY DEF RecordReceived, rec, storeVars, workerVars
<1>9. Types'
  BY <1>1, <1>3, <1>7, <1>8 DEF Types
<1>10. WindowIsSuffix'
  <2>1. Suffix(window_samples_', recorded') /\ OldBefore(window_samples_', recorded', now')
    BY <1>7, <1>8
  <2>2. Len(recorded') \in Nat /\ Len(window_samples_') \in Nat
    BY <1>9 DEF Types
  <2>3. QED
    BY <2>1, <2>2 DEF WindowIsSuffix, Dropped, Suffix, OldBefore
<1>11. StampsAreOrdered'
  <2>1. \A i \in DOMAIN recorded : recorded[i].timestamp_ns <= frame.timestamp_ns
                                   /\ recorded[i].timestamp_ns \in Nat
    BY <1>1, <1>2, SampleOf DEF StampsAreOrdered, Time
  <2>2. DOMAIN rec = 1 .. m + 1 /\ DOMAIN recorded = 1 .. m
    BY <1>2, <1>3
  <2>3. \A i, j \in DOMAIN rec : i < j => rec[i].timestamp_ns <= rec[j].timestamp_ns
    BY <1>1, <1>3, <2>1, <2>2 DEF StampsAreOrdered
  <2>4. \A i \in DOMAIN rec : rec[i].timestamp_ns <= now
    BY <1>2, <1>3, <2>1, <2>2 DEF Time
  <2>5. QED
    BY <1>1, <1>8, <2>3, <2>4 DEF StampsAreOrdered
<1>12. CountedBeforeStored'
  BY <1>1, <1>8 DEF CountedBeforeStored, Types
<1>13. QED
  BY <1>9, <1>10, <1>11, <1>12 DEF IInv

LEMMA StoreIInv ==
    ASSUME IInv, rcv = "store", rcv' = "read", NEW kind, Append1(kind),
           UNCHANGED <<statVars, recorded, now, frame, workerVars>>
    PROVE  IInv'
<1>1. total_appended' = total_appended + 1
  BY DEF Append1
<1>2. Types'
  BY <1>1 DEF IInv, Types, statVars, workerVars
<1>3. StampsAreOrdered' /\ WindowIsSuffix'
  BY DEF IInv, StampsAreOrdered, WindowIsSuffix, Dropped, statVars, workerVars
<1>4. CountedBeforeStored'
  BY <1>1 DEF IInv, Types, CountedBeforeStored, statVars
<1>5. QED
  BY <1>2, <1>3, <1>4 DEF IInv

LEMMA ReadClockIInv == ASSUME IInv, NEW w \in Workers, ReadClock(w) PROVE IInv'
<1>1. /\ now_ns' = [now_ns EXCEPT ![w] = now]
      /\ pc' = [pc EXCEPT ![w] = "snapshot"]
      /\ UNCHANGED <<storeVars, now, statVars, rcvVars, rate>>
  BY DEF ReadClock
<1>2. Types'
  BY <1>1 DEF IInv, Types, storeVars, statVars, rcvVars
<1>3. StampsAreOrdered'
  BY <1>1 DEF IInv, Types, StampsAreOrdered, rcvVars, Time
<1>4. WindowIsSuffix' /\ CountedBeforeStored'
  BY <1>1 DEF IInv, WindowIsSuffix, Dropped, CountedBeforeStored, storeVars, statVars, rcvVars
<1>5. QED
  BY <1>2, <1>3, <1>4 DEF IInv

\* A snapshot drops no sample of less than the window's age, and every one that
\* is at least as old as the window by its own reading of the clock.
LEMMA SnapshotWindow ==
    ASSUME IInv, NEW w \in Workers, Snapshot(w)
    PROVE  /\ window_samples_' \in Seq(Samples)
           /\ Suffix(window_samples_', recorded)
           /\ OldBefore(window_samples_', recorded, now)
           /\ window_samples_' # <<>> => ~ Expired(window_samples_'[1], now_ns[w])
<1>1. /\ Suffix(window_samples_, recorded) /\ OldBefore(window_samples_, recorded, now)
      /\ recorded \in Seq(Stamped) /\ window_samples_ \in Seq(Samples)
      /\ now_ns[w] \in Time /\ now \in Time /\ now_ns[w] <= now
  BY WindowIsSuffixOfRecorded DEF IInv, Types, StampsAreOrdered
<1>2. RemoveExpired(window_samples_, window_estimated_bits_, now_ns[w])
  BY DEF Snapshot
<1>3. QED
  BY <1>1, <1>2, RemoveExpiredKeepsSuffix

LEMMA SnapshotIInv == ASSUME IInv, NEW w \in Workers, Snapshot(w) PROVE IInv'
<1>1. /\ now_ns' = [now_ns EXCEPT ![w] = 0] /\ pc' = [pc EXCEPT ![w] = "idle"]
      /\ rate' = [rate EXCEPT ![w] = Len(window_samples_')]
      /\ UNCHANGED <<storeVars, now, rcvVars, total_received_frames_>>
  BY DEF Snapshot
<1>2. Types'
  BY <1>1, SnapshotWindow, ClockAssumption DEF IInv, Types, storeVars, rcvVars, Time
<1>3. StampsAreOrdered'
  BY <1>1 DEF IInv, Types, StampsAreOrdered, rcvVars, Time
<1>4. WindowIsSuffix'
  <2>1. Suffix(window_samples_', recorded') /\ OldBefore(window_samples_', recorded', now')
    BY <1>1, SnapshotWindow DEF rcvVars
  <2>2. Len(recorded') \in Nat /\ Len(window_samples_') \in Nat
    BY <1>2 DEF Types
  <2>3. QED
    BY <2>1, <2>2 DEF WindowIsSuffix, Dropped, Suffix, OldBefore
<1>5. CountedBeforeStored'
  BY <1>1 DEF IInv, CountedBeforeStored, storeVars, rcvVars
<1>6. QED
  BY <1>2, <1>3, <1>4, <1>5 DEF IInv

LEMMA StepIInv == ASSUME IInv, [Next]_vars PROVE IInv'
<1>1. CASE UNCHANGED vars
  BY <1>1 DEF vars, storeVars, statVars, rcvVars, workerVars, IInv, Types, StampsAreOrdered,
              WindowIsSuffix, Dropped, CountedBeforeStored
<1>2. CASE Deliver
  BY <1>2, RecordIInv, StoreIInv DEF Deliver
<1>3. QED
  BY <1>1, <1>2, TickIInv, StampIInv, ReadClockIInv, SnapshotIInv DEF Next

\* CanBusStatistics: the window is what was recorded and not yet dropped.
THEOREM StatisticsInvariant == Spec => []IInv
<1>1. Init => IInv
  BY InitIInv
<1>2. IInv /\ [Next]_vars => IInv'
  BY StepIInv
<1>3. QED
  BY <1>1, <1>2, PTL DEF Spec

\* CanBusStatistics: whoever drops samples, with however old a clock value, the
\* window is an unbroken run of the newest frames, and what is gone was old.
THEOREM WindowIsUnbroken == Spec => []WindowIsSuffix
<1>1. IInv => WindowIsSuffix
  BY DEF IInv
<1>2. QED
  BY <1>1, StatisticsInvariant, PTL

\* CanReceiver::receiveLoop: a frame is counted before it can be queried, and
\* at most one that is counted cannot be queried yet.
THEOREM StatisticsAreAhead == Spec => []StatsLeadStore
<1>1. IInv => StatsLeadStore
  BY DEF IInv, Types, CountedBeforeStored, StatsLeadStore
<1>2. QED
  BY <1>1, StatisticsInvariant, PTL

-----------------------------------------------------------------------------
(* The rate a worker answers.                                              *)

LEMMA FreshIsFinite ==
    ASSUME Types, NEW t
    PROVE  /\ IsFiniteSet(DOMAIN recorded)
           /\ {i \in DOMAIN recorded : recorded[i].timestamp_ns + Window > t} \in SUBSET DOMAIN recorded
<1>1. DOMAIN recorded = 1 .. Len(recorded) /\ Len(recorded) \in Nat
  BY DEF Types
<1>2. IsFiniteSet(1 .. Len(recorded))
  BY <1>1, FS_Interval
<1>3. QED
  BY <1>1, <1>2

LEMMA LastOnes ==
    ASSUME NEW m \in Nat, NEW l \in Nat, l <= m
    PROVE  IsFiniteSet(m - l + 1 .. m) /\ Cardinality(m - l + 1 .. m) = l
<1> DEFINE a == m - l + 1
<1>1. a \in Int /\ m \in Int
  OBVIOUS
<1>2. (IF a > m THEN 0 ELSE m - a + 1) = l
  OBVIOUS
<1> HIDE DEF a
<1>3. IsFiniteSet(a .. m) /\ Cardinality(a .. m) = l
  BY <1>1, <1>2, FS_Interval
<1>4. QED
  BY <1>3 DEF a

LEMMA SnapshotRate ==
    ASSUME IInv, NEW w \in Workers, Snapshot(w)
    PROVE  Fresh(now) <= rate'[w] /\ rate'[w] <= Fresh(now_ns[w])
<1> DEFINE m == Len(recorded)
           l == Len(window_samples_')
           Left == m - l + 1 .. m
           F(t) == {i \in DOMAIN recorded : recorded[i].timestamp_ns + Window > t}
<1>1. /\ recorded \in Seq(Stamped) /\ m \in Nat /\ l \in Nat /\ l <= m
      /\ now \in Time /\ now_ns[w] \in Time /\ DOMAIN recorded = 1 .. m
      /\ window_samples_' \in Seq(Samples)
  BY SnapshotWindow DEF IInv, Types, Suffix
<1>2. rate'[w] = l
  BY DEF Snapshot, IInv, Types
<1>3. IsFiniteSet(Left) /\ Cardinality(Left) = l
  BY <1>1, LastOnes
<1>4. \A i \in DOMAIN recorded : recorded[i].timestamp_ns \in Nat
  BY <1>1, SampleOf DEF Time
<1>5. Window \in Nat
  BY ClockAssumption
\* What is not kept is old now.
<1>6. F(now) \subseteq Left
  <2>1. ASSUME NEW i \in 1 .. m, i \notin Left PROVE recorded[i].timestamp_ns + Window <= now
    <3>1. i \in 1 .. m - l
      BY <1>1, <2>1
    <3>2. QED
      BY <3>1, SnapshotWindow DEF OldBefore
  <2>2. QED
    BY <1>1, <1>4, <1>5, <2>1 DEF Time
\* The oldest frame kept is young by the worker's clock, and so are those after it.
<1>7. Left \subseteq F(now_ns[w])
  <2>1. ASSUME NEW i \in Left PROVE recorded[i].timestamp_ns + Window > now_ns[w]
    <3> DEFINE first == m - l + 1
    <3>1. l >= 1 /\ 1 \in DOMAIN window_samples_' /\ first \in DOMAIN recorded
          /\ i \in DOMAIN recorded /\ first <= i
      BY <1>1, <2>1
    <3>2. window_samples_'[1] = Sample(recorded[first]) /\ ~ Expired(window_samples_'[1], now_ns[w])
      BY <1>1, <3>1, SnapshotWindow DEF Suffix
    <3>3. recorded[first] \in Stamped
      BY <1>1, <3>1
    <3>4. ~ (recorded[first].timestamp_ns + Window <= now_ns[w])
      BY <1>1, <3>2, <3>3, SampleOf, ExpiredIsOld
    <3>5. recorded[first].timestamp_ns <= recorded[i].timestamp_ns
      <4>1. CASE first = i
        BY <1>4, <3>1, <4>1
      <4>2. CASE first # i
        BY <1>1, <3>1, <4>2 DEF IInv, StampsAreOrdered
      <4>3. QED
        BY <4>1, <4>2
    <3> HIDE DEF first
    <3>6. QED
      BY <1>1, <1>4, <1>5, <3>1, <3>4, <3>5 DEF Time
  <2>2. QED
    BY <1>1, <2>1
<1>8. Types
  BY DEF IInv
<1>9. Cardinality(F(now)) <= l
  BY <1>3, <1>6, FS_Subset
<1>10. IsFiniteSet(F(now_ns[w]))
  BY <1>8, FreshIsFinite, FS_Subset
<1>11. l <= Cardinality(F(now_ns[w]))
  BY <1>3, <1>7, <1>10, FS_Subset
<1>12. QED
  BY <1>2, <1>9, <1>11 DEF Fresh

\* CanRuntime::busStats: the clock is read before the mutex is taken, yet the
\* rate is that of a moment between the reading and the answer.
THEOREM RateIsHonest == Spec => RateIsOfMoment
<1>1. ASSUME IInv, [Next]_vars, NEW w \in Workers, pc[w] = "snapshot", pc'[w] = "idle"
      PROVE  Fresh(now) <= rate'[w] /\ rate'[w] <= Fresh(now_ns[w])
  <2>1. CASE UNCHANGED vars
    BY <1>1, <2>1 DEF vars, workerVars
  <2>2. CASE Tick \/ (\E kind \in Ids : Stamp(kind)) \/ Deliver
    BY <1>1, <2>2 DEF Tick, Stamp, Deliver, workerVars
  <2>3. ASSUME NEW v \in Workers, ReadClock(v)
        PROVE  Fresh(now) <= rate'[w] /\ rate'[w] <= Fresh(now_ns[w])
    BY <1>1, <2>3 DEF ReadClock, IInv, Types
  <2>4. ASSUME NEW v \in Workers, Snapshot(v)
        PROVE  Fresh(now) <= rate'[w] /\ rate'[w] <= Fresh(now_ns[w])
    <3>1. v = w
      BY <1>1, <2>4 DEF Snapshot, IInv, Types
    <3>2. QED
      BY <1>1, <2>4, <3>1, SnapshotRate
  <2>5. QED
    BY <1>1, <2>1, <2>2, <2>3, <2>4 DEF Next
<1>2. IInv /\ [Next]_vars =>
          \A w \in Workers : pc[w] = "snapshot" /\ pc'[w] = "idle" =>
              Fresh(now) <= rate'[w] /\ rate'[w] <= Fresh(now_ns[w])
  BY <1>1
<1>3. QED
  BY <1>2, StatisticsInvariant, PTL DEF Spec, RateIsOfMoment

-----------------------------------------------------------------------------
(* The bits in the window.                                                 *)

LEMMA EstimateIsSmall ==
    ASSUME NEW kind \in Ids
    PROVE  EstimateBits(kind) \in Nat /\ EstimateBits(kind) <= 158
<1>1. kind.dlc \in 0 .. 8
  BY KindsAssumption
<1>2. QED
  BY <1>1 DEF EstimateBits

LEMMA SampleBits ==
    ASSUME NEW s \in Samples
    PROVE  s.estimated_bits \in Nat /\ s.estimated_bits <= 158
<1>1. PICK f \in Stamped : s = Sample(f)
  BY DEF Samples
<1>2. s.estimated_bits = EstimateBits(f.kind) /\ f.kind \in Ids
  BY <1>1, SampleOf DEF Sample
<1>3. QED
  BY <1>2, EstimateIsSmall

\* The terms of BitsOf.
Terms(samples) == [i \in DOMAIN samples |-> samples[i].estimated_bits]

LEMMA TermsType ==
    ASSUME NEW samples \in Seq(Samples)
    PROVE  /\ Terms(samples) \in Seq(Nat)
           /\ Len(Terms(samples)) = Len(samples)
           /\ \A i \in 1 .. Len(samples) : Terms(samples)[i] = samples[i].estimated_bits
<1>1. DOMAIN samples = 1 .. Len(samples) /\ Len(samples) \in Nat
  OBVIOUS
<1>2. \A i \in DOMAIN samples : samples[i].estimated_bits \in Nat
  BY SampleBits
<1>3. QED
  BY <1>1, <1>2 DEF Terms

LEMMA BitsAreBounded ==
    ASSUME NEW samples \in Seq(Samples)
    PROVE  BitsOf(samples) \in Nat /\ BitsOf(samples) <= 158 * Len(samples)
<1>1. BitsOf(samples) = SumOf(Terms(samples))
  BY DEF BitsOf, Terms
<1>2. \A i \in 1 .. Len(samples) : samples[i] \in Samples
  OBVIOUS
<1>3. \A i \in 1 .. Len(samples) : Terms(samples)[i] <= 158
  BY <1>2, TermsType, SampleBits
<1> DEFINE f == Terms(samples)
<1>4. f \in Seq(Nat) /\ Len(f) = Len(samples) /\ \A i \in 1 .. Len(f) : f[i] <= 158
  BY <1>3, TermsType
<1> HIDE DEF f
<1>5. SumOf(f) \in Nat /\ SumOf(f) <= 158 * Len(f)
  BY <1>4, SumOfType, SumOfBits
<1>6. QED
  BY <1>1, <1>4, <1>5 DEF f

LEMMA BitsOfAppend ==
    ASSUME NEW samples \in Seq(Samples), NEW s \in Samples
    PROVE  BitsOf(Append(samples, s)) = BitsOf(samples) + s.estimated_bits
<1> DEFINE longer == Append(samples, s)
           f == Terms(samples)
           g == Terms(longer)
           n == Len(samples)
<1>1. /\ longer \in Seq(Samples) /\ Len(longer) = n + 1 /\ n \in Nat
      /\ \A i \in 1 .. n : longer[i] = samples[i]
      /\ longer[n + 1] = s
  OBVIOUS
<1> HIDE DEF longer
<1>2. /\ f \in Seq(Nat) /\ Len(f) = n /\ \A i \in 1 .. n : f[i] = samples[i].estimated_bits
      /\ g \in Seq(Nat) /\ Len(g) = n + 1
      /\ \A i \in 1 .. n + 1 : g[i] = longer[i].estimated_bits
  BY <1>1, TermsType
<1>3. \A i \in 1 .. n : i \in 1 .. n + 1
  BY <1>1
<1>4. n + 1 \in 1 .. n + 1
  BY <1>1
<1> HIDE DEF f, g
<1>5. \A i \in 1 .. Len(f) : g[i] = f[i]
  BY <1>1, <1>2, <1>3
<1>6. SumOf(g) = SumOf(f) + g[Len(g)]
  BY <1>1, <1>2, <1>5, SumOfAppend
<1>7. g[Len(g)] = s.estimated_bits
  BY <1>1, <1>2, <1>4
<1>8. BitsOf(longer) = SumOf(g) /\ BitsOf(samples) = SumOf(f)
  BY DEF BitsOf, Terms, f, g
<1>9. QED
  BY <1>6, <1>7, <1>8 DEF longer

\* What is popped and what is kept make up the whole.
LEMMA BitsOfSplit ==
    ASSUME NEW samples \in Seq(Samples), NEW k \in 0 .. Len(samples)
    PROVE  /\ SubSeq(samples, 1, k) \in Seq(Samples)
           /\ SubSeq(samples, k + 1, Len(samples)) \in Seq(Samples)
           /\ BitsOf(samples) = BitsOf(SubSeq(samples, 1, k))
                                + BitsOf(SubSeq(samples, k + 1, Len(samples)))
<1> DEFINE n == Len(samples)
           old == SubSeq(samples, 1, k)
           kept == SubSeq(samples, k + 1, n)
           f == Terms(samples)
           p == Terms(old)
           s == Terms(kept)
<1>1. n \in Nat /\ k \in Nat /\ k <= n
  OBVIOUS
<1>2. /\ old \in Seq(Samples) /\ Len(old) = k /\ \A i \in 1 .. k : old[i] = samples[i]
      /\ kept \in Seq(Samples) /\ Len(kept) = n - k
      /\ \A i \in 1 .. n - k : kept[i] = samples[k + i]
  BY <1>1
<1> HIDE DEF old, kept
<1>3. /\ f \in Seq(Nat) /\ Len(f) = n /\ \A i \in 1 .. n : f[i] = samples[i].estimated_bits
      /\ p \in Seq(Nat) /\ Len(p) = k /\ \A i \in 1 .. k : p[i] = old[i].estimated_bits
      /\ s \in Seq(Nat) /\ Len(s) = n - k /\ \A i \in 1 .. n - k : s[i] = kept[i].estimated_bits
  BY <1>1, <1>2, TermsType
<1>4. (\A i \in 1 .. k : i \in 1 .. n) /\ (\A i \in 1 .. n - k : k + i \in 1 .. n)
  BY <1>1
<1> HIDE DEF f, p, s
<1>5. (\A i \in 1 .. k : f[i] = p[i]) /\ (\A i \in 1 .. n - k : f[k + i] = s[i])
  BY <1>2, <1>3, <1>4
<1>6. /\ f \in Seq(Nat) /\ p \in Seq(Nat) /\ s \in Seq(Nat) /\ Len(f) = Len(p) + Len(s)
      /\ \A i \in 1 .. Len(p) : f[i] = p[i]
      /\ \A i \in 1 .. Len(s) : f[Len(p) + i] = s[i]
  BY <1>1, <1>3, <1>5
<1>7. SumOf(f) = SumOf(p) + SumOf(s)
  BY <1>6, SumOfSplit
<1>8. BitsOf(samples) = SumOf(f) /\ BitsOf(old) = SumOf(p) /\ BitsOf(kept) = SumOf(s)
  BY DEF BitsOf, Terms, f, p, s
<1>9. QED
  BY <1>2, <1>7, <1>8 DEF old, kept

\* The running sum stays the sum, and the subtraction does not wrap.
LEMMA RemoveExpiredKeepsSum ==
    ASSUME NEW samples \in Seq(Samples), NEW bits, NEW t \in Time,
           bits = BitsOf(samples), Len(samples) <= MaxFrames,
           RemoveExpired(samples, bits, t)
    PROVE  /\ window_estimated_bits_' = BitsOf(window_samples_')
           /\ window_estimated_bits_' \in Nat
<1> DEFINE k == Popped(samples, t)
           old == SubSeq(samples, 1, k)
           kept == SubSeq(samples, k + 1, Len(samples))
<1>1. k \in 0 .. Len(samples)
  BY PoppedPrefix
<1>2. window_samples_' = kept /\ window_estimated_bits_' = Minus(bits, BitsOf(old))
  BY DEF RemoveExpired
<1> HIDE DEF k
<1>3. old \in Seq(Samples) /\ kept \in Seq(Samples) /\ bits = BitsOf(old) + BitsOf(kept)
  BY <1>1, BitsOfSplit
<1> HIDE DEF old, kept
<1>4. BitsOf(old) \in Nat /\ BitsOf(kept) \in Nat /\ bits <= 158 * Len(samples)
  BY <1>3, BitsAreBounded
<1>5. Len(samples) \in Nat /\ MaxFrames \in Nat /\ Size \in Nat \ {0} /\ 158 * MaxFrames < Size
  BY ClockAssumption, BitsAssumption
<1>6. bits - BitsOf(old) = BitsOf(kept) /\ BitsOf(kept) \in 0 .. Size - 1
  BY <1>3, <1>4, <1>5
<1>7. Minus(bits, BitsOf(old)) = BitsOf(kept)
  BY <1>5, <1>6, SmallMod DEF Minus
<1>8. QED
  BY <1>2, <1>4, <1>7

-----------------------------------------------------------------------------
(* The frames of a key, in any sequence of frames.                         *)

OfIn(rec, key) == {i \in DOMAIN rec : <<rec[i].kind.is_extended, rec[i].kind.id>> = key}
BytesIn(rec, I) == SumOf([i \in DOMAIN rec |-> IF i \in I THEN rec[i].kind.dlc ELSE 0])
BytesTerms(rec, I) == [i \in DOMAIN rec |-> IF i \in I THEN rec[i].kind.dlc ELSE 0]

LEMMA BytesTermsType ==
    ASSUME NEW rec \in Seq(Stamped), NEW I
    PROVE  /\ BytesTerms(rec, I) \in Seq(Nat)
           /\ Len(BytesTerms(rec, I)) = Len(rec)
           /\ \A i \in 1 .. Len(rec) :
                 BytesTerms(rec, I)[i] = IF i \in I THEN rec[i].kind.dlc ELSE 0
<1>1. DOMAIN rec = 1 .. Len(rec) /\ Len(rec) \in Nat
  OBVIOUS
<1>2. ASSUME NEW i \in DOMAIN rec PROVE rec[i].kind.dlc \in Nat
  <2>1. rec[i].kind \in Ids
    BY SampleOf
  <2>2. QED
    BY <2>1, KindsAssumption
<1>3. QED
  BY <1>1, <1>2 DEF BytesTerms

LEMMA BytesType ==
    ASSUME NEW rec \in Seq(Stamped), NEW I
    PROVE  BytesIn(rec, I) \in Nat
  BY BytesTermsType, SumOfType DEF BytesIn, BytesTerms

LEMMA NoBytes == ASSUME NEW rec \in Seq(Stamped) PROVE BytesIn(rec, {}) = 0
<1> DEFINE f == BytesTerms(rec, {})
<1>1. f \in Seq(Nat) /\ \A i \in 1 .. Len(f) : f[i] = 0
  BY BytesTermsType
<1> HIDE DEF f
<1>2. PICK F : Sums(f, F)
  BY <1>1, SumsExist
<1> DEFINE Zero == {k \in Nat : k <= Len(f) => F[k] = 0}
<1>3. Len(f) \in Nat
  BY <1>1
<1>4. 0 \in Zero
  BY <1>2 DEF Sums
<1>5. ASSUME NEW k \in Nat, k \in Zero PROVE k + 1 \in Zero
  <2>1. SUFFICES ASSUME k + 1 <= Len(f) PROVE F[k + 1] = 0
    OBVIOUS
  <2>2. k + 1 \in 1 .. Len(f) /\ (k + 1) - 1 = k /\ k <= Len(f)
    BY <1>3, <2>1
  <2>3. F[k + 1] = F[k] + f[k + 1]
    BY <1>2, <2>2 DEF Sums
  <2>4. QED
    BY <1>1, <1>5, <2>2, <2>3
<1>6. Nat \subseteq Zero
  <2> HIDE DEF Zero
  <2> QED BY <1>4, <1>5, Induction
<1>7. SumOf(f) = 0
  BY <1>1, <1>2, <1>3, <1>6, SumIs
<1>8. QED
  BY <1>7 DEF BytesIn, BytesTerms, f

\* One more frame, that is among those counted or not.
LEMMA BytesAppend ==
    ASSUME NEW rec \in Seq(Stamped), NEW f \in Stamped, NEW I, NEW J,
           I \ {Len(rec) + 1} = J
    PROVE  BytesIn(Append(rec, f), I) =
              BytesIn(rec, J) + (IF Len(rec) + 1 \in I THEN f.kind.dlc ELSE 0)
<1> DEFINE longer == Append(rec, f)
           n == Len(rec)
           p == BytesTerms(rec, J)
           g == BytesTerms(longer, I)
<1>1. /\ longer \in Seq(Stamped) /\ Len(longer) = n + 1 /\ n \in Nat
      /\ \A i \in 1 .. n : longer[i] = rec[i]
      /\ longer[n + 1] = f
  OBVIOUS
<1> HIDE DEF longer
<1>2. /\ p \in Seq(Nat) /\ Len(p) = n
      /\ \A i \in 1 .. n : p[i] = IF i \in J THEN rec[i].kind.dlc ELSE 0
      /\ g \in Seq(Nat) /\ Len(g) = n + 1
      /\ \A i \in 1 .. n + 1 : g[i] = IF i \in I THEN longer[i].kind.dlc ELSE 0
  BY <1>1, BytesTermsType
<1> HIDE DEF p, g
<1>3. ASSUME NEW i \in 1 .. Len(p) PROVE g[i] = p[i]
  <2>1. i \in 1 .. n /\ i \in 1 .. n + 1 /\ i # n + 1
    BY <1>1, <1>2
  <2>2. i \in I <=> i \in J
    BY <2>1
  <2>3. QED
    BY <1>1, <1>2, <2>1, <2>2
<1>3a. p \in Seq(Nat) /\ g \in Seq(Nat) /\ Len(g) = Len(p) + 1
  BY <1>1, <1>2
<1>4. SumOf(g) = SumOf(p) + g[Len(g)]
  BY <1>3, <1>3a, SumOfAppend
<1>5. n + 1 \in 1 .. n + 1
  BY <1>1
<1>6. g[Len(g)] = IF n + 1 \in I THEN f.kind.dlc ELSE 0
  BY <1>1, <1>2, <1>5
<1>7. BytesIn(longer, I) = SumOf(g) /\ BytesIn(rec, J) = SumOf(p)
  BY DEF BytesIn, BytesTerms, p, g
<1>8. QED
  BY <1>4, <1>6, <1>7 DEF longer

LEMMA OfAppend ==
    ASSUME NEW rec \in Seq(Stamped), NEW f \in Stamped, NEW key
    PROVE  /\ OfIn(rec, key) \subseteq 1 .. Len(rec) /\ IsFiniteSet(OfIn(rec, key))
           /\ OfIn(Append(rec, f), key) =
                IF key = Key(f.kind) THEN OfIn(rec, key) \cup {Len(rec) + 1} ELSE OfIn(rec, key)
<1>1. DOMAIN rec = 1 .. Len(rec) /\ Len(rec) \in Nat
  OBVIOUS
<1>2. OfIn(rec, key) \subseteq 1 .. Len(rec) /\ IsFiniteSet(OfIn(rec, key))
  <2>1. OfIn(rec, key) \subseteq 1 .. Len(rec)
    BY <1>1 DEF OfIn
  <2>2. IsFiniteSet(1 .. Len(rec))
    BY <1>1, FS_Interval
  <2>3. QED
    BY <2>1, <2>2, FS_Subset
<1> DEFINE longer == Append(rec, f)
<1>3. /\ DOMAIN longer = 1 .. Len(rec) + 1
      /\ \A i \in 1 .. Len(rec) : longer[i] = rec[i]
      /\ longer[Len(rec) + 1] = f
  BY <1>1
<1> HIDE DEF longer
<1>4. 1 .. Len(rec) + 1 = (1 .. Len(rec)) \cup {Len(rec) + 1}
  BY <1>1
<1>5. \A i \in 1 .. Len(rec) : i \in OfIn(longer, key) <=> i \in OfIn(rec, key)
  BY <1>1, <1>3, <1>4 DEF OfIn
<1>6. Len(rec) + 1 \in OfIn(longer, key) <=> key = Key(f.kind)
  BY <1>3, <1>4 DEF OfIn, Key
<1>7. OfIn(longer, key) \subseteq (1 .. Len(rec)) \cup {Len(rec) + 1}
  BY <1>3, <1>4 DEF OfIn
<1>9. OfIn(longer, key) =
         IF key = Key(f.kind) THEN OfIn(rec, key) \cup {Len(rec) + 1} ELSE OfIn(rec, key)
  <2>1. CASE key = Key(f.kind)
    BY <1>2, <1>5, <1>6, <1>7, <2>1
  <2>2. CASE key # Key(f.kind)
    <3>1. OfIn(longer, key) \subseteq 1 .. Len(rec)
      BY <1>6, <1>7, <2>2
    <3>2. OfIn(longer, key) = OfIn(rec, key)
      BY <1>2, <1>5, <3>1
    <3>3. QED
      BY <2>2, <3>2
  <2>3. QED
    BY <2>1, <2>2
<1>10. QED
  BY <1>2, <1>9 DEF longer

-----------------------------------------------------------------------------
(* The totals.                                                             *)

LEMMA InitTotals == Init => TotalsInv
<1> SUFFICES ASSUME Init PROVE TotalsInv
  OBVIOUS
<1>1. 0 \in Time
  BY ClockAssumption DEF Time
<1>2. TypeOK
  <2>1. frame \in Stamped
    BY <1>1 DEF Init, Stamped
  <2>2. QED
    BY <1>1, <2>1 DEF Init, StoreInit, TypeOK
<1>3. recorded = <<>> /\ window_samples_ = <<>> /\ <<>> \in Seq(Stamped) /\ <<>> \in Seq(Samples)
  BY DEF Init
<1>4. BytesIn(<<>>, DOMAIN <<>>) = 0
  <2> DEFINE f == BytesTerms(<<>>, DOMAIN <<>>)
  <2>1. f \in Seq(Nat) /\ Len(f) = 0
    BY <1>3, BytesTermsType
  <2> HIDE DEF f
  <2>2. SumOf(f) = 0
    BY <2>1, SumOfNone
  <2>3. QED
    BY <2>2 DEF f, BytesIn, BytesTerms
<1>5. BitsOf(<<>>) = 0
  <2> DEFINE f == Terms(<<>>)
  <2>1. f \in Seq(Nat) /\ Len(f) = 0
    BY <1>3, TermsType
  <2> HIDE DEF f
  <2>2. SumOf(f) = 0
    BY <2>1, SumOfNone
  <2>3. QED
    BY <2>2 DEF f, BitsOf, Terms
<1>6. Bytes(DOMAIN recorded) = 0
  BY <1>3, <1>4 DEF Bytes, BytesIn
<1>7. \A key : Of(key) = {}
  BY <1>3 DEF Of
<1>8. TotalsMatch
  BY <1>3, <1>5, <1>6, <1>7 DEF Init, TotalsMatch, SumMatches, PerIdAgrees
<1>9. KeysHaveFrames /\ FramesAreBounded
  BY ClockAssumption DEF Init, StoreInit, KeysHaveFrames, FramesAreBounded
<1>10. QED
  BY <1>2, <1>8, <1>9 DEF TotalsInv

\* TotalsMatch and KeysHaveFrames speak of these variables only.
LEMMA TotalsUnchanged ==
    ASSUME TotalsMatch, KeysHaveFrames, UNCHANGED <<statVars, recorded>>
    PROVE  TotalsMatch' /\ KeysHaveFrames'
<1>1. UNCHANGED <<total_received_frames_, total_received_payload_bytes_, per_id_,
                  window_samples_, window_estimated_bits_, recorded>>
  BY DEF statVars
<1>2. (\A key : Of(key)' = Of(key)) /\ (\A I : Bytes(I)' = Bytes(I))
  BY <1>1 DEF Of, Bytes
<1>3. QED
  BY <1>1 DEF TotalsMatch, SumMatches, PerIdAgrees, KeysHaveFrames, Of, Bytes

\* recordReceived: the counters of the frame's key.
LEMMA RecordCounters ==
    ASSUME IInv, TotalsInv, rcv = "record", RecordReceived
    PROVE  PerIdAgrees' /\ KeysHaveFrames'
<1> DEFINE m == Len(recorded)
           rec == Append(recorded, frame)
           key == Key(frame.kind)
           dlc == frame.kind.dlc
           before == OfIn(recorded, key)
<1>1. /\ recorded \in Seq(Stamped) /\ frame \in Stamped /\ frame.kind \in Ids
      /\ frame.timestamp_ns \in Time /\ m \in Nat /\ dlc \in Nat
      /\ DOMAIN recorded = 1 .. m
  <2>1. recorded \in Seq(Stamped) /\ frame \in Stamped
    BY DEF IInv, Types
  <2>2. QED
    BY <2>1, SampleOf, KindsAssumption
<1>2. /\ recorded' = rec
      /\ total_received_frames_' = total_received_frames_ + 1
      /\ total_received_payload_bytes_' = total_received_payload_bytes_ + dlc
      /\ DOMAIN per_id_' = DOMAIN per_id_ \cup {key}
      /\ \A k \in DOMAIN per_id_ : k # key => per_id_'[k] = per_id_[k]
      /\ per_id_'[key] = [frame_count |-> Counters(key).frame_count + 1,
                          payload_bytes |-> Counters(key).payload_bytes + dlc,
                          last_timestamp_ns |-> frame.timestamp_ns]
  BY DEF RecordReceived
<1>3. /\ rec \in Seq(Stamped) /\ Len(rec) = m + 1 /\ DOMAIN rec = 1 .. m + 1
      /\ \A i \in 1 .. m : rec[i] = recorded[i]
      /\ rec[m + 1] = frame
  BY <1>1
<1>4. PerIdAgrees /\ KeysHaveFrames
  BY DEF TotalsInv, TotalsMatch
<1>5. /\ \A k : Of(k) = OfIn(recorded, k) /\ Of(k)' = OfIn(rec, k)
      /\ \A I : Bytes(I) = BytesIn(recorded, I)
      /\ Bytes(DOMAIN recorded)' = BytesIn(rec, DOMAIN rec)
      /\ \A k : Bytes(Of(k))' = BytesIn(rec, OfIn(rec, k))
  BY <1>2 DEF Of, OfIn, Bytes, BytesIn
<1>6. \A k : /\ OfIn(recorded, k) \subseteq 1 .. m /\ IsFiniteSet(OfIn(recorded, k))
             /\ OfIn(rec, k) = IF k = key THEN OfIn(recorded, k) \cup {m + 1}
                               ELSE OfIn(recorded, k)
  BY <1>1, OfAppend
<1>7. m + 1 \notin 1 .. m /\ (1 .. m + 1) \ {m + 1} = 1 .. m /\ m + 1 \in 1 .. m + 1
  BY <1>1
<1> HIDE DEF rec, key, before
\* The totals.
<1>8. total_received_frames_' = Len(recorded')
  BY <1>1, <1>2, <1>3, <1>4 DEF PerIdAgrees
<1>9. total_received_payload_bytes_' = Bytes(DOMAIN recorded)'
  <2>1. BytesIn(rec, 1 .. m + 1) = BytesIn(recorded, 1 .. m) + dlc
    BY <1>1, <1>7, BytesAppend DEF rec
  <2>2. total_received_payload_bytes_ = BytesIn(recorded, 1 .. m)
    BY <1>1, <1>4, <1>5 DEF PerIdAgrees
  <2>3. QED
    BY <1>2, <1>3, <1>5, <2>1, <2>2
\* The frame's own key.
<1>10. /\ Cardinality(OfIn(rec, key)) = Cardinality(before) + 1
       /\ BytesIn(rec, OfIn(rec, key)) = BytesIn(recorded, before) + dlc
       /\ Cardinality(before) \in Nat /\ BytesIn(recorded, before) \in Nat
  <2>1. OfIn(rec, key) = before \cup {m + 1} /\ m + 1 \notin before /\ IsFiniteSet(before)
    BY <1>6, <1>7 DEF before
  <2>2. Cardinality(before \cup {m + 1}) = Cardinality(before) + 1
    BY <2>1, FS_AddElement
  <2>3. (before \cup {m + 1}) \ {m + 1} = before /\ m + 1 \in before \cup {m + 1}
    BY <2>1
  <2>4. BytesIn(rec, before \cup {m + 1}) = BytesIn(recorded, before) + dlc
    BY <1>1, <2>3, BytesAppend DEF rec
  <2>5. BytesIn(recorded, before) \in Nat /\ Cardinality(before) \in Nat
    BY <1>1, <2>1, BytesType, FS_CardinalityType
  <2>6. QED
    BY <2>1, <2>2, <2>4, <2>5
<1>11. /\ Counters(key).frame_count = Cardinality(before)
       /\ Counters(key).payload_bytes = BytesIn(recorded, before)
  <2>1. CASE key \in DOMAIN per_id_
    <3>1. before # {}
      BY <1>4, <1>5, <2>1 DEF KeysHaveFrames, before
    <3>2. per_id_[key].frame_count = Cardinality(before)
          /\ per_id_[key].payload_bytes = BytesIn(recorded, before)
      BY <1>1, <1>4, <1>5, <3>1 DEF PerIdAgrees, Key, key, before
    <3>3. QED
      BY <2>1, <3>2 DEF Counters
  <2>2. CASE key \notin DOMAIN per_id_
    <3>1. before = {}
      BY <1>1, <1>4, <1>5, <2>2 DEF PerIdAgrees, Key, key, before
    <3>2. Cardinality(before) = 0
      BY <3>1, FS_EmptySet
    <3>3. BytesIn(recorded, before) = 0
      BY <1>1, <3>1, NoBytes
    <3>4. QED
      BY <2>2, <3>2, <3>3 DEF Counters
  <2>3. QED
    BY <2>1, <2>2
<1>12. \A i \in OfIn(rec, key) : recorded'[i].timestamp_ns <= frame.timestamp_ns
  <2>1. \A i \in DOMAIN recorded : recorded[i].timestamp_ns <= frame.timestamp_ns
    BY DEF IInv, StampsAreOrdered
  <2>2. frame.timestamp_ns <= frame.timestamp_ns
    BY <1>1, ClockAssumption DEF Time
  <2>3. QED
    BY <1>1, <1>2, <1>3, <1>6, <2>1, <2>2
<1>13. ASSUME NEW kind \in Ids, Of(Key(kind))' # {}
       PROVE  /\ Key(kind) \in DOMAIN per_id_'
              /\ per_id_'[Key(kind)].frame_count = Cardinality(Of(Key(kind)))'
              /\ per_id_'[Key(kind)].payload_bytes = Bytes(Of(Key(kind)))'
              /\ \A i \in Of(Key(kind))' :
                    recorded'[i].timestamp_ns <= per_id_'[Key(kind)].last_timestamp_ns
  <2>1. CASE Key(kind) = key
    BY <1>2, <1>5, <1>10, <1>11, <1>12, <2>1
  <2>2. CASE Key(kind) # key
    <3> DEFINE k == Key(kind)
    <3>1. OfIn(rec, k) = OfIn(recorded, k) /\ m + 1 \notin OfIn(rec, k)
      BY <1>6, <1>7, <2>2
    <3>2. OfIn(recorded, k) # {}
      BY <1>5, <1>13, <3>1
    <3>3. /\ k \in DOMAIN per_id_
          /\ per_id_[k].frame_count = Cardinality(OfIn(recorded, k))
          /\ per_id_[k].payload_bytes = BytesIn(recorded, OfIn(recorded, k))
          /\ \A i \in OfIn(recorded, k) : recorded[i].timestamp_ns <= per_id_[k].last_timestamp_ns
      BY <1>4, <1>5, <3>2 DEF PerIdAgrees, Key
    <3>4. BytesIn(rec, OfIn(rec, k)) = BytesIn(recorded, OfIn(recorded, k))
      <4>1. OfIn(rec, k) \ {m + 1} = OfIn(recorded, k)
        BY <3>1
      <4>2. BytesIn(rec, OfIn(rec, k)) = BytesIn(recorded, OfIn(recorded, k)) + 0
        BY <1>1, <3>1, <4>1, BytesAppend DEF rec
      <4>3. QED
        BY <1>1, <4>2, BytesType
    <3>5. per_id_'[k] = per_id_[k] /\ k \in DOMAIN per_id_'
      BY <1>2, <2>2, <3>3
    <3>6. \A i \in OfIn(recorded, k) : recorded'[i] = recorded[i]
      BY <1>2, <1>3, <1>6
    <3> HIDE DEF k
    <3>7. QED
      BY <1>5, <3>1, <3>3, <3>4, <3>5, <3>6 DEF k
  <2>3. QED
    BY <2>1, <2>2
<1>14. PerIdAgrees'
  BY <1>8, <1>9, <1>13 DEF PerIdAgrees, Key
<1>15. KeysHaveFrames'
  <2>1. ASSUME NEW k \in DOMAIN per_id_' PROVE Of(k)' # {}
    <3>1. CASE k = key
      BY <1>5, <1>6, <3>1
    <3>2. CASE k # key
      <4>1. k \in DOMAIN per_id_
        BY <1>2, <3>2
      <4>2. OfIn(recorded, k) # {}
        BY <1>4, <1>5, <4>1 DEF KeysHaveFrames
      <4>3. QED
        BY <1>5, <1>6, <3>2, <4>2
    <3>3. QED
      BY <3>1, <3>2
  <2>2. QED
    BY <2>1 DEF KeysHaveFrames
<1>16. QED
  BY <1>14, <1>15

LEMMA RecordTotals ==
    ASSUME IInv, TotalsInv, rcv = "record", rcv' = "store", RecordReceived,
           UNCHANGED <<storeVars, now, frame, workerVars>>, IInv'
    PROVE  TotalsInv'
<1> DEFINE samples == Append(window_samples_, Sample(frame))
<1>1. /\ frame \in Stamped /\ Sample(frame) \in Samples /\ frame.timestamp_ns \in Time
      /\ window_samples_ \in Seq(Samples) /\ frame.kind \in Ids /\ frame.kind.dlc \in Nat
  <2>1. frame \in Stamped /\ window_samples_ \in Seq(Samples)
    BY DEF IInv, Types
  <2>2. QED
    BY <2>1, SampleOf, KindsAssumption
<1>2. Len(window_samples_) + 1 <= MaxFrames
  <2>1. Len(window_samples_) <= Len(recorded) /\ Len(window_samples_) \in Nat
        /\ Len(recorded) \in Nat
    BY WindowIsSuffixOfRecorded DEF IInv, Types, Suffix
  <2>2. total_received_frames_ = Len(recorded) /\ total_received_frames_ = total_appended
    BY DEF IInv, TotalsInv, TotalsMatch, PerIdAgrees, CountedBeforeStored, Types
  <2>3. next_sequence = total_appended + 1 /\ next_sequence <= MaxFrames
    BY ClockAssumption DEF TotalsInv, FramesAreBounded, TypeOK
  <2>4. QED
    BY <2>1, <2>2, <2>3, ClockAssumption DEF TotalsInv, TypeOK
<1>3. samples \in Seq(Samples) /\ Len(samples) <= MaxFrames
  BY <1>1, <1>2
<1>4. BitsOf(samples) = window_estimated_bits_ + Sample(frame).estimated_bits
  BY <1>1, BitsOfAppend DEF TotalsInv, TotalsMatch, SumMatches
<1>5. RemoveExpired(samples, BitsOf(samples), frame.timestamp_ns)
  BY <1>4 DEF RecordReceived
<1> HIDE DEF samples
<1>6. window_estimated_bits_' = BitsOf(window_samples_') /\ window_estimated_bits_' \in Nat
  BY <1>1, <1>3, <1>5, RemoveExpiredKeepsSum
<1>7. PerIdAgrees' /\ KeysHaveFrames'
  BY RecordCounters
<1>8. SumMatches'
  BY <1>6 DEF SumMatches, BitsOf
<1>9. /\ \A key \in DOMAIN per_id_' :
            per_id_'[key] \in [frame_count : Nat, payload_bytes : Nat, last_timestamp_ns : Time]
      /\ DOMAIN per_id_' \subseteq {Key(kind) : kind \in Ids}
  <2> DEFINE key == Key(frame.kind)
             T == [frame_count : Nat, payload_bytes : Nat, last_timestamp_ns : Time]
  <2>1. \A k \in DOMAIN per_id_ : per_id_[k] \in T
    BY DEF TotalsInv, TypeOK
  <2>2. DOMAIN per_id_ \subseteq {Key(kind) : kind \in Ids}
    BY DEF TotalsInv, TypeOK
  <2>3. Counters(key).frame_count \in Nat /\ Counters(key).payload_bytes \in Nat
    BY <2>1 DEF Counters
  <2>4. per_id_' = [k \in DOMAIN per_id_ \cup {key} |-> IF k = key
                      THEN [frame_count |-> Counters(key).frame_count + 1,
                            payload_bytes |-> Counters(key).payload_bytes + frame.kind.dlc,
                            last_timestamp_ns |-> frame.timestamp_ns]
                      ELSE per_id_[k]]
    BY DEF RecordReceived
  <2>5. key \in {Key(kind) : kind \in Ids}
    BY <1>1
  <2> HIDE DEF key
  <2>6. QED
    BY <1>1, <2>1, <2>2, <2>3, <2>4, <2>5
<1>10. TypeOK'
  <2>1. /\ total_received_frames_' = total_received_frames_ + 1
        /\ total_received_payload_bytes_' = total_received_payload_bytes_ + frame.kind.dlc
    BY DEF RecordReceived
  <2>2. /\ next_sequence' = next_sequence /\ total_appended' = total_appended
        /\ overwritten' = overwritten /\ frames' = frames
    BY DEF storeVars
  <2>3. total_received_frames_' \in Nat /\ total_received_payload_bytes_' \in Nat
    BY <1>1, <2>1 DEF TotalsInv, TypeOK
  <2>4. QED
    BY <1>6, <1>9, <2>2, <2>3 DEF TotalsInv, TypeOK, IInv, Types
<1>11. FramesAreBounded'
  BY DEF TotalsInv, FramesAreBounded, storeVars
<1>12. QED
  BY <1>7, <1>8, <1>10, <1>11 DEF TotalsInv, TotalsMatch

LEMMA StoreTotals ==
    ASSUME TotalsInv, rcv = "store", rcv' = "read", Append1(frame.kind),
           UNCHANGED <<statVars, recorded, now, frame, workerVars>>
    PROVE  TotalsInv'
<1>1. StoreTyped /\ frame.kind \in Ids
  BY SampleOf DEF TotalsInv, TypeOK, StoreTyped
<1>2. frames' \in Seq(Frame)
  BY <1>1, AppendedFrames
<1>3. /\ next_sequence' = next_sequence + 1 /\ total_appended' = total_appended + 1
      /\ overwritten' \in Nat
  BY <1>1 DEF Append1, StoreTyped
<1>4. TypeOK'
  BY <1>2, <1>3 DEF TotalsInv, TypeOK, statVars, workerVars
<1>5. TotalsMatch' /\ KeysHaveFrames'
  BY TotalsUnchanged DEF TotalsInv
<1>6. FramesAreBounded'
  BY <1>3, ClockAssumption DEF TotalsInv, TypeOK, FramesAreBounded
<1>7. QED
  BY <1>4, <1>5, <1>6 DEF TotalsInv

LEMMA SnapshotTotals ==
    ASSUME IInv, TotalsInv, NEW w \in Workers, Snapshot(w)
    PROVE  TotalsInv'
<1>1. /\ now_ns' = [now_ns EXCEPT ![w] = 0] /\ pc' = [pc EXCEPT ![w] = "idle"]
      /\ rate' = [rate EXCEPT ![w] = Len(window_samples_')]
      /\ RemoveExpired(window_samples_, window_estimated_bits_, now_ns[w])
      /\ UNCHANGED <<total_received_frames_, total_received_payload_bytes_, per_id_>>
      /\ UNCHANGED <<storeVars, now, rcvVars>>
  BY DEF Snapshot
<1>2. Len(window_samples_) <= MaxFrames
  <2>1. Len(window_samples_) <= Len(recorded) /\ Len(window_samples_) \in Nat
        /\ Len(recorded) \in Nat
    BY WindowIsSuffixOfRecorded DEF IInv, Types, Suffix
  <2>2. total_received_frames_ = Len(recorded)
        /\ total_received_frames_ = total_appended + (IF rcv = "store" THEN 1 ELSE 0)
    BY DEF IInv, TotalsInv, TotalsMatch, PerIdAgrees, CountedBeforeStored
  <2>3. /\ next_sequence = total_appended + 1
        /\ next_sequence <= MaxFrames + (IF rcv = "read" THEN 1 ELSE 0)
        /\ total_appended \in Nat /\ MaxFrames \in Nat
    BY ClockAssumption DEF TotalsInv, FramesAreBounded, TypeOK
  <2>4. QED
    BY <2>1, <2>2, <2>3
<1>3. window_estimated_bits_' = BitsOf(window_samples_') /\ window_estimated_bits_' \in Nat
  <2>1. /\ window_samples_ \in Seq(Samples) /\ now_ns[w] \in Time
        /\ window_estimated_bits_ = BitsOf(window_samples_)
    BY DEF TotalsInv, TypeOK, TotalsMatch, SumMatches
  <2>2. QED
    BY <1>1, <1>2, <2>1, RemoveExpiredKeepsSum
<1>4. window_samples_' \in Seq(Samples) /\ 0 \in Time
  BY SnapshotWindow, ClockAssumption DEF Time
<1>5. TypeOK'
  <2>1. Len(window_samples_') \in Nat
    BY <1>4
  <2>2. now_ns' \in [Workers -> Time] /\ pc' \in [Workers -> {"idle", "snapshot"}]
        /\ rate' \in [Workers -> Nat]
    BY <1>1, <1>4, <2>1 DEF TotalsInv, TypeOK
  <2>3. QED
    BY <1>1, <1>3, <1>4, <2>2 DEF TotalsInv, TypeOK, storeVars, rcvVars
<1>6. SumMatches'
  BY <1>3 DEF SumMatches, BitsOf
<1>7. PerIdAgrees' /\ KeysHaveFrames' /\ FramesAreBounded'
  BY <1>1 DEF TotalsInv, TotalsMatch, PerIdAgrees, KeysHaveFrames, FramesAreBounded, Of, Bytes,
              storeVars, rcvVars
<1>8. QED
  BY <1>5, <1>6, <1>7 DEF TotalsInv, TotalsMatch

LEMMA StepTotals == ASSUME IInv, TotalsInv, [Next]_vars, IInv' PROVE TotalsInv'
<1>1. ASSUME UNCHANGED <<statVars, recorded>>, TypeOK', FramesAreBounded' PROVE TotalsInv'
  BY <1>1, TotalsUnchanged DEF TotalsInv
<1>2. CASE UNCHANGED vars
  BY <1>1, <1>2 DEF vars, storeVars, statVars, rcvVars, workerVars, TotalsInv, TypeOK,
                    FramesAreBounded
<1>3. CASE Tick
  <2>1. now' \in Time
    BY <1>3, ClockAssumption DEF Tick, TotalsInv, TypeOK, Time
  <2>2. QED
    BY <1>1, <1>3, <2>1 DEF Tick, storeVars, statVars, rcvVars, workerVars, TotalsInv, TypeOK,
                            FramesAreBounded
<1>4. ASSUME NEW kind \in Ids, Stamp(kind) PROVE TotalsInv'
  <2>1. frame' \in Stamped /\ rcv' = "record" /\ UNCHANGED <<storeVars, now, statVars, recorded, workerVars>>
    BY <1>4 DEF Stamp, Stamped, TotalsInv, TypeOK
  <2>2. TypeOK'
    BY <2>1 DEF TotalsInv, TypeOK, storeVars, statVars, workerVars
  <2>3. FramesAreBounded'
    BY <1>4, <2>1, ClockAssumption DEF Stamp, TotalsInv, TypeOK, FramesAreBounded, storeVars
  <2>4. QED
    BY <1>1, <2>1, <2>2, <2>3
<1>5. CASE Deliver
  BY <1>5, RecordTotals, StoreTotals DEF Deliver
<1>6. ASSUME NEW w \in Workers, ReadClock(w) PROVE TotalsInv'
  <2>1. now_ns' \in [Workers -> Time] /\ pc' \in [Workers -> {"idle", "snapshot"}]
    BY <1>6 DEF ReadClock, TotalsInv, TypeOK
  <2>2. QED
    BY <1>1, <1>6, <2>1 DEF ReadClock, storeVars, statVars, rcvVars, TotalsInv, TypeOK,
                            FramesAreBounded
<1>7. QED
  BY <1>2, <1>3, <1>4, <1>5, <1>6, SnapshotTotals DEF Next

\* CanBusStatistics: the totals are the sums over the window.
THEOREM StatisticsTotals == Spec => []TotalsInv
<1>1. Init => TotalsInv
  BY InitTotals
<1>2. IInv /\ IInv' /\ TotalsInv /\ [Next]_vars => TotalsInv'
  BY StepTotals
<1>3. QED
  BY <1>1, <1>2, StatisticsInvariant, PTL DEF Spec

\* CanBusStatistics and its callers: every variable keeps its type, the running
\* sum of bits included, which is unsigned in the code and never wraps.
THEOREM TypeCorrect == Spec => []TypeOK
<1>1. TotalsInv => TypeOK
  BY DEF TotalsInv
<1>2. QED
  BY <1>1, StatisticsTotals, PTL

\* CanBusStatistics: the bits in the window, the totals and the counters of
\* every identifier are what counting the recorded frames again would give.
THEOREM TotalsAgree == Spec => []TotalsMatch
<1>1. TotalsInv => TotalsMatch
  BY DEF TotalsInv
<1>2. QED
  BY <1>1, StatisticsTotals, PTL

=============================================================================
