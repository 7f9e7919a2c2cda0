---------------------------- MODULE NatRecursion ----------------------------
(***************************************************************************)
(* Induction and recursion over the natural numbers, stated with sets and  *)
(* functions in place of operator parameters, which is how the proofs of   *)
(* BusStatistics (sums) and HttpSession (texts) use them.                  *)
(***************************************************************************)
EXTENDS Naturals, FiniteSets, FiniteSetTheorems, TLAPS

\* A set of numbers has a least one.  The initial segments below its elements
\* are finite, and strict inclusion is well-founded on finite sets.
LEMMA LeastNumber ==
    ASSUME NEW T, T \subseteq Nat, T # {}
    PROVE  \E m \in T : \A n \in T : m <= n
<1> DEFINE R == StrictSubsetOrdering(Nat)
           Segments == {1 .. n : n \in T}
<1>1. IsWellFoundedOn(R, FiniteSubsetsOf(Nat))
  BY FS_StrictSubsetOrderingWellFounded
<1>2. Segments \subseteq FiniteSubsetsOf(Nat)
  BY FS_Interval DEF FiniteSubsetsOf
<1>2a. Segments # {}
  OBVIOUS
<1>3. PICK x \in Segments : \A y \in Segments : <<y, x>> \notin R
  <2> HIDE DEF R, Segments
  <2> QED
    BY <1>1, <1>2, <1>2a, WFMin
<1>4. PICK m \in T : x = 1 .. m
  OBVIOUS
<1>5. ASSUME NEW n \in T, n < m PROVE FALSE
  <2>1. 1 .. n \in Segments /\ 1 .. n \subseteq Nat /\ 1 .. m \subseteq Nat
    OBVIOUS
  <2>2. 1 .. n \subseteq 1 .. m /\ 1 .. n # 1 .. m
    BY <1>5
  <2>3. QED
    BY <1>3, <1>4, <2>1, <2>2 DEF StrictSubsetOrdering
<1>6. QED
  BY <1>5

\* Induction: a set that has 0, and with a number the next one, has them all.
LEMMA Induction ==
    ASSUME NEW T, 0 \in T, \A n \in Nat : n \in T => n + 1 \in T
    PROVE  Nat \subseteq T
<1>1. SUFFICES ASSUME Nat \ T # {} PROVE FALSE
  OBVIOUS
<1>2. PICK m \in Nat \ T : \A n \in Nat \ T : m <= n
  BY <1>1, LeastNumber
<1>3. m - 1 \in Nat /\ m - 1 \notin Nat \ T
  BY <1>2
<1>4. QED
  BY <1>2, <1>3

\* f starts with `base` and goes on by `step`.
Recursive(f, V, base, step) ==
    /\ f \in [Nat -> V]
    /\ f[0] = base
    /\ \A n \in Nat : f[n + 1] = step[n][f[n]]

\* Recursion: a first value and a rule for the next one determine a function.
LEMMA Recursion ==
    ASSUME NEW V, NEW base \in V, NEW step \in [Nat -> [V -> V]]
    PROVE  \E f : Recursive(f, V, base, step)
<1> DEFINE Good(n, g) == g[0] = base /\ \A k \in 0 .. n : k < n => g[k + 1] = step[k][g[k]]
           Reach == {n \in Nat : \E g \in [0 .. n -> V] : Good(n, g)}
<1>1. Nat \subseteq Reach
  <2>1. 0 \in Reach
    <3>1. [k \in 0 .. 0 |-> base] \in [0 .. 0 -> V] /\ Good(0, [k \in 0 .. 0 |-> base])
      OBVIOUS
    <3>2. QED
      BY <3>1
  <2>2. ASSUME NEW n \in Nat, n \in Reach PROVE n + 1 \in Reach
    <3>1. PICK g \in [0 .. n -> V] : Good(n, g)
      BY <2>2
    <3> DEFINE h == [k \in 0 .. n + 1 |-> IF k <= n THEN g[k] ELSE step[n][g[n]]]
    <3>2. g[n] \in V
      OBVIOUS
    <3>3. step[n][g[n]] \in V
      BY <3>2
    <3>4. h \in [0 .. n + 1 -> V]
      BY <3>3
    <3>5. Good(n + 1, h)
      <4>1. h[0] = base
        BY <3>1
      <4>2. ASSUME NEW k \in 0 .. n + 1, k < n + 1 PROVE h[k + 1] = step[k][h[k]]
        <5>1. CASE k < n
          <6>1. h[k] = g[k] /\ h[k + 1] = g[k + 1] /\ k \in 0 .. n
            BY <5>1
          <6>2. QED
            BY <3>1, <5>1, <6>1
        <5>2. CASE k = n
          BY <5>2
        <5>3. QED
          BY <4>2, <5>1, <5>2
      <4>3. QED
        BY <4>1, <4>2
    <3>6. QED
      BY <3>4, <3>5
  <2>3. QED
    <3> HIDE DEF Reach
    <3> QED BY <2>1, <2>2, Induction
\* Two such functions agree as far as both go.
<1>2. ASSUME NEW m \in Nat, NEW n \in Nat, NEW g \in [0 .. m -> V], NEW h \in [0 .. n -> V],
             Good(m, g), Good(n, h)
      PROVE  \A k \in Nat : k <= m /\ k <= n => g[k] = h[k]
  <2> DEFINE Same == {k \in Nat : k <= m /\ k <= n => g[k] = h[k]}
  <2>1. 0 \in Same
    BY <1>2
  <2>2. ASSUME NEW k \in Nat, k \in Same PROVE k + 1 \in Same
    <3>1. SUFFICES ASSUME k + 1 <= m, k + 1 <= n PROVE g[k + 1] = h[k + 1]
      OBVIOUS
    <3>2. g[k] = h[k] /\ k \in 0 .. m /\ k \in 0 .. n /\ k < m /\ k < n
      BY <2>2, <3>1
    <3>3. QED
      BY <1>2, <3>2
  <2>3. Nat \subseteq Same
    <3> HIDE DEF Same
    <3> QED BY <2>1, <2>2, Induction
  <2>4. QED
    BY <2>3
<1> DEFINE approx(n) == CHOOSE g \in [0 .. n -> V] : Good(n, g)
           f == [n \in Nat |-> approx(n)[n]]
<1>3. ASSUME NEW n \in Nat PROVE approx(n) \in [0 .. n -> V] /\ Good(n, approx(n))
  <2>1. \E g \in [0 .. n -> V] : Good(n, g)
    BY <1>1
  <2> HIDE DEF Good
  <2>2. QED
    BY <2>1
<1>4. ASSUME NEW n \in Nat PROVE f[n] \in V
  <2> HIDE DEF approx
  <2> QED
    BY <1>3
<1>5. f[0] = base
  <2> HIDE DEF approx
  <2> QED
    BY <1>3
<1>6. ASSUME NEW n \in Nat PROVE f[n + 1] = step[n][f[n]]
  <2>1. /\ approx(n + 1) \in [0 .. n + 1 -> V] /\ Good(n + 1, approx(n + 1))
        /\ approx(n) \in [0 .. n -> V] /\ Good(n, approx(n))
    <3> HIDE DEF approx, Good
    <3> QED
      BY <1>3
  <2>2. approx(n + 1)[n] = approx(n)[n]
    <3> HIDE DEF approx, Good
    <3> QED
      BY <1>2, <2>1, SMTT(30)
  <2> HIDE DEF approx
  <2>3. approx(n + 1)[n + 1] = step[n][approx(n + 1)[n]]
    BY <2>1
  <2>4. QED
    BY <2>2, <2>3
<1>7. QED
  <2>1. f \in [Nat -> V]
    BY <1>4
  <2> HIDE DEF f
  <2>2. QED
    BY <1>5, <1>6, <2>1 DEF Recursive
=============================================================================
