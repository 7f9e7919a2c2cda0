-------------------------- MODULE SseStreamProofs ---------------------------
(***************************************************************************)
(* Proofs about one event stream, for every number of workers, every       *)
(* capacity of the store, the buffer and the socket, every size of a pump  *)
(* and every cursor a client may start from.                               *)
(***************************************************************************)
EXTENDS SseStream, FrameStoreProofs, TLAPS

\* The part of the invariant that speaks of the events of the stream.
StreamInv == StreamInOrder /\ CursorLeads /\ EventsAreFrames /\ NothingKeptIsPassed

-----------------------------------------------------------------------------
(* What a write has taken and what the stream is.                          *)

\* The one worker between its write(2) and its erase.
LEMMA TheWriter ==
    ASSUME NEW S, NEW p, NEW w \in S, p[w] = "erase",
           \A v \in S : p[v] = "erase" => v = w
    PROVE  (CHOOSE v \in S : p[v] = "erase") = w
  <1> DEFINE c == CHOOSE v \in S : p[v] = "erase"
  <1>1. c \in S /\ p[c] = "erase"
    OBVIOUS
  <1> QED  BY <1>1

\* Taken is what the erasing worker has written, if there is one.
LEMMA TakenIs ==
    ASSUME OneWriter
    PROVE  /\ \A w \in Workers : pc[w] = "erase" => Taken = wrote[w]
           /\ (\A w \in Workers : pc[w] # "erase") => Taken = 0
  <1>1. ASSUME NEW w \in Workers, pc[w] = "erase"
        PROVE  Taken = wrote[w]
    <2>1. \A v \in Workers : pc[v] = "erase" => v = w
      BY <1>1 DEF OneWriter
    <2>2. (CHOOSE v \in Workers : pc[v] = "erase") = w
      BY <1>1, <2>1, TheWriter
    <2> QED  BY <1>1, <2>2 DEF Taken
  <1>2. (\A w \in Workers : pc[w] # "erase") => Taken = 0
    BY DEF Taken
  <1> QED  BY <1>1, <1>2

\* The same, after a step.
LEMMA TakenIsNext ==
    ASSUME OneWriter'
    PROVE  /\ \A w \in Workers : pc'[w] = "erase" => Taken' = wrote'[w]
           /\ (\A w \in Workers : pc'[w] # "erase") => Taken' = 0
  <1>1. ASSUME NEW w \in Workers, pc'[w] = "erase"
        PROVE  Taken' = wrote'[w]
    <2>1. \A v \in Workers : pc'[v] = "erase" => v = w
      BY <1>1 DEF OneWriter
    <2>2. (CHOOSE v \in Workers : pc'[v] = "erase") = w
      BY <1>1, <2>1, TheWriter
    <2> QED  BY <1>1, <2>2 DEF Taken
  <1>2. (\A w \in Workers : pc'[w] # "erase") => Taken' = 0
    BY DEF Taken
  <1> QED  BY <1>1, <1>2

\* What has been written and not erased is a prefix of the buffer.
LEMMA TakenInBuffer ==
    ASSUME TypeOK, OneWriter
    PROVE  Taken \in 0 .. Len(send_buf)
  <1>1. Len(send_buf) \in Nat
    BY DEF TypeOK
  <1>2. CASE \E w \in Workers : pc[w] = "erase"
    BY <1>1, <1>2, TakenIs DEF OneWriter
  <1>3. CASE \A w \in Workers : pc[w] # "erase"
    BY <1>1, <1>3, TakenIs
  <1> QED  BY <1>2, <1>3

\* A step in which no worker takes or erases leaves Taken alone.
LEMMA TakenKept ==
    ASSUME OneWriter, OneWriter',
           \A w \in Workers : pc'[w] = "erase" <=> pc[w] = "erase",
           UNCHANGED wrote
    PROVE  Taken' = Taken
  <1>1. CASE \E w \in Workers : pc[w] = "erase"
    BY <1>1, TakenIs, TakenIsNext
  <1>2. CASE \A w \in Workers : pc[w] # "erase"
    BY <1>2, TakenIs, TakenIsNext
  <1> QED  BY <1>1, <1>2

\* Three sequences after one another.
LEMMA Three ==
    ASSUME NEW A, NEW r \in Seq(A), NEW s \in Seq(A), NEW t \in Seq(A)
    PROVE  /\ r \o (s \o t) \in Seq(A)
           /\ Len(r \o (s \o t)) = Len(r) + Len(s) + Len(t)
           /\ \A i \in 1 .. Len(r) : (r \o (s \o t))[i] = r[i]
           /\ \A i \in 1 .. Len(s) : (r \o (s \o t))[Len(r) + i] = s[i]
           /\ \A i \in 1 .. Len(t) : (r \o (s \o t))[Len(r) + Len(s) + i] = t[i]
  <1>0. s \o t \in Seq(A) /\ r \o (s \o t) \in Seq(A)
    OBVIOUS
  <1> SUFFICES ASSUME NEW u \in Seq(A), u = s \o t, NEW x \in Seq(A), x = r \o u
      PROVE  /\ Len(x) = Len(r) + Len(s) + Len(t)
             /\ \A i \in 1 .. Len(r) : x[i] = r[i]
             /\ \A i \in 1 .. Len(s) : x[Len(r) + i] = s[i]
             /\ \A i \in 1 .. Len(t) : x[Len(r) + Len(s) + i] = t[i]
    BY <1>0, Zenon
  <1>1. Len(t) \in Nat /\ Len(s) \in Nat /\ Len(r) \in Nat
    OBVIOUS
  <1>2. /\ Len(u) = Len(s) + Len(t)
        /\ \A i \in 1 .. Len(s) : u[i] = s[i]
        /\ \A i \in 1 .. Len(t) : u[Len(s) + i] = t[i]
    OBVIOUS
  <1>3. /\ Len(x) = Len(r) + Len(u)
        /\ \A i \in 1 .. Len(r) : x[i] = r[i]
        /\ \A i \in 1 .. Len(u) : x[Len(r) + i] = u[i]
    OBVIOUS
  <1>4. Len(x) = Len(r) + Len(s) + Len(t)
    BY <1>1, <1>2, <1>3
  <1>5. \A i \in 1 .. Len(s) : x[Len(r) + i] = s[i]
    <2> TAKE i \in 1 .. Len(s)
    <2>1. i \in 1 .. Len(u)
      BY <1>1, <1>2
    <2> QED  BY <1>2, <1>3, <2>1, Zenon
  <1>6. \A i \in 1 .. Len(t) : x[Len(r) + Len(s) + i] = t[i]
    <2> TAKE i \in 1 .. Len(t)
    <2>1. Len(s) + i \in 1 .. Len(u)
      BY <1>1, <1>2
    <2>2. x[Len(r) + (Len(s) + i)] = t[i]
      BY <1>2, <1>3, <2>1, Zenon
    <2>3. Len(r) + (Len(s) + i) = Len(r) + Len(s) + i
      BY <1>1
    <2> QED  BY <2>2, <2>3, Zenon
  <1> QED  BY <1>3, <1>4, <1>5, <1>6, Zenon

\* The stream x made of what is read, what is in the socket and what is in the
\* buffer after the first k.
Shape(x, r, s, b, k) ==
    /\ x \in Seq(Item) /\ Len(x) = Len(r) + Len(s) + (Len(b) - k)
    /\ \A i \in 1 .. Len(r) : x[i] = r[i]
    /\ \A i \in 1 .. Len(s) : x[Len(r) + i] = s[i]
    /\ \A i \in 1 .. Len(b) - k : x[Len(r) + Len(s) + i] = b[k + i]

LEMMA StreamParts ==
    ASSUME NEW r \in Seq(Item), NEW s \in Seq(Item), NEW b \in Seq(Item), NEW k \in 0 .. Len(b)
    PROVE  Shape(r \o (s \o SubSeq(b, k + 1, Len(b))), r, s, b, k)
  <1> DEFINE rest == SubSeq(b, k + 1, Len(b))
             x == r \o (s \o rest)
  <1>1. rest \in Seq(Item)
    OBVIOUS
  <1>2. Len(rest) = Len(b) - k
    OBVIOUS
  <1>3. \A i \in 1 .. Len(rest) : rest[i] = b[k + i]
    OBVIOUS
  <1> HIDE DEF rest
  <1>4. x \in Seq(Item)
    BY <1>1
  <1>5. Len(x) = Len(r) + Len(s) + Len(rest)
    BY ONLY <1>1, Three, r \in Seq(Item), s \in Seq(Item)
  <1>6. \A i \in 1 .. Len(r) : x[i] = r[i]
    BY <1>1, Three
  <1>7. \A i \in 1 .. Len(s) : x[Len(r) + i] = s[i]
    BY <1>1, Three
  <1>8. \A i \in 1 .. Len(rest) : x[Len(r) + Len(s) + i] = rest[i]
    BY <1>1, Three
  <1> HIDE DEF x
  <1>9. Len(x) = Len(r) + Len(s) + (Len(b) - k)
    BY <1>2, <1>5, Zenon
  <1>10. \A i \in 1 .. Len(b) - k : x[Len(r) + Len(s) + i] = b[k + i]
    BY <1>2, <1>3, <1>8, Zenon
  <1> QED  BY <1>4, <1>6, <1>7, <1>9, <1>10, Zenon DEF rest, x, Shape

LEMMA SameItems ==
    ASSUME NEW x \in Seq(Item), NEW y \in Seq(Item), Len(x) = Len(y),
           \A i \in 1 .. Len(x) : x[i] = y[i]
    PROVE  x = y
  OBVIOUS

\* The three regions of the stream.
InRegion(i, a, b, c) ==
    \/ i \in 1 .. a
    \/ \E j \in 1 .. b : i = a + j
    \/ \E j \in 1 .. c : i = a + b + j

LEMMA Regions ==
    ASSUME NEW a \in Nat, NEW b \in Nat, NEW c \in Nat, NEW i \in 1 .. a + b + c
    PROVE  InRegion(i, a, b, c)
  <1> USE DEF InRegion
  <1>1. CASE i > a /\ i <= a + b
    <2>1. i - a \in 1 .. b /\ i = a + (i - a)
      BY <1>1
    <2> QED  BY <2>1
  <1>2. CASE i > a + b
    <2>1. i - (a + b) \in 1 .. c /\ i = a + b + (i - (a + b))
      BY <1>2
    <2> QED  BY <2>1
  <1> QED  BY <1>1, <1>2

\* What is put in the buffer is put at the end of the stream.
LEMMA ShapeOfAppend ==
    ASSUME NEW r \in Seq(Item), NEW s \in Seq(Item), NEW b \in Seq(Item), NEW k \in 0 .. Len(b),
           NEW e \in Item, NEW x, NEW y,
           Shape(x, r, s, b, k), Shape(y, r, s, Append(b, e), k)
    PROVE  y = Append(x, e)
  <1> DEFINE b2 == Append(b, e)
             x2 == Append(x, e)
  <1>1. /\ b2 \in Seq(Item) /\ Len(b2) = Len(b) + 1 /\ b2[Len(b) + 1] = e
        /\ \A i \in 1 .. Len(b) : b2[i] = b[i]
    OBVIOUS
  <1>2. x \in Seq(Item) /\ Len(x) = Len(r) + Len(s) + (Len(b) - k)
    BY DEF Shape
  <1>3. /\ x2 \in Seq(Item) /\ Len(x2) = Len(x) + 1 /\ x2[Len(x) + 1] = e
        /\ \A i \in 1 .. Len(x) : x2[i] = x[i]
    BY <1>2
  <1> HIDE DEF b2, x2
  <1>4. Shape(y, r, s, b2, k)
    BY DEF b2
  <1>5. Len(r) \in Nat /\ Len(s) \in Nat /\ Len(b) \in Nat /\ k \in Nat /\ Len(b) - k \in Nat
    OBVIOUS
  <1>6. y \in Seq(Item) /\ Len(y) = Len(x2)
    BY <1>1, <1>2, <1>3, <1>4, <1>5 DEF Shape
  <1>7. ASSUME NEW i \in 1 .. Len(y)
        PROVE  y[i] = x2[i]
    <2>1. i \in 1 .. Len(r) + Len(s) + (Len(b2) - k) /\ Len(b2) - k \in Nat
      BY <1>1, <1>4, <1>5 DEF Shape
    <2>2. CASE i \in 1 .. Len(r)
      <3>1. y[i] = r[i] /\ x[i] = r[i] /\ i \in 1 .. Len(x)
        BY <1>2, <1>4, <1>5, <2>2 DEF Shape
      <3> QED  BY <1>3, <3>1
    <2>3. ASSUME NEW j \in 1 .. Len(s), i = Len(r) + j PROVE y[i] = x2[i]
      <3>1. y[i] = s[j] /\ x[i] = s[j] /\ i \in 1 .. Len(x)
        BY <1>2, <1>4, <1>5, <2>3 DEF Shape
      <3> QED  BY <1>3, <3>1
    <2>4. ASSUME NEW j \in 1 .. Len(b2) - k, i = Len(r) + Len(s) + j PROVE y[i] = x2[i]
      <3>1. y[i] = b2[k + j]
        BY <1>4, <2>4 DEF Shape
      <3>2. CASE j \in 1 .. Len(b) - k
        <4>1. x[i] = b[k + j]
          BY <2>4, <3>2 DEF Shape
        <4>2. k + j \in 1 .. Len(b)
          BY <1>5, <3>2
        <4>3. i \in 1 .. Len(x)
          BY <1>2, <1>5, <2>4, <3>2
        <4> QED  BY <1>1, <1>3, <3>1, <4>1, <4>2, <4>3
      <3>3. CASE ~ (j \in 1 .. Len(b) - k)
        <4>1. j \in 1 .. (Len(b) + 1) - k /\ ~ (j \in 1 .. Len(b) - k)
          BY <1>1, <2>4, <3>3
        <4>3. j \in Nat /\ j = Len(b) - k + 1
          BY <1>5, <4>1
        <4>2. k + j = Len(b) + 1 /\ i = Len(x) + 1
          BY <1>2, <1>5, <2>4, <4>3
        <4> QED  BY <1>1, <1>3, <3>1, <4>2
      <3> QED  BY <3>2, <3>3
    <2>5. InRegion(i, Len(r), Len(s), Len(b2) - k)
      BY <1>5, <2>1, Regions, Zenon
    <2> QED  BY <2>2, <2>3, <2>4, <2>5 DEF InRegion
  <1> QED  BY <1>3, <1>6, <1>7, SameItems DEF x2

\* What is written moves from the buffer to the socket.
LEMMA ShapeOfWrite ==
    ASSUME NEW r \in Seq(Item), NEW s \in Seq(Item), NEW b \in Seq(Item), NEW n \in 1 .. Len(b),
           NEW x, NEW y, Shape(x, r, s, b, 0), Shape(y, r, s \o SubSeq(b, 1, n), b, n)
    PROVE  y = x
  <1> DEFINE p == SubSeq(b, 1, n)
             s2 == s \o p
  <1>1. Len(r) \in Nat /\ Len(s) \in Nat /\ Len(b) \in Nat /\ n \in Nat /\ Len(b) - n \in Nat
    OBVIOUS
  <1>2. p \in Seq(Item) /\ Len(p) = n /\ \A i \in 1 .. n : p[i] = b[i]
    OBVIOUS
  <1> HIDE DEF p
  <1>9. p \in Seq(Item) /\ s2 \in Seq(Item)
    BY <1>2
  <1>10. Len(s2) = Len(s) + Len(p)
    BY ONLY <1>9, s \in Seq(Item)
  <1>3. Len(s2) = Len(s) + n
    BY <1>2, <1>10, Zenon
  <1>4. \A i \in 1 .. Len(s) : s2[i] = s[i]
    BY <1>2
  <1>5. \A i \in 1 .. n : s2[Len(s) + i] = b[i]
    BY <1>2
  <1>6. Shape(y, r, s2, b, n)
    BY DEF p
  <1> HIDE DEF s2
  <1>7. /\ x \in Seq(Item) /\ Len(x) = Len(r) + Len(s) + Len(b)
        /\ y \in Seq(Item) /\ Len(y) = Len(r) + Len(s) + Len(b)
    BY <1>1, <1>3, <1>6 DEF Shape
  <1>8. ASSUME NEW i \in 1 .. Len(x)
        PROVE  x[i] = y[i]
    <2>1. i \in 1 .. Len(r) + Len(s) + Len(b)
      BY <1>7
    <2>2. CASE i \in 1 .. Len(r)
      BY <1>6, <2>2 DEF Shape
    <2>3. ASSUME NEW j \in 1 .. Len(s), i = Len(r) + j PROVE x[i] = y[i]
      <3>1. x[i] = s[j] /\ j \in 1 .. Len(s2)
        BY <1>1, <1>3, <2>3 DEF Shape
      <3>2. y[i] = s2[j]
        BY <1>6, <2>3, <3>1 DEF Shape
      <3> QED  BY <1>4, <3>1, <3>2
    <2>4. ASSUME NEW j \in 1 .. Len(b), i = Len(r) + Len(s) + j PROVE x[i] = y[i]
      <3>1. x[i] = b[j]
        BY <1>1, <2>4 DEF Shape
      <3>2. CASE j \in 1 .. n
        <4>1. Len(s) + j \in 1 .. Len(s2) /\ i = Len(r) + (Len(s) + j)
          BY <1>1, <1>3, <2>4, <3>2
        <4>2. y[i] = s2[Len(s) + j]
          BY <1>6, <4>1 DEF Shape
        <4> QED  BY <1>5, <3>1, <3>2, <4>2
      <3>3. CASE j > n
        <4>1. /\ j - n \in 1 .. Len(b) - n /\ n + (j - n) = j
              /\ i = Len(r) + Len(s2) + (j - n)
          BY <1>1, <1>3, <2>4, <3>3
        <4>2. y[i] = b[n + (j - n)]
          BY <1>6, <4>1 DEF Shape
        <4> QED  BY <3>1, <4>1, <4>2
      <3> QED  BY <1>1, <3>2, <3>3
    <2>5. InRegion(i, Len(r), Len(s), Len(b))
      BY <1>1, <2>1, Regions, Zenon
    <2> QED  BY <2>2, <2>3, <2>4, <2>5 DEF InRegion
  <1> QED  BY <1>7, <1>8, SameItems

\* What is erased is no longer counted as the buffer's.
LEMMA ShapeOfErase ==
    ASSUME NEW r \in Seq(Item), NEW s \in Seq(Item), NEW b \in Seq(Item), NEW n \in 0 .. Len(b),
           NEW x, NEW y, Shape(x, r, s, b, n), Shape(y, r, s, SubSeq(b, n + 1, Len(b)), 0)
    PROVE  y = x
  <1> DEFINE b2 == SubSeq(b, n + 1, Len(b))
  <1>1. Len(r) \in Nat /\ Len(s) \in Nat /\ Len(b) \in Nat /\ n \in Nat /\ Len(b) - n \in Nat
    OBVIOUS
  <1>2. b2 \in Seq(Item) /\ Len(b2) = Len(b) - n
    OBVIOUS
  <1>3. \A i \in 1 .. Len(b) - n : b2[i] = b[n + i]
    OBVIOUS
  <1>4. Shape(y, r, s, b2, 0)
    OBVIOUS
  <1> HIDE DEF b2
  <1>5. /\ x \in Seq(Item) /\ Len(x) = Len(r) + Len(s) + (Len(b) - n)
        /\ y \in Seq(Item) /\ Len(y) = Len(r) + Len(s) + (Len(b) - n)
    BY <1>1, <1>2, <1>4 DEF Shape
  <1>6. ASSUME NEW i \in 1 .. Len(x)
        PROVE  x[i] = y[i]
    <2>1. i \in 1 .. Len(r) + Len(s) + (Len(b) - n)
      BY <1>5
    <2>2. CASE i \in 1 .. Len(r)
      BY <1>4, <2>2 DEF Shape
    <2>3. ASSUME NEW j \in 1 .. Len(s), i = Len(r) + j PROVE x[i] = y[i]
      BY <1>4, <2>3 DEF Shape
    <2>4. ASSUME NEW j \in 1 .. Len(b) - n, i = Len(r) + Len(s) + j PROVE x[i] = y[i]
      <3>1. x[i] = b[n + j]
        BY <2>4 DEF Shape
      <3>2. y[i] = b2[0 + j]
        BY <1>1, <1>2, <1>4, <2>4 DEF Shape
      <3> QED  BY <1>3, <2>4, <3>1, <3>2
    <2>5. InRegion(i, Len(r), Len(s), Len(b) - n)
      BY <1>1, <2>1, Regions, Zenon
    <2> QED  BY <2>2, <2>3, <2>4, <2>5 DEF InRegion
  <1> QED  BY <1>5, <1>6, SameItems

\* An event that is read is still part of the stream.
LEMMA ShapeOfRead ==
    ASSUME NEW r \in Seq(Item), NEW s \in Seq(Item), s # <<>>, NEW b \in Seq(Item), NEW k \in 0 .. Len(b),
           NEW x, NEW y, Shape(x, r, s, b, k), Shape(y, Append(r, Head(s)), Tail(s), b, k)
    PROVE  y = x
  <1> DEFINE r2 == Append(r, Head(s))
             s2 == Tail(s)
  <1>1. Len(r) \in Nat /\ Len(s) \in Nat \ {0} /\ Len(b) \in Nat /\ k \in Nat /\ Len(b) - k \in Nat
    OBVIOUS
  <1>2. /\ Len(r2) = Len(r) + 1 /\ r2[Len(r) + 1] = s[1]
        /\ \A i \in 1 .. Len(r) : r2[i] = r[i]
    OBVIOUS
  <1>3. /\ Len(s2) = Len(s) - 1
        /\ \A i \in 1 .. Len(s) - 1 : s2[i] = s[i + 1]
    OBVIOUS
  <1>4. Shape(y, r2, s2, b, k)
    OBVIOUS
  <1> HIDE DEF r2, s2
  <1>5. x \in Seq(Item) /\ Len(x) = Len(r) + Len(s) + (Len(b) - k)
    BY DEF Shape
  <1>6. y \in Seq(Item) /\ Len(y) = Len(r2) + Len(s2) + (Len(b) - k)
    BY <1>4 DEF Shape
  <1>7. Len(y) = Len(x)
    BY <1>1, <1>2, <1>3, <1>5, <1>6
  <1>8. ASSUME NEW i \in 1 .. Len(x)
        PROVE  x[i] = y[i]
    <2>1. i \in 1 .. Len(r) + Len(s) + (Len(b) - k)
      BY <1>5
    <2>2. CASE i \in 1 .. Len(r)
      <3>1. i \in 1 .. Len(r2)
        BY <1>1, <1>2, <2>2
      <3> QED  BY <1>2, <1>4, <2>2, <3>1 DEF Shape
    <2>3. ASSUME NEW j \in 1 .. Len(s), i = Len(r) + j PROVE x[i] = y[i]
      <3>1. x[i] = s[j]
        BY <2>3 DEF Shape
      <3>2. CASE j = 1
        <4>1. i = Len(r) + 1 /\ i \in 1 .. Len(r2)
          BY <1>1, <1>2, <2>3, <3>2
        <4>2. y[i] = r2[i]
          BY <1>4, <4>1 DEF Shape
        <4> QED  BY <1>2, <3>1, <3>2, <4>1, <4>2
      <3>3. CASE j # 1
        <4>1. j - 1 \in 1 .. Len(s) - 1 /\ (j - 1) + 1 = j /\ i = Len(r2) + (j - 1)
          BY <1>1, <1>2, <2>3, <3>3
        <4>2. y[i] = s2[j - 1]
          BY <1>3, <1>4, <4>1 DEF Shape
        <4> QED  BY <1>3, <3>1, <4>1, <4>2
      <3> QED  BY <3>2, <3>3
    <2>4. ASSUME NEW j \in 1 .. Len(b) - k, i = Len(r) + Len(s) + j PROVE x[i] = y[i]
      <3>1. x[i] = b[k + j]
        BY <2>4 DEF Shape
      <3>2. i = Len(r2) + Len(s2) + j
        BY <1>1, <1>2, <1>3, <2>4
      <3>3. y[i] = b[k + j]
        BY <1>4, <2>4, <3>2 DEF Shape
      <3> QED  BY <3>1, <3>3
    <2>5. InRegion(i, Len(r), Len(s), Len(b) - k)
      BY <1>1, <2>1, Regions, Zenon
    <2> QED  BY <2>2, <2>3, <2>4, <2>5 DEF InRegion
  <1> QED  BY <1>5, <1>6, <1>7, <1>8, SameItems

\* A comment that is read leaves the stream; what follows moves up.
LEMMA ShapeOfSkip ==
    ASSUME NEW r \in Seq(Item), NEW s \in Seq(Item), s # <<>>, NEW b \in Seq(Item), NEW k \in 0 .. Len(b),
           NEW x, NEW y, Shape(x, r, s, b, k), Shape(y, r, Tail(s), b, k)
    PROVE  /\ Len(x) = Len(y) + 1 /\ x[Len(r) + 1] = Head(s) /\ Len(r) + 1 \in 1 .. Len(x)
           /\ \A i \in 1 .. Len(y) : y[i] = x[IF i <= Len(r) THEN i ELSE i + 1]
  <1> DEFINE s2 == Tail(s)
  <1>1. Len(r) \in Nat /\ Len(s) \in Nat \ {0} /\ Len(b) \in Nat /\ k \in Nat /\ Len(b) - k \in Nat
    OBVIOUS
  <1>2. Head(s) = s[1]
    OBVIOUS
  <1>3. /\ Len(s2) = Len(s) - 1
        /\ \A i \in 1 .. Len(s) - 1 : s2[i] = s[i + 1]
    OBVIOUS
  <1>4. Shape(y, r, s2, b, k)
    OBVIOUS
  <1> HIDE DEF s2
  <1>5. Len(x) = Len(r) + Len(s) + (Len(b) - k) /\ Len(y) = Len(r) + Len(s2) + (Len(b) - k)
    BY <1>4 DEF Shape
  <1>6. Len(x) = Len(y) + 1 /\ Len(r) + 1 \in 1 .. Len(x)
    BY <1>1, <1>3, <1>5
  <1>7. x[Len(r) + 1] = Head(s)
    <2>1. 1 \in 1 .. Len(s)
      BY <1>1
    <2> QED  BY <1>2, <2>1 DEF Shape
  <1>8. ASSUME NEW i \in 1 .. Len(y)
        PROVE  y[i] = x[IF i <= Len(r) THEN i ELSE i + 1]
    <2>1. i \in 1 .. Len(r) + Len(s2) + (Len(b) - k) /\ Len(s2) \in Nat
      BY <1>1, <1>3, <1>5
    <2>2. CASE i \in 1 .. Len(r)
      BY <1>1, <1>4, <2>2 DEF Shape
    <2>3. ASSUME NEW j \in 1 .. Len(s2), i = Len(r) + j
          PROVE  y[i] = x[IF i <= Len(r) THEN i ELSE i + 1]
      <3>1. y[i] = s[j + 1]
        BY <1>3, <1>4, <2>3 DEF Shape
      <3>2. j + 1 \in 1 .. Len(s) /\ i + 1 = Len(r) + (j + 1) /\ ~ (i <= Len(r))
        BY <1>1, <1>3, <2>3
      <3>3. x[i + 1] = s[j + 1]
        BY <3>2 DEF Shape
      <3> QED  BY <3>1, <3>2, <3>3
    <2>4. ASSUME NEW j \in 1 .. Len(b) - k, i = Len(r) + Len(s2) + j
          PROVE  y[i] = x[IF i <= Len(r) THEN i ELSE i + 1]
      <3>1. y[i] = b[k + j]
        BY <1>4, <2>4 DEF Shape
      <3>2. i + 1 = Len(r) + Len(s) + j /\ ~ (i <= Len(r))
        BY <1>1, <1>3, <2>4
      <3>3. x[i + 1] = b[k + j]
        BY <3>2 DEF Shape
      <3> QED  BY <3>1, <3>2, <3>3
    <2>5. InRegion(i, Len(r), Len(s2), Len(b) - k)
      BY <1>1, <2>1, Regions, Zenon
    <2> QED  BY <2>2, <2>3, <2>4, <2>5 DEF InRegion
  <1> QED  BY <1>6, <1>7, <1>8

LEMMA StreamShape ==
    ASSUME TypeOK, OneWriter
    PROVE  Shape(Stream, received, sock, send_buf, Taken)
  <1>1. received \in Seq(Item) /\ sock \in Seq(Item) /\ send_buf \in Seq(Item)
    BY DEF TypeOK, Item
  <1>2. Taken \in 0 .. Len(send_buf)
    BY TakenInBuffer
  <1> QED  BY <1>1, <1>2, StreamParts DEF Stream

\* The same, after a step.
LEMMA StreamShapeNext ==
    ASSUME TypeOK', OneWriter'
    PROVE  Taken' \in 0 .. Len(send_buf') /\ Shape(Stream', received', sock', send_buf', Taken')
  <1>1. received' \in Seq(Item) /\ sock' \in Seq(Item) /\ send_buf' \in Seq(Item)
    BY DEF TypeOK, Item
  <1>2. Taken' \in 0 .. Len(send_buf')
    <2>1. Len(send_buf') \in Nat
      BY <1>1
    <2>2. CASE \E w \in Workers : pc'[w] = "erase"
      BY <2>1, <2>2, TakenIsNext DEF OneWriter
    <2>3. CASE \A w \in Workers : pc'[w] # "erase"
      BY <2>1, <2>3, TakenIsNext
    <2> QED  BY <2>2, <2>3
  <1> QED  BY <1>1, <1>2, StreamParts DEF Stream

\* The items are frames or comments, and the events are the frames.
LEMMA EventsTyped ==
    ASSUME TypeOK, OneWriter
    PROVE  /\ DOMAIN Stream = 1 .. Len(Stream) /\ Len(Stream) \in Nat
           /\ \A i \in Events : /\ i \in 1 .. Len(Stream) /\ i \in Nat
                                /\ Stream[i] \in Frame /\ Stream[i].sequence \in Nat \ {0}
  <1>1. Stream \in Seq(Item)
    BY StreamShape DEF Shape
  <1>2. DOMAIN Stream = 1 .. Len(Stream) /\ Len(Stream) \in Nat
    BY <1>1
  <1>3. ASSUME NEW i \in Events
        PROVE  /\ i \in 1 .. Len(Stream) /\ i \in Nat
               /\ Stream[i] \in Frame /\ Stream[i].sequence \in Nat \ {0}
    <2>1. i \in 1 .. Len(Stream) /\ i \in Nat /\ Stream[i] # Comment
      BY <1>2, <1>3 DEF Events
    <2>2. Stream[i] \in Item
      BY <1>1, <2>1
    <2>3. Stream[i] \in Frame
      BY <2>1, <2>2 DEF Item
    <2> QED  BY <2>1, <2>3 DEF Frame
  <1> QED  BY <1>2, <1>3

-----------------------------------------------------------------------------
(* How a step may change the stream and keep what is said of its events.   *)

\* The events stay what they were, in the same order, wherever the comments go.
LEMMA SameEvents ==
    ASSUME StreamInv,
           NEW m \in [Events' -> Events],
           \A i, j \in Events' : i < j => m[i] < m[j],
           \A i \in Events' : Stream'[i] = Stream[m[i]],
           \A i \in Events : \E j \in Events' : m[j] = i,
           UNCHANGED <<frames, next_sequence, start, toSend, sse_active_, sse_after_sequence_>>,
           sse_overflow_ => sse_overflow_'
    PROVE  StreamInv'
  <1> USE DEF StreamInv
  <1>1. \A i \in Events' : m[i] \in Events
    OBVIOUS
  <1>2. StreamInOrder'
    BY <1>1 DEF StreamInOrder
  <1>3. CursorLeads'
    BY <1>1 DEF CursorLeads
  <1>4. EventsAreFrames'
    BY <1>1 DEF EventsAreFrames
  <1>5. ASSUME NEW f, Carried(f) PROVE \E i \in Events' : Stream'[i] = f
    BY <1>5 DEF Carried
  <1>6. NothingKeptIsPassed'
    <2> SUFFICES ASSUME NEW j \in DOMAIN frames
                 PROVE  /\ \A i \in Events' :
                              start < frames[j].sequence /\ frames[j].sequence <= Stream'[i].sequence
                                  => Carried(frames[j])
                        /\ /\ sse_active_ /\ ~ sse_overflow_
                           /\ start < frames[j].sequence /\ frames[j].sequence <= sse_after_sequence_
                           => Carried(frames[j])
                        /\ \A f \in toSend :
                              sse_after_sequence_ < frames[j].sequence /\ frames[j].sequence <= f.sequence
                                  => frames[j] \in toSend
      BY <1>5 DEF NothingKeptIsPassed, Carried
    <2> QED  BY <1>1 DEF NothingKeptIsPassed
  <1> QED  BY <1>2, <1>3, <1>4, <1>6

\* A step that leaves the stream, the store and the cursor alone.
LEMMA SameStream ==
    ASSUME StreamInv, Stream' = Stream,
           UNCHANGED <<frames, next_sequence, start, toSend, sse_active_, sse_after_sequence_>>,
           sse_overflow_ => sse_overflow_'
    PROVE  StreamInv'
  <1> DEFINE m == [i \in Events |-> i]
  <1>1. Events' = Events
    BY DEF Events, Comment
  <1>2. m \in [Events' -> Events] /\ \A i \in Events : m[i] = i
    BY <1>1
  <1> HIDE DEF m
  <1> QED  BY <1>1, <1>2, SameEvents

\* A comment is put at the end.
LEMMA CommentAtEnd ==
    ASSUME TypeOK, OneWriter, StreamInv, Stream' = Append(Stream, Comment),
           UNCHANGED <<frames, next_sequence, start, toSend, sse_active_, sse_after_sequence_>>,
           sse_overflow_ => sse_overflow_'
    PROVE  StreamInv'
  <1> DEFINE m == [i \in Events |-> i]
  <1>1. Stream \in Seq(Item) /\ Comment \in Item
    BY StreamShape DEF Item, Shape
  <1>2. /\ DOMAIN Stream' = DOMAIN Stream \cup {Len(Stream) + 1}
        /\ \A i \in DOMAIN Stream : Stream'[i] = Stream[i]
        /\ Stream'[Len(Stream) + 1] = Comment
    BY <1>1
  <1>3. Events' = Events /\ \A i \in Events : Stream'[i] = Stream[i]
    BY <1>2 DEF Events, Comment
  <1>4. m \in [Events' -> Events] /\ \A i \in Events : m[i] = i
    BY <1>3
  <1> HIDE DEF m
  <1> QED  BY <1>3, <1>4, SameEvents

-----------------------------------------------------------------------------
(* Types: one step per action.                                             *)

LEMMA LimitTypes ==
    /\ Starts \subseteq Nat
    /\ PumpLimit \in Nat \ {0} /\ MaxPending \in Nat \ {0} /\ SocketRoom \in Nat \ {0}
    /\ MaxFrames \in Nat /\ MaxTasks \in Nat
  BY LimitsAssumption

LEMMA TypedStore == TypeOK => StoreTyped
  BY DEF TypeOK, StoreTyped

LEMMA CommentIsItem == Comment \in Item /\ Comment \notin Frame
  BY DEF Item, Comment, Frame

LEMMA OutsideTypes ==
    ASSUME TypeOK, StoreIsWindow
    PROVE  /\ \A id \in Ids : Receive(id) => TypeOK'
           /\ Clock => TypeOK'
           /\ Ask => TypeOK'
           /\ ReadEvents => TypeOK'
           /\ Leave => TypeOK'
  <1> USE DEF vars, storeVars, clientVars, epollVars, loopVars, sseVars, bufVars, workerVars
  <1>1. ASSUME NEW id \in Ids, Receive(id) PROVE TypeOK'
    <2>1. StoreTyped'
      BY <1>1, TypedStore, AppendKeepsWindow DEF Receive
    <2> QED  BY <1>1, <2>1 DEF Receive, TypeOK, StoreTyped
  <1>2. ASSUME Clock PROVE TypeOK'
    BY <1>2 DEF Clock, TypeOK
  <1>3. ASSUME Ask PROVE TypeOK'
    BY <1>3 DEF Ask, Wake, TypeOK
  <1>4. ASSUME ReadEvents PROVE TypeOK'
    <2>1. sock \in Seq(Item) /\ sock # <<>> /\ received \in Seq(Frame) /\ Len(sock) <= SocketRoom
      BY <1>4 DEF ReadEvents, TypeOK
    <2>2. sock' \in Seq(Item) /\ Len(sock') <= SocketRoom
      BY <1>4, <2>1, LimitTypes DEF ReadEvents
    <2>3. Head(sock) \in Item
      BY <2>1
    <2>4. received' \in Seq(Frame)
      BY <1>4, <2>1, <2>3 DEF ReadEvents, Item
    <2>5. ready' \in BOOLEAN
      BY <1>4 DEF ReadEvents, Wake, TypeOK
    <2> QED  BY <1>4, <2>2, <2>4, <2>5 DEF ReadEvents, TypeOK
  <1>5. ASSUME Leave PROVE TypeOK'
    BY <1>5 DEF Leave, Wake, TypeOK
  <1> QED  BY <1>1, <1>2, <1>3, <1>4, <1>5

LEMMA LoopTypes ==
    ASSUME TypeOK, StoreIsWindow
    PROVE  /\ EpollWait => TypeOK'
           /\ TimedOut => TypeOK'
           /\ Pump => TypeOK'
           /\ AppendFrame => TypeOK'
           /\ Heartbeat => TypeOK'
           /\ ArmStream => TypeOK'
           /\ CloseOverflowed => TypeOK'
           /\ HandleEvents => TypeOK'
  <1> USE DEF vars, storeVars, clientVars, epollVars, loopVars, sseVars, bufVars, workerVars
  <1>0. Polled \subseteq InOut
    BY DEF Polled
  <1>1. ASSUME EpollWait PROVE TypeOK'
    BY <1>0, <1>1 DEF EpollWait, TypeOK
  <1>2. ASSUME TimedOut PROVE TypeOK'
    BY <1>2 DEF TimedOut, Close, TypeOK
  <1>3. ASSUME Pump PROVE TypeOK'
    <2>1. QueryAfter(sse_after_sequence_, NoFilter, PumpLimit) \subseteq Frame
      BY QueryIsSound, StoredPlace, TypedStore
    <2> QED  BY <1>3, <2>1 DEF Pump, TypeOK
  <1>4. ASSUME AppendFrame PROVE TypeOK'
    <2>1. PICK f \in toSend :
             /\ sse_after_sequence_' = Advanced(f)
             /\ \/ /\ Fits /\ send_buf' = Append(send_buf, f)
                   /\ UNCHANGED <<loop, sse_overflow_>>
                   /\ appended' = TRUE /\ toSend' = toSend \ {f}
                \/ /\ UNCHANGED <<send_buf, appended>>
                   /\ loop' = AfterPump(appended) /\ sse_overflow_' = TRUE /\ toSend' = {}
      BY <1>4 DEF AppendFrame
    <2>2. f \in Frame
      BY DEF TypeOK
    <2>3. sse_after_sequence_' \in Nat
      BY <2>1, <2>2 DEF Advanced, Frame, TypeOK
    <2>4. send_buf' \in Seq(Item) /\ Len(send_buf') <= MaxPending
      <3>1. send_buf \in Seq(Item) /\ Len(send_buf) <= MaxPending /\ f \in Item
        BY <2>2 DEF TypeOK, Item
      <3>2. CASE send_buf' = Append(send_buf, f) /\ Len(send_buf) + 1 <= MaxPending
        BY <3>1, <3>2, LimitTypes
      <3>3. CASE send_buf' = send_buf
        BY <3>1, <3>3
      <3> QED  BY <2>1, <3>2, <3>3 DEF Fits
    <2>5. loop' \in {"wait", "timedOut", "dispatch", "append", "arm", "overflow", "events"}
      BY <2>1 DEF AfterPump, TypeOK
    <2> QED  BY <1>4, <2>1, <2>3, <2>4, <2>5 DEF AppendFrame, TypeOK
  <1>5. ASSUME Heartbeat PROVE TypeOK'
    <2>1. send_buf' \in Seq(Item) /\ Len(send_buf') <= MaxPending
      BY <1>5, LimitTypes, CommentIsItem DEF Heartbeat, Fits, TypeOK
    <2>2. sse_overflow_' \in BOOLEAN /\ appended' \in BOOLEAN
      BY <1>5 DEF Heartbeat, TypeOK
    <2> QED  BY <1>5, <2>1, <2>2 DEF Heartbeat, AfterPump, TypeOK
  <1>6. ASSUME ArmStream PROVE TypeOK'
    BY <1>6 DEF ArmStream, UpdateEvent, TypeOK
  <1>7. ASSUME CloseOverflowed PROVE TypeOK'
    BY <1>7 DEF CloseOverflowed, Close, TypeOK
  <1>8. ASSUME HandleEvents PROVE TypeOK'
    BY <1>8 DEF HandleEvents, TypeOK
  <1> QED  BY <1>1, <1>2, <1>3, <1>4, <1>5, <1>6, <1>7, <1>8

LEMMA WorkerTypes ==
    ASSUME TypeOK, AskedOnce, OneWriter, NEW w \in Workers
    PROVE  /\ Take(w) => TypeOK'
           /\ Move(w) => TypeOK'
           /\ Read(w) => TypeOK'
           /\ Drop(w) => TypeOK'
           /\ Parse(w) => TypeOK'
           /\ Modify(w) => TypeOK'
           /\ Write(w) => TypeOK'
           /\ Erase(w) => TypeOK'
  <1> USE DEF vars, storeVars, clientVars, epollVars, loopVars, sseVars, bufVars, workerVars
  <1>0. ASSUME NEW l \in Labels, Goto(w, l)
        PROVE  /\ pc' \in [Workers -> Labels]
               /\ revents' \in [Workers -> SUBSET InOut]
    BY <1>0 DEF Goto, TypeOK, Labels
  <1>1. ASSUME Take(w) PROVE TypeOK'
    <2>1. Head(task_queue) \in SUBSET InOut /\ Tail(task_queue) \in Seq(SUBSET InOut)
      BY <1>1 DEF Take, TypeOK
    <2>2. /\ pc' \in [Workers -> Labels]
          /\ revents' \in [Workers -> SUBSET InOut]
      BY <1>1, <2>1 DEF Take, TypeOK, Labels
    <2> QED  BY <1>1, <2>1, <2>2 DEF Take, TypeOK
  <1>2. ASSUME Move(w) PROVE TypeOK'
    <2>1. Goto(w, "read") \/ Goto(w, "writeLock") \/ Goto(w, "idle") \/ Goto(w, "write")
      BY <1>2 DEF Move
    <2> QED  BY <1>0, <1>2, <2>1 DEF Move, TypeOK, Labels
  <1>3. ASSUME Read(w) PROVE TypeOK'
    <2>1. UNCHANGED <<pc, revents>> \/ \E l \in {"parse", "drop"} : Goto(w, l)
      BY <1>3 DEF Read
    <2>2. unread' \in BOOLEAN /\ recv_buf' \in BOOLEAN
      BY <1>3 DEF Read, TypeOK
    <2>3. /\ pc' \in [Workers -> Labels]
          /\ revents' \in [Workers -> SUBSET InOut]
      BY <1>0, <2>1 DEF TypeOK, Labels
    <2> QED  BY <1>3, <2>2, <2>3 DEF Read, TypeOK
  <1>4. ASSUME Drop(w) PROVE TypeOK'
    <2>1. /\ pc' \in [Workers -> Labels]
          /\ revents' \in [Workers -> SUBSET InOut]
      BY <1>0, <1>4 DEF Drop, Labels
    <2> QED  BY <1>4, <2>1 DEF Drop, Close, TypeOK
  <1>5. ASSUME Parse(w) PROVE TypeOK'
    <2>1. \E l \in {"readMod", "gate"} : Goto(w, l)
      BY <1>5 DEF Parse
    <2>2. send_buf' \in Seq(Item) /\ Len(send_buf') <= MaxPending
      <3>1. CASE recv_buf
        <4>1. send_buf = <<>> /\ send_buf' = Append(send_buf, Comment)
          BY <1>5, <3>1 DEF Parse, AskedOnce
        <4> QED  BY <4>1, CommentIsItem, LimitTypes
      <3>2. CASE ~ recv_buf
        BY <1>5, <3>2 DEF Parse, TypeOK
      <3> QED  BY <3>1, <3>2
    <2>3. sse_after_sequence_' \in Nat
      BY <1>5, LimitTypes DEF Parse, TypeOK
    <2>4. recv_buf' \in BOOLEAN /\ sse_active_' \in BOOLEAN /\ beatDue' \in BOOLEAN
      BY <1>5 DEF Parse, TypeOK
    <2> QED  BY <1>0, <1>5, <2>1, <2>2, <2>3, <2>4 DEF Parse, TypeOK, Labels
  <1>6. ASSUME Modify(w) PROVE TypeOK'
    <2>1. \E l \in {"parse", "idle"} : Goto(w, l)
      BY <1>6 DEF Modify
    <2>2. interest' \subseteq InOut /\ ready' \in BOOLEAN
      BY <1>6 DEF Modify, UpdateEvent, TypeOK, In, InOut
    <2> QED  BY <1>0, <1>6, <2>1, <2>2 DEF Modify, TypeOK, Labels
  <1>7. ASSUME Write(w) PROVE TypeOK'
    <2> DEFINE n == IF Room < Len(send_buf) THEN Room ELSE Len(send_buf)
    <2>1. \E l \in {"writeMod", "idle", "erase"} : Goto(w, l)
      BY <1>7 DEF Write
    <2>2. send_buf \in Seq(Item) /\ sock \in Seq(Item) /\ Len(sock) <= SocketRoom
      BY DEF TypeOK
    <2>3. n \in 0 .. Len(send_buf) /\ n <= SocketRoom - Len(sock)
      BY <2>2, LimitTypes DEF Room
    <2>4. SubSeq(send_buf, 1, n) \in Seq(Item) /\ Len(SubSeq(send_buf, 1, n)) = n
      BY <2>2, <2>3
    <2>5. sock' = sock \/ sock' = sock \o SubSeq(send_buf, 1, n)
      BY <1>7 DEF Write
    <2>6. wrote' = wrote \/ wrote' = [wrote EXCEPT ![w] = n]
      BY <1>7 DEF Write
    <2> HIDE DEF n
    <2>7. sock' \in Seq(Item) /\ Len(sock') <= SocketRoom
      <3>1. CASE sock' = sock
        BY <2>2, <3>1
      <3>2. CASE sock' = sock \o SubSeq(send_buf, 1, n)
        <4>1. PICK t \in Seq(Item) : t = SubSeq(send_buf, 1, n) /\ Len(t) = n
          BY <2>4, Zenon
        <4>2. sock' = sock \o t
          BY <3>2, <4>1, Zenon
        <4>3. sock' \in Seq(Item) /\ Len(sock') = Len(sock) + n
          BY <2>2, <4>1, <4>2
        <4> QED  BY <2>2, <2>3, <4>3, LimitTypes
      <3> QED  BY <2>5, <3>1, <3>2
    <2>8. wrote' \in [Workers -> Nat]
      <3>1. n \in Nat /\ wrote \in [Workers -> Nat]
        BY <2>2, <2>3 DEF TypeOK
      <3> QED  BY <2>6, <3>1
    <2>9. registered' \in BOOLEAN /\ interest' \subseteq InOut /\ ready' \in BOOLEAN
      BY <1>7 DEF Write, TypeOK
    <2> QED  BY <1>0, <1>7, <2>1, <2>7, <2>8, <2>9 DEF Write, TypeOK, Labels
  <1>8. ASSUME Erase(w) PROVE TypeOK'
    <2>1. send_buf \in Seq(Item) /\ wrote[w] \in 1 .. Len(send_buf) /\ Len(send_buf) <= MaxPending
      BY <1>8 DEF Erase, OneWriter, TypeOK
    <2>2. send_buf' \in Seq(Item) /\ Len(send_buf') <= MaxPending
      BY <1>8, <2>1, LimitTypes DEF Erase, Erased
    <2>3. wrote' \in [Workers -> Nat]
      BY <1>8 DEF Erase, TypeOK
    <2> QED  BY <1>0, <1>8, <2>2, <2>3 DEF Erase, TypeOK, Labels
  <1> QED  BY <1>1, <1>2, <1>3, <1>4, <1>5, <1>6, <1>7, <1>8

-----------------------------------------------------------------------------
(* Who writes, and what comes before the stream: AskedOnce and OneWriter.  *)

\* The worker that moves is not at a label of the writer unless it comes there
\* alone, keeps its place or goes from one such label to another.
LEMMA WritersKept ==
    ASSUME TypeOK, OneWriter, NEW w \in Workers, NEW l \in Labels,
           pc' = [pc EXCEPT ![w] = l],
           \/ l \notin {"write", "erase", "writeMod"}
           \/ pc[w] \in {"write", "erase", "writeMod"}
           \/ ~ WriteHeld
    PROVE  \A v, u \in Workers :
              {pc'[v], pc'[u]} \subseteq {"write", "erase", "writeMod"} => v = u
  <1>1. pc \in [Workers -> Labels]
    BY DEF TypeOK
  <1>2. \A v \in Workers : pc'[v] = IF v = w THEN l ELSE pc[v]
    BY <1>1
  <1> QED  BY <1>2 DEF OneWriter, WriteHeld

\* Steps in which no worker moves and the buffer does not shrink.
LEMMA OneWriterStays ==
    ASSUME TypeOK, OneWriter, UNCHANGED <<pc, wrote>>,
           Len(send_buf) <= Len(send_buf'), Len(send_buf') \in Nat,
           fin => fin', registered' => registered
    PROVE  OneWriter'
  <1>1. Len(send_buf) \in Nat
    BY DEF TypeOK
  <1>2. \A w \in Workers : pc'[w] = "erase" => wrote'[w] \in 1 .. Len(send_buf')
    BY <1>1 DEF OneWriter
  <1> QED  BY <1>2 DEF OneWriter

\* Steps of a worker that neither take from nor give to the buffer.
LEMMA OneWriterMoves ==
    ASSUME TypeOK, OneWriter, NEW w \in Workers, NEW l \in Labels,
           pc' = [pc EXCEPT ![w] = l],
           \/ l \notin {"write", "erase", "writeMod"}
           \/ l \in {"write", "writeMod"} /\ (pc[w] \in {"write", "erase", "writeMod"} \/ ~ WriteHeld),
           UNCHANGED <<wrote, send_buf, fin>>, registered' => registered,
           l = "drop" => fin \/ ~ registered'
    PROVE  OneWriter'
  <1>1. \A v \in Workers : pc'[v] = IF v = w THEN l ELSE pc[v]
    BY DEF TypeOK
  <1>2. \A v, u \in Workers :
           {pc'[v], pc'[u]} \subseteq {"write", "erase", "writeMod"} => v = u
    BY WritersKept
  <1>3. \A v \in Workers : pc'[v] = "erase" => wrote'[v] \in 1 .. Len(send_buf')
    BY <1>1 DEF OneWriter
  <1>4. \A v \in Workers : pc'[v] = "drop" => fin' \/ ~ registered'
    BY <1>1 DEF OneWriter
  <1> QED  BY <1>2, <1>3, <1>4 DEF OneWriter

-----------------------------------------------------------------------------
(* The invariant, step by step.                                            *)

LEMMA SafeParts ==
    IInv <=> TypeOK /\ StoreIsWindow /\ AskedOnce /\ OneWriter /\ StreamInv
  BY DEF IInv, StreamInv

LEMMA StreamStill ==
    ASSUME OneWriter, OneWriter',
           \A w \in Workers : pc'[w] = "erase" <=> pc[w] = "erase",
           UNCHANGED <<wrote, received, sock, send_buf>>
    PROVE  Stream' = Stream
  BY TakenKept DEF Stream

LEMMA WindowStill ==
    ASSUME StoreIsWindow, UNCHANGED storeVars
    PROVE  StoreIsWindow'
  BY DEF StoreIsWindow, storeVars

\* Steps of the client, the clock and the loop that touch neither stream nor
\* store.
LEMMA QuietKeeps ==
    ASSUME IInv, TypeOK', AskedOnce',
           UNCHANGED <<storeVars, start, sock, received, send_buf, toSend>>,
           UNCHANGED <<sse_active_, sse_overflow_, sse_after_sequence_, pc, wrote>>,
           fin => fin', registered' => registered
    PROVE  IInv'
  <1>1. OneWriter'
    <2>1. Len(send_buf) \in Nat
      BY DEF IInv, TypeOK
    <2> QED  BY <2>1, OneWriterStays DEF IInv
  <1>2. Stream' = Stream
    BY <1>1, StreamStill DEF IInv
  <1>3. StreamInv'
    BY <1>2, SafeParts, SameStream DEF storeVars
  <1>4. StoreIsWindow'
    BY WindowStill DEF IInv
  <1> QED  BY <1>1, <1>3, <1>4 DEF IInv, StreamInv

\* Steps of a worker that touch neither.
LEMMA QuietWorkerKeeps ==
    ASSUME IInv, TypeOK', AskedOnce',
           NEW w \in Workers, NEW l \in Labels \ {"erase"}, pc' = [pc EXCEPT ![w] = l],
           pc[w] # "erase",
           \/ l \notin {"write", "writeMod"}
           \/ pc[w] \in {"write", "erase", "writeMod"} \/ ~ WriteHeld,
           l = "drop" => fin \/ ~ registered',
           UNCHANGED <<storeVars, start, fin, sock, received, send_buf, toSend>>,
           UNCHANGED <<sse_active_, sse_overflow_, sse_after_sequence_, wrote>>,
           registered' => registered
    PROVE  IInv'
  <1>1. OneWriter'
    BY OneWriterMoves DEF IInv
  <1>2. \A v \in Workers : pc'[v] = "erase" <=> pc[v] = "erase"
    BY DEF IInv, TypeOK
  <1>3. Stream' = Stream
    BY <1>1, <1>2, StreamStill DEF IInv
  <1>4. StreamInv'
    BY <1>3, SafeParts, SameStream DEF storeVars
  <1>5. StoreIsWindow'
    BY WindowStill DEF IInv
  <1> QED  BY <1>1, <1>4, <1>5 DEF IInv, StreamInv

LEMMA QuietSteps ==
    ASSUME IInv
    PROVE  /\ Clock => IInv'
           /\ Ask => IInv'
           /\ Leave => IInv'
           /\ EpollWait => IInv'
           /\ TimedOut => IInv'
           /\ ArmStream => IInv'
           /\ CloseOverflowed => IInv'
           /\ HandleEvents => IInv'
           /\ (UNCHANGED vars) => IInv'
  <1>0. TypeOK /\ StoreIsWindow /\ AskedOnce
    BY DEF IInv
  <1> USE DEF vars, storeVars, clientVars, epollVars, loopVars, sseVars, bufVars, workerVars
  <1>1. ASSUME Clock PROVE IInv'
    <2>1. AskedOnce'
      BY <1>0, <1>1 DEF Clock, AskedOnce
    <2> QED  BY <1>0, <1>1, <2>1, OutsideTypes, QuietKeeps DEF Clock
  <1>2. ASSUME Ask PROVE IInv'
    <2>1. AskedOnce'
      BY <1>0, <1>2 DEF Ask, AskedOnce
    <2> QED  BY <1>0, <1>2, <2>1, OutsideTypes, QuietKeeps DEF Ask
  <1>3. ASSUME Leave PROVE IInv'
    <2>1. AskedOnce'
      BY <1>0, <1>3 DEF Leave, AskedOnce
    <2> QED  BY <1>0, <1>3, <2>1, OutsideTypes, QuietKeeps DEF Leave
  <1>4. ASSUME EpollWait PROVE IInv'
    <2>1. AskedOnce'
      BY <1>0, <1>4 DEF EpollWait, AskedOnce
    <2> QED  BY <1>0, <1>4, <2>1, LoopTypes, QuietKeeps DEF EpollWait
  <1>5. ASSUME TimedOut PROVE IInv'
    <2>1. AskedOnce'
      BY <1>0, <1>5 DEF TimedOut, AskedOnce
    <2> QED  BY <1>0, <1>5, <2>1, LoopTypes, QuietKeeps DEF TimedOut, Close
  <1>6. ASSUME ArmStream PROVE IInv'
    <2>1. AskedOnce'
      BY <1>0, <1>6 DEF ArmStream, AskedOnce
    <2> QED  BY <1>0, <1>6, <2>1, LoopTypes, QuietKeeps DEF ArmStream
  <1>7. ASSUME CloseOverflowed PROVE IInv'
    <2>1. AskedOnce'
      BY <1>0, <1>7 DEF CloseOverflowed, AskedOnce
    <2>2. registered' => registered
      BY <1>7 DEF CloseOverflowed, Close
    <2> QED  BY <1>0, <1>7, <2>1, <2>2, LoopTypes, QuietKeeps DEF CloseOverflowed
  <1>8. ASSUME HandleEvents PROVE IInv'
    <2>1. AskedOnce'
      BY <1>0, <1>8 DEF HandleEvents, AskedOnce
    <2> QED  BY <1>0, <1>8, <2>1, LoopTypes, QuietKeeps DEF HandleEvents
  <1>9. ASSUME UNCHANGED vars PROVE IInv'
    <2>1. AskedOnce'
      BY <1>0, <1>9 DEF AskedOnce
    <2>2. TypeOK'
      BY <1>0, <1>9 DEF TypeOK
    <2> QED  BY <1>9, <2>1, <2>2, QuietKeeps
  <1> QED  BY <1>1, <1>2, <1>3, <1>4, <1>5, <1>6, <1>7, <1>8, <1>9

LEMMA QuietWorkerSteps ==
    ASSUME IInv, NEW w \in Workers
    PROVE  /\ Take(w) => IInv'
           /\ Move(w) => IInv'
           /\ Read(w) => IInv'
           /\ Drop(w) => IInv'
           /\ Modify(w) => IInv'
  <1>0. TypeOK /\ AskedOnce /\ OneWriter
    BY DEF IInv
  <1> USE DEF storeVars, clientVars, epollVars, loopVars, sseVars, bufVars, workerVars, Goto
  <1>1. ASSUME Take(w) PROVE IInv'
    <2>1. AskedOnce'
      BY <1>0, <1>1 DEF Take, AskedOnce
    <2>2. PICK l \in {"readLock", "gate"} : pc' = [pc EXCEPT ![w] = l]
      BY <1>1 DEF Take
    <2> QED  BY <1>0, <1>1, <2>1, <2>2, WorkerTypes, QuietWorkerKeeps DEF Take, Labels
  <1>2. ASSUME Move(w) PROVE IInv'
    <2>1. AskedOnce'
      BY <1>0, <1>2 DEF Move, AskedOnce
    <2>2. PICK l \in {"read", "writeLock", "idle", "write"} :
             pc' = [pc EXCEPT ![w] = l] /\ (l = "write" => ~ WriteHeld)
      BY <1>2 DEF Move
    <2>3. pc[w] # "erase"
      BY <1>2 DEF Move
    <2> QED  BY <1>0, <1>2, <2>1, <2>2, <2>3, WorkerTypes, QuietWorkerKeeps DEF Move, Labels
  <1>3. ASSUME Read(w) PROVE IInv'
    <2>1. AskedOnce'
      BY <1>0, <1>3 DEF Read, AskedOnce
    <2>2. pc[w] = "read" /\ pc \in [Workers -> Labels]
      BY <1>0, <1>3 DEF Read, TypeOK
    <2>3. PICK l \in {"read", "parse", "drop"} :
             pc' = [pc EXCEPT ![w] = l] /\ (l = "drop" => fin \/ ~ registered)
      <3>1. CASE pc' = pc
        BY <2>2, <3>1
      <3>2. CASE pc' # pc
        BY <1>3, <3>2 DEF Read
      <3> QED  BY <3>1, <3>2
    <2> QED  BY <1>0, <1>3, <2>1, <2>2, <2>3, WorkerTypes, QuietWorkerKeeps DEF Read, Labels
  <1>4. ASSUME Drop(w) PROVE IInv'
    <2>1. AskedOnce'
      BY <1>0, <1>4 DEF Drop, AskedOnce
    <2> QED  BY <1>0, <1>4, <2>1, WorkerTypes, QuietWorkerKeeps DEF Drop, Close, Labels
  <1>5. ASSUME Modify(w) PROVE IInv'
    <2>1. AskedOnce'
      BY <1>0, <1>5 DEF Modify, AskedOnce
    <2>2. PICK l \in {"parse", "idle"} : pc' = [pc EXCEPT ![w] = l]
      BY <1>5 DEF Modify
    <2>3. pc[w] # "erase"
      BY <1>5 DEF Modify
    <2> QED  BY <1>0, <1>5, <2>1, <2>2, <2>3, WorkerTypes, QuietWorkerKeeps DEF Modify, Labels
  <1> QED  BY <1>1, <1>2, <1>3, <1>4, <1>5

\* A new frame is newer than all the stream knows, so it is owed to nobody yet.
LEMMA ReceiveKeeps ==
    ASSUME IInv, NEW id \in Ids, Receive(id)
    PROVE  IInv'
  <1> DEFINE new == [sequence |-> next_sequence, id |-> id]
  <1> USE DEF storeVars, clientVars, epollVars, loopVars, sseVars, bufVars, workerVars
  <1>0. TypeOK /\ StoreIsWindow /\ AskedOnce /\ OneWriter /\ StreamInv /\ Append1(id)
    BY DEF IInv, StreamInv, Receive
  <1>1. TypeOK' /\ StoreIsWindow' /\ AskedOnce'
    <2>1. TypeOK'
      BY <1>0, OutsideTypes
    <2>2. StoreIsWindow'
      BY <1>0, TypedStore, AppendKeepsWindow
    <2>3. AskedOnce'
      BY <1>0 DEF Receive, AskedOnce
    <2> QED  BY <2>1, <2>2, <2>3
  <1>2. OneWriter'
    <2>1. Len(send_buf) \in Nat
      BY <1>0 DEF TypeOK
    <2> QED  BY <1>0, <2>1, OneWriterStays DEF Receive
  <1>3. Stream' = Stream /\ Events' = Events
    <2>1. Stream' = Stream
      BY <1>0, <1>2, StreamStill DEF Receive
    <2> QED  BY <2>1 DEF Events, Comment
  <1>4. /\ next_sequence' = next_sequence + 1 /\ next_sequence \in Nat \ {0}
        /\ sse_after_sequence_ \in Nat /\ start \in Nat
    BY <1>0, LimitTypes DEF Append1, TypeOK
  <1>5. \A j \in DOMAIN frames' :
           frames'[j] = new \/ \E k \in DOMAIN frames : frames'[j] = frames[k]
    BY <1>0, TypedStore, AppendedFrames
  <1>6. \A i \in Events : Stream[i].sequence \in Nat /\ Stream[i].sequence < next_sequence
    BY <1>0, EventsTyped DEF StreamInv, CursorLeads
  <1>7. \A f \in toSend : f.sequence \in Nat /\ f.sequence < next_sequence
    BY <1>0 DEF StreamInv, CursorLeads, TypeOK, Frame
  <1>8. UNCHANGED <<start, toSend, sse_active_, sse_overflow_, sse_after_sequence_>>
    BY DEF Receive
  <1>9. StreamInOrder'
    BY <1>0, <1>3, <1>8 DEF StreamInv, StreamInOrder
  <1>10. CursorLeads'
    <2>1. \A i \in Events : Stream[i].sequence < next_sequence + 1
      BY <1>4, <1>6
    <2>2. \A f \in toSend : f.sequence < next_sequence + 1
      BY <1>4, <1>7
    <2>3. sse_after_sequence_ < next_sequence => sse_after_sequence_ < next_sequence + 1
      BY <1>4
    <2> QED  BY <1>0, <1>3, <1>4, <1>8, <2>1, <2>2, <2>3 DEF StreamInv, CursorLeads
  <1>11. EventsAreFrames'
    <2>1. ASSUME NEW i \in Events, NEW j \in DOMAIN frames',
                 Stream[i].sequence = frames'[j].sequence
          PROVE  Stream[i] = frames'[j]
      <3>1. frames'[j] # new
        BY <1>4, <1>6, <2>1
      <3> QED  BY <1>0, <1>5, <2>1, <3>1 DEF StreamInv, EventsAreFrames
    <2>2. ASSUME NEW f \in toSend, NEW j \in DOMAIN frames', f.sequence = frames'[j].sequence
          PROVE  f = frames'[j]
      <3>1. frames'[j] # new
        BY <1>4, <1>7, <2>2
      <3> QED  BY <1>0, <1>5, <2>2, <3>1 DEF StreamInv, EventsAreFrames
    <2> QED  BY <1>0, <1>3, <1>8, <2>1, <2>2 DEF StreamInv, EventsAreFrames
  <1>12. NothingKeptIsPassed'
    <2> SUFFICES ASSUME NEW j \in DOMAIN frames'
                 PROVE  /\ \A i \in Events :
                              start < frames'[j].sequence /\ frames'[j].sequence <= Stream[i].sequence
                                  => Carried(frames'[j])
                        /\ /\ sse_active_ /\ ~ sse_overflow_
                           /\ start < frames'[j].sequence
                           /\ frames'[j].sequence <= sse_after_sequence_
                           => Carried(frames'[j])
                        /\ \A f \in toSend :
                              sse_after_sequence_ < frames'[j].sequence /\ frames'[j].sequence <= f.sequence
                                  => frames'[j] \in toSend
      BY <1>3, <1>8 DEF NothingKeptIsPassed, Carried
    <2>1. CASE frames'[j] = new
      <3>1. \A i \in Events : ~ (frames'[j].sequence <= Stream[i].sequence)
        BY <1>4, <1>6, <2>1
      <3>2. \A f \in toSend : ~ (frames'[j].sequence <= f.sequence)
        BY <1>4, <1>7, <2>1
      <3>3. sse_active_ => ~ (start < frames'[j].sequence /\ frames'[j].sequence <= sse_after_sequence_)
        BY <1>0, <1>4, <2>1 DEF StreamInv, CursorLeads
      <3> QED  BY <3>1, <3>2, <3>3
    <2>2. CASE frames'[j] # new
      BY <1>0, <1>5, <2>2 DEF StreamInv, NothingKeptIsPassed
    <2> QED  BY <2>1, <2>2
  <1> QED  BY <1>1, <1>2, <1>9, <1>10, <1>11, <1>12 DEF IInv

\* The pump fetches what comes next after the cursor.
LEMMA PumpKeeps ==
    ASSUME IInv, Pump
    PROVE  IInv'
  <1> DEFINE Q == QueryAfter(sse_after_sequence_, NoFilter, PumpLimit)
  <1> USE DEF storeVars, clientVars, epollVars, loopVars, sseVars, bufVars, workerVars
  <1>0. TypeOK /\ StoreIsWindow /\ AskedOnce /\ OneWriter /\ StreamInv
    BY DEF IInv, StreamInv
  <1>1. TypeOK'
    BY <1>0, LoopTypes
  <1>2. CASE toSend' = toSend
    <2>1. AskedOnce'
      BY <1>0, <1>2 DEF Pump, AskedOnce
    <2> QED  BY <1>1, <1>2, <2>1, QuietKeeps DEF Pump
  <1>3. CASE toSend' = Q /\ sse_active_ /\ ~ sse_overflow_ /\ loop' = "append"
    <2>1. AskedOnce'
      BY <1>0, <1>3 DEF Pump, AskedOnce
    <2>2. OneWriter'
      <3>1. Len(send_buf) \in Nat
        BY <1>0 DEF TypeOK
      <3> QED  BY <1>0, <3>1, OneWriterStays DEF Pump
    <2>3. StoreIsWindow'
      BY <1>0, WindowStill DEF Pump
    <2>4. Stream' = Stream /\ Events' = Events
      <3>1. Stream' = Stream
        BY <1>0, <2>2, StreamStill DEF Pump
      <3> QED  BY <3>1 DEF Events, Comment
    <2>5. ASSUME NEW f \in Q
          PROVE  \E k \in DOMAIN frames : f = frames[k] /\ frames[k].sequence > sse_after_sequence_
      BY QueryIsSound
    <2>6. UNCHANGED <<frames, next_sequence, start, sse_active_, sse_overflow_, sse_after_sequence_>>
      BY DEF Pump
    <2>7. StoreTyped
      BY <1>0, TypedStore
    <2>8. \A f \in Q : f.sequence > sse_after_sequence_ /\ f.sequence < next_sequence /\ f.sequence \in Nat
      BY <1>0, <2>5, <2>7, StoredPlace
    <2>9. \A f \in Q, j \in DOMAIN frames : f.sequence = frames[j].sequence => f = frames[j]
      BY <1>0, <2>5, <2>7, StoredPlace
    <2>10. \A f, g \in Q : f.sequence = g.sequence => f = g
      BY <2>5, <2>9
    <2>11. ASSUME NEW j \in DOMAIN frames, NEW g \in Q,
                  sse_after_sequence_ < frames[j].sequence, frames[j].sequence <= g.sequence
           PROVE  frames[j] \in Q
      <3>1. sse_after_sequence_ \in Nat /\ PumpLimit \in Nat
        BY <1>0, LimitTypes DEF TypeOK
      <3>2. Wanted(frames[j].id, NoFilter)
        BY DEF Wanted
      <3> QED  BY <1>0, <2>7, <2>11, <3>1, <3>2, QueryIsComplete
    <2> HIDE DEF Q
    <2>12. StreamInOrder'
      BY <1>0, <2>4, <2>6 DEF StreamInv, StreamInOrder
    <2>13. CursorLeads'
      <3>1. sse_after_sequence_ \in Nat /\ next_sequence \in Nat
        BY <1>0 DEF TypeOK
      <3>2. \A f \in Q : sse_after_sequence_ < f.sequence /\ f.sequence < next_sequence
        BY <2>8, <3>1
      <3> QED  BY <1>0, <1>3, <2>4, <2>6, <3>2 DEF StreamInv, CursorLeads
    <2>14. EventsAreFrames'
      BY <1>0, <1>3, <2>4, <2>6, <2>9, <2>10 DEF StreamInv, EventsAreFrames
    <2>15. NothingKeptIsPassed'
      <3> SUFFICES ASSUME NEW j \in DOMAIN frames
                   PROVE  /\ \A i \in Events :
                                start < frames[j].sequence /\ frames[j].sequence <= Stream[i].sequence
                                    => Carried(frames[j])
                          /\ /\ sse_active_ /\ ~ sse_overflow_
                             /\ start < frames[j].sequence /\ frames[j].sequence <= sse_after_sequence_
                             => Carried(frames[j])
                          /\ \A f \in Q :
                                sse_after_sequence_ < frames[j].sequence /\ frames[j].sequence <= f.sequence
                                    => frames[j] \in Q
        BY <1>3, <2>4, <2>6 DEF NothingKeptIsPassed, Carried
      <3> QED  BY <1>0, <2>11 DEF StreamInv, NothingKeptIsPassed
    <2> QED  BY <1>1, <2>1, <2>2, <2>3, <2>12, <2>13, <2>14, <2>15 DEF IInv
  <1> QED  BY <1>2, <1>3 DEF Pump

\* The buffer grows by one item that no write has taken.
LEMMA BufferGrows ==
    ASSUME TypeOK, OneWriter, TypeOK', NEW e \in Item,
           send_buf' = Append(send_buf, e), UNCHANGED <<received, sock, pc, wrote>>,
           fin => fin', registered' => registered
    PROVE  OneWriter' /\ Stream' = Append(Stream, e)
  <1>1. /\ received \in Seq(Item) /\ sock \in Seq(Item) /\ send_buf \in Seq(Item)
        /\ Taken \in 0 .. Len(send_buf)
    BY TakenInBuffer DEF TypeOK, Item
  <1>2. OneWriter'
    <2>1. Len(send_buf) <= Len(send_buf') /\ Len(send_buf') \in Nat
      BY <1>1
    <2> QED  BY <2>1, OneWriterStays
  <1>3. Taken' = Taken
    BY <1>2, TakenKept
  <1>4. Shape(Stream, received, sock, send_buf, Taken)
    BY StreamShape
  <1>5. Shape(Stream', received, sock, Append(send_buf, e), Taken)
    BY <1>2, <1>3, StreamShapeNext
  <1> QED  BY <1>1, <1>2, <1>4, <1>5, ShapeOfAppend

\* Writing and erasing carry the stream on unchanged.
LEMMA WriteKeeps ==
    ASSUME IInv, NEW w \in Workers, Write(w)
    PROVE  IInv' /\ Stream' = Stream
  <1> USE DEF storeVars, clientVars, epollVars, loopVars, sseVars, bufVars, workerVars, Goto
  <1>0. TypeOK /\ StoreIsWindow /\ AskedOnce /\ OneWriter /\ StreamInv
    BY DEF IInv, StreamInv
  <1>1. TypeOK'
    BY <1>0, WorkerTypes
  <1>2. pc[w] = "write" /\ pc \in [Workers -> Labels]
    BY <1>0 DEF Write, TypeOK
  <1>3. CASE ~ (send_buf # <<>> /\ registered /\ Room > 0)
    <2>1. PICK l \in {"writeMod", "idle"} : pc' = [pc EXCEPT ![w] = l] /\ UNCHANGED <<sock, wrote>>
      BY <1>3 DEF Write
    <2>2. AskedOnce'
      BY <1>0, <2>1 DEF Write, AskedOnce
    <2>3. registered' => registered
      BY DEF Write
    <2>4. IInv'
      BY <1>1, <1>2, <2>1, <2>2, <2>3, QuietWorkerKeeps DEF Write, Labels
    <2>5. \A v \in Workers : pc'[v] = "erase" <=> pc[v] = "erase"
      BY <1>2, <2>1
    <2> QED  BY <1>0, <2>1, <2>4, <2>5, StreamStill DEF Write, IInv
  <1>4. CASE send_buf # <<>> /\ registered /\ Room > 0
    <2>1. PICK n : /\ n = IF Room < Len(send_buf) THEN Room ELSE Len(send_buf)
                   /\ send_buf # <<>> /\ Room > 0
                   /\ sock' = sock \o SubSeq(send_buf, 1, n)
                   /\ wrote' = [wrote EXCEPT ![w] = n]
                   /\ pc' = [pc EXCEPT ![w] = "erase"]
                   /\ UNCHANGED registered
      <3>1. Room # 0
        BY <1>4
      <3> QED  BY <1>4, <3>1 DEF Write
    <2>2. /\ received \in Seq(Item) /\ sock \in Seq(Item) /\ send_buf \in Seq(Item)
          /\ Len(sock) \in Nat /\ Len(send_buf) \in Nat \ {0}
      BY <1>0, <2>1 DEF TypeOK, Item
    <2>3. n \in 1 .. Len(send_buf)
      BY <2>1, <2>2, LimitTypes DEF Room
    <2>4. \A v \in Workers : /\ pc'[v] = IF v = w THEN "erase" ELSE pc[v]
                             /\ wrote'[v] = IF v = w THEN n ELSE wrote[v]
      BY <1>0, <2>1 DEF TypeOK
    <2>5. \A v \in Workers : pc[v] # "erase"
      BY <1>0, <1>2 DEF OneWriter
    <2>6. OneWriter'
      <3>1. \A v, u \in Workers :
               {pc'[v], pc'[u]} \subseteq {"write", "erase", "writeMod"} => v = u
        BY <1>0, <1>2, <2>4 DEF OneWriter
      <3>2. \A v \in Workers : pc'[v] = "erase" => wrote'[v] \in 1 .. Len(send_buf')
        BY <2>3, <2>4, <2>5 DEF Write
      <3>3. \A v \in Workers : pc'[v] = "drop" => fin' \/ ~ registered'
        BY <1>0, <2>1, <2>4 DEF OneWriter, Write
      <3> QED  BY <3>1, <3>2, <3>3 DEF OneWriter
    <2>7. Taken = 0
      BY <1>0, <2>5, TakenIs
    <2>8. Taken' = n
      BY <2>4, <2>6, TakenIsNext
    <2>9. Shape(Stream, received, sock, send_buf, 0)
      BY <1>0, <2>7, StreamShape
    <2>10. Shape(Stream', received, sock \o SubSeq(send_buf, 1, n), send_buf, n)
      <3>1. Shape(Stream', received', sock', send_buf', Taken')
        BY <1>1, <2>6, StreamShapeNext
      <3> QED  BY <2>1, <2>8, <3>1 DEF Write
    <2>11. Stream' = Stream
      BY <2>2, <2>3, <2>9, <2>10, ShapeOfWrite
    <2>12. StreamInv'
      BY <1>0, <2>11, SameStream DEF Write
    <2>13. AskedOnce'
      <3>1. sse_active_
        BY <1>0, <2>1 DEF AskedOnce
      <3> QED  BY <1>0, <3>1 DEF Write, AskedOnce
    <2>14. StoreIsWindow'
      BY <1>0, WindowStill DEF Write
    <2> QED  BY <1>1, <2>6, <2>11, <2>12, <2>13, <2>14 DEF IInv, StreamInv
  <1> QED  BY <1>3, <1>4

LEMMA EraseKeeps ==
    ASSUME IInv, NEW w \in Workers, Erase(w)
    PROVE  IInv' /\ Stream' = Stream
  <1> USE DEF storeVars, clientVars, epollVars, loopVars, sseVars, bufVars, workerVars, Goto
  <1>0. TypeOK /\ StoreIsWindow /\ AskedOnce /\ OneWriter /\ StreamInv
    BY DEF IInv, StreamInv
  <1>1. TypeOK'
    BY <1>0, WorkerTypes
  <1>2. pc[w] = "erase" /\ pc \in [Workers -> Labels] /\ wrote \in [Workers -> Nat]
    BY <1>0 DEF Erase, TypeOK
  <1>3. /\ received \in Seq(Item) /\ sock \in Seq(Item) /\ send_buf \in Seq(Item)
        /\ wrote[w] \in 1 .. Len(send_buf) /\ Len(send_buf) \in Nat
    BY <1>0, <1>2 DEF TypeOK, Item, OneWriter
  <1>4. \A v \in Workers : pc'[v] = IF v = w THEN "write" ELSE pc[v]
    BY <1>2 DEF Erase
  <1>5. \A v \in Workers : pc'[v] # "erase"
    BY <1>0, <1>2, <1>4 DEF OneWriter
  <1>6. OneWriter'
    <2>1. \A v, u \in Workers :
             {pc'[v], pc'[u]} \subseteq {"write", "erase", "writeMod"} => v = u
      BY <1>0, <1>2, <1>4 DEF OneWriter
    <2>2. \A v \in Workers : pc'[v] = "drop" => fin' \/ ~ registered'
      BY <1>0, <1>4 DEF OneWriter, Erase
    <2> QED  BY <1>5, <2>1, <2>2 DEF OneWriter
  <1>7. Taken = wrote[w] /\ Taken' = 0
    BY <1>0, <1>2, <1>5, <1>6, TakenIs, TakenIsNext
  <1>8. Shape(Stream, received, sock, send_buf, wrote[w])
    BY <1>0, <1>7, StreamShape
  <1>9. Shape(Stream', received, sock, SubSeq(send_buf, wrote[w] + 1, Len(send_buf)), 0)
    <2>1. Shape(Stream', received', sock', send_buf', Taken')
      BY <1>1, <1>6, StreamShapeNext
    <2> QED  BY <1>7, <2>1 DEF Erase, Erased
  <1>10. Stream' = Stream
    <2>1. wrote[w] \in 0 .. Len(send_buf)
      BY <1>3
    <2> QED  BY <1>3, <1>8, <1>9, <2>1, ShapeOfErase
  <1>11. StreamInv'
    BY <1>0, <1>10, SameStream DEF Erase
  <1>12. AskedOnce'
    <2>1. sse_active_
      BY <1>0, <1>3 DEF AskedOnce
    <2> QED  BY <1>0, <2>1 DEF Erase, AskedOnce
  <1>13. StoreIsWindow'
    BY <1>0, WindowStill DEF Erase
  <1> QED  BY <1>1, <1>6, <1>10, <1>11, <1>12, <1>13 DEF IInv, StreamInv

\* The oldest frame fetched follows all that the stream has taken up.
LEMMA AppendFrameKeeps ==
    ASSUME IInv, AppendFrame
    PROVE  IInv'
  <1> USE DEF storeVars, clientVars, epollVars, loopVars, sseVars, bufVars, workerVars
  <1>0. TypeOK /\ StoreIsWindow /\ AskedOnce /\ OneWriter /\ StreamInv
    BY DEF IInv, StreamInv
  <1>1. TypeOK' /\ StoreIsWindow'
    BY <1>0, LoopTypes, WindowStill DEF AppendFrame
  <1>2. AskedOnce'
    BY <1>0 DEF AppendFrame, AfterPump, AskedOnce
  <1>3. PICK f \in toSend :
           /\ \A g \in toSend : f.sequence <= g.sequence
           /\ sse_after_sequence_' = Advanced(f)
           /\ \/ /\ send_buf' = Append(send_buf, f)
                 /\ toSend' = toSend \ {f} /\ UNCHANGED sse_overflow_
              \/ UNCHANGED send_buf /\ toSend' = {} /\ sse_overflow_' = TRUE
    BY DEF AppendFrame
  <1>4. UNCHANGED <<frames, next_sequence, start, sse_active_, received, sock, pc, wrote, fin, registered>>
    BY DEF AppendFrame
  <1>5. /\ f \in Frame /\ f \in Item /\ f # Comment /\ f.sequence \in Nat
        /\ sse_after_sequence_ \in Nat /\ next_sequence \in Nat /\ start \in Nat
        /\ \A g \in toSend : g.sequence \in Nat
    BY <1>0, CommentIsItem, LimitTypes DEF TypeOK, Frame, Item
  <1>6. sse_active_ /\ ~ sse_overflow_
    BY <1>0 DEF AskedOnce, AppendFrame
  <1>7. /\ sse_after_sequence_ < f.sequence /\ f.sequence < next_sequence
        /\ sse_after_sequence_' = f.sequence /\ start <= sse_after_sequence_
    BY <1>0, <1>3, <1>5, <1>6 DEF StreamInv, CursorLeads, Advanced
  <1>8. \A i \in Events : /\ Stream[i].sequence \in Nat /\ Stream[i].sequence <= sse_after_sequence_
                          /\ Stream[i].sequence < f.sequence
    BY <1>0, <1>5, <1>7, EventsTyped DEF StreamInv, CursorLeads
  <1>9. CASE send_buf' = Append(send_buf, f) /\ toSend' = toSend \ {f} /\ UNCHANGED sse_overflow_
    <2> DEFINE e == Len(Stream) + 1
    <2>1. OneWriter' /\ Stream' = Append(Stream, f)
      BY <1>0, <1>1, <1>4, <1>5, <1>9, BufferGrows
    <2>2. Stream \in Seq(Item)
      BY <1>0, StreamShape DEF Shape
    <2>3. /\ DOMAIN Stream' = DOMAIN Stream \cup {e} /\ Stream'[e] = f
          /\ \A i \in DOMAIN Stream : Stream'[i] = Stream[i] /\ i < e /\ i \in Nat
          /\ e \in Nat
      BY <1>5, <2>1, <2>2
    <2> HIDE DEF e
    <2>4. /\ Events' = Events \cup {e} /\ \A i \in Events : Stream'[i] = Stream[i] /\ i < e /\ i \in Nat
      BY <1>5, <2>3 DEF Events, Comment
    <2>5. StreamInOrder'
      <3>1. \A i \in Events' : Stream'[i].sequence > start
        BY <1>0, <1>4, <1>5, <1>7, <2>3, <2>4 DEF StreamInv, StreamInOrder
      <3>2. ASSUME NEW i \in Events', NEW j \in Events', i < j
            PROVE  Stream'[i].sequence < Stream'[j].sequence
        <4>1. CASE j = e
          <5>1. i \in Events
            BY <2>3, <2>4, <3>2, <4>1
          <5> QED  BY <1>8, <2>3, <2>4, <4>1, <5>1
        <4>2. CASE j # e
          <5>1. j \in Events /\ i \in Events
            BY <2>3, <2>4, <3>2, <4>2
          <5> QED  BY <1>0, <2>4, <3>2, <5>1 DEF StreamInv, StreamInOrder
        <4> QED  BY <4>1, <4>2
      <3> QED  BY <1>4, <3>1, <3>2 DEF StreamInOrder
    <2>6. CursorLeads'
      <3>1. \A i \in Events' : /\ Stream'[i].sequence <= f.sequence
                               /\ Stream'[i].sequence < next_sequence
        BY <1>5, <1>7, <1>8, <2>3, <2>4
      <3>2. ASSUME NEW g \in toSend, g # f
            PROVE  f.sequence < g.sequence /\ g.sequence < next_sequence
        <4>1. g.sequence # f.sequence
          BY <1>0, <3>2 DEF StreamInv, EventsAreFrames
        <4> QED  BY <1>0, <1>3, <1>5, <4>1 DEF StreamInv, CursorLeads
      <3>3. start <= f.sequence
        BY <1>5, <1>7
      <3> QED  BY <1>4, <1>7, <1>9, <3>1, <3>2, <3>3 DEF CursorLeads
    <2>7. EventsAreFrames'
      BY <1>0, <1>4, <1>9, <2>3, <2>4 DEF StreamInv, EventsAreFrames
    <2>8. NothingKeptIsPassed'
      <3> DEFINE Kept2(x) == \E i \in Events' : Stream'[i] = x
      <3>1. \A x : Carried(x) => Kept2(x)
        BY <2>4 DEF Carried
      <3>2. Kept2(f)
        BY <2>3, <2>4
      <3>3. ASSUME NEW j \in DOMAIN frames, start < frames[j].sequence,
                   frames[j].sequence <= f.sequence
            PROVE  Kept2(frames[j])
        <4>1. frames[j].sequence \in Nat
          BY <1>0, TypedStore, StoredPlace
        <4>2. CASE frames[j].sequence <= sse_after_sequence_
          BY <1>0, <1>6, <3>1, <3>3, <4>2 DEF StreamInv, NothingKeptIsPassed
        <4>3. CASE sse_after_sequence_ < frames[j].sequence
          <5>1. frames[j] \in toSend
            BY <1>0, <3>3, <4>3 DEF StreamInv, NothingKeptIsPassed
          <5>2. frames[j].sequence = f.sequence
            BY <1>3, <1>5, <3>3, <4>1, <5>1
          <5>3. frames[j] = f
            BY <1>0, <5>1, <5>2 DEF StreamInv, EventsAreFrames
          <5> QED  BY <3>2, <5>3
        <4> QED  BY <1>5, <4>1, <4>2, <4>3
      <3>4. ASSUME NEW j \in DOMAIN frames, NEW i \in Events',
                   start < frames[j].sequence, frames[j].sequence <= Stream'[i].sequence
            PROVE  Kept2(frames[j])
        <4>1. CASE i = e
          BY <2>3, <3>3, <3>4, <4>1
        <4>2. CASE i # e
          <5>1. i \in Events /\ Stream'[i] = Stream[i]
            BY <2>4, <4>2
          <5> QED  BY <1>0, <3>1, <3>4, <5>1 DEF StreamInv, NothingKeptIsPassed
        <4> QED  BY <4>1, <4>2
      <3>5. ASSUME NEW j \in DOMAIN frames, NEW g \in toSend \ {f},
                   f.sequence < frames[j].sequence, frames[j].sequence <= g.sequence
            PROVE  frames[j] \in toSend \ {f}
        <4>1. frames[j].sequence \in Nat
          BY <1>0, TypedStore, StoredPlace
        <4>2. sse_after_sequence_ < frames[j].sequence /\ frames[j] # f
          BY <1>5, <1>7, <3>5, <4>1
        <4> QED  BY <1>0, <3>5, <4>2 DEF StreamInv, NothingKeptIsPassed
      <3> HIDE DEF Kept2
      <3>6. \A j \in DOMAIN frames :
               /\ \A i \in Events' :
                     start < frames[j].sequence /\ frames[j].sequence <= Stream'[i].sequence
                         => Kept2(frames[j])
               /\ start < frames[j].sequence /\ frames[j].sequence <= f.sequence => Kept2(frames[j])
               /\ \A g \in toSend \ {f} :
                     f.sequence < frames[j].sequence /\ frames[j].sequence <= g.sequence
                         => frames[j] \in toSend \ {f}
        BY <3>3, <3>4, <3>5
      <3> QED  BY <1>4, <1>7, <1>9, <3>6 DEF NothingKeptIsPassed, Carried, Kept2
    <2> QED  BY <1>1, <1>2, <2>1, <2>5, <2>6, <2>7, <2>8 DEF IInv
  <1>10. CASE UNCHANGED send_buf /\ toSend' = {} /\ sse_overflow_' = TRUE
    <2>1. OneWriter'
      <3>1. Len(send_buf) \in Nat
        BY <1>0 DEF TypeOK
      <3> QED  BY <1>0, <1>4, <1>10, <3>1, OneWriterStays
    <2>2. Stream' = Stream /\ Events' = Events
      <3>1. Stream' = Stream
        BY <1>0, <1>4, <1>10, <2>1, StreamStill
      <3> QED  BY <3>1 DEF Events, Comment
    <2>3. StreamInOrder'
      BY <1>0, <1>4, <2>2 DEF StreamInv, StreamInOrder
    <2>4. CursorLeads'
      <3>1. \A i \in Events : Stream[i].sequence <= f.sequence /\ Stream[i].sequence < next_sequence
        BY <1>0, <1>5, <1>8 DEF StreamInv, CursorLeads
      <3>2. start <= f.sequence
        BY <1>5, <1>7
      <3> QED  BY <1>4, <1>7, <1>10, <2>2, <3>1, <3>2 DEF CursorLeads
    <2>5. EventsAreFrames'
      BY <1>0, <1>4, <1>10, <2>2 DEF StreamInv, EventsAreFrames
    <2>6. NothingKeptIsPassed'
      BY <1>0, <1>4, <1>10, <2>2 DEF StreamInv, NothingKeptIsPassed, Carried
    <2> QED  BY <1>1, <1>2, <2>1, <2>3, <2>4, <2>5, <2>6 DEF IInv
  <1> QED  BY <1>3, <1>9, <1>10

LEMMA HeartbeatKeeps ==
    ASSUME IInv, Heartbeat
    PROVE  IInv'
  <1> USE DEF storeVars, clientVars, epollVars, loopVars, sseVars, bufVars, workerVars
  <1>0. TypeOK /\ StoreIsWindow /\ AskedOnce /\ OneWriter /\ StreamInv
    BY DEF IInv, StreamInv
  <1>1. TypeOK' /\ StoreIsWindow'
    BY <1>0, LoopTypes, WindowStill DEF Heartbeat
  <1>2. AskedOnce'
    BY <1>0 DEF Heartbeat, AfterPump, AskedOnce
  <1>3. CASE send_buf' = Append(send_buf, Comment)
    <2>1. OneWriter' /\ Stream' = Append(Stream, Comment)
      BY <1>0, <1>1, <1>3, BufferGrows, CommentIsItem DEF Heartbeat
    <2>2. StreamInv'
      BY <1>0, <2>1, CommentAtEnd DEF Heartbeat
    <2> QED  BY <1>1, <1>2, <2>1, <2>2 DEF IInv, StreamInv
  <1>4. CASE send_buf' = send_buf
    <2>1. OneWriter'
      <3>1. Len(send_buf) \in Nat
        BY <1>0 DEF TypeOK
      <3> QED  BY <1>0, <1>4, <3>1, OneWriterStays DEF Heartbeat
    <2>2. Stream' = Stream
      BY <1>0, <1>4, <2>1, StreamStill DEF Heartbeat
    <2>3. StreamInv'
      BY <1>0, <2>2, SameStream DEF Heartbeat
    <2> QED  BY <1>1, <1>2, <2>1, <2>3 DEF IInv, StreamInv
  <1> QED  BY <1>3, <1>4 DEF Heartbeat

\* The stream begins with nothing in it, from where the client asked.
LEMMA ParseKeeps ==
    ASSUME IInv, NEW w \in Workers, Parse(w)
    PROVE  IInv'
  <1> USE DEF storeVars, clientVars, epollVars, loopVars, sseVars, bufVars, workerVars
  <1>0. TypeOK /\ StoreIsWindow /\ AskedOnce /\ OneWriter /\ StreamInv
    BY DEF IInv, StreamInv
  <1>1. TypeOK' /\ StoreIsWindow'
    BY <1>0, WorkerTypes, WindowStill DEF Parse
  <1>2. AskedOnce'
    BY <1>0 DEF Parse, AskedOnce
  <1>3. pc[w] = "parse" /\ pc \in [Workers -> Labels]
    BY <1>0 DEF Parse, TypeOK
  <1>4. CASE ~ recv_buf
    <2>1. pc' = [pc EXCEPT ![w] = "gate"]
      BY <1>4 DEF Parse, Goto
    <2> QED  BY <1>1, <1>2, <1>3, <1>4, <2>1, QuietWorkerKeeps DEF Parse, Labels
  <1>5. CASE recv_buf
    <2>1. /\ send_buf = <<>> /\ sock = <<>> /\ received = <<>> /\ ~ sse_active_
          /\ loop # "append" /\ toSend = {}
      BY <1>0, <1>5 DEF AskedOnce
    <2>2. /\ pc' = [pc EXCEPT ![w] = "readMod"] /\ send_buf' = Append(send_buf, Comment)
          /\ sse_after_sequence_' = start /\ sse_active_' = TRUE
          /\ UNCHANGED <<received, sock, toSend, wrote, frames, next_sequence, start, sse_overflow_>>
          /\ UNCHANGED <<fin, registered>>
      BY <1>5 DEF Parse, Goto
    <2>3. \A v \in Workers : pc[v] # "erase"
      BY <1>0, <2>1 DEF OneWriter
    <2>4. \A v \in Workers : pc'[v] = IF v = w THEN "readMod" ELSE pc[v]
      BY <1>3, <2>2
    <2>5. OneWriter'
      <3>1. \A v, u \in Workers :
               {pc'[v], pc'[u]} \subseteq {"write", "erase", "writeMod"} => v = u
        BY <1>0, <2>4 DEF OneWriter
      <3>2. \A v \in Workers : pc'[v] # "erase"
        BY <2>3, <2>4
      <3>3. \A v \in Workers : pc'[v] = "drop" => fin' \/ ~ registered'
        BY <1>0, <2>2, <2>4 DEF OneWriter
      <3> QED  BY <3>1, <3>2, <3>3 DEF OneWriter
    <2>6. Taken' = 0
      BY <2>3, <2>4, <2>5, TakenIsNext
    <2>7. Stream' \in Seq(Item) /\ Len(Stream') = 1 /\ Stream'[1] = Comment
      <3>1. Shape(Stream', <<>>, <<>>, send_buf', 0)
        BY <1>1, <2>1, <2>2, <2>5, <2>6, StreamShapeNext
      <3>2. Len(send_buf') = 1 /\ send_buf'[1] = Comment
        BY <2>1, <2>2
      <3>3. Stream' \in Seq(Item) /\ Len(Stream') = 1
        BY <3>1, <3>2 DEF Shape
      <3>4. Stream'[Len(<<>>) + Len(<<>>) + 1] = send_buf'[0 + 1]
        BY <3>1, <3>2 DEF Shape
      <3> QED  BY <3>2, <3>3, <3>4
    <2>8. Events' = {}
      BY <2>7 DEF Events, Comment
    <2>9. start \in Nat
      BY <1>0, LimitTypes DEF TypeOK
    <2>10. StreamInOrder' /\ CursorLeads' /\ EventsAreFrames'
      BY <2>1, <2>2, <2>8, <2>9 DEF StreamInOrder, CursorLeads, EventsAreFrames
    <2>11. NothingKeptIsPassed'
      <3>1. \A j \in DOMAIN frames : frames[j].sequence \in Nat
        BY <1>0, TypedStore, StoredPlace
      <3>2. \A j \in DOMAIN frames : ~ (start < frames[j].sequence /\ frames[j].sequence <= start)
        BY <2>9, <3>1
      <3> QED  BY <2>1, <2>2, <2>8, <3>2 DEF NothingKeptIsPassed
    <2> QED  BY <1>1, <1>2, <2>5, <2>10, <2>11 DEF IInv
  <1> QED  BY <1>4, <1>5

\* The client reads an event of the stream, or a comment that leaves it.
LEMMA ReadEventsKeeps ==
    ASSUME IInv, ReadEvents
    PROVE  /\ IInv'
           /\ Head(sock) # Comment => Stream' = Stream
  <1> USE DEF storeVars, clientVars, epollVars, loopVars, sseVars, bufVars, workerVars
  <1>0. TypeOK /\ StoreIsWindow /\ AskedOnce /\ OneWriter /\ StreamInv
    BY DEF IInv, StreamInv
  <1>1. TypeOK' /\ StoreIsWindow'
    BY <1>0, OutsideTypes, WindowStill DEF ReadEvents
  <1>2. AskedOnce'
    <2>1. sse_active_
      BY <1>0 DEF ReadEvents, AskedOnce
    <2> QED  BY <1>0, <2>1 DEF ReadEvents, AskedOnce
  <1>3. OneWriter'
    <2>1. Len(send_buf) \in Nat
      BY <1>0 DEF TypeOK
    <2> QED  BY <1>0, <2>1, OneWriterStays DEF ReadEvents
  <1>4. Taken' = Taken /\ Taken \in 0 .. Len(send_buf)
    BY <1>0, <1>3, TakenKept, TakenInBuffer DEF ReadEvents
  <1>5. /\ received \in Seq(Item) /\ sock \in Seq(Item) /\ send_buf \in Seq(Item) /\ sock # <<>>
        /\ Len(received) \in Nat
    BY <1>0 DEF TypeOK, Item, ReadEvents
  <1>6. Shape(Stream, received, sock, send_buf, Taken)
    BY <1>0, StreamShape
  <1>7. Shape(Stream', received', Tail(sock), send_buf, Taken)
    BY <1>1, <1>3, <1>4, StreamShapeNext DEF ReadEvents
  <1>8. CASE Head(sock) # Comment
    <2>1. Shape(Stream', Append(received, Head(sock)), Tail(sock), send_buf, Taken)
      BY <1>7, <1>8 DEF ReadEvents
    <2>2. Stream' = Stream
      BY <1>4, <1>5, <1>6, <2>1, ShapeOfRead
    <2>3. StreamInv'
      BY <1>0, <2>2, SameStream DEF ReadEvents
    <2> QED  BY <1>1, <1>2, <1>3, <2>2, <2>3 DEF IInv, StreamInv
  <1>9. CASE Head(sock) = Comment
    <2> DEFINE r == Len(received)
               m == [i \in Events' |-> IF i <= r THEN i ELSE i + 1]
    <2>1. Shape(Stream', received, Tail(sock), send_buf, Taken)
      BY <1>7, <1>9 DEF ReadEvents
    <2>2. /\ Len(Stream) = Len(Stream') + 1 /\ Stream[r + 1] = Comment /\ r + 1 \in 1 .. Len(Stream)
          /\ \A i \in 1 .. Len(Stream') : Stream'[i] = Stream[IF i <= r THEN i ELSE i + 1]
      BY <1>4, <1>5, <1>6, <1>9, <2>1, ShapeOfSkip
    <2>3. /\ DOMAIN Stream = 1 .. Len(Stream) /\ DOMAIN Stream' = 1 .. Len(Stream')
          /\ Len(Stream) \in Nat /\ Len(Stream') \in Nat /\ r \in Nat
      BY <1>5, <1>6, <2>1 DEF Shape
    <2> HIDE DEF r
    <2>4. \A i \in Events' : /\ i \in 1 .. Len(Stream') /\ i \in Nat
                             /\ (IF i <= r THEN i ELSE i + 1) \in Events
      BY <2>2, <2>3 DEF Events, Comment
    <2>5. m \in [Events' -> Events]
      BY <2>4
    <2>6. \A i \in Events' : m[i] = IF i <= r THEN i ELSE i + 1
      OBVIOUS
    <2> HIDE DEF m
    <2>7. \A i, j \in Events' : i < j => m[i] < m[j]
      BY <2>3, <2>4, <2>6
    <2>8. \A i \in Events' : Stream'[i] = Stream[m[i]]
      BY <2>2, <2>4, <2>6
    <2>9. ASSUME NEW i \in Events PROVE \E j \in Events' : m[j] = i
      <3>1. i \in 1 .. Len(Stream) /\ i \in Nat /\ i # r + 1 /\ Stream[i] # Comment
        BY <2>2, <2>3 DEF Events
      <3>2. CASE i <= r
        <4>1. i \in 1 .. Len(Stream') /\ Stream'[i] = Stream[i]
          BY <2>2, <2>3, <3>1, <3>2
        <4>2. i \in Events'
          BY <2>3, <3>1, <4>1 DEF Events, Comment
        <4> QED  BY <2>6, <3>2, <4>2
      <3>3. CASE ~ (i <= r)
        <4>1. i - 1 \in 1 .. Len(Stream') /\ ~ (i - 1 <= r) /\ (i - 1) + 1 = i
          BY <2>2, <2>3, <3>1, <3>3
        <4>2. Stream'[i - 1] = Stream[i]
          BY <2>2, <4>1
        <4>3. i - 1 \in Events'
          BY <2>3, <3>1, <4>1, <4>2 DEF Events, Comment
        <4> QED  BY <2>6, <4>1, <4>3
      <3> QED  BY <3>2, <3>3
    <2>10. StreamInv'
      BY <1>0, <2>5, <2>7, <2>8, <2>9, SameEvents DEF ReadEvents
    <2> QED  BY <1>1, <1>2, <1>3, <1>9, <2>10 DEF IInv, StreamInv
  <1> QED  BY <1>8, <1>9

LEMMA InitIInv == Init => IInv
  <1> SUFFICES ASSUME Init PROVE IInv
    OBVIOUS
  <1> USE DEF Init, StoreInit
  <1>1. TypeOK
    <2>1. frames \in Seq(Frame) /\ received \in Seq(Frame) /\ task_queue \in Seq(SUBSET InOut)
      OBVIOUS
    <2>2. /\ sock \in Seq(Item) /\ Len(sock) <= SocketRoom
          /\ send_buf \in Seq(Item) /\ Len(send_buf) <= MaxPending
      BY LimitTypes
    <2>3. pc \in [Workers -> Labels] /\ revents \in [Workers -> SUBSET InOut] /\ wrote \in [Workers -> Nat]
      BY DEF Labels
    <2>4. interest \subseteq InOut /\ batch \subseteq InOut /\ toSend \subseteq Frame
      BY DEF In, InOut
    <2>5. /\ next_sequence \in Nat \ {0} /\ total_appended \in Nat /\ overwritten \in Nat
          /\ start \in Starts /\ sse_after_sequence_ \in Nat
          /\ loop \in {"wait", "timedOut", "dispatch", "append", "arm", "overflow", "events"}
      OBVIOUS
    <2>6. /\ asked \in BOOLEAN /\ unread \in BOOLEAN /\ fin \in BOOLEAN /\ ready \in BOOLEAN
          /\ registered \in BOOLEAN /\ appended \in BOOLEAN /\ recv_buf \in BOOLEAN
          /\ sse_active_ \in BOOLEAN /\ sse_overflow_ \in BOOLEAN /\ beatDue \in BOOLEAN
      OBVIOUS
    <2> HIDE DEF Init, StoreInit
    <2> QED  BY <2>1, <2>2, <2>3, <2>4, <2>5, <2>6 DEF TypeOK
  <1>2. StoreIsWindow
    BY CapacityAssumption DEF StoreIsWindow
  <1>3. AskedOnce
    BY DEF AskedOnce
  <1>4. OneWriter
    BY DEF OneWriter
  <1>5. Events = {}
    <2>1. Shape(Stream, <<>>, <<>>, <<>>, Taken)
      BY <1>1, <1>4, StreamShape
    <2>2. Taken = 0
      BY <1>4, TakenIs
    <2>3. Stream \in Seq(Item) /\ Len(Stream) = 0
      BY <2>1, <2>2 DEF Shape
    <2> QED  BY <2>3 DEF Events
  <1>6. StreamInOrder /\ CursorLeads /\ EventsAreFrames /\ NothingKeptIsPassed
    BY <1>5 DEF StreamInOrder, CursorLeads, EventsAreFrames, NothingKeptIsPassed
  <1> QED  BY <1>1, <1>2, <1>3, <1>4, <1>6 DEF IInv

LEMMA NextPreserves == IInv /\ [Next]_vars => IInv'
  <1> SUFFICES ASSUME IInv, [Next]_vars PROVE IInv'
    OBVIOUS
  <1>1. ASSUME LoopStep PROVE IInv'
    BY <1>1, QuietSteps, PumpKeeps, AppendFrameKeeps, HeartbeatKeeps DEF LoopStep
  <1>2. ASSUME NEW w \in Workers, WorkerStep(w) PROVE IInv'
    BY <1>2, QuietWorkerSteps, ParseKeeps, WriteKeeps, EraseKeeps DEF WorkerStep
  <1> QED  BY <1>1, <1>2, QuietSteps, ReceiveKeeps, ReadEventsKeeps DEF Next

LEMMA Invariance == Spec => []IInv
  <1>1. Init => IInv
    BY InitIInv
  <1>2. IInv /\ [Next]_vars => IInv'
    BY NextPreserves
  <1> QED  BY <1>1, <1>2, PTL DEF Spec

-----------------------------------------------------------------------------
(* The theorems.                                                           *)

\* Every variable keeps its type, and the send buffer never holds more than
\* kMaxSsePendingBytes.
THEOREM TypeCorrect == Spec => []TypeOK
  <1>1. IInv => TypeOK
    BY DEF IInv
  <1> QED  BY <1>1, Invariance, PTL

\* pumpSse and handleWrite between them: each frame once, in order, and newer
\* than what the client asked from.
THEOREM StreamStaysInOrder == Spec => []StreamInOrder
  <1>1. IInv => StreamInOrder
    BY DEF IInv
  <1> QED  BY <1>1, Invariance, PTL

\* The timer spares a stream, and a full socket never ends one.
THEOREM EndsOnlyForReason == Spec => EndsForReason
  <1> DEFINE Reason ==
        /\ registered /\ ~ registered' => fin \/ sse_overflow_ \/ loop = "timedOut"
        /\ loop # "timedOut" /\ loop' = "timedOut" => ~ sse_active_
  <1>1. IInv /\ [Next]_vars => [Reason]_vars
    <2> SUFFICES ASSUME IInv, Next PROVE Reason
      OBVIOUS
    <2> USE DEF epollVars, loopVars
    <2>1. ASSUME NEW id \in Ids, Receive(id) PROVE Reason
      BY <2>1 DEF Receive
    <2>2. ASSUME Clock \/ Ask \/ ReadEvents \/ Leave PROVE Reason
      BY <2>2 DEF Clock, Ask, ReadEvents, Leave
    <2>3. ASSUME EpollWait \/ TimedOut \/ Pump \/ AppendFrame PROVE Reason
      BY <2>3 DEF EpollWait, Spared, TimedOut, Pump, AppendFrame, AfterPump
    <2>4. ASSUME Heartbeat \/ ArmStream \/ CloseOverflowed \/ HandleEvents PROVE Reason
      BY <2>4 DEF Heartbeat, AfterPump, ArmStream, CloseOverflowed, HandleEvents
    <2>5. ASSUME NEW w \in Workers, Drop(w) PROVE Reason
      BY <2>5 DEF Drop, IInv, OneWriter
    <2>6. ASSUME NEW w \in Workers, Take(w) \/ Move(w) \/ Read(w) \/ Parse(w) PROVE Reason
      BY <2>6 DEF Take, Move, Read, Parse
    <2>7. ASSUME NEW w \in Workers, Modify(w) \/ Write(w) \/ Erase(w) PROVE Reason
      BY <2>7 DEF Modify, Write, Erase
    <2> HIDE DEF Reason
    <2>8. ASSUME LoopStep PROVE Reason
      BY <2>3, <2>4, <2>8 DEF LoopStep
    <2>9. ASSUME NEW w \in Workers, WorkerStep(w) PROVE Reason
      BY <2>5, <2>6, <2>7, <2>9 DEF WorkerStep
    <2> QED  BY <2>1, <2>2, <2>8, <2>9 DEF Next
  <1> QED  BY <1>1, Invariance, PTL DEF Spec, EndsForReason

-----------------------------------------------------------------------------
(* The stream is a reader of the sliding log.                              *)

\* A frame stored is a frame published.
LEMMA ReceivePublishes ==
    ASSUME IInv, NEW id \in Ids, Receive(id)
    PROVE  Log!Publish(id)
  <1>1. StoreTyped /\ StoreIsWindow /\ Append1(id)
    BY TypedStore DEF IInv, Receive
  <1>2. /\ next_sequence' - 1 = (next_sequence - 1) + 1
        /\ Stored' = [n \in {t \in DOMAIN Stored \cup {(next_sequence - 1) + 1} :
                                t + Capacity > (next_sequence - 1) + 1}
                         |-> IF n = (next_sequence - 1) + 1 THEN id ELSE Stored[n]]
    BY <1>1, AppendSlides
  <1>3. UNCHANGED <<start, received>>
    BY DEF Receive, clientVars
  <1> QED  BY <1>2, <1>3 DEF Log!Publish, Stored

\* An event read is the next one: what the store still has before it is read.
LEMMA ReadAdvances ==
    ASSUME IInv, ReadEvents, Head(sock) # Comment
    PROVE  Log!Advance
  <1> DEFINE f == Head(sock)
             k == Len(received) + 1
             position == IF received = <<>> THEN 0 ELSE received[Len(received)].sequence
             seen == {received[i] : i \in DOMAIN received}
  <1>0. /\ TypeOK /\ StoreIsWindow /\ OneWriter /\ StreamInOrder /\ CursorLeads
        /\ EventsAreFrames /\ NothingKeptIsPassed /\ StoreTyped
    BY TypedStore DEF IInv
  <1>1. /\ UNCHANGED <<storeVars, start>> /\ received' = Append(received, f) /\ sock # <<>>
    BY DEF ReadEvents
  <1>2. /\ f \in Frame /\ received \in Seq(Frame) /\ sock \in Seq(Item) /\ f = sock[1]
        /\ Len(received) \in Nat /\ Len(sock) \in Nat \ {0} /\ next_sequence \in Nat \ {0}
        /\ start \in Nat
    BY <1>0, <1>1, LimitTypes DEF TypeOK, Item
  <1>3. /\ k \in Nat /\ k \in 1 .. Len(Stream) /\ Stream[k] = f
        /\ DOMAIN Stream = 1 .. Len(Stream) /\ Len(Stream) \in Nat
        /\ \A i \in 1 .. Len(received) : Stream[i] = received[i] /\ i \in 1 .. Len(Stream)
    <2>1. Shape(Stream, received, sock, send_buf, Taken)
      BY <1>0, StreamShape
    <2>2. Taken \in 0 .. Len(send_buf) /\ Len(send_buf) \in Nat
      BY <1>0, TakenInBuffer DEF TypeOK
    <2>3. Len(Stream) \in Nat /\ Len(Stream) >= k
      BY <1>2, <2>1, <2>2 DEF Shape
    <2>4. Stream[Len(received) + 1] = sock[1] /\ 1 \in 1 .. Len(sock)
      BY <1>2, <2>1 DEF Shape
    <2>5. DOMAIN Stream = 1 .. Len(Stream)
      BY <2>1 DEF Shape
    <2>6. \A i \in 1 .. Len(received) : Stream[i] = received[i] /\ i \in 1 .. Len(Stream)
      BY <1>2, <2>1, <2>3 DEF Shape
    <2> QED  BY <1>2, <2>3, <2>4, <2>5, <2>6
  <1>4. k \in Events /\ f.sequence \in Nat \ {0}
    BY <1>2, <1>3 DEF Events, Frame
  <1>5. /\ received' \in Seq(Frame) /\ Len(received') = k /\ received' # <<>>
        /\ received'[k] = f /\ DOMAIN received' = 1 .. k
        /\ \A i \in 1 .. Len(received) : received'[i] = received[i]
    BY <1>1, <1>2
  <1>6. position' = f.sequence
    BY <1>5
  <1>7. seen' = seen \cup {f}
    <2>1. DOMAIN received = 1 .. Len(received) /\ DOMAIN received' = (1 .. Len(received)) \cup {k}
      BY <1>2, <1>5
    <2> HIDE DEF f, k
    <2>2. ASSUME NEW i \in DOMAIN received' PROVE received'[i] \in seen \cup {f}
      BY <1>5, <2>1, <2>2
    <2>3. ASSUME NEW i \in DOMAIN received PROVE received[i] \in seen'
      BY <1>5, <2>1, <2>3
    <2>4. f \in seen'
      BY <1>5, <2>1
    <2> QED  BY <2>2, <2>3, <2>4
  <1>8. position' \in position .. (next_sequence - 1)
    <2>1. f.sequence <= next_sequence - 1
      BY <1>0, <1>2, <1>3, <1>4 DEF CursorLeads
    <2>2. CASE received = <<>>
      BY <1>2, <1>4, <1>6, <2>1, <2>2
    <2>3. CASE received # <<>>
      <3>1. Len(received) \in 1 .. Len(received) /\ Len(received) < k
        BY <1>2, <2>3
      <3>2. received[Len(received)] \in Frame /\ Stream[Len(received)] = received[Len(received)]
        BY <1>2, <1>3, <3>1
      <3>3. Len(received) \in Events
        BY <1>3, <3>1, <3>2, CommentIsItem DEF Events
      <3>4. received[Len(received)].sequence < f.sequence /\ received[Len(received)].sequence \in Nat
        BY <1>0, <1>3, <1>4, <3>1, <3>2, <3>3 DEF StreamInOrder, Frame
      <3> QED  BY <1>2, <1>4, <1>6, <2>1, <2>3, <3>4
    <2> QED  BY <2>2, <2>3
  <1>9. \A n \in DOMAIN Stored : /\ n - overwritten \in DOMAIN frames
                                 /\ frames[n - overwritten] = [sequence |-> n, id |-> Stored[n]]
    BY <1>0, StoredPlace
  <1>10. f.sequence \in 1 .. (next_sequence - 1)
    BY <1>0, <1>2, <1>3, <1>4 DEF CursorLeads
  <1>11. ASSUME f.sequence \in DOMAIN Stored PROVE f.id = Stored[f.sequence]
    <2> DEFINE n == f.sequence
               j == n - overwritten
    <2>1. j \in DOMAIN frames /\ frames[j] = [sequence |-> n, id |-> Stored[n]]
      BY <1>9, <1>11
    <2>2. frames[j].sequence = n /\ frames[j].id = Stored[n]
      BY <2>1
    <2> HIDE DEF j
    <2>3. f = frames[j]
      BY <1>0, <1>3, <1>4, <2>1, <2>2 DEF EventsAreFrames
    <2> QED  BY <2>2, <2>3
  <1>12. ASSUME NEW n \in DOMAIN Stored, start < n, n <= f.sequence
         PROVE  [sequence |-> n, id |-> Stored[n]] \in seen'
    <2> DEFINE j == n - overwritten
    <2>1. j \in DOMAIN frames /\ frames[j] = [sequence |-> n, id |-> Stored[n]] /\ frames[j].sequence = n
      BY <1>9
    <2>2. n \in Nat
      BY <1>0, <2>1, StoredPlace
    <2> HIDE DEF j
    <2>3. PICK i \in Events : Stream[i] = frames[j]
      BY <1>0, <1>3, <1>4, <1>12, <2>1 DEF NothingKeptIsPassed, Carried
    <2>4. i \in Nat /\ i \in 1 .. Len(Stream)
      BY <1>3 DEF Events
    <2>5. ~ (k < i)
      <3>1. k < i => f.sequence < n
        BY <1>0, <1>3, <1>4, <2>1, <2>3 DEF StreamInOrder
      <3> QED  BY <1>4, <1>12, <2>2, <3>1
    <2>6. i \in 1 .. k
      BY <1>3, <2>4, <2>5
    <2>7. received'[i] = frames[j]
      <3>1. CASE i = k
        BY <1>3, <1>5, <2>3, <3>1
      <3>2. CASE i # k
        <4>1. i \in 1 .. Len(received)
          BY <1>2, <2>6, <3>2
        <4> QED  BY <1>3, <1>5, <2>3, <4>1
      <3> QED  BY <3>1, <3>2
    <2> QED  BY <1>5, <2>1, <2>6, <2>7
  <1>13. Stored' = Stored /\ UNCHANGED <<next_sequence - 1, start>>
    BY <1>1 DEF storeVars, Stored
  <1> HIDE DEF f, k
  <1>14. /\ seen \subseteq seen'
         /\ \A g \in seen' \ seen : /\ g.sequence \in 1 .. (next_sequence - 1)
                                    /\ g.sequence \in DOMAIN Stored => g.id = Stored[g.sequence]
    BY <1>7, <1>10, <1>11
  <1>15. \A n \in {t \in DOMAIN Stored :
                      start < t /\ t <= position' /\ (NoFilter = NoFilter \/ Stored[t] = NoFilter)} :
            [sequence |-> n, id |-> Stored[n]] \in seen'
    BY <1>6, <1>12
  <1> QED  BY <1>8, <1>13, <1>14, <1>15 DEF Log!Advance, Log!Owed, Log!Entry, Stored

\* The store and one event stream implement the sliding log and its reader,
\* under the mapping given with the instance Log.
THEOREM ImplementsLog == Spec => LogSpec
  <1>1. Init => Log!Init
    <2> SUFFICES ASSUME Init PROVE Log!Init
      OBVIOUS
    <2>1. next_sequence - 1 = 0 /\ frames = <<>> /\ received = <<>> /\ start \in Nat
      BY LimitTypes DEF Init, StoreInit
    <2>2. {frames[i].sequence : i \in DOMAIN frames} = {} /\ {received[i] : i \in DOMAIN received} = {}
      BY <2>1
    <2>3. [n \in {frames[i].sequence : i \in DOMAIN frames} |-> frames[n - overwritten].id]
             = [n \in {} |-> NoFilter]
      BY <2>2
    <2> QED  BY <2>1, <2>2, <2>3 DEF Log!Init
  <1>2. IInv /\ [Next]_vars => [Log!Next]_Log!vars
    <2> SUFFICES ASSUME IInv, [Next]_vars PROVE Log!Next \/ UNCHANGED Log!vars
      OBVIOUS
    <2>0. ASSUME UNCHANGED <<storeVars, start, received>> PROVE UNCHANGED Log!vars
      BY <2>0 DEF storeVars, Log!vars
    <2>1. ASSUME NEW id \in Ids, Receive(id) PROVE Log!Next
      BY <2>1, ReceivePublishes DEF Log!Next
    <2>2. ASSUME ReadEvents PROVE Log!Next \/ UNCHANGED <<storeVars, start, received>>
      <3>1. CASE Head(sock) = Comment
        BY <2>2, <3>1 DEF ReadEvents
      <3>2. CASE Head(sock) # Comment
        BY <2>2, <3>2, ReadAdvances DEF Log!Next
      <3> QED  BY <3>1, <3>2
    <2>3. ASSUME Clock \/ Ask \/ Leave PROVE UNCHANGED <<storeVars, start, received>>
      BY <2>3 DEF Clock, Ask, Leave, clientVars
    <2>4. ASSUME LoopStep PROVE UNCHANGED <<storeVars, start, received>>
      BY <2>4 DEF LoopStep, EpollWait, TimedOut, Pump, AppendFrame, Heartbeat, ArmStream,
                  CloseOverflowed, HandleEvents, clientVars
    <2>5. ASSUME NEW w \in Workers, WorkerStep(w) PROVE UNCHANGED <<storeVars, start, received>>
      BY <2>5 DEF WorkerStep, Take, Move, Read, Drop, Parse, Modify, Write, Erase, clientVars
    <2>6. ASSUME UNCHANGED vars PROVE UNCHANGED <<storeVars, start, received>>
      BY <2>6 DEF vars, clientVars
    <2> QED  BY <2>0, <2>1, <2>2, <2>3, <2>4, <2>5, <2>6 DEF Next
  <1> QED  BY <1>1, <1>2, Invariance, PTL DEF Spec, Log!Spec, LogSpec

=============================================================================
