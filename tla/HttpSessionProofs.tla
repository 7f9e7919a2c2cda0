------------------------- MODULE HttpSessionProofs -------------------------
(***************************************************************************)
(* HttpSession for any number of connections, workers and any sessions.    *)
(* The timers: an armed timer has its entry in the heap, and a connection  *)
(* the timer closes has been idle for a whole time-out.  The requests: the *)
(* texts handleRead cuts off are the client's messages, each once and in   *)
(* order, up to the first that is malformed; after it a header is still    *)
(* worth one request at most.                                              *)
(***************************************************************************)
EXTENDS HttpSession, NatRecursion, FiniteSetTheorems, TLAPS

USE ConnsAssumption, TimeoutAssumption

LEMMA InitIInv == Init => IInv
  BY DEF Init, TimerInit, IInv, TimerTypes, HeapCoversMap, TimesMatch

\* What the invariant is about.
idleVars == <<timerVars, lastEvent, expired, loop, found>>

LEMMA UntouchedIInv == ASSUME IInv, UNCHANGED idleVars PROVE IInv'
  BY DEF idleVars, timerVars, IInv, TimerTypes, HeapCoversMap, TimesMatch, Entry

\* Arming the timer and noting the time go together.
LEMMA AddTimerIInv ==
    ASSUME IInv, NEW c \in Conns, AddTimer(c), clock' = clock, expired = {}, expired' = {},
           lastEvent' = [lastEvent EXCEPT ![c] = clock],
           loop' \in {"events", "update"}, loop' = "update" => found' \in Conns
    PROVE  IInv'
<1> DEFINE e == Entry(c, clock + Timeout)
<1>1. /\ heap_' = heap_ \cup {e}
      /\ fd_expire_map_' = [fd_expire_map_ EXCEPT ![c] = clock + Timeout]
  BY DEF AddTimer
<1>2. e \in [fd : Conns, expire_time : Nat \ {0}] /\ e.expire_time = clock + Timeout
  BY DEF IInv, TimerTypes, Entry
<1>3. TimerTypes'
  BY <1>1, <1>2 DEF IInv, TimerTypes
<1>4. HeapCoversMap'
  <2>1. ASSUME NEW fd \in Conns, fd_expire_map_'[fd] # 0
        PROVE  Entry(fd, fd_expire_map_'[fd]) \in heap_'
    BY <1>1, <2>1 DEF IInv, TimerTypes, HeapCoversMap, Entry
  <2>2. ASSUME NEW d \in heap_' PROVE d.expire_time <= clock' + Timeout
    BY <1>1, <1>2, <2>2 DEF IInv, TimerTypes, HeapCoversMap
  <2>3. QED
    BY <2>1, <2>2 DEF HeapCoversMap, Entry
<1>5. TimesMatch'
  BY <1>1 DEF IInv, TimerTypes, TimesMatch
<1>6. QED
  BY <1>3, <1>4, <1>5 DEF IInv

\* removeEvent only disarms.
LEMMA RemoveEventIInv ==
    ASSUME IInv, NEW c \in Conns, RemoveEvent(c), clock' = clock, expired' \subseteq expired,
           UNCHANGED <<lastEvent, loop, found>>
    PROVE  IInv'
<1>1. heap_' = heap_ /\ (fd_expire_map_' = fd_expire_map_
                         \/ fd_expire_map_' = [fd_expire_map_ EXCEPT ![c] = 0])
  BY DEF RemoveEvent, RemoveTimer
<1>2. TimerTypes'
  BY <1>1 DEF IInv, TimerTypes
<1>3. HeapCoversMap'
  BY <1>1 DEF IInv, TimerTypes, HeapCoversMap, Entry
<1>4. TimesMatch'
  BY <1>1 DEF IInv, TimerTypes, TimesMatch
<1>5. QED
  BY <1>2, <1>3, <1>4 DEF IInv

\* A number tick returns had the time the map gives, and the time has come.
LEMMA ExpiringIsDue ==
    ASSUME IInv
    PROVE  /\ Expiring \subseteq Conns
           /\ \A c \in Expiring : clock >= lastEvent[c] + Timeout
<1>1. ASSUME NEW e \in heap_, e.expire_time <= clock, fd_expire_map_[e.fd] = e.expire_time
      PROVE  e.fd \in Conns /\ clock >= lastEvent[e.fd] + Timeout
  <2>1. e.fd \in Conns /\ e.expire_time \in Nat \ {0}
    BY <1>1 DEF IInv, TimerTypes
  <2>2. fd_expire_map_[e.fd] = lastEvent[e.fd] + Timeout
    BY <1>1, <2>1 DEF IInv, TimesMatch
  <2>3. QED
    BY <1>1, <2>1, <2>2
<1>2. QED
  BY <1>1 DEF Expiring, DueEntries, Matches

LEMMA EpollWaitIInv == ASSUME IInv, EpollWait PROVE IInv'
<1>1. /\ heap_' = heap_ \ DueEntries
      /\ fd_expire_map_' = [fd \in Conns |-> IF fd \in Expiring THEN 0 ELSE fd_expire_map_[fd]]
      /\ expired' = Expiring
      /\ loop = "events" /\ UNCHANGED <<clock, lastEvent, loop, found>>
  BY DEF EpollWait, TickTimers
<1>2. TimerTypes'
  BY <1>1, ExpiringIsDue DEF IInv, TimerTypes
<1>3. HeapCoversMap'
  \* An entry that is due is gone, but then the map's entry is gone with it.
  <2>1. ASSUME NEW fd \in Conns, fd_expire_map_'[fd] # 0
        PROVE  Entry(fd, fd_expire_map_'[fd]) \in heap_'
    <3> DEFINE e == Entry(fd, fd_expire_map_[fd])
    <3>1. fd \notin Expiring /\ fd_expire_map_'[fd] = fd_expire_map_[fd]
      BY <1>1, <2>1
    <3>2. e \in heap_ /\ e.fd = fd /\ e.expire_time = fd_expire_map_[fd]
      BY <2>1, <3>1 DEF IInv, HeapCoversMap, Entry
    <3>3. e \notin DueEntries
      BY <3>1, <3>2 DEF Expiring, Matches
    <3>4. QED
      BY <1>1, <3>1, <3>2, <3>3
  <2>2. ASSUME NEW d \in heap_' PROVE d.expire_time <= clock' + Timeout
    BY <1>1, <2>2 DEF IInv, HeapCoversMap
  <2>3. QED
    BY <2>1, <2>2 DEF HeapCoversMap, Entry
<1>4. TimesMatch'
  BY <1>1, ExpiringIsDue DEF IInv, TimerTypes, TimesMatch
<1>5. QED
  BY <1>2, <1>3, <1>4 DEF IInv

LEMMA SecondIInv == ASSUME IInv, Second PROVE IInv'
<1>1. clock' = clock + 1 /\ UNCHANGED <<heap_, fd_expire_map_, lastEvent, expired, loop, found>>
  BY DEF Second, loopVars
<1>2. TimerTypes'
  BY <1>1 DEF IInv, TimerTypes
<1>3. HeapCoversMap'
  BY <1>1 DEF IInv, TimerTypes, HeapCoversMap, Entry
<1>4. TimesMatch'
  BY <1>1 DEF IInv, TimerTypes, TimesMatch
<1>5. QED
  BY <1>2, <1>3, <1>4 DEF IInv

\* What the loop does between two rounds.
LEMMA LoopIInv == ASSUME IInv, LoopStep PROVE IInv'
<1>1. CASE EpollWait
  BY <1>1, EpollWaitIInv
<1>2. CASE UpdateTimer
  <2>1. found \in Conns /\ expired = {}
    BY <1>2 DEF UpdateTimer, IInv, TimerTypes
  <2>2. QED
    BY <1>2, <2>1, AddTimerIInv DEF UpdateTimer
<1>3. ASSUME NEW c \in Conns, Expire(c) PROVE IInv'
  BY <1>3, RemoveEventIInv DEF Expire
<1>4. ASSUME NEW c \in Conns, Accept(c) PROVE IInv'
  BY <1>4, AddTimerIInv DEF Accept, loopVars
<1>5. ASSUME NEW c \in Conns, Lookup(c) PROVE IInv'
  BY <1>5 DEF Lookup, timerVars, IInv, TimerTypes, HeapCoversMap, TimesMatch, Entry
<1>6. QED
  BY <1>1, <1>2, <1>3, <1>4, <1>5 DEF LoopStep

\* Of what a worker does, only a removeEvent counts here.
LEMMA WorkerIInv == ASSUME IInv, NEW w \in Workers, WorkerStep(w) PROVE IInv'
<1>1. CASE Read(w)
  <2>1. CASE UNCHANGED <<heap_, fd_expire_map_>>
    BY <1>1, <2>1, UntouchedIInv DEF Read, idleVars, timerVars, loopVars
  <2>2. CASE ~ UNCHANGED <<heap_, fd_expire_map_>>
    <3>1. RemoveEvent(work[w]) /\ UNCHANGED <<lastEvent, loopVars, clock>>
      BY <1>1, <2>2 DEF Read
    <3>2. heap_' = heap_ /\ fd_expire_map_' = [fd_expire_map_ EXCEPT ![work[w]] = 0]
      BY <2>2, <3>1 DEF RemoveEvent, RemoveTimer
    <3>3. work[w] \in Conns
      BY <2>2, <3>2 DEF IInv, TimerTypes
    <3>4. QED
      BY <3>1, <3>3, RemoveEventIInv DEF loopVars
  <2>3. QED
    BY <2>1, <2>2
<1>2. CASE Take(w) \/ Lock(w) \/ HandleRequest(w) \/ Reject(w) \/ StopParsing(w)
  BY <1>2, UntouchedIInv
     DEF Take, Lock, HandleRequest, Reject, StopParsing, idleVars, loopVars
<1>3. QED
  BY <1>1, <1>2 DEF WorkerStep

LEMMA StepIInv == ASSUME IInv, [Next]_vars PROVE IInv'
<1>1. CASE UNCHANGED vars
  BY <1>1, UntouchedIInv DEF vars, idleVars, loopVars
<1>2. ASSUME NEW c \in Conns, Arrive(c) \/ Finish(c) PROVE IInv'
  BY <1>2, UntouchedIInv DEF Arrive, Finish, idleVars, loopVars
<1>3. QED
  BY <1>1, <1>2, SecondIInv, LoopIInv, WorkerIInv DEF Next

\* Timer and EventLoop: the heap, the map and the last events belong together.
THEOREM TimerInvariant == Spec => []IInv
<1>1. Init => IInv
  BY InitIInv
<1>2. IInv /\ [Next]_vars => IInv'
  BY StepIInv
<1>3. QED
  BY <1>1, <1>2, PTL DEF Spec

\* Timer: an armed timer always has its entry in the heap, so tick finds it.
THEOREM ArmedTimersAreInTheHeap == Spec => []HeapCoversMap
<1>1. IInv => HeapCoversMap
  BY DEF IInv
<1>2. QED
  BY <1>1, TimerInvariant, PTL

\* Timer and EventLoop::loop: no connection is closed for being idle that had
\* an event within the last time-out.
THEOREM IdleBeforeClosed == Spec => ExpiredWasIdle
<1>1. IInv => (\A c \in Conns : ClosedByTimer(c) => clock >= lastEvent[c] + Timeout)
  BY DEF IInv, TimesMatch, ClosedByTimer
<1>2. QED
  BY <1>1, TimerInvariant, PTL DEF ExpiredWasIdle

-----------------------------------------------------------------------------
(* Least and greatest numbers.                                             *)

LEMMA MinIs ==
    ASSUME NEW T, T \subseteq Nat, T # {}
    PROVE  Min(T) \in T /\ \A n \in T : Min(T) <= n
  BY LeastNumber DEF Min

LEMMA MaxIs ==
    ASSUME NEW n \in Nat, NEW T, T \subseteq 0 .. n, T # {}
    PROVE  Max(T) \in T /\ \A k \in T : k <= Max(T)
<1> DEFINE U == {n - k : k \in T}
<1>0. \A k \in T : n - k \in Nat
  OBVIOUS
<1>1. U \subseteq Nat /\ U # {}
  BY <1>0
<1>2. PICK u \in U : \A v \in U : u <= v
  <2> HIDE DEF U
  <2> QED BY <1>1, LeastNumber
<1>3. PICK m \in T : u = n - m
  OBVIOUS
<1>4. ASSUME NEW k \in T PROVE k <= m
  <2>1. u <= n - k
    BY <1>2
  <2>2. QED
    BY <1>3, <2>1
<1>5. \A k \in T : m >= k
  BY <1>4
<1>6. QED
  BY <1>5 DEF Max

-----------------------------------------------------------------------------
(* Framing: where a header ends, and what the lengths are.                 *)

LEMMA TokenKinds ==
    /\ \A t \in Tokens : t.value \in Lengths
    /\ \A n \in Lengths : Length(n) \in Tokens /\ Length(n).kind = "length" /\ Length(n).value = n
    /\ \A k \in {"line", "junk", "end", "byte"} : Token(k) \in Tokens /\ Token(k).kind = k
<1> DEFINE kinds == {"line", "junk", "end", "byte"}
<1>1. 0 \in Lengths
  BY SizeAssumption DEF Lengths
<1>2. \A k \in kinds : Token(k) \in Tokens /\ Token(k).kind = k /\ Token(k).value = 0
  BY DEF Tokens, Token
<1>3. \A n \in Lengths : Length(n) \in Tokens /\ Length(n).kind = "length" /\ Length(n).value = n
  BY DEF Tokens, Length
<1>4. ASSUME NEW t \in Tokens PROVE t.value \in Lengths
  <2>1. (\E k \in kinds : t = Token(k)) \/ (\E n \in Lengths : t = Length(n))
    BY DEF Tokens
  <2>2. QED
    BY <1>1, <1>2, <1>3, <2>1
<1>5. QED
  BY <1>2, <1>3, <1>4

\* i is the first of the tokens from `from` on that has one of the kinds.
IsFirst(i, text, from, kinds) ==
    /\ i \in from .. Len(text) + 1
    /\ i > Len(text) \/ text[i].kind \in kinds
    /\ \A j \in from .. i - 1 : text[j].kind \notin kinds

LEMMA FirstIs ==
    ASSUME NEW text \in Seq(Tokens), NEW from \in Nat, from <= Len(text) + 1, NEW kinds
    PROVE  IsFirst(First(text, from, kinds), text, from, kinds)
<1> DEFINE n == Len(text)
           T == {i \in from .. n + 1 : i > n \/ text[i].kind \in kinds}
<1>1. n \in Nat
  OBVIOUS
<1>2. T \subseteq Nat /\ n + 1 \in T
  BY <1>1
<1>3. PICK m \in T : \A i \in T : m <= i
  <2> HIDE DEF T
  <2> QED BY <1>2, LeastNumber
<1>4. \A j \in from .. m - 1 : text[j].kind \notin kinds
  BY <1>1, <1>3
<1>5. IsFirst(m, text, from, kinds)
  BY <1>3, <1>4 DEF IsFirst
<1>6. QED
  BY <1>5 DEF First, IsFirst

LEMMA OneIsFirst ==
    ASSUME NEW text \in Seq(Tokens), NEW from \in Nat, NEW kinds, NEW i, NEW k,
           IsFirst(i, text, from, kinds), IsFirst(k, text, from, kinds)
    PROVE  i = k
<1>1. Len(text) \in Nat
  OBVIOUS
<1>2. i \in Nat /\ k \in Nat
  BY <1>1 DEF IsFirst
<1>3. CASE i < k
  BY <1>1, <1>2, <1>3 DEF IsFirst
<1>4. CASE k < i
  BY <1>1, <1>2, <1>4 DEF IsFirst
<1>5. QED
  BY <1>2, <1>3, <1>4

LEMMA FirstUnique ==
    ASSUME NEW text \in Seq(Tokens), NEW from \in Nat, NEW kinds, NEW i,
           IsFirst(i, text, from, kinds)
    PROVE  First(text, from, kinds) = i
<1>1. from <= Len(text) + 1
  BY DEF IsFirst
<1>2. QED
  BY <1>1, FirstIs, OneIsFirst

LEMMA HeaderEndIs ==
    ASSUME NEW text \in Seq(Tokens), HasHeader(text)
    PROVE  /\ HeaderEnd(text) \in 2 .. Len(text)
           /\ text[HeaderEnd(text)].kind = "end"
<1> DEFINE h == HeaderEnd(text)
<1>1. PICK i \in 2 .. Len(text) : text[i].kind = "end"
  BY DEF HasHeader
<1>2. Len(text) \in Nat /\ 2 <= Len(text) + 1
  BY <1>1
<1>3. IsFirst(h, text, 2, {"end"})
  BY <1>2, FirstIs DEF HeaderEnd
<1> HIDE DEF h
<1>4. h <= i
  BY <1>1, <1>2, <1>3 DEF IsFirst
<1>5. QED
  BY <1>1, <1>2, <1>3, <1>4 DEF IsFirst, h

LEMMA ExtractType ==
    ASSUME NEW text \in Seq(Tokens), HasHeader(text)
    PROVE  ExtractContentLength(text) \in Nat
<1> DEFINE found_at == LengthHeaders(text, 2, HeaderEnd(text))
<1>1. CASE found_at = {}
  BY <1>1 DEF ExtractContentLength
<1>2. CASE found_at # {}
  <2>1. found_at \subseteq 2 .. Len(text)
    BY HeaderEndIs DEF LengthHeaders
  <2>2. Min(found_at) \in found_at
    <3> HIDE DEF found_at
    <3>1. found_at \subseteq Nat
      BY <2>1
    <3>2. QED
      BY <1>2, <3>1, MinIs
  <2>3. text[Min(found_at)] \in Tokens
    BY <2>1, <2>2
  <2>4. text[Min(found_at)].value \in Nat
    BY <2>3, TokenKinds, SizeAssumption DEF Lengths
  <2>5. QED
    BY <2>4 DEF ExtractContentLength
<1>3. QED
  BY <1>1, <1>2

LEMMA ModType == ASSUME NEW n \in Nat, NEW x \in Nat, n # 0 PROVE x % n \in 0 .. n - 1
  OBVIOUS

LEMMA RequestLenType ==
    ASSUME NEW text \in Seq(Tokens), HasHeader(text)
    PROVE  RequestLen(text) \in 0 .. Size - 1
<1>1. HeaderEnd(text) + ExtractContentLength(text) \in Nat
  BY HeaderEndIs, ExtractType
<1>2. QED
  BY <1>1, ModType, SizeAssumption DEF RequestLen

\* What parse leaves in the stored headers is a length of this text, whatever
\* was stored before, or what was stored before.
LEMMA StoredLengthIs ==
    ASSUME NEW text \in Seq(Tokens), NEW stored0
    PROVE  \/ StoredLength(text, stored0) = stored0
           \/ /\ StoredLength(text, stored0) \in Lengths
              /\ StoredLength(text, NoLength) = StoredLength(text, stored0)
<1> DEFINE stop == HeaderStop(text)
           read == LengthHeaders(text, 1, stop - 1)
<1>1. Len(text) \in Nat
  OBVIOUS
<1>2. stop \in 1 .. Len(text) + 1
  BY <1>1, FirstIs DEF HeaderStop, IsFirst
<1>3. CASE GoodLine(text) /\ read # {}
  <2> HIDE DEF stop
  <2>1. read \subseteq 1 .. Len(text) /\ read \subseteq 0 .. Len(text)
    BY <1>1, <1>2 DEF LengthHeaders
  <2>2. Max(read) \in read
    <3> HIDE DEF read
    <3> QED
      BY <1>1, <1>3, <2>1, MaxIs
  <2>3. text[Max(read)].value \in Lengths
    <3>1. text[Max(read)] \in Tokens
      BY <2>1, <2>2
    <3>2. QED
      BY <3>1, TokenKinds
  <2>4. StoredLength(text, stored0) = text[Max(read)].value
        /\ StoredLength(text, NoLength) = text[Max(read)].value
    BY <1>3 DEF StoredLength, stop
  <2>5. QED
    BY <2>3, <2>4
<1>4. CASE ~ (GoodLine(text) /\ read # {})
  BY <1>4 DEF StoredLength
<1>5. QED
  BY <1>3, <1>4

LEMMA ParsedIs ==
    ASSUME NEW text \in Seq(Tokens), NEW stored0 \in Lengths \cup {NoLength},
           Accepted(text, stored0)
    PROVE  /\ HasHeader(text)
           /\ Parsed(text, stored0) \in [known : BOOLEAN, body : Nat]
           /\ Parsed(text, stored0).body <= Len(text)
<1> DEFINE n == StoredLength(text, stored0)
           rest == Len(text) - HeaderEnd(text)
<1>1. HasHeader(text)
  BY DEF Accepted
<1>2. rest \in Nat /\ rest <= Len(text) /\ Len(text) \in Nat
  BY <1>1, HeaderEndIs
<1>3. n \in Nat
  BY StoredLengthIs, SizeAssumption DEF Lengths, NoLength
<1>4. Parsed(text, stored0) = [known |-> MethodKnown(text),
                               body |-> IF n = NoLength \/ n > rest THEN rest ELSE n]
  BY DEF Parsed
<1>5. MethodKnown(text) \in BOOLEAN
  BY DEF MethodKnown
<1> HIDE DEF n, rest
<1>6. (IF n = NoLength \/ n > rest THEN rest ELSE n) \in 0 .. rest
  BY <1>2, <1>3
<1>7. QED
  BY <1>1, <1>2, <1>4, <1>5, <1>6

-----------------------------------------------------------------------------
(* Sequences in parts.                                                     *)

LEMMA ConcatIs ==
    ASSUME NEW S, NEW s \in Seq(S), NEW t \in Seq(S)
    PROVE  /\ s \o t \in Seq(S)
           /\ Len(s \o t) = Len(s) + Len(t)
           /\ \A i \in 1 .. Len(s) : (s \o t)[i] = s[i]
           /\ \A i \in 1 .. Len(t) : (s \o t)[Len(s) + i] = t[i]
  OBVIOUS

LEMMA SubSeqIs ==
    ASSUME NEW S, NEW s \in Seq(S), NEW m \in Nat, NEW n \in m .. Len(s)
    PROVE  /\ SubSeq(s, m + 1, n) \in Seq(S)
           /\ Len(SubSeq(s, m + 1, n)) = n - m
           /\ \A i \in 1 .. n - m : SubSeq(s, m + 1, n)[i] = s[m + i]
<1> DEFINE k == n - m
           t == SubSeq(s, m + 1, n)
<1>1. k \in Nat /\ n = m + k /\ Len(s) \in Nat /\ m + k <= Len(s)
  OBVIOUS
<1>2. t = [i \in 1 .. k |-> s[m + i]]
  <2>1. t = [i \in 1 .. (1 + n) - (m + 1) |-> s[(i + (m + 1)) - 1]]
    OBVIOUS
  <2>2. (1 + n) - (m + 1) = k /\ \A i \in 1 .. k : (i + (m + 1)) - 1 = m + i
    BY <1>1
  <2>3. QED
    BY <2>1, <2>2
<1>3. \A i \in 1 .. k : s[m + i] \in S
  BY <1>1
<1>4. t \in Seq(S) /\ Len(t) = k
  <2> HIDE DEF k, t
  <2> QED BY <1>1, <1>2, <1>3
<1>5. QED
  BY <1>2, <1>4

\* Two sequences of one length with the same elements are the same.
LEMMA SameSeq ==
    ASSUME NEW S, NEW s \in Seq(S), NEW t \in Seq(S), Len(s) = Len(t),
           \A i \in 1 .. Len(s) : s[i] = t[i]
    PROVE  s = t
  OBVIOUS

-----------------------------------------------------------------------------
(* Messages as texts.                                                      *)

LEMMA BytesIs ==
    ASSUME NEW n \in Nat
    PROVE  Bytes(n) \in Seq(Tokens) /\ Len(Bytes(n)) = n
  BY TokenKinds DEF Bytes

\* The parts of a message.
LengthLines(m) == [i \in DOMAIN m.lengths |-> Length(m.lengths[i])]
JunkLine(m) == IF m.junk THEN <<Token("junk")>> ELSE <<>>

LEMMA LengthLinesAre ==
    ASSUME NEW m \in Message
    PROVE  /\ LengthLines(m) \in Seq(Tokens)
           /\ Len(LengthLines(m)) = Len(m.lengths)
           /\ \A i \in DOMAIN m.lengths : LengthLines(m)[i] = Length(m.lengths[i])
<1>1. m.lengths \in Seq(Lengths)
  BY DEF Message
<1>2. \A i \in DOMAIN m.lengths : Length(m.lengths[i]) \in Tokens
  BY <1>1, TokenKinds
<1>3. QED
  BY <1>1, <1>2 DEF LengthLines

LEMMA RenderType ==
    ASSUME NEW m \in Message
    PROVE  Render(m) \in Seq(Tokens) /\ 2 <= Len(Render(m)) /\ Len(Render(m)) < Size
<1>1. m.lengths \in Seq(Lengths) /\ m.body \in Nat /\ Len(Render(m)) < Size
  BY DEF Message
<1>2. <<Token("line")>> \in Seq(Tokens) /\ Len(<<Token("line")>>) = 1
      /\ <<Token("end")>> \in Seq(Tokens) /\ Len(<<Token("end")>>) = 1
  BY TokenKinds
<1>3. LengthLines(m) \in Seq(Tokens)
  BY LengthLinesAre
<1>4. JunkLine(m) \in Seq(Tokens)
  BY TokenKinds DEF JunkLine
<1> DEFINE a == <<Token("line")>> \o LengthLines(m)
           b == a \o JunkLine(m)
           c == b \o <<Token("end")>>
<1>5. a \in Seq(Tokens) /\ Len(a) = 1 + Len(LengthLines(m))
  BY <1>2, <1>3, ConcatIs
<1>6. b \in Seq(Tokens) /\ Len(b) = Len(a) + Len(JunkLine(m))
  <2> HIDE DEF a
  <2> QED BY <1>4, <1>5, ConcatIs
<1>7. c \in Seq(Tokens) /\ Len(c) = Len(b) + 1
  <2> HIDE DEF b
  <2> QED BY <1>2, <1>6, ConcatIs
<1>8. Render(m) = c \o Bytes(m.body)
  BY DEF Render, LengthLines, JunkLine
<1>9. Render(m) \in Seq(Tokens) /\ Len(Render(m)) = Len(c) + m.body
  <2> DEFINE y == Bytes(m.body)
  <2>1. y \in Seq(Tokens) /\ Len(y) = m.body
    BY <1>1, BytesIs
  <2> HIDE DEF c, y
  <2>2. c \o y \in Seq(Tokens) /\ Len(c \o y) = Len(c) + Len(y)
    BY <1>7, <2>1, ConcatIs
  <2>3. QED
    BY <1>8, <2>1, <2>2 DEF y
<1>10. Len(LengthLines(m)) \in Nat /\ Len(JunkLine(m)) \in Nat
  BY <1>3, <1>4
<1>11. QED
  BY <1>1, <1>5, <1>6, <1>7, <1>9, <1>10

\* How a plain message with a body of size b begins; h is where its header ends.
HeaderSize(b) == IF b = 0 THEN 2 ELSE 3
Starts(text, b) ==
    /\ b \in 0 .. Size - 1 /\ HeaderSize(b) <= Len(text)
    /\ text[1].kind = "line"
    /\ b # 0 => text[2] = Length(b)
    /\ text[HeaderSize(b)].kind = "end"

LEMMA RenderPlain ==
    ASSUME NEW m \in Message, Plain(m)
    PROVE  /\ m.body \in Nat
           /\ HeaderSize(m.body) + m.body < Size
           /\ Len(Render(m)) = HeaderSize(m.body) + m.body
           /\ Starts(Render(m), m.body)
<1> DEFINE b == m.body
           h == HeaderSize(b)
<1>1. b \in Nat /\ m.junk = FALSE /\ m.lengths = (IF b = 0 THEN <<>> ELSE <<b>>)
      /\ m.lengths \in Seq(Lengths) /\ Len(Render(m)) < Size
  BY DEF Message, Plain
<1>2. h \in {2, 3} /\ (b = 0 => h = 2) /\ (b # 0 => h = 3)
  BY DEF HeaderSize
<1>3. LengthLines(m) \in Seq(Tokens)
  BY LengthLinesAre
<1>4. Len(LengthLines(m)) = h - 2 /\ (b # 0 => LengthLines(m)[1] = Length(b))
  <2> HIDE DEF b, h
  <2>1. CASE b = 0
    BY <1>1, <1>2, <2>1, LengthLinesAre
  <2>2. CASE b # 0
    <3>1. m.lengths = <<b>>
      BY <1>1, <2>2
    <3>2. Len(m.lengths) = 1 /\ DOMAIN m.lengths = {1} /\ m.lengths[1] = b
      BY <3>1
    <3>3. QED
      BY <1>2, <2>2, <3>2, LengthLinesAre
  <2>3. QED
    BY <2>1, <2>2
<1>5. JunkLine(m) = <<>>
  BY <1>1 DEF JunkLine
<1>6. <<Token("line")>> \in Seq(Tokens) /\ Len(<<Token("line")>>) = 1
      /\ <<Token("end")>> \in Seq(Tokens) /\ Len(<<Token("end")>>) = 1
      /\ <<Token("line")>>[1].kind = "line" /\ <<Token("end")>>[1].kind = "end"
  BY TokenKinds
<1> DEFINE x == <<Token("line")>>
           e == <<Token("end")>>
           a == x \o LengthLines(m)
           c == a \o e
<1>7. a \in Seq(Tokens) /\ Len(a) = h - 1 /\ a[1].kind = "line" /\ (b # 0 => a[2] = Length(b))
  <2> HIDE DEF x, h, b
  <2>0. x \in Seq(Tokens) /\ Len(x) = 1 /\ x[1].kind = "line"
    BY <1>6 DEF x
  <2>1. /\ a \in Seq(Tokens) /\ Len(a) = 1 + (h - 2)
        /\ \A i \in 1 .. 1 : a[i] = x[i]
        /\ \A i \in 1 .. h - 2 : a[1 + i] = LengthLines(m)[i]
    BY <1>3, <1>4, <2>0, ConcatIs
  <2>2. b # 0 => a[1 + 1] = LengthLines(m)[1]
    BY <1>2, <2>1
  <2>3. QED
    BY <1>2, <1>4, <2>0, <2>1, <2>2
<1>8. c \in Seq(Tokens) /\ Len(c) = h /\ c[1].kind = "line" /\ (b # 0 => c[2] = Length(b))
      /\ c[h].kind = "end"
  <2> HIDE DEF a, h, b, e
  <2>0. e \in Seq(Tokens) /\ Len(e) = 1 /\ e[1].kind = "end"
    BY <1>6 DEF e
  <2>1. /\ c \in Seq(Tokens) /\ Len(c) = (h - 1) + 1
        /\ \A i \in 1 .. h - 1 : c[i] = a[i]
        /\ \A i \in 1 .. 1 : c[(h - 1) + i] = e[i]
    BY <1>7, <2>0, ConcatIs
  <2>2. c[(h - 1) + 1] = e[1]
    <3>1. 1 \in 1 .. 1
      OBVIOUS
    <3> HIDE DEF c
    <3> QED BY <1>2, <2>1, <3>1
  <2>3. QED
    BY <1>2, <1>7, <2>0, <2>1, <2>2
<1>9. Render(m) = c \o Bytes(b)
  <2>1. Render(m) = x \o LengthLines(m) \o JunkLine(m) \o e \o Bytes(b)
    BY DEF Render, LengthLines, JunkLine
  <2>2. a \o JunkLine(m) = a
    <3> HIDE DEF a
    <3> QED BY <1>5, <1>7
  <2>3. QED
    <3> HIDE DEF x, e, b
    <3> QED BY <2>1, <2>2
<1>10. /\ Len(Render(m)) = h + b
       /\ \A i \in 1 .. h : Render(m)[i] = c[i]
  <2> DEFINE y == Bytes(b)
  <2>1. y \in Seq(Tokens) /\ Len(y) = b
    BY <1>1, BytesIs
  <2>1a. c \in Seq(Tokens)
    BY <1>8
  <2> HIDE DEF c, h, b, y
  <2>2. /\ Len(c \o y) = Len(c) + Len(y)
        /\ \A i \in 1 .. Len(c) : (c \o y)[i] = c[i]
    <3>1. y \in Seq(Tokens)
      BY <2>1
    <3>2. QED
      BY <2>1a, <3>1, ConcatIs
  <2>3. QED
    BY <1>8, <1>9, <2>1, <2>2 DEF y
<1>11. h + b < Size /\ b \in 0 .. Size - 1
  <2> HIDE DEF h, b
  <2> QED BY <1>1, <1>2, <1>10, SizeAssumption
<1>12. Starts(Render(m), b)
  <2> HIDE DEF c, b
  <2>1. Render(m)[1] = c[1] /\ Render(m)[h] = c[h] /\ (b # 0 => Render(m)[2] = c[2])
    <3> HIDE DEF h
    <3> QED BY <1>2, <1>10
  <2>2. h <= Len(Render(m))
    <3> HIDE DEF h
    <3> QED BY <1>1, <1>2, <1>10
  <2>3. QED
    BY <1>8, <1>11, <2>1, <2>2 DEF Starts
<1>13. QED
  BY <1>1, <1>10, <1>11, <1>12

LEMMA StartsKinds ==
    ASSUME NEW text \in Seq(Tokens), NEW b, Starts(text, b)
    PROVE  /\ b \in Nat /\ b < Size
           /\ HeaderSize(b) \in {2, 3} /\ HeaderSize(b) <= Len(text)
           /\ text[1].kind = "line" /\ text[HeaderSize(b)].kind = "end"
           /\ b = 0 => HeaderSize(b) = 2
           /\ b # 0 => /\ HeaderSize(b) = 3
                       /\ text[2].kind = "length" /\ text[2].value = b
<1>1. b \in Nat /\ b < Size
  BY SizeAssumption DEF Starts
<1>2. b \in Lengths
  BY <1>1, SizeAssumption DEF Lengths
<1>3. QED
  BY <1>1, <1>2, TokenKinds DEF Starts, HeaderSize

\* Whatever comes after it, a plain message is cut out where it ends.
LEMMA PlainFraming ==
    ASSUME NEW text \in Seq(Tokens), NEW b, Starts(text, b), HeaderSize(b) + b < Size
    PROVE  /\ HasHeader(text)
           /\ HeaderEnd(text) = HeaderSize(b)
           /\ RequestLen(text) = HeaderSize(b) + b
<1> DEFINE h == HeaderSize(b)
<1>1. Len(text) \in Nat
  OBVIOUS
<1>2. HasHeader(text)
  BY <1>1, StartsKinds DEF HasHeader
<1>3. IsFirst(h, text, 2, {"end"})
  <2>1. \A j \in 2 .. h - 1 : j = 2 /\ b # 0
    BY StartsKinds
  <2>2. QED
    BY <1>1, <2>1, StartsKinds DEF IsFirst
<1>4. HeaderEnd(text) = h
  BY <1>3, FirstUnique DEF HeaderEnd
<1>5. ExtractContentLength(text) = b
  <2> DEFINE found_at == LengthHeaders(text, 2, h)
  <2>1. CASE b = 0
    <3>1. found_at = {}
      BY <2>1, StartsKinds DEF LengthHeaders
    <3>2. QED
      BY <1>4, <2>1, <3>1 DEF ExtractContentLength
  <2>2. CASE b # 0
    <3>1. found_at = {2}
      BY <2>2, StartsKinds DEF LengthHeaders
    <3>2. Min(found_at) = 2
      BY <3>1, MinIs
    <3>3. text[2].value = b /\ b # NotANumber
      BY <2>2, StartsKinds, SizeAssumption DEF NotANumber
    <3>4. QED
      BY <1>4, <3>1, <3>2, <3>3 DEF ExtractContentLength
  <2>3. QED
    BY <2>1, <2>2
<1>6. (h + b) % Size = h + b
  <2>1. h + b \in Nat /\ h + b < Size
    BY StartsKinds
  <2>2. QED
    BY <2>1, SizeAssumption
<1>7. QED
  BY <1>2, <1>4, <1>5, <1>6 DEF RequestLen

\* A plain message that was cut out is accepted and understood, unless a length
\* left behind is taken for its own.
LEMMA PlainAccepted ==
    ASSUME NEW text \in Seq(Tokens), NEW b, Starts(text, b), HeaderSize(b) + b < Size,
           Len(text) = HeaderSize(b) + b
    PROVE  Accepted(text, NoLength) /\ Parsed(text, NoLength) = [known |-> TRUE, body |-> b]
<1> DEFINE h == HeaderSize(b)
           n == StoredLength(text, NoLength)
<1>1. h \in {2, 3} /\ b \in Nat /\ Len(text) = h + b
  BY StartsKinds
<1>2. GoodLine(text)
  BY <1>1, StartsKinds DEF GoodLine
<1>3. HeaderEnd(text) = h /\ HasHeader(text)
  BY PlainFraming
<1>4. HeaderStop(text) = h
  <2>1. \A j \in 1 .. h - 1 : j = 1 \/ (j = 2 /\ b # 0)
    BY StartsKinds
  <2>1a. \A j \in 1 .. h - 1 : text[j].kind \in {"line", "length"}
    BY <2>1, StartsKinds
  <2>1b. \A j \in 1 .. h - 1 : text[j].kind \notin {"junk", "end"}
    BY <2>1a
  <2>1c. h \in 1 .. Len(text) + 1 /\ text[h].kind \in {"junk", "end"}
    BY <1>1, StartsKinds
  <2> HIDE DEF h
  <2>2. IsFirst(h, text, 1, {"junk", "end"})
    BY <2>1b, <2>1c DEF IsFirst
  <2>3. QED
    BY <2>2, FirstUnique DEF HeaderStop
<1>5. n = IF b = 0 THEN NoLength ELSE b
  <2> DEFINE read == LengthHeaders(text, 1, h - 1)
  <2>1. CASE b = 0
    <3>1. read = {}
      BY <2>1, StartsKinds DEF LengthHeaders
    <3>2. QED
      BY <1>4, <2>1, <3>1 DEF StoredLength
  <2>2. CASE b # 0
    <3>1. read = {2}
      BY <2>2, StartsKinds DEF LengthHeaders
    <3>2. Max(read) = 2
      BY <3>1, MaxIs
    <3>3. QED
      BY <1>2, <1>4, <2>2, <3>1, <3>2, StartsKinds DEF StoredLength
  <2>3. QED
    BY <2>1, <2>2
<1>6. (h + b) % Size = h + b
  BY <1>1, SizeAssumption
<1>7. b # NotANumber /\ b # NoLength
  BY StartsKinds, SizeAssumption DEF NotANumber, NoLength
<1>8. MethodKnown(text) = TRUE
  <2>1. First(text, 1, {"byte"}) # 1
    <3>1. IsFirst(First(text, 1, {"byte"}), text, 1, {"byte"})
      BY <1>1, FirstIs
    <3>2. QED
      BY <1>1, <3>1, StartsKinds DEF IsFirst
  <2>2. First(text, 1, {"byte"}) \in 1 .. Len(text) + 1
    BY <1>1, FirstIs DEF IsFirst
  <2>3. QED
    BY <1>1, <2>1, <2>2 DEF MethodKnown
<1> HIDE DEF h, n
<1>9. Accepted(text, NoLength)
  BY <1>1, <1>2, <1>3, <1>4, <1>5, <1>6, <1>7 DEF Accepted, n
<1>10. Parsed(text, NoLength) = [known |-> TRUE, body |-> b]
  <2> DEFINE rest == Len(text) - HeaderEnd(text)
  <2>1. rest = b
    BY <1>1, <1>3
  <2>2. (IF n = NoLength \/ n > rest THEN rest ELSE n) = b
    BY <1>1, <1>5, <1>7, <2>1
  <2>3. Parsed(text, NoLength) = [known |-> MethodKnown(text),
                                  body |-> IF n = NoLength \/ n > rest THEN rest ELSE n]
    BY DEF Parsed, n
  <2>4. QED
    <3> HIDE DEF rest
    <3> QED BY <1>8, <2>2, <2>3
<1>11. QED
  BY <1>9, <1>10

\* A beginning of a plain message is not taken for a whole one.
LEMMA HeaderIsThere ==
    ASSUME NEW text \in Seq(Tokens), NEW whole \in Seq(Tokens), NEW b, Starts(whole, b),
           \A i \in 1 .. HeaderSize(b) : i <= Len(text) => text[i] = whole[i],
           HasHeader(text)
    PROVE  Starts(text, b)
<1> DEFINE h == HeaderSize(b)
<1>1. Len(text) \in Nat /\ h \in {2, 3}
  BY StartsKinds
<1>2. PICK i \in 2 .. Len(text) : text[i].kind = "end"
  BY DEF HasHeader
<1>3. h <= Len(text)
  <2>1. SUFFICES ASSUME h > Len(text) PROVE FALSE
    BY <1>1
  <2>2. i = 2 /\ h = 3
    BY <1>1, <1>2, <2>1
  <2>3. QED
    BY <1>2, <2>2, StartsKinds
<1>4. text[1] = whole[1] /\ text[2] = whole[2] /\ text[h] = whole[h]
  BY <1>1, <1>3
<1>5. QED
  BY <1>3, <1>4 DEF Starts

-----------------------------------------------------------------------------
(* What a client sends: its messages one after the other.                  *)

\* What FlattenSeq computes on its way.
Joins(texts, f) ==
    /\ f \in [0 .. Len(texts) -> Seq(Tokens)]
    /\ f[0] = <<>>
    /\ \A n \in 1 .. Len(texts) : f[n] = f[n - 1] \o texts[n]

LEMMA JoinsExist == ASSUME NEW texts \in Seq(Seq(Tokens)) PROVE \E f : Joins(texts, f)
<1> DEFINE V == Seq(Tokens)
           next == [n \in Nat |-> IF n + 1 \in 1 .. Len(texts) THEN texts[n + 1] ELSE <<>>]
           step == [n \in Nat |-> [s \in V |-> s \o next[n]]]
<1>1. \A n \in Nat : next[n] \in V
  OBVIOUS
<1>1a. <<>> \in V
  OBVIOUS
<1>2. step \in [Nat -> [V -> V]]
  <2>1. \A n \in Nat : \A s \in V : s \o next[n] \in V
    <3> HIDE DEF next
    <3> QED BY <1>1, ConcatIs
  <2> HIDE DEF next, V
  <2> QED BY <2>1
<1>3. PICK f : Recursive(f, V, <<>>, step)
  <2> HIDE DEF step, V
  <2> QED BY <1>1a, <1>2, Recursion
<1>4. f \in [Nat -> V] /\ f[0] = <<>>
  BY <1>3 DEF Recursive
<1>5. ASSUME NEW n \in 1 .. Len(texts) PROVE f[n] = f[n - 1] \o texts[n]
  <2>1. n - 1 \in Nat /\ (n - 1) + 1 = n
    OBVIOUS
  <2>2. f[n] = step[n - 1][f[n - 1]]
    <3> HIDE DEF step
    <3> QED BY <1>3, <2>1 DEF Recursive
  <2>3. f[n - 1] \in V
    <3> HIDE DEF V
    <3> QED BY <1>4, <2>1
  <2>4. step[n - 1][f[n - 1]] = f[n - 1] \o next[n - 1]
    <3> HIDE DEF V, next
    <3> QED BY <2>1, <2>3
  <2>5. next[n - 1] = texts[n]
    BY <2>1
  <2>6. QED
    <3> HIDE DEF next, step
    <3> QED BY <2>2, <2>4, <2>5
<1>6. Joins(texts, [n \in 0 .. Len(texts) |-> f[n]])
  <2> HIDE DEF step, next
  <2>1. \A n \in 1 .. Len(texts) : n \in 0 .. Len(texts) /\ n - 1 \in 0 .. Len(texts)
    OBVIOUS
  <2>2. 0 \in 0 .. Len(texts) /\ \A n \in 0 .. Len(texts) : f[n] \in V
    BY <1>4
  <2>3. QED
    BY <1>4, <1>5, <2>1, <2>2 DEF Joins
<1>7. QED
  BY <1>6

LEMMA FlattenIs ==
    ASSUME NEW texts \in Seq(Seq(Tokens)), NEW f, Joins(texts, f)
    PROVE  FlattenSeq(texts) = f[Len(texts)]
<1>0. Len(texts) \in Nat
  OBVIOUS
<1>1. CASE Len(texts) = 0
  <2>1. texts = <<>>
    BY <1>1
  <2>2. QED
    BY <1>1, <2>1 DEF FlattenSeq, Joins
<1>2. CASE Len(texts) # 0
  <2> DEFINE N == Len(texts)
             flatten == CHOOSE s : s = [i \in 1 .. N |->
                            IF i = 1 THEN texts[i] ELSE s[i - 1] \o texts[i]]
             g == [i \in 1 .. N |-> f[i]]
  <2>1. f[1] = texts[1]
    <3>1. 1 \in 1 .. N /\ 1 - 1 = 0 /\ texts[1] \in Seq(Tokens)
      BY <1>0, <1>2
    <3>2. f[1] = f[1 - 1] \o texts[1] /\ f[0] = <<>>
      BY <3>1 DEF Joins
    <3>3. <<>> \o texts[1] = texts[1]
      BY <3>1
    <3>4. f[1] = f[0] \o texts[1]
      BY <3>1, <3>2
    <3>5. QED
      BY <3>2, <3>3, <3>4
  <2>2. g = [i \in 1 .. N |-> IF i = 1 THEN texts[i] ELSE g[i - 1] \o texts[i]]
    <3>1. ASSUME NEW i \in 1 .. N
          PROVE  g[i] = IF i = 1 THEN texts[i] ELSE g[i - 1] \o texts[i]
      <4>1. CASE i = 1
        BY <2>1, <4>1
      <4>2. CASE i # 1
        <5>1. i - 1 \in 1 .. N
          BY <1>0, <4>2
        <5>2. QED
          BY <4>2, <5>1 DEF Joins
      <4>3. QED
        BY <4>1, <4>2
    <3>2. QED
      BY <3>1
  <2>3. flatten = [i \in 1 .. N |-> IF i = 1 THEN texts[i] ELSE flatten[i - 1] \o texts[i]]
    <3> HIDE DEF g
    <3> QED BY <2>2
  <2>4. FlattenSeq(texts) = flatten[N]
    BY <1>2 DEF FlattenSeq
  <2> HIDE DEF flatten
  <2> DEFINE T == {k \in Nat : k + 1 <= N => flatten[k + 1] = f[k + 1]}
  <2>5. 0 \in T
    <3>1. 1 \in 1 .. N
      BY <1>0, <1>2
    <3>2. flatten[1] = f[1]
      BY <2>1, <2>3, <3>1
    <3>3. QED
      BY <3>2
  <2>6. ASSUME NEW k \in Nat, k \in T PROVE k + 1 \in T
    <3>1. SUFFICES ASSUME (k + 1) + 1 <= N PROVE flatten[(k + 1) + 1] = f[(k + 1) + 1]
      OBVIOUS
    <3> DEFINE i == (k + 1) + 1
    <3>2. i \in 1 .. N /\ i # 1 /\ i - 1 = k + 1
      BY <1>0, <3>1
    <3>3. flatten[k + 1] = f[k + 1]
      BY <1>0, <2>6, <3>1
    <3> HIDE DEF i
    <3>4. flatten[i] = flatten[i - 1] \o texts[i]
      BY <2>3, <3>2
    <3>5. f[i] = f[i - 1] \o texts[i]
      BY <3>2 DEF Joins
    <3>6. QED
      BY <3>2, <3>3, <3>4, <3>5 DEF i
  <2>7. Nat \subseteq T
    <3> HIDE DEF T
    <3> QED BY <2>5, <2>6, Induction
  <2>8. N - 1 \in Nat /\ (N - 1) + 1 = N
    BY <1>0, <1>2
  <2>9. N - 1 \in T
    <3> HIDE DEF T, N
    <3> QED BY <2>7, <2>8
  <2>10. flatten[(N - 1) + 1] = f[(N - 1) + 1]
    <3> HIDE DEF N
    <3> QED BY <2>8, <2>9
  <2>11. QED
    BY <2>4, <2>8, <2>10
<1>3. QED
  BY <1>1, <1>2

\* t stands in `whole` behind the first n tokens.
StandsAt(t, whole, n) == \A i \in 1 .. Len(t) : whole[n + i] = t[i]

\* One text after the other, each where the ones before it end.
Laid(texts, whole, ends) ==
    /\ whole \in Seq(Tokens)
    /\ ends[0] = 0 /\ ends[Len(texts)] = Len(whole)
    /\ \A n \in 1 .. Len(texts) :
          /\ ends[n - 1] \in Nat /\ ends[n] = ends[n - 1] + Len(texts[n])
          /\ ends[n] <= Len(whole)
          /\ StandsAt(texts[n], whole, ends[n - 1])

\* The beginning of a text.
Begins(s, t) == Len(s) <= Len(t) /\ \A i \in 1 .. Len(s) : t[i] = s[i]

LEMMA JoinBegins ==
    ASSUME NEW s \in Seq(Tokens), NEW t \in Seq(Tokens), NEW u, u = s \o t
    PROVE  /\ u \in Seq(Tokens) /\ Len(s) \in Nat /\ Len(t) \in Nat
           /\ Len(u) = Len(s) + Len(t) /\ Begins(s, u)
           /\ \A i \in 1 .. Len(t) : u[Len(s) + i] = t[i]
<1>1. Len(s) \in Nat /\ Len(t) \in Nat
  OBVIOUS
<1>2. QED
  BY <1>1, ConcatIs DEF Begins

\* What u is, made of s and t.
Joined(s, t, u) ==
    /\ u \in Seq(Tokens) /\ Len(u) = Len(s) + Len(t)
    /\ Begins(s, u) /\ StandsAt(t, u, Len(s))

LEMMA JoinIs ==
    ASSUME NEW s \in Seq(Tokens), NEW t \in Seq(Tokens)
    PROVE  Joined(s, t, s \o t)
<1>1. Len(s) \in Nat /\ Len(t) \in Nat
  OBVIOUS
<1>2. QED
  BY <1>1, ConcatIs DEF Joined, Begins, StandsAt

LEMMA JoinWithin ==
    ASSUME NEW s \in Seq(Tokens), NEW t \in Seq(Tokens), NEW u, u = s \o t,
           NEW whole, Begins(u, whole)
    PROVE  StandsAt(t, whole, Len(s))
<1>1. /\ Len(s) \in Nat /\ Len(t) \in Nat /\ Len(u) = Len(s) + Len(t)
      /\ \A i \in 1 .. Len(t) : u[Len(s) + i] = t[i]
  BY JoinBegins
<1>2. ASSUME NEW i \in 1 .. Len(t) PROVE whole[Len(s) + i] = t[i]
  <2>1. Len(s) + i \in 1 .. Len(u)
    BY <1>1
  <2>2. QED
    BY <1>1, <2>1 DEF Begins
<1>3. QED
  BY <1>2 DEF StandsAt

LEMMA BeginsLonger ==
    ASSUME NEW s \in Seq(Tokens), NEW t \in Seq(Tokens), NEW u \in Seq(Tokens),
           Begins(s, t), Begins(t, u)
    PROVE  Begins(s, u)
<1>1. Len(s) \in Nat /\ Len(t) \in Nat /\ Len(u) \in Nat
  OBVIOUS
<1>2. QED
  BY <1>1 DEF Begins

LEMMA JoinsGrow ==
    ASSUME NEW texts \in Seq(Seq(Tokens)), NEW f, Joins(texts, f), NEW n \in 0 .. Len(texts)
    PROVE  Begins(f[n], f[Len(texts)])
<1> DEFINE N == Len(texts)
           T == {k \in Nat : n + k <= N => Begins(f[n], f[n + k])}
<1>1. N \in Nat /\ n \in Nat /\ n <= N
  OBVIOUS
<1>2. \A k \in 0 .. N : f[k] \in Seq(Tokens)
  BY DEF Joins
<1> HIDE DEF N
<1>3. 0 \in T
  <2>1. n + 0 = n /\ Len(f[n]) \in Nat
    BY <1>1, <1>2
  <2>2. QED
    BY <2>1 DEF Begins
<1>4. ASSUME NEW k \in Nat, k \in T PROVE k + 1 \in T
  <2>1. SUFFICES ASSUME n + (k + 1) <= N PROVE Begins(f[n], f[n + (k + 1)])
    OBVIOUS
  <2> DEFINE j == n + (k + 1)
  <2>2. j \in 1 .. N /\ j - 1 = n + k /\ j - 1 \in 0 .. N
    BY <1>1, <2>1
  <2>3. Begins(f[n], f[j - 1])
    BY <1>1, <1>4, <2>1, <2>2
  <2> HIDE DEF j
  <2>3a. j \in 1 .. Len(texts)
    BY <2>2 DEF N
  <2>4. f[j] = f[j - 1] \o texts[j]
    BY <2>3a DEF Joins
  <2>4a. texts[j] \in Seq(Tokens)
    BY <2>3a
  <2>5. f[j - 1] \in Seq(Tokens) /\ f[n] \in Seq(Tokens)
    BY <1>1, <1>2, <2>2
  <2>6. f[j] \in Seq(Tokens) /\ Begins(f[j - 1], f[j])
    BY <2>4, <2>4a, <2>5, JoinBegins
  <2>7. Begins(f[n], f[j])
    BY <2>3, <2>5, <2>6, BeginsLonger
  <2>8. QED
    BY <2>7 DEF j
<1>5. Nat \subseteq T
  <2> HIDE DEF T
  <2> QED BY <1>3, <1>4, Induction
<1>6. N - n \in Nat /\ n + (N - n) = N
  BY <1>1
<1>7. N - n \in T
  <2> HIDE DEF T
  <2> QED BY <1>5, <1>6
<1>8. Begins(f[n], f[n + (N - n)])
  BY <1>1, <1>6, <1>7
<1>9. QED
  BY <1>6, <1>8 DEF N

LEMMA JoinsLay ==
    ASSUME NEW texts \in Seq(Seq(Tokens)), NEW f, Joins(texts, f)
    PROVE  Laid(texts, f[Len(texts)], [n \in 0 .. Len(texts) |-> Len(f[n])])
<1> DEFINE N == Len(texts)
           ends == [n \in 0 .. N |-> Len(f[n])]
<1>1. N \in Nat /\ 0 \in 0 .. N /\ N \in 0 .. N
  OBVIOUS
<1>2. \A k \in 0 .. N : f[k] \in Seq(Tokens)
  BY DEF Joins
<1>3. f[N] \in Seq(Tokens) /\ ends[0] = 0 /\ ends[N] = Len(f[N])
  <2>1. f[0] = <<>>
    BY DEF Joins
  <2>2. Len(f[0]) = 0
    BY <2>1
  <2>3. QED
    BY <1>1, <1>2, <2>2
<1>4. ASSUME NEW n \in 1 .. N
      PROVE  /\ ends[n - 1] \in Nat /\ ends[n] = ends[n - 1] + Len(texts[n])
             /\ ends[n] <= Len(f[N])
             /\ \A i \in 1 .. Len(texts[n]) : f[N][ends[n - 1] + i] = texts[n][i]
  <2>1. n - 1 \in 0 .. N /\ n \in 0 .. N
    BY <1>1
  <2>2. f[n] = f[n - 1] \o texts[n] /\ texts[n] \in Seq(Tokens)
    BY DEF Joins
  <2>3. f[n - 1] \in Seq(Tokens)
    BY <1>2, <2>1
  <2> DEFINE s == f[n - 1]
             t == texts[n]
  <2>3a. s \in Seq(Tokens) /\ t \in Seq(Tokens) /\ f[n] = s \o t
    BY <2>2, <2>3
  <2> HIDE DEF s, t
  <2>4. Len(s) \in Nat /\ Len(t) \in Nat /\ Len(f[n]) = Len(s) + Len(t)
    BY <2>3a, JoinBegins
  <2>6. Begins(f[n], f[N])
    BY <2>1, JoinsGrow
  <2>7. ends[n - 1] = Len(f[n - 1]) /\ ends[n] = Len(f[n])
    BY <2>1
  <2> HIDE DEF N, ends
  <2>8. \A i \in 1 .. Len(t) : f[N][Len(s) + i] = t[i]
    <3> DEFINE u == f[n]
               whole == f[N]
    <3>1. u = s \o t /\ Begins(u, whole)
      BY <2>3a, <2>6
    <3>2. s \in Seq(Tokens) /\ t \in Seq(Tokens)
      BY <2>3a
    <3> HIDE DEF u, whole
    <3>3. StandsAt(t, whole, Len(s))
      BY <3>1, <3>2, JoinWithin
    <3>4. QED
      BY <3>3 DEF whole, StandsAt
  <2>9. /\ ends[n - 1] \in Nat /\ ends[n] = ends[n - 1] + Len(t)
        /\ ends[n] <= Len(f[N])
        /\ \A i \in 1 .. Len(t) : f[N][ends[n - 1] + i] = t[i]
    <3>1. ends[n - 1] = Len(s) /\ ends[n] = Len(f[n])
      BY <2>7 DEF s
    <3>2. Len(f[n]) <= Len(f[N])
      BY <2>6 DEF Begins
    <3>3. ends[n] <= Len(f[N])
      BY <3>1, <3>2
    <3>4. \A i \in 1 .. Len(t) : f[N][ends[n - 1] + i] = t[i]
      BY <2>8, <3>1
    <3>5. ends[n - 1] \in Nat /\ ends[n] = ends[n - 1] + Len(t)
      BY <2>4, <3>1
    <3>6. QED
      BY <3>3, <3>4, <3>5
  <2>10. QED
    BY <2>9 DEF t
<1>5. QED
  BY <1>3, <1>4 DEF Laid, StandsAt

\* The stream of a client, and where its messages end.
Texts(ms) == [i \in DOMAIN ms |-> Render(ms[i])]

LEMMA TextsAre ==
    ASSUME NEW ms \in Seq(Message)
    PROVE  Texts(ms) \in Seq(Seq(Tokens)) /\ Len(Texts(ms)) = Len(ms)
<1>1. \A i \in DOMAIN ms : Render(ms[i]) \in Seq(Tokens)
  BY RenderType
<1>2. DOMAIN ms = 1 .. Len(ms) /\ Len(ms) \in Nat
  OBVIOUS
<1>3. QED
  BY <1>1, <1>2 DEF Texts

LEMMA StreamIsLaid ==
    ASSUME NEW ms \in Transcripts, ms \in Seq(Message)
    PROVE  Laid(Texts(ms), Wire[ms], WireLength[ms])
<1> DEFINE texts == Texts(ms)
           N == Len(ms)
<1>1. texts \in Seq(Seq(Tokens)) /\ Len(texts) = N /\ N \in Nat /\ DOMAIN ms = 1 .. N
  BY TextsAre
<1>2. PICK f : Joins(texts, f)
  <2> HIDE DEF texts
  <2> QED BY <1>1, JoinsExist
<1>3. Wire[ms] = f[N]
  <2>1. Wire[ms] = FlattenSeq(texts)
    BY DEF Wire, Texts
  <2> HIDE DEF texts
  <2>2. QED
    BY <1>1, <1>2, <2>1, FlattenIs
<1>4. ASSUME NEW n \in 0 .. N
      PROVE  Len(FlattenSeq([i \in 1 .. n |-> Render(ms[i])])) = Len(f[n])
  <2> DEFINE some == [i \in 1 .. n |-> Render(ms[i])]
             g == [k \in 0 .. n |-> f[k]]
  <2>1. n \in Nat /\ n <= N /\ \A i \in 1 .. n : i \in 1 .. N
    BY <1>1
  <2>2. \A i \in 1 .. n : some[i] = texts[i] /\ texts[i] \in Seq(Tokens)
    <3>1. \A i \in 1 .. n : some[i] = texts[i]
      BY <1>1, <2>1 DEF Texts
    <3> HIDE DEF texts, some
    <3>2. QED
      BY <1>1, <2>1, <3>1
  <2>3. some \in Seq(Seq(Tokens)) /\ Len(some) = n
    <3>1. some = [i \in 1 .. n |-> some[i]]
      OBVIOUS
    <3>2. \A i \in 1 .. n : some[i] \in Seq(Tokens)
      <4> HIDE DEF some, texts
      <4> QED BY <2>2
    <3> HIDE DEF some
    <3>3. QED
      BY <2>1, <3>1, <3>2
  <2>4. Joins(some, g)
    <3>0. \A k \in 0 .. N : f[k] \in Seq(Tokens)
      <4> HIDE DEF texts, N
      <4> QED BY <1>1, <1>2 DEF Joins
    <3>1. \A k \in 0 .. n : k \in 0 .. N /\ f[k] \in Seq(Tokens)
      <4> HIDE DEF N
      <4> QED BY <1>1, <2>1, <3>0
    <3>2. g \in [0 .. n -> Seq(Tokens)]
      BY <3>1
    <3>3. g[0] = <<>>
      BY <1>2, <2>1 DEF Joins
    <3>4. ASSUME NEW k \in 1 .. n PROVE g[k] = g[k - 1] \o some[k]
      <4>1. k \in 1 .. N /\ k \in 0 .. n /\ k - 1 \in 0 .. n
        BY <2>1
      <4>2. f[k] = f[k - 1] \o texts[k]
        <5> HIDE DEF texts
        <5> QED BY <1>1, <1>2, <4>1 DEF Joins
      <4>3. some[k] = texts[k]
        BY <2>2
      <4>4. g[k] = f[k] /\ g[k - 1] = f[k - 1]
        BY <4>1
      <4>5. QED
        <5> HIDE DEF g, some, texts
        <5> QED BY <4>2, <4>3, <4>4
    <3> HIDE DEF g, some
    <3>5. QED
      BY <2>3, <3>2, <3>3, <3>4 DEF Joins
  <2>5. FlattenSeq(some) = g[n]
    <3> HIDE DEF some, g
    <3> QED BY <2>3, <2>4, FlattenIs
  <2>6. g[n] = f[n]
    BY <2>1
  <2>7. QED
    <3> HIDE DEF g
    <3> QED BY <2>5, <2>6
<1>5. WireLength[ms] = [n \in 0 .. N |-> Len(f[n])]
  <2>1. WireLength[ms] = [n \in 0 .. N |-> Len(FlattenSeq([i \in 1 .. n |-> Render(ms[i])]))]
    BY DEF WireLength
  <2>2. QED
    BY <1>4, <2>1
<1>6. QED
  <2> HIDE DEF texts
  <2>1. Laid(texts, f[Len(texts)], [n \in 0 .. Len(texts) |-> Len(f[n])])
    BY <1>1, <1>2, JoinsLay
  <2>2. QED
    BY <1>1, <1>3, <1>5, <2>1 DEF texts

-----------------------------------------------------------------------------
(* Types.                                                                  *)

BaseInv == TypeOK /\ FromPlans

LEMMA StreamOf ==
    ASSUME FromPlans, NEW c \in Conns
    PROVE  /\ messages[c] \in Seq(Message)
           /\ Stream(c) \in Seq(Tokens)
           /\ Len(Texts(messages[c])) = Len(messages[c])
           /\ Laid(Texts(messages[c]), Stream(c), WireLength[messages[c]])
<1>1. messages \in Plans /\ messages \in [Conns -> Seq(Message)]
  BY PlansAssumption DEF FromPlans
<1>2. messages[c] \in Seq(Message) /\ messages[c] \in Transcripts
  BY <1>1 DEF Transcripts
<1>3. Laid(Texts(messages[c]), Wire[messages[c]], WireLength[messages[c]])
  BY <1>2, StreamIsLaid
<1>4. QED
  BY <1>2, <1>3, TextsAre DEF Laid, Stream

LEMMA BaseInit == Init => BaseInv
<1> SUFFICES ASSUME Init PROVE BaseInv
  OBVIOUS
<1>1. FromPlans
  BY DEF Init, FromPlans
<1>2. \A c \in Conns : Len(Stream(c)) \in Nat
  BY <1>1, StreamOf
<1>3. TypeOK
  BY <1>1, <1>2, SizeAssumption, BoundsAssumption DEF Init, TypeOK, TimerInit
<1>4. QED
  BY <1>1, <1>3 DEF BaseInv

\* A request is cut off the buffer.
LEMMA CutIs ==
    ASSUME NEW c, recv_buf[c] \in Seq(Tokens), NEW text \in RequestTexts(c)
    PROVE  /\ HasHeader(recv_buf[c])
           /\ text \in Seq(Tokens)
           /\ Len(text) \in Nat /\ Len(text) = RequestLen(recv_buf[c])
           /\ Len(text) <= Len(recv_buf[c])
           /\ Begins(text, recv_buf[c])
           /\ Rest(recv_buf[c], text) \in Seq(Tokens)
           /\ Len(Rest(recv_buf[c], text)) = Len(recv_buf[c]) - Len(text)
           /\ StandsAt(Rest(recv_buf[c], text), recv_buf[c], Len(text))
<1> DEFINE buffer == recv_buf[c]
           n == RequestLen(buffer)
<1>1. HasHeader(buffer) /\ Len(buffer) >= n /\ text = SubSeq(buffer, 1, n)
  BY DEF RequestTexts, WholeRequest
<1>2. buffer \in Seq(Tokens) /\ n \in Nat /\ n <= Len(buffer) /\ Len(buffer) \in Nat
  BY <1>1, RequestLenType, SizeAssumption
<1> HIDE DEF buffer, n
<1>3. text \in Seq(Tokens) /\ Len(text) = n /\ \A i \in 1 .. n : text[i] = buffer[i]
  <2>1. n \in 0 .. Len(buffer) /\ 0 + 1 = 1 /\ n - 0 = n /\ \A i \in 1 .. n : 0 + i = i
    BY <1>2
  <2>2. /\ SubSeq(buffer, 0 + 1, n) \in Seq(Tokens)
        /\ Len(SubSeq(buffer, 0 + 1, n)) = n - 0
        /\ \A i \in 1 .. n - 0 : SubSeq(buffer, 0 + 1, n)[i] = buffer[0 + i]
    BY <1>2, <2>1, SubSeqIs
  <2>3. QED
    BY <1>1, <2>1, <2>2
<1>4. /\ Rest(buffer, text) \in Seq(Tokens)
      /\ Len(Rest(buffer, text)) = Len(buffer) - n
      /\ StandsAt(Rest(buffer, text), buffer, n)
  <2>1. Len(buffer) \in n .. Len(buffer)
    BY <1>2
  <2>2. Rest(buffer, text) = SubSeq(buffer, n + 1, Len(buffer))
    BY <1>3 DEF Rest
  <2>3. QED
    BY <1>2, <2>1, <2>2, SubSeqIs DEF StandsAt
<1>5. QED
  BY <1>1, <1>2, <1>3, <1>4 DEF Begins, buffer, n

LEMMA StoredType ==
    ASSUME NEW text \in Seq(Tokens), NEW stored0 \in Lengths \cup {NoLength}
    PROVE  StoredLength(text, stored0) \in Lengths \cup {NoLength}
  BY StoredLengthIs

\* The types in two parts: what the connections have, and the rest.
ConnTypes ==
    /\ \A c \in Conns : arrived[c] \in 0 .. Len(Stream(c)) /\ taken[c] \in 0 .. arrived[c]
    /\ fin \in [Conns -> BOOLEAN] /\ portions \in [Conns -> 0 .. MaxPortions]
    /\ recv_buf \in [Conns -> Seq(Tokens)]
    /\ stored \in [Conns -> Lengths \cup {NoLength}]
    /\ handled \in [Conns -> Seq([known : BOOLEAN, body : Nat])]
    /\ lengthKept \in [Conns -> BOOLEAN]
LoopTypes ==
    /\ ready \subseteq {c \in Conns : status[c] = "open"}
    /\ status \in [Conns -> {"new", "open", "closed"}]
    /\ loop \in {"events", "update"} /\ batch \subseteq Conns /\ expired \subseteq Conns
    /\ found \in Conns \cup {None} /\ (found # None <=> loop = "update")
    /\ task_queue \in Seq(Conns)
    /\ clock \in Nat /\ lastEvent \in [Conns -> 0 .. clock]
    /\ heap_ \subseteq [fd : Conns, expire_time : Nat]
    /\ fd_expire_map_ \in [Conns -> Nat]
WorkerTypes ==
    /\ pc \in [Workers -> {"idle", "lock", "read", "parse"}]
    /\ work \in [Workers -> Conns \cup {None}]
    /\ \A w \in Workers : pc[w] = "idle" <=> work[w] = None

LEMMA TypesInParts ==
    /\ TypeOK <=> ConnTypes /\ LoopTypes /\ WorkerTypes
    /\ TypeOK' <=> ConnTypes' /\ LoopTypes' /\ WorkerTypes'
  BY DEF TypeOK, ConnTypes, LoopTypes, WorkerTypes

LEMMA SameConnTypes ==
    ASSUME BaseInv, UNCHANGED <<clientVars, connVars>> PROVE ConnTypes' /\ FromPlans'
  BY TypesInParts DEF BaseInv, ConnTypes, FromPlans, clientVars, connVars, Stream

LEMMA SameLoopTypes ==
    ASSUME BaseInv, UNCHANGED <<loopVars, status, lastEvent, timerVars>>,
           ready' \subseteq {c \in Conns : status[c] = "open"}
    PROVE  LoopTypes'
  BY TypesInParts DEF BaseInv, LoopTypes, loopVars, timerVars

LEMMA SameWorkerTypes == ASSUME BaseInv, UNCHANGED workerVars PROVE WorkerTypes'
  BY TypesInParts DEF BaseInv, WorkerTypes, workerVars

LEMMA GotoTypes ==
    ASSUME BaseInv, NEW w \in Workers, NEW label \in {"idle", "lock", "read", "parse"},
           NEW c \in Conns \cup {None}, label = "idle" <=> c = None, Goto(w, label, c)
    PROVE  WorkerTypes'
  BY TypesInParts DEF BaseInv, WorkerTypes, Goto

LEMMA BusyWorker ==
    ASSUME BaseInv, NEW w \in Workers, pc[w] # "idle" PROVE work[w] \in Conns
  BY TypesInParts DEF BaseInv, WorkerTypes

LEMMA RemoveEventTypes ==
    ASSUME BaseInv, NEW c \in Conns, RemoveEvent(c), UNCHANGED <<lastEvent, loop, found, batch, task_queue, clock>>,
           expired' \subseteq expired
    PROVE  LoopTypes'
<1>1. CASE status[c] = "open"
  <2>1. /\ status' = [status EXCEPT ![c] = "closed"] /\ ready' = ready \ {c}
        /\ heap_' = heap_ /\ fd_expire_map_' = [fd_expire_map_ EXCEPT ![c] = 0]
    BY <1>1 DEF RemoveEvent, RemoveTimer
  <2>2. QED
    BY <2>1, TypesInParts DEF BaseInv, LoopTypes
<1>2. CASE status[c] # "open"
  BY <1>2, TypesInParts DEF RemoveEvent, BaseInv, LoopTypes
<1>3. QED
  BY <1>1, <1>2

\* The timer is armed, by the loop.
LEMMA AddTimerTypes ==
    ASSUME BaseInv, NEW c \in Conns, AddTimer(c), lastEvent' = [lastEvent EXCEPT ![c] = clock],
           clock' = clock, expired' = expired, batch' = batch, ready' = ready,
           status' = status \/ (status[c] = "new" /\ status' = [status EXCEPT ![c] = "open"]),
           task_queue' \in Seq(Conns),
           found' \in Conns \cup {None}, loop' \in {"events", "update"},
           found' # None <=> loop' = "update"
    PROVE  LoopTypes'
<1>1. /\ heap_' = heap_ \cup {Entry(c, clock + Timeout)}
      /\ fd_expire_map_' = [fd_expire_map_ EXCEPT ![c] = clock + Timeout]
  BY DEF AddTimer
<1>2. LoopTypes /\ clock + Timeout \in Nat
  BY TypesInParts DEF BaseInv, LoopTypes
<1>3. heap_' \subseteq [fd : Conns, expire_time : Nat] /\ fd_expire_map_' \in [Conns -> Nat]
  BY <1>1, <1>2 DEF LoopTypes, Entry
<1>4. /\ ready' \subseteq {d \in Conns : status'[d] = "open"}
      /\ status' \in [Conns -> {"new", "open", "closed"}]
  BY <1>2 DEF LoopTypes
<1>5. lastEvent' \in [Conns -> 0 .. clock']
  BY <1>2 DEF LoopTypes
<1>6. QED
  BY <1>2, <1>3, <1>4, <1>5 DEF LoopTypes

LEMMA LoopBase == ASSUME BaseInv, LoopStep PROVE BaseInv'
<1> SUFFICES LoopTypes' /\ UNCHANGED <<clientVars, connVars, workerVars>>
  BY SameConnTypes, SameWorkerTypes, TypesInParts DEF BaseInv
<1>0. LoopTypes
  BY TypesInParts DEF BaseInv
<1>1. CASE EpollWait
  <2>1. Expiring \subseteq Conns
    BY <1>0 DEF LoopTypes, Expiring, DueEntries
  <2>2. fd_expire_map_' \in [Conns -> Nat] /\ heap_' \subseteq heap_
    BY <1>0, <1>1 DEF EpollWait, TickTimers, LoopTypes
  <2>3. QED
    BY <1>0, <1>1, <2>1, <2>2 DEF EpollWait, LoopTypes
<1>2. CASE UpdateTimer
  <2>1. found \in Conns
    BY <1>0, <1>2 DEF UpdateTimer, LoopTypes
  <2>2. task_queue' \in Seq(Conns)
    BY <1>0, <1>2, <2>1 DEF UpdateTimer, LoopTypes
  <2>3. LoopTypes'
    BY <1>2, <2>1, <2>2, AddTimerTypes DEF UpdateTimer
  <2>4. QED
    BY <1>2, <2>3 DEF UpdateTimer
<1>3. ASSUME NEW c \in Conns, Expire(c) PROVE LoopTypes' /\ UNCHANGED <<clientVars, connVars, workerVars>>
  BY <1>3, RemoveEventTypes DEF Expire
<1>4. ASSUME NEW c \in Conns, Accept(c) PROVE LoopTypes' /\ UNCHANGED <<clientVars, connVars, workerVars>>
  BY <1>0, <1>4, AddTimerTypes DEF Accept, loopVars, LoopTypes
<1>5. ASSUME NEW c \in Conns, Lookup(c) PROVE LoopTypes' /\ UNCHANGED <<clientVars, connVars, workerVars>>
  BY <1>0, <1>5 DEF Lookup, LoopTypes, timerVars
<1>6. QED
  BY <1>1, <1>2, <1>3, <1>4, <1>5 DEF LoopStep

LEMMA ClientBase == ASSUME BaseInv, NEW c \in Conns, Arrive(c) \/ Finish(c) PROVE BaseInv'
<1>1. ConnTypes /\ LoopTypes /\ FromPlans
  BY TypesInParts DEF BaseInv
<1>2. WorkerTypes'
  BY SameWorkerTypes DEF Arrive, Finish
<1>3. LoopTypes'
  <2>1. status[c] = "open" /\ ready' = ready \cup {c} /\ UNCHANGED <<loopVars, status, lastEvent, timerVars>>
    BY DEF Arrive, Finish, Active
  <2>2. QED
    BY <1>1, <2>1, SameLoopTypes DEF LoopTypes
<1>4. ConnTypes' /\ FromPlans'
  <2>1. CASE Arrive(c)
    <3>1. PICK n \in arrived[c] + 1 .. Len(Stream(c)) : arrived' = [arrived EXCEPT ![c] = n]
      BY <2>1 DEF Arrive
    <3>2. portions[c] < MaxPortions /\ portions' = [portions EXCEPT ![c] = @ + 1]
          /\ UNCHANGED <<messages, fin, connVars>>
      BY <2>1 DEF Arrive
    <3>3. arrived \in [Conns -> Nat] /\ Len(Stream(c)) \in Nat /\ n \in Nat
      BY <1>1, <3>1, StreamOf DEF FromPlans
    <3>4. portions' \in [Conns -> 0 .. MaxPortions]
      BY <1>1, <3>2, BoundsAssumption DEF ConnTypes
    <3>5. \A d \in Conns : arrived'[d] \in 0 .. Len(Stream(d)) /\ taken[d] \in 0 .. arrived'[d]
      BY <1>1, <3>1, <3>3 DEF ConnTypes
    <3>6. FromPlans'
      BY <1>1, <3>1, <3>2, <3>3 DEF FromPlans, connVars
    <3>7. ConnTypes'
      BY <1>1, <3>2, <3>4, <3>5 DEF ConnTypes, connVars, Stream
    <3>8. QED
      BY <3>6, <3>7
  <2>2. CASE Finish(c)
    BY <1>1, <2>2 DEF Finish, ConnTypes, FromPlans, connVars, Stream
  <2>3. QED
    BY <2>1, <2>2
<1>5. QED
  BY <1>2, <1>3, <1>4, TypesInParts DEF BaseInv

LEMMA SecondBase == ASSUME BaseInv, Second PROVE BaseInv'
<1>1. LoopTypes
  BY TypesInParts DEF BaseInv
<1>2. clock' = clock + 1 /\ UNCHANGED <<heap_, fd_expire_map_, ready, status, lastEvent, loopVars>>
      /\ UNCHANGED <<clientVars, connVars, workerVars>>
  BY DEF Second
<1>3. lastEvent' \in [Conns -> 0 .. clock'] /\ clock' \in Nat
  BY <1>1, <1>2 DEF LoopTypes
<1>4. LoopTypes'
  BY <1>1, <1>2, <1>3 DEF LoopTypes, loopVars
<1>5. QED
  BY <1>2, <1>4, SameConnTypes, SameWorkerTypes, TypesInParts DEF BaseInv

\* What a worker leaves alone but for the connection it serves.
LEMMA OneConnTypes ==
    ASSUME BaseInv, NEW c \in Conns, UNCHANGED clientVars,
           NEW took, took \in taken[c] .. arrived[c], taken' = [taken EXCEPT ![c] = took],
           NEW buffer, buffer \in Seq(Tokens), recv_buf' = [recv_buf EXCEPT ![c] = buffer],
           NEW len, len \in Lengths \cup {NoLength}, stored' = [stored EXCEPT ![c] = len],
           handled' \in [Conns -> Seq([known : BOOLEAN, body : Nat])],
           lengthKept' \in [Conns -> BOOLEAN]
    PROVE  ConnTypes' /\ FromPlans'
<1>1. ConnTypes /\ FromPlans /\ FromPlans
  BY TypesInParts DEF BaseInv
<1>2. took \in Nat /\ took \in 0 .. arrived[c] /\ taken \in [Conns -> Nat]
  BY <1>1 DEF ConnTypes, FromPlans
<1>3. FromPlans'
  BY <1>1, <1>2 DEF FromPlans, clientVars
<1>4. \A d \in Conns : taken'[d] \in 0 .. arrived[d]
  BY <1>1, <1>2 DEF ConnTypes
<1>5. recv_buf' \in [Conns -> Seq(Tokens)]
  BY <1>1 DEF ConnTypes
<1>6. stored' \in [Conns -> Lengths \cup {NoLength}]
  BY <1>1 DEF ConnTypes
<1>7. QED
  BY <1>1, <1>3, <1>4, <1>5, <1>6 DEF ConnTypes, clientVars, Stream

LEMMA UpdateEventTypes ==
    ASSUME BaseInv, NEW c \in Conns, ready' = UpdateEvent(c),
           UNCHANGED <<loopVars, status, lastEvent, timerVars>>
    PROVE  LoopTypes'
<1>1. ready' \subseteq {d \in Conns : status[d] = "open"}
  BY TypesInParts DEF BaseInv, LoopTypes, UpdateEvent
<1>2. QED
  BY <1>1, SameLoopTypes

LEMMA ReadBase == ASSUME BaseInv, NEW w \in Workers, Read(w) PROVE BaseInv'
<1> DEFINE c == work[w]
<1>1. c \in Conns /\ pc[w] = "read"
  BY BusyWorker DEF Read
<1>2. ConnTypes /\ LoopTypes /\ FromPlans
  BY TypesInParts DEF BaseInv
<1>3. CASE status[c] = "open" /\ Unread(c)
  <2> DEFINE got == SubSeq(Stream(c), taken[c] + 1, arrived[c])
  <2>1. /\ recv_buf' = [recv_buf EXCEPT ![c] = @ \o got]
        /\ taken' = [taken EXCEPT ![c] = arrived[c]]
        /\ UNCHANGED <<workerVars, status, heap_, fd_expire_map_, ready>>
        /\ UNCHANGED <<clientVars, lastEvent, loopVars, stored, handled, lengthKept, clock>>
    BY <1>3 DEF Read
  <2>2. /\ Stream(c) \in Seq(Tokens) /\ Len(Stream(c)) \in Nat /\ taken[c] \in Nat
        /\ arrived[c] \in taken[c] .. Len(Stream(c)) /\ arrived[c] \in taken[c] .. arrived[c]
    BY <1>1, <1>2, StreamOf DEF ConnTypes, FromPlans
  <2>3. got \in Seq(Tokens)
    <3> HIDE DEF c
    <3> QED BY <2>2, SubSeqIs
  <2>4. recv_buf[c] \in Seq(Tokens) /\ stored[c] \in Lengths \cup {NoLength}
    BY <1>1, <1>2 DEF ConnTypes
  <2>5. recv_buf[c] \o got \in Seq(Tokens)
    <3> HIDE DEF c, got
    <3> QED BY <2>3, <2>4, ConcatIs
  <2>6. recv_buf' = [recv_buf EXCEPT ![c] = recv_buf[c] \o got] /\ stored' = [stored EXCEPT ![c] = stored[c]]
    BY <1>1, <1>2, <2>1 DEF ConnTypes
  <2>7. ConnTypes' /\ FromPlans'
    <3>1. handled' \in [Conns -> Seq([known : BOOLEAN, body : Nat])] /\ lengthKept' \in [Conns -> BOOLEAN]
      BY <1>2, <2>1 DEF ConnTypes
    <3> HIDE DEF c, got
    <3> QED BY <1>1, <2>1, <2>2, <2>4, <2>5, <2>6, <3>1, OneConnTypes
  <2>8. LoopTypes'
    BY <1>2, <2>1, SameLoopTypes DEF timerVars, LoopTypes
  <2>9. QED
    BY <2>1, <2>7, <2>8, SameWorkerTypes, TypesInParts DEF BaseInv
<1>4. CASE ~ (status[c] = "open" /\ Unread(c))
  <2>1. UNCHANGED <<clientVars, connVars, lastEvent, loopVars, clock>>
    BY <1>4 DEF Read, connVars
  <2>2. CASE status[c] = "open" /\ ~ fin[c]
    <3>1. Goto(w, "parse", c) /\ UNCHANGED <<status, heap_, fd_expire_map_, ready>>
      BY <1>4, <2>2 DEF Read
    <3>2. WorkerTypes'
      BY <1>1, <3>1, GotoTypes, ConnsAssumption
    <3>3. LoopTypes'
      BY <1>2, <2>1, <3>1, SameLoopTypes DEF timerVars, LoopTypes
    <3>4. QED
      BY <2>1, <3>2, <3>3, SameConnTypes, TypesInParts DEF BaseInv
  <2>3. CASE ~ (status[c] = "open" /\ ~ fin[c])
    <3>1. Goto(w, "idle", None) /\ RemoveEvent(c)
      BY <1>4, <2>3 DEF Read
    <3>2. WorkerTypes'
      BY <3>1, GotoTypes
    <3>3. LoopTypes'
      BY <1>1, <2>1, <3>1, RemoveEventTypes DEF loopVars
    <3>4. QED
      BY <2>1, <3>2, <3>3, SameConnTypes, TypesInParts DEF BaseInv
  <2>4. QED
    BY <2>2, <2>3
<1>5. QED
  BY <1>3, <1>4

LEMMA HandleRequestBase == ASSUME BaseInv, NEW w \in Workers, HandleRequest(w) PROVE BaseInv'
<1> DEFINE c == work[w]
<1>1. c \in Conns
  BY BusyWorker DEF HandleRequest
<1>2. ConnTypes /\ LoopTypes /\ FromPlans
  BY TypesInParts DEF BaseInv
<1>3. PICK text \in RequestTexts(c) :
          /\ Accepted(text, stored[c])
          /\ handled' = [handled EXCEPT ![c] = Append(@, Parsed(text, stored[c]))]
          /\ recv_buf' = [recv_buf EXCEPT ![c] = Rest(@, text)]
          /\ stored' = [stored EXCEPT ![c] = NoLength]
  BY DEF HandleRequest, AfterHandling
<1>4. recv_buf[c] \in Seq(Tokens) /\ stored[c] \in Lengths \cup {NoLength}
  BY <1>1, <1>2 DEF ConnTypes
<1> HIDE DEF c
<1>5. text \in Seq(Tokens) /\ Rest(recv_buf[c], text) \in Seq(Tokens)
  BY <1>4, CutIs
<1>6. Parsed(text, stored[c]) \in [known : BOOLEAN, body : Nat]
  BY <1>3, <1>4, <1>5, ParsedIs
<1>7. handled' \in [Conns -> Seq([known : BOOLEAN, body : Nat])]
  <2> DEFINE R == [known : BOOLEAN, body : Nat]
             p == Parsed(text, stored[c])
  <2>1. handled \in [Conns -> Seq(R)] /\ p \in R /\ handled' = [handled EXCEPT ![c] = Append(@, p)]
    BY <1>2, <1>3, <1>6 DEF ConnTypes
  <2> HIDE DEF R, p
  <2>2. handled' \in [Conns -> Seq(R)]
    BY <1>1, <2>1
  <2>3. QED
    BY <2>2 DEF R
<1>8. ConnTypes' /\ FromPlans'
  <2>1. UNCHANGED <<clientVars, taken, lengthKept>>
    BY DEF HandleRequest
  <2>2. taken' = [taken EXCEPT ![c] = taken[c]] /\ taken[c] \in taken[c] .. arrived[c]
    BY <1>1, <1>2, <2>1 DEF ConnTypes, FromPlans
  <2>3. recv_buf' = [recv_buf EXCEPT ![c] = Rest(recv_buf[c], text)]
    BY <1>1, <1>2, <1>3 DEF ConnTypes
  <2>4. lengthKept' \in [Conns -> BOOLEAN]
    BY <1>2, <2>1 DEF ConnTypes
  <2>5. QED
    BY <1>1, <1>3, <1>5, <1>7, <2>1, <2>2, <2>3, <2>4, OneConnTypes
<1>9. LoopTypes'
  BY <1>1, UpdateEventTypes DEF HandleRequest, c
<1>10. WorkerTypes'
  BY SameWorkerTypes DEF HandleRequest
<1>11. QED
  BY <1>8, <1>9, <1>10, TypesInParts DEF BaseInv

LEMMA RejectBase == ASSUME BaseInv, NEW w \in Workers, Reject(w) PROVE BaseInv'
<1> DEFINE c == work[w]
<1>1. c \in Conns
  BY BusyWorker DEF Reject
<1>2. ConnTypes /\ LoopTypes /\ FromPlans
  BY TypesInParts DEF BaseInv
<1>3. PICK text \in BadTexts(c) :
          /\ stored' = [stored EXCEPT ![c] = StoredLength(text, @)]
          /\ lengthKept' = [lengthKept EXCEPT ![c] = @ \/ StoredLength(text, NoLength) # NoLength]
  BY DEF Reject
<1>4. recv_buf[c] \in Seq(Tokens) /\ stored[c] \in Lengths \cup {NoLength}
  BY <1>1, <1>2 DEF ConnTypes
<1>4a. text \in RequestTexts(c)
  BY DEF BadTexts
<1> HIDE DEF c
<1>5. text \in Seq(Tokens)
  BY <1>4, <1>4a, CutIs
<1>6. ConnTypes' /\ FromPlans'
  <2> DEFINE len == StoredLength(text, stored[c])
             kept == StoredLength(text, NoLength) # NoLength
  <2>1. UNCHANGED <<clientVars, taken, handled>> /\ recv_buf' = [recv_buf EXCEPT ![c] = <<>>]
    BY DEF Reject, c
  <2>2. taken' = [taken EXCEPT ![c] = taken[c]] /\ taken[c] \in taken[c] .. arrived[c]
    BY <1>1, <1>2, <2>1 DEF ConnTypes, FromPlans
  <2>3. len \in Lengths \cup {NoLength}
    BY <1>4, <1>5, StoredType
  <2>3a. stored' = [stored EXCEPT ![c] = len]
    BY <1>1, <1>2, <1>3 DEF ConnTypes
  <2>4. lengthKept' \in [Conns -> BOOLEAN]
    <3>1. lengthKept \in [Conns -> BOOLEAN] /\ lengthKept' = [lengthKept EXCEPT ![c] = @ \/ kept]
      BY <1>2, <1>3 DEF ConnTypes
    <3> HIDE DEF kept
    <3>2. (lengthKept[c] \/ kept) \in BOOLEAN
      OBVIOUS
    <3>3. QED
      BY <1>1, <3>1, <3>2
  <2>5. handled' \in [Conns -> Seq([known : BOOLEAN, body : Nat])] /\ <<>> \in Seq(Tokens)
    BY <1>2, <2>1 DEF ConnTypes
  <2>6. QED
    <3> HIDE DEF len
    <3> QED BY <1>1, <2>1, <2>2, <2>3, <2>3a, <2>4, <2>5, OneConnTypes
<1>7. LoopTypes'
  BY <1>1, UpdateEventTypes DEF Reject, c
<1>8. WorkerTypes'
  BY GotoTypes DEF Reject
<1>9. QED
  BY <1>6, <1>7, <1>8, TypesInParts DEF BaseInv

LEMMA TakeBase == ASSUME BaseInv, NEW w \in Workers, Take(w) PROVE BaseInv'
<1>1. LoopTypes
  BY TypesInParts DEF BaseInv
<1>2. task_queue # <<>> /\ task_queue' = Tail(task_queue) /\ Goto(w, "lock", Head(task_queue))
      /\ UNCHANGED <<loop, batch, expired, found, clientVars, ready, status, lastEvent, connVars, timerVars>>
  BY DEF Take
<1>3. Head(task_queue) \in Conns /\ task_queue' \in Seq(Conns)
  BY <1>1, <1>2 DEF LoopTypes
<1>4. WorkerTypes'
  BY <1>2, <1>3, GotoTypes, ConnsAssumption
<1>5. LoopTypes'
  BY <1>1, <1>2, <1>3 DEF LoopTypes, timerVars
<1>6. QED
  BY <1>2, <1>4, <1>5, SameConnTypes, TypesInParts DEF BaseInv

LEMMA WorkerBase == ASSUME BaseInv, NEW w \in Workers, WorkerStep(w) PROVE BaseInv'
<1>1. CASE Lock(w)
  <2>1. Goto(w, "read", work[w]) /\ work[w] \in Conns
        /\ UNCHANGED <<clientVars, ready, status, lastEvent, loopVars, connVars, timerVars>>
    BY <1>1, BusyWorker DEF Lock
  <2>2. WorkerTypes' /\ LoopTypes'
    BY <2>1, GotoTypes, SameLoopTypes, ConnsAssumption, TypesInParts DEF BaseInv, LoopTypes
  <2>3. QED
    BY <2>1, <2>2, SameConnTypes, TypesInParts DEF BaseInv
<1>2. CASE StopParsing(w)
  <2>1. Goto(w, "idle", None)
        /\ UNCHANGED <<clientVars, ready, status, lastEvent, loopVars, connVars, timerVars>>
    BY <1>2 DEF StopParsing
  <2>2. WorkerTypes' /\ LoopTypes'
    BY <2>1, GotoTypes, SameLoopTypes, TypesInParts DEF BaseInv, LoopTypes
  <2>3. QED
    BY <2>1, <2>2, SameConnTypes, TypesInParts DEF BaseInv
<1>3. QED
  BY <1>1, <1>2, TakeBase, ReadBase, HandleRequestBase, RejectBase DEF WorkerStep

LEMMA BaseStep == ASSUME BaseInv, [Next]_vars PROVE BaseInv'
<1>1. CASE UNCHANGED vars
  BY <1>1, SameConnTypes, SameLoopTypes, SameWorkerTypes, TypesInParts DEF BaseInv, vars, LoopTypes
<1>2. QED
  BY <1>1, ClientBase, SecondBase, LoopBase, WorkerBase DEF Next

\* HttpSession: every variable has its type, and what clients send is a plan.
THEOREM BaseInvariant == Spec => []BaseInv
<1>1. QED
  BY BaseInit, BaseStep, PTL DEF Spec

\* HttpSession: every variable keeps its type.
THEOREM TypeCorrect == Spec => []TypeOK
<1>1. BaseInv => TypeOK
  BY DEF BaseInv
<1>2. QED
  BY <1>1, BaseInvariant, PTL

-----------------------------------------------------------------------------
(* What is left in the buffer, and how many headers went by.               *)

Ends(stream, n) == {i \in 1 .. n : stream[i].kind = "end"}

LEMMA EndsGrow ==
    ASSUME NEW stream, NEW m \in Nat, NEW n \in Nat, m <= n
    PROVE  /\ IsFiniteSet(Ends(stream, n)) /\ Cardinality(Ends(stream, n)) \in Nat
           /\ Cardinality(Ends(stream, m)) <= Cardinality(Ends(stream, n))
<1>1. IsFiniteSet(1 .. n)
  BY FS_Interval
<1>2. Ends(stream, n) \subseteq 1 .. n /\ Ends(stream, m) \subseteq Ends(stream, n)
  BY DEF Ends
<1>3. IsFiniteSet(Ends(stream, n))
  BY <1>1, <1>2, FS_Subset
<1>4. QED
  BY <1>2, <1>3, FS_CardinalityType, FS_Subset

LEMMA OneMoreEnd ==
    ASSUME NEW stream, NEW m \in Nat, NEW n \in Nat, NEW i, i \in m + 1 .. n, stream[i].kind = "end"
    PROVE  Cardinality(Ends(stream, m)) + 1 <= Cardinality(Ends(stream, n))
<1> DEFINE E == Ends(stream, m)
<1>1. IsFiniteSet(E) /\ Cardinality(E) \in Nat
  BY EndsGrow
<1>2. i \notin E
  BY DEF Ends
<1>3. Cardinality(E \cup {i}) = Cardinality(E) + 1
  <2> HIDE DEF E
  <2> QED BY <1>1, <1>2, FS_AddElement
<1>4. E \cup {i} \subseteq Ends(stream, n)
  BY DEF Ends
<1>5. IsFiniteSet(Ends(stream, n)) /\ Cardinality(Ends(stream, n)) \in Nat
  BY EndsGrow
<1>6. Cardinality(E \cup {i}) <= Cardinality(Ends(stream, n))
  <2> HIDE DEF E
  <2> QED BY <1>4, <1>5, FS_Subset
<1>7. QED
  BY <1>3, <1>6

\* Of the first n tokens `buffer` is the end; k headers at most went by before.
TailOf(stream, n, buffer, k) ==
    /\ Len(buffer) <= n
    /\ StandsAt(buffer, stream, n - Len(buffer))
    /\ k <= Cardinality(Ends(stream, n - Len(buffer)))

LEMMA TailRead ==
    ASSUME NEW stream \in Seq(Tokens), NEW buffer \in Seq(Tokens), NEW n \in Nat, NEW k,
           TailOf(stream, n, buffer, k), NEW m \in n .. Len(stream)
    PROVE  LET longer == buffer \o SubSeq(stream, n + 1, m)
           IN  TailOf(stream, m, longer, k) /\ m - Len(longer) = n - Len(buffer)
<1> DEFINE got == SubSeq(stream, n + 1, m)
           longer == buffer \o got
           cut == n - Len(buffer)
<1>1. got \in Seq(Tokens) /\ Len(got) = m - n /\ \A i \in 1 .. m - n : got[i] = stream[n + i]
  BY SubSeqIs
<1>2. Len(buffer) \in Nat /\ m \in Nat /\ n <= m /\ Len(buffer) <= n
  BY DEF TailOf
<1> HIDE DEF got, longer
<1>3. /\ Len(longer) = Len(buffer) + (m - n)
      /\ \A i \in 1 .. Len(buffer) : longer[i] = buffer[i]
      /\ \A i \in 1 .. m - n : longer[Len(buffer) + i] = got[i]
  <2>1. longer = buffer \o got
    BY DEF longer
  <2>2. Joined(buffer, got, longer)
    BY <1>1, <2>1, JoinIs
  <2>3. QED
    BY <1>1, <2>2 DEF Joined, Begins, StandsAt
<1>4. m - Len(longer) = cut /\ Len(longer) <= m
  BY <1>2, <1>3
<1>5. ASSUME NEW i \in 1 .. Len(longer) PROVE longer[i] = stream[cut + i]
  <2>1. CASE i <= Len(buffer)
    <3>1. i \in 1 .. Len(buffer)
      BY <1>2, <2>1
    <3>2. buffer[i] = stream[cut + i]
      BY <3>1 DEF TailOf, StandsAt
    <3>3. QED
      BY <1>3, <3>1, <3>2
  <2>2. CASE i > Len(buffer)
    <3> DEFINE j == i - Len(buffer)
    <3>1. j \in 1 .. m - n /\ i = Len(buffer) + j /\ cut + i = n + j
      BY <1>2, <1>3, <2>2
    <3> HIDE DEF j
    <3>2. longer[Len(buffer) + j] = got[j] /\ got[j] = stream[n + j]
      BY <1>1, <1>3, <3>1
    <3>3. QED
      BY <3>1, <3>2
  <2>3. QED
    BY <1>2, <1>3, <2>1, <2>2
<1>6. StandsAt(longer, stream, cut)
  BY <1>5 DEF StandsAt
<1>7. TailOf(stream, m, longer, k) /\ m - Len(longer) = n - Len(buffer)
  BY <1>4, <1>6 DEF TailOf
<1>8. QED
  BY <1>7 DEF longer, got

LEMMA TailCut ==
    ASSUME NEW stream \in Seq(Tokens), NEW buffer \in Seq(Tokens), NEW n \in Nat, NEW k \in Nat,
           TailOf(stream, n, buffer, k),
           NEW text \in Seq(Tokens), HasHeader(text), Len(text) <= Len(buffer), Begins(text, buffer),
           NEW rest \in Seq(Tokens), Len(rest) = Len(buffer) - Len(text),
           StandsAt(rest, buffer, Len(text))
    PROVE  TailOf(stream, n, rest, k + 1)
           /\ n - Len(rest) = (n - Len(buffer)) + Len(text)
<1> DEFINE cut == n - Len(buffer)
           t == Len(text)
<1>1. Len(buffer) \in Nat /\ t \in Nat /\ Len(rest) \in Nat /\ cut \in Nat
      /\ n - Len(rest) = cut + t /\ Len(rest) <= n /\ t <= Len(buffer)
      /\ Len(rest) = Len(buffer) - t
  BY DEF TailOf
<1>1a. \A i \in 1 .. Len(buffer) : buffer[i] = stream[cut + i]
  BY DEF TailOf, StandsAt
<1>2. PICK e \in 2 .. t : text[e].kind = "end"
  BY DEF HasHeader
<1>3. text[e] = stream[cut + e]
  <2>1. e \in 1 .. t /\ e \in 1 .. Len(buffer)
    BY <1>1
  <2>2. QED
    BY <1>1a, <2>1 DEF Begins
<1>4. cut + e \in cut + 1 .. cut + t
  BY <1>1
<1> HIDE DEF cut, t
<1>5. Cardinality(Ends(stream, cut)) + 1 <= Cardinality(Ends(stream, cut + t))
  <2>1. cut + t \in Nat /\ stream[cut + e].kind = "end"
    BY <1>1, <1>2, <1>3
  <2>2. QED
    BY <1>1, <1>4, <2>1, OneMoreEnd
<1>6. k + 1 <= Cardinality(Ends(stream, cut + t))
  <2>1. k <= Cardinality(Ends(stream, cut))
    BY DEF TailOf, cut
  <2>2. Cardinality(Ends(stream, cut)) \in Nat /\ Cardinality(Ends(stream, cut + t)) \in Nat
    <3>1. cut + t \in Nat
      BY <1>1
    <3>2. QED
      BY <1>1, <3>1, EndsGrow
  <2>3. QED
    BY <1>5, <2>1, <2>2
<1>7. StandsAt(rest, stream, cut + t)
  <2>1. ASSUME NEW i \in 1 .. Len(rest) PROVE rest[i] = stream[(cut + t) + i]
    <3>1. t + i \in 1 .. Len(buffer) /\ cut + (t + i) = (cut + t) + i
      BY <1>1
    <3>2. rest[i] = buffer[t + i]
      BY DEF StandsAt, t
    <3>3. buffer[t + i] = stream[cut + (t + i)]
      BY <1>1a, <3>1
    <3>4. QED
      BY <3>1, <3>2, <3>3
  <2>2. QED
    BY <2>1 DEF StandsAt
<1>8. TailOf(stream, n, rest, k + 1)
  BY <1>1, <1>6, <1>7 DEF TailOf
<1>9. QED
  BY <1>1, <1>8 DEF cut, t

LEMMA TailClear ==
    ASSUME NEW stream, NEW buffer \in Seq(Tokens), NEW n \in Nat, NEW k \in Nat,
           TailOf(stream, n, buffer, k)
    PROVE  TailOf(stream, n, <<>>, k)
<1>1. Len(buffer) \in Nat /\ Len(buffer) <= n /\ Len(<<>>) = 0
  BY DEF TailOf
<1> DEFINE cut == n - Len(buffer)
<1>2. cut \in Nat /\ cut <= n /\ n - 0 = n
  BY <1>1
<1>3. k <= Cardinality(Ends(stream, cut))
  BY DEF TailOf
<1> HIDE DEF cut
<1>4. k <= Cardinality(Ends(stream, n))
  <2>1. Cardinality(Ends(stream, cut)) <= Cardinality(Ends(stream, n))
        /\ Cardinality(Ends(stream, cut)) \in Nat /\ Cardinality(Ends(stream, n)) \in Nat
    BY <1>2, EndsGrow
  <2>2. QED
    BY <1>3, <2>1
<1>5. QED
  BY <1>1, <1>2, <1>4 DEF TailOf, StandsAt

Tails == \A c \in Conns : TailOf(Stream(c), taken[c], recv_buf[c], Len(handled[c]))

LEMMA TailsIs == ASSUME BaseInv PROVE Tails <=> BufferIsTail
<1> SUFFICES ASSUME NEW c \in Conns
             PROVE  TailOf(Stream(c), taken[c], recv_buf[c], Len(handled[c])) <=>
                        /\ Len(recv_buf[c]) <= taken[c]
                        /\ recv_buf[c] = SubSeq(Stream(c), Cut(c) + 1, taken[c])
                        /\ Len(handled[c]) <= Cardinality(EndsUpTo(c, Cut(c)))
  BY DEF Tails, BufferIsTail
<1> DEFINE stream == Stream(c)
           buffer == recv_buf[c]
           n == taken[c]
           cut == Cut(c)
<1>1. /\ stream \in Seq(Tokens) /\ buffer \in Seq(Tokens) /\ n \in 0 .. Len(stream)
      /\ cut = n - Len(buffer) /\ Len(buffer) \in Nat /\ Len(stream) \in Nat
  <2>1. ConnTypes /\ FromPlans
    BY TypesInParts DEF BaseInv
  <2>2. stream \in Seq(Tokens) /\ Len(stream) \in Nat
    BY <2>1, StreamOf
  <2>3. buffer \in Seq(Tokens) /\ Len(buffer) \in Nat
    BY <2>1 DEF ConnTypes
  <2>4. arrived[c] \in 0 .. Len(stream) /\ n \in 0 .. arrived[c]
    BY <2>1 DEF ConnTypes
  <2>5. QED
    BY <2>2, <2>3, <2>4 DEF Cut
<1>2. EndsUpTo(c, cut) = Ends(stream, cut)
  BY DEF EndsUpTo, Ends
<1> HIDE DEF stream, buffer, n, cut
<1>3. ASSUME Len(buffer) <= n
      PROVE  buffer = SubSeq(stream, cut + 1, n) <=> StandsAt(buffer, stream, cut)
  <2> DEFINE part == SubSeq(stream, cut + 1, n)
  <2>0. cut \in Nat /\ n \in cut .. Len(stream) /\ n - cut = Len(buffer)
    BY <1>1, <1>3
  <2>1. /\ part \in Seq(Tokens) /\ Len(part) = Len(buffer)
        /\ \A i \in 1 .. Len(buffer) : part[i] = stream[cut + i]
    BY <1>1, <2>0, SubSeqIs
  <2> HIDE DEF part
  <2>2. ASSUME buffer = part PROVE StandsAt(buffer, stream, cut)
    BY <2>1, <2>2 DEF StandsAt
  <2>3. ASSUME StandsAt(buffer, stream, cut) PROVE buffer = part
    <3>1. \A i \in 1 .. Len(buffer) : buffer[i] = part[i]
      BY <2>1, <2>3 DEF StandsAt
    <3>2. QED
      BY <1>1, <2>1, <3>1, SameSeq
  <2>4. QED
    BY <2>2, <2>3 DEF part
<1>4. QED
  BY <1>1, <1>2, <1>3 DEF TailOf, stream, buffer, n, cut

-----------------------------------------------------------------------------
(* Connections that have only had plain messages.                          *)

Aligned(c) ==
    /\ Len(handled[c]) <= Len(messages[c])
    /\ Cut(c) = WireLength[messages[c]][Len(handled[c])]
    /\ stored[c] = NoLength

\* What is cut from such a connection is its next message, as it was meant.
LEMMA PlainCut ==
    ASSUME BaseInv, Tails, NEW c \in Conns, Aligned(c), ~ HadStray(c), NEW text \in RequestTexts(c)
    PROVE  LET n == Len(handled[c]) + 1
           IN  /\ n \in 1 .. Len(messages[c])
               /\ Plain(messages[c][n])
               /\ Accepted(text, stored[c])
               /\ Parsed(text, stored[c]) = Meaning(messages[c][n])
               /\ Cut(c) + Len(text) = WireLength[messages[c]][n]
               /\ WireLength[messages[c]][n] <= taken[c]
<1> DEFINE ms == messages[c]
           k == Len(handled[c])
           ends == WireLength[ms]
           buffer == recv_buf[c]
           stream == Stream(c)
           cut == Cut(c)
<1>1. /\ ms \in Seq(Message) /\ stream \in Seq(Tokens) /\ Laid(Texts(ms), stream, ends)
      /\ Len(Texts(ms)) = Len(ms)
  BY StreamOf DEF BaseInv
<1>2. /\ buffer \in Seq(Tokens) /\ k \in Nat /\ taken[c] \in Nat /\ taken[c] <= Len(stream)
      /\ Len(stream) \in Nat
  <2>1. ConnTypes
    BY TypesInParts DEF BaseInv
  <2>2. arrived[c] \in 0 .. Len(stream) /\ taken[c] \in 0 .. arrived[c] /\ Len(stream) \in Nat
    BY <1>1, <2>1 DEF ConnTypes
  <2>3. buffer \in Seq(Tokens) /\ handled[c] \in Seq([known : BOOLEAN, body : Nat])
    BY <2>1 DEF ConnTypes
  <2>4. QED
    BY <2>2, <2>3
<1>3. /\ cut = taken[c] - Len(buffer) /\ Len(buffer) \in Nat /\ Len(buffer) <= taken[c]
      /\ StandsAt(buffer, stream, cut) /\ cut = ends[k] /\ k <= Len(ms) /\ stored[c] = NoLength
  BY <1>2 DEF Tails, TailOf, Aligned, Cut
<1>4. /\ HasHeader(buffer) /\ text \in Seq(Tokens) /\ Len(text) = RequestLen(buffer)
      /\ Len(text) <= Len(buffer) /\ Len(text) \in Nat /\ Begins(text, buffer)
  BY <1>2, CutIs
<1> HIDE DEF ms, k, ends, buffer, stream, cut
<1>5. k # Len(ms)
  \* Nothing would be left in the buffer.
  <2>1. SUFFICES ASSUME k = Len(ms) PROVE FALSE
    OBVIOUS
  <2>2. cut = Len(stream)
    BY <1>1, <1>3, <2>1 DEF Laid
  <2>3. Len(buffer) = 0
    BY <1>2, <1>3, <2>2
  <2>4. QED
    BY <1>4, <2>3 DEF HasHeader
<1> DEFINE n == k + 1
           m == ms[n]
           b == m.body
           whole == Render(m)
<1>6. Len(ms) \in Nat /\ n \in 1 .. Len(ms) /\ n - 1 = k
  BY <1>1, <1>2, <1>3, <1>5
<1>7. m \in Message
  BY <1>1, <1>6
<1>8. Plain(m)
  <2>1. \A i \in 1 .. Len(ms) : i <= k + 1 => Plain(ms[i])
    BY DEF HadStray, ms, k
  <2>2. QED
    BY <1>6, <2>1
<1>9. /\ b \in Nat /\ HeaderSize(b) + b < Size /\ Len(whole) = HeaderSize(b) + b
      /\ Starts(whole, b) /\ whole \in Seq(Tokens)
  BY <1>7, <1>8, RenderPlain, RenderType
<1>10. Texts(ms)[n] = whole
  BY <1>1, <1>6 DEF Texts
<1>11. ends[n] = cut + Len(whole) /\ StandsAt(whole, stream, cut)
  <2>1. n - 1 = k /\ n \in 1 .. Len(Texts(ms))
    BY <1>1, <1>6
  <2>2. ends[n] = ends[n - 1] + Len(Texts(ms)[n]) /\ StandsAt(Texts(ms)[n], stream, ends[n - 1])
    <3> HIDE DEF n
    <3> QED BY <1>1, <2>1 DEF Laid
  <2>3. QED
    BY <1>3, <1>10, <2>1, <2>2
<1>12. HeaderSize(b) \in {2, 3}
  BY DEF HeaderSize
<1> HIDE DEF n, m, b, whole
<1>13. \A i \in 1 .. Len(buffer) : i <= Len(whole) => buffer[i] = whole[i]
  <2>1. ASSUME NEW i \in 1 .. Len(buffer), i <= Len(whole) PROVE buffer[i] = whole[i]
    <3>1. i \in 1 .. Len(whole)
      BY <1>9, <1>12, <2>1
    <3>2. buffer[i] = stream[cut + i]
      BY <1>3 DEF StandsAt
    <3>3. whole[i] = stream[cut + i]
      BY <1>11, <3>1 DEF StandsAt
    <3>4. QED
      BY <3>2, <3>3
  <2>2. QED
    BY <2>1
<1>14. Starts(buffer, b)
  <2>1. \A i \in 1 .. HeaderSize(b) : i <= Len(buffer) => buffer[i] = whole[i]
    BY <1>3, <1>9, <1>12, <1>13
  <2>2. QED
    BY <1>2, <1>4, <1>9, <2>1, HeaderIsThere
<1>15. Len(text) = HeaderSize(b) + b
  BY <1>2, <1>4, <1>9, <1>14, PlainFraming
<1>16. text = whole
  <2>1. \A i \in 1 .. Len(text) : text[i] = whole[i]
    <3>1. ASSUME NEW i \in 1 .. Len(text) PROVE text[i] = whole[i]
      <4>1. i \in 1 .. Len(buffer) /\ i <= Len(whole)
        BY <1>3, <1>4, <1>9, <1>15
      <4>2. text[i] = buffer[i]
        BY <1>4 DEF Begins
      <4>3. QED
        BY <1>13, <4>1, <4>2
    <3>2. QED
      BY <3>1
  <2>2. Len(text) = Len(whole)
    BY <1>9, <1>15
  <2>3. QED
    BY <1>4, <1>9, <2>1, <2>2, SameSeq
<1>17. Accepted(text, NoLength) /\ Parsed(text, NoLength) = [known |-> TRUE, body |-> b]
  BY <1>4, <1>9, <1>15, <1>16, PlainAccepted
<1>18. cut + Len(text) = ends[n] /\ ends[n] <= taken[c]
  BY <1>2, <1>3, <1>4, <1>11, <1>16
<1>19. Meaning(m) = [known |-> TRUE, body |-> b]
  BY DEF Meaning, b
<1>20. QED
  <2>1. /\ n \in 1 .. Len(ms) /\ Plain(m) /\ Accepted(text, stored[c])
        /\ Parsed(text, stored[c]) = Meaning(m)
        /\ cut + Len(text) = ends[n] /\ ends[n] <= taken[c]
    BY <1>3, <1>6, <1>8, <1>17, <1>18, <1>19
  <2>2. QED
    BY <2>1 DEF n, m, ms, k, ends, cut

-----------------------------------------------------------------------------
(* The invariant of the session.                                           *)

Kept(c) ==
    /\ TailOf(Stream(c), taken[c], recv_buf[c], Len(handled[c]))
    /\ stored[c] # NoLength => lengthKept[c]
    /\ HadStray(c) \/ Aligned(c)
AllKept == \A c \in Conns : Kept(c)

LEMMA SessionInvIs == ASSUME BaseInv PROVE SessionInv <=> AllKept
  BY TailsIs DEF BaseInv, SessionInv, AllKept, Kept, Tails, StoredForReason, InStep, Aligned

LEMMA InitKept == ASSUME Init PROVE AllKept
<1>1. BaseInv
  BY BaseInit
<1>2. ASSUME NEW c \in Conns PROVE Kept(c)
  <2>1. /\ taken[c] = 0 /\ recv_buf[c] = <<>> /\ handled[c] = <<>> /\ stored[c] = NoLength
    BY DEF Init
  <2>2. Len(recv_buf[c]) = 0 /\ Len(handled[c]) = 0 /\ 0 \in Nat
    BY <2>1
  <2>3. Cardinality(Ends(Stream(c), 0)) \in Nat
    BY EndsGrow
  <2>4. TailOf(Stream(c), taken[c], recv_buf[c], Len(handled[c]))
    BY <2>1, <2>2, <2>3 DEF TailOf, StandsAt
  <2>5. Laid(Texts(messages[c]), Stream(c), WireLength[messages[c]]) /\ messages[c] \in Seq(Message)
    BY <1>1, StreamOf DEF BaseInv
  <2>6. Aligned(c)
    BY <2>1, <2>2, <2>5 DEF Aligned, Cut, Laid
  <2>7. QED
    BY <2>1, <2>4, <2>6 DEF Kept
<1>3. QED
  BY <1>2 DEF AllKept

\* Nothing happens to c.
LEMMA SameKept ==
    ASSUME NEW c \in Conns, Kept(c), messages' = messages,
           taken'[c] = taken[c], recv_buf'[c] = recv_buf[c], handled'[c] = handled[c],
           stored'[c] = stored[c], lengthKept'[c] = lengthKept[c]
    PROVE  Kept(c)'
  BY DEF Kept, TailOf, StandsAt, Ends, HadStray, Aligned, Cut, Stream

LEMMA ReadKept == ASSUME BaseInv, AllKept, NEW w \in Workers, Read(w) PROVE AllKept'
<1> DEFINE c == work[w]
<1>1. c \in Conns
  BY BusyWorker DEF Read
<1>2. ConnTypes /\ FromPlans
  BY TypesInParts DEF BaseInv
<1>3. UNCHANGED <<messages, handled, stored, lengthKept>>
  BY DEF Read, clientVars
<1>4. CASE status[c] = "open" /\ Unread(c)
  <2> DEFINE got == SubSeq(Stream(c), taken[c] + 1, arrived[c])
  <2>1. /\ recv_buf' = [recv_buf EXCEPT ![c] = @ \o got]
        /\ taken' = [taken EXCEPT ![c] = arrived[c]]
    BY <1>4 DEF Read
  <2>2. recv_buf'[c] = recv_buf[c] \o got /\ taken'[c] = arrived[c]
    BY <1>1, <1>2, <2>1 DEF ConnTypes, FromPlans
  <2>3. /\ Stream(c) \in Seq(Tokens) /\ recv_buf[c] \in Seq(Tokens) /\ taken[c] \in Nat
        /\ arrived[c] \in taken[c] .. Len(Stream(c))
    BY <1>1, <1>2, StreamOf DEF ConnTypes, FromPlans
  <2>4. QED
    <3> SUFFICES ASSUME NEW d \in Conns PROVE Kept(d)'
      BY DEF AllKept
    <3>1. CASE d # c
      <4>1. recv_buf'[d] = recv_buf[d] /\ taken'[d] = taken[d]
        BY <1>2, <2>1, <3>1 DEF ConnTypes, FromPlans
      <4>2. QED
        BY <1>3, <4>1, SameKept DEF AllKept
    <3>2. CASE d = c
      <4>1. TailOf(Stream(d), taken[d], recv_buf[d], Len(handled[d])) /\ Kept(d)
        BY DEF AllKept, Kept
      <4> HIDE DEF got
      <4>2. /\ recv_buf'[d] = recv_buf[d] \o SubSeq(Stream(d), taken[d] + 1, arrived[d])
            /\ taken'[d] = arrived[d]
        BY <2>2, <3>2 DEF got
      <4>3. /\ Stream(d) \in Seq(Tokens) /\ recv_buf[d] \in Seq(Tokens) /\ taken[d] \in Nat
            /\ arrived[d] \in taken[d] .. Len(Stream(d))
        BY <2>3, <3>2
      <4>4. /\ TailOf(Stream(d), arrived[d], recv_buf'[d], Len(handled[d]))
            /\ arrived[d] - Len(recv_buf'[d]) = taken[d] - Len(recv_buf[d])
        <5> DEFINE stream == Stream(d)
                   buffer == recv_buf[d]
                   n == taken[d]
                   m == arrived[d]
                   longer == recv_buf'[d]
                   k == Len(handled[d])
        <5>1. /\ TailOf(stream, n, buffer, k) /\ longer = buffer \o SubSeq(stream, n + 1, m)
              /\ stream \in Seq(Tokens) /\ buffer \in Seq(Tokens) /\ n \in Nat
              /\ m \in n .. Len(stream)
          BY <4>1, <4>2, <4>3
        <5> HIDE DEF stream, buffer, n, m, longer, k
        <5>2. TailOf(stream, m, longer, k) /\ m - Len(longer) = n - Len(buffer)
          BY <5>1, TailRead
        <5>3. QED
          BY <5>2 DEF stream, buffer, n, m, longer, k
      <4>5. Cut(d)' = Cut(d) /\ Stream(d)' = Stream(d)
        BY <1>3, <4>2, <4>4 DEF Cut, Stream
      <4>6. TailOf(Stream(d), taken[d], recv_buf[d], Len(handled[d]))'
        <5>1. handled'[d] = handled[d]
          BY <1>3
        <5>2. TailOf(Stream(d)', taken'[d], recv_buf'[d], Len(handled'[d]))
          BY <4>2, <4>4, <4>5, <5>1
        <5>3. QED
          BY <5>2
      <4>7. QED
        BY <1>3, <4>1, <4>5, <4>6 DEF Kept, HadStray, Aligned
    <3>3. QED
      BY <3>1, <3>2
<1>5. CASE ~ (status[c] = "open" /\ Unread(c))
  BY <1>3, <1>5, SameKept DEF Read, AllKept
<1>6. QED
  BY <1>4, <1>5

LEMMA HandleRequestKept ==
    ASSUME BaseInv, AllKept, NEW w \in Workers, HandleRequest(w) PROVE AllKept'
<1>1. work[w] \in Conns
  BY BusyWorker DEF HandleRequest
<1>2. ConnTypes /\ FromPlans
  BY TypesInParts DEF BaseInv
<1>3. PICK c \in Conns : c = work[w]
  BY <1>1
<1>4. PICK text \in RequestTexts(c) :
          /\ Accepted(text, stored[c])
          /\ handled' = [handled EXCEPT ![c] = Append(@, Parsed(text, stored[c]))]
          /\ recv_buf' = [recv_buf EXCEPT ![c] = Rest(@, text)]
          /\ stored' = [stored EXCEPT ![c] = NoLength]
  BY <1>3 DEF HandleRequest, AfterHandling
<1>5. UNCHANGED <<messages, taken, lengthKept>>
  BY DEF HandleRequest, clientVars
<1>6. SUFFICES ASSUME NEW d \in Conns PROVE Kept(d)'
  BY DEF AllKept
<1>7. CASE d # c
  <2>1. recv_buf'[d] = recv_buf[d] /\ handled'[d] = handled[d] /\ stored'[d] = stored[d]
    BY <1>2, <1>4, <1>7 DEF ConnTypes
  <2>2. QED
    BY <1>5, <2>1, SameKept DEF AllKept
<1>8. CASE d = c
  <2> DEFINE rest == Rest(recv_buf[c], text)
             k == Len(handled[c])
             stream == Stream(c)
  <2>1. /\ recv_buf'[c] = rest /\ stored'[c] = NoLength
        /\ handled'[c] = Append(handled[c], Parsed(text, stored[c]))
    BY <1>2, <1>4 DEF ConnTypes
  <2>2. /\ recv_buf[c] \in Seq(Tokens) /\ stream \in Seq(Tokens) /\ taken[c] \in Nat
        /\ stored[c] \in Lengths \cup {NoLength}
    BY <1>2, StreamOf DEF ConnTypes, FromPlans
  <2>3. handled[c] \in Seq([known : BOOLEAN, body : Nat])
    BY <1>2 DEF ConnTypes
  <2>4. k \in Nat /\ Len(handled'[c]) = k + 1
    <3> DEFINE p == Parsed(text, stored[c])
               h == handled[c]
    <3>1. \E S : h \in Seq(S)
      BY <2>3
    <3> HIDE DEF p, h
    <3>2. Len(Append(h, p)) = Len(h) + 1 /\ Len(h) \in Nat
      BY <3>1
    <3>3. QED
      BY <2>1, <3>2 DEF p, h
  <2>5. /\ text \in Seq(Tokens) /\ Len(text) <= Len(recv_buf[c]) /\ Begins(text, recv_buf[c])
        /\ rest \in Seq(Tokens) /\ Len(rest) = Len(recv_buf[c]) - Len(text)
        /\ StandsAt(rest, recv_buf[c], Len(text))
    BY <2>2, CutIs
  <2>6. HasHeader(text)
    BY <1>4 DEF Accepted
  <2>7. TailOf(stream, taken[c], recv_buf[c], k) /\ Kept(c)
    BY DEF AllKept, Kept
  <2> HIDE DEF rest, k, stream
  <2>8. /\ TailOf(stream, taken[c], rest, k + 1)
        /\ taken[c] - Len(rest) = (taken[c] - Len(recv_buf[c])) + Len(text)
    BY <2>2, <2>4, <2>5, <2>6, <2>7, TailCut
  <2>9. Cut(c)' = Cut(c) + Len(text)
    BY <1>5, <2>1, <2>8 DEF Cut
  <2>10. TailOf(Stream(c), taken[c], recv_buf[c], Len(handled[c]))'
    <3>1. Stream(c)' = stream
      BY <1>5 DEF Stream, stream
    <3>2. TailOf(Stream(c)', taken'[c], recv_buf'[c], Len(handled'[c]))
      BY <1>5, <2>1, <2>4, <2>8, <3>1
    <3>3. QED
      BY <3>2
  <2>11. HadStray(c)' \/ Aligned(c)'
    <3>1. CASE HadStray(c)
      <4>1. PICK i \in 1 .. Len(messages[c]) : i <= k + 1 /\ ~ Plain(messages[c][i])
        BY <3>1 DEF HadStray, k
      <4>2. i <= Len(handled'[c]) + 1
        BY <2>4, <4>1
      <4>3. QED
        BY <1>5, <4>1, <4>2 DEF HadStray
    <3>2. CASE ~ HadStray(c)
      <4>1. Aligned(c) /\ Tails
        BY <2>7, <3>2 DEF Kept, AllKept, Tails
      <4>2. /\ k + 1 \in 1 .. Len(messages[c])
            /\ Cut(c) + Len(text) = WireLength[messages[c]][k + 1]
        BY <3>2, <4>1, PlainCut DEF k
      <4>3. Aligned(c)'
        BY <1>5, <2>1, <2>4, <2>9, <4>2 DEF Aligned
      <4>4. QED
        BY <4>3
    <3>3. QED
      BY <3>1, <3>2
  <2>12. Kept(c)'
    BY <2>1, <2>10, <2>11 DEF Kept
  <2>13. QED
    BY <1>8, <2>12
<1>9. QED
  BY <1>7, <1>8

LEMMA RejectKept == ASSUME BaseInv, AllKept, NEW w \in Workers, Reject(w) PROVE AllKept'
<1>1. work[w] \in Conns
  BY BusyWorker DEF Reject
<1>2. ConnTypes /\ FromPlans
  BY TypesInParts DEF BaseInv
<1>3. PICK c \in Conns : c = work[w]
  BY <1>1
<1>4. PICK text \in BadTexts(c) :
          /\ stored' = [stored EXCEPT ![c] = StoredLength(text, @)]
          /\ lengthKept' = [lengthKept EXCEPT ![c] = @ \/ StoredLength(text, NoLength) # NoLength]
  BY <1>3 DEF Reject
<1>5. UNCHANGED <<messages, taken, handled>> /\ recv_buf' = [recv_buf EXCEPT ![c] = <<>>]
  BY <1>3 DEF Reject, clientVars
<1>6. text \in RequestTexts(c) /\ ~ Accepted(text, stored[c])
  BY DEF BadTexts
<1>7. SUFFICES ASSUME NEW d \in Conns PROVE Kept(d)'
  BY DEF AllKept
<1>8. CASE d # c
  <2>1. recv_buf'[d] = recv_buf[d] /\ stored'[d] = stored[d] /\ lengthKept'[d] = lengthKept[d]
    BY <1>2, <1>4, <1>5, <1>8 DEF ConnTypes
  <2>2. QED
    BY <1>5, <2>1, SameKept DEF AllKept
<1>9. CASE d = c
  <2>1. /\ recv_buf'[c] = <<>> /\ stored'[c] = StoredLength(text, stored[c])
        /\ lengthKept'[c] = (lengthKept[c] \/ StoredLength(text, NoLength) # NoLength)
    BY <1>2, <1>4, <1>5 DEF ConnTypes
  <2>2. /\ recv_buf[c] \in Seq(Tokens) /\ Stream(c) \in Seq(Tokens) /\ taken[c] \in Nat
        /\ Len(handled[c]) \in Nat
    BY <1>2, StreamOf DEF ConnTypes, FromPlans
  <2>3. text \in Seq(Tokens)
    BY <1>6, <2>2, CutIs
  <2>4. Kept(c) /\ Tails
    BY DEF AllKept, Kept, Tails
  <2>5. TailOf(Stream(c), taken[c], <<>>, Len(handled[c]))
    BY <2>2, <2>4, TailClear DEF Kept
  <2>6. TailOf(Stream(c), taken[c], recv_buf[c], Len(handled[c]))'
    BY <1>5, <2>1, <2>5 DEF Stream
  <2>7. stored'[c] # NoLength => lengthKept'[c]
    <3>1. SUFFICES ASSUME stored'[c] # NoLength PROVE lengthKept'[c]
      OBVIOUS
    <3>2. CASE StoredLength(text, stored[c]) = stored[c]
      BY <2>1, <2>4, <3>1, <3>2 DEF Kept
    <3>3. CASE StoredLength(text, stored[c]) # stored[c]
      BY <2>1, <2>3, <3>1, <3>3, StoredLengthIs
    <3>4. QED
      BY <3>2, <3>3
  <2>8. HadStray(c)
    <3>1. CASE Aligned(c) /\ ~ HadStray(c)
      BY <1>6, <2>4, <3>1, PlainCut
    <3>2. QED
      BY <2>4, <3>1 DEF Kept
  <2>9. HadStray(c)'
    BY <1>5, <2>8 DEF HadStray
  <2>10. QED
    BY <1>9, <2>6, <2>7, <2>9 DEF Kept
<1>10. QED
  BY <1>8, <1>9

LEMMA StepKept == ASSUME BaseInv, AllKept, [Next]_vars PROVE AllKept'
<1>1. CASE UNCHANGED <<messages, connVars>>
  BY <1>1, SameKept DEF AllKept, connVars
<1>2. CASE \E c \in Conns : Arrive(c) \/ Finish(c)
  BY <1>1, <1>2 DEF Arrive, Finish
<1>3. CASE Second \/ LoopStep \/ UNCHANGED vars
  BY <1>1, <1>3 DEF Second, LoopStep, EpollWait, UpdateTimer, Expire, Accept, Lookup, vars, clientVars
<1>4. ASSUME NEW w \in Workers, WorkerStep(w) PROVE AllKept'
  <2>1. CASE Take(w) \/ Lock(w) \/ StopParsing(w)
    BY <1>1, <2>1 DEF Take, Lock, StopParsing, clientVars
  <2>2. QED
    BY <1>4, <2>1, ReadKept, HandleRequestKept, RejectKept DEF WorkerStep
<1>5. QED
  BY <1>2, <1>3, <1>4 DEF Next

\* handleRead: what is left in recv_buf is the end of what was read, what was
\* cut off is requests with a header each, a stored length has its reason, and
\* without a malformed message the cut lies between two messages.
THEOREM SessionInvariant == Spec => []SessionInv
<1> DEFINE I == BaseInv /\ AllKept
<1>1. Init => I
  BY BaseInit, InitKept
<1>2. I /\ [Next]_vars => I'
  BY BaseStep, StepKept
<1>3. I => SessionInv
  BY SessionInvIs
<1>4. QED
  <2> HIDE DEF I
  <2> QED BY <1>1, <1>2, <1>3, PTL DEF Spec

\* handleRead: every request that was handled had a header of its own in what
\* the client sent, whatever lengths were announced.
THEOREM HandledOncePerHeader == Spec => []OncePerHeader
<1>1. ASSUME SessionInv PROVE OncePerHeader
  <2>1. SUFFICES ASSUME NEW c \in Conns
                 PROVE  Len(handled[c]) <= Cardinality(EndsUpTo(c, taken[c]))
    BY DEF OncePerHeader
  <2>2. TailOf(Stream(c), taken[c], recv_buf[c], Len(handled[c]))
    BY <1>1, TailsIs DEF SessionInv, BaseInv, Tails
  <2>3. recv_buf[c] \in Seq(Tokens) /\ taken[c] \in Nat /\ Len(handled[c]) \in Nat
    BY <1>1, TypesInParts DEF SessionInv, ConnTypes, FromPlans
  <2>4. TailOf(Stream(c), taken[c], <<>>, Len(handled[c]))
    BY <2>2, <2>3, TailClear
  <2>5. Len(<<>>) = 0 /\ taken[c] - 0 = taken[c]
    BY <2>3
  <2>6. EndsUpTo(c, taken[c]) = Ends(Stream(c), taken[c])
    BY DEF EndsUpTo, Ends
  <2>7. QED
    BY <2>4, <2>5, <2>6 DEF TailOf
<1>2. QED
  BY <1>1, SessionInvariant, PTL

\* HttpRequest::parse and handleRead: a message as it should be is answered with
\* 400 only where req still holds a length of a text rejected before.
THEOREM PlainRejectedForReason == Spec => RejectedForReason
<1> DEFINE Good == \A w \in Workers : \A c \in Conns :
               work[w] = c /\ Reject(w) /\ BadTexts(c) \subseteq PlainTexts(c) => lengthKept[c]
<1>1. ASSUME SessionInv PROVE Good
  <2>1. SUFFICES ASSUME NEW w \in Workers, NEW c \in Conns, work[w] = c, Reject(w),
                        BadTexts(c) \subseteq PlainTexts(c)
                 PROVE  lengthKept[c]
    OBVIOUS
  <2>2. PICK text \in BadTexts(c) : TRUE
    BY <2>1 DEF Reject
  <2>3. ~ Accepted(text, stored[c])
    BY DEF BadTexts
  <2>4. PICK i \in DOMAIN messages[c] : text = Render(messages[c][i]) /\ Plain(messages[c][i])
    BY <2>1 DEF PlainTexts
  <2>5. messages[c] \in Seq(Message)
    BY <1>1, StreamOf DEF SessionInv
  <2>6. messages[c][i] \in Message
    BY <2>5
  <2>7. Accepted(text, NoLength)
    <3> DEFINE m == messages[c][i]
    <3>1. m \in Message /\ Plain(m) /\ text = Render(m)
      BY <2>4, <2>6
    <3> HIDE DEF m
    <3>2. QED
      BY <3>1, RenderPlain, RenderType, PlainAccepted
  <2>8. stored[c] # NoLength
    BY <2>3, <2>7
  <2>9. QED
    BY <1>1, <2>8 DEF SessionInv, StoredForReason
<1>2. Good => [Good]_vars
  OBVIOUS
<1>3. QED
  BY <1>1, SessionInvariant, PTL DEF RejectedForReason

-----------------------------------------------------------------------------
(* The session keeps the promise of RequestStream.                         *)

LEMMA WholeAt ==
    ASSUME FromPlans, NEW c \in Conns, NEW at \in Nat
    PROVE  LET ends == WireLength[messages[c]]
               whole == Max({n \in 0 .. Len(messages[c]) : ends[n] <= at})
           IN  /\ Len(messages[c]) \in Nat
               /\ whole \in 0 .. Len(messages[c])
               /\ ends[whole] <= at
               /\ \A n \in 0 .. Len(messages[c]) : ends[n] <= at => n <= whole
<1> DEFINE N == Len(messages[c])
           ends == WireLength[messages[c]]
           T == {n \in 0 .. N : ends[n] <= at}
<1>1. messages[c] \in Seq(Message) /\ ends[0] = 0
  BY StreamOf DEF Laid
<1>2. N \in Nat
  BY <1>1
<1> HIDE DEF N, ends
<1>3. T \subseteq 0 .. N /\ 0 \in T
  BY <1>1, <1>2
<1>4. Max(T) \in T /\ \A k \in T : k <= Max(T)
  <2> HIDE DEF T
  <2> QED BY <1>2, <1>3, MaxIs
<1>5. QED
  BY <1>2, <1>4 DEF N, ends

LEMMA WholeIs ==
    ASSUME BaseInv, NEW c \in Conns
    PROVE  LET ends == WireLength[messages[c]]
           IN  /\ Len(messages[c]) \in Nat
               /\ WhollyArrived(c) \in 0 .. Len(messages[c])
               /\ ends[WhollyArrived(c)] <= arrived[c]
               /\ \A n \in 0 .. Len(messages[c]) : ends[n] <= arrived[c] => n <= WhollyArrived(c)
<1>1. FromPlans /\ arrived[c] \in Nat
  BY DEF BaseInv, FromPlans
<1>2. QED
  BY <1>1, WholeAt DEF WhollyArrived

LEMMA PromiseInit == ASSUME Init PROVE Promise!Init
<1>1. BaseInv /\ FromPlans
  BY BaseInit DEF BaseInv
<1>2. ASSUME NEW c \in Conns PROVE WhollyArrived(c) = 0
  <2> DEFINE ends == WireLength[messages[c]]
             texts == Texts(messages[c])
             n == WhollyArrived(c)
  <2>1. arrived[c] = 0 /\ n \in 0 .. Len(messages[c]) /\ ends[n] <= 0 /\ Len(messages[c]) \in Nat
    BY <1>1, WholeIs DEF Init
  <2>2. Laid(texts, Stream(c), ends) /\ Len(texts) = Len(messages[c]) /\ messages[c] \in Seq(Message)
    BY <1>1, StreamOf
  <2>3. ASSUME n # 0 PROVE FALSE
    <3>1. n \in 1 .. Len(texts) /\ n \in DOMAIN messages[c]
      BY <2>1, <2>2, <2>3
    <3>2. ends[n - 1] \in Nat /\ ends[n] = ends[n - 1] + Len(texts[n])
      <4> HIDE DEF n, ends, texts
      <4> QED BY <2>2, <3>1 DEF Laid
    <3>3. messages[c][n] \in Message /\ texts[n] = Render(messages[c][n])
      BY <2>2, <3>1 DEF Texts
    <3>4. Len(texts[n]) \in Nat /\ 2 <= Len(texts[n])
      <4> HIDE DEF n, texts
      <4> QED BY <3>3, RenderType
    <3>5. QED
      <4> HIDE DEF n, ends, texts
      <4> QED BY <2>1, <3>2, <3>4
  <2>4. QED
    BY <2>3
<1>3. QED
  BY <1>2 DEF Promise!Init, SentMessages, Init

LEMMA PromiseArrive ==
    ASSUME BaseInv, BaseInv', NEW c \in Conns, Arrive(c)
    PROVE  Promise!Next
<1>1. PICK n \in arrived[c] + 1 .. Len(Stream(c)) : arrived' = [arrived EXCEPT ![c] = n]
  BY DEF Arrive
<1>2. UNCHANGED <<messages, handled>>
  BY DEF Arrive, connVars
<1>3. arrived \in [Conns -> Nat] /\ Len(Stream(c)) \in Nat
  BY StreamOf DEF BaseInv, FromPlans
<1>4. n \in Nat /\ arrived[c] <= n
  BY <1>1, <1>3
<1>5. ASSUME NEW d \in Conns
      PROVE  /\ WhollyArrived(d) \in Nat /\ WhollyArrived(d)' \in Nat
             /\ WhollyArrived(d)' <= Len(messages[d]) /\ Len(messages[d]) \in Nat
             /\ WhollyArrived(d) <= WhollyArrived(d)'
             /\ d # c => WhollyArrived(d)' = WhollyArrived(d)
  <2> DEFINE ends == WireLength[messages[d]]
             x == WhollyArrived(d)
             y == WhollyArrived(d)'
             N == Len(messages[d])
  <2>1. N \in Nat /\ x \in 0 .. N /\ ends[x] <= arrived[d]
    BY WholeIs
  <2>2. y \in 0 .. N /\ \A k \in 0 .. N : ends[k] <= arrived'[d] => k <= y
    <3>1. FromPlans /\ arrived'[d] \in Nat
      BY <1>2, <1>3, <1>4, <1>1 DEF BaseInv
    <3>2. PICK at \in Nat : at = arrived'[d]
      BY <3>1
    <3> DEFINE whole == Max({k \in 0 .. N : ends[k] <= at})
    <3>3. y = whole
      BY <1>2, <3>2 DEF WhollyArrived
    <3>4. whole \in 0 .. N /\ \A k \in 0 .. N : ends[k] <= at => k <= whole
      BY <3>1, WholeAt
    <3> HIDE DEF y, whole, N, ends
    <3>5. QED
      BY <3>2, <3>3, <3>4
  <2>3. arrived[d] <= arrived'[d] /\ arrived[d] \in Nat /\ arrived'[d] \in Nat
    BY <1>1, <1>3, <1>4
  <2>4. d # c => arrived'[d] = arrived[d]
    BY <1>1, <1>3
  <2>5. d # c => y = x
    BY <1>2, <2>4 DEF WhollyArrived
  <2>6. ends[x] \in Nat
    <3>1. Laid(Texts(messages[d]), Stream(d), ends) /\ Len(Texts(messages[d])) = N
          /\ Len(Stream(d)) \in Nat
      BY StreamOf DEF BaseInv
    <3>2. CASE x = N
      BY <3>1, <3>2 DEF Laid
    <3>3. CASE x # N
      <4>1. x + 1 \in 1 .. N /\ (x + 1) - 1 = x
        BY <2>1, <3>3
      <4>2. ends[(x + 1) - 1] \in Nat
        <5> HIDE DEF x, ends, N
        <5> QED BY <3>1, <4>1 DEF Laid
      <4>3. QED
        BY <4>1, <4>2
    <3>4. QED
      BY <3>2, <3>3
  <2> HIDE DEF ends, x, y, N
  <2>7. x <= y
    BY <2>1, <2>2, <2>3, <2>6
  <2>8. QED
    BY <2>1, <2>2, <2>5, <2>7 DEF x, y, N
<1>6. Promise!Send(c)
  <2>1. SentMessages' = [d \in Conns |-> WhollyArrived(d)']
    BY DEF SentMessages
  <2>2. SentMessages' \in [Conns -> Nat]
    BY <1>5, <2>1
  <2>3. SentMessages'[c] \in SentMessages[c] .. Len(messages[c])
    BY <1>5, <2>1 DEF SentMessages
  <2>4. \A d \in Conns \ {c} : SentMessages'[d] = SentMessages[d]
    BY <1>5, <2>1 DEF SentMessages
  <2>5. QED
    BY <1>2, <2>2, <2>3, <2>4 DEF Promise!Send
<1>7. QED
  BY <1>6 DEF Promise!Next

LEMMA PromiseHandle ==
    ASSUME BaseInv, AllKept, NEW w \in Workers, HandleRequest(w)
    PROVE  Promise!Next
<1>1. PICK c \in Conns : c = work[w]
  BY BusyWorker DEF HandleRequest
<1>2. PICK text \in RequestTexts(c) :
          /\ Accepted(text, stored[c])
          /\ handled' = [handled EXCEPT ![c] = Append(@, Parsed(text, stored[c]))]
  BY <1>1 DEF HandleRequest
<1>3. UNCHANGED <<messages, SentMessages>>
  BY DEF HandleRequest, clientVars, SentMessages, WhollyArrived
<1>4. ConnTypes /\ FromPlans
  BY TypesInParts DEF BaseInv
<1>5. CASE HadStray(c)
  <2> DEFINE r == Parsed(text, stored[c])
  <2>1. recv_buf[c] \in Seq(Tokens) /\ stored[c] \in Lengths \cup {NoLength}
    BY <1>4 DEF ConnTypes
  <2>2. text \in Seq(Tokens) /\ HasHeader(recv_buf[c]) /\ Len(text) = RequestLen(recv_buf[c])
    BY <2>1, CutIs
  <2>3. r \in [known : BOOLEAN, body : Nat] /\ r.body <= Len(text)
    BY <1>2, <2>1, <2>2, ParsedIs
  <2>4. Len(text) \in 0 .. Size - 1
    BY <2>1, <2>2, RequestLenType
  <2>5. r \in Outcomes
    <3>1. r.body \in 0 .. Size
      BY <2>3, <2>4, SizeAssumption
    <3>2. r = [known |-> r.known, body |-> r.body] /\ r.known \in BOOLEAN
      BY <2>3
    <3> HIDE DEF r
    <3>3. QED
      BY <3>1, <3>2 DEF Outcomes
  <2>6. handled' = [handled EXCEPT ![c] = Append(@, r)]
    BY <1>2
  <2> HIDE DEF r
  <2>7. Promise!Stray(c)
    BY <1>3, <1>5, <2>5, <2>6 DEF Promise!Stray, HadStray
  <2>8. QED
    BY <2>7 DEF Promise!Next
<1>6. CASE ~ HadStray(c)
  <2> DEFINE n == Len(handled[c]) + 1
  <2>1. Aligned(c) /\ Tails
    BY <1>6 DEF AllKept, Kept, Tails
  <2>2. /\ n \in 1 .. Len(messages[c]) /\ Plain(messages[c][n])
        /\ Parsed(text, stored[c]) = Meaning(messages[c][n])
        /\ WireLength[messages[c]][n] <= taken[c]
    BY <1>6, <2>1, PlainCut
  <2>3. \A i \in 1 .. Len(messages[c]) : i <= n => Plain(messages[c][i])
    BY <1>6 DEF HadStray
  <2>4. /\ Len(messages[c]) \in Nat
        /\ \A k \in 0 .. Len(messages[c]) :
               WireLength[messages[c]][k] <= arrived[c] => k <= WhollyArrived(c)
    BY WholeIs
  <2>5. arrived[c] \in Nat /\ taken[c] \in 0 .. arrived[c]
    BY <1>4 DEF ConnTypes, FromPlans
  <2> HIDE DEF n
  <2>6. WireLength[messages[c]][n] <= arrived[c]
    <3>1. WireLength[messages[c]][n] \in Nat
      <4>1. Laid(Texts(messages[c]), Stream(c), WireLength[messages[c]])
            /\ Len(Texts(messages[c])) = Len(messages[c])
        BY <1>4, StreamOf
      <4>2. Texts(messages[c])[n] = Render(messages[c][n]) /\ messages[c][n] \in Message
        <5>1. messages[c] \in Seq(Message)
          BY <1>4, StreamOf
        <5>2. n \in DOMAIN messages[c]
          BY <2>2, <5>1
        <5>3. QED
          BY <5>1, <5>2 DEF Texts
      <4>3. Len(Texts(messages[c])[n]) \in Nat
        BY <4>2, RenderType
      <4>4. QED
        BY <2>2, <4>1, <4>3 DEF Laid
    <3>2. QED
      BY <2>2, <2>5, <3>1
  <2>7. n <= SentMessages[c]
    BY <2>2, <2>4, <2>6 DEF SentMessages
  <2>8. Promise!PlainUpTo(c, n)
    BY <2>2, <2>3, <2>4 DEF Promise!PlainUpTo
  <2>9. handled' = [handled EXCEPT ![c] = Append(@, Meaning(messages[c][n]))]
    BY <1>2, <2>2
  <2>10. Promise!Handle(c)
    BY <1>3, <2>7, <2>8, <2>9 DEF Promise!Handle, n
  <2>11. QED
    BY <2>10 DEF Promise!Next
<1>7. QED
  BY <1>5, <1>6

LEMMA PromiseStep ==
    ASSUME BaseInv, BaseInv', AllKept, [Next]_vars
    PROVE  [Promise!Next]_(Promise!vars)
<1>1. CASE UNCHANGED <<messages, arrived, handled>>
  BY <1>1 DEF Promise!vars, SentMessages, WhollyArrived
<1>2. ASSUME NEW c \in Conns, Arrive(c) \/ Finish(c) PROVE [Promise!Next]_(Promise!vars)
  BY <1>1, <1>2, PromiseArrive DEF Finish, connVars
<1>3. CASE Second \/ LoopStep \/ UNCHANGED vars
  BY <1>1, <1>3
     DEF Second, LoopStep, EpollWait, UpdateTimer, Expire, Accept, Lookup, vars, clientVars, connVars
<1>4. ASSUME NEW w \in Workers, WorkerStep(w) PROVE [Promise!Next]_(Promise!vars)
  <2>1. CASE Take(w) \/ Lock(w) \/ StopParsing(w) \/ Read(w) \/ Reject(w)
    BY <1>1, <2>1 DEF Take, Lock, StopParsing, Read, Reject, clientVars, connVars
  <2>2. QED
    BY <1>4, <2>1, PromiseHandle DEF WorkerStep
<1>5. QED
  BY <1>2, <1>3, <1>4 DEF Next

\* handleRead keeps the promise of RequestStream: plain messages are handled in
\* order, each once, as they were meant and not before they are complete.
THEOREM KeepsPromise == Spec => StreamSpec
<1>1. Init => Promise!Init
  BY PromiseInit
<1>2. BaseInv /\ BaseInv' /\ AllKept /\ [Next]_vars => [Promise!Next]_(Promise!vars)
  BY PromiseStep
<1>3. SessionInv => BaseInv /\ AllKept
  BY SessionInvIs DEF SessionInv, BaseInv
<1>4. QED
  BY <1>1, <1>2, <1>3, SessionInvariant, PTL DEF Spec, StreamSpec, Promise!Spec

=============================================================================
