--------------------------- MODULE ChannelProofs ----------------------------
(***************************************************************************)
(* For any number of threads, channels, values and cells: every ring, also *)
(* one that grows, stays well formed; growth keeps what does not wrap      *)
(* around; a bounded channel is the queue of ChannelQueue; no signal is    *)
(* lost, and nobody sleeps on a closed channel.                            *)
(*                                                                         *)
(* The last part is about ChannelSelect, for any number of selects of any  *)
(* number of cases beside threads that call send and recv:                 *)
(* SELECT_ERR_ALL_CLOSED tells the truth, nobody sleeps on a closed        *)
(* channel, and the channels stay queues.                                  *)
(***************************************************************************)
EXTENDS ChannelSelect, FiniteSetTheorems, SequenceTheorems, WellFoundedInduction, TLAPS

-----------------------------------------------------------------------------
(* The ring. *)

\* Going around the ring once at most.
LEMMA Mod ==
  ASSUME NEW k \in Nat \ {0}, NEW n \in Nat, n < 2 * k
  PROVE  /\ n < k => n % k = n
         /\ n >= k => n % k = n - k
         /\ n % k \in 0 .. k - 1
OBVIOUS

\* Two places less than a lap apart are different cells.
LEMMA ModApart ==
  ASSUME NEW k \in Nat \ {0}, NEW x \in Nat, NEW y \in Nat,
         x < y, y < 2 * k, y < x + k
  PROVE  x % k # y % k
<1>1. x < 2 * k
  OBVIOUS
<1>2. /\ x < k => x % k = x
      /\ x >= k => x % k = x - k
  BY <1>1, Mod
<1>3. /\ y < k => y % k = y
      /\ y >= k => y % k = y - k
  BY Mod
<1> QED
  BY <1>2, <1>3

\* A step and then j more.
LEMMA ModShift ==
  ASSUME NEW k \in Nat \ {0}, NEW h \in 0 .. k - 1, NEW j \in 0 .. k - 1
  PROVE  (((h + 1) % k) + j) % k = (h + 1 + j) % k
<1>1. CASE h + 1 < k
  <2>1. (h + 1) % k = h + 1
    BY <1>1
  <2> QED
    BY <2>1
<1>2. CASE h + 1 = k
  <2>1. (h + 1) % k = 0
    BY <1>2
  <2>2. (h + 1 + j) % k = j
    <3>1. k + j \in Nat /\ k + j < 2 * k /\ k + j >= k
      OBVIOUS
    <3>2. (k + j) % k = (k + j) - k
      BY <3>1, Mod
    <3> QED
      BY <3>2, <1>2
  <2>3. j % k = j
    OBVIOUS
  <2> QED
    BY <2>1, <2>2, <2>3
<1> QED
  BY <1>1, <1>2

\* The l values of a ring of k cells, from cell h on.
RingSeq(b, k, h, l) == [i \in 1 .. l |-> b[(h + i - 1) % k]]

\* They are a sequence.
LEMMA RingSeqType ==
  ASSUME NEW k \in Nat \ {0}, NEW b \in [0 .. k - 1 -> Cell],
         NEW h \in 0 .. k - 1, NEW l \in 0 .. k
  PROVE  /\ RingSeq(b, k, h, l) \in Seq(Cell)
         /\ Len(RingSeq(b, k, h, l)) = l
         /\ (RingSeq(b, k, h, l) = <<>>) <=> (l = 0)
<1>1. \A i \in 1 .. l : (h + i - 1) % k \in 0 .. k - 1
  BY Mod
<1>2. RingSeq(b, k, h, l) \in [1 .. l -> Cell]
  BY <1>1 DEF RingSeq
<1>3. RingSeq(b, k, h, l) \in Seq(Cell) /\ Len(RingSeq(b, k, h, l)) = l
  BY <1>2
<1> QED
  BY <1>3, EmptySeq

\* b2 is b with v in cell p.
StoredAt(b, b2, k, p, v) ==
  b2[p] = v /\ \A j \in 0 .. k - 1 : j # p => b2[j] = b[j]

\* Storing a value in the first free cell appends it.
LEMMA RingPut ==
  ASSUME NEW k \in Nat \ {0}, NEW b \in [0 .. k - 1 -> Cell],
         NEW h \in 0 .. k - 1, NEW l \in 0 .. k - 1, NEW v \in Cell,
         NEW b2 \in [0 .. k - 1 -> Cell],
         NEW p, p = (h + l) % k, StoredAt(b, b2, k, p, v)
  PROVE  RingSeq(b2, k, h, l + 1) = Append(RingSeq(b, k, h, l), v)
<1>1. (h + l) % k \in 0 .. k - 1
  <2>1. h + l \in Nat /\ h + l < 2 * k
    OBVIOUS
  <2> QED
    BY <2>1, Mod
<1>3. ASSUME NEW i \in 1 .. l
      PROVE  b2[(h + i - 1) % k] = b[(h + i - 1) % k]
  <2>1. /\ h + i - 1 \in Nat /\ h + l \in Nat /\ h + i - 1 < h + l
        /\ h + l < 2 * k /\ h + l < (h + i - 1) + k
    OBVIOUS
  <2>2. (h + i - 1) % k # (h + l) % k
    BY <2>1, ModApart
  <2>3. h + i - 1 < 2 * k
    BY <2>1
  <2>4. (h + i - 1) % k \in 0 .. k - 1
    BY <2>1, <2>3, Mod
  <2> QED
    BY <2>2, <2>4 DEF StoredAt
<1>5. /\ RingSeq(b, k, h, l) \in Seq(Cell) /\ Len(RingSeq(b, k, h, l)) = l
      /\ RingSeq(b2, k, h, l + 1) \in Seq(Cell) /\ Len(RingSeq(b2, k, h, l + 1)) = l + 1
  <2>1. l \in 0 .. k /\ l + 1 \in 0 .. k
    OBVIOUS
  <2>2. RingSeq(b, k, h, l) \in Seq(Cell) /\ Len(RingSeq(b, k, h, l)) = l
    BY <2>1, RingSeqType
  <2>3. RingSeq(b2, k, h, l + 1) \in Seq(Cell) /\ Len(RingSeq(b2, k, h, l + 1)) = l + 1
    BY <2>1, RingSeqType
  <2> QED
    BY <2>2, <2>3
<1>6. ASSUME NEW i \in 1 .. l + 1
      PROVE  RingSeq(b2, k, h, l + 1)[i] = Append(RingSeq(b, k, h, l), v)[i]
  <2>1. RingSeq(b2, k, h, l + 1)[i] = b2[(h + i - 1) % k]
    BY DEF RingSeq
  <2>2. CASE i <= l
    <3>1. Append(RingSeq(b, k, h, l), v)[i] = RingSeq(b, k, h, l)[i]
      BY <1>5, <2>2, AppendProperties
    <3>2. RingSeq(b, k, h, l)[i] = b[(h + i - 1) % k]
      BY <2>2 DEF RingSeq
    <3> QED
      BY <2>1, <2>2, <3>1, <3>2, <1>3
  <2>3. CASE i = l + 1
    <3>1. Append(RingSeq(b, k, h, l), v)[i] = v
      BY <1>5, <2>3, AppendProperties
    <3>2. h + i - 1 = h + l
      BY <2>3
    <3> QED
      BY <2>1, <3>1, <3>2 DEF StoredAt
  <2>4. i <= l \/ i = l + 1
    OBVIOUS
  <2> QED
    BY <2>2, <2>3, <2>4
<1>7. /\ Append(RingSeq(b, k, h, l), v) \in Seq(Cell)
      /\ Len(Append(RingSeq(b, k, h, l), v)) = l + 1
  BY <1>5, AppendProperties
<1>8. RingSeq(b2, k, h, l + 1) = Append(RingSeq(b, k, h, l), v)
  <2> DEFINE s == RingSeq(b2, k, h, l + 1)
             t == Append(RingSeq(b, k, h, l), v)
  <2>1. /\ s \in Seq(Cell) /\ t \in Seq(Cell) /\ Len(s) = Len(t)
        /\ Len(s) = l + 1
    BY <1>5, <1>7
  <2>2. \A i \in 1 .. l + 1 : s[i] = t[i]
    BY <1>6
  <2> HIDE DEF s, t
  <2>3. s = t
    BY <2>1, <2>2, SeqEqual
  <2> QED
    BY <2>3 DEF s, t
<1> QED
  BY <1>8

\* Advancing the head removes the first value.
LEMMA RingTake ==
  ASSUME NEW k \in Nat \ {0}, NEW b \in [0 .. k - 1 -> Cell],
         NEW h \in 0 .. k - 1, NEW l \in 1 .. k
  PROVE  /\ (h + 1) % k \in 0 .. k - 1
         /\ Head(RingSeq(b, k, h, l)) = b[h]
         /\ RingSeq(b, k, (h + 1) % k, l - 1) = Tail(RingSeq(b, k, h, l))
<1>1. (h + 1) % k \in 0 .. k - 1
  BY Mod
<1>2. RingSeq(b, k, h, l) \in Seq(Cell) /\ Len(RingSeq(b, k, h, l)) = l
  BY RingSeqType
<1>3. Head(RingSeq(b, k, h, l)) = b[h]
  <2>1. RingSeq(b, k, h, l)[1] = b[(h + 1 - 1) % k]
    BY DEF RingSeq
  <2>2. h + 1 - 1 = h /\ h % k = h
    OBVIOUS
  <2> QED
    BY <1>2, <2>1, <2>2
<1>4. /\ Tail(RingSeq(b, k, h, l)) \in Seq(Cell) /\ Len(Tail(RingSeq(b, k, h, l))) = l - 1
      /\ \A i \in 1 .. l - 1 : Tail(RingSeq(b, k, h, l))[i] = RingSeq(b, k, h, l)[i + 1]
  <2>1. RingSeq(b, k, h, l) # <<>>
    BY RingSeqType
  <2> QED
    BY <1>2, <2>1, HeadTailProperties
<1>5. ASSUME NEW i \in 1 .. l - 1
      PROVE  b[(((h + 1) % k) + i - 1) % k] = RingSeq(b, k, h, l)[i + 1]
  <2>1. RingSeq(b, k, h, l)[i + 1] = b[(h + (i + 1) - 1) % k]
    BY DEF RingSeq
  <2>2. (((h + 1) % k) + (i - 1)) % k = (h + 1 + (i - 1)) % k
    <3>1. i - 1 \in 0 .. k - 1
      OBVIOUS
    <3> QED
      BY <3>1, ModShift
  <2>3. h + 1 + (i - 1) = h + (i + 1) - 1
    OBVIOUS
  <2>4. ((h + 1) % k) + (i - 1) = ((h + 1) % k) + i - 1
    BY <1>1
  <2> QED
    BY <2>1, <2>2, <2>3, <2>4
<1>6. /\ RingSeq(b, k, (h + 1) % k, l - 1) \in Seq(Cell)
      /\ Len(RingSeq(b, k, (h + 1) % k, l - 1)) = l - 1
  <2>1. l - 1 \in 0 .. k
    OBVIOUS
  <2> QED
    BY <1>1, <2>1, RingSeqType
<1>7. \A i \in 1 .. l - 1 :
        RingSeq(b, k, (h + 1) % k, l - 1)[i] = b[(((h + 1) % k) + i - 1) % k]
  BY DEF RingSeq
<1>8. RingSeq(b, k, (h + 1) % k, l - 1) = Tail(RingSeq(b, k, h, l))
  <2> DEFINE s == RingSeq(b, k, (h + 1) % k, l - 1)
             t == Tail(RingSeq(b, k, h, l))
  <2>1. /\ s \in Seq(Cell) /\ t \in Seq(Cell) /\ Len(s) = Len(t)
        /\ Len(s) = l - 1
    BY <1>4, <1>6
  <2>2. \A i \in 1 .. l - 1 : s[i] = t[i]
    BY <1>4, <1>5, <1>7
  <2> HIDE DEF s, t
  <2>3. s = t
    BY <2>1, <2>2, SeqEqual
  <2> QED
    BY <2>3 DEF s, t
<1> QED
  BY <1>1, <1>3, <1>8

-----------------------------------------------------------------------------
(* The inductive invariant. *)

\* A sender of T that waits has a value to send.  T is the set of the threads
\* that call send: all of them, or those beside the selects.
SendersHoldValues(T) ==
  \A t \in T, c \in Chans :
    t \in sendWait[c] \cup sendWoken[c] => sending[t] \in Vals

QueueInv(T) == TypeOK /\ SendersHoldValues(T)

\* TypeOK, in the part about the rings and the part about the threads.
RingsOK ==
  /\ cap \in [Chans -> Nat \ {0}]
  /\ \A c \in Chans : c \notin Unbounded => cap[c] = InitCap[c]
  /\ DOMAIN buf = Chans /\ \A c \in Chans : buf[c] \in [0 .. cap[c] - 1 -> Cell]
  /\ length \in [Chans -> Nat] /\ \A c \in Chans : length[c] <= cap[c]
  /\ head \in [Chans -> Nat] /\ \A c \in Chans : head[c] < cap[c]

ThreadsOK ==
  /\ closed \subseteq Chans
  /\ recvWait \in [Chans -> SUBSET Threads]
  /\ recvWoken \in [Chans -> SUBSET Threads]
  /\ sendWait \in [Chans -> SUBSET Threads]
  /\ sendWoken \in [Chans -> SUBSET Threads]
  /\ sending \in [Threads -> Cell] /\ res \in [Threads -> Answers]

\* The two parts are the whole.
LEMMA TypeParts == TypeOK <=> RingsOK /\ ThreadsOK
BY DEF TypeOK, RingsOK, ThreadsOK

\* The same after a step.
LEMMA TypePartsPrime == TypeOK' <=> RingsOK' /\ ThreadsOK'
BY DEF TypeOK, RingsOK, ThreadsOK

\* Channels start empty.
LEMMA QueueInvInit ==
  ASSUME NEW T \in SUBSET Threads, Init
  PROVE  QueueInv(T)
<1>1. RingsOK
  BY ChannelConstants DEF ChannelConstants, Init, RingsOK, Cell
<1>2. ThreadsOK
  BY DEF Init, ThreadsOK, Cell, Answers
<1>3. SendersHoldValues(T)
  BY DEF Init, SendersHoldValues
<1> QED
  BY <1>1, <1>2, <1>3, TypeParts DEF QueueInv

\* What the abstract queue holds.
LEMMA ContentsRing ==
  ASSUME NEW c \in Chans
  PROVE  /\ Contents(c) = RingSeq(buf[c], cap[c], head[c], length[c])
         /\ Contents(c)' = RingSeq(buf[c]', cap[c]', head[c]', length[c]')
BY DEF Contents, RingSeq

\* The invariant on one ring, in the form the ring lemmas take.
LEMMA RingAt ==
  ASSUME RingsOK, NEW c \in Chans
  PROVE  /\ cap[c] \in Nat \ {0} /\ buf[c] \in [0 .. cap[c] - 1 -> Cell]
         /\ head[c] \in 0 .. cap[c] - 1 /\ length[c] \in 0 .. cap[c]
         /\ Contents(c) \in Seq(Cell) /\ Len(Contents(c)) = length[c]
         /\ (Contents(c) = <<>>) <=> (length[c] = 0)
<1>1. /\ cap[c] \in Nat \ {0} /\ buf[c] \in [0 .. cap[c] - 1 -> Cell]
      /\ head[c] \in 0 .. cap[c] - 1 /\ length[c] \in 0 .. cap[c]
  BY DEF RingsOK
<1>2. Contents(c) = RingSeq(buf[c], cap[c], head[c], length[c])
  BY ContentsRing
<1> DEFINE k == cap[c]
           b == buf[c]
           h == head[c]
           l == length[c]
<1>3. /\ k \in Nat \ {0} /\ b \in [0 .. k - 1 -> Cell]
      /\ h \in 0 .. k - 1 /\ l \in 0 .. k
  BY <1>1
<1> HIDE DEF k, b, h, l
<1>4. /\ RingSeq(b, k, h, l) \in Seq(Cell)
      /\ Len(RingSeq(b, k, h, l)) = l
      /\ (RingSeq(b, k, h, l) = <<>>) <=> (l = 0)
  BY <1>3, RingSeqType
<1> QED
  BY <1>1, <1>2, <1>4 DEF k, b, h, l

-----------------------------------------------------------------------------
(* What the operations do to the rings. *)

\* A value is stored where there is room.
LEMMA PutRing ==
  ASSUME RingsOK, NEW c \in Chans, NEW v \in Vals, ~Full(c),
         Store(c, v, buf[c], cap[c], head[c])
  PROVE  /\ RingsOK'
         /\ Contents(c)' = Append(Contents(c), v)
         /\ \A d \in Chans \ {c} : Contents(d)' = Contents(d)
<1>1. /\ cap[c] \in Nat \ {0} /\ buf[c] \in [0 .. cap[c] - 1 -> Cell]
      /\ head[c] \in 0 .. cap[c] - 1 /\ length[c] \in 0 .. cap[c]
  BY RingAt
<1>2. length[c] \in 0 .. cap[c] - 1
  BY <1>1 DEF Full
<1>b. PICK b : b = [buf[c] EXCEPT ![(head[c] + length[c]) % cap[c]] = v]
  OBVIOUS
<1>3. /\ b \in [0 .. cap[c] - 1 -> Cell]
      /\ RingSeq(b, cap[c], head[c], length[c] + 1)
           = Append(RingSeq(buf[c], cap[c], head[c], length[c]), v)
  <2>1. v \in Cell
    BY DEF Cell
  <2>2. (head[c] + length[c]) % cap[c] \in 0 .. cap[c] - 1
    <3>1. head[c] + length[c] \in Nat /\ head[c] + length[c] < 2 * cap[c]
      BY <1>1, <1>2
    <3> QED
      BY <1>1, <3>1, Mod
  <2>3. /\ b \in [0 .. cap[c] - 1 -> Cell]
        /\ StoredAt(buf[c], b, cap[c], (head[c] + length[c]) % cap[c], v)
    BY <1>1, <1>b, <2>1, <2>2 DEF StoredAt
  <2>4. RingSeq(b, cap[c], head[c], length[c] + 1)
          = Append(RingSeq(buf[c], cap[c], head[c], length[c]), v)
    <3>1. cap[c] \in Nat \ {0}
      BY <1>1
    <3>2. buf[c] \in [0 .. cap[c] - 1 -> Cell]
      BY <1>1
    <3>3. head[c] \in 0 .. cap[c] - 1
      BY <1>1
    <3>4. b \in [0 .. cap[c] - 1 -> Cell]
      BY <2>3
    <3>5. StoredAt(buf[c], b, cap[c], (head[c] + length[c]) % cap[c], v)
      BY <2>3
    <3> QED
      BY RingPut, <3>1, <3>2, <3>3, <1>2, <3>4, <3>5, <2>1, ZenonT(30)
  <2> QED
    BY <2>3, <2>4
<1>4. buf' = [buf EXCEPT ![c] = b]
  BY <1>b DEF Store
<1>5. /\ buf[c]' = b /\ cap[c]' = cap[c] /\ head[c]' = head[c]
      /\ length[c]' = length[c] + 1
      /\ cap' = cap /\ head' = head
  BY <1>4 DEF Store, RingsOK
<1>6. \A d \in Chans \ {c} :
        buf[d]' = buf[d] /\ cap[d]' = cap[d] /\ head[d]' = head[d] /\ length[d]' = length[d]
  BY <1>4 DEF Store, RingsOK
<1>7. RingsOK'
  BY <1>1, <1>2, <1>3, <1>4, <1>5, <1>6 DEF Store, RingsOK
<1> QED
  BY <1>3, <1>5, <1>6, <1>7, ContentsRing

\* A ring of k cells, and as many of fresh memory.
Wide(b, k) == [i \in 0 .. 2 * k - 1 |-> IF i < k THEN b[i] ELSE Junk]

\* The n-th move of channel_unbounded_grow, from a ring that starts in cell h.
Moved(g, k, h, n) == [g EXCEPT ![n - 1] = g[(h + n - 1) % k]]

\* f[n] is the block after n moves, up to l.
IsMoves(f, b, k, h, l) ==
  f = [n \in 0 .. l |-> IF n = 0 THEN Wide(b, k) ELSE Moved(f[n - 1], k, h, n)]

\* A set with 0 and the successors of its elements has all naturals: the one
\* without them that is smallest would be neither 0 nor a successor.
LEMMA Induction ==
  ASSUME NEW S, 0 \in S, \A n \in Nat : n \in S => n + 1 \in S
  PROVE  \A n \in Nat : n \in S
<1> SUFFICES ASSUME Nat \ S # {}
             PROVE  FALSE
  OBVIOUS
<1>1. PICK x \in Nat \ S : \A y \in Nat \ S : <<y, x>> \notin OpToRel(<, Nat)
  BY NatLessThanWellFounded, WFMin
<1>2. x # 0 /\ x - 1 \in Nat
  OBVIOUS
<1>3. x - 1 \in Nat \ S
  BY <1>2
<1>4. <<x - 1, x>> \in OpToRel(<, Nat)
  BY <1>2 DEF OpToRel
<1> QED
  BY <1>1, <1>3, <1>4

\* The moves are well defined.
LEMMA MovesExist ==
  ASSUME NEW b, NEW k, NEW h, NEW l \in Nat
  PROVE  \E f : IsMoves(f, b, k, h, l)
<1> DEFINE S == {n \in Nat : \E f : IsMoves(f, b, k, h, n)}
<1>1. 0 \in S
  <2>1. IsMoves([n \in 0 .. 0 |-> Wide(b, k)], b, k, h, 0)
    BY DEF IsMoves
  <2> QED
    BY <2>1
<1>2. ASSUME NEW n \in Nat, n \in S
      PROVE  n + 1 \in S
  <2>1. PICK f : IsMoves(f, b, k, h, n)
    BY <1>2
  <2>2. PICK g : g = [j \in 0 .. n + 1 |->
                       IF j = n + 1 THEN Moved(f[n], k, h, n + 1) ELSE f[j]]
    OBVIOUS
  <2>3. ASSUME NEW j \in 0 .. n + 1
        PROVE  g[j] = IF j = 0 THEN Wide(b, k) ELSE Moved(g[j - 1], k, h, j)
    <3>1. CASE j = n + 1
      <4>1. g[j] = Moved(f[n], k, h, j) /\ g[j - 1] = f[n] /\ j # 0
        BY <2>2, <3>1
      <4> QED
        BY <4>1
    <3>2. CASE j # n + 1
      <4>1. j \in 0 .. n /\ g[j] = f[j] /\ (j # 0 => g[j - 1] = f[j - 1])
        BY <2>2, <3>2
      <4>2. f[j] = IF j = 0 THEN Wide(b, k) ELSE Moved(f[j - 1], k, h, j)
        BY <2>1, <4>1 DEF IsMoves
      <4> QED
        BY <4>1, <4>2
    <3> QED
      BY <3>1, <3>2
  <2>4. IsMoves(g, b, k, h, n + 1)
    BY <2>2, <2>3 DEF IsMoves
  <2> QED
    BY <2>4
<1> HIDE DEF S
<1>3. l \in S
  BY <1>1, <1>2, Induction
<1> QED
  BY <1>3 DEF S

LEMMA ModSub ==
  ASSUME NEW d \in Nat \ {0}, NEW n \in Nat, n >= d
  PROVE  (n - d) % d = n % d
<1>1. PICK q, r, s, u : q = n \div d /\ r = n % d /\ s = (n - d) \div d /\ u = (n - d) % d
  OBVIOUS
<1>2. /\ q \in Int /\ r \in 0 .. d - 1 /\ n = q * d + r
      /\ s \in Int /\ u \in 0 .. d - 1 /\ n - d = s * d + u
  BY <1>1
<1>3. (q - 1 - s) * d = u - r
  BY <1>2
<1>4. q - 1 - s = 0
  <2>1. CASE q - 1 - s >= 1
    <3>1. (q - 1 - s) * d >= d
      BY <1>2, <2>1
    <3> QED
      BY <1>2, <1>3, <3>1
  <2>2. CASE q - 1 - s <= -1
    <3>1. (q - 1 - s) * d <= -d
      BY <1>2, <2>2
    <3> QED
      BY <1>2, <1>3, <3>1
  <2> QED
    BY <1>2, <2>1, <2>2
<1>5. (q - 1 - s) * d = 0
  BY <1>2, <1>4
<1>6. u = r
  BY <1>2, <1>3, <1>5
<1> QED
  BY <1>1, <1>6

\* After n moves: the cells before n have got the values of the front, over and
\* over, and the others are as they were.
MovedTo(g, b, k, h, n) ==
  /\ \A j \in 0 .. n - 1 : g[j] = b[h + (j % (k - h))]
  /\ \A j \in n .. k - 1 : g[j] = b[j]

\* One move: a value of the front is read where it was, any other where a copy
\* has been put.
LEMMA MoveOne ==
  ASSUME NEW k \in Nat \ {0}, NEW b \in [0 .. k - 1 -> Cell],
         NEW h \in 0 .. k - 1, NEW n \in 0 .. k - 1,
         NEW g \in [0 .. 2 * k - 1 -> Cell], MovedTo(g, b, k, h, n)
  PROVE  /\ Moved(g, k, h, n + 1) \in [0 .. 2 * k - 1 -> Cell]
         /\ MovedTo(Moved(g, k, h, n + 1), b, k, h, n + 1)
<1>1. PICK p, d : p = (h + n) % k /\ d = k - h
  OBVIOUS
<1>2. /\ p \in 0 .. k - 1 /\ d \in 1 .. k
      /\ h + n < k => p = h + n
      /\ h + n >= k => p = h + n - k
  <2>1. PICK e \in Nat : e = h + n /\ e < 2 * k
    OBVIOUS
  <2>2. /\ e < k => e % k = e
        /\ e >= k => e % k = e - k
        /\ e % k \in 0 .. k - 1
    BY <2>1, Mod
  <2> QED
    BY <1>1, <2>1, <2>2
<1>3. PICK m : m = [g EXCEPT ![n] = g[p]]
  OBVIOUS
<1>4. Moved(g, k, h, n + 1) = m
  <2>1. (n + 1) - 1 = n /\ h + (n + 1) - 1 = h + n
    OBVIOUS
  <2> QED
    BY <1>1, <1>3, <2>1 DEF Moved
<1>5. /\ m \in [0 .. 2 * k - 1 -> Cell] /\ m[n] = g[p]
      /\ \A j \in 0 .. 2 * k - 1 : j # n => m[j] = g[j]
  <2>1. p \in 0 .. 2 * k - 1 /\ n \in 0 .. 2 * k - 1
    BY <1>2
  <2> QED
    BY <1>3, <2>1
<1>6. g[p] = b[h + (n % d)]
  <2>1. CASE h + n < k
    <3>1. p = h + n /\ n < d /\ n \in Nat /\ d \in Nat \ {0} /\ p \in n .. k - 1
      BY <1>1, <1>2, <2>1
    <3>2. n % d = n
      <4>1. n < 2 * d
        BY <3>1
      <4> QED
        BY <3>1, <4>1, Mod
    <3>3. g[p] = b[p]
      BY <3>1 DEF MovedTo
    <3> QED
      BY <3>1, <3>2, <3>3
  <2>2. CASE h + n >= k
    <3>1. p = n - d /\ n >= d /\ n \in Nat /\ d \in Nat \ {0} /\ p \in 0 .. n - 1
      BY <1>1, <1>2, <2>2
    <3>2. g[p] = b[h + (p % d)]
      BY <1>1, <3>1 DEF MovedTo
    <3>3. (n - d) % d = n % d
      BY <3>1, ModSub
    <3> QED
      BY <3>1, <3>2, <3>3
  <2> QED
    BY <2>1, <2>2
<1>7. \A j \in 0 .. (n + 1) - 1 : m[j] = b[h + (j % (k - h))]
  <2> SUFFICES ASSUME NEW j \in 0 .. (n + 1) - 1
               PROVE  m[j] = b[h + (j % (k - h))]
    OBVIOUS
  <2>1. CASE j = n
    BY <1>1, <1>5, <1>6, <2>1
  <2>2. CASE j # n
    <3>1. j \in 0 .. n - 1 /\ j \in 0 .. 2 * k - 1
      BY <2>2
    <3> QED
      BY <1>5, <2>2, <3>1 DEF MovedTo
  <2> QED
    BY <2>1, <2>2
<1>8. \A j \in n + 1 .. k - 1 : m[j] = b[j]
  <2> SUFFICES ASSUME NEW j \in n + 1 .. k - 1
               PROVE  m[j] = b[j]
    OBVIOUS
  <2>1. j \in n .. k - 1 /\ j # n /\ j \in 0 .. 2 * k - 1
    OBVIOUS
  <2> QED
    BY <1>5, <2>1 DEF MovedTo
<1> QED
  BY <1>4, <1>5, <1>7, <1>8 DEF MovedTo

\* What the moves do: they leave values or fresh memory in every cell, and
\* repeat the front.
LEMMA MovesKeep ==
  ASSUME NEW k \in Nat \ {0}, NEW b \in [0 .. k - 1 -> Cell],
         NEW h \in 0 .. k - 1, NEW l \in 0 .. k,
         NEW f, IsMoves(f, b, k, h, l)
  PROVE  f[l] \in [0 .. 2 * k - 1 -> Cell] /\ MovedTo(f[l], b, k, h, l)
<1> DEFINE S == {n \in Nat :
                   n <= l => /\ f[n] \in [0 .. 2 * k - 1 -> Cell]
                             /\ MovedTo(f[n], b, k, h, n)}
<1>0. /\ Wide(b, k) \in [0 .. 2 * k - 1 -> Cell]
      /\ MovedTo(Wide(b, k), b, k, h, 0)
  BY DEF Wide, Cell, MovedTo
<1>1. 0 \in S
  <2>1. f[0] = Wide(b, k)
    BY DEF IsMoves
  <2> QED
    BY <1>0, <2>1
<1>2. ASSUME NEW n \in Nat, n \in S
      PROVE  n + 1 \in S
  <2> SUFFICES ASSUME n + 1 <= l
               PROVE  /\ f[n + 1] \in [0 .. 2 * k - 1 -> Cell]
                      /\ MovedTo(f[n + 1], b, k, h, n + 1)
    OBVIOUS
  <2>1. /\ f[n] \in [0 .. 2 * k - 1 -> Cell]
        /\ MovedTo(f[n], b, k, h, n)
    BY <1>2
  <2>2. f[n + 1] = Moved(f[n], k, h, n + 1)
    BY DEF IsMoves
  <2>3. n \in 0 .. k - 1
    OBVIOUS
  <2> QED
    BY <2>1, <2>2, <2>3, MoveOne
<1> HIDE DEF S
<1>3. l \in S
  <2>1. l \in Nat
    OBVIOUS
  <2>2. \A n \in Nat : n \in S
    BY <1>1, <1>2, Induction
  <2> QED
    BY <2>1, <2>2
<1>4. l <= l
  OBVIOUS
<1> QED
  BY <1>3, <1>4, Zenon DEF S

\* MovedCells is the last of the moves.
LEMMA MovedIsLast ==
  ASSUME NEW c \in Chans, length[c] \in Nat
  PROVE  \E f : /\ IsMoves(f, buf[c], cap[c], head[c], length[c])
               /\ MovedCells(c) = f
<1> DEFINE R(f) == f = [n \in 0 .. length[c] |->
                         IF n = 0 THEN Wide(buf[c], cap[c])
                         ELSE [f[n - 1] EXCEPT ![n - 1] = f[n - 1][(head[c] + n - 1) % cap[c]]]]
<1>1. \E f : R(f)
  <2>1. PICK f : IsMoves(f, buf[c], cap[c], head[c], length[c])
    BY MovesExist
  <2>2. R(f)
    BY <2>1, Zenon DEF IsMoves, Moved
  <2> QED
    BY <2>2, Zenon
<1>2. MovedCells(c) = CHOOSE f : R(f)
  BY DEF MovedCells, Wide
<1> HIDE DEF R
<1>3. R(MovedCells(c))
  BY <1>1, <1>2
<1> QED
  BY <1>3 DEF R, IsMoves, Moved

\* The values of a full ring whose cells have been moved.
LEMMA GrownSeq ==
  ASSUME RingsOK, NEW c \in Chans, Full(c), NEW k, NEW b, NEW h,
         k = cap[c], b = buf[c], h = head[c], NEW w, MovedTo(w, b, k, h, k)
  PROVE  RingSeq(w, 2 * k, 0, k) = Grown(c)
<1>1. /\ k \in Nat \ {0} /\ h \in 0 .. k - 1 /\ length[c] = k
  BY RingAt DEF Full
<1>2. PICK d : d = k - h /\ d \in 1 .. k
  BY <1>1
<1>3. ASSUME NEW i \in 1 .. k
      PROVE  w[(0 + i - 1) % (2 * k)] = Contents(c)[((i - 1) % d) + 1]
  <2>1. PICK m : m = 2 * k
    OBVIOUS
  <2>2. m \in Nat \ {0} /\ 0 + i - 1 \in Nat /\ 0 + i - 1 < m /\ 0 + i - 1 = i - 1
    BY <1>1, <2>1
  <2>3. (0 + i - 1) % m = i - 1
    <3>1. PICK e \in Nat : e = 0 + i - 1 /\ e < m /\ e < 2 * m
      BY <2>2
    <3>2. e % m = e
      BY <2>2, <3>1, Mod
    <3> QED
      BY <2>2, <3>1, <3>2
  <2>4. PICK r : r = (i - 1) % d
    OBVIOUS
  <2>5. r \in 0 .. d - 1
    <3>1. d \in Nat \ {0} /\ i - 1 \in Nat
      BY <1>2
    <3> QED
      BY <2>4, <3>1
  <2>6. w[i - 1] = b[h + r]
    <3>1. i - 1 \in 0 .. k - 1
      BY <1>1
    <3> QED
      BY <1>2, <2>4, <3>1 DEF MovedTo
  <2>7. r + 1 \in 1 .. k /\ h + (r + 1) - 1 = h + r /\ h + r \in Nat /\ h + r < k
    BY <1>1, <1>2, <2>5
  <2>8. Contents(c)[r + 1] = b[(h + (r + 1) - 1) % k]
    BY <1>1, <2>7 DEF Contents
  <2>9. (h + (r + 1) - 1) % k = h + r
    <3>1. PICK e \in Nat : e = h + (r + 1) - 1 /\ e = h + r /\ e < k /\ e < 2 * k
      BY <1>1, <2>7
    <3>2. e % k = e
      BY <1>1, <3>1, Mod
    <3> QED
      BY <3>1, <3>2
  <2> QED
    BY <2>1, <2>3, <2>4, <2>6, <2>8, <2>9
<1>4. Grown(c) = [i \in 1 .. k |-> Contents(c)[((i - 1) % d) + 1]]
  BY <1>1, <1>2 DEF Grown, Front
<1> QED
  BY <1>3, <1>4 DEF RingSeq

\* A full ring grows and a value is stored in the first cell that is free.
LEMMA GrowRing ==
  ASSUME RingsOK, NEW c \in Unbounded, NEW v \in Vals, Full(c),
         Store(c, v, MovedCells(c)[length[c]], 2 * cap[c], 0)
  PROVE  RingsOK' /\ Contents(c)' = Append(Grown(c), v)
<1>0. c \in Chans
  BY ChannelConstants DEF ChannelConstants
<1>1. /\ cap[c] \in Nat \ {0} /\ buf[c] \in [0 .. cap[c] - 1 -> Cell]
      /\ head[c] \in 0 .. cap[c] - 1 /\ length[c] \in 0 .. cap[c]
      /\ length[c] = cap[c]
  BY <1>0, RingAt DEF Full
<1>2. PICK k, b, h : k = cap[c] /\ b = buf[c] /\ h = head[c]
  OBVIOUS
<1>3. k \in Nat \ {0} /\ b \in [0 .. k - 1 -> Cell] /\ h \in 0 .. k - 1 /\ length[c] = k
  BY <1>1, <1>2
<1>4. PICK w : w = MovedCells(c)[length[c]]
  OBVIOUS
<1>5. w \in [0 .. 2 * k - 1 -> Cell] /\ MovedTo(w, b, k, h, k)
  <2>1. PICK f : IsMoves(f, buf[c], cap[c], head[c], length[c]) /\ MovedCells(c) = f
    BY <1>0, <1>1, MovedIsLast
  <2>2. IsMoves(f, b, k, h, k) /\ w = f[k]
    BY <1>2, <1>3, <1>4, <2>1
  <2>3. k \in 0 .. k
    BY <1>3
  <2> QED
    BY <1>3, <2>2, <2>3, MovesKeep
<1>6. PICK b2 : b2 = [w EXCEPT ![k] = v]
  OBVIOUS
<1>7. /\ b2 \in [0 .. 2 * k - 1 -> Cell] /\ b2[k] = v
      /\ \A j \in 0 .. 2 * k - 1 : j # k => b2[j] = w[j]
  <2>1. v \in Cell /\ k \in 0 .. 2 * k - 1
    BY <1>3 DEF Cell
  <2> QED
    BY <1>5, <1>6, <2>1
<1>8. (0 + length[c]) % (2 * k) = k
  <2>1. PICK m : m = 2 * k
    OBVIOUS
  <2>2. m \in Nat \ {0} /\ k \in Nat /\ k < m /\ 0 + length[c] = k
    BY <1>3, <2>1
  <2>3. k % m = k
    BY <2>2
  <2> QED
    BY <2>1, <2>2, <2>3
<1>9. /\ buf' = [buf EXCEPT ![c] = b2] /\ cap' = [cap EXCEPT ![c] = 2 * k]
      /\ head' = [head EXCEPT ![c] = 0] /\ length' = [length EXCEPT ![c] = k + 1]
  BY <1>2, <1>3, <1>4, <1>6, <1>8 DEF Store
<1>10. /\ buf[c]' = b2 /\ cap[c]' = 2 * k /\ head[c]' = 0 /\ length[c]' = k + 1
  BY <1>0, <1>9 DEF RingsOK
<1>11. RingsOK'
  <2>1. 2 * k \in Nat \ {0} /\ k + 1 \in Nat /\ k + 1 <= 2 * k /\ 0 < 2 * k
    BY <1>3
  <2> QED
    BY <1>0, <1>7, <1>9, <1>10, <2>1 DEF RingsOK
<1>12. Contents(c)' = Append(Grown(c), v)
  <2>1. Contents(c)' = RingSeq(b2, 2 * k, 0, k + 1)
    BY <1>0, <1>10, ContentsRing
  <2>2. RingSeq(w, 2 * k, 0, k) = Grown(c)
    BY <1>0, <1>2, <1>5, GrownSeq
  <2>3. RingSeq(b2, 2 * k, 0, k + 1) = Append(RingSeq(w, 2 * k, 0, k), v)
    <3>1. PICK m : m = 2 * k
      OBVIOUS
    <3>2. m \in Nat \ {0} /\ w \in [0 .. m - 1 -> Cell] /\ b2 \in [0 .. m - 1 -> Cell]
          /\ 0 \in 0 .. m - 1 /\ k \in 0 .. m - 1 /\ v \in Cell
      BY <1>3, <1>5, <1>7, <3>1 DEF Cell
    <3>3. k = (0 + k) % m
      BY <1>3, <3>2
    <3>4. StoredAt(w, b2, m, k, v)
      BY <1>7, <3>1 DEF StoredAt
    <3>5. RingSeq(b2, m, 0, k + 1) = Append(RingSeq(w, m, 0, k), v)
      BY ZenonT(30), <3>2, <3>3, <3>4, RingPut
    <3> QED
      BY <3>1, <3>5
  <2> QED
    BY <2>1, <2>2, <2>3
<1> QED
  BY <1>11, <1>12

\* A value is taken where there is one.
LEMMA TakeRing ==
  ASSUME RingsOK, NEW c \in Chans, length[c] > 0,
         head' = [head EXCEPT ![c] = (@ + 1) % cap[c]],
         length' = [length EXCEPT ![c] = @ - 1],
         UNCHANGED <<buf, cap>>
  PROVE  /\ RingsOK'
         /\ buf[c][head[c]] = Head(Contents(c)) /\ buf[c][head[c]] \in Cell
         /\ Contents(c)' = Tail(Contents(c))
         /\ \A d \in Chans \ {c} : Contents(d)' = Contents(d)
<1>1. /\ cap[c] \in Nat \ {0} /\ buf[c] \in [0 .. cap[c] - 1 -> Cell]
      /\ head[c] \in 0 .. cap[c] - 1 /\ length[c] \in 0 .. cap[c]
  BY RingAt
<1>2. length[c] \in 1 .. cap[c]
  BY <1>1
<1> DEFINE h == (head[c] + 1) % cap[c]
<1>3. /\ h \in 0 .. cap[c] - 1
      /\ Head(RingSeq(buf[c], cap[c], head[c], length[c])) = buf[c][head[c]]
      /\ RingSeq(buf[c], cap[c], h, length[c] - 1)
           = Tail(RingSeq(buf[c], cap[c], head[c], length[c]))
  BY <1>1, <1>2, RingTake
<1>4. head' = [head EXCEPT ![c] = h]
  OBVIOUS
<1> HIDE DEF h
<1>5. /\ buf[c]' = buf[c] /\ cap[c]' = cap[c] /\ head[c]' = h
      /\ length[c]' = length[c] - 1
  BY <1>4 DEF RingsOK
<1>6. \A d \in Chans \ {c} :
        buf[d]' = buf[d] /\ cap[d]' = cap[d] /\ head[d]' = head[d] /\ length[d]' = length[d]
  BY <1>4 DEF RingsOK
<1>7. RingsOK'
  BY <1>1, <1>2, <1>3, <1>4, <1>5, <1>6 DEF RingsOK
<1>8. buf[c][head[c]] \in Cell
  BY <1>1
<1> QED
  BY <1>3, <1>5, <1>6, <1>7, <1>8, ContentsRing

\* The other operations leave the rings alone.
LEMMA SameRing ==
  ASSUME RingsOK, UNCHANGED ring
  PROVE  RingsOK' /\ \A c \in Chans : Contents(c)' = Contents(c)
BY ContentsRing DEF RingsOK, ring

-----------------------------------------------------------------------------
(* What the operations do to the condition variables. *)

\* A signal moves one thread, if any.
LEMMA SignalsOK ==
  ASSUME ThreadsOK, NEW c \in Chans
  PROVE  /\ SignalNotEmpty(c) => /\ recvWait' \in [Chans -> SUBSET Threads]
                                 /\ recvWoken' \in [Chans -> SUBSET Threads]
         /\ SignalNotFull(c) => /\ sendWait' \in [Chans -> SUBSET Threads]
                                /\ sendWoken' \in [Chans -> SUBSET Threads]
                                /\ \A d \in Chans : sendWait'[d] \cup sendWoken'[d]
                                                      = sendWait[d] \cup sendWoken[d]
<1>1. ASSUME SignalNotEmpty(c)
      PROVE  /\ recvWait' \in [Chans -> SUBSET Threads]
             /\ recvWoken' \in [Chans -> SUBSET Threads]
  BY <1>1 DEF SignalNotEmpty, ThreadsOK
<1>2. ASSUME SignalNotFull(c)
      PROVE  /\ sendWait' \in [Chans -> SUBSET Threads]
             /\ sendWoken' \in [Chans -> SUBSET Threads]
             /\ \A d \in Chans : sendWait'[d] \cup sendWoken'[d]
                                   = sendWait[d] \cup sendWoken[d]
  <2>1. CASE sendWait[c] = {}
    BY <1>2, <2>1 DEF SignalNotFull, ThreadsOK
  <2>2. CASE sendWait[c] # {}
    <3>1. PICK w \in sendWait[c] :
            /\ sendWait' = [sendWait EXCEPT ![c] = @ \ {w}]
            /\ sendWoken' = [sendWoken EXCEPT ![c] = @ \cup {w}]
      BY <1>2, <2>2 DEF SignalNotFull
    <3> QED
      BY <3>1 DEF ThreadsOK
  <2> QED
    BY <2>1, <2>2
<1> QED
  BY <1>1, <1>2

-----------------------------------------------------------------------------
(* Every operation keeps the invariant and is a step of the queue. *)

\* A step of the queue, or none.
QStep == [Queue!QNext]_(Queue!qvars)

\* The channels as the queue sees them.
Queues == [c \in Chans |-> Contents(c)]

\* How the operations on one channel map, and the values it holds.
LEMMA QueuesAt ==
  ASSUME NEW c \in Chans, NEW s,
         Contents(c)' = s, \A d \in Chans \ {c} : Contents(d)' = Contents(d)
  PROVE  Queues' = [Queues EXCEPT ![c] = s]
BY DEF Queues

\* Nothing about the rings changes.
LEMMA QueuesSame ==
  ASSUME \A c \in Chans : Contents(c)' = Contents(c)
  PROVE  Queues' = Queues
BY DEF Queues

\* A sender with room.
LEMMA PutStep ==
  ASSUME NEW T \in SUBSET Threads, QueueInv(T),
         NEW t \in Threads, NEW c \in Chans, NEW v \in Vals,
         ~Full(c), Put(t, c, v)
  PROVE  QueueInv(T)' /\ (c \notin Unbounded => QStep)
<1>1. RingsOK /\ ThreadsOK /\ SendersHoldValues(T)
  BY TypeParts DEF QueueInv
<1>2. /\ RingsOK'
      /\ Contents(c)' = Append(Contents(c), v)
      /\ \A d \in Chans \ {c} : Contents(d)' = Contents(d)
  BY <1>1, PutRing DEF Put
<1>3. ThreadsOK'
  BY <1>1, SignalsOK DEF Put, ThreadsOK, Answer, Answers
<1>4. SendersHoldValues(T)'
  BY <1>1 DEF Put, SendersHoldValues, ThreadsOK
<1>5. Queues' = [Queues EXCEPT ![c] = Append(Contents(c), v)]
  BY <1>2, QueuesAt
<1>6. c \notin Unbounded => Len(Contents(c)) < InitCap[c]
  BY <1>1, RingAt DEF RingsOK, Full
<1>7. c \notin Unbounded => Queue!QPut(t, c, v)
  BY <1>5, <1>6 DEF Queue!QPut, Queue!Answer, Queues, Put, Answer
<1> QED
  BY <1>2, <1>3, <1>4, <1>7, TypePartsPrime DEF QueueInv, QStep, Queue!QNext

\* A receiver that finds a value.
LEMMA TakeStep ==
  ASSUME NEW T \in SUBSET Threads, QueueInv(T),
         NEW t \in Threads, NEW c \in Chans,
         length[c] > 0, Take(t, c)
  PROVE  QueueInv(T)' /\ QStep
<1>1. RingsOK /\ ThreadsOK /\ SendersHoldValues(T)
  BY TypeParts DEF QueueInv
<1>2. /\ RingsOK'
      /\ buf[c][head[c]] = Head(Contents(c)) /\ buf[c][head[c]] \in Cell
      /\ Contents(c)' = Tail(Contents(c))
      /\ \A d \in Chans \ {c} : Contents(d)' = Contents(d)
  BY <1>1, TakeRing DEF Take
<1>3. ThreadsOK'
  BY <1>1, <1>2, SignalsOK DEF Take, ThreadsOK, Answer, Answers
<1>4. SendersHoldValues(T)'
  BY <1>1, SignalsOK DEF Take, SendersHoldValues
<1>5. Queues' = [Queues EXCEPT ![c] = Tail(Contents(c))]
  BY <1>2, QueuesAt
<1>6. Contents(c) # <<>>
  BY <1>1, RingAt
<1>7. Queue!QTake(t, c)
  BY <1>2, <1>5, <1>6 DEF Queue!QTake, Queue!Answer, Queues, Take, Answer
<1> QED
  BY <1>2, <1>3, <1>4, <1>7, TypePartsPrime DEF QueueInv, QStep, Queue!QNext

\* A step that leaves the rings, the channels that are closed and the answers
\* alone is a stutter of the queue.
LEMMA HiddenStep ==
  ASSUME \A c \in Chans : Contents(c)' = Contents(c), UNCHANGED <<closed, res>>
  PROVE  QStep
<1>1. Queues' = Queues
  BY QueuesSame
<1> QED
  BY <1>1 DEF QStep, Queue!qvars, Queues

\* A call that answers, or starts to wait, and leaves the rings alone.
LEMMA AnswerStep ==
  ASSUME NEW T \in SUBSET Threads, QueueInv(T),
         NEW t \in Threads, NEW c \in Chans, NEW r, UNCHANGED <<ring, closed>>,
         Answer(t, r),
         \/ r = NoRes
         \/ r = "closed" /\ c \in closed
         \/ r = "busy" /\ c \notin Unbounded /\ length[c] = InitCap[c]
         \/ r = "busy" /\ length[c] = 0
  PROVE  QStep
<1>1. RingsOK
  BY TypeParts DEF QueueInv
<1>2. Queues' = Queues
  BY <1>1, SameRing, QueuesSame
<1>3. (Contents(c) = <<>> <=> length[c] = 0) /\ Len(Contents(c)) = length[c]
  BY <1>1, RingAt
<1>4. CASE r = NoRes
  <2>1. Queue!QWait(t)
    BY <1>2, <1>4 DEF Queue!QWait, Queue!Answer, Queues, Answer
  <2> QED
    BY <2>1 DEF QStep, Queue!QNext
<1>5. CASE r = "closed" /\ c \in closed
  <2>1. Queue!QRefuse(t, c)
    BY <1>2, <1>5 DEF Queue!QRefuse, Queue!Answer, Queues, Answer
  <2> QED
    BY <2>1 DEF QStep, Queue!QNext
<1>6. CASE /\ r = "busy"
           /\ (c \notin Unbounded /\ length[c] = InitCap[c]) \/ length[c] = 0
  <2>1. Queue!QBusy(t, c)
    <3>1. Queues[c] = Contents(c)
      BY DEF Queues
    <3> QED
      BY <1>2, <1>3, <1>6, <3>1 DEF Queue!QBusy, Queue!Answer, Queues, Answer
  <2> QED
    BY <2>1 DEF QStep, Queue!QNext
<1> QED
  BY <1>4, <1>5, <1>6

\* The invariant after a step that leaves the rings alone.
LEMMA SameRingsInv ==
  ASSUME NEW T \in SUBSET Threads, QueueInv(T), UNCHANGED ring, ThreadsOK', SendersHoldValues(T)'
  PROVE  QueueInv(T)'
BY TypeParts, TypePartsPrime, SameRing DEF QueueInv

\* A sender that is refused.
LEMMA RefusedStep ==
  ASSUME NEW T \in SUBSET Threads, QueueInv(T),
         NEW t \in Threads, NEW c \in Chans, SendRefused(t, c)
  PROVE  QueueInv(T)' /\ (c \in closed => QStep)
<1>1. ThreadsOK /\ SendersHoldValues(T)
  BY TypeParts DEF QueueInv
<1>2. ThreadsOK'
  BY <1>1 DEF SendRefused, ThreadsOK, Answer, Answers
<1>3. SendersHoldValues(T)'
  BY <1>1 DEF SendRefused, SendersHoldValues, ThreadsOK
<1>4. QueueInv(T)'
  BY <1>2, <1>3, SameRingsInv DEF SendRefused
<1>5. c \in closed => QStep
  BY AnswerStep DEF SendRefused
<1> QED
  BY <1>4, <1>5

\* A sender that goes to sleep with its value.
LEMMA WaitNotFullStep ==
  ASSUME NEW T \in SUBSET Threads, QueueInv(T),
         NEW t \in Threads, NEW c \in Chans, NEW v \in Vals, WaitNotFull(t, c, v)
  PROVE  QueueInv(T)' /\ QStep
<1>1. ThreadsOK /\ SendersHoldValues(T)
  BY TypeParts DEF QueueInv
<1>2. ThreadsOK'
  BY <1>1 DEF WaitNotFull, ThreadsOK, Answer, Answers, Cell
<1>3. SendersHoldValues(T)'
  BY <1>1 DEF WaitNotFull, SendersHoldValues, ThreadsOK
<1>4. QueueInv(T)'
  BY <1>2, <1>3, SameRingsInv DEF WaitNotFull
<1>5. QStep
  BY AnswerStep DEF WaitNotFull
<1> QED
  BY <1>4, <1>5

\* A receiver that learns of the end.
LEMMA EndStep ==
  ASSUME NEW T \in SUBSET Threads, QueueInv(T),
         NEW t \in Threads, NEW c \in Chans, c \in closed, RecvEnd(t, c)
  PROVE  QueueInv(T)' /\ QStep
<1>1. ThreadsOK /\ SendersHoldValues(T)
  BY TypeParts DEF QueueInv
<1>2. ThreadsOK'
  BY <1>1 DEF RecvEnd, ThreadsOK, Answer, Answers
<1>3. SendersHoldValues(T)'
  BY <1>1 DEF RecvEnd, SendersHoldValues
<1>4. QueueInv(T)'
  BY <1>2, <1>3, SameRingsInv DEF RecvEnd
<1>5. QStep
  BY AnswerStep DEF RecvEnd
<1> QED
  BY <1>4, <1>5

\* A receiver that goes to sleep.
LEMMA WaitNotEmptyStep ==
  ASSUME NEW T \in SUBSET Threads, QueueInv(T),
         NEW t \in Threads, NEW c \in Chans, WaitNotEmpty(t, c)
  PROVE  QueueInv(T)' /\ QStep
<1>1. ThreadsOK /\ SendersHoldValues(T)
  BY TypeParts DEF QueueInv
<1>2. ThreadsOK'
  BY <1>1 DEF WaitNotEmpty, ThreadsOK, Answer, Answers
<1>3. SendersHoldValues(T)'
  BY <1>1 DEF WaitNotEmpty, SendersHoldValues
<1>4. QueueInv(T)'
  BY <1>2, <1>3, SameRingsInv DEF WaitNotEmpty
<1>5. QStep
  BY AnswerStep DEF WaitNotEmpty
<1> QED
  BY <1>4, <1>5

\* try_send on a full channel, try_recv on an empty one.
LEMMA BusyStep ==
  ASSUME NEW T \in SUBSET Threads, QueueInv(T),
         NEW t \in Threads, NEW c \in Chans, Answer(t, "busy"),
         (c \notin Unbounded /\ length[c] = InitCap[c]) \/ length[c] = 0,
         UNCHANGED <<ring, closed, recvWait, recvWoken, sendWait, sendWoken, sending>>
  PROVE  QueueInv(T)' /\ QStep
<1>1. ThreadsOK /\ SendersHoldValues(T)
  BY TypeParts DEF QueueInv
<1>2. ThreadsOK'
  BY <1>1 DEF ThreadsOK, Answer, Answers
<1>3. SendersHoldValues(T)'
  BY <1>1 DEF SendersHoldValues
<1>4. QueueInv(T)'
  BY <1>2, <1>3, SameRingsInv
<1>5. QStep
  BY AnswerStep
<1> QED
  BY <1>4, <1>5

\* Closing.
LEMMA CloseStep ==
  ASSUME NEW T \in SUBSET Threads, QueueInv(T), NEW c \in Chans, Close(c)
  PROVE  QueueInv(T)' /\ QStep
<1>1. RingsOK /\ ThreadsOK /\ SendersHoldValues(T)
  BY TypeParts DEF QueueInv
<1>2. ThreadsOK'
  BY <1>1 DEF Close, ThreadsOK
<1>3. SendersHoldValues(T)'
  BY <1>1 DEF Close, SendersHoldValues, ThreadsOK
<1>4. QueueInv(T)'
  BY <1>2, <1>3, SameRingsInv DEF Close
<1>5. Queues' = Queues
  BY <1>1, SameRing, QueuesSame DEF Close
<1>6. Queue!QClose(c)
  BY <1>5 DEF Close, Queue!QClose, Queues
<1> QED
  BY <1>4, <1>6 DEF QStep, Queue!QNext

\* Waking without a signal.
LEMMA SpuriousStep ==
  ASSUME NEW T \in SUBSET Threads, QueueInv(T),
         NEW t \in Threads, NEW c \in Chans, Spurious(t, c)
  PROVE  QueueInv(T)' /\ QStep
<1>1. RingsOK /\ ThreadsOK /\ SendersHoldValues(T)
  BY TypeParts DEF QueueInv
<1>2. ThreadsOK'
  BY <1>1 DEF Spurious, ThreadsOK
<1>3. SendersHoldValues(T)'
  BY <1>1 DEF Spurious, SendersHoldValues, ThreadsOK
<1>4. UNCHANGED <<ring, closed, res>>
  BY DEF Spurious
<1>5. QueueInv(T)'
  BY <1>2, <1>3, <1>4, SameRingsInv
<1>6. QStep
  BY <1>1, <1>4, SameRing, HiddenStep
<1> QED
  BY <1>5, <1>6

\* An unbounded channel that is full grows and takes a value.
LEMMA GrowStep ==
  ASSUME NEW T \in SUBSET Threads, QueueInv(T),
         NEW t \in Threads, NEW c \in Unbounded, NEW v \in Vals,
         Full(c), GrowAndPut(t, c, v)
  PROVE  QueueInv(T)'
<1>1. RingsOK /\ ThreadsOK /\ SendersHoldValues(T)
  BY TypeParts DEF QueueInv
<1>2. RingsOK'
  BY <1>1, GrowRing DEF GrowAndPut
<1>3. c \in Chans
  BY ChannelConstants DEF ChannelConstants
<1>4. ThreadsOK'
  BY <1>1, <1>3, SignalsOK DEF GrowAndPut, ThreadsOK, Answer, Answers
<1>5. SendersHoldValues(T)'
  BY <1>1 DEF GrowAndPut, SendersHoldValues
<1> QED
  BY <1>2, <1>4, <1>5, TypePartsPrime DEF QueueInv

\* The calls of a thread on a channel.
Call(t, c) ==
  \/ \E v \in Vals : Send(t, c, v) \/ TrySend(t, c, v)
  \/ SendResume(t, c) \/ Recv(t, c) \/ RecvResume(t, c) \/ TryRecv(t, c)

\* Every call keeps the invariant; where nothing grows it is a step of the
\* queue, or none.
LEMMA CallStep ==
  ASSUME NEW T \in SUBSET Threads, QueueInv(T),
         NEW t \in T, NEW c \in Chans, Call(t, c)
  PROVE  QueueInv(T)' /\ (Unbounded = {} => QStep)
<1> DEFINE Goal == QueueInv(T)' /\ (Unbounded = {} => QStep)
<1>0. t \in Threads
  OBVIOUS
<1>1. ASSUME NEW v \in Vals, SendLoop(t, c, v)
      PROVE  Goal
  BY <1>0, <1>1, PutStep, RefusedStep, WaitNotFullStep DEF SendLoop
<1>2. ASSUME NEW v \in Vals, Send(t, c, v)
      PROVE  Goal
  <2>1. CASE SendRefused(t, c) /\ (c \in closed \/ c \in Unbounded)
    BY <1>0, <2>1, RefusedStep
  <2>2. CASE SendLoop(t, c, v)
    BY <1>1, <2>2
  <2>3. CASE ~Full(c) /\ Put(t, c, v)
    BY <1>0, <2>3, PutStep
  <2>4. CASE c \in Unbounded /\ Full(c) /\ GrowAndPut(t, c, v)
    BY <1>0, <2>4, GrowStep
  <2> QED
    BY <1>2, <2>1, <2>2, <2>3, <2>4 DEF Send, SendUnbounded
<1>3. ASSUME NEW v \in Vals, TrySend(t, c, v)
      PROVE  Goal
  <2>1. Full(c) => length[c] = InitCap[c]
    BY <1>3, TypeParts DEF QueueInv, RingsOK, Full, TrySend
  <2>2. CASE c \in closed /\ SendRefused(t, c)
    BY <1>0, <2>2, RefusedStep
  <2>3. CASE ~Full(c) /\ Put(t, c, v)
    BY <1>0, <2>3, PutStep
  <2>4. CASE /\ Full(c) /\ Answer(t, "busy")
             /\ UNCHANGED <<ring, closed, recvWait, recvWoken, sendWait, sendWoken, sending>>
    BY <1>0, <1>3, <2>1, <2>4, BusyStep DEF TrySend
  <2> QED
    BY <1>3, <2>2, <2>3, <2>4 DEF TrySend
<1>4. ASSUME SendResume(t, c)
      PROVE  Goal
  <2>1. sending[t] \in Vals
    BY <1>4 DEF SendResume, QueueInv, SendersHoldValues
  <2> QED
    BY <1>1, <1>4, <2>1 DEF SendResume
<1>5. ASSUME RecvLoop(t, c)
      PROVE  Goal
  BY <1>0, <1>5, TakeStep, EndStep, WaitNotEmptyStep DEF RecvLoop
<1>6. ASSUME TryRecv(t, c)
      PROVE  Goal
  <2>1. CASE length[c] > 0 /\ Take(t, c)
    BY <1>0, <2>1, TakeStep
  <2>2. CASE c \in closed /\ RecvEnd(t, c)
    BY <1>0, <2>2, EndStep
  <2>3. CASE /\ length[c] = 0 /\ Answer(t, "busy")
             /\ UNCHANGED <<ring, closed, recvWait, recvWoken, sendWait, sendWoken, sending>>
    BY <1>0, <2>3, BusyStep
  <2> QED
    BY <1>6, <2>1, <2>2, <2>3 DEF TryRecv
<1> QED
  BY <1>2, <1>3, <1>4, <1>5, <1>6 DEF Call, Recv, RecvResume

\* Nothing happens.
LEMMA StutterStep ==
  ASSUME NEW T \in SUBSET Threads, QueueInv(T), UNCHANGED vars
  PROVE  QueueInv(T)' /\ QStep
<1>1. RingsOK /\ ThreadsOK /\ SendersHoldValues(T)
  BY TypeParts DEF QueueInv
<1>2. UNCHANGED ring /\ UNCHANGED <<closed, res>>
  BY DEF vars, ring
<1>3. ThreadsOK' /\ SendersHoldValues(T)'
  BY <1>1 DEF vars, ThreadsOK, SendersHoldValues
<1>4. QueueInv(T)'
  BY <1>2, <1>3, SameRingsInv
<1>5. QStep
  BY <1>1, <1>2, SameRing, HiddenStep
<1> QED
  BY <1>4, <1>5

\* Every step keeps the invariant and, where nothing grows, is a step of the
\* queue, or none.
LEMMA QueueStep ==
  ASSUME QueueInv(Threads), [Next]_vars
  PROVE  QueueInv(Threads)' /\ (Unbounded = {} => QStep)
<1>1. ASSUME NEW t \in Threads, NEW c \in Chans, Call(t, c)
      PROVE  QueueInv(Threads)' /\ (Unbounded = {} => QStep)
  BY <1>1, CallStep
<1>2. ASSUME NEW t \in Threads, NEW c \in Chans, Spurious(t, c)
      PROVE  QueueInv(Threads)' /\ QStep
  BY <1>2, SpuriousStep
<1>3. ASSUME NEW c \in Chans, Close(c)
      PROVE  QueueInv(Threads)' /\ QStep
  BY <1>3, CloseStep
<1>4. CASE UNCHANGED vars
  BY <1>4, StutterStep
<1> QED
  BY <1>1, <1>2, <1>3, <1>4 DEF Next, Call

\* Capacities change when an unbounded channel grows, and only then.
LEMMA OnlyGrowthGrows ==
  ASSUME RingsOK, Next, NEW c \in Chans, cap'[c] # cap[c]
  PROVE  \E t \in Threads, d \in Unbounded, v \in Vals : Full(d) /\ GrowAndPut(t, d, v)
<1>1. ASSUME NEW d \in Chans, NEW t, NEW v
      PROVE  /\ ~Put(t, d, v) /\ ~Take(t, d) /\ ~SendRefused(t, d) /\ ~RecvEnd(t, d)
             /\ ~WaitNotFull(t, d, v) /\ ~WaitNotEmpty(t, d)
             /\ ~Spurious(t, d) /\ ~Close(d) /\ ~UNCHANGED ring
  <2>1. cap' # cap
    OBVIOUS
  <2>2. ~Put(t, d, v)
    <3>1. [cap EXCEPT ![d] = cap[d]] = cap
      BY DEF RingsOK
    <3> QED
      BY <2>1, <3>1 DEF Put, Store
  <2> QED
    BY <2>1, <2>2 DEF Take, SendRefused, RecvEnd, WaitNotFull, WaitNotEmpty, Spurious, Close, ring
<1>2. ASSUME NEW t, NEW d \in Chans, NEW v
      PROVE  ~SendLoop(t, d, v) /\ ~RecvLoop(t, d) /\ ~TrySend(t, d, v) /\ ~TryRecv(t, d)
  BY <1>1 DEF SendLoop, RecvLoop, TrySend, TryRecv
<1>3. PICK t \in Threads, d \in Chans, v \in Vals : Send(t, d, v)
  BY <1>1, <1>2 DEF Next, SendResume, Recv, RecvResume
<1>4. d \in Unbounded /\ Full(d) /\ GrowAndPut(t, d, v)
  BY <1>1, <1>2, <1>3 DEF Send, SendUnbounded
<1> QED
  BY <1>4

\* Channels start as empty queues.
LEMMA QueueInitRefined == Init => Queue!QInit
<1> SUFFICES ASSUME Init
             PROVE  Queue!QInit
  OBVIOUS
<1>1. RingsOK
  <2>1. QueueInv(Threads)
    BY QueueInvInit
  <2> QED
    BY <2>1, TypeParts DEF QueueInv
<1>2. \A c \in Chans : Contents(c) = <<>>
  BY <1>1, RingAt DEF Init
<1> QED
  BY <1>2 DEF Init, Queue!QInit

\* Channels, bounded or not, keep their rings, condition variables and answers
\* well formed, however many threads use them: no index leaves the ring, no
\* channel holds more values than cells, and a ring that grows in place
\* (channel_unbounded_grow) has a value or fresh memory in every cell.
THEOREM ChannelTypeCorrect == Spec => []TypeOK
<1>1. Init => QueueInv(Threads)
  BY QueueInvInit
<1>2. QueueInv(Threads) /\ [Next]_vars => QueueInv(Threads)'
  BY QueueStep
<1>3. QueueInv(Threads) => TypeOK
  BY DEF QueueInv
<1> QED
  BY <1>1, <1>2, <1>3, PTL DEF Spec

\* Bounded channels are first-in first-out queues: send, recv, the try variants
\* and close, by any number of threads in any order, lose, invent, repeat and
\* reorder no value, and tell "closed", full and empty only when that is so.
THEOREM BoundedIsQueue ==
  ASSUME Unbounded = {}
  PROVE  Spec => QueueRefined
<1>1. Init => QueueInv(Threads)
  BY QueueInvInit
<1>2. QueueInv(Threads) /\ [Next]_vars => QueueInv(Threads)'
  BY QueueStep
<1>3. QueueInv(Threads) /\ [Next]_vars => [Queue!QNext]_(Queue!qvars)
  BY QueueStep DEF QStep
<1> QED
  BY <1>1, <1>2, <1>3, QueueInitRefined, PTL
  DEF Spec, QueueRefined, Queue!QSpec

\* An unbounded channel that grows keeps the values that have not wrapped around
\* the end of its ring, in their order, before the value that is sent; it
\* replaces those that have by copies of the former, so that it keeps all of
\* them only if the ring starts in its first cell.
THEOREM GrowingKeepsFront == Spec => GrowKeepsFront
<1> DEFINE Keeps(c) == cap'[c] # cap[c] =>
                         \E v \in Vals : Contents(c)' = Append(Grown(c), v)
<1>1. Init => QueueInv(Threads)
  BY QueueInvInit
<1>2. QueueInv(Threads) /\ [Next]_vars => QueueInv(Threads)'
  BY QueueStep
<1>3. QueueInv(Threads) /\ [Next]_vars => [\A c \in Chans : Keeps(c)]_vars
  <2> SUFFICES ASSUME QueueInv(Threads), Next, NEW c \in Chans, cap'[c] # cap[c]
               PROVE  \E v \in Vals : Contents(c)' = Append(Grown(c), v)
    OBVIOUS
  <2>1. RingsOK
    BY TypeParts DEF QueueInv
  <2>2. PICK t \in Threads, d \in Unbounded, v \in Vals : Full(d) /\ GrowAndPut(t, d, v)
    BY <2>1, OnlyGrowthGrows
  <2>3. d = c
    BY <2>1, <2>2 DEF GrowAndPut, Store, RingsOK
  <2> QED
    BY <2>1, <2>2, <2>3, GrowRing DEF GrowAndPut
<1> QED
  BY <1>1, <1>2, <1>3, PTL DEF Spec, GrowKeepsFront

-----------------------------------------------------------------------------
(* Wakeups. *)

\* The counting part of the invariant, as a predicate of one channel's capacity
\* k, length l and sets of receivers and senders asleep (ra, sa) and woken
\* (rw, sw).  A thread is never both asleep and woken, so that a signal adds
\* one thread to those woken.
Sound(k, l, ra, rw, sa, sw) ==
  /\ k \in Nat \ {0} /\ l \in Nat /\ l <= k
  /\ ra \in SUBSET Threads /\ rw \in SUBSET Threads /\ ra \cap rw = {}
  /\ sa \in SUBSET Threads /\ sw \in SUBSET Threads /\ sa \cap sw = {}
  /\ ra # {} => l <= Cardinality(rw)
  /\ sa # {} => k - l <= Cardinality(sw)

SoundAt(c) ==
  Sound(cap[c], length[c], recvWait[c], recvWoken[c], sendWait[c], sendWoken[c])

\* Nobody sleeps on a closed channel, and no sender waits on an unbounded one.
QuietAt(c) ==
  /\ c \in closed => recvWait[c] = {} /\ sendWait[c] = {}
  /\ c \in Unbounded => sendWait[c] = {} /\ sendWoken[c] = {}

Shape ==
  /\ cap = [c \in Chans |-> cap[c]]
  /\ length = [c \in Chans |-> length[c]]
  /\ recvWait = [c \in Chans |-> recvWait[c]]
  /\ recvWoken = [c \in Chans |-> recvWoken[c]]
  /\ sendWait = [c \in Chans |-> sendWait[c]]
  /\ sendWoken = [c \in Chans |-> sendWoken[c]]
  /\ closed \subseteq Chans

WakeInv == Shape /\ \A c \in Chans : SoundAt(c) /\ QuietAt(c)

-----------------------------------------------------------------------------
(* Counting threads. *)

\* Adding and removing one thread.
LEMMA Counting ==
  ASSUME NEW S \in SUBSET Threads, NEW t
  PROVE  /\ Cardinality(S) \in Nat
         /\ t \in S => Cardinality(S \ {t}) = Cardinality(S) - 1
         /\ t \notin S => Cardinality(S \ {t}) = Cardinality(S)
         /\ t \notin S => Cardinality(S \cup {t}) = Cardinality(S) + 1
<1>1. IsFiniteSet(S)
  BY FS_Subset, ChannelConstants DEF ChannelConstants
<1>2. Cardinality(S) \in Nat
  BY <1>1, FS_CardinalityType
<1>3. t \in S => Cardinality(S \ {t}) = Cardinality(S) - 1
  BY <1>1, FS_RemoveElement
<1>4. t \notin S => S \ {t} = S
  OBVIOUS
<1>5. t \notin S => Cardinality(S \cup {t}) = Cardinality(S) + 1
  BY <1>1, FS_AddElement
<1> QED
  BY <1>2, <1>3, <1>4, <1>5

-----------------------------------------------------------------------------
(* What each operation does to one channel. *)

\* A value is stored, by a sender that was woken or not, and a receiver is
\* signalled if one sleeps.
LEMMA PutSound ==
  ASSUME NEW k, NEW l, NEW ra, NEW rw, NEW sa, NEW sw,
         Sound(k, l, ra, rw, sa, sw), l < k,
         NEW t, NEW ra2, NEW rw2,
         \/ ra = {} /\ ra2 = ra /\ rw2 = rw
         \/ \E w \in ra : ra2 = ra \ {w} /\ rw2 = rw \cup {w}
  PROVE  Sound(k, l + 1, ra2, rw2, sa, sw \ {t})
<1>1. /\ Cardinality(sw) \in Nat
      /\ Cardinality(sw \ {t}) \in {Cardinality(sw), Cardinality(sw) - 1}
  BY Counting DEF Sound
<1>2. sa # {} => k - (l + 1) <= Cardinality(sw \ {t})
  BY <1>1 DEF Sound
<1>3. /\ ra2 \in SUBSET Threads /\ rw2 \in SUBSET Threads /\ ra2 \cap rw2 = {}
      /\ ra = {} => ra2 = {}
  BY DEF Sound
<1>4. ra2 # {} => l + 1 <= Cardinality(rw2)
  <2>1. CASE ra = {}
    BY <2>1, <1>3
  <2>2. CASE ra # {}
    <3>1. PICK w \in ra : ra2 = ra \ {w} /\ rw2 = rw \cup {w}
      BY <2>2
    <3>2. w \notin rw
      BY <3>1 DEF Sound
    <3>3. Cardinality(rw) \in Nat /\ Cardinality(rw2) = Cardinality(rw) + 1
      BY <3>1, <3>2, Counting DEF Sound
    <3> QED
      BY <2>2, <3>3 DEF Sound
  <2> QED
    BY <2>1, <2>2
<1> QED
  BY <1>2, <1>3, <1>4 DEF Sound

\* A value is taken, by a receiver that was woken or not, and a sender is
\* signalled if one sleeps.
LEMMA TakeSound ==
  ASSUME NEW k, NEW l, NEW ra, NEW rw, NEW sa, NEW sw,
         Sound(k, l, ra, rw, sa, sw), l > 0,
         NEW t, NEW sa2, NEW sw2,
         \/ sa = {} /\ sa2 = sa /\ sw2 = sw
         \/ \E w \in sa : sa2 = sa \ {w} /\ sw2 = sw \cup {w}
  PROVE  Sound(k, l - 1, ra, rw \ {t}, sa2, sw2)
<1>1. /\ Cardinality(rw) \in Nat
      /\ Cardinality(rw \ {t}) \in {Cardinality(rw), Cardinality(rw) - 1}
  BY Counting DEF Sound
<1>2. ra # {} => l - 1 <= Cardinality(rw \ {t})
  BY <1>1 DEF Sound
<1>3. /\ sa2 \in SUBSET Threads /\ sw2 \in SUBSET Threads /\ sa2 \cap sw2 = {}
      /\ sa = {} => sa2 = {} /\ sw2 = sw
  BY DEF Sound
<1>4. sa2 # {} => k - (l - 1) <= Cardinality(sw2)
  <2>1. CASE sa = {}
    BY <2>1, <1>3
  <2>2. CASE sa # {}
    <3>1. PICK w \in sa : sa2 = sa \ {w} /\ sw2 = sw \cup {w}
      BY <2>2
    <3>2. w \notin sw
      BY <3>1 DEF Sound
    <3>3. Cardinality(sw) \in Nat /\ Cardinality(sw2) = Cardinality(sw) + 1
      BY <3>1, <3>2, Counting DEF Sound
    <3> QED
      BY <2>2, <3>3 DEF Sound
  <2> QED
    BY <2>1, <2>2
<1>5. l - 1 \in Nat /\ l - 1 <= k
  BY DEF Sound
<1> QED
  BY <1>2, <1>3, <1>4, <1>5 DEF Sound
\* An unbounded channel grows and takes a value.
LEMMA GrowSound ==
  ASSUME NEW k, NEW l, NEW ra, NEW rw, NEW sa, NEW sw,
         Sound(k, l, ra, rw, sa, sw), sa = {}, sw = {}, l + 1 <= 2 * k,
         NEW ra2, NEW rw2,
         \/ ra = {} /\ ra2 = ra /\ rw2 = rw
         \/ \E w \in ra : ra2 = ra \ {w} /\ rw2 = rw \cup {w}
  PROVE  Sound(2 * k, l + 1, ra2, rw2, sa, sw)
<1>2. Sound(k + 1, l, ra, rw, sa, sw)
  BY DEF Sound
<1>3. l < k + 1
  BY DEF Sound
<1>4. \A t : Sound(k + 1, l + 1, ra2, rw2, sa, sw \ {t})
  BY <1>2, <1>3, PutSound
<1>5. sw \ {{}} = sw
  OBVIOUS
<1>6. Sound(k + 1, l + 1, ra2, rw2, sa, sw)
  BY <1>4, <1>5
<1>7. k \in Nat /\ 2 * k \in Nat \ {0}
  BY DEF Sound
<1> QED
  BY <1>6, <1>7 DEF Sound

\* A thread that was not woken, or that leaves nobody asleep behind, leaves the
\* set of those woken.
LEMMA LeaveSound ==
  ASSUME NEW k, NEW l, NEW ra, NEW rw, NEW sa, NEW sw,
         Sound(k, l, ra, rw, sa, sw), NEW t
  PROVE  /\ sa = {} \/ t \notin sw => Sound(k, l, ra, rw, sa, sw \ {t})
         /\ ra = {} \/ t \notin rw => Sound(k, l, ra, rw \ {t}, sa, sw)
<1>1. /\ t \notin sw => sw \ {t} = sw
      /\ t \notin rw => rw \ {t} = rw
  OBVIOUS
<1>2. /\ sa = {} => Sound(k, l, ra, rw, sa, sw \ {t})
      /\ ra = {} => Sound(k, l, ra, rw \ {t}, sa, sw)
  BY DEF Sound
<1> QED
  BY <1>1, <1>2

\* A thread goes to sleep: a sender on a full channel, a receiver on an empty
\* one.
LEMMA SleepSound ==
  ASSUME NEW k, NEW l, NEW ra, NEW rw, NEW sa, NEW sw,
         Sound(k, l, ra, rw, sa, sw), NEW t \in Threads
  PROVE  /\ l = k => Sound(k, l, ra, rw, sa \cup {t}, sw \ {t})
         /\ l = 0 => Sound(k, l, ra \cup {t}, rw \ {t}, sa, sw)
<1>1. Cardinality(sw \ {t}) \in Nat /\ Cardinality(rw \ {t}) \in Nat
  BY Counting DEF Sound
<1> QED
  BY <1>1 DEF Sound

\* A thread wakes without a signal.
LEMMA SpuriousSound ==
  ASSUME NEW k, NEW l, NEW ra, NEW rw, NEW sa, NEW sw,
         Sound(k, l, ra, rw, sa, sw), NEW t
  PROVE  /\ t \in ra => Sound(k, l, ra \ {t}, rw \cup {t}, sa, sw)
         /\ t \in sa => Sound(k, l, ra, rw, sa \ {t}, sw \cup {t})
<1>1. ASSUME t \in ra
      PROVE  Sound(k, l, ra \ {t}, rw \cup {t}, sa, sw)
  <2>1. t \notin rw
    BY <1>1 DEF Sound
  <2>2. Cardinality(rw) \in Nat /\ Cardinality(rw \cup {t}) = Cardinality(rw) + 1
    BY <2>1, Counting DEF Sound
  <2> QED
    BY <1>1, <2>2 DEF Sound
<1>2. ASSUME t \in sa
      PROVE  Sound(k, l, ra, rw, sa \ {t}, sw \cup {t})
  <2>1. t \notin sw
    BY <1>2 DEF Sound
  <2>2. Cardinality(sw) \in Nat /\ Cardinality(sw \cup {t}) = Cardinality(sw) + 1
    BY <2>1, Counting DEF Sound
  <2> QED
    BY <1>2, <2>2 DEF Sound
<1> QED
  BY <1>1, <1>2

\* Everybody is woken.
LEMMA CloseSound ==
  ASSUME NEW k, NEW l, NEW ra, NEW rw, NEW sa, NEW sw,
         Sound(k, l, ra, rw, sa, sw)
  PROVE  Sound(k, l, {}, rw \cup ra, {}, sw \cup sa)
BY DEF Sound
-----------------------------------------------------------------------------
(* The steps of the specification. *)

\* What a signal does to the sets of the channel it is for.
LEMMA SignalEffect ==
  ASSUME WakeInv, NEW c \in Chans
  PROVE  /\ SignalNotEmpty(c) =>
              /\ \/ recvWait[c] = {} /\ recvWait'[c] = recvWait[c] /\ recvWoken'[c] = recvWoken[c]
                 \/ \E w \in recvWait[c] : /\ recvWait'[c] = recvWait[c] \ {w}
                                           /\ recvWoken'[c] = recvWoken[c] \cup {w}
              /\ \A d \in Chans \ {c} : recvWait'[d] = recvWait[d] /\ recvWoken'[d] = recvWoken[d]
              /\ recvWait' = [d \in Chans |-> recvWait'[d]]
              /\ recvWoken' = [d \in Chans |-> recvWoken'[d]]
         /\ SignalNotFull(c) =>
              /\ \/ sendWait[c] = {} /\ sendWait'[c] = sendWait[c] /\ sendWoken'[c] = sendWoken[c]
                 \/ \E w \in sendWait[c] : /\ sendWait'[c] = sendWait[c] \ {w}
                                           /\ sendWoken'[c] = sendWoken[c] \cup {w}
              /\ \A d \in Chans \ {c} : sendWait'[d] = sendWait[d] /\ sendWoken'[d] = sendWoken[d]
              /\ sendWait' = [d \in Chans |-> sendWait'[d]]
              /\ sendWoken' = [d \in Chans |-> sendWoken'[d]]
BY DEF WakeInv, Shape, SignalNotEmpty, SignalNotFull

OthersUnchanged(c) ==
  \A d \in Chans \ {c} :
    /\ cap'[d] = cap[d] /\ length'[d] = length[d]
    /\ recvWait'[d] = recvWait[d] /\ recvWoken'[d] = recvWoken[d]
    /\ sendWait'[d] = sendWait[d] /\ sendWoken'[d] = sendWoken[d]
    /\ d \in closed' <=> d \in closed

\* A step that leaves alone what the invariant says of the other channels.
LEMMA OneChannel ==
  ASSUME WakeInv, NEW c \in Chans, Shape', SoundAt(c)', QuietAt(c)',
         OthersUnchanged(c)
  PROVE  WakeInv'
<1>1. ASSUME NEW d \in Chans \ {c}
      PROVE  SoundAt(d)' /\ QuietAt(d)'
  BY <1>1 DEF WakeInv, SoundAt, QuietAt, OthersUnchanged
<1> QED
  BY <1>1 DEF WakeInv

\* A value is stored in a channel that has room.
LEMMA PutKeeps ==
  ASSUME WakeInv, NEW t \in Threads, NEW c \in Chans, NEW v, ~Full(c), Put(t, c, v)
  PROVE  WakeInv'
<1>1. SoundAt(c) /\ QuietAt(c)
  BY DEF WakeInv
<1>2. length[c] < cap[c]
  BY <1>1 DEF Full, SoundAt, Sound
<1>3. /\ cap'[c] = cap[c] /\ length'[c] = length[c] + 1
      /\ sendWait'[c] = sendWait[c] /\ sendWoken'[c] = sendWoken[c] \ {t}
      /\ closed' = closed
  BY DEF Put, Store, WakeInv, Shape
<1>4. SignalNotEmpty(c)
  BY DEF Put
<1>5. SoundAt(c)'
  <2>1. \/ recvWait[c] = {} /\ recvWait'[c] = recvWait[c] /\ recvWoken'[c] = recvWoken[c]
        \/ \E w \in recvWait[c] : /\ recvWait'[c] = recvWait[c] \ {w}
                                  /\ recvWoken'[c] = recvWoken[c] \cup {w}
    BY <1>4, SignalEffect
  <2>2. Sound(cap[c], length[c], recvWait[c], recvWoken[c], sendWait[c], sendWoken[c])
    BY <1>1 DEF SoundAt
  <2>3. Sound(cap[c], length[c] + 1, recvWait'[c], recvWoken'[c], sendWait[c],
              sendWoken[c] \ {t})
    BY <1>2, <2>1, <2>2, PutSound
  <2> QED
    BY <1>3, <2>3 DEF SoundAt
<1>6. QuietAt(c)'
  BY <1>1, <1>3, <1>4, SignalEffect DEF QuietAt
<1>7. Shape'
  BY <1>4, SignalEffect DEF Put, Store, WakeInv, Shape
<1>8. OthersUnchanged(c)
  BY <1>4, SignalEffect DEF Put, Store, WakeInv, Shape, OthersUnchanged
<1> QED
  BY <1>5, <1>6, <1>7, <1>8, OneChannel
\* An unbounded channel that is full grows and takes the value.
LEMMA GrowKeeps ==
  ASSUME WakeInv, NEW t \in Threads, NEW c \in Unbounded, NEW v, Full(c),
         GrowAndPut(t, c, v)
  PROVE  WakeInv'
<1>0. c \in Chans
  BY ChannelConstants DEF ChannelConstants
<1>1. SoundAt(c) /\ QuietAt(c)
  BY <1>0 DEF WakeInv
<1>2. /\ cap'[c] = 2 * cap[c] /\ length'[c] = length[c] + 1
      /\ sendWait'[c] = sendWait[c] /\ sendWoken'[c] = sendWoken[c]
      /\ closed' = closed
  BY <1>0 DEF GrowAndPut, Store, WakeInv, Shape
<1>3. SignalNotEmpty(c)
  BY DEF GrowAndPut
<1>4. SoundAt(c)'
  <2>1. \/ recvWait[c] = {} /\ recvWait'[c] = recvWait[c] /\ recvWoken'[c] = recvWoken[c]
        \/ \E w \in recvWait[c] : /\ recvWait'[c] = recvWait[c] \ {w}
                                  /\ recvWoken'[c] = recvWoken[c] \cup {w}
    BY <1>0, <1>3, SignalEffect
  <2>2. Sound(cap[c], length[c], recvWait[c], recvWoken[c], sendWait[c], sendWoken[c])
    BY <1>1 DEF SoundAt
  <2>3. sendWait[c] = {} /\ sendWoken[c] = {}
    BY <1>1 DEF QuietAt
  <2>4. length[c] + 1 <= 2 * cap[c]
    BY <2>2 DEF Full, Sound
  <2>5. Sound(2 * cap[c], length[c] + 1, recvWait'[c], recvWoken'[c], sendWait[c],
              sendWoken[c])
    BY <2>1, <2>2, <2>3, <2>4, GrowSound
  <2> QED
    BY <1>2, <2>5 DEF SoundAt
<1>5. QuietAt(c)'
  BY <1>0, <1>1, <1>2, <1>3, SignalEffect DEF QuietAt
<1>6. Shape'
  BY <1>0, <1>3, SignalEffect DEF GrowAndPut, Store, WakeInv, Shape
<1>7. OthersUnchanged(c)
  BY <1>0, <1>3, SignalEffect DEF GrowAndPut, Store, WakeInv, Shape, OthersUnchanged
<1> QED
  BY <1>0, <1>4, <1>5, <1>6, <1>7, OneChannel

\* A value is taken from a channel that has one.
LEMMA TakeKeeps ==
  ASSUME WakeInv, NEW t \in Threads, NEW c \in Chans, length[c] > 0, Take(t, c)
  PROVE  WakeInv'
<1>1. SoundAt(c) /\ QuietAt(c)
  BY DEF WakeInv
<1>2. /\ cap'[c] = cap[c] /\ length'[c] = length[c] - 1
      /\ recvWait'[c] = recvWait[c] /\ recvWoken'[c] = recvWoken[c] \ {t}
      /\ closed' = closed
  BY DEF Take, WakeInv, Shape
<1>3. SignalNotFull(c)
  BY DEF Take
<1>4. SoundAt(c)'
  <2>1. \/ sendWait[c] = {} /\ sendWait'[c] = sendWait[c] /\ sendWoken'[c] = sendWoken[c]
        \/ \E w \in sendWait[c] : /\ sendWait'[c] = sendWait[c] \ {w}
                                  /\ sendWoken'[c] = sendWoken[c] \cup {w}
    BY <1>3, SignalEffect
  <2>2. Sound(cap[c], length[c], recvWait[c], recvWoken[c], sendWait[c], sendWoken[c])
    BY <1>1 DEF SoundAt
  <2>3. Sound(cap[c], length[c] - 1, recvWait[c], recvWoken[c] \ {t}, sendWait'[c],
              sendWoken'[c])
    BY <2>1, <2>2, TakeSound
  <2> QED
    BY <1>2, <2>3 DEF SoundAt
<1>5. QuietAt(c)'
  BY <1>1, <1>2, <1>3, SignalEffect DEF QuietAt
<1>6. Shape'
  BY <1>3, SignalEffect DEF Take, WakeInv, Shape
<1>7. OthersUnchanged(c)
  BY <1>3, SignalEffect DEF Take, WakeInv, Shape, OthersUnchanged
<1> QED
  BY <1>4, <1>5, <1>6, <1>7, OneChannel

\* A sender is refused: it was not waiting, or the channel is closed.
LEMMA RefusedKeeps ==
  ASSUME WakeInv, NEW t \in Threads, NEW c \in Chans,
         t \notin sendWoken[c] \/ c \in closed, SendRefused(t, c)
  PROVE  WakeInv'
<1>1. SoundAt(c) /\ QuietAt(c)
  BY DEF WakeInv
<1>2. Sound(cap[c], length[c], recvWait[c], recvWoken[c], sendWait[c], sendWoken[c] \ {t})
  BY <1>1, LeaveSound DEF SoundAt, QuietAt
<1>3. SoundAt(c)' /\ QuietAt(c)'
  BY <1>1, <1>2 DEF SendRefused, ring, WakeInv, Shape, SoundAt, QuietAt
<1>4. Shape' /\ OthersUnchanged(c)
  BY DEF SendRefused, ring, WakeInv, Shape, OthersUnchanged
<1> QED
  BY <1>3, <1>4, OneChannel

\* A receiver is told of the end.
LEMMA EndKeeps ==
  ASSUME WakeInv, NEW t \in Threads, NEW c \in Chans, c \in closed, RecvEnd(t, c)
  PROVE  WakeInv'
<1>1. SoundAt(c) /\ QuietAt(c)
  BY DEF WakeInv
<1>2. Sound(cap[c], length[c], recvWait[c], recvWoken[c] \ {t}, sendWait[c], sendWoken[c])
  BY <1>1, LeaveSound DEF SoundAt, QuietAt
<1>3. SoundAt(c)' /\ QuietAt(c)'
  BY <1>1, <1>2 DEF RecvEnd, ring, WakeInv, Shape, SoundAt, QuietAt
<1>4. Shape' /\ OthersUnchanged(c)
  BY DEF RecvEnd, ring, WakeInv, Shape, OthersUnchanged
<1> QED
  BY <1>3, <1>4, OneChannel

\* A sender goes to sleep on a bounded channel that is full and open.
LEMMA WaitNotFullKeeps ==
  ASSUME WakeInv, NEW t \in Threads, NEW c \in Chans, NEW v, Full(c),
         c \notin closed, c \notin Unbounded, WaitNotFull(t, c, v)
  PROVE  WakeInv'
<1>1. SoundAt(c) /\ QuietAt(c)
  BY DEF WakeInv
<1>2. Sound(cap[c], length[c], recvWait[c], recvWoken[c], sendWait[c] \cup {t},
            sendWoken[c] \ {t})
  BY <1>1, SleepSound DEF SoundAt, Full
<1>3. SoundAt(c)' /\ QuietAt(c)'
  BY <1>1, <1>2 DEF WaitNotFull, ring, WakeInv, Shape, SoundAt, QuietAt
<1>4. Shape' /\ OthersUnchanged(c)
  BY DEF WaitNotFull, ring, WakeInv, Shape, OthersUnchanged
<1> QED
  BY <1>3, <1>4, OneChannel

\* A receiver goes to sleep on a channel that is empty and open.
LEMMA WaitNotEmptyKeeps ==
  ASSUME WakeInv, NEW t \in Threads, NEW c \in Chans, length[c] = 0,
         c \notin closed, WaitNotEmpty(t, c)
  PROVE  WakeInv'
<1>1. SoundAt(c) /\ QuietAt(c)
  BY DEF WakeInv
<1>2. Sound(cap[c], length[c], recvWait[c] \cup {t}, recvWoken[c] \ {t}, sendWait[c],
            sendWoken[c])
  BY <1>1, SleepSound DEF SoundAt
<1>3. SoundAt(c)' /\ QuietAt(c)'
  BY <1>1, <1>2 DEF WaitNotEmpty, ring, WakeInv, Shape, SoundAt, QuietAt
<1>4. Shape' /\ OthersUnchanged(c)
  BY DEF WaitNotEmpty, ring, WakeInv, Shape, OthersUnchanged
<1> QED
  BY <1>3, <1>4, OneChannel

\* A wakeup without a signal.
LEMMA SpuriousKeeps ==
  ASSUME WakeInv, NEW t \in Threads, NEW c \in Chans, Spurious(t, c)
  PROVE  WakeInv'
<1>1. SoundAt(c) /\ QuietAt(c)
  BY DEF WakeInv
<1>2. Shape' /\ OthersUnchanged(c)
  BY DEF Spurious, ring, WakeInv, Shape, OthersUnchanged
<1>3. CASE t \in recvWait[c] /\ recvWait'[c] = recvWait[c] \ {t}
  <2>1. Sound(cap[c], length[c], recvWait[c] \ {t}, recvWoken[c] \cup {t}, sendWait[c],
              sendWoken[c])
    BY <1>1, <1>3, SpuriousSound DEF SoundAt
  <2>2. SoundAt(c)' /\ QuietAt(c)'
    BY <1>1, <1>3, <2>1 DEF Spurious, ring, WakeInv, Shape, SoundAt, QuietAt
  <2> QED
    BY <1>2, <2>2, OneChannel
<1>4. CASE t \in sendWait[c] /\ sendWait'[c] = sendWait[c] \ {t}
  <2>1. Sound(cap[c], length[c], recvWait[c], recvWoken[c], sendWait[c] \ {t},
              sendWoken[c] \cup {t})
    BY <1>1, <1>4, SpuriousSound DEF SoundAt
  <2>2. SoundAt(c)' /\ QuietAt(c)'
    BY <1>1, <1>4, <2>1 DEF Spurious, ring, WakeInv, Shape, SoundAt, QuietAt
  <2> QED
    BY <1>2, <2>2, OneChannel
<1> QED
  BY <1>3, <1>4 DEF Spurious, WakeInv, Shape

\* Closing.
LEMMA CloseKeeps ==
  ASSUME WakeInv, NEW c \in Chans, Close(c)
  PROVE  WakeInv'
<1>1. SoundAt(c) /\ QuietAt(c)
  BY DEF WakeInv
<1>2. Sound(cap[c], length[c], {}, recvWoken[c] \cup recvWait[c], {},
            sendWoken[c] \cup sendWait[c])
  BY <1>1, CloseSound DEF SoundAt
<1>3. SoundAt(c)' /\ QuietAt(c)'
  BY <1>1, <1>2 DEF Close, ring, WakeInv, Shape, SoundAt, QuietAt
<1>4. Shape' /\ OthersUnchanged(c)
  BY DEF Close, ring, WakeInv, Shape, OthersUnchanged
<1> QED
  BY <1>3, <1>4, OneChannel

\* A step that touches no ring and no condition variable.
LEMMA NothingKeeps ==
  ASSUME WakeInv,
         UNCHANGED <<cap, length, closed, recvWait, recvWoken, sendWait, sendWoken>>
  PROVE  WakeInv'
BY DEF WakeInv, Shape, SoundAt, QuietAt
\* Every step keeps the invariant.
LEMMA WakeStep == WakeInv /\ [Next]_vars => WakeInv'
<1> SUFFICES ASSUME WakeInv, [Next]_vars
             PROVE  WakeInv'
  OBVIOUS
<1>1. ASSUME NEW t \in Threads, NEW c \in Chans, NEW v \in Vals, Send(t, c, v)
      PROVE  WakeInv'
  <2>1. t \notin sendWoken[c]
    BY <1>1 DEF Send, Idle, Inside
  <2>2. CASE SendRefused(t, c)
    BY <1>1, <2>1, <2>2, RefusedKeeps
  <2>3. CASE ~Full(c) /\ Put(t, c, v)
    BY <1>1, <2>3, PutKeeps
  <2>4. CASE c \in Unbounded /\ Full(c) /\ GrowAndPut(t, c, v)
    BY <1>1, <2>4, GrowKeeps
  <2>5. CASE Full(c) /\ c \notin closed /\ c \notin Unbounded /\ WaitNotFull(t, c, v)
    BY <1>1, <2>5, WaitNotFullKeeps
  <2> QED
    BY <1>1, <2>2, <2>3, <2>4, <2>5 DEF Send, SendUnbounded, SendLoop
<1>2. ASSUME NEW t \in Threads, NEW c \in Chans, NEW v \in Vals, TrySend(t, c, v)
      PROVE  WakeInv'
  <2>1. t \notin sendWoken[c]
    BY <1>2 DEF TrySend, Idle, Inside
  <2>2. CASE SendRefused(t, c)
    BY <1>2, <2>1, <2>2, RefusedKeeps
  <2>3. CASE ~Full(c) /\ Put(t, c, v)
    BY <1>2, <2>3, PutKeeps
  <2>4. CASE UNCHANGED <<ring, closed, recvWait, recvWoken, sendWait, sendWoken>>
    BY <2>4, NothingKeeps DEF ring
  <2> QED
    BY <1>2, <2>2, <2>3, <2>4 DEF TrySend
<1>3. ASSUME NEW t \in Threads, NEW c \in Chans, SendResume(t, c)
      PROVE  WakeInv'
  <2>1. c \notin Unbounded
    BY <1>3 DEF SendResume, WakeInv, QuietAt
  <2>2. CASE ~Full(c) /\ Put(t, c, sending[t])
    BY <1>3, <2>2, PutKeeps
  <2>3. CASE c \in closed /\ SendRefused(t, c)
    BY <1>3, <2>3, RefusedKeeps
  <2>4. CASE Full(c) /\ c \notin closed /\ WaitNotFull(t, c, sending[t])
    BY <1>3, <2>1, <2>4, WaitNotFullKeeps
  <2> QED
    BY <1>3, <2>2, <2>3, <2>4 DEF SendResume, SendLoop
<1>4. ASSUME NEW t \in Threads, NEW c \in Chans, RecvLoop(t, c)
      PROVE  WakeInv'
  <2>1. CASE length[c] > 0 /\ Take(t, c)
    BY <1>4, <2>1, TakeKeeps
  <2>2. CASE c \in closed /\ RecvEnd(t, c)
    BY <1>4, <2>2, EndKeeps
  <2>3. CASE length[c] = 0 /\ c \notin closed /\ WaitNotEmpty(t, c)
    BY <1>4, <2>3, WaitNotEmptyKeeps
  <2> QED
    BY <1>4, <2>1, <2>2, <2>3 DEF RecvLoop
<1>5. ASSUME NEW t \in Threads, NEW c \in Chans, TryRecv(t, c)
      PROVE  WakeInv'
  <2>1. CASE length[c] > 0 /\ Take(t, c)
    BY <1>5, <2>1, TakeKeeps
  <2>2. CASE c \in closed /\ RecvEnd(t, c)
    BY <1>5, <2>2, EndKeeps
  <2>3. CASE UNCHANGED <<ring, closed, recvWait, recvWoken, sendWait, sendWoken>>
    BY <2>3, NothingKeeps DEF ring
  <2> QED
    BY <1>5, <2>1, <2>2, <2>3 DEF TryRecv
<1>6. ASSUME NEW t \in Threads, NEW c \in Chans, Spurious(t, c)
      PROVE  WakeInv'
  BY <1>6, SpuriousKeeps
<1>7. ASSUME NEW c \in Chans, Close(c)
      PROVE  WakeInv'
  BY <1>7, CloseKeeps
<1>8. CASE UNCHANGED vars
  BY <1>8, NothingKeeps DEF vars
<1> QED
  BY <1>1, <1>2, <1>3, <1>4, <1>5, <1>6, <1>7, <1>8 DEF Next, Recv, RecvResume

\* The channels start sound: empty, with nobody waiting.
LEMMA WakeInit == Init => WakeInv
<1> SUFFICES ASSUME Init
             PROVE  WakeInv
  OBVIOUS
<1>1. Shape
  BY ChannelConstants DEF ChannelConstants, Init, Shape
<1>2. ASSUME NEW c \in Chans
      PROVE  SoundAt(c) /\ QuietAt(c)
  BY <1>2, ChannelConstants DEF ChannelConstants, Init, SoundAt, Sound, QuietAt
<1> QED
  BY <1>1, <1>2 DEF WakeInv

\* The invariant says what it is for.
LEMMA WakeImplies == WakeInv => NoLostWakeup /\ NoneAsleepOnClosed
BY DEF WakeInv, Shape, SoundAt, Sound, QuietAt, NoLostWakeup, NoneAsleepOnClosed

\* However many threads send to and receive from however many channels, bounded
\* or not, a thread sleeps in send or recv only while every free cell, or every
\* value, has a woken thread on its way to it: signalling one thread per value
\* and per free cell is enough.
THEOREM WakeupsAreNotLost == Spec => []NoLostWakeup
<1>1. Spec => []WakeInv
  BY WakeInit, WakeStep, PTL DEF Spec
<1> QED
  BY <1>1, WakeImplies, PTL

\* Once channel_i32_close_c has returned nobody sleeps on the channel, and
\* nobody ever will.
THEOREM ClosedChannelsAreAwake == Spec => []NoneAsleepOnClosed
<1>1. Spec => []WakeInv
  BY WakeInit, WakeStep, PTL DEF Spec
<1> QED
  BY <1>1, WakeImplies, PTL

-----------------------------------------------------------------------------
(* Selects. *)

PCs == {"idle", "try", "live", "wait", "asleep"}

\* The invariant of one selector: its place is a case of its list; while the
\* second phase has seen no live case, the cases it has passed have channels
\* that are closed; and what AllClosedIsTrue says.
SelAt(s) ==
  /\ sel[s] \in [pc : PCs, i : 1 .. Len(Cases[s]), live : BOOLEAN]
  /\ sel[s].pc = "live" /\ ~sel[s].live =>
       \A j \in 1 .. sel[s].i - 1 : Cases[s][j].ch \in closed
  /\ sel[s].pc = "idle" /\ res[s] = "closed" =>
       \A j \in 1 .. Len(Cases[s]) : Cases[s][j].ch \in closed

\* A select that sleeps on a channel to send has no value recorded: only the
\* callers of send have.
SelInv ==
  /\ QueueInv(Callers)
  /\ sel = [s \in Selectors |-> sel[s]]
  /\ \A s \in Selectors : SelAt(s)

-----------------------------------------------------------------------------
(* What the cases and the callers are. *)

\* A case of a list has a channel and a direction; lists are not empty.
LEMMA CasesAt ==
  ASSUME NEW s \in Selectors
  PROVE  /\ Cases[s] \in Seq([ch : Chans, dir : Dirs])
         /\ Len(Cases[s]) \in Nat /\ Len(Cases[s]) >= 1
         /\ \A j \in 1 .. Len(Cases[s]) : Cases[s][j].ch \in Chans
         /\ s \in Threads /\ s \notin Callers /\ SelVal[s] \in Vals
<1>1. Cases[s] \in Seq([ch : Chans, dir : Dirs])
  BY SelectConstants DEF SelectConstants
<1>2. Len(Cases[s]) \in 1 .. 8
  BY SelectConstants, Zenon DEF SelectConstants
<1>3. \A j \in 1 .. Len(Cases[s]) : Cases[s][j] \in [ch : Chans, dir : Dirs]
  BY <1>1, ElementOfSeq
<1>4. \A j \in 1 .. Len(Cases[s]) : Cases[s][j].ch \in Chans
  BY <1>3
<1>5. s \in Threads /\ SelVal[s] \in Vals
  BY SelectConstants DEF SelectConstants
<1>6. s \notin Callers
  BY DEF Callers
<1>7. Len(Cases[s]) \in Nat /\ Len(Cases[s]) >= 1
  <2>1. \A n \in 1 .. 8 : n \in Nat /\ n >= 1
    OBVIOUS
  <2> QED
    BY <1>2, <2>1, Zenon
<1> QED
  BY <1>1, <1>4, <1>5, <1>6, <1>7, Zenon

\* The case a selector is at.
LEMMA CaseAt ==
  ASSUME SelInv, NEW s \in Selectors
  PROVE  /\ sel[s].i \in 1 .. Len(Cases[s]) /\ sel[s].pc \in PCs
         /\ sel[s].live \in BOOLEAN
         /\ Case(s) = Cases[s][sel[s].i] /\ Case(s).ch \in Chans
<1>1. sel[s] \in [pc : PCs, i : 1 .. Len(Cases[s]), live : BOOLEAN]
  BY DEF SelInv, SelAt
<1>2. /\ sel[s].i \in 1 .. Len(Cases[s]) /\ sel[s].pc \in PCs
      /\ sel[s].live \in BOOLEAN
  BY <1>1
<1> QED
  BY <1>2, CasesAt DEF Case

\* The others are as they were, and no channel is opened again.
LEMMA OthersKeep ==
  ASSUME SelInv, NEW s \in Selectors, closed \subseteq closed',
         sel'[s] = sel[s], res'[s] = res[s]
  PROVE  SelAt(s)'
BY DEF SelInv, SelAt

\* A step of selector s to place n.
LEMMA OneSelector ==
  ASSUME SelInv, NEW s \in Selectors, QueueInv(Callers)',
         closed \subseteq closed', NEW r, res' = [res EXCEPT ![s] = r] \/ res' = res,
         NEW pc \in PCs, NEW i \in 1 .. Len(Cases[s]), NEW live \in BOOLEAN,
         Goto(s, pc, i, live),
         pc = "live" /\ ~live => \A j \in 1 .. i - 1 : Cases[s][j].ch \in closed,
         pc = "idle" /\ res'[s] = "closed" =>
           \A j \in 1 .. Len(Cases[s]) : Cases[s][j].ch \in closed
  PROVE  SelInv'
<1>1. sel' = [u \in Selectors |-> sel'[u]]
  BY DEF SelInv, Goto
<1>2. sel'[s] = [pc |-> pc, i |-> i, live |-> live]
  BY DEF SelInv, Goto
<1>3. \A u \in Selectors \ {s} : sel'[u] = sel[u]
  BY DEF SelInv, Goto
<1>4. \A u \in Selectors \ {s} : res'[u] = res[u]
  BY SelectConstants DEF SelectConstants, SelInv, QueueInv, TypeOK
<1>5. \A u \in Selectors \ {s} : SelAt(u)'
  BY <1>3, <1>4, OthersKeep
<1>6. SelAt(s)'
  <2>1. sel'[s].pc = pc /\ sel'[s].i = i /\ sel'[s].live = live
    BY <1>2
  <2>2. sel'[s] \in [pc : PCs, i : 1 .. Len(Cases[s]), live : BOOLEAN]
    BY <1>2
  <2> QED
    BY <2>1, <2>2 DEF SelAt
<1> QED
  BY <1>1, <1>5, <1>6 DEF SelInv

\* A selector goes on to its next case, or to the next phase; what the second
\* phase has seen is live or live0.
LEMMA NextCaseKeeps ==
  ASSUME SelInv, NEW s \in Selectors, UNCHANGED vars,
         NEW live \in BOOLEAN, NEW pc \in PCs \ {"idle"}, NextCase(s, live, pc),
         sel[s].pc # "idle",
         sel[s].pc = "live" /\ ~live => ~sel[s].live /\ Case(s).ch \in closed
  PROVE  SelInv'
<1>1. QueueInv(Callers)'
  BY StutterStep DEF SelInv, Callers
<1>2. res' = res /\ closed' = closed
  BY DEF vars
<1>3. /\ sel[s].i \in 1 .. Len(Cases[s]) /\ sel[s].pc \in PCs
      /\ Case(s) = Cases[s][sel[s].i] /\ Len(Cases[s]) \in Nat /\ Len(Cases[s]) >= 1
  BY CaseAt, CasesAt
<1>4. CASE sel[s].i < Len(Cases[s])
  <2>1. Goto(s, sel[s].pc, sel[s].i + 1, live)
    BY <1>4 DEF NextCase
  <2>2. PICK p, i : p = sel[s].pc /\ i = sel[s].i + 1
    OBVIOUS
  <2>3. p \in PCs /\ i \in 1 .. Len(Cases[s]) /\ p # "idle"
    BY <1>3, <1>4, <2>2
  <2>4. ASSUME p = "live", ~live
        PROVE  \A j \in 1 .. i - 1 : Cases[s][j].ch \in closed
    <3>1. ~sel[s].live /\ Cases[s][sel[s].i].ch \in closed
      BY <1>3, <2>2, <2>4
    <3>2. \A j \in 1 .. sel[s].i - 1 : Cases[s][j].ch \in closed
      BY <2>2, <2>4, <3>1 DEF SelInv, SelAt
    <3>3. \A j \in 1 .. i - 1 : j \in 1 .. sel[s].i - 1 \/ j = sel[s].i
      BY <1>3, <2>2
    <3> QED
      BY <3>1, <3>2, <3>3
  <2> QED
    BY <1>1, <1>2, <2>1, <2>2, <2>3, <2>4, OneSelector
<1>5. CASE ~(sel[s].i < Len(Cases[s]))
  <2>1. Goto(s, pc, 1, FALSE)
    BY <1>5 DEF NextCase
  <2>2. 1 \in 1 .. Len(Cases[s]) /\ 1 .. 1 - 1 = {} /\ FALSE \in BOOLEAN /\ pc \in PCs
    BY <1>3
  <2> QED
    BY <1>1, <1>2, <2>1, <2>2, OneSelector
<1> QED
  BY <1>4, <1>5

\* A select is over with an answer: "closed" only if all is closed.
LEMMA DoneKeeps ==
  ASSUME SelInv, NEW s \in Selectors, QueueInv(Callers)', closed' = closed,
         NEW r, Answer(s, r), Done(s),
         r = "closed" => \A j \in 1 .. Len(Cases[s]) : Cases[s][j].ch \in closed
  PROVE  SelInv'
<1>1. Goto(s, "idle", 1, FALSE)
  BY DEF Done, Goto, NotSelecting
<1>2. 1 \in 1 .. Len(Cases[s]) /\ "idle" \in PCs /\ FALSE \in BOOLEAN
  BY CasesAt DEF PCs
<1>3. res' = [res EXCEPT ![s] = r] /\ res'[s] = r
  BY CasesAt DEF Answer, SelInv, QueueInv, TypeOK
<1> QED
  BY <1>1, <1>2, <1>3, OneSelector

-----------------------------------------------------------------------------
(* The steps. *)

Goal == SelInv' /\ (Unbounded = {} => QStep)

\* A select answers, or is called, without touching a channel.
LEMMA AnswerInv ==
  ASSUME SelInv, NEW s \in Selectors, NEW r \in {NoRes, "closed", "pending"}, Answer(s, r),
         UNCHANGED <<ring, closed, recvWait, recvWoken, sendWait, sendWoken, sending>>
  PROVE  /\ QueueInv(Callers)'
         /\ r = "closed" /\ (\E c \in Chans : c \in closed) => QStep
         /\ r \in {NoRes, "pending"} => QStep
<1>1. QueueInv(Callers) /\ ThreadsOK /\ RingsOK /\ SendersHoldValues(Callers)
  BY TypeParts DEF SelInv, QueueInv
<1>2. Callers \in SUBSET Threads /\ s \in Threads
  BY CasesAt DEF Callers
<1>3. ThreadsOK' /\ SendersHoldValues(Callers)'
  BY <1>1, <1>2 DEF ThreadsOK, Answer, Answers, SendersHoldValues
<1>4. QueueInv(Callers)'
  BY <1>1, <1>2, <1>3, SameRingsInv
<1>5. Queues' = Queues
  BY <1>1, SameRing, QueuesSame
<1>6. r = "closed" /\ (\E c \in Chans : c \in closed) => QStep
  BY <1>1, <1>2, AnswerStep
<1>7. r = NoRes => QStep
  <2>1. r = NoRes => Queue!QWait(s)
    BY <1>5 DEF Queue!QWait, Queue!Answer, Queues, Answer
  <2> QED
    BY <1>2, <2>1 DEF QStep, Queue!QNext
<1>8. r = "pending" => QStep
  <2>1. r = "pending" => Queue!QPending(s)
    BY <1>5 DEF Queue!QPending, Queue!Answer, Queues, Answer
  <2> QED
    BY <1>2, <2>1 DEF QStep, Queue!QNext
<1> QED
  BY <1>4, <1>6, <1>7, <1>8

\* A select is called.
LEMMA SelCallStep ==
  ASSUME SelInv, NEW s \in Selectors, SelCall(s)
  PROVE  Goal
<1>1. QueueInv(Callers)' /\ QStep
  BY AnswerInv DEF SelCall
<1>2. 1 \in 1 .. Len(Cases[s]) /\ 1 .. 1 - 1 = {} /\ FALSE \in BOOLEAN /\ "try" \in PCs
  BY CasesAt DEF PCs
<1>3. res' = [res EXCEPT ![s] = NoRes] /\ closed' = closed /\ Goto(s, "try", 1, FALSE)
  BY DEF SelCall, Answer
<1>4. SelInv'
  BY <1>1, <1>2, <1>3, OneSelector
<1> QED
  BY <1>1, <1>4 DEF Goal

\* A try operation on one case.
LEMMA SelTryStep ==
  ASSUME SelInv, NEW s \in Selectors, SelTry(s)
  PROVE  Goal
<1>1. QueueInv(Callers) /\ Callers \in SUBSET Threads /\ s \in Threads /\ SelVal[s] \in Vals
  BY CasesAt DEF SelInv, Callers
<1>2. PICK c : c = Case(s).ch
  OBVIOUS
<1>3. c \in Chans
  BY <1>2, CaseAt
<1>4. CASE length[c] > 0 /\ Take(s, c) /\ Done(s)
  <2>1. QueueInv(Callers)' /\ QStep
    BY <1>1, <1>3, <1>4, TakeStep
  <2>2. PICK r : r = buf[c][head[c]]
    OBVIOUS
  <2>3. r \in Cell /\ Answer(s, r) /\ closed' = closed
    <3>1. RingsOK
      BY <1>1, TypeParts DEF QueueInv
    <3> QED
      BY <1>3, <1>4, <2>2, <3>1, TakeRing DEF Take
  <2>4. r # "closed"
    BY <2>3, SelectConstants DEF SelectConstants
  <2>5. SelInv'
    BY <1>4, <2>1, <2>3, <2>4, DoneKeeps
  <2> QED
    BY <2>1, <2>5 DEF Goal
<1>5. CASE ~Full(c) /\ Put(s, c, SelVal[s]) /\ Done(s)
  <2>1. QueueInv(Callers)' /\ (c \notin Unbounded => QStep)
    BY <1>1, <1>3, <1>5, PutStep
  <2>2. Answer(s, "ok") /\ closed' = closed
    BY <1>5 DEF Put
  <2>3. SelInv'
    BY <1>5, <2>1, <2>2, DoneKeeps
  <2> QED
    BY <2>1, <2>3 DEF Goal
<1>6. CASE Full(c) /\ c \in Unbounded /\ GrowAndPut(s, c, SelVal[s]) /\ Done(s)
  <2>1. QueueInv(Callers)'
    BY <1>1, <1>6, GrowStep
  <2>2. Answer(s, "ok") /\ closed' = closed
    BY <1>6 DEF GrowAndPut
  <2>3. SelInv'
    BY <1>6, <2>1, <2>2, DoneKeeps
  <2> QED
    BY <1>6, <2>3 DEF Goal
<1>7. CASE NextCase(s, FALSE, "live") /\ UNCHANGED vars
  <2>1. sel[s].pc = "try"
    BY DEF SelTry
  <2>2. FALSE \in BOOLEAN /\ "live" \in PCs \ {"idle"}
    BY DEF PCs
  <2>3. SelInv'
    BY <1>7, <2>1, <2>2, NextCaseKeeps
  <2>4. QStep
    BY <1>1, <1>7, StutterStep
  <2> QED
    BY <2>3, <2>4 DEF Goal
<1> QED
  BY <1>2, <1>4, <1>5, <1>6, <1>7 DEF SelTry

\* A dead case has a closed channel.
LEMMA DeadIsClosed ==
  ASSUME NEW s, ~CaseLive(s)
  PROVE  Case(s).ch \in closed
BY DEF CaseLive

\* A look at one case of the second phase.
LEMMA SelLiveStep ==
  ASSUME SelInv, NEW s \in Selectors, SelLive(s)
  PROVE  Goal
<1> DEFINE live == sel[s].live \/ CaseLive(s)
<1>1. QueueInv(Callers) /\ Callers \in SUBSET Threads /\ s \in Threads
  BY CasesAt DEF SelInv, Callers
<1>2. /\ sel[s].pc = "live" /\ sel[s].i \in 1 .. Len(Cases[s])
      /\ Case(s) = Cases[s][sel[s].i] /\ Case(s).ch \in Chans
      /\ live \in BOOLEAN /\ Len(Cases[s]) \in Nat /\ Len(Cases[s]) >= 1
  BY CaseAt, CasesAt DEF SelLive, CaseLive
<1>3. ~live => ~sel[s].live /\ Case(s).ch \in closed
  BY DeadIsClosed
<1>4. CASE sel[s].i < Len(Cases[s])
  <2>1. NextCase(s, live, "wait") /\ UNCHANGED vars
    BY <1>4 DEF SelLive
  <2>2. "wait" \in PCs \ {"idle"}
    BY DEF PCs
  <2>3. QStep
    BY <1>1, <2>1, StutterStep
  <2> HIDE DEF live
  <2>4. SelInv'
    BY <1>2, <1>3, <2>1, <2>2, NextCaseKeeps
  <2> QED
    BY <2>3, <2>4 DEF Goal
<1>5. CASE ~(sel[s].i < Len(Cases[s]))
  <2>1. CASE /\ ~live /\ Done(s) /\ Answer(s, "closed")
             /\ UNCHANGED <<ring, closed, recvWait, recvWoken, sendWait, sendWoken, sending>>
    <3>1. QueueInv(Callers)' /\ QStep
      BY <1>2, <1>3, <2>1, AnswerInv
    <3>2. \A j \in 1 .. Len(Cases[s]) : Cases[s][j].ch \in closed
      <4>1. \A j \in 1 .. sel[s].i - 1 : Cases[s][j].ch \in closed
        BY <1>2, <1>3, <2>1 DEF SelInv, SelAt
      <4>2. \A j \in 1 .. Len(Cases[s]) : j \in 1 .. sel[s].i - 1 \/ j = sel[s].i
        BY <1>2, <1>5
      <4>3. Cases[s][sel[s].i].ch \in closed
        BY <1>2, <1>3, <2>1
      <4> QED
        BY <4>1, <4>2, <4>3
    <3>3. SelInv'
      BY <2>1, <3>1, <3>2, DoneKeeps
    <3> QED
      BY <3>1, <3>3 DEF Goal
  <2>2. CASE /\ Done(s) /\ Answer(s, "pending")
             /\ UNCHANGED <<ring, closed, recvWait, recvWoken, sendWait, sendWoken, sending>>
    <3>1. QueueInv(Callers)' /\ QStep
      BY <2>2, AnswerInv
    <3>2. "pending" # "closed"
      OBVIOUS
    <3>3. SelInv'
      BY <2>2, <3>1, <3>2, DoneKeeps
    <3> QED
      BY <3>1, <3>3 DEF Goal
  <2>3. CASE Goto(s, "wait", 1, FALSE) /\ UNCHANGED vars
    <3>1. QueueInv(Callers)' /\ QStep
      BY <1>1, <2>3, StutterStep
    <3>2. closed' = closed /\ res' = res
      BY <2>3 DEF vars
    <3>3. /\ 1 \in 1 .. Len(Cases[s]) /\ FALSE \in BOOLEAN /\ "wait" \in PCs
          /\ "wait" # "live" /\ "wait" # "idle"
      BY <1>2 DEF PCs
    <3>4. SelInv'
      BY <2>3, <3>1, <3>2, <3>3, OneSelector
    <3> QED
      BY <3>1, <3>4 DEF Goal
  <2> QED
    BY <1>5, <2>1, <2>2, <2>3 DEF SelLive
<1> QED
  BY <1>4, <1>5

\* A thread goes to sleep on a channel, or wakes: the rings, the closed channels
\* and the answers are as they were.
LEMMA SleepingInv ==
  ASSUME SelInv, UNCHANGED <<ring, closed, res>>, ThreadsOK', SendersHoldValues(Callers)'
  PROVE  QueueInv(Callers)' /\ QStep
<1>1. QueueInv(Callers) /\ Callers \in SUBSET Threads /\ RingsOK
  BY TypeParts DEF SelInv, QueueInv, Callers
<1>2. QueueInv(Callers)'
  BY <1>1, SameRingsInv
<1>3. QStep
  BY <1>1, SameRing, HiddenStep
<1> QED
  BY <1>2, <1>3

\* One case of the third phase.
LEMMA SelWaitStep ==
  ASSUME SelInv, NEW s \in Selectors, SelWait(s)
  PROVE  Goal
<1>1. /\ QueueInv(Callers) /\ Callers \in SUBSET Threads /\ s \in Threads \ Callers
      /\ ThreadsOK /\ SendersHoldValues(Callers)
  BY CasesAt, TypeParts DEF SelInv, QueueInv, Callers
<1>2. /\ sel[s].pc = "wait" /\ sel[s].i \in 1 .. Len(Cases[s]) /\ Case(s).ch \in Chans
  BY CaseAt DEF SelWait
<1>3. /\ FALSE \in BOOLEAN /\ "try" \in PCs \ {"idle"} /\ "asleep" \in PCs
      /\ "asleep" # "live" /\ "asleep" # "idle" /\ "wait" # "live" /\ "wait" # "idle"
  BY DEF PCs
<1>4. CASE NextCase(s, FALSE, "try") /\ UNCHANGED vars
  <2>1. QStep
    BY <1>1, <1>4, StutterStep
  <2>2. SelInv'
    BY <1>2, <1>3, <1>4, NextCaseKeeps
  <2> QED
    BY <2>1, <2>2 DEF Goal
<1>5. CASE Sleeps(s)
  <2>1. PICK c \in Chans : c = Case(s).ch
    BY <1>2
  <2>2. /\ Goto(s, "asleep", sel[s].i, FALSE)
        /\ UNCHANGED <<ring, closed, recvWoken, sendWoken, sending, res>>
        /\ \/ recvWait' = [recvWait EXCEPT ![c] = @ \cup {s}] /\ UNCHANGED sendWait
           \/ sendWait' = [sendWait EXCEPT ![c] = @ \cup {s}] /\ UNCHANGED recvWait
    BY <1>5, <2>1 DEF SelWait
  <2>3. ThreadsOK'
    BY <1>1, <2>2 DEF ThreadsOK
  <2>4. SendersHoldValues(Callers)'
    BY <1>1, <2>2 DEF SendersHoldValues, ThreadsOK
  <2>5. QueueInv(Callers)' /\ QStep
    BY <2>2, <2>3, <2>4, SleepingInv
  <2>6. closed' = closed /\ res' = res
    BY <2>2
  <2>7. SelInv'
    BY <1>2, <1>3, <2>2, <2>5, <2>6, OneSelector
  <2> QED
    BY <2>5, <2>7 DEF Goal
<1> QED
  BY <1>4, <1>5 DEF SelWait

\* A timed wait returns.
LEMMA SelWakeStep ==
  ASSUME SelInv, NEW s \in Selectors, SelWake(s)
  PROVE  Goal
<1>1. ThreadsOK /\ SendersHoldValues(Callers)
  BY TypeParts DEF SelInv, QueueInv
<1>2. UNCHANGED <<ring, closed, recvWait, sendWait, sending, res>>
  BY DEF SelWake
<1>3. PICK c \in Chans :
        /\ recvWoken' = [recvWoken EXCEPT ![c] = @ \ {s}]
        /\ sendWoken' = [sendWoken EXCEPT ![c] = @ \ {s}]
  BY DEF SelWake
<1>4. ThreadsOK'
  BY <1>1, <1>2, <1>3 DEF ThreadsOK
<1>5. SendersHoldValues(Callers)'
  BY <1>1, <1>2, <1>3 DEF SendersHoldValues, ThreadsOK
<1>6. QueueInv(Callers)' /\ QStep
  BY <1>2, <1>4, <1>5, SleepingInv
<1>7. closed' = closed /\ res' = res
  BY <1>2
<1>8. sel[s].i \in 1 .. Len(Cases[s]) /\ Len(Cases[s]) \in Nat /\ Len(Cases[s]) >= 1
  BY CaseAt, CasesAt
<1>9. /\ FALSE \in BOOLEAN /\ "try" \in PCs /\ "wait" \in PCs
      /\ "try" # "live" /\ "try" # "idle" /\ "wait" # "live" /\ "wait" # "idle"
  BY DEF PCs
<1>10. CASE sel[s].i < Len(Cases[s]) /\ Goto(s, "wait", sel[s].i + 1, FALSE)
  <2>1. PICK i : i = sel[s].i + 1
    OBVIOUS
  <2>2. i \in 1 .. Len(Cases[s])
    BY <1>8, <1>10, <2>1
  <2>3. SelInv'
    BY <1>6, <1>7, <1>9, <1>10, <2>1, <2>2, OneSelector
  <2> QED
    BY <1>6, <2>3 DEF Goal
<1>11. CASE Goto(s, "try", 1, FALSE)
  <2>1. 1 \in 1 .. Len(Cases[s])
    BY <1>8
  <2>2. SelInv'
    BY <1>6, <1>7, <1>9, <1>11, <2>1, OneSelector
  <2> QED
    BY <1>6, <2>2 DEF Goal
<1> QED
  BY <1>10, <1>11 DEF SelWake

\* What the threads beside the selects do to the channels closed and to the
\* answers: a call answers its own caller and closes nothing.
LEMMA CallFrame ==
  ASSUME NEW t, NEW c, Call(t, c)
  PROVE  closed' = closed /\ \E r : Answer(t, r)
<1>1. ASSUME NEW v, SendLoop(t, c, v)
      PROVE  closed' = closed /\ \E r : Answer(t, r)
  BY <1>1 DEF SendLoop, Put, SendRefused, WaitNotFull
<1>2. ASSUME NEW v, Send(t, c, v)
      PROVE  closed' = closed /\ \E r : Answer(t, r)
  BY <1>1, <1>2 DEF Send, SendUnbounded, GrowAndPut, Put, SendRefused
<1>3. ASSUME NEW v, TrySend(t, c, v)
      PROVE  closed' = closed /\ \E r : Answer(t, r)
  BY <1>3 DEF TrySend, Put, SendRefused
<1>4. ASSUME RecvLoop(t, c) \/ TryRecv(t, c)
      PROVE  closed' = closed /\ \E r : Answer(t, r)
  BY <1>4 DEF RecvLoop, TryRecv, Take, RecvEnd, WaitNotEmpty
<1> QED
  BY <1>1, <1>2, <1>3, <1>4 DEF Call, SendResume, Recv, RecvResume

\* A step that moves no selector and answers none.
LEMMA BesideSelectors ==
  ASSUME SelInv, QueueInv(Callers)', closed \subseteq closed', UNCHANGED sel,
         \A s \in Selectors : res'[s] = res[s]
  PROVE  SelInv'
<1>1. \A s \in Selectors : SelAt(s)'
  BY OthersKeep
<1> QED
  BY <1>1 DEF SelInv

\* A call of a thread that is not a selector.
LEMMA CallerKeeps ==
  ASSUME SelInv, NEW t \in Callers, NEW c \in Chans, CallerStep(t, c)
  PROVE  Goal
<1>1. Call(t, c) /\ UNCHANGED sel
  BY DEF CallerStep, Call
<1>2. QueueInv(Callers) /\ Callers \in SUBSET Threads
  BY DEF SelInv, Callers
<1>3. QueueInv(Callers)' /\ (Unbounded = {} => QStep)
  BY <1>1, <1>2, CallStep
<1>4. PICK r : closed' = closed /\ Answer(t, r)
  BY <1>1, CallFrame
<1>5. \A s \in Selectors : s \in Threads /\ s # t
  BY CasesAt
<1>6. \A s \in Selectors : res'[s] = res[s]
  BY <1>2, <1>4, <1>5 DEF Answer, QueueInv, TypeOK
<1>7. SelInv'
  BY <1>1, <1>3, <1>4, <1>6, BesideSelectors
<1> QED
  BY <1>3, <1>7 DEF Goal

\* Every step of the selects and of the threads beside them keeps the invariant
\* and, where nothing grows, is a step of the queue, or none.
LEMMA SelectStep == SelInv /\ [SNext]_svars => Goal
<1> SUFFICES ASSUME SelInv, [SNext]_svars
             PROVE  Goal
  OBVIOUS
<1>1. QueueInv(Callers) /\ Callers \in SUBSET Threads
  BY DEF SelInv, Callers
<1>2. ASSUME NEW t \in Callers, NEW c \in Chans, CallerStep(t, c)
      PROVE  Goal
  BY <1>2, CallerKeeps
<1>3. ASSUME NEW s \in Selectors, SelCall(s) \/ SelStep(s)
      PROVE  Goal
  BY <1>3, SelCallStep, SelTryStep, SelLiveStep, SelWaitStep, SelWakeStep DEF SelStep
<1>4. ASSUME NEW t \in Threads, NEW c \in Chans, Timeout(t, c)
      PROVE  Goal
  <2>1. Spurious(t, c) /\ UNCHANGED sel
    BY <1>4 DEF Timeout
  <2>2. QueueInv(Callers)' /\ QStep
    BY <1>1, <2>1, SpuriousStep
  <2>3. closed' = closed /\ res' = res
    BY <2>1 DEF Spurious
  <2>4. SelInv'
    BY <2>1, <2>2, <2>3, BesideSelectors
  <2> QED
    BY <2>2, <2>4 DEF Goal
<1>5. ASSUME NEW c \in Chans, Close(c), UNCHANGED sel
      PROVE  Goal
  <2>1. QueueInv(Callers)' /\ QStep
    BY <1>1, <1>5, CloseStep
  <2>2. closed \subseteq closed' /\ res' = res
    BY <1>5 DEF Close
  <2>3. SelInv'
    BY <1>5, <2>1, <2>2, BesideSelectors
  <2> QED
    BY <2>1, <2>3 DEF Goal
<1>6. CASE UNCHANGED svars
  <2>1. UNCHANGED vars /\ UNCHANGED sel
    BY <1>6 DEF svars
  <2>2. QueueInv(Callers)' /\ QStep
    BY <1>1, <2>1, StutterStep
  <2>3. closed' = closed /\ res' = res
    BY <2>1 DEF vars
  <2>4. SelInv'
    BY <2>1, <2>2, <2>3, BesideSelectors
  <2> QED
    BY <2>2, <2>4 DEF Goal
<1> QED
  BY <1>2, <1>3, <1>4, <1>5, <1>6 DEF SNext

\* At the start nobody selects.
LEMMA SelectInit == SInit => SelInv
<1> SUFFICES ASSUME SInit
             PROVE  SelInv
  OBVIOUS
<1>1. Callers \in SUBSET Threads
  BY DEF Callers
<1>2. QueueInv(Callers)
  BY <1>1, QueueInvInit DEF SInit
<1>3. ASSUME NEW s \in Selectors
      PROVE  SelAt(s)
  <2>1. sel[s] = NotSelecting /\ 1 \in 1 .. Len(Cases[s])
    BY CasesAt DEF SInit
  <2>2. res[s] # "closed"
    BY CasesAt, SelectConstants DEF SelectConstants, SInit, Init
  <2>3. sel[s].pc = "idle"
    BY <2>1 DEF NotSelecting
  <2>4. sel[s] \in [pc : PCs, i : 1 .. Len(Cases[s]), live : BOOLEAN]
    BY <2>1 DEF NotSelecting, PCs
  <2> QED
    BY <2>2, <2>3, <2>4 DEF SelAt
<1>4. sel = [s \in Selectors |-> sel[s]]
  BY DEF SInit
<1> QED
  BY <1>2, <1>3, <1>4 DEF SelInv

\* The invariant holds for ever.
LEMMA SelInvariant == SSpec => []SelInv
<1>1. SelInv /\ [SNext]_svars => SelInv'
  BY SelectStep DEF Goal
<1> QED
  BY <1>1, SelectInit, PTL DEF SSpec

-----------------------------------------------------------------------------
(* The results. *)

\* For any number of selects with any lists of cases, over bounded and unbounded
\* channels: a select that answers SELECT_ERR_ALL_CLOSED was right, although it
\* looked at its channels one after the other, each under its own mutex.
THEOREM AllClosedIsTold == SSpec => []AllClosedIsTrue
<1>1. SelInv => AllClosedIsTrue
  <2> SUFFICES ASSUME SelInv, NEW s \in Selectors, ~Selecting(s), res[s] = "closed",
                      NEW i \in DOMAIN Cases[s]
               PROVE  Cases[s][i].ch \in closed
    BY DEF AllClosedIsTrue
  <2>1. DOMAIN Cases[s] = 1 .. Len(Cases[s])
    BY CasesAt
  <2>2. \A j \in 1 .. Len(Cases[s]) : Cases[s][j].ch \in closed
    BY DEF SelInv, SelAt, Selecting
  <2> QED
    BY <2>1, <2>2
<1> QED
  BY <1>1, SelInvariant, PTL

\* Channels that are selected on keep their rings, condition variables and
\* answers well formed, bounded or not.
THEOREM SelectTypeCorrect == SSpec => []TypeOK
<1>1. SelInv => TypeOK
  BY DEF SelInv, QueueInv
<1> QED
  BY <1>1, SelInvariant, PTL

\* Bounded channels are first-in first-out queues under selects too: a select
\* takes the value it answers from the head of a queue, stores its own at the
\* end of one, and answers "closed" only if one is.
THEOREM SelectedAreQueues ==
  ASSUME Unbounded = {}
  PROVE  SSpec => QueueRefined
<1>1. SInit => Queue!QInit
  BY QueueInitRefined DEF SInit
<1>2. SelInv /\ [SNext]_svars => [Queue!QNext]_(Queue!qvars)
  BY SelectStep DEF Goal, QStep
<1> QED
  BY <1>1, <1>2, SelInvariant, PTL DEF SSpec, QueueRefined, Queue!QSpec

-----------------------------------------------------------------------------
(* Nobody sleeps on a closed channel. *)

\* No thread has gone to sleep on a closed channel in this step.
NoneGoes ==
  \A c \in closed : recvWait'[c] \subseteq recvWait[c] /\ sendWait'[c] \subseteq sendWait[c]

\* A signal puts nobody to sleep.
LEMMA SignalsWake ==
  ASSUME ThreadsOK, NEW c \in Chans
  PROVE  /\ SignalNotEmpty(c) => \A d \in Chans : recvWait'[d] \subseteq recvWait[d]
         /\ SignalNotFull(c) => \A d \in Chans : sendWait'[d] \subseteq sendWait[d]
BY DEF SignalNotEmpty, SignalNotFull, ThreadsOK

\* Storing and taking a value.
LEMMA MovesWake ==
  ASSUME ThreadsOK, NEW t, NEW c \in Chans, NEW v,
         Put(t, c, v) \/ GrowAndPut(t, c, v) \/ Take(t, c)
  PROVE  NoneGoes
BY SignalsWake DEF Put, GrowAndPut, Take, NoneGoes, ThreadsOK

\* A call goes to sleep only on a channel that is open.
LEMMA CallsStayAwake ==
  ASSUME ThreadsOK, NEW t, NEW c \in Chans, Call(t, c)
  PROVE  NoneGoes
<1>1. ASSUME NEW v, WaitNotFull(t, c, v), c \notin closed
      PROVE  NoneGoes
  BY <1>1 DEF WaitNotFull, NoneGoes, ThreadsOK
<1>2. ASSUME WaitNotEmpty(t, c), c \notin closed
      PROVE  NoneGoes
  BY <1>2 DEF WaitNotEmpty, NoneGoes, ThreadsOK
<1>3. ASSUME SendRefused(t, c) \/ RecvEnd(t, c) \/ UNCHANGED <<recvWait, sendWait>>
      PROVE  NoneGoes
  BY <1>3 DEF SendRefused, RecvEnd, NoneGoes
<1>4. ASSUME NEW v, SendLoop(t, c, v)
      PROVE  NoneGoes
  BY <1>1, <1>3, <1>4, MovesWake DEF SendLoop
<1>5. ASSUME NEW v, Send(t, c, v) \/ TrySend(t, c, v)
      PROVE  NoneGoes
  BY <1>3, <1>4, <1>5, MovesWake DEF Send, SendUnbounded, TrySend
<1>6. ASSUME RecvLoop(t, c) \/ TryRecv(t, c)
      PROVE  NoneGoes
  BY <1>2, <1>3, <1>6, MovesWake DEF RecvLoop, TryRecv
<1> QED
  BY <1>4, <1>5, <1>6 DEF Call, SendResume, Recv, RecvResume

\* Neither do the selects: the third phase looks again, under the mutex of the
\* channel it is about to sleep on.
LEMMA SelectsStayAwake ==
  ASSUME SelInv, NEW s \in Selectors, SelCall(s) \/ SelStep(s)
  PROVE  NoneGoes /\ closed' = closed
<1>1. ThreadsOK
  BY TypeParts DEF SelInv, QueueInv
<1>2. Case(s).ch \in Chans
  BY CaseAt
<1>3. ASSUME UNCHANGED <<closed, recvWait, sendWait>>
      PROVE  NoneGoes /\ closed' = closed
  BY <1>3 DEF NoneGoes
<1>4. SelCall(s) \/ SelWake(s) \/ SelLive(s) => UNCHANGED <<closed, recvWait, sendWait>>
  BY DEF SelCall, SelWake, SelLive, vars
<1>5. ASSUME SelTry(s)
      PROVE  NoneGoes /\ closed' = closed
  <2>1. ASSUME NEW c \in Chans, NEW v,
               Put(s, c, v) \/ GrowAndPut(s, c, v) \/ Take(s, c)
        PROVE  NoneGoes /\ closed' = closed
    BY <1>1, <2>1, MovesWake DEF Put, GrowAndPut, Take
  <2>2. UNCHANGED vars => UNCHANGED <<closed, recvWait, sendWait>>
    BY DEF vars
  <2> QED
    BY <1>2, <1>3, <1>5, <2>1, <2>2 DEF SelTry
<1>6. ASSUME SelWait(s)
      PROVE  NoneGoes /\ closed' = closed
  <2>1. CASE Sleeps(s)
    <3>1. Case(s).ch \notin closed
      BY <2>1 DEF Sleeps
    <3>2. PICK c : c = Case(s).ch
      OBVIOUS
    <3>3. /\ closed' = closed
          /\ \/ recvWait' = [recvWait EXCEPT ![c] = @ \cup {s}] /\ UNCHANGED sendWait
             \/ sendWait' = [sendWait EXCEPT ![c] = @ \cup {s}] /\ UNCHANGED recvWait
      BY <1>6, <2>1, <3>2 DEF SelWait
    <3> QED
      BY <1>1, <1>2, <3>1, <3>2, <3>3 DEF NoneGoes, ThreadsOK
  <2>2. CASE ~Sleeps(s)
    <3>1. UNCHANGED <<closed, recvWait, sendWait>>
      BY <1>6, <2>2 DEF SelWait, vars
    <3> QED
      BY <1>3, <3>1
  <2> QED
    BY <2>1, <2>2
<1> QED
  BY <1>3, <1>4, <1>5, <1>6 DEF SelStep

\* Every step leaves the closed channels without sleepers.
LEMMA AwakeStep == SelInv /\ NoneAsleepOnClosed /\ [SNext]_svars => NoneAsleepOnClosed'
<1> SUFFICES ASSUME SelInv, NoneAsleepOnClosed, [SNext]_svars
             PROVE  NoneAsleepOnClosed'
  OBVIOUS
<1>1. ThreadsOK
  BY TypeParts DEF SelInv, QueueInv
<1>2. ASSUME NoneGoes, closed' = closed
      PROVE  NoneAsleepOnClosed'
  BY <1>2 DEF NoneGoes, NoneAsleepOnClosed
<1>3. ASSUME NEW t \in Callers, NEW c \in Chans, CallerStep(t, c)
      PROVE  NoneAsleepOnClosed'
  <2>1. Call(t, c)
    BY <1>3 DEF CallerStep, Call
  <2> QED
    BY <1>1, <1>2, <2>1, CallsStayAwake, CallFrame
<1>4. ASSUME NEW s \in Selectors, SelCall(s) \/ SelStep(s)
      PROVE  NoneAsleepOnClosed'
  BY <1>2, <1>4, SelectsStayAwake
<1>5. ASSUME NEW t \in Threads, NEW c \in Chans, Timeout(t, c)
      PROVE  NoneAsleepOnClosed'
  BY <1>1, <1>2, <1>5 DEF Timeout, Spurious, NoneGoes, ThreadsOK
<1>6. ASSUME NEW c \in Chans, Close(c)
      PROVE  NoneAsleepOnClosed'
  <2>1. \A d \in closed' : d = c \/ d \in closed
    BY <1>6 DEF Close
  <2> QED
    BY <1>1, <1>6, <2>1 DEF Close, NoneAsleepOnClosed, ThreadsOK
<1>7. CASE UNCHANGED svars
  BY <1>7 DEF svars, vars, NoneAsleepOnClosed
<1> QED
  BY <1>3, <1>4, <1>5, <1>6, <1>7 DEF SNext

\* No select and no other thread sleeps on a closed channel, though the channel
\* of a case may be closed after the second phase found the case live: the third
\* looks again before it sleeps.
THEOREM SelectsAreAwake == SSpec => []NoneAsleepOnClosed
<1>1. SInit => NoneAsleepOnClosed
  BY DEF SInit, Init, NoneAsleepOnClosed
<1>2. SelInv /\ NoneAsleepOnClosed /\ [SNext]_svars => NoneAsleepOnClosed'
  BY AwakeStep
<1> QED
  BY <1>1, <1>2, SelInvariant, PTL DEF SSpec
=============================================================================
