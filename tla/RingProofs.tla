------------------------------ MODULE RingProofs -----------------------------
(***************************************************************************)
(* The ready rings are the first-in first-out queues of TaskQueue, for any *)
(* number of workers, submitting threads and tasks, and any capacity that  *)
(* divides the width of the counters.                                      *)
(***************************************************************************)
EXTENDS ReadyRing, FiniteSetTheorems, SequenceTheorems, TLAPS

-----------------------------------------------------------------------------
(* Counters that wrap *)

LEMMA Widths ==
  /\ Cap \in Nat /\ Cap > 1 /\ Wrap \in Nat /\ Wrap > Cap
  /\ IsFiniteSet(Procs) /\ Cardinality(Procs) \in Nat
  /\ Wrap > Cap + Cardinality(Procs)
<1>1. IsFiniteSet(Procs) /\ Cardinality(Procs) \in Nat
  BY RingConstants, FS_CardinalityType
<1> QED
  BY <1>1, RingConstants

LEMMA OccupancyFacts ==
  ASSUME NEW h \in Counter, NEW t \in Counter
  PROVE  /\ Occupancy(h, t) \in 0 .. Wrap - 1
         /\ Occupancy(h, t) = 0 <=> h = t
         /\ At(h, Occupancy(h, t)) = t
BY Widths DEF Counter, Occupancy, At

LEMMA AtFacts ==
  ASSUME NEW h \in Counter, NEW i \in 0 .. Wrap - 1
  PROVE  At(h, i) \in Counter /\ Occupancy(h, At(h, i)) = i
BY Widths DEF Counter, Occupancy, At

\* The tail goes up or down by one, the head up by one.
LEMMA TailUp ==
  ASSUME NEW h \in Counter, NEW t \in Counter, Occupancy(h, t) < Wrap - 1
  PROVE  Inc(t) \in Counter /\ Occupancy(h, Inc(t)) = Occupancy(h, t) + 1
BY Widths DEF Counter, Occupancy, Inc

LEMMA TailDown ==
  ASSUME NEW h \in Counter, NEW t \in Counter, Occupancy(h, t) > 0
  PROVE  Dec(t) \in Counter /\ Occupancy(h, Dec(t)) = Occupancy(h, t) - 1
BY Widths DEF Counter, Occupancy, Dec

LEMMA HeadUp ==
  ASSUME NEW h \in Counter, NEW t \in Counter, Occupancy(h, t) > 0
  PROVE  Inc(h) \in Counter /\ Occupancy(Inc(h), t) = Occupancy(h, t) - 1
BY Widths DEF Counter, Occupancy, Inc

LEMMA HeadUpAt ==
  ASSUME NEW h \in Counter, NEW i \in 0 .. Wrap - 2
  PROVE  At(Inc(h), i) = At(h, i + 1)
BY Widths DEF Counter, At, Inc

LEMMA CounterTypes ==
  ASSUME NEW t \in Counter
  PROVE  Inc(t) \in Counter /\ Dec(t) \in Counter
BY Widths DEF Counter, Inc, Dec

\* Positions less than a lap apart have different slots, as the width of the
\* counters is a multiple of Cap.
LEMMA Multiple ==
  ASSUME NEW c \in Nat, NEW m \in Int, NEW d \in 1 .. c - 1
  PROVE  m * c # d
<1>1. CASE m <= 0
  <2>1. m * c <= 0
    BY <1>1
  <2> QED
    BY <2>1
<1>2. CASE m >= 1
  <2>1. m * c >= c
    BY <1>2
  <2> QED
    BY <2>1
<1> QED
  BY <1>1, <1>2

LEMMA Remainder ==
  ASSUME NEW c \in Int, c > 0, NEW a \in Int
  PROVE  /\ a % c \in Int /\ a \div c \in Int
         /\ a = (a \div c) * c + (a % c)
<1>1. a % c \in Int
  OBVIOUS
<1>2. a \div c \in Int
  OBVIOUS
<1>3. a = (a \div c) * c + (a % c)
  OBVIOUS
<1> QED
  BY <1>1, <1>2, <1>3

LEMMA SlotsApart ==
  ASSUME NEW h \in Counter, NEW i \in 0 .. Cap - 1, NEW j \in 0 .. Cap - 1, i < j
  PROVE  At(h, i) % Cap # At(h, j) % Cap
<1> DEFINE a == At(h, i)
           b == At(h, j)
<1>1. a \in Nat /\ b \in Nat /\ (b - a = j - i \/ b - a = j - i - Wrap)
  BY Widths DEF Counter, At
<1>2. PICK k \in 1 .. Wrap : Wrap = k * Cap
  BY RingConstants
<1>3. Cap \in Nat /\ Cap \in Int /\ Cap > 0 /\ k \in Int /\ j - i \in 1 .. Cap - 1
  BY Widths
<1> HIDE DEF a, b
<1>4. a \in Int /\ b \in Int
  BY <1>1
<1> DEFINE q == a \div Cap
           r == b \div Cap
<1>5. /\ a % Cap \in Int /\ q \in Int /\ a = q * Cap + (a % Cap)
      /\ b % Cap \in Int /\ r \in Int /\ b = r * Cap + (b % Cap)
  BY <1>3, <1>4, Remainder
<1> HIDE DEF q, r
<1>6. ASSUME a % Cap = b % Cap
      PROVE  FALSE
  <2> DEFINE s == a % Cap
  <2>1. s \in Int /\ a = q * Cap + s /\ b = r * Cap + s
    BY <1>5, <1>6
  <2> HIDE DEF s
  <2>2. b - a = (r - q) * Cap
    BY <1>3, <1>5, <2>1
  <2>3. CASE b - a = j - i
    <3>1. (r - q) * Cap = j - i /\ r - q \in Int
      BY <1>5, <2>2, <2>3
    <3> QED
      BY <1>3, <3>1, Multiple
  <2>4. CASE b - a = j - i - Wrap
    <3>1. (r - q) * Cap + k * Cap = j - i
      BY <1>1, <1>2, <1>3, <1>5, <2>2, <2>4
    <3>2. (r - q + k) * Cap = j - i /\ r - q + k \in Int
      BY <1>3, <1>5, <3>1
    <3> QED
      BY <1>3, <3>2, Multiple
  <2> QED
    BY <1>1, <2>3, <2>4
<1> QED
  BY <1>6 DEF a, b

-----------------------------------------------------------------------------
(* The inductive invariant *)

Occ(w) == Occupancy(head[w], tail[w])

\* How far from the head a thread submits or reads.
Off(w, p) == Occupancy(head[w], pos[p])

Submits(p, w) == pc[p] \in Submitting /\ ring[p] = w

\* The reservations of a ring that are, or will be, refused.
Refused(w) == {p \in Procs : Submits(p, w) /\ Off(w, p) >= Cap - 1}

\* A worker has its own ring, producers only submit, and never to a ring
\* that is drained.
Phases ==
  /\ \A p \in Producers : pc[p] = "idle" \/ pc[p] \in Submitting
  /\ \A w \in Workers : ring[w] = w
  /\ \A w \in Workers : pc[w] # "idle" => \A p \in Producers : ~Submits(p, w)

\* The tail is past the last slot by the number of refused reservations.
Counted(w) ==
  \/ Refused(w) = {} /\ Occ(w) <= Cap - 1
  \/ Occ(w) = Cap - 1 + Cardinality(Refused(w))

\* A reservation that fits is below the tail and no one else's, and only one
\* that does not fit is refused.
Reserved(w) ==
  \A p \in Procs : Submits(p, w) =>
    /\ Off(w, p) < Cap - 1 =>
         /\ Off(w, p) < Occ(w)
         /\ \A q \in Procs : Submits(q, w) /\ Off(w, q) = Off(w, p) => q = p
    /\ pc[p] = "full" => Off(w, p) >= Cap - 1
    /\ pc[p] = "write" => Off(w, p) < Cap - 1
    /\ fn[p] # Null

\* A worker that drains reads the head, and runs a task.
Drains(w) ==
  /\ pc[w] \in {"read", "advance"} => pos[w] = head[w] /\ Occ(w) > 0
  /\ pc[w] = "advance" => fn[w] = slots[w][head[w] % Cap]
  /\ pc[w] = "run" => fn[w] # Null

IInv == TypeOK /\ Phases /\ \A w \in Workers : Counted(w) /\ Reserved(w) /\ Drains(w)

-----------------------------------------------------------------------------
(* One thread acts on one ring, and all others stay as they are. *)

Acts(p, v) ==
  /\ p \in Procs /\ v \in Workers /\ (p \in Workers => p = v)
  /\ pc[p] \in Submitting => ring[p] = v
  /\ pc'[p] \in Submitting => ring'[p] = v
  /\ \A q \in Procs \ {p} :
       pc'[q] = pc[q] /\ ring'[q] = ring[q] /\ pos'[q] = pos[q] /\ fn'[q] = fn[q]
  /\ \A w \in Workers \ {v} :
       head'[w] = head[w] /\ tail'[w] = tail[w] /\ slots'[w] = slots[w]

LEMMA Types ==
  ASSUME TypeOK
  PROVE  /\ Workers \subseteq Procs /\ Producers \subseteq Procs
         /\ \A w \in Workers : /\ head[w] \in Counter /\ tail[w] \in Counter
                               /\ Occ(w) \in 0 .. Wrap - 1
         /\ \A p \in Procs, w \in Workers :
              pos[p] \in Counter /\ ring[p] \in Workers /\ Off(w, p) \in 0 .. Wrap - 1
         /\ \A w \in Workers : /\ IsFiniteSet(Refused(w)) /\ Refused(w) \subseteq Procs
                               /\ Cardinality(Refused(w)) \in 0 .. Cardinality(Procs)
<1>1. Workers \subseteq Procs /\ Producers \subseteq Procs
  BY DEF Procs
<1>2. \A w \in Workers : head[w] \in Counter /\ tail[w] \in Counter
  BY DEF TypeOK
<1>3. \A p \in Procs, w \in Workers : pos[p] \in Counter /\ ring[p] \in Workers
  BY DEF TypeOK
<1>4. \A w \in Workers : Occ(w) \in 0 .. Wrap - 1
  BY <1>2, OccupancyFacts DEF Occ
<1>5. \A p \in Procs, w \in Workers : Off(w, p) \in 0 .. Wrap - 1
  BY <1>2, <1>3, OccupancyFacts DEF Off
<1>6. ASSUME NEW w \in Workers
      PROVE  /\ IsFiniteSet(Refused(w)) /\ Refused(w) \subseteq Procs
             /\ Cardinality(Refused(w)) \in 0 .. Cardinality(Procs)
  <2>1. Refused(w) \subseteq Procs
    BY DEF Refused
  <2>2. IsFiniteSet(Refused(w)) /\ Cardinality(Refused(w)) <= Cardinality(Procs)
    BY <2>1, Widths, FS_Subset
  <2>3. Cardinality(Refused(w)) \in Nat
    BY <2>2, FS_CardinalityType
  <2> QED
    BY <2>1, <2>2, <2>3, Widths
<1> QED
  BY <1>1, <1>2, <1>3, <1>4, <1>5, <1>6

\* The tail never goes around.
LEMMA NoLap ==
  ASSUME IInv, NEW w \in Workers
  PROVE  /\ Occ(w) \in 0 .. Wrap - 2
         /\ Occ(w) < Cap - 1 => Refused(w) = {}
         /\ Occ(w) >= Cap - 1 => Occ(w) = Cap - 1 + Cardinality(Refused(w))
<1>1. /\ Occ(w) \in 0 .. Wrap - 1 /\ Cardinality(Refused(w)) \in 0 .. Cardinality(Procs)
      /\ Counted(w)
  BY Types DEF IInv
<1>2. Refused(w) = {} => Cardinality(Refused(w)) = 0
  BY FS_EmptySet
<1> QED
  BY <1>1, <1>2, Widths DEF Counted

LEMMA Elsewhere ==
  ASSUME IInv, NEW p, NEW v, Acts(p, v), NEW w \in Workers, w # v
  PROVE  (Counted(w) /\ Reserved(w) /\ Drains(w))'
<1>1. /\ head'[w] = head[w] /\ tail'[w] = tail[w] /\ slots'[w] = slots[w]
      /\ w \in Procs /\ w # p
  BY DEF Acts, Procs
<1>2. pc'[w] = pc[w] /\ pos'[w] = pos[w] /\ fn'[w] = fn[w] /\ ring'[w] = ring[w]
  BY <1>1 DEF Acts
<1>3. \A q \in Procs : /\ Submits(q, w)' <=> Submits(q, w)
                       /\ Submits(q, w) => /\ pc'[q] = pc[q] /\ pos'[q] = pos[q]
                                           /\ fn'[q] = fn[q]
  BY DEF Acts, Submits
<1>4. Occ(w)' = Occ(w) /\ \A q \in Procs : pos'[q] = pos[q] => Off(w, q)' = Off(w, q)
  BY <1>1 DEF Occ, Off
<1>5. Refused(w)' = Refused(w)
  BY <1>3, <1>4 DEF Refused
<1>6. /\ Counted(w) /\ Reserved(w) /\ Drains(w)
  BY DEF IInv
<1>7. Counted(w)'
  BY <1>4, <1>5, <1>6 DEF Counted
<1>8. Reserved(w)'
  BY <1>3, <1>4, <1>6 DEF Reserved
<1>9. Drains(w)'
  BY <1>1, <1>2, <1>4, <1>6 DEF Drains
<1> QED
  BY <1>7, <1>8, <1>9

-----------------------------------------------------------------------------
(* A ring and its submits *)

LEMMA ReserveRing ==
  ASSUME IInv, NEW p, NEW v, Acts(p, v), pc[p] \notin Submitting,
         pc'[p] = "check", ring'[p] = v, fn'[p] # Null,
         head' = head, pos'[p] = tail[v], tail'[v] = Inc(tail[v])
  PROVE  Counted(v)' /\ Reserved(v)' /\ Occ(v)' = Occ(v) + 1 /\ Off(v, p)' = Occ(v)
<1>1. v \in Workers /\ p \in Procs /\ "check" \in Submitting
  BY DEF Acts, Submitting
<1>2. /\ head[v] \in Counter /\ tail[v] \in Counter /\ Occ(v) \in 0 .. Wrap - 2
      /\ IsFiniteSet(Refused(v)) /\ Cardinality(Refused(v)) \in Nat
      /\ \A q \in Procs : Off(v, q) \in 0 .. Wrap - 1
  BY <1>1, Types, NoLap, Widths DEF IInv
<1>3. Occ(v)' = Occ(v) + 1
  BY <1>2, TailUp, Widths DEF Occ
<1>4. /\ Off(v, p)' = Occ(v) /\ Submits(p, v)' /\ ~Submits(p, v)
  BY <1>1 DEF Off, Occ, Submits
<1>5. \A q \in Procs : q # p =>
        /\ Submits(q, v)' <=> Submits(q, v)
        /\ Off(v, q)' = Off(v, q) /\ pc'[q] = pc[q] /\ fn'[q] = fn[q]
  BY DEF Acts, Submits, Off
<1>6. p \notin Refused(v)
  BY <1>4 DEF Refused
<1>7. Counted(v)'
  <2>1. CASE Occ(v) < Cap - 1
    <3>1. Refused(v) = {}
      BY <1>1, <2>1, NoLap
    <3>2. Refused(v)' = {}
      BY <1>2, <1>4, <1>5, <2>1, <3>1, Widths DEF Refused
    <3> QED
      BY <1>2, <1>3, <2>1, <3>2, Widths DEF Counted
  <2>2. CASE Occ(v) >= Cap - 1
    <3>1. Occ(v) = Cap - 1 + Cardinality(Refused(v))
      BY <1>1, <2>2, NoLap
    <3>2. Refused(v)' = Refused(v) \cup {p}
      BY <1>1, <1>4, <1>5, <2>2 DEF Refused
    <3>3. Cardinality(Refused(v)') = Cardinality(Refused(v)) + 1
      BY <1>2, <1>6, <3>2, FS_AddElement
    <3> QED
      BY <1>2, <1>3, <3>1, <3>3, Widths DEF Counted
  <2> QED
    BY <1>2, <2>1, <2>2, Widths
<1>8. Reserved(v)'
  <2>1. Reserved(v)
    BY <1>1 DEF IInv
  <2>2. ASSUME NEW q \in Procs, Submits(q, v)', q # p
        PROVE  /\ Off(v, q)' < Cap - 1 =>
                    /\ Off(v, q)' < Occ(v)'
                    /\ \A r \in Procs : Submits(r, v)' /\ Off(v, r)' = Off(v, q)' => r = q
               /\ pc'[q] = "full" => Off(v, q)' >= Cap - 1
               /\ pc'[q] = "write" => Off(v, q)' < Cap - 1
               /\ fn'[q] # Null
    <3>1. Submits(q, v) /\ Off(v, q)' = Off(v, q) /\ pc'[q] = pc[q] /\ fn'[q] = fn[q]
      BY <1>5, <2>2
    <3>2. ASSUME Off(v, q) < Cap - 1
          PROVE  /\ Off(v, q) < Occ(v)
                 /\ \A r \in Procs : Submits(r, v)' /\ Off(v, r)' = Off(v, q)' => r = q
      <4>1. Off(v, q) < Occ(v) /\ Off(v, q) # Occ(v)
        BY <1>2, <2>1, <3>1, <3>2 DEF Reserved
      <4>2. ASSUME NEW r \in Procs, Submits(r, v)', Off(v, r)' = Off(v, q)'
            PROVE  r = q
        <5>1. r # p
          BY <1>4, <3>1, <4>1, <4>2
        <5> QED
          BY <1>5, <2>1, <3>1, <3>2, <4>2, <5>1 DEF Reserved
      <4> QED
        BY <4>1, <4>2
    <3>3. Off(v, q) < Cap - 1 => Off(v, q) < Occ(v)'
      BY <1>2, <1>3, <3>2
    <3> QED
      BY <2>1, <3>1, <3>2, <3>3 DEF Reserved
  <2>3. Off(v, p)' < Occ(v)'
    BY <1>2, <1>3, <1>4
  <2>4. ASSUME Off(v, p)' < Cap - 1, NEW r \in Procs, Submits(r, v)', Off(v, r)' = Off(v, p)'
        PROVE  r = p
    <3>1. ASSUME r # p
          PROVE  FALSE
      <4>1. Submits(r, v) /\ Off(v, r) = Occ(v) /\ Off(v, r) < Cap - 1
        BY <1>4, <1>5, <2>4, <3>1
      <4>2. Off(v, r) < Occ(v)
        BY <2>1, <4>1 DEF Reserved
      <4> QED
        BY <1>2, <4>1, <4>2
    <3> QED
      BY <3>1
  <2> QED
    BY <2>2, <2>3, <2>4 DEF Reserved
<1> QED
  BY <1>3, <1>4, <1>7, <1>8

LEMMA GoFacts ==
  ASSUME IInv, NEW p \in Procs
  PROVE  /\ \A place : Go(p, place) => pc'[p] = place /\ \A q \in Procs \ {p} : pc'[q] = pc[q]
         /\ \A x : fn' = [fn EXCEPT ![p] = x] =>
              fn'[p] = x /\ \A q \in Procs \ {p} : fn'[q] = fn[q]
         /\ \A n : pos' = [pos EXCEPT ![p] = n] =>
              pos'[p] = n /\ \A q \in Procs \ {p} : pos'[q] = pos[q]
         /\ ring[p] \in Workers /\ (p \in Workers => ring[p] = p)
<1>1. /\ DOMAIN pc = Procs /\ DOMAIN fn = Procs /\ DOMAIN pos = Procs
      /\ ring[p] \in Workers
  BY DEF IInv, TypeOK
<1>2. p \in Workers => ring[p] = p
  BY DEF IInv, Phases
<1>3. pc = [q \in Procs |-> pc[q]] /\ fn = [q \in Procs |-> fn[q]] /\ pos = [q \in Procs |-> pos[q]]
  BY DEF IInv, TypeOK
<1> QED
  BY <1>1, <1>2, <1>3 DEF Go

\* A submit that goes on, or is done, and keeps its reservation.
LEMMA CheckRing ==
  ASSUME IInv, NEW p \in Procs, NEW v, v = ring[p], Check(p)
  PROVE  Counted(v)' /\ Reserved(v)' /\ Acts(p, v)
<1>1. /\ pc[p] = "check" /\ v \in Workers /\ pc'[p] \in {"full", "write"}
      /\ pc'[p] = IF IsFull(head[v], pos[p]) THEN "full" ELSE "write"
      /\ UNCHANGED <<head, tail, slots, ring, pos, fn>>
      /\ \A q \in Procs \ {p} : pc'[q] = pc[q]
  BY GoFacts DEF Check
<1>2. Acts(p, v)
  BY <1>1, GoFacts DEF Acts
<1>3. \A q \in Procs : /\ Submits(q, v)' <=> Submits(q, v)
                       /\ Off(v, q)' = Off(v, q) /\ fn'[q] = fn[q]
  BY <1>1 DEF Submits, Submitting, Off
<1>4. Refused(v)' = Refused(v) /\ Occ(v)' = Occ(v)
  BY <1>1, <1>3 DEF Refused, Occ
<1>5. Counted(v) /\ Reserved(v)
  BY <1>1 DEF IInv
<1>6. Counted(v)'
  BY <1>4, <1>5 DEF Counted
<1>7. /\ pc'[p] = "full" => Off(v, p)' >= Cap - 1
      /\ pc'[p] = "write" => Off(v, p)' < Cap - 1
  <2>1. Off(v, p) \in Int /\ Off(v, p)' = Off(v, p)
    BY <1>1, <1>3, Types DEF IInv
  <2>2. IsFull(head[v], pos[p]) <=> Off(v, p) >= Cap - 1
    BY DEF IsFull, Off
  <2> QED
    BY <1>1, <2>1, <2>2, Widths
<1>8. Reserved(v)'
  BY <1>1, <1>3, <1>4, <1>5, <1>7 DEF Reserved
<1> QED
  BY <1>2, <1>6, <1>8

LEMMA RollbackRing ==
  ASSUME IInv, NEW p \in Procs, NEW v, v = ring[p], Rollback(p)
  PROVE  /\ Counted(v)' /\ Reserved(v)' /\ Acts(p, v)
         /\ Occ(v) >= Cap /\ Occ(v)' = Occ(v) - 1
<1>1. /\ pc[p] = "full" /\ v \in Workers /\ pc'[p] = "idle"
      /\ tail' = [tail EXCEPT ![v] = Dec(@)]
      /\ UNCHANGED <<head, slots, ring, pos>>
      /\ \A q \in Procs \ {p} : pc'[q] = pc[q] /\ fn'[q] = fn[q]
  BY GoFacts DEF Rollback
<1>2. tail'[v] = Dec(tail[v]) /\ \A w \in Workers \ {v} : tail'[w] = tail[w]
  BY <1>1 DEF IInv, TypeOK
<1>3. Acts(p, v)
  BY <1>1, <1>2, GoFacts DEF Acts, Submitting
<1>4. Submits(p, v) /\ ~Submits(p, v)'
  BY <1>1 DEF Submits, Submitting
<1>5. \A q \in Procs : q # p => /\ Submits(q, v)' <=> Submits(q, v)
                                /\ pc'[q] = pc[q] /\ fn'[q] = fn[q]
  BY <1>1 DEF Submits
<1>6. \A q \in Procs : Off(v, q)' = Off(v, q)
  BY <1>1 DEF Off
<1>7. Counted(v) /\ Reserved(v)
  BY <1>1 DEF IInv
<1>8. Off(v, p) >= Cap - 1
  BY <1>1, <1>4, <1>7 DEF Reserved
<1>9. p \in Refused(v) /\ IsFiniteSet(Refused(v)) /\ Cardinality(Refused(v)) \in Nat
  <2>1. p \in Refused(v)
    BY <1>4, <1>8 DEF Refused
  <2>2. IsFiniteSet(Refused(v)) /\ Cardinality(Refused(v)) \in 0 .. Cardinality(Procs)
    BY <1>1, Types DEF IInv
  <2> QED
    BY <2>1, <2>2, Widths
<1>10. Refused(v)' = Refused(v) \ {p}
  BY <1>4, <1>5, <1>6 DEF Refused
<1>11. Cardinality(Refused(v)') = Cardinality(Refused(v)) - 1 /\ Cardinality(Refused(v)) > 0
  <2>1. Cardinality(Refused(v)') = Cardinality(Refused(v)) - 1
    BY <1>9, <1>10, FS_RemoveElement
  <2>2. Refused(v) # {}
    BY <1>9
  <2> QED
    BY <1>9, <2>1, <2>2, FS_EmptySet
<1>12. Occ(v) = Cap - 1 + Cardinality(Refused(v)) /\ Occ(v) > 0
  BY <1>7, <1>9, <1>11, Widths DEF Counted
<1>13. Occ(v)' = Occ(v) - 1
  <2>1. head[v] \in Counter /\ tail[v] \in Counter
    BY <1>1, Types DEF IInv
  <2> QED
    BY <1>1, <1>2, <1>12, <2>1, TailDown DEF Occ
<1>14. Counted(v)'
  BY <1>9, <1>11, <1>12, <1>13, Widths DEF Counted
<1>15. Reserved(v)'
  <2>1. \A q \in Procs : Off(v, q) \in Int
    BY <1>1, Types DEF IInv
  <2>2. Occ(v)' >= Cap - 1
    BY <1>9, <1>11, <1>12, <1>13, Widths
  <2>3. \A q \in Procs : Off(v, q) < Cap - 1 => Off(v, q) < Occ(v)'
    BY <1>9, <1>12, <1>13, <2>1, <2>2, Widths
  <2> QED
    BY <1>4, <1>5, <1>6, <1>7, <2>3 DEF Reserved
<1>16. Occ(v) >= Cap
  BY <1>9, <1>11, <1>12, Widths
<1> QED
  BY <1>3, <1>13, <1>14, <1>15, <1>16

LEMMA WriteRing ==
  ASSUME IInv, NEW p \in Procs, NEW v, v = ring[p], Write(p)
  PROVE  Counted(v)' /\ Reserved(v)' /\ Acts(p, v)
<1>1. /\ pc[p] = "write" /\ v \in Workers /\ pc'[p] \in {"look", "idle"}
      /\ UNCHANGED <<head, tail, ring, pos>>
      /\ \A q \in Procs \ {p} : pc'[q] = pc[q] /\ fn'[q] = fn[q]
      /\ \A w \in Workers \ {v} : slots'[w] = slots[w]
  <2>1. /\ pc[p] = "write" /\ Go(p, IF p \in Workers THEN "look" ELSE "idle")
        /\ fn' = [fn EXCEPT ![p] = Null]
        /\ UNCHANGED <<head, tail, ring, pos>>
    BY DEF Write
  <2>2. \A w \in Workers \ {v} : slots'[w] = slots[w]
    BY DEF Write, IInv, TypeOK
  <2> QED
    BY <2>1, <2>2, GoFacts
<1>2. Acts(p, v)
  BY <1>1, GoFacts DEF Acts, Submitting
<1>3. Submits(p, v) /\ ~Submits(p, v)'
  BY <1>1 DEF Submits, Submitting
<1>4. \A q \in Procs : q # p => /\ Submits(q, v)' <=> Submits(q, v)
                                /\ pc'[q] = pc[q] /\ fn'[q] = fn[q]
  BY <1>1 DEF Submits
<1>5. Occ(v)' = Occ(v) /\ \A q \in Procs : Off(v, q)' = Off(v, q)
  BY <1>1 DEF Off, Occ
<1>6. Counted(v) /\ Reserved(v)
  BY <1>1 DEF IInv
<1>7. p \notin Refused(v)
  <2>1. Off(v, p) < Cap - 1 /\ Off(v, p) \in Int
    BY <1>1, <1>3, <1>6, Types DEF Reserved, IInv
  <2> QED
    BY <2>1, Widths DEF Refused
<1>8. Refused(v)' = Refused(v)
  BY <1>3, <1>4, <1>5, <1>7 DEF Refused
<1>9. Counted(v)'
  BY <1>5, <1>6, <1>8 DEF Counted
<1>10. Reserved(v)'
  BY <1>3, <1>4, <1>5, <1>6 DEF Reserved
<1> QED
  BY <1>2, <1>9, <1>10

\* A ring that no one submits to.
Quiet(w) == \A p \in Procs : ~Submits(p, w)

LEMMA QuietRing ==
  ASSUME NEW w \in Workers
  PROVE  Quiet(w) /\ Occ(w) <= Cap - 1 => Counted(w) /\ Reserved(w)
<1>1. ASSUME Quiet(w) PROVE Refused(w) = {} /\ Reserved(w)
  BY <1>1 DEF Quiet, Refused, Reserved
<1> QED
  BY <1>1 DEF Counted

LEMMA DrainedIsQuiet ==
  ASSUME IInv, NEW w \in Workers, pc[w] # "idle", pc[w] \notin Submitting
  PROVE  Quiet(w) /\ Occ(w) <= Cap - 1 /\ Refused(w) = {}
<1>1. Quiet(w)
  BY DEF IInv, Phases, Quiet, Procs, Submits
<1>2. Refused(w) = {}
  BY <1>1 DEF Quiet, Refused
<1>3. Occ(w) \in Int /\ Counted(w)
  BY Types DEF IInv
<1> QED
  BY <1>1, <1>2, <1>3, FS_EmptySet, Widths DEF Counted

-----------------------------------------------------------------------------
(* The steps *)

\* What a step of thread p on ring v has to show.
LEMMA RingStep ==
  ASSUME IInv, NEW p, NEW v, Acts(p, v), TypeOK', Phases',
         (Counted(v) /\ Reserved(v) /\ Drains(v))'
  PROVE  IInv'
BY Elsewhere DEF IInv

\* A step that moves a thread within its phase keeps the phases.
LEMMA PhaseStep ==
  ASSUME IInv, NEW p, NEW v, Acts(p, v), ring' = ring,
         pc'[p] \in Submitting => pc[p] \in Submitting,
         p \in Producers => pc'[p] = "idle" \/ pc'[p] \in Submitting,
         p \in Workers => pc[p] # "idle"
  PROVE  Phases'
<1>1. \A q \in Procs : q # p => pc'[q] = pc[q]
  BY DEF Acts
<1>2. \A q \in Procs, w \in Workers : Submits(q, w)' => Submits(q, w)
  BY <1>1 DEF Submits
<1>3. /\ \A q \in Producers : pc[q] = "idle" \/ pc[q] \in Submitting
      /\ \A w \in Workers : ring[w] = w
      /\ \A w \in Workers : pc[w] # "idle" => \A q \in Producers : ~Submits(q, w)
      /\ Producers \subseteq Procs /\ Workers \subseteq Procs
  BY DEF IInv, Phases, Procs
<1> QED
  BY <1>1, <1>2, <1>3 DEF Phases

LEMMA PcTypes ==
  ASSUME IInv, NEW p \in Procs
  PROVE  /\ \A place \in {"idle"} \cup Draining :
              Go(p, place) => pc' \in [Procs -> {"idle"} \cup Draining]
         /\ \A x \in Tasks \cup {Null} :
              fn' = [fn EXCEPT ![p] = x] => fn' \in [Procs -> Tasks \cup {Null}]
         /\ \A n \in Counter : pos' = [pos EXCEPT ![p] = n] => pos' \in [Procs -> Counter]
BY DEF IInv, TypeOK, Go

LEMMA Places ==
  /\ Draining = {"look", "read", "advance", "run", "check", "full", "write"}
  /\ Submitting = {"check", "full", "write"}
BY DEF Draining, Submitting

LEMMA InitIInv == Init => IInv
<1> SUFFICES ASSUME Init
             PROVE  IInv
  OBVIOUS
<1>1. 0 \in Counter /\ Occupancy(0, 0) = 0 /\ Workers \subseteq Procs
  BY Widths DEF Counter, Occupancy, Procs
<1>2. ring \in [Procs -> Workers] /\ \A w \in Workers : ring[w] = w
  BY DEF Init
<1>3. TypeOK
  BY <1>1, <1>2 DEF Init, TypeOK
<1>4. \A p \in Procs : pc[p] = "idle"
  BY DEF Init
<1>5. \A w \in Workers : Quiet(w) /\ pc[w] = "idle"
  BY <1>1, <1>4, Places DEF Quiet, Submits
<1>6. Phases
  BY <1>2, <1>4, <1>5, Places DEF Phases, Procs, Quiet
<1>7. ASSUME NEW w \in Workers
      PROVE  Counted(w) /\ Reserved(w) /\ Drains(w)
  <2>1. Occ(w) = 0
    BY <1>1 DEF Init, Occ
  <2>2. Counted(w) /\ Reserved(w)
    BY <1>5, <2>1, QuietRing, Widths
  <2>3. Drains(w)
    BY <1>5, Places DEF Drains
  <2> QED
    BY <2>2, <2>3
<1> QED
  BY <1>3, <1>6, <1>7 DEF IInv

LEMMA SubmitStep ==
  ASSUME IInv, NEW p \in Producers, NEW v \in Workers, NEW x \in Tasks, SubmitTo(p, v, x)
  PROVE  IInv' /\ Occ(v)' = Occ(v) + 1 /\ Off(v, p)' = Occ(v) /\ Acts(p, v)
<1>1. p \in Procs /\ v \in Procs /\ p \notin Workers /\ tail[v] \in Counter /\ Null \notin Tasks
  BY RingConstants DEF Procs, IInv, TypeOK
<1>2. /\ pc[p] = "idle" /\ pc[v] = "idle" /\ ring' = [ring EXCEPT ![p] = v]
      /\ fn' = [fn EXCEPT ![p] = x] /\ pos' = [pos EXCEPT ![p] = tail[v]]
      /\ tail' = [tail EXCEPT ![v] = Inc(@)] /\ Go(p, "check")
      /\ UNCHANGED <<head, slots>>
  BY DEF SubmitTo, MaySubmit, Reserve
<1>3. /\ pc'[p] = "check" /\ fn'[p] = x /\ pos'[p] = tail[v]
      /\ \A q \in Procs \ {p} : pc'[q] = pc[q] /\ fn'[q] = fn[q] /\ pos'[q] = pos[q]
  <2>1. pc'[p] = "check" /\ \A q \in Procs \ {p} : pc'[q] = pc[q]
    BY <1>1, <1>2, GoFacts
  <2>2. fn'[p] = x /\ \A q \in Procs \ {p} : fn'[q] = fn[q]
    BY <1>1, <1>2, GoFacts
  <2>3. pos'[p] = tail[v] /\ \A q \in Procs \ {p} : pos'[q] = pos[q]
    BY <1>1, <1>2, GoFacts
  <2> QED
    BY <2>1, <2>2, <2>3
<1>4. ring'[p] = v /\ ring' \in [Procs -> Workers] /\ \A q \in Procs \ {p} : ring'[q] = ring[q]
  BY <1>1, <1>2 DEF IInv, TypeOK
<1>5. /\ tail'[v] = Inc(tail[v]) /\ \A w \in Workers \ {v} : tail'[w] = tail[w]
      /\ tail' \in [Workers -> Counter]
  <2>1. Inc(tail[v]) \in Counter
    BY <1>1, CounterTypes
  <2> QED
    BY <1>2, <2>1 DEF IInv, TypeOK
<1>6. TypeOK'
  <2>1. pc' \in [Procs -> {"idle"} \cup Draining]
    BY <1>1, <1>2, PcTypes, Places
  <2>2. fn' \in [Procs -> Tasks \cup {Null}] /\ pos' \in [Procs -> Counter]
    BY <1>1, <1>2, PcTypes
  <2> QED
    BY <1>2, <1>4, <1>5, <2>1, <2>2 DEF IInv, TypeOK
<1>7. Acts(p, v)
  BY <1>1, <1>2, <1>3, <1>4, <1>5, Places DEF Acts
<1>8. Phases'
  <2>1. /\ \A q \in Producers : pc[q] = "idle" \/ pc[q] \in Submitting
        /\ \A w \in Workers : ring[w] = w
        /\ \A w \in Workers : pc[w] # "idle" => \A q \in Producers : ~Submits(q, w)
        /\ Producers \subseteq Procs /\ Workers \subseteq Procs
    BY DEF IInv, Phases, Procs
  <2>2. \A q \in Procs, w \in Workers : Submits(q, w)' => Submits(q, w) \/ w = v
    BY <1>3, <1>4 DEF Submits
  <2>3. \A w \in Workers : pc'[w] = pc[w] /\ ring'[w] = ring[w]
    BY <1>1, <1>3, <1>4, <2>1
  <2>4. \A q \in Producers : pc'[q] = "idle" \/ pc'[q] \in Submitting
    BY <1>3, <2>1, Places
  <2> QED
    BY <1>2, <2>1, <2>2, <2>3, <2>4 DEF Phases
<1>9. Counted(v)' /\ Reserved(v)' /\ Occ(v)' = Occ(v) + 1 /\ Off(v, p)' = Occ(v)
  <2>1. pc[p] \notin Submitting
    BY <1>2, Places
  <2>2. fn'[p] # Null /\ head' = head
    BY <1>1, <1>2, <1>3
  <2> QED
    BY <1>3, <1>4, <1>5, <1>7, <2>1, <2>2, ReserveRing
<1>10. Drains(v)'
  <2>1. pc'[v] = "idle"
    BY <1>1, <1>2, <1>3
  <2> QED
    BY <2>1, Places DEF Drains
<1> QED
  BY <1>6, <1>7, <1>8, <1>9, <1>10, RingStep

LEMMA CheckStep ==
  ASSUME IInv, NEW p \in Procs, NEW v, v = ring[p], Check(p)
  PROVE  IInv'
<1>1. /\ pc[p] = "check" /\ UNCHANGED <<head, tail, slots, ring, pos, fn>>
      /\ Go(p, IF IsFull(head[ring[p]], pos[p]) THEN "full" ELSE "write")
      /\ v \in Workers
  BY GoFacts DEF Check
<1>2. \/ Go(p, "full") /\ pc'[p] = "full"
      \/ Go(p, "write") /\ pc'[p] = "write"
  BY <1>1, GoFacts
<1>3. TypeOK'
  <2>1. pc' \in [Procs -> {"idle"} \cup Draining]
    BY <1>2, PcTypes, Places
  <2> QED
    BY <1>1, <2>1 DEF IInv, TypeOK
<1>4. Counted(v)' /\ Reserved(v)' /\ Acts(p, v)
  BY CheckRing
<1>5. Phases'
  BY <1>1, <1>2, <1>4, PhaseStep, Places
<1>6. Drains(v)'
  <2>1. Drains(v)
    BY <1>1 DEF IInv
  <2>2. CASE p = v
    BY <1>1, <1>2, <2>1, <2>2, Places DEF Drains
  <2>3. CASE p # v
    <3>1. pc'[v] = pc[v]
      BY <1>1, <1>4, <2>3 DEF Acts, Procs
    <3> QED
      BY <1>1, <2>1, <3>1 DEF Drains, Occ
  <2> QED
    BY <2>2, <2>3
<1> QED
  BY <1>3, <1>4, <1>5, <1>6, RingStep

LEMMA RollbackStep ==
  ASSUME IInv, NEW p \in Procs, NEW v, v = ring[p], Rollback(p)
  PROVE  IInv'
<1>1. /\ pc[p] = "full" /\ UNCHANGED <<head, slots, ring, pos>>
      /\ tail' = [tail EXCEPT ![v] = Dec(@)]
      /\ Go(p, "idle") /\ fn' = [fn EXCEPT ![p] = Null]
      /\ v \in Workers /\ pc'[p] = "idle" /\ (p \in Workers => p = v)
  BY GoFacts DEF Rollback
<1>2. TypeOK'
  <2>1. pc' \in [Procs -> {"idle"} \cup Draining] /\ fn' \in [Procs -> Tasks \cup {Null}]
    BY <1>1, PcTypes
  <2>2. Dec(tail[v]) \in Counter
    BY <1>1, CounterTypes DEF IInv, TypeOK
  <2> QED
    BY <1>1, <2>1, <2>2 DEF IInv, TypeOK
<1>3. Counted(v)' /\ Reserved(v)' /\ Acts(p, v)
  BY RollbackRing
<1>4. Phases'
  BY <1>1, <1>3, PhaseStep, Places
<1>5. Drains(v)'
  <2>1. CASE p = v
    BY <1>1, <2>1, Places DEF Drains
  <2>2. CASE p # v
    <3>1. pc'[v] = pc[v] /\ v \in Procs /\ p \in Producers
      BY <1>1, <1>3, <2>2 DEF Acts, Procs
    <3>2. pc[v] = "idle"
      BY <1>1, <3>1, Places DEF IInv, Phases, Submits
    <3> QED
      BY <3>1, <3>2, Places DEF Drains
  <2> QED
    BY <2>1, <2>2
<1> QED
  BY <1>2, <1>3, <1>4, <1>5, RingStep

LEMMA WriteStep ==
  ASSUME IInv, NEW p \in Procs, NEW v, v = ring[p], Write(p)
  PROVE  IInv'
<1>1. /\ pc[p] = "write" /\ UNCHANGED <<head, tail, ring, pos>>
      /\ slots' = [slots EXCEPT ![v][pos[p] % Cap] = fn[p]]
      /\ Go(p, IF p \in Workers THEN "look" ELSE "idle") /\ fn' = [fn EXCEPT ![p] = Null]
      /\ v \in Workers /\ (p \in Workers => p = v)
  BY GoFacts DEF Write
<1>2. \/ p \in Workers /\ Go(p, "look") /\ pc'[p] = "look"
      \/ p \notin Workers /\ Go(p, "idle") /\ pc'[p] = "idle"
  BY <1>1, GoFacts
<1>3. TypeOK'
  <2>1. pc' \in [Procs -> {"idle"} \cup Draining]
    BY <1>2, PcTypes, Places
  <2>2. fn' \in [Procs -> Tasks \cup {Null}]
    BY <1>1, PcTypes
  <2>3. slots' \in [Workers -> [0 .. Cap - 1 -> Tasks \cup {Null}]]
    <3>1. fn[p] \in Tasks \cup {Null} /\ slots \in [Workers -> [0 .. Cap - 1 -> Tasks \cup {Null}]]
      BY DEF IInv, TypeOK
    <3> QED
      BY <1>1, <3>1
  <2> QED
    BY <1>1, <2>1, <2>2, <2>3 DEF IInv, TypeOK
<1>4. Counted(v)' /\ Reserved(v)' /\ Acts(p, v)
  BY WriteRing
<1>5. Phases'
  <2>1. p \in Producers \/ p \in Workers
    BY DEF Procs
  <2>2. p \in Producers => p \notin Workers
    BY RingConstants
  <2> QED
    BY <1>1, <1>2, <1>4, <2>1, <2>2, PhaseStep, Places
<1>6. Drains(v)'
  <2>1. CASE p = v
    BY <1>1, <1>2, <2>1, Places DEF Drains
  <2>2. CASE p # v
    <3>1. pc'[v] = pc[v] /\ v \in Procs /\ p \in Producers
      BY <1>1, <1>4, <2>2 DEF Acts, Procs
    <3>2. pc[v] = "idle"
      BY <1>1, <3>1, Places DEF IInv, Phases, Submits
    <3> QED
      BY <3>1, <3>2, Places DEF Drains
  <2> QED
    BY <2>1, <2>2
<1> QED
  BY <1>3, <1>4, <1>5, <1>6, RingStep

\* A worker whose ring no one submits to moves on, and so is its ring.
LEMMA DrainingStep ==
  ASSUME IInv, NEW w \in Workers, TypeOK', Quiet(w),
         \A v \in Workers \ {w} : head'[v] = head[v] /\ tail'[v] = tail[v] /\ slots'[v] = slots[v],
         \A q \in Procs \ {w} : pc'[q] = pc[q] /\ pos'[q] = pos[q] /\ fn'[q] = fn[q],
         ring' = ring, pc[w] \notin Submitting, pc'[w] \notin Submitting,
         Occ(w)' <= Cap - 1, Drains(w)'
  PROVE  IInv' /\ Acts(w, w)
<1>1. w \in Procs /\ ring[w] = w /\ Workers \subseteq Procs /\ Producers \subseteq Procs
  BY DEF Procs, IInv, Phases
<1>2. Acts(w, w)
  BY <1>1 DEF Acts
<1>3. Quiet(w)'
  BY DEF Quiet, Submits
<1>4. Counted(w)' /\ Reserved(w)'
  <2>1. \A q \in Procs : ~Submits(q, w)'
    BY <1>3 DEF Quiet
  <2>2. Refused(w)' = {}
    BY <2>1 DEF Refused
  <2> QED
    BY <2>1, <2>2 DEF Counted, Reserved
<1>5. Phases'
  <2>1. /\ \A q \in Producers : pc[q] = "idle" \/ pc[q] \in Submitting
        /\ \A v \in Workers : ring[v] = v
        /\ \A v \in Workers : pc[v] # "idle" => \A q \in Producers : ~Submits(q, v)
    BY DEF IInv, Phases
  <2>2. \A q \in Producers : q # w
    BY RingConstants
  <2>3. \A q \in Producers, v \in Workers : Submits(q, v)' <=> Submits(q, v)
    BY <1>1, <2>2 DEF Submits
  <2>4. \A q \in Producers : ~Submits(q, w)
    BY <1>1 DEF Quiet
  <2> QED
    BY <1>1, <2>1, <2>2, <2>3, <2>4 DEF Phases
<1> QED
  BY <1>2, <1>4, <1>5, RingStep

\* The steps of a drain that leave the ring as it is.
LEMMA LooksStep ==
  ASSUME IInv, NEW w \in Workers, DrainStart(w) \/ Look(w) \/ DrainAbort(w)
  PROVE  IInv' /\ Acts(w, w)
<1>1. /\ w \in Procs /\ ring[w] = w /\ head[w] \in Counter /\ tail[w] \in Counter
      /\ Workers \subseteq Procs
  BY Types DEF IInv, Phases
<1>2. /\ UNCHANGED <<head, tail, slots, ring, fn>>
      /\ pos' = pos \/ pos' = [pos EXCEPT ![w] = head[w]]
      /\ Go(w, "look") \/ Go(w, "idle") \/ Go(w, "read")
      /\ pc[w] = "idle" \/ pc[w] = "look"
  BY DEF DrainStart, Look, DrainAbort
<1>3. /\ pc'[w] \in {"look", "idle", "read"} /\ \A q \in Procs \ {w} : pc'[q] = pc[q]
      /\ pc' \in [Procs -> {"idle"} \cup Draining]
  BY <1>1, <1>2, GoFacts, PcTypes, Places
<1>4. pos' \in [Procs -> Counter] /\ \A q \in Procs \ {w} : pos'[q] = pos[q]
  <2>1. CASE pos' = pos
    BY <2>1 DEF IInv, TypeOK
  <2>2. CASE pos' = [pos EXCEPT ![w] = head[w]]
    BY <1>1, <2>2, GoFacts, PcTypes
  <2> QED
    BY <1>2, <2>1, <2>2
<1>5. TypeOK'
  BY <1>2, <1>3, <1>4 DEF IInv, TypeOK
<1>6. Quiet(w) /\ Occ(w) <= Cap - 1
  <2>1. CASE pc[w] = "look"
    BY <2>1, DrainedIsQuiet, Places
  <2>2. CASE DrainStart(w)
    <3>1. pc[w] = "idle" /\ \A p \in Producers : ~Submits(p, w)
      BY <2>2 DEF DrainStart, MayDrain, Submits
    <3>2. Quiet(w)
      BY <3>1, Places DEF Quiet, Submits, Procs, IInv, Phases
    <3>3. Refused(w) = {}
      BY <3>2 DEF Quiet, Refused
    <3>4. Occ(w) \in Int /\ Counted(w)
      BY Types DEF IInv
    <3> QED
      BY <3>2, <3>3, <3>4, FS_EmptySet, Widths DEF Counted
  <2> QED
    BY <2>1, <2>2 DEF Look, DrainAbort
<1>7. Drains(w)'
  <2>1. CASE pc'[w] = "read"
    <3>1. Look(w)
      <4>1. CASE DrainStart(w)
        BY <1>1, <2>1, <4>1, GoFacts DEF DrainStart
      <4>2. CASE DrainAbort(w)
        BY <1>1, <2>1, <4>2, GoFacts DEF DrainAbort
      <4> QED
        BY <4>1, <4>2
    <3>2. pos'[w] = head[w] /\ head[w] # tail[w]
      <4>1. pos' = [pos EXCEPT ![w] = head[w]]
        BY <3>1 DEF Look
      <4>2. pos'[w] = head[w]
        BY <1>1, <4>1, GoFacts
      <4>3. head[w] = tail[w] => pc'[w] = "idle"
        BY <1>1, <3>1, GoFacts DEF Look
      <4> QED
        BY <2>1, <4>2, <4>3
    <3>3. Occ(w)' > 0
      <4>1. Occ(w) \in 0 .. Wrap - 1 /\ Occ(w) # 0
        BY <1>1, <3>2, OccupancyFacts DEF Occ
      <4>2. Occ(w)' = Occ(w)
        BY <1>2 DEF Occ
      <4> QED
        BY <4>1, <4>2, Widths
    <3> QED
      BY <1>2, <2>1, <3>2, <3>3, Places DEF Drains
  <2>2. CASE pc'[w] # "read"
    BY <1>3, <2>2, Places DEF Drains
  <2> QED
    BY <2>1, <2>2
<1>8. Occ(w)' <= Cap - 1
  BY <1>2, <1>6 DEF Occ
<1>9. pc[w] \notin Submitting /\ pc'[w] \notin Submitting
  BY <1>2, <1>3, Places
<1> QED
  BY <1>2, <1>3, <1>4, <1>5, <1>6, <1>7, <1>8, <1>9, DrainingStep

LEMMA ReadSlotStep ==
  ASSUME IInv, NEW w \in Workers, ReadSlot(w)
  PROVE  IInv' /\ Acts(w, w)
<1>1. /\ w \in Procs /\ Workers \subseteq Procs /\ pc[w] = "read"
      /\ UNCHANGED <<head, tail, slots, ring, pos>>
      /\ fn' = [fn EXCEPT ![w] = slots[w][pos[w] % Cap]] /\ Go(w, "advance")
  BY DEF ReadSlot, Procs
<1>2. /\ pc'[w] = "advance" /\ fn'[w] = slots[w][pos[w] % Cap]
      /\ \A q \in Procs \ {w} : pc'[q] = pc[q] /\ fn'[q] = fn[q]
  <2>1. pc'[w] = "advance" /\ \A q \in Procs \ {w} : pc'[q] = pc[q]
    BY <1>1, GoFacts
  <2>2. fn'[w] = slots[w][pos[w] % Cap] /\ \A q \in Procs \ {w} : fn'[q] = fn[q]
    <3>1. DOMAIN fn = Procs
      BY DEF IInv, TypeOK
    <3> QED
      BY <1>1, <3>1
  <2> QED
    BY <2>1, <2>2
<1>3. pos[w] = head[w] /\ Occ(w) > 0 /\ pos[w] \in Counter
  BY <1>1 DEF IInv, Drains, TypeOK
<1>4. slots[w][pos[w] % Cap] \in Tasks \cup {Null}
  <2>1. pos[w] % Cap \in 0 .. Cap - 1
    BY <1>3, Widths DEF Counter
  <2> QED
    BY <2>1 DEF IInv, TypeOK
<1>5. TypeOK'
  <2>1. pc' \in [Procs -> {"idle"} \cup Draining] /\ fn' \in [Procs -> Tasks \cup {Null}]
    BY <1>1, <1>4, PcTypes, Places
  <2> QED
    BY <1>1, <2>1 DEF IInv, TypeOK
<1>6. Quiet(w) /\ Occ(w) <= Cap - 1
  BY <1>1, DrainedIsQuiet, Places
<1>7. Occ(w)' = Occ(w)
  BY <1>1 DEF Occ
<1>8. Drains(w)'
  BY <1>1, <1>2, <1>3, <1>7, Places DEF Drains
<1> QED
  BY <1>1, <1>2, <1>5, <1>6, <1>7, <1>8, DrainingStep, Places

LEMMA AdvanceStep ==
  ASSUME IInv, NEW w \in Workers, Advance(w)
  PROVE  IInv' /\ Acts(w, w) /\ head'[w] = Inc(head[w]) /\ Occ(w)' = Occ(w) - 1
<1>1. /\ w \in Procs /\ Workers \subseteq Procs /\ pc[w] = "advance"
      /\ UNCHANGED <<tail, slots, ring, pos, fn>>
      /\ head' = [head EXCEPT ![w] = Inc(pos[w])]
      /\ Go(w, IF fn[w] = Null THEN "look" ELSE "run")
  BY DEF Advance, Procs
<1>2. /\ \/ pc'[w] = "look" /\ Go(w, "look")
         \/ pc'[w] = "run" /\ fn[w] # Null /\ Go(w, "run")
      /\ \A q \in Procs \ {w} : pc'[q] = pc[q]
  BY <1>1, GoFacts
<1>3. pos[w] = head[w] /\ Occ(w) > 0 /\ head[w] \in Counter /\ tail[w] \in Counter
  BY <1>1 DEF IInv, Drains, TypeOK
<1>4. Inc(head[w]) \in Counter /\ head'[w] = Inc(head[w]) /\ Occ(w)' = Occ(w) - 1
  <2>1. Inc(head[w]) \in Counter /\ Occupancy(Inc(head[w]), tail[w]) = Occ(w) - 1
    BY <1>3, HeadUp DEF Occ
  <2>2. head'[w] = Inc(head[w])
    BY <1>1, <1>3 DEF IInv, TypeOK
  <2> QED
    BY <1>1, <2>1, <2>2 DEF Occ
<1>5. TypeOK'
  <2>1. pc' \in [Procs -> {"idle"} \cup Draining]
    BY <1>1, <1>2, PcTypes, Places
  <2>2. head' \in [Workers -> Counter]
    BY <1>1, <1>3, <1>4 DEF IInv, TypeOK
  <2> QED
    BY <1>1, <2>1, <2>2 DEF IInv, TypeOK
<1>6. Quiet(w) /\ Occ(w) <= Cap - 1 /\ Occ(w) \in Int
  BY <1>1, DrainedIsQuiet, Places, Types DEF IInv
<1>7. Drains(w)'
  BY <1>1, <1>2, Places DEF Drains
<1>8. \A v \in Workers \ {w} : head'[v] = head[v]
  BY <1>1 DEF IInv, TypeOK
<1>9. Occ(w)' <= Cap - 1
  BY <1>4, <1>6, Widths
<1>10. pc[w] \notin Submitting /\ pc'[w] \notin Submitting
  BY <1>1, <1>2, Places
<1> QED
  BY <1>1, <1>2, <1>4, <1>5, <1>6, <1>7, <1>8, <1>9, <1>10, DrainingStep

LEMMA LeavesStep ==
  ASSUME IInv, NEW w \in Workers, TaskLeaves(w)
  PROVE  IInv' /\ Acts(w, w)
<1>1. /\ w \in Procs /\ Workers \subseteq Procs /\ pc[w] = "run"
      /\ UNCHANGED <<head, tail, slots, ring, pos>>
      /\ fn' = [fn EXCEPT ![w] = Null] /\ Go(w, "look")
  BY DEF TaskLeaves, Procs
<1>2. /\ pc'[w] = "look" /\ \A q \in Procs \ {w} : pc'[q] = pc[q] /\ fn'[q] = fn[q]
  BY <1>1, GoFacts
<1>3. TypeOK'
  <2>1. pc' \in [Procs -> {"idle"} \cup Draining] /\ fn' \in [Procs -> Tasks \cup {Null}]
    BY <1>1, PcTypes, Places
  <2> QED
    BY <1>1, <2>1 DEF IInv, TypeOK
<1>4. Quiet(w) /\ Occ(w) <= Cap - 1
  BY <1>1, DrainedIsQuiet, Places
<1>5. Occ(w)' = Occ(w)
  BY <1>1 DEF Occ
<1>6. Drains(w)'
  BY <1>2, Places DEF Drains
<1> QED
  BY <1>1, <1>2, <1>3, <1>4, <1>5, <1>6, DrainingStep, Places

\* A worker reserves a place for its suspended task.
LEMMA SuspendsStep ==
  ASSUME IInv, NEW w \in Workers, TaskSuspends(w)
  PROVE  IInv' /\ Occ(w)' = Occ(w) + 1 /\ Off(w, w)' = Occ(w) /\ Acts(w, w)
<1>1. w \in Procs /\ tail[w] \in Counter /\ ring[w] = w /\ Workers \subseteq Procs
  BY DEF Procs, IInv, TypeOK, Phases
<1>2. /\ pc[w] = "run" /\ pos' = [pos EXCEPT ![w] = tail[w]]
      /\ tail' = [tail EXCEPT ![w] = Inc(@)] /\ Go(w, "check")
      /\ UNCHANGED <<head, slots, ring, fn>>
  BY DEF TaskSuspends, Reserve
<1>3. /\ pc'[w] = "check" /\ \A q \in Procs \ {w} : pc'[q] = pc[q]
  BY <1>1, <1>2, GoFacts
<1>4. pos'[w] = tail[w] /\ \A q \in Procs \ {w} : pos'[q] = pos[q]
  BY <1>1, <1>2, GoFacts
<1>5. /\ tail'[w] = Inc(tail[w]) /\ \A v \in Workers \ {w} : tail'[v] = tail[v]
      /\ tail' \in [Workers -> Counter]
  <2>1. Inc(tail[w]) \in Counter
    BY <1>1, CounterTypes
  <2> QED
    BY <1>2, <2>1 DEF IInv, TypeOK
<1>6. TypeOK'
  <2>1. pc' \in [Procs -> {"idle"} \cup Draining]
    BY <1>1, <1>2, PcTypes, Places
  <2>2. pos' \in [Procs -> Counter]
    BY <1>1, <1>2, PcTypes
  <2> QED
    BY <1>2, <1>5, <2>1, <2>2 DEF IInv, TypeOK
<1>7. Acts(w, w)
  BY <1>1, <1>2, <1>3, <1>4, <1>5, Places DEF Acts
<1>8. fn[w] # Null
  BY <1>2 DEF IInv, Drains
<1>9. Counted(w)' /\ Reserved(w)' /\ Occ(w)' = Occ(w) + 1 /\ Off(w, w)' = Occ(w)
  <2>1. pc[w] \notin Submitting /\ fn'[w] # Null /\ head' = head /\ ring'[w] = w
    BY <1>1, <1>2, <1>8, Places
  <2> QED
    BY <1>3, <1>4, <1>5, <1>7, <2>1, ReserveRing
<1>10. Drains(w)'
  BY <1>3, Places DEF Drains
<1>11. Phases'
  <2>1. /\ \A q \in Producers : pc[q] = "idle" \/ pc[q] \in Submitting
        /\ \A v \in Workers : ring[v] = v
        /\ \A v \in Workers : pc[v] # "idle" => \A q \in Producers : ~Submits(q, v)
    BY DEF IInv, Phases
  <2>2. \A q \in Producers : q \in Procs /\ q # w
    BY RingConstants DEF Procs
  <2>3. \A q \in Producers, v \in Workers : Submits(q, v)' <=> Submits(q, v)
    BY <1>2, <1>3, <2>2 DEF Submits
  <2> QED
    BY <1>1, <1>2, <1>3, <2>1, <2>2, <2>3 DEF Phases
<1> QED
  BY <1>6, <1>7, <1>9, <1>10, <1>11, RingStep

\* The task that runs puts one in: the ring is its worker's alone.
LEMMA TaskSubmitsStep ==
  ASSUME IInv, NEW w \in Workers, NEW x \in Tasks, TaskSubmits(w, x)
  PROVE  IInv' /\ Acts(w, w) /\ Occ(w) < Cap - 1 /\ Occ(w)' = Occ(w) + 1
<1>1. /\ w \in Procs /\ Workers \subseteq Procs /\ pc[w] = "run"
      /\ UNCHANGED <<head, pc, ring, pos, fn>>
      /\ ~IsFull(head[w], tail[w])
      /\ slots' = [slots EXCEPT ![w][tail[w] % Cap] = x]
      /\ tail' = [tail EXCEPT ![w] = Inc(@)]
  BY DEF TaskSubmits, Procs
<1>2. head[w] \in Counter /\ tail[w] \in Counter /\ Occ(w) \in 0 .. Wrap - 1
  BY Types DEF IInv
<1>3. Occ(w) < Cap - 1
  BY <1>1, <1>2, Widths DEF IsFull, Occ
<1>4. /\ tail'[w] = Inc(tail[w]) /\ tail' \in [Workers -> Counter]
      /\ \A v \in Workers \ {w} : tail'[v] = tail[v]
  <2>1. Inc(tail[w]) \in Counter
    BY <1>2, CounterTypes
  <2> QED
    BY <1>1, <2>1 DEF IInv, TypeOK
<1>5. Occ(w)' = Occ(w) + 1
  <2>1. Occupancy(head[w], Inc(tail[w])) = Occ(w) + 1
    BY <1>2, <1>3, TailUp, Widths DEF Occ
  <2> QED
    BY <1>1, <1>4, <2>1 DEF Occ
<1>6. /\ slots' \in [Workers -> [0 .. Cap - 1 -> Tasks \cup {Null}]]
      /\ \A v \in Workers \ {w} : slots'[v] = slots[v]
  <2>1. slots \in [Workers -> [0 .. Cap - 1 -> Tasks \cup {Null}]]
    BY DEF IInv, TypeOK
  <2> QED
    BY <1>1, <2>1
<1>7. TypeOK'
  BY <1>1, <1>4, <1>6 DEF IInv, TypeOK
<1>8. Quiet(w)
  BY <1>1, DrainedIsQuiet, Places
<1>9. Drains(w)'
  <2>1. fn[w] # Null
    BY <1>1 DEF IInv, Drains
  <2> QED
    BY <1>1, <2>1, Places DEF Drains
<1>10. Occ(w)' <= Cap - 1
  BY <1>2, <1>3, <1>5, Widths
<1>11. pc[w] \notin Submitting /\ pc'[w] \notin Submitting
  BY <1>1, Places
<1> QED
  BY <1>1, <1>3, <1>4, <1>5, <1>6, <1>7, <1>8, <1>9, <1>10, <1>11, DrainingStep

LEMMA ResetStep ==
  ASSUME IInv, Reset
  PROVE  IInv' /\ \A w \in Workers : Occ(w)' = 0
<1>1. /\ \A p \in Procs : pc[p] = "idle"
      /\ head' = [w \in Workers |-> 0] /\ tail' = [w \in Workers |-> 0]
      /\ UNCHANGED <<slots, pc, ring, pos, fn>> /\ Workers \subseteq Procs /\ Producers \subseteq Procs
  BY DEF Reset, Procs
<1>2. 0 \in Counter /\ Occupancy(0, 0) = 0
  BY Widths DEF Counter, Occupancy
<1>3. TypeOK'
  BY <1>1, <1>2 DEF IInv, TypeOK
<1>4. Phases'
  BY <1>1 DEF IInv, Phases
<1>5. \A w \in Workers : Occ(w)' = 0
  BY <1>1, <1>2 DEF Occ
<1>6. \A w \in Workers : \A p \in Procs : ~Submits(p, w)'
  BY <1>1, Places DEF Submits
<1>7. ASSUME NEW w \in Workers
      PROVE  Counted(w)' /\ Reserved(w)' /\ Drains(w)'
  <2>1. Refused(w)' = {}
    BY <1>6 DEF Refused
  <2>2. Counted(w)'
    BY <1>5, <2>1, Widths DEF Counted
  <2>3. Reserved(w)'
    BY <1>6 DEF Reserved
  <2>4. Drains(w)'
    BY <1>1, Places DEF Drains
  <2> QED
    BY <2>2, <2>3, <2>4
<1> QED
  BY <1>3, <1>4, <1>5, <1>7 DEF IInv

LEMMA IInvStep == IInv /\ [Next]_vars => IInv'
<1> SUFFICES ASSUME IInv, [Next]_vars
             PROVE  IInv'
  OBVIOUS
<1>1. CASE UNCHANGED vars
  <2>1. TypeOK' /\ Phases'
    BY <1>1 DEF vars, IInv, TypeOK, Phases, Submits
  <2>2. ASSUME NEW w \in Workers
        PROVE  Counted(w)' /\ Reserved(w)' /\ Drains(w)'
    <3>1. /\ \A p : /\ Submits(p, w)' <=> Submits(p, w)
                    /\ Off(w, p)' = Off(w, p) /\ pc'[p] = pc[p] /\ fn'[p] = fn[p]
          /\ Occ(w)' = Occ(w)
      BY <1>1 DEF vars, Submits, Off, Occ
    <3>2. Refused(w)' = Refused(w)
      BY <3>1 DEF Refused
    <3>3. Counted(w) /\ Reserved(w) /\ Drains(w)
      BY DEF IInv
    <3>4. Counted(w)'
      BY <3>1, <3>2, <3>3 DEF Counted
    <3>5. Reserved(w)'
      BY <3>1, <3>3 DEF Reserved
    <3>6. Drains(w)'
      BY <1>1, <3>1, <3>3 DEF vars, Drains
    <3> QED
      BY <3>4, <3>5, <3>6
  <2> QED
    BY <2>1, <2>2 DEF IInv
<1>2. ASSUME NEW p \in Procs, Check(p) \/ Rollback(p) \/ Write(p)
      PROVE  IInv'
  BY <1>2, CheckStep, RollbackStep, WriteStep
<1>3. ASSUME NEW w \in Workers, \/ DrainStart(w) \/ Look(w) \/ DrainAbort(w) \/ ReadSlot(w)
                                \/ Advance(w) \/ TaskLeaves(w) \/ TaskSuspends(w)
                                \/ \E x \in Tasks : TaskSubmits(w, x)
      PROVE  IInv'
  BY <1>3, LooksStep, ReadSlotStep, AdvanceStep, LeavesStep, SuspendsStep, TaskSubmitsStep
<1> QED
  BY <1>1, <1>2, <1>3, SubmitStep, ResetStep DEF Next

LEMMA IInvHolds == Spec => []IInv
<1>1. IInv /\ [Next]_vars => IInv'
  BY IInvStep
<1> QED
  BY <1>1, InitIInv, PTL DEF Spec

\* Counters stay in their width, whatever their wrapping, and slots and threads
\* hold tasks.
THEOREM RingTypeCorrect == Spec => []TypeOK
<1>1. IInv => TypeOK
  BY DEF IInv
<1> QED
  BY <1>1, IInvHolds, PTL

LEMMA FullMeansHeld ==
  ASSUME IInv, NEW p \in Procs, pc[p] = "full"
  PROVE  Held(ring[p]) = Cap - 1
<1> DEFINE v == ring[p]
<1>1. v \in Workers /\ Submits(p, v)
  <2>1. v \in Workers
    BY GoFacts
  <2> QED
    BY <2>1, Places DEF Submits
<1> HIDE DEF v
<1>2. Off(v, p) >= Cap - 1 /\ Counted(v)
  BY <1>1 DEF IInv, Reserved
<1>3. Refused(v) # {} /\ IsFiniteSet(Refused(v)) /\ Cardinality(Refused(v)) \in Nat
  <2>1. p \in Refused(v)
    BY <1>1, <1>2 DEF Refused
  <2>2. IsFiniteSet(Refused(v)) /\ Cardinality(Refused(v)) \in 0 .. Cardinality(Procs)
    BY <1>1, Types DEF IInv
  <2> QED
    BY <2>1, <2>2, Widths
<1>4. Cardinality(Refused(v)) > 0
  BY <1>3, FS_EmptySet
<1>5. Occ(v) = Cap - 1 + Cardinality(Refused(v))
  BY <1>2, <1>3 DEF Counted
<1>6. ~(Cap - 1 + Cardinality(Refused(v)) < Cap)
  BY <1>3, <1>4, Widths
<1>7. Held(v) = Cap - 1
  BY <1>5, <1>6 DEF Held, Occ
<1> QED
  BY <1>7 DEF v

\* A submit is told that the ring is full only when Cap - 1 tasks are in it:
\* the tail may be past that by the reservations being taken back, and by
\* those alone.
THEOREM RefusalIsTrue == Spec => []RefusedOnlyWhenFull
<1>1. IInv => RefusedOnlyWhenFull
  BY FullMeansHeld DEF RefusedOnlyWhenFull
<1> QED
  BY <1>1, IInvHolds, PTL

-----------------------------------------------------------------------------
(* The queue of a ring *)

Running(w) == IF pc[w] = "run" THEN fn[w] ELSE Null

\* The positions that can hold a task.
Near(w) == {n \in Counter : Occupancy(head[w], n) < Cap - 1}

LEMMA NearSlots ==
  ASSUME NEW h \in Counter, NEW n \in Counter, NEW m \in Counter,
         Occupancy(h, n) < Cap - 1, Occupancy(h, m) < Cap - 1, n # m
  PROVE  n % Cap # m % Cap
<1> DEFINE i == Occupancy(h, n)
           j == Occupancy(h, m)
<1>1. i \in Nat /\ j \in Nat /\ At(h, i) = n /\ At(h, j) = m
  BY OccupancyFacts, Widths
<1>2. i \in 0 .. Cap - 1 /\ j \in 0 .. Cap - 1 /\ i # j
  BY <1>1, Widths
<1> HIDE DEF i, j
<1>3. CASE i < j
  <2>1. At(h, i) % Cap # At(h, j) % Cap
    BY <1>2, <1>3, SlotsApart
  <2> QED
    BY <1>1, <2>1
<1>4. CASE j < i
  <2>1. At(h, j) % Cap # At(h, i) % Cap
    BY <1>2, <1>4, SlotsApart
  <2> QED
    BY <1>1, <2>1
<1> QED
  BY <1>1, <1>2, <1>3, <1>4

\* A position is known by how far from the head it is.
LEMMA SamePosition ==
  ASSUME IInv, NEW w \in Workers, NEW q \in Procs, NEW n \in Counter
  PROVE  pos[q] = n <=> Off(w, q) = Occupancy(head[w], n)
<1>1. head[w] \in Counter /\ pos[q] \in Counter
  BY Types DEF IInv
<1>2. At(head[w], Off(w, q)) = pos[q] /\ At(head[w], Occupancy(head[w], n)) = n
  BY <1>1, OccupancyFacts DEF Off
<1> QED
  BY <1>2 DEF Off

LEMMA HeldFacts ==
  ASSUME IInv, NEW w \in Workers
  PROVE  /\ Held(w) \in 0 .. Cap - 1
         /\ Held(w) = IF Occ(w) < Cap - 1 THEN Occ(w) ELSE Cap - 1
<1>1. Occ(w) \in 0 .. Wrap - 1
  BY Types DEF IInv
<1>2. Held(w) = IF Occ(w) < Cap THEN Occ(w) ELSE Cap - 1
  BY DEF Held, Occ
<1>3. CASE Occ(w) < Cap - 1
  BY <1>1, <1>2, <1>3, Widths
<1>4. CASE ~(Occ(w) < Cap - 1)
  BY <1>1, <1>2, <1>4, Widths
<1> QED
  BY <1>3, <1>4

LEMMA TaskAtType ==
  ASSUME IInv, NEW w \in Workers, NEW n \in Counter
  PROVE  TaskAt(w, n) \in Tasks \cup {Null}
<1>1. CASE Writers(w, n) # {}
  <2>1. (CHOOSE p \in Writers(w, n) : TRUE) \in Procs
    BY <1>1 DEF Writers
  <2> QED
    BY <1>1, <2>1 DEF TaskAt, IInv, TypeOK
<1>2. CASE Writers(w, n) = {}
  <2>1. n % Cap \in 0 .. Cap - 1
    BY Widths DEF Counter
  <2>2. slots[w][n % Cap] \in Tasks \cup {Null}
    BY <2>1 DEF IInv, TypeOK
  <2> QED
    BY <1>2, <2>2 DEF TaskAt
<1> QED
  BY <1>1, <1>2

LEMMA ContentsFacts ==
  ASSUME IInv, NEW w \in Workers
  PROVE  /\ Contents(w) \in Seq(Tasks \cup {Null}) /\ Len(Contents(w)) = Held(w)
         /\ \A i \in 1 .. Held(w) : /\ Contents(w)[i] = TaskAt(w, At(head[w], i - 1))
                                    /\ At(head[w], i - 1) \in Near(w)
                                    /\ Occupancy(head[w], At(head[w], i - 1)) = i - 1
<1>1. Held(w) \in 0 .. Cap - 1 /\ head[w] \in Counter
  BY HeldFacts, Types DEF IInv
<1>2. ASSUME NEW i \in 1 .. Held(w)
      PROVE  /\ At(head[w], i - 1) \in Counter
             /\ Occupancy(head[w], At(head[w], i - 1)) = i - 1 /\ i - 1 < Cap - 1
  <2>1. i - 1 \in 0 .. Wrap - 1 /\ i - 1 < Cap - 1
    BY <1>1, Widths
  <2> QED
    BY <1>1, <2>1, AtFacts
<1>3. \A i \in 1 .. Held(w) : At(head[w], i - 1) \in Near(w)
  BY <1>2 DEF Near
<1>4. \A i \in 1 .. Held(w) : TaskAt(w, At(head[w], i - 1)) \in Tasks \cup {Null}
  BY <1>2, TaskAtType
<1>5. Contents(w) \in [1 .. Held(w) -> Tasks \cup {Null}]
  BY <1>4 DEF Contents
<1>6. Contents(w) \in Seq(Tasks \cup {Null}) /\ Len(Contents(w)) = Held(w)
  BY <1>1, <1>5
<1>7. \A i \in 1 .. Held(w) : Contents(w)[i] = TaskAt(w, At(head[w], i - 1))
  BY DEF Contents
<1> QED
  BY <1>2, <1>3, <1>6, <1>7

LEMMA SameTask ==
  ASSUME NEW w, NEW n, Writers(w, n)' = Writers(w, n),
         \A p \in Writers(w, n) : fn'[p] = fn[p],
         Writers(w, n) = {} => slots'[w][n % Cap] = slots[w][n % Cap]
  PROVE  TaskAt(w, n)' = TaskAt(w, n)
BY DEF TaskAt

\* The queue stays when its positions and their tasks do.
LEMMA SameContents ==
  ASSUME IInv, IInv', NEW w \in Workers, head'[w] = head[w], Held(w)' = Held(w),
         \A n \in Near(w) : TaskAt(w, n)' = TaskAt(w, n)
  PROVE  Contents(w)' = Contents(w)
<1>1. /\ Len(Contents(w)) = Held(w) /\ Contents(w) \in Seq(Tasks \cup {Null})
      /\ \A i \in 1 .. Held(w) : /\ Contents(w)[i] = TaskAt(w, At(head[w], i - 1))
                                 /\ At(head[w], i - 1) \in Near(w)
  BY ContentsFacts
<1>2. Contents(w)' = [i \in 1 .. Held(w)' |-> TaskAt(w, At(head[w], i - 1))']
  BY DEF Contents
<1>3. \A i \in 1 .. Held(w) : TaskAt(w, At(head[w], i - 1))' = TaskAt(w, At(head[w], i - 1))
  <2> SUFFICES ASSUME NEW i \in 1 .. Held(w)
               PROVE  TaskAt(w, At(head[w], i - 1))' = TaskAt(w, At(head[w], i - 1))
    OBVIOUS
  <2>1. At(head[w], i - 1)' = At(head[w], i - 1)
    BY DEF At
  <2>2. PICK n \in Near(w) : n = At(head[w], i - 1)
    BY <1>1
  <2>3. TaskAt(w, n)' = TaskAt(w, n)
    BY <2>2
  <2>4. TaskAt(w, At(head[w], i - 1))' = TaskAt(w, n)'
    BY <2>1, <2>2 DEF TaskAt, Writers
  <2> QED
    BY <2>2, <2>3, <2>4
<1> QED
  BY <1>2, <1>3 DEF Contents

LEMMA OtherRings ==
  ASSUME IInv, IInv', NEW p, NEW v, Acts(p, v), NEW w \in Workers, w # v
  PROVE  Contents(w)' = Contents(w) /\ Running(w)' = Running(w)
<1>1. /\ head'[w] = head[w] /\ tail'[w] = tail[w] /\ slots'[w] = slots[w]
      /\ w \in Procs /\ w # p
  BY DEF Acts, Procs
<1>2. Running(w)' = Running(w)
  BY <1>1 DEF Acts, Running
<1>3. \A q \in Procs : /\ Submits(q, w)' <=> Submits(q, w)
                       /\ Submits(q, w) => /\ pc'[q] = pc[q] /\ pos'[q] = pos[q]
                                           /\ fn'[q] = fn[q]
  BY DEF Acts, Submits
<1>4. Held(w)' = Held(w)
  BY <1>1 DEF Held
<1>5. ASSUME NEW n \in Near(w)
      PROVE  TaskAt(w, n)' = TaskAt(w, n)
  <2>1. \A q \in Procs : q \in Writers(w, n) => Submits(q, w)
    BY Places DEF Writers, Submits
  <2>2. \A q \in Procs : q \in Writers(w, n)' => Submits(q, w)'
    BY Places DEF Writers, Submits
  <2>3. Writers(w, n)' = Writers(w, n)
    BY <1>3, <2>1, <2>2, Places DEF Writers, Submits
  <2>4. \A q \in Writers(w, n) : fn'[q] = fn[q]
    BY <1>3, <2>1 DEF Writers
  <2> QED
    BY <1>1, <2>3, <2>4, SameTask
<1> QED
  BY <1>1, <1>2, <1>4, <1>5, SameContents

\* A thread that does not write the position, before or after, and no slot of
\* it, leaves its task.
LEMMA AwayTask ==
  ASSUME IInv, NEW p, NEW v, Acts(p, v), NEW n,
         p \notin Writers(v, n), p \notin Writers(v, n)',
         Writers(v, n) = {} => slots'[v][n % Cap] = slots[v][n % Cap]
  PROVE  TaskAt(v, n)' = TaskAt(v, n)
<1>1. \A q \in Procs \ {p} :
        pc'[q] = pc[q] /\ ring'[q] = ring[q] /\ pos'[q] = pos[q] /\ fn'[q] = fn[q]
  BY DEF Acts
<1>2. Writers(v, n)' = Writers(v, n) /\ \A q \in Writers(v, n) : fn'[q] = fn[q]
  BY <1>1 DEF Writers
<1> QED
  BY <1>2, SameTask

LEMMA HeldNext ==
  ASSUME NEW w
  PROVE  Held(w)' = IF Occ(w)' < Cap THEN Occ(w)' ELSE Cap - 1
BY DEF Held, Occ

\* The task of a position, before a step and after it.
LEMMA TaskAtNext ==
  ASSUME NEW w, NEW n, head'[w] = head[w], NEW i, n = At(head[w], i)
  PROVE  TaskAt(w, At(head[w], i))' = TaskAt(w, n)'
<1>1. At(head[w], i)' = n
  BY DEF At
<1> QED
  BY <1>1 DEF TaskAt, Writers

LEMMA TaskAtMoves ==
  ASSUME NEW w, NEW n, NEW i, At(head'[w], i) = n
  PROVE  TaskAt(w, At(head[w], i))' = TaskAt(w, n)'
<1>1. At(head[w], i)' = n
  OBVIOUS
<1> QED
  BY <1>1 DEF TaskAt, Writers

LEMMA ContentsNext ==
  ASSUME NEW w, head'[w] = head[w]
  PROVE  Contents(w)' = [i \in 1 .. Held(w)' |-> TaskAt(w, At(head[w], i - 1))']
BY DEF Contents

\* A reservation that fits appends its task, one that does not is not there.
LEMMA ReserveContents ==
  ASSUME IInv, IInv', NEW p, NEW v, Acts(p, v), pc[p] \notin Submitting,
         pc'[p] = "check", ring'[p] = v, head' = head, slots' = slots,
         Occ(v)' = Occ(v) + 1, Off(v, p)' = Occ(v), pos'[p] = tail[v]
  PROVE  IF Held(v) < Cap - 1 THEN Contents(v)' = Append(Contents(v), fn'[p])
                              ELSE Contents(v)' = Contents(v)
<1>1. v \in Workers /\ p \in Procs
  BY DEF Acts
<1>2. /\ head[v] \in Counter /\ tail[v] \in Counter /\ Occ(v) \in 0 .. Wrap - 1
  BY <1>1, Types DEF IInv
<1>3. ASSUME NEW n \in Near(v), Occupancy(head[v], n) # Occ(v)
      PROVE  TaskAt(v, n)' = TaskAt(v, n)
  <2>1. p \notin Writers(v, n)
    BY Places DEF Writers
  <2>2. n # tail[v]
    BY <1>3 DEF Occ
  <2>3. p \notin Writers(v, n)'
    BY <2>2 DEF Writers
  <2> QED
    BY <2>1, <2>3, AwayTask
<1>4. Held(v) \in 0 .. Cap - 1 /\ Held(v) = IF Occ(v) < Cap - 1 THEN Occ(v) ELSE Cap - 1
  BY <1>1, HeldFacts
<1>5. Held(v)' = IF Occ(v) + 1 < Cap - 1 THEN Occ(v) + 1 ELSE Cap - 1
  <2>1. Held(v)' = IF Occ(v) + 1 < Cap THEN Occ(v) + 1 ELSE Cap - 1
    BY HeldNext
  <2> QED
    BY <1>2, <2>1, Widths
<1>6. CASE Held(v) < Cap - 1
  <2>1. Held(v) = Occ(v) /\ Held(v)' = Held(v) + 1
    BY <1>2, <1>4, <1>5, <1>6, Widths
  <2>2. ASSUME NEW n \in Counter, n = tail[v]
        PROVE  TaskAt(v, n)' = fn'[p]
    <3>1. p \in Writers(v, n)'
      BY <1>1, <2>2 DEF Writers
    <3>2. ASSUME NEW q \in Writers(v, n)', q # p
          PROVE  FALSE
      <4>1. q \in Procs /\ pc[q] \in {"check", "write"} /\ ring[q] = v /\ pos[q] = n
        BY <3>2 DEF Writers, Acts
      <4>2. Submits(q, v) /\ Off(v, q) = Occ(v)
        BY <2>2, <4>1, Places DEF Submits, Off, Occ
      <4> QED
        BY <1>1, <1>2, <1>6, <2>1, <4>1, <4>2 DEF IInv, Reserved
    <3>3. Writers(v, n)' = {p}
      BY <3>1, <3>2
    <3> QED
      BY <3>3 DEF TaskAt
  <2>3. ASSUME NEW i \in 1 .. Held(v)
        PROVE  TaskAt(v, At(head[v], i - 1))' = Contents(v)[i]
    <3>1. PICK n \in Near(v) : n = At(head[v], i - 1) /\ Occupancy(head[v], n) = i - 1
                               /\ Contents(v)[i] = TaskAt(v, n)
      BY <1>1, ContentsFacts
    <3>2. TaskAt(v, n)' = TaskAt(v, n)
      BY <1>2, <1>3, <2>1, <3>1
    <3> QED
      BY <3>1, <3>2, TaskAtNext
  <2>5. Contents(v)' = [i \in 1 .. Held(v) + 1 |-> TaskAt(v, At(head[v], i - 1))']
    BY <2>1, ContentsNext
  <2>6. Append(Contents(v), fn'[p])
          = [i \in 1 .. Held(v) + 1 |-> IF i = Held(v) + 1 THEN fn'[p] ELSE Contents(v)[i]]
    BY <1>1, <1>4, ContentsFacts
  <2>7. \A i \in 1 .. Held(v) + 1 : TaskAt(v, At(head[v], i - 1))'
          = IF i = Held(v) + 1 THEN fn'[p] ELSE Contents(v)[i]
    <3> SUFFICES ASSUME NEW i \in 1 .. Held(v) + 1
                 PROVE  TaskAt(v, At(head[v], i - 1))'
                          = IF i = Held(v) + 1 THEN fn'[p] ELSE Contents(v)[i]
      OBVIOUS
    <3>1. i = Held(v) + 1 \/ i \in 1 .. Held(v)
      BY <1>4, Widths
    <3>2. CASE i = Held(v) + 1
      <4>1. PICK n \in Counter : n = tail[v]
        BY <1>2
      <4>2. i - 1 = Occ(v)
        BY <1>2, <2>1, <3>2, Widths
      <4>3. At(head[v], i - 1) = n
        BY <1>2, <4>1, <4>2, OccupancyFacts DEF Occ
      <4>4. TaskAt(v, At(head[v], i - 1))' = fn'[p]
        BY <2>2, <4>1, <4>3, TaskAtNext
      <4> QED
        BY <3>2, <4>4
    <3>3. CASE i \in 1 .. Held(v) /\ i # Held(v) + 1
      BY <2>3, <3>3
    <3> QED
      BY <1>4, <3>1, <3>2, <3>3, Widths
  <2>8. Contents(v)' = Append(Contents(v), fn'[p])
    BY <2>5, <2>6, <2>7
  <2> QED
    BY <1>6, <2>8
<1>7. CASE ~(Held(v) < Cap - 1)
  <2>1. Held(v)' = Held(v) /\ Occ(v) >= Cap - 1
    BY <1>2, <1>4, <1>5, <1>7, Widths
  <2>2. \A n \in Near(v) : TaskAt(v, n)' = TaskAt(v, n)
    BY <1>2, <1>3, <2>1, Widths DEF Near
  <2> QED
    BY <1>1, <1>7, <2>1, <2>2, SameContents
<1> QED
  BY <1>6, <1>7

LEMMA CheckContents ==
  ASSUME IInv, IInv', NEW p \in Procs, NEW v, v = ring[p], Check(p)
  PROVE  Acts(p, v) /\ Contents(v)' = Contents(v) /\ Running(v)' = Running(v)
<1>1. /\ pc[p] = "check" /\ UNCHANGED <<head, tail, slots, ring, pos, fn>> /\ v \in Workers
      /\ Go(p, IF IsFull(head[ring[p]], pos[p]) THEN "full" ELSE "write")
  BY GoFacts DEF Check
<1>2. pc'[p] = "full" \/ pc'[p] = "write"
  BY <1>1, GoFacts
<1>3. Acts(p, v)
  BY CheckRing
<1>4. Held(v)' = Held(v) /\ head'[v] = head[v]
  BY <1>1 DEF Held
<1>5. ASSUME NEW n \in Near(v)
      PROVE  TaskAt(v, n)' = TaskAt(v, n)
  <2>1. CASE pc'[p] = "write"
    <3>1. Writers(v, n)' = Writers(v, n)
      BY <1>1, <1>3, <2>1 DEF Writers, Acts
    <3> QED
      BY <1>1, <3>1, SameTask
  <2>2. CASE pc'[p] = "full"
    <3>1. Submits(p, v)' /\ (pc'[p] = "full" => Off(v, p)' >= Cap - 1)
      BY <1>1, <2>2, Places DEF Submits, IInv, Reserved
    <3>2. Off(v, p) >= Cap - 1
      BY <1>1, <2>2, <3>1 DEF Off
    <3>3. pos[p] # n
      BY <3>2, OccupancyFacts, Types, <1>1, Widths DEF Near, Off, IInv
    <3>4. p \notin Writers(v, n) /\ p \notin Writers(v, n)'
      BY <1>1, <3>3 DEF Writers
    <3> QED
      BY <1>1, <1>3, <3>4, AwayTask
  <2> QED
    BY <1>2, <2>1, <2>2
<1>6. Running(v)' = Running(v)
  BY <1>1, <1>2, <1>3 DEF Running, Acts, Procs
<1> QED
  BY <1>1, <1>3, <1>4, <1>5, <1>6, SameContents

LEMMA RollbackContents ==
  ASSUME IInv, IInv', NEW p \in Procs, NEW v, v = ring[p], Rollback(p)
  PROVE  Acts(p, v) /\ Contents(v)' = Contents(v) /\ Running(v)' = Running(v)
<1>1. /\ pc[p] = "full" /\ UNCHANGED <<head, slots, ring, pos>> /\ v \in Workers
      /\ tail' = [tail EXCEPT ![v] = Dec(@)] /\ pc'[p] = "idle"
  BY GoFacts DEF Rollback
<1>2. Acts(p, v)
  BY RollbackRing
<1>3. Off(v, p) >= Cap - 1 /\ Occ(v) \in 0 .. Wrap - 1 /\ Off(v, p) \in 0 .. Wrap - 1
  <2>1. Off(v, p) >= Cap - 1
    BY <1>1, Places DEF IInv, Reserved, Submits
  <2> QED
    BY <1>1, <2>1, Types DEF IInv
<1>4. Occ(v) >= Cap
  <2>1. p \in Refused(v)
    BY <1>1, <1>3, Places DEF Refused, Submits
  <2>2. Occ(v) = Cap - 1 + Cardinality(Refused(v)) /\ Cardinality(Refused(v)) \in Nat
    BY <1>1, <2>1, Types, Widths DEF IInv, Counted
  <2>3. Cardinality(Refused(v)) # 0
    BY <1>1, <2>1, Types, FS_EmptySet DEF IInv
  <2> QED
    BY <2>2, <2>3, Widths
<1>5. Occ(v)' = Occ(v) - 1
  <2>1. head[v] \in Counter /\ tail[v] \in Counter
    BY <1>1, Types DEF IInv
  <2>2. Occupancy(head[v], Dec(tail[v])) = Occ(v) - 1
    BY <1>3, <1>4, <2>1, TailDown, Widths DEF Occ
  <2>3. tail'[v] = Dec(tail[v])
    BY <1>1 DEF IInv, TypeOK
  <2> QED
    BY <1>1, <2>2, <2>3 DEF Occ
<1>6. Held(v)' = Held(v)
  <2>1. Held(v) = Cap - 1
    BY <1>1, FullMeansHeld
  <2>2. Held(v)' = IF Occ(v) - 1 < Cap THEN Occ(v) - 1 ELSE Cap - 1
    BY <1>5, HeldNext
  <2> QED
    BY <1>3, <1>4, <2>1, <2>2, Widths
<1>7. ASSUME NEW n \in Near(v)
      PROVE  TaskAt(v, n)' = TaskAt(v, n)
  <2>1. p \notin Writers(v, n) /\ p \notin Writers(v, n)'
    BY <1>1 DEF Writers
  <2> QED
    BY <1>1, <1>2, <2>1, AwayTask
<1>8. Running(v)' = Running(v)
  <2>1. CASE p = v
    BY <1>1, <2>1 DEF Running
  <2>2. CASE p # v
    BY <1>1, <1>2, <2>2 DEF Running, Acts, Procs
  <2> QED
    BY <2>1, <2>2
<1> QED
  BY <1>1, <1>2, <1>6, <1>7, <1>8, SameContents

\* A write moves the task of a reservation into its slot, and no other slot.
LEMMA WriteContents ==
  ASSUME IInv, IInv', NEW p \in Procs, NEW v, v = ring[p], Write(p)
  PROVE  Acts(p, v) /\ Contents(v)' = Contents(v) /\ Running(v)' = Running(v)
<1>1. /\ pc[p] = "write" /\ UNCHANGED <<head, tail, ring, pos>> /\ v \in Workers
      /\ slots' = [slots EXCEPT ![v][pos[p] % Cap] = fn[p]]
      /\ Go(p, IF p \in Workers THEN "look" ELSE "idle")
  BY GoFacts DEF Write
<1>2. pc'[p] = "look" \/ pc'[p] = "idle"
  BY <1>1, GoFacts
<1>3. Acts(p, v)
  BY WriteRing
<1>4. Held(v)' = Held(v) /\ head'[v] = head[v]
  BY <1>1 DEF Held
<1>5. Submits(p, v) /\ Off(v, p) < Cap - 1 /\ pos[p] \in Counter /\ head[v] \in Counter
  BY <1>1, Places, Types DEF IInv, Reserved, Submits
<1>6. pos[p] % Cap \in 0 .. Cap - 1
  BY <1>5, Widths DEF Counter
<1>7. /\ slots'[v][pos[p] % Cap] = fn[p]
      /\ \A i \in 0 .. Cap - 1 : i # pos[p] % Cap => slots'[v][i] = slots[v][i]
  <2>1. slots \in [Workers -> [0 .. Cap - 1 -> Tasks \cup {Null}]]
    BY DEF IInv, TypeOK
  <2> QED
    BY <1>1, <1>6, <2>1
<1>8. ASSUME NEW n \in Near(v)
      PROVE  TaskAt(v, n)' = TaskAt(v, n)
  <2>1. p \notin Writers(v, n)'
    BY <1>2 DEF Writers
  <2>2. n \in Counter /\ Occupancy(head[v], n) < Cap - 1
    BY DEF Near
  <2>3. CASE n = pos[p]
    <3>1. p \in Writers(v, n)
      BY <1>1, <2>3 DEF Writers
    <3>2. ASSUME NEW q \in Writers(v, n)
          PROVE  q = p
      <4>1. q \in Procs /\ Submits(q, v) /\ Off(v, q) = Off(v, p)
        BY <2>3, Places DEF Writers, Submits, Off
      <4> QED
        BY <1>1, <1>5, <4>1 DEF IInv, Reserved
    <3>3. Writers(v, n) = {p}
      BY <3>1, <3>2
    <3>4. Writers(v, n)' = {}
      BY <1>3, <2>1, <3>3 DEF Writers, Acts
    <3> QED
      BY <1>7, <2>3, <3>3, <3>4 DEF TaskAt
  <2>4. CASE n # pos[p]
    <3>1. p \notin Writers(v, n)
      BY <2>4 DEF Writers
    <3>2. n % Cap # pos[p] % Cap
      BY <1>5, <2>2, <2>4, NearSlots DEF Off
    <3>3. n % Cap \in 0 .. Cap - 1
      BY <2>2, Widths DEF Counter
    <3>4. slots'[v][n % Cap] = slots[v][n % Cap]
      BY <1>7, <3>2, <3>3
    <3> QED
      BY <1>3, <2>1, <3>1, <3>4, AwayTask
  <2> QED
    BY <2>3, <2>4
<1>9. Running(v)' = Running(v)
  <2>1. CASE p = v
    BY <1>1, <1>2, <2>1 DEF Running
  <2>2. CASE p # v
    BY <1>1, <1>3, <2>2 DEF Running, Acts, Procs
  <2> QED
    BY <2>1, <2>2
<1> QED
  BY <1>1, <1>3, <1>4, <1>8, <1>9, SameContents

\* A drain does not write the ring.
LEMMA DrainContents ==
  ASSUME IInv, IInv', NEW w \in Workers, Acts(w, w), UNCHANGED <<head, tail, slots>>,
         pc[w] \notin {"check", "write"}, pc'[w] \notin {"check", "write"}
  PROVE  Contents(w)' = Contents(w)
<1>1. Held(w)' = Held(w) /\ head'[w] = head[w]
  BY DEF Held
<1>2. ASSUME NEW n \in Near(w)
      PROVE  TaskAt(w, n)' = TaskAt(w, n)
  <2>1. w \notin Writers(w, n) /\ w \notin Writers(w, n)'
    BY DEF Writers
  <2> QED
    BY <2>1, AwayTask
<1> QED
  BY <1>1, <1>2, SameContents

LEMMA QuietTask ==
  ASSUME IInv, NEW w \in Workers, Quiet(w), NEW n
  PROVE  TaskAt(w, n) = slots[w][n % Cap]
<1>1. Writers(w, n) = {}
  BY Places DEF Writers, Quiet, Submits
<1> QED
  BY <1>1 DEF TaskAt

\* The worker takes the oldest task out of its ring.
LEMMA AdvanceContents ==
  ASSUME IInv, IInv', NEW w \in Workers, Advance(w)
  PROVE  /\ Acts(w, w) /\ Contents(w) # <<>> /\ Contents(w)' = Tail(Contents(w))
         /\ Running(w) = Null /\ Running(w)' = Head(Contents(w))
<1>1. /\ pc[w] = "advance" /\ UNCHANGED <<tail, slots, ring, pos, fn>> /\ w \in Procs
      /\ Go(w, IF fn[w] = Null THEN "look" ELSE "run")
  BY DEF Advance, Procs
<1>2. /\ \/ pc'[w] = "look" /\ fn[w] = Null
         \/ pc'[w] = "run"
  BY <1>1, GoFacts
<1>3. Acts(w, w) /\ head'[w] = Inc(head[w]) /\ Occ(w)' = Occ(w) - 1
  BY AdvanceStep
<1>4. /\ Quiet(w) /\ Occ(w) <= Cap - 1 /\ Occ(w) \in 0 .. Wrap - 1 /\ Occ(w) > 0
      /\ head[w] \in Counter /\ fn[w] = slots[w][head[w] % Cap]
  <2>1. Quiet(w) /\ Occ(w) <= Cap - 1
    BY <1>1, DrainedIsQuiet, Places
  <2>2. Occ(w) > 0 /\ fn[w] = slots[w][head[w] % Cap]
    BY <1>1 DEF IInv, Drains
  <2> QED
    BY <2>1, <2>2, Types DEF IInv
<1>5. Held(w) = Occ(w) /\ Held(w)' = Held(w) - 1 /\ Held(w) \in 1 .. Cap - 1
  <2>1. Held(w) = IF Occ(w) < Cap - 1 THEN Occ(w) ELSE Cap - 1
    BY HeldFacts
  <2>2. Held(w)' = IF Occ(w) - 1 < Cap THEN Occ(w) - 1 ELSE Cap - 1
    BY <1>3, HeldNext
  <2> QED
    BY <1>4, <2>1, <2>2, Widths
<1>6. ASSUME NEW n
      PROVE  TaskAt(w, n)' = TaskAt(w, n)
  <2>1. w \notin Writers(w, n) /\ w \notin Writers(w, n)'
    BY <1>1, <1>2 DEF Writers
  <2> QED
    BY <1>1, <1>3, <2>1, AwayTask
<1>7. /\ Contents(w) \in Seq(Tasks \cup {Null}) /\ Len(Contents(w)) = Held(w)
      /\ \A i \in 1 .. Held(w) : Contents(w)[i] = TaskAt(w, At(head[w], i - 1))
  BY ContentsFacts
<1>8. Contents(w)' = [i \in 1 .. Held(w) - 1 |-> TaskAt(w, At(head[w], i - 1))']
  BY <1>5 DEF Contents
<1>9. ASSUME NEW i \in 1 .. Held(w) - 1
      PROVE  TaskAt(w, At(head[w], i - 1))' = Contents(w)[i + 1]
  <2>1. i - 1 \in 0 .. Wrap - 2 /\ i + 1 \in 1 .. Held(w) /\ i + 1 - 1 = i - 1 + 1
    BY <1>5, Widths
  <2>2. At(Inc(head[w]), i - 1) = At(head[w], i - 1 + 1)
    BY <1>4, <2>1, HeadUpAt
  <2>3. PICK m : m = At(head[w], i - 1 + 1) /\ m = At(head[w], i + 1 - 1)
    BY <2>1
  <2>4. At(head'[w], i - 1) = m
    BY <1>3, <2>2, <2>3
  <2>5. TaskAt(w, At(head[w], i - 1))' = TaskAt(w, m)'
    BY <2>4, TaskAtMoves
  <2>6. Contents(w)[i + 1] = TaskAt(w, m)
    <3>1. PICK j \in 1 .. Held(w) : j = i + 1
      BY <2>1
    <3>2. Contents(w)[j] = TaskAt(w, At(head[w], j - 1))
      BY <1>7
    <3> QED
      BY <2>3, <3>1, <3>2
  <2> QED
    BY <1>6, <2>5, <2>6
<1>10. Tail(Contents(w)) = [i \in 1 .. Held(w) - 1 |-> Contents(w)[i + 1]]
  <2> DEFINE s == Contents(w)
  <2>1. s \in Seq(Tasks \cup {Null}) /\ Len(s) = Held(w)
    BY <1>7
  <2> HIDE DEF s
  <2>2. s # <<>>
    BY <1>5, <2>1
  <2>3. Tail(s) = [i \in 1 .. Len(s) - 1 |-> s[i + 1]]
    <3>1. /\ Tail(s) \in Seq(Tasks \cup {Null}) /\ Len(Tail(s)) = Len(s) - 1
          /\ \A i \in 1 .. Len(Tail(s)) : Tail(s)[i] = s[i + 1]
      BY <2>1, <2>2, HeadTailProperties
    <3>2. Tail(s) \in [1 .. Len(s) - 1 -> Tasks \cup {Null}]
      BY <3>1, LenProperties
    <3> QED
      BY <3>1, <3>2
  <2> QED
    BY <2>1, <2>3 DEF s
<1>11. Contents(w)' = Tail(Contents(w))
  BY <1>8, <1>9, <1>10
<1>12. Contents(w) # <<>> /\ Head(Contents(w)) = Contents(w)[1]
  BY <1>5, <1>7
<1>13. Contents(w)[1] = fn[w]
  <2>1. At(head[w], 1 - 1) = head[w] /\ 1 \in 1 .. Held(w)
    BY <1>4, <1>5, Widths DEF At, Counter
  <2> QED
    BY <1>4, <1>7, <2>1, QuietTask
<1>14. Running(w) = Null /\ Running(w)' = fn[w]
  BY <1>1, <1>2 DEF Running
<1> QED
  BY <1>3, <1>11, <1>12, <1>13, <1>14

-----------------------------------------------------------------------------
(* Every step is a step of the queues, or none *)

Queues == [w \in Workers |-> Contents(w)]
Runs == [w \in Workers |-> Running(w)]
QStep == [Q!QNext]_(Q!qvars)

\* A thread changes the queue and the task of its own ring only.
LEMMA OneQueue ==
  ASSUME IInv, IInv', NEW p, NEW v, Acts(p, v), NEW s, NEW x,
         Contents(v)' = s, Running(v)' = x
  PROVE  /\ v \in Workers
         /\ Queues' = [Queues EXCEPT ![v] = s] /\ Runs' = [Runs EXCEPT ![v] = x]
         /\ Queues[v] = Contents(v) /\ Runs[v] = Running(v)
<1>1. v \in Workers
  BY DEF Acts
<1>2. \A w \in Workers : w # v => Contents(w)' = Contents(w) /\ Running(w)' = Running(w)
  BY OtherRings
<1>3. Queues' = [w \in Workers |-> Contents(w)'] /\ Runs' = [w \in Workers |-> Running(w)']
  BY DEF Queues, Runs
<1>4. Queues' = [Queues EXCEPT ![v] = s]
  BY <1>1, <1>2, <1>3 DEF Queues
<1>5. Runs' = [Runs EXCEPT ![v] = x]
  BY <1>1, <1>2, <1>3 DEF Runs
<1> QED
  BY <1>1, <1>4, <1>5 DEF Queues, Runs

LEMMA HiddenStep ==
  ASSUME IInv, IInv', NEW p, NEW v, Acts(p, v),
         Contents(v)' = Contents(v), Running(v)' = Running(v)
  PROVE  QStep
<1>1. v \in Workers
  BY DEF Acts
<1>2. \A w \in Workers : Contents(w)' = Contents(w) /\ Running(w)' = Running(w)
  BY OtherRings
<1>3. Queues' = Queues
  BY <1>2 DEF Queues
<1>4. Runs' = Runs
  BY <1>2 DEF Runs
<1> QED
  BY <1>3, <1>4 DEF QStep, Q!qvars, Queues, Runs, Running

LEMMA EnqueueStep ==
  ASSUME IInv, IInv', NEW p, NEW v, Acts(p, v), NEW x \in Tasks, Held(v) < Cap - 1,
         Contents(v)' = Append(Contents(v), x), Running(v)' = Running(v)
  PROVE  QStep
<1>1. /\ v \in Workers /\ Queues[v] = Contents(v) /\ Runs[v] = Running(v)
      /\ Queues' = [Queues EXCEPT ![v] = Append(Contents(v), x)]
      /\ Runs' = [Runs EXCEPT ![v] = Running(v)]
  BY OneQueue
<1>2. Runs' = Runs
  BY <1>1 DEF Runs
<1>3. Len(Contents(v)) < Cap - 1
  BY <1>1, ContentsFacts
<1>4. Q!Enqueue(v, x)
  BY <1>1, <1>2, <1>3 DEF Q!Enqueue, Queues, Runs, Running
<1> QED
  BY <1>1, <1>4 DEF QStep, Q!QNext

LEMMA StartStep ==
  ASSUME IInv, IInv', NEW p, NEW v, Acts(p, v), Contents(v) # <<>>, Running(v) = Null,
         Contents(v)' = Tail(Contents(v)), Running(v)' = Head(Contents(v))
  PROVE  QStep
<1>1. /\ v \in Workers /\ Queues[v] = Contents(v) /\ Runs[v] = Running(v)
      /\ Queues' = [Queues EXCEPT ![v] = Tail(Contents(v))]
      /\ Runs' = [Runs EXCEPT ![v] = Head(Contents(v))]
  BY OneQueue
<1>2. Q!Start(v)
  BY <1>1 DEF Q!Start, Queues, Runs, Running
<1> QED
  BY <1>1, <1>2 DEF QStep, Q!QNext

LEMMA FinishStep ==
  ASSUME IInv, IInv', NEW p, NEW v, Acts(p, v), Running(v) # Null,
         Contents(v)' = Contents(v), Running(v)' = Null
  PROVE  QStep
<1>1. /\ v \in Workers /\ Queues[v] = Contents(v) /\ Runs[v] = Running(v)
      /\ Queues' = [Queues EXCEPT ![v] = Contents(v)]
      /\ Runs' = [Runs EXCEPT ![v] = Null]
  BY OneQueue
<1>2. Queues' = Queues
  BY <1>1 DEF Queues
<1>3. Q!Finish(v)
  BY <1>1, <1>2 DEF Q!Finish, Queues, Runs, Running
<1> QED
  BY <1>1, <1>3 DEF QStep, Q!QNext

LEMMA RequeueStep ==
  ASSUME IInv, IInv', NEW p, NEW v, Acts(p, v), Running(v) # Null, Held(v) < Cap - 1,
         Contents(v)' = Append(Contents(v), Running(v)), Running(v)' = Null
  PROVE  QStep
<1>1. /\ v \in Workers /\ Queues[v] = Contents(v) /\ Runs[v] = Running(v)
      /\ Queues' = [Queues EXCEPT ![v] = Append(Contents(v), Running(v))]
      /\ Runs' = [Runs EXCEPT ![v] = Null]
  BY OneQueue
<1>2. Len(Contents(v)) < Cap - 1
  BY <1>1, ContentsFacts
<1>3. Q!Requeue(v)
  BY <1>1, <1>2 DEF Q!Requeue, Queues, Runs, Running
<1> QED
  BY <1>1, <1>3 DEF QStep, Q!QNext

\* A submit puts its task in when it reserves a position that fits.
LEMMA SubmitRefines ==
  ASSUME IInv, IInv', NEW p \in Producers, NEW v \in Workers, NEW x \in Tasks,
         SubmitTo(p, v, x)
  PROVE  QStep
<1>1. /\ pc[p] = "idle" /\ UNCHANGED <<head, slots>> /\ p \in Procs /\ p \notin Workers
      /\ ring' = [ring EXCEPT ![p] = v] /\ fn' = [fn EXCEPT ![p] = x]
      /\ pos' = [pos EXCEPT ![p] = tail[v]] /\ Go(p, "check")
  BY RingConstants DEF SubmitTo, Reserve, Procs
<1>2. pc'[p] = "check"
  BY <1>1, GoFacts
<1>3. ring'[p] = v /\ fn'[p] = x /\ pos'[p] = tail[v]
  BY <1>1 DEF IInv, TypeOK
<1>4. Occ(v)' = Occ(v) + 1 /\ Off(v, p)' = Occ(v) /\ Acts(p, v)
  BY SubmitStep
<1>5. IF Held(v) < Cap - 1 THEN Contents(v)' = Append(Contents(v), x)
                           ELSE Contents(v)' = Contents(v)
  <2>1. pc[p] \notin Submitting
    BY <1>1, Places
  <2> QED
    BY <1>1, <1>2, <1>3, <1>4, <2>1, ReserveContents
<1>6. Running(v)' = Running(v)
  BY <1>1, <1>4 DEF Running, Acts, Procs
<1>7. CASE Held(v) < Cap - 1
  BY <1>4, <1>5, <1>6, <1>7, EnqueueStep
<1>8. CASE ~(Held(v) < Cap - 1)
  BY <1>4, <1>5, <1>6, <1>8, HiddenStep
<1> QED
  BY <1>7, <1>8

LEMMA LooksRefines ==
  ASSUME IInv, IInv', NEW w \in Workers,
         DrainStart(w) \/ Look(w) \/ DrainAbort(w) \/ ReadSlot(w)
  PROVE  QStep
<1>1. w \in Procs
  BY DEF Procs
<1>2. UNCHANGED <<head, tail, slots>> /\ pc[w] \in {"idle", "look", "read"}
  BY DEF DrainStart, Look, DrainAbort, ReadSlot
<1>3. pc'[w] \in {"idle", "look", "read", "advance"}
  BY <1>1, GoFacts DEF DrainStart, Look, DrainAbort, ReadSlot
<1>4. Acts(w, w)
  BY LooksStep, ReadSlotStep
<1>5. Contents(w)' = Contents(w)
  BY <1>2, <1>3, <1>4, DrainContents
<1>6. Running(w)' = Running(w)
  BY <1>2, <1>3 DEF Running
<1> QED
  BY <1>4, <1>5, <1>6, HiddenStep

LEMMA LeavesRefines ==
  ASSUME IInv, IInv', NEW w \in Workers, TaskLeaves(w)
  PROVE  QStep
<1>1. w \in Procs /\ pc[w] = "run" /\ UNCHANGED <<head, tail, slots>>
  BY DEF TaskLeaves, Procs
<1>2. pc'[w] = "look"
  BY <1>1, GoFacts DEF TaskLeaves
<1>3. Acts(w, w)
  BY LeavesStep
<1>4. Contents(w)' = Contents(w)
  BY <1>1, <1>2, <1>3, DrainContents
<1>5. Running(w) # Null /\ Running(w)' = Null
  BY <1>1, <1>2 DEF Running, IInv, Drains
<1> QED
  BY <1>3, <1>4, <1>5, FinishStep

LEMMA SuspendsRefines ==
  ASSUME IInv, IInv', NEW w \in Workers, TaskSuspends(w)
  PROVE  QStep
<1>1. /\ w \in Procs /\ pc[w] = "run" /\ UNCHANGED <<head, slots, ring, fn>> /\ ring[w] = w
      /\ pos' = [pos EXCEPT ![w] = tail[w]] /\ Go(w, "check")
  BY DEF TaskSuspends, Reserve, Procs, IInv, Phases
<1>2. pc'[w] = "check"
  BY <1>1, GoFacts
<1>3. pos'[w] = tail[w]
  BY <1>1 DEF IInv, TypeOK
<1>4. Occ(w)' = Occ(w) + 1 /\ Off(w, w)' = Occ(w) /\ Acts(w, w)
  BY SuspendsStep
<1>5. IF Held(w) < Cap - 1 THEN Contents(w)' = Append(Contents(w), fn[w])
                           ELSE Contents(w)' = Contents(w)
  <2>1. pc[w] \notin Submitting
    BY <1>1, Places
  <2>2. IF Held(w) < Cap - 1 THEN Contents(w)' = Append(Contents(w), fn'[w])
                             ELSE Contents(w)' = Contents(w)
    BY <1>1, <1>2, <1>3, <1>4, <2>1, ReserveContents
  <2> QED
    BY <1>1, <2>2
<1>6. Running(w) = fn[w] /\ fn[w] # Null /\ Running(w)' = Null
  BY <1>1, <1>2 DEF Running, IInv, Drains
<1>7. CASE Held(w) < Cap - 1
  BY <1>4, <1>5, <1>6, <1>7, RequeueStep
<1>8. CASE ~(Held(w) < Cap - 1)
  BY <1>4, <1>5, <1>6, <1>8, FinishStep
<1> QED
  BY <1>7, <1>8

LEMMA AppendAt ==
  ASSUME NEW S, NEW s \in Seq(S), NEW x \in S
  PROVE  Append(s, x) = [i \in 1 .. Len(s) + 1 |-> IF i = Len(s) + 1 THEN x ELSE s[i]]
<1>1. /\ Append(s, x) \in Seq(S) /\ Len(Append(s, x)) = Len(s) + 1
      /\ \A i \in 1 .. Len(s) : Append(s, x)[i] = s[i]
      /\ Append(s, x)[Len(s) + 1] = x
  BY AppendProperties
<1>2. Append(s, x) \in [1 .. Len(s) + 1 -> S] /\ Len(s) \in Nat
  BY <1>1, LenProperties
<1>3. \A i \in 1 .. Len(s) + 1 : i = Len(s) + 1 \/ i \in 1 .. Len(s)
  BY <1>2
<1>4. \A i \in 1 .. Len(s) + 1 :
        Append(s, x)[i] = IF i = Len(s) + 1 THEN x ELSE s[i]
  BY <1>1, <1>3
<1> QED
  BY <1>2, <1>4

\* The slot a running task writes is no other task's, and at the end.
LEMMA TaskSubmitsRefines ==
  ASSUME IInv, IInv', NEW w \in Workers, NEW x \in Tasks, TaskSubmits(w, x)
  PROVE  QStep
<1>1. /\ pc[w] = "run" /\ UNCHANGED <<head, pc, ring, pos, fn>>
      /\ slots' = [slots EXCEPT ![w][tail[w] % Cap] = x]
  BY DEF TaskSubmits
<1>0. head'[w] = head[w]
  BY <1>1
<1>2. Acts(w, w) /\ Occ(w) < Cap - 1 /\ Occ(w)' = Occ(w) + 1
  BY TaskSubmitsStep
<1>3. /\ head[w] \in Counter /\ tail[w] \in Counter /\ Occ(w) \in 0 .. Wrap - 1
      /\ Quiet(w) /\ tail[w] % Cap \in 0 .. Cap - 1
  <2>1. head[w] \in Counter /\ tail[w] \in Counter /\ Occ(w) \in 0 .. Wrap - 1
    BY Types DEF IInv
  <2>2. Quiet(w)
    BY <1>1, DrainedIsQuiet, Places
  <2> QED
    BY <2>1, <2>2, Widths DEF Counter
<1>4. Held(w) = Occ(w) /\ Held(w)' = Held(w) + 1 /\ Held(w) < Cap - 1
  <2>1. Held(w) = Occ(w)
    BY <1>2, HeldFacts
  <2>2. Held(w)' = IF Occ(w) + 1 < Cap THEN Occ(w) + 1 ELSE Cap - 1
    BY <1>2, HeldNext
  <2> QED
    BY <1>2, <1>3, <2>1, <2>2, Widths
<1>5. ASSUME NEW n
      PROVE  TaskAt(w, n)' = slots'[w][n % Cap]
  <2>1. Writers(w, n)' = {}
    BY <1>1, <1>3, Places DEF Writers, Quiet, Submits
  <2> QED
    BY <2>1 DEF TaskAt
<1>6. /\ slots'[w][tail[w] % Cap] = x
      /\ \A j \in 0 .. Cap - 1 : j # tail[w] % Cap => slots'[w][j] = slots[w][j]
  <2>1. slots \in [Workers -> [0 .. Cap - 1 -> Tasks \cup {Null}]]
    BY DEF IInv, TypeOK
  <2> QED
    BY <1>1, <1>3, <2>1
<1>7. ASSUME NEW i \in 1 .. Held(w)
      PROVE  TaskAt(w, At(head[w], i - 1))' = Contents(w)[i]
  <2>1. PICK n \in Near(w) : n = At(head[w], i - 1) /\ Occupancy(head[w], n) = i - 1
                             /\ Contents(w)[i] = TaskAt(w, n)
    BY ContentsFacts
  <2>2. n \in Counter /\ Occupancy(head[w], n) < Cap - 1 /\ n # tail[w]
    BY <1>3, <1>4, <2>1 DEF Near, Occ
  <2>3. n % Cap # tail[w] % Cap
    BY <1>2, <1>3, <2>2, NearSlots DEF Occ
  <2>4. n % Cap \in 0 .. Cap - 1
    BY <2>2, Widths DEF Counter
  <2>5. TaskAt(w, n)' = TaskAt(w, n)
    BY <1>3, <1>5, <1>6, <2>3, <2>4, QuietTask
  <2> QED
    BY <1>0, <2>1, <2>5, TaskAtNext
<1>8. ASSUME NEW i, i = Held(w)
      PROVE  TaskAt(w, At(head[w], i))' = x
  <2>1. PICK n : n = tail[w]
    OBVIOUS
  <2>2. n = At(head[w], i)
    BY <1>3, <1>4, <1>8, <2>1, OccupancyFacts DEF Occ
  <2>3. TaskAt(w, n)' = x
    BY <1>5, <1>6, <2>1
  <2> QED
    BY <1>0, <2>2, <2>3, TaskAtNext
<1>9. Contents(w)' = Append(Contents(w), x)
  <2>1. Contents(w)' = [i \in 1 .. Held(w) + 1 |-> TaskAt(w, At(head[w], i - 1))']
    BY <1>1, <1>4, ContentsNext
  <2>2. Append(Contents(w), x)
          = [i \in 1 .. Held(w) + 1 |-> IF i = Held(w) + 1 THEN x ELSE Contents(w)[i]]
    <3>1. PICK s \in Seq(Tasks \cup {Null}) : s = Contents(w) /\ Len(s) = Held(w)
      BY ContentsFacts
    <3>2. x \in Tasks \cup {Null}
      OBVIOUS
    <3>3. Append(s, x) = [i \in 1 .. Len(s) + 1 |-> IF i = Len(s) + 1 THEN x ELSE s[i]]
      BY <3>2, AppendAt
    <3> QED
      BY <3>1, <3>3
  <2>3. \A i \in 1 .. Held(w) + 1 : TaskAt(w, At(head[w], i - 1))'
          = IF i = Held(w) + 1 THEN x ELSE Contents(w)[i]
    <3> SUFFICES ASSUME NEW i \in 1 .. Held(w) + 1
                 PROVE  TaskAt(w, At(head[w], i - 1))'
                          = IF i = Held(w) + 1 THEN x ELSE Contents(w)[i]
      OBVIOUS
    <3>1. Held(w) \in 0 .. Cap - 1
      BY HeldFacts
    <3>2. CASE i = Held(w) + 1
      <4>1. i - 1 = Held(w)
        BY <3>1, <3>2
      <4>2. TaskAt(w, At(head[w], i - 1))' = x
        BY <1>8, <4>1
      <4> QED
        BY <3>2, <4>2
    <3>3. CASE i # Held(w) + 1
      <4>1. i \in 1 .. Held(w)
        BY <3>1, <3>3, Widths
      <4> QED
        BY <1>7, <3>3, <4>1
    <3> QED
      BY <3>2, <3>3
  <2> QED
    BY <2>1, <2>2, <2>3
<1>10. Running(w)' = Running(w)
  BY <1>1 DEF Running
<1> QED
  BY <1>2, <1>4, <1>9, <1>10, EnqueueStep

LEMMA EmptyQueues ==
  ASSUME \A w \in Workers : Held(w) = 0
  PROVE  Queues = [w \in Workers |-> <<>>]
<1>1. \A w \in Workers : Contents(w) = <<>>
  BY DEF Contents
<1> QED
  BY <1>1 DEF Queues

\* Every ring is idle: what was in it is gone, and nothing runs.
LEMMA ResetRefines ==
  ASSUME IInv, IInv', Reset
  PROVE  QStep
<1>1. \A w \in Workers : Held(w)' = 0
  <2>1. \A w \in Workers : Occ(w)' = 0
    BY ResetStep
  <2> QED
    BY <2>1, HeldNext, Widths
<1>2. \A w \in Workers : Contents(w)' = <<>>
  BY <1>1 DEF Contents
<1>3. Queues' = [w \in Workers |-> <<>>]
  BY <1>2 DEF Queues
<1>4. \A w \in Workers : Running(w) = Null /\ Running(w)' = Null
  BY DEF Reset, Running, Procs
<1>5. Runs = [w \in Workers |-> Null] /\ Runs' = Runs
  BY <1>4 DEF Runs
<1>6. Q!Reset
  BY <1>3, <1>5 DEF Q!Reset, Queues, Runs, Running
<1> QED
  BY <1>6 DEF QStep, Q!QNext

\* Every step of the rings is a step of the queues, or none.
LEMMA QueueStep ==
  ASSUME IInv, IInv', [Next]_vars
  PROVE  QStep
<1>1. ASSUME NEW p \in Procs, Check(p) \/ Rollback(p) \/ Write(p)
      PROVE  QStep
  <2>1. PICK v : v = ring[p]
    OBVIOUS
  <2>2. Acts(p, v) /\ Contents(v)' = Contents(v) /\ Running(v)' = Running(v)
    BY <1>1, <2>1, CheckContents, RollbackContents, WriteContents
  <2> QED
    BY <2>2, HiddenStep
<1>2. ASSUME NEW w \in Workers, \/ DrainStart(w) \/ Look(w) \/ DrainAbort(w) \/ ReadSlot(w)
                                \/ Advance(w) \/ TaskLeaves(w) \/ TaskSuspends(w)
                                \/ \E x \in Tasks : TaskSubmits(w, x)
      PROVE  QStep
  <2>1. CASE Advance(w)
    <3>1. /\ Acts(w, w) /\ Contents(w) # <<>> /\ Contents(w)' = Tail(Contents(w))
          /\ Running(w) = Null /\ Running(w)' = Head(Contents(w))
      BY <2>1, AdvanceContents
    <3> QED
      BY <3>1, StartStep
  <2> QED
    BY <1>2, <2>1, LooksRefines, LeavesRefines, SuspendsRefines, TaskSubmitsRefines
<1>3. CASE UNCHANGED vars
  <2>1. \A w \in Workers : Contents(w)' = Contents(w)
    BY <1>3 DEF vars, Contents, Held, TaskAt, Writers
  <2>2. Queues' = Queues
    BY <2>1 DEF Queues
  <2>3. Runs' = Runs
    BY <1>3 DEF vars, Runs, Running
  <2> QED
    BY <2>2, <2>3 DEF QStep, Q!qvars, Queues, Runs, Running
<1> QED
  BY <1>1, <1>2, <1>3, SubmitRefines, ResetRefines DEF Next

LEMMA QueueInit == Init => Q!QInit
<1> SUFFICES ASSUME Init
             PROVE  Q!QInit
  OBVIOUS
<1>1. \A w \in Workers : Held(w) = 0 /\ Running(w) = Null
  BY Widths DEF Init, Held, Occupancy, Running, Procs
<1>2. Queues = [w \in Workers |-> <<>>]
  BY <1>1, EmptyQueues
<1>3. Runs = [w \in Workers |-> Null]
  BY <1>1 DEF Runs
<1> QED
  BY <1>2, <1>3 DEF Q!QInit, Queues, Runs, Running

\* The rings are first-in first-out queues of Cap - 1 tasks each: whatever
\* submits race before a drain, with refused reservations taken back in any
\* order and counters that wrap, and whatever the tasks submit during it, no
\* task in a ring is lost, doubled, invented or overtaken, a suspended task goes
\* to the end of its own ring if that has room, and a worker runs one task of
\* its ring at a time.
THEOREM RingImplementsQueue == Spec => RingRefined
<1>1. IInv /\ [Next]_vars => IInv'
  BY IInvStep
<1>2. IInv /\ IInv' /\ [Next]_vars => [Q!QNext]_(Q!qvars)
  BY QueueStep DEF QStep
<1> QED
  BY <1>1, <1>2, InitIInv, QueueInit, PTL DEF Spec, RingRefined, Q!QSpec
=============================================================================
