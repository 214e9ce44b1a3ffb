--------------------------- MODULE KvStoreProofs ----------------------------
(***************************************************************************)
(* For any keys, hash classes, capacities and number of compactions: the   *)
(* files and the memtable stay well formed, the memtable never names a     *)
(* record the log no longer has, and a frozen level holds one record of    *)
(* each class.                                                             *)
(***************************************************************************)
EXTENDS KvStore, FiniteSetTheorems, SequenceTheorems, TLAPS

-----------------------------------------------------------------------------
(* The i-th element of a finite set of positions. *)

\* The positions of a sequence of length n.
LEMMA PositionsFinite ==
  ASSUME NEW n \in Nat
  PROVE  IsFiniteSet(1 .. n) /\ Cardinality(1 .. n) = n
BY FS_Interval

Rank(S, p) == Cardinality({q \in S : q <= p})

\* Ranks are between 1 and the size of the set, and no two elements share one.
LEMMA RankFacts ==
  ASSUME NEW n \in Nat, NEW S \in SUBSET (1 .. n)
  PROVE  /\ IsFiniteSet(S) /\ Cardinality(S) \in Nat
         /\ \A p \in S : Rank(S, p) \in 1 .. Cardinality(S)
         /\ \A p, q \in S : Rank(S, p) = Rank(S, q) => p = q
<1> IsFiniteSet(1 .. n)
  BY FS_Interval
<1> \A p \in S : p \in Int
  OBVIOUS
<1>1. IsFiniteSet(S) /\ Cardinality(S) \in Nat
  BY FS_Subset, FS_CardinalityType
<1>2. ASSUME NEW p \in S
      PROVE  /\ IsFiniteSet({q \in S : q <= p})
             /\ Rank(S, p) \in 1 .. Cardinality(S)
  <2> DEFINE T == {q \in S : q <= p}
  <2>1. T \in SUBSET S /\ p \in T
    OBVIOUS
  <2>2. IsFiniteSet(T) /\ Cardinality(T) <= Cardinality(S) /\ Cardinality(T) \in Nat
    BY <1>1, <2>1, FS_Subset, FS_CardinalityType
  <2>3. Cardinality(T) # 0
    BY <2>1, <2>2, FS_EmptySet
  <2> QED
    BY <1>1, <2>2, <2>3 DEF Rank
<1>3. ASSUME NEW p \in S, NEW q \in S, p < q
      PROVE  Rank(S, p) # Rank(S, q)
  <2> DEFINE P == {r \in S : r <= p}  Q == {r \in S : r <= q}
  <2>0. p \in Int /\ q \in Int
    OBVIOUS
  <2>a. ASSUME NEW r \in P PROVE r \in Q
    <3>1. r \in S /\ r \in Int /\ r <= p
      OBVIOUS
    <3> QED
      BY <1>3, <2>0, <3>1
  <2>b. q \in Q /\ q \notin P
    BY <1>3, <2>0
  <2>1. P \in SUBSET Q /\ q \in Q /\ q \notin P
    BY <2>a, <2>b
  <2>2. IsFiniteSet(Q)
    BY <1>2
  <2>3. Cardinality(Q) = Cardinality(P) => Q = P
    BY <2>1, <2>2, FS_Subset
  <2> QED
    BY <2>1, <2>3 DEF Rank
<1>4. ASSUME NEW p \in S, NEW q \in S, Rank(S, p) = Rank(S, q)
      PROVE  p = q
  <2>1. p \in Int /\ q \in Int
    OBVIOUS
  <2> QED
    BY <1>3, <1>4, <2>1
<1> QED
  BY <1>1, <1>2, <1>4

\* Nth(S, i) is the element of rank i, for every i up to the size of S, and
\* every element is reached.
LEMMA NthFacts ==
  ASSUME NEW n \in Nat, NEW S \in SUBSET (1 .. n)
  PROVE  /\ \A i \in 1 .. Cardinality(S) : Nth(S, i) \in S /\ Rank(S, Nth(S, i)) = i
         /\ \A p \in S : Nth(S, Rank(S, p)) = p
<1> DEFINE N == Cardinality(S)
           f == [p \in S |-> Rank(S, p)]
<1>1. IsFiniteSet(S) /\ N \in Nat
  BY RankFacts
<1>2. f \in Injection(S, 1 .. N)
  BY RankFacts DEF Injection, IsInjective
<1>3. IsFiniteSet(1 .. N) /\ Cardinality(1 .. N) = N
  BY <1>1, FS_Interval
<1>4. f \in Surjection(S, 1 .. N)
  BY <1>2, <1>3, FS_Injection
<1>5. \A i \in 1 .. N : \E p \in S : Rank(S, p) = i
  BY <1>4 DEF Surjection
<1>6. ASSUME NEW i \in 1 .. N
      PROVE  Nth(S, i) \in S /\ Rank(S, Nth(S, i)) = i
  BY <1>5 DEF Nth, Rank
<1>7. ASSUME NEW p \in S
      PROVE  Nth(S, Rank(S, p)) = p
  BY <1>6, RankFacts
<1> QED
  BY <1>6, <1>7

\* A nonempty set of positions has a greatest element.
LEMMA GreatestExists ==
  ASSUME NEW n \in Nat, NEW S \in SUBSET (1 .. n), S # {}
  PROVE  \E p \in S : \A q \in S : q <= p
<1> DEFINE N == Cardinality(S)  p == Nth(S, N)  T == {q \in S : q <= p}
<1>1. IsFiniteSet(S) /\ N \in Nat
  BY RankFacts
<1>2. N # 0
  BY <1>1, FS_EmptySet
<1>3. p \in S /\ Rank(S, p) = N
  <2>1. N \in 1 .. N
    BY <1>1, <1>2
  <2> QED
    BY <2>1, NthFacts
<1>4. T \in SUBSET S /\ Cardinality(T) = Cardinality(S)
  BY <1>3 DEF Rank
<1>5. S = T
  BY <1>1, <1>4, FS_Subset
<1> QED
  BY <1>3, <1>5

\* A nonempty set of positions has a least element.
LEMMA LeastExists ==
  ASSUME NEW n \in Nat, NEW S \in SUBSET (1 .. n), S # {}
  PROVE  \E p \in S : \A q \in S : p <= q
<1> DEFINE N == Cardinality(S)
<1>1. IsFiniteSet(S) /\ N \in Nat
  BY RankFacts
<1>2. N # 0
  BY <1>1, FS_EmptySet
<1>3. PICK p \in S : Rank(S, p) = 1
  <2>1. 1 \in 1 .. N
    BY <1>1, <1>2
  <2> QED
    BY <2>1, NthFacts
<1>4. ASSUME NEW q \in S
      PROVE  p <= q
  <2>0. p \in Int /\ q \in Int
    OBVIOUS
  <2>1. Rank(S, q) \in 1 .. N
    BY RankFacts
  <2>2. CASE q < p
    <3> DEFINE P == {r \in S : r <= p}  Q == {r \in S : r <= q}
    <3>0. p \in Int /\ q \in Int /\ q < p
      BY <2>0, <2>2
    <3>1. ASSUME NEW r \in Q PROVE r \in P
      <4>1. r \in S /\ r \in Int /\ r <= q
        OBVIOUS
      <4> QED
        BY <3>0, <4>1
    <3>2. Q \in SUBSET P
      BY <3>1
    <3>3. P \in SUBSET S
      OBVIOUS
    <3>4. IsFiniteSet(P)
      BY <1>1, <3>3, FS_Subset
    <3>5. Cardinality(Q) <= Cardinality(P)
      BY <3>2, <3>4, FS_Subset
    <3>6. Rank(S, q) = 1
      BY <1>3, <2>1, <3>5 DEF Rank
    <3>7. p = q
      BY <1>3, <3>6, RankFacts
    <3> QED
      BY <3>0, <3>7
  <2> QED
    BY <2>0, <2>2
<1> QED
  BY <1>3, <1>4

-----------------------------------------------------------------------------
(* The table that rebuilding the memtable produces. *)

\* LastOf finds the last entry of a class that occurs.
LEMMA LastOfFacts ==
  ASSUME NEW es \in Seq(Entry), NEW c, NEW o \in DOMAIN es, es[o].class = c
  PROVE  /\ LastOf(es, c) \in DOMAIN es
         /\ es[LastOf(es, c)].class = c
         /\ \A q \in DOMAIN es : es[q].class = c => q <= LastOf(es, c)
<1> DEFINE S == {p \in DOMAIN es : es[p].class = c}
<1>1. S \in SUBSET (1 .. Len(es)) /\ Len(es) \in Nat /\ S # {}
  OBVIOUS
<1>2. PICK p \in S : \A q \in S : q <= p
  BY <1>1, GreatestExists
<1>3. \E p1 \in DOMAIN es :
        es[p1].class = c /\ \A q \in DOMAIN es : es[q].class = c => q <= p1
  BY <1>2
<1> QED
  BY <1>3 DEF LastOf

\* The table holds at most MtCap entries, one per class, each naming the last
\* record of its class; if the classes fit the table, every class has one.
LEMMA IndexFacts ==
  ASSUME NEW es \in Seq(Entry)
  PROVE  /\ Index(es) \in Seq(Entry)
         /\ Len(Index(es)) <= MtCap /\ Len(Index(es)) <= Len(es)
         /\ \A i \in DOMAIN Index(es) : \E p \in DOMAIN es :
              /\ Index(es)[i] = es[p]
              /\ \A q \in DOMAIN es : es[q].class = es[p].class => q <= p
         /\ \A i, j \in DOMAIN Index(es) :
              Index(es)[i].class = Index(es)[j].class => i = j
         /\ Cardinality(FirstSeen(es)) <= MtCap =>
              \A p \in DOMAIN es : \E i \in DOMAIN Index(es) :
                Index(es)[i].class = es[p].class
<1> DEFINE F == FirstSeen(es)  n == Cardinality(F)
           m == IF n < MtCap THEN n ELSE MtCap
           at(i) == LastOf(es, es[Nth(F, i)].class)
<1>1. F \in SUBSET (1 .. Len(es)) /\ Len(es) \in Nat
  BY DEF FirstSeen
<1>2. n \in Nat /\ IsFiniteSet(F)
  BY <1>1, RankFacts
<1>3. n <= Len(es)
  <2>1. IsFiniteSet(1 .. Len(es)) /\ Cardinality(1 .. Len(es)) = Len(es)
    BY <1>1, PositionsFinite
  <2>2. Cardinality(F) <= Cardinality(1 .. Len(es))
    BY <1>1, <2>1, FS_Subset
  <2> QED
    BY <2>1, <2>2
<1>4. m \in Nat /\ m <= n /\ m <= MtCap
  BY <1>2, KvConstants
<1>5. Index(es) = [i \in 1 .. m |-> es[at(i)]]
  BY DEF Index
<1>6. ASSUME NEW i \in 1 .. m
      PROVE  /\ Nth(F, i) \in F /\ Rank(F, Nth(F, i)) = i
             /\ at(i) \in DOMAIN es
             /\ es[at(i)].class = es[Nth(F, i)].class
             /\ \A q \in DOMAIN es : es[q].class = es[at(i)].class => q <= at(i)
  <2>1. i \in 1 .. n
    BY <1>2, <1>4
  <2>2. Nth(F, i) \in F /\ Rank(F, Nth(F, i)) = i
    BY <1>1, <2>1, NthFacts
  <2>3. Nth(F, i) \in DOMAIN es
    BY <1>1, <2>2
  <2> QED
    BY <2>2, <2>3, LastOfFacts
<1>7. Index(es) \in Seq(Entry) /\ Len(Index(es)) = m /\ DOMAIN Index(es) = 1 .. m
  <2>1. \A i \in 1 .. m : es[at(i)] \in Entry
    BY <1>6
  <2>2. [i \in 1 .. m |-> es[at(i)]] \in Seq(Entry)
    BY <1>4, <2>1, IsASeq
  <2> QED
    BY <1>4, <1>5, <2>2
<1>8. Len(Index(es)) <= MtCap /\ Len(Index(es)) <= Len(es)
  BY <1>2, <1>3, <1>4, <1>7, KvConstants
<1>9. ASSUME NEW i \in DOMAIN Index(es)
      PROVE  \E p \in DOMAIN es :
              /\ Index(es)[i] = es[p]
              /\ \A q \in DOMAIN es : es[q].class = es[p].class => q <= p
  <2>1. i \in 1 .. m /\ Index(es)[i] = es[at(i)]
    BY <1>5, <1>7
  <2> QED
    BY <1>6, <2>1
<1>10. ASSUME NEW p \in F, NEW q \in F, es[p].class = es[q].class
       PROVE  p = q
  BY <1>1, <1>10 DEF FirstSeen
<1>11. ASSUME NEW i \in DOMAIN Index(es), NEW j \in DOMAIN Index(es),
              Index(es)[i].class = Index(es)[j].class
       PROVE  i = j
  <2>1. i \in 1 .. m /\ j \in 1 .. m /\ es[at(i)].class = es[at(j)].class
    BY <1>5, <1>7, <1>11
  <2>2. Nth(F, i) = Nth(F, j)
    BY <1>6, <1>10, <2>1
  <2> QED
    BY <1>6, <2>1, <2>2
<1>12. ASSUME n <= MtCap, NEW p \in DOMAIN es
       PROVE  \E i \in DOMAIN Index(es) : Index(es)[i].class = es[p].class
  <2> DEFINE S == {q \in DOMAIN es : es[q].class = es[p].class}
  <2>1. S \in SUBSET (1 .. Len(es)) /\ S # {}
    OBVIOUS
  <2>2. PICK f \in S : \A q \in S : f <= q
    BY <1>1, <2>1, LeastExists
  <2>3. f \in F
    <3>1. ASSUME NEW q \in DOMAIN es, q < f
          PROVE  es[q].class # es[f].class
      BY <2>2, <3>1
    <3> QED
      BY <2>2, <3>1 DEF FirstSeen
  <2> DEFINE i == Rank(F, f)
  <2>4. i \in 1 .. n /\ Nth(F, i) = f
    BY <1>1, <2>3, RankFacts, NthFacts
  <2>5. i \in 1 .. m
    BY <1>2, <1>12, <2>4, KvConstants
  <2>6. Index(es)[i].class = es[p].class /\ i \in DOMAIN Index(es)
    BY <1>5, <1>6, <1>7, <2>2, <2>4, <2>5
  <2> QED
    BY <2>6
<1> QED
  BY <1>7, <1>8, <1>9, <1>11, <1>12

-----------------------------------------------------------------------------
(* Types of the operators the actions are built from. *)

\* The levels' records and write positions, as TypeOK has them.
LevelsOK(s, pos) ==
  /\ s \in [Slots -> Seq(Record)]
  /\ pos \in [Slots -> Nat]
  /\ \A i \in Slots : pos[i] <= Len(s[i]) /\ Len(s[i]) <= Cap

\* Entry i of a layer stands for record i.
LEMMA LayerEntriesFacts ==
  ASSUME NEW l \in Layers, NEW recs \in Seq(Record)
  PROVE  /\ LayerEntries(l, recs) \in Seq(Entry)
         /\ Len(LayerEntries(l, recs)) = Len(recs)
         /\ DOMAIN LayerEntries(l, recs) = 1 .. Len(recs)
         /\ \A i \in 1 .. Len(recs) :
              /\ LayerEntries(l, recs)[i].class = KeyClass[recs[i].key]
              /\ LayerEntries(l, recs)[i].layer = l
              /\ LayerEntries(l, recs)[i].off = i
<1> DEFINE e(i) == [class |-> KeyClass[recs[i].key], layer |-> l, off |-> i]
<1>1. Len(recs) \in Nat
  OBVIOUS
<1>2. ASSUME NEW i \in 1 .. Len(recs)
      PROVE  e(i) \in Entry
  <2>1. recs[i] \in Record
    OBVIOUS
  <2>2. KeyClass[recs[i].key] \in Classes
    BY <2>1 DEF Record, Classes
  <2>3. i \in Nat \ {0}
    OBVIOUS
  <2> QED
    BY <2>2, <2>3 DEF Entry
<1>3. LayerEntries(l, recs) = [i \in 1 .. Len(recs) |-> e(i)]
  BY DEF LayerEntries
<1>4. [i \in 1 .. Len(recs) |-> e(i)] \in Seq(Entry)
  BY <1>1, <1>2, IsASeq
<1> QED
  BY <1>1, <1>3, <1>4

\* The live part of a level.
LEMMA LiveFacts ==
  ASSUME NEW s, NEW pos, LevelsOK(s, pos), NEW i \in Slots
  PROVE  /\ Live(s, pos, i) \in Seq(Record)
         /\ Len(Live(s, pos, i)) = pos[i]
         /\ \A j \in 1 .. pos[i] : Live(s, pos, i)[j] = s[i][j]
<1>1. s[i] \in Seq(Record) /\ pos[i] \in Nat /\ pos[i] <= Len(s[i]) /\ Len(s[i]) \in Nat
  BY DEF LevelsOK
<1>2. \A j \in 1 .. pos[i] : s[i][j] \in Record
  BY <1>1
<1> QED
  BY <1>1, <1>2, SubSeqProperties DEF Live

\* The entries of the levels name positions of the level files.
LEMMA SstEntriesType ==
  ASSUME NEW s, NEW pos, LevelsOK(s, pos), NEW n \in Nat
  PROVE  SstEntries(s, pos, n) \in Seq(Entry)
<1> DEFINE At(i) == IF i < n THEN LayerEntries(SstBase + i, Live(s, pos, i)) ELSE <<>>
<1>1. ASSUME NEW i \in Slots
      PROVE  At(i) \in Seq(Entry)
  <2>1. SstBase + i \in Layers
    BY DEF Layers
  <2> QED
    BY <2>1, LiveFacts, LayerEntriesFacts
<1>2. At(0) \in Seq(Entry) /\ At(1) \in Seq(Entry) /\ At(2) \in Seq(Entry)
  BY <1>1 DEF Slots, SstSlots
<1>3. At(0) \o At(1) \in Seq(Entry)
  BY <1>2, ConcatProperties
<1>4. At(0) \o At(1) \o At(2) \in Seq(Entry)
  BY <1>2, <1>3, ConcatProperties
<1> QED
  BY <1>4 DEF SstEntries

\* Compacting yields records of the file, no more than it had.
LEMMA CompactedType ==
  ASSUME NEW m \in Seq(Record)
  PROVE  Compacted(m) \in Seq(Record) /\ Len(Compacted(m)) <= Len(m)
<1> DEFINE es == LayerEntries(Main, m)  t == Index(es)
<1>1. es \in Seq(Entry) /\ Len(es) = Len(m)
       /\ \A i \in 1 .. Len(m) : es[i].off = i
       /\ DOMAIN es = 1 .. Len(m)
  <2>1. Main \in Layers
    BY DEF Layers
  <2> QED
    BY <2>1, LayerEntriesFacts
<1>2. t \in Seq(Entry) /\ Len(t) <= Len(es)
       /\ \A i \in DOMAIN t : \E p \in DOMAIN es : t[i] = es[p]
       /\ DOMAIN t = 1 .. Len(t)
  BY <1>1, IndexFacts
<1>3. \A i \in 1 .. Len(t) : m[t[i].off] \in Record
  <2> TAKE i \in 1 .. Len(t)
  <2>0. i \in DOMAIN t
    BY <1>2
  <2>1. PICK p \in 1 .. Len(m) : t[i] = es[p]
    BY <1>1, <1>2, <2>0
  <2> QED
    BY <1>1, <2>1
<1>4. [i \in 1 .. Len(t) |-> m[t[i].off]] \in Seq(Record)
  BY <1>2, <1>3, IsASeq
<1>5. Compacted(m) = [i \in 1 .. Len(t) |-> m[t[i].off]]
  BY <1>2 DEF Compacted
<1> QED
  BY <1>1, <1>2, <1>4, <1>5

\* The entries a merge rebuilds the memtable from name live records.
LEMMA MergeEntriesType ==
  ASSUME NEW s, NEW pos, LevelsOK(s, pos), NEW src \in {0, 1}
  PROVE  /\ MergeEntries(s, pos, src) \in Seq(Entry)
         /\ \A p \in DOMAIN MergeEntries(s, pos, src) :
              LET e == MergeEntries(s, pos, src)[p]
              IN  e.layer - SstBase \in Slots /\ e.off \in 1 .. pos[e.layer - SstBase]
<1> DEFINE a == LayerEntries(SstBase + src, Live(s, pos, src))
           b == LayerEntries(SstBase + src + 1, Live(s, pos, src + 1))
<1>1. src \in Slots /\ src + 1 \in Slots
  BY DEF Slots, SstSlots
<1>2. SstBase + src \in Layers /\ SstBase + src + 1 \in Layers
  BY <1>1 DEF Layers, SstBase
<1>3. /\ a \in Seq(Entry) /\ Len(a) = pos[src]
      /\ \A i \in 1 .. pos[src] : a[i].layer = SstBase + src /\ a[i].off = i
  <2>1. Live(s, pos, src) \in Seq(Record) /\ Len(Live(s, pos, src)) = pos[src]
    BY <1>1, LiveFacts
  <2> QED
    BY <1>2, <2>1, LayerEntriesFacts
<1>4. /\ b \in Seq(Entry) /\ Len(b) = pos[src + 1]
      /\ \A i \in 1 .. pos[src + 1] : b[i].layer = SstBase + src + 1 /\ b[i].off = i
  <2>1. Live(s, pos, src + 1) \in Seq(Record) /\ Len(Live(s, pos, src + 1)) = pos[src + 1]
    BY <1>1, LiveFacts
  <2> QED
    BY <1>2, <2>1, LayerEntriesFacts
<1>5. a \o b \in Seq(Entry)
  BY <1>3, <1>4, ConcatProperties
<1>6. ASSUME NEW p \in 1 .. Len(a) + Len(b)
      PROVE  LET e == (a \o b)[p]
             IN  e.layer - SstBase \in Slots /\ e.off \in 1 .. pos[e.layer - SstBase]
  <2>1. CASE p <= Len(a)
    <3>1. (a \o b)[p] = a[p] /\ p \in 1 .. pos[src]
      BY <1>3, <1>4, <2>1, ConcatProperties
    <3> QED
      BY <1>1, <1>3, <3>1 DEF SstBase
  <2>2. CASE ~(p <= Len(a))
    <3>1. (a \o b)[p] = b[p - Len(a)] /\ p - Len(a) \in 1 .. pos[src + 1]
      BY <1>3, <1>4, <2>2, ConcatProperties
    <3> QED
      BY <1>1, <1>4, <3>1 DEF SstBase
  <2> QED
    BY <2>1, <2>2
<1>7. DOMAIN (a \o b) = 1 .. Len(a) + Len(b)
  BY <1>3, <1>4, ConcatProperties
<1> QED
  BY <1>5, <1>6, <1>7 DEF MergeEntries

\* A merge leaves well-formed levels.
LEMMA MergeType ==
  ASSUME NEW s, NEW pos, LevelsOK(s, pos), NEW src \in {0, 1}
  PROVE  LevelsOK(MergeSst(s, pos, src), MergePos(s, pos, src))
<1> DEFINE es == MergeEntries(s, pos, src)
           t == Index(es)
           n == IF Len(t) < Cap THEN Len(t) ELSE Cap
           r == MergedRecords(s, pos, src)
<1>1. src \in Slots /\ src + 1 \in Slots /\ src # src + 1
  BY DEF Slots, SstSlots
<1>2. es \in Seq(Entry)
       /\ \A p \in DOMAIN es : es[p].layer - SstBase \in Slots
            /\ es[p].off \in 1 .. pos[es[p].layer - SstBase]
  BY MergeEntriesType
<1>3. t \in Seq(Entry) /\ DOMAIN t = 1 .. Len(t) /\ Len(t) \in Nat
       /\ \A i \in DOMAIN t : \E p \in DOMAIN es : t[i] = es[p]
  BY <1>2, IndexFacts
<1>4. n \in Nat /\ n <= Cap /\ n <= Len(t)
  BY <1>3, KvConstants
<1>5. ASSUME NEW i \in 1 .. n
      PROVE  s[t[i].layer - SstBase][t[i].off] \in Record
  <2>1. i \in DOMAIN t
    BY <1>3, <1>4
  <2>2. PICK p \in DOMAIN es : t[i] = es[p]
    BY <1>3, <2>1
  <2> DEFINE l == t[i].layer - SstBase
  <2>3. l \in Slots /\ t[i].off \in 1 .. pos[l]
    BY <1>2, <2>2
  <2>4. s[l] \in Seq(Record) /\ pos[l] \in Nat /\ pos[l] <= Len(s[l]) /\ Len(s[l]) \in Nat
    BY <2>3 DEF LevelsOK
  <2>5. t[i].off \in 1 .. Len(s[l])
    BY <2>3, <2>4
  <2> QED
    BY <2>4, <2>5
<1>6. r = [i \in 1 .. n |-> s[t[i].layer - SstBase][t[i].off]]
  BY DEF MergedRecords
<1>7. r \in Seq(Record) /\ Len(r) = n
  <2>1. [i \in 1 .. n |-> s[t[i].layer - SstBase][t[i].off]] \in Seq(Record)
    BY <1>4, <1>5, IsASeq
  <2> QED
    BY <1>4, <1>6, <2>1
<1>8. <<>> \in Seq(Record) /\ Len(<<>>) = 0 /\ Cap \in Nat
  BY KvConstants
<1>9. MergeSst(s, pos, src) \in [Slots -> Seq(Record)]
  BY <1>1, <1>7, <1>8 DEF MergeSst, LevelsOK
<1>10. MergePos(s, pos, src) \in [Slots -> Nat]
  BY <1>1, <1>4, <1>7 DEF MergePos, LevelsOK
<1>11. ASSUME NEW i \in Slots
       PROVE  /\ MergePos(s, pos, src)[i] <= Len(MergeSst(s, pos, src)[i])
              /\ Len(MergeSst(s, pos, src)[i]) <= Cap
  <2>1. CASE i = src
    <3>1. MergePos(s, pos, src)[i] = 0 /\ MergeSst(s, pos, src)[i] = <<>>
      BY <1>1, <2>1 DEF MergePos, MergeSst, LevelsOK
    <3> QED
      BY <1>8, <3>1
  <2>2. CASE i = src + 1
    <3>1. MergePos(s, pos, src)[i] = Len(r) /\ MergeSst(s, pos, src)[i] = r
      BY <1>1, <2>2 DEF MergePos, MergeSst, LevelsOK
    <3> QED
      BY <1>4, <1>7, <3>1
  <2>3. CASE i # src /\ i # src + 1
    BY <1>1, <2>3 DEF MergePos, MergeSst, LevelsOK
  <2> QED
    BY <2>1, <2>2, <2>3
<1> QED
  BY <1>9, <1>10, <1>11 DEF LevelsOK

\* Putting an entry keeps the table within its capacity.
LEMMA MtPutType ==
  ASSUME NEW t \in Seq(Entry), Len(t) <= MtCap, NEW e \in Entry
  PROVE  MtPut(t, e) \in Seq(Entry) /\ Len(MtPut(t, e)) <= MtCap
<1> DEFINE u == [i \in 1 .. Len(t) |-> IF t[i].class = e.class THEN e ELSE t[i]]
<1>1. u \in Seq(Entry) /\ Len(u) = Len(t)
  <2>1. \A i \in 1 .. Len(t) : (IF t[i].class = e.class THEN e ELSE t[i]) \in Entry
    OBVIOUS
  <2>2. Len(t) \in Nat
    OBVIOUS
  <2>3. u \in Seq(Entry)
    BY <2>1, <2>2, IsASeq
  <2> QED
    BY <2>2, <2>3
<1>2. Append(t, e) \in Seq(Entry) /\ Len(Append(t, e)) = Len(t) + 1 /\ Len(t) \in Nat
  OBVIOUS
<1>3. DOMAIN t = 1 .. Len(t)
  OBVIOUS
<1>4. CASE \E i \in DOMAIN t : t[i].class = e.class
  <2>1. MtPut(t, e) = u
    BY <1>3, <1>4 DEF MtPut
  <2> QED
    BY <1>1, <2>1
<1>5. CASE ~(\E i \in DOMAIN t : t[i].class = e.class) /\ Len(t) < MtCap
  <2>1. MtPut(t, e) = Append(t, e)
    BY <1>5 DEF MtPut
  <2> QED
    BY <1>2, <1>5, <2>1, KvConstants
<1>6. CASE ~(\E i \in DOMAIN t : t[i].class = e.class) /\ ~(Len(t) < MtCap)
  BY <1>6 DEF MtPut
<1> QED
  BY <1>4, <1>5, <1>6

\* What a scan finds is an entry of a file.
LEMMA LatestFoundType ==
  ASSUME NEW k \in Keys, NEW c, ScanOrder \in Seq(Entry), Found(k, c) # {}
  PROVE  LatestFound(k, c) \in Entry
<1>1. Found(k, c) \in SUBSET (1 .. Len(ScanOrder)) /\ Len(ScanOrder) \in Nat
  BY DEF Found
<1>2. \E p \in Found(k, c) : \A q \in Found(k, c) : q <= p
  BY <1>1, GreatestExists
<1>3. PICK p \in Found(k, c) : LatestFound(k, c) = ScanOrder[p]
  BY <1>2 DEF LatestFound
<1> QED
  BY <1>1, <1>3

-----------------------------------------------------------------------------
(* Type correctness. *)

\* The parts of a state that rebuilding the memtable reads, typed.
LEMMA RebuildTypes ==
  ASSUME TypeOK
  PROVE  /\ LevelsOK(sst, sstPos)
         /\ LayerEntries(Main, main) \in Seq(Entry)
         /\ LayerEntries(Wal, wal) \in Seq(Entry)
         /\ SstEntries(sst, sstPos, sstCount) \in Seq(Entry)
         /\ ScanOrder \in Seq(Entry)
<1>1. LevelsOK(sst, sstPos)
  BY DEF TypeOK, LevelsOK
<1>2. Main \in Layers /\ Wal \in Layers
  BY DEF Layers
<1>3. LayerEntries(Main, main) \in Seq(Entry) /\ LayerEntries(Wal, wal) \in Seq(Entry)
  BY <1>2, LayerEntriesFacts DEF TypeOK
<1>4. SstEntries(sst, sstPos, sstCount) \in Seq(Entry)
  <2>1. sstCount \in Nat
    BY DEF TypeOK, SstSlots
  <2> QED
    BY <1>1, <2>1, SstEntriesType
<1>5. SstEntries(sst, sstPos, sstCount) \o LayerEntries(Main, main) \in Seq(Entry)
  BY <1>3, <1>4, ConcatProperties
<1>6. ScanOrder \in Seq(Entry)
  BY <1>3, <1>5, ConcatProperties DEF ScanOrder
<1> QED
  BY <1>1, <1>3, <1>4, <1>6

\* A flush that has copied n records, typed.
LEMMA CopyTypes ==
  ASSUME TypeOK, NEW n \in Nat, n <= Len(wal)
  PROVE  /\ CopiedMain(n) \in Seq(Record) /\ CopiedGap(n) \in Nat
         /\ Len(CopiedMain(n)) + CopiedGap(n) = Len(main) + gap + n
<1>1. /\ wal \in Seq(Record) /\ Len(wal) \in Nat /\ gap \in Nat
      /\ main \in Seq(Record) /\ Len(main) \in Nat
  BY DEF TypeOK
<1> DEFINE v == SubSeq(wal, 1, n)
<1>2. v \in Seq(Record) /\ Len(v) = n
  <2>1. \A i \in 1 .. n : wal[i] \in Record
    BY <1>1
  <2> QED
    BY <1>1, <2>1, SubSeqProperties
<1>3. CASE gap = 0
  <2> HIDE DEF v
  <2>1. main \o v \in Seq(Record) /\ Len(main \o v) = Len(main) + n
    BY <1>1, <1>2, ConcatProperties
  <2>2. CopiedMain(n) = main \o v /\ CopiedGap(n) = 0
    BY <1>3 DEF CopiedMain, CopiedGap, v
  <2> QED
    BY <1>1, <1>3, <2>1, <2>2
<1>4. CASE gap # 0
  BY <1>1, <1>4 DEF CopiedMain, CopiedGap
<1> QED
  BY <1>3, <1>4

\* Where the copies of a flush end.
LEMMA RoomTypes ==
  ASSUME TypeOK
  PROVE  /\ FlushCount \in Nat /\ FlushCount <= Len(wal) /\ Len(wal) \in Nat
         /\ Room \in Int /\ Len(main) + gap + Room = Cap
         /\ ~Overrun => Room \in Nat
<1>1. /\ Len(wal) \in Nat /\ gap \in Nat /\ Len(main) \in Nat /\ Cap \in Nat
  BY KvConstants DEF TypeOK
<1> QED
  BY <1>1 DEF FlushCount, Room, Overrun

\* A flush that overruns the main file leaves its write_pos behind the end.
LEMMA OverrunTypes ==
  ASSUME TypeOK, FlushOverrun
  PROVE  /\ Room + 1 \in Nat /\ Room + 1 <= Len(wal)
         /\ main' \in Seq(Record) /\ gap' \in Nat /\ Len(main') + gap' = Cap + 1
         /\ Overrun'
<1>1. ~Overrun /\ ~FlushInBounds /\ main' = CopiedMain(Room + 1) /\ gap' = CopiedGap(Room + 1)
  BY DEF FlushOverrun
<1>2. Room \in Nat /\ Room + 1 <= Len(wal) /\ Len(main) + gap + Room = Cap
  BY <1>1, RoomTypes DEF FlushInBounds
<1> PICK n \in Nat : n = Room + 1
  BY <1>2
<1>3. /\ CopiedMain(n) \in Seq(Record) /\ CopiedGap(n) \in Nat
      /\ Len(CopiedMain(n)) + CopiedGap(n) = Len(main) + gap + n
  BY <1>2, CopyTypes
<1>4. Len(main) \in Nat /\ gap \in Nat /\ Cap \in Nat
  BY KvConstants DEF TypeOK
<1>5. main' \in Seq(Record) /\ gap' \in Nat /\ Len(main') + gap' = Cap + 1
  <2>1. main' = CopiedMain(n) /\ gap' = CopiedGap(n)
    BY <1>1
  <2> QED
    BY <1>2, <1>3, <1>4, <2>1
<1>6. Overrun'
  BY <1>4, <1>5 DEF Overrun
<1> QED
  BY <1>2, <1>5, <1>6

\* The results of the flush, typed.
LEMMA FlushTypes ==
  ASSUME TypeOK, FlushInBounds
  PROVE  /\ FlushedMain \in Seq(Record) /\ Len(FlushedMain) <= Cap
         /\ FlushedGap \in Nat /\ Len(FlushedMain) + FlushedGap <= Cap
         /\ FlushedWal \in Seq(Record) /\ Len(FlushedWal) <= WalCap
         /\ LayerEntries(Main, FlushedMain) \in Seq(Entry)
         /\ CompactedMain \in Seq(Record) /\ Len(CompactedMain) <= Cap
         /\ Len(CompactedMain) <= Len(FlushedMain)
         /\ LayerEntries(Main, CompactedMain) \in Seq(Entry)
<1>1. FlushCount \in Nat /\ FlushCount <= Len(wal) /\ FlushCount <= Room
      /\ Room \in Int /\ Len(main) + gap + Room = Cap
  BY RoomTypes DEF FlushInBounds
<1>2. /\ FlushedMain \in Seq(Record) /\ FlushedGap \in Nat
      /\ Len(FlushedMain) + FlushedGap = Len(main) + gap + FlushCount
  BY <1>1, CopyTypes DEF FlushedMain, FlushedGap
<1>3. Len(main) \in Nat /\ gap \in Nat /\ Len(FlushedMain) \in Nat
  BY <1>2 DEF TypeOK
<1>4. Len(FlushedMain) + FlushedGap <= Cap /\ Len(FlushedMain) <= Cap
  BY <1>1, <1>2, <1>3, KvConstants
<1>5. FlushedWal \in Seq(Record) /\ Len(FlushedWal) <= WalCap
  BY KvConstants DEF FlushedWal, TypeOK
<1>6. CompactedMain \in Seq(Record) /\ Len(CompactedMain) <= Len(FlushedMain)
  BY <1>2, CompactedType DEF CompactedMain
<1>7. Len(CompactedMain) <= Cap
  <2>1. Len(CompactedMain) \in Nat /\ Len(FlushedMain) \in Nat /\ Cap \in Nat
    BY <1>2, <1>6, KvConstants
  <2> QED
    BY <1>4, <1>6, <2>1
<1>8. Main \in Layers
  BY DEF Layers
<1> QED
  BY <1>2, <1>4, <1>5, <1>6, <1>7, <1>8, LayerEntriesFacts

\* Copying the compacted main file over the start of a slot.
LEMMA FreezeTypes ==
  ASSUME TypeOK, FlushInBounds, NEW s, NEW pos, LevelsOK(s, pos), NEW slot \in Slots,
         NEW t \in Seq(Entry), Len(t) <= MtCap, FreezeTo(slot, s, pos, t)
  PROVE  /\ wal' \in Seq(Record) /\ Len(wal') <= WalCap
         /\ main' \in Seq(Record) /\ Len(main') <= Cap
         /\ LevelsOK(sst', sstPos')
         /\ sstCount' \in 0 .. SstSlots
         /\ mapped' \subseteq Slots
         /\ mt' \in Seq(Entry) /\ Len(mt') <= MtCap
<1> DEFINE m == CompactedMain  o == s[slot]  f == m \o SubSeq(o, Len(m) + 1, Len(o))
<1>1. m \in Seq(Record) /\ Len(m) <= Cap /\ Len(m) \in Nat
  BY FlushTypes
<1>2. o \in Seq(Record) /\ Len(o) <= Cap /\ Len(o) \in Nat
  BY DEF LevelsOK
<1>3. SubSeq(o, Len(m) + 1, Len(o)) \in Seq(Record)
       /\ Len(SubSeq(o, Len(m) + 1, Len(o))) = IF Len(m) + 1 <= Len(o) THEN Len(o) - Len(m) ELSE 0
  <2>1. \A i \in Len(m) + 1 .. Len(o) : o[i] \in Record
    BY <1>1, <1>2
  <2> QED
    BY <1>1, <1>2, <2>1, SubSeqProperties
<1>4. f \in Seq(Record) /\ Len(m) <= Len(f) /\ Len(f) <= Cap
  <2>1. f \in Seq(Record) /\ Len(f) = Len(m) + Len(SubSeq(o, Len(m) + 1, Len(o)))
    BY <1>1, <1>3, ConcatProperties
  <2> QED
    BY <1>1, <1>2, <1>3, <2>1, KvConstants
<1>5. sst' = [s EXCEPT ![slot] = f] /\ sstPos' = [pos EXCEPT ![slot] = Len(m)]
  BY DEF FreezeTo, LevelsOK
<1>6. LevelsOK(sst', sstPos')
  <2>1. sst' \in [Slots -> Seq(Record)] /\ sstPos' \in [Slots -> Nat]
    BY <1>1, <1>4, <1>5 DEF LevelsOK
  <2>2. ASSUME NEW i \in Slots
        PROVE  sstPos'[i] <= Len(sst'[i]) /\ Len(sst'[i]) <= Cap
    <3>1. CASE i = slot
      BY <1>4, <1>5, <3>1 DEF LevelsOK
    <3>2. CASE i # slot
      BY <1>5, <3>2 DEF LevelsOK
    <3> QED
      BY <3>1, <3>2
  <2> QED
    BY <2>1, <2>2 DEF LevelsOK
<1>7. sstCount' \in 0 .. SstSlots /\ sstCount' \in Nat /\ mapped' \subseteq Slots
  BY DEF FreezeTo, Slots, SstSlots, TypeOK
<1>8. SstEntries(sst', sstPos', sstCount') \in Seq(Entry)
  BY <1>6, <1>7, SstEntriesType
<1>9. /\ Index(SstEntries(sst', sstPos', sstCount')) \in Seq(Entry)
      /\ Len(Index(SstEntries(sst', sstPos', sstCount'))) <= MtCap
  BY <1>8, IndexFacts
<1>10. mt' \in Seq(Entry) /\ Len(mt') <= MtCap
  BY <1>9 DEF FreezeTo
<1>11. wal' \in Seq(Record) /\ Len(wal') <= WalCap /\ main' \in Seq(Record) /\ Len(main') <= Cap
  <2>1. wal' \in {<<>>, FlushedWal} /\ main' = <<>>
    BY DEF FreezeTo
  <2>2. <<>> \in Seq(Record) /\ Len(<<>>) = 0 /\ 0 <= WalCap /\ 0 <= Cap
    BY KvConstants
  <2> QED
    BY <2>1, <2>2, FlushTypes
<1> QED
  BY <1>6, <1>7, <1>10, <1>11

\* Every step keeps the types.
LEMMA TypeStep == TypeOK /\ [Next]_vars => TypeOK'
<1> SUFFICES ASSUME TypeOK, [Next]_vars
             PROVE  TypeOK'
  OBVIOUS
<1>0. /\ LevelsOK(sst, sstPos)
      /\ LayerEntries(Main, main) \in Seq(Entry)
      /\ LayerEntries(Wal, wal) \in Seq(Entry)
      /\ SstEntries(sst, sstPos, sstCount) \in Seq(Entry)
      /\ ScanOrder \in Seq(Entry)
  BY RebuildTypes
<1>1. CASE Open
  <2> DEFINE es == LayerEntries(Main, main) \o LayerEntries(Wal, wal)
                     \o SstEntries(sst, sstPos, sstCount)
  <2>1. es \in Seq(Entry)
    BY <1>0, ConcatProperties
  <2>2. Index(es) \in Seq(Entry) /\ Len(Index(es)) <= MtCap
    BY <2>1, IndexFacts
  <2>3. 0 .. sstCount - 1 \subseteq Slots
    BY DEF TypeOK, Slots, SstSlots
  <2> QED
    BY <1>1, <2>2, <2>3 DEF Open, TypeOK, files
<1>2. CASE Close
  <2>1. <<>> \in Seq(Entry) /\ Len(<<>>) <= MtCap
    BY KvConstants
  <2> QED
    BY <1>2, <2>1 DEF Close, TypeOK, files
<1>3. ASSUME NEW k \in Keys, NEW v \in Vals, Put(k, v)
      PROVE  TypeOK'
  <2> DEFINE e == [class |-> KeyClass[k], layer |-> Wal, off |-> Len(wal) + 1]
             r == [key |-> k, val |-> v]
  <2>1. Len(wal) \in Nat /\ r \in Record
    BY DEF TypeOK, Record
  <2>2. e \in Entry
    BY <2>1 DEF Entry, Layers, Classes
  <2>3. MtPut(mt, e) \in Seq(Entry) /\ Len(MtPut(mt, e)) <= MtCap
    BY <2>2, MtPutType DEF TypeOK
  <2>4. Append(wal, r) \in Seq(Record) /\ Len(Append(wal, r)) <= WalCap
    <3>1. Append(wal, r) \in Seq(Record) /\ Len(Append(wal, r)) = Len(wal) + 1
      BY <2>1 DEF TypeOK
    <3> QED
      BY <1>3, <2>1, <3>1, KvConstants DEF Put
  <2> QED
    BY <1>3, <2>3, <2>4 DEF Put, TypeOK
<1>4. CASE PutFull
  BY <1>4 DEF PutFull, TypeOK, vars
<1>5. ASSUME NEW k \in Keys, NEW c \in OutCaps, Get(k, c)
      PROVE  TypeOK'
  <2>1. mt' \in Seq(Entry) /\ Len(mt') <= MtCap
    <3>1. CASE MtHits(k, c) = {} /\ Found(k, c) # {}
      <4>1. LatestFound(k, c) \in Entry
        BY <1>0, <3>1, LatestFoundType
      <4>2. mt' = MtPut(mt, LatestFound(k, c))
        BY <1>5, <3>1 DEF Get
      <4> QED
        BY <4>1, <4>2, MtPutType DEF TypeOK
    <3>2. CASE ~(MtHits(k, c) = {} /\ Found(k, c) # {})
      <4>1. mt' = mt
        BY <1>5, <3>2 DEF Get
      <4> QED
        BY <4>1 DEF TypeOK
    <3> QED
      BY <3>1, <3>2
  <2> QED
    BY <1>5, <2>1 DEF Get, TypeOK, files
<1>6. CASE WalFlush
  <2>1. FlushInBounds
    BY <1>6 DEF WalFlush
  <2> DEFINE es == LayerEntries(Main, FlushedMain) \o SstEntries(sst, sstPos, sstCount)
  <2>2. es \in Seq(Entry)
    BY <1>0, <2>1, FlushTypes, ConcatProperties
  <2>3. Index(es) \in Seq(Entry) /\ Len(Index(es)) <= MtCap
    BY <2>2, IndexFacts
  <2>4. mt' \in Seq(Entry) /\ Len(mt') <= MtCap
    BY <1>6, <2>3 DEF WalFlush, TypeOK
  <2>5. main' \in Seq(Record) /\ gap' \in Nat /\ Len(main') + gap' <= Cap + 1
    BY <1>6, <2>1, FlushTypes, KvConstants DEF WalFlush
  <2> QED
    BY <1>6, <2>1, <2>4, <2>5, FlushTypes DEF WalFlush, TypeOK
<1>7. CASE FlushOverrun
  <2>1. main' \in Seq(Record) /\ gap' \in Nat /\ Len(main') + gap' <= Cap + 1
    BY <1>7, OverrunTypes, KvConstants
  <2> QED
    BY <1>7, <2>1 DEF FlushOverrun, TypeOK
<1>8. CASE CompactStopsEarly
  <2>1. FlushInBounds
    BY <1>8 DEF CompactStopsEarly
  <2>2. mt' \in Seq(Entry) /\ Len(mt') <= MtCap
    BY <1>8, <2>1, FlushTypes, IndexFacts DEF CompactStopsEarly
  <2>3. main' \in Seq(Record) /\ gap' \in Nat /\ Len(main') + gap' <= Cap + 1
    BY <1>8, <2>1, FlushTypes, KvConstants DEF CompactStopsEarly
  <2> QED
    BY <1>8, <2>1, <2>2, <2>3, FlushTypes DEF CompactStopsEarly, TypeOK
<1> DEFINE Started == /\ FlushInBounds /\ gen' \in 0 .. MaxGen /\ isOpen' \in BOOLEAN
                      /\ gap' = 0
<1>9. Compacting => Started
  BY KvConstants DEF Compacting, TypeOK
<1>a. ASSUME gap' = 0, main' \in Seq(Record), Len(main') <= Cap
      PROVE  gap' \in Nat /\ Len(main') + gap' <= Cap + 1
  BY <1>a, KvConstants
<1>b. CASE CompactNothing
  <2>1. Started
    BY <1>9, <1>b DEF CompactNothing
  <2>2. mt' \in Seq(Entry) /\ Len(mt') <= MtCap
    BY <1>0, <1>b, IndexFacts DEF CompactNothing
  <2>3. /\ main' \in Seq(Record) /\ Len(main') <= Cap
        /\ wal' \in Seq(Record) /\ Len(wal') <= WalCap
    <3>1. <<>> \in Seq(Record) /\ Len(<<>>) = 0 /\ 0 <= WalCap /\ 0 <= Cap
      BY KvConstants
    <3> QED
      BY <1>b, <3>1 DEF CompactNothing
  <2> QED
    BY <1>a, <1>b, <2>1, <2>2, <2>3 DEF CompactNothing, TypeOK
<1>10. CASE CompactMmapFails
  <2>1. Started
    BY <1>9, <1>10 DEF CompactMmapFails
  <2>2. mt' \in Seq(Entry) /\ Len(mt') <= MtCap
    BY <1>10, <2>1, FlushTypes, IndexFacts DEF CompactMmapFails
  <2> QED
    BY <1>a, <1>10, <2>1, <2>2, FlushTypes DEF CompactMmapFails, TypeOK
<1>11. CASE CompactToNewLevel
  <2>1. Started
    BY <1>9, <1>11 DEF CompactToNewLevel
  <2> DEFINE t == Index(LayerEntries(Main, CompactedMain))
  <2>2. t \in Seq(Entry) /\ Len(t) <= MtCap
    BY <2>1, FlushTypes, IndexFacts
  <2>3. sstCount \in Slots
    BY <1>11 DEF CompactToNewLevel, TypeOK, Slots, SstSlots
  <2>4. FreezeTo(sstCount, sst, sstPos, t)
    BY <1>11 DEF CompactToNewLevel
  <2> QED
    BY <1>0, <1>a, <2>1, <2>2, <2>3, <2>4, FreezeTypes DEF TypeOK, LevelsOK
<1>12. CASE CompactToFullLevels
  <2>1. Started
    BY <1>9, <1>12 DEF CompactToFullLevels
  <2> DEFINE s1 == MergeSst(sst, sstPos, 0)  p1 == MergePos(sst, sstPos, 0)
             s2 == MergeSst(s1, p1, 1)  p2 == MergePos(s1, p1, 1)
             t == Index(MergeEntries(s1, p1, 1))
  <2>2. LevelsOK(s1, p1)
    BY <1>0, MergeType
  <2>3. LevelsOK(s2, p2)
    BY <2>2, MergeType
  <2>4. t \in Seq(Entry) /\ Len(t) <= MtCap
    BY <2>2, MergeEntriesType, IndexFacts
  <2>5. FreezeTo(2, s2, p2, t) /\ 2 \in Slots
    BY <1>12 DEF CompactToFullLevels, Slots, SstSlots
  <2> HIDE DEF s1, p1, s2, p2, t
  <2> QED
    BY <1>a, <2>1, <2>3, <2>4, <2>5, FreezeTypes DEF TypeOK, LevelsOK
<1>13. ASSUME NEW src \in {0, 1}, NEW written \in BOOLEAN, CompactMergeFails(src, written)
       PROVE  TypeOK'
  <2>1. Started
    BY <1>9, <1>13 DEF CompactMergeFails
  <2> DEFINE s1 == IF src = 0 THEN sst ELSE MergeSst(sst, sstPos, 0)
             p1 == IF src = 0 THEN sstPos ELSE MergePos(sst, sstPos, 0)
             t == Index(MergeEntries(s1, p1, src))
  <2>2. LevelsOK(s1, p1)
    BY <1>0, MergeType
  <2>3. LevelsOK(MergeSst(s1, p1, src), MergePos(s1, p1, src))
    BY <2>2, MergeType
  <2>4. t \in Seq(Entry) /\ Len(t) <= MtCap
    BY <2>2, MergeEntriesType, IndexFacts
  <2>5. /\ sst' = IF written THEN MergeSst(s1, p1, src) ELSE s1
        /\ sstPos' = IF written THEN MergePos(s1, p1, src) ELSE p1
        /\ mt' = t
        /\ main' = CompactedMain /\ wal' = FlushedWal
        /\ UNCHANGED <<sstCount, mapped>>
    BY <1>13 DEF CompactMergeFails
  <2> HIDE DEF s1, p1, t
  <2>6. LevelsOK(sst', sstPos')
    BY <2>2, <2>3, <2>5
  <2> QED
    BY <1>a, <2>1, <2>4, <2>5, <2>6, FlushTypes DEF TypeOK, LevelsOK
<1>14. CASE UNCHANGED vars
  BY <1>14 DEF TypeOK, vars
<1> QED
  BY <1>1, <1>2, <1>3, <1>4, <1>5, <1>6, <1>7, <1>8, <1>b, <1>10, <1>11, <1>12,
     <1>13, <1>14 DEF Next

LEMMA InitTypes == Init => TypeOK
<1> SUFFICES ASSUME Init PROVE TypeOK
  OBVIOUS
<1>1. <<>> \in Seq(Record) /\ <<>> \in Seq(Entry) /\ Len(<<>>) = 0
  OBVIOUS
<1>2. 0 <= WalCap /\ 0 <= Cap /\ 0 <= MtCap /\ 0 \in 0 .. MaxGen /\ 0 \in 0 .. SstSlots
  BY KvConstants DEF SstSlots
<1>a. gap \in Nat /\ Len(main) + gap <= Cap + 1
  BY KvConstants DEF Init
<1>3. /\ sst \in [Slots -> Seq(Record)] /\ sstPos \in [Slots -> Nat]
      /\ \A i \in Slots : sstPos[i] <= Len(sst[i]) /\ Len(sst[i]) <= Cap
  BY <1>1, <1>2 DEF Init
<1>4. isOpen \in BOOLEAN /\ mapped \subseteq Slots
  BY DEF Init
<1> QED
  BY <1>1, <1>2, <1>a, <1>3, <1>4 DEF Init, TypeOK

\* Records, headers and memtable keep their types and capacities in every state
\* until a flush overruns the main file, which ends the behaviour; the overrun
\* itself leaves only the main file's write position past the end of its file,
\* by one record.
THEOREM TypeCorrect == Spec => []TypeOK
BY InitTypes, TypeStep, PTL DEF Spec

-----------------------------------------------------------------------------
(* Entries that name the log *)

\* If e names the log w, it names a record of its class in it.
Sound(e, w) ==
  e.layer = Wal => e.off \in 1 .. Len(w) /\ KeyClass[w[e.off].key] = e.class

AllSound(es, w) == \A i \in 1 .. Len(es) : Sound(es[i], w)

LEMMA LayerNumbers ==
  Main # Wal /\ Main \in Layers /\ Wal \in Layers /\ \A i \in Slots : SstBase + i # Wal
BY DEF Main, Wal, SstBase, Layers, Slots

LEMMA LayerSound ==
  ASSUME NEW l \in Layers, NEW recs \in Seq(Record), NEW w, l = Wal => recs = w
  PROVE  AllSound(LayerEntries(l, recs), w)
<1>1. Len(LayerEntries(l, recs)) = Len(recs)
      /\ \A i \in 1 .. Len(recs) :
           /\ LayerEntries(l, recs)[i].class = KeyClass[recs[i].key]
           /\ LayerEntries(l, recs)[i].layer = l
           /\ LayerEntries(l, recs)[i].off = i
  BY LayerEntriesFacts
<1> QED
  BY <1>1 DEF AllSound, Sound

LEMMA ConcatSound ==
  ASSUME NEW a \in Seq(Entry), NEW b \in Seq(Entry), NEW w, AllSound(a, w), AllSound(b, w)
  PROVE  a \o b \in Seq(Entry) /\ AllSound(a \o b, w)
<1>1. /\ a \o b \in Seq(Entry) /\ Len(a \o b) = Len(a) + Len(b)
      /\ Len(a) \in Nat /\ Len(b) \in Nat
      /\ \A i \in 1 .. Len(a) + Len(b) :
           (a \o b)[i] = IF i <= Len(a) THEN a[i] ELSE b[i - Len(a)]
  BY ConcatProperties
<1>2. ASSUME NEW i \in 1 .. Len(a) + Len(b)
      PROVE  Sound((a \o b)[i], w)
  <2>1. CASE i <= Len(a)
    BY <1>1, <2>1 DEF AllSound
  <2>2. CASE ~(i <= Len(a))
    <3>1. i - Len(a) \in 1 .. Len(b)
      BY <1>1, <2>2
    <3> QED
      BY <1>1, <2>2, <3>1 DEF AllSound
  <2> QED
    BY <2>1, <2>2
<1> QED
  BY <1>1, <1>2 DEF AllSound

LEMMA SstSound ==
  ASSUME NEW s, NEW pos, LevelsOK(s, pos), NEW n \in Nat, NEW w
  PROVE  SstEntries(s, pos, n) \in Seq(Entry) /\ AllSound(SstEntries(s, pos, n), w)
<1> DEFINE At(i) == IF i < n THEN LayerEntries(SstBase + i, Live(s, pos, i)) ELSE <<>>
<1>1. ASSUME NEW i \in Slots
      PROVE  At(i) \in Seq(Entry) /\ AllSound(At(i), w)
  <2>1. SstBase + i \in Layers /\ SstBase + i # Wal
    BY LayerNumbers DEF Layers
  <2>2. Live(s, pos, i) \in Seq(Record)
    BY LiveFacts
  <2>3. /\ LayerEntries(SstBase + i, Live(s, pos, i)) \in Seq(Entry)
        /\ AllSound(LayerEntries(SstBase + i, Live(s, pos, i)), w)
    BY <2>1, <2>2, LayerEntriesFacts, LayerSound
  <2>4. <<>> \in Seq(Entry) /\ AllSound(<<>>, w)
    BY DEF AllSound
  <2> QED
    BY <2>3, <2>4
<1>2. 0 \in Slots /\ 1 \in Slots /\ 2 \in Slots
  BY DEF Slots, SstSlots
<1>3. SstEntries(s, pos, n) = At(0) \o At(1) \o At(2)
  BY DEF SstEntries
<1> HIDE DEF At
<1>4. At(0) \o At(1) \in Seq(Entry) /\ AllSound(At(0) \o At(1), w)
  BY <1>1, <1>2, ConcatSound
<1>5. At(0) \o At(1) \o At(2) \in Seq(Entry) /\ AllSound(At(0) \o At(1) \o At(2), w)
  BY <1>1, <1>2, <1>4, ConcatSound
<1> QED
  BY <1>3, <1>5

LEMMA IndexSound ==
  ASSUME NEW es \in Seq(Entry), NEW w, AllSound(es, w)
  PROVE  AllSound(Index(es), w)
<1>1. /\ Index(es) \in Seq(Entry)
      /\ \A i \in DOMAIN Index(es) : \E p \in DOMAIN es : Index(es)[i] = es[p]
  BY IndexFacts
<1>2. DOMAIN Index(es) = 1 .. Len(Index(es)) /\ DOMAIN es = 1 .. Len(es)
  BY <1>1
<1> QED
  BY <1>1, <1>2 DEF AllSound

LEMMA MtPutSound ==
  ASSUME NEW t \in Seq(Entry), NEW e \in Entry, NEW w, AllSound(t, w), Sound(e, w)
  PROVE  AllSound(MtPut(t, e), w)
<1>1. Len(t) \in Nat /\ DOMAIN t = 1 .. Len(t)
  OBVIOUS
<1>2. CASE \E i \in DOMAIN t : t[i].class = e.class
  <2> DEFINE u == [i \in 1 .. Len(t) |-> IF t[i].class = e.class THEN e ELSE t[i]]
  <2>1. MtPut(t, e) = u
    BY <1>1, <1>2 DEF MtPut
  <2>2. Len(u) = Len(t) /\ \A i \in 1 .. Len(t) : u[i] \in {e, t[i]}
    BY <1>1
  <2> QED
    BY <2>1, <2>2 DEF AllSound
<1>3. CASE ~(\E i \in DOMAIN t : t[i].class = e.class) /\ Len(t) < MtCap
  <2>1. MtPut(t, e) = Append(t, e)
    BY <1>3 DEF MtPut
  <2>2. /\ Len(Append(t, e)) = Len(t) + 1
        /\ \A i \in 1 .. Len(t) + 1 : Append(t, e)[i] \in {e} \cup {t[j] : j \in 1 .. Len(t)}
    OBVIOUS
  <2> QED
    BY <2>1, <2>2 DEF AllSound
<1>4. CASE ~(\E i \in DOMAIN t : t[i].class = e.class) /\ ~(Len(t) < MtCap)
  BY <1>4 DEF MtPut
<1> QED
  BY <1>2, <1>3, <1>4

\* The log grows: what names it goes on naming the same record.
LEMMA AppendSound ==
  ASSUME NEW w \in Seq(Record), NEW r \in Record, NEW es, AllSound(es, w)
  PROVE  AllSound(es, Append(w, r))
<1>1. /\ Len(Append(w, r)) = Len(w) + 1 /\ Len(w) \in Nat
      /\ \A i \in 1 .. Len(w) : Append(w, r)[i] = w[i]
  OBVIOUS
<1> QED
  BY <1>1 DEF AllSound, Sound

-----------------------------------------------------------------------------
(* The memtable *)

LEMMA MtSoundStep == TypeOK /\ AllSound(mt, wal) /\ [Next]_vars => AllSound(mt, wal)'
<1> SUFFICES ASSUME TypeOK, AllSound(mt, wal), [Next]_vars
             PROVE  AllSound(mt', wal')
  BY DEF AllSound, Sound
<1>0. /\ LevelsOK(sst, sstPos) /\ sstCount \in Nat
      /\ main \in Seq(Record) /\ wal \in Seq(Record) /\ mt \in Seq(Entry)
  BY DEF TypeOK, LevelsOK, SstSlots
<1>1. ASSUME NEW m \in Seq(Record), NEW w
      PROVE  /\ LayerEntries(Main, m) \in Seq(Entry) /\ AllSound(LayerEntries(Main, m), w)
             /\ AllSound(Index(LayerEntries(Main, m)), w)
  <2>1. LayerEntries(Main, m) \in Seq(Entry) /\ AllSound(LayerEntries(Main, m), w)
    BY LayerNumbers, LayerEntriesFacts, LayerSound
  <2> QED
    BY <2>1, IndexSound
<1>2. /\ LayerEntries(Wal, wal) \in Seq(Entry) /\ AllSound(LayerEntries(Wal, wal), wal)
      /\ \A w : /\ SstEntries(sst, sstPos, sstCount) \in Seq(Entry)
                /\ AllSound(SstEntries(sst, sstPos, sstCount), w)
  <2>1. LayerEntries(Wal, wal) \in Seq(Entry) /\ AllSound(LayerEntries(Wal, wal), wal)
    BY <1>0, LayerNumbers, LayerEntriesFacts, LayerSound
  <2> QED
    BY <1>0, <2>1, SstSound
<1>3. CASE Open
  <2> DEFINE es == LayerEntries(Main, main) \o LayerEntries(Wal, wal)
  <2>1. es \in Seq(Entry) /\ AllSound(es, wal)
    BY <1>0, <1>1, <1>2, ConcatSound
  <2>2. /\ es \o SstEntries(sst, sstPos, sstCount) \in Seq(Entry)
        /\ AllSound(es \o SstEntries(sst, sstPos, sstCount), wal)
    BY <1>2, <2>1, ConcatSound
  <2>3. mt' = Index(es \o SstEntries(sst, sstPos, sstCount)) /\ wal' = wal
    BY <1>3 DEF Open, files
  <2> QED
    BY <2>2, <2>3, IndexSound
<1>4. CASE Close
  BY <1>4 DEF Close, AllSound
<1>5. ASSUME NEW k \in Keys, NEW v \in Vals, Put(k, v)
      PROVE  AllSound(mt', wal')
  <2> DEFINE r == [key |-> k, val |-> v]  w == Append(wal, r)
             e == [class |-> KeyClass[k], layer |-> Wal, off |-> Len(wal) + 1]
  <2>1. r \in Record /\ Len(wal) \in Nat /\ r.key = k
    BY <1>0 DEF Record
  <2>2. e \in Entry
    BY <2>1, LayerNumbers DEF Entry, Classes
  <2>3. Len(w) = Len(wal) + 1 /\ w[Len(wal) + 1] = r
    BY <1>0, <2>1
  <2>4. Sound(e, w)
    <3>1. e.off = Len(wal) + 1 /\ e.class = KeyClass[k] /\ e.off \in 1 .. Len(w)
      BY <2>1, <2>3
    <3>2. w[e.off].key = k
      BY <2>1, <2>3, <3>1
    <3> QED
      BY <3>1, <3>2 DEF Sound
  <2>5. AllSound(mt, w)
    BY <1>0, <2>1, AppendSound
  <2>6. mt' = MtPut(mt, e) /\ wal' = w
    BY <1>5 DEF Put
  <2> HIDE DEF e, w
  <2> QED
    BY <1>0, <2>2, <2>4, <2>5, <2>6, MtPutSound
<1>6. ASSUME NEW k \in Keys, NEW c \in OutCaps, Get(k, c)
      PROVE  AllSound(mt', wal')
  <2>1. wal' = wal
    BY <1>6 DEF Get, files
  <2>2. CASE MtHits(k, c) = {} /\ Found(k, c) # {}
    <3>1. ScanOrder \in Seq(Entry) /\ AllSound(ScanOrder, wal)
      <4> DEFINE a == SstEntries(sst, sstPos, sstCount) \o LayerEntries(Main, main)
      <4>1. a \in Seq(Entry) /\ AllSound(a, wal)
        BY <1>0, <1>1, <1>2, ConcatSound
      <4> QED
        BY <1>2, <4>1, ConcatSound DEF ScanOrder
    <3>2. Found(k, c) \in SUBSET (1 .. Len(ScanOrder)) /\ Len(ScanOrder) \in Nat
      BY <3>1 DEF Found
    <3>3. \E p \in Found(k, c) : \A q \in Found(k, c) : q <= p
      BY <2>2, <3>2, GreatestExists
    <3>4. PICK p \in Found(k, c) : LatestFound(k, c) = ScanOrder[p]
      BY <3>3 DEF LatestFound
    <3>5. LatestFound(k, c) \in Entry /\ Sound(LatestFound(k, c), wal)
      BY <3>1, <3>2, <3>4 DEF AllSound
    <3>6. mt' = MtPut(mt, LatestFound(k, c))
      BY <1>6, <2>2 DEF Get
    <3> QED
      BY <1>0, <2>1, <3>5, <3>6, MtPutSound
  <2>3. CASE ~(MtHits(k, c) = {} /\ Found(k, c) # {})
    BY <1>6, <2>1, <2>3 DEF Get
  <2> QED
    BY <2>2, <2>3
<1>7. CASE WalFlush
  <2>1. FlushInBounds
    BY <1>7 DEF WalFlush
  <2>2. CASE Len(wal) <= Cap
    <3> DEFINE es == LayerEntries(Main, FlushedMain) \o SstEntries(sst, sstPos, sstCount)
    <3>1. FlushedMain \in Seq(Record)
      BY <2>1, FlushTypes
    <3>2. es \in Seq(Entry) /\ AllSound(es, wal')
      BY <1>1, <1>2, <3>1, ConcatSound
    <3>3. mt' = Index(es)
      BY <1>7, <2>2 DEF WalFlush
    <3> QED
      BY <3>2, <3>3, IndexSound
  <2>3. CASE ~(Len(wal) <= Cap)
    BY <1>7, <2>3 DEF WalFlush, FlushedWal
  <2> QED
    BY <2>2, <2>3
<1>8. CASE CompactStopsEarly
  <2>1. FlushedMain \in Seq(Record)
    BY <1>8, FlushTypes DEF CompactStopsEarly
  <2>2. mt' = Index(LayerEntries(Main, FlushedMain))
    BY <1>8 DEF CompactStopsEarly
  <2> QED
    BY <1>1, <2>1, <2>2
<1>9. CASE CompactMmapFails
  <2>1. CompactedMain \in Seq(Record)
    BY <1>9, FlushTypes DEF CompactMmapFails, Compacting
  <2>2. mt' = Index(LayerEntries(Main, CompactedMain))
    BY <1>9 DEF CompactMmapFails
  <2> QED
    BY <1>1, <2>1, <2>2
<1>10. CASE PutFull \/ FlushOverrun \/ UNCHANGED vars
  BY <1>10 DEF PutFull, FlushOverrun, vars
<1>a. CASE CompactNothing
  <2>1. mt' = Index(SstEntries(sst, sstPos, sstCount))
    BY <1>a DEF CompactNothing
  <2> QED
    BY <1>2, <2>1, IndexSound
<1>11. ASSUME NEW s, NEW pos, LevelsOK(s, pos), NEW slot \in Slots, FlushInBounds,
              NEW t, FreezeTo(slot, s, pos, t), \A w : AllSound(t, w),
              t \in Seq(Entry), Len(t) <= MtCap
       PROVE  AllSound(mt', wal')
  <2>1. LevelsOK(sst', sstPos') /\ sstCount' \in Nat
    BY <1>11, FreezeTypes DEF SstSlots
  <2>2. /\ SstEntries(sst', sstPos', sstCount') \in Seq(Entry)
        /\ AllSound(SstEntries(sst', sstPos', sstCount'), wal')
    BY <2>1, SstSound
  <2>3. AllSound(Index(SstEntries(sst', sstPos', sstCount')), wal')
    BY <2>2, IndexSound
  <2> QED
    BY <1>11, <2>3 DEF FreezeTo
<1>12. ASSUME NEW s, NEW pos, LevelsOK(s, pos), NEW src \in {0, 1}
       PROVE  /\ Index(MergeEntries(s, pos, src)) \in Seq(Entry)
              /\ Len(Index(MergeEntries(s, pos, src))) <= MtCap
              /\ \A w : AllSound(Index(MergeEntries(s, pos, src)), w)
  <2> DEFINE es == MergeEntries(s, pos, src)
  <2>1. es \in Seq(Entry) /\ \A p \in DOMAIN es : es[p].layer - SstBase \in Slots
    BY <1>12, MergeEntriesType
  <2>2. \A p \in 1 .. Len(es) : es[p].layer # Wal
    <3>1. \A l \in Layers : l - SstBase \in Slots => l # Wal
      BY DEF Layers, Slots, SstSlots, SstBase, Wal, Main
    <3>2. \A p \in 1 .. Len(es) : es[p] \in Entry
      BY <2>1
    <3>3. \A p \in 1 .. Len(es) : es[p].layer \in Layers
      BY <3>2 DEF Entry
    <3> QED
      BY <2>1, <3>1, <3>3
  <2>3. \A w : AllSound(es, w)
    BY <2>2 DEF AllSound, Sound
  <2> HIDE DEF es
  <2>4. Index(es) \in Seq(Entry) /\ Len(Index(es)) <= MtCap /\ \A w : AllSound(Index(es), w)
    BY <2>1, <2>3, IndexSound, IndexFacts
  <2> QED
    BY <2>4 DEF es
<1>13. CASE CompactToNewLevel
  <2> DEFINE t == Index(LayerEntries(Main, CompactedMain))
  <2>1. FlushInBounds
    BY <1>13 DEF CompactToNewLevel, Compacting
  <2>2. CompactedMain \in Seq(Record)
    BY <2>1, FlushTypes
  <2>3. t \in Seq(Entry) /\ Len(t) <= MtCap /\ \A w : AllSound(t, w)
    BY <1>1, <2>2, IndexFacts
  <2>4. sstCount \in Slots /\ FreezeTo(sstCount, sst, sstPos, t)
    BY <1>13 DEF CompactToNewLevel, TypeOK, Slots, SstSlots
  <2> HIDE DEF t
  <2> QED
    BY <1>0, <1>11, <2>1, <2>3, <2>4
<1>14. CASE CompactToFullLevels
  <2> DEFINE s1 == MergeSst(sst, sstPos, 0)  p1 == MergePos(sst, sstPos, 0)
             s2 == MergeSst(s1, p1, 1)  p2 == MergePos(s1, p1, 1)
             t == Index(MergeEntries(s1, p1, 1))
  <2>1. FlushInBounds
    BY <1>14 DEF CompactToFullLevels, Compacting
  <2>2. LevelsOK(s1, p1)
    BY <1>0, MergeType
  <2>3. LevelsOK(s2, p2)
    BY <2>2, MergeType
  <2>4. t \in Seq(Entry) /\ Len(t) <= MtCap /\ \A w : AllSound(t, w)
    BY <1>12, <2>2
  <2>5. FreezeTo(2, s2, p2, t) /\ 2 \in Slots
    BY <1>14 DEF CompactToFullLevels, Slots, SstSlots
  <2> HIDE DEF s1, p1, s2, p2, t
  <2> QED
    BY <1>11, <2>1, <2>3, <2>4, <2>5
<1>15. ASSUME NEW src \in {0, 1}, NEW written \in BOOLEAN, CompactMergeFails(src, written)
       PROVE  AllSound(mt', wal')
  <2> DEFINE s1 == IF src = 0 THEN sst ELSE MergeSst(sst, sstPos, 0)
             p1 == IF src = 0 THEN sstPos ELSE MergePos(sst, sstPos, 0)
  <2>1. LevelsOK(s1, p1)
    BY <1>0, MergeType
  <2>2. mt' = Index(MergeEntries(s1, p1, src))
    BY <1>15 DEF CompactMergeFails
  <2> HIDE DEF s1, p1
  <2> QED
    BY <1>12, <2>1, <2>2
<1> QED
  BY <1>3, <1>4, <1>5, <1>6, <1>7, <1>8, <1>9, <1>10, <1>a, <1>13, <1>14, <1>15 DEF Next

LEMMA SoundIsEnough == TypeOK /\ AllSound(mt, wal) => MtNoDanglingLog
<1> SUFFICES ASSUME TypeOK, AllSound(mt, wal)
             PROVE  MtNoDanglingLog
  OBVIOUS
<1>1. DOMAIN mt = 1 .. Len(mt) /\ Len(wal) \in Nat
  BY DEF TypeOK
<1> QED
  BY <1>1 DEF AllSound, Sound, MtNoDanglingLog

\* No entry of the memtable points past the end of the log, or to a record of
\* another class there, after any sequence of puts, gets, flushes, compactions,
\* failures and reopenings.
THEOREM MemtableNeverDangles == Spec => []MtNoDanglingLog
<1>1. Init => AllSound(mt, wal)
  BY DEF Init, AllSound
<1>2. TypeOK /\ AllSound(mt, wal) /\ [Next]_vars => AllSound(mt, wal)'
  BY MtSoundStep
<1> QED
  BY <1>1, <1>2, SoundIsEnough, TypeCorrect, PTL DEF Spec

-----------------------------------------------------------------------------
(* The frozen levels *)

\* The first n records of r are of different classes.
OnePerClass(r, n) ==
  \A i, j \in 1 .. n : KeyClass[r[i].key] = KeyClass[r[j].key] => i = j

\* The levels below n.
LevelsDistinct(s, pos, n) == \A l \in Slots : l < n => OnePerClass(s[l], pos[l])

\* A file written from a memtable has the memtable's classes, one each.
LEMMA WrittenDistinct ==
  ASSUME NEW es \in Seq(Entry), NEW r, NEW n \in Nat, n <= Len(Index(es)),
         \A i \in 1 .. n : KeyClass[r[i].key] = Index(es)[i].class
  PROVE  OnePerClass(r, n)
<1>1. /\ Index(es) \in Seq(Entry)
      /\ \A i, j \in DOMAIN Index(es) : Index(es)[i].class = Index(es)[j].class => i = j
  BY IndexFacts
<1>2. \A i \in 1 .. n : i \in DOMAIN Index(es)
  BY <1>1
<1> QED
  BY <1>1, <1>2 DEF OnePerClass

LEMMA CompactedDistinct ==
  ASSUME NEW m \in Seq(Record)
  PROVE  OnePerClass(Compacted(m), Len(Compacted(m)))
<1> DEFINE es == LayerEntries(Main, m)  t == Index(es)
<1>1. /\ es \in Seq(Entry) /\ DOMAIN es = 1 .. Len(m)
      /\ \A i \in 1 .. Len(m) : es[i].off = i /\ es[i].class = KeyClass[m[i].key]
  BY LayerNumbers, LayerEntriesFacts
<1>2. /\ t \in Seq(Entry) /\ DOMAIN t = 1 .. Len(t) /\ Len(t) \in Nat
      /\ \A i \in DOMAIN t : \E p \in DOMAIN es : t[i] = es[p]
  <2> HIDE DEF es
  <2>1. es \in Seq(Entry)
    BY <1>1
  <2>2. /\ Index(es) \in Seq(Entry)
        /\ \A i \in DOMAIN Index(es) : \E p \in DOMAIN es : Index(es)[i] = es[p]
    BY <2>1, IndexFacts
  <2> QED
    BY <2>2
<1>3. Compacted(m) = [i \in 1 .. Len(t) |-> m[t[i].off]]
  BY <1>2 DEF Compacted
<1>4. ASSUME NEW i \in 1 .. Len(t)
      PROVE  KeyClass[Compacted(m)[i].key] = t[i].class
  <2>1. PICK p \in 1 .. Len(m) : t[i] = es[p]
    BY <1>1, <1>2
  <2>2. Compacted(m)[i] = m[p]
    BY <1>1, <1>3, <2>1
  <2> QED
    BY <1>1, <2>1, <2>2
<1>5. Len(Compacted(m)) = Len(t)
  BY <1>2, <1>3
<1> HIDE DEF es
<1> QED
  BY <1>1, <1>2, <1>4, <1>5, WrittenDistinct

\* The class of an entry of the two merged levels is that of the record it names.
LEMMA MergeEntriesClass ==
  ASSUME NEW s, NEW pos, LevelsOK(s, pos), NEW src \in {0, 1}
  PROVE  \A p \in DOMAIN MergeEntries(s, pos, src) :
           LET e == MergeEntries(s, pos, src)[p]
           IN  KeyClass[s[e.layer - SstBase][e.off].key] = e.class
<1> DEFINE of(l) == LayerEntries(SstBase + l, Live(s, pos, l))
<1>1. ASSUME NEW l \in Slots
      PROVE  /\ of(l) \in Seq(Entry) /\ Len(of(l)) = pos[l] /\ pos[l] \in Nat
             /\ \A i \in 1 .. pos[l] :
                  KeyClass[s[of(l)[i].layer - SstBase][of(l)[i].off].key] = of(l)[i].class
  <2>1. SstBase + l \in Layers /\ (SstBase + l) - SstBase = l
    BY DEF Layers, SstBase, Slots
  <2>2. /\ Live(s, pos, l) \in Seq(Record) /\ Len(Live(s, pos, l)) = pos[l]
        /\ s[l] \in Seq(Record) /\ pos[l] \in Nat /\ pos[l] <= Len(s[l])
    BY LiveFacts DEF LevelsOK
  <2>3. \A i \in 1 .. pos[l] : Live(s, pos, l)[i] = s[l][i]
    BY <2>2 DEF Live
  <2>4. /\ of(l) \in Seq(Entry) /\ Len(of(l)) = pos[l]
        /\ \A i \in 1 .. pos[l] : of(l)[i].layer = SstBase + l /\ of(l)[i].off = i
             /\ of(l)[i].class = KeyClass[Live(s, pos, l)[i].key]
    BY <2>1, <2>2, LayerEntriesFacts
  <2> QED
    BY <2>1, <2>2, <2>3, <2>4
<1>2. src \in Slots /\ src + 1 \in Slots /\ SstBase + src + 1 = SstBase + (src + 1)
  BY DEF Slots, SstSlots, SstBase
<1>3. MergeEntries(s, pos, src) = of(src) \o of(src + 1)
  BY <1>2 DEF MergeEntries
<1> DEFINE a == of(src)  b == of(src + 1)
<1>4. /\ a \in Seq(Entry) /\ b \in Seq(Entry) /\ Len(a) \in Nat /\ Len(b) \in Nat
      /\ \A i \in 1 .. Len(a) : KeyClass[s[a[i].layer - SstBase][a[i].off].key] = a[i].class
      /\ \A i \in 1 .. Len(b) : KeyClass[s[b[i].layer - SstBase][b[i].off].key] = b[i].class
  BY <1>1, <1>2
<1>5. MergeEntries(s, pos, src) = a \o b
  BY <1>3
<1> HIDE DEF of, a, b
<1>6. DOMAIN (a \o b) = 1 .. Len(a) + Len(b)
      /\ \A p \in 1 .. Len(a) + Len(b) :
           (a \o b)[p] = IF p <= Len(a) THEN a[p] ELSE b[p - Len(a)]
  BY <1>4, ConcatProperties
<1>7. ASSUME NEW p \in 1 .. Len(a) + Len(b)
      PROVE  LET e == (a \o b)[p]
             IN  KeyClass[s[e.layer - SstBase][e.off].key] = e.class
  <2>1. CASE p <= Len(a)
    BY <1>4, <1>6, <2>1
  <2>2. CASE ~(p <= Len(a))
    <3>1. p - Len(a) \in 1 .. Len(b)
      BY <1>4, <2>2
    <3> QED
      BY <1>4, <1>6, <2>2, <3>1
  <2> QED
    BY <2>1, <2>2
<1> QED
  BY <1>5, <1>6, <1>7

\* The records a merge writes are of different classes.
LEMMA MergedDistinct ==
  ASSUME NEW s, NEW pos, LevelsOK(s, pos), NEW src \in {0, 1}
  PROVE  OnePerClass(MergedRecords(s, pos, src), Len(MergedRecords(s, pos, src)))
<1> DEFINE es == MergeEntries(s, pos, src)
           t == Index(es)
           len == IF Len(t) < Cap THEN Len(t) ELSE Cap
           r == MergedRecords(s, pos, src)
<1>2. /\ es \in Seq(Entry)
      /\ \A p \in DOMAIN es : KeyClass[s[es[p].layer - SstBase][es[p].off].key] = es[p].class
  BY MergeEntriesType, MergeEntriesClass
<1>3. /\ t \in Seq(Entry) /\ DOMAIN t = 1 .. Len(t) /\ Len(t) \in Nat
      /\ \A i \in DOMAIN t : \E p \in DOMAIN es : t[i] = es[p]
  BY <1>2, IndexFacts
<1>4. len \in Nat /\ len <= Len(t)
  BY <1>3, KvConstants
<1>5. r = [i \in 1 .. len |-> s[t[i].layer - SstBase][t[i].off]]
  BY DEF MergedRecords
<1>6. Len(r) = len /\ \A i \in 1 .. len : KeyClass[r[i].key] = t[i].class
  <2>1. Len(r) = len
    BY <1>4, <1>5
  <2>2. \A i \in 1 .. len : i \in DOMAIN t
    BY <1>3, <1>4
  <2>3. ASSUME NEW i \in 1 .. len
        PROVE  KeyClass[r[i].key] = t[i].class
    <3>1. PICK p \in DOMAIN es : t[i] = es[p]
      BY <1>3, <2>2
    <3>2. r[i] = s[t[i].layer - SstBase][t[i].off]
      BY <1>5
    <3> HIDE DEF es, r
    <3> QED
      BY <1>2, <3>1, <3>2
  <2> QED
    BY <2>1, <2>3
<1> HIDE DEF es, len, r
<1>7. OnePerClass(r, Len(r))
  BY <1>2, <1>4, <1>6, WrittenDistinct
<1> QED
  BY <1>7 DEF r

LEMMA MergeDistinct ==
  ASSUME NEW s, NEW pos, LevelsOK(s, pos), NEW n, LevelsDistinct(s, pos, n),
         NEW src \in {0, 1}
  PROVE  LevelsDistinct(MergeSst(s, pos, src), MergePos(s, pos, src), n)
<1> DEFINE r == MergedRecords(s, pos, src)
<1>1. src \in Slots /\ src + 1 \in Slots /\ src # src + 1
  BY DEF Slots, SstSlots
<1>7. OnePerClass(r, Len(r))
  BY MergedDistinct
<1>8. ASSUME NEW l \in Slots, l < n
      PROVE  OnePerClass(MergeSst(s, pos, src)[l], MergePos(s, pos, src)[l])
  <2>1. CASE l = src
    <3>1. MergePos(s, pos, src)[l] = 0
      BY <1>1, <2>1 DEF MergePos, LevelsOK
    <3> QED
      BY <3>1 DEF OnePerClass
  <2>2. CASE l = src + 1
    <3>1. MergePos(s, pos, src)[l] = Len(r) /\ MergeSst(s, pos, src)[l] = r
      BY <1>1, <2>2 DEF MergePos, MergeSst, LevelsOK
    <3> QED
      BY <1>7, <3>1
  <2>3. CASE l # src /\ l # src + 1
    BY <1>1, <1>8, <2>3 DEF MergePos, MergeSst, LevelsOK, LevelsDistinct
  <2> QED
    BY <2>1, <2>2, <2>3
<1> QED
  BY <1>8 DEF LevelsDistinct

\* A file over whose start m is copied.
LEMMA CopiedOver ==
  ASSUME NEW o \in Seq(Record), NEW m \in Seq(Record),
         NEW f, f = m \o SubSeq(o, Len(m) + 1, Len(o))
  PROVE  /\ f \in Seq(Record) /\ Len(f) = (IF Len(m) < Len(o) THEN Len(o) ELSE Len(m))
         /\ \A i \in 1 .. Len(m) : f[i] = m[i]
<1> DEFINE r == SubSeq(o, Len(m) + 1, Len(o))
<1>1. Len(o) \in Nat /\ Len(m) \in Nat
  OBVIOUS
<1>2. r \in Seq(Record) /\ Len(r) = (IF Len(m) < Len(o) THEN Len(o) - Len(m) ELSE 0)
  <2>1. \A i \in Len(m) + 1 .. Len(o) : o[i] \in Record
    BY <1>1
  <2> QED
    BY <1>1, <2>1, SubSeqProperties
<1>3. f = m \o r
  OBVIOUS
<1> HIDE DEF r
<1>4. /\ m \o r \in Seq(Record) /\ Len(m \o r) = Len(m) + Len(r)
      /\ \A i \in 1 .. Len(m) + Len(r) :
           (m \o r)[i] = IF i <= Len(m) THEN m[i] ELSE r[i - Len(m)]
  BY <1>2, ConcatProperties
<1>5. Len(f) = (IF Len(m) < Len(o) THEN Len(o) ELSE Len(m))
  BY <1>1, <1>2, <1>3, <1>4
<1>6. \A i \in 1 .. Len(m) : f[i] = m[i]
  BY <1>1, <1>2, <1>3, <1>4
<1> QED
  BY <1>3, <1>4, <1>5, <1>6

LEMMA FreezeDistinct ==
  ASSUME TypeOK, FlushInBounds, NEW s, NEW pos, LevelsOK(s, pos),
         NEW slot \in Slots, LevelsDistinct(s, pos, slot), NEW t, FreezeTo(slot, s, pos, t)
  PROVE  LevelsDistinct(sst', sstPos', sstCount')
<1> DEFINE m == CompactedMain  f == m \o SubSeq(s[slot], Len(m) + 1, Len(s[slot]))
<1>1. FlushedMain \in Seq(Record) /\ m \in Seq(Record) /\ s[slot] \in Seq(Record)
  BY FlushTypes DEF LevelsOK
<1>2. OnePerClass(m, Len(m))
  BY <1>1, CompactedDistinct DEF CompactedMain
<1>3. \A i \in 1 .. Len(m) : f[i] = m[i]
  <2> HIDE DEF m
  <2> QED
    BY <1>1, CopiedOver
<1>4. /\ sst' = [s EXCEPT ![slot] = f] /\ sstPos' = [pos EXCEPT ![slot] = Len(m)]
      /\ sstCount' = slot + 1
  BY DEF FreezeTo, LevelsOK
<1> HIDE DEF m, f
<1>5. OnePerClass(f, Len(m))
  BY <1>2, <1>3 DEF OnePerClass
<1>6. ASSUME NEW l \in Slots, l < sstCount'
      PROVE  OnePerClass(sst'[l], sstPos'[l])
  <2>1. CASE l = slot
    BY <1>4, <1>5, <2>1 DEF LevelsOK
  <2>2. CASE l # slot
    <3>1. l < slot
      BY <1>4, <1>6, <2>2 DEF Slots
    <3> QED
      BY <1>4, <2>2, <3>1 DEF LevelsOK, LevelsDistinct
  <2> QED
    BY <2>1, <2>2
<1> QED
  BY <1>6 DEF LevelsDistinct

LEMMA LevelsStep ==
  TypeOK /\ LevelsDistinct(sst, sstPos, sstCount) /\ [Next]_vars
    => LevelsDistinct(sst, sstPos, sstCount)'
<1> SUFFICES ASSUME TypeOK, LevelsDistinct(sst, sstPos, sstCount), [Next]_vars
             PROVE  LevelsDistinct(sst', sstPos', sstCount')
  BY DEF LevelsDistinct, OnePerClass
<1>0. LevelsOK(sst, sstPos)
  BY DEF TypeOK, LevelsOK
<1> DEFINE s1 == MergeSst(sst, sstPos, 0)  p1 == MergePos(sst, sstPos, 0)
<1>1. LevelsOK(s1, p1) /\ LevelsDistinct(s1, p1, sstCount)
  BY <1>0, MergeType, MergeDistinct
<1>2. CASE CompactToNewLevel
  <2>1. /\ FlushInBounds /\ sstCount \in Slots
        /\ FreezeTo(sstCount, sst, sstPos, Index(LayerEntries(Main, CompactedMain)))
    BY <1>2 DEF CompactToNewLevel, Compacting, TypeOK, Slots, SstSlots
  <2> QED
    BY <1>0, <2>1, FreezeDistinct
<1>3. CASE CompactToFullLevels
  <2>1. /\ FlushInBounds /\ 2 \in Slots /\ sstCount \in Nat /\ 2 < sstCount
        /\ FreezeTo(2, MergeSst(s1, p1, 1), MergePos(s1, p1, 1), Index(MergeEntries(s1, p1, 1)))
    BY <1>3 DEF CompactToFullLevels, Compacting, Slots, SstSlots, TypeOK
  <2> HIDE DEF s1, p1
  <2>2. /\ LevelsOK(MergeSst(s1, p1, 1), MergePos(s1, p1, 1))
        /\ LevelsDistinct(MergeSst(s1, p1, 1), MergePos(s1, p1, 1), 2)
    <3>1. LevelsDistinct(s1, p1, 2)
      BY <1>1, <2>1 DEF LevelsDistinct, Slots
    <3> QED
      BY <1>1, <3>1, MergeType, MergeDistinct
  <2> QED
    BY <2>1, <2>2, FreezeDistinct
<1>4. ASSUME NEW src \in {0, 1}, NEW written \in BOOLEAN, CompactMergeFails(src, written)
      PROVE  LevelsDistinct(sst', sstPos', sstCount')
  <2> DEFINE s2 == IF src = 0 THEN sst ELSE s1  p2 == IF src = 0 THEN sstPos ELSE p1
  <2>1. LevelsOK(s2, p2) /\ LevelsDistinct(s2, p2, sstCount)
    BY <1>0, <1>1
  <2>2. /\ sst' = (IF written THEN MergeSst(s2, p2, src) ELSE s2)
        /\ sstPos' = (IF written THEN MergePos(s2, p2, src) ELSE p2) /\ sstCount' = sstCount
    BY <1>4 DEF CompactMergeFails
  <2> HIDE DEF s2, p2
  <2>3. LevelsDistinct(MergeSst(s2, p2, src), MergePos(s2, p2, src), sstCount)
    BY <2>1, MergeDistinct
  <2> QED
    BY <2>1, <2>2, <2>3
<1>5. ASSUME UNCHANGED <<sst, sstPos, sstCount>>
      PROVE  LevelsDistinct(sst', sstPos', sstCount')
  BY <1>5
<1>6. ASSUME NEW k \in Keys, NEW v \in Vals, Put(k, v)
      PROVE  UNCHANGED <<sst, sstPos, sstCount>>
  BY <1>6 DEF Put
<1>7. ASSUME NEW k \in Keys, NEW c \in OutCaps, Get(k, c)
      PROVE  UNCHANGED <<sst, sstPos, sstCount>>
  BY <1>7 DEF Get, files
<1>8. CASE Open \/ Close \/ PutFull \/ WalFlush \/ FlushOverrun
            \/ CompactStopsEarly \/ CompactNothing \/ CompactMmapFails \/ UNCHANGED vars
  <2>1. UNCHANGED <<sst, sstPos, sstCount>>
    BY <1>8 DEF Open, Close, PutFull, WalFlush, FlushOverrun, CompactStopsEarly,
                CompactNothing, CompactMmapFails, files, vars
  <2> QED
    BY <1>5, <2>1
<1> QED
  BY <1>2, <1>3, <1>4, <1>5, <1>6, <1>7, <1>8 DEF Next

LEMMA DistinctIsDeduped == TypeOK /\ LevelsDistinct(sst, sstPos, sstCount) => LevelsDeduped
<1> SUFFICES ASSUME TypeOK, LevelsDistinct(sst, sstPos, sstCount)
             PROVE  LevelsDeduped
  OBVIOUS
<1>1. \A l \in 0 .. sstCount - 1 : l \in Slots /\ l < sstCount
  BY DEF TypeOK, Slots, SstSlots
<1> QED
  BY <1>1 DEF LevelsDistinct, OnePerClass, LevelsDeduped

\* A frozen level never holds two records of one class: not after a freeze over
\* a longer file, a merge, or a merge that failed after it had written.
THEOREM FrozenLevelsDeduped == Spec => []LevelsDeduped
<1>1. Init => LevelsDistinct(sst, sstPos, sstCount)
  BY DEF Init, LevelsDistinct, OnePerClass
<1>2. TypeOK /\ LevelsDistinct(sst, sstPos, sstCount) /\ [Next]_vars
        => LevelsDistinct(sst, sstPos, sstCount)'
  BY LevelsStep
<1> QED
  BY <1>1, <1>2, DistinctIsDeduped, TypeCorrect, PTL DEF Spec

-----------------------------------------------------------------------------
(* Rebuilding the memtable is a loop that puts one entry after the other. *)

\* LastOf is the only position with its property.
LEMMA LastOfIs ==
  ASSUME NEW es \in Seq(Entry), NEW o \in DOMAIN es,
         \A q \in DOMAIN es : es[q].class = es[o].class => q <= o
  PROVE  LastOf(es, es[o].class) = o
<1> DEFINE c == es[o].class  l == LastOf(es, c)
<1>1. l \in DOMAIN es /\ es[l].class = c /\ (\A q \in DOMAIN es : es[q].class = c => q <= l)
  BY LastOfFacts
<1>2. l <= o /\ o <= l /\ l \in Int /\ o \in Int
  BY <1>1
<1> QED
  BY <1>2

\* One more position, greater than those of S, has the highest rank and leaves
\* the other ranks as they were.
LEMMA NthOfMore ==
  ASSUME NEW n \in Nat, NEW S \in SUBSET (1 .. n)
  PROVE  LET T == S \cup {n + 1} IN
           /\ Cardinality(T) = Cardinality(S) + 1
           /\ \A i \in 1 .. Cardinality(S) : Nth(T, i) = Nth(S, i)
           /\ Nth(T, Cardinality(S) + 1) = n + 1
<1> DEFINE T == S \cup {n + 1}  N == Cardinality(S)
<1>1. /\ T \in SUBSET (1 .. n + 1) /\ n + 1 \in Nat /\ n + 1 \notin S
      /\ \A q \in T : q <= n + 1
  OBVIOUS
<1>7. \A p \in T : Nth(T, Rank(T, p)) = p
  <2> HIDE DEF T
  <2>1. PICK m \in Nat : m = n + 1
    OBVIOUS
  <2>2. T \in SUBSET (1 .. m)
    BY <1>1, <2>1
  <2> QED
    BY <2>1, <2>2, NthFacts
<1>2. IsFiniteSet(S) /\ N \in Nat
  BY RankFacts
<1>3. Cardinality(T) = N + 1
  BY <1>1, <1>2, FS_AddElement
<1>4. ASSUME NEW p \in S
      PROVE  Rank(T, p) = Rank(S, p)
  <2>1. {q \in T : q <= p} = {q \in S : q <= p}
    <3>1. p \in 1 .. n
      OBVIOUS
    <3> QED
      BY <3>1
  <2> QED
    BY <2>1 DEF Rank
<1>5. ASSUME NEW i \in 1 .. N
      PROVE  Nth(T, i) = Nth(S, i)
  <2>1. Nth(S, i) \in S /\ Rank(S, Nth(S, i)) = i
    BY NthFacts
  <2>2. Nth(S, i) \in T /\ Rank(T, Nth(S, i)) = i
    BY <1>4, <2>1
  <2> QED
    BY <1>7, <2>2
<1>6. Nth(T, N + 1) = n + 1
  <2>1. {q \in T : q <= n + 1} = T
    <3>1. n + 1 \in T
      OBVIOUS
    <3> HIDE DEF T
    <3> QED
      BY <1>1
  <2>2. Rank(T, n + 1) = N + 1
    BY <1>3, <2>1 DEF Rank
  <2>3. n + 1 \in T
    OBVIOUS
  <2> HIDE DEF T
  <2> QED
    BY <1>7, <2>2, <2>3
<1> QED
  BY <1>3, <1>5, <1>6

\* What Index is, position by position.
LEMMA IndexAt ==
  ASSUME NEW es \in Seq(Entry)
  PROVE  LET F == FirstSeen(es)
             n == Cardinality(F)
         IN  /\ F \in SUBSET (1 .. Len(es)) /\ n \in Nat
             /\ Len(Index(es)) = (IF n < MtCap THEN n ELSE MtCap)
             /\ Len(Index(es)) \in Nat /\ Len(Index(es)) <= n
             /\ DOMAIN Index(es) = 1 .. Len(Index(es))
             /\ \A i \in 1 .. Len(Index(es)) :
                  /\ Nth(F, i) \in 1 .. Len(es)
                  /\ Index(es)[i] = es[LastOf(es, es[Nth(F, i)].class)]
                  /\ Index(es)[i].class = es[Nth(F, i)].class
                  /\ Index(es)[i] \in Entry
<1> DEFINE F == FirstSeen(es)  n == Cardinality(F)
           m == IF n < MtCap THEN n ELSE MtCap
<1>1. F \in SUBSET (1 .. Len(es)) /\ Len(es) \in Nat
  BY DEF FirstSeen
<1>2. n \in Nat
  BY <1>1, RankFacts
<1>3. m \in Nat /\ m <= n
  BY <1>2, KvConstants
<1>4. Index(es) = [i \in 1 .. m |-> es[LastOf(es, es[Nth(F, i)].class)]]
  BY DEF Index
<1>5. Index(es) \in Seq(Entry)
  BY IndexFacts
<1>6. Len(Index(es)) = m /\ DOMAIN Index(es) = 1 .. m
  BY <1>3, <1>4, <1>5
<1>7. ASSUME NEW i \in 1 .. m
      PROVE  /\ Nth(F, i) \in 1 .. Len(es)
             /\ es[LastOf(es, es[Nth(F, i)].class)].class = es[Nth(F, i)].class
             /\ Index(es)[i] \in Entry
  <2>1. i \in 1 .. n
    BY <1>2, <1>3
  <2>2. Nth(F, i) \in 1 .. Len(es)
    BY <1>1, <2>1, NthFacts
  <2>3. Nth(F, i) \in DOMAIN es
    BY <2>2
  <2> QED
    BY <1>5, <1>6, <2>2, <2>3, LastOfFacts, ElementOfSeq
<1> HIDE DEF F, n, m
<1>8. \A i \in 1 .. m : Index(es)[i] = es[LastOf(es, es[Nth(F, i)].class)]
  BY <1>4
<1>9. \A i \in 1 .. m : Index(es)[i].class = es[Nth(F, i)].class
  BY <1>7, <1>8
<1> QED
  BY <1>1, <1>2, <1>3, <1>6, <1>7, <1>8, <1>9 DEF F, n, m

\* One more entry: its class is put in the table as kv_mt_put_ex puts it.
LEMMA IndexAppend ==
  ASSUME NEW es \in Seq(Entry), NEW e \in Entry
  PROVE  Index(Append(es, e)) = MtPut(Index(es), e)
<1> DEFINE es2 == Append(es, e)  L == Len(es)
           F == FirstSeen(es)  F2 == FirstSeen(es2)
           n == Cardinality(F)  t == Index(es)  t2 == Index(es2)  m == Len(t)
<1>1. /\ es2 \in Seq(Entry) /\ L \in Nat /\ Len(es2) = L + 1
      /\ DOMAIN es = 1 .. L /\ DOMAIN es2 = 1 .. L + 1
      /\ es2[L + 1] = e /\ \A p \in 1 .. L : es2[p] = es[p]
  OBVIOUS
<1>2. /\ F \in SUBSET (1 .. L) /\ n \in Nat
      /\ m = (IF n < MtCap THEN n ELSE MtCap) /\ m \in Nat /\ m <= n
      /\ DOMAIN t = 1 .. m
      /\ \A i \in 1 .. m : /\ Nth(F, i) \in 1 .. L
                           /\ t[i] = es[LastOf(es, es[Nth(F, i)].class)]
                           /\ t[i].class = es[Nth(F, i)].class
                           /\ t[i] \in Entry
  BY IndexAt
<1>3. /\ F2 \in SUBSET (1 .. L + 1) /\ Cardinality(F2) \in Nat
      /\ Len(t2) = (IF Cardinality(F2) < MtCap THEN Cardinality(F2) ELSE MtCap)
      /\ DOMAIN t2 = 1 .. Len(t2)
      /\ \A i \in 1 .. Len(t2) : t2[i] = es2[LastOf(es2, es2[Nth(F2, i)].class)]
  BY <1>1, IndexAt
<1>4. t \in Seq(Entry) /\ t2 \in Seq(Entry)
  BY <1>1, IndexFacts
<1>5. ASSUME NEW p \in 1 .. L
      PROVE  es2[LastOf(es2, es[p].class)] =
               IF es[p].class = e.class THEN e ELSE es[LastOf(es, es[p].class)]
  <2> DEFINE c == es[p].class  o == LastOf(es, c)
  <2>1. o \in 1 .. L /\ es[o].class = c /\ \A q \in 1 .. L : es[q].class = c => q <= o
    BY <1>1, LastOfFacts
  <2>2. CASE c = e.class
    <3>1. \A q \in DOMAIN es2 : es2[q].class = es2[L + 1].class => q <= L + 1
      BY <1>1
    <3>2. LastOf(es2, es2[L + 1].class) = L + 1
      <4>1. PICK o1 \in DOMAIN es2 : o1 = L + 1
        BY <1>1
      <4> HIDE DEF es2
      <4> QED
        BY <1>1, <3>1, <4>1, LastOfIs
    <3> QED
      BY <1>1, <2>2, <3>2
  <2>3. CASE c # e.class
    <3>1. o \in DOMAIN es2 /\ es2[o] = es[o] /\ es2[o].class = c
      BY <1>1, <2>1
    <3> HIDE DEF o, c
    <3>2. \A q \in DOMAIN es2 : es2[q].class = es2[o].class => q <= o
      BY <1>1, <2>1, <2>3, <3>1
    <3>3. LastOf(es2, es2[o].class) = o
      BY <1>1, <3>1, <3>2, LastOfIs
    <3>4. LastOf(es2, c) = o
      BY <3>1, <3>3
    <3> QED
      BY <2>3, <3>1, <3>4 DEF o, c
  <2> QED
    BY <2>2, <2>3
<1>6. CASE \E p \in 1 .. L : es[p].class = e.class
  <2>1. F2 = F
    <3>1. ASSUME NEW p \in F
          PROVE  p \in F2
      <4>1. /\ p \in 1 .. L
            /\ \A q \in 1 .. L : q < p => es[q].class # es[p].class
        BY <1>1, <1>2 DEF FirstSeen
      <4>2. /\ p \in 1 .. L + 1
            /\ \A q \in 1 .. L + 1 : q < p => es2[q].class # es2[p].class
        BY <1>1, <4>1
      <4> QED
        BY <1>1, <4>2 DEF FirstSeen
    <3>2. ASSUME NEW p \in F2
          PROVE  p \in F
      <4>1. /\ p \in 1 .. L + 1
            /\ \A q \in 1 .. L + 1 : q < p => es2[q].class # es2[p].class
        BY <1>1, <1>3 DEF FirstSeen
      <4>2. p # L + 1
        BY <1>1, <1>6, <4>1
      <4>3. /\ p \in 1 .. L
            /\ \A q \in 1 .. L : q < p => es[q].class # es[p].class
        BY <1>1, <4>1, <4>2
      <4> QED
        BY <1>1, <4>3 DEF FirstSeen
    <3> QED
      BY <3>1, <3>2
  <2>2. Len(t2) = m
    BY <1>2, <1>3, <2>1
  <2>3. ASSUME NEW i \in 1 .. m
        PROVE  t2[i] = IF t[i].class = e.class THEN e ELSE t[i]
    <3> DEFINE p == Nth(F, i)
    <3>1. p \in 1 .. L /\ t[i] = es[LastOf(es, es[p].class)] /\ t[i].class = es[p].class
      BY <1>2
    <3>2. t2[i] = es2[LastOf(es2, es2[p].class)] /\ es2[p] = es[p]
      BY <1>1, <1>3, <2>1, <2>2, <3>1
    <3> HIDE DEF p, t, t2
    <3> QED
      BY <1>5, <3>1, <3>2
  <2>4. CASE \E i \in 1 .. m : t[i].class = e.class
    <3>1. MtPut(t, e) = [i \in 1 .. m |-> IF t[i].class = e.class THEN e ELSE t[i]]
      BY <1>2, <2>4 DEF MtPut
    <3> DEFINE r == [i \in 1 .. m |-> IF t[i].class = e.class THEN e ELSE t[i]]
    <3>2. r \in Seq(Entry) /\ Len(r) = m
      <4>1. \A i \in 1 .. m : (IF t[i].class = e.class THEN e ELSE t[i]) \in Entry
        BY <1>2
      <4>2. m \in Nat
        BY <1>2
      <4> HIDE DEF t, m
      <4>3. r \in Seq(Entry)
        BY <4>1, <4>2, IsASeq
      <4> QED
        BY <4>2, <4>3
    <3>3. \A i \in 1 .. m : t2[i] = r[i]
      BY <2>3
    <3> HIDE DEF r, t, t2, m
    <3>4. t2 = r
      BY <1>4, <2>2, <3>2, <3>3, SeqEqual
    <3> QED
      BY <3>1, <3>4 DEF r, t, t2
  <2>5. CASE ~\E i \in 1 .. m : t[i].class = e.class
    <3>1. ~(n <= MtCap)
      <4>1. n <= MtCap => \A p \in DOMAIN es : \E i \in DOMAIN t : t[i].class = es[p].class
        BY IndexFacts
      <4> HIDE DEF t, n
      <4> QED
        BY <1>1, <1>2, <1>6, <2>5, <4>1
    <3>2. m = MtCap
      BY <1>2, <3>1, KvConstants
    <3>3. MtPut(t, e) = t
      <4>1. ~\E i \in DOMAIN t : t[i].class = e.class
        BY <1>2, <2>5
      <4>2. ~(Len(t) < MtCap)
        BY <3>2, KvConstants
      <4> HIDE DEF t
      <4> QED
        BY <4>1, <4>2 DEF MtPut
    <3>4. \A i \in 1 .. m : t2[i] = t[i]
      BY <2>3, <2>5
    <3> HIDE DEF t, t2, m
    <3>5. t2 = t
      BY <1>4, <2>2, <3>4, SeqEqual DEF m
    <3> QED
      BY <3>3, <3>5 DEF t, t2
  <2> QED
    BY <2>4, <2>5
<1>7. CASE ~\E p \in 1 .. L : es[p].class = e.class
  <2>1. F2 = F \cup {L + 1}
    <3>1. ASSUME NEW p \in F \cup {L + 1}
          PROVE  p \in F2
      <4>1. CASE p \in F
        <5>1. /\ p \in 1 .. L
              /\ \A q \in 1 .. L : q < p => es[q].class # es[p].class
          BY <1>1, <1>2, <4>1 DEF FirstSeen
        <5>2. /\ p \in 1 .. L + 1
              /\ \A q \in 1 .. L + 1 : q < p => es2[q].class # es2[p].class
          BY <1>1, <5>1
        <5> QED
          BY <1>1, <5>2 DEF FirstSeen
      <4>2. CASE p = L + 1
        <5>2. /\ p \in 1 .. L + 1
              /\ \A q \in 1 .. L + 1 : q < p => es2[q].class # es2[p].class
          BY <1>1, <1>7, <4>2
        <5> QED
          BY <1>1, <5>2 DEF FirstSeen
      <4> QED
        BY <4>1, <4>2
    <3>2. ASSUME NEW p \in F2, p # L + 1
          PROVE  p \in F
      <4>1. /\ p \in 1 .. L + 1
            /\ \A q \in 1 .. L + 1 : q < p => es2[q].class # es2[p].class
        BY <1>1, <1>3 DEF FirstSeen
      <4>3. /\ p \in 1 .. L
            /\ \A q \in 1 .. L : q < p => es[q].class # es[p].class
        BY <1>1, <3>2, <4>1
      <4> QED
        BY <1>1, <4>3 DEF FirstSeen
    <3> QED
      BY <3>1, <3>2
  <2>2. /\ Cardinality(F2) = n + 1
        /\ \A i \in 1 .. n : Nth(F2, i) = Nth(F, i)
        /\ Nth(F2, n + 1) = L + 1
    <3>1. F \in SUBSET (1 .. L) /\ L \in Nat
      BY <1>1, <1>2
    <3> HIDE DEF F, F2, L
    <3> QED
      BY <2>1, <3>1, NthOfMore
  <2>3. ~\E i \in DOMAIN t : t[i].class = e.class
    BY <1>2, <1>7
  <2>4. MtPut(t, e) = IF Len(t) < MtCap THEN Append(t, e) ELSE t
    <3> HIDE DEF t
    <3> QED
      BY <2>3 DEF MtPut
  <2>5. m <= Len(t2)
    BY <1>2, <1>3, <2>2, KvConstants
  <2>6. ASSUME NEW i \in 1 .. m
        PROVE  t2[i] = t[i]
    <3> DEFINE p == Nth(F, i)
    <3>1. /\ p \in 1 .. L /\ t[i] = es[LastOf(es, es[p].class)]
          /\ i \in 1 .. n /\ i \in 1 .. Len(t2)
      BY <1>2, <1>3, <2>5
    <3>2. t2[i] = es2[LastOf(es2, es2[p].class)] /\ es2[p] = es[p]
      BY <1>1, <1>3, <2>2, <3>1
    <3>3. es[p].class # e.class
      BY <1>7, <3>1
    <3> HIDE DEF p, t, t2
    <3> QED
      BY <1>5, <3>1, <3>2, <3>3
  <2>7. CASE n < MtCap
    <3>1. m = n /\ Len(t2) = n + 1 /\ MtPut(t, e) = Append(t, e)
      BY <1>2, <1>3, <2>2, <2>4, <2>7, KvConstants
    <3>2. t2[n + 1] = e
      <4>1. t2[n + 1] = es2[LastOf(es2, es2[L + 1].class)]
        <5>1. n + 1 \in 1 .. Len(t2) /\ Nth(F2, n + 1) = L + 1
          BY <1>2, <2>2, <3>1
        <5>2. t2[n + 1] = es2[LastOf(es2, es2[Nth(F2, n + 1)].class)]
          <6> HIDE DEF t2, F2, n, es2
          <6> QED
            BY <1>3, <5>1
        <5> HIDE DEF t2, F2, n, es2
        <5> QED
          BY <5>1, <5>2
      <4>2. \A q \in DOMAIN es2 : es2[q].class = es2[L + 1].class => q <= L + 1
        BY <1>1
      <4>3. LastOf(es2, es2[L + 1].class) = L + 1
        <5>1. PICK o1 \in DOMAIN es2 : o1 = L + 1
          BY <1>1
        <5> HIDE DEF es2
        <5> QED
          BY <1>1, <4>2, <5>1, LastOfIs
      <4> QED
        BY <1>1, <4>1, <4>3
    <3> DEFINE r == Append(t, e)
    <3>3. r \in Seq(Entry) /\ Len(r) = n + 1 /\ r[n + 1] = e
          /\ \A i \in 1 .. n : r[i] = t[i]
      <4> HIDE DEF t
      <4> QED
        BY <1>2, <1>4, <3>1
    <3>4. \A i \in 1 .. n + 1 : t2[i] = r[i]
      BY <1>2, <2>6, <3>1, <3>2, <3>3
    <3> HIDE DEF r, t, t2, m, n
    <3>5. t2 = r
      BY <1>4, <3>1, <3>3, <3>4, SeqEqual
    <3> QED
      BY <3>1, <3>5 DEF r, t, t2
  <2>8. CASE ~(n < MtCap)
    <3>1. m = MtCap /\ Len(t2) = m /\ MtPut(t, e) = t
      BY <1>2, <1>3, <2>2, <2>4, <2>8, KvConstants
    <3> HIDE DEF t, t2, m
    <3>2. t2 = t
      BY <1>4, <2>6, <3>1, SeqEqual DEF m
    <3> QED
      BY <3>1, <3>2 DEF t, t2
  <2> QED
    BY <2>7, <2>8
<1> QED
  BY <1>6, <1>7

\* The loop arrives at what Index describes, for any entries.
LEMMA LoopIsIndex ==
  ASSUME NEW es \in Seq(Entry)
  PROVE  Index(es) = PutAll(es)
<1> DEFINE L == Len(es)
           body(t) == [n \in 0 .. L |-> IF n = 0 THEN <<>> ELSE MtPut(t[n - 1], es[n])]
           g == [n \in 0 .. L |-> Index(SubSeq(es, 1, n))]
           t == CHOOSE t : t = body(t)
<1>1. L \in Nat
  OBVIOUS
<1>2. g = body(g)
  <2>1. Index(SubSeq(es, 1, 0)) = <<>>
    <3>1. SubSeq(es, 1, 0) = <<>> /\ SubSeq(es, 1, 0) \in Seq(Entry)
      OBVIOUS
    <3>2. Index(<<>>) \in Seq(Entry) /\ Len(Index(<<>>)) <= Len(<<>>)
      BY <3>1, IndexFacts
    <3>3. Len(Index(<<>>)) = 0
      BY <3>2
    <3> QED
      BY <3>1, <3>2, <3>3, EmptySeq
  <2>2. ASSUME NEW n \in 0 .. L, n # 0
        PROVE  Index(SubSeq(es, 1, n)) = MtPut(Index(SubSeq(es, 1, n - 1)), es[n])
    <3>1. n \in 1 .. L /\ n - 1 \in 0 .. L
      BY <1>1, <2>2
    <3>2. es[n] \in Entry /\ SubSeq(es, 1, n - 1) \in Seq(Entry)
      BY <3>1
    <3>3. SubSeq(es, 1, n) = Append(SubSeq(es, 1, n - 1), es[n])
      BY <3>1
    <3> QED
      BY <3>2, <3>3, IndexAppend
  <2>3. ASSUME NEW n \in 0 .. L
        PROVE  g[n] = IF n = 0 THEN <<>> ELSE MtPut(g[n - 1], es[n])
    <3>1. n # 0 => n - 1 \in 0 .. L
      BY <1>1
    <3> QED
      BY <2>1, <2>2, <3>1
  <2> QED
    BY <2>3
<1>3. t = body(t)
  <2>1. \E u : u = body(u)
    BY <1>2
  <2> HIDE DEF body
  <2> QED
    BY <2>1
<1>4. /\ t[0] = <<>>
      /\ \A n \in 1 .. L : t[n] = MtPut(t[n - 1], es[n])
  <2>1. \A n \in 0 .. L : body(t)[n] = IF n = 0 THEN <<>> ELSE MtPut(t[n - 1], es[n])
    <3> HIDE DEF t
    <3> QED
      OBVIOUS
  <2> HIDE DEF t, body
  <2>2. \A n \in 0 .. L : t[n] = IF n = 0 THEN <<>> ELSE MtPut(t[n - 1], es[n])
    BY <1>3, <2>1
  <2> QED
    BY <1>1, <2>2
<1>5. /\ g[0] = <<>>
      /\ \A n \in 1 .. L : g[n] = MtPut(g[n - 1], es[n])
  <2>1. \A n \in 0 .. L : body(g)[n] = IF n = 0 THEN <<>> ELSE MtPut(g[n - 1], es[n])
    <3> HIDE DEF g
    <3> QED
      OBVIOUS
  <2> HIDE DEF g, body
  <2>2. \A n \in 0 .. L : g[n] = IF n = 0 THEN <<>> ELSE MtPut(g[n - 1], es[n])
    BY <1>2, <2>1
  <2> QED
    BY <1>1, <2>2
<1>6. PutAll(es) = t[L]
  BY DEF PutAll
<1>7. g[L] = Index(es)
  <2>1. g[L] = Index(SubSeq(es, 1, L)) /\ SubSeq(es, 1, L) = es
    BY <1>1
  <2> QED
    BY <2>1
<1> DEFINE S == {n \in 1 .. L : t[n] # g[n]}
<1> HIDE DEF t, g
<1>8. S = {}
  <2>1. ASSUME S # {}
        PROVE  FALSE
    <3>1. PICK p \in S : \A q \in S : p <= q
      BY <1>1, <2>1, LeastExists
    <3>2. p \in 1 .. L /\ p - 1 \notin S
      BY <3>1
    <3>3. t[p - 1] = g[p - 1]
      BY <1>1, <1>4, <1>5, <3>2
    <3>4. t[p] = g[p]
      BY <1>4, <1>5, <3>2, <3>3
    <3> QED
      BY <3>1, <3>4
  <2> QED
    BY <2>1
<1>9. t[L] = g[L]
  BY <1>1, <1>4, <1>5, <1>8
<1> QED
  BY <1>6, <1>7, <1>9

\* The memtable rebuilt at opening is the one the loop of the code arrives at.
LEMMA TypesMakeFold == TypeOK => IndexIsFold
<1> SUFFICES ASSUME TypeOK PROVE IndexIsFold
  OBVIOUS
<1> DEFINE es == LayerEntries(Main, main) \o LayerEntries(Wal, wal)
                   \o SstEntries(sst, sstPos, sstCount)
<1>1. es \in Seq(Entry)
  BY RebuildTypes
<1> HIDE DEF es
<1>2. Index(es) = PutAll(es)
  BY <1>1, LoopIsIndex
<1> QED
  BY <1>2 DEF es, IndexIsFold

\* Index, which knows each class's last record at once, is the loop of
\* kv_rebuild_mt_from_map over any files the store can have.
THEOREM IndexIsTheLoop == Spec => []IndexIsFold
<1>1. TypeOK => IndexIsFold
  BY TypesMakeFold
<1> QED
  BY <1>1, TypeCorrect, PTL
=============================================================================
