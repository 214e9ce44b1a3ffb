---------------------------- MODULE KvDictProofs ----------------------------
(***************************************************************************)
(* What get answers from the memtable with a record of the log or the main *)
(* file is the latest value, get answers nothing older than the frozen     *)
(* levels, and the merge of two levels keeps the newest value of every     *)
(* key.                                                                    *)
(*                                                                         *)
(* Then KvCrash: what a crash leaves is well formed, and its levels hold   *)
(* one record of a class.                                                  *)
(*                                                                         *)
(* Last, the contents.  No two keys share a hash and a length, every key   *)
(* fits the memtable and a level, and the log is no larger than the main   *)
(* file: then the store is the dictionary of KvDict, which forgets keys    *)
(* when a compaction finds all slots used, and what closing it or a crash  *)
(* can lose is bounded.                                                    *)
(***************************************************************************)
EXTENDS KvCrash, KvStoreProofs

KeysApart == \A k, l \in Keys : KeyClass[k] = KeyClass[l] => k = l

\* The memtable and a frozen level have room for all keys; the log is no larger
\* than the main file, so that a flush that does not overrun it empties it.
TableFits == Cardinality(Keys) <= MtCap
LevelFits == Cardinality(Keys) <= Cap
LogFits == WalCap <= Cap

Sized == TableFits /\ LevelFits /\ LogFits

-----------------------------------------------------------------------------
(* The last value of a key in a sequence of records. *)

\* A record after which the key does not occur gives the key's last value.
LEMMA LastValIs ==
  ASSUME NEW s \in Seq(Record), NEW k, NEW i \in DOMAIN s, s[i].key = k,
         \A j \in DOMAIN s : s[j].key = k => j <= i
  PROVE  LastVal(s, k) = s[i].val
<1> DEFINE P(p) == s[p].key = k /\ \A j \in DOMAIN s : s[j].key = k => j <= p
<1>1. ASSUME NEW p \in DOMAIN s, P(p)
      PROVE  p = i
  <2>1. p <= i /\ i <= p /\ p \in Int /\ i \in Int
    BY <1>1
  <2> QED
    BY <2>1
<1>2. i \in DOMAIN s /\ P(i)
  OBVIOUS
<1>3. (CHOOSE p \in DOMAIN s : P(p)) = i
  BY <1>1, <1>2
<1> QED
  BY <1>2, <1>3 DEF LastVal

\* A key that does not occur has no value.
LEMMA LastValNone ==
  ASSUME NEW s \in Seq(Record), NEW k, \A i \in DOMAIN s : s[i].key # k
  PROVE  LastVal(s, k) = NoVal
BY DEF LastVal

\* If the key occurs its last value is that of its last record, so not NoVal.
LEMMA LastValOccurs ==
  ASSUME NEW s \in Seq(Record), NEW k, NEW o \in DOMAIN s, s[o].key = k
  PROVE  \E i \in DOMAIN s :
           /\ s[i].key = k /\ \A j \in DOMAIN s : s[j].key = k => j <= i
           /\ LastVal(s, k) = s[i].val /\ LastVal(s, k) # NoVal
<1> DEFINE S == {p \in DOMAIN s : s[p].key = k}
<1>1. S \in SUBSET (1 .. Len(s)) /\ Len(s) \in Nat /\ S # {}
  OBVIOUS
<1>2. PICK i \in S : \A q \in S : q <= i
  BY <1>1, GreatestExists
<1>3. LastVal(s, k) = s[i].val
  BY <1>2, LastValIs
<1>4. s[i].val \in Vals
  <2>1. s[i] \in Record
    OBVIOUS
  <2> QED
    BY <2>1 DEF Record
<1> QED
  BY <1>2, <1>3, <1>4, KvConstants

Newer(x, y) == IF y = NoVal THEN x ELSE y

\* In a concatenation the second part wins.
LEMMA LastValConcat ==
  ASSUME NEW a \in Seq(Record), NEW b \in Seq(Record), NEW k
  PROVE  LastVal(a \o b, k) = Newer(LastVal(a, k), LastVal(b, k))
<1> DEFINE c == a \o b
<1>1. /\ c \in Seq(Record) /\ Len(c) = Len(a) + Len(b)
      /\ Len(a) \in Nat /\ Len(b) \in Nat
      /\ DOMAIN a = 1 .. Len(a) /\ DOMAIN b = 1 .. Len(b)
      /\ DOMAIN c = 1 .. Len(a) + Len(b)
  BY ConcatProperties
<1>2. ASSUME NEW i \in 1 .. Len(a) + Len(b)
      PROVE  c[i] = IF i <= Len(a) THEN a[i] ELSE b[i - Len(a)]
  BY ConcatProperties
<1> HIDE DEF c
<1>3. CASE \E o \in DOMAIN b : b[o].key = k
  <2>1. PICK i \in DOMAIN b :
           /\ b[i].key = k /\ \A j \in DOMAIN b : b[j].key = k => j <= i
           /\ LastVal(b, k) = b[i].val /\ LastVal(b, k) # NoVal
    BY <1>3, LastValOccurs
  <2> DEFINE p == Len(a) + i
  <2>2. p \in DOMAIN c /\ c[p] = b[i]
    <3>1. p \in 1 .. Len(a) + Len(b) /\ ~(p <= Len(a)) /\ p - Len(a) = i
      BY <1>1, <2>1
    <3> QED
      BY <1>1, <1>2, <3>1
  <2>3. ASSUME NEW j \in DOMAIN c, c[j].key = k
        PROVE  j <= p
    <3>1. j \in 1 .. Len(a) + Len(b) /\ i \in 1 .. Len(b)
      BY <1>1
    <3>2. CASE j <= Len(a)
      BY <1>1, <3>1, <3>2
    <3>3. CASE ~(j <= Len(a))
      <4>1. c[j] = b[j - Len(a)] /\ j - Len(a) \in DOMAIN b
        BY <1>1, <1>2, <3>1, <3>3
      <4>2. j - Len(a) <= i
        BY <2>1, <2>3, <4>1
      <4> QED
        BY <1>1, <3>1, <4>2
    <3> QED
      BY <3>2, <3>3
  <2>4. LastVal(c, k) = b[i].val
    <3>1. c[p].key = k
      BY <2>1, <2>2
    <3>2. \A j \in DOMAIN c : c[j].key = k => j <= p
      BY <2>3
    <3> HIDE DEF p
    <3>3. LastVal(c, k) = c[p].val
      BY <1>1, <2>2, <3>1, <3>2, LastValIs
    <3> QED
      BY <2>2, <3>3
  <2> QED
    BY <2>1, <2>4 DEF c, Newer
<1>4. CASE ~(\E o \in DOMAIN b : b[o].key = k) /\ \E o \in DOMAIN a : a[o].key = k
  <2>1. LastVal(b, k) = NoVal
    BY <1>4, LastValNone
  <2>2. PICK i \in DOMAIN a :
           /\ a[i].key = k /\ \A j \in DOMAIN a : a[j].key = k => j <= i
           /\ LastVal(a, k) = a[i].val
    BY <1>4, LastValOccurs
  <2>3. i \in DOMAIN c /\ c[i] = a[i]
    BY <1>1, <1>2, <2>2
  <2>4. ASSUME NEW j \in DOMAIN c, c[j].key = k
        PROVE  j <= i
    <3>1. j \in 1 .. Len(a) + Len(b)
      BY <1>1
    <3>2. CASE j <= Len(a)
      BY <1>1, <1>2, <2>2, <2>4, <3>1, <3>2
    <3>3. CASE ~(j <= Len(a))
      <4>1. c[j] = b[j - Len(a)] /\ j - Len(a) \in DOMAIN b
        BY <1>1, <1>2, <3>1, <3>3
      <4> QED
        BY <1>4, <2>4, <4>1
    <3> QED
      BY <3>2, <3>3
  <2>5. LastVal(c, k) = a[i].val
    <3>1. c[i].key = k /\ \A j \in DOMAIN c : c[j].key = k => j <= i
      BY <2>2, <2>3, <2>4
    <3>2. LastVal(c, k) = c[i].val
      BY <1>1, <2>3, <3>1, LastValIs
    <3> QED
      BY <2>3, <3>2
  <2> QED
    BY <2>1, <2>2, <2>5 DEF c, Newer
<1>5. CASE ~(\E o \in DOMAIN b : b[o].key = k) /\ ~(\E o \in DOMAIN a : a[o].key = k)
  <2>1. LastVal(b, k) = NoVal /\ LastVal(a, k) = NoVal
    BY <1>5, LastValNone
  <2>2. ASSUME NEW j \in DOMAIN c
        PROVE  c[j].key # k
    <3>1. j \in 1 .. Len(a) + Len(b)
      BY <1>1
    <3>2. CASE j <= Len(a)
      BY <1>1, <1>2, <1>5, <3>1, <3>2
    <3>3. CASE ~(j <= Len(a))
      <4>1. c[j] = b[j - Len(a)] /\ j - Len(a) \in DOMAIN b
        BY <1>1, <1>2, <3>1, <3>3
      <4> QED
        BY <1>5, <4>1
    <3> QED
      BY <3>2, <3>3
  <2>3. LastVal(c, k) = NoVal
    BY <1>1, <2>2, LastValNone
  <2> QED
    BY <2>1, <2>3 DEF c, Newer
<1> QED
  BY <1>3, <1>4, <1>5

-----------------------------------------------------------------------------
(* Compaction. *)

\* The main file is a layer.
LEMMA MainLayer == Main \in Layers
BY DEF Layers

\* The classes of a file's records fit the memtable.
LEMMA ClassesFit ==
  ASSUME KeysApart, TableFits, NEW m \in Seq(Record)
  PROVE  Cardinality(FirstSeen(LayerEntries(Main, m))) <= MtCap
<1> DEFINE es == LayerEntries(Main, m)  F == FirstSeen(es)
           f == [p \in F |-> m[p].key]
<1>1. es \in Seq(Entry) /\ DOMAIN es = 1 .. Len(m)
       /\ \A i \in 1 .. Len(m) : es[i].class = KeyClass[m[i].key]
  BY MainLayer, LayerEntriesFacts
<1>2. F \in SUBSET (1 .. Len(m)) /\ Len(m) \in Nat
  BY <1>1 DEF FirstSeen
<1>3. \A p \in F : m[p] \in Record
  BY <1>2
<1>4. f \in [F -> Keys]
  BY <1>3 DEF Record
<1>5. ASSUME NEW p \in F, NEW q \in F, f[p] = f[q]
      PROVE  p = q
  <2>1. es[p].class = es[q].class
    BY <1>1, <1>2, <1>5
  <2>2. p \in Int /\ q \in Int /\ p \in DOMAIN es /\ q \in DOMAIN es
    BY <1>1, <1>2
  <2> QED
    BY <2>1, <2>2 DEF FirstSeen
<1>6. f \in Injection(F, Keys)
  BY <1>4, <1>5 DEF Injection, IsInjective
<1>7. Cardinality(F) <= Cardinality(Keys) /\ IsFiniteSet(F)
  BY <1>6, FS_Injection, KvConstants
<1>8. Cardinality(F) \in Nat /\ Cardinality(Keys) \in Nat /\ MtCap \in Nat
  BY <1>7, FS_CardinalityType, KvConstants
<1> QED
  BY <1>7, <1>8 DEF TableFits

\* Compacting keeps the last value of every key.
LEMMA CompactedKeeps ==
  ASSUME KeysApart, TableFits, NEW m \in Seq(Record), NEW k \in Keys
  PROVE  LastVal(Compacted(m), k) = LastVal(m, k)
<1> DEFINE es == LayerEntries(Main, m)  t == Index(es)  d == Compacted(m)
<1>1. es \in Seq(Entry) /\ DOMAIN es = 1 .. Len(m) /\ DOMAIN m = 1 .. Len(m)
       /\ \A i \in 1 .. Len(m) : es[i].class = KeyClass[m[i].key] /\ es[i].off = i
  BY MainLayer, LayerEntriesFacts
<1>2. /\ t \in Seq(Entry)
      /\ \A i \in DOMAIN t : \E p \in DOMAIN es :
           t[i] = es[p] /\ \A q \in DOMAIN es : es[q].class = es[p].class => q <= p
      /\ \A i, j \in DOMAIN t : t[i].class = t[j].class => i = j
      /\ \A p \in DOMAIN es : \E i \in DOMAIN t : t[i].class = es[p].class
  BY <1>1, IndexFacts, ClassesFit
<1>3. d = [i \in DOMAIN t |-> m[t[i].off]] /\ d \in Seq(Record)
  BY CompactedType DEF Compacted
<1>4. \A i \in 1 .. Len(m) : m[i].key \in Keys
  <2> TAKE i \in 1 .. Len(m)
  <2>1. m[i] \in Record
    OBVIOUS
  <2> QED
    BY <2>1 DEF Record
<1>5. ASSUME NEW i \in DOMAIN t
      PROVE  \E p \in 1 .. Len(m) :
               /\ d[i] = m[p] /\ t[i].class = KeyClass[m[p].key]
               /\ \A q \in 1 .. Len(m) : m[q].key = m[p].key => q <= p
  <2>1. PICK p \in DOMAIN es :
           t[i] = es[p] /\ \A q \in DOMAIN es : es[q].class = es[p].class => q <= p
    BY <1>2
  <2>2. p \in 1 .. Len(m) /\ t[i].off = p /\ t[i].class = KeyClass[m[p].key]
    BY <1>1, <2>1
  <2>3. d[i] = m[p]
    BY <1>3, <2>2
  <2>4. \A q \in 1 .. Len(m) : m[q].key = m[p].key => q <= p
    BY <1>1, <2>1, <2>2
  <2> QED
    BY <2>2, <2>3, <2>4
<1> HIDE DEF d, t, es
<1>6. CASE \E o \in DOMAIN m : m[o].key = k
  <2>1. PICK o \in DOMAIN m : m[o].key = k
    BY <1>6
  <2>2. PICK i \in DOMAIN t : t[i].class = KeyClass[k]
    <3>1. o \in DOMAIN es /\ es[o].class = KeyClass[k]
      BY <1>1, <2>1
    <3> QED
      BY <1>2, <3>1
  <2>3. PICK p \in 1 .. Len(m) :
               /\ d[i] = m[p] /\ t[i].class = KeyClass[m[p].key]
               /\ \A q \in 1 .. Len(m) : m[q].key = m[p].key => q <= p
    BY <1>5
  <2>4. m[p].key = k
    BY <1>4, <2>2, <2>3 DEF KeysApart
  <2>5. LastVal(m, k) = m[p].val
    BY <1>1, <2>3, <2>4, LastValIs
  <2>6. ASSUME NEW j \in DOMAIN d, d[j].key = k
        PROVE  j <= i
    <3>1. j \in DOMAIN t
      BY <1>3
    <3>2. t[j].class = KeyClass[k]
      BY <1>5, <2>6, <3>1
    <3>3. j = i
      BY <1>2, <2>2, <3>1, <3>2
    <3>4. i \in Int
      BY <1>2
    <3> QED
      BY <3>3, <3>4
  <2>7. i \in DOMAIN d /\ d[i].key = k
    BY <1>3, <2>3, <2>4
  <2>8. LastVal(d, k) = d[i].val
    BY <1>3, <2>6, <2>7, LastValIs
  <2> QED
    BY <2>3, <2>5, <2>8 DEF d
<1>7. CASE ~(\E o \in DOMAIN m : m[o].key = k)
  <2>1. \A i \in DOMAIN d : d[i].key # k
    BY <1>1, <1>3, <1>5, <1>7
  <2> QED
    BY <1>3, <1>7, <2>1, LastValNone DEF d
<1> QED
  BY <1>6, <1>7

-----------------------------------------------------------------------------
(* The contents, layer by layer. *)

\* An empty file has no value for any key.
LEMMA LastValEmpty == \A k : LastVal(<<>>, k) = NoVal
<1> TAKE k
<1>1. <<>> \in Seq(Record) /\ \A i \in DOMAIN <<>> : <<>>[i].key # k
  OBVIOUS
<1> QED
  BY <1>1, LastValNone

\* The value of a key is that of the newest layer that has one.
LEMMA LastValLayers ==
  ASSUME NEW a \in Seq(Record), NEW b \in Seq(Record), NEW c \in Seq(Record),
         NEW m \in Seq(Record), NEW w \in Seq(Record), NEW k
  PROVE  LastVal(a \o b \o c \o m \o w, k) =
           Newer(Newer(Newer(Newer(LastVal(a, k), LastVal(b, k)),
                             LastVal(c, k)), LastVal(m, k)), LastVal(w, k))
<1>1. a \o b \in Seq(Record) /\ LastVal(a \o b, k) = Newer(LastVal(a, k), LastVal(b, k))
  BY LastValConcat, ConcatProperties
<1>2. /\ a \o b \o c \in Seq(Record)
      /\ LastVal(a \o b \o c, k) = Newer(LastVal(a \o b, k), LastVal(c, k))
  BY <1>1, LastValConcat, ConcatProperties
<1>3. /\ a \o b \o c \o m \in Seq(Record)
      /\ LastVal(a \o b \o c \o m, k) = Newer(LastVal(a \o b \o c, k), LastVal(m, k))
  BY <1>2, LastValConcat, ConcatProperties
<1>4. LastVal(a \o b \o c \o m \o w, k) = Newer(LastVal(a \o b \o c \o m, k), LastVal(w, k))
  BY <1>3, LastValConcat
<1> QED
  BY <1>1, <1>2, <1>3, <1>4

\* The live part of a level is a sequence of records.
LEMMA LiveSstType ==
  ASSUME NEW s, NEW pos, LevelsOK(s, pos), NEW n, NEW i \in Slots
  PROVE  LiveSst(s, pos, n, i) \in Seq(Record)
BY LiveFacts DEF LiveSst

\* With a log no larger than the main file, and a main file that scans reach the
\* end of, a flush that lands in it moves all of the log.
LEMMA FlushMoves ==
  ASSUME TypeOK, gap = 0, LogFits
  PROVE  FlushedWal = <<>> /\ FlushedGap = 0 /\ FlushedMain = main \o wal
<1>1. Len(wal) \in Nat /\ Len(wal) <= WalCap /\ WalCap <= Cap /\ Cap \in Nat /\ WalCap \in Nat
  BY KvConstants DEF TypeOK, LogFits
<1>2. Len(wal) <= Cap
  BY <1>1
<1>3. FlushedWal = <<>> /\ FlushCount = Len(wal)
  BY <1>2 DEF FlushedWal, FlushCount
<1>4. SubSeq(wal, 1, Len(wal)) = wal
  BY SubSeqFull DEF TypeOK
<1> QED
  BY <1>3, <1>4 DEF FlushedMain, FlushedGap, CopiedMain, CopiedGap

-----------------------------------------------------------------------------
(* Puts, and steps that touch no file. *)

\* An acknowledged put is the dictionary's.
LEMMA PutRefines ==
  ASSUME TypeOK, NEW k \in Keys, NEW v \in Vals, Put(k, v)
  PROVE  Contents' = [Contents EXCEPT ![k] = v]
<1> DEFINE r == [key |-> k, val |-> v]  o == <<r>>
<1>1. r \in Record /\ o \in Seq(Record) /\ Len(o) = 1 /\ o[1] = r /\ DOMAIN o = {1}
  BY DEF Record
<1>2. Log \in Seq(Record)
  <2> DEFINE a == LiveSst(sst, sstPos, sstCount, 0)
             b == LiveSst(sst, sstPos, sstCount, 1)
             c == LiveSst(sst, sstPos, sstCount, 2)
  <2>1. LevelsOK(sst, sstPos) /\ 0 \in Slots /\ 1 \in Slots /\ 2 \in Slots
    BY DEF TypeOK, LevelsOK, Slots, SstSlots
  <2>2. a \in Seq(Record) /\ b \in Seq(Record) /\ c \in Seq(Record)
    BY <2>1, LiveSstType
  <2>3. main \in Seq(Record) /\ wal \in Seq(Record)
    BY DEF TypeOK
  <2> HIDE DEF a, b, c
  <2>4. a \o b \o c \o main \o wal \in Seq(Record)
    BY <2>2, <2>3, ConcatProperties
  <2> QED
    BY <2>4 DEF Log, Frozen, a, b, c
<1>3. Log' = Log \o o
  <2> DEFINE x == LiveSst(sst, sstPos, sstCount, 0) \o LiveSst(sst, sstPos, sstCount, 1)
                    \o LiveSst(sst, sstPos, sstCount, 2) \o main
  <2>1. Log = x \o wal /\ Log' = x \o Append(wal, r)
    BY DEF Log, Frozen, Put
  <2>2. x \in Seq(Record) /\ wal \in Seq(Record)
    <3>1. LevelsOK(sst, sstPos) /\ 0 \in Slots /\ 1 \in Slots /\ 2 \in Slots
      BY DEF TypeOK, LevelsOK, Slots, SstSlots
    <3>2. /\ LiveSst(sst, sstPos, sstCount, 0) \in Seq(Record)
          /\ LiveSst(sst, sstPos, sstCount, 1) \in Seq(Record)
          /\ LiveSst(sst, sstPos, sstCount, 2) \in Seq(Record)
      BY <3>1, LiveSstType
    <3> QED
      BY <3>2, ConcatProperties DEF TypeOK
  <2> HIDE DEF x
  <2>3. Append(wal, r) = wal \o o
    BY <1>1, <2>2, AppendIsConcat
  <2>4. x \o (wal \o o) = (x \o wal) \o o
    BY <1>1, <2>2, ConcatAssociative
  <2> QED
    BY <2>1, <2>3, <2>4
<1>4. ASSUME NEW l \in Keys
      PROVE  LastVal(Log', l) = IF l = k THEN v ELSE LastVal(Log, l)
  <2> HIDE DEF o
  <2>1. LastVal(Log', l) = Newer(LastVal(Log, l), LastVal(o, l))
    BY <1>1, <1>2, <1>3, LastValConcat
  <2>2. CASE l = k
    <3>1. LastVal(o, l) = o[1].val
      <4>1. 1 \in DOMAIN o /\ o[1].key = l /\ \A j \in DOMAIN o : o[j].key = l => j <= 1
        BY <1>1, <2>2
      <4> QED
        BY <1>1, <4>1, LastValIs
    <3> QED
      BY <1>1, <2>1, <2>2, <3>1, KvConstants DEF Newer
  <2>3. CASE l # k
    <3>1. LastVal(o, l) = NoVal
      <4>1. \A j \in DOMAIN o : o[j].key # l
        BY <1>1, <2>3
      <4> QED
        BY <1>1, <4>1, LastValNone
    <3> QED
      BY <2>1, <2>3, <3>1 DEF Newer
  <2> QED
    BY <2>2, <2>3
<1> QED
  BY <1>4 DEF Contents

\* A step that touches no file leaves the contents.
LEMMA SameFiles ==
  ASSUME UNCHANGED <<wal, main, sst, sstPos, sstCount>>
  PROVE  Contents' = Contents
BY DEF Contents, Log, Frozen

\* As long as there were fewer compactions than slots, a slot is free.
LevelsBelowGen == sstCount <= gen

\* Every level costs a compaction, so no step leaves more levels than those.
LEMMA LevelsBelowGenStep ==
  TypeOK /\ LevelsBelowGen /\ [Next]_vars => LevelsBelowGen'
<1> SUFFICES ASSUME TypeOK, LevelsBelowGen, [Next]_vars
             PROVE  LevelsBelowGen'
  OBVIOUS
<1>0. sstCount \in Nat /\ gen \in Nat /\ sstCount <= gen
  BY DEF TypeOK, LevelsBelowGen, SstSlots
<1>1. ASSUME UNCHANGED <<sstCount, gen>>
      PROVE  LevelsBelowGen'
  BY <1>1 DEF LevelsBelowGen
<1>2. CASE CompactMmapFails
  BY <1>0, <1>2 DEF CompactMmapFails, Compacting, LevelsBelowGen
<1>3. CASE CompactToNewLevel
  BY <1>0, <1>3 DEF CompactToNewLevel, Compacting, FreezeTo, LevelsBelowGen
<1>4. CASE CompactToFullLevels
  BY <1>0, <1>4 DEF CompactToFullLevels, Compacting, FreezeTo, LevelsBelowGen, SstSlots
<1>5. ASSUME NEW src \in {0, 1}, NEW written \in BOOLEAN, CompactMergeFails(src, written)
      PROVE  LevelsBelowGen'
  BY <1>0, <1>5 DEF CompactMergeFails, Compacting, LevelsBelowGen
<1>6. CASE CompactNothing
  BY <1>0, <1>6 DEF CompactNothing, Compacting, LevelsBelowGen
<1>7. CASE Open \/ Close \/ PutFull \/ WalFlush \/ FlushOverrun \/ CompactStopsEarly
             \/ UNCHANGED vars
  BY <1>1, <1>7 DEF Open, Close, PutFull, WalFlush, FlushOverrun, CompactStopsEarly,
     vars, files
<1>8. ASSUME NEW k \in Keys, NEW v \in Vals, Put(k, v)
      PROVE  LevelsBelowGen'
  BY <1>1, <1>8 DEF Put
<1>9. ASSUME NEW k \in Keys, NEW c \in OutCaps, Get(k, c)
      PROVE  LevelsBelowGen'
  BY <1>1, <1>9 DEF Get, files
<1> QED
  BY <1>2, <1>3, <1>4, <1>5, <1>6, <1>7, <1>8, <1>9 DEF Next

-----------------------------------------------------------------------------
(* What the memtable hits *)

\* Every buffer that get is called with holds every value.
BuffersFit == \A v \in Vals, c \in OutCaps : ValLen[v] <= c

\* If e names the log w or the main file m, and the record there is of its
\* class, no later record has that key.
Fresh(e, m, w) ==
  /\ e.layer = Wal /\ e.off <= Len(w) /\ KeyClass[w[e.off].key] = e.class =>
       \A j \in 1 .. Len(w) : w[j].key = w[e.off].key => j <= e.off
  /\ e.layer = Main /\ e.off <= Len(m) /\ KeyClass[m[e.off].key] = e.class =>
       /\ \A j \in 1 .. Len(m) : m[j].key = m[e.off].key => j <= e.off
       /\ \A j \in 1 .. Len(w) : w[j].key # m[e.off].key

AllFresh(es, m, w) == \A i \in 1 .. Len(es) : Fresh(es[i], m, w)

\* No entry names the log or the main file.
LevelsOnly(es) == \A i \in 1 .. Len(es) : es[i].layer # Main /\ es[i].layer # Wal

LEMMA LevelsOnlyFresh ==
  ASSUME NEW es \in Seq(Entry), LevelsOnly(es), NEW m, NEW w
  PROVE  AllFresh(es, m, w) /\ AllFresh(Index(es), m, w)
<1>1. AllFresh(es, m, w)
  BY DEF AllFresh, Fresh, LevelsOnly
<1>2. \A i \in 1 .. Len(Index(es)) : \E p \in 1 .. Len(es) : Index(es)[i] = es[p]
  <2>1. /\ Index(es) \in Seq(Entry)
        /\ \A i \in DOMAIN Index(es) : \E p \in DOMAIN es : Index(es)[i] = es[p]
    BY IndexFacts
  <2> QED
    BY <2>1
<1>3. AllFresh(Index(es), m, w)
  BY <1>1, <1>2 DEF AllFresh
<1> QED
  BY <1>1, <1>3

LEMMA SstLevelsOnly ==
  ASSUME NEW s, NEW pos, LevelsOK(s, pos), NEW n \in Nat
  PROVE  SstEntries(s, pos, n) \in Seq(Entry) /\ LevelsOnly(SstEntries(s, pos, n))
<1> DEFINE At(i) == IF i < n THEN LayerEntries(SstBase + i, Live(s, pos, i)) ELSE <<>>
<1>1. ASSUME NEW i \in Slots
      PROVE  At(i) \in Seq(Entry) /\ LevelsOnly(At(i))
  <2>1. SstBase + i \in Layers /\ SstBase + i # Wal /\ SstBase + i # Main
    BY DEF Layers, Slots, SstBase, Wal, Main
  <2>2. Live(s, pos, i) \in Seq(Record)
    BY LiveFacts
  <2>3. /\ LayerEntries(SstBase + i, Live(s, pos, i)) \in Seq(Entry)
        /\ LevelsOnly(LayerEntries(SstBase + i, Live(s, pos, i)))
    BY <2>1, <2>2, LayerEntriesFacts DEF LevelsOnly
  <2>4. <<>> \in Seq(Entry) /\ LevelsOnly(<<>>)
    BY DEF LevelsOnly
  <2> QED
    BY <2>3, <2>4
<1>2. At(0) \in Seq(Entry) /\ At(1) \in Seq(Entry) /\ At(2) \in Seq(Entry)
      /\ LevelsOnly(At(0)) /\ LevelsOnly(At(1)) /\ LevelsOnly(At(2))
  BY <1>1 DEF Slots, SstSlots
<1>3. SstEntries(s, pos, n) = At(0) \o At(1) \o At(2)
  BY DEF SstEntries
<1> HIDE DEF At
<1>4. ASSUME NEW a \in Seq(Entry), NEW b \in Seq(Entry), LevelsOnly(a), LevelsOnly(b)
      PROVE  a \o b \in Seq(Entry) /\ LevelsOnly(a \o b)
  <2>1. /\ a \o b \in Seq(Entry) /\ Len(a \o b) = Len(a) + Len(b)
        /\ Len(a) \in Nat /\ Len(b) \in Nat
        /\ \A i \in 1 .. Len(a) + Len(b) :
             (a \o b)[i] = IF i <= Len(a) THEN a[i] ELSE b[i - Len(a)]
    BY ConcatProperties
  <2>2. ASSUME NEW i \in 1 .. Len(a) + Len(b)
        PROVE  (a \o b)[i].layer # Main /\ (a \o b)[i].layer # Wal
    <3>1. i <= Len(a) \/ (~(i <= Len(a)) /\ i - Len(a) \in 1 .. Len(b))
      BY <2>1
    <3>2. i <= Len(a) => i \in 1 .. Len(a)
      BY <2>1
    <3> QED
      BY <1>4, <2>1, <3>1, <3>2 DEF LevelsOnly
  <2> QED
    BY <2>1, <2>2 DEF LevelsOnly
<1>5. At(0) \o At(1) \in Seq(Entry) /\ LevelsOnly(At(0) \o At(1))
  BY <1>2, <1>4
<1>6. At(0) \o At(1) \o At(2) \in Seq(Entry) /\ LevelsOnly(At(0) \o At(1) \o At(2))
  BY <1>2, <1>4, <1>5
<1> QED
  BY <1>3, <1>6

LEMMA MergeLevelsOnly ==
  ASSUME NEW s, NEW pos, LevelsOK(s, pos), NEW src \in {0, 1}
  PROVE  MergeEntries(s, pos, src) \in Seq(Entry) /\ LevelsOnly(MergeEntries(s, pos, src))
<1> DEFINE es == MergeEntries(s, pos, src)
<1>1. es \in Seq(Entry) /\ \A p \in DOMAIN es : es[p].layer - SstBase \in Slots
  BY MergeEntriesType
<1> HIDE DEF es
<1>2. ASSUME NEW p \in 1 .. Len(es)
      PROVE  es[p].layer # Main /\ es[p].layer # Wal
  BY <1>1 DEF Main, Wal, SstBase, Slots, SstSlots
<1> QED
  BY <1>1, <1>2 DEF LevelsOnly, es

\* The memtable rebuilt from the main file, the log and levels is fresh.
LEMMA RebuildFresh ==
  ASSUME NEW m \in Seq(Record), NEW w \in Seq(Record), NEW s \in Seq(Entry), LevelsOnly(s)
  PROVE  AllFresh(Index(LayerEntries(Main, m) \o LayerEntries(Wal, w) \o s), m, w)
<1> DEFINE a == LayerEntries(Main, m)  b == LayerEntries(Wal, w)  es == a \o b \o s
<1>1. /\ a \in Seq(Entry) /\ Len(a) = Len(m) /\ Len(m) \in Nat
      /\ \A i \in 1 .. Len(m) :
           a[i].class = KeyClass[m[i].key] /\ a[i].layer = Main /\ a[i].off = i
  BY LayerNumbers, LayerEntriesFacts
<1>2. /\ b \in Seq(Entry) /\ Len(b) = Len(w) /\ Len(w) \in Nat
      /\ \A i \in 1 .. Len(w) :
           b[i].class = KeyClass[w[i].key] /\ b[i].layer = Wal /\ b[i].off = i
  BY LayerNumbers, LayerEntriesFacts
<1> HIDE DEF a, b
<1>3. /\ a \o b \in Seq(Entry) /\ Len(a \o b) = Len(m) + Len(w)
      /\ \A i \in 1 .. Len(m) + Len(w) :
           (a \o b)[i] = IF i <= Len(m) THEN a[i] ELSE b[i - Len(m)]
  <2>1. a \in Seq(Entry) /\ b \in Seq(Entry)
    BY <1>1, <1>2
  <2>2. /\ a \o b \in Seq(Entry) /\ Len(a \o b) = Len(a) + Len(b)
        /\ \A i \in 1 .. Len(a) + Len(b) :
             (a \o b)[i] = IF i <= Len(a) THEN a[i] ELSE b[i - Len(a)]
    BY <2>1, ConcatProperties
  <2>3. Len(a) = Len(m) /\ Len(b) = Len(w)
    BY <1>1, <1>2
  <2> QED
    BY <2>2, <2>3
<1>4. /\ es \in Seq(Entry) /\ Len(es) = Len(m) + Len(w) + Len(s) /\ Len(s) \in Nat
      /\ \A i \in 1 .. Len(m) + Len(w) + Len(s) :
           es[i] = IF i <= Len(m) + Len(w) THEN (a \o b)[i] ELSE s[i - (Len(m) + Len(w))]
  <2> DEFINE c == a \o b
  <2>1. c \in Seq(Entry) /\ Len(c) = Len(m) + Len(w) /\ Len(s) \in Nat
    BY <1>3
  <2> HIDE DEF c
  <2>2. /\ c \o s \in Seq(Entry) /\ Len(c \o s) = Len(m) + Len(w) + Len(s)
        /\ \A i \in 1 .. Len(m) + Len(w) + Len(s) :
             (c \o s)[i] = IF i <= Len(m) + Len(w) THEN c[i] ELSE s[i - (Len(m) + Len(w))]
    <3>1. /\ c \o s \in Seq(Entry) /\ Len(c \o s) = Len(c) + Len(s)
          /\ \A i \in 1 .. Len(c) + Len(s) :
               (c \o s)[i] = IF i <= Len(c) THEN c[i] ELSE s[i - Len(c)]
      BY <2>1, ConcatProperties
    <3> QED
      BY <2>1, <3>1
  <2> QED
    BY <2>1, <2>2 DEF c
<1>5. \A i \in 1 .. Len(m) : es[i] = a[i] /\ i \in 1 .. Len(es)
  <2> TAKE i \in 1 .. Len(m)
  <2>1. /\ i \in 1 .. Len(m) + Len(w) + Len(s) /\ i \in 1 .. Len(m) + Len(w)
        /\ i <= Len(m) /\ i <= Len(m) + Len(w)
    BY <1>1, <1>2, <1>4
  <2>2. (a \o b)[i] = a[i]
    BY <1>3, <2>1
  <2> QED
    BY <1>4, <2>1, <2>2
<1>6. \A i \in 1 .. Len(w) : es[Len(m) + i] = b[i] /\ Len(m) + i \in 1 .. Len(es)
  <2> TAKE i \in 1 .. Len(w)
  <2>1. /\ Len(m) + i \in 1 .. Len(m) + Len(w) + Len(s) /\ Len(m) + i \in 1 .. Len(m) + Len(w)
        /\ ~(Len(m) + i <= Len(m)) /\ Len(m) + i - Len(m) = i /\ Len(m) + i <= Len(m) + Len(w)
    BY <1>1, <1>2, <1>4
  <2>2. (a \o b)[Len(m) + i] = b[Len(m) + i - Len(m)]
    BY <1>3, <2>1
  <2> QED
    BY <1>4, <2>1, <2>2
<1> HIDE DEF es
<1>7. ASSUME NEW p \in 1 .. Len(es),
             \A q \in 1 .. Len(es) : es[q].class = es[p].class => q <= p
      PROVE  Fresh(es[p], m, w)
  <2>1. CASE p \in 1 .. Len(m)
    <3>1. /\ es[p].layer = Main /\ es[p].off = p /\ es[p].class = KeyClass[m[p].key]
      BY <1>1, <1>5, <2>1
    <3>2. ASSUME NEW j \in 1 .. Len(m), m[j].key = m[p].key
          PROVE  j <= p
      BY <1>1, <1>5, <1>7, <2>1, <3>2
    <3>3. ASSUME NEW j \in 1 .. Len(w), w[j].key = m[p].key
          PROVE  FALSE
      <4>1. es[Len(m) + j].class = es[p].class /\ Len(m) + j \in 1 .. Len(es)
        BY <1>2, <1>6, <3>1, <3>3
      <4>2. Len(m) + j <= p
        BY <1>7, <4>1
      <4> QED
        BY <1>1, <2>1, <4>2
    <3> QED
      BY <3>1, <3>2, <3>3, LayerNumbers DEF Fresh
  <2>2. CASE p \in Len(m) + 1 .. Len(m) + Len(w)
    <3> DEFINE i == p - Len(m)
    <3>1. i \in 1 .. Len(w) /\ p = Len(m) + i
      BY <1>1, <1>2, <2>2
    <3> HIDE DEF i
    <3>2. es[p].layer = Wal /\ es[p].off = i /\ es[p].class = KeyClass[w[i].key]
      <4>1. es[p] = b[i]
        BY <1>6, <3>1
      <4>2. b[i].layer = Wal /\ b[i].off = i /\ b[i].class = KeyClass[w[i].key]
        BY <1>2, <3>1
      <4> QED
        BY <4>1, <4>2
    <3>3. ASSUME NEW j \in 1 .. Len(w), w[j].key = w[i].key
          PROVE  j <= i
      <4>1. es[Len(m) + j].class = es[p].class /\ Len(m) + j \in 1 .. Len(es)
        BY <1>2, <1>6, <3>2, <3>3
      <4>2. Len(m) + j <= Len(m) + i
        BY <1>7, <3>1, <4>1
      <4> QED
        BY <1>1, <3>1, <4>2
    <3> QED
      BY <3>2, <3>3, LayerNumbers DEF Fresh
  <2>3. CASE p \in Len(m) + Len(w) + 1 .. Len(es)
    <3> DEFINE i == p - (Len(m) + Len(w))
    <3>1. i \in 1 .. Len(s) /\ es[p] = s[i]
      BY <1>1, <1>2, <1>4, <2>3
    <3> HIDE DEF i
    <3> QED
      BY <3>1 DEF Fresh, LevelsOnly
  <2> QED
    BY <1>1, <1>2, <1>4, <2>1, <2>2, <2>3
<1>8. ASSUME NEW i \in 1 .. Len(Index(es))
      PROVE  Fresh(Index(es)[i], m, w)
  <2>1. /\ Index(es) \in Seq(Entry)
        /\ \A k \in DOMAIN Index(es) : \E p \in DOMAIN es :
             Index(es)[k] = es[p] /\ \A q \in DOMAIN es : es[q].class = es[p].class => q <= p
    BY <1>4, IndexFacts
  <2>2. PICK p \in 1 .. Len(es) :
          Index(es)[i] = es[p] /\ \A q \in 1 .. Len(es) : es[q].class = es[p].class => q <= p
    <3>1. i \in DOMAIN Index(es) /\ DOMAIN es = 1 .. Len(es)
      BY <1>4, <2>1
    <3> QED
      BY <2>1, <3>1
  <2> QED
    BY <1>7, <2>2
<1>9. AllFresh(Index(es), m, w)
  BY <1>8 DEF AllFresh
<1> QED
  BY <1>9 DEF es, a, b

\* What MtPut leaves in the table: the new entry, or entries of other classes.
LEMMA MtPutEntries ==
  ASSUME NEW t \in Seq(Entry), NEW e \in Entry, NEW i \in 1 .. Len(MtPut(t, e))
  PROVE  \/ MtPut(t, e)[i] = e
         \/ \E j \in 1 .. Len(t) : MtPut(t, e)[i] = t[j] /\ t[j].class # e.class
<1>1. Len(t) \in Nat /\ DOMAIN t = 1 .. Len(t)
  OBVIOUS
<1>2. CASE \E q \in DOMAIN t : t[q].class = e.class
  <2> DEFINE u == [q \in 1 .. Len(t) |-> IF t[q].class = e.class THEN e ELSE t[q]]
  <2>1. MtPut(t, e) = u
    BY <1>1, <1>2 DEF MtPut
  <2>2. Len(u) = Len(t)
    BY <1>1
  <2>3. u[i] = IF t[i].class = e.class THEN e ELSE t[i]
    BY <2>1, <2>2
  <2> HIDE DEF u
  <2> QED
    BY <2>1, <2>2, <2>3
<1>3. CASE ~(\E q \in DOMAIN t : t[q].class = e.class) /\ Len(t) < MtCap
  <2>1. MtPut(t, e) = Append(t, e)
    BY <1>3 DEF MtPut
  <2>2. /\ Len(Append(t, e)) = Len(t) + 1
        /\ \A q \in 1 .. Len(t) + 1 :
             \/ Append(t, e)[q] = e
             \/ q \in 1 .. Len(t) /\ Append(t, e)[q] = t[q]
    OBVIOUS
  <2> QED
    BY <1>1, <1>3, <2>1, <2>2
<1>4. CASE ~(\E q \in DOMAIN t : t[q].class = e.class) /\ ~(Len(t) < MtCap)
  BY <1>1, <1>4 DEF MtPut
<1> QED
  BY <1>2, <1>3, <1>4

\* A put of another class leaves an entry fresh.
LEMMA KeepFresh ==
  ASSUME NEW m \in Seq(Record), NEW w \in Seq(Record), NEW r \in Record,
         NEW e \in Entry, Fresh(e, m, w), e.class # KeyClass[r.key],
         e.layer = Wal => e.off <= Len(w)
  PROVE  Fresh(e, m, Append(w, r))
<1> DEFINE v == Append(w, r)
<1>1. /\ Len(v) = Len(w) + 1 /\ Len(w) \in Nat
      /\ \A i \in 1 .. Len(w) : v[i] = w[i]
      /\ v[Len(w) + 1] = r
  OBVIOUS
<1>2. e.off \in Nat /\ e.off >= 1
  BY DEF Entry
<1> HIDE DEF v
<1>3. ASSUME e.layer = Wal, KeyClass[v[e.off].key] = e.class,
             NEW j \in 1 .. Len(v), v[j].key = v[e.off].key
      PROVE  j <= e.off
  <2>1. e.off \in 1 .. Len(w) /\ v[e.off] = w[e.off]
    BY <1>1, <1>2, <1>3
  <2>2. j # Len(w) + 1
    BY <1>1, <1>3
  <2>3. j \in 1 .. Len(w) /\ v[j] = w[j]
    BY <1>1, <2>2
  <2> QED
    BY <1>3, <2>1, <2>3 DEF Fresh
<1>4. ASSUME e.layer = Main, e.off <= Len(m), KeyClass[m[e.off].key] = e.class,
             NEW j \in 1 .. Len(v)
      PROVE  v[j].key # m[e.off].key
  <2>1. CASE j = Len(w) + 1
    BY <1>1, <1>4, <2>1
  <2>2. CASE j # Len(w) + 1
    <3>1. j \in 1 .. Len(w) /\ v[j] = w[j]
      BY <1>1, <2>2
    <3> QED
      BY <1>4, <3>1 DEF Fresh
  <2> QED
    BY <2>1, <2>2
<1>5. Fresh(e, m, v)
  <2>1. e.layer = Main => Fresh(e, m, v)
    BY <1>4, LayerNumbers DEF Fresh
  <2>2. e.layer = Wal => Fresh(e, m, v)
    BY <1>3, LayerNumbers DEF Fresh
  <2> QED
    BY <2>1, <2>2 DEF Fresh
<1> QED
  BY <1>5 DEF v

\* Where the entries of three sequences are in their concatenation.
LEMMA ConcatThree ==
  ASSUME NEW x \in Seq(Entry), NEW y \in Seq(Entry), NEW z \in Seq(Entry)
  PROVE  /\ x \o y \o z \in Seq(Entry)
         /\ Len(x \o y \o z) = Len(x) + Len(y) + Len(z)
         /\ \A i \in 1 .. Len(x) : (x \o y \o z)[i] = x[i]
         /\ \A i \in 1 .. Len(y) : (x \o y \o z)[Len(x) + i] = y[i]
         /\ \A i \in 1 .. Len(z) : (x \o y \o z)[Len(x) + Len(y) + i] = z[i]
<1> DEFINE c == x \o y
<1>0. Len(x) \in Nat /\ Len(y) \in Nat /\ Len(z) \in Nat
  OBVIOUS
<1>1. /\ c \in Seq(Entry) /\ Len(c) = Len(x) + Len(y)
      /\ Len(x) \in Nat /\ Len(y) \in Nat /\ Len(z) \in Nat
      /\ \A i \in 1 .. Len(x) + Len(y) : c[i] = IF i <= Len(x) THEN x[i] ELSE y[i - Len(x)]
  BY <1>0, ConcatProperties
<1> HIDE DEF c
<1>2. /\ c \o z \in Seq(Entry) /\ Len(c \o z) = Len(c) + Len(z)
      /\ \A i \in 1 .. Len(c) + Len(z) :
           (c \o z)[i] = IF i <= Len(c) THEN c[i] ELSE z[i - Len(c)]
  <2>1. c \in Seq(Entry)
    BY <1>1
  <2> QED
    BY <2>1, ConcatProperties
<1>3. ASSUME NEW i \in 1 .. Len(x)
      PROVE  (c \o z)[i] = x[i]
  <2>1. i \in 1 .. Len(x) + Len(y) /\ i \in 1 .. Len(c) + Len(z) /\ i <= Len(x) /\ i <= Len(c)
    BY <1>1
  <2> QED
    BY <1>1, <1>2, <2>1
<1>4. ASSUME NEW i \in 1 .. Len(y)
      PROVE  (c \o z)[Len(x) + i] = y[i]
  <2>1. PICK p \in Nat : p = Len(x) + i
    BY <1>1
  <2>2. /\ p \in 1 .. Len(x) + Len(y) /\ p \in 1 .. Len(c) + Len(z)
        /\ ~(p <= Len(x)) /\ p <= Len(c) /\ p - Len(x) = i
    BY <1>1, <2>1
  <2>3. c[p] = y[i]
    BY <1>1, <2>2
  <2> QED
    BY <1>2, <2>1, <2>2, <2>3
<1>5. ASSUME NEW i \in 1 .. Len(z)
      PROVE  (c \o z)[Len(x) + Len(y) + i] = z[i]
  <2>1. PICK p \in Nat : p = Len(x) + Len(y) + i
    BY <1>1
  <2>2. p \in 1 .. Len(c) + Len(z) /\ ~(p <= Len(c)) /\ p - Len(c) = i
    BY <1>1, <2>1
  <2> QED
    BY <1>2, <2>1, <2>2
<1>6. Len(c \o z) = Len(x) + Len(y) + Len(z) /\ c \o z \in Seq(Entry)
  BY <1>1, <1>2
<1>7. c = x \o y
  BY DEF c
<1> QED
  BY <1>3, <1>4, <1>5, <1>6, <1>7, Zenon

\* What a scan of the files finds is fresh, when the buffer holds every value.
LEMMA FoundFresh ==
  ASSUME BuffersFit, TypeOK, NEW k \in Keys, NEW c \in OutCaps, Found(k, c) # {}
  PROVE  /\ LatestFound(k, c) \in Entry
         /\ Sound(LatestFound(k, c), wal)
         /\ Fresh(LatestFound(k, c), main, wal)
<1> DEFINE x == SstEntries(sst, sstPos, sstCount)
           y == LayerEntries(Main, main)  z == LayerEntries(Wal, wal)
<1>1. main \in Seq(Record) /\ wal \in Seq(Record)
  BY DEF TypeOK
<1>2. x \in Seq(Entry) /\ LevelsOnly(x)
  <2>1. LevelsOK(sst, sstPos) /\ sstCount \in Nat
    BY DEF TypeOK, LevelsOK, SstSlots
  <2> QED
    BY <2>1, SstLevelsOnly
<1>3. /\ y \in Seq(Entry) /\ Len(y) = Len(main) /\ Len(main) \in Nat
      /\ \A i \in 1 .. Len(main) :
           y[i].class = KeyClass[main[i].key] /\ y[i].layer = Main /\ y[i].off = i
  BY <1>1, LayerNumbers, LayerEntriesFacts
<1>4. /\ z \in Seq(Entry) /\ Len(z) = Len(wal) /\ Len(wal) \in Nat
      /\ \A i \in 1 .. Len(wal) :
           z[i].class = KeyClass[wal[i].key] /\ z[i].layer = Wal /\ z[i].off = i
  BY <1>1, LayerNumbers, LayerEntriesFacts
<1>5. ScanOrder = x \o y \o z
  BY DEF ScanOrder
<1> HIDE DEF x, y, z
<1> DEFINE lx == Len(x)  lm == Len(main)  lw == Len(wal)
<1>6. /\ ScanOrder \in Seq(Entry) /\ Len(ScanOrder) = lx + lm + lw /\ lx \in Nat
      /\ \A i \in 1 .. lx : ScanOrder[i] = x[i]
      /\ \A i \in 1 .. lm : ScanOrder[lx + i] = y[i]
      /\ \A i \in 1 .. lw : ScanOrder[lx + lm + i] = z[i]
  <2>0. /\ x \o y \o z \in Seq(Entry) /\ Len(x \o y \o z) = Len(x) + Len(y) + Len(z)
        /\ \A i \in 1 .. Len(x) : (x \o y \o z)[i] = x[i]
        /\ \A i \in 1 .. Len(y) : (x \o y \o z)[Len(x) + i] = y[i]
        /\ \A i \in 1 .. Len(z) : (x \o y \o z)[Len(x) + Len(y) + i] = z[i]
    <3>1. x \in Seq(Entry) /\ y \in Seq(Entry) /\ z \in Seq(Entry)
      BY <1>2, <1>3, <1>4
    <3> QED
      BY <3>1, ConcatThree
  <2>1. /\ ScanOrder \in Seq(Entry) /\ Len(ScanOrder) = Len(x) + Len(y) + Len(z)
        /\ \A i \in 1 .. Len(x) : ScanOrder[i] = x[i]
        /\ \A i \in 1 .. Len(y) : ScanOrder[Len(x) + i] = y[i]
        /\ \A i \in 1 .. Len(z) : ScanOrder[Len(x) + Len(y) + i] = z[i]
    BY <1>5, <2>0, Zenon
  <2>2. Len(x) \in Nat /\ Len(y) = lm /\ Len(z) = lw
    BY <1>2, <1>3, <1>4
  <2>3. Len(ScanOrder) = lx + lm + lw
    BY <2>1, <2>2
  <2>4. ASSUME NEW i \in 1 .. lm
        PROVE  ScanOrder[lx + i] = y[i]
    BY <2>1, <2>2, <2>4
  <2>5. ASSUME NEW i \in 1 .. lw
        PROVE  ScanOrder[lx + lm + i] = z[i]
    <3>1. i \in 1 .. Len(z) /\ Len(x) + Len(y) + i = lx + lm + i
      BY <2>2
    <3> QED
      BY <2>1, <3>1
  <2> QED
    BY <2>1, <2>2, <2>3, <2>4, <2>5
<1>7. \A i \in 1 .. lm : main[i] \in Record /\ main[i].key = k => ValLen[main[i].val] <= c
  BY <1>1 DEF Record, BuffersFit
<1>8. \A i \in 1 .. lw : wal[i] \in Record /\ wal[i].key = k => ValLen[wal[i].val] <= c
  BY <1>1 DEF Record, BuffersFit
<1>9. \A i \in 1 .. lm : main[i].key = k => lx + i \in Found(k, c)
  <2> SUFFICES ASSUME NEW i \in 1 .. lm, main[i].key = k
               PROVE  lx + i \in Found(k, c)
    OBVIOUS
  <2>1. lx + i \in 1 .. Len(ScanOrder)
    BY <1>3, <1>4, <1>6
  <2>2. ScanOrder[lx + i] = y[i]
    BY <1>6
  <2>3. y[i].layer = Main /\ y[i].off = i
    BY <1>3
  <2>4. ValLen[main[i].val] <= c
    BY <1>1, <1>7
  <2>5. LayerRecords(Main) = main
    BY LayerNumbers DEF LayerRecords
  <2>6. Readable(y[i], k, c)
    BY <1>3, <2>3, <2>4, <2>5 DEF Readable
  <2> QED
    BY <1>6, <2>1, <2>2, <2>6 DEF Found
<1>10. \A i \in 1 .. lw : wal[i].key = k => lx + lm + i \in Found(k, c)
  <2> SUFFICES ASSUME NEW i \in 1 .. lw, wal[i].key = k
               PROVE  lx + lm + i \in Found(k, c)
    OBVIOUS
  <2>1. lx + lm + i \in 1 .. Len(ScanOrder)
    BY <1>3, <1>4, <1>6
  <2>2. ScanOrder[lx + lm + i] = z[i]
    BY <1>6
  <2>3. z[i].layer = Wal /\ z[i].off = i
    BY <1>4
  <2>4. ValLen[wal[i].val] <= c
    BY <1>1, <1>8
  <2>5. LayerRecords(Wal) = wal
    BY DEF LayerRecords
  <2>6. Readable(z[i], k, c)
    BY <1>4, <2>3, <2>4, <2>5 DEF Readable
  <2> QED
    BY <1>6, <2>1, <2>2, <2>6 DEF Found
<1>11. Found(k, c) \in SUBSET (1 .. Len(ScanOrder)) /\ Len(ScanOrder) \in Nat
  BY <1>6 DEF Found
<1>12. \E p \in Found(k, c) : \A q \in Found(k, c) : q <= p
  BY <1>11, GreatestExists
<1>13. PICK p \in Found(k, c) :
         LatestFound(k, c) = ScanOrder[p] /\ \A q \in Found(k, c) : q <= p
  BY <1>12 DEF LatestFound
<1>14. p \in 1 .. Len(ScanOrder) /\ Readable(ScanOrder[p], k, c)
  BY <1>6, <1>11 DEF Found
<1>15. CASE p \in 1 .. lx
  <2>1. ScanOrder[p] = x[p]
    BY <1>6, <1>15
  <2>2. x[p].layer # Main /\ x[p].layer # Wal
    BY <1>2, <1>15 DEF LevelsOnly
  <2> QED
    BY <1>6, <1>13, <1>14, <2>1, <2>2 DEF Fresh, Sound
<1>16. CASE p \in lx + 1 .. lx + lm
  <2>1. PICK i \in 1 .. lm : p = lx + i
    <3>1. p - lx \in 1 .. lm /\ p = lx + (p - lx)
      BY <1>3, <1>6, <1>16
    <3> QED
      BY <3>1
  <2>2. ScanOrder[p] = y[i] /\ y[i].layer = Main /\ y[i].off = i
    BY <1>3, <1>6, <2>1
  <2>3. main[i].key = k
    BY <1>14, <2>2, LayerNumbers DEF Readable, LayerRecords
  <2>4. ASSUME NEW j \in 1 .. lm, main[j].key = k
        PROVE  j <= i
    <3>1. lx + j <= lx + i
      BY <1>9, <1>13, <2>1, <2>4
    <3> QED
      BY <1>3, <1>6, <3>1
  <2>5. ASSUME NEW j \in 1 .. lw, wal[j].key = k
        PROVE  FALSE
    <3>1. lx + lm + j <= lx + i
      BY <1>10, <1>13, <2>1, <2>5
    <3> QED
      BY <1>3, <1>4, <1>6, <3>1
  <2>6. Fresh(y[i], main, wal)
    BY <2>2, <2>3, <2>4, <2>5, LayerNumbers DEF Fresh
  <2>7. Sound(y[i], wal)
    BY <2>2, LayerNumbers DEF Sound
  <2> QED
    BY <1>6, <1>13, <1>14, <2>2, <2>6, <2>7
<1>17. CASE p \in lx + lm + 1 .. lx + lm + lw
  <2>1. PICK i \in 1 .. lw : p = lx + lm + i
    <3>1. p - (lx + lm) \in 1 .. lw /\ p = lx + lm + (p - (lx + lm))
      BY <1>3, <1>4, <1>6, <1>17
    <3> QED
      BY <3>1
  <2>2. ScanOrder[p] = z[i] /\ z[i].layer = Wal /\ z[i].off = i /\ z[i].class = KeyClass[wal[i].key]
    BY <1>4, <1>6, <2>1
  <2>3. wal[i].key = k
    BY <1>14, <2>2 DEF Readable, LayerRecords
  <2>4. ASSUME NEW j \in 1 .. lw, wal[j].key = k
        PROVE  j <= i
    <3>1. lx + lm + j <= lx + lm + i
      BY <1>10, <1>13, <2>1, <2>4
    <3> QED
      BY <1>3, <1>4, <1>6, <3>1
  <2>5. Fresh(z[i], main, wal)
    BY <2>2, <2>3, <2>4, LayerNumbers DEF Fresh
  <2>6. Sound(z[i], wal)
    BY <1>4, <2>2 DEF Sound
  <2> QED
    BY <1>6, <1>13, <1>14, <2>2, <2>5, <2>6
<1> QED
  BY <1>3, <1>4, <1>6, <1>14, <1>15, <1>16, <1>17

\* A flush that fits empties the log.
LEMMA FlushEmpties ==
  ASSUME TypeOK, LogFits
  PROVE  FlushedWal = <<>> /\ Len(wal) <= Cap
<1>1. Len(wal) \in Nat /\ Len(wal) <= WalCap /\ WalCap <= Cap /\ Cap \in Nat /\ WalCap \in Nat
  BY KvConstants DEF TypeOK, LogFits
<1>2. Len(wal) <= Cap
  BY <1>1
<1> QED
  BY <1>2 DEF FlushedWal

\* With an empty log: the memtable rebuilt from the main file and levels.
LEMMA FlushedFresh ==
  ASSUME NEW m \in Seq(Record), NEW s \in Seq(Entry), LevelsOnly(s)
  PROVE  /\ AllFresh(Index(LayerEntries(Main, m) \o s), m, <<>>)
         /\ AllFresh(Index(LayerEntries(Main, m)), m, <<>>)
<1> DEFINE a == LayerEntries(Main, m)  b == LayerEntries(Wal, <<>>)
<1>1. <<>> \in Seq(Record) /\ <<>> \in Seq(Entry) /\ LevelsOnly(<<>>) /\ Len(<<>>) = 0
  BY DEF LevelsOnly
<1>2. a \in Seq(Entry) /\ b \in Seq(Entry) /\ Len(b) = 0
  BY <1>1, LayerNumbers, LayerEntriesFacts
<1> HIDE DEF a, b
<1>3. b = <<>>
  BY <1>2, EmptySeq
<1>4. a \o b = a /\ a \o <<>> = a
  BY <1>2, <1>3, ConcatEmptySeq
<1>5. AllFresh(Index(a \o b \o s), m, <<>>)
  BY <1>1, RebuildFresh DEF a, b
<1>6. AllFresh(Index(a \o b \o <<>>), m, <<>>)
  BY <1>1, RebuildFresh DEF a, b
<1>7. AllFresh(Index(a \o s), m, <<>>) /\ AllFresh(Index(a), m, <<>>)
  BY <1>4, <1>5, <1>6
<1> QED
  BY <1>7 DEF a

\* Nothing names a record of empty files.
LEMMA EmptyFresh ==
  ASSUME NEW t \in Seq(Entry)
  PROVE  AllFresh(t, <<>>, <<>>)
<1>1. ASSUME NEW i \in 1 .. Len(t)
      PROVE  Fresh(t[i], <<>>, <<>>)
  <2>1. t[i] \in Entry
    OBVIOUS
  <2>2. t[i].off \in Nat /\ t[i].off # 0
    BY <2>1 DEF Entry
  <2>3. ~(t[i].off <= 0) /\ Len(<<>>) = 0
    BY <2>2
  <2> QED
    BY <2>3 DEF Fresh
<1> QED
  BY <1>1 DEF AllFresh

LEMMA FreshKept ==
  ASSUME BuffersFit, LogFits
  PROVE  TypeOK /\ AllSound(mt, wal) /\ AllFresh(mt, main, wal) /\ [Next]_vars /\ ~FlushOverrun
           => AllFresh(mt', main', wal')
<1> SUFFICES ASSUME TypeOK, AllSound(mt, wal), AllFresh(mt, main, wal), [Next]_vars, ~FlushOverrun
             PROVE  AllFresh(mt', main', wal')
  OBVIOUS
<1>0. /\ LevelsOK(sst, sstPos) /\ sstCount \in Nat
      /\ main \in Seq(Record) /\ wal \in Seq(Record) /\ mt \in Seq(Entry)
  BY DEF TypeOK, LevelsOK, SstSlots
<1>1. FlushedWal = <<>> /\ Len(wal) <= Cap
  BY FlushEmpties
<1>2. SstEntries(sst, sstPos, sstCount) \in Seq(Entry)
      /\ LevelsOnly(SstEntries(sst, sstPos, sstCount))
  BY <1>0, SstLevelsOnly
<1>3. CASE Open
  <2>1. /\ mt' = Index(LayerEntries(Main, main) \o LayerEntries(Wal, wal)
                         \o SstEntries(sst, sstPos, sstCount))
        /\ main' = main /\ wal' = wal
    BY <1>3 DEF Open, files
  <2>2. AllFresh(mt', main, wal)
    BY <1>0, <1>2, <2>1, RebuildFresh
  <2> QED
    BY <2>1, <2>2
<1>4. CASE Close
  BY <1>4 DEF Close, AllFresh
<1>5. ASSUME NEW k \in Keys, NEW v \in Vals, Put(k, v)
      PROVE  AllFresh(mt', main', wal')
  <2> DEFINE r == [key |-> k, val |-> v]  w == Append(wal, r)
             e == [class |-> KeyClass[k], layer |-> Wal, off |-> Len(wal) + 1]
  <2>1. r \in Record /\ Len(wal) \in Nat /\ r.key = k
    BY <1>0 DEF Record
  <2>2. e \in Entry /\ e.class = KeyClass[k] /\ e.layer = Wal /\ e.off = Len(wal) + 1
    BY <2>1, LayerNumbers DEF Entry, Classes
  <2>3. Len(w) = Len(wal) + 1
    BY <1>0, <2>1
  <2>4. mt' = MtPut(mt, e) /\ wal' = w /\ main' = main
    BY <1>5 DEF Put
  <2> HIDE DEF e, r
  <2>5. Fresh(e, main, w)
    <3>1. \A j \in 1 .. Len(w) : j <= e.off
      BY <2>1, <2>2, <2>3
    <3> QED
      BY <2>2, <3>1, LayerNumbers DEF Fresh
  <2>6. ASSUME NEW i \in 1 .. Len(MtPut(mt, e))
        PROVE  Fresh(MtPut(mt, e)[i], main, w)
    <3>1. CASE MtPut(mt, e)[i] = e
      BY <2>5, <3>1
    <3>2. ASSUME NEW j \in 1 .. Len(mt), MtPut(mt, e)[i] = mt[j], mt[j].class # e.class
          PROVE  Fresh(MtPut(mt, e)[i], main, w)
      <4>1. mt[j] \in Entry /\ Fresh(mt[j], main, wal)
        BY <1>0 DEF AllFresh
      <4>2. mt[j].layer = Wal => mt[j].off <= Len(wal)
        BY <2>1 DEF AllSound, Sound
      <4>3. mt[j].class # KeyClass[r.key]
        BY <2>1, <2>2, <3>2
      <4> QED
        BY <1>0, <2>1, <3>2, <4>1, <4>2, <4>3, KeepFresh
    <3> QED
      BY <1>0, <2>2, <3>1, <3>2, MtPutEntries
  <2> QED
    BY <2>4, <2>6 DEF AllFresh
<1>6. ASSUME NEW k \in Keys, NEW c \in OutCaps, Get(k, c)
      PROVE  AllFresh(mt', main', wal')
  <2>1. wal' = wal /\ main' = main
    BY <1>6 DEF Get, files
  <2>2. CASE MtHits(k, c) = {} /\ Found(k, c) # {}
    <3>1. PICK e \in Entry : e = LatestFound(k, c) /\ Fresh(e, main, wal)
      BY <2>2, FoundFresh
    <3>2. mt' = MtPut(mt, e)
      BY <1>6, <2>2, <3>1 DEF Get
    <3>3. ASSUME NEW i \in 1 .. Len(MtPut(mt, e))
          PROVE  Fresh(MtPut(mt, e)[i], main, wal)
      BY <1>0, <3>1, MtPutEntries DEF AllFresh
    <3> QED
      BY <2>1, <3>2, <3>3 DEF AllFresh
  <2>3. CASE ~(MtHits(k, c) = {} /\ Found(k, c) # {})
    BY <1>6, <2>1, <2>3 DEF Get
  <2> QED
    BY <2>2, <2>3
<1>7. ASSUME WalFlush \/ CompactStopsEarly
      PROVE  AllFresh(mt', main', wal')
  <2>1. FlushInBounds /\ main' = FlushedMain /\ wal' = <<>>
    BY <1>1, <1>7 DEF WalFlush, CompactStopsEarly
  <2>2. \/ mt' = Index(LayerEntries(Main, FlushedMain) \o SstEntries(sst, sstPos, sstCount))
        \/ mt' = Index(LayerEntries(Main, FlushedMain))
    BY <1>1, <1>7 DEF WalFlush, CompactStopsEarly
  <2>3. FlushedMain \in Seq(Record)
    BY <2>1, FlushTypes
  <2>4. AllFresh(mt', FlushedMain, <<>>)
    BY <1>2, <2>2, <2>3, FlushedFresh
  <2> QED
    BY <2>1, <2>4
<1>8. CASE CompactMmapFails
  <2>1. /\ FlushInBounds /\ main' = CompactedMain /\ wal' = <<>>
        /\ mt' = Index(LayerEntries(Main, CompactedMain))
    BY <1>1, <1>8 DEF CompactMmapFails, Compacting
  <2>2. CompactedMain \in Seq(Record)
    BY <2>1, FlushTypes
  <2>3. AllFresh(mt', CompactedMain, <<>>)
    BY <1>2, <2>1, <2>2, FlushedFresh
  <2> QED
    BY <2>1, <2>3
<1>9. CASE PutFull \/ UNCHANGED vars
  BY <1>9 DEF PutFull, files, vars
<1>10. ASSUME CompactNothing \/ CompactToNewLevel \/ CompactToFullLevels
       PROVE  AllFresh(mt', main', wal')
  <2>1. main' = <<>> /\ wal' = <<>>
    BY <1>1, <1>10 DEF CompactNothing, CompactToNewLevel, CompactToFullLevels, FreezeTo
  <2>2. mt' \in Seq(Entry)
    BY TypeStep DEF TypeOK
  <2> QED
    BY <2>1, <2>2, EmptyFresh
<1>11. ASSUME NEW src \in {0, 1}, NEW written \in BOOLEAN, CompactMergeFails(src, written)
       PROVE  AllFresh(mt', main', wal')
  <2> DEFINE s1 == IF src = 0 THEN sst ELSE MergeSst(sst, sstPos, 0)
             p1 == IF src = 0 THEN sstPos ELSE MergePos(sst, sstPos, 0)
             es == MergeEntries(s1, p1, src)
  <2>1. LevelsOK(s1, p1)
    BY <1>0, MergeType
  <2>2. mt' = Index(es)
    BY <1>11 DEF CompactMergeFails
  <2> HIDE DEF s1, p1
  <2>3. es \in Seq(Entry) /\ LevelsOnly(es)
    BY <2>1, MergeLevelsOnly
  <2> HIDE DEF es
  <2> QED
    BY <2>2, <2>3, LevelsOnlyFresh
<1> QED
  BY <1>3, <1>4, <1>5, <1>6, <1>7, <1>8, <1>9, <1>10, <1>11 DEF Next

\* Once a flush has overrun the main file there is no telling what is read.
FreshInv == ~Overrun => AllFresh(mt, main, wal)

LEMMA FreshStep ==
  ASSUME BuffersFit, LogFits
  PROVE  TypeOK /\ AllSound(mt, wal) /\ FreshInv /\ [Next]_vars => FreshInv'
<1>a. CASE Overrun /\ UNCHANGED vars
  BY <1>a DEF Overrun, vars, FreshInv
<1>b. ASSUME Next
      PROVE  ~Overrun
  BY <1>b DEF Next, Open, Close, Put, PutFull, Get, WalFlush, FlushOverrun,
     CompactStopsEarly, CompactNothing, CompactMmapFails, CompactToNewLevel,
     CompactToFullLevels, CompactMergeFails, Compacting
<1>c. TypeOK /\ FlushOverrun => FreshInv'
  BY OverrunTypes DEF FreshInv
<1>d. TypeOK /\ AllSound(mt, wal) /\ AllFresh(mt, main, wal) /\ [Next]_vars /\ ~FlushOverrun
        => AllFresh(mt', main', wal')
  BY FreshKept
<1>e. AllFresh(mt', main', wal') => FreshInv'
  BY DEF FreshInv, AllFresh, Fresh
<1> QED
  BY <1>a, <1>b, <1>c, <1>d, <1>e DEF FreshInv

\* The contents come from the log if the key is there, else from the main file
\* if it is there.
LEMMA ContentsAbove ==
  ASSUME TypeOK, NEW k \in Keys
  PROVE  /\ LastVal(wal, k) # NoVal => Contents[k] = LastVal(wal, k)
         /\ LastVal(wal, k) = NoVal /\ LastVal(main, k) # NoVal
              => Contents[k] = LastVal(main, k)
<1> DEFINE a == LiveSst(sst, sstPos, sstCount, 0)
           b == LiveSst(sst, sstPos, sstCount, 1)
           c == LiveSst(sst, sstPos, sstCount, 2)
<1>1. a \in Seq(Record) /\ b \in Seq(Record) /\ c \in Seq(Record)
  <2>1. LevelsOK(sst, sstPos) /\ 0 \in Slots /\ 1 \in Slots /\ 2 \in Slots
    BY DEF TypeOK, LevelsOK, Slots, SstSlots
  <2> QED
    BY <2>1, LiveSstType
<1>2. Log = a \o b \o c \o main \o wal /\ main \in Seq(Record) /\ wal \in Seq(Record)
  BY DEF Log, Frozen, TypeOK
<1> HIDE DEF a, b, c
<1> DEFINE x == Newer(Newer(LastVal(a, k), LastVal(b, k)), LastVal(c, k))
<1>3. Contents[k] = Newer(Newer(x, LastVal(main, k)), LastVal(wal, k))
  BY <1>1, <1>2, LastValLayers DEF Contents
<1> HIDE DEF x
<1> QED
  BY <1>3 DEF Newer

\* A hit that names the log or the main file and is fresh is the latest value.
LEMMA FreshHits == TypeOK /\ FreshInv => MtHitFresh
<1> SUFFICES ASSUME TypeOK, AllFresh(mt, main, wal), NEW k \in Keys, NEW c \in OutCaps,
                    NEW i \in MtHits(k, c), mt[i].layer \in {Main, Wal}
             PROVE  ValueAt(mt[i]) = Contents[k]
  BY DEF MtHitFresh, FreshInv
<1> DEFINE e == mt[i]
<1>1. /\ e \in Entry /\ Fresh(e, main, wal) /\ e.class = KeyClass[k] /\ Readable(e, k, c)
      /\ main \in Seq(Record) /\ wal \in Seq(Record)
  <2>1. i \in 1 .. Len(mt) /\ mt \in Seq(Entry)
    BY DEF MtHits, TypeOK
  <2> QED
    BY <2>1 DEF MtHits, AllFresh, TypeOK
<1> HIDE DEF e
<1>2. e.off \in Nat /\ e.off >= 1
  BY <1>1 DEF Entry
<1>3. CASE e.layer = Wal
  <2>1. LayerRecords(e.layer) = wal
    BY <1>3 DEF LayerRecords
  <2>2. e.off \in 1 .. Len(wal) /\ wal[e.off].key = k
    BY <1>1, <1>2, <2>1 DEF Readable
  <2>3. \A j \in 1 .. Len(wal) : wal[j].key = k => j <= e.off
    BY <1>1, <1>3, <2>2 DEF Fresh
  <2>4. LastVal(wal, k) = wal[e.off].val
    <3>1. e.off \in DOMAIN wal /\ \A j \in DOMAIN wal : wal[j].key = k => j <= e.off
      BY <1>1, <2>2, <2>3
    <3> QED
      BY <1>1, <2>2, <3>1, LastValIs
  <2>5. wal[e.off].val # NoVal
    <3>1. wal[e.off] \in Record
      BY <1>1, <2>2
    <3> QED
      BY <3>1, KvConstants DEF Record
  <2>6. ValueAt(e) = wal[e.off].val
    BY <2>1 DEF ValueAt
  <2> QED
    BY <2>4, <2>5, <2>6, ContentsAbove DEF e
<1>4. CASE e.layer = Main
  <2>1. LayerRecords(e.layer) = main
    BY <1>4, LayerNumbers DEF LayerRecords
  <2>2. e.off \in 1 .. Len(main) /\ main[e.off].key = k
    BY <1>1, <1>2, <2>1 DEF Readable
  <2>3. /\ \A j \in 1 .. Len(main) : main[j].key = k => j <= e.off
        /\ \A j \in 1 .. Len(wal) : wal[j].key # k
    BY <1>1, <1>4, <2>2 DEF Fresh
  <2>4. LastVal(main, k) = main[e.off].val
    <3>1. e.off \in DOMAIN main /\ \A j \in DOMAIN main : main[j].key = k => j <= e.off
      BY <1>1, <2>2, <2>3
    <3> QED
      BY <1>1, <2>2, <3>1, LastValIs
  <2>5. LastVal(wal, k) = NoVal
    BY <1>1, <2>3, LastValNone
  <2>6. main[e.off].val # NoVal
    <3>1. main[e.off] \in Record
      BY <1>1, <2>2
    <3> QED
      BY <3>1, KvConstants DEF Record
  <2>7. ValueAt(e) = main[e.off].val
    BY <2>1 DEF ValueAt
  <2> QED
    BY <2>4, <2>5, <2>6, <2>7, ContentsAbove DEF e
<1> QED
  BY <1>3, <1>4 DEF e

\* When get answers from the memtable with a record of the log or the main file
\* it is the key's latest, also with keys that share a class and with more
\* classes than the table has room for: callers' buffers hold every value and
\* the log is no larger than the main file.
THEOREM MemtableHitsAreFresh ==
  ASSUME BuffersFit, LogFits
  PROVE  Spec => []MtHitFresh
<1>1. Init => AllSound(mt, wal) /\ FreshInv
  BY DEF Init, AllSound, AllFresh, FreshInv
<1>2. TypeOK /\ AllSound(mt, wal) /\ FreshInv /\ [Next]_vars => FreshInv'
  BY FreshStep
<1>3. TypeOK /\ FreshInv => MtHitFresh
  BY FreshHits
<1> QED
  BY <1>1, <1>2, <1>3, TypeCorrect, MtSoundStep, PTL DEF Spec

-----------------------------------------------------------------------------
(* What get answers from any layer *)

\* The files, by layer.
FilesOf(m, w, s) ==
  [l \in Layers |-> IF l = Wal THEN w ELSE IF l = Main THEN m ELSE s[l - SstBase]]

\* The entries es stand for the records rs of the files f, one for one.
Denote(es, rs, f) ==
  /\ es \in Seq(Entry) /\ rs \in Seq(Record) /\ Len(es) = Len(rs)
  /\ \A p \in 1 .. Len(rs) :
       /\ es[p].class = KeyClass[rs[p].key]
       /\ es[p].off <= Len(f[es[p].layer])
       /\ f[es[p].layer][es[p].off] = rs[p]

LEMMA DenoteConcat ==
  ASSUME NEW a, NEW b, NEW x, NEW y, NEW f, Denote(a, x, f), Denote(b, y, f)
  PROVE  Denote(a \o b, x \o y, f)
<1>1. /\ a \in Seq(Entry) /\ b \in Seq(Entry) /\ x \in Seq(Record) /\ y \in Seq(Record)
      /\ Len(a) = Len(x) /\ Len(b) = Len(y) /\ Len(a) \in Nat /\ Len(b) \in Nat
  BY DEF Denote
<1>2. /\ a \o b \in Seq(Entry) /\ Len(a \o b) = Len(a) + Len(b)
      /\ \A i \in 1 .. Len(a) + Len(b) :
           (a \o b)[i] = IF i <= Len(a) THEN a[i] ELSE b[i - Len(a)]
  BY <1>1, ConcatProperties
<1>3. /\ x \o y \in Seq(Record) /\ Len(x \o y) = Len(a) + Len(b)
      /\ \A i \in 1 .. Len(a) + Len(b) :
           (x \o y)[i] = IF i <= Len(a) THEN x[i] ELSE y[i - Len(a)]
  BY <1>1, ConcatProperties
<1> DEFINE es == a \o b  rs == x \o y
<1> HIDE DEF es, rs
<1>4. ASSUME NEW p \in 1 .. Len(a) + Len(b)
      PROVE  /\ es[p].class = KeyClass[rs[p].key]
             /\ es[p].off <= Len(f[es[p].layer])
             /\ f[es[p].layer][es[p].off] = rs[p]
  <2>1. CASE p <= Len(a)
    <3>1. p \in 1 .. Len(x) /\ es[p] = a[p] /\ rs[p] = x[p]
      BY <1>1, <1>2, <1>3, <2>1 DEF es, rs
    <3> QED
      BY <3>1 DEF Denote
  <2>2. CASE ~(p <= Len(a))
    <3>1. /\ p - Len(a) \in 1 .. Len(y) /\ es[p] = b[p - Len(a)]
          /\ rs[p] = y[p - Len(a)]
      BY <1>1, <1>2, <1>3, <2>2 DEF es, rs
    <3> QED
      BY <3>1 DEF Denote
  <2> QED
    BY <2>1, <2>2
<1>5. es \in Seq(Entry) /\ rs \in Seq(Record) /\ Len(es) = Len(rs)
      /\ Len(rs) = Len(a) + Len(b)
  BY <1>2, <1>3 DEF es, rs
<1>6. Denote(es, rs, f)
  BY <1>4, <1>5 DEF Denote
<1> QED
  BY <1>6 DEF es, rs

\* A prefix of a file is what its entries stand for.
LEMMA LayerDenotes ==
  ASSUME NEW l \in Layers, NEW rs \in Seq(Record), NEW f,
         Len(f[l]) \in Nat, Len(rs) <= Len(f[l]),
         \A i \in 1 .. Len(rs) : f[l][i] = rs[i]
  PROVE  Denote(LayerEntries(l, rs), rs, f)
<1> DEFINE es == LayerEntries(l, rs)
<1>1. /\ es \in Seq(Entry) /\ Len(es) = Len(rs)
      /\ \A i \in 1 .. Len(rs) :
           es[i].class = KeyClass[rs[i].key] /\ es[i].layer = l /\ es[i].off = i
  BY LayerEntriesFacts
<1> HIDE DEF es
<1>3. ASSUME NEW i \in 1 .. Len(rs)
      PROVE  es[i].off <= Len(f[es[i].layer])
  <2>1. es[i].off = i /\ es[i].layer = l
    BY <1>1
  <2> QED
    BY <2>1
<1>4. Denote(es, rs, f)
  BY <1>1, <1>3 DEF Denote
<1> QED
  BY <1>4 DEF es

\* The live records of the levels.
FrozenOf(s, pos, n) == LiveSst(s, pos, n, 0) \o LiveSst(s, pos, n, 1) \o LiveSst(s, pos, n, 2)

LEMMA LevelsDenote ==
  ASSUME NEW m, NEW w, NEW s, NEW pos, LevelsOK(s, pos), NEW n \in Nat
  PROVE  Denote(SstEntries(s, pos, n), FrozenOf(s, pos, n), FilesOf(m, w, s))
<1> DEFINE At(i) == IF i < n THEN LayerEntries(SstBase + i, Live(s, pos, i)) ELSE <<>>
           f == FilesOf(m, w, s)
<1>1. ASSUME NEW i \in Slots
      PROVE  Denote(At(i), LiveSst(s, pos, n, i), f)
  <2>1. /\ SstBase + i \in Layers /\ SstBase + i # Wal /\ SstBase + i # Main
        /\ SstBase + i - SstBase = i
    BY DEF Layers, Slots, SstBase, Wal, Main, SstSlots
  <2>2. f[SstBase + i] = s[i]
    <3>1. PICK l \in Layers : l = SstBase + i
      BY <2>1
    <3>2. l # Wal /\ l # Main
      BY <2>1, <3>1
    <3>3. f[l] = s[l - SstBase]
      BY <3>2 DEF FilesOf
    <3>4. l - SstBase = i
      BY <3>1 DEF SstBase, Slots, SstSlots
    <3> HIDE DEF f
    <3>5. f[l] = s[i]
      BY <3>3, <3>4, Zenon
    <3> QED
      BY <3>1, <3>5, Zenon
  <2>3. /\ Live(s, pos, i) \in Seq(Record) /\ Len(Live(s, pos, i)) = pos[i]
        /\ \A j \in 1 .. pos[i] : Live(s, pos, i)[j] = s[i][j]
        /\ pos[i] <= Len(s[i])
    <3>1. pos[i] <= Len(s[i])
      BY DEF LevelsOK
    <3>2. /\ Live(s, pos, i) \in Seq(Record) /\ Len(Live(s, pos, i)) = pos[i]
          /\ \A j \in 1 .. pos[i] : Live(s, pos, i)[j] = s[i][j]
      BY LiveFacts
    <3> QED
      BY <3>1, <3>2, Zenon
  <2> HIDE DEF f
  <2>4. Denote(LayerEntries(SstBase + i, Live(s, pos, i)), Live(s, pos, i), f)
    BY <2>1, <2>2, <2>3, LayerDenotes
  <2>5. Denote(<<>>, <<>>, f)
    BY DEF Denote
  <2> QED
    BY <2>4, <2>5 DEF LiveSst
<1>2. /\ Denote(At(0), LiveSst(s, pos, n, 0), f) /\ Denote(At(1), LiveSst(s, pos, n, 1), f)
      /\ Denote(At(2), LiveSst(s, pos, n, 2), f)
  BY <1>1 DEF Slots, SstSlots
<1>3. SstEntries(s, pos, n) = At(0) \o At(1) \o At(2)
  BY DEF SstEntries
<1> HIDE DEF At, f
<1>4. Denote(At(0) \o At(1), LiveSst(s, pos, n, 0) \o LiveSst(s, pos, n, 1), f)
  BY <1>2, DenoteConcat
<1>5. Denote(At(0) \o At(1) \o At(2), FrozenOf(s, pos, n), f)
  BY <1>2, <1>4, DenoteConcat DEF FrozenOf
<1> QED
  BY <1>3, <1>5 DEF f

\* A scan goes through all live records, oldest first.
LEMMA ScanDenotes ==
  ASSUME TypeOK
  PROVE  /\ Denote(ScanOrder, Log, FilesOf(main, wal, sst))
         /\ \A l \in Layers : LayerRecords(l) = FilesOf(main, wal, sst)[l]
<1> DEFINE f == FilesOf(main, wal, sst)
<1>1. /\ LevelsOK(sst, sstPos) /\ sstCount \in Nat
      /\ main \in Seq(Record) /\ wal \in Seq(Record)
      /\ Len(main) \in Nat /\ Len(wal) \in Nat
  BY DEF TypeOK, LevelsOK, SstSlots
<1>2. Main \in Layers /\ Wal \in Layers /\ f[Main] = main /\ f[Wal] = wal
  BY LayerNumbers DEF FilesOf, Layers
<1>3. \A l \in Layers : LayerRecords(l) = f[l]
  BY DEF LayerRecords, FilesOf
<1>4. Denote(SstEntries(sst, sstPos, sstCount), FrozenOf(sst, sstPos, sstCount), f)
  BY <1>1, LevelsDenote
<1> HIDE DEF f
<1>5. Denote(LayerEntries(Main, main), main, f) /\ Denote(LayerEntries(Wal, wal), wal, f)
  BY <1>1, <1>2, LayerDenotes
<1>6. Denote(SstEntries(sst, sstPos, sstCount) \o LayerEntries(Main, main),
             FrozenOf(sst, sstPos, sstCount) \o main, f)
  BY <1>4, <1>5, DenoteConcat
<1>7. Denote(ScanOrder, FrozenOf(sst, sstPos, sstCount) \o main \o wal, f)
  BY <1>5, <1>6, DenoteConcat DEF ScanOrder
<1>8. Log = FrozenOf(sst, sstPos, sstCount) \o main \o wal
  BY DEF Log, Frozen, FrozenOf
<1> QED
  BY <1>3, <1>7, <1>8 DEF f

\* With large buffers a scan finds exactly the records of the key.
LEMMA ScanReads ==
  ASSUME TypeOK, BuffersFit, NEW k \in Keys, NEW c \in OutCaps
  PROVE  /\ ScanOrder \in Seq(Entry) /\ Log \in Seq(Record) /\ Len(ScanOrder) = Len(Log)
         /\ \A p \in 1 .. Len(Log) :
              /\ Readable(ScanOrder[p], k, c) <=> Log[p].key = k
              /\ ValueAt(ScanOrder[p]) = Log[p].val
<1> DEFINE f == FilesOf(main, wal, sst)
<1>1. Denote(ScanOrder, Log, f) /\ \A l \in Layers : LayerRecords(l) = f[l]
  BY ScanDenotes
<1> HIDE DEF f
<1>2. ScanOrder \in Seq(Entry) /\ Log \in Seq(Record) /\ Len(ScanOrder) = Len(Log)
  BY <1>1 DEF Denote
<1>3. ASSUME NEW p \in 1 .. Len(Log)
      PROVE  /\ Readable(ScanOrder[p], k, c) <=> Log[p].key = k
             /\ ValueAt(ScanOrder[p]) = Log[p].val
  <2> DEFINE e == ScanOrder[p]
  <2>1. e \in Entry /\ Log[p] \in Record
    BY <1>2
  <2>2. e.off <= Len(f[e.layer]) /\ f[e.layer][e.off] = Log[p]
    BY <1>1 DEF Denote
  <2>3. LayerRecords(e.layer) = f[e.layer]
    BY <1>1, <2>1 DEF Entry
  <2>4. ValLen[Log[p].val] <= c
    BY <2>1 DEF Record, BuffersFit
  <2> HIDE DEF e
  <2>5. /\ Readable(e, k, c) <=> Log[p].key = k
        /\ ValueAt(e) = Log[p].val
    BY <2>2, <2>3, <2>4 DEF Readable, ValueAt
  <2> QED
    BY <2>5 DEF e
<1> QED
  BY <1>2, <1>3

\* So a scan that finds something finds the latest value.
LEMMA ScanIsLatest ==
  ASSUME TypeOK, BuffersFit, NEW k \in Keys, NEW c \in OutCaps
  PROVE  IF Found(k, c) # {} THEN ValueAt(LatestFound(k, c)) = Contents[k]
         ELSE Contents[k] = NoVal
<1>1. /\ ScanOrder \in Seq(Entry) /\ Log \in Seq(Record) /\ Len(ScanOrder) = Len(Log)
      /\ \A p \in 1 .. Len(Log) :
           /\ Readable(ScanOrder[p], k, c) <=> Log[p].key = k
           /\ ValueAt(ScanOrder[p]) = Log[p].val
  BY ScanReads
<1>2. /\ Found(k, c) \in SUBSET (1 .. Len(Log)) /\ Len(Log) \in Nat
      /\ \A p \in 1 .. Len(Log) : p \in Found(k, c) <=> Log[p].key = k
  BY <1>1 DEF Found
<1>3. CASE Found(k, c) # {}
  <2>1. \E p \in Found(k, c) : \A q \in Found(k, c) : q <= p
    BY <1>2, <1>3, GreatestExists
  <2>2. PICK p \in Found(k, c) :
          LatestFound(k, c) = ScanOrder[p] /\ \A q \in Found(k, c) : q <= p
    BY <2>1 DEF LatestFound
  <2>3. /\ p \in DOMAIN Log /\ Log[p].key = k
        /\ \A q \in DOMAIN Log : Log[q].key = k => q <= p
    BY <1>1, <1>2, <2>2
  <2>4. LastVal(Log, k) = Log[p].val
    BY <1>1, <2>3, LastValIs
  <2> QED
    BY <1>1, <1>2, <1>3, <2>2, <2>4 DEF Contents
<1>4. CASE Found(k, c) = {}
  <2>1. \A p \in DOMAIN Log : Log[p].key # k
    BY <1>1, <1>2, <1>4
  <2>2. LastVal(Log, k) = NoVal
    BY <1>1, <2>1, LastValNone
  <2> QED
    BY <1>4, <2>2 DEF Contents
<1> QED
  BY <1>3, <1>4

\* e is the entry of a frozen record after which its key does not occur.
LastFrozen(e, s, pos, n) ==
  \E p \in 1 .. Len(FrozenOf(s, pos, n)) :
    /\ e = SstEntries(s, pos, n)[p]
    /\ \A q \in 1 .. Len(FrozenOf(s, pos, n)) :
         FrozenOf(s, pos, n)[q].key = FrozenOf(s, pos, n)[p].key => q <= p

\* What the entries of a table that name a level name.
LevelHits(t, s, pos, n) ==
  \A i \in 1 .. Len(t) :
    t[i].layer \notin {Main, Wal} => LastFrozen(t[i], s, pos, n)

TopOnly(es) == \A i \in 1 .. Len(es) : es[i].layer \in {Main, Wal}

LEMMA TopOnlyHits ==
  ASSUME NEW es \in Seq(Entry), TopOnly(es), NEW s, NEW pos, NEW n
  PROVE  LevelHits(Index(es), s, pos, n)
<1>1. \A i \in 1 .. Len(Index(es)) : \E p \in 1 .. Len(es) : Index(es)[i] = es[p]
  <2>1. /\ Index(es) \in Seq(Entry)
        /\ \A i \in DOMAIN Index(es) : \E p \in DOMAIN es : Index(es)[i] = es[p]
    BY IndexFacts
  <2> QED
    BY <2>1
<1> QED
  BY <1>1 DEF LevelHits, TopOnly

LEMMA LayerTopOnly ==
  ASSUME NEW l \in {Main, Wal}, NEW rs \in Seq(Record)
  PROVE  LayerEntries(l, rs) \in Seq(Entry) /\ TopOnly(LayerEntries(l, rs))
<1>1. l \in Layers
  BY DEF Layers
<1> QED
  BY <1>1, LayerEntriesFacts DEF TopOnly

LEMMA ConcatTopOnly ==
  ASSUME NEW a \in Seq(Entry), NEW b \in Seq(Entry), TopOnly(a), TopOnly(b)
  PROVE  a \o b \in Seq(Entry) /\ TopOnly(a \o b)
<1>1. /\ a \o b \in Seq(Entry) /\ Len(a \o b) = Len(a) + Len(b)
      /\ Len(a) \in Nat /\ Len(b) \in Nat
      /\ \A i \in 1 .. Len(a) + Len(b) :
           (a \o b)[i] = IF i <= Len(a) THEN a[i] ELSE b[i - Len(a)]
  BY ConcatProperties
<1> DEFINE c == a \o b
<1> HIDE DEF c
<1>2. ASSUME NEW i \in 1 .. Len(a) + Len(b)
      PROVE  c[i].layer \in {Main, Wal}
  <2>1. CASE i <= Len(a)
    <3>1. i \in 1 .. Len(a) /\ c[i] = a[i]
      BY <1>1, <2>1 DEF c
    <3> QED
      BY <3>1 DEF TopOnly
  <2>2. CASE ~(i <= Len(a))
    <3>1. i - Len(a) \in 1 .. Len(b) /\ c[i] = b[i - Len(a)]
      BY <1>1, <2>2 DEF c
    <3> QED
      BY <3>1 DEF TopOnly
  <2> QED
    BY <2>1, <2>2
<1>3. c \in Seq(Entry) /\ TopOnly(c)
  BY <1>1, <1>2 DEF TopOnly, c
<1> QED
  BY <1>3 DEF c

\* A table rebuilt from other files and then the levels: an entry of a level is
\* the last of its class among all entries.
LEMMA RebuildHits ==
  ASSUME NEW a \in Seq(Entry), TopOnly(a), NEW s, NEW pos, LevelsOK(s, pos), NEW n \in Nat
  PROVE  LevelHits(Index(a \o SstEntries(s, pos, n)), s, pos, n)
<1> DEFINE b == SstEntries(s, pos, n)  R == FrozenOf(s, pos, n)  es == a \o b
<1>1. b \in Seq(Entry) /\ Len(b) = Len(R) /\ \A p \in 1 .. Len(R) : b[p].class = KeyClass[R[p].key]
  <2>1. PICK f : Denote(b, R, f)
    BY LevelsDenote
  <2> HIDE DEF b, R
  <2> QED
    BY <2>1 DEF Denote
<1> HIDE DEF b
<1>2. /\ es \in Seq(Entry) /\ Len(es) = Len(a) + Len(b)
      /\ Len(a) \in Nat /\ Len(b) \in Nat
      /\ \A i \in 1 .. Len(a) + Len(b) :
           es[i] = IF i <= Len(a) THEN a[i] ELSE b[i - Len(a)]
  <2>1. b \in Seq(Entry)
    BY <1>1, Zenon
  <2>2. Len(a) \in Nat /\ Len(b) \in Nat
    BY <2>1, LenProperties
  <2> QED
    BY SMTT(30), <2>1, <2>2, ConcatProperties
<1> HIDE DEF es, R
<1>3. /\ Index(es) \in Seq(Entry)
      /\ \A i \in DOMAIN Index(es) : \E p \in DOMAIN es :
           Index(es)[i] = es[p] /\ \A q \in DOMAIN es : es[q].class = es[p].class => q <= p
  BY <1>2, IndexFacts
<1>4. ASSUME NEW i \in 1 .. Len(Index(es)), Index(es)[i].layer \notin {Main, Wal}
      PROVE  \E p \in 1 .. Len(R) :
               Index(es)[i] = b[p] /\ \A q \in 1 .. Len(R) : R[q].key = R[p].key => q <= p
  <2>1. PICK o \in 1 .. Len(a) + Len(b) :
          /\ Index(es)[i] = es[o]
          /\ \A q \in 1 .. Len(a) + Len(b) : es[q].class = es[o].class => q <= o
    <3>1. i \in DOMAIN Index(es) /\ DOMAIN es = 1 .. Len(a) + Len(b)
      BY <1>2, <1>3
    <3> QED
      BY <1>3, <3>1
  <2>2. ~(o <= Len(a))
    <3>1. o <= Len(a) => o \in 1 .. Len(a) /\ es[o] = a[o]
      BY <1>2
    <3> QED
      BY <1>4, <2>1, <3>1 DEF TopOnly
  <2> DEFINE p == o - Len(a)
  <2>3. p \in 1 .. Len(R) /\ es[o] = b[p] /\ p \in Nat /\ o = Len(a) + p
    BY <1>1, <1>2, <2>2
  <2> HIDE DEF p
  <2>4. ASSUME NEW q \in 1 .. Len(R), R[q].key = R[p].key
        PROVE  q <= p
    <3>1. b[q].class = b[p].class
      BY <1>1, <2>3, <2>4
    <3> DEFINE u == Len(a) + q
    <3>2. u \in 1 .. Len(a) + Len(b) /\ ~(u <= Len(a)) /\ u - Len(a) = q
      BY <1>1, <1>2
    <3> HIDE DEF u
    <3>3. es[u] = b[q]
      BY <1>2, <3>2
    <3>4. u <= o
      BY <2>1, <2>3, <3>1, <3>2, <3>3
    <3> QED
      BY <1>2, <2>3, <3>2, <3>4
  <2> QED
    BY <2>1, <2>3, <2>4
<1>5. LevelHits(Index(es), s, pos, n)
  BY <1>4 DEF LevelHits, LastFrozen, R, b
<1> QED
  BY <1>5 DEF es, b

\* A scan that ends in a level has found the last frozen record of the key.
LEMMA FoundHits ==
  ASSUME TypeOK, BuffersFit, NEW k \in Keys, NEW c \in OutCaps, Found(k, c) # {}
  PROVE  LatestFound(k, c).layer \notin {Main, Wal}
           => LastFrozen(LatestFound(k, c), sst, sstPos, sstCount)
<1> DEFINE x == SstEntries(sst, sstPos, sstCount)  R == FrozenOf(sst, sstPos, sstCount)
           y == LayerEntries(Main, main)  z == LayerEntries(Wal, wal)
           f == FilesOf(main, wal, sst)
<1>1. /\ LevelsOK(sst, sstPos) /\ sstCount \in Nat
      /\ main \in Seq(Record) /\ wal \in Seq(Record)
  BY DEF TypeOK, LevelsOK, SstSlots
<1>2. Denote(x, R, f) /\ \A l \in Layers : LayerRecords(l) = f[l]
  BY <1>1, LevelsDenote, ScanDenotes
<1>3. y \in Seq(Entry) /\ TopOnly(y) /\ z \in Seq(Entry) /\ TopOnly(z)
  BY <1>1, LayerTopOnly
<1>4. ScanOrder = x \o y \o z
  BY DEF ScanOrder
<1> HIDE DEF x, y, z, R, f
<1>5. /\ x \in Seq(Entry) /\ R \in Seq(Record) /\ Len(x) = Len(R) /\ Len(x) \in Nat
      /\ Len(y) \in Nat /\ Len(z) \in Nat
  BY <1>2, <1>3 DEF Denote
<1>6. /\ ScanOrder \in Seq(Entry) /\ Len(ScanOrder) = Len(x) + Len(y) + Len(z)
      /\ \A i \in 1 .. Len(x) : ScanOrder[i] = x[i]
      /\ \A i \in 1 .. Len(y) : ScanOrder[Len(x) + i] = y[i]
      /\ \A i \in 1 .. Len(z) : ScanOrder[Len(x) + Len(y) + i] = z[i]
  <2>1. x \in Seq(Entry) /\ y \in Seq(Entry) /\ z \in Seq(Entry)
    BY <1>3, <1>5
  <2>2. /\ x \o y \o z \in Seq(Entry) /\ Len(x \o y \o z) = Len(x) + Len(y) + Len(z)
        /\ \A i \in 1 .. Len(x) : (x \o y \o z)[i] = x[i]
        /\ \A i \in 1 .. Len(y) : (x \o y \o z)[Len(x) + i] = y[i]
        /\ \A i \in 1 .. Len(z) : (x \o y \o z)[Len(x) + Len(y) + i] = z[i]
    BY <2>1, ConcatThree
  <2> QED
    BY <1>4, <2>2, Zenon
<1>7. ASSUME NEW p \in 1 .. Len(R)
      PROVE  Readable(x[p], k, c) <=> R[p].key = k
  <2>1. x[p] \in Entry /\ R[p] \in Record
    BY <1>5
  <2>2. x[p].off <= Len(f[x[p].layer]) /\ f[x[p].layer][x[p].off] = R[p]
    BY <1>2 DEF Denote
  <2>3. LayerRecords(x[p].layer) = f[x[p].layer]
    BY <1>2, <2>1 DEF Entry
  <2>4. ValLen[R[p].val] <= c
    BY <2>1 DEF Record, BuffersFit
  <2> QED
    BY <2>2, <2>3, <2>4 DEF Readable
<1>8. Found(k, c) \in SUBSET (1 .. Len(ScanOrder)) /\ Len(ScanOrder) \in Nat
  BY <1>5, <1>6 DEF Found
<1>9. PICK p \in Found(k, c) :
        LatestFound(k, c) = ScanOrder[p] /\ \A q \in Found(k, c) : q <= p
  <2>1. \E p \in Found(k, c) : \A q \in Found(k, c) : q <= p
    BY <1>8, GreatestExists
  <2> QED
    BY <2>1 DEF LatestFound
<1>10. p \in 1 .. Len(x) + Len(y) + Len(z) /\ Readable(ScanOrder[p], k, c)
  BY <1>6, <1>8 DEF Found
<1>11. CASE p \in 1 .. Len(x)
  <2>1. ScanOrder[p] = x[p] /\ R[p].key = k /\ p \in 1 .. Len(R)
    BY <1>5, <1>6, <1>7, <1>10, <1>11
  <2>2. ASSUME NEW q \in 1 .. Len(R), R[q].key = R[p].key
        PROVE  q <= p
    <3>1. q \in 1 .. Len(x) /\ q \in 1 .. Len(ScanOrder)
      BY <1>5, <1>6
    <3>2. Readable(ScanOrder[q], k, c)
      BY <1>6, <1>7, <2>1, <2>2, <3>1
    <3>3. q \in Found(k, c)
      BY <1>6, <3>1, <3>2 DEF Found
    <3> QED
      BY <1>9, <3>3
  <2>3. LastFrozen(x[p], sst, sstPos, sstCount)
    BY <2>1, <2>2 DEF LastFrozen, R, x
  <2> QED
    BY <1>9, <2>1, <2>3
<1>12. CASE ~(p \in 1 .. Len(x))
  <2>1. ScanOrder[p].layer \in {Main, Wal}
    <3>1. CASE p <= Len(x) + Len(y)
      <4>1. PICK i \in 1 .. Len(y) : p = Len(x) + i
        <5>1. p - Len(x) \in 1 .. Len(y) /\ p = Len(x) + (p - Len(x))
          BY <1>5, <1>10, <1>12, <3>1
        <5> QED
          BY <5>1
      <4> QED
        BY <1>3, <1>6, <4>1 DEF TopOnly
    <3>2. CASE ~(p <= Len(x) + Len(y))
      <4>1. PICK i \in 1 .. Len(z) : p = Len(x) + Len(y) + i
        <5>1. /\ p - (Len(x) + Len(y)) \in 1 .. Len(z)
              /\ p = Len(x) + Len(y) + (p - (Len(x) + Len(y)))
          BY <1>5, <1>10, <1>12, <3>2
        <5> QED
          BY <5>1
      <4> QED
        BY <1>3, <1>6, <4>1 DEF TopOnly
    <3> QED
      BY <3>1, <3>2
  <2> QED
    BY <1>9, <2>1
<1> QED
  BY <1>11, <1>12

\* As long as each compaction opens a level, a table entry that names a level
\* names the last frozen record of its key.
HitsInv == gen <= SstSlots => LevelHits(mt, sst, sstPos, sstCount)

\* So does a table rebuilt from the levels alone.
LEMMA RebuildFromLevels ==
  ASSUME NEW s, NEW pos, LevelsOK(s, pos), NEW n \in Nat
  PROVE  LevelHits(Index(SstEntries(s, pos, n)), s, pos, n)
<1> DEFINE b == SstEntries(s, pos, n)
<1>1. <<>> \in Seq(Entry) /\ TopOnly(<<>>)
  BY DEF TopOnly
<1>2. b \in Seq(Entry)
  BY SstEntriesType
<1>3. LevelHits(Index(<<>> \o b), s, pos, n)
  BY <1>1, RebuildHits
<1> HIDE DEF b
<1>4. <<>> \o b = b
  BY <1>2, ConcatEmptySeq
<1>5. LevelHits(Index(b), s, pos, n)
  BY <1>3, <1>4
<1> QED
  BY <1>5 DEF b

LEMMA HitsStep ==
  ASSUME BuffersFit
  PROVE  TypeOK /\ LevelsBelowGen /\ HitsInv /\ [Next]_vars => HitsInv'
<1> SUFFICES ASSUME TypeOK, LevelsBelowGen, HitsInv, [Next]_vars, gen' <= SstSlots
             PROVE  LevelHits(mt', sst', sstPos', sstCount')
  BY DEF HitsInv
<1>0. /\ LevelsOK(sst, sstPos) /\ sstCount \in Nat /\ gen \in Nat /\ sstCount <= gen
      /\ main \in Seq(Record) /\ wal \in Seq(Record) /\ mt \in Seq(Entry)
  BY DEF TypeOK, LevelsOK, SstSlots, LevelsBelowGen
<1>1. ASSUME UNCHANGED gen
      PROVE  LevelHits(mt, sst, sstPos, sstCount)
  BY <1>1 DEF HitsInv
<1>2. ASSUME UNCHANGED <<mt, sst, sstPos, sstCount, gen>>
      PROVE  LevelHits(mt', sst', sstPos', sstCount')
  BY <1>1, <1>2
<1>3. CASE Open
  <2> DEFINE a == LayerEntries(Main, main) \o LayerEntries(Wal, wal)
  <2>1. /\ mt' = Index(a \o SstEntries(sst, sstPos, sstCount))
        /\ sst' = sst /\ sstPos' = sstPos /\ sstCount' = sstCount
    BY <1>3 DEF Open, files
  <2>2. a \in Seq(Entry) /\ TopOnly(a)
    BY <1>0, LayerTopOnly, ConcatTopOnly
  <2> HIDE DEF a
  <2>3. LevelHits(Index(a \o SstEntries(sst, sstPos, sstCount)), sst, sstPos, sstCount)
    BY <1>0, <2>2, RebuildHits
  <2> QED
    BY <2>1, <2>3
<1>4. CASE Close
  BY <1>4 DEF Close, LevelHits
<1>5. ASSUME NEW k \in Keys, NEW v \in Vals, Put(k, v)
      PROVE  LevelHits(mt', sst', sstPos', sstCount')
  <2> DEFINE e == [class |-> KeyClass[k], layer |-> Wal, off |-> Len(wal) + 1]
  <2>1. e \in Entry /\ e.layer = Wal
    BY <1>0, LayerNumbers DEF Entry, Classes
  <2>2. /\ mt' = MtPut(mt, e) /\ gen' = gen
        /\ sst' = sst /\ sstPos' = sstPos /\ sstCount' = sstCount
    BY <1>5 DEF Put
  <2> HIDE DEF e
  <2>3. LevelHits(mt, sst, sstPos, sstCount)
    BY <1>1, <2>2
  <2>4. LevelHits(MtPut(mt, e), sst, sstPos, sstCount)
    <3>1. ASSUME NEW i \in 1 .. Len(MtPut(mt, e)), MtPut(mt, e)[i].layer \notin {Main, Wal}
          PROVE  LastFrozen(MtPut(mt, e)[i], sst, sstPos, sstCount)
      <4>1. MtPut(mt, e)[i] # e
        BY <2>1, <3>1
      <4>2. PICK j \in 1 .. Len(mt) : MtPut(mt, e)[i] = mt[j]
        BY <1>0, <2>1, <4>1, MtPutEntries
      <4> QED
        BY <2>3, <3>1, <4>2 DEF LevelHits
    <3> QED
      BY <3>1 DEF LevelHits
  <2> QED
    BY <2>2, <2>4
<1>6. ASSUME NEW k \in Keys, NEW c \in OutCaps, Get(k, c)
      PROVE  LevelHits(mt', sst', sstPos', sstCount')
  <2>1. UNCHANGED <<sst, sstPos, sstCount, gen>>
    BY <1>6 DEF Get, files
  <2>2. CASE MtHits(k, c) = {} /\ Found(k, c) # {}
    <3>1. PICK e \in Entry : e = LatestFound(k, c)
      BY <2>2, FoundFresh
    <3>2. mt' = MtPut(mt, e)
      BY <1>6, <2>2, <3>1 DEF Get
    <3>3. e.layer \notin {Main, Wal} => LastFrozen(e, sst, sstPos, sstCount)
      BY <2>2, <3>1, FoundHits
    <3>4. ASSUME NEW i \in 1 .. Len(MtPut(mt, e)), MtPut(mt, e)[i].layer \notin {Main, Wal}
          PROVE  LastFrozen(MtPut(mt, e)[i], sst, sstPos, sstCount)
      <4>1. CASE MtPut(mt, e)[i] = e
        BY <3>3, <3>4, <4>1
      <4>2. ASSUME NEW j \in 1 .. Len(mt), MtPut(mt, e)[i] = mt[j]
            PROVE  LastFrozen(MtPut(mt, e)[i], sst, sstPos, sstCount)
        BY <1>1, <2>1, <3>4, <4>2 DEF LevelHits
      <4> QED
        BY <1>0, <3>1, <4>1, <4>2, MtPutEntries
    <3> QED
      BY <2>1, <3>2, <3>4 DEF LevelHits
  <2>3. CASE ~(MtHits(k, c) = {} /\ Found(k, c) # {})
    <3>1. mt' = mt
      BY <1>6, <2>3 DEF Get
    <3> QED
      BY <1>2, <2>1, <3>1
  <2> QED
    BY <2>2, <2>3
<1>7. CASE WalFlush
  <2>1. /\ FlushInBounds /\ gen' = gen
        /\ sst' = sst /\ sstPos' = sstPos /\ sstCount' = sstCount
        /\ \/ mt' = Index(LayerEntries(Main, FlushedMain) \o SstEntries(sst, sstPos, sstCount))
           \/ mt' = mt
    BY <1>7 DEF WalFlush
  <2>2. FlushedMain \in Seq(Record)
    BY <2>1, FlushTypes
  <2>3. LayerEntries(Main, FlushedMain) \in Seq(Entry) /\ TopOnly(LayerEntries(Main, FlushedMain))
    BY <2>2, LayerTopOnly
  <2>4. LevelHits(Index(LayerEntries(Main, FlushedMain) \o SstEntries(sst, sstPos, sstCount)),
                  sst, sstPos, sstCount)
    BY <1>0, <2>3, RebuildHits
  <2> QED
    BY <1>1, <2>1, <2>4
<1>8. CASE CompactStopsEarly
  <2>1. /\ FlushInBounds
        /\ mt' = Index(LayerEntries(Main, FlushedMain))
    BY <1>8 DEF CompactStopsEarly
  <2>2. FlushedMain \in Seq(Record)
    BY <2>1, FlushTypes
  <2> QED
    BY <2>1, <2>2, LayerTopOnly, TopOnlyHits
<1>9. CASE CompactMmapFails
  <2>1. /\ FlushInBounds
        /\ mt' = Index(LayerEntries(Main, CompactedMain))
    BY <1>9 DEF CompactMmapFails, Compacting
  <2>2. CompactedMain \in Seq(Record)
    BY <2>1, FlushTypes
  <2> QED
    BY <2>1, <2>2, LayerTopOnly, TopOnlyHits
<1>10. CASE CompactToNewLevel
  <2>1. /\ FlushInBounds
        /\ \/ mt' = Index(SstEntries(sst', sstPos', sstCount'))
           \/ mt' = Index(LayerEntries(Main, CompactedMain))
    BY <1>10 DEF CompactToNewLevel, Compacting, FreezeTo
  <2>2. CompactedMain \in Seq(Record)
    BY <2>1, FlushTypes
  <2>3. LevelHits(Index(LayerEntries(Main, CompactedMain)), sst', sstPos', sstCount')
    BY <2>2, LayerTopOnly, TopOnlyHits
  <2>4. LevelsOK(sst', sstPos') /\ sstCount' \in Nat
    BY TypeStep DEF TypeOK, LevelsOK, SstSlots
  <2>5. LevelHits(Index(SstEntries(sst', sstPos', sstCount')), sst', sstPos', sstCount')
    BY <2>4, RebuildFromLevels
  <2> QED
    BY <2>1, <2>3, <2>5
<1>11. ASSUME Compacting, sstCount >= SstSlots
       PROVE  FALSE
  <2>1. gen' = gen + 1
    BY <1>11 DEF Compacting
  <2> QED
    BY <1>0, <1>11, <2>1 DEF SstSlots
<1>12. ~CompactToFullLevels /\ \A src \in {0, 1}, written \in BOOLEAN : ~CompactMergeFails(src, written)
  BY <1>11 DEF CompactToFullLevels, CompactMergeFails
<1>13. CASE PutFull \/ FlushOverrun \/ UNCHANGED vars
  BY <1>2, <1>13 DEF PutFull, FlushOverrun, files, vars
<1>14. CASE CompactNothing
  <2>1. /\ mt' = Index(SstEntries(sst, sstPos, sstCount))
        /\ sst' = sst /\ sstPos' = sstPos /\ sstCount' = sstCount
    BY <1>14 DEF CompactNothing
  <2> QED
    BY <1>0, <2>1, RebuildFromLevels
<1> QED
  BY <1>3, <1>4, <1>5, <1>6, <1>7, <1>8, <1>9, <1>10, <1>12, <1>13, <1>14 DEF Next

\* An answer from a level is the latest frozen value.
LEMMA LevelHitIs ==
  ASSUME TypeOK, LevelHits(mt, sst, sstPos, sstCount), NEW k \in Keys, NEW c \in OutCaps,
         NEW i \in MtHits(k, c), mt[i].layer \notin {Main, Wal}
  PROVE  ValueAt(mt[i]) = LastVal(Frozen, k)
<1> DEFINE R == FrozenOf(sst, sstPos, sstCount)  f == FilesOf(main, wal, sst)
           x == SstEntries(sst, sstPos, sstCount)
<1>1. LevelsOK(sst, sstPos) /\ sstCount \in Nat /\ mt \in Seq(Entry)
  BY DEF TypeOK, LevelsOK, SstSlots
<1>2. Denote(x, R, f) /\ \A l \in Layers : LayerRecords(l) = f[l]
  BY <1>1, LevelsDenote, ScanDenotes
<1>3. i \in 1 .. Len(mt) /\ Readable(mt[i], k, c) /\ mt[i] \in Entry
  BY <1>1 DEF MtHits
<1>4. PICK p \in 1 .. Len(R) :
        mt[i] = x[p] /\ \A q \in 1 .. Len(R) : R[q].key = R[p].key => q <= p
  BY <1>3 DEF LevelHits, LastFrozen
<1> HIDE DEF R, f, x
<1>5. LayerRecords(mt[i].layer)[mt[i].off] = R[p]
  BY <1>2, <1>3, <1>4 DEF Denote, Entry
<1>6. R[p].key = k /\ ValueAt(mt[i]) = R[p].val
  BY <1>3, <1>5 DEF Readable, ValueAt
<1>7. R \in Seq(Record) /\ p \in DOMAIN R /\ \A q \in DOMAIN R : R[q].key = k => q <= p
  BY <1>2, <1>4, <1>6 DEF Denote
<1>8. LastVal(R, k) = R[p].val
  BY <1>6, <1>7, LastValIs
<1>9. Frozen = R
  BY DEF Frozen, R, FrozenOf
<1> QED
  BY <1>6, <1>8, <1>9

LEMMA HitsAreEnough ==
  ASSUME BuffersFit
  PROVE  TypeOK /\ HitsInv /\ MtHitFresh => GetNoOlderThanFrozen
<1> SUFFICES ASSUME TypeOK, LevelHits(mt, sst, sstPos, sstCount), MtHitFresh, ~Overrun,
                    NEW k \in Keys, NEW c \in OutCaps
             PROVE  GetValue(k, c) \in {Contents[k], LastVal(Frozen, k)}
  BY DEF HitsInv, GetNoOlderThanFrozen
<1>1. CASE MtHits(k, c) # {}
  <2>1. PICK i \in MtHits(k, c) : GetValue(k, c) = ValueAt(mt[i])
    BY <1>1 DEF GetValue
  <2>2. CASE mt[i].layer \in {Main, Wal}
    BY <2>1, <2>2 DEF MtHitFresh
  <2>3. CASE mt[i].layer \notin {Main, Wal}
    BY <2>1, <2>3, LevelHitIs
  <2> QED
    BY <2>2, <2>3
<1>2. CASE MtHits(k, c) = {} /\ Found(k, c) # {}
  <2>1. GetValue(k, c) = ValueAt(LatestFound(k, c))
    BY <1>2 DEF GetValue
  <2> QED
    BY <1>2, <2>1, ScanIsLatest
<1>3. CASE MtHits(k, c) = {} /\ Found(k, c) = {}
  <2>1. GetValue(k, c) = NoVal
    BY <1>3 DEF GetValue
  <2> QED
    BY <1>3, <2>1, ScanIsLatest
<1> QED
  BY <1>1, <1>2, <1>3

\* Whatever the memtable, the scan and the collisions of keys do, get answers
\* the latest value or the latest frozen one, while every compaction opens a
\* level of its own: buffers hold every value, and the log is no larger than the
\* main file.
THEOREM GetsAreNoOlderThanFrozen ==
  ASSUME BuffersFit, LogFits
  PROVE  Spec => []GetNoOlderThanFrozen
<1>1. Init => LevelsBelowGen /\ HitsInv
  BY DEF Init, LevelsBelowGen, HitsInv, LevelHits
<1>2. TypeOK /\ LevelsBelowGen /\ [Next]_vars => LevelsBelowGen'
  BY LevelsBelowGenStep
<1>3. TypeOK /\ LevelsBelowGen /\ HitsInv /\ [Next]_vars => HitsInv'
  BY HitsStep
<1>4. TypeOK /\ HitsInv /\ MtHitFresh => GetNoOlderThanFrozen
  BY HitsAreEnough
<1>5. Spec => []MtHitFresh
  BY MemtableHitsAreFresh
<1> QED
  BY <1>1, <1>2, <1>3, <1>4, <1>5, TypeCorrect, PTL DEF Spec

-----------------------------------------------------------------------------
(* Merging two levels *)

\* Records in the order of an index of all of them: es[p] is the entry of
\* old[p], and d has the record of each entry of the index.  If no two keys of
\* old share a class and the classes fit the table, no key loses its last value.
LEMMA IndexKeeps ==
  ASSUME NEW old \in Seq(Record), NEW es \in Seq(Entry), Len(es) = Len(old),
         \A p \in 1 .. Len(old) : es[p].class = KeyClass[old[p].key],
         \A p, q \in 1 .. Len(old) :
           KeyClass[old[p].key] = KeyClass[old[q].key] => old[p].key = old[q].key,
         Cardinality(FirstSeen(es)) <= MtCap,
         NEW d \in Seq(Record), Len(d) = Len(Index(es)),
         \A i \in 1 .. Len(d), p \in 1 .. Len(old) : Index(es)[i] = es[p] => d[i] = old[p],
         NEW k
  PROVE  LastVal(d, k) = LastVal(old, k)
<1> DEFINE t == Index(es)
<1>0. \A p \in 1 .. Len(old) : es[p].class = KeyClass[old[p].key]
  OBVIOUS
<1>1. /\ t \in Seq(Entry)
      /\ \A i \in 1 .. Len(d) : \E p \in 1 .. Len(old) :
           t[i] = es[p] /\ \A q \in 1 .. Len(old) : es[q].class = es[p].class => q <= p
      /\ \A i, j \in 1 .. Len(d) : t[i].class = t[j].class => i = j
      /\ \A p \in 1 .. Len(old) : \E i \in 1 .. Len(d) : t[i].class = es[p].class
  <2>1. /\ t \in Seq(Entry)
        /\ \A i \in DOMAIN t : \E p \in DOMAIN es :
             t[i] = es[p] /\ \A q \in DOMAIN es : es[q].class = es[p].class => q <= p
        /\ \A i, j \in DOMAIN t : t[i].class = t[j].class => i = j
        /\ \A p \in DOMAIN es : \E i \in DOMAIN t : t[i].class = es[p].class
    BY IndexFacts
  <2> HIDE DEF t
  <2>2. DOMAIN t = 1 .. Len(d) /\ DOMAIN es = 1 .. Len(old)
    BY <2>1 DEF t
  <2> QED
    BY <2>1, <2>2, Zenon
<1>2. ASSUME NEW i \in 1 .. Len(d)
      PROVE  \E p \in 1 .. Len(old) :
               /\ d[i] = old[p] /\ t[i].class = KeyClass[old[p].key]
               /\ \A q \in 1 .. Len(old) : old[q].key = old[p].key => q <= p
  <2>1. PICK p \in 1 .. Len(old) :
          t[i] = es[p] /\ \A q \in 1 .. Len(old) : es[q].class = es[p].class => q <= p
    BY <1>1
  <2>2. d[i] = old[p]
    BY <2>1
  <2>3. t[i].class = KeyClass[old[p].key]
    BY <2>1
  <2>4. \A q \in 1 .. Len(old) : old[q].key = old[p].key => q <= p
    BY <2>1
  <2> QED
    BY <2>2, <2>3, <2>4
<1>a. \A i, j \in 1 .. Len(d) : t[i].class = t[j].class => i = j
  BY <1>1
<1> HIDE DEF t
<1>3. DOMAIN d = 1 .. Len(d) /\ DOMAIN old = 1 .. Len(old) /\ Len(d) \in Nat
  OBVIOUS
<1>4. CASE \E o \in 1 .. Len(old) : old[o].key = k
  <2>1. PICK o \in 1 .. Len(old) : old[o].key = k
    BY <1>4
  <2>2. PICK i \in 1 .. Len(d) : t[i].class = KeyClass[k]
    <3>1. es[o].class = KeyClass[k]
      BY <1>0, <2>1
    <3> QED
      BY <1>1, <2>1, <3>1
  <2>3. PICK p \in 1 .. Len(old) :
               /\ d[i] = old[p] /\ t[i].class = KeyClass[old[p].key]
               /\ \A q \in 1 .. Len(old) : old[q].key = old[p].key => q <= p
    BY <1>2
  <2>4. old[p].key = k
    BY <2>1, <2>2, <2>3
  <2>5. LastVal(old, k) = old[p].val
    <3>1. p \in DOMAIN old /\ \A q \in DOMAIN old : old[q].key = k => q <= p
      BY <1>3, <2>3, <2>4
    <3> QED
      BY SMTT(30), <2>4, <3>1, LastValIs
  <2>6. ASSUME NEW j \in 1 .. Len(d), d[j].key = k
        PROVE  j <= i
    <3>1. t[j].class = KeyClass[k]
      BY <1>2, <2>6
    <3>2. j = i
      BY <1>a, <2>2, <2>6, <3>1
    <3> QED
      BY <1>3, <3>2
  <2>7. d[i].key = k
    BY <2>3, <2>4
  <2>8. LastVal(d, k) = d[i].val
    BY <1>3, <2>6, <2>7, LastValIs
  <2> QED
    BY <2>3, <2>5, <2>8
<1>5. CASE ~(\E o \in 1 .. Len(old) : old[o].key = k)
  <2>1. \A i \in 1 .. Len(d) : d[i].key # k
    BY <1>2, <1>5
  <2>2. LastVal(d, k) = NoVal
    BY SMTT(30), <1>3, <2>1, LastValNone
  <2>3. LastVal(old, k) = NoVal
    BY SMTT(30), <1>3, <1>5, LastValNone
  <2> QED
    BY <2>2, <2>3
<1> QED
  BY <1>4, <1>5

\* The records of the two levels, the newer level's last.
MergedFrom(s, pos, src) == Live(s, pos, src) \o Live(s, pos, src + 1)

\* The entries a merge indexes, and the records they are of.
LEMMA MergeOld ==
  ASSUME NEW s, NEW pos, LevelsOK(s, pos), NEW src \in {0, 1}
  PROVE  /\ MergeEntries(s, pos, src) \in Seq(Entry)
         /\ MergedFrom(s, pos, src) \in Seq(Record)
         /\ Len(MergeEntries(s, pos, src)) = Len(MergedFrom(s, pos, src))
         /\ \A p \in 1 .. Len(MergedFrom(s, pos, src)) :
              /\ MergeEntries(s, pos, src)[p].class = KeyClass[MergedFrom(s, pos, src)[p].key]
              /\ s[MergeEntries(s, pos, src)[p].layer - SstBase][MergeEntries(s, pos, src)[p].off]
                   = MergedFrom(s, pos, src)[p]
<1> DEFINE of(l) == LayerEntries(SstBase + l, Live(s, pos, l))  rec(l) == Live(s, pos, l)
<1>1. ASSUME NEW l \in Slots
      PROVE  /\ of(l) \in Seq(Entry) /\ rec(l) \in Seq(Record)
             /\ Len(of(l)) = Len(rec(l)) /\ Len(rec(l)) \in Nat
             /\ \A i \in 1 .. Len(rec(l)) :
                  /\ of(l)[i].class = KeyClass[rec(l)[i].key]
                  /\ s[of(l)[i].layer - SstBase][of(l)[i].off] = rec(l)[i]
  <2>1. SstBase + l \in Layers /\ (SstBase + l) - SstBase = l
    BY DEF Layers, SstBase, Slots
  <2>2. /\ rec(l) \in Seq(Record) /\ Len(rec(l)) = pos[l] /\ pos[l] \in Nat
        /\ \A j \in 1 .. pos[l] : rec(l)[j] = s[l][j]
    <3>1. pos[l] \in Nat
      BY DEF LevelsOK
    <3>2. /\ Live(s, pos, l) \in Seq(Record) /\ Len(Live(s, pos, l)) = pos[l]
          /\ \A j \in 1 .. pos[l] : Live(s, pos, l)[j] = s[l][j]
      BY LiveFacts
    <3> QED
      BY <3>1, <3>2
  <2> HIDE DEF rec
  <2>3. /\ LayerEntries(SstBase + l, rec(l)) \in Seq(Entry)
        /\ Len(LayerEntries(SstBase + l, rec(l))) = Len(rec(l))
        /\ \A i \in 1 .. Len(rec(l)) :
             /\ LayerEntries(SstBase + l, rec(l))[i].class = KeyClass[rec(l)[i].key]
             /\ LayerEntries(SstBase + l, rec(l))[i].layer = SstBase + l
             /\ LayerEntries(SstBase + l, rec(l))[i].off = i
    BY <2>1, <2>2, LayerEntriesFacts
  <2>4. of(l) = LayerEntries(SstBase + l, rec(l))
    BY DEF rec
  <2> HIDE DEF of
  <2> QED
    BY <2>1, <2>2, <2>3, <2>4
<1>2. src \in Slots /\ src + 1 \in Slots /\ SstBase + src + 1 = SstBase + (src + 1)
  BY DEF Slots, SstSlots, SstBase
<1> DEFINE a == of(src)  b == of(src + 1)  x == rec(src)  y == rec(src + 1)
<1>3. MergeEntries(s, pos, src) = a \o b /\ MergedFrom(s, pos, src) = x \o y
  BY <1>2 DEF MergeEntries, MergedFrom
<1>4. /\ a \in Seq(Entry) /\ x \in Seq(Record) /\ Len(a) = Len(x) /\ Len(x) \in Nat
      /\ \A i \in 1 .. Len(x) :
           a[i].class = KeyClass[x[i].key] /\ s[a[i].layer - SstBase][a[i].off] = x[i]
  BY <1>1, <1>2
<1>5. /\ b \in Seq(Entry) /\ y \in Seq(Record) /\ Len(b) = Len(y) /\ Len(y) \in Nat
      /\ \A i \in 1 .. Len(y) :
           b[i].class = KeyClass[y[i].key] /\ s[b[i].layer - SstBase][b[i].off] = y[i]
  BY <1>1, <1>2
<1> HIDE DEF of, rec, a, b, x, y
<1>6. /\ a \o b \in Seq(Entry) /\ Len(a \o b) = Len(x) + Len(y)
      /\ \A p \in 1 .. Len(x) + Len(y) :
           (a \o b)[p] = IF p <= Len(x) THEN a[p] ELSE b[p - Len(x)]
  <2>1. a \in Seq(Entry) /\ b \in Seq(Entry)
    BY <1>4, <1>5
  <2>2. /\ a \o b \in Seq(Entry) /\ Len(a \o b) = Len(a) + Len(b)
        /\ \A p \in 1 .. Len(a) + Len(b) :
             (a \o b)[p] = IF p <= Len(a) THEN a[p] ELSE b[p - Len(a)]
    BY <2>1, ConcatProperties
  <2>3. Len(a) = Len(x) /\ Len(b) = Len(y)
    BY <1>4, <1>5
  <2> QED
    BY <2>2, <2>3
<1>7. /\ x \o y \in Seq(Record) /\ Len(x \o y) = Len(x) + Len(y)
      /\ \A p \in 1 .. Len(x) + Len(y) :
           (x \o y)[p] = IF p <= Len(x) THEN x[p] ELSE y[p - Len(x)]
  <2>1. x \in Seq(Record) /\ y \in Seq(Record)
    BY <1>4, <1>5
  <2> QED
    BY <2>1, ConcatProperties
<1>8. ASSUME NEW p \in 1 .. Len(x) + Len(y)
      PROVE  /\ (a \o b)[p].class = KeyClass[(x \o y)[p].key]
             /\ s[(a \o b)[p].layer - SstBase][(a \o b)[p].off] = (x \o y)[p]
  <2>1. CASE p <= Len(x)
    <3>1. p \in 1 .. Len(x) /\ (a \o b)[p] = a[p] /\ (x \o y)[p] = x[p]
      BY <1>4, <1>5, <1>6, <1>7, <2>1
    <3> QED
      BY <1>4, <3>1
  <2>2. CASE ~(p <= Len(x))
    <3>1. (a \o b)[p] = b[p - Len(x)] /\ (x \o y)[p] = y[p - Len(x)]
      BY <1>6, <1>7, <2>2
    <3>2. p - Len(x) \in 1 .. Len(y)
      BY <1>4, <1>5, <2>2
    <3>3. PICK i \in 1 .. Len(y) : i = p - Len(x)
      BY <3>2
    <3> QED
      BY <1>5, <3>1, <3>3
  <2> QED
    BY <2>1, <2>2
<1> QED
  BY <1>3, <1>6, <1>7, <1>8

\* One merge.
LEMMA OneMergeKeeps ==
  ASSUME NEW s, NEW pos, LevelsOK(s, pos), NEW src \in {0, 1},
         Cardinality(KeysOf(MergedFrom(s, pos, src))) <= Cap,
         Cardinality(KeysOf(MergedFrom(s, pos, src))) <= MtCap,
         Apart(KeysOf(MergedFrom(s, pos, src))), NEW k \in Keys
  PROVE  LastVal(MergedRecords(s, pos, src), k) = LastVal(MergedFrom(s, pos, src), k)
<1> DEFINE es == MergeEntries(s, pos, src)
           t == Index(es)
           d == MergedRecords(s, pos, src)
           old == MergedFrom(s, pos, src)
           ks == KeysOf(old)
           cs == {KeyClass[x] : x \in ks}
<1>1. LevelsOK(s, pos)
  OBVIOUS
<1>2. /\ es \in Seq(Entry) /\ old \in Seq(Record) /\ Len(es) = Len(old)
      /\ \A p \in 1 .. Len(old) :
           /\ es[p].class = KeyClass[old[p].key]
           /\ s[es[p].layer - SstBase][es[p].off] = old[p]
  <2> HIDE DEF es, old
  <2> QED
    BY <1>1, MergeOld DEF es, old
<1>a. Cardinality(ks) <= Cap /\ Cardinality(ks) <= MtCap /\ Apart(ks)
  OBVIOUS
<1> HIDE DEF es, old
<1>3. DOMAIN old = 1 .. Len(old) /\ DOMAIN es = 1 .. Len(old) /\ Len(old) \in Nat
  BY <1>2
<1>4. ks \in SUBSET Keys /\ IsFiniteSet(ks)
  <2>1. \A p \in 1 .. Len(old) : old[p] \in Record
    BY <1>2
  <2>2. ks \in SUBSET Keys
    BY <1>3, <2>1 DEF Record, KeysOf
  <2> QED
    BY <2>2, FS_Subset, KvConstants
<1>5. \A p \in 1 .. Len(old) : old[p].key \in ks
  BY <1>3 DEF KeysOf
<1>6. \A x, y \in ks : KeyClass[x] = KeyClass[y] => x = y
  BY <1>a DEF Apart
<1> DEFINE F == FirstSeen(es)
<1>7. Cardinality(F) <= MtCap
  <2> DEFINE g == [p \in F |-> old[p].key]
  <2>1. F \in SUBSET (1 .. Len(old))
    BY <1>3 DEF FirstSeen
  <2>2. g \in [F -> ks]
    <3> HIDE DEF F, ks
    <3> QED
      BY <1>5, <2>1
  <2>3. ASSUME NEW p \in F, NEW q \in F, g[p] = g[q]
        PROVE  p = q
    <3>1. p \in 1 .. Len(old) /\ q \in 1 .. Len(old) /\ p \in Int /\ q \in Int
      BY <2>1
    <3>2. old[p].key = old[q].key
      BY <2>3
    <3>3. es[p].class = KeyClass[old[p].key] /\ es[q].class = KeyClass[old[q].key]
      BY <1>2, <3>1
    <3>4. es[p].class = es[q].class
      BY <3>2, <3>3
    <3> QED
      BY <1>3, <3>1, <3>4 DEF FirstSeen
  <2> HIDE DEF g, F, ks
  <2>4. g \in Injection(F, ks)
    BY <2>2, <2>3 DEF Injection, IsInjective
  <2>5. Cardinality(F) <= Cardinality(ks) /\ IsFiniteSet(F)
    BY <1>4, <2>4, FS_Injection
  <2>6. Cardinality(F) \in Nat /\ Cardinality(ks) \in Nat /\ MtCap \in Nat
    BY <1>4, <2>5, FS_CardinalityType, KvConstants
  <2> QED
    BY <1>a, <2>5, <2>6
<1>8. /\ t \in Seq(Entry) /\ Len(t) \in Nat
      /\ \A i \in 1 .. Len(t) : \E p \in 1 .. Len(old) : t[i] = es[p]
      /\ \A i, j \in 1 .. Len(t) : t[i].class = t[j].class => i = j
  <2>1. /\ t \in Seq(Entry)
        /\ \A i \in DOMAIN t : \E p \in DOMAIN es : t[i] = es[p]
        /\ \A i, j \in DOMAIN t : t[i].class = t[j].class => i = j
    <3>1. es \in Seq(Entry)
      BY <1>2
    <3> QED
      BY <3>1, IndexFacts
  <2> HIDE DEF t
  <2>2. DOMAIN t = 1 .. Len(t) /\ Len(t) \in Nat
    BY <2>1
  <2> QED
    BY <1>3, <2>1, <2>2
<1> HIDE DEF F, t
<1>9. Len(t) <= Cap
  <2> DEFINE h == [i \in 1 .. Len(t) |-> t[i].class]
  <2>1. h \in [1 .. Len(t) -> cs]
    <3>1. ASSUME NEW i \in 1 .. Len(t)
          PROVE  t[i].class \in cs
      <4>1. PICK p \in 1 .. Len(old) : t[i] = es[p]
        BY <1>8
      <4>2. t[i].class = KeyClass[old[p].key] /\ old[p].key \in ks
        BY <1>2, <1>5, <4>1
      <4> HIDE DEF ks
      <4> QED
        BY <4>2
    <3> HIDE DEF cs
    <3> QED
      BY <3>1
  <2> HIDE DEF cs
  <2>2. h \in Injection(1 .. Len(t), cs)
    BY <1>8, <2>1 DEF Injection, IsInjective
  <2>3. IsFiniteSet(cs) /\ Cardinality(cs) <= Cardinality(ks)
    <3> DEFINE f == [x \in ks |-> KeyClass[x]]
    <3> HIDE DEF ks
    <3>1. f \in Surjection(ks, cs)
      BY DEF Surjection, cs
    <3> QED
      BY <1>4, <3>1, FS_Surjection
  <2> HIDE DEF h
  <2>4. Cardinality(1 .. Len(t)) <= Cardinality(cs)
    BY <2>2, <2>3, FS_Injection
  <2>5. Cardinality(1 .. Len(t)) = Len(t)
    BY <1>8, PositionsFinite
  <2>6. Cardinality(ks) \in Nat /\ Cardinality(cs) \in Nat /\ Cap \in Nat
    BY <1>4, <2>3, FS_CardinalityType, KvConstants
  <2> HIDE DEF ks
  <2> QED
    BY <1>8, <1>a, <2>3, <2>4, <2>5, <2>6
<1>10. /\ d \in Seq(Record) /\ Len(d) = Len(t)
       /\ \A i \in 1 .. Len(d) : d[i] = s[t[i].layer - SstBase][t[i].off]
  <2> DEFINE n == IF Len(t) < Cap THEN Len(t) ELSE Cap
             r(i) == s[t[i].layer - SstBase][t[i].off]
  <2>1. n = Len(t)
    BY <1>8, <1>9, KvConstants
  <2>2. d = [i \in 1 .. n |-> r(i)]
    BY DEF MergedRecords, t, es
  <2>3. \A i \in 1 .. Len(t) : r(i) \in Record
    <3> TAKE i \in 1 .. Len(t)
    <3>1. PICK p \in 1 .. Len(old) : t[i] = es[p]
      BY <1>8
    <3>2. r(i) = old[p]
      BY <1>2, <3>1
    <3>3. old[p] \in Record
      BY <1>2
    <3> QED
      BY <3>2, <3>3
  <2> HIDE DEF r, n, d
  <2>4. d = [i \in 1 .. Len(t) |-> r(i)]
    BY <2>1, <2>2
  <2>5. d \in Seq(Record) /\ Len(d) = Len(t)
    BY <1>8, <2>3, <2>4, IsASeq
  <2> QED
    BY <2>4, <2>5 DEF r
<1> HIDE DEF d
<1>11. ASSUME NEW i \in 1 .. Len(d), NEW p \in 1 .. Len(old), t[i] = es[p]
       PROVE  d[i] = old[p]
  <2>1. d[i] = s[t[i].layer - SstBase][t[i].off]
    BY <1>10
  <2>2. s[es[p].layer - SstBase][es[p].off] = old[p]
    BY <1>2
  <2> QED
    BY <1>11, <2>1, <2>2
<1>12. \A p, q \in 1 .. Len(old) :
           KeyClass[old[p].key] = KeyClass[old[q].key] => old[p].key = old[q].key
  BY <1>5, <1>6
<1> QED
  <2>1. Len(d) = Len(Index(es))
    BY <1>10 DEF t
  <2>2. \A i \in 1 .. Len(d), p \in 1 .. Len(old) : Index(es)[i] = es[p] => d[i] = old[p]
    BY <1>11 DEF t
  <2>3. Cardinality(FirstSeen(es)) <= MtCap
    BY <1>7 DEF F
  <2>4. LastVal(d, k) = LastVal(old, k)
    BY <1>2, <1>10, <1>12, <2>1, <2>2, <2>3, IndexKeeps
  <2> QED
    BY <2>4 DEF d, old

\* What TypeOK says of the levels is all that MergeKeepsNewest needs.
LEMMA MergeKeeps == TypeOK => MergeKeepsNewest
<1>1. TypeOK => LevelsOK(sst, sstPos)
  BY DEF TypeOK, LevelsOK
<1>2. ASSUME TypeOK, NEW src \in {0, 1},
             Cardinality(KeysOf(MergedFrom(sst, sstPos, src))) <= Cap,
             Cardinality(KeysOf(MergedFrom(sst, sstPos, src))) <= MtCap,
             Apart(KeysOf(MergedFrom(sst, sstPos, src))), NEW k \in Keys
      PROVE  LastVal(MergedRecords(sst, sstPos, src), k) = LastVal(MergedFrom(sst, sstPos, src), k)
  BY <1>1, <1>2, OneMergeKeeps
<1> QED
  BY <1>2 DEF MergeKeepsNewest, MergedFrom

\* A merge of two frozen levels loses no key's newest value, whatever the levels
\* hold: kv_sst_merge_dedup, when the keys fit and none shares a class.
THEOREM MergesKeepNewest == Spec => []MergeKeepsNewest
BY TypeCorrect, MergeKeeps, PTL

-----------------------------------------------------------------------------
(* What a crash leaves *)

LEMMA ThreeSlots == Slots = {0, 1, 2} /\ SstSlots = 3
BY DEF Slots, SstSlots

\* Freezing over a slot changes that slot only, which then holds the compacted
\* records at its start.
LEMMA FrozenFacts ==
  ASSUME TypeOK, FlushInBounds, NEW s, NEW pos, LevelsOK(s, pos), NEW slot \in Slots
  PROVE  /\ LevelsOK(FrozenIn(s, slot), pos)
         /\ LevelsOK(FrozenIn(s, slot), FrozenPos(pos, slot))
         /\ Live(FrozenIn(s, slot), FrozenPos(pos, slot), slot) = CompactedMain
         /\ OnePerClass(FrozenIn(s, slot)[slot], FrozenPos(pos, slot)[slot])
         /\ \A i \in Slots \ {slot} :
              FrozenIn(s, slot)[i] = s[i] /\ FrozenPos(pos, slot)[i] = pos[i]
<1> DEFINE m == CompactedMain  o == s[slot]  f == m \o SubSeq(o, Len(m) + 1, Len(o))
           t == FrozenIn(s, slot)  q == FrozenPos(pos, slot)
<1>1. /\ m \in Seq(Record) /\ Len(m) <= Cap /\ Len(m) \in Nat /\ FlushedMain \in Seq(Record)
      /\ o \in Seq(Record) /\ Len(o) \in Nat /\ Len(o) <= Cap /\ pos[slot] <= Len(o)
      /\ pos[slot] \in Nat /\ Cap \in Nat
  BY FlushTypes, KvConstants DEF LevelsOK
<1>2. t = [s EXCEPT ![slot] = f] /\ q = [pos EXCEPT ![slot] = Len(m)]
  BY DEF FrozenIn, FrozenPos, LevelsOK
<1>3. OnePerClass(m, Len(m))
  BY <1>1, CompactedDistinct DEF CompactedMain
<1> HIDE DEF m, t, q
<1>4. /\ f \in Seq(Record) /\ Len(f) = (IF Len(m) < Len(o) THEN Len(o) ELSE Len(m))
      /\ \A i \in 1 .. Len(m) : f[i] = m[i]
  BY <1>1, CopiedOver
<1> HIDE DEF f, o
<1>5. /\ t[slot] = f /\ q[slot] = Len(m)
      /\ \A i \in Slots \ {slot} : t[i] = s[i] /\ q[i] = pos[i]
      /\ t \in [Slots -> Seq(Record)] /\ q \in [Slots -> Nat]
  BY <1>1, <1>2, <1>4 DEF LevelsOK
<1>6. Len(f) <= Cap /\ Len(m) <= Len(f) /\ pos[slot] <= Len(f)
  BY <1>1, <1>4
<1>7. LevelsOK(t, pos) /\ LevelsOK(t, q)
  BY <1>5, <1>6 DEF LevelsOK
<1>8. Live(t, q, slot) = m
  <2>1. /\ Live(t, q, slot) \in Seq(Record) /\ Len(Live(t, q, slot)) = Len(m)
        /\ \A j \in 1 .. Len(m) : Live(t, q, slot)[j] = f[j]
    BY <1>5, <1>7, LiveFacts
  <2> QED
    BY <1>1, <1>4, <2>1, SeqEqual
<1>9. OnePerClass(t[slot], q[slot])
  BY <1>3, <1>4, <1>5 DEF OnePerClass
<1> QED
  BY <1>5, <1>7, <1>8, <1>9 DEF m, t, q

\* A merge changes its two levels: the newer one holds the records of both.
LEMMA MergedFacts ==
  ASSUME NEW s, NEW pos, LevelsOK(s, pos), NEW src \in {0, 1}
  PROVE  /\ LevelsOK(MergeSst(s, pos, src), MergePos(s, pos, src))
         /\ Live(MergeSst(s, pos, src), MergePos(s, pos, src), src) = <<>>
         /\ MergePos(s, pos, src)[src] = 0
         /\ Live(MergeSst(s, pos, src), MergePos(s, pos, src), src + 1)
              = MergedRecords(s, pos, src)
         /\ \A i \in Slots \ {src, src + 1} :
              MergeSst(s, pos, src)[i] = s[i] /\ MergePos(s, pos, src)[i] = pos[i]
<1> DEFINE d == MergedRecords(s, pos, src)  t == MergeSst(s, pos, src)  q == MergePos(s, pos, src)
<1>1. src \in Slots /\ src + 1 \in Slots /\ src # src + 1
  BY ThreeSlots
<1>2. LevelsOK(t, q)
  BY MergeType
<1>3. t = [s EXCEPT ![src] = <<>>, ![src + 1] = d] /\ q = [pos EXCEPT ![src] = 0, ![src + 1] = Len(d)]
  BY DEF MergeSst, MergePos
<1> HIDE DEF d, t, q
<1>4. /\ t[src] = <<>> /\ q[src] = 0 /\ t[src + 1] = d /\ q[src + 1] = Len(d)
      /\ \A i \in Slots \ {src, src + 1} : t[i] = s[i] /\ q[i] = pos[i]
  BY <1>1, <1>3 DEF LevelsOK
<1>5. d \in Seq(Record)
  BY <1>1, <1>2, <1>4 DEF LevelsOK
<1>6. Live(t, q, src + 1) = d
  BY <1>4, <1>5, SubSeqFull DEF Live
<1>7. Live(t, q, src) = <<>>
  <2>1. Live(t, q, src) \in Seq(Record) /\ Len(Live(t, q, src)) = 0
    BY <1>1, <1>2, <1>4, LiveFacts
  <2> QED
    BY <2>1
<1> QED
  BY <1>2, <1>4, <1>6, <1>7 DEF d, t, q

\* The levels while a merge is written to its target: x is in the file, and its
\* first n records are counted.
TargetSst(s, src, x) == [s EXCEPT ![src + 1] = x]
TargetPos(pos, src, n) == [pos EXCEPT ![src + 1] = n]

LEMMA TargetFacts ==
  ASSUME NEW s, NEW pos, LevelsOK(s, pos), NEW src \in {0, 1},
         NEW x \in {<<>>, MergedRecords(s, pos, src)}, NEW n \in 0 .. Len(x)
  PROVE  /\ LevelsOK(TargetSst(s, src, x), TargetPos(pos, src, n))
         /\ TargetSst(s, src, x)[src + 1] = x /\ TargetPos(pos, src, n)[src + 1] = n
         /\ \A i \in Slots \ {src + 1} :
              TargetSst(s, src, x)[i] = s[i] /\ TargetPos(pos, src, n)[i] = pos[i]
<1> DEFINE u == MergeSst(s, pos, src)  v == MergePos(s, pos, src)
           d == MergedRecords(s, pos, src)
           t == TargetSst(s, src, x)  q == TargetPos(pos, src, n)
<1>1. src + 1 \in Slots /\ LevelsOK(u, v) /\ u[src + 1] = d
  <2>1. src \in Slots /\ src + 1 \in Slots /\ src # src + 1
    BY ThreeSlots
  <2> QED
    BY <2>1, MergeType DEF MergeSst, LevelsOK
<1> HIDE DEF u, v
<1>2. d \in Seq(Record) /\ Len(d) <= Cap
  BY <1>1 DEF LevelsOK
<1> HIDE DEF d
<1>3. x \in Seq(Record) /\ Len(x) <= Cap /\ n \in Nat /\ n <= Len(x)
  <2>1. <<>> \in Seq(Record) /\ Len(<<>>) = 0 /\ 0 <= Cap
    BY KvConstants
  <2>2. x \in Seq(Record) /\ Len(x) <= Cap
    BY <1>2, <2>1 DEF d
  <2> QED
    BY <2>2
<1>4. t = [s EXCEPT ![src + 1] = x] /\ q = [pos EXCEPT ![src + 1] = n]
  BY DEF TargetSst, TargetPos
<1> HIDE DEF t, q
<1>5. /\ t[src + 1] = x /\ q[src + 1] = n
      /\ \A i \in Slots \ {src + 1} : t[i] = s[i] /\ q[i] = pos[i]
      /\ t \in [Slots -> Seq(Record)] /\ q \in [Slots -> Nat]
  BY <1>1, <1>3, <1>4 DEF LevelsOK
<1>6. LevelsOK(t, q)
  BY <1>3, <1>5 DEF LevelsOK
<1> QED
  BY <1>5, <1>6 DEF t, q

\* What a crash in a freeze leaves.
LEMMA FreezePrefixIs ==
  ASSUME NEW s, NEW pos, NEW slot, NEW f \in FreezePrefixes(s, pos, slot)
  PROVE  LET t == FrozenIn(s, slot)
             q == FrozenPos(pos, slot)
         IN  \/ f.s = s /\ f.pos = pos /\ f.count = slot /\ f.main = CompactedMain
             \/ /\ f.s = t /\ f.pos \in {pos, q} /\ f.count = slot
                /\ f.main = CompactedMain
             \/ /\ f.s = t /\ f.pos = q /\ f.count = slot + 1
                /\ f.main \in {CompactedMain, <<>>}
<1> DEFINE t == FrozenIn(s, slot)  q == FrozenPos(pos, slot)  c == CompactedMain
<1> HIDE DEF t, q, c
<1>1. \/ f = [s |-> s, pos |-> pos, count |-> slot, main |-> c]
      \/ f = [s |-> t, pos |-> pos, count |-> slot, main |-> c]
      \/ f = [s |-> t, pos |-> q, count |-> slot, main |-> c]
      \/ f = [s |-> t, pos |-> q, count |-> slot + 1, main |-> c]
      \/ f = [[s |-> t, pos |-> q, count |-> slot + 1, main |-> c] EXCEPT !.main = <<>>]
  BY DEF FreezePrefixes, Levels, t, q, c
<1>2. \/ f.s = s /\ f.pos = pos /\ f.count = slot /\ f.main = c
      \/ /\ f.s = t /\ f.pos \in {pos, q} /\ f.count = slot
         /\ f.main = c
      \/ /\ f.s = t /\ f.pos = q /\ f.count = slot + 1
         /\ f.main \in {c, <<>>}
  BY <1>1
<1> QED
  BY Zenon, <1>2 DEF t, q, c

\* It is well formed, and distinct where the header counts it.
LEMMA FreezePrefixOK ==
  ASSUME TypeOK, FlushInBounds, NEW s, NEW pos, LevelsOK(s, pos), NEW slot \in Slots,
         NEW f \in FreezePrefixes(s, pos, slot)
  PROVE  /\ LevelsOK(f.s, f.pos) /\ f.count \in 0 .. SstSlots
         /\ f.main \in {CompactedMain, <<>>}
         /\ LevelsDistinct(s, pos, slot) => LevelsDistinct(f.s, f.pos, f.count)
<1> DEFINE t == FrozenIn(s, slot)  q == FrozenPos(pos, slot)
<1>1. /\ LevelsOK(t, pos) /\ LevelsOK(t, q) /\ OnePerClass(t[slot], q[slot])
      /\ \A i \in Slots \ {slot} : t[i] = s[i] /\ q[i] = pos[i]
  BY FrozenFacts
<1>2. /\ f.main \in {CompactedMain, <<>>}
      /\ \/ f.s = s /\ f.pos = pos /\ f.count = slot
         \/ f.s = t /\ f.pos \in {pos, q} /\ f.count = slot
         \/ f.s = t /\ f.pos = q /\ f.count = slot + 1
  BY FreezePrefixIs
<1>3. LevelsOK(f.s, f.pos) /\ f.count \in 0 .. SstSlots
  BY <1>1, <1>2, ThreeSlots
<1> HIDE DEF t, q
<1>4. ASSUME LevelsDistinct(s, pos, slot)
      PROVE  LevelsDistinct(f.s, f.pos, f.count)
  <2>1. ASSUME NEW l \in Slots, l < f.count
        PROVE  OnePerClass(f.s[l], f.pos[l])
    <3>1. CASE l = slot
      <4>1. f.s = t /\ f.pos = q
        BY <1>2, <2>1, <3>1, ThreeSlots
      <4> QED
        BY <1>1, <3>1, <4>1
    <3>2. CASE l # slot
      <4>1. l < slot
        BY <1>2, <2>1, <3>2, ThreeSlots
      <4>2. f.s[l] = s[l] /\ f.pos[l] = pos[l]
        BY <1>1, <1>2, <3>2
      <4> QED
        BY <1>4, <4>1, <4>2 DEF LevelsDistinct
    <3> QED
      BY <3>1, <3>2
  <2> QED
    BY <2>1 DEF LevelsDistinct
<1> QED
  BY <1>2, <1>3, <1>4

\* What a crash in a merge leaves: its target written so far, or all of it.
LEMMA MergePrefixIs ==
  ASSUME NEW s, NEW pos, LevelsOK(s, pos), NEW src \in {0, 1},
         NEW f \in MergePrefixes(s, pos, src)
  PROVE  /\ f.count = SstSlots /\ f.main = CompactedMain
         /\ \/ f.s = MergeSst(s, pos, src) /\ f.pos = MergePos(s, pos, src)
            \/ \E x \in {<<>>, MergedRecords(s, pos, src)} : \E n \in 0 .. Len(x) :
                 f.s = TargetSst(s, src, x) /\ f.pos = TargetPos(pos, src, n)
<1> DEFINE d == MergedRecords(s, pos, src)
           n == IF pos[src + 1] < Len(d) THEN pos[src + 1] ELSE Len(d)
           t == MergeSst(s, pos, src)  q == MergePos(s, pos, src)
           c == CompactedMain
<1>1. n \in 0 .. Len(d) /\ Len(d) \in 0 .. Len(d) /\ 0 \in 0 .. Len(<<>>)
  <2>1. src + 1 \in Slots /\ LevelsOK(t, q) /\ t[src + 1] = d
    <3>1. src \in Slots /\ src + 1 \in Slots /\ src # src + 1
      BY ThreeSlots
    <3> QED
      BY <3>1, MergeType DEF MergeSst, LevelsOK
  <2> HIDE DEF t, q
  <2>2. d \in Seq(Record) /\ pos[src + 1] \in Nat
    BY <2>1 DEF LevelsOK
  <2> HIDE DEF d
  <2> QED
    BY <2>2
<1>2. \/ f = Levels(TargetSst(s, src, <<>>), TargetPos(pos, src, 0), SstSlots)
      \/ f = Levels(TargetSst(s, src, d), TargetPos(pos, src, n), SstSlots)
      \/ f = Levels(TargetSst(s, src, d), TargetPos(pos, src, Len(d)), SstSlots)
      \/ f = Levels(t, q, SstSlots)
  BY Zenon DEF MergePrefixes, TargetSst, TargetPos
<1> HIDE DEF d, n, t, q
<1>3. /\ f.count = SstSlots /\ f.main = CompactedMain
      /\ \/ f.s = t /\ f.pos = q
         \/ f.s = TargetSst(s, src, <<>>) /\ f.pos = TargetPos(pos, src, 0)
         \/ f.s = TargetSst(s, src, d) /\ f.pos \in {TargetPos(pos, src, n), TargetPos(pos, src, Len(d))}
  BY <1>2 DEF Levels
<1>4. \/ f.s = t /\ f.pos = q
      \/ \E x \in {<<>>, d} : \E i \in 0 .. Len(x) :
           f.s = TargetSst(s, src, x) /\ f.pos = TargetPos(pos, src, i)
  BY <1>1, <1>3
<1> QED
  BY <1>3, <1>4 DEF d, t, q

\* It is well formed and distinct too.
LEMMA MergePrefixOK ==
  ASSUME NEW s, NEW pos, LevelsOK(s, pos), NEW src \in {0, 1},
         NEW f \in MergePrefixes(s, pos, src)
  PROVE  /\ LevelsOK(f.s, f.pos) /\ f.count = SstSlots /\ f.main = CompactedMain
         /\ LevelsDistinct(s, pos, SstSlots) => LevelsDistinct(f.s, f.pos, f.count)
<1>1. CASE f.s = MergeSst(s, pos, src) /\ f.pos = MergePos(s, pos, src)
  BY <1>1, MergePrefixIs, MergedFacts, MergeDistinct
<1>2. ASSUME NEW x \in {<<>>, MergedRecords(s, pos, src)}, NEW n \in 0 .. Len(x),
             f.s = TargetSst(s, src, x), f.pos = TargetPos(pos, src, n)
      PROVE  /\ LevelsOK(f.s, f.pos)
             /\ LevelsDistinct(s, pos, SstSlots) => LevelsDistinct(f.s, f.pos, SstSlots)
  <2>1. /\ LevelsOK(f.s, f.pos) /\ f.s[src + 1] = x /\ f.pos[src + 1] = n
        /\ \A i \in Slots \ {src + 1} : f.s[i] = s[i] /\ f.pos[i] = pos[i]
    BY <1>2, TargetFacts
  <2>2. OnePerClass(x, n)
    <3>1. OnePerClass(<<>>, 0)
      BY DEF OnePerClass
    <3>2. OnePerClass(x, Len(x)) /\ Len(x) \in Nat
      <4>1. src + 1 \in Slots
        BY ThreeSlots
      <4>2. \A i \in Slots : f.s[i] \in Seq(Record)
        BY <2>1 DEF LevelsOK
      <4>3. x \in Seq(Record)
        BY <2>1, <4>1, <4>2
      <4> QED
        BY <3>1, <4>3, MergedDistinct
    <3> QED
      BY <3>2 DEF OnePerClass
  <2> QED
    BY <2>1, <2>2 DEF LevelsDistinct
<1> QED
  BY <1>1, <1>2, MergePrefixIs

\* The levels of a compaction that finds all slots used, after each merge.
Sst1 == MergeSst(sst, sstPos, 0)
Pos1 == MergePos(sst, sstPos, 0)
Sst2 == MergeSst(Sst1, Pos1, 1)
Pos2 == MergePos(Sst1, Pos1, 1)

\* The start of a new level: its write_pos is 0 before anything is counted.
NewPos == [sstPos EXCEPT ![sstCount] = 0]

LEMMA PrefixCases ==
  ASSUME TypeOK, NEW f \in CompactPrefixes
  PROVE  \/ f.s = sst /\ f.pos = sstPos /\ f.count = sstCount /\ f.main = CompactedMain
         \/ /\ FlushedMain # <<>> /\ sstCount \in Slots
            /\ f \in FreezePrefixes(sst, NewPos, sstCount)
         \/ /\ FlushedMain # <<>> /\ sstCount = SstSlots
            /\ \/ f \in MergePrefixes(sst, sstPos, 0)
               \/ f \in MergePrefixes(Sst1, Pos1, 1)
               \/ f \in FreezePrefixes(Sst2, Pos2, 2)
<1>1. sstCount \in Slots \/ sstCount = SstSlots
  BY ThreeSlots DEF TypeOK
<1>2. ASSUME f = Levels(sst, sstPos, sstCount)
      PROVE  f.s = sst /\ f.pos = sstPos /\ f.count = sstCount /\ f.main = CompactedMain
  BY <1>2 DEF Levels
<1>3. CASE FlushedMain = <<>>
  BY <1>2, <1>3 DEF CompactPrefixes
<1>4. CASE FlushedMain # <<>> /\ sstCount < SstSlots
  <2>1. f \in NewLevelPrefixes /\ sstCount \in Slots
    BY <1>1, <1>4, ThreeSlots DEF CompactPrefixes
  <2>2. NewLevelPrefixes = {Levels(sst, sstPos, sstCount)}
                             \cup FreezePrefixes(sst, NewPos, sstCount)
    BY DEF NewLevelPrefixes, NewPos
  <2>3. f = Levels(sst, sstPos, sstCount) \/ f \in FreezePrefixes(sst, NewPos, sstCount)
    BY <2>1, <2>2
  <2> QED
    BY <1>2, <1>4, <2>1, <2>3
<1>5. CASE FlushedMain # <<>> /\ ~(sstCount < SstSlots)
  <2>1. f \in FullLevelsPrefixes /\ sstCount = SstSlots
    BY <1>1, <1>5, ThreeSlots DEF CompactPrefixes
  <2>2. FullLevelsPrefixes = MergePrefixes(sst, sstPos, 0) \cup MergePrefixes(Sst1, Pos1, 1)
                               \cup FreezePrefixes(Sst2, Pos2, 2)
    BY DEF FullLevelsPrefixes, Sst1, Pos1, Sst2, Pos2
  <2> QED
    BY <1>5, <2>1, <2>2
<1> QED
  BY <1>3, <1>4, <1>5

LEMMA StagesOK ==
  ASSUME TypeOK
  PROVE  /\ LevelsOK(sst, sstPos) /\ LevelsOK(Sst1, Pos1) /\ LevelsOK(Sst2, Pos2)
         /\ sstCount \in Slots => LevelsOK(sst, NewPos)
         /\ LevelsDistinct(sst, sstPos, sstCount) /\ sstCount \in Slots =>
              LevelsDistinct(sst, NewPos, sstCount)
         /\ LevelsDistinct(sst, sstPos, SstSlots) =>
              LevelsDistinct(Sst1, Pos1, SstSlots) /\ LevelsDistinct(Sst2, Pos2, 2)
<1>1. LevelsOK(sst, sstPos)
  BY DEF TypeOK, LevelsOK
<1>2. LevelsOK(Sst1, Pos1)
  BY <1>1, MergeType DEF Sst1, Pos1
<1>3. LevelsOK(Sst2, Pos2)
  BY <1>2, MergeType DEF Sst2, Pos2
<1>4. ASSUME sstCount \in Slots
      PROVE  /\ LevelsOK(sst, NewPos)
             /\ LevelsDistinct(sst, sstPos, sstCount) => LevelsDistinct(sst, NewPos, sstCount)
  <2>1. NewPos \in [Slots -> Nat] /\ NewPos[sstCount] = 0
        /\ \A i \in Slots \ {sstCount} : NewPos[i] = sstPos[i]
    BY <1>1, <1>4 DEF NewPos, LevelsOK
  <2>2. /\ sst \in [Slots -> Seq(Record)]
        /\ \A i \in Slots : sstPos[i] <= Len(sst[i]) /\ Len(sst[i]) <= Cap /\ Len(sst[i]) \in Nat
    BY <1>1 DEF LevelsOK
  <2>3. ASSUME NEW i \in Slots
        PROVE  NewPos[i] <= Len(sst[i])
    <3>1. CASE i = sstCount
      <4>1. Len(sst[i]) \in Nat /\ NewPos[i] = 0
        BY <2>1, <2>2, <3>1
      <4> QED
        BY <4>1
    <3>2. CASE i # sstCount
      <4>1. NewPos[i] = sstPos[i]
        BY <2>1, <3>2
      <4> QED
        BY <2>2, <4>1
    <3> QED
      BY <3>1, <3>2
  <2>4. LevelsOK(sst, NewPos)
    BY <2>1, <2>2, <2>3 DEF LevelsOK
  <2>5. \A l \in Slots : l < sstCount => l # sstCount
    BY ThreeSlots, <1>4
  <2> QED
    BY <2>1, <2>4, <2>5 DEF LevelsDistinct
<1>5. ASSUME LevelsDistinct(sst, sstPos, SstSlots)
      PROVE  LevelsDistinct(Sst1, Pos1, SstSlots) /\ LevelsDistinct(Sst2, Pos2, 2)
  <2>1. LevelsDistinct(Sst1, Pos1, SstSlots)
    BY <1>1, <1>5, MergeDistinct DEF Sst1, Pos1
  <2>2. LevelsDistinct(Sst2, Pos2, SstSlots)
    BY <1>2, <2>1, MergeDistinct DEF Sst2, Pos2
  <2> QED
    BY <2>1, <2>2, ThreeSlots DEF LevelsDistinct
<1> QED
  BY <1>1, <1>2, <1>3, <1>4, <1>5

LEMMA PrefixesOK ==
  ASSUME TypeOK, FlushInBounds, NEW f \in CompactPrefixes
  PROVE  /\ LevelsOK(f.s, f.pos) /\ f.count \in 0 .. SstSlots
         /\ f.main \in {CompactedMain, <<>>}
         /\ LevelsDistinct(sst, sstPos, sstCount) => LevelsDistinct(f.s, f.pos, f.count)
<1>1. CASE f.s = sst /\ f.pos = sstPos /\ f.count = sstCount /\ f.main = CompactedMain
  BY <1>1, StagesOK DEF TypeOK
<1>2. CASE sstCount \in Slots /\ f \in FreezePrefixes(sst, NewPos, sstCount)
  BY <1>2, StagesOK, FreezePrefixOK
<1>3. CASE sstCount = SstSlots /\ f \in MergePrefixes(sst, sstPos, 0)
  BY <1>3, StagesOK, MergePrefixOK, ThreeSlots
<1>4. CASE sstCount = SstSlots /\ f \in MergePrefixes(Sst1, Pos1, 1)
  BY <1>4, StagesOK, MergePrefixOK, ThreeSlots
<1>5. CASE sstCount = SstSlots /\ f \in FreezePrefixes(Sst2, Pos2, 2)
  BY <1>5, StagesOK, FreezePrefixOK, ThreeSlots
<1> QED
  BY <1>1, <1>2, <1>3, <1>4, <1>5, PrefixCases

-----------------------------------------------------------------------------
(* Invariants in spite of crashes *)

\* The files after a crash.
LEMMA CrashTypes ==
  ASSUME TypeOK, Crash
  PROVE  TypeOK'
<1>1. Die => /\ isOpen' \in BOOLEAN /\ mapped' \subseteq Slots
             /\ mt' \in Seq(Entry) /\ Len(mt') <= MtCap
  <2>1. <<>> \in Seq(Entry) /\ Len(<<>>) = 0 /\ 0 <= MtCap
    BY KvConstants
  <2> QED
    BY <2>1 DEF Die
<1>2. ASSUME NEW j \in 0 .. FlushCount, j <= Room, CrashInFlush(j)
      PROVE  TypeOK'
  <2>1. j \in Nat /\ j <= Len(wal)
    BY RoomTypes
  <2>2. /\ CopiedMain(j) \in Seq(Record) /\ CopiedGap(j) \in Nat
        /\ Len(CopiedMain(j)) + CopiedGap(j) = Len(main) + gap + j
    BY <2>1, CopyTypes
  <2>3. main' \in Seq(Record) /\ gap' \in Nat /\ Len(main') + gap' <= Cap + 1
    <3>1. main' = CopiedMain(j) /\ gap' = CopiedGap(j)
      BY <1>2 DEF CrashInFlush
    <3>2. Room \in Int /\ Len(main) + gap + Room = Cap /\ gap \in Nat /\ main \in Seq(Record)
      BY RoomTypes DEF TypeOK
    <3> QED
      BY <1>2, <2>1, <2>2, <3>1, <3>2, KvConstants
  <2>4. UNCHANGED <<wal, sst, sstPos, sstCount, gen>>
    BY <1>2 DEF CrashInFlush, LogDuringFlush
  <2> QED
    BY <1>1, <1>2, <2>3, <2>4 DEF CrashInFlush, TypeOK
<1>3. ASSUME FlushInBounds
      PROVE  /\ FlushedMain \in Seq(Record) /\ FlushedGap \in Nat
             /\ Len(FlushedMain) + FlushedGap <= Cap
             /\ FlushedWal \in Seq(Record) /\ Len(FlushedWal) <= WalCap
             /\ CompactedMain \in Seq(Record) /\ Len(CompactedMain) <= Len(FlushedMain)
  BY <1>3, FlushTypes
<1>4. ASSUME FlushInBounds, NEW m \in {<<>>, CompactedMain}
      PROVE  m \in Seq(Record) /\ Len(m) <= Len(CompactedMain) /\ Len(m) \in Nat
  <2>1. CompactedMain \in Seq(Record) /\ Len(CompactedMain) \in Nat
    BY <1>3, <1>4
  <2>2. CASE m = <<>>
    BY <2>1, <2>2
  <2>3. CASE m = CompactedMain
    BY <2>1, <2>3
  <2> QED
    BY <2>2, <2>3
<1>5. ASSUME FlushInBounds, NEW m \in {<<>>, CompactedMain}, CrashInRewrite(m)
      PROVE  TypeOK'
  <2>1. main' = m /\ gap' = (Len(FlushedMain) + FlushedGap) - Len(m) /\ wal' = FlushedWal
        /\ UNCHANGED <<sst, sstPos, sstCount, gen>>
    BY <1>5 DEF CrashInRewrite
  <2>2. gap' \in Nat /\ Len(m) + gap' <= Cap + 1
    <3>1. /\ Len(FlushedMain) \in Nat /\ Len(CompactedMain) \in Nat /\ FlushedGap \in Nat
          /\ Len(FlushedMain) + FlushedGap <= Cap /\ Len(CompactedMain) <= Len(FlushedMain)
          /\ Len(m) <= Len(CompactedMain) /\ Len(m) \in Nat /\ Cap \in Nat
      BY <1>3, <1>4, <1>5, KvConstants
    <3> QED
      BY <2>1, <3>1
  <2> QED
    BY <1>1, <1>3, <1>4, <1>5, <2>1, <2>2 DEF CrashInRewrite, TypeOK
<1>6. ASSUME FlushInBounds, gen < MaxGen, NEW f \in CompactPrefixes,
             CrashInCompact(f.s, f.pos, f.count, f.main)
      PROVE  TypeOK'
  <2>1. LevelsOK(f.s, f.pos) /\ f.count \in 0 .. SstSlots /\ f.main \in {<<>>, CompactedMain}
    BY <1>6, PrefixesOK
  <2>2. gen' \in 0 .. MaxGen
    BY <1>6, KvConstants DEF CrashInCompact, TypeOK
  <2>3. gap' \in Nat /\ f.main \in Seq(Record) /\ Len(f.main) + gap' <= Cap + 1
    <3>1. /\ Len(FlushedMain) \in Nat /\ Len(CompactedMain) \in Nat /\ FlushedGap \in Nat
          /\ Len(FlushedMain) + FlushedGap <= Cap /\ Len(CompactedMain) <= Len(FlushedMain)
          /\ Cap \in Nat
      BY <1>3, <1>6, KvConstants
    <3>3. /\ Len(f.main) <= Len(CompactedMain) /\ Len(f.main) \in Nat
          /\ f.main \in Seq(Record)
      BY <1>4, <1>6, <2>1
    <3>2. gap' = Len(CompactedMain) - Len(f.main)
      BY <1>6 DEF CrashInCompact
    <3> QED
      BY <3>1, <3>2, <3>3
  <2> QED
    BY <1>1, <1>3, <1>6, <2>1, <2>2, <2>3 DEF CrashInCompact, TypeOK, LevelsOK
<1> QED
  BY <1>2, <1>5, <1>6 DEF Crash

LEMMA CrashTypeStep == TypeOK /\ [CrashNext]_vars => TypeOK'
BY TypeStep, CrashTypes DEF CrashNext

\* After whatever store of a flush or a compaction the process dies, between a
\* memset and the write_pos that goes with it too, the next open finds positions
\* within the files and levels that are well formed.
THEOREM CrashTypeCorrect == CrashSpec => []TypeOK
<1>1. Init => TypeOK
  BY InitTypes
<1> QED
  BY <1>1, CrashTypeStep, PTL DEF CrashSpec

\* A merge keeps the newest values also of levels that a crash has left half
\* merged or half frozen.
THEOREM CrashedMergesKeepNewest == CrashSpec => []MergeKeepsNewest
BY CrashTypeCorrect, MergeKeeps, PTL

\* The memtable that is rebuilt after a crash, when the same records may be in the
\* log and in the main file, names no record that is not in the log.
THEOREM CrashedMemtableNeverDangles == CrashSpec => []MtNoDanglingLog
<1>1. Init => AllSound(mt, wal)
  BY DEF Init, AllSound
<1>2. TypeOK /\ AllSound(mt, wal) /\ [CrashNext]_vars => AllSound(mt, wal)'
  <2>1. Crash => mt' = <<>>
    BY DEF Crash, CrashInFlush, CrashInRewrite, CrashInCompact, Die
  <2>2. mt' = <<>> => AllSound(mt, wal)'
    BY DEF AllSound
  <2> QED
    BY <2>1, <2>2, MtSoundStep DEF CrashNext
<1> QED
  BY <1>1, <1>2, SoundIsEnough, CrashTypeCorrect, PTL DEF CrashSpec

\* No level that the header counts ever holds two records of one class, though a
\* slot being frozen may while it is not counted yet.
THEOREM CrashedLevelsDeduped == CrashSpec => []LevelsDeduped
<1>1. Init => LevelsDistinct(sst, sstPos, sstCount)
  BY DEF Init, LevelsDistinct, OnePerClass
<1>2. TypeOK /\ LevelsDistinct(sst, sstPos, sstCount) /\ Crash
        => LevelsDistinct(sst', sstPos', sstCount')
  <2> SUFFICES ASSUME TypeOK, LevelsDistinct(sst, sstPos, sstCount), Crash
               PROVE  LevelsDistinct(sst', sstPos', sstCount')
    OBVIOUS
  <2>1. ASSUME NEW j, CrashInFlush(j)
        PROVE  LevelsDistinct(sst', sstPos', sstCount')
    BY <2>1 DEF CrashInFlush
  <2>2. ASSUME NEW m, CrashInRewrite(m)
        PROVE  LevelsDistinct(sst', sstPos', sstCount')
    BY <2>2 DEF CrashInRewrite
  <2>3. ASSUME FlushInBounds, NEW f \in CompactPrefixes,
               CrashInCompact(f.s, f.pos, f.count, f.main)
        PROVE  LevelsDistinct(sst', sstPos', sstCount')
    BY <2>3, PrefixesOK DEF CrashInCompact
  <2> QED
    BY <2>1, <2>2, <2>3 DEF Crash
<1>3. TypeOK /\ LevelsDistinct(sst, sstPos, sstCount) /\ [CrashNext]_vars
        => LevelsDistinct(sst, sstPos, sstCount)'
  <2>1. LevelsDistinct(sst', sstPos', sstCount') => LevelsDistinct(sst, sstPos, sstCount)'
    BY DEF LevelsDistinct, OnePerClass
  <2> QED
    BY <1>2, <2>1, LevelsStep DEF CrashNext
<1> QED
  BY <1>1, <1>3, DistinctIsDeduped, CrashTypeCorrect, PTL DEF CrashSpec

-----------------------------------------------------------------------------
(* The contents, with the levels in the middle of a compaction *)

\* The value a key has in the first n levels.
LevelsVal(s, pos, n, k) ==
  Newer(Newer(LastVal(LiveSst(s, pos, n, 0), k), LastVal(LiveSst(s, pos, n, 1), k)),
        LastVal(LiveSst(s, pos, n, 2), k))

LEMMA LogVal ==
  ASSUME NEW s, NEW pos, LevelsOK(s, pos), NEW n, NEW m \in Seq(Record),
         NEW w \in Seq(Record), NEW k
  PROVE  LastVal(LiveSst(s, pos, n, 0) \o LiveSst(s, pos, n, 1) \o LiveSst(s, pos, n, 2)
                   \o m \o w, k)
           = Newer(Newer(LevelsVal(s, pos, n, k), LastVal(m, k)), LastVal(w, k))
<1>1. /\ LiveSst(s, pos, n, 0) \in Seq(Record) /\ LiveSst(s, pos, n, 1) \in Seq(Record)
      /\ LiveSst(s, pos, n, 2) \in Seq(Record)
  BY LiveSstType, ThreeSlots
<1> QED
  BY <1>1, LastValLayers DEF LevelsVal

\* The prefix of a log has no key that the log has not.
LEMMA PrefixOlder ==
  ASSUME NEW w \in Seq(Record), NEW j \in 0 .. Len(w), NEW k
  PROVE  /\ SubSeq(w, 1, j) \in Seq(Record)
         /\ LastVal(w, k) = NoVal => LastVal(SubSeq(w, 1, j), k) = NoVal
<1> DEFINE v == SubSeq(w, 1, j)
<1>1. v \in Seq(Record) /\ Len(v) = j /\ \A i \in 1 .. j : v[i] = w[i]
  <2>1. \A i \in 1 .. j : w[i] \in Record
    OBVIOUS
  <2> QED
    BY <2>1, SubSeqProperties
<1>2. ASSUME LastVal(w, k) = NoVal
      PROVE  LastVal(v, k) = NoVal
  <2>1. \A i \in DOMAIN w : w[i].key # k
    BY <1>2, LastValOccurs
  <2> HIDE DEF v
  <2>2. \A i \in DOMAIN v : v[i].key # k
    BY <1>1, <2>1
  <2> QED
    BY <1>1, <2>2, LastValNone
<1> QED
  BY <1>1, <1>2

\* The contents of the store, before and after a step.
LEMMA ContentsIs ==
  ASSUME TypeOK, NEW k \in Keys
  PROVE  Contents[k] = Newer(Newer(LevelsVal(sst, sstPos, sstCount, k), LastVal(main, k)),
                             LastVal(wal, k))
<1>1. LevelsOK(sst, sstPos) /\ wal \in Seq(Record) /\ main \in Seq(Record)
  BY DEF TypeOK, LevelsOK
<1> QED
  BY <1>1, LogVal DEF Log, Frozen, Contents

LEMMA ContentsAre ==
  ASSUME NEW s, NEW pos, LevelsOK(s, pos), NEW n, NEW m \in Seq(Record),
         NEW w \in Seq(Record), sst' = s, sstPos' = pos, sstCount' = n, main' = m, wal' = w,
         NEW k \in Keys
  PROVE  Contents'[k] = Newer(Newer(LevelsVal(s, pos, n, k), LastVal(m, k)), LastVal(w, k))
<1> DEFINE l == LiveSst(s, pos, n, 0) \o LiveSst(s, pos, n, 1) \o LiveSst(s, pos, n, 2)
                  \o m \o w
<1>1. Log' = l
  BY DEF Log, Frozen, LiveSst, Live
<1>2. LastVal(l, k) = Newer(Newer(LevelsVal(s, pos, n, k), LastVal(m, k)), LastVal(w, k))
  BY LogVal
<1> HIDE DEF l
<1> QED
  BY <1>1, <1>2 DEF Contents

\* Records of the log that are in the main file too are read twice, to the same
\* effect.
LEMMA CopiedKeeps ==
  ASSUME TypeOK, gap = 0, NEW j \in 0 .. Len(wal), main' = CopiedMain(j),
         UNCHANGED <<wal, sst, sstPos, sstCount>>
  PROVE  Contents' = Contents
<1> DEFINE v == SubSeq(wal, 1, j)
<1>1. LevelsOK(sst, sstPos) /\ wal \in Seq(Record) /\ main \in Seq(Record)
  BY DEF TypeOK, LevelsOK
<1>2. ASSUME NEW k \in Keys
      PROVE  Contents'[k] = Contents[k]
  <2>1. v \in Seq(Record) /\ (LastVal(wal, k) = NoVal => LastVal(v, k) = NoVal)
    BY <1>1, PrefixOlder
  <2>2. main' = main \o v
    BY DEF CopiedMain
  <2> HIDE DEF v
  <2>3. main \o v \in Seq(Record) /\ LastVal(main \o v, k) = Newer(LastVal(main, k), LastVal(v, k))
    BY <1>1, <2>1, LastValConcat, ConcatProperties
  <2> DEFINE x == LevelsVal(sst, sstPos, sstCount, k)
  <2>4. Contents[k] = Newer(Newer(x, LastVal(main, k)), LastVal(wal, k))
    BY ContentsIs
  <2>5. PICK m \in Seq(Record) : m = main \o v
    BY <2>3
  <2>6. PICK s, pos, n, w : s = sst /\ pos = sstPos /\ n = sstCount /\ w = wal
    OBVIOUS
  <2>7. Contents'[k] = Newer(Newer(LevelsVal(s, pos, n, k), LastVal(m, k)), LastVal(w, k))
    <3>1. LevelsOK(s, pos) /\ w \in Seq(Record)
      BY <1>1, <2>6
    <3>2. sst' = s /\ sstPos' = pos /\ sstCount' = n /\ main' = m /\ wal' = w
      BY <2>2, <2>5, <2>6
    <3> QED
      BY <3>1, <3>2, ContentsAre
  <2>8. Contents'[k] = Newer(Newer(x, LastVal(main \o v, k)), LastVal(wal, k))
    BY <2>5, <2>6, <2>7
  <2> HIDE DEF x
  <2> QED
    BY <2>1, <2>3, <2>4, <2>8 DEF Newer
<1>3. Contents = [k \in Keys |-> Contents[k]] /\ Contents' = [k \in Keys |-> Contents'[k]]
  BY DEF Contents
<1> QED
  BY <1>2, <1>3

\* The keys of a file are those that have a value in it.
LEMMA KeysOfVal ==
  ASSUME NEW s \in Seq(Record), NEW k
  PROVE  k \in KeysOf(s) <=> LastVal(s, k) # NoVal
<1>1. ASSUME k \in KeysOf(s)
      PROVE  LastVal(s, k) # NoVal
  <2>1. PICK i \in DOMAIN s : s[i].key = k
    BY <1>1 DEF KeysOf
  <2> QED
    BY <2>1, LastValOccurs
<1>2. ASSUME k \notin KeysOf(s)
      PROVE  LastVal(s, k) = NoVal
  <2>1. \A i \in DOMAIN s : s[i].key # k
    BY <1>2 DEF KeysOf
  <2> QED
    BY <2>1, LastValNone
<1> QED
  BY <1>1, <1>2

\* The compacted main file has the values of the main file and the log.
LEMMA CompactedVals ==
  ASSUME TypeOK, gap = 0, KeysApart, Sized, FlushInBounds, NEW k \in Keys
  PROVE  /\ CompactedMain \in Seq(Record) /\ FlushedMain \in Seq(Record)
         /\ LastVal(CompactedMain, k) = LastVal(FlushedMain, k)
         /\ Contents[k] = Newer(LevelsVal(sst, sstPos, sstCount, k), LastVal(CompactedMain, k))
         /\ k \in KeysOf(main \o wal) <=> LastVal(CompactedMain, k) # NoVal
<1>1. CompactedMain \in Seq(Record) /\ FlushedMain \in Seq(Record)
  BY FlushTypes
<1>2. LastVal(CompactedMain, k) = LastVal(FlushedMain, k)
  BY <1>1, CompactedKeeps DEF CompactedMain, Sized
<1>3. wal \in Seq(Record) /\ main \in Seq(Record)
  BY DEF TypeOK
<1>4. FlushedMain = main \o wal
  BY FlushMoves DEF Sized
<1>5. LastVal(FlushedMain, k) = Newer(LastVal(main, k), LastVal(wal, k))
  BY <1>3, <1>4, LastValConcat
<1>6. Contents[k] = Newer(Newer(LevelsVal(sst, sstPos, sstCount, k), LastVal(main, k)),
                          LastVal(wal, k))
  BY ContentsIs
<1>7. k \in KeysOf(main \o wal) <=> LastVal(CompactedMain, k) # NoVal
  BY <1>1, <1>2, <1>4, KeysOfVal
<1>8. Contents[k] = Newer(LevelsVal(sst, sstPos, sstCount, k), LastVal(CompactedMain, k))
  BY <1>2, <1>5, <1>6 DEF Newer
<1> QED
  BY <1>1, <1>2, <1>7, <1>8

\* Once the compacted records are in the main file or counted in the slot, it does
\* not matter how far they have got into the slot.
LEMMA FreezePrefixVal ==
  ASSUME TypeOK, FlushInBounds, NEW s, NEW pos, LevelsOK(s, pos), NEW slot \in Slots,
         NEW f \in FreezePrefixes(s, pos, slot), NEW k
  PROVE  Newer(LevelsVal(f.s, f.pos, f.count, k), LastVal(f.main, k))
           = Newer(LevelsVal(s, pos, slot, k), LastVal(CompactedMain, k))
<1> DEFINE t == FrozenIn(s, slot)  q == FrozenPos(pos, slot)  M == LastVal(CompactedMain, k)
           x == LastVal(f.main, k)
<1>1. /\ Live(t, q, slot) = CompactedMain
      /\ \A i \in Slots \ {slot} : t[i] = s[i] /\ q[i] = pos[i]
  BY FrozenFacts
<1>2. \/ f.s = s /\ f.pos = pos /\ f.count = slot /\ f.main = CompactedMain
      \/ f.s = t /\ f.pos \in {pos, q} /\ f.count = slot /\ f.main = CompactedMain
      \/ f.s = t /\ f.pos = q /\ f.count = slot + 1 /\ f.main \in {CompactedMain, <<>>}
  BY FreezePrefixIs
<1> HIDE DEF t, q
<1> DEFINE a(i) == LastVal(LiveSst(s, pos, slot, i), k)
           b(i) == LastVal(LiveSst(f.s, f.pos, f.count, i), k)
<1>3. ASSUME NEW i \in Slots, i # slot
      PROVE  b(i) = a(i)
  <2>1. f.s[i] = s[i] /\ f.pos[i] = pos[i] /\ (i < f.count <=> i < slot)
    BY <1>1, <1>2, <1>3, ThreeSlots
  <2> QED
    BY <2>1 DEF LiveSst, Live
<1>4. \A i \in Slots : i >= slot => a(i) = NoVal
  BY LastValEmpty, ThreeSlots DEF LiveSst
<1>5. \/ b(slot) = NoVal /\ x = M
      \/ b(slot) = M /\ x \in {M, NoVal}
  <2>1. CASE f.count = slot /\ f.main = CompactedMain
    BY <2>1, LastValEmpty, ThreeSlots DEF LiveSst
  <2>2. CASE f.s = t /\ f.pos = q /\ f.count = slot + 1 /\ f.main \in {CompactedMain, <<>>}
    <3>1. b(slot) = M
      BY <1>1, <2>2, ThreeSlots DEF LiveSst
    <3>2. x \in {M, NoVal}
      BY <2>2, LastValEmpty
    <3> QED
      BY <3>1, <3>2
  <2> QED
    BY <1>2, <2>1, <2>2
<1>6. /\ LevelsVal(s, pos, slot, k) = Newer(Newer(a(0), a(1)), a(2))
      /\ LevelsVal(f.s, f.pos, f.count, k) = Newer(Newer(b(0), b(1)), b(2))
  BY DEF LevelsVal
<1> HIDE DEF a, b, M, x
<1>7. Newer(Newer(Newer(b(0), b(1)), b(2)), x) = Newer(Newer(Newer(a(0), a(1)), a(2)), M)
  <2>1. CASE slot = 0
    <3>1. b(1) = NoVal /\ b(2) = NoVal /\ a(0) = NoVal /\ a(1) = NoVal /\ a(2) = NoVal
      BY <1>3, <1>4, <2>1, ThreeSlots
    <3> QED
      BY <1>5, <2>1, <3>1 DEF Newer
  <2>2. CASE slot = 1
    <3>1. b(0) = a(0) /\ b(2) = NoVal /\ a(1) = NoVal /\ a(2) = NoVal
      BY <1>3, <1>4, <2>2, ThreeSlots
    <3> QED
      BY <1>5, <2>2, <3>1 DEF Newer
  <2>3. CASE slot = 2
    <3>1. b(0) = a(0) /\ b(1) = a(1) /\ a(2) = NoVal
      BY <1>3, <1>4, <2>3, ThreeSlots
    <3> QED
      BY <1>5, <2>3, <3>1 DEF Newer
  <2> QED
    BY <2>1, <2>2, <2>3, ThreeSlots
<1> QED
  BY <1>6, <1>7 DEF M, x

LEMMA MergedVal ==
  ASSUME KeysApart, TableFits, LevelFits, NEW s, NEW pos, LevelsOK(s, pos),
         NEW src \in {0, 1}, NEW k \in Keys
  PROVE  LastVal(MergedRecords(s, pos, src), k)
           = Newer(LastVal(Live(s, pos, src), k), LastVal(Live(s, pos, src + 1), k))
<1> DEFINE old == MergedFrom(s, pos, src)  ks == KeysOf(old)
<1>1. old \in Seq(Record)
  BY MergeOld
<1>2. /\ Live(s, pos, src) \in Seq(Record) /\ Live(s, pos, src + 1) \in Seq(Record)
      /\ old = Live(s, pos, src) \o Live(s, pos, src + 1)
  BY LiveFacts, ThreeSlots DEF MergedFrom
<1> HIDE DEF old
<1>3. ks \subseteq Keys
  <2>1. \A i \in DOMAIN old : old[i] \in Record
    BY <1>1
  <2> QED
    BY <2>1 DEF KeysOf, Record
<1>4. Cardinality(ks) <= Cap /\ Cardinality(ks) <= MtCap
  <2>1. IsFiniteSet(ks) /\ Cardinality(ks) <= Cardinality(Keys)
    BY <1>3, FS_Subset, KvConstants
  <2>2. Cardinality(ks) \in Nat /\ Cardinality(Keys) \in Nat /\ Cap \in Nat /\ MtCap \in Nat
    BY <2>1, FS_CardinalityType, KvConstants
  <2> QED
    BY <2>1, <2>2 DEF TableFits, LevelFits
<1>5. Apart(ks)
  BY <1>3 DEF KeysApart, Apart
<1>6. LastVal(MergedRecords(s, pos, src), k) = LastVal(old, k)
  BY <1>4, <1>5, OneMergeKeeps DEF old
<1> QED
  BY <1>2, <1>6, LastValConcat

\* A merge keeps the values.
LEMMA MergeVal ==
  ASSUME KeysApart, TableFits, LevelFits, NEW s, NEW pos, LevelsOK(s, pos),
         NEW src \in {0, 1}, NEW k \in Keys
  PROVE  LevelsVal(MergeSst(s, pos, src), MergePos(s, pos, src), SstSlots, k)
           = LevelsVal(s, pos, SstSlots, k)
<1> DEFINE t == MergeSst(s, pos, src)  q == MergePos(s, pos, src)
           d == MergedRecords(s, pos, src)
           a(i) == LastVal(Live(s, pos, i), k)
           b(i) == LastVal(Live(t, q, i), k)
<1>1. /\ Live(t, q, src) = <<>> /\ Live(t, q, src + 1) = d
      /\ \A i \in Slots \ {src, src + 1} : t[i] = s[i] /\ q[i] = pos[i]
  BY MergedFacts
<1>2. LastVal(d, k) = Newer(a(src), a(src + 1))
  BY MergedVal
<1> HIDE DEF t, q, d
<1>3. b(src) = NoVal /\ b(src + 1) = Newer(a(src), a(src + 1))
  BY <1>1, <1>2, LastValEmpty
<1>4. \A i \in Slots \ {src, src + 1} : b(i) = a(i)
  BY <1>1 DEF Live
<1>5. /\ LevelsVal(s, pos, SstSlots, k) = Newer(Newer(a(0), a(1)), a(2))
      /\ LevelsVal(t, q, SstSlots, k) = Newer(Newer(b(0), b(1)), b(2))
  BY ThreeSlots DEF LevelsVal, LiveSst
<1> HIDE DEF a, b
<1>6. CASE src = 0
  <2>1. b(0) = NoVal /\ b(1) = Newer(a(0), a(1)) /\ b(2) = a(2)
    BY <1>3, <1>4, <1>6, ThreeSlots
  <2> QED
    BY <1>5, <2>1 DEF Newer, t, q
<1>7. CASE src = 1
  <2>1. b(0) = a(0) /\ b(1) = NoVal /\ b(2) = Newer(a(1), a(2))
    BY <1>3, <1>4, <1>7, ThreeSlots
  <2> QED
    BY <1>5, <2>1 DEF Newer, t, q
<1> QED
  BY <1>6, <1>7

\* The start of a file of records of different classes has the value of a key or
\* none.
LEMMA PrefixVal ==
  ASSUME NEW x \in Seq(Record), OnePerClass(x, Len(x)), NEW n \in 0 .. Len(x), NEW k
  PROVE  LastVal(SubSeq(x, 1, n), k) \in {NoVal, LastVal(x, k)}
<1> DEFINE v == SubSeq(x, 1, n)
<1>1. v \in Seq(Record) /\ Len(v) = n /\ \A i \in 1 .. n : v[i] = x[i]
  <2>1. \A i \in 1 .. n : x[i] \in Record
    OBVIOUS
  <2> QED
    BY <2>1, SubSeqProperties
<1> HIDE DEF v
<1>2. ASSUME LastVal(v, k) # NoVal
      PROVE  LastVal(v, k) = LastVal(x, k)
  <2>1. PICK o \in DOMAIN v : v[o].key = k
    BY <1>1, <1>2, LastValNone
  <2>2. o \in 1 .. n /\ o \in DOMAIN x /\ x[o].key = k /\ v[o] = x[o]
    BY <1>1, <2>1
  <2>3. \A j \in DOMAIN x : x[j].key = k => j = o
    BY <2>2 DEF OnePerClass
  <2>4. \A j \in DOMAIN v : v[j].key = k => j = o
    BY <1>1, <2>3
  <2>5. LastVal(x, k) = x[o].val
    BY <2>2, <2>3, LastValIs
  <2>6. LastVal(v, k) = v[o].val
    BY <1>1, <2>1, <2>4, LastValIs
  <2> QED
    BY <2>2, <2>5, <2>6
<1> QED
  BY <1>2 DEF v

\* A merge cut short leaves a key's value, or the one of the levels below its
\* target.
LEMMA MergePrefixVal ==
  ASSUME KeysApart, TableFits, LevelFits, NEW s, NEW pos, LevelsOK(s, pos),
         NEW src \in {0, 1}, NEW f \in MergePrefixes(s, pos, src), NEW k \in Keys
  PROVE  LevelsVal(f.s, f.pos, f.count, k)
           \in {LevelsVal(s, pos, SstSlots, k), LevelsVal(s, pos, src + 1, k)}
<1>1. f.count = SstSlots
  BY MergePrefixIs
<1>2. CASE f.s = MergeSst(s, pos, src) /\ f.pos = MergePos(s, pos, src)
  BY <1>1, <1>2, MergeVal
<1>3. ASSUME NEW x \in {<<>>, MergedRecords(s, pos, src)}, NEW n \in 0 .. Len(x),
             f.s = TargetSst(s, src, x), f.pos = TargetPos(pos, src, n)
      PROVE  LevelsVal(f.s, f.pos, SstSlots, k)
               \in {LevelsVal(s, pos, SstSlots, k), LevelsVal(s, pos, src + 1, k)}
  <2> DEFINE a(i) == LastVal(Live(s, pos, i), k)
             b(i) == LastVal(Live(f.s, f.pos, i), k)
  <2>1. /\ LevelsOK(f.s, f.pos) /\ f.s[src + 1] = x /\ f.pos[src + 1] = n
        /\ \A i \in Slots \ {src + 1} : f.s[i] = s[i] /\ f.pos[i] = pos[i]
    BY <1>3, TargetFacts
  <2>2. x \in Seq(Record)
    <3>1. src + 1 \in Slots
      BY ThreeSlots
    <3>2. \A i \in Slots : f.s[i] \in Seq(Record)
      BY <2>1 DEF LevelsOK
    <3> QED
      BY <2>1, <3>1, <3>2
  <2>3. OnePerClass(x, Len(x)) /\ LastVal(x, k) \in {NoVal, Newer(a(src), a(src + 1))}
    <3>1. CASE x = <<>>
      BY <3>1, LastValEmpty DEF OnePerClass
    <3>2. CASE x = MergedRecords(s, pos, src)
      BY <3>2, MergedDistinct, MergedVal
    <3> QED
      BY <3>1, <3>2
  <2>4. LastVal(SubSeq(x, 1, n), k) \in {NoVal, LastVal(x, k)}
    BY <2>2, <2>3, PrefixVal
  <2>5. b(src + 1) \in {NoVal, Newer(a(src), a(src + 1))}
    BY <2>1, <2>3, <2>4 DEF Live
  <2>6. \A i \in Slots \ {src + 1} : b(i) = a(i)
    BY <2>1 DEF Live
  <2>7. /\ LevelsVal(s, pos, SstSlots, k) = Newer(Newer(a(0), a(1)), a(2))
        /\ LevelsVal(f.s, f.pos, SstSlots, k) = Newer(Newer(b(0), b(1)), b(2))
    BY ThreeSlots DEF LevelsVal, LiveSst
  <2>8. /\ LevelsVal(s, pos, 1, k) = Newer(Newer(a(0), NoVal), NoVal)
        /\ LevelsVal(s, pos, 2, k) = Newer(Newer(a(0), a(1)), NoVal)
    BY LastValEmpty DEF LevelsVal, LiveSst
  <2> HIDE DEF a, b
  <2>9. CASE src = 0
    <3>1. b(0) = a(0) /\ b(1) \in {NoVal, Newer(a(0), a(1))} /\ b(2) = a(2)
      BY <2>5, <2>6, <2>9, ThreeSlots
    <3>2. Newer(Newer(b(0), b(1)), b(2)) \in
            {Newer(Newer(a(0), a(1)), a(2)), Newer(Newer(a(0), NoVal), NoVal)}
      BY <3>1 DEF Newer
    <3> QED
      BY <2>7, <2>8, <2>9, <3>2
  <2>10. CASE src = 1
    <3>1. b(0) = a(0) /\ b(1) = a(1) /\ b(2) \in {NoVal, Newer(a(1), a(2))}
      BY <2>5, <2>6, <2>10, ThreeSlots
    <3>2. Newer(Newer(b(0), b(1)), b(2)) \in
            {Newer(Newer(a(0), a(1)), a(2)), Newer(Newer(a(0), a(1)), NoVal)}
      BY <3>1 DEF Newer
    <3> QED
      BY <2>7, <2>8, <2>10, <3>2
  <2> QED
    BY <2>9, <2>10
<1> QED
  BY <1>1, <1>2, <1>3, MergePrefixIs

\* The merges of a compaction empty the levels 0 and 1.
LEMMA StagePos ==
  ASSUME TypeOK
  PROVE  Pos2[0] = 0 /\ Pos2[1] = 0
<1>1. LevelsOK(sst, sstPos) /\ LevelsOK(Sst1, Pos1)
  BY StagesOK
<1>2. Pos1[0] = 0
  BY <1>1, MergedFacts DEF Pos1
<1>3. Pos2[1] = 0 /\ Pos2[0] = Pos1[0]
  BY <1>1, MergedFacts, ThreeSlots DEF Pos2
<1> QED
  BY <1>2, <1>3

\* The levels that the first merges of a compaction leave.
LEMMA StageVals ==
  ASSUME TypeOK, KeysApart, TableFits, LevelFits, NEW k \in Keys
  PROVE  /\ LevelsVal(Sst1, Pos1, SstSlots, k) = LevelsVal(sst, sstPos, SstSlots, k)
         /\ LevelsVal(Sst2, Pos2, SstSlots, k) = LevelsVal(sst, sstPos, SstSlots, k)
         /\ LevelsVal(Sst1, Pos1, 2, k) = LevelsVal(sst, sstPos, 2, k)
         /\ LevelsVal(Sst2, Pos2, 2, k) = NoVal
         /\ sstCount \in Slots =>
              LevelsVal(sst, NewPos, sstCount, k) = LevelsVal(sst, sstPos, sstCount, k)
<1>1. LevelsOK(sst, sstPos) /\ LevelsOK(Sst1, Pos1) /\ LevelsOK(Sst2, Pos2)
  BY StagesOK
<1>2. LevelsVal(Sst1, Pos1, SstSlots, k) = LevelsVal(sst, sstPos, SstSlots, k)
  BY <1>1, MergeVal DEF Sst1, Pos1
<1>5. LevelsVal(Sst2, Pos2, SstSlots, k) = LevelsVal(Sst1, Pos1, SstSlots, k)
  BY <1>1, MergeVal DEF Sst2, Pos2
<1>6. LevelsVal(Sst1, Pos1, 2, k) = LevelsVal(sst, sstPos, 2, k)
  <2> DEFINE a(i) == LastVal(Live(sst, sstPos, i), k)
  <2>1. /\ Live(Sst1, Pos1, 0) = <<>>
        /\ Live(Sst1, Pos1, 1) = MergedRecords(sst, sstPos, 0)
    BY <1>1, MergedFacts DEF Sst1, Pos1
  <2>2. LastVal(MergedRecords(sst, sstPos, 0), k) = Newer(a(0), a(1))
    BY <1>1, MergedVal
  <2>3. LevelsVal(sst, sstPos, 2, k) = Newer(Newer(a(0), a(1)), NoVal)
    BY LastValEmpty DEF LevelsVal, LiveSst
  <2>4. LevelsVal(Sst1, Pos1, 2, k) = Newer(Newer(NoVal, Newer(a(0), a(1))), NoVal)
    BY <2>1, <2>2, LastValEmpty DEF LevelsVal, LiveSst
  <2> HIDE DEF a
  <2> QED
    BY <2>3, <2>4 DEF Newer
<1>3. LevelsVal(Sst2, Pos2, 2, k) = NoVal
  <2>1. Live(Sst2, Pos2, 0) = <<>> /\ Live(Sst2, Pos2, 1) = <<>>
    BY <1>1, StagePos, LiveFacts, ThreeSlots
  <2>2. /\ LiveSst(Sst2, Pos2, 2, 0) = <<>> /\ LiveSst(Sst2, Pos2, 2, 1) = <<>>
        /\ LiveSst(Sst2, Pos2, 2, 2) = <<>>
    BY <2>1 DEF LiveSst
  <2> QED
    BY <2>2, LastValEmpty DEF LevelsVal, Newer
<1>4. ASSUME sstCount \in Slots
      PROVE  LevelsVal(sst, NewPos, sstCount, k) = LevelsVal(sst, sstPos, sstCount, k)
  <2>1. ASSUME NEW i \in Slots
        PROVE  LiveSst(sst, NewPos, sstCount, i) = LiveSst(sst, sstPos, sstCount, i)
    <3>1. CASE i < sstCount
      <4>1. NewPos[i] = sstPos[i]
        BY <1>1, <1>4, <3>1, ThreeSlots DEF NewPos, LevelsOK
      <4> QED
        BY <3>1, <4>1 DEF LiveSst, Live
    <3>2. CASE ~(i < sstCount)
      BY <3>2 DEF LiveSst
    <3> QED
      BY <3>1, <3>2
  <2> QED
    BY <2>1, ThreeSlots DEF LevelsVal
<1> QED
  BY <1>2, <1>3, <1>4, <1>5, <1>6

-----------------------------------------------------------------------------
(* What every step is to the dictionary *)

\* Only a crash leaves a gap.
LEMMA NoGapStep == gap = 0 /\ [Next]_vars => gap' = 0
<1> SUFFICES ASSUME gap = 0, [Next]_vars
             PROVE  gap' = 0
  OBVIOUS
<1>1. CASE Open \/ Close \/ PutFull \/ UNCHANGED vars
  BY <1>1 DEF Open, Close, PutFull, files, vars
<1>2. ASSUME NEW k \in Keys, NEW v \in Vals, Put(k, v)
      PROVE  gap' = 0
  BY <1>2 DEF Put
<1>3. ASSUME NEW k \in Keys, NEW c \in OutCaps, Get(k, c)
      PROVE  gap' = 0
  BY <1>3 DEF Get, files
<1>4. CASE WalFlush \/ FlushOverrun \/ CompactStopsEarly
  BY <1>4 DEF WalFlush, FlushOverrun, CompactStopsEarly, FlushedGap, CopiedGap
<1>5. CASE CompactNothing \/ CompactMmapFails \/ CompactToNewLevel \/ CompactToFullLevels
  BY <1>5 DEF CompactNothing, CompactMmapFails, CompactToNewLevel, CompactToFullLevels,
     Compacting
<1>6. ASSUME NEW src \in {0, 1}, NEW written \in BOOLEAN, CompactMergeFails(src, written)
      PROVE  gap' = 0
  BY <1>6 DEF CompactMergeFails, Compacting
<1> QED
  BY <1>1, <1>2, <1>3, <1>4, <1>5, <1>6 DEF Next

\* Two stores with the same value for every key have the same contents.
LEMMA SameContents ==
  ASSUME \A k \in Keys : Contents'[k] = Contents[k]
  PROVE  Contents' = Contents
BY DEF Contents

\* A step after which the log is empty, the levels have the values they had and
\* the main file those of the main file and the log.
LEMMA MovedKeeps ==
  ASSUME TypeOK, gap = 0, KeysApart, Sized, FlushInBounds, NEW s, NEW pos, LevelsOK(s, pos),
         NEW m \in {FlushedMain, CompactedMain}, sst' = s, sstPos' = pos,
         UNCHANGED sstCount, main' = m, wal' = <<>>,
         \A k \in Keys : LevelsVal(s, pos, sstCount, k) = LevelsVal(sst, sstPos, sstCount, k)
  PROVE  Contents' = Contents
<1>1. ASSUME NEW k \in Keys
      PROVE  Contents'[k] = Contents[k]
  <2>1. m \in Seq(Record) /\ LastVal(m, k) = LastVal(CompactedMain, k)
    BY CompactedVals
  <2>2. PICK n : n = sstCount
    OBVIOUS
  <2>3. Contents'[k] = Newer(Newer(LevelsVal(s, pos, n, k), LastVal(m, k)), LastVal(<<>>, k))
    <3>1. sstCount' = n /\ <<>> \in Seq(Record)
      BY <2>2
    <3>2. PICK w, r : w = <<>> /\ r = m
      OBVIOUS
    <3>3. w \in Seq(Record) /\ r \in Seq(Record) /\ wal' = w /\ main' = r
      BY <2>1, <3>1, <3>2
    <3>4. Contents'[k] = Newer(Newer(LevelsVal(s, pos, n, k), LastVal(r, k)), LastVal(w, k))
      BY <3>1, <3>3, ContentsAre
    <3> QED
      BY <3>2, <3>4
  <2>4. Contents[k] = Newer(LevelsVal(sst, sstPos, sstCount, k), LastVal(CompactedMain, k))
    BY CompactedVals
  <2>5. LevelsVal(s, pos, n, k) = LevelsVal(sst, sstPos, sstCount, k)
    BY <2>2
  <2> QED
    BY <2>1, <2>3, <2>4, <2>5, LastValEmpty DEF Newer
<1> QED
  BY <1>1, SameContents

\* Once the main file is frozen into a slot, its values and those of the levels
\* below the slot are left.
LEMMA FrozenLeaves ==
  ASSUME TypeOK, gap = 0, KeysApart, Sized, FlushInBounds, NEW s, NEW pos, LevelsOK(s, pos),
         NEW slot \in Slots, NEW t, FreezeTo(slot, s, pos, t), NEW k \in Keys
  PROVE  Contents'[k] = Newer(LevelsVal(s, pos, slot, k), LastVal(CompactedMain, k))
<1> DEFINE u == FrozenIn(s, slot)  q == FrozenPos(pos, slot)
           f == [Levels(u, q, slot + 1) EXCEPT !.main = <<>>]
<1>1. f \in FreezePrefixes(s, pos, slot)
  BY Zenon DEF FreezePrefixes
<1>2. f.s = u /\ f.pos = q /\ f.count = slot + 1 /\ f.main = <<>>
  <2> HIDE DEF u, q
  <2> QED
    BY DEF Levels
<1>3. LevelsOK(u, q)
  BY FrozenFacts
<1>4. /\ sst' = u /\ sstPos' = q /\ sstCount' = slot + 1 /\ main' = <<>> /\ wal' = <<>>
  <2>1. FlushedWal = <<>>
    BY FlushMoves DEF Sized
  <2> QED
    BY <2>1 DEF FreezeTo, FrozenIn, FrozenPos
<1>5. Newer(LevelsVal(u, q, slot + 1, k), LastVal(<<>>, k))
        = Newer(LevelsVal(s, pos, slot, k), LastVal(CompactedMain, k))
  <2> HIDE DEF f
  <2> QED
    BY <1>1, <1>2, FreezePrefixVal
<1>6. PICK x, p, n, w : x = u /\ p = q /\ n = slot + 1 /\ w = <<>>
  OBVIOUS
<1> HIDE DEF u, q, f
<1>7. LevelsOK(x, p) /\ w \in Seq(Record) /\ sst' = x /\ sstPos' = p /\ sstCount' = n
      /\ main' = w /\ wal' = w
  BY <1>3, <1>4, <1>6
<1>8. Contents'[k] = Newer(Newer(LevelsVal(x, p, n, k), LastVal(w, k)), LastVal(w, k))
  BY <1>7, ContentsAre
<1> QED
  BY <1>5, <1>6, <1>8, LastValEmpty DEF Newer

\* A compaction that opens a level keeps every value.
LEMMA NewLevelKeeps ==
  ASSUME TypeOK, gap = 0, KeysApart, Sized, CompactToNewLevel
  PROVE  Contents' = Contents
<1>1. /\ FlushInBounds /\ sstCount \in Slots /\ LevelsOK(sst, sstPos)
      /\ FreezeTo(sstCount, sst, sstPos, Index(LayerEntries(Main, CompactedMain)))
  BY ThreeSlots DEF CompactToNewLevel, Compacting, TypeOK, LevelsOK
<1>2. ASSUME NEW k \in Keys
      PROVE  Contents'[k] = Contents[k]
  <2>1. Contents'[k] = Newer(LevelsVal(sst, sstPos, sstCount, k), LastVal(CompactedMain, k))
    BY <1>1, FrozenLeaves
  <2> QED
    BY <1>1, <2>1, CompactedVals
<1> QED
  BY <1>2, SameContents

\* One that finds all slots used keeps those of the log and the main file.
LEMMA FullLevelsForget ==
  ASSUME TypeOK, gap = 0, KeysApart, Sized, CompactToFullLevels
  PROVE  Dict!DictForget(Keys \ KeysOf(main \o wal))
<1>1. /\ FlushInBounds /\ 2 \in Slots /\ LevelsOK(Sst2, Pos2)
      /\ \E t : FreezeTo(2, Sst2, Pos2, t)
  BY StagesOK, ThreeSlots DEF CompactToFullLevels, Compacting, Sst1, Pos1, Sst2, Pos2
<1>2. ASSUME NEW k \in Keys
      PROVE  Contents'[k] = IF k \in Keys \ KeysOf(main \o wal) THEN NoVal ELSE Contents[k]
  <2>1. PICK t : FreezeTo(2, Sst2, Pos2, t)
    BY <1>1
  <2>2. LevelsVal(Sst2, Pos2, 2, k) = NoVal
    BY StageVals DEF Sized
  <2>3. PICK s, pos, n : s = Sst2 /\ pos = Pos2 /\ n = 2
    OBVIOUS
  <2>4. Contents'[k] = Newer(LevelsVal(s, pos, n, k), LastVal(CompactedMain, k))
    BY <1>1, <2>1, <2>3, FrozenLeaves
  <2>5. Contents'[k] = Newer(NoVal, LastVal(CompactedMain, k))
    BY <2>2, <2>3, <2>4
  <2> QED
    BY <1>1, <2>5, CompactedVals DEF Newer
<1>3. Contents' = [k \in Keys |-> Contents'[k]]
  BY DEF Contents
<1> QED
  BY <1>2, <1>3 DEF Dict!DictForget

\* What each step does to the contents.
LEMMA StepRefines ==
  ASSUME KeysApart, Sized, TypeOK, gap = 0, [Next]_vars
  PROVE  StepsAsDict
<1>0. LevelsOK(sst, sstPos) /\ FlushedWal = <<>> /\ FlushedGap = 0
  BY FlushMoves DEF TypeOK, LevelsOK, Sized
<1>1. ASSUME Open \/ Close \/ PutFull \/ UNCHANGED vars
      PROVE  Contents' = Contents
  BY <1>1, SameFiles DEF Open, Close, PutFull, files, vars
<1>2. ASSUME NEW k \in Keys, NEW v \in Vals, Put(k, v)
      PROVE  Contents' = [Contents EXCEPT ![k] = v]
  BY <1>2, PutRefines
<1>3. ASSUME NEW k \in Keys, NEW c \in OutCaps, Get(k, c)
      PROVE  Contents' = Contents
  BY <1>3, SameFiles DEF Get, files
<1>4. ASSUME FlushInBounds, NEW m \in {FlushedMain, CompactedMain},
             UNCHANGED <<sst, sstPos, sstCount>>, main' = m, wal' = <<>>
      PROVE  Contents' = Contents
  <2>1. PICK s, pos : s = sst /\ pos = sstPos
    OBVIOUS
  <2>2. /\ LevelsOK(s, pos) /\ sst' = s /\ sstPos' = pos
        /\ \A k \in Keys : LevelsVal(s, pos, sstCount, k) = LevelsVal(sst, sstPos, sstCount, k)
    BY <1>0, <1>4, <2>1
  <2> QED
    BY <1>4, <2>2, MovedKeeps
<1>5. ASSUME WalFlush \/ CompactStopsEarly
      PROVE  Contents' = Contents
  BY <1>0, <1>4, <1>5 DEF WalFlush, CompactStopsEarly
<1>6. ASSUME FlushOverrun
      PROVE  Contents' = Contents
  <2>1. Room + 1 \in Nat /\ Room + 1 <= Len(wal) /\ Len(wal) \in Nat
    BY <1>6, OverrunTypes, RoomTypes
  <2>2. main' = CopiedMain(Room + 1) /\ UNCHANGED <<wal, sst, sstPos, sstCount>>
    BY <1>6 DEF FlushOverrun
  <2>3. PICK j \in 0 .. Len(wal) : j = Room + 1
    BY <2>1
  <2> QED
    BY <2>2, <2>3, CopiedKeeps
<1>7. ASSUME CompactMmapFails
      PROVE  Contents' = Contents
  BY <1>0, <1>4, <1>7 DEF CompactMmapFails, Compacting
<1>8. ~CompactNothing
  BY <1>0 DEF CompactNothing
<1>9. ASSUME NEW src \in {0, 1}, NEW written \in BOOLEAN, CompactMergeFails(src, written)
      PROVE  Contents' = Contents
  <2>1. /\ FlushInBounds /\ main' = CompactedMain /\ wal' = <<>> /\ UNCHANGED sstCount
        /\ sstCount = SstSlots
        /\ \/ sst' = sst /\ sstPos' = sstPos
           \/ sst' = Sst1 /\ sstPos' = Pos1
           \/ sst' = Sst2 /\ sstPos' = Pos2
    BY <1>0, <1>9 DEF CompactMergeFails, Compacting, Sst1, Pos1, Sst2, Pos2, TypeOK, SstSlots
  <2>2. PICK s, pos : /\ sst' = s /\ sstPos' = pos
                      /\ \/ s = sst /\ pos = sstPos
                         \/ s = Sst1 /\ pos = Pos1
                         \/ s = Sst2 /\ pos = Pos2
    BY <2>1
  <2>3. LevelsOK(s, pos)
    BY <2>2, StagesOK
  <2>4. ASSUME NEW k \in Keys
        PROVE  LevelsVal(s, pos, sstCount, k) = LevelsVal(sst, sstPos, sstCount, k)
    BY <2>1, <2>2, StageVals DEF Sized
  <2> QED
    BY <2>1, <2>2, <2>3, <2>4, MovedKeeps
<1>10. (\A k \in Keys, v \in Vals : ~Put(k, v)) /\ ~CompactToFullLevels => Contents' = Contents
  BY <1>1, <1>3, <1>5, <1>6, <1>7, <1>8, <1>9, NewLevelKeeps DEF Next
<1> QED
  BY <1>2, <1>10, FullLevelsForget DEF StepsAsDict, Dict!DictPut

\* The store is a dictionary that forgets keys, for any number of keys, values,
\* records and compactions: an acknowledged put (kv_db_append_wal) replaces its
\* key's value; a compaction that finds all slots used (kv_freeze_main_to_sst
\* copying over the level it has just merged) forgets every key that is in frozen
\* levels only; and no other step, a flush that overruns the main file included,
\* changes any value.
THEOREM StoreIsDictionary ==
  ASSUME KeysApart, Sized
  PROVE  Spec => DictRefined /\ Dict!DictSpec
<1> DEFINE NoGap == gap = 0
<1> USE DEF DictRefined, Dict!DictSpec
<1>1. Init => Dict!DictInit /\ NoGap
  <2> SUFFICES ASSUME Init PROVE Dict!DictInit /\ gap = 0
    OBVIOUS
  <2>1. Log = <<>>
    BY DEF Init, Log, Frozen, LiveSst
  <2> QED
    BY <2>1, LastValEmpty DEF Init, Contents, Dict!DictInit
<1>2. NoGap /\ [Next]_vars => NoGap'
  BY NoGapStep
<1>3. TypeOK /\ NoGap /\ [Next]_vars => [StepsAsDict]_vars /\ [Dict!DictNext]_Contents
  <2>1. TypeOK /\ gap = 0 /\ [Next]_vars => StepsAsDict
    BY StepRefines
  <2>2. StepsAsDict => [Dict!DictNext]_Contents
    <3>1. Keys \ KeysOf(main \o wal) \in SUBSET Keys
      OBVIOUS
    <3> QED
      BY <3>1 DEF StepsAsDict, Dict!DictNext
  <2> QED
    BY <2>1, <2>2
<1>4. Spec => []TypeOK
  BY TypeCorrect
<1> HIDE DEF NoGap
<1> QED
  BY <1>1, <1>2, <1>3, <1>4, PTL DEF Spec

-----------------------------------------------------------------------------
(* What a crash loses *)

\* The values that a merge cut short may bring back.
LEMMA OlderAre ==
  ASSUME TypeOK, sstCount = SstSlots, NEW k \in Keys
  PROVE  /\ NoVal \in OlderVals(k)
         /\ LevelsVal(sst, sstPos, 1, k) \in OlderVals(k)
         /\ LevelsVal(sst, sstPos, 2, k) \in OlderVals(k)
<1>1. /\ Level(0) = Live(sst, sstPos, 0) /\ Level(1) = Live(sst, sstPos, 1)
      /\ Level(0) \in Seq(Record) /\ Level(1) \in Seq(Record)
  <2>1. LevelsOK(sst, sstPos)
    BY DEF TypeOK, LevelsOK
  <2>2. Live(sst, sstPos, 0) \in Seq(Record) /\ Live(sst, sstPos, 1) \in Seq(Record)
    BY <2>1, ThreeSlots, LiveFacts
  <2>3. Level(0) = Live(sst, sstPos, 0) /\ Level(1) = Live(sst, sstPos, 1)
    BY ThreeSlots DEF Level, LiveSst
  <2> QED
    BY <2>2, <2>3
<1>2. LastVal(Level(0) \o Level(1), k) = Newer(LastVal(Level(0), k), LastVal(Level(1), k))
  BY <1>1, LastValConcat
<1>3. /\ LevelsVal(sst, sstPos, 1, k) = Newer(Newer(LastVal(Level(0), k), NoVal), NoVal)
      /\ LevelsVal(sst, sstPos, 2, k)
           = Newer(Newer(LastVal(Level(0), k), LastVal(Level(1), k)), NoVal)
  BY <1>1, LastValEmpty DEF LevelsVal, LiveSst
<1> QED
  BY <1>2, <1>3 DEF OlderVals, Newer

\* What a key may be left with when its process dies in a compaction.
KeyLoss(k, x) ==
  \/ x = Contents[k]
  \/ /\ sstCount = SstSlots /\ k \notin KeysOf(main \o wal)
     /\ x \in OlderVals(k)

LEMMA CompactCrashLoses ==
  ASSUME TypeOK, gap = 0, KeysApart, Sized, FlushInBounds, NEW f \in CompactPrefixes,
         CrashInCompact(f.s, f.pos, f.count, f.main), NEW k \in Keys
  PROVE  KeyLoss(k, Contents'[k])
<1> DEFINE M == LastVal(CompactedMain, k)
           new == LevelsVal(f.s, f.pos, f.count, k)
           old == LevelsVal(sst, sstPos, sstCount, k)
<1>1. Contents'[k] = Newer(new, LastVal(f.main, k))
  <2>1. LevelsOK(f.s, f.pos) /\ f.main \in Seq(Record) /\ <<>> \in Seq(Record)
    <3>1. LevelsOK(f.s, f.pos) /\ f.main \in {CompactedMain, <<>>}
      BY PrefixesOK
    <3>2. CompactedMain \in Seq(Record) /\ <<>> \in Seq(Record)
      BY FlushTypes
    <3> QED
      BY <3>1, <3>2
  <2>2. PICK s, pos, n, m, w : s = f.s /\ pos = f.pos /\ n = f.count /\ m = f.main /\ w = <<>>
    OBVIOUS
  <2>3. /\ LevelsOK(s, pos) /\ m \in Seq(Record) /\ w \in Seq(Record)
        /\ sst' = s /\ sstPos' = pos /\ sstCount' = n /\ main' = m /\ wal' = w
    BY <2>1, <2>2, FlushMoves DEF CrashInCompact, Sized
  <2>4. Contents'[k] = Newer(Newer(LevelsVal(s, pos, n, k), LastVal(m, k)), LastVal(w, k))
    BY <2>3, ContentsAre
  <2> QED
    BY <2>2, <2>4, LastValEmpty DEF Newer
<1>2. Contents[k] = Newer(old, M) /\ (k \in KeysOf(main \o wal) <=> M # NoVal)
  BY CompactedVals
<1>3. LevelsOK(sst, sstPos) /\ LevelsOK(Sst1, Pos1) /\ LevelsOK(Sst2, Pos2)
  BY StagesOK
<1>4. CASE f.s = sst /\ f.pos = sstPos /\ f.count = sstCount /\ f.main = CompactedMain
  BY <1>1, <1>2, <1>4 DEF KeyLoss
<1>5. CASE sstCount \in Slots /\ f \in FreezePrefixes(sst, NewPos, sstCount)
  <2>1. LevelsOK(sst, NewPos) /\ LevelsVal(sst, NewPos, sstCount, k) = old
    BY <1>5, StagesOK, StageVals DEF Sized
  <2>2. Newer(new, LastVal(f.main, k)) = Newer(old, M)
    BY <1>5, <2>1, FreezePrefixVal
  <2> QED
    BY <1>1, <1>2, <2>2 DEF KeyLoss
<1>6. ASSUME sstCount = SstSlots, f.main = CompactedMain, new \in {old} \cup OlderVals(k)
      PROVE  KeyLoss(k, Contents'[k])
  <2>1. Contents'[k] = Newer(new, M)
    BY <1>1, <1>6
  <2> HIDE DEF new, old, M
  <2> QED
    BY <1>2, <1>6, <2>1 DEF KeyLoss, Newer
<1>7. CASE sstCount = SstSlots /\ f \in MergePrefixes(sst, sstPos, 0)
  <2>1. f.main = CompactedMain
    BY <1>3, <1>7, MergePrefixOK
  <2>2. new \in {old, LevelsVal(sst, sstPos, 0 + 1, k)}
    BY <1>3, <1>7, MergePrefixVal DEF Sized
  <2> QED
    BY <1>6, <1>7, <2>1, <2>2, OlderAre
<1>8. CASE sstCount = SstSlots /\ f \in MergePrefixes(Sst1, Pos1, 1)
  <2>1. f.main = CompactedMain
    BY <1>3, <1>8, MergePrefixOK
  <2>2. new \in {LevelsVal(Sst1, Pos1, SstSlots, k), LevelsVal(Sst1, Pos1, 1 + 1, k)}
    BY <1>3, <1>8, MergePrefixVal DEF Sized
  <2>3. new \in {old, LevelsVal(sst, sstPos, 2, k)}
    BY <1>8, <2>2, StageVals DEF Sized
  <2> QED
    BY <1>6, <1>8, <2>1, <2>3, OlderAre
<1>9. CASE sstCount = SstSlots /\ f \in FreezePrefixes(Sst2, Pos2, 2)
  <2>1. Newer(new, LastVal(f.main, k)) = Newer(NoVal, M)
    <3>1. LevelsVal(Sst2, Pos2, 2, k) = NoVal
      BY StageVals DEF Sized
    <3>2. Newer(new, LastVal(f.main, k)) = Newer(LevelsVal(Sst2, Pos2, 2, k), M)
      BY <1>3, <1>9, FreezePrefixVal, ThreeSlots
    <3> QED
      BY <3>1, <3>2
  <2> HIDE DEF new, old, M
  <2> QED
    BY <1>1, <1>2, <1>9, <2>1, OlderAre DEF KeyLoss, Newer
<1> QED
  BY <1>4, <1>5, <1>7, <1>8, <1>9, PrefixCases

\* Clearing the main file loses it with the log; when its records are back,
\* nothing is lost.
LEMMA RewriteCrashLoses ==
  ASSUME TypeOK, gap = 0, KeysApart, Sized, FlushInBounds, Len(FlushedMain) + FlushedGap > 0,
         NEW m \in {<<>>, CompactedMain}, CrashInRewrite(m)
  PROVE  \/ Contents' = Contents
         \/ main' = <<>> /\ gap' > 0 /\ gen' = gen /\ Frozen' = Frozen
<1>1. CASE m = <<>>
  <2>1. main' = <<>> /\ gap' = (Len(FlushedMain) + FlushedGap) - 0
        /\ UNCHANGED <<sst, sstPos, sstCount, gen>>
    BY <1>1 DEF CrashInRewrite
  <2>2. Frozen' = Frozen
    BY <2>1 DEF Frozen
  <2>3. gap' > 0
    <3>1. Len(FlushedMain) \in Nat /\ FlushedGap \in Nat
      BY FlushTypes
    <3> QED
      BY <2>1, <3>1
  <2> QED
    BY <2>1, <2>2, <2>3
<1>2. CASE m = CompactedMain
  <2>1. PICK s, pos : s = sst /\ pos = sstPos
    OBVIOUS
  <2>2. /\ LevelsOK(s, pos) /\ sst' = s /\ sstPos' = pos /\ UNCHANGED sstCount
        /\ main' = m /\ wal' = <<>>
        /\ \A k \in Keys : LevelsVal(s, pos, sstCount, k) = LevelsVal(sst, sstPos, sstCount, k)
    BY <2>1, FlushMoves DEF CrashInRewrite, Sized, TypeOK, LevelsOK
  <2>3. m \in {FlushedMain, CompactedMain}
    BY <1>2
  <2> QED
    BY <2>2, <2>3, MovedKeeps
<1> QED
  BY <1>1, <1>2

\* What a store can lose when it is closed, or when its process dies in a flush or
\* a compaction (kv_db_wal_flush_impl, kv_db_compact_impl) of a main file without
\* a gap: nothing; or, between clearing the main file and writing it back, the
\* main file and the log; or, with all slots used, values of keys that are in
\* neither.
THEOREM CrashLossIsBounded ==
  ASSUME KeysApart, Sized
  PROVE  CrashSpec => CrashLossBounded
<1> DEFINE Lost == isOpen /\ ~isOpen' /\ gap = 0 =>
                     \/ Contents' = Contents
                     \/ main' = <<>> /\ gap' > 0 /\ gen' = gen /\ Frozen' = Frozen
                     \/ /\ sstCount = SstSlots
                        /\ \A k \in Keys :
                             \/ Contents'[k] = Contents[k]
                             \/ k \notin KeysOf(main \o wal) /\ Contents'[k] \in OlderVals(k)
<1>1. TypeOK /\ Crash => Lost
  <2> SUFFICES ASSUME TypeOK, Crash, gap = 0  PROVE Lost
    OBVIOUS
  <2> HIDE DEF Lost
  <2>1. ASSUME NEW j \in 0 .. FlushCount, CrashInFlush(j)
        PROVE  Lost
    <3>1. j \in 0 .. Len(wal) /\ main' = CopiedMain(j) /\ UNCHANGED <<wal, sst, sstPos, sstCount>>
      BY <2>1, RoomTypes DEF CrashInFlush, LogDuringFlush
    <3>2. Contents' = Contents
      BY <3>1, CopiedKeeps
    <3> QED
      BY <3>2 DEF Lost
  <2>2. ASSUME FlushInBounds, Len(FlushedMain) + FlushedGap > 0,
               NEW m \in {<<>>, CompactedMain}, CrashInRewrite(m)
        PROVE  Lost
    BY <2>2, RewriteCrashLoses DEF Lost
  <2>3. ASSUME FlushInBounds, NEW f \in CompactPrefixes,
               CrashInCompact(f.s, f.pos, f.count, f.main)
        PROVE  Lost
    <3>1. \A k \in Keys : KeyLoss(k, Contents'[k])
      BY <2>3, CompactCrashLoses
    <3>2. CASE sstCount = SstSlots
      BY <3>1, <3>2 DEF Lost, KeyLoss
    <3>3. CASE sstCount # SstSlots
      BY <3>1, <3>3, SameContents DEF Lost, KeyLoss
    <3> QED
      BY <3>2, <3>3
  <2> QED
    BY <2>1, <2>2, <2>3 DEF Crash
<1>2. Next => Lost
  <2>1. Close => Contents' = Contents
    BY SameFiles DEF Close, files
  <2>2. Open => isOpen'
    BY DEF Open
  <2>3. PutFull \/ WalFlush \/ FlushOverrun \/ CompactStopsEarly \/ CompactNothing
          \/ CompactMmapFails \/ CompactToNewLevel \/ CompactToFullLevels => UNCHANGED isOpen
    BY DEF PutFull, WalFlush, FlushOverrun, CompactStopsEarly, CompactNothing,
           CompactMmapFails, CompactToNewLevel, CompactToFullLevels, Compacting, vars
  <2>4. ASSUME NEW k, NEW v, Put(k, v) \/ Get(k, v)
        PROVE  UNCHANGED isOpen
    BY <2>4 DEF Put, Get
  <2>5. ASSUME NEW src, NEW written, CompactMergeFails(src, written)
        PROVE  UNCHANGED isOpen
    BY <2>5 DEF CompactMergeFails, Compacting
  <2> QED
    BY <2>1, <2>2, <2>3, <2>4, <2>5 DEF Next
<1>3. TypeOK /\ [CrashNext]_vars => [Lost]_vars
  BY <1>1, <1>2 DEF CrashNext
<1> QED
  BY <1>3, CrashTypeCorrect, PTL DEF CrashSpec, CrashLossBounded
=============================================================================
