------------------------------ MODULE KvStore -------------------------------
(***************************************************************************)
(* The log-structured store of std.db.kv (src/std/db/kv/kv.x).             *)
(*                                                                         *)
(* Three kinds of mmapped files hold records: the write-ahead log, the     *)
(* main file and up to three frozen SST side files.  A volatile table, the *)
(* memtable, maps a class of keys (equal FNV hash and equal length) to the *)
(* place of one record.  Records have unit length, so a capacity counts    *)
(* records; a value has a length of its own, which only the buffer a       *)
(* caller passes to get is compared with.                                  *)
(*                                                                         *)
(* The store is not thread safe and has no lock: every operation is one    *)
(* action.  Calls of the C library and the kernel that can fail (calloc,   *)
(* malloc, mmap, msync) fail at the choice of the environment.             *)
(*                                                                         *)
(* A scan of a file ends at the first place that does not hold a record.   *)
(* gap counts the positions below the main file's write_pos that zeroed    *)
(* bytes put out of its scans' reach.  Only a crash (KvCrash) leaves any.  *)
(***************************************************************************)
EXTENDS Integers, Sequences, FiniteSets

CONSTANTS
  Keys, Vals, NoVal,  \* keys, values, and the answer KV_ERR_NOT_FOUND
  KeyClass,           \* the (hash, length) class of each key
  ValLen, OutCaps,    \* length of each value; buffer sizes callers use
  Cap,                \* records that fit the main file and each SST file
  WalCap,             \* records that fit the log
  MtCap,              \* KV_MT_CAP
  MaxGen              \* bound: compactions a behaviour may take

SstSlots == 3         \* KV_SST_SLOTS
Main == 0             \* KV_LAYER_MAIN
Wal == 1              \* KV_LAYER_WAL
SstBase == 10         \* KV_LAYER_SST_BASE
Slots == 0 .. SstSlots - 1
Layers == {Main, Wal} \cup {SstBase + i : i \in Slots}
Classes == {KeyClass[k] : k \in Keys}

ASSUME KvConstants ==
  /\ IsFiniteSet(Keys)
  /\ NoVal \notin Vals
  /\ KeyClass \in [Keys -> Classes]
  /\ ValLen \in [Vals -> Nat]
  /\ OutCaps \subseteq Nat
  /\ Cap \in Nat /\ WalCap \in Nat /\ MtCap \in Nat \ {0} /\ MaxGen \in Nat

Record == [key : Keys, val : Vals]
Entry == [class : Classes, layer : Layers, off : Nat \ {0}]

VARIABLES
  wal,       \* records of the log, up to its write_pos
  main,      \* records of the main file that its scans reach
  gap,       \* positions up to its write_pos that they do not reach
  sst,       \* per slot, the records physically in the file
  sstPos,    \* per slot, write_pos: the first sstPos[i] records are live
  sstCount,  \* sst_count of the main file's header
  gen,       \* compact_gen of the main file's header
  mapped,    \* slots whose file is mapped (sst_map[i] # 0)
  mt,        \* the memtable: a sequence of entries
  isOpen     \* a handle exists

files == <<wal, main, gap, sst, sstPos, sstCount, gen>>
vars == <<wal, main, gap, sst, sstPos, sstCount, gen, mapped, mt, isOpen>>

\* A flush has written past the end of the main file's mapping.  What the bytes
\* there belong to, and what the program does next, is undefined: no action
\* follows.
Overrun == Len(main) + gap > Cap

-----------------------------------------------------------------------------
(* Records and where they are. *)

\* The records of layer l, in the order of the file.
LayerEntries(l, recs) ==
  [i \in 1 .. Len(recs) |->
     [class |-> KeyClass[recs[i].key], layer |-> l, off |-> i]]

Live(s, pos, i) == SubSeq(s[i], 1, pos[i])

\* Mutant: the newest level first.
SstEntriesNewestFirst(s, pos, n) ==
  LET At(i) == IF i < n THEN LayerEntries(SstBase + i, Live(s, pos, i)) ELSE <<>>
  IN  At(2) \o At(1) \o At(0)

\* Entries of the SST levels below n, oldest level first.
SstEntries(s, pos, n) ==
  LET At(i) == IF i < n THEN LayerEntries(SstBase + i, Live(s, pos, i)) ELSE <<>>
  IN  At(0) \o At(1) \o At(2)

\* The bytes a layer holds, past write_pos too.
LayerRecords(l) ==
  IF l = Wal THEN wal ELSE IF l = Main THEN main ELSE sst[l - SstBase]

\* kv_read_at_map: entry e denotes a record of key k whose value fits c bytes.
Readable(e, k, c) ==
  LET recs == LayerRecords(e.layer)
  IN  /\ e.off <= Len(recs)
      /\ recs[e.off].key = k
      /\ ValLen[recs[e.off].val] <= c

ValueAt(e) == LayerRecords(e.layer)[e.off].val

-----------------------------------------------------------------------------
(* The memtable. *)

\* Mutant: an entry that exists is not moved to the new record.
MtPutKeepsOld(t, e) ==
  IF \E i \in DOMAIN t : t[i].class = e.class THEN t
  ELSE IF Len(t) < MtCap THEN Append(t, e) ELSE t

\* kv_mt_put_ex: one entry per class; a full table takes no new class.
MtPut(t, e) ==
  IF \E i \in DOMAIN t : t[i].class = e.class
  THEN [i \in DOMAIN t |-> IF t[i].class = e.class THEN e ELSE t[i]]
  ELSE IF Len(t) < MtCap THEN Append(t, e) ELSE t

FirstSeen(es) ==
  {p \in DOMAIN es : \A q \in DOMAIN es : q < p => es[q].class # es[p].class}

Nth(S, i) == CHOOSE p \in S : Cardinality({q \in S : q <= p}) = i

\* Mutant: the first record of a class instead of its last.
FirstOf(es, c) ==
  CHOOSE p \in DOMAIN es :
    es[p].class = c /\ \A q \in DOMAIN es : es[q].class = c => p <= q

LastOf(es, c) ==
  CHOOSE p \in DOMAIN es :
    es[p].class = c /\ \A q \in DOMAIN es : es[q].class = c => q <= p

\* kv_mt_clear followed by kv_rebuild_mt_from_map of the files whose entries
\* are es: the classes in the order of their first record, each with the
\* place of its last one, and only the first MtCap of them.
Index(es) ==
  LET F == FirstSeen(es)
      n == Cardinality(F)
  IN  [i \in 1 .. (IF n < MtCap THEN n ELSE MtCap) |->
         es[LastOf(es, es[Nth(F, i)].class)]]

\* The loop of kv_rebuild_mt_from_map around kv_mt_put_ex: the entries are put
\* into an empty table one after the other.
PutAll(es) ==
  LET t[n \in 0 .. Len(es)] == IF n = 0 THEN <<>> ELSE MtPut(t[n - 1], es[n])
  IN  t[Len(es)]

-----------------------------------------------------------------------------
(* Reading. *)

\* kv_find_latest_in_map over the log, then the main file, then the SST levels
\* from the newest: the last position, in this order, that can be read.
ScanOrder ==
  SstEntries(sst, sstPos, sstCount) \o LayerEntries(Main, main)
    \o LayerEntries(Wal, wal)

Found(k, c) == {p \in DOMAIN ScanOrder : Readable(ScanOrder[p], k, c)}

LatestFound(k, c) ==
  ScanOrder[CHOOSE p \in Found(k, c) : \A q \in Found(k, c) : q <= p]

MtHits(k, c) ==
  {i \in DOMAIN mt : mt[i].class = KeyClass[k] /\ Readable(mt[i], k, c)}

\* What kv_db_get_impl answers.
GetValue(k, c) ==
  IF MtHits(k, c) # {} THEN ValueAt(mt[CHOOSE i \in MtHits(k, c) : TRUE])
  ELSE IF Found(k, c) # {} THEN ValueAt(LatestFound(k, c))
  ELSE NoVal

\* The store's contents: all live records, oldest first, and the last value
\* each key has among them.
LastVal(s, k) ==
  IF \E i \in DOMAIN s : s[i].key = k
  THEN s[CHOOSE i \in DOMAIN s :
           s[i].key = k /\ \A j \in DOMAIN s : s[j].key = k => j <= i].val
  ELSE NoVal

LiveSst(s, pos, n, i) == IF i < n THEN Live(s, pos, i) ELSE <<>>

\* The live records of the frozen levels.
Frozen ==
  LiveSst(sst, sstPos, sstCount, 0) \o LiveSst(sst, sstPos, sstCount, 1)
    \o LiveSst(sst, sstPos, sstCount, 2)

Log == Frozen \o main \o wal

Contents == [k \in Keys |-> LastVal(Log, k)]

-----------------------------------------------------------------------------
(* Opening, closing and writing. *)

Init ==
  /\ wal = <<>> /\ main = <<>> /\ gap = 0
  /\ sst = [i \in Slots |-> <<>>]
  /\ sstPos = [i \in Slots |-> 0]
  /\ sstCount = 0 /\ gen = 0
  /\ mapped = {} /\ mt = <<>>
  /\ isOpen = FALSE

\* kv_db_open_impl, kv_open_sst_slots: the levels the header counts are mapped
\* and the memtable is rebuilt from the main file, the log, then the levels.
Open ==
  /\ ~isOpen /\ ~Overrun
  /\ isOpen' = TRUE
  /\ mapped' = 0 .. sstCount - 1
  /\ mt' = Index(LayerEntries(Main, main) \o LayerEntries(Wal, wal)
                   \o SstEntries(sst, sstPos, sstCount))
  /\ UNCHANGED files

\* kv_db_close_impl: unmaps and frees; nothing is written.
Close ==
  /\ isOpen /\ ~Overrun
  /\ isOpen' = FALSE /\ mapped' = {} /\ mt' = <<>>
  /\ UNCHANGED files

\* Mutant: the log takes one record more than fits it.
PutPastEnd(k, v) ==
  /\ isOpen /\ ~Overrun
  /\ Len(wal) <= WalCap
  /\ wal' = Append(wal, [key |-> k, val |-> v])
  /\ mt' = MtPut(mt, [class |-> KeyClass[k], layer |-> Wal, off |-> Len(wal) + 1])
  /\ UNCHANGED <<main, gap, sst, sstPos, sstCount, gen, mapped, isOpen>>

\* kv_db_append_wal, with room in the log.
Put(k, v) ==
  /\ isOpen /\ ~Overrun
  /\ Len(wal) < WalCap
  /\ wal' = Append(wal, [key |-> k, val |-> v])
  /\ mt' = MtPut(mt, [class |-> KeyClass[k], layer |-> Wal, off |-> Len(wal) + 1])
  /\ UNCHANGED <<main, gap, sst, sstPos, sstCount, gen, mapped, isOpen>>

\* kv_db_append_wal, with the log full (-3).
PutFull ==
  /\ isOpen /\ ~Overrun
  /\ Len(wal) >= WalCap
  /\ UNCHANGED vars

\* kv_db_get_impl: a scan that finds the key moves the memtable's entry.
Get(k, c) ==
  /\ isOpen /\ ~Overrun
  /\ mt' = IF MtHits(k, c) = {} /\ Found(k, c) # {}
           THEN MtPut(mt, LatestFound(k, c))
           ELSE mt
  /\ UNCHANGED <<files, mapped, isOpen>>

-----------------------------------------------------------------------------
(* Flushing the log into the main file. *)

\* A record is copied while its offset in the log is below the main file's
\* capacity.
FlushCount == IF Len(wal) <= Cap THEN Len(wal) ELSE Cap

\* The main file after n records are copied to its write_pos.
CopiedMain(n) == IF gap = 0 THEN main \o SubSeq(wal, 1, n) ELSE main
CopiedGap(n) == IF gap = 0 THEN 0 ELSE gap + n

\* No line of the flush compares the place it copies to with anything.
Room == Cap - (Len(main) + gap)
FlushInBounds == FlushCount <= Room

FlushedMain == CopiedMain(FlushCount)
FlushedGap == CopiedGap(FlushCount)
FlushedWal == IF Len(wal) <= Cap THEN <<>> ELSE wal

\* Mutant: the memtable is not rebuilt after a flush.
WalFlushKeepsMt ==
  /\ isOpen /\ ~Overrun
  /\ wal # <<>> /\ FlushInBounds
  /\ main' = FlushedMain /\ gap' = FlushedGap
  /\ wal' = FlushedWal
  /\ UNCHANGED <<sst, sstPos, sstCount, gen, mapped, mt, isOpen>>

\* kv_db_wal_flush_impl when every copy lands in the main file.  If it stops
\* early (-3) the log and the memtable stay.  Whether the last msync succeeds
\* changes only the result.
WalFlush ==
  /\ isOpen /\ ~Overrun
  /\ wal # <<>> /\ FlushInBounds
  /\ main' = FlushedMain /\ gap' = FlushedGap
  /\ wal' = FlushedWal
  /\ mt' = IF Len(wal) <= Cap
           THEN Index(LayerEntries(Main, FlushedMain)
                        \o SstEntries(sst, sstPos, sstCount))
           ELSE mt
  /\ UNCHANGED <<sst, sstPos, sstCount, gen, mapped, isOpen>>

\* A flush, or the flush a compaction starts with, when not every copy does: up
\* to and with the first that lands behind it, and the write_pos stored then.
FlushOverrun ==
  /\ isOpen /\ ~Overrun
  /\ ~FlushInBounds
  /\ main' = CopiedMain(Room + 1) /\ gap' = CopiedGap(Room + 1)
  /\ UNCHANGED <<wal, sst, sstPos, sstCount, gen, mapped, mt, isOpen>>

-----------------------------------------------------------------------------
(* Compacting the main file and freezing it as an SST level. *)

\* Mutant: a compaction that copies every record.
CompactedAll(m) == m

\* One record per memtable entry, in the memtable's order.
Compacted(m) ==
  LET t == Index(LayerEntries(Main, m))
  IN  [i \in DOMAIN t |-> m[t[i].off]]

CompactedMain == Compacted(FlushedMain)

\* Mutant: the older level's records win.
MergeEntriesOldWins(s, pos, src) ==
  LayerEntries(SstBase + src + 1, Live(s, pos, src + 1))
    \o LayerEntries(SstBase + src, Live(s, pos, src))

\* kv_sst_merge_dedup(s, src, src + 1): the newer level's records win, and what
\* does not fit the target file is dropped.
MergeEntries(s, pos, src) ==
  LayerEntries(SstBase + src, Live(s, pos, src))
    \o LayerEntries(SstBase + src + 1, Live(s, pos, src + 1))

MergedRecords(s, pos, src) ==
  LET t == Index(MergeEntries(s, pos, src))
  IN  [i \in 1 .. (IF Len(t) < Cap THEN Len(t) ELSE Cap) |->
         s[t[i].layer - SstBase][t[i].off]]

MergeSst(s, pos, src) ==
  [s EXCEPT ![src] = <<>>, ![src + 1] = MergedRecords(s, pos, src)]

MergePos(s, pos, src) ==
  [pos EXCEPT ![src] = 0, ![src + 1] = Len(MergedRecords(s, pos, src))]

\* kv_db_compact_impl ends early: calloc or malloc fails (-2), or there is
\* nothing in the main file (0).
CompactStopsEarly ==
  /\ isOpen /\ ~Overrun
  /\ FlushInBounds
  /\ main' = FlushedMain /\ gap' = FlushedGap
  /\ wal' = FlushedWal
  /\ mt' = Index(LayerEntries(Main, FlushedMain))
  /\ UNCHANGED <<sst, sstPos, sstCount, gen, mapped, isOpen>>

\* What every compaction that gets past that point starts with: the main file is
\* cleared, and the compacted records are written to its start.
Compacting ==
  /\ isOpen /\ ~Overrun
  /\ FlushInBounds
  /\ gen < MaxGen
  /\ gen' = gen + 1
  /\ gap' = 0
  /\ UNCHANGED isOpen

\* No scan reaches any of the records below write_pos: none is left to freeze.
CompactNothing ==
  /\ Compacting
  /\ FlushedMain = <<>> /\ FlushedGap > 0
  /\ main' = <<>> /\ wal' = <<>>
  /\ mt' = Index(SstEntries(sst, sstPos, sstCount))
  /\ UNCHANGED <<sst, sstPos, sstCount, mapped>>

\* kv_freeze_main_to_sst cannot map a new level's file (-2, then -4).
CompactMmapFails ==
  /\ Compacting /\ FlushedMain # <<>>
  /\ sstCount < SstSlots /\ sstCount \notin mapped
  /\ main' = CompactedMain
  /\ wal' = FlushedWal
  /\ mt' = Index(LayerEntries(Main, CompactedMain))
  /\ UNCHANGED <<sst, sstPos, sstCount, mapped>>

\* The end of kv_freeze_main_to_sst and of kv_db_compact_impl.  The main file's
\* records are copied over the start of the slot's file.  If the msync of that
\* file fails the compaction returns with memtable t and leaves the log alone.
FreezeTo(slot, s, pos, t) ==
  /\ sst' = [s EXCEPT ![slot] =
               CompactedMain \o SubSeq(@, Len(CompactedMain) + 1, Len(@))]
  /\ sstPos' = [pos EXCEPT ![slot] = Len(CompactedMain)]
  /\ sstCount' = slot + 1
  /\ mapped' = mapped \cup {slot}
  /\ main' = <<>>
  /\ \/ wal' = <<>> /\ mt' = Index(SstEntries(sst', sstPos', sstCount'))
     \/ wal' = FlushedWal /\ mt' = t

CompactToNewLevel ==
  /\ Compacting /\ FlushedMain # <<>>
  /\ sstCount < SstSlots
  /\ FreezeTo(sstCount, sst, sstPos, Index(LayerEntries(Main, CompactedMain)))

\* All slots are used: 0 is merged into 1, 1 into 2, and slot 2 receives the
\* main file.
CompactToFullLevels ==
  /\ Compacting /\ FlushedMain # <<>>
  /\ sstCount >= SstSlots
  /\ LET s1 == MergeSst(sst, sstPos, 0)
         p1 == MergePos(sst, sstPos, 0)
     IN  FreezeTo(2, MergeSst(s1, p1, 1), MergePos(s1, p1, 1),
                  Index(MergeEntries(s1, p1, 1)))

\* One of the two merges fails (-5, then -4), on an allocation before it has
\* written anything or on the msync after it has.
CompactMergeFails(src, written) ==
  /\ Compacting /\ FlushedMain # <<>>
  /\ sstCount >= SstSlots
  /\ LET s1 == IF src = 0 THEN sst ELSE MergeSst(sst, sstPos, 0)
         p1 == IF src = 0 THEN sstPos ELSE MergePos(sst, sstPos, 0)
         t  == Index(MergeEntries(s1, p1, src))
     IN  /\ MergeEntries(s1, p1, src) # <<>>
         /\ sst' = IF written THEN MergeSst(s1, p1, src) ELSE s1
         /\ sstPos' = IF written THEN MergePos(s1, p1, src) ELSE p1
         /\ mt' = t
  /\ main' = CompactedMain
  /\ wal' = FlushedWal
  /\ UNCHANGED <<sstCount, mapped>>

Next ==
  \/ Open \/ Close
  \/ \E k \in Keys, v \in Vals : Put(k, v)
  \/ PutFull
  \/ \E k \in Keys, c \in OutCaps : Get(k, c)
  \/ WalFlush \/ FlushOverrun
  \/ CompactStopsEarly \/ CompactNothing \/ CompactMmapFails
  \/ CompactToNewLevel \/ CompactToFullLevels
  \/ \E src \in {0, 1}, written \in BOOLEAN : CompactMergeFails(src, written)

Spec == Init /\ [][Next]_vars

-----------------------------------------------------------------------------
(* Properties. *)

\* Type invariant of the files' headers, the records and the memtable.  The
\* main file's write_pos passes its capacity by one record when a flush overruns
\* it; no other write position passes the end of its file.
TypeOK ==
  /\ wal \in Seq(Record) /\ Len(wal) <= WalCap
  /\ main \in Seq(Record) /\ gap \in Nat /\ Len(main) + gap <= Cap + 1
  /\ sst \in [Slots -> Seq(Record)]
  /\ sstPos \in [Slots -> Nat]
  /\ \A i \in Slots : sstPos[i] <= Len(sst[i]) /\ Len(sst[i]) <= Cap
  /\ sstCount \in 0 .. SstSlots /\ gen \in 0 .. MaxGen
  /\ mapped \subseteq Slots
  /\ mt \in Seq(Entry) /\ Len(mt) <= MtCap
  /\ isOpen \in BOOLEAN

\* An entry of the memtable that names the log names a record of its class
\* before the log's write_pos: kv_read_at_map compares offsets with the file's
\* capacity only, so after a flush or a compaction has reset the log such an
\* entry would read a record that is no longer there.
MtNoDanglingLog ==
  \A i \in DOMAIN mt :
    mt[i].layer = Wal =>
      /\ mt[i].off <= Len(wal)
      /\ KeyClass[wal[mt[i].off].key] = mt[i].class

\* When the memtable sends get to the log or the main file, the record it names
\* is the key's latest (kv_db_get_impl returns it without looking further).
\* Holds when callers' buffers hold every value; entries naming an SST level
\* are the subject of GetLatestOrError.
MtHitFresh ==
  ~Overrun =>
    \A k \in Keys, c \in OutCaps : \A i \in MtHits(k, c) :
      mt[i].layer \in {Main, Wal} => ValueAt(mt[i]) = Contents[k]

\* get answers the latest value or an error, never an older value
\* ("读取最新值" in the API table).
GetLatestOrError ==
  isOpen /\ ~Overrun =>
    \A k \in Keys, c \in OutCaps : GetValue(k, c) \in {Contents[k], NoVal}

\* How far GetLatestOrError can miss: get (kv_db_get_impl) answers the latest
\* value, or the latest of the frozen levels, never one older than that, as
\* long as every compaction opened a level of its own.  Holds when callers'
\* buffers hold every value.
GetNoOlderThanFrozen ==
  isOpen /\ ~Overrun /\ gen <= SstSlots =>
    \A k \in Keys, c \in OutCaps :
      GetValue(k, c) \in {Contents[k], LastVal(Frozen, k)}

\* A frozen level holds at most one live record of each class, so that the
\* merge of two levels sees each key once on each side.
LevelsDeduped ==
  \A s \in 0 .. sstCount - 1 : \A i, j \in 1 .. sstPos[s] :
    KeyClass[sst[s][i].key] = KeyClass[sst[s][j].key] => i = j

\* Rebuilding the memtable is putting the records of the files into it one
\* after the other: Index, which knows each class's last record and the first
\* MtCap classes at once, is what the loop of kv_rebuild_mt_from_map around
\* kv_mt_put_ex arrives at, with more classes of keys than the table has room
\* for and with keys that share a class.
IndexIsFold ==
  LET es == LayerEntries(Main, main) \o LayerEntries(Wal, wal)
              \o SstEntries(sst, sstPos, sstCount)
  IN  Index(es) = PutAll(es)

KeysOf(recs) == {recs[i].key : i \in DOMAIN recs}

\* No two keys of ks share a hash and a length.
Apart(ks) == \A k, l \in ks : KeyClass[k] = KeyClass[l] => k = l

\* Merging a level into the next keeps the newest value of every key of the
\* two, when the keys fit the file and the table the merge is computed in and no
\* two of them share a class.
MergeKeepsNewest ==
  \A src \in {0, 1} :
    LET old == Live(sst, sstPos, src) \o Live(sst, sstPos, src + 1)
        n   == Cardinality(KeysOf(old))
    IN  n <= Cap /\ n <= MtCap /\ Apart(KeysOf(old))
          => \A k \in Keys : LastVal(MergedRecords(sst, sstPos, src), k) = LastVal(old, k)

\* Every way kv_db_compact_impl can end.
Compact ==
  \/ CompactStopsEarly \/ CompactNothing \/ CompactMmapFails
  \/ CompactToNewLevel \/ CompactToFullLevels
  \/ \E src \in {0, 1}, written \in BOOLEAN : CompactMergeFails(src, written)

Dict == INSTANCE KvDict WITH dict <- Contents

\* What a step is to the dictionary.  KvDict alone would take a step that brings
\* an old value back for a put of that value, or a flush that loses a key for one
\* that forgets it.
StepsAsDict ==
  /\ \A k \in Keys, v \in Vals : Put(k, v) => Dict!DictPut(k, v)
  /\ CompactToFullLevels => Dict!DictForget(Keys \ KeysOf(main \o wal))
  /\ (\A k \in Keys, v \in Vals : ~Put(k, v)) /\ ~CompactToFullLevels
       => Contents' = Contents

\* The store is the dictionary of KvDict: a put that is acknowledged changes its
\* key to the new value; a compaction that finds all slots used forgets the keys
\* that are in frozen levels only (it freezes the main file over the level its
\* merges have put them in); and no other compaction, no flush, failed call,
\* closing or reopening changes any value.
DictRefined == Dict!DictInit /\ [][StepsAsDict]_vars
=============================================================================
