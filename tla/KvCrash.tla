------------------------------- MODULE KvCrash -------------------------------
(***************************************************************************)
(* The store of KvStore when its process may die inside an operation.      *)
(*                                                                         *)
(* The files are shared mappings: what the process stored before it died   *)
(* is in them, in program order.  A crash leaves the files as they are     *)
(* after some prefix of the stores of a flush or a compaction, and the     *)
(* next kv_db_open_impl starts from there.  A crash anywhere else is       *)
(* KvStore's Close: put stores a record before the write_pos that makes it *)
(* visible, and the other operations store nothing.                        *)
(*                                                                         *)
(* A memset, a memcpy or a header's write_pos counts as one store.  Bytes  *)
(* zeroed below a write_pos end the scans of their file: a level whose     *)
(* first record is zeroed reads as empty, and the main file keeps the      *)
(* positions as gap until a compaction resets its write_pos.  compact_gen  *)
(* counts as stored with the write_pos before it.                          *)
(***************************************************************************)
EXTENDS KvStore

\* What a dead process leaves besides the files.
Die ==
  /\ isOpen' = FALSE
  /\ mapped' = {} /\ mt' = <<>>

\* Mutant: the log is reset before its records are copied.
LogDuringFlushReset == <<>>

\* The log is reset when all its records are in the main file.
LogDuringFlush == wal

\* In the loop of kv_db_wal_flush_impl, after j records; or by the fault of the
\* copy that overruns the main file.
CrashInFlush(j) ==
  /\ Die
  /\ main' = CopiedMain(j) /\ gap' = CopiedGap(j)
  /\ wal' = LogDuringFlush
  /\ UNCHANGED <<sst, sstPos, sstCount, gen>>

\* In kv_db_compact_impl, once the main file is cleared and until its write_pos is
\* that of the records m written back to it.
CrashInRewrite(m) ==
  /\ Die
  /\ main' = m /\ gap' = (Len(FlushedMain) + FlushedGap) - Len(m)
  /\ wal' = FlushedWal
  /\ UNCHANGED <<sst, sstPos, sstCount, gen>>

\* After that in kv_db_compact_impl, or in kv_freeze_main_to_sst, with the levels
\* at s, pos and count and the records m in the main file.
CrashInCompact(s, pos, count, m) ==
  /\ Die
  /\ main' = m /\ gap' = Len(CompactedMain) - Len(m)
  /\ wal' = FlushedWal
  /\ sst' = s /\ sstPos' = pos /\ sstCount' = count /\ gen' = gen + 1

\* The levels at s, pos and count, and the compacted records in the main file.
Levels(s, pos, count) == [s |-> s, pos |-> pos, count |-> count, main |-> CompactedMain]

\* The slot once the records are copied to it, and its write_pos then.
FrozenIn(s, slot) ==
  [s EXCEPT ![slot] = CompactedMain \o SubSeq(@, Len(CompactedMain) + 1, Len(@))]
FrozenPos(pos, slot) == [pos EXCEPT ![slot] = Len(CompactedMain)]

\* Mutant: the main file is cleared before its records are counted in the slot.
FreezePrefixesClearFirst(s, pos, slot) ==
  LET t == FrozenIn(s, slot)
      q == FrozenPos(pos, slot)
  IN  { Levels(s, pos, slot), Levels(t, pos, slot), Levels(t, q, slot),
        [Levels(t, q, slot) EXCEPT !.main = <<>>],
        [Levels(t, q, slot + 1) EXCEPT !.main = <<>>] }

\* The stores that freeze the main file into a slot: the records, the slot's
\* write_pos, sst_count, and the main file cleared.
FreezePrefixes(s, pos, slot) ==
  LET t == FrozenIn(s, slot)
      q == FrozenPos(pos, slot)
  IN  { Levels(s, pos, slot), Levels(t, pos, slot), Levels(t, q, slot),
        Levels(t, q, slot + 1), [Levels(t, q, slot + 1) EXCEPT !.main = <<>>] }

\* A new level: its header is written first, with an empty write_pos.
NewLevelPrefixes ==
  {Levels(sst, sstPos, sstCount)}
    \cup FreezePrefixes(sst, [sstPos EXCEPT ![sstCount] = 0], sstCount)

\* The stores of a merge: its target cleared, the merged records, the target's
\* write_pos, and its source cleared.  Between the second and the third the old
\* write_pos of the target cuts the merged records off.
MergePrefixes(s, pos, src) ==
  LET d == MergedRecords(s, pos, src)
      n == IF pos[src + 1] < Len(d) THEN pos[src + 1] ELSE Len(d)
      t == [s EXCEPT ![src + 1] = d]
  IN  { Levels([s EXCEPT ![src + 1] = <<>>], [pos EXCEPT ![src + 1] = 0], SstSlots),
        Levels(t, [pos EXCEPT ![src + 1] = n], SstSlots),
        Levels(t, [pos EXCEPT ![src + 1] = Len(d)], SstSlots),
        Levels(MergeSst(s, pos, src), MergePos(s, pos, src), SstSlots) }

\* All slots are used: two merges, sst_count becomes 2, and the main file is
\* frozen into slot 2.
FullLevelsPrefixes ==
  LET s1 == MergeSst(sst, sstPos, 0)
      p1 == MergePos(sst, sstPos, 0)
  IN  MergePrefixes(sst, sstPos, 0) \cup MergePrefixes(s1, p1, 1)
        \cup FreezePrefixes(MergeSst(s1, p1, 1), MergePos(s1, p1, 1), 2)

\* With nothing to freeze the levels are left alone.
CompactPrefixes ==
  IF FlushedMain = <<>> THEN {Levels(sst, sstPos, sstCount)}
  ELSE IF sstCount < SstSlots THEN NewLevelPrefixes ELSE FullLevelsPrefixes

Crash ==
  /\ isOpen /\ ~Overrun
  /\ \/ \E j \in 0 .. FlushCount : j <= Room /\ CrashInFlush(j)
     \/ /\ FlushInBounds /\ Len(FlushedMain) + FlushedGap > 0 /\ gen < MaxGen
        /\ \/ \E m \in {<<>>, CompactedMain} : CrashInRewrite(m)
           \/ \E f \in CompactPrefixes : CrashInCompact(f.s, f.pos, f.count, f.main)

CrashNext == Next \/ Crash

CrashSpec == Init /\ [][CrashNext]_vars

-----------------------------------------------------------------------------
(* Properties *)

Level(i) == LiveSst(sst, sstPos, sstCount, i)

\* What a key may fall back to when a merge is cut short.
OlderVals(k) == {NoVal, LastVal(Level(0), k), LastVal(Level(0) \o Level(1), k)}

\* What can be lost with the handle, by close or by a crash at any store of a
\* flush or a compaction of a main file that its scans reach the end of: nothing;
\* or the main file and the log, between clearing the main file and rewriting it
\* (kv_db_compact_impl); or, in a compaction that finds all slots used, values of
\* keys that neither the log nor the main file holds, which fall back to those of
\* the older levels or to none.
CrashLossBounded ==
  [][isOpen /\ ~isOpen' /\ gap = 0 =>
       \/ Contents' = Contents
       \/ main' = <<>> /\ gap' > 0 /\ gen' = gen /\ Frozen' = Frozen
       \/ /\ sstCount = SstSlots
          /\ \A k \in Keys :
               \/ Contents'[k] = Contents[k]
               \/ k \notin KeysOf(main \o wal) /\ Contents'[k] \in OlderVals(k)]_vars
=============================================================================
