# A TLA+ verification of the X language runtime

This directory holds TLA+ models of the stateful and the concurrent parts of
the repository (paths below are relative to its root), the TLC configurations
that check them, and proofs checked by TLAPS. `PROJECT.json` lists components,
runs, findings, hazards, theorems and, for each definition, the lines it models.

## 1. The system

The repository is a self-hosting compiler for the X language and its standard
library. The compiler (`compiler/src`, in X) is a sequential pipeline: lexer,
parser, type checker, generators for C and machine code, driver, language
server. The library (`std/`, in X) runs on C "seeds" (`compiler/seeds/*.c`)
that wrap threads, mutexes, condition variables, atomics, mmap and I/O. State
that lives across calls, and concurrency, are in the library:

| component | state | operations | interacts with | what is hard |
|---|---|---|---|---|
| KV store, `std/db/kv/kv.x` | mmapped log, main file, three SST files; memtable | open, close, put, append_ts, get, wal_flush, compact, sync | mmap glue | records move through five files; index rebuilt in four places; failures half way |
| channels, `runtime_channel_glue.from_x.c` | ring, closed flag, two condition variables | send, recv, try_send, try_recv, close, free | threads | wakeups, close against blocked callers, growth |
| select, same file | position in the list of cases | select_recv/send/mixed, blocking and try | channels | looks at channels one by one, shares their condition variables |
| scheduler, `runtime_scheduler_glue.from_x.c` | one ready ring per worker, I/O wait list, seeds, stack of contexts | submit, drain, io_wake, spawn, run | task groups, context | reservation before write, rollback of the tail, dropped tasks, bounded idling |
| task groups, `std/task/task.x` | pending count, cancelled flag, context | spawn, join, cancel, supervise_retry | scheduler, context | joins drain the global queues |
| context, `std/context/context.x` | tree of nodes | with_cancel, with_deadline, cancel, free | scheduler, task groups | cancellation of subtrees, lifetime of parents |
| futures, `std/async/future.x` | state, value | poll, complete | scheduler | |
| cache and pool, `std/cache/cache.x` | LRU list threaded through an array of nodes, deadlines; slots of pooled resources | get, put, remove, purge; add, acquire, release, mark_unhealthy | clock | links of nodes that are moved, freed and used again; expiry; a count kept beside the flags it counts |
| TCP pool, `std/net/tcp_pool.x` | slots | acquire, release, close | | reuse of dead connections |
| queues, `std/queue/mod.x` | ring, mutex | push, pop at both ends | locks | growth |
| locks, `runtime_sync_os.from_x.c`, and their diagnostics, `runtime_sync_lock_diag_tls.from_x.c` | lock order ids, per-thread lock stack | lock, try_lock, unlock, condvar wait and signal; enable, set_id, clear | all | lock order, waits the diagnostics do not see |

Correctness, component by component: the KV store is a dictionary (the latest
value of a key, whatever was flushed, compacted, closed and reopened); a channel
is a first-in first-out queue, nobody sleeps beside what he waits for, and close
releases everybody; a select answers truthfully and does not hang; the scheduler
runs each submitted task once and loses none; a join waits for its own group; a
cancelled context cancels its subtree; with the lock diagnostics on, threads do
not deadlock on ranked mutexes; the cache is a list of entries in the order of their
use, and purges leave nothing expired.

The hazards that these properties are for are listed in `PROJECT.json`, at the
lines where they bite.

## 2. Modules

| module | extends / instantiates | models |
|---|---|---|
| `KvDict` | | abstract: a dictionary |
| `KvStore` | instantiates `KvDict` | `kv.x` |
| `MCKvStore` | `KvStore` | instances |
| `KvStoreProofs`, `KvDictProofs` | `KvStore`, `KvCrash` | theorems |
| `KvCrash` | `KvStore` | the same when the process dies inside a flush or a compaction |
| `MCKvCrash` | `KvCrash`, `MCKvStore` | instance |
| `ChannelQueue` | | abstract: a set of queues |
| `Channel` | instantiates `ChannelQueue` | channels |
| `ChannelSelect` | `Channel` | select, composed with the callers of `Channel` |
| `MCChannel`, `MCSelect` | `Channel`, `ChannelSelect` | instances |
| `ChannelProofs` | `ChannelSelect` | theorems about channels and selects |
| `TaskQueue` | | abstract: a bounded queue of tasks for each worker |
| `ReadyRing` | instantiates `TaskQueue` | the scheduler's ready rings, one memory access at a time |
| `Scheduler` | | scheduler, task groups and contexts, composed |
| `MCRing`, `MCScheduler` | `ReadyRing`, `Scheduler` | instances |
| `RingProofs`, `SchedulerProofs` | `ReadyRing`, `Scheduler` | theorems |
| `LockOrder` | | mutexes, condition variables and lock diagnostics |
| `MCLockOrder` | `LockOrder` | instance |
| `LockOrderProofs` | `LockOrder` | theorems |
| `LruList` | | abstract: a list of entries, the one used last first |
| `LruCache` | instantiates `LruList` | the LRU cache of `cache.x` |
| `MCLruCache` | `LruCache` | instance |
| `LruProofs` | `LruCache` | theorems |

Some definitions are marked "Mutant": plausible mistakes in the definition that
follows. Each property of a passing run is broken by one of them (`mutants` in
`PROJECT.json`); they are used by nothing else.

### KvStore

State: `wal` and `main` are the records that scans of the log and the main file
reach; `gap` counts the positions below the main file's `write_pos` behind bytes a
crash has left zeroed, which no scan reaches (0 without crashes); `sst` is what is
physically in each SST file and `sstPos` its `write_pos`; `sstCount` and `gen` are in
the main file's header; `mapped` and `mt` (the memtable) are volatile.

Actions: `Open`, `Close`, `Put`/`PutFull`, `Get` (a miss that a scan resolves
moves the memtable entry), `WalFlush`, `FlushOverrun`, and the ways
`kv_db_compact_impl` can end: `CompactStopsEarly`, `CompactNothing` (only with a gap),
`CompactMmapFails`, `CompactToNewLevel`, `CompactToFullLevels`, `CompactMergeFails`.

Abstractions:

- The store has no lock and is documented for one thread: an operation is an action.
- Records have length one, so capacities count records. Values have a length that
  only the buffer passed to `get` is compared with. Timestamps are stored and
  never compared, and are left out, and so are `record_count` and
  `frozen_compact_gen`, which nothing reads.
- A key is a model value; `KeyClass` says which keys share hash and length, which
  is all the memtable sees of a key it does not compare byte by byte.
- Bytes past the log's `write_pos` are not kept. `MtNoDanglingLog` is why that is
  sound: no memtable entry refers to them. Bytes past an SST file's `write_pos`
  are kept, because entries can refer to them.
- Whether the last msync of an operation succeeds changes only its answer and is
  not an action; where it leads to an early return it is.
- A flush compares the record's offset in the log with the capacity, never the place
  it copies to (`kv.x:983`). `FlushOverrun` is a flush whose copies pass the end of the
  main file: up to and with the first record behind it, and the `write_pos` stored
  then. What that record overwrites belongs to others, so the behaviour is undefined
  from there (`Overrun`) and the model stops: these runs do not check for deadlock,
  and the properties about answers of `get` do not speak of that state.
- `Index` says in closed form what clearing the memtable and putting the records
  of the files into it gives. It is not recursive, so proofs can use it. That it is
  the loop (`PutAll`) is the property `IndexIsFold`: the run `kv_collide` checks it,
  with a table that overflows, and it is a theorem.

### KvCrash

The files are shared mappings, so a process that dies leaves in them what it has
stored, in program order. `Crash` replaces a flush or a compaction by one that stops
after some store of it; a memset, a memcpy and a header's `write_pos` are one store
each. The handle is gone (`Die`) and the next `Open` rebuilds the index from what is
there. A crash elsewhere is `Close`: put stores `write_pos` last.

| where | `KvCrash` | what is left |
|---|---|---|
| in the loop of a flush | `CrashInFlush(j)` | `j` records are in the main file and in the log: nothing lost |
| between clearing the main file and the copy back to it (`kv.x:1049`, `1050`) | `CrashInRewrite(<<>>)` | the main file and the log are lost, and the main file's `write_pos` still counts the zeroed bytes: `gap` |
| after that copy and before its `write_pos` (1052) | `CrashInRewrite(CompactedMain)` | nothing lost, but a gap behind the records |
| in a freeze (738-745) | `FreezePrefixes` | nothing lost |
| after it cleared the main file (746, 747) | `FreezePrefixes`, the last one | nothing lost, but a gap |
| in a merge, after its target is cleared (685) | `MergePrefixes`, first | the target reads as empty: its keys fall back to the older level, or to none |
| after the copy to the target, before its `write_pos` (688) | second | what the old `write_pos` of the target does not reach is cut off |
| after that, and after the source is cleared (689, 690) | third and fourth | nothing lost |

A crash that leaves a gap costs more than the table says: every record flushed to
the main file later lies behind the zeroed bytes, is out of reach of the memtable's
rebuild and of scans, and is lost, until a compaction resets `write_pos`.
`CrashLossBounded` therefore speaks of crashes of a main file without a gap.

The power failing is not modelled: pages are then written back in any order, and
only sync and the msyncs at the end of an operation order them.

### Channel

State: per channel the ring (`buf`, `cap`, `length`, `head`), whether it is
closed, and for each condition variable the threads asleep on it and those it
has woken that do not yet have the mutex again; per thread the value a blocked
sender holds, and the answer of its last call.

A section under the mutex is one action: `Send`, `TrySend`, `Recv`, `TryRecv`,
`Close`, and `SendResume`/`RecvResume` for the loop after a wakeup. A signal
wakes any one sleeper; `Spurious` wakes one for nothing, as POSIX allows. What
a blocked sender does on waking is what the code does: it looks at `closed` only
while the channel is full.

Growth (`GrowAndPut`) moves cells one by one inside the one block, as
`channel_unbounded_grow` does, so a wrapped ring is damaged as in the code:
`GrowKeepsFront` says what is left of it. A
failed realloc is a refused send: the caller of an open channel is told
`CHAN_ERR_CLOSED`.

Left out: null handles, `channel_i32_free_c` (freeing a channel in use is
undefined) and `channel_i32_is_closed_c` (it reads one flag).

### ChannelSelect

A selector's position is a phase (`try`, `live`, `wait`, `asleep`) and a case.
Each look at a channel is an action of its own, since each takes that channel's
mutex: `SelTry`, `SelLive`, `SelWait`, `SelWake`. `Timeout` ends a timed wait.
The functions for two channels are the general ones with two cases; the mixed
one that skips the second look when the first case is live has the same
outcomes. A polling select (`Pollers`) answers `SELECT_ERR_PENDING` where a
blocking one goes on to wait.

### ReadyRing

`head` and `tail` count modulo `Wrap` (2^32), a slot keeps its task until it is
written again, and each access is an action: a submit reserves (`SubmitTo`,
`TaskSuspends`), compares (`Check`), and rolls back (`Rollback`) or writes
(`Write`); a drain loads (`Look`), reads the slot (`ReadSlot`), advances
(`Advance`) and runs. `Contents` is the refinement mapping: reservations that will
be written count as queued, those that will be rolled back do not.

A task that runs may submit to the ring it came from (`TaskSubmits`), and fill it; if
it then suspends, it is dropped (`Rollback` of the worker, `glue:895`). `TaskSubmits`
is one action, as nobody else is at that ring.

The ring is correct only if no other thread submits to it while it is drained: the
tail is advanced before the slot is written, so a drain in between runs the task the
slot held a lap earlier, and a refusal may be without cause. Nothing in
`xlang_async_task_submit_to` or the drain enforces this. The callers do
(`bench/async_scheduler_mpsc.c`, `async_scheduler_workers.c`): they join the threads
that submit before they drain. `MaySubmit` and `MayDrain` are this assumption about
callers, and `RingRefined` and `RefusedOnlyWhenFull` say nothing of a drain that
overlaps another thread's submit. The accesses are sequentially consistent in the
model; the joins order them.

### Scheduler

One thread runs the program and all drains. State: the ready queue of each worker
(a queue, by `RingRefined`), the wait list, seeds, the stack of bound contexts, the
tree of contexts (`above`), the groups, and the drain under way (whose it is, the
queue it is at, its sums and its count of rounds without progress). User code acts
when no drain runs, or from inside the task that runs: spawns, submits, cancels,
wakes. A drain goes task by task (`RunTask`; then `TaskDone`, `TaskYields` or
`TaskAwaitsIo`), queue by queue (`NextQueue`), round by round (`RoundEnds`, then
`PollWakes`, `PollPeeks` or `PollEmpty`), and its end does what its caller does
with the total (`EndDrain`): a join, a join set's join, the next attempt of a
supervised retry. The result of the task that completed last in a queue (`drain.last`)
is what `xlang_async_drain_queue` returns: if it is -3 the whole drain ends there as
cancelled (`DrainAborts`, lines 904 and 952), with the later queues untouched.

A task is a frame with `Awaits` suspension points and a `Result`. The variables
under "History" only serve the properties.

Left out: deadlines (`ctx_deadline_ns_c` answers from them, cancellation does not
look at them), context values, frees, joins called from inside a task, the trace,
CPU affinity, and the `wake_all` of systems other than Linux. A poll delivers one
completion at a time. `std/io/stubs.x` polls nothing: then only `PollEmpty` happens.

### LockOrder

State: whether the diagnostics are on, the id of each mutex that has one, the
stack of each thread, where each thread is (running, or blocked in a lock, a wait
or the return from one), and who owns each mutex. A call that the diagnostics
refuse is no step. `Lock` is the call up to `pthread_mutex_lock`, after the check;
`Locked` its return, with the push: other threads act in between.

Callers are assumed to unlock what they own, and to configure (enable, disable,
clear, give an id) only mutexes that are not in use. Read-write locks have no
diagnostics. The last error, the counters and the snapshot text are left out.

### LruCache

State: `c` is the `LruCacheMem` of the code (nodes with their links, `count`, `head`,
`tail`), `now` the clock, `answer` what the last get found, `at` and `since` the
position of a purge and when it began. `Touch`, `RemoveNode`, `Evict`, `Insert` and
`Find` are the helpers of the code; `Get`, `Put` and `Remove` are calls, each one
action, as the cache has no lock and is documented for one thread. A purge is one
action for each node (`PurgeLooks`), because it reads the clock each time, and the
clock may move in between (`Tick`).

Abstractions: `NoVal` stands for the zeros in a freed node, which nothing reads while
`used` is 0; nodes start as calloc leaves them (`Zeroed`), with links that are 0 and
not -1. `Half` is 2^63: a deadline that reaches it wraps. The loop around
`lru_evict_lru` is one eviction, since `count` never exceeds the capacity (`TypeOK`).
Left out: the counters of hits, misses and evictions, which only `stats` reads, null
handles, and free.

## 3. Runs

Passing:

| run | checks | instance, and why it is enough |
|---|---|---|
| `kv_dict` | `TypeOK`, `MergeKeepsNewest`, `DictRefined` | two keys, two values, files of two records, a log of one: overwriting in one file and across files, before and after each flush and reopening; flushes that overrun the main file; four compactions, finished or not, so that the fourth finds three used levels, merges them and freezes over the result |
| `kv_levels` | `GetNoOlderThanFrozen`, `MtNoDanglingLog`, `LevelsDeduped`, `CrashLossBounded` | the same with crashes after every store of a flush and a compaction, and the gaps they leave; the log of one record only limits how much is put between flushes; an old value in a level, two in different levels, and a newer one in the main file or the log are there for `get` to confuse |
| `kv_collide` | `MtHitFresh`, `MtNoDanglingLog`, `IndexIsFold` | three keys, two of one class, a memtable of one entry: collision and overflow of the table together |
| `channel` | `TypeOK`, `NoLostWakeup`, `NoneAsleepOnClosed`, `QueueRefined`, `CloseReleases`, `SleepersServed` | three threads, two cells, two values: a signalled thread, one that overtakes it and a third asleep; the ring wraps; no symmetry, for liveness |
| `channel_unbounded` | `NoLostWakeup`, `GrowKeepsFront` | one cell that grows to two, four and eight, or fails to: rings of two and four cells grow from every head, wrapped or not |
| `select` | `NoneAsleepOnClosed`, `AllClosedIsTrue`, `SelectReleased`, `SelectNotStuck`, `QueueRefined` | two channels of one cell; a blocking select with a receive and a send case, a polling one with two receive cases, a caller |
| `ready_ring` | `TypeOK`, `RefusedOnlyWhenFull`, `RingRefined` | three producers, so that two reservations past a full ring are rolled back in either order beside a third submit; tasks that submit and suspend while the worker drains; three slots, counters that wrap at nine |
| `scheduler` | `TypeOK`, `Conserved`, `LeakCheckSound`, `SeedsMatch`, `DrainEnds` | one or two workers, three tasks, a group and a join set, one context below the root; room for two tasks a queue, one on the wait list, two seeds, one bound context, two rounds: every limit is reached |
| `lru_cache` | `TypeOK`, `Linked`, `PurgeComplete`, `ListRefined` | three keys and two entries, so that puts evict; three nodes, so that freed ones are used again before fresh ones; no deadline, one and two ticks, a clock that moves three times, also inside a purge |
| `lock_order` | `TypeOK`, `StackTrue`, `NoDeadlock` | three threads and mutexes, ids -1, 1, 2, 3 and none, stacks of two: cycles of two and three, a full stack, waits with the outer of two mutexes |

Bounds: `MaxGen` bounds compactions, the ones that crash included; `MaxCap` the size
realloc grants; `StallMax` stands for 64, `MaxAttempts` is the caller's. In
`Scheduler` each task is spawned once (`unused`), `Solo` and `Members` say by whom,
and contexts are made before the first spawn (`Setup`). The others are the system's
own capacities. `MaxNow` bounds the clock of `LruCache`; `Half`, which stands for
2^63, is out of its reach. `InitCap` stands for the caller's capacity or for
`UNBOUNDED_INIT_CAP`.

Fairness: `FairSpec` of `Channel` assumes that a woken thread gets the mutex in the
end; the mutex is free between any two actions, and no thread holds it while it
blocks. `SFairSpec` assumes in addition that a select that is not asleep goes on,
and that a timed wait ends. Nothing is assumed of callers: no thread ever has to
send, receive or close. `FairSpec` of `Scheduler` says that the one thread goes on
and that the body of a task reaches an await or its end. Nothing is assumed of what
polls report. A poll that reports a completion nobody consumes (`PollPeeks`) takes the
branch at line 970, which counts the round but never compares it with 64, although
its comment asks for a bounded exit ("需有界退出"); if every poll does, the drain
goes on for ever. `DrainEnds` says that this is the only way: a drain ends, or
infinitely many polls are of this kind (`drain.polled` tells them from empty polls).

Violations, each a disagreement of code and documentation (`findings`):

| run | what happens |
|---|---|
| `kv_stale_get` | after compact, put, flush, `get` returns the frozen old value: SST levels are indexed after the main file. `GetNoOlderThanFrozen` is how far it goes: no value older than the last frozen one |
| `select_stranded` | a select takes the signal of a send and returns with another channel's value; a receiver sleeps on beside the value |

The models also contain these behaviours of the code, which no run is about:

- A `get` whose buffer is too small for the latest value goes on to the scan, which
  skips what does not fit and answers an older, shorter value (`kv.x:935`). The runs'
  buffers hold every value (`OutCaps`); `StoreIsDictionary` is about any, and shows that
  such a get leaves the contents alone.
- A flush into a main file that is not empty may write past its end (`kv.x:983`
  compares the offset in the log only): `FlushOverrun`.
- With all three levels in use the freeze merges 0 into 1 and 1 into 2, then takes slot 2
  for the main file and copies it over the merged records (`kv.x:742`): the fourth
  compaction loses what only the levels held, where `std/db/README.md:19` promises a
  deduplicating merge ("槽满时 **去重合并** 级联"). `DictRefined` says so: `DictForget`
  of the keys that neither the log nor the main file holds.
- Of two keys with equal hash and length compaction keeps one (`kv.x:281`).
- Compaction ignores that its flush stopped early, and empties the log
  (`kv.x:1025`). This takes a log larger than the main file: an open created the
  main file and failed to map the log, and a later open asked for more.
- A sender asleep on a full channel that is closed and then emptied puts its value
  in and succeeds, after a receiver was told that the channel is closed and empty:
  the loop looks at `closed` only while the channel is full. `ChannelQueue` allows it.
- An unbounded channel that grows while its values wrap around the end of the ring
  moves them, within one block, over cells that are still to be moved
  (`runtime_channel_glue.from_x.c:349`): the values that have wrapped are replaced by
  copies of the first ones, although line 339 says that growing arranges them
  contiguously ("整理为连续布局"). `GrowKeepsFront` states the result exactly.
- A poll that reports completions for ever keeps a drain going for ever (see above).
- A running task that fills its ring and suspends is dropped (line 895).
- A queue whose last completed task returned -3 ends the drain of all queues as if its
  context were cancelled (lines 904, 952), with tasks left in the later ones.
- `join_set_join_c` takes the code of a cancelled drain (-3) for a total and marks
  the set joined with its tasks still queued, so its leak check says nothing
  (`task.x:379`). A group whose results add up to -3 is told it was cancelled (248).
- A join's total is that of all tasks the drain ran, other groups' included.
- Joins and `submit_with_ctx` bind a context and never unbind it; the ninth bind is
  ignored. Once a context left bound is cancelled, every later spawn and drain is
  refused until the caller unbinds it.
- A spawn that is refused for want of room leaves its seed behind, the ninth seed is
  dropped, and a retry of a frame that was left suspended does not take its seed:
  later tasks start with another's argument. With several workers the order of
  starts is not that of spawns, so seeds are mixed anyway. `SeedsMatch` is what is left.
- A supervised retry and `xlang_async_run_i32` reset the queues with other groups'
  tasks in them, which are gone.
- A drain that gives up after 64 rounds counts as a join; its tasks stay
  (`abandoned`), and run in the next drain.
- What the lock diagnostics do not see: anything while they are off; the 17th mutex
  of a thread, whose unlock they then refuse; the mutex taken back after a wait,
  under one locked later; ids that are zero or negative. Switching them on, or
  clearing them, while mutexes are held makes the unlocks fail, and a mutex at the
  address of a freed one inherits its id; `LockOrder` excludes the former.
- A put into the LRU cache with a `ttl_ns` near the largest i64 gets a negative deadline
  (`cache.x:290`): a get refuses and removes the entry at once, while a purge, which
  looks only at positive deadlines (343), leaves it. With `Half = 4` and a time to live
  of 3, TLC finds `PurgeComplete` violated; `TtlsFit` excludes it.

Two sentences of `std/标准库api命名规范.md` are inexact and not runs: the
generation does not increase when the main file is empty (line 1017), and
`sst_level_count` stays at three after the third compaction (line 1019).

## 4. Theorems

All proofs are checked by TLAPS, from the constant assumptions `KvConstants`,
`ChannelConstants`, `SelectConstants`, `RingConstants`, `SchedulerConstants`,
`LockConstants` and `LruConstants`, which TLC evaluates in every run of their modules.
They say what the constants are, not how large. Three deserve a word: `Wrap` is a
multiple of `Cap` (2^32 and 64; without it the slot of a position would jump when a
counter wraps) and larger than `Cap` and the number of threads together; the answer
"closed" of a select is not a value; and no group is called "run" or "retry".

- `KvStoreProofs!TypeCorrect`: `Spec => []TypeOK` for any keys, values, capacities
  and number of compactions. It says what the code keeps, no more: the log and the
  levels stay within their files, and the main file's `write_pos` passes its capacity
  by at most one record, at a flush that overruns it, after which nothing follows
  (`OverrunTypes`). `TypeOK` is inductive; the work is in the lemmas about `Index` (it
  is a sequence of at most `MtCap` entries of the given ones), the merge and the freeze.
- `KvStoreProofs!MemtableNeverDangles`: `Spec => []MtNoDanglingLog`, for any keys,
  classes and capacities. The invariant with `TypeOK` is `AllSound`: an entry that
  names the log has an offset within it and the class of the record there. A put
  appends, so old offsets keep their records; a get adds the entry of a record that is
  read; every step that empties or shortens the log replaces the memtable by
  an index of other files (`IndexSound`: an index has only entries it was given).
- `KvStoreProofs!FrozenLevelsDeduped`: `Spec => []LevelsDeduped`. The invariant is
  about the levels that `sst_count` counts and no others (`LevelsDistinct`): a slot
  becomes one of them when it is frozen, with records that a compaction wrote. A freeze and
  a merge write one record per memtable entry, and a memtable has one entry per class
  (`WrittenDistinct`).
- `KvStoreProofs!IndexIsTheLoop`: `Spec => []IndexIsFold`, so that what the other
  theorems show of `Index` they show of the code's loop. `IndexAppend`: the index of one
  entry more is one `MtPut` into the index of the others (a new class with room, a new
  class without, a class it knows). The fold's function exists, as the indexes of the
  prefixes are one, and is unique, as two would differ at a least argument: it takes no
  induction beyond the well-foundedness of the naturals.
- `KvDictProofs!StoreIsDictionary`: `Spec => DictRefined /\ Dict!DictSpec`, for any
  number of compactions, assuming that no two keys share a class (`KeysApart`) and
  `Sized`: all keys fit the memtable and a level, and the log is no larger than the main
  file. Each assumption is needed: without it a colliding key or one without a memtable
  entry is not compacted, a merge drops what does not fit, or a partly flushed log is
  emptied (section 3). The refinement mapping is `Contents`, the last value of each key
  in the levels, the main file and the log, in this order. `DictRefined` also says which
  steps are which (`StepsAsDict`): to `KvDict` alone, a compaction that brings an old
  value back would look like a put, and any flush might forget. The central lemmas: a
  compaction holds exactly the last record of each class of the main file
  (`CompactedVals`), a freeze leaves the slots below and the main file (`FrozenLeaves`),
  and the two merges leave nothing below slot 2 (`StageVals`), which is what
  `FullLevelsForget` needs to say that exactly the keys of the log and the main file
  are left.
- `KvDictProofs!MemtableHitsAreFresh`: `Spec => []MtHitFresh`, with any classes
  and a table of any size. With `AllSound` the invariant is `AllFresh`: after an entry
  of the log no record of its key follows there, and after one of the main file
  none follows in it or in the log, provided the record at the entry is of its class
  (a slot of the main file may have been rewritten). After an overrun nothing is claimed
  (`FreshInv`). Two assumptions: `BuffersFit`, since a
  `get` whose buffer is too small for the latest value indexes an older one (section
  3), and `LogFits` (`WalCap <= Cap`), since a flush that stops early drops records the
  entries counted on.
- `KvDictProofs!GetsAreNoOlderThanFrozen`: `Spec => []GetNoOlderThanFrozen`: in an open
  store `get` answers the latest value of a key or the latest frozen one, never an older
  one, whether a memtable entry answers or a scan does, with any classes and a table of
  any size. The invariant, `HitsInv`, says it of the entries: the record an entry names
  in a level is the last frozen one of its key (`LevelHits`), the one it names in the log
  or the main file is the last of all (`MemtableHitsAreFresh`). The scan's
  entries stand one for one for the records of `Log` (`LevelsDenote`), so its last
  match is the latest value (`ScanIsLatest`). Assumed are `BuffersFit` and `LogFits`, as
  above; the property itself stops at `SstSlots` compactions, since the next one
  overwrites a level (section 3).
- `KvDictProofs!MergesKeepNewest`: `Spec => []MergeKeepsNewest`, where the property
  itself says for which levels: the keys of both fit the file and the memtable (the table
  `kv_sst_merge_dedup` works in has `KV_MT_CAP` entries, `kv.x:35`, `288`), and no two
  share a class. It follows from `TypeOK`; the work is in `IndexKeeps`: an
  index of all records of the pair has the last record of every key.
- `KvDictProofs!CrashTypeCorrect`, `CrashedMemtableNeverDangles`,
  `CrashedLevelsDeduped` and `CrashedMergesKeepNewest`: the invariants above for
  `CrashSpec`, where the process may die after any store of a flush or a compaction,
  between a memset and the `write_pos` that goes with it too, again for any keys,
  classes and capacities. Each prefix that `CompactPrefixes` enumerates is a copy of the
  levels with one slot half done (`PrefixCases`); the half-frozen slot is not counted,
  and what the scans reach of a merge's target is empty or the start of the merged
  records, which hold one record of a class (`MergePrefixIs`, `PrefixesOK`).
- `KvDictProofs!CrashLossIsBounded`: `CrashSpec => CrashLossBounded`, for any number of
  crashes, under `KeysApart` and `Sized`. A record may be in two files, or in two
  levels; what the proof shows is that the copy read later never hides a newer one: the
  part of the log a flush has copied is followed by the whole log (`CopiedKeeps`), a
  half-frozen slot by the main file with the same records (`FreezePrefixVal`). A merge
  cut short leaves a key its value or that of the levels below the target
  (`MergePrefixVal`), which matters only for keys that neither the main file nor the log
  holds (`CompactCrashLoses`).
- `ChannelProofs!WakeupsAreNotLost` and `ClosedChannelsAreAwake`: for any number of
  threads and channels, bounded or not. `NoLostWakeup` is not inductive: a signal
  must add a thread to those woken. `WakeInv` adds that nobody is both asleep and
  woken on one condition variable, that nobody sleeps on a closed channel, and
  that nobody waits to send to an unbounded one. The step lemmas count: each
  operation changes `length` by at most one and the number of woken threads
  accordingly.
- `ChannelProofs!ChannelTypeCorrect`, `GrowingKeepsFront` and
  `BoundedIsQueue`. The first two hold of all channels. Their invariant, `QueueInv`,
  is `TypeOK` with the fact that a waiting sender holds a value of `Vals`. `MovedCells`
  is a recursive function on the naturals; the lemma `Induction` gives induction over
  a set of numbers from their well-foundedness, and with it `MovesExist` (the
  function is what its definition says), `MovedIsLast` (`MovedCells`
  is that function) and `MovesKeep`: after `n` moves cell `j < n` has what was in cell
  `head + j % (cap - head)`, since a value of the front is read where it was and any
  other where a copy of one has been put (`MoveOne`). So `GrowingKeepsFront` speaks of
  rings that start anywhere.
  Two lemmas about rings (`RingPut`, `RingTake`) say that storing in cell
  `(head + length) % cap` appends and that advancing `head` takes the tail: bounded
  channels implement `ChannelQueue`. There `Unbounded = {}` is assumed, since growth
  may lose values (section 3).
- `ChannelProofs!AllClosedIsTold`, `SelectTypeCorrect`, `SelectedAreQueues` and
  `SelectsAreAwake`: the same and more for `SSpec`, selects beside callers.
  `AllClosedIsTrue` is not inductive: a select locks one channel at a time. `SelInv`
  adds that while the second phase has seen no live case, the channels of the cases it
  has passed are closed; they stay so, as nothing opens a channel again. A select
  asleep on a full channel records no value with the channel, so `QueueInv` takes the
  threads that do (`Callers`) as a parameter.
- `RingProofs!RingTypeCorrect`, `RefusalIsTrue` and `RingImplementsQueue`: for any
  number of workers, submitting threads and tasks, and under the assumption about
  callers that `MaySubmit` and `MayDrain` are (section 2).
  `IInv` counts from the head, so that wrapping does not matter: either no
  reservation is refused and at most `Cap - 1` are taken, or the tail is `Cap - 1` plus
  the number of refused reservations past the head (`Counted`). Hence a rollback, which
  just subtracts one, takes back a refused reservation, whoever's it was. A reservation
  that fits is below the tail and no one else's (`Reserved`), and nobody but the task
  that runs submits to a ring that is drained (`Phases`). Positions less than `Cap` apart have different slots
  (`SlotsApart`). In the refinement the reservation that fits is the enqueue, though
  its slot is written later and in any order; `Advance` is the start of a task; the rest
  are stutters.
- `SchedulerProofs!SchedulerTypeCorrect`, `TasksConserved`, `LeakCheckIsSound` and
  `SeedsAreTheirs`: for any tasks, groups, contexts and sizes. `Conserved` counts; its
  inductive form is `PlaceInv`: no two places hold the same task (`Apart`), the tasks
  in some place are the accepted ones (`Placed`), a task that was never submitted is
  nowhere (`Fresh`). The many actions are first reduced to a few kinds by what they do
  to the tasks (`StepKind`: accept, wake, restart, run, end, suspend), each proved
  once; `DrainKind` does the same for the drain under way. `LeakCheckSound` adds that a
  drain that ends with tasks left marks them abandoned. `SeedsMatch` needs
  `SeedsInOrder`: the seeds not taken yet are, in the same order, those of the tasks in the
  queue that have not started; a task between an await and its wake has started, so
  the order in which waits end does not matter.
- `LockOrderProofs!LockTypeCorrect`, `StacksTellTheTruth` and
  `DiagnosticsPreventDeadlock`: for any number of threads, mutexes and ids, and
  stacks and tables of any size. `NoDeadlock` is about a state; what makes it so is
  an invariant of each thread alone (`ThreadInv`): its stack records what it owns or
  gave away (`Recorded`), the positive ids rise towards its top (`Rising`), and the
  id of the mutex it is blocked for is above them all (`Blocked`, `Above`). If `t`
  waits for a mutex of `u` and `u` is blocked, then `u` waits for a larger id
  (`WaitsForLarger`); a set of threads that wait for each other would have no
  largest id, against the well-foundedness of the naturals.
- `LruProofs!LruTypeCorrect`, `LinksAgree` and `CacheIsLruList`: for any keys, values,
  times to live, nodes and capacity. `TypeOK` is not inductive, nor is it clear that
  `count` counts: that needs the list. The invariant, `LInv`, says that some order of
  nodes is a `Chain`: without repetition, the nodes in use and no others, as many as
  `count`, from `head` to `tail` along `next` and back along `prev`. Each helper maps a
  chain to a chain and says which: taking out a node removes its place (`RemoveChain`),
  a touch moves it to the front (`TouchChain`), a put pushes a new one (`InsertChain`).
  The links determine the order (`ChainUnique`), so `Order` in the refinement mapping
  is the order the lemmas speak of, and each call is the step of `LruList` of that
  name; a purge's look is an `Expire` or a stutter. `CacheIsLruList` assumes `TtlsFit`:
  no deadline reaches 2^63; without it an entry's deadline is not `now + ttl`.
- `LruProofs!PurgesAreComplete`, with the same assumption, which is needed (section 3).
  The invariant adds to `LInv` that no entry has a negative deadline (`InTime`): a purge
  passes over those that get would refuse.

Only model-checked: everything about liveness (`CloseReleases`, `SleepersServed`,
`SelectReleased`, `SelectNotStuck`, `DrainEnds`): the prover has neither fairness nor
ENABLED. Every other property of a passing run is a theorem.

## 5. Not modelled, and the plan

Not modelled: the compiler and language server, which are most of the repository
(the C seeds of the parser, type checker, code generator and pipeline alone are
over 100 000 lines, generated from the X sources). They are sequential functions
on programs: their correctness is about unbounded trees and text, which neither
TLC nor this prover, which has no induction over trees and text, reaches. Nor are the pure
library functions (strings, math, encodings), bindings to C libraries, tests, tools
and editors. The facades (`std/db/kv/mod.x`, `std/channel/mod.x`) keep no state.

Of the parts with state, these are left:

1. `Future` on `Scheduler` (a wait drains a bounded number of rounds), deadlines and
   frees of contexts, joins inside tasks.
2. The object pool of `cache.x`, `TcpPool`, `SyncQueue` as a refinement of a sequence.
3. Theorems about the parts above, once they are modelled.
