------------------------------ MODULE Scheduler ------------------------------
(***************************************************************************)
(* The async runtime on one thread: the scheduler's ready queues, I/O wait *)
(* list, argument seeds and bound contexts                                 *)
(* (src/compiler/seeds/runtime_scheduler_glue.from_x.c), the task groups   *)
(* that spawn and join on it (src/std/task/task.x), and the tree of        *)
(* contexts that cancels both (src/std/context/context.x).                 *)
(*                                                                         *)
(* A ready ring is a queue here, which ReadyRing justifies.  User code is  *)
(* the program, or the task that runs: it acts between any two steps of    *)
(* its own, and a task does so in the middle of a drain.                   *)
(***************************************************************************)
EXTENDS Integers, Sequences, FiniteSets

CONSTANTS
  Tasks, None,
  Awaits, Result,  \* of each task: its suspension points, what it returns
  Groups,
  JoinSets,        \* the groups that are join sets
  GroupCap,
  Solo, Members,   \* bounds: the tasks used outside groups, and those of each group
  Ctxs, Root,      \* contexts; the background context
  MaxWorkers, Room, WaitCap, SeedMax, CtxSlots, StallMax,
  MaxAttempts      \* of task_supervise_retry_c

ASSUME SchedulerConstants ==
  /\ Awaits \in [Tasks -> Nat] /\ Result \in [Tasks -> Int]
  /\ Solo \subseteq Tasks /\ Members \in [Groups -> SUBSET Tasks]
  /\ JoinSets \subseteq Groups /\ Root \in Ctxs
  /\ None \notin Tasks \cup Groups \cup Ctxs
  /\ "run" \notin Groups /\ "retry" \notin Groups  \* the other callers of a drain
  /\ \A n \in {MaxWorkers, Room, WaitCap, SeedMax, CtxSlots, StallMax, GroupCap} :
       n \in Nat \ {0}

VARIABLES
  n, rr,          \* number of workers; the next one to be submitted to
  ready,          \* the ready tasks of each worker
  waiting,        \* the I/O wait list, a stack
  seeds, taken,   \* seeds pushed since the last reset, and how many are used
  bound,          \* the stack of bound contexts
  above,          \* the nodes from a context to the root; {} before it exists
  cancelled,      \* the contexts with the cancelled flag
  gctx, spawned, joined,  \* of each group
  phase,          \* where each task's frame resumes
  drain, running, \* the drain under way; the task that runs
  unused,         \* bound: every task is spawned once, and again by retries
  \* History.
  owner, alive,   \* the group of a task; the tasks accepted and not finished
  given,          \* the seed a task started with
  skewed,         \* since the last reset a seed went without its task, or a task without its seed
  abandoned       \* tasks a drain left behind when it gave up

queues == <<n, rr, ready, waiting>>
seeding == <<seeds, taken, given, skewed>>
contexts == <<bound, above, cancelled>>
groups == <<gctx, spawned, joined>>
tasks == <<phase, unused, owner, alive>>
vars == <<queues, seeding, contexts, groups, tasks, drain, running, abandoned>>

\* last: what the task done last in the queue returned.  polled: the round was
\* begun by a poll that reported a completion.
Off == [by |-> None, task |-> None, attempt |-> 0, at |-> "off", w |-> 0,
        last |-> 0, batch |-> 0, sum |-> 0, stall |-> 0, polled |-> FALSE]

Init ==
  /\ n \in 1 .. MaxWorkers  \* XLANG_ASYNC_WORKERS
  /\ rr = 0 /\ ready = [w \in 0 .. n - 1 |-> <<>>] /\ waiting = <<>>
  /\ seeds = <<>> /\ taken = 0
  /\ bound = <<>> /\ cancelled = {}
  /\ above = [c \in Ctxs |-> IF c = Root THEN {Root} ELSE {}]
  /\ gctx = [g \in Groups |-> None]
  /\ spawned = [g \in Groups |-> 0] /\ joined = [g \in Groups |-> FALSE]
  /\ phase = [x \in Tasks |-> 0]
  /\ drain = Off /\ running = None
  /\ unused = Tasks /\ owner = [x \in Tasks |-> None] /\ alive = {}
  /\ given = [x \in Tasks |-> None] /\ skewed = FALSE
  /\ abandoned = {}

\* User code runs: the program, outside a drain, or a task.
UserRuns == drain = Off \/ running # None

-----------------------------------------------------------------------------
(* Contexts *)

IsCancelled(c) == above[c] \cap cancelled # {}

Top == IF bound = <<>> THEN None ELSE bound[Len(bound)]
BoundCancelled == Top # None /\ IsCancelled(Top)

GroupCancelled(g) == gctx[g] # None /\ IsCancelled(gctx[g])

\* Mutant: a stack without an end.
BoundUnchecked(c) == Append(bound, c)

Bound(c) == IF Len(bound) < CtxSlots THEN Append(bound, c) ELSE bound

\* Bound: contexts are created, and bound to groups, before the first spawn.
Setup == unused = Tasks

WithCancel(c, p) ==
  /\ Setup /\ above[c] = {} /\ above[p] # {}
  /\ above' = [above EXCEPT ![c] = {c} \cup above[p]]
  /\ UNCHANGED <<bound, cancelled, queues, seeding, groups, tasks, drain, running, abandoned>>

Cancel(c) ==
  /\ UserRuns /\ above[c] # {} /\ c \notin cancelled
  /\ cancelled' = cancelled \cup {c}
  /\ UNCHANGED <<bound, above, queues, seeding, groups, tasks, drain, running, abandoned>>

Unbind ==
  /\ drain = Off /\ bound # <<>>
  /\ bound' = SubSeq(bound, 1, Len(bound) - 1)
  /\ UNCHANGED <<above, cancelled, queues, seeding, groups, tasks, drain, running, abandoned>>

BindGroup(g, c) ==
  /\ Setup /\ gctx[g] = None /\ above[c] # {} /\ g \notin JoinSets
  /\ gctx' = [gctx EXCEPT ![g] = c]
  /\ UNCHANGED <<spawned, joined, queues, seeding, contexts, tasks, drain, running, abandoned>>

-----------------------------------------------------------------------------
(* Submitting and spawning *)

\* xlang_async_task_submit: the queue chosen by turns, and whether it has room.
HasRoom == Len(ready[rr]) < Room
NextRr == rr' = (rr + 1) % n

Submitted(x) ==
  /\ NextRr
  /\ ready' = IF HasRoom THEN [ready EXCEPT ![rr] = Append(@, x)] ELSE ready
  /\ alive' = IF HasRoom THEN alive \cup {x} ELSE alive

\* Mutant: the seed pushed last is the first to be taken.
SeedPushedFront(x) ==
  /\ seeds' = IF Len(seeds) < SeedMax THEN <<x>> \o seeds ELSE seeds
  /\ skewed' = (skewed \/ Len(seeds) = SeedMax \/ ~HasRoom)
  /\ UNCHANGED <<taken, given>>

\* xlang_async_spawn_i32 pushes the seed first, whatever becomes of the task.
SeedPushed(x) ==
  /\ seeds' = IF Len(seeds) < SeedMax THEN Append(seeds, x) ELSE seeds
  /\ skewed' = (skewed \/ Len(seeds) = SeedMax \/ ~HasRoom)
  /\ UNCHANGED <<taken, given>>

\* task_group_spawn_c, join_set_spawn_c.
GroupSpawn(g, x) ==
  /\ UserRuns /\ x \in unused
  /\ ~GroupCancelled(g) /\ spawned[g] < GroupCap /\ ~BoundCancelled
  /\ unused' = unused \ {x} /\ owner' = [owner EXCEPT ![x] = g]
  /\ SeedPushed(x) /\ Submitted(x)
  /\ spawned' = [spawned EXCEPT ![g] = IF HasRoom THEN @ + 1 ELSE @]
  /\ joined' = [joined EXCEPT ![g] = @ /\ ~HasRoom]
  /\ UNCHANGED <<n, waiting, contexts, gctx, phase, drain, running, abandoned>>

\* xlang_async_task_submit_with_ctx: binds and never unbinds; no seed.
SubmitWithCtx(x, c) ==
  /\ UserRuns /\ x \in unused /\ above[c] # {} /\ ~IsCancelled(c)
  /\ unused' = unused \ {x}
  /\ bound' = Bound(c)
  /\ Submitted(x)
  /\ skewed' = TRUE
  /\ UNCHANGED <<n, waiting, seeds, taken, given, above, cancelled, groups, phase, owner,
                 drain, running, abandoned>>

\* Mutant: the woken task stays on the wait list.
IoWakeKeeps ==
  IF waiting = <<>> THEN UNCHANGED queues
  ELSE /\ NextRr
       /\ ready' = IF HasRoom THEN [ready EXCEPT ![rr] = Append(@, waiting[Len(waiting)])] ELSE ready
       /\ UNCHANGED <<n, waiting>>

\* xlang_async_io_wake(1): the last task of the wait list, if its queue has room.
IoWake ==
  IF waiting = <<>> THEN UNCHANGED queues
  ELSE /\ NextRr
       /\ IF HasRoom
          THEN /\ ready' = [ready EXCEPT ![rr] = Append(@, waiting[Len(waiting)])]
               /\ waiting' = SubSeq(waiting, 1, Len(waiting) - 1)
          ELSE UNCHANGED <<ready, waiting>>
       /\ UNCHANGED n

UserWakes ==
  /\ UserRuns /\ waiting # <<>> /\ IoWake
  /\ UNCHANGED <<seeding, contexts, groups, tasks, drain, running, abandoned>>

-----------------------------------------------------------------------------
(* Starting a drain *)

DrainFor(g) == [Off EXCEPT !.by = g, !.at = "ring"]

\* task_group_join_c, join_set_join_c.
Join(g) ==
  /\ drain = Off /\ ~GroupCancelled(g)
  /\ IF spawned[g] = 0
     THEN /\ joined' = [joined EXCEPT ![g] = TRUE]
          /\ UNCHANGED <<bound, drain>>
     ELSE /\ bound' = IF gctx[g] = None THEN bound ELSE Bound(gctx[g])
          /\ drain' = DrainFor(g)
          /\ UNCHANGED joined
  /\ UNCHANGED <<queues, seeding, above, cancelled, gctx, spawned, tasks, running, abandoned>>

\* task_supervise_retry_c: all queues are reset, whosoever tasks are in them.
Attempt(x, k) ==
  /\ seeds' = IF BoundCancelled THEN <<>> ELSE <<x>>
  /\ taken' = 0 /\ skewed' = (phase[x] > 0)  \* a frame that resumes takes no seed
  /\ ready' = [w \in 0 .. n - 1 |-> IF w = rr /\ ~BoundCancelled THEN <<x>> ELSE <<>>]
  /\ waiting' = <<>>
  /\ rr' = IF BoundCancelled THEN rr ELSE (rr + 1) % n
  /\ alive' = IF BoundCancelled THEN {} ELSE {x}
  /\ drain' = IF BoundCancelled THEN Off
              ELSE [Off EXCEPT !.by = "retry", !.task = x, !.attempt = k, !.at = "ring"]
  /\ UNCHANGED <<n, given, contexts, groups, phase, owner>>

Retry(x) ==
  /\ drain = Off /\ x \in unused
  /\ unused' = unused \ {x}
  /\ Attempt(x, 1)
  /\ UNCHANGED <<running, abandoned>>

\* xlang_async_run_i32: the seed is pushed by the caller.
RunI32(x) ==
  /\ drain = Off /\ x \in unused
  /\ unused' = unused \ {x}
  /\ seeds' = <<x>> /\ taken' = 0 /\ skewed' = FALSE
  /\ ready' = [w \in 0 .. n - 1 |-> IF w = rr THEN <<x>> ELSE <<>>] /\ waiting' = <<>> /\ NextRr
  /\ alive' = {x}
  /\ drain' = DrainFor("run")
  /\ UNCHANGED <<n, given, contexts, groups, phase, owner, running, abandoned>>

-----------------------------------------------------------------------------
(* xlang_async_run_drain_until_idle *)

Cancelled == -3

\* Mutant: a drain that was cancelled counts as a join.
EndDrainJoins(total) ==
  /\ drain' = Off
  /\ IF drain.by \in Groups
     THEN /\ joined' = [joined EXCEPT ![drain.by] = TRUE]
          /\ spawned' = [spawned EXCEPT ![drain.by] = 0]
          /\ UNCHANGED gctx
     ELSE UNCHANGED groups
  /\ UNCHANGED <<queues, seeding, contexts, tasks>>

\* What the caller of the drain does with its total.
EndDrain(total) ==
  CASE drain.by \in Groups ->
         /\ drain' = Off
         /\ IF total = Cancelled /\ drain.by \notin JoinSets THEN UNCHANGED groups
            ELSE /\ joined' = [joined EXCEPT ![drain.by] = TRUE]
                 /\ spawned' = [spawned EXCEPT ![drain.by] = 0]
                 /\ UNCHANGED gctx
         /\ UNCHANGED <<queues, seeding, contexts, tasks>>
    [] drain.by = "retry" /\ total < 0 /\ drain.attempt < MaxAttempts ->
         Attempt(drain.task, drain.attempt + 1) /\ UNCHANGED unused
    [] OTHER -> drain' = Off /\ UNCHANGED <<queues, seeding, contexts, groups, tasks>>

Between == drain # Off /\ running = None

\* drain_queue returns Cancelled: a bound context was cancelled, or the queue is
\* empty and its last task returned that very number.  The drain ends at once,
\* with the sums of its earlier queues forgotten and the later queues untouched.
DrainAborts ==
  /\ Between /\ drain.at = "ring"
  /\ BoundCancelled \/ (ready[drain.w] = <<>> /\ drain.last = Cancelled)
  /\ EndDrain(Cancelled)
  /\ UNCHANGED <<running, abandoned>>

\* The next task runs; one that starts takes the next seed.
RunTask ==
  LET x == Head(ready[drain.w])
      takes == phase[x] = 0 /\ taken < Len(seeds)
  IN
  /\ Between /\ drain.at = "ring" /\ ~BoundCancelled /\ ready[drain.w] # <<>>
  /\ running' = x
  /\ ready' = [ready EXCEPT ![drain.w] = Tail(@)]
  /\ given' = IF takes THEN [given EXCEPT ![x] = seeds[taken + 1]] ELSE given
  /\ taken' = IF takes THEN taken + 1 ELSE taken
  /\ UNCHANGED <<n, rr, waiting, seeds, skewed, contexts, groups, tasks, drain, abandoned>>

\* A queue is drained when it is empty, or when its last task was dropped.
QueueDone ==
  /\ Between
  /\ \/ drain.at = "next"
     \/ /\ drain.at = "ring" /\ ~BoundCancelled
        /\ ready[drain.w] = <<>> /\ drain.last # Cancelled

NextQueue ==
  /\ QueueDone /\ drain.w < n - 1
  /\ drain' = [drain EXCEPT !.w = @ + 1, !.at = "ring", !.last = 0]
  /\ UNCHANGED <<queues, seeding, contexts, groups, tasks, running, abandoned>>

AllIdle == waiting = <<>> /\ \A w \in 0 .. n - 1 : ready[w] = <<>>

RoundEnds ==
  LET sum == drain.sum + drain.batch IN
  /\ QueueDone /\ drain.w = n - 1
  /\ IF AllIdle THEN EndDrain(sum)
     ELSE /\ drain' = [drain EXCEPT !.at = "poll", !.last = 0, !.sum = sum, !.polled = FALSE]
          /\ UNCHANGED <<queues, seeding, contexts, groups, tasks>>
  /\ UNCHANGED <<running, abandoned>>

NextRound(stall, polled) ==
  [drain EXCEPT !.at = "ring", !.w = 0, !.last = 0, !.batch = 0, !.stall = stall,
                !.polled = polled]

\* The stall counter matters only up to StallMax.
Stalled == IF drain.stall < StallMax THEN drain.stall + 1 ELSE StallMax

\* xlang_io_poll_async_completions reports a completion, which wakes a task,
\* or has been seen before.  The bound on rounds is not looked at.
Polled ==
  /\ Between /\ drain.at = "poll"
  /\ drain' = NextRound(IF drain.batch # 0 THEN 0 ELSE Stalled, TRUE)
  /\ UNCHANGED <<seeding, contexts, groups, tasks, running, abandoned>>
PollWakes == Polled /\ waiting # <<>> /\ IoWake
PollPeeks == Polled /\ UNCHANGED queues

\* Mutant: no bound on the rounds.
PollEmptyForever ==
  /\ Between /\ drain.at = "poll"
  /\ drain' = NextRound(Stalled, FALSE)
  /\ UNCHANGED <<queues, seeding, contexts, groups, tasks, abandoned, running>>

\* No completion within 50 ms: another round, or the drain gives up.
PollEmpty ==
  /\ Between /\ drain.at = "poll"
  /\ IF Stalled < StallMax
     THEN /\ drain' = NextRound(Stalled, FALSE)
          /\ UNCHANGED <<queues, seeding, contexts, groups, tasks, abandoned>>
     ELSE EndDrain(drain.sum) /\ abandoned' = abandoned \cup alive
  /\ UNCHANGED running

-----------------------------------------------------------------------------
(* What the running task comes to. *)

TaskDone ==
  /\ running # None
  /\ drain' = [drain EXCEPT !.last = Result[running], !.batch = @ + Result[running]]
  /\ phase' = [phase EXCEPT ![running] = 0]
  /\ running' = None
  /\ alive' = alive \ {running} /\ abandoned' = abandoned \ {running}
  /\ given' = [given EXCEPT ![running] = None] /\ owner' = [owner EXCEPT ![running] = None]
  /\ UNCHANGED <<queues, seeds, taken, skewed, contexts, groups, unused>>

\* It awaits: back to its own queue, or to the wait list.  Without room there
\* it is dropped, and the drain leaves this queue.
Suspends(room) ==
  /\ running # None /\ phase[running] < Awaits[running]
  /\ phase' = [phase EXCEPT ![running] = @ + 1]
  /\ running' = None
  /\ alive' = IF room THEN alive ELSE alive \ {running}
  /\ drain' = IF room THEN drain ELSE [drain EXCEPT !.at = "next"]
  /\ UNCHANGED <<n, rr, seeding, contexts, groups, unused, owner, abandoned>>

TaskYields ==
  LET room == Len(ready[drain.w]) < Room IN
  /\ Suspends(room)
  /\ ready' = IF room THEN [ready EXCEPT ![drain.w] = Append(@, running)] ELSE ready
  /\ UNCHANGED waiting

TaskAwaitsIo ==
  LET room == Len(waiting) < WaitCap IN
  /\ Suspends(room)
  /\ waiting' = IF room THEN Append(waiting, running) ELSE waiting
  /\ UNCHANGED ready

TaskStep == TaskDone \/ TaskYields \/ TaskAwaitsIo
DrainStep == DrainAborts \/ RunTask \/ NextQueue \/ RoundEnds
Poll == PollWakes \/ PollPeeks \/ PollEmpty

UserStep ==
  \/ \E c \in Ctxs : Cancel(c) \/ \E p \in Ctxs : WithCancel(c, p)
  \/ \E g \in Groups, c \in Ctxs : BindGroup(g, c)
  \/ \E g \in Groups : \E x \in Members[g] : GroupSpawn(g, x)
  \/ \E x \in Solo : Retry(x) \/ RunI32(x) \/ \E c \in Ctxs : SubmitWithCtx(x, c)
  \/ \E g \in Groups : Join(g)
  \/ Unbind \/ UserWakes

Next == UserStep \/ DrainStep \/ TaskStep \/ Poll

Spec == Init /\ [][Next]_vars

\* The thread goes on, and a task's body reaches its next await or its end.
FairSpec == Spec /\ WF_vars(DrainStep \/ Poll) /\ WF_vars(TaskStep)

-----------------------------------------------------------------------------
(* Properties *)

\* Queues, stacks and counters stay within their sizes.
TypeOK ==
  /\ n \in 1 .. MaxWorkers /\ rr \in 0 .. n - 1
  /\ \A w \in 0 .. n - 1 : ready[w] \in Seq(Tasks) /\ Len(ready[w]) <= Room
  /\ waiting \in Seq(Tasks) /\ Len(waiting) <= WaitCap
  /\ Len(seeds) <= SeedMax /\ taken <= Len(seeds)
  /\ bound \in Seq(Ctxs) /\ Len(bound) <= CtxSlots
  /\ \A g \in Groups : spawned[g] \in 0 .. GroupCap
  /\ \A x \in Tasks : phase[x] \in 0 .. Awaits[x]

Occurrences(s, x) == Cardinality({i \in DOMAIN s : s[i] = x})

\* A task that was accepted is in exactly one place until it is done, dropped
\* for want of room or reset: no queue, wait list or wake doubles or loses it.
Conserved ==
  \A x \in Tasks :
    LET inReady == {p \in (0 .. n - 1) \X (1 .. Room) :
                      p[2] <= Len(ready[p[1]]) /\ ready[p[1]][p[2]] = x}
    IN Cardinality(inReady) + Occurrences(waiting, x) + (IF running = x THEN 1 ELSE 0)
         = IF x \in alive THEN 1 ELSE 0

\* When check_leak answers TASK_OK for a task group, no task of the group is
\* left in the scheduler, unless a drain gave up on it after StallMax rounds.
LeakCheckSound ==
  \A g \in Groups \ JoinSets :
    (spawned[g] = 0 \/ joined[g]) =>
      \A x \in alive : owner[x] = g => x \in abandoned

\* On one worker every task starts with the seed it was spawned with, as long
\* as no spawn was refused and no more than SeedMax seeds were pushed since the
\* last reset.
SeedsMatch ==
  n = 1 /\ ~skewed => \A x \in alive : phase[x] > 0 \/ x = running => given[x] = x

\* A drain comes to an end, all tasks finished, cancelled or given up, unless its
\* polls report for ever completions that nothing consumes: that alone keeps it
\* from StallMax, which it does not compare in such rounds.
DrainEnds == (drain # Off ~> drain = Off) \/ []<><<PollPeeks>>_vars
=============================================================================
