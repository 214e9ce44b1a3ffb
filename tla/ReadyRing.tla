------------------------------ MODULE ReadyRing ------------------------------
(***************************************************************************)
(* The ready rings of the async scheduler                                  *)
(* (src/compiler/seeds/runtime_scheduler_glue.from_x.c): one ring of tasks *)
(* for each worker, which any thread submits to and one thread drains.     *)
(* Every access to head, tail or a slot is an action of its own, except in *)
(* TaskSubmits: nobody else is at a ring that is drained.                  *)
(*                                                                         *)
(* head and tail are 32-bit counters: they count modulo Wrap.  A slot      *)
(* keeps its old task until it is written again.                           *)
(***************************************************************************)
EXTENDS Integers, Sequences, FiniteSets

CONSTANTS
  Workers,    \* the rings, and the thread that drains each
  Producers,  \* threads that submit
  Tasks, Null,
  Cap,        \* XLANG_ASYNC_TASK_Q_CAP
  Wrap        \* 2^32

Procs == Producers \cup Workers

ASSUME RingConstants ==
  /\ IsFiniteSet(Procs) /\ Producers \cap Workers = {}
  /\ Null \notin Tasks
  /\ Cap \in Nat /\ Cap > 1
  /\ Wrap \in Nat /\ Wrap > Cap + Cardinality(Procs)
  /\ \E k \in 1 .. Wrap : Wrap = k * Cap

VARIABLES
  head, tail, slots,  \* of each ring
  pc,                 \* where each thread is
  ring,               \* the ring a thread works on
  pos,                \* submit: the tail it reserved; drain: the head it read
  fn                  \* the task a thread submits or runs

vars == <<head, tail, slots, pc, ring, pos, fn>>

Counter == 0 .. Wrap - 1
\* Mutant: counters that do not wrap.
IncNoWrap(n) == n + 1
Inc(n) == IF n = Wrap - 1 THEN 0 ELSE n + 1
Dec(n) == IF n = 0 THEN Wrap - 1 ELSE n - 1

\* t - h on uint32_t.
Occupancy(h, t) == IF t >= h THEN t - h ELSE t - h + Wrap

Submitting == {"check", "full", "write"}
Draining == {"look", "read", "advance", "run"} \cup Submitting

\* An assumption about the callers, which the code does not check: the threads
\* that submit to a ring are joined before it is drained, and start only after
\* the drain has returned (as in src/bench).  A worker that drained in between
\* would read slots that are reserved and not yet written.  The task that a
\* worker runs is no such thread: it may submit (TaskSubmits).
MaySubmit(w) == pc[w] = "idle"
MayDrain(w) == \A p \in Producers : pc[p] \in Submitting => ring[p] # w

Init ==
  /\ head = [w \in Workers |-> 0] /\ tail = [w \in Workers |-> 0]
  /\ slots = [w \in Workers |-> [i \in 0 .. Cap - 1 |-> Null]]
  /\ pc = [p \in Procs |-> "idle"]
  /\ ring \in {r \in [Procs -> Workers] : \A w \in Workers : r[w] = w}
  /\ pos = [p \in Procs |-> 0]
  /\ fn = [p \in Procs |-> Null]

Go(p, place) == pc' = [pc EXCEPT ![p] = place]

-----------------------------------------------------------------------------
(* xlang_async_task_submit_to *)

Reserve(p, w) ==
  /\ pos' = [pos EXCEPT ![p] = tail[w]]
  /\ tail' = [tail EXCEPT ![w] = Inc(@)]
  /\ Go(p, "check")

SubmitTo(p, w, x) ==
  /\ pc[p] = "idle" /\ MaySubmit(w)
  /\ ring' = [ring EXCEPT ![p] = w]
  /\ fn' = [fn EXCEPT ![p] = x]
  /\ Reserve(p, w)
  /\ UNCHANGED <<head, slots>>

\* Mutant: the ring without its empty slot.
IsFullAtCap(h, t) == Occupancy(h, t) >= Cap

IsFull(h, t) == Occupancy(h, t) >= Cap - 1

Check(p) ==
  /\ pc[p] = "check"
  /\ Go(p, IF IsFull(head[ring[p]], pos[p]) THEN "full" ELSE "write")
  /\ UNCHANGED <<head, tail, slots, ring, pos, fn>>

\* Mutant: a refused submit leaves the tail where it is.
RollbackForgotten(p) ==
  /\ pc[p] = "full"
  /\ Go(p, "idle")
  /\ fn' = [fn EXCEPT ![p] = Null]
  /\ UNCHANGED <<head, tail, slots, ring, pos>>

\* A worker that cannot put its suspended task back drops it, and its drain
\* returns.
Rollback(p) ==
  /\ pc[p] = "full"
  /\ tail' = [tail EXCEPT ![ring[p]] = Dec(@)]
  /\ Go(p, "idle")
  /\ fn' = [fn EXCEPT ![p] = Null]
  /\ UNCHANGED <<head, slots, ring, pos>>

Write(p) ==
  /\ pc[p] = "write"
  /\ slots' = [slots EXCEPT ![ring[p]][pos[p] % Cap] = fn[p]]
  /\ Go(p, IF p \in Workers THEN "look" ELSE "idle")
  /\ fn' = [fn EXCEPT ![p] = Null]
  /\ UNCHANGED <<head, tail, ring, pos>>

-----------------------------------------------------------------------------
(* xlang_async_drain_queue *)

DrainStart(w) ==
  /\ pc[w] = "idle" /\ MayDrain(w)
  /\ Go(w, "look")
  /\ UNCHANGED <<head, tail, slots, ring, pos, fn>>

\* Loads head and tail; no one else writes head.
Look(w) ==
  /\ pc[w] = "look"
  /\ pos' = [pos EXCEPT ![w] = head[w]]
  /\ Go(w, IF head[w] = tail[w] THEN "idle" ELSE "read")
  /\ UNCHANGED <<head, tail, slots, ring, fn>>

\* The bound context is cancelled.
DrainAbort(w) ==
  /\ pc[w] = "look" /\ Go(w, "idle")
  /\ UNCHANGED <<head, tail, slots, ring, pos, fn>>

ReadSlot(w) ==
  /\ pc[w] = "read"
  /\ fn' = [fn EXCEPT ![w] = slots[w][pos[w] % Cap]]
  /\ Go(w, "advance")
  /\ UNCHANGED <<head, tail, slots, ring, pos>>

Advance(w) ==
  /\ pc[w] = "advance"
  /\ head' = [head EXCEPT ![w] = Inc(pos[w])]
  /\ Go(w, IF fn[w] = Null THEN "look" ELSE "run")
  /\ UNCHANGED <<tail, slots, ring, pos, fn>>

\* The task is done, or waits for I/O outside the ring.
TaskLeaves(w) ==
  /\ pc[w] = "run"
  /\ fn' = [fn EXCEPT ![w] = Null] /\ Go(w, "look")
  /\ UNCHANGED <<head, tail, slots, ring, pos>>

TaskSuspends(w) ==
  /\ pc[w] = "run" /\ Reserve(w, w)
  /\ UNCHANGED <<head, slots, ring, fn>>

\* The task that runs submits one to the ring it came from, and may fill it.
\* A submit that is refused changes nothing; to any other ring the task's
\* submit is that of a producer.
TaskSubmits(w, x) ==
  /\ pc[w] = "run" /\ ~IsFull(head[w], tail[w])
  /\ slots' = [slots EXCEPT ![w][tail[w] % Cap] = x]
  /\ tail' = [tail EXCEPT ![w] = Inc(@)]
  /\ UNCHANGED <<head, pc, ring, pos, fn>>

\* xlang_async_queue_reset: the slots are left alone.
Reset ==
  /\ \A p \in Procs : pc[p] = "idle"
  /\ head' = [w \in Workers |-> 0] /\ tail' = [w \in Workers |-> 0]
  /\ UNCHANGED <<slots, pc, ring, pos, fn>>

Next ==
  \/ \E p \in Producers, w \in Workers, x \in Tasks : SubmitTo(p, w, x)
  \/ \E p \in Procs : Check(p) \/ Rollback(p) \/ Write(p)
  \/ \E w \in Workers :
       \/ DrainStart(w) \/ Look(w) \/ DrainAbort(w) \/ ReadSlot(w)
       \/ Advance(w) \/ TaskLeaves(w) \/ TaskSuspends(w)
       \/ \E x \in Tasks : TaskSubmits(w, x)
  \/ Reset

Spec == Init /\ [][Next]_vars

-----------------------------------------------------------------------------
(* Properties *)

\* Counters stay in their width, slots and threads hold tasks.
TypeOK ==
  /\ head \in [Workers -> Counter] /\ tail \in [Workers -> Counter]
  /\ slots \in [Workers -> [0 .. Cap - 1 -> Tasks \cup {Null}]]
  /\ pc \in [Procs -> {"idle"} \cup Draining]
  /\ ring \in [Procs -> Workers]
  /\ pos \in [Procs -> Counter]
  /\ fn \in [Procs -> Tasks \cup {Null}]

\* How many tasks a ring holds, submits under way included: what is past
\* Cap - 1 are reservations that will be taken back.
Held(w) ==
  IF Occupancy(head[w], tail[w]) < Cap THEN Occupancy(head[w], tail[w]) ELSE Cap - 1

\* The submit that has reserved position n of ring w and will write it.
Writers(w, n) ==
  {p \in Procs : pc[p] \in {"check", "write"} /\ ring[p] = w /\ pos[p] = n}

At(h, i) == IF h + i < Wrap THEN h + i ELSE h + i - Wrap

TaskAt(w, n) ==
  IF Writers(w, n) # {} THEN fn[CHOOSE p \in Writers(w, n) : TRUE]
  ELSE slots[w][n % Cap]

\* The tasks in a ring, oldest first.
Contents(w) == [i \in 1 .. Held(w) |-> TaskAt(w, At(head[w], i - 1))]

Q == INSTANCE TaskQueue WITH
       Idle <- Null, Room <- Cap - 1,
       queue <- [w \in Workers |-> Contents(w)],
       running <- [w \in Workers |-> IF pc[w] = "run" THEN fn[w] ELSE Null]

\* The rings are first-in first-out queues of at most Cap - 1 tasks: whatever
\* submits race before a drain, with reservations taken back in any order, and
\* whatever the tasks submit during it, no task in a ring is lost, doubled or
\* overtaken, and a worker runs exactly the tasks of its ring.  The task that
\* runs is lost if it suspends when it has filled the ring.
RingRefined == Q!QSpec

\* A submit that is told the ring is full was told the truth: Cap - 1 tasks
\* are in it, reservations that are about to be rolled back not counted.
\* The tail alone cannot say so, since each refused submit advances it for a
\* while.
RefusedOnlyWhenFull ==
  \A p \in Procs : pc[p] = "full" => Held(ring[p]) = Cap - 1
=============================================================================
