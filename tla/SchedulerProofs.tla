-------------------------- MODULE SchedulerProofs ---------------------------
(***************************************************************************)
(* For any tasks, groups, contexts, number of workers and sizes: the       *)
(* scheduler loses and doubles no task, the leak check of a task group is  *)
(* right, and on one worker every task starts with its own seed.           *)
(***************************************************************************)
EXTENDS Scheduler, FiniteSetTheorems, SequenceTheorems, TLAPS

-----------------------------------------------------------------------------
(* The inductive invariant *)

\* The fields of a drain, which has a queue.
Shaped(d) ==
  d = [f \in {"by", "task", "attempt", "at", "w", "last", "batch", "sum", "stall",
             "polled"} |-> d[f]]

\* The types of what moves tasks ...
WorkTypes ==
  /\ n \in 1 .. MaxWorkers /\ rr \in 0 .. n - 1
  /\ ready \in [0 .. n - 1 -> Seq(Tasks)]
  /\ \A w \in 0 .. n - 1 : Len(ready[w]) <= Room
  /\ waiting \in Seq(Tasks) /\ Len(waiting) <= WaitCap
  /\ seeds \in Seq(Tasks) /\ Len(seeds) <= SeedMax
  /\ taken \in Nat /\ taken <= Len(seeds)
  /\ phase \in [Tasks -> Nat] /\ \A x \in Tasks : phase[x] <= Awaits[x]
  /\ running \in Tasks \cup {None}
  /\ unused \subseteq Tasks /\ alive \subseteq Tasks
  /\ owner \in [Tasks -> Groups \cup {None}]
  /\ given \in [Tasks -> Tasks \cup {None}]
  /\ skewed \in BOOLEAN

\* ... and of what calls for it.
CallTypes ==
  /\ bound \in Seq(Ctxs) /\ Len(bound) <= CtxSlots
  /\ gctx \in [Groups -> Ctxs \cup {None}]
  /\ spawned \in [Groups -> 0 .. GroupCap] /\ joined \in [Groups -> BOOLEAN]
  /\ Shaped(drain) /\ drain.w \in 0 .. n - 1

\* A task runs only in a drain, and a retry drains for a task of no group.
CallerInv ==
  /\ drain = Off => running = None
  /\ drain # Off /\ drain.by = "retry" =>
       drain.task \in Tasks \ unused /\ owner[drain.task] = None

\* A task that was not submitted yet.
Fresh == \A x \in unused : x \notin alive /\ owner[x] = None /\ phase[x] = 0

\* No task is in two places,
Apart ==
  /\ \A w, v \in 0 .. n - 1 : \A i \in 1 .. Len(ready[w]), j \in 1 .. Len(ready[v]) :
       ready[w][i] = ready[v][j] => w = v /\ i = j
  /\ \A i, j \in 1 .. Len(waiting) : waiting[i] = waiting[j] => i = j
  /\ \A w \in 0 .. n - 1 : \A i \in 1 .. Len(ready[w]), j \in 1 .. Len(waiting) :
       ready[w][i] # waiting[j]
  /\ \A w \in 0 .. n - 1 : \A i \in 1 .. Len(ready[w]) : ready[w][i] # running
  /\ \A j \in 1 .. Len(waiting) : waiting[j] # running

\* and those in one are the accepted ones.
IsReady(x) == \E w \in 0 .. n - 1 : \E i \in 1 .. Len(ready[w]) : ready[w][i] = x
IsWaiting(x) == \E j \in 1 .. Len(waiting) : waiting[j] = x

Placed == \A x \in Tasks : x \in alive <=> IsReady(x) \/ IsWaiting(x) \/ running = x

\* A task that waits has awaited.
Awaited == \A j \in 1 .. Len(waiting) : phase[waiting[j]] > 0

\* The seeds not taken yet are, in order, those of the ready tasks that start.
Pending == {j \in 1 .. Len(seeds) : taken < j}
Startable == {i \in 1 .. Len(ready[0]) : phase[ready[0][i]] = 0}

SeedsInOrder ==
  n = 1 /\ ~skewed =>
    /\ \A j \in Pending : \E i \in Startable : ready[0][i] = seeds[j]
    /\ \A i \in Startable : \E j \in Pending : seeds[j] = ready[0][i]
    /\ \A i, k \in Startable : \A j, l \in Pending :
         i < k /\ seeds[j] = ready[0][i] /\ seeds[l] = ready[0][k] => j < l
    /\ \A j, l \in Pending : seeds[j] = seeds[l] => j = l

Types == WorkTypes /\ CallTypes
PlaceInv == Fresh /\ Apart /\ Placed /\ Awaited

-----------------------------------------------------------------------------
(* What the steps do to the tasks *)

work == <<queues, seeding, tasks, running>>

\* A task is accepted, or refused for want of room.
Accepts(x) ==
  /\ x \in unused /\ unused' = unused \ {x}
  /\ Submitted(x)
  /\ \/ owner' = owner
     \/ \E g \in Groups : owner' = [owner EXCEPT ![x] = g]
  /\ \/ SeedPushed(x)
     \/ skewed' = TRUE /\ UNCHANGED <<seeds, taken, given>>
  /\ UNCHANGED <<n, waiting, phase, running>>

Wakes == IoWake /\ UNCHANGED <<seeding, tasks, running>>

\* The scheduler is reset, for task x alone unless x is refused.
Restarts(x) ==
  /\ x \in Tasks /\ owner[x] = None /\ running = None
  /\ \/ /\ ready' = [w \in 0 .. n - 1 |-> IF w = rr THEN <<x>> ELSE <<>>]
        /\ seeds' = <<x>> /\ alive' = {x} /\ NextRr
     \/ /\ ready' = [w \in 0 .. n - 1 |-> <<>>]
        /\ seeds' = <<>> /\ alive' = {} /\ rr' = rr
  /\ waiting' = <<>> /\ taken' = 0
  /\ skewed' \in BOOLEAN /\ (phase[x] > 0 => skewed')
  /\ unused' = unused \ {x}
  /\ UNCHANGED <<n, given, phase, owner, running>>

\* The drain moves on, starts anew, or ends, as far as the tasks go.
StepKind ==
  \/ UNCHANGED work
  \/ \E x \in Tasks : Accepts(x) \/ Restarts(x)
  \/ Wakes
  \/ RunTask \/ TaskDone \/ TaskYields \/ TaskAwaitsIo

LEMMA AttemptRestarts ==
  ASSUME WorkTypes, NEW x \in Tasks, owner[x] = None, running = None,
         NEW k, Attempt(x, k), unused' = unused \ {x}, running' = running
  PROVE  Restarts(x)
<1>0. skewed' \in BOOLEAN /\ (phase[x] > 0 => skewed')
  <2>1. skewed' = (phase[x] > 0)
    BY DEF Attempt
  <2>2. skewed' \in BOOLEAN
    BY <2>1
  <2>3. phase[x] > 0 => skewed'
    BY <2>1
  <2> QED
    BY <2>2, <2>3
<1>1. CASE BoundCancelled
  <2>1. ready' = [w \in 0 .. n - 1 |-> <<>>]
    BY <1>1 DEF Attempt
  <2> QED
    BY <1>0, <1>1, <2>1 DEF Attempt, Restarts
<1>2. CASE ~BoundCancelled
  <2>1. ready' = [w \in 0 .. n - 1 |-> IF w = rr THEN <<x>> ELSE <<>>]
    BY <1>2 DEF Attempt
  <2> QED
    BY <1>0, <1>2, <2>1 DEF Attempt, Restarts, NextRr
<1> QED
  BY <1>1, <1>2

\* The three ends of a drain.
LEMMA EndDrainCases ==
  ASSUME NEW total, EndDrain(total)
  PROVE  \/ /\ drain' = Off
            /\ \/ UNCHANGED groups
               \/ /\ drain.by \in Groups
                  /\ total # Cancelled \/ drain.by \in JoinSets
                  /\ joined' = [joined EXCEPT ![drain.by] = TRUE]
                  /\ spawned' = [spawned EXCEPT ![drain.by] = 0]
                  /\ gctx' = gctx
            /\ UNCHANGED <<queues, seeding, contexts, tasks>>
         \/ /\ drain.by = "retry"
            /\ Attempt(drain.task, drain.attempt + 1) /\ unused' = unused
BY DEF EndDrain, groups

LEMMA StepKinds == Types /\ CallerInv /\ Fresh /\ [Next]_vars => StepKind
<1> SUFFICES ASSUME Types, CallerInv, Fresh, [Next]_vars
             PROVE  StepKind
  OBVIOUS
<1> USE DEF Types
<1>1. ASSUME NEW total, Between, EndDrain(total), UNCHANGED running
      PROVE  StepKind
  <2>1. CASE UNCHANGED <<queues, seeding, tasks>>
    BY <1>1, <2>1 DEF StepKind, work
  <2>2. CASE /\ drain.by = "retry" /\ unused' = unused
             /\ Attempt(drain.task, drain.attempt + 1)
    <3>1. drain.task \in Tasks \ unused /\ owner[drain.task] = None /\ running = None
      BY <1>1, <2>2 DEF CallerInv, Between
    <3>2. unused' = unused \ {drain.task}
      BY <2>2, <3>1
    <3>3. Restarts(drain.task)
      BY <1>1, <2>2, <3>1, <3>2, AttemptRestarts
    <3> QED
      BY <3>1, <3>3 DEF StepKind
  <2> QED
    BY <1>1, <2>1, <2>2, EndDrainCases
<1>2. CASE \/ \E c \in Ctxs : Cancel(c) \/ \E p \in Ctxs : WithCancel(c, p)
           \/ \E g \in Groups, c \in Ctxs : BindGroup(g, c)
           \/ \E g \in Groups : Join(g)
           \/ Unbind \/ NextQueue \/ PollPeeks \/ UNCHANGED vars
  <2>1. UNCHANGED work
    BY <1>2 DEF Cancel, WithCancel, BindGroup, Join, Unbind, NextQueue, PollPeeks,
                Polled, vars, work
  <2> QED
    BY <2>1 DEF StepKind
<1>3. ASSUME NEW g \in Groups, NEW x \in Tasks, GroupSpawn(g, x)
      PROVE  StepKind
  <2>1. Accepts(x)
    BY <1>3 DEF GroupSpawn, Accepts
  <2> QED
    BY <2>1 DEF StepKind
<1>4. ASSUME NEW x \in Tasks, NEW c \in Ctxs, SubmitWithCtx(x, c)
      PROVE  StepKind
  <2>1. Accepts(x)
    BY <1>4 DEF SubmitWithCtx, Accepts
  <2> QED
    BY <2>1 DEF StepKind
<1>5. ASSUME NEW x \in Tasks, Retry(x)
      PROVE  StepKind
  <2>1. owner[x] = None /\ running = None
    BY <1>5 DEF Retry, Fresh, CallerInv
  <2>2. Restarts(x)
    BY <1>5, <2>1, AttemptRestarts DEF Retry
  <2> QED
    BY <2>2 DEF StepKind
<1>6. ASSUME NEW x \in Tasks, RunI32(x)
      PROVE  StepKind
  <2>1. owner[x] = None /\ phase[x] = 0 /\ running = None
    BY <1>6 DEF RunI32, Fresh, CallerInv
  <2>2. skewed' \in BOOLEAN /\ (phase[x] > 0 => skewed')
    <3>1. skewed' = FALSE
      BY <1>6 DEF RunI32
    <3>2. ~(phase[x] > 0)
      BY <2>1
    <3> QED
      BY <3>1, <3>2
  <2>3. /\ ready' = [w \in 0 .. n - 1 |-> IF w = rr THEN <<x>> ELSE <<>>]
        /\ seeds' = <<x>> /\ alive' = {x} /\ NextRr
    BY <1>6 DEF RunI32
  <2>4. /\ waiting' = <<>> /\ taken' = 0 /\ unused' = unused \ {x}
        /\ UNCHANGED <<n, given, phase, owner, running>>
    BY <1>6 DEF RunI32
  <2>5. Restarts(x)
    BY <2>1, <2>2, <2>3, <2>4 DEF Restarts
  <2> QED
    BY <2>5 DEF StepKind
<1>7. CASE UserWakes \/ PollWakes
  <2>1. Wakes
    BY <1>7 DEF UserWakes, PollWakes, Polled, Wakes
  <2> QED
    BY <2>1 DEF StepKind
<1>8. CASE DrainAborts
  BY <1>1, <1>8 DEF DrainAborts
<1>9. CASE RoundEnds
  <2>1. CASE AllIdle
    BY <1>1, <1>9, <2>1 DEF RoundEnds, QueueDone
  <2>2. CASE ~AllIdle
    BY <1>9, <2>2 DEF RoundEnds, StepKind, work
  <2> QED
    BY <2>1, <2>2
<1>10. CASE PollEmpty
  <2>1. CASE Stalled < StallMax
    BY <1>10, <2>1 DEF PollEmpty, StepKind, work
  <2>2. CASE ~(Stalled < StallMax)
    BY <1>1, <1>10, <2>2 DEF PollEmpty
  <2> QED
    BY <2>1, <2>2
<1>11. CASE RunTask \/ TaskStep
  BY <1>11 DEF TaskStep, StepKind
<1>12. \A g \in Groups : Members[g] \subseteq Tasks
  BY SchedulerConstants
<1>13. Solo \subseteq Tasks
  BY SchedulerConstants
<1> QED
  BY <1>2, <1>3, <1>4, <1>5, <1>6, <1>7, <1>8, <1>9, <1>10, <1>11, <1>12, <1>13
     DEF Next, UserStep, DrainStep, Poll

-----------------------------------------------------------------------------
(* Queues *)

LEMMA PushFacts ==
  ASSUME NEW S, NEW s \in Seq(S), NEW e \in S
  PROVE  /\ Append(s, e) \in Seq(S)
         /\ Len(Append(s, e)) = Len(s) + 1 /\ Len(s) \in Nat
         /\ \A i \in 1 .. Len(s) : Append(s, e)[i] = s[i]
         /\ Append(s, e)[Len(s) + 1] = e
OBVIOUS

LEMMA HeadFacts ==
  ASSUME NEW S, NEW s \in Seq(S), s # <<>>
  PROVE  /\ Head(s) = s[1] /\ s[1] \in S /\ Tail(s) \in Seq(S)
         /\ Len(Tail(s)) = Len(s) - 1 /\ Len(s) \in Nat \ {0}
         /\ \A i \in 1 .. Len(s) - 1 : Tail(s)[i] = s[i + 1]
OBVIOUS

LEMMA PopFacts ==
  ASSUME NEW S, NEW s \in Seq(S), s # <<>>
  PROVE  /\ SubSeq(s, 1, Len(s) - 1) \in Seq(S)
         /\ Len(s) \in Nat \ {0} /\ s[Len(s)] \in S
         /\ Len(SubSeq(s, 1, Len(s) - 1)) = Len(s) - 1
         /\ \A i \in 1 .. Len(s) - 1 : SubSeq(s, 1, Len(s) - 1)[i] = s[i]
<1>1. Len(s) \in Nat \ {0} /\ \A i \in 1 .. Len(s) : s[i] \in S
  OBVIOUS
<1> DEFINE k == Len(s) - 1
<1>2. k \in Nat /\ 1 \in Int /\ \A i \in 1 .. k : s[i] \in S
  BY <1>1
<1> HIDE DEF k
<1>3. /\ SubSeq(s, 1, k) \in Seq(S)
      /\ Len(SubSeq(s, 1, k)) = IF 1 <= k THEN k - 1 + 1 ELSE 0
      /\ \A i \in 1 .. k - 1 + 1 : SubSeq(s, 1, k)[i] = s[1 + i - 1]
  BY <1>2, SubSeqProperties
<1>4. Len(SubSeq(s, 1, k)) = k /\ \A i \in 1 .. k : SubSeq(s, 1, k)[i] = s[i]
  BY <1>2, <1>3
<1> QED
  BY <1>1, <1>3, <1>4 DEF k

LEMMA NextWorker ==
  ASSUME WorkTypes
  PROVE  (rr + 1) % n \in 0 .. n - 1 /\ 0 \in 0 .. n - 1
<1>1. n \in Nat \ {0} /\ rr + 1 \in Nat /\ rr + 1 <= n
  BY SchedulerConstants DEF WorkTypes
<1>2. CASE rr + 1 < n
  <2>1. (rr + 1) % n = rr + 1
    BY <1>1, <1>2
  <2> QED
    BY <1>1, <1>2, <2>1
<1>3. CASE rr + 1 = n
  <2>1. (rr + 1) % n = 0
    BY <1>1, <1>3
  <2> QED
    BY <1>1, <2>1
<1> QED
  BY <1>1, <1>2, <1>3

LEMMA QueueTypes ==
  ASSUME WorkTypes, NEW w \in 0 .. n - 1
  PROVE  /\ ready[w] \in Seq(Tasks) /\ Len(ready[w]) \in Nat
         /\ \A i \in 1 .. Len(ready[w]) : ready[w][i] \in Tasks
         /\ waiting \in Seq(Tasks) /\ Len(waiting) \in Nat
         /\ \A j \in 1 .. Len(waiting) : waiting[j] \in Tasks
<1>1. ready[w] \in Seq(Tasks) /\ waiting \in Seq(Tasks)
  BY DEF WorkTypes
<1> QED
  BY <1>1

\* Where everything is after a task joined queue v, or left its front.
LEMMA ReadyPush ==
  ASSUME WorkTypes, NEW v \in 0 .. n - 1, NEW x \in Tasks,
         ready' = [ready EXCEPT ![v] = Append(@, x)]
  PROVE  /\ ready' \in [0 .. n - 1 -> Seq(Tasks)]
         /\ \A w \in 0 .. n - 1 :
              /\ Len(ready'[w]) = IF w = v THEN Len(ready[v]) + 1 ELSE Len(ready[w])
              /\ \A i \in 1 .. Len(ready[w]) : ready'[w][i] = ready[w][i]
         /\ ready'[v][Len(ready[v]) + 1] = x
<1>1. /\ ready[v] \in Seq(Tasks) /\ ready \in [0 .. n - 1 -> Seq(Tasks)]
      /\ \A w \in 0 .. n - 1 : Len(ready[w]) \in Nat
  BY QueueTypes DEF WorkTypes
<1>2. /\ ready'[v] = Append(ready[v], x)
      /\ \A w \in 0 .. n - 1 : w # v => ready'[w] = ready[w]
  BY <1>1
<1>3. /\ Append(ready[v], x) \in Seq(Tasks)
      /\ Len(Append(ready[v], x)) = Len(ready[v]) + 1
      /\ \A i \in 1 .. Len(ready[v]) : Append(ready[v], x)[i] = ready[v][i]
      /\ Append(ready[v], x)[Len(ready[v]) + 1] = x
  BY <1>1, PushFacts
<1>4. ready' \in [0 .. n - 1 -> Seq(Tasks)]
  BY <1>1, <1>3
<1> QED
  BY <1>2, <1>3, <1>4

LEMMA ReadyPop ==
  ASSUME WorkTypes, NEW v \in 0 .. n - 1, ready[v] # <<>>,
         ready' = [ready EXCEPT ![v] = Tail(@)]
  PROVE  /\ ready' \in [0 .. n - 1 -> Seq(Tasks)]
         /\ Len(ready[v]) > 0 /\ Head(ready[v]) = ready[v][1] /\ ready[v][1] \in Tasks
         /\ Len(ready'[v]) = Len(ready[v]) - 1
         /\ \A i \in 1 .. Len(ready[v]) - 1 : ready'[v][i] = ready[v][i + 1]
         /\ \A w \in 0 .. n - 1 : w # v => ready'[w] = ready[w]
<1>1. ready[v] \in Seq(Tasks) /\ ready \in [0 .. n - 1 -> Seq(Tasks)]
  BY DEF WorkTypes
<1>2. /\ Head(ready[v]) = ready[v][1] /\ ready[v][1] \in Tasks /\ Tail(ready[v]) \in Seq(Tasks)
      /\ Len(Tail(ready[v])) = Len(ready[v]) - 1 /\ Len(ready[v]) \in Nat \ {0}
      /\ \A i \in 1 .. Len(ready[v]) - 1 : Tail(ready[v])[i] = ready[v][i + 1]
  BY <1>1, HeadFacts
<1>3. /\ ready'[v] = Tail(ready[v])
      /\ \A w \in 0 .. n - 1 : w # v => ready'[w] = ready[w]
  BY <1>1
<1>4. ready' \in [0 .. n - 1 -> Seq(Tasks)]
  BY <1>1, <1>2
<1> QED
  BY <1>2, <1>3, <1>4

-----------------------------------------------------------------------------
(* The types *)

LEMMA Sizes ==
  /\ Room \in Nat \ {0} /\ WaitCap \in Nat \ {0} /\ SeedMax \in Nat \ {0}
  /\ CtxSlots \in Nat \ {0} /\ StallMax \in Nat \ {0} /\ GroupCap \in Nat \ {0}
  /\ MaxWorkers \in Nat \ {0}
BY SchedulerConstants

LEMMA PushRoom ==
  ASSUME WorkTypes, NEW v \in 0 .. n - 1, NEW x \in Tasks, Len(ready[v]) < Room,
         ready' = [ready EXCEPT ![v] = Append(@, x)]
  PROVE  /\ ready' \in [0 .. n - 1 -> Seq(Tasks)]
         /\ \A w \in 0 .. n - 1 : Len(ready'[w]) <= Room
<1>1. /\ ready' \in [0 .. n - 1 -> Seq(Tasks)]
      /\ \A w \in 0 .. n - 1 :
           Len(ready'[w]) = IF w = v THEN Len(ready[v]) + 1 ELSE Len(ready[w])
  BY ReadyPush
<1>2. \A w \in 0 .. n - 1 : Len(ready[w]) <= Room /\ Len(ready[w]) \in Nat
  BY QueueTypes DEF WorkTypes
<1> QED
  BY <1>1, <1>2, Sizes

LEMMA PhaseTypes ==
  ASSUME WorkTypes, NEW y \in Tasks, NEW p \in Nat, p <= Awaits[y],
         phase' = [phase EXCEPT ![y] = p]
  PROVE  /\ phase' \in [Tasks -> Nat] /\ \A x \in Tasks : phase'[x] <= Awaits[x]
         /\ phase'[y] = p /\ \A x \in Tasks : x # y => phase'[x] = phase[x]
<1>1. phase \in [Tasks -> Nat] /\ \A x \in Tasks : phase[x] <= Awaits[x]
  BY DEF WorkTypes
<1>2. phase' \in [Tasks -> Nat]
  BY <1>1
<1>3. phase'[y] = p /\ \A x \in Tasks : x # y => phase'[x] = phase[x]
  BY <1>1
<1> QED
  BY <1>1, <1>2, <1>3

LEMMA InitWorkTypes == Init => WorkTypes /\ CallTypes /\ CallerInv /\ PlaceInv /\ SeedsInOrder
<1> SUFFICES ASSUME Init
             PROVE  WorkTypes /\ CallTypes /\ CallerInv /\ PlaceInv /\ SeedsInOrder
  OBVIOUS
<1>1. n \in 1 .. MaxWorkers /\ n \in Nat \ {0} /\ 0 \in 0 .. n - 1
  BY Sizes DEF Init
<1>2. /\ <<>> \in Seq(Tasks) /\ <<>> \in Seq(Ctxs)
      /\ Len(<<>>) = 0 /\ 1 .. 0 = {}
  OBVIOUS
<1>3. ready = [w \in 0 .. n - 1 |-> <<>>] /\ waiting = <<>> /\ seeds = <<>>
  BY DEF Init
<1>4. Awaits \in [Tasks -> Nat]
  BY SchedulerConstants
<1>5. WorkTypes
  <2>1. /\ rr = 0 /\ taken = 0 /\ phase = [x \in Tasks |-> 0] /\ running = None
        /\ unused = Tasks /\ alive = {}
        /\ owner = [x \in Tasks |-> None] /\ given = [x \in Tasks |-> None]
    BY DEF Init
  <2>2. skewed \in BOOLEAN
    BY DEF Init
  <2>3. ready \in [0 .. n - 1 -> Seq(Tasks)] /\ \A w \in 0 .. n - 1 : Len(ready[w]) <= Room
    BY <1>2, <1>3, Sizes
  <2>4. phase \in [Tasks -> Nat] /\ \A x \in Tasks : phase[x] <= Awaits[x]
    BY <1>4, <2>1
  <2>5. /\ waiting \in Seq(Tasks) /\ Len(waiting) <= WaitCap
        /\ seeds \in Seq(Tasks) /\ Len(seeds) <= SeedMax /\ taken <= Len(seeds)
    BY <1>2, <1>3, <2>1, Sizes
  <2> QED
    BY <1>1, <2>1, <2>2, <2>3, <2>4, <2>5 DEF WorkTypes
<1>6. Shaped(Off) /\ Off.w = 0
  BY DEF Off, Shaped
<1>7. CallTypes
  BY <1>1, <1>2, <1>6, Sizes DEF Init, CallTypes
<1>8. CallerInv
  BY DEF Init, CallerInv
<1>9. \A w \in 0 .. n - 1 : ready[w] = <<>> /\ Len(ready[w]) = 0
  BY <1>2, <1>3
<1>10. Len(waiting) = 0 /\ Len(seeds) = 0
  BY <1>2, <1>3
<1>11. Fresh
  BY DEF Init, Fresh
<1>12. Apart /\ Awaited
  BY <1>9, <1>10 DEF Apart, Awaited
<1>13. Placed
  <2>1. alive = {} /\ running = None
    BY DEF Init
  <2>2. None \notin Tasks
    BY SchedulerConstants
  <2> QED
    BY <1>9, <1>10, <2>1, <2>2 DEF Placed, IsReady, IsWaiting
<1>14. SeedsInOrder
  <2>1. Startable = {} /\ Pending = {}
    BY <1>1, <1>9, <1>10 DEF Startable, Pending
  <2> QED
    BY <2>1 DEF SeedsInOrder
<1> QED
  BY <1>5, <1>7, <1>8, <1>11, <1>12, <1>13, <1>14 DEF PlaceInv

LEMMA WorkTypesStep ==
  ASSUME WorkTypes, drain.w \in 0 .. n - 1, StepKind
  PROVE  WorkTypes'
<1>0. /\ n \in 1 .. MaxWorkers /\ n \in Nat \ {0} /\ rr \in 0 .. n - 1
      /\ (rr + 1) % n \in 0 .. n - 1 /\ 0 \in 0 .. n - 1
  BY NextWorker, Sizes DEF WorkTypes
<1>1. CASE UNCHANGED work
  BY <1>1 DEF work, queues, seeding, tasks, WorkTypes
<1>2. ASSUME NEW x \in Tasks, Accepts(x)
      PROVE  WorkTypes'
  <2>1. /\ ready' \in [0 .. n - 1 -> Seq(Tasks)] /\ \A w \in 0 .. n - 1 : Len(ready'[w]) <= Room
        /\ rr' \in 0 .. n - 1 /\ alive' \subseteq Tasks
    <3>1. CASE HasRoom
      <4>1. ready' = [ready EXCEPT ![rr] = Append(@, x)] /\ Len(ready[rr]) < Room
        BY <1>2, <3>1 DEF Accepts, Submitted, HasRoom
      <4>2. /\ ready' \in [0 .. n - 1 -> Seq(Tasks)]
            /\ \A w \in 0 .. n - 1 : Len(ready'[w]) <= Room
        BY <1>0, <4>1, PushRoom
      <4> QED
        BY <1>0, <1>2, <4>2, <3>1 DEF Accepts, Submitted, NextRr, WorkTypes
    <3>2. CASE ~HasRoom
      BY <1>0, <1>2, <3>2 DEF Accepts, Submitted, NextRr, WorkTypes
    <3> QED
      BY <3>1, <3>2
  <2>2. /\ seeds' \in Seq(Tasks) /\ Len(seeds') <= SeedMax
        /\ taken' \in Nat /\ taken' <= Len(seeds')
        /\ given' = given
    <3>1. CASE seeds' = Append(seeds, x) /\ Len(seeds) < SeedMax /\ UNCHANGED <<taken, given>>
      <4>1. seeds \in Seq(Tasks) /\ taken \in Nat /\ taken <= Len(seeds)
        BY DEF WorkTypes
      <4> QED
        BY <3>1, <4>1, PushFacts, Sizes
    <3>2. CASE UNCHANGED <<seeds, taken, given>>
      BY <3>2 DEF WorkTypes
    <3> QED
      BY <1>2, <3>1, <3>2 DEF Accepts, SeedPushed
  <2>3. skewed' \in BOOLEAN
    <3>1. CASE SeedPushed(x)
      BY <3>1 DEF SeedPushed
    <3>2. CASE skewed' = TRUE
      BY <3>2
    <3> QED
      BY <1>2, <3>1, <3>2 DEF Accepts
  <2>4. owner' \in [Tasks -> Groups \cup {None}] /\ unused' \subseteq Tasks
    BY <1>2 DEF Accepts, WorkTypes
  <2>5. UNCHANGED <<n, waiting, phase, running>>
    BY <1>2 DEF Accepts
  <2> QED
    BY <2>1, <2>2, <2>3, <2>4, <2>5 DEF WorkTypes
<1>3. ASSUME NEW x \in Tasks, Restarts(x)
      PROVE  WorkTypes'
  <2>1. /\ <<>> \in Seq(Tasks) /\ Len(<<>>) = 0 /\ <<x>> \in Seq(Tasks) /\ Len(<<x>>) = 1
        /\ 0 <= SeedMax /\ 1 <= SeedMax /\ 0 <= Room /\ 1 <= Room /\ 0 <= WaitCap
    BY Sizes
  <2>2. ready' \in [0 .. n - 1 -> Seq(Tasks)] /\ \A w \in 0 .. n - 1 : ready'[w] \in {<<>>, <<x>>}
    BY <1>3, <2>1 DEF Restarts
  <2>3. \A w \in 0 .. n - 1 : Len(ready'[w]) <= Room
    BY <2>1, <2>2
  <2>4. seeds' \in {<<>>, <<x>>} /\ waiting' = <<>> /\ taken' = 0 /\ skewed' \in BOOLEAN
    BY <1>3 DEF Restarts
  <2>5. /\ seeds' \in Seq(Tasks) /\ Len(seeds') <= SeedMax /\ taken' \in Nat
        /\ taken' <= Len(seeds') /\ waiting' \in Seq(Tasks) /\ Len(waiting') <= WaitCap
    <3>1. waiting' \in Seq(Tasks) /\ Len(waiting') <= WaitCap /\ taken' \in Nat
      BY <2>1, <2>4
    <3>2. CASE seeds' = <<>>
      BY <2>1, <2>4, <3>1, <3>2
    <3>3. CASE seeds' = <<x>>
      BY <2>1, <2>4, <3>1, <3>3
    <3> QED
      BY <2>4, <3>2, <3>3
  <2>6. rr' \in 0 .. n - 1 /\ alive' \subseteq Tasks /\ unused' \subseteq Tasks
    BY <1>0, <1>3 DEF Restarts, NextRr, WorkTypes
  <2>7. UNCHANGED <<n, given, phase, owner, running>>
    BY <1>3 DEF Restarts
  <2> QED
    BY <2>2, <2>3, <2>4, <2>5, <2>6, <2>7 DEF WorkTypes
<1>4. CASE Wakes
  <2>1. UNCHANGED <<n, seeding, tasks, running>>
    BY <1>4 DEF Wakes, IoWake, queues
  <2>2. CASE UNCHANGED queues
    BY <2>1, <2>2 DEF queues, seeding, tasks, WorkTypes
  <2>3. CASE /\ waiting # <<>> /\ rr' = (rr + 1) % n /\ HasRoom
             /\ ready' = [ready EXCEPT ![rr] = Append(@, waiting[Len(waiting)])]
             /\ waiting' = SubSeq(waiting, 1, Len(waiting) - 1)
    <3>1. /\ waiting[Len(waiting)] \in Tasks /\ waiting' \in Seq(Tasks)
          /\ Len(waiting') = Len(waiting) - 1 /\ Len(waiting) \in Nat
      BY <2>3, PopFacts DEF WorkTypes
    <3>3. /\ ready' \in [0 .. n - 1 -> Seq(Tasks)]
          /\ \A w \in 0 .. n - 1 : Len(ready'[w]) <= Room
      BY <1>0, <2>3, <3>1, PushRoom DEF HasRoom
    <3>4. Len(waiting') <= WaitCap
      BY <3>1, Sizes DEF WorkTypes
    <3> QED
      BY <1>0, <2>1, <2>3, <3>1, <3>3, <3>4 DEF seeding, tasks, WorkTypes
  <2>4. CASE rr' = (rr + 1) % n /\ UNCHANGED <<ready, waiting>>
    BY <1>0, <2>1, <2>4 DEF seeding, tasks, WorkTypes
  <2> QED
    BY <1>4, <2>2, <2>3, <2>4 DEF Wakes, IoWake, NextRr
<1>5. CASE RunTask
  <2> DEFINE x == Head(ready[drain.w])
  <2>1. drain.w \in 0 .. n - 1 /\ ready[drain.w] # <<>>
    BY <1>5 DEF RunTask
  <2>2. /\ running' = x /\ ready' = [ready EXCEPT ![drain.w] = Tail(@)]
        /\ \/ taken' = taken /\ given' = given
           \/ /\ taken' = taken + 1 /\ taken < Len(seeds)
              /\ given' = [given EXCEPT ![x] = seeds[taken + 1]]
        /\ UNCHANGED <<n, rr, waiting, seeds, skewed, tasks>>
    <3> DEFINE takes == phase[x] = 0 /\ taken < Len(seeds)
    <3>1. CASE takes
      BY <1>5, <3>1 DEF RunTask
    <3>2. CASE ~takes
      BY <1>5, <3>2 DEF RunTask
    <3> QED
      BY <3>1, <3>2
  <2>3. /\ ready' \in [0 .. n - 1 -> Seq(Tasks)] /\ x \in Tasks
        /\ Len(ready'[drain.w]) = Len(ready[drain.w]) - 1
        /\ \A w \in 0 .. n - 1 : w # drain.w => ready'[w] = ready[w]
    BY <2>1, <2>2, ReadyPop
  <2>4. \A w \in 0 .. n - 1 : Len(ready[w]) <= Room /\ Len(ready[w]) \in Nat
    BY QueueTypes DEF WorkTypes
  <2>5. \A w \in 0 .. n - 1 : Len(ready'[w]) <= Room
    <3> TAKE w \in 0 .. n - 1
    <3>1. Len(ready'[drain.w]) <= Room
      <4>1. Len(ready[drain.w]) <= Room /\ Len(ready[drain.w]) \in Nat
        BY <2>1, <2>4
      <4> QED
        BY <2>3, <4>1, Sizes
    <3>2. CASE w # drain.w
      BY <2>3, <2>4, <3>2
    <3> QED
      BY <3>1, <3>2
  <2>6. /\ taken' \in Nat /\ taken' <= Len(seeds)
        /\ given' \in [Tasks -> Tasks \cup {None}]
    <3>1. taken \in Nat /\ taken <= Len(seeds) /\ seeds \in Seq(Tasks) /\ Len(seeds) \in Nat
      BY DEF WorkTypes
    <3>2. given \in [Tasks -> Tasks \cup {None}]
      BY DEF WorkTypes
    <3>3. taken < Len(seeds) => seeds[taken + 1] \in Tasks
      BY <3>1
    <3> HIDE DEF x
    <3> QED
      BY <2>2, <3>1, <3>2, <3>3
  <2> HIDE DEF x
  <2> QED
    BY <2>2, <2>3, <2>5, <2>6 DEF tasks, WorkTypes
<1>6. CASE TaskDone
  <2>1. running \in Tasks
    BY <1>6 DEF TaskDone, WorkTypes
  <2>2. /\ phase' = [phase EXCEPT ![running] = 0] /\ running' = None
        /\ alive' = alive \ {running}
        /\ given' = [given EXCEPT ![running] = None] /\ owner' = [owner EXCEPT ![running] = None]
        /\ UNCHANGED <<queues, seeds, taken, skewed, unused>>
    BY <1>6 DEF TaskDone
  <2>3. Awaits \in [Tasks -> Nat]
    BY SchedulerConstants
  <2>4. phase' \in [Tasks -> Nat] /\ \A x \in Tasks : phase'[x] <= Awaits[x]
    <3>1. 0 \in Nat /\ 0 <= Awaits[running]
      BY <2>1, <2>3
    <3>2. phase' = [phase EXCEPT ![running] = 0]
      BY <2>2
    <3> QED
      BY <2>1, <3>1, <3>2, PhaseTypes
  <2> QED
    BY <2>1, <2>2, <2>4 DEF queues, WorkTypes
<1>7. ASSUME NEW room \in BOOLEAN, Suspends(room)
      PROVE  /\ running \in Tasks /\ phase' \in [Tasks -> Nat]
             /\ \A x \in Tasks : phase'[x] <= Awaits[x]
             /\ running' = None /\ alive' \subseteq Tasks
             /\ UNCHANGED <<n, rr, seeding, unused, owner>>
  <2>1. running \in Tasks /\ phase[running] < Awaits[running]
        /\ phase' = [phase EXCEPT ![running] = @ + 1]
    BY <1>7 DEF Suspends, WorkTypes
  <2>2. Awaits \in [Tasks -> Nat]
    BY SchedulerConstants
  <2>3. phase' \in [Tasks -> Nat] /\ \A x \in Tasks : phase'[x] <= Awaits[x]
    <3>1. Awaits[running] \in Nat /\ phase[running] \in Nat
      BY <2>1, <2>2 DEF WorkTypes
    <3>2. phase[running] + 1 \in Nat /\ phase[running] + 1 <= Awaits[running]
      BY <2>1, <3>1
    <3> QED
      BY <2>1, <3>2, PhaseTypes
  <2> QED
    BY <1>7, <2>1, <2>3 DEF Suspends, WorkTypes
<1>8. CASE TaskYields
  <2> DEFINE room == Len(ready[drain.w]) < Room
  <2>1. room \in BOOLEAN /\ Suspends(room) /\ waiting' = waiting
        /\ ready' = IF room THEN [ready EXCEPT ![drain.w] = Append(@, running)] ELSE ready
    BY <1>8 DEF TaskYields
  <2>2. drain.w \in 0 .. n - 1
    OBVIOUS
  <2>3. ready' \in [0 .. n - 1 -> Seq(Tasks)] /\ \A w \in 0 .. n - 1 : Len(ready'[w]) <= Room
    <3>1. CASE room
      BY <1>7, <2>1, <2>2, <3>1, PushRoom
    <3>2. CASE ~room
      BY <2>1, <3>2 DEF WorkTypes
    <3> QED
      BY <3>1, <3>2
  <2> HIDE DEF room
  <2> QED
    BY <1>7, <2>1, <2>3 DEF seeding, WorkTypes
<1>9. CASE TaskAwaitsIo
  <2> DEFINE room == Len(waiting) < WaitCap
  <2>1. room \in BOOLEAN /\ Suspends(room) /\ ready' = ready
        /\ waiting' = IF room THEN Append(waiting, running) ELSE waiting
    BY <1>9 DEF TaskAwaitsIo
  <2>2. waiting' \in Seq(Tasks) /\ Len(waiting') <= WaitCap
    <3>1. CASE room
      <4>1. waiting \in Seq(Tasks) /\ running \in Tasks /\ waiting' = Append(waiting, running)
        BY <1>7, <2>1, <3>1 DEF WorkTypes
      <4>2. waiting' \in Seq(Tasks) /\ Len(waiting') = Len(waiting) + 1 /\ Len(waiting) \in Nat
        BY <4>1, PushFacts
      <4> QED
        BY <3>1, <4>2, Sizes
    <3>2. CASE ~room
      BY <2>1, <3>2 DEF WorkTypes
    <3> QED
      BY <3>1, <3>2
  <2> HIDE DEF room
  <2> QED
    BY <1>7, <2>1, <2>2 DEF seeding, WorkTypes
<1> QED
  BY <1>1, <1>2, <1>3, <1>4, <1>5, <1>6, <1>8, <1>9 DEF StepKind

LEMMA DrainStarts ==
  /\ Shaped(Off) /\ Off.w = 0
  /\ \A x, k :
       LET d == [Off EXCEPT !.by = "retry", !.task = x, !.attempt = k, !.at = "ring"]
       IN  Shaped(d) /\ d.w = 0 /\ d.by = "retry" /\ d.task = x
  /\ \A g : Shaped(DrainFor(g)) /\ DrainFor(g).w = 0 /\ DrainFor(g).by = g
BY ZenonT(30) DEF Off, Shaped, DrainFor

LEMMA DrainGoesOn ==
  ASSUME Shaped(drain)
  PROVE  /\ \A k : LET d == [drain EXCEPT !.w = k, !.at = "ring", !.last = 0]
                   IN  Shaped(d) /\ d.w = k /\ d.by = drain.by /\ d.task = drain.task
         /\ \A k : LET d == [drain EXCEPT !.at = "poll", !.last = 0, !.sum = k,
                                         !.polled = FALSE]
                   IN  Shaped(d) /\ d.w = drain.w /\ d.by = drain.by /\ d.task = drain.task
         /\ \A r, k : LET d == [drain EXCEPT !.last = r, !.batch = k]
                   IN  Shaped(d) /\ d.w = drain.w /\ d.by = drain.by /\ d.task = drain.task
         /\ LET d == [drain EXCEPT !.at = "next"]
            IN  Shaped(d) /\ d.w = drain.w /\ d.by = drain.by /\ d.task = drain.task
         /\ \A k, p : LET d == NextRound(k, p)
                      IN  Shaped(d) /\ d.w = 0 /\ d.by = drain.by /\ d.task = drain.task
BY DEF Shaped, NextRound

-----------------------------------------------------------------------------
(* The drain and its caller *)

\* What a step does to the drain: nothing, its end, its progress, or a new one.
DrainKind ==
  \/ drain' = drain /\ (running' \in {running, None} \/ drain # Off)
  \/ /\ running' = None
     /\ \/ drain' = Off
        \/ /\ drain # Off /\ drain'.by = drain.by /\ drain'.task = drain.task
           /\ Shaped(drain') /\ drain'.w \in 0 .. n - 1
        \/ /\ drain'.by = "retry" =>
                drain'.task \in Tasks \ unused' /\ owner'[drain'.task] = None
           /\ Shaped(drain') /\ drain'.w = 0

LEMMA AttemptDrains ==
  ASSUME NEW x \in Tasks, NEW k, Attempt(x, k), owner[x] = None, x \notin unused',
         running' = None
  PROVE  DrainKind
<1>1. CASE BoundCancelled
  BY <1>1 DEF Attempt, DrainKind
<1>2. CASE ~BoundCancelled
  <2>1. drain' = [Off EXCEPT !.by = "retry", !.task = x, !.attempt = k, !.at = "ring"]
    BY <1>2 DEF Attempt
  <2>2. Shaped(drain') /\ drain'.w = 0 /\ drain'.by = "retry" /\ drain'.task = x
    BY <2>1, DrainStarts
  <2>3. owner' = owner
    BY DEF Attempt
  <2> QED
    BY <2>2, <2>3 DEF DrainKind
<1> QED
  BY <1>1, <1>2

LEMMA DrainKinds == Types /\ CallerInv /\ Fresh /\ [Next]_vars => DrainKind
<1> SUFFICES ASSUME Types, CallerInv, Fresh, [Next]_vars
             PROVE  DrainKind
  OBVIOUS
<1> USE DEF Types
<1>0. /\ Shaped(drain) /\ drain.w \in 0 .. n - 1 /\ n \in Nat \ {0} /\ 0 \in 0 .. n - 1
      /\ drain = Off => running = None
  BY Sizes DEF CallTypes, WorkTypes, CallerInv
<1>1. ASSUME NEW total, Between, EndDrain(total), UNCHANGED running
      PROVE  DrainKind
  <2>1. CASE drain' = Off
    BY <1>1, <2>1 DEF DrainKind, Between
  <2>2. CASE /\ drain.by = "retry" /\ unused' = unused
             /\ Attempt(drain.task, drain.attempt + 1)
    <3>1. drain.task \in Tasks \ unused /\ owner[drain.task] = None /\ running = None
      BY <1>1, <2>2 DEF CallerInv, Between
    <3> QED
      BY <1>1, <2>2, <3>1, AttemptDrains
  <2> QED
    BY <1>1, <2>1, <2>2, EndDrainCases
<1>2. CASE \/ \E c \in Ctxs : Cancel(c) \/ \E p \in Ctxs : WithCancel(c, p)
           \/ \E g \in Groups, c \in Ctxs : BindGroup(g, c)
           \/ Unbind \/ UserWakes \/ UNCHANGED vars
  BY <1>2 DEF Cancel, WithCancel, BindGroup, Unbind, UserWakes, vars, DrainKind
<1>3. ASSUME NEW x \in Tasks,
             \/ \E g \in Groups : GroupSpawn(g, x)
             \/ \E c \in Ctxs : SubmitWithCtx(x, c)
      PROVE  DrainKind
  BY <1>3 DEF GroupSpawn, SubmitWithCtx, DrainKind
<1>4. ASSUME NEW g \in Groups, Join(g)
      PROVE  DrainKind
  <2>1. drain' \in {drain, DrainFor(g)} /\ running = None /\ running' = running
    BY <1>0, <1>4 DEF Join
  <2>2. /\ Shaped(DrainFor(g)) /\ DrainFor(g).w = 0 /\ DrainFor(g).by = g /\ g # "retry"
    BY DrainStarts, SchedulerConstants
  <2> QED
    BY <2>1, <2>2 DEF DrainKind
<1>5. ASSUME NEW x \in Tasks, Retry(x)
      PROVE  DrainKind
  <2>1. owner[x] = None /\ x \notin unused' /\ running' = None
    BY <1>0, <1>5 DEF Retry, Fresh
  <2> QED
    BY <1>5, <2>1, AttemptDrains DEF Retry
<1>6. ASSUME NEW x \in Tasks, RunI32(x)
      PROVE  DrainKind
  <2>1. drain' = DrainFor("run") /\ running' = None
    BY <1>0, <1>6 DEF RunI32
  <2>2. Shaped(drain') /\ drain'.w = 0 /\ drain'.by = "run" /\ "run" # "retry"
    BY <2>1, DrainStarts
  <2> QED
    BY <2>1, <2>2 DEF DrainKind
<1>7. CASE DrainAborts
  BY <1>1, <1>7 DEF DrainAborts
<1>8. CASE RunTask
  BY <1>8 DEF RunTask, Between, DrainKind
<1>9. ASSUME NEW d, drain' = d, drain # Off, running' = None,
             Shaped(d), d.w \in 0 .. n - 1, d.by = drain.by, d.task = drain.task
      PROVE  DrainKind
  BY <1>9 DEF DrainKind
<1>10. CASE NextQueue
  <2>1. /\ drain' = [drain EXCEPT !.w = drain.w + 1, !.at = "ring", !.last = 0]
        /\ drain # Off /\ running' = None
    BY <1>10 DEF NextQueue, QueueDone, Between
  <2>2. drain.w + 1 \in 0 .. n - 1
    BY <1>0, <1>10 DEF NextQueue
  <2> QED
    BY <1>0, <1>9, <2>1, <2>2, DrainGoesOn
<1>11. CASE RoundEnds
  <2>1. CASE AllIdle
    BY <1>1, <1>11, <2>1 DEF RoundEnds, QueueDone
  <2>2. CASE ~AllIdle
    <3>1. /\ drain' = [drain EXCEPT !.at = "poll", !.last = 0, !.sum = drain.sum + drain.batch,
                                   !.polled = FALSE]
          /\ drain # Off /\ running' = None
      BY <1>11, <2>2 DEF RoundEnds, QueueDone, Between
    <3> QED
      BY <1>0, <1>9, <3>1, DrainGoesOn
  <2> QED
    BY <2>1, <2>2
<1>12. ASSUME NEW k, NEW p, drain' = NextRound(k, p), Between, UNCHANGED running
       PROVE  DrainKind
  <2>1. drain # Off /\ running' = None
    BY <1>12 DEF Between
  <2> QED
    BY <1>0, <1>9, <1>12, <2>1, DrainGoesOn
<1>13. CASE Polled
  BY <1>12, <1>13 DEF Polled
<1>14. CASE PollEmpty
  <2>1. CASE Stalled < StallMax
    BY <1>12, <1>14, <2>1 DEF PollEmpty
  <2>2. CASE ~(Stalled < StallMax)
    BY <1>1, <1>14, <2>2 DEF PollEmpty
  <2> QED
    BY <2>1, <2>2
<1>15. CASE TaskDone
  <2>1. /\ drain' = [drain EXCEPT !.last = Result[running],
                                 !.batch = drain.batch + Result[running]]
        /\ drain # Off /\ running' = None
    BY <1>0, <1>15 DEF TaskDone
  <2> QED
    BY <1>0, <1>9, <2>1, DrainGoesOn
<1>16. CASE TaskYields \/ TaskAwaitsIo
  <2>1. PICK room : Suspends(room)
    BY <1>16 DEF TaskYields, TaskAwaitsIo
  <2>2. drain # Off /\ running' = None /\ drain' \in {drain, [drain EXCEPT !.at = "next"]}
    BY <1>0, <2>1 DEF Suspends
  <2> QED
    BY <1>0, <1>9, <2>2, DrainGoesOn DEF DrainKind
<1>17. (\A g \in Groups : Members[g] \subseteq Tasks) /\ Solo \subseteq Tasks
  BY SchedulerConstants
<1> QED
  BY <1>2, <1>3, <1>4, <1>5, <1>6, <1>7, <1>8, <1>10, <1>11, <1>13, <1>14, <1>15, <1>16,
     <1>17 DEF Next, UserStep, DrainStep, TaskStep, Poll, PollWakes, PollPeeks

LEMMA OwnerKept ==
  ASSUME WorkTypes, StepKind, NEW y \in Tasks \ unused, owner[y] = None
  PROVE  y \notin unused' /\ owner'[y] = None
<1>1. owner \in [Tasks -> Groups \cup {None}] /\ running \in Tasks \cup {None}
  BY DEF WorkTypes
<1>2. ASSUME NEW x \in Tasks, Accepts(x)
      PROVE  y \notin unused' /\ owner'[y] = None
  BY <1>1, <1>2 DEF Accepts
<1>3. CASE TaskDone
  BY <1>1, <1>3 DEF TaskDone
<1>4. ASSUME NEW x \in Tasks, Restarts(x)
      PROVE  y \notin unused' /\ owner'[y] = None
  BY <1>4 DEF Restarts
<1>5. CASE UNCHANGED work \/ Wakes \/ RunTask \/ TaskYields \/ TaskAwaitsIo
  <2>1. unused' = unused /\ owner' = owner
    BY <1>5 DEF work, tasks, Wakes, RunTask, TaskYields, TaskAwaitsIo, Suspends
  <2> QED
    BY <2>1
<1> QED
  BY <1>2, <1>3, <1>4, <1>5 DEF StepKind

LEMMA CallerStep ==
  ASSUME Types, CallerInv, StepKind, DrainKind, n' = n
  PROVE  CallerInv' /\ (Shaped(drain) /\ drain.w \in 0 .. n - 1)'
<1> USE DEF Types
<1>0. /\ Shaped(drain) /\ drain.w \in 0 .. n - 1 /\ 0 \in 0 .. n - 1
      /\ drain = Off => running = None
      /\ drain # Off /\ drain.by = "retry" =>
           drain.task \in Tasks \ unused /\ owner[drain.task] = None
  BY NextWorker DEF CallTypes, CallerInv
<1>1. drain # Off /\ drain.by = "retry" =>
        drain.task \in Tasks \ unused' /\ owner'[drain.task] = None
  BY <1>0, OwnerKept
<1>2. CASE drain' = drain /\ (running' \in {running, None} \/ drain # Off)
  BY <1>0, <1>1, <1>2 DEF CallerInv, Shaped
<1>3. CASE drain' = Off /\ running' = None
  BY <1>0, <1>3, DrainStarts DEF CallerInv
<1>4. CASE /\ drain # Off /\ drain'.by = drain.by /\ drain'.task = drain.task
           /\ Shaped(drain') /\ drain'.w \in 0 .. n - 1 /\ running' = None
  BY <1>0, <1>1, <1>4 DEF CallerInv
<1>5. CASE /\ running' = None
           /\ drain'.by = "retry" =>
                drain'.task \in Tasks \ unused' /\ owner'[drain'.task] = None
           /\ Shaped(drain') /\ drain'.w = 0
  BY <1>0, <1>5 DEF CallerInv
<1> QED
  BY <1>2, <1>3, <1>4, <1>5 DEF DrainKind

-----------------------------------------------------------------------------
(* Contexts and groups *)

LEMMA BoundTypes ==
  ASSUME CallTypes, NEW c \in Ctxs
  PROVE  Bound(c) \in Seq(Ctxs) /\ Len(Bound(c)) <= CtxSlots
<1>1. bound \in Seq(Ctxs) /\ Len(bound) <= CtxSlots
  BY DEF CallTypes
<1>2. CASE Len(bound) < CtxSlots
  <2>1. Append(bound, c) \in Seq(Ctxs) /\ Len(Append(bound, c)) = Len(bound) + 1 /\ Len(bound) \in Nat
    BY <1>1, PushFacts
  <2> QED
    BY <1>2, <2>1, Sizes DEF Bound
<1> QED
  BY <1>1, <1>2 DEF Bound

GroupTypes ==
  /\ bound \in Seq(Ctxs) /\ Len(bound) <= CtxSlots
  /\ gctx \in [Groups -> Ctxs \cup {None}]
  /\ spawned \in [Groups -> 0 .. GroupCap] /\ joined \in [Groups -> BOOLEAN]

LEMMA GroupTypesStep == GroupTypes /\ Types /\ [Next]_vars => GroupTypes'
<1> SUFFICES ASSUME GroupTypes, Types, [Next]_vars
             PROVE  GroupTypes'
  OBVIOUS
<1>0. bound \in Seq(Ctxs) /\ Len(bound) <= CtxSlots
  BY DEF GroupTypes
<1>1. ASSUME UNCHANGED <<bound, groups>>
      PROVE  GroupTypes'
  BY <1>1 DEF groups, GroupTypes
<1>2. ASSUME NEW total, EndDrain(total)
      PROVE  GroupTypes'
  <2>1. CASE UNCHANGED <<groups, contexts>>
    BY <1>1, <2>1 DEF contexts
  <2>2. CASE /\ drain.by \in Groups /\ UNCHANGED contexts
             /\ joined' = [joined EXCEPT ![drain.by] = TRUE]
             /\ spawned' = [spawned EXCEPT ![drain.by] = 0] /\ gctx' = gctx
    <3>1. spawned' \in [Groups -> 0 .. GroupCap]
      BY <2>2, Sizes DEF GroupTypes
    <3> QED
      BY <2>2, <3>1 DEF contexts, GroupTypes
  <2>3. CASE \E x, k : Attempt(x, k)
    BY <1>1, <2>3 DEF Attempt, contexts
  <2> QED
    BY <1>2, <2>1, <2>2, <2>3, EndDrainCases
<1>3. CASE \E c \in Ctxs : Cancel(c) \/ \E p \in Ctxs : WithCancel(c, p)
  BY <1>1, <1>3 DEF Cancel, WithCancel
<1>4. ASSUME NEW g \in Groups, NEW c \in Ctxs, BindGroup(g, c)
      PROVE  GroupTypes'
  BY <1>4 DEF BindGroup, contexts, GroupTypes
<1>5. ASSUME NEW g \in Groups, NEW x \in Tasks, GroupSpawn(g, x)
      PROVE  GroupTypes'
  <2>1. bound' = bound /\ gctx' = gctx
    BY <1>5 DEF GroupSpawn, contexts
  <2>2. spawned[g] \in 0 .. GroupCap /\ spawned[g] < GroupCap
    BY <1>5 DEF GroupSpawn, GroupTypes
  <2>3. spawned' \in {spawned, [spawned EXCEPT ![g] = @ + 1]}
    <3>1. CASE HasRoom
      BY <1>5, <3>1 DEF GroupSpawn
    <3>2. CASE ~HasRoom
      BY <1>5, <3>2 DEF GroupSpawn, GroupTypes
    <3> QED
      BY <3>1, <3>2
  <2>4. spawned' \in [Groups -> 0 .. GroupCap]
    BY <2>2, <2>3, Sizes DEF GroupTypes
  <2>5. joined' \in [Groups -> BOOLEAN]
    <3>1. joined' = [joined EXCEPT ![g] = @ /\ ~HasRoom]
      BY <1>5 DEF GroupSpawn
    <3>2. (joined[g] /\ ~HasRoom) \in BOOLEAN
      OBVIOUS
    <3> QED
      BY <3>1, <3>2 DEF GroupTypes
  <2> QED
    BY <2>1, <2>4, <2>5 DEF GroupTypes
<1>6. ASSUME NEW x \in Tasks, NEW c \in Ctxs, SubmitWithCtx(x, c)
      PROVE  GroupTypes'
  <2>1. bound' = Bound(c) /\ UNCHANGED groups
    BY <1>6 DEF SubmitWithCtx
  <2> QED
    BY <2>1, BoundTypes DEF Types, groups, GroupTypes
<1>7. ASSUME NEW g \in Groups, Join(g)
      PROVE  GroupTypes'
  <2>1. gctx' = gctx /\ spawned' = spawned /\ joined' \in {joined, [joined EXCEPT ![g] = TRUE]}
    BY <1>7 DEF Join
  <2>2. bound' \in Seq(Ctxs) /\ Len(bound') <= CtxSlots
    <3>1. CASE bound' = bound
      BY <1>0, <3>1
    <3>2. CASE gctx[g] # None /\ bound' = Bound(gctx[g])
      <4>1. gctx[g] \in Ctxs
        BY <3>2 DEF GroupTypes
      <4> QED
        BY <3>2, <4>1, BoundTypes DEF Types
    <3> QED
      BY <1>7, <3>1, <3>2 DEF Join
  <2> QED
    BY <2>1, <2>2 DEF GroupTypes
<1>8. CASE Unbind
  <2>1. bound # <<>> /\ bound' = SubSeq(bound, 1, Len(bound) - 1) /\ UNCHANGED groups
    BY <1>8 DEF Unbind
  <2>2. bound' \in Seq(Ctxs) /\ Len(bound') = Len(bound) - 1 /\ Len(bound) \in Nat
    BY <1>0, <2>1, PopFacts
  <2>3. Len(bound') <= CtxSlots
    BY <1>0, <2>2, Sizes
  <2> QED
    BY <2>1, <2>2, <2>3 DEF groups, GroupTypes
<1>9. CASE \E x \in Tasks : Retry(x) \/ RunI32(x)
  BY <1>1, <1>9 DEF Retry, RunI32, Attempt, contexts
<1>10. CASE UserWakes \/ NextQueue \/ RunTask \/ TaskStep \/ PollWakes \/ PollPeeks \/ UNCHANGED vars
  BY <1>1, <1>10 DEF UserWakes, NextQueue, RunTask, TaskStep, TaskDone, TaskYields, TaskAwaitsIo,
                     Suspends, PollWakes, PollPeeks, Polled, contexts, vars
<1>11. CASE DrainAborts \/ RoundEnds \/ PollEmpty
  BY <1>1, <1>2, <1>11 DEF DrainAborts, RoundEnds, PollEmpty, contexts
<1>12. (\A g \in Groups : Members[g] \subseteq Tasks) /\ Solo \subseteq Tasks
  BY SchedulerConstants
<1> QED
  BY <1>3, <1>4, <1>5, <1>6, <1>7, <1>8, <1>9, <1>10, <1>11, <1>12
     DEF Next, UserStep, DrainStep, Poll

-----------------------------------------------------------------------------
(* Each accepted task in one place *)

LEMMA PushPlaces ==
  ASSUME WorkTypes, NEW v \in 0 .. n - 1, NEW x \in Tasks, n' = n,
         ready' = [ready EXCEPT ![v] = Append(@, x)]
  PROVE  \A y : IsReady(y)' <=> IsReady(y) \/ y = x
<1>1. /\ \A w \in 0 .. n - 1 :
           /\ Len(ready'[w]) = IF w = v THEN Len(ready[v]) + 1 ELSE Len(ready[w])
           /\ \A i \in 1 .. Len(ready[w]) : ready'[w][i] = ready[w][i]
      /\ ready'[v][Len(ready[v]) + 1] = x
  BY ReadyPush
<1>2. \A w \in 0 .. n - 1 : Len(ready[w]) \in Nat
  BY QueueTypes
<1> TAKE y
<1>3. ASSUME NEW w \in 0 .. n - 1, NEW i \in 1 .. Len(ready[w]), ready[w][i] = y
      PROVE  IsReady(y)'
  <2>1. i \in 1 .. Len(ready'[w]) /\ ready'[w][i] = y
    BY <1>1, <1>2, <1>3
  <2> QED
    BY <2>1 DEF IsReady
<1>4. CASE y = x
  <2>1. Len(ready[v]) + 1 \in 1 .. Len(ready'[v])
    BY <1>1, <1>2
  <2> QED
    BY <1>1, <1>4, <2>1 DEF IsReady
<1>5. ASSUME NEW w \in 0 .. n - 1, NEW i \in 1 .. Len(ready'[w]), ready'[w][i] = y, y # x
      PROVE  IsReady(y)
  <2>1. i \in 1 .. Len(ready[w])
    BY <1>1, <1>2, <1>5
  <2> QED
    BY <1>1, <1>5, <2>1 DEF IsReady
<1> QED
  BY <1>3, <1>4, <1>5 DEF IsReady

LEMMA PopPlaces ==
  ASSUME WorkTypes, Apart, NEW v \in 0 .. n - 1, ready[v] # <<>>, n' = n,
         ready' = [ready EXCEPT ![v] = Tail(@)]
  PROVE  \A y : IsReady(y) <=> IsReady(y)' \/ y = Head(ready[v])
<1>1. /\ Len(ready[v]) > 0 /\ Head(ready[v]) = ready[v][1]
      /\ Len(ready'[v]) = Len(ready[v]) - 1
      /\ \A i \in 1 .. Len(ready[v]) - 1 : ready'[v][i] = ready[v][i + 1]
      /\ \A w \in 0 .. n - 1 : w # v => ready'[w] = ready[w]
  BY ReadyPop
<1>2. \A w \in 0 .. n - 1 : Len(ready[w]) \in Nat
  BY QueueTypes
<1> TAKE y
<1>3. ASSUME NEW w \in 0 .. n - 1, NEW i \in 1 .. Len(ready[w]), ready[w][i] = y
      PROVE  IsReady(y)' \/ y = Head(ready[v])
  <2>1. CASE w # v
    BY <1>1, <1>3, <2>1 DEF IsReady
  <2>2. CASE w = v /\ i > 1
    <3>1. i - 1 \in 1 .. Len(ready'[v]) /\ ready'[v][i - 1] = y
      BY <1>1, <1>2, <1>3, <2>2
    <3> QED
      BY <3>1 DEF IsReady
  <2>3. CASE w = v /\ i = 1
    BY <1>1, <1>3, <2>3
  <2> QED
    BY <1>2, <2>1, <2>2, <2>3
<1>4. CASE y = Head(ready[v])
  <2>1. 1 \in 1 .. Len(ready[v])
    BY <1>1, <1>2
  <2> QED
    BY <1>1, <1>4, <2>1 DEF IsReady
<1>5. ASSUME NEW w \in 0 .. n - 1, NEW i \in 1 .. Len(ready'[w]), ready'[w][i] = y
      PROVE  IsReady(y)
  <2>1. CASE w # v
    BY <1>1, <1>5, <2>1 DEF IsReady
  <2>2. CASE w = v
    <3>1. i + 1 \in 1 .. Len(ready[v]) /\ ready[v][i + 1] = y
      BY <1>1, <1>2, <1>5, <2>2
    <3> QED
      BY <3>1 DEF IsReady
  <2> QED
    BY <2>1, <2>2
<1> QED
  BY <1>3, <1>4, <1>5 DEF IsReady

\* A task that is nowhere else joins a queue.
LEMMA PushApart ==
  ASSUME WorkTypes, Apart, NEW v \in 0 .. n - 1, NEW x \in Tasks, n' = n,
         ready' = [ready EXCEPT ![v] = Append(@, x)], ~IsReady(x),
         Len(waiting') \in Nat, Len(waiting') <= Len(waiting),
         \A j \in 1 .. Len(waiting') : waiting'[j] = waiting[j] /\ waiting[j] # x,
         running' = running \/ running' = None, running' # x
  PROVE  Apart'
<1>1. /\ \A w \in 0 .. n - 1 :
           /\ Len(ready'[w]) = IF w = v THEN Len(ready[v]) + 1 ELSE Len(ready[w])
           /\ \A i \in 1 .. Len(ready[w]) : ready'[w][i] = ready[w][i]
      /\ ready'[v][Len(ready[v]) + 1] = x
  BY ReadyPush
<1>2. /\ \A w \in 0 .. n - 1 : /\ Len(ready[w]) \in Nat
                               /\ \A i \in 1 .. Len(ready[w]) : ready[w][i] \in Tasks
      /\ Len(waiting) \in Nat /\ \A j \in 1 .. Len(waiting) : waiting[j] \in Tasks
      /\ None \notin Tasks
  <2>1. 0 \in 0 .. n - 1
    BY NextWorker
  <2> QED
    BY <2>1, QueueTypes, SchedulerConstants
<1>3. \A w \in 0 .. n - 1 : \A i \in 1 .. Len(ready[w]) : ready[w][i] # x
  BY DEF IsReady
<1>4. \A w \in 0 .. n - 1 : \A i \in 1 .. Len(ready'[w]) :
        \/ i \in 1 .. Len(ready[w]) /\ ready'[w][i] = ready[w][i] /\ ready[w][i] # x
        \/ w = v /\ i = Len(ready[v]) + 1 /\ ready'[w][i] = x
  BY <1>1, <1>2, <1>3
<1>5. \A j \in 1 .. Len(waiting') :
        j \in 1 .. Len(waiting) /\ waiting'[j] = waiting[j] /\ waiting[j] # x
  BY <1>2
<1>6. \A w, u \in 0 .. n - 1 : \A i \in 1 .. Len(ready'[w]), j \in 1 .. Len(ready'[u]) :
        ready'[w][i] = ready'[u][j] => w = u /\ i = j
  BY <1>4 DEF Apart
<1>7. \A i, j \in 1 .. Len(waiting') : waiting'[i] = waiting'[j] => i = j
  BY <1>5 DEF Apart
<1>8. \A w \in 0 .. n - 1 : \A i \in 1 .. Len(ready'[w]), j \in 1 .. Len(waiting') :
        ready'[w][i] # waiting'[j]
  BY <1>4, <1>5 DEF Apart
<1>9. \A w \in 0 .. n - 1 : \A i \in 1 .. Len(ready'[w]) : ready'[w][i] # running'
  BY <1>2, <1>4 DEF Apart
<1>10. \A j \in 1 .. Len(waiting') : waiting'[j] # running'
  BY <1>2, <1>5 DEF Apart
<1> QED
  BY <1>6, <1>7, <1>8, <1>9, <1>10 DEF Apart

\* The task at the front of a queue runs.
LEMMA PopApart ==
  ASSUME WorkTypes, Apart, NEW v \in 0 .. n - 1, ready[v] # <<>>, n' = n,
         ready' = [ready EXCEPT ![v] = Tail(@)], waiting' = waiting,
         running' = Head(ready[v])
  PROVE  Apart'
<1>1. /\ Len(ready[v]) > 0 /\ Head(ready[v]) = ready[v][1]
      /\ Len(ready'[v]) = Len(ready[v]) - 1
      /\ \A i \in 1 .. Len(ready[v]) - 1 : ready'[v][i] = ready[v][i + 1]
      /\ \A w \in 0 .. n - 1 : w # v => ready'[w] = ready[w]
  BY ReadyPop
<1>2. \A w \in 0 .. n - 1 : Len(ready[w]) \in Nat
  BY QueueTypes
<1> DEFINE At(w, i) == IF w = v THEN i + 1 ELSE i
<1>3. \A w \in 0 .. n - 1 : \A i \in 1 .. Len(ready'[w]) :
        /\ At(w, i) \in 1 .. Len(ready[w]) /\ ready'[w][i] = ready[w][At(w, i)]
        /\ w = v => At(w, i) # 1
  <2> SUFFICES ASSUME NEW w \in 0 .. n - 1, NEW i \in 1 .. Len(ready'[w])
               PROVE  /\ At(w, i) \in 1 .. Len(ready[w]) /\ ready'[w][i] = ready[w][At(w, i)]
                      /\ w = v => At(w, i) # 1
    OBVIOUS
  <2>1. CASE w = v
    BY <1>1, <1>2, <2>1
  <2>2. CASE w # v
    BY <1>1, <1>2, <2>2
  <2> QED
    BY <2>1, <2>2
<1>4. \A w : \A i, j \in Int : At(w, i) = At(w, j) => i = j
  OBVIOUS
<1>5. 1 \in 1 .. Len(ready[v]) /\ running' = ready[v][1]
  BY <1>1, <1>2
<1> HIDE DEF At
<1>6. \A w, u \in 0 .. n - 1 : \A i \in 1 .. Len(ready'[w]), j \in 1 .. Len(ready'[u]) :
        ready'[w][i] = ready'[u][j] => w = u /\ i = j
  BY <1>3, <1>4 DEF Apart
<1>7. \A w \in 0 .. n - 1 : \A i \in 1 .. Len(ready'[w]), j \in 1 .. Len(waiting) :
        ready'[w][i] # waiting[j]
  BY <1>3 DEF Apart
<1>8. \A w \in 0 .. n - 1 : \A i \in 1 .. Len(ready'[w]) : ready'[w][i] # running'
  BY <1>3, <1>5 DEF Apart
<1>9. \A j \in 1 .. Len(waiting) : waiting[j] # running'
  BY <1>5 DEF Apart
<1> QED
  BY SMTT(30), <1>6, <1>7, <1>8, <1>9 DEF Apart

\* Who waits or runs is in no queue, and who waits does not run.
LEMMA Elsewhere ==
  ASSUME WorkTypes, Apart
  PROVE  /\ \A y : IsReady(y) => ~IsWaiting(y) /\ y # running
         /\ \A y : IsWaiting(y) => y # running
BY DEF Apart, IsReady, IsWaiting

\* The running task leaves the scheduler.
LEMMA LeavePlaced ==
  ASSUME WorkTypes, Apart, Placed, running \in Tasks,
         n' = n, ready' = ready, waiting' = waiting, running' = None,
         alive' = alive \ {running}
  PROVE  Apart' /\ Placed'
<1>1. None \notin Tasks /\ 0 \in 0 .. n - 1
  BY NextWorker, SchedulerConstants
<1>2. \A w \in 0 .. n - 1 : \A i \in 1 .. Len(ready[w]) : ready[w][i] # None
  BY <1>1, QueueTypes
<1>3. \A j \in 1 .. Len(waiting) : waiting[j] # None
  BY <1>1, QueueTypes
<1>4. Apart'
  BY <1>2, <1>3 DEF Apart
<1>5. ~IsReady(running) /\ ~IsWaiting(running)
  BY Elsewhere
<1>6. \A y : (IsReady(y)' <=> IsReady(y)) /\ (IsWaiting(y)' <=> IsWaiting(y))
  BY DEF IsReady, IsWaiting
<1>7. Placed'
  BY <1>1, <1>5, <1>6 DEF Placed
<1> QED
  BY <1>4, <1>7

LEMMA SamePlaced ==
  ASSUME PlaceInv, n' = n, ready' = ready, waiting' = waiting, running' = running,
         alive' = alive
  PROVE  Apart' /\ Placed'
<1>1. Apart'
  BY DEF PlaceInv, Apart
<1>2. \A y : (IsReady(y)' <=> IsReady(y)) /\ (IsWaiting(y)' <=> IsWaiting(y))
  BY DEF IsReady, IsWaiting
<1>3. Placed'
  BY <1>2 DEF PlaceInv, Placed
<1> QED
  BY <1>1, <1>3

LEMMA AcceptPlaced ==
  ASSUME WorkTypes, PlaceInv, NEW x \in Tasks, Accepts(x)
  PROVE  PlaceInv'
<1>1. /\ x \in unused /\ unused' = unused \ {x} /\ Submitted(x)
      /\ n' = n /\ waiting' = waiting /\ phase' = phase /\ running' = running
  BY DEF Accepts
<1>2. x \notin alive /\ ~IsReady(x) /\ ~IsWaiting(x) /\ running # x
  BY <1>1 DEF PlaceInv, Fresh, Placed
<1>3. \A y \in Tasks : y # x => owner'[y] = owner[y]
  BY DEF Accepts, WorkTypes
<1>4. alive' \subseteq alive \cup {x}
  BY <1>1 DEF Submitted
<1>5. Fresh'
  BY <1>1, <1>3, <1>4 DEF PlaceInv, Fresh, WorkTypes
<1>6. Awaited'
  BY <1>1 DEF PlaceInv, Awaited
<1>7. rr \in 0 .. n - 1 /\ Len(waiting) \in Nat
  BY QueueTypes DEF WorkTypes
<1>8. CASE HasRoom
  <2>1. ready' = [ready EXCEPT ![rr] = Append(@, x)] /\ alive' = alive \cup {x}
    BY <1>1, <1>8 DEF Submitted
  <2>2. Apart'
    <3>1. \A j \in 1 .. Len(waiting) : waiting[j] # x
      BY <1>2 DEF IsWaiting
    <3>2. /\ Len(waiting') \in Nat /\ Len(waiting') <= Len(waiting)
          /\ \A j \in 1 .. Len(waiting') : waiting'[j] = waiting[j] /\ waiting[j] # x
      BY <1>1, <1>7, <3>1
    <3>3. Apart /\ running' = running /\ running' # x
      BY <1>1, <1>2 DEF PlaceInv
    <3> QED
      BY <1>1, <1>2, <1>7, <2>1, <3>2, <3>3, PushApart
  <2>3. \A y : IsReady(y)' <=> IsReady(y) \/ y = x
    BY <1>1, <1>7, <2>1, PushPlaces
  <2>4. \A y : IsWaiting(y)' <=> IsWaiting(y)
    BY <1>1 DEF IsWaiting
  <2>5. Placed'
    BY <1>1, <1>2, <2>1, <2>3, <2>4 DEF PlaceInv, Placed
  <2> QED
    BY <1>5, <1>6, <2>2, <2>5 DEF PlaceInv
<1>9. CASE ~HasRoom
  <2>1. ready' = ready /\ alive' = alive
    BY <1>1, <1>9 DEF Submitted
  <2> QED
    BY <1>1, <1>5, <1>6, <2>1, SamePlaced DEF PlaceInv
<1> QED
  BY <1>8, <1>9

LEMMA WakePlaced ==
  ASSUME WorkTypes, PlaceInv, Wakes
  PROVE  PlaceInv'
<1>1. n' = n /\ running' = running /\ alive' = alive /\ phase' = phase
      /\ unused' = unused /\ owner' = owner
  BY DEF Wakes, IoWake, queues, tasks
<1>2. Fresh'
  BY <1>1 DEF PlaceInv, Fresh
<1>3. CASE UNCHANGED <<ready, waiting>>
  <2>1. Awaited'
    BY <1>1, <1>3 DEF PlaceInv, Awaited
  <2> QED
    BY <1>1, <1>2, <1>3, <2>1, SamePlaced DEF PlaceInv
<1>4. CASE /\ waiting # <<>>
           /\ ready' = [ready EXCEPT ![rr] = Append(@, waiting[Len(waiting)])]
           /\ waiting' = SubSeq(waiting, 1, Len(waiting) - 1)
  <2> DEFINE x == waiting[Len(waiting)]
  <2>1. waiting \in Seq(Tasks) /\ rr \in 0 .. n - 1
    BY DEF WorkTypes
  <2>2. /\ Len(waiting) \in Nat \ {0} /\ x \in Tasks /\ Len(waiting') = Len(waiting) - 1
        /\ \A j \in 1 .. Len(waiting') : waiting'[j] = waiting[j]
    BY <1>4, <2>1, PopFacts
  <2>3. Len(waiting) \in 1 .. Len(waiting)
    BY <2>2
  <2>4. IsWaiting(x)
    BY <2>3 DEF IsWaiting
  <2>5. ~IsReady(x) /\ x # running
    BY <2>4, Elsewhere DEF PlaceInv
  <2>6. \A j \in 1 .. Len(waiting') : j \in 1 .. Len(waiting) /\ waiting[j] # x
    BY <2>2, <2>3 DEF PlaceInv, Apart
  <2>7. ready' = [ready EXCEPT ![rr] = Append(@, x)]
    BY <1>4
  <2>8. \A y : IsWaiting(y) <=> IsWaiting(y)' \/ y = x
    <3> TAKE y
    <3>1. ASSUME NEW j \in 1 .. Len(waiting), waiting[j] = y, y # x
          PROVE  IsWaiting(y)'
      <4>1. j \in 1 .. Len(waiting')
        BY <2>2, <3>1
      <4> QED
        BY <2>2, <3>1, <4>1 DEF IsWaiting
    <3> HIDE DEF x
    <3> QED
      BY <2>2, <2>4, <2>6, <3>1 DEF IsWaiting
  <2> HIDE DEF x
  <2>9. Apart'
    <3>1. Len(waiting') \in Nat /\ Len(waiting') <= Len(waiting)
      BY <2>2
    <3> QED
      BY <1>1, <2>1, <2>2, <2>5, <2>6, <2>7, <3>1, PushApart DEF PlaceInv
  <2>10. \A y : IsReady(y)' <=> IsReady(y) \/ y = x
    BY <1>1, <2>1, <2>2, <2>7, PushPlaces
  <2>11. Placed'
    BY <1>1, <2>4, <2>8, <2>10 DEF PlaceInv, Placed
  <2>12. Awaited'
    BY <1>1, <2>2, <2>6 DEF PlaceInv, Awaited
  <2> QED
    BY <1>2, <2>9, <2>11, <2>12 DEF PlaceInv
<1> QED
  BY <1>3, <1>4 DEF Wakes, IoWake, queues

LEMMA RunPlaced ==
  ASSUME WorkTypes, PlaceInv, drain.w \in 0 .. n - 1, RunTask
  PROVE  PlaceInv'
<1> DEFINE x == Head(ready[drain.w])
<1>1. /\ ready[drain.w] # <<>> /\ running = None /\ running' = x
      /\ ready' = [ready EXCEPT ![drain.w] = Tail(@)]
      /\ n' = n /\ waiting' = waiting /\ alive' = alive /\ phase' = phase
      /\ unused' = unused /\ owner' = owner
  BY DEF RunTask, Between, tasks
<1>2. x \in Tasks
  BY <1>1, ReadyPop
<1>3. Fresh' /\ Awaited'
  BY <1>1 DEF PlaceInv, Fresh, Awaited
<1>4. Apart'
  BY <1>1, PopApart DEF PlaceInv
<1>5. \A y : IsReady(y) <=> IsReady(y)' \/ y = x
  BY <1>1, PopPlaces DEF PlaceInv
<1>6. \A y : IsWaiting(y)' <=> IsWaiting(y)
  BY <1>1 DEF IsWaiting
<1>7. None \notin Tasks
  BY SchedulerConstants
<1> HIDE DEF x
<1>8. Placed'
  BY <1>1, <1>5, <1>6, <1>7 DEF PlaceInv, Placed
<1> QED
  BY <1>3, <1>4, <1>8 DEF PlaceInv

\* A task suspends or is done: its frame changes, and it is not fresh.
LEMMA FrameChanges ==
  ASSUME WorkTypes, PlaceInv, running \in Tasks, unused' = unused, alive' \subseteq alive,
         \A y \in Tasks : y # running => phase'[y] = phase[y] /\ owner'[y] = owner[y]
  PROVE  Fresh' /\ running \notin unused
<1>1. running \in alive
  BY DEF PlaceInv, Placed
<1>2. running \notin unused
  BY <1>1 DEF PlaceInv, Fresh
<1> QED
  BY <1>2 DEF PlaceInv, Fresh, WorkTypes

LEMMA OthersAwaited ==
  ASSUME WorkTypes, PlaceInv, running \in Tasks, waiting' = waiting,
         \A y \in Tasks : y # running => phase'[y] = phase[y]
  PROVE  Awaited'
<1>1. 0 \in 0 .. n - 1
  BY NextWorker
<1>2. \A j \in 1 .. Len(waiting) : waiting[j] \in Tasks /\ waiting[j] # running
  BY <1>1, QueueTypes DEF PlaceInv, Apart
<1> QED
  BY <1>2 DEF PlaceInv, Awaited

LEMMA DonePlaced ==
  ASSUME WorkTypes, PlaceInv, TaskDone
  PROVE  PlaceInv'
<1>1. /\ running \in Tasks /\ running' = None /\ alive' = alive \ {running}
      /\ n' = n /\ ready' = ready /\ waiting' = waiting /\ unused' = unused
  BY DEF TaskDone, queues, WorkTypes
<1>2. \A y \in Tasks : y # running => phase'[y] = phase[y] /\ owner'[y] = owner[y]
  BY DEF TaskDone, WorkTypes
<1>3. Fresh'
  BY <1>1, <1>2, FrameChanges
<1>4. Awaited'
  BY <1>1, <1>2, OthersAwaited
<1> QED
  BY <1>1, <1>3, <1>4, LeavePlaced DEF PlaceInv

LEMMA SuspendFacts ==
  ASSUME WorkTypes, NEW room, Suspends(room)
  PROVE  /\ running \in Tasks /\ running' = None /\ n' = n /\ rr' = rr /\ unused' = unused
         /\ UNCHANGED <<seeds, taken, given, skewed>>
         /\ alive' = IF room THEN alive ELSE alive \ {running}
         /\ phase'[running] > 0 /\ phase'[running] \in Nat
         /\ \A y \in Tasks : y # running => phase'[y] = phase[y]
         /\ owner' = owner
<1>1. running \in Tasks /\ phase' = [phase EXCEPT ![running] = @ + 1]
  BY DEF Suspends, WorkTypes
<1>2. phase[running] \in Nat /\ phase \in [Tasks -> Nat]
  BY <1>1 DEF WorkTypes
<1>3. /\ phase'[running] = phase[running] + 1
      /\ \A y \in Tasks : y # running => phase'[y] = phase[y]
  BY <1>1, <1>2
<1>4. phase'[running] > 0 /\ phase'[running] \in Nat
  BY <1>2, <1>3
<1> QED
  BY <1>1, <1>3, <1>4 DEF Suspends, seeding

LEMMA YieldPlaced ==
  ASSUME WorkTypes, PlaceInv, drain.w \in 0 .. n - 1, TaskYields
  PROVE  PlaceInv'
<1> DEFINE room == Len(ready[drain.w]) < Room
<1>1. /\ Suspends(room) /\ waiting' = waiting
      /\ ready' = IF room THEN [ready EXCEPT ![drain.w] = Append(@, running)] ELSE ready
  BY DEF TaskYields
<1> HIDE DEF room
<1>2. /\ running \in Tasks /\ running' = None /\ n' = n /\ unused' = unused
      /\ alive' = IF room THEN alive ELSE alive \ {running}
      /\ \A y \in Tasks : y # running => phase'[y] = phase[y]
      /\ owner' = owner
  BY <1>1, SuspendFacts
<1>3. Fresh' /\ Awaited'
  BY <1>1, <1>2, FrameChanges, OthersAwaited
<1>4. CASE room
  <2>1. ready' = [ready EXCEPT ![drain.w] = Append(@, running)] /\ alive' = alive
    BY <1>1, <1>2, <1>4
  <2>2. ~IsReady(running) /\ ~IsWaiting(running) /\ None \notin Tasks
    BY Elsewhere, SchedulerConstants DEF PlaceInv
  <2>3. \A j \in 1 .. Len(waiting) : waiting[j] # running
    BY <2>2 DEF IsWaiting
  <2>4. Len(waiting) \in Nat
    BY QueueTypes
  <2>5. Apart'
    <3>1. /\ Len(waiting') \in Nat /\ Len(waiting') <= Len(waiting)
          /\ \A j \in 1 .. Len(waiting') : waiting'[j] = waiting[j] /\ waiting[j] # running
      BY <1>1, <2>3, <2>4
    <3>2. Apart /\ running' = None /\ running' # running
      BY <1>2, <2>2 DEF PlaceInv
    <3> QED
      BY <1>2, <2>1, <2>2, <3>1, <3>2, PushApart
  <2>6. \A y : IsReady(y)' <=> IsReady(y) \/ y = running
    BY <1>2, <2>1, PushPlaces
  <2>7. \A y : IsWaiting(y)' <=> IsWaiting(y)
    BY <1>1 DEF IsWaiting
  <2>8. Placed'
    BY <1>2, <2>1, <2>2, <2>6, <2>7 DEF PlaceInv, Placed
  <2> QED
    BY <1>3, <2>5, <2>8 DEF PlaceInv
<1>5. CASE ~room
  BY <1>1, <1>2, <1>3, <1>5, LeavePlaced DEF PlaceInv
<1> QED
  BY <1>4, <1>5

LEMMA AwaitPlaced ==
  ASSUME WorkTypes, PlaceInv, TaskAwaitsIo
  PROVE  PlaceInv'
<1> DEFINE room == Len(waiting) < WaitCap
<1>1. /\ Suspends(room) /\ ready' = ready
      /\ waiting' = IF room THEN Append(waiting, running) ELSE waiting
  BY DEF TaskAwaitsIo
<1> HIDE DEF room
<1>2. /\ running \in Tasks /\ running' = None /\ n' = n /\ unused' = unused
      /\ alive' = IF room THEN alive ELSE alive \ {running}
      /\ phase'[running] > 0
      /\ \A y \in Tasks : y # running => phase'[y] = phase[y]
      /\ owner' = owner
  BY <1>1, SuspendFacts
<1>3. Fresh'
  BY <1>1, <1>2, FrameChanges
<1>4. CASE room
  <2>1. waiting \in Seq(Tasks) /\ waiting' = Append(waiting, running) /\ alive' = alive
    BY <1>1, <1>2, <1>4 DEF WorkTypes
  <2>2. /\ Len(waiting') = Len(waiting) + 1 /\ Len(waiting) \in Nat
        /\ \A j \in 1 .. Len(waiting) : waiting'[j] = waiting[j]
        /\ waiting'[Len(waiting) + 1] = running
    BY <1>2, <2>1, PushFacts
  <2>3. ~IsReady(running) /\ ~IsWaiting(running) /\ None \notin Tasks /\ 0 \in 0 .. n - 1
    BY Elsewhere, NextWorker, SchedulerConstants DEF PlaceInv
  <2>4. \A j \in 1 .. Len(waiting') :
          \/ j \in 1 .. Len(waiting) /\ waiting'[j] = waiting[j] /\ waiting[j] # running
          \/ j = Len(waiting) + 1 /\ waiting'[j] = running
    BY <2>2, <2>3 DEF IsWaiting
  <2>5. /\ \A w \in 0 .. n - 1 : \A i \in 1 .. Len(ready[w]) :
             ready[w][i] # running /\ ready[w][i] # None
        /\ \A j \in 1 .. Len(waiting) : waiting[j] \in Tasks
    BY <2>3, QueueTypes DEF IsReady
  <2>6. Apart'
    <3>1. \A i, j \in 1 .. Len(waiting') : waiting'[i] = waiting'[j] => i = j
      BY <2>4 DEF PlaceInv, Apart
    <3>2. \A w \in 0 .. n - 1 : \A i \in 1 .. Len(ready[w]), j \in 1 .. Len(waiting') :
            ready[w][i] # waiting'[j]
      BY <2>4, <2>5 DEF PlaceInv, Apart
    <3>3. \A j \in 1 .. Len(waiting') : waiting'[j] # None
      BY <1>2, <2>3, <2>4, <2>5
    <3> QED
      BY <1>1, <1>2, <2>5, <3>1, <3>2, <3>3 DEF PlaceInv, Apart
  <2>7. \A y : IsWaiting(y)' <=> IsWaiting(y) \/ y = running
    <3> TAKE y
    <3>1. ASSUME IsWaiting(y) \/ y = running
          PROVE  IsWaiting(y)'
      <4>1. Len(waiting) + 1 \in 1 .. Len(waiting') /\ 1 .. Len(waiting) \subseteq 1 .. Len(waiting')
        BY <2>2
      <4> QED
        BY <2>2, <3>1, <4>1 DEF IsWaiting
    <3>2. ASSUME IsWaiting(y)'
          PROVE  IsWaiting(y) \/ y = running
      BY <2>4, <3>2 DEF IsWaiting
    <3> QED
      BY <3>1, <3>2
  <2>8. \A y : IsReady(y)' <=> IsReady(y)
    BY <1>1, <1>2 DEF IsReady
  <2>9. Placed'
    BY <1>2, <2>1, <2>3, <2>7, <2>8 DEF PlaceInv, Placed
  <2>10. Awaited'
    BY <1>2, <2>4, <2>5 DEF PlaceInv, Awaited
  <2> QED
    BY <1>3, <2>6, <2>9, <2>10 DEF PlaceInv
<1>5. CASE ~room
  <2>1. waiting' = waiting /\ alive' = alive \ {running}
    BY <1>1, <1>2, <1>5
  <2>2. Awaited'
    BY <1>2, <2>1, OthersAwaited
  <2> QED
    BY <1>1, <1>2, <1>3, <2>1, <2>2, LeavePlaced DEF PlaceInv
<1> QED
  BY <1>4, <1>5

LEMMA RestartFacts ==
  ASSUME WorkTypes, NEW x \in Tasks, Restarts(x)
  PROVE  /\ \/ /\ alive' = {x} /\ seeds' = <<x>>
               /\ Len(ready'[rr]) = 1 /\ ready'[rr][1] = x
               /\ \A w \in 0 .. n - 1 : w # rr => Len(ready'[w]) = 0
            \/ /\ alive' = {} /\ seeds' = <<>>
               /\ \A w \in 0 .. n - 1 : Len(ready'[w]) = 0
         /\ Len(waiting') = 0 /\ taken' = 0 /\ n' = n /\ rr \in 0 .. n - 1
         /\ phase' = phase /\ owner' = owner /\ given' = given
         /\ unused' = unused \ {x} /\ running = None /\ running' = None
<1>0. rr \in 0 .. n - 1 /\ Len(<<>>) = 0 /\ Len(<<x>>) = 1 /\ <<x>>[1] = x
  BY DEF WorkTypes
<1>1. CASE /\ ready' = [w \in 0 .. n - 1 |-> IF w = rr THEN <<x>> ELSE <<>>]
           /\ seeds' = <<x>> /\ alive' = {x}
  BY <1>0, <1>1 DEF Restarts
<1>2. CASE /\ ready' = [w \in 0 .. n - 1 |-> <<>>]
           /\ seeds' = <<>> /\ alive' = {}
  BY <1>0, <1>2 DEF Restarts
<1> QED
  BY <1>1, <1>2 DEF Restarts

LEMMA RestartPlaced ==
  ASSUME WorkTypes, PlaceInv, NEW x \in Tasks, Restarts(x)
  PROVE  PlaceInv'
<1>1. /\ \/ /\ alive' = {x}
            /\ Len(ready'[rr]) = 1 /\ ready'[rr][1] = x
            /\ \A w \in 0 .. n - 1 : w # rr => Len(ready'[w]) = 0
         \/ /\ alive' = {}
            /\ \A w \in 0 .. n - 1 : Len(ready'[w]) = 0
      /\ Len(waiting') = 0 /\ n' = n /\ rr \in 0 .. n - 1
      /\ phase' = phase /\ owner' = owner
      /\ unused' = unused \ {x} /\ running' = None
  BY RestartFacts
<1>2. Fresh'
  BY <1>1 DEF PlaceInv, Fresh, WorkTypes
<1>3. Awaited' /\ \A y : ~IsWaiting(y)'
  BY <1>1 DEF Awaited, IsWaiting
<1>4. None \notin Tasks
  BY SchedulerConstants
<1>5. CASE /\ alive' = {x}
           /\ Len(ready'[rr]) = 1 /\ ready'[rr][1] = x
           /\ \A w \in 0 .. n - 1 : w # rr => Len(ready'[w]) = 0
  <2>1. \A w \in 0 .. n - 1 : \A i \in 1 .. Len(ready'[w]) :
          w = rr /\ i = 1 /\ ready'[w][i] = x
    BY <1>5
  <2>2. Apart'
    BY <1>1, <1>4, <2>1 DEF Apart
  <2>3. \A y : IsReady(y)' <=> y = x
    <3>1. 1 \in 1 .. Len(ready'[rr])
      BY <1>5
    <3> QED
      BY <1>1, <1>5, <2>1, <3>1 DEF IsReady
  <2>4. Placed'
    BY <1>1, <1>3, <1>4, <1>5, <2>3 DEF Placed
  <2> QED
    BY <1>2, <1>3, <2>2, <2>4 DEF PlaceInv
<1>6. CASE alive' = {} /\ \A w \in 0 .. n - 1 : Len(ready'[w]) = 0
  <2>1. Apart' /\ \A y : ~IsReady(y)'
    BY <1>1, <1>6 DEF Apart, IsReady
  <2>2. Placed'
    BY <1>1, <1>3, <1>4, <1>6, <2>1 DEF Placed
  <2> QED
    BY <1>2, <1>3, <2>1, <2>2 DEF PlaceInv
<1> QED
  BY <1>1, <1>5, <1>6

LEMMA PlaceStep ==
  ASSUME WorkTypes, PlaceInv, drain.w \in 0 .. n - 1, StepKind
  PROVE  PlaceInv'
<1>1. CASE UNCHANGED work
  <2>1. Fresh' /\ Awaited'
    BY <1>1 DEF work, queues, tasks, PlaceInv, Fresh, Awaited
  <2> QED
    BY <1>1, <2>1, SamePlaced DEF work, queues, tasks, PlaceInv
<1> QED
  BY <1>1, AcceptPlaced, RestartPlaced, WakePlaced, RunPlaced, DonePlaced, YieldPlaced,
     AwaitPlaced DEF StepKind

LEMMA SameWorkers ==
  ASSUME StepKind
  PROVE  n' = n
BY DEF StepKind, work, queues, Accepts, Restarts, Wakes, IoWake, RunTask, TaskDone,
       TaskYields, TaskAwaitsIo, Suspends

-----------------------------------------------------------------------------
(* The invariant is kept, and implies that no task is lost or doubled. *)

IInv == Types /\ CallerInv /\ PlaceInv

LEMMA InitIInv == Init => IInv
BY InitWorkTypes DEF IInv, Types

LEMMA IInvStep == IInv /\ [Next]_vars => IInv' /\ StepKind
<1> SUFFICES ASSUME IInv, [Next]_vars
             PROVE  IInv' /\ StepKind
  OBVIOUS
<1>1. WorkTypes /\ CallTypes /\ Types /\ CallerInv /\ PlaceInv /\ Fresh
  BY DEF IInv, Types, PlaceInv
<1>2. StepKind /\ DrainKind
  BY <1>1, StepKinds, DrainKinds
<1>3. drain.w \in 0 .. n - 1 /\ n' = n
  BY <1>1, <1>2, SameWorkers DEF CallTypes
<1>4. WorkTypes'
  BY <1>1, <1>2, <1>3, WorkTypesStep
<1>5. CallerInv' /\ (Shaped(drain) /\ drain.w \in 0 .. n - 1)'
  BY <1>1, <1>2, <1>3, CallerStep
<1>6. GroupTypes'
  BY <1>1, GroupTypesStep DEF GroupTypes, CallTypes
<1>7. CallTypes'
  BY <1>5, <1>6 DEF GroupTypes, CallTypes
<1>8. PlaceInv'
  BY <1>1, <1>2, <1>3, PlaceStep
<1> QED
  BY <1>2, <1>4, <1>5, <1>7, <1>8 DEF IInv, Types

LEMMA IInvImpliesTypeOK == IInv => TypeOK
<1> SUFFICES ASSUME IInv
             PROVE  TypeOK
  OBVIOUS
<1>1. WorkTypes /\ CallTypes
  BY DEF IInv, Types
<1>2. n \in 1 .. MaxWorkers /\ rr \in 0 .. n - 1
  BY <1>1 DEF WorkTypes
<1>3. \A w \in 0 .. n - 1 : ready[w] \in Seq(Tasks) /\ Len(ready[w]) <= Room
  BY <1>1 DEF WorkTypes
<1>4. /\ waiting \in Seq(Tasks) /\ Len(waiting) <= WaitCap
      /\ Len(seeds) <= SeedMax /\ taken <= Len(seeds)
  BY <1>1 DEF WorkTypes
<1>5. bound \in Seq(Ctxs) /\ Len(bound) <= CtxSlots
  BY <1>1 DEF CallTypes
<1>6. \A g \in Groups : spawned[g] \in 0 .. GroupCap
  BY <1>1 DEF CallTypes
<1>7. \A x \in Tasks : phase[x] \in 0 .. Awaits[x]
  <2> TAKE x \in Tasks
  <2>1. phase[x] \in Nat /\ phase[x] <= Awaits[x] /\ Awaits[x] \in Nat
    BY <1>1, SchedulerConstants DEF WorkTypes
  <2> QED
    BY <2>1
<1> QED
  BY <1>2, <1>3, <1>4, <1>5, <1>6, <1>7 DEF TypeOK

LEMMA AtMostOne ==
  ASSUME NEW S, \A p, q \in S : p = q
  PROVE  Cardinality(S) = IF S = {} THEN 0 ELSE 1
<1>1. CASE S = {}
  BY <1>1, FS_EmptySet
<1>2. CASE S # {}
  <2>1. PICK p \in S : TRUE
    BY <1>2
  <2>2. S = {p}
    BY <2>1
  <2> QED
    BY <1>2, <2>2, FS_Singleton
<1> QED
  BY <1>1, <1>2

LEMMA IInvImpliesConserved == IInv => Conserved
<1> SUFFICES ASSUME IInv, NEW x \in Tasks
             PROVE  LET inReady == {p \in (0 .. n - 1) \X (1 .. Room) :
                                      p[2] <= Len(ready[p[1]]) /\ ready[p[1]][p[2]] = x}
                    IN Cardinality(inReady) + Occurrences(waiting, x)
                         + (IF running = x THEN 1 ELSE 0) = IF x \in alive THEN 1 ELSE 0
  BY DEF Conserved
<1> DEFINE inReady == {p \in (0 .. n - 1) \X (1 .. Room) :
                         p[2] <= Len(ready[p[1]]) /\ ready[p[1]][p[2]] = x}
           inWait == {j \in DOMAIN waiting : waiting[j] = x}
<1>1. WorkTypes /\ Apart /\ Placed
  BY DEF IInv, Types, PlaceInv
<1>2. /\ \A w \in 0 .. n - 1 : Len(ready[w]) \in Nat /\ Len(ready[w]) <= Room
      /\ Len(waiting) \in Nat /\ DOMAIN waiting = 1 .. Len(waiting)
  BY <1>1, QueueTypes, NextWorker DEF WorkTypes
<1>3. /\ \A p \in inReady : /\ p = <<p[1], p[2]>> /\ p[1] \in 0 .. n - 1
                            /\ p[2] \in 1 .. Len(ready[p[1]]) /\ ready[p[1]][p[2]] = x
  BY <1>2
<1>4. \A p, q \in inReady : p = q
  <2> TAKE p, q \in inReady
  <2>1. p[1] = q[1] /\ p[2] = q[2]
    BY <1>1, <1>3 DEF Apart
  <2> QED
    BY <1>3, <2>1
<1>5. \A i, j \in inWait : i = j
  BY <1>1, <1>2 DEF Apart
<1>6. inReady # {} <=> IsReady(x)
  <2>1. ASSUME NEW w \in 0 .. n - 1, NEW i \in 1 .. Len(ready[w]), ready[w][i] = x
        PROVE  inReady # {}
    <3>1. <<w, i>> \in inReady
      BY <1>2, <2>1, Sizes
    <3> QED
      BY <3>1
  <2> QED
    BY <1>3, <2>1 DEF IsReady
<1>7. inWait # {} <=> IsWaiting(x)
  BY <1>2 DEF IsWaiting
<1>8. /\ Cardinality(inReady) = IF inReady = {} THEN 0 ELSE 1
      /\ Cardinality(inWait) = IF inWait = {} THEN 0 ELSE 1
  <2> HIDE DEF inReady, inWait
  <2> QED
    BY <1>4, <1>5, AtMostOne
<1>9. /\ IsReady(x) => ~IsWaiting(x) /\ x # running
      /\ IsWaiting(x) => x # running
  BY <1>1, Elsewhere
<1>10. x \in alive <=> IsReady(x) \/ IsWaiting(x) \/ running = x
  BY <1>1 DEF Placed
<1> HIDE DEF inReady, inWait
<1>11. Cardinality(inReady) + Cardinality(inWait) + (IF running = x THEN 1 ELSE 0)
         = IF x \in alive THEN 1 ELSE 0
  BY <1>6, <1>7, <1>8, <1>9, <1>10
<1> QED
  BY <1>11 DEF inReady, inWait, Occurrences

LEMMA IInvHolds == Spec => []IInv
<1>1. IInv /\ [Next]_vars => IInv'
  BY IInvStep
<1> QED
  BY <1>1, InitIInv, PTL DEF Spec

\* Queues, the wait list, the seed ring and the stack of bound contexts stay
\* within their sizes, and a frame within its awaits.
THEOREM SchedulerTypeCorrect == Spec => []TypeOK
BY IInvHolds, IInvImpliesTypeOK, PTL

\* Whatever the program and its tasks do - spawn, wake, yield, await, fill a
\* queue, reset the scheduler, abandon a drain -, a task that was accepted is
\* in one place exactly until it is done, dropped or reset.
THEOREM TasksConserved == Spec => []Conserved
BY IInvHolds, IInvImpliesConserved, PTL

-----------------------------------------------------------------------------
(* The leak check *)

LEMMA LeakKept ==
  ASSUME LeakCheckSound,
         \A g \in Groups \ JoinSets :
           spawned'[g] = 0 \/ joined'[g] =>
             \/ spawned[g] = 0 \/ joined[g]
             \/ \A x \in alive' : owner'[x] = g => x \in abandoned',
         \A x \in alive' :
           \/ owner'[x] \notin Groups
           \/ x \in alive /\ owner'[x] = owner[x] /\ (x \in abandoned => x \in abandoned')
  PROVE  LeakCheckSound'
BY DEF LeakCheckSound

\* The tasks of a drain that runs dry are all done.
LEMMA IdleIsEmpty ==
  ASSUME IInv, AllIdle, running = None
  PROVE  alive = {}
<1>1. waiting = <<>> /\ \A w \in 0 .. n - 1 : ready[w] = <<>>
  BY DEF AllIdle
<1>2. Len(<<>>) = 0
  OBVIOUS
<1>3. \A y : ~IsReady(y) /\ ~IsWaiting(y)
  BY <1>1, <1>2 DEF IsReady, IsWaiting
<1>4. None \notin Tasks
  BY SchedulerConstants
<1> QED
  BY <1>3, <1>4 DEF IInv, Types, WorkTypes, PlaceInv, Placed

LEMMA RestartLeak ==
  ASSUME IInv, LeakCheckSound, NEW x \in Tasks, Restarts(x), UNCHANGED groups
  PROVE  LeakCheckSound'
<1>1. alive' \subseteq {x} /\ owner' = owner /\ owner[x] = None
  BY DEF Restarts
<1>2. None \notin Groups
  BY SchedulerConstants
<1> QED
  BY <1>1, <1>2, LeakKept DEF groups

LEMMA EndDrainLeak ==
  ASSUME IInv, LeakCheckSound, NEW total, EndDrain(total), Between, running' = running,
         abandoned \subseteq abandoned',
         total = Cancelled \/ alive \subseteq abandoned'
  PROVE  LeakCheckSound'
<1>1. CASE UNCHANGED <<tasks, groups>>
  BY <1>1, LeakKept DEF tasks, groups
<1>2. CASE /\ drain.by \in Groups
           /\ total # Cancelled \/ drain.by \in JoinSets
           /\ joined' = [joined EXCEPT ![drain.by] = TRUE]
           /\ spawned' = [spawned EXCEPT ![drain.by] = 0]
           /\ UNCHANGED tasks
  <2>1. owner' = owner /\ alive' = alive
    BY <1>2 DEF tasks
  <2>2. CASE alive \subseteq abandoned'
    BY <2>1, <2>2, LeakKept
  <2>3. CASE drain.by \in JoinSets
    <3>1. spawned \in [Groups -> 0 .. GroupCap] /\ joined \in [Groups -> BOOLEAN]
      BY DEF IInv, Types, CallTypes
    <3>2. \A g \in Groups \ JoinSets : spawned'[g] = spawned[g] /\ joined'[g] = joined[g]
      BY <1>2, <2>3, <3>1
    <3> QED
      BY <2>1, <3>2, LeakKept
  <2> QED
    BY <1>2, <2>2, <2>3
<1>3. CASE /\ drain.by = "retry" /\ unused' = unused
           /\ Attempt(drain.task, drain.attempt + 1)
  <2>1. drain.task \in Tasks \ unused /\ owner[drain.task] = None /\ running = None
    BY <1>3 DEF IInv, CallerInv, Between
  <2>2. Restarts(drain.task)
    <3>1. unused' = unused \ {drain.task}
      BY <1>3, <2>1
    <3> QED
      BY <1>3, <2>1, <3>1, AttemptRestarts DEF IInv, Types
  <2>3. UNCHANGED groups
    BY <1>3 DEF Attempt
  <2> QED
    BY <2>1, <2>2, <2>3, RestartLeak
<1> QED
  BY <1>1, <1>2, <1>3, EndDrainCases

LEMMA LeakStep == IInv /\ LeakCheckSound /\ [Next]_vars => LeakCheckSound'
<1> SUFFICES ASSUME IInv, LeakCheckSound, [Next]_vars
             PROVE  LeakCheckSound'
  OBVIOUS
<1>0. /\ WorkTypes /\ Fresh /\ None \notin Tasks /\ None \notin Groups
      /\ spawned \in [Groups -> 0 .. GroupCap] /\ joined \in [Groups -> BOOLEAN]
      /\ owner \in [Tasks -> Groups \cup {None}] /\ alive \subseteq Tasks
      /\ (drain = Off => running = None)
  BY SchedulerConstants DEF IInv, Types, PlaceInv, CallTypes, WorkTypes, CallerInv
<1>1. ASSUME UNCHANGED <<groups, tasks, abandoned>>
      PROVE  LeakCheckSound'
  BY <1>1, LeakKept DEF groups, tasks
<1>2. CASE \/ \E c \in Ctxs : Cancel(c) \/ \E p \in Ctxs : WithCancel(c, p)
           \/ Unbind \/ UserWakes \/ NextQueue \/ RunTask \/ PollWakes \/ PollPeeks
           \/ UNCHANGED vars
  BY <1>1, <1>2 DEF Cancel, WithCancel, Unbind, UserWakes, NextQueue, RunTask, PollWakes,
                    PollPeeks, Polled, vars
<1>3. CASE \E g \in Groups, c \in Ctxs : BindGroup(g, c)
  BY <1>3, LeakKept DEF BindGroup, tasks
<1>4. ASSUME NEW g \in Groups, NEW x \in Tasks, GroupSpawn(g, x)
      PROVE  LeakCheckSound'
  <2>1. /\ x \in unused /\ abandoned' = abandoned
        /\ owner' = [owner EXCEPT ![x] = g]
        /\ alive' = IF HasRoom THEN alive \cup {x} ELSE alive
        /\ spawned' = [spawned EXCEPT ![g] = IF HasRoom THEN @ + 1 ELSE @]
        /\ joined' = [joined EXCEPT ![g] = @ /\ ~HasRoom]
    BY <1>4 DEF GroupSpawn, Submitted
  <2>2. x \notin alive
    BY <1>0, <2>1 DEF Fresh
  <2>3. \A y \in alive : owner'[y] = owner[y]
    BY <1>0, <2>1, <2>2
  <2>4. \A h \in Groups : h # g => spawned'[h] = spawned[h] /\ joined'[h] = joined[h]
    BY <1>0, <2>1
  <2>5. CASE HasRoom
    <3>1. ~joined'[g]
      BY <1>0, <2>1, <2>5
    <3>2. spawned'[g] # 0
      <4>1. spawned[g] \in 0 .. GroupCap
        BY <1>0
      <4>2. spawned'[g] = spawned[g] + 1
        BY <1>0, <2>1, <2>5
      <4> QED
        BY <4>1, <4>2, Sizes
    <3>3. \A h \in Groups \ JoinSets : spawned'[h] = 0 \/ joined'[h] =>
            h # g /\ (spawned[h] = 0 \/ joined[h])
      BY <2>4, <3>1, <3>2
    <3>4. alive' = alive \cup {x} /\ owner'[x] = g
      BY <1>0, <2>1, <2>5
    <3> QED
      BY <2>1, <2>3, <3>3, <3>4 DEF LeakCheckSound
  <2>6. CASE ~HasRoom
    <3>1. alive' = alive
      BY <2>1, <2>6
    <3>2. spawned'[g] = spawned[g] /\ (joined'[g] <=> joined[g])
      <4>1. spawned'[g] = spawned[g]
        BY <1>0, <2>1, <2>6
      <4>2. joined'[g] <=> joined[g]
        BY <1>0, <2>1, <2>6
      <4> QED
        BY <4>1, <4>2
    <3>3. \A h \in Groups \ JoinSets : spawned'[h] = 0 \/ joined'[h] => spawned[h] = 0 \/ joined[h]
      BY <2>4, <3>2
    <3> QED
      BY <2>1, <2>3, <3>1, <3>3, LeakKept
  <2> QED
    BY <2>5, <2>6
<1>5. ASSUME NEW x \in Tasks, NEW c \in Ctxs, SubmitWithCtx(x, c)
      PROVE  LeakCheckSound'
  <2>1. /\ x \in unused /\ owner' = owner /\ abandoned' = abandoned /\ UNCHANGED groups
        /\ alive' \subseteq alive \cup {x}
    BY <1>5 DEF SubmitWithCtx, Submitted
  <2>2. owner[x] = None
    BY <1>0, <2>1 DEF Fresh
  <2> QED
    BY <1>0, <2>1, <2>2, LeakKept DEF groups
<1>6. ASSUME NEW g \in Groups, Join(g)
      PROVE  LeakCheckSound'
  <2>1. spawned' = spawned /\ UNCHANGED <<tasks, abandoned>>
    BY <1>6 DEF Join
  <2>2. CASE joined' = joined
    BY <2>1, <2>2, LeakKept DEF tasks
  <2>3. CASE spawned[g] = 0 /\ joined' = [joined EXCEPT ![g] = TRUE]
    <3>1. \A h \in Groups : joined'[h] => h = g \/ joined[h]
      BY <1>0, <2>3
    <3>2. \A h \in Groups \ JoinSets : spawned'[h] = 0 \/ joined'[h] => spawned[h] = 0 \/ joined[h]
      BY <2>1, <2>3, <3>1
    <3> QED
      BY <2>1, <3>2, LeakKept DEF tasks
  <2> QED
    BY <1>6, <2>2, <2>3 DEF Join
<1>7. ASSUME NEW x \in Tasks, Retry(x)
      PROVE  LeakCheckSound'
  <2>1. owner[x] = None /\ running = None
    BY <1>0, <1>7 DEF Retry, Fresh
  <2>2. Restarts(x)
    BY <1>0, <1>7, <2>1, AttemptRestarts DEF Retry
  <2> QED
    BY <1>7, <2>2, RestartLeak DEF Retry, Attempt
<1>8. ASSUME NEW x \in Tasks, RunI32(x)
      PROVE  LeakCheckSound'
  <2>1. alive' = {x} /\ owner' = owner /\ owner[x] = None /\ UNCHANGED groups
    BY <1>0, <1>8 DEF RunI32, Fresh
  <2> QED
    BY <1>0, <2>1, LeakKept DEF groups
<1>9. CASE DrainAborts
  BY <1>9, EndDrainLeak DEF DrainAborts
<1>10. CASE RoundEnds
  <2>1. CASE AllIdle
    <3>1. Between /\ running = None /\ EndDrain(drain.sum + drain.batch)
          /\ running' = running /\ abandoned' = abandoned
      BY <1>10, <2>1 DEF RoundEnds, QueueDone, Between
    <3>2. alive = {}
      BY <2>1, <3>1, IdleIsEmpty
    <3>3. alive \subseteq abandoned' /\ abandoned \subseteq abandoned'
      BY <3>1, <3>2
    <3> QED
      BY <3>1, <3>3, EndDrainLeak
  <2>2. CASE ~AllIdle
    BY <1>1, <1>10, <2>2 DEF RoundEnds
  <2> QED
    BY <2>1, <2>2
<1>11. CASE PollEmpty
  <2>1. CASE Stalled < StallMax
    BY <1>1, <1>11, <2>1 DEF PollEmpty
  <2>2. CASE ~(Stalled < StallMax)
    <3>1. Between /\ EndDrain(drain.sum) /\ running' = running
          /\ abandoned' = abandoned \cup alive
      BY <1>11, <2>2 DEF PollEmpty
    <3> QED
      BY <3>1, EndDrainLeak
  <2> QED
    BY <2>1, <2>2
<1>12. CASE TaskDone
  <2>1. /\ alive' = alive \ {running} /\ abandoned' = abandoned \ {running}
        /\ owner' = [owner EXCEPT ![running] = None] /\ UNCHANGED groups
    BY <1>12 DEF TaskDone
  <2>2. \A x \in alive' : x \in alive /\ x # running /\ owner'[x] = owner[x]
    BY <1>0, <2>1
  <2> QED
    BY <2>1, <2>2, LeakKept DEF groups
<1>13. CASE TaskYields \/ TaskAwaitsIo
  <2>1. PICK room : Suspends(room)
    BY <1>13 DEF TaskYields, TaskAwaitsIo
  <2>2. alive' \subseteq alive /\ owner' = owner /\ abandoned' = abandoned /\ UNCHANGED groups
    BY <2>1 DEF Suspends
  <2> QED
    BY <2>2, LeakKept DEF groups
<1>14. (\A g \in Groups : Members[g] \subseteq Tasks) /\ Solo \subseteq Tasks
  BY SchedulerConstants
<1> QED
  BY <1>2, <1>3, <1>4, <1>5, <1>6, <1>7, <1>8, <1>9, <1>10, <1>11, <1>12, <1>13, <1>14
     DEF Next, UserStep, DrainStep, TaskStep, Poll

\* A task group whose leak check answers TASK_OK - nothing spawned since its
\* join, or joined - has no task left in any queue, in the wait list or
\* running, but for those a drain gave up on.
THEOREM LeakCheckIsSound == Spec => []LeakCheckSound
<1>1. Init => LeakCheckSound
  BY DEF Init, LeakCheckSound
<1>2. IInv /\ LeakCheckSound /\ [Next]_vars => LeakCheckSound'
  BY LeakStep
<1> QED
  BY <1>1, <1>2, IInvHolds, PTL DEF Spec

-----------------------------------------------------------------------------
(* The seeds of one worker *)

LEMMA SeedsKept ==
  ASSUME SeedsInOrder, n' = n, skewed' = skewed, seeds' = seeds, taken' = taken,
         n = 1 => /\ Startable' = Startable
                  /\ \A i \in Startable : ready'[0][i] = ready[0][i]
  PROVE  SeedsInOrder'
<1>1. Pending' = Pending
  BY DEF Pending
<1> HIDE DEF Pending, Startable
<1> QED
  BY <1>1 DEF SeedsInOrder

\* A queue that keeps its tasks, their frames too, keeps those that start.
LEMMA StartableSame ==
  ASSUME WorkTypes, n = 1, ready' = ready,
         \A i \in 1 .. Len(ready[0]) : phase'[ready[0][i]] = phase[ready[0][i]]
  PROVE  Startable' = Startable
BY DEF Startable

\* So does one that a task joins which has awaited.
LEMMA StartablePush ==
  ASSUME WorkTypes, n = 1, NEW x \in Tasks, ready' = [ready EXCEPT ![0] = Append(@, x)],
         phase'[x] > 0, phase'[x] \in Nat,
         \A i \in 1 .. Len(ready[0]) : phase'[ready[0][i]] = phase[ready[0][i]]
  PROVE  /\ Startable' = Startable
         /\ \A i \in Startable : ready'[0][i] = ready[0][i]
<1>1. 0 \in 0 .. n - 1
  BY NextWorker
<1>2. /\ Len(ready'[0]) = Len(ready[0]) + 1 /\ Len(ready[0]) \in Nat
      /\ \A i \in 1 .. Len(ready[0]) : ready'[0][i] = ready[0][i]
      /\ ready'[0][Len(ready[0]) + 1] = x
  BY <1>1, ReadyPush, QueueTypes
<1>3. \A i \in 1 .. Len(ready'[0]) :
        \/ i \in 1 .. Len(ready[0])
        \/ i = Len(ready[0]) + 1
  BY <1>2
<1>4. \A i \in 1 .. Len(ready[0]) : i \in 1 .. Len(ready'[0])
  BY <1>2
<1>5. phase'[x] # 0
  OBVIOUS
<1>6. ASSUME NEW i \in Startable'
      PROVE  i \in Startable
  BY <1>2, <1>3, <1>5, <1>6 DEF Startable
<1>7. ASSUME NEW i \in Startable
      PROVE  i \in Startable' /\ ready'[0][i] = ready[0][i]
  BY <1>2, <1>4, <1>7 DEF Startable
<1> QED
  BY <1>6, <1>7

LEMMA AcceptSeeds ==
  ASSUME WorkTypes, PlaceInv, SeedsInOrder, NEW x \in Tasks, Accepts(x)
  PROVE  SeedsInOrder'
<1> SUFFICES ASSUME n = 1, ~skewed'
             PROVE  SeedsInOrder'
  <2>1. n' = n
    BY DEF Accepts
  <2> QED
    BY <2>1 DEF SeedsInOrder
<1>1. /\ x \in unused /\ Submitted(x) /\ SeedPushed(x)
      /\ n' = n /\ phase' = phase
  BY DEF Accepts
<1>2. rr = 0 /\ 0 \in 0 .. n - 1
  BY DEF WorkTypes
<1>3. ~skewed /\ Len(seeds) # SeedMax /\ HasRoom /\ taken' = taken
  BY <1>1 DEF SeedPushed
<1>4. /\ seeds \in Seq(Tasks) /\ Len(seeds) \in Nat /\ Len(seeds) < SeedMax
      /\ taken \in Nat /\ taken <= Len(seeds)
  BY <1>3, Sizes DEF WorkTypes
<1>5. seeds' = Append(seeds, x) /\ ready' = [ready EXCEPT ![0] = Append(@, x)]
  BY <1>1, <1>2, <1>3, <1>4 DEF SeedPushed, Submitted
<1>6. /\ Len(seeds') = Len(seeds) + 1
      /\ \A j \in 1 .. Len(seeds) : seeds'[j] = seeds[j]
      /\ seeds'[Len(seeds) + 1] = x
  BY <1>4, <1>5, PushFacts
<1>7. /\ Len(ready'[0]) = Len(ready[0]) + 1 /\ Len(ready[0]) \in Nat
      /\ \A i \in 1 .. Len(ready[0]) : ready'[0][i] = ready[0][i]
      /\ ready'[0][Len(ready[0]) + 1] = x
  BY <1>2, <1>5, ReadyPush, QueueTypes
<1>8. phase[x] = 0 /\ \A i \in 1 .. Len(ready[0]) : ready[0][i] # x
  <2>1. phase[x] = 0 /\ x \notin alive
    BY <1>1 DEF PlaceInv, Fresh
  <2>2. ~IsReady(x)
    BY <2>1 DEF PlaceInv, Placed
  <2> QED
    BY <1>2, <2>1, <2>2 DEF IsReady
<1> DEFINE last == Len(ready[0]) + 1
           top == Len(seeds) + 1
<1>9. /\ \A i \in Startable : i \in Int /\ i < last /\ ready'[0][i] = ready[0][i] /\ ready[0][i] # x
      /\ Startable' = Startable \cup {last} /\ ready'[0][last] = x
  <2>1. \A i \in Startable : i \in 1 .. Len(ready[0])
    BY DEF Startable
  <2>2. \A i \in Startable : i \in Int /\ i < last /\ ready'[0][i] = ready[0][i] /\ ready[0][i] # x
    BY <1>7, <1>8, <2>1
  <2>3. \A i : i \in 1 .. Len(ready'[0]) <=> i \in 1 .. Len(ready[0]) \/ i = last
    BY <1>7
  <2>4. Startable' = Startable \cup {last}
    <3> HIDE DEF last
    <3>1. ready'[0][last] = x
      BY <1>7 DEF last
    <3> QED
      BY <1>1, <1>7, <1>8, <2>3, <3>1 DEF Startable
  <2> QED
    BY <1>7, <2>2, <2>4
<1>10. /\ \A j \in Pending : j \in Int /\ j < top /\ seeds'[j] = seeds[j] /\ seeds[j] # x
       /\ Pending' = Pending \cup {top} /\ seeds'[top] = x
  <2>1. \A j \in Pending : j \in 1 .. Len(seeds)
    BY DEF Pending
  <2>2. \A j \in Pending : seeds[j] # x
    <3>1. \A j \in Pending : \E i \in Startable : ready[0][i] = seeds[j]
      BY <1>3 DEF SeedsInOrder
    <3> QED
      BY <1>9, <3>1
  <2>3. \A j \in Pending : j \in Int /\ j < top /\ seeds'[j] = seeds[j]
    BY <1>4, <1>6, <2>1
  <2>4. \A j : j \in 1 .. Len(seeds') <=> j \in 1 .. Len(seeds) \/ j = top
    BY <1>4, <1>6
  <2>5. taken < top
    BY <1>4
  <2>6. Pending' = Pending \cup {top}
    BY <1>3, <2>4, <2>5 DEF Pending
  <2> QED
    BY <1>6, <2>2, <2>3, <2>6
<1> HIDE DEF last, top, Startable, Pending
<1>11. /\ \A j \in Pending : \E i \in Startable : ready[0][i] = seeds[j]
       /\ \A i \in Startable : \E j \in Pending : seeds[j] = ready[0][i]
       /\ \A i, k \in Startable : \A j, l \in Pending :
            i < k /\ seeds[j] = ready[0][i] /\ seeds[l] = ready[0][k] => j < l
       /\ \A j, l \in Pending : seeds[j] = seeds[l] => j = l
  BY <1>3 DEF SeedsInOrder
<1>12. \A j \in Pending' : \E i \in Startable' : ready'[0][i] = seeds'[j]
  BY <1>9, <1>10, <1>11
<1>13. \A i \in Startable' : \E j \in Pending' : seeds'[j] = ready'[0][i]
  BY <1>9, <1>10, <1>11
<1>14. \A i, k \in Startable' : \A j, l \in Pending' :
         i < k /\ seeds'[j] = ready'[0][i] /\ seeds'[l] = ready'[0][k] => j < l
  <2> SUFFICES ASSUME NEW i \in Startable', NEW k \in Startable',
                      NEW j \in Pending', NEW l \in Pending',
                      i < k, seeds'[j] = ready'[0][i], seeds'[l] = ready'[0][k]
               PROVE  j < l
    OBVIOUS
  <2>1. last \in Int
    BY <1>7 DEF last
  <2>2. i \in Startable
    BY <1>9, <2>1
  <2>3. j \in Pending
    BY <1>9, <1>10, <2>2
  <2>4. CASE k \in Startable
    <3>1. l \in Pending
      BY <1>9, <1>10, <2>4
    <3> QED
      BY <1>9, <1>10, <1>11, <2>2, <2>3, <2>4, <3>1
  <2>5. CASE k = last
    <3>1. l = top
      BY <1>9, <1>10, <2>5
    <3> QED
      BY <1>10, <2>3, <3>1
  <2> QED
    BY <1>9, <2>4, <2>5
<1>15. \A j, l \in Pending' : seeds'[j] = seeds'[l] => j = l
  BY <1>10, <1>11
<1> QED
  BY <1>12, <1>13, <1>14, <1>15 DEF SeedsInOrder

LEMMA RestartSeeds ==
  ASSUME WorkTypes, NEW x \in Tasks, Restarts(x)
  PROVE  SeedsInOrder'
<1> SUFFICES ASSUME n = 1, ~skewed'
             PROVE  SeedsInOrder'
  <2>1. n' = n
    BY DEF Restarts
  <2> QED
    BY <2>1 DEF SeedsInOrder
<1>1. /\ \/ /\ seeds' = <<x>>
            /\ Len(ready'[rr]) = 1 /\ ready'[rr][1] = x
         \/ /\ seeds' = <<>>
            /\ \A w \in 0 .. n - 1 : Len(ready'[w]) = 0
      /\ taken' = 0 /\ n' = n /\ phase' = phase
  BY RestartFacts
<1>2. rr = 0 /\ 0 \in 0 .. n - 1
  BY DEF WorkTypes
<1>3. phase[x] = 0
  <2>1. phase[x] \in Nat /\ ~(phase[x] > 0)
    <3>1. ~(phase[x] > 0)
      BY DEF Restarts
    <3> QED
      BY <3>1 DEF WorkTypes
  <2> QED
    BY <2>1
<1>4. CASE seeds' = <<x>> /\ Len(ready'[0]) = 1 /\ ready'[0][1] = x
  <2>1. Len(seeds') = 1 /\ seeds'[1] = x
    BY <1>4
  <2>2. Startable' = {1} /\ Pending' = {1}
    BY <1>1, <1>3, <1>4, <2>1 DEF Startable, Pending
  <2> QED
    BY <1>4, <2>1, <2>2 DEF SeedsInOrder
<1>5. CASE seeds' = <<>> /\ Len(ready'[0]) = 0
  <2>1. Len(seeds') = 0
    BY <1>5
  <2>2. Startable' = {} /\ Pending' = {}
    BY <1>5, <2>1 DEF Startable, Pending
  <2> QED
    BY <2>2 DEF SeedsInOrder
<1> QED
  BY <1>1, <1>2, <1>4, <1>5

\* The task at the front starts: the next seed is its own.
LEMMA NextSeed ==
  ASSUME WorkTypes, SeedsInOrder, n = 1, ~skewed, 1 \in Startable
  PROVE  taken < Len(seeds) /\ taken + 1 \in Pending /\ seeds[taken + 1] = ready[0][1]
<1>1. /\ \A j \in Pending : \E i \in Startable : ready[0][i] = seeds[j]
      /\ \A i \in Startable : \E j \in Pending : seeds[j] = ready[0][i]
      /\ \A i, k \in Startable : \A j, l \in Pending :
           i < k /\ seeds[j] = ready[0][i] /\ seeds[l] = ready[0][k] => j < l
  BY DEF SeedsInOrder
<1>2. taken \in Nat /\ Len(seeds) \in Nat
  BY DEF WorkTypes
<1>3. PICK j \in Pending : seeds[j] = ready[0][1]
  BY <1>1
<1>4. j \in Int /\ taken < j /\ j <= Len(seeds)
  BY <1>2 DEF Pending
<1>5. taken < Len(seeds) /\ taken + 1 \in Pending
  BY <1>2, <1>4 DEF Pending
<1>6. PICK i \in Startable : ready[0][i] = seeds[taken + 1]
  BY <1>1, <1>5
<1>7. i \in Int /\ i >= 1
  BY DEF Startable
<1>8. ~(1 < i)
  <2>1. ASSUME 1 < i
        PROVE  FALSE
    <3>1. j < taken + 1
      BY <1>1, <1>3, <1>5, <1>6, <2>1
    <3> QED
      BY <1>2, <1>4, <3>1
  <2> QED
    BY <2>1
<1>9. i = 1
  BY <1>7, <1>8
<1> QED
  BY <1>5, <1>6, <1>9

LEMMA RunSeeds ==
  ASSUME WorkTypes, PlaceInv, SeedsInOrder, drain.w \in 0 .. n - 1, RunTask
  PROVE  SeedsInOrder'
<1> SUFFICES ASSUME n = 1, ~skewed
             PROVE  SeedsInOrder'
  <2>1. n' = n /\ skewed' = skewed
    BY DEF RunTask
  <2> QED
    BY <2>1 DEF SeedsInOrder
<1>1. /\ n' = n /\ skewed' = skewed /\ seeds' = seeds /\ phase' = phase
      /\ ready[drain.w] # <<>> /\ ready' = [ready EXCEPT ![drain.w] = Tail(@)]
  BY DEF RunTask, tasks
<1>2. drain.w = 0 /\ 0 \in 0 .. n - 1
  OBVIOUS
<1>3. /\ Len(ready[0]) > 0 /\ Head(ready[0]) = ready[0][1]
      /\ Len(ready'[0]) = Len(ready[0]) - 1 /\ Len(ready[0]) \in Nat
      /\ \A i \in 1 .. Len(ready[0]) - 1 : ready'[0][i] = ready[0][i + 1]
  BY <1>1, <1>2, ReadyPop, QueueTypes
<1>4. taken' = IF phase[ready[0][1]] = 0 /\ taken < Len(seeds) THEN taken + 1 ELSE taken
  BY <1>2, <1>3 DEF RunTask
<1>5. taken \in Nat /\ Len(seeds) \in Nat
  BY DEF WorkTypes
<1>6. \A i : i \in Startable' <=> i \in Nat \ {0} /\ i + 1 \in Startable
  <2> SUFFICES ASSUME NEW i
               PROVE  i \in Startable' <=> i \in Nat \ {0} /\ i + 1 \in Startable
    OBVIOUS
  <2>1. i \in 1 .. Len(ready'[0]) <=> i \in Nat \ {0} /\ i + 1 \in 1 .. Len(ready[0])
    BY <1>3
  <2>2. i \in 1 .. Len(ready'[0]) => ready'[0][i] = ready[0][i + 1]
    BY <1>3
  <2> QED
    BY <1>1, <2>1, <2>2 DEF Startable
<1>7. \A i \in Startable' : i \in Int /\ i + 1 \in Startable /\ ready'[0][i] = ready[0][i + 1]
  <2>1. \A i \in Startable' : i \in 1 .. Len(ready'[0])
    BY DEF Startable
  <2> QED
    BY <1>3, <1>6, <2>1
<1>8. \A i \in Startable : i # 1 => i \in Int /\ i - 1 \in Startable' /\ ready'[0][i - 1] = ready[0][i]
  <2> SUFFICES ASSUME NEW i \in Startable, i # 1
               PROVE  i \in Int /\ i - 1 \in Startable' /\ ready'[0][i - 1] = ready[0][i]
    OBVIOUS
  <2>1. i \in 1 .. Len(ready[0])
    BY DEF Startable
  <2>2. i \in Int /\ i - 1 \in Nat \ {0} /\ (i - 1) + 1 = i
    BY <1>3, <2>1
  <2>3. i - 1 \in Startable'
    BY <1>6, <2>2
  <2> QED
    BY <1>7, <2>2, <2>3
<1>9. \A i \in Startable' : ready'[0][i] # ready[0][1]
  <2> SUFFICES ASSUME NEW i \in Startable'
               PROVE  ready'[0][i] # ready[0][1]
    OBVIOUS
  <2>1. i + 1 \in 1 .. Len(ready[0]) /\ i + 1 # 1 /\ 1 \in 1 .. Len(ready[0])
    BY <1>3, <1>6 DEF Startable
  <2> QED
    BY <1>2, <1>7, <2>1 DEF PlaceInv, Apart
<1>10. /\ \A j \in Pending : \E i \in Startable : ready[0][i] = seeds[j]
       /\ \A i \in Startable : \E j \in Pending : seeds[j] = ready[0][i]
       /\ \A i, k \in Startable : \A j, l \in Pending :
            i < k /\ seeds[j] = ready[0][i] /\ seeds[l] = ready[0][k] => j < l
       /\ \A j, l \in Pending : seeds[j] = seeds[l] => j = l
  BY DEF SeedsInOrder
<1>11. /\ Pending' \subseteq Pending
       /\ \A i \in Startable' : \A j \in Pending : seeds[j] = ready'[0][i] => j \in Pending'
       /\ \A j \in Pending' : \E i \in Startable : i # 1 /\ ready[0][i] = seeds[j]
  <2>1. CASE 1 \in Startable
    <3>1. taken < Len(seeds) /\ taken + 1 \in Pending /\ seeds[taken + 1] = ready[0][1]
      BY <2>1, NextSeed
    <3>2. taken' = taken + 1
      BY <1>4, <2>1, <3>1 DEF Startable
    <3>3. \A j : j \in Pending' <=> j \in Pending /\ j # taken + 1
      BY <1>1, <1>5, <3>2 DEF Pending
    <3> HIDE DEF Pending, Startable
    <3>4. \A i \in Startable' : \A j \in Pending : seeds[j] = ready'[0][i] => j \in Pending'
      BY <1>9, <3>1, <3>3
    <3>5. \A j \in Pending' : \E i \in Startable : i # 1 /\ ready[0][i] = seeds[j]
      BY <1>10, <3>1, <3>3
    <3> QED
      BY <3>3, <3>4, <3>5
  <2>2. CASE 1 \notin Startable
    <3>1. phase[ready[0][1]] # 0
      BY <1>3, <2>2 DEF Startable
    <3>2. Pending' = Pending
      BY <1>1, <1>4, <3>1 DEF Pending
    <3> HIDE DEF Pending, Startable
    <3> QED
      BY <1>10, <2>2, <3>2
  <2> QED
    BY <2>1, <2>2
<1> HIDE DEF Pending, Startable
<1>12. \A j \in Pending' : \E i \in Startable' : ready'[0][i] = seeds[j]
  BY <1>8, <1>11
<1>13. \A i \in Startable' : \E j \in Pending' : seeds[j] = ready'[0][i]
  BY <1>7, <1>10, <1>11
<1>14. \A i, k \in Startable' : \A j, l \in Pending' :
         i < k /\ seeds[j] = ready'[0][i] /\ seeds[l] = ready'[0][k] => j < l
  <2>1. \A i, k \in Startable' : i < k => i + 1 < k + 1
    BY <1>7
  <2> QED
    BY <1>7, <1>10, <1>11, <2>1
<1>15. \A j, l \in Pending' : seeds[j] = seeds[l] => j = l
  BY <1>10, <1>11
<1> QED
  BY <1>1, <1>12, <1>13, <1>14, <1>15 DEF SeedsInOrder

LEMMA SeedsStep == IInv /\ SeedsInOrder /\ StepKind => SeedsInOrder'
<1> SUFFICES ASSUME IInv, SeedsInOrder, StepKind
             PROVE  SeedsInOrder'
  OBVIOUS
<1>0. /\ WorkTypes /\ PlaceInv /\ Apart /\ drain.w \in 0 .. n - 1
      /\ rr \in 0 .. n - 1 /\ 0 \in 0 .. n - 1
  BY NextWorker DEF IInv, Types, WorkTypes, CallTypes, PlaceInv
<1>1. CASE UNCHANGED work
  <2>1. Startable' = Startable
    BY <1>1 DEF work, queues, tasks, Startable
  <2> QED
    BY <1>1, <2>1, SeedsKept DEF work, queues, seeding
<1>2. ASSUME NEW x \in Tasks, Accepts(x) \/ Restarts(x)
      PROVE  SeedsInOrder'
  BY <1>0, <1>2, AcceptSeeds, RestartSeeds
<1>3. CASE Wakes
  <2>1. /\ n' = n /\ skewed' = skewed /\ seeds' = seeds /\ taken' = taken
        /\ phase' = phase
    BY <1>3 DEF Wakes, IoWake, queues, seeding, tasks
  <2>2. CASE ready' = ready
    <3>1. Startable' = Startable
      BY <2>1, <2>2 DEF Startable
    <3> QED
      BY <2>1, <2>2, <3>1, SeedsKept
  <2>3. CASE waiting # <<>> /\ ready' = [ready EXCEPT ![rr] = Append(@, waiting[Len(waiting)])]
    <3> DEFINE x == waiting[Len(waiting)]
    <3>1. Len(waiting) \in Nat \ {0} /\ x \in Tasks
      BY <1>0, <2>3, PopFacts DEF WorkTypes
    <3>2. Len(waiting) \in 1 .. Len(waiting)
      BY <3>1
    <3>3. phase[x] > 0 /\ phase[x] \in Nat
      BY <1>0, <3>1, <3>2 DEF PlaceInv, Awaited, WorkTypes
    <3>4. n = 1 => ready' = [ready EXCEPT ![0] = Append(@, x)]
      <4>1. n = 1 => rr = 0
        BY <1>0
      <4> QED
        BY <2>3, <4>1
    <3> HIDE DEF x
    <3>5. n = 1 => Startable' = Startable /\ \A i \in Startable : ready'[0][i] = ready[0][i]
      BY <1>0, <2>1, <3>1, <3>3, <3>4, StartablePush
    <3> QED
      BY <2>1, <3>5, SeedsKept
  <2> QED
    BY <1>3, <2>2, <2>3 DEF Wakes, IoWake, queues
<1>4. CASE RunTask
  BY <1>0, <1>4, RunSeeds
\* The running task is in no queue.
<1>5. ASSUME running \in Tasks, \A y \in Tasks : y # running => phase'[y] = phase[y]
      PROVE  \A i \in 1 .. Len(ready[0]) : phase'[ready[0][i]] = phase[ready[0][i]]
  BY <1>0, <1>5, QueueTypes DEF Apart
<1>6. CASE TaskDone
  <2>1. /\ running \in Tasks /\ ready' = ready /\ n' = n
        /\ skewed' = skewed /\ seeds' = seeds /\ taken' = taken
    BY <1>0, <1>6 DEF TaskDone, queues, WorkTypes
  <2>2. \A y \in Tasks : y # running => phase'[y] = phase[y]
    BY <1>0, <1>6 DEF TaskDone, WorkTypes
  <2>3. n = 1 => Startable' = Startable
    BY <1>0, <1>5, <2>1, <2>2, StartableSame
  <2> QED
    BY <2>1, <2>3, SeedsKept
<1>7. ASSUME NEW room, Suspends(room)
      PROVE  /\ running \in Tasks /\ n' = n
             /\ skewed' = skewed /\ seeds' = seeds /\ taken' = taken
             /\ phase'[running] > 0 /\ phase'[running] \in Nat
             /\ \A i \in 1 .. Len(ready[0]) : phase'[ready[0][i]] = phase[ready[0][i]]
  BY <1>0, <1>5, <1>7, SuspendFacts
<1>8. CASE TaskAwaitsIo
  <2>1. PICK room : Suspends(room)
    BY <1>8 DEF TaskAwaitsIo
  <2>2. ready' = ready
    BY <1>8 DEF TaskAwaitsIo
  <2>3. n = 1 => Startable' = Startable
    BY <1>0, <1>7, <2>1, <2>2, StartableSame
  <2> QED
    BY <1>7, <2>1, <2>2, <2>3, SeedsKept
<1>9. CASE TaskYields
  <2>1. PICK room : Suspends(room)
    BY <1>9 DEF TaskYields
  <2>2. CASE ready' = ready
    <3>1. n = 1 => Startable' = Startable
      BY <1>0, <1>7, <2>1, <2>2, StartableSame
    <3> QED
      BY <1>7, <2>1, <2>2, <3>1, SeedsKept
  <2>3. CASE ready' = [ready EXCEPT ![drain.w] = Append(@, running)]
    <3>1. n = 1 => ready' = [ready EXCEPT ![0] = Append(@, running)]
      <4>1. n = 1 => drain.w = 0
        BY <1>0
      <4> QED
        BY <2>3, <4>1
    <3>2. n = 1 => Startable' = Startable /\ \A i \in Startable : ready'[0][i] = ready[0][i]
      BY <1>0, <1>7, <2>1, <3>1, StartablePush
    <3> QED
      BY <1>7, <2>1, <3>2, SeedsKept
  <2> QED
    BY <1>9, <2>2, <2>3 DEF TaskYields
<1> QED
  BY <1>1, <1>2, <1>3, <1>4, <1>6, <1>8, <1>9 DEF StepKind

LEMMA MatchStep == IInv /\ SeedsInOrder /\ SeedsMatch /\ StepKind => SeedsMatch'
<1> SUFFICES ASSUME IInv, SeedsInOrder, SeedsMatch, StepKind, n' = 1, ~skewed',
                    NEW y \in alive', phase'[y] > 0 \/ y = running'
             PROVE  given'[y] = y
  BY DEF SeedsMatch
<1>0. /\ WorkTypes /\ PlaceInv /\ drain.w \in 0 .. n - 1 /\ n = 1
      /\ rr \in 0 .. n - 1 /\ None \notin Tasks /\ alive \subseteq Tasks
      /\ given \in [Tasks -> Tasks \cup {None}]
  BY SameWorkers, SchedulerConstants DEF IInv, Types, WorkTypes, CallTypes
<1>1. ASSUME ~skewed, y \in alive, phase[y] > 0 \/ y = running
      PROVE  given[y] = y
  BY <1>0, <1>1 DEF SeedsMatch
<1>2. CASE UNCHANGED work \/ Wakes
  <2>1. skewed' = skewed /\ given' = given /\ alive' = alive /\ phase' = phase /\ running' = running
    BY <1>2 DEF work, Wakes, seeding, tasks
  <2> QED
    BY <1>1, <2>1
<1>3. ASSUME NEW x \in Tasks, Accepts(x)
      PROVE  given'[y] = y
  <2>1. SeedPushed(x) /\ Submitted(x) /\ x \in unused /\ phase' = phase /\ running' = running
    BY <1>3 DEF Accepts
  <2>2. ~skewed /\ given' = given /\ alive' \subseteq alive \cup {x}
    BY <2>1 DEF SeedPushed, Submitted
  <2>3. phase[x] = 0 /\ x \notin alive
    BY <2>1 DEF IInv, PlaceInv, Fresh
  <2>4. x # running
    BY <2>3, <1>0 DEF PlaceInv, Placed
  <2>5. ~(phase[x] > 0)
    BY <2>3
  <2>6. y # x
    BY <2>1, <2>4, <2>5
  <2> QED
    BY <1>1, <2>1, <2>2, <2>6
<1>4. ASSUME NEW x \in Tasks, Restarts(x)
      PROVE  given'[y] = y
  <2>1. alive' \subseteq {x} /\ running' = None /\ phase' = phase /\ ~(phase[x] > 0)
    BY <1>4, RestartFacts DEF Restarts
  <2> QED
    BY <1>0, <1>4, <2>1
<1>5. CASE RunTask
  <2> DEFINE x == Head(ready[0])
             takes == phase[x] = 0 /\ taken < Len(seeds)
  <2>1. drain.w = 0 /\ 0 \in 0 .. n - 1
    BY <1>0
  <2>2. /\ ready[0] # <<>> /\ ready' = [ready EXCEPT ![0] = Tail(@)] /\ running = None
        /\ running' = x /\ skewed' = skewed /\ alive' = alive /\ phase' = phase
        /\ given' = IF takes THEN [given EXCEPT ![x] = seeds[taken + 1]] ELSE given
    BY <1>5, <2>1 DEF RunTask, Between, tasks
  <2>3. x \in Tasks /\ x = ready[0][1] /\ 1 \in 1 .. Len(ready[0])
    <3>1. Len(ready[0]) > 0 /\ x = ready[0][1] /\ ready[0][1] \in Tasks /\ Len(ready[0]) \in Nat
      BY <1>0, <2>1, <2>2, ReadyPop, QueueTypes
    <3> QED
      BY <3>1
  <2>4. y # x => given'[y] = given[y]
    BY <1>0, <2>2, <2>3
  <2> HIDE DEF x
  <2>5. CASE y # x
    BY <1>1, <2>2, <2>4, <2>5
  <2>6. CASE y = x /\ phase[x] = 0
    <3>1. 1 \in Startable
      BY <2>3, <2>6 DEF Startable
    <3>2. taken < Len(seeds) /\ seeds[taken + 1] = x
      BY <1>0, <2>2, <2>3, <3>1, NextSeed
    <3> QED
      BY <1>0, <2>2, <2>3, <2>6, <3>2
  <2>7. CASE y = x /\ phase[x] # 0
    <3>1. phase[x] > 0
      BY <1>0, <2>3, <2>7 DEF WorkTypes
    <3> QED
      BY <1>1, <2>2, <2>7, <3>1
  <2> QED
    BY <2>5, <2>6, <2>7
<1>6. CASE TaskDone
  <2>1. /\ running # None /\ alive' = alive \ {running} /\ running' = None
        /\ given' = [given EXCEPT ![running] = None]
        /\ phase' = [phase EXCEPT ![running] = 0] /\ skewed' = skewed
    BY <1>6 DEF TaskDone
  <2>2. y \in alive /\ y # running /\ y \in Tasks
    BY <1>0, <2>1
  <2>3. phase'[y] = phase[y] /\ given'[y] = given[y]
    BY <1>0, <2>1, <2>2 DEF WorkTypes
  <2> QED
    BY <1>0, <1>1, <2>1, <2>2, <2>3
<1>7. CASE TaskYields \/ TaskAwaitsIo
  <2>1. PICK room : Suspends(room)
    BY <1>7 DEF TaskYields, TaskAwaitsIo
  <2>2. /\ running \in Tasks /\ running' = None
        /\ given' = given /\ skewed' = skewed /\ alive' \subseteq alive
        /\ \A x \in Tasks : x # running => phase'[x] = phase[x]
    BY <1>0, <2>1, SuspendFacts
  <2>3. y \in alive /\ y \in Tasks /\ y # running'
    BY <1>0, <2>2
  <2>4. phase[y] > 0 \/ y = running
    BY <2>2, <2>3
  <2> QED
    BY <1>1, <2>2, <2>3, <2>4
<1> QED
  BY <1>2, <1>3, <1>4, <1>5, <1>6, <1>7 DEF StepKind

\* On one worker, as long as no spawn was refused and no seed or task went
\* without its other half since the last reset, a task that started - even one
\* that suspended and was woken since - started with the seed pushed for it:
\* seeds and tasks go through their two queues in the same order.
THEOREM SeedsAreTheirs == Spec => []SeedsMatch
<1>1. Init => SeedsInOrder /\ SeedsMatch
  <2>1. Init => SeedsMatch
    BY DEF Init, SeedsMatch
  <2> QED
    BY <2>1, InitWorkTypes
<1>2. /\ IInv /\ SeedsInOrder /\ SeedsMatch /\ [Next]_vars
      => (SeedsInOrder /\ SeedsMatch)'
  BY IInvStep, SeedsStep, MatchStep
<1> QED
  BY <1>1, <1>2, IInvHolds, PTL DEF Spec
=============================================================================
