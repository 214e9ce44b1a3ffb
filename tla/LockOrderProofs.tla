-------------------------- MODULE LockOrderProofs ---------------------------
(***************************************************************************)
(* For any number of threads, mutexes and ids: the stacks of the lock      *)
(* diagnostics tell the truth, and threads are not stuck on each other     *)
(* except where the diagnostics cannot see.                                *)
(***************************************************************************)
EXTENDS LockOrder, SequenceTheorems, WellFoundedInduction, TLAPS

Waits(t) == at[t] \in {"cond", "relock"}

\* What a stack records is so.
Recorded(t) ==
  \A i \in 1 .. Len(held[t]) :
    /\ \/ owner[held[t][i].mutex] = t
       \/ Waits(t) /\ want[t] = held[t][i].mutex
    /\ held[t][i].id = OrderOf(held[t][i].mutex)

\* The positive ids of a stack rise towards its top.
Rising(t) ==
  \A i, j \in 1 .. Len(held[t]) :
    i < j /\ held[t][j].id # 0 /\ held[t][i].id > 0 => held[t][i].id < held[t][j].id

\* The id of a mutex about to be locked is above those of the stack.
Above(t, m) ==
  OrderOf(m) # 0 =>
    \A i \in 1 .. Len(held[t]) : held[t][i].id > 0 => held[t][i].id < OrderOf(m)

\* A thread blocks for one mutex, which a waiting thread has given away; and
\* with the diagnostics off its stack is empty.
Blocked(t) ==
  /\ at[t] = "run" <=> want[t] = None
  /\ Waits(t) => owner[want[t]] # t
  /\ ~enabled => held[t] = <<>>
  /\ at[t] = "lock" => Above(t, want[t])

ThreadInv(t) == Recorded(t) /\ Rising(t) /\ Blocked(t)

LockInv == TypeOK /\ \A t \in Threads : ThreadInv(t)

-----------------------------------------------------------------------------
(* Stacks *)

LEMMA PushFacts ==
  ASSUME NEW S, NEW s \in Seq(S), NEW e \in S
  PROVE  /\ Append(s, e) \in Seq(S)
         /\ Len(Append(s, e)) = Len(s) + 1
         /\ \A i \in 1 .. Len(s) : Append(s, e)[i] = s[i]
         /\ Append(s, e)[Len(s) + 1] = e
OBVIOUS

LEMMA PopFacts ==
  ASSUME NEW S, NEW s \in Seq(S), s # <<>>
  PROVE  /\ SubSeq(s, 1, Len(s) - 1) \in Seq(S)
         /\ Len(s) \in Nat \ {0}
         /\ Len(SubSeq(s, 1, Len(s) - 1)) = Len(s) - 1
         /\ \A i \in 1 .. Len(s) - 1 : SubSeq(s, 1, Len(s) - 1)[i] = s[i]
<1>1. Len(s) \in Nat \ {0} /\ \A i \in 1 .. Len(s) - 1 : s[i] \in S
  OBVIOUS
<1> DEFINE n == Len(s) - 1
<1>2. n \in Nat /\ 1 \in Int /\ \A i \in 1 .. n : s[i] \in S
  BY <1>1
<1> HIDE DEF n
<1>3. /\ SubSeq(s, 1, n) \in Seq(S)
      /\ Len(SubSeq(s, 1, n)) = IF 1 <= n THEN n - 1 + 1 ELSE 0
      /\ \A i \in 1 .. n - 1 + 1 : SubSeq(s, 1, n)[i] = s[1 + i - 1]
  BY <1>2, SubSeqProperties
<1>4. Len(SubSeq(s, 1, n)) = n /\ \A i \in 1 .. n : SubSeq(s, 1, n)[i] = s[i]
  BY <1>2, <1>3
<1> QED
  BY <1>1, <1>3, <1>4 DEF n

LEMMA StackTypes ==
  ASSUME TypeOK, NEW t \in Threads
  PROVE  /\ held[t] \in Seq(Entry) /\ Len(held[t]) \in Nat
         /\ DOMAIN held[t] = 1 .. Len(held[t])
         /\ \A i \in 1 .. Len(held[t]) : held[t][i].mutex \in Mutexes /\ held[t][i].id \in Int
<1>1. held[t] \in Seq(Entry)
  BY DEF TypeOK
<1>2. \A i \in 1 .. Len(held[t]) : held[t][i] \in Entry
  BY <1>1
<1>3. \A n \in Ids \cup {0} : n \in Int
  BY LockConstants DEF LockConstants
<1>4. ASSUME NEW e \in Entry
      PROVE  e.mutex \in Mutexes /\ e.id \in Int
  <2>1. e.mutex \in Mutexes /\ e.id \in Ids \cup {0}
    BY DEF Entry
  <2> QED
    BY <1>3, <2>1
<1>5. Len(held[t]) \in Nat /\ DOMAIN held[t] = 1 .. Len(held[t])
  BY <1>1
<1> QED
  BY <1>1, <1>2, <1>4, <1>5

LEMMA OrderType ==
  ASSUME TypeOK, NEW m
  PROVE  OrderOf(m) \in Int /\ OrderOf(m) \in Ids \cup {0}
BY LockConstants DEF LockConstants, TypeOK, OrderOf

\* What the hooks compute, on positions.
LEMMA HookFacts ==
  ASSUME TypeOK, NEW t \in Threads, NEW m
  PROVE  /\ Has(t, m) <=> \E i \in 1 .. Len(held[t]) : held[t][i].mutex = m
         /\ OutOfOrder(t, m) <=> ~Above(t, m)
<1>1. Has(t, m) <=> \E i \in 1 .. Len(held[t]) : held[t][i].mutex = m
  BY StackTypes DEF Has
<1>2. OutOfOrder(t, m) <=> ~Above(t, m)
  BY StackTypes, OrderType DEF OutOfOrder, Above
<1> QED
  BY <1>1, <1>2

\* While no mutex is in use the stacks are empty and nobody is blocked.
LEMMA QuietFacts ==
  ASSUME LockInv, Quiet, NEW t \in Threads
  PROVE  held[t] = <<>> /\ at[t] = "run"
<1> USE DEF LockInv, ThreadInv
<1>1. want[t] = None
  BY DEF TypeOK, Quiet, InUse
<1>2. at[t] = "run"
  BY <1>1 DEF Blocked
<1>3. ASSUME NEW i \in 1 .. Len(held[t])
      PROVE  FALSE
  <2>1. held[t][i].mutex \in Mutexes
    BY <1>3, StackTypes
  <2>2. owner[held[t][i].mutex] = t
    BY <1>2, <1>3 DEF Recorded, Waits
  <2> QED
    BY <2>1, <2>2, LockConstants DEF Quiet, InUse, LockConstants
<1>4. held[t] = <<>>
  BY <1>3, StackTypes
<1> QED
  BY <1>2, <1>4

-----------------------------------------------------------------------------
(* Steps *)

\* A step of t gives or takes one mutex: the other threads do not notice.
LEMMA OtherThread ==
  ASSUME LockInv, NEW t \in Threads, NEW u \in Threads, u # t,
         NEW m \in Mutexes, NEW o, o \in {t, None}, owner[m] \in {t, None},
         owner' = [owner EXCEPT ![m] = o],
         UNCHANGED <<enabled, ids>>,
         held'[u] = held[u], at'[u] = at[u], want'[u] = want[u]
  PROVE  ThreadInv(u)'
<1> u # None /\ ThreadInv(u) /\ TypeOK
  BY LockConstants DEF LockConstants, LockInv
<1>1. \A x \in Mutexes : owner[x] = u => owner'[x] = u
  BY DEF TypeOK
<1>2. \A x : OrderOf(x)' = OrderOf(x)
  BY DEF OrderOf
<1>3. \A i \in 1 .. Len(held[u]) : held[u][i].mutex \in Mutexes
  BY StackTypes
<1>4. Recorded(u)'
  BY <1>1, <1>2, <1>3 DEF ThreadInv, Recorded, Waits
<1>5. Rising(u)'
  BY DEF ThreadInv, Rising
<1>6. Blocked(u)'
  <2>1. want[u] \in Mutexes => (owner[want[u]] # u => owner'[want[u]] # u)
    BY DEF TypeOK
  <2>2. Waits(u) => want[u] \in Mutexes
    BY DEF ThreadInv, Blocked, Waits, TypeOK
  <2> QED
    BY <1>2, <2>1, <2>2 DEF ThreadInv, Blocked, Waits, Above
<1> QED
  BY <1>4, <1>5, <1>6 DEF ThreadInv

\* A mutex is locked and pushed.
LEMMA TakeKeeps ==
  ASSUME LockInv, NEW t \in Threads, NEW m \in Mutexes,
         Acquire(t, m), ~Waits(t), Above(t, m),
         held' = [held EXCEPT ![t] = Pushed(t, m)]
  PROVE  LockInv'
<1> TypeOK /\ ThreadInv(t)
  BY DEF LockInv
<1> DEFINE e == [mutex |-> m, id |-> OrderOf(m)]  n == Len(held[t])
<1>1. held[t] \in Seq(Entry) /\ n \in Nat /\ e \in Entry
  BY StackTypes, OrderType DEF Entry
<1>2. \/ held'[t] = held[t]
      \/ /\ enabled /\ n < MaxHeld
         /\ held'[t] = Append(held[t], e)
  BY DEF Pushed, TypeOK
<1>3. /\ held'[t] \in Seq(Entry) /\ Len(held'[t]) \in {n, n + 1} /\ Len(held'[t]) <= MaxHeld
      /\ \A i \in 1 .. n : held'[t][i] = held[t][i]
      /\ Len(held'[t]) = n + 1 => enabled /\ held'[t][n + 1] = e
  <2>1. CASE held'[t] = held[t]
    BY <1>1, <2>1 DEF TypeOK
  <2>2. CASE enabled /\ n < MaxHeld /\ held'[t] = Append(held[t], e)
    <3>1. /\ Append(held[t], e) \in Seq(Entry) /\ Len(Append(held[t], e)) = n + 1
          /\ \A i \in 1 .. n : Append(held[t], e)[i] = held[t][i]
          /\ Append(held[t], e)[n + 1] = e
      BY <1>1, PushFacts
    <3> QED
      BY SMTT(30), <1>1, <2>2, <3>1, LockConstants DEF LockConstants
  <2> QED
    BY <1>2, <2>1, <2>2
<1>4. TypeOK'
  <2>1. held' \in [Threads -> Seq(Entry)] /\ \A u \in Threads : Len(held'[u]) <= MaxHeld
    BY <1>3 DEF TypeOK
  <2> QED
    BY <2>1 DEF TypeOK, Acquire
<1>5. /\ owner'[m] = t /\ at'[t] = "run" /\ want'[t] = None
      /\ \A x \in Mutexes : owner[x] = t => owner'[x] = t
  BY DEF Acquire, TypeOK
<1>6. \A x : OrderOf(x)' = OrderOf(x)
  BY DEF OrderOf, Acquire
<1>7. Recorded(t)'
  <2> SUFFICES ASSUME NEW i \in 1 .. Len(held'[t])
               PROVE  /\ owner'[held'[t][i].mutex] = t
                      /\ held'[t][i].id = OrderOf(held'[t][i].mutex)
    BY <1>6 DEF Recorded
  <2>1. CASE i \in 1 .. n
    <3>1. owner[held[t][i].mutex] = t /\ held[t][i].id = OrderOf(held[t][i].mutex)
      BY <2>1 DEF ThreadInv, Recorded
    <3> QED
      BY <1>3, <1>5, <2>1, <3>1, StackTypes
  <2>2. CASE i = n + 1 /\ Len(held'[t]) = n + 1
    BY <1>3, <1>5, <2>2
  <2> QED
    BY <1>1, <1>3, <2>1, <2>2
<1>8. Rising(t)'
  <2> SUFFICES ASSUME NEW i \in 1 .. Len(held'[t]), NEW j \in 1 .. Len(held'[t]),
                      i < j, held'[t][j].id # 0, held'[t][i].id > 0
               PROVE  held'[t][i].id < held'[t][j].id
    BY DEF Rising
  <2>1. CASE j \in 1 .. n
    BY <1>1, <1>3, <2>1 DEF ThreadInv, Rising
  <2>2. CASE j = n + 1 /\ Len(held'[t]) = n + 1
    <3>1. i \in 1 .. n /\ held'[t][j].id = OrderOf(m) /\ held'[t][i] = held[t][i]
      BY <1>1, <1>3, <2>2
    <3> QED
      BY <3>1 DEF Above
  <2> QED
    BY <1>1, <1>3, <2>1, <2>2
<1>9. Blocked(t)'
  <2>1. ~enabled => held'[t] = <<>>
    BY <1>2 DEF ThreadInv, Blocked
  <2> QED
    BY <1>5, <2>1 DEF Blocked, Waits, Acquire
<1>10. ASSUME NEW u \in Threads, u # t
       PROVE  ThreadInv(u)'
  <2>1. /\ owner[m] \in {t, None} /\ owner' = [owner EXCEPT ![m] = t]
        /\ UNCHANGED <<enabled, ids>>
        /\ held'[u] = held[u] /\ at'[u] = at[u] /\ want'[u] = want[u]
    BY <1>10 DEF Acquire, TypeOK
  <2> QED
    BY <1>10, <2>1, OtherThread
<1> QED
  BY <1>4, <1>7, <1>8, <1>9, <1>10 DEF LockInv, ThreadInv

LEMMA LockedKeeps ==
  ASSUME LockInv, NEW t \in Threads, Locked(t)
  PROVE  LockInv'
<1>1. want[t] \in Mutexes /\ ~Waits(t) /\ Above(t, want[t])
  BY DEF LockInv, ThreadInv, Blocked, Locked, Waits, TypeOK
<1> QED
  BY <1>1, TakeKeeps DEF Locked

LEMMA TryLockKeeps ==
  ASSUME LockInv, NEW t \in Threads, NEW m \in Mutexes, TryLock(t, m)
  PROVE  LockInv'
<1>1. ~Waits(t)
  BY DEF TryLock, Waits
<1>2. Above(t, m)
  <2>1. CASE enabled
    BY <2>1, HookFacts DEF TryLock, BeforeLock, LockInv
  <2>2. CASE ~enabled
    <3>1. held[t] = <<>>
      BY <2>2 DEF LockInv, ThreadInv, Blocked
    <3> QED
      BY <3>1 DEF Above
  <2> QED
    BY <2>1, <2>2
<1> QED
  BY <1>1, <1>2, TakeKeeps DEF TryLock

LEMMA LockKeeps ==
  ASSUME LockInv, NEW t \in Threads, NEW m \in Mutexes, Lock(t, m)
  PROVE  LockInv'
<1> TypeOK
  BY DEF LockInv
<1>1. Above(t, m)
  <2>1. CASE enabled
    BY <2>1, HookFacts DEF Lock, BeforeLock
  <2>2. CASE ~enabled
    <3>1. held[t] = <<>>
      BY <2>2 DEF LockInv, ThreadInv, Blocked
    <3> QED
      BY <3>1 DEF Above
  <2> QED
    BY <2>1, <2>2
<1>2. TypeOK'
  BY DEF TypeOK, Lock
<1>3. at'[t] = "lock" /\ want'[t] = m /\ ~Waits(t) /\ m # None
  BY LockConstants DEF LockConstants, Lock, TypeOK, Waits
<1>4. ThreadInv(t)'
  <2>1. Recorded(t)' /\ Rising(t)'
    BY <1>3 DEF LockInv, ThreadInv, Recorded, Rising, OrderOf, Lock, Waits
  <2>2. Above(t, m)'
    BY <1>1 DEF Above, OrderOf, Lock
  <2>3. Blocked(t)'
    BY <1>3, <2>2 DEF LockInv, ThreadInv, Blocked, Lock, Waits, Above
  <2> QED
    BY <2>1, <2>3 DEF ThreadInv
<1>5. ASSUME NEW u \in Threads, u # t
      PROVE  ThreadInv(u)'
  <2>1. at'[u] = at[u] /\ want'[u] = want[u]
    BY <1>5 DEF Lock, TypeOK
  <2> QED
    BY <2>1 DEF LockInv, ThreadInv, Recorded, Rising, Blocked, Above, OrderOf, Waits, Lock
<1> QED
  BY <1>2, <1>4, <1>5 DEF LockInv

LEMMA UnlockKeeps ==
  ASSUME LockInv, NEW t \in Threads, NEW m \in Mutexes, Unlock(t, m)
  PROVE  LockInv'
<1> TypeOK /\ ThreadInv(t)
  BY DEF LockInv
<1> DEFINE n == Len(held[t])
<1>1. held[t] \in Seq(Entry) /\ n \in Nat
  BY StackTypes
<1>2. /\ held'[t] \in Seq(Entry) /\ Len(held'[t]) \in Nat /\ Len(held'[t]) <= n
      /\ \A i \in 1 .. Len(held'[t]) : held'[t][i] = held[t][i] /\ held[t][i].mutex # m
      /\ ~enabled => held'[t] = <<>>
  <2>1. CASE ~enabled
    <3>1. held[t] = <<>> /\ held'[t] = held[t]
      BY <2>1 DEF ThreadInv, Blocked, Unlock, Popped, TypeOK
    <3> QED
      BY <1>1, <3>1
  <2>2. CASE enabled
    <3>1. IsTop(t, m)
      BY <2>2 DEF Unlock, BeforeUnlock
    <3>2. held[t] # <<>> /\ \A i \in 1 .. n : held[t][i].mutex = m => i = n
      BY <1>1, <3>1 DEF IsTop, Has
    <3>3. held'[t] = SubSeq(held[t], 1, n - 1)
      BY <2>2, <3>2 DEF Unlock, Popped, TypeOK
    <3>4. /\ SubSeq(held[t], 1, n - 1) \in Seq(Entry) /\ n \in Nat \ {0}
          /\ Len(SubSeq(held[t], 1, n - 1)) = n - 1
          /\ \A i \in 1 .. n - 1 : SubSeq(held[t], 1, n - 1)[i] = held[t][i]
      BY <1>1, <3>2, PopFacts
    <3> HIDE DEF n
    <3> QED
      BY <2>2, <3>2, <3>3, <3>4
  <2> QED
    BY <2>1, <2>2
<1> HIDE DEF n
<1>3. /\ \A x \in Mutexes : x # m /\ owner[x] = t => owner'[x] = t
      /\ owner' \in [Mutexes -> Threads \cup {None}]
      /\ at' = at /\ want' = want /\ ids' = ids /\ enabled' = enabled
      /\ at[t] = "run"
  BY DEF Unlock, TypeOK
<1>4. TypeOK'
  <2>1. n <= MaxHeld
    BY DEF TypeOK, n
  <2>2. held' \in [Threads -> Seq(Entry)] /\ \A u \in Threads : Len(held'[u]) <= MaxHeld
    <3>1. Len(held'[t]) <= MaxHeld
      BY <1>1, <1>2, <2>1, LockConstants DEF LockConstants
    <3> QED
      BY <1>2, <3>1 DEF TypeOK, Unlock
  <2> QED
    BY <1>3, <2>2 DEF TypeOK
<1>5. \A i \in 1 .. Len(held'[t]) : i \in 1 .. n
  BY <1>1, <1>2
<1>6. Recorded(t)'
  <2>0. \A x : OrderOf(x)' = OrderOf(x)
    BY <1>3 DEF OrderOf
  <2> SUFFICES ASSUME NEW i \in 1 .. Len(held'[t])
               PROVE  /\ owner'[held'[t][i].mutex] = t
                      /\ held'[t][i].id = OrderOf(held'[t][i].mutex)
    BY <2>0 DEF Recorded
  <2>1. owner[held[t][i].mutex] = t /\ held[t][i].id = OrderOf(held[t][i].mutex)
    BY <1>3, <1>5 DEF ThreadInv, Recorded, Waits, n
  <2>2. held[t][i].mutex \in Mutexes
    BY <1>5, StackTypes DEF n
  <2> QED
    BY <1>2, <1>3, <2>1, <2>2
<1>7. Rising(t)'
  BY <1>2, <1>5 DEF ThreadInv, Rising, n
<1>8. Blocked(t)'
  BY <1>2, <1>3 DEF ThreadInv, Blocked, Waits
<1>9. ASSUME NEW u \in Threads, u # t
      PROVE  ThreadInv(u)'
  <2>1. /\ owner[m] \in {t, None} /\ owner' = [owner EXCEPT ![m] = None]
        /\ UNCHANGED <<enabled, ids>>
        /\ held'[u] = held[u] /\ at'[u] = at[u] /\ want'[u] = want[u]
    BY <1>3, <1>9 DEF Unlock, TypeOK
  <2> QED
    BY <1>9, <2>1, OtherThread
<1> QED
  BY <1>4, <1>6, <1>7, <1>8, <1>9 DEF LockInv, ThreadInv

LEMMA CondvarWaitKeeps ==
  ASSUME LockInv, NEW t \in Threads, NEW m \in Mutexes, CondvarWait(t, m)
  PROVE  LockInv'
<1> TypeOK /\ ThreadInv(t)
  BY DEF LockInv
<1>1. TypeOK'
  BY DEF TypeOK, CondvarWait
<1>2. /\ at[t] = "run" /\ at'[t] = "cond" /\ want'[t] = m /\ owner'[m] = None
      /\ \A x \in Mutexes : x # m => owner'[x] = owner[x]
      /\ held' = held /\ enabled' = enabled /\ ids' = ids
      /\ t # None /\ m # None
  BY LockConstants DEF LockConstants, CondvarWait, TypeOK
<1>3. \A x : OrderOf(x)' = OrderOf(x)
  BY <1>2 DEF OrderOf
<1>4. Recorded(t)'
  <2>1. \A i \in 1 .. Len(held[t]) : held[t][i].mutex \in Mutexes
    BY StackTypes
  <2> QED
    BY <1>2, <1>3, <2>1 DEF ThreadInv, Recorded, Waits
<1>5. Rising(t)' /\ Blocked(t)'
  BY <1>2 DEF ThreadInv, Rising, Blocked, Waits
<1>6. ASSUME NEW u \in Threads, u # t
      PROVE  ThreadInv(u)'
  <2>1. /\ owner[m] \in {t, None} /\ owner' = [owner EXCEPT ![m] = None]
        /\ UNCHANGED <<enabled, ids>>
        /\ held'[u] = held[u] /\ at'[u] = at[u] /\ want'[u] = want[u]
    BY <1>6 DEF CondvarWait, TypeOK
  <2> QED
    BY <1>6, <2>1, OtherThread
<1> QED
  BY <1>1, <1>4, <1>5, <1>6 DEF LockInv, ThreadInv

LEMMA WakeKeeps ==
  ASSUME LockInv, NEW t \in Threads, Wake(t)
  PROVE  LockInv'
<1>1. TypeOK'
  BY DEF LockInv, TypeOK, Wake
<1>2. ASSUME NEW u \in Threads
      PROVE  ThreadInv(u)'
  <2>1. Waits(u)' <=> Waits(u)
    BY DEF Waits, Wake, LockInv, TypeOK
  <2>2. (at'[u] = "run" <=> at[u] = "run") /\ (at'[u] = "lock" <=> at[u] = "lock")
    BY DEF Wake, LockInv, TypeOK
  <2> QED
    BY <2>1, <2>2 DEF LockInv, ThreadInv, Recorded, Rising, Blocked, Above, OrderOf, Wake
<1> QED
  BY <1>1, <1>2 DEF LockInv

LEMMA RelockedKeeps ==
  ASSUME LockInv, NEW t \in Threads, Relocked(t)
  PROVE  LockInv'
<1> TypeOK /\ ThreadInv(t)
  BY DEF LockInv
<1> DEFINE m == want[t]
<1>0. m \in Mutexes
  BY DEF ThreadInv, Blocked, Relocked, TypeOK
<1>1. TypeOK'
  BY <1>0 DEF TypeOK, Relocked, Acquire
<1>2. /\ at'[t] = "run" /\ want'[t] = None /\ owner'[m] = t
      /\ \A x \in Mutexes : x # m => owner'[x] = owner[x]
      /\ held' = held /\ enabled' = enabled /\ ids' = ids
  BY <1>0 DEF Relocked, Acquire, TypeOK
<1>3. \A x : OrderOf(x)' = OrderOf(x)
  BY <1>2 DEF OrderOf
<1>4. Recorded(t)'
  <2>1. \A i \in 1 .. Len(held[t]) : held[t][i].mutex \in Mutexes
    BY StackTypes
  <2> QED
    BY <1>2, <1>3, <2>1 DEF ThreadInv, Recorded
<1>5. Rising(t)' /\ Blocked(t)'
  BY <1>2 DEF ThreadInv, Rising, Blocked, Waits
<1>6. ASSUME NEW u \in Threads, u # t
      PROVE  ThreadInv(u)'
  <2>1. /\ owner[m] \in {t, None} /\ owner' = [owner EXCEPT ![m] = t]
        /\ UNCHANGED <<enabled, ids>>
        /\ held'[u] = held[u] /\ at'[u] = at[u] /\ want'[u] = want[u]
    BY <1>6 DEF Relocked, Acquire, TypeOK
  <2> QED
    BY <1>0, <1>6, <2>1, OtherThread
<1> QED
  BY <1>1, <1>4, <1>5, <1>6 DEF LockInv, ThreadInv

\* The mutex that is given an id is in no stack, and nobody is blocked for it.
LEMMA MutexSetIdKeeps ==
  ASSUME LockInv, NEW m \in Mutexes, NEW id \in Ids, MutexSetId(m, id)
  PROVE  LockInv'
<1> TypeOK
  BY DEF LockInv
<1>1. TypeOK'
  BY DEF TypeOK, MutexSetId
<1>2. \A x : x # m => OrderOf(x)' = OrderOf(x)
  BY DEF OrderOf, MutexSetId
<1>3. ASSUME NEW t \in Threads
      PROVE  ThreadInv(t)'
  <2>1. ThreadInv(t) /\ want[t] # m /\ owner[m] = None /\ t # None
    BY LockConstants DEF LockConstants, LockInv, MutexSetId, InUse
  <2>2. \A i \in 1 .. Len(held[t]) : held[t][i].mutex # m
    BY <2>1 DEF ThreadInv, Recorded
  <2>3. Recorded(t)'
    BY <1>2, <2>1, <2>2 DEF ThreadInv, Recorded, Waits, MutexSetId
  <2>4. Above(t, want[t])' <=> Above(t, want[t])
    BY <1>2, <2>1 DEF Above, MutexSetId
  <2>5. Rising(t)' /\ Blocked(t)'
    BY <2>1, <2>4 DEF ThreadInv, Rising, Blocked, Waits, MutexSetId
  <2> QED
    BY <2>3, <2>5 DEF ThreadInv
<1> QED
  BY <1>1, <1>3 DEF LockInv

\* The diagnostics are configured, or cleared, while the stacks are empty.
LEMMA ConfigureKeeps ==
  ASSUME LockInv, (\E on \in BOOLEAN : SetEnabled(on)) \/ \E t \in Threads : Clear(t)
  PROVE  LockInv'
<1>1. Quiet /\ UNCHANGED <<at, want, owner>>
  BY DEF SetEnabled, Clear
<1>2. \A t \in Threads : held[t] = <<>> /\ at[t] = "run"
  BY <1>1, QuietFacts
<1>3. TypeOK' /\ \A t \in Threads : held'[t] = <<>>
  BY <1>2 DEF LockInv, TypeOK, SetEnabled, Clear
<1>4. ASSUME NEW t \in Threads
      PROVE  ThreadInv(t)'
  <2>1. held'[t] = <<>> /\ at'[t] = "run" /\ want'[t] = None /\ Len(held'[t]) = 0
    BY <1>1, <1>2, <1>3 DEF LockInv, ThreadInv, Blocked
  <2> QED
    BY <2>1 DEF ThreadInv, Recorded, Rising, Blocked, Waits
<1> QED
  BY <1>3, <1>4 DEF LockInv

LEMMA LockStep == LockInv /\ [Next]_vars => LockInv'
<1> SUFFICES ASSUME LockInv, [Next]_vars
             PROVE  LockInv'
  OBVIOUS
<1>1. CASE \E m \in Mutexes, id \in Ids : MutexSetId(m, id)
  BY <1>1, MutexSetIdKeeps
<1>2. CASE (\E on \in BOOLEAN : SetEnabled(on)) \/ \E t \in Threads : Clear(t)
  BY <1>2, ConfigureKeeps
<1>3. ASSUME NEW t \in Threads, Locked(t) \/ Wake(t) \/ Relocked(t)
      PROVE  LockInv'
  BY <1>3, LockedKeeps, WakeKeeps, RelockedKeeps
<1>4. ASSUME NEW t \in Threads, NEW m \in Mutexes,
             Lock(t, m) \/ TryLock(t, m) \/ Unlock(t, m) \/ CondvarWait(t, m)
      PROVE  LockInv'
  BY <1>4, LockKeeps, TryLockKeeps, UnlockKeeps, CondvarWaitKeeps
<1>5. CASE UNCHANGED vars
  BY <1>5 DEF vars, LockInv, TypeOK, ThreadInv, Recorded, Rising, Blocked, Above, Waits,
              OrderOf
<1> QED
  BY <1>1, <1>2, <1>3, <1>4, <1>5 DEF Next

LEMMA LockInit == Init => LockInv
<1> SUFFICES ASSUME Init
             PROVE  LockInv
  OBVIOUS
<1>1. TypeOK
  <2>1. ids = [m \in {} |-> 0] /\ DOMAIN ids = {}
    BY DEF Init
  <2>2. DOMAIN ids \subseteq Mutexes /\ ids \in [DOMAIN ids -> Ids]
    BY <2>1
  <2>3. <<>> \in Seq(Entry) /\ Len(<<>>) = 0 /\ 0 <= MaxHeld
    BY LockConstants DEF LockConstants
  <2>4. held \in [Threads -> Seq(Entry)] /\ \A t \in Threads : Len(held[t]) <= MaxHeld
    BY <2>3 DEF Init
  <2> QED
    BY <2>2, <2>4 DEF Init, TypeOK
<1>2. ASSUME NEW t \in Threads
      PROVE  ThreadInv(t)
  BY DEF Init, ThreadInv, Recorded, Rising, Blocked, Waits
<1> QED
  BY <1>1, <1>2 DEF LockInv

-----------------------------------------------------------------------------
(* Consequences *)

LEMMA StackTrueFromInv == LockInv => StackTrue
BY StackTypes DEF LockInv, ThreadInv, Recorded, Waits, StackTrue

\* If t waits for a mutex that u has, and u is blocked too, then u waits for a
\* mutex of a larger id.
LEMMA WaitsForLarger ==
  ASSUME LockInv, NEW t \in Threads, NEW u \in Threads,
         want[t] \in Mutexes, owner[want[t]] = u, OrderOf(want[t]) > 0,
         at[u] \in {"lock", "relock"}, OrderOf(want[u]) > 0,
         ~Unrecorded(u), ~TakesBackOuter(u)
  PROVE  OrderOf(want[t]) < OrderOf(want[u])
<1> USE DEF LockInv, ThreadInv
<1>1. PICK i \in 1 .. Len(held[u]) : held[u][i].mutex = want[t]
  BY HookFacts DEF Unrecorded
<1>2. held[u][i].id = OrderOf(want[t]) /\ held[u][i].id > 0
  BY <1>1 DEF Recorded
<1>3. OrderOf(want[t]) \in Int /\ OrderOf(want[u]) \in Int
  BY OrderType
<1>4. CASE at[u] = "lock"
  <2>1. Above(u, want[u])
    BY <1>4 DEF Blocked
  <2> QED
    BY <1>2, <1>3, <2>1 DEF Above
<1>5. CASE at[u] = "relock"
  <2> DEFINE n == Len(held[u])
  <2>1. held[u] \in Seq(Entry) /\ n \in Nat /\ i \in 1 .. n /\ n \in 1 .. n
    BY StackTypes
  <2>2. held[u] # <<>>
    BY <2>1
  <2>3. held[u][n].mutex = want[u]
    BY <1>5, <2>2 DEF TakesBackOuter
  <2>4. owner[want[u]] # u
    BY <1>5 DEF Blocked, Waits
  <2>5. i # n
    BY <1>1, <2>3, <2>4
  <2>6. i < n
    BY <2>1, <2>5
  <2>7. held[u][n].id = OrderOf(want[u])
    BY <2>1, <2>3 DEF Recorded
  <2>8. held[u][n].id # 0
    BY <1>3, <2>7
  <2> QED
    BY <1>2, <2>1, <2>6, <2>7, <2>8 DEF Rising
<1> QED
  BY <1>4, <1>5

LEMMA NoDeadlockFromInv == LockInv => NoDeadlock
<1> SUFFICES ASSUME LockInv, NEW S \in SUBSET Threads, Stuck(S),
                    \A t \in S : OrderOf(want[t]) > 0,
                    \A t \in S : ~Unrecorded(t) /\ ~TakesBackOuter(t)
             PROVE  FALSE
  BY DEF NoDeadlock
<1> DEFINE gap(t) == IdMax - OrderOf(want[t])
           G == {gap(t) : t \in S}
<1>1. ASSUME NEW t \in S
      PROVE  OrderOf(want[t]) \in Int /\ OrderOf(want[t]) <= IdMax
  BY OrderType, LockConstants DEF LockInv, LockConstants
<1>2. ASSUME NEW t \in S
      PROVE  gap(t) \in Nat
  BY <1>1, LockConstants DEF LockConstants
<1>3. G \subseteq Nat /\ G # {}
  BY <1>2 DEF Stuck
<1> HIDE DEF G
<1>4. PICK x \in G : \A y \in G : ~(<<y, x>> \in OpToRel(<, Nat))
  BY <1>3, NatLessThanWellFounded, WFMin
<1>5. PICK t \in S : x = gap(t)
  BY <1>4 DEF G
<1> DEFINE u == owner[want[t]]
<1>6. u \in S /\ t \in Threads /\ u \in Threads /\ at[t] # "run" /\ at[u] \in {"lock", "relock"}
  BY <1>5 DEF Stuck
<1>7. want[t] \in Mutexes
  <2>1. want[t] # None
    BY <1>6 DEF LockInv, ThreadInv, Blocked
  <2> QED
    BY <1>6, <2>1 DEF LockInv, TypeOK
<1>8. OrderOf(want[t]) < OrderOf(want[u])
  BY <1>6, <1>7, WaitsForLarger
<1>9. gap(u) < gap(t) /\ gap(u) \in Nat /\ gap(t) \in Nat
  BY <1>1, <1>2, <1>6, <1>8, LockConstants DEF LockConstants
<1>10. gap(u) \in G
  BY <1>6 DEF G
<1>11. <<gap(u), x>> \in OpToRel(<, Nat)
  BY <1>5, <1>9 DEF OpToRel
<1> QED
  BY <1>4, <1>10, <1>11

-----------------------------------------------------------------------------
(* Theorems *)

\* The table of ids and the stacks of the diagnostics hold mutexes and stay
\* within their sizes, for any number of threads and mutexes.
THEOREM LockTypeCorrect == Spec => []TypeOK
<1>1. LockInv => TypeOK
  BY DEF LockInv
<1> QED
  BY <1>1, LockInit, LockStep, PTL DEF Spec

\* What the diagnostics record of a thread is what the thread has, or gave away
\* in a wait that takes it back; the recorded ids are those of the mutexes.
THEOREM StacksTellTheTruth == Spec => []StackTrue
BY LockInit, LockStep, StackTrueFromInv, PTL DEF Spec

\* The hooks before a lock keep threads from being stuck on each other, whatever
\* their number, except through a mutex that is not recorded or a wait on a
\* mutex that was not the last one locked.
THEOREM DiagnosticsPreventDeadlock == Spec => []NoDeadlock
BY LockInit, LockStep, NoDeadlockFromInv, PTL DEF Spec
=============================================================================
