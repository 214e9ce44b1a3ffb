------------------------------ MODULE LockOrder ------------------------------
(***************************************************************************)
(* Mutexes, condition variables and the lock diagnostics of std.sync       *)
(* (src/compiler/seeds/runtime_sync_os.from_x.c,                           *)
(* runtime_sync_lock_diag_tls.from_x.c).                                   *)
(*                                                                         *)
(* With the diagnostics on, each thread records the mutexes it holds in a  *)
(* stack, and a lock or an unlock that breaks the order of the ids, locks  *)
(* a mutex again or unlocks out of turn is refused.  What a refusal        *)
(* changes, and what is only reported (the last error, the counters), is   *)
(* left out: a refused call is no step here.                               *)
(*                                                                         *)
(* A mutex is an address: freeing and reallocating one keeps its id, as    *)
(* the table of ids is not told.                                           *)
(***************************************************************************)
EXTENDS Integers, Sequences, FiniteSets

CONSTANTS
  Threads, Mutexes, None,
  Ids, IdMax,  \* the ids callers give; the largest int32_t
  MaxHeld,     \* SYNC_LOCK_DIAG_MAX_HELD
  MaxMeta      \* SYNC_LOCK_DIAG_MAX_META

ASSUME LockConstants ==
  /\ None \notin Threads \cup Mutexes
  /\ Ids \subseteq Int /\ IdMax \in Nat /\ \A n \in Ids : n <= IdMax
  /\ MaxHeld \in Nat /\ MaxMeta \in Nat

VARIABLES
  enabled,  \* g_sync_ld_enabled
  ids,      \* g_sync_meta: the id of each mutex that has one
  held,     \* the stack of each thread
  at,       \* where a thread is: "run", or blocked in "lock", "cond", "relock"
  want,     \* the mutex of the call a thread is blocked in
  owner     \* the thread that has a mutex

vars == <<enabled, ids, held, at, want, owner>>

Init ==
  /\ enabled = FALSE
  /\ ids = [m \in {} |-> 0]
  /\ held = [t \in Threads |-> <<>>]
  /\ at = [t \in Threads |-> "run"]
  /\ want = [t \in Threads |-> None]
  /\ owner = [m \in Mutexes |-> None]

OrderOf(m) == IF m \in DOMAIN ids THEN ids[m] ELSE 0

InUse(m) == owner[m] # None \/ \E t \in Threads : want[t] = m
Quiet == \A m \in Mutexes : ~InUse(m)

-----------------------------------------------------------------------------
(* Configuration *)

\* Callers turn the diagnostics on or off while no mutex is in use.
SetEnabled(on) ==
  /\ Quiet /\ enabled' = on
  /\ UNCHANGED <<ids, held, at, want, owner>>

\* Callers give a mutex its id while it is not in use.
MutexSetId(m, id) ==
  /\ ~InUse(m)
  /\ m \in DOMAIN ids \/ Cardinality(DOMAIN ids) < MaxMeta
  /\ ids' = [x \in DOMAIN ids \cup {m} |-> IF x = m THEN id ELSE ids[x]]
  /\ UNCHANGED <<enabled, held, at, want, owner>>

\* The ids of all mutexes, and the stack of the thread that calls.
Clear(t) ==
  /\ Quiet
  /\ ids' = [m \in {} |-> 0]
  /\ held' = [held EXCEPT ![t] = <<>>]
  /\ UNCHANGED <<enabled, at, want, owner>>

-----------------------------------------------------------------------------
(* The hooks *)

Has(t, m) == \E i \in DOMAIN held[t] : held[t][i].mutex = m

\* sync_lock_diag_tls_has_c answers 2.
IsTop(t, m) ==
  Has(t, m) /\ \A i \in DOMAIN held[t] : held[t][i].mutex = m => i = Len(held[t])

\* Mutant: two mutexes of one id may be held together.
OutOfOrderStrict(t, m) ==
  /\ OrderOf(m) # 0
  /\ \E i \in DOMAIN held[t] : held[t][i].id > 0 /\ OrderOf(m) < held[t][i].id

\* Against the largest id of the stack, if that is positive.
OutOfOrder(t, m) ==
  /\ OrderOf(m) # 0
  /\ \E i \in DOMAIN held[t] : held[t][i].id > 0 /\ OrderOf(m) <= held[t][i].id

BeforeLock(t, m) == enabled => ~Has(t, m) /\ ~OutOfOrder(t, m)

\* Mutant: a stack without an end.
PushedUnchecked(t, m) ==
  IF enabled THEN Append(held[t], [mutex |-> m, id |-> OrderOf(m)]) ELSE held[t]

Pushed(t, m) ==
  IF enabled /\ Len(held[t]) < MaxHeld
  THEN Append(held[t], [mutex |-> m, id |-> OrderOf(m)])
  ELSE held[t]

\* Mutant: a mutex may be unlocked out of turn.
BeforeUnlockAny(t, m) == enabled => Has(t, m)

BeforeUnlock(t, m) == enabled => IsTop(t, m)

Popped(t) ==
  IF enabled /\ held[t] # <<>> THEN SubSeq(held[t], 1, Len(held[t]) - 1) ELSE held[t]

-----------------------------------------------------------------------------
(* sync_mutex_*, sync_condvar_wait *)

\* Up to the call of pthread_mutex_lock.
Lock(t, m) ==
  /\ at[t] = "run" /\ BeforeLock(t, m)
  /\ at' = [at EXCEPT ![t] = "lock"]
  /\ want' = [want EXCEPT ![t] = m]
  /\ UNCHANGED <<enabled, ids, held, owner>>

Acquire(t, m) ==
  /\ owner[m] = None
  /\ owner' = [owner EXCEPT ![m] = t]
  /\ at' = [at EXCEPT ![t] = "run"]
  /\ want' = [want EXCEPT ![t] = None]
  /\ UNCHANGED <<enabled, ids>>

\* pthread_mutex_lock returns.
Locked(t) ==
  /\ at[t] = "lock" /\ Acquire(t, want[t])
  /\ held' = [held EXCEPT ![t] = Pushed(t, want[t])]

TryLock(t, m) ==
  /\ at[t] = "run" /\ BeforeLock(t, m) /\ Acquire(t, m)
  /\ held' = [held EXCEPT ![t] = Pushed(t, m)]

\* By its owner, as callers must.
Unlock(t, m) ==
  /\ at[t] = "run" /\ owner[m] = t /\ BeforeUnlock(t, m)
  /\ owner' = [owner EXCEPT ![m] = None]
  /\ held' = [held EXCEPT ![t] = Popped(t)]
  /\ UNCHANGED <<enabled, ids, at, want>>

\* pthread_cond_wait gives the mutex away; the diagnostics are not told.
CondvarWait(t, m) ==
  /\ at[t] = "run" /\ owner[m] = t
  /\ owner' = [owner EXCEPT ![m] = None]
  /\ at' = [at EXCEPT ![t] = "cond"]
  /\ want' = [want EXCEPT ![t] = m]
  /\ UNCHANGED <<enabled, ids, held>>

\* A signal, a broadcast or a spurious wakeup.
Wake(t) ==
  /\ at[t] = "cond"
  /\ at' = [at EXCEPT ![t] = "relock"]
  /\ UNCHANGED <<enabled, ids, held, want, owner>>

Relocked(t) ==
  /\ at[t] = "relock" /\ Acquire(t, want[t])
  /\ UNCHANGED held

Next ==
  \/ \E on \in BOOLEAN : SetEnabled(on)
  \/ \E m \in Mutexes, id \in Ids : MutexSetId(m, id)
  \/ \E t \in Threads :
       \/ Clear(t) \/ Locked(t) \/ Wake(t) \/ Relocked(t)
       \/ \E m \in Mutexes :
            Lock(t, m) \/ TryLock(t, m) \/ Unlock(t, m) \/ CondvarWait(t, m)

Spec == Init /\ [][Next]_vars

-----------------------------------------------------------------------------
(* Properties *)

Entry == [mutex : Mutexes, id : Ids \cup {0}]

\* The table of ids and the stacks hold mutexes and stay within their sizes.
TypeOK ==
  /\ enabled \in BOOLEAN
  /\ DOMAIN ids \subseteq Mutexes /\ ids \in [DOMAIN ids -> Ids]
  /\ held \in [Threads -> Seq(Entry)] /\ \A t \in Threads : Len(held[t]) <= MaxHeld
  /\ at \in [Threads -> {"run", "lock", "cond", "relock"}]
  /\ want \in [Threads -> Mutexes \cup {None}]
  /\ owner \in [Mutexes -> Threads \cup {None}]

\* What a stack records is so: the thread has the mutex, or gave it away in a
\* wait that will take it back, and the id is still the mutex's.  So no thread
\* is refused as a second locker of a mutex it does not hold.
StackTrue ==
  \A t \in Threads : \A i \in DOMAIN held[t] :
    LET m == held[t][i].mutex IN
    /\ owner[m] = t \/ (at[t] \in {"cond", "relock"} /\ want[t] = m)
    /\ held[t][i].id = OrderOf(m)

\* A cycle, or worse: every thread of S waits for a mutex one of S has.
Stuck(S) ==
  /\ S # {}
  /\ \A t \in S : at[t] \in {"lock", "relock"} /\ owner[want[t]] \in S

\* A thread has a mutex its stack does not show: the diagnostics are off, or
\* the stack was full.
Unrecorded(t) == \E m \in Mutexes : owner[m] = t /\ ~Has(t, m)

\* A thread comes back from a wait for a mutex under one it locked later.
TakesBackOuter(t) ==
  /\ at[t] = "relock"
  /\ held[t] # <<>> => held[t][Len(held[t])].mutex # want[t]

\* The diagnostics prevent deadlock among mutexes with positive ids: threads can
\* be stuck on each other only through a mutex that is not recorded, or after
\* waiting on a condition variable with a mutex that was not the last one
\* locked.  An id that is not positive orders nothing.
NoDeadlock ==
  \A S \in SUBSET Threads :
    Stuck(S) /\ (\A t \in S : OrderOf(want[t]) > 0)
      => \E t \in S : Unrecorded(t) \/ TakesBackOuter(t)
=============================================================================
