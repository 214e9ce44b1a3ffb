\* Three threads and mutexes, and stacks with room for two.
CONSTANTS
  Threads = {t1, t2, t3}
  Mutexes = {m1, m2, m3}
  None = None
  Ids <- SignedIds
  IdMax = 3
  MaxHeld = 2
  MaxMeta = 3
SYMMETRY Perms
SPECIFICATION Spec
INVARIANTS TypeOK StackTrue NoDeadlock
\* With the diagnostics off, or past their limits, threads may deadlock.
CHECK_DEADLOCK FALSE
