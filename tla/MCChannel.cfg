\* One bounded channel of two cells; no symmetry, for liveness.
CONSTANTS
  Threads = {t1, t2, t3}
  Chans = {c1}
  c1 = c1
  Vals = {a, b}
  Junk = Junk
  NoRes = NoRes
  InitCap <- Two
  Unbounded = {}
  MaxCap = 2
SPECIFICATION FairSpec
INVARIANTS TypeOK NoLostWakeup NoneAsleepOnClosed
PROPERTIES QueueRefined CloseReleases SleepersServed
