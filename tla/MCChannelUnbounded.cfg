\* One unbounded channel that grows up to three times.
CONSTANTS
  Threads = {t1, t2, t3}
  Chans = {c1}
  c1 = c1
  Vals = {a, b}
  Junk = Junk
  NoRes = NoRes
  InitCap <- One
  Unbounded = {c1}
  MaxCap = 8
SYMMETRY Perms
SPECIFICATION Spec
INVARIANTS NoLostWakeup
PROPERTIES GrowKeepsFront
