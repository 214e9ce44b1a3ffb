\* A blocking select of a receive and a send case, a polling one of two receive
\* cases, and a caller.
CONSTANTS
  Threads = {s1, s2, t1}
  Selectors = {s1, s2}
  Pollers = {s2}
  Chans = {c1, c2}
  c1 = c1
  c2 = c2
  s2 = s2
  a = a
  Vals = {a}
  Junk = Junk
  NoRes = NoRes
  InitCap <- One
  Unbounded = {}
  MaxCap = 1
  Cases <- MixedAndBoth
  SelVal <- OneVal
SPECIFICATION SFairSpec
INVARIANTS NoneAsleepOnClosed AllClosedIsTrue
PROPERTIES SelectReleased SelectNotStuck QueueRefined
