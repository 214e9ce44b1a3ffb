\* A select and a receiver asleep on the same channel.
CONSTANTS
  Threads = {s1, t1, t2}
  Selectors = {s1}
  Pollers = {}
  Chans = {c1, c2}
  c1 = c1
  c2 = c2
  s2 = s2
  a = a
  Vals = {a}
  Junk = Junk
  NoRes = NoRes
  InitCap <- One
  Unbounded = {}
  MaxCap = 1
  Cases <- RecvBoth
  SelVal <- OneVal
SPECIFICATION SFairSpec
PROPERTIES SleepersServed
