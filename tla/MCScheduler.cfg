\* One or two workers with room for two tasks each, three tasks, a task group
\* and a join set.
CONSTANTS
  Tasks = {a, b, c}
  a = a
  b = b
  c = c
  g = g
  s = s
  None = None
  Awaits <- AwaitsOf
  Result <- ResultOf
  Groups = {g, s}
  JoinSets = {s}
  GroupCap = 2
  Solo = {a}
  Members <- MembersOf
  Ctxs = {root, c1}
  Root = root
  MaxWorkers = 2
  Room = 2
  WaitCap = 1
  SeedMax = 2
  CtxSlots = 1
  StallMax = 2
  MaxAttempts = 2
SPECIFICATION FairSpec
INVARIANTS TypeOK Conserved LeakCheckSound SeedsMatch
PROPERTIES DrainEnds
