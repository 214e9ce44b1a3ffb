\* Two of three keys share a class and the memtable has room for one.
CONSTANTS
  k1 = k1
  k2 = k2
  k3 = k3
  short = short
  long = long
  NoVal = NoVal
  Keys = {k1, k2, k3}
  Vals = {short, long}
  KeyClass <- SharedClass
  ValLen <- Lengths
  OutCaps = {2}
  Cap = 2
  WalCap = 2
  MtCap = 1
  MaxGen = 1
SYMMETRY ValPerms
SPECIFICATION Spec
INVARIANTS MtHitFresh MtNoDanglingLog IndexIsFold
\* A flush that overruns the main file ends the behaviour.
CHECK_DEADLOCK FALSE
