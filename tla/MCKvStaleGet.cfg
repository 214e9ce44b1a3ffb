\* One compaction, then an overwrite and a flush.
CONSTANTS
  k1 = k1
  k2 = k2
  k3 = k3
  short = short
  long = long
  NoVal = NoVal
  Keys = {k1, k2}
  Vals = {short, long}
  KeyClass <- ClassPerKey
  ValLen <- Lengths
  OutCaps = {2}
  Cap = 2
  WalCap = 2
  MtCap = 2
  MaxGen = 1
SYMMETRY AllPerms
SPECIFICATION Spec
INVARIANTS GetLatestOrError
\* A flush that overruns the main file ends the behaviour.
CHECK_DEADLOCK FALSE
