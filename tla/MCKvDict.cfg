\* The fourth compaction finds all levels used.
CONSTANTS
  k1 = k1
  k2 = k2
  k3 = k3
  short = short
  long = long
  NoVal = NoVal
  Keys = {k1, k2}
  Vals = {short, long}
  KeyClass <- ClassPerKey
  ValLen <- Lengths
  OutCaps = {2}
  Cap = 2
  WalCap = 1
  MtCap = 2
  MaxGen = 4
SYMMETRY AllPerms
SPECIFICATION Spec
INVARIANTS TypeOK MergeKeepsNewest
PROPERTIES DictRefined
\* A flush that overruns the main file ends the behaviour.
CHECK_DEADLOCK FALSE
