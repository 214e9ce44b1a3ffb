SPECIFICATION Spec
CONSTANTS
  Keys = {k1, k2, k3}
  Vals = {v1, v2}
  NoVal = NoVal
  Ttls = {0, 1, 2}
  MaxNodes = 3
  Capacity = 2
  MaxNow = 3
  Half = 16
SYMMETRY Alike
INVARIANTS TypeOK Linked PurgeComplete
PROPERTY ListRefined
