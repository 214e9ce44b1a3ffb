\* A ring of three slots, counters that wrap at nine, three producers.
CONSTANTS
  Workers = {w1}
  Producers = {p1, p2, p3}
  Tasks = {a, b}
  Null = Null
  Cap = 3
  Wrap = 9
SYMMETRY Perms
SPECIFICATION Spec
INVARIANTS TypeOK RefusedOnlyWhenFull
PROPERTIES RingRefined
