CONSTANTS
  Requests = {r1, r2, r3}
  Keys = {k1, k2}
  NoKey = NoKey
  Prints = {p1, p2}
  Bodies = {1, 4}
  Overhead = 1
  Marker = 1
  Window = 2
  MaxEntries = 2
  MaxCacheBytes = 6
  MaxFlightBytes = 6
  Permits = 2
  MaxNow = 3
  Nobody = Nobody
SYMMETRY MCSymmetry
SPECIFICATION Spec
INVARIANTS SettledFirst AccountsExact
PROPERTIES PostedOnce
CHECK_DEADLOCK FALSE
