SPECIFICATION Spec
CONSTANTS
  KeyIds = {k1, k2}
  Operators = {o1}
  Lifetimes = {0}
  Overlap = 1
  None = None
  MaxTime = 1
  MaxWork = 4
  MaxFaults = 0
  Clients = {c1}
  RateLimit = 1
  Window = 2
  CounterTTL = 3
SYMMETRY Symmetry
INVARIANTS
  RevokedStaysOut
CHECK_DEADLOCK FALSE
