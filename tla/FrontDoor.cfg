SPECIFICATION Spec
CONSTANTS
  KeyIds = {k1, k2, k3}
  Operators = {o1, o2}
  Lifetimes = {0, 1}
  Overlap = 1
  None = None
  MaxTime = 3
  MaxWork = 4
  MaxFaults = 1
  Clients = {c1, c2}
  RateLimit = 1
  Window = 2
  CounterTTL = 3
SYMMETRY Symmetry
INVARIANTS
  TypeOK
  HeldListed
  OverlapKept
  RateBound
  RevocationLasts
  NobodyCutOff
CHECK_DEADLOCK FALSE
