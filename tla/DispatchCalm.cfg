SPECIFICATION Spec
CONSTANTS
  Requests = {r1, r2}
  Drivers = {d1}
  Batchers = {b1, b2}
  MaxEntries = 4
  MaxLen = 4
  MaxDeliveries = 2
  MaxBatchSize = 2
  MaxMatchAttempts = 2
  MaxFaults = 0
  MaxStops = 0
  Timely = TRUE
  PermanentErrors = FALSE
SYMMETRY Symmetry
CHECK_DEADLOCK FALSE
INVARIANTS
  ExclusiveProcessing
  NoDuplicateInBatch
PROPERTIES
  AckIsFinal
  ImplementsExactlyOnce
