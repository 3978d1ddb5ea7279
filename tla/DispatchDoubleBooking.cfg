SPECIFICATION Spec
CONSTANTS
  Requests = {r1, r2}
  Drivers = {d1}
  Batchers = {b1, b2}
  MaxEntries = 2
  MaxLen = 2
  MaxDeliveries = 2
  MaxBatchSize = 1
  MaxMatchAttempts = 2
  MaxFaults = 0
  MaxStops = 0
  Timely = TRUE
  PermanentErrors = FALSE
CHECK_DEADLOCK FALSE
INVARIANTS
  NoDriverInTwoBatches
