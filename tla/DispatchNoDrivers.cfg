SPECIFICATION Spec
CONSTANTS
  Requests = {r1}
  Drivers = {d1}
  Batchers = {b1}
  MaxEntries = 2
  MaxLen = 2
  MaxDeliveries = 2
  MaxBatchSize = 2
  MaxMatchAttempts = 2
  MaxFaults = 0
  MaxStops = 0
  Timely = TRUE
  PermanentErrors = FALSE
CHECK_DEADLOCK FALSE
INVARIANTS
  PoisonMeansInfrastructureFault
