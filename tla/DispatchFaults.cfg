SPECIFICATION FairSpec
CONSTANTS
  Requests = {r1}
  Drivers = {d1}
  Batchers = {b1}
  MaxEntries = 6
  MaxLen = 6
  MaxDeliveries = 2
  MaxBatchSize = 2
  MaxMatchAttempts = 2
  MaxFaults = 1
  MaxStops = 1
  Timely = TRUE
  PermanentErrors = TRUE
CHECK_DEADLOCK FALSE
INVARIANTS
  TypeOK
  NoAcceptedRequestLost
  AckedMeansSettled
  AttemptsEarned
  ExhaustedHadAllAttempts
  PoisonNotProcessed
PROPERTIES
  ImplementsAtLeastOnce
  AcceptedEventuallySettled
  ShutdownCompletes
