SPECIFICATION FairSpec
CONSTANTS
  Ids = {d1}
  Tenants = {t1}
  TTL = 1
  None = None
  MaxTime = 2
  MaxFaults = 1
  MaxLate = 1
  Clients = {c1, c2}
  MaxConnections = 1
  MaxBufferedDrivers = 1
  MaxPings = 1
INVARIANTS
  TypeOK
  CleanShutdown
  SlotsCounted
PROPERTIES
  ShutdownCompletes
