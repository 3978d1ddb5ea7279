SPECIFICATION Spec
CONSTANTS
  Ids = {d1}
  Tenants = {t1}
  TTL = 1
  None = None
  MaxTime = 0
  MaxFaults = 0
  MaxLate = 0
  Clients = {c1}
  MaxConnections = 1
  MaxBufferedDrivers = 1
  MaxPings = 1
INVARIANTS
  FinalWindowFlushed
