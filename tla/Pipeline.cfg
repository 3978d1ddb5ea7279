SPECIFICATION PipelineFairSpec
CONSTANTS
  Ids = {d1}
  Tenants = {t1, t2}
  TTL = 1
  None = None
  MaxTime = 3
  MaxFaults = 1
  MaxLate = 1
  MaxBufferedDrivers = 1
  MaxPings = 2
INVARIANTS
  FreshMeansPinged
PROPERTIES
  SweepSparesFresh
  StaleReaped
  RunReturns
