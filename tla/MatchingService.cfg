CONSTANTS
  Capacity = 1
  MaxDepth = 2
  MaxRiders = 3
  MaxDrivers = 3
  RoadNodes <- MCRoadNodes
  Roads <- MCRoads
  Batches <- MCBatches
SPECIFICATION Spec
INVARIANTS TypeOK ShortlistExact TimesExact SettledIsFinal Optimal HonestReasons
PROPERTY Termination
