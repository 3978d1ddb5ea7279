CONSTANTS
  Capacity = 1
  MaxDepth = 2
  MaxRiders = 3
  MaxDrivers = 3
  RoadNodes <- MCRoadNodes
  Roads <- MCRoads
  Batches <- MCWestBatches
SPECIFICATION Spec
INVARIANT EveryDriverIndexed
