SPECIFICATION FairSpec
CONSTANTS
  p1 = p1
  p2 = p2
  Planners <- MCPlanners
  Casts <- MCCasts
  MaxRetries = 2
  NoOne = NoOne
  Depth = 2
  MaxFaults = 1
  MaxRequests = 1
CHECK_DEADLOCK FALSE
INVARIANTS CancelIsFinal ProductionIsOwned
PROPERTIES NobodyWaits
