SPECIFICATION RoutingSpec
CONSTANTS
  h1 = h1  h2 = h2  d1 = d1  d2 = d2  p1 = p1
  None = None
  Harnesses <- MCHarnesses
  Drivers <- MCDrivers
  Planners <- MCPlanners
  Crews <- MCCrews
  Configs <- MCConfigs
  TierOf <- MCTierOf
  RetryAfter <- MCRetryAfter
  MaxRetries = 2
  MaxTime = 2
  MaxFaults = 2
  MaxDeaths = 1
  MaxResumes = 1
CHECK_DEADLOCK FALSE
INVARIANTS QuotaIsKept 
