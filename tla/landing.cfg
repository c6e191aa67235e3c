SPECIFICATION Spec
CONSTANTS
  Graph <- MCPair
  MaxId = 2
  MaxCrashes = 1
  MaxFaults = 1
  MaxRestarts = 1
  MaxBuilds = 2
CHECK_DEADLOCK FALSE
INVARIANTS LandsAcceptedWork RestartIsClean
