SPECIFICATION FairSpec
CONSTANTS
  p1 = p1
  p2 = p2
  d1 = d1
  d2 = d2
  w1 = w1
  w2 = w2
  v1 = v1
  Processes <- AllProcesses
  Tasks <- ChainTasks
  Deps <- ChainDeps
  Gated = {2}
  Planners = {p1, p2}
  Drivers = {d1, d2}
  Watchers = {w1, w2}
  Timed = {w2}
  Viewers = {v1}
  Casts <- AllCasts
  Pids = {1, 2}
  MaxRetries = 2
  MaxDeaths = 1
  MaxOps = 1
  NoTask = NoTask
  NoPid = NoPid
CHECK_DEADLOCK FALSE
INVARIANTS MigrationIsSafe ReadersAreTold
PROPERTIES HintIsSafe WatchEnds
