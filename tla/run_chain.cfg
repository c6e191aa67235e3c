SPECIFICATION FairSpec
CONSTANTS
  Tasks <- ChainTasks
  Deps <- ChainDeps
  VerifyGate = {1}
  Harnesses = {h1}
  Paned = {}
  MaxRetries = 2
  MaxWorkers = 1
  MaxAttemptId = 3
  MaxCrashes = 1
  MaxResumes = 2
  MaxOps = 1
CHECK_DEADLOCK FALSE
INVARIANTS TypeOK DependenciesFirst BranchMatchesLog OneWorkerPerTask
PROPERTIES HonestIdle ImplementsLifecycle DriverStops
