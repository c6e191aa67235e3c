SPECIFICATION Spec
CONSTANTS
  Tasks <- ChainTasks
  Deps <- PairDeps
  VerifyGate = {1}
  Harnesses = {h1, h2}
  Paned = {h1}
  MaxRetries = 2
  MaxWorkers = 1
  MaxAttemptId = 3
  MaxCrashes = 1
  MaxResumes = 2
  MaxOps = 0
CHECK_DEADLOCK FALSE
INVARIANTS SlotBound RetryBudget DriverAloneKeepsLogLegal
