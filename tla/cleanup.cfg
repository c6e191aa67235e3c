SPECIFICATION Spec
CONSTANTS
  Worktrees <- MCWorktrees
  p1 = p1
  p2 = p2
  Appliers <- MCAppliers
  GitFaults = TRUE
  MaxPlans = 2
  MaxApplies = 3
  MaxCrashes = 1
  MaxDrift = 1
SYMMETRY Exchange
CHECK_DEADLOCK FALSE
INVARIANTS FencedRemoval JournalMatchesDisk CrashAloneRecovers
PROPERTIES DirtSurvives
