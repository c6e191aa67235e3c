SPECIFICATION Spec
CONSTANTS
  Atoms <- MCAtoms
  Severity <- MCSeverity
  Allowed <- MCAllowed
  MaxRounds = 3
  Command = TRUE
  Micro = TRUE
  CommitFaults = TRUE
  Crashes = TRUE
CHECK_DEADLOCK FALSE
INVARIANTS TreeMatchesSession PromptMatchesTree HarnessBudget VerdictIsAboutHead
