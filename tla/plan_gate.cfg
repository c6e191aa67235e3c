SPECIFICATION Spec
CONSTANTS
  c1 = c1
  c2 = c2
  Ids <- MCIds
  Files <- MCFiles
  Mutations <- MCMutations
  Commands <- MCCommands
  MaxCommands = 2
  MaxEvents = 5
SYMMETRY Exchange
CHECK_DEADLOCK FALSE
INVARIANTS PlanStaysLegal
PROPERTIES GateHolds OrderHolds
