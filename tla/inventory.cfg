SPECIFICATION InventorySpec
CONSTANTS
  Commits <- MCCommits
  Parents <- MCParents
  Tree <- MCTree
  Receipts <- MCReceipts
  Dirs = {1, 2, 3}
  Outside = {3}
  MaxConsidered = 2
  MaxCommands = 2
  MaxChanges = 1
CHECK_DEADLOCK FALSE
INVARIANTS InventoryAgrees PassedMeansLanded
PROPERTIES RemovalIsOwned
