SPECIFICATION Spec
CONSTANTS
  c1 = c1
  c2 = c2
  w1 = w1
  NoOne = NoOne
  Callers <- MCCallers
  Writers <- MCWriters
  MaxRevs = 2
  MaxGens = 2
  MaxIds = 2
  MaxEvents = 1
  MaxWrites = 1
SYMMETRY MCSymmetry
INVARIANTS ReadsOneRevision
PROPERTIES LegacyStaysOut
