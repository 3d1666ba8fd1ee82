SPECIFICATION CheckedSpec
CONSTANTS
  MaxVar = 6
  Problems <- SomeProblems
INVARIANTS
  ReasonsHold
  NoClauseFalsified
  AssumptionsFirst
  CheckersAccept
PROPERTIES
  KeepsContract
  Returns
