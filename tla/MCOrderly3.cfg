SPECIFICATION Spec
CONSTANTS
  N = 3
  HashOf <- MCHashOf
  PseudoColumns <- NoColumns
  Forbidden <- NoForbidden
  InitialColumns <- AnyMemory
  Instances <- PartialAssignments
  ChronoOptions <- Both
  DecisionOrders <- TwoOrders
  MaxRestarts = 1
INVARIANTS
  NoCanonicalBlocked
  PropagatorMirrorsTrail
  CountsModelsOnce
  PendingClauseFalsified
PROPERTIES
  Terminates
