SPECIFICATION Spec
CONSTANTS
  N = 3
  HashOf <- MCHashOf
  PseudoColumns <- NoColumns
  Forbidden <- NoForbidden
  InitialColumns <- Fresh
  Instances <- PartialAssignments
  ChronoOptions <- Both
  DecisionOrders <- TwoOrders
  MaxRestarts = 1
INVARIANT PermPerTrusted
