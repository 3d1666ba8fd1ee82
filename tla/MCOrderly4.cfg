SPECIFICATION Spec
CONSTANTS
  N = 4
  HashOf <- MCHashOf
  PseudoColumns = {2}
  Forbidden <- Triangle
  InitialColumns <- Fresh
  Instances <- Instance4
  ChronoOptions = {TRUE}
  DecisionOrders <- TwoOrders
  MaxRestarts = 0
INVARIANTS
  Exhaustive
PROPERTIES
  SearchedModelsCanonical
