SPECIFICATION Spec
CONSTANTS
  MaxVar = 4
  Problems <- SomeProblems
  Additions <- SomeClauses
  ElimBounds = {0}
INVARIANTS
  RedundantExcludesNothing
  ExtensionGivesModel
  SearchOverMappedVariables
PROPERTIES
  KeepsObservedSolutions
  ProofStepsCheck
CHECK_DEADLOCK FALSE
