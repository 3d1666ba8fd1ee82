SPECIFICATION Spec
CONSTANTS
  Workers = {w1, w2}
  Roots = {r1, r2}
  Inputs = {"cnf", "list"}
  Cutoffs = {"d","v","n"}
  CutoffValues = {0,1,2}
  SolveAfterCube = {TRUE, FALSE}
  Removed = {1}
  Extension = 1
  CnfDepth = 2
  ListDepth = 1
  MaxFaults = 1
INVARIANTS
  Partition
  JoinWaits
  InstancePresent
PROPERTIES
  GivenUpIsSplit
  Ends
