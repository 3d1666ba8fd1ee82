SPECIFICATION Spec
CONSTANTS
  MaxVar = 5
  LookMax = 100
  SlIter = 9
  DlIter = 2
  SatIncrease = 20
  Problems <- MCProblems
  Orders <- MCOrders
  MaxDoubles = 1
INVARIANTS
  LearnsOnlyConsequences
  CountsMatchTrail
  SolutionHolds
  CubesPartition
  AnswersAsScript
PROPERTY
  Ends
