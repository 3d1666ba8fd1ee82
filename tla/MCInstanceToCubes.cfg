SPECIFICATION Spec
CONSTANTS
  MaxVar = 120
  Requests <- SomeRequests
  MaxDisturbances <- AtMostOne
  Cuts <- EndsAndMiddle
  Settings <- SomeSettings
  Limits <- SomeLimits
INVARIANTS
  InstanceExact
  CanonicalAdmitted
  AmsCubesPartition
  ScriptCubesPartition
PROPERTIES
  FreshVariables
CHECK_DEADLOCK FALSE
