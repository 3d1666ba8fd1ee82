SPECIFICATION Spec
CONSTANTS
  Orders = {2, 3, 4, 5}
  N = 5
  PseudoFrom = 4
  PseudoCutoff = 5
  PseudoSlack = 2
INVARIANTS
  AcceptedByCheckPerm
PROPERTIES
  ImplementsTest
  Terminates
