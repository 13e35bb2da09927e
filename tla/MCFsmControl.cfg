SPECIFICATION Spec
CONSTANTS
  Value = {0, 1, 2}
  Functions <- MCFunctions
  CASE_FSM = TRUE
INVARIANTS
  BothFormsAgree
PROPERTIES
  ImplementsControlFlow
  BlocksAreLeft
