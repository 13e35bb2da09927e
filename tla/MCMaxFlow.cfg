SPECIFICATION Spec
CONSTANTS
  N = 4
  HasMemoryController = FALSE
  Widths = {1, 2}
  INF = 1000000000
INVARIANTS
  FlowIsLegal
  FindsNearestCut
PROPERTIES
  Terminates
