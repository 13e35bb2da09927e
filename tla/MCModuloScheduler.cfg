SPECIFICATION Spec
CONSTANTS
  N = 4
  mem = mem
  none = none
  FU = {mem}
  NoUnit = none
  numIssueSlots <- MCSlots
  Limited = {3, 4}
  MaxDependences = 2
  Kernels <- MCKernels
  Schedulers = {"SDC_BACKTRACKING", "SDC_GREEDY", "ITERATIVE"}
  BudgetRatio = 1
INVARIANTS
  TableMatchesTimes
  NothingIsLost
  ScheduleIsValid
  AssertionsHold
PROPERTIES
  Terminates
