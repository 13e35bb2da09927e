SPECIFICATION Spec
CONSTANTS
  N = 3
  Calls <- MCCalls
  LockCores <- MCCores
  Programs <- MCPrograms
  w = w
  x = x
  y = y
  z = z
  Address = {w, x, y, z}
  InitialWord <- MCWords
  NoData = NoData
INVARIANTS
  DataReachesItsReader
  BarrierSeparates
  JoinedHaveEnded
  NoUpdateIsLost
  NobodyWaitsLong
PROPERTIES
  ImplementsMutex
  Returns
