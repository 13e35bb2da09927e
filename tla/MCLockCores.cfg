SPECIFICATION Spec
CONSTANTS
  N = 3
  Calls <- LateCalls
  LockCores <- MCCores
  Programs <- LatePrograms
  w = w
  x = x
  y = y
  z = z
  Address = {w, x, y, z}
  InitialWord <- MCWords
  NoData = NoData
PROPERTIES
  Returns
