SPECIFICATION Spec
CONSTANTS
  N = 5
  HasMemoryController = TRUE
  AreaSets <- MCAreaSets
  Widths = {1, 3}
  NUMBER_OF_PARTITIONS = 3
  PART_AREA_MARGIN_PERCENTAGE = 10
INVARIANTS
  EveryInstancePlaced
  WithinLimit
PROPERTIES
  Terminates
