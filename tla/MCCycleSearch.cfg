SPECIFICATION MCSpec
CONSTANTS
  N = 4
  MaxUsers = 2
  Graphs <- MCGraphs
INVARIANTS
  RecordedAreCycles
  StackStaysBlocked
  BlockedWaits
  StartsAreExhausted
PROPERTY Terminates
