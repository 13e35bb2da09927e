SPECIFICATION Spec
CONSTANTS
  N = 3
  MaxUsers = 2
  Graphs <- MCGraphs
  Conditions <- MCConditions
  PhiGraphs <- MCPhiGraphs
  PhiConditions <- MCPhiConditions
  PhiDelay = {1}
  Block = {bb0, bb1}
  State = {s0, s1}
  MaxDelay = 2
  Delay = {0, 1}
SYMMETRY MCSymmetry
INVARIANTS
  AllComponentsFound
  CrossingIsVoted
  SingleStateCyclesVotedThroughout
  EveryPhiServed
  SimpleLoopsVoted
PROPERTIES
  ImplementsCover
