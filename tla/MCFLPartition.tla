--------------------------- MODULE MCFLPartition ----------------------------
(* FLPartition on all call trees of N instances, with areas and widths     *)
(* from small sets.                                                        *)
EXTENDS FLPartition

MCArea(l, r, m) == [LUTs |-> l, REGs |-> r, MEMs |-> m, DSPs |-> 0]

\* 13.5 frames of logic, 46.1 of registers and memory
MCMixedAreas == {MCArea(150, 0, 0), MCArea(100, 900, 4)}

\* 31.5 frames of logic, 13.5 of registers: what is left may fill whole columns
MCColumnAreas == {MCArea(350, 0, 0), MCArea(50, 300, 0)}

MCAreaSets == {MCMixedAreas, MCColumnAreas}

============================================================================
