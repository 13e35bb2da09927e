--------------------------- MODULE MCVoterStatus ----------------------------
(* VoterStatus for samples of every kind: no replica outvoted, each one    *)
(* alone, and all three different.                                         *)
EXTENDS VoterStatus

CONSTANTS a, b, c

Shown(x, y, z) == [r \in Replica |-> IF r = 0 THEN x ELSE IF r = 1 THEN y ELSE z]

MCSamples ==
  {Shown(a, a, a), Shown(b, a, a), Shown(a, b, a), Shown(a, a, b), Shown(a, b, c)}

=============================================================================
