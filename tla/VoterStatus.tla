---------------------------- MODULE VoterStatus -----------------------------
(***************************************************************************)
(* The status output PV_e of a voter module or of a partition, as          *)
(* printPipelinedVoterStatusSignal generates it: every voted signal has a  *)
(* registered mismatch code, the codes are reduced over the signals, and a *)
(* controller outside reads the result to learn that, and in EBIT_MODE 2   *)
(* which, replica needs repair.  (EBIT_MODE 1 generates no mismatch code.) *)
(* The blocks have no reset, so their registers start with anything.       *)
(*                                                                         *)
(* A definition whose name continues that of the one after it is a         *)
(* plausible slip in the same code; the runs name it as a mutant and no    *)
(* action uses it.                                                         *)
(***************************************************************************)
EXTENDS Integers, Sequences, FiniteSets

CONSTANTS
  Signal,     \* the voted signals of the module
  Word        \* what a signal can carry

Replica == 0 .. 2

Sample == [Replica -> Word]

CONSTANT Samples    \* what the replicas of a signal may show at a clock edge

ASSUME StatusAssumption == Samples \subseteq Sample

VARIABLES
  EBIT_MODE,  \* what was generated, 0: one bit; 2: which replica is at fault
  e,          \* name_e: the bits set in the code of each signal
  PV_s,       \* the bits set in the reduced code (EBIT_MODE 2)
  PV_e,       \* the status, as a number
  past,       \* the samples of the last three edges, the newest first
  age         \* edges since power-up, no more than three being counted

vars == <<EBIT_MODE, e, PV_s, PV_e, past, age>>

(***************************************************************************)
(* The mismatch code of a signal, from the cascade of comparisons.         *)
(***************************************************************************)
CodeSwapped(f) ==
  IF f[0] = f[1] /\ f[1] = f[2] THEN {}
  ELSE IF EBIT_MODE = 0 THEN {0}
  ELSE IF f[0] = f[1] /\ f[2] # f[1] THEN {0}
  ELSE IF f[0] = f[2] /\ f[1] # f[2] THEN {1}
  ELSE IF f[1] = f[2] /\ f[0] # f[2] THEN {2}
  ELSE Replica

CodeOfTwo(f) == IF f[0] = f[1] THEN {} ELSE {0}

Code(f) ==
  IF f[0] = f[1] /\ f[1] = f[2] THEN {}
  ELSE IF EBIT_MODE = 0 THEN {0}
  ELSE IF f[0] = f[1] /\ f[2] # f[1] THEN {2}
  ELSE IF f[0] = f[2] /\ f[1] # f[2] THEN {1}
  ELSE IF f[1] = f[2] /\ f[0] # f[2] THEN {0}
  ELSE Replica

(***************************************************************************)
(* The codes or-ed over all signals.                                       *)
(***************************************************************************)
Reduced == UNION {e[n] : n \in Signal}

(***************************************************************************)
(* PV_e[2] says that more than one bit is set, PV_e[1:0] names the lowest  *)
(* bit, counted from one.  Mode 0 registers the reduced bit directly.      *)
(***************************************************************************)
Blamed(S) == IF 0 \in S THEN 1 ELSE IF 1 \in S THEN 2 ELSE IF 2 \in S THEN 3 ELSE 0

Status ==
  IF EBIT_MODE = 0 THEN Cardinality(Reduced)
  ELSE Blamed(PV_s) + IF Cardinality(PV_s) > 1 THEN 4 ELSE 0

Init ==
  /\ EBIT_MODE \in {0, 2}
  /\ e \in [Signal -> IF EBIT_MODE = 0 THEN {{}, {0}} ELSE {{}, {0}, {1}, {2}, Replica}]
  /\ PV_s \in IF EBIT_MODE = 0 THEN {{}} ELSE SUBSET Replica
  /\ PV_e \in IF EBIT_MODE = 0 THEN 0 .. 1 ELSE 0 .. 7
  /\ past = << >>
  /\ age = 0

(***************************************************************************)
(* A clock edge: all stages move at once.                                  *)
(***************************************************************************)
Tick ==
  /\ \E f \in [Signal -> Samples] :
       /\ e' = [n \in Signal |-> Code(f[n])]
       /\ past' = IF age = 3 THEN <<f, past[1], past[2]>> ELSE <<f>> \o past
  /\ PV_s' = IF EBIT_MODE = 0 THEN {} ELSE Reduced
  /\ PV_e' = Status
  /\ age' = IF age = 3 THEN 3 ELSE age + 1
  /\ UNCHANGED EBIT_MODE

Spec == Init /\ [][Tick]_vars

-----------------------------------------------------------------------------

(***************************************************************************)
(* The replicas that some signal of a sample shows to be outvoted: they    *)
(* agree with no other replica.                                            *)
(***************************************************************************)
Outvoted(f) ==
  {r \in Replica : \E n \in Signal : \A s \in Replica \ {r} : f[n][s] # f[n][r]}

(***************************************************************************)
(* EBIT_MODE 0: the status bit is set two edges after a mismatch of any    *)
(* signal, and never without one.                                          *)
(***************************************************************************)
AlarmIsExact ==
  EBIT_MODE = 0 /\ age >= 2 => (PV_e = 1 <=> Outvoted(past[2]) # {})

(***************************************************************************)
(* EBIT_MODE 2: three edges after a mismatch the status names the replica  *)
(* to repair if it is the only one outvoted, however many signals showed   *)
(* it; it raises PV_e[2] exactly if several replicas are outvoted, by one  *)
(* signal or by different ones, so that the replica named is not mistaken  *)
(* for the only one.                                                       *)
(***************************************************************************)
DiagnosisIsExact ==
  EBIT_MODE = 2 /\ age = 3 =>
    LET O == Outvoted(past[3]) IN
      /\ \A r \in Replica : PV_e = r + 1 <=> O = {r}
      /\ PV_e >= 4 <=> Cardinality(O) > 1
      /\ PV_e = 0 <=> O = {}

=============================================================================
