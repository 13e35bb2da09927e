------------------------------ MODULE Machine -------------------------------
(***************************************************************************)
(* One generated function module by itself, without redundancy: the FSM    *)
(* register cur_state and the data registers, as VerilogWriter prints      *)
(* them.  What a program computes is left to constants: the transitions of *)
(* the FSM, and when and with what each register is loaded.                *)
(***************************************************************************)
EXTENDS Registers

CONSTANTS
  Ctl,               \* the states of the FSM
  LEGUP_0,           \* the state a reset leads to
  Input,             \* the inputs of the module, start among them
  NextCtl(_,_,_),    \* the FSM's transition: of a state, the data read, an input
  Loads(_,_,_,_),    \* whether a state loads a register bit
  Driver(_,_,_,_),   \* what it is loaded with
  PowerUp            \* what the data registers may hold when the run begins

ASSUME ProgramAssumption ==
  /\ LEGUP_0 \in Ctl
  /\ \A c \in Ctl, d \in Data, i \in Input :
       /\ NextCtl(c, d, i) \in Ctl
       /\ \A x \in Reg : Driver(c, x, d, i) \in Value

ASSUME PowerUpAssumption == PowerUp \subseteq Data

(***************************************************************************)
(* The register bits after a clock edge: own is what the module's own      *)
(* registers hold and d what its logic reads.                              *)
(***************************************************************************)
NextData(c, own, d, i, wait) ==
  LoadRegisters(own, {x \in Reg : Loads(c, x, d, i)},
                [x \in Reg |-> Driver(c, x, d, i)], wait)

VARIABLES
  cur_state,  \* the FSM register
  data        \* the data registers

machineVars == <<cur_state, data>>

Init ==
  /\ cur_state = LEGUP_0
  /\ data \in PowerUp

(***************************************************************************)
(* A clock edge.  The FSM register stays where it is while the memory      *)
(* controller asks to wait.                                                *)
(***************************************************************************)
Tick(i, wait) ==
  /\ cur_state' = IF wait THEN cur_state ELSE NextCtl(cur_state, data, i)
  /\ data' = NextData(cur_state, data, data, i, wait)

(***************************************************************************)
(* A clock edge with reset asserted; reset takes no part in the loading of *)
(* data registers.                                                         *)
(***************************************************************************)
Reset(i, wait) ==
  /\ cur_state' = LEGUP_0
  /\ data' = NextData(cur_state, data, data, i, wait)

Next == \E i \in Input, wait \in BOOLEAN : Tick(i, wait) \/ Reset(i, wait)

Spec == Init /\ [][Next]_machineVars

=============================================================================
