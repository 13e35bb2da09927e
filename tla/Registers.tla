------------------------------ MODULE Registers ------------------------------
(***************************************************************************)
(* The data registers of generated modules, bit by bit, and how a clock    *)
(* edge loads them.                                                        *)
(*                                                                         *)
(* A definition whose name continues that of the one after it is a         *)
(* plausible slip in the same code; the runs name it as a mutant and no    *)
(* action uses it.                                                         *)
(***************************************************************************)

CONSTANTS
  Reg,      \* the bits of the data registers
  PhiReg,   \* those that hold phis
  Value     \* what a bit can hold

ASSUME RegisterAssumption == PhiReg \subseteq Reg

Data == [Reg -> Value]

(***************************************************************************)
(* The bits after a clock edge that has the condition of those in loads    *)
(* true.  An ordinary register is loaded whenever the FSM is in its state, *)
(* stalled or not; a phi is loaded on a transition, which a stall (wait-   *)
(* request) delays; a register without a true condition keeps its content. *)
(***************************************************************************)
LoadRegistersUnstalled(own, loads, driver, wait) ==
  [x \in Reg |-> IF x \in loads THEN driver[x] ELSE own[x]]

LoadRegisters(own, loads, driver, wait) ==
  [x \in Reg |-> IF x \in loads /\ (x \in PhiReg => ~wait) THEN driver[x] ELSE own[x]]

=============================================================================
