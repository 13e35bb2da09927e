----------------------------- MODULE MCTmrCalls ------------------------------
(***************************************************************************)
(* The surroundings, partition and upsets of the runs of TmrCalls.         *)
(***************************************************************************)
EXTENDS TmrCalls

(***************************************************************************)
(* The constants of the run satisfy the hypothesis of CallResults.         *)
(***************************************************************************)
ASSUME ConstantsAreOfTheCall == CallDesign

(***************************************************************************)
(* What the upsets of a run hit: a register of main, so the partition of   *)
(* the caller, or the FSM register of f, in the partition of the callee.   *)
(***************************************************************************)
SingleStrikes ==
  {[regs |-> {x}, fsms |-> {}] : x \in {"i", "f_start"}} \cup {[regs |-> {}, fsms |-> {"f"}]}

MemoryStrikes ==
  {[regs |-> {"out"}, fsms |-> {}], [regs |-> {}, fsms |-> {"f"}]}

MainWithMemory == [n \in CallInst |-> IF n = "f" THEN 1 ELSE 0]

=============================================================================
