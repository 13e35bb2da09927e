----------------------------- MODULE ControlFlow -----------------------------
(***************************************************************************)
(* What the FSM of a generated module promises: it walks the control-flow  *)
(* graph of the function.  It begins with the entry block when the module  *)
(* is started, stays in a block until all its instructions are finished,   *)
(* and goes on to the block that the terminator and its variable select,   *)
(* whose phis take the values of the block it comes from.  A stalled clock *)
(* edge changes nothing.                                                   *)
(***************************************************************************)
EXTENDS FunctionIR

CONSTANTS Functions, Input

VARIABLES
  func,    \* the function
  block,   \* the block being executed, or Idle
  spent,   \* the clock edges spent in it, without stalls
  phi,     \* the block that the phis of a block took their values from
  in       \* the inputs at the last clock edge

flowVars == <<func, block, spent, phi, in>>

Init ==
  /\ func \in Functions
  /\ block = Idle /\ spent = 0
  /\ phi = [b \in Blocks(func) |-> Idle]
  /\ in \in Input

Enter(b, from) ==
  /\ block' = b /\ spent' = 0
  /\ phi' = IF b = Idle THEN phi ELSE [phi EXCEPT ![b] = from]

(***************************************************************************)
(* An entry block that does nothing is passed in no time.                  *)
(***************************************************************************)
Begin ==
  /\ block = Idle /\ in'.start
  /\ IF HasNoInstructions(func, EntryBlock)
     THEN Enter(Destination(func, EntryBlock, 0), EntryBlock)
     ELSE block' = EntryBlock /\ spent' = 0 /\ UNCHANGED phi

Work ==
  /\ block # Idle
  /\ spent' = spent + 1
  /\ UNCHANGED <<block, phi>>

Leave ==
  /\ block # Idle
  /\ \A x \in func.blocks[block].insts : x.order + x.latency <= spent
  /\ Enter(Destination(func, block, in'.value), block)

Rest == block = Idle /\ ~in'.start /\ UNCHANGED <<block, spent, phi>>

Reset ==
  /\ block' = Idle /\ spent' = 0
  /\ phi' \in [Blocks(func) -> {Idle} \cup Blocks(func)]

Next ==
  /\ in' \in Input
  /\ UNCHANGED func
  /\ \/ in'.reset /\ Reset
     \/ ~in'.reset /\ in'.wait /\ UNCHANGED <<block, spent, phi>>
     \/ ~in'.reset /\ ~in'.wait /\ (Begin \/ Work \/ Leave \/ Rest)

Spec == Init /\ [][Next]_flowVars

=============================================================================
