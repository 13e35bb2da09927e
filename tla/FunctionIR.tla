----------------------------- MODULE FunctionIR ------------------------------
(***************************************************************************)
(* What the scheduler and the RTL generator see of a function in LLVM IR:  *)
(* its basic blocks, when the instructions of a block start and how long   *)
(* they take, and the instruction that ends the block.                     *)
(***************************************************************************)
EXTENDS Integers, Sequences, FiniteSetsExt

CONSTANT Value       \* what the variable of a branch or a switch may hold

ASSUME ValueAssumption == Value \subseteq Nat

(***************************************************************************)
(* A terminator: "ret" (or unreachable), "br", "condbr" or "switch".  The  *)
(* cases of a conditional branch are its true destination.                 *)
(***************************************************************************)
Case == [value : Value, dest : Nat \ {0}]

Terminator ==
  [kind : {"ret", "br", "condbr", "switch"}, cases : Seq(Case), default : Nat \ {0}]

(***************************************************************************)
(* A block: the number of its last scheduled state, its instructions with  *)
(* the state they start in and their latency, and its terminator.          *)
(***************************************************************************)
Instruction == [order : Nat, latency : Nat]

Block == [states : Nat, insts : SUBSET Instruction, term : Terminator]

Blocks(f) == DOMAIN f.blocks

EntryBlock == 1

Idle == 0            \* where control is while the function does not run

Destinations(t) ==
  IF t.kind = "ret" THEN {} ELSE {t.default} \cup {t.cases[k].dest : k \in DOMAIN t.cases}

(***************************************************************************)
(* Well-formed functions: a block has finitely many instructions, its      *)
(* states hold them, every destination is a block, none is the entry       *)
(* block, and the values of a switch are distinct.  mem says whether it    *)
(* loads or stores.                                                        *)
(***************************************************************************)
IsFunction(f) ==
  /\ f.mem \in BOOLEAN
  /\ f.blocks \in Seq(Block) /\ f.blocks # << >>
  /\ \A b \in Blocks(f) :
       LET t == f.blocks[b].term IN
         /\ Destinations(t) \subseteq Blocks(f) \ {EntryBlock}
         /\ IsFiniteSet(f.blocks[b].insts)
         /\ \A x \in f.blocks[b].insts : x.order <= f.blocks[b].states
         /\ t.kind = "condbr" => Len(t.cases) = 1
         /\ t.kind \in {"ret", "br"} => t.cases = << >>
         /\ \A j, k \in DOMAIN t.cases : t.cases[j].value = t.cases[k].value => j = k

(***************************************************************************)
(* Where control goes from block b when the variable that its terminator   *)
(* tests is v; the variable of a branch has one bit.                       *)
(***************************************************************************)
Destination(f, b, v) ==
  LET t   == f.blocks[b].term
      hit == {k \in DOMAIN t.cases : t.cases[k].value = v}
  IN  CASE t.kind = "ret"    -> Idle
        [] t.kind = "br"     -> t.default
        [] t.kind = "condbr" -> IF v % 2 = 1 THEN t.cases[1].dest ELSE t.default
        [] t.kind = "switch" -> IF hit = {} THEN t.default
                                ELSE t.cases[CHOOSE k \in hit : TRUE].dest

HasNoInstructions(f, b) == f.blocks[b].insts = {} /\ f.blocks[b].term.kind = "br"

=============================================================================
