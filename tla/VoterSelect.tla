---------------------------- MODULE VoterSelect -----------------------------
(***************************************************************************)
(* GenerateRTL::setSyncVoterFlagWithLatency: one register of every         *)
(* recorded feedback cycle gets a synchronization voter.  The function     *)
(* runs after scheduling, so it knows the FSM state in which every         *)
(* instruction starts and its delay.  It prefers the end of the chain with *)
(* the smallest delay among the chains of the cycle that end where the     *)
(* state changes, because a voter adds to the delay of its chain.          *)
(***************************************************************************)
EXTENDS DataFlow, FiniteSetsExt

CONSTANTS
  State,     \* the states of the function's FSM
  MaxDelay,  \* InstructionNode::getMaxDelay(), the clock period
  Delay      \* the delays of instructions

ASSUME DelayAssumption == MaxDelay \in Nat \ {0} /\ Delay \subseteq 0 .. MaxDelay

VARIABLES
  instCycles,  \* SchedulerDAG::InstCycles: the recorded cycles, as lists
  startState,  \* the state in which an instruction starts
  delay,       \* InstructionNode::getDelay()
  sensitive,   \* FSMSensitiveList: instructions that a transition tests
  pending,     \* the cycles the loop has not reached yet
  voted        \* the instructions whose signals are marked SYNC_VOTER

selectVars == <<instCycles, startState, delay, sensitive, pending, voted>>

(***************************************************************************)
(* The positions of a list where the loop sees a change of state.  The     *)
(* test si==cycle.end() is never true inside the loop, so for the last     *)
(* position the code reads beyond the list: whether that counts as a       *)
(* change of state is left open (pastEnd).                                 *)
(***************************************************************************)
ChainEnds(c, pastEnd) ==
  {i \in DOMAIN c : IF i = Len(c) THEN pastEnd
                                  ELSE startState[c[i]] # startState[c[i+1]]}

(***************************************************************************)
(* An instruction the FSM tests counts with the largest delay: its voter   *)
(* would sit on the path to the state register, which has one already.     *)
(***************************************************************************)
NodeDelay(u) == IF u \in sensitive THEN MaxDelay ELSE delay[u]

(***************************************************************************)
(* partialDelay, as the loop along the list has it after position i: it is *)
(* cleared behind every chain end.                                         *)
(***************************************************************************)
PartialDelay(c, ends) ==
  LET partialDelay[i \in 0 .. Len(c)] ==
        IF i = 0 THEN 0
                 ELSE (IF i-1 \in ends THEN 0 ELSE partialDelay[i-1]) + NodeDelay(c[i])
  IN  partialDelay

(***************************************************************************)
(* minInst: the first chain end with the smallest partial delay, if that   *)
(* delay is below the clock period, and cycle.back() otherwise.            *)
(***************************************************************************)
MinInst(c, pastEnd) ==
  LET ends  == ChainEnds(c, pastEnd)
      D     == PartialDelay(c, ends)
      short == {i \in ends : D[i] < MaxDelay}
      best  == {i \in short : \A j \in short : D[i] <= D[j]}
  IN  IF short = {} THEN c[Len(c)] ELSE c[Min(best)]

(***************************************************************************)
(* One iteration of the loop over InstCycles.                              *)
(***************************************************************************)
SetVoterFlagOnce ==
  /\ pending # {}
  /\ LET c == CHOOSE x \in pending : TRUE IN
       /\ pending' = pending \ {c}
       /\ \E pastEnd \in BOOLEAN :
            voted' = IF NodesOf(c) \cap voted # {} THEN voted
                                                  ELSE voted \cup {MinInst(c, pastEnd)}
  /\ UNCHANGED <<instCycles, startState, delay, sensitive>>

SetVoterFlag ==
  /\ pending # {}
  /\ LET c == CHOOSE x \in pending : TRUE IN
       /\ pending' = pending \ {c}
       /\ \E pastEnd \in BOOLEAN : voted' = voted \cup {MinInst(c, pastEnd)}
  /\ UNCHANGED <<instCycles, startState, delay, sensitive>>

SelectTypeOK ==
  /\ instCycles \subseteq Seq(Node)
  /\ startState \in [Node -> State]
  /\ delay \in [Node -> Delay]
  /\ sensitive \subseteq Node
  /\ pending \subseteq instCycles
  /\ voted \subseteq Node

=============================================================================
