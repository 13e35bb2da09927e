------------------------------ MODULE TmrDesign ------------------------------
(***************************************************************************)
(* The design generated with TMR = 1 and function-level partitioning       *)
(* (PART_VOTER_MODE < 3): three replicas _r0, _r1, _r2 of every instance,  *)
(* each with its own registers and sync voters, and, at the ports between  *)
(* partitions and at finish and return_val, voters whose outputs _v0, _v1  *)
(* and _v2 the replicas of the reader get.  Upsets strike one replica of a *)
(* partition at a time, in several partitions at once.                     *)
(*                                                                         *)
(* A definition whose name continues that of the one after it is a         *)
(* plausible slip in the same code; the runs name it as a mutant and no    *)
(* action uses it.                                                         *)
(***************************************************************************)
EXTENDS Design, Integers

CONSTANTS
  PowerUp,            \* what the data registers may hold when the run begins
  Env(_,_,_),         \* the inputs the surroundings may give, by states and data
  SYNC_VOTER_MODE,    \* 0: no sync voters; 1, 2: how they are chosen
  PART_VOTER_MODE,    \* 0: no partitions; 1, 2: how they are made
  Marked,             \* the register bits marked SYNC_VOTER
  main,               \* the instance that is not called
  memory_controller,  \* the instance that is generated otherwise, if there is one
  PartID,             \* the partition of an instance
  FeedbackPort,       \* the ports named finish or return_val
  Running,            \* the inputs that the surroundings give again and again
  Strikes,            \* what a single upset may hit: register bits and FSMs
  MaxUpsets           \* bound: how many upsets a run has

ASSUME PowerUpAssumption == PowerUp \subseteq Data
ASSUME ModeAssumption ==
  /\ SYNC_VOTER_MODE \in 0 .. 2
  /\ PART_VOTER_MODE \in 0 .. 2
  /\ Marked \subseteq Reg
  /\ FeedbackPort \subseteq Port
  /\ Running \subseteq {i \in Input : ~i.wait /\ ~i.reset}
  /\ Strikes \subseteq [regs : SUBSET Reg, fsms : SUBSET Inst]
  /\ MaxUpsets \in Nat

Replica == 0 .. 2

Partition == {PartID[n] : n \in Inst}

VARIABLES
  cur_state,  \* the FSM registers of every replica
  data,       \* the data registers of every replica
  upsets      \* how many upsets there were

vars == <<cur_state, data, upsets>>

(***************************************************************************)
(* printVoter: the voter of a signal name, out of name_r0, name_r1 and     *)
(* name_r2.  It works bit by bit, so data registers are bits; the state    *)
(* register is voted as a whole, which is the same while two replicas      *)
(* agree.  With neither kind of voter configured it lets r0 through.       *)
(***************************************************************************)
NoVoter == SYNC_VOTER_MODE = 0 /\ PART_VOTER_MODE = 0

Majority(f) == IF f[0] = f[1] THEN f[0] ELSE f[2]

VoteOfOne(f) == IF NoVoter THEN f[0] ELSE f[1]

Vote(f) == IF NoVoter THEN f[0] ELSE Majority(f)

(***************************************************************************)
(* isTmrVoterSignal: a marked register is voted, and so is the next state, *)
(* if there are sync voters at all.                                        *)
(***************************************************************************)
TmrVoterSignalsNone == {}

TmrVoterSignals == IF SYNC_VOTER_MODE # 0 THEN Marked ELSE {}

(***************************************************************************)
(* What the logic of replica r reads: the voted value of a voted register, *)
(* its own value of any other.                                             *)
(***************************************************************************)
Read(r) ==
  [x \in Reg |-> IF x \in TmrVoterSignals THEN Vote([s \in Replica |-> data[s][x]])
                                          ELSE data[r][x]]

(***************************************************************************)
(* initPartitions: the signals that get a partition voter are those of a   *)
(* call that crosses a boundary, and finish and return_val of every call.  *)
(* The memory controller is left out: its module has no ports there.       *)
(***************************************************************************)
PortsOfCalls == {p \in Port : memory_controller \notin {From[p]} \cup To[p]}

FLPartVoteSignalsOfFeedback == PortsOfCalls \cap FeedbackPort

FLPartVoteSignals ==
  {p \in PortsOfCalls : p \in FeedbackPort \/ \E n \in To[p] : PartID[n] # PartID[From[p]]}

(***************************************************************************)
(* What an instance of replica r is connected to: the voters of its input  *)
(* ports that have them, its own replica of the others.  The outputs of    *)
(* the memory controller have voters too, which main reads; the other      *)
(* instances are connected to memory_controller_out_a_r and _b_r.          *)
(***************************************************************************)
ReadsVoter ==
  [n \in Inst |->
     {p \in Inputs[n] : IF From[p] = memory_controller THEN n = main ELSE p \in FLPartVoteSignals}]

Seen(r, n, w) ==
  [p \in Inputs[n] |-> IF p \in ReadsVoter[n] THEN Vote([s \in Replica |-> w[s][p]])
                                              ELSE w[r][p]]

Undriven == [r \in Replica |-> [p \in Port |-> Unset]]

ViewsOf(w, i) ==
  [r \in Replica |-> [n \in Inst |-> View(n, cur_state[r], Read(r), Seen(r, n, w), i)]]

Settle(W, i) ==
  {[r \in Replica |-> Outputs(V[r])] : V \in {ViewsOf(w, i) : w \in W}}

Settled(i) == {ViewsOf(w, i) : w \in Settle(Settle({Undriven}, i), i)}

(***************************************************************************)
(* next_state_v of the replicas of an instance, and the next_state that    *)
(* replica r loads, when instance m of replica s sees V[s][m].             *)
(***************************************************************************)
NextState(r, n, V) ==
  IF SYNC_VOTER_MODE # 0 THEN Vote([s \in Replica |-> NextCtl(n, V[s][n])])
                         ELSE NextCtl(n, V[r][n])

(***************************************************************************)
(* The replicas leave reset together, with the same power-up content.      *)
(***************************************************************************)
Init ==
  /\ cur_state = [r \in Replica |-> [n \in Inst |-> LEGUP_0]]
  /\ \E d \in PowerUp : data = [r \in Replica |-> d]
  /\ upsets = 0

(***************************************************************************)
(* The state and data that the surroundings get to see: what two of three  *)
(* replicas say, which is also what the reducing voters of the top module  *)
(* let out.                                                                *)
(***************************************************************************)
MajorityOfStates(c) == [n \in Inst |-> Majority([r \in Replica |-> c[r][n]])]

MajorityOfBits(d) == [x \in Reg |-> Majority([r \in Replica |-> d[r][x]])]

(***************************************************************************)
(* A clock edge.  A stalled FSM register loads itself, not the voter: an   *)
(* upset it has suffered stays until the stall is over.                    *)
(***************************************************************************)
Tick(i) ==
  /\ Env(MajorityOfStates(cur_state), MajorityOfBits(data), i)
  /\ \E V \in Settled(i) :
       /\ cur_state' =
            [r \in Replica |-> [n \in Inst |->
               IF i.reset THEN LEGUP_0
               ELSE IF i.wait THEN cur_state[r][n] ELSE NextState(r, n, V)]]
       /\ data' = [r \in Replica |-> NextData(data[r], V[r], i.wait)]
  /\ UNCHANGED upsets

(***************************************************************************)
(* An upset changes registers of one replica of a partition.  Triple       *)
(* redundancy is meant for one faulty replica, so in that partition the    *)
(* other two must agree when it happens.  (An upset in a replica's logic   *)
(* or in one of its voters shows as one of the registers it drives.)       *)
(***************************************************************************)
OthersAgree(r, q) ==
  \A s, t \in Replica \ {r} :
    /\ \A n \in Inst : PartID[n] = q => cur_state[s][n] = cur_state[t][n]
    /\ \A x \in Reg : PartID[Home[x]] = q => data[s][x] = data[t][x]

IsIn(hit, q) ==
  /\ \A n \in hit.fsms : PartID[n] = q
  /\ \A x \in hit.regs : PartID[Home[x]] = q

Upset(r, q) ==
  /\ upsets < MaxUpsets
  /\ OthersAgree(r, q)
  /\ \E hit \in Strikes :
       /\ IsIn(hit, q)
       /\ \E c \in [hit.fsms -> Ctl], d \in [hit.regs -> Value] :
            /\ cur_state' = [cur_state EXCEPT ![r] =
                 [n \in Inst |-> IF n \in hit.fsms THEN c[n] ELSE cur_state[r][n]]]
            /\ data' = [data EXCEPT ![r] =
                 [x \in Reg |-> IF x \in hit.regs THEN d[x] ELSE data[r][x]]]
  /\ upsets' = upsets + 1

Next ==
  \/ \E i \in Input : Tick(i)
  \/ \E r \in Replica, q \in Partition : Upset(r, q)

Spec == Init /\ [][Next]_vars

(***************************************************************************)
(* A run in which the clock goes on, the design is started some time and   *)
(* no stall lasts for ever.                                                *)
(***************************************************************************)
RunSpec == Spec /\ \A i \in Running : WF_vars(Tick(i))

-----------------------------------------------------------------------------

TypeOK ==
  /\ cur_state \in [Replica -> [Inst -> Ctl]]
  /\ data \in [Replica -> Data]
  /\ upsets \in 0 .. MaxUpsets

(***************************************************************************)
(* An upset never spreads to a second replica of its partition, nor to     *)
(* another partition: at any time and in every partition two replicas      *)
(* agree in everything, although each computes with voted values that the  *)
(* third has a part in, and although different replicas may be faulty in   *)
(* different partitions.                                                   *)
(***************************************************************************)
UpsetsAreConfined == \A q \in Partition : \E r \in Replica : OthersAgree(r, q)

(***************************************************************************)
(* Upsets are masked: what two of three replicas say behaves like the      *)
(* design without redundancy and without upsets.                           *)
(***************************************************************************)
Golden ==
  INSTANCE DesignMachine WITH cur_state <- MajorityOfStates(cur_state),
                              data <- MajorityOfBits(data)

UpsetsAreMasked == Golden!Spec

(***************************************************************************)
(* When every feedback path of the program has a marked register, upsets   *)
(* do not accumulate: some time after the last one all three replicas are  *)
(* the same again, registers that no voter looks at included.              *)
(***************************************************************************)
InSync == \A s, t \in Replica : cur_state[s] = cur_state[t] /\ data[s] = data[t]

Recovers == <>[]InSync

(***************************************************************************)
(* What UpsetsAreConfined takes: every port that leaves its partition is   *)
(* read through a voter, and where there are voters they vote.             *)
(***************************************************************************)
Isolated ==
  \A n \in Inst : \A p \in Inputs[n] :
    /\ PartID[n] # PartID[From[p]] => p \in ReadsVoter[n]
    /\ p \in ReadsVoter[n] => ~NoVoter

=============================================================================
