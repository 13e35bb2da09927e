-------------------------- MODULE TmrDesign_proofs ---------------------------
(***************************************************************************)
(* Proofs about TmrDesign, for every design, every partition of it and     *)
(* every choice of voters: types are kept, and, if every port that leaves  *)
(* its partition is voted, an upset stays in its replica of its partition  *)
(* and the triplicated design implements the one without redundancy.  The  *)
(* last part is about the design with a call of TmrCalls and has that      *)
(* (CallDesign) as its hypothesis; the others use nothing of TmrCalls but  *)
(* the names State and Bits of what the majority of the replicas holds.    *)
(***************************************************************************)
EXTENDS TmrCalls, TLAPS

Wires == [Port -> Value]

(***************************************************************************)
(* What a voter puts out is what one of the replicas puts in.              *)
(***************************************************************************)
LEMMA VoteType ==
  ASSUME NEW S, NEW f \in [Replica -> S]
  PROVE  Vote(f) \in S /\ Majority(f) \in S
BY DEF Vote, Majority, Replica

(***************************************************************************)
(* A majority voter puts out what the replicas other than r agree on.      *)
(***************************************************************************)
LEMMA MajorityMasks ==
  ASSUME NEW f, NEW v, NEW r \in Replica, \A s \in Replica \ {r} : f[s] = v
  PROVE  Majority(f) = v
BY DEF Majority, Replica

LEMMA VoteMasks ==
  ASSUME ~NoVoter, NEW f, NEW v, NEW r \in Replica, \A s \in Replica \ {r} : f[s] = v
  PROVE  Vote(f) = v
BY MajorityMasks DEF Vote

(***************************************************************************)
(* Types: what is read, what is seen, what the ports show.                 *)
(***************************************************************************)
LEMMA ReadType ==
  ASSUME TypeOK, NEW r \in Replica
  PROVE  Read(r) \in Data
<1>1. ASSUME NEW x \in Reg
      PROVE  Vote([s \in Replica |-> data[s][x]]) \in Value
  <2>1. [s \in Replica |-> data[s][x]] \in [Replica -> Value]
    BY DEF TypeOK, Data
  <2>2. QED  BY <2>1, VoteType
<1>2. ASSUME NEW x \in Reg PROVE data[r][x] \in Value
  BY DEF TypeOK, Data
<1>3. QED  BY <1>1, <1>2 DEF Read, Data

LEMMA SeenType ==
  ASSUME NEW w \in [Replica -> Wires], NEW r \in Replica, NEW n \in Inst
  PROVE  Seen(r, n, w) \in [Inputs[n] -> Value]
<1>1. Inputs[n] \subseteq Port
  BY DEF Inputs
<1>2. ASSUME NEW p \in Port
      PROVE  Vote([s \in Replica |-> w[s][p]]) \in Value
  <2>1. [s \in Replica |-> w[s][p]] \in [Replica -> Value]
    BY DEF Wires
  <2>2. QED  BY <2>1, VoteType
<1>3. ASSUME NEW p \in Port PROVE w[r][p] \in Value
  BY DEF Wires
<1>4. QED  BY <1>1, <1>2, <1>3 DEF Seen

LEMMA ViewType ==
  ASSUME NEW n \in Inst, NEW c \in [Inst -> Ctl], NEW d \in Data,
         NEW w \in [Inputs[n] -> Value], NEW i \in Input
  PROVE  View(n, c, d, w, i) \in Views(n)
<1>1. Own[n] \subseteq Reg
  BY DEF Own
<1>2. [x \in Own[n] |-> d[x]] \in [Own[n] -> Value]
  BY <1>1 DEF Data
<1>3. [p \in Inputs[n] |-> w[p]] \in [Inputs[n] -> Value]
  OBVIOUS
<1>4. QED  BY <1>2, <1>3 DEF View, Views

LEMMA ViewsType ==
  ASSUME TypeOK, NEW w \in [Replica -> Wires], NEW i \in Input,
         NEW r \in Replica, NEW n \in Inst
  PROVE  ViewsOf(w, i)[r][n] \in Views(n)
<1>1. cur_state[r] \in [Inst -> Ctl]
  BY DEF TypeOK
<1>2. View(n, cur_state[r], Read(r), Seen(r, n, w), i) \in Views(n)
  BY <1>1, ReadType, SeenType, ViewType
<1>3. QED  BY <1>2 DEF ViewsOf

LEMMA SettleType ==
  ASSUME TypeOK, NEW W \in SUBSET [Replica -> Wires], NEW i \in Input
  PROVE  Settle(W, i) \in SUBSET [Replica -> Wires]
<1>1. ASSUME NEW w \in W
      PROVE  [r \in Replica |-> Outputs(ViewsOf(w, i)[r])] \in [Replica -> Wires]
  <2>1. ASSUME NEW r \in Replica, NEW p \in Port
        PROVE  Out(p, ViewsOf(w, i)[r][From[p]]) \in Value
    <3>1. From[p] \in Inst
      BY DesignAssumption
    <3>2. ViewsOf(w, i)[r][From[p]] \in Views(From[p])
      BY <3>1, ViewsType
    <3>3. QED  BY <3>2, LogicAssumption
  <2>2. QED  BY <2>1 DEF Outputs, Wires
<1>2. QED  BY <1>1 DEF Settle

LEMMA UndrivenType == Undriven \in [Replica -> Wires]
BY DesignAssumption DEF Undriven, Wires

LEMMA SettledType ==
  ASSUME TypeOK, NEW i \in Input, NEW V \in Settled(i)
  PROVE  \A r \in Replica, n \in Inst : V[r][n] \in Views(n)
<1>1. {Undriven} \in SUBSET [Replica -> Wires]
  BY UndrivenType
<1>2. Settle({Undriven}, i) \in SUBSET [Replica -> Wires]
  BY <1>1, SettleType
<1>3. Settle(Settle({Undriven}, i), i) \in SUBSET [Replica -> Wires]
  BY <1>2, SettleType
<1>4. QED  BY <1>3, ViewsType DEF Settled

LEMMA NextDataType ==
  ASSUME NEW own \in Data, NEW V, \A n \in Inst : V[n] \in Views(n), NEW wait
  PROVE  NextData(own, V, wait) \in Data
<1>1. ASSUME NEW x \in Reg PROVE Driver(x, V[Home[x]]) \in Value
  BY DesignAssumption, LogicAssumption
<1>2. QED  BY <1>1 DEF NextData, LoadRegisters, Data

LEMMA NextStateType ==
  ASSUME NEW V, \A r \in Replica, n \in Inst : V[r][n] \in Views(n),
         NEW r \in Replica, NEW n \in Inst
  PROVE  NextState(r, n, V) \in Ctl
<1>1. [s \in Replica |-> NextCtl(n, V[s][n])] \in [Replica -> Ctl]
  BY LogicAssumption
<1>2. QED  BY <1>1, VoteType, LogicAssumption DEF NextState

(***************************************************************************)
(* Every replica's registers always hold values of their kind, and the     *)
(* bound on upsets is respected.                                           *)
(***************************************************************************)
THEOREM TypeCorrect == Spec => []TypeOK
<1>1. Init => TypeOK
  BY DesignAssumption, PowerUpAssumption, ModeAssumption DEF Init, TypeOK
<1>2. TypeOK /\ [Next]_vars => TypeOK'
  <2> SUFFICES ASSUME TypeOK, [Next]_vars PROVE TypeOK'
    OBVIOUS
  <2>1. ASSUME NEW i \in Input, Tick(i) PROVE TypeOK'
    <3>1. PICK V \in Settled(i) :
            /\ cur_state' =
                 [r \in Replica |-> [n \in Inst |->
                    IF i.reset THEN LEGUP_0
                    ELSE IF i.wait THEN cur_state[r][n] ELSE NextState(r, n, V)]]
            /\ data' = [r \in Replica |-> NextData(data[r], V[r], i.wait)]
      BY <2>1 DEF Tick
    <3>2. \A r \in Replica, n \in Inst : V[r][n] \in Views(n)
      BY SettledType
    <3>3. cur_state' \in [Replica -> [Inst -> Ctl]]
      BY <3>1, <3>2, NextStateType, DesignAssumption DEF TypeOK
    <3>4. \A r \in Replica : NextData(data[r], V[r], i.wait) \in Data
      BY <3>2, NextDataType DEF TypeOK
    <3>5. QED  BY <2>1, <3>1, <3>3, <3>4 DEF Tick, TypeOK
  <2>2. ASSUME NEW r \in Replica, NEW q \in Partition, Upset(r, q) PROVE TypeOK'
    <3>1. PICK hit \in Strikes : \E c \in [hit.fsms -> Ctl], d \in [hit.regs -> Value] :
            /\ cur_state' = [cur_state EXCEPT ![r] =
                 [n \in Inst |-> IF n \in hit.fsms THEN c[n] ELSE cur_state[r][n]]]
            /\ data' = [data EXCEPT ![r] =
                 [x \in Reg |-> IF x \in hit.regs THEN d[x] ELSE data[r][x]]]
      BY <2>2 DEF Upset
    <3>2. cur_state' \in [Replica -> [Inst -> Ctl]] /\ data' \in [Replica -> Data]
      BY <3>1 DEF TypeOK, Data
    <3>3. upsets' \in 0 .. MaxUpsets
      BY <2>2, ModeAssumption DEF Upset, TypeOK
    <3>4. QED  BY <3>2, <3>3 DEF TypeOK
  <2>3. CASE UNCHANGED vars
    BY <2>3 DEF vars, TypeOK
  <2>4. QED  BY <2>1, <2>2, <2>3 DEF Next
<1>3. QED  BY <1>1, <1>2, PTL DEF Spec

-----------------------------------------------------------------------------

(***************************************************************************)
(* The faulty replica of every partition: the others agree.                *)
(***************************************************************************)
Faulty(bad) ==
  /\ bad \in [Partition -> Replica]
  /\ \A q \in Partition : OthersAgree(bad[q], q)

LEMMA FaultyExists ==
  ASSUME UpsetsAreConfined
  PROVE  \E bad : Faulty(bad)
<1> DEFINE bad == [q \in Partition |-> CHOOSE r \in Replica : OthersAgree(r, q)]
<1>1. Faulty(bad)
  BY DEF UpsetsAreConfined, Faulty
<1>2. QED  BY <1>1

(***************************************************************************)
(* The majority is what a healthy replica has, and a healthy replica reads *)
(* its own registers.                                                      *)
(***************************************************************************)
LEMMA HealthyState ==
  ASSUME NEW bad, Faulty(bad), NEW n \in Inst, NEW s \in Replica \ {bad[PartID[n]]}
  PROVE  State[n] = cur_state[s][n]
<1>1. PartID[n] \in Partition
  BY DEF Partition
<1>2. bad[PartID[n]] \in Replica /\ OthersAgree(bad[PartID[n]], PartID[n])
  BY <1>1 DEF Faulty
<1>3. \A t \in Replica \ {bad[PartID[n]]} :
        [r \in Replica |-> cur_state[r][n]][t] = cur_state[s][n]
  BY <1>2 DEF OthersAgree
<1>4. Majority([r \in Replica |-> cur_state[r][n]]) = cur_state[s][n]
  BY <1>2, <1>3, MajorityMasks
<1>5. QED  BY <1>4 DEF State, MajorityOfStates

LEMMA HealthyBit ==
  ASSUME NEW bad, Faulty(bad), NEW x \in Reg, NEW s \in Replica \ {bad[PartID[Home[x]]]}
  PROVE  Bits[x] = data[s][x] /\ Read(s)[x] = data[s][x]
<1>1. PartID[Home[x]] \in Partition
  BY DesignAssumption DEF Partition
<1>2. /\ bad[PartID[Home[x]]] \in Replica
      /\ OthersAgree(bad[PartID[Home[x]]], PartID[Home[x]])
  BY <1>1 DEF Faulty
<1>3. \A t \in Replica \ {bad[PartID[Home[x]]]} :
        [r \in Replica |-> data[r][x]][t] = data[s][x]
  BY <1>2 DEF OthersAgree
<1>4. Majority([r \in Replica |-> data[r][x]]) = data[s][x]
  BY <1>2, <1>3, MajorityMasks
<1>5. ASSUME x \in TmrVoterSignals
      PROVE  Vote([r \in Replica |-> data[r][x]]) = data[s][x]
  <2>1. ~NoVoter
    BY <1>5 DEF TmrVoterSignals, NoVoter
  <2>2. QED  BY <2>1, <1>2, <1>3, VoteMasks
<1>6. Read(s)[x] = data[s][x]
  BY <1>5 DEF Read
<1>7. QED  BY <1>4, <1>6 DEF Bits, MajorityOfBits

(***************************************************************************)
(* Wires of the replicas that match wires of the design without            *)
(* redundancy: a port shows the same in every healthy replica of the       *)
(* partition that drives it.                                               *)
(***************************************************************************)
Match(bad, w, g) ==
  \A p \in Port : \A s \in Replica \ {bad[PartID[From[p]]]} : w[s][p] = g[p]

(***************************************************************************)
(* A healthy replica of an instance sees what the instance sees in the     *)
(* design without redundancy, because a wire from another partition        *)
(* reaches it through a voter.                                             *)
(***************************************************************************)
LEMMA HealthyView ==
  ASSUME Isolated, NEW bad, Faulty(bad), NEW w, NEW g, Match(bad, w, g),
         NEW i, NEW n \in Inst, NEW s \in Replica \ {bad[PartID[n]]}
  PROVE  ViewsOf(w, i)[s][n] = View(n, State, Bits, g, i)
<1>1. ASSUME NEW p \in Inputs[n]
      PROVE  Seen(s, n, w)[p] = g[p]
  <2>1. p \in Port
    BY DEF Inputs
  <2>2. PartID[From[p]] \in Partition
    BY <2>1, DesignAssumption DEF Partition
  <2>3. bad[PartID[From[p]]] \in Replica
    BY <2>2 DEF Faulty
  <2>4. \A t \in Replica \ {bad[PartID[From[p]]]} : [r \in Replica |-> w[r][p]][t] = g[p]
    BY <2>1 DEF Match
  <2>5. CASE p \in ReadsVoter[n]
    <3>1. ~NoVoter
      BY <2>5 DEF Isolated
    <3>2. Vote([r \in Replica |-> w[r][p]]) = g[p]
      BY <3>1, <2>3, <2>4, VoteMasks
    <3>3. QED  BY <2>5, <3>2 DEF Seen
  <2>6. CASE p \notin ReadsVoter[n]
    <3>1. PartID[n] = PartID[From[p]]
      BY <2>6 DEF Isolated
    <3>2. w[s][p] = g[p]
      BY <2>1, <3>1 DEF Match
    <3>3. QED  BY <2>6, <3>2 DEF Seen
  <2>7. QED  BY <2>5, <2>6
<1>2. [p \in Inputs[n] |-> Seen(s, n, w)[p]] = [p \in Inputs[n] |-> g[p]]
  BY <1>1
<1>3. ASSUME NEW x \in Own[n]
      PROVE  Read(s)[x] = Bits[x]
  <2>1. x \in Reg /\ Home[x] = n
    BY DEF Own
  <2>2. QED  BY <2>1, HealthyBit
<1>4. [x \in Own[n] |-> Read(s)[x]] = [x \in Own[n] |-> Bits[x]]
  BY <1>3
<1>5. cur_state[s][n] = State[n]
  BY HealthyState
<1>6. View(n, cur_state[s], Read(s), Seen(s, n, w), i) = View(n, State, Bits, g, i)
  BY <1>2, <1>4, <1>5 DEF View
<1>7. QED  BY <1>6 DEF ViewsOf

(***************************************************************************)
(* Matching wires settle to matching wires.                                *)
(***************************************************************************)
LEMMA SettleMatches ==
  ASSUME Isolated, NEW bad, Faulty(bad), NEW i, NEW W, NEW WG,
         \A w \in W : \E g \in WG : Match(bad, w, g)
  PROVE  \A w \in Settle(W, i) : \E g \in Golden!Settle(WG, i) : Match(bad, w, g)
<1> SUFFICES ASSUME NEW w \in W
             PROVE  \E h \in Golden!Settle(WG, i) :
                      Match(bad, [r \in Replica |-> Outputs(ViewsOf(w, i)[r])], h)
  BY DEF Settle
<1>1. PICK g \in WG : Match(bad, w, g)
  OBVIOUS
<1> DEFINE G == [n \in Inst |-> View(n, State, Bits, g, i)]
<1>2. Golden!ViewsOf(g, i) = G
  BY DEF Golden!ViewsOf, Golden!View, View, Golden!Own, Own, Golden!Inputs, Inputs,
         State, Bits
<1>3. Golden!Outputs(G) = [p \in Port |-> Out(p, G[From[p]])]
  BY DEF Golden!Outputs
<1>4. [p \in Port |-> Out(p, G[From[p]])] \in Golden!Settle(WG, i)
  BY <1>2, <1>3 DEF Golden!Settle
<1>5. ASSUME NEW p \in Port, NEW s \in Replica \ {bad[PartID[From[p]]]}
      PROVE  Outputs(ViewsOf(w, i)[s])[p] = Out(p, G[From[p]])
  <2>1. From[p] \in Inst
    BY DesignAssumption
  <2>2. ViewsOf(w, i)[s][From[p]] = G[From[p]]
    BY <1>1, <2>1, HealthyView
  <2>3. QED  BY <2>2 DEF Outputs
<1>6. Match(bad, [r \in Replica |-> Outputs(ViewsOf(w, i)[r])],
            [p \in Port |-> Out(p, G[From[p]])])
  BY <1>5 DEF Match
<1>7. QED  BY <1>4, <1>6

(***************************************************************************)
(* When the nets have settled, every healthy replica of an instance sees   *)
(* what the instance sees in the design without redundancy.                *)
(***************************************************************************)
Sees(bad, V, G) == \A n \in Inst : \A s \in Replica \ {bad[PartID[n]]} : V[s][n] = G[n]

LEMMA SettledMatches ==
  ASSUME Isolated, NEW bad, Faulty(bad), NEW i, NEW V \in Settled(i)
  PROVE  \E G \in Golden!Settled(i) : Sees(bad, V, G)
<1> DEFINE off == [p \in Port |-> Unset]
<1>1. \A w \in {Undriven} : \E g \in {off} : Match(bad, w, g)
  BY DEF Undriven, Match
<1>2. \A w \in Settle({Undriven}, i) : \E g \in Golden!Settle({off}, i) : Match(bad, w, g)
  BY <1>1, SettleMatches
<1>3. \A w \in Settle(Settle({Undriven}, i), i) :
        \E g \in Golden!Settle(Golden!Settle({off}, i), i) : Match(bad, w, g)
  BY <1>2, SettleMatches
<1>4. PICK w \in Settle(Settle({Undriven}, i), i) : V = ViewsOf(w, i)
  BY DEF Settled
<1>5. PICK g \in Golden!Settle(Golden!Settle({off}, i), i) : Match(bad, w, g)
  BY <1>3, <1>4
<1>6. Golden!ViewsOf(g, i) \in Golden!Settled(i)
  BY <1>5 DEF Golden!Settled
<1>7. Golden!ViewsOf(g, i) = [n \in Inst |-> View(n, State, Bits, g, i)]
  BY DEF Golden!ViewsOf, Golden!View, View, Golden!Own, Own, Golden!Inputs, Inputs,
         State, Bits
<1>8. Sees(bad, V, Golden!ViewsOf(g, i))
  BY <1>4, <1>5, <1>7, HealthyView DEF Sees
<1>9. QED  BY <1>6, <1>8

(***************************************************************************)
(* What a clock edge does to the healthy replicas: what it does to the     *)
(* design without redundancy.                                              *)
(***************************************************************************)
LEMMA HealthyStep ==
  ASSUME TypeOK, Isolated, NEW bad, Faulty(bad), NEW i \in Input, Tick(i)
  PROVE  \E G \in Golden!Settled(i) :
           /\ \A n \in Inst : \A s \in Replica \ {bad[PartID[n]]} :
                cur_state'[s][n] = IF i.reset THEN LEGUP_0
                                   ELSE IF i.wait THEN State[n] ELSE NextCtl(n, G[n])
           /\ \A x \in Reg : \A s \in Replica \ {bad[PartID[Home[x]]]} :
                data'[s][x] = NextData(Bits, G, i.wait)[x]
<1>1. PICK V \in Settled(i) :
        /\ cur_state' =
             [r \in Replica |-> [n \in Inst |->
                IF i.reset THEN LEGUP_0
                ELSE IF i.wait THEN cur_state[r][n] ELSE NextState(r, n, V)]]
        /\ data' = [r \in Replica |-> NextData(data[r], V[r], i.wait)]
  BY DEF Tick
<1>2. PICK G \in Golden!Settled(i) : Sees(bad, V, G)
  BY SettledMatches
<1>3. ASSUME NEW n \in Inst, NEW s \in Replica \ {bad[PartID[n]]}
      PROVE  NextState(s, n, V) = NextCtl(n, G[n])
  <2>1. PartID[n] \in Partition
    BY DEF Partition
  <2>2. bad[PartID[n]] \in Replica
    BY <2>1 DEF Faulty
  <2>3. \A t \in Replica \ {bad[PartID[n]]} :
          [r \in Replica |-> NextCtl(n, V[r][n])][t] = NextCtl(n, G[n])
    BY <1>2 DEF Sees
  <2>4. CASE SYNC_VOTER_MODE # 0
    <3>1. ~NoVoter
      BY <2>4 DEF NoVoter
    <3>2. QED  BY <3>1, <2>2, <2>3, <2>4, VoteMasks DEF NextState
  <2>5. CASE SYNC_VOTER_MODE = 0
    BY <2>3, <2>5 DEF NextState
  <2>6. QED  BY <2>4, <2>5
<1>4. ASSUME NEW n \in Inst, NEW s \in Replica \ {bad[PartID[n]]}
      PROVE  cur_state'[s][n] = IF i.reset THEN LEGUP_0
                                ELSE IF i.wait THEN State[n] ELSE NextCtl(n, G[n])
  BY <1>1, <1>3, HealthyState
<1>5. ASSUME NEW x \in Reg, NEW s \in Replica \ {bad[PartID[Home[x]]]}
      PROVE  data'[s][x] = NextData(Bits, G, i.wait)[x]
  <2>1. V[s][Home[x]] = G[Home[x]]
    BY <1>2, DesignAssumption DEF Sees
  <2>2. data[s][x] = Bits[x]
    BY HealthyBit
  <2>3. data'[s][x] = NextData(data[s], V[s], i.wait)[x]
    BY <1>1
  <2>4. QED  BY <2>1, <2>2, <2>3 DEF NextData, LoadRegisters
<1>6. QED  BY <1>4, <1>5

(***************************************************************************)
(* After a clock edge the same replicas are healthy.                       *)
(***************************************************************************)
LEMMA AgreementKept ==
  ASSUME TypeOK, Isolated, NEW bad, Faulty(bad), NEW i \in Input, Tick(i)
  PROVE  Faulty(bad)'
<1> SUFFICES ASSUME NEW q \in Partition PROVE OthersAgree(bad[q], q)'
  BY DEF Faulty
<1>1. PICK G \in Golden!Settled(i) :
        /\ \A n \in Inst : \A s \in Replica \ {bad[PartID[n]]} :
             cur_state'[s][n] = IF i.reset THEN LEGUP_0
                                ELSE IF i.wait THEN State[n] ELSE NextCtl(n, G[n])
        /\ \A x \in Reg : \A s \in Replica \ {bad[PartID[Home[x]]]} :
             data'[s][x] = NextData(Bits, G, i.wait)[x]
  BY HealthyStep
<1>2. \A s, t \in Replica \ {bad[q]} : \A n \in Inst :
        PartID[n] = q => cur_state'[s][n] = cur_state'[t][n]
  BY <1>1
<1>3. \A s, t \in Replica \ {bad[q]} : \A x \in Reg :
        PartID[Home[x]] = q => data'[s][x] = data'[t][x]
  BY <1>1
<1>4. QED  BY <1>2, <1>3 DEF OthersAgree

(***************************************************************************)
(* An upset touches one replica of one partition.                          *)
(***************************************************************************)
LEMMA UpsetTouches ==
  ASSUME TypeOK, NEW r \in Replica, NEW q \in Partition, Upset(r, q),
         NEW s \in Replica
  PROVE  /\ \A n \in Inst : PartID[n] # q \/ s # r => cur_state'[s][n] = cur_state[s][n]
         /\ \A x \in Reg : PartID[Home[x]] # q \/ s # r => data'[s][x] = data[s][x]
<1>1. PICK hit \in Strikes :
        /\ IsIn(hit, q)
        /\ \E c \in [hit.fsms -> Ctl], d \in [hit.regs -> Value] :
             /\ cur_state' = [cur_state EXCEPT ![r] =
                  [n \in Inst |-> IF n \in hit.fsms THEN c[n] ELSE cur_state[r][n]]]
             /\ data' = [data EXCEPT ![r] =
                  [x \in Reg |-> IF x \in hit.regs THEN d[x] ELSE data[r][x]]]
  BY DEF Upset
<1>2. QED  BY <1>1 DEF IsIn, TypeOK

(***************************************************************************)
(* With r the faulty replica of q, an upset of it leaves the faulty ones   *)
(* as they are.                                                            *)
(***************************************************************************)
LEMMA UpsetConfined ==
  ASSUME TypeOK, NEW r \in Replica, NEW q \in Partition, Upset(r, q),
         NEW bad, Faulty(bad)
  PROVE  Faulty([bad EXCEPT ![q] = r]) /\ Faulty([bad EXCEPT ![q] = r])'
<1> DEFINE now == [bad EXCEPT ![q] = r]
<1>1. now \in [Partition -> Replica]
  BY DEF Faulty
<1>2. ASSUME NEW k \in Partition PROVE OthersAgree(now[k], k)
  BY <1>2 DEF Faulty, Upset
<1>3. ASSUME NEW k \in Partition PROVE OthersAgree(now[k], k)'
  <2>1. \A s \in Replica \ {now[k]} :
          /\ \A n \in Inst : PartID[n] = k => cur_state'[s][n] = cur_state[s][n]
          /\ \A x \in Reg : PartID[Home[x]] = k => data'[s][x] = data[s][x]
    BY UpsetTouches DEF Faulty
  <2>2. QED  BY <1>2, <2>1 DEF OthersAgree
<1>4. Faulty(now) /\ Faulty(now)'
  BY <1>1, <1>2, <1>3 DEF Faulty
<1>5. QED  BY <1>4

(***************************************************************************)
(* An upset never spreads to a second replica of its partition, nor to a   *)
(* healthy replica of another, in a design whose partitions are isolated.  *)
(***************************************************************************)
THEOREM Confinement ==
  ASSUME Isolated
  PROVE  Spec => []UpsetsAreConfined
<1>1. Init => UpsetsAreConfined
  BY DEF Init, UpsetsAreConfined, OthersAgree, Replica
<1>2. TypeOK /\ UpsetsAreConfined /\ [Next]_vars => UpsetsAreConfined'
  <2> SUFFICES ASSUME TypeOK, UpsetsAreConfined, [Next]_vars PROVE UpsetsAreConfined'
    OBVIOUS
  <2>1. PICK bad : Faulty(bad)
    BY FaultyExists
  <2>2. ASSUME NEW after, Faulty(after)' PROVE UpsetsAreConfined'
    BY <2>2 DEF Faulty, UpsetsAreConfined
  <2>3. ASSUME NEW i \in Input, Tick(i) PROVE UpsetsAreConfined'
    BY <2>1, <2>2, <2>3, AgreementKept
  <2>4. ASSUME NEW r \in Replica, NEW q \in Partition, Upset(r, q)
        PROVE  UpsetsAreConfined'
    BY <2>1, <2>2, <2>4, UpsetConfined
  <2>5. CASE UNCHANGED vars
    <3>1. cur_state' = cur_state /\ data' = data
      BY <2>5 DEF vars
    <3>2. ASSUME NEW r, NEW q, OthersAgree(r, q) PROVE OthersAgree(r, q)'
      BY <3>1, <3>2 DEF OthersAgree
    <3>3. QED  BY <3>2 DEF UpsetsAreConfined
  <2>6. QED  BY <2>3, <2>4, <2>5 DEF Next
<1>3. QED  BY <1>1, <1>2, TypeCorrect, PTL DEF Spec

(***************************************************************************)
(* The majority of the replicas is a healthy one, before and after a step. *)
(***************************************************************************)
LEMMA HealthyStateNext ==
  ASSUME NEW bad, Faulty(bad)', NEW n \in Inst, NEW s \in Replica \ {bad[PartID[n]]}
  PROVE  State'[n] = cur_state'[s][n]
<1>1. PartID[n] \in Partition
  BY DEF Partition
<1>2. bad[PartID[n]] \in Replica /\ OthersAgree(bad[PartID[n]], PartID[n])'
  BY <1>1 DEF Faulty
<1>3. \A t \in Replica \ {bad[PartID[n]]} :
        [r \in Replica |-> cur_state'[r][n]][t] = cur_state'[s][n]
  BY <1>2 DEF OthersAgree
<1>4. Majority([r \in Replica |-> cur_state'[r][n]]) = cur_state'[s][n]
  BY <1>2, <1>3, MajorityMasks
<1>5. QED  BY <1>4 DEF State, MajorityOfStates, Majority

LEMMA HealthyBitNext ==
  ASSUME NEW bad, Faulty(bad)', NEW x \in Reg, NEW s \in Replica \ {bad[PartID[Home[x]]]}
  PROVE  Bits'[x] = data'[s][x]
<1>1. PartID[Home[x]] \in Partition
  BY DesignAssumption DEF Partition
<1>2. /\ bad[PartID[Home[x]]] \in Replica
      /\ OthersAgree(bad[PartID[Home[x]]], PartID[Home[x]])'
  BY <1>1 DEF Faulty
<1>3. \A t \in Replica \ {bad[PartID[Home[x]]]} :
        [r \in Replica |-> data'[r][x]][t] = data'[s][x]
  BY <1>2 DEF OthersAgree
<1>4. Majority([r \in Replica |-> data'[r][x]]) = data'[s][x]
  BY <1>2, <1>3, MajorityMasks
<1>5. QED  BY <1>4 DEF Bits, MajorityOfBits, Majority

(***************************************************************************)
(* Some replica of every partition is healthy.                             *)
(***************************************************************************)
LEMMA OneIsHealthy == \A r : \E s \in Replica : s # r
BY DEF Replica

(***************************************************************************)
(* Upsets are masked: a clock edge of the replicas is, for the majority,   *)
(* one of the design without redundancy, and an upset does not show.       *)
(***************************************************************************)
THEOREM Masking ==
  ASSUME Isolated
  PROVE  Spec => UpsetsAreMasked
<1>1. Init => Golden!Init
  <2> SUFFICES ASSUME Init PROVE Golden!Init
    OBVIOUS
  <2>1. PICK d \in PowerUp : data = [r \in Replica |-> d]
    BY DEF Init
  <2>2. MajorityOfStates(cur_state) = [n \in Inst |-> LEGUP_0]
    BY DEF Init, MajorityOfStates, Majority, Replica
  <2>3. \A x \in Reg : Majority([r \in Replica |-> data[r][x]]) = d[x]
    BY <2>1 DEF Majority, Replica
  <2>4. MajorityOfBits(data) = d
    BY <2>3, PowerUpAssumption DEF MajorityOfBits, Data
  <2>5. QED  BY <2>2, <2>4 DEF Golden!Init
<1>2. TypeOK /\ TypeOK' /\ UpsetsAreConfined /\ [Next]_vars => [Golden!Next]_<<State, Bits>>
  <2> SUFFICES ASSUME TypeOK, TypeOK', UpsetsAreConfined, [Next]_vars
               PROVE  [Golden!Next]_<<State, Bits>>
    OBVIOUS
  <2>1. PICK bad : Faulty(bad)
    BY FaultyExists
  <2>2. ASSUME NEW i \in Input, Tick(i) PROVE Golden!Next
    <3>1. Faulty(bad)'
      BY <2>1, <2>2, AgreementKept
    <3>2. PICK G \in Golden!Settled(i) :
            /\ \A n \in Inst : \A s \in Replica \ {bad[PartID[n]]} :
                 cur_state'[s][n] = IF i.reset THEN LEGUP_0
                                    ELSE IF i.wait THEN State[n] ELSE NextCtl(n, G[n])
            /\ \A x \in Reg : \A s \in Replica \ {bad[PartID[Home[x]]]} :
                 data'[s][x] = NextData(Bits, G, i.wait)[x]
      BY <2>1, <2>2, HealthyStep
    <3>3. ASSUME NEW n \in Inst
          PROVE  State'[n] = IF i.reset THEN LEGUP_0
                              ELSE IF i.wait THEN State[n] ELSE NextCtl(n, G[n])
      <4>1. PICK s \in Replica : s # bad[PartID[n]]
        BY OneIsHealthy
      <4>2. QED  BY <3>1, <3>2, <4>1, HealthyStateNext
    <3>4. State' = [n \in Inst |-> IF i.reset THEN LEGUP_0
                                    ELSE IF i.wait THEN State[n] ELSE NextCtl(n, G[n])]
      BY <3>3 DEF State, MajorityOfStates
    <3>5. ASSUME NEW x \in Reg PROVE Bits'[x] = NextData(Bits, G, i.wait)[x]
      <4>1. PICK s \in Replica : s # bad[PartID[Home[x]]]
        BY OneIsHealthy
      <4>2. QED  BY <3>1, <3>2, <4>1, HealthyBitNext
    <3>6. Bits' = NextData(Bits, G, i.wait)
      BY <3>5 DEF Bits, MajorityOfBits, NextData, LoadRegisters
    <3>7. Golden!NextData(Bits, G, i.wait) = NextData(Bits, G, i.wait)
      BY DEF Golden!NextData, NextData, Golden!LoadRegisters, LoadRegisters
    <3>8. Env(State, Bits, i)
      BY <2>2 DEF Tick, State, Bits
    <3>9. Golden!Tick(i)
      BY <3>2, <3>4, <3>6, <3>7, <3>8 DEF Golden!Tick, State, Bits
    <3>10. QED  BY <3>9 DEF Golden!Next
  <2>3. ASSUME NEW r \in Replica, NEW q \in Partition, Upset(r, q)
        PROVE  UNCHANGED <<State, Bits>>
    <3> DEFINE now == [bad EXCEPT ![q] = r]
    <3>1. Faulty(now) /\ Faulty(now)'
      BY <2>1, <2>3, UpsetConfined
    <3> now[q] = r
      BY <2>1 DEF Faulty
    <3> HIDE DEF now
    <3>2. ASSUME NEW n \in Inst PROVE State'[n] = State[n]
      <4>1. PICK s \in Replica : s # now[PartID[n]]
        BY OneIsHealthy
      <4>2. cur_state'[s][n] = cur_state[s][n]
        BY <2>3, <4>1, UpsetTouches
      <4>3. QED  BY <3>1, <4>1, <4>2, HealthyState, HealthyStateNext
    <3>3. State' = State
      BY <3>2 DEF State, MajorityOfStates
    <3>4. ASSUME NEW x \in Reg PROVE Bits'[x] = Bits[x]
      <4>1. PICK s \in Replica : s # now[PartID[Home[x]]]
        BY OneIsHealthy
      <4>2. data'[s][x] = data[s][x]
        BY <2>3, <4>1, UpsetTouches
      <4>3. QED  BY <3>1, <4>1, <4>2, HealthyBit, HealthyBitNext
    <3>5. Bits' = Bits
      BY <3>4 DEF Bits, MajorityOfBits
    <3>6. QED  BY <3>3, <3>5
  <2>4. CASE UNCHANGED vars
    BY <2>4 DEF vars, State, Bits, MajorityOfStates, MajorityOfBits, Majority
  <2>5. QED  BY <2>2, <2>3, <2>4 DEF Next
<1>3. QED  BY <1>1, <1>2, TypeCorrect, Confinement, PTL
           DEF Spec, UpsetsAreMasked, Golden!Spec, Golden!designVars, State, Bits

-----------------------------------------------------------------------------

(***************************************************************************)
(* The design with a call.  What its call goes through, without            *)
(* redundancy: waiting, starting, f asked, f working, f finishing, the     *)
(* answer registered, the answer stored.                                   *)
(***************************************************************************)
Waiting ==
  /\ State["main"] = "LEGUP_0" /\ State["f"] = "LEGUP_0"
  /\ Bits["f_start"] = 0 /\ Bits["finish"] = 0

Starting == State["main"] = "S" /\ State["f"] = "LEGUP_0" /\ Bits["finish"] = 0

Asked ==
  /\ State["main"] = "call" /\ State["f"] = "LEGUP_0"
  /\ Bits["f_start"] = 1 /\ Bits["f_arg"] = Bits["i"]
  /\ Bits["finish"] = 0 /\ Bits["f_finish_reg"] = 0

Working ==
  /\ State["main"] = "call" /\ State["f"] = "body"
  /\ Bits["f_arg"] = Bits["i"]
  /\ Bits["finish"] = 0 /\ Bits["f_finish_reg"] = 0

Finishing ==
  /\ State["main"] = "call" /\ State["f"] = "LEGUP_0"
  /\ Bits["f_start"] = 0 /\ Bits["return_val"] = 1 - Bits["i"]
  /\ Bits["finish"] = 1 /\ Bits["f_finish_reg"] = 0

Answered ==
  /\ State["main"] = "call" /\ State["f"] = "LEGUP_0"
  /\ Bits["f_start"] = 0 /\ Bits["f_return_val_reg"] = 1 - Bits["i"]
  /\ Bits["finish"] = 0 /\ Bits["f_finish_reg"] = 1

Storing ==
  /\ State["main"] = "store" /\ State["f"] = "LEGUP_0"
  /\ Bits["f_start"] = 0 /\ Bits["f_return_val_reg"] = 1 - Bits["i"]
  /\ Bits["finish"] = 0

CallPhases ==
  Waiting \/ Starting \/ Asked \/ Working \/ Finishing \/ Answered \/ Storing

LEMMA MajorityType ==
  ASSUME TypeOK
  PROVE  State \in [Inst -> Ctl] /\ Bits \in Data
<1>1. ASSUME NEW n \in Inst PROVE Majority([r \in Replica |-> cur_state[r][n]]) \in Ctl
  <2>1. [r \in Replica |-> cur_state[r][n]] \in [Replica -> Ctl]
    BY DEF TypeOK
  <2>2. QED  BY <2>1, VoteType
<1>2. ASSUME NEW x \in Reg PROVE Majority([r \in Replica |-> data[r][x]]) \in Value
  <2>1. [r \in Replica |-> data[r][x]] \in [Replica -> Value]
    BY DEF TypeOK, Data
  <2>2. QED  BY <2>1, VoteType
<1>3. QED  BY <1>1, <1>2 DEF State, Bits, MajorityOfStates, MajorityOfBits, Data

(***************************************************************************)
(* One round of the nets of the design without redundancy.                 *)
(***************************************************************************)
LEMMA RoundType ==
  ASSUME TypeOK, NEW i \in Input, NEW W \in SUBSET Wires
  PROVE  Golden!Settle(W, i) \in SUBSET Wires
<1> SUFFICES ASSUME NEW w \in W PROVE Golden!Outputs(Golden!ViewsOf(w, i)) \in Wires
  BY DEF Golden!Settle
<1>1. ASSUME NEW p \in Port PROVE Out(p, View(From[p], State, Bits, w, i)) \in Value
  <2>1. From[p] \in Inst
    BY DesignAssumption
  <2>2. w \in [Port -> Value] /\ Inputs[From[p]] \subseteq Port
    BY <2>1 DEF Wires, Inputs
  <2>3. View(From[p], State, Bits, w, i)
          = View(From[p], State, Bits, [q \in Inputs[From[p]] |-> w[q]], i)
    BY DEF View
  <2>4. View(From[p], State, Bits, w, i) \in Views(From[p])
    BY <2>1, <2>2, <2>3, MajorityType, ViewType
  <2>5. QED  BY <2>1, <2>4, LogicAssumption
<1>2. Golden!Outputs(Golden!ViewsOf(w, i))
        = [p \in Port |-> Out(p, View(From[p], State, Bits, w, i))]
  BY DesignAssumption DEF Golden!Outputs, Golden!ViewsOf, Golden!View, View, Golden!Own, Own,
         Golden!Inputs, Inputs, State, Bits
<1>3. QED  BY <1>1, <1>2 DEF Wires

(***************************************************************************)
(* What the instances see when the nets have settled.                      *)
(***************************************************************************)
LEMMA SettledView ==
  ASSUME TypeOK, NEW i \in Input, NEW G \in Golden!Settled(i)
  PROVE  \E w \in Wires :
           LET g == [p \in Port |-> Out(p, View(From[p], State, Bits, w, i))]
           IN  /\ g \in Wires
               /\ \A p \in Port : View(From[p], State, Bits, w, i) \in Views(From[p])
               /\ \A n \in Inst : G[n] = View(n, State, Bits, g, i) /\ G[n] \in Views(n)
<1> DEFINE off == [p \in Port |-> Unset]
           W == Golden!Settle({off}, i)
<1>1. {off} \in SUBSET Wires
  BY DesignAssumption DEF Wires
<1>2. W \in SUBSET Wires /\ Golden!Settle(W, i) \in SUBSET Wires
  BY <1>1, RoundType
<1>3. PICK g \in Golden!Settle(W, i) : G = Golden!ViewsOf(g, i)
  BY DEF Golden!Settled
<1>4. PICK w \in W : g = Golden!Outputs(Golden!ViewsOf(w, i))
  BY DEF Golden!Settle
<1>5. g = [p \in Port |-> Out(p, View(From[p], State, Bits, w, i))]
  BY <1>4, DesignAssumption
     DEF Golden!Outputs, Golden!ViewsOf, Golden!View, View, Golden!Own, Own,
         Golden!Inputs, Inputs, State, Bits
<1>6. G = [n \in Inst |-> View(n, State, Bits, g, i)]
  BY <1>3 DEF Golden!ViewsOf, Golden!View, View, Golden!Own, Own, Golden!Inputs, Inputs,
              State, Bits
<1>7. ASSUME NEW v \in Wires, NEW n \in Inst PROVE View(n, State, Bits, v, i) \in Views(n)
  <2>1. [q \in Inputs[n] |-> v[q]] \in [Inputs[n] -> Value]
    BY DEF Wires, Inputs
  <2>2. View(n, State, Bits, v, i) = View(n, State, Bits, [q \in Inputs[n] |-> v[q]], i)
    BY DEF View
  <2>3. QED  BY <2>1, <2>2, MajorityType, ViewType
<1>8. \A p \in Port : From[p] \in Inst
  BY DesignAssumption
<1> HIDE DEF W
<1>9. w \in Wires /\ g \in Wires
  BY <1>2
<1>10. QED  BY <1>5, <1>6, <1>7, <1>8, <1>9

(***************************************************************************)
(* In the design with the call f sees the start and argument registers of  *)
(* main, and main the finish and return value of f.                        *)
(***************************************************************************)
LEMMA CallView ==
  ASSUME CallDesign, TypeOK, NEW i \in Input, NEW G \in Golden!Settled(i)
  PROVE  /\ \A n \in CallInst : G[n].ctl = State[n] /\ G[n].in = i /\ G[n] \in Views(n)
         /\ \A x \in CallReg : G[CallHome[x]].reg[x] = Bits[x]
         /\ G["f"].port["start"] = Bits["f_start"]
         /\ G["f"].port["arg"] = Bits["f_arg"]
         /\ G["main"].port["finish"] = Bits["finish"]
         /\ G["main"].port["return_val"] = Bits["return_val"]
<1>1. PICK w \in Wires :
        LET g == [p \in Port |-> Out(p, View(From[p], State, Bits, w, i))]
        IN  /\ g \in Wires
            /\ \A p \in Port : View(From[p], State, Bits, w, i) \in Views(From[p])
            /\ \A n \in Inst : G[n] = View(n, State, Bits, g, i) /\ G[n] \in Views(n)
  BY SettledView
<1> DEFINE g == [p \in Port |-> Out(p, View(From[p], State, Bits, w, i))]
<1>2. \A n \in Inst : G[n] = View(n, State, Bits, g, i) /\ G[n] \in Views(n)
  BY <1>1
<1>3. Inst = CallInst /\ Reg = CallReg /\ Home = CallHome /\ Port = CallPort
      /\ From = CallFrom /\ To = CallTo
  BY DEF CallDesign
<1>4. \A p \in Port : g[p] = CallOut(p, View(From[p], State, Bits, w, i))
  BY <1>1 DEF CallDesign
<1>5. \A x \in CallReg : x \in Own[CallHome[x]] /\ CallHome[x] \in CallInst
  BY <1>3, DesignAssumption DEF Own
<1>6. /\ g["start"] = Bits["f_start"] /\ g["arg"] = Bits["f_arg"]
      /\ g["finish"] = Bits["finish"] /\ g["return_val"] = Bits["return_val"]
  <2>1. \A x \in CallReg : View(CallHome[x], State, Bits, w, i).reg[x] = Bits[x]
    BY <1>5 DEF View
  <2>2. /\ CallHome["f_start"] = "main" /\ CallHome["f_arg"] = "main"
        /\ CallHome["finish"] = "f" /\ CallHome["return_val"] = "f"
        /\ {"f_start", "f_arg", "finish", "return_val"} \subseteq CallReg
    BY DEF CallHome, CallReg, RegsOfMain, RegsOfF, RegsOfMemory
  <2>3. /\ CallFrom["start"] = "main" /\ CallFrom["arg"] = "main"
        /\ CallFrom["finish"] = "f" /\ CallFrom["return_val"] = "f"
        /\ {"start", "arg", "finish", "return_val"} \subseteq CallPort
    BY DEF CallFrom, CallPort, Arguments, Results, ToMemory
  <2>4. \A v : /\ CallOut("start", v) = v.reg["f_start"] /\ CallOut("arg", v) = v.reg["f_arg"]
               /\ CallOut("finish", v) = v.reg["finish"]
               /\ CallOut("return_val", v) = v.reg["return_val"]
    BY DEF CallOut, Results
  <2> HIDE DEF g
  <2>5. QED  BY <1>3, <1>4, <2>1, <2>2, <2>3, <2>4
<1>7. /\ {"start", "arg"} \subseteq Inputs["f"]
      /\ {"finish", "return_val"} \subseteq Inputs["main"]
  BY <1>3 DEF Inputs, CallInst, CallTo, CallPort, Arguments, Results, ToMemory
<1> HIDE DEF g
<1>8. "main" \in CallInst /\ "f" \in CallInst
  BY DEF CallInst
<1>9. ASSUME NEW n \in CallInst
      PROVE  G[n] = View(n, State, Bits, g, i) /\ G[n] \in Views(n)
  BY <1>2, <1>3
<1>10. ASSUME NEW n \in CallInst
       PROVE  G[n].ctl = State[n] /\ G[n].in = i /\ G[n] \in Views(n)
  <2>1. View(n, State, Bits, g, i).ctl = State[n] /\ View(n, State, Bits, g, i).in = i
    BY DEF View
  <2>2. QED  BY <1>9, <2>1
<1>11. ASSUME NEW x \in CallReg PROVE G[CallHome[x]].reg[x] = Bits[x]
  <2>1. View(CallHome[x], State, Bits, g, i).reg = [y \in Own[CallHome[x]] |-> Bits[y]]
    BY DEF View
  <2>2. QED  BY <1>5, <1>9, <2>1
<1>12. ASSUME NEW n \in CallInst, NEW p \in Inputs[n] PROVE G[n].port[p] = g[p]
  <2>1. View(n, State, Bits, g, i).port = [q \in Inputs[n] |-> g[q]]
    BY DEF View
  <2>2. QED  BY <1>9, <2>1
<1>13. QED  BY <1>6, <1>7, <1>8, <1>10, <1>11, <1>12

(***************************************************************************)
(* A clock edge of the design with the call, register by register.         *)
(***************************************************************************)
Edge(i) ==
  /\ i.wait => ~(State["main"] = "call" /\ State["f"] = "LEGUP_0" /\ Bits["f_start"] = 1)
  /\ i.reset => State["main"] = "LEGUP_0"
  /\ State'["main"] =
       IF i.reset THEN "LEGUP_0"
       ELSE IF i.wait THEN State["main"]
       ELSE IF State["main"] = "LEGUP_0" THEN IF i.start THEN "S" ELSE "LEGUP_0"
       ELSE IF State["main"] = "S" THEN "call"
       ELSE IF State["main"] = "call"
            THEN IF Bits["f_finish_reg"] = 1 THEN "store" ELSE "call"
       ELSE "S"
  /\ State'["f"] =
       IF i.reset THEN "LEGUP_0"
       ELSE IF i.wait THEN State["f"]
       ELSE IF State["f"] = "LEGUP_0"
            THEN IF Bits["f_start"] = 1 THEN FirstState ELSE "LEGUP_0"
       ELSE IF State["f"] = "load" THEN "body"
       ELSE "LEGUP_0"
  /\ Bits'["f_start"] =
       IF State["main"] \in {"S", "call"} THEN Bit(State["main"] = "S")
       ELSE Bits["f_start"]
  /\ Bits'["f_arg"] = IF State["main"] = "S" THEN Bits["i"] ELSE Bits["f_arg"]
  /\ Bits'["f_finish_reg"] =
       IF i.reset \/ State["main"] = "S" \/ Bits["finish"] = 1
       THEN Bits["finish"] ELSE Bits["f_finish_reg"]
  /\ Bits'["f_return_val_reg"] =
       IF Bits["finish"] = 1 THEN Bits["return_val"]
       ELSE IF i.reset \/ State["main"] = "S" THEN 0
       ELSE Bits["f_return_val_reg"]
  /\ State["main"] \notin {"LEGUP_0", "store"} \/ i.wait => Bits'["i"] = Bits["i"]
  /\ Bits'["finish"] =
       IF State["f"] \in {"LEGUP_0", "body"} THEN Bit(State["f"] = "body" /\ ~i.wait)
       ELSE Bits["finish"]
  /\ ~LoadsMemory =>
       Bits'["return_val"] =
         IF State["f"] = "body" THEN 1 - Bits["f_arg"] ELSE Bits["return_val"]

LEMMA CallEdge ==
  ASSUME CallDesign, TypeOK, NEW i \in CallInput, Golden!Tick(i)
  PROVE  Edge(i)
<1>1. PICK G \in Golden!Settled(i) :
        /\ State' = [n \in Inst |-> IF i.reset THEN LEGUP_0
                                    ELSE IF i.wait THEN State[n] ELSE NextCtl(n, G[n])]
        /\ Bits' = Golden!NextData(Bits, G, i.wait)
  BY DEF Golden!Tick, State, Bits
<1>2. /\ Inst = CallInst /\ Reg = CallReg /\ Home = CallHome /\ PhiReg = CallPhi
      /\ LEGUP_0 = "LEGUP_0" /\ Input = CallInput
  BY DEF CallDesign
<1>3. /\ \A n \in CallInst : G[n].ctl = State[n] /\ G[n].in = i /\ G[n] \in Views(n)
      /\ \A x \in CallReg : G[CallHome[x]].reg[x] = Bits[x]
      /\ G["f"].port["start"] = Bits["f_start"]
      /\ G["f"].port["arg"] = Bits["f_arg"]
      /\ G["main"].port["finish"] = Bits["finish"]
      /\ G["main"].port["return_val"] = Bits["return_val"]
  BY <1>2, CallView
<1>4. Env(State, Bits, i) /\ State \in [Inst -> Ctl] /\ Bits \in Data
  BY MajorityType DEF Golden!Tick, State, Bits
<1>5. CallEnv(State, Bits, i)
  BY <1>2, <1>4 DEF CallDesign
<1>6. \A n \in CallInst : NextCtl(n, G[n]) = CallNextCtl(n, G[n])
  BY <1>2, <1>3 DEF CallDesign
<1>7. \A x \in CallReg :
        /\ CallHome[x] \in CallInst
        /\ Loads(x, G[CallHome[x]]) <=> CallLoads(x, G[CallHome[x]])
        /\ Driver(x, G[CallHome[x]]) = CallDriver(x, G[CallHome[x]])
  <2>1. \A x \in CallReg : CallHome[x] \in CallInst
    BY <1>2, DesignAssumption
  <2>2. QED  BY <1>2, <1>3, <2>1 DEF CallDesign
<1>8. \A n \in CallInst :
        State'[n] = IF i.reset THEN "LEGUP_0"
                    ELSE IF i.wait THEN State[n] ELSE CallNextCtl(n, G[n])
  BY <1>1, <1>2, <1>6
<1>9. \A x \in CallReg :
        Bits'[x] = IF CallLoads(x, G[CallHome[x]]) /\ (x \in CallPhi => ~i.wait)
                   THEN CallDriver(x, G[CallHome[x]]) ELSE Bits[x]
  BY <1>1, <1>2, <1>7 DEF Golden!NextData, Golden!LoadRegisters
<1>10. /\ "main" \in CallInst /\ "f" \in CallInst
       /\ \A x \in RegsOfMain : x \in CallReg /\ CallHome[x] = "main"
       /\ \A x \in RegsOfF : x \in CallReg /\ CallHome[x] = "f"
       /\ \A x \in RegsOfMain \cup RegsOfF : x \in CallPhi <=> x = "i"
  BY DEF CallInst, CallReg, CallHome, CallPhi, RegsOfMain, RegsOfF, RegsOfMemory
<1>11. /\ \A x \in RegsOfMain :
            Bits'[x] = IF CallLoads(x, G["main"]) /\ (x = "i" => ~i.wait)
                       THEN CallDriver(x, G["main"]) ELSE Bits[x]
       /\ \A x \in RegsOfF :
            Bits'[x] = IF CallLoads(x, G["f"]) /\ (x = "i" => ~i.wait)
                       THEN CallDriver(x, G["f"]) ELSE Bits[x]
  BY <1>9, <1>10
<1>12. /\ G["main"].ctl = State["main"] /\ G["main"].in = i
       /\ G["f"].ctl = State["f"] /\ G["f"].in = i
       /\ G["main"].reg["i"] = Bits["i"]
       /\ G["main"].reg["f_finish_reg"] = Bits["f_finish_reg"]
  BY <1>3, <1>10 DEF RegsOfMain
<1>13. i.start \in BOOLEAN /\ i.wait \in BOOLEAN /\ i.reset \in BOOLEAN
  BY DEF CallInput
<1>14. /\ i.wait => ~(State["main"] = "call" /\ State["f"] = "LEGUP_0" /\ Bits["f_start"] = 1)
       /\ i.reset => State["main"] = "LEGUP_0"
  BY <1>5 DEF CallEnv, StartPending
<1>15. State'["main"] =
         IF i.reset THEN "LEGUP_0"
         ELSE IF i.wait THEN State["main"]
         ELSE IF State["main"] = "LEGUP_0" THEN IF i.start THEN "S" ELSE "LEGUP_0"
         ELSE IF State["main"] = "S" THEN "call"
         ELSE IF State["main"] = "call"
              THEN IF Bits["f_finish_reg"] = 1 THEN "store" ELSE "call"
         ELSE "S"
  BY <1>8, <1>10, <1>12 DEF CallNextCtl, MainNext
<1>16. State'["f"] =
         IF i.reset THEN "LEGUP_0"
         ELSE IF i.wait THEN State["f"]
         ELSE IF State["f"] = "LEGUP_0"
              THEN IF Bits["f_start"] = 1 THEN FirstState ELSE "LEGUP_0"
         ELSE IF State["f"] = "load" THEN "body"
         ELSE "LEGUP_0"
  BY <1>3, <1>8, <1>10, <1>12 DEF CallNextCtl, FNext
<1>17. Bits'["f_start"] =
         IF State["main"] \in {"S", "call"} THEN Bit(State["main"] = "S") ELSE Bits["f_start"]
  BY <1>11, <1>12 DEF CallLoads, CallDriver, RegsOfMain
<1>18. Bits'["f_arg"] = IF State["main"] = "S" THEN Bits["i"] ELSE Bits["f_arg"]
  BY <1>11, <1>12 DEF CallLoads, CallDriver, RegsOfMain
<1>19. Bits'["f_finish_reg"] =
         IF i.reset \/ State["main"] = "S" \/ Bits["finish"] = 1
         THEN Bits["finish"] ELSE Bits["f_finish_reg"]
  BY <1>3, <1>11, <1>12 DEF CallLoads, CallDriver, RegsOfMain, Forgets
<1>20. Bits'["f_return_val_reg"] =
         IF Bits["finish"] = 1 THEN Bits["return_val"]
         ELSE IF i.reset \/ State["main"] = "S" THEN 0
         ELSE Bits["f_return_val_reg"]
  BY <1>3, <1>11, <1>12 DEF CallLoads, CallDriver, RegsOfMain, Forgets
<1>21. State["main"] \notin {"LEGUP_0", "store"} \/ i.wait => Bits'["i"] = Bits["i"]
  BY <1>11, <1>12 DEF CallLoads, RegsOfMain
<1>22. Bits'["finish"] =
         IF State["f"] \in {"LEGUP_0", "body"} THEN Bit(State["f"] = "body" /\ ~i.wait)
         ELSE Bits["finish"]
  BY <1>11, <1>12 DEF CallLoads, CallDriver, RegsOfF
<1>23. ~LoadsMemory =>
         Bits'["return_val"] =
           IF State["f"] = "body" THEN 1 - Bits["f_arg"] ELSE Bits["return_val"]
  BY <1>3, <1>11, <1>12 DEF CallLoads, CallDriver, Computed, RegsOfF
<1>24. QED
  BY <1>14, <1>15, <1>16, <1>17, <1>18, <1>19, <1>20, <1>21, <1>22, <1>23 DEF Edge

(***************************************************************************)
(* A clock edge leads from a phase of the call to the same or the next; a  *)
(* start that a stall has held back is seen as main enters the call state. *)
(***************************************************************************)
LEMMA CallStep ==
  ASSUME CallDesign, ~LoadsMemory, TypeOK, CallPhases, NEW i \in CallInput, Golden!Tick(i)
  PROVE  CallPhases'
<1>1. Edge(i) /\ FirstState = "body"
  BY CallEdge DEF FirstState
<1>2. i.start \in BOOLEAN /\ i.wait \in BOOLEAN /\ i.reset \in BOOLEAN
  BY DEF CallInput
<1>3. CASE Waiting
  <2>1. Waiting' \/ Starting'
    BY <1>1, <1>2, <1>3 DEF Edge, Bit, Waiting, Starting
  <2>2. QED  BY <2>1 DEF CallPhases
<1>4. CASE Starting
  <2>1. Starting' \/ Asked' \/ Working'
    BY <1>1, <1>2, <1>4 DEF Edge, Bit, Starting, Asked, Working
  <2>2. QED  BY <2>1 DEF CallPhases
<1>5. CASE Asked
  <2>1. Working'
    BY <1>1, <1>2, <1>5 DEF Edge, Bit, Asked, Working
  <2>2. QED  BY <2>1 DEF CallPhases
<1>6. CASE Working
  <2>1. Working' \/ Finishing'
    BY <1>1, <1>2, <1>6 DEF Edge, Bit, Working, Finishing
  <2>2. QED  BY <2>1 DEF CallPhases
<1>7. CASE Finishing
  <2>1. Answered'
    BY <1>1, <1>2, <1>7 DEF Edge, Bit, Finishing, Answered
  <2>2. QED  BY <2>1 DEF CallPhases
<1>8. CASE Answered
  <2>1. Answered' \/ Storing'
    BY <1>1, <1>2, <1>8 DEF Edge, Bit, Answered, Storing
  <2>2. QED  BY <2>1 DEF CallPhases
<1>9. CASE Storing
  <2>1. Storing' \/ Starting'
    BY <1>1, <1>2, <1>9 DEF Edge, Bit, Storing, Starting
  <2>2. QED  BY <2>1 DEF CallPhases
<1>10. QED  BY <1>3, <1>4, <1>5, <1>6, <1>7, <1>8, <1>9 DEF CallPhases

(***************************************************************************)
(* A call returns the value of its argument, and f is ready for the next,  *)
(* whatever upsets strike and however long the stalls are: the triplicated *)
(* design behaves like the one without redundancy, whose calls go through  *)
(* the phases above.                                                       *)
(***************************************************************************)
THEOREM CallResults ==
  ASSUME Isolated, CallDesign, ~LoadsMemory
  PROVE  Spec => []CallReturnedItsValue
<1>1. TypeOK /\ Golden!Init => CallPhases
  <2> SUFFICES ASSUME TypeOK, Golden!Init PROVE CallPhases
    OBVIOUS
  <2>1. /\ Inst = CallInst /\ LEGUP_0 = "LEGUP_0" /\ PowerUp = CallPowerUp
    BY DEF CallDesign
  <2>2. State = [n \in CallInst |-> "LEGUP_0"] /\ Bits = [x \in CallReg |-> 0]
    BY <2>1 DEF Golden!Init, State, Bits, CallPowerUp
  <2>3. {"main", "f"} \subseteq CallInst /\ {"f_start", "finish"} \subseteq CallReg
    BY DEF CallInst, CallReg, RegsOfMain, RegsOfF
  <2>4. QED  BY <2>2, <2>3 DEF CallPhases, Waiting
<1>2. TypeOK /\ CallPhases /\ [Golden!Next]_Golden!designVars => CallPhases'
  <2>1. ASSUME TypeOK, CallPhases, Golden!Next PROVE CallPhases'
    <3>1. PICK i \in Input : Golden!Tick(i)
      BY <2>1 DEF Golden!Next
    <3>2. Input = CallInput
      BY DEF CallDesign
    <3>3. QED  BY <2>1, <3>1, <3>2, CallStep
  <2>2. ASSUME CallPhases, UNCHANGED Golden!designVars PROVE CallPhases'
    <3>1. State' = State /\ Bits' = Bits
      BY <2>2 DEF Golden!designVars, State, Bits
    <3>2. QED
      BY <2>2, <3>1 DEF CallPhases, Waiting, Starting, Asked, Working, Finishing, Answered,
                       Storing
  <2>3. QED  BY <2>1, <2>2
<1>3. CallPhases => CallReturnedItsValue
  BY DEF CallPhases, Waiting, Starting, Asked, Working, Finishing, Answered, Storing,
         CallReturnedItsValue
<1>4. QED
  BY <1>1, <1>2, <1>3, TypeCorrect, Masking, PTL DEF UpsetsAreMasked, Golden!Spec

=============================================================================
