---------------------------- MODULE StallShadow -----------------------------
(***************************************************************************)
(* The generated module beside an ideal one that is only clocked when the  *)
(* memory controller does not stall.  An ordinary register is loaded at    *)
(* every edge while the FSM stands in its state, even with what the logic  *)
(* computes from inputs that have not settled; what makes that harmless is *)
(* that getOpNonConstant reads the wire, not the register, of an           *)
(* instruction that ends in the reader's own state, and that a phi is only *)
(* loaded on a transition.                                                 *)
(***************************************************************************)
EXTENDS Machine, TLAPS

VARIABLES
  idealState,  \* the FSM register of the ideal module
  idealData    \* its data registers

vars == <<cur_state, data, idealState, idealData>>

(***************************************************************************)
(* The ordinary registers that a state loads (connectRegistersToWires: the *)
(* condition of such a register is its state alone).                       *)
(***************************************************************************)
LoadedIn(c) ==
  {x \in Reg \ PhiReg : \E d \in Data, i \in Input : Loads(c, x, d, i)}

Settled(c) == Reg \ LoadedIn(c)

ASSUME LoadAssumption ==
  \A c \in Ctl : \A x \in LoadedIn(c) : \A d \in Data, i \in Input : Loads(c, x, d, i)

(***************************************************************************)
(* getOpNonConstant: a state does not read the registers it loads.         *)
(***************************************************************************)
AgreeOn(S, d, e) == \A x \in S : d[x] = e[x]

ASSUME WireAssumption ==
  \A c \in Ctl, d \in Data, e \in Data, i \in Input :
    AgreeOn(Settled(c), d, e) =>
      /\ NextCtl(c, d, i) = NextCtl(c, e, i)
      /\ \A x \in Reg : /\ Loads(c, x, d, i) = Loads(c, x, e, i)
                        /\ Driver(c, x, d, i) = Driver(c, x, e, i)

ShadowInit ==
  /\ Init
  /\ idealState = cur_state
  /\ idealData = data

Stall(i) ==
  /\ Tick(i, TRUE)
  /\ UNCHANGED <<idealState, idealData>>

Advance(i) ==
  /\ Tick(i, FALSE)
  /\ idealState' = NextCtl(idealState, idealData, i)
  /\ idealData' = NextData(idealState, idealData, idealData, i, FALSE)

ShadowNext == \E i \in Input : Stall(i) \/ Advance(i)

ShadowSpec == ShadowInit /\ [][ShadowNext]_vars

-----------------------------------------------------------------------------

ShadowTypeOK ==
  /\ cur_state \in Ctl /\ idealState \in Ctl
  /\ data \in Data /\ idealData \in Data

(***************************************************************************)
(* Stalls cannot be seen in the result, however long they last and         *)
(* whatever stands at the inputs meanwhile: the module is in the state of  *)
(* the ideal one, and so are all registers but those it is just loading.   *)
(***************************************************************************)
StallsAreTransparent ==
  /\ cur_state = idealState
  /\ AgreeOn(Settled(cur_state), data, idealData)

-----------------------------------------------------------------------------

(***************************************************************************)
(* Proof that stalls are transparent, for every program whose registers    *)
(* are loaded and read as the generator lays them out.                     *)
(***************************************************************************)
LEMMA NextDataType ==
  ASSUME NEW c \in Ctl, NEW own \in Data, NEW d \in Data, NEW i \in Input, NEW wait
  PROVE  NextData(c, own, d, i, wait) \in Data
BY ProgramAssumption DEF NextData, LoadRegisters, Data

THEOREM ShadowTypeCorrect == ShadowSpec => []ShadowTypeOK
<1>1. ShadowInit => ShadowTypeOK
  BY ProgramAssumption, PowerUpAssumption DEF ShadowInit, Init, ShadowTypeOK
<1>2. ShadowTypeOK /\ [ShadowNext]_vars => ShadowTypeOK'
  <2> SUFFICES ASSUME ShadowTypeOK, [ShadowNext]_vars PROVE ShadowTypeOK'
    OBVIOUS
  <2>1. ASSUME NEW i \in Input, NEW wait \in BOOLEAN, Tick(i, wait)
        PROVE  cur_state' \in Ctl /\ data' \in Data
    BY <2>1, NextDataType, ProgramAssumption DEF Tick, ShadowTypeOK
  <2>2. ASSUME NEW i \in Input, Stall(i) PROVE ShadowTypeOK'
    BY <2>1, <2>2 DEF Stall, ShadowTypeOK
  <2>3. ASSUME NEW i \in Input, Advance(i) PROVE ShadowTypeOK'
    <3>1. idealState' \in Ctl /\ idealData' \in Data
      BY <2>3, NextDataType, ProgramAssumption DEF Advance, ShadowTypeOK
    <3>2. QED  BY <2>1, <2>3, <3>1 DEF Advance, ShadowTypeOK
  <2>4. CASE UNCHANGED vars
    BY <2>4 DEF vars, ShadowTypeOK
  <2>5. QED  BY <2>2, <2>3, <2>4 DEF ShadowNext
<1>3. QED  BY <1>1, <1>2, PTL DEF ShadowSpec

(***************************************************************************)
(* A stalled edge loads no register outside those of the current state.    *)
(***************************************************************************)
LEMMA StallTouchesLoaded ==
  ASSUME NEW c \in Ctl, NEW d \in Data, NEW i \in Input
  PROVE  AgreeOn(Settled(c), NextData(c, d, d, i, TRUE), d)
BY DEF AgreeOn, Settled, LoadedIn, NextData, LoadRegisters

(***************************************************************************)
(* An edge without a stall makes alike whatever agrees on the settled      *)
(* registers: the others are loaded, with what the settled ones determine. *)
(***************************************************************************)
LEMMA AdvanceLoadsAlike ==
  ASSUME NEW c \in Ctl, NEW d \in Data, NEW k \in Data, NEW i \in Input,
         AgreeOn(Settled(c), d, k)
  PROVE  NextData(c, d, d, i, FALSE) = NextData(c, k, k, i, FALSE)
<1>1. ASSUME NEW x \in Reg
      PROVE  (IF Loads(c, x, d, i) THEN Driver(c, x, d, i) ELSE d[x])
               = (IF Loads(c, x, k, i) THEN Driver(c, x, k, i) ELSE k[x])
  <2>1. Loads(c, x, d, i) = Loads(c, x, k, i) /\ Driver(c, x, d, i) = Driver(c, x, k, i)
    BY WireAssumption
  <2>2. CASE x \in LoadedIn(c)
    BY <2>1, <2>2, LoadAssumption
  <2>3. CASE x \notin LoadedIn(c)
    BY <2>1, <2>3 DEF AgreeOn, Settled
  <2>4. QED  BY <2>2, <2>3
<1>2. QED  BY <1>1 DEF NextData, LoadRegisters

(***************************************************************************)
(* The module cannot be told from one that is never stalled.               *)
(***************************************************************************)
THEOREM StallTransparency == ShadowSpec => []StallsAreTransparent
<1>1. ShadowInit => StallsAreTransparent
  BY DEF ShadowInit, StallsAreTransparent, AgreeOn
<1>2. ShadowTypeOK /\ StallsAreTransparent /\ [ShadowNext]_vars => StallsAreTransparent'
  <2> SUFFICES ASSUME ShadowTypeOK, StallsAreTransparent, [ShadowNext]_vars
               PROVE  StallsAreTransparent'
    OBVIOUS
  <2>1. ASSUME NEW i \in Input, Stall(i) PROVE StallsAreTransparent'
    <3>1. AgreeOn(Settled(cur_state), data', data)
      BY <2>1, StallTouchesLoaded DEF Stall, Tick, ShadowTypeOK
    <3>2. AgreeOn(Settled(cur_state), data', idealData)
      BY <3>1 DEF StallsAreTransparent, AgreeOn
    <3>3. cur_state' = cur_state /\ idealState' = idealState /\ idealData' = idealData
      BY <2>1 DEF Stall, Tick
    <3>4. QED  BY <3>2, <3>3 DEF StallsAreTransparent
  <2>2. ASSUME NEW i \in Input, Advance(i) PROVE StallsAreTransparent'
    <3>1. data' = idealData'
      BY <2>2, AdvanceLoadsAlike DEF Advance, Tick, StallsAreTransparent, ShadowTypeOK
    <3>2. NextCtl(cur_state, data, i) = NextCtl(idealState, idealData, i)
      BY WireAssumption DEF StallsAreTransparent, ShadowTypeOK
    <3>3. cur_state' = idealState'
      BY <2>2, <3>2 DEF Advance, Tick
    <3>4. QED  BY <3>1, <3>3 DEF StallsAreTransparent, AgreeOn
  <2>3. CASE UNCHANGED vars
    BY <2>3 DEF vars, StallsAreTransparent
  <2>4. QED  BY <2>1, <2>2, <2>3 DEF ShadowNext
<1>3. QED  BY <1>1, <1>2, ShadowTypeCorrect, PTL DEF ShadowSpec

=============================================================================
