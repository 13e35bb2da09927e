------------------------------- MODULE Design --------------------------------
(***************************************************************************)
(* The instances of the generated modules, each with its FSM register and  *)
(* its data registers, and the nets between them.  What a program computes *)
(* is left to constants: the transitions of every FSM, when and with what  *)
(* each register is loaded, and what drives each port.                     *)
(***************************************************************************)
EXTENDS Registers

CONSTANTS
  Inst,          \* the instances (CallGraph, the memory controller included)
  Ctl,           \* the states of their FSMs
  LEGUP_0,       \* the state a reset leads to
  Home,          \* the instance a register bit belongs to
  Port,          \* the bits of the ports that connect instances
  From,          \* the instance that drives a port
  To,            \* the instances that read it
  Unset,         \* what a net shows before anything has driven it
  Input,         \* the inputs of the top module: wait, reset and others
  NextCtl(_,_),  \* an FSM's transition: of an instance and what it sees
  Loads(_,_),    \* whether a register bit is loaded
  Driver(_,_),   \* what it is loaded with
  Out(_,_)       \* what a port shows

Own == [n \in Inst |-> {x \in Reg : Home[x] = n}]

Inputs == [n \in Inst |-> {p \in Port : n \in To[p]}]

(***************************************************************************)
(* What an instance sees: its state, its registers, the ports it reads and *)
(* the inputs of the top module.                                           *)
(***************************************************************************)
View(n, c, d, w, i) ==
  [ctl |-> c[n], reg |-> [x \in Own[n] |-> d[x]], port |-> [p \in Inputs[n] |-> w[p]], in |-> i]

Views(n) ==
  [ctl : Ctl, reg : [Own[n] -> Value], port : [Inputs[n] -> Value], in : Input]

ASSUME DesignAssumption ==
  /\ LEGUP_0 \in Ctl
  /\ Unset \in Value
  /\ Home \in [Reg -> Inst]
  /\ From \in [Port -> Inst]
  /\ To \in [Port -> SUBSET Inst]
  /\ \A i \in Input : i.wait \in BOOLEAN /\ i.reset \in BOOLEAN

ASSUME LogicAssumption ==
  /\ \A n \in Inst : \A v \in Views(n) : NextCtl(n, v) \in Ctl
  /\ \A x \in Reg : \A v \in Views(Home[x]) : Driver(x, v) \in Value
  /\ \A p \in Port : \A v \in Views(From[p]) : Out(p, v) \in Value

(***************************************************************************)
(* What the ports show, and what a clock edge loads, when every instance n *)
(* sees V[n].                                                              *)
(***************************************************************************)
Outputs(V) == [p \in Port |-> Out(p, V[From[p]])]

NextData(own, V, wait) ==
  LoadRegisters(own, {x \in Reg : Loads(x, V[Home[x]])},
                [x \in Reg |-> Driver(x, V[Home[x]])], wait)

=============================================================================
