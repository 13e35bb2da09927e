------------------------------ MODULE TmrCalls -------------------------------
(***************************************************************************)
(* A design with a call, as createFunction lays it out, triplicated: what  *)
(* a call promises its caller, while upsets strike and the memory          *)
(* controller asks to wait.                                                *)
(*                                                                         *)
(* The design is main, the function f that it calls over and over, and the *)
(* memory controller.  Every register and net has one bit.                 *)
(*                                                                         *)
(*   main  LEGUP_0: wait for start                                         *)
(*         S:       raise f_start, hand over f_arg, forget the last result *)
(*         call:    f_start is lowered, until f_finish was seen            *)
(*         store:   write the result to memory;  i = 1 - i, a phi          *)
(*   f     LEGUP_0: wait for start;  finish is low                         *)
(*         load:    read the memory (if f uses it)                         *)
(*         body:    the return instruction                                 *)
(*                                                                         *)
(* A definition whose name continues that of the one after it is a         *)
(* plausible slip in the same code; the runs name it as a mutant and no    *)
(* action uses it.                                                         *)
(***************************************************************************)
EXTENDS TmrDesign

CONSTANT LoadsMemory   \* whether f reads the memory

ASSUME LoadsMemoryAssumption == LoadsMemory \in BOOLEAN

CallInst == {"main", "f", "memory_controller"}

CallCtl == {"LEGUP_0", "S", "call", "store", "load", "body"}

RegsOfMain == {"f_start", "f_arg", "f_finish_reg", "f_return_val_reg", "i"}
RegsOfF == {"finish", "return_val"}
RegsOfMemory == {"ram", "out"}

CallReg == RegsOfMain \cup RegsOfF \cup RegsOfMemory

CallHome ==
  [x \in CallReg |-> IF x \in RegsOfMain THEN "main"
                     ELSE IF x \in RegsOfF THEN "f" ELSE "memory_controller"]

\* registers that a stall holds: the phi, and the output of the memory
CallPhi == {"i", "out"}

(***************************************************************************)
(* The ports: of the call, and of the memory, which f reaches through      *)
(* main.  (Enable and address are one bit here.)                           *)
(***************************************************************************)
Arguments == {"start", "arg"}
Results   == {"finish", "return_val"}
ToMemory  == {"enable", "write_enable", "in"}

CallPort == Arguments \cup Results \cup ToMemory \cup {"f_enable", "out"}

CallFrom ==
  [p \in CallPort |-> IF p \in Arguments \cup ToMemory THEN "main"
                      ELSE IF p = "out" THEN "memory_controller" ELSE "f"]

CallTo ==
  [p \in CallPort |-> IF p \in Arguments THEN {"f"}
                      ELSE IF p \in ToMemory THEN {"memory_controller"}
                      ELSE IF p = "out" THEN {"main", "f"} ELSE {"main"}]

Bit(b) == IF b THEN 1 ELSE 0

(***************************************************************************)
(* connectStartSignal and createArgumentSignals make registers of the      *)
(* caller, finish and return_val are registers of f, and while main waits  *)
(* for f its memory ports are those of f.                                  *)
(***************************************************************************)
CallOut(p, v) ==
  CASE p = "start"        -> v.reg["f_start"]
    [] p = "arg"          -> v.reg["f_arg"]
    [] p \in Results      -> v.reg[p]
    [] p = "f_enable"     -> Bit(v.ctl = "load")
    [] p = "enable"       -> IF v.ctl = "call" THEN v.port["f_enable"] ELSE Bit(v.ctl = "store")
    [] p = "write_enable" -> Bit(v.ctl = "store")
    [] p = "in"           -> v.reg["f_return_val_reg"]
    [] p = "out"          -> v.reg["out"]

(***************************************************************************)
(* createStateTransitions and createFinishSignal: the state S of the call  *)
(* leads to the call state, which is left when finish was registered.  A   *)
(* wait state is left when start is high.                                  *)
(***************************************************************************)
FirstState == IF LoadsMemory THEN "load" ELSE "body"

MainNextUnregistered(v) ==
  CASE v.ctl = "LEGUP_0" -> IF v.in.start THEN "S" ELSE "LEGUP_0"
    [] v.ctl = "S"       -> "call"
    [] v.ctl = "call"    -> IF v.port["finish"] = 1 THEN "store" ELSE "call"
    [] OTHER             -> "S"

MainNext(v) ==
  CASE v.ctl = "LEGUP_0" -> IF v.in.start THEN "S" ELSE "LEGUP_0"
    [] v.ctl = "S"       -> "call"
    [] v.ctl = "call"    -> IF v.reg["f_finish_reg"] = 1 THEN "store" ELSE "call"
    [] OTHER             -> "S"

FNext(v) ==
  CASE v.ctl = "LEGUP_0" -> IF v.port["start"] = 1 THEN FirstState ELSE "LEGUP_0"
    [] v.ctl = "load"    -> "body"
    [] OTHER             -> "LEGUP_0"

CallNextCtl(n, v) ==
  CASE n = "main" -> MainNext(v)
    [] n = "f"    -> FNext(v)
    [] OTHER      -> "LEGUP_0"

(***************************************************************************)
(* When the registers are loaded.  The conditions of f_finish_reg and      *)
(* f_return_val_reg are reset or the state S, and finish; the memory       *)
(* controller loads what it is asked for.                                  *)
(***************************************************************************)
Forgets(v) == v.in.reset \/ v.ctl = "S"

CallLoadsKeeping(x, v) ==
  CASE x = "f_start"      -> v.ctl \in {"S", "call"}
    [] x = "f_arg"        -> v.ctl = "S"
    [] x \in {"f_finish_reg", "f_return_val_reg"} -> v.port["finish"] = 1
    [] x = "i"            -> v.ctl = "store" \/ (v.ctl = "LEGUP_0" /\ v.in.start)
    [] x = "finish"       -> v.ctl \in {"LEGUP_0", "body"}
    [] x = "return_val"   -> v.ctl = "body"
    [] x = "ram"          -> v.port["enable"] = 1 /\ v.port["write_enable"] = 1
    [] x = "out"          -> v.port["enable"] = 1

CallLoads(x, v) ==
  CASE x = "f_start"      -> v.ctl \in {"S", "call"}
    [] x = "f_arg"        -> v.ctl = "S"
    [] x \in {"f_finish_reg", "f_return_val_reg"} -> Forgets(v) \/ v.port["finish"] = 1
    [] x = "i"            -> v.ctl = "store" \/ (v.ctl = "LEGUP_0" /\ v.in.start)
    [] x = "finish"       -> v.ctl \in {"LEGUP_0", "body"}
    [] x = "return_val"   -> v.ctl = "body"
    [] x = "ram"          -> v.port["enable"] = 1 /\ v.port["write_enable"] = 1
    [] x = "out"          -> v.port["enable"] = 1

(***************************************************************************)
(* What they are loaded with.  Where finish is high its condition, the     *)
(* later one, decides.  visitReturnInst raises finish when there is no     *)
(* stall in a function that uses memory, which every one is taken to       *)
(* (functionRequiresMemory).                                               *)
(***************************************************************************)
Computed(v) == IF LoadsMemory THEN (v.port["arg"] + v.port["out"]) % 2 ELSE 1 - v.port["arg"]

CallDriver(x, v) ==
  CASE x = "f_start"          -> Bit(v.ctl = "S")
    [] x = "f_arg"            -> v.reg["i"]
    [] x = "f_finish_reg"     -> v.port["finish"]
    [] x = "f_return_val_reg" -> IF v.port["finish"] = 1 THEN v.port["return_val"] ELSE 0
    [] x = "i"                -> IF v.ctl = "store" THEN 1 - v.reg["i"] ELSE 0
    [] x = "finish"           -> Bit(v.ctl = "body" /\ ~v.in.wait)
    [] x = "return_val"       -> Computed(v)
    [] x = "ram"              -> v.port["in"]
    [] x = "out"              -> v.reg["ram"]

CallPowerUp == {[x \in CallReg |-> 0]}

CallInput == [start : BOOLEAN, wait : BOOLEAN, reset : BOOLEAN]

Started == {[start |-> TRUE, wait |-> FALSE, reset |-> FALSE]}

(***************************************************************************)
(* What the surroundings may not do.  f_start is high for one clock after  *)
(* S, stalled or not, and no register but the FSM's tests reset: a stall   *)
(* that begins in that clock, before f has left LEGUP_0, loses the call,   *)
(* and a reset in the middle of a call leaves f_start as it is.            *)
(***************************************************************************)
StartPending(c, d) == c["main"] = "call" /\ c["f"] = "LEGUP_0" /\ d["f_start"] = 1

CallEnv(c, d, i) ==
  /\ i.wait => ~StartPending(c, d)
  /\ i.reset => c["main"] = "LEGUP_0"

-----------------------------------------------------------------------------

State == MajorityOfStates(cur_state)

Bits == MajorityOfBits(data)

(***************************************************************************)
(* "calling semantics: 1) assign inputs, set start=1 2) wait until         *)
(* finish=1": when main goes on, f has run for this call and is ready for  *)
(* the next, and the result is that of the argument of this call.          *)
(***************************************************************************)
CallReturnedItsValue ==
  State["main"] = "store" =>
    State["f"] = "LEGUP_0" /\ Bits["f_return_val_reg"] = 1 - Bits["i"]

(***************************************************************************)
(* Every call comes to an end.                                             *)
(***************************************************************************)
CallsReturn == (State["main"] = "call") ~> (State["main"] = "store")

(***************************************************************************)
(* What CallReturnedItsValue takes of the constants of the design: they    *)
(* are the ones above, and the surroundings keep to CallEnv.               *)
(***************************************************************************)
CallDesign ==
  /\ Inst = CallInst /\ Ctl = CallCtl /\ LEGUP_0 = "LEGUP_0"
  /\ Reg = CallReg /\ PhiReg = CallPhi /\ Home = CallHome
  /\ Port = CallPort /\ From = CallFrom /\ To = CallTo
  /\ Value = {0, 1} /\ Unset = 0
  /\ Input = CallInput /\ PowerUp = CallPowerUp
  /\ \A n \in Inst : \A v \in Views(n) : NextCtl(n, v) = CallNextCtl(n, v)
  /\ \A x \in Reg : \A v \in Views(Home[x]) :
       (Loads(x, v) <=> CallLoads(x, v)) /\ Driver(x, v) = CallDriver(x, v)
  /\ \A p \in Port : \A v \in Views(From[p]) : Out(p, v) = CallOut(p, v)
  /\ \A c \in [Inst -> Ctl], d \in Data, i \in Input : Env(c, d, i) => CallEnv(c, d, i)

=============================================================================
