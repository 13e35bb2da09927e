---------------------------- MODULE DesignMachine ----------------------------
(***************************************************************************)
(* The design as it is generated without redundancy, running without       *)
(* upsets.  The triplicated design must be indistinguishable from it.      *)
(***************************************************************************)
EXTENDS Design

CONSTANTS
  PowerUp,     \* what the data registers may hold when the run begins
  Env(_,_,_)   \* the inputs the surroundings may give, by states and data

VARIABLES
  cur_state,   \* the FSM register of every instance
  data         \* the data registers

designVars == <<cur_state, data>>

(***************************************************************************)
(* The nets when they have settled: registers reach ports directly, and    *)
(* the memory ports of a function that main calls reach the memory         *)
(* controller through main.                                                *)
(***************************************************************************)
ViewsOf(w, i) == [n \in Inst |-> View(n, cur_state, data, w, i)]

Settle(W, i) == {Outputs(V) : V \in {ViewsOf(w, i) : w \in W}}

Settled(i) == {ViewsOf(w, i) : w \in Settle(Settle({[p \in Port |-> Unset]}, i), i)}

Init ==
  /\ cur_state = [n \in Inst |-> LEGUP_0]
  /\ data \in PowerUp

(***************************************************************************)
(* A clock edge.  An FSM register stays where it is while the memory       *)
(* controller asks to wait; reset takes no part in the loading of data     *)
(* registers that do not test it.                                          *)
(***************************************************************************)
Tick(i) ==
  /\ Env(cur_state, data, i)
  /\ \E V \in Settled(i) :
       /\ cur_state' = [n \in Inst |-> IF i.reset THEN LEGUP_0
                                       ELSE IF i.wait THEN cur_state[n] ELSE NextCtl(n, V[n])]
       /\ data' = NextData(data, V, i.wait)

Next == \E i \in Input : Tick(i)

Spec == Init /\ [][Next]_designVars

=============================================================================
