----------------------------- MODULE FsmControl ------------------------------
(***************************************************************************)
(* The FSM of a generated module, from the schedule to the Verilog:        *)
(* createFSM and setStateTransitions lay out states and transitions,       *)
(* generateDatapath and generateTransition turn them into conditions of    *)
(* cur_state and of the phi registers, and printConditions or, with        *)
(* CASE_FSM, printCaseFSM prints the clocked process, which then runs.     *)
(*                                                                         *)
(* A definition whose name continues that of the one after it is a         *)
(* plausible slip in the same code; the runs name it as a mutant and no    *)
(* action uses it.                                                         *)
(***************************************************************************)
EXTENDS FunctionIR

CONSTANTS
  Functions,   \* the functions that are compiled
  CASE_FSM     \* whether the FSM is printed as a case statement

ASSUME FunctionAssumption == \A f \in Functions : IsFunction(f)
ASSUME CaseAssumption == CASE_FSM \in BOOLEAN

Input == [reset : BOOLEAN, wait : BOOLEAN, start : BOOLEAN, value : Value]

VARIABLES
  func,        \* the function
  cur_state,   \* the FSM register: a block and the number of a state of it
  phi,         \* the phi registers: the block whose value each holds
  in           \* the inputs at the last clock edge

vars == <<func, cur_state, phi, in>>

-----------------------------------------------------------------------------
(***************************************************************************)
(* createFSM: a wait state, and for every block but an empty first one the *)
(* scheduled states, with more at the end where an instruction of several  *)
(* cycles would not finish in the block otherwise.                         *)
(***************************************************************************)
WaitState == <<Idle, 0>>

FirstState(b) == <<b, 0>>

LastStateScheduled(f, b) == f.blocks[b].states

LastState(f, b) ==
  Max({f.blocks[b].states} \cup {x.order + x.latency : x \in f.blocks[b].insts})

isEmptyFirstBB(f, b) == b = EntryBlock /\ HasNoInstructions(f, b)

States(f) ==
  {WaitState} \cup
    UNION {{b} \X (0 .. LastState(f, b)) : b \in {c \in Blocks(f) : ~isEmptyFirstBB(f, c)}}

(***************************************************************************)
(* The transitions of a state: those with a value (0 for the true branch,  *)
(* which has none), and the default.                                       *)
(***************************************************************************)
setStateTransitions(f, b) ==
  LET t == f.blocks[b].term IN
    IF t.kind = "ret"
    THEN [values |-> << >>, states |-> << >>, default |-> WaitState]
    ELSE [values  |-> [k \in DOMAIN t.cases |-> IF t.kind = "switch" THEN t.cases[k].value ELSE 0],
          states  |-> [k \in DOMAIN t.cases |-> FirstState(t.cases[k].dest)],
          default |-> FirstState(t.default)]

Transition(f, s) ==
  IF s = WaitState
  THEN [values |-> <<0>>, default |-> WaitState,
        states |-> <<FirstState(IF isEmptyFirstBB(f, EntryBlock)
                                THEN f.blocks[EntryBlock].term.default ELSE EntryBlock)>>]
  ELSE IF s[2] < LastState(f, s[1])
  THEN [values |-> << >>, states |-> << >>, default |-> <<s[1], s[2] + 1>>]
  ELSE setStateTransitions(f, s[1])

IsTerminating(f, s) ==
  IF s = WaitState THEN isEmptyFirstBB(f, EntryBlock) ELSE s[2] = LastState(f, s[1])

BasicBlock(s) == IF s = WaitState THEN EntryBlock ELSE s[1]

-----------------------------------------------------------------------------
(***************************************************************************)
(* generateTransition: the conditions under which a state is left, as sets *)
(* of comparisons of its transition variable, with the state each leads    *)
(* to.  Two transitions are taken for a conditional branch.                *)
(***************************************************************************)
generateTransition(f, s) ==
  LET t == Transition(f, s)
      n == Len(t.states) + 1
  IN  CASE n = 1 -> <<[tests |-> {}, driver |-> t.default]>>
        [] n = 2 -> <<[tests |-> {<<"EQ", 1>>}, driver |-> t.states[1]],
                      [tests |-> {<<"EQ", 0>>}, driver |-> t.default]>>
        [] OTHER ->
             Append([k \in DOMAIN t.states |->
                       [tests |-> {<<"EQ", t.values[k]>>}, driver |-> t.states[k]]],
                    [tests |-> {<<"NE", t.values[k]>> : k \in DOMAIN t.values},
                     driver |-> t.default])

(***************************************************************************)
(* functionRequiresMemory ends with "return true": the waitrequest input   *)
(* is there in a function without loads and stores as well.                *)
(***************************************************************************)
functionRequiresMemoryIfUsed(f) == f.mem

functionRequiresMemory(f) == TRUE

(***************************************************************************)
(* generateDatapath: while the state is waiting it leads to itself, and it *)
(* is left only when it is not.  low says that a condition also tests      *)
(* waitrequest for zero.                                                   *)
(***************************************************************************)
Conditions(f, s) ==
  LET leaving == generateTransition(f, s) IN
    IF functionRequiresMemory(f)
    THEN <<[tests |-> {}, driver |-> s, wait |-> "high"]>> \o
           [k \in DOMAIN leaving |-> [tests  |-> leaving[k].tests,
                                      driver |-> leaving[k].driver, wait |-> "low"]]
    ELSE [k \in DOMAIN leaving |-> [tests  |-> leaving[k].tests,
                                    driver |-> leaving[k].driver, wait |-> "any"]]

(***************************************************************************)
(* The transition variable of a state: start, a bit, or a switch operand.  *)
(***************************************************************************)
TransitionOp(f, s, i) ==
  IF s = WaitState THEN (IF i.start THEN 1 ELSE 0)
  ELSE IF f.blocks[s[1]].term.kind = "condbr" THEN i.value % 2
  ELSE i.value

TestsHold(c, v) ==
  \A t \in c.tests : IF t[1] = "EQ" THEN v = t[2] ELSE v # t[2]

Holds(c, v, wait) ==
  /\ TestsHold(c, v)
  /\ c.wait = "high" => wait
  /\ c.wait = "low" => ~wait

-----------------------------------------------------------------------------
(***************************************************************************)
(* printConditions: one "if" per condition, so that the last one that      *)
(* holds decides; that of reset comes last.                                *)
(***************************************************************************)
PlainNextState(f, s, i) ==
  LET cs   == Conditions(f, s)
      true == {k \in DOMAIN cs : Holds(cs[k], TransitionOp(f, s, i), i.wait)}
  IN  IF i.reset THEN WaitState
      ELSE IF true = {} THEN s
      ELSE cs[Max(true)].driver

(***************************************************************************)
(* printCaseFSM: the clocked part takes care of reset and waitrequest.     *)
(* What it prints for a state depends on how many conditions the state     *)
(* has: with two it is taken to be left unconditionally, to the driver     *)
(* that is not the state itself (the first time); otherwise the conditions *)
(* that lead elsewhere are tried in turn, waitrequest being left out.      *)
(***************************************************************************)
next_stateOfFirst(f, s, v) ==
  LET cs    == Conditions(f, s)
      moves == {k \in DOMAIN cs : cs[k].driver # s /\ TestsHold(cs[k], v)}
  IN  IF Len(cs) = 2 THEN cs[1].driver
      ELSE IF moves = {} THEN s
      ELSE cs[Min(moves)].driver

next_state(f, s, v) ==
  LET cs    == Conditions(f, s)
      moves == {k \in DOMAIN cs : cs[k].driver # s /\ TestsHold(cs[k], v)}
  IN  IF Len(cs) = 2 THEN (IF cs[1].driver # s THEN cs[1].driver ELSE cs[2].driver)
      ELSE IF moves = {} THEN s
      ELSE cs[Min(moves)].driver

CaseNextState(f, s, i) ==
  IF i.reset THEN WaitState
  ELSE IF functionRequiresMemory(f) /\ i.wait THEN s
  ELSE next_state(f, s, TransitionOp(f, s, i))

(***************************************************************************)
(* generatePHICopiesForSuccessor: the phis of the block a terminating      *)
(* state leads to are loaded under the condition of that transition, with  *)
(* what they take from the block of the state; reset is not looked at.     *)
(***************************************************************************)
PhiCopies(f, s, i) ==
  LET cs   == Conditions(f, s)
      true == {k \in DOMAIN cs : /\ cs[k].wait # "high"
                                 /\ Holds(cs[k], TransitionOp(f, s, i), i.wait)}
  IN  IF IsTerminating(f, s) THEN {cs[k].driver[1] : k \in true} \ {Idle} ELSE {}

-----------------------------------------------------------------------------

Init ==
  /\ func \in Functions
  /\ cur_state = WaitState
  /\ phi = [b \in Blocks(func) |-> Idle]
  /\ in \in Input

(***************************************************************************)
(* A clock edge.                                                           *)
(***************************************************************************)
Tick(i) ==
  /\ in' = i
  /\ cur_state' = IF CASE_FSM THEN CaseNextState(func, cur_state, i)
                              ELSE PlainNextState(func, cur_state, i)
  /\ phi' = [b \in Blocks(func) |->
               IF b \in PhiCopies(func, cur_state, i) THEN BasicBlock(cur_state) ELSE phi[b]]
  /\ UNCHANGED func

Next == \E i \in Input : Tick(i)

(***************************************************************************)
(* The clock goes on (a tick is always possible, so that this is weak      *)
(* fairness of Next), and no stall or reset lasts for ever.                *)
(***************************************************************************)
Unstalled == ~in.wait /\ ~in.reset

Fairness == []<><<in' \in Input>>_vars /\ []<>Unstalled

Spec == Init /\ [][Next]_vars /\ Fairness

-----------------------------------------------------------------------------

TypeOK ==
  /\ func \in Functions
  /\ cur_state \in States(func)
  /\ phi \in [Blocks(func) -> {Idle} \cup Blocks(func)]
  /\ in \in Input

(***************************************************************************)
(* The case statement, which guesses the shape of a transition from the    *)
(* number of conditions and drops some of them, and the plain conditions   *)
(* lead to the same state, whatever the inputs.                            *)
(***************************************************************************)
BothFormsAgree ==
  \A i \in Input : CaseNextState(func, cur_state, i) = PlainNextState(func, cur_state, i)

(***************************************************************************)
(* The FSM walks the control-flow graph, and phis follow the edge taken.   *)
(***************************************************************************)
Flow == INSTANCE ControlFlow WITH block <- cur_state[1], spent <- cur_state[2]

ImplementsControlFlow == Flow!Spec

(***************************************************************************)
(* Every block that does not lead to itself is left in the end.            *)
(***************************************************************************)
LeadsToItself(b) == b \in Destinations(func.blocks[b].term)

BlocksAreLeft ==
  \A b \in 1 .. Max({Len(f.blocks) : f \in Functions}) :
    (cur_state[1] = b /\ ~LeadsToItself(b)) ~> (cur_state[1] # b)

=============================================================================
