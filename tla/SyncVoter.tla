----------------------------- MODULE SyncVoter ------------------------------
(***************************************************************************)
(* The sync-voter pass in SYNC_VOTER_MODE 1 from end to end:               *)
(* insertSyncVoter splits the data-flow graph into components (SccSearch), *)
(* searches each of at least two nodes for cycles (CycleSearch) and        *)
(* appends them to InstCycles; later, when the function is scheduled and   *)
(* its RTL generated, setSyncVoterFlagWithLatency marks one instruction of *)
(* each cycle (VoterSelect).                                               *)
(***************************************************************************)
EXTENDS VoterSelect

CONSTANTS
  Graphs,     \* the data-flow graphs the pass may be given
  Conditions  \* the sets of instructions the transitions may test

VARIABLES
  stage,       \* what the pass is doing
  graph,       \* the data-flow graph
  phase, visited, sccFrames, order, partial, sccs,     \* getSCCs
  todo,        \* the components insertSyncVoter has not reached yet
  scc, start, frames, blocked, fruitless, cycles       \* the cycle search

sccVars    == <<phase, visited, sccFrames, order, partial, sccs>>
cycleVars  == <<scc, start, frames, blocked, fruitless, cycles>>
vars       == <<stage, graph, sccVars, todo, cycleVars, selectVars>>

Scc   == INSTANCE SccSearch WITH frames <- sccFrames, scc <- partial
Cycle == INSTANCE CycleSearch

Init ==
  /\ stage = "components"
  /\ Scc!Init
  /\ todo = {}
  /\ scc = << >>
  /\ Cycle!BeginSearch
  /\ instCycles = {} /\ pending = {} /\ voted = {}
  /\ startState = [u \in Node |-> CHOOSE s \in State : TRUE]
  /\ delay = [u \in Node |-> CHOOSE d \in Delay : TRUE]
  /\ sensitive = {}

FindComponents ==
  /\ stage = "components"
  /\ Scc!Next
  /\ IF phase' = "done"
     THEN stage' = "pick" /\ todo' = sccs
     ELSE UNCHANGED <<stage, todo>>
  /\ UNCHANGED <<cycleVars, selectVars>>

(***************************************************************************)
(* The loop of insertSyncVoter over the components: one with a single node *)
(* is left out, for any other the search starts afresh.                    *)
(***************************************************************************)
PickComponentOfThree ==
  /\ stage = "pick"
  /\ \E s \in todo :
       /\ todo' = todo \ {s}
       /\ IF Len(s) <= 2
          THEN UNCHANGED <<stage, cycleVars>>
          ELSE /\ stage' = "search"
               /\ scc' = s
               /\ start' = 1 /\ frames' = << >> /\ blocked' = {} /\ cycles' = {}
               /\ fruitless' = [v \in Node |-> {}]
  /\ UNCHANGED <<graph, sccVars, selectVars>>

PickComponent ==
  /\ stage = "pick"
  /\ \E s \in todo :
       /\ todo' = todo \ {s}
       /\ IF Len(s) <= 1
          THEN UNCHANGED <<stage, cycleVars>>
          ELSE /\ stage' = "search"
               /\ scc' = s
               /\ start' = 1 /\ frames' = << >> /\ blocked' = {} /\ cycles' = {}
               /\ fruitless' = [v \in Node |-> {}]
  /\ UNCHANGED <<graph, sccVars, selectVars>>

SearchCycles ==
  /\ stage = "search"
  /\ Cycle!Step
  /\ UNCHANGED <<stage, sccVars, todo, selectVars>>

(***************************************************************************)
(* The cycles of the component are appended to InstCycles.                 *)
(***************************************************************************)
RecordCycles ==
  /\ stage = "search"
  /\ Cycle!Done
  /\ instCycles' = instCycles \cup cycles
  /\ pending' = pending \cup cycles
  /\ stage' = "pick"
  /\ UNCHANGED <<graph, sccVars, todo, cycleVars, startState, delay, sensitive, voted>>

(***************************************************************************)
(* The function is scheduled after the search and before the selection:    *)
(* any start states, delays and FSM conditions may come out.               *)
(***************************************************************************)
Schedule ==
  /\ stage = "pick" /\ todo = {}
  /\ stage' = "select"
  /\ startState' \in [Node -> State]
  /\ delay' \in [Node -> Delay]
  /\ sensitive' \in Conditions
  /\ UNCHANGED <<graph, sccVars, todo, cycleVars, instCycles, pending, voted>>

SelectVoter ==
  /\ stage = "select"
  /\ SetVoterFlag
  /\ UNCHANGED <<stage, graph, sccVars, todo, cycleVars>>

Finish ==
  /\ stage = "select" /\ pending = {}
  /\ stage' = "done"
  /\ UNCHANGED <<graph, sccVars, todo, cycleVars, selectVars>>

Terminated == stage = "done" /\ UNCHANGED vars

Next ==
  \/ FindComponents \/ PickComponent \/ SearchCycles \/ RecordCycles
  \/ Schedule \/ SelectVoter \/ Finish
  \/ Terminated

Spec == Init /\ [][Next]_vars /\ WF_vars(Next)

-----------------------------------------------------------------------------

TypeOK ==
  /\ stage \in {"components", "pick", "search", "select", "done"}
  /\ Scc!TypeOK
  /\ Cycle!TypeOK
  /\ todo \subseteq sccs
  /\ SelectTypeOK

(***************************************************************************)
(* The two passes of getSCCs, which nothing else in the program tests,     *)
(* return every component, each once.                                      *)
(***************************************************************************)
AllComponentsFound == Scc!AllComponentsFound

(***************************************************************************)
(* The cycles that need a voter: all that run inside a component of at     *)
(* least two nodes.  (A node that only uses itself, a trivial phi, is a    *)
(* component of its own, which the pass skips.)                            *)
(***************************************************************************)
FeedbackCycles(g) ==
  {c \in ElementaryCycles(g) : Cardinality(Component(g, c[1])) >= 2}

(***************************************************************************)
(* Where the reading past the end cannot hurt: every rotation of a cycle   *)
(* is recorded, so a feedback cycle that spans several states gets a voter *)
(* on an instruction whose successor on the cycle starts in another state, *)
(* which is where a register separates the two.                            *)
(***************************************************************************)
Spans(c) == \E i, j \in DOMAIN c : startState[c[i]] # startState[c[j]]

Following(c, i) == IF i = Len(c) THEN c[1] ELSE c[i+1]

CrossingIsVoted ==
  stage = "done" =>
    \A c \in FeedbackCycles(graph) : Spans(c) =>
      \E i \in DOMAIN c : /\ c[i] \in voted
                          /\ startState[c[i]] # startState[Following(c, i)]

(***************************************************************************)
(* A feedback cycle whose instructions all start in one state, which looks *)
(* like a combinational loop to the selection, is voted at every           *)
(* instruction, the phi among them; the register of a phi is always what   *)
(* its users read, so the voter does cut the loop.                         *)
(***************************************************************************)
SingleStateCyclesVotedThroughout ==
  stage = "done" =>
    \A c \in FeedbackCycles(graph) : ~Spans(c) => NodesOf(c) \subseteq voted

=============================================================================
