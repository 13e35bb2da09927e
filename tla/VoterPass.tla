----------------------------- MODULE VoterPass ------------------------------
(***************************************************************************)
(* The sync-voter pass as it is configured: runOnFunction of SchedulerDAG  *)
(* calls insertSyncVoter when SYNC_VOTER_MODE is 1 and                     *)
(* insertSyncVoterDFS when it is 2, both leave their cycles in InstCycles, *)
(* and one function chooses the voters.                                    *)
(***************************************************************************)
EXTENDS VoterSelect

CONSTANTS
  Graphs, Conditions,         \* what SYNC_VOTER_MODE 1 may be given
  PhiGraphs, PhiConditions,   \* what SYNC_VOTER_MODE 2 may be given
  PhiDelay,
  Block                       \* the basic blocks of a function

ASSUME GraphsAssumption == Graphs \subseteq Graph
ASSUME ConditionsAssumption == Conditions \cup PhiConditions \subseteq SUBSET Node
ASSUME ModeTwoAssumption == PhiGraphs \subseteq Graphs /\ PhiDelay \subseteq Delay

VARIABLES
  SYNC_VOTER_MODE,
  stage, graph,
  phase, visited, sccFrames, order, partial, sccs, todo,   \* mode 1:
  scc, start, frames, blocked, fruitless, cycles,
  phis, opaque, block, lone, roots, walk, walked           \* mode 2

mode1Vars == <<phase, visited, sccFrames, order, partial, sccs, todo,
               scc, start, frames, blocked, fruitless, cycles>>
mode2Vars == <<phis, opaque, block, lone, roots, walk, walked>>
vars      == <<SYNC_VOTER_MODE, stage, graph, mode1Vars, mode2Vars, selectVars>>

Mode1 == INSTANCE SyncVoter

Mode2 == INSTANCE SyncVoterDFS
           WITH Graphs <- PhiGraphs, Conditions <- PhiConditions, Delay <- PhiDelay,
                frames <- walk, visited <- walked

(***************************************************************************)
(* What the pass that is not configured leaves alone.                      *)
(***************************************************************************)
Mode1Idle ==
  /\ phase = "fill" /\ visited = {} /\ sccFrames = << >> /\ order = << >>
  /\ partial = << >> /\ sccs = {} /\ todo = {}
  /\ scc = << >> /\ start = 1 /\ frames = << >> /\ blocked = {} /\ cycles = {}
  /\ fruitless = << >>

Mode2Idle ==
  /\ phis = {} /\ opaque = {} /\ lone = {}
  /\ block = << >>
  /\ roots = {} /\ walk = << >> /\ walked = {}

Init ==
  \/ SYNC_VOTER_MODE = 1 /\ Mode1!Init /\ Mode2Idle
  \/ SYNC_VOTER_MODE = 2 /\ Mode2!Init /\ Mode1Idle

Next ==
  /\ \/ SYNC_VOTER_MODE = 1 /\ Mode1!Next /\ UNCHANGED mode2Vars
     \/ SYNC_VOTER_MODE = 2 /\ Mode2!Next /\ UNCHANGED mode1Vars
  /\ UNCHANGED SYNC_VOTER_MODE

Spec == Init /\ [][Next]_vars /\ WF_vars(Next)

-----------------------------------------------------------------------------

TypeOK ==
  /\ SYNC_VOTER_MODE = 1 => Mode1!TypeOK
  /\ SYNC_VOTER_MODE = 2 => Mode2!TypeOK

(***************************************************************************)
(* Both modes do what VoterCover promises of a voter: it stands on a       *)
(* feedback cycle.  In mode 1 the pass reports that it is done only when   *)
(* every such cycle has one; mode 2 does not promise that.                 *)
(***************************************************************************)
Cover ==
  INSTANCE VoterCover WITH FeedbackCycles <- Mode1!FeedbackCycles,
                           complete <- SYNC_VOTER_MODE = 1 /\ stage = "done"

ImplementsCover == Cover!Spec

(***************************************************************************)
(* The properties of the two modes, which SyncVoter and SyncVoterDFS       *)
(* state.                                                                  *)
(***************************************************************************)
AllComponentsFound == SYNC_VOTER_MODE = 1 => Mode1!AllComponentsFound

CrossingIsVoted == SYNC_VOTER_MODE = 1 => Mode1!CrossingIsVoted

SingleStateCyclesVotedThroughout ==
  SYNC_VOTER_MODE = 1 => Mode1!SingleStateCyclesVotedThroughout

EveryPhiServed == SYNC_VOTER_MODE = 2 => Mode2!EveryPhiServed

SimpleLoopsVoted == SYNC_VOTER_MODE = 2 => Mode2!SimpleLoopsVoted

=============================================================================
