---------------------------- MODULE SyncVoterDFS ----------------------------
(***************************************************************************)
(* The sync-voter pass in SYNC_VOTER_MODE 2 from end to end: the walks of  *)
(* insertSyncVoterDFS (PhiSearch) and, after scheduling, the choice of one *)
(* instruction per recorded list (VoterSelect).  The lists are sorted by   *)
(* address, so neighbours in a list need not depend on each other.         *)
(***************************************************************************)
EXTENDS VoterSelect

CONSTANTS
  Graphs,     \* the data-flow graphs the pass may be given
  Block,      \* the basic blocks of the function
  Conditions  \* the sets of instructions the transitions may test

VARIABLES
  stage,                                   \* what the pass is doing
  graph, phis, opaque, block, lone,        \* the function
  roots, frames, visited                   \* the walks

Phi == INSTANCE PhiSearch

functionVars == <<graph, phis, opaque, block, lone>>
walkVars     == <<roots, frames, visited>>
vars         == <<stage, functionVars, walkVars, selectVars>>

Init ==
  /\ stage = "search"
  /\ Phi!Init
  /\ pending = {} /\ voted = {}
  /\ startState = [u \in Node |-> CHOOSE s \in State : TRUE]
  /\ delay = [u \in Node |-> CHOOSE d \in Delay : TRUE]
  /\ sensitive = {}

Search ==
  /\ stage = "search"
  /\ Phi!Step
  /\ pending' = pending \cup (instCycles' \ instCycles)
  /\ UNCHANGED <<stage, startState, delay, sensitive, voted>>

Schedule ==
  /\ stage = "search" /\ Phi!Done
  /\ stage' = "select"
  /\ startState' \in [Node -> State]
  /\ delay' \in [Node -> Delay]
  /\ sensitive' \in Conditions
  /\ UNCHANGED <<functionVars, walkVars, instCycles, pending, voted>>

SelectVoter ==
  /\ stage = "select"
  /\ SetVoterFlag
  /\ UNCHANGED <<stage, functionVars, walkVars>>

Finish ==
  /\ stage = "select" /\ pending = {}
  /\ stage' = "done"
  /\ UNCHANGED <<functionVars, walkVars, selectVars>>

Terminated == stage = "done" /\ UNCHANGED vars

Next == Search \/ Schedule \/ SelectVoter \/ Finish \/ Terminated

Spec == Init /\ [][Next]_vars /\ WF_vars(Next)

-----------------------------------------------------------------------------

TypeOK ==
  /\ stage \in {"search", "select", "done"}
  /\ Phi!TypeOK
  /\ SelectTypeOK

(***************************************************************************)
(* No phi on a feedback cycle is missed by the walks.                      *)
(***************************************************************************)
EveryPhiServed == Phi!EveryPhiServed

(***************************************************************************)
(* The guarantee that one recorded cycle per phi can give: a feedback      *)
(* cycle some phi of which lies on no other cycle gets a voter.  (A phi    *)
(* with several cycles, such as an accumulator updated on two branches,    *)
(* has only the first one found voted.)                                    *)
(***************************************************************************)
OnlyCycleOf(p, c) ==
  \A d \in Phi!OpenCycles : p \in NodesOf(d) => NodesOf(d) = NodesOf(c)

SimpleLoopsVoted ==
  stage = "done" =>
    \A c \in Phi!OpenCycles :
      (\E p \in NodesOf(c) \cap phis : OnlyCycleOf(p, c)) => NodesOf(c) \cap voted # {}

=============================================================================
