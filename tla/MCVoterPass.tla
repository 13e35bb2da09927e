---------------------------- MODULE MCVoterPass -----------------------------
(* VoterPass on small data-flow graphs whose nodes have at most MaxUsers   *)
(* users and of which only node 0 may use itself.  In mode 2 every         *)
(* instruction has a user other than itself (so there is a cycle), 1 being *)
(* one of those of 0, and half the clock period as its delay: a chain is   *)
(* short when it has one instruction that no transition tests.             *)
EXTENDS VoterPass, TLC

CONSTANT MaxUsers

MCGraphs ==
  {g \in [Node -> {S \in SUBSET Node : Cardinality(S) <= MaxUsers}] :
     \A v \in Node \ {0} : v \notin g[v]}

\* at most one instruction is tested by a transition
MCConditions == {S \in SUBSET Node : Cardinality(S) <= 1}

MCPhiGraphs ==
  {g \in MCGraphs : 0 \notin g[0] /\ 1 \in g[0] /\ \A v \in Node : g[v] # {}}

\* the transitions test instruction 0, which may be anywhere in the graph
MCPhiConditions == {{0}}

\* basic blocks are interchangeable
MCSymmetry == Permutations(Block)

=============================================================================
