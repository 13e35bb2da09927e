--------------------------- MODULE MCCycleSearch ----------------------------
(* CycleSearch on every strongly connected graph of N nodes whose nodes    *)
(* have at most MaxUsers users and of which only node 0 may use itself.    *)
(* The nodes of the component are listed in ascending order: any other     *)
(* list is the ascending one of a graph with other numbers.                *)
EXTENDS CycleSearch

CONSTANT MaxUsers

MCGraphs ==
  {g \in [Node -> {S \in SUBSET Node : Cardinality(S) \in 1 .. MaxUsers}] :
     (\A v \in Node \ {0} : v \notin g[v]) /\ Components(g) = {Node}}

MCInit ==
  /\ graph \in Graphs
  /\ scc = [i \in 1 .. N |-> i-1]
  /\ BeginSearch

MCSpec == MCInit /\ [][Next]_vars /\ WF_vars(Next)

=============================================================================
