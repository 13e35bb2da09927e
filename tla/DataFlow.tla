------------------------------ MODULE DataFlow ------------------------------
(***************************************************************************)
(* The data-flow graph that LegUp's sync-voter pass searches (IntGraph of  *)
(* utils.h, built by SchedulerDAG::makeDFG), and what paths, cycles and    *)
(* strongly connected components of such a graph are.                      *)
(*                                                                         *)
(* Instructions are numbered 0 .. N-1, as makeDFG numbers them.  A graph g *)
(* maps an instruction to the set of its users: v \in g[u] when u is an    *)
(* operand of v.  The order of an adjacency list is the order of a         *)
(* std::map keyed by addresses, so it is left open.                        *)
(***************************************************************************)
EXTENDS Integers, Sequences, FiniteSets

CONSTANT N           \* number of instructions in the graph

ASSUME NAssumption == N \in Nat \ {0}

Node == 0 .. N-1

Graph == [Node -> SUBSET Node]

(***************************************************************************)
(* Every edge turned around (IntGraph::getTranspose).                      *)
(***************************************************************************)
Transpose(g) == [v \in Node |-> {u \in Node : v \in g[u]}]

IsClosed(g, S) == \A u \in S : g[u] \subseteq S

(***************************************************************************)
(* The nodes that can be reached from u, u among them: the least set that  *)
(* holds u and is closed under the edges of g.                             *)
(***************************************************************************)
ReachableFrom(g, u) ==
  {v \in Node : \A S \in SUBSET Node : u \in S /\ IsClosed(g, S) => v \in S}

(***************************************************************************)
(* The strongly connected component of u.                                  *)
(***************************************************************************)
Component(g, u) == {v \in ReachableFrom(g, u) : u \in ReachableFrom(g, v)}

Components(g) == {Component(g, u) : u \in Node}

(***************************************************************************)
(* Paths are sequences of nodes.                                           *)
(***************************************************************************)
Distinct(p) == \A i, j \in DOMAIN p : p[i] = p[j] => i = j

IsPath(g, p) == \A i \in 1 .. Len(p)-1 : p[i+1] \in g[p[i]]

(***************************************************************************)
(* An elementary cycle, written from one of its nodes: no node twice, and  *)
(* an edge from the last node to the first.                                *)
(***************************************************************************)
IsElementaryCycle(g, c) ==
  /\ c \in Seq(Node)
  /\ c # << >>
  /\ Distinct(c)
  /\ IsPath(g, c)
  /\ c[1] \in g[c[Len(c)]]

ElementaryCycles(g) ==
  {c \in UNION {[1 .. n -> Node] : n \in 1 .. N} : IsElementaryCycle(g, c)}

NodesOf(c) == {c[i] : i \in DOMAIN c}

=============================================================================
