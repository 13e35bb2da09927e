----------------------------- MODULE SccSearch ------------------------------
(***************************************************************************)
(* IntGraph::getSCCs of utils.cpp: the strongly connected components of a  *)
(* function's data-flow graph, found by two depth-first passes.  The first *)
(* (fillOrder) pushes every node when all it reaches has been pushed, the  *)
(* second (getSCC) walks the transposed graph from the nodes as they are   *)
(* popped.  insertSyncVoter looks for cycles inside these components only. *)
(*                                                                         *)
(* A definition whose name continues that of the one after it is a         *)
(* plausible slip in the same code; the runs name it as a mutant and no    *)
(* action uses it.                                                         *)
(***************************************************************************)
EXTENDS DataFlow

CONSTANT Graphs      \* the data-flow graphs the pass may be given

VARIABLES
  graph,    \* the data-flow graph
  phase,    \* "fill" the order, "collect" the components, "done"
  visited,  \* the nodes the current pass has visited
  frames,   \* the active calls of fillOrder or of getSCC, the innermost last
  order,    \* Stack: the nodes that fillOrder has finished, the top last
  scc,      \* the component getSCC is collecting
  sccs      \* the components found

vars == <<graph, phase, visited, frames, order, scc, sccs>>

Frame == [node : Node, todo : SUBSET Node]

Top == frames[Len(frames)]

PopLast(s) == SubSeq(s, 1, Len(s)-1)

Init ==
  /\ graph \in Graphs
  /\ phase = "fill"
  /\ visited = {}
  /\ frames = << >>
  /\ order = << >>
  /\ scc = << >>
  /\ sccs = {}

(***************************************************************************)
(* The first loop: fillOrder(i) for the lowest node not visited yet.       *)
(***************************************************************************)
FillFrom ==
  /\ phase = "fill" /\ frames = << >> /\ visited # Node
  /\ LET i == CHOOSE v \in Node \ visited : \A u \in Node \ visited : v <= u
     IN  /\ visited' = visited \cup {i}
         /\ frames' = <<[node |-> i, todo |-> graph[i]]>>
  /\ UNCHANGED <<graph, phase, order, scc, sccs>>

(***************************************************************************)
(* One iteration of the loop over the neighbours, in either pass: a        *)
(* neighbour that is not visited is called, a visited one passed over.     *)
(***************************************************************************)
VisitWith(g, w) ==
  /\ frames # << >>
  /\ w \in Top.todo
  /\ LET rest == [frames EXCEPT ![Len(frames)].todo = @ \ {w}]
     IN  IF w \in visited
         THEN frames' = rest /\ UNCHANGED <<visited>>
         ELSE /\ frames' = Append(rest, [node |-> w, todo |-> g[w]])
              /\ visited' = visited \cup {w}

FillVisit(w) ==
  /\ phase = "fill"
  /\ VisitWith(graph, w)
  /\ UNCHANGED <<graph, phase, order, scc, sccs>>

(***************************************************************************)
(* fillOrder returns: everything reachable has been processed, push.       *)
(***************************************************************************)
FillReturn ==
  /\ phase = "fill" /\ frames # << >> /\ Top.todo = {}
  /\ order' = Append(order, Top.node)
  /\ frames' = PopLast(frames)
  /\ UNCHANGED <<graph, phase, visited, scc, sccs>>

(***************************************************************************)
(* The visited flags are cleared between the passes.                       *)
(***************************************************************************)
Reverse ==
  /\ phase = "fill" /\ frames = << >> /\ visited = Node
  /\ phase' = "collect"
  /\ visited' = {}
  /\ UNCHANGED <<graph, frames, order, scc, sccs>>

(***************************************************************************)
(* The graph that getSCC walks.                                            *)
(***************************************************************************)
ReversedForgotten == graph

Reversed == Transpose(graph)

(***************************************************************************)
(* The second loop pops a node; getSCC starts from it unless an earlier    *)
(* component already took it.                                              *)
(***************************************************************************)
PopNode ==
  /\ phase = "collect" /\ frames = << >> /\ order # << >>
  /\ LET v == order[Len(order)]
     IN  IF v \in visited
         THEN UNCHANGED <<visited, frames, scc>>
         ELSE /\ visited' = visited \cup {v}
              /\ frames' = <<[node |-> v, todo |-> Reversed[v]]>>
              /\ scc' = <<v>>
  /\ order' = PopLast(order)
  /\ UNCHANGED <<graph, phase, sccs>>

CollectVisit(w) ==
  /\ phase = "collect"
  /\ VisitWith(Reversed, w)
  /\ scc' = IF w \in visited THEN scc ELSE Append(scc, w)
  /\ UNCHANGED <<graph, phase, order, sccs>>

(***************************************************************************)
(* getSCC returns; when the outermost call does, the component is stored.  *)
(***************************************************************************)
CollectReturn ==
  /\ phase = "collect" /\ frames # << >> /\ Top.todo = {}
  /\ frames' = PopLast(frames)
  /\ IF Len(frames) = 1
     THEN sccs' = sccs \cup {scc} /\ scc' = << >>
     ELSE UNCHANGED <<scc, sccs>>
  /\ UNCHANGED <<graph, phase, visited, order>>

Finish ==
  /\ phase = "collect" /\ frames = << >> /\ order = << >>
  /\ phase' = "done"
  /\ UNCHANGED <<graph, visited, frames, order, scc, sccs>>

Terminated == phase = "done" /\ UNCHANGED vars

Next ==
  \/ FillFrom \/ FillReturn \/ Reverse
  \/ PopNode \/ CollectReturn \/ Finish
  \/ \E w \in Node : FillVisit(w) \/ CollectVisit(w)
  \/ Terminated

Spec == Init /\ [][Next]_vars /\ WF_vars(Next)

-----------------------------------------------------------------------------

TypeOK ==
  /\ graph \in Graphs
  /\ phase \in {"fill", "collect", "done"}
  /\ visited \subseteq Node
  /\ frames \in Seq(Frame)
  /\ order \in Seq(Node)
  /\ scc \in Seq(Node)
  /\ sccs \subseteq Seq(Node)

(***************************************************************************)
(* getSCCs returns every component, each once.                             *)
(***************************************************************************)
AllComponentsFound ==
  phase = "done" =>
    /\ {NodesOf(s) : s \in sccs} = Components(graph)
    /\ Cardinality(sccs) = Cardinality(Components(graph))

=============================================================================
