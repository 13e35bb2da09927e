------------------------------ MODULE MaxFlow -------------------------------
(***************************************************************************)
(* maxFlow, with the breadth-first search bfs it repeats, on the graph     *)
(* that connectDFG and mergeNodes make of a call tree.  Instance v has     *)
(* three nodes there: 3v for itself and, for the net it shares with its    *)
(* callees, 3v+1 and 3v+2, between which the width of the net may flow.    *)
(*                                                                         *)
(* A definition whose name continues that of the one after it is a         *)
(* plausible slip in the same code; the runs name it as a mutant and no    *)
(* action uses it.                                                         *)
(***************************************************************************)
EXTENDS CallTree, Sequences, SequencesExt

CONSTANTS
  Widths,   \* the port widths that nets may have
  INF       \* 1000000000 in the code

ASSUME CapacityAssumption ==
  /\ Widths \subseteq Nat \ {0}
  /\ INF \in Nat /\ \A w \in Widths : w < INF

Node == 0 .. 3 * N - 1

start == 0
target == 3 * LastLeaf

VARIABLES
  caller, width,   \* the call tree and its widths
  near, far,       \* the instances merged with main, and with the target
  capacity, flow,
  visited, que, pred,
  pc               \* "bfs", "augment" or "done"

problem == <<caller, width, near, far, capacity>>
search  == <<visited, que, pred>>
vars    == <<problem, flow, search, pc>>

(***************************************************************************)
(* The edges nothing divides: of nets, and of merged instances.            *)
(***************************************************************************)
NetEdgesDownward(c) ==
  {<<3 * v, 3 * v + 1>> : v \in Instance} \cup {<<3 * c[d] + 2, 3 * d>> : d \in Called}

NetEdges(c) ==
  {<<3 * v, 3 * v + 1>> : v \in Instance} \cup {<<3 * v + 2, 3 * v>> : v \in Instance}
    \cup {<<3 * c[d] + 2, 3 * d>> : d \in Called}
    \cup {<<3 * d, 3 * c[d] + 1>> : d \in Called}

MergedEdges(S, T) ==
  {<<start, 3 * v>> : v \in S} \cup {<<3 * v, target>> : v \in T}

CapacityOf(c, w, S, T) ==
  LET uncut == NetEdges(c) \cup MergedEdges(S, T)
  IN  [u \in Node |-> [v \in Node |->
         IF <<u, v>> \in uncut THEN INF
         ELSE IF u % 3 = 1 /\ v = u + 1 THEN w[u \div 3] ELSE 0]]

Residual(u, v) == capacity[u][v] - flow[u][v]

-----------------------------------------------------------------------------
BeginSearch ==
  /\ que' = <<start>>
  /\ visited' = {start}
  /\ pred' = [v \in Node |-> -1]

Init ==
  /\ caller \in CallTrees
  /\ width \in {w \in [Instance -> Widths \cup {0}] :
                 \A i \in Instance : w[i] = 0 <=> Callees(caller, i) = {}}
  /\ near \in SUBSET Called
  /\ far \in SUBSET (Called \ near)
  /\ capacity = CapacityOf(caller, width, near, far)
  /\ flow = [u \in Node |-> [v \in Node |-> 0]]
  /\ que = <<start>>
  /\ visited = {start}
  /\ pred = [v \in Node |-> -1]
  /\ pc = "bfs"

(***************************************************************************)
(* bfs: a node taken from the queue adds its new neighbours, lowest first. *)
(***************************************************************************)
NewNeighboursByCapacity(u) ==
  {v \in Node \ visited : capacity[u][v] > 0}

NewNeighbours(u) == {v \in Node \ visited : Residual(u, v) > 0}

Visit ==
  /\ pc = "bfs" /\ que # <<>>
  /\ LET u == Head(que)
         new == NewNeighbours(u)
     IN  /\ que' = Tail(que) \o SetToSortSeq(new, LAMBDA v, w : v < w)
         /\ visited' = visited \cup new
         /\ pred' = [v \in Node |-> IF v \in new THEN u ELSE pred[v]]
  /\ UNCHANGED <<problem, flow, pc>>

Found ==
  /\ pc = "bfs" /\ que = <<>> /\ target \in visited
  /\ pc' = "augment"
  /\ UNCHANGED <<problem, flow, search>>

NoPath ==
  /\ pc = "bfs" /\ que = <<>> /\ target \notin visited
  /\ pc' = "done"
  /\ UNCHANGED <<problem, flow, search>>

(***************************************************************************)
(* The rest of maxFlow's loop: the flow grows along the path found, by     *)
(* what the narrowest edge of the path leaves.                             *)
(***************************************************************************)
RECURSIVE PathTo(_)
PathTo(u) == IF pred[u] < 0 THEN {} ELSE {u} \cup PathTo(pred[u])

PushedOneWay(path, amount) ==
  [u \in Node |-> [v \in Node |->
     flow[u][v] + (IF v \in path /\ pred[v] = u THEN amount ELSE 0)]]

Pushed(path, amount) ==
  [u \in Node |-> [v \in Node |->
     flow[u][v] + (IF v \in path /\ pred[v] = u THEN amount ELSE 0)
                - (IF u \in path /\ pred[u] = v THEN amount ELSE 0)]]

Narrowest(path) == Min({INF} \cup {Residual(pred[v], v) : v \in path})

Augment ==
  /\ pc = "augment"
  /\ flow' = Pushed(PathTo(target), Narrowest(PathTo(target)))
  /\ BeginSearch
  /\ pc' = "bfs"
  /\ UNCHANGED problem

Stop == pc = "done" /\ UNCHANGED vars

Next == Visit \/ Found \/ NoPath \/ Augment \/ Stop

Spec == Init /\ [][Next]_vars /\ WF_vars(Next)

-----------------------------------------------------------------------------
(***************************************************************************)
(* The flow is one at every moment: it keeps the capacities, what flows    *)
(* back is what flowed there, nothing is lost on the way, and what an edge *)
(* can still take is an int of 32 bits.                                    *)
(***************************************************************************)
FlowIsLegal ==
  \A u \in Node :
    /\ \A v \in Node : /\ flow[u][v] = -flow[v][u]
                       /\ u # v => Residual(u, v) \in 0 .. 2147483647
    /\ u \notin {start, target} => MapThenSumSet(LAMBDA v : flow[u][v], Node) = 0

(***************************************************************************)
(* The instances that can still be reached from main at the end are the    *)
(* minimum cut nearest to main, by the definition of CallTree, which is    *)
(* what the partitioner takes for its two sides.                           *)
(***************************************************************************)
FindsNearestCut ==
  pc = "done" =>
    {i \in Instance : 3 * i \in visited} = NearestCut(caller, width, LastLeaf, near, far)

(***************************************************************************)
(* The search for augmenting paths comes to an end.                        *)
(***************************************************************************)
Terminates == <>(pc = "done")

=============================================================================
