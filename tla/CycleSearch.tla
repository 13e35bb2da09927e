---------------------------- MODULE CycleSearch -----------------------------
(***************************************************************************)
(* SYNC_VOTER_MODE 1: the search for feedback cycles in one strongly       *)
(* connected component of the data-flow graph, as the inner loops of       *)
(* SchedulerDAG::insertSyncVoter do it with findCycles and unblock of      *)
(* utils.cpp (a variant of Johnson's algorithm).  Every node of the        *)
(* component is the start once, and findCycles walks from it, one call     *)
(* frame per node.                                                         *)
(*                                                                         *)
(* A definition whose name continues that of the one after it (AdjOfOper-  *)
(* ands before Adj) is a plausible slip in the same code; the runs name it *)
(* as a mutant and no action uses it.                                      *)
(***************************************************************************)
EXTENDS DataFlow

CONSTANT Graphs      \* the data-flow graphs the pass may be given

ASSUME GraphsAssumption == Graphs \subseteq Graph

VARIABLES
  graph,     \* the data-flow graph
  scc,       \* the component searched, as getSCCs lists it
  start,     \* the loop variable of insertSyncVoter, an index of scc
  frames,    \* the active calls of findCycles, the innermost last
  blocked,   \* the nodes whose flag in blocked is set
  fruitless, \* B_Fruitless: who to unblock when a node is unblocked
  cycles     \* the cycles recorded so far

vars == <<graph, scc, start, frames, blocked, fruitless, cycles>>

(***************************************************************************)
(* adjList: the users of v inside the component.  setAdjData renumbers the *)
(* nodes and insertSyncVoter maps the cycles back; here they keep their    *)
(* numbers.                                                                *)
(***************************************************************************)
AdjOfOperands(v) == Transpose(graph)[v] \cap NodesOf(scc)

AdjFromStart(v) == graph[v] \cap {scc[i] : i \in start .. Len(scc)}

Adj(v) == graph[v] \cap NodesOf(scc)

StartNode == scc[start]

(***************************************************************************)
(* A call of findCycles: its node, the neighbours its loop has not reached *)
(* yet, and the flag f it will return.                                     *)
(***************************************************************************)
Frame == [node : Node, todo : SUBSET Node, found : BOOLEAN]

NewFrame(v) == [node |-> v, todo |-> Adj(v), found |-> FALSE]

Top == frames[Len(frames)]

(***************************************************************************)
(* stackLike, bottom first.  findCycles pushes its node when it is called  *)
(* and erases it when it returns, so the stack is the nodes of the frames. *)
(***************************************************************************)
Stack == [i \in 1 .. Len(frames) |-> frames[i].node]

(***************************************************************************)
(* The nodes the recursive unblock(v) reaches: from a node it goes on to   *)
(* the nodes of its fruitless list that are still blocked.                 *)
(***************************************************************************)
UnblockedAlone(v) == {v}

Unblocked(v) ==
  {u \in Node : \A S \in SUBSET Node :
      (v \in S /\ \A x \in S : fruitless[x] \cap blocked \subseteq S) => u \in S}

(***************************************************************************)
(* The search of one component begins with empty book-keeping.             *)
(***************************************************************************)
BeginSearch ==
  /\ start = 1
  /\ frames = << >>
  /\ blocked = {}
  /\ fruitless = [v \in Node |-> {}]
  /\ cycles = {}

(***************************************************************************)
(* A component is listed in some order, each node once; a component with   *)
(* one node is never searched.                                             *)
(***************************************************************************)
ListsOf(sets) ==
  {s \in UNION {[1 .. n -> Node] : n \in 2 .. N} : Distinct(s) /\ NodesOf(s) \in sets}

Init ==
  /\ graph \in Graphs
  /\ scc \in ListsOf(Components(graph))
  /\ BeginSearch

(***************************************************************************)
(* The loop of insertSyncVoter clears the book-keeping and calls           *)
(* findCycles(i, i, ...); the call blocks its node before its own loop.    *)
(***************************************************************************)
CallFromStart ==
  /\ frames = << >>
  /\ start <= Len(scc)
  /\ frames' = <<NewFrame(StartNode)>>
  /\ blocked' = {StartNode}
  /\ fruitless' = [v \in Node |-> {}]
  /\ UNCHANGED <<graph, scc, start, cycles>>

(***************************************************************************)
(* One iteration of the neighbour loop.  A neighbour that is the start     *)
(* closes a cycle, a neighbour that is not blocked is called, any other    *)
(* one is passed over.                                                     *)
(***************************************************************************)
CloseCycleAgain ==
  /\ frames # << >>
  /\ StartNode \in Top.todo
  /\ cycles' = cycles \cup {Stack}
  /\ frames' = [frames EXCEPT ![Len(frames)].found = TRUE]
  /\ UNCHANGED <<graph, scc, start, blocked, fruitless>>

CloseCycle ==
  /\ frames # << >>
  /\ StartNode \in Top.todo
  /\ cycles' = cycles \cup {Stack}
  /\ frames' = [frames EXCEPT ![Len(frames)].todo = @ \ {StartNode},
                              ![Len(frames)].found = TRUE]
  /\ UNCHANGED <<graph, scc, start, blocked, fruitless>>

Descend(w) ==
  /\ frames # << >>
  /\ w \in Top.todo \ {StartNode}
  /\ w \notin blocked
  /\ frames' = Append([frames EXCEPT ![Len(frames)].todo = @ \ {w}], NewFrame(w))
  /\ blocked' = blocked \cup {w}
  /\ UNCHANGED <<graph, scc, start, fruitless, cycles>>

PassOver(w) ==
  /\ frames # << >>
  /\ w \in Top.todo \ {StartNode}
  /\ w \in blocked
  /\ frames' = [frames EXCEPT ![Len(frames)].todo = @ \ {w}]
  /\ UNCHANGED <<graph, scc, start, blocked, fruitless, cycles>>

(***************************************************************************)
(* The end of findCycles: a fruitful call unblocks its node and what hangs *)
(* on it, a fruitless one enters its node in the lists of its neighbours.  *)
(***************************************************************************)
BookKeepingForgetful(v, found) ==
  IF found
  THEN /\ blocked' = blocked \ Unblocked(v)
       /\ fruitless' = [x \in Node |-> IF x \in Unblocked(v) THEN {} ELSE fruitless[x]]
  ELSE UNCHANGED <<blocked, fruitless>>

BookKeepingKeepingLists(v, found) ==
  IF found
  THEN blocked' = blocked \ Unblocked(v) /\ UNCHANGED fruitless
  ELSE /\ blocked' = blocked
       /\ fruitless' = [x \in Node |-> IF x \in Adj(v) THEN fruitless[x] \cup {v}
                                                       ELSE fruitless[x]]

BookKeeping(v, found) ==
  IF found
  THEN /\ blocked' = blocked \ Unblocked(v)
       /\ fruitless' = [x \in Node |-> IF x \in Unblocked(v) THEN {} ELSE fruitless[x]]
  ELSE /\ blocked' = blocked
       /\ fruitless' = [x \in Node |-> IF x \in Adj(v) THEN fruitless[x] \cup {v}
                                                       ELSE fruitless[x]]

(***************************************************************************)
(* findCycles returns to its caller, whose flag is set when the call was   *)
(* fruitful, or, from the outermost call, to the loop over the starts.     *)
(***************************************************************************)
Return ==
  /\ frames # << >>
  /\ Top.todo = {}
  /\ BookKeeping(Top.node, Top.found)
  /\ LET n == Len(frames) IN
       IF n = 1
       THEN frames' = << >> /\ start' = start + 1
       ELSE /\ frames' = [SubSeq(frames, 1, n-1) EXCEPT ![n-1].found = @ \/ Top.found]
            /\ UNCHANGED start
  /\ UNCHANGED <<graph, scc, cycles>>

Done == frames = << >> /\ start = Len(scc) + 1

Step ==
  \/ CallFromStart
  \/ CloseCycle
  \/ \E w \in Node : Descend(w) \/ PassOver(w)
  \/ Return

Finished == Done /\ UNCHANGED vars

Next == Step \/ Finished

Spec == Init /\ [][Next]_vars /\ WF_vars(Next)

-----------------------------------------------------------------------------

TypeOK ==
  /\ graph \in Graphs
  /\ scc \in Seq(Node)
  /\ start \in 1 .. Len(scc) + 1
  /\ frames \in Seq(Frame)
  /\ blocked \subseteq Node
  /\ fruitless \in [Node -> SUBSET Node]
  /\ cycles \subseteq Seq(Node)

(***************************************************************************)
(* Whatever findCycles has recorded so far is an elementary cycle of the   *)
(* data-flow graph, for the later choice of a voter walks it edge by edge; *)
(* it stays in the component and begins at a start node that had its turn. *)
(* With StartsAreExhausted this says what is recorded, no more and no      *)
(* less.  (How often is left open: where an instruction uses another       *)
(* twice, addEdge keeps two edges, and findCycles records each cycle over  *)
(* them twice.)                                                            *)
(***************************************************************************)
RecordedAreCycles ==
  \A c \in cycles :
    /\ IsElementaryCycle(graph, c)
    /\ NodesOf(c) \subseteq NodesOf(scc)
    /\ \E i \in DOMAIN scc : i =< start /\ c[1] = scc[i]

(***************************************************************************)
(* The calls form a simple path from the start, and each still has to look *)
(* at neighbours of its own node only.                                     *)
(***************************************************************************)
CallsFormPath ==
  /\ frames # << >> => start <= Len(scc) /\ frames[1].node = StartNode
  /\ \A i \in DOMAIN frames : frames[i].todo \subseteq Adj(frames[i].node)
  /\ \A i, j \in DOMAIN frames : frames[i].node = frames[j].node => i = j
  /\ \A i \in DOMAIN frames : i > 1 => frames[i].node \in Adj(frames[i-1].node)

(***************************************************************************)
(* A node on the stack is blocked, and stays so: when a call further up    *)
(* the stack unblocks its node, the recursion of unblock never comes down  *)
(* to the nodes below, although they may still stand in fruitless lists.   *)
(***************************************************************************)
StackStaysBlocked ==
  /\ \A i \in DOMAIN frames : frames[i].node \in blocked
  /\ \A i, j \in DOMAIN frames : i < j => frames[i].node \notin Unblocked(frames[j].node)

(***************************************************************************)
(* A node that is not blocked has an empty fruitless list.                 *)
(***************************************************************************)
ListsOfBlockedOnly == \A v \in Node \ blocked : fruitless[v] = {}

(***************************************************************************)
(* As long as no call from number i on has found a cycle, all neighbours   *)
(* that call has looked at are blocked and none is the start.              *)
(***************************************************************************)
FruitlessSoFar ==
  \A i \in DOMAIN frames :
    (\A j \in DOMAIN frames : j >= i => ~frames[j].found) =>
      \A w \in Adj(frames[i].node) \ frames[i].todo : w \in blocked /\ w # StartNode

(***************************************************************************)
(* The blocking discipline that makes pruning safe (Johnson's lemma): a    *)
(* node that is blocked but not on the stack has only blocked successors,  *)
(* none of them the start, and it stands in the fruitless list of each, so *)
(* it is unblocked as soon as one of them is.                              *)
(***************************************************************************)
BlockedWaits ==
  frames # << >> =>
    \A v \in blocked \ NodesOf(Stack) : \A w \in Adj(v) :
      w # StartNode /\ w \in blocked /\ v \in fruitless[w]

(***************************************************************************)
(* Pruning loses nothing: once the loop has left a start node behind,      *)
(* every elementary cycle written from that node is recorded.              *)
(***************************************************************************)
StartsAreExhausted ==
  frames = << >> =>
    \A c \in ElementaryCycles(graph) :
      c[1] \in {scc[i] : i \in 1 .. start-1} => c \in cycles

(***************************************************************************)
(* The search ends, although nodes are blocked and unblocked again.        *)
(***************************************************************************)
Terminates == <>Done

=============================================================================
