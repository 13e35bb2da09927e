----------------------------- MODULE PhiSearch ------------------------------
(***************************************************************************)
(* SYNC_VOTER_MODE 2: SchedulerDAG::insertSyncVoterDFS and its recursive   *)
(* findSCC.  From every phi of the function a depth-first walk follows the *)
(* operands backwards; the first time it meets the phi again, the nodes of *)
(* the walk are recorded and the whole recursion unwinds, so at most one   *)
(* cycle is recorded for a phi.                                            *)
(*                                                                         *)
(* A definition whose name continues that of the one after it is a         *)
(* plausible slip in the same code; the runs name it as a mutant and no    *)
(* action uses it.                                                         *)
(***************************************************************************)
EXTENDS DataFlow

CONSTANTS
  Graphs,     \* the data-flow graphs the pass may be given
  Block       \* the basic blocks of the function

VARIABLES
  graph,      \* the data-flow graph
  phis,       \* the phi instructions
  opaque,     \* the allocas and calls, which the walk does not enter
  block,      \* the basic block of an instruction
  lone,       \* the blocks that are a CFG component of their own
  roots,      \* the phis from which no walk has started yet
  frames,     \* the active calls of findSCC, the innermost last
  visited,    \* the instructions whose instMap entry is 1
  instCycles  \* SchedulerDAG::InstCycles

functionVars == <<graph, phis, opaque, block, lone>>
searchVars   == <<roots, frames, visited, instCycles>>
vars         == <<functionVars, searchVars>>

Operands(v) == Transpose(graph)[v]

Frame == [node : Node, todo : SUBSET Node]

NewFrame(v) == [node |-> v, todo |-> Operands(v)]

Top == frames[Len(frames)]

Root == frames[1].node

(***************************************************************************)
(* The vector scc, which every call gets by value: the nodes of the calls. *)
(***************************************************************************)
Walk == {frames[i].node : i \in DOMAIN frames}

(***************************************************************************)
(* addSCC sorts the list by address, which here is the node number, and    *)
(* drops it if it is already there.                                        *)
(***************************************************************************)
Sorted(S) ==
  CHOOSE s \in [1 .. Cardinality(S) -> S] : \A i, j \in DOMAIN s : i < j => s[i] < s[j]

(***************************************************************************)
(* What the operands of a function look like: SSA form puts a phi on every *)
(* cycle, a cycle that runs through a block that is a CFG component of its *)
(* own stays in that block, and a phi is no call or alloca.                *)
(***************************************************************************)
FunctionInit ==
  /\ graph \in Graphs
  /\ phis \in SUBSET Node
  /\ opaque \in SUBSET (Node \ phis)
  /\ block \in [Node -> Block]
  /\ lone \in SUBSET Block
  /\ \A c \in ElementaryCycles(graph) : NodesOf(c) \cap phis # {}
  /\ \A u \in Node : \A v \in Component(graph, u) :
       block[u] \in lone => block[v] = block[u]

Init ==
  /\ FunctionInit
  /\ roots = phis
  /\ frames = << >>
  /\ visited = {}
  /\ instCycles = {}

(***************************************************************************)
(* findSCC(BB): clear instMap, mark the phi and call findSCC on it.  The   *)
(* blocks come in the order of scc_iterator, which is left open.           *)
(***************************************************************************)
BeginPhiUncleared(p) ==
  /\ frames = << >>
  /\ p \in roots
  /\ roots' = roots \ {p}
  /\ frames' = <<NewFrame(p)>>
  /\ visited' = visited \cup {p}
  /\ UNCHANGED <<functionVars, instCycles>>

BeginPhi(p) ==
  /\ frames = << >>
  /\ p \in roots
  /\ roots' = roots \ {p}
  /\ frames' = <<NewFrame(p)>>
  /\ visited' = {p}
  /\ UNCHANGED <<functionVars, instCycles>>

(***************************************************************************)
(* Operands the walk ignores: allocas and calls, and, for a block that is  *)
(* a CFG component of its own, the instructions of other blocks.           *)
(***************************************************************************)
IgnoredByBlock(w) == block[Root] \in lone /\ block[w] # block[Root]

Ignored(w) == w \in opaque \/ (block[Root] \in lone /\ block[w] # block[Root])

LeaveOut(w) == frames' = [frames EXCEPT ![Len(frames)].todo = @ \ {w}]

(***************************************************************************)
(* One iteration of the loop over the operands: the root closes a cycle    *)
(* and ends the whole walk, a new operand is entered, others passed over.  *)
(***************************************************************************)
CloseCycle ==
  /\ frames # << >>
  /\ Root \in Top.todo
  /\ ~Ignored(Root)
  /\ instCycles' = instCycles \cup {Sorted(Walk)}
  /\ frames' = << >>
  /\ UNCHANGED <<functionVars, roots, visited>>

Descend(w) ==
  /\ frames # << >>
  /\ w \in Top.todo
  /\ ~Ignored(w)
  /\ w \notin visited
  /\ frames' = Append([frames EXCEPT ![Len(frames)].todo = @ \ {w}], NewFrame(w))
  /\ visited' = visited \cup {w}
  /\ UNCHANGED <<functionVars, roots, instCycles>>

PassOver(w) ==
  /\ frames # << >>
  /\ w \in Top.todo
  /\ Ignored(w) \/ (w \in visited /\ w # Root)
  /\ LeaveOut(w)
  /\ UNCHANGED <<functionVars, roots, visited, instCycles>>

Return ==
  /\ frames # << >>
  /\ Top.todo = {}
  /\ frames' = SubSeq(frames, 1, Len(frames)-1)
  /\ UNCHANGED <<functionVars, roots, visited, instCycles>>

Done == frames = << >> /\ roots = {}

Step ==
  \/ CloseCycle
  \/ Return
  \/ \E w \in Node : BeginPhi(w) \/ Descend(w) \/ PassOver(w)

Finished == Done /\ UNCHANGED vars

Next == Step \/ Finished

Spec == Init /\ [][Next]_vars /\ WF_vars(Next)

-----------------------------------------------------------------------------

TypeOK ==
  /\ graph \in Graphs
  /\ phis \subseteq Node /\ opaque \subseteq Node
  /\ block \in [Node -> Block]
  /\ lone \subseteq Block
  /\ roots \subseteq phis
  /\ frames \in Seq(Frame)
  /\ visited \subseteq Node
  /\ instCycles \subseteq Seq(Node)

(***************************************************************************)
(* The cycles the walk may take.                                           *)
(***************************************************************************)
OpenCycles == {c \in ElementaryCycles(graph) : NodesOf(c) \cap opaque = {}}

(***************************************************************************)
(* Nodes stay marked when the walk backs out of them, yet no phi on a      *)
(* feedback cycle is missed: once its walk is over, a cycle with it is     *)
(* recorded.                                                               *)
(***************************************************************************)
EveryPhiServed ==
  frames = << >> =>
    \A c \in OpenCycles : \A p \in (NodesOf(c) \cap phis) \ roots :
      \E s \in instCycles : p \in NodesOf(s)

=============================================================================
