------------------------- MODULE CycleSearch_proofs -------------------------
(***************************************************************************)
(* Proofs about CycleSearch, for data-flow graphs of any size: what        *)
(* findCycles records are elementary cycles, unblock never touches the     *)
(* stack, the blocking discipline of Johnson's algorithm is kept, and the  *)
(* search misses no cycle.                                                 *)
(***************************************************************************)
EXTENDS CycleSearch, WellFoundedInduction, TLAPS

(***************************************************************************)
(* What unblock reaches, as a function of the lists f and the flags b.     *)
(***************************************************************************)
Closed(f, b, S) == \A x \in S : f[x] \cap b \subseteq S

Closure(f, b, v) ==
  {u \in Node : \A S \in SUBSET Node : v \in S /\ Closed(f, b, S) => u \in S}

LEMMA UnblockedIsClosure ==
  ASSUME NEW v
  PROVE  /\ Unblocked(v) = Closure(fruitless, blocked, v)
         /\ Unblocked(v)' = Closure(fruitless', blocked', v)
BY DEF Unblocked, Closure, Closed

LEMMA ClosureLeast ==
  ASSUME NEW f, NEW b, NEW v, NEW S \in SUBSET Node, v \in S, Closed(f, b, S)
  PROVE  Closure(f, b, v) \subseteq S
BY DEF Closure

LEMMA ClosureHoldsSelf ==
  ASSUME NEW f, NEW b, NEW v \in Node
  PROVE  v \in Closure(f, b, v) /\ Closure(f, b, v) \in SUBSET Node
BY DEF Closure

LEMMA ClosureClosed ==
  ASSUME NEW f \in [Node -> SUBSET Node], NEW b, NEW v,
         NEW x \in Closure(f, b, v), NEW u \in f[x] \cap b
  PROVE  u \in Closure(f, b, v)
<1>1. x \in Node /\ u \in Node
  BY DEF Closure
<1>2. ASSUME NEW S \in SUBSET Node, v \in S, Closed(f, b, S)
      PROVE  u \in S
  <2>1. x \in S
    BY <1>2 DEF Closure
  <2>2. QED  BY <1>2, <2>1 DEF Closed
<1>3. QED  BY <1>1, <1>2 DEF Closure

(***************************************************************************)
(* Fewer entries and fewer flags: unblock reaches less.                    *)
(***************************************************************************)
LEMMA ClosureShrinks ==
  ASSUME NEW f \in [Node -> SUBSET Node], NEW g \in [Node -> SUBSET Node],
         NEW b, NEW c, NEW v \in Node,
         \A x \in Node : g[x] \subseteq f[x], c \subseteq b
  PROVE  Closure(g, c, v) \subseteq Closure(f, b, v)
<1> DEFINE S == Closure(f, b, v)
<1>1. v \in S /\ S \in SUBSET Node
  BY ClosureHoldsSelf
<1>2. Closed(g, c, S)
  <2> SUFFICES ASSUME NEW x \in S, NEW u \in g[x] \cap c PROVE u \in S
    BY DEF Closed
  <2>1. u \in f[x] \cap b
    BY <1>1
  <2>2. QED  BY <2>1, ClosureClosed
<1> HIDE DEF S
<1>3. Closure(g, c, v) \subseteq S
  BY <1>1, <1>2, ClosureLeast
<1>4. QED  BY <1>3 DEF S

(***************************************************************************)
(* A newly blocked node with an empty list adds only itself.               *)
(***************************************************************************)
LEMMA ClosureWithBlocked ==
  ASSUME NEW f \in [Node -> SUBSET Node], NEW b, NEW v \in Node, NEW w \in Node,
         f[w] = {}
  PROVE  Closure(f, b \cup {w}, v) \subseteq Closure(f, b, v) \cup {w}
<1> DEFINE S == Closure(f, b, v) \cup {w}
<1>1. v \in S /\ S \in SUBSET Node
  BY ClosureHoldsSelf
<1>2. Closed(f, b \cup {w}, S)
  <2> SUFFICES ASSUME NEW x \in S, NEW u \in f[x] \cap (b \cup {w}) PROVE u \in S
    BY DEF Closed
  <2>1. CASE u = w
    BY <2>1
  <2>2. CASE u # w
    <3>1. x # w /\ x \in Closure(f, b, v) /\ u \in f[x] \cap b
      BY <2>2
    <3>2. QED  BY <3>1, ClosureClosed
  <2>3. QED  BY <2>1, <2>2
<1> HIDE DEF S
<1>3. Closure(f, b \cup {w}, v) \subseteq S
  BY <1>1, <1>2, ClosureLeast
<1>4. QED  BY <1>3 DEF S

(***************************************************************************)
(* Entering z in lists adds at most what z itself reaches.                 *)
(***************************************************************************)
LEMMA ClosureWithEntry ==
  ASSUME NEW f \in [Node -> SUBSET Node], NEW g \in [Node -> SUBSET Node],
         NEW b, NEW v \in Node, NEW z \in Node,
         \A x \in Node : g[x] \subseteq f[x] \cup {z}
  PROVE  Closure(g, b, v) \subseteq Closure(f, b, v) \cup Closure(f, b, z)
<1> DEFINE S == Closure(f, b, v) \cup Closure(f, b, z)
<1>1. v \in S /\ z \in S /\ S \in SUBSET Node
  BY ClosureHoldsSelf
<1>2. Closed(g, b, S)
  <2> SUFFICES ASSUME NEW x \in S, NEW u \in g[x] \cap b PROVE u \in S
    BY DEF Closed
  <2>1. u = z \/ u \in f[x] \cap b
    BY <1>1
  <2>2. CASE u = z
    BY <1>1, <2>2
  <2>3. CASE u \in f[x] \cap b
    BY <2>3, ClosureClosed
  <2>4. QED  BY <2>1, <2>2, <2>3
<1> HIDE DEF S
<1>3. Closure(g, b, v) \subseteq S
  BY <1>1, <1>2, ClosureLeast
<1>4. QED  BY <1>3 DEF S

(***************************************************************************)
(* The strengthened invariant: the calls form a path of blocked nodes, and *)
(* the lists and flags agree with what the calls have seen.                *)
(***************************************************************************)
IInv ==
  /\ TypeOK
  /\ CallsFormPath
  /\ StackStaysBlocked
  /\ ListsOfBlockedOnly
  /\ FruitlessSoFar
  /\ RecordedAreCycles
  /\ BlockedWaits

LEMMA AdjType ==
  ASSUME TypeOK, NEW v \in Node
  PROVE  Adj(v) \in SUBSET Node /\ Adj(v) \subseteq graph[v]
BY GraphsAssumption DEF TypeOK, Graph, Adj

LEMMA AdjUnchanged ==
  ASSUME UNCHANGED <<graph, scc>>
  PROVE  \A v : Adj(v)' = Adj(v)
BY DEF Adj, NodesOf

LEMMA FramesType ==
  ASSUME TypeOK, frames # << >>
  PROVE  /\ Len(frames) \in Nat \ {0}
         /\ DOMAIN frames = 1 .. Len(frames)
         /\ \A i \in 1 .. Len(frames) :
              /\ frames[i] \in Frame
              /\ frames[i].node \in Node
              /\ frames[i].todo \in SUBSET Node
              /\ frames[i].found \in BOOLEAN
         /\ Top = frames[Len(frames)]
<1>1. frames \in Seq(Frame)
  BY DEF TypeOK
<1>2. Len(frames) \in Nat \ {0} /\ DOMAIN frames = 1 .. Len(frames)
  BY <1>1
<1>3. \A i \in 1 .. Len(frames) : frames[i] \in Frame
  BY <1>1
<1>4. QED  BY <1>2, <1>3 DEF Frame, Top

LEMMA NodesOfStack ==
  ASSUME TypeOK
  PROVE  NodesOf(Stack) = {frames[i].node : i \in 1 .. Len(frames)}
BY DEF NodesOf, Stack

LEMMA StackAsClosure ==
  /\ StackStaysBlocked <=>
       /\ \A i \in DOMAIN frames : frames[i].node \in blocked
       /\ \A i, j \in DOMAIN frames : i < j =>
            frames[i].node \notin Closure(fruitless, blocked, frames[j].node)
  /\ StackStaysBlocked' <=>
       /\ \A i \in DOMAIN frames' : frames'[i].node \in blocked'
       /\ \A i, j \in DOMAIN frames' : i < j =>
            frames'[i].node \notin Closure(fruitless', blocked', frames'[j].node)
BY DEF StackStaysBlocked, Unblocked, Closure, Closed

(***************************************************************************)
(* What the actions do to the frames.                                      *)
(***************************************************************************)
LEMMA CloseCycleFrames ==
  ASSUME TypeOK, CloseCycle
  PROVE  /\ frames' \in Seq(Frame) /\ Len(frames') = Len(frames)
         /\ DOMAIN frames' = 1 .. Len(frames)
         /\ \A i \in 1 .. Len(frames) :
              /\ frames'[i].node = frames[i].node
              /\ frames'[i].todo = IF i = Len(frames) THEN frames[i].todo \ {StartNode}
                                                     ELSE frames[i].todo
         /\ frames'[Len(frames)].found = TRUE
<1>1. frames \in Seq(Frame) /\ frames # << >>
  BY DEF TypeOK, CloseCycle
<1>2. Top \in Frame /\ Len(frames) \in 1 .. Len(frames)
  BY <1>1, FramesType
<1> DEFINE new == [Top EXCEPT !.todo = @ \ {StartNode}, !.found = TRUE]
<1>3. frames' = [frames EXCEPT ![Len(frames)] = new]
  BY <1>1 DEF CloseCycle, Top
<1>4. new \in Frame /\ new.node = Top.node /\ new.todo = Top.todo \ {StartNode}
      /\ new.found = TRUE
  BY <1>2 DEF Frame
<1> HIDE DEF new
<1>5. /\ frames' \in Seq(Frame) /\ Len(frames') = Len(frames)
      /\ DOMAIN frames' = 1 .. Len(frames)
      /\ \A i \in 1 .. Len(frames) :
           frames'[i] = IF i = Len(frames) THEN new ELSE frames[i]
  BY <1>1, <1>2, <1>3, <1>4
<1>6. QED  BY <1>2, <1>4, <1>5 DEF Top

LEMMA DescendFrames ==
  ASSUME TypeOK, NEW w \in Node, Descend(w)
  PROVE  /\ frames' \in Seq(Frame) /\ Len(frames') = Len(frames) + 1
         /\ DOMAIN frames' = 1 .. Len(frames) + 1
         /\ \A i \in 1 .. Len(frames) :
              /\ frames'[i].node = frames[i].node
              /\ frames'[i].found = frames[i].found
              /\ frames'[i].todo = IF i = Len(frames) THEN frames[i].todo \ {w}
                                                     ELSE frames[i].todo
         /\ frames'[Len(frames) + 1] = NewFrame(w)
<1>1. frames \in Seq(Frame) /\ frames # << >>
  BY DEF TypeOK, Descend
<1>2. Top \in Frame /\ Len(frames) \in 1 .. Len(frames)
  BY <1>1, FramesType
<1> DEFINE new  == [Top EXCEPT !.todo = @ \ {w}]
           rest == [frames EXCEPT ![Len(frames)] = new]
<1>3. frames' = Append(rest, NewFrame(w))
  BY <1>1 DEF Descend, Top
<1>4. new \in Frame /\ new.node = Top.node /\ new.todo = Top.todo \ {w}
      /\ new.found = Top.found
  BY <1>2 DEF Frame
<1>5. NewFrame(w) \in Frame
  BY AdjType DEF NewFrame, Frame
<1> HIDE DEF new
<1>6. /\ rest \in Seq(Frame) /\ Len(rest) = Len(frames)
      /\ \A i \in 1 .. Len(frames) :
           rest[i] = IF i = Len(frames) THEN new ELSE frames[i]
  BY <1>1, <1>2, <1>4
<1> HIDE DEF rest
<1>7. /\ frames' \in Seq(Frame) /\ Len(frames') = Len(frames) + 1
      /\ DOMAIN frames' = 1 .. Len(frames) + 1
      /\ \A i \in 1 .. Len(frames) :
           frames'[i] = IF i = Len(frames) THEN new ELSE frames[i]
      /\ frames'[Len(frames) + 1] = NewFrame(w)
  BY <1>1, <1>2, <1>3, <1>5, <1>6
<1>8. QED  BY <1>2, <1>4, <1>7 DEF Top

LEMMA PassOverFrames ==
  ASSUME TypeOK, NEW w \in Node, PassOver(w)
  PROVE  /\ frames' \in Seq(Frame) /\ Len(frames') = Len(frames)
         /\ DOMAIN frames' = 1 .. Len(frames)
         /\ \A i \in 1 .. Len(frames) :
              /\ frames'[i].node = frames[i].node
              /\ frames'[i].found = frames[i].found
              /\ frames'[i].todo = IF i = Len(frames) THEN frames[i].todo \ {w}
                                                     ELSE frames[i].todo
<1>1. frames \in Seq(Frame) /\ frames # << >>
  BY DEF TypeOK, PassOver
<1>2. Top \in Frame /\ Len(frames) \in 1 .. Len(frames)
  BY <1>1, FramesType
<1> DEFINE new == [Top EXCEPT !.todo = @ \ {w}]
<1>3. frames' = [frames EXCEPT ![Len(frames)] = new]
  BY <1>1 DEF PassOver, Top
<1>4. new \in Frame /\ new.node = Top.node /\ new.todo = Top.todo \ {w}
      /\ new.found = Top.found
  BY <1>2 DEF Frame
<1> HIDE DEF new
<1>5. /\ frames' \in Seq(Frame) /\ Len(frames') = Len(frames)
      /\ DOMAIN frames' = 1 .. Len(frames)
      /\ \A i \in 1 .. Len(frames) :
           frames'[i] = IF i = Len(frames) THEN new ELSE frames[i]
  BY <1>1, <1>2, <1>3, <1>4
<1>6. QED  BY <1>2, <1>4, <1>5 DEF Top

LEMMA ReturnFrames ==
  ASSUME TypeOK, Return, Len(frames) # 1
  PROVE  /\ frames' \in Seq(Frame) /\ Len(frames') = Len(frames) - 1
         /\ Len(frames) - 1 \in 1 .. Len(frames)
         /\ \A i \in 1 .. Len(frames) - 1 :
              /\ frames'[i].node = frames[i].node
              /\ frames'[i].todo = frames[i].todo
              /\ i < Len(frames) - 1 => frames'[i] = frames[i]
         /\ frames'[Len(frames) - 1].found =
              (frames[Len(frames) - 1].found \/ Top.found)
<1> DEFINE n == Len(frames)
<1>1. frames \in Seq(Frame) /\ frames # << >>
  BY DEF TypeOK, Return
<1>2. Top \in Frame /\ n \in Nat /\ n - 1 \in 1 .. n /\ frames[n-1] \in Frame
  BY <1>1, FramesType
<1> DEFINE rest == SubSeq(frames, 1, n-1)
           new  == [rest[n-1] EXCEPT !.found = @ \/ Top.found]
<1>3. /\ rest \in Seq(Frame) /\ Len(rest) = n-1
      /\ \A i \in 1 .. n-1 : rest[i] = frames[i]
  BY <1>1, <1>2
<1> HIDE DEF rest
<1>4. frames' = [rest EXCEPT ![n-1].found = @ \/ Top.found]
  BY <1>1 DEF Return, rest
<1>5. frames' = [rest EXCEPT ![n-1] = new]
  BY <1>4
<1>6. new \in Frame /\ new.node = frames[n-1].node /\ new.todo = frames[n-1].todo
      /\ new.found = (frames[n-1].found \/ Top.found)
  BY <1>2, <1>3 DEF Frame
<1> HIDE DEF new
<1>7. /\ frames' \in Seq(Frame) /\ Len(frames') = n-1 /\ DOMAIN frames' = 1 .. n-1
      /\ \A i \in 1 .. n-1 : frames'[i] = IF i = n-1 THEN new ELSE frames[i]
  BY <1>2, <1>3, <1>5, <1>6
<1>8. QED  BY <1>2, <1>6, <1>7

(***************************************************************************)
(* The initial states.                                                     *)
(***************************************************************************)
LEMMA ListsType ==
  ASSUME NEW sets, NEW s \in ListsOf(sets)
  PROVE  s \in Seq(Node) /\ Len(s) \in Nat \ {0} /\ NodesOf(s) \in sets
<1>1. PICK n \in 2 .. N : s \in [1 .. n -> Node]
  BY DEF ListsOf
<1>2. s \in Seq(Node) /\ Len(s) = n /\ n \in Nat \ {0}
  BY <1>1, NAssumption
<1>3. QED  BY <1>2 DEF ListsOf

LEMMA InitInvariant == Init => IInv
<1> SUFFICES ASSUME Init PROVE IInv
  OBVIOUS
<1>1. scc \in Seq(Node) /\ Len(scc) \in Nat \ {0}
  BY ListsType DEF Init
<1>2. TypeOK
  BY <1>1 DEF Init, BeginSearch, TypeOK
<1>3. QED
  BY <1>2 DEF Init, BeginSearch, IInv, CallsFormPath, StackStaysBlocked,
     ListsOfBlockedOnly, FruitlessSoFar, RecordedAreCycles, BlockedWaits

(***************************************************************************)
(* The search from one start begins.                                       *)
(***************************************************************************)
LEMMA CallFromStartInvariant == IInv /\ CallFromStart => IInv'
<1> SUFFICES ASSUME IInv, CallFromStart PROVE IInv'
  OBVIOUS
<1> USE DEF CallFromStart
<1>1. TypeOK /\ start \in 1 .. Len(scc) /\ StartNode \in Node /\ StartNode' = StartNode
  BY DEF IInv, TypeOK, StartNode
<1>2. \A v : Adj(v)' = Adj(v)
  BY AdjUnchanged
<1>3. NewFrame(StartNode) \in Frame
  BY <1>1, AdjType DEF NewFrame, Frame
<1>4. /\ frames' \in Seq(Frame) /\ Len(frames') = 1 /\ DOMAIN frames' = 1 .. 1
      /\ frames'[1].node = StartNode /\ frames'[1].todo = Adj(StartNode)
  BY <1>3 DEF NewFrame
<1>5. TypeOK'
  BY <1>1, <1>4 DEF TypeOK
<1>6. CallsFormPath'
  BY <1>1, <1>2, <1>4 DEF CallsFormPath
<1>7. StackStaysBlocked'
  BY <1>4 DEF StackStaysBlocked
<1>8. ListsOfBlockedOnly' /\ RecordedAreCycles'
  BY DEF IInv, ListsOfBlockedOnly, RecordedAreCycles
<1>9. FruitlessSoFar'
  BY <1>2, <1>4 DEF FruitlessSoFar
<1>10. BlockedWaits'
  <2>1. NodesOf(Stack)' = {StartNode}
    BY <1>4 DEF NodesOf, Stack
  <2>2. QED  BY <2>1 DEF BlockedWaits
<1>11. QED  BY <1>5, <1>6, <1>7, <1>8, <1>9, <1>10 DEF IInv

(***************************************************************************)
(* The stack is an elementary cycle when the start is a neighbour of its   *)
(* last node.                                                              *)
(***************************************************************************)
LEMMA StackIsCycle ==
  ASSUME TypeOK, CallsFormPath, CloseCycle
  PROVE  /\ Stack \in Seq(Node) /\ IsElementaryCycle(graph, Stack)
         /\ start \in DOMAIN scc /\ Stack[1] = scc[start]
         /\ NodesOf(Stack) \subseteq NodesOf(scc)
<1> DEFINE n == Len(frames)
<1>1. /\ frames # << >> /\ n \in Nat \ {0} /\ DOMAIN frames = 1 .. n
      /\ \A i \in 1 .. n : frames[i].node \in Node
      /\ Top = frames[n]
  BY FramesType DEF CloseCycle
<1>2. Stack \in Seq(Node) /\ Len(Stack) = n /\ DOMAIN Stack = 1 .. n
      /\ \A i \in 1 .. n : Stack[i] = frames[i].node
  BY <1>1 DEF Stack
<1>3. Stack # << >> /\ Distinct(Stack)
  BY <1>1, <1>2 DEF Distinct, CallsFormPath
<1>4. IsPath(graph, Stack)
  <2> SUFFICES ASSUME NEW i \in 1 .. n-1 PROVE Stack[i+1] \in graph[Stack[i]]
    BY <1>2 DEF IsPath
  <2> DEFINE k == i + 1
  <2>1. k \in DOMAIN frames /\ k > 1 /\ k - 1 = i
    BY <1>1
  <2> HIDE DEF k
  <2>2. frames[k].node \in Adj(frames[k-1].node)
    BY <2>1 DEF CallsFormPath
  <2>3. frames[i+1].node \in Adj(frames[i].node)
    BY <2>1, <2>2 DEF k
  <2>4. QED  BY <1>1, <1>2, <2>3, AdjType
<1>5. Stack[1] \in graph[Stack[Len(Stack)]]
  <2>1. StartNode \in Adj(Top.node) /\ Stack[1] = StartNode
    BY <1>1, <1>2 DEF CloseCycle, CallsFormPath
  <2>2. QED  BY <1>1, <1>2, <2>1, AdjType
<1>6. start \in DOMAIN scc /\ Stack[1] = scc[start]
  <2>1. start \in 1 .. Len(scc) + 1 /\ start <= Len(scc) /\ scc \in Seq(Node)
    BY <1>1 DEF TypeOK, CallsFormPath
  <2>2. start \in 1 .. Len(scc) /\ DOMAIN scc = 1 .. Len(scc)
    BY <2>1
  <2>3. QED  BY <1>1, <1>2, <2>2 DEF CallsFormPath, StartNode
<1>7. ASSUME NEW i \in 1 .. n PROVE Stack[i] \in NodesOf(scc)
  <2>1. CASE i = 1
    BY <1>6, <2>1 DEF NodesOf
  <2>2. CASE i > 1
    BY <1>1, <1>2, <2>2 DEF CallsFormPath, Adj
  <2>3. QED  BY <2>1, <2>2
<1>8. NodesOf(Stack) \subseteq NodesOf(scc)
  BY <1>2, <1>7 DEF NodesOf
<1>9. QED  BY <1>2, <1>3, <1>4, <1>5, <1>6, <1>8 DEF IsElementaryCycle

LEMMA CloseCycleInvariant == IInv /\ CloseCycle => IInv'
<1> SUFFICES ASSUME IInv, CloseCycle PROVE IInv'
  OBVIOUS
<1> DEFINE n == Len(frames)
<1>1. TypeOK /\ frames # << >> /\ UNCHANGED <<graph, scc, start, blocked, fruitless>>
  BY DEF IInv, CloseCycle
<1>2. /\ n \in Nat \ {0} /\ DOMAIN frames = 1 .. n /\ Top = frames[n]
      /\ \A i \in 1 .. n : frames[i].node \in Node /\ frames[i].todo \in SUBSET Node
  BY <1>1, FramesType
<1>3. /\ frames' \in Seq(Frame) /\ Len(frames') = n /\ DOMAIN frames' = 1 .. n
      /\ \A i \in 1 .. n : /\ frames'[i].node = frames[i].node
                           /\ frames'[i].todo \subseteq frames[i].todo
      /\ frames'[n].found = TRUE
  <2>1. n \in 1 .. n
    BY <1>2
  <2>2. QED  BY <1>1, <1>2, <2>1, CloseCycleFrames
<1>4. \A v : Adj(v)' = Adj(v) /\ Unblocked(v)' = Unblocked(v)
  BY <1>1, AdjUnchanged, UnblockedIsClosure
<1>5. StartNode' = StartNode
  BY <1>1 DEF StartNode
<1>6. TypeOK'
  <2>1. cycles' \subseteq Seq(Node)
    BY StackIsCycle DEF IInv, TypeOK, CloseCycle
  <2>2. QED  BY <1>1, <1>3, <2>1 DEF TypeOK
<1>7. CallsFormPath'
  <2>1. frames' # << >>
    BY <1>2, <1>3
  <2>2. QED  BY <1>1, <1>2, <1>3, <1>4, <1>5, <2>1 DEF IInv, CallsFormPath
<1>8. StackStaysBlocked'
  BY <1>1, <1>2, <1>3, <1>4 DEF IInv, StackStaysBlocked
<1>9. ListsOfBlockedOnly'
  BY <1>1 DEF IInv, ListsOfBlockedOnly
<1>10. FruitlessSoFar'
  BY <1>2, <1>3 DEF FruitlessSoFar
<1>11. RecordedAreCycles'
  <2>1. start \in Int
    BY <1>1 DEF TypeOK
  <2>2. cycles' = cycles \cup {Stack}
    BY DEF CloseCycle
  <2>3. QED  BY <1>1, <2>1, <2>2, StackIsCycle DEF IInv, RecordedAreCycles
<1>12. BlockedWaits'
  <2>1. NodesOf(Stack)' = NodesOf(Stack)
    BY <1>2, <1>3 DEF NodesOf, Stack
  <2>2. QED  BY <1>1, <1>4, <1>5, <2>1 DEF IInv, BlockedWaits
<1>13. QED  BY <1>6, <1>7, <1>8, <1>9, <1>10, <1>11, <1>12 DEF IInv

LEMMA PassOverInvariant ==
  ASSUME IInv, NEW w \in Node, PassOver(w)
  PROVE  IInv'
<1> DEFINE n == Len(frames)
<1>1. /\ TypeOK /\ frames # << >> /\ w \in blocked /\ w # StartNode
      /\ UNCHANGED <<graph, scc, start, blocked, fruitless, cycles>>
  BY DEF IInv, PassOver
<1>2. /\ n \in Nat \ {0} /\ DOMAIN frames = 1 .. n /\ Top = frames[n]
      /\ \A i \in 1 .. n : frames[i].node \in Node /\ frames[i].todo \in SUBSET Node
  BY <1>1, FramesType
<1>3. /\ frames' \in Seq(Frame) /\ Len(frames') = n /\ DOMAIN frames' = 1 .. n
      /\ \A i \in 1 .. n : /\ frames'[i].node = frames[i].node
                           /\ frames'[i].found = frames[i].found
                           /\ frames'[i].todo \subseteq frames[i].todo
                           /\ frames[i].todo \subseteq frames'[i].todo \cup {w}
  BY <1>1, <1>2, PassOverFrames
<1>4. \A v : Adj(v)' = Adj(v) /\ Unblocked(v)' = Unblocked(v)
  BY <1>1, AdjUnchanged, UnblockedIsClosure
<1>5. StartNode' = StartNode
  BY <1>1 DEF StartNode
<1>6. TypeOK'
  BY <1>1, <1>3 DEF TypeOK
<1>7. CallsFormPath'
  <2>1. frames' # << >>
    BY <1>2, <1>3
  <2>2. QED  BY <1>1, <1>2, <1>3, <1>4, <1>5, <2>1 DEF IInv, CallsFormPath
<1>8. StackStaysBlocked'
  BY <1>1, <1>2, <1>3, <1>4 DEF IInv, StackStaysBlocked
<1>9. ListsOfBlockedOnly' /\ RecordedAreCycles'
  BY <1>1 DEF IInv, ListsOfBlockedOnly, RecordedAreCycles
<1>10. FruitlessSoFar'
  BY <1>1, <1>2, <1>3, <1>4, <1>5 DEF IInv, FruitlessSoFar
<1>11. BlockedWaits'
  <2>1. NodesOf(Stack)' = NodesOf(Stack)
    BY <1>2, <1>3 DEF NodesOf, Stack
  <2>2. QED  BY <1>1, <1>4, <1>5, <2>1 DEF IInv, BlockedWaits
<1>12. QED  BY <1>6, <1>7, <1>8, <1>9, <1>10, <1>11 DEF IInv

(***************************************************************************)
(* A call for a node that is not blocked: its fruitless list is empty, so  *)
(* blocking it gives unblock no new way.                                   *)
(***************************************************************************)
LEMMA DescendInvariant ==
  ASSUME IInv, NEW w \in Node, Descend(w)
  PROVE  IInv'
<1> DEFINE n == Len(frames)
<1>1. /\ TypeOK /\ frames # << >> /\ w \notin blocked /\ w # StartNode
      /\ w \in Top.todo /\ blocked' = blocked \cup {w}
      /\ UNCHANGED <<graph, scc, start, fruitless, cycles>>
  BY DEF IInv, Descend
<1>2. /\ n \in Nat \ {0} /\ DOMAIN frames = 1 .. n /\ Top = frames[n]
      /\ \A i \in 1 .. n : frames[i].node \in Node /\ frames[i].todo \in SUBSET Node
  BY <1>1, FramesType
<1>3. /\ frames' \in Seq(Frame) /\ Len(frames') = n+1 /\ DOMAIN frames' = 1 .. n+1
      /\ \A i \in 1 .. n : /\ frames'[i].node = frames[i].node
                           /\ frames'[i].found = frames[i].found
                           /\ frames'[i].todo \subseteq frames[i].todo
                           /\ frames[i].todo \subseteq frames'[i].todo \cup {w}
      /\ frames'[n+1].node = w /\ frames'[n+1].todo = Adj(w)
  <2>1. frames'[n+1].node = w /\ frames'[n+1].todo = Adj(w)
    <3>1. frames'[n+1] = NewFrame(w)
      BY <1>1, DescendFrames
    <3>2. QED  BY <3>1 DEF NewFrame
  <2>2. QED  BY <1>1, <1>2, <2>1, DescendFrames
<1>4. \A i \in 1 .. n+1 : i = n+1 \/ i \in 1 .. n
  BY <1>2
<1>5. \A v : Adj(v)' = Adj(v)
  BY <1>1, AdjUnchanged
<1>6. StartNode' = StartNode
  BY <1>1 DEF StartNode
<1>7. \A i \in 1 .. n : frames[i].node \in blocked /\ frames[i].node # w
  BY <1>1, <1>2 DEF IInv, StackStaysBlocked
<1>8. TypeOK'
  BY <1>1, <1>3 DEF TypeOK
<1>9. CallsFormPath'
  <2>1. start' <= Len(scc') /\ frames'[1].node = StartNode'
    BY <1>1, <1>2, <1>3, <1>6 DEF IInv, CallsFormPath
  <2>2. \A i \in 1 .. n+1 : frames'[i].todo \subseteq Adj(frames'[i].node)
    BY <1>2, <1>3, <1>4 DEF IInv, CallsFormPath
  <2>3. \A i, j \in 1 .. n+1 : frames'[i].node = frames'[j].node => i = j
    BY <1>2, <1>3, <1>4, <1>7 DEF IInv, CallsFormPath
  <2>4. \A i \in 1 .. n+1 : i > 1 => frames'[i].node \in Adj(frames'[i-1].node)
    <3>1. w \in Adj(frames[n].node)
      BY <1>1, <1>2 DEF IInv, CallsFormPath
    <3>2. \A i \in 1 .. n : i > 1 => frames[i].node \in Adj(frames[i-1].node)
      BY <1>2 DEF IInv, CallsFormPath
    <3>3. \A i \in 1 .. n : i > 1 => i-1 \in 1 .. n
      BY <1>2
    <3>4. (n+1)-1 = n /\ n \in 1 .. n
      BY <1>2
    <3> HIDE DEF n
    <3>5. QED  BY <1>3, <1>4, <3>1, <3>2, <3>3, <3>4
  <2>5. QED  BY <1>3, <1>5, <2>1, <2>2, <2>3, <2>4 DEF CallsFormPath
<1>10. fruitless \in [Node -> SUBSET Node] /\ fruitless[w] = {}
  BY <1>1 DEF IInv, TypeOK, ListsOfBlockedOnly
<1>11. ASSUME NEW v \in Node
       PROVE  Closure(fruitless', blocked', v) \subseteq Closure(fruitless, blocked, v) \cup {w}
  <2>1. Closure(fruitless, blocked \cup {w}, v) \subseteq Closure(fruitless, blocked, v) \cup {w}
    BY <1>10, ClosureWithBlocked
  <2>2. QED  BY <1>1, <2>1
<1>12. Closure(fruitless', blocked', w) \subseteq {w}
  <2>1. Closed(fruitless, blocked', {w})
    BY <1>10 DEF Closed
  <2>2. Closure(fruitless, blocked', w) \subseteq {w}
    BY <2>1, ClosureLeast
  <2>3. QED  BY <1>1, <2>2
<1>13. StackStaysBlocked'
  <2>1. \A i \in 1 .. n+1 : frames'[i].node \in blocked'
    BY <1>1, <1>3, <1>4, <1>7
  <2>2. ASSUME NEW i \in 1 .. n+1, NEW j \in 1 .. n+1, i < j
        PROVE  frames'[i].node \notin Closure(fruitless', blocked', frames'[j].node)
    <3>1. i \in 1 .. n /\ frames'[i].node = frames[i].node /\ frames[i].node # w
      BY <1>2, <1>3, <1>7, <2>2
    <3>2. CASE j = n+1
      BY <1>3, <1>12, <3>1, <3>2
    <3>3. CASE j \in 1 .. n
      <4>1. frames[i].node \notin Closure(fruitless, blocked, frames[j].node)
        BY <1>2, <2>2, <3>1, <3>3, StackAsClosure DEF IInv
      <4>2. frames'[j].node = frames[j].node /\ frames[j].node \in Node
        BY <1>2, <1>3, <3>3
      <4>3. QED  BY <1>11, <3>1, <4>1, <4>2
    <3>4. QED  BY <1>4, <3>2, <3>3
  <2>3. QED  BY <1>3, <2>1, <2>2, StackAsClosure
<1>14. ListsOfBlockedOnly' /\ RecordedAreCycles'
  BY <1>1 DEF IInv, ListsOfBlockedOnly, RecordedAreCycles
<1>15. FruitlessSoFar'
  <2> SUFFICES ASSUME NEW i \in 1 .. n+1,
                      \A j \in 1 .. n+1 : j >= i => ~frames'[j].found,
                      NEW u \in Adj(frames'[i].node) \ frames'[i].todo
               PROVE  u \in blocked' /\ u # StartNode
    BY <1>3, <1>5, <1>6 DEF FruitlessSoFar
  <2>1. i \in 1 .. n
    BY <1>3, <1>4
  <2>2. \A j \in 1 .. n : j >= i => ~frames[j].found
    BY <1>2, <1>3
  <2>3. u \in Adj(frames[i].node) /\ (u \notin frames[i].todo \/ u = w)
    BY <1>3, <2>1
  <2>4. QED  BY <1>1, <1>2, <2>1, <2>2, <2>3 DEF IInv, FruitlessSoFar
<1>16. BlockedWaits'
  <2>1. NodesOf(Stack)' = {frames'[i].node : i \in 1 .. n+1}
    BY <1>3 DEF NodesOf, Stack
  <2>2. NodesOf(Stack) = {frames[i].node : i \in 1 .. n}
    BY <1>1, NodesOfStack
  <2>3. blocked' \ NodesOf(Stack)' \subseteq blocked \ NodesOf(Stack)
    BY <1>1, <1>2, <1>3, <2>1, <2>2
  <2>4. QED  BY <1>1, <1>5, <1>6, <2>3 DEF IInv, BlockedWaits
<1>17. QED  BY <1>8, <1>9, <1>13, <1>14, <1>15, <1>16 DEF IInv

(***************************************************************************)
(* What a returning call does to the lists and the flags.                  *)
(***************************************************************************)
LEMMA FruitfulReturn ==
  ASSUME IInv, Return, Top.found
  PROVE  /\ blocked' = blocked \ Unblocked(Top.node)
         /\ \A x \in Node : fruitless'[x] =
               IF x \in Unblocked(Top.node) THEN {} ELSE fruitless[x]
         /\ fruitless' \in [Node -> SUBSET Node]
BY DEF IInv, TypeOK, Return, BookKeeping

LEMMA FruitlessReturn ==
  ASSUME IInv, Return, ~Top.found
  PROVE  /\ blocked' = blocked
         /\ \A x \in Node : fruitless'[x] =
               IF x \in Adj(Top.node) THEN fruitless[x] \cup {Top.node} ELSE fruitless[x]
         /\ fruitless' \in [Node -> SUBSET Node]
<1>1. Top.node \in Node
  BY FramesType DEF IInv, Return
<1>2. QED  BY <1>1 DEF IInv, TypeOK, Return, BookKeeping

(***************************************************************************)
(* All neighbours of a call that returns without a cycle are blocked.      *)
(***************************************************************************)
LEMMA FruitlessTop ==
  ASSUME IInv, Return, ~Top.found
  PROVE  \A w \in Adj(Top.node) : w \in blocked /\ w # StartNode
<1> DEFINE n == Len(frames)
<1>1. /\ n \in Nat \ {0} /\ DOMAIN frames = 1 .. n /\ Top = frames[n]
      /\ frames[n].todo = {}
  BY FramesType DEF IInv, Return
<1>2. n \in DOMAIN frames /\ \A j \in DOMAIN frames : j >= n => j = n
  BY <1>1
<1>3. QED  BY <1>1, <1>2 DEF IInv, FruitlessSoFar

(***************************************************************************)
(* The lists stay with blocked nodes, whatever the call has found.         *)
(***************************************************************************)
LEMMA ReturnLists ==
  ASSUME IInv, Return
  PROVE  ListsOfBlockedOnly'
<1>1. CASE Top.found
  BY <1>1, FruitfulReturn DEF IInv, ListsOfBlockedOnly
<1>2. CASE ~Top.found
  BY <1>2, FruitlessReturn, FruitlessTop DEF IInv, ListsOfBlockedOnly
<1>3. QED  BY <1>1, <1>2

LEMMA ReturnToLoopInvariant ==
  ASSUME IInv, Return, Len(frames) = 1
  PROVE  IInv'
<1>1. /\ TypeOK /\ frames' = << >> /\ start' = start + 1
      /\ UNCHANGED <<graph, scc, cycles>>
  BY DEF IInv, Return
<1>2. start \in 1 .. Len(scc)
  BY DEF IInv, TypeOK, Return, CallsFormPath
<1>3. blocked' \subseteq Node /\ fruitless' \in [Node -> SUBSET Node]
  BY FruitfulReturn, FruitlessReturn DEF IInv, TypeOK
<1>4. TypeOK'
  BY <1>1, <1>2, <1>3 DEF TypeOK
<1>5. RecordedAreCycles'
  <2>1. scc \in Seq(Node) /\ start \in Int /\ \A i \in DOMAIN scc : i \in Int
    BY <1>1 DEF TypeOK
  <2>2. \A i \in DOMAIN scc : i <= start => i <= start'
    BY <1>1, <2>1
  <2>3. QED  BY <1>1, <2>2 DEF IInv, RecordedAreCycles
<1>6. CallsFormPath' /\ StackStaysBlocked' /\ FruitlessSoFar' /\ BlockedWaits'
  BY <1>1 DEF CallsFormPath, StackStaysBlocked, FruitlessSoFar, BlockedWaits
<1>7. QED  BY <1>4, <1>5, <1>6, ReturnLists DEF IInv

(***************************************************************************)
(* A return to the calling frame leaves a shorter path.                    *)
(***************************************************************************)
LEMMA IndexSplit ==
  ASSUME NEW n \in Nat \ {0}
  PROVE  /\ \A i \in 1 .. n : i = n \/ i \in 1 .. n-1
         /\ \A i \in 1 .. n-1 : i \in 1 .. n /\ i < n
         /\ n \in 1 .. n
OBVIOUS

LEMMA ReturnPath ==
  ASSUME IInv, Return, Len(frames) # 1
  PROVE  CallsFormPath'
<1> DEFINE n == Len(frames)
<1>1. TypeOK /\ CallsFormPath /\ frames # << >> /\ UNCHANGED <<graph, scc, start>>
  BY DEF IInv, Return
<1>2. /\ n \in Nat \ {0} /\ DOMAIN frames = 1 .. n
  BY <1>1, FramesType
<1>3. /\ DOMAIN frames' = 1 .. n-1 /\ n-1 \in 1 .. n
      /\ \A i \in 1 .. n-1 : /\ frames'[i].node = frames[i].node
                             /\ frames'[i].todo = frames[i].todo
  BY <1>1, ReturnFrames
<1>4. \A i \in 1 .. n-1 : i \in 1 .. n
  BY <1>2, IndexSplit
<1>5. \A i \in 1 .. n-1 : i > 1 => i-1 \in 1 .. n-1
  BY <1>2
<1>6. 1 \in 1 .. n-1
  BY <1>2, <1>3
<1>7. \A v : Adj(v)' = Adj(v)
  BY <1>1, AdjUnchanged
<1>8. StartNode' = StartNode
  BY <1>1 DEF StartNode
<1> HIDE DEF n
<1>9. start' <= Len(scc') /\ frames'[1].node = StartNode'
  BY <1>1, <1>3, <1>6, <1>8 DEF CallsFormPath
<1>10. \A i \in 1 .. n-1 : frames'[i].todo \subseteq Adj(frames'[i].node)
  BY <1>1, <1>2, <1>3, <1>4 DEF CallsFormPath
<1>11. \A i, j \in 1 .. n-1 : frames'[i].node = frames'[j].node => i = j
  BY <1>1, <1>2, <1>3, <1>4 DEF CallsFormPath
<1>12. \A i \in 1 .. n-1 : i > 1 => frames'[i].node \in Adj(frames'[i-1].node)
  BY <1>1, <1>2, <1>3, <1>4, <1>5 DEF CallsFormPath
<1>13. QED  BY <1>3, <1>7, <1>9, <1>10, <1>11, <1>12 DEF CallsFormPath

(***************************************************************************)
(* A fruitful call returns: whoever waits for an unblocked node is         *)
(* unblocked with it, and no node of the stack is.                         *)
(***************************************************************************)
LEMMA FruitfulReturnInvariant ==
  ASSUME IInv, Return, Len(frames) # 1, Top.found
  PROVE  IInv'
<1> DEFINE n == Len(frames)
           z == Top.node
<1>1. /\ TypeOK /\ frames # << >>
      /\ UNCHANGED <<graph, scc, start, cycles>>
  BY DEF IInv, Return
<1>2. /\ n \in Nat \ {0} /\ DOMAIN frames = 1 .. n /\ Top = frames[n]
      /\ \A i \in 1 .. n : frames[i].node \in Node
  BY <1>1, FramesType
<1>3. /\ frames' \in Seq(Frame) /\ Len(frames') = n-1 /\ DOMAIN frames' = 1 .. n-1
      /\ n-1 \in 1 .. n
      /\ \A i \in 1 .. n-1 : /\ frames'[i].node = frames[i].node
                             /\ frames'[i].todo = frames[i].todo
  BY <1>1, ReturnFrames
<1>4. frames'[n-1].found
  BY <1>1, <1>2, ReturnFrames
<1>5. /\ \A i \in 1 .. n : i = n \/ i \in 1 .. n-1
      /\ \A i \in 1 .. n-1 : i \in 1 .. n /\ i < n
      /\ n \in 1 .. n
  BY <1>2, IndexSplit
<1>6. \A v : Adj(v)' = Adj(v)
  BY <1>1, AdjUnchanged
<1>7. StartNode' = StartNode
  BY <1>1 DEF StartNode
<1> DEFINE U == Closure(fruitless, blocked, z)
<1>8. z \in Node /\ fruitless \in [Node -> SUBSET Node] /\ z \in U /\ U \in SUBSET Node
  BY <1>1, <1>2, ClosureHoldsSelf DEF TypeOK
<1>9. /\ blocked' = blocked \ U
      /\ \A x \in Node : fruitless'[x] = IF x \in U THEN {} ELSE fruitless[x]
      /\ fruitless' \in [Node -> SUBSET Node]
  BY FruitfulReturn, UnblockedIsClosure
<1>10. \A i \in 1 .. n-1 : frames[i].node \notin U
  BY <1>2, <1>5, StackAsClosure DEF IInv
<1>11. TypeOK'
  BY <1>1, <1>3, <1>9 DEF TypeOK
<1>12. CallsFormPath'
  BY ReturnPath
<1>13. StackStaysBlocked'
  <2>1. \A i \in 1 .. n-1 : frames'[i].node \in blocked'
    BY <1>2, <1>3, <1>5, <1>9, <1>10, StackAsClosure DEF IInv
  <2>2. ASSUME NEW i \in 1 .. n-1, NEW j \in 1 .. n-1, i < j
        PROVE  frames'[i].node \notin Closure(fruitless', blocked', frames'[j].node)
    <3>1. frames[i].node \notin Closure(fruitless, blocked, frames[j].node)
      BY <1>2, <1>5, <2>2, StackAsClosure DEF IInv
    <3>2. frames[j].node \in Node
      BY <1>2, <1>5
    <3>3. Closure(fruitless', blocked', frames[j].node)
            \subseteq Closure(fruitless, blocked, frames[j].node)
      BY <1>8, <1>9, <3>2, ClosureShrinks
    <3>4. QED  BY <1>3, <3>1, <3>3
  <2>3. QED  BY <1>3, <2>1, <2>2, StackAsClosure
<1>14. FruitlessSoFar'
  BY <1>3, <1>4 DEF FruitlessSoFar
<1>15. RecordedAreCycles'
  BY <1>1 DEF IInv, RecordedAreCycles
<1>16. BlockedWaits'
  <2>1. NodesOf(Stack)' = {frames'[i].node : i \in 1 .. n-1}
    BY <1>3 DEF NodesOf, Stack
  <2>2. NodesOf(Stack) = {frames[i].node : i \in 1 .. n}
    BY <1>1, NodesOfStack
  <2> SUFFICES ASSUME NEW v \in blocked' \ NodesOf(Stack)', NEW w \in Adj(v)
               PROVE  w # StartNode /\ w \in blocked' /\ v \in fruitless'[w]
    BY <1>6, <1>7 DEF BlockedWaits
  <2>3. v \in blocked /\ v \notin U /\ v \in Node
    BY <1>1, <1>9 DEF TypeOK
  <2>4. v \notin NodesOf(Stack)
    <3>1. v # frames[n].node
      BY <1>2, <1>8, <2>3
    <3>2. \A i \in 1 .. n-1 : v # frames[i].node
      BY <1>3, <2>1
    <3>3. QED  BY <1>5, <2>2, <3>1, <3>2
  <2>5. w # StartNode /\ w \in blocked /\ v \in fruitless[w] /\ w \in Node
    BY <1>1, <2>3, <2>4, AdjType DEF IInv, BlockedWaits
  <2>6. w \notin U
    BY <1>8, <2>3, <2>5, ClosureClosed
  <2>7. QED  BY <1>9, <2>5, <2>6
<1>17. QED  BY <1>11, <1>12, <1>13, <1>14, <1>15, <1>16, ReturnLists DEF IInv

(***************************************************************************)
(* A fruitless call returns: its node stays blocked and waits for all its  *)
(* neighbours, which are blocked too.                                      *)
(***************************************************************************)
LEMMA FruitlessReturnInvariant ==
  ASSUME IInv, Return, Len(frames) # 1, ~Top.found
  PROVE  IInv'
<1> DEFINE n == Len(frames)
           z == Top.node
<1>1. /\ TypeOK /\ frames # << >>
      /\ UNCHANGED <<graph, scc, start, cycles>>
  BY DEF IInv, Return
<1>2. /\ n \in Nat \ {0} /\ DOMAIN frames = 1 .. n /\ Top = frames[n]
      /\ \A i \in 1 .. n : frames[i].node \in Node
  BY <1>1, FramesType
<1>3. /\ frames' \in Seq(Frame) /\ Len(frames') = n-1 /\ DOMAIN frames' = 1 .. n-1
      /\ n-1 \in 1 .. n
      /\ \A i \in 1 .. n-1 : /\ frames'[i].node = frames[i].node
                             /\ frames'[i].todo = frames[i].todo
  BY <1>1, ReturnFrames
<1>4. \A i \in 1 .. n-1 : ~frames'[i].found => ~frames[i].found
  <2>1. \A i \in 1 .. n-1 : frames'[i].found = IF i = n-1 THEN frames[i].found \/ Top.found
                                                       ELSE frames[i].found
    BY <1>1, ReturnFrames
  <2>2. QED  BY <2>1
<1>5. /\ \A i \in 1 .. n : i = n \/ i \in 1 .. n-1
      /\ \A i \in 1 .. n-1 : i \in 1 .. n /\ i < n
      /\ n \in 1 .. n
  BY <1>2, IndexSplit
<1>6. \A v : Adj(v)' = Adj(v)
  BY <1>1, AdjUnchanged
<1>7. StartNode' = StartNode
  BY <1>1 DEF StartNode
<1>8. z \in Node /\ fruitless \in [Node -> SUBSET Node]
  BY <1>1, <1>2 DEF TypeOK
<1>9. /\ blocked' = blocked
      /\ \A x \in Node : fruitless'[x] =
            IF x \in Adj(z) THEN fruitless[x] \cup {z} ELSE fruitless[x]
      /\ fruitless' \in [Node -> SUBSET Node]
  BY FruitlessReturn
<1>10. \A w \in Adj(z) : w \in Node /\ w \in blocked /\ w # StartNode
  BY <1>1, <1>8, FruitlessTop, AdjType
<1>11. TypeOK'
  BY <1>1, <1>3, <1>9 DEF TypeOK
<1>12. CallsFormPath'
  BY ReturnPath
<1>13. StackStaysBlocked'
  <2>1. \A i \in 1 .. n-1 : frames'[i].node \in blocked'
    BY <1>2, <1>3, <1>5, <1>9, StackAsClosure DEF IInv
  <2>2. ASSUME NEW i \in 1 .. n-1, NEW j \in 1 .. n-1, i < j
        PROVE  frames'[i].node \notin Closure(fruitless', blocked', frames'[j].node)
    <3>1. /\ frames[i].node \notin Closure(fruitless, blocked, frames[j].node)
          /\ frames[i].node \notin Closure(fruitless, blocked, z)
      <4>1. z = frames[n].node /\ i \in DOMAIN frames /\ j \in DOMAIN frames
            /\ n \in DOMAIN frames /\ i < n
        BY <1>2, <1>5
      <4>2. StackStaysBlocked
        BY DEF IInv
      <4> HIDE DEF n, z
      <4>3. QED  BY <2>2, <4>1, <4>2, StackAsClosure
    <3>2. frames[j].node \in Node
      BY <1>2, <1>5
    <3>3. Closure(fruitless', blocked, frames[j].node)
            \subseteq Closure(fruitless, blocked, frames[j].node)
                      \cup Closure(fruitless, blocked, z)
      BY <1>8, <1>9, <3>2, ClosureWithEntry
    <3>4. QED  BY <1>3, <1>9, <3>1, <3>3
  <2>3. QED  BY <1>3, <2>1, <2>2, StackAsClosure
<1>14. FruitlessSoFar'
  <2> SUFFICES ASSUME NEW i \in 1 .. n-1,
                      \A j \in 1 .. n-1 : j >= i => ~frames'[j].found,
                      NEW u \in Adj(frames[i].node) \ frames[i].todo
               PROVE  u \in blocked' /\ u # StartNode
    BY <1>3, <1>6, <1>7 DEF FruitlessSoFar
  <2>1. \A j \in 1 .. n : j >= i => ~frames[j].found
    <3>1. ~frames[n].found
      BY <1>2
    <3>2. QED  BY <1>4, <1>5, <3>1
  <2>2. i \in DOMAIN frames
    BY <1>2, <1>5
  <2>3. QED  BY <1>2, <1>9, <2>1, <2>2 DEF IInv, FruitlessSoFar
<1>15. RecordedAreCycles'
  BY <1>1 DEF IInv, RecordedAreCycles
<1>16. BlockedWaits'
  <2>1. NodesOf(Stack)' = {frames'[i].node : i \in 1 .. n-1}
    BY <1>3 DEF NodesOf, Stack
  <2>2. NodesOf(Stack) = {frames[i].node : i \in 1 .. n}
    BY <1>1, NodesOfStack
  <2> SUFFICES ASSUME NEW v \in blocked' \ NodesOf(Stack)', NEW w \in Adj(v)
               PROVE  w # StartNode /\ w \in blocked' /\ v \in fruitless'[w]
    BY <1>6, <1>7 DEF BlockedWaits
  <2>3. CASE v = z
    BY <1>9, <1>10, <2>3
  <2>4. CASE v # z
    <3>1. v # frames[n].node /\ \A i \in 1 .. n-1 : v # frames[i].node
      BY <1>2, <1>3, <2>1, <2>4
    <3>2. v \in blocked \ NodesOf(Stack)
      BY <1>5, <1>9, <2>2, <3>1
    <3>3. v \in Node
      BY <1>1, <3>2 DEF TypeOK
    <3>4. w # StartNode /\ w \in blocked /\ v \in fruitless[w] /\ w \in Node
      BY <1>1, <3>2, <3>3, AdjType DEF IInv, BlockedWaits
    <3>5. QED  BY <1>9, <3>4
  <2>5. QED  BY <2>3, <2>4
<1>17. QED  BY <1>11, <1>12, <1>13, <1>14, <1>15, <1>16, ReturnLists DEF IInv

(***************************************************************************)
(* The invariant of the search.                                            *)
(***************************************************************************)
LEMMA NextInvariant == IInv /\ [Next]_vars => IInv'
<1> SUFFICES ASSUME IInv, [Next]_vars PROVE IInv'
  OBVIOUS
<1>1. CASE CallFromStart
  BY <1>1, CallFromStartInvariant
<1>2. CASE CloseCycle
  BY <1>2, CloseCycleInvariant
<1>3. ASSUME NEW w \in Node, Descend(w) PROVE IInv'
  BY <1>3, DescendInvariant
<1>4. ASSUME NEW w \in Node, PassOver(w) PROVE IInv'
  BY <1>4, PassOverInvariant
<1>5. CASE Return
  BY <1>5, ReturnToLoopInvariant, FruitfulReturnInvariant, FruitlessReturnInvariant
<1>6. CASE UNCHANGED vars
  <2>1. \A v : Adj(v)' = Adj(v)
    BY <1>6, AdjUnchanged DEF vars
  <2>2. TypeOK' /\ RecordedAreCycles' /\ ListsOfBlockedOnly'
    BY <1>6 DEF vars, IInv, TypeOK, RecordedAreCycles, ListsOfBlockedOnly
  <2>3. StartNode' = StartNode /\ NodesOf(Stack)' = NodesOf(Stack)
    BY <1>6 DEF vars, StartNode, NodesOf, Stack
  <2>4. CallsFormPath' /\ FruitlessSoFar'
    BY <1>6, <2>1, <2>3 DEF vars, IInv, CallsFormPath, FruitlessSoFar
  <2>5. BlockedWaits'
    BY <1>6, <2>1, <2>3 DEF vars, IInv, BlockedWaits
  <2>6. StackStaysBlocked'
    BY <1>6, StackAsClosure DEF vars, IInv
  <2>7. QED  BY <2>2, <2>4, <2>5, <2>6 DEF IInv
<1>7. QED  BY <1>1, <1>2, <1>3, <1>4, <1>5, <1>6 DEF Next, Step, Finished

LEMMA SearchInvariant == Spec => []IInv
BY InitInvariant, NextInvariant, PTL DEF Spec

(***************************************************************************)
(* Every variable of the search holds values of its kind; in particular    *)
(* the loop of insertSyncVoter never runs past the component.              *)
(***************************************************************************)
THEOREM TypeCorrect == Spec => []TypeOK
<1>1. IInv => TypeOK
  BY DEF IInv
<1>2. QED  BY <1>1, SearchInvariant, PTL

(***************************************************************************)
(* findCycles records only elementary cycles of the data-flow graph that   *)
(* lie in the component, each from a start node that had its turn.         *)
(***************************************************************************)
THEOREM CyclesAreElementary == Spec => []RecordedAreCycles
<1>1. IInv => RecordedAreCycles
  BY DEF IInv
<1>2. QED  BY <1>1, SearchInvariant, PTL

(***************************************************************************)
(* The recursion of unblock never reaches a node that is on the stack      *)
(* below the one it was called for, so no call is ever made for a node     *)
(* that has one already.                                                   *)
(***************************************************************************)
THEOREM StackIsSafe == Spec => []StackStaysBlocked
<1>1. IInv => StackStaysBlocked
  BY DEF IInv
<1>2. QED  BY <1>1, SearchInvariant, PTL

(***************************************************************************)
(* Johnson's blocking discipline, which makes pruning safe.                *)
(***************************************************************************)
THEOREM BlockingDiscipline == Spec => []BlockedWaits
<1>1. IInv => BlockedWaits
  BY DEF IInv
<1>2. QED  BY <1>1, SearchInvariant, PTL

(***************************************************************************)
(* Completeness.  Every set of positions has a first one.                  *)
(***************************************************************************)
LEMMA FirstExists ==
  ASSUME NEW S \in SUBSET Nat, S # {}
  PROVE  \E m \in S : \A k \in S : m <= k
<1>1. PICK m \in S : \A k \in S : ~(<<k, m>> \in OpToRel(<, Nat))
  BY NatLessThanWellFounded, WFMin
<1>2. ASSUME NEW k \in S, k < m PROVE FALSE
  BY <1>1, <1>2 DEF OpToRel
<1>3. m \in Nat /\ \A k \in S : k \in Nat
  OBVIOUS
<1>4. QED  BY <1>2, <1>3

(***************************************************************************)
(* Nothing leads out of a closed set: a path that enters one stays in it   *)
(* to its end.                                                             *)
(***************************************************************************)
LEMMA PathStaysInside ==
  ASSUME NEW g, NEW p \in Seq(Node), IsPath(g, p), NEW S,
         NEW k \in 1 .. Len(p), p[k] \in S, \A u \in S \cap Node : g[u] \cap Node \subseteq S
  PROVE  \A j \in k .. Len(p) : p[j] \in S
<1> DEFINE Outside == {j \in Nat : j \in k .. Len(p) /\ p[j] \notin S}
<1>1. SUFFICES ASSUME Outside # {} PROVE FALSE
  BY DEF Outside
<1>2. PICK m \in Outside : \A j \in Outside : m <= j
  BY <1>1, FirstExists
<1>3. m \in k .. Len(p) /\ m # k /\ p[m] \notin S /\ Len(p) \in Nat
  BY <1>2
<1>4. m - 1 \in k .. Len(p) /\ m - 1 \in 1 .. Len(p) - 1 /\ m - 1 \in Nat /\ m - 1 < m
  BY <1>3
<1>5. p[m-1] \in S
  BY <1>2, <1>4
<1>6. p[(m-1)+1] \in g[p[m-1]]
  BY <1>4 DEF IsPath
<1>7. p[m] \in Node /\ p[m-1] \in Node /\ (m-1)+1 = m
  BY <1>3, <1>4
<1>8. QED  BY <1>3, <1>5, <1>6, <1>7

(***************************************************************************)
(* Reachability is transitive, and every node of a cycle reaches every     *)
(* other: a cycle lies in one strongly connected component.                *)
(***************************************************************************)
LEMMA ReachTransitive ==
  ASSUME NEW g, NEW u, NEW v \in ReachableFrom(g, u), NEW w \in ReachableFrom(g, v)
  PROVE  w \in ReachableFrom(g, u)
BY DEF ReachableFrom

LEMMA CycleReaches ==
  ASSUME NEW g \in Graph, NEW c, IsElementaryCycle(g, c), NEW k \in 1 .. Len(c)
  PROVE  c[k] \in ReachableFrom(g, c[1]) /\ c[1] \in ReachableFrom(g, c[k])
<1>1. /\ c \in Seq(Node) /\ IsPath(g, c) /\ c[1] \in g[c[Len(c)]]
      /\ 1 \in 1 .. Len(c) /\ Len(c) \in 1 .. Len(c) /\ c[1] \in Node /\ c[k] \in Node
  BY DEF IsElementaryCycle
<1>2. ASSUME NEW S \in SUBSET Node, IsClosed(g, S)
      PROVE  \A u \in S \cap Node : g[u] \cap Node \subseteq S
  BY <1>2 DEF IsClosed
<1>3. ASSUME NEW S \in SUBSET Node, c[1] \in S, IsClosed(g, S)
      PROVE  c[k] \in S
  <2>1. \A j \in 1 .. Len(c) : c[j] \in S
    BY <1>1, <1>2, <1>3, PathStaysInside
  <2>2. QED  BY <2>1
<1>4. ASSUME NEW S \in SUBSET Node, c[k] \in S, IsClosed(g, S)
      PROVE  c[1] \in S
  <2>1. \A j \in k .. Len(c) : c[j] \in S
    BY <1>1, <1>2, <1>4, PathStaysInside
  <2>2. c[Len(c)] \in S
    BY <1>1, <2>1
  <2>3. QED  BY <1>1, <1>4, <2>2 DEF IsClosed
<1>5. QED  BY <1>1, <1>3, <1>4 DEF ReachableFrom

LEMMA CycleInComponent ==
  ASSUME NEW g \in Graph, NEW C \in Components(g), NEW c, IsElementaryCycle(g, c),
         c[1] \in C, NEW k \in 1 .. Len(c)
  PROVE  c[k] \in C
<1>1. PICK u \in Node : C = Component(g, u)
  BY DEF Components
<1>2. c[1] \in ReachableFrom(g, u) /\ u \in ReachableFrom(g, c[1])
  BY <1>1 DEF Component
<1>3. c[k] \in ReachableFrom(g, u) /\ u \in ReachableFrom(g, c[k])
  BY <1>2, CycleReaches, ReachTransitive
<1>4. QED  BY <1>1, <1>3 DEF Component

(***************************************************************************)
(* The node after the i-th of a cycle, and the cycles whose beginning is   *)
(* the path of the calls 1 .. i.                                           *)
(***************************************************************************)
NextOn(c, i) == IF i = Len(c) THEN c[1] ELSE c[i+1]

Follows(c, i) == Len(c) >= i /\ \A j \in 1 .. i : c[j] = frames[j].node

(***************************************************************************)
(* The search is confined to a strongly connected component; the loop over *)
(* the starts has found all cycles of the starts it has left behind; and   *)
(* the loop of call i has found all cycles that follow the stack up to its *)
(* node and go on to a neighbour it has left behind.                       *)
(***************************************************************************)
SearchesComponent == NodesOf(scc) \in Components(graph)

EarlierStartsDone ==
  \A c \in ElementaryCycles(graph) :
    c[1] \in {scc[i] : i \in 1 .. start-1} => c \in cycles

PrefixesDone ==
  \A c \in ElementaryCycles(graph) : \A i \in 1 .. Len(frames) :
    (/\ Follows(c, i)
     /\ NextOn(c, i) \notin frames[i].todo
     /\ i < Len(frames) => NextOn(c, i) # frames[i+1].node)
    => c \in cycles

CInv == IInv /\ SearchesComponent /\ EarlierStartsDone /\ PrefixesDone

LEMMA CycleFacts ==
  ASSUME NEW c \in ElementaryCycles(graph)
  PROVE  /\ IsElementaryCycle(graph, c) /\ c \in Seq(Node)
         /\ Len(c) \in Nat \ {0} /\ DOMAIN c = 1 .. Len(c) /\ 1 \in 1 .. Len(c)
         /\ Distinct(c) /\ \A k \in 1 .. Len(c) : c[k] \in Node /\ NextOn(c, k) \in graph[c[k]]
<1>1. IsElementaryCycle(graph, c)
  BY DEF ElementaryCycles
<1>2. /\ c \in Seq(Node) /\ Len(c) \in Nat \ {0} /\ DOMAIN c = 1 .. Len(c)
      /\ Distinct(c) /\ IsPath(graph, c) /\ c[1] \in graph[c[Len(c)]]
  BY <1>1 DEF IsElementaryCycle
<1>3. ASSUME NEW k \in 1 .. Len(c) PROVE c[k] \in Node /\ NextOn(c, k) \in graph[c[k]]
  <2>1. CASE k = Len(c)
    BY <1>2, <2>1 DEF NextOn
  <2>2. CASE k # Len(c)
    <3>1. k \in 1 .. Len(c) - 1
      <4>1. Len(c) \in Nat
        BY <1>2
      <4>2. QED  BY <2>2, <4>1
    <3>2. \A i \in 1 .. Len(c) - 1 : c[i+1] \in graph[c[i]]
      BY <1>2 DEF IsPath
    <3>3. c[k] \in Node /\ NextOn(c, k) = c[k+1]
      BY <1>2, <2>2 DEF NextOn
    <3>4. QED  BY <3>1, <3>2, <3>3
  <2>3. QED  BY <1>2, <2>1, <2>2
<1>4. QED  BY <1>1, <1>2, <1>3

(***************************************************************************)
(* A cycle that begins with the start stays among the neighbours that the  *)
(* calls look at.                                                          *)
(***************************************************************************)
LEMMA CycleStaysInSearch ==
  ASSUME TypeOK, SearchesComponent, start \in 1 .. Len(scc),
         NEW c \in ElementaryCycles(graph), c[1] = StartNode, NEW k \in 1 .. Len(c)
  PROVE  c[k] \in NodesOf(scc) /\ NextOn(c, k) \in Adj(c[k])
<1>1. graph \in Graph /\ StartNode \in NodesOf(scc)
  BY GraphsAssumption DEF TypeOK, StartNode, NodesOf
<1>2. \A j \in 1 .. Len(c) : c[j] \in NodesOf(scc)
  BY <1>1, CycleFacts, CycleInComponent DEF SearchesComponent
<1>3. NextOn(c, k) \in NodesOf(scc)
  BY <1>2, CycleFacts DEF NextOn
<1>4. QED  BY <1>2, <1>3, CycleFacts DEF Adj

LEMMA CallsFacts ==
  ASSUME CInv, frames # << >>
  PROVE  /\ TypeOK /\ SearchesComponent /\ start \in 1 .. Len(scc)
         /\ Len(frames) \in Nat \ {0} /\ DOMAIN frames = 1 .. Len(frames)
         /\ frames[1].node = StartNode
         /\ \A i, j \in 1 .. Len(frames) : frames[i].node = frames[j].node => i = j
         /\ \A c, i : i \in 1 .. Len(frames) /\ Follows(c, i) => c[1] = StartNode
<1>1. TypeOK /\ SearchesComponent /\ CallsFormPath
  BY DEF CInv, IInv
<1>2. Len(frames) \in Nat \ {0} /\ DOMAIN frames = 1 .. Len(frames)
  BY <1>1, FramesType
<1>3. start \in 1 .. Len(scc) /\ frames[1].node = StartNode
  BY <1>1 DEF TypeOK, CallsFormPath
<1>4. \A i, j \in 1 .. Len(frames) : frames[i].node = frames[j].node => i = j
  BY <1>1, <1>2 DEF CallsFormPath
<1>5. \A c, i : i \in 1 .. Len(frames) /\ Follows(c, i) => c[1] = StartNode
  BY <1>3 DEF Follows
<1>6. QED  BY <1>1, <1>2, <1>3, <1>4, <1>5

LEMMA EarlierStartsKept ==
  ASSUME EarlierStartsDone, UNCHANGED <<graph, scc, start>>, cycles \subseteq cycles'
  PROVE  EarlierStartsDone'
BY DEF EarlierStartsDone, ElementaryCycles, IsElementaryCycle, IsPath

LEMMA ComponentKept ==
  ASSUME SearchesComponent, UNCHANGED <<graph, scc>>
  PROVE  SearchesComponent' /\ ElementaryCycles(graph)' = ElementaryCycles(graph)
BY DEF SearchesComponent, NodesOf

LEMMA InitComplete == Init => CInv
<1> SUFFICES ASSUME Init PROVE CInv
  OBVIOUS
<1>1. IInv
  BY InitInvariant
<1>2. SearchesComponent
  BY ListsType DEF Init, SearchesComponent
<1>3. EarlierStartsDone /\ PrefixesDone
  BY DEF Init, BeginSearch, EarlierStartsDone, PrefixesDone
<1>4. QED  BY <1>1, <1>2, <1>3 DEF CInv

LEMMA CallFromStartComplete == CInv /\ CallFromStart => PrefixesDone'
<1> SUFFICES ASSUME CInv, CallFromStart,
                    NEW c \in ElementaryCycles(graph), NEW i \in 1 .. Len(frames'),
                    Follows(c, i)', NextOn(c, i) \notin frames'[i].todo
             PROVE  FALSE
  BY ComponentKept DEF PrefixesDone, CInv, CallFromStart, NextOn
<1>1. TypeOK /\ SearchesComponent /\ start \in 1 .. Len(scc)
  BY DEF CInv, IInv, TypeOK, CallFromStart
<1>2. i = 1 /\ frames'[i].node = StartNode /\ frames'[i].todo = Adj(StartNode)
  BY DEF CallFromStart, NewFrame
<1>3. c[1] = StartNode
  BY <1>2 DEF Follows
<1>4. NextOn(c, 1) \in Adj(c[1])
  BY <1>1, <1>3, CycleStaysInSearch, CycleFacts
<1>5. QED  BY <1>2, <1>3, <1>4

LEMMA CloseCycleComplete == CInv /\ CloseCycle => PrefixesDone'
<1> DEFINE n == Len(frames)
<1> SUFFICES ASSUME CInv, CloseCycle,
                    NEW c \in ElementaryCycles(graph), NEW i \in 1 .. Len(frames'),
                    Follows(c, i)', NextOn(c, i) \notin frames'[i].todo,
                    i < Len(frames') => NextOn(c, i) # frames'[i+1].node
             PROVE  c \in cycles'
  BY ComponentKept DEF PrefixesDone, CInv, CloseCycle, NextOn
<1>1. frames # << >> /\ cycles' = cycles \cup {Stack}
  BY DEF CloseCycle
<1>2. TypeOK /\ n \in Nat \ {0} /\ frames[1].node = StartNode /\ PrefixesDone
  BY <1>1, CallsFacts DEF CInv
<1>3. /\ Len(frames') = n
      /\ \A j \in 1 .. n : /\ frames'[j].node = frames[j].node
                           /\ frames'[j].todo = IF j = n THEN frames[j].todo \ {StartNode}
                                                         ELSE frames[j].todo
  BY <1>2, CloseCycleFrames
<1> HIDE DEF n
<1>n. n \in Nat /\ i \in 1 .. n
  BY <1>2, <1>3
<1>4. Follows(c, i)
  <2>1. Len(c) >= i /\ \A j \in 1 .. i : c[j] = frames'[j].node
    BY DEF Follows
  <2>2. \A j \in 1 .. i : j \in 1 .. n
    BY <1>n
  <2>3. QED  BY <1>3, <2>1, <2>2 DEF Follows
<1>5. CASE i < n
  <2>0. i+1 \in 1 .. n /\ i # n
    BY <1>n, <1>5
  <2>1. NextOn(c, i) # frames[i+1].node /\ NextOn(c, i) \notin frames[i].todo
    BY <1>n, <1>3, <1>5, <2>0
  <2>2. c \in cycles
    BY <1>n, <1>2, <1>4, <2>1 DEF PrefixesDone, n
  <2>3. QED  BY <1>1, <2>2
<1>6. CASE i = n /\ NextOn(c, i) \notin frames[n].todo
  <2>1. c \in cycles
    BY <1>n, <1>2, <1>4, <1>6 DEF PrefixesDone, n
  <2>2. QED  BY <1>1, <2>1
<1>7. CASE i = n /\ NextOn(c, i) = StartNode
  <2>1. /\ c \in Seq(Node) /\ Len(c) \in Nat \ {0} /\ Len(c) >= n
        /\ Distinct(c) /\ DOMAIN c = 1 .. Len(c) /\ c[1] = StartNode
    BY <1>1, <1>n, <1>4, <1>7, CycleFacts, CallsFacts DEF Follows, n
  <2>2. Len(c) = n
    <3>1. SUFFICES ASSUME Len(c) # n PROVE FALSE
      OBVIOUS
    <3>2. c[n+1] = c[1] /\ n+1 \in 1 .. Len(c) /\ 1 \in 1 .. Len(c) /\ n+1 # 1
      <4>1. NextOn(c, n) = c[n+1]
        BY <3>1 DEF NextOn
      <4>2. c[n+1] = c[1]
        BY <1>7, <2>1, <4>1
      <4>3. Len(c) \in Nat /\ Len(c) >= n /\ Len(c) # n /\ n \in Nat
        BY <1>n, <2>1, <3>1
      <4>4. n+1 \in 1 .. Len(c) /\ 1 \in 1 .. Len(c) /\ n+1 # 1
        <5> HIDE DEF n
        <5>1. QED  BY <1>n, <4>3
      <4>5. QED  BY <4>2, <4>4
    <3>3. QED  BY <2>1, <3>2 DEF Distinct
  <2>3. c = [j \in 1 .. n |-> c[j]]
    BY <2>1, <2>2
  <2>4. \A j \in 1 .. n : c[j] = frames[j].node
    BY <1>4, <1>7 DEF Follows
  <2>5. c = Stack
    BY <2>3, <2>4 DEF Stack, n
  <2>6. QED  BY <1>1, <2>5
<1>8. i < n \/ i = n
  BY <1>n
<1>9. i = n => NextOn(c, i) \notin frames[n].todo \/ NextOn(c, i) = StartNode
  BY <1>n, <1>3
<1>10. QED  BY <1>5, <1>6, <1>7, <1>8, <1>9

LEMMA DescendComplete ==
  ASSUME CInv, NEW w \in Node, Descend(w)
  PROVE  PrefixesDone'
<1> DEFINE n == Len(frames)
<1> SUFFICES ASSUME NEW c \in ElementaryCycles(graph), NEW i \in 1 .. Len(frames'),
                    Follows(c, i)', NextOn(c, i) \notin frames'[i].todo,
                    i < Len(frames') => NextOn(c, i) # frames'[i+1].node
             PROVE  c \in cycles'
  BY ComponentKept DEF PrefixesDone, CInv, Descend, NextOn
<1>1. frames # << >> /\ cycles' = cycles
  BY DEF Descend
<1>2. /\ TypeOK /\ n \in Nat \ {0} /\ frames[1].node = StartNode /\ PrefixesDone
      /\ SearchesComponent /\ start \in 1 .. Len(scc)
  BY <1>1, CallsFacts DEF CInv
<1>3. /\ Len(frames') = n + 1
      /\ \A j \in 1 .. n : /\ frames'[j].node = frames[j].node
                           /\ frames'[j].todo = IF j = n THEN frames[j].todo \ {w}
                                                         ELSE frames[j].todo
      /\ frames'[n+1].node = w /\ frames'[n+1].todo = Adj(w)
  <2>1. NewFrame(w).node = w /\ NewFrame(w).todo = Adj(w)
    BY DEF NewFrame
  <2>2. QED  BY <1>2, <2>1, DescendFrames
<1> HIDE DEF n
<1>n. n \in Nat /\ 1 \in 1 .. n /\ i \in 1 .. n + 1
  BY <1>2, <1>3
<1>4. CASE i <= n
  <2>1. Follows(c, i)
    <3>1. Len(c) >= i /\ \A j \in 1 .. i : c[j] = frames'[j].node
      BY DEF Follows
    <3>2. \A j \in 1 .. i : j \in 1 .. n
      BY <1>n, <1>4
    <3>3. QED  BY <1>3, <3>1, <3>2 DEF Follows
  <2>2. NextOn(c, i) \notin frames[i].todo /\ (i < n => NextOn(c, i) # frames[i+1].node)
    <3>1. i < n + 1 /\ i \in 1 .. n /\ NextOn(c, i) # frames'[i+1].node
      BY <1>n, <1>3, <1>4
    <3>2. CASE i = n
      <4>1. n \in 1 .. n /\ ~(n < n)
        BY <1>n
      <4>2. frames'[n].todo = frames[n].todo \ {w} /\ frames'[n+1].node = w
        BY <1>3, <4>1
      <4>3. QED  BY <3>1, <3>2, <4>1, <4>2
    <3>3. CASE i < n
      <4>1. i+1 \in 1 .. n /\ i # n
        BY <1>n, <3>1, <3>3
      <4>2. QED  BY <1>3, <3>1, <4>1
    <3>4. QED  BY <1>n, <3>1, <3>2, <3>3
  <2>3. i \in 1 .. n
    BY <1>n, <1>4
  <2>4. QED  BY <1>1, <1>2, <2>1, <2>2, <2>3 DEF PrefixesDone, n
<1>5. CASE i = n + 1
  <2>1. Len(c) >= n+1 /\ c[n+1] = w /\ c[1] = StartNode
    <3>1. 1 \in 1 .. i /\ n+1 \in 1 .. i
      BY <1>n, <1>5
    <3>2. Len(c) >= i /\ \A j \in 1 .. i : c[j] = frames'[j].node
      BY DEF Follows
    <3>3. QED  BY <1>n, <1>2, <1>3, <1>5, <3>1, <3>2
  <2>2. n+1 \in 1 .. Len(c)
    BY <1>n, <2>1, CycleFacts
  <2>3. NextOn(c, n+1) \in Adj(c[n+1])
    BY <1>2, <2>1, <2>2, CycleStaysInSearch
  <2>4. QED  BY <1>3, <1>5, <2>1, <2>3
<1>6. QED  BY <1>n, <1>4, <1>5

(***************************************************************************)
(* What Johnson's pruning rests on: no cycle from the start goes on from   *)
(* the stack to a blocked node.  By the blocking discipline the cycle      *)
(* could never leave the blocked nodes that are off the stack, and none of *)
(* them leads back to the start.                                           *)
(***************************************************************************)
LEMMA NoCycleThroughBlocked ==
  ASSUME CInv, frames # << >>, NEW c \in ElementaryCycles(graph),
         Follows(c, Len(frames)), Len(frames) # Len(c)
  PROVE  c[Len(frames) + 1] \notin blocked
<1> DEFINE n == Len(frames)
           Free == {k \in Nat : k \in n+1 .. Len(c) /\ c[k] \notin blocked}
<1> SUFFICES ASSUME c[n+1] \in blocked PROVE FALSE
  OBVIOUS
<1>1. /\ TypeOK /\ SearchesComponent /\ start \in 1 .. Len(scc) /\ n \in Nat \ {0}
      /\ c[1] = StartNode
  <2>1. n \in Nat \ {0}
    BY CallsFacts
  <2>2. n \in 1 .. n
    BY <2>1
  <2>3. QED  BY <2>1, <2>2, CallsFacts
<1>2. Len(c) \in Nat /\ n < Len(c) /\ \A j \in 1 .. n : c[j] = frames[j].node
  <2>1. Len(c) \in Nat /\ Len(c) >= n /\ Len(c) # n
    BY CycleFacts DEF Follows
  <2>2. QED  BY <1>1, <2>1 DEF Follows
<1>3. NodesOf(Stack) = {frames[j].node : j \in 1 .. n}
  BY <1>1, NodesOfStack
<1> HIDE DEF n
<1>4. ASSUME NEW k \in n+1 .. Len(c)
      PROVE  k \in 1 .. Len(c) /\ c[k] \in Node /\ c[k] \notin NodesOf(Stack)
             /\ NextOn(c, k) \in Adj(c[k])
  <2>1. k \in 1 .. Len(c)
    BY <1>1, <1>2
  <2>2. ASSUME NEW j \in 1 .. n, c[k] = frames[j].node PROVE FALSE
    <3>1. j \in 1 .. Len(c) /\ j # k
      BY <1>1, <1>2
    <3>2. c[j] = c[k]
      BY <1>2, <2>2
    <3>3. QED  BY <2>1, <3>1, <3>2, CycleFacts DEF Distinct
  <2>3. c[k] \notin NodesOf(Stack)
    BY <1>3, <2>2
  <2>4. c[k] \in Node
    BY <2>1, CycleFacts
  <2>5. QED  BY <1>1, <2>1, <2>3, <2>4, CycleStaysInSearch
<1>5. ASSUME NEW k \in n+1 .. Len(c), c[k] \in blocked
      PROVE  NextOn(c, k) \in blocked /\ NextOn(c, k) # StartNode
  <2>1. c[k] \in blocked \ NodesOf(Stack) /\ NextOn(c, k) \in Adj(c[k])
    BY <1>4, <1>5
  <2>2. BlockedWaits
    BY DEF CInv, IInv
  <2>3. QED  BY <2>1, <2>2 DEF BlockedWaits
<1>6. \A k \in n+1 .. Len(c) : c[k] \in blocked
  <2>1. SUFFICES ASSUME Free # {} PROVE FALSE
    BY <1>1, <1>2
  <2>2. PICK m \in Free : \A k \in Free : m <= k
    BY <2>1, FirstExists
  <2>3. m \in Nat /\ m \in n+1 .. Len(c) /\ c[m] \notin blocked
    BY <2>2
  <2>4. m # n+1
    BY <2>3
  <2>5. m-1 \in n+1 .. Len(c) /\ m-1 \in Nat /\ m-1 < m /\ m-1 # Len(c) /\ (m-1)+1 = m
    BY <1>1, <1>2, <2>3, <2>4
  <2>6. m-1 \notin Free
    <3> HIDE DEF Free
    <3>1. m \in Nat /\ ~(m <= m-1)
      BY <2>3
    <3>2. QED  BY <2>2, <3>1
  <2>7. c[m-1] \in blocked
    BY <2>5, <2>6
  <2>8. NextOn(c, m-1) = c[m]
    BY <2>5 DEF NextOn
  <2>9. QED  BY <1>5, <2>3, <2>5, <2>7, <2>8
<1>7. Len(c) \in n+1 .. Len(c) /\ NextOn(c, Len(c)) = c[1]
  BY <1>1, <1>2 DEF NextOn
<1>8. QED  BY <1>1, <1>5, <1>6, <1>7

LEMMA PassOverComplete ==
  ASSUME CInv, NEW w \in Node, PassOver(w)
  PROVE  PrefixesDone'
<1> DEFINE n == Len(frames)
<1> SUFFICES ASSUME NEW c \in ElementaryCycles(graph), NEW i \in 1 .. Len(frames'),
                    Follows(c, i)', NextOn(c, i) \notin frames'[i].todo,
                    i < Len(frames') => NextOn(c, i) # frames'[i+1].node
             PROVE  c \in cycles'
  BY ComponentKept DEF PrefixesDone, CInv, PassOver, NextOn
<1>1. frames # << >> /\ cycles' = cycles /\ w # StartNode /\ w \in blocked
  BY DEF PassOver
<1>2. TypeOK /\ n \in Nat \ {0} /\ frames[1].node = StartNode /\ PrefixesDone
  BY <1>1, CallsFacts DEF CInv
<1>3. /\ Len(frames') = n
      /\ \A j \in 1 .. n : /\ frames'[j].node = frames[j].node
                           /\ frames'[j].todo = IF j = n THEN frames[j].todo \ {w}
                                                         ELSE frames[j].todo
  BY <1>2, PassOverFrames
<1>4. n \in 1 .. n /\ (Follows(c, n) => c[1] = StartNode)
      /\ (Follows(c, n) /\ n # Len(c) => c[n+1] \notin blocked)
  <2>1. n \in 1 .. n
    BY <1>2
  <2>2. QED  BY <1>1, <2>1, CallsFacts, NoCycleThroughBlocked
<1> HIDE DEF n
<1>n. n \in Nat /\ i \in 1 .. n
  BY <1>2, <1>3
<1>5. Follows(c, i)
  <2>1. Len(c) >= i /\ \A j \in 1 .. i : c[j] = frames'[j].node
    BY DEF Follows
  <2>2. \A j \in 1 .. i : j \in 1 .. n
    BY <1>n
  <2>3. QED  BY <1>3, <2>1, <2>2 DEF Follows
<1>6. CASE i < n
  <2>1. i+1 \in 1 .. n /\ i # n
    BY <1>n, <1>6
  <2>2. NextOn(c, i) # frames[i+1].node /\ NextOn(c, i) \notin frames[i].todo
    BY <1>n, <1>3, <1>6, <2>1
  <2>3. QED  BY <1>n, <1>1, <1>2, <1>5, <2>2 DEF PrefixesDone, n
<1>7. CASE i = n /\ NextOn(c, i) \notin frames[n].todo
  BY <1>n, <1>1, <1>2, <1>5, <1>7 DEF PrefixesDone, n
<1>8. CASE i = n /\ NextOn(c, i) = w
  <2>1. n # Len(c)
    BY <1>1, <1>4, <1>5, <1>8 DEF NextOn
  <2>2. c[n+1] = w
    BY <1>8, <2>1 DEF NextOn
  <2>3. QED  BY <1>1, <1>4, <1>5, <1>8, <2>1, <2>2
<1>9. (i < n \/ i = n) /\ (i = n => NextOn(c, i) \notin frames[n].todo \/ NextOn(c, i) = w)
  <2>1. i < n \/ i = n
    BY <1>n
  <2>2. frames'[n].todo = frames[n].todo \ {w}
    BY <1>3, <1>4
  <2>3. QED  BY <2>1, <2>2
<1>10. QED  BY <1>6, <1>7, <1>8, <1>9

(***************************************************************************)
(* A call returns to another one: whatever follows the stack with the node *)
(* of the call that ends has been found, for its loop is over.             *)
(***************************************************************************)
LEMMA ReturnToCallComplete ==
  ASSUME CInv, Return, Len(frames) # 1
  PROVE  PrefixesDone'
<1> DEFINE n == Len(frames)
<1> SUFFICES ASSUME NEW c \in ElementaryCycles(graph), NEW i \in 1 .. Len(frames'),
                    Follows(c, i)', NextOn(c, i) \notin frames'[i].todo,
                    i < Len(frames') => NextOn(c, i) # frames'[i+1].node
             PROVE  c \in cycles'
  BY ComponentKept DEF PrefixesDone, CInv, Return, NextOn
<1>1. frames # << >> /\ cycles' = cycles /\ frames[n].todo = {}
  BY DEF Return, Top
<1>2. /\ TypeOK /\ n \in Nat \ {0} /\ frames[1].node = StartNode /\ PrefixesDone
      /\ \A j, k \in 1 .. n : frames[j].node = frames[k].node => j = k
      /\ \A k \in 1 .. n : Follows(c, k) => c[1] = StartNode
  BY <1>1, CallsFacts DEF CInv
<1>3. /\ Len(frames') = n - 1
      /\ \A j \in 1 .. n - 1 : /\ frames'[j].node = frames[j].node
                               /\ frames'[j].todo = frames[j].todo
  BY <1>2, ReturnFrames
<1>n. n \in Nat /\ n > 1
  <2>1. n \in Nat /\ n # 0 /\ n # 1
    BY <1>2
  <2> HIDE DEF n
  <2>2. QED  BY <2>1
<1>d. \A j \in 1 .. n : Follows(c, j) /\ NextOn(c, j) \notin frames[j].todo
                        /\ (j < n => NextOn(c, j) # frames[j+1].node) => c \in cycles
  BY <1>2 DEF PrefixesDone
<1> HIDE DEF n
<1>i. i \in 1 .. n-1 /\ i \in 1 .. n
  BY <1>n, <1>3
<1>4. Follows(c, i)
  <2>1. Len(c) >= i /\ \A j \in 1 .. i : c[j] = frames'[j].node
    BY DEF Follows
  <2>2. \A j \in 1 .. i : j \in 1 .. n-1
    BY <1>n, <1>i
  <2>3. QED  BY <1>3, <2>1, <2>2 DEF Follows
<1>5. CASE NextOn(c, i) # frames[i+1].node
  <2>1. NextOn(c, i) \notin frames[i].todo
    BY <1>3, <1>i
  <2>2. QED  BY <1>1, <1>d, <1>i, <1>4, <1>5, <2>1
<1>6. CASE NextOn(c, i) = frames[i+1].node
  <2>1. i+1 = n
    <3>1. SUFFICES ASSUME i+1 # n PROVE FALSE
      OBVIOUS
    <3>2. i < n-1 /\ i+1 \in 1 .. n-1
      BY <1>n, <1>i, <3>1
    <3>3. NextOn(c, i) # frames'[i+1].node
      BY <1>3, <3>2
    <3>4. QED  BY <1>3, <1>6, <3>2, <3>3
  <2>2. NextOn(c, i) # StartNode
    <3>1. 1 \in 1 .. n /\ i+1 \in 1 .. n /\ i+1 # 1
      BY <1>n, <1>i
    <3>2. QED  BY <1>2, <1>6, <3>1
  <2>3. i # Len(c) /\ c[i+1] = frames[i+1].node
    BY <1>2, <1>i, <1>4, <1>6, <2>2 DEF NextOn
  <2>4. Follows(c, n)
    <3>1. Len(c) >= i /\ Len(c) \in Nat /\ \A j \in 1 .. i : c[j] = frames[j].node
      BY <1>4, CycleFacts DEF Follows
    <3>2. Len(c) >= n
      BY <1>n, <1>i, <2>1, <2>3, <3>1
    <3>3. \A j \in 1 .. n : j \in 1 .. i \/ j = i+1
      BY <1>n, <1>i, <2>1
    <3>4. QED  BY <2>3, <3>1, <3>2, <3>3 DEF Follows
  <2>5. n \in 1 .. n /\ ~(n < n)
    BY <1>n
  <2>6. QED  BY <1>1, <1>d, <2>4, <2>5
<1>7. QED  BY <1>5, <1>6

(***************************************************************************)
(* The outermost call returns: all cycles of its start have been found.    *)
(***************************************************************************)
LEMMA ReturnToLoopComplete ==
  ASSUME CInv, Return, Len(frames) = 1
  PROVE  PrefixesDone' /\ EarlierStartsDone'
<1>1. /\ frames # << >> /\ cycles' = cycles /\ frames[1].todo = {}
      /\ frames' = << >> /\ start' = start + 1 /\ UNCHANGED <<graph, scc>>
  BY DEF Return, Top
<1>2. start \in 1 .. Len(scc) /\ frames[1].node = StartNode /\ PrefixesDone /\ EarlierStartsDone
  BY <1>1, CallsFacts DEF CInv
<1>3. PrefixesDone'
  BY <1>1 DEF PrefixesDone
<1>4. EarlierStartsDone'
  <2> SUFFICES ASSUME NEW c \in ElementaryCycles(graph), NEW k \in 1 .. start, c[1] = scc[k]
               PROVE  c \in cycles
    <3>1. \A k \in 1 .. start' - 1 : k \in 1 .. start /\ scc'[k] = scc[k]
      BY <1>1, <1>2
    <3>2. ElementaryCycles(graph)' = ElementaryCycles(graph)
      BY <1>1
    <3>3. QED  BY <1>1, <3>1, <3>2 DEF EarlierStartsDone
  <2>1. CASE k = start
    <3>1. Len(c) >= 1 /\ c[1] = frames[1].node
      BY <1>2, <2>1, CycleFacts DEF StartNode
    <3>2. Follows(c, 1)
      BY <3>1 DEF Follows
    <3>3. 1 \in 1 .. Len(frames) /\ ~(1 < Len(frames))
      OBVIOUS
    <3>4. NextOn(c, 1) \notin frames[1].todo
      BY <1>1
    <3>5. QED  BY <1>2, <3>2, <3>3, <3>4 DEF PrefixesDone
  <2>2. CASE k # start
    <3>1. k \in 1 .. start-1
      BY <1>2, <2>2
    <3>2. QED  BY <1>2, <3>1 DEF EarlierStartsDone
  <2>3. QED  BY <2>1, <2>2
<1>5. QED  BY <1>3, <1>4

LEMMA NextComplete == CInv /\ [Next]_vars => CInv'
<1> SUFFICES ASSUME CInv, [Next]_vars PROVE CInv'
  OBVIOUS
<1>1. IInv'
  BY NextInvariant DEF CInv
<1>2. SearchesComponent'
  <2>1. UNCHANGED <<graph, scc>>
    BY DEF Next, Step, Finished, CallFromStart, CloseCycle, Descend, PassOver, Return, vars
  <2>2. QED  BY <2>1, ComponentKept DEF CInv
<1>3. CASE CallFromStart
  <2>1. EarlierStartsDone'
    BY <1>3, EarlierStartsKept DEF CInv, CallFromStart
  <2>2. QED  BY <1>1, <1>2, <1>3, <2>1, CallFromStartComplete DEF CInv
<1>4. CASE CloseCycle
  <2>1. EarlierStartsDone'
    BY <1>4, EarlierStartsKept DEF CInv, CloseCycle
  <2>2. QED  BY <1>1, <1>2, <1>4, <2>1, CloseCycleComplete DEF CInv
<1>5. ASSUME NEW w \in Node, Descend(w) PROVE CInv'
  <2>1. EarlierStartsDone'
    BY <1>5, EarlierStartsKept DEF CInv, Descend
  <2>2. QED  BY <1>1, <1>2, <1>5, <2>1, DescendComplete DEF CInv
<1>6. ASSUME NEW w \in Node, PassOver(w) PROVE CInv'
  <2>1. EarlierStartsDone'
    BY <1>6, EarlierStartsKept DEF CInv, PassOver
  <2>2. QED  BY <1>1, <1>2, <1>6, <2>1, PassOverComplete DEF CInv
<1>7. CASE Return /\ Len(frames) # 1
  <2>1. UNCHANGED <<graph, scc, start>> /\ cycles' = cycles
    BY <1>7 DEF Return
  <2>2. EarlierStartsDone'
    BY <2>1, EarlierStartsKept DEF CInv
  <2>3. QED  BY <1>1, <1>2, <1>7, <2>2, ReturnToCallComplete DEF CInv
<1>8. CASE Return /\ Len(frames) = 1
  BY <1>1, <1>2, <1>8, ReturnToLoopComplete DEF CInv
<1>9. CASE UNCHANGED vars
  <2>1. EarlierStartsDone'
    BY <1>9, EarlierStartsKept DEF CInv, vars
  <2>2. PrefixesDone'
    BY <1>9 DEF vars, CInv, PrefixesDone, Follows, NextOn
  <2>3. QED  BY <1>1, <1>2, <2>1, <2>2 DEF CInv
<1>10. QED
  BY <1>3, <1>4, <1>5, <1>6, <1>7, <1>8, <1>9 DEF Next, Step, Finished

(***************************************************************************)
(* Johnson's pruning loses nothing: when the loop of insertSyncVoter has   *)
(* left a start behind, findCycles has recorded every elementary cycle     *)
(* that begins with it.                                                    *)
(***************************************************************************)
THEOREM SearchIsComplete == Spec => []StartsAreExhausted
<1>1. CInv => StartsAreExhausted
  BY DEF CInv, EarlierStartsDone, StartsAreExhausted
<1>2. QED  BY <1>1, InitComplete, NextComplete, PTL DEF Spec

=============================================================================
