------------------------------ MODULE CallTree ------------------------------
(***************************************************************************)
(* The call tree of the generated modules (CallGraph) and what a cut       *)
(* through it costs.  Instances are numbered breadth first from main,      *)
(* which is 0; the shared memory controller, if there is one, comes last   *)
(* and counts as called by main.  A tree is the function that gives every  *)
(* other instance its caller.                                              *)
(***************************************************************************)
EXTENDS Integers, FiniteSetsExt

CONSTANTS
  N,                     \* number of instances
  HasMemoryController    \* the last instance is the memory controller

ASSUME SizeAssumption ==
  /\ N \in Nat \ {0}
  /\ HasMemoryController \in BOOLEAN

Instance == 0 .. N - 1

Called == Instance \ {0}

CallTrees ==
  {c \in [Called -> Instance] :
     /\ \A i \in Called : c[i] < i
     /\ HasMemoryController => N > 1 /\ c[N - 1] = 0
     /\ \A i, j \in Called :
          i < j /\ ~(HasMemoryController /\ j = N - 1) => c[i] =< c[j]}

Callees(c, v) == {i \in Called : c[i] = v}

(***************************************************************************)
(* findTargetNode: by default the last instance in breadth-first order     *)
(* that is not the memory controller; in mode 1 the leaf below a given     *)
(* instance that the first calls lead to.                                  *)
(***************************************************************************)
LastLeaf == IF HasMemoryController THEN N - 2 ELSE N - 1

FirstLeaf(c, v) ==
  LET leaf[u \in Instance] ==
        IF Callees(c, u) = {} THEN u ELSE leaf[Min(Callees(c, u))]
  IN  leaf[v]

(***************************************************************************)
(* What connectDFG and the INF edges of mergeNodes make of the tree: an    *)
(* instance and its callees share one net, which costs width[v] when a cut *)
(* divides it; main and the instances of near stay on the side of main,    *)
(* the target and the instances of far on the other.                       *)
(***************************************************************************)
Net(c, v) == {v} \cup Callees(c, v)

CutCost(c, width, P) ==
  MapThenSumSet(LAMBDA v : IF Net(c, v) \cap P # {} /\ ~(Net(c, v) \subseteq P)
                             THEN width[v] ELSE 0, Instance)

Cuts(target, near, far) ==
  {P \in SUBSET (Instance \ (far \cup {target})) :
     {0} \cup (near \ {target}) \subseteq P}

(***************************************************************************)
(* The minimum cut nearest to main, by definition: the instances that are  *)
(* on the side of main in every minimum cut.                               *)
(***************************************************************************)
NearestCut(c, width, target, near, far) ==
  LET priced == {<<P, CutCost(c, width, P)>> : P \in Cuts(target, near, far)}
      least == Min({q[2] : q \in priced})
      minimum == {q[1] : q \in {r \in priced : r[2] = least}}
  IN  {i \in Instance : \A P \in minimum : i \in P}

=============================================================================
