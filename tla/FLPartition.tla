---------------------------- MODULE FLPartition -----------------------------
(***************************************************************************)
(* The function-level partitioners of VerilogWriter.  PART_VOTER_MODE 2:   *)
(* networkFlowPartition looks for at most NUMBER_OF_PARTITIONS sets of     *)
(* instances of limited area, and allows each of them more frames after    *)
(* every failure; networkFlowPartitionMain grows two sides of a minimum    *)
(* cut from main and from a leaf until what is left fits.                  *)
(* PART_VOTER_MODE 1: dfsPartition fills one partition after another with  *)
(* the instances in the order of a depth-first search.                     *)
(*                                                                         *)
(* A definition whose name continues that of the one after it is a         *)
(* plausible slip in the same code; the runs name it as a mutant and no    *)
(* action uses it.                                                         *)
(***************************************************************************)
EXTENDS CallTree, Sequences, FiniteSets

(***************************************************************************)
(* The area of instances, in resources and in configuration frames of the  *)
(* device.  The code computes with floats; here a frame is counted in      *)
(* fractions of 1/200, which makes every value a whole number.             *)
(***************************************************************************)
Resource == {"LUTs", "REGs", "MEMs", "DSPs"}

Area == [LUTs : Nat, REGs : Nat, MEMs : Nat, DSPs : Nat]

Fraction == 200

CeilDiv(a, b) == (a + b - 1) \div b

AddArea(a, b) ==
  [LUTs |-> a.LUTs + b.LUTs, REGs |-> a.REGs + b.REGs,
   MEMs |-> a.MEMs + b.MEMs, DSPs |-> a.DSPs + b.DSPs]

AreaOf(area, S) ==
  [LUTs |-> MapThenSumSet(LAMBDA i : area[i].LUTs, S),
   REGs |-> MapThenSumSet(LAMBDA i : area[i].REGs, S),
   MEMs |-> MapThenSumSet(LAMBDA i : area[i].MEMs, S),
   DSPs |-> MapThenSumSet(LAMBDA i : area[i].DSPs, S)]

LimitedByLUTs(a) == 2 * a.LUTs > a.REGs

\* 400 LUTs, 800 registers: 36 frames; 20 memories or multipliers: 28 frames
calculateRawFrames(a) ==
  (IF LimitedByLUTs(a) THEN 18 * a.LUTs ELSE 9 * a.REGs)
    + 280 * (a.MEMs + a.DSPs)

\* whole columns only
calculateFrames(a) ==
  36 * (IF LimitedByLUTs(a) THEN CeilDiv(a.LUTs, 400) ELSE CeilDiv(a.REGs, 800))
    + 28 * (CeilDiv(a.MEMs, 20) + CeilDiv(a.DSPs, 20))

getFunctionArea(a) == (calculateRawFrames(a) + Fraction \div 2) \div Fraction

(***************************************************************************)
(* setResourceConstraints: each of numberOfPartitions may have its share   *)
(* of the frames of all instances, plus a margin of pFrame percent, and at *)
(* least the frames of the largest instance, areaMax; the other resources  *)
(* are limited by what all instances need, in whole columns.               *)
(***************************************************************************)
FrameLimit(total, areaMax, pFrame, numberOfPartitions) ==
  LET share == (calculateRawFrames(total) * (100 + pFrame))
                 \div (100 * numberOfPartitions * Fraction)
  IN  IF share < areaMax THEN areaMax ELSE share

Column == [LUTs |-> 800, REGs |-> 1600, MEMs |-> 20, DSPs |-> 20]

ColumnLimit(total, r) == CeilDiv(total[r], Column[r]) * Column[r]

(***************************************************************************)
(* checkResourceConstraints: 1 when there are too many frames, 2 when      *)
(* another resource runs out, 0 when the area fits.                        *)
(***************************************************************************)
CodeOf(tooManyFrames, a, total) ==
  IF tooManyFrames THEN 1
  ELSE IF \E r \in Resource : a[r] > ColumnLimit(total, r) THEN 2 ELSE 0

checkResourceConstraints(a, total, FRMs) ==
  CodeOf(calculateRawFrames(a) > Fraction * FRMs, a, total)

-----------------------------------------------------------------------------

CONSTANTS
  AreaSets,                   \* the sets of areas a program may draw on
  Widths,                     \* the port widths that nets may have
  NUMBER_OF_PARTITIONS,
  PART_AREA_MARGIN_PERCENTAGE

ASSUME ParameterAssumption ==
  /\ UNION AreaSets \subseteq Area
  /\ Widths \subseteq Nat \ {0}
  /\ NUMBER_OF_PARTITIONS \in Nat /\ NUMBER_OF_PARTITIONS >= 2
  /\ PART_AREA_MARGIN_PERCENTAGE \in Nat

UNKNOWN  == "PART_UNKNOWN"
S        == "PART_S"
T        == "PART_T"
S_FINISH == "PART_S_FINISH"
T_FINISH == "PART_T_FINISH"

PART_STATE == {UNKNOWN, S, T, S_FINISH, T_FINISH}

Finished == {S_FINISH, T_FINISH}

FinishOf(side) == IF side = S THEN S_FINISH ELSE T_FINISH

NoID == N    \* RTLInstance leaves partID uninitialised

VARIABLES
  PART_VOTER_MODE,         \* 1: depth first; 2: by the maximum flow
  SELECT_TARGET_NODE_MODE, \* 0: the last leaf is the target; 1: a deep one
  caller, area, width,   \* the program: its call tree, areas and port widths
  areasTotal,            \* what all instances need
  areaMax,               \* the frames of the largest instance
  pFrame,                \* the margin of the present attempt, in percent
  FRMs,                  \* and the frames a partition may have: constraints
  partState,
  p0,                    \* the side of main in the last minimum cut
  boundaryNodes,         \* the candidates for the next merge
  Partitions,
  itrCount,
  noBalancedPartition,   \* what networkFlowPartitionMain returned
  partID,
  areas,                 \* mode 1: what the open partition holds
  partId,                \* and its number
  callStack,                 \* and the calls of dfsPartition
  pc                     \* where the program is

program == <<PART_VOTER_MODE, SELECT_TARGET_NODE_MODE, caller, area, width, areasTotal, areaMax>>
limits  == <<pFrame, FRMs>>
cut     == <<p0, boundaryNodes>>
result  == <<noBalancedPartition, partID>>
flow    == <<pFrame, cut, partState, Partitions, itrCount, noBalancedPartition>>
search  == <<areas, partId, callStack>>
vars    == <<program, limits, cut, result, partState, Partitions, itrCount, search, pc>>

p1 == Instance \ p0

(***************************************************************************)
(* The areas of sets of instances, and whether they fit.                   *)
(***************************************************************************)
OfState(s) == {i \in Instance : partState[i] = s}

UnfinishedUnmerged(Q) == {i \in Q : partState[i] = UNKNOWN}

Unfinished(Q) == {i \in Q : partState[i] \notin Finished}

getArea(Q) == calculateRawFrames(AreaOf(area, Q)) \div Fraction

Check(a) == checkResourceConstraints(a, areasTotal, FRMs)

CheckRemaining ==
  LET a == AreaOf(area, Unfinished(Instance))
  IN  CodeOf(calculateFrames(a) > FRMs, a, areasTotal)

CheckSideUnmerged(Q) == Check(AreaOf(area, Q \cap OfState(UNKNOWN)))

CheckSide(Q) == Check(AreaOf(area, Unfinished(Q)))

(***************************************************************************)
(* findTargetNode.                                                         *)
(***************************************************************************)
Largest ==
  IF areaMax = 0 THEN 0
  ELSE Min({i \in Instance : getFunctionArea(area[i]) = areaMax})

target ==
  IF SELECT_TARGET_NODE_MODE = 1 THEN FirstLeaf(caller, Largest) ELSE LastLeaf

-----------------------------------------------------------------------------
(***************************************************************************)
(* doPartitions adds up the areas before the partitioner starts.           *)
(***************************************************************************)
NoArea == [LUTs |-> 0, REGs |-> 0, MEMs |-> 0, DSPs |-> 0]

Init ==
  /\ PART_VOTER_MODE \in {1, 2}
  /\ SELECT_TARGET_NODE_MODE \in (IF PART_VOTER_MODE = 1 THEN {0} ELSE {0, 1})
  /\ caller \in CallTrees
  /\ \E A \in AreaSets : area \in [Instance -> A]
  /\ width \in {w \in [Instance -> Widths \cup {0}] :
                 \A i \in Instance : w[i] = 0 <=> Callees(caller, i) = {}}
  /\ areasTotal = AreaOf(area, Instance)
  /\ areaMax = Max({getFunctionArea(area[i]) : i \in Instance})
  /\ pFrame = PART_AREA_MARGIN_PERCENTAGE
  /\ FRMs = 0
  /\ partState = [i \in Instance |-> UNKNOWN]
  /\ p0 = {}
  /\ boundaryNodes = {}
  /\ Partitions = <<>>
  /\ itrCount = 0
  /\ noBalancedPartition = 0
  /\ partID = [i \in Instance |-> NoID]
  /\ areas = NoArea
  /\ partId = 0
  /\ callStack = <<>>
  /\ pc = IF PART_VOTER_MODE = 1 THEN "dfs" ELSE "attempt"

(***************************************************************************)
(* A turn of networkFlowPartition's loop, up to the first cut.             *)
(***************************************************************************)
Attempt ==
  /\ pc = "attempt"
  /\ FRMs' = FrameLimit(areasTotal, areaMax, pFrame, NUMBER_OF_PARTITIONS)
  /\ partState' = [i \in Instance |-> UNKNOWN]
  /\ Partitions' = <<>>
  /\ itrCount' = 0
  /\ pc' = "cut"
  /\ UNCHANGED <<program, pFrame, cut, result, search>>

(***************************************************************************)
(* getBoundaryNodes, with the side of main that it reads off maxFlow's     *)
(* result.  Candidates have the side they would join and a place in the    *)
(* list: first the ends of the calls across the cut, on the larger side,   *)
(* then unknown neighbours of merged instances.                            *)
(***************************************************************************)
On(side) == OfState(side) \cup OfState(FinishOf(side))

Unknown(i) == partState[i] = UNKNOWN

Candidate(i, side, phase, j) ==
  [node |-> i, side |-> side, at |-> (phase * N + caller[j]) * N + j]

FrontMerge(P) == getArea(Unfinished(P)) < getArea(Unfinished(Instance \ P))

AcrossTheCut(P) ==
  LET calls == {j \in Called : caller[j] \in P /\ j \notin P}
  IN  IF FrontMerge(P)
      THEN {Candidate(j, S, 0, j) : j \in {k \in calls : Unknown(k) /\ k # target}}
      ELSE {Candidate(caller[j], T, 0, j) :
              j \in {k \in calls : Unknown(caller[k]) /\ caller[k] # 0}}

Below(side) ==
  {Candidate(j, side, 1, j) :
     j \in {k \in Called : caller[k] \in On(side) /\ Unknown(k) /\ k # target}}

AboveFar ==
  {Candidate(caller[j], T, 1, j) :
     j \in {k \in Called : k \in On(T) /\ Unknown(caller[k]) /\ caller[k] # 0}}

BesideMerged == Below(S) \cup Below(T) \cup AboveFar

Cut ==
  /\ pc = "cut"
  /\ p0' = NearestCut(caller, width, target, On(S), On(T))
  /\ boundaryNodes' = AcrossTheCut(p0') \cup BesideMerged
  /\ pc' = "test"
  /\ UNCHANGED <<program, limits, result, partState, Partitions, itrCount, search>>

(***************************************************************************)
(* The tests of networkFlowPartitionMain: everything that is left fits in  *)
(* one partition, both sides of the cut fit, there is nothing to merge, or *)
(* mergeNodes begins: the sides that are small enough take their unknown   *)
(* instances.                                                              *)
(***************************************************************************)
Pushed(Q) == IF Unfinished(Q) = {} THEN <<>> ELSE <<Unfinished(Q)>>

EndWith(parts) ==
  /\ Partitions' = parts
  /\ partID' =
       [i \in Instance |->
          LET in == {k \in DOMAIN parts : i \in parts[k]}
          IN  IF in = {} THEN partID[i] ELSE Max(in) - 1]
  /\ noBalancedPartition' = 0
  /\ UNCHANGED partState

GiveUp(code) ==
  /\ noBalancedPartition' = code
  /\ UNCHANGED <<Partitions, partID>>

Small(P) == getArea(Unfinished(P)) < FRMs

MergeSides ==
  LET near == IF Small(p0) THEN p0 ELSE {}
      far  == IF Small(p1) THEN p1 ELSE {}
  IN  partState' =
        [i \in Instance |-> IF ~Unknown(i) THEN partState[i]
                            ELSE IF i \in near THEN S
                            ELSE IF i \in far THEN T ELSE UNKNOWN]

Test ==
  /\ pc = "test"
  /\ LET c0 == CheckSide(p0)
         c1 == CheckSide(p1)
     IN  \/ /\ CheckRemaining = 0
            /\ EndWith(Partitions \o Pushed(Instance))
            /\ pc' = "judge"
         \/ /\ CheckRemaining # 0 /\ c0 = 0 /\ c1 = 0
            /\ EndWith(Partitions \o Pushed(p0) \o Pushed(p1))
            /\ pc' = "judge"
         \/ /\ CheckRemaining # 0 /\ (c0 # 0 \/ c1 # 0) /\ boundaryNodes = {}
            /\ GiveUp(IF c0 # 0 THEN c0 ELSE c1)
            /\ UNCHANGED partState
            /\ pc' = "judge"
         \/ /\ CheckRemaining # 0 /\ (c0 # 0 \/ c1 # 0) /\ boundaryNodes # {}
            /\ MergeSides
            /\ pc' = "merge"
            /\ UNCHANGED <<result, Partitions>>
  /\ UNCHANGED <<program, limits, cut, itrCount, search>>

(***************************************************************************)
(* The rest of mergeNodes, and the test of the loop around it: the first   *)
(* candidate that fits its side; else the first unknown instance that fits *)
(* the smaller side; else the first candidate, after its side was pushed   *)
(* as a partition, unless that is empty.                                   *)
(***************************************************************************)
Fits(i, side) == Check(AddArea(AreaOf(area, OfState(side)), area[i])) = 0

Fitting == {c \in boundaryNodes : Fits(c.node, c.side)}

First(list) == {c \in list : \A d \in list : c.at =< d.at}

SmallerSide == IF getArea(OfState(S)) < getArea(OfState(T)) THEN S ELSE T

\* node 0 stands for no node, so main ends the search when it is found
FittingUnknown ==
  LET side == SmallerSide
      fit == {i \in OfState(UNKNOWN) : Fits(i, side)}
  IN  IF 0 \in fit THEN {} ELSE fit

FinishSide(side) ==
  [i \in Instance |-> IF partState[i] = side THEN FinishOf(side) ELSE partState[i]]

Continue ==
  /\ itrCount' = itrCount + 1
  /\ pc' = IF itrCount < 3 * N THEN "cut" ELSE "overrun"
  /\ UNCHANGED result

Join(state, i, side) == partState' = [state EXCEPT ![i] = side]

Merge ==
  /\ pc = "merge"
  /\ LET fitting == Fitting
         others  == IF fitting = {} THEN FittingUnknown ELSE {}
     IN  \/ /\ \E c \in First(fitting) : Join(partState, c.node, c.side)
            /\ Continue
            /\ UNCHANGED Partitions
         \/ /\ others # {}
            /\ Join(partState, Min(others), SmallerSide)
            /\ Continue
            /\ UNCHANGED Partitions
         \/ /\ fitting = {} /\ others = {}
            /\ \E c \in First(boundaryNodes) :
                 /\ OfState(c.side) # {}
                 /\ Partitions' = Append(Partitions, OfState(c.side))
                 /\ Join(FinishSide(c.side), c.node, c.side)
            /\ Continue
         \/ /\ fitting = {} /\ others = {}
            /\ \E c \in First(boundaryNodes) : OfState(c.side) = {}
            /\ GiveUp(1)
            /\ pc' = "judge"
            /\ UNCHANGED <<partState, itrCount>>
  /\ UNCHANGED <<program, limits, cut, search>>

(***************************************************************************)
(* The end of networkFlowPartition's loop: another attempt with a larger   *)
(* margin, whose size is asserted, or the result.                          *)
(***************************************************************************)
Rejected ==
  noBalancedPartition # 0 \/ Len(Partitions) > NUMBER_OF_PARTITIONS

NextMarginAfterFailure ==
  IF noBalancedPartition = 1 THEN pFrame + 10 ELSE pFrame

NextMargin ==
  IF Rejected /\ noBalancedPartition # 2 THEN pFrame + 10 ELSE pFrame

Judge ==
  /\ pc = "judge"
  /\ pFrame' = NextMargin
  /\ pc' = IF pFrame' > 100 * (NUMBER_OF_PARTITIONS - 1) THEN "aborted"
           ELSE IF Rejected THEN "attempt" ELSE "done"
  /\ UNCHANGED <<program, FRMs, partState, cut, Partitions, itrCount, result, search>>

-----------------------------------------------------------------------------
(***************************************************************************)
(* dfsPartition: place an instance in the open partition, or, if its area  *)
(* is then too large, in one that it opens.  An instance is visited when   *)
(* it has a number.                                                        *)
(***************************************************************************)
Place(i) ==
  LET full == Check(AddArea(areas, area[i])) # 0 IN
  /\ areas' = IF full THEN area[i] ELSE AddArea(areas, area[i])
  /\ partId' = IF full THEN partId + 1 ELSE partId
  /\ partID' = [partID EXCEPT ![i] = partId']

(***************************************************************************)
(* main opens partition 0; the memory controller is placed before the      *)
(* search begins.                                                          *)
(***************************************************************************)
DfsBegin ==
  /\ pc = "dfs" /\ partID[0] = NoID
  /\ FRMs' = FrameLimit(areasTotal, areaMax, pFrame, NUMBER_OF_PARTITIONS)
  /\ partID' = [partID EXCEPT ![0] = 0]
  /\ areas' = area[0]
  /\ callStack' = IF HasMemoryController THEN <<>> ELSE <<0>>
  /\ UNCHANGED <<program, flow, partId, pc>>

DfsMemoryController ==
  /\ pc = "dfs" /\ partID[0] # NoID /\ callStack = <<>>
  /\ Place(N - 1)
  /\ callStack' = <<0>>
  /\ UNCHANGED <<program, flow, FRMs, pc>>

Unvisited(s) == {i \in Callees(caller, s) : partID[i] = NoID}

DfsVisit ==
  /\ pc = "dfs" /\ callStack # <<>>
  /\ LET left == Unvisited(callStack[Len(callStack)]) IN
       /\ left # {}
       /\ Place(Min(left))
       /\ callStack' = Append(callStack, Min(left))
  /\ UNCHANGED <<program, flow, FRMs, pc>>

DfsReturn ==
  /\ pc = "dfs" /\ callStack # <<>>
  /\ Unvisited(callStack[Len(callStack)]) = {}
  /\ callStack' = SubSeq(callStack, 1, Len(callStack) - 1)
  /\ pc' = IF callStack' = <<>> THEN "done" ELSE "dfs"
  /\ UNCHANGED <<program, flow, FRMs, partID, areas, partId>>

Stopped == pc \in {"done", "aborted", "overrun"}

Stop == Stopped /\ UNCHANGED vars

Next ==
  \/ Attempt \/ Cut \/ Test \/ Merge \/ Judge
  \/ DfsBegin \/ DfsMemoryController \/ DfsVisit \/ DfsReturn
  \/ Stop

(***************************************************************************)
(* The compiler goes on until it stops: weak fairness of Next, with        *)
(* ~Stopped in the place of ENABLED <<Next>>_vars, which is the same and   *)
(* costs less to evaluate (the runs check that Next is never disabled).    *)
(***************************************************************************)
Progress == []<>Stopped \/ []<><<Next>>_vars

Spec == Init /\ [][Next]_vars /\ Progress

-----------------------------------------------------------------------------
(***************************************************************************)
(* Types; neither main nor the target is ever a candidate.                 *)
(***************************************************************************)
TypeOK ==
  /\ PART_VOTER_MODE \in {1, 2}
  /\ SELECT_TARGET_NODE_MODE \in {0, 1}
  /\ caller \in [Called -> Instance]
  /\ area \in [Instance -> UNION AreaSets]
  /\ width \in [Instance -> Widths \cup {0}]
  /\ areasTotal \in Area
  /\ areaMax \in Nat
  /\ pFrame \in Nat
  /\ FRMs \in Nat
  /\ partState \in [Instance -> PART_STATE]
  /\ p0 \subseteq Instance
  /\ boundaryNodes \subseteq [node : Called \ {target}, side : {S, T}, at : Nat]
  /\ Partitions \in Seq(SUBSET Instance)
  /\ itrCount \in 0 .. 3 * N + 1
  /\ noBalancedPartition \in 0 .. 2
  /\ partID \in [Instance -> 0 .. N]
  /\ areas \in Area
  /\ partId \in 0 .. N - 1
  /\ callStack \in Seq(Instance)
  /\ pc \in {"dfs", "attempt", "cut", "test", "merge", "judge", "done", "aborted", "overrun"}

Settled == pc = "done"

(***************************************************************************)
(* Every instance is in the partition that its partID names, and every     *)
(* partition, of which initPartitions makes a module, is named by one.     *)
(* Partitions may overlap: a candidate can join its side with all of it,   *)
(* be pushed with that side and then be merged again, and the last         *)
(* partition that holds it is the one that numbers it.                     *)
(* Mode 1 leaves the list Partitions empty, numbers the instances without  *)
(* a gap and opens no partition as long as the one before has room.        *)
(***************************************************************************)
Default == SELECT_TARGET_NODE_MODE = 0

Numbered(k) == {i \in Instance : partID[i] = k}

PlacedByFlow ==
  /\ \A i \in Instance :
       partID[i] + 1 \in DOMAIN Partitions /\ i \in Partitions[partID[i] + 1]
  /\ \A k \in DOMAIN Partitions : Numbered(k - 1) # {}

PlacedBySearch ==
  /\ Numbered(NoID) = {}
  /\ \A k \in 0 .. N - 1 : k =< partId <=> Numbered(k) # {}
  /\ \A k \in 1 .. partId : Check(AreaOf(area, Numbered(k - 1) \cup Numbered(k))) # 0

EveryInstancePlaced ==
  Settled => IF PART_VOTER_MODE = 2 THEN PlacedByFlow ELSE PlacedBySearch

(***************************************************************************)
(* With the default target a partition of several instances keeps the      *)
(* frame limit, and so do those of mode 1, which sums up as it goes.       *)
(***************************************************************************)
Limited(P) ==
  Cardinality(P) > 1 => calculateRawFrames(AreaOf(area, P)) =< Fraction * FRMs

WithinLimit ==
  Settled /\ Default =>
    /\ \A k \in DOMAIN Partitions : Limited(Partitions[k])
    /\ PART_VOTER_MODE = 1 => \A k \in 0 .. partId : Limited(Numbered(k))

(***************************************************************************)
(* The partitioner comes to an end, and neither the counter of the loop of *)
(* networkFlowPartitionMain nor, in these instances, the assertion on the  *)
(* margin cuts it off.                                                     *)
(***************************************************************************)
Terminates == <>(pc = "done")

=============================================================================
