----------------------------- MODULE LoopKernel -----------------------------
(***************************************************************************)
(* The body of a loop that is to be pipelined, as ModuloScheduler.cpp sees *)
(* it, and the initiation interval (II) at which scheduling starts.  A     *)
(* dependence says that to, dist iterations later, needs what from         *)
(* computes; that a store and a load of later iterations may meet (carried)*)
(* is known to dependent() and distance(), not to the graph of the block.  *)
(***************************************************************************)
EXTENDS Integers, FiniteSets, FiniteSetsExt, Functions

CONSTANTS
  N,           \* how many instructions the loop body has
  FU,          \* the functional units whose number is limited
  numIssueSlots,  \* how many of each there are
  NoUnit       \* what an instruction uses that needs none of them

ASSUME NAssumption == N \in Nat \ {0}

ASSUME UnitsAssumption ==
  IsFiniteSet(FU) /\ NoUnit \notin FU /\ numIssueSlots \in [FU -> Nat \ {0}]

Inst == 0 .. N-1     \* in the order of the basic block

(***************************************************************************)
(* What the modulo schedulers ask of their solver (SDCSolver and           *)
(* lp_solve): a system of difference constraints start(j) - start(i) >=    *)
(* least, with bounds on single variables, and the solution with the least *)
(* sum.  As every solution is bounded from below the one with the least    *)
(* sum is the least in every variable: the longest paths.                  *)
(***************************************************************************)
Constraint == [from : Inst, to : Inst, least : Int]

\* no constraint of type EQ
Free == -1

Bounds == [atLeast : [Inst -> Nat], exactly : [Inst -> Nat \cup {Free}]]

NoBounds == [atLeast |-> [i \in Inst |-> 0], exactly |-> [i \in Inst |-> Free]]

FixedAt(b, i, t) == [b EXCEPT !.exactly[i] = t]

\* at the time in conflict again
NotBeforeThat(b, i, t) == [b EXCEPT !.atLeast[i] = Max({@, t - 1})]

NotBefore(b, i, t) == [b EXCEPT !.atLeast[i] = Max({@, t})]

\* deleteAllInstrConstraints
Released(b, S) ==
  [atLeast |-> [i \in Inst |-> IF i \in S THEN 0 ELSE b.atLeast[i]],
   exactly |-> [i \in Inst |-> IF i \in S THEN Free ELSE b.exactly[i]]]

(***************************************************************************)
(* Longest paths of at most N constraints, and whether these satisfy all.  *)
(***************************************************************************)
Raised(C, t) ==
  [j \in Inst |-> Max({t[j]} \cup {t[c.from] + c.least : c \in {d \in C : d.to = j}})]

Solution(C, b) ==
  LET raised[n \in 0 .. N] ==
        [t \in [Inst -> Int] |-> IF n = 0 THEN t ELSE raised[n-1][Raised(C, t)]]
  IN  raised[N][ [i \in Inst |-> Max({b.atLeast[i], b.exactly[i]})] ]

Satisfies(t, C, b) ==
  /\ t \in [Inst -> Nat]
  /\ \A c \in C : t[c.to] - t[c.from] >= c.least
  /\ \A i \in Inst : t[i] >= b.atLeast[i] /\ b.exactly[i] \in {t[i], Free}

Feasible(C, b) == \E t \in {Solution(C, b)} : Satisfies(t, C, b)

(***************************************************************************)
(* The loop body.                                                          *)
(***************************************************************************)
Dependence == [from : Inst, to : Inst, dist : Nat, carried : BOOLEAN]

IsKernel(k) ==
  /\ k.unit \in [Inst -> FU \cup {NoUnit}]
  /\ k.latency \in [Inst -> Nat]
  /\ k.dependences \subseteq Dependence /\ IsFiniteSet(k.dependences)
  /\ \A d \in k.dependences : d.from # d.to /\ (d.carried => d.dist > 0)

isResourceConstrained(k, i) == k.unit[i] # NoUnit

\* only within an iteration
ConstraintsForOneIteration(k, II) ==
  {[from |-> d.from, to |-> d.to, least |-> k.latency[d.from]] :
     d \in {e \in k.dependences : e.dist = 0}}

\* addDependencyConstraintsForKernel
ConstraintsFor(k, II) ==
  {[from |-> d.from, to |-> d.to, least |-> k.latency[d.from] - II * d.dist] :
     d \in k.dependences}

CeilDiv(a, b) == (a + b - 1) \div b

resourceMII(k) ==
  Max({1} \cup {CeilDiv(Cardinality({i \in Inst : k.unit[i] = f}), numIssueSlots[f]) :
                  f \in FU})

\* "assume every instruction is dependent and executed sequentially"
largestPossibleII == 1 + N

sanityCheckII(II) == II <= largestPossibleII

(***************************************************************************)
(* The intervals at which the dependences can be met (recurrenceMII and    *)
(* recurrenceMII_SDC try one after the other, checking each).              *)
(***************************************************************************)
Recurrent(k) == {II \in 1 .. largestPossibleII : Feasible(ConstraintsFor(k, II), NoBounds)}

HasMII(k) == Recurrent(k) # {} /\ sanityCheckII(resourceMII(k))

MII(k) == Max({Min(Recurrent(k)), resourceMII(k)})

(***************************************************************************)
(* The priority of Rau's scheduler (computeHeight): the longest way to an  *)
(* instruction without users, a phi counting for nothing.  Dependences     *)
(* that only cross iterations are not followed.                            *)
(***************************************************************************)
Uses(k) == {d \in k.dependences : ~d.carried}

Raise(k, II, h) ==
  [i \in Inst |->
     IF i \in k.phis THEN 0
     ELSE Max({0} \cup {h[d.to] + k.latency[i] - II * d.dist :
                          d \in {u \in Uses(k) : u.from = i}})]

Heights(k, II) ==
  LET height[n \in 0 .. N, h \in [Inst -> Int]] ==
        IF n = 0 THEN h ELSE height[n-1, Raise(k, II, h)]
  IN  height[N, [i \in Inst |-> 0]]

=============================================================================
