-------------------------- MODULE ModuloScheduler ---------------------------
(***************************************************************************)
(* The modulo schedulers of SDCModuloScheduler.cpp: the instructions of a  *)
(* loop get start times such that a new iteration can start every II       *)
(* clocks.  MODULO_SCHEDULER selects one of three:                         *)
(*                                                                         *)
(*   SDC_BACKTRACKING  the times are a solution of difference constraints; *)
(*       an instruction with a limited unit is fixed where the solution    *)
(*       has it, or pushed to a later time, or forced in by evicting       *)
(*       others, within a budget;                                          *)
(*   SDC_GREEDY        the same without eviction or budget;                *)
(*   ITERATIVE         Rau's: an instruction goes to the first free time   *)
(*       its predecessors allow, and displaces what stands in its way.     *)
(*                                                                         *)
(* One action is one turn of the loop of the scheduler.  The LP solver is  *)
(* called afresh each time (INCREMENTAL_SDC is 0).  Choices that fall to   *)
(* the order of addresses, or to the perturbation of SDC_PRIORITY, are     *)
(* left open.                                                              *)
(*                                                                         *)
(* A definition whose name continues that of the one after it is a         *)
(* plausible slip in the same code; the runs name it as a mutant and no    *)
(* action uses it.                                                         *)
(***************************************************************************)
EXTENDS LoopKernel, SequencesExt

CONSTANTS
  Kernels,       \* the loop bodies
  Schedulers,    \* the values of MODULO_SCHEDULER
  BudgetRatio    \* SDC_BACKTRACKING_BUDGET_RATIO

ASSUME KernelsAssumption == \A k \in Kernels : IsKernel(k)
ASSUME SchedulersAssumption ==
  Schedulers \subseteq {"SDC_BACKTRACKING", "SDC_GREEDY", "ITERATIVE"}
ASSUME BudgetAssumption == BudgetRatio \in Nat \ {0}

NULL == -1

VARIABLES
  kernel,          \* the body of the loop
  scheduler,       \* MODULO_SCHEDULER
  byPriority,      \* SDC_BACKTRACKING_PRIORITY
  phase,           \* "start" an II, "schedule", "done"; "large" when
                   \* sanityCheckII fails, "failed" at another assertion
  II,
  budget,
  schedTime,       \* the start times given so far
  prevSchedTime,   \* the last time each one was given, NULL for neverScheduled
  unscheduledInsts,
  unscheduledInstsConstrained,
  queue,           \* unscheduledInstsConstrainedQueue, or the list that is
                   \* taken from by priority (SDC_GREEDY, or byPriority);
                   \* ITERATIVE takes from neither
  reservationTable,
  bounds,          \* the constraints on single instructions
  sdcSchedTime     \* the last solution

loopVars == <<kernel, scheduler, byPriority>>
bookVars == <<schedTime, prevSchedTime, unscheduledInsts,
              unscheduledInstsConstrained, queue, reservationTable>>
vars     == <<loopVars, phase, II, budget, bookVars, bounds, sdcSchedTime>>

Constrained(i) == isResourceConstrained(kernel, i)

Cell == UNION {{<<f, s, t>> : s \in 0 .. numIssueSlots[f] - 1, t \in 0 .. II-1} : f \in FU}

EmptyTable == [c \in Cell |-> NULL]

C == ConstraintsFor(kernel, II)

ASAP == Solution(C, NoBounds)

Turn(s) == phase = "schedule" /\ scheduler = s

(***************************************************************************)
(* runOnLoop up to its loop.                                               *)
(***************************************************************************)
Init ==
  /\ kernel \in Kernels
  /\ scheduler \in Schedulers
  /\ byPriority \in IF scheduler = "SDC_BACKTRACKING" THEN BOOLEAN ELSE {TRUE}
  /\ phase = IF HasMII(kernel) THEN "start" ELSE "large"
  /\ II = IF HasMII(kernel) THEN MII(kernel) ELSE 1
  /\ budget = 0
  /\ schedTime = << >>
  /\ prevSchedTime = [i \in Inst |-> NULL]
  /\ unscheduledInsts = {} /\ unscheduledInstsConstrained = {}
  /\ queue = << >>
  /\ reservationTable = EmptyTable
  /\ bounds = NoBounds
  /\ sdcSchedTime = [i \in Inst |-> 0]

(***************************************************************************)
(* iterativeSchedule: init() and, for the SDC schedulers, a first solution *)
(* without regard to units.                                                *)
(***************************************************************************)
InOrder(S) ==
  {s \in [1 .. Cardinality(S) -> S] : \A m, n \in DOMAIN s : m < n => s[m] < s[n]}

Begin ==
  LET limited == {i \in Inst : Constrained(i)} IN
  /\ phase = "start"
  /\ phase' = IF scheduler = "ITERATIVE" \/ Feasible(C, NoBounds) THEN "schedule"
              ELSE "failed"
  /\ budget' = BudgetRatio * N - (IF scheduler = "ITERATIVE" THEN 1 ELSE 0)
  /\ schedTime' = << >>
  /\ prevSchedTime' = [i \in Inst |-> NULL]
  /\ unscheduledInsts' = Inst
  /\ unscheduledInstsConstrained' = limited
  /\ queue' \in InOrder(limited)
  /\ reservationTable' = EmptyTable
  /\ bounds' = NoBounds
  /\ sdcSchedTime' = IF scheduler = "ITERATIVE" THEN sdcSchedTime ELSE ASAP
  /\ UNCHANGED <<loopVars, II>>

(***************************************************************************)
(* The reservation table.                                                  *)
(***************************************************************************)
CellsAt(i, t) ==
  {c \in Cell : c[1] = kernel.unit[i] /\ c[3] = t % II}

resourceConflict(i, t) ==
  Constrained(i) /\ \A c \in CellsAt(i, t) : reservationTable[c] # NULL

Without(S) == [c \in Cell |-> IF reservationTable[c] \in S THEN NULL
                                                           ELSE reservationTable[c]]

\* findEmptySlot and setReservationTable
PutInto(table, i, t) ==
  LET empty == {c \in CellsAt(i, t) : table[c] = NULL}
  IN  [c \in Cell |-> IF c \in empty /\ \A d \in empty : c[2] <= d[2] THEN i ELSE table[c]]

(***************************************************************************)
(* unschedule, of all that is evicted, and then scheduleSDCInstruction of  *)
(* i at t, or the same parts of schedule.                                  *)
(***************************************************************************)
Fix(evicted, i, t) ==
  /\ schedTime' = [j \in (DOMAIN schedTime \ evicted) \cup {i} |->
                     IF j = i THEN t ELSE schedTime[j]]
  /\ prevSchedTime' = [prevSchedTime EXCEPT ![i] = t]
  /\ unscheduledInsts' = (unscheduledInsts \cup evicted) \ {i}
  /\ unscheduledInstsConstrained' = (unscheduledInstsConstrained \cup evicted) \ {i}

\* the reservation table keeps who was evicted
EvictKeepingTable(evicted, i, t) ==
  Fix(evicted, i, t) /\ reservationTable' = PutInto(reservationTable, i, t)

Evict(evicted, i, t) ==
  Fix(evicted, i, t) /\ reservationTable' = PutInto(Without(evicted), i, t)

(***************************************************************************)
(* The n-th of the queue leaves it, which is an earliest one by priority   *)
(* or the first; those in last come in at the end.                         *)
(***************************************************************************)
Earliest ==
  {n \in DOMAIN queue : \A m \in DOMAIN queue : sdcSchedTime[queue[n]] <= sdcSchedTime[queue[m]]}

Taken == IF byPriority THEN Earliest ELSE DOMAIN queue \cap {1}

\* the evicted are not queued
RequeueNot(n, last) ==
  queue' = RemoveAt(queue, n)

Requeue(n, last) ==
  queue' = RemoveAt(queue, n) \o last

(***************************************************************************)
(* SDCWithBacktracking: i has a unit at the time of the solution.          *)
(***************************************************************************)
ScheduleThere(n) ==
  LET i == queue[n]
      t == sdcSchedTime[i]
      b == FixedAt(bounds, i, t)
  IN  /\ ~resourceConflict(i, t)
      /\ phase' = IF Feasible(C, b) THEN phase ELSE "failed"
      /\ Evict({}, i, t) /\ Requeue(n, << >>)
      /\ bounds' = b
      /\ sdcSchedTime' = IF Feasible(C, b) THEN Solution(C, b) ELSE sdcSchedTime

(***************************************************************************)
(* There is none, but the others leave room to start i later.              *)
(***************************************************************************)
PushLater(n) ==
  LET i == queue[n]
      t == sdcSchedTime[i]
      b == NotBefore(bounds, i, t + 1)
  IN  /\ resourceConflict(i, t)
      /\ Feasible(C, b)
      /\ bounds' = b
      /\ sdcSchedTime' = Solution(C, b)
      /\ Requeue(n, <<i>>)
      /\ UNCHANGED <<phase, schedTime, prevSchedTime, unscheduledInsts,
                     unscheduledInstsConstrained, reservationTable>>

(***************************************************************************)
(* The others leave no room: backtracking(i) forces it in.  It goes to the *)
(* first time that only a unit stands against or, if it was there or later *)
(* already, to the one after its last; what stands in its way is evicted:  *)
(* the instruction in the first issue slot, and, if that is not enough,    *)
(* everything.  The search starts at 0, as the member instStepASAP that    *)
(* backtracking reads is never filled; before ASAP nothing is feasible.    *)
(***************************************************************************)
Conflict(i, t, table, b) ==
  \/ Constrained(i) /\ \A c \in CellsAt(i, t) : table[c] # NULL
  \/ ~Feasible(C, FixedAt(b, i, t))

FirstFeasible(i) == {t \in 0 .. sdcSchedTime[i] : Feasible(C, FixedAt(bounds, i, t))}

evictSlot(i, minTime) ==
  IF prevSchedTime[i] = NULL \/ minTime > prevSchedTime[i] THEN minTime
                                                           ELSE prevSchedTime[i] + 1

FirstHolder(i, t) == reservationTable[CHOOSE c \in CellsAt(i, t) : c[2] = 0]

InTheWay(i, t) == IF resourceConflict(i, t) THEN {FirstHolder(i, t)} ELSE {}

\* what cannot be had at t for other reasons is forced there nevertheless
OthersStay(i, t, way) == {}

\* everything, if without those in the way there is still a conflict
Others(i, t, way) ==
  IF Conflict(i, t, Without(way), Released(bounds, way)) THEN DOMAIN schedTime \ way ELSE {}

ForceInto(n, t, first, others) ==
  LET i     == queue[n]
      gone  == first \cup others
      freed == Released(bounds, gone)
      after == FixedAt(freed, i, t)
  IN  /\ phase' = IF /\ Conflict(i, t, reservationTable, bounds)
                     /\ ~Conflict(i, t, Without(gone), freed)
                  THEN phase ELSE "failed"
      /\ Evict(gone, i, t)
      /\ \E last \in SetToSeqs(gone) : (\A e \in first : last[1] = e) /\ Requeue(n, last)
      /\ bounds' = after
      /\ sdcSchedTime' = IF Feasible(C, after) THEN Solution(C, after) ELSE sdcSchedTime

Backtrack(n) ==
  LET i == queue[n] IN
  /\ resourceConflict(i, sdcSchedTime[i])
  /\ ~Feasible(C, NotBefore(bounds, i, sdcSchedTime[i] + 1))
  /\ \E found \in {FirstFeasible(i)} :
       IF found = {}
       THEN phase' = "failed" /\ UNCHANGED <<bookVars, bounds, sdcSchedTime>>
       ELSE \E t \in {evictSlot(i, Min(found))} :
            \E others \in {Others(i, t, InTheWay(i, t))} : ForceInto(n, t, InTheWay(i, t), others)

BacktrackingTurn ==
  /\ Turn("SDC_BACKTRACKING") /\ budget > 0
  /\ \E n \in Taken : ScheduleThere(n) \/ PushLater(n) \/ Backtrack(n)
  /\ budget' = budget - 1
  /\ UNCHANGED <<loopVars, II>>

(***************************************************************************)
(* The end of SDCWithBacktracking.  The instructions that need no unit get *)
(* the times of the last solution, but not when the budget was used up by  *)
(* the very turn that fixed the last of the others.                        *)
(***************************************************************************)
assignUnconstrainedOperations ==
  schedTime' = [i \in Inst |-> IF i \in DOMAIN schedTime THEN schedTime[i]
                                                         ELSE sdcSchedTime[i]]

NextII ==
  /\ II' = II + 1
  /\ phase' = IF sanityCheckII(II + 1) THEN "start" ELSE "large"

EndBacktracking ==
  /\ Turn("SDC_BACKTRACKING") /\ (budget = 0 \/ queue = << >>)
  /\ IF budget > 0 THEN assignUnconstrainedOperations ELSE UNCHANGED schedTime
  /\ IF unscheduledInstsConstrained = {} THEN phase' = "done" /\ II' = II ELSE NextII
  /\ UNCHANGED <<loopVars, budget, prevSchedTime, unscheduledInsts,
                 unscheduledInstsConstrained, queue, reservationTable, bounds,
                 sdcSchedTime>>

(***************************************************************************)
(* SDCGreedy: i is fixed at the latest time between its earliest and that  *)
(* of the solution where it has a unit; otherwise it has to start later.   *)
(***************************************************************************)
Possible(i) ==
  {t \in ASAP[i] .. sdcSchedTime[i] : ~Conflict(i, t, reservationTable, bounds)}

\* b are the constraints with the new one
Resolve(b) ==
  /\ bounds' = b
  /\ IF Feasible(C, b)
     THEN sdcSchedTime' = Solution(C, b) /\ UNCHANGED <<phase, II>>
     ELSE sdcSchedTime' = sdcSchedTime /\ NextII

GreedyTurn ==
  /\ Turn("SDC_GREEDY")
  /\ \E n \in Earliest :
       LET i == queue[n] IN
       \E fits \in {Possible(i)} :
         IF fits # {}
         THEN /\ Evict({}, i, Max(fits)) /\ Requeue(n, << >>)
              /\ Resolve(FixedAt(bounds, i, Max(fits)))
         ELSE /\ Requeue(n, <<i>>)
              /\ UNCHANGED <<schedTime, prevSchedTime, unscheduledInsts,
                             unscheduledInstsConstrained, reservationTable>>
              /\ Resolve(NotBefore(bounds, i, sdcSchedTime[i] + 1))
  /\ UNCHANGED <<loopVars, budget>>

EndGreedy ==
  /\ Turn("SDC_GREEDY") /\ queue = << >>
  /\ assignUnconstrainedOperations
  /\ phase' = "done"
  /\ UNCHANGED <<loopVars, II, budget, prevSchedTime, unscheduledInsts,
                 unscheduledInstsConstrained, queue, reservationTable, bounds,
                 sdcSchedTime>>

(***************************************************************************)
(* iterativeClassic.  calcEarlyStart and schedule follow the operands and  *)
(* the memory dependences of the block's graph.  schedule means to compare *)
(* a successor with II times the distance of the dependence; the name      *)
(* distance it calls is that of std, the difference of two addresses, so   *)
(* that any successor may be displaced and any may be left.                *)
(***************************************************************************)
Highest ==
  LET height == Heights(kernel, II)
  IN  {i \in unscheduledInsts : \A j \in unscheduledInsts : height[j] <= height[i]}

calcEarlyStart(i) ==
  Max({0} \cup {schedTime[d.from] + kernel.latency[d.from] - II * d.dist :
                  d \in {u \in Uses(kernel) : u.to = i /\ u.from \in DOMAIN schedTime}})

findTimeSlot(i, minTime) ==
  LET free == {t \in minTime .. minTime + II - 1 : ~resourceConflict(i, t)}
  IN  IF free # {} THEN Min(free) ELSE evictSlot(i, minTime)

Holders(i, t) == {reservationTable[c] : c \in CellsAt(i, t)}

ScheduledUsers(i) ==
  {d.to : d \in {u \in Uses(kernel) : u.from = i /\ u.to \in DOMAIN schedTime}}

IterativeTurn ==
  /\ Turn("ITERATIVE") /\ budget > 0
  /\ \E i \in Highest :
     \E t \in {findTimeSlot(i, calcEarlyStart(i))} :
     \E holders \in {IF resourceConflict(i, t) THEN Holders(i, t) ELSE {}} :
     \E users \in SUBSET (ScheduledUsers(i) \ holders) :
       Evict(holders \cup users, i, t)
  /\ budget' = budget - 1
  /\ UNCHANGED <<loopVars, phase, II, queue, bounds, sdcSchedTime>>

EndIterative ==
  /\ Turn("ITERATIVE") /\ (budget = 0 \/ unscheduledInsts = {})
  /\ IF unscheduledInsts = {} THEN phase' = "done" /\ II' = II ELSE NextII
  /\ UNCHANGED <<loopVars, budget, bookVars, bounds, sdcSchedTime>>

Terminated == phase \in {"done", "large", "failed"} /\ UNCHANGED vars

Next ==
  \/ Begin
  \/ BacktrackingTurn
  \/ EndBacktracking
  \/ GreedyTurn
  \/ EndGreedy
  \/ IterativeTurn
  \/ EndIterative
  \/ Terminated

Spec == Init /\ [][Next]_vars /\ WF_vars(Next)

-----------------------------------------------------------------------------

TypeOK ==
  /\ IsKernel(kernel) /\ scheduler \in Schedulers /\ byPriority \in BOOLEAN
  /\ phase \in {"start", "schedule", "done", "large", "failed"}
  /\ II \in Nat /\ budget \in Nat
  /\ DOMAIN schedTime \subseteq Inst /\ schedTime \in [DOMAIN schedTime -> Nat]
  /\ prevSchedTime \in [Inst -> Nat \cup {NULL}]
  /\ unscheduledInsts \subseteq Inst
  /\ unscheduledInstsConstrained \subseteq Inst
  /\ queue \in Seq(Inst)
  /\ phase = "schedule" => reservationTable \in [Cell -> Inst \cup {NULL}]
  /\ bounds \in Bounds
  /\ sdcSchedTime \in [Inst -> Nat]

SDC == scheduler \in {"SDC_BACKTRACKING", "SDC_GREEDY"}

(***************************************************************************)
(* The reservation table and the start times, which every eviction has to  *)
(* change together, say the same: an instruction that needs a unit holds   *)
(* one cell, in the clock of its start modulo II, while it is scheduled    *)
(* and none while it is not.                                               *)
(***************************************************************************)
CellsOf(i) == {c \in Cell : reservationTable[c] = i}

TableMatchesTimes ==
  phase \in {"schedule", "done"} =>
    \A i \in Inst :
      IF Constrained(i) /\ i \in DOMAIN schedTime
      THEN \E c \in CellsAt(i, schedTime[i]) : CellsOf(i) = {c}
      ELSE CellsOf(i) = {}

(***************************************************************************)
(* No instruction is lost over all pushes and evictions: what is not       *)
(* scheduled is known to be, and for the SDC schedulers those that need a  *)
(* unit are either scheduled or queued, once.                              *)
(***************************************************************************)
NothingIsLost ==
  phase = "schedule" =>
    /\ unscheduledInsts = Inst \ DOMAIN schedTime
    /\ SDC => /\ ToSet(queue) = {i \in Inst : Constrained(i)} \ DOMAIN schedTime
              /\ unscheduledInstsConstrained = ToSet(queue)
              /\ IsInjective(queue)

(***************************************************************************)
(* What the pipelined loop rests on.  In a schedule that is accepted no    *)
(* more instructions share a clock of the interval than there are units    *)
(* for them.  That of an SDC scheduler has all instructions, but only      *)
(* those that need a unit when SDC_BACKTRACKING has used up its budget on  *)
(* the last of these (gather_pipeline_stats then stops at an assertion);   *)
(* and what it has starts after what it needs from this or an earlier      *)
(* iteration.  The ITERATIVE scheduler may break dependences.              *)
(***************************************************************************)
Respected(d) ==
  schedTime[d.to] + II * d.dist >= schedTime[d.from] + kernel.latency[d.from]

Sharing(f, s) ==
  {i \in DOMAIN schedTime : kernel.unit[i] = f /\ schedTime[i] % II = s}

UnitsSuffice ==
  \A f \in FU, s \in 0 .. II-1 : Cardinality(Sharing(f, s)) <= numIssueSlots[f]

TimesAreValid ==
  /\ DOMAIN schedTime = IF budget > 0 \/ scheduler = "SDC_GREEDY" THEN Inst
                        ELSE {i \in Inst : Constrained(i)}
  /\ \A d \in kernel.dependences :
       {d.from, d.to} \subseteq DOMAIN schedTime => Respected(d)

ScheduleIsValid == phase = "done" => UnitsSuffice /\ (SDC => TimesAreValid)

(***************************************************************************)
(* The assertions of SDCWithBacktracking and backtracking: the time of the *)
(* solution has no conflict but one of units; a time to force i into is    *)
(* found, something stands in the way there, and nothing does after the    *)
(* evictions.                                                              *)
(***************************************************************************)
AssertionsHold == phase # "failed"

(***************************************************************************)
(* Evicting and being evicted comes to an end, with a schedule or with an  *)
(* interval that is too large.                                             *)
(***************************************************************************)
Terminates == <>(phase \in {"done", "large", "failed"})

=============================================================================
