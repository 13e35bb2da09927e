# A TLA+ model of LegUp's triplicating back end

The repository is LegUp 4, a high-level synthesis compiler on top of LLVM, with
the *TLegUp* extension that generates fault-tolerant hardware: each function
becomes a Verilog module with a finite-state machine and a datapath, each module
is replicated three times, and majority voters are put where an upset could
otherwise live on. This directory holds TLA+ modules of the core of that
compiler and of the hardware it generates, TLC configurations that check them,
and TLAPS proofs.

Abbreviations: `U` = `utils.cpp`, `S` = `SchedulerDAG.cpp`, `G` =
`GenerateRTL.cpp`, `W` = `VerilogWriter.cpp`, all in
`src/llvm/lib/Target/Verilog/`; `T/` = `src/llvm/lib/Transforms/LegUp/`, `MS` and
`SM` = `ModuloScheduler.cpp` and `SDCModuloScheduler.cpp` there. A letter with a
number is a line.

## 1. The system

| component | state it keeps | operations | interacts with | what makes it correct |
|---|---|---|---|---|
| data-flow graph (`S`) | `instMap`, `IntGraph` | `makeDFG`, `setAdjData` | read by the voter passes | edges run from operand to user |
| component search (`U` getSCCs) | visited flags, a finishing stack, the list of components | `fillOrder`, `getTranspose`, `getSCC` | called by `insertSyncVoter` | exactly the strongly connected components |
| cycle search (`U` findCycles) | `blocked`, `stackLike`, `B_Fruitless`, `cycles` | `findCycles`, `unblock` | called once per start node | every elementary cycle |
| sync voters (`S`, `G`) | `InstCycles`, voter flags of signals | `insertSyncVoter`, `insertSyncVoterDFS`, `setSyncVoterFlagWithLatency` | graph, schedule, FSM conditions | no feedback path without a voter |
| schedule (SDCScheduler, Scheduler) | state numbers of instructions | `schedule`, `createFSM` | gives start and end states | dependences and resources respected |
| FSM construction (`S`, `State.h`, `FiniteStateMachine.cpp`) | states, transitions | `createFSM`, `setStateTransitions` | the schedule, RTL generation | control flow of the IR |
| RTL generation (`G`) | signals with conditions and drivers | `generateDatapath`, `generateTransition`, `visit*`, `connectRegistersToWires` | FSM, binding, memory allocation | a wire or register is read when it holds the value |
| Verilog writer (`W`) | the text | `printCaseFSM`, `printConditions`, `printSignal`, `printVoter` | all of the above | the printed module does what the conditions say |
| calls (`G` createStartState and following) | `f_start`, argument registers, registered finish and return value | `visitCallInst`, `createFinishSignal`, lending the memory port | caller, callee, memory controller | a call ends, and returns its own value |
| generated module (printed by `W`) | `cur_state`, `name_reg` | a clock edge, `reset`, `memory_controller_waitrequest` | memory controller, caller | stalls do not show |
| triplicated design (`W`) | three of each, in partitions | sync voters, partition voters (`initPartitions`), voters of memory outputs, an upset | three memory controllers, reducing voters | an upset is masked, confined to its replica and partition, repaired |
| voter status (`W` EBIT_MODE) | `name_e`, `PV_s`, `PV_e` | two or three register stages | the repair logic outside | names the outvoted replica |
| function-level partitioner (`W` 83-1017) | partitions, `partState`, capacities, a running area | `networkFlowPartition`, `mergeNodes`, `maxFlow`, `dfsPartition` | the voters between partitions | ends; within the limits |
| modulo schedulers (`T/`) | reservation table, start times, queue, constraints, budget | schedule, push, evict, backtrack, retry with a larger interval | loop pipelining | no conflict, dependences hold |
| binding (`PatternBinding`, `Hungarian`, `LVA`) | variable lifetimes, a matching | share units and registers | RTL generation | no two live at once |
| memory (`Allocation`, `Ram`, `PADriver`) | tags, RAMs, propagating signals | allocation by points-to sets | memory controller | each pointer reaches its RAM |
| arbiters and pthreads (`W` 4143-4680, `T/ParallelAPI`) | grant registers, mutex numbers, lock and barrier cores | request, grant, lock, barrier, create, join | shared memory port, main thread | exclusion, everybody's own data, no starvation |
| bit widths (`MinimizeBitwidth`) | a bit mask per value | forward and backward passes | RTL widths | a fixpoint that keeps every needed bit |
| hybrid flow, debug, profiling, configuration | rewritten calls, databases, Tcl parameters | — | — | — |

What is hard about it: recursion over shared book-keeping (`blocked` and its
lists); graphs whose edges are in the order of addresses; a selection loop that
reads past the end of a vector; three copies of a machine that must agree again
after they differed, in several partitions at once; wait requests that freeze a
part of the registers; handshakes between machines of which one may be frozen;
threads that poll locks and a barrier through a shared port whose answers come
two clocks late; schedulers that evict what they have scheduled; and text whose
form is guessed from the number of conditions.
`PROJECT.json` lists each hazard at its line.

## 2. Modules

### The voter passes (the compiler)

`DataFlow` — graphs of instructions `0 .. N-1`, and the reference definitions:
reachability, components, paths, elementary cycles.

`CycleSearch` — Johnson's search. `frames` is the recursion of `findCycles`
(node, neighbours still to look at, result `f`); the deque `stackLike` is the
nodes of the frames. One action per thing the loop can do: `CallFromStart`
(clear the book-keeping, start from the next node), `CloseCycle`, `Descend`,
`PassOver`, `Return` (with the book-keeping after the loop: unblock, or enter
the lists of all neighbours). `unblock` is one step: its recursion has no other
effect than to free the closure `Unblocked(v)`. Adjacency lists are in the order
of a map keyed by addresses, so neighbours are taken in any order.

`SccSearch` — Kosaraju's two passes call by call: `FillFrom`, `FillVisit`,
`FillReturn`, `Reverse`, `PopNode`, `CollectVisit`, `CollectReturn`, `Finish`.

`PhiSearch` — the operand walk of `SYNC_VOTER_MODE` 2 (`findSCC`): one search
per phi, stopped by the first cycle. Components of the control-flow graph are
taken in any order.

`VoterSelect` — `setSyncVoterFlagWithLatency`: along each recorded list the
delays add up to the next state boundary, and the instruction at the end of the
shortest stretch is marked. In the code the test for the last element is never
true, and `*(si+1)` is read behind the end of the vector. What is read is
unknown, so the model lets the last element count as a boundary or not, freely
and for each cycle anew. Reads of `getMaxDelay` and `getDelay` are numbers;
`sensitive` is the FSM-sensitive list.

`SyncVoter` and `SyncVoterDFS` compose these with a schedule of the module's
choosing (`startState`, any state for any instruction) into the whole pass of
modes 1 and 2, and `VoterPass` is the pass as it is configured: it has
`SYNC_VOTER_MODE` as a variable that never changes, starts the one or the other
and leaves the state of the idle one alone. `VoterCover` is what a voter pass
promises: it marks instructions on feedback cycles only, and a pass that says
it is complete (mode 1) has marked one on each.

### FSM generation

`FunctionIR` is what this part sees of an LLVM function: per block the last
scheduled state, the instructions with start and latency, the terminator; it is
LLVM's, hence mostly external. `ControlFlow` is the abstract promise: control
enters a block, works in it for a number of states, leaves along an edge that
the terminator takes, and the phis of the block it enters take the value of the
block it comes from. `FsmControl` goes from the schedule to the running Verilog:
`createFSM` and `setStateTransitions` (states and transitions),
`generateTransition` and `generateDatapath` (the list of conditions of
`cur_state`), `printConditions` (`PlainNextState`: a list of `if`s of which the
last true one wins) and `printCaseFSM` (`CaseNextState`: the case statement,
whose shape depends on the number of conditions). Then the printed process runs
under any reset, wait request, start and branch values.
Not in the model: call states (those are in `TmrCalls`), shared units with
several cycles, and states that wait for a loop pipeline.

### The function-level partitioner

`CallTree` — the instances that the call graph numbers breadth first (the memory
controller last, as if main called it), the target of the flow, and by
definition what the code computes by flow: the minimum cut nearest to main.
`FLPartition` — areas, frames and limits; the code's floats are counted in
fractions of 1/200 frame, so that the model computes exactly where the code
rounds. `PART_VOTER_MODE`, a variable that never changes, picks the
partitioner. Mode 2: `Attempt` (a turn of
`networkFlowPartition`), `Cut` (`maxFlow` and `getBoundaryNodes`), `Test` (the
three tests of `networkFlowPartitionMain`, and the sides that `mergeNodes`
merges whole), `Merge` (the node it adds, or the side it pushes), `Judge` (the
margin and the assertion). Mode 1, the recursion of `dfsPartition`: `DfsBegin` (the
areas and `partID` of main), `DfsMemoryController`, `DfsVisit` (the first callee
that has no number: `Place` adds its area to the running sum or opens a
partition with it) and `DfsReturn`; `callStack` is the recursion. `partID`
starts with a value outside all partitions, for the code leaves it
uninitialised. `MaxFlow` — `maxFlow` with its `bfs`, step
by step, on the graph of `connectDFG` and `mergeNodes`: three nodes for each
instance; its `FindsNearestCut` is what lets `Cut` use the definition.
The choice of the target, `SELECT_TARGET_NODE_MODE`, is a variable that never
changes, so that one run covers both.

### The generated hardware

`Registers` has the registers of a module and when they are loaded
(`NextData`): an ordinary register by the states that drive it, in every clock,
a phi register only when the state is left. `Machine` is the module without
redundancy, its program given by operator constants (`NextCtl`, `Loads`,
`Driver`). `StallShadow` runs a module with wait requests beside one without;
`MCStallShadow` gives it a small loop.

`Design` is several modules with ports between them: who drives a port
(`From`, `Out`), who reads it (`To`), and `View`, what an instance sees when the
nets have settled. `DesignMachine` is a design as it is generated without
redundancy. `TmrDesign` is three replicas of it, each instance in a partition
(`PartID`): `Vote` and `Majority`, the voted registers (`isTmrVoterSignal`), the
signals with a partition voter (`initPartitions`), what each replica's ports are
connected to (`ReadsVoter`: `printModuleInstance`, `printMainInstance`), `Tick`
(a clock edge of all replicas) and `Upset`, which changes any registers of one
replica of one partition. Combinational nets are relaxed to a fixpoint in two
rounds (`Settle`): the longest path in these designs is callee, caller, memory.

`TmrCalls` is a design with a call, triplicated: main, a function `f` and the memory
controller, with the call protocol of `G`: `f_start` and the argument registers
of the caller, the call state, the registered finish and return value that are
cleared when the call is made, and the memory port that main lends to `f` in
the call state.

`VoterStatus` is the chain of status registers in `EBIT_MODE` 0 and 2 (the code
of mode 1 is commented out in the source).

### Parallel hardware

`RoundRobinArbiter` — grant, mask and memory of requests of the printed
arbiter. `SyncCores` — the lock and barrier cores behind the memory port.
`ParallelLowering` — how `T/ParallelAPI` numbers the mutexes of the lock calls,
in the order of the module, and how `Allocation` counts the cores. `ParallelHw`
composes them: the main thread and the instances of a parallel function share
the port of the memory controller through the arbiter; each runs a program of
loads, stores, polling loops, barrier arrivals, creations, joins and forks.
`Clock` is one edge for everybody: requests and grants, accesses, data that
comes back two clocks after its grant, and the threads that are not stalled.
`Ending` lets a computation take any time. `Mutex` is what locks promise.

### Modulo schedulers

`LoopKernel` — the body of a loop: the unit of each instruction, latencies,
dependences with distances; the constraints handed to the LP solver (external),
with their solution by definition, the earliest times that satisfy them; the
first II. `ModuloScheduler` — `Begin` (an II: clear everything,
first solution), `BacktrackingTurn` (`ScheduleThere`, `PushLater`, `Backtrack`)
and `EndBacktracking`, `GreedyTurn` and `EndGreedy`, `IterativeTurn` and
`EndIterative`, with the book-keeping that they share (`Evict`, `Requeue`,
`NextII`). Ties in the priority queue are broken in any way.

A definition whose name continues that of the next one (`BookKeepingForgetful`
before `BookKeeping`) is a plausible slip in the same code; no action uses it,
it is a mutant that shows that a property can fail.

## 3. Runs

| run | question | bounds | distinct states |
|---|---|---|---|
| `CycleSearch` | does the search find the elementary cycles, all and nothing else, and end? | all strongly connected graphs of 4 nodes with 1-2 users each | 176 000 |
| `VoterPass` | are the components right, and does each mode of the pass cut the feedback it is meant to cut? (refines `VoterCover`) | all graphs of 3 nodes with at most 2 users, two states, delays 0 and 1 of at most 2, at most one FSM-sensitive instruction; in mode 2 cyclic graphs, all choices of phis and calls, two blocks (interchangeable) | 332 000 |
| `TmrCalls` | are upsets confined and masked (refines `DesignMachine`), do the replicas agree again, and does every call return its own value? | the design with a call, `f` in a partition of its own, main and the memory controller in the other; two upsets, stalls and reset | 9 600 |
| `TmrMemory` | is every signal between partitions voted? | the same, `f` reading memory | violated, see below |
| `StallShadow` | can stalls be seen? | a four-state loop, five register bits, any content at power-up | 136 |
| `VoterStatus` | do the status bits tell the truth? | two voters, three words, all patterns of agreement at every clock, both modes | 38 000 |
| `FsmControl` | does the generated FSM walk the control-flow graph? (refines `ControlFlow`) | three functions with every terminator, one-block and two-block loops, an empty first block, loads outlasting the schedule, an endless loop | 3 200 |
| `FLPartition` | does either partitioner place every instance, within the limits, and end? | all call trees of 5 instances, one the memory controller, two pairs of areas, two widths, three partitions, both choices of the target | 185 000 |
| `MaxFlow` | is the flow legal, maximal, and the cut the nearest? | all call trees of 4 instances, two widths, any instances merged to either side | 14 000 |
| `ParallelHw` | do locks exclude (refines `Mutex`), barriers separate, joins wait, loads get their own data, and does main return? | main and two instances, two mutexes, a barrier passed twice, OpenMP forked twice, four words | 10 100 |
| `LockCores` | are there always enough lock cores? | the same with a module that names its first mutex last | violated, see below |
| `ModuloScheduler` | do table, times and queue stay consistent, is an accepted schedule valid, does the loop over II end? | all loop bodies of 4 instructions, 3 or 4 of them on one unit, up to two dependences and one from the last iteration, three schedulers, a budget of one turn per instruction | 76 000 |

Why these bounds: four nodes are the least at which Johnson's lists matter (a
node is blocked through another that is blocked through a third) and at which
two cycles share a node off the start; three nodes give cycles with a chord and
two cycles through one phi, which the voter choice distinguishes; two FSM states
are enough to have a boundary or none. Two upsets let a second one strike
another replica after the first, or another partition while the first lasts; in
`TmrCalls` they hit a voted register, the start of a call, or the FSM of the
callee, and in the proofs anything. A cyclic component listed in another order
is the ascending list of a renumbered graph, so `MCCycleSearch` fixes the order.
Five instances are the least with a tree of depth two beside a second branch and
three partitions to fill; the areas are chosen so that every branch of the
partitioner is taken: a side that must be pushed, an attempt that gives up, a
rest that fits in whole columns. Three ports make the arbiter choose between two
waiting requests while a third is served; each instance runs one of four
programs (two locks, the barrier, loads under way together, stores in every
clock), in all pairs that can meet. Three instructions on one unit and a budget
of one turn each are enough for two of them to evict each other and for the
budget to run out.
The proofs of section 5 remove these bounds for the properties they cover.

Fairness. The compiler passes are sequential programs: `WF(Next)`. `FLPartition`
writes it as `Progress`, with "has not stopped" for `ENABLED`, which is the same
because the runs check that no state deadlocks and only `Stop` stutters. A clock
goes on: the specification of the `TmrCalls` run (`RunSpec`) assumes of every input
value of `Running` that an edge with it, without a wait request, comes again and
again where the surroundings may give it (no stall lasts for ever, the design is
started some time). A reset may come whenever main waits for its start (`CallEnv`).
`ParallelHw` assumes that the clock goes on, and strong fairness of the end of a
thread's computation or loop of stores: it may take any time, but not for ever,
though it ends only in a clock in which the thread is not stalled.
`FsmControl` assumes that clock edges go on and that neither reset nor a wait
request lasts for ever. Nothing is assumed about branch values, which is why
`BlocksAreLeft` is only about blocks that do not lead to themselves.

Deadlock is checked in every run; the passes stop with an explicit last step.

### What the runs show

* Mode 1 is right in spite of the read past the end. `insertSyncVoter` records
  every rotation of every cycle, so whatever the last element of a list does,
  some rotation has the boundary in its middle (`CrossingIsVoted`), and a cycle
  inside one state is voted at each of its instructions
  (`SingleStateCyclesVotedThroughout`).
* Mode 2 promises less. It ends the search of a phi at the first cycle; only a
  loop that is the only one through one of its phis is certain to be cut
  (`SimpleLoopsVoted`).
* Upsets stay in the replica and the partition they struck, and the majority of
  the replicas is always a run of the design without redundancy. Recovery needs
  voters on the loops: without voted registers `Recovers` fails.
* One kind of signal crosses partitions without a voter (`TmrMemory`). The
  outputs of the memory controller have voters, but only main is connected to
  them (W9727); a called function reads `memory_controller_out_a_r0` (W10953),
  and `initPartitions` does not look at that port (`isPartModuleCommonSignal`,
  W1111). With one faulty
  replica of the memory controller and another of the callee, no two replicas of
  the callee agree.
* Calls work as the source says: the caller goes on exactly when the callee is
  done, with the value of this call, also when finish comes in the middle of a
  stall.
* The status chain of mode 2 names a replica only when it is the only one.
* A stalled module may load its ordinary registers many times, but neither the
  FSM nor a phi sees it.
* The heuristic "two conditions: unconditional" of the case printer is right
  because `functionRequiresMemory` always answers yes: every state has a
  condition for `waitrequest`.
* The max-flow partitioner places every instance, and every partition it accepts
  has an instance that is numbered by it. With the default target it keeps to
  the limit too, unless a single instance is larger.
  The bound on its inner loop is never reached. Since every limit on look-up
  tables, registers, memories and multipliers is what all instances need
  together, none of them can ever be exceeded: only frames limit a partition,
  and the case `noBalancedPartition==2` is dead.
* Its partitions may overlap. A candidate joins its side with all of that side,
  which no longer fits; the side is pushed, the candidate with it, and the
  candidate is merged again, into the next. It is then listed in both and
  numbered by the later. No comment or document says that partitions are
  disjoint, and no property here does. With the default target this begins at
  seven instances and four partitions, beyond the bound of the run: for example
  a memory controller, instances 1 to 5 called by 0, 1, 1, 2 and 3, areas of (353
  look-up tables, 456 registers) for 0, 2, 3 and 4, of (261, 162) for 1 and the
  memory controller and of (158, 207) for 5, widths 2, 2, 3 and 2 of 0 to 3, a
  margin of 20. The side that was pushed was within the limit there.
* With `SELECT_TARGET_NODE_MODE` 1 such a side can also be over the limit:
  `WithinLimit` speaks of the default. To see it, take `Default` out of it and
  give `MCFLPartition` areas of 40, 60 and 100 look-up tables without a memory
  controller. (The areas of the run itself are too large for this.) No comment or
  document says that this mode should do better.
* Locks exclude, and the arbiter passes nobody over for more than two accesses of
  each of the others.
* The number of lock cores is that of the last lock call (`LockCores`), so that a
  thread can poll a core that does not exist.
* The modulo schedulers keep reservation table, start times and queue consistent
  whatever they evict, and what they accept keeps to the units. What the SDC ones
  accept respects the dependences and is complete, but for one case: when the turn
  that fixes the last instruction with a unit uses up the budget, the
  instructions without a unit get no time (SM 1108); the statistics then stop at an
  assertion (line 411 of `ModuloScheduler.cpp`). `ScheduleIsValid` says so.
* Where an instruction uses another twice, `makeDFG` adds two edges and `findCycles`
  records the cycles over them twice, so that another node of a cycle may be marked
  too.
  The model has sets of users and of cycles, and does not count.

Remarks that no run checks; the reader may repeat them by changing a
configuration.

* The margin of the partitioner is not bounded as its assertion (W872) says:
  limits are rounded to whole frames and areas are not, so that main with half a
  frame that calls an instance of 10.4 frames fits in two partitions only with a
  margin past `100*(k-1)` percent.
* A program of one instance, or of main and the memory controller, makes source
  and target of the flow the same node, and the loop of `maxFlow` (U1006) does
  not end. The runs have a call beside the memory controller.
* `dfsPartition` bounds the area of a partition and not their number:
  `NUMBER_OF_PARTITIONS` only divides the total. Nor does it fill the list
  `Partitions`, so that no `PART_` module is printed. With `PART_VOTER_MODE` 0
  `partID` stays uninitialised.
* With `SYNC_VOTER_MODE` 0 and `PART_VOTER_MODE` 0 what is printed as the voter
  of finish and return value passes replica 0 to all three. This setting is left
  out by `Isolated`, the assumption of the proofs.
* start is lowered unconditionally in the clock after it was raised (G1713),
  though a comment (G2547) says that a call waits until finish. A stall that
  begins in just that clock, while the callee is still in its wait state, loses
  the call. `CallEnv` leaves such stalls out, as the printed test bench does
  (W6081: one low clock in six, or low for good). A stall in the state before
  lets the callee start a clock early, with arguments that may not have settled
  if its first block is empty; a reset in the middle of a call leaves start high.
* The data of a load is kept until its last state in the instances only
  (`visitLoadInst`, G1375; the comment at G1590 gives the reason). When the main
  thread, beside running instances, has three loads in a row, and the third is
  stalled in the state in which the first ends, the first takes the word of the
  second. `DataReachesItsReader` fails for such a program, and the run has none.
* The barrier is cleared so that it can be used again (comment at W4068), and a
  thread learns of it by polling. With three instances that pass it twice while
  the main thread stores in every clock, a thread may be kept from the port until
  the others have arrived a second time; it never sees the zero, and `Returns`
  fails. With the two instances of the run the second round is safe.
* ITERATIVE calls `distance` (SM 416 and 436), which resolves to `std::distance`:
  the difference of two addresses stands for the distance of a dependence, and
  the schedule may break dependences. `ScheduleIsValid` speaks of the SDC ones.
* `State::addTransition`
  promises the transition "when getTransitionVariable() is equal to value", but
  `generateTransition` takes any state with two transitions for a branch on one
  bit, so a switch with one case ignores the value. The standard optimisations
  of the build fold such a switch before the back end sees it, and the
  functions of `MCFsmControl` have none.

## 4. Properties

Each module has one type invariant; the other properties are stated with a
comment in the module. The ones to read first: `StartsAreExhausted` and
`BlockedWaits` (`CycleSearch`), `ImplementsCover` and `CrossingIsVoted`
(`VoterPass`), `UpsetsAreMasked`, `UpsetsAreConfined` and `Recovers`
(`TmrDesign`), `CallReturnedItsValue` and `CallsReturn` (`TmrCalls`),
`StallsAreTransparent` (`StallShadow`), `DiagnosisIsExact` (`VoterStatus`),
`BothFormsAgree` and `ImplementsControlFlow` (`FsmControl`),
`EveryInstancePlaced` and `WithinLimit` (`FLPartition`), `FindsNearestCut`
(`MaxFlow`), `ImplementsMutex`, `BarrierSeparates` and `NoUpdateIsLost`
(`ParallelHw`), `TableMatchesTimes` and `ScheduleIsValid` (`ModuloScheduler`).
The type invariants of the big modules are not runs of their own where a proof
or a run of the invariants that use them has them already.

## 5. Proofs

Checked by `tlapm`, for all values of the constants.

* `TmrDesign_proofs`: `TypeCorrect`, `Confinement` (`UpsetsAreConfined`) and
  `Masking` (`UpsetsAreMasked`), for every design, program, partition and set of
  voted registers and any number of upsets. The hypothesis is `Isolated`: a port
  that leaves its partition is read through a voter, and voters vote. `TmrCalls`
  satisfies it, `TmrMemory` does not. In each partition one replica may be bad,
  and not the same in all of them (`Faulty`); the core is that the settled nets
  of a replica match those of the design without redundancy in all partitions
  where it is healthy (`SettleMatches`, `HealthyView`), for a voted port is right
  if two of three are (`VoteMasks`) and other ports stay in the partition. So a
  healthy replica takes the step of the golden design (`HealthyStep`), and the
  majority is what a healthy replica has (`HealthyState`, `HealthyBit`).
  What is assumed of the environment is in `Upset`: it strikes a partition only
  while the other two replicas agree there. Double faults are outside what
  triplication is for. `CallResults` (`CallReturnedItsValue`) puts this to use: for
  the design with a call (`CallDesign`, which TLC finds true of the runs), with a
  callee that does not read memory, in every partition that is `Isolated`, with
  any voted registers and any number of upsets. By `Masking` it is enough to look
  at the design without redundancy, and its calls go through seven phases
  (`CallPhases`, the inductive invariant: waiting, starting, asked, working,
  finishing, answered, storing), each with the start, finish and argument
  registers it needs. A stall in the state that starts the call already raises
  `f_start`, so that the callee is a clock ahead when the stall ends.
* `StallShadow` (the proofs are in the module itself): `StallTransparency`, from two assumptions about the
  program that the code establishes: an ordinary register is loaded by a state
  unconditionally (`connectRegistersToWires`), and a state does not read the
  register it loads but the wire (`getOpNonConstant`).
* `CycleSearch_proofs`: on every family of graphs of any size, `TypeCorrect`,
  `CyclesAreElementary` (what is recorded is a cycle), `StackIsSafe`
  (`StackStaysBlocked`), `BlockingDiscipline` (`BlockedWaits`) and
  `SearchIsComplete` (`StartsAreExhausted`). The inductive
  invariant `IInv` adds that the calls form a simple path (`CallsFormPath`), that
  lists belong to blocked nodes (`ListsOfBlockedOnly`) and that fruitless calls
  have only blocked neighbours (`FruitlessSoFar`). The heart is how the closure
  `Unblocked` shrinks and what it frees when a call returns
  (`ClosureWithEntry`, `ReturnLists`). Completeness adds (`CInv`) that the loop of
  each call has found all cycles that follow the stack up to its node and go on
  to a neighbour it has left behind (`PrefixesDone`). That a blocked neighbour may
  be left behind is `NoCycleThroughBlocked`: a cycle that goes on to it could, by
  the blocking discipline, never leave the blocked nodes off the stack, and none
  of them leads back to the start.
* `VoterPass_proofs`: all that the run of `VoterPass` checks, for every number of
  instructions and every graph, schedule, set of delays and of FSM-sensitive
  instructions.
  `ComponentsFound` (`AllComponentsFound`): `SccInv` says of the first pass that a
  component which has finished as a whole has finished all it reaches
  (`FinishedReach`), hence that whoever reaches a node has someone of its own
  component finish no earlier (`LastOfComponent`); of the second pass, that what
  was taken is a union of components, each once, and that the list being built is
  part of one and leaves nothing of it behind (`CollectInv`, `WalkInv`).
  `CrossingsAreVoted` and `SingleStatesAreVoted`: `CoverInv` says that a feedback
  cycle is recorded, or that its component waits or is being searched, and that a
  recorded list waits or has the voter the selection chose. The search of one
  component is that of `CycleSearch_proofs`, of which `CInv` is used as it stands.
  `VoterPlace` says that the selection takes the last element of a list or one
  before a change of state; since every rotation of a cycle is recorded
  (`RotatedFacts`), for each node there is a list that ends with it, and so a
  voter at it or at a boundary (`VotedAt`).
  `PhisAreServed` and `SimpleLoopsAreVoted`: `PhiInv` says that an operand of a
  visited node is ignored, waits in an active call, or was visited too and is not
  the phi (`Explored`). When the walk is over none waits, so that a cycle through
  the phi would have to leave the visited nodes (`NothingOpen`): nodes that stay
  marked cost no phi its cycle. `ServeInv` adds the schedule and the selection.
  `PassImplementsCover` (`Spec => ImplementsCover`) follows from both invariants.
  For mode 2 it has a hypothesis, `NoSelfUse`: no instruction is its own operand.
  A phi that is would be recorded as a cycle of one node, which `FeedbackCycles`
  leaves out because mode 1 skips it; the graphs of the run have none in mode 2.
  Nothing is assumed of mode 1.
* `VoterStatus_proofs`: `AlarmExact` and `DiagnosisExact`, for any number of
  signals and words. `Pipeline` says of each register stage what it has of the
  words one, two or three clocks ago, in terms of the code of a single voter
  (`Code`); that several codes combine into the right status is a case split on
  which replicas are outvoted by some signal.
* `FsmControl_proofs`: `TypeCorrect`, `FormsAreEqual` (`BothFormsAgree`) and
  `WalksControlFlow` (`ImplementsControlFlow`), for any functions, schedules and
  latencies. The list of conditions of a state has one of a few shapes
  (`ConditionsShape`), tests whose guards exclude each other (`TestsAre`), and
  just one leads out of the state when it is not stalled (`OneExit`): from that
  both forms choose the same state (`FormsAgree`). For the refinement each step
  of the FSM is a step of the abstract control flow, a wait (`WaitEdge`), a state
  inside the block (`InnerEdge`), or its last one (`LastEdge`). The hypothesis
  `SwitchesHaveCases` leaves out the switch with exactly one case, see above.
* `ParallelHw_proofs`, for any number of threads, mutexes and lock cores and any
  programs of the form that the lowering and the polling loops have
  (`ProgramsAssumption`: an unlock stands behind its lock, a start that is raised
  is lowered in the next state, as `connectStartSignal` connects it, and a load
  ends in the block it begins in, since the schedule of a block does not end
  before its instructions).
  `LocksExclude`, `Spec => ImplementsMutex`: exclusion alone is not inductive, for
  a core gives itself to a thread two clocks before the thread knows it. `IInv`
  counts the answer that is under way as holding the lock (`Taking`), says that
  at most one thread holds a core and that the core is then taken (`HolderInv`),
  and that an answer reaches the thread that asked (`AskedInv`, `TestingInv`).
  That the arbiter grants one request at a time (`GrantsOne`) closes the case of
  two threads that ask in the same clock.
  `WaitingIsBounded` (`NobodyWaitsLong`): the mask of the arbiter follows a grant
  two clocks later (`WaitInv`), so each thread can be served twice before
  one that waits; the number of threads between the mask and the waiting one is
  a bound on what is left.
  `JoinsWait` (`JoinedHaveEnded`): a note that an instance has ended is about the
  run that the join is for; `JoinInv` relates the start register, the finish
  registers, the thread ID and the state of the instance.
  `LoadsTakeTheirData` (`DataReachesItsReader`): `DataInv` says where the answers
  a thread waits for are (in the memory's registers, on the port, in the register
  behind it or in the store inside the instance) from its state and the state
  before. Its hypothesis `MainKeepsLoads` is that no load of the main thread is
  overtaken, see above.
  `UpdatesAreCounted` (`NoUpdateIsLost`) joins the exclusion, the way of a load
  and the joins: an increment is, from its load on, inside the lock of its word
  (`UpdatesExclude`), so what it loaded is what the word holds until its store is
  granted (`ValueInv`); the word holds what it held at first plus the increments
  granted so far (`CountInv`), where an increment is an instance, its store and
  the create or fork that began the run, because a second parallel region runs
  the same store again; and when the main thread returns all of them are done,
  since every run was joined (`EndOfCount`).
  `BarrierMeets` (`BarrierSeparates`): the counter of the core is reset when it
  reaches the number of threads, which is not the moment anybody leaves. `Round`
  says how far apart threads may be (in round n all have arrived n or n+1 times,
  passed n times at most, and the counter is how many have arrived n+1 times),
  and `LookedInv` that a 0 read in one round is still true when the thread that
  read it tests it two clocks later. A fork begins to count anew, when everybody
  is at rest and the counter is 0 (`ForkStartsRounds`).
  Their hypotheses are about the program: `UpdatesAreGuarded` (the increments of
  a word are made under one lock, of a core the module has), `RunsAreJoined` and
  `AllMeet` (arrivals and passes alternate, and the main thread sets the barrier
  up for all instances before it starts any). TLC evaluates them, and
  `MainKeepsLoads`, in both runs (`ProgramsAreAsAsked`): the programs of the first
  meet them all, that of `LockCores` all but `UpdatesAreGuarded`, for the finding
  is that the module lacks a core.
* `ModuloScheduler_proofs`: `TableFollows`, `NoneIsLost`, `SchedulesAreValid`, for
  any loop body, units, budget and scheduler. The inductive invariant has three
  parts: `TableExact` (a cell is held by exactly the instruction whose time is
  there), `QueueExact` (queued once or scheduled) and `SolutionExact` (the
  solution satisfies the constraints, and a scheduled instruction is fixed at
  its time in them). That the last solution respects the dependences is what
  makes an accepted schedule valid; that those that share a clock hold different
  cells of the table is what keeps them to the units (`TableIsLimit`).
  `AssertionsNeverFail` (`AssertionsHold`): the solver has a solution whenever
  there is one (`SolutionIsLeast`). Its rounds are a recursive function, of which
  `RoundsExist` and `RoundsAre` say that it is what its equations say;
  `RoundStaysBelow` that no round passes a solution, `RoundReachesMore` that as long
  as a constraint is broken one more instruction has its final time, so that as
  many rounds as there are instructions are enough. `Solved` adds to the invariant
  that the constraints of the loop alone can be met, and that the present times
  are the least solution of the present ones. A longer interval only weakens them
  (`LongerIsFeasible`), and after everything in the way of an instruction has been
  evicted a solution is moved as a whole until the instruction is at the slot
  that was asked for.

Only model-checked: that the replicas agree again (`TmrCalls`); the partitioner
and its flow, `EveryInstancePlaced` and `WithinLimit` of `FLPartition`, which rest
on sums of areas over sets and on the recursive search of a path, and
`FlowIsLegal` and `FindsNearestCut` of `MaxFlow`, which are the theorem of maximum
flow and minimum cut; all liveness, for the prover has no fairness or `ENABLED`;
and what recursive functions compute, for it has no induction over data. (The
solver of `LoopKernel` is an exception: its number of rounds is a natural number,
and the induction over it can be replaced by the choice of a least one.)

## 6. Not modelled

The components with status `not_modelled` in `PROJECT.json`, with their reasons.
The instruction-level partitioner cannot run (`assert(0)` in mode 3); mode 4 and
the registered voters of local memories (`USE_REG_VOTER_FOR_LOCAL_RAMS`) are
left. Loop pipelines, `cloneFSM`, `pushInstructionToNextState`, `pushExtraStates`
and shared multi-cycle units are not in `FsmControl`; custom Verilog modules and
calls in a terminating state not in `TmrCalls`; the arbiter's two-port variant,
wrapper functions and thread arguments not in `ParallelHw`; NSGA, the exact
search, chaining in a clock and the pipeline itself not in `ModuloScheduler`.
The data path inside the memory controller is one bit. Vendored points-to
analysis, the debug databases, profilers and the hybrid flow stay out: they are
copies of other work, write files, or need a bus that is not in the repository.

## 7. Plan

Done, in this order: the voter passes, FSM generation, the generated module and
its triplication, the partitioner, arbiters and locks, the modulo schedulers,
calls and partition voters. What is left, in the order of its worth:

1. *Voters in the netlist* (`VoterRead`): which register a reader really reads
   (`fromOtherState`, phis), and that marks which cover every feedback cycle
   give `Recovers`, so that `VoterPass` and `TmrDesign` meet in one theorem.
2. *FSM transformations* (`FsmEdit`): `cloneFSM`, `pushInstructionToNextState`,
   `pushExtraStates`, and pipeline states in `FsmControl`.
3. *SDC scheduler* against dependences and resources, on the constraints of `LoopKernel`.
4. *Binding*: live variable analysis and the Hungarian matching.
5. *Fixpoints*: bit widths, propagating signals.
6. *Proofs*: `EveryInstancePlaced` of `FLPartition`.
