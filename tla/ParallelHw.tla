----------------------------- MODULE ParallelHw -----------------------------
(***************************************************************************)
(* A function that runs others in parallel, as GenerateRTL.cpp builds it:  *)
(* the main thread (port 0) and the instances (ports 1 .. N-1) are state   *)
(* machines that share one port of the memory controller through the       *)
(* round-robin arbiter.  A state with a memory access stalls until it is   *)
(* granted; what a load reads is on the port two clocks after the grant,   *)
(* and is kept for a load whose last state comes later.  The main thread   *)
(* starts the instances, runs on (Pthreads) or waits (OpenMP), and polls   *)
(* for their end.  One step is one edge of the clock.                      *)
(*                                                                         *)
(* A program is a sequence of states, written with the operators below; a  *)
(* load, lock or look ends in the state two after it.  A definition whose  *)
(* name continues that of the one after it is a plausible slip in the same *)
(* code; the runs name it as a mutant and no action uses it.               *)
(***************************************************************************)
EXTENDS RoundRobinArbiter, SyncCores, Sequences, FiniteSets

CONSTANTS
  Programs,    \* the programs, a function of the ports, the system may have
  Address,     \* the words of the shared memory
  InitialWord, \* what they hold at first
  NoData       \* what is on the port when no read was granted

ASSUME NoDataAssumption == NoData \notin Nat

VARIABLES
  program,       \* the states of every thread
  pc,            \* cur_state; 0 is the state that waits for start
  memory,        \* the words of the shared memory
  memory_reg,    \* what a read granted one clock ago answered
  memory_out,    \* memory_controller_out_arbiter, of a read two clocks ago
  dataReady0,    \* the threads granted a read in the clock before
  dataReady1,    \* the threads whose data is on the port
  out_reg,       \* the data last taken from the port, for each thread
  first_state_after_memory_read,   \* of each instance, as a set
  second_state_after_memory_read,
  waitrequest_inverted_reg,
  stored_reg,    \* memory_controller_out_stored_on_datavalid_reg
  loadReg,       \* the register of the load that ended last
  start,         \* the instances whose start register is 1
  finish,        \* the instances whose finish register is 1
  finish_reg,    \* the instances whose end the main thread has noted
  legup_count,   \* the thread ID of the next create
  due,           \* of each thread, what its loads under way were answered
  waited         \* of each thread, the clocks its state has been stalled

threadVars == <<program, pc, memory, memory_reg, memory_out, dataReady0,
  dataReady1, out_reg, first_state_after_memory_read,
  second_state_after_memory_read, waitrequest_inverted_reg, stored_reg,
  loadReg, start, finish, finish_reg, legup_count, due, waited>>

vars == <<arbiterVars, syncVars, threadVars>>

Main == 0

Instance == Port \ {Main}

(***************************************************************************)
(* The states of a program.                                                *)
(***************************************************************************)
Idle == [op |-> "idle", arg |-> 0]
Compute == [op |-> "compute", arg |-> 0]
Fill(a) == [op |-> "fill", arg |-> a]
Load(a) == [op |-> "load", arg |-> a]
Increment(a) == [op |-> "store", arg |-> a]
LockRead(k) == [op |-> "lock", arg |-> k]
LockTest(k) == [op |-> "locked", arg |-> k]
Unlock(k) == [op |-> "unlock", arg |-> k]
BarrierInit(n) == [op |-> "init", arg |-> n]
Arrive == [op |-> "arrive", arg |-> 0]
Look == [op |-> "look", arg |-> 0]
LookTest == [op |-> "looked", arg |-> 0]
Create(i) == [op |-> "create", arg |-> i]
Created(i) == [op |-> "created", arg |-> i]
Join(i) == [op |-> "join", arg |-> i]
Fork == [op |-> "fork", arg |-> 0]
Await == [op |-> "await", arg |-> 0]
Return == [op |-> "return", arg |-> 0]

\* The programs the compiler and the library's polling loops make: a program
\* ends with its return, a lock is tested two states after it was read, and
\* its unlock stands behind the test.
Steps == [op : {"idle", "compute", "fill", "load", "store", "lock", "locked", "unlock",
                "init", "arrive", "look", "looked", "create", "created", "join", "fork",
                "await", "return"},
          arg : Nat \cup Address]

WellFormed(states) ==
  /\ Len(states) > 0 /\ states[Len(states)] = Return
  /\ \A p \in DOMAIN states :
       /\ states[p].op = "lock" =>
            /\ p+2 <= Len(states)
            /\ states[p+1].op = "idle" /\ states[p+2] = LockTest(states[p].arg)
       /\ states[p].op = "locked" =>
            p > 2 /\ states[p-2] = LockRead(states[p].arg)
       /\ states[p].op = "looked" =>
            p > 2 /\ states[p-2].op = "look" /\ states[p-1].op = "idle"
       /\ states[p].op = "unlock" =>
            \E q \in 1 .. p-1 :
              /\ states[q] = LockTest(states[p].arg)
              /\ \A o \in q .. p-1 : states[o] # Unlock(states[p].arg)

\* A create or a fork raises start in one state and lowers it in the next; a
\* function is a Pthreads or an OpenMP one.
StartsAreLowered(states) ==
  \A p \in DOMAIN states :
    /\ states[p].op = "create" =>
         p < Len(states) /\ states[p+1] = Created(states[p].arg)
    /\ states[p].op = "fork" =>
         /\ states[p] = Fork /\ p < Len(states) /\ states[p+1] = Await
         /\ \A q \in DOMAIN states : states[q].op # "create"

Reads == {"load", "lock", "look"}

\* A load ends in the basic block it begins in, and a polling loop, a wait and
\* a loop of stores are blocks of their own.
LoadsEndInTheirBlock(states) ==
  \A p \in DOMAIN states :
    /\ states[p].op = "return" => p = Len(states)
    /\ states[p].op \in Reads =>
         /\ p+2 <= Len(states)
         /\ \A q \in {p+1, p+2} : states[q].op \notin {"compute", "fill", "join", "await"}
    /\ states[p].op \in {"lock", "look"} =>
         \A q \in {p-1, p-2} \cap DOMAIN states : states[q].op \notin Reads

ASSUME ProgramsAssumption ==
  \A prog \in Programs :
    /\ prog \in [Port -> Seq(Steps)]
    /\ \A r \in Port : /\ WellFormed(prog[r])
                       /\ StartsAreLowered(prog[r])
                       /\ LoadsEndInTheirBlock(prog[r])

ASSUME WordsAssumption == InitialWord \in [Address -> Nat]

Wait == [op |-> "wait", arg |-> 0]

State(r) == IF pc[r] = 0 THEN Wait ELSE program[r][pc[r]]

In(r, op) == State(r).op = op

\* the load whose last state this is
Ends(r) == pc[r] > 2 /\ program[r][pc[r]-2].op \in Reads

(***************************************************************************)
(* The access a thread asks for in its state.                              *)
(***************************************************************************)
Access(kind, device, index, status, data) ==
  [kind |-> kind, device |-> device, index |-> index, status |-> status,
   data |-> data]

NoAccess == Access("none", "none", 0, FALSE, 0)

AccessOf(r) ==
  LET arg == State(r).arg
  IN  CASE In(r, "load")   -> Access("read", "memory", arg, FALSE, 0)
        [] In(r, "store")  -> Access("write", "memory", arg, FALSE, loadReg[r] + 1)
        [] In(r, "fill")   -> Access("write", "memory", arg, FALSE, 0)
        [] In(r, "lock")   -> Access("read", "lock", arg, FALSE, 0)
        [] In(r, "unlock") -> Access("write", "lock", arg, TRUE, 1)
        [] In(r, "init")   -> Access("write", "barrier", 0, FALSE, arg)
        [] In(r, "arrive") -> Access("write", "barrier", 0, TRUE, 0)
        [] In(r, "look")   -> Access("read", "barrier", 0, TRUE, 0)
        [] OTHER           -> NoAccess

\* the states that access the port, and of these those that read
Accesses == {"load", "store", "fill", "lock", "unlock", "init", "arrive", "look"}

Requests == {r \in Port : State(r).op \in Accesses}

ReadRequests == {r \in Port : State(r).op \in Reads}

Granted == grant_comb(Requests)

\* the port belongs to whom it is granted
Served(gnt) ==
  IF gnt = {} THEN NoAccess ELSE AccessOf(CHOOSE r \in gnt : TRUE)

\* waitrequest: a request that is not granted
Stalled == Requests \ Granted

(***************************************************************************)
(* What a thread sees of the port.                                         *)
(***************************************************************************)
\* out: the data when it is ready, and the register that keeps it after that
Out(r) == IF r \in dataReady1 THEN memory_out ELSE out_reg[r]

\* memory_readdata_valid, whatever was stalled in the clock before
ValidAlways(r) == r \in second_state_after_memory_read

\* memory_readdata_valid: the first clock of the second state after a read
Valid(r) ==
  r \in second_state_after_memory_read \cap waitrequest_inverted_reg

Stored(r) ==
  IF Valid(r) THEN Out(r)
  ELSE IF r \in second_state_after_memory_read THEN stored_reg[r] ELSE 0

\* visitLoadInst: the storage is built into the instances only
LoadData(r) == IF r = Main THEN Out(r) ELSE Stored(r)

(***************************************************************************)
(* The state machines.                                                     *)
(***************************************************************************)
\* a lock core answers 1 to the read that takes it, the barrier 0 when all
\* have arrived; until then the thread asks again
AsksAgain(r) ==
  \/ In(r, "locked") /\ LoadData(r) # 1
  \/ In(r, "looked") /\ LoadData(r) # 0

\* finish_final of a join: the poll finds the instance's register
Finished(i) == i \in finish_reg

\* the threads in a computation of their own or in a loop of stores, for a
\* time the system does not know
Busy == {r \in Port : In(r, "compute") \/ In(r, "fill")}

\* done are the threads whose computation or loop ends
Stays(r, stalled, done) ==
  \/ r \in stalled
  \/ In(r, "wait") /\ r \notin start
  \/ r \in Busy \ done
  \/ In(r, "join") /\ ~Finished(State(r).arg)
  \/ In(r, "await") /\ ~\A i \in Instance : Finished(i)
  \/ r = Main /\ In(r, "return")

NextState(r) ==
  IF In(r, "return") THEN 0 ELSE IF AsksAgain(r) THEN pc[r] - 2 ELSE pc[r] + 1

MoveThreads(stalled, done) ==
  pc' = [r \in Port |-> IF Stays(r, stalled, done) THEN pc[r] ELSE NextState(r)]

\* An instance of a pthread function is started when the run-time thread ID
\* is the one its create was given at compile time.
Starts ==
  {i \in Instance : \/ In(Main, "create") /\ State(Main).arg = i /\ legup_count = i-1
                    \/ In(Main, "fork")}

Started ==
  {i \in Instance : \/ In(Main, "created") /\ State(Main).arg = i
                    \/ In(Main, "await")}

\* the instances are started by an OpenMP call, which blocks
Blocking == \E p \in 1 .. Len(program[Main]) : program[Main][p] = Fork

\* the notes of the run before are left
FinishClearedNever == {}

\* what clears the note of an instance's end
FinishCleared ==
  IF Blocking THEN {i \in Instance : In(Main, "fork")} ELSE start

ForkAndJoin ==
  /\ start' = (start \ Started) \cup Starts
  /\ finish' = {i \in Instance : In(i, "return") \/ (i \in finish /\ ~In(i, "wait"))}
  /\ finish_reg' = (finish_reg \ FinishCleared) \cup finish
  /\ legup_count' = IF In(Main, "create") THEN legup_count + 1 ELSE legup_count

(***************************************************************************)
(* The memory, and the registers on the way back from it.                  *)
(***************************************************************************)
Answer(access) ==
  IF access.kind # "read" THEN NoData
  ELSE IF access.device = "memory" THEN memory[access.index] ELSE SyncOut(access)

MemoryClock(access) ==
  /\ memory' = IF access.kind = "write" /\ access.device = "memory"
               THEN [memory EXCEPT ![access.index] = access.data] ELSE memory
  /\ memory_reg' = Answer(access)
  /\ memory_out' = memory_reg

\* the logic beside every instance, and beside the main thread
InstanceReaddata(gnt) ==
  /\ dataReady0' = gnt \cap ReadRequests
  /\ dataReady1' = dataReady0
  /\ out_reg' = [r \in Port |-> IF r \in dataReady1 THEN memory_out ELSE out_reg[r]]

\* the shift registers inside an instance move with its state machine
Shift(reg, in, stalled) == (reg \cap stalled) \cup (in \ stalled)

FunctionReaddata(stalled) ==
  /\ first_state_after_memory_read' =
       Shift(first_state_after_memory_read, ReadRequests \ {Main}, stalled)
  /\ second_state_after_memory_read' =
       Shift(second_state_after_memory_read, first_state_after_memory_read, stalled)
  /\ waitrequest_inverted_reg' = Instance \ stalled
  /\ stored_reg' = [r \in Instance |-> IF Valid(r) THEN Out(r) ELSE stored_reg[r]]

\* the register follows the port, whatever the state
LoadRegistersAlways == loadReg' = [r \in Port |-> LoadData(r)]

LoadRegisters ==
  loadReg' = [r \in Port |-> IF Ends(r) THEN LoadData(r) ELSE loadReg[r]]

\* history: the answers to a thread's reads, until the load has ended, and
\* the clocks its state has been stalled, up to a bound
MaxWait == 2 * N

Remember(gnt, stalled) ==
  /\ due' = [r \in Port |->
               LET rest == IF Ends(r) /\ r \notin stalled THEN Tail(due[r]) ELSE due[r]
               IN  IF r \in gnt \cap ReadRequests THEN Append(rest, Answer(AccessOf(r)))
                                         ELSE rest]
  /\ waited' = [r \in Port |-> IF r \notin stalled THEN 0
                              ELSE IF waited[r] = MaxWait THEN MaxWait
                              ELSE waited[r] + 1]

(***************************************************************************)
(* The specification.                                                      *)
(***************************************************************************)
Init ==
  /\ ArbiterInit
  /\ SyncInit
  /\ program \in Programs
  /\ pc = [r \in Port |-> IF r = Main THEN 1 ELSE 0]
  /\ memory = InitialWord
  /\ memory_reg = NoData /\ memory_out = NoData
  /\ dataReady0 = {} /\ dataReady1 = {}
  /\ out_reg = [r \in Port |-> 0]
  /\ first_state_after_memory_read = {}
  /\ second_state_after_memory_read = {}
  /\ waitrequest_inverted_reg = {}
  /\ stored_reg = [r \in Instance |-> 0]
  /\ loadReg = [r \in Port |-> 0]
  /\ start = {} /\ finish = {} /\ finish_reg = {}
  /\ legup_count = 0
  /\ due = [r \in Port |-> << >>]
  /\ waited = [r \in Port |-> 0]

Clock(done) ==
  \E gnt \in {Granted} :
    \E stalled \in {Requests \ gnt}, access \in {Served(gnt)} :
      /\ ArbiterClock(Requests)
      /\ SyncClock(access)
      /\ MemoryClock(access)
      /\ InstanceReaddata(gnt)
      /\ FunctionReaddata(stalled)
      /\ LoadRegisters
      /\ Remember(gnt, stalled)
      /\ ForkAndJoin
      /\ MoveThreads(stalled, done)
      /\ UNCHANGED program

Next == \E done \in SUBSET Busy : Clock(done)

\* a loop ends with an iteration that is granted
Ending(r) == r \in Busy \ Stalled /\ \E done \in SUBSET Busy : r \in done /\ Clock(done)

\* the clock runs, and no computation and no loop lasts for ever
Fairness ==
  /\ WF_vars(Next)
  /\ \A r \in Port : SF_vars(Ending(r))

Spec == Init /\ [][Next]_vars /\ Fairness

-----------------------------------------------------------------------------

(***************************************************************************)
(* Properties.                                                             *)
(***************************************************************************)
Word == Nat \cup {NoData}

\* Every register holds what it was built to hold; due lists the answers to
\* at most two loads.
ParallelTypeOK ==
  /\ rotate_ptr \subseteq Port /\ grant \subseteq Port
  /\ mutex_status \subseteq Core /\ mutex_owner = mutex_status
  /\ numthreads \in Nat /\ barrier_count \in Nat
  /\ pc \in [Port -> Nat] /\ \A r \in Port : pc[r] <= Len(program[r])
  /\ memory \in [Address -> Nat]
  /\ memory_reg \in Word /\ memory_out \in Word
  /\ dataReady0 \subseteq Port /\ dataReady1 \subseteq Port
  /\ out_reg \in [Port -> Word] /\ loadReg \in [Port -> Word]
  /\ stored_reg \in [Instance -> Word]
  /\ start \subseteq Instance
  /\ finish \subseteq Instance /\ finish_reg \subseteq Instance
  /\ \A r \in Port : Len(due[r]) <= 2

\* The states a thread has left since it started its program.
Left(r) == 1 .. pc[r]-1

Inside(r, k) ==
  \E p \in Left(r) : /\ program[r][p] = LockTest(k)
                     /\ \A q \in p .. pc[r]-1 : program[r][q] # Unlock(k)

inside == [k \in Core |-> {r \in Port : Inside(r, k)}]

M == INSTANCE Mutex WITH Thread <- Port, Lock <- Core

\* The lock cores, polled through the arbiter and answered two clocks later,
\* are locks: no thread is past its polling loop while another is between
\* its own and its unlock.
ImplementsMutex == M!Spec

\* A load takes the word that the memory or a core answered to that load,
\* whatever the thread and the others have read before it ends.
DataReachesItsReader ==
  \A r \in Port : Ends(r) /\ r \notin Stalled => LoadData(r) = Head(due[r])

\* No thread leaves the barrier before all have reached it, the second time
\* no less than the first.
Reached(r) == {p \in Left(r) : program[r][p] = Arrive}
Passed(r) == {p \in Left(r) : program[r][p] = LookTest}

BarrierSeparates ==
  \A r, s \in {i \in Instance : pc[i] # 0} :
    Cardinality(Passed(r)) <= Cardinality(Reached(s))

\* Once the main thread is past a join, or past the call that forked, the
\* instance is back in its wait state and is not being started.
Joined(i) ==
  \E p \in Left(Main) :
    /\ program[Main][p] \in {Join(i), Await}
    /\ \A q \in p .. pc[Main]-1 : program[Main][q] \notin {Create(i), Fork}

JoinedHaveEnded == \A i \in Instance : Joined(i) => pc[i] = 0 /\ i \notin start

\* When the main thread returns, every increment of every run of an instance
\* is in the memory: none is lost and none is done twice.
Increments(a) ==
  UNION {{<<i, p, q>> : p \in {p \in DOMAIN program[i] : program[i][p] = Increment(a)},
                        q \in {q \in DOMAIN program[Main] :
                                 program[Main][q] \in {Create(i), Fork}}} :
         i \in Instance}

NoUpdateIsLost ==
  In(Main, "return") =>
    \A a \in Address : memory[a] = InitialWord[a] + Cardinality(Increments(a))

\* However the others ask, the arbiter lets no request wait for more than two
\* accesses of each of them.
NobodyWaitsLong == \A r \in Port : waited[r] <= 2 * (N-1)

\* The program comes to its end: nobody polls a lock, the barrier or the end
\* of an instance for ever.
Returns == <>In(Main, "return")

-----------------------------------------------------------------------------
(***************************************************************************)
(* What the theorems ask of the programs, beyond ProgramsAssumption.  The  *)
(* first is about how loads are scheduled, the others say that a program   *)
(* uses its locks, its joins and its barrier as the calls are meant.       *)
(***************************************************************************)
\* No load of the main thread is overtaken: the state in which it ends makes
\* no access when the one after it reads, and is not the return.
MainKeepsLoads ==
  \A prog \in Programs : \A p \in DOMAIN prog[Main] :
    prog[Main][p].op \in Reads =>
      /\ prog[Main][p+2].op # "return"
      /\ prog[Main][p+1].op \in Reads => prog[Main][p+2].op \notin Accesses

\* a store that adds one stands two states after the load it adds to, and
\* from before the load a lock of the module is held
Guarded(states, p, k) ==
  /\ k \in Core /\ p > 4
  /\ states[p-3] = Load(states[p].arg)
  /\ states[p-2].op = "idle" /\ states[p-1].op = "idle"
  /\ \E q \in 1 .. p-4 : /\ states[q] = LockTest(k)
                         /\ \A o \in q .. p : states[o] # Unlock(k)

\* What is added to a word is added by instances, inside one lock of the
\* word; what is filled is not added to.
UpdatesAreGuarded ==
  \A prog \in Programs :
    /\ \A a \in Address : \E k \in 0 .. LockCores :
         \A i \in Instance : \A p \in DOMAIN prog[i] :
           prog[i][p] = Increment(a) => Guarded(prog[i], p, k)
    /\ \A q \in DOMAIN prog[Main] : prog[Main][q].op # "store"
    /\ \A r, i \in Port : \A p \in DOMAIN prog[r], o \in DOMAIN prog[i] : \A a \in Address :
         prog[r][p] = Fill(a) => InitialWord[a] = 0 /\ prog[i][o] # Increment(a)

\* The thread IDs of the creates are their numbers in the order of the text,
\* and each is joined behind its create.
RunsAreJoined ==
  \A prog \in Programs : \A q \in DOMAIN prog[Main] : prog[Main][q].op = "create" =>
    /\ prog[Main][q].arg = 1 + Cardinality({o \in 1 .. q-1 : prog[Main][o].op = "create"})
    /\ \E o \in q+1 .. Len(prog[Main]) : prog[Main][o] = Join(prog[Main][q].arg)

\* arrivals and passes of the barrier alternate, and a look is in between
TakesTurns(states) ==
  \A p \in 1 .. Len(states)+1 :
    LET arrivals == Cardinality({o \in 1 .. p-1 : states[o].op = "arrive"})
        passes == Cardinality({o \in 1 .. p-1 : states[o].op = "looked"})
    IN  /\ arrivals = passes \/ arrivals = passes + 1
        /\ p > Len(states) => arrivals = passes
        /\ p <= Len(states) =>
             /\ states[p].op = "arrive" => states[p] = Arrive /\ arrivals = passes
             /\ states[p].op = "looked" => states[p] = LookTest
             /\ states[p].op \in {"look", "looked"} => arrivals = passes + 1

Meeting(prog) ==
  \E i \in Instance : \E p \in DOMAIN prog[i] : prog[i][p].op \in {"arrive", "looked"}

\* Where there is a barrier, every instance has arrived as often as it has
\* passed when it returns, and the main thread has set the barrier up
\* for all of them, once, before it starts any.
AllMeet ==
  \A prog \in Programs : Meeting(prog) =>
    /\ \A i \in Instance : /\ TakesTurns(prog[i])
                           /\ \A p \in DOMAIN prog[i] : prog[i][p].op # "init"
    /\ \A q \in DOMAIN prog[Main] : prog[Main][q].op # "arrive"
    /\ \E b \in DOMAIN prog[Main] :
         /\ prog[Main][b] = BarrierInit(N-1)
         /\ \A q \in DOMAIN prog[Main] :
              /\ prog[Main][q].op = "init" => q = b
              /\ prog[Main][q].op \in {"create", "fork"} => q > b

=============================================================================
