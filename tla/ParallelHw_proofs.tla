------------------------- MODULE ParallelHw_proofs --------------------------
(***************************************************************************)
(* Proofs about the parallel hardware, for any number of threads and any   *)
(* programs of the form ProgramsAssumption gives.  First, that the lock    *)
(* cores are locks: the lock changes hands when the arbiter grants the     *)
(* read that a free core answers with 1, two clocks before the thread      *)
(* knows; the invariant follows that answer through the registers.  Then   *)
(* that the arbiter lets nobody wait for long, that joins wait for the     *)
(* instances they name, that every load takes its own data, that no        *)
(* increment is lost, and that the barrier separates what is before it     *)
(* from what is behind.                                                    *)
(***************************************************************************)
EXTENDS ParallelHw, FiniteSetTheorems, WellFoundedInduction, TLAPS

(***************************************************************************)
(* The arbiter grants one request at most.                                 *)
(***************************************************************************)
LEMMA GrantsOne ==
  ASSUME NEW req \in SUBSET Port, NEW p \in grant_comb(req), NEW q \in grant_comb(req)
  PROVE  p = q /\ p \in req
BY PortsAssumption DEF grant_comb, mask_grant, nomask_grant, no_mask_req, Lowest, Port

-----------------------------------------------------------------------------

(***************************************************************************)
(* The invariant.                                                          *)
(***************************************************************************)
\* the thread is in the state after it read the core, or in the one after that
Asked(r, k) == pc[r] > 1 /\ program[r][pc[r]-1] = LockRead(k)
Testing(r, k) == pc[r] > 0 /\ program[r][pc[r]] = LockTest(k)

\* the core has given itself to the thread, which does not know it yet
Taking(r, k) ==
  \/ Asked(r, k) /\ memory_reg = 1
  \/ Testing(r, k) /\ memory_out = 1

Holding(r, k) == Inside(r, k) \/ Taking(r, k)

PcInv ==
  /\ program \in Programs
  /\ pc \in [Port -> Nat]
  /\ \A r \in Port : pc[r] <= Len(program[r])

\* the registers between the port and a thread that tests a lock
AskedInv ==
  \A r \in Port, k \in Core : Asked(r, k) =>
    r \in dataReady0 /\ (r # Main => r \in first_state_after_memory_read)

TestingInv ==
  \A r \in Port, k \in Core : Testing(r, k) =>
    /\ r \in dataReady1
    /\ r # Main => r \in second_state_after_memory_read \cap waitrequest_inverted_reg

HolderInv ==
  \A k \in Core :
    /\ \A r \in Port : Holding(r, k) => k \in mutex_status
    /\ \A r, s \in Port : Holding(r, k) /\ Holding(s, k) => r = s

IInv ==
  /\ PcInv
  /\ mutex_owner = mutex_status
  /\ AskedInv
  /\ TestingInv
  /\ HolderInv

(***************************************************************************)
(* What the programs are.                                                  *)
(***************************************************************************)
LEMMA ProgramFacts ==
  ASSUME PcInv, NEW r \in Port
  PROVE  /\ program[r] \in Seq(Steps)
         /\ Len(program[r]) \in Nat
         /\ DOMAIN program[r] = 1 .. Len(program[r])
         /\ \A p \in 1 .. Len(program[r]) : program[r][p] \in Steps
         /\ WellFormed(program[r])
         /\ pc[r] \in Nat /\ pc[r] <= Len(program[r])
BY ProgramsAssumption DEF PcInv

LEMMA StateFacts ==
  ASSUME PcInv, NEW r \in Port
  PROVE  /\ State(r) \in Steps \cup {Wait}
         /\ pc[r] = 0 <=> State(r).op = "wait"
         /\ pc[r] > 0 => State(r) = program[r][pc[r]]
BY ProgramFacts DEF State, Steps, Wait

(***************************************************************************)
(* What an edge of the clock does to the registers that matter here.       *)
(***************************************************************************)
LEMMA ClockFacts ==
  ASSUME NEW done, Clock(done)
  PROVE  /\ LockClock(Served(Granted))
         /\ memory_reg' = Answer(Served(Granted))
         /\ memory_out' = memory_reg
         /\ InstanceReaddata(Granted)
         /\ FunctionReaddata(Stalled)
         /\ MoveThreads(Stalled, done)
         /\ program' = program
BY DEF Clock, Stalled, SyncClock, MemoryClock

(***************************************************************************)
(* A thread stays, moves on, asks again or returns.                        *)
(***************************************************************************)
Moves(r) ==
  \/ pc'[r] = pc[r] + 1 /\ r \notin Stalled /\ ~AsksAgain(r) /\ ~In(r, "return")
  \/ pc'[r] = pc[r] - 2 /\ AsksAgain(r)
  \/ pc'[r] = 0

LEMMA PcStep ==
  ASSUME PcInv, NEW done, Clock(done), NEW r \in Port
  PROVE  /\ pc' \in [Port -> Nat]
         /\ pc'[r] <= Len(program[r])
         /\ Moves(r) \/ (pc'[r] = pc[r] /\ Stays(r, Stalled, done))
<1>1. pc' = [s \in Port |-> IF Stays(s, Stalled, done) THEN pc[s] ELSE NextState(s)]
  BY ClockFacts DEF MoveThreads
<1>2. ASSUME NEW s \in Port
      PROVE  /\ NextState(s) \in Nat
             /\ ~Stays(s, Stalled, done) => NextState(s) <= Len(program[s])
  <2>1. CASE AsksAgain(s)
    <3>1. pc[s] > 0 /\ program[s][pc[s]].op \in {"locked", "looked"}
      BY <2>1, StateFacts, ProgramFacts DEF AsksAgain, In
    <3>2. pc[s] > 2
      BY <3>1, ProgramFacts DEF WellFormed
    <3>3. QED  BY <2>1, <3>2, ProgramFacts DEF NextState
  <2>2. CASE ~AsksAgain(s) /\ ~In(s, "return")
    <3>1. pc[s] # Len(program[s])
      <4>1. SUFFICES ASSUME pc[s] = Len(program[s]) PROVE FALSE
        OBVIOUS
      <4>2. State(s) = Return
        BY <4>1, StateFacts, ProgramFacts DEF WellFormed
      <4>3. QED  BY <2>2, <4>2 DEF In, Return
    <3>2. QED  BY <2>2, <3>1, ProgramFacts DEF NextState
  <2>3. QED  BY <2>1, <2>2, ProgramFacts DEF NextState
<1>3. QED  BY <1>1, <1>2, ProgramFacts DEF Moves, NextState, Stays

(***************************************************************************)
(* Where the answer to a read of a lock core is, clock by clock.           *)
(***************************************************************************)
LEMMA IdleMovesOn ==
  ASSUME PcInv, NEW done \in SUBSET Busy, Clock(done), NEW r \in Port,
         State(r).op \in {"idle", "locked"}
  PROVE  Moves(r)
<1>1. r \notin Stalled
  BY DEF Stalled, Requests, Accesses
<1>2. ~Stays(r, Stalled, done)
  BY <1>1 DEF Stays, Busy, In
<1>3. QED  BY <1>2, PcStep

LEMMA AskedIsIdle ==
  ASSUME PcInv, NEW r \in Port, NEW k \in Core, Asked(r, k)
  PROVE  State(r).op = "idle"
<1>1. /\ pc[r]-1 \in DOMAIN program[r]
      /\ program[r][pc[r]-1].op = "lock"
  BY ProgramFacts DEF Asked, LockRead
<1>2. program[r][(pc[r]-1)+1].op = "idle"
  BY <1>1, ProgramFacts DEF WellFormed
<1>3. QED  BY <1>2, StateFacts, ProgramFacts DEF Asked

LEMMA TestingIsLocked ==
  ASSUME PcInv, NEW r \in Port, NEW k \in Core, Testing(r, k)
  PROVE  State(r) = LockTest(k) /\ State(r).op = "locked"
BY StateFacts, ProgramFacts DEF Testing, LockTest

LEMMA AskingAgain ==
  ASSUME PcInv, NEW r \in Port, AsksAgain(r)
  PROVE  /\ pc[r] > 2 /\ pc[r] \in DOMAIN program[r]
         /\ program[r][pc[r]-2].op \in {"lock", "look"}
         /\ program[r][pc[r]-1].op = "idle"
<1>1. pc[r] \in DOMAIN program[r] /\ program[r][pc[r]].op \in {"locked", "looked"}
  BY StateFacts, ProgramFacts DEF AsksAgain, In
<1>2. CASE program[r][pc[r]].op = "looked"
  BY <1>1, <1>2, ProgramFacts DEF WellFormed
<1>3. CASE program[r][pc[r]].op = "locked"
  <2>1. pc[r] > 2 /\ program[r][pc[r]-2].op = "lock"
    <3>1. pc[r] > 2 /\ program[r][pc[r]-2] = LockRead(program[r][pc[r]].arg)
      BY <1>1, <1>3, ProgramFacts DEF WellFormed
    <3>2. QED  BY <3>1 DEF LockRead
  <2>2. pc[r]-2 \in DOMAIN program[r]
    BY <1>1, <2>1, ProgramFacts
  <2>3. program[r][(pc[r]-2)+1].op = "idle"
    BY <2>1, <2>2, ProgramFacts DEF WellFormed
  <2>4. QED  BY <1>1, <2>1, <2>3, ProgramFacts
<1>4. QED  BY <1>1, <1>2, <1>3

LEMMA AskedNext ==
  ASSUME PcInv, NEW done \in SUBSET Busy, Clock(done),
         NEW r \in Port, NEW k \in Core, Asked(r, k)'
  PROVE  r \in Granted /\ State(r) = LockRead(k)
<1>0. program' = program /\ pc'[r] > 1 /\ program[r][pc'[r]-1] = LockRead(k)
  BY ClockFacts DEF Asked
<1>1. ASSUME pc'[r] = pc[r] PROVE FALSE
  <2>1. Asked(r, k)
    BY <1>0, <1>1 DEF Asked
  <2>2. Moves(r)
    BY <2>1, AskedIsIdle, IdleMovesOn
  <2>3. QED  BY <1>0, <1>1, <2>2, ProgramFacts DEF Moves
<1>2. ASSUME pc'[r] = pc[r] - 2, AsksAgain(r) PROVE FALSE
  <2>1. /\ pc[r] > 2 /\ pc[r] \in DOMAIN program[r]
        /\ program[r][pc[r]-2].op \in {"lock", "look"}
    BY <1>2, AskingAgain
  <2>2. /\ pc[r]-3 \in DOMAIN program[r]
        /\ program[r][pc[r]-3].op = "lock"
    BY <1>0, <1>2, <2>1, ProgramFacts DEF LockRead
  <2>3. program[r][(pc[r]-3)+1].op = "idle"
    BY <2>2, ProgramFacts DEF WellFormed
  <2>4. QED  BY <2>1, <2>3, ProgramFacts
<1>3. pc'[r] = pc[r] + 1 /\ r \notin Stalled
  BY <1>0, <1>1, <1>2, PcStep, ProgramFacts DEF Moves
<1>4. State(r) = LockRead(k)
  BY <1>0, <1>3, StateFacts, ProgramFacts
<1>5. r \in Requests
  BY <1>4 DEF Requests, Accesses, LockRead
<1>6. QED  BY <1>3, <1>4, <1>5 DEF Stalled

LEMMA TestingNext ==
  ASSUME PcInv, NEW done \in SUBSET Busy, Clock(done),
         NEW r \in Port, NEW k \in Core, Testing(r, k)'
  PROVE  Asked(r, k)
<1>0. program' = program /\ pc'[r] > 0 /\ program[r][pc'[r]] = LockTest(k)
  BY ClockFacts DEF Testing
<1>1. ASSUME pc'[r] = pc[r] PROVE FALSE
  <2>1. Moves(r)
    BY <1>0, <1>1, IdleMovesOn, TestingIsLocked DEF Testing
  <2>2. QED  BY <1>0, <1>1, <2>1, ProgramFacts DEF Moves
<1>2. ASSUME pc'[r] = pc[r] - 2, AsksAgain(r) PROVE FALSE
  <2>1. program[r][pc[r]-2].op \in {"lock", "look"}
    BY <1>2, AskingAgain
  <2>2. QED  BY <1>0, <1>2, <2>1 DEF LockTest
<1>3. pc'[r] = pc[r] + 1 /\ pc'[r] \in DOMAIN program[r]
  BY <1>0, <1>1, <1>2, PcStep, ProgramFacts DEF Moves
<1>4. program[r][pc[r]+1].op = "locked" /\ program[r][pc[r]+1].arg = k
  BY <1>0, <1>3 DEF LockTest
<1>5. pc[r]+1 > 2 /\ program[r][(pc[r]+1)-2] = LockRead(k)
  BY <1>3, <1>4, ProgramFacts DEF WellFormed
<1>6. (pc[r]+1)-2 = pc[r]-1
  BY ProgramFacts
<1>7. QED  BY <1>5, <1>6, ProgramFacts DEF Asked

LEMMA TestSeesPort ==
  ASSUME TestingInv, NEW r \in Port, NEW k \in Core, Testing(r, k)
  PROVE  LoadData(r) = memory_out
BY DEF TestingInv, LoadData, Stored, Valid, Out

(***************************************************************************)
(* Who is inside after the edge was inside, or has just seen the answer.   *)
(***************************************************************************)
LEMMA InsideNext ==
  ASSUME PcInv, NEW done \in SUBSET Busy, Clock(done),
         NEW r \in Port, NEW k \in Core, Inside(r, k)'
  PROVE  /\ Inside(r, k) \/ (Testing(r, k) /\ LoadData(r) = 1)
         /\ ~(State(r) = Unlock(k) /\ r \in Granted)
<1>0. program' = program
  BY ClockFacts
<1>1. PICK p \in 1 .. pc'[r]-1 :
        /\ program[r][p] = LockTest(k)
        /\ \A q \in p .. pc'[r]-1 : program[r][q] # Unlock(k)
  BY <1>0 DEF Inside, Left
<1>2. pc'[r] \in Nat /\ p > 0 /\ p < pc'[r] /\ p \in Nat
  BY <1>1, PcStep
<1>3. CASE pc'[r] = pc[r]
  <2>1. Inside(r, k)
    BY <1>1, <1>3 DEF Inside, Left
  <2>2. ASSUME State(r) = Unlock(k), r \in Granted PROVE FALSE
    <3>1. r \notin Stalled
      BY <2>2 DEF Stalled
    <3>2. ~Stays(r, Stalled, done)
      BY <2>2, <3>1 DEF Stays, Busy, In, Unlock
    <3>3. Moves(r)
      BY <3>2, PcStep
    <3>4. ~AsksAgain(r)
      BY <2>2 DEF AsksAgain, In, Unlock
    <3>5. QED  BY <1>2, <1>3, <3>3, <3>4, ProgramFacts DEF Moves
  <2>3. QED  BY <2>1, <2>2
<1>4. CASE pc'[r] = pc[r] - 2 /\ AsksAgain(r)
  <2>1. /\ pc[r] > 2 /\ program[r][pc[r]-2] # Unlock(k) /\ program[r][pc[r]-1] # Unlock(k)
    BY <1>4, AskingAgain DEF Unlock
  <2>2. p \in 1 .. pc[r]-1
    BY <1>2, <1>4, ProgramFacts
  <2>3. ASSUME NEW q \in p .. pc[r]-1 PROVE program[r][q] # Unlock(k)
    <3>1. q \in p .. pc'[r]-1 \/ q = pc[r]-2 \/ q = pc[r]-1
      BY <1>2, <1>4, ProgramFacts
    <3>2. QED  BY <1>1, <2>1, <3>1
  <2>4. Inside(r, k)
    BY <1>1, <2>2, <2>3 DEF Inside, Left
  <2>5. State(r) # Unlock(k)
    BY <1>4 DEF AsksAgain, In, Unlock
  <2>6. QED  BY <2>4, <2>5
<1>5. CASE pc'[r] = pc[r] + 1 /\ ~AsksAgain(r)
  <2>1. p <= pc[r] /\ pc[r] > 0 /\ pc[r] \in p .. pc'[r]-1
    BY <1>2, <1>5, ProgramFacts
  <2>2. State(r) = program[r][pc[r]] /\ State(r) # Unlock(k)
    BY <1>1, <2>1, StateFacts
  <2>3. CASE p = pc[r]
    BY <1>1, <1>5, <2>1, <2>2, <2>3 DEF Testing, AsksAgain, In, LockTest
  <2>4. CASE p < pc[r]
    <3>1. p \in 1 .. pc[r]-1
      BY <1>2, <2>4, ProgramFacts
    <3>2. \A q \in p .. pc[r]-1 : q \in p .. pc'[r]-1
      BY <1>2, <1>5, ProgramFacts
    <3>3. QED  BY <1>1, <2>2, <3>1, <3>2 DEF Inside, Left
  <2>5. QED  BY <1>2, <2>1, <2>2, <2>3, <2>4, ProgramFacts
<1>6. QED  BY <1>2, <1>3, <1>4, <1>5, PcStep DEF Moves

LEMMA UnlockIsInside ==
  ASSUME PcInv, NEW r \in Port, NEW k \in Core, State(r) = Unlock(k)
  PROVE  Inside(r, k)
<1>1. /\ pc[r] \in DOMAIN program[r] /\ program[r][pc[r]] = Unlock(k)
  BY StateFacts, ProgramFacts DEF Unlock
<1>2. program[r][pc[r]].op = "unlock" /\ program[r][pc[r]].arg = k
  BY <1>1 DEF Unlock
<1>3. QED  BY <1>1, <1>2, ProgramFacts DEF WellFormed, Inside, Left

(***************************************************************************)
(* What the access that is served does to the lock cores.                  *)
(***************************************************************************)
LEMMA ServedIs ==
  ASSUME NEW r \in Granted
  PROVE  r \in Requests /\ Served(Granted) = AccessOf(r)
<1>1. Requests \in SUBSET Port
  BY DEF Requests
<1>2. \A s \in Granted : s = r /\ s \in Requests
  BY <1>1, GrantsOne DEF Granted
<1>3. QED  BY <1>2 DEF Served

LEMMA LockReadIsAccess ==
  ASSUME NEW r \in Port, NEW k \in Core, State(r) = LockRead(k)
  PROVE  AccessOf(r) = Access("read", "lock", k, FALSE, 0)
BY DEF AccessOf, In, LockRead

LEMMA TakesFreeCore ==
  ASSUME mutex_owner = mutex_status, NEW r \in Granted, NEW k \in Core,
         State(r) = LockRead(k), Answer(Served(Granted)) = 1,
         LockClock(Served(Granted))
  PROVE  k \notin mutex_status /\ k \in mutex_status'
<1>1. r \in Port
  BY ServedIs DEF Requests
<1>2. Served(Granted) = Access("read", "lock", k, FALSE, 0)
  BY <1>1, ServedIs, LockReadIsAccess
<1>3. k \notin mutex_status
  BY <1>2 DEF Answer, SyncOut, Access
<1>4. k \in Taken(Served(Granted)) /\ k \notin Released(Served(Granted))
  BY <1>2, <1>3 DEF Taken, Released, Selected, Access
<1>5. QED  BY <1>3, <1>4 DEF LockClock

LEMMA WriterOfLockUnlocks ==
  ASSUME PcInv, NEW r \in Port,
         AccessOf(r).kind = "write", AccessOf(r).device = "lock"
  PROVE  State(r) = Unlock(AccessOf(r).index)
<1>1. In(r, "unlock")
  BY DEF AccessOf, Access, NoAccess
<1>2. AccessOf(r).index = State(r).arg
  BY <1>1 DEF AccessOf, Access, In
<1>3. State(r) \in Steps
  BY <1>1, StateFacts DEF In, Wait
<1>4. QED  BY <1>1, <1>2, <1>3 DEF Steps, Unlock, In

LEMMA ReleasedByUnlock ==
  ASSUME PcInv, mutex_owner = mutex_status, LockClock(Served(Granted)),
         NEW k \in Core, k \in mutex_status, k \notin mutex_status'
  PROVE  \E r \in Granted : State(r) = Unlock(k)
<1>1. k \in Released(Served(Granted))
  BY DEF LockClock
<1>2. /\ Served(Granted).kind = "write" /\ Served(Granted).device = "lock"
      /\ Served(Granted).index = k
  BY <1>1 DEF Released, Selected
<1>3. Granted # {}
  BY <1>2 DEF Served, NoAccess, Access
<1>4. PICK r \in Granted : TRUE
  BY <1>3
<1>5. r \in Port /\ Served(Granted) = AccessOf(r)
  BY ServedIs DEF Requests
<1>6. State(r) = Unlock(k)
  BY <1>2, <1>5, WriterOfLockUnlocks
<1>7. QED  BY <1>6

(***************************************************************************)
(* Who holds a lock after the edge held it before, or is granted the read  *)
(* that takes it.                                                          *)
(***************************************************************************)
TakesNow(r, k) ==
  r \in Granted /\ State(r) = LockRead(k) /\ Answer(Served(Granted)) = 1

LEMMA HoldingNext ==
  ASSUME PcInv, TestingInv, NEW done \in SUBSET Busy, Clock(done),
         NEW r \in Port, NEW k \in Core, Holding(r, k)'
  PROVE  Holding(r, k) \/ TakesNow(r, k)
<1>1. CASE Inside(r, k)'
  BY <1>1, InsideNext, TestSeesPort DEF Holding, Taking
<1>2. CASE Asked(r, k)' /\ memory_reg' = 1
  BY <1>2, AskedNext, ClockFacts DEF TakesNow
<1>3. CASE Testing(r, k)' /\ memory_out' = 1
  BY <1>3, TestingNext, ClockFacts DEF Holding, Taking
<1>4. QED  BY <1>1, <1>2, <1>3 DEF Holding, Taking

LEMMA UnlockEndsHolding ==
  ASSUME PcInv, NEW done \in SUBSET Busy, Clock(done),
         NEW r \in Granted, NEW k \in Core, State(r) = Unlock(k)
  PROVE  ~Holding(r, k)'
<1>0. r \in Port
  BY ServedIs DEF Requests
<1>1. ~Inside(r, k)'
  BY <1>0, InsideNext
<1>2. ~Asked(r, k)'
  BY <1>0, AskedNext DEF Unlock, LockRead
<1>3. ~Testing(r, k)'
  BY <1>0, TestingNext, AskedIsIdle DEF Unlock
<1>4. QED  BY <1>1, <1>2, <1>3 DEF Holding, Taking

-----------------------------------------------------------------------------

(***************************************************************************)
(* The invariant holds.                                                    *)
(***************************************************************************)
LEMMA InitHolds == Init => IInv
<1> SUFFICES ASSUME Init PROVE IInv
  OBVIOUS
<1>1. program \in Programs
  BY DEF Init
<1>2. \A r \in Port : Len(program[r]) \in Nat /\ Len(program[r]) > 0
  BY <1>1, ProgramsAssumption DEF WellFormed
<1>3. PcInv
  BY <1>1, <1>2 DEF Init, PcInv
<1>4. ASSUME NEW r \in Port, NEW k \in Core
      PROVE  ~Asked(r, k) /\ ~Testing(r, k) /\ ~Inside(r, k)
  <2>1. pc[r] = 0 \/ pc[r] = 1
    BY DEF Init
  <2>2. ASSUME Testing(r, k) PROVE FALSE
    <3>1. pc[r] \in DOMAIN program[r] /\ program[r][pc[r]].op = "locked"
      BY <1>3, <2>2, ProgramFacts DEF Testing, LockTest
    <3>2. pc[r] > 2
      BY <1>3, <3>1, ProgramFacts DEF WellFormed
    <3>3. QED  BY <2>1, <3>2
  <2>3. QED  BY <2>1, <2>2 DEF Asked, Inside, Left
<1>5. mutex_owner = mutex_status
  BY DEF Init, SyncInit
<1>6. QED  BY <1>3, <1>4, <1>5 DEF IInv, AskedInv, TestingInv, HolderInv, Holding, Taking

LEMMA AskedPreserved ==
  ASSUME IInv, NEW done \in SUBSET Busy, Clock(done)
  PROVE  AskedInv'
<1> SUFFICES ASSUME NEW r \in Port, NEW k \in Core, Asked(r, k)'
             PROVE  (r \in dataReady0 /\ (r # Main => r \in first_state_after_memory_read))'
  BY DEF AskedInv, Port, Core
<1>1. r \in Granted /\ State(r) = LockRead(k)
  BY AskedNext DEF IInv
<1>2. r \in ReadRequests
  BY <1>1 DEF ReadRequests, Reads, LockRead
<1>3. r \notin Stalled
  BY <1>1 DEF Stalled
<1>4. dataReady0' = Granted \cap ReadRequests
  BY ClockFacts DEF InstanceReaddata
<1>5. first_state_after_memory_read' =
        Shift(first_state_after_memory_read, ReadRequests \ {Main}, Stalled)
  BY ClockFacts DEF FunctionReaddata
<1>6. QED  BY <1>1, <1>2, <1>3, <1>4, <1>5 DEF Shift

LEMMA TestingPreserved ==
  ASSUME IInv, NEW done \in SUBSET Busy, Clock(done)
  PROVE  TestingInv'
<1> SUFFICES ASSUME NEW r \in Port, NEW k \in Core, Testing(r, k)'
             PROVE  (/\ r \in dataReady1
                     /\ r # Main => r \in second_state_after_memory_read
                                           \cap waitrequest_inverted_reg)'
  BY DEF TestingInv, Port, Core
<1>1. Asked(r, k)
  BY TestingNext DEF IInv
<1>2. r \notin Stalled
  BY <1>1, AskedIsIdle DEF IInv, Stalled, Requests, Accesses
<1>3. r \in dataReady0 /\ (r # Main => r \in first_state_after_memory_read)
  BY <1>1 DEF IInv, AskedInv
<1>4. dataReady1' = dataReady0
  BY ClockFacts DEF InstanceReaddata
<1>5. /\ second_state_after_memory_read' =
            Shift(second_state_after_memory_read, first_state_after_memory_read, Stalled)
      /\ waitrequest_inverted_reg' = Instance \ Stalled
  BY ClockFacts DEF FunctionReaddata
<1>6. QED  BY <1>2, <1>3, <1>4, <1>5 DEF Shift, Instance

LEMMA HolderPreserved ==
  ASSUME IInv, NEW done \in SUBSET Busy, Clock(done)
  PROVE  HolderInv'
<1> SUFFICES ASSUME NEW k \in Core
             PROVE  /\ \A r \in Port : Holding(r, k)' => k \in mutex_status'
                    /\ \A r, s \in Port : Holding(r, k)' /\ Holding(s, k)' => r = s
  BY DEF HolderInv, Port, Core
<1>1. /\ PcInv /\ TestingInv /\ mutex_owner = mutex_status
      /\ \A r \in Port : Holding(r, k) => k \in mutex_status
      /\ \A r, s \in Port : Holding(r, k) /\ Holding(s, k) => r = s
  BY DEF IInv, HolderInv
<1>2. \A r \in Port : Holding(r, k)' => Holding(r, k) \/ TakesNow(r, k)
  BY <1>1, HoldingNext
<1>3. \A r \in Port : TakesNow(r, k) => k \notin mutex_status /\ k \in mutex_status'
  BY <1>1, TakesFreeCore, ClockFacts DEF TakesNow
<1>4. \A r, s \in Port : TakesNow(r, k) /\ TakesNow(s, k) => r = s
  BY GrantsOne DEF TakesNow, Granted, Requests
<1>5. ASSUME NEW r \in Port, Holding(r, k)', Holding(r, k)
      PROVE  k \in mutex_status'
  <2>1. SUFFICES ASSUME k \notin mutex_status' PROVE FALSE
    OBVIOUS
  <2>2. PICK u \in Granted : State(u) = Unlock(k)
    BY <1>1, <1>5, <2>1, ReleasedByUnlock, ClockFacts
  <2>3. u \in Port /\ Holding(u, k)
    BY <1>1, <2>2, ServedIs, UnlockIsInside DEF Requests, Holding
  <2>4. u = r
    BY <1>1, <1>5, <2>3
  <2>5. QED  BY <1>1, <1>5, <2>2, <2>4, UnlockEndsHolding
<1>6. QED  BY <1>1, <1>2, <1>3, <1>4, <1>5

LEMMA StepHolds == IInv /\ [Next]_vars => IInv'
<1> SUFFICES ASSUME IInv, [Next]_vars PROVE IInv'
  OBVIOUS
<1>1. CASE UNCHANGED vars
  BY <1>1 DEF IInv, PcInv, AskedInv, TestingInv, HolderInv, Holding, Taking, Inside,
              Asked, Testing, Left, vars, threadVars, syncVars, arbiterVars
<1>2. ASSUME NEW done \in SUBSET Busy, Clock(done) PROVE IInv'
  <2>1. PcInv'
    <3>1. program' = program
      BY <1>2, ClockFacts
    <3>2. 0 \in Port
      BY PortsAssumption DEF Port
    <3>3. ASSUME NEW r \in Port PROVE pc'[r] \in Nat /\ pc'[r] <= Len(program'[r])
      BY <1>2, PcStep, <3>1 DEF IInv
    <3>4. pc' \in [Port -> Nat]
      BY <1>2, PcStep, <3>2 DEF IInv
    <3>5. program' \in Programs
      BY <3>1 DEF IInv, PcInv
    <3>6. QED  BY <3>3, <3>4, <3>5 DEF PcInv
  <2>2. mutex_owner' = mutex_status'
    BY <1>2, ClockFacts DEF IInv, LockClock
  <2>3. QED
    BY <1>2, <2>1, <2>2, AskedPreserved, TestingPreserved, HolderPreserved DEF IInv
<1>3. QED  BY <1>1, <1>2 DEF Next

(***************************************************************************)
(* However many threads share the port, and whatever else they do with it, *)
(* the lock cores implement locks: a thread is let in only when nobody is  *)
(* inside, and the one that leaves was alone.                              *)
(***************************************************************************)
THEOREM LocksExclude == Spec => ImplementsMutex
<1>1. Init => M!Init
  <2>1. SUFFICES ASSUME Init, NEW k \in Core, NEW r \in Port PROVE ~Inside(r, k)
    BY DEF M!Init, inside
  <2>2. pc[r] = 0 \/ pc[r] = 1
    BY <2>1 DEF Init
  <2>3. QED  BY <2>2 DEF Inside, Left
<1>2. IInv /\ IInv' /\ [Next]_vars => [M!Next]_inside
  <2> SUFFICES ASSUME IInv, IInv', [Next]_vars PROVE [M!Next]_inside
    OBVIOUS
  <2>1. CASE UNCHANGED vars
    BY <2>1 DEF inside, Inside, Left, vars, threadVars
  <2>2. ASSUME NEW done \in SUBSET Busy, Clock(done) PROVE M!Next
    <3>1. inside' \in [Core -> SUBSET Port]
      BY DEF inside, Core
    <3>2. ASSUME NEW k \in Core
          PROVE  \/ inside'[k] = inside[k]
                 \/ \E t \in Port : M!Enter(t, k) \/ M!Leave(t, k)
      <4>1. /\ inside[k] = {r \in Port : Inside(r, k)}
            /\ inside'[k] = {r \in Port : Inside(r, k)'}
        BY DEF inside, Port, Core
      <4>2. /\ \A r, s \in Port : Holding(r, k) /\ Holding(s, k) => r = s
            /\ \A r, s \in Port : Inside(r, k)' /\ Inside(s, k)' => r = s
        BY DEF IInv, HolderInv, Holding, Core, Port
      <4>3. \A r \in Port : Inside(r, k)' => Holding(r, k)
        BY <2>2, InsideNext, TestSeesPort DEF IInv, Holding, Taking
      <4>4. CASE \E t \in Port : Inside(t, k)' /\ ~Inside(t, k)
        <5>1. PICK t \in Port : Inside(t, k)' /\ ~Inside(t, k)
          BY <4>4
        <5>2. inside[k] = {} /\ inside'[k] = {t}
          BY <4>1, <4>2, <4>3, <5>1 DEF Holding
        <5>3. QED  BY <5>2 DEF M!Enter
      <4>5. CASE \E t \in Port : Inside(t, k) /\ ~Inside(t, k)'
        <5>1. PICK t \in Port : Inside(t, k) /\ ~Inside(t, k)'
          BY <4>5
        <5>2. inside[k] = {t} /\ inside'[k] = {}
          BY <4>1, <4>2, <4>3, <5>1 DEF Holding
        <5>3. QED  BY <5>2 DEF M!Leave
      <4>6. QED  BY <4>1, <4>4, <4>5
    <3>3. QED  BY <3>1, <3>2 DEF M!Next
  <2>3. QED  BY <2>1, <2>2 DEF Next
<1>3. QED
  BY <1>1, <1>2, InitHolds, StepHolds, PTL DEF Spec, ImplementsMutex, M!Spec

-----------------------------------------------------------------------------
(***************************************************************************)
(* How long a request waits.  The register of the mask follows the grants  *)
(* two clocks later, so that the even and the odd clocks go round the      *)
(* ports each for themselves; either comes at least one port closer to a   *)
(* request whenever it passes it over.                                     *)
(***************************************************************************)
From(m) == {p \in Port : p >= m}

Distance(m, r) == IF m <= r THEN r - m ELSE N - m + r

NextMask == IF grant = {} THEN rotate_ptr ELSE AfterGrant

WaitInv ==
  /\ waited \in [Port -> Nat]
  /\ \E q \in Port : grant \subseteq {q}
  /\ \E m \in Port : /\ rotate_ptr = From(m)
                     /\ \A r \in Port : 2 * Distance(m, r) + waited[r] <= 2 * N - 1
  /\ \E m \in Port : /\ NextMask = From(m)
                     /\ \A r \in Port : 2 * Distance(m, r) + waited[r] <= 2 * N - 2

LEMMA DistanceIs ==
  ASSUME NEW m \in Port, NEW r \in Port
  PROVE  Distance(m, r) \in Nat /\ Distance(m, r) <= N - 1
BY PortsAssumption DEF Distance, Port

\* the port after m, and the lowest one after the last
After(m) == IF m = N-1 THEN 0 ELSE m + 1

LEMMA AfterIs ==
  ASSUME NEW q \in Port, grant = {q}
  PROVE  AfterGrant = From(After(q)) /\ After(q) \in Port
BY PortsAssumption DEF AfterGrant, From, After, Port

(***************************************************************************)
(* With the ports from m on preferred, whoever is granted before r is      *)
(* between the two.                                                        *)
(***************************************************************************)
LEMMA GrantComesCloser ==
  ASSUME NEW m \in Port, rotate_ptr = From(m), NEW req \in SUBSET Port,
         NEW q \in grant_comb(req), NEW r \in req, r # q
  PROVE  q \in Port /\ Distance(After(q), r) <= Distance(m, r) - 1
<1>1. q \in req /\ q \in Port /\ r \in Port
  BY GrantsOne
<1>2. m \in Nat /\ m <= N-1 /\ q \in Nat /\ q <= N-1 /\ r \in Nat /\ r <= N-1 /\ N \in Nat
  BY <1>1, PortsAssumption DEF Port
<1>3. CASE q \in mask_grant(req)
  <2>1. q >= m /\ (r >= m => q <= r)
    BY <1>1, <1>3 DEF mask_grant, Lowest, From
  <2>2. QED  BY <1>1, <1>2, <2>1 DEF Distance, After
<1>4. CASE q \in nomask_grant(req) /\ no_mask_req(req)
  <2>1. q <= r /\ ~(r >= m)
    BY <1>1, <1>4 DEF nomask_grant, no_mask_req, Lowest, From
  <2>2. QED  BY <1>1, <1>2, <2>1 DEF Distance, After
<1>5. QED  BY <1>1, <1>3, <1>4 DEF grant_comb

LEMMA LeastOf ==
  ASSUME NEW S \in SUBSET Nat, S # {}
  PROVE  \E q \in S : \A p \in S : q <= p
<1>1. PICK q \in S : \A p \in S : ~(<<p, q>> \in OpToRel(<, Nat))
  BY NatLessThanWellFounded, WFMin
<1>2. ASSUME NEW p \in S, p < q PROVE FALSE
  BY <1>1, <1>2 DEF OpToRel
<1>3. q \in Nat /\ \A p \in S : p \in Nat
  OBVIOUS
<1>4. QED  BY <1>2, <1>3

LEMMA SomebodyGranted ==
  ASSUME NEW m \in Port, rotate_ptr = From(m), NEW req \in SUBSET Port, req # {}
  PROVE  \E q \in Port : grant_comb(req) = {q}
<1>1. \A S \in SUBSET Port : S # {} => \E q \in S : q \in Lowest(S)
  <2>1. \A S \in SUBSET Port : S \in SUBSET Nat
    BY PortsAssumption DEF Port
  <2>2. QED  BY <2>1, LeastOf DEF Lowest
<1>2. \E q \in req : q \in grant_comb(req)
  <2>1. CASE req \cap rotate_ptr = {}
    BY <1>1, <2>1 DEF grant_comb, nomask_grant, no_mask_req
  <2>2. CASE req \cap rotate_ptr # {}
    BY <1>1, <2>2 DEF grant_comb, mask_grant
  <2>3. QED  BY <2>1, <2>2
<1>3. QED  BY <1>2, GrantsOne

(***************************************************************************)
(* One edge of the clock: the mask becomes the one that was to come, and   *)
(* the one to come is that behind whoever was granted.                     *)
(***************************************************************************)
LEMMA MaskStep ==
  ASSUME NEW req \in SUBSET Port, ArbiterClock(req), NEW o \in Port, grant \subseteq {o}
  PROVE  /\ rotate_ptr' = NextMask
         /\ req = {} => grant' = {} /\ NextMask' = NextMask
         /\ \A q \in Port : grant_comb(req) = {q} =>
              /\ grant' \subseteq {q}
              /\ NextMask' = From(After(q))
<1>1. rotate_ptr' = NextMask /\ grant' = grant_comb(req) \ grant
  BY DEF ArbiterClock, NextMask
<1>2. NextMask' = IF grant' = {} THEN rotate_ptr'
                  ELSE {p \in Port : N-1 \in grant' \/ \E q \in grant' : q < p}
  BY DEF NextMask, AfterGrant, Port
<1>3. req = {} => grant_comb(req) = {}
  BY DEF grant_comb, mask_grant, nomask_grant, Lowest
<1>4. ASSUME NEW q \in Port, grant_comb(req) = {q}
      PROVE  NextMask' = From(After(q))
  <2>1. CASE q \in grant
    <3>1. grant = {q} /\ grant' = {}
      BY <1>1, <1>4, <2>1
    <3>2. NextMask' = AfterGrant
      BY <1>1, <1>2, <3>1 DEF NextMask
    <3>3. QED  BY <3>1, <3>2, AfterIs
  <2>2. CASE q \notin grant
    <3>1. grant' = {q}
      BY <1>1, <1>4, <2>2
    <3>2. NextMask' = {p \in Port : N-1 \in {q} \/ \E x \in {q} : x < p}
      BY <1>2, <3>1
    <3>3. {p \in Port : N-1 \in {q} \/ \E x \in {q} : x < p} = From(After(q))
      BY PortsAssumption DEF From, After, Port
    <3>4. QED  BY <3>2, <3>3
  <2>3. QED  BY <2>1, <2>2
<1>5. QED  BY <1>1, <1>2, <1>3, <1>4

LEMMA WaitStep ==
  ASSUME WaitInv, NEW done, Clock(done)
  PROVE  WaitInv'
<1>0. /\ Requests \in SUBSET Port /\ Granted = grant_comb(Requests)
      /\ ArbiterClock(Requests)
      /\ waited' = [r \in Port |-> IF r \notin Requests \ Granted THEN 0
                                  ELSE IF waited[r] = MaxWait THEN MaxWait
                                  ELSE waited[r] + 1]
  BY DEF Clock, Requests, Granted, Remember
<1>1. PICK o \in Port : grant \subseteq {o}
  BY DEF WaitInv
<1>2. PICK m \in Port : /\ rotate_ptr = From(m)
                       /\ \A r \in Port : 2 * Distance(m, r) + waited[r] <= 2 * N - 1
  BY DEF WaitInv
<1>3. PICK n \in Port : /\ NextMask = From(n)
                       /\ \A r \in Port : 2 * Distance(n, r) + waited[r] <= 2 * N - 2
  BY DEF WaitInv
<1>4. N \in Nat /\ N >= 2 /\ waited \in [Port -> Nat]
  BY PortsAssumption DEF WaitInv
<1>5. waited' \in [Port -> Nat]
  BY <1>0, <1>4 DEF MaxWait
<1>6. \A r \in Port : \/ r \notin Requests \ Granted /\ waited'[r] = 0
                      \/ r \in Requests \ Granted /\ waited'[r] = waited[r] + 1
  <2> SUFFICES ASSUME NEW r \in Port
               PROVE  \/ r \notin Requests \ Granted /\ waited'[r] = 0
                      \/ r \in Requests \ Granted /\ waited'[r] = waited[r] + 1
    OBVIOUS
  <2>1. Distance(m, r) \in Nat
    BY DistanceIs
  <2>2. waited[r] \in Nat /\ waited[r] # 2 * N
    BY <1>2, <1>4, <2>1
  <2>3. QED  BY <1>0, <2>2 DEF MaxWait
<1>7. ASSUME NEW r \in Port PROVE 2 * Distance(n, r) + waited'[r] <= 2 * N - 1
  <2>1. Distance(n, r) \in Nat /\ Distance(n, r) <= N - 1 /\ waited[r] \in Nat
    BY <1>4, DistanceIs
  <2>2. QED  BY <1>3, <1>4, <1>6, <2>1
<1>8. rotate_ptr' = From(n)
  BY <1>0, <1>1, <1>3, MaskStep
<1>9. CASE Requests = {}
  <2>1. grant' = {} /\ NextMask' = From(n)
    BY <1>0, <1>1, <1>3, <1>9, MaskStep
  <2>2. \A r \in Port : 2 * Distance(n, r) + waited'[r] <= 2 * N - 2
    <3> SUFFICES ASSUME NEW r \in Port PROVE 2 * Distance(n, r) + waited'[r] <= 2 * N - 2
      OBVIOUS
    <3>1. waited'[r] = 0
      BY <1>6, <1>9
    <3>2. Distance(n, r) \in Nat /\ Distance(n, r) <= N - 1
      BY DistanceIs
    <3>3. QED  BY <1>4, <3>1, <3>2
  <2>3. QED  BY <1>5, <1>7, <1>8, <2>1, <2>2 DEF WaitInv, From, Distance, Port
<1>10. CASE Requests # {}
  <2>1. PICK q \in Port : Granted = {q}
    BY <1>0, <1>2, <1>10, SomebodyGranted
  <2>2. grant' \subseteq {q} /\ NextMask' = From(After(q))
    BY <1>0, <1>1, <2>1, MaskStep
  <2>3. After(q) \in Port
    BY PortsAssumption DEF After, Port
  <2>4. \A r \in Port : 2 * Distance(After(q), r) + waited'[r] <= 2 * N - 2
    <3> SUFFICES ASSUME NEW r \in Port
                 PROVE  2 * Distance(After(q), r) + waited'[r] <= 2 * N - 2
      OBVIOUS
    <3>1. /\ Distance(After(q), r) \in Nat /\ Distance(After(q), r) <= N - 1
          /\ Distance(m, r) \in Nat /\ waited[r] \in Nat
      BY <1>4, <2>3, DistanceIs
    <3>2. CASE r \notin Requests \ Granted
      BY <1>4, <1>6, <3>1, <3>2
    <3>3. CASE r \in Requests \ Granted
      <4>1. Distance(After(q), r) <= Distance(m, r) - 1
        BY <1>0, <1>2, <2>1, <3>3, GrantComesCloser
      <4>2. 2 * Distance(m, r) + waited[r] <= 2 * N - 1 /\ waited'[r] = waited[r] + 1
        BY <1>2, <1>6, <3>3
      <4>3. QED  BY <1>4, <3>1, <4>1, <4>2
    <3>4. QED  BY <3>2, <3>3
  <2>5. QED  BY <1>5, <1>7, <1>8, <2>2, <2>3, <2>4 DEF WaitInv, From, Distance, Port
<1>11. QED  BY <1>9, <1>10

(***************************************************************************)
(* However the others ask, the arbiter lets no request wait for more than  *)
(* two accesses of each of them.                                           *)
(***************************************************************************)
THEOREM WaitingIsBounded == Spec => []NobodyWaitsLong
<1>1. Init => WaitInv
  <2> SUFFICES ASSUME Init PROVE WaitInv
    OBVIOUS
  <2>1. 0 \in Port /\ N \in Nat /\ N >= 2
    BY PortsAssumption DEF Port
  <2>2. rotate_ptr = Port /\ grant = {} /\ waited = [r \in Port |-> 0]
    BY DEF Init, ArbiterInit
  <2>3. Port = From(0)
    BY <2>1 DEF From, Port
  <2>4. \A r \in Port : 2 * Distance(0, r) + waited[r] <= 2 * N - 2
    <3> SUFFICES ASSUME NEW r \in Port PROVE 2 * Distance(0, r) + waited[r] <= 2 * N - 2
      OBVIOUS
    <3>1. Distance(0, r) \in Nat /\ Distance(0, r) <= N - 1
      BY <2>1, DistanceIs
    <3>2. QED  BY <2>1, <2>2, <3>1
  <2>5. \A r \in Port : 2 * Distance(0, r) + waited[r] <= 2 * N - 1
    <3> SUFFICES ASSUME NEW r \in Port PROVE 2 * Distance(0, r) + waited[r] <= 2 * N - 1
      OBVIOUS
    <3>1. Distance(0, r) \in Nat /\ Distance(0, r) <= N - 1
      BY <2>1, DistanceIs
    <3>2. QED  BY <2>1, <2>2, <3>1
  <2>6. NextMask = From(0)
    BY <2>2, <2>3 DEF NextMask
  <2>7. QED  BY <2>1, <2>2, <2>3, <2>4, <2>5, <2>6 DEF WaitInv
<1>2. WaitInv /\ [Next]_vars => WaitInv'
  <2> SUFFICES ASSUME WaitInv, [Next]_vars PROVE WaitInv'
    OBVIOUS
  <2>1. CASE UNCHANGED vars
    BY <2>1 DEF WaitInv, NextMask, AfterGrant, From, Distance, Port, vars, threadVars,
       arbiterVars
  <2>2. CASE Next
    BY <2>2, WaitStep DEF Next
  <2>3. QED  BY <2>1, <2>2
<1>3. WaitInv => NobodyWaitsLong
  <2> SUFFICES ASSUME WaitInv, NEW r \in Port PROVE waited[r] <= 2 * (N-1)
    BY DEF NobodyWaitsLong
  <2>1. PICK m \in Port : 2 * Distance(m, r) + waited[r] <= 2 * N - 2
    BY DEF WaitInv
  <2>2. Distance(m, r) \in Nat /\ waited[r] \in Nat /\ N \in Nat
    BY DistanceIs, PortsAssumption DEF WaitInv
  <2>3. QED  BY <2>1, <2>2
<1>4. QED  BY <1>1, <1>2, <1>3, PTL DEF Spec

-----------------------------------------------------------------------------
(***************************************************************************)
(* Creation and join.  An instance is at rest, being started, running, at  *)
(* its end (finish is 1 for one clock), or its end has been noted; the     *)
(* registers tell these apart, and it is started only at rest.             *)
(***************************************************************************)
AtRest(i) == pc[i] = 0 /\ i \notin start /\ i \notin finish

HasBegun(i) == pc[i] > 0 \/ i \in start \cup finish \cup finish_reg

StartInv(i) ==
  /\ i \in start =>
       /\ pc[i] = 0 /\ i \notin finish /\ i \notin finish_reg
       /\ In(Main, "await") \/ (In(Main, "created") /\ State(Main).arg = i)
  /\ i \in finish => pc[i] = 0 /\ i \notin finish_reg
  /\ i \in finish_reg => pc[i] = 0

\* a Pthreads instance is started by one create only, by its thread ID; the
\* instances of a fork are at rest whenever the call is not waiting for them
OnceInv(i) ==
  /\ ~Blocking /\ HasBegun(i) => legup_count >= i
  /\ Blocking /\ ~In(Main, "await") => AtRest(i)

JoinInv ==
  /\ PcInv /\ pc[Main] > 0
  /\ legup_count \in Nat
  /\ start \subseteq Instance
  /\ \A i \in Instance : StartInv(i) /\ OnceInv(i) /\ (Joined(i) => AtRest(i))

LEMMA MainIsPort == Main \in Port
BY PortsAssumption DEF Main, Port

(***************************************************************************)
(* The main thread in the states that start instances.                     *)
(***************************************************************************)
LEMMA MainSteps ==
  ASSUME PcInv, pc[Main] > 0, NEW done, Clock(done)
  PROVE  /\ pc'[Main] > 0
         /\ pc'[Main] = IF Stays(Main, Stalled, done) THEN pc[Main]
                        ELSE IF AsksAgain(Main) THEN pc[Main] - 2 ELSE pc[Main] + 1
         /\ State(Main)' = program[Main][pc'[Main]]
<1>1. pc'[Main] = IF Stays(Main, Stalled, done) THEN pc[Main] ELSE NextState(Main)
  BY ClockFacts, MainIsPort DEF MoveThreads
<1>2. ~Stays(Main, Stalled, done) => ~In(Main, "return")
  BY DEF Stays
<1>3. pc'[Main] = IF Stays(Main, Stalled, done) THEN pc[Main]
                  ELSE IF AsksAgain(Main) THEN pc[Main] - 2 ELSE pc[Main] + 1
  BY <1>1, <1>2 DEF NextState
<1>4. AsksAgain(Main) => pc[Main] > 2
  BY AskingAgain, MainIsPort
<1>5. pc'[Main] > 0
  BY <1>3, <1>4, ProgramFacts, MainIsPort
<1>6. State(Main)' = program[Main][pc'[Main]]
  BY <1>5, ClockFacts DEF State
<1>7. QED  BY <1>3, <1>5, <1>6

LEMMA StartingState ==
  ASSUME PcInv, pc[Main] > 0, NEW done \in SUBSET Busy, Clock(done), NEW i \in Starts
  PROVE  /\ i \in Instance
         /\ \/ State(Main) = Create(i) /\ legup_count = i-1 /\ State(Main)' = Created(i)
               /\ ~Blocking
            \/ State(Main) = Fork /\ State(Main)' = Await /\ Blocking
         /\ pc'[Main] = pc[Main] + 1
<1>0. /\ program[Main] \in Seq(Steps) /\ pc[Main] \in 1 .. Len(program[Main])
      /\ State(Main) = program[Main][pc[Main]] /\ State(Main) \in Steps
      /\ StartsAreLowered(program[Main]) /\ Len(program[Main]) \in Nat
      /\ DOMAIN program[Main] = 1 .. Len(program[Main])
  BY StateFacts, ProgramFacts, MainIsPort, ProgramsAssumption DEF PcInv
<1>1. i \in Instance
  BY DEF Starts
<1>2. State(Main).op \in {"create", "fork"}
  BY DEF Starts, In
<1>3. pc'[Main] = pc[Main] + 1
  <2>1. Main \notin Stalled
    BY <1>2 DEF Stalled, Requests, Accesses
  <2>2. ~Stays(Main, Stalled, done)
    BY <1>2, <2>1 DEF Stays, Busy, In
  <2>3. ~AsksAgain(Main)
    BY <1>2 DEF AsksAgain, In
  <2>4. QED  BY <2>2, <2>3, MainSteps
<1>4. State(Main)' = program[Main][pc[Main] + 1]
  BY <1>3, MainSteps
<1>5. CASE In(Main, "create") /\ State(Main).arg = i /\ legup_count = i-1
  <2>1. State(Main) = Create(i)
    BY <1>0, <1>5 DEF In, Create, Steps
  <2>2. State(Main)' = Created(i)
    BY <1>0, <1>4, <1>5 DEF In, StartsAreLowered
  <2>3. ~Blocking
    <3>1. SUFFICES ASSUME NEW p \in 1 .. Len(program[Main]), program[Main][p] = Fork PROVE FALSE
      BY DEF Blocking
    <3>2. program[Main][p].op = "fork"
      BY <3>1 DEF Fork
    <3>3. program[Main][pc[Main]].op # "create"
      BY <1>0, <3>2 DEF StartsAreLowered
    <3>4. QED  BY <1>0, <1>5, <3>3 DEF In
  <2>4. QED  BY <1>1, <1>3, <1>5, <2>1, <2>2, <2>3
<1>6. CASE In(Main, "fork")
  <2>1. State(Main) = Fork /\ program[Main][pc[Main] + 1] = Await
    BY <1>0, <1>6 DEF In, StartsAreLowered
  <2>2. Blocking
    BY <1>0, <2>1 DEF Blocking
  <2>3. QED  BY <1>1, <1>3, <1>4, <2>1, <2>2
<1>7. QED  BY <1>5, <1>6 DEF Starts

(***************************************************************************)
(* Whose join is past after the edge had its join past before, or is       *)
(* finished now; and it is not started.                                    *)
(***************************************************************************)
LEMMA JoinedNext ==
  ASSUME PcInv, pc[Main] > 0, NEW done \in SUBSET Busy, Clock(done),
         NEW i \in Instance, Joined(i)'
  PROVE  (Joined(i) \/ Finished(i)) /\ i \notin Starts
<1>0. program' = program
  BY ClockFacts
<1>1. PICK p \in 1 .. pc'[Main]-1 :
        /\ program[Main][p] \in {Join(i), Await}
        /\ \A q \in p .. pc'[Main]-1 : program[Main][q] \notin {Create(i), Fork}
  BY <1>0 DEF Joined, Left
<1>2. /\ pc[Main] \in Nat /\ pc'[Main] \in Nat /\ p \in Nat /\ p > 0 /\ p < pc'[Main]
      /\ State(Main) = program[Main][pc[Main]]
  BY <1>1, PcStep, StateFacts, ProgramFacts, MainIsPort
<1>3. ASSUME i \in Starts PROVE State(Main) \in {Create(i), Fork} /\ pc'[Main] = pc[Main] + 1
  BY <1>3, StartingState
<1>4. CASE pc'[Main] = pc[Main]
  <2>1. Joined(i)
    BY <1>1, <1>4 DEF Joined, Left
  <2>2. QED  BY <1>2, <1>3, <1>4, <2>1
<1>5. CASE pc'[Main] = pc[Main] - 2 /\ AsksAgain(Main)
  <2>1. /\ pc[Main] > 2
        /\ program[Main][pc[Main]-2] \notin {Create(i), Fork}
        /\ program[Main][pc[Main]-1] \notin {Create(i), Fork}
    BY <1>5, AskingAgain, MainIsPort DEF Create, Fork
  <2>2. p \in 1 .. pc[Main]-1
    BY <1>2, <1>5
  <2>3. ASSUME NEW q \in p .. pc[Main]-1 PROVE program[Main][q] \notin {Create(i), Fork}
    <3>1. q \in p .. pc'[Main]-1 \/ q = pc[Main]-2 \/ q = pc[Main]-1
      BY <1>2, <1>5
    <3>2. QED  BY <1>1, <2>1, <3>1
  <2>4. Joined(i)
    BY <1>1, <2>2, <2>3 DEF Joined, Left
  <2>5. QED  BY <1>2, <1>3, <1>5, <2>4
<1>6. CASE pc'[Main] = pc[Main] + 1 /\ ~Stays(Main, Stalled, done)
  <2>1. pc[Main] \in p .. pc'[Main]-1
    BY <1>2, <1>6
  <2>2. State(Main) \notin {Create(i), Fork}
    BY <1>1, <1>2, <2>1
  <2>3. CASE p = pc[Main]
    <3>1. (In(Main, "join") /\ State(Main).arg = i) \/ In(Main, "await")
      BY <1>1, <1>2, <2>3 DEF In, Join, Await
    <3>2. Finished(i)
      BY <1>6, <3>1 DEF Stays
    <3>3. QED  BY <1>3, <2>2, <3>2
  <2>4. CASE p # pc[Main]
    <3>1. p \in 1 .. pc[Main]-1 /\ \A q \in p .. pc[Main]-1 : q \in p .. pc'[Main]-1
      BY <1>2, <1>6, <2>4
    <3>2. Joined(i)
      BY <1>1, <3>1 DEF Joined, Left
    <3>3. QED  BY <1>3, <2>2, <3>2
  <2>5. QED  BY <2>3, <2>4
<1>7. QED  BY <1>4, <1>5, <1>6, MainSteps

(***************************************************************************)
(* An edge of the clock, for one instance.                                 *)
(***************************************************************************)
LEMMA InstanceStep ==
  ASSUME PcInv, NEW done \in SUBSET Busy, Clock(done), NEW i \in Instance
  PROVE  /\ pc[i] \in Nat /\ pc'[i] \in Nat
         /\ pc[i] = 0 /\ i \notin start => pc'[i] = 0
         /\ In(i, "return") => pc[i] > 0 /\ pc'[i] = 0
         /\ i \in start' <=> i \in start \ Started \/ i \in Starts
         /\ i \in finish' <=> In(i, "return") \/ (i \in finish /\ pc[i] # 0)
         /\ i \in finish_reg' <=> i \in finish_reg \ FinishCleared \/ i \in finish
<1>0. i \in Port /\ i # Main
  BY DEF Instance
<1>1. pc[i] \in Nat /\ pc'[i] \in Nat /\ (pc[i] = 0 <=> In(i, "wait"))
  BY <1>0, ProgramFacts, PcStep, StateFacts DEF In
<1>2. pc'[i] = IF Stays(i, Stalled, done) THEN pc[i] ELSE NextState(i)
  BY <1>0, ClockFacts DEF MoveThreads
<1>3. pc[i] = 0 /\ i \notin start => pc'[i] = 0
  BY <1>1, <1>2 DEF Stays
<1>4. ASSUME In(i, "return") PROVE pc[i] > 0 /\ pc'[i] = 0
  <2>1. pc[i] > 0
    BY <1>1, <1>4 DEF In
  <2>2. i \notin Stalled
    BY <1>4 DEF Stalled, Requests, Accesses, In
  <2>3. ~Stays(i, Stalled, done)
    BY <1>0, <1>4, <2>2 DEF Stays, Busy, In
  <2>4. QED  BY <1>2, <1>4, <2>1, <2>3 DEF NextState
<1>5. ForkAndJoin
  BY DEF Clock
<1>6. /\ i \in start' <=> i \in start \ Started \/ i \in Starts
      /\ i \in finish' <=> In(i, "return") \/ (i \in finish /\ pc[i] # 0)
      /\ i \in finish_reg' <=> i \in finish_reg \ FinishCleared \/ i \in finish
  BY <1>1, <1>5 DEF ForkAndJoin
<1>7. QED  BY <1>1, <1>3, <1>4, <1>6

LEMMA RestStays ==
  ASSUME PcInv, NEW done \in SUBSET Busy, Clock(done), NEW i \in Instance,
         AtRest(i), i \notin Starts
  PROVE  AtRest(i)'
BY InstanceStep DEF AtRest

\* an instance is started at rest, and its end in the run before is forgotten
LEMMA StartedAtRest ==
  ASSUME JoinInv, NEW done \in SUBSET Busy, Clock(done), NEW i \in Starts
  PROVE  AtRest(i) /\ i \notin finish_reg'
<1>0. PcInv /\ pc[Main] > 0 /\ legup_count \in Nat
  BY DEF JoinInv
<1>1. i \in Instance /\ i \in Nat
  BY <1>0, StartingState, PortsAssumption DEF Instance, Port
<1>2. CASE State(Main) = Create(i) /\ legup_count = i-1 /\ ~Blocking
  <2>1. ~HasBegun(i)
    BY <1>0, <1>1, <1>2 DEF JoinInv, OnceInv
  <2>2. pc[i] \in Nat
    BY <1>0, <1>1, ProgramFacts DEF Instance
  <2>3. QED  BY <1>0, <1>1, <2>1, <2>2, InstanceStep DEF HasBegun, AtRest
<1>3. CASE State(Main) = Fork /\ Blocking
  <2>1. ~In(Main, "await") /\ In(Main, "fork")
    BY <1>3 DEF In, Fork
  <2>2. AtRest(i)
    BY <1>1, <1>3, <2>1 DEF JoinInv, OnceInv
  <2>3. FinishCleared = Instance
    BY <1>3, <2>1 DEF FinishCleared
  <2>4. QED  BY <1>0, <1>1, <2>2, <2>3, InstanceStep DEF AtRest
<1>4. QED  BY <1>0, <1>2, <1>3, StartingState

LEMMA StartPreserved ==
  ASSUME JoinInv, NEW done \in SUBSET Busy, Clock(done), NEW i \in Instance
  PROVE  StartInv(i)'
<1>0. PcInv /\ pc[Main] > 0 /\ StartInv(i)
  BY DEF JoinInv
<1>1. CASE i \in Starts
  <2>1. AtRest(i) /\ i \notin finish_reg'
    BY <1>1, StartedAtRest
  <2>2. pc'[i] = 0 /\ i \notin finish'
    <3>1. ~In(i, "return")
      BY <1>0, <2>1, InstanceStep DEF AtRest
    <3>2. QED  BY <1>0, <2>1, <3>1, InstanceStep DEF AtRest
  <2>3. State(Main)' = Created(i) \/ State(Main)' = Await
    BY <1>0, <1>1, StartingState
  <2>4. (In(Main, "await") \/ (In(Main, "created") /\ State(Main).arg = i))'
    BY <2>3 DEF In, Created, Await
  <2>5. QED  BY <2>1, <2>2, <2>4 DEF StartInv
<1>2. CASE i \notin Starts
  <2>1. i \notin start'
    <3>1. i \in start => i \in Started
      BY <1>0 DEF StartInv, Started
    <3>2. QED  BY <1>0, <1>2, <3>1, InstanceStep
  <2>2. i \in finish' => pc'[i] = 0 /\ i \notin finish_reg'
    <3>1. SUFFICES ASSUME i \in finish' PROVE pc'[i] = 0 /\ i \notin finish_reg'
      OBVIOUS
    <3>2. In(i, "return")
      BY <1>0, <3>1, InstanceStep DEF StartInv
    <3>3. QED  BY <1>0, <3>2, InstanceStep DEF StartInv
  <2>3. i \in finish_reg' => pc'[i] = 0
    BY <1>0, InstanceStep DEF StartInv
  <2>4. QED  BY <2>1, <2>2, <2>3 DEF StartInv
<1>3. QED  BY <1>1, <1>2

LEMMA OncePreserved ==
  ASSUME JoinInv, NEW done \in SUBSET Busy, Clock(done), NEW i \in Instance
  PROVE  OnceInv(i)'
<1>0. /\ PcInv /\ pc[Main] > 0 /\ legup_count \in Nat /\ OnceInv(i) /\ i \in Nat
      /\ StartInv(i)
  BY PortsAssumption DEF JoinInv, Instance, Port
<1>1. Blocking' = Blocking
  BY ClockFacts DEF Blocking
<1>2. legup_count' \in Nat /\ legup_count' >= legup_count
      /\ (In(Main, "create") => legup_count' = legup_count + 1)
  BY <1>0 DEF Clock, ForkAndJoin
<1>3. ASSUME ~Blocking, HasBegun(i)' PROVE legup_count' >= i
  <2>1. CASE HasBegun(i)
    BY <1>0, <1>2, <1>3, <2>1 DEF OnceInv
  <2>2. CASE i \in Starts
    <3>1. In(Main, "create") /\ legup_count = i-1
      BY <1>0, <1>3, <2>2, StartingState DEF In, Create
    <3>2. QED  BY <1>0, <1>2, <3>1
  <2>3. CASE ~HasBegun(i) /\ i \notin Starts
    <3>1. pc[i] = 0 /\ i \notin start /\ i \notin finish /\ i \notin finish_reg
      BY <1>0, <2>3, InstanceStep DEF HasBegun
    <3>2. pc'[i] = 0 /\ i \notin start' /\ i \notin finish' /\ i \notin finish_reg'
      BY <1>0, <2>3, <3>1, InstanceStep
    <3>3. QED  BY <1>0, <1>3, <3>2, InstanceStep DEF HasBegun
  <2>4. QED  BY <2>1, <2>2, <2>3
<1>4. ASSUME Blocking, ~In(Main, "await")' PROVE AtRest(i)'
  <2>1. i \notin Starts
    <3>1. SUFFICES ASSUME i \in Starts PROVE FALSE
      OBVIOUS
    <3>2. State(Main)' = Await
      BY <1>0, <1>4, <3>1, StartingState
    <3>3. QED  BY <1>4, <3>2 DEF In, Await
  <2>2. AtRest(i)
    <3>1. CASE ~In(Main, "await")
      BY <1>0, <1>4, <3>1 DEF OnceInv
    <3>2. CASE In(Main, "await")
      <4>1. ~Stays(Main, Stalled, done)
        <5>1. SUFFICES ASSUME Stays(Main, Stalled, done) PROVE FALSE
          OBVIOUS
        <5>2. pc'[Main] = pc[Main] /\ State(Main)' = program[Main][pc'[Main]]
          BY <1>0, <5>1, MainSteps
        <5>3. State(Main)' = State(Main)
          BY <1>0, <5>2, StateFacts, MainIsPort
        <5>4. QED  BY <1>4, <3>2, <5>3 DEF In
      <4>2. Finished(i)
        BY <3>2, <4>1 DEF Stays
      <4>3. QED  BY <1>0, <4>2 DEF Finished, StartInv, AtRest
    <3>3. QED  BY <3>1, <3>2
  <2>3. QED  BY <1>0, <2>1, <2>2, RestStays
<1>5. QED  BY <1>1, <1>3, <1>4 DEF OnceInv

LEMMA JoinedPreserved ==
  ASSUME JoinInv, NEW done \in SUBSET Busy, Clock(done), NEW i \in Instance, Joined(i)'
  PROVE  AtRest(i)'
<1>0. PcInv /\ pc[Main] > 0 /\ StartInv(i) /\ (Joined(i) => AtRest(i))
  BY DEF JoinInv
<1>1. (Joined(i) \/ Finished(i)) /\ i \notin Starts
  BY <1>0, JoinedNext
<1>2. AtRest(i)
  BY <1>0, <1>1 DEF Finished, StartInv, AtRest
<1>3. QED  BY <1>0, <1>1, <1>2, RestStays

(***************************************************************************)
(* JoinInv holds at first and in every step.                               *)
(***************************************************************************)
LEMMA JoinInitHolds == Init => JoinInv
<1> SUFFICES ASSUME Init PROVE JoinInv
  OBVIOUS
<1>1. PcInv
  BY InitHolds DEF IInv
<1>2. pc[Main] = 1 /\ legup_count = 0 /\ start = {} /\ finish = {} /\ finish_reg = {}
  BY MainIsPort DEF Init
<1>3. ASSUME NEW i \in Instance
      PROVE  StartInv(i) /\ OnceInv(i) /\ (Joined(i) => AtRest(i))
  <2>1. pc[i] = 0
    BY DEF Init, Instance
  <2>2. QED  BY <1>2, <2>1 DEF StartInv, OnceInv, HasBegun, AtRest
<1>4. QED  BY <1>1, <1>2, <1>3 DEF JoinInv

LEMMA JoinStepHolds == JoinInv /\ PcInv' /\ [Next]_vars => JoinInv'
<1> SUFFICES ASSUME JoinInv, PcInv', [Next]_vars PROVE JoinInv'
  OBVIOUS
<1>1. CASE UNCHANGED vars
  BY <1>1 DEF JoinInv, StartInv, OnceInv, HasBegun, AtRest, Joined, Left, Blocking, In,
              State, vars, threadVars, Instance, Port
<1>2. ASSUME NEW done \in SUBSET Busy, Clock(done) PROVE JoinInv'
  <2>1. pc'[Main] > 0
    BY <1>2, MainSteps DEF JoinInv
  <2>2. legup_count' \in Nat /\ start' \subseteq Instance
    BY <1>2 DEF JoinInv, Clock, ForkAndJoin, Starts
  <2>3. \A i \in Instance : StartInv(i)' /\ OnceInv(i)' /\ (Joined(i)' => AtRest(i)')
    BY <1>2, StartPreserved, OncePreserved, JoinedPreserved
  <2>4. QED  BY <2>1, <2>2, <2>3 DEF JoinInv, Instance, Port
<1>3. QED  BY <1>1, <1>2 DEF Next

(***************************************************************************)
(* Past a join, or past the call that forked, the instance is back in its  *)
(* wait state and is not being started.                                    *)
(***************************************************************************)
THEOREM JoinsWait == Spec => []JoinedHaveEnded
<1>1. JoinInv => JoinedHaveEnded
  BY DEF JoinInv, JoinedHaveEnded, AtRest
<1>2. IInv => PcInv
  BY DEF IInv
<1>3. QED  BY <1>1, <1>2, InitHolds, StepHolds, JoinInitHolds, JoinStepHolds, PTL DEF Spec

-----------------------------------------------------------------------------
(***************************************************************************)
(* Loads.  The data of a load is kept for its last state in the instances  *)
(* only, so what follows is about main threads of which no load is         *)
(* overtaken, which is what MainKeepsLoads says.                           *)
(***************************************************************************)
\* the state before this one reads; its data is on the way, or has arrived
Answered(r) == pc[r] > 1 /\ program[r][pc[r]-1].op \in Reads

OnItsWay(r, d) ==
  /\ IF r \in dataReady0 THEN memory_reg = d ELSE Out(r) = d
  /\ r # Main => r \in first_state_after_memory_read

Arrived(r, d) ==
  /\ LoadData(r) = d
  /\ r # Main => r \in second_state_after_memory_read

DueIs(r) ==
  /\ due[r] = IF Ends(r) /\ Answered(r) THEN <<due[r][1], due[r][2]>>
              ELSE IF Ends(r) \/ Answered(r) THEN <<due[r][1]>> ELSE << >>
  /\ Ends(r) => Arrived(r, due[r][1])
  /\ Answered(r) => OnItsWay(r, IF Ends(r) THEN due[r][2] ELSE due[r][1])
  /\ r \in dataReady0 => Answered(r)

DataInv == PcInv /\ \A r \in Port : DueIs(r)

(***************************************************************************)
(* What is between the port and a thread, after an edge of the clock.      *)
(***************************************************************************)
LEMMA OutNext ==
  ASSUME NEW done, Clock(done), NEW r \in Port
  PROVE  /\ Out(r)' = IF r \in dataReady0 THEN memory_reg ELSE Out(r)
         /\ r \in dataReady0' <=> r \in Granted /\ r \in ReadRequests
<1>1. /\ InstanceReaddata(Granted) /\ memory_out' = memory_reg
  BY ClockFacts
<1>2. /\ dataReady1' = dataReady0 /\ dataReady0' = Granted \cap ReadRequests
      /\ out_reg'[r] = IF r \in dataReady1 THEN memory_out ELSE out_reg[r]
  BY <1>1 DEF InstanceReaddata
<1>3. QED  BY <1>1, <1>2 DEF Out

LEMMA ShiftNext ==
  ASSUME NEW done, Clock(done), NEW r \in Instance
  PROVE  /\ r \in Stalled =>
              /\ r \in first_state_after_memory_read' <=> r \in first_state_after_memory_read
              /\ r \in second_state_after_memory_read' <=> r \in second_state_after_memory_read
              /\ r \notin waitrequest_inverted_reg'
         /\ r \notin Stalled =>
              /\ r \in first_state_after_memory_read' <=> r \in ReadRequests
              /\ r \in second_state_after_memory_read' <=> r \in first_state_after_memory_read
              /\ r \in waitrequest_inverted_reg'
         /\ stored_reg'[r] = IF Valid(r) THEN Out(r) ELSE stored_reg[r]
<1>1. FunctionReaddata(Stalled) /\ r # Main
  BY ClockFacts DEF Instance
<1>2. stored_reg'[r] = IF Valid(r) THEN Out(r) ELSE stored_reg[r]
  BY <1>1 DEF FunctionReaddata
<1>3. QED  BY <1>1, <1>2 DEF FunctionReaddata, Shift

LEMMA DueNext ==
  ASSUME NEW done, Clock(done), NEW r \in Port
  PROVE  due'[r] = LET rest == IF Ends(r) /\ r \notin Stalled THEN Tail(due[r]) ELSE due[r]
                   IN  IF r \in Granted /\ r \in ReadRequests
                       THEN Append(rest, Answer(AccessOf(r))) ELSE rest
BY DEF Clock, Remember, Stalled

LEMMA ShortQueues ==
  ASSUME NEW d, NEW e
  PROVE  /\ Tail(<<d>>) = << >> /\ Tail(<<d, e>>) = <<e>> /\ Head(<<d>>) = d
         /\ Head(<<d, e>>) = d
         /\ Append(<< >>, d) = <<d>> /\ Append(<<d>>, e) = <<d, e>>
         /\ <<d>>[1] = d /\ <<d, e>>[1] = d /\ <<d, e>>[2] = e
<1>1. /\ <<d>>[1] = d /\ <<d, e>>[1] = d /\ <<d, e>>[2] = e
      /\ Head(<<d>>) = d /\ Head(<<d, e>>) = d
  OBVIOUS
<1>2. Append(<< >>, d) = <<d>> /\ Append(<<d>>, e) = <<d, e>>
  <2>1. << >> \in Seq({d, e}) /\ <<d>> \in Seq({d, e})
    OBVIOUS
  <2>2. Append(<< >>, d) = <<d>>
    OBVIOUS
  <2>3. Append(<<d>>, e) = <<d, e>>
    <3> DEFINE q == Append(<<d>>, e)
    <3>1. q \in Seq({d, e}) /\ Len(q) = 2 /\ q[1] = d /\ q[2] = e
      BY <2>1
    <3> HIDE DEF q
    <3>2. q = <<d, e>>
      BY <3>1
    <3>3. QED  BY <3>2 DEF q
  <2>4. QED  BY <2>2, <2>3
<1>3. Tail(<<d>>) = << >>
  OBVIOUS
<1>4. Tail(<<d, e>>) = <<e>>
  <2>1. <<d, e>> \in Seq({d, e}) /\ Len(<<d, e>>) = 2
    OBVIOUS
  <2>2. Tail(<<d, e>>) \in Seq({d, e}) /\ Len(Tail(<<d, e>>)) = 1 /\ Tail(<<d, e>>)[1] = e
    BY <2>1
  <2>3. QED  BY <2>2
<1>5. QED  BY <1>1, <1>2, <1>3, <1>4

(***************************************************************************)
(* Where no load is under way.                                             *)
(***************************************************************************)
LEMMA LoadsEnd ==
  ASSUME PcInv, NEW r \in Port, NEW p \in 1 .. Len(program[r])
  PROVE  /\ program[r][p].op = "return" => p = Len(program[r])
         /\ program[r][p].op \in Reads =>
              /\ p+2 <= Len(program[r])
              /\ program[r][p+1].op \notin {"compute", "fill", "join", "await"}
              /\ program[r][p+2].op \notin {"compute", "fill", "join", "await"}
         /\ program[r][p].op \in {"lock", "look"} =>
              /\ p-1 > 0 => program[r][p-1].op \notin Reads
              /\ p-2 > 0 => program[r][p-2].op \notin Reads
<1>1. LoadsEndInTheirBlock(program[r]) /\ DOMAIN program[r] = 1 .. Len(program[r])
      /\ Len(program[r]) \in Nat
  BY ProgramFacts, ProgramsAssumption DEF PcInv
<1>2. /\ program[r][p].op = "return" => p = Len(program[r])
      /\ program[r][p].op \in Reads =>
           /\ p+2 <= Len(program[r])
           /\ \A q \in {p+1, p+2} : program[r][q].op \notin {"compute", "fill", "join", "await"}
      /\ program[r][p].op \in {"lock", "look"} =>
           \A q \in {p-1, p-2} \cap DOMAIN program[r] : program[r][q].op \notin Reads
  BY <1>1 DEF LoadsEndInTheirBlock
<1>3. /\ p-1 > 0 => p-1 \in 1 .. Len(program[r])
      /\ p-2 > 0 => p-2 \in 1 .. Len(program[r])
  BY <1>1
<1>4. QED  BY <1>1, <1>2, <1>3

LEMMA NoLoadUnderWay ==
  ASSUME MainKeepsLoads, PcInv, NEW r \in Port,
         \/ State(r).op \in {"wait", "compute", "fill", "join", "await"}
         \/ r = Main /\ State(r).op = "return"
  PROVE  ~Answered(r) /\ ~Ends(r)
<1>0. pc[r] \in Nat /\ pc[r] <= Len(program[r]) /\ Len(program[r]) \in Nat
      /\ (pc[r] > 0 => State(r) = program[r][pc[r]] /\ State(r).op # "wait")
  BY ProgramFacts, StateFacts
<1>1. ASSUME Answered(r) PROVE FALSE
  <2>1. /\ pc[r]-1 \in 1 .. Len(program[r]) /\ pc[r] \in 1 .. Len(program[r])
        /\ program[r][pc[r]-1].op \in Reads /\ (pc[r]-1)+1 = pc[r]
    BY <1>0, <1>1 DEF Answered
  <2>2. /\ (pc[r]-1)+2 <= Len(program[r])
        /\ program[r][(pc[r]-1)+1].op \notin {"compute", "fill", "join", "await"}
    BY <2>1, LoadsEnd
  <2>3. State(r).op # "return"
    BY <1>0, <2>1, <2>2, LoadsEnd
  <2>4. QED  BY <1>0, <2>1, <2>2, <2>3
<1>2. ASSUME Ends(r) PROVE FALSE
  <2>1. /\ pc[r]-2 \in 1 .. Len(program[r]) /\ pc[r] \in 1 .. Len(program[r])
        /\ program[r][pc[r]-2].op \in Reads /\ (pc[r]-2)+2 = pc[r]
    BY <1>0, <1>2 DEF Ends
  <2>2. program[r][(pc[r]-2)+2].op \notin {"compute", "fill", "join", "await"}
    BY <2>1, LoadsEnd
  <2>3. r = Main => program[r][(pc[r]-2)+2].op # "return"
    BY <2>1, ProgramFacts DEF MainKeepsLoads, PcInv
  <2>4. QED  BY <1>0, <2>1, <2>2, <2>3
<1>3. QED  BY <1>1, <1>2

(***************************************************************************)
(* A thread that is stalled, one that stays for another reason, one that   *)
(* asks again or returns, and one that goes on to its next state.          *)
(***************************************************************************)
LEMMA StalledKeepsData ==
  ASSUME MainKeepsLoads, DataInv, NEW done, Clock(done), NEW r \in Port, r \in Stalled
  PROVE  DueIs(r)'
<1>0. PcInv /\ DueIs(r) /\ r \in Requests /\ r \notin Granted
  BY DEF DataInv, Stalled
<1>1. pc'[r] = pc[r] /\ program' = program
  BY ClockFacts DEF MoveThreads, Stays
<1>2. Ends(r)' = Ends(r) /\ Answered(r)' = Answered(r)
  BY <1>1 DEF Ends, Answered
<1>3. due'[r] = due[r] /\ r \notin dataReady0'
  BY <1>0, DueNext, OutNext
<1>4. ASSUME NEW d, OnItsWay(r, d) PROVE OnItsWay(r, d)'
  <2>1. Out(r)' = d
    BY <1>4, OutNext DEF OnItsWay
  <2>2. r # Main => r \in first_state_after_memory_read'
    BY <1>4, ShiftNext DEF OnItsWay, Instance
  <2>3. QED  BY <1>3, <2>1, <2>2 DEF OnItsWay
<1>5. ASSUME Ends(r), NEW d, Arrived(r, d) PROVE Arrived(r, d)'
  <2>1. CASE r # Main
    <3>1. r \in Instance /\ r \in second_state_after_memory_read /\ Stored(r) = d
      BY <1>5, <2>1 DEF Arrived, LoadData, Instance
    <3>2. /\ r \in second_state_after_memory_read' /\ r \notin waitrequest_inverted_reg'
          /\ stored_reg'[r] = d
      BY <3>1, ShiftNext DEF Stored
    <3>3. QED  BY <2>1, <3>2 DEF Arrived, LoadData, Stored, Valid
  <2>2. CASE r = Main
    <3>1. r \notin dataReady0
      <4>1. SUFFICES ASSUME Answered(r) PROVE FALSE
        BY <1>0 DEF DueIs
      <4>2. pc[r] > 2 /\ program[r][pc[r]-2].op \in Reads /\ program[r][pc[r]-1].op \in Reads
        BY <1>5, <4>1 DEF Ends, Answered
      <4>3. /\ pc[r]-2 \in DOMAIN program[r]
            /\ (pc[r]-2)+1 = pc[r]-1 /\ (pc[r]-2)+2 = pc[r]
        BY <1>0, <4>2, ProgramFacts
      <4>4. program[r][pc[r]].op \notin Accesses
        BY <1>0, <2>2, <4>2, <4>3 DEF MainKeepsLoads, PcInv
      <4>5. State(r).op \in Accesses
        BY <1>0 DEF Requests
      <4>6. QED  BY <1>0, <4>2, <4>4, <4>5, StateFacts, ProgramFacts
    <3>2. Out(r)' = Out(r)
      BY <3>1, OutNext
    <3>3. QED  BY <1>5, <2>2, <3>2 DEF Arrived, LoadData
  <2>3. QED  BY <2>1, <2>2
<1>6. QED  BY <1>0, <1>2, <1>3, <1>4, <1>5 DEF DueIs

LEMMA NothingUnderWay ==
  ASSUME NEW r \in Port, ~Answered(r), ~Ends(r), r \notin dataReady0, due[r] = << >>
  PROVE  DueIs(r)
BY DEF DueIs

LEMMA StayingKeepsData ==
  ASSUME MainKeepsLoads, DataInv, NEW done, Clock(done), NEW r \in Port,
         r \notin Stalled, Stays(r, Stalled, done)
  PROVE  DueIs(r)'
<1>0. PcInv /\ DueIs(r)
  BY DEF DataInv
<1>1. pc'[r] = pc[r] /\ program' = program
  BY ClockFacts DEF MoveThreads
<1>2. \/ State(r).op \in {"wait", "compute", "fill", "join", "await"}
      \/ r = Main /\ State(r).op = "return"
  BY DEF Stays, Busy, In
<1>3. ~Answered(r) /\ ~Ends(r)
  BY <1>0, <1>2, NoLoadUnderWay
<1>4. r \notin ReadRequests
  BY <1>2 DEF ReadRequests, Reads
<1>5. due'[r] = << >> /\ r \notin dataReady0'
  BY <1>0, <1>3, <1>4, DueNext, OutNext DEF DueIs
<1>6. ~Answered(r)' /\ ~Ends(r)'
  BY <1>1, <1>3 DEF Answered, Ends
<1>7. QED  BY <1>5, <1>6 DEF DueIs

LEMMA LeavingEndsLoads ==
  ASSUME DataInv, NEW done, Clock(done), NEW r \in Port,
         r \notin Stalled, ~Stays(r, Stalled, done), In(r, "return") \/ AsksAgain(r)
  PROVE  DueIs(r)'
<1>0. PcInv /\ DueIs(r)
  BY DEF DataInv
<1>1. pc'[r] = NextState(r) /\ program' = program
  BY ClockFacts DEF MoveThreads
<1>2. /\ pc[r] \in 1 .. Len(program[r]) /\ State(r) = program[r][pc[r]]
      /\ Len(program[r]) \in Nat
  BY <1>0, StateFacts, ProgramFacts DEF In, AsksAgain
<1>3. r \notin ReadRequests
  BY DEF ReadRequests, Reads, In, AsksAgain
<1>4. ~Answered(r)
  <2>1. CASE In(r, "return")
    <3>1. pc[r] = Len(program[r])
      BY <1>0, <1>2, <2>1, LoadsEnd DEF In
    <3>2. SUFFICES ASSUME Answered(r) PROVE FALSE
      OBVIOUS
    <3>3. pc[r]-1 \in 1 .. Len(program[r]) /\ program[r][pc[r]-1].op \in Reads
      BY <1>2, <3>2 DEF Answered
    <3>4. (pc[r]-1)+2 <= Len(program[r])
      BY <1>0, <3>3, LoadsEnd
    <3>5. QED  BY <1>2, <3>1, <3>4
  <2>2. CASE AsksAgain(r)
    BY <1>0, <2>2, AskingAgain DEF Answered, Reads
  <2>3. QED  BY <2>1, <2>2
<1>5. ~Answered(r)' /\ ~Ends(r)'
  <2>1. CASE In(r, "return")
    <3>1. pc'[r] = 0
      BY <1>1, <2>1 DEF NextState
    <3>2. QED  BY <3>1 DEF Answered, Ends
  <2>2. CASE ~In(r, "return") /\ AsksAgain(r)
    <3>1. pc'[r] = pc[r] - 2
      BY <1>1, <2>2 DEF NextState
    <3>2. /\ pc[r]-2 \in 1 .. Len(program[r])
          /\ program[r][pc[r]-2].op \in {"lock", "look"}
      BY <1>0, <1>2, <2>2, AskingAgain
    <3>3. /\ (pc[r]-2)-1 > 0 => program[r][(pc[r]-2)-1].op \notin Reads
          /\ (pc[r]-2)-2 > 0 => program[r][(pc[r]-2)-2].op \notin Reads
      BY <1>0, <3>2, LoadsEnd
    <3>4. QED  BY <1>1, <1>2, <3>1, <3>3 DEF Answered, Ends
  <2>3. QED  BY <2>1, <2>2
<1>6. due'[r] = << >> /\ r \notin dataReady0'
  <2>1. due[r] = IF Ends(r) THEN <<due[r][1]>> ELSE << >>
    BY <1>0, <1>4 DEF DueIs
  <2>2. due'[r] = IF Ends(r) THEN Tail(due[r]) ELSE due[r]
    BY <1>3, DueNext
  <2>3. QED  BY <1>3, <2>1, <2>2, ShortQueues, OutNext
<1>7. QED  BY <1>5, <1>6 DEF DueIs

LEMMA MovingOnBringsData ==
  ASSUME DataInv, NEW done, Clock(done), NEW r \in Port,
         r \notin Stalled, ~Stays(r, Stalled, done), ~In(r, "return"), ~AsksAgain(r)
  PROVE  DueIs(r)'
<1>0. PcInv /\ DueIs(r)
  BY DEF DataInv
<1>1. pc'[r] = pc[r] + 1 /\ program' = program /\ pc[r] \in Nat
  BY <1>0, ClockFacts, ProgramFacts DEF MoveThreads, NextState
<1>2. Ends(r)' <=> Answered(r)
  BY <1>1 DEF Ends, Answered
<1>3. /\ Answered(r)' <=> r \in ReadRequests
      /\ r \in ReadRequests => r \in Granted
  <2>1. pc[r] = 0 => State(r) = Wait
    BY DEF State
  <2>2. pc[r] > 0 => State(r) = program[r][pc[r]]
    BY <1>0, StateFacts
  <2>3. Answered(r)' <=> State(r).op \in Reads
    BY <1>1, <2>1, <2>2 DEF Answered, Wait, Reads
  <2>4. State(r).op \in Reads => r \in Requests
    BY DEF Requests, Reads, Accesses
  <2>5. QED  BY <2>3, <2>4 DEF ReadRequests, Stalled
<1>4. r \in dataReady0' <=> Answered(r)'
  BY <1>3, OutNext
<1> DEFINE a == Answer(AccessOf(r))
           d == IF Ends(r) THEN due[r][2] ELSE due[r][1]
<1>5. due'[r] = IF Answered(r) THEN IF Answered(r)' THEN <<d, a>> ELSE <<d>>
                               ELSE IF Answered(r)' THEN <<a>> ELSE << >>
  <2> DEFINE rest == IF Ends(r) THEN Tail(due[r]) ELSE due[r]
  <2>1. due[r] = IF Ends(r) /\ Answered(r) THEN <<due[r][1], due[r][2]>>
                 ELSE IF Ends(r) \/ Answered(r) THEN <<due[r][1]>> ELSE << >>
    BY <1>0 DEF DueIs
  <2>2. rest = IF Answered(r) THEN <<d>> ELSE << >>
    <3> DEFINE x == due[r][1]
               y == due[r][2]
    <3>1. due[r] = IF Ends(r) /\ Answered(r) THEN <<x, y>>
                   ELSE IF Ends(r) \/ Answered(r) THEN <<x>> ELSE << >>
      BY <2>1
    <3>2. d = IF Ends(r) THEN y ELSE x
      OBVIOUS
    <3> HIDE DEF x, y, d
    <3>3. QED  BY <3>1, <3>2, ShortQueues
  <2>3. due'[r] = IF Answered(r)' THEN Append(rest, a) ELSE rest
    BY <1>3, DueNext
  <2> HIDE DEF rest, a, d
  <2>4. QED  BY <2>2, <2>3, ShortQueues
<1>6. ASSUME Answered(r)', NEW e, e = a PROVE OnItsWay(r, e)'
  <2>1. r \in dataReady0' /\ r \in Granted /\ r \in ReadRequests
    BY <1>3, <1>4, <1>6
  <2>2. memory_reg' = e
    BY <1>6, <2>1, ClockFacts, ServedIs
  <2>3. r # Main => r \in first_state_after_memory_read'
    BY <2>1, ShiftNext DEF Instance, Stalled
  <2>4. QED  BY <2>1, <2>2, <2>3 DEF OnItsWay
<1>7. ASSUME Answered(r), NEW e, e = d PROVE Arrived(r, e)'
  <2>1. OnItsWay(r, d)
    BY <1>0, <1>7 DEF DueIs
  <2> HIDE DEF d
  <2>2. Out(r)' = e
    BY <1>7, <2>1, OutNext DEF OnItsWay
  <2>3. r # Main => /\ r \in second_state_after_memory_read'
                    /\ r \in waitrequest_inverted_reg'
    BY <2>1, ShiftNext DEF OnItsWay, Instance
  <2>4. QED  BY <2>2, <2>3 DEF Arrived, LoadData, Stored, Valid
<1>8. ASSUME Ends(r)' PROVE Arrived(r, due[r][1])'
  <2>1. due'[r][1] = d
    <3> HIDE DEF d, a
    <3>1. QED  BY <1>2, <1>5, <1>8, ShortQueues
  <2>2. PICK e : e = d
    OBVIOUS
  <2>3. Arrived(r, e)'
    BY <1>2, <1>7, <1>8, <2>2
  <2> HIDE DEF d
  <2>4. QED  BY <2>1, <2>2, <2>3 DEF Arrived
<1>9. ASSUME Answered(r)' PROVE OnItsWay(r, IF Ends(r) THEN due[r][2] ELSE due[r][1])'
  <2>1. (IF Ends(r)' THEN due'[r][2] ELSE due'[r][1]) = a
    <3> HIDE DEF d, a
    <3>1. QED  BY <1>2, <1>5, <1>9, ShortQueues
  <2>2. PICK e : e = a
    OBVIOUS
  <2>3. OnItsWay(r, e)'
    BY <1>6, <1>9, <2>2
  <2> HIDE DEF a
  <2>4. QED  BY <2>1, <2>2, <2>3 DEF OnItsWay
<1>10. due'[r] = IF Ends(r)' /\ Answered(r)' THEN <<due'[r][1], due'[r][2]>>
                 ELSE IF Ends(r)' \/ Answered(r)' THEN <<due'[r][1]>> ELSE << >>
  <2> HIDE DEF d, a
  <2>1. QED  BY <1>2, <1>5, ShortQueues
<1>11. QED  BY <1>4, <1>8, <1>9, <1>10 DEF DueIs

(***************************************************************************)
(* A load takes the word that the memory or a core answered to that load,  *)
(* whatever the thread and the others have read before it ends.            *)
(***************************************************************************)
THEOREM LoadsTakeTheirData ==
  ASSUME MainKeepsLoads
  PROVE  Spec => []DataReachesItsReader
<1>1. Init => DataInv
  <2> SUFFICES ASSUME Init PROVE DataInv
    OBVIOUS
  <2>1. PcInv
    BY InitHolds DEF IInv
  <2>2. ASSUME NEW r \in Port PROVE DueIs(r)
    <3>1. pc[r] \in {0, 1} /\ due[r] = << >> /\ dataReady0 = {}
      BY DEF Init
    <3>2. ~Answered(r) /\ ~Ends(r)
      BY <3>1 DEF Answered, Ends
    <3>3. QED  BY <3>1, <3>2, NothingUnderWay
  <2>3. QED  BY <2>1, <2>2 DEF DataInv
<1>2. DataInv /\ PcInv' /\ [Next]_vars => DataInv'
  <2> SUFFICES ASSUME DataInv, PcInv', [Next]_vars PROVE DataInv'
    OBVIOUS
  <2>1. CASE UNCHANGED vars
    <3>1. ASSUME NEW r \in Port PROVE DueIs(r)'
      BY <2>1 DEF DataInv, DueIs, Answered, OnItsWay, Arrived, Ends, Out, LoadData, Stored,
                  Valid, vars, threadVars
    <3>2. QED  BY <3>1 DEF DataInv, Port
  <2>2. ASSUME NEW done \in SUBSET Busy, Clock(done) PROVE DataInv'
    <3>1. ASSUME NEW r \in Port PROVE DueIs(r)'
      <4>1. CASE r \in Stalled
        BY <2>2, <4>1, StalledKeepsData
      <4>2. CASE r \notin Stalled /\ Stays(r, Stalled, done)
        BY <2>2, <4>2, StayingKeepsData
      <4>3. CASE /\ r \notin Stalled /\ ~Stays(r, Stalled, done)
                 /\ In(r, "return") \/ AsksAgain(r)
        BY <2>2, <4>3, LeavingEndsLoads
      <4>4. CASE /\ r \notin Stalled /\ ~Stays(r, Stalled, done)
                 /\ ~In(r, "return") /\ ~AsksAgain(r)
        BY <2>2, <4>4, MovingOnBringsData
      <4>5. QED  BY <4>1, <4>2, <4>3, <4>4
    <3>2. QED  BY <3>1 DEF DataInv, Port
  <2>3. QED  BY <2>1, <2>2 DEF Next
<1>3. DataInv => DataReachesItsReader
  <2> SUFFICES ASSUME DataInv, NEW r \in Port, Ends(r) PROVE LoadData(r) = Head(due[r])
    BY DEF DataReachesItsReader
  <2>1. /\ LoadData(r) = due[r][1]
        /\ due[r] = <<due[r][1], due[r][2]>> \/ due[r] = <<due[r][1]>>
    BY DEF DataInv, DueIs, Arrived
  <2>2. Head(due[r]) = due[r][1]
    BY <2>1, ShortQueues
  <2>3. QED  BY <2>1, <2>2
<1>4. IInv => PcInv
  BY DEF IInv
<1>5. QED  BY <1>1, <1>2, <1>3, <1>4, InitHolds, StepHolds, PTL DEF Spec

-----------------------------------------------------------------------------
(***************************************************************************)
(* Updates. An increment is a load, two idle states and a store, and the   *)
(* lock of its word is held from before the load. So nobody else writes    *)
(* the word while the value loaded is on its way to the store (ValueInv),  *)
(* and what the memory holds is what it held at first plus the increments  *)
(* done (CountInv). An increment is an instance, its store and the create  *)
(* or fork that started the run: Last says which run is under way,         *)
(* Progress how far it is, and Done is the increments granted so far.      *)
(***************************************************************************)
\* the state of the main thread starts the instance
Begins(i, q) == program[Main][q] \in {Create(i), Fork}

Last(i, q) ==
  q \in Left(Main) /\ Begins(i, q) /\ \A o \in q+1 .. pc[Main]-1 : ~Begins(i, o)

\* the state an instance that has been started is at: one past its end when
\* it has ended
Progress(i) ==
  IF pc[i] > 0 THEN pc[i] ELSE IF i \in start THEN 1 ELSE Len(program[i]) + 1

Done(a) ==
  {u \in Increments(a) :
     u[3] < pc[Main] /\ (Last(u[1], u[3]) => u[2] < Progress(u[1]))}

Creates == {o \in Left(Main) : program[Main][o].op = "create"}

\* an instance that is started or runs was begun by a state the main thread
\* has left, and the run-time ID counts the creates it has left
RunInv ==
  /\ IsFiniteSet(Creates) /\ legup_count = Cardinality(Creates)
  /\ \A i \in Instance : pc[i] > 0 \/ i \in start => \E q \in Left(Main) : Last(i, q)

\* what the increment of a word has loaded is what the word holds
ValueInv ==
  \A i \in Instance : \A a \in Address : \A p \in DOMAIN program[i] :
    program[i][p] = Increment(a) =>
      /\ pc[i] = p-2 => OnItsWay(i, memory[a])
      /\ pc[i] = p-1 => Arrived(i, memory[a])
      /\ pc[i] = p   => loadReg[i] = memory[a]

CountInv ==
  /\ memory \in [Address -> Nat]
  /\ \A a \in Address :
       IsFiniteSet(Done(a)) /\ memory[a] = InitialWord[a] + Cardinality(Done(a))

UpdateInv == IInv /\ JoinInv /\ RunInv /\ ValueInv /\ CountInv

(***************************************************************************)
(* The main thread leaves the states that start instances at once, and     *)
(* once; an instance goes past its stores, arrivals and passes when it     *)
(* leaves them, and never back.                                            *)
(***************************************************************************)
LEMMA MainPasses ==
  ASSUME PcInv, pc[Main] > 0, NEW done \in SUBSET Busy, Clock(done),
         NEW q \in DOMAIN program[Main], program[Main][q].op \in {"create", "fork"}
  PROVE  /\ q < pc'[Main] <=> q <= pc[Main]
         /\ q = pc[Main] => pc'[Main] = pc[Main] + 1
<1>0. /\ q \in Nat /\ pc[Main] \in Nat /\ pc'[Main] \in Nat
      /\ State(Main) = program[Main][pc[Main]]
      /\ pc'[Main] = IF Stays(Main, Stalled, done) THEN pc[Main]
                     ELSE IF AsksAgain(Main) THEN pc[Main] - 2 ELSE pc[Main] + 1
  BY MainSteps, PcStep, StateFacts, ProgramFacts, MainIsPort
<1>1. CASE q = pc[Main]
  <2>1. State(Main).op \in {"create", "fork"}
    BY <1>0, <1>1
  <2>2. Main \notin Stalled
    BY <2>1 DEF Stalled, Requests, Accesses
  <2>3. ~Stays(Main, Stalled, done)
    BY <2>1, <2>2 DEF Stays, Busy, In
  <2>4. ~AsksAgain(Main)
    BY <2>1 DEF AsksAgain, In
  <2>5. QED  BY <1>0, <1>1, <2>3, <2>4
<1>2. CASE q # pc[Main] /\ AsksAgain(Main)
  <2>1. /\ program[Main][pc[Main]-2].op \in {"lock", "look"}
        /\ program[Main][pc[Main]-1].op = "idle"
    BY <1>2, AskingAgain, MainIsPort
  <2>2. q # pc[Main]-2 /\ q # pc[Main]-1
    BY <2>1
  <2>3. QED  BY <1>0, <1>2, <2>2
<1>3. CASE q # pc[Main] /\ ~AsksAgain(Main)
  BY <1>0, <1>3
<1>4. QED  BY <1>1, <1>2, <1>3

Leaving(i, done) == ~Stays(i, Stalled, done) /\ ~AsksAgain(i)

Once == {"store", "arrive", "looked"}

LEMMA InstancePasses ==
  ASSUME PcInv, NEW done \in SUBSET Busy, Clock(done), NEW i \in Instance, pc[i] > 0,
         ~In(i, "return"), NEW p \in DOMAIN program[i], program[i][p].op \in Once
  PROVE  /\ pc'[i] > 0
         /\ p < pc'[i] <=> p < pc[i] \/ (p = pc[i] /\ Leaving(i, done))
<1>0. /\ i \in Port /\ i # Main
      /\ p \in Nat /\ p > 0 /\ pc[i] \in Nat /\ pc'[i] \in Nat
      /\ State(i) = program[i][pc[i]]
      /\ pc'[i] = IF Stays(i, Stalled, done) THEN pc[i]
                  ELSE IF AsksAgain(i) THEN pc[i] - 2 ELSE pc[i] + 1
  <2>1. i \in Port /\ i # Main
    BY DEF Instance
  <2>2. pc'[i] = IF Stays(i, Stalled, done) THEN pc[i] ELSE NextState(i)
    BY <2>1, ClockFacts DEF MoveThreads
  <2>3. QED  BY <2>1, <2>2, PcStep, StateFacts, ProgramFacts DEF NextState
<1>1. CASE AsksAgain(i)
  <2>1. /\ pc[i] > 2 /\ program[i][pc[i]-2].op \in {"lock", "look"}
        /\ program[i][pc[i]-1].op = "idle"
    BY <1>0, <1>1, AskingAgain
  <2>2. p # pc[i]-2 /\ p # pc[i]-1
    BY <2>1 DEF Once
  <2>3. QED  BY <1>0, <1>1, <2>1, <2>2 DEF Leaving
<1>2. CASE ~AsksAgain(i)
  BY <1>0, <1>2 DEF Leaving
<1>3. QED  BY <1>1, <1>2

LEMMA LeavingIs ==
  ASSUME PcInv, NEW i \in Instance, NEW done \in SUBSET Busy
  PROVE  /\ State(i).op \in {"store", "arrive"} => (Leaving(i, done) <=> i \in Granted)
         /\ In(i, "looked") => (Leaving(i, done) <=> LoadData(i) = 0)
<1>0. i \in Port /\ i # Main
  BY DEF Instance
<1>1. ASSUME State(i).op \in {"store", "arrive"} PROVE Leaving(i, done) <=> i \in Granted
  <2>1. i \in Stalled <=> i \notin Granted
    BY <1>0, <1>1 DEF Stalled, Requests, Accesses
  <2>2. QED  BY <1>0, <1>1, <2>1 DEF Leaving, Stays, Busy, In, AsksAgain
<1>2. ASSUME In(i, "looked") PROVE Leaving(i, done) <=> LoadData(i) = 0
  <2>1. i \notin Stalled
    BY <1>2 DEF Stalled, Requests, Accesses, In
  <2>2. QED  BY <1>0, <1>2, <2>1 DEF Leaving, Stays, Busy, In, AsksAgain
<1>3. QED  BY <1>1, <1>2

(***************************************************************************)
(* Runs. The run-time ID is the number of the create, so what is created   *)
(* is started; the last run of an instance is the one that is begun now,   *)
(* or the one that was last before.                                        *)
(***************************************************************************)
LEMMA CreatesNext ==
  ASSUME JoinInv, RunInv, NEW done \in SUBSET Busy, Clock(done)
  PROVE  (IsFiniteSet(Creates) /\ legup_count = Cardinality(Creates))'
<1>0. /\ PcInv /\ pc[Main] > 0 /\ program' = program /\ pc[Main] \in Nat /\ pc'[Main] \in Nat
      /\ pc[Main] \in DOMAIN program[Main] /\ State(Main) = program[Main][pc[Main]]
      /\ pc[Main] <= Len(program[Main]) /\ pc'[Main] <= Len(program[Main])
      /\ DOMAIN program[Main] = 1 .. Len(program[Main])
  BY ClockFacts, PcStep, StateFacts, ProgramFacts, MainIsPort DEF JoinInv
<1>1. legup_count' = IF In(Main, "create") THEN legup_count + 1 ELSE legup_count
  BY DEF Clock, ForkAndJoin
<1>2. \A q \in DOMAIN program[Main] : program[Main][q].op = "create" =>
        /\ q < pc'[Main] <=> q <= pc[Main]
        /\ q = pc[Main] => pc'[Main] = pc[Main] + 1
  BY <1>0, MainPasses
<1>3. Creates' = {o \in 1 .. pc'[Main]-1 : program[Main][o].op = "create"}
  BY <1>0 DEF Creates, Left
<1>4. Creates = {o \in 1 .. pc[Main]-1 : program[Main][o].op = "create"}
  BY DEF Creates, Left
<1>5. ASSUME NEW o
      PROVE  o \in Creates' <=> o \in Creates \/ (o = pc[Main] /\ In(Main, "create"))
  <2>1. o \in Creates' <=>
          o \in 1 .. Len(program[Main]) /\ o < pc'[Main] /\ program[Main][o].op = "create"
    BY <1>0, <1>3
  <2>2. o \in Creates <=>
          o \in 1 .. Len(program[Main]) /\ o < pc[Main] /\ program[Main][o].op = "create"
    BY <1>0, <1>4
  <2>3. In(Main, "create") <=> program[Main][pc[Main]].op = "create"
    BY <1>0 DEF In
  <2>4. o \in 1 .. Len(program[Main]) => (o <= pc[Main] <=> o < pc[Main] \/ o = pc[Main])
    BY <1>0
  <2>5. QED  BY <1>0, <1>2, <2>1, <2>2, <2>3, <2>4
<1>6. CASE In(Main, "create")
  <2>1. Creates' = Creates \cup {pc[Main]}
    BY <1>5, <1>6
  <2>2. pc[Main] \notin Creates
    BY <1>0, <1>4
  <2>3. IsFiniteSet(Creates) /\ legup_count = Cardinality(Creates)
    BY DEF RunInv
  <2>4. /\ IsFiniteSet(Creates \cup {pc[Main]})
        /\ Cardinality(Creates \cup {pc[Main]}) = Cardinality(Creates) + 1
    BY <2>2, <2>3, FS_AddElement
  <2>5. QED  BY <1>1, <1>6, <2>1, <2>3, <2>4
<1>7. CASE ~In(Main, "create")
  <2>1. Creates' = Creates
    BY <1>5, <1>7
  <2>2. IsFiniteSet(Creates) /\ legup_count = Cardinality(Creates)
    BY DEF RunInv
  <2>3. QED  BY <1>1, <1>7, <2>1, <2>2
<1>8. QED  BY <1>6, <1>7

LEMMA BeginsStarts ==
  ASSUME RunsAreJoined, JoinInv, RunInv, NEW i \in Instance
  PROVE  i \in Starts <=> Begins(i, pc[Main])
<1>0. /\ PcInv /\ pc[Main] > 0 /\ pc[Main] \in Nat
      /\ pc[Main] \in DOMAIN program[Main] /\ State(Main) = program[Main][pc[Main]]
      /\ State(Main) \in Steps /\ program \in Programs
      /\ StartsAreLowered(program[Main])
  BY StateFacts, ProgramFacts, MainIsPort, ProgramsAssumption DEF JoinInv, PcInv
<1>1. CASE In(Main, "create")
  <2>1. State(Main).arg =
          1 + Cardinality({o \in 1 .. pc[Main]-1 : program[Main][o].op = "create"})
    BY <1>0, <1>1 DEF RunsAreJoined, In
  <2>2. {o \in 1 .. pc[Main]-1 : program[Main][o].op = "create"} = Creates
    BY DEF Creates, Left
  <2>3. legup_count = Cardinality(Creates) /\ legup_count \in Nat /\ i \in Nat
    BY PortsAssumption DEF RunInv, JoinInv, Instance, Port
  <2>4. State(Main).arg = 1 + legup_count
    BY <2>1, <2>2, <2>3
  <2>5. i \in Starts <=> State(Main).arg = i
    BY <1>1, <2>3, <2>4 DEF Starts, In
  <2>6. Begins(i, pc[Main]) <=> State(Main).arg = i
    BY <1>0, <1>1 DEF Begins, In, Create, Fork, Steps
  <2>7. QED  BY <2>5, <2>6
<1>2. CASE In(Main, "fork")
  <2>1. State(Main) = Fork
    BY <1>0, <1>2 DEF StartsAreLowered, In
  <2>2. QED  BY <1>0, <1>2, <2>1 DEF Begins, Starts
<1>3. CASE ~In(Main, "create") /\ ~In(Main, "fork")
  BY <1>0, <1>3 DEF Begins, Starts, In, Create, Fork
<1>4. QED  BY <1>1, <1>2, <1>3

LEMMA LastNext ==
  ASSUME RunsAreJoined, JoinInv, RunInv, NEW done \in SUBSET Busy, Clock(done),
         NEW i \in Instance, NEW q
  PROVE  /\ Begins(i, q)' <=> Begins(i, q)
         /\ Begins(i, q) /\ q \in DOMAIN program[Main] =>
              (q < pc'[Main] <=> q < pc[Main] \/ q = pc[Main])
         /\ Last(i, q)' <=> IF i \in Starts THEN q = pc[Main] ELSE Last(i, q)
<1>0. /\ PcInv /\ pc[Main] > 0 /\ program' = program /\ pc[Main] \in Nat /\ pc'[Main] \in Nat
      /\ pc[Main] \in DOMAIN program[Main] /\ State(Main) = program[Main][pc[Main]]
      /\ pc[Main] <= Len(program[Main]) /\ pc'[Main] <= Len(program[Main])
      /\ DOMAIN program[Main] = 1 .. Len(program[Main]) /\ Len(program[Main]) \in Nat
  BY ClockFacts, PcStep, StateFacts, ProgramFacts, MainIsPort DEF JoinInv
<1>1. \A o : Begins(i, o)' <=> Begins(i, o)
  BY <1>0 DEF Begins
<1>2. \A o \in 1 .. Len(program[Main]) : Begins(i, o) =>
         /\ o < pc'[Main] <=> o <= pc[Main]
         /\ o = pc[Main] => pc'[Main] = pc[Main] + 1
  BY <1>0, MainPasses DEF Begins, Create, Fork
<1>3. i \in Starts <=> Begins(i, pc[Main])
  BY BeginsStarts
<1>4. Last(i, q) <=> /\ q \in 1 .. Len(program[Main]) /\ q < pc[Main] /\ Begins(i, q)
                     /\ \A o \in 1 .. Len(program[Main]) : q < o /\ o < pc[Main] =>
                          ~Begins(i, o)
  BY <1>0 DEF Last, Left
<1>5. Last(i, q)' <=> /\ q \in 1 .. Len(program[Main]) /\ q < pc'[Main] /\ Begins(i, q)
                      /\ \A o \in 1 .. Len(program[Main]) : q < o /\ o < pc'[Main] =>
                           ~Begins(i, o)
  <2>1. Last(i, q)' <=> /\ q \in 1 .. pc'[Main]-1 /\ Begins(i, q)
                        /\ \A o \in q+1 .. pc'[Main]-1 : ~Begins(i, o)
    BY <1>0, <1>1 DEF Last, Left
  <2>2. QED  BY <1>0, <2>1
<1> HIDE DEF Begins, Last
<1>6. Begins(i, q) /\ q \in DOMAIN program[Main] =>
        (q < pc'[Main] <=> q < pc[Main] \/ q = pc[Main])
  BY <1>0, <1>2
<1>7. CASE i \in Starts
  <2>1. Begins(i, pc[Main]) /\ pc[Main] \in 1 .. Len(program[Main]) /\ pc[Main] < pc'[Main]
    BY <1>0, <1>2, <1>3, <1>7
  <2>2. q = pc[Main] => Last(i, q)'
    BY <1>0, <1>2, <1>5, <2>1
  <2>3. Last(i, q)' => q = pc[Main]
    BY <1>0, <1>2, <1>5, <2>1
  <2>4. QED  BY <1>1, <1>6, <1>7, <2>2, <2>3
<1>8. CASE i \notin Starts
  <2>1. \A o \in 1 .. Len(program[Main]) : Begins(i, o) => (o < pc'[Main] <=> o < pc[Main])
    BY <1>0, <1>2, <1>3, <1>8
  <2>2. Last(i, q)' <=> Last(i, q)
    BY <1>4, <1>5, <2>1
  <2>3. QED  BY <1>1, <1>6, <1>8, <2>2
<1>9. QED  BY <1>7, <1>8

LEMMA LastIsOne ==
  ASSUME PcInv, NEW i \in Instance, NEW q, NEW o, Last(i, q), Last(i, o)
  PROVE  q = o
BY ProgramFacts, MainIsPort DEF Last, Left

LEMMA RunPreserved ==
  ASSUME RunsAreJoined, JoinInv, RunInv, NEW done \in SUBSET Busy, Clock(done)
  PROVE  RunInv'
<1>1. ASSUME NEW i \in Instance, pc'[i] > 0 \/ i \in start' PROVE \E q : Last(i, q)'
  <2>1. CASE i \in Starts
    BY <2>1, LastNext
  <2>2. CASE i \notin Starts
    <3>1. pc[i] > 0 \/ i \in start
      BY <1>1, <2>2, InstanceStep DEF JoinInv
    <3>2. PICK q : Last(i, q)
      BY <3>1 DEF RunInv
    <3>3. QED  BY <2>2, <3>2, LastNext
  <2>3. QED  BY <2>1, <2>2
<1>2. \A i \in Instance : pc'[i] > 0 \/ i \in start' => \E q \in Left(Main)' : Last(i, q)'
  BY <1>1 DEF Last
<1>3. QED  BY <1>2, CreatesNext DEF RunInv, Instance, Port

LEMMA ProgressNext ==
  ASSUME JoinInv, NEW done \in SUBSET Busy, Clock(done),
         NEW i \in Instance, NEW p \in DOMAIN program[i], program[i][p].op \in Once
  PROVE  /\ i \in Starts => p < Progress(i) /\ ~(p < Progress(i)')
         /\ i \notin Starts =>
              (p < Progress(i)' <=> p < Progress(i) \/ (p = pc[i] /\ Leaving(i, done)))
<1>0. /\ PcInv /\ pc[Main] > 0 /\ program' = program /\ i \in Port /\ StartInv(i)
      /\ pc[i] \in Nat /\ pc'[i] \in Nat /\ p \in Nat /\ p > 0 /\ Len(program[i]) \in Nat
      /\ p <= Len(program[i]) /\ pc[i] <= Len(program[i])
      /\ pc[i] > 0 => State(i) = program[i][pc[i]]
  BY ClockFacts, PcStep, StateFacts, ProgramFacts DEF JoinInv, Instance
<1>1. Progress(i)' = IF pc'[i] > 0 THEN pc'[i]
                     ELSE IF i \in start' THEN 1 ELSE Len(program[i]) + 1
  BY <1>0 DEF Progress
<1>2. CASE i \in Starts
  <2>1. AtRest(i)
    BY <1>2, StartedAtRest
  <2>2. pc[i] = 0 /\ i \notin start /\ pc'[i] = 0 /\ i \in start'
    BY <1>0, <1>2, <2>1, InstanceStep DEF AtRest
  <2>3. Progress(i) = Len(program[i]) + 1 /\ Progress(i)' = 1
    BY <1>1, <2>2 DEF Progress
  <2>4. QED  BY <1>0, <1>2, <2>3
<1>3. CASE i \notin Starts /\ pc[i] = 0
  <2>1. CASE i \in start
    <3>1. Progress(i) = 1
      BY <1>3, <2>1 DEF Progress
    <3>2. (In(Main, "created") /\ State(Main).arg = i) \/ In(Main, "await")
      BY <1>0, <2>1 DEF StartInv
    <3>3. i \in Started
      BY <3>2 DEF Started
    <3>4. pc'[i] = 1
      <4>1. State(i) = Wait
        BY <1>3 DEF State
      <4>2. i \notin Stalled
        BY <4>1 DEF Stalled, Requests, Accesses, Wait
      <4>3. ~Stays(i, Stalled, done)
        BY <1>0, <2>1, <4>1, <4>2 DEF Stays, Busy, In, Wait, Instance
      <4>4. pc'[i] = NextState(i)
        BY <1>0, <4>3, ClockFacts DEF MoveThreads
      <4>5. QED  BY <1>3, <4>1, <4>4 DEF NextState, In, Wait, AsksAgain
    <3>5. Progress(i)' = 1
      BY <1>1, <3>4
    <3>6. QED  BY <1>0, <1>3, <3>1, <3>5
  <2>2. CASE i \notin start
    <3>1. pc'[i] = 0 /\ i \notin start'
      BY <1>0, <1>3, <2>2, InstanceStep
    <3>2. Progress(i) = Len(program[i]) + 1 /\ Progress(i)' = Len(program[i]) + 1
      BY <1>1, <1>3, <2>2, <3>1 DEF Progress
    <3>3. QED  BY <1>0, <1>3, <3>2
  <2>3. QED  BY <2>1, <2>2
<1>4. CASE i \notin Starts /\ pc[i] > 0 /\ In(i, "return")
  <2>1. pc[i] = Len(program[i])
    BY <1>0, <1>4, LoadsEnd DEF In
  <2>2. pc'[i] = 0 /\ i \notin start'
    BY <1>0, <1>4, InstanceStep DEF StartInv
  <2>3. Progress(i) = pc[i] /\ Progress(i)' = Len(program[i]) + 1
    BY <1>1, <1>4, <2>2 DEF Progress
  <2>4. p # pc[i]
    BY <1>0, <1>4 DEF In, Once
  <2>5. QED  BY <1>0, <1>4, <2>1, <2>3, <2>4
<1>5. CASE i \notin Starts /\ pc[i] > 0 /\ ~In(i, "return")
  <2>1. pc'[i] > 0 /\ (p < pc'[i] <=> p < pc[i] \/ (p = pc[i] /\ Leaving(i, done)))
    BY <1>0, <1>5, InstancePasses
  <2>2. Progress(i) = pc[i] /\ Progress(i)' = pc'[i]
    BY <1>1, <1>5, <2>1 DEF Progress
  <2>3. QED  BY <1>5, <2>1, <2>2
<1>6. QED  BY <1>0, <1>2, <1>3, <1>4, <1>5

(***************************************************************************)
(* The increments done after an edge of the clock are those done before    *)
(* and the one that is granted, of which there is one at most.             *)
(***************************************************************************)
LEMMA IncrementsAre ==
  ASSUME PcInv, NEW a, NEW u
  PROVE  u \in Increments(a) <=>
           \E i \in Instance : \E p \in DOMAIN program[i] : \E q \in DOMAIN program[Main] :
             u = <<i, p, q>> /\ program[i][p] = Increment(a) /\ Begins(i, q)
<1>1. Increments(a) =
  UNION {{<<i, p, q>> : p \in {p \in DOMAIN program[i] : program[i][p] = Increment(a)},
                        q \in {q \in DOMAIN program[Main] : Begins(i, q)}} :
         i \in Instance}
  BY DEF Increments, Begins
<1> HIDE DEF Increments, Begins
<1>2. QED  BY <1>1

\* the increment that is granted the port now
Granting(a) ==
  {u \in Increments(a) : u[1] \in Granted /\ u[2] = pc[u[1]] /\ Last(u[1], u[3])}

LEMMA DoneNext ==
  ASSUME RunsAreJoined, JoinInv, RunInv, NEW done \in SUBSET Busy, Clock(done), NEW a
  PROVE  Done(a)' = Done(a) \cup Granting(a) /\ Done(a) \cap Granting(a) = {}
<1>0. PcInv /\ program' = program /\ pc[Main] \in Nat /\ pc'[Main] \in Nat
  BY ClockFacts, PcStep, ProgramFacts, MainIsPort DEF JoinInv
<1>1. Increments(a)' = Increments(a)
  BY <1>0 DEF Increments
<1>2. ASSUME NEW i \in Instance, NEW p \in DOMAIN program[i], NEW q \in DOMAIN program[Main],
             program[i][p] = Increment(a), Begins(i, q)
      PROVE  /\ <<i, p, q>> \in Done(a)' <=> q < pc'[Main] /\ (Last(i, q)' => p < Progress(i)')
             /\ <<i, p, q>> \in Done(a) <=> q < pc[Main] /\ (Last(i, q) => p < Progress(i))
             /\ <<i, p, q>> \in Granting(a) <=> i \in Granted /\ p = pc[i] /\ Last(i, q)
             /\ q < pc'[Main] /\ (Last(i, q)' => p < Progress(i)') <=>
                  \/ q < pc[Main] /\ (Last(i, q) => p < Progress(i))
                  \/ i \in Granted /\ p = pc[i] /\ Last(i, q)
             /\ p = pc[i] => ~(p < Progress(i))
  <2>1. <<i, p, q>> \in Increments(a)
    BY <1>0, <1>2, IncrementsAre
  <2>2. <<i, p, q>> \in Done(a)' <=> q < pc'[Main] /\ (Last(i, q)' => p < Progress(i)')
    <3>1. Done(a)' = {u \in Increments(a) :
             u[3] < pc'[Main] /\ (Last(u[1], u[3])' => u[2] < Progress(u[1])')}
      <4>1. \A v, w : Last(v, w)' <=> w \in Left(Main)' /\ Begins(v, w)'
                                      /\ \A o \in w+1 .. pc'[Main]-1 : ~Begins(v, o)'
        BY DEF Last
      <4>2. QED  BY <1>1 DEF Done, Last, Progress, Left, Begins
    <3>2. QED  BY <2>1, <3>1
  <2>3. <<i, p, q>> \in Done(a) <=> q < pc[Main] /\ (Last(i, q) => p < Progress(i))
    BY <2>1 DEF Done
  <2>4. <<i, p, q>> \in Granting(a) <=> i \in Granted /\ p = pc[i] /\ Last(i, q)
    BY <2>1 DEF Granting
  <2>5. program[i][p].op = "store" /\ p > 0 /\ p \in Nat
    BY <1>0, <1>2, ProgramFacts DEF Increment, Instance
  <2>6. /\ q < pc'[Main] <=> q < pc[Main] \/ q = pc[Main]
        /\ Last(i, q)' <=> IF i \in Starts THEN q = pc[Main] ELSE Last(i, q)
        /\ i \in Starts <=> Begins(i, pc[Main])
    BY <1>2, LastNext, BeginsStarts
  <2>7. Last(i, q) => q < pc[Main]
    BY <1>0 DEF Last, Left
  <2>8. p = pc[i] => ~(p < Progress(i))
    BY <2>5 DEF Progress
  <2>9. q < pc'[Main] /\ (Last(i, q)' => p < Progress(i)') <=>
                  \/ q < pc[Main] /\ (Last(i, q) => p < Progress(i))
                  \/ i \in Granted /\ p = pc[i] /\ Last(i, q)
    <3>1. CASE i \in Starts
      <4>1. p < Progress(i) /\ ~(p < Progress(i)')
        BY <2>5, <3>1, ProgressNext DEF Once
      <4>2. p # pc[i]
        BY <2>8, <4>1
      <4>3. q = pc[Main] => ~(q < pc[Main])
        BY <1>0
      <4>4. QED  BY <2>6, <3>1, <4>1, <4>2, <4>3
    <3>2. CASE i \notin Starts
      <4>0. p = pc[i] => (Leaving(i, done) <=> i \in Granted)
        BY <1>0, <2>5, LeavingIs, StateFacts DEF Instance
      <4>1. p < Progress(i)' <=> p < Progress(i) \/ (p = pc[i] /\ i \in Granted)
        BY <2>5, <3>2, <4>0, ProgressNext DEF Once
      <4>2. q # pc[Main]
        BY <1>2, <2>6, <3>2
      <4>3. QED  BY <2>6, <2>7, <3>2, <4>1, <4>2
    <3>3. QED  BY <3>1, <3>2
  <2>10. QED  BY <2>2, <2>3, <2>4, <2>8, <2>9
<1>3. ASSUME NEW u \in Increments(a)
      PROVE  /\ u \in Done(a)' <=> u \in Done(a) \/ u \in Granting(a)
             /\ ~(u \in Done(a) /\ u \in Granting(a))
  <2>1. PICK i \in Instance : \E p \in DOMAIN program[i] : \E q \in DOMAIN program[Main] :
          u = <<i, p, q>> /\ program[i][p] = Increment(a) /\ Begins(i, q)
    BY <1>0, <1>3, IncrementsAre
  <2>2. QED  BY ONLY <1>2, <2>1
<1>4. /\ Done(a)' \subseteq Increments(a) /\ Done(a) \subseteq Increments(a)
      /\ Granting(a) \subseteq Increments(a)
  BY <1>1 DEF Done, Granting
<1>5. QED  BY <1>3, <1>4

LEMMA GrantingIs ==
  ASSUME JoinInv, RunInv, NEW a
  PROVE  \/ /\ \E u : Granting(a) = {u}
            /\ \E i \in Instance \cap Granted : State(i) = Increment(a)
         \/ /\ Granting(a) = {}
            /\ \A i \in Instance \cap Granted : State(i) # Increment(a)
<1>0. PcInv
  BY DEF JoinInv
<1>1. ASSUME NEW i \in Instance \cap Granted, State(i) = Increment(a)
      PROVE  \E u : Granting(a) = {u}
  <2>1. pc[i] > 0 /\ program[i][pc[i]] = Increment(a) /\ pc[i] \in DOMAIN program[i]
    <3>1. i \in Port /\ State(i).op = "store"
      BY <1>1 DEF Instance, Increment
    <3>2. pc[i] > 0
      BY <1>0, <3>1, StateFacts, ProgramFacts
    <3>3. QED  BY <1>0, <1>1, <3>1, <3>2, StateFacts, ProgramFacts
  <2>2. PICK q \in Left(Main) : Last(i, q)
    BY <2>1 DEF RunInv
  <2>3. q \in DOMAIN program[Main] /\ Begins(i, q)
    BY <1>0, <2>2, ProgramFacts, MainIsPort DEF Last, Left
  <2>4. <<i, pc[i], q>> \in Increments(a)
    BY <1>0, <2>1, <2>3, IncrementsAre
  <2>5. <<i, pc[i], q>> \in Granting(a)
    BY <2>2, <2>4 DEF Granting
  <2>6. ASSUME NEW u \in Granting(a) PROVE u = <<i, pc[i], q>>
    <3>1. u \in Increments(a) /\ u[1] \in Granted /\ u[2] = pc[u[1]] /\ Last(u[1], u[3])
      BY <2>6 DEF Granting
    <3>2. PICK j \in Instance : \E p, o : u = <<j, p, o>>
      BY <1>0, <3>1, IncrementsAre
    <3>3. PICK o : u = <<j, pc[j], o>> /\ j \in Granted /\ Last(j, o)
      BY <3>1, <3>2
    <3>4. j = i
      BY <3>3, <1>1, GrantsOne DEF Granted, Requests
    <3>5. o = q
      BY <1>0, <2>2, <3>3, <3>4, LastIsOne
    <3>6. QED  BY <3>3, <3>4, <3>5
  <2>7. QED  BY <2>5, <2>6
<1>2. ASSUME \A i \in Instance \cap Granted : State(i) # Increment(a)
      PROVE  Granting(a) = {}
  <2>1. SUFFICES ASSUME NEW u \in Granting(a) PROVE FALSE
    OBVIOUS
  <2>2. u \in Increments(a) /\ u[1] \in Granted /\ u[2] = pc[u[1]]
    BY DEF Granting
  <2>3. PICK j \in Instance :
          \E p \in DOMAIN program[j] : \E o : u = <<j, p, o>> /\ program[j][p] = Increment(a)
    BY <1>0, <2>2, IncrementsAre
  <2>4. /\ j \in Granted /\ j \in Port
        /\ pc[j] \in DOMAIN program[j] /\ program[j][pc[j]] = Increment(a)
    BY <2>2, <2>3 DEF Instance
  <2>5. pc[j] > 0
    BY <1>0, <2>4, ProgramFacts
  <2>6. State(j) = Increment(a)
    BY <1>0, <2>4, <2>5, StateFacts
  <2>7. QED  BY <1>2, <2>3, <2>4, <2>6
<1>3. QED  BY <1>1, <1>2

(***************************************************************************)
(* An increment is, from its load on, inside the lock of its word: two     *)
(* instances are never there together.                                     *)
(***************************************************************************)
LEMMA UpdatesExclude ==
  ASSUME UpdatesAreGuarded, IInv, NEW a \in Address, NEW i \in Instance, NEW j \in Instance,
         NEW p \in DOMAIN program[i], program[i][p] = Increment(a), pc[i] \in p-3 .. p,
         NEW o \in DOMAIN program[j], program[j][o] = Increment(a), pc[j] \in o-3 .. o
  PROVE  i = j
<1>0. /\ PcInv /\ program \in Programs /\ i \in Port /\ j \in Port
      /\ p \in Nat /\ o \in Nat /\ pc[i] \in Nat /\ pc[j] \in Nat
  BY ProgramFacts DEF IInv, PcInv, Instance
<1>1. PICK k : /\ Guarded(program[i], p, k)
               /\ Guarded(program[j], o, k)
  BY <1>0 DEF UpdatesAreGuarded
<1>2. k \in Core /\ Inside(i, k)
  <2>1. PICK q \in 1 .. p-4 : /\ program[i][q] = LockTest(k)
                              /\ \A c \in q .. p : program[i][c] # Unlock(k)
    BY <1>1 DEF Guarded
  <2>2. q \in 1 .. pc[i]-1 /\ \A c \in q .. pc[i]-1 : c \in q .. p
    BY <1>0, <2>1
  <2>3. QED  BY <1>1, <2>1, <2>2 DEF Guarded, Inside, Left
<1>3. Inside(j, k)
  <2>1. PICK q \in 1 .. o-4 : /\ program[j][q] = LockTest(k)
                              /\ \A c \in q .. o : program[j][c] # Unlock(k)
    BY <1>1 DEF Guarded
  <2>2. q \in 1 .. pc[j]-1 /\ \A c \in q .. pc[j]-1 : c \in q .. o
    BY <1>0, <2>1
  <2>3. QED  BY <1>1, <2>1, <2>2 DEF Guarded, Inside, Left
<1>4. QED  BY <1>0, <1>2, <1>3 DEF IInv, HolderInv, Holding

(***************************************************************************)
(* What is written to a word: zero where it was zero, or one more than it  *)
(* holds.                                                                  *)
(***************************************************************************)
LEMMA WriterOfMemory ==
  ASSUME PcInv, UpdatesAreGuarded, NEW r \in Port,
         AccessOf(r).kind = "write", AccessOf(r).device = "memory"
  PROVE  LET a == AccessOf(r).index
         IN  /\ a = State(r).arg
             /\ \/ State(r) = Fill(a) /\ AccessOf(r).data = 0
                \/ /\ State(r) = Increment(a) /\ r \in Instance
                   /\ AccessOf(r).data = loadReg[r] + 1
<1>1. /\ In(r, "store") \/ In(r, "fill")
      /\ AccessOf(r).index = State(r).arg
      /\ In(r, "store") => AccessOf(r).data = loadReg[r] + 1
      /\ In(r, "fill") => AccessOf(r).data = 0
  BY DEF AccessOf, Access, NoAccess, In
<1>2. /\ State(r) \in Steps /\ pc[r] > 0
      /\ State(r) = program[r][pc[r]] /\ pc[r] \in DOMAIN program[r]
  BY <1>1, StateFacts, ProgramFacts DEF In, Wait
<1>3. State(r) = [op |-> State(r).op, arg |-> State(r).arg]
  BY <1>2 DEF Steps
<1>4. ASSUME In(r, "store") PROVE r \in Instance
  BY <1>2, <1>4 DEF UpdatesAreGuarded, PcInv, In, Instance
<1>5. QED  BY <1>1, <1>3, <1>4 DEF Fill, Increment, In

LEMMA FilledStaysZero ==
  ASSUME PcInv, UpdatesAreGuarded, CountInv, NEW r \in Port, NEW a \in Address,
         State(r) = Fill(a)
  PROVE  memory[a] = 0
<1>1. pc[r] \in DOMAIN program[r] /\ program[r][pc[r]] = Fill(a)
  <2>1. State(r).op = "fill"
    BY DEF Fill
  <2>2. QED  BY <2>1, StateFacts, ProgramFacts
<1>2. /\ InitialWord[a] = 0
      /\ \A i \in Port : \A o \in DOMAIN program[i] : program[i][o] # Increment(a)
  BY <1>1 DEF UpdatesAreGuarded, PcInv
<1>3. Increments(a) = {}
  BY <1>2, IncrementsAre DEF Instance
<1>4. Done(a) = {}
  BY <1>3 DEF Done
<1>5. QED  BY <1>2, <1>4, FS_EmptySet DEF CountInv

LEMMA MemoryNext ==
  ASSUME UpdatesAreGuarded, IInv, ValueInv, CountInv, NEW done \in SUBSET Busy, Clock(done)
  PROVE  /\ memory' \in [Address -> Nat]
         /\ \A a \in Address :
              /\ (\E i \in Instance \cap Granted : State(i) = Increment(a)) =>
                   memory'[a] = memory[a] + 1
              /\ ~(\E i \in Instance \cap Granted : State(i) = Increment(a)) =>
                   memory'[a] = memory[a]
<1>0. /\ PcInv /\ program \in Programs /\ memory \in [Address -> Nat]
  BY DEF IInv, PcInv, CountInv
<1> DEFINE acc == Served(Granted)
<1>1. memory' = IF acc.kind = "write" /\ acc.device = "memory"
                THEN [memory EXCEPT ![acc.index] = acc.data] ELSE memory
  BY DEF Clock, MemoryClock
<1>2. ASSUME NEW r \in Granted, NEW i \in Granted PROVE r \in Port /\ i = r
  BY GrantsOne DEF Granted, Requests
<1>3. ASSUME NEW i \in Instance \cap Granted, NEW a \in Address, State(i) = Increment(a)
      PROVE  /\ acc.kind = "write" /\ acc.device = "memory" /\ acc.index = a
             /\ acc.data = memory[a] + 1
  <2>1. acc = AccessOf(i) /\ i \in Port
    BY ServedIs DEF Instance
  <2>2. acc = Access("write", "memory", a, FALSE, loadReg[i] + 1)
    BY <1>3, <2>1 DEF AccessOf, In, Increment
  <2>3. pc[i] \in DOMAIN program[i] /\ program[i][pc[i]] = Increment(a)
    <3>1. State(i).op = "store"
      BY <1>3 DEF Increment
    <3>2. QED  BY <1>0, <1>3, <2>1, <3>1, StateFacts, ProgramFacts
  <2>4. loadReg[i] = memory[a]
    BY <2>3 DEF ValueInv
  <2>5. QED  BY <2>2, <2>4 DEF Access
<1>4. ASSUME acc.kind = "write", acc.device = "memory", acc.index \in Address,
             ~(\E i \in Instance \cap Granted : State(i) = Increment(acc.index))
      PROVE  acc.data = memory[acc.index]
  <2>1. Granted # {}
    BY <1>4 DEF Served, NoAccess, Access
  <2>2. PICK r \in Granted : acc = AccessOf(r)
    BY <2>1, ServedIs
  <2>3. State(r) = Fill(acc.index) /\ acc.data = 0
    BY <1>0, <1>2, <1>4, <2>2, WriterOfMemory
  <2>4. memory[acc.index] = 0
    BY <1>0, <1>2, <1>4, <2>3, FilledStaysZero
  <2>5. QED  BY <2>3, <2>4
<1> HIDE DEF acc
<1>5. ASSUME NEW a \in Address
      PROVE  /\ (\E i \in Instance \cap Granted : State(i) = Increment(a)) =>
                  memory'[a] = memory[a] + 1
             /\ ~(\E i \in Instance \cap Granted : State(i) = Increment(a)) =>
                  memory'[a] = memory[a]
  <2>1. CASE \E i \in Instance \cap Granted : State(i) = Increment(a)
    BY <1>0, <1>1, <1>3, <2>1
  <2>2. CASE ~\E i \in Instance \cap Granted : State(i) = Increment(a)
    <3>1. CASE acc.kind = "write" /\ acc.device = "memory" /\ acc.index = a
      <4>1. acc.data = memory[a]
        BY <1>4, <2>2, <3>1
      <4>2. QED  BY <1>0, <1>1, <2>2, <3>1, <4>1
    <3>2. CASE ~(acc.kind = "write" /\ acc.device = "memory" /\ acc.index = a)
      BY <1>0, <1>1, <2>2, <3>2
    <3>3. QED  BY <3>1, <3>2
  <2>3. QED  BY <2>1, <2>2
<1>6. memory' \in [Address -> Nat]
  <2>1. memory' = [a \in Address |-> memory'[a]]
    BY <1>0, <1>1
  <2>2. \A a \in Address : memory'[a] \in Nat
    BY <1>0, <1>5
  <2>3. QED  BY <2>1, <2>2
<1>7. QED  BY <1>5, <1>6

(***************************************************************************)
(* Where an instance was that is now between the load of an increment and  *)
(* its store; the value loaded stays that of the word.                     *)
(***************************************************************************)
LEMMA BeforeUpdate ==
  ASSUME UpdatesAreGuarded, PcInv, NEW done \in SUBSET Busy, Clock(done),
         NEW i \in Instance, NEW a \in Address,
         NEW p \in DOMAIN program[i], program[i][p] = Increment(a), pc'[i] \in p-2 .. p
  PROVE  /\ pc'[i] = p-2 => pc[i] = p-3 /\ i \in Granted /\ State(i) = Load(a)
         /\ pc'[i] = p-1 => pc[i] = p-2 /\ State(i).op = "idle"
         /\ pc'[i] = p => /\ pc[i] = p-1 => State(i).op = "idle" /\ Ends(i)
                          /\ pc[i] # p-1 => pc[i] = p /\ i \in Stalled /\ ~Ends(i)
<1>0. /\ program \in Programs /\ i \in Port /\ p \in Nat /\ pc[i] \in Nat /\ pc'[i] \in Nat
      /\ p <= Len(program[i]) /\ Len(program[i]) \in Nat
      /\ pc[i] > 0 => State(i) = program[i][pc[i]]
      /\ \/ Moves(i)
         \/ pc'[i] = pc[i] /\ Stays(i, Stalled, done)
  BY PcStep, StateFacts, ProgramFacts DEF PcInv, Instance
<1>1. /\ p > 4 /\ program[i][p-3] = Load(a) /\ program[i][p].op = "store"
      /\ program[i][p-2].op = "idle" /\ program[i][p-1].op = "idle"
  <2>1. PICK k : Guarded(program[i], p, k)
    BY <1>0 DEF UpdatesAreGuarded
  <2>2. program[i][p].op = "store" /\ program[i][p].arg = a
    BY DEF Increment
  <2>3. QED  BY <2>1, <2>2 DEF Guarded
<1>2. ~(pc'[i] = pc[i] - 2 /\ AsksAgain(i))
  <2>1. SUFFICES ASSUME pc'[i] = pc[i] - 2, AsksAgain(i) PROVE FALSE
    OBVIOUS
  <2>2. program[i][pc'[i]].op \in {"lock", "look"}
    BY <1>0, <2>1, AskingAgain
  <2>3. pc'[i] \in {p-2, p-1, p}
    BY <1>0
  <2>4. QED  BY <1>1, <2>2, <2>3
<1>3. ASSUME pc'[i] = pc[i] + 1, i \notin Stalled
      PROVE  /\ pc'[i] = p-2 => pc[i] = p-3 /\ i \in Granted /\ State(i) = Load(a)
             /\ pc'[i] = p-1 => pc[i] = p-2 /\ State(i).op = "idle"
             /\ pc'[i] = p => pc[i] = p-1 /\ State(i).op = "idle" /\ Ends(i)
  <2>1. ASSUME pc'[i] = p-2 PROVE pc[i] = p-3 /\ i \in Granted /\ State(i) = Load(a)
    <3>1. pc[i] = p-3 /\ State(i) = Load(a)
      BY <1>0, <1>1, <1>3, <2>1
    <3>2. i \in Requests
      BY <1>0, <3>1 DEF Requests, Accesses, Load
    <3>3. QED  BY <1>3, <3>1, <3>2 DEF Stalled
  <2>2. ASSUME pc'[i] = p-1 PROVE pc[i] = p-2 /\ State(i).op = "idle"
    BY <1>0, <1>1, <1>3, <2>2
  <2>3. ASSUME pc'[i] = p PROVE pc[i] = p-1 /\ State(i).op = "idle" /\ Ends(i)
    <3>1. pc[i] = p-1 /\ State(i).op = "idle" /\ pc[i]-2 = p-3
      BY <1>0, <1>1, <1>3, <2>3
    <3>2. program[i][p-3].op \in Reads
      BY <1>1 DEF Load, Reads
    <3>3. pc[i] > 2
      BY <1>0, <1>1, <3>1
    <3>4. QED  BY <3>1, <3>2, <3>3 DEF Ends
  <2>4. QED  BY <2>1, <2>2, <2>3
<1>4. ASSUME pc'[i] = pc[i], Stays(i, Stalled, done)
      PROVE  pc'[i] = p /\ i \in Stalled /\ ~Ends(i)
  <2>1. State(i) = program[i][pc[i]] /\ pc[i] \in {p-2, p-1, p}
    BY <1>0, <1>1, <1>4
  <2>2. i \in Stalled
    BY <1>0, <1>1, <1>4, <2>1 DEF Stays, Busy, In
  <2>3. State(i).op \in Accesses
    BY <2>2 DEF Stalled, Requests
  <2>4. pc[i] = p
    BY <1>1, <2>1, <2>3 DEF Accesses
  <2>5. ~Ends(i)
    BY <1>1, <2>4 DEF Ends, Reads
  <2>6. QED  BY <1>4, <2>2, <2>4, <2>5
<1>6. (pc'[i] = pc[i] + 1 /\ i \notin Stalled) \/ (pc'[i] = pc[i] /\ Stays(i, Stalled, done))
  BY <1>0, <1>1, <1>2 DEF Moves
<1>7. QED  BY <1>0, <1>3, <1>4, <1>6

LEMMA ValuePreserved ==
  ASSUME UpdatesAreGuarded, IInv, ValueInv, CountInv, NEW done \in SUBSET Busy, Clock(done)
  PROVE  ValueInv'
<1> SUFFICES ASSUME NEW i \in Instance, NEW a \in Address, NEW p \in DOMAIN program[i],
                    program[i][p] = Increment(a)
             PROVE  /\ pc'[i] = p-2 => OnItsWay(i, memory[a])'
                    /\ pc'[i] = p-1 => Arrived(i, memory[a])'
                    /\ pc'[i] = p   => loadReg'[i] = memory'[a]
  <2>1. program' = program
    BY ClockFacts
  <2>2. QED  BY <2>1 DEF ValueInv, Instance, Port
<1>0. /\ PcInv /\ program \in Programs /\ i \in Port /\ i # Main /\ p \in Nat
      /\ pc[i] \in Nat /\ pc'[i] \in Nat
      /\ pc[i] > 0 => State(i) = program[i][pc[i]]
  BY PcStep, StateFacts, ProgramFacts DEF IInv, PcInv, Instance
<1>1. /\ p > 4 /\ program[i][p].op = "store"
  BY <1>0 DEF UpdatesAreGuarded, Guarded, Increment
\* nobody else writes the word
<1>2. ASSUME pc[i] \in p-3 .. p, i \notin Granted \/ State(i).op # "store"
      PROVE  memory'[a] = memory[a]
  <2>1. SUFFICES ASSUME NEW j \in Instance \cap Granted, State(j) = Increment(a) PROVE FALSE
    BY MemoryNext
  <2>2. pc[j] \in DOMAIN program[j] /\ program[j][pc[j]] = Increment(a) /\ State(j).op = "store"
    <3>1. State(j).op = "store" /\ j \in Port
      BY <2>1 DEF Increment, Instance
    <3>2. QED  BY <1>0, <2>1, <3>1, StateFacts, ProgramFacts
  <2>3. pc[j] \in pc[j]-3 .. pc[j]
    BY <1>0, <2>2, ProgramFacts DEF Instance
  <2>4. j = i
    BY <1>2, <2>2, <2>3, UpdatesExclude
  <2>5. QED  BY <1>2, <2>1, <2>2, <2>4
<1>3. PICK e : e = memory[a]
  OBVIOUS
<1>4. ASSUME pc'[i] = p-2 PROVE OnItsWay(i, memory[a])'
  <2>1. pc[i] = p-3 /\ i \in Granted /\ State(i) = Load(a)
    BY <1>0, <1>1, <1>4, BeforeUpdate
  <2>2. memory'[a] = e
    BY <1>0, <1>1, <1>2, <1>3, <2>1 DEF Load
  <2>3. AccessOf(i) = Access("read", "memory", a, FALSE, 0)
    BY <2>1 DEF AccessOf, In, Load
  <2>4. Answer(Served(Granted)) = e
    BY <1>3, <2>1, <2>3, ServedIs DEF Answer, Access
  <2>5. memory_reg' = e
    BY <2>4, ClockFacts
  <2>6. i \in ReadRequests /\ i \notin Stalled
    BY <1>0, <2>1 DEF ReadRequests, Reads, Load, Stalled
  <2>7. i \in dataReady0' /\ i \in first_state_after_memory_read'
    BY <1>0, <2>1, <2>6, OutNext, ShiftNext
  <2>8. OnItsWay(i, e)'
    BY <2>5, <2>7 DEF OnItsWay
  <2>9. QED  BY <2>2, <2>8 DEF OnItsWay
<1>5. ASSUME pc'[i] = p-1 PROVE Arrived(i, memory[a])'
  <2>1. pc[i] = p-2 /\ State(i).op = "idle"
    BY <1>0, <1>1, <1>5, BeforeUpdate
  <2>2. memory'[a] = e
    BY <1>0, <1>1, <1>2, <1>3, <2>1
  <2>3. OnItsWay(i, e)
    BY <1>3, <2>1 DEF ValueInv
  <2>4. Out(i)' = e
    BY <1>0, <2>3, OutNext DEF OnItsWay
  <2>5. i \notin Stalled
    BY <2>1 DEF Stalled, Requests, Accesses
  <2>6. i \in second_state_after_memory_read' /\ i \in waitrequest_inverted_reg'
    BY <1>0, <2>3, <2>5, ShiftNext DEF OnItsWay
  <2>7. Arrived(i, e)'
    BY <1>0, <2>4, <2>6 DEF Arrived, LoadData, Stored, Valid
  <2>8. QED  BY <2>2, <2>7 DEF Arrived
<1>6. ASSUME pc'[i] = p PROVE loadReg'[i] = memory'[a]
  <2>0. loadReg'[i] = IF Ends(i) THEN LoadData(i) ELSE loadReg[i]
    BY <1>0 DEF Clock, LoadRegisters
  <2>1. CASE pc[i] = p-1
    <3>1. State(i).op = "idle" /\ Ends(i)
      BY <1>0, <1>1, <1>6, <2>1, BeforeUpdate
    <3>2. Arrived(i, memory[a])
      BY <2>1 DEF ValueInv
    <3>3. LoadData(i) = memory[a]
      BY <3>2 DEF Arrived
    <3>4. memory'[a] = memory[a]
      BY <1>0, <1>1, <1>2, <2>1, <3>1
    <3>5. QED  BY <2>0, <3>1, <3>3, <3>4
  <2>2. CASE pc[i] # p-1
    <3>1. pc[i] = p /\ i \in Stalled /\ ~Ends(i)
      BY <1>0, <1>1, <1>6, <2>2, BeforeUpdate
    <3>2. loadReg[i] = memory[a]
      BY <3>1 DEF ValueInv
    <3>3. i \notin Granted
      BY <3>1 DEF Stalled
    <3>4. memory'[a] = memory[a]
      BY <1>0, <1>1, <1>2, <3>1, <3>3
    <3>5. QED  BY <2>0, <3>1, <3>2, <3>4
  <2>3. QED  BY <2>1, <2>2
<1>7. QED  BY <1>4, <1>5, <1>6

LEMMA CountPreserved ==
  ASSUME UpdatesAreGuarded, RunsAreJoined, IInv, JoinInv, RunInv, ValueInv, CountInv,
         NEW done \in SUBSET Busy, Clock(done)
  PROVE  CountInv'
<1>1. ASSUME NEW a \in Address
      PROVE  IsFiniteSet(Done(a)') /\ memory'[a] = InitialWord[a] + Cardinality(Done(a)')
  <2>1. /\ IsFiniteSet(Done(a)) /\ memory[a] = InitialWord[a] + Cardinality(Done(a))
        /\ InitialWord[a] \in Nat
    BY WordsAssumption DEF CountInv
  <2>2. Done(a)' = Done(a) \cup Granting(a) /\ Done(a) \cap Granting(a) = {}
    BY DoneNext
  <2>3. CASE \E i \in Instance \cap Granted : State(i) = Increment(a)
    <3>1. PICK u : Granting(a) = {u}
      BY <2>3, GrantingIs
    <3>2. u \notin Done(a) /\ Done(a)' = Done(a) \cup {u}
      BY <2>2, <3>1
    <3>3. IsFiniteSet(Done(a)') /\ Cardinality(Done(a)') = Cardinality(Done(a)) + 1
      BY <2>1, <3>2, FS_AddElement
    <3>4. memory'[a] = memory[a] + 1
      BY <2>3, MemoryNext
    <3>5. Cardinality(Done(a)) \in Nat
      BY <2>1, FS_CardinalityType
    <3>6. QED  BY <2>1, <3>3, <3>4, <3>5
  <2>4. CASE ~\E i \in Instance \cap Granted : State(i) = Increment(a)
    <3>1. Granting(a) = {}
      BY <2>4, GrantingIs
    <3>2. Done(a)' = Done(a)
      BY <2>2, <3>1
    <3>3. memory'[a] = memory[a]
      BY <2>4, MemoryNext
    <3>4. QED  BY <2>1, <3>2, <3>3
  <2>5. QED  BY <2>3, <2>4
<1>2. QED  BY <1>1, MemoryNext DEF CountInv

(***************************************************************************)
(* When the main thread returns, every run has been joined and has ended.  *)
(***************************************************************************)
LEMMA EndOfCount ==
  ASSUME RunsAreJoined, IInv, JoinInv, CountInv, In(Main, "return"), NEW a \in Address
  PROVE  Done(a) = Increments(a)
<1>0. /\ PcInv /\ pc[Main] > 0 /\ pc[Main] \in Nat /\ Len(program[Main]) \in Nat
      /\ program \in Programs
      /\ DOMAIN program[Main] = 1 .. Len(program[Main])
      /\ State(Main) = program[Main][pc[Main]] /\ pc[Main] <= Len(program[Main])
      /\ StartsAreLowered(program[Main])
  BY StateFacts, ProgramFacts, MainIsPort, ProgramsAssumption DEF JoinInv, PcInv
<1>1. pc[Main] = Len(program[Main])
  BY <1>0, LoadsEnd, MainIsPort DEF In
<1>2. ASSUME NEW i \in Instance, NEW p \in DOMAIN program[i], NEW q \in DOMAIN program[Main],
             Begins(i, q)
      PROVE  q < pc[Main] /\ (Last(i, q) => p < Progress(i))
  <2>1. q < pc[Main]
    <3>1. program[Main][q].op # "return"
      BY <1>2 DEF Begins, Create, Fork
    <3>2. QED  BY <1>0, <1>1, <3>1 DEF In
  <2>2. SUFFICES ASSUME Last(i, q) PROVE p < Progress(i)
    BY <2>1
  <2>3. \A o \in q+1 .. pc[Main]-1 : program[Main][o] \notin {Create(i), Fork}
    BY <2>2 DEF Last, Begins
  <2>4. \E o \in q+1 .. pc[Main]-1 : program[Main][o] \in {Join(i), Await}
    <3>1. CASE program[Main][q] = Create(i)
      <4>0. program[Main][q].op = "create" /\ program[Main][q].arg = i
        BY <3>1 DEF Create
      <4>1. PICK o \in q+1 .. Len(program[Main]) : program[Main][o] = Join(i)
        BY <1>0, <4>0 DEF RunsAreJoined
      <4>2. o # Len(program[Main])
        BY <1>0, <1>1, <4>1 DEF In, Join
      <4>3. QED  BY <1>0, <1>1, <4>1, <4>2
    <3>2. CASE program[Main][q] = Fork
      <4>1. q < Len(program[Main]) /\ program[Main][q+1] = Await
        BY <1>0, <3>2 DEF StartsAreLowered, Fork
      <4>2. q+1 # Len(program[Main])
        BY <1>0, <1>1, <4>1 DEF In, Await
      <4>3. QED  BY <1>0, <1>1, <4>1, <4>2
    <3>3. QED  BY <1>2, <3>1, <3>2 DEF Begins
  <2>5. Joined(i)
    <3>1. PICK o \in q+1 .. pc[Main]-1 : program[Main][o] \in {Join(i), Await}
      BY <2>4
    <3>2. o \in 1 .. pc[Main]-1 /\ \A c \in o .. pc[Main]-1 : c \in q+1 .. pc[Main]-1
      BY <1>0, <3>1
    <3>3. QED  BY <2>3, <3>1, <3>2 DEF Joined, Left
  <2>6. pc[i] = 0 /\ i \notin start
    BY <2>5 DEF JoinInv, AtRest
  <2>7. QED  BY <1>0, <2>6, ProgramFacts DEF Progress, Instance
<1>3. ASSUME NEW u \in Increments(a) PROVE u \in Done(a)
  <2>1. PICK i \in Instance : \E p \in DOMAIN program[i] : \E q \in DOMAIN program[Main] :
          u = <<i, p, q>> /\ Begins(i, q)
    BY <1>0, <1>3, IncrementsAre
  <2>2. u[3] < pc[Main] /\ (Last(u[1], u[3]) => u[2] < Progress(u[1]))
    BY <1>2, <2>1
  <2>3. QED  BY <1>3, <2>2 DEF Done
<1>4. QED  BY <1>3 DEF Done

(***************************************************************************)
(* The parts of the invariant that other theorems use, and the whole.      *)
(***************************************************************************)
LEMMA RunInitHolds == Init => RunInv
<1> SUFFICES ASSUME Init PROVE RunInv
  OBVIOUS
<1>1. /\ pc[Main] = 1 /\ start = {} /\ legup_count = 0
      /\ \A i \in Instance : pc[i] = 0
  BY MainIsPort DEF Init, Instance
<1>2. Creates = {}
  BY <1>1 DEF Creates, Left
<1>3. QED  BY <1>1, <1>2, FS_EmptySet DEF RunInv

LEMMA RunStutters == RunInv /\ UNCHANGED vars => RunInv'
BY DEF RunInv, Creates, Last, Begins, Left, vars, threadVars, Instance, Port

LEMMA CountingStarts ==
  ASSUME UpdatesAreGuarded
  PROVE  Init => ValueInv /\ CountInv
<1> SUFFICES ASSUME Init PROVE ValueInv /\ CountInv
  OBVIOUS
<1>0. /\ PcInv /\ pc[Main] = 1 /\ program \in Programs
      /\ \A i \in Instance : pc[i] = 0
      /\ memory = InitialWord
  BY InitHolds, MainIsPort DEF Init, IInv, Instance
<1>1. ValueInv
  <2> SUFFICES ASSUME NEW i \in Instance, NEW a \in Address, NEW p \in DOMAIN program[i],
                      program[i][p] = Increment(a)
               PROVE  p \in Nat /\ p > 4
    BY <1>0 DEF ValueInv
  <2>1. PICK k : Guarded(program[i], p, k)
    BY <1>0 DEF UpdatesAreGuarded
  <2>2. QED  BY <1>0, <2>1, ProgramFacts DEF Guarded, Instance
<1>2. CountInv
  <2>1. ASSUME NEW a PROVE Done(a) = {}
    <3>1. ASSUME NEW u \in Done(a) PROVE FALSE
      <4>1. u \in Increments(a) /\ u[3] < 1
        BY <1>0, <3>1 DEF Done
      <4>2. PICK i \in Instance : \E p \in DOMAIN program[i] : \E q \in DOMAIN program[Main] :
              u = <<i, p, q>>
        BY <1>0, <4>1, IncrementsAre
      <4>3. u[3] \in DOMAIN program[Main]
        BY <4>2
      <4>4. QED  BY <1>0, <4>1, <4>3, ProgramFacts, MainIsPort
    <3>2. QED  BY <3>1
  <2>2. memory \in [Address -> Nat]
    BY <1>0, WordsAssumption
  <2>3. \A a \in Address : InitialWord[a] + 0 = InitialWord[a]
    BY WordsAssumption
  <2>4. QED  BY <1>0, <2>1, <2>2, <2>3, FS_EmptySet DEF CountInv
<1>3. QED  BY <1>1, <1>2

(***************************************************************************)
(* When the main thread returns, every increment of every run of an        *)
(* instance is in the memory: none is lost and none is done twice.         *)
(***************************************************************************)
THEOREM UpdatesAreCounted ==
  ASSUME UpdatesAreGuarded, RunsAreJoined
  PROVE  Spec => []NoUpdateIsLost
<1>1. Init => UpdateInv
  BY InitHolds, JoinInitHolds, RunInitHolds, CountingStarts DEF UpdateInv
<1>2. UpdateInv /\ [Next]_vars => UpdateInv'
  <2> SUFFICES ASSUME UpdateInv, [Next]_vars PROVE UpdateInv'
    OBVIOUS
  <2>1. IInv' /\ JoinInv'
    BY StepHolds, JoinStepHolds DEF UpdateInv, IInv
  <2>2. CASE UNCHANGED vars
    <3>1. RunInv'
      BY <2>2, RunStutters DEF UpdateInv
    <3>2. ValueInv'
      <4>1. ASSUME NEW i, NEW a
            PROVE  /\ OnItsWay(i, memory[a])' <=> OnItsWay(i, memory[a])
                   /\ Arrived(i, memory[a])' <=> Arrived(i, memory[a])
        BY <2>2 DEF OnItsWay, Arrived, Out, LoadData, Stored, Valid, vars, threadVars
      <4>2. pc' = pc /\ program' = program /\ memory' = memory /\ loadReg' = loadReg
        BY <2>2 DEF vars, threadVars
      <4>3. QED  BY <4>1, <4>2 DEF UpdateInv, ValueInv, Instance, Port
    <3>3. CountInv'
      <4>1. \A a : Done(a)' = Done(a)
        BY <2>2 DEF Done, Increments, Last, Begins, Progress, Left, vars, threadVars,
                    Instance, Port
      <4>2. memory' = memory
        BY <2>2 DEF vars, threadVars
      <4>3. QED  BY <4>1, <4>2 DEF UpdateInv, CountInv
    <3>4. QED  BY <2>1, <3>1, <3>2, <3>3 DEF UpdateInv
  <2>3. ASSUME NEW done \in SUBSET Busy, Clock(done) PROVE UpdateInv'
    BY <2>1, <2>3, RunPreserved, ValuePreserved, CountPreserved DEF UpdateInv
  <2>4. QED  BY <2>2, <2>3 DEF Next
<1>3. UpdateInv => NoUpdateIsLost
  <2> SUFFICES ASSUME UpdateInv, In(Main, "return"), NEW a \in Address
               PROVE  memory[a] = InitialWord[a] + Cardinality(Increments(a))
    BY DEF NoUpdateIsLost
  <2>1. Done(a) = Increments(a)
    BY EndOfCount DEF UpdateInv
  <2>2. QED  BY <2>1 DEF UpdateInv, CountInv
<1>4. QED  BY <1>1, <1>2, <1>3, PTL DEF Spec

-----------------------------------------------------------------------------
(***************************************************************************)
(* The barrier. Rounds are counted by the arrivals and passes an instance  *)
(* has behind it in its run (Where is the state it is at, 1 before it has  *)
(* run). In round n everybody has arrived n or n+1 times and passed n      *)
(* times at most, and the counter of the core is how many have arrived n+1 *)
(* times (Round). A look that the core answered with 0 was answered in a   *)
(* round its reader has not passed, and stays true while the answer is on  *)
(* its way, because no round ends before all have arrived (LookedInv).     *)
(***************************************************************************)
HasRun(i) == \E q \in Left(Main) : Begins(i, q)

Where(i) == IF HasRun(i) THEN Progress(i) ELSE 1

Arrivals(i) == {o \in DOMAIN program[i] : program[i][o].op = "arrive" /\ o < Where(i)}

Passes(i) == {o \in DOMAIN program[i] : program[i][o].op = "looked" /\ o < Where(i)}

Round(n) ==
  /\ \A i \in Instance : /\ Cardinality(Arrivals(i)) \in {n, n+1}
                         /\ Cardinality(Passes(i)) <= n
  /\ barrier_count = Cardinality({i \in Instance : Cardinality(Arrivals(i)) = n+1})

LookedInv(n) ==
  \A i \in Instance : \A p \in DOMAIN program[i] : program[i][p].op = "looked" =>
    /\ pc[i] = p-1 => /\ i \in first_state_after_memory_read
                      /\ OnItsWay(i, 0) => Cardinality(Passes(i)) < n
    /\ pc[i] = p   => /\ i \in second_state_after_memory_read
                      /\ LoadData(i) = 0 => Cardinality(Passes(i)) < n

\* past its set-up the core has the number of the instances
InitialisedInv ==
  \A b \in DOMAIN program[Main] :
    program[Main][b].op = "init" /\ pc[Main] > b => numthreads = N-1

BarrierInv ==
  Meeting(program) => InitialisedInv /\ \E n \in Nat : Round(n) /\ LookedInv(n)

(***************************************************************************)
(* The run of an instance, after an edge of the clock.                     *)
(***************************************************************************)
LEMMA CreatedOnce ==
  ASSUME RunsAreJoined, PcInv, NEW i, NEW q \in DOMAIN program[Main],
         NEW o \in DOMAIN program[Main],
         q < o, program[Main][q] = Create(i)
  PROVE  program[Main][o] # Create(i)
<1>0. /\ program \in Programs /\ q \in Nat /\ o \in Nat
      /\ DOMAIN program[Main] = 1 .. Len(program[Main])
  BY ProgramFacts, MainIsPort DEF PcInv
<1> DEFINE before(p) == {c \in 1 .. p-1 : program[Main][c].op = "create"}
<1>1. SUFFICES ASSUME program[Main][o] = Create(i) PROVE FALSE
  OBVIOUS
<1>2. /\ program[Main][q].op = "create" /\ program[Main][q].arg = i
      /\ program[Main][o].op = "create" /\ program[Main][o].arg = i
  BY <1>1 DEF Create
<1>3. 1 + Cardinality(before(q)) = 1 + Cardinality(before(o))
  BY <1>0, <1>2 DEF RunsAreJoined
<1>4. IsFiniteSet(before(q)) /\ IsFiniteSet(before(o))
  <2>0. 1 \in Int /\ o-1 \in Int /\ q-1 \in Int
    BY <1>0
  <2>1. IsFiniteSet(1 .. o-1) /\ IsFiniteSet(1 .. q-1)
    BY ONLY <2>0, FS_Interval
  <2>2. before(o) \in SUBSET (1 .. o-1) /\ before(q) \in SUBSET (1 .. q-1)
    OBVIOUS
  <2>3. QED  BY <2>1, <2>2, FS_Subset
<1>5. Cardinality(before(q)) \in Nat /\ Cardinality(before(o)) \in Nat
  BY <1>4, FS_CardinalityType
<1>6. before(q) \in SUBSET before(o) /\ q \in before(o) /\ q \notin before(q)
  BY <1>0, <1>2
<1> HIDE DEF before
<1>7. Cardinality(before(q)) = Cardinality(before(o))
  BY <1>3, <1>5
<1>8. QED  BY <1>4, <1>6, <1>7, FS_Subset

LEMMA HasRunNext ==
  ASSUME RunsAreJoined, JoinInv, RunInv, NEW done \in SUBSET Busy, Clock(done),
         NEW i \in Instance
  PROVE  HasRun(i)' <=> HasRun(i) \/ i \in Starts
<1>0. /\ PcInv /\ program' = program /\ pc[Main] \in Nat /\ pc'[Main] \in Nat
      /\ pc[Main] <= Len(program[Main]) /\ pc'[Main] <= Len(program[Main])
      /\ DOMAIN program[Main] = 1 .. Len(program[Main]) /\ Len(program[Main]) \in Nat
      /\ pc[Main] > 0
  BY ClockFacts, PcStep, ProgramFacts, MainIsPort DEF JoinInv
<1>1. HasRun(i)' <=> \E q \in 1 .. Len(program[Main]) : q < pc'[Main] /\ Begins(i, q)
  BY <1>0 DEF HasRun, Left, Begins
<1>2. HasRun(i) <=> \E q \in 1 .. Len(program[Main]) : q < pc[Main] /\ Begins(i, q)
  BY <1>0 DEF HasRun, Left
<1>3. \A q \in 1 .. Len(program[Main]) :
        Begins(i, q) => (q < pc'[Main] <=> q < pc[Main] \/ q = pc[Main])
  BY <1>0, LastNext
<1>4. i \in Starts <=> Begins(i, pc[Main])
  BY BeginsStarts
<1> HIDE DEF HasRun, Begins
<1>5. QED  BY <1>0, <1>1, <1>2, <1>3, <1>4

LEMMA WhereIs ==
  ASSUME JoinInv, RunInv, NEW i \in Instance
  PROVE  /\ Where(i) \in 1 .. Len(program[i])+1
         /\ pc[i] > 0 => HasRun(i) /\ Where(i) = pc[i]
         /\ AtRest(i) => Where(i) \in {1, Len(program[i])+1}
<1>0. PcInv /\ pc[i] \in Nat /\ pc[i] <= Len(program[i]) /\ Len(program[i]) \in Nat
  BY ProgramFacts DEF JoinInv, Instance
<1>1. pc[i] > 0 => HasRun(i)
  BY DEF RunInv, HasRun, Last
<1>2. QED  BY <1>0, <1>1 DEF Where, Progress, AtRest

LEMMA WhereNext ==
  ASSUME RunsAreJoined, JoinInv, RunInv, NEW done \in SUBSET Busy, Clock(done),
         NEW i \in Instance
  PROVE  /\ i \in Starts => Where(i)' = 1
         /\ i \in Starts /\ ~In(Main, "fork") => Where(i) = 1
         /\ i \notin Starts => \A p \in DOMAIN program[i] : program[i][p].op \in Once =>
              (p < Where(i)' <=> p < Where(i) \/ (p = pc[i] /\ Leaving(i, done)))
<1>0. /\ PcInv /\ program' = program /\ pc[Main] > 0 /\ pc[Main] \in DOMAIN program[Main]
      /\ State(Main) = program[Main][pc[Main]] /\ pc[Main] \in Nat
      /\ DOMAIN program[Main] = 1 .. Len(program[Main]) /\ Len(program[Main]) \in Nat
      /\ pc[Main] <= Len(program[Main])
  BY ClockFacts, StateFacts, ProgramFacts, MainIsPort DEF JoinInv
<1>1. HasRun(i)' <=> HasRun(i) \/ i \in Starts
  BY HasRunNext
<1>2. ASSUME i \in Starts PROVE Where(i)' = 1
  <2>1. AtRest(i)
    BY <1>2, StartedAtRest
  <2>2. pc'[i] = 0 /\ i \in start'
    BY <1>0, <1>2, <2>1, InstanceStep DEF AtRest
  <2>3. Progress(i)' = 1
    BY <2>2 DEF Progress
  <2>4. QED  BY <2>3 DEF Where
<1>3. ASSUME i \in Starts, ~In(Main, "fork") PROVE Where(i) = 1
  <2>1. State(Main) = Create(i) /\ ~Blocking
    BY <1>0, <1>3, StartingState DEF In, Fork
  <2>2. ASSUME HasRun(i) PROVE FALSE
    <3>1. PICK q \in 1 .. pc[Main]-1 : Begins(i, q)
      BY <2>2 DEF HasRun, Left
    <3>2. q \in DOMAIN program[Main] /\ q < pc[Main]
      BY <1>0
    <3>3. program[Main][q] # Fork
      BY <1>0, <2>1, <3>2 DEF Blocking
    <3>4. program[Main][q] = Create(i)
      BY <3>1, <3>3 DEF Begins
    <3>5. QED  BY <1>0, <2>1, <3>2, <3>4, CreatedOnce
  <2>3. QED  BY <2>2 DEF Where
<1>4. ASSUME i \notin Starts, NEW p \in DOMAIN program[i], program[i][p].op \in Once
      PROVE  p < Where(i)' <=> p < Where(i) \/ (p = pc[i] /\ Leaving(i, done))
  <2>0. p \in Nat /\ p > 0
    BY <1>0, ProgramFacts DEF Instance
  <2>1. CASE HasRun(i)
    <3>1. Where(i) = Progress(i) /\ Where(i)' = Progress(i)'
      BY <1>1, <2>1 DEF Where
    <3>2. QED  BY <1>4, <3>1, ProgressNext
  <2>2. CASE ~HasRun(i)
    <3>1. Where(i) = 1 /\ Where(i)' = 1
      BY <1>1, <1>4, <2>2 DEF Where
    <3>2. p # pc[i]
      BY <2>0, <2>2, WhereIs
    <3>3. QED  BY <2>0, <3>1, <3>2
  <2>3. QED  BY <2>1, <2>2
<1>5. QED  BY <1>2, <1>3, <1>4

(***************************************************************************)
(* Arrivals and passes are counted as the program gives them, and grow by  *)
(* the arrival that is granted and the pass that is read.                  *)
(***************************************************************************)
LEMMA Turns ==
  ASSUME JoinInv, RunInv, AllMeet, Meeting(program), NEW i \in Instance
  PROVE  /\ IsFiniteSet(Arrivals(i)) /\ Cardinality(Arrivals(i)) \in Nat
         /\ IsFiniteSet(Passes(i)) /\ Cardinality(Passes(i)) \in Nat
         /\ Where(i) \in {1, Len(program[i])+1} =>
              Cardinality(Arrivals(i)) = Cardinality(Passes(i))
         /\ pc[i] > 0 /\ In(i, "arrive") => Cardinality(Arrivals(i)) = Cardinality(Passes(i))
         /\ pc[i] > 0 /\ In(i, "look") => Cardinality(Arrivals(i)) = Cardinality(Passes(i)) + 1
         /\ Where(i) = 1 => Arrivals(i) = {} /\ Passes(i) = {}
<1>0. /\ PcInv /\ program \in Programs /\ TakesTurns(program[i])
      /\ DOMAIN program[i] = 1 .. Len(program[i]) /\ Len(program[i]) \in Nat
      /\ pc[i] \in Nat /\ pc[i] <= Len(program[i])
      /\ pc[i] > 0 => State(i) = program[i][pc[i]]
  BY StateFacts, ProgramFacts DEF JoinInv, PcInv, AllMeet, Instance
<1>1. Where(i) \in 1 .. Len(program[i])+1 /\ (pc[i] > 0 => Where(i) = pc[i])
  BY WhereIs
<1>2. /\ Arrivals(i) = {o \in 1 .. Where(i)-1 : program[i][o].op = "arrive"}
      /\ Passes(i) = {o \in 1 .. Where(i)-1 : program[i][o].op = "looked"}
  BY <1>0, <1>1 DEF Arrivals, Passes
<1> DEFINE w == Where(i)
<1>3. /\ w > Len(program[i]) => Cardinality(Arrivals(i)) = Cardinality(Passes(i))
      /\ w <= Len(program[i]) =>
           /\ program[i][w].op = "arrive" => Cardinality(Arrivals(i)) = Cardinality(Passes(i))
           /\ program[i][w].op \in {"look", "looked"} =>
                Cardinality(Arrivals(i)) = Cardinality(Passes(i)) + 1
  BY <1>0, <1>1, <1>2 DEF TakesTurns
<1> HIDE DEF w
<1>4. IsFiniteSet(Arrivals(i)) /\ IsFiniteSet(Passes(i))
  <2>1. IsFiniteSet(1 .. Where(i)-1)
    BY <1>0, <1>1, FS_Interval
  <2>2. Arrivals(i) \in SUBSET (1 .. Where(i)-1) /\ Passes(i) \in SUBSET (1 .. Where(i)-1)
    BY <1>2
  <2>3. QED  BY <2>1, <2>2, FS_Subset
<1>5. Where(i) = 1 => Arrivals(i) = {} /\ Passes(i) = {}
  BY <1>2
<1>6. Where(i) = Len(program[i])+1 => Cardinality(Arrivals(i)) = Cardinality(Passes(i))
  BY <1>0, <1>3 DEF w
<1>7. ASSUME pc[i] > 0
      PROVE  /\ In(i, "arrive") => Cardinality(Arrivals(i)) = Cardinality(Passes(i))
             /\ In(i, "look") => Cardinality(Arrivals(i)) = Cardinality(Passes(i)) + 1
  BY <1>0, <1>1, <1>3, <1>7 DEF w, In
<1>8. QED  BY <1>4, <1>5, <1>6, <1>7, FS_CardinalityType

LEMMA ArrivalsNext ==
  ASSUME RunsAreJoined, AllMeet, Meeting(program), JoinInv, RunInv, NEW done \in SUBSET Busy,
         Clock(done), ~In(Main, "fork"), NEW i \in Instance
  PROVE  /\ Arrivals(i)' = IF In(i, "arrive") /\ i \in Granted THEN Arrivals(i) \cup {pc[i]}
                           ELSE Arrivals(i)
         /\ pc[i] \notin Arrivals(i)
         /\ Passes(i)' = IF In(i, "looked") /\ LoadData(i) = 0 THEN Passes(i) \cup {pc[i]}
                         ELSE Passes(i)
         /\ pc[i] \notin Passes(i)
<1>0. /\ PcInv /\ program' = program /\ pc[i] \in Nat /\ pc[i] <= Len(program[i])
      /\ DOMAIN program[i] = 1 .. Len(program[i]) /\ Len(program[i]) \in Nat
      /\ pc[i] > 0 => State(i) = program[i][pc[i]]
      /\ pc[i] = 0 <=> State(i).op = "wait"
      /\ Where(i) \in Nat
      /\ pc[i] > 0 => Where(i) = pc[i]
  BY ClockFacts, StateFacts, ProgramFacts, WhereIs DEF JoinInv, Instance
<1>1. /\ Arrivals(i)' = {o \in DOMAIN program[i] : program[i][o].op = "arrive" /\ o < Where(i)'}
      /\ Passes(i)' = {o \in DOMAIN program[i] : program[i][o].op = "looked" /\ o < Where(i)'}
  BY <1>0 DEF Arrivals, Passes
<1>2. pc[i] \notin Arrivals(i) /\ pc[i] \notin Passes(i)
  BY <1>0 DEF Arrivals, Passes
<1>3. CASE i \in Starts
  <2>1. Where(i) = 1 /\ Where(i)' = 1
    BY <1>3, WhereNext
  <2>2. AtRest(i)
    BY <1>3, StartedAtRest
  <2>3. ~In(i, "arrive") /\ ~In(i, "looked")
    BY <1>0, <2>2 DEF AtRest, In
  <2>4. Arrivals(i)' = Arrivals(i) /\ Passes(i)' = Passes(i)
    BY <1>0, <1>1, <2>1 DEF Arrivals, Passes
  <2>5. QED  BY <1>2, <2>3, <2>4
<1>4. CASE i \notin Starts
  <2>1. \A p \in DOMAIN program[i] : program[i][p].op \in Once =>
           (p < Where(i)' <=> p < Where(i) \/ (p = pc[i] /\ Leaving(i, done)))
    BY <1>4, WhereNext
  <2>2. /\ In(i, "arrive") => (Leaving(i, done) <=> i \in Granted)
        /\ In(i, "looked") => (Leaving(i, done) <=> LoadData(i) = 0)
    BY <1>0, LeavingIs DEF In
  <2>3. ASSUME NEW o
        PROVE  /\ o \in Arrivals(i)' <=>
                    o \in Arrivals(i) \/ (o = pc[i] /\ In(i, "arrive") /\ i \in Granted)
               /\ o \in Passes(i)' <=>
                    o \in Passes(i) \/ (o = pc[i] /\ In(i, "looked") /\ LoadData(i) = 0)
    <3>1. In(i, "arrive") \/ In(i, "looked") => pc[i] \in DOMAIN program[i]
      BY <1>0 DEF In
    <3>2. /\ In(i, "arrive") <=> pc[i] \in DOMAIN program[i] /\ program[i][pc[i]].op = "arrive"
          /\ In(i, "looked") <=> pc[i] \in DOMAIN program[i] /\ program[i][pc[i]].op = "looked"
      BY <1>0, <3>1 DEF In
    <3>3. /\ o \in Arrivals(i) <=>
               o \in DOMAIN program[i] /\ program[i][o].op = "arrive" /\ o < Where(i)
          /\ o \in Passes(i) <=>
               o \in DOMAIN program[i] /\ program[i][o].op = "looked" /\ o < Where(i)
      BY DEF Arrivals, Passes
    <3>4. {"arrive", "looked"} \subseteq Once
      BY DEF Once
    <3>5. QED  BY <1>1, <2>1, <2>2, <3>2, <3>3, <3>4
  <2>4. QED  BY <1>2, <2>3
<1>5. QED  BY <1>3, <1>4

(***************************************************************************)
(* What is written to the core.                                            *)
(***************************************************************************)
LEMMA Instances == IsFiniteSet(Instance) /\ Cardinality(Instance) = N-1 /\ Instance # {}
<1>1. N \in Nat /\ N >= 2 /\ 1 \in Int /\ N-1 \in Int
  BY PortsAssumption
<1>2. Instance = 1 .. N-1
  BY <1>1 DEF Instance, Port, Main
<1>3. IsFiniteSet(1 .. N-1) /\ Cardinality(1 .. N-1) = IF 1 > N-1 THEN 0 ELSE (N-1)-1+1
  BY ONLY <1>1, FS_Interval
<1>4. 1 \in 1 .. N-1
  BY <1>1
<1>5. QED  BY <1>1, <1>2, <1>3, <1>4

LEMMA BarrierNext ==
  ASSUME PcInv, AllMeet, Meeting(program), NEW done \in SUBSET Busy, Clock(done)
  PROVE  /\ barrier_count' = IF \E i \in Instance \cap Granted : In(i, "arrive")
                             THEN barrier_count + 1
                             ELSE IF barrier_count = numthreads THEN 0 ELSE barrier_count
         /\ numthreads' = IF Main \in Granted /\ In(Main, "init") THEN N-1 ELSE numthreads
<1> DEFINE acc == Served(Granted)
<1>0. /\ numthreads' = IF acc.device = "barrier" /\ acc.kind = "write" /\ acc.status = FALSE
                       THEN acc.data ELSE numthreads
      /\ barrier_count' = IF acc.device = "barrier" /\ acc.kind = "write" /\ acc.status = TRUE
                          THEN barrier_count + 1
                          ELSE IF barrier_count = numthreads THEN 0 ELSE barrier_count
  BY DEF Clock, SyncClock, BarrierClock, BarrierWrite, NextCount
<1>1. \A r \in Granted : r \in Port /\ acc = AccessOf(r)
  BY ServedIs DEF Requests
<1>2. ASSUME NEW r \in Granted
      PROVE  /\ In(r, "arrive") <=>
                  acc.device = "barrier" /\ acc.kind = "write" /\ acc.status = TRUE
             /\ In(r, "init") <=>
                  acc.device = "barrier" /\ acc.kind = "write" /\ acc.status = FALSE
             /\ In(r, "init") => acc.data = State(r).arg
  BY <1>1 DEF AccessOf, Access, NoAccess, In
<1>3. Granted = {} => acc.kind = "none"
  BY DEF Served, NoAccess, Access
<1>4. \A r, s \in Granted : r = s
  BY GrantsOne DEF Granted, Requests
<1>5. program \in Programs
  BY DEF PcInv
<1>6. ASSUME NEW r \in Granted, In(r, "arrive") PROVE r \in Instance
  <2>1. pc[r] \in DOMAIN program[r] /\ program[r][pc[r]].op = "arrive"
    BY <1>1, <1>6, StateFacts, ProgramFacts DEF In
  <2>2. QED  BY <1>1, <1>5, <2>1 DEF AllMeet, Instance
<1>7. ASSUME NEW r \in Granted, In(r, "init") PROVE r = Main /\ State(r).arg = N-1
  <2>1. /\ pc[r] \in DOMAIN program[r] /\ program[r][pc[r]].op = "init"
        /\ State(r) = program[r][pc[r]]
    BY <1>1, <1>7, StateFacts, ProgramFacts DEF In
  <2>2. r = Main
    BY <1>1, <1>5, <2>1 DEF AllMeet, Instance
  <2>3. QED  BY <1>5, <2>1, <2>2 DEF AllMeet, BarrierInit
<1> HIDE DEF acc
<1>8. barrier_count' = IF \E i \in Instance \cap Granted : In(i, "arrive")
                       THEN barrier_count + 1
                       ELSE IF barrier_count = numthreads THEN 0 ELSE barrier_count
  <2>1. (\E i \in Instance \cap Granted : In(i, "arrive"))
          <=> acc.device = "barrier" /\ acc.kind = "write" /\ acc.status = TRUE
    BY <1>2, <1>3, <1>6
  <2>2. QED  BY <1>0, <2>1
<1>9. numthreads' = IF Main \in Granted /\ In(Main, "init") THEN N-1 ELSE numthreads
  <2>1. CASE Main \in Granted /\ In(Main, "init")
    BY <1>0, <1>2, <1>7, <2>1
  <2>2. CASE ~(Main \in Granted /\ In(Main, "init"))
    <3>1. ~(acc.device = "barrier" /\ acc.kind = "write" /\ acc.status = FALSE)
      BY <1>2, <1>3, <1>7, <2>2
    <3>2. QED  BY <1>0, <2>2, <3>1
  <2>3. QED  BY <2>1, <2>2
<1>10. QED  BY <1>8, <1>9

LEMMA InitialisedPreserved ==
  ASSUME JoinInv, AllMeet, Meeting(program), InitialisedInv, NEW done \in SUBSET Busy,
         Clock(done)
  PROVE  InitialisedInv'
<1>0. /\ PcInv /\ program' = program /\ pc[Main] > 0 /\ pc[Main] \in Nat
      /\ State(Main) = program[Main][pc[Main]]
      /\ pc'[Main] = IF Stays(Main, Stalled, done) THEN pc[Main]
                     ELSE IF AsksAgain(Main) THEN pc[Main] - 2 ELSE pc[Main] + 1
  BY ClockFacts, MainSteps, StateFacts, ProgramFacts, MainIsPort DEF JoinInv
<1>1. SUFFICES ASSUME NEW b \in DOMAIN program[Main], program[Main][b].op = "init",
                      pc'[Main] > b
               PROVE  numthreads' = N-1
  BY <1>0 DEF InitialisedInv
<1>2. b \in Nat
  BY <1>0, ProgramFacts, MainIsPort
<1>3. numthreads' = IF Main \in Granted /\ In(Main, "init") THEN N-1 ELSE numthreads
  BY <1>0, BarrierNext
<1>4. CASE pc[Main] > b
  BY <1>1, <1>3, <1>4 DEF InitialisedInv
<1>5. CASE ~(pc[Main] > b)
  <2>1. pc[Main] = b /\ ~Stays(Main, Stalled, done)
    BY <1>0, <1>1, <1>2, <1>5
  <2>2. In(Main, "init")
    BY <1>0, <1>1, <2>1 DEF In
  <2>3. Main \in Granted
    BY <2>1, <2>2, MainIsPort DEF Stays, Stalled, Requests, Accesses, In
  <2>4. QED  BY <1>3, <2>2, <2>3
<1>6. QED  BY <1>4, <1>5

(***************************************************************************)
(* An instance that is now in the state after a look, or tests it; what it *)
(* was answered is of a round it has not passed.                           *)
(***************************************************************************)
LEMMA BeforeLooked ==
  ASSUME PcInv, NEW done \in SUBSET Busy, Clock(done), NEW i \in Instance,
         NEW p \in DOMAIN program[i], program[i][p].op = "looked", pc'[i] \in {p-1, p}
  PROVE  /\ pc'[i] = p-1 => pc[i] > 0 /\ In(i, "look") /\ i \in Granted
         /\ pc'[i] = p => pc[i] = p-1 /\ In(i, "idle")
<1>0. /\ i \in Port /\ p \in Nat /\ pc[i] \in Nat /\ pc'[i] \in Nat
      /\ pc[i] > 0 => State(i) = program[i][pc[i]]
      /\ \/ Moves(i)
         \/ pc'[i] = pc[i] /\ Stays(i, Stalled, done)
  BY PcStep, StateFacts, ProgramFacts DEF Instance
<1>1. p > 2 /\ program[i][p-2].op = "look" /\ program[i][p-1].op = "idle"
  BY <1>0, ProgramFacts DEF WellFormed
<1>2. ~(pc'[i] = pc[i] - 2 /\ AsksAgain(i))
  <2>1. SUFFICES ASSUME pc'[i] = pc[i] - 2, AsksAgain(i) PROVE FALSE
    OBVIOUS
  <2>2. program[i][pc'[i]].op \in {"lock", "look"}
    BY <1>0, <2>1, AskingAgain
  <2>3. QED  BY <1>1, <2>2
<1>3. pc'[i] # pc[i]
  <2>1. SUFFICES ASSUME pc'[i] = pc[i] PROVE FALSE
    OBVIOUS
  <2>2. State(i).op \in {"idle", "looked"}
    BY <1>0, <1>1, <2>1
  <2>3. i \notin Stalled
    BY <2>2 DEF Stalled, Requests, Accesses
  <2>4. ~Stays(i, Stalled, done)
    BY <2>2, <2>3 DEF Stays, Busy, In
  <2>5. QED  BY <1>0, <1>1, <2>1, <2>4 DEF Moves
<1>4. pc'[i] = pc[i] + 1 /\ i \notin Stalled
  BY <1>0, <1>1, <1>2, <1>3 DEF Moves
<1>5. ASSUME pc'[i] = p-1 PROVE pc[i] > 0 /\ In(i, "look") /\ i \in Granted
  <2>1. pc[i] = p-2 /\ State(i).op = "look"
    BY <1>0, <1>1, <1>4, <1>5
  <2>2. i \in Requests
    BY <1>0, <2>1 DEF Requests, Accesses
  <2>3. QED  BY <1>0, <1>1, <1>4, <2>1, <2>2 DEF In, Stalled
<1>6. ASSUME pc'[i] = p PROVE pc[i] = p-1 /\ In(i, "idle")
  BY <1>0, <1>1, <1>4, <1>6 DEF In
<1>7. QED  BY <1>5, <1>6

LEMMA LookedPreserved ==
  ASSUME RunsAreJoined, AllMeet, Meeting(program), JoinInv, RunInv,
         NEW n \in Nat, Round(n), LookedInv(n), NEW m \in Nat, m >= n,
         NEW done \in SUBSET Busy, Clock(done), ~In(Main, "fork")
  PROVE  LookedInv(m)'
<1>1. program' = program /\ PcInv
  BY ClockFacts DEF JoinInv
<1>2. SUFFICES ASSUME NEW i \in Instance, NEW p \in DOMAIN program[i],
                      program[i][p].op = "looked"
               PROVE  /\ pc'[i] = p-1 => /\ i \in first_state_after_memory_read'
                                         /\ OnItsWay(i, 0)' => Cardinality(Passes(i)') < m
                      /\ pc'[i] = p   => /\ i \in second_state_after_memory_read'
                                         /\ LoadData(i)' = 0 => Cardinality(Passes(i)') < m
  <2>1. \A v : OnItsWay(v, 0)' <=> /\ IF v \in dataReady0' THEN memory_reg' = 0 ELSE Out(v)' = 0
                                   /\ v # Main => v \in first_state_after_memory_read'
    BY DEF OnItsWay
  <2>2. QED  BY <1>1, <1>2 DEF LookedInv, Instance, Port
<1>3. /\ Passes(i)' = IF In(i, "looked") /\ LoadData(i) = 0
                       THEN Passes(i) \cup {pc[i]} ELSE Passes(i)
      /\ i # Main
  BY ArrivalsNext DEF Instance
<1>4. /\ IsFiniteSet(Arrivals(i)) /\ Cardinality(Arrivals(i)) \in Nat
      /\ Cardinality(Passes(i)) \in Nat
      /\ Cardinality(Arrivals(i)) \in {n, n+1}
      /\ pc[i] > 0 /\ In(i, "look") => Cardinality(Arrivals(i)) = Cardinality(Passes(i)) + 1
  BY Turns DEF Round
<1>5. ASSUME pc'[i] = p-1
      PROVE  /\ i \in first_state_after_memory_read'
             /\ OnItsWay(i, 0)' => Cardinality(Passes(i)') < m
  <2>1. pc[i] > 0 /\ In(i, "look") /\ i \in Granted
    BY <1>1, <1>2, <1>5, BeforeLooked
  <2>2. Passes(i)' = Passes(i)
    BY <1>3, <2>1 DEF In
  <2>3. i \in ReadRequests /\ i \notin Stalled
    BY <2>1 DEF ReadRequests, Reads, In, Stalled, Instance
  <2>4. i \in first_state_after_memory_read' /\ i \in dataReady0'
    BY <1>3, <2>1, <2>3, OutNext, ShiftNext DEF Instance
  <2>5. AccessOf(i) = Access("read", "barrier", 0, TRUE, 0)
    BY <2>1 DEF AccessOf, In
  <2>6. memory_reg' = barrier_count
    <3>1. Served(Granted) = Access("read", "barrier", 0, TRUE, 0)
      BY <2>1, <2>5, ServedIs
    <3>2. Answer(Served(Granted)) = barrier_count
      BY <3>1 DEF Answer, SyncOut, Access
    <3>3. QED  BY <3>2, ClockFacts
  <2>7. ASSUME OnItsWay(i, 0)' PROVE Cardinality(Passes(i)') < m
    <3>1. barrier_count = 0
      BY <2>4, <2>6, <2>7 DEF OnItsWay
    <3>2. i \notin {j \in Instance : Cardinality(Arrivals(j)) = n+1}
      <4>1. IsFiniteSet({j \in Instance : Cardinality(Arrivals(j)) = n+1})
        BY Instances, FS_Subset
      <4>2. Cardinality({j \in Instance : Cardinality(Arrivals(j)) = n+1}) = 0
        BY <3>1 DEF Round
      <4>3. QED  BY <4>1, <4>2, FS_EmptySet
    <3>3. Cardinality(Passes(i)) + 1 = n
      BY <1>4, <2>1, <3>2
    <3>4. QED  BY <1>4, <2>2, <3>3
  <2>8. QED  BY <2>4, <2>7
<1>6. ASSUME pc'[i] = p
      PROVE  /\ i \in second_state_after_memory_read'
             /\ LoadData(i)' = 0 => Cardinality(Passes(i)') < m
  <2>1. pc[i] = p-1 /\ In(i, "idle")
    BY <1>1, <1>2, <1>6, BeforeLooked
  <2>2. Passes(i)' = Passes(i)
    BY <1>3, <2>1 DEF In
  <2>3. i \notin Stalled
    BY <2>1 DEF Stalled, Requests, Accesses, In
  <2>4. /\ i \in first_state_after_memory_read
        /\ OnItsWay(i, 0) => Cardinality(Passes(i)) < n
    BY <1>2, <2>1 DEF LookedInv
  <2>5. i \in second_state_after_memory_read' /\ i \in waitrequest_inverted_reg'
    BY <2>3, <2>4, ShiftNext
  <2>6. LoadData(i)' = Out(i)'
    BY <1>3, <2>5 DEF LoadData, Stored, Valid
  <2>7. Out(i)' = IF i \in dataReady0 THEN memory_reg ELSE Out(i)
    BY OutNext DEF Instance
  <2>8. LoadData(i)' = 0 => OnItsWay(i, 0)
    BY <2>4, <2>6, <2>7 DEF OnItsWay
  <2>9. QED  BY <1>4, <2>2, <2>4, <2>5, <2>8
<1>7. QED  BY <1>5, <1>6

(***************************************************************************)
(* Somebody arrives, or the round ends, or neither.                        *)
(***************************************************************************)
LEMMA RoundNext ==
  ASSUME RunsAreJoined, AllMeet, Meeting(program), JoinInv, RunInv, InitialisedInv,
         NEW n \in Nat, Round(n), LookedInv(n),
         NEW done \in SUBSET Busy, Clock(done), ~In(Main, "fork")
  PROVE  \E m \in {n, n+1} : Round(m)'
<1> DEFINE arr(i) == Cardinality(Arrivals(i))
           pas(i) == Cardinality(Passes(i))
           ahead == {i \in Instance : arr(i) = n+1}
<1>0. PcInv
  BY DEF JoinInv
<1>1. \A i \in Instance :
        /\ arr(i) \in {n, n+1} /\ pas(i) <= n /\ arr(i) \in Nat /\ pas(i) \in Nat
        /\ pc[i] > 0 /\ In(i, "arrive") => arr(i) = pas(i)
  BY Turns DEF Round
<1>2. /\ IsFiniteSet(ahead) /\ barrier_count = Cardinality(ahead) /\ barrier_count \in Nat
  <2>1. IsFiniteSet(ahead)
    BY Instances, FS_Subset
  <2>2. QED  BY <2>1, FS_CardinalityType DEF Round
<1>3. \A i \in Instance :
        /\ Cardinality(Arrivals(i)') =
             IF In(i, "arrive") /\ i \in Granted THEN arr(i) + 1 ELSE arr(i)
        /\ Cardinality(Passes(i)') =
             IF In(i, "looked") /\ LoadData(i) = 0 THEN pas(i) + 1 ELSE pas(i)
  <2> SUFFICES ASSUME NEW i \in Instance
               PROVE  /\ Cardinality(Arrivals(i)') =
                           IF In(i, "arrive") /\ i \in Granted THEN arr(i) + 1 ELSE arr(i)
                      /\ Cardinality(Passes(i)') =
                           IF In(i, "looked") /\ LoadData(i) = 0 THEN pas(i) + 1 ELSE pas(i)
    OBVIOUS
  <2>1. IsFiniteSet(Arrivals(i)) /\ IsFiniteSet(Passes(i))
    BY Turns
  <2>2. /\ Cardinality(Arrivals(i) \cup {pc[i]}) = arr(i) + 1
        /\ Cardinality(Passes(i) \cup {pc[i]}) = pas(i) + 1
    BY <2>1, FS_AddElement, ArrivalsNext
  <2>3. QED  BY <2>2, ArrivalsNext
<1>4. \A i \in Instance : Cardinality(Passes(i)') <= n
  <2> SUFFICES ASSUME NEW i \in Instance PROVE Cardinality(Passes(i)') <= n
    OBVIOUS
  <2>1. CASE In(i, "looked") /\ LoadData(i) = 0
    <3>1. pc[i] \in DOMAIN program[i] /\ program[i][pc[i]].op = "looked"
      BY <1>0, <2>1, StateFacts, ProgramFacts DEF In, Instance
    <3>2. pas(i) < n
      BY <2>1, <3>1 DEF LookedInv
    <3>3. QED  BY <1>1, <1>3, <2>1, <3>2
  <2>2. CASE ~(In(i, "looked") /\ LoadData(i) = 0)
    BY <1>1, <1>3, <2>2
  <2>3. QED  BY <2>1, <2>2
<1>5. barrier_count' = IF \E i \in Instance \cap Granted : In(i, "arrive")
                       THEN barrier_count + 1
                       ELSE IF barrier_count = numthreads THEN 0 ELSE barrier_count
  BY <1>0, BarrierNext
\* to show what a round is after the edge
<1>6. ASSUME NEW m \in Nat, m >= n,
             \A i \in Instance : Cardinality(Arrivals(i)') \in {m, m+1},
             barrier_count' = Cardinality({i \in Instance : Cardinality(Arrivals(i)') = m+1})
      PROVE  Round(m)'
  <2>1. \A i \in Instance : Cardinality(Passes(i)') <= m
    <3> SUFFICES ASSUME NEW i \in Instance PROVE Cardinality(Passes(i)') <= m
      OBVIOUS
    <3>1. Cardinality(Passes(i)') \in Nat
      BY <1>1, <1>3
    <3>2. QED  BY <1>4, <1>6, <3>1
  <2>2. {i \in Instance : Cardinality(Arrivals(i)) = m+1}' =
          {i \in Instance : Cardinality(Arrivals(i)') = m+1}
    BY DEF Instance, Port
  <2>3. QED  BY <1>6, <2>1, <2>2 DEF Round, Instance, Port
<1> HIDE DEF arr, pas
<1>7. CASE \E i \in Instance \cap Granted : In(i, "arrive")
  <2>1. PICK i \in Instance \cap Granted : In(i, "arrive")
    BY <1>7
  <2>2. \A j \in Instance : j # i => ~(j \in Granted)
    BY <2>1, GrantsOne DEF Granted, Requests
  <2>3. pc[i] > 0
    BY <1>0, <2>1, StateFacts, ProgramFacts DEF In, Instance
  <2>4. arr(i) = n
    BY <1>1, <2>1, <2>3
  <2>5. \A j \in Instance : Cardinality(Arrivals(j)') = IF j = i THEN n+1 ELSE arr(j)
    BY <1>3, <2>1, <2>2, <2>4
  <2>6. {j \in Instance : Cardinality(Arrivals(j)') = n+1} = ahead \cup {i} /\ i \notin ahead
    BY <2>1, <2>4, <2>5
  <2> HIDE DEF ahead
  <2>7. Cardinality(ahead \cup {i}) = Cardinality(ahead) + 1
    BY <1>2, <2>6, FS_AddElement
  <2>8. barrier_count' = Cardinality({j \in Instance : Cardinality(Arrivals(j)') = n+1})
    BY <1>2, <1>5, <1>7, <2>6, <2>7
  <2>9. \A j \in Instance : Cardinality(Arrivals(j)') \in {n, n+1}
    BY <1>1, <2>5
  <2>10. Round(n)'
    BY <1>6, <2>8, <2>9
  <2>11. QED  BY <2>10
<1>8. CASE ~\E i \in Instance \cap Granted : In(i, "arrive")
  <2>1. \A j \in Instance : Cardinality(Arrivals(j)') = arr(j)
    BY <1>3, <1>8
  <2>2. {j \in Instance : Cardinality(Arrivals(j)') = n+1} = ahead
    BY <2>1
  <2>3. CASE barrier_count' = barrier_count
    <3>1. Round(n)'
      BY <1>1, <1>2, <1>6, <2>1, <2>2, <2>3
    <3>2. QED  BY <3>1
  <2>4. CASE barrier_count = numthreads /\ barrier_count # 0
    <3>1. numthreads = N-1
      <4>1. PICK i \in Instance : arr(i) = n+1
        BY <1>2, <2>4, FS_EmptySet
      <4>2. Arrivals(i) # {}
        BY <4>1, FS_EmptySet DEF arr
      <4>3. HasRun(i)
        BY <4>2, Turns DEF Where
      <4>4. PICK q \in 1 .. pc[Main]-1 : Begins(i, q)
        BY <4>3 DEF HasRun, Left
      <4>5. q \in DOMAIN program[Main] /\ program[Main][q].op \in {"create", "fork"}
            /\ pc[Main] \in Nat /\ q \in Nat /\ q < pc[Main]
        BY <1>0, <4>4, ProgramFacts, MainIsPort DEF Begins, Create, Fork
      <4>6. PICK b \in DOMAIN program[Main] : program[Main][b] = BarrierInit(N-1) /\ q > b
        BY <1>0, <4>5 DEF AllMeet, PcInv
      <4>7. program[Main][b].op = "init" /\ b \in Nat
        BY <1>0, <4>6, ProgramFacts, MainIsPort DEF BarrierInit
      <4>8. QED  BY <4>5, <4>6, <4>7 DEF InitialisedInv
    <3>2. ahead = Instance
      BY <1>2, <2>4, <3>1, Instances, FS_Subset
    <3>3. \A j \in Instance : Cardinality(Arrivals(j)') = n+1
      BY <2>1, <3>2
    <3>4. {j \in Instance : Cardinality(Arrivals(j)') = (n+1)+1} = {}
      BY <3>3
    <3>5. barrier_count' = 0
      BY <1>5, <1>8, <2>4
    <3>6. Round(n+1)'
      BY <1>6, <3>3, <3>4, <3>5, FS_EmptySet
    <3>7. QED  BY <3>6
  <2>5. QED  BY <1>5, <1>8, <2>3, <2>4
<1>9. QED  BY <1>7, <1>8

(***************************************************************************)
(* A call that forks finds everybody at rest and the counter at 0: the     *)
(* rounds are counted anew.                                                *)
(***************************************************************************)
LEMMA ForkStartsRounds ==
  ASSUME RunsAreJoined, AllMeet, Meeting(program), JoinInv, RunInv,
         NEW n \in Nat, Round(n), NEW done \in SUBSET Busy, Clock(done), In(Main, "fork")
  PROVE  Round(0)' /\ LookedInv(0)'
<1>0. PcInv /\ program' = program
  BY ClockFacts DEF JoinInv
<1>1. Starts = Instance
  BY <1>0 DEF Starts
<1>2. \A i \in Instance : AtRest(i) /\ pc[i] = 0 /\ pc'[i] = 0
  BY <1>0, <1>1, StartedAtRest, InstanceStep DEF AtRest
<1>3. \A i \in Instance : Where(i)' = 1
  BY <1>1, WhereNext
<1>4. \A i \in Instance : Arrivals(i)' = {} /\ Passes(i)' = {}
  <2> SUFFICES ASSUME NEW i \in Instance PROVE Arrivals(i)' = {} /\ Passes(i)' = {}
    OBVIOUS
  <2>1. \A o \in DOMAIN program[i] : ~(o < 1)
    BY <1>0, ProgramFacts DEF Instance
  <2>2. QED  BY <1>0, <1>3, <2>1 DEF Arrivals, Passes
<1>5. barrier_count = 0
  <2>1. ASSUME NEW i \in Instance PROVE Cardinality(Arrivals(i)) # n+1
    <3>1. Where(i) \in {1, Len(program[i])+1}
      BY <1>2, WhereIs
    <3>2. Cardinality(Arrivals(i)) = Cardinality(Passes(i)) /\ Cardinality(Passes(i)) \in Nat
      BY <3>1, Turns
    <3>3. QED  BY <3>2 DEF Round
  <2>2. {i \in Instance : Cardinality(Arrivals(i)) = n+1} = {}
    BY <2>1
  <2>3. QED  BY <2>2, FS_EmptySet DEF Round
<1>6. \A i \in Instance : ~In(i, "arrive")
  BY <1>0, <1>2 DEF In, State, Wait
<1>7. barrier_count' = 0
  BY <1>0, <1>5, <1>6, BarrierNext
<1>8. {i \in Instance : Cardinality(Arrivals(i)') = 0+1} = {}
  BY <1>4, FS_EmptySet
<1>9. {i \in Instance : Cardinality(Arrivals(i)) = 0+1}' =
        {i \in Instance : Cardinality(Arrivals(i)') = 0+1}
  BY DEF Instance, Port
<1>10. Round(0)'
  <2>1. Instance' = Instance
    BY DEF Instance, Port
  <2>2. Cardinality({i \in Instance : Cardinality(Arrivals(i)) = 0+1}') = 0
    BY <1>8, <1>9, FS_EmptySet
  <2>3. \A i \in Instance : /\ Cardinality(Arrivals(i)') \in {0, 0+1}
                           /\ Cardinality(Passes(i)') <= 0
    BY <1>4, FS_EmptySet
  <2>4. QED  BY <1>7, <2>1, <2>2, <2>3 DEF Round
<1>11. LookedInv(0)'
  <2>1. SUFFICES ASSUME NEW i \in Instance, NEW p \in DOMAIN program[i],
                        program[i][p].op = "looked"
                 PROVE  p > 2 /\ p \in Nat
    BY <1>0, <1>2 DEF LookedInv, Instance, Port
  <2>2. QED  BY <1>0, <2>1, ProgramFacts DEF WellFormed, Instance
<1>12. QED  BY <1>10, <1>11

LEMMA BarrierPreserved ==
  ASSUME RunsAreJoined, AllMeet, JoinInv, RunInv, BarrierInv, NEW done \in SUBSET Busy,
         Clock(done)
  PROVE  BarrierInv'
<1>1. Meeting(program)' <=> Meeting(program)
  BY ClockFacts DEF Meeting, Instance, Port
<1>2. SUFFICES ASSUME Meeting(program)
               PROVE  InitialisedInv' /\ \E m \in Nat : Round(m)' /\ LookedInv(m)'
  BY <1>1 DEF BarrierInv
<1>3. PICK n \in Nat : Round(n) /\ LookedInv(n)
  BY <1>2 DEF BarrierInv
<1>4. InitialisedInv /\ InitialisedInv'
  BY <1>2, InitialisedPreserved DEF BarrierInv
<1>5. CASE In(Main, "fork")
  BY <1>2, <1>3, <1>4, <1>5, ForkStartsRounds
<1>6. CASE ~In(Main, "fork")
  <2>1. PICK m \in {n, n+1} : Round(m)'
    BY <1>2, <1>3, <1>4, <1>6, RoundNext
  <2>2. m \in Nat /\ m >= n
    BY <2>1
  <2>3. LookedInv(m)'
    BY <1>2, <1>3, <1>6, <2>2, LookedPreserved
  <2>4. QED  BY <1>4, <2>1, <2>2, <2>3
<1>7. QED  BY <1>5, <1>6

LEMMA BarrierSeparated ==
  ASSUME AllMeet, JoinInv, RunInv, BarrierInv
  PROVE  BarrierSeparates
<1>0. PcInv /\ program \in Programs
  BY DEF JoinInv, PcInv
<1>1. SUFFICES ASSUME NEW r \in Instance, NEW s \in Instance, pc[r] # 0, pc[s] # 0
               PROVE  Cardinality(Passed(r)) <= Cardinality(Reached(s))
  BY DEF BarrierSeparates
<1>2. \A i \in Instance : /\ DOMAIN program[i] = 1 .. Len(program[i]) /\ Len(program[i]) \in Nat
                          /\ pc[i] \in Nat /\ pc[i] <= Len(program[i])
  BY <1>0, ProgramFacts DEF Instance
<1>3. CASE Meeting(program)
  <2>1. ASSUME NEW i \in Instance, NEW p \in DOMAIN program[i]
        PROVE  /\ program[i][p].op = "arrive" <=> program[i][p] = Arrive
               /\ program[i][p].op = "looked" <=> program[i][p] = LookTest
    <3>1. TakesTurns(program[i]) /\ p \in 1 .. Len(program[i])+1 /\ p <= Len(program[i])
      BY <1>0, <1>2, <1>3 DEF AllMeet
    <3>2. /\ program[i][p].op = "arrive" => program[i][p] = Arrive
          /\ program[i][p].op = "looked" => program[i][p] = LookTest
      BY <3>1 DEF TakesTurns
    <3>3. Arrive.op = "arrive" /\ LookTest.op = "looked"
      BY DEF Arrive, LookTest
    <3>4. QED  BY <3>2, <3>3
  <2>2. Where(r) = pc[r] /\ Where(s) = pc[s]
    BY <1>1, <1>2, WhereIs
  <2>3. Passed(r) = Passes(r)
    BY <1>2, <2>1, <2>2 DEF Passed, Passes, Left
  <2>4. Reached(s) = Arrivals(s)
    BY <1>2, <2>1, <2>2 DEF Reached, Arrivals, Left
  <2>5. PICK n \in Nat : Round(n)
    BY <1>3 DEF BarrierInv
  <2>6. /\ Cardinality(Passes(r)) <= n /\ Cardinality(Arrivals(s)) \in {n, n+1}
        /\ Cardinality(Passes(r)) \in Nat
    BY <1>3, <2>5, Turns DEF Round
  <2>7. QED  BY <2>3, <2>4, <2>6
<1>4. CASE ~Meeting(program)
  <2>1. Passed(r) = {}
    <3>1. SUFFICES ASSUME NEW p \in Passed(r) PROVE FALSE
      OBVIOUS
    <3>2. p \in DOMAIN program[r] /\ program[r][p].op = "looked"
      BY <1>2 DEF Passed, Left, LookTest
    <3>3. QED  BY <1>4, <3>2 DEF Meeting
  <2>2. IsFiniteSet(Reached(s))
    <3>1. 1 \in Int /\ pc[s]-1 \in Int
      BY <1>2
    <3>2. IsFiniteSet(1 .. pc[s]-1)
      BY ONLY <3>1, FS_Interval
    <3>3. Reached(s) \in SUBSET (1 .. pc[s]-1)
      BY DEF Reached, Left
    <3>4. QED  BY <3>2, <3>3, FS_Subset
  <2>3. QED  BY <2>1, <2>2, FS_EmptySet, FS_CardinalityType
<1>5. QED  BY <1>3, <1>4

(***************************************************************************)
(* No thread leaves the barrier before all have reached it, the second     *)
(* time no less than the first, and in a second region no less than in the *)
(* first.                                                                  *)
(***************************************************************************)
THEOREM BarrierMeets ==
  ASSUME RunsAreJoined, AllMeet
  PROVE  Spec => []BarrierSeparates
<1> DEFINE Inv == IInv /\ JoinInv /\ RunInv /\ BarrierInv
<1>1. Init => Inv
  <2> SUFFICES ASSUME Init PROVE Inv
    OBVIOUS
  <2>1. IInv /\ JoinInv /\ RunInv /\ PcInv
    BY InitHolds, JoinInitHolds, RunInitHolds DEF IInv
  <2>2. BarrierInv
    <3>0. pc[Main] = 1 /\ program \in Programs /\ barrier_count = 0
      BY MainIsPort DEF Init, SyncInit
    <3>1. SUFFICES ASSUME Meeting(program) PROVE InitialisedInv /\ Round(0) /\ LookedInv(0)
      BY DEF BarrierInv
    <3>2. InitialisedInv
      BY <2>1, <3>0, ProgramFacts, MainIsPort DEF InitialisedInv
    <3>3. \A i \in Instance : Where(i) = 1 /\ pc[i] = 0
      BY <3>0 DEF Where, HasRun, Left, Init, Instance
    <3>4. \A i \in Instance : Arrivals(i) = {} /\ Passes(i) = {}
      BY <2>1, <3>1, <3>3, Turns
    <3>5. {i \in Instance : Cardinality(Arrivals(i)) = 0+1} = {}
      BY <3>4, FS_EmptySet
    <3>6. Round(0)
      BY <3>0, <3>4, <3>5, FS_EmptySet DEF Round
    <3>7. LookedInv(0)
      <4>1. SUFFICES ASSUME NEW i \in Instance, NEW p \in DOMAIN program[i],
                            program[i][p].op = "looked"
                     PROVE  p > 2 /\ p \in Nat
        BY <3>3 DEF LookedInv
      <4>2. QED  BY <2>1, <4>1, ProgramFacts DEF WellFormed, Instance
    <3>8. QED  BY <3>2, <3>6, <3>7
  <2>3. QED  BY <2>1, <2>2
<1>2. Inv /\ [Next]_vars => Inv'
  <2> SUFFICES ASSUME Inv, [Next]_vars PROVE Inv'
    OBVIOUS
  <2>1. IInv' /\ JoinInv'
    BY StepHolds, JoinStepHolds DEF IInv
  <2>2. CASE UNCHANGED vars
    <3>1. RunInv'
      BY <2>2, RunStutters
    <3>2. BarrierInv'
      <4>1. \A n : (Round(n)' <=> Round(n)) /\ (LookedInv(n)' <=> LookedInv(n))
        <5>1. \A i : Arrivals(i)' = Arrivals(i) /\ Passes(i)' = Passes(i)
          BY <2>2 DEF Arrivals, Passes, Where, HasRun, Progress, Begins, Left, vars, threadVars
        <5>2. \A i : (OnItsWay(i, 0)' <=> OnItsWay(i, 0)) /\ LoadData(i)' = LoadData(i)
          BY <2>2 DEF OnItsWay, Out, LoadData, Stored, Valid, vars, threadVars
        <5>3. \A n : {i \in Instance : Cardinality(Arrivals(i)) = n+1}'
                       = {i \in Instance : Cardinality(Arrivals(i)) = n+1}
          BY <5>1 DEF Instance, Port
        <5>4. \A n : Round(n)' <=> Round(n)
          BY <2>2, <5>1, <5>3 DEF Round, vars, syncVars, Instance, Port
        <5>5. \A n : LookedInv(n)' <=> LookedInv(n)
          BY <2>2, <5>1, <5>2 DEF LookedInv, vars, threadVars, Instance, Port
        <5>6. QED  BY <5>4, <5>5
      <4>2. InitialisedInv' <=> InitialisedInv
        BY <2>2 DEF InitialisedInv, vars, threadVars, syncVars
      <4>3. Meeting(program)' <=> Meeting(program)
        BY <2>2 DEF Meeting, vars, threadVars, Instance, Port
      <4>4. QED  BY <4>1, <4>2, <4>3 DEF BarrierInv
    <3>3. QED  BY <2>1, <3>1, <3>2
  <2>3. ASSUME NEW done \in SUBSET Busy, Clock(done) PROVE Inv'
    BY <2>1, <2>3, RunPreserved, BarrierPreserved
  <2>4. QED  BY <2>2, <2>3 DEF Next
<1>3. Inv => BarrierSeparates
  BY BarrierSeparated
<1> HIDE DEF Inv
<1>4. QED  BY <1>1, <1>2, <1>3, PTL DEF Spec

=============================================================================
