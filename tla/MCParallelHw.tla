---------------------------- MODULE MCParallelHw ----------------------------
(* ParallelHw with a main thread and N-1 instances.  Calls, from which the   *)
(* numbers and the count of the lock cores follow, stand in the order of     *)
(* the module.  legup_lock, legup_unlock and legup_barrier_wait are C code   *)
(* that is not in the repository: a lock is polled until it answers 1, the   *)
(* barrier is written once and polled until it answers 0.                    *)
EXTENDS ParallelHw, ParallelLowering, TLC

CONSTANTS w, x, y, z

MCCalls ==
  <<[call |-> "lock", kind |-> "pthread", var |-> "m"],
    [call |-> "unlock", kind |-> "pthread", var |-> "m"],
    [call |-> "lock", kind |-> "atomic", var |-> ""],
    [call |-> "unlock", kind |-> "atomic", var |-> ""]>>

\* increments a word while it holds the lock of a call
Adds(i, a) ==
  LET k == mutexMap(i)
  IN  <<Compute, LockRead(k), Idle, LockTest(k), Load(a), Idle, Idle,
        Increment(a), Unlock(k), Return>>

\* passes the barrier twice
Meets == <<Compute, Arrive, Look, Idle, LookTest,
           Compute, Arrive, Look, Idle, LookTest, Return>>

\* loads that are under way together
Streams == <<Load(x), Load(y), Load(z), Idle, Load(y), Load(x), Idle, Return>>

\* a store in every clock, for as long as it likes
Fills == <<Fill(w), Return>>

Bodies == {Adds(1, x), Adds(3, y), Streams, Fills}

\* a Pthreads program: create, go on, join
Creates ==
  <<BarrierInit(2), Create(1), Created(1), Create(2), Created(2), Fill(w),
    Load(z), Load(y), Idle, Idle, Join(1), Join(2), Return>>

\* an OpenMP program with two parallel regions
Forks ==
  <<BarrierInit(2), Fork, Await, Load(x), Idle, Idle, Fork, Await, Return>>

MCWords == x :> 1 @@ y :> 2 @@ z :> 3 @@ w :> 0

MCCores == syncMapLock

MCPrograms ==
  {Main :> m @@ 1 :> bs[1] @@ 2 :> bs[2] :
     m \in {Creates, Forks}, bs \in (Bodies \X Bodies) \cup {<<Meets, Meets>>}}

-----------------------------------------------------------------------------
(* A program of which the hardware does not do what the source says.         *)

\* one function takes m and then n, a later one takes m
LateCalls ==
  MCCalls \o <<[call |-> "lock", kind |-> "pthread", var |-> "m"],
               [call |-> "unlock", kind |-> "pthread", var |-> "m"]>>

LatePrograms == {Main :> Creates @@ 1 :> Adds(1, x) @@ 2 :> Adds(3, y)}

-----------------------------------------------------------------------------
(* The programs are as the theorems ask, the last one but for its locks: the *)
(* lock of y is of a core the module does not have.                          *)
ASSUME ProgramsAreAsAsked ==
  /\ MainKeepsLoads /\ RunsAreJoined /\ AllMeet
  /\ UpdatesAreGuarded <=> Programs # LatePrograms

=============================================================================
