----------------------------- MODULE SyncCores ------------------------------
(***************************************************************************)
(* The lock and barrier cores behind the synchronisation controller, as    *)
(* printLockModule, printBarrierModule and printSyncCtrlSignals print      *)
(* them.  An access reaches a core when the arbiter grants it; a core      *)
(* answers a read in the same clock.  As in Allocation, there are LockCores *)
(* lock cores, numbered from 0, and one barrier.                           *)
(***************************************************************************)
EXTENDS Integers

CONSTANT LockCores   \* the lock cores that are instantiated

ASSUME CoresAssumption == LockCores \in Nat

VARIABLES
  mutex_status,   \* the lock cores that are taken
  mutex_owner,    \* the lock cores whose owner register holds 1
  numthreads,     \* what the barrier counts to
  barrier_count   \* the threads that have reached the barrier

syncVars == <<mutex_status, mutex_owner, numthreads, barrier_count>>

Core == 0 .. LockCores-1

SyncInit ==
  /\ mutex_status = {}
  /\ mutex_owner = {}
  /\ numthreads = 0
  /\ barrier_count = 0

\* select_lock_inst: the tag of the address names the core
Selected(access, k) == access.device = "lock" /\ access.index = k

\* accel_id: an unlock writes the one bit that every owner register holds
owner_valid(access, k) == (k \in mutex_owner) = (access.data = 1)

\* The core is taken by a read of its address 0 while it is free ...
Taken(access) ==
  {k \in Core \ mutex_status :
     Selected(access, k) /\ access.kind = "read" /\ ~access.status}

\* any access to a core that is taken releases it
ReleasedByAny(access) == {k \in mutex_status : Selected(access, k)}

\* ... and released by a write of its owner to the status address.
Released(access) ==
  {k \in Core : /\ Selected(access, k) /\ access.kind = "write"
                /\ access.status /\ owner_valid(access, k)}

LockClock(access) ==
  /\ mutex_status' = (mutex_status \cup Taken(access)) \ Released(access)
  /\ mutex_owner' = (mutex_owner \cup Taken(access)) \ Released(access)

BarrierWrite(access, status) ==
  access.device = "barrier" /\ access.kind = "write" /\ access.status = status

\* the counter is not cleared for the next use of the barrier
NextCountStays(access) ==
  IF BarrierWrite(access, TRUE) THEN barrier_count + 1 ELSE barrier_count

\* the counter is cleared as soon as a thread reads it
NextCountEarly(access) ==
  IF BarrierWrite(access, TRUE) THEN barrier_count + 1
  ELSE IF access.device = "barrier" THEN 0 ELSE barrier_count

NextCount(access) ==
  IF BarrierWrite(access, TRUE) THEN barrier_count + 1
  ELSE IF barrier_count = numthreads THEN 0 ELSE barrier_count

BarrierClock(access) ==
  /\ numthreads' = IF BarrierWrite(access, FALSE) THEN access.data
                                                  ELSE numthreads
  /\ barrier_count' = NextCount(access)

\* synchronization_controller_out: an address that selects no core reads 0,
\* a lock core reads mutex_free, the barrier its counter
SyncOut(access) ==
  IF access.device = "barrier" THEN barrier_count
  ELSE IF access.index \in Core \ mutex_status THEN 1 ELSE 0

SyncClock(access) == LockClock(access) /\ BarrierClock(access)

=============================================================================
