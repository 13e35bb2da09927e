-------------------------- MODULE ParallelLowering --------------------------
(***************************************************************************)
(* How ParallelAPI.cpp turns the lock and unlock calls of Pthreads and     *)
(* OpenMP into accesses to numbered lock cores, and how                    *)
(* Allocation::getSynchronizationUsage counts the cores to instantiate.    *)
(* Calls lists the calls in the order of the module.                       *)
(***************************************************************************)
EXTENDS Integers, FiniteSets, Sequences

CONSTANT Calls       \* the lock and unlock calls of the module, in its order

ASSUME CallsAssumption ==
  Calls \in Seq([call : {"lock", "unlock"},
                 kind : {"pthread", "critical", "atomic"}, var : STRING])

Locks == {i \in 1 .. Len(Calls) : Calls[i].call = "lock"}

\* numOMPatomic: the ends of atomic sections that replaceLockFunction has met;
\* the end itself is still named as its start is
numOMPatomic(i) ==
  Cardinality({j \in 1 .. i-1 : Calls[j].kind = "atomic" /\ j \notin Locks})

\* a mutex variable names its lock, all critical sections share one, and
\* every atomic section has one of its own
getMutexName(i) ==
  CASE Calls[i].kind = "pthread"  -> <<"var", Calls[i].var>>
    [] Calls[i].kind = "critical" -> <<"OMP">>
    [] Calls[i].kind = "atomic"   -> <<"OMP_atomic", numOMPatomic(i)>>

\* names are numbered as their first lock call is met
mutexMap(i) ==
  LET same == {j \in Locks : getMutexName(j) = getMutexName(i)}
  IN  Cardinality({getMutexName(j) : j \in {k \in Locks : \A s \in same : k < s}})

\* "the number of lock cores needed": one more than the number of the last
\* lock call in the module
syncMapLock ==
  IF Locks = {} THEN 0
  ELSE LET last == CHOOSE i \in Locks : \A j \in Locks : j <= i
       IN  mutexMap(last) + 1

=============================================================================
