------------------------- MODULE MCModuloScheduler --------------------------
(* ModuloScheduler on loop bodies of N instructions, with one unit.          *)
EXTENDS ModuloScheduler

CONSTANTS mem, none, Limited, MaxDependences

MCSlots == [f \in FU |-> 1]

Forward == {[from |-> i, to |-> j, dist |-> 0, carried |-> FALSE] : i, j \in Inst}

\* two accesses of the memory, or a phi and what it takes from the last iteration
Back(accesses) ==
  {[from |-> i, to |-> j, dist |-> 1, carried |-> j \in accesses] :
     i \in Inst, j \in Inst}

Phis(ds) == {d.to : d \in {e \in ds : e.dist = 1 /\ ~e.carried}}

MCDependences(accesses) ==
  {f \cup b : f \in {S \in SUBSET {d \in Forward : d.from < d.to} :
                       Cardinality(S) <= MaxDependences},
              b \in {{}} \cup {{d} : d \in {e \in Back(accesses) :
                                  e.from > e.to /\ (e.carried => e.from \in accesses)}}}

\* the memory takes two clocks, other instructions one and phis none
MCLatency(accesses, ds) ==
  [i \in Inst |-> CASE i \in accesses -> 2 [] i \in Phis(ds) -> 0 [] OTHER -> 1]

MCKernels ==
  UNION {{[unit |-> [i \in Inst |-> IF i \in accesses THEN mem ELSE none],
           latency |-> MCLatency(accesses, ds), phis |-> Phis(ds), dependences |-> ds] :
            ds \in {e \in MCDependences(accesses) :
                      \A d \in e : d.to \in Phis(e) => d.dist = 1}} :
         accesses \in {S \in SUBSET Inst : Cardinality(S) \in Limited}}

=============================================================================
