------------------------- MODULE VoterStatus_proofs --------------------------
(***************************************************************************)
(* Proofs about VoterStatus, for any number of voted signals and whatever  *)
(* they carry: the status is exact.                                        *)
(***************************************************************************)
EXTENDS VoterStatus, FiniteSetTheorems, TLAPS

(***************************************************************************)
(* The codes of one sample, or-ed, and the status that names them.         *)
(***************************************************************************)
Seen(f) == UNION {Code(f[n]) : n \in Signal}

Naming(S) == Blamed(S) + IF Cardinality(S) > 1 THEN 4 ELSE 0

(***************************************************************************)
(* The pipeline: each register holds what its stage makes of the sample    *)
(* that is as old as the stage is deep, once the power-up values have been *)
(* shifted out.                                                            *)
(***************************************************************************)
Pipeline ==
  /\ EBIT_MODE \in {0, 2}
  /\ age \in 0 .. 3
  /\ past \in Seq([Signal -> Samples]) /\ Len(past) = age
  /\ age >= 1 => e = [n \in Signal |-> Code(past[1][n])]
  /\ EBIT_MODE = 0 /\ age >= 2 => PV_e = Cardinality(Seen(past[2]))
  /\ EBIT_MODE = 2 /\ age >= 2 => PV_s = Seen(past[2])
  /\ EBIT_MODE = 2 /\ age >= 3 => PV_e = Naming(Seen(past[3]))

LEMMA InitPipeline == Init => Pipeline
BY DEF Init, Pipeline

LEMMA TickPipeline == Pipeline /\ [Tick]_vars => Pipeline'
<1> SUFFICES ASSUME Pipeline, [Tick]_vars PROVE Pipeline'
  OBVIOUS
<1>1. CASE Tick
  <2>1. PICK f \in [Signal -> Samples] :
          /\ e' = [n \in Signal |-> Code(f[n])]
          /\ past' = IF age = 3 THEN <<f, past[1], past[2]>> ELSE <<f>> \o past
    BY <1>1 DEF Tick
  <2>2. /\ EBIT_MODE' = EBIT_MODE /\ age' = IF age = 3 THEN 3 ELSE age + 1
        /\ PV_s' = IF EBIT_MODE = 0 THEN {} ELSE Reduced
        /\ PV_e' = Status
    BY <1>1 DEF Tick
  <2>3. /\ past' \in Seq([Signal -> Samples]) /\ Len(past') = age'
        /\ past'[1] = f
        /\ age' >= 2 => past'[2] = past[1] /\ age >= 1
        /\ age' >= 3 => past'[3] = past[2] /\ age >= 2
    <3>1. CASE age = 3
      <4>1. past[1] \in [Signal -> Samples] /\ past[2] \in [Signal -> Samples]
        <5>1. past \in Seq([Signal -> Samples]) /\ Len(past) = 3
          BY <3>1 DEF Pipeline
        <5> DEFINE T == [Signal -> Samples]
        <5>2. \A i \in 1 .. Len(past) : past[i] \in T
          <6>1. past \in Seq(T)
            BY <5>1
          <6> HIDE DEF T
          <6>2. QED  BY <6>1
        <5>3. 1 \in 1 .. Len(past) /\ 2 \in 1 .. Len(past)
          BY <5>1
        <5>4. QED  BY <5>2, <5>3
      <4>2. past' = <<f, past[1], past[2]>> /\ age' = 3
        BY <2>1, <2>2, <3>1
      <4>3. QED  BY <3>1, <4>1, <4>2
    <3>2. CASE age # 3
      <4>1. past' = <<f>> \o past /\ age' = age + 1 /\ age \in 0 .. 2
        BY <2>1, <2>2, <3>2 DEF Pipeline
      <4>2. <<f>> \in Seq([Signal -> Samples]) /\ Len(<<f>>) = 1
        OBVIOUS
      <4>3. past \in Seq([Signal -> Samples]) /\ Len(past) = age
        BY DEF Pipeline
      <4>4. QED  BY <4>1, <4>2, <4>3
    <3>3. QED  BY <3>1, <3>2
  <2>4. \A g : Code(g)' = Code(g) /\ Seen(g)' = Seen(g)
    BY <2>2 DEF Code, Seen
  <2>5. age' >= 2 => Reduced = Seen(past'[2])
    <3> SUFFICES ASSUME age' >= 2 PROVE Reduced = Seen(past'[2])
      OBVIOUS
    <3>1. e = [n \in Signal |-> Code(past'[2][n])]
      BY <2>3 DEF Pipeline
    <3>2. \A n \in Signal : e[n] = Code(past'[2][n])
      BY <3>1
    <3>3. QED  BY <3>2 DEF Reduced, Seen
  <2>6. EBIT_MODE = 2 /\ age' >= 3 => Status = Naming(Seen(past'[3]))
    <3> SUFFICES ASSUME EBIT_MODE = 2, age' >= 3 PROVE Status = Naming(Seen(past'[3]))
      OBVIOUS
    <3>1. PV_s = Seen(past'[3])
      BY <2>3 DEF Pipeline
    <3>2. QED  BY <3>1 DEF Status, Naming
  <2>7. EBIT_MODE = 0 /\ age' >= 2 => PV_e' = Cardinality(Seen(past'[2]))
    BY <2>2, <2>5 DEF Status
  <2>8. EBIT_MODE' \in {0, 2} /\ age' \in 0 .. 3 /\ age' >= 1
    BY <2>2 DEF Pipeline
  <2>9. e' = [n \in Signal |-> Code(past'[1][n])]
    BY <2>1, <2>3
  <2> DEFINE p == past'
  <2>10. Pipeline' <=>
          /\ EBIT_MODE' \in {0, 2} /\ age' \in 0 .. 3
          /\ p \in Seq([Signal -> Samples]) /\ Len(p) = age'
          /\ age' >= 1 => e' = [n \in Signal |-> Code(p[1][n])]
          /\ EBIT_MODE' = 0 /\ age' >= 2 => PV_e' = Cardinality(Seen(p[2]))
          /\ EBIT_MODE' = 2 /\ age' >= 2 => PV_s' = Seen(p[2])
          /\ EBIT_MODE' = 2 /\ age' >= 3 => PV_e' = Naming(Seen(p[3]))
    BY <2>4 DEF Pipeline, Naming, Blamed
  <2>11. QED  BY <2>2, <2>3, <2>5, <2>6, <2>7, <2>8, <2>9, <2>10
<1>2. CASE UNCHANGED vars
  <2>1. UNCHANGED <<EBIT_MODE, e, PV_s, PV_e, past, age>>
    BY <1>2 DEF vars
  <2>2. \A g : Code(g)' = Code(g) /\ Seen(g)' = Seen(g)
    BY <2>1 DEF Code, Seen
  <2>3. QED  BY <2>1, <2>2 DEF Pipeline, Naming, Blamed
<1>3. QED  BY <1>1, <1>2

LEMMA PipelineInvariant == Spec => []Pipeline
BY InitPipeline, TickPipeline, PTL DEF Spec

(***************************************************************************)
(* The cascade of comparisons gives exactly the replicas that agree with   *)
(* no other; in EBIT_MODE 0 one bit if there are any.                      *)
(***************************************************************************)
LEMMA CodeNamesOutvoted ==
  ASSUME EBIT_MODE = 2, NEW f
  PROVE  Seen(f) = Outvoted(f)
<1>1. \A n \in Signal : Code(f[n]) =
        {r \in Replica : \A s \in Replica \ {r} : f[n][s] # f[n][r]}
  <2> SUFFICES ASSUME NEW n \in Signal, NEW r
               PROVE  r \in Code(f[n]) <=>
                        r \in Replica /\ \A s \in Replica \ {r} : f[n][s] # f[n][r]
    OBVIOUS
  <2>1. Replica = {0, 1, 2}
    BY DEF Replica
  <2>2. QED  BY <2>1 DEF Code
<1>2. QED  BY <1>1 DEF Seen, Outvoted

LEMMA BitShowsMismatch ==
  ASSUME EBIT_MODE = 0, NEW f
  PROVE  Seen(f) = IF Outvoted(f) = {} THEN {} ELSE {0}
<1>1. Replica = {0, 1, 2}
  BY DEF Replica
<1>2. \A n \in Signal : Code(f[n]) \subseteq {0} /\
        (Code(f[n]) = {} <=> ~\E r \in Replica : \A s \in Replica \ {r} : f[n][s] # f[n][r])
  BY <1>1 DEF Code
<1>3. Outvoted(f) = {} <=> \A n \in Signal : Code(f[n]) = {}
  BY <1>2 DEF Outvoted
<1>4. CASE Outvoted(f) = {}
  BY <1>3, <1>4 DEF Seen
<1>5. CASE Outvoted(f) # {}
  <2>1. PICK n \in Signal : Code(f[n]) # {}
    BY <1>3, <1>5
  <2>2. Code(f[n]) = {0}
    BY <1>2, <2>1
  <2>3. 0 \in Seen(f)
    BY <2>2 DEF Seen
  <2>4. Seen(f) \subseteq {0}
    BY <1>2 DEF Seen
  <2>5. QED  BY <1>5, <2>3, <2>4
<1>6. QED  BY <1>4, <1>5

(***************************************************************************)
(* Sets of replicas are small.                                             *)
(***************************************************************************)
LEMMA ReplicaSets ==
  ASSUME NEW S \in SUBSET Replica
  PROVE  /\ Cardinality(S) \in Nat
         /\ Cardinality(S) = 0 <=> S = {}
         /\ Cardinality(S) = 1 <=> \E r \in Replica : S = {r}
<1>1. IsFiniteSet(Replica)
  <2>1. 0 \in Int /\ 2 \in Int
    OBVIOUS
  <2>2. QED  BY <2>1, FS_Interval DEF Replica
<1>2. IsFiniteSet(S)
  BY <1>1, FS_Subset
<1>3. Cardinality(S) \in Nat /\ (Cardinality(S) = 0 <=> S = {})
  BY <1>2, FS_CardinalityType, FS_EmptySet
<1>4. Cardinality(S) = 1 <=> \E r : S = {r}
  BY <1>2, FS_Singleton
<1>5. QED  BY <1>3, <1>4

LEMMA NamingNames ==
  ASSUME NEW S \in SUBSET Replica
  PROVE  /\ \A r \in Replica : Naming(S) = r + 1 <=> S = {r}
         /\ Naming(S) >= 4 <=> Cardinality(S) > 1
         /\ Naming(S) = 0 <=> S = {}
<1>1. Replica = {0, 1, 2}
  BY DEF Replica
<1>2. CASE S = {}
  <2>1. Cardinality(S) = 0 /\ Naming(S) = 0
    BY <1>2, ReplicaSets DEF Naming, Blamed
  <2>2. QED  BY <1>1, <1>2, <2>1
<1>3. CASE \E r \in Replica : S = {r}
  <2>1. PICK r \in Replica : S = {r}
    BY <1>3
  <2>2. Cardinality(S) = 1 /\ Naming(S) = r + 1
    BY <1>1, <2>1, ReplicaSets DEF Naming, Blamed
  <2>3. QED  BY <1>1, <2>1, <2>2
<1>4. CASE S # {} /\ ~\E r \in Replica : S = {r}
  <2>1. Cardinality(S) > 1
    BY <1>4, ReplicaSets
  <2>2. Blamed(S) \in 1 .. 3
    <3>1. 0 \in S \/ 1 \in S \/ 2 \in S
      BY <1>1, <1>4
    <3>2. QED  BY <3>1 DEF Blamed
  <2>3. Naming(S) >= 4
    BY <2>1, <2>2 DEF Naming
  <2>4. \A r \in Replica : r + 1 < 4 /\ Naming(S) # r + 1 /\ S # {r}
    BY <1>1, <1>4, <2>3
  <2>5. Naming(S) # 0
    BY <2>3
  <2>6. QED  BY <1>4, <2>1, <2>3, <2>4, <2>5
<1>5. QED  BY <1>2, <1>3, <1>4

(***************************************************************************)
(* EBIT_MODE 0: the alarm of a partition or voter module is exact, with    *)
(* two edges of delay, however many signals it votes on.                   *)
(***************************************************************************)
THEOREM AlarmExact == Spec => []AlarmIsExact
<1>1. Pipeline => AlarmIsExact
  <2> SUFFICES ASSUME Pipeline, EBIT_MODE = 0, age >= 2
               PROVE  PV_e = 1 <=> Outvoted(past[2]) # {}
    BY DEF AlarmIsExact
  <2>1. PV_e = Cardinality(Seen(past[2]))
    BY DEF Pipeline
  <2>2. {} \in SUBSET Replica /\ {0} \in SUBSET Replica /\ 0 \in Replica
    BY DEF Replica
  <2>3. Cardinality({}) = 0 /\ Cardinality({0}) = 1
    BY <2>2, ReplicaSets
  <2>4. QED  BY <2>1, <2>3, BitShowsMismatch
<1>2. QED  BY <1>1, PipelineInvariant, PTL

(***************************************************************************)
(* EBIT_MODE 2: the status names the only outvoted replica, and says so    *)
(* when there are several, with three edges of delay.                      *)
(***************************************************************************)
THEOREM DiagnosisExact == Spec => []DiagnosisIsExact
<1>1. Pipeline => DiagnosisIsExact
  <2> SUFFICES ASSUME Pipeline, EBIT_MODE = 2, age = 3
               PROVE  LET O == Outvoted(past[3]) IN
                        /\ \A r \in Replica : PV_e = r + 1 <=> O = {r}
                        /\ PV_e >= 4 <=> Cardinality(O) > 1
                        /\ PV_e = 0 <=> O = {}
    BY DEF DiagnosisIsExact
  <2>1. PV_e = Naming(Outvoted(past[3]))
    BY CodeNamesOutvoted DEF Pipeline
  <2>2. Outvoted(past[3]) \in SUBSET Replica
    BY DEF Outvoted
  <2>3. QED  BY <2>1, <2>2, NamingNames
<1>2. QED  BY <1>1, PipelineInvariant, PTL

=============================================================================
