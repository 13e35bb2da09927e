---------------------- MODULE ModuloScheduler_proofs ------------------------
(***************************************************************************)
(* Proof that the SDC schedulers deliver schedules: for any loop body, any *)
(* number of functional units of any kind and any budget, the reservation  *)
(* table follows the start times through all evictions, no instruction is  *)
(* lost, a schedule that is accepted is complete and meets every           *)
(* dependence, and no assertion fails: the solver finds the least solution *)
(* whenever there is one, and eviction always makes room.                  *)
(***************************************************************************)
EXTENDS ModuloScheduler, FiniteSetTheorems, TLAPS

(***************************************************************************)
(* Finite sets of integers have a least and a greatest element.            *)
(***************************************************************************)
LEMMA LeastExists ==
  ASSUME NEW S \in SUBSET Int, IsFiniteSet(S), S # {}
  PROVE  \E x \in S : \A y \in S : x <= y
<1> DEFINE Below(x) == {y \in S : y < x}
           Family == {Below(x) : x \in S}
<1>1. Family \subseteq FiniteSubsetsOf(S) /\ Family # {}
  <2>1. \A x \in S : Below(x) \in SUBSET S /\ IsFiniteSet(Below(x))
    BY FS_Subset
  <2> QED BY <2>1 DEF FiniteSubsetsOf
<1>2. PICK A \in Family : \A B \in Family : ~(<<B, A>> \in StrictSubsetOrdering(S))
  <2>1. IsWellFoundedOn(StrictSubsetOrdering(S), FiniteSubsetsOf(S))
    BY FS_StrictSubsetOrderingWellFounded
  <2> HIDE DEF Family
  <2> QED BY <1>1, <2>1, WFMin
<1>3. PICK x \in S : A = Below(x)
  OBVIOUS
<1>4. SUFFICES ASSUME NEW y \in S, ~(x <= y) PROVE FALSE
  OBVIOUS
<1>5. Below(y) \subseteq Below(x) /\ Below(y) # Below(x)
  <2>1. y \in Below(x) /\ y \notin Below(y)
    BY <1>4
  <2>2. ASSUME NEW z \in Below(y) PROVE z \in Below(x)
    <3>1. z \in Int /\ y \in Int /\ x \in Int
      OBVIOUS
    <3> QED BY <1>4, <3>1
  <2> QED BY <2>1, <2>2
<1>6. <<Below(y), Below(x)>> \in StrictSubsetOrdering(S)
  BY <1>5 DEF StrictSubsetOrdering
<1> QED BY <1>2, <1>3, <1>6

LEMMA MinIn ==
  ASSUME NEW S \in SUBSET Int, IsFiniteSet(S), S # {}
  PROVE  Min(S) \in S /\ \A y \in S : Min(S) <= y
BY LeastExists DEF Min

LEMMA MaxIn ==
  ASSUME NEW S \in SUBSET Int, IsFiniteSet(S), S # {}
  PROVE  Max(S) \in S /\ \A y \in S : y <= Max(S)
<1> DEFINE Above(x) == {y \in S : y > x}
           Family == {Above(x) : x \in S}
<1>1. Family \subseteq FiniteSubsetsOf(S) /\ Family # {}
  <2>1. \A x \in S : Above(x) \in SUBSET S /\ IsFiniteSet(Above(x))
    BY FS_Subset
  <2> QED BY <2>1 DEF FiniteSubsetsOf
<1>2. PICK A \in Family : \A B \in Family : ~(<<B, A>> \in StrictSubsetOrdering(S))
  <2>1. IsWellFoundedOn(StrictSubsetOrdering(S), FiniteSubsetsOf(S))
    BY FS_StrictSubsetOrderingWellFounded
  <2> HIDE DEF Family
  <2> QED BY <1>1, <2>1, WFMin
<1>3. PICK x \in S : A = Above(x)
  OBVIOUS
<1>4. \A y \in S : x >= y
  <2> SUFFICES ASSUME NEW y \in S, ~(x >= y) PROVE FALSE
    OBVIOUS
  <2>1. y \in Above(x) /\ y \notin Above(y)
    <3>1. y \in Int /\ x \in Int
      OBVIOUS
    <3> QED BY <3>1
  <2>2. ASSUME NEW z \in Above(y) PROVE z \in Above(x)
    <3>1. z \in Int /\ y \in Int /\ x \in Int
      OBVIOUS
    <3> QED BY <3>1
  <2>3. <<Above(y), Above(x)>> \in StrictSubsetOrdering(S)
    BY <2>1, <2>2 DEF StrictSubsetOrdering
  <2> QED BY <1>2, <1>3, <2>3
<1> QED BY <1>4 DEF Max

LEMMA BetweenFinite ==
  ASSUME NEW a \in Int, NEW b \in Int, NEW S \in SUBSET (a .. b)
  PROVE  IsFiniteSet(S) /\ S \in SUBSET Int
<1>1. IsFiniteSet(a .. b)
  BY FS_Interval
<1>2. IsFiniteSet(S)
  BY <1>1, FS_Subset
<1> QED BY <1>2

-----------------------------------------------------------------------------
LEMMA InstFinite == IsFiniteSet(Inst) /\ \A S \in SUBSET Inst : IsFiniteSet(S)
<1>1. 0 \in Int /\ N-1 \in Int
  BY NAssumption
<1>2. IsFiniteSet(Inst)
  BY <1>1, FS_Interval DEF Inst
<1> QED BY <1>2, FS_Subset

(***************************************************************************)
(* The interval at which scheduling starts.                                *)
(***************************************************************************)
LEMMA IntervalType ==
  ASSUME NEW k, IsKernel(k), HasMII(k)
  PROVE  /\ MII(k) \in Nat \ {0}
         /\ Min(Recurrent(k)) \in Recurrent(k) /\ Min(Recurrent(k)) <= MII(k)
<1>1. Min(Recurrent(k)) \in Nat \ {0} /\ Min(Recurrent(k)) \in Recurrent(k)
  <2>1. largestPossibleII \in Int
    BY NAssumption DEF largestPossibleII
  <2>2. Recurrent(k) \subseteq 1 .. largestPossibleII /\ Recurrent(k) # {}
    BY DEF Recurrent, HasMII
  <2>3. IsFiniteSet(Recurrent(k))
    BY <2>1, <2>2, FS_Interval, FS_Subset
  <2>4. Recurrent(k) \in SUBSET Int
    BY <2>1, <2>2
  <2>5. Min(Recurrent(k)) \in Recurrent(k)
    BY <2>2, <2>3, <2>4, MinIn
  <2> QED BY <2>1, <2>2, <2>5
<1>2. resourceMII(k) \in Nat \ {0}
  <2> DEFINE Needs(f) == CeilDiv(Cardinality({i \in Inst : k.unit[i] = f}), numIssueSlots[f])
             S == {Needs(f) : f \in FU}
             g == [f \in FU |-> Needs(f)]
  <2>1. \A f \in FU : Needs(f) \in Int
    <3> SUFFICES ASSUME NEW f \in FU PROVE Needs(f) \in Int
      OBVIOUS
    <3>1. IsFiniteSet({i \in Inst : k.unit[i] = f})
      <4>1. {i \in Inst : k.unit[i] = f} \in SUBSET Inst
        OBVIOUS
      <4> QED BY <4>1, InstFinite
    <3>2. Cardinality({i \in Inst : k.unit[i] = f}) \in Nat
      BY <3>1, FS_CardinalityType
    <3>3. numIssueSlots[f] \in Nat \ {0}
      BY UnitsAssumption
    <3> QED BY <3>2, <3>3 DEF CeilDiv
  <2>2. g \in Surjection(FU, S)
    BY DEF Surjection
  <2>3. IsFiniteSet(S)
    BY <2>2, UnitsAssumption, FS_Surjection
  <2>4. IsFiniteSet({1} \cup S)
    BY <2>3, FS_Singleton, FS_Union
  <2>5. {1} \cup S \in SUBSET Int
    <3> HIDE DEF Needs
    <3>1. S \subseteq Int
      BY <2>1
    <3> HIDE DEF S
    <3> QED BY <3>1
  <2>6. Max({1} \cup S) \in {1} \cup S /\ Max({1} \cup S) >= 1
    <3> HIDE DEF S
    <3> QED BY <2>4, <2>5, MaxIn
  <2>7. resourceMII(k) = Max({1} \cup S)
    BY DEF resourceMII
  <2> HIDE DEF S
  <2> QED BY <2>5, <2>6, <2>7
<1>3. LET P == {Min(Recurrent(k)), resourceMII(k)} IN IsFiniteSet(P) /\ P \in SUBSET Int
  <2>1. ASSUME NEW a, NEW b PROVE IsFiniteSet({a, b})
    <3>1. IsFiniteSet({a}) /\ IsFiniteSet({b})
      BY FS_Singleton
    <3>2. IsFiniteSet({a} \cup {b}) /\ {a} \cup {b} = {a, b}
      BY <3>1, FS_Union
    <3> QED BY <3>2
  <2>2. IsFiniteSet({Min(Recurrent(k)), resourceMII(k)})
    BY <2>1
  <2> QED BY <1>1, <1>2, <2>2
<1> QED BY <1>1, <1>2, <1>3, MaxIn DEF MII

-----------------------------------------------------------------------------
(***************************************************************************)
(* Queues: sequences that hold nothing twice.                              *)
(***************************************************************************)
IsQueue(q, S) == q \in Seq(S) /\ IsInjective(q)

LEMMA RemovedFrom ==
  ASSUME NEW S, NEW q, IsQueue(q, S), NEW n \in DOMAIN q
  PROVE  /\ IsQueue(RemoveAt(q, n), S)
         /\ ToSet(RemoveAt(q, n)) = ToSet(q) \ {q[n]}
<1> DEFINE r == RemoveAt(q, n)
<1>1. n \in 1 .. Len(q) /\ Len(q) \in Nat /\ q \in Seq(S)
  BY DEF IsQueue
<1>2. /\ r \in Seq(S)
      /\ Len(r) = Len(q) - 1
      /\ \A m \in 1 .. Len(r) : r[m] = IF m < n THEN q[m] ELSE q[m+1]
  <2> DEFINE a == SubSeq(q, 1, n-1)
             b == SubSeq(q, n+1, Len(q))
  <2>1. a \in Seq(S) /\ Len(a) = n-1 /\ \A m \in 1 .. n-1 : a[m] = q[m]
    BY <1>1
  <2>2. b \in Seq(S) /\ Len(b) = Len(q) - n /\ \A m \in 1 .. Len(q) - n : b[m] = q[m + n]
    BY <1>1
  <2>3. r = a \o b
    BY DEF RemoveAt
  <2> HIDE DEF a, b, r
  <2>4. r \in Seq(S) /\ Len(r) = Len(q) - 1
    BY <1>1, <2>1, <2>2, <2>3
  <2>5. ASSUME NEW m \in 1 .. Len(r) PROVE r[m] = IF m < n THEN q[m] ELSE q[m+1]
    <3>1. CASE m < n
      BY <3>1, <1>1, <2>1, <2>2, <2>3, <2>4
    <3>2. CASE m >= n
      <4>1. m - (n-1) \in 1 .. Len(q) - n /\ r[m] = b[m - (n-1)]
        BY <3>2, <1>1, <2>1, <2>2, <2>3, <2>4
      <4>2. (m - (n-1)) + n = m + 1
        BY <1>1, <2>4
      <4>3. b[m - (n-1)] = q[m + 1]
        BY <4>1, <4>2, <2>2
      <4>4. ~(m < n)
        BY <3>2, <1>1, <2>4
      <4> QED BY <4>1, <4>3, <4>4
    <3> QED BY <3>1, <3>2, <1>1, <2>4
  <2> QED BY <2>4, <2>5
<1> HIDE DEF r
<1>3. IsInjective(r)
  BY <1>1, <1>2 DEF IsInjective, IsQueue
<1>4. ToSet(r) = ToSet(q) \ {q[n]}
  <2>1. \A m \in 1 .. Len(r) : r[m] \in ToSet(q) \ {q[n]}
    BY <1>1, <1>2 DEF ToSet, IsInjective, IsQueue
  <2>2. ASSUME NEW m \in 1 .. Len(q), q[m] # q[n] PROVE q[m] \in ToSet(r)
    <3>1. CASE m < n
      <4>1. m \in 1 .. Len(r) /\ r[m] = q[m]
        BY <3>1, <1>1, <1>2
      <4> QED BY <4>1, <1>2 DEF ToSet
    <3>2. CASE m > n
      <4>1. m-1 \in 1 .. Len(r) /\ r[m-1] = q[m]
        BY <3>2, <1>1, <1>2
      <4> QED BY <4>1, <1>2 DEF ToSet
    <3> QED BY <3>1, <3>2, <2>2, <1>1
  <2> QED BY <2>1, <2>2, <1>1, <1>2 DEF ToSet
<1> QED BY <1>2, <1>3, <1>4 DEF IsQueue, r

IsJoin(s, q, r) == s = q \o r

LEMMA Appended ==
  ASSUME NEW S, NEW q, NEW r, IsQueue(q, S), IsQueue(r, S), ToSet(q) \cap ToSet(r) = {},
         NEW s, IsJoin(s, q, r)
  PROVE  IsQueue(s, S) /\ ToSet(s) = ToSet(q) \cup ToSet(r)
<1>1. /\ q \in Seq(S) /\ r \in Seq(S) /\ s \in Seq(S)
      /\ Len(q) \in Nat /\ Len(r) \in Nat
      /\ Len(s) = Len(q) + Len(r)
      /\ \A m \in 1 .. Len(s) : s[m] = IF m <= Len(q) THEN q[m] ELSE r[m - Len(q)]
  <2>1. q \in Seq(S) /\ r \in Seq(S)
    BY DEF IsQueue
  <2> QED BY <2>1 DEF IsJoin
<1>a. DOMAIN q = 1 .. Len(q) /\ DOMAIN r = 1 .. Len(r) /\ DOMAIN s = 1 .. Len(s)
  BY <1>1
<1>2. \A m \in 1 .. Len(q) : m \in 1 .. Len(s) /\ s[m] = q[m] /\ q[m] \in ToSet(q)
  BY <1>1 DEF ToSet
<1>3. \A m \in 1 .. Len(r) : m + Len(q) \in 1 .. Len(s) /\ s[m + Len(q)] = r[m] /\ r[m] \in ToSet(r)
  <2> SUFFICES ASSUME NEW m \in 1 .. Len(r)
               PROVE  m + Len(q) \in 1 .. Len(s) /\ s[m + Len(q)] = r[m] /\ r[m] \in ToSet(r)
    OBVIOUS
  <2>1. /\ m + Len(q) \in 1 .. Len(s) /\ (m + Len(q)) - Len(q) = m
        /\ ~(m + Len(q) <= Len(q))
    BY <1>1
  <2>2. s[m + Len(q)] = r[m]
    BY <2>1, <1>1
  <2> QED BY <2>1, <2>2, <1>a DEF ToSet
<1>4. \A m \in 1 .. Len(s) :
        (m <= Len(q) /\ m \in 1 .. Len(q)) \/ (m > Len(q) /\ m - Len(q) \in 1 .. Len(r))
  BY <1>1
<1>5. IsInjective(s)
  <2> SUFFICES ASSUME NEW a \in 1 .. Len(s), NEW b \in 1 .. Len(s), s[a] = s[b], a < b
               PROVE  FALSE
    BY <1>1 DEF IsInjective
  <2>1. CASE b <= Len(q)
    <3>1. a \in 1 .. Len(q) /\ b \in 1 .. Len(q)
      BY <2>1, <1>1
    <3>2. q[a] = q[b]
      BY <3>1, <1>2
    <3>3. a = b
      BY <3>1, <3>2, <1>a DEF IsInjective, IsQueue
    <3> QED BY <3>3, <1>1
  <2>2. CASE a > Len(q)
    <3>1. b > Len(q)
      BY <2>2, <1>1
    <3>2. /\ a - Len(q) \in 1 .. Len(r) /\ s[a] = r[a - Len(q)]
          /\ b - Len(q) \in 1 .. Len(r) /\ s[b] = r[b - Len(q)]
      BY <2>2, <3>1, <1>1
    <3>3. a - Len(q) = b - Len(q)
      BY <3>2, <1>a DEF IsInjective, IsQueue
    <3> QED BY <3>3, <1>1
  <2>3. CASE a <= Len(q) /\ b > Len(q)
    <3>1. s[a] \in ToSet(q)
      BY <2>3, <1>2, <1>4
    <3>2. s[b] \in ToSet(r)
      BY <2>3, <1>1, <1>3, <1>4
    <3> QED BY <3>1, <3>2
  <2> QED BY <2>1, <2>2, <2>3, <1>1
<1>6. ToSet(s) = ToSet(q) \cup ToSet(r)
  <2>1. ASSUME NEW m \in 1 .. Len(s) PROVE s[m] \in ToSet(q) \cup ToSet(r)
    <3>1. CASE m <= Len(q) /\ m \in 1 .. Len(q)
      BY <3>1, <1>1, <1>2
    <3>2. CASE m > Len(q) /\ m - Len(q) \in 1 .. Len(r)
      <4>1. s[m] = r[m - Len(q)]
        BY <3>2, <1>1
      <4> QED BY <4>1, <3>2, <1>3
    <3> QED BY <3>1, <3>2, <1>4
  <2>2. \A m \in 1 .. Len(q) : q[m] \in ToSet(s)
    BY <1>a, <1>2 DEF ToSet
  <2>3. \A m \in 1 .. Len(r) : r[m] \in ToSet(s)
    BY <1>a, <1>3 DEF ToSet
  <2>4. /\ ToSet(q) = {q[m] : m \in 1 .. Len(q)} /\ ToSet(r) = {r[m] : m \in 1 .. Len(r)}
        /\ ToSet(s) = {s[m] : m \in 1 .. Len(s)}
    BY <1>a DEF ToSet
  <2> QED BY <2>1, <2>2, <2>3, <2>4
<1> QED BY <1>1, <1>5, <1>6 DEF IsQueue

LEMMA Enumerated ==
  ASSUME NEW S, IsFiniteSet(S), NEW s \in [1 .. Cardinality(S) -> S],
         \A m, n \in 1 .. Cardinality(S) : m # n => s[m] # s[n]
  PROVE  IsQueue(s, S) /\ ToSet(s) = S
<1>1. Cardinality(S) \in Nat
  BY FS_CardinalityType
<1>2. s \in Injection(1 .. Cardinality(S), S)
  BY DEF Injection, IsInjective
<1>3. Cardinality(1 .. Cardinality(S)) = Cardinality(S)
  <2> DEFINE c == Cardinality(S)
  <2>1. c \in Int /\ 1 \in Int
    BY <1>1
  <2> HIDE DEF c
  <2>2. Cardinality(1 .. c) = IF 1 > c THEN 0 ELSE c - 1 + 1
    BY <2>1, FS_Interval
  <2>3. c \in Nat
    BY <1>1 DEF c
  <2> QED BY <2>2, <2>3 DEF c
<1>4. s \in Surjection(1 .. Cardinality(S), S)
  BY <1>2, <1>3, FS_Injection
<1>5. ToSet(s) = S
  BY <1>4 DEF Surjection, ToSet
<1>6. s \in Seq(S)
  BY <1>1
<1>7. IsInjective(s)
  BY DEF IsInjective
<1> QED BY <1>5, <1>6, <1>7 DEF IsQueue

-----------------------------------------------------------------------------
(***************************************************************************)
(* The reservation table.                                                  *)
(***************************************************************************)
LEMMA CellIs ==
  ASSUME NEW c
  PROVE  c \in Cell <=> \E f \in FU : \E s \in 0 .. numIssueSlots[f] - 1 : \E t \in 0 .. II-1 :
                          c = <<f, s, t>>
BY DEF Cell

\* the cell that PutInto fills
IsFirst(c, table, i, t) ==
  /\ c \in CellsAt(i, t) /\ table[c] = NULL
  /\ \A d \in CellsAt(i, t) : table[d] = NULL => c[2] <= d[2]

LEMMA FirstIsUnique ==
  ASSUME NEW table, NEW i \in Inst, NEW t, IsKernel(kernel), II \in Nat \ {0},
         NEW e \in CellsAt(i, t), table[e] = NULL
  PROVE  \E c \in Cell : \A d \in Cell : IsFirst(d, table, i, t) <=> d = c
<1> DEFINE empty == {c \in CellsAt(i, t) : table[c] = NULL}
           slots == {c[2] : c \in empty}
<1>1. PICK f \in FU : f = kernel.unit[i]
  BY CellIs DEF CellsAt
<1>2. numIssueSlots[f] \in Nat \ {0}
  BY UnitsAssumption
<1>3. ASSUME NEW c \in CellsAt(i, t)
      PROVE  /\ c \in Cell /\ c[2] \in 0 .. numIssueSlots[f] - 1
             /\ c = <<f, c[2], t % II>>
  BY <1>1, <1>2, <1>3, CellIs DEF CellsAt
<1>4. slots \subseteq 0 .. numIssueSlots[f] - 1 /\ slots # {}
  BY <1>3
<1>5. IsFiniteSet(slots) /\ slots \in SUBSET Int
  <2>1. 0 \in Int /\ numIssueSlots[f] - 1 \in Int
    BY <1>2
  <2>2. slots \in SUBSET (0 .. numIssueSlots[f] - 1)
    BY <1>4
  <2> HIDE DEF slots
  <2>3. IsFiniteSet(slots)
    BY <2>1, <2>2, FS_Interval, FS_Subset
  <2> QED BY <2>1, <2>2, <2>3
<1>6. PICK s \in slots : \A r \in slots : s <= r
  <2> HIDE DEF slots
  <2> QED BY <1>4, <1>5, LeastExists
<1>7. PICK c \in empty : c[2] = s
  OBVIOUS
<1>8. IsFirst(c, table, i, t)
  BY <1>6, <1>7 DEF IsFirst
<1>9. ASSUME NEW d \in Cell, IsFirst(d, table, i, t) PROVE d = c
  <2>1. d[2] <= c[2] /\ c[2] <= d[2]
    BY <1>8, <1>9 DEF IsFirst
  <2>2. d[2] = c[2]
    BY <2>1, <1>2, <1>3, <1>8, <1>9 DEF IsFirst
  <2> QED BY <2>2, <1>3, <1>8, <1>9 DEF IsFirst
<1> QED BY <1>3, <1>8, <1>9

\* what TableMatchesTimes says, and the types it takes for granted
TableExact ==
  /\ DOMAIN schedTime \subseteq Inst
  /\ \A i \in DOMAIN schedTime : schedTime[i] \in Int
  /\ reservationTable \in [Cell -> Inst \cup {NULL}]
  /\ \A i \in Inst :
       IF Constrained(i) /\ i \in DOMAIN schedTime
       THEN \E c \in CellsAt(i, schedTime[i]) : CellsOf(i) = {c}
       ELSE CellsOf(i) = {}

LEMMA NothingIsNotInst == NULL \notin Inst
BY NAssumption DEF NULL, Inst

LEMMA EvictKeepsTable ==
  ASSUME TableExact, IsKernel(kernel), II \in Nat \ {0}, UNCHANGED <<kernel, II>>,
         NEW S \in SUBSET Inst, NEW i \in Inst, i \notin DOMAIN schedTime, NEW t \in Int,
         Constrained(i) => \E c \in CellsAt(i, t) : Without(S)[c] = NULL,
         Evict(S, i, t)
  PROVE  TableExact'
<1> DEFINE W == Without(S)
<1>1. Cell' = Cell /\ \A j, u : CellsAt(j, u)' = CellsAt(j, u)
  BY DEF Cell, CellsAt
<1>2. \A j : Constrained(j)' <=> Constrained(j)
  BY DEF Constrained, isResourceConstrained
<1>3. /\ DOMAIN schedTime' = (DOMAIN schedTime \ S) \cup {i}
      /\ schedTime'[i] = t
      /\ \A j \in DOMAIN schedTime \ S : j # i /\ schedTime'[j] = schedTime[j]
  BY DEF Evict, Fix
<1>4. reservationTable' = PutInto(W, i, t)
  BY DEF Evict
<1>5. W \in [Cell -> Inst \cup {NULL}]
  BY DEF Without, TableExact
<1>6. \A j \in Inst : {c \in Cell : W[c] = j} = IF j \in S THEN {} ELSE CellsOf(j)
  BY NothingIsNotInst DEF Without, CellsOf, TableExact
<1>7. \A c \in Cell : reservationTable'[c] = IF IsFirst(c, W, i, t) THEN i ELSE W[c]
  BY <1>4 DEF PutInto, IsFirst
<1>8. reservationTable' \in [Cell -> Inst \cup {NULL}]
  <2>1. reservationTable' = [c \in Cell |-> reservationTable'[c]]
    BY <1>4 DEF PutInto
  <2> QED BY <2>1, <1>5, <1>7
<1>9. CellsOf(i) = {}
  BY DEF TableExact
<1>10. CASE Constrained(i)
  <2>1. PICK c \in Cell : \A d \in Cell : IsFirst(d, W, i, t) <=> d = c
    <3>1. PICK e \in CellsAt(i, t) : W[e] = NULL
      BY <1>10
    <3> HIDE DEF W
    <3> QED BY <3>1, FirstIsUnique
  <2>2. c \in CellsAt(i, t) /\ W[c] = NULL
    BY <2>1 DEF IsFirst
  <2>3. \A d \in Cell : reservationTable'[d] = IF d = c THEN i ELSE W[d]
    BY <2>1, <1>7
  <2>4. CellsOf(i)' = {c}
    <3>1. \A d \in Cell : W[d] # i
      BY <1>6, <1>9
    <3> QED BY <1>1, <2>3, <3>1 DEF CellsOf
  <2>5. \A j \in Inst \ {i} : CellsOf(j)' = IF j \in S THEN {} ELSE CellsOf(j)
    <3> SUFFICES ASSUME NEW j \in Inst \ {i}
                 PROVE  CellsOf(j)' = {d \in Cell : W[d] = j}
      BY <1>6
    <3> HIDE DEF W
    <3> QED BY <1>1, <2>2, <2>3, NothingIsNotInst DEF CellsOf
  <2> HIDE DEF W
  <2> QED BY <1>1, <1>2, <1>3, <1>8, <1>10, <2>2, <2>4, <2>5 DEF TableExact
<1>11. CASE ~Constrained(i)
  <2>1. CellsAt(i, t) = {}
    BY <1>11, UnitsAssumption, CellIs DEF CellsAt, Constrained, isResourceConstrained
  <2>2. \A c \in Cell : reservationTable'[c] = W[c]
    BY <1>7, <2>1 DEF IsFirst
  <2>3. \A j \in Inst : CellsOf(j)' = IF j \in S THEN {} ELSE CellsOf(j)
    <3> SUFFICES ASSUME NEW j \in Inst
                 PROVE  CellsOf(j)' = {d \in Cell : W[d] = j}
      BY <1>6
    <3> HIDE DEF W
    <3> QED BY <1>1, <2>2 DEF CellsOf
  <2> HIDE DEF W
  <2> QED BY <1>1, <1>2, <1>3, <1>8, <1>9, <1>11, <2>3 DEF TableExact
<1> QED BY <1>10, <1>11

-----------------------------------------------------------------------------
(***************************************************************************)
(* The invariant: the books agree with each other and, for the SDC         *)
(* schedulers, with the constraints, which the last solution satisfies.    *)
(***************************************************************************)
Limited == {i \in Inst : Constrained(i)}

QueueExact ==
  /\ unscheduledInsts = Inst \ DOMAIN schedTime
  /\ SDC => /\ DOMAIN schedTime \subseteq Limited
            /\ IsQueue(queue, Inst)
            /\ ToSet(queue) = Limited \ DOMAIN schedTime
            /\ unscheduledInstsConstrained = ToSet(queue)

SolutionExact ==
  /\ bounds \in Bounds
  /\ prevSchedTime \in [Inst -> Nat \cup {NULL}]
  /\ Feasible(C, NoBounds)
  /\ Satisfies(sdcSchedTime, C, bounds)
  /\ \A i \in DOMAIN schedTime : schedTime[i] \in Nat
  /\ \A i \in Inst :
       bounds.exactly[i] = IF i \in DOMAIN schedTime THEN schedTime[i] ELSE Free

Invariant ==
  /\ kernel \in Kernels /\ scheduler \in Schedulers /\ II \in Nat \ {0}
  /\ phase \in {"schedule", "done"} => TableExact
  /\ phase = "schedule" => /\ prevSchedTime \in [Inst -> Int]
                           /\ QueueExact
                           /\ SDC => SolutionExact
  /\ phase = "done" /\ SDC => TimesAreValid

(***************************************************************************)
(* Instructions that share a clock of the interval hold different cells of *)
(* it, and there is one for each unit.                                     *)
(***************************************************************************)
LEMMA TableIsLimit ==
  ASSUME TableExact, IsKernel(kernel), NEW f \in FU, NEW s \in 0 .. II-1
  PROVE  Cardinality(Sharing(f, s)) <= numIssueSlots[f]
<1> DEFINE slots == 0 .. numIssueSlots[f] - 1
           at(i) == {t \in slots : reservationTable[<<f, t, s>>] = i}
           slot == [i \in Sharing(f, s) |-> CHOOSE t \in slots : t \in at(i)]
<1>1. /\ numIssueSlots[f] \in Nat \ {0} /\ NoUnit \notin FU
      /\ \A t \in slots : <<f, t, s>> \in Cell
  BY UnitsAssumption DEF Cell
<1>2. ASSUME NEW i \in Sharing(f, s) PROVE \E t \in slots : t \in at(i)
  <2>1. i \in Inst /\ Constrained(i) /\ i \in DOMAIN schedTime
    BY <1>1 DEF Sharing, Constrained, isResourceConstrained, TableExact
  <2>2. PICK c \in CellsAt(i, schedTime[i]) : CellsOf(i) = {c}
    BY <2>1 DEF TableExact
  <2>3. c \in Cell /\ c[1] = f /\ c[3] = s /\ reservationTable[c] = i
    BY <2>2 DEF CellsAt, CellsOf, Sharing
  <2>4. c = <<f, c[2], s>> /\ c[2] \in slots
    BY <2>3 DEF Cell
  <2> QED BY <2>3, <2>4
<1>3. \A i \in Sharing(f, s) : slot[i] \in slots /\ slot[i] \in at(i)
  BY <1>2
<1>4. slot \in Injection(Sharing(f, s), slots)
  <2>1. slot \in [Sharing(f, s) -> slots]
    BY <1>3
  <2>2. ASSUME NEW i \in Sharing(f, s), NEW j \in Sharing(f, s), slot[i] = slot[j]
        PROVE  i = j
    BY <1>3, <2>2
  <2> QED BY <2>1, <2>2 DEF Injection, IsInjective
<1>5. IsFiniteSet(slots) /\ Cardinality(slots) = numIssueSlots[f]
  <2> DEFINE n == numIssueSlots[f] - 1
  <2>1. n \in Nat /\ n + 1 = numIssueSlots[f]
    BY <1>1
  <2> HIDE DEF n
  <2>2. IsFiniteSet(0 .. n) /\ Cardinality(0 .. n) = n + 1
    BY <2>1, FS_Interval
  <2> QED BY <2>1, <2>2 DEF n
<1> HIDE DEF slot, slots
<1> QED BY <1>4, <1>5, FS_Injection

LEMMA InvariantImplies ==
  ASSUME Invariant
  PROVE  TableMatchesTimes /\ NothingIsLost /\ ScheduleIsValid
<1>1. TableMatchesTimes /\ NothingIsLost
  BY DEF Invariant, TableExact, TableMatchesTimes, QueueExact, NothingIsLost, IsQueue, Limited
<1>2. IsKernel(kernel)
  BY KernelsAssumption DEF Invariant
<1> QED BY <1>1, <1>2, TableIsLimit DEF Invariant, ScheduleIsValid, UnitsSuffice

LEMMA InitEstablishes == Init => Invariant
<1> SUFFICES ASSUME Init PROVE Invariant
  OBVIOUS
<1>1. kernel \in Kernels /\ IsKernel(kernel) /\ scheduler \in Schedulers
  BY KernelsAssumption DEF Init
<1>2. II \in Nat \ {0}
  BY <1>1, IntervalType DEF Init
<1>3. phase \in {"start", "large"}
  BY DEF Init
<1> QED BY <1>1, <1>2, <1>3 DEF Invariant

-----------------------------------------------------------------------------
(***************************************************************************)
(* The queue and the constraints when the n-th of the queue gets time t    *)
(* and S is evicted.                                                       *)
(***************************************************************************)
LEMMA NthOfQueue ==
  ASSUME QueueExact, SDC, NEW n \in DOMAIN queue
  PROVE  queue[n] \in Inst /\ queue[n] \in Limited /\ queue[n] \notin DOMAIN schedTime
BY DEF QueueExact, ToSet, Limited

LEMMA EvictKeepsQueue ==
  ASSUME QueueExact, SDC, NEW n \in DOMAIN queue, NEW S \in SUBSET (DOMAIN schedTime), NEW t,
         NEW last, IsQueue(last, Inst), ToSet(last) = S,
         Evict(S, queue[n], t), Requeue(n, last), UNCHANGED <<kernel, scheduler, II>>
  PROVE  QueueExact'
<1> DEFINE i == queue[n]
<1>1. i \in Inst /\ i \in Limited /\ i \notin DOMAIN schedTime
  BY NthOfQueue
<1>2. /\ DOMAIN schedTime' = (DOMAIN schedTime \ S) \cup {i}
      /\ unscheduledInsts' = (unscheduledInsts \cup S) \ {i}
      /\ unscheduledInstsConstrained' = (unscheduledInstsConstrained \cup S) \ {i}
  BY DEF Evict, Fix
<1>3. SDC' /\ Limited' = Limited
  BY DEF SDC, Limited, Constrained, isResourceConstrained
<1>4. IsQueue(RemoveAt(queue, n), Inst) /\ ToSet(RemoveAt(queue, n)) = ToSet(queue) \ {i}
  BY RemovedFrom DEF QueueExact
<1>5. IsQueue(queue', Inst) /\ ToSet(queue') = (ToSet(queue) \ {i}) \cup S
  <2>1. ToSet(RemoveAt(queue, n)) \cap ToSet(last) = {}
    BY <1>4 DEF QueueExact
  <2> DEFINE rest == RemoveAt(queue, n)
  <2>2. IsJoin(queue', rest, last)
    BY DEF Requeue, IsJoin
  <2> HIDE DEF rest
  <2>3. IsQueue(rest, Inst) /\ IsQueue(last, Inst) /\ ToSet(rest) \cap ToSet(last) = {}
    BY <1>4, <2>1 DEF rest
  <2>4. IsQueue(queue', Inst) /\ ToSet(queue') = ToSet(rest) \cup ToSet(last)
    BY <2>2, <2>3, Appended
  <2> QED BY <1>4, <2>4 DEF rest
<1>6. ToSet(queue)' = ToSet(queue')
  BY DEF ToSet
<1>7. DOMAIN schedTime \subseteq Limited /\ Limited \subseteq Inst
  BY DEF QueueExact, Limited
<1> HIDE DEF i
<1> QED BY <1>1, <1>2, <1>3, <1>5, <1>6, <1>7 DEF QueueExact

LEMMA PushKeepsQueue ==
  ASSUME QueueExact, SDC, NEW n \in DOMAIN queue, Requeue(n, <<queue[n]>>),
         UNCHANGED <<kernel, scheduler, II, schedTime, unscheduledInsts,
                     unscheduledInstsConstrained>>
  PROVE  QueueExact'
<1> DEFINE i == queue[n]
<1>1. i \in Inst /\ i \in ToSet(queue)
  BY NthOfQueue DEF ToSet
<1>2. SDC' /\ Limited' = Limited
  BY DEF SDC, Limited, Constrained, isResourceConstrained
<1>3. IsQueue(RemoveAt(queue, n), Inst) /\ ToSet(RemoveAt(queue, n)) = ToSet(queue) \ {i}
  BY RemovedFrom DEF QueueExact
<1>4. IsQueue(<<i>>, Inst) /\ ToSet(<<i>>) = {i}
  BY <1>1 DEF IsQueue, ToSet, IsInjective
<1>5. IsQueue(queue', Inst) /\ ToSet(queue') = ToSet(queue)
  <2>1. ToSet(RemoveAt(queue, n)) \cap ToSet(<<i>>) = {}
    BY <1>3, <1>4
  <2> DEFINE rest == RemoveAt(queue, n)
             last == <<i>>
  <2>2. IsJoin(queue', rest, last)
    BY DEF Requeue, IsJoin
  <2>3. ToSet(rest) \cup ToSet(last) = ToSet(queue)
    BY <1>1, <1>3, <1>4
  <2>4. IsQueue(rest, Inst) /\ IsQueue(last, Inst) /\ ToSet(rest) \cap ToSet(last) = {}
    BY <1>3, <1>4, <2>1
  <2> HIDE DEF rest, last
  <2>5. IsQueue(queue', Inst) /\ ToSet(queue') = ToSet(rest) \cup ToSet(last)
    BY <2>2, <2>4, Appended
  <2> QED BY <2>3, <2>5
<1>6. ToSet(queue)' = ToSet(queue')
  BY DEF ToSet
<1> QED BY <1>2, <1>5, <1>6 DEF QueueExact

LEMMA FixKeepsSolution ==
  ASSUME SolutionExact, NEW S \in SUBSET (DOMAIN schedTime), NEW i \in Inst, NEW t \in Nat,
         i \notin DOMAIN schedTime, DOMAIN schedTime \subseteq Inst,
         NEW b \in Bounds,
         \A j \in Inst : b.exactly[j] = IF j \in S THEN Free ELSE bounds.exactly[j],
         Evict(S, i, t), bounds' = FixedAt(b, i, t),
         Feasible(C, bounds'), sdcSchedTime' = Solution(C, bounds'), UNCHANGED <<kernel, II>>
  PROVE  SolutionExact'
<1>1. C' = C
  BY DEF C
<1>2. bounds' \in Bounds
  BY DEF Bounds, FixedAt
<1>3. prevSchedTime' \in [Inst -> Nat \cup {NULL}]
  BY DEF SolutionExact, Evict, Fix
<1>4. Satisfies(sdcSchedTime, C, bounds)'
  <2>1. Satisfies(Solution(C, bounds'), C, bounds')
    BY DEF Feasible
  <2> QED BY <1>1, <2>1 DEF Satisfies
<1>5. /\ \A j \in DOMAIN schedTime' : schedTime'[j] \in Nat
      /\ \A j \in Inst :
           bounds'.exactly[j] = IF j \in DOMAIN schedTime' THEN schedTime'[j] ELSE Free
  <2>1. /\ DOMAIN schedTime' = (DOMAIN schedTime \ S) \cup {i}
        /\ schedTime'[i] = t
        /\ \A j \in DOMAIN schedTime \ S : schedTime'[j] = schedTime[j]
    BY DEF Evict, Fix
  <2>2. \A j \in Inst : bounds'.exactly[j] = IF j = i THEN t ELSE b.exactly[j]
    BY DEF FixedAt, Bounds
  <2> QED BY <2>1, <2>2 DEF SolutionExact
<1> QED BY <1>1, <1>2, <1>3, <1>4, <1>5 DEF SolutionExact

LEMMA PushKeepsSolution ==
  ASSUME SolutionExact, NEW i \in Inst, NEW t \in Nat, bounds' = NotBefore(bounds, i, t),
         Feasible(C, bounds'), sdcSchedTime' = Solution(C, bounds'),
         UNCHANGED <<kernel, II, schedTime, prevSchedTime>>
  PROVE  SolutionExact'
<1>1. C' = C
  BY DEF C
<1>2. Max({bounds.atLeast[i], t}) \in Nat
  <2> DEFINE P == {bounds.atLeast[i], t}
  <2>1. P \in SUBSET Int /\ P \subseteq Nat /\ P # {}
    BY DEF SolutionExact, Bounds
  <2>2. IsFiniteSet(P)
    <3>1. IsFiniteSet({bounds.atLeast[i]}) /\ IsFiniteSet({t})
      BY FS_Singleton
    <3>2. IsFiniteSet({bounds.atLeast[i]} \cup {t})
      BY <3>1, FS_Union
    <3>3. P = {bounds.atLeast[i]} \cup {t}
      OBVIOUS
    <3> QED BY <3>2, <3>3
  <2> QED BY <2>1, <2>2, MaxIn
<1>3. bounds' \in Bounds /\ bounds'.exactly = bounds.exactly
  BY <1>2 DEF SolutionExact, Bounds, NotBefore
<1>4. Satisfies(sdcSchedTime, C, bounds)'
  <2>1. Satisfies(Solution(C, bounds'), C, bounds')
    BY DEF Feasible
  <2> QED BY <1>1, <2>1 DEF Satisfies
<1> QED BY <1>1, <1>3, <1>4 DEF SolutionExact

-----------------------------------------------------------------------------
(***************************************************************************)
(* The steps.  An action that leaves the phases in which the scheduler     *)
(* works has nothing to keep but the parameters.                           *)
(***************************************************************************)
LEMMA Leaves ==
  ASSUME Invariant, UNCHANGED loopVars, II' \in Nat \ {0}, phase' \notin {"schedule", "done"}
  PROVE  Invariant'
BY DEF Invariant, loopVars

LEMMA Continues ==
  ASSUME Invariant, UNCHANGED loopVars, II' = II, phase' = "schedule",
         TableExact', QueueExact', prevSchedTime' \in [Inst -> Int], SDC => SolutionExact'
  PROVE  Invariant'
BY DEF Invariant, loopVars, SDC

LEMMA BeginKeeps ==
  ASSUME Invariant, Begin
  PROVE  Invariant'
<1>1. UNCHANGED loopVars /\ II' = II /\ II \in Nat \ {0}
  BY DEF Begin, Invariant
<1>2. UNCHANGED <<kernel, scheduler>> /\ C' = C /\ Cell' = Cell /\ (SDC' <=> SDC)
  BY <1>1 DEF loopVars, C, Cell, SDC
<1>3. CASE phase' = "failed"
  BY <1>1, <1>3, Leaves
<1>4. CASE phase' = "schedule"
  <2>1. schedTime' = << >> /\ DOMAIN schedTime' = {}
    BY DEF Begin
  <2>2. TableExact'
    <3>1. reservationTable' = [c \in Cell |-> NULL]
      BY DEF Begin, EmptyTable
    <3>2. \A i \in Inst : CellsOf(i)' = {}
      BY <1>2, <3>1, NothingIsNotInst DEF CellsOf
    <3>3. reservationTable' \in [Cell -> Inst \cup {NULL}]
      BY <3>1
    <3> QED BY <1>2, <2>1, <3>2, <3>3 DEF TableExact
  <2>3. QueueExact'
    <3>1. Limited' = Limited /\ Limited \in SUBSET Inst /\ IsFiniteSet(Limited)
      BY <1>2, InstFinite DEF Limited, Constrained, isResourceConstrained
    <3>2. unscheduledInsts' = Inst /\ unscheduledInstsConstrained' = Limited
      BY DEF Begin, Limited
    <3>3. queue' \in InOrder(Limited)
      BY DEF Begin, Limited
    <3>4. IsQueue(queue', Limited) /\ ToSet(queue') = Limited
      <4>1. Cardinality(Limited) \in Nat
        BY <3>1, FS_CardinalityType
      <4>2. /\ queue' \in [1 .. Cardinality(Limited) -> Limited]
            /\ \A m, n \in 1 .. Cardinality(Limited) : m < n => queue'[m] < queue'[n]
        BY <3>3 DEF InOrder
      <4>3. \A m \in 1 .. Cardinality(Limited) : queue'[m] \in Int
        <5>1. Inst \subseteq Int
          BY NAssumption DEF Inst
        <5>2. \A m \in 1 .. Cardinality(Limited) : queue'[m] \in Inst
          BY <3>1, <4>2
        <5> QED BY <5>1, <5>2
      <4>4. \A m, n \in 1 .. Cardinality(Limited) : m # n => queue'[m] # queue'[n]
        BY <4>1, <4>2, <4>3
      <4> QED BY <3>1, <4>2, <4>4, Enumerated
    <3>5. IsQueue(queue', Inst)
      BY <3>1, <3>4 DEF IsQueue
    <3>6. ToSet(queue)' = ToSet(queue')
      BY DEF ToSet
    <3> QED BY <2>1, <3>1, <3>2, <3>4, <3>5, <3>6 DEF QueueExact
  <2>4. prevSchedTime' = [i \in Inst |-> NULL] /\ bounds' = NoBounds
    BY DEF Begin
  <2>5. ASSUME SDC PROVE SolutionExact'
    <3>1. Feasible(C, NoBounds) /\ sdcSchedTime' = Solution(C, NoBounds)
      BY <1>4, <2>5 DEF Begin, SDC, ASAP
    <3>2. Satisfies(Solution(C, NoBounds), C, NoBounds)
      BY <3>1 DEF Feasible
    <3>3. Satisfies(sdcSchedTime, C, bounds)'
      BY <1>2, <2>4, <3>1, <3>2 DEF Satisfies
    <3>4. Feasible(C, NoBounds)'
      BY <1>2, <3>1
    <3>5. bounds' \in Bounds /\ \A i \in Inst : bounds'.exactly[i] = Free
      BY <2>4 DEF Bounds, NoBounds
    <3> QED BY <2>1, <2>4, <3>3, <3>4, <3>5 DEF SolutionExact
  <2>6. prevSchedTime' \in [Inst -> Int]
    BY <2>4 DEF NULL
  <2> QED BY <1>1, <1>4, <2>2, <2>3, <2>5, <2>6, Continues
<1> QED BY <1>3, <1>4 DEF Begin

(***************************************************************************)
(* A cell stands for each time of an instruction with a unit; who holds it *)
(* is scheduled.                                                           *)
(***************************************************************************)
LEMMA FirstCell ==
  ASSUME NEW i \in Inst, Constrained(i), NEW t \in Int, IsKernel(kernel), II \in Nat \ {0}
  PROVE  \E c \in CellsAt(i, t) : c[2] = 0
<1> DEFINE f == kernel.unit[i]
           c == <<f, 0, t % II>>
<1>1. f \in FU
  BY DEF Constrained, isResourceConstrained, IsKernel
<1>2. numIssueSlots[f] \in Nat \ {0}
  BY <1>1, UnitsAssumption
<1>3. 0 \in 0 .. numIssueSlots[f] - 1
  BY <1>2
<1>4. t % II \in 0 .. II-1
  OBVIOUS
<1>5. c \in Cell
  BY <1>1, <1>3, <1>4, CellIs
<1> QED BY <1>5 DEF CellsAt

LEMMA HolderIsScheduled ==
  ASSUME TableExact, NEW i, NEW t, NEW c \in CellsAt(i, t), reservationTable[c] # NULL
  PROVE  reservationTable[c] \in DOMAIN schedTime
<1>1. c \in Cell
  BY DEF CellsAt
<1>2. reservationTable[c] \in Inst
  BY <1>1 DEF TableExact
<1>3. CellsOf(reservationTable[c]) # {}
  BY <1>1 DEF CellsOf
<1> QED BY <1>2, <1>3 DEF TableExact

LEMMA NothingEvicted ==
  ASSUME TableExact, NEW i, NEW t, ~resourceConflict(i, t)
  PROVE  Constrained(i) => \E c \in CellsAt(i, t) : Without({})[c] = NULL
BY DEF resourceConflict, Without, CellsAt

(***************************************************************************)
(* The n-th of the queue gets its time t and S, which is queued again, is  *)
(* evicted.                                                                *)
(***************************************************************************)
LEMMA FixingKeeps ==
  ASSUME Invariant, SDC, phase = "schedule", UNCHANGED loopVars, II' = II,
         phase' = "schedule",
         NEW n \in DOMAIN queue, NEW S \in SUBSET (DOMAIN schedTime), NEW t \in Nat,
         Constrained(queue[n]) => \E c \in CellsAt(queue[n], t) : Without(S)[c] = NULL,
         NEW last, IsQueue(last, Inst), ToSet(last) = S,
         Evict(S, queue[n], t), Requeue(n, last),
         NEW b \in Bounds,
         \A j \in Inst : b.exactly[j] = IF j \in S THEN Free ELSE bounds.exactly[j],
         bounds' = FixedAt(b, queue[n], t),
         Feasible(C, bounds'), sdcSchedTime' = Solution(C, bounds')
  PROVE  Invariant'
<1> DEFINE i == queue[n]
<1>1. TableExact /\ QueueExact /\ SolutionExact
  BY DEF Invariant
<1>2. i \in Inst /\ i \notin DOMAIN schedTime
  BY <1>1, NthOfQueue
<1>3. S \in SUBSET Inst /\ DOMAIN schedTime \subseteq Inst
  BY <1>1 DEF TableExact
<1>4. UNCHANGED <<kernel, scheduler, II>> /\ IsKernel(kernel) /\ II \in Nat \ {0} /\ t \in Int
  BY KernelsAssumption DEF loopVars, Invariant
<1>5. TableExact'
  BY <1>1, <1>2, <1>3, <1>4, EvictKeepsTable
<1>6. QueueExact'
  BY <1>1, <1>4, EvictKeepsQueue
<1>7. SolutionExact'
  BY <1>1, <1>2, <1>3, <1>4, FixKeepsSolution
<1>8. prevSchedTime' \in [Inst -> Int]
  BY <1>7 DEF SolutionExact, NULL
<1> QED BY <1>5, <1>6, <1>7, <1>8, Continues

LEMMA PushingKeeps ==
  ASSUME Invariant, SDC, phase = "schedule", UNCHANGED loopVars, II' = II,
         phase' = "schedule",
         NEW n \in DOMAIN queue, Requeue(n, <<queue[n]>>),
         UNCHANGED <<schedTime, prevSchedTime, unscheduledInsts,
                     unscheduledInstsConstrained, reservationTable>>,
         bounds' = NotBefore(bounds, queue[n], sdcSchedTime[queue[n]] + 1),
         Feasible(C, bounds'), sdcSchedTime' = Solution(C, bounds')
  PROVE  Invariant'
<1> DEFINE i == queue[n]
<1>1. TableExact /\ QueueExact /\ SolutionExact /\ prevSchedTime \in [Inst -> Int]
  BY DEF Invariant
<1>2. i \in Inst
  BY <1>1, NthOfQueue
<1>3. sdcSchedTime[i] + 1 \in Nat
  BY <1>1, <1>2 DEF SolutionExact, Satisfies
<1>4. UNCHANGED <<kernel, scheduler, II>>
  BY DEF loopVars
<1>5. TableExact'
  <2>1. Cell' = Cell /\ (\A j, t : CellsAt(j, t)' = CellsAt(j, t))
        /\ \A j : (CellsOf(j)' = CellsOf(j)) /\ (Constrained(j)' <=> Constrained(j))
    BY <1>4 DEF Cell, CellsAt, CellsOf, Constrained, isResourceConstrained
  <2> QED BY <1>1, <2>1 DEF TableExact
<1>6. QueueExact'
  BY <1>1, <1>4, PushKeepsQueue
<1>7. SolutionExact'
  BY <1>1, <1>2, <1>3, <1>4, PushKeepsSolution
<1> QED BY <1>1, <1>5, <1>6, <1>7, Continues

LEMMA NextIILeaves ==
  ASSUME Invariant, UNCHANGED loopVars, NextII
  PROVE  Invariant'
<1>1. II' \in Nat \ {0} /\ phase' \notin {"schedule", "done"}
  BY DEF Invariant, NextII
<1> QED BY <1>1, Leaves

-----------------------------------------------------------------------------
(***************************************************************************)
(* SDC_BACKTRACKING.                                                       *)
(***************************************************************************)
LEMMA ScheduleThereKeeps ==
  ASSUME Invariant, Turn("SDC_BACKTRACKING"), UNCHANGED <<loopVars, II>>,
         NEW n \in DOMAIN queue, ScheduleThere(n)
  PROVE  Invariant'
<1> DEFINE i == queue[n]
           t == sdcSchedTime[i]
           b == FixedAt(bounds, i, t)
<1>1. SDC /\ phase = "schedule" /\ UNCHANGED loopVars /\ II' = II
  BY DEF Turn, SDC
<1>2. TableExact /\ QueueExact /\ SolutionExact
  BY <1>1 DEF Invariant
<1>3. i \in Inst /\ t \in Nat
  BY <1>1, <1>2, NthOfQueue DEF SolutionExact, Satisfies
<1>4. CASE Feasible(C, b)
  <2>1. phase' = "schedule" /\ bounds' = b /\ sdcSchedTime' = Solution(C, b)
    BY <1>1, <1>4 DEF ScheduleThere
  <2>2. Evict({}, i, t) /\ Requeue(n, << >>) /\ ~resourceConflict(i, t)
    BY DEF ScheduleThere
  <2>3. Constrained(i) => \E c \in CellsAt(i, t) : Without({})[c] = NULL
    BY <1>2, <2>2, NothingEvicted
  <2>4. IsQueue(<< >>, Inst) /\ ToSet(<< >>) = {}
    BY DEF IsQueue, ToSet, IsInjective
  <2>5. bounds \in Bounds /\ {} \in SUBSET (DOMAIN schedTime)
    BY <1>2 DEF SolutionExact
  <2> HIDE DEF t
  <2> QED BY <1>1, <1>3, <1>4, <2>1, <2>2, <2>3, <2>4, <2>5, FixingKeeps
<1>5. CASE ~Feasible(C, b)
  <2>1. phase' = "failed" /\ II' \in Nat \ {0}
    BY <1>1, <1>5 DEF ScheduleThere, Invariant
  <2> QED BY <1>1, <2>1, Leaves
<1> QED BY <1>4, <1>5

LEMMA PushLaterKeeps ==
  ASSUME Invariant, Turn("SDC_BACKTRACKING"), UNCHANGED <<loopVars, II>>,
         NEW n \in DOMAIN queue, PushLater(n)
  PROVE  Invariant'
<1>1. SDC /\ phase = "schedule" /\ UNCHANGED loopVars /\ II' = II
  BY DEF Turn, SDC
<1> QED BY <1>1, PushingKeeps DEF PushLater

\* the time found is not before 0, and only what is scheduled is evicted
LEMMA EvictionIsOfScheduled ==
  ASSUME Invariant, Turn("SDC_BACKTRACKING"), NEW i \in Inst, NEW found, found = FirstFeasible(i),
         found # {}
  PROVE  LET t == evictSlot(i, Min(found)) IN
         /\ t \in Nat
         /\ InTheWay(i, t) \in SUBSET (DOMAIN schedTime)
         /\ Others(i, t, InTheWay(i, t)) \in SUBSET (DOMAIN schedTime)
<1> DEFINE t == evictSlot(i, Min(found))
<1>1. TableExact /\ QueueExact /\ SolutionExact /\ IsKernel(kernel) /\ II \in Nat \ {0}
  BY KernelsAssumption DEF Invariant, Turn, SDC
<1>2. sdcSchedTime[i] \in Nat /\ prevSchedTime[i] \in Nat \cup {NULL}
  BY <1>1 DEF SolutionExact, Satisfies
<1>3. Min(found) \in Nat
  <2>1. found \in SUBSET (0 .. sdcSchedTime[i]) /\ found # {}
    BY DEF FirstFeasible
  <2>2. 0 \in Int /\ sdcSchedTime[i] \in Int
    BY <1>2
  <2>3. IsFiniteSet(found) /\ found \in SUBSET Int
    <3> DEFINE first == 0
               last  == sdcSchedTime[i]
    <3>1. first \in Int /\ last \in Int /\ found \in SUBSET (first .. last)
      BY <2>1, <2>2
    <3> HIDE DEF first, last
    <3> QED BY <3>1, BetweenFinite
  <2>4. Min(found) \in found
    BY <2>1, <2>3, MinIn
  <2> QED BY <1>2, <2>1, <2>4
<1>4. t \in Nat
  BY <1>2, <1>3 DEF evictSlot, NULL
<1> HIDE DEF t
<1>5. InTheWay(i, t) \in SUBSET (DOMAIN schedTime)
  <2>1. CASE resourceConflict(i, t)
    <3>1. Constrained(i) /\ \A c \in CellsAt(i, t) : reservationTable[c] # NULL
      BY <2>1 DEF resourceConflict
    <3>2. \E c \in CellsAt(i, t) : c[2] = 0
      BY <1>1, <1>4, <3>1, FirstCell
    <3> DEFINE c == CHOOSE x \in CellsAt(i, t) : x[2] = 0
    <3>3. c \in CellsAt(i, t)
      BY <3>2
    <3>4. reservationTable[c] \in DOMAIN schedTime
      BY <1>1, <3>1, <3>3, HolderIsScheduled
    <3> QED BY <2>1, <3>4 DEF InTheWay, FirstHolder
  <2>2. CASE ~resourceConflict(i, t)
    BY <2>2 DEF InTheWay
  <2> QED BY <2>1, <2>2
<1>6. Others(i, t, InTheWay(i, t)) \in SUBSET (DOMAIN schedTime)
  BY DEF Others
<1> QED BY <1>4, <1>5, <1>6 DEF t

LEMMA ForceKeeps ==
  ASSUME Invariant, Turn("SDC_BACKTRACKING"), UNCHANGED <<loopVars, II>>,
         NEW n \in DOMAIN queue, NEW t \in Nat, NEW first \in SUBSET (DOMAIN schedTime),
         NEW others \in SUBSET (DOMAIN schedTime), ForceInto(n, t, first, others)
  PROVE  Invariant'
<1> DEFINE i     == queue[n]
           gone  == first \cup others
           freed == Released(bounds, gone)
           after == FixedAt(freed, i, t)
<1>1. SDC /\ phase = "schedule" /\ UNCHANGED loopVars /\ II' = II
  BY DEF Turn, SDC
<1>2. TableExact /\ QueueExact /\ SolutionExact
  BY <1>1 DEF Invariant
<1>3. gone \in SUBSET (DOMAIN schedTime) /\ gone \in SUBSET Inst
  BY <1>2 DEF TableExact
<1>4. CASE ~Conflict(i, t, Without(gone), freed) /\ phase' = "schedule"
  <2>1. Feasible(C, after)
    BY <1>4 DEF Conflict
  <2>2. Constrained(i) => \E c \in CellsAt(i, t) : Without(gone)[c] = NULL
    BY <1>4 DEF Conflict
  <2>3. /\ Evict(gone, i, t) /\ bounds' = after
        /\ sdcSchedTime' = Solution(C, after)
    BY <2>1 DEF ForceInto
  <2>4. PICK last \in SetToSeqs(gone) : Requeue(n, last)
    BY DEF ForceInto
  <2>5. IsQueue(last, Inst) /\ ToSet(last) = gone
    <3> HIDE DEF gone
    <3>1. IsFiniteSet(gone)
      BY <1>3, InstFinite
    <3>2. IsQueue(last, gone) /\ ToSet(last) = gone
      BY <3>1, Enumerated DEF SetToSeqs
    <3> QED BY <1>3, <3>2 DEF IsQueue
  <2>6. /\ freed \in Bounds
        /\ \A j \in Inst : freed.exactly[j] = IF j \in gone THEN Free ELSE bounds.exactly[j]
    BY <1>2 DEF Released, Bounds, SolutionExact
  <2> HIDE DEF gone, freed
  <2> QED BY <1>1, <1>3, <1>4, <2>1, <2>2, <2>3, <2>4, <2>5, <2>6, FixingKeeps
<1>5. CASE phase' = "failed"
  <2>1. II' \in Nat \ {0}
    BY <1>1 DEF Invariant
  <2> QED BY <1>1, <1>5, <2>1, Leaves
<1>6. \/ ~Conflict(i, t, Without(gone), freed) /\ phase' = "schedule"
      \/ phase' = "failed"
  BY <1>1 DEF ForceInto
<1> QED BY <1>4, <1>5, <1>6

LEMMA BacktrackKeeps ==
  ASSUME Invariant, Turn("SDC_BACKTRACKING"), UNCHANGED <<loopVars, II>>,
         NEW n \in DOMAIN queue, Backtrack(n)
  PROVE  Invariant'
<1> DEFINE i == queue[n]
           found == FirstFeasible(i)
           t == evictSlot(i, Min(found))
<1>1. SDC /\ phase = "schedule" /\ UNCHANGED loopVars /\ II' = II
  BY DEF Turn, SDC
<1>2. i \in Inst
  BY <1>1, NthOfQueue DEF Invariant
<1>3. CASE found = {}
  <2>1. phase' = "failed" /\ II' \in Nat \ {0}
    BY <1>1, <1>3 DEF Backtrack, Invariant
  <2> QED BY <1>1, <2>1, Leaves
<1>4. CASE found # {}
  <2>1. ForceInto(n, t, InTheWay(i, t), Others(i, t, InTheWay(i, t)))
    BY <1>4 DEF Backtrack
  <2>2. /\ t \in Nat
        /\ InTheWay(i, t) \in SUBSET (DOMAIN schedTime)
        /\ Others(i, t, InTheWay(i, t)) \in SUBSET (DOMAIN schedTime)
    BY <1>2, <1>4, EvictionIsOfScheduled
  <2> HIDE DEF t
  <2> QED BY <1>1, <2>1, <2>2, ForceKeeps
<1> QED BY <1>3, <1>4

LEMMA BacktrackingTurnKeeps ==
  ASSUME Invariant, BacktrackingTurn
  PROVE  Invariant'
<1>1. PICK n \in Taken : ScheduleThere(n) \/ PushLater(n) \/ Backtrack(n)
  BY DEF BacktrackingTurn
<1>2. n \in DOMAIN queue
  BY DEF Taken, Earliest
<1> QED BY <1>1, <1>2, ScheduleThereKeeps, PushLaterKeeps, BacktrackKeeps DEF BacktrackingTurn

(***************************************************************************)
(* The solution respects the dependences, so those that are fixed do.      *)
(***************************************************************************)
LEMMA SolutionRespects ==
  ASSUME SolutionExact, IsKernel(kernel), II \in Nat \ {0}, NEW d \in kernel.dependences
  PROVE  sdcSchedTime[d.to] + II * d.dist >= sdcSchedTime[d.from] + kernel.latency[d.from]
<1> DEFINE x == II * d.dist
           c == [from |-> d.from, to |-> d.to, least |-> kernel.latency[d.from] - x]
<1>1. d.from \in Inst /\ d.to \in Inst /\ d.dist \in Nat /\ kernel.latency[d.from] \in Nat
  BY DEF IsKernel, Dependence
<1>2. x \in Int
  BY <1>1
<1>3. sdcSchedTime[d.to] - sdcSchedTime[d.from] >= kernel.latency[d.from] - x
  <2>1. c \in C
    BY DEF C, ConstraintsFor
  <2> QED BY <2>1 DEF SolutionExact, Satisfies
<1>4. sdcSchedTime[d.to] \in Int /\ sdcSchedTime[d.from] \in Int
  BY <1>1 DEF SolutionExact, Satisfies
<1> HIDE DEF x
<1>5. sdcSchedTime[d.to] + x >= sdcSchedTime[d.from] + kernel.latency[d.from]
  BY <1>1, <1>2, <1>3, <1>4
<1> QED BY <1>5 DEF x

LEMMA FixedAreInSolution ==
  ASSUME SolutionExact, TableExact, NEW i \in DOMAIN schedTime
  PROVE  i \in Inst /\ schedTime[i] = sdcSchedTime[i]
<1>1. i \in Inst /\ schedTime[i] \in Nat
  BY DEF SolutionExact, TableExact
<1>2. bounds.exactly[i] \in {sdcSchedTime[i], Free} /\ bounds.exactly[i] = schedTime[i]
  BY <1>1 DEF SolutionExact, Satisfies
<1>3. schedTime[i] # Free
  BY <1>1 DEF Free
<1> QED BY <1>1, <1>2, <1>3

LEMMA FixedAreValid ==
  ASSUME Invariant, SDC, phase = "schedule", unscheduledInstsConstrained = {}
  PROVE  /\ DOMAIN schedTime = {i \in Inst : Constrained(i)}
         /\ \A d \in kernel.dependences : {d.from, d.to} \subseteq DOMAIN schedTime => Respected(d)
<1>1. TableExact /\ QueueExact /\ SolutionExact /\ IsKernel(kernel) /\ II \in Nat \ {0}
  BY KernelsAssumption DEF Invariant
<1>2. DOMAIN schedTime = {i \in Inst : Constrained(i)}
  BY <1>1 DEF QueueExact, Limited
<1>3. ASSUME NEW d \in kernel.dependences, {d.from, d.to} \subseteq DOMAIN schedTime
      PROVE  Respected(d)
  <2>1. schedTime[d.from] = sdcSchedTime[d.from] /\ schedTime[d.to] = sdcSchedTime[d.to]
    BY <1>1, <1>3, FixedAreInSolution
  <2> QED BY <1>1, <2>1, SolutionRespects DEF Respected
<1> QED BY <1>2, <1>3

(***************************************************************************)
(* The last solution is the schedule of all, as it is that of those fixed. *)
(***************************************************************************)
LEMMA AssignedAll ==
  ASSUME Invariant, SDC, phase = "schedule", unscheduledInstsConstrained = {} \/ queue = << >>,
         assignUnconstrainedOperations, UNCHANGED <<loopVars, II, reservationTable>>
  PROVE  /\ TableExact'
         /\ DOMAIN schedTime' = Inst
         /\ \A d \in kernel.dependences : Respected(d)'
<1>1. TableExact /\ QueueExact /\ SolutionExact /\ IsKernel(kernel)
  BY KernelsAssumption DEF Invariant
<1>2. UNCHANGED <<kernel, II>>
  BY DEF loopVars
<1>3. DOMAIN schedTime = Limited
  <2>1. ToSet(queue) = {}
    BY <1>1 DEF QueueExact, ToSet
  <2> QED BY <1>1, <2>1 DEF QueueExact
<1>4. schedTime' = [i \in Inst |-> IF i \in DOMAIN schedTime THEN schedTime[i] ELSE sdcSchedTime[i]]
  BY DEF assignUnconstrainedOperations
<1>5. \A i \in Inst : schedTime'[i] = sdcSchedTime[i] /\ sdcSchedTime[i] \in Nat
  <2>1. \A i \in DOMAIN schedTime : i \in Inst /\ schedTime[i] \in Nat
    BY <1>1 DEF SolutionExact, TableExact
  <2>2. \A i \in Inst : sdcSchedTime[i] \in Nat /\ bounds.exactly[i] \in {sdcSchedTime[i], Free}
    BY <1>1 DEF SolutionExact, Satisfies
  <2>3. \A i \in DOMAIN schedTime : bounds.exactly[i] = schedTime[i] /\ schedTime[i] # Free
    BY <1>1, <2>1 DEF SolutionExact, Free
  <2> QED BY <1>4, <2>1, <2>2, <2>3
<1>6. TableExact'
  <2>1. Cell' = Cell /\ (\A j, t : CellsAt(j, t)' = CellsAt(j, t))
    BY <1>2 DEF Cell, CellsAt
  <2>2. \A j : (CellsOf(j)' = CellsOf(j)) /\ (Constrained(j)' <=> Constrained(j))
    BY <1>2, <2>1 DEF CellsOf, Constrained, isResourceConstrained
  <2>3. \A i \in Inst : Constrained(i) => i \in DOMAIN schedTime /\ schedTime'[i] = schedTime[i]
    BY <1>3, <1>4 DEF Limited
  <2>4. DOMAIN schedTime' = Inst /\ \A i \in Inst : schedTime'[i] \in Int
    BY <1>4, <1>5
  <2>5. ASSUME NEW i \in Inst
        PROVE  IF Constrained(i) THEN \E c \in CellsAt(i, schedTime'[i]) : CellsOf(i) = {c}
                                 ELSE CellsOf(i) = {}
    BY <1>1, <2>3 DEF TableExact
  <2>6. reservationTable' \in [Cell -> Inst \cup {NULL}]
    BY <1>1 DEF TableExact
  <2> QED BY <2>1, <2>2, <2>4, <2>5, <2>6 DEF TableExact
<1>7. ASSUME NEW d \in kernel.dependences PROVE Respected(d)'
  <2>1. d.from \in Inst /\ d.to \in Inst
    BY <1>1 DEF IsKernel, Dependence
  <2>2. schedTime'[d.to] = sdcSchedTime[d.to] /\ schedTime'[d.from] = sdcSchedTime[d.from]
    BY <1>5, <2>1
  <2>3. sdcSchedTime[d.to] + II * d.dist >= sdcSchedTime[d.from] + kernel.latency[d.from]
    BY <1>1, SolutionRespects DEF Invariant
  <2> QED BY <1>2, <2>2, <2>3 DEF Respected
<1> QED BY <1>4, <1>6, <1>7

LEMMA EndBacktrackingKeeps ==
  ASSUME Invariant, EndBacktracking
  PROVE  Invariant'
<1>1. SDC /\ phase = "schedule" /\ UNCHANGED <<loopVars, reservationTable, budget>>
  BY DEF EndBacktracking, Turn, SDC
<1>2. CASE unscheduledInstsConstrained = {}
  <2>1. phase' = "done" /\ II' = II
    BY <1>2 DEF EndBacktracking
  <2>2. kernel' \in Kernels /\ scheduler' \in Schedulers /\ II' \in Nat \ {0} /\ kernel' = kernel
    BY <1>1, <2>1 DEF Invariant, loopVars
  <2>3. CASE budget > 0
    <3>1. assignUnconstrainedOperations
      BY <2>3 DEF EndBacktracking
    <3>2. /\ TableExact' /\ DOMAIN schedTime' = Inst
          /\ \A d \in kernel.dependences : Respected(d)'
      BY <1>1, <1>2, <2>1, <3>1, AssignedAll
    <3>3. TimesAreValid'
      BY <1>1, <2>2, <2>3, <3>2 DEF TimesAreValid
    <3> QED BY <2>1, <2>2, <3>2, <3>3 DEF Invariant
  <2>4. CASE ~(budget > 0)
    <3>1. UNCHANGED schedTime
      BY <2>4 DEF EndBacktracking
    <3>2. Cell' = Cell /\ (\A j, t : CellsAt(j, t)' = CellsAt(j, t))
      BY <2>1, <2>2 DEF Cell, CellsAt
    <3>3. \A j : (CellsOf(j)' = CellsOf(j)) /\ (Constrained(j)' <=> Constrained(j))
      BY <1>1, <2>2, <3>2 DEF CellsOf, Constrained, isResourceConstrained
    <3>4. TableExact'
      BY <1>1, <3>1, <3>2, <3>3 DEF Invariant, TableExact
    <3>5. TimesAreValid'
      <4>1. scheduler' = "SDC_BACKTRACKING" /\ UNCHANGED <<kernel, II, budget, schedTime>>
        BY <1>1, <2>1, <3>1 DEF EndBacktracking, Turn, loopVars
      <4>2. {i \in Inst : Constrained(i)}' = {i \in Inst : Constrained(i)}
        BY <3>3
      <4>3. \A d : Respected(d)' <=> Respected(d)
        BY <4>1 DEF Respected
      <4> QED BY <1>1, <1>2, <2>4, <4>1, <4>2, <4>3, FixedAreValid DEF TimesAreValid
    <3> QED BY <2>1, <2>2, <3>4, <3>5 DEF Invariant
  <2> QED BY <2>3, <2>4
<1>3. CASE unscheduledInstsConstrained # {}
  BY <1>1, <1>3, NextIILeaves DEF EndBacktracking
<1> QED BY <1>2, <1>3

-----------------------------------------------------------------------------
(***************************************************************************)
(* SDC_GREEDY.                                                             *)
(***************************************************************************)
LEMMA PossibleIsFinite ==
  ASSUME Invariant, Turn("SDC_GREEDY"), NEW i \in Inst, Possible(i) # {}
  PROVE  Max(Possible(i)) \in Possible(i) /\ Max(Possible(i)) \in Nat
<1> DEFINE first == ASAP[i]
           last  == sdcSchedTime[i]
<1>1. SolutionExact
  BY DEF Invariant, Turn, SDC
<1>2. first \in Nat /\ last \in Nat
  BY <1>1 DEF SolutionExact, Feasible, Satisfies, ASAP
<1>3. Possible(i) \in SUBSET (first .. last)
  BY DEF Possible
<1> HIDE DEF first, last
<1>4. IsFiniteSet(Possible(i)) /\ Possible(i) \in SUBSET Int
  <2>1. first \in Int /\ last \in Int
    BY <1>2
  <2> QED BY <1>3, <2>1, BetweenFinite
<1>5. Max(Possible(i)) \in Possible(i)
  BY <1>4, MaxIn
<1> QED BY <1>2, <1>3, <1>5

LEMMA GreedyTurnKeeps ==
  ASSUME Invariant, GreedyTurn
  PROVE  Invariant'
<1>1. SDC /\ phase = "schedule" /\ UNCHANGED loopVars /\ Turn("SDC_GREEDY")
  BY DEF GreedyTurn, Turn, SDC
<1>2. TableExact /\ SolutionExact
  BY <1>1 DEF Invariant
<1>3. PICK n \in DOMAIN queue :
        LET i == queue[n] IN
        IF Possible(i) # {}
        THEN /\ Evict({}, i, Max(Possible(i))) /\ Requeue(n, << >>)
             /\ Resolve(FixedAt(bounds, i, Max(Possible(i))))
        ELSE /\ Requeue(n, <<i>>)
             /\ UNCHANGED <<schedTime, prevSchedTime, unscheduledInsts,
                            unscheduledInstsConstrained, reservationTable>>
             /\ Resolve(NotBefore(bounds, i, sdcSchedTime[i] + 1))
  BY DEF GreedyTurn, Earliest
<1> DEFINE i == queue[n]
<1>4. i \in Inst
  BY <1>1, NthOfQueue DEF Invariant
<1>5. CASE Possible(i) # {}
  <2> DEFINE t == Max(Possible(i))
  <2>1. t \in Possible(i) /\ t \in Nat
    BY <1>1, <1>4, <1>5, PossibleIsFinite
  <2>2. Evict({}, i, t) /\ Requeue(n, << >>) /\ Resolve(FixedAt(bounds, i, t))
    BY <1>3, <1>5
  <2> HIDE DEF t
  <2>3. ~Conflict(i, t, reservationTable, bounds)
    BY <2>1 DEF Possible
  <2>4. Constrained(i) => \E c \in CellsAt(i, t) : Without({})[c] = NULL
    <3>1. ~resourceConflict(i, t)
      BY <2>3 DEF Conflict, resourceConflict
    <3> QED BY <1>2, <3>1, NothingEvicted
  <2>5. Feasible(C, FixedAt(bounds, i, t))
    BY <2>3 DEF Conflict
  <2>6. /\ bounds' = FixedAt(bounds, i, t) /\ sdcSchedTime' = Solution(C, bounds')
        /\ II' = II /\ phase' = "schedule"
    BY <1>1, <2>2, <2>5 DEF Resolve
  <2>7. IsQueue(<< >>, Inst) /\ ToSet(<< >>) = {}
    BY DEF IsQueue, ToSet, IsInjective
  <2>8. bounds \in Bounds /\ {} \in SUBSET (DOMAIN schedTime)
    BY <1>2 DEF SolutionExact
  <2> QED BY <1>1, <2>1, <2>2, <2>4, <2>5, <2>6, <2>7, <2>8, FixingKeeps
<1>6. CASE Possible(i) = {}
  <2> DEFINE b == NotBefore(bounds, i, sdcSchedTime[i] + 1)
  <2>1. /\ Requeue(n, <<i>>) /\ Resolve(b)
        /\ UNCHANGED <<schedTime, prevSchedTime, unscheduledInsts,
                       unscheduledInstsConstrained, reservationTable>>
    BY <1>3, <1>6
  <2>2. CASE Feasible(C, b)
    <3>1. bounds' = b /\ sdcSchedTime' = Solution(C, bounds') /\ II' = II /\ phase' = "schedule"
      BY <1>1, <2>1, <2>2 DEF Resolve
    <3> QED BY <1>1, <2>1, <2>2, <3>1, PushingKeeps
  <2>3. CASE ~Feasible(C, b)
    BY <1>1, <2>1, <2>3, NextIILeaves DEF Resolve
  <2> QED BY <2>2, <2>3
<1> QED BY <1>5, <1>6

LEMMA EndGreedyKeeps ==
  ASSUME Invariant, EndGreedy
  PROVE  Invariant'
<1>1. /\ SDC /\ phase = "schedule" /\ UNCHANGED <<loopVars, II, reservationTable>>
      /\ queue = << >> /\ assignUnconstrainedOperations /\ phase' = "done"
  BY DEF EndGreedy, Turn, SDC
<1>2. /\ TableExact' /\ DOMAIN schedTime' = Inst
      /\ \A d \in kernel.dependences : Respected(d)'
  BY <1>1, AssignedAll
<1>3. kernel' = kernel /\ kernel' \in Kernels /\ scheduler' \in Schedulers /\ II' \in Nat \ {0}
  BY <1>1 DEF Invariant, loopVars
<1>4. scheduler' = "SDC_GREEDY"
  BY DEF EndGreedy, Turn, loopVars
<1>5. TimesAreValid'
  BY <1>2, <1>3, <1>4 DEF TimesAreValid
<1> QED BY <1>1, <1>2, <1>3, <1>5 DEF Invariant

-----------------------------------------------------------------------------
(***************************************************************************)
(* ITERATIVE.                                                              *)
(***************************************************************************)
LEMMA EarlyStartType ==
  ASSUME TableExact, IsKernel(kernel), II \in Nat \ {0}, NEW i
  PROVE  calcEarlyStart(i) \in Int
<1> DEFINE D == {u \in Uses(kernel) : u.to = i /\ u.from \in DOMAIN schedTime}
           E(d) == schedTime[d.from] + kernel.latency[d.from] - II * d.dist
           S == {E(d) : d \in D}
           g == [d \in D |-> E(d)]
<1>1. D \subseteq kernel.dependences /\ IsFiniteSet(kernel.dependences)
  BY DEF Uses, IsKernel
<1>2. IsFiniteSet(D)
  BY <1>1, FS_Subset
<1>3. \A d \in D : E(d) \in Int
  <2> SUFFICES ASSUME NEW d \in D PROVE E(d) \in Int
    OBVIOUS
  <2>1. d.from \in Inst /\ d.dist \in Nat /\ kernel.latency[d.from] \in Nat
    BY <1>1 DEF IsKernel, Dependence
  <2>2. schedTime[d.from] \in Int
    BY DEF TableExact
  <2>3. II * d.dist \in Int
    BY <2>1
  <2> QED BY <2>1, <2>2, <2>3
<1> HIDE DEF D, E
<1>4. IsFiniteSet(S)
  <2>1. g \in Surjection(D, S)
    BY DEF Surjection
  <2> QED BY <1>2, <2>1, FS_Surjection
<1>5. S \subseteq Int
  BY <1>3
<1> HIDE DEF S
<1>6. IsFiniteSet({0} \cup S) /\ {0} \cup S \in SUBSET Int
  <2>1. IsFiniteSet({0} \cup S)
    BY <1>4, FS_Singleton, FS_Union
  <2> QED BY <1>5, <2>1
<1>7. Max({0} \cup S) \in Int
  BY <1>6, MaxIn
<1>8. calcEarlyStart(i) = Max({0} \cup S)
  BY DEF calcEarlyStart, S, D, E
<1> QED BY <1>7, <1>8

LEMMA TimeSlotType ==
  ASSUME NEW i \in Inst, NEW m \in Int, II \in Nat \ {0}, prevSchedTime \in [Inst -> Int]
  PROVE  findTimeSlot(i, m) \in Int
<1> DEFINE free == {t \in m .. m + II - 1 : ~resourceConflict(i, t)}
           last == m + II - 1
<1>1. last \in Int /\ free \in SUBSET (m .. last)
  OBVIOUS
<1>2. evictSlot(i, m) \in Int
  BY DEF evictSlot
<1>3. findTimeSlot(i, m) = IF free # {} THEN Min(free) ELSE evictSlot(i, m)
  BY DEF findTimeSlot
<1> HIDE DEF free, last
<1>4. IsFiniteSet(free) /\ free \in SUBSET Int
  BY <1>1, BetweenFinite
<1>5. free # {} => Min(free) \in Int
  BY <1>4, MinIn
<1> QED BY <1>2, <1>3, <1>5

LEMMA IterativeTurnKeeps ==
  ASSUME Invariant, IterativeTurn
  PROVE  Invariant'
<1>1. ~SDC /\ phase = "schedule" /\ phase' = "schedule" /\ UNCHANGED <<loopVars, II>>
  BY DEF IterativeTurn, Turn, SDC
<1>2. /\ TableExact /\ QueueExact /\ IsKernel(kernel) /\ II \in Nat \ {0}
      /\ prevSchedTime \in [Inst -> Int]
  BY <1>1, KernelsAssumption DEF Invariant
<1>3. PICK i \in unscheduledInsts : \E users \in SUBSET ScheduledUsers(i) :
        LET t == findTimeSlot(i, calcEarlyStart(i))
        IN  Evict((IF resourceConflict(i, t) THEN Holders(i, t) ELSE {}) \cup users, i, t)
  BY DEF IterativeTurn, Highest
<1> DEFINE t == findTimeSlot(i, calcEarlyStart(i))
<1>a. PICK users \in SUBSET ScheduledUsers(i) :
        Evict((IF resourceConflict(i, t) THEN Holders(i, t) ELSE {}) \cup users, i, t)
  BY <1>3
<1> DEFINE S == (IF resourceConflict(i, t) THEN Holders(i, t) ELSE {}) \cup users
<1>4. i \in Inst /\ i \notin DOMAIN schedTime
  BY <1>2 DEF QueueExact
<1>5. t \in Int
  BY <1>2, <1>4, EarlyStartType, TimeSlotType
<1>6. Evict(S, i, t)
  BY <1>a
<1>7. S \in SUBSET (DOMAIN schedTime)
  <2>1. users \in SUBSET (DOMAIN schedTime)
    BY DEF ScheduledUsers
  <2>2. resourceConflict(i, t) => Holders(i, t) \in SUBSET (DOMAIN schedTime)
    <3> HIDE DEF t
    <3> QED BY <1>2, HolderIsScheduled DEF resourceConflict, Holders
  <2> QED BY <2>1, <2>2
<1>8. Constrained(i) => \E c \in CellsAt(i, t) : Without(S)[c] = NULL
  <2> HIDE DEF t
  <2>1. \A c \in CellsAt(i, t) : c \in Cell
    BY DEF CellsAt
  <2>2. CASE Constrained(i) /\ resourceConflict(i, t)
    <3>1. PICK c \in CellsAt(i, t) : TRUE
      BY <1>2, <1>4, <1>5, <2>2, FirstCell
    <3>2. reservationTable[c] \in S
      BY <2>2 DEF Holders
    <3> QED BY <2>1, <3>2 DEF Without
  <2>3. CASE Constrained(i) /\ ~resourceConflict(i, t)
    <3>1. PICK c \in CellsAt(i, t) : reservationTable[c] = NULL
      BY <2>3 DEF resourceConflict
    <3> QED BY <2>1, <3>1 DEF Without
  <2> QED BY <2>2, <2>3
<1> HIDE DEF S, t
<1>9. TableExact'
  <2>1. S \in SUBSET Inst /\ UNCHANGED <<kernel, II>>
    BY <1>1, <1>2, <1>7 DEF TableExact, loopVars
  <2> QED BY <1>2, <1>4, <1>5, <1>6, <1>8, <2>1, EvictKeepsTable
<1>10. QueueExact'
  <2>1. /\ DOMAIN schedTime' = (DOMAIN schedTime \ S) \cup {i}
        /\ unscheduledInsts' = (unscheduledInsts \cup S) \ {i}
    BY <1>6 DEF Evict, Fix
  <2>2. ~SDC' /\ DOMAIN schedTime \subseteq Inst
    BY <1>1, <1>2 DEF SDC, loopVars, TableExact
  <2> QED BY <1>2, <1>4, <1>7, <2>1, <2>2 DEF QueueExact
<1>11. prevSchedTime' \in [Inst -> Int]
  BY <1>2, <1>5, <1>6 DEF Evict, Fix
<1> QED BY <1>1, <1>9, <1>10, <1>11, Continues

LEMMA EndIterativeKeeps ==
  ASSUME Invariant, EndIterative
  PROVE  Invariant'
<1>1. ~SDC /\ phase = "schedule" /\ UNCHANGED <<loopVars, bookVars>>
  BY DEF EndIterative, Turn, SDC
<1>2. CASE phase' = "done" /\ II' = II
  <2>1. UNCHANGED <<kernel, II, schedTime, reservationTable>> /\ ~SDC'
    BY <1>1, <1>2 DEF loopVars, bookVars, SDC
  <2>2. Cell' = Cell /\ (\A j, t : CellsAt(j, t)' = CellsAt(j, t))
    BY <2>1 DEF Cell, CellsAt
  <2>3. \A j : (CellsOf(j)' = CellsOf(j)) /\ (Constrained(j)' <=> Constrained(j))
    BY <2>1, <2>2 DEF CellsOf, Constrained, isResourceConstrained
  <2>4. TableExact'
    BY <1>1, <2>1, <2>2, <2>3 DEF Invariant, TableExact
  <2> QED BY <1>1, <1>2, <2>1, <2>4 DEF Invariant, loopVars
<1>3. CASE NextII
  BY <1>1, <1>3, NextIILeaves
<1> QED BY <1>2, <1>3 DEF EndIterative

-----------------------------------------------------------------------------
LEMMA StutteringKeeps ==
  ASSUME Invariant, UNCHANGED vars
  PROVE  Invariant'
<1>1. UNCHANGED <<kernel, scheduler, phase, II, budget, schedTime, prevSchedTime,
                  unscheduledInsts, unscheduledInstsConstrained, queue, reservationTable,
                  bounds, sdcSchedTime>>
  BY DEF vars, loopVars, bookVars
<1>2. Cell' = Cell /\ C' = C /\ (SDC' <=> SDC) /\ Limited' = Limited
  BY <1>1 DEF Cell, C, SDC, Limited, Constrained, isResourceConstrained
<1>3. TableExact => TableExact'
  <2>1. \A j, t : CellsAt(j, t)' = CellsAt(j, t)
    BY <1>1, <1>2 DEF CellsAt
  <2>2. \A j : (CellsOf(j)' = CellsOf(j)) /\ (Constrained(j)' <=> Constrained(j))
    BY <1>1, <1>2 DEF CellsOf, Constrained, isResourceConstrained
  <2> QED BY <1>1, <1>2, <2>1, <2>2 DEF TableExact
<1>4. QueueExact => QueueExact'
  BY <1>1, <1>2 DEF QueueExact, IsQueue, ToSet, IsInjective
<1>5. SolutionExact => SolutionExact'
  BY <1>1, <1>2 DEF SolutionExact, Satisfies
<1>6. TimesAreValid => TimesAreValid'
  BY <1>1, <1>2 DEF TimesAreValid, Respected, Constrained, isResourceConstrained
<1> QED BY <1>1, <1>2, <1>3, <1>4, <1>5, <1>6 DEF Invariant

LEMMA NextKeeps ==
  ASSUME Invariant, [Next]_vars
  PROVE  Invariant'
<1>1. CASE Begin
  BY <1>1, BeginKeeps
<1>2. CASE BacktrackingTurn
  BY <1>2, BacktrackingTurnKeeps
<1>3. CASE EndBacktracking
  BY <1>3, EndBacktrackingKeeps
<1>4. CASE GreedyTurn
  BY <1>4, GreedyTurnKeeps
<1>5. CASE EndGreedy
  BY <1>5, EndGreedyKeeps
<1>6. CASE IterativeTurn
  BY <1>6, IterativeTurnKeeps
<1>7. CASE EndIterative
  BY <1>7, EndIterativeKeeps
<1>8. CASE UNCHANGED vars
  BY <1>8, StutteringKeeps
<1> QED BY <1>1, <1>2, <1>3, <1>4, <1>5, <1>6, <1>7, <1>8 DEF Next, Terminated

LEMMA SpecInvariant == Spec => []Invariant
<1>1. Init => Invariant
  BY InitEstablishes
<1>2. Invariant /\ [Next]_vars => Invariant'
  BY NextKeeps
<1> QED BY <1>1, <1>2, PTL DEF Spec

(***************************************************************************)
(* The reservation table follows the start times through all evictions, in *)
(* all three schedulers.                                                   *)
(***************************************************************************)
THEOREM TableFollows == Spec => []TableMatchesTimes
<1>1. Invariant => TableMatchesTimes
  BY InvariantImplies
<1> QED BY <1>1, SpecInvariant, PTL

(***************************************************************************)
(* No instruction is lost: it is scheduled or waiting to be, and queued    *)
(* once.                                                                   *)
(***************************************************************************)
THEOREM NoneIsLost == Spec => []NothingIsLost
<1>1. Invariant => NothingIsLost
  BY InvariantImplies
<1> QED BY <1>1, SpecInvariant, PTL

(***************************************************************************)
(* What is accepted gives no unit to more instructions than it can serve,  *)
(* at whatever interval; that of an SDC scheduler is complete, but for     *)
(* instructions without a unit when the budget is used up, and respects    *)
(* the dependences among what it has.                                      *)
(***************************************************************************)
THEOREM SchedulesAreValid == Spec => []ScheduleIsValid
<1>1. Invariant => ScheduleIsValid
  BY InvariantImplies
<1> QED BY <1>1, SpecInvariant, PTL

-----------------------------------------------------------------------------
(***************************************************************************)
(* The solver finds a solution whenever there is one, and it is the least. *)
(***************************************************************************)
LEMMA NatLeastExists ==
  ASSUME NEW S \in SUBSET Nat, S # {}
  PROVE  \E x \in S : \A y \in S : x <= y
<1>1. PICK m \in S : TRUE
  OBVIOUS
<1> DEFINE low == S \cap (0 .. m)
<1>2. m \in low /\ low \in SUBSET (0 .. m)
  OBVIOUS
<1>3. IsFiniteSet(low) /\ low \in SUBSET Int
  <2>1. 0 \in Int /\ m \in Int
    OBVIOUS
  <2> HIDE DEF low
  <2> QED BY <1>2, <2>1, BetweenFinite
<1>4. PICK x \in low : \A y \in low : x <= y
  <2> HIDE DEF low
  <2> QED BY <1>2, <1>3, LeastExists
<1>5. x \in S /\ x <= m /\ x \in Nat
  BY <1>4
<1>6. ASSUME NEW y \in S PROVE x <= y
  <2>1. CASE y <= m
    <3>1. y \in low
      BY <2>1
    <3> QED BY <3>1, <1>4
  <2>2. CASE ~(y <= m)
    BY <2>2, <1>5
  <2> QED BY <2>1, <2>2
<1> QED BY <1>5, <1>6

LEMMA MaxOfTwo ==
  ASSUME NEW a \in Int, NEW b \in Int
  PROVE  Max({a, b}) \in {a, b} /\ Max({a, b}) >= a /\ Max({a, b}) >= b
<1>1. IsFiniteSet({a}) /\ IsFiniteSet({b})
  BY FS_Singleton
<1>2. IsFiniteSet({a} \cup {b}) /\ {a} \cup {b} = {a, b}
  BY <1>1, FS_Union
<1>3. {a, b} \in SUBSET Int /\ {a, b} # {} /\ IsFiniteSet({a, b})
  BY <1>2
<1> QED BY <1>3, MaxIn

\* the recursive function of Solution
IsRounds(f, K, m) ==
  f = [n \in 0 .. m |-> [t \in [Inst -> Int] |->
         IF n = 0 THEN t ELSE f[n-1][Raised(K, t)]]]

Rounds(K) == CHOOSE f : IsRounds(f, K, N)

Lower(b) == [i \in Inst |-> Max({b.atLeast[i], b.exactly[i]})]

LEMMA SolutionIsRounds == \A K, b : Solution(K, b) = Rounds(K)[N][Lower(b)]
BY DEF Solution, Rounds, Lower, IsRounds

LEMMA RoundsExist ==
  ASSUME NEW K
  PROVE  \E f : IsRounds(f, K, N)
<1> DEFINE bad == {m \in 0 .. N : ~\E f : IsRounds(f, K, m)}
<1>1. SUFFICES ASSUME bad # {} PROVE FALSE
  BY NAssumption
<1>2. PICK m \in bad : \A k \in bad : m <= k
  <2>1. bad \in SUBSET Nat
    BY NAssumption
  <2> HIDE DEF bad
  <2> QED BY <1>1, <2>1, NatLeastExists
<1>3. m \in 0 .. N /\ ~\E f : IsRounds(f, K, m)
  OBVIOUS
<1>4. CASE m = 0
  <2> DEFINE f == [n \in 0 .. 0 |-> [t \in [Inst -> Int] |-> t]]
             g == [n \in 0 .. 0 |-> [t \in [Inst -> Int] |->
                    IF n = 0 THEN t ELSE f[n-1][Raised(K, t)]]]
  <2>1. \A n \in 0 .. 0 : n = 0
    OBVIOUS
  <2>2. \A n \in 0 .. 0 : f[n] = g[n]
    BY <2>1
  <2>3. f = g
    BY <2>2
  <2> QED BY <2>3, <1>3, <1>4 DEF IsRounds
<1>5. CASE m > 0
  <2>1. m \in Int /\ N \in Int /\ m-1 \in 0 .. N /\ m-1 \notin bad
    BY <1>2, <1>3, <1>5, NAssumption
  <2>2. PICK f : IsRounds(f, K, m-1)
    BY <2>1
  <2> DEFINE last == [t \in [Inst -> Int] |-> f[m-1][Raised(K, t)]]
             g == [n \in 0 .. m |-> IF n < m THEN f[n] ELSE last]
             h == [n \in 0 .. m |-> [t \in [Inst -> Int] |->
                    IF n = 0 THEN t ELSE g[n-1][Raised(K, t)]]]
  <2>3. ASSUME NEW n \in 0 .. m PROVE g[n] = h[n]
    <3>1. CASE n < m
      <4>1. n \in 0 .. m-1 /\ g[n] = f[n]
        BY <2>1, <3>1
      <4>2. f[n] = [t \in [Inst -> Int] |-> IF n = 0 THEN t ELSE f[n-1][Raised(K, t)]]
        BY <2>2, <4>1 DEF IsRounds
      <4>3. n # 0 => g[n-1] = f[n-1]
        <5>1. n # 0 => n-1 \in 0 .. m /\ n-1 < m
          BY <2>1, <4>1
        <5> QED BY <5>1
      <4>4. h[n] = [t \in [Inst -> Int] |-> IF n = 0 THEN t ELSE g[n-1][Raised(K, t)]]
        OBVIOUS
      <4> HIDE DEF g, h
      <4> QED BY <4>1, <4>2, <4>3, <4>4
    <3>2. CASE n = m
      <4>1. g[n] = last
        BY <2>1, <3>2
      <4>2. n # 0 /\ g[n-1] = f[m-1]
        <5>1. n-1 \in 0 .. m /\ n-1 < m /\ n # 0
          BY <2>1, <3>2, <1>5
        <5> QED BY <5>1, <3>2
      <4>3. h[n] = [t \in [Inst -> Int] |-> IF n = 0 THEN t ELSE g[n-1][Raised(K, t)]]
        OBVIOUS
      <4> HIDE DEF g, h
      <4> QED BY <4>1, <4>2, <4>3
    <3> QED BY <3>1, <3>2, <2>1
  <2>4. g = h
    BY <2>3
  <2>5. IsRounds(g, K, m)
    BY <2>4 DEF IsRounds
  <2> QED BY <2>5, <1>3
<1> QED BY <1>3, <1>4, <1>5, NAssumption

LEMMA RoundsAre ==
  ASSUME NEW K, NEW n \in 0 .. N, NEW t \in [Inst -> Int]
  PROVE  Rounds(K)[n][t] = IF n = 0 THEN t ELSE Rounds(K)[n-1][Raised(K, t)]
<1> DEFINE f == Rounds(K)
<1>1. IsRounds(f, K, N)
  BY RoundsExist DEF Rounds
<1> HIDE DEF f
<1>2. f = [m \in 0 .. N |-> [u \in [Inst -> Int] |-> IF m = 0 THEN u ELSE f[m-1][Raised(K, u)]]]
  BY <1>1 DEF IsRounds
<1>3. f[n] = [u \in [Inst -> Int] |-> IF n = 0 THEN u ELSE f[n-1][Raised(K, u)]]
  BY <1>2
<1>4. f[n][t] = IF n = 0 THEN t ELSE f[n-1][Raised(K, t)]
  BY <1>3
<1> QED BY <1>4 DEF f

\* finitely many constraints
IsSystem(K) == K \subseteq Constraint /\ IsFiniteSet(K)

LEMMA RaisedIs ==
  ASSUME NEW K, IsSystem(K), NEW t \in [Inst -> Int]
  PROVE  /\ Raised(K, t) \in [Inst -> Int]
         /\ \A j \in Inst : Raised(K, t)[j] >= t[j]
         /\ \A c \in K : Raised(K, t)[c.to] >= t[c.from] + c.least
         /\ \A j \in Inst : \/ Raised(K, t)[j] = t[j]
                            \/ \E c \in K : c.to = j /\ Raised(K, t)[j] = t[c.from] + c.least
<1> DEFINE From(j) == {d \in K : d.to = j}
           Ways(j) == {t[c.from] + c.least : c \in From(j)}
<1>1. \A c \in K : c.from \in Inst /\ c.to \in Inst /\ c.least \in Int
  BY DEF IsSystem, Constraint
<1>2. ASSUME NEW j \in Inst
      PROVE  LET m == Max({t[j]} \cup Ways(j)) IN
             /\ m \in Int /\ m >= t[j] /\ \A w \in Ways(j) : m >= w
             /\ m = t[j] \/ m \in Ways(j)
  <2> DEFINE g == [c \in From(j) |-> t[c.from] + c.least]
  <2>1. g \in Surjection(From(j), Ways(j))
    BY DEF Surjection
  <2>2. IsFiniteSet(From(j))
    BY FS_Subset DEF IsSystem
  <2>3. IsFiniteSet(Ways(j))
    <3> HIDE DEF g, Ways, From
    <3> QED BY <2>1, <2>2, FS_Surjection
  <2>4. Ways(j) \in SUBSET Int
    BY <1>1
  <2>5. t[j] \in Int
    OBVIOUS
  <2> HIDE DEF Ways
  <2>6. IsFiniteSet({t[j]} \cup Ways(j)) /\ {t[j]} \cup Ways(j) \in SUBSET Int
    BY <2>3, <2>4, <2>5, FS_Singleton, FS_Union
  <2> DEFINE m == Max({t[j]} \cup Ways(j))
  <2>7. m \in {t[j]} \cup Ways(j) /\ \A y \in {t[j]} \cup Ways(j) : y <= m
    BY <2>6, MaxIn
  <2> HIDE DEF m
  <2>8. m \in Int /\ m >= t[j] /\ (m = t[j] \/ m \in Ways(j))
    BY <2>4, <2>5, <2>7
  <2>9. \A w \in Ways(j) : m >= w
    BY <2>4, <2>5, <2>7
  <2> QED BY <2>4, <2>5, <2>7, <2>8, <2>9 DEF m
<1>3. Raised(K, t) = [j \in Inst |-> Max({t[j]} \cup Ways(j))]
  BY DEF Raised
<1>4. \A c \in K : t[c.from] + c.least \in Ways(c.to)
  OBVIOUS
<1>5. \A j \in Inst : \A w \in Ways(j) : \E c \in K : c.to = j /\ w = t[c.from] + c.least
  OBVIOUS
<1> HIDE DEF Ways
<1>6. Raised(K, t) \in [Inst -> Int] /\ \A j \in Inst : Raised(K, t)[j] = Max({t[j]} \cup Ways(j))
  BY <1>2, <1>3
<1>7. \A j \in Inst : Raised(K, t)[j] >= t[j]
  BY <1>2, <1>6
<1>8. \A c \in K : Raised(K, t)[c.to] >= t[c.from] + c.least
  BY <1>1, <1>2, <1>4, <1>6
<1>9. \A j \in Inst : Raised(K, t)[j] = t[j] \/ Raised(K, t)[j] \in Ways(j)
  BY <1>2, <1>6
<1> QED BY <1>5, <1>6, <1>7, <1>8, <1>9

\* no earlier than low, and every constraint is met
Above(t, K, low) ==
  /\ t \in [Inst -> Nat]
  /\ \A i \in Inst : t[i] >= low[i]
  /\ \A c \in K : t[c.to] >= t[c.from] + c.least

IsLeast(l, K, low) ==
  Above(l, K, low) /\ \A t : Above(t, K, low) => \A i \in Inst : l[i] <= t[i]

LEMMA LeastOfAll ==
  ASSUME NEW K, IsSystem(K), NEW low, NEW t0, Above(t0, K, low)
  PROVE  \E l : IsLeast(l, K, low)
<1> DEFINE Times(i) == {t[i] : t \in {u \in [Inst -> Nat] : Above(u, K, low)}}
           first(i) == CHOOSE x \in Times(i) : \A y \in Times(i) : x <= y
           l == [i \in Inst |-> first(i)]
<1>1. \A c \in K : c.from \in Inst /\ c.to \in Inst /\ c.least \in Int
  BY DEF IsSystem, Constraint
<1>2. ASSUME NEW i \in Inst
      PROVE  first(i) \in Times(i) /\ \A y \in Times(i) : first(i) <= y
  <2>1. Times(i) \in SUBSET Nat
    OBVIOUS
  <2>2. t0[i] \in Times(i)
    BY DEF Above
  <2> HIDE DEF Times
  <2> QED BY <2>1, <2>2, NatLeastExists
<1>3. ASSUME NEW i \in Inst
      PROVE  l[i] \in Nat /\ \E t : Above(t, K, low) /\ t[i] = l[i]
  BY <1>2
<1>4. ASSUME NEW t, Above(t, K, low), NEW i \in Inst
      PROVE  l[i] <= t[i]
  <2>1. t[i] \in Times(i)
    BY <1>4 DEF Above
  <2> HIDE DEF Times
  <2> QED BY <1>2, <2>1
<1>5. l \in [Inst -> Nat]
  BY <1>3
<1> HIDE DEF l
<1>6. \A i \in Inst : l[i] >= low[i]
  <2> SUFFICES ASSUME NEW i \in Inst PROVE l[i] >= low[i]
    OBVIOUS
  <2>1. PICK t : Above(t, K, low) /\ t[i] = l[i]
    BY <1>3
  <2> QED BY <2>1 DEF Above
<1>7. ASSUME NEW c \in K PROVE l[c.to] >= l[c.from] + c.least
  <2>1. PICK t : Above(t, K, low) /\ t[c.to] = l[c.to]
    BY <1>1, <1>3
  <2>2. t[c.to] >= t[c.from] + c.least /\ t[c.from] \in Nat
    BY <1>1, <2>1 DEF Above
  <2>3. l[c.from] <= t[c.from]
    BY <1>1, <1>4, <2>1
  <2>4. l[c.from] \in Nat /\ l[c.to] \in Nat /\ c.least \in Int
    BY <1>1, <1>5
  <2> QED BY <2>1, <2>2, <2>3, <2>4
<1>8. Above(l, K, low)
  BY <1>5, <1>6, <1>7 DEF Above
<1> QED BY <1>4, <1>8 DEF IsLeast

\* t has not passed the least solution
Below(t, l, low) ==
  t \in [Inst -> Int] /\ \A i \in Inst : low[i] <= t[i] /\ t[i] <= l[i]

Reached(t, l) == {i \in Inst : t[i] = l[i]}

LEMMA RoundStaysBelow ==
  ASSUME NEW K, IsSystem(K), NEW low \in [Inst -> Int], NEW l, IsLeast(l, K, low),
         NEW t, Below(t, l, low)
  PROVE  Below(Raised(K, t), l, low) /\ Reached(t, l) \subseteq Reached(Raised(K, t), l)
<1> DEFINE r == Raised(K, t)
<1>1. \A c \in K : c.from \in Inst /\ c.to \in Inst /\ c.least \in Int
  BY DEF IsSystem, Constraint
<1>2. t \in [Inst -> Int] /\ l \in [Inst -> Nat] /\ \A i \in Inst : low[i] <= t[i] /\ t[i] <= l[i]
  BY DEF Below, IsLeast, Above
<1>3. /\ r \in [Inst -> Int]
      /\ \A j \in Inst : r[j] >= t[j]
      /\ \A j \in Inst : \/ r[j] = t[j]
                         \/ \E c \in K : c.to = j /\ r[j] = t[c.from] + c.least
  BY <1>2, RaisedIs
<1> HIDE DEF r
<1>4. ASSUME NEW j \in Inst PROVE r[j] <= l[j]
  <2>1. CASE r[j] = t[j]
    BY <1>2, <2>1
  <2>2. ASSUME NEW c \in K, c.to = j, r[j] = t[c.from] + c.least
        PROVE  r[j] <= l[j]
    <3>1. l[j] >= l[c.from] + c.least
      BY <2>2 DEF IsLeast, Above
    <3>2. t[c.from] <= l[c.from] /\ t[c.from] \in Int /\ l[c.from] \in Nat /\ l[j] \in Nat
      BY <1>1, <1>2
    <3> QED BY <1>1, <2>2, <3>1, <3>2
  <2> QED BY <1>3, <2>1, <2>2
<1>5. \A j \in Inst : /\ r[j] \in Int /\ t[j] \in Int /\ l[j] \in Int /\ low[j] \in Int
                      /\ low[j] <= t[j] /\ t[j] <= r[j] /\ r[j] <= l[j]
  BY <1>2, <1>3, <1>4
<1>6. Below(r, l, low)
  BY <1>3, <1>5 DEF Below
<1>7. Reached(t, l) \subseteq Reached(r, l)
  BY <1>5 DEF Reached
<1> QED BY <1>6, <1>7 DEF r

(***************************************************************************)
(* A round that reaches no more than was reached is the last: otherwise    *)
(* all the others could start one clock earlier.                           *)
(***************************************************************************)
LEMMA RoundReachesMore ==
  ASSUME NEW K, IsSystem(K), NEW low \in [Inst -> Nat], NEW l, IsLeast(l, K, low),
         NEW t, Below(t, l, low), Reached(Raised(K, t), l) = Reached(t, l)
  PROVE  Reached(t, l) = Inst
<1> DEFINE r == Raised(K, t)
           rest == Inst \ Reached(t, l)
           u == [j \in Inst |-> IF j \in rest THEN l[j] - 1 ELSE l[j]]
<1>1. \A c \in K : c.from \in Inst /\ c.to \in Inst /\ c.least \in Int
  BY DEF IsSystem, Constraint
<1>2. t \in [Inst -> Int] /\ l \in [Inst -> Nat] /\ \A i \in Inst : low[i] <= t[i] /\ t[i] <= l[i]
  BY DEF Below, IsLeast, Above
<1>3. /\ r \in [Inst -> Int]
      /\ \A c \in K : r[c.to] >= t[c.from] + c.least
  BY <1>2, RaisedIs
<1>4. \A j \in Inst : r[j] <= l[j]
  <2>1. low \in [Inst -> Int]
    OBVIOUS
  <2> QED BY <2>1, RoundStaysBelow DEF Below
<1>5. \A j \in Inst : j \in rest <=> t[j] # l[j]
  BY DEF Reached
<1>6. \A j \in rest : j \in Inst /\ r[j] # l[j]
  BY DEF Reached
<1> HIDE DEF r, rest
<1>7. \A j \in rest : t[j] < l[j] /\ r[j] < l[j] /\ l[j] - 1 \in Nat /\ l[j] - 1 >= low[j]
  <2> SUFFICES ASSUME NEW j \in rest
               PROVE  t[j] < l[j] /\ r[j] < l[j] /\ l[j] - 1 \in Nat /\ l[j] - 1 >= low[j]
    OBVIOUS
  <2>1. j \in Inst /\ r[j] # l[j] /\ t[j] # l[j] /\ r[j] <= l[j] /\ t[j] <= l[j] /\ low[j] <= t[j]
    BY <1>2, <1>4, <1>5, <1>6
  <2>2. low[j] \in Nat /\ t[j] \in Int /\ r[j] \in Int /\ l[j] \in Nat
    BY <1>2, <1>3, <2>1
  <2> QED BY <2>1, <2>2
<1>8. u \in [Inst -> Nat]
  BY <1>2, <1>7
<1>9. \A j \in Inst : u[j] = IF j \in rest THEN l[j] - 1 ELSE l[j]
  OBVIOUS
<1> HIDE DEF u
<1>10. \A j \in Inst : u[j] >= low[j]
  <2> SUFFICES ASSUME NEW j \in Inst PROVE u[j] >= low[j]
    OBVIOUS
  <2>1. l[j] >= low[j]
    BY DEF IsLeast, Above
  <2> QED BY <1>7, <1>9, <2>1
<1>11. ASSUME NEW c \in K PROVE u[c.to] >= u[c.from] + c.least
  <2>1. c.from \in Inst /\ c.to \in Inst /\ c.least \in Int
    BY <1>1
  <2>2. l[c.from] \in Nat /\ l[c.to] \in Nat /\ l[c.to] >= l[c.from] + c.least
    BY <1>2, <2>1 DEF IsLeast, Above
  <2>3. u[c.from] <= l[c.from] /\ u[c.from] \in Nat
    BY <1>8, <1>9, <2>1, <2>2
  <2>4. CASE c.to \notin rest
    BY <1>9, <2>1, <2>2, <2>3, <2>4
  <2>5. CASE c.to \in rest /\ c.from \in rest
    <3>1. u[c.to] = l[c.to] - 1 /\ u[c.from] = l[c.from] - 1
      BY <1>9, <2>1, <2>5
    <3> QED BY <2>1, <2>2, <3>1
  <2>6. CASE c.to \in rest /\ c.from \notin rest
    <3>1. u[c.to] = l[c.to] - 1 /\ u[c.from] = l[c.from] /\ t[c.from] = l[c.from]
      BY <1>5, <1>9, <2>1, <2>6
    <3>2. r[c.to] < l[c.to] /\ r[c.to] >= t[c.from] + c.least /\ r[c.to] \in Int
      BY <1>3, <1>7, <2>1, <2>6
    <3> QED BY <2>1, <2>2, <3>1, <3>2
  <2> QED BY <2>4, <2>5, <2>6
<1>12. Above(u, K, low)
  BY <1>8, <1>10, <1>11 DEF Above
<1>13. \A j \in Inst : l[j] <= u[j]
  BY <1>12 DEF IsLeast
<1>14. \A j \in Inst : j \notin rest
  <2> SUFFICES ASSUME NEW j \in Inst, j \in rest PROVE FALSE
    OBVIOUS
  <2>1. l[j] \in Nat /\ u[j] = l[j] - 1 /\ l[j] <= u[j]
    BY <1>2, <1>9, <1>13
  <2> QED BY <2>1
<1> QED BY <1>14 DEF rest, Reached

LEMMA RoundsReach ==
  ASSUME NEW K, IsSystem(K), NEW low \in [Inst -> Nat], NEW l, IsLeast(l, K, low)
  PROVE  \A n \in 0 .. N : \A t : Below(t, l, low) /\ Cardinality(Reached(t, l)) >= N - n =>
           Rounds(K)[n][t] = l
<1> DEFINE Late(n) == \E t : /\ Below(t, l, low) /\ Cardinality(Reached(t, l)) >= N - n
                             /\ Rounds(K)[n][t] # l
           bad == {n \in 0 .. N : Late(n)}
<1>1. SUFFICES ASSUME bad # {} PROVE FALSE
  OBVIOUS
<1>2. PICK n \in bad : \A k \in bad : n <= k
  <2>1. bad \in SUBSET Nat
    BY NAssumption
  <2> HIDE DEF bad
  <2> QED BY <1>1, <2>1, NatLeastExists
<1>3. n \in 0 .. N /\ n \in Int /\ N \in Int /\ (n # 0 => n-1 \in 0 .. N /\ n-1 \notin bad)
  <2>1. n \in 0 .. N /\ n \in Int /\ N \in Int /\ (n # 0 => n-1 \in 0 .. N)
    BY NAssumption
  <2> HIDE DEF bad
  <2> QED BY <1>2, <2>1
<1>4. PICK t : /\ Below(t, l, low) /\ Cardinality(Reached(t, l)) >= N - n
               /\ Rounds(K)[n][t] # l
  BY <1>2
<1> DEFINE r == Raised(K, t)
<1>5. t \in [Inst -> Int] /\ l \in [Inst -> Nat]
  BY <1>4 DEF Below, IsLeast, Above
<1>6. Cardinality(Inst) = N
  <2>1. 0 \in Int /\ N-1 \in Int
    BY NAssumption
  <2>2. Cardinality(0 .. N-1) = IF 0 > N-1 THEN 0 ELSE (N-1) - 0 + 1
    BY <2>1, FS_Interval
  <2> QED BY <2>2, NAssumption DEF Inst
<1>7. \A s : /\ Reached(s, l) \subseteq Inst /\ IsFiniteSet(Reached(s, l))
             /\ Cardinality(Reached(s, l)) \in Nat
             /\ (Cardinality(Reached(s, l)) >= N => Reached(s, l) = Inst)
  <2> TAKE s
  <2>1. Reached(s, l) \in SUBSET Inst /\ IsFiniteSet(Inst)
    BY InstFinite DEF Reached
  <2>2. /\ IsFiniteSet(Reached(s, l)) /\ Cardinality(Reached(s, l)) <= Cardinality(Inst)
        /\ (Cardinality(Reached(s, l)) = Cardinality(Inst) => Reached(s, l) = Inst)
    BY <2>1, FS_Subset
  <2>3. Cardinality(Reached(s, l)) \in Nat
    BY <2>2, FS_CardinalityType
  <2> QED BY <1>3, <1>6, <2>1, <2>2, <2>3
<1>8. ASSUME NEW s \in [Inst -> Int], Reached(s, l) = Inst PROVE s = l
  <2>1. \A i \in Inst : s[i] = l[i]
    BY <1>8 DEF Reached
  <2> QED BY <1>5, <2>1
<1>9. CASE n = 0
  <2>1. Reached(t, l) = Inst
    BY <1>3, <1>4, <1>7, <1>9
  <2>2. Rounds(K)[n][t] = t
    BY <1>3, <1>5, <1>9, RoundsAre
  <2> QED BY <1>4, <1>5, <1>8, <2>1, <2>2
<1>10. CASE n # 0
  <2>1. low \in [Inst -> Int]
    OBVIOUS
  <2>2. Below(r, l, low) /\ Reached(t, l) \subseteq Reached(r, l)
    BY <1>4, <2>1, RoundStaysBelow
  <2>3. Cardinality(Reached(r, l)) >= N - (n-1)
    <3>1. CASE Reached(r, l) = Reached(t, l)
      <4>1. Reached(t, l) = Inst
        BY <1>4, <3>1, RoundReachesMore
      <4> HIDE DEF r
      <4> QED BY <1>3, <1>6, <1>10, <3>1, <4>1
    <3>2. CASE Reached(r, l) # Reached(t, l)
      <4> HIDE DEF r
      <4>1. Cardinality(Reached(t, l)) < Cardinality(Reached(r, l))
        <5>1. /\ Reached(t, l) \in SUBSET Reached(r, l) /\ IsFiniteSet(Reached(r, l))
          BY <1>7, <2>2
        <5>2. /\ Cardinality(Reached(t, l)) <= Cardinality(Reached(r, l))
              /\ Cardinality(Reached(t, l)) # Cardinality(Reached(r, l))
          BY <3>2, <5>1, FS_Subset
        <5> QED BY <1>7, <5>2
      <4> QED BY <1>3, <1>4, <1>7, <4>1
    <3> QED BY <3>1, <3>2
  <2>4. Rounds(K)[n][t] = Rounds(K)[n-1][r]
    BY <1>3, <1>5, <1>10, RoundsAre
  <2> HIDE DEF r
  <2>5. Rounds(K)[n-1][r] = l
    BY <1>3, <1>10, <2>2, <2>3
  <2> QED BY <1>4, <2>4, <2>5
<1> QED BY <1>9, <1>10

LEMMA LowerType ==
  ASSUME NEW b \in Bounds
  PROVE  /\ Lower(b) \in [Inst -> Nat]
         /\ \A i \in Inst : Lower(b)[i] >= b.atLeast[i] /\ Lower(b)[i] >= b.exactly[i]
         /\ \A i \in Inst : Lower(b)[i] = b.atLeast[i] \/ Lower(b)[i] = b.exactly[i]
<1>1. \A i \in Inst : b.atLeast[i] \in Nat /\ b.exactly[i] \in Int
  BY DEF Bounds, Free
<1>2. ASSUME NEW i \in Inst
      PROVE  LET m == Max({b.atLeast[i], b.exactly[i]}) IN
             m \in {b.atLeast[i], b.exactly[i]} /\ m >= b.atLeast[i] /\ m >= b.exactly[i]
  <2> DEFINE x == b.atLeast[i]
             y == b.exactly[i]
  <2>1. x \in Int /\ y \in Int
    BY <1>1
  <2> HIDE DEF x, y
  <2>2. Max({x, y}) \in {x, y} /\ Max({x, y}) >= x /\ Max({x, y}) >= y
    BY <2>1, MaxOfTwo
  <2> QED BY <2>2 DEF x, y
<1>3. \A i \in Inst : Max({b.atLeast[i], b.exactly[i]}) \in Nat
  BY <1>1, <1>2
<1> QED BY <1>2, <1>3 DEF Lower

(***************************************************************************)
(* Whatever t satisfies, Solution satisfies too, and nothing starts later. *)
(***************************************************************************)
LEMMA SolutionIsLeast ==
  ASSUME NEW K, IsSystem(K), NEW b \in Bounds, NEW t, Satisfies(t, K, b)
  PROVE  /\ Feasible(K, b)
         /\ \A i \in Inst : Solution(K, b)[i] <= t[i]
<1> DEFINE low == Lower(b)
<1>1. \A c \in K : c.from \in Inst /\ c.to \in Inst /\ c.least \in Int
  BY DEF IsSystem, Constraint
<1>2. /\ low \in [Inst -> Nat]
      /\ \A i \in Inst : low[i] >= b.atLeast[i] /\ low[i] >= b.exactly[i]
      /\ \A i \in Inst : low[i] = b.atLeast[i] \/ low[i] = b.exactly[i]
  BY LowerType
<1>3. \A i \in Inst : /\ b.atLeast[i] \in Nat /\ b.exactly[i] \in Nat \cup {Free}
  BY DEF Bounds
<1>4. t \in [Inst -> Nat] /\ \A i \in Inst : t[i] >= b.atLeast[i] /\ b.exactly[i] \in {t[i], Free}
  BY DEF Satisfies
<1>5. Solution(K, b) = Rounds(K)[N][low]
  BY SolutionIsRounds
<1> HIDE DEF low
<1>6. Above(t, K, low)
  <2>1. \A i \in Inst : t[i] >= low[i]
    BY <1>2, <1>3, <1>4 DEF Free
  <2>2. ASSUME NEW c \in K PROVE t[c.to] >= t[c.from] + c.least
    <3>1. t[c.to] - t[c.from] >= c.least
      BY DEF Satisfies
    <3>2. t[c.to] \in Nat /\ t[c.from] \in Nat /\ c.least \in Int
      BY <1>1, <1>4
    <3> QED BY <3>1, <3>2
  <2> QED BY <1>4, <2>1, <2>2 DEF Above
<1>7. PICK l : IsLeast(l, K, low)
  BY <1>6, LeastOfAll
<1>8. l \in [Inst -> Nat] /\ \A i \in Inst : l[i] >= low[i] /\ l[i] <= t[i]
  BY <1>6, <1>7 DEF IsLeast, Above
<1>9. Solution(K, b) = l
  <2>1. Below(low, l, low)
    BY <1>2, <1>8 DEF Below
  <2>2. Cardinality(Reached(low, l)) >= N - N /\ N \in 0 .. N
    <3>1. Reached(low, l) \in SUBSET Inst
      BY DEF Reached
    <3>2. IsFiniteSet(Reached(low, l))
      BY <3>1, InstFinite
    <3>3. Cardinality(Reached(low, l)) \in Nat
      BY <3>2, FS_CardinalityType
    <3> QED BY <3>3, NAssumption
  <2> QED BY <1>2, <1>5, <1>7, <2>1, <2>2, RoundsReach
<1>10. Satisfies(l, K, b)
  <2>1. ASSUME NEW c \in K PROVE l[c.to] - l[c.from] >= c.least
    <3>1. l[c.to] >= l[c.from] + c.least
      BY <1>7 DEF IsLeast, Above
    <3>2. l[c.to] \in Nat /\ l[c.from] \in Nat /\ c.least \in Int
      BY <1>1, <1>8
    <3> QED BY <3>1, <3>2
  <2>2. \A i \in Inst : l[i] >= b.atLeast[i] /\ b.exactly[i] \in {l[i], Free}
    BY <1>2, <1>3, <1>4, <1>8 DEF Free
  <2> QED BY <1>8, <2>1, <2>2 DEF Satisfies
<1>11. Feasible(K, b)
  BY <1>9, <1>10 DEF Feasible
<1> QED BY <1>8, <1>9, <1>11

LEMMA ConstraintsAreSystem ==
  ASSUME NEW k, IsKernel(k), NEW ii \in Nat
  PROVE  IsSystem(ConstraintsFor(k, ii))
<1> DEFINE Of(d) == [from |-> d.from, to |-> d.to, least |-> k.latency[d.from] - ii * d.dist]
           g == [d \in k.dependences |-> Of(d)]
           S == {Of(d) : d \in k.dependences}
<1>1. ASSUME NEW d \in k.dependences PROVE Of(d) \in Constraint
  <2>1. d.from \in Inst /\ d.to \in Inst /\ d.dist \in Nat /\ k.latency[d.from] \in Nat
    BY DEF IsKernel, Dependence
  <2>2. ii * d.dist \in Int
    BY <2>1
  <2> DEFINE x == ii * d.dist
             y == k.latency[d.from]
  <2>3. x \in Int /\ y \in Int
    BY <2>1, <2>2
  <2> HIDE DEF x, y
  <2>4. y - x \in Int
    BY <2>3
  <2> QED BY <2>1, <2>4 DEF Constraint, x, y
<1>2. g \in Surjection(k.dependences, S)
  BY DEF Surjection
<1>3. IsFiniteSet(S)
  <2> HIDE DEF g, S
  <2> QED BY <1>2, FS_Surjection DEF IsKernel
<1>4. S \subseteq Constraint
  BY <1>1
<1> QED BY <1>3, <1>4 DEF IsSystem, ConstraintsFor

LEMMA NoBoundsType == NoBounds \in Bounds
BY DEF NoBounds, Bounds

(***************************************************************************)
(* What can be met at an interval can be met at a longer one.              *)
(***************************************************************************)
LEMMA LongerIsFeasible ==
  ASSUME NEW k, IsKernel(k), NEW a \in Nat, NEW b \in Nat, a <= b,
         Feasible(ConstraintsFor(k, a), NoBounds)
  PROVE  Feasible(ConstraintsFor(k, b), NoBounds)
<1>1. PICK t : Satisfies(t, ConstraintsFor(k, a), NoBounds)
  BY DEF Feasible
<1>2. t \in [Inst -> Nat]
  BY <1>1 DEF Satisfies
<1>3. ASSUME NEW d \in k.dependences
      PROVE  t[d.to] - t[d.from] >= k.latency[d.from] - b * d.dist
  <2>1. d.from \in Inst /\ d.to \in Inst /\ d.dist \in Nat /\ k.latency[d.from] \in Nat
    BY DEF IsKernel, Dependence
  <2>2. t[d.to] - t[d.from] >= k.latency[d.from] - a * d.dist
    <3> DEFINE c == [from |-> d.from, to |-> d.to, least |-> k.latency[d.from] - a * d.dist]
    <3>1. c \in ConstraintsFor(k, a)
      BY DEF ConstraintsFor
    <3> QED BY <1>1, <3>1 DEF Satisfies
  <2> DEFINE x == a * d.dist
             y == b * d.dist
             z == k.latency[d.from]
             v == t[d.to]
             w == t[d.from]
  <2>3. x \in Int /\ y \in Int /\ x <= y
    <3> DEFINE n == d.dist
    <3>1. n \in Nat
      BY <2>1
    <3> HIDE DEF n
    <3>2. a * n \in Int /\ b * n \in Int
      BY <3>1
    <3>3. b * n = a * n + (b - a) * n /\ (b - a) * n >= 0 /\ (b - a) * n \in Int
      BY <3>1
    <3>4. a * n <= b * n
      BY <3>2, <3>3
    <3> QED BY <3>2, <3>4 DEF n
  <2>4. z \in Int /\ v \in Int /\ w \in Int /\ v - w >= z - x
    BY <1>2, <2>1, <2>2
  <2> HIDE DEF x, y, z, v, w
  <2>5. v - w >= z - y
    BY <2>3, <2>4
  <2> QED BY <2>5 DEF v, w, y, z
<1>4. Satisfies(t, ConstraintsFor(k, b), NoBounds)
  <2>1. \A c \in ConstraintsFor(k, b) : t[c.to] - t[c.from] >= c.least
    <3> SUFFICES ASSUME NEW c \in ConstraintsFor(k, b) PROVE t[c.to] - t[c.from] >= c.least
      OBVIOUS
    <3>1. PICK d \in k.dependences :
            c = [from |-> d.from, to |-> d.to, least |-> k.latency[d.from] - b * d.dist]
      BY DEF ConstraintsFor
    <3> QED BY <1>3, <3>1
  <2> QED BY <1>1, <2>1 DEF Satisfies
<1> QED BY <1>4, ConstraintsAreSystem, NoBoundsType, SolutionIsLeast

-----------------------------------------------------------------------------
(***************************************************************************)
(* No assertion has failed, and none will: the interval can be met, and    *)
(* what is constrained so far is solved, as early as can be.               *)
(***************************************************************************)
Solved ==
  /\ AssertionsHold
  /\ phase \in {"start", "schedule"} => Feasible(C, NoBounds)
  /\ phase = "schedule" /\ SDC => sdcSchedTime = Solution(C, bounds)

LEMMA InitIsSolved == Init => Solved
<1> SUFFICES ASSUME Init PROVE Solved
  OBVIOUS
<1>1. IsKernel(kernel)
  BY KernelsAssumption DEF Init
<1>2. phase \in {"start", "large"} /\ (phase = "start" => HasMII(kernel) /\ II = MII(kernel))
  BY DEF Init
<1>3. CASE phase = "start"
  <2>1. /\ MII(kernel) \in Nat /\ Min(Recurrent(kernel)) \in Recurrent(kernel)
        /\ Min(Recurrent(kernel)) <= MII(kernel)
    BY <1>1, <1>2, <1>3, IntervalType
  <2> DEFINE a == Min(Recurrent(kernel))
  <2>2. a \in Nat /\ a <= II /\ II \in Nat /\ Feasible(ConstraintsFor(kernel, a), NoBounds)
    <3>1. a \in 1 .. largestPossibleII /\ largestPossibleII \in Int
      BY <2>1, NAssumption DEF Recurrent, largestPossibleII
    <3> QED BY <1>2, <1>3, <2>1, <3>1 DEF Recurrent
  <2> HIDE DEF a
  <2>3. Feasible(C, NoBounds)
    BY <1>1, <2>2, LongerIsFeasible DEF C
  <2> QED BY <1>3, <2>3 DEF Solved, AssertionsHold
<1> QED BY <1>2, <1>3 DEF Solved, AssertionsHold

\* an action that goes on to the next interval
LEMMA NextIIIsSolved ==
  ASSUME Invariant, Solved, phase = "schedule", UNCHANGED loopVars, NextII
  PROVE  Solved'
<1>1. II \in Nat /\ IsKernel(kernel) /\ II' = II + 1 /\ kernel' = kernel
  BY KernelsAssumption DEF Invariant, NextII, loopVars
<1>2. Feasible(ConstraintsFor(kernel, II), NoBounds)
  BY DEF Solved, C
<1>3. Feasible(ConstraintsFor(kernel, II + 1), NoBounds)
  <2> DEFINE next == II + 1
  <2>1. next \in Nat /\ II <= next
    BY <1>1
  <2> HIDE DEF next
  <2>2. Feasible(ConstraintsFor(kernel, next), NoBounds)
    BY <1>1, <1>2, <2>1, LongerIsFeasible
  <2> QED BY <2>2 DEF next
<1>4. Feasible(C, NoBounds)'
  BY <1>1, <1>3 DEF C
<1>5. phase' \in {"start", "large"}
  BY DEF NextII
<1> QED BY <1>4, <1>5 DEF Solved, AssertionsHold

\* an action that stays with the interval, in the scheduling or at its end
LEMMA StaysSolved ==
  ASSUME Solved, phase \in {"start", "schedule"}, UNCHANGED <<kernel, scheduler, II>>,
         phase' \in {"schedule", "done"},
         phase' = "schedule" /\ SDC => sdcSchedTime' = Solution(C, bounds')
  PROVE  Solved'
<1>1. C' = C /\ (SDC' <=> SDC)
  BY DEF C, SDC
<1>2. Solution(C, bounds)' = Solution(C, bounds')
  BY <1>1
<1>3. Feasible(C, NoBounds)'
  BY <1>1 DEF Solved
<1> QED BY <1>1, <1>2, <1>3 DEF Solved, AssertionsHold

LEMMA BeginIsSolved ==
  ASSUME Solved, Begin
  PROVE  Solved'
<1>1. phase = "start" /\ UNCHANGED <<kernel, scheduler, II>> /\ Feasible(C, NoBounds)
  BY DEF Begin, Solved, loopVars
<1>2. phase' = "schedule" /\ bounds' = NoBounds
  BY <1>1 DEF Begin
<1>3. SDC => sdcSchedTime' = Solution(C, bounds')
  BY <1>2 DEF Begin, SDC, ASAP
<1> QED BY <1>1, <1>2, <1>3, StaysSolved

(***************************************************************************)
(* What the turns of SDC_BACKTRACKING know of instruction i.               *)
(***************************************************************************)
LEMMA TurnKnows ==
  ASSUME Invariant, Solved, SDC, phase = "schedule", NEW n \in DOMAIN queue
  PROVE  /\ IsSystem(C) /\ TableExact /\ QueueExact /\ SolutionExact
         /\ IsKernel(kernel) /\ II \in Nat \ {0}
         /\ sdcSchedTime = Solution(C, bounds)
         /\ queue[n] \in Inst /\ queue[n] \notin DOMAIN schedTime
         /\ bounds \in Bounds /\ bounds.exactly[queue[n]] = Free
         /\ sdcSchedTime \in [Inst -> Nat]
         /\ \A t : Satisfies(t, C, bounds) => \A i \in Inst : sdcSchedTime[i] <= t[i]
<1>1. TableExact /\ QueueExact /\ SolutionExact /\ IsKernel(kernel) /\ II \in Nat \ {0}
  BY KernelsAssumption DEF Invariant
<1>2. IsSystem(C)
  BY <1>1, ConstraintsAreSystem DEF C
<1>3. sdcSchedTime = Solution(C, bounds)
  BY DEF Solved
<1>4. queue[n] \in Inst /\ queue[n] \notin DOMAIN schedTime
  BY <1>1, NthOfQueue
<1>5. bounds \in Bounds /\ bounds.exactly[queue[n]] = Free /\ sdcSchedTime \in [Inst -> Nat]
  BY <1>1, <1>4 DEF SolutionExact, Satisfies
<1>6. ASSUME NEW t, Satisfies(t, C, bounds)
      PROVE  \A i \in Inst : sdcSchedTime[i] <= t[i]
  BY <1>2, <1>3, <1>5, <1>6, SolutionIsLeast
<1> QED BY <1>1, <1>2, <1>3, <1>4, <1>5, <1>6

\* fixing i where t, which satisfies b, has it
LEMMA FixedWhereItIs ==
  ASSUME NEW K, NEW b \in Bounds, NEW i \in Inst, NEW t, Satisfies(t, K, b)
  PROVE  FixedAt(b, i, t[i]) \in Bounds /\ Satisfies(t, K, FixedAt(b, i, t[i]))
<1>1. t \in [Inst -> Nat]
  BY DEF Satisfies
<1> DEFINE x == FixedAt(b, i, t[i])
<1>2. x \in Bounds /\ x.atLeast = b.atLeast
      /\ \A j \in Inst : x.exactly[j] = IF j = i THEN t[i] ELSE b.exactly[j]
  BY <1>1 DEF FixedAt, Bounds
<1> HIDE DEF x
<1>3. Satisfies(t, K, x)
  BY <1>2 DEF Satisfies
<1> QED BY <1>2, <1>3 DEF x

\* what satisfies b with i fixed satisfies b, in which i was free
LEMMA FixedSatisfies ==
  ASSUME NEW K, NEW b \in Bounds, NEW i \in Inst, b.exactly[i] = Free, NEW x \in Nat,
         NEW t, Satisfies(t, K, FixedAt(b, i, x))
  PROVE  Satisfies(t, K, b) /\ t[i] = x
<1> DEFINE f == FixedAt(b, i, x)
<1>1. f \in Bounds /\ f.atLeast = b.atLeast
      /\ \A j \in Inst : f.exactly[j] = IF j = i THEN x ELSE b.exactly[j]
  BY DEF FixedAt, Bounds
<1>2. Satisfies(t, K, f)
  OBVIOUS
<1> HIDE DEF f
<1>3. t[i] = x
  BY <1>1, <1>2 DEF Satisfies, Free
<1>4. Satisfies(t, K, b)
  BY <1>1, <1>2 DEF Satisfies
<1> QED BY <1>3, <1>4

LEMMA ScheduleThereIsSolved ==
  ASSUME Invariant, Solved, Turn("SDC_BACKTRACKING"), UNCHANGED <<loopVars, II>>,
         NEW n \in DOMAIN queue, ScheduleThere(n)
  PROVE  Solved'
<1> DEFINE i == queue[n]
           b == FixedAt(bounds, i, sdcSchedTime[i])
<1>1. SDC /\ phase = "schedule" /\ UNCHANGED <<kernel, scheduler, II>>
  BY DEF Turn, SDC, loopVars
<1>2. IsSystem(C) /\ i \in Inst /\ bounds \in Bounds /\ Satisfies(sdcSchedTime, C, bounds)
  BY <1>1, TurnKnows DEF SolutionExact
<1>3. b \in Bounds /\ Satisfies(sdcSchedTime, C, b)
  BY <1>2, FixedWhereItIs
<1> HIDE DEF i
<1>4. Feasible(C, b)
  <2> HIDE DEF b
  <2> QED BY <1>2, <1>3, SolutionIsLeast
<1>5. phase' = phase /\ bounds' = b /\ sdcSchedTime' = Solution(C, b)
  BY <1>4 DEF ScheduleThere, i
<1> QED BY <1>1, <1>5, StaysSolved

LEMMA PushLaterIsSolved ==
  ASSUME Invariant, Solved, Turn("SDC_BACKTRACKING"), UNCHANGED <<loopVars, II>>,
         NEW n \in DOMAIN queue, PushLater(n)
  PROVE  Solved'
<1>1. phase = "schedule" /\ UNCHANGED <<kernel, scheduler, II>>
  BY DEF Turn, loopVars
<1>2. phase' = phase /\ sdcSchedTime' = Solution(C, bounds')
  BY DEF PushLater
<1> QED BY <1>1, <1>2, StaysSolved

-----------------------------------------------------------------------------
\* the only time up to that of the solution which the others leave to i
LEMMA FoundIsThere ==
  ASSUME Invariant, Solved, SDC, phase = "schedule", NEW n \in DOMAIN queue
  PROVE  FirstFeasible(queue[n]) = {sdcSchedTime[queue[n]]}
<1> DEFINE i == queue[n]
<1>1. /\ IsSystem(C) /\ i \in Inst /\ bounds \in Bounds /\ bounds.exactly[i] = Free
      /\ sdcSchedTime \in [Inst -> Nat] /\ Satisfies(sdcSchedTime, C, bounds)
      /\ \A t : Satisfies(t, C, bounds) => \A j \in Inst : sdcSchedTime[j] <= t[j]
  BY TurnKnows DEF SolutionExact
<1> HIDE DEF i
<1> DEFINE at == sdcSchedTime[i]
<1>2. at \in Nat
  BY <1>1
<1>3. at \in FirstFeasible(i)
  <2> DEFINE b == FixedAt(bounds, i, at)
  <2>1. b \in Bounds /\ Satisfies(sdcSchedTime, C, b)
    BY <1>1, FixedWhereItIs
  <2> HIDE DEF b
  <2>2. Feasible(C, b)
    BY <1>1, <2>1, SolutionIsLeast
  <2> QED BY <1>2, <2>2 DEF FirstFeasible, b
<1>4. ASSUME NEW t \in FirstFeasible(i) PROVE t = at
  <2>1. t \in Nat /\ t <= at /\ Feasible(C, FixedAt(bounds, i, t))
    BY <1>2 DEF FirstFeasible
  <2>2. PICK s : Satisfies(s, C, FixedAt(bounds, i, t))
    BY <2>1 DEF Feasible
  <2>3. Satisfies(s, C, bounds) /\ s[i] = t
    BY <1>1, <2>1, <2>2, FixedSatisfies
  <2>4. at <= t
    BY <1>1, <2>3
  <2> QED BY <1>2, <2>1, <2>4
<1>5. FirstFeasible(i) = {at}
  BY <1>3, <1>4
<1> QED BY <1>5 DEF i, at

LEMMA NotBeforeSatisfies ==
  ASSUME NEW K, NEW b \in Bounds, NEW i \in Inst, NEW x \in Nat,
         NEW t, Satisfies(t, K, b), t[i] >= x
  PROVE  NotBefore(b, i, x) \in Bounds /\ Satisfies(t, K, NotBefore(b, i, x))
<1> DEFINE y == b.atLeast[i]
           m == Max({y, x})
           f == NotBefore(b, i, x)
<1>1. y \in Nat /\ t \in [Inst -> Nat] /\ t[i] >= y
  BY DEF Satisfies, Bounds
<1>2. m \in Nat /\ t[i] >= m
  <2> HIDE DEF y
  <2>1. y \in Int /\ x \in Int
    BY <1>1
  <2>2. m \in {y, x}
    BY <2>1, MaxOfTwo
  <2> QED BY <1>1, <2>2
<1>3. f = [b EXCEPT !.atLeast[i] = m]
  BY DEF NotBefore
<1> HIDE DEF m, f, y
<1>4. f \in Bounds /\ f.exactly = b.exactly
      /\ \A j \in Inst : f.atLeast[j] = IF j = i THEN m ELSE b.atLeast[j]
  BY <1>2, <1>3 DEF Bounds
<1>5. Satisfies(t, K, f)
  BY <1>1, <1>2, <1>4 DEF Satisfies
<1> QED BY <1>4, <1>5 DEF f

(***************************************************************************)
(* Something stands in the way where i is forced in: a unit, or, if that   *)
(* is later than the solution has it, the others.                          *)
(***************************************************************************)
LEMMA SomethingInTheWay ==
  ASSUME Invariant, Solved, SDC, phase = "schedule", NEW n \in DOMAIN queue,
         resourceConflict(queue[n], sdcSchedTime[queue[n]]),
         ~Feasible(C, NotBefore(bounds, queue[n], sdcSchedTime[queue[n]] + 1))
  PROVE  LET t == evictSlot(queue[n], sdcSchedTime[queue[n]]) IN
         /\ t \in Nat /\ t >= sdcSchedTime[queue[n]]
         /\ Conflict(queue[n], t, reservationTable, bounds)
<1> DEFINE i == queue[n]
           at == sdcSchedTime[i]
           t == evictSlot(i, at)
<1>1. /\ IsSystem(C) /\ i \in Inst /\ bounds \in Bounds /\ bounds.exactly[i] = Free
      /\ sdcSchedTime \in [Inst -> Nat] /\ prevSchedTime \in [Inst -> Nat \cup {NULL}]
  BY TurnKnows DEF SolutionExact
<1> HIDE DEF i
<1>2. at \in Nat /\ prevSchedTime[i] \in Nat \cup {NULL}
  BY <1>1
<1>3. t \in Nat /\ (t = at \/ t >= at + 1)
  <2> HIDE DEF at
  <2> QED BY <1>2 DEF evictSlot, NULL
<1>4. Conflict(i, t, reservationTable, bounds)
  <2>1. CASE t = at
    BY <2>1 DEF Conflict, resourceConflict, i
  <2>2. CASE t >= at + 1
    <3> HIDE DEF t
    <3>1. ASSUME Feasible(C, FixedAt(bounds, i, t)) PROVE FALSE
      <4>1. PICK s : Satisfies(s, C, FixedAt(bounds, i, t))
        BY <3>1 DEF Feasible
      <4>2. Satisfies(s, C, bounds) /\ s[i] = t
        BY <1>1, <1>3, <4>1, FixedSatisfies
      <4> DEFINE next == at + 1
                 b == NotBefore(bounds, i, next)
      <4>3. next \in Nat /\ s[i] >= next
        BY <1>2, <2>2, <4>2
      <4> HIDE DEF next
      <4>4. b \in Bounds /\ Satisfies(s, C, b)
        BY <1>1, <4>2, <4>3, NotBeforeSatisfies
      <4> HIDE DEF b
      <4>5. Feasible(C, b)
        BY <1>1, <4>4, SolutionIsLeast
      <4> QED BY <4>5 DEF b, next, at, i
    <3> QED BY <3>1 DEF Conflict
  <2> QED BY <1>3, <2>1, <2>2
<1>5. t >= at
  BY <1>2, <1>3
<1> QED BY <1>3, <1>4, <1>5 DEF i

(***************************************************************************)
(* Nothing stands in the way once everything is evicted: the cells are     *)
(* free, and the whole solution can start later by as much as i does.      *)
(***************************************************************************)
LEMMA NothingInTheWay ==
  ASSUME Invariant, Solved, SDC, phase = "schedule", NEW n \in DOMAIN queue,
         NEW t \in Nat, t >= sdcSchedTime[queue[n]], NEW S, S = DOMAIN schedTime
  PROVE  ~Conflict(queue[n], t, Without(S), Released(bounds, S))
<1> DEFINE i == queue[n]
           at == sdcSchedTime[i]
           r == Released(bounds, S)
           f == FixedAt(r, i, t)
<1>1. /\ IsSystem(C) /\ i \in Inst /\ i \notin S /\ bounds \in Bounds
      /\ sdcSchedTime \in [Inst -> Nat] /\ Satisfies(sdcSchedTime, C, bounds)
      /\ TableExact /\ SolutionExact /\ IsKernel(kernel) /\ II \in Nat \ {0}
  BY TurnKnows DEF SolutionExact
<1>2. at \in Nat /\ t >= at
  BY <1>1
<1> HIDE DEF i
<1>3. \A j \in Inst : j \in S \/ bounds.exactly[j] = Free
  BY <1>1 DEF SolutionExact
<1>4. /\ r \in Bounds
      /\ \A j \in Inst : r.exactly[j] = Free /\ (r.atLeast[j] = 0 \/ r.atLeast[j] = bounds.atLeast[j])
  BY <1>1, <1>3 DEF Released, Bounds
<1> HIDE DEF r
<1>5. /\ f \in Bounds /\ f.atLeast = r.atLeast
      /\ \A j \in Inst : f.exactly[j] = IF j = i THEN t ELSE Free
  BY <1>1, <1>4 DEF FixedAt, Bounds
<1> HIDE DEF f
<1> DEFINE later == [j \in Inst |-> sdcSchedTime[j] + (t - at)]
<1>6. /\ later \in [Inst -> Nat] /\ later[i] = t
      /\ \A j \in Inst : later[j] = sdcSchedTime[j] + (t - at) /\ later[j] >= sdcSchedTime[j]
  <2>1. \A j \in Inst : sdcSchedTime[j] + (t - at) \in Nat
    BY <1>1, <1>2
  <2>2. \A j \in Inst : sdcSchedTime[j] + (t - at) >= sdcSchedTime[j]
    BY <1>1, <1>2
  <2>3. at + (t - at) = t
    BY <1>2
  <2> QED BY <1>1, <2>1, <2>2, <2>3
<1> HIDE DEF later
<1>7. ASSUME NEW c \in C PROVE later[c.to] - later[c.from] >= c.least
  <2>1. c.from \in Inst /\ c.to \in Inst /\ c.least \in Int
    BY <1>1 DEF IsSystem, Constraint
  <2>2. sdcSchedTime[c.to] - sdcSchedTime[c.from] >= c.least
    BY <1>1 DEF Satisfies
  <2> DEFINE x == sdcSchedTime[c.to]
             y == sdcSchedTime[c.from]
  <2>3. x \in Nat /\ y \in Nat /\ later[c.to] = x + (t - at) /\ later[c.from] = y + (t - at)
    BY <1>1, <1>6, <2>1
  <2>4. x - y >= c.least
    BY <2>2
  <2> HIDE DEF x, y, at
  <2> QED BY <1>2, <2>1, <2>3, <2>4
<1>8. \A j \in Inst : later[j] >= f.atLeast[j] /\ f.exactly[j] \in {later[j], Free}
  <2> SUFFICES ASSUME NEW j \in Inst
               PROVE  later[j] >= f.atLeast[j] /\ f.exactly[j] \in {later[j], Free}
    OBVIOUS
  <2>1. sdcSchedTime[j] >= bounds.atLeast[j] /\ bounds.atLeast[j] \in Nat
    BY <1>1 DEF Satisfies, Bounds
  <2>2. sdcSchedTime[j] \in Nat /\ later[j] \in Nat /\ later[j] >= sdcSchedTime[j]
    BY <1>1, <1>6
  <2>3. f.atLeast[j] = 0 \/ f.atLeast[j] = bounds.atLeast[j]
    BY <1>4, <1>5
  <2> QED BY <1>5, <1>6, <2>1, <2>2, <2>3
<1>9. Satisfies(later, C, f)
  BY <1>6, <1>7, <1>8 DEF Satisfies
<1>10. Feasible(C, f)
  BY <1>1, <1>5, <1>9, SolutionIsLeast
<1>11. Constrained(i) => \E c \in CellsAt(i, t) : Without(S)[c] = NULL
  <2> SUFFICES ASSUME Constrained(i) PROVE \E c \in CellsAt(i, t) : Without(S)[c] = NULL
    OBVIOUS
  <2>1. PICK c \in CellsAt(i, t) : TRUE
    BY <1>1, FirstCell
  <2>2. c \in Cell
    BY DEF CellsAt
  <2>3. reservationTable[c] # NULL => reservationTable[c] \in S
    BY <1>1, HolderIsScheduled
  <2>4. Without(S)[c] = NULL
    BY <2>2, <2>3 DEF Without
  <2> QED BY <2>4
<1> QED BY <1>10, <1>11 DEF Conflict, f, r, i

LEMMA BacktrackIsSolved ==
  ASSUME Invariant, Solved, Turn("SDC_BACKTRACKING"), UNCHANGED <<loopVars, II>>,
         NEW n \in DOMAIN queue, Backtrack(n)
  PROVE  Solved'
<1> DEFINE i == queue[n]
           at == sdcSchedTime[i]
           t == evictSlot(i, at)
           way == InTheWay(i, t)
           others == Others(i, t, way)
           gone == way \cup others
           freed == Released(bounds, gone)
           after == FixedAt(freed, i, t)
<1>1. SDC /\ phase = "schedule" /\ UNCHANGED <<kernel, scheduler, II>>
  BY DEF Turn, SDC, loopVars
<1>2. resourceConflict(i, at) /\ ~Feasible(C, NotBefore(bounds, i, at + 1))
  BY DEF Backtrack
<1>3. t \in Nat /\ t >= at /\ Conflict(i, t, reservationTable, bounds)
  BY <1>1, <1>2, SomethingInTheWay
<1>4. FirstFeasible(i) = {at} /\ at \in Nat /\ i \in Inst
  BY <1>1, FoundIsThere, TurnKnows
<1>5. Min({at}) = at
  <2> HIDE DEF at
  <2>1. at \in Int
    BY <1>4
  <2>2. IsFiniteSet({at})
    BY FS_Singleton
  <2>3. Min({at}) \in {at}
    BY <2>1, <2>2, MinIn
  <2> QED BY <2>3
<1>6. way \in SUBSET (DOMAIN schedTime)
  <2>1. {at} = FirstFeasible(i) /\ {at} # {}
    BY <1>4
  <2> DEFINE found == {at}
  <2>2. found = FirstFeasible(i) /\ found # {} /\ Min(found) = at
    BY <1>5, <2>1
  <2> HIDE DEF found, i, at
  <2>3. InTheWay(i, evictSlot(i, Min(found))) \in SUBSET (DOMAIN schedTime)
    BY <1>4, <2>2, EvictionIsOfScheduled
  <2> QED BY <2>2, <2>3 DEF i
<1>7. ~Conflict(i, t, Without(gone), freed)
  <2>1. CASE Conflict(i, t, Without(way), Released(bounds, way))
    <3>1. others = DOMAIN schedTime \ way
      BY <2>1 DEF Others
    <3>2. gone = DOMAIN schedTime
      BY <1>6, <3>1
    <3> HIDE DEF gone, t, at
    <3> QED BY <1>1, <1>3, <3>2, NothingInTheWay DEF at
  <2>2. CASE ~Conflict(i, t, Without(way), Released(bounds, way))
    <3>1. others = {}
      BY <2>2 DEF Others
    <3>2. gone = way
      BY <3>1
    <3> QED BY <2>2, <3>2
  <2> QED BY <2>1, <2>2
<1>8. ForceInto(n, t, way, others)
  <2>1. \E found \in {FirstFeasible(i)} : found = {at}
    BY <1>4
  <2> HIDE DEF way, others
  <2>2. LET u == evictSlot(i, Min({at})) IN ForceInto(n, u, InTheWay(i, u), Others(i, u, InTheWay(i, u)))
    BY <1>4 DEF Backtrack
  <2> QED BY <1>5, <2>2 DEF way, others
<1>9. Feasible(C, after)
  BY <1>7 DEF Conflict
<1>10. phase' = phase /\ bounds' = after /\ sdcSchedTime' = Solution(C, after)
  BY <1>3, <1>7, <1>8, <1>9 DEF ForceInto
<1> HIDE DEF after
<1> QED BY <1>1, <1>10, StaysSolved

LEMMA GreedyTurnIsSolved ==
  ASSUME Invariant, Solved, GreedyTurn
  PROVE  Solved'
<1>1. phase = "schedule" /\ UNCHANGED loopVars /\ UNCHANGED <<kernel, scheduler>>
  BY DEF GreedyTurn, Turn, loopVars
<1>2. \E b : Resolve(b)
  BY DEF GreedyTurn
<1>3. \/ II' = II /\ phase' = phase /\ sdcSchedTime' = Solution(C, bounds')
      \/ NextII
  BY <1>2 DEF Resolve
<1> QED BY <1>1, <1>3, StaysSolved, NextIIIsSolved

LEMMA NextIsSolved ==
  ASSUME Invariant, Solved, [Next]_vars
  PROVE  Solved'
<1>1. CASE Begin
  BY <1>1, BeginIsSolved
<1>2. CASE BacktrackingTurn
  <2>1. PICK n \in Taken : ScheduleThere(n) \/ PushLater(n) \/ Backtrack(n)
    BY <1>2 DEF BacktrackingTurn
  <2>2. n \in DOMAIN queue
    BY DEF Taken, Earliest
  <2> QED BY <1>2, <2>1, <2>2, ScheduleThereIsSolved, PushLaterIsSolved, BacktrackIsSolved
       DEF BacktrackingTurn
<1>3. CASE EndBacktracking
  <2>1. phase = "schedule" /\ UNCHANGED loopVars /\ UNCHANGED <<kernel, scheduler>>
    BY <1>3 DEF EndBacktracking, Turn, loopVars
  <2>2. (phase' = "done" /\ II' = II) \/ NextII
    BY <1>3 DEF EndBacktracking
  <2> QED BY <2>1, <2>2, StaysSolved, NextIIIsSolved
<1>4. CASE GreedyTurn
  BY <1>4, GreedyTurnIsSolved
<1>5. CASE EndGreedy
  <2>1. phase = "schedule" /\ UNCHANGED <<kernel, scheduler, II>> /\ phase' = "done"
    BY <1>5 DEF EndGreedy, Turn, loopVars
  <2> QED BY <2>1, StaysSolved
<1>6. CASE IterativeTurn
  <2>1. phase = "schedule" /\ phase' = phase /\ ~SDC /\ UNCHANGED <<kernel, scheduler, II>>
    BY <1>6 DEF IterativeTurn, Turn, loopVars, SDC
  <2> QED BY <2>1, StaysSolved
<1>7. CASE EndIterative
  <2>1. phase = "schedule" /\ UNCHANGED loopVars /\ UNCHANGED <<kernel, scheduler>>
    BY <1>7 DEF EndIterative, Turn, loopVars
  <2>2. (phase' = "done" /\ II' = II) \/ NextII
    BY <1>7 DEF EndIterative
  <2> QED BY <2>1, <2>2, StaysSolved, NextIIIsSolved
<1>8. CASE UNCHANGED vars
  <2>1. UNCHANGED <<kernel, scheduler, phase, II, bounds, sdcSchedTime>>
    BY <1>8 DEF vars, loopVars
  <2>2. C' = C /\ (SDC' <=> SDC)
    BY <2>1 DEF C, SDC
  <2> QED BY <2>1, <2>2 DEF Solved, AssertionsHold
<1> QED BY <1>1, <1>2, <1>3, <1>4, <1>5, <1>6, <1>7, <1>8 DEF Next, Terminated

(***************************************************************************)
(* The assertions of SDCWithBacktracking and backtracking never fail: an   *)
(* interval at which the dependences can be met stays one, and eviction    *)
(* always makes room.                                                      *)
(***************************************************************************)
THEOREM AssertionsNeverFail == Spec => []AssertionsHold
<1>1. Init => Solved
  BY InitIsSolved
<1>2. Invariant /\ Solved /\ [Next]_vars => Solved'
  BY NextIsSolved
<1>3. Solved => AssertionsHold
  BY DEF Solved
<1> QED BY <1>1, <1>2, <1>3, SpecInvariant, PTL DEF Spec

=============================================================================
