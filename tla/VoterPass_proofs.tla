-------------------------- MODULE VoterPass_proofs ---------------------------
(***************************************************************************)
(* What VoterPass promises, for every number of instructions and every     *)
(* data-flow graph, schedule and set of delays.                            *)
(*                                                                         *)
(* Mode 1 rests on SccInv (the two depth-first passes of getSCCs return    *)
(* every component once) and on CoverInv: a feedback cycle is recorded, or *)
(* its component is waiting or being searched; CycleSearch_proofs shows    *)
(* that the search of a component misses none.  Mode 2 rests on PhiInv: a  *)
(* node the walk has left has no way back to the phi but through a call    *)
(* that is still active.  VoterPlace says where the selection puts a voter.*)
(***************************************************************************)
EXTENDS VoterPass, FiniteSetTheorems, WellFoundedInduction, TLAPS

Scc == INSTANCE SccSearch WITH frames <- sccFrames, scc <- partial
Cyc == INSTANCE CycleSearch_proofs
Phi == INSTANCE PhiSearch WITH Graphs <- PhiGraphs, frames <- walk, visited <- walked

LEMMA FirstExists ==
  ASSUME NEW S \in SUBSET Nat, S # {}
  PROVE  \E m \in S : \A k \in S : m <= k
<1>1. PICK m \in S : \A k \in S : ~(<<k, m>> \in OpToRel(<, Nat))
  BY NatLessThanWellFounded, WFMin
<1>2. ASSUME NEW k \in S, k < m PROVE FALSE
  BY <1>1, <1>2 DEF OpToRel
<1>3. m \in Nat /\ \A k \in S : k \in Nat
  OBVIOUS
<1>4. QED  BY <1>2, <1>3

(***************************************************************************)
(* Every finite set of numbers has a last one, and a sorted list.          *)
(***************************************************************************)
LEMMA LastExists ==
  ASSUME NEW n \in Nat, NEW S \in SUBSET (0 .. n), S # {}
  PROVE  \E m \in S : \A k \in S : k <= m
<1> DEFINE T == {n - k : k \in S}
<1>0. \A k \in S : k \in 0 .. n /\ n - k \in Nat
  <2>1. \A k \in 0 .. n : n - k \in Nat
    OBVIOUS
  <2>2. QED  BY <2>1
<1>1. T \in SUBSET Nat /\ T # {}
  BY <1>0
<1>2. PICK t \in T : \A k \in T : t <= k
  BY <1>1, FirstExists
<1>3. PICK m \in S : t = n - m
  OBVIOUS
<1>4. \A k \in S : n - m <= n - k
  BY <1>2, <1>3
<1>5. \A k \in S : k \in 0 .. n
  OBVIOUS
<1>6. QED  BY <1>4, <1>5

LEMMA NodeIsFinite == IsFiniteSet(Node) /\ Cardinality(Node) = N
BY NAssumption, FS_Interval DEF Node

IsSorted(s, S) ==
  s \in [1 .. Cardinality(S) -> S] /\ \A i, j \in DOMAIN s : i < j => s[i] < s[j]

LEMMA SortedExists ==
  ASSUME NEW S \in SUBSET Node
  PROVE  \E s : IsSorted(s, S)
<1> DEFINE Bad == {n \in Nat : \E T \in SUBSET Node : Cardinality(T) = n
    /\ ~\E s : IsSorted(s, T)}
<1>1. \A T \in SUBSET Node : IsFiniteSet(T) /\ Cardinality(T) \in Nat
  BY NodeIsFinite, FS_Subset, FS_CardinalityType
<1>2. SUFFICES ASSUME Bad # {} PROVE FALSE
  BY <1>1
<1>3. PICK n \in Bad : \A k \in Bad : n <= k
  <2>1. Bad \in SUBSET Nat
    OBVIOUS
  <2>2. QED  BY <1>2, <2>1, FirstExists
<1>4. PICK T \in SUBSET Node : Cardinality(T) = n /\ ~\E s : IsSorted(s, T)
  BY <1>3
<1>5. CASE T = {}
  <2>1. Cardinality(T) = 0
    BY <1>5, FS_EmptySet
  <2>2. IsSorted([i \in 1 .. 0 |-> 0], T)
    BY <2>1 DEF IsSorted
  <2>3. QED  BY <1>4, <2>2
<1>6. CASE T # {}
  <2>1. PICK m \in T : \A k \in T : k <= m
    <3>1. N-1 \in Nat /\ T \in SUBSET (0 .. N-1)
      BY NAssumption DEF Node
    <3>2. QED  BY <1>6, <3>1, LastExists
  <2> DEFINE R == T \ {m}
  <2>2. Cardinality(R) = n - 1 /\ n - 1 \in Nat
    <3>1. Cardinality(R) = Cardinality(T) - 1
      BY <1>1, FS_RemoveElement
    <3>2. Cardinality(R) \in Nat
      BY <1>1
    <3>3. QED  BY <1>4, <3>1, <3>2
  <2>3. n - 1 \notin Bad
    BY <1>3, <2>2
  <2>4. PICK s : IsSorted(s, R)
    BY <2>2, <2>3
  <2> DEFINE t == [i \in 1 .. n |-> IF i = n THEN m ELSE s[i]]
  <2>5. s \in [1 .. n-1 -> R] /\ \A i, j \in 1 .. n-1 : i < j => s[i] < s[j]
    BY <2>2, <2>4 DEF IsSorted
  <2>6. \A k \in R : k < m
    BY <2>1 DEF Node
  <2>7. \A i \in 1 .. n : i = n \/ i \in 1 .. n-1
    BY <2>2
  <2>8. t \in [1 .. n -> T]
    BY <2>5, <2>7
  <2>9. ASSUME NEW i \in 1 .. n, NEW j \in 1 .. n, i < j PROVE t[i] < t[j]
    <3>1. i \in 1 .. n-1 /\ i # n /\ t[i] = s[i]
      BY <2>2, <2>9
    <3>2. CASE j = n
      BY <2>5, <2>6, <3>1, <3>2
    <3>3. CASE j # n
      <4>1. j \in 1 .. n-1 /\ t[j] = s[j]
        BY <2>7, <3>3
      <4>2. QED  BY <2>5, <2>9, <3>1, <4>1
    <3>4. QED  BY <3>2, <3>3
  <2> HIDE DEF t
  <2>10. IsSorted(t, T)
    BY <1>4, <2>8, <2>9 DEF IsSorted
  <2>11. QED  BY <1>4, <2>10
<1>7. QED  BY <1>5, <1>6

LEMMA SortedFacts ==
  ASSUME NEW S \in SUBSET Node
  PROVE  Phi!Sorted(S) \in Seq(Node) /\ NodesOf(Phi!Sorted(S)) = S
<1> DEFINE n == Cardinality(S)
           s == Phi!Sorted(S)
<1>1. IsFiniteSet(S) /\ n \in Nat
  BY NodeIsFinite, FS_Subset, FS_CardinalityType
<1>2. s \in [1 .. n -> S] /\ \A i, j \in DOMAIN s : i < j => s[i] < s[j]
  BY SortedExists DEF IsSorted, Phi!Sorted, Phi!Cardinality, Cardinality
<1> HIDE DEF s
<1>3. s \in Injection(1 .. n, S)
  <2>1. ASSUME NEW i \in 1 .. n, NEW j \in 1 .. n, s[i] = s[j] PROVE i = j
    <3>0. s[i] \in S /\ s[j] \in S
      BY <1>2
    <3>1. s[i] \in Nat /\ s[j] \in Nat
      <4>1. \A u \in Node : u \in Nat
        BY DEF Node
      <4>2. QED  BY <3>0, <4>1
    <3>2. ~(i < j) /\ ~(j < i)
      BY <1>2, <2>1, <3>1
    <3>3. QED  BY <1>1, <3>2
  <2>2. QED  BY <1>2, <2>1 DEF Injection, IsInjective
<1>4. Cardinality(1 .. n) = n
  BY <1>1, FS_Interval
<1>5. s \in Surjection(1 .. n, S)
  BY <1>1, <1>3, <1>4, FS_Injection
<1>6. NodesOf(s) = S
  BY <1>2, <1>5 DEF NodesOf, Surjection
<1>7. s \in Seq(Node)
  BY <1>1, <1>2
<1>8. QED  BY <1>6, <1>7 DEF s

\* A list without repetition is no longer than there are nodes.
LEMMA DistinctBound ==
  ASSUME NEW p \in Seq(Node), Distinct(p)
  PROVE  Len(p) <= N /\ p \in [1 .. Len(p) -> Node]
<1>1. p \in [1 .. Len(p) -> Node] /\ Len(p) \in Nat
  OBVIOUS
<1>2. p \in Injection(1 .. Len(p), Node)
  BY <1>1 DEF Injection, IsInjective, Distinct
<1>3. Cardinality(1 .. Len(p)) <= N
  BY <1>2, NodeIsFinite, FS_Injection
<1>4. Cardinality(1 .. Len(p)) = Len(p)
  <2> DEFINE n == Len(p)
  <2>1. 1 \in Int /\ n \in Int /\ n \in Nat
    BY <1>1
  <2> HIDE DEF n
  <2>2. Cardinality(1 .. n) = IF 1 > n THEN 0 ELSE n - 1 + 1
    BY <2>1, FS_Interval
  <2>3. Cardinality(1 .. n) = n
    BY <2>1, <2>2
  <2>4. QED  BY <2>3 DEF n
<1>5. QED  BY <1>1, <1>3, <1>4

LEMMA IsListedCycle ==
  ASSUME NEW g, NEW c
  PROVE  c \in ElementaryCycles(g) <=> IsElementaryCycle(g, c)
<1>1. ASSUME IsElementaryCycle(g, c) PROVE c \in ElementaryCycles(g)
  <2>1. c \in Seq(Node) /\ Len(c) <= N /\ c \in [1 .. Len(c) -> Node] /\ c # << >>
    BY <1>1, DistinctBound DEF IsElementaryCycle
  <2>2. Len(c) \in 1 .. N
    BY <2>1, NAssumption
  <2>3. QED  BY <1>1, <2>1, <2>2 DEF ElementaryCycles
<1>2. QED  BY <1>1 DEF ElementaryCycles

(***************************************************************************)
(* A cycle written so that its k-th node comes last.                       *)
(***************************************************************************)
Turned(c, k, i) == IF i + k <= Len(c) THEN i + k ELSE i + k - Len(c)

Rotated(c, k) == [i \in 1 .. Len(c) |-> c[Turned(c, k, i)]]

Following(c, i) == IF i = Len(c) THEN c[1] ELSE c[i+1]

LEMMA TurnedFacts ==
  ASSUME NEW c, Len(c) \in Nat \ {0}, NEW k \in 1 .. Len(c)
  PROVE  /\ \A i \in 1 .. Len(c) : Turned(c, k, i) \in 1 .. Len(c)
         /\ \A i, j \in 1 .. Len(c) : Turned(c, k, i) = Turned(c, k, j) => i = j
         /\ \A j \in 1 .. Len(c) : \E i \in 1 .. Len(c) : Turned(c, k, i) = j
         /\ Turned(c, k, Len(c)) = k
         /\ \A i \in 1 .. Len(c) :
              Turned(c, k, IF i = Len(c) THEN 1 ELSE i+1) =
                IF Turned(c, k, i) = Len(c) THEN 1 ELSE Turned(c, k, i) + 1
<1> DEFINE n == Len(c)
<1>1. n \in Nat \ {0} /\ k \in 1 .. n
  OBVIOUS
<1> HIDE DEF n
<1>2. \A i \in 1 .. n : Turned(c, k, i) = IF i + k <= n THEN i + k ELSE i + k - n
  BY DEF Turned, n
<1>3. /\ \A i \in 1 .. n : Turned(c, k, i) \in 1 .. n
      /\ \A i, j \in 1 .. n : Turned(c, k, i) = Turned(c, k, j) => i = j
  BY <1>1, <1>2
<1>4. ASSUME NEW j \in 1 .. n PROVE \E i \in 1 .. n : Turned(c, k, i) = j
  <2>1. CASE j > k
    <3>1. j - k \in 1 .. n /\ Turned(c, k, j-k) = j
      BY <1>1, <1>2, <2>1
    <3>2. QED  BY <3>1
  <2>2. CASE j <= k
    <3>1. j - k + n \in 1 .. n /\ Turned(c, k, j - k + n) = j
      BY <1>1, <1>2, <2>2
    <3>2. QED  BY <3>1
  <2>3. QED  BY <1>1, <2>1, <2>2
<1>5. Turned(c, k, n) = k
  BY <1>1, <1>2
<1>6. ASSUME NEW i \in 1 .. n
      PROVE  Turned(c, k, IF i = n THEN 1 ELSE i+1) =
               IF Turned(c, k, i) = n THEN 1 ELSE Turned(c, k, i) + 1
  <2>1. CASE i = n
    <3>1. 1 \in 1 .. n /\ n \in 1 .. n
      BY <1>1
    <3>2. Turned(c, k, 1) = IF 1 + k <= n THEN 1 + k ELSE 1 + k - n
      BY <1>2, <3>1
    <3>3. QED  BY <1>1, <1>5, <2>1, <3>2
  <2>2. CASE i # n
    <3>1. i + 1 \in 1 .. n /\ i \in Int
      BY <1>1, <2>2
    <3>2. /\ Turned(c, k, i+1) = IF i + 1 + k <= n THEN i + 1 + k ELSE i + 1 + k - n
          /\ Turned(c, k, i) = IF i + k <= n THEN i + k ELSE i + k - n
      BY <1>2, <3>1
    <3>3. QED  BY <1>1, <2>2, <3>1, <3>2
  <2>3. QED  BY <2>1, <2>2
<1>7. QED  BY <1>3, <1>4, <1>5, <1>6 DEF n

LEMMA CycleFacts ==
  ASSUME NEW g \in Graph, NEW c, IsElementaryCycle(g, c)
  PROVE  /\ c \in Seq(Node) /\ c # << >> /\ Len(c) \in Nat \ {0} /\ DOMAIN c = 1 .. Len(c)
         /\ \A i, j \in 1 .. Len(c) : c[i] = c[j] => i = j
         /\ \A i \in 1 .. Len(c) : c[i] \in Node /\ Following(c, i) \in g[c[i]]
<1>1. c \in Seq(Node) /\ c # << >>
  BY DEF IsElementaryCycle
<1>2. Len(c) \in Nat \ {0} /\ DOMAIN c = 1 .. Len(c) /\ \A i \in 1 .. Len(c) : c[i] \in Node
  BY <1>1
<1>3. ASSUME NEW i \in 1 .. Len(c) PROVE Following(c, i) \in g[c[i]]
  <2>1. CASE i = Len(c)
    BY <2>1 DEF Following, IsElementaryCycle
  <2>2. CASE i # Len(c)
    <3>1. i \in 1 .. Len(c)-1
      <4> DEFINE n == Len(c)
      <4>1. n \in Nat /\ i \in 1 .. n /\ i # n
        BY <1>2, <2>2
      <4> HIDE DEF n
      <4>2. i \in 1 .. n-1
        BY <4>1
      <4>3. QED  BY <4>2 DEF n
    <3>2. QED  BY <2>2, <3>1 DEF Following, IsElementaryCycle, IsPath
  <2>3. QED  BY <2>1, <2>2
<1>4. QED  BY <1>1, <1>2, <1>3 DEF IsElementaryCycle, Distinct

\* A distinct list each of which leads to the one that follows is a cycle.
LEMMA IsCycle ==
  ASSUME NEW g, NEW n \in Nat \ {0}, NEW d \in [1 .. n -> Node],
         \A i, j \in 1 .. n : d[i] = d[j] => i = j,
         \A i \in 1 .. n : Following(d, i) \in g[d[i]]
  PROVE  IsElementaryCycle(g, d) /\ Len(d) = n
<1>1. d \in Seq(Node) /\ Len(d) = n /\ DOMAIN d = 1 .. n /\ d # << >>
  OBVIOUS
<1>2. Distinct(d)
  BY <1>1 DEF Distinct
<1>3. ASSUME NEW i \in 1 .. n-1 PROVE d[i+1] \in g[d[i]]
  <2>1. i \in 1 .. n /\ i # n
    OBVIOUS
  <2>2. Following(d, i) = d[i+1]
    BY <1>1, <2>1 DEF Following
  <2>3. QED  BY <2>1, <2>2
<1>4. d[1] \in g[d[n]]
  <2>1. n \in 1 .. n /\ Following(d, n) = d[1]
    BY <1>1 DEF Following
  <2>2. QED  BY <2>1
<1>5. IsPath(g, d)
  BY <1>1, <1>3 DEF IsPath
<1>6. QED  BY <1>1, <1>2, <1>4, <1>5 DEF IsElementaryCycle

LEMMA RotatedFacts ==
  ASSUME NEW g \in Graph, NEW c, IsElementaryCycle(g, c), NEW k \in 1 .. Len(c)
  PROVE  /\ IsElementaryCycle(g, Rotated(c, k)) /\ Len(Rotated(c, k)) = Len(c)
         /\ NodesOf(Rotated(c, k)) = NodesOf(c) /\ Rotated(c, k)[Len(c)] = c[k]
         /\ \A i \in 1 .. Len(c) :
              \E j \in 1 .. Len(c) : /\ Rotated(c, k)[i] = c[j]
                                     /\ Following(Rotated(c, k), i) = Following(c, j)
<1> DEFINE n == Len(c)
           d == Rotated(c, k)
<1>1. /\ c \in Seq(Node) /\ n \in Nat \ {0} /\ DOMAIN c = 1 .. n /\ k \in 1 .. n
      /\ \A i, j \in 1 .. n : c[i] = c[j] => i = j
      /\ \A i \in 1 .. n : c[i] \in Node /\ Following(c, i) \in g[c[i]]
  BY CycleFacts
<1>2. /\ \A i \in 1 .. n : Turned(c, k, i) \in 1 .. n
      /\ \A i, j \in 1 .. n : Turned(c, k, i) = Turned(c, k, j) => i = j
      /\ \A j \in 1 .. n : \E i \in 1 .. n : Turned(c, k, i) = j
      /\ Turned(c, k, n) = k
      /\ \A i \in 1 .. n : Turned(c, k, IF i = n THEN 1 ELSE i+1) =
            IF Turned(c, k, i) = n THEN 1 ELSE Turned(c, k, i) + 1
  BY <1>1, TurnedFacts
<1>3. d = [i \in 1 .. n |-> c[Turned(c, k, i)]]
  BY DEF Rotated
<1>4. \A i \in 1 .. n : d[i] = c[Turned(c, k, i)]
  BY <1>3
<1> HIDE DEF d
<1>5. d \in [1 .. n -> Node]
  BY <1>1, <1>2, <1>3
<1>6. d \in Seq(Node) /\ Len(d) = n /\ DOMAIN d = 1 .. n
  BY <1>1, <1>5
<1>7. ASSUME NEW i \in 1 .. n PROVE Following(d, i) = Following(c, Turned(c, k, i))
  <2> DEFINE h == IF i = n THEN 1 ELSE i+1
             t == Turned(c, k, i)
  <2>1. h \in 1 .. n
    BY <1>1
  <2>2. Following(d, i) = d[h]
    BY <1>6 DEF Following
  <2>3. Turned(c, k, h) = IF t = n THEN 1 ELSE t + 1
    BY <1>2
  <2> HIDE DEF h, t
  <2>4. d[h] = c[IF t = n THEN 1 ELSE t + 1]
    BY <1>4, <2>1, <2>3
  <2>5. Following(c, t) = c[IF t = n THEN 1 ELSE t + 1]
    BY DEF Following
  <2>6. QED  BY <2>2, <2>4, <2>5 DEF t
<1> HIDE DEF n
<1>8. \A i, j \in 1 .. n : d[i] = d[j] => i = j
  <2> SUFFICES ASSUME NEW i \in 1 .. n, NEW j \in 1 .. n, d[i] = d[j] PROVE i = j
    OBVIOUS
  <2>1. Turned(c, k, i) \in 1 .. n /\ Turned(c, k, j) \in 1 .. n
    BY <1>2
  <2>2. c[Turned(c, k, i)] = c[Turned(c, k, j)]
    BY <1>4
  <2>3. Turned(c, k, i) = Turned(c, k, j)
    BY <1>1, <2>1, <2>2
  <2>4. QED  BY <1>2, <2>3
<1>9. \A i \in 1 .. n : Following(d, i) \in g[d[i]]
  <2> SUFFICES ASSUME NEW i \in 1 .. n PROVE Following(d, i) \in g[d[i]]
    OBVIOUS
  <2>1. Turned(c, k, i) \in 1 .. n /\ d[i] = c[Turned(c, k, i)]
    BY <1>2, <1>4
  <2>2. QED  BY <1>1, <1>7, <2>1
<1>10. IsElementaryCycle(g, d)
  BY <1>1, <1>5, <1>8, <1>9, IsCycle
<1>11. \A y : y \in NodesOf(d) <=> y \in NodesOf(c)
  <2>1. /\ \A y : y \in NodesOf(d) <=> \E i \in 1 .. n : y = d[i]
        /\ \A y : y \in NodesOf(c) <=> \E i \in 1 .. n : y = c[i]
    BY <1>1, <1>6 DEF NodesOf
  <2>2. ASSUME NEW y \in NodesOf(d) PROVE y \in NodesOf(c)
    <3>1. PICK i \in 1 .. n : y = d[i]
      BY <2>1
    <3>2. y = c[Turned(c, k, i)] /\ Turned(c, k, i) \in 1 .. n
      BY <1>2, <1>4, <3>1
    <3>3. QED  BY <2>1, <3>2
  <2>3. ASSUME NEW y \in NodesOf(c) PROVE y \in NodesOf(d)
    <3>1. PICK j \in 1 .. n : y = c[j]
      BY <2>1
    <3>2. PICK i \in 1 .. n : Turned(c, k, i) = j
      BY <1>2
    <3>3. QED  BY <1>4, <2>1, <3>1, <3>2
  <2>4. QED  BY <2>2, <2>3
<1>12. NodesOf(d) = NodesOf(c) /\ d[n] = c[k]
  <2>1. n \in 1 .. n
    BY <1>1
  <2>2. QED  BY <1>2, <1>4, <1>11, <2>1
<1>13. \A i \in 1 .. n : \E j \in 1 .. n : d[i] = c[j] /\ Following(d, i) = Following(c, j)
  BY <1>2, <1>4, <1>7
<1>14. QED  BY <1>6, <1>10, <1>12, <1>13 DEF d, n

-----------------------------------------------------------------------------
(***************************************************************************)
(* The delay of a chain is a number, and the voter of a cycle goes to its  *)
(* last instruction or to one whose successor starts in another state.     *)
(***************************************************************************)
Adds(c, ends, f, m) ==
  f = [i \in 0 .. m |-> IF i = 0 THEN 0
                        ELSE (IF i-1 \in ends THEN 0 ELSE f[i-1]) + NodeDelay(c[i])]

LEMMA AddsExists ==
  ASSUME NEW c, NEW ends, NEW n \in Nat
  PROVE  \E f : Adds(c, ends, f, n)
<1> DEFINE Bad == {m \in Nat : ~\E f : Adds(c, ends, f, m)}
<1>1. SUFFICES ASSUME Bad # {} PROVE FALSE
  OBVIOUS
<1>2. Bad \in SUBSET Nat
  OBVIOUS
<1>3. PICK m \in Bad : \A k \in Bad : m <= k
  BY <1>1, <1>2, FirstExists
<1>4. m # 0
  <2>1. Adds(c, ends, [i \in 0 .. 0 |-> 0], 0)
    BY DEF Adds
  <2>2. QED  BY <2>1, <1>3
<1>5. m \in Nat /\ m-1 \in Nat /\ m-1 \notin Bad
  BY <1>2, <1>3, <1>4
<1>6. PICK f : Adds(c, ends, f, m-1)
  BY <1>5
<1> DEFINE g == [i \in 0 .. m |-> IF i = m THEN (IF m-1 \in ends THEN 0 ELSE f[m-1]) + NodeDelay(c[m])
                                             ELSE f[i]]
<1>7. ASSUME NEW i \in 0 .. m
      PROVE  g[i] = IF i = 0 THEN 0 ELSE (IF i-1 \in ends THEN 0 ELSE g[i-1]) + NodeDelay(c[i])
  <2>1. CASE i = m
    <3>1. m-1 \in 0 .. m /\ m - 1 # m
      BY <1>5
    <3>2. g[m-1] = f[m-1]
      BY <3>1
    <3>3. QED  BY <1>4, <2>1, <3>2
  <2>2. CASE i # m
    <3>1. i \in 0 .. m-1 /\ g[i] = f[i]
      BY <1>5, <2>2
    <3>2. f[i] = IF i = 0 THEN 0 ELSE (IF i-1 \in ends THEN 0 ELSE f[i-1]) + NodeDelay(c[i])
      BY <1>6, <3>1 DEF Adds
    <3>3. i # 0 => i-1 \in 0 .. m /\ i-1 # m
      BY <1>5
    <3>4. i # 0 => g[i-1] = f[i-1]
      BY <3>3
    <3> HIDE DEF g
    <3>5. QED  BY <3>1, <3>2, <3>4
  <2>3. QED  BY <2>1, <2>2
<1>8. Adds(c, ends, g, m)
  <2> HIDE DEF g
  <2>1. g = [i \in 0 .. m |-> g[i]]
    BY DEF g
  <2>2. QED  BY <1>7, <2>1 DEF Adds
<1>9. QED  BY <1>3, <1>8

LEMMA DelaysAreNumbers ==
  ASSUME NEW c \in Seq(Node), delay \in [Node -> Delay], NEW ends, NEW i \in 1 .. Len(c)
  PROVE  PartialDelay(c, ends)[i] \in Nat
<1> DEFINE n == Len(c)
           D == PartialDelay(c, ends)
<1>1. n \in Nat /\ \A k \in 1 .. n : c[k] \in Node
  OBVIOUS
<1>2. Adds(c, ends, D, n)
  <2>1. D = CHOOSE f : Adds(c, ends, f, n)
    BY DEF PartialDelay, Adds
  <2>2. QED  BY <1>1, <2>1, AddsExists
<1>3. \A k \in 1 .. n : NodeDelay(c[k]) \in Nat
  <2>1. MaxDelay \in Nat /\ \A d \in Delay : d \in Nat
    BY DelayAssumption
  <2>2. \A k \in 1 .. n : delay[c[k]] \in Delay
    BY <1>1
  <2>3. QED  BY <2>1, <2>2 DEF NodeDelay
<1> HIDE DEF D, n
<1> DEFINE Bad == {k \in 0 .. n : D[k] \notin Nat}
<1>4. SUFFICES ASSUME Bad # {} PROVE FALSE
  <2>1. i \in 0 .. n
    BY <1>1 DEF n
  <2>2. QED  BY <2>1 DEF D
<1>5. PICK k \in Bad : \A j \in Bad : k <= j
  <2>1. Bad \in SUBSET Nat
    OBVIOUS
  <2>2. QED  BY <1>4, <2>1, FirstExists
<1>6. k \in 0 .. n /\ D[k] \notin Nat
  OBVIOUS
<1>7. D[k] = IF k = 0 THEN 0 ELSE (IF k-1 \in ends THEN 0 ELSE D[k-1]) + NodeDelay(c[k])
  BY <1>2, <1>6 DEF Adds
<1>8. k # 0
  BY <1>6, <1>7
<1>9. k \in 1 .. n /\ k-1 \in 0 .. n /\ k-1 \notin Bad
  BY <1>1, <1>5, <1>6, <1>8
<1>10. D[k-1] \in Nat /\ NodeDelay(c[k]) \in Nat
  BY <1>3, <1>9
<1>11. QED  BY <1>6, <1>7, <1>10

LEMMA VoterPlace ==
  ASSUME NEW c \in Seq(Node), c # << >>, delay \in [Node -> Delay], NEW pastEnd \in BOOLEAN
  PROVE  \E i \in 1 .. Len(c) :
           /\ MinInst(c, pastEnd) = c[i]
           /\ i = Len(c) \/ startState[c[i]] # startState[c[i+1]]
<1> DEFINE n     == Len(c)
           ends  == ChainEnds(c, pastEnd)
           D     == PartialDelay(c, ends)
           short == {i \in ends : D[i] < MaxDelay}
           best  == {i \in short : \A j \in short : D[i] <= D[j]}
<1>1. n \in Nat \ {0} /\ DOMAIN c = 1 .. n
  OBVIOUS
<1>2. MinInst(c, pastEnd) = IF short = {} THEN c[n] ELSE c[Min(best)]
  BY DEF MinInst
<1>3. \A i \in ends : i \in 1 .. n /\ (i = n \/ startState[c[i]] # startState[c[i+1]])
  BY <1>1 DEF ChainEnds
<1>4. CASE short = {}
  <2>1. n \in 1 .. n
    BY <1>1
  <2>2. QED  BY <1>2, <1>4, <2>1
<1>5. CASE short # {}
  <2>1. \A i \in short : i \in 1 .. n /\ D[i] \in Nat
    BY <1>3, DelaysAreNumbers
  <2> DEFINE Delays == {D[i] : i \in short}
  <2>2. Delays \in SUBSET Nat /\ Delays # {}
    BY <1>5, <2>1
  <2>3. PICK d \in Delays : \A e \in Delays : d <= e
    BY <2>2, FirstExists
  <2>4. best # {}
    BY <2>3
  <2>5. best \in SUBSET Nat
    BY <2>1
  <2>6. \E i \in best : \A j \in best : i <= j
    BY <2>4, <2>5, FirstExists
  <2> HIDE DEF best
  <2>7. Min(best) \in best
    BY <2>6 DEF Min
  <2>8. Min(best) \in ends
    BY <2>7 DEF best
  <2>9. QED  BY <1>2, <1>3, <1>5, <2>8
<1>6. QED  BY <1>4, <1>5

-----------------------------------------------------------------------------
LEMMA SccGraphs == Graphs \subseteq Scc!Graph
BY GraphsAssumption DEF Graph, Node, Scc!Graph, Scc!Node

(***************************************************************************)
(* Reachability and components.                                            *)
(***************************************************************************)
LEMMA ReachFacts ==
  ASSUME NEW g \in Scc!Graph, NEW u \in Scc!Node
  PROVE  /\ Scc!ReachableFrom(g, u) \subseteq Scc!Node
         /\ u \in Scc!ReachableFrom(g, u)
         /\ \A v \in Scc!ReachableFrom(g, u) : g[v] \subseteq Scc!ReachableFrom(g, u)
         /\ \A v \in Scc!ReachableFrom(g, u) : Scc!ReachableFrom(g, v) \subseteq Scc!ReachableFrom(g, u)
<1>1. Scc!ReachableFrom(g, u) \subseteq Scc!Node /\ u \in Scc!ReachableFrom(g, u)
  BY DEF Scc!ReachableFrom
<1>2. ASSUME NEW v \in Scc!ReachableFrom(g, u), NEW w \in g[v]
      PROVE  w \in Scc!ReachableFrom(g, u)
  BY <1>1, <1>2 DEF Scc!ReachableFrom, Scc!IsClosed, Scc!Graph
<1>3. ASSUME NEW v \in Scc!ReachableFrom(g, u), NEW w \in Scc!ReachableFrom(g, v)
      PROVE  w \in Scc!ReachableFrom(g, u)
  BY <1>3 DEF Scc!ReachableFrom
<1>4. QED  BY <1>1, <1>2, <1>3

LEMMA ReachInClosed ==
  ASSUME NEW g, NEW S \in SUBSET Scc!Node, NEW u \in S, Scc!IsClosed(g, S)
  PROVE  Scc!ReachableFrom(g, u) \subseteq S
BY DEF Scc!ReachableFrom

LEMMA ComponentFacts ==
  ASSUME NEW g \in Scc!Graph, NEW u \in Scc!Node
  PROVE  /\ Scc!Component(g, u) \subseteq Scc!Node /\ u \in Scc!Component(g, u)
         /\ \A v \in Scc!Component(g, u) : u \in Scc!Component(g, v)
            /\ Scc!Component(g, v) = Scc!Component(g, u)
<1>1. Scc!Component(g, u) \subseteq Scc!Node /\ u \in Scc!Component(g, u)
  BY ReachFacts DEF Scc!Component
<1>2. ASSUME NEW v \in Scc!Component(g, u)
      PROVE  u \in Scc!Component(g, v) /\ Scc!Component(g, v) = Scc!Component(g, u)
  <2>1. /\ v \in Scc!Node /\ v \in Scc!ReachableFrom(g, u) /\ u \in Scc!ReachableFrom(g, v)
    BY <1>1 DEF Scc!Component
  <2>2. Scc!ReachableFrom(g, v) = Scc!ReachableFrom(g, u)
    BY <2>1, ReachFacts
  <2>3. \A w \in Scc!Node : u \in Scc!ReachableFrom(g, w) <=> v \in Scc!ReachableFrom(g, w)
    BY <2>1, ReachFacts
  <2>4. QED  BY <1>1, <2>1, <2>2, <2>3, ReachFacts DEF Scc!Component
<1>3. QED  BY <1>1, <1>2

(***************************************************************************)
(* The first pass.  Finished nodes and the nodes of the calls are what has *)
(* been visited; each call is reached from the calls below it.             *)
(***************************************************************************)
SccCalls == {sccFrames[i].node : i \in DOMAIN sccFrames}

FillInv ==
  /\ visited = Scc!NodesOf(order) \cup SccCalls
  /\ Scc!NodesOf(order) \cap SccCalls = {}
  /\ \A i, j \in DOMAIN sccFrames : sccFrames[i].node = sccFrames[j].node => i = j
  /\ \A i, j \in DOMAIN sccFrames : i <= j => sccFrames[j].node \in Scc!ReachableFrom(graph, sccFrames[i].node)
  /\ \A i \in DOMAIN sccFrames : /\ sccFrames[i].todo \subseteq graph[sccFrames[i].node]
                              /\ graph[sccFrames[i].node] \subseteq sccFrames[i].todo \cup visited
  /\ \A u \in Scc!NodesOf(order) : graph[u] \subseteq visited
  /\ partial = << >> /\ sccs = {}

\* a component that is finished as a whole has finished all it reaches
FinishedReach ==
  \A u \in Scc!Node : Scc!Component(graph, u) \subseteq Scc!NodesOf(order) =>
                    Scc!ReachableFrom(graph, u) \subseteq Scc!NodesOf(order)

\* whoever reaches a node has someone of its component finish no earlier
LastOfComponent ==
  \A i \in DOMAIN order : \A u \in Scc!Node :
    order[i] \in Scc!ReachableFrom(graph, u) =>
      \E x \in Scc!Component(graph, u) : \A j \in 1 .. i-1 : order[j] # x

(***************************************************************************)
(* The second pass.                                                        *)
(***************************************************************************)
Taken == UNION {Scc!NodesOf(s) : s \in sccs}

CollectInv ==
  /\ Scc!Node \ visited \subseteq Scc!NodesOf(order)
  /\ visited = Taken \cup Scc!NodesOf(partial) /\ Taken \cap Scc!NodesOf(partial) = {}
  /\ Scc!Distinct(partial)
  /\ \A s \in sccs : Scc!Distinct(s) /\ Scc!NodesOf(s) \in Scc!Components(graph)
  /\ \A s, t \in sccs : Scc!NodesOf(s) = Scc!NodesOf(t) => s = t
  /\ sccFrames = << >> <=> partial = << >>

WalkInv ==
  /\ Scc!NodesOf(partial) \subseteq Scc!Component(graph, partial[1])
  /\ \A u \in Scc!Node \ Taken :
       partial[1] \in Scc!ReachableFrom(graph, u) => partial[1] \in Scc!Component(graph, u)
  /\ \A i \in DOMAIN sccFrames :
       /\ sccFrames[i].node \in Scc!NodesOf(partial)
       /\ sccFrames[i].todo \subseteq Scc!Reversed[sccFrames[i].node]
       /\ Scc!Reversed[sccFrames[i].node] \subseteq sccFrames[i].todo \cup visited
  /\ \A u \in Scc!NodesOf(partial) \ SccCalls : Scc!Reversed[u] \subseteq visited

SccInv ==
  /\ Scc!TypeOK
  /\ LastOfComponent
  /\ phase = "fill" => FillInv /\ FinishedReach
  /\ phase # "fill" => CollectInv /\ (sccFrames # << >> => WalkInv)
  /\ phase = "done" => sccFrames = << >> /\ order = << >>

-----------------------------------------------------------------------------
LEMMA NodesFacts ==
  ASSUME NEW s \in Seq(Scc!Node), NEW x
  PROVE  /\ Scc!NodesOf(Append(s, x)) = Scc!NodesOf(s) \cup {x}
         /\ Scc!NodesOf(<<x>>) = {x} /\ Scc!NodesOf(<< >>) = {}
         /\ Scc!NodesOf(s) \subseteq Scc!Node
<1>1. Len(s) \in Nat /\ DOMAIN s = 1 .. Len(s)
  OBVIOUS
<1>2. /\ DOMAIN Append(s, x) = 1 .. Len(s)+1
      /\ \A i \in 1 .. Len(s) : Append(s, x)[i] = s[i]
      /\ Append(s, x)[Len(s)+1] = x
  OBVIOUS
<1>3. Scc!NodesOf(Append(s, x)) = Scc!NodesOf(s) \cup {x}
  <2>1. ASSUME NEW y \in Scc!NodesOf(Append(s, x)) PROVE y \in Scc!NodesOf(s) \cup {x}
    <3>1. PICK i \in 1 .. Len(s)+1 : y = Append(s, x)[i]
      BY <1>2 DEF Scc!NodesOf
    <3>2. i \in 1 .. Len(s) \/ i = Len(s)+1
      BY <1>1
    <3>3. QED  BY <1>1, <1>2, <3>1, <3>2 DEF Scc!NodesOf
  <2>2. ASSUME NEW y \in Scc!NodesOf(s) \cup {x} PROVE y \in Scc!NodesOf(Append(s, x))
    <3>1. CASE y = x
      <4>1. Len(s)+1 \in 1 .. Len(s)+1
        BY <1>1
      <4>2. QED  BY <1>2, <3>1, <4>1 DEF Scc!NodesOf
    <3>2. CASE y \in Scc!NodesOf(s)
      <4>1. PICK i \in 1 .. Len(s) : y = s[i]
        BY <1>1, <3>2 DEF Scc!NodesOf
      <4>2. i \in 1 .. Len(s)+1
        BY <1>1
      <4>3. QED  BY <1>2, <4>1, <4>2 DEF Scc!NodesOf
    <3>3. QED  BY <2>2, <3>1, <3>2
  <2>3. QED  BY <2>1, <2>2
<1>4. Scc!NodesOf(<<x>>) = {x}
  <2>1. DOMAIN <<x>> = {1} /\ <<x>>[1] = x
    OBVIOUS
  <2>2. QED  BY <2>1 DEF Scc!NodesOf
<1>5. Scc!NodesOf(<< >>) = {}
  BY DEF Scc!NodesOf
<1>6. Scc!NodesOf(s) \subseteq Scc!Node
  <2>1. \A i \in 1 .. Len(s) : s[i] \in Scc!Node
    OBVIOUS
  <2>2. QED  BY <1>1, <2>1 DEF Scc!NodesOf
<1>7. QED  BY <1>3, <1>4, <1>5, <1>6

\* the last element of a sequence, and what comes before it
LEMMA LastFacts ==
  ASSUME NEW S, NEW s \in Seq(S), s # << >>
  PROVE  /\ Len(s) \in Nat \ {0} /\ Len(s) \in DOMAIN s /\ s[Len(s)] \in S
         /\ \A i \in DOMAIN s : s[i] \in S
         /\ Scc!PopLast(s) \in Seq(S) /\ Len(Scc!PopLast(s)) = Len(s) - 1
         /\ DOMAIN Scc!PopLast(s) = 1 .. Len(s) - 1 /\ DOMAIN s = 1 .. Len(s)
         /\ \A i \in 1 .. Len(s) - 1 : Scc!PopLast(s)[i] = s[i]
<1>1. Len(s) \in Nat \ {0} /\ DOMAIN s = 1 .. Len(s)
  OBVIOUS
<1>2. \A i \in 1 .. Len(s) : s[i] \in S
  OBVIOUS
<1>3. QED  BY <1>1, <1>2 DEF Scc!PopLast

(***************************************************************************)
(* The calls after a step.                                                 *)
(***************************************************************************)
LEMMA TopFacts ==
  ASSUME Scc!TypeOK, sccFrames # << >>
  PROVE  /\ Len(sccFrames) \in Nat \ {0} /\ Len(sccFrames) \in DOMAIN sccFrames
         /\ DOMAIN sccFrames = 1 .. Len(sccFrames)
         /\ Scc!Top = sccFrames[Len(sccFrames)] /\ Scc!Top \in Scc!Frame
         /\ Scc!Top.node \in Scc!Node
         /\ \A i \in DOMAIN sccFrames : sccFrames[i].node \in Scc!Node
<1>1. sccFrames \in Seq(Scc!Frame)
  BY DEF Scc!TypeOK
<1>2. /\ Len(sccFrames) \in Nat \ {0} /\ Len(sccFrames) \in DOMAIN sccFrames
      /\ DOMAIN sccFrames = 1 .. Len(sccFrames)
      /\ \A i \in DOMAIN sccFrames : sccFrames[i] \in Scc!Frame
  BY <1>1, LastFacts
<1>3. \A f \in Scc!Frame : f.node \in Scc!Node
  BY DEF Scc!Frame
<1>4. QED  BY <1>2, <1>3 DEF Scc!Top

LEMMA VisitFrames ==
  ASSUME Scc!TypeOK, NEW g \in Scc!Graph, NEW w \in Scc!Node, Scc!VisitWith(g, w)
  PROVE  LET n == Len(sccFrames) IN
         /\ sccFrames' \in Seq(Scc!Frame) /\ visited' = visited \cup {w} /\ w \in Scc!Top.todo
         /\ Len(sccFrames') = IF w \in visited THEN n ELSE n + 1
         /\ DOMAIN sccFrames' = 1 .. Len(sccFrames')
         /\ \A i \in 1 .. n :
              /\ sccFrames'[i].node = sccFrames[i].node
              /\ sccFrames'[i].todo = IF i = n THEN sccFrames[i].todo \ {w} ELSE sccFrames[i].todo
         /\ w \notin visited => sccFrames'[n+1].node = w /\ sccFrames'[n+1].todo = g[w]
<1> DEFINE n == Len(sccFrames)
           rest == [sccFrames EXCEPT ![n].todo = @ \ {w}]
<1>1. sccFrames \in Seq(Scc!Frame) /\ n \in Nat \ {0} /\ n \in DOMAIN sccFrames
      /\ DOMAIN sccFrames = 1 .. n
  BY TopFacts DEF Scc!VisitWith, Scc!TypeOK
<1>2. /\ rest \in Seq(Scc!Frame) /\ Len(rest) = n /\ DOMAIN rest = 1 .. n
      /\ \A i \in 1 .. n :
           /\ rest[i].node = sccFrames[i].node
           /\ rest[i].todo = IF i = n THEN sccFrames[i].todo \ {w} ELSE sccFrames[i].todo
  <2>1. sccFrames[n] \in [node : Scc!Node, todo : SUBSET Scc!Node]
    <3>1. sccFrames[n] \in Scc!Frame
      BY <1>1, LastFacts
    <3>2. QED  BY <3>1 DEF Scc!Frame
  <2>2. [sccFrames[n] EXCEPT !.todo = @ \ {w}] \in Scc!Frame
    BY <2>1 DEF Scc!Frame
  <2>3. rest = [sccFrames EXCEPT ![n] = [sccFrames[n] EXCEPT !.todo = @ \ {w}]]
    BY <1>1
  <2>4. rest \in Seq(Scc!Frame) /\ Len(rest) = n /\ DOMAIN rest = 1 .. n
    BY <1>1, <2>2, <2>3
  <2>5. rest[n] = [sccFrames[n] EXCEPT !.todo = @ \ {w}]
        /\ \A i \in 1 .. n : i # n => rest[i] = sccFrames[i]
    BY <1>1, <2>3
  <2>6. QED  BY <2>1, <2>4, <2>5
<1>3. CASE w \in visited
  <2>1. sccFrames' = rest /\ visited' = visited
    BY <1>3 DEF Scc!VisitWith
  <2>2. visited' = visited \cup {w} /\ w \in Scc!Top.todo
    BY <1>3, <2>1 DEF Scc!VisitWith
  <2> HIDE DEF rest
  <2>3. QED  BY <1>1, <1>2, <1>3, <2>1, <2>2
<1>4. CASE w \notin visited
  <2> DEFINE new == [node |-> w, todo |-> g[w]]
  <2>1. sccFrames' = Append(rest, new) /\ visited' = visited \cup {w} /\ w \in Scc!Top.todo
    BY <1>4 DEF Scc!VisitWith
  <2>2. new \in Scc!Frame /\ new.node = w /\ new.todo = g[w]
    BY DEF Scc!Frame, Scc!Graph
  <2> HIDE DEF rest, new
  <2>3. /\ Append(rest, new) \in Seq(Scc!Frame) /\ Len(Append(rest, new)) = n+1
        /\ DOMAIN Append(rest, new) = 1 .. n+1
        /\ \A i \in 1 .. n : Append(rest, new)[i] = rest[i]
        /\ Append(rest, new)[n+1] = new
    <3>1. rest \in Seq(Scc!Frame) /\ new \in Scc!Frame /\ Len(rest) = n /\ n \in Nat
      BY <1>1, <1>2, <2>2
    <3> HIDE DEF n
    <3>2. QED  BY <3>1
  <2>4. QED  BY <1>1, <1>2, <1>4, <2>1, <2>2, <2>3
<1>5. QED  BY <1>3, <1>4

LEMMA PoppedFrames ==
  ASSUME Scc!TypeOK, sccFrames # << >>, sccFrames' = Scc!PopLast(sccFrames)
  PROVE  LET n == Len(sccFrames) IN
         /\ sccFrames' \in Seq(Scc!Frame) /\ Len(sccFrames') = n - 1
         /\ DOMAIN sccFrames' = 1 .. n-1
         /\ \A i \in 1 .. n-1 : sccFrames'[i] = sccFrames[i]
BY LastFacts DEF Scc!TypeOK

-----------------------------------------------------------------------------
LEMMA InitScc == Scc!Init => SccInv
<1> SUFFICES ASSUME Scc!Init PROVE SccInv
  OBVIOUS
<1>1. Scc!TypeOK
  BY DEF Scc!Init, Scc!TypeOK
<1>2. /\ DOMAIN sccFrames = {} /\ DOMAIN order = {} /\ SccCalls = {} /\ Scc!NodesOf(order) = {}
  BY DEF Scc!Init, SccCalls, Scc!NodesOf
<1>3. FillInv
  BY <1>2 DEF Scc!Init, FillInv
<1>4. FinishedReach
  <2>1. graph \in Scc!Graph
    BY SccGraphs DEF Scc!Init
  <2>2. QED  BY <1>2, <2>1, ComponentFacts DEF FinishedReach
<1>5. QED  BY <1>1, <1>2, <1>3, <1>4 DEF Scc!Init, SccInv, LastOfComponent

(***************************************************************************)
(* The steps of the first pass.                                            *)
(***************************************************************************)
LEMMA FillFromKeeps == SccInv /\ Scc!FillFrom => SccInv'
<1> SUFFICES ASSUME SccInv, Scc!FillFrom PROVE SccInv'
  OBVIOUS
<1>1. Scc!TypeOK /\ FillInv /\ FinishedReach /\ phase = "fill" /\ sccFrames = << >>
      /\ graph \in Scc!Graph
  BY SccGraphs DEF Scc!FillFrom, SccInv, Scc!TypeOK
<1>2. PICK i \in Scc!Node \ visited :
        visited' = visited \cup {i} /\ sccFrames' = <<[node |-> i, todo |-> graph[i]]>>
  <2>1. Scc!Node \ visited \in SUBSET Nat /\ Scc!Node \ visited # {}
    <3>1. \A u \in Scc!Node : u \in Nat
      BY DEF Scc!Node
    <3>2. visited \subseteq Scc!Node /\ visited # Scc!Node
      BY <1>1 DEF Scc!FillFrom, Scc!TypeOK
    <3>3. QED  BY <3>1, <3>2
  <2>2. \E v \in Scc!Node \ visited : \A u \in Scc!Node \ visited : v <= u
    BY <2>1, FirstExists
  <2>3. QED  BY <2>2 DEF Scc!FillFrom
<1>3. UNCHANGED <<graph, phase, order, partial, sccs>>
  BY DEF Scc!FillFrom
<1>4. [node |-> i, todo |-> graph[i]] \in Scc!Frame /\ i \in Scc!Node
  BY <1>1, <1>2 DEF Scc!Frame, Scc!Graph
<1>5. /\ DOMAIN sccFrames' = {1} /\ sccFrames'[1].node = i /\ sccFrames'[1].todo = graph[i]
      /\ sccFrames' \in Seq(Scc!Frame) /\ sccFrames' # << >>
  <2> DEFINE f == [node |-> i, todo |-> graph[i]]
  <2>1. f.node = i /\ f.todo = graph[i] /\ f \in Scc!Frame /\ sccFrames' = <<f>>
    BY <1>2, <1>4
  <2> HIDE DEF f
  <2>2. QED  BY <2>1
<1>6. Scc!TypeOK'
  BY <1>1, <1>3, <1>2, <1>4, <1>5 DEF Scc!TypeOK
<1>7. SccCalls' = {i} /\ SccCalls = {} /\ Scc!NodesOf(order)' = Scc!NodesOf(order)
  BY <1>1, <1>3, <1>5 DEF SccCalls, Scc!NodesOf
<1>8. FillInv'
  <2>1. i \in Scc!ReachableFrom(graph, i)
    BY <1>1, <1>4, ReachFacts
  <2>2. QED  BY <1>1, <1>2, <1>3, <1>5, <1>7, <2>1 DEF FillInv
<1>9. FinishedReach' /\ LastOfComponent'
  BY <1>1, <1>3, <1>7 DEF FinishedReach, LastOfComponent, SccInv
<1>10. QED  BY <1>1, <1>3, <1>6, <1>8, <1>9 DEF SccInv

LEMMA FillVisitKeeps ==
  ASSUME SccInv, NEW w \in Scc!Node, Scc!FillVisit(w)
  PROVE  SccInv'
<1>1. /\ Scc!TypeOK /\ FillInv /\ FinishedReach /\ phase = "fill" /\ graph \in Scc!Graph
      /\ Scc!VisitWith(graph, w) /\ UNCHANGED <<graph, phase, order, partial, sccs>>
  BY SccGraphs DEF Scc!FillVisit, SccInv, Scc!TypeOK
<1> DEFINE n == Len(sccFrames)
<1>2. /\ n \in Nat \ {0} /\ DOMAIN sccFrames = 1 .. n /\ Scc!Top = sccFrames[n]
      /\ \A i \in 1 .. n : sccFrames[i].node \in Scc!Node
  BY <1>1, TopFacts DEF Scc!VisitWith
<1>3. /\ sccFrames' \in Seq(Scc!Frame) /\ visited' = visited \cup {w} /\ w \in Scc!Top.todo
      /\ Len(sccFrames') = IF w \in visited THEN n ELSE n + 1
      /\ DOMAIN sccFrames' = 1 .. Len(sccFrames')
      /\ \A i \in 1 .. n :
           /\ sccFrames'[i].node = sccFrames[i].node
           /\ sccFrames'[i].todo = IF i = n THEN sccFrames[i].todo \ {w} ELSE sccFrames[i].todo
      /\ w \notin visited => sccFrames'[n+1].node = w /\ sccFrames'[n+1].todo = graph[w]
  BY <1>1, VisitFrames
<1> HIDE DEF n
<1>4. Scc!TypeOK'
  BY <1>1, <1>3 DEF Scc!TypeOK
<1>5. \/ w \notin visited /\ SccCalls' = SccCalls \cup {w}
      \/ w \in visited /\ SccCalls' = SccCalls
  <2>0. \A i \in 1 .. n : sccFrames'[i].node = sccFrames[i].node
    BY <1>3
  <2>1. /\ \A y : y \in SccCalls <=> \E i \in 1 .. n : y = sccFrames[i].node
        /\ \A y : y \in SccCalls' <=> \E i \in 1 .. Len(sccFrames') : y = sccFrames'[i].node
    BY <1>2, <1>3 DEF SccCalls
  <2>2. CASE w \in visited
    <3>1. Len(sccFrames') = n
      BY <1>3, <2>2
    <3>2. \A y : y \in SccCalls' <=> y \in SccCalls
      BY <2>0, <2>1, <3>1
    <3>3. QED  BY <2>2, <3>2
  <2>3. CASE w \notin visited
    <3>1. Len(sccFrames') = n+1 /\ 1 .. n+1 = 1 .. n \cup {n+1}
      BY <1>2, <1>3, <2>3
    <3>2. \A y : y \in SccCalls' <=> y \in SccCalls \cup {w}
      <4>1. sccFrames'[n+1].node = w
        BY <1>3, <2>3
      <4>2. \A y : y \in SccCalls' <=> (\E i \in 1 .. n : y = sccFrames'[i].node) \/ y = w
        BY <2>1, <3>1, <4>1
      <4>3. QED  BY <2>0, <2>1, <4>2
    <3>3. QED  BY <2>3, <3>2
  <2>4. QED  BY <2>2, <2>3
<1>6. Scc!NodesOf(order)' = Scc!NodesOf(order) /\ w \in graph[Scc!Top.node]
      /\ n \in DOMAIN sccFrames
  BY <1>1, <1>2, <1>3 DEF Scc!NodesOf, FillInv
<1>7. FillInv'
  <2>1. visited' = Scc!NodesOf(order)' \cup SccCalls'
    BY <1>1, <1>3, <1>5, <1>6 DEF FillInv
  <2>2. Scc!NodesOf(order)' \cap SccCalls' = {}
    BY <1>1, <1>3, <1>5, <1>6 DEF FillInv
  <2>3. ASSUME NEW i \in DOMAIN sccFrames', NEW j \in DOMAIN sccFrames',
               sccFrames'[i].node = sccFrames'[j].node
        PROVE  i = j
    <3>1. \A k \in 1 .. n : sccFrames[k].node \in visited
      BY <1>1, <1>2 DEF FillInv, SccCalls
    <3>2. CASE i \in 1 .. n /\ j \in 1 .. n
      <4>1. sccFrames[i].node = sccFrames[j].node
        BY <1>3, <2>3, <3>2
      <4>2. QED  BY <1>1, <1>2, <3>2, <4>1 DEF FillInv
    <3>3. CASE w \notin visited /\ (i = n+1 \/ j = n+1)
      <4>1. i \in 1 .. n \/ i = n+1
        BY <1>2, <1>3, <3>3
      <4>2. j \in 1 .. n \/ j = n+1
        BY <1>2, <1>3, <3>3
      <4>3. QED  BY <1>2, <1>3, <2>3, <3>1, <3>3, <4>1, <4>2
    <3>4. QED  BY <1>2, <1>3, <3>2, <3>3
  <2>4. ASSUME NEW i \in DOMAIN sccFrames', NEW j \in DOMAIN sccFrames', i <= j
        PROVE  sccFrames'[j].node \in Scc!ReachableFrom(graph, sccFrames'[i].node)
    <3>1. CASE i \in 1 .. n /\ j \in 1 .. n
      BY <1>1, <1>2, <1>3, <2>4, <3>1 DEF FillInv
    <3>2. CASE i \in 1 .. n /\ j = n+1 /\ w \notin visited
      <4>1. sccFrames[n].node \in Scc!ReachableFrom(graph, sccFrames[i].node)
        BY <1>1, <1>2, <1>6, <3>2 DEF FillInv
      <4>2. w \in Scc!ReachableFrom(graph, sccFrames[i].node)
        BY <1>1, <1>2, <1>6, <3>2, <4>1, ReachFacts
      <4>3. QED  BY <1>3, <3>2, <4>2
    <3>3. CASE i = n+1 /\ j = n+1 /\ w \notin visited
      BY <1>1, <1>3, <3>3, ReachFacts
    <3>4. QED  BY <1>2, <1>3, <2>4, <3>1, <3>2, <3>3
  <2>5. ASSUME NEW i \in DOMAIN sccFrames'
        PROVE  /\ sccFrames'[i].todo \subseteq graph[sccFrames'[i].node]
               /\ graph[sccFrames'[i].node] \subseteq sccFrames'[i].todo \cup visited'
    <3>1. CASE i \in 1 .. n
      <4>1. /\ sccFrames[i].todo \subseteq graph[sccFrames[i].node]
            /\ graph[sccFrames[i].node] \subseteq sccFrames[i].todo \cup visited
        BY <1>1, <1>2, <3>1 DEF FillInv
      <4>2. /\ sccFrames'[i].node = sccFrames[i].node
            /\ sccFrames'[i].todo = sccFrames[i].todo \/ sccFrames'[i].todo = sccFrames[i].todo \ {w}
        BY <1>3, <3>1
      <4>3. QED  BY <1>3, <4>1, <4>2
    <3>2. CASE i = n+1 /\ w \notin visited
      BY <1>3, <3>2
    <3>3. QED  BY <1>2, <1>3, <3>1, <3>2
  <2>6. \A u \in Scc!NodesOf(order) : graph[u] \subseteq visited'
    BY <1>1, <1>3 DEF FillInv
  <2>7. QED  BY <1>1, <1>6, <2>1, <2>2, <2>3, <2>4, <2>5, <2>6 DEF FillInv
<1>8. FinishedReach' /\ LastOfComponent'
  BY <1>1, <1>6 DEF FinishedReach, LastOfComponent, SccInv
<1>9. QED  BY <1>1, <1>4, <1>7, <1>8 DEF SccInv

\* A call returns: its node is the last of its component to be finished, or
\* another one is still to come.
LEMMA FillReturnKeeps == SccInv /\ Scc!FillReturn => SccInv'
<1> SUFFICES ASSUME SccInv, Scc!FillReturn PROVE SccInv'
  OBVIOUS
<1>1. /\ Scc!TypeOK /\ FillInv /\ FinishedReach /\ LastOfComponent /\ phase = "fill"
      /\ graph \in Scc!Graph
      /\ sccFrames # << >> /\ Scc!Top.todo = {} /\ order' = Append(order, Scc!Top.node)
      /\ sccFrames' = Scc!PopLast(sccFrames) /\ UNCHANGED <<graph, phase, visited, partial, sccs>>
  BY SccGraphs DEF Scc!FillReturn, SccInv, Scc!TypeOK
<1> DEFINE n == Len(sccFrames)
           v == Scc!Top.node
<1>2. /\ n \in Nat \ {0} /\ DOMAIN sccFrames = 1 .. n /\ Scc!Top = sccFrames[n] /\ v \in Scc!Node
      /\ \A i \in 1 .. n : sccFrames[i].node \in Scc!Node
  BY <1>1, TopFacts
<1>3. /\ sccFrames' \in Seq(Scc!Frame) /\ Len(sccFrames') = n - 1 /\ DOMAIN sccFrames' = 1 .. n-1
      /\ \A i \in 1 .. n-1 : sccFrames'[i] = sccFrames[i]
  BY <1>1, PoppedFrames
<1>4. /\ order \in Seq(Scc!Node) /\ order' \in Seq(Scc!Node)
      /\ Scc!NodesOf(order') = Scc!NodesOf(order) \cup {v}
      /\ DOMAIN order = 1 .. Len(order) /\ DOMAIN order' = 1 .. Len(order) + 1
      /\ \A i \in 1 .. Len(order) : order'[i] = order[i]
      /\ order'[Len(order)+1] = v /\ Len(order) \in Nat
  <2>1. order \in Seq(Scc!Node)
    BY <1>1 DEF Scc!TypeOK
  <2>2. Scc!NodesOf(order') = Scc!NodesOf(order) \cup {v}
    BY <1>1, <2>1, NodesFacts
  <2> HIDE DEF v
  <2>3. v \in Scc!Node /\ order' = Append(order, v)
    BY <1>1, <1>2 DEF v
  <2>4. QED  BY <2>1, <2>2, <2>3
<1>5. Scc!TypeOK'
  BY <1>1, <1>3, <1>4 DEF Scc!TypeOK
<1>6. v = sccFrames[n].node /\ n \in 1 .. n
  BY <1>2
<1> HIDE DEF n, v
<1>7. SccCalls = SccCalls' \cup {v} /\ v \notin SccCalls'
  <2>1. 1 .. n = 1 .. n-1 \cup {n} /\ n \notin 1 .. n-1
    BY <1>2
  <2>2. \A i \in 1 .. n-1 : sccFrames[i].node # v
    BY <1>1, <1>2, <1>6, <2>1 DEF FillInv
  <2>3. QED  BY <1>2, <1>3, <1>6, <2>1, <2>2 DEF SccCalls
<1>8. graph[v] \subseteq visited
  BY <1>1, <1>2, <1>6 DEF FillInv
<1>9. FillInv'
  <2>1. visited' = Scc!NodesOf(order') \cup SccCalls' /\ Scc!NodesOf(order') \cap SccCalls' = {}
    BY <1>1, <1>4, <1>7 DEF FillInv
  <2>2. \A i \in 1 .. n-1 : i \in DOMAIN sccFrames
    BY <1>2
  <2>3. QED  BY <1>1, <1>3, <1>4, <1>8, <2>1, <2>2 DEF FillInv
<1>10. FinishedReach'
  <2> SUFFICES ASSUME NEW u \in Scc!Node, Scc!Component(graph, u) \subseteq Scc!NodesOf(order')
               PROVE  Scc!ReachableFrom(graph, u) \subseteq Scc!NodesOf(order')
    BY <1>1 DEF FinishedReach
  <2>1. CASE Scc!Component(graph, u) \subseteq Scc!NodesOf(order)
    BY <1>1, <1>4, <2>1 DEF FinishedReach
  <2>2. CASE v \in Scc!Component(graph, u)
    <3> DEFINE S == Scc!ReachableFrom(graph, u) \cap Scc!NodesOf(order')
    <3>1. Scc!IsClosed(graph, S)
      <4> SUFFICES ASSUME NEW x \in S, NEW y \in graph[x] PROVE y \in S
        BY DEF Scc!IsClosed
      <4>1. y \in Scc!ReachableFrom(graph, u) /\ x \in Scc!Node /\ y \in Scc!Node
        BY <1>1, ReachFacts
      <4>2. y \in visited
        BY <1>1, <1>4, <1>8 DEF FillInv
      <4>3. CASE y \in SccCalls'
        <5>1. v \in Scc!ReachableFrom(graph, y)
          <6>1. PICK i \in 1 .. n-1 : y = sccFrames[i].node
            BY <1>3, <4>3 DEF SccCalls
          <6>2. i \in 1 .. n /\ i <= n
            BY <1>2
          <6>3. QED  BY <1>1, <1>2, <1>6, <6>1, <6>2 DEF FillInv
        <5>2. v \in Scc!ReachableFrom(graph, u) /\ u \in Scc!ReachableFrom(graph, v)
          BY <2>2 DEF Scc!Component
        <5>3. u \in Scc!ReachableFrom(graph, y)
          BY <1>1, <4>1, <5>1, <5>2, ReachFacts
        <5>4. y \in Scc!Component(graph, u)
          BY <4>1, <5>3 DEF Scc!Component
        <5>5. y \notin Scc!NodesOf(order')
          BY <1>1, <1>4, <1>7, <4>3 DEF FillInv
        <5>6. QED  BY <5>4, <5>5
      <4>4. CASE y \notin SccCalls'
        BY <1>1, <1>4, <1>7, <4>1, <4>2, <4>4 DEF FillInv
      <4>5. QED  BY <4>3, <4>4
    <3>2. u \in S /\ S \in SUBSET Scc!Node
      BY <1>1, ReachFacts, ComponentFacts
    <3>3. QED  BY <3>1, <3>2, ReachInClosed
  <2>3. QED  BY <1>4, <2>1, <2>2
<1>11. LastOfComponent'
  <2> SUFFICES ASSUME NEW i \in DOMAIN order', NEW u \in Scc!Node, order'[i] \in Scc!ReachableFrom(graph, u)
               PROVE  \E x \in Scc!Component(graph, u) : \A j \in 1 .. i-1 : order'[j] # x
    BY <1>1 DEF LastOfComponent
  <2>1. CASE i \in 1 .. Len(order)
    <3>1. PICK x \in Scc!Component(graph, u) : \A j \in 1 .. i-1 : order[j] # x
      BY <1>1, <1>4, <2>1 DEF LastOfComponent
    <3>2. \A j \in 1 .. i-1 : j \in 1 .. Len(order)
      BY <1>4, <2>1
    <3>3. QED  BY <1>4, <3>1, <3>2
  <2>2. CASE i = Len(order) + 1
    <3>1. v \notin Scc!NodesOf(order)
      BY <1>1, <1>7 DEF FillInv
    <3>2. ~(Scc!Component(graph, u) \subseteq Scc!NodesOf(order))
      BY <1>1, <1>4, <2>2, <3>1 DEF FinishedReach
    <3>3. PICK x \in Scc!Component(graph, u) : x \notin Scc!NodesOf(order)
      BY <3>2
    <3>4. \A j \in 1 .. i-1 : j \in 1 .. Len(order)
      BY <1>4, <2>2
    <3>5. QED  BY <1>4, <3>3, <3>4 DEF Scc!NodesOf
  <2>3. QED  BY <1>4, <2>1, <2>2
<1>12. QED  BY <1>1, <1>5, <1>9, <1>10, <1>11 DEF SccInv

LEMMA ReverseKeeps == SccInv /\ Scc!Reverse => SccInv'
<1> SUFFICES ASSUME SccInv, Scc!Reverse PROVE SccInv'
  OBVIOUS
<1>1. /\ Scc!TypeOK /\ FillInv /\ LastOfComponent /\ phase' = "collect" /\ visited' = {}
      /\ sccFrames = << >> /\ visited = Scc!Node
      /\ UNCHANGED <<graph, sccFrames, order, partial, sccs>>
  BY DEF Scc!Reverse, SccInv
<1>2. Scc!TypeOK'
  BY <1>1 DEF Scc!TypeOK
<1>3. CollectInv'
  <2>1. Scc!NodesOf(order) = Scc!Node
    <3>1. SccCalls = {}
      BY <1>1 DEF SccCalls
    <3>2. QED  BY <1>1, <3>1 DEF FillInv
  <2>2. Scc!NodesOf(order)' = Scc!NodesOf(order) /\ Taken' = {}
        /\ Scc!NodesOf(partial)' = {} /\ Scc!Distinct(partial)'
    BY <1>1 DEF Scc!NodesOf, Taken, Scc!Distinct, FillInv
  <2>3. QED  BY <1>1, <2>1, <2>2 DEF CollectInv, FillInv
<1>4. LastOfComponent'
  BY <1>1 DEF LastOfComponent
<1>5. QED  BY <1>1, <1>2, <1>3, <1>4 DEF SccInv

(***************************************************************************)
(* The steps of the second pass.                                           *)
(***************************************************************************)
LEMMA ReversedFacts ==
  ASSUME graph \in Scc!Graph
  PROVE  /\ Scc!Reversed \in Scc!Graph
         /\ \A u, w \in Scc!Node : w \in Scc!Reversed[u] <=> u \in graph[w]
BY DEF Scc!Reversed, Scc!Transpose, Scc!Graph

LEMMA PoppedOrder ==
  ASSUME Scc!TypeOK, order # << >>
  PROVE  /\ order[Len(order)] \in Scc!Node /\ Scc!PopLast(order) \in Seq(Scc!Node)
         /\ Scc!NodesOf(order) = Scc!NodesOf(Scc!PopLast(order)) \cup {order[Len(order)]}
         /\ LastOfComponent /\ UNCHANGED graph /\ order' = Scc!PopLast(order) => LastOfComponent'
<1> DEFINE n == Len(order)
           rest == Scc!PopLast(order)
<1>1. /\ n \in Nat \ {0} /\ order[n] \in Scc!Node /\ rest \in Seq(Scc!Node) /\ Len(rest) = n - 1
      /\ DOMAIN rest = 1 .. n-1 /\ DOMAIN order = 1 .. n
      /\ \A i \in 1 .. n-1 : rest[i] = order[i]
  BY LastFacts DEF Scc!TypeOK
<1> HIDE DEF n, rest
<1>2. 1 .. n = 1 .. n-1 \cup {n} /\ \A i \in 1 .. n-1 : 1 .. i-1 \subseteq 1 .. n-1
  BY <1>1
<1>3. Scc!NodesOf(order) = Scc!NodesOf(rest) \cup {order[n]}
  BY <1>1, <1>2 DEF Scc!NodesOf
<1>4. ASSUME LastOfComponent, UNCHANGED graph, order' = rest
      PROVE  LastOfComponent'
  <2> SUFFICES ASSUME NEW i \in DOMAIN rest, NEW u \in Scc!Node, rest[i] \in Scc!ReachableFrom(graph, u)
               PROVE  \E x \in Scc!Component(graph, u) : \A j \in 1 .. i-1 : rest[j] # x
    BY <1>4 DEF LastOfComponent
  <2>1. PICK x \in Scc!Component(graph, u) : \A j \in 1 .. i-1 : order[j] # x
    BY <1>1, <1>2, <1>4 DEF LastOfComponent
  <2>2. \A j \in 1 .. i-1 : rest[j] = order[j]
    BY <1>1, <1>2
  <2>3. QED  BY <2>1, <2>2
<1>5. QED  BY <1>1, <1>3, <1>4 DEF n, rest

\* Components that share a node are the same.
LEMMA TakenComponents ==
  ASSUME graph \in Scc!Graph, CollectInv, NEW u \in Taken
  PROVE  Scc!Component(graph, u) \subseteq Taken
<1>1. PICK s \in sccs : u \in Scc!NodesOf(s)
  BY DEF Taken
<1>2. PICK r \in Scc!Node : Scc!NodesOf(s) = Scc!Component(graph, r)
  BY DEF CollectInv, Scc!Components
<1>3. Scc!Component(graph, u) = Scc!NodesOf(s)
  BY <1>1, <1>2, ComponentFacts
<1>4. QED  BY <1>3 DEF Taken

\* The node popped is the last of its component, and nobody that is not taken
\* reaches it from outside.
LEMMA PopNodeKeeps == SccInv /\ Scc!PopNode => SccInv'
<1> SUFFICES ASSUME SccInv, Scc!PopNode PROVE SccInv'
  OBVIOUS
<1> DEFINE v == order[Len(order)]
<1>1. /\ Scc!TypeOK /\ CollectInv /\ LastOfComponent /\ phase = "collect" /\ graph \in Scc!Graph
      /\ sccFrames = << >> /\ order # << >> /\ order' = Scc!PopLast(order)
      /\ UNCHANGED <<graph, phase, sccs>>
  BY SccGraphs DEF Scc!PopNode, SccInv, Scc!TypeOK
<1>2. /\ v \in Scc!Node /\ order' \in Seq(Scc!Node)
      /\ Scc!NodesOf(order) = Scc!NodesOf(order') \cup {v}
      /\ LastOfComponent'
  BY <1>1, PoppedOrder
<1>3. partial = << >> /\ Scc!NodesOf(partial) = {} /\ visited = Taken /\ Taken' = Taken
  <2>1. partial = << >>
    BY <1>1 DEF CollectInv
  <2>2. Scc!NodesOf(partial) = {}
    BY <2>1 DEF Scc!NodesOf
  <2>3. QED  BY <1>1, <2>1, <2>2 DEF CollectInv, Taken, Scc!NodesOf
<1>4. CASE v \in visited
  <2>1. UNCHANGED <<visited, sccFrames, partial>>
    BY <1>4 DEF Scc!PopNode
  <2>2. Scc!TypeOK'
    BY <1>1, <1>2, <2>1 DEF Scc!TypeOK
  <2>3. Scc!NodesOf(order)' = Scc!NodesOf(order')
        /\ Scc!NodesOf(partial)' = Scc!NodesOf(partial)
        /\ Scc!Distinct(partial)' = Scc!Distinct(partial)
    BY <2>1 DEF Scc!NodesOf, Scc!Distinct
  <2>4. CollectInv'
    BY <1>1, <1>2, <1>3, <1>4, <2>1, <2>3 DEF CollectInv
  <2>5. QED  BY <1>1, <1>2, <2>1, <2>2, <2>4 DEF SccInv
<1>5. CASE v \notin visited
  <2> DEFINE f == [node |-> v, todo |-> Scc!Reversed[v]]
  <2>1. visited' = visited \cup {v} /\ sccFrames' = <<f>> /\ partial' = <<v>>
    BY <1>5 DEF Scc!PopNode
  <2>2. f \in Scc!Frame /\ f.node = v /\ f.todo = Scc!Reversed[v]
    BY <1>1, <1>2, ReversedFacts DEF Scc!Frame, Scc!Graph
  <2> HIDE DEF v, f
  <2>3. /\ sccFrames' \in Seq(Scc!Frame) /\ sccFrames' # << >> /\ DOMAIN sccFrames' = {1}
        /\ sccFrames'[1] = f
        /\ partial' \in Seq(Scc!Node) /\ partial' # << >> /\ DOMAIN partial' = {1}
        /\ partial'[1] = v
    BY <1>2, <2>1, <2>2
  <2>4. Scc!TypeOK'
    BY <1>1, <1>2, <2>1, <2>3 DEF Scc!TypeOK
  <2>5. Scc!NodesOf(partial)' = {v} /\ Scc!Distinct(partial)'
        /\ Scc!NodesOf(order)' = Scc!NodesOf(order')
    BY <2>3 DEF Scc!NodesOf, Scc!Distinct
  <2>6. CollectInv'
    <3>1. Scc!Node \ visited' \subseteq Scc!NodesOf(order)'
      BY <1>1, <1>2, <2>1, <2>5 DEF CollectInv
    <3>2. visited' = Taken' \cup Scc!NodesOf(partial)' /\ Taken' \cap Scc!NodesOf(partial)' = {}
      BY <1>3, <1>5, <2>1, <2>5
    <3>3. QED  BY <1>1, <2>3, <2>5, <3>1, <3>2 DEF CollectInv
  <2>7. ASSUME NEW u \in Scc!Node \ Taken, v \in Scc!ReachableFrom(graph, u)
        PROVE  v \in Scc!Component(graph, u)
    <3>1. Len(order) \in Nat \ {0} /\ Len(order) \in DOMAIN order /\ v = order[Len(order)]
          /\ DOMAIN order = 1 .. Len(order)
      BY <1>1, LastFacts DEF Scc!TypeOK, v
    <3>2. PICK x \in Scc!Component(graph, u) : \A j \in 1 .. Len(order)-1 : order[j] # x
      BY <1>1, <2>7, <3>1 DEF LastOfComponent
    <3>3. x \in Scc!Node /\ x \notin Taken
      BY <1>1, <3>2, ComponentFacts, TakenComponents
    <3>4. x \in Scc!NodesOf(order)
      BY <1>1, <1>3, <3>3 DEF CollectInv
    <3>5. PICK j \in 1 .. Len(order) : order[j] = x
      BY <3>1, <3>4 DEF Scc!NodesOf
    <3>6. j = Len(order)
      <4>1. j \notin 1 .. Len(order)-1
        BY <3>2, <3>5
      <4>2. j \in 1 .. Len(order)
        BY <3>5
      <4>3. \A m \in Nat \ {0} : j \in 1 .. m /\ j \notin 1 .. m-1 => j = m
        OBVIOUS
      <4>4. QED  BY <3>1, <4>1, <4>2, <4>3
    <3>7. QED  BY <3>1, <3>2, <3>5, <3>6
  <2>8. WalkInv'
    <3>1. Scc!NodesOf(partial)' \subseteq Scc!Component(graph', partial'[1])
      BY <1>1, <1>2, <2>3, <2>5, ComponentFacts
    <3>2. SccCalls' = {v}
      BY <2>2, <2>3 DEF SccCalls
    <3>3. Scc!Reversed' = Scc!Reversed
      BY <1>1 DEF Scc!Reversed
    <3>4. QED  BY <1>1, <1>3, <2>2, <2>3, <2>5, <2>7, <3>1, <3>2, <3>3 DEF WalkInv
  <2>9. QED  BY <1>1, <1>2, <2>4, <2>6, <2>8 DEF SccInv
<1>6. QED  BY <1>4, <1>5

\* A node that is not visited and leads to the component is in it.
LEMMA CollectVisitKeeps ==
  ASSUME SccInv, NEW w \in Scc!Node, Scc!CollectVisit(w)
  PROVE  SccInv'
<1> DEFINE n == Len(sccFrames)
<1>1. /\ Scc!TypeOK /\ CollectInv /\ WalkInv /\ LastOfComponent /\ phase = "collect"
      /\ graph \in Scc!Graph
      /\ sccFrames # << >> /\ Scc!VisitWith(Scc!Reversed, w)
      /\ UNCHANGED <<graph, phase, order, sccs>>
      /\ partial' = IF w \in visited THEN partial ELSE Append(partial, w)
  BY SccGraphs DEF Scc!CollectVisit, Scc!VisitWith, SccInv, Scc!TypeOK
<1>2. /\ n \in Nat \ {0} /\ DOMAIN sccFrames = 1 .. n /\ Scc!Top = sccFrames[n]
      /\ n \in DOMAIN sccFrames
      /\ \A i \in 1 .. n : sccFrames[i].node \in Scc!Node
  BY <1>1, TopFacts
<1>3. Scc!Reversed \in Scc!Graph /\ Scc!Reversed' = Scc!Reversed
  BY <1>1, ReversedFacts DEF Scc!Reversed
<1>4. /\ sccFrames' \in Seq(Scc!Frame) /\ visited' = visited \cup {w} /\ w \in Scc!Top.todo
      /\ Len(sccFrames') = IF w \in visited THEN n ELSE n + 1
      /\ DOMAIN sccFrames' = 1 .. Len(sccFrames')
      /\ \A i \in 1 .. n :
           /\ sccFrames'[i].node = sccFrames[i].node
           /\ sccFrames'[i].todo = IF i = n THEN sccFrames[i].todo \ {w} ELSE sccFrames[i].todo
      /\ w \notin visited => sccFrames'[n+1].node = w /\ sccFrames'[n+1].todo = Scc!Reversed[w]
  BY <1>1, <1>3, VisitFrames
<1> HIDE DEF n
<1>5. /\ partial \in Seq(Scc!Node) /\ partial # << >> /\ partial' \in Seq(Scc!Node)
      /\ partial' # << >>
      /\ partial'[1] = partial[1] /\ partial[1] \in Scc!Node
      /\ Scc!NodesOf(partial') = IF w \in visited THEN Scc!NodesOf(partial) ELSE Scc!NodesOf(partial) \cup {w}
  <2>1. partial \in Seq(Scc!Node) /\ partial # << >>
    BY <1>1 DEF Scc!TypeOK, CollectInv
  <2>2. Append(partial, w) \in Seq(Scc!Node) /\ Append(partial, w)[1] = partial[1]
        /\ Append(partial, w) # << >>
        /\ partial[1] \in Scc!Node
    BY <2>1
  <2>3. QED  BY <1>1, <2>1, <2>2, NodesFacts
<1>6. Scc!TypeOK'
  BY <1>1, <1>4, <1>5 DEF Scc!TypeOK
<1>7. Taken' = Taken /\ Scc!NodesOf(order)' = Scc!NodesOf(order)
      /\ Scc!NodesOf(partial)' = Scc!NodesOf(partial')
  BY <1>1 DEF Taken, Scc!NodesOf
<1>8. Scc!Distinct(partial')
  <2>1. CASE w \in visited
    BY <1>1, <2>1 DEF CollectInv
  <2>2. CASE w \notin visited
    <3>1. \A i \in 1 .. Len(partial) : partial[i] # w
      <4>1. \A i \in 1 .. Len(partial) : partial[i] \in Scc!NodesOf(partial)
        BY <1>5 DEF Scc!NodesOf
      <4>2. QED  BY <1>1, <2>2, <4>1 DEF CollectInv
    <3>2. /\ Len(partial) \in Nat /\ DOMAIN partial = 1 .. Len(partial)
          /\ DOMAIN partial' = 1 .. Len(partial)+1
          /\ \A i \in 1 .. Len(partial) : partial'[i] = partial[i]
          /\ partial'[Len(partial)+1] = w
      BY <1>1, <1>5, <2>2
    <3>3. QED  BY <1>1, <3>1, <3>2 DEF CollectInv, Scc!Distinct
  <2>3. QED  BY <2>1, <2>2
<1>9. CollectInv'
  <2>1. visited' = Taken' \cup Scc!NodesOf(partial)' /\ Taken' \cap Scc!NodesOf(partial)' = {}
    BY <1>1, <1>4, <1>5, <1>7 DEF CollectInv
  <2>2. sccFrames' # << >>
    BY <1>2, <1>4
  <2>3. Scc!Node \ visited' \subseteq Scc!NodesOf(order)'
    BY <1>1, <1>4, <1>7 DEF CollectInv
  <2>4. QED  BY <1>1, <1>5, <1>8, <2>1, <2>2, <2>3 DEF CollectInv
<1>10. w \notin visited => w \in Scc!Component(graph, partial[1])
  <2> SUFFICES ASSUME w \notin visited PROVE w \in Scc!Component(graph, partial[1])
    OBVIOUS
  <2>1. w \in Scc!Reversed[sccFrames[n].node] /\ sccFrames[n].node \in Scc!NodesOf(partial)
    BY <1>1, <1>2, <1>4 DEF WalkInv
  <2>2. sccFrames[n].node \in graph[w] /\ sccFrames[n].node \in Scc!Component(graph, partial[1])
    BY <1>1, <1>2, <2>1, ReversedFacts DEF WalkInv
  <2>3. partial[1] \in Scc!ReachableFrom(graph, w)
    BY <1>1, <2>2, ReachFacts DEF Scc!Component
  <2>4. w \notin Taken
    BY <1>1 DEF CollectInv
  <2>5. partial[1] \in Scc!Component(graph, w)
    BY <1>1, <2>3, <2>4 DEF WalkInv
  <2>6. QED  BY <1>1, <1>5, <2>5, ComponentFacts
<1>11. ASSUME NEW i \in DOMAIN sccFrames'
       PROVE  /\ sccFrames'[i].node \in Scc!NodesOf(partial')
              /\ sccFrames'[i].todo \subseteq Scc!Reversed[sccFrames'[i].node]
              /\ Scc!Reversed[sccFrames'[i].node] \subseteq sccFrames'[i].todo \cup visited'
  <2>1. CASE i \in 1 .. n
    <3>1. /\ sccFrames[i].node \in Scc!NodesOf(partial)
          /\ sccFrames[i].todo \subseteq Scc!Reversed[sccFrames[i].node]
          /\ Scc!Reversed[sccFrames[i].node] \subseteq sccFrames[i].todo \cup visited
      BY <1>1, <1>2, <2>1 DEF WalkInv
    <3>2. /\ sccFrames'[i].node = sccFrames[i].node
          /\ sccFrames'[i].todo = sccFrames[i].todo \/ sccFrames'[i].todo = sccFrames[i].todo \ {w}
      BY <1>4, <2>1
    <3>3. QED  BY <1>4, <1>5, <3>1, <3>2
  <2>2. CASE i = n+1 /\ w \notin visited
    BY <1>4, <1>5, <2>2
  <2>3. QED  BY <1>2, <1>4, <2>1, <2>2
<1>12. ASSUME NEW u \in Scc!NodesOf(partial') \ SccCalls' PROVE Scc!Reversed[u] \subseteq visited'
  <2>1. SccCalls \subseteq SccCalls'
    <3>1. \A i \in 1 .. n : i \in DOMAIN sccFrames' /\ sccFrames'[i].node = sccFrames[i].node
      <4>1. \A i \in 1 .. n : i \in 1 .. n+1
        BY <1>2
      <4>2. 1 .. Len(sccFrames') = 1 .. n \/ 1 .. Len(sccFrames') = 1 .. n+1
        BY <1>4
      <4>3. \A i \in 1 .. n : sccFrames'[i].node = sccFrames[i].node
        BY <1>4
      <4>4. QED  BY <1>4, <4>1, <4>2, <4>3
    <3>2. QED  BY <1>2, <3>1 DEF SccCalls
  <2>2. w \notin visited => w \in SccCalls'
    <3>1. w \notin visited => n+1 \in DOMAIN sccFrames' /\ sccFrames'[n+1].node = w
      BY <1>2, <1>4
    <3>2. QED  BY <3>1 DEF SccCalls
  <2>3. u \in Scc!NodesOf(partial) \ SccCalls
    BY <1>5, <2>1, <2>2
  <2>4. QED  BY <1>1, <1>4, <2>3 DEF WalkInv
<1>13. WalkInv'
  <2>1. Scc!NodesOf(partial') \subseteq Scc!Component(graph', partial'[1])
    BY <1>1, <1>5, <1>10 DEF WalkInv
  <2>2. \A u \in Scc!Node \ Taken' :
          partial'[1] \in Scc!ReachableFrom(graph', u) => partial'[1] \in Scc!Component(graph', u)
    BY <1>1, <1>5, <1>7 DEF WalkInv
  <2>3. QED  BY <1>3, <1>7, <1>11, <1>12, <2>1, <2>2 DEF WalkInv
<1>14. LastOfComponent'
  BY <1>1 DEF LastOfComponent
<1>15. QED  BY <1>1, <1>6, <1>9, <1>13, <1>14 DEF SccInv

\* The outermost call returns: the list is the whole component of its first.
LEMMA WholeComponent ==
  ASSUME graph \in Scc!Graph, CollectInv, WalkInv, partial \in Seq(Scc!Node), partial # << >>,
         \A u \in Scc!NodesOf(partial) : Scc!Reversed[u] \subseteq visited
  PROVE  Scc!NodesOf(partial) = Scc!Component(graph, partial[1])
<1>1. partial[1] \in Scc!Node /\ partial[1] \in Scc!NodesOf(partial)
      /\ Scc!NodesOf(partial) \subseteq Scc!Node
  <2>1. 1 \in DOMAIN partial /\ partial[1] \in Scc!Node
    OBVIOUS
  <2>2. QED  BY <2>1, NodesFacts DEF Scc!NodesOf
<1>2. SUFFICES ASSUME NEW w \in Scc!Component(graph, partial[1]), w \notin Scc!NodesOf(partial)
               PROVE  FALSE
  BY DEF WalkInv
<1> DEFINE S == Scc!ReachableFrom(graph, w) \ Scc!NodesOf(partial)
<1>3. w \in Scc!Node /\ partial[1] \in Scc!ReachableFrom(graph, w)
      /\ w \in Scc!ReachableFrom(graph, partial[1])
      /\ Scc!ReachableFrom(graph, w) \subseteq Scc!Node
  BY <1>1, <1>2, ComponentFacts, ReachFacts DEF Scc!Component
<1>4. Scc!IsClosed(graph, S)
  <2> SUFFICES ASSUME NEW x \in S, NEW y \in graph[x], y \notin S PROVE FALSE
    BY DEF Scc!IsClosed
  <2>1. x \in Scc!Node /\ y \in Scc!NodesOf(partial)
    BY <1>3, ReachFacts
  <2>2. y \in Scc!Component(graph, partial[1]) /\ y \in Scc!Node
    BY <1>1, <2>1 DEF WalkInv
  <2>3. partial[1] \in Scc!ReachableFrom(graph, x)
    <3>1. partial[1] \in Scc!ReachableFrom(graph, y) /\ y \in Scc!ReachableFrom(graph, x)
      BY <2>1, <2>2, ReachFacts DEF Scc!Component
    <3>2. QED  BY <2>1, <3>1, ReachFacts
  <2>4. x \in Scc!Component(graph, partial[1])
    BY <1>1, <1>3, <2>3, ReachFacts DEF Scc!Component
  <2>5. x \in Scc!Reversed[y]
    BY <2>1, <2>2, ReversedFacts
  <2>6. x \in Taken
    BY <2>1, <2>5 DEF CollectInv
  <2>7. partial[1] \in Scc!Component(graph, x)
    BY <1>1, <2>4, ComponentFacts
  <2>8. partial[1] \in Taken
    BY <2>6, <2>7, TakenComponents
  <2>9. QED  BY <1>1, <2>8 DEF CollectInv
<1>5. w \in S /\ S \in SUBSET Scc!Node
  BY <1>2, <1>3, ReachFacts
<1>6. partial[1] \in S
  BY <1>3, <1>4, <1>5, ReachInClosed
<1>7. QED  BY <1>1, <1>6

LEMMA CollectReturnKeeps == SccInv /\ Scc!CollectReturn => SccInv'
<1> SUFFICES ASSUME SccInv, Scc!CollectReturn PROVE SccInv'
  OBVIOUS
<1> DEFINE n == Len(sccFrames)
<1>1. /\ Scc!TypeOK /\ CollectInv /\ WalkInv /\ LastOfComponent /\ phase = "collect"
      /\ graph \in Scc!Graph
      /\ sccFrames # << >> /\ Scc!Top.todo = {} /\ sccFrames' = Scc!PopLast(sccFrames)
      /\ UNCHANGED <<graph, phase, visited, order>>
  BY SccGraphs DEF Scc!CollectReturn, SccInv, Scc!TypeOK
<1>2. /\ n \in Nat \ {0} /\ DOMAIN sccFrames = 1 .. n /\ Scc!Top = sccFrames[n]
      /\ n \in DOMAIN sccFrames
      /\ \A i \in 1 .. n : sccFrames[i].node \in Scc!Node
  BY <1>1, TopFacts
<1>3. /\ sccFrames' \in Seq(Scc!Frame) /\ Len(sccFrames') = n - 1 /\ DOMAIN sccFrames' = 1 .. n-1
      /\ \A i \in 1 .. n-1 : sccFrames'[i] = sccFrames[i]
  BY <1>1, PoppedFrames
<1>4. Scc!Reversed' = Scc!Reversed /\ Scc!NodesOf(order)' = Scc!NodesOf(order) /\ LastOfComponent'
  BY <1>1 DEF Scc!Reversed, Scc!NodesOf, LastOfComponent
<1>5. partial \in Seq(Scc!Node) /\ partial # << >> /\ Scc!NodesOf(partial) # {}
  <2>1. partial \in Seq(Scc!Node) /\ partial # << >>
    BY <1>1 DEF Scc!TypeOK, CollectInv
  <2>2. 1 \in DOMAIN partial
    BY <2>1
  <2>3. QED  BY <2>1, <2>2 DEF Scc!NodesOf
<1>6. SccCalls = SccCalls' \cup {Scc!Top.node} /\ Scc!Reversed[Scc!Top.node] \subseteq visited
  <2>1. Scc!Reversed[Scc!Top.node] \subseteq visited
    BY <1>1, <1>2 DEF WalkInv
  <2>2. 1 .. n = 1 .. n-1 \cup {n}
    BY <1>2
  <2>3. SccCalls = {sccFrames[i].node : i \in 1 .. n}
        /\ SccCalls' = {sccFrames'[i].node : i \in 1 .. n-1}
    BY <1>2, <1>3 DEF SccCalls
  <2> HIDE DEF n
  <2>4. QED  BY <1>2, <1>3, <2>1, <2>2, <2>3
<1> HIDE DEF n
<1>7. CASE n = 1
  <2>1. sccs' = sccs \cup {partial} /\ partial' = << >> /\ sccFrames' = << >>
    BY <1>1, <1>3, <1>7 DEF Scc!CollectReturn, n
  <2>2. Scc!TypeOK'
    BY <1>1, <1>5, <2>1 DEF Scc!TypeOK
  <2>3. SccCalls' = {}
    BY <2>1 DEF SccCalls
  <2>4. Scc!NodesOf(partial) = Scc!Component(graph, partial[1]) /\ partial[1] \in Scc!Node
    <3>1. \A u \in Scc!NodesOf(partial) : Scc!Reversed[u] \subseteq visited
      BY <1>1, <1>6, <2>3 DEF WalkInv
    <3>2. partial[1] \in Scc!Node
      BY <1>5
    <3>3. QED  BY <1>1, <1>5, <3>1, <3>2, WholeComponent
  <2>5. Taken' = Taken \cup Scc!NodesOf(partial) /\ Scc!NodesOf(partial)' = {}
        /\ Scc!Distinct(partial)'
    BY <2>1 DEF Taken, Scc!NodesOf, Scc!Distinct
  <2>6. \A s \in sccs : Scc!NodesOf(s) # Scc!NodesOf(partial)
    BY <1>1, <1>5 DEF CollectInv, Taken
  <2>7. CollectInv'
    <3>1. visited' = Taken' \cup Scc!NodesOf(partial)' /\ Taken' \cap Scc!NodesOf(partial)' = {}
          /\ Scc!Node \ visited' \subseteq Scc!NodesOf(order)'
      BY <1>1, <1>4, <2>5 DEF CollectInv
    <3>2. \A s \in sccs' : Scc!Distinct(s) /\ Scc!NodesOf(s) \in Scc!Components(graph')
      BY <1>1, <2>1, <2>4 DEF CollectInv, Scc!Components
    <3>3. \A s, t \in sccs' : Scc!NodesOf(s) = Scc!NodesOf(t) => s = t
      BY <1>1, <2>1, <2>6 DEF CollectInv
    <3>4. QED  BY <2>1, <2>5, <3>1, <3>2, <3>3 DEF CollectInv
  <2>8. QED  BY <1>1, <1>4, <2>1, <2>2, <2>7 DEF SccInv
<1>8. CASE n # 1
  <2>1. UNCHANGED <<partial, sccs>>
    BY <1>8 DEF Scc!CollectReturn, n
  <2>2. sccFrames' # << >>
    BY <1>2, <1>3, <1>8
  <2>3. Scc!TypeOK'
    BY <1>1, <1>3, <2>1 DEF Scc!TypeOK
  <2>4. Taken' = Taken /\ Scc!NodesOf(partial)' = Scc!NodesOf(partial)
        /\ Scc!Distinct(partial)' = Scc!Distinct(partial)
    BY <2>1 DEF Taken, Scc!NodesOf, Scc!Distinct
  <2>5. CollectInv'
    BY <1>1, <1>4, <2>1, <2>2, <2>4 DEF CollectInv
  <2>6. WalkInv'
    <3>1. \A i \in 1 .. n-1 : i \in 1 .. n
      BY <1>2
    <3>2. ASSUME NEW i \in DOMAIN sccFrames'
          PROVE  /\ sccFrames'[i].node \in Scc!NodesOf(partial)
                 /\ sccFrames'[i].todo \subseteq Scc!Reversed[sccFrames'[i].node]
                 /\ Scc!Reversed[sccFrames'[i].node] \subseteq sccFrames'[i].todo \cup visited
      BY <1>1, <1>2, <1>3, <3>1 DEF WalkInv
    <3>3. \A u \in Scc!NodesOf(partial) \ SccCalls' : Scc!Reversed[u] \subseteq visited
      BY <1>1, <1>6 DEF WalkInv
    <3>4. QED  BY <1>1, <1>4, <2>1, <2>4, <3>2, <3>3 DEF WalkInv
  <2>7. QED  BY <1>1, <1>4, <2>3, <2>5, <2>6 DEF SccInv
<1>9. QED  BY <1>7, <1>8

LEMMA FinishKeeps == SccInv /\ Scc!Finish => SccInv'
<1> SUFFICES ASSUME SccInv, Scc!Finish PROVE SccInv'
  OBVIOUS
<1>1. /\ Scc!TypeOK /\ CollectInv /\ LastOfComponent /\ phase' = "done" /\ sccFrames = << >>
      /\ order = << >>
      /\ UNCHANGED <<graph, visited, sccFrames, order, partial, sccs>>
  BY DEF Scc!Finish, SccInv
<1>2. Scc!TypeOK' /\ LastOfComponent'
  BY <1>1 DEF Scc!TypeOK, LastOfComponent
<1>3. CollectInv'
  <2>1. /\ Taken' = Taken /\ Scc!NodesOf(partial)' = Scc!NodesOf(partial)
        /\ Scc!NodesOf(order)' = Scc!NodesOf(order)
        /\ Scc!Distinct(partial)' = Scc!Distinct(partial)
    BY <1>1 DEF Scc!NodesOf, Taken, Scc!Distinct
  <2>2. QED  BY <1>1, <2>1 DEF CollectInv
<1>4. QED  BY <1>1, <1>2, <1>3 DEF SccInv

LEMMA SccStutter == SccInv /\ UNCHANGED Scc!vars => SccInv'
<1> SUFFICES ASSUME SccInv, UNCHANGED Scc!vars PROVE SccInv'
  OBVIOUS
<1>1. UNCHANGED <<graph, phase, visited, sccFrames, order, partial, sccs>>
  BY DEF Scc!vars
<1>2. /\ SccCalls' = SccCalls /\ Taken' = Taken /\ Scc!Reversed' = Scc!Reversed
      /\ Scc!NodesOf(order)' = Scc!NodesOf(order) /\ Scc!NodesOf(partial)' = Scc!NodesOf(partial)
      /\ Scc!Distinct(partial)' = Scc!Distinct(partial)
  BY <1>1 DEF SccCalls, Taken, Scc!Reversed, Scc!NodesOf, Scc!Distinct
<1>3. Scc!TypeOK' = Scc!TypeOK /\ LastOfComponent' = LastOfComponent /\ FillInv' = FillInv
  BY <1>1, <1>2 DEF Scc!TypeOK, LastOfComponent, FillInv
<1>4. FinishedReach' = FinishedReach /\ CollectInv' = CollectInv /\ WalkInv' = WalkInv
  BY <1>1, <1>2 DEF FinishedReach, CollectInv, WalkInv
<1>5. QED  BY <1>1, <1>3, <1>4 DEF SccInv

LEMMA SccStep == SccInv /\ (Scc!Next \/ UNCHANGED Scc!vars) => SccInv'
<1> SUFFICES ASSUME SccInv, (Scc!Next \/ UNCHANGED Scc!vars) PROVE SccInv'
  OBVIOUS
<1>1. CASE UNCHANGED Scc!vars
  BY <1>1, SccStutter
<1>2. CASE Scc!FillFrom
  BY <1>2, FillFromKeeps
<1>3. CASE Scc!FillReturn
  BY <1>3, FillReturnKeeps
<1>4. CASE Scc!Reverse
  BY <1>4, ReverseKeeps
<1>5. CASE Scc!PopNode
  BY <1>5, PopNodeKeeps
<1>6. CASE Scc!CollectReturn
  BY <1>6, CollectReturnKeeps
<1>7. CASE Scc!Finish
  BY <1>7, FinishKeeps
<1>8. ASSUME NEW w \in Scc!Node, Scc!FillVisit(w) \/ Scc!CollectVisit(w) PROVE SccInv'
  BY <1>8, FillVisitKeeps, CollectVisitKeeps
<1>9. CASE Scc!Terminated
  BY <1>9, SccStutter DEF Scc!Terminated
<1>10. QED  BY <1>1, <1>2, <1>3, <1>4, <1>5, <1>6, <1>7, <1>8, <1>9 DEF Scc!Next

\* When both passes are over every node has been taken.
LEMMA SccComplete == SccInv => Scc!AllComponentsFound
<1> SUFFICES ASSUME SccInv, phase = "done"
             PROVE  /\ {Scc!NodesOf(s) : s \in sccs} = Scc!Components(graph)
                    /\ Cardinality(sccs) = Cardinality(Scc!Components(graph))
  BY DEF Scc!AllComponentsFound, Scc!Cardinality, Cardinality
<1>1. /\ Scc!TypeOK /\ CollectInv /\ sccFrames = << >> /\ order = << >> /\ graph \in Scc!Graph
  BY SccGraphs DEF SccInv, Scc!TypeOK
<1>2. Taken = Scc!Node
  <2>1. partial = << >> /\ Scc!NodesOf(order) = {}
    BY <1>1 DEF CollectInv, Scc!NodesOf
  <2>2. Scc!NodesOf(partial) = {} /\ visited \subseteq Scc!Node
    BY <1>1, <2>1 DEF Scc!NodesOf, Scc!TypeOK
  <2>3. QED  BY <1>1, <2>1, <2>2 DEF CollectInv
<1>3. ASSUME NEW u \in Scc!Node
      PROVE  \E s \in sccs : Scc!NodesOf(s) = Scc!Component(graph, u)
  <2>1. PICK s \in sccs : u \in Scc!NodesOf(s)
    BY <1>2 DEF Taken
  <2>2. PICK r \in Scc!Node : Scc!NodesOf(s) = Scc!Component(graph, r)
    BY <1>1 DEF CollectInv, Scc!Components
  <2>3. QED  BY <1>1, <2>1, <2>2, ComponentFacts
<1>4. {Scc!NodesOf(s) : s \in sccs} = Scc!Components(graph)
  BY <1>1, <1>3 DEF CollectInv, Scc!Components
<1>5. IsFiniteSet(Scc!Components(graph))
  <2>1. IsFiniteSet(Scc!Node)
    BY NAssumption, FS_Interval DEF Scc!Node
  <2> DEFINE C == [u \in Scc!Node |-> Scc!Component(graph, u)]
  <2>2. C \in Surjection(Scc!Node, Scc!Components(graph))
    BY DEF Scc!Components, Surjection
  <2>3. QED  BY <2>1, <2>2, FS_Surjection
<1>6. ExistsBijection(Scc!Components(graph), sccs)
  <2> DEFINE Lists == [C \in Scc!Components(graph) |-> CHOOSE s \in sccs : Scc!NodesOf(s) = C]
  <2>1. \A C \in Scc!Components(graph) : Lists[C] \in sccs /\ Scc!NodesOf(Lists[C]) = C
    BY <1>4
  <2>2. \A s \in sccs : Scc!NodesOf(s) \in Scc!Components(graph) /\ Lists[Scc!NodesOf(s)] = s
    BY <1>1, <1>4, <2>1 DEF CollectInv
  <2>3. Lists \in Bijection(Scc!Components(graph), sccs)
    <3> HIDE DEF Lists
    <3>1. Lists \in [Scc!Components(graph) -> sccs]
      BY <2>1 DEF Lists
    <3>2. QED  BY <2>1, <2>2, <3>1 DEF Bijection, Injection, Surjection, IsInjective
  <2>4. QED  BY <2>3 DEF ExistsBijection
<1>7. Cardinality(sccs) = Cardinality(Scc!Components(graph))
  BY <1>5, <1>6, FS_Bijection
<1>8. QED  BY <1>4, <1>7

-----------------------------------------------------------------------------
(***************************************************************************)
(* The search of the pass is this search.                                  *)
(***************************************************************************)
LEMMA SameScc ==
  /\ Mode1!Scc!Init <=> Scc!Init
  /\ Mode1!Scc!Next => Scc!Next \/ UNCHANGED Scc!vars
  /\ Mode1!Scc!AllComponentsFound <=> Scc!AllComponentsFound
<1>1. Mode1!Scc!Init <=> Scc!Init
  BY DEF Mode1!Scc!Init, Scc!Init
<1>2. Mode1!Scc!Next => Scc!Next \/ UNCHANGED Scc!vars
  <2>1. Mode1!Scc!FillFrom => Scc!FillFrom
    BY DEF Mode1!Scc!FillFrom, Scc!FillFrom, Mode1!Scc!Node, Scc!Node
  <2>2. ASSUME NEW w, Mode1!Scc!FillVisit(w) PROVE Scc!FillVisit(w)
    BY <2>2 DEF Mode1!Scc!FillVisit, Scc!FillVisit, Mode1!Scc!VisitWith, Scc!VisitWith,
       Mode1!Scc!Top, Scc!Top
  <2>3. Mode1!Scc!FillReturn => Scc!FillReturn
    BY DEF Mode1!Scc!FillReturn, Scc!FillReturn, Mode1!Scc!Top, Scc!Top, Mode1!Scc!PopLast,
       Scc!PopLast
  <2>4. Mode1!Scc!Reverse => Scc!Reverse
    BY DEF Mode1!Scc!Reverse, Scc!Reverse, Mode1!Scc!Node, Scc!Node
  <2>5. Mode1!Scc!Reversed = Scc!Reversed
    BY DEF Mode1!Scc!Reversed, Scc!Reversed, Mode1!Scc!Transpose, Scc!Transpose,
       Mode1!Scc!Node, Scc!Node
  <2>6. Mode1!Scc!PopNode => Scc!PopNode
    BY <2>5 DEF Mode1!Scc!PopNode, Scc!PopNode, Mode1!Scc!PopLast, Scc!PopLast
  <2>7. ASSUME NEW w, Mode1!Scc!CollectVisit(w) PROVE Scc!CollectVisit(w)
    BY <2>5, <2>7 DEF Mode1!Scc!CollectVisit, Scc!CollectVisit, Mode1!Scc!VisitWith,
       Scc!VisitWith, Mode1!Scc!Top, Scc!Top
  <2>8. Mode1!Scc!CollectReturn => Scc!CollectReturn
    BY DEF Mode1!Scc!CollectReturn, Scc!CollectReturn, Mode1!Scc!Top, Scc!Top,
       Mode1!Scc!PopLast, Scc!PopLast
  <2>9. Mode1!Scc!Finish => Scc!Finish
    BY DEF Mode1!Scc!Finish, Scc!Finish
  <2>10. Mode1!Scc!Terminated => UNCHANGED Scc!vars
    BY DEF Mode1!Scc!Terminated, Mode1!Scc!vars, Scc!vars
  <2>11. QED
    BY <2>1, <2>2, <2>3, <2>4, <2>6, <2>7, <2>8, <2>9, <2>10
       DEF Mode1!Scc!Next, Scc!Next, Mode1!Scc!Node, Scc!Node
<1>3. Mode1!Scc!AllComponentsFound <=> Scc!AllComponentsFound
  BY DEF Mode1!Scc!AllComponentsFound, Scc!AllComponentsFound, Mode1!Scc!NodesOf, Scc!NodesOf,
         Mode1!Scc!Components, Scc!Components, Mode1!Scc!Component, Scc!Component,
         Mode1!Scc!ReachableFrom, Scc!ReachableFrom, Mode1!Scc!IsClosed, Scc!IsClosed,
         Mode1!Scc!Node, Scc!Node, Mode1!Scc!Cardinality, Scc!Cardinality
<1>4. QED  BY <1>1, <1>2, <1>3

SccHolds == SYNC_VOTER_MODE = 1 => SccInv

LEMMA SccHoldsFirst == Init => SccHolds
BY InitScc, SameScc DEF Init, Mode1!Init, SccHolds

LEMMA SccHoldsNext == SccHolds /\ [Next]_vars => SccHolds'
<1> SUFFICES ASSUME SccHolds, [Next]_vars, SYNC_VOTER_MODE' = 1 PROVE SccInv'
  BY DEF SccHolds
<1>1. SYNC_VOTER_MODE = 1 /\ SccInv /\ (UNCHANGED vars \/ Mode1!Next)
  BY DEF SccHolds, Next, vars
<1>2. CASE Mode1!FindComponents
  BY <1>1, <1>2, SccStep, SameScc DEF Mode1!FindComponents
<1>3. CASE UNCHANGED vars \/ Mode1!Terminated
  <2>1. UNCHANGED Scc!vars
    BY <1>3 DEF vars, mode1Vars, Scc!vars, Mode1!Terminated, Mode1!vars, Mode1!sccVars
  <2>2. QED  BY <1>1, <2>1, SccStep
<1>4. CASE Mode1!PickComponent \/ Mode1!RecordCycles \/ Mode1!Schedule \/ Mode1!SelectVoter \/ Mode1!Finish
  <2>1. UNCHANGED Scc!vars
    BY <1>4 DEF Mode1!PickComponent, Mode1!RecordCycles, Mode1!Schedule, Mode1!SelectVoter,
                Mode1!Finish, Scc!vars, Mode1!sccVars
  <2>2. QED  BY <1>1, <2>1, SccStep
<1>5. CASE Mode1!SearchCycles
  <2>1. UNCHANGED Scc!vars
    BY <1>5 DEF Mode1!SearchCycles, Scc!vars, Mode1!sccVars, Mode1!Cycle!Step,
                Mode1!Cycle!CallFromStart, Mode1!Cycle!CloseCycle, Mode1!Cycle!Descend,
                Mode1!Cycle!PassOver, Mode1!Cycle!Return
  <2>2. QED  BY <1>1, <2>1, SccStep
<1>6. QED  BY <1>1, <1>2, <1>3, <1>4, <1>5 DEF Mode1!Next

(***************************************************************************)
(* getSCCs, which insertSyncVoter relies on to skip no cycle, returns every *)
(* component of the data-flow graph and each once.                         *)
(***************************************************************************)
THEOREM ComponentsFound == Spec => []AllComponentsFound
<1>1. SccHolds => AllComponentsFound
  BY SccComplete, SameScc DEF SccHolds, AllComponentsFound, Mode1!AllComponentsFound
<1>2. QED  BY <1>1, SccHoldsFirst, SccHoldsNext, PTL DEF Spec

(***************************************************************************)
(* One vocabulary: graphs and cycles mean the same in every module.        *)
(***************************************************************************)
LEMMA SameData ==
  /\ \A s : Scc!NodesOf(s) = NodesOf(s) /\ Cyc!NodesOf(s) = NodesOf(s)
     /\ Mode1!NodesOf(s) = NodesOf(s)
  /\ \A s : Scc!Distinct(s) <=> Distinct(s)
  /\ \A s : Cyc!Distinct(s) <=> Distinct(s)
  /\ Scc!Node = Node /\ Cyc!Node = Node /\ Scc!Graph = Graph /\ Cyc!Graph = Graph
  /\ \A g, u : Scc!Component(g, u) = Component(g, u)
  /\ \A g : Scc!Components(g) = Components(g) /\ Cyc!Components(g) = Components(g)
<1>1. /\ Scc!Node = Node /\ Cyc!Node = Node /\ Mode1!Node = Node
      /\ Scc!Graph = Graph /\ Cyc!Graph = Graph
  BY DEF Scc!Node, Cyc!Node, Mode1!Node, Node, Scc!Graph, Cyc!Graph, Graph
<1>2. \A g, u : /\ Scc!ReachableFrom(g, u) = ReachableFrom(g, u)
                /\ Cyc!ReachableFrom(g, u) = ReachableFrom(g, u)
  BY <1>1 DEF Scc!ReachableFrom, Cyc!ReachableFrom, ReachableFrom, Scc!IsClosed, Cyc!IsClosed,
     IsClosed
<1>3. \A g, u : Scc!Component(g, u) = Component(g, u) /\ Cyc!Component(g, u) = Component(g, u)
  BY <1>2 DEF Scc!Component, Cyc!Component, Component
<1>4. \A g : Scc!Components(g) = Components(g) /\ Cyc!Components(g) = Components(g)
  BY <1>1, <1>3 DEF Scc!Components, Cyc!Components, Components
<1>5. QED
  BY <1>1, <1>3, <1>4
     DEF Scc!NodesOf, Cyc!NodesOf, Mode1!NodesOf, NodesOf, Scc!Distinct, Cyc!Distinct, Distinct

LEMMA SameCycles ==
  /\ \A g, c : Cyc!IsElementaryCycle(g, c) <=> IsElementaryCycle(g, c)
  /\ \A g : Cyc!ElementaryCycles(g) = ElementaryCycles(g)
  /\ \A g, c : c \in Mode1!FeedbackCycles(g) <=>
                 c \in ElementaryCycles(g) /\ Cardinality(Component(g, c[1])) >= 2
<1>1. /\ Cyc!Node = Node /\ Mode1!Node = Node
  BY DEF Cyc!Node, Mode1!Node, Node
<1>2. \A g, c : /\ Cyc!IsElementaryCycle(g, c) <=> IsElementaryCycle(g, c)
                /\ Mode1!IsElementaryCycle(g, c) <=> IsElementaryCycle(g, c)
  BY <1>1 DEF Cyc!IsElementaryCycle, Mode1!IsElementaryCycle, IsElementaryCycle,
     Cyc!Distinct, Mode1!Distinct, Distinct, Cyc!IsPath, Mode1!IsPath, IsPath
<1>3. \A g : /\ Cyc!ElementaryCycles(g) = ElementaryCycles(g)
             /\ Mode1!ElementaryCycles(g) = ElementaryCycles(g)
  BY <1>1, <1>2 DEF Cyc!ElementaryCycles, Mode1!ElementaryCycles, ElementaryCycles
<1>4. \A g, u : Mode1!Component(g, u) = Component(g, u)
  BY <1>1 DEF Mode1!Component, Component, Mode1!ReachableFrom, ReachableFrom, Mode1!IsClosed,
     IsClosed
<1>5. \A S : Mode1!Cardinality(S) = Cardinality(S)
  BY DEF Mode1!Cardinality, Cardinality
<1>6. \A g, c : c \in Mode1!FeedbackCycles(g) <=>
                  c \in ElementaryCycles(g) /\ Cardinality(Component(g, c[1])) >= 2
  BY <1>3, <1>4, <1>5 DEF Mode1!FeedbackCycles
<1>7. QED  BY <1>2, <1>3, <1>6

LEMMA SameSearch ==
  /\ Mode1!Cycle!Step => Cyc!Next
  /\ Mode1!Cycle!Done <=> Cyc!Done
<1>1. Mode1!Cycle!Node = Cyc!Node
  BY DEF Mode1!Cycle!Node, Cyc!Node
<1>2. \A v : Mode1!Cycle!Adj(v) = Cyc!Adj(v)
  BY DEF Mode1!Cycle!Adj, Cyc!Adj, Mode1!Cycle!NodesOf, Cyc!NodesOf
<1>3. \A v : Mode1!Cycle!NewFrame(v) = Cyc!NewFrame(v)
  BY <1>2 DEF Mode1!Cycle!NewFrame, Cyc!NewFrame
<1>4. Mode1!Cycle!CallFromStart => Cyc!CallFromStart
  BY <1>1, <1>3
     DEF Mode1!Cycle!CallFromStart, Cyc!CallFromStart, Mode1!Cycle!StartNode, Cyc!StartNode
<1>5. Mode1!Cycle!CloseCycle => Cyc!CloseCycle
  BY DEF Mode1!Cycle!CloseCycle, Cyc!CloseCycle, Mode1!Cycle!StartNode, Cyc!StartNode,
     Mode1!Cycle!Top, Cyc!Top, Mode1!Cycle!Stack, Cyc!Stack
<1>6. \A w : Mode1!Cycle!Descend(w) => Cyc!Descend(w)
  BY <1>3 DEF Mode1!Cycle!Descend, Cyc!Descend, Mode1!Cycle!StartNode, Cyc!StartNode,
     Mode1!Cycle!Top, Cyc!Top
<1>7. \A w : Mode1!Cycle!PassOver(w) => Cyc!PassOver(w)
  BY DEF Mode1!Cycle!PassOver, Cyc!PassOver, Mode1!Cycle!StartNode, Cyc!StartNode,
     Mode1!Cycle!Top, Cyc!Top
<1>8. Mode1!Cycle!Return => Cyc!Return
  <2>1. \A v : Mode1!Cycle!Unblocked(v) = Cyc!Unblocked(v)
    BY <1>1 DEF Mode1!Cycle!Unblocked, Cyc!Unblocked
  <2>2. \A v, f : Mode1!Cycle!BookKeeping(v, f) <=> Cyc!BookKeeping(v, f)
    BY <1>1, <1>2, <2>1 DEF Mode1!Cycle!BookKeeping, Cyc!BookKeeping
  <2>3. QED  BY <2>2 DEF Mode1!Cycle!Return, Cyc!Return, Mode1!Cycle!Top, Cyc!Top
<1>9. QED
  BY <1>1, <1>4, <1>5, <1>6, <1>7, <1>8
     DEF Mode1!Cycle!Step, Cyc!Step, Cyc!Next, Mode1!Cycle!Done, Cyc!Done

LEMMA CycFirst == Cyc!Init => Cyc!CInv
BY NAssumption, GraphsAssumption, Cyc!InitComplete DEF Cyc!Graph, Graph, Cyc!Node, Node

LEMMA CycStep == Cyc!CInv /\ Cyc!Next => Cyc!CInv'
BY NAssumption, GraphsAssumption, Cyc!NextComplete DEF Cyc!Graph, Graph, Cyc!Node, Node

LEMMA CycStutter == Cyc!CInv /\ UNCHANGED Cyc!vars => Cyc!CInv'
BY NAssumption, GraphsAssumption, Cyc!NextComplete DEF Cyc!Graph, Graph, Cyc!Node, Node

LEMMA CycBegins == Cyc!Init' => Cyc!CInv'
BY CycFirst, PTL

LEMMA CyclesStayInside ==
  ASSUME NEW g \in Graph, NEW c, IsElementaryCycle(g, c), NEW k \in 1 .. Len(c)
  PROVE  Component(g, c[k]) = Component(g, c[1])
<1>1. c[k] \in Cyc!ReachableFrom(g, c[1]) /\ c[1] \in Cyc!ReachableFrom(g, c[k])
  BY NAssumption, GraphsAssumption, Cyc!CycleReaches, SameData, SameCycles
     DEF Cyc!Graph, Graph, Cyc!Node, Node
<1>2. c[k] \in Component(g, c[1])
  BY <1>1 DEF Component, ReachableFrom, IsClosed, Cyc!ReachableFrom, Cyc!IsClosed, Cyc!Node,
     Node
<1>3. c[1] \in Node
  <2>1. Len(c) \in Nat \ {0} /\ 1 \in 1 .. Len(c)
    BY CycleFacts
  <2>2. QED  BY <2>1, CycleFacts
<1>4. QED  BY <1>2, <1>3, SameData, ComponentFacts

LEMMA SameSelect ==
  \A c, p : Mode1!MinInst(c, p) = MinInst(c, p)
BY DEF Mode1!MinInst, MinInst, Mode1!ChainEnds, ChainEnds, Mode1!PartialDelay, PartialDelay,
   Mode1!NodeDelay, NodeDelay, Mode1!Min, Min

(***************************************************************************)
(* Mode 1.  A feedback cycle is recorded, or its component is one that     *)
(* insertSyncVoter has not reached yet or is searching; a recorded cycle   *)
(* waits for the selection or has the voter that the selection chose.      *)
(***************************************************************************)
Recorded(c) ==
  \/ c \in instCycles
  \/ \E s \in todo : NodesOf(s) = Component(graph, c[1])
  \/ stage = "search" /\ NodesOf(scc) = Component(graph, c[1])

SearchInv ==
  /\ scc \in Seq(Node) /\ Len(scc) >= 2 /\ Distinct(scc) /\ NodesOf(scc) \in Components(graph)
  /\ Cyc!CInv
  /\ \A c \in cycles : c[1] \in NodesOf(scc)

Searching == {"components", "pick", "search"}

CoverInv ==
  /\ SccInv
  /\ stage \in Searching \cup {"select", "done"}
  /\ stage = "components" => instCycles = {}
  /\ stage # "components" =>
       /\ todo \subseteq sccs
       /\ phase = "done"
       /\ \A c \in Mode1!FeedbackCycles(graph) : Recorded(c)
  /\ stage = "search" => SearchInv
  /\ stage \in Searching => pending = instCycles /\ voted = {}
  /\ stage \notin Searching => todo = {} /\ delay \in [Node -> Delay]
  /\ instCycles \subseteq Mode1!FeedbackCycles(graph) /\ pending \subseteq instCycles
  /\ \A c \in instCycles \ pending : \E p \in BOOLEAN : MinInst(c, p) \in voted
  /\ stage = "done" => pending = {}

LEMMA InMode1First == Mode1!Init => CoverInv
<1> SUFFICES ASSUME Mode1!Init PROVE CoverInv
  OBVIOUS
<1>1. SccInv
  BY InitScc, SameScc DEF Mode1!Init
<1>2. QED  BY <1>1 DEF Mode1!Init, CoverInv, Searching

LEMMA NodeCount ==
  ASSUME NEW s \in Seq(Node), Distinct(s)
  PROVE  Cardinality(NodesOf(s)) = Len(s) /\ IsFiniteSet(NodesOf(s))
<1> DEFINE n == Len(s)
<1>1. n \in Nat /\ DOMAIN s = 1 .. n /\ s \in [1 .. n -> Node]
  OBVIOUS
<1> HIDE DEF n
<1>2. s \in Bijection(1 .. n, NodesOf(s))
  <2>1. s \in [1 .. n -> NodesOf(s)]
    BY <1>1 DEF NodesOf
  <2>2. QED  BY <1>1, <2>1 DEF Bijection, Injection, Surjection, IsInjective, NodesOf, Distinct
<1>3. IsFiniteSet(1 .. n) /\ Cardinality(1 .. n) = n
  <2>1. 1 \in Int /\ n \in Int
    BY <1>1
  <2>2. IsFiniteSet(1 .. n) /\ Cardinality(1 .. n) = IF 1 > n THEN 0 ELSE n - 1 + 1
    BY <2>1, FS_Interval
  <2>3. QED  BY <1>1, <2>2
<1>4. ExistsBijection(1 .. n, NodesOf(s))
  BY <1>2 DEF ExistsBijection
<1>5. QED  BY <1>3, <1>4, FS_Bijection DEF n

\* What is known of the components once they are all found.
ComponentsListed ==
  /\ graph \in Graph /\ graph \in Graphs
  /\ \A s \in sccs : s \in Seq(Node) /\ Distinct(s) /\ NodesOf(s) \in Components(graph)
  /\ \A c \in Mode1!FeedbackCycles(graph) : \E s \in sccs : NodesOf(s) = Component(graph, c[1])

SccFinished == SccInv /\ phase = "done"

LEMMA Listed == SccFinished => ComponentsListed
<1> SUFFICES ASSUME SccInv, phase = "done" PROVE ComponentsListed
  BY DEF SccFinished
<1>1. Scc!TypeOK /\ CollectInv /\ Scc!AllComponentsFound
  BY SccComplete DEF SccInv
<1>2. graph \in Graph /\ graph \in Graphs
  BY <1>1, GraphsAssumption DEF Scc!TypeOK
<1>3. \A s \in sccs : s \in Seq(Node) /\ Distinct(s) /\ NodesOf(s) \in Components(graph)
  BY <1>1, SameData DEF Scc!TypeOK, CollectInv
<1>4. ASSUME NEW c \in Mode1!FeedbackCycles(graph)
      PROVE  \E s \in sccs : NodesOf(s) = Component(graph, c[1])
  <2>1. IsElementaryCycle(graph, c)
    BY SameCycles, IsListedCycle
  <2>2. c[1] \in Node
    <3>1. Len(c) \in Nat \ {0} /\ 1 \in 1 .. Len(c)
      BY <1>2, <2>1, CycleFacts
    <3>2. QED  BY <1>2, <2>1, <3>1, CycleFacts
  <2>3. Component(graph, c[1]) \in Components(graph)
    BY <2>2 DEF Components
  <2>4. {Scc!NodesOf(s) : s \in sccs} = Scc!Components(graph)
    BY <1>1 DEF Scc!AllComponentsFound
  <2>5. QED  BY <2>3, <2>4, SameData
<1>5. QED  BY <1>2, <1>3, <1>4 DEF ComponentsListed

LEMMA ListedAfter == SccFinished' => ComponentsListed'
BY Listed, PTL

LEMMA DoneKeeps ==
  ASSUME SccInv, Scc!Next \/ UNCHANGED Scc!vars, phase' = "done"
  PROVE  UNCHANGED <<graph, sccs>>
<1>1. CASE phase = "done"
  BY <1>1 DEF Scc!Next, Scc!FillFrom, Scc!FillReturn, Scc!Reverse, Scc!PopNode,
     Scc!CollectReturn,
     Scc!Finish, Scc!FillVisit, Scc!CollectVisit, Scc!Terminated, Scc!vars
<1>2. CASE phase # "done"
  BY <1>2 DEF Scc!Next, Scc!FillFrom, Scc!FillReturn, Scc!Reverse, Scc!PopNode,
     Scc!CollectReturn,
     Scc!Finish, Scc!FillVisit, Scc!CollectVisit, Scc!Terminated, Scc!vars
<1>3. QED  BY <1>1, <1>2

LEMMA FindComponentsCovers ==
  ASSUME CoverInv, Mode1!FindComponents
  PROVE  CoverInv'
<1>1. /\ stage = "components" /\ SccInv /\ instCycles = {} /\ pending = {} /\ voted = {}
      /\ UNCHANGED <<instCycles, pending, voted>> /\ (Scc!Next \/ UNCHANGED Scc!vars)
  BY SameScc DEF CoverInv, Mode1!FindComponents, Searching, Mode1!selectVars
<1>2. SccInv'
  BY <1>1, SccStep
<1>3. CASE phase' = "done"
  <2>1. stage' = "pick" /\ todo' = sccs /\ sccs' = sccs /\ graph' = graph
    BY <1>1, <1>3, DoneKeeps DEF Mode1!FindComponents
  <2>2. \A c \in Mode1!FeedbackCycles(graph') : \E s \in sccs' : NodesOf(s) = Component(graph', c[1])
    BY <1>2, <1>3, ListedAfter DEF ComponentsListed, SccFinished
  <2>3. \A c \in Mode1!FeedbackCycles(graph') : Recorded(c)'
    BY <2>1, <2>2 DEF Recorded
  <2>4. QED
    BY <1>1, <1>2, <1>3, <2>1, <2>3 DEF CoverInv, Searching
<1>4. CASE phase' # "done"
  <2>1. stage' = "components"
    BY <1>1, <1>4 DEF Mode1!FindComponents
  <2>2. QED
    BY <1>1, <1>2, <2>1 DEF CoverInv, Searching
<1>5. QED  BY <1>3, <1>4

LEMMA PickComponentCovers ==
  ASSUME CoverInv, Mode1!PickComponent
  PROVE  CoverInv'
<1>1. /\ stage = "pick" /\ SccFinished /\ todo \subseteq sccs /\ pending = instCycles
      /\ voted = {}
      /\ \A c \in Mode1!FeedbackCycles(graph) : Recorded(c)
      /\ instCycles \subseteq Mode1!FeedbackCycles(graph)
  BY DEF CoverInv, Mode1!PickComponent, Searching, SccFinished
<1>2. /\ UNCHANGED <<instCycles, pending, voted, graph, sccs, phase>> /\ UNCHANGED Scc!vars
  BY DEF Mode1!PickComponent, Mode1!selectVars, Mode1!sccVars, Scc!vars
<1>3. SccInv'
  BY <1>1, <1>2, SccStep DEF SccFinished
<1>4. PICK s \in todo :
        /\ todo' = todo \ {s}
        /\ IF Len(s) <= 1
           THEN UNCHANGED <<stage, Mode1!cycleVars>>
           ELSE /\ stage' = "search"
                /\ scc' = s
                /\ start' = 1 /\ frames' = << >> /\ blocked' = {} /\ cycles' = {}
                /\ fruitless' = [v \in Mode1!Node |-> {}]
  BY DEF Mode1!PickComponent
<1>5. /\ s \in Seq(Node) /\ Distinct(s) /\ NodesOf(s) \in Components(graph)
      /\ graph \in Graph /\ graph \in Graphs
  BY <1>1, <1>4, Listed DEF ComponentsListed
<1>6. Cardinality(NodesOf(s)) = Len(s) /\ Len(s) \in Nat /\ Len(s) <= N
      /\ s \in [1 .. Len(s) -> Node]
  BY <1>5, NodeCount, DistinctBound
<1>7. CASE Len(s) <= 1
  <2>1. UNCHANGED stage
    BY <1>4, <1>7
  <2>2. ASSUME NEW c \in Mode1!FeedbackCycles(graph) PROVE Recorded(c)'
    <3>1. Recorded(c) /\ Cardinality(Component(graph, c[1])) >= 2
      BY <1>1, SameCycles
    <3>2. NodesOf(s) # Component(graph, c[1])
      BY <1>6, <1>7, <3>1
    <3>3. QED  BY <1>1, <1>2, <1>4, <2>1, <3>1, <3>2 DEF Recorded
  <2>3. QED  BY <1>1, <1>2, <1>3, <1>4, <2>1, <2>2 DEF CoverInv, Searching, SccFinished
<1>8. CASE ~(Len(s) <= 1)
  <2>1. stage' = "search" /\ scc' = s
    BY <1>4, <1>8
  <2>2. ASSUME NEW c \in Mode1!FeedbackCycles(graph) PROVE Recorded(c)'
    BY <1>1, <1>2, <1>4, <2>1 DEF Recorded
  <2>3. Len(s) \in 2 .. N
    BY <1>6, <1>8, NAssumption
  <2>4. s \in Cyc!ListsOf(Cyc!Components(graph))
    BY <1>5, <1>6, <2>3, SameData DEF Cyc!ListsOf
  <2>5. Cyc!Init'
    <3>1. Cyc!ListsOf(Cyc!Components(graph))' = Cyc!ListsOf(Cyc!Components(graph))
      BY <1>2
    <3>2. Mode1!Node = Cyc!Node
      BY DEF Mode1!Node, Cyc!Node
    <3>3. QED  BY <1>2, <1>4, <1>5, <1>8, <2>1, <2>4, <3>1, <3>2 DEF Cyc!Init, Cyc!BeginSearch
  <2>6. SearchInv'
    <3>1. cycles' = {} /\ Len(s) >= 2
      BY <1>4, <1>8, <2>3
    <3>2. Distinct(scc)' /\ NodesOf(scc)' = NodesOf(s)
      BY <1>5, <2>1 DEF Distinct, NodesOf
    <3>3. NodesOf(scc)' \in Components(graph)'
      BY <1>2, <1>5, <3>2
    <3>4. QED  BY <1>5, <2>1, <2>5, <3>1, <3>2, <3>3, CycBegins DEF SearchInv
  <2>7. QED  BY <1>1, <1>2, <1>3, <1>4, <2>1, <2>2, <2>6 DEF CoverInv, Searching, SccFinished
<1>9. QED  BY <1>7, <1>8

LEMMA SearchKeeps ==
  ASSUME SearchInv, Cyc!Next
  PROVE  SearchInv'
<1>1. Cyc!CInv' /\ UNCHANGED <<graph, scc>>
  BY CycStep DEF SearchInv, Cyc!Next, Cyc!Step, Cyc!CallFromStart, Cyc!CloseCycle, Cyc!Descend,
     Cyc!PassOver, Cyc!Return, Cyc!Finished, Cyc!vars
<1>2. Distinct(scc)' /\ NodesOf(scc)' = NodesOf(scc)
  BY <1>1 DEF SearchInv, Distinct, NodesOf
<1>3. NodesOf(scc)' \in Components(graph)'
  BY <1>1, <1>2 DEF SearchInv
<1>4. ASSUME NEW c \in cycles' PROVE c[1] \in NodesOf(scc)
  <2>1. CASE cycles' = cycles
    BY <2>1 DEF SearchInv
  <2>2. CASE Cyc!CloseCycle
    <3>1. cycles' = cycles \cup {Cyc!Stack} /\ frames # << >>
      BY <2>2 DEF Cyc!CloseCycle
    <3>2. frames[1].node = scc[start] /\ start \in 1 .. Len(scc) /\ Len(frames) \in Nat \ {0}
      <4>1. /\ frames # << >> => start <= Len(scc) /\ frames[1].node = Cyc!StartNode
            /\ frames \in Seq(Cyc!Frame) /\ start \in 1 .. Len(scc) + 1
        BY DEF SearchInv, Cyc!CInv, Cyc!IInv, Cyc!CallsFormPath, Cyc!TypeOK
      <4>2. Len(scc) \in Nat
        BY DEF SearchInv
      <4>3. Len(frames) \in Nat \ {0}
        BY <3>1, <4>1
      <4>4. QED  BY <3>1, <4>1, <4>2, <4>3 DEF Cyc!StartNode
    <3>3. Cyc!Stack[1] = scc[start]
      <4>1. 1 \in 1 .. Len(frames)
        BY <3>2
      <4>2. QED  BY <3>2, <4>1 DEF Cyc!Stack
    <3>4. scc[start] \in NodesOf(scc)
      <4>1. DOMAIN scc = 1 .. Len(scc)
        BY DEF SearchInv
      <4>2. QED  BY <3>2, <4>1 DEF NodesOf
    <3>5. QED  BY <3>1, <3>3, <3>4 DEF SearchInv
  <2>3. QED
    BY <2>1, <2>2 DEF Cyc!Next, Cyc!Step, Cyc!CallFromStart, Cyc!Descend,
       Cyc!PassOver, Cyc!Return, Cyc!Finished, Cyc!vars
<1>5. QED  BY <1>1, <1>2, <1>3, <1>4 DEF SearchInv

LEMMA SearchCyclesCovers ==
  ASSUME CoverInv, Mode1!SearchCycles
  PROVE  CoverInv'
<1>1. /\ stage = "search" /\ Cyc!Next /\ SearchInv /\ SccInv
  BY SameSearch DEF CoverInv, Mode1!SearchCycles
<1>2. UNCHANGED <<stage, todo, instCycles, pending, voted, sccs, phase>>
  BY DEF Mode1!SearchCycles, Mode1!selectVars, Mode1!sccVars
<1>3. SearchInv'
  BY <1>1, SearchKeeps
<1>4. UNCHANGED <<graph, scc>> /\ NodesOf(scc)' = NodesOf(scc)
  BY <1>1 DEF Cyc!Next, Cyc!Step, Cyc!CallFromStart, Cyc!CloseCycle, Cyc!Descend,
     Cyc!PassOver, Cyc!Return, Cyc!Finished, Cyc!vars, NodesOf
<1>5. SccInv'
  <2>1. UNCHANGED Scc!vars
    BY <1>4 DEF Mode1!SearchCycles, Mode1!sccVars, Scc!vars
  <2>2. QED  BY <1>1, <2>1, SccStep
<1>6. ASSUME NEW c \in Mode1!FeedbackCycles(graph) PROVE Recorded(c)'
  BY <1>1, <1>2, <1>4 DEF CoverInv, Recorded
<1>7. QED  BY <1>1, <1>2, <1>3, <1>4, <1>5, <1>6 DEF CoverInv, Searching

\* When the search of a component is over it has its feedback cycles.
LEMMA RecordCyclesCovers ==
  ASSUME CoverInv, Mode1!RecordCycles
  PROVE  CoverInv'
<1>1. /\ stage = "search" /\ SearchInv /\ SccInv /\ phase = "done" /\ pending = instCycles
      /\ voted = {} /\ Cyc!Done /\ SccFinished
  BY SameSearch DEF CoverInv, Mode1!RecordCycles, Searching, SccFinished
<1>2. /\ instCycles' = instCycles \cup cycles /\ pending' = pending \cup cycles /\ stage' = "pick"
      /\ UNCHANGED <<graph, sccs, phase, todo, scc, cycles, voted>> /\ UNCHANGED Scc!vars
  BY DEF Mode1!RecordCycles, Mode1!sccVars, Mode1!cycleVars, Scc!vars
<1>3. SccInv'
  BY <1>1, <1>2, SccStep
<1>4. graph \in Graph
  BY <1>1, Listed DEF ComponentsListed
<1>5. /\ scc \in Seq(Node) /\ Len(scc) \in Nat /\ Len(scc) >= 2 /\ Distinct(scc)
      /\ NodesOf(scc) \in Components(graph) /\ \A c \in cycles : c[1] \in NodesOf(scc)
  BY <1>1 DEF SearchInv
<1>6. ASSUME NEW c \in Mode1!FeedbackCycles(graph), NodesOf(scc) = Component(graph, c[1])
      PROVE  c \in cycles
  <2>1. c \in ElementaryCycles(graph) /\ IsElementaryCycle(graph, c)
    BY SameCycles, IsListedCycle
  <2>2. c[1] \in Node
    <3>1. Len(c) \in Nat \ {0} /\ 1 \in 1 .. Len(c)
      BY <1>4, <2>1, CycleFacts
    <3>2. QED  BY <1>4, <2>1, <3>1, CycleFacts
  <2>3. c[1] \in NodesOf(scc)
    BY <1>4, <1>6, <2>2, SameData, ComponentFacts
  <2>4. start = Len(scc) + 1 /\ frames = << >>
    BY <1>1 DEF Cyc!Done
  <2>5. c[1] \in {scc[i] : i \in 1 .. start-1}
    <3>1. DOMAIN scc = 1 .. start-1
      BY <1>5, <2>4
    <3>2. QED  BY <2>3, <3>1 DEF NodesOf
  <2>6. Cyc!EarlierStartsDone
    BY <1>1 DEF SearchInv, Cyc!CInv
  <2>7. QED  BY <2>1, <2>5, <2>6, SameCycles DEF Cyc!EarlierStartsDone
<1>7. ASSUME NEW c \in cycles PROVE c \in Mode1!FeedbackCycles(graph)
  <2>1. IsElementaryCycle(graph, c)
    BY <1>1, SameCycles DEF SearchInv, Cyc!CInv, Cyc!IInv, Cyc!RecordedAreCycles
  <2>2. PICK u \in Node : NodesOf(scc) = Component(graph, u)
    BY <1>5 DEF Components
  <2>3. Component(graph, c[1]) = NodesOf(scc)
    BY <1>4, <1>5, <2>2, SameData, ComponentFacts
  <2>4. Cardinality(NodesOf(scc)) >= 2
    BY <1>5, NodeCount
  <2>5. QED  BY <2>1, <2>3, <2>4, SameCycles, IsListedCycle
<1>8. ASSUME NEW c \in Mode1!FeedbackCycles(graph) PROVE Recorded(c)'
  BY <1>1, <1>2, <1>6 DEF CoverInv, Recorded
<1>9. instCycles' \subseteq Mode1!FeedbackCycles(graph')
  BY <1>2, <1>7 DEF CoverInv
<1>10. QED  BY <1>1, <1>2, <1>3, <1>8, <1>9 DEF CoverInv, Searching

LEMMA ScheduleCovers ==
  ASSUME CoverInv, Mode1!Schedule
  PROVE  CoverInv'
<1>1. /\ stage = "pick" /\ todo = {} /\ SccInv /\ phase = "done" /\ pending = instCycles
      /\ voted = {}
      /\ stage' = "select"
  BY DEF CoverInv, Mode1!Schedule, Searching
<1>2. UNCHANGED <<graph, sccs, phase, todo, instCycles, pending, voted>> /\ UNCHANGED Scc!vars
  BY DEF Mode1!Schedule, Mode1!sccVars, Mode1!cycleVars, Scc!vars
<1>3. SccInv' /\ delay' \in [Node -> Delay]
  BY <1>1, <1>2, SccStep DEF Mode1!Schedule, Mode1!Node, Node
<1>4. ASSUME NEW c \in Mode1!FeedbackCycles(graph) PROVE Recorded(c)'
  BY <1>1, <1>2 DEF CoverInv, Recorded
<1>5. QED  BY <1>1, <1>2, <1>3, <1>4 DEF CoverInv, Searching

LEMMA SelectVoterCovers ==
  ASSUME CoverInv, Mode1!SelectVoter
  PROVE  CoverInv'
<1>1. stage = "select" /\ SccInv /\ delay \in [Node -> Delay] /\ todo = {}
  BY DEF CoverInv, Mode1!SelectVoter, Searching
<1>2. /\ UNCHANGED <<stage, graph, sccs, phase, todo, instCycles, delay, startState, sensitive>>
      /\ UNCHANGED Scc!vars
  BY DEF Mode1!SelectVoter, Mode1!SetVoterFlag, Mode1!sccVars, Mode1!cycleVars, Scc!vars
<1>3. PICK x \in pending, p \in BOOLEAN :
        pending' = pending \ {x} /\ voted' = voted \cup {MinInst(x, p)}
  BY SameSelect DEF Mode1!SelectVoter, Mode1!SetVoterFlag
<1>4. SccInv'
  BY <1>1, <1>2, SccStep
<1>5. \A c, q : MinInst(c, q)' = MinInst(c, q)
  BY <1>2 DEF MinInst, ChainEnds, PartialDelay, NodeDelay
<1>6. ASSUME NEW c \in Mode1!FeedbackCycles(graph) PROVE Recorded(c)'
  BY <1>1, <1>2 DEF CoverInv, Recorded
<1>7. ASSUME NEW c \in instCycles' \ pending' PROVE \E q \in BOOLEAN : MinInst(c, q)' \in voted'
  <2>1. c \in instCycles \ pending \/ c = x
    BY <1>2, <1>3
  <2>2. QED  BY <1>3, <1>5, <2>1 DEF CoverInv
<1>8. QED  BY <1>1, <1>2, <1>3, <1>4, <1>6, <1>7 DEF CoverInv, Searching

LEMMA CoverStutter ==
  ASSUME CoverInv, UNCHANGED <<stage, graph, phase, visited, sccFrames, order, partial, sccs, todo,
                               scc, start, frames, blocked, fruitless, cycles, selectVars>>
  PROVE  CoverInv'
<1>1. SccInv'
  BY SccStep DEF CoverInv, Scc!vars
<1>2. UNCHANGED <<stage, graph, phase, sccs, todo, scc, cycles, instCycles, startState, delay,
                  sensitive, pending, voted>>
  BY DEF selectVars
<1>3. stage = "search" => SearchInv'
  <2> SUFFICES ASSUME stage = "search" PROVE SearchInv'
    OBVIOUS
  <2>1. SearchInv
    BY DEF CoverInv
  <2>2. Cyc!CInv'
    <3>1. UNCHANGED Cyc!vars
      BY DEF Cyc!vars
    <3>2. QED  BY <2>1, <3>1, CycStutter DEF SearchInv
  <2>3. Distinct(scc)' /\ NodesOf(scc)' = NodesOf(scc) /\ NodesOf(scc)' \in Components(graph)'
    BY <2>1, <1>2 DEF SearchInv, Distinct, NodesOf
  <2>4. QED  BY <1>2, <2>1, <2>2, <2>3 DEF SearchInv
<1>4. \A c, q : MinInst(c, q)' = MinInst(c, q)
  BY <1>2 DEF MinInst, ChainEnds, PartialDelay, NodeDelay
<1>5. \A c : Recorded(c)' <=> Recorded(c)
  BY <1>2 DEF Recorded, NodesOf
<1>6. QED
  <2>1. \A c \in Mode1!FeedbackCycles(graph') : stage' # "components" => Recorded(c)'
    BY <1>2, <1>5 DEF CoverInv
  <2>2. \A c \in instCycles' \ pending' : \E q \in BOOLEAN : MinInst(c, q)' \in voted'
    BY <1>2, <1>4 DEF CoverInv
  <2>3. QED  BY <1>1, <1>2, <1>3, <2>1, <2>2 DEF CoverInv, Searching

LEMMA FinishCovers ==
  ASSUME CoverInv, Mode1!Finish
  PROVE  CoverInv'
<1>1. /\ stage = "select" /\ stage' = "done" /\ pending = {} /\ SccInv
      /\ UNCHANGED <<graph, sccs, phase, todo, selectVars>> /\ UNCHANGED Scc!vars
  BY DEF CoverInv, Mode1!Finish, Mode1!sccVars, Mode1!cycleVars, Scc!vars, Mode1!selectVars,
     selectVars
<1>2. UNCHANGED <<instCycles, startState, delay, sensitive, pending, voted>>
  BY <1>1 DEF selectVars
<1>3. SccInv'
  BY <1>1, SccStep
<1>4. \A c, q : MinInst(c, q)' = MinInst(c, q)
  BY <1>2 DEF MinInst, ChainEnds, PartialDelay, NodeDelay
<1>5. \A c \in Mode1!FeedbackCycles(graph') : Recorded(c)'
  BY <1>1, <1>2 DEF CoverInv, Recorded, NodesOf
<1>6. \A c \in instCycles' \ pending' : \E q \in BOOLEAN : MinInst(c, q)' \in voted'
  BY <1>2, <1>4 DEF CoverInv
<1>7. QED  BY <1>1, <1>2, <1>3, <1>5, <1>6 DEF CoverInv, Searching

LEMMA CoverStep == CoverInv /\ (Mode1!Next \/ UNCHANGED vars) => CoverInv'
<1> SUFFICES ASSUME CoverInv, Mode1!Next \/ UNCHANGED vars PROVE CoverInv'
  OBVIOUS
<1>1. CASE UNCHANGED vars \/ Mode1!Terminated
  <2>1. UNCHANGED <<stage, graph, phase, visited, sccFrames, order, partial, sccs, todo,
                    scc, start, frames, blocked, fruitless, cycles, selectVars>>
    BY <1>1 DEF vars, mode1Vars, Mode1!Terminated, Mode1!vars, Mode1!sccVars, Mode1!cycleVars,
       Mode1!selectVars, selectVars
  <2>2. QED  BY <2>1, CoverStutter
<1>2. QED
  BY <1>1, FindComponentsCovers, PickComponentCovers, SearchCyclesCovers, RecordCyclesCovers,
     ScheduleCovers, SelectVoterCovers, FinishCovers DEF Mode1!Next

CoverHolds == SYNC_VOTER_MODE = 1 => CoverInv

LEMMA CoverHoldsFirst == Init => CoverHolds
BY InMode1First DEF Init, CoverHolds

LEMMA CoverHoldsNext == CoverHolds /\ [Next]_vars => CoverHolds'
BY CoverStep DEF CoverHolds, Next, vars

(***************************************************************************)
(* Every rotation of a feedback cycle is recorded too, the one that ends   *)
(* at its k-th node among them; its voter then is at that node, or where   *)
(* the state changes.                                                      *)
(***************************************************************************)
LEMMA VotedAt ==
  ASSUME CoverInv, stage = "done", NEW c \in Mode1!FeedbackCycles(graph), NEW k \in 1 .. Len(c)
  PROVE  \E j \in 1 .. Len(c) :
           /\ c[j] \in voted
           /\ c[j] = c[k] \/ startState[c[j]] # startState[Following(c, j)]
<1>1. SccFinished /\ instCycles = instCycles \ pending /\ delay \in [Node -> Delay]
      /\ \A d \in Mode1!FeedbackCycles(graph) : d \in instCycles
  BY DEF CoverInv, SccFinished, Searching, Recorded
<1>2. graph \in Graph
  BY <1>1, Listed DEF ComponentsListed
<1>3. IsElementaryCycle(graph, c) /\ Cardinality(Component(graph, c[1])) >= 2
  BY SameCycles, IsListedCycle
<1>0. /\ IsElementaryCycle(graph, Rotated(c, k)) /\ Len(Rotated(c, k)) = Len(c)
      /\ NodesOf(Rotated(c, k)) = NodesOf(c) /\ Rotated(c, k)[Len(c)] = c[k]
      /\ \A i \in 1 .. Len(c) :
           \E j \in 1 .. Len(c) : /\ Rotated(c, k)[i] = c[j]
                                  /\ Following(Rotated(c, k), i) = Following(c, j)
  <2>1. graph \in Graph /\ IsElementaryCycle(graph, c) /\ k \in 1 .. Len(c)
    BY <1>2, <1>3
  <2>2. QED  BY ONLY <2>1, RotatedFacts
<1> DEFINE d == Rotated(c, k)
           n == Len(c)
<1>4. /\ IsElementaryCycle(graph, d) /\ Len(d) = n /\ d[n] = c[k]
      /\ \A i \in 1 .. n : \E j \in 1 .. n : d[i] = c[j] /\ Following(d, i) = Following(c, j)
  BY <1>0
<1>5. /\ n \in Nat \ {0} /\ 1 \in 1 .. n /\ n \in 1 .. n
      /\ d \in Seq(Node) /\ d # << >>
  <2>1. n \in Nat \ {0} /\ d \in Seq(Node) /\ d # << >>
    BY <1>2, <1>3, <1>4, CycleFacts
  <2>2. QED  BY <2>1
<1> HIDE DEF d
<1>6. Component(graph, d[1]) = Component(graph, c[1])
  <2>1. PICK j \in 1 .. n : d[1] = c[j]
    BY <1>4, <1>5
  <2>2. QED  BY <1>2, <1>3, <2>1, CyclesStayInside
<1>7. d \in instCycles \ pending
  BY <1>1, <1>3, <1>4, <1>6, SameCycles, IsListedCycle
<1>8. PICK p \in BOOLEAN : MinInst(d, p) \in voted
  BY <1>7 DEF CoverInv
<1>9. PICK i \in 1 .. n : /\ MinInst(d, p) = d[i]
                          /\ i = n \/ startState[d[i]] # startState[d[i+1]]
  <2>1. \E i \in 1 .. Len(d) : /\ MinInst(d, p) = d[i]
                               /\ i = Len(d) \/ startState[d[i]] # startState[d[i+1]]
    BY <1>1, <1>5, VoterPlace
  <2>2. QED  BY <1>4, <2>1
<1>10. PICK j \in 1 .. n : d[i] = c[j] /\ Following(d, i) = Following(c, j)
  BY <1>4
<1>11. CASE i = n
  BY <1>4, <1>8, <1>9, <1>10, <1>11
<1>12. CASE i # n
  <2>1. Following(d, i) = d[i+1]
    BY <1>4, <1>12 DEF Following
  <2>2. QED  BY <1>8, <1>9, <1>10, <1>12, <2>1
<1>13. QED  BY <1>11, <1>12

\* A cycle that spans several states leaves one somewhere.
LEMMA StateChanges ==
  ASSUME NEW c, NEW n \in Nat \ {0}, n = Len(c), NEW i \in 1 .. n, NEW j \in 1 .. n,
         startState[c[i]] # startState[c[j]]
  PROVE  \E k \in 1 .. n : startState[c[k]] # startState[Following(c, k)]
<1> SUFFICES ASSUME \A k \in 1 .. n : startState[c[k]] = startState[Following(c, k)]
             PROVE  FALSE
  OBVIOUS
<1> DEFINE Bad == {k \in 1 .. n : startState[c[k]] # startState[c[1]]}
<1>1. Bad # {}
  OBVIOUS
<1>2. Bad \in SUBSET Nat
  OBVIOUS
<1>3. PICK m \in Bad : \A k \in Bad : m <= k
  BY <1>1, <1>2, FirstExists
<1>4. m \in 1 .. n /\ m # 1 /\ startState[c[m]] # startState[c[1]]
  BY <1>3
<1>5. m-1 \in 1 .. n /\ m-1 # n /\ m-1 \notin Bad /\ m - 1 + 1 = m
  BY <1>3, <1>4
<1>6. Following(c, m-1) = c[m]
  BY <1>5 DEF Following
<1>7. QED  BY <1>4, <1>5, <1>6

(***************************************************************************)
(* A feedback cycle that spans several states gets a voter where a         *)
(* register separates two of them, although the selection reads past the   *)
(* end of every list.                                                      *)
(***************************************************************************)
THEOREM CrossingsAreVoted == Spec => []CrossingIsVoted
<1>1. CoverHolds => CrossingIsVoted
  <2> SUFFICES ASSUME SYNC_VOTER_MODE = 1, CoverInv, stage = "done",
                      NEW c \in Mode1!FeedbackCycles(graph), Mode1!Spans(c)
               PROVE  \E i \in DOMAIN c : /\ c[i] \in voted
                                          /\ startState[c[i]] # startState[Mode1!Following(c, i)]
    BY DEF CoverHolds, CrossingIsVoted, Mode1!CrossingIsVoted
  <2>1. IsElementaryCycle(graph, c) /\ graph \in Graph
    <3>1. SccFinished
      BY DEF CoverInv, SccFinished
    <3>2. QED  BY <3>1, Listed, SameCycles, IsListedCycle DEF ComponentsListed
  <2>2. Len(c) \in Nat \ {0} /\ DOMAIN c = 1 .. Len(c)
    BY <2>1, CycleFacts
  <2>3. PICK k \in 1 .. Len(c) : startState[c[k]] # startState[Following(c, k)]
    BY <2>2, StateChanges DEF Mode1!Spans
  <2>4. PICK j \in 1 .. Len(c) :
          c[j] \in voted /\ (c[j] = c[k] \/ startState[c[j]] # startState[Following(c, j)])
    BY VotedAt
  <2>5. c[j] = c[k] => j = k
    BY <2>1, CycleFacts
  <2>6. Mode1!Following(c, j) = Following(c, j)
    BY DEF Mode1!Following, Following
  <2>7. QED  BY <2>2, <2>3, <2>4, <2>5, <2>6
<1>2. QED  BY <1>1, CoverHoldsFirst, CoverHoldsNext, PTL DEF Spec

(***************************************************************************)
(* A feedback cycle whose instructions all start in one state is voted at  *)
(* every one of them.                                                      *)
(***************************************************************************)
THEOREM SingleStatesAreVoted == Spec => []SingleStateCyclesVotedThroughout
<1>1. CoverHolds => SingleStateCyclesVotedThroughout
  <2> SUFFICES ASSUME SYNC_VOTER_MODE = 1, CoverInv, stage = "done",
                      NEW c \in Mode1!FeedbackCycles(graph), ~Mode1!Spans(c),
                      NEW u \in Mode1!NodesOf(c)
               PROVE  u \in voted
    BY DEF CoverHolds, SingleStateCyclesVotedThroughout, Mode1!SingleStateCyclesVotedThroughout
  <2>1. IsElementaryCycle(graph, c) /\ graph \in Graph
    <3>1. SccFinished
      BY DEF CoverInv, SccFinished
    <3>2. QED  BY <3>1, Listed, SameCycles, IsListedCycle DEF ComponentsListed
  <2>2. Len(c) \in Nat \ {0} /\ DOMAIN c = 1 .. Len(c)
    BY <2>1, CycleFacts
  <2>3. PICK k \in 1 .. Len(c) : u = c[k]
    BY <2>2 DEF Mode1!NodesOf
  <2>4. PICK j \in 1 .. Len(c) :
          c[j] \in voted /\ (c[j] = c[k] \/ startState[c[j]] # startState[Following(c, j)])
    BY VotedAt
  <2>5. startState[c[j]] = startState[Following(c, j)]
    <3>1. CASE j = Len(c)
      <4>1. 1 \in DOMAIN c
        BY <2>2
      <4>2. QED  BY <2>2, <3>1, <4>1 DEF Following, Mode1!Spans
    <3>2. CASE j # Len(c)
      <4> DEFINE n == Len(c)
      <4>0. n \in Nat /\ j \in 1 .. n /\ j # n
        BY <2>2, <3>2
      <4> HIDE DEF n
      <4>1. j + 1 \in DOMAIN c
        <5>1. j + 1 \in 1 .. n
          BY <4>0
        <5>2. QED  BY <2>2, <5>1 DEF n
      <4>2. QED  BY <2>2, <3>2, <4>1 DEF Following, Mode1!Spans
    <3>3. QED  BY <3>1, <3>2
  <2>6. QED  BY <2>3, <2>4, <2>5
<1>2. QED  BY <1>1, CoverHoldsFirst, CoverHoldsNext, PTL DEF Spec

(***************************************************************************)
(* Mode 2.  The vocabulary again, and the steps of the walk.               *)
(***************************************************************************)
OpenCycle(c) == IsElementaryCycle(graph, c) /\ NodesOf(c) \cap opaque = {}

LEMMA SamePhi ==
  /\ Phi!Node = Node
  /\ \A s : Phi!NodesOf(s) = NodesOf(s)
  /\ \A v : Phi!Operands(v) = Transpose(graph)[v]
  /\ Phi!OpenCycles = {c \in ElementaryCycles(graph) : OpenCycle(c)}
  /\ Mode2!Phi!OpenCycles = Phi!OpenCycles
<1>1. Phi!Node = Node /\ Mode2!Phi!Node = Node
  BY DEF Phi!Node, Mode2!Phi!Node, Node
<1>2. \A s : Phi!NodesOf(s) = NodesOf(s) /\ Mode2!Phi!NodesOf(s) = NodesOf(s)
  BY DEF Phi!NodesOf, Mode2!Phi!NodesOf, NodesOf
<1>3. \A v : Phi!Operands(v) = Transpose(graph)[v]
  BY <1>1 DEF Phi!Operands, Phi!Transpose, Transpose
<1>4. \A g, c : /\ Phi!IsElementaryCycle(g, c) <=> IsElementaryCycle(g, c)
                /\ Mode2!Phi!IsElementaryCycle(g, c) <=> IsElementaryCycle(g, c)
  BY <1>1 DEF Phi!IsElementaryCycle, Mode2!Phi!IsElementaryCycle, IsElementaryCycle,
     Phi!Distinct, Mode2!Phi!Distinct, Distinct, Phi!IsPath, Mode2!Phi!IsPath, IsPath
<1>5. \A g : /\ Phi!ElementaryCycles(g) = ElementaryCycles(g)
             /\ Mode2!Phi!ElementaryCycles(g) = ElementaryCycles(g)
  BY <1>1, <1>4 DEF Phi!ElementaryCycles, Mode2!Phi!ElementaryCycles, ElementaryCycles
<1>6. /\ Phi!OpenCycles = {c \in ElementaryCycles(graph) : OpenCycle(c)}
      /\ Mode2!Phi!OpenCycles = Phi!OpenCycles
  BY <1>2, <1>5, IsListedCycle DEF Phi!OpenCycles, Mode2!Phi!OpenCycles, OpenCycle
<1>7. QED  BY <1>1, <1>2, <1>3, <1>6

LEMMA SamePhiSteps ==
  /\ Mode2!Phi!Init => Phi!Init
  /\ Mode2!Phi!Step => Phi!Step
  /\ Mode2!Phi!Done <=> Phi!Done
<1>1. Phi!Node = Node /\ Mode2!Phi!Node = Node
  BY DEF Phi!Node, Mode2!Phi!Node, Node
<1>2. \A v : Mode2!Phi!NewFrame(v) = Phi!NewFrame(v)
  BY <1>1 DEF Phi!Operands, Mode2!Phi!Operands, Phi!Transpose, Mode2!Phi!Transpose,
     Phi!NewFrame, Mode2!Phi!NewFrame
<1>3. Mode2!Phi!Top = Phi!Top /\ Mode2!Phi!Root = Phi!Root /\ Mode2!Phi!Walk = Phi!Walk
  BY DEF Mode2!Phi!Top, Phi!Top, Mode2!Phi!Root, Phi!Root, Mode2!Phi!Walk, Phi!Walk
<1>4. \A w : Mode2!Phi!Ignored(w) <=> Phi!Ignored(w)
  BY <1>3 DEF Mode2!Phi!Ignored, Phi!Ignored
<1>5. \A S : Mode2!Phi!Sorted(S) = Phi!Sorted(S)
  <2>1. \A S : Mode2!Phi!Cardinality(S) = Phi!Cardinality(S)
    BY DEF Mode2!Phi!Cardinality, Phi!Cardinality
  <2>2. QED  BY <2>1 DEF Mode2!Phi!Sorted, Phi!Sorted
<1>6. Mode2!Phi!CloseCycle => Phi!CloseCycle
  BY <1>3, <1>4, <1>5
     DEF Mode2!Phi!CloseCycle, Phi!CloseCycle, Mode2!Phi!functionVars, Phi!functionVars
<1>7. Mode2!Phi!Return => Phi!Return
  BY <1>3 DEF Mode2!Phi!Return, Phi!Return, Mode2!Phi!functionVars, Phi!functionVars
<1>8. \A w : Mode2!Phi!BeginPhi(w) => Phi!BeginPhi(w)
  BY <1>2 DEF Mode2!Phi!BeginPhi, Phi!BeginPhi, Mode2!Phi!functionVars, Phi!functionVars
<1>9. \A w : Mode2!Phi!Descend(w) => Phi!Descend(w)
  BY <1>2, <1>3, <1>4
     DEF Mode2!Phi!Descend, Phi!Descend, Mode2!Phi!functionVars, Phi!functionVars
<1>10. \A w : Mode2!Phi!PassOver(w) => Phi!PassOver(w)
  BY <1>3, <1>4 DEF Mode2!Phi!PassOver, Phi!PassOver, Mode2!Phi!functionVars, Phi!functionVars,
     Mode2!Phi!LeaveOut, Phi!LeaveOut
<1>11. Mode2!Phi!Init => Phi!Init
  <2>1. Mode2!Phi!FunctionInit => Phi!FunctionInit
    <3>1. \A g : Mode2!Phi!ElementaryCycles(g) = Phi!ElementaryCycles(g)
      BY <1>1 DEF Mode2!Phi!ElementaryCycles, Phi!ElementaryCycles,
         Phi!IsElementaryCycle, Mode2!Phi!IsElementaryCycle,
         Phi!Distinct, Mode2!Phi!Distinct, Phi!IsPath, Mode2!Phi!IsPath
    <3>2. \A g, u : Mode2!Phi!Component(g, u) = Phi!Component(g, u)
      BY <1>1 DEF Mode2!Phi!Component, Phi!Component, Mode2!Phi!ReachableFrom,
         Phi!ReachableFrom,
         Mode2!Phi!IsClosed, Phi!IsClosed
    <3>3. \A s : Mode2!Phi!NodesOf(s) = Phi!NodesOf(s)
      BY DEF Mode2!Phi!NodesOf, Phi!NodesOf
    <3>4. QED  BY <1>1, <3>1, <3>2, <3>3 DEF Mode2!Phi!FunctionInit, Phi!FunctionInit
  <2>2. QED  BY <2>1 DEF Mode2!Phi!Init, Phi!Init
<1>12. QED
  BY <1>1, <1>6, <1>7, <1>8, <1>9, <1>10, <1>11
     DEF Mode2!Phi!Step, Phi!Step, Mode2!Phi!Done, Phi!Done

(***************************************************************************)
(* The operands of the function, which the walks leave alone.              *)
(***************************************************************************)
FunctionOK ==
  /\ graph \in PhiGraphs /\ graph \in Graph
  /\ phis \subseteq Node /\ opaque \subseteq Node \ phis
  /\ \A u \in Node : \A v \in Component(graph, u) : block[u] \in lone => block[v] = block[u]

LEMMA FunctionFirst == Phi!FunctionInit => FunctionOK
<1> SUFFICES ASSUME Phi!FunctionInit PROVE FunctionOK
  OBVIOUS
<1>1. Phi!Node = Node
  BY SamePhi
<1>2. \A g, u : Phi!Component(g, u) = Component(g, u)
  BY <1>1 DEF Phi!Component, Component, Phi!ReachableFrom, ReachableFrom, Phi!IsClosed, IsClosed
<1>3. QED
  BY <1>1, <1>2, GraphsAssumption, ModeTwoAssumption DEF Phi!FunctionInit, FunctionOK

(***************************************************************************)
(* The calls are a path backwards from the phi; a node that was visited,   *)
(* in a call or not, has only operands that are ignored, still to be       *)
(* looked at, or visited and not the phi.                                  *)
(***************************************************************************)
WalkPath ==
  /\ walk \in Seq(Phi!Frame)
  /\ \A i \in DOMAIN walk : /\ walk[i].node \in walked /\ ~Phi!Ignored(walk[i].node)
                            /\ walk[i].todo \subseteq Phi!Operands(walk[i].node)
  /\ \A i, j \in DOMAIN walk : walk[i].node = walk[j].node => i = j
  /\ \A i, j \in DOMAIN walk : j = i+1 => walk[j].node \in Phi!Operands(walk[i].node)
  /\ walk # << >> => Phi!Root \in phis \ roots

Waits(u, w) == \E i \in DOMAIN walk : walk[i].node = u /\ w \in walk[i].todo

Explored ==
  walk # << >> =>
    \A u \in walked : \A w \in Phi!Operands(u) :
      Waits(u, w) \/ Phi!Ignored(w) \/ (w \in walked /\ w # Phi!Root)

Served(p) == \A c : OpenCycle(c) /\ p \in NodesOf(c) => \E s \in instCycles : p \in NodesOf(s)

PhiInv ==
  /\ FunctionOK
  /\ walked \subseteq Node /\ roots \subseteq phis
  /\ WalkPath /\ Explored
  /\ \A p \in phis \ roots : Served(p) \/ (walk # << >> /\ p = Phi!Root)
  /\ \A s \in instCycles : s \in Seq(Node) /\ \E d : OpenCycle(d) /\ NodesOf(d) = NodesOf(s)

LEMMA PhiFirst == Phi!Init => PhiInv
<1> SUFFICES ASSUME Phi!Init PROVE PhiInv
  OBVIOUS
<1>1. FunctionOK
  BY FunctionFirst DEF Phi!Init
<1>2. walk = << >> /\ DOMAIN walk = {} /\ walked = {} /\ instCycles = {} /\ roots = phis
  BY DEF Phi!Init
<1>3. WalkPath /\ Explored
  BY <1>2 DEF WalkPath, Explored
<1>4. QED  BY <1>1, <1>2, <1>3 DEF PhiInv

LEMMA OperandFacts ==
  ASSUME graph \in Graph, NEW v \in Node
  PROVE  /\ Phi!Operands(v) \subseteq Node
         /\ \A u \in Node : u \in Phi!Operands(v) <=> v \in graph[u]
BY SamePhi DEF Transpose

LEMMA WalkFacts ==
  ASSUME PhiInv, walk # << >>
  PROVE  /\ Len(walk) \in Nat \ {0} /\ DOMAIN walk = 1 .. Len(walk)
         /\ 1 \in DOMAIN walk /\ Len(walk) \in DOMAIN walk
         /\ Phi!Top = walk[Len(walk)] /\ Phi!Root = walk[1].node
         /\ \A i \in DOMAIN walk : walk[i] \in Phi!Frame /\ walk[i].node \in Node
            /\ walk[i].todo \subseteq Node
<1>1. walk \in Seq(Phi!Frame) /\ Phi!Node = Node
  BY SamePhi DEF PhiInv, WalkPath
<1>2. /\ Len(walk) \in Nat \ {0} /\ DOMAIN walk = 1 .. Len(walk)
      /\ 1 \in DOMAIN walk /\ Len(walk) \in DOMAIN walk
      /\ \A i \in DOMAIN walk : walk[i] \in Phi!Frame
  BY <1>1
<1>3. \A f \in Phi!Frame : f.node \in Node /\ f.todo \subseteq Node
  BY <1>1 DEF Phi!Frame
<1>4. QED  BY <1>2, <1>3 DEF Phi!Top, Phi!Root

LEMMA ServedKept ==
  ASSUME UNCHANGED <<graph, opaque>>, instCycles \subseteq instCycles', NEW p, Served(p)
  PROVE  Served(p)'
BY DEF Served, OpenCycle, NodesOf, IsElementaryCycle, IsPath, Distinct

LEMMA OpenKept ==
  ASSUME UNCHANGED <<graph, opaque>>
  PROVE  \A c : OpenCycle(c)' <=> OpenCycle(c)
BY DEF OpenCycle

\* A walk begins.
LEMMA BeginPhiKeeps ==
  ASSUME PhiInv, NEW p \in Node, Phi!BeginPhi(p)
  PROVE  PhiInv'
<1>1. /\ walk = << >> /\ p \in roots /\ roots' = roots \ {p} /\ walk' = <<Phi!NewFrame(p)>>
      /\ walked' = {p} /\ UNCHANGED <<graph, phis, opaque, block, lone, instCycles>>
  BY DEF Phi!BeginPhi, Phi!functionVars
<1> DEFINE f == Phi!NewFrame(p)
<1>2. f.node = p /\ f.todo = Phi!Operands(p) /\ f \in Phi!Frame
  <2>1. Phi!Operands(p) \subseteq Phi!Node /\ p \in Phi!Node
    BY OperandFacts, SamePhi DEF PhiInv, FunctionOK
  <2>2. QED  BY <2>1 DEF Phi!NewFrame, Phi!Frame
<1> HIDE DEF f
<1>3. walk' \in Seq(Phi!Frame) /\ DOMAIN walk' = {1} /\ walk'[1] = f /\ walk' # << >>
  BY <1>1, <1>2 DEF f
<1>4. Phi!Root' = p /\ Phi!Operands(p)' = Phi!Operands(p)
  BY <1>1, <1>2, <1>3 DEF Phi!Root, Phi!Operands
<1>5. p \in phis /\ p \notin opaque
  BY <1>1 DEF PhiInv, FunctionOK
<1>6. WalkPath'
  <2>1. ~Phi!Ignored(p)'
    BY <1>1, <1>4, <1>5 DEF Phi!Ignored
  <2>2. 1 # 1 + 1
    OBVIOUS
  <2>3. QED  BY <1>1, <1>2, <1>3, <1>4, <1>5, <2>1, <2>2 DEF WalkPath
<1>7. Explored'
  <2>1. \A w \in Phi!Operands(p) : Waits(p, w)'
    BY <1>2, <1>3 DEF Waits
  <2>2. QED  BY <1>1, <1>4, <2>1 DEF Explored
<1>8. \A q \in phis \ roots' : Served(q)' \/ (walk' # << >> /\ q = Phi!Root')
  <2> SUFFICES ASSUME NEW q \in phis \ roots', q # p PROVE Served(q)'
    BY <1>1, <1>3, <1>4
  <2>1. Served(q)
    BY <1>1 DEF PhiInv
  <2>2. QED  BY <1>1, <2>1, ServedKept
<1>9. \A s \in instCycles : s \in Seq(Node) /\ \E d : OpenCycle(d)' /\ NodesOf(d) = NodesOf(s)
  BY <1>1, OpenKept DEF PhiInv
<1>10. QED  BY <1>1, <1>6, <1>7, <1>8, <1>9 DEF PhiInv, FunctionOK

LEMMA LeftOut ==
  ASSUME PhiInv, walk # << >>, NEW w
  PROVE  LET n    == Len(walk)
             rest == [walk EXCEPT ![n].todo = @ \ {w}]
         IN  /\ rest \in Seq(Phi!Frame) /\ Len(rest) = n /\ DOMAIN rest = 1 .. n
             /\ \A i \in 1 .. n :
                  /\ rest[i].node = walk[i].node
                  /\ rest[i].todo = IF i = n THEN walk[i].todo \ {w} ELSE walk[i].todo
<1> DEFINE n == Len(walk)
           rest == [walk EXCEPT ![n].todo = @ \ {w}]
           f == [walk[n] EXCEPT !.todo = @ \ {w}]
<1>1. /\ n \in Nat \ {0} /\ DOMAIN walk = 1 .. n /\ n \in 1 .. n /\ walk \in Seq(Phi!Frame)
      /\ walk[n] \in Phi!Frame
  BY WalkFacts DEF PhiInv, WalkPath
<1>2. f \in Phi!Frame /\ f.node = walk[n].node /\ f.todo = walk[n].todo \ {w}
  <2>1. walk[n] \in [node : Phi!Node, todo : SUBSET Phi!Node]
    BY <1>1 DEF Phi!Frame
  <2>2. QED  BY <2>1 DEF Phi!Frame
<1>3. rest = [walk EXCEPT ![n] = f]
  BY <1>1
<1> HIDE DEF f, rest, n
<1>4. rest \in Seq(Phi!Frame) /\ Len(rest) = n /\ DOMAIN rest = 1 .. n
  BY <1>1, <1>2, <1>3
<1>5. rest[n] = f /\ \A i \in 1 .. n : i # n => rest[i] = walk[i]
  BY <1>1, <1>3
<1>6. QED  BY <1>2, <1>4, <1>5 DEF rest, n

\* An operand is passed over.
LEMMA PassOverKeeps ==
  ASSUME PhiInv, NEW w \in Node, Phi!PassOver(w)
  PROVE  PhiInv'
<1> DEFINE n == Len(walk)
<1>1. /\ walk # << >> /\ w \in Phi!Top.todo
      /\ Phi!Ignored(w) \/ (w \in walked /\ w # Phi!Root)
      /\ walk' = [walk EXCEPT ![n].todo = @ \ {w}]
      /\ UNCHANGED <<graph, phis, opaque, block, lone, roots, walked, instCycles>>
  BY DEF Phi!PassOver, Phi!LeaveOut, Phi!functionVars
<1>2. /\ n \in Nat \ {0} /\ DOMAIN walk = 1 .. n /\ 1 \in 1 .. n /\ Phi!Root = walk[1].node
  BY <1>1, WalkFacts
<1>3. /\ walk' \in Seq(Phi!Frame) /\ Len(walk') = n /\ DOMAIN walk' = 1 .. n
      /\ \A i \in 1 .. n :
           /\ walk'[i].node = walk[i].node
           /\ walk'[i].todo = IF i = n THEN walk[i].todo \ {w} ELSE walk[i].todo
  BY <1>1, LeftOut
<1> HIDE DEF n
<1>4. walk' # << >> /\ Phi!Root' = Phi!Root
  BY <1>2, <1>3 DEF Phi!Root
<1>5. \A v : (Phi!Ignored(v)' <=> Phi!Ignored(v)) /\ Phi!Operands(v)' = Phi!Operands(v)
  BY <1>1, <1>4 DEF Phi!Ignored, Phi!Operands
<1>6. WalkPath'
  BY <1>1, <1>2, <1>3, <1>4, <1>5 DEF PhiInv, WalkPath
<1>7. Explored'
  <2> SUFFICES ASSUME NEW u \in walked, NEW v \in Phi!Operands(u)
               PROVE  Waits(u, v)' \/ Phi!Ignored(v) \/ (v \in walked /\ v # Phi!Root)
    BY <1>1, <1>4, <1>5 DEF Explored
  <2>1. CASE v = w
    BY <1>1, <2>1
  <2>2. CASE v # w
    <3>1. Waits(u, v) => Waits(u, v)'
      BY <1>2, <1>3, <2>2 DEF Waits
    <3>2. QED  BY <1>1, <3>1 DEF PhiInv, Explored
  <2>3. QED  BY <2>1, <2>2
<1>8. \A q \in phis \ roots' : Served(q)' \/ (walk' # << >> /\ q = Phi!Root')
  BY <1>1, <1>4, ServedKept DEF PhiInv
<1>9. \A s \in instCycles : s \in Seq(Node) /\ \E d : OpenCycle(d)' /\ NodesOf(d) = NodesOf(s)
  BY <1>1, OpenKept DEF PhiInv
<1>10. QED  BY <1>1, <1>6, <1>7, <1>8, <1>9 DEF PhiInv, FunctionOK

\* An operand is entered.
LEMMA DescendKeeps ==
  ASSUME PhiInv, NEW w \in Node, Phi!Descend(w)
  PROVE  PhiInv'
<1> DEFINE n    == Len(walk)
           rest == [walk EXCEPT ![n].todo = @ \ {w}]
           f    == Phi!NewFrame(w)
<1>1. /\ walk # << >> /\ w \in Phi!Top.todo /\ ~Phi!Ignored(w) /\ w \notin walked
      /\ walk' = Append(rest, f) /\ walked' = walked \cup {w}
      /\ UNCHANGED <<graph, phis, opaque, block, lone, roots, instCycles>>
  BY DEF Phi!Descend, Phi!functionVars
<1>2. /\ n \in Nat \ {0} /\ DOMAIN walk = 1 .. n /\ 1 \in 1 .. n /\ Phi!Root = walk[1].node
      /\ Phi!Top = walk[n] /\ n \in 1 .. n
  BY <1>1, WalkFacts
<1>3. f.node = w /\ f.todo = Phi!Operands(w) /\ f \in Phi!Frame
  <2>1. Phi!Operands(w) \subseteq Phi!Node /\ w \in Phi!Node
    BY OperandFacts, SamePhi DEF PhiInv, FunctionOK
  <2>2. QED  BY <2>1 DEF Phi!NewFrame, Phi!Frame
<1>4. /\ rest \in Seq(Phi!Frame) /\ Len(rest) = n /\ DOMAIN rest = 1 .. n
      /\ \A i \in 1 .. n :
           /\ rest[i].node = walk[i].node
           /\ rest[i].todo = IF i = n THEN walk[i].todo \ {w} ELSE walk[i].todo
  BY <1>1, LeftOut
<1> HIDE DEF n, rest, f
<1>5. /\ walk' \in Seq(Phi!Frame) /\ Len(walk') = n+1 /\ DOMAIN walk' = 1 .. n+1
      /\ walk'[n+1] = f /\ \A i \in 1 .. n : walk'[i] = rest[i]
  BY <1>1, <1>2, <1>3, <1>4
<1>6. walk' # << >> /\ Phi!Root' = Phi!Root
  <2>1. 1 \in DOMAIN walk' /\ DOMAIN << >> = {}
    BY <1>2, <1>5
  <2>2. walk'[1].node = walk[1].node
    BY <1>2, <1>4, <1>5
  <2>3. QED  BY <2>1, <2>2 DEF Phi!Root
<1>7. \A v : (Phi!Ignored(v)' <=> Phi!Ignored(v)) /\ Phi!Operands(v)' = Phi!Operands(v)
  BY <1>1, <1>6 DEF Phi!Ignored, Phi!Operands
<1>8. \A i \in 1 .. n+1 : i \in 1 .. n \/ i = n+1
  BY <1>2
<1>9. \A i \in 1 .. n : /\ walk'[i].node = walk[i].node
                        /\ walk'[i].todo \subseteq walk[i].todo
                        /\ walk[i].todo \subseteq walk'[i].todo \cup {w}
  BY <1>4, <1>5
<1>10. /\ walk'[n+1].node = w /\ walk'[n+1].todo = Phi!Operands(w)
  BY <1>3, <1>5
<1>11. w \in Phi!Operands(walk[n].node) /\ \A i \in 1 .. n : walk[i].node # w
  BY <1>1, <1>2 DEF PhiInv, WalkPath
<1>12. WalkPath'
  <2>1. ASSUME NEW i \in DOMAIN walk'
        PROVE  /\ walk'[i].node \in walked' /\ ~Phi!Ignored(walk[i].node)'
               /\ walk'[i].todo \subseteq Phi!Operands(walk[i].node)'
    <3>1. CASE i \in 1 .. n
      <4>1. /\ walk[i].node \in walked /\ ~Phi!Ignored(walk[i].node)
            /\ walk[i].todo \subseteq Phi!Operands(walk[i].node)
        BY <1>2, <3>1 DEF PhiInv, WalkPath
      <4>2. walk'[i].node = walk[i].node /\ walk'[i].todo \subseteq walk[i].todo
        BY <1>9, <3>1
      <4>3. QED  BY <1>1, <1>7, <4>1, <4>2
    <3>2. CASE i = n+1
      <4>1. walk'[i].node = w /\ walk'[i].todo = Phi!Operands(w)
        BY <1>10, <3>2
      <4>2. QED  BY <1>1, <1>7, <4>1
    <3>3. QED  BY <1>5, <1>8, <3>1, <3>2
  <2>2. ASSUME NEW i \in DOMAIN walk', NEW j \in DOMAIN walk', walk'[i].node = walk'[j].node
        PROVE  i = j
    <3>1. \A k \in 1 .. n : \A l \in 1 .. n : walk[k].node = walk[l].node => k = l
      BY <1>2 DEF PhiInv, WalkPath
    <3>2. QED  BY <1>5, <1>8, <1>9, <1>10, <1>11, <2>2, <3>1
  <2>3. ASSUME NEW i \in DOMAIN walk', NEW j \in DOMAIN walk', j = i+1
        PROVE  walk'[j].node \in Phi!Operands(walk[i].node)'
    <3>1. i \in 1 .. n
      BY <1>2, <1>5, <2>3
    <3>2. walk'[i].node = walk[i].node /\ Phi!Operands(walk[i].node)' = Phi!Operands(walk[i].node)
      BY <1>7, <1>9, <3>1
    <3>3. CASE j \in 1 .. n
      <4>1. walk[j].node \in Phi!Operands(walk[i].node)
        BY <1>2, <2>3, <3>1, <3>3 DEF PhiInv, WalkPath
      <4>2. QED  BY <1>9, <3>2, <3>3, <4>1
    <3>4. CASE j = n+1
      <4>1. i = n
        BY <1>2, <2>3, <3>1, <3>4
      <4>2. QED  BY <1>10, <1>11, <3>2, <3>4, <4>1
    <3>5. QED  BY <1>5, <1>8, <3>3, <3>4
  <2>4. Phi!Root' \in phis' \ roots'
    BY <1>1, <1>6 DEF PhiInv, WalkPath
  <2>5. QED  BY <1>5, <2>1, <2>2, <2>3, <2>4 DEF WalkPath
<1>13. Explored'
  <2> SUFFICES ASSUME NEW u \in walked \cup {w}, NEW v \in Phi!Operands(u)
               PROVE  Waits(u, v)' \/ Phi!Ignored(v) \/ (v \in walked \cup {w} /\ v # Phi!Root)
    BY <1>1, <1>6, <1>7 DEF Explored
  <2>0. 1 .. n \subseteq DOMAIN walk' /\ n+1 \in DOMAIN walk'
    BY <1>2, <1>5
  <2>1. CASE u = w
    BY <1>10, <2>0, <2>1 DEF Waits
  <2>2. CASE u \in walked /\ v = w
    BY <1>1, <1>2, <1>11, <2>2
  <2>3. CASE u \in walked /\ v # w
    <3>1. Waits(u, v) => Waits(u, v)'
      <4> SUFFICES ASSUME NEW i \in 1 .. n, walk[i].node = u, v \in walk[i].todo
                   PROVE  Waits(u, v)'
        BY <1>2 DEF Waits
      <4>1. walk'[i].node = u /\ v \in walk'[i].todo /\ i \in DOMAIN walk'
        BY <1>9, <2>0, <2>3
      <4>2. QED  BY <4>1 DEF Waits
    <3>2. QED  BY <1>1, <2>3, <3>1 DEF PhiInv, Explored
  <2>4. QED  BY <2>1, <2>2, <2>3
<1>14. \A q \in phis \ roots' : Served(q)' \/ (walk' # << >> /\ q = Phi!Root')
  BY <1>1, <1>6, ServedKept DEF PhiInv
<1>15. \A s \in instCycles : s \in Seq(Node) /\ \E d : OpenCycle(d)' /\ NodesOf(d) = NodesOf(s)
  BY <1>1, OpenKept DEF PhiInv
<1>16. QED  BY <1>1, <1>12, <1>13, <1>14, <1>15 DEF PhiInv, FunctionOK

\* The walk is back at its phi: read backwards, the calls are a cycle.
Backwards == [i \in 1 .. Len(walk) |-> walk[Len(walk) + 1 - i].node]

LEMMA WalkIsCycle ==
  ASSUME PhiInv, walk # << >>, Phi!Root \in Phi!Top.todo
  PROVE  OpenCycle(Backwards) /\ NodesOf(Backwards) = Phi!Walk /\ Phi!Walk \subseteq Node
         /\ Phi!Root \in Phi!Walk
<1> DEFINE n == Len(walk)
           d == Backwards
<1>1. /\ n \in Nat \ {0} /\ DOMAIN walk = 1 .. n /\ 1 \in 1 .. n /\ n \in 1 .. n
      /\ Phi!Root = walk[1].node /\ Phi!Top = walk[n] /\ \A i \in 1 .. n : walk[i].node \in Node
  BY WalkFacts
<1>2. d = [i \in 1 .. n |-> walk[n+1-i].node]
  BY DEF Backwards
<1>3. graph \in Graph
  BY DEF PhiInv, FunctionOK
<1> HIDE DEF n, d
<1>4. \A i \in 1 .. n : n+1-i \in 1 .. n /\ d[i] = walk[n+1-i].node
  BY <1>1, <1>2
<1>5. d \in [1 .. n -> Node] /\ DOMAIN d = 1 .. n /\ Len(d) = n
  <2>1. d \in [1 .. n -> Node]
    BY <1>1, <1>2, <1>4
  <2>2. QED  BY <1>1, <2>1
<1>6. \A i, j \in 1 .. n : d[i] = d[j] => i = j
  <2> SUFFICES ASSUME NEW i \in 1 .. n, NEW j \in 1 .. n, d[i] = d[j] PROVE i = j
    OBVIOUS
  <2>1. n+1-i = n+1-j
    BY <1>1, <1>4 DEF PhiInv, WalkPath
  <2>2. QED  BY <1>1, <2>1
<1>7. ASSUME NEW i \in 1 .. n PROVE Following(d, i) \in graph[d[i]]
  <2>1. CASE i = n
    <3>1. d[n] = walk[1].node /\ d[1] = walk[n].node
      <4>1. n+1-n = 1 /\ n+1-1 = n
        BY <1>1
      <4>2. QED  BY <1>1, <1>4, <4>1
    <3>2. walk[1].node \in Phi!Operands(walk[n].node)
      BY <1>1 DEF PhiInv, WalkPath
    <3>3. walk[n].node \in graph[walk[1].node]
      BY <1>1, <1>3, <3>2, OperandFacts
    <3>4. QED  BY <1>5, <2>1, <3>1, <3>3 DEF Following
  <2>2. CASE i # n
    <3>1. i+1 \in 1 .. n /\ n-i \in 1 .. n /\ n+1-i \in 1 .. n /\ n+1-i = n-i+1 /\ n+1-(i+1) = n-i
      BY <1>1, <2>2
    <3>2. d[i] = walk[n+1-i].node /\ d[i+1] = walk[n-i].node
      BY <1>4, <3>1
    <3>3. walk[n+1-i].node \in Phi!Operands(walk[n-i].node)
      BY <1>1, <3>1 DEF PhiInv, WalkPath
    <3>4. walk[n-i].node \in graph[walk[n+1-i].node]
      BY <1>1, <1>3, <3>1, <3>3, OperandFacts
    <3>5. QED  BY <1>5, <2>2, <3>2, <3>4 DEF Following
  <2>3. QED  BY <2>1, <2>2
<1>8. IsElementaryCycle(graph, d)
  BY <1>1, <1>5, <1>6, <1>7, IsCycle
<1>9. \A y : y \in NodesOf(d) <=> y \in Phi!Walk
  <2>1. /\ \A y : y \in NodesOf(d) <=> \E i \in 1 .. n : y = d[i]
        /\ \A y : y \in Phi!Walk <=> \E i \in 1 .. n : y = walk[i].node
    BY <1>1, <1>5 DEF NodesOf, Phi!Walk
  <2>2. ASSUME NEW y \in Phi!Walk PROVE y \in NodesOf(d)
    <3>1. PICK i \in 1 .. n : y = walk[i].node
      BY <2>1
    <3>2. n+1-i \in 1 .. n /\ n+1-(n+1-i) = i
      BY <1>1
    <3>3. d[n+1-i] = walk[i].node
      BY <1>4, <3>2
    <3>4. QED  BY <2>1, <3>1, <3>2, <3>3
  <2>3. ASSUME NEW y \in NodesOf(d) PROVE y \in Phi!Walk
    BY <1>4, <2>1, <2>3
  <2>4. QED  BY <2>2, <2>3
<1>10. Phi!Walk \cap opaque = {} /\ Phi!Walk \subseteq Node /\ Phi!Root \in Phi!Walk
  BY <1>1 DEF PhiInv, WalkPath, Phi!Walk, Phi!Ignored
<1>11. QED  BY <1>8, <1>9, <1>10 DEF OpenCycle, d

LEMMA CloseCycleKeeps ==
  ASSUME PhiInv, Phi!CloseCycle
  PROVE  PhiInv'
<1>1. /\ walk # << >> /\ Phi!Root \in Phi!Top.todo /\ walk' = << >>
      /\ instCycles' = instCycles \cup {Phi!Sorted(Phi!Walk)}
      /\ UNCHANGED <<graph, phis, opaque, block, lone, roots, walked>>
  BY DEF Phi!CloseCycle, Phi!functionVars
<1> DEFINE s == Phi!Sorted(Phi!Walk)
<1>2. /\ OpenCycle(Backwards) /\ NodesOf(Backwards) = Phi!Walk /\ Phi!Walk \subseteq Node
      /\ Phi!Root \in Phi!Walk
  BY <1>1, WalkIsCycle
<1>3. s \in Seq(Node) /\ NodesOf(s) = Phi!Walk
  BY <1>2, SortedFacts
<1> HIDE DEF s
<1>4. WalkPath' /\ Explored'
  <2>1. DOMAIN walk' = {} /\ walk' \in Seq(Phi!Frame)
    BY <1>1
  <2>2. QED  BY <1>1, <2>1 DEF WalkPath, Explored
<1>5. instCycles \subseteq instCycles' /\ s \in instCycles'
  BY <1>1 DEF s
<1>6. ASSUME NEW q \in phis \ roots' PROVE Served(q)'
  <2>1. CASE Served(q)
    BY <1>1, <1>5, <2>1, ServedKept
  <2>2. CASE q = Phi!Root
    BY <1>2, <1>3, <1>5, <2>2 DEF Served
  <2>3. QED  BY <1>1, <2>1, <2>2 DEF PhiInv
<1>7. ASSUME NEW t \in instCycles'
      PROVE  t \in Seq(Node) /\ \E d : OpenCycle(d)' /\ NodesOf(d) = NodesOf(t)
  <2>1. CASE t \in instCycles
    BY <1>1, <2>1, OpenKept DEF PhiInv
  <2>2. CASE t = s
    BY <1>1, <1>2, <1>3, <2>2, OpenKept
  <2>3. QED  BY <1>1, <2>1, <2>2 DEF s
<1>8. QED  BY <1>1, <1>4, <1>6, <1>7 DEF PhiInv, FunctionOK

(***************************************************************************)
(* A call returns.  When it is the outermost, no open cycle goes through   *)
(* the phi: from the phi backwards along the cycle every node would have   *)
(* been visited, and the last of them has the phi as an operand.           *)
(***************************************************************************)
LEMMA NothingOpen ==
  ASSUME PhiInv, walk # << >>, Len(walk) = 1, Phi!Top.todo = {},
         NEW c, OpenCycle(c), Phi!Root \in NodesOf(c)
  PROVE  FALSE
<1>1. /\ graph \in Graph /\ IsElementaryCycle(graph, c) /\ NodesOf(c) \cap opaque = {}
      /\ DOMAIN walk = {1} /\ Phi!Root = walk[1].node /\ walk[1].todo = {} /\ Phi!Root \in walked
      /\ walked \subseteq Node
  <2>1. DOMAIN walk = 1 .. 1 /\ Phi!Root = walk[1].node /\ walk[1].todo = {}
    BY WalkFacts
  <2>2. 1 .. 1 = {1}
    OBVIOUS
  <2>3. QED  BY <2>1, <2>2 DEF PhiInv, FunctionOK, OpenCycle, WalkPath
<1> DEFINE n == Len(c)
<1>2. n \in Nat \ {0} /\ DOMAIN c = 1 .. n /\ \A i \in 1 .. n : c[i] \in Node
  BY <1>1, CycleFacts
<1>3. PICK k \in 1 .. n : c[k] = Phi!Root
  BY <1>2 DEF NodesOf
<1> DEFINE d == Rotated(c, k)
<1>4. IsElementaryCycle(graph, d) /\ Len(d) = n /\ NodesOf(d) = NodesOf(c) /\ d[n] = Phi!Root
  <2>1. /\ IsElementaryCycle(graph, Rotated(c, k)) /\ Len(Rotated(c, k)) = Len(c)
        /\ NodesOf(Rotated(c, k)) = NodesOf(c) /\ Rotated(c, k)[Len(c)] = c[k]
    <3>1. graph \in Graph /\ IsElementaryCycle(graph, c) /\ k \in 1 .. Len(c)
      BY <1>1, <1>3
    <3>2. QED  BY ONLY <3>1, RotatedFacts
  <2>2. QED  BY <1>3, <2>1
<1> HIDE DEF n, d
<1>5. /\ DOMAIN d = 1 .. n /\ n \in 1 .. n /\ 1 \in 1 .. n
      /\ \A i \in 1 .. n : d[i] \in Node /\ Following(d, i) \in graph[d[i]]
  <2>1. DOMAIN d = 1 .. n /\ \A i \in 1 .. n : d[i] \in Node /\ Following(d, i) \in graph[d[i]]
    BY <1>1, <1>4, CycleFacts
  <2>2. n \in 1 .. n /\ 1 \in 1 .. n
    BY <1>2
  <2>3. QED  BY <2>1, <2>2
<1>6. ASSUME NEW i \in 1 .. n PROVE ~Phi!Ignored(d[i])
  <2>1. d[i] \in NodesOf(c)
    BY <1>4, <1>5 DEF NodesOf
  <2>2. Component(graph, d[i]) = Component(graph, d[n])
    BY <1>1, <1>4, <1>5, CyclesStayInside
  <2>3. d[i] \in Component(graph, Phi!Root)
    BY <1>1, <1>4, <1>5, <2>2, SameData, ComponentFacts
  <2>4. block[Phi!Root] \in lone => block[d[i]] = block[Phi!Root]
    BY <1>1, <2>3 DEF PhiInv, FunctionOK
  <2>5. QED  BY <1>1, <2>1, <2>4 DEF Phi!Ignored
<1>7. \A u, w : ~Waits(u, w)
  BY <1>1 DEF Waits
<1>8. ASSUME NEW i \in 1 .. n, NEW j \in 1 .. n, d[j] \in walked, Following(d, i) = d[j]
      PROVE  d[i] \in walked /\ d[i] # Phi!Root
  <2>1. d[i] \in Phi!Operands(d[j])
    BY <1>1, <1>5, <1>8, OperandFacts
  <2>2. QED  BY <1>6, <1>7, <1>8, <2>1 DEF PhiInv, Explored
<1> DEFINE Left == {j \in 0 .. n-1 : d[n-j] \notin walked}
<1>9. CASE Left = {}
  <2>1. n-1 \in 0 .. n-1 /\ n-(n-1) = 1
    BY <1>2 DEF n
  <2>2. d[1] \in walked
    BY <1>9, <2>1
  <2>3. Following(d, n) = d[1]
    BY <1>4 DEF Following
  <2>4. QED  BY <1>4, <1>5, <1>8, <2>2, <2>3
<1>10. CASE Left # {}
  <2>1. PICK j \in Left : \A i \in Left : j <= i
    <3>1. Left \in SUBSET Nat
      OBVIOUS
    <3>2. QED  BY <1>10, <3>1, FirstExists
  <2>2. j \in 0 .. n-1 /\ d[n-j] \notin walked /\ n \in Nat
    BY <1>2 DEF n
  <2>3. j # 0
    <3>1. n - 0 = n
      BY <2>2
    <3>2. QED  BY <1>1, <1>4, <2>2, <3>1
  <2>4. /\ j-1 \in 0 .. n-1 /\ j-1 \notin Left /\ n-(j-1) = n-j+1
        /\ n-j \in 1 .. n /\ n-j+1 \in 1 .. n /\ n-j # n
    BY <2>1, <2>2, <2>3
  <2>5. d[n-j+1] \in walked
    BY <2>4
  <2>6. Following(d, n-j) = d[n-j+1]
    BY <1>4, <2>4 DEF Following
  <2>7. QED  BY <1>8, <2>2, <2>4, <2>5, <2>6
<1>11. QED  BY <1>9, <1>10

LEMMA ReturnKeeps ==
  ASSUME PhiInv, Phi!Return
  PROVE  PhiInv'
<1> DEFINE n == Len(walk)
<1>1. /\ walk # << >> /\ Phi!Top.todo = {} /\ walk' = SubSeq(walk, 1, n-1)
      /\ UNCHANGED <<graph, phis, opaque, block, lone, roots, walked, instCycles>>
  BY DEF Phi!Return, Phi!functionVars
<1>2. /\ n \in Nat \ {0} /\ DOMAIN walk = 1 .. n /\ Phi!Top = walk[n] /\ Phi!Root = walk[1].node
      /\ walk \in Seq(Phi!Frame)
  BY <1>1, WalkFacts DEF PhiInv, WalkPath
<1> HIDE DEF n
<1>3. /\ walk' \in Seq(Phi!Frame) /\ Len(walk') = n-1 /\ DOMAIN walk' = 1 .. n-1
      /\ \A i \in 1 .. n-1 : walk'[i] = walk[i]
  BY <1>1, <1>2 DEF n
<1>4. \A i \in 1 .. n-1 : i \in 1 .. n /\ i # n
  BY <1>2
<1>5. \A i \in 1 .. n : i = n \/ i \in 1 .. n-1
  BY <1>2
<1>6. ASSUME NEW t \in instCycles'
      PROVE  t \in Seq(Node) /\ \E d : OpenCycle(d)' /\ NodesOf(d) = NodesOf(t)
  BY <1>1, OpenKept DEF PhiInv
<1>7. CASE n = 1
  <2>1. walk' = << >>
    BY <1>3, <1>7
  <2>2. WalkPath' /\ Explored'
    <3>1. DOMAIN walk' = {} /\ walk' \in Seq(Phi!Frame)
      BY <2>1
    <3>2. QED  BY <2>1, <3>1 DEF WalkPath, Explored
  <2>3. Served(Phi!Root)
    BY <1>1, <1>7, NothingOpen DEF Served, n
  <2>4. ASSUME NEW q \in phis \ roots' PROVE Served(q)'
    <3>1. Served(q)
      BY <1>1, <2>3 DEF PhiInv
    <3>2. QED  BY <1>1, <3>1, ServedKept
  <2>5. QED  BY <1>1, <1>6, <2>2, <2>4 DEF PhiInv, FunctionOK
<1>8. CASE n # 1
  <2>1. 1 \in 1 .. n-1
    BY <1>2, <1>8
  <2>2. walk' # << >> /\ Phi!Root' = Phi!Root
    <3>1. 1 \in DOMAIN walk' /\ DOMAIN << >> = {}
      BY <1>3, <2>1
    <3>2. walk'[1] = walk[1]
      BY <1>3, <2>1
    <3>3. QED  BY <3>1, <3>2 DEF Phi!Root
  <2>3. \A v : (Phi!Ignored(v)' <=> Phi!Ignored(v)) /\ Phi!Operands(v)' = Phi!Operands(v)
    BY <1>1, <2>2 DEF Phi!Ignored, Phi!Operands
  <2>4. WalkPath'
    <3>1. ASSUME NEW i \in DOMAIN walk'
          PROVE  /\ walk'[i].node \in walked' /\ ~Phi!Ignored(walk[i].node)'
                 /\ walk'[i].todo \subseteq Phi!Operands(walk[i].node)'
      <4>1. /\ walk[i].node \in walked /\ ~Phi!Ignored(walk[i].node)
            /\ walk[i].todo \subseteq Phi!Operands(walk[i].node)
        BY <1>2, <1>3, <1>4 DEF PhiInv, WalkPath
      <4>2. walk'[i] = walk[i]
        BY <1>3
      <4>3. QED  BY <1>1, <2>3, <4>1, <4>2
    <3>2. ASSUME NEW i \in DOMAIN walk', NEW j \in DOMAIN walk', walk'[i].node = walk'[j].node
          PROVE  i = j
      BY <1>2, <1>3, <1>4, <3>2 DEF PhiInv, WalkPath
    <3>3. ASSUME NEW i \in DOMAIN walk', NEW j \in DOMAIN walk', j = i+1
          PROVE  walk'[j].node \in Phi!Operands(walk[i].node)'
      <4>1. walk[j].node \in Phi!Operands(walk[i].node)
        BY <1>2, <1>3, <1>4, <3>3 DEF PhiInv, WalkPath
      <4>2. walk'[i] = walk[i] /\ walk'[j] = walk[j]
        BY <1>3
      <4>3. QED  BY <2>3, <4>1, <4>2
    <3>4. Phi!Root' \in phis' \ roots'
      BY <1>1, <2>2 DEF PhiInv, WalkPath
    <3>5. QED  BY <1>3, <3>1, <3>2, <3>3, <3>4 DEF WalkPath
  <2>5. Explored'
    <3> SUFFICES ASSUME NEW u \in walked, NEW v \in Phi!Operands(u)
                 PROVE  Waits(u, v)' \/ Phi!Ignored(v) \/ (v \in walked /\ v # Phi!Root)
      BY <1>1, <2>2, <2>3 DEF Explored
    <3>1. Waits(u, v) => Waits(u, v)'
      <4> SUFFICES ASSUME NEW i \in 1 .. n, walk[i].node = u, v \in walk[i].todo
                   PROVE  Waits(u, v)'
        BY <1>2 DEF Waits
      <4>1. i \in 1 .. n-1
        BY <1>1, <1>2, <1>5
      <4>2. QED  BY <1>3, <4>1 DEF Waits
    <3>2. QED  BY <1>1, <3>1 DEF PhiInv, Explored
  <2>6. \A q \in phis \ roots' : Served(q)' \/ (walk' # << >> /\ q = Phi!Root')
    BY <1>1, <2>2, ServedKept DEF PhiInv
  <2>7. QED  BY <1>1, <1>6, <2>4, <2>5, <2>6 DEF PhiInv, FunctionOK
<1>9. QED  BY <1>7, <1>8

LEMMA PhiStep == PhiInv /\ Phi!Step => PhiInv'
BY BeginPhiKeeps, DescendKeeps, PassOverKeeps, CloseCycleKeeps, ReturnKeeps, SamePhi
   DEF Phi!Step

LEMMA PhiStutter ==
  ASSUME PhiInv, UNCHANGED <<graph, phis, opaque, block, lone, roots, walk, walked, instCycles>>
  PROVE  PhiInv'
<1>1. /\ Phi!Root' = Phi!Root /\ \A v : (Phi!Ignored(v)' <=> Phi!Ignored(v))
         /\ Phi!Operands(v)' = Phi!Operands(v)
      /\ \A u, w : Waits(u, w)' <=> Waits(u, w)
  BY DEF Phi!Root, Phi!Ignored, Phi!Operands, Waits
<1>2. WalkPath'
  BY <1>1 DEF PhiInv, WalkPath
<1>3. Explored'
  BY <1>1 DEF PhiInv, Explored
<1>4. \A q \in phis' \ roots' : Served(q)' \/ (walk' # << >> /\ q = Phi!Root')
  BY <1>1, ServedKept DEF PhiInv
<1>5. \A s \in instCycles' : s \in Seq(Node) /\ \E d : OpenCycle(d)' /\ NodesOf(d) = NodesOf(s)
  BY OpenKept DEF PhiInv
<1>6. QED  BY <1>2, <1>3, <1>4, <1>5 DEF PhiInv, FunctionOK

(***************************************************************************)
(* Mode 2 from end to end: the selection starts when every walk is over,   *)
(* and a recorded list that it is done with has a voter.                   *)
(***************************************************************************)
ServeInv ==
  /\ PhiInv
  /\ stage \in {"search", "select", "done"}
  /\ stage = "search" => pending = instCycles /\ voted = {}
  /\ stage # "search" => Phi!Done /\ delay \in [Node -> Delay]
  /\ pending \subseteq instCycles
  /\ \A s \in instCycles \ pending : \E p \in BOOLEAN : MinInst(s, p) \in voted
  /\ stage = "done" => pending = {}

LEMMA SameSelect2 == \A c, p : Mode2!MinInst(c, p) = MinInst(c, p)
BY DEF Mode2!MinInst, MinInst, Mode2!ChainEnds, ChainEnds, Mode2!PartialDelay, PartialDelay,
   Mode2!NodeDelay, NodeDelay, Mode2!Min, Min

LEMMA ServeFirst == Mode2!Init => ServeInv
BY PhiFirst, SamePhiSteps DEF Mode2!Init, Phi!Init, ServeInv

\* Between the walks and the end only the selection changes anything.
LEMMA ServeRest ==
  ASSUME ServeInv, UNCHANGED <<graph, phis, opaque, block, lone, roots, walk, walked, instCycles>>,
         UNCHANGED <<startState, delay, sensitive, pending, voted>>,
         \/ UNCHANGED stage
         \/ stage = "select" /\ pending = {} /\ stage' = "done"
  PROVE  ServeInv'
<1>1. PhiInv'
  BY PhiStutter DEF ServeInv
<1>2. \A c, q : MinInst(c, q)' = MinInst(c, q)
  BY DEF MinInst, ChainEnds, PartialDelay, NodeDelay
<1>3. \A s \in instCycles' \ pending' : \E q \in BOOLEAN : MinInst(s, q)' \in voted'
  BY <1>2 DEF ServeInv
<1>4. QED  BY <1>1, <1>3 DEF ServeInv, Phi!Done

LEMMA ServeSearch ==
  ASSUME ServeInv, Mode2!Search
  PROVE  ServeInv'
<1>1. /\ stage = "search" /\ stage' = "search" /\ Phi!Step
      /\ pending' = pending \cup (instCycles' \ instCycles) /\ voted' = voted
  BY SamePhiSteps DEF Mode2!Search
<1>2. PhiInv'
  BY <1>1, PhiStep DEF ServeInv
<1>3. instCycles \subseteq instCycles'
  BY <1>1 DEF Phi!Step, Phi!CloseCycle, Phi!Return, Phi!BeginPhi, Phi!Descend, Phi!PassOver
<1>4. pending' = instCycles'
  BY <1>1, <1>3 DEF ServeInv
<1>5. QED  BY <1>1, <1>2, <1>4 DEF ServeInv

LEMMA ServeSchedule ==
  ASSUME ServeInv, Mode2!Schedule
  PROVE  ServeInv'
<1>1. /\ stage = "search" /\ stage' = "select" /\ Phi!Done /\ delay' \in [Node -> PhiDelay]
      /\ UNCHANGED <<graph, phis, opaque, block, lone, roots, walk, walked, instCycles>>
      /\ UNCHANGED <<pending, voted>>
  BY SamePhiSteps DEF Mode2!Schedule, Mode2!functionVars, Mode2!walkVars, Mode2!Node, Node
<1>2. PhiInv' /\ Phi!Done'
  BY <1>1, PhiStutter DEF ServeInv, Phi!Done
<1>3. delay' \in [Node -> Delay]
  BY <1>1, ModeTwoAssumption
<1>4. QED  BY <1>1, <1>2, <1>3 DEF ServeInv

LEMMA ServeSelect ==
  ASSUME ServeInv, Mode2!SelectVoter
  PROVE  ServeInv'
<1>1. /\ stage = "select" /\ stage' = "select" /\ Mode2!SetVoterFlag
      /\ UNCHANGED <<graph, phis, opaque, block, lone, roots, walk, walked, instCycles>>
      /\ UNCHANGED <<startState, delay, sensitive>>
  BY DEF Mode2!SelectVoter, Mode2!SetVoterFlag, Mode2!functionVars, Mode2!walkVars
<1>2. PICK c \in pending, p \in BOOLEAN :
        pending' = pending \ {c} /\ voted' = voted \cup {MinInst(c, p)}
  BY <1>1, SameSelect2 DEF Mode2!SetVoterFlag
<1>3. PhiInv' /\ (Phi!Done => Phi!Done')
  BY <1>1, PhiStutter DEF ServeInv, Phi!Done
<1>4. \A d, q : MinInst(d, q)' = MinInst(d, q)
  BY <1>1 DEF MinInst, ChainEnds, PartialDelay, NodeDelay
<1>5. \A s \in instCycles' \ pending' : \E q \in BOOLEAN : MinInst(s, q)' \in voted'
  BY <1>1, <1>2, <1>4 DEF ServeInv
<1>6. QED  BY <1>1, <1>2, <1>3, <1>5 DEF ServeInv

LEMMA ServeStep == ServeInv /\ (Mode2!Next \/ UNCHANGED vars) => ServeInv'
<1> SUFFICES ASSUME ServeInv, Mode2!Next \/ UNCHANGED vars PROVE ServeInv'
  OBVIOUS
<1>1. CASE UNCHANGED vars \/ Mode2!Terminated \/ Mode2!Finish
  <2>1. /\ UNCHANGED <<graph, phis, opaque, block, lone, roots, walk, walked, instCycles>>
        /\ UNCHANGED <<startState, delay, sensitive, pending, voted>>
        /\ \/ UNCHANGED stage
           \/ stage = "select" /\ pending = {} /\ stage' = "done"
    BY <1>1 DEF vars, mode2Vars, selectVars, Mode2!Terminated, Mode2!Finish, Mode2!vars,
       Mode2!functionVars, Mode2!walkVars, Mode2!selectVars
  <2>2. QED  BY <2>1, ServeRest
<1>2. QED  BY <1>1, ServeSearch, ServeSchedule, ServeSelect DEF Mode2!Next

ServeHolds == SYNC_VOTER_MODE = 2 => ServeInv

LEMMA ServeHoldsFirst == Init => ServeHolds
BY ServeFirst DEF Init, ServeHolds

LEMMA ServeHoldsNext == ServeHolds /\ [Next]_vars => ServeHolds'
BY ServeStep DEF ServeHolds, Next, vars

(***************************************************************************)
(* In mode 2 no phi on a feedback cycle is missed, although nodes stay     *)
(* marked when the walk backs out of them.                                 *)
(***************************************************************************)
THEOREM PhisAreServed == Spec => []EveryPhiServed
<1>1. ServeHolds => EveryPhiServed
  <2> SUFFICES ASSUME SYNC_VOTER_MODE = 2, PhiInv, walk = << >>,
                      NEW c \in Mode2!Phi!OpenCycles,
                      NEW p \in (Mode2!Phi!NodesOf(c) \cap phis) \ roots
               PROVE  \E s \in instCycles : p \in Mode2!Phi!NodesOf(s)
    BY DEF ServeHolds, ServeInv, EveryPhiServed, Mode2!EveryPhiServed, Mode2!Phi!EveryPhiServed
  <2>1. \A s : Mode2!Phi!NodesOf(s) = NodesOf(s)
    BY DEF Mode2!Phi!NodesOf, NodesOf
  <2>2. OpenCycle(c)
    BY SamePhi
  <2>3. Served(p)
    BY DEF PhiInv
  <2>4. QED  BY <2>1, <2>2, <2>3 DEF Served
<1>2. QED  BY <1>1, ServeHoldsFirst, ServeHoldsNext, PTL DEF Spec

(***************************************************************************)
(* In mode 2 a feedback cycle some phi of which lies on no other cycle     *)
(* gets a voter.                                                           *)
(***************************************************************************)
THEOREM SimpleLoopsAreVoted == Spec => []SimpleLoopsVoted
<1>1. ServeHolds => SimpleLoopsVoted
  <2>1. \A s : Mode2!NodesOf(s) = NodesOf(s)
    BY DEF Mode2!NodesOf, NodesOf
  <2> SUFFICES ASSUME SYNC_VOTER_MODE = 2, ServeInv, stage = "done",
                      NEW c \in Mode2!Phi!OpenCycles, NEW p \in NodesOf(c) \cap phis,
                      Mode2!OnlyCycleOf(p, c)
               PROVE  NodesOf(c) \cap voted # {}
    BY <2>1 DEF ServeHolds, SimpleLoopsVoted, Mode2!SimpleLoopsVoted
  <2>2. PhiInv /\ roots = {} /\ walk = << >> /\ pending = {} /\ delay \in [Node -> Delay]
    BY DEF ServeInv, Phi!Done
  <2>3. OpenCycle(c) /\ p \in phis
    BY SamePhi
  <2>4. PICK s \in instCycles : p \in NodesOf(s)
    BY <2>2, <2>3 DEF PhiInv, Served
  <2>5. s \in Seq(Node) /\ \E d : OpenCycle(d) /\ NodesOf(d) = NodesOf(s)
    BY <2>2 DEF PhiInv
  <2>6. PICK d : OpenCycle(d) /\ NodesOf(d) = NodesOf(s)
    BY <2>5
  <2>7. d \in Mode2!Phi!OpenCycles
    BY <2>2, <2>6, SamePhi, IsListedCycle DEF OpenCycle, PhiInv, FunctionOK
  <2>8. NodesOf(s) = NodesOf(c)
    BY <2>1, <2>4, <2>6, <2>7 DEF Mode2!OnlyCycleOf
  <2>9. PICK q \in BOOLEAN : MinInst(s, q) \in voted
    BY <2>2 DEF ServeInv
  <2>10. s # << >>
    BY <2>4 DEF NodesOf
  <2>11. PICK i \in 1 .. Len(s) : MinInst(s, q) = s[i]
    BY <2>2, <2>5, <2>10, VoterPlace
  <2>12. MinInst(s, q) \in NodesOf(s)
    BY <2>5, <2>11 DEF NodesOf
  <2>13. QED  BY <2>8, <2>9, <2>12
<1>2. QED  BY <1>1, ServeHoldsFirst, ServeHoldsNext, PTL DEF Spec

(***************************************************************************)
(* The abstract specification.  Both modes step by step do what VoterCover *)
(* allows.                                                                 *)
(***************************************************************************)
LEMMA SameCover ==
  /\ Cover!Node = Node
  /\ \A s : Cover!NodesOf(s) = NodesOf(s)
BY DEF Cover!Node, Node, Cover!NodesOf, NodesOf

\* The selection chooses an instruction of the list it looks at.
LEMMA ChosenIsOnIt ==
  ASSUME NEW s \in Seq(Node), s # << >>, delay \in [Node -> Delay], NEW p \in BOOLEAN
  PROVE  MinInst(s, p) \in NodesOf(s)
<1>1. PICK i \in 1 .. Len(s) : MinInst(s, p) = s[i]
  BY VoterPlace
<1>2. QED  BY <1>1 DEF NodesOf

\* A selection step votes on a feedback cycle or changes nothing there.
LEMMA VoteOrStutter ==
  ASSUME NEW u \in Node, voted' = voted \cup {u}, UNCHANGED <<graph, SYNC_VOTER_MODE, stage>>,
         stage = "select", \E c \in Mode1!FeedbackCycles(graph) : u \in NodesOf(c)
  PROVE  [Cover!Next]_(Cover!coverVars)
<1>1. CASE u \in voted
  BY <1>1 DEF Cover!coverVars
<1>2. CASE u \notin voted
  BY <1>2, SameCover DEF Cover!Next, Cover!Vote
<1>3. QED  BY <1>1, <1>2

LEMMA Mode1Covers ==
  ASSUME CoverInv, SYNC_VOTER_MODE = 1, UNCHANGED SYNC_VOTER_MODE, Mode1!Next
  PROVE  [Cover!Next]_(Cover!coverVars)
<1>1. CASE Mode1!SelectVoter
  <2>1. stage = "select" /\ Mode1!SetVoterFlag /\ UNCHANGED <<stage, graph>>
    BY <1>1 DEF Mode1!SelectVoter
  <2>2. PICK c \in pending, p \in BOOLEAN : voted' = voted \cup {MinInst(c, p)}
    BY <2>1, SameSelect DEF Mode1!SetVoterFlag
  <2>3. c \in Mode1!FeedbackCycles(graph) /\ delay \in [Node -> Delay] /\ graph \in Graph
    <3>1. SccFinished /\ c \in Mode1!FeedbackCycles(graph) /\ delay \in [Node -> Delay]
      BY <2>1 DEF CoverInv, SccFinished, Searching
    <3>2. QED  BY <3>1, Listed DEF ComponentsListed
  <2>4. IsElementaryCycle(graph, c)
    BY <2>3, SameCycles, IsListedCycle
  <2>5. c \in Seq(Node) /\ c # << >>
    BY <2>4 DEF IsElementaryCycle
  <2>6. MinInst(c, p) \in NodesOf(c) /\ NodesOf(c) \subseteq Node
    BY <2>3, <2>5, ChosenIsOnIt DEF NodesOf
  <2>7. QED  BY <2>1, <2>2, <2>3, <2>6, VoteOrStutter
<1>2. CASE Mode1!Finish
  <2>1. stage = "select" /\ stage' = "done" /\ UNCHANGED <<graph, voted>>
    BY <1>2 DEF Mode1!Finish, Mode1!selectVars
  <2>2. Cover!Covered(graph, voted)
    <3> SUFFICES ASSUME NEW c \in Mode1!FeedbackCycles(graph) PROVE NodesOf(c) \cap voted # {}
      BY SameCover DEF Cover!Covered
    <3>1. SccFinished /\ pending = {} /\ delay \in [Node -> Delay] /\ c \in instCycles
      BY <1>2, <2>1 DEF CoverInv, SccFinished, Searching, Recorded, Mode1!Finish
    <3>2. IsElementaryCycle(graph, c)
      BY <3>1, SameCycles, Listed, IsListedCycle DEF ComponentsListed
    <3>3. c \in Seq(Node) /\ c # << >>
      BY <3>2 DEF IsElementaryCycle
    <3>4. PICK p \in BOOLEAN : MinInst(c, p) \in voted
      BY <3>1 DEF CoverInv
    <3>5. QED  BY <3>1, <3>3, <3>4, ChosenIsOnIt
  <2>3. QED  BY <2>1, <2>2 DEF Cover!Next, Cover!Complete
<1>3. CASE ~Mode1!SelectVoter /\ ~Mode1!Finish
  <2>1. UNCHANGED <<graph, voted>> /\ (stage' = "done" <=> stage = "done")
    <3>1. CASE Mode1!FindComponents
      <4>1. UNCHANGED voted /\ stage = "components" /\ stage' # "done" /\ Mode1!Scc!Next
        BY <3>1 DEF Mode1!FindComponents, Mode1!selectVars
      <4>2. Mode1!Scc!FillFrom => UNCHANGED graph
        BY DEF Mode1!Scc!FillFrom
      <4>3. UNCHANGED graph
        BY <4>1, <4>2 DEF Mode1!Scc!Next, Mode1!Scc!FillVisit, Mode1!Scc!FillReturn,
           Mode1!Scc!Reverse, Mode1!Scc!PopNode, Mode1!Scc!CollectVisit,
           Mode1!Scc!CollectReturn, Mode1!Scc!Finish, Mode1!Scc!Terminated, Mode1!Scc!vars
      <4>4. QED  BY <4>1, <4>3
    <3>2. CASE Mode1!PickComponent
      BY <3>2 DEF Mode1!PickComponent, Mode1!selectVars
    <3>3. CASE Mode1!SearchCycles
      BY <3>3 DEF Mode1!SearchCycles, Mode1!selectVars, Mode1!Cycle!Step,
         Mode1!Cycle!CallFromStart, Mode1!Cycle!CloseCycle, Mode1!Cycle!Descend,
         Mode1!Cycle!PassOver, Mode1!Cycle!Return
    <3>4. CASE Mode1!RecordCycles \/ Mode1!Schedule \/ Mode1!Terminated
      BY <3>4 DEF Mode1!RecordCycles, Mode1!Schedule, Mode1!Terminated, Mode1!vars,
         Mode1!selectVars
    <3>5. QED  BY <1>3, <3>1, <3>2, <3>3, <3>4 DEF Mode1!Next
  <2>2. QED  BY <2>1 DEF Cover!coverVars
<1>4. QED  BY <1>1, <1>2, <1>3

(***************************************************************************)
(* What mode 2 needs of a function: no instruction is its own operand (a   *)
(* phi that is would be recorded, and voted, on a cycle of one node).      *)
(***************************************************************************)
NoSelfUse == \A g \in PhiGraphs : \A v \in Node : v \notin g[v]

\* Then a cycle has at least two nodes, and so has its component.
LEMMA OpenIsFeedback ==
  ASSUME NoSelfUse, FunctionOK, NEW d, OpenCycle(d)
  PROVE  d \in Mode1!FeedbackCycles(graph)
<1>1. IsElementaryCycle(graph, d) /\ graph \in Graph
  BY DEF OpenCycle, FunctionOK
<1>2. /\ Len(d) \in Nat \ {0} /\ DOMAIN d = 1 .. Len(d)
      /\ \A i \in 1 .. Len(d) : d[i] \in Node
      /\ \A i, j \in 1 .. Len(d) : d[i] = d[j] => i = j
      /\ d[1] \in graph[d[Len(d)]]
  BY <1>1 DEF IsElementaryCycle, Distinct
<1> DEFINE n == Len(d)
<1>3. n \in Nat \ {0} /\ 1 \in 1 .. n /\ n \in 1 .. n
  BY <1>2
<1>4. n # 1
  BY <1>2, <1>3 DEF NoSelfUse, FunctionOK
<1> HIDE DEF n
<1>5. 2 \in 1 .. n
  BY <1>3, <1>4
<1>6. d[1] # d[2] /\ d[1] \in Node /\ d[2] \in Node
  BY <1>2, <1>3, <1>5 DEF n
<1>7. d[1] \in Component(graph, d[1]) /\ d[2] \in Component(graph, d[1])
  <2>1. Component(graph, d[2]) = Component(graph, d[1])
    BY <1>1, <1>5, CyclesStayInside DEF n
  <2>2. \A v \in Node : v \in Component(graph, v)
    BY DEF Component, ReachableFrom
  <2>3. QED  BY <1>6, <2>1, <2>2
<1>8. Cardinality(Component(graph, d[1])) >= 2
  <2>1. {d[1], d[2]} \subseteq Component(graph, d[1])
    BY <1>7
  <2>2. IsFiniteSet(Component(graph, d[1]))
    BY NodeIsFinite, FS_Subset DEF Component, ReachableFrom
  <2>3. Cardinality({d[1], d[2]}) <= Cardinality(Component(graph, d[1]))
    BY <2>1, <2>2, FS_Subset
  <2>4. Cardinality({d[1], d[2]}) = 2
    <3>1. IsFiniteSet({d[1]}) /\ Cardinality({d[1]}) = 1
      BY FS_Singleton
    <3>2. {d[1]} \cup {d[2]} = {d[1], d[2]} /\ d[2] \notin {d[1]}
      BY <1>6
    <3>3. QED  BY <3>1, <3>2, FS_AddElement
  <2>5. Cardinality(Component(graph, d[1])) \in Nat
    BY <2>2, FS_CardinalityType
  <2>6. QED  BY <2>3, <2>4, <2>5
<1>9. QED  BY <1>1, <1>8, SameCycles, IsListedCycle

LEMMA Mode2Covers ==
  ASSUME NoSelfUse, ServeInv, SYNC_VOTER_MODE = 2, UNCHANGED SYNC_VOTER_MODE, Mode2!Next
  PROVE  [Cover!Next]_(Cover!coverVars)
<1>1. CASE Mode2!SelectVoter
  <2>1. stage = "select" /\ Mode2!SetVoterFlag /\ UNCHANGED <<stage, graph>>
    BY <1>1 DEF Mode2!SelectVoter, Mode2!functionVars
  <2>2. PICK s \in pending, p \in BOOLEAN : voted' = voted \cup {MinInst(s, p)}
    BY <2>1, SameSelect2 DEF Mode2!SetVoterFlag
  <2>3. FunctionOK /\ s \in Seq(Node) /\ delay \in [Node -> Delay]
    BY <2>1 DEF ServeInv, PhiInv
  <2>4. PICK d : OpenCycle(d) /\ NodesOf(d) = NodesOf(s)
    BY <2>1 DEF ServeInv, PhiInv
  <2>5. d \in Mode1!FeedbackCycles(graph)
    BY <2>3, <2>4, OpenIsFeedback
  <2>6. s # << >>
    <3>1. 1 \in DOMAIN d
      BY <2>4 DEF OpenCycle, IsElementaryCycle
    <3>2. d[1] \in NodesOf(s)
      BY <2>4, <3>1 DEF NodesOf
    <3>3. QED  BY <3>2 DEF NodesOf
  <2>7. MinInst(s, p) \in NodesOf(d) /\ NodesOf(s) \subseteq Node
    <3>1. MinInst(s, p) \in NodesOf(s)
      BY <2>3, <2>6, ChosenIsOnIt
    <3>2. NodesOf(s) \subseteq Node
      BY <2>3 DEF NodesOf
    <3>3. QED  BY <2>4, <3>1, <3>2
  <2>8. QED  BY <2>1, <2>2, <2>4, <2>5, <2>7, VoteOrStutter
<1>2. CASE ~Mode2!SelectVoter
  <2>1. UNCHANGED <<graph, voted>>
    BY <1>2 DEF Mode2!Next, Mode2!Search, Mode2!Schedule, Mode2!Finish, Mode2!Terminated,
       Mode2!vars,
       Mode2!functionVars, Mode2!selectVars, Mode2!Phi!Step, Mode2!Phi!CloseCycle,
       Mode2!Phi!Return,
       Mode2!Phi!BeginPhi, Mode2!Phi!Descend, Mode2!Phi!PassOver, Mode2!Phi!functionVars
  <2>2. QED  BY <2>1 DEF Cover!coverVars
<1>3. QED  BY <1>1, <1>2

LEMMA CoverFirst == Init => Cover!Init
<1>1. CASE SYNC_VOTER_MODE = 1 /\ Mode1!Init
  BY <1>1 DEF Mode1!Init, Mode1!Scc!Init, Cover!Init
<1>2. CASE SYNC_VOTER_MODE = 2 /\ Mode2!Init
  BY <1>2, ModeTwoAssumption DEF Mode2!Init, Mode2!Phi!Init, Mode2!Phi!FunctionInit, Cover!Init
<1>3. QED  BY <1>1, <1>2 DEF Init

PhisFit == SYNC_VOTER_MODE = 2 => NoSelfUse

(***************************************************************************)
(* The pass implements VoterCover: it marks only nodes of feedback cycles, *)
(* and in mode 1, whatever the graph, it is not done before each of them   *)
(* has a marked node.                                                      *)
(***************************************************************************)
THEOREM PassImplementsCover == Spec /\ PhisFit => ImplementsCover
<1>1. PhisFit /\ CoverHolds /\ ServeHolds /\ [Next]_vars => [Cover!Next]_(Cover!coverVars)
  <2> SUFFICES ASSUME PhisFit, CoverHolds, ServeHolds, [Next]_vars
               PROVE  [Cover!Next]_(Cover!coverVars)
    OBVIOUS
  <2>1. CASE UNCHANGED vars
    BY <2>1 DEF vars, selectVars, Cover!coverVars
  <2>2. CASE Next
    BY <2>2, Mode1Covers, Mode2Covers DEF Next, CoverHolds, ServeHolds, PhisFit
  <2>3. QED  BY <2>1, <2>2
<1>2. PhisFit /\ [Next]_vars => PhisFit'
  BY DEF PhisFit, NoSelfUse, Next, vars
<1>3. QED
  BY <1>1, <1>2, CoverFirst, CoverHoldsFirst, CoverHoldsNext, ServeHoldsFirst, ServeHoldsNext,
     PTL DEF Spec, ImplementsCover, Cover!Spec

=============================================================================
