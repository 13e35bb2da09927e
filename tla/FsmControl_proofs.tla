-------------------------- MODULE FsmControl_proofs --------------------------
(***************************************************************************)
(* Proofs about FsmControl, for any functions: the FSM stays in its        *)
(* states, the case statement and the plain conditions mean the same, and  *)
(* the FSM walks the control-flow graph.                                   *)
(***************************************************************************)
EXTENDS FsmControl, FiniteSetTheorems, FunctionTheorems, WellFoundedInduction, TLAPS

(***************************************************************************)
(* Where an FSM can be: a number in a block, or the wait state.            *)
(***************************************************************************)
Places(f) == {WaitState} \cup (Blocks(f) \X Nat)

LEMMA BlockFacts ==
  ASSUME NEW f \in Functions, NEW b \in Blocks(f)
  PROVE  /\ b \in Nat \ {0} /\ EntryBlock \in Blocks(f)
         /\ f.blocks[b] \in Block
         /\ f.blocks[b].states \in Nat
         /\ f.blocks[b].insts \in SUBSET Instruction /\ IsFiniteSet(f.blocks[b].insts)
         /\ f.blocks[b].term \in Terminator
         /\ f.blocks[b].term.kind \in {"ret", "br", "condbr", "switch"}
         /\ f.blocks[b].term.cases \in Seq(Case)
         /\ Destinations(f.blocks[b].term) \subseteq Blocks(f) \ {EntryBlock}
<1>1. IsFunction(f)
  BY FunctionAssumption
<1>2. f.blocks \in Seq(Block) /\ f.blocks # << >>
  BY <1>1 DEF IsFunction
<1>3. b \in Nat \ {0} /\ EntryBlock \in Blocks(f) /\ f.blocks[b] \in Block
  BY <1>2 DEF Blocks, EntryBlock
<1>4. f.blocks[b].states \in Nat /\ f.blocks[b].insts \in SUBSET Instruction
      /\ f.blocks[b].term \in Terminator
  BY <1>3 DEF Block
<1>5. f.blocks[b].term.kind \in {"ret", "br", "condbr", "switch"}
      /\ f.blocks[b].term.cases \in Seq(Case)
  BY <1>4 DEF Terminator
<1>6. IsFiniteSet(f.blocks[b].insts)
      /\ Destinations(f.blocks[b].term) \subseteq Blocks(f) \ {EntryBlock}
  BY <1>1 DEF IsFunction
<1>7. QED  BY <1>3, <1>4, <1>5, <1>6

(***************************************************************************)
(* The shape of a transition: as many values as states; the values of a    *)
(* transition with several states, a switch, are distinct.                 *)
(***************************************************************************)
LEMMA TransitionShape ==
  ASSUME NEW f \in Functions, NEW s \in Places(f)
  PROVE  LET t == Transition(f, s) IN
           /\ Len(t.states) \in Nat /\ DOMAIN t.states = 1 .. Len(t.states)
           /\ DOMAIN t.values = DOMAIN t.states
           /\ Len(t.states) >= 2 =>
                \A j, k \in DOMAIN t.values : t.values[j] = t.values[k] => j = k
<1> DEFINE t == Transition(f, s)
<1>1. CASE s = WaitState
  <2>1. Len(t.states) = 1 /\ DOMAIN t.states = 1 .. 1 /\ DOMAIN t.values = 1 .. 1
    BY <1>1 DEF Transition
  <2> HIDE DEF t
  <2>2. QED  BY <2>1 DEF t
<1>2. CASE s # WaitState /\ s[2] < LastState(f, s[1])
  <2>1. t.states = << >> /\ t.values = << >>
    BY <1>2 DEF Transition
  <2> HIDE DEF t
  <2>2. QED  BY <2>1 DEF t
<1>3. CASE s # WaitState /\ ~(s[2] < LastState(f, s[1]))
  <2> DEFINE b == s[1]
             u == f.blocks[b].term
  <2>1. b \in Blocks(f)
    BY <1>3 DEF Places
  <2>2. t = setStateTransitions(f, b)
    BY <1>3 DEF Transition
  <2>3. u.kind \in {"ret", "br", "condbr", "switch"} /\ u.cases \in Seq(Case)
    BY <2>1, BlockFacts
  <2>4. IsFunction(f)
    BY FunctionAssumption
  <2>5. /\ u.kind = "condbr" => Len(u.cases) = 1
        /\ u.kind \in {"ret", "br"} => u.cases = << >>
        /\ \A j, k \in DOMAIN u.cases : u.cases[j].value = u.cases[k].value => j = k
    BY <2>1, <2>4 DEF IsFunction
  <2> HIDE DEF b, t
  <2>6. CASE u.kind = "ret"
    <3>1. t.states = << >> /\ t.values = << >>
      BY <2>2, <2>6 DEF setStateTransitions
    <3>2. QED  BY <3>1 DEF t
  <2>7. CASE u.kind # "ret"
    <3>1. /\ t.values = [k \in DOMAIN u.cases |->
                           IF u.kind = "switch" THEN u.cases[k].value ELSE 0]
          /\ t.states = [k \in DOMAIN u.cases |-> FirstState(u.cases[k].dest)]
      BY <2>2, <2>7 DEF setStateTransitions
    <3> DEFINE m == Len(u.cases)
    <3>2. m \in Nat /\ DOMAIN u.cases = 1 .. m
      BY <2>3
    <3> HIDE DEF m, u
    <3>3. t.states \in Seq({FirstState(u.cases[k].dest) : k \in 1 .. m})
          /\ Len(t.states) = m
      BY <3>1, <3>2
    <3>4. DOMAIN t.states = 1 .. m /\ DOMAIN t.values = 1 .. m
      BY <3>1, <3>2
    <3>5. ASSUME m >= 2, NEW j \in 1 .. m, NEW k \in 1 .. m, t.values[j] = t.values[k]
          PROVE  j = k
      <4>1. u.kind = "switch"
        BY <2>3, <2>5, <3>2, <3>5 DEF m
      <4>2. u.cases[j].value = u.cases[k].value
        BY <3>1, <3>2, <3>5, <4>1
      <4>3. QED  BY <2>5, <3>2, <4>2
    <3>6. QED  BY <3>2, <3>3, <3>4, <3>5 DEF t
  <2>8. QED  BY <2>6, <2>7
<1>4. QED  BY <1>1, <1>2, <1>3

(***************************************************************************)
(* Functions on 1 .. m are sequences, and what Append and \o make of them. *)
(***************************************************************************)
LEMMA FunctionIsSequence ==
  ASSUME NEW m \in Nat, NEW F, DOMAIN F = 1 .. m, F = [k \in 1 .. m |-> F[k]]
  PROVE  F \in Seq({F[k] : k \in 1 .. m}) /\ Len(F) = m
OBVIOUS

LEMMA AppendShape ==
  ASSUME NEW m \in Nat, NEW F, DOMAIN F = 1 .. m, F = [k \in 1 .. m |-> F[k]], NEW x
  PROVE  /\ Len(Append(F, x)) = m + 1 /\ DOMAIN Append(F, x) = 1 .. m + 1
         /\ Append(F, x)[m+1] = x
         /\ \A k \in 1 .. m : Append(F, x)[k] = F[k]
<1> DEFINE T == {F[k] : k \in 1 .. m}
<1>1. F \in Seq(T) /\ Len(F) = m
  BY FunctionIsSequence
<1> HIDE DEF T
<1>2. QED  BY <1>1

LEMMA PrependShape ==
  ASSUME NEW m \in Nat, NEW F, DOMAIN F = 1 .. m, F = [k \in 1 .. m |-> F[k]], NEW x
  PROVE  /\ Len(<<x>> \o F) = m + 1 /\ DOMAIN (<<x>> \o F) = 1 .. m + 1
         /\ (<<x>> \o F)[1] = x
         /\ \A k \in 1 .. m : (<<x>> \o F)[k+1] = F[k]
<1> DEFINE T == {F[k] : k \in 1 .. m}
<1>1. F \in Seq(T) /\ Len(F) = m
  BY FunctionIsSequence
<1> HIDE DEF T
<1>2. QED  BY <1>1

(***************************************************************************)
(* What generateTransition makes of a transition: one exit for every       *)
(* state, and the default.                                                 *)
(***************************************************************************)
LEMMA ExitsShape ==
  ASSUME NEW f \in Functions, NEW s \in Places(f)
  PROVE  LET t == Transition(f, s)
             m == Len(t.states)
             g == generateTransition(f, s)
         IN  /\ Len(g) = m + 1 /\ DOMAIN g = 1 .. m + 1 /\ g = [k \in 1 .. m + 1 |-> g[k]]
             /\ \A k \in 1 .. m :
                  /\ g[k].tests = {<<"EQ", IF m = 1 THEN 1 ELSE t.values[k]>>}
                  /\ g[k].driver = t.states[k]
             /\ g[m+1].tests = IF m = 0 THEN {} ELSE IF m = 1 THEN {<<"EQ", 0>>}
                               ELSE {<<"NE", t.values[k]>> : k \in 1 .. m}
             /\ g[m+1].driver = t.default
<1> DEFINE t == Transition(f, s)
           m == Len(t.states)
           g == generateTransition(f, s)
           each == [k \in DOMAIN t.states |->
                      [tests |-> {<<"EQ", t.values[k]>>}, driver |-> t.states[k]]]
           rest == [tests |-> {<<"NE", t.values[k]>> : k \in DOMAIN t.values},
                    driver |-> t.default]
<1>1. m \in Nat /\ DOMAIN t.states = 1 .. m /\ DOMAIN t.values = 1 .. m
  BY TransitionShape
<1>2. g = CASE m + 1 = 1 -> <<[tests |-> {}, driver |-> t.default]>>
            [] m + 1 = 2 -> <<[tests |-> {<<"EQ", 1>>}, driver |-> t.states[1]],
                              [tests |-> {<<"EQ", 0>>}, driver |-> t.default]>>
            [] OTHER     -> Append(each, rest)
  BY DEF generateTransition
<1> HIDE DEF g, m, t
<1>3. CASE m = 0
  <2>1. g = <<[tests |-> {}, driver |-> t.default]>>
    BY <1>2, <1>3
  <2>2. QED  BY <1>3, <2>1 DEF g, m, t
<1>4. CASE m = 1
  <2>1. g = <<[tests |-> {<<"EQ", 1>>}, driver |-> t.states[1]],
              [tests |-> {<<"EQ", 0>>}, driver |-> t.default]>>
    BY <1>2, <1>4
  <2>2. QED  BY <1>4, <2>1 DEF g, m, t
<1>5. CASE m # 0 /\ m # 1
  <2>1. g = Append(each, rest)
    BY <1>1, <1>2, <1>5
  <2>2. DOMAIN each = 1 .. m /\ each = [k \in 1 .. m |-> each[k]]
    BY <1>1
  <2>3. \A k \in 1 .. m : /\ each[k].tests = {<<"EQ", t.values[k]>>}
                          /\ each[k].driver = t.states[k]
    BY <1>1
  <2>4. /\ rest.tests = {<<"NE", t.values[k]>> : k \in 1 .. m}
        /\ rest.driver = t.default
    BY <1>1
  <2> HIDE DEF each, rest
  <2>5. /\ Len(g) = m + 1 /\ DOMAIN g = 1 .. m + 1 /\ g[m+1] = rest
        /\ \A k \in 1 .. m : g[k] = each[k]
    BY <1>1, <2>1, <2>2, AppendShape
  <2>6. g = [k \in 1 .. m + 1 |-> g[k]]
    <3>1. g = [k \in DOMAIN g |-> g[k]]
      BY <1>1, <2>1, <2>2, FunctionIsSequence
    <3>2. QED  BY <2>5, <3>1
  <2>7. QED  BY <1>5, <2>3, <2>4, <2>5, <2>6 DEF g, m, t
<1>6. QED  BY <1>3, <1>4, <1>5

(***************************************************************************)
(* The conditions of a state: the one that holds it while it waits, then   *)
(* one for every exit.                                                     *)
(***************************************************************************)
Fit(s, t, m, cs) ==
  /\ m \in Nat /\ Len(cs) = m + 2 /\ DOMAIN cs = 1 .. m + 2
  /\ cs[1].tests = {} /\ cs[1].driver = s /\ cs[1].wait = "high"
  /\ \A k \in 2 .. m + 2 : cs[k].wait = "low"
  /\ \A k \in 1 .. m :
       /\ cs[k+1].tests = {<<"EQ", IF m = 1 THEN 1 ELSE t.values[k]>>}
       /\ cs[k+1].driver = t.states[k]
  /\ cs[m+2].tests = IF m = 0 THEN {} ELSE IF m = 1 THEN {<<"EQ", 0>>}
                     ELSE {<<"NE", t.values[k]>> : k \in 1 .. m}
  /\ cs[m+2].driver = t.default

LEMMA ConditionsShape ==
  ASSUME NEW f \in Functions, NEW s \in Places(f)
  PROVE  Fit(s, Transition(f, s), Len(Transition(f, s).states), Conditions(f, s))
<1> DEFINE t  == Transition(f, s)
           m  == Len(t.states)
           cs == Conditions(f, s)
           g  == generateTransition(f, s)
           first == [tests |-> {}, driver |-> s, wait |-> "high"]
           low   == [k \in DOMAIN g |-> [tests |-> g[k].tests,
                                         driver |-> g[k].driver, wait |-> "low"]]
<1>1. m \in Nat
  BY TransitionShape
<1>2. /\ DOMAIN g = 1 .. m + 1
      /\ \A k \in 1 .. m :
           /\ g[k].tests = {<<"EQ", IF m = 1 THEN 1 ELSE t.values[k]>>}
           /\ g[k].driver = t.states[k]
      /\ g[m+1].tests = IF m = 0 THEN {} ELSE IF m = 1 THEN {<<"EQ", 0>>}
                        ELSE {<<"NE", t.values[k]>> : k \in 1 .. m}
      /\ g[m+1].driver = t.default
  BY ExitsShape
<1>3. cs = <<first>> \o low
  BY DEF Conditions, functionRequiresMemory
<1> HIDE DEF g, t, m, cs
<1>4. first.tests = {} /\ first.driver = s /\ first.wait = "high"
  OBVIOUS
<1>5. DOMAIN low = 1 .. m + 1 /\ low = [k \in 1 .. m + 1 |-> low[k]]
  BY <1>2
<1>6. \A k \in 1 .. m + 1 :
        low[k].tests = g[k].tests /\ low[k].driver = g[k].driver /\ low[k].wait = "low"
  BY <1>2
<1> HIDE DEF low, first
<1>7. /\ Len(cs) = m + 2 /\ DOMAIN cs = 1 .. m + 2 /\ cs[1] = first
      /\ \A k \in 1 .. m + 1 : cs[k+1] = low[k]
  <2> DEFINE n == m + 1
  <2>1. n \in Nat /\ n + 1 = m + 2
    BY <1>1
  <2>2. DOMAIN low = 1 .. n /\ low = [k \in 1 .. n |-> low[k]]
    BY <1>5
  <2> HIDE DEF n
  <2>3. /\ Len(cs) = n + 1 /\ DOMAIN cs = 1 .. n + 1 /\ cs[1] = first
        /\ \A k \in 1 .. n : cs[k+1] = low[k]
    BY <1>3, <2>1, <2>2, PrependShape
  <2>4. QED  BY <2>1, <2>3 DEF n
<1>8. \A k \in 2 .. m + 2 : cs[k].wait = "low"
  <2> SUFFICES ASSUME NEW k \in 2 .. m + 2 PROVE cs[k].wait = "low"
    OBVIOUS
  <2>1. k - 1 \in 1 .. m + 1 /\ (k - 1) + 1 = k
    BY <1>1
  <2>2. QED  BY <1>6, <1>7, <2>1
<1>9. \A k \in 1 .. m + 1 : cs[k+1].tests = g[k].tests /\ cs[k+1].driver = g[k].driver
  BY <1>6, <1>7
<1>10. \A k \in 1 .. m : /\ cs[k+1].tests = {<<"EQ", IF m = 1 THEN 1 ELSE t.values[k]>>}
                         /\ cs[k+1].driver = t.states[k]
  <2>1. \A k \in 1 .. m : k \in 1 .. m + 1
    BY <1>1
  <2>2. QED  BY <1>2, <1>9, <2>1
<1>11. /\ cs[m+2].tests = IF m = 0 THEN {} ELSE IF m = 1 THEN {<<"EQ", 0>>}
                          ELSE {<<"NE", t.values[k]>> : k \in 1 .. m}
       /\ cs[m+2].driver = t.default
  <2>1. m + 1 \in 1 .. m + 1 /\ (m + 1) + 1 = m + 2
    BY <1>1
  <2>2. QED  BY <1>2, <1>9, <2>1
<1>12. Fit(s, t, m, cs)
  BY <1>1, <1>4, <1>7, <1>8, <1>10, <1>11 DEF Fit
<1>13. QED  BY <1>12 DEF cs, m, t

(***************************************************************************)
(* When the tests of a condition hold; at most one condition but the first *)
(* does for a given value, and a single exit is always open.               *)
(***************************************************************************)
Open(v, t, m, cs) ==
  /\ \A k \in 1 .. m : TestsHold(cs[k+1], v) <=> v = (IF m = 1 THEN 1 ELSE t.values[k])
  /\ TestsHold(cs[m+2], v) <=>
       \/ m = 0
       \/ m = 1 /\ v = 0
       \/ m \notin {0, 1} /\ \A k \in 1 .. m : v # t.values[k]

LEMMA TestsAre ==
  ASSUME NEW f \in Functions, NEW s \in Places(f), NEW v
  PROVE  Open(v, Transition(f, s), Len(Transition(f, s).states), Conditions(f, s))
<1> DEFINE t  == Transition(f, s)
           m  == Len(t.states)
           cs == Conditions(f, s)
<1>1. ASSUME NEW c, NEW x, c.tests = {<<"EQ", x>>}
      PROVE  TestsHold(c, v) <=> v = x
  BY <1>1 DEF TestsHold
<1>2. Fit(s, t, m, cs)
  BY ConditionsShape
<1> HIDE DEF t, m, cs
<1>3. \A k \in 1 .. m : TestsHold(cs[k+1], v) <=> v = (IF m = 1 THEN 1 ELSE t.values[k])
  <2> SUFFICES ASSUME NEW k \in 1 .. m
               PROVE  TestsHold(cs[k+1], v) <=> v = (IF m = 1 THEN 1 ELSE t.values[k])
    OBVIOUS
  <2> DEFINE x == IF m = 1 THEN 1 ELSE t.values[k]
             c == cs[k+1]
  <2>1. c.tests = {<<"EQ", x>>}
    BY <1>2 DEF Fit
  <2> HIDE DEF x, c
  <2>2. TestsHold(c, v) <=> v = x
    BY <1>1, <2>1
  <2>3. QED  BY <2>2 DEF x, c
<1>4. TestsHold(cs[m+2], v) <=>
        \/ m = 0
        \/ m = 1 /\ v = 0
        \/ m \notin {0, 1} /\ \A k \in 1 .. m : v # t.values[k]
  <2>1. CASE m = 0
    <3>1. cs[m+2].tests = {}
      BY <1>2, <2>1 DEF Fit
    <3>2. QED  BY <2>1, <3>1 DEF TestsHold
  <2>2. CASE m = 1
    <3>1. cs[m+2].tests = {<<"EQ", 0>>}
      BY <1>2, <2>2 DEF Fit
    <3>2. TestsHold(cs[m+2], v) <=> v = 0
      BY <1>1, <3>1
    <3>3. QED  BY <2>2, <3>2
  <2>3. CASE m # 0 /\ m # 1
    <3> DEFINE ne(x) == <<"NE", x>>
    <3>1. cs[m+2].tests = {ne(t.values[k]) : k \in 1 .. m}
      BY <1>2, <2>3 DEF Fit
    <3>2. \A x : ne(x)[1] # "EQ" /\ ne(x)[2] = x
      OBVIOUS
    <3> HIDE DEF ne
    <3>3. TestsHold(cs[m+2], v) <=> \A k \in 1 .. m : v # ne(t.values[k])[2]
      BY <3>1, <3>2 DEF TestsHold
    <3>4. QED  BY <2>3, <3>2, <3>3
  <2>4. QED  BY <2>1, <2>2, <2>3
<1>5. Open(v, t, m, cs)
  BY <1>3, <1>4 DEF Open
<1>6. QED  BY <1>5 DEF t, m, cs

LEMMA OneExit ==
  ASSUME NEW f \in Functions, NEW s \in Places(f), NEW v,
         NEW j \in 2 .. Len(Conditions(f, s)), NEW k \in 2 .. Len(Conditions(f, s)),
         TestsHold(Conditions(f, s)[j], v), TestsHold(Conditions(f, s)[k], v)
  PROVE  j = k
<1> DEFINE t  == Transition(f, s)
           m  == Len(t.states)
           cs == Conditions(f, s)
<1>0. Fit(s, t, m, cs) /\ Open(v, t, m, cs)
  BY ConditionsShape, TestsAre
<1>2. m >= 2 => \A x, y \in 1 .. m : t.values[x] = t.values[y] => x = y
  BY TransitionShape
<1>3. j \in 2 .. Len(cs) /\ k \in 2 .. Len(cs) /\ TestsHold(cs[j], v) /\ TestsHold(cs[k], v)
  OBVIOUS
<1> HIDE DEF t, m, cs
<1>1. m \in Nat /\ Len(cs) = m + 2
  BY <1>0 DEF Fit
<1>4. j \in 2 .. m+2 /\ k \in 2 .. m+2 /\ TestsHold(cs[j], v) /\ TestsHold(cs[k], v)
  BY <1>1, <1>3
<1>5. \A x \in 2 .. m+2 : x # m+2 => x-1 \in 1 .. m /\ (x-1) + 1 = x
  BY <1>1
<1>6. \A x, y \in 1 .. m : TestsHold(cs[x+1], v) /\ TestsHold(cs[y+1], v) => x = y
  <2> SUFFICES ASSUME NEW x \in 1 .. m, NEW y \in 1 .. m,
                      TestsHold(cs[x+1], v), TestsHold(cs[y+1], v)
               PROVE  x = y
    OBVIOUS
  <2>1. CASE m = 1
    BY <2>1
  <2>2. CASE m # 1
    <3>1. t.values[x] = t.values[y]
      BY <1>0, <2>2 DEF Open
    <3>2. m >= 2
      BY <1>1, <2>2
    <3>3. QED  BY <1>2, <3>1, <3>2
  <2>3. QED  BY <2>1, <2>2
<1>7. \A x \in 1 .. m : TestsHold(cs[x+1], v) => ~TestsHold(cs[m+2], v)
  <2> SUFFICES ASSUME NEW x \in 1 .. m, TestsHold(cs[x+1], v), TestsHold(cs[m+2], v)
               PROVE  FALSE
    OBVIOUS
  <2>1. m # 0
    BY <1>1
  <2>2. CASE m = 1
    BY <1>0, <2>2 DEF Open
  <2>3. CASE m # 1
    BY <1>0, <2>1, <2>3 DEF Open
  <2>4. QED  BY <2>2, <2>3
<1>8. CASE j = m+2 /\ k = m+2
  BY <1>8
<1>9. CASE j # m+2 /\ k = m+2
  BY <1>4, <1>5, <1>7, <1>9
<1>10. CASE j = m+2 /\ k # m+2
  BY <1>4, <1>5, <1>7, <1>10
<1>11. CASE j # m+2 /\ k # m+2
  <2>1. j-1 = k-1
    BY <1>4, <1>5, <1>6, <1>11
  <2>2. j \in Int /\ k \in Int
    OBVIOUS
  <2>3. QED  BY <2>1, <2>2
<1>12. QED  BY <1>8, <1>9, <1>10, <1>11

(***************************************************************************)
(* The greatest and the least of one number.                               *)
(***************************************************************************)
LEMMA OnlyOne ==
  ASSUME NEW k \in Int
  PROVE  Max({k}) = k /\ Min({k}) = k
BY DEF Max, Min

(***************************************************************************)
(* Both printed forms stay where they are during a stall, and otherwise    *)
(* take the exit that is open, if there is one.                            *)
(***************************************************************************)
LEMMA StalledStays ==
  ASSUME NEW f \in Functions, NEW s \in Places(f), NEW i \in Input, ~i.reset, i.wait
  PROVE  PlainNextState(f, s, i) = s /\ CaseNextState(f, s, i) = s
<1> DEFINE cs == Conditions(f, s)
           n  == Len(cs)
           hold == {k \in DOMAIN cs : Holds(cs[k], TransitionOp(f, s, i), i.wait)}
<1>0. Fit(s, Transition(f, s), Len(Transition(f, s).states), cs)
  BY ConditionsShape
<1>3. PlainNextState(f, s, i) = IF hold = {} THEN s ELSE cs[Max(hold)].driver
  BY DEF PlainNextState
<1> HIDE DEF cs
<1>1. /\ n \in Nat \ {0, 1} /\ DOMAIN cs = 1 .. n
      /\ cs[1].tests = {} /\ cs[1].driver = s /\ cs[1].wait = "high"
      /\ \A k \in 2 .. n : cs[k].wait = "low"
  BY <1>0 DEF Fit
<1>2. hold = {1}
  <2>1. \A k \in 1 .. n : k = 1 \/ k \in 2 .. n
    BY <1>1
  <2>2. \A k \in 1 .. n : k # 1 => ~Holds(cs[k], TransitionOp(f, s, i), i.wait)
    BY <1>1, <2>1 DEF Holds
  <2>3. Holds(cs[1], TransitionOp(f, s, i), i.wait) /\ 1 \in 1 .. n
    BY <1>1 DEF Holds, TestsHold
  <2>4. QED  BY <1>1, <2>2, <2>3
<1>4. Max(hold) = 1
  <2>1. Max({1}) = 1
    BY OnlyOne
  <2> HIDE DEF hold
  <2>2. QED  BY <1>2, <2>1
<1>5. QED  BY <1>1, <1>2, <1>3, <1>4 DEF CaseNextState, functionRequiresMemory

LEMMA OpenExitTaken ==
  ASSUME NEW f \in Functions, NEW s \in Places(f), NEW i \in Input, ~i.reset, ~i.wait,
         NEW k \in 2 .. Len(Conditions(f, s)),
         TestsHold(Conditions(f, s)[k], TransitionOp(f, s, i))
  PROVE  /\ PlainNextState(f, s, i) = Conditions(f, s)[k].driver
         /\ CaseNextState(f, s, i) = Conditions(f, s)[k].driver
<1> DEFINE cs == Conditions(f, s)
           n  == Len(cs)
           v  == TransitionOp(f, s, i)
           hold == {x \in DOMAIN cs : Holds(cs[x], v, i.wait)}
           moves == {x \in DOMAIN cs : cs[x].driver # s /\ TestsHold(cs[x], v)}
<1>0. Fit(s, Transition(f, s), Len(Transition(f, s).states), cs)
  BY ConditionsShape
<1>1. /\ n \in Nat \ {0, 1} /\ DOMAIN cs = 1 .. n
      /\ cs[1].tests = {} /\ cs[1].driver = s /\ cs[1].wait = "high"
      /\ \A x \in 2 .. n : cs[x].wait = "low"
  <2> HIDE DEF cs
  <2>1. QED  BY <1>0 DEF Fit
<1>2. \A x \in 2 .. n : TestsHold(cs[x], v) => x = k
  BY OneExit
<1>3. TestsHold(cs[k], v) /\ k \in 2 .. n /\ k \in Int /\ k \in 1 .. n
  BY <1>1
<1>4. PlainNextState(f, s, i) = IF hold = {} THEN s ELSE cs[Max(hold)].driver
  BY DEF PlainNextState
<1>5. CaseNextState(f, s, i) =
        IF n = 2 THEN (IF cs[1].driver # s THEN cs[1].driver ELSE cs[2].driver)
        ELSE IF moves = {} THEN s ELSE cs[Min(moves)].driver
  BY DEF CaseNextState, next_state
<1> HIDE DEF cs, v, n
<1>6. \A x \in 1 .. n : x = 1 \/ x \in 2 .. n
  BY <1>1
<1>7. hold = {k}
  <2>1. ~Holds(cs[1], v, i.wait)
    BY <1>1 DEF Holds
  <2>2. Holds(cs[k], v, i.wait)
    BY <1>1, <1>3 DEF Holds
  <2>3. \A x \in 2 .. n : Holds(cs[x], v, i.wait) => x = k
    BY <1>2 DEF Holds
  <2>4. QED  BY <1>1, <1>3, <1>6, <2>1, <2>2, <2>3
<1>8. moves = IF cs[k].driver = s THEN {} ELSE {k}
  BY <1>1, <1>2, <1>3, <1>6
<1>9. PlainNextState(f, s, i) = cs[k].driver
  BY <1>3, <1>4, <1>7, OnlyOne
<1>10. CaseNextState(f, s, i) = cs[k].driver
  <2>1. CASE n = 2
    <3>1. k = 2
      BY <1>3, <2>1
    <3>2. QED  BY <1>1, <1>5, <2>1, <3>1
  <2>2. CASE n # 2 /\ cs[k].driver = s
    BY <1>5, <1>8, <2>2
  <2>3. CASE n # 2 /\ cs[k].driver # s
    BY <1>3, <1>5, <1>8, <2>3, OnlyOne
  <2>4. QED  BY <2>1, <2>2, <2>3
<1>11. QED  BY <1>9, <1>10 DEF cs

LEMMA NoExitStays ==
  ASSUME NEW f \in Functions, NEW s \in Places(f), NEW i \in Input, ~i.reset, ~i.wait,
         \A k \in 2 .. Len(Conditions(f, s)) :
           ~TestsHold(Conditions(f, s)[k], TransitionOp(f, s, i))
  PROVE  PlainNextState(f, s, i) = s /\ CaseNextState(f, s, i) = s
<1> DEFINE cs == Conditions(f, s)
           n  == Len(cs)
           v  == TransitionOp(f, s, i)
           m  == Len(Transition(f, s).states)
           hold == {x \in DOMAIN cs : Holds(cs[x], v, i.wait)}
           moves == {x \in DOMAIN cs : cs[x].driver # s /\ TestsHold(cs[x], v)}
<1>0. Fit(s, Transition(f, s), m, cs) /\ Open(v, Transition(f, s), m, cs)
  BY ConditionsShape, TestsAre
<1>1. /\ m \in Nat /\ n = m + 2 /\ DOMAIN cs = 1 .. n
      /\ cs[1].tests = {} /\ cs[1].driver = s /\ cs[1].wait = "high"
  <2> HIDE DEF cs, m
  <2>1. QED  BY <1>0 DEF Fit
<1>2. m = 0 => TestsHold(cs[m+2], v)
  <2> HIDE DEF cs, m, v
  <2>1. QED  BY <1>0 DEF Open
<1>3. \A k \in 2 .. n : ~TestsHold(cs[k], v)
  OBVIOUS
<1>4. PlainNextState(f, s, i) = IF hold = {} THEN s ELSE cs[Max(hold)].driver
  BY DEF PlainNextState
<1>5. CaseNextState(f, s, i) =
        IF n = 2 THEN (IF cs[1].driver # s THEN cs[1].driver ELSE cs[2].driver)
        ELSE IF moves = {} THEN s ELSE cs[Min(moves)].driver
  BY DEF CaseNextState, next_state
<1> HIDE DEF cs, v, n, m
<1>6. \A x \in 1 .. n : x = 1 \/ x \in 2 .. n
  BY <1>1
<1>7. hold = {} /\ moves = {}
  BY <1>1, <1>3, <1>6 DEF Holds
<1>8. n # 2
  <2>1. m + 2 = 2 => m = 0 /\ m + 2 \in 2 .. n
    BY <1>1
  <2>2. QED  BY <1>1, <1>2, <1>3, <2>1
<1>9. QED  BY <1>4, <1>5, <1>7, <1>8

LEMMA FormsAgree ==
  ASSUME NEW f \in Functions, NEW s \in Places(f), NEW i \in Input
  PROVE  CaseNextState(f, s, i) = PlainNextState(f, s, i)
<1>1. CASE i.reset
  BY <1>1 DEF CaseNextState, PlainNextState
<1>2. CASE ~i.reset /\ i.wait
  BY <1>2, StalledStays
<1>3. CASE ~i.reset /\ ~i.wait
  BY <1>3, OpenExitTaken, NoExitStays
<1>4. QED  BY <1>1, <1>2, <1>3

-----------------------------------------------------------------------------
(***************************************************************************)
(* A finite set of integers that is not empty has a greatest element.      *)
(***************************************************************************)
LEMMA MaxIn ==
  ASSUME NEW S \in SUBSET Int, IsFiniteSet(S), S # {}
  PROVE  Max(S) \in S /\ \A y \in S : y <= Max(S)
<1> DEFINE Above(x) == {y \in S : y > x}
           Family == {Above(x) : x \in S}
<1>1. Family \subseteq FiniteSubsetsOf(S) /\ Family # {}
  <2>1. \A x \in S : Above(x) \in SUBSET S /\ IsFiniteSet(Above(x))
    BY FS_Subset
  <2> QED BY <2>1 DEF FiniteSubsetsOf
<1>2. PICK A \in Family : \A B \in Family : ~(<<B, A>> \in StrictSubsetOrdering(S))
  <2>1. IsWellFoundedOn(StrictSubsetOrdering(S), FiniteSubsetsOf(S))
    BY FS_StrictSubsetOrderingWellFounded
  <2> HIDE DEF Family
  <2> QED BY <1>1, <2>1, WFMin
<1>3. PICK x \in S : A = Above(x)
  OBVIOUS
<1>4. \A y \in S : x >= y
  <2> SUFFICES ASSUME NEW y \in S, ~(x >= y) PROVE FALSE
    OBVIOUS
  <2>1. y \in Above(x) /\ y \notin Above(y)
    <3>1. y \in Int /\ x \in Int
      OBVIOUS
    <3> QED BY <3>1
  <2>2. ASSUME NEW z \in Above(y) PROVE z \in Above(x)
    <3>1. z \in Int /\ y \in Int /\ x \in Int
      OBVIOUS
    <3> QED BY <3>1
  <2>3. <<Above(y), Above(x)>> \in StrictSubsetOrdering(S)
    BY <2>1, <2>2 DEF StrictSubsetOrdering
  <2> QED BY <1>2, <1>3, <2>3
<1> QED BY <1>4 DEF Max

(***************************************************************************)
(* The last state of a block is a number, and no instruction of the block  *)
(* is unfinished in it.                                                    *)
(***************************************************************************)
LEMMA LastStateFacts ==
  ASSUME NEW f \in Functions, NEW b \in Blocks(f)
  PROVE  /\ LastState(f, b) \in Nat
         /\ \A x \in f.blocks[b].insts : x.order + x.latency <= LastState(f, b)
<1> DEFINE insts == f.blocks[b].insts
           n == f.blocks[b].states
           T == {x.order + x.latency : x \in insts}
           end == [x \in insts |-> x.order + x.latency]
           S == {n} \cup T
<1>1. n \in Nat /\ insts \in SUBSET Instruction /\ IsFiniteSet(insts)
  BY BlockFacts
<1>2. T \subseteq Nat
  BY <1>1 DEF Instruction
<1>3. IsFiniteSet(T)
  <2>1. end \in Surjection(insts, T)
    BY DEF Surjection
  <2> HIDE DEF T, end, insts
  <2>2. QED  BY <1>1, <2>1, FS_Surjection
<1>4. IsFiniteSet(S) /\ S \in SUBSET Int /\ S # {} /\ S \subseteq Nat
  <2> HIDE DEF T, n
  <2>1. IsFiniteSet({n})
    BY FS_Singleton
  <2>2. IsFiniteSet(S)
    BY <1>3, <2>1, FS_Union
  <2>3. S # {} /\ S \subseteq Nat
    BY <1>1, <1>2
  <2> HIDE DEF S
  <2>4. QED  BY <2>2, <2>3
<1>5. LastState(f, b) = Max(S)
  BY DEF LastState
<1>6. \A x \in insts : x.order + x.latency \in S
  OBVIOUS
<1> HIDE DEF S
<1>7. Max(S) \in S /\ \A y \in S : y <= Max(S)
  BY <1>4, MaxIn
<1>8. QED  BY <1>4, <1>5, <1>6, <1>7

(***************************************************************************)
(* Where the transitions of a state lead: to a state of the FSM.           *)
(***************************************************************************)
LEMMA StatesArePlaces ==
  ASSUME NEW f \in Functions
  PROVE  States(f) \subseteq Places(f) /\ WaitState \in States(f)
<1>1. \A b \in Blocks(f) : LastState(f, b) \in Nat
  BY LastStateFacts
<1>2. \A b \in Blocks(f) : 0 .. LastState(f, b) \subseteq Nat
  BY <1>1
<1>3. QED  BY <1>2 DEF States, Places

LEMMA FirstIsState ==
  ASSUME NEW f \in Functions, NEW b \in Blocks(f), ~isEmptyFirstBB(f, b)
  PROVE  FirstState(b) \in States(f)
<1>1. LastState(f, b) \in Nat
  BY LastStateFacts
<1>2. 0 \in 0 .. LastState(f, b)
  BY <1>1
<1>3. QED  BY <1>2 DEF FirstState, States

LEMMA TransitionsLeadToStates ==
  ASSUME NEW f \in Functions, NEW s \in States(f)
  PROVE  /\ Transition(f, s).default \in States(f)
         /\ \A k \in DOMAIN Transition(f, s).states : Transition(f, s).states[k] \in States(f)
<1> DEFINE t == Transition(f, s)
<1>1. \A b \in Blocks(f) : b # EntryBlock => FirstState(b) \in States(f)
  BY FirstIsState DEF isEmptyFirstBB
<1>2. CASE s = WaitState
  <2> DEFINE first == IF isEmptyFirstBB(f, EntryBlock)
                      THEN f.blocks[EntryBlock].term.default ELSE EntryBlock
  <2>1. EntryBlock \in Blocks(f)
    BY FunctionAssumption DEF IsFunction, Blocks, EntryBlock
  <2>2. FirstState(first) \in States(f)
    <3>1. CASE isEmptyFirstBB(f, EntryBlock)
      <4>1. f.blocks[EntryBlock].term.kind # "ret"
        BY <3>1 DEF isEmptyFirstBB, HasNoInstructions
      <4>2. f.blocks[EntryBlock].term.default \in Blocks(f) \ {EntryBlock}
        BY <2>1, <4>1, BlockFacts DEF Destinations
      <4>3. QED  BY <1>1, <3>1, <4>2
    <3>2. CASE ~isEmptyFirstBB(f, EntryBlock)
      BY <2>1, <3>2, FirstIsState
    <3>3. QED  BY <3>1, <3>2
  <2>3. t.default = WaitState /\ t.states = <<FirstState(first)>>
    BY <1>2 DEF Transition
  <2>4. WaitState \in States(f)
    BY DEF States
  <2> HIDE DEF t, first
  <2>5. QED  BY <2>2, <2>3, <2>4 DEF t
<1>3. CASE s # WaitState
  <2> DEFINE b == s[1]
             u == f.blocks[b].term
  <2>1. /\ b \in Blocks(f) /\ ~isEmptyFirstBB(f, b)
        /\ s[2] \in 0 .. LastState(f, b) /\ LastState(f, b) \in Nat
    <3>1. b \in Blocks(f) /\ ~isEmptyFirstBB(f, b) /\ s[2] \in 0 .. LastState(f, b)
      BY <1>3 DEF States
    <3>2. QED  BY <3>1, LastStateFacts
  <2>2. CASE s[2] < LastState(f, b)
    <3>1. t.default = <<b, s[2] + 1>> /\ t.states = << >>
      BY <1>3, <2>2 DEF Transition
    <3> HIDE DEF t
    <3>2. s[2] + 1 \in 0 .. LastState(f, b)
      BY <2>1, <2>2
    <3> HIDE DEF b
    <3>3. <<b, s[2] + 1>> \in States(f)
      BY <2>1, <3>2 DEF States
    <3>4. QED  BY <3>1, <3>3 DEF t
  <2>3. CASE ~(s[2] < LastState(f, b))
    <3>1. t = setStateTransitions(f, b)
      BY <1>3, <2>3 DEF Transition
    <3>2. Destinations(u) \subseteq Blocks(f) \ {EntryBlock}
      BY <2>1, BlockFacts
    <3> HIDE DEF t, b
    <3>3. CASE u.kind = "ret"
      <4>1. t.default = WaitState /\ t.states = << >>
        BY <3>1, <3>3 DEF setStateTransitions
      <4>2. QED  BY <4>1, StatesArePlaces DEF t
    <3>4. CASE u.kind # "ret"
      <4>1. /\ t.default = FirstState(u.default)
            /\ t.states = [k \in DOMAIN u.cases |-> FirstState(u.cases[k].dest)]
        BY <3>1, <3>4 DEF setStateTransitions
      <4>2. /\ u.default \in Blocks(f) \ {EntryBlock}
            /\ \A k \in DOMAIN u.cases : u.cases[k].dest \in Blocks(f) \ {EntryBlock}
        BY <3>2, <3>4 DEF Destinations
      <4> HIDE DEF u
      <4>3. t.default \in States(f)
        BY <1>1, <4>1, <4>2
      <4>4. \A k \in DOMAIN u.cases : FirstState(u.cases[k].dest) \in States(f)
        BY <1>1, <4>2
      <4>5. QED  BY <4>1, <4>3, <4>4 DEF t
    <3>5. QED  BY <3>3, <3>4
  <2>4. QED  BY <2>2, <2>3
<1>4. QED  BY <1>2, <1>3

-----------------------------------------------------------------------------
(***************************************************************************)
(* What a clock edge does: a stalled one nothing, and another one takes    *)
(* the exit that is open, whose block gets its phis.                       *)
(***************************************************************************)
LEMMA StalledCopiesNothing ==
  ASSUME NEW f \in Functions, NEW s \in Places(f), NEW i \in Input, i.wait
  PROVE  PhiCopies(f, s, i) = {}
<1> DEFINE cs == Conditions(f, s)
           n  == Len(cs)
           v  == TransitionOp(f, s, i)
           true == {k \in DOMAIN cs : cs[k].wait # "high" /\ Holds(cs[k], v, i.wait)}
<1>0. Fit(s, Transition(f, s), Len(Transition(f, s).states), cs)
  BY ConditionsShape
<1>1. n \in Nat /\ DOMAIN cs = 1 .. n /\ cs[1].wait = "high" /\ \A k \in 2 .. n : cs[k].wait = "low"
  <2> HIDE DEF cs
  <2>1. QED  BY <1>0 DEF Fit
<1>2. PhiCopies(f, s, i) =
        IF IsTerminating(f, s) THEN {cs[k].driver[1] : k \in true} \ {Idle} ELSE {}
  BY DEF PhiCopies
<1> HIDE DEF cs, n, v
<1>3. \A k \in 1 .. n : k = 1 \/ k \in 2 .. n
  BY <1>1
<1>4. true = {}
  BY <1>1, <1>3 DEF Holds
<1>5. QED  BY <1>2, <1>4

LEMMA ExitTaken ==
  ASSUME NEW f \in Functions, NEW s \in Places(f), NEW i \in Input, ~i.reset, ~i.wait,
         NEW k \in 2 .. Len(Conditions(f, s)),
         TestsHold(Conditions(f, s)[k], TransitionOp(f, s, i))
  PROVE  LET d == Conditions(f, s)[k].driver IN
           /\ CaseNextState(f, s, i) = d /\ PlainNextState(f, s, i) = d
           /\ PhiCopies(f, s, i) = IF IsTerminating(f, s) THEN {d[1]} \ {Idle} ELSE {}
<1> DEFINE cs == Conditions(f, s)
           n  == Len(cs)
           v  == TransitionOp(f, s, i)
           true == {x \in DOMAIN cs : cs[x].wait # "high" /\ Holds(cs[x], v, i.wait)}
<1>0. Fit(s, Transition(f, s), Len(Transition(f, s).states), cs)
  BY ConditionsShape
<1>1. n \in Nat /\ DOMAIN cs = 1 .. n /\ cs[1].wait = "high" /\ \A x \in 2 .. n : cs[x].wait = "low"
  <2> HIDE DEF cs
  <2>1. QED  BY <1>0 DEF Fit
<1>2. PhiCopies(f, s, i) =
        IF IsTerminating(f, s) THEN {cs[x].driver[1] : x \in true} \ {Idle} ELSE {}
  BY DEF PhiCopies
<1>3. CaseNextState(f, s, i) = cs[k].driver /\ PlainNextState(f, s, i) = cs[k].driver
  BY OpenExitTaken
<1>4. \A x \in 2 .. n : TestsHold(cs[x], v) => x = k
  BY OneExit
<1>5. k \in 2 .. n /\ TestsHold(cs[k], v)
  OBVIOUS
<1> HIDE DEF cs, n, v
<1>6. \A x \in 1 .. n : x = 1 \/ x \in 2 .. n
  BY <1>1
<1>7. true = {k}
  <2>1. k \in true
    BY <1>1, <1>5 DEF Holds
  <2>2. \A x \in true : x = k
    BY <1>1, <1>4, <1>6 DEF Holds
  <2>3. QED  BY <2>1, <2>2
<1> HIDE DEF true
<1>8. {cs[x].driver[1] : x \in true} = {cs[k].driver[1]}
  BY <1>7
<1>9. QED  BY <1>2, <1>3, <1>8 DEF cs

LEMMA StepsToState ==
  ASSUME NEW f \in Functions, NEW s \in States(f), NEW i \in Input
  PROVE  CaseNextState(f, s, i) \in States(f)
<1> DEFINE cs == Conditions(f, s)
           t  == Transition(f, s)
           m  == Len(t.states)
           v  == TransitionOp(f, s, i)
<1>1. s \in Places(f) /\ WaitState \in States(f)
  BY StatesArePlaces
<1>2. CASE i.reset
  BY <1>1, <1>2 DEF CaseNextState
<1>3. CASE ~i.reset /\ i.wait
  BY <1>1, <1>3, StalledStays
<1>4. CASE ~i.reset /\ ~i.wait
  <2>1. CASE \A k \in 2 .. Len(cs) : ~TestsHold(cs[k], v)
    BY <1>1, <1>4, <2>1, NoExitStays
  <2>2. CASE \E k \in 2 .. Len(cs) : TestsHold(cs[k], v)
    <3>1. PICK k \in 2 .. Len(cs) : TestsHold(cs[k], v)
      BY <2>2
    <3>2. CaseNextState(f, s, i) = cs[k].driver
      BY <1>1, <1>4, <3>1, OpenExitTaken
    <3>3. /\ t.default \in States(f) /\ \A x \in DOMAIN t.states : t.states[x] \in States(f)
          /\ m \in Nat /\ DOMAIN t.states = 1 .. m
      BY <1>1, TransitionsLeadToStates, TransitionShape
    <3>4. Fit(s, t, m, cs)
      BY <1>1, ConditionsShape
    <3> HIDE DEF t, cs, v, m
    <3>5. Len(cs) = m + 2
      BY <3>4 DEF Fit
    <3>6. CASE k = m + 2
      BY <3>2, <3>3, <3>4, <3>6 DEF Fit
    <3>7. CASE k # m + 2
      <4>1. k-1 \in 1 .. m /\ (k-1) + 1 = k
        BY <3>3, <3>5, <3>7
      <4>2. cs[k].driver = t.states[k-1]
        BY <3>4, <4>1 DEF Fit
      <4>3. QED  BY <3>2, <3>3, <4>1, <4>2
    <3>8. QED  BY <3>6, <3>7
  <2>3. QED  BY <2>1, <2>2
<1>5. QED  BY <1>2, <1>3, <1>4

-----------------------------------------------------------------------------
(***************************************************************************)
(* The FSM is always in one of its states.                                 *)
(***************************************************************************)
LEMMA TypeInit == Init => TypeOK
<1> SUFFICES ASSUME Init PROVE TypeOK
  OBVIOUS
<1>1. func \in Functions /\ in \in Input /\ cur_state = WaitState
  BY DEF Init
<1>2. cur_state \in States(func)
  BY <1>1, StatesArePlaces
<1>3. phi \in [Blocks(func) -> {Idle} \cup Blocks(func)]
  BY DEF Init
<1>4. QED  BY <1>1, <1>2, <1>3 DEF TypeOK

LEMMA TypeStep == TypeOK /\ [Next]_vars => TypeOK'
<1> SUFFICES ASSUME TypeOK, [Next]_vars PROVE TypeOK'
  OBVIOUS
<1>1. CASE UNCHANGED vars
  BY <1>1 DEF TypeOK, vars
<1>2. ASSUME NEW i \in Input, Tick(i) PROVE TypeOK'
  <2>1. func \in Functions /\ cur_state \in States(func) /\ cur_state \in Places(func)
    BY StatesArePlaces DEF TypeOK
  <2>2. func' = func /\ in' = i
    BY <1>2 DEF Tick
  <2>3. cur_state' = CaseNextState(func, cur_state, i)
    <3>1. CaseNextState(func, cur_state, i) = PlainNextState(func, cur_state, i)
      BY <2>1, FormsAgree
    <3>2. QED  BY <1>2, <3>1 DEF Tick
  <2>4. cur_state' \in States(func)
    BY <2>1, <2>3, StepsToState
  <2>5. phi' \in [Blocks(func) -> {Idle} \cup Blocks(func)]
    <3>1. EntryBlock \in Blocks(func)
      BY <2>1, FunctionAssumption DEF IsFunction, Blocks, EntryBlock
    <3>2. BasicBlock(cur_state) \in Blocks(func)
      BY <2>1, <3>1 DEF Places, BasicBlock
    <3>3. phi \in [Blocks(func) -> {Idle} \cup Blocks(func)]
      BY DEF TypeOK
    <3>4. QED  BY <1>2, <3>2, <3>3 DEF Tick
  <2>6. QED  BY <2>1, <2>2, <2>4, <2>5 DEF TypeOK
<1>3. QED  BY <1>1, <1>2 DEF Next

THEOREM TypeCorrect == Spec => []TypeOK
BY TypeInit, TypeStep, PTL DEF Spec

(***************************************************************************)
(* The case statement, which guesses the shape of a transition from the    *)
(* number of conditions and drops some of them, and the plain conditions   *)
(* lead to the same state, in every state an FSM reaches, for all inputs.  *)
(***************************************************************************)
THEOREM FormsAreEqual == Spec => []BothFormsAgree
<1>1. TypeOK => BothFormsAgree
  <2> SUFFICES ASSUME TypeOK, NEW i \in Input
               PROVE  CaseNextState(func, cur_state, i) = PlainNextState(func, cur_state, i)
    BY DEF BothFormsAgree
  <2>1. func \in Functions /\ cur_state \in Places(func)
    BY StatesArePlaces DEF TypeOK
  <2>2. QED  BY <2>1, FormsAgree
<1>2. QED  BY <1>1, TypeCorrect, PTL

-----------------------------------------------------------------------------
(***************************************************************************)
(* The variable of a transition with two exits is read as one bit, so what *)
(* follows is about functions without a switch of exactly one case.        *)
(***************************************************************************)
SwitchesHaveCases ==
  \A f \in Functions : \A b \in Blocks(f) :
    f.blocks[b].term.kind = "switch" => Len(f.blocks[b].term.cases) # 1

LEMMA StateIsWaitOrInBlock ==
  ASSUME NEW f \in Functions, NEW s \in States(f)
  PROVE  \/ s = WaitState
         \/ /\ s # WaitState /\ s[1] \in Blocks(f) /\ s[1] # Idle
            /\ s = <<s[1], s[2]>> /\ s[2] \in 0 .. LastState(f, s[1])
            /\ LastState(f, s[1]) \in Nat
<1> SUFFICES ASSUME s # WaitState
             PROVE  /\ s[1] \in Blocks(f) /\ s[1] # Idle
                    /\ s = <<s[1], s[2]>> /\ s[2] \in 0 .. LastState(f, s[1])
                    /\ LastState(f, s[1]) \in Nat
  OBVIOUS
<1>1. s[1] \in Blocks(f) /\ s = <<s[1], s[2]>> /\ s[2] \in 0 .. LastState(f, s[1])
  BY DEF States
<1>2. s[1] # Idle
  BY <1>1, BlockFacts DEF Idle
<1>3. LastState(f, s[1]) \in Nat
  BY <1>1, LastStateFacts
<1>4. QED  BY <1>1, <1>2, <1>3

(***************************************************************************)
(* An edge in the wait state, in a state within a block, and in its last.  *)
(***************************************************************************)
LEMMA WaitEdge ==
  ASSUME NEW f \in Functions, NEW i \in Input, ~i.reset, ~i.wait
  PROVE  LET empty == isEmptyFirstBB(f, EntryBlock)
             first == IF empty THEN f.blocks[EntryBlock].term.default ELSE EntryBlock
         IN  /\ CaseNextState(f, WaitState, i) =
                  IF i.start THEN FirstState(first) ELSE WaitState
             /\ PhiCopies(f, WaitState, i) = IF i.start /\ empty THEN {first} \ {Idle} ELSE {}
<1> DEFINE empty == isEmptyFirstBB(f, EntryBlock)
           first == IF empty THEN f.blocks[EntryBlock].term.default ELSE EntryBlock
           s  == WaitState
           cs == Conditions(f, s)
           t  == Transition(f, s)
           m  == Len(t.states)
           v  == TransitionOp(f, s, i)
<1>0. s \in Places(f)
  BY DEF Places
<1>1. Fit(s, t, m, cs) /\ Open(v, t, m, cs)
  BY <1>0, ConditionsShape, TestsAre
<1>2. t.states = <<FirstState(first)>> /\ t.default = WaitState /\ m = 1
  BY DEF Transition
<1>3. v = IF i.start THEN 1 ELSE 0
  BY DEF TransitionOp
<1>4. IsTerminating(f, s) = empty
  BY DEF IsTerminating
<1>5. /\ t.states[1] = FirstState(first)
      /\ FirstState(first)[1] = first /\ WaitState[1] = Idle
  BY <1>2 DEF FirstState, WaitState
<1>6. \A k \in 2 .. Len(cs) : TestsHold(cs[k], v) =>
        /\ CaseNextState(f, s, i) = cs[k].driver
        /\ PhiCopies(f, s, i) = IF empty THEN {cs[k].driver[1]} \ {Idle} ELSE {}
  BY <1>0, <1>4, ExitTaken
<1> HIDE DEF t, cs, m, v, first, empty
<1>7. /\ Len(cs) = 3 /\ cs[2].driver = FirstState(first) /\ cs[3].driver = WaitState
  <2>1. 1 \in 1 .. m /\ 1+1 = 2 /\ m+2 = 3
    BY <1>2
  <2>2. Len(cs) = m+2 /\ cs[1+1].driver = t.states[1] /\ cs[m+2].driver = t.default
    BY <1>1, <2>1 DEF Fit
  <2>3. QED  BY <1>2, <1>5, <2>1, <2>2
<1>8. (TestsHold(cs[2], v) <=> v = 1) /\ (TestsHold(cs[3], v) <=> v = 0)
  <2>1. 1 \in 1 .. m /\ 1+1 = 2 /\ m+2 = 3 /\ m = 1
    BY <1>2
  <2>2. TestsHold(cs[1+1], v) <=> v = (IF m = 1 THEN 1 ELSE t.values[1])
    BY <1>1, <2>1 DEF Open
  <2>3. TestsHold(cs[m+2], v) <=> v = 0
    BY <1>1, <2>1 DEF Open
  <2>4. QED  BY <2>1, <2>2, <2>3
<1>9. CASE i.start
  <2>1. 2 \in 2 .. Len(cs) /\ TestsHold(cs[2], v)
    BY <1>3, <1>7, <1>8, <1>9
  <2>2. QED  BY <1>5, <1>6, <1>7, <1>9, <2>1 DEF first, empty
<1>10. CASE ~i.start
  <2>1. 3 \in 2 .. Len(cs) /\ TestsHold(cs[3], v)
    BY <1>3, <1>7, <1>8, <1>10
  <2>2. /\ CaseNextState(f, s, i) = WaitState /\ PhiCopies(f, s, i) = {}
    BY <1>5, <1>6, <1>7, <2>1
  <2>3. QED  BY <1>10, <2>2
<1>11. QED  BY <1>9, <1>10

LEMMA InnerEdge ==
  ASSUME NEW f \in Functions, NEW s \in States(f), NEW i \in Input, ~i.reset, ~i.wait,
         s # WaitState, s[2] < LastState(f, s[1])
  PROVE  CaseNextState(f, s, i) = <<s[1], s[2] + 1>> /\ PhiCopies(f, s, i) = {}
<1> DEFINE cs == Conditions(f, s)
           t  == Transition(f, s)
           m  == Len(t.states)
           v  == TransitionOp(f, s, i)
<1>0. s \in Places(f)
  BY StatesArePlaces
<1>1. Fit(s, t, m, cs) /\ Open(v, t, m, cs)
  BY <1>0, ConditionsShape, TestsAre
<1>2. t.default = <<s[1], s[2] + 1>> /\ m = 0
  BY DEF Transition
<1>3. ~IsTerminating(f, s)
  BY StateIsWaitOrInBlock DEF IsTerminating
<1>4. \A k \in 2 .. Len(cs) : TestsHold(cs[k], v) =>
        CaseNextState(f, s, i) = cs[k].driver /\ PhiCopies(f, s, i) = {}
  BY <1>0, <1>3, ExitTaken
<1> HIDE DEF t, cs, m, v
<1>5. Len(cs) = m+2 /\ cs[m+2].driver = t.default /\ TestsHold(cs[m+2], v)
  BY <1>1, <1>2 DEF Fit, Open
<1>6. m+2 \in 2 .. Len(cs)
  BY <1>2, <1>5
<1>7. QED  BY <1>2, <1>4, <1>5, <1>6

LEMMA LastEdge ==
  ASSUME SwitchesHaveCases,
         NEW f \in Functions, NEW s \in States(f), NEW i \in Input, ~i.reset, ~i.wait,
         s # WaitState, s[2] = LastState(f, s[1])
  PROVE  LET d == Destination(f, s[1], i.value)
         IN  CaseNextState(f, s, i) = FirstState(d) /\ PhiCopies(f, s, i) = {d} \ {Idle}
<1> DEFINE cs == Conditions(f, s)
           t  == Transition(f, s)
           m  == Len(t.states)
           v  == TransitionOp(f, s, i)
           b  == s[1]
           u  == f.blocks[b].term
           d  == Destination(f, b, i.value)
           w  == Len(u.cases)
<1>0. s \in Places(f)
  BY StatesArePlaces
<1>1. Fit(s, t, m, cs) /\ Open(v, t, m, cs)
  BY <1>0, ConditionsShape, TestsAre
<1>2. /\ b \in Blocks(f) /\ t = setStateTransitions(f, b) /\ IsTerminating(f, s)
      /\ v = IF u.kind = "condbr" THEN i.value % 2 ELSE i.value
  <2>1. b \in Blocks(f) /\ ~(s[2] < LastState(f, s[1]))
    BY StateIsWaitOrInBlock
  <2>2. QED  BY <2>1 DEF Transition, IsTerminating, TransitionOp
<1>3. /\ u.kind \in {"ret", "br", "condbr", "switch"} /\ u.cases \in Seq(Case)
      /\ i.value \in Nat
  BY <1>2, BlockFacts, ValueAssumption DEF Input
<1>4. /\ u.kind = "condbr" => w = 1
      /\ u.kind \in {"ret", "br"} => u.cases = << >>
      /\ u.kind = "switch" => w # 1
      /\ w \in Nat /\ DOMAIN u.cases = 1 .. w
  <2>1. w \in Nat /\ DOMAIN u.cases = 1 .. w
    <3> HIDE DEF u
    <3>1. QED  BY <1>3
  <2>2. IsFunction(f) /\ b \in Blocks(f)
    BY <1>2, FunctionAssumption
  <2> HIDE DEF b
  <2>3. /\ u.kind = "condbr" => w = 1
        /\ u.kind \in {"ret", "br"} => u.cases = << >>
    BY <2>2 DEF IsFunction
  <2>4. u.kind = "switch" => w # 1
    BY <2>2 DEF SwitchesHaveCases
  <2>5. QED  BY <2>1, <2>3, <2>4
<1>5. \A k \in 2 .. Len(cs) :
        TestsHold(cs[k], v) /\ cs[k].driver = FirstState(d) =>
          CaseNextState(f, s, i) = FirstState(d) /\ PhiCopies(f, s, i) = {d} \ {Idle}
  <2> SUFFICES ASSUME NEW k \in 2 .. Len(cs),
                      TestsHold(cs[k], v), cs[k].driver = FirstState(d)
               PROVE  /\ CaseNextState(f, s, i) = FirstState(d)
                      /\ PhiCopies(f, s, i) = {d} \ {Idle}
    OBVIOUS
  <2>1. /\ CaseNextState(f, s, i) = cs[k].driver
        /\ PhiCopies(f, s, i) = {cs[k].driver[1]} \ {Idle}
    BY <1>0, <1>2, ExitTaken
  <2>2. cs[k].driver[1] = d
    BY DEF FirstState
  <2>3. QED  BY <2>1, <2>2
<1>6. d = CASE u.kind = "ret"    -> Idle
            [] u.kind = "br"     -> u.default
            [] u.kind = "condbr" -> IF i.value % 2 = 1 THEN u.cases[1].dest ELSE u.default
            [] u.kind = "switch" ->
                 IF {k \in DOMAIN u.cases : u.cases[k].value = i.value} = {} THEN u.default
                 ELSE u.cases[CHOOSE k \in {x \in DOMAIN u.cases : u.cases[x].value = i.value} :
                                TRUE].dest
  BY DEF Destination
<1>7. u.kind = "ret" => t.default = FirstState(Idle) /\ t.states = << >>
  <2> HIDE DEF u, b, t
  <2>1. QED  BY <1>2 DEF setStateTransitions, FirstState, WaitState, u
<1>8. u.kind # "ret" =>
        /\ t.default = FirstState(u.default)
        /\ t.states = [k \in DOMAIN u.cases |-> FirstState(u.cases[k].dest)]
        /\ t.values = [k \in DOMAIN u.cases |->
                         IF u.kind = "switch" THEN u.cases[k].value ELSE 0]
  <2> HIDE DEF b, t
  <2>1. QED  BY <1>2 DEF setStateTransitions
<1> HIDE DEF t, cs, v, b, u, d
<1>9. m = w
  <2>1. CASE u.kind = "ret"
    <3>1. m = 0 /\ w = 0
      BY <1>4, <1>7, <2>1
    <3>2. QED  BY <3>1
  <2>2. CASE u.kind # "ret"
    <3> HIDE DEF w
    <3>1. t.states \in Seq({FirstState(u.cases[k].dest) : k \in 1 .. w}) /\ Len(t.states) = w
      BY <1>4, <1>8, <2>2
    <3>2. QED  BY <3>1
  <2>3. QED  BY <2>1, <2>2
<1> HIDE DEF m, w
<1>10. Len(cs) = m+2 /\ m \in Nat /\ m+2 \in 2 .. Len(cs) /\ cs[m+2].driver = t.default
  BY <1>1, <1>4, <1>9 DEF Fit
<1>11. CASE m = 0
  <2>1. TestsHold(cs[m+2], v)
    BY <1>1, <1>11 DEF Open
  <2>2. t.default = FirstState(d)
    <3>1. u.kind # "condbr"
      BY <1>4, <1>9, <1>11
    <3>2. DOMAIN u.cases = {}
      BY <1>4, <1>9, <1>11
    <3>3. {k \in DOMAIN u.cases : u.cases[k].value = i.value} = {}
      BY <3>2
    <3>4. QED  BY <1>3, <1>6, <1>7, <1>8, <3>1, <3>3
  <2>3. QED  BY <1>5, <1>10, <2>1, <2>2 DEF d, b
<1>12. CASE m = 1
  <2>1. u.kind = "condbr"
    BY <1>3, <1>4, <1>9, <1>12
  <2>2. /\ TestsHold(cs[2], v) <=> v = 1
        /\ TestsHold(cs[3], v) <=> v = 0
        /\ cs[2].driver = t.states[1] /\ cs[3].driver = t.default
        /\ 2 \in 2 .. Len(cs) /\ 3 \in 2 .. Len(cs)
    <3>1. 1 \in 1 .. m /\ 1+1 = 2 /\ m+2 = 3 /\ m = 1
      BY <1>12
    <3>2. TestsHold(cs[1+1], v) <=> v = (IF m = 1 THEN 1 ELSE t.values[1])
      BY <1>1, <3>1 DEF Open
    <3>3. TestsHold(cs[m+2], v) <=> v = 0
      BY <1>1, <3>1 DEF Open
    <3>4. cs[1+1].driver = t.states[1]
      BY <1>1, <3>1 DEF Fit
    <3>5. QED  BY <1>10, <3>1, <3>2, <3>3, <3>4
  <2>3. t.states[1] = FirstState(u.cases[1].dest) /\ t.default = FirstState(u.default)
    <3>1. 1 \in DOMAIN u.cases
      BY <1>4, <1>9, <1>12
    <3>2. QED  BY <1>8, <2>1, <3>1
  <2>4. v = i.value % 2 /\ v \in {0, 1}
    BY <1>2, <1>3, <2>1 DEF u, b
  <2>5. d = IF v = 1 THEN u.cases[1].dest ELSE u.default
    BY <1>6, <2>1, <2>4
  <2>6. CASE v = 1
    BY <1>5, <2>2, <2>3, <2>5, <2>6 DEF d, b
  <2>7. CASE v = 0
    BY <1>5, <2>2, <2>3, <2>5, <2>7 DEF d, b
  <2>8. QED  BY <2>4, <2>6, <2>7
<1>13. CASE m \notin {0, 1}
  <2>1. u.kind = "switch"
    <3>1. u.kind \in {"ret", "br"} => w = 0
      BY <1>4 DEF w
    <3>2. QED  BY <1>3, <1>4, <1>9, <1>13, <3>1
  <2>2. v = i.value
    BY <1>2, <2>1 DEF u, b
  <2> DEFINE hit == {k \in DOMAIN u.cases : u.cases[k].value = i.value}
             x   == CHOOSE k \in hit : TRUE
  <2>3. d = IF hit = {} THEN u.default ELSE u.cases[x].dest
    BY <1>6, <2>1
  <2>4. \A k \in 1 .. m : t.values[k] = u.cases[k].value
                         /\ t.states[k] = FirstState(u.cases[k].dest)
    BY <1>4, <1>8, <1>9, <2>1
  <2>5. CASE hit = {}
    <3>1. \A k \in 1 .. m : v # t.values[k]
      BY <1>4, <1>9, <2>2, <2>4, <2>5
    <3>2. TestsHold(cs[m+2], v)
      BY <1>1, <1>13, <3>1 DEF Open
    <3>3. t.default = FirstState(d)
      BY <1>8, <2>1, <2>3, <2>5
    <3>4. QED  BY <1>5, <1>10, <3>2, <3>3 DEF d, b
  <2>6. CASE hit # {}
    <3>1. x \in hit
      BY <2>6
    <3> HIDE DEF x
    <3>2. x \in 1 .. m /\ u.cases[x].value = i.value
      BY <1>4, <1>9, <3>1
    <3>3. v = t.values[x] /\ t.states[x] = FirstState(d)
      BY <2>2, <2>3, <2>4, <2>6, <3>2
    <3>4. TestsHold(cs[x+1], v)
      BY <1>1, <1>13, <3>2, <3>3 DEF Open
    <3>5. cs[x+1].driver = FirstState(d)
      BY <1>1, <3>2, <3>3 DEF Fit
    <3>6. x+1 \in 2 .. Len(cs)
      BY <1>10, <3>2
    <3>7. QED  BY <1>5, <3>4, <3>5, <3>6 DEF d, b
  <2>7. QED  BY <2>5, <2>6
<1>14. QED  BY <1>11, <1>12, <1>13

-----------------------------------------------------------------------------
(***************************************************************************)
(* The definitions that ControlFlow shares with FsmControl.                *)
(***************************************************************************)
LEMMA SameIR ==
  ASSUME NEW f, NEW b, NEW v
  PROVE  /\ Flow!Destination(f, b, v) = Destination(f, b, v)
         /\ Flow!HasNoInstructions(f, b) = HasNoInstructions(f, b)
         /\ Flow!Blocks(f) = Blocks(f) /\ Flow!Idle = Idle /\ Flow!EntryBlock = EntryBlock
BY DEF Flow!Destination, Destination, Flow!HasNoInstructions, HasNoInstructions,
       Flow!Blocks, Blocks, Flow!Idle, Idle, Flow!EntryBlock, EntryBlock

LEMMA InitImplements == Init => Flow!Init
BY SameIR DEF Init, Flow!Init, WaitState

(***************************************************************************)
(* The phis of a block take the values of the block control comes from.    *)
(***************************************************************************)
LEMMA CopiesAsEntered ==
  ASSUME NEW f \in Functions, NEW from, NEW d,
         NEW p \in [Blocks(f) -> {Idle} \cup Blocks(f)],
         d = Idle \/ d \in Blocks(f)
  PROVE  [b \in Blocks(f) |-> IF b \in {d} \ {Idle} THEN from ELSE p[b]] =
           IF d = Idle THEN p ELSE [p EXCEPT ![d] = from]
OBVIOUS

LEMMA EdgeImplements ==
  ASSUME SwitchesHaveCases, TypeOK, NEW i \in Input, Tick(i)
  PROVE  Flow!Next
<1> DEFINE s == cur_state
<1>1. /\ func \in Functions /\ s \in States(func) /\ s \in Places(func)
      /\ phi \in [Blocks(func) -> {Idle} \cup Blocks(func)]
  BY StatesArePlaces DEF TypeOK
<1>2. in' = i /\ UNCHANGED func
  BY DEF Tick
<1>3. cur_state' = CaseNextState(func, s, i)
  <2>1. CaseNextState(func, s, i) = PlainNextState(func, s, i)
    BY <1>1, FormsAgree
  <2>2. QED  BY <2>1 DEF Tick
<1>4. phi' = [b \in Blocks(func) |->
                IF b \in PhiCopies(func, s, i) THEN BasicBlock(s) ELSE phi[b]]
  BY DEF Tick
<1>5. PhiCopies(func, s, i) = {} => phi' = phi
  <2> SUFFICES ASSUME PhiCopies(func, s, i) = {} PROVE phi' = phi
    OBVIOUS
  <2>1. phi' = [b \in Blocks(func) |-> phi[b]]
    BY <1>4
  <2>2. QED  BY <1>1, <2>1
<1>6. EntryBlock \in Blocks(func)
  BY <1>1, FunctionAssumption DEF IsFunction, Blocks, EntryBlock
<1>7. CASE i.reset
  <2>1. cur_state' = WaitState
    BY <1>3, <1>7 DEF CaseNextState
  <2>2. BasicBlock(s) \in Blocks(func)
    BY <1>1, <1>6 DEF Places, BasicBlock
  <2>3. phi' \in [Blocks(func) -> {Idle} \cup Blocks(func)]
    BY <1>1, <1>4, <2>2
  <2>4. Flow!Reset
    BY <2>1, <2>3, SameIR DEF Flow!Reset, WaitState
  <2>5. QED  BY <1>2, <1>7, <2>4 DEF Flow!Next
<1>8. CASE ~i.reset /\ i.wait
  <2>1. cur_state' = cur_state
    BY <1>1, <1>3, <1>8, StalledStays
  <2>2. phi' = phi
    BY <1>1, <1>5, <1>8, StalledCopiesNothing
  <2>3. QED  BY <1>2, <1>8, <2>1, <2>2 DEF Flow!Next
<1>9. CASE ~i.reset /\ ~i.wait
  <2>1. Flow!Begin \/ Flow!Work \/ Flow!Leave \/ Flow!Rest
    <3>1. CASE s = WaitState /\ ~i.start
      <4>1. cur_state' = WaitState /\ PhiCopies(func, s, i) = {}
        BY <1>1, <1>3, <1>9, <3>1, WaitEdge
      <4>2. Flow!Rest
        BY <1>2, <1>5, <3>1, <4>1, SameIR DEF Flow!Rest, WaitState
      <4>3. QED  BY <4>2
    <3>2. CASE s = WaitState /\ i.start /\ isEmptyFirstBB(func, EntryBlock)
      <4> DEFINE d == func.blocks[EntryBlock].term.default
      <4>1. HasNoInstructions(func, EntryBlock) /\ func.blocks[EntryBlock].term.kind = "br"
        BY <3>2 DEF isEmptyFirstBB, HasNoInstructions
      <4>2. d \in Blocks(func) /\ d # Idle
        BY <1>1, <1>6, <4>1, BlockFacts DEF Destinations, Idle
      <4>3. Destination(func, EntryBlock, 0) = d
        BY <4>1 DEF Destination
      <4>4. cur_state' = FirstState(d) /\ PhiCopies(func, s, i) = {d} \ {Idle}
        BY <1>1, <1>3, <1>9, <3>2, WaitEdge
      <4>5. BasicBlock(s) = EntryBlock
        BY <3>2 DEF BasicBlock
      <4> HIDE DEF d
      <4>6. phi' = IF d = Idle THEN phi ELSE [phi EXCEPT ![d] = EntryBlock]
        BY <1>1, <1>4, <4>2, <4>4, <4>5, CopiesAsEntered
      <4>7. Flow!Enter(d, EntryBlock)
        BY <4>4, <4>6, SameIR DEF Flow!Enter, FirstState
      <4>8. Flow!Begin
        BY <1>2, <3>2, <4>1, <4>3, <4>7, SameIR DEF Flow!Begin, WaitState
      <4>9. QED  BY <4>8
    <3>3. CASE s = WaitState /\ i.start /\ ~isEmptyFirstBB(func, EntryBlock)
      <4>1. cur_state' = FirstState(EntryBlock) /\ PhiCopies(func, s, i) = {}
        BY <1>1, <1>3, <1>9, <3>3, WaitEdge
      <4>2. ~HasNoInstructions(func, EntryBlock)
        BY <3>3 DEF isEmptyFirstBB
      <4>3. Flow!Begin
        BY <1>2, <1>5, <3>3, <4>1, <4>2, SameIR DEF Flow!Begin, WaitState, FirstState
      <4>4. QED  BY <4>3
    <3>4. CASE s # WaitState
      <4>1. /\ s[1] \in Blocks(func) /\ s[1] # Idle
            /\ s[2] \in 0 .. LastState(func, s[1]) /\ LastState(func, s[1]) \in Nat
        BY <1>1, <3>4, StateIsWaitOrInBlock
      <4>2. CASE s[2] < LastState(func, s[1])
        <5>1. cur_state' = <<s[1], s[2] + 1>> /\ PhiCopies(func, s, i) = {}
          BY <1>1, <1>3, <1>9, <3>4, <4>2, InnerEdge
        <5>2. Flow!Work
          BY <1>5, <4>1, <5>1, SameIR DEF Flow!Work
        <5>3. QED  BY <5>2
      <4>3. CASE ~(s[2] < LastState(func, s[1]))
        <5> DEFINE d == Destination(func, s[1], i.value)
        <5>1. s[2] = LastState(func, s[1])
          BY <4>1, <4>3
        <5>2. cur_state' = FirstState(d) /\ PhiCopies(func, s, i) = {d} \ {Idle}
          BY <1>1, <1>3, <1>9, <3>4, <5>1, LastEdge
        <5>3. d = Idle \/ d \in Blocks(func)
          <6>1. cur_state' \in States(func)
            BY <1>1, <1>3, StepsToState
          <6>2. FirstState(d) = WaitState \/ FirstState(d)[1] \in Blocks(func)
            BY <1>1, <5>2, <6>1, StateIsWaitOrInBlock
          <6> HIDE DEF d
          <6>3. QED  BY <6>2 DEF FirstState, WaitState
        <5>4. BasicBlock(s) = s[1]
          BY <3>4 DEF BasicBlock
        <5>5. \A x \in func.blocks[s[1]].insts : x.order + x.latency <= s[2]
          BY <1>1, <4>1, <5>1, LastStateFacts
        <5> HIDE DEF d
        <5>6. phi' = IF d = Idle THEN phi ELSE [phi EXCEPT ![d] = s[1]]
          BY <1>1, <1>4, <5>2, <5>3, <5>4, CopiesAsEntered
        <5>7. Flow!Enter(d, s[1])
          BY <5>2, <5>6, SameIR DEF Flow!Enter, FirstState
        <5>8. Flow!Leave
          BY <1>2, <4>1, <5>5, <5>7, SameIR DEF Flow!Leave, d
        <5>9. QED  BY <5>8
      <4>4. QED  BY <4>2, <4>3
    <3>5. QED  BY <3>1, <3>2, <3>3, <3>4
  <2>2. QED  BY <1>2, <1>9, <2>1 DEF Flow!Next
<1>10. QED  BY <1>7, <1>8, <1>9

(***************************************************************************)
(* The FSM walks the control-flow graph, one block after the other, stays  *)
(* in a block until every instruction of it has finished, and loads the    *)
(* phis along the edge it takes.                                           *)
(***************************************************************************)
THEOREM WalksControlFlow ==
  ASSUME SwitchesHaveCases
  PROVE  Spec => ImplementsControlFlow
<1>1. TypeOK /\ [Next]_vars => [Flow!Next]_(Flow!flowVars)
  <2> SUFFICES ASSUME TypeOK, [Next]_vars PROVE [Flow!Next]_(Flow!flowVars)
    OBVIOUS
  <2>1. CASE UNCHANGED vars
    BY <2>1 DEF vars, Flow!flowVars
  <2>2. ASSUME NEW i \in Input, Tick(i) PROVE Flow!Next
    BY <2>2, EdgeImplements
  <2>3. QED  BY <2>1, <2>2 DEF Next
<1>2. QED  BY <1>1, InitImplements, TypeCorrect, PTL DEF Spec, ImplementsControlFlow, Flow!Spec

=============================================================================
