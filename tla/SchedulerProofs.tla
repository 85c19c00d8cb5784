-------------------------- MODULE SchedulerProofs --------------------------
(***************************************************************************)
(* Theorems about Scheduler, for lists of nodes of any length.  The loop   *)
(* of selectNode is a recursive function, so they need induction over the  *)
(* turns.  The induction theorems of the library take an operator; but the *)
(* order of the subsets of a finite set is well founded by a theorem that  *)
(* takes none, and induction in the form of sets follows from it.          *)
(***************************************************************************)
EXTENDS Scheduler, FiniteSetTheorems, TLAPS

-----------------------------------------------------------------------------
(* Induction, for sets instead of predicates *)

(* Among finite sets there is always a smallest one. *)
LEMMA SmallestSet ==
  ASSUME NEW C, C # {}, \A S \in C : IsFiniteSet(S)
  PROVE  \E S \in C : \A R \in C : R \subseteq S => R = S
<1> DEFINE U == UNION C
<1>1. IsWellFoundedOn(StrictSubsetOrdering(U), FiniteSubsetsOf(U))
  BY FS_StrictSubsetOrderingWellFounded
<1>2. C \subseteq FiniteSubsetsOf(U) BY DEF FiniteSubsetsOf
<1>3. \E S \in C : \A R \in C : ~ (<<R, S>> \in StrictSubsetOrdering(U))
  <2> HIDE DEF U
  <2> QED BY <1>1, <1>2, WFMin
<1>4. \A S \in C, R \in C : R \subseteq S /\ R # S => <<R, S>> \in StrictSubsetOrdering(U)
  BY <1>2 DEF StrictSubsetOrdering, FiniteSubsetsOf
<1> QED BY <1>3, <1>4

(* The segments 1 .. m are ordered by inclusion as the numbers m are. *)
LEMMA SmallestNat ==
  ASSUME NEW S \in SUBSET Nat, S # {}
  PROVE  \E m \in S : \A k \in S : m <= k
<1> DEFINE C == {1 .. m : m \in S}
<1>1. \A I \in C : IsFiniteSet(I) BY FS_Interval
<1>2. C # {} OBVIOUS
<1>3. PICK I \in C : \A J \in C : J \subseteq I => J = I
  <2> HIDE DEF C
  <2> QED BY <1>1, <1>2, SmallestSet
<1>4. PICK m \in S : I = 1 .. m BY <1>3
<1>5. ASSUME NEW k \in S, k < m PROVE FALSE
  <2>1. 1 .. k \in C /\ 1 .. k \subseteq 1 .. m BY <1>5
  <2>2. 1 .. k = 1 .. m BY <1>3, <1>4, <2>1
  <2>3. m \in 1 .. m /\ ~ (m \in 1 .. k) BY <1>5
  <2> QED BY <2>2, <2>3
<1> QED BY <1>5

(* A set with 0, and with n + 1 whenever with n, has every natural number. *)
LEMMA NatInductionSet ==
  ASSUME NEW S, 0 \in S, \A n \in Nat : n \in S => n + 1 \in S
  PROVE  Nat \subseteq S
<1> SUFFICES ASSUME Nat \ S # {} PROVE FALSE OBVIOUS
<1>1. PICK m \in Nat \ S : \A k \in Nat \ S : m <= k BY SmallestNat
<1>2. m # 0 /\ m - 1 \in Nat OBVIOUS
<1>3. m - 1 \in S BY <1>1, <1>2
<1> QED BY <1>1, <1>2, <1>3

-----------------------------------------------------------------------------
(* The loop of selectNode *)

(* Rows as the query returns them; the weights are integers as in Score. *)
Metric == [cpuCores : Int, ramMb : Int, performanceScore : Int, currentLoad : Int,
           throughputHistory : Int, failureRate : Int, avgLatencyMs : Int]

LEMMA ScoreIsInt == ASSUME NEW m \in Metric PROVE Score(m) \in Int
BY DEF Metric, Score

(* What the i-th turn of the loop makes of bestNode = b. *)
Turn(rows, b, i) == IF b = 0 \/ Score(rows[i]) > Score(rows[b]) THEN i ELSE b

(* g[i] is bestNode after i turns, for the first k rows. *)
Scan(rows, k, g) ==
  g = [i \in 0 .. k |-> IF i = 0 THEN 0 ELSE Turn(rows, g[i-1], i)]

(* The recursive definition has a solution, whatever the rows are. *)
LEMMA ScanExists == ASSUME NEW rows, NEW n \in Nat PROVE \E g : Scan(rows, n, g)
<1> DEFINE S == {k \in Nat : \E g : Scan(rows, k, g)}
<1>1. 0 \in S
  <2> DEFINE g == [i \in 0 .. 0 |-> 0]
  <2>1. g = [i \in 0 .. 0 |-> IF i = 0 THEN 0 ELSE Turn(rows, g[i-1], i)] OBVIOUS
  <2> QED BY <2>1 DEF Scan
<1>2. ASSUME NEW k \in Nat, k \in S PROVE k + 1 \in S
  <2>1. PICK g : Scan(rows, k, g) BY <1>2
  <2> DEFINE h == [i \in 0 .. (k + 1) |-> IF i = k + 1 THEN Turn(rows, g[k], k + 1) ELSE g[i]]
  <2>2. ASSUME NEW i \in 0 .. (k + 1) PROVE h[i] = IF i = 0 THEN 0 ELSE Turn(rows, h[i-1], i)
    <3>1. CASE i = k + 1
      <4>1. h[i-1] = g[k] BY <3>1
      <4> QED BY <3>1, <4>1
    <3>2. CASE i = 0 BY <3>2, <2>1 DEF Scan
    <3>3. CASE i \in 1 .. k
      <4>1. h[i-1] = g[i-1] /\ h[i] = g[i] BY <3>3
      <4>2. i \in 0 .. k /\ i # 0 BY <3>3
      <4>3. g[i] = Turn(rows, g[i-1], i) BY <2>1, <4>2 DEF Scan
      <4> QED BY <4>1, <4>2, <4>3
    <3> QED BY <3>1, <3>2, <3>3
  <2>3. h = [i \in 0 .. (k + 1) |-> IF i = 0 THEN 0 ELSE Turn(rows, h[i-1], i)]
    <3> HIDE DEF h
    <3>1. \A i \in 0 .. (k + 1) : h[i] = IF i = 0 THEN 0 ELSE Turn(rows, h[i-1], i) BY <2>2
    <3>2. h = [i \in 0 .. (k + 1) |-> h[i]] BY DEF h
    <3> QED BY <3>1, <3>2
  <2>4. Scan(rows, k + 1, h) BY <2>3 DEF Scan
  <2> HIDE DEF h
  <2> QED BY <2>4
<1>3. Nat \subseteq S
  <2> HIDE DEF S
  <2> QED BY <1>1, <1>2, NatInductionSet
<1> QED BY <1>3

(* So SelectNode is the last value of one. *)
LEMMA SelectNodeScans ==
  ASSUME NEW rows, Len(rows) \in Nat
  PROVE  \E g : Scan(rows, Len(rows), g) /\ SelectNode(rows) = g[Len(rows)]
<1> DEFINE n == Len(rows)
<1> DEFINE best == CHOOSE g : g = [i \in 0 .. n |->
        IF i = 0 THEN 0
        ELSE IF g[i-1] = 0 \/ Score(rows[i]) > Score(rows[g[i-1]]) THEN i
        ELSE g[i-1]]
<1>1. \E g : Scan(rows, n, g) BY ScanExists
<1>2. Scan(rows, n, best) BY <1>1 DEF Scan, Turn
<1>3. SelectNode(rows) = best[n] BY DEF SelectNode
<1> QED BY <1>2, <1>3

(* b is the first of the rows with the highest score; 0 if there is no row. *)
FirstBest(rows, k, b) ==
  IF k = 0 THEN b = 0
  ELSE /\ b \in 1 .. k
       /\ \A i \in 1 .. k : Score(rows[i]) <= Score(rows[b])
       /\ \A i \in 1 .. (b - 1) : Score(rows[i]) < Score(rows[b])

(* selectNode returns the first node with the highest score, and nullptr for *)
(* an empty list only.                                                       *)
THEOREM SelectNodeIsFirstBest ==
  ASSUME NEW rows \in Seq(Metric)
  PROVE  FirstBest(rows, Len(rows), SelectNode(rows))
<1> DEFINE n == Len(rows)
<1>0. n \in Nat /\ \A i \in 1 .. n : Score(rows[i]) \in Int BY ScoreIsInt
<1>1. PICK g : Scan(rows, n, g) /\ SelectNode(rows) = g[n] BY <1>0, SelectNodeScans
<1> DEFINE S == {k \in Nat : k <= n => FirstBest(rows, k, g[k])}
<1>2. 0 \in S
  <2>1. g[0] = 0 BY <1>0, <1>1 DEF Scan
  <2> QED BY <2>1 DEF FirstBest
<1>3. ASSUME NEW k \in Nat, k \in S PROVE k + 1 \in S
  <2>1. SUFFICES ASSUME k + 1 <= n PROVE FirstBest(rows, k + 1, g[k + 1]) OBVIOUS
  <2>2. FirstBest(rows, k, g[k]) BY <1>0, <1>3, <2>1
  <2>3. g[k + 1] = Turn(rows, g[k], k + 1)
    <3>1. k + 1 \in 0 .. n /\ k + 1 # 0 /\ (k + 1) - 1 = k BY <2>1, <1>0
    <3> HIDE DEF n
    <3> QED BY <3>1, <1>1 DEF Scan
  <2>4. k + 1 \in 1 .. n BY <2>1, <1>0
  <2>5. \A i \in 1 .. k : i \in 1 .. n BY <2>1, <1>0
  <2> DEFINE b == g[k]
  <2>6. CASE k = 0
    <3>1. g[1] = 1 BY <2>2, <2>3, <2>6 DEF FirstBest, Turn
    <3> QED BY <3>1, <2>6, <2>4, <1>0 DEF FirstBest
  <2>7. CASE k # 0
    <3>1. b \in 1 .. k /\ b # 0 BY <2>2, <2>7 DEF FirstBest
    <3>2. \A i \in 1 .. k : Score(rows[i]) <= Score(rows[b]) BY <2>2, <2>7 DEF FirstBest
    <3>3. \A i \in 1 .. (b - 1) : Score(rows[i]) < Score(rows[b]) BY <2>2, <2>7 DEF FirstBest
    <3> DEFINE s == Score(rows[k + 1])
    <3>4. s \in Int /\ Score(rows[b]) \in Int /\ \A i \in 1 .. k : Score(rows[i]) \in Int
      BY <1>0, <2>4, <2>5, <3>1
    <3>5. \A i \in 1 .. (k + 1) : i \in 1 .. k \/ i = k + 1 OBVIOUS
    <3>6. CASE s > Score(rows[b])
      <4>1. g[k + 1] = k + 1 BY <2>3, <3>6 DEF Turn
      <4>2. \A i \in 1 .. k : Score(rows[i]) < s BY <3>2, <3>4, <3>6
      <4>3. (k + 1) - 1 = k /\ k + 1 # 0 /\ k + 1 \in 1 .. (k + 1) OBVIOUS
      <4>4. s <= s BY <3>4
      <4>5. \A i \in 1 .. (k + 1) : Score(rows[i]) <= s BY <3>5, <4>2, <4>4, <3>4
      <4> HIDE DEF s
      <4>6. Score(rows[k + 1]) = s BY DEF s
      <4> QED BY <4>1, <4>2, <4>3, <4>5, <4>6 DEF FirstBest
    <3>7. CASE ~ (s > Score(rows[b]))
      <4>1. g[k + 1] = b BY <2>3, <3>1, <3>7 DEF Turn
      <4>2. s <= Score(rows[b]) BY <3>4, <3>7
      <4>3. \A i \in 1 .. (k + 1) : Score(rows[i]) <= Score(rows[b]) BY <3>2, <3>5, <4>2
      <4>4. b \in 1 .. (k + 1) /\ k + 1 # 0 BY <3>1
      <4> QED BY <4>1, <4>3, <4>4, <3>3 DEF FirstBest
    <3> QED BY <3>6, <3>7
  <2> QED BY <2>6, <2>7
<1>4. Nat \subseteq S
  <2> HIDE DEF S
  <2> QED BY <1>2, <1>3, NatInductionSet
<1>5. n \in S /\ n <= n BY <1>0, <1>4
<1> QED BY <1>1, <1>5
=============================================================================
