---------------------------- MODULE IntervalProofs ----------------------------
(***************************************************************************)
(* Lemmas about finite sets of numbers and intervals: an element with the  *)
(* largest key exists, what holds from 0 on by steps holds up to any       *)
(* bound, and a function defined by such steps exists.                     *)
(***************************************************************************)
EXTENDS Integers, FiniteSets, FiniteSetsExt, FiniteSetTheorems, FunctionTheorems,
        WellFoundedInduction, TLAPS

-------------------------------------------------------------------------------
(* Maxima                                                                    *)

(* A finite set has an element with the largest key: the newest segment and  *)
(* the largest seq that LogStore chooses exist.                              *)
LEMMA LargestKeyExists ==
  ASSUME NEW S, S # {}, IsFiniteSet(S), NEW key \in [S -> Int]
  PROVE  \E m \in S : \A x \in S : key[x] <= key[m]
<1> DEFINE Above(x) == {y \in S : key[y] > key[x]}
           F == {Above(x) : x \in S}
<1>1. F \subseteq FiniteSubsetsOf(S)
  <2>1. \A x \in S : IsFiniteSet(Above(x)) /\ Above(x) \subseteq S
    BY FS_Subset
  <2> QED BY <2>1 DEF FiniteSubsetsOf
<1>2. F # {}
  <2>1. PICK x \in S : TRUE
    OBVIOUS
  <2>2. Above(x) \in F
    OBVIOUS
  <2> QED BY <2>2
<1>3. PICK U \in F : \A V \in F : <<V, U>> \notin StrictSubsetOrdering(S)
  BY <1>1, <1>2, WFMin, FS_StrictSubsetOrderingWellFounded, Zenon
<1>4. PICK m \in S : U = Above(m)
  OBVIOUS
<1>5. ASSUME NEW x \in S, key[x] > key[m] PROVE FALSE
  <2>1. Above(x) \subseteq Above(m)
    BY <1>5
  <2>2. x \in Above(m) /\ x \notin Above(x)
    BY <1>5
  <2>3. <<Above(x), Above(m)>> \in StrictSubsetOrdering(S)
    BY <2>1, <2>2 DEF StrictSubsetOrdering
  <2> QED BY <2>3, <1>3, <1>4
<1> QED
  BY <1>5

(* Max returns the largest element of a finite nonempty set of integers.     *)
LEMMA MaxOfFinite ==
  ASSUME NEW S \in SUBSET Int, S # {}, IsFiniteSet(S)
  PROVE  Max(S) \in S /\ \A x \in S : x <= Max(S)
<1> DEFINE key == [x \in S |-> x]
<1>1. key \in [S -> Int]
  OBVIOUS
<1> HIDE DEF key
<1>2. \E m \in S : \A x \in S : key[x] <= key[m]
  BY <1>1, LargestKeyExists
<1>3. \E m \in S : \A x \in S : m >= x
  BY <1>2 DEF key
<1> QED
  BY <1>3 DEF Max

LEMMA MaxOfTwo ==
  ASSUME NEW a \in Int, NEW b \in Int
  PROVE  Max({a, b}) \in {a, b} /\ Max({a, b}) >= a /\ Max({a, b}) >= b
<1>1. \E m \in {a, b} : \A x \in {a, b} : m >= x
  OBVIOUS
<1> QED
  BY <1>1 DEF Max

-------------------------------------------------------------------------------
(* Steps from 0 to n                                                         *)

(* What holds from 0 on, up to n, by steps.                                  *)
LEMMA IntervalInduction ==
  ASSUME NEW n \in Nat, NEW S, 0 \in S, \A i \in 0..n : i < n /\ i \in S => i + 1 \in S
  PROVE  \A i \in 0..n : i \in S
<1> SUFFICES ASSUME NEW j \in 0..n, j \notin S PROVE FALSE
  OBVIOUS
<1> DEFINE Out == {i \in 0..n : i \notin S}
           key == [i \in Out |-> 0 - i]
<1>1. Out # {} /\ IsFiniteSet(Out)
  <2>1. IsFiniteSet(0..n)
    BY FS_Interval
  <2>2. Out \subseteq 0..n
    OBVIOUS
  <2>3. IsFiniteSet(Out)
    BY <2>1, <2>2, FS_Subset
  <2> QED BY <2>3
<1>2. key \in [Out -> Int]
  OBVIOUS
<1>3. \A i \in Out : key[i] = 0 - i
  OBVIOUS
<1> HIDE DEF key
<1>4. PICK m \in Out : \A i \in Out : key[i] <= key[m]
  BY <1>1, <1>2, LargestKeyExists
<1>5. m \in 0..n /\ m \notin S /\ m # 0
  OBVIOUS
<1>6. m - 1 \in 0..n /\ m - 1 < n /\ (m - 1) + 1 = m
  BY <1>5
<1>7. m - 1 \notin S
  BY <1>5, <1>6
<1>8. m - 1 \in Out
  BY <1>6, <1>7
<1> QED
  BY <1>3, <1>4, <1>5, <1>8

(* f takes n steps from b.                                                   *)
Iterates(f, n, b, step) == \A i \in 0..n : f[i] = IF i = 0 THEN b ELSE step[f[i - 1]]

(* A function whose value at i comes from its value at i - 1.                *)
LEMMA IterateExists ==
  ASSUME NEW n \in Nat, NEW b, NEW S, b \in S, NEW step \in [S -> S]
  PROVE  \E f \in [0..n -> S] : Iterates(f, n, b, step)
<1> DEFINE Run(f, m) == f \in [0..m -> S] /\ \A i \in 0..m : f[i] = IF i = 0 THEN b ELSE step[f[i - 1]]
           T == {m \in 0..n : \E f : Run(f, m)}
<1>1. 0 \in T
  <2> DEFINE f == [i \in 0..0 |-> b]
  <2>1. Run(f, 0)
    OBVIOUS
  <2> HIDE DEF f
  <2> QED BY <2>1
<1>2. ASSUME NEW m \in 0..n, m < n, m \in T PROVE m + 1 \in T
  <2>1. PICK f : Run(f, m)
    BY <1>2
  <2> DEFINE g == [i \in 0..m + 1 |-> IF i = m + 1 THEN step[f[m]] ELSE f[i]]
  <2>2. f[m] \in S /\ step[f[m]] \in S
    BY <2>1
  <2>3. g \in [0..m + 1 -> S] /\ g[m + 1] = step[f[m]] /\ \A i \in 0..m : g[i] = f[i]
    BY <2>1, <2>2
  <2> HIDE DEF g
  <2>4. ASSUME NEW i \in 0..m + 1 PROVE g[i] = IF i = 0 THEN b ELSE step[g[i - 1]]
    <3>1. CASE i = m + 1
      <4>1. i # 0 /\ i - 1 = m /\ m \in 0..m
        BY <3>1
      <4> QED BY <2>3, <3>1, <4>1
    <3>2. CASE i = 0
      BY <2>1, <2>3, <3>2
    <3>3. CASE i # 0 /\ i # m + 1
      <4>1. i \in 0..m /\ i - 1 \in 0..m
        BY <3>3
      <4> QED BY <2>1, <2>3, <3>3, <4>1
    <3> QED BY <3>1, <3>2, <3>3
  <2>5. Run(g, m + 1)
    BY <2>3, <2>4
  <2> QED BY <1>2, <2>5
<1> HIDE DEF T
<1>3. \A m \in 0..n : m \in T
  BY <1>1, <1>2, IntervalInduction
<1>4. PICK f : Run(f, n)
  BY <1>3 DEF T
<1> QED
  BY <1>4 DEF Iterates
===============================================================================
