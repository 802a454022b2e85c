-------------------------- MODULE RecursionTheorems --------------------------
(* Induction on natural numbers, and the existence of recursive functions,  *)
(* stated with sets and functions in place of operators.                    *)
EXTENDS Integers, WellFoundedInduction, TLAPS

Less == OpToRel(<, Nat)

\* The numbers have no infinite descent, so a set of them has a least one.
LEMMA LessIsWellFounded == IsWellFoundedOn(Less, Nat)
BY NatLessThanWellFounded, Zenon DEF Less

LEMMA LessIs == \A m, n \in Nat : <<m, n>> \in Less <=> m < n
BY DEF Less, OpToRel

LEMMA LeastNat ==
  ASSUME NEW T \in SUBSET Nat, T # {}
  PROVE  \E n \in T : \A m \in T : n <= m
<1>1. PICK n \in T : \A m \in T : <<m, n>> \notin Less
  BY LessIsWellFounded, WFMin
<1>2. \A m \in T : ~(m < n)
  BY <1>1, LessIs
<1> QED  BY <1>2

\* Induction: a set with the first number and, with each, the next one.
LEMMA RangeInduction ==
  ASSUME NEW a \in Nat, NEW b \in Nat, NEW S,
         a \in S, \A i \in a..b - 1 : i \in S => i + 1 \in S
  PROVE  a..b \subseteq S
<1> DEFINE T == (a..b) \ S
<1> SUFFICES ASSUME T # {}  PROVE FALSE
  OBVIOUS
<1>1. T \in SUBSET Nat
  OBVIOUS
<1> HIDE DEF T
<1>2. PICK n \in T : \A m \in T : n <= m
  BY <1>1, LeastNat
<1> USE DEF T
<1>3. n # a /\ n - 1 \in a..b - 1
  OBVIOUS
<1>4. n - 1 \in S
  BY <1>2, <1>3
<1> QED  BY <1>3, <1>4

\* The same with all the numbers before.
LEMMA CourseInduction ==
  ASSUME NEW n \in Nat, NEW S, \A i \in 1..n : 1..i - 1 \subseteq S => i \in S
  PROVE  1..n \subseteq S
<1> DEFINE T == (1..n) \ S
<1> SUFFICES ASSUME T # {}  PROVE FALSE
  OBVIOUS
<1>1. T \in SUBSET Nat
  OBVIOUS
<1> HIDE DEF T
<1>2. PICK i \in T : \A j \in T : i <= j
  BY <1>1, LeastNat
<1> USE DEF T
<1>3. 1..i - 1 \subseteq S
  <2> SUFFICES ASSUME NEW j \in 1..i - 1  PROVE j \in S
    OBVIOUS
  <2>0. i \in 1..n
    OBVIOUS
  <2>1. j \in 1..n /\ ~(i <= j)
    BY <2>0
  <2> QED  BY <1>2, <2>1
<1> QED  BY <1>3

\* The value at i, from i and a function that is right below i.
RecursionData(n, T, D) ==
  /\ n \in Nat /\ T # {} /\ D \in [(1..n) \X [1..n -> T] -> T]
  /\ \A i \in 1..n : \A g, h \in [1..n -> T] :
       (\A j \in 1..i - 1 : g[j] = h[j]) => D[<<i, g>>] = D[<<i, h>>]

RecursiveFunction(g, n, T, D) == g \in [1..n -> T] /\ \A i \in 1..n : g[i] = D[<<i, g>>]

\* A recursive function exists: the value at i may use all the values before.
THEOREM Recursion ==
  ASSUME NEW n, NEW T, NEW D, RecursionData(n, T, D)
  PROVE  \E g : RecursiveFunction(g, n, T, D)
<1> PICK e \in T : TRUE
  BY DEF RecursionData
<1> USE DEF RecursionData
<1>a. CASE n = 0
  <2> DEFINE g == [i \in 1..n |-> e]
  <2>1. g \in [1..n -> T] /\ \A i \in 1..n : FALSE
    BY <1>a
  <2> QED  BY <2>1 DEF RecursiveFunction
<1> SUFFICES ASSUME n # 0  PROVE \E g : RecursiveFunction(g, n, T, D)
  BY <1>a
<1>0. 1 \in Nat /\ n \in Nat /\ 1 <= n
  OBVIOUS
<1> DEFINE Upto(k) == \E g \in [1..n -> T] : \A i \in 1..n : i <= k => g[i] = D[<<i, g>>]
           S == {k \in 1..n : Upto(k)}
<1>1. \A k \in 1..n : \A g \in [1..n -> T] :
        (\A i \in 1..n : i < k => g[i] = D[<<i, g>>]) => Upto(k)
  <2> SUFFICES ASSUME NEW k \in 1..n, NEW g \in [1..n -> T],
                      \A i \in 1..n : i < k => g[i] = D[<<i, g>>]
               PROVE  Upto(k)
    OBVIOUS
  <2> DEFINE h == [g EXCEPT ![k] = D[<<k, g>>]]
  <2>1. D[<<k, g>>] \in T
    OBVIOUS
  <2>2. h \in [1..n -> T]
    BY <2>1
  <2>3. h[k] = D[<<k, g>>] /\ \A i \in 1..n : i # k => h[i] = g[i]
    OBVIOUS
  <2> HIDE DEF h
  <2> SUFFICES ASSUME NEW i \in 1..n, i <= k  PROVE  h[i] = D[<<i, h>>]
    BY <2>2
  <2>4. \A j \in 1..i - 1 : h[j] = g[j]
    BY <2>3
  <2>5. D[<<i, h>>] = D[<<i, g>>]
    BY <2>2, <2>4
  <2>6. CASE i = k
    BY <2>3, <2>5, <2>6
  <2>7. CASE i # k
    <3>1. g[i] = D[<<i, g>>]
      BY <2>7
    <3> QED  BY <2>3, <2>5, <2>7, <3>1, Zenon
  <2> QED  BY <2>6, <2>7
<1>2. 1 \in S
  <2> DEFINE g == [i \in 1..n |-> e]
  <2>1. g \in [1..n -> T] /\ 1 \in 1..n
    OBVIOUS
  <2> HIDE DEF g
  <2>2. \A i \in 1..n : i < 1 => g[i] = D[<<i, g>>]
    OBVIOUS
  <2> HIDE DEF Upto
  <2>3. Upto(1)
    BY <1>1, <2>1, <2>2
  <2> QED  BY <2>1, <2>3
<1>3. ASSUME NEW k \in 1..n - 1, k \in S  PROVE  k + 1 \in S
  <2>1. PICK g \in [1..n -> T] : \A i \in 1..n : i <= k => g[i] = D[<<i, g>>]
    BY <1>3
  <2>2. k + 1 \in 1..n /\ \A i \in 1..n : i < k + 1 => i <= k
    OBVIOUS
  <2> HIDE DEF Upto
  <2>3. Upto(k + 1)
    BY <1>1, <2>1, <2>2
  <2> QED  BY <2>2, <2>3
<1> HIDE DEF S
<1>4. 1..n \subseteq S
  BY <1>0, <1>2, <1>3, RangeInduction
<1>5. n \in S
  BY <1>4
<1> USE DEF S
<1>6. \A i \in 1..n : i <= n
  OBVIOUS
<1> QED  BY <1>5, <1>6 DEF RecursiveFunction

\* The first value and the values after it, from the number and the value before.
StepData(n, T, e, D) == n \in Nat /\ e \in T /\ D \in [(1..n) \X T -> T]

StepFunction(g, n, T, e, D) ==
  g \in [0..n -> T] /\ g[0] = e /\ \A i \in 1..n : g[i] = D[<<i, g[i - 1]>>]

\* The same for a function whose value at i depends on the one before.
THEOREM StepRecursion ==
  ASSUME NEW n, NEW T, NEW e, NEW D, StepData(n, T, e, D)
  PROVE  \E g : StepFunction(g, n, T, e, D)
<1> USE DEF StepData
<1> DEFINE Good(k) == \E g \in [0..n -> T] :
                        g[0] = e /\ \A i \in 1..n : i <= k => g[i] = D[<<i, g[i - 1]>>]
           S == {k \in 0..n : Good(k)}
<1>1. 0 \in S
  <2> DEFINE g == [i \in 0..n |-> e]
  <2>1. g \in [0..n -> T] /\ g[0] = e
    OBVIOUS
  <2>2. \A i \in 1..n : ~(i <= 0)
    OBVIOUS
  <2> HIDE DEF g
  <2>3. Good(0)
    BY <2>1, <2>2
  <2> QED  BY <2>3
<1>2. ASSUME NEW k \in 0..n - 1, k \in S  PROVE  k + 1 \in S
  <2>1. PICK g \in [0..n -> T] :
          g[0] = e /\ \A i \in 1..n : i <= k => g[i] = D[<<i, g[i - 1]>>]
    BY <1>2
  <2> DEFINE v == D[<<k + 1, g[k]>>]
             h == [g EXCEPT ![k + 1] = v]
  <2>2. k \in 0..n /\ k + 1 \in 1..n /\ k + 1 \in 0..n /\ (k + 1) - 1 = k
    OBVIOUS
  <2>3. g[k] \in T
    BY <2>2
  <2>4. v \in T
    BY <2>2, <2>3
  <2> HIDE DEF v
  <2>5. h \in [0..n -> T] /\ h[k + 1] = v /\ \A j \in 0..n : j # k + 1 => h[j] = g[j]
    BY <2>2, <2>4
  <2> HIDE DEF h
  <2>6. h[0] = e
    BY <2>1, <2>5
  <2>7. ASSUME NEW i \in 1..n, i <= k + 1  PROVE  h[i] = D[<<i, h[i - 1]>>]
    <3>1. i - 1 \in 0..n /\ i - 1 # k + 1 /\ i \in 0..n
      BY <2>7
    <3>2. h[i - 1] = g[i - 1]
      BY <2>5, <3>1
    <3>3. CASE i = k + 1
      <4>1. h[i] = v /\ h[i - 1] = g[k]
        BY <2>2, <2>5, <3>2, <3>3
      <4> QED  BY <4>1, <3>3 DEF v
    <3>4. CASE i # k + 1
      <4>1. i <= k
        BY <2>7, <3>4
      <4>2. g[i] = D[<<i, g[i - 1]>>]
        BY <2>1, <4>1
      <4> QED  BY <2>5, <3>1, <3>2, <3>4, <4>2
    <3> QED  BY <3>3, <3>4
  <2>8. Good(k + 1)
    BY <2>5, <2>6, <2>7
  <2> QED  BY <2>2, <2>8
<1> HIDE DEF S
<1>3. 0 \in Nat
  OBVIOUS
<1>4. 0..n \subseteq S
  BY <1>1, <1>2, <1>3, RangeInduction
<1>5. n \in S
  BY <1>4
<1> USE DEF S
<1>6. \A i \in 1..n : i <= n
  OBVIOUS
<1> QED  BY <1>5, <1>6 DEF StepFunction
=============================================================================
