------------------------- MODULE CompoundTypesProofs -------------------------
(***************************************************************************)
(* Proofs about CompoundTypes: the layout of records, when it is final,    *)
(* and that C and libffi compute the same one.                             *)
(*                                                                         *)
(* The operators of the model that go through a list, or through types, are *)
(* recursive functions.  Each gets its equations once (OnlyIs, EndIs,      *)
(* PlaceIs, ElementsAre, ClosureIs, CLayoutIs, AggregateIs, FfiLayoutIs),  *)
(* mostly from RecursionTheorems, and the lemma after it says by induction *)
(* what it computes.                                                       *)
(*                                                                         *)
(* LayoutInv is inductive.  A record's field names are distinct, so that   *)
(* Keys() is a permutation of the fields and no field is placed twice; a   *)
(* union's offsets stay 0; and every type that some type embeds has been   *)
(* defined before it, so that the array types in a layout are final.       *)
(* OpenArrays and FfiInv are inductive with it: what arrays without a      *)
(* fixed length look like, and that an ffi_type lists types before it.     *)
(***************************************************************************)
EXTENDS CompoundTypes, RecursionTheorems, SequenceTheorems, FiniteSetTheorems, TLAPS

\* Only keeps exactly the elements of s that are in S, each as often as s has it.
LEMMA OnlyIs ==
  ASSUME NEW T, NEW s \in Seq(T), NEW S
  PROVE  LET o == Only(s, S)
         IN /\ o \in Seq(T)
            /\ \A k \in 1..Len(o) : \E j \in 1..Len(s) : o[k] = s[j] /\ s[j] \in S
            /\ \A j \in 1..Len(s) : s[j] \in S => \E k \in 1..Len(o) : o[k] = s[j]
            /\ (\A j, l \in 1..Len(s) : s[j] = s[l] => j = l)
                 => \A k, l \in 1..Len(o) : o[k] = o[l] => k = l
<1> DEFINE n == Len(s)
           R == Seq(T)
           After(b, x) == IF x \in S THEN Append(b, x) ELSE b
           Body(g) == [i \in 0..n |-> IF i = 0 THEN <<>> ELSE
                                      IF s[i] \in S THEN Append(g[i - 1], s[i]) ELSE g[i - 1]]
           D == [p \in (1..n) \X R |-> After(p[2], s[p[1]])]
           only == CHOOSE g : g = Body(g)
<1>1. n \in Nat /\ \A i \in 1..n : s[i] \in T
  OBVIOUS
<1>2. Only(s, S) = only[n]
  BY DEF Only
<1>3. <<>> \in R /\ \A b \in R : \A x \in T : After(b, x) \in R
  OBVIOUS
<1>4. \A g : Body(g) = [i \in 0..n |-> IF i = 0 THEN <<>> ELSE After(g[i - 1], s[i])]
  OBVIOUS
<1> HIDE DEF n, R, After, Body
<1>5. D \in [(1..n) \X R -> R] /\ \A i \in 1..n : \A b \in R : D[<<i, b>>] = After(b, s[i])
  BY <1>1, <1>3
<1> HIDE DEF D
<1>6. \E g \in [0..n -> R] : g = Body(g)
  <2>1. StepData(n, R, <<>>, D)
    BY <1>1, <1>3, <1>5 DEF StepData
  <2>2. PICK g : StepFunction(g, n, R, <<>>, D)
    BY <2>1, StepRecursion
  <2> USE <2>2 DEF StepFunction
  <2>3. ASSUME NEW i \in 0..n
        PROVE  g[i] = IF i = 0 THEN <<>> ELSE After(g[i - 1], s[i])
    <3>1. CASE i # 0
      <4>1. i \in 1..n /\ i - 1 \in 0..n
        BY <1>1, <3>1
      <4> QED  BY <1>5, <3>1, <4>1
    <3> QED  BY <3>1
  <2>4. g = [i \in 0..n |-> g[i]]
    OBVIOUS
  <2> QED  BY <1>4, <2>3, <2>4
<1>7. only = Body(only)
  BY <1>6
<1> HIDE DEF only
<1>8. only[0] = <<>> /\ \A i \in 1..n : only[i] = After(only[i - 1], s[i])
  BY <1>1, <1>4, <1>7
<1> DEFINE Good(i) ==
      /\ only[i] \in R
      /\ \A k \in 1..Len(only[i]) : \E j \in 1..n : j <= i /\ only[i][k] = s[j] /\ s[j] \in S
      /\ \A j \in 1..n : j <= i /\ s[j] \in S => \E k \in 1..Len(only[i]) : only[i][k] = s[j]
      /\ (\A j, l \in 1..n : s[j] = s[l] => j = l)
           => \A k, l \in 1..Len(only[i]) : only[i][k] = only[i][l] => k = l
           Set == {i \in 0..n : Good(i)}
<1>9. 0 \in Set
  <2>1. only[0] \in R /\ Len(only[0]) = 0
    BY <1>3, <1>8 DEF R
  <2> QED  BY <1>1, <2>1
<1>10. ASSUME NEW i \in 0..n - 1, i \in Set  PROVE  i + 1 \in Set
  <2>1. i \in 0..n /\ i + 1 \in 1..n /\ i + 1 \in 0..n /\ (i + 1) - 1 = i
    BY <1>1
  <2>2. Good(i)
    BY <1>10
  <2> DEFINE b == only[i]
             x == s[i + 1]
  <2>3. only[i + 1] = After(b, x) /\ x \in T /\ b \in R
    BY <1>1, <1>8, <2>1, <2>2
  <2>4. \A j \in 1..n : j <= i + 1 <=> j <= i \/ j = i + 1
    BY <1>1
  <2>5. CASE x \notin S
    <3>1. only[i + 1] = b
      BY <2>3, <2>5 DEF After
    <3>2. Good(i + 1)
      BY <2>2, <2>4, <2>5, <3>1
    <3> QED  BY <2>1, <3>2
  <2>6. CASE x \in S
    <3>1. only[i + 1] = Append(b, x)
      BY <2>3, <2>6 DEF After
    <3>2. /\ only[i + 1] \in R /\ Len(b) \in Nat /\ Len(only[i + 1]) = Len(b) + 1
          /\ only[i + 1][Len(b) + 1] = x
          /\ \A k \in 1..Len(b) : only[i + 1][k] = b[k]
      BY <2>3, <3>1 DEF R
    <3>3. \A k \in 1..Len(only[i + 1]) : k \in 1..Len(b) \/ k = Len(b) + 1
      BY <3>2
    <3>4. \A k \in 1..Len(b) : k \in 1..Len(only[i + 1])
      BY <3>2
    <3>5. \A k \in 1..Len(only[i + 1]) :
            \E j \in 1..n : j <= i + 1 /\ only[i + 1][k] = s[j] /\ s[j] \in S
      <4> SUFFICES ASSUME NEW k \in 1..Len(only[i + 1])
                   PROVE  \E j \in 1..n : j <= i + 1 /\ only[i + 1][k] = s[j] /\ s[j] \in S
        OBVIOUS
      <4>1. CASE k \in 1..Len(b)
        BY <2>2, <2>4, <3>2, <4>1
      <4>2. CASE k = Len(b) + 1
        BY <2>1, <2>4, <2>6, <3>2, <4>2
      <4> QED  BY <3>3, <4>1, <4>2
    <3>6. \A j \in 1..n : j <= i + 1 /\ s[j] \in S
            => \E k \in 1..Len(only[i + 1]) : only[i + 1][k] = s[j]
      <4> SUFFICES ASSUME NEW j \in 1..n, j <= i + 1, s[j] \in S
                   PROVE  \E k \in 1..Len(only[i + 1]) : only[i + 1][k] = s[j]
        OBVIOUS
      <4>1. CASE j <= i
        <5>1. PICK k \in 1..Len(b) : b[k] = s[j]
          BY <2>2, <4>1
        <5> QED  BY <3>2, <3>4, <5>1
      <4>2. CASE j = i + 1
        <5>1. Len(b) + 1 \in 1..Len(only[i + 1])
          BY <3>2
        <5> QED  BY <3>2, <4>2, <5>1
      <4> QED  BY <2>4, <4>1, <4>2
    <3>7. ASSUME \A j, l \in 1..n : s[j] = s[l] => j = l,
                 NEW k \in 1..Len(only[i + 1]), NEW l \in 1..Len(only[i + 1]),
                 only[i + 1][k] = only[i + 1][l]
          PROVE  k = l
      <4>1. \A q \in 1..Len(b) : b[q] # x
        <5> SUFFICES ASSUME NEW q \in 1..Len(b), b[q] = x  PROVE FALSE
          OBVIOUS
        <5>1. PICK j \in 1..n : j <= i /\ b[q] = s[j]
          BY <2>2
        <5>2. j = i + 1
          BY <2>1, <3>7, <5>1
        <5> QED  BY <1>1, <5>1, <5>2
      <4>2. CASE k \in 1..Len(b) /\ l \in 1..Len(b)
        BY <2>2, <3>2, <3>7, <4>2
      <4>3. CASE k = Len(b) + 1 /\ l \in 1..Len(b)
        BY <3>2, <3>7, <4>1, <4>3
      <4>4. CASE k \in 1..Len(b) /\ l = Len(b) + 1
        BY <3>2, <3>7, <4>1, <4>4
      <4> QED  BY <3>3, <4>2, <4>3, <4>4
    <3> HIDE DEF b, x
    <3> QED  BY <2>1, <3>2, <3>5, <3>6, <3>7
  <2> QED  BY <2>5, <2>6
<1> HIDE DEF Set
<1>11. 0 \in Nat
  OBVIOUS
<1>12. 0..n \subseteq Set
  BY <1>1, <1>9, <1>10, <1>11, RangeInduction
<1>13. n \in Set /\ \A j \in 1..n : j <= n
  BY <1>1, <1>12
<1>14. Good(n)
  BY <1>13 DEF Set
<1> QED  BY <1>2, <1>13, <1>14 DEF n, R

\* A concatenation, part by part.
LEMMA ConcatIs ==
  ASSUME NEW S, NEW a \in Seq(S), NEW b \in Seq(S)
  PROVE  LET c == a \o b
         IN /\ c \in Seq(S)
            /\ Len(a) \in Nat /\ Len(b) \in Nat /\ Len(c) = Len(a) + Len(b)
            /\ \A k \in 1..Len(a) : k \in 1..Len(c) /\ c[k] = a[k]
            /\ \A k \in 1..Len(b) : Len(a) + k \in 1..Len(c) /\ c[Len(a) + k] = b[k]
            /\ \A k \in 1..Len(c) : k \in 1..Len(a) \/ \E l \in 1..Len(b) : k = Len(a) + l
<1> DEFINE c == a \o b
           m == Len(a)
           n == Len(b)
<1>1. m \in Nat /\ n \in Nat
  OBVIOUS
<1>2. /\ c \in Seq(S)
      /\ Len(c) = m + n
      /\ \A k \in 1..m + n : c[k] = IF k <= m THEN a[k] ELSE b[k - m]
  BY ConcatProperties
<1> HIDE DEF c, m, n
<1>3. \A k \in 1..m : k \in 1..Len(c) /\ c[k] = a[k]
  BY <1>1, <1>2
<1>4. ASSUME NEW k \in 1..n  PROVE m + k \in 1..Len(c) /\ c[m + k] = b[k]
  <2>1. m + k \in 1..m + n /\ ~(m + k <= m) /\ (m + k) - m = k
    BY <1>1
  <2> QED  BY <1>2, <2>1
<1>5. ASSUME NEW k \in 1..Len(c), k \notin 1..m  PROVE \E l \in 1..n : k = m + l
  <2>1. k - m \in 1..n /\ k = m + (k - m)
    BY <1>1, <1>2, <1>5
  <2> QED  BY <2>1
<1> QED  BY <1>1, <1>2, <1>3, <1>4, <1>5 DEF c, m, n

\* A fields object has one field for each name.
UniqueNames(fs) == \A i, j \in 1..Len(fs) : fs[i].name = fs[j].name => i = j

\* Object.keys() lists every field once.
LEMMA KeysAre ==
  ASSUME NEW fs \in Seq(Field), UniqueNames(fs)
  PROVE  /\ Keys(fs) \in Seq(Field)
         /\ \A k \in 1..Len(Keys(fs)) : \E i \in 1..Len(fs) : Keys(fs)[k] = fs[i]
         /\ \A i \in 1..Len(fs) : \E k \in 1..Len(Keys(fs)) : Keys(fs)[k] = fs[i]
         /\ UniqueNames(Keys(fs))
<1> DEFINE TypeFor(n) == fs[CHOOSE i \in DOMAIN fs : fs[i].name = n]
           names == {f.name : f \in Range(fs)}
           indexed == Only(IndexNames, names)
           front == [i \in DOMAIN indexed |-> TypeFor(indexed[i])]
           others == {f \in Range(fs) : f.name \notin Range(IndexNames)}
           back == Only(fs, others)
<1>1. /\ DOMAIN fs = 1..Len(fs) /\ Len(fs) \in Nat
      /\ \A i \in 1..Len(fs) : fs[i] \in Field
  OBVIOUS
<1>2. /\ IndexNames \in Seq(Names) /\ DOMAIN IndexNames = 1..Len(IndexNames)
      /\ \A i, j \in 1..Len(IndexNames) : IndexNames[i] = IndexNames[j] => i = j
  BY NamesAssumption DEF IsInjective
<1>3. \A i \in 1..Len(fs) : TypeFor(fs[i].name) = fs[i]
  <2> SUFFICES ASSUME NEW i \in 1..Len(fs)  PROVE TypeFor(fs[i].name) = fs[i]
    OBVIOUS
  <2> DEFINE c == CHOOSE j \in DOMAIN fs : fs[j].name = fs[i].name
  <2>1. c \in DOMAIN fs /\ fs[c].name = fs[i].name
    BY <1>1
  <2> HIDE DEF c
  <2>2. c = i
    BY <1>1, <2>1 DEF UniqueNames
  <2> QED  BY <2>2 DEF c
<1>4. \A n : n \in names <=> \E i \in 1..Len(fs) : fs[i].name = n
  BY <1>1 DEF Range
<1>5. \A i \in 1..Len(fs) : fs[i] \in others <=> fs[i].name \notin Range(IndexNames)
  BY <1>1 DEF Range
<1>6. Keys(fs) = front \o back
  BY DEF Keys
<1> HIDE DEF names, others
<1>7. /\ indexed \in Seq(Names)
      /\ \A k \in 1..Len(indexed) : \E j \in 1..Len(IndexNames) :
            indexed[k] = IndexNames[j] /\ IndexNames[j] \in names
      /\ \A j \in 1..Len(IndexNames) : IndexNames[j] \in names
            => \E k \in 1..Len(indexed) : indexed[k] = IndexNames[j]
      /\ \A k, l \in 1..Len(indexed) : indexed[k] = indexed[l] => k = l
  BY <1>2, OnlyIs
<1>8. /\ back \in Seq(Field)
      /\ \A k \in 1..Len(back) : \E j \in 1..Len(fs) : back[k] = fs[j] /\ fs[j] \in others
      /\ \A j \in 1..Len(fs) : fs[j] \in others => \E k \in 1..Len(back) : back[k] = fs[j]
      /\ \A k, l \in 1..Len(back) : back[k] = back[l] => k = l
  <2>1. \A j, l \in 1..Len(fs) : fs[j] = fs[l] => j = l
    BY DEF UniqueNames
  <2> QED  BY <2>1, OnlyIs
<1> HIDE DEF indexed, back, TypeFor
<1>9. Len(indexed) \in Nat /\ DOMAIN indexed = 1..Len(indexed) /\ Len(back) \in Nat
  BY <1>7, <1>8
<1>10. \A k \in 1..Len(indexed) : \E i \in 1..Len(fs) : fs[i].name = indexed[k] /\ front[k] = fs[i]
  <2> SUFFICES ASSUME NEW k \in 1..Len(indexed)
               PROVE  \E i \in 1..Len(fs) : fs[i].name = indexed[k] /\ front[k] = fs[i]
    OBVIOUS
  <2>1. indexed[k] \in names
    BY <1>7
  <2>2. PICK i \in 1..Len(fs) : fs[i].name = indexed[k]
    BY <1>4, <2>1
  <2>3. front[k] = TypeFor(fs[i].name)
    BY <1>9, <2>2
  <2> QED  BY <1>3, <2>2, <2>3
<1>11. front \in Seq(Field) /\ Len(front) = Len(indexed)
  <2>1. \A k \in 1..Len(indexed) : front[k] \in Field
    BY <1>1, <1>10
  <2>2. front \in [1..Len(indexed) -> Field]
    BY <1>9, <2>1
  <2> QED  BY <1>9, <2>2
<1> HIDE DEF front
<1> DEFINE ks == front \o back
<1>12. back \in Seq(Field) /\ front \in Seq(Field)
  BY <1>8, <1>11
<1>13. /\ ks \in Seq(Field)
       /\ \A k \in 1..Len(front) : k \in 1..Len(ks) /\ ks[k] = front[k]
       /\ \A k \in 1..Len(back) : Len(front) + k \in 1..Len(ks) /\ ks[Len(front) + k] = back[k]
       /\ \A k \in 1..Len(ks) : k \in 1..Len(front) \/ \E l \in 1..Len(back) : k = Len(front) + l
  BY <1>12, ConcatIs
<1> HIDE DEF ks
<1>14. \A k \in 1..Len(ks) : \E i \in 1..Len(fs) : ks[k] = fs[i]
  <2> SUFFICES ASSUME NEW k \in 1..Len(ks)  PROVE \E i \in 1..Len(fs) : ks[k] = fs[i]
    OBVIOUS
  <2>1. CASE k \in 1..Len(front)
    BY <1>10, <1>11, <1>13, <2>1
  <2>2. ASSUME NEW l \in 1..Len(back), k = Len(front) + l
        PROVE  \E i \in 1..Len(fs) : ks[k] = fs[i]
    BY <1>8, <1>13, <2>2
  <2> QED  BY <1>13, <2>1, <2>2
<1>15. ASSUME NEW i \in 1..Len(fs)  PROVE \E k \in 1..Len(ks) : ks[k] = fs[i]
  <2>1. CASE fs[i] \in others
    <3>1. PICK k \in 1..Len(back) : back[k] = fs[i]
      BY <1>8, <2>1
    <3> QED  BY <1>13, <3>1
  <2>2. CASE fs[i] \notin others
    <3>1. PICK j \in 1..Len(IndexNames) : IndexNames[j] = fs[i].name
      BY <1>2, <1>5, <2>2 DEF Range
    <3>2. PICK k \in 1..Len(indexed) : indexed[k] = fs[i].name
      BY <1>4, <1>7, <3>1
    <3>3. PICK l \in 1..Len(fs) : fs[l].name = indexed[k] /\ front[k] = fs[l]
      BY <1>10
    <3>4. l = i
      BY <3>2, <3>3 DEF UniqueNames
    <3> QED  BY <1>11, <1>13, <3>3, <3>4
  <2> QED  BY <2>1, <2>2
<1>16. ASSUME NEW k \in 1..Len(ks), NEW l \in 1..Len(ks), ks[k].name = ks[l].name
       PROVE  k = l
  <2>1. \A q \in 1..Len(front) : front[q].name = indexed[q] /\ indexed[q] \in Range(IndexNames)
    <3> SUFFICES ASSUME NEW q \in 1..Len(front)
                 PROVE  front[q].name = indexed[q] /\ indexed[q] \in Range(IndexNames)
      OBVIOUS
    <3>1. q \in 1..Len(indexed)
      BY <1>11
    <3>2. front[q].name = indexed[q]
      BY <1>10, <3>1
    <3>3. PICK j \in 1..Len(IndexNames) : indexed[q] = IndexNames[j]
      BY <1>7, <3>1
    <3> QED  BY <1>2, <3>2, <3>3 DEF Range
  <2>2. \A q \in 1..Len(back) : back[q].name \notin Range(IndexNames)
    BY <1>5, <1>8
  <2>3. \A q, r \in 1..Len(back) : back[q].name = back[r].name => q = r
    BY <1>8 DEF UniqueNames
  <2>4. CASE k \in 1..Len(front) /\ l \in 1..Len(front)
    BY <1>7, <1>11, <1>13, <1>16, <2>1, <2>4
  <2>5. CASE k \in 1..Len(front) /\ l \notin 1..Len(front)
    <3>1. PICK r \in 1..Len(back) : l = Len(front) + r
      BY <1>13, <2>5
    <3>2. ks[k].name \in Range(IndexNames)
      BY <1>13, <2>1, <2>5
    <3>3. ks[l].name \notin Range(IndexNames)
      BY <1>13, <2>2, <3>1
    <3> QED  BY <1>16, <3>2, <3>3
  <2>6. CASE k \notin 1..Len(front) /\ l \in 1..Len(front)
    <3>1. PICK r \in 1..Len(back) : k = Len(front) + r
      BY <1>13, <2>6
    <3> QED  BY <1>13, <1>16, <2>1, <2>2, <2>6, <3>1
  <2>7. CASE k \notin 1..Len(front) /\ l \notin 1..Len(front)
    <3>1. PICK q \in 1..Len(back) : k = Len(front) + q
      BY <1>13, <2>7
    <3>2. PICK r \in 1..Len(back) : l = Len(front) + r
      BY <1>13, <2>7
    <3>3. q = r
      BY <1>13, <1>16, <2>3, <3>1, <3>2
    <3> QED  BY <3>1, <3>2, <3>3
  <2> QED  BY <2>4, <2>5, <2>6, <2>7
<1>17. UniqueNames(ks)
  BY <1>16 DEF UniqueNames
<1>18. Keys(fs) = ks
  BY <1>6 DEF ks
<1> QED  BY <1>13, <1>14, <1>15, <1>17, <1>18

-----------------------------------------------------------------------------
(* Alignment, and the largest and least of some numbers.                   *)

\* Padding reaches the next multiple, less than one alignment away.
LEMMA PadToIs ==
  ASSUME NEW o \in Nat, NEW a \in Nat \ {0}
  PROVE  PadTo(o, a) \in Nat /\ o <= PadTo(o, a) /\ PadTo(o, a) < o + a
<1>1. o % a \in 0..a - 1
  OBVIOUS
<1>2. (a - (o % a)) \in 1..a
  BY <1>1
<1>3. (a - (o % a)) % a \in 0..a - 1
  BY <1>2
<1> QED  BY <1>3 DEF PadTo, Padding

\* Finitely many numbers have a bound.
LEMMA ImageBound ==
  ASSUME NEW n \in Nat, NEW f, \A i \in 1..n : f[i] \in Nat
  PROVE  \E b \in Nat : \A i \in 1..n : f[i] <= b
<1> DEFINE S == {k \in 0..n : \E b \in Nat : \A i \in 1..n : i <= k => f[i] <= b}
<1>1. 0 \in S /\ 0 \in Nat
  <2>1. \A i \in 1..n : i <= 0 => f[i] <= 0
    OBVIOUS
  <2> QED  BY <2>1
<1>2. ASSUME NEW k \in 0..n - 1, k \in S  PROVE k + 1 \in S
  <2>1. PICK b \in Nat : \A i \in 1..n : i <= k => f[i] <= b
    BY <1>2
  <2>2. k + 1 \in 1..n /\ k + 1 \in 0..n /\ \A i \in 1..n : i <= k + 1 => i <= k \/ i = k + 1
    OBVIOUS
  <2> DEFINE c == IF b <= f[k + 1] THEN f[k + 1] ELSE b
  <2>3. c \in Nat /\ b <= c /\ f[k + 1] <= c
    BY <2>2
  <2> HIDE DEF c
  <2>4. ASSUME NEW i \in 1..n, i <= k + 1  PROVE f[i] <= c
    <3>1. CASE i <= k
      BY <2>1, <2>3, <3>1
    <3>2. CASE i = k + 1
      BY <2>3, <3>2
    <3> QED  BY <2>2, <2>4, <3>1, <3>2
  <2>5. \E d \in Nat : \A i \in 1..n : i <= k + 1 => f[i] <= d
    BY <2>3, <2>4
  <2> QED  BY <2>2, <2>5
<1> HIDE DEF S
<1>3. 0..n \subseteq S
  BY <1>1, <1>2, RangeInduction
<1>4. n \in S /\ \A i \in 1..n : i <= n
  BY <1>3
<1> QED  BY <1>4 DEF S

\* Max and Min are defined by CHOOSE: these are the witnesses.
LEMMA MaxIs ==
  ASSUME NEW S \in SUBSET Nat, S # {}, NEW b \in Nat, \A x \in S : x <= b
  PROVE  Max(S) \in S /\ \A x \in S : x <= Max(S)
<1> DEFINE T == {b - x : x \in S}
<1>1. T \in SUBSET Nat /\ T # {}
  <2>1. \A x \in S : b - x \in Nat
    OBVIOUS
  <2>2. PICK x \in S : TRUE
    OBVIOUS
  <2>3. b - x \in T
    BY <2>2
  <2> QED  BY <2>1, <2>3
<1>2. PICK d \in T : \A y \in T : d <= y
  BY <1>1, LeastNat
<1>3. PICK m \in S : d = b - m
  OBVIOUS
<1>4. \A x \in S : m >= x
  <2> SUFFICES ASSUME NEW x \in S  PROVE m >= x
    OBVIOUS
  <2>1. b - x \in T
    OBVIOUS
  <2>2. d <= b - x
    BY <1>2, <2>1
  <2> QED  BY <1>3, <2>2
<1>5. Max(S) \in S /\ \A x \in S : Max(S) >= x
  BY <1>4 DEF Max
<1> QED  BY <1>5

LEMMA MinIs ==
  ASSUME NEW S \in SUBSET Nat, S # {}
  PROVE  Min(S) \in S /\ \A x \in S : Min(S) <= x
<1>1. \E m \in S : \A x \in S : m <= x
  BY LeastNat
<1> QED  BY <1>1 DEF Min

\* The largest and least of the numbers of a list.
LEMMA ExtremesOf ==
  ASSUME NEW n \in Nat, n # 0, NEW f, \A i \in 1..n : f[i] \in Nat
  PROVE  LET S == {f[i] : i \in 1..n}
         IN /\ Max(S) \in S /\ \A i \in 1..n : f[i] <= Max(S)
            /\ Min(S) \in S /\ \A i \in 1..n : Min(S) <= f[i]
<1> DEFINE S == {f[i] : i \in 1..n}
<1>1. S \in SUBSET Nat /\ S # {}
  <2>1. f[1] \in S
    OBVIOUS
  <2> QED  BY <2>1
<1>2. PICK b \in Nat : \A i \in 1..n : f[i] <= b
  BY ImageBound
<1>3. \A x \in S : x <= b
  BY <1>2
<1>4. \A i \in 1..n : f[i] \in S
  OBVIOUS
<1> HIDE DEF S
<1>5. Max(S) \in S /\ (\A x \in S : x <= Max(S)) /\ Min(S) \in S /\ \A x \in S : Min(S) <= x
  BY <1>1, <1>3, MaxIs, MinIs
<1>6. \A i \in 1..n : f[i] <= Max(S) /\ Min(S) <= f[i]
  BY <1>4, <1>5
<1> QED  BY <1>5, <1>6 DEF S

-----------------------------------------------------------------------------
(* Type objects.                                                           *)

\* A defined array type has an element type that was defined before.
ElemInv ==
  \A t \in Compound :
    length[t] # -1 =>
      /\ kind[t] = "array"
      /\ elem[t] \in TypeRef
      /\ elem[t].base \in Compound => elem[t].base < t

\* The numbers read from a type object.
LEMMA RefIs ==
  ASSUME TypeOK, NEW r \in TypeRef
  PROVE  /\ RawSize(r) \in Nat /\ RawAlign(r) \in Nat
         /\ SizeOf(r) \in Nat /\ AlignOf(r) \in Nat \ {0}
         /\ FixedLength(r) \in Nat \cup {-1}
<1>1. r.base \in Prims \cup Compound /\ r.ptr \in BOOLEAN
  BY DEF TypeRef
<1>2. RawSize(r) \in Nat /\ RawAlign(r) \in Nat
  BY <1>1, PrimAssumption DEF RawSize, RawAlign, TypeOK
<1>3. PointerSize \in Nat \ {0}
  BY PrimAssumption
<1>4. FixedLength(r) \in Nat \cup {-1}
  BY DEF FixedLength, Arrays, TypeOK
<1> QED  BY <1>2, <1>3, <1>4 DEF SizeOf, AlignOf

\* A field takes room for one part, or for the elements of an array.
LEMMA PartsAre ==
  ASSUME TypeOK, ElemInv, NEW r \in TypeRef
  PROVE  LET p == Parts(r)[1]
         IN /\ p \in TypeRef
            /\ Len(Parts(r)) = (IF FixedLength(r) > 0 THEN FixedLength(r) ELSE 1)
            /\ p = IF FixedLength(r) > 0 THEN elem[r.base] ELSE r
            /\ DOMAIN Parts(r) = 1..Len(Parts(r))
            /\ \A i \in 1..Len(Parts(r)) : Parts(r)[i] = p
<1>1. CASE FixedLength(r) > 0
  <2>1. r.base \in Arrays /\ FixedLength(r) = length[r.base] /\ FixedLength(r) \in Nat
    BY <1>1, RefIs DEF FixedLength
  <2>2. elem[r.base] \in TypeRef
    BY <1>1, <2>1 DEF ElemInv, Arrays
  <2>3. Parts(r) = [i \in 1..FixedLength(r) |-> elem[r.base]]
    BY <1>1 DEF Parts
  <2>4. Len(Parts(r)) = FixedLength(r)
    BY <2>1, <2>3
  <2> QED  BY <1>1, <2>1, <2>2, <2>3, <2>4
<1>2. CASE ~(FixedLength(r) > 0)
  BY <1>2 DEF Parts
<1> QED  BY <1>1, <1>2

\* Aligning a part moves it up only.
LEMMA StartIs ==
  ASSUME TypeOK, NEW t, NEW o \in Nat, NEW r \in TypeRef, Alignable(t, r)
  PROVE  Start(t, o, r) \in Nat /\ o <= Start(t, o, r)
<1>1. RawAlign(r) \in Nat /\ PointerSize \in Nat \ {0}
  BY RefIs, PrimAssumption
<1>2. CASE kind[t] = "packed"
  BY <1>2 DEF Start
<1>3. CASE kind[t] # "packed"
  <2> DEFINE a == IF r.ptr THEN PointerSize ELSE RawAlign(r)
  <2>1. a \in Nat \ {0}
    BY <1>1, <1>3 DEF Alignable
  <2>2. Start(t, o, r) = PadTo(o, a)
    BY <1>3 DEF Start
  <2> HIDE DEF a
  <2> QED  BY <2>1, <2>2, PadToIs
<1> QED  BY <1>2, <1>3

\* The parts of a field, all of one type p, end where the next one may start.
Ends(e, t, o, f) ==
  LET p == Parts(f.type)[1]
      n == Len(Parts(f.type))
  IN /\ n \in Nat /\ n # 0
     /\ e \in [0..n -> Nat]
     /\ e[0] = o
     /\ \A i \in 1..n : e[i] = Start(t, e[i - 1], p) + SizeOf(p)
     /\ End(t, o, f) = e[n]

\* The recursive function of End exists and is such a list of ends.
LEMMA EndIs ==
  ASSUME TypeOK, ElemInv, NEW t, NEW o \in Nat, NEW f \in Field,
         Alignable(t, Parts(f.type)[1])
  PROVE  \E e : Ends(e, t, o, f)
<1> DEFINE parts == Parts(f.type)
           p == parts[1]
           n == Len(parts)
           After(b, q) == Start(t, b, q) + SizeOf(q)
           Body(g) == [i \in 0..n |-> IF i = 0 THEN o
                                      ELSE Start(t, g[i - 1], parts[i]) + SizeOf(parts[i])]
           D == [x \in (1..n) \X Nat |-> After(x[2], parts[x[1]])]
           end == CHOOSE g : g = Body(g)
<1>1. f.type \in TypeRef
  BY DEF Field
<1>2. p \in TypeRef /\ n \in Nat /\ n # 0 /\ \A i \in 1..n : parts[i] = p
  <2>1. FixedLength(f.type) \in Nat \cup {-1}
    BY <1>1, RefIs
  <2> QED  BY <1>1, <2>1, PartsAre
<1>3. End(t, o, f) = end[n]
  BY DEF End
<1>4. \A b \in Nat : After(b, p) \in Nat
  <2> SUFFICES ASSUME NEW b \in Nat  PROVE After(b, p) \in Nat
    OBVIOUS
  <2>1. Start(t, b, p) \in Nat /\ SizeOf(p) \in Nat
    BY <1>2, StartIs, RefIs
  <2> QED  BY <2>1
<1>5. \A g : Body(g) = [i \in 0..n |-> IF i = 0 THEN o ELSE After(g[i - 1], parts[i])]
  OBVIOUS
<1> HIDE DEF parts, p, n, After, Body
<1>6. D \in [(1..n) \X Nat -> Nat] /\ \A i \in 1..n : \A b \in Nat : D[<<i, b>>] = After(b, p)
  BY <1>2, <1>4
<1> HIDE DEF D
<1>7. PICK g : StepFunction(g, n, Nat, o, D)
  <2>1. StepData(n, Nat, o, D)
    BY <1>2, <1>6 DEF StepData
  <2> QED  BY <2>1, StepRecursion
<1>8. g = Body(g)
  <2> USE <1>7 DEF StepFunction
  <2>1. ASSUME NEW i \in 0..n
        PROVE  g[i] = IF i = 0 THEN o ELSE After(g[i - 1], parts[i])
    <3>1. CASE i # 0
      <4>1. i \in 1..n /\ i - 1 \in 0..n
        BY <1>2, <3>1
      <4> QED  BY <1>2, <1>6, <3>1, <4>1
    <3> QED  BY <3>1
  <2>2. g = [i \in 0..n |-> g[i]]
    OBVIOUS
  <2> QED  BY <1>5, <2>1, <2>2
<1>9. end = Body(end)
  BY <1>8
<1> HIDE DEF end
<1>10. end[0] = o /\ \A i \in 1..n : i - 1 \in 0..n /\ end[i] = After(end[i - 1], p)
  BY <1>2, <1>5, <1>9
<1>11. \A i \in 0..n : end[i] \in Nat
  <2> DEFINE S == {i \in 0..n : end[i] \in Nat}
  <2>1. 0 \in S /\ 0 \in Nat
    BY <1>2, <1>10
  <2>2. ASSUME NEW i \in 0..n - 1, i \in S  PROVE i + 1 \in S
    <3>1. i + 1 \in 1..n /\ i + 1 \in 0..n /\ (i + 1) - 1 = i /\ end[i] \in Nat
      BY <1>2, <2>2
    <3>2. end[i + 1] = After(end[i], p)
      BY <1>10, <3>1
    <3> QED  BY <1>4, <3>1, <3>2
  <2> HIDE DEF S
  <2>3. 0..n \subseteq S
    BY <1>2, <2>1, <2>2, RangeInduction
  <2> QED  BY <2>3 DEF S
<1>12. end \in [0..n -> Nat]
  <2>1. end = [i \in 0..n |-> end[i]]
    BY <1>5, <1>9
  <2> QED  BY <1>11, <2>1
<1>13. \A i \in 1..n : end[i] = Start(t, end[i - 1], p) + SizeOf(p)
  BY <1>10 DEF After
<1>14. Ends(end, t, o, f)
  BY <1>2, <1>3, <1>10, <1>12, <1>13 DEF Ends, parts, p, n
<1> QED  BY <1>14

\* The room of a field begins where its first part does and holds all its parts.
LEMMA EndRoom ==
  ASSUME TypeOK, ElemInv, NEW t, NEW o \in Nat, NEW f \in Field,
         Alignable(t, Parts(f.type)[1])
  PROVE  LET p == Parts(f.type)[1]
             n == Len(Parts(f.type))
         IN /\ End(t, o, f) \in Nat
            /\ Start(t, o, p) \in Nat /\ o <= Start(t, o, p)
            /\ n \in Nat /\ SizeOf(p) \in Nat /\ n * SizeOf(p) \in Nat
            /\ Start(t, o, p) + n * SizeOf(p) <= End(t, o, f)
<1> DEFINE p == Parts(f.type)[1]
           n == Len(Parts(f.type))
           z == SizeOf(p)
           s == Start(t, o, p)
<1>1. PICK e : Ends(e, t, o, f)
  BY EndIs
<1>2. /\ n \in Nat /\ n # 0 /\ e \in [0..n -> Nat] /\ e[0] = o
      /\ \A i \in 1..n : e[i] = Start(t, e[i - 1], p) + SizeOf(p)
      /\ End(t, o, f) = e[n]
  BY <1>1 DEF Ends
<1>3. p \in TypeRef /\ z \in Nat
  <2>1. f.type \in TypeRef
    BY DEF Field
  <2>2. p \in TypeRef
    BY <2>1, PartsAre
  <2> QED  BY <2>2, RefIs
<1>4. s \in Nat /\ o <= s
  BY <1>3, StartIs
<1>5. \A k \in Nat : k * z \in Nat /\ (k + 1) * z = k * z + z /\ 1 * z = z
  <2> HIDE DEF z
  <2> QED  BY <1>3
<1> HIDE DEF z, n, p
<1> DEFINE S == {i \in 1..n : s + i * z <= e[i]}
<1>6. 1 \in S /\ 1 \in Nat
  <2>1. 1 \in 1..n /\ 1 - 1 = 0
    BY <1>2
  <2>2. e[1] = s + z
    BY <1>2, <2>1 DEF z
  <2> HIDE DEF s
  <2> QED  BY <1>3, <1>4, <1>5, <2>1, <2>2
<1>7. ASSUME NEW i \in 1..n - 1, i \in S  PROVE i + 1 \in S
  <2>1. i + 1 \in 1..n /\ (i + 1) - 1 = i /\ i \in 0..n /\ i \in Nat /\ i + 1 \in 0..n
    BY <1>2
  <2>2. e[i] \in Nat /\ s + i * z <= e[i]
    BY <1>2, <1>7, <2>1
  <2>3. e[i + 1] = Start(t, e[i], p) + z
    BY <1>2, <2>1 DEF z
  <2>4. Start(t, e[i], p) \in Nat /\ e[i] <= Start(t, e[i], p)
    BY <1>3, <2>2, StartIs DEF p
  <2>5. i * z \in Nat /\ (i + 1) * z = i * z + z
    BY <1>5, <2>1
  <2> HIDE DEF s
  <2>6. s + (i + 1) * z <= e[i + 1]
    BY <1>3, <1>4, <2>2, <2>3, <2>4, <2>5
  <2> QED  BY <2>1, <2>6
<1> HIDE DEF S
<1>8. 1..n \subseteq S
  BY <1>2, <1>6, <1>7, RangeInduction
<1>9. n \in S
  BY <1>2, <1>8
<1>10. s + n * z <= e[n] /\ e[n] \in Nat
  BY <1>2, <1>9 DEF S
<1> QED  BY <1>2, <1>3, <1>4, <1>5, <1>10 DEF s, z, n, p

Placement == [ok : BOOLEAN, offset : [Names -> Nat], size : Nat]

\* One round of the loop of recalc().
PlaceNext(t, before, f) ==
  LET first == Parts(f.type)[1]
  IN IF ~before.ok \/ ~Alignable(t, first)
     THEN [before EXCEPT !.ok = FALSE]
     ELSE [ok |-> TRUE,
           offset |-> [before.offset EXCEPT ![f.name] = Start(t, before.size, first)],
           size |-> End(t, before.size, f)]

Placed(a, t, fs) ==
  /\ a \in [0..Len(fs) -> Placement]
  /\ a[0] = [ok |-> TRUE, offset |-> offset[t], size |-> 0]
  /\ \A i \in 1..Len(fs) : a[i] = PlaceNext(t, a[i - 1], fs[i])
  /\ Place(t, fs) = a[Len(fs)]

\* A round makes a placement of a placement.
LEMMA PlaceNextType ==
  ASSUME TypeOK, ElemInv, NEW t \in Compound, NEW b \in Placement, NEW f \in Field
  PROVE  PlaceNext(t, b, f) \in Placement
<1> DEFINE p == Parts(f.type)[1]
<1>1. f.type \in TypeRef /\ f.name \in Names
  BY DEF Field
<1>2. p \in TypeRef
  BY <1>1, PartsAre
<1>3. CASE ~b.ok \/ ~Alignable(t, p)
  BY <1>3 DEF PlaceNext, Placement
<1>4. CASE b.ok /\ Alignable(t, p)
  <2>1. b.size \in Nat /\ b.offset \in [Names -> Nat]
    BY DEF Placement
  <2>2. Start(t, b.size, p) \in Nat
    BY <1>2, <1>4, <2>1, StartIs
  <2>3. End(t, b.size, f) \in Nat
    BY <1>4, <2>1, EndRoom
  <2>4. PlaceNext(t, b, f) =
          [ok |-> TRUE, offset |-> [b.offset EXCEPT ![f.name] = Start(t, b.size, p)],
           size |-> End(t, b.size, f)]
    BY <1>4 DEF PlaceNext
  <2> HIDE DEF p
  <2>5. [b.offset EXCEPT ![f.name] = Start(t, b.size, p)] \in [Names -> Nat]
    BY <1>1, <2>1, <2>2
  <2> QED  BY <2>3, <2>4, <2>5 DEF Placement
<1> QED  BY <1>3, <1>4 DEF Placement

\* The recursive function of Place exists and is such a list of placements.
LEMMA PlaceIs ==
  ASSUME TypeOK, ElemInv, NEW t \in Compound, NEW fs \in Seq(Field)
  PROVE  \E a : Placed(a, t, fs)
<1> DEFINE n == Len(fs)
           s0 == [ok |-> TRUE, offset |-> offset[t], size |-> 0]
           Body(g) == [i \in 0..n |->
             IF i = 0 THEN [ok |-> TRUE, offset |-> offset[t], size |-> 0]
             ELSE LET f == fs[i]
                      before == g[i - 1]
                      first == Parts(f.type)[1]
                  IN IF ~before.ok \/ ~Alignable(t, first)
                     THEN [before EXCEPT !.ok = FALSE]
                     ELSE [ok |-> TRUE,
                           offset |-> [before.offset EXCEPT ![f.name] = Start(t, before.size, first)],
                           size |-> End(t, before.size, f)]]
           D == [x \in (1..n) \X Placement |-> PlaceNext(t, x[2], fs[x[1]])]
           after == CHOOSE g : g = Body(g)
<1>1. n \in Nat /\ \A i \in 1..n : fs[i] \in Field
  OBVIOUS
<1>2. Place(t, fs) = after[n]
  BY DEF Place
<1>3. s0 \in Placement
  BY DEF TypeOK, Placement
<1>4. \A g : Body(g) = [i \in 0..n |-> IF i = 0 THEN s0 ELSE PlaceNext(t, g[i - 1], fs[i])]
  BY DEF PlaceNext
<1> HIDE DEF n, s0, Body
<1>5. /\ D \in [(1..n) \X Placement -> Placement]
      /\ \A i \in 1..n : \A b \in Placement : D[<<i, b>>] = PlaceNext(t, b, fs[i])
  <2>1. \A x \in (1..n) \X Placement : PlaceNext(t, x[2], fs[x[1]]) \in Placement
    BY <1>1, PlaceNextType
  <2> QED  BY <2>1
<1> HIDE DEF D
<1>6. PICK g : StepFunction(g, n, Placement, s0, D)
  <2>1. StepData(n, Placement, s0, D)
    BY <1>1, <1>3, <1>5 DEF StepData
  <2> QED  BY <2>1, StepRecursion
<1>7. g = Body(g)
  <2> USE <1>6 DEF StepFunction
  <2>1. ASSUME NEW i \in 0..n
        PROVE  g[i] = IF i = 0 THEN s0 ELSE PlaceNext(t, g[i - 1], fs[i])
    <3>1. CASE i # 0
      <4>1. i \in 1..n /\ i - 1 \in 0..n
        BY <1>1, <3>1
      <4> QED  BY <1>1, <1>5, <3>1, <4>1
    <3> QED  BY <3>1
  <2>2. g = [i \in 0..n |-> g[i]]
    OBVIOUS
  <2> QED  BY <1>4, <2>1, <2>2
<1>8. after = Body(after)
  BY <1>7
<1> HIDE DEF after
<1>9. after[0] = s0 /\ \A i \in 1..n : i - 1 \in 0..n /\ after[i] = PlaceNext(t, after[i - 1], fs[i])
  BY <1>1, <1>4, <1>8
<1>10. \A i \in 0..n : after[i] \in Placement
  <2> DEFINE S == {i \in 0..n : after[i] \in Placement}
  <2>1. 0 \in S /\ 0 \in Nat
    BY <1>1, <1>3, <1>9
  <2>2. ASSUME NEW i \in 0..n - 1, i \in S  PROVE i + 1 \in S
    <3>1. i + 1 \in 1..n /\ i + 1 \in 0..n /\ (i + 1) - 1 = i /\ after[i] \in Placement
      BY <1>1, <2>2
    <3>2. after[i + 1] = PlaceNext(t, after[i], fs[i + 1])
      BY <1>9, <3>1
    <3>3. fs[i + 1] \in Field
      BY <1>1, <3>1
    <3> QED  BY <3>1, <3>2, <3>3, PlaceNextType
  <2> HIDE DEF S
  <2>3. 0..n \subseteq S
    BY <1>1, <2>1, <2>2, RangeInduction
  <2> QED  BY <2>3 DEF S
<1>11. after \in [0..n -> Placement]
  <2>1. after = [i \in 0..n |-> after[i]]
    BY <1>4, <1>8
  <2> QED  BY <1>10, <2>1
<1>12. Placed(after, t, fs)
  BY <1>2, <1>9, <1>11 DEF Placed, s0, n
<1> QED  BY <1>12

-----------------------------------------------------------------------------
(* recalc().                                                               *)

\* A list of fields that is not empty.
LEMMA FieldsAre ==
  ASSUME NEW fs \in Seq(Field), fs # <<>>
  PROVE  /\ Len(fs) \in Nat \ {0} /\ DOMAIN fs = 1..Len(fs)
         /\ \A i \in 1..Len(fs) : fs[i] \in Field /\ fs[i].type \in TypeRef /\ fs[i].name \in Names
<1>1. Len(fs) \in Nat /\ DOMAIN fs = 1..Len(fs) /\ \A i \in 1..Len(fs) : fs[i] \in Field
  OBVIOUS
<1>2. Len(fs) # 0
  BY EmptySeq
<1> QED  BY <1>1, <1>2 DEF Field

\* A struct with fields is aligned to something.
LEMMA AlignmentIs ==
  ASSUME TypeOK, NEW t \in Compound, NEW fs \in Seq(Field), fs # <<>>
  PROVE  StructAlignment(t, fs) \in Nat \ {0}
<1> DEFINE n == Len(fs)
           f == [i \in 1..n |-> AlignOf(fs[i].type)]
           S == {AlignOf(fs[i].type) : i \in DOMAIN fs}
           F == {f[i] : i \in 1..n}
<1>1. n \in Nat /\ n # 0 /\ DOMAIN fs = 1..n /\ \A i \in 1..n : fs[i].type \in TypeRef
  BY FieldsAre
<1>2. \A i \in 1..n : f[i] \in Nat \ {0}
  BY <1>1, RefIs
<1>3. S = F
  BY <1>1
<1>4. StructAlignment(t, fs) = IF kind[t] = "packed" THEN Min(S) ELSE Max(S)
  BY DEF StructAlignment
<1> HIDE DEF f, n, S
<1>5. Max(F) \in F /\ Min(F) \in F
  BY <1>1, <1>2, ExtremesOf
<1>6. \A x \in F : x \in Nat \ {0}
  BY <1>2
<1> QED  BY <1>3, <1>4, <1>5, <1>6

\* Everything a union needs to know: it holds each of its fields.
LEMMA UnionIs ==
  ASSUME TypeOK, NEW t \in Compound, NEW fs \in Seq(Field), fs # <<>>
  PROVE  LET u == RecalcUnion(t, fs)
         IN /\ u.ok = TRUE /\ u.offset = offset[t]
            /\ u.alignment \in Nat \ {0} /\ u.size \in Nat
            /\ \A i \in 1..Len(fs) : SizeOf(fs[i].type) <= u.size
<1> DEFINE n == Len(fs)
           a == [i \in 1..n |-> AlignOf(fs[i].type)]
           z == [i \in 1..n |-> SizeOf(fs[i].type)]
           A == {a[i] : i \in 1..n}
           Z == {z[i] : i \in 1..n}
           u == RecalcUnion(t, fs)
<1>1. n \in Nat /\ n # 0 /\ DOMAIN fs = 1..n /\ \A i \in 1..n : fs[i].type \in TypeRef
  BY FieldsAre
<1>2. \A i \in 1..n : a[i] \in Nat \ {0} /\ z[i] \in Nat
  BY <1>1, RefIs
<1>3. A = {AlignOf(fs[i].type) : i \in DOMAIN fs} /\ Z = {SizeOf(fs[i].type) : i \in DOMAIN fs}
  BY <1>1
<1>4. u = [ok |-> TRUE, offset |-> offset[t], alignment |-> Max(A), size |-> PadTo(Max(Z), Max(A))]
  BY <1>3 DEF RecalcUnion
<1>5. \A i \in 1..n : z[i] = SizeOf(fs[i].type)
  OBVIOUS
<1> HIDE DEF n, a, z, u
<1>6. Max(A) \in A /\ Max(Z) \in Z /\ \A i \in 1..n : z[i] <= Max(Z)
  BY <1>1, <1>2, ExtremesOf
<1>7. Max(A) \in Nat \ {0} /\ Max(Z) \in Nat
  BY <1>2, <1>6
<1> HIDE DEF A, Z
<1>8. PadTo(Max(Z), Max(A)) \in Nat /\ Max(Z) <= PadTo(Max(Z), Max(A))
  BY <1>7, PadToIs
<1>9. u.size \in Nat /\ u.alignment \in Nat \ {0} /\ \A i \in 1..n : z[i] <= u.size
  BY <1>2, <1>4, <1>6, <1>7, <1>8
<1>10. u.ok = TRUE /\ u.offset = offset[t]
  BY <1>4
<1> QED  BY <1>5, <1>9, <1>10 DEF u, n

\* What recalc() assigns has its type, also when an assertion fails.
LEMMA RecalcType ==
  ASSUME TypeOK, ElemInv, NEW t \in Compound, NEW fs \in Seq(Field), fs # <<>>,
         Keys(fs) \in Seq(Field)
  PROVE  LET r == Recalc(t, fs)
         IN r.ok \in BOOLEAN /\ r.offset \in [Names -> Nat] /\ r.size \in Nat /\ r.alignment \in Nat
<1>1. CASE kind[t] = "union"
  <2>1. offset[t] \in [Names -> Nat]
    BY DEF TypeOK
  <2>2. Recalc(t, fs) = RecalcUnion(t, fs)
    BY <1>1 DEF Recalc
  <2> QED  BY <2>1, <2>2, UnionIs
<1>2. CASE kind[t] # "union"
  <2> DEFINE end == Place(t, Keys(fs))
             align == StructAlignment(t, fs)
  <2>1. end \in Placement
    <3>1. PICK a : Placed(a, t, Keys(fs))
      BY PlaceIs
    <3>2. Len(Keys(fs)) \in 0..Len(Keys(fs)) /\ end = a[Len(Keys(fs))]
      BY <3>1 DEF Placed
    <3> QED  BY <3>1, <3>2 DEF Placed
  <2>2. align \in Nat \ {0}
    BY AlignmentIs
  <2>3. Recalc(t, fs) = [ok |-> end.ok, offset |-> end.offset, alignment |-> align,
                         size |-> IF end.ok THEN PadTo(end.size, align) ELSE end.size]
    BY <1>2 DEF Recalc, RecalcStruct
  <2> HIDE DEF end, align
  <2>4. end.size \in Nat /\ end.ok \in BOOLEAN /\ end.offset \in [Names -> Nat]
    BY <2>1 DEF Placement
  <2>5. PadTo(end.size, align) \in Nat
    BY <2>2, <2>4, PadToIs
  <2> QED  BY <2>2, <2>3, <2>4, <2>5
<1> QED  BY <1>1, <1>2

NamesInv == \A t \in Compound : UniqueNames(fields[t])

UnionInv == \A t \in Compound : kind[t] = "union" => offset[t] = [n \in Names |-> 0]

DefinedInv ==
  \A t \in Compound :
    /\ length[t] = -1 => elem[t] = NoType
    /\ t \in Arrays => fields[t] = <<>>
    /\ \A r \in TypesIn(t) : Exists(r) /\ (r.base \in Compound => r.base < t)

LayoutInv == TypeOK /\ ElemInv /\ NamesInv /\ UnionInv /\ DefinedInv /\ created \subseteq Records

LEMMA CompoundIs == Compound \subseteq Nat \ {0} /\ 0 \notin Prims /\ 0 \notin Compound
BY NAssumption, PrimAssumption DEF Compound

LEMMA NoTypeIs == ~(NoType.base \in Compound) /\ Exists(NoType)
BY CompoundIs DEF NoType, Exists, Arrays

\* The invariant holds at first and each action keeps it.
LEMMA InitInv == Init => LayoutInv
<1> SUFFICES ASSUME Init  PROVE LayoutInv
  OBVIOUS
<1>1. TypeOK
  <2>1. <<>> \in Seq(Field)
    BY EmptySeq
  <2> QED  BY <2>1 DEF TypeOK, Init
<1>2. ElemInv
  BY DEF ElemInv, Init
<1>3. NamesInv
  BY DEF NamesInv, UniqueNames, Init
<1>4. UnionInv /\ created \subseteq Records
  BY DEF UnionInv, Init
<1>5. DefinedInv
  <2> SUFFICES ASSUME NEW t \in Compound, NEW r \in TypesIn(t)
               PROVE  Exists(r) /\ (r.base \in Compound => r.base < t)
    BY DEF DefinedInv, Init
  <2>1. r = NoType
    <3>1. elem[t] = NoType /\ fields[t] = <<>> /\ DOMAIN fields[t] = {}
      BY DEF Init
    <3> QED  BY <3>1 DEF TypesIn
  <2> QED  BY <2>1, NoTypeIs
<1> QED  BY <1>1, <1>2, <1>3, <1>4, <1>5 DEF LayoutInv

\* A field is added, or takes the place of the one with its name.
LEMMA WithFieldIs ==
  ASSUME NEW fs \in Seq(Field), UniqueNames(fs), NEW n \in Names, NEW r \in TypeRef
  PROVE  LET gs == WithField(fs, n, r)
         IN /\ gs \in Seq(Field) /\ gs # <<>> /\ UniqueNames(gs)
            /\ \A i \in 1..Len(gs) : gs[i].type = r \/ \E j \in 1..Len(fs) : gs[i] = fs[j]
<1> DEFINE field == [name |-> n, type |-> r]
           gs == WithField(fs, n, r)
<1>1. field \in Field /\ field.name = n /\ field.type = r
  BY DEF Field
<1>2. Len(fs) \in Nat /\ DOMAIN fs = 1..Len(fs) /\ \A i \in 1..Len(fs) : fs[i] \in Field
  OBVIOUS
<1>3. \A i, j \in 1..Len(fs) : fs[i].name = fs[j].name => i = j
  BY DEF UniqueNames
<1>4. CASE \E i \in DOMAIN fs : fs[i].name = n
  <2>1. gs = [i \in 1..Len(fs) |-> IF fs[i].name = n THEN field ELSE fs[i]]
    BY <1>2, <1>4 DEF WithField
  <2> HIDE DEF gs, field
  <2>2. gs \in Seq(Field) /\ Len(gs) = Len(fs) /\ \A i \in 1..Len(fs) : gs[i] = IF fs[i].name = n THEN field ELSE fs[i]
    BY <1>1, <1>2, <2>1
  <2>3. gs # <<>>
    <3>1. Len(gs) # 0 /\ Len(<<>>) = 0
      BY <1>2, <1>4, <2>2
    <3> QED  BY <3>1
  <2>4. \A i \in 1..Len(fs) : gs[i].name = fs[i].name
    BY <1>1, <2>2
  <2>5. UniqueNames(gs)
    BY <1>3, <2>2, <2>4 DEF UniqueNames
  <2>6. \A i \in 1..Len(gs) : gs[i].type = r \/ \E j \in 1..Len(fs) : gs[i] = fs[j]
    BY <1>1, <2>2
  <2> QED  BY <2>2, <2>3, <2>5, <2>6 DEF gs
<1>5. CASE ~ \E i \in DOMAIN fs : fs[i].name = n
  <2>1. gs = Append(fs, field)
    BY <1>5 DEF WithField
  <2> HIDE DEF gs, field
  <2>2. /\ gs \in Seq(Field) /\ Len(gs) = Len(fs) + 1
        /\ (\A i \in 1..Len(fs) : gs[i] = fs[i]) /\ gs[Len(fs) + 1] = field
    BY <1>1, <1>2, <2>1
  <2>3. gs # <<>>
    <3>1. Len(gs) # 0 /\ Len(<<>>) = 0
      BY <1>2, <2>2
    <3> QED  BY <3>1
  <2>4. \A i \in 1..Len(gs) : i \in 1..Len(fs) \/ i = Len(fs) + 1
    BY <1>2, <2>2
  <2>5. \A i \in 1..Len(fs) : fs[i].name # n
    BY <1>2, <1>5
  <2>6. UniqueNames(gs)
    BY <1>1, <1>3, <2>2, <2>4, <2>5 DEF UniqueNames
  <2>7. \A i \in 1..Len(gs) : gs[i].type = r \/ \E j \in 1..Len(fs) : gs[i] = fs[j]
    BY <1>1, <2>2, <2>4
  <2> QED  BY <2>2, <2>3, <2>6, <2>7 DEF gs
<1> QED  BY <1>4, <1>5

LEMMA DefinePropertyInv ==
  ASSUME LayoutInv, NEW t \in Compound, NEW f \in Menu[t], DefineProperty(t, f.name, f.type)
  PROVE  LayoutInv'
<1> DEFINE n == f.name
           r == f.type
           fs == WithField(fields[t], n, r)
           l == Recalc(t, fs)
<1>1. n \in Names /\ r \in TypeRef /\ (r.base \in Compound => r.base < t) /\ Exists(r) /\ t \in Records
  <2>1. f \in Field /\ (f.type.base \in Compound => f.type.base < t)
    BY MenuAssumption
  <2> QED  BY <2>1 DEF Field, DefineProperty, Definable
<1> USE DEF LayoutInv
<1>2. /\ fields[t] \in Seq(Field)
      /\ UniqueNames(fields[t])
  BY DEF TypeOK, NamesInv
<1>3. /\ fields' = [fields EXCEPT ![t] = fs]
      /\ offset' = [offset EXCEPT ![t] = l.offset]
      /\ size' = [size EXCEPT ![t] = l.size]
      /\ alignment' = [alignment EXCEPT ![t] = l.alignment]
      /\ accessors' = [accessors EXCEPT ![t] = IF l.ok THEN @ \cup {n} ELSE @]
      /\ UNCHANGED <<kind, elem, length, created, ffi_type>>
  BY DEF DefineProperty
<1> HIDE DEF n, r
<1>4. /\ fs \in Seq(Field) /\ fs # <<>> /\ UniqueNames(fs)
      /\ \A i \in 1..Len(fs) : fs[i].type = r \/ \E j \in 1..Len(fields[t]) : fs[i] = fields[t][j]
  BY <1>1, <1>2, WithFieldIs
<1> HIDE DEF fs
<1>5. l.ok \in BOOLEAN /\ l.offset \in [Names -> Nat] /\ l.size \in Nat /\ l.alignment \in Nat
  <2>1. Keys(fs) \in Seq(Field)
    BY <1>4, KeysAre
  <2> QED  BY <1>4, <2>1, RecalcType
<1>6. kind[t] = "union" => l.offset = offset[t]
  <2> SUFFICES ASSUME kind[t] = "union"  PROVE l.offset = offset[t]
    OBVIOUS
  <2>1. l = RecalcUnion(t, fs)
    BY DEF Recalc
  <2> QED  BY <1>4, <2>1, UnionIs
<1> HIDE DEF l
<1>7. TypeOK'
  <2> USE DEF TypeOK
  <2>1. fields' \in [Compound -> Seq(Field)] /\ offset' \in [Compound -> [Names -> Nat]]
    BY <1>3, <1>4, <1>5
  <2>2. size' \in [Compound -> Nat] /\ alignment' \in [Compound -> Nat]
    BY <1>3, <1>5
  <2>3. accessors' \in [Compound -> SUBSET Names]
    BY <1>1, <1>3, <1>5
  <2> QED  BY <1>3, <2>1, <2>2, <2>3
<1>8. ElemInv'
  BY <1>3 DEF ElemInv
<1>9. NamesInv' /\ UnionInv'
  <2>1. \A u \in Compound : fields'[u] = IF u = t THEN fs ELSE fields[u]
    BY <1>3 DEF TypeOK
  <2>2. \A u \in Compound : offset'[u] = IF u = t THEN l.offset ELSE offset[u]
    BY <1>3 DEF TypeOK
  <2>3. NamesInv'
    BY <1>4, <2>1 DEF NamesInv
  <2>4. UnionInv'
    BY <1>3, <1>6, <2>2 DEF UnionInv
  <2> QED  BY <2>3, <2>4
<1>10. DefinedInv'
  <2>1. \A u \in Compound : /\ length'[u] = -1 => elem'[u] = NoType
                            /\ u \in Arrays' => fields'[u] = <<>>
    BY <1>1, <1>3 DEF DefinedInv, Arrays, Records, TypeOK
  <2>2. Arrays' = Arrays /\ \A q : Exists(q)' = Exists(q)
    BY <1>3 DEF Arrays, Exists
  <2>3. ASSUME NEW u \in Compound, NEW q \in TypesIn(u)'
        PROVE  Exists(q) /\ (q.base \in Compound => q.base < u)
    <3>1. CASE u # t
      <4>1. TypesIn(u)' = TypesIn(u)
        BY <1>3, <2>2, <3>1 DEF TypesIn, TypeOK
      <4> QED  BY <2>3, <4>1 DEF DefinedInv
    <3>2. CASE u = t
      <4>1. t \notin Arrays /\ fields'[t] = fs /\ DOMAIN fs = 1..Len(fs)
        BY <1>1, <1>3, <1>4 DEF Records, TypeOK
      <4>2. PICK i \in 1..Len(fs) : q = fs[i].type
        BY <2>2, <2>3, <3>2, <4>1 DEF TypesIn
      <4>3. CASE q = r
        BY <1>1, <3>2, <4>3
      <4>4. CASE \E j \in 1..Len(fields[t]) : fs[i] = fields[t][j]
        <5>1. PICK j \in 1..Len(fields[t]) : q = fields[t][j].type
          BY <4>2, <4>4
        <5>2. j \in DOMAIN fields[t]
          BY <1>2, <5>1
        <5>3. q \in TypesIn(t)
          BY <4>1, <5>1, <5>2 DEF TypesIn
        <5> QED  BY <3>2, <5>3 DEF DefinedInv
      <4> QED  BY <1>4, <4>2, <4>3, <4>4
    <3> QED  BY <3>1, <3>2
  <2> QED  BY <2>1, <2>2, <2>3 DEF DefinedInv
<1>11. created' \subseteq Records'
  BY <1>3 DEF Records, Arrays
<1> QED  BY <1>7, <1>8, <1>9, <1>10, <1>11

LEMMA DefineArrayInv ==
  ASSUME LayoutInv, NEW t \in Compound, NEW f \in Menu[t], NEW len \in Lengths,
         DefineArray(t, f.type, len)
  PROVE  LayoutInv'
<1> DEFINE r == f.type
<1>1. r \in TypeRef /\ (r.base \in Compound => r.base < t)
  <2>1. f \in Field /\ (f.type.base \in Compound => f.type.base < t)
    BY MenuAssumption
  <2> QED  BY <2>1 DEF Field
<1> USE DEF LayoutInv
<1>2. /\ t \in Arrays /\ length[t] = -1 /\ Exists(r)
      /\ elem' = [elem EXCEPT ![t] = r]
      /\ length' = [length EXCEPT ![t] = len]
      /\ size' = [size EXCEPT ![t] = IF len > 0 THEN SizeOf(r) * len ELSE PointerSize]
      /\ alignment' = [alignment EXCEPT ![t] = IF len > 0 THEN RawAlign(r) ELSE PointerSize]
      /\ UNCHANGED <<kind, fields, accessors, offset, created, ffi_type>>
  BY DEF DefineArray
<1> HIDE DEF r
<1>3. len \in Nat /\ SizeOf(r) \in Nat /\ RawAlign(r) \in Nat /\ PointerSize \in Nat
  BY <1>1, RefIs, LengthsAssumption, PrimAssumption
<1>4. SizeOf(r) * len \in Nat
  BY <1>3
<1>5. TypeOK'
  <2> USE DEF TypeOK
  <2>1. size' \in [Compound -> Nat] /\ alignment' \in [Compound -> Nat]
    BY <1>2, <1>3, <1>4
  <2>2. elem' \in [Compound -> TypeRef \cup {NoType}] /\ length' \in [Compound -> Nat \cup {-1}]
    BY <1>1, <1>2, <1>3
  <2> QED  BY <1>2, <2>1, <2>2
<1>6. \A u \in Compound : /\ elem'[u] = IF u = t THEN r ELSE elem[u]
                          /\ length'[u] = IF u = t THEN len ELSE length[u]
  BY <1>2 DEF TypeOK
<1>7. ElemInv'
  BY <1>1, <1>2, <1>6 DEF ElemInv, Arrays
<1>8. NamesInv' /\ UnionInv' /\ created' \subseteq Records'
  BY <1>2 DEF NamesInv, UnionInv, Records, Arrays
<1>9. DefinedInv'
  <2>1. \A u \in Compound : /\ length'[u] = -1 => elem'[u] = NoType
                            /\ u \in Arrays' => fields'[u] = <<>>
    BY <1>2, <1>3, <1>6 DEF DefinedInv, Arrays
  <2>2. Arrays' = Arrays
    BY <1>2 DEF Arrays
  <2>3. \A q : Exists(q) => Exists(q)'
    BY <1>3, <1>6, <2>2 DEF Exists, Arrays
  <2>4. ASSUME NEW u \in Compound, NEW q \in TypesIn(u)'
        PROVE  Exists(q) /\ (q.base \in Compound => q.base < u)
    <3>1. CASE u # t
      <4>1. TypesIn(u)' = TypesIn(u)
        BY <1>2, <1>6, <2>2, <3>1 DEF TypesIn
      <4> QED  BY <2>4, <4>1 DEF DefinedInv
    <3>2. CASE u = t
      <4>1. q = r
        BY <1>2, <1>6, <2>2, <2>4, <3>2 DEF TypesIn
      <4> QED  BY <1>1, <1>2, <3>2, <4>1
    <3> QED  BY <3>1, <3>2
  <2> QED  BY <2>1, <2>3, <2>4 DEF DefinedInv
<1> QED  BY <1>5, <1>7, <1>8, <1>9

\* A type in a type is before it.
LEMMA EmbeddedBefore ==
  ASSUME LayoutInv, NEW t \in Compound, NEW r \in TypesIn(t)
  PROVE  /\ r \in TypeRef \/ r = NoType
         /\ r \in TypeRef => r.base \in Prims \/ (r.base \in 1..t - 1 /\ r.base \in Compound)
         /\ t \in Records \/ length[t] # -1 => r \in TypeRef
<1>1. Compound = 1..N /\ N \in Nat
  BY NAssumption DEF Compound
<1>2. CASE t \in Arrays
  <2>1. r = elem[t]
    BY <1>2 DEF TypesIn
  <2>2. length[t] # -1 => r \in TypeRef
    BY <2>1 DEF LayoutInv, ElemInv
  <2>3. length[t] = -1 => r = NoType
    BY <2>1 DEF LayoutInv, DefinedInv
  <2>4. r.base \in Compound => r.base < t
    BY DEF LayoutInv, DefinedInv
  <2> QED  BY <1>1, <1>2, <2>2, <2>3, <2>4 DEF TypeRef, Records
<1>3. CASE t \notin Arrays
  <2>1. PICK i \in DOMAIN fields[t] : r = fields[t][i].type
    BY <1>3 DEF TypesIn
  <2>2. fields[t] \in Seq(Field)
    BY DEF LayoutInv, TypeOK
  <2>3. fields[t][i] \in Field
    BY <2>2
  <2>4. r \in TypeRef
    BY <2>1, <2>3 DEF Field
  <2>5. r.base \in Compound => r.base < t
    BY DEF LayoutInv, DefinedInv
  <2> QED  BY <1>1, <2>4, <2>5 DEF TypeRef
<1> QED  BY <1>2, <1>3

\* What the ffi_type of a type may list: parts of it are before it.
NodesBefore(t) == Prims \cup {0} \cup (1..t - 1)

PartNodes(f) == [i \in DOMAIN Parts(f.type) |-> Node(Parts(f.type)[i])]

LEMMA PartNodesAre ==
  ASSUME LayoutInv, NEW t \in Compound, NEW f \in Field, f.type \in TypesIn(t)
  PROVE  LET m == Len(Parts(f.type))
             p == Parts(f.type)[1]
         IN /\ m \in Nat \ {0} /\ p \in TypeRef
            /\ PartNodes(f) = [i \in 1..m |-> Node(p)]
            /\ Node(p) \in NodesBefore(t)
            /\ PartNodes(f) \in Seq(NodesBefore(t)) /\ Len(PartNodes(f)) = m
<1> DEFINE m == Len(Parts(f.type))
           p == Parts(f.type)[1]
           r == f.type
<1>1. r \in TypeRef /\ TypeOK /\ ElemInv
  BY DEF Field, LayoutInv
<1>2. /\ p \in TypeRef /\ DOMAIN Parts(r) = 1..m
      /\ m = (IF FixedLength(r) > 0 THEN FixedLength(r) ELSE 1)
      /\ p = (IF FixedLength(r) > 0 THEN elem[r.base] ELSE r)
      /\ \A i \in 1..m : Parts(r)[i] = p
  BY <1>1, PartsAre
<1>3. m \in Nat \ {0}
  <2>1. FixedLength(r) \in Nat \cup {-1}
    BY <1>1, RefIs
  <2> QED  BY <1>2, <2>1
<1>4. p.base \in Prims \/ p.base \in 1..t - 1
  <2>1. r.base \in Prims \/ (r.base \in 1..t - 1 /\ r.base \in Compound)
    BY <1>1, EmbeddedBefore
  <2>2. CASE ~(FixedLength(r) > 0)
    BY <1>2, <2>1, <2>2
  <2>3. CASE FixedLength(r) > 0
    <3> DEFINE b == r.base
    <3>1. b \in Arrays /\ length[b] > 0 /\ b \in 1..t - 1 /\ b \in Compound /\ p = elem[b]
      BY <1>2, <2>1, <2>3, PrimAssumption DEF FixedLength, Arrays
    <3>2. elem[b] \in TypesIn(b)
      BY <3>1 DEF TypesIn
    <3>3. p.base \in Prims \/ p.base \in 1..b - 1
      BY <1>2, <3>1, <3>2, EmbeddedBefore
    <3>4. t \in Nat /\ b \in Nat /\ b < t
      BY <3>1, NAssumption DEF Compound
    <3> HIDE DEF p
    <3> QED  BY <3>1, <3>3, <3>4
  <2> QED  BY <2>2, <2>3
<1> HIDE DEF m, p
<1>5. Node(p) \in NodesBefore(t)
  BY <1>4 DEF Node, NodesBefore
<1>6. PartNodes(f) = [i \in 1..m |-> Node(p)]
  BY <1>2 DEF PartNodes
<1>7. PartNodes(f) \in Seq(NodesBefore(t)) /\ Len(PartNodes(f)) = m
  BY <1>3, <1>5, <1>6
<1> QED  BY <1>2, <1>3, <1>5, <1>6, <1>7 DEF m, p

\* The list grows by the parts of one field after the other.
Listed(nodes, t) ==
  LET fs == Keys(fields[t])
  IN /\ fs \in Seq(Field) /\ Len(fs) \in Nat
     /\ \A i \in 1..Len(fs) : fs[i] \in Field /\ fs[i].type \in TypesIn(t)
     /\ nodes \in [0..Len(fs) -> Seq(NodesBefore(t))]
     /\ nodes[0] = <<>>
     /\ \A i \in 1..Len(fs) : nodes[i] = nodes[i - 1] \o PartNodes(fs[i])
     /\ Elements(t) = nodes[Len(fs)]

LEMMA ElementsAre ==
  ASSUME LayoutInv, NEW t \in Compound
  PROVE  \E nodes : Listed(nodes, t)
<1> DEFINE fs == Keys(fields[t])
           n == Len(fs)
           T == Seq(NodesBefore(t))
           Body(g) == [i \in 0..n |-> IF i = 0 THEN <<>> ELSE g[i - 1] \o PartNodes(fs[i])]
           D == [x \in (1..n) \X T |-> x[2] \o PartNodes(fs[x[1]])]
           nodes == CHOOSE g : g = Body(g)
<1>1. fs \in Seq(Field) /\ n \in Nat /\ \A i \in 1..n : fs[i] \in Field /\ fs[i].type \in TypesIn(t)
  <2>1. fields[t] \in Seq(Field) /\ UniqueNames(fields[t]) /\ DOMAIN fields[t] = 1..Len(fields[t])
    BY DEF LayoutInv, TypeOK, NamesInv
  <2>2. fs \in Seq(Field) /\ \A i \in 1..n : \E j \in 1..Len(fields[t]) : fs[i] = fields[t][j]
    BY <2>1, KeysAre
  <2>3. ASSUME NEW j \in 1..Len(fields[t])  PROVE fields[t][j].type \in TypesIn(t)
    <3>1. t \notin Arrays
      <4>1. Len(<<>>) = 0 /\ Len(fields[t]) # 0
        BY <2>1, <2>3
      <4>2. t \in Arrays => fields[t] = <<>>
        BY DEF LayoutInv, DefinedInv
      <4> QED  BY <4>1, <4>2
    <3> QED  BY <2>1, <3>1 DEF TypesIn
  <2> HIDE DEF fs
  <2> QED  BY <2>2, <2>3
<1>2. Elements(t) = nodes[n]
  BY DEF Elements, PartNodes
<1> HIDE DEF fs
<1>3. \A i \in 1..n : PartNodes(fs[i]) \in T
  BY <1>1, PartNodesAre
<1> HIDE DEF n, Body
<1>4. /\ D \in [(1..n) \X T -> T]
      /\ \A i \in 1..n : \A s \in T : D[<<i, s>>] = s \o PartNodes(fs[i])
  <2>1. \A x \in (1..n) \X T : x[2] \o PartNodes(fs[x[1]]) \in T
    <3> SUFFICES ASSUME NEW x \in (1..n) \X T
                 PROVE  x[2] \o PartNodes(fs[x[1]]) \in T
      OBVIOUS
    <3>1. x[2] \in T /\ PartNodes(fs[x[1]]) \in T
      BY <1>1, <1>3
    <3> QED  BY <3>1, ConcatProperties
  <2> QED  BY <2>1
<1> HIDE DEF D
<1>5. <<>> \in T
  BY EmptySeq
<1>6. PICK g : StepFunction(g, n, T, <<>>, D)
  <2>1. StepData(n, T, <<>>, D)
    BY <1>1, <1>4, <1>5 DEF StepData
  <2> QED  BY <2>1, StepRecursion
<1>7. g = Body(g)
  <2> USE <1>6 DEF StepFunction
  <2>1. ASSUME NEW i \in 0..n
        PROVE  g[i] = IF i = 0 THEN <<>> ELSE g[i - 1] \o PartNodes(fs[i])
    <3>1. CASE i # 0
      <4>1. i \in 1..n /\ i - 1 \in 0..n
        BY <1>1, <3>1
      <4> QED  BY <1>1, <1>4, <3>1, <4>1
    <3> QED  BY <3>1
  <2>2. g = [i \in 0..n |-> g[i]]
    OBVIOUS
  <2> QED  BY <2>1, <2>2 DEF Body
<1>8. nodes = Body(nodes)
  BY <1>7
<1> HIDE DEF nodes
<1> DEFINE empty == <<>>
<1>9. nodes = [i \in 0..n |-> IF i = 0 THEN empty ELSE nodes[i - 1] \o PartNodes(fs[i])]
  BY <1>8 DEF Body
<1> HIDE DEF empty
<1>10. nodes[0] = empty /\ \A i \in 1..n : i - 1 \in 0..n /\ nodes[i] = nodes[i - 1] \o PartNodes(fs[i])
  <2>1. nodes[0] = empty
    BY <1>1, <1>9
  <2>2. ASSUME NEW i \in 1..n
        PROVE  i - 1 \in 0..n /\ nodes[i] = nodes[i - 1] \o PartNodes(fs[i])
    <3>1. i \in 0..n /\ i # 0 /\ i - 1 \in 0..n
      BY <1>1
    <3> QED  BY <1>9, <3>1
  <2> QED  BY <2>1, <2>2
<1> DEFINE S == {i \in 0..n : nodes[i] \in T}
<1>11. 0 \in S /\ 0 \in Nat
  <2>1. nodes[0] \in T
    BY <1>5, <1>10 DEF empty
  <2> QED  BY <1>1, <2>1
<1>12. ASSUME NEW i \in 0..n - 1, i \in S  PROVE i + 1 \in S
  <2>1. i + 1 \in 1..n /\ i + 1 \in 0..n /\ (i + 1) - 1 = i /\ nodes[i] \in T
    BY <1>1, <1>12
  <2>2. nodes[i + 1] = nodes[i] \o PartNodes(fs[i + 1]) /\ PartNodes(fs[i + 1]) \in T
    BY <1>3, <1>10, <2>1
  <2> QED  BY <2>1, <2>2, ConcatProperties
<1> HIDE DEF S
<1>13. 0..n \subseteq S
  BY <1>1, <1>11, <1>12, RangeInduction
<1>14. nodes \in [0..n -> T]
  <2>1. nodes = [i \in 0..n |-> nodes[i]]
    BY <1>9
  <2>2. \A i \in 0..n : nodes[i] \in T
    BY <1>13 DEF S
  <2> QED  BY <2>1, <2>2
<1>15. nodes[0] = <<>>
  BY <1>10 DEF empty
<1>16. Listed(nodes, t)
  BY <1>1, <1>2, <1>10, <1>14, <1>15 DEF Listed, fs, n
<1> QED  BY <1>16

\* The ffi_type of a type lists primitive types, pointers and types before it.
LEMMA ElementsType ==
  ASSUME LayoutInv, NEW t \in Compound
  PROVE  /\ Elements(t) \in Seq(NodesBefore(t))
         /\ Elements(t) \in Seq(Prims \cup Compound \cup {0})
<1>1. Elements(t) \in Seq(NodesBefore(t))
  <2>1. PICK nodes : Listed(nodes, t)
    BY ElementsAre
  <2>2. Len(Keys(fields[t])) \in 0..Len(Keys(fields[t]))
    BY <2>1 DEF Listed
  <2> QED  BY <2>1, <2>2 DEF Listed
<1>2. NodesBefore(t) \subseteq Prims \cup Compound \cup {0}
  BY NAssumption DEF NodesBefore, Compound
<1> QED  BY <1>1, <1>2

LEMMA NewInstanceInv ==
  ASSUME LayoutInv, NEW t \in Compound, NewInstance(t)
  PROVE  LayoutInv'
<1> USE DEF LayoutInv, NewInstance
<1>1. TypeOK'
  BY DEF TypeOK, layoutVars
<1>2. ElemInv' /\ NamesInv' /\ UnionInv'
  BY DEF ElemInv, NamesInv, UnionInv, layoutVars
<1>3. DefinedInv'
  BY DEF DefinedInv, TypesIn, Exists, Arrays, layoutVars
<1>4. created' \subseteq Records'
  BY DEF Records, Arrays, layoutVars
<1> QED  BY <1>1, <1>2, <1>3, <1>4

LEMMA GetFieldInv ==
  ASSUME LayoutInv, NEW t \in Compound, NEW n \in Names, GetField(t, n)
  PROVE  LayoutInv'
<1>1. PICK u \in Records : created' = created \cup {u}
  BY DEF GetField
<1>2. UNCHANGED <<kind, layoutVars, elem, length, ffi_type>>
  BY DEF GetField
<1> USE <1>1, <1>2 DEF LayoutInv
<1>3. TypeOK'
  BY DEF TypeOK, layoutVars, Records
<1>4. ElemInv' /\ NamesInv' /\ UnionInv'
  BY DEF ElemInv, NamesInv, UnionInv, layoutVars
<1>5. DefinedInv'
  BY DEF DefinedInv, TypesIn, Exists, Arrays, layoutVars
<1>6. created' \subseteq Records'
  BY DEF Records, Arrays, layoutVars
<1> QED  BY <1>3, <1>4, <1>5, <1>6

LEMMA DescribeInv ==
  ASSUME LayoutInv, NEW t \in Compound, Describe(t)
  PROVE  LayoutInv'
<1>1. /\ ffi_type' = [u \in Compound |-> IF u \in Reached[t] THEN Elements(u) ELSE ffi_type[u]]
      /\ UNCHANGED <<kind, layoutVars, elem, length, created>>
  BY DEF Describe
<1> USE DEF LayoutInv
<1>2. TypeOK'
  <2>1. \A u \in Compound : ffi_type'[u] = Elements(u) \/ ffi_type'[u] = ffi_type[u]
    BY <1>1
  <2>2. \A u \in Compound : ffi_type'[u] # NoFfi => ffi_type'[u] \in Seq(Prims \cup Compound \cup {0})
    BY <2>1, ElementsType DEF TypeOK
  <2> QED  BY <1>1, <2>2 DEF TypeOK, layoutVars
<1>3. ElemInv' /\ NamesInv' /\ UnionInv'
  BY <1>1 DEF ElemInv, NamesInv, UnionInv, layoutVars
<1>4. DefinedInv'
  BY <1>1 DEF DefinedInv, TypesIn, Exists, Arrays, layoutVars
<1>5. created' \subseteq Records'
  BY <1>1 DEF Records, Arrays, layoutVars
<1> QED  BY <1>2, <1>3, <1>4, <1>5

\* And so does a step of something else.
LEMMA StutterInv == LayoutInv /\ UNCHANGED vars => LayoutInv'
<1> SUFFICES ASSUME LayoutInv, UNCHANGED vars  PROVE LayoutInv'
  OBVIOUS
<1> USE DEF LayoutInv, vars, layoutVars
<1>1. TypeOK'
  BY DEF TypeOK
<1>2. ElemInv' /\ NamesInv' /\ UnionInv'
  BY DEF ElemInv, NamesInv, UnionInv
<1>3. DefinedInv'
  BY DEF DefinedInv, TypesIn, Exists, Arrays
<1>4. created' \subseteq Records'
  BY DEF Records, Arrays
<1> QED  BY <1>1, <1>2, <1>3, <1>4

\* Names stay distinct, union offsets 0 and embedded types defined: the
\* inductive invariant of struct.js, union.js and array.js.
THEOREM LayoutInvariant == Spec => []LayoutInv
<1>1. LayoutInv /\ [Next]_vars => LayoutInv'
  <2> SUFFICES ASSUME LayoutInv, Next  PROVE LayoutInv'
    BY StutterInv
  <2>1. PICK t \in Compound :
          \/ \E f \in Menu[t] : DefineProperty(t, f.name, f.type)
          \/ \E f \in Menu[t], len \in Lengths : DefineArray(t, f.type, len)
          \/ NewInstance(t)
          \/ \E n \in Names : GetField(t, n)
          \/ Describe(t)
    BY DEF Next
  <2>2. ASSUME NEW f \in Menu[t], DefineProperty(t, f.name, f.type)  PROVE LayoutInv'
    BY <2>2, DefinePropertyInv
  <2>3. ASSUME NEW f \in Menu[t], NEW len \in Lengths, DefineArray(t, f.type, len)
        PROVE  LayoutInv'
    BY <2>3, DefineArrayInv
  <2>4. CASE NewInstance(t)
    BY <2>4, NewInstanceInv
  <2>5. ASSUME NEW n \in Names, GetField(t, n)  PROVE LayoutInv'
    BY <2>5, GetFieldInv
  <2>6. CASE Describe(t)
    BY <2>6, DescribeInv
  <2> QED  BY <2>1, <2>2, <2>3, <2>4, <2>5, <2>6
<1> QED  BY <1>1, InitInv, PTL DEF Spec

\* The caches of the type objects hold sizes, alignments and offsets, whatever
\* is defined in whatever order and also when recalc() throws half-way.
THEOREM TypeCorrect == Spec => []TypeOK
<1>1. LayoutInv => TypeOK
  BY DEF LayoutInv
<1> QED  BY <1>1, LayoutInvariant, PTL

-----------------------------------------------------------------------------

\* Closure solves its equation.
LEMMA ClosureIs ==
  /\ Closure \in [Compound -> SUBSET Compound]
  /\ \A t \in Compound :
       Closure[t] = {t} \cup UNION {Closure[u] : u \in {v \in Embedded(t) : v < t}}
<1> DEFINE Value(g, t) == {t} \cup UNION {g[u] : u \in {v \in Embedded(t) : v < t}}
           Body(g) == [t \in Compound |-> {t} \cup UNION {g[u] : u \in {v \in Embedded(t) : v < t}}]
           T == SUBSET Compound
           D == [x \in (1..N) \X [1..N -> T] |-> Value(x[2], x[1])]
<1>1. Closure = CHOOSE g : g = Body(g)
  BY DEF Closure
<1>2. N \in Nat /\ Compound = 1..N /\ \A t \in Compound : Embedded(t) \subseteq Compound
  BY NAssumption DEF Compound, Embedded, Arrays
<1>3. \A t \in Compound : \A g \in [1..N -> T] : Value(g, t) \in T
  BY <1>2
<1>4. /\ D \in [(1..N) \X [1..N -> T] -> T]
      /\ \A t \in 1..N : \A g \in [1..N -> T] : D[<<t, g>>] = Value(g, t)
  <2> HIDE DEF Value, T
  <2> QED  BY <1>2, <1>3
<1>5. \A t \in 1..N : \A g, h \in [1..N -> T] :
        (\A j \in 1..t - 1 : g[j] = h[j]) => Value(g, t) = Value(h, t)
  <2> SUFFICES ASSUME NEW t \in 1..N, NEW g \in [1..N -> T], NEW h \in [1..N -> T],
                      \A j \in 1..t - 1 : g[j] = h[j]
               PROVE  Value(g, t) = Value(h, t)
    OBVIOUS
  <2>1. \A v \in Embedded(t) : v < t => v \in 1..t - 1
    BY <1>2
  <2>2. \A v \in Embedded(t) : v < t => g[v] = h[v]
    BY <2>1
  <2> QED  BY <2>2
<1> HIDE DEF D
<1>6. PICK g : RecursiveFunction(g, N, T, D)
  <2>1. T # {}
    OBVIOUS
  <2> HIDE DEF Value, T
  <2>2. \A t \in 1..N : \A g, h \in [1..N -> T] :
          (\A j \in 1..t - 1 : g[j] = h[j]) => D[<<t, g>>] = D[<<t, h>>]
    <3> SUFFICES ASSUME NEW t \in 1..N, NEW g \in [1..N -> T], NEW h \in [1..N -> T],
                        \A j \in 1..t - 1 : g[j] = h[j]
                 PROVE  D[<<t, g>>] = D[<<t, h>>]
      OBVIOUS
    <3>1. Value(g, t) = Value(h, t)
      BY <1>5
    <3> QED  BY <1>4, <3>1
  <2>3. RecursionData(N, T, D)
    BY <1>2, <1>4, <2>1, <2>2 DEF RecursionData
  <2> QED  BY <2>3, Recursion
<1>7. g = Body(g)
  <2>1. \A t \in Compound : g[t] = Value(g, t)
    <3> HIDE DEF Value, T
    <3> QED  BY <1>2, <1>4, <1>6 DEF RecursiveFunction
  <2>2. g = [t \in Compound |-> g[t]]
    BY <1>2, <1>6 DEF RecursiveFunction
  <2> QED  BY <2>1, <2>2
<1> HIDE DEF Body
<1>8. Closure = Body(Closure)
  BY <1>1, <1>7
<1>9. \A t \in Compound : Closure[t] = Value(Closure, t)
  BY <1>8 DEF Body
<1>10. Closure = [t \in Compound |-> Closure[t]]
  BY <1>8 DEF Body
<1> DEFINE S == {t \in Compound : Closure[t] \in T}
<1>11. ASSUME NEW t \in 1..N, 1..t - 1 \subseteq S  PROVE t \in S
  <2>1. \A v \in Embedded(t) : v < t => Closure[v] \in T
    BY <1>2, <1>11
  <2> QED  BY <1>2, <1>9, <2>1
<1> HIDE DEF S, T
<1>12. 1..N \subseteq S
  BY <1>2, <1>11, CourseInduction
<1>13. \A t \in Compound : Closure[t] \in T
  BY <1>2, <1>12 DEF S
<1> QED  BY <1>9, <1>10, <1>13 DEF T

\* What a type reads the layout of, other than itself, some type embeds.
LEMMA ClosureEmbedded ==
  ASSUME NEW t \in Compound, NEW u \in Closure[t], u # t
  PROVE  \E v \in Compound : u \in Embedded(v)
<1> DEFINE S == {w \in Compound : \A x \in Closure[w] : x # w => \E v \in Compound : x \in Embedded(v)}
<1>1. N \in Nat /\ Compound = 1..N
  BY NAssumption DEF Compound
<1>2. ASSUME NEW w \in 1..N, 1..w - 1 \subseteq S  PROVE w \in S
  <2> SUFFICES ASSUME NEW x \in Closure[w], x # w  PROVE \E v \in Compound : x \in Embedded(v)
    BY <1>1
  <2>1. PICK v \in Embedded(w) : v < w /\ x \in Closure[v]
    BY <1>1, ClosureIs
  <2>2. v \in Compound /\ w \in Compound
    BY <1>1 DEF Embedded, Arrays
  <2>3. v \in 1..w - 1
    BY <1>1, <2>1, <2>2
  <2>4. v \in S
    BY <1>2, <2>3
  <2> QED  BY <2>1, <2>2, <2>4
<1> HIDE DEF S
<1>3. 1..N \subseteq S
  BY <1>1, <1>2, CourseInduction
<1>4. t \in S
  BY <1>1, <1>3
<1> QED  BY <1>4 DEF S

\* The array types among them have been defined.
LEMMA ClosureDefined ==
  ASSUME LayoutInv, NEW t \in Records, NEW u \in Closure[t], u \in Arrays
  PROVE  length[u] # -1
<1>1. u # t /\ t \in Compound
  BY DEF Records
<1>2. PICK v \in Compound : u \in Embedded(v)
  BY <1>1, ClosureEmbedded
<1>3. PICK r \in TypesIn(v) : u = r.base
  BY <1>2 DEF Embedded
<1>4. Exists(r)
  BY <1>3 DEF LayoutInv, DefinedInv
<1> QED  BY <1>3, <1>4 DEF Exists

\* Once all records that a type embeds have had an instance, no call of
\* defineProperty() or ArrayType() changes what its layout was computed from:
\* _instanceCreated guards the records, and the arrays among them have been
\* defined, because a type embeds only what exists.
THEOREM Sealed == Spec => SealedForGood
<1> DEFINE Kept(u) == /\ fields'[u] = fields[u] /\ elem'[u] = elem[u] /\ length'[u] = length[u]
                      /\ offset'[u] = offset[u] /\ size'[u] = size[u]
                      /\ alignment'[u] = alignment[u]
           A == \A t \in created :
                  Closure[t] \cap Records \subseteq created => \A u \in Closure[t] : Kept(u)
<1>1. LayoutInv /\ [Next]_vars => [A]_vars
  <2> SUFFICES ASSUME LayoutInv, Next, NEW t \in created, Closure[t] \cap Records \subseteq created,
                      NEW u \in Closure[t]
               PROVE  Kept(u)
    OBVIOUS
  <2>0. t \in Records /\ t \in Compound /\ u \in Compound
    BY ClosureIs DEF LayoutInv, Records
  <2>1. PICK w \in Compound :
          \/ \E f \in Menu[w] : DefineProperty(w, f.name, f.type)
          \/ \E f \in Menu[w], len \in Lengths : DefineArray(w, f.type, len)
          \/ NewInstance(w)
          \/ \E n \in Names : GetField(w, n)
          \/ Describe(w)
    BY DEF Next
  <2>2. ASSUME NEW f \in Menu[w], DefineProperty(w, f.name, f.type)  PROVE Kept(u)
    <3>1. w \in Records /\ w \notin created
      BY <2>2 DEF DefineProperty, Definable
    <3>2. u # w
      BY <3>1
    <3> QED  BY <2>0, <2>2, <3>2 DEF DefineProperty, LayoutInv, TypeOK
  <2>3. ASSUME NEW f \in Menu[w], NEW len \in Lengths, DefineArray(w, f.type, len)
        PROVE  Kept(u)
    <3>1. w \in Arrays /\ length[w] = -1
      BY <2>3 DEF DefineArray
    <3>2. u # w
      BY <2>0, <3>1, ClosureDefined
    <3> QED  BY <2>0, <2>3, <3>2 DEF DefineArray, LayoutInv, TypeOK
  <2>4. CASE NewInstance(w)
    BY <2>4 DEF NewInstance, layoutVars
  <2>5. ASSUME NEW n \in Names, GetField(w, n)  PROVE Kept(u)
    BY <2>5 DEF GetField, layoutVars
  <2>6. CASE Describe(w)
    BY <2>6 DEF Describe, layoutVars
  <2> QED  BY <2>1, <2>2, <2>3, <2>4, <2>5, <2>6
<1>2. [A]_vars <=> [\A t \in created :
       Closure[t] \cap Records \subseteq created =>
         \A u \in Closure[t] :
           /\ fields'[u] = fields[u] /\ elem'[u] = elem[u] /\ length'[u] = length[u]
           /\ offset'[u] = offset[u] /\ size'[u] = size[u]
           /\ alignment'[u] = alignment[u]]_vars
  OBVIOUS
<1> QED  BY <1>1, LayoutInvariant, PTL DEF Spec, SealedForGood

\* Where the k-th field begins.
From(a, t, fs, k) == Start(t, a[k - 1].size, Parts(fs[k].type)[1])

\* What a field takes room for.
Room(r) == Len(Parts(r)) * SizeOf(Parts(r)[1])

\* A failed assertion is never forgotten: if the loop of recalc() ends well, so
\* did each round.
LEMMA RoundsSucceed ==
  ASSUME TypeOK, ElemInv, NEW t \in Compound, NEW fs \in Seq(Field), NEW a, Placed(a, t, fs),
         Place(t, fs).ok
  PROVE  \A k \in 0..Len(fs) : a[k].ok
<1> DEFINE n == Len(fs)
<1>1. n \in Nat /\ a \in [0..n -> Placement] /\ a[n].ok
      /\ \A i \in 1..n : a[i] = PlaceNext(t, a[i - 1], fs[i])
  BY DEF Placed
<1> HIDE DEF n
<1> SUFFICES ASSUME NEW k \in 0..n, ~a[k].ok  PROVE FALSE
  BY DEF n
<1> DEFINE S == {l \in k..n : ~a[l].ok}
<1>2. k \in S /\ k \in Nat
  BY <1>1
<1>3. ASSUME NEW i \in k..n - 1, i \in S  PROVE i + 1 \in S
  <2>1. i + 1 \in 1..n /\ i + 1 \in k..n /\ (i + 1) - 1 = i /\ ~a[i].ok /\ i \in 0..n
    BY <1>1, <1>3
  <2>2. a[i + 1] = [a[i] EXCEPT !.ok = FALSE]
    BY <1>1, <2>1 DEF PlaceNext
  <2>3. a[i] \in Placement
    BY <1>1, <2>1
  <2>4. ~a[i + 1].ok
    BY <2>2, <2>3 DEF Placement
  <2> QED  BY <2>1, <2>4
<1> HIDE DEF S
<1>4. k..n \subseteq S
  BY <1>1, <1>2, <1>3, RangeInduction
<1>5. n \in S
  BY <1>1, <1>4
<1> QED  BY <1>1, <1>5 DEF S

\* Round k puts the k-th field behind the ones before.
Round(a, t, fs, k) ==
  /\ fs[k].name \in Names /\ fs[k].type \in TypeRef
  /\ a[k - 1] \in Placement /\ a[k] \in Placement
  /\ a[k].offset = [a[k - 1].offset EXCEPT ![fs[k].name] = From(a, t, fs, k)]
  /\ From(a, t, fs, k) \in Nat /\ Room(fs[k].type) \in Nat
  /\ a[k - 1].size \in Nat /\ a[k].size \in Nat
  /\ a[k - 1].size <= From(a, t, fs, k)
  /\ From(a, t, fs, k) + Room(fs[k].type) <= a[k].size

\* A round that succeeds places its field behind the ones before.
LEMMA RoundIs ==
  ASSUME TypeOK, ElemInv, NEW t \in Compound, NEW fs \in Seq(Field), NEW a, Placed(a, t, fs),
         Place(t, fs).ok, NEW k \in 1..Len(fs)
  PROVE  Round(a, t, fs, k)
<1> DEFINE f == fs[k]
           p == Parts(f.type)[1]
           b == a[k - 1]
<1>1. f \in Field /\ f.name \in Names /\ f.type \in TypeRef
  <2>1. f \in Field
    OBVIOUS
  <2> HIDE DEF f
  <2> QED  BY <2>1 DEF Field
<1>2. k - 1 \in 0..Len(fs) /\ k \in 0..Len(fs)
  OBVIOUS
<1>3. b \in Placement /\ a[k] \in Placement
  BY <1>2 DEF Placed
<1>4. b.ok /\ a[k].ok
  BY <1>2, RoundsSucceed
<1>5. a[k] = PlaceNext(t, b, f)
  BY DEF Placed
<1>6. From(a, t, fs, k) = Start(t, b.size, p) /\ Room(f.type) = Len(Parts(f.type)) * SizeOf(p)
  BY DEF From, Room
<1> HIDE DEF f, b, p
<1>7. Alignable(t, p)
  <2> SUFFICES ASSUME ~Alignable(t, p)  PROVE FALSE
    OBVIOUS
  <2>1. a[k] = [b EXCEPT !.ok = FALSE]
    BY <1>5 DEF PlaceNext, p
  <2> QED  BY <1>3, <1>4, <2>1 DEF Placement
<1>8. a[k] = [ok |-> TRUE, offset |-> [b.offset EXCEPT ![f.name] = Start(t, b.size, p)],
              size |-> End(t, b.size, f)]
  BY <1>4, <1>5, <1>7 DEF PlaceNext, p
<1>9. b.size \in Nat
  BY <1>3 DEF Placement
<1>10. /\ End(t, b.size, f) \in Nat /\ Start(t, b.size, p) \in Nat /\ b.size <= Start(t, b.size, p)
       /\ Len(Parts(f.type)) * SizeOf(p) \in Nat
       /\ Start(t, b.size, p) + Len(Parts(f.type)) * SizeOf(p) <= End(t, b.size, f)
  BY <1>1, <1>7, <1>9, EndRoom DEF p
<1>11. a[k].size = End(t, b.size, f) /\ a[k].offset = [b.offset EXCEPT ![f.name] = Start(t, b.size, p)]
  BY <1>8
<1>12. /\ a[k].offset = [b.offset EXCEPT ![f.name] = From(a, t, fs, k)]
       /\ From(a, t, fs, k) \in Nat /\ Room(f.type) \in Nat
       /\ b.size \in Nat /\ a[k].size \in Nat
       /\ b.size <= From(a, t, fs, k)
       /\ From(a, t, fs, k) + Room(f.type) <= a[k].size
  BY <1>6, <1>9, <1>10, <1>11
<1> QED  BY <1>1, <1>3, <1>12 DEF f, b, Round

\* No later field moves it, and each later field begins where it has ended.
LEMMA RoundsFollow ==
  ASSUME TypeOK, ElemInv, NEW t \in Compound, NEW fs \in Seq(Field), UniqueNames(fs),
         NEW a, Placed(a, t, fs), Place(t, fs).ok, NEW k \in 1..Len(fs)
  PROVE  \A l \in k..Len(fs) : /\ a[l].offset[fs[k].name] = From(a, t, fs, k)
                               /\ a[k].size <= a[l].size
<1> DEFINE n == Len(fs)
           S == {l \in k..n : /\ a[l].offset[fs[k].name] = From(a, t, fs, k)
                              /\ a[k].size <= a[l].size}
<1>1. n \in Nat /\ k \in Nat
  OBVIOUS
<1>2. k \in S
  <2>1. a[k - 1].offset \in [Names -> Nat] /\ a[k - 1] \in Placement /\ fs[k].name \in Names
        /\ a[k].offset = [a[k - 1].offset EXCEPT ![fs[k].name] = From(a, t, fs, k)]
        /\ a[k].size \in Nat
    <3>1. Round(a, t, fs, k)
      BY RoundIs
    <3> QED  BY <3>1 DEF Round, Placement
  <2>2. a[k].offset[fs[k].name] = From(a, t, fs, k)
    BY <2>1
  <2> QED  BY <2>1, <2>2
<1>3. ASSUME NEW i \in k..n - 1, i \in S  PROVE i + 1 \in S
  <2>1. i + 1 \in 1..Len(fs) /\ i + 1 \in k..n /\ (i + 1) - 1 = i /\ i + 1 # k /\ i \in 1..Len(fs)
    BY <1>3
  <2>2. fs[i + 1].name # fs[k].name
    BY <2>1 DEF UniqueNames
  <2> DEFINE m == i + 1
  <2>3. /\ fs[m].name \in Names /\ a[m - 1] \in Placement
        /\ a[m].offset = [a[m - 1].offset EXCEPT ![fs[m].name] = From(a, t, fs, m)]
        /\ From(a, t, fs, m) \in Nat /\ Room(fs[m].type) \in Nat
        /\ a[m - 1].size \in Nat /\ a[m].size \in Nat
        /\ a[m - 1].size <= From(a, t, fs, m)
        /\ From(a, t, fs, m) + Room(fs[m].type) <= a[m].size
    <3> HIDE DEF m
    <3>1. m \in 1..Len(fs)
      BY <2>1 DEF m
    <3>2. Round(a, t, fs, m)
      BY <3>1, RoundIs
    <3> QED  BY <3>2 DEF Round
  <2>4. fs[k].name \in Names /\ a[k].size \in Nat
    <3>1. Round(a, t, fs, k)
      BY RoundIs
    <3> QED  BY <3>1 DEF Round
  <2>5. a[m].offset[fs[k].name] = a[i].offset[fs[k].name]
    <3>1. a[m - 1] = a[i] /\ a[i].offset \in [Names -> Nat] /\ fs[m].name # fs[k].name
      BY <2>1, <2>2, <2>3 DEF Placement
    <3> HIDE DEF m
    <3> QED  BY <2>3, <2>4, <3>1
  <2>6. a[i].size \in Nat /\ a[i].size <= a[m].size
    <3>1. a[m - 1] = a[i]
      BY <2>1
    <3> HIDE DEF m
    <3> QED  BY <2>3, <3>1
  <2>7. a[i].offset[fs[k].name] = From(a, t, fs, k) /\ a[k].size <= a[i].size
    BY <1>3
  <2>8. a[k].size <= a[m].size
    <3> HIDE DEF m
    <3> QED  BY <2>3, <2>4, <2>6, <2>7
  <2> QED  BY <2>1, <2>5, <2>7, <2>8
<1> HIDE DEF S
<1>4. k..n \subseteq S
  BY <1>1, <1>2, <1>3, RangeInduction
<1> QED  BY <1>4 DEF S

\* A field takes the room of its type: the elements of an array fill it.
LEMMA RoomIs ==
  ASSUME LayoutInv, NEW t \in Records, Settled(t),
         NEW r \in TypesIn(t), r \in TypeRef, ~PointerToArray(r)
  PROVE  Room(r) = SizeOf(r)
<1>1. TypeOK /\ ElemInv /\ t \in Compound
  BY DEF LayoutInv, Records
<1>2. /\ Len(Parts(r)) = (IF FixedLength(r) > 0 THEN FixedLength(r) ELSE 1)
      /\ Parts(r)[1] = IF FixedLength(r) > 0 THEN elem[r.base] ELSE r
  BY <1>1, PartsAre
<1>3. CASE FixedLength(r) > 0
  <2> DEFINE b == r.base
  <2>1. b \in Arrays /\ FixedLength(r) = length[b] /\ length[b] > 0 /\ length[b] \in Nat
    BY <1>1, <1>3, RefIs DEF FixedLength
  <2>2. ~r.ptr /\ b \in Compound /\ b \notin Prims
    BY <1>3, <2>1, PrimAssumption DEF PointerToArray, IsFixedArray, Arrays
  <2>3. b < t
    BY <1>1, <2>2 DEF LayoutInv, DefinedInv
  <2>4. b \in Embedded(t)
    BY <2>2 DEF Embedded
  <2>5. b \in Closure[t]
    BY <1>1, <2>2, <2>3, <2>4, ClosureIs
  <2>6. UpToDate(b)
    BY <2>5 DEF Settled
  <2>7. size[b] = SizeOf(elem[b]) * length[b]
    BY <2>1, <2>6 DEF UpToDate
  <2>8. SizeOf(r) = size[b]
    BY <2>2 DEF SizeOf, RawSize
  <2>9. SizeOf(elem[b]) \in Nat
    <3>1. elem[b] \in TypeRef
      BY <1>1, <2>1, <2>2 DEF ElemInv
    <3> QED  BY <1>1, <3>1, RefIs
  <2>10. Room(r) = length[b] * SizeOf(elem[b])
    BY <1>2, <1>3, <2>1 DEF Room
  <2> HIDE DEF b
  <2> QED  BY <2>1, <2>7, <2>8, <2>9, <2>10
<1>4. CASE ~(FixedLength(r) > 0)
  <2>1. Room(r) = 1 * SizeOf(r)
    BY <1>2, <1>4 DEF Room
  <2>2. SizeOf(r) \in Nat
    BY <1>1, RefIs
  <2> QED  BY <2>1, <2>2
<1> QED  BY <1>3, <1>4

\* The fields of a struct lie behind one another, in the order of Keys().
LEMMA StructFields ==
  ASSUME LayoutInv, NEW t \in Records, Settled(t), kind[t] # "union",
         \A r \in TypesIn(t) : ~PointerToArray(r),
         NEW i \in DOMAIN fields[t], NEW j \in DOMAIN fields[t]
  PROVE  LET fs == fields[t]
             First(x) == offset[t][fs[x].name]
             Past(x) == First(x) + SizeOf(fs[x].type)
         IN /\ Past(i) <= size[t]
            /\ i # j => Past(i) <= First(j) \/ Past(j) <= First(i)
<1> DEFINE fs == fields[t]
           ks == Keys(fs)
           n == Len(ks)
           First(x) == offset[t][fs[x].name]
           Past(x) == First(x) + SizeOf(fs[x].type)
<1>1. TypeOK /\ ElemInv /\ t \in Compound /\ t \notin Arrays
  BY DEF LayoutInv, Records
<1>2. fs \in Seq(Field) /\ UniqueNames(fs) /\ DOMAIN fs = 1..Len(fs)
  BY <1>1 DEF LayoutInv, TypeOK, NamesInv
<1>3. /\ ks \in Seq(Field) /\ UniqueNames(ks)
      /\ \A x \in 1..Len(fs) : \E k \in 1..Len(ks) : ks[k] = fs[x]
  BY <1>2, KeysAre
<1>4. UpToDate(t)
  BY <1>1, ClosureIs DEF Settled
<1>5. fs # <<>> /\ Recalc(t, fs).ok /\ offset[t] = Recalc(t, fs).offset /\ size[t] = Recalc(t, fs).size
  BY <1>1, <1>4 DEF UpToDate
<1>6. Recalc(t, fs) = RecalcStruct(t, fs)
  BY DEF Recalc
<1> HIDE DEF fs
<1> DEFINE end == Place(t, ks)
           align == StructAlignment(t, fs)
<1>7. end.ok /\ offset[t] = end.offset /\ size[t] = PadTo(end.size, align)
  <2>1. RecalcStruct(t, fs) = [ok |-> end.ok, offset |-> end.offset, alignment |-> align,
                               size |-> IF end.ok THEN PadTo(end.size, align) ELSE end.size]
    BY DEF RecalcStruct
  <2> HIDE DEF end, align
  <2> QED  BY <1>5, <1>6, <2>1
<1> HIDE DEF ks
<1>8. PICK a : Placed(a, t, ks)
  BY <1>1, <1>3, PlaceIs
<1>9. n \in Nat /\ end = a[n] /\ a[n] \in Placement
  BY <1>3, <1>8 DEF Placed
<1>10. end.size \in Nat /\ align \in Nat \ {0}
  <2>1. align \in Nat \ {0}
    BY <1>1, <1>2, <1>5, AlignmentIs
  <2> QED  BY <1>9, <2>1 DEF Placement
<1>11. end.size <= size[t] /\ size[t] \in Nat
  <2> HIDE DEF end, align
  <2> QED  BY <1>7, <1>10, PadToIs
<1>12. \A k \in 1..n : Round(a, t, ks, k)
  BY <1>1, <1>3, <1>7, <1>8, RoundIs
<1>13. \A k \in 1..n : \A l \in k..n : a[l].offset[ks[k].name] = From(a, t, ks, k) /\ a[k].size <= a[l].size
  BY <1>1, <1>3, <1>7, <1>8, RoundsFollow
<1>14. ASSUME NEW x \in DOMAIN fs
       PROVE  \E k \in 1..n : /\ ks[k] = fs[x]
                              /\ First(x) = From(a, t, ks, k)
                              /\ First(x) \in Nat /\ Past(x) \in Nat
                              /\ a[k - 1].size \in Nat /\ a[k].size \in Nat
                              /\ a[k - 1].size <= First(x) /\ Past(x) <= a[k].size
                              /\ a[k].size <= end.size
  <2>1. PICK k \in 1..n : ks[k] = fs[x]
    BY <1>2, <1>3
  <2>2. n \in k..n
    BY <1>9
  <2>3. a[n].offset[ks[k].name] = From(a, t, ks, k) /\ a[k].size <= a[n].size
    BY <1>13, <2>2
  <2>4. First(x) = From(a, t, ks, k)
    BY <1>7, <1>9, <2>1, <2>3
  <2>5. /\ fs[x].type \in TypeRef
        /\ From(a, t, ks, k) \in Nat /\ Room(fs[x].type) \in Nat
        /\ a[k - 1].size \in Nat /\ a[k].size \in Nat
        /\ a[k - 1].size <= From(a, t, ks, k)
        /\ From(a, t, ks, k) + Room(fs[x].type) <= a[k].size
    BY <1>12, <2>1 DEF Round
  <2>6. fs[x].type \in TypesIn(t)
    BY <1>1 DEF TypesIn, fs
  <2>7. Room(fs[x].type) = SizeOf(fs[x].type)
    BY <2>5, <2>6, RoomIs
  <2>8. Past(x) = From(a, t, ks, k) + Room(fs[x].type)
    BY <2>4, <2>7
  <2> HIDE DEF First, Past
  <2>9. Past(x) \in Nat /\ Past(x) <= a[k].size /\ a[k - 1].size <= First(x)
    BY <2>4, <2>5, <2>8
  <2> QED  BY <1>9, <2>1, <2>3, <2>4, <2>5, <2>9
<1>15. i \in DOMAIN fs /\ j \in DOMAIN fs
  BY DEF fs
<1> HIDE DEF First, Past, n, end
<1>16. Past(i) <= size[t]
  <2>1. PICK k \in 1..n : /\ Past(i) \in Nat /\ a[k].size \in Nat
                          /\ Past(i) <= a[k].size /\ a[k].size <= end.size
    BY <1>14, <1>15
  <2> QED  BY <1>10, <1>11, <2>1
<1>17. ASSUME i # j  PROVE Past(i) <= First(j) \/ Past(j) <= First(i)
  <2>1. PICK k \in 1..n : /\ ks[k] = fs[i]
                          /\ First(i) \in Nat /\ Past(i) \in Nat
                          /\ a[k - 1].size \in Nat /\ a[k].size \in Nat
                          /\ a[k - 1].size <= First(i) /\ Past(i) <= a[k].size
    BY <1>14, <1>15
  <2>2. PICK l \in 1..n : /\ ks[l] = fs[j]
                          /\ First(j) \in Nat /\ Past(j) \in Nat
                          /\ a[l - 1].size \in Nat /\ a[l].size \in Nat
                          /\ a[l - 1].size <= First(j) /\ Past(j) <= a[l].size
    BY <1>14, <1>15
  <2>3. k # l
    <3>1. fs[i].name # fs[j].name
      BY <1>2, <1>15, <1>17 DEF UniqueNames
    <3> QED  BY <2>1, <2>2, <3>1
  <2>4. CASE k < l
    <3>1. k \in 1..n /\ l - 1 \in k..n
      BY <1>9, <2>4
    <3>2. a[k].size <= a[l - 1].size
      BY <1>13, <3>1
    <3> QED  BY <2>1, <2>2, <3>2
  <2>5. CASE l < k
    <3>1. l \in 1..n /\ k - 1 \in l..n
      BY <1>9, <2>5
    <3>2. a[l].size <= a[k - 1].size
      BY <1>13, <3>1
    <3> QED  BY <2>1, <2>2, <3>2
  <2> QED  BY <1>9, <2>3, <2>4, <2>5
<1> QED  BY <1>16, <1>17 DEF First, Past, fs

\* A union holds each of its fields.
LEMMA UnionFields ==
  ASSUME LayoutInv, NEW t \in Records, Settled(t), kind[t] = "union", NEW i \in DOMAIN fields[t]
  PROVE  offset[t][fields[t][i].name] + SizeOf(fields[t][i].type) <= size[t]
<1> DEFINE fs == fields[t]
<1>1. TypeOK /\ t \in Compound /\ t \notin Arrays
  BY DEF LayoutInv, Records
<1>2. fs \in Seq(Field) /\ i \in 1..Len(fs)
  BY <1>1 DEF TypeOK
<1>3. UpToDate(t)
  BY <1>1, ClosureIs DEF Settled
<1>4. fs # <<>> /\ size[t] = Recalc(t, fs).size
  BY <1>1, <1>3 DEF UpToDate
<1>5. Recalc(t, fs) = RecalcUnion(t, fs)
  BY DEF Recalc
<1>6. offset[t] = [n \in Names |-> 0]
  BY <1>1 DEF LayoutInv, UnionInv
<1> HIDE DEF fs
<1>7. fs[i].name \in Names /\ fs[i].type \in TypeRef
  BY <1>2, <1>4, FieldsAre
<1>8. SizeOf(fs[i].type) <= RecalcUnion(t, fs).size
  BY <1>1, <1>2, <1>4, UnionIs
<1>9. offset[t][fs[i].name] = 0 /\ SizeOf(fs[i].type) \in Nat
  BY <1>1, <1>6, <1>7, RefIs
<1>10. offset[t][fs[i].name] + SizeOf(fs[i].type) <= size[t]
  BY <1>4, <1>5, <1>8, <1>9
<1> QED  BY <1>10 DEF fs

\* For every number and kind of types, sizes and alignments, the accessors of a
\* settled type stay inside it and those of a struct stay apart: recalc() of
\* struct.js and of union.js, and the size that ArrayType() computes.
THEOREM Disjoint == Spec => []FieldsDisjoint
<1>1. LayoutInv => FieldsDisjoint
  <2> SUFFICES ASSUME LayoutInv, NEW t \in Records,
                      \A r \in TypesIn(t) : ~PointerToArray(r), Settled(t),
                      NEW i \in DOMAIN fields[t], NEW j \in DOMAIN fields[t]
               PROVE  LET fs == fields[t]
                          First(x) == offset[t][fs[x].name]
                          Past(x) == First(x) + SizeOf(fs[x].type)
                      IN /\ Past(i) <= size[t]
                         /\ i # j /\ kind[t] # "union" => Past(i) <= First(j) \/ Past(j) <= First(i)
    BY DEF FieldsDisjoint
  <2>1. CASE kind[t] = "union"
    BY <2>1, UnionFields
  <2>2. CASE kind[t] # "union"
    BY <2>2, StructFields
  <2> QED  BY <2>1, <2>2
<1> QED  BY <1>1, LayoutInvariant, PTL

-----------------------------------------------------------------------------
(* Remainders, and what padding to a multiple computes.                   *)

\* Division with remainder.
LEMMA DivisionIs ==
  ASSUME NEW x \in Nat, NEW a \in Nat \ {0}
  PROVE  x % a \in 0..a - 1 /\ \E k \in Nat : x = k * a + (x % a)
<1>1. x % a \in 0..a - 1
  OBVIOUS
<1>2. x \div a \in Nat /\ x = (x \div a) * a + (x % a)
  OBVIOUS
<1> QED  BY <1>1, <1>2

\* Products of numbers are numbers, and the next multiple adds one more.
LEMMA Product == \A k, l \in Nat : k * l \in Nat /\ (k + 1) * l = k * l + l
OBVIOUS

\* There is one quotient and one remainder.
LEMMA ModUnique ==
  ASSUME NEW a \in Nat \ {0}, NEW k \in Nat, NEW l \in Nat, NEW r \in 0..a - 1, NEW s \in 0..a - 1,
         k * a + r = l * a + s
  PROVE  k = l /\ r = s
<1>1. ASSUME NEW i \in Nat, NEW j \in Nat, i < j  PROVE i * a + a <= j * a
  <2>1. PICK d \in Nat : j = i + 1 + d
    <3>1. j - i - 1 \in Nat /\ j = i + 1 + (j - i - 1)
      BY <1>1
    <3> QED  BY <3>1
  <2>2. j * a = i * a + a + d * a
    BY <2>1
  <2>3. d * a \in Nat /\ i * a \in Nat
    BY Product
  <2> QED  BY <2>2, <2>3
<1>2. k * a \in Nat /\ l * a \in Nat
  BY Product
<1>3. ~(k < l)
  <2>1. k < l => k * a + a <= l * a
    BY <1>1
  <2> QED  BY <1>2, <2>1
<1>4. ~(l < k)
  <2>1. l < k => l * a + a <= k * a
    BY <1>1
  <2> QED  BY <1>2, <2>1
<1>5. k = l
  BY <1>3, <1>4
<1> QED  BY <1>2, <1>5

\* What is left of a multiple and a bit is the bit.
LEMMA ModIs ==
  ASSUME NEW a \in Nat \ {0}, NEW k \in Nat, NEW s \in 0..a - 1
  PROVE  (k * a + s) % a = s
<1> DEFINE x == k * a + s
<1>1. x \in Nat
  BY Product
<1> HIDE DEF x
<1>2. PICK l \in Nat : x = l * a + (x % a)
  BY <1>1, DivisionIs
<1>3. x % a \in 0..a - 1
  BY <1>1, DivisionIs
<1>4. k * a + s = l * a + (x % a)
  BY <1>2 DEF x
<1>5. s = x % a
  <2> DEFINE y == x % a
  <2>1. y \in 0..a - 1 /\ k * a + s = l * a + y
    BY <1>3, <1>4
  <2> HIDE DEF y
  <2>2. s = y
    BY <2>1, ModUnique
  <2> QED  BY <2>2 DEF y
<1> QED  BY <1>5 DEF x

\* Remainder 0 means multiple.
LEMMA MultipleIs ==
  ASSUME NEW a \in Nat \ {0}, NEW x \in Nat
  PROVE  x % a = 0 <=> \E k \in Nat : x = k * a
<1>1. ASSUME x % a = 0  PROVE \E k \in Nat : x = k * a
  <2>1. PICK k \in Nat : x = k * a + 0
    BY <1>1, DivisionIs
  <2>2. k * a \in Nat
    BY Product
  <2> QED  BY <2>1, <2>2
<1>2. ASSUME NEW k \in Nat, x = k * a  PROVE x % a = 0
  <2>1. (k * a + 0) % a = 0
    BY ModIs
  <2>2. k * a + 0 = k * a
    BY Product
  <2> QED  BY <1>2, <2>1, <2>2
<1> QED  BY <1>1, <1>2

\* Multiples add up, multiply and divide through.
LEMMA SumMultiple ==
  ASSUME NEW a \in Nat \ {0}, NEW x \in Nat, NEW y \in Nat, x % a = 0, y % a = 0
  PROVE  (x + y) % a = 0
<1>1. PICK k \in Nat : x = k * a
  BY MultipleIs
<1>2. PICK l \in Nat : y = l * a
  BY MultipleIs
<1> DEFINE z == x + y
<1>3. z = (k + l) * a /\ k + l \in Nat /\ z \in Nat
  BY <1>1, <1>2
<1> HIDE DEF z
<1>4. z % a = 0
  BY <1>3, MultipleIs
<1> QED  BY <1>4 DEF z

LEMMA TimesMultiple ==
  ASSUME NEW a \in Nat \ {0}, NEW x \in Nat, NEW y \in Nat, x % a = 0
  PROVE  y * x \in Nat /\ (y * x) % a = 0
<1>1. PICK k \in Nat : x = k * a
  BY MultipleIs
<1>2. y * x = (y * k) * a /\ y * k \in Nat /\ y * x \in Nat
  BY <1>1, Product
<1> QED  BY <1>2, MultipleIs

LEMMA DivideThrough ==
  ASSUME NEW a \in Nat \ {0}, NEW b \in Nat \ {0}, NEW x \in Nat, x % a = 0, a % b = 0
  PROVE  x % b = 0
<1>1. PICK k \in Nat : x = k * a
  BY MultipleIs
<1> QED  BY <1>1, TimesMultiple

\* Padding ends at a multiple, and leaves a multiple alone.
LEMMA PadToMultiple ==
  ASSUME NEW o \in Nat, NEW a \in Nat \ {0}
  PROVE  PadTo(o, a) % a = 0 /\ (o % a = 0 => PadTo(o, a) = o)
<1>1. PICK k \in Nat : o = k * a + (o % a)
  BY DivisionIs
<1> DEFINE s == o % a
<1>2. s \in 0..a - 1 /\ o = k * a + s /\ PadTo(o, a) = o + ((a - s) % a)
  BY <1>1 DEF PadTo, Padding
<1> HIDE DEF s
<1>3. CASE s = 0
  <2>1. (1 * a + 0) % a = 0
    BY ModIs
  <2>2. a % a = 0
    BY <2>1
  <2>3. PadTo(o, a) = o
    BY <1>2, <1>3, <2>2
  <2>4. o = k * a
    BY <1>2, <1>3, Product
  <2> QED  BY <2>3, <2>4, MultipleIs
<1>4. CASE s # 0
  <2> DEFINE d == a - s
  <2>1. d \in 0..a - 1 /\ d + s = a
    BY <1>2, <1>4
  <2> HIDE DEF d
  <2>2. d % a = d
    <3>1. (0 * a + d) % a = d
      BY <2>1, ModIs
    <3>2. 0 * a + d = d
      BY <2>1
    <3> QED  BY <3>1, <3>2
  <2>3. PadTo(o, a) = k * a + s + d
    BY <1>2, <2>1, <2>2 DEF d
  <2>4. PadTo(o, a) = (k + 1) * a /\ k + 1 \in Nat
    <3>1. (k + 1) * a = k * a + a /\ k * a \in Nat
      BY Product
    <3> QED  BY <1>2, <2>1, <2>3, <3>1
  <2>5. PadTo(o, a) \in Nat
    BY <2>4, Product
  <2>6. PadTo(o, a) % a = 0
    BY <2>4, <2>5, MultipleIs
  <2> QED  BY <1>4, <2>6 DEF s
<1> QED  BY <1>3, <1>4

\* The least multiple from o on is where padding ends.
LEMMA LeastAlignedIs ==
  ASSUME NEW o \in Nat, NEW a \in Nat \ {0}, PadTo(o, a) \in o..(o + a - 1)
  PROVE  LeastAligned(o, a) = PadTo(o, a)
<1> DEFINE p == PadTo(o, a)
           M == {m \in o..(o + a - 1) : m % a = 0}
<1>1. p \in M
  BY PadToMultiple
<1>2. ASSUME NEW m \in M  PROVE m = p
  <2>1. m \in Nat /\ p \in Nat /\ m % a = 0 /\ p % a = 0 /\ m < p + a /\ p < m + a
    BY <1>1
  <2> HIDE DEF p, M
  <2>2. PICK k \in Nat : m = k * a
    BY <2>1, MultipleIs
  <2>3. PICK l \in Nat : p = l * a
    BY <2>1, MultipleIs
  <2>4. k * a < l * a + a /\ l * a < k * a + a
    BY <2>1, <2>2, <2>3
  <2>5. (k * a) + 0 = (k * a) /\ (l * a) + 0 = (l * a)
    BY Product
  <2>6. CASE m >= p
    <3>1. m - p \in 0..a - 1 /\ l * a + (m - p) = k * a + 0
      BY <2>1, <2>2, <2>3, <2>5, <2>6
    <3> DEFINE r == m - p
    <3>2. r \in 0..a - 1 /\ l * a + r = k * a + 0 /\ 0 \in 0..a - 1
      BY <3>1
    <3> HIDE DEF r
    <3>3. k = l
      BY <3>2, ModUnique
    <3> QED  BY <2>2, <2>3, <3>3
  <2>7. CASE p >= m
    <3> DEFINE r == p - m
    <3>2. r \in 0..a - 1 /\ k * a + r = l * a + 0 /\ 0 \in 0..a - 1
      BY <2>1, <2>2, <2>3, <2>5, <2>7
    <3> HIDE DEF r
    <3>3. k = l
      BY <3>2, ModUnique
    <3> QED  BY <2>2, <2>3, <3>3
  <2> QED  BY <2>1, <2>6, <2>7
<1>3. LeastAligned(o, a) \in M
  <2>1. p \in o..(o + a - 1) /\ p % a = 0
    BY <1>1
  <2> HIDE DEF p
  <2> QED  BY <2>1 DEF LeastAligned
<1> QED  BY <1>2, <1>3

-----------------------------------------------------------------------------
(* The layout that C gives a type.                                         *)

\* What CLayout makes of a field type, and of a type, from the values in g.
CRef(g, r) == CASE r.ptr -> CPointer
                [] ~r.ptr /\ r.base \in Prims ->
                     [size |-> PrimSize[r.base], alignment |-> PrimAlign[r.base]]
                [] OTHER -> g[r.base]

CFields(g, t) == [i \in DOMAIN fields[t] |-> CRef(g, fields[t][i].type)]

CValue(g, t) ==
  IF t \in Records THEN CRecord(t, CFields(g, t))
  ELSE IF length[t] <= 0 THEN CPointer
  ELSE [size |-> length[t] * CRef(g, elem[t]).size, alignment |-> CRef(g, elem[t]).alignment]

\* It needs the values below t only.
LEMMA CValueLocal ==
  ASSUME LayoutInv, NEW t \in Compound, NEW g, NEW h, \A j \in 1..t - 1 : g[j] = h[j]
  PROVE  CValue(g, t) = CValue(h, t)
<1>1. ASSUME NEW r \in TypesIn(t), r \in TypeRef  PROVE CRef(g, r) = CRef(h, r)
  <2>1. r.base \in Prims \/ r.base \in 1..t - 1
    BY <1>1, EmbeddedBefore
  <2>2. r.ptr \in BOOLEAN
    BY <1>1 DEF TypeRef
  <2>3. CASE r.base \in Prims
    BY <2>2, <2>3 DEF CRef
  <2>4. CASE r.base \in 1..t - 1
    <3>1. g[r.base] = h[r.base]
      BY <2>4
    <3>2. CASE r.ptr
      BY <3>2 DEF CRef
    <3>3. CASE ~r.ptr
      BY <3>1, <3>3 DEF CRef
    <3> QED  BY <2>2, <3>2, <3>3
  <2> QED  BY <2>1, <2>3, <2>4
<1>2. CASE t \in Records
  <2>1. \A i \in DOMAIN fields[t] : CRef(g, fields[t][i].type) = CRef(h, fields[t][i].type)
    <3> SUFFICES ASSUME NEW i \in DOMAIN fields[t]
                 PROVE  CRef(g, fields[t][i].type) = CRef(h, fields[t][i].type)
      OBVIOUS
    <3>1. fields[t][i].type \in TypesIn(t)
      BY <1>2 DEF TypesIn, Records
    <3>2. fields[t][i].type \in TypeRef
      BY <1>2, <3>1, EmbeddedBefore
    <3> QED  BY <1>1, <3>1, <3>2
  <2>2. CFields(g, t) = CFields(h, t)
    BY <2>1 DEF CFields
  <2> QED  BY <1>2, <2>2 DEF CValue
<1>3. CASE t \notin Records
  <2>1. length[t] \in Nat \cup {-1}
    BY DEF LayoutInv, TypeOK
  <2>2. CASE length[t] <= 0
    BY <1>3, <2>2 DEF CValue
  <2>3. CASE ~(length[t] <= 0)
    <3>1. elem[t] \in TypesIn(t) /\ elem[t] \in TypeRef
      BY <1>3, <2>1, <2>3, EmbeddedBefore DEF TypesIn, Records
    <3>2. CRef(g, elem[t]) = CRef(h, elem[t])
      BY <1>1, <3>1
    <3> QED  BY <1>3, <2>3, <3>2 DEF CValue
  <2> QED  BY <2>2, <2>3
<1> QED  BY <1>2, <1>3

\* CLayout solves its equation.
LEMMA CLayoutIs ==
  ASSUME LayoutInv
  PROVE  \A t \in Compound : CLayout[t] = CValue(CLayout, t)
<1> DEFINE Body(g) == [t \in Compound |->
             IF t \in Records
             THEN CRecord(t, [i \in DOMAIN fields[t] |->
                    CASE fields[t][i].type.ptr -> CPointer
                      [] ~fields[t][i].type.ptr /\ fields[t][i].type.base \in Prims ->
                           [size |-> PrimSize[fields[t][i].type.base],
                            alignment |-> PrimAlign[fields[t][i].type.base]]
                      [] OTHER -> g[fields[t][i].type.base]])
             ELSE IF length[t] <= 0 THEN CPointer
             ELSE [size |-> length[t] * (CASE elem[t].ptr -> CPointer
                      [] ~elem[t].ptr /\ elem[t].base \in Prims ->
                           [size |-> PrimSize[elem[t].base], alignment |-> PrimAlign[elem[t].base]]
                      [] OTHER -> g[elem[t].base]).size,
                   alignment |-> (CASE elem[t].ptr -> CPointer
                      [] ~elem[t].ptr /\ elem[t].base \in Prims ->
                           [size |-> PrimSize[elem[t].base], alignment |-> PrimAlign[elem[t].base]]
                      [] OTHER -> g[elem[t].base]).alignment]]
<1>1. CLayout = CHOOSE g : g = Body(g)
  BY DEF CLayout
<1>2. \A g : Body(g) = [t \in Compound |-> CValue(g, t)]
  BY DEF CValue, CFields, CRef
<1> HIDE DEF Body
<1>3. N \in Nat /\ Compound = 1..N
  BY NAssumption DEF Compound
<1> DEFINE Solves(g, k) == \A i \in 1..k : g[i] = CValue(g, i)
           S == {k \in 0..N : \E g : Solves(g, k)}
<1>4. 0 \in S /\ 0 \in Nat
  <2>1. \A g : Solves(g, 0)
    OBVIOUS
  <2> HIDE DEF Solves
  <2> QED  BY <1>3, <2>1
<1>5. ASSUME NEW k \in 0..N - 1, k \in S  PROVE k + 1 \in S
  <2>1. PICK g : Solves(g, k)
    BY <1>5
  <2> DEFINE h == [i \in 1..N |-> IF i = k + 1 THEN CValue(g, k + 1) ELSE g[i]]
  <2>2. k + 1 \in 1..N /\ k + 1 \in 0..N /\ h[k + 1] = CValue(g, k + 1)
    BY <1>3
  <2>3. \A i \in 1..k : h[i] = g[i]
    BY <1>3
  <2> HIDE DEF h
  <2>4. ASSUME NEW i \in 1..k + 1  PROVE h[i] = CValue(h, i)
    <3>1. i \in Compound /\ \A j \in 1..i - 1 : j \in 1..k
      BY <1>3
    <3>2. \A j \in 1..i - 1 : g[j] = h[j]
      BY <2>3, <3>1
    <3>3. CValue(g, i) = CValue(h, i)
      BY <3>1, <3>2, CValueLocal
    <3>4. h[i] = CValue(g, i)
      <4>1. CASE i = k + 1
        BY <2>2, <4>1
      <4>2. CASE i # k + 1
        <5>1. i \in 1..k
          BY <4>2
        <5> QED  BY <2>1, <2>3, <5>1
      <4> QED  BY <4>1, <4>2
    <3> QED  BY <3>3, <3>4
  <2>5. Solves(h, k + 1)
    BY <2>4
  <2> HIDE DEF Solves
  <2> QED  BY <2>2, <2>5
<1> HIDE DEF S
<1>6. 0..N \subseteq S
  BY <1>3, <1>4, <1>5, RangeInduction
<1>7. N \in S
  BY <1>3, <1>6
<1>8. PICK g : Solves(g, N)
  BY <1>7 DEF S
<1> DEFINE c == [t \in Compound |-> g[t]]
<1>9. \A t \in Compound : c[t] = CValue(c, t)
  <2> SUFFICES ASSUME NEW t \in Compound  PROVE c[t] = CValue(c, t)
    OBVIOUS
  <2>1. \A j \in 1..t - 1 : j \in Compound
    BY <1>3
  <2>2. \A j \in 1..t - 1 : g[j] = c[j]
    BY <2>1
  <2>3. CValue(g, t) = CValue(c, t)
    BY <2>2, CValueLocal
  <2>4. g[t] = CValue(g, t)
    BY <1>3, <1>8
  <2> QED  BY <2>3, <2>4
<1>10. c = Body(c)
  <2>1. Body(c) = [t \in Compound |-> c[t]]
    BY <1>2, <1>9
  <2> QED  BY <2>1
<1> HIDE DEF c
<1>11. CLayout = Body(CLayout)
  BY <1>1, <1>10
<1> QED  BY <1>2, <1>11

\* An array type without a fixed length is a pointer to anyone who asks.
OpenArrays ==
  \A t \in Compound : length[t] = 0 => size[t] = PointerSize /\ alignment[t] = PointerSize

\* The step of each invariant of layouts from the other.
LEMMA OpenArraysStep ==
  ASSUME LayoutInv, OpenArrays, [Next]_vars
  PROVE  OpenArrays'
<1> SUFFICES ASSUME NEW u \in Compound, length'[u] = 0
             PROVE  size'[u] = PointerSize /\ alignment'[u] = PointerSize
  BY DEF OpenArrays
<1> DEFINE Same == length' = length /\ size' = size /\ alignment' = alignment
<1>1. CASE Same
  BY <1>1 DEF OpenArrays
<1>2. CASE Next
  <2>1. PICK t \in Compound :
          \/ \E f \in Menu[t] : DefineProperty(t, f.name, f.type)
          \/ \E f \in Menu[t], len \in Lengths : DefineArray(t, f.type, len)
          \/ NewInstance(t)
          \/ \E n \in Names : GetField(t, n)
          \/ Describe(t)
    BY <1>2 DEF Next
  <2>2. ASSUME NEW f \in Menu[t], DefineProperty(t, f.name, f.type)
        PROVE  size'[u] = PointerSize /\ alignment'[u] = PointerSize
    <3>1. t \in Records /\ length'[u] = length[u] /\ (u # t => size'[u] = size[u] /\ alignment'[u] = alignment[u])
      BY <2>2 DEF DefineProperty, Definable, LayoutInv, TypeOK
    <3>2. u # t
      BY <3>1 DEF LayoutInv, ElemInv, Records, Arrays
    <3> QED  BY <3>1, <3>2 DEF OpenArrays
  <2>3. ASSUME NEW f \in Menu[t], NEW len \in Lengths, DefineArray(t, f.type, len)
        PROVE  size'[u] = PointerSize /\ alignment'[u] = PointerSize
    <3>1. CASE u = t
      <4>1. len = 0
        BY <2>3, <3>1 DEF DefineArray, LayoutInv, TypeOK
      <4> QED  BY <2>3, <3>1, <4>1 DEF DefineArray, LayoutInv, TypeOK
    <3>2. CASE u # t
      BY <2>3, <3>2 DEF DefineArray, LayoutInv, TypeOK, OpenArrays
    <3> QED  BY <3>1, <3>2
  <2>4. CASE NewInstance(t)
    BY <1>1, <2>4 DEF NewInstance, layoutVars
  <2>5. ASSUME NEW n \in Names, GetField(t, n)
        PROVE  size'[u] = PointerSize /\ alignment'[u] = PointerSize
    BY <1>1, <2>5 DEF GetField, layoutVars
  <2>6. CASE Describe(t)
    BY <1>1, <2>6 DEF Describe, layoutVars
  <2> QED  BY <2>1, <2>2, <2>3, <2>4, <2>5, <2>6
<1>3. CASE UNCHANGED vars
  BY <1>1, <1>3 DEF vars, layoutVars
<1> QED  BY <1>2, <1>3

-----------------------------------------------------------------------------

\* An upper bound that belongs to the set is its maximum.
LEMMA MaxEq ==
  ASSUME NEW S \in SUBSET Nat, NEW m \in S, \A x \in S : x <= m
  PROVE  Max(S) = m
<1>1. m \in Nat /\ S # {}
  OBVIOUS
<1>2. Max(S) \in S /\ \A x \in S : x <= Max(S)
  BY <1>1, MaxIs
<1> DEFINE x == Max(S)
<1>3. x \in Nat /\ m <= x /\ x <= m
  BY <1>2
<1> HIDE DEF x
<1>4. x = m
  BY <1>1, <1>3
<1> QED  BY <1>4 DEF x

\* Alignments are positive.
LEMMA AlignmentsAre ==
  /\ Alignments \subseteq Nat \ {0} /\ PointerSize \in Alignments
  /\ \A p \in Prims : PrimAlign[p] # 0 => PrimAlign[p] \in Alignments
BY PrimAssumption DEF Alignments

\* A type with all it embeds is before the types that embed it.
LEMMA ClosureBelow ==
  ASSUME NEW t \in Compound, NEW u \in Closure[t]
  PROVE  u \in Compound /\ u <= t
<1> DEFINE S == {w \in Compound : \A x \in Closure[w] : x <= w}
<1>1. N \in Nat /\ Compound = 1..N
  BY NAssumption DEF Compound
<1>2. ASSUME NEW w \in 1..N, 1..w - 1 \subseteq S  PROVE w \in S
  <2> SUFFICES ASSUME NEW x \in Closure[w]  PROVE x <= w
    BY <1>1
  <2>1. CASE x = w
    BY <2>1
  <2>2. CASE x # w
    <3>1. PICK v \in Embedded(w) : v < w /\ x \in Closure[v]
      BY <1>1, <2>2, ClosureIs
    <3>2. v \in Compound
      BY DEF Embedded, Arrays
    <3>3. v \in S
      BY <1>1, <1>2, <3>1, <3>2
    <3>4. x \in Compound /\ x <= v
      BY <3>1, <3>2, <3>3, ClosureIs
    <3> QED  BY <1>1, <3>1, <3>2, <3>4
  <2> QED  BY <2>1, <2>2
<1> HIDE DEF S
<1>3. 1..N \subseteq S
  BY <1>1, <1>2, CourseInduction
<1>4. t \in S
  BY <1>1, <1>3
<1>5. u \in Compound
  BY ClosureIs
<1> QED  BY <1>4, <1>5 DEF S

\* A type whose layout is that of C: plain, settled and, if an array, defined.
Sound(t) == t \in Compound /\ Plain(t) /\ Settled(t) /\ (t \in Arrays => length[t] # -1)

\* What a sound type embeds is sound.
LEMMA SoundEmbeds ==
  ASSUME LayoutInv, NEW t, Sound(t), NEW v \in Embedded(t)
  PROVE  Sound(v) /\ v \in 1..t - 1 /\ kind[v] # "packed"
<1>1. PICK r \in TypesIn(t) : v = r.base
  BY DEF Embedded
<1>2. t \in Compound /\ v \in Compound /\ v < t /\ N \in Nat /\ Compound = 1..N
  BY <1>1, NAssumption DEF Sound, Embedded, Arrays, LayoutInv, DefinedInv, Compound
<1>3. Closure[v] \subseteq Closure[t]
  BY <1>2, ClosureIs
<1>4. \A w \in Closure[v] : w # t
  <2> SUFFICES ASSUME NEW w \in Closure[v]  PROVE w # t
    OBVIOUS
  <2>1. w <= v /\ w \in Compound
    BY <1>2, ClosureBelow
  <2> QED  BY <1>2, <2>1
<1>5. v \in Closure[v]
  BY <1>2, ClosureIs
<1>6. Plain(v)
  BY <1>3, <1>4 DEF Sound, Plain
<1>7. Settled(v)
  BY <1>3 DEF Sound, Settled
<1>8. v \in Arrays => length[v] # -1
  <2>1. Exists(r)
    BY <1>1, <1>2 DEF LayoutInv, DefinedInv
  <2> QED  BY <1>1, <2>1 DEF Exists
<1>9. kind[v] # "packed"
  BY <1>3, <1>4, <1>5 DEF Sound, Plain
<1> QED  BY <1>2, <1>6, <1>7, <1>8, <1>9 DEF Sound

\* The layout is that of C, and fits an array.
Matches(t) ==
  /\ size[t] = CLayout[t].size /\ alignment[t] = CLayout[t].alignment
  /\ alignment[t] \in Alignments /\ size[t] % alignment[t] = 0

\* What holds of the types before t.
MatchesBefore(t) == \A v \in 1..t - 1 : Sound(v) /\ kind[v] # "packed" => Matches(v)

\* The type of a field or element has in recalc() the size and alignment that
\* it has in C.
LEMMA RefMatches ==
  ASSUME LayoutInv, AlignedAsInC, NEW t, Sound(t), MatchesBefore(t),
         NEW r \in TypesIn(t)
  PROVE  /\ r \in TypeRef
         /\ CRef(CLayout, r).size = SizeOf(r) /\ CRef(CLayout, r).alignment = AlignOf(r)
         /\ SizeOf(r) \in Nat
         /\ AlignOf(r) \in Alignments /\ AlignOf(r) \in Nat \ {0} /\ SizeOf(r) % AlignOf(r) = 0
         /\ AlignOf(r) = IF r.ptr THEN PointerSize ELSE RawAlign(r)
         /\ ~r.ptr => RawAlign(r) # 0
<1>0. t \in Compound /\ TypeOK /\ PointerSize \in Nat \ {0}
  BY PrimAssumption DEF Sound, LayoutInv
<1>1. r \in TypeRef
  BY <1>0, EmbeddedBefore DEF Sound, Records
<1>2. r.ptr \in BOOLEAN /\ SizeOf(r) \in Nat /\ AlignOf(r) \in Nat \ {0}
  BY <1>0, <1>1, RefIs DEF TypeRef
<1>3. CASE r.ptr
  <2>1. SizeOf(r) = PointerSize /\ AlignOf(r) = PointerSize /\ CRef(CLayout, r) = CPointer
    BY <1>3 DEF SizeOf, AlignOf, CRef
  <2>2. PointerSize = 1 * PointerSize
    BY <1>0
  <2>3. PointerSize % PointerSize = 0
    BY <1>0, <2>2, MultipleIs
  <2> QED  BY <1>1, <1>2, <1>3, <2>1, <2>3, AlignmentsAre DEF CPointer
<1>4. CASE ~r.ptr /\ r.base \in Prims
  <2>1. t \in Closure[t]
    BY <1>0, ClosureIs
  <2>2. PrimAlign[r.base] # 0
    BY <1>4, <2>1 DEF Sound, Plain
  <2>3. /\ SizeOf(r) = PrimSize[r.base] /\ AlignOf(r) = PrimAlign[r.base] /\ RawAlign(r) = PrimAlign[r.base]
        /\ CRef(CLayout, r) = [size |-> PrimSize[r.base], alignment |-> PrimAlign[r.base]]
    BY <1>4, <2>2 DEF SizeOf, RawSize, AlignOf, RawAlign, CRef
  <2>4. PrimAlign[r.base] \in Alignments /\ PrimSize[r.base] % PrimAlign[r.base] = 0
    BY <1>4, <2>2, AlignmentsAre DEF AlignedAsInC
  <2> QED  BY <1>1, <1>2, <1>4, <2>2, <2>3, <2>4
<1>5. CASE ~r.ptr /\ r.base \notin Prims
  <2>1. r.base \in Compound
    BY <1>1, <1>5 DEF TypeRef
  <2>2. r.base \in Embedded(t)
    BY <1>5, <2>1 DEF Embedded
  <2>3. Matches(r.base)
    BY <2>2, SoundEmbeds DEF MatchesBefore
  <2>4. /\ SizeOf(r) = size[r.base] /\ RawAlign(r) = alignment[r.base]
        /\ CRef(CLayout, r) = CLayout[r.base]
    BY <1>5 DEF SizeOf, RawSize, RawAlign, CRef
  <2>5. RawAlign(r) # 0
    BY <2>3, <2>4, AlignmentsAre DEF Matches
  <2>6. AlignOf(r) = RawAlign(r)
    BY <1>5, <2>5 DEF AlignOf
  <2> QED  BY <1>1, <1>2, <1>5, <2>3, <2>4, <2>5, <2>6 DEF Matches
<1> QED  BY <1>2, <1>3, <1>4, <1>5

\* Parts whose size is a multiple of their alignment leave no gaps.
LEMMA EndExact ==
  ASSUME TypeOK, ElemInv, NEW t, NEW o \in Nat, NEW f \in Field, NEW a \in Nat \ {0},
         Alignable(t, Parts(f.type)[1]), SizeOf(Parts(f.type)[1]) % a = 0,
         \A x \in Nat : Start(t, x, Parts(f.type)[1]) =
                          IF kind[t] = "packed" THEN x ELSE PadTo(x, a)
  PROVE  End(t, o, f) = Start(t, o, Parts(f.type)[1]) + Room(f.type)
<1> DEFINE p == Parts(f.type)[1]
           n == Len(Parts(f.type))
           z == SizeOf(p)
           s == Start(t, o, p)
<1>1. PICK e : Ends(e, t, o, f)
  BY EndIs
<1>2. /\ n \in Nat /\ n # 0 /\ e \in [0..n -> Nat] /\ e[0] = o
      /\ \A i \in 1..n : e[i] = Start(t, e[i - 1], p) + z
      /\ End(t, o, f) = e[n]
  BY <1>1 DEF Ends
<1>3. p \in TypeRef /\ z \in Nat /\ z % a = 0
  <2>1. f.type \in TypeRef
    BY DEF Field
  <2>2. p \in TypeRef
    BY <2>1, PartsAre
  <2> QED  BY <2>2, RefIs
<1>4. \A x \in Nat : Start(t, x, p) = IF kind[t] = "packed" THEN x ELSE PadTo(x, a)
  OBVIOUS
<1>5. Room(f.type) = n * z
  BY DEF Room
<1> HIDE DEF z, n, p
<1>6. s \in Nat /\ (kind[t] # "packed" => s % a = 0)
  <2>1. s = IF kind[t] = "packed" THEN o ELSE PadTo(o, a)
    BY <1>4
  <2> HIDE DEF s
  <2> QED  BY <2>1, PadToIs, PadToMultiple
<1>7. \A k \in Nat : k * z \in Nat /\ (k * z) % a = 0 /\ (k + 1) * z = k * z + z
  BY <1>3, TimesMultiple, Product
<1>8. 1 * z = z
  BY <1>3
<1> DEFINE S == {i \in 1..n : e[i] = s + i * z}
<1>9. 1 \in S /\ 1 \in Nat
  <2>1. 1 \in 1..n /\ 1 - 1 = 0
    BY <1>2
  <2>2. e[1] = s + z
    BY <1>2, <2>1
  <2> HIDE DEF s
  <2> QED  BY <1>8, <2>1, <2>2
<1>10. ASSUME NEW i \in 1..n - 1, i \in S  PROVE i + 1 \in S
  <2>1. i + 1 \in 1..n /\ (i + 1) - 1 = i /\ i \in Nat
    BY <1>2
  <2>2. e[i] = s + i * z /\ i * z \in Nat /\ (i * z) % a = 0 /\ (i + 1) * z = i * z + z
    BY <1>7, <1>10, <2>1
  <2>3. e[i + 1] = Start(t, e[i], p) + z
    BY <1>2, <2>1
  <2> HIDE DEF s
  <2>4. e[i] \in Nat /\ (kind[t] # "packed" => e[i] % a = 0)
    <3>1. kind[t] # "packed" => (s + i * z) % a = 0
      <4> DEFINE y == i * z
      <4>1. y \in Nat /\ y % a = 0
        BY <2>2
      <4> HIDE DEF y
      <4>2. kind[t] # "packed" => (s + y) % a = 0
        BY <1>6, <4>1, SumMultiple
      <4> QED  BY <4>2 DEF y
    <3> QED  BY <1>6, <2>2, <3>1
  <2>5. Start(t, e[i], p) = e[i]
    <3> DEFINE x == e[i]
    <3>1. x \in Nat /\ (kind[t] # "packed" => x % a = 0)
      BY <2>4
    <3> HIDE DEF x
    <3>2. kind[t] # "packed" => PadTo(x, a) = x
      BY <3>1, PadToMultiple
    <3>3. Start(t, x, p) = x
      BY <1>4, <3>1, <3>2
    <3> QED  BY <3>3 DEF x
  <2>6. e[i + 1] = s + (i + 1) * z
    BY <1>3, <1>6, <2>2, <2>3, <2>5
  <2> QED  BY <2>1, <2>6
<1> HIDE DEF S
<1>11. 1..n \subseteq S
  BY <1>2, <1>9, <1>10, RangeInduction
<1>12. n \in S
  BY <1>2, <1>11
<1>13. e[n] = s + n * z
  BY <1>12 DEF S
<1>14. s = Start(t, o, p)
  OBVIOUS
<1> HIDE DEF s
<1> QED  BY <1>2, <1>5, <1>13, <1>14 DEF p

\* A field of a sound type takes the room of its type, from the first
\* multiple of its alignment.
LEMMA FieldExact ==
  ASSUME LayoutInv, AlignedAsInC, NEW t \in Records, Sound(t), MatchesBefore(t),
         NEW f \in Field, f.type \in TypesIn(t), NEW o \in Nat
  PROVE  /\ Alignable(t, Parts(f.type)[1])
         /\ Start(t, o, Parts(f.type)[1]) =
              IF kind[t] = "packed" THEN o ELSE PadTo(o, AlignOf(f.type))
         /\ End(t, o, f) = Start(t, o, Parts(f.type)[1]) + SizeOf(f.type)
<1> DEFINE r == f.type
           p == Parts(r)[1]
           a == AlignOf(r)
<1>1. /\ r \in TypeRef /\ a \in Nat \ {0} /\ SizeOf(r) \in Nat /\ SizeOf(r) % a = 0
      /\ a = IF r.ptr THEN PointerSize ELSE RawAlign(r)
      /\ (~r.ptr => RawAlign(r) # 0)
  BY RefMatches
<1>2. TypeOK /\ ElemInv /\ t \in Compound /\ t \in Closure[t]
  BY ClosureIs DEF LayoutInv, Records
<1>3. ~PointerToArray(r)
  BY <1>2 DEF Sound, Plain
<1>4. /\ p = IF FixedLength(r) > 0 THEN elem[r.base] ELSE r
      /\ a = IF p.ptr THEN PointerSize ELSE RawAlign(p)
      /\ (~p.ptr => RawAlign(p) # 0) /\ SizeOf(p) % a = 0
  <2>1. p = IF FixedLength(r) > 0 THEN elem[r.base] ELSE r
    BY <1>1, <1>2, PartsAre
  <2>2. CASE ~(FixedLength(r) > 0)
    BY <1>1, <2>1, <2>2
  <2>3. CASE FixedLength(r) > 0
    <3> DEFINE b == r.base
    <3>1. b \in Arrays /\ ~r.ptr /\ length[b] > 0 /\ b \in Compound /\ b \notin Prims /\ p = elem[b]
      BY <1>3, <2>1, <2>3, PrimAssumption DEF FixedLength, PointerToArray, IsFixedArray, Arrays
    <3>2. b \in Embedded(t)
      BY <3>1 DEF Embedded
    <3>3. Sound(b) /\ b \in 1..t - 1 /\ b \in Closure[b]
      BY <3>1, <3>2, SoundEmbeds, ClosureIs
    <3>4. elem[b] \in TypesIn(b)
      BY <3>1 DEF TypesIn
    <3>5. MatchesBefore(b)
      <4>1. t \in Nat /\ b \in Nat /\ b < t
        BY <1>2, <3>3, NAssumption DEF Compound
      <4>2. \A v \in 1..b - 1 : v \in 1..t - 1
        BY <4>1
      <4> QED  BY <4>2 DEF MatchesBefore
    <3>6. UpToDate(b)
      BY <3>3 DEF Sound, Settled
    <3>7. alignment[b] = RawAlign(elem[b])
      BY <3>1, <3>6 DEF UpToDate
    <3>8. ~elem[b].ptr
      BY <3>1, <3>3, <3>4 DEF Sound, Plain
    <3>9. /\ AlignOf(p) = (IF p.ptr THEN PointerSize ELSE RawAlign(p))
          /\ (~p.ptr => RawAlign(p) # 0) /\ SizeOf(p) % AlignOf(p) = 0
      BY <3>1, <3>3, <3>4, <3>5, RefMatches
    <3>10. a = alignment[b]
      BY <1>1, <3>1 DEF RawAlign
    <3>11. a = AlignOf(p) /\ ~p.ptr
      BY <3>1, <3>7, <3>8, <3>9, <3>10
    <3> HIDE DEF a, p, b
    <3> QED  BY <2>1, <3>9, <3>11
  <2> QED  BY <2>1, <2>2, <2>3
<1>5. Alignable(t, p)
  BY <1>4 DEF Alignable
<1>6. \A x \in Nat : Start(t, x, p) = IF kind[t] = "packed" THEN x ELSE PadTo(x, a)
  BY <1>4 DEF Start
<1>7. End(t, o, f) = Start(t, o, p) + Room(r)
  <2> HIDE DEF a
  <2> QED  BY <1>1, <1>2, <1>4, <1>5, <1>6, EndExact
<1>8. Room(r) = SizeOf(r)
  BY <1>1, <1>3, RoomIs DEF Sound
<1> QED  BY <1>5, <1>6, <1>7, <1>8

-----------------------------------------------------------------------------
(* CRecord in parts: any offsets that follow one another as in C are its.  *)

CAlign(t, of, i) == IF kind[t] = "packed" THEN 1 ELSE of[i].alignment
CMax(t, of) == Max({1} \cup {CAlign(t, of, i) : i \in DOMAIN of})
CEnd(of, at) == Max({0} \cup {at[i] + of[i].size : i \in DOMAIN of})
CAt(t, of, at) ==
  [i \in DOMAIN of |-> IF i = 1 \/ kind[t] = "union" THEN 0
                       ELSE LeastAligned(at[i - 1] + of[i - 1].size, CAlign(t, of, i))]

\* Such offsets are the ones that CRecord chooses.
LEMMA CRecordIs ==
  ASSUME NEW t, NEW n \in Nat, NEW of, DOMAIN of = 1..n, NEW w, w = CAt(t, of, w)
  PROVE  CRecord(t, of) = [size |-> LeastAligned(CEnd(of, w), CMax(t, of)),
                           alignment |-> CMax(t, of), at |-> w]
<1> DEFINE at == CHOOSE x : x = CAt(t, of, x)
<1>1. CRecord(t, of) = [size |-> LeastAligned(CEnd(of, at), CMax(t, of)),
                        alignment |-> CMax(t, of), at |-> at]
  BY DEF CRecord, CAlign, CMax, CEnd, CAt
<1>2. at = CAt(t, of, at)
  OBVIOUS
<1> HIDE DEF at
<1> DEFINE S == {i \in 0..n : i # 0 => at[i] = w[i]}
<1>3. 0 \in S /\ 0 \in Nat
  OBVIOUS
<1>4. ASSUME NEW i \in 0..n - 1, i \in S  PROVE i + 1 \in S
  <2>1. i + 1 \in 1..n /\ i + 1 \in 0..n /\ (i + 1) - 1 = i
    BY <1>4
  <2> DEFINE m == i + 1
  <2>2. m = 1 \/ at[m - 1] = w[m - 1]
    BY <1>4, <2>1
  <2>3. m \in DOMAIN of
    BY <2>1
  <2> HIDE DEF m
  <2>4. /\ at[m] = (IF m = 1 \/ kind[t] = "union" THEN 0
                    ELSE LeastAligned(at[m - 1] + of[m - 1].size, CAlign(t, of, m)))
        /\ w[m] = (IF m = 1 \/ kind[t] = "union" THEN 0
                   ELSE LeastAligned(w[m - 1] + of[m - 1].size, CAlign(t, of, m)))
    BY <1>2, <2>3 DEF CAt
  <2>5. at[m] = w[m]
    BY <2>2, <2>4
  <2> QED  BY <2>1, <2>5 DEF m
<1> HIDE DEF S
<1>5. 0..n \subseteq S
  BY <1>3, <1>4, RangeInduction
<1>6. \A i \in 1..n : at[i] = w[i]
  BY <1>5 DEF S
<1>7. at = w
  <2>1. at = [i \in 1..n |-> at[i]] /\ w = [i \in 1..n |-> w[i]]
    BY <1>2 DEF CAt
  <2> QED  BY <1>6, <2>1
<1> QED  BY <1>1, <1>7

-----------------------------------------------------------------------------
(* Records.                                                                *)

\* The fields of a sound type, as recalc() and as C see them.
FieldsMatch(t, of) ==
  LET fs == fields[t]
  IN /\ fs \in Seq(Field) /\ fs # <<>>
     /\ Len(fs) \in Nat \ {0} /\ DOMAIN fs = 1..Len(fs) /\ DOMAIN of = 1..Len(fs)
     /\ \A i \in 1..Len(fs) :
          /\ fs[i] \in Field /\ fs[i].name \in Names /\ fs[i].type \in TypesIn(t)
          /\ of[i].size = SizeOf(fs[i].type) /\ of[i].alignment = AlignOf(fs[i].type)
          /\ SizeOf(fs[i].type) \in Nat /\ AlignOf(fs[i].type) \in Nat \ {0}
          /\ AlignOf(fs[i].type) \in Alignments
          /\ SizeOf(fs[i].type) % AlignOf(fs[i].type) = 0

\* The fields of a sound record match, and its layout is what recalc() finds.
LEMMA SoundFields ==
  ASSUME LayoutInv, AlignedAsInC, NEW t \in Records, Sound(t), MatchesBefore(t)
  PROVE  /\ FieldsMatch(t, CFields(CLayout, t))
         /\ CLayout[t] = CRecord(t, CFields(CLayout, t))
         /\ Recalc(t, fields[t]).ok
         /\ offset[t] = Recalc(t, fields[t]).offset
         /\ size[t] = Recalc(t, fields[t]).size
         /\ alignment[t] = Recalc(t, fields[t]).alignment
         /\ Keys(fields[t]) = fields[t]
<1>1. t \in Compound /\ t \notin Arrays /\ t \in Closure[t]
  BY ClosureIs DEF Records
<1>2. UpToDate(t)
  BY <1>1 DEF Sound, Settled
<1>3. /\ fields[t] # <<>> /\ Recalc(t, fields[t]).ok
      /\ offset[t] = Recalc(t, fields[t]).offset
      /\ size[t] = Recalc(t, fields[t]).size
      /\ alignment[t] = Recalc(t, fields[t]).alignment
  BY <1>1, <1>2 DEF UpToDate
<1>4. Keys(fields[t]) = fields[t]
  BY <1>1 DEF Sound, Plain
<1>5. CLayout[t] = CRecord(t, CFields(CLayout, t))
  BY <1>1, CLayoutIs DEF CValue
<1> DEFINE fs == fields[t]
           of == CFields(CLayout, t)
<1>6. fs \in Seq(Field)
  BY <1>1 DEF LayoutInv, TypeOK
<1>7. /\ Len(fs) \in Nat \ {0} /\ DOMAIN fs = 1..Len(fs)
      /\ \A i \in 1..Len(fs) : fs[i] \in Field /\ fs[i].type \in TypeRef /\ fs[i].name \in Names
  BY <1>3, <1>6, FieldsAre
<1>8. DOMAIN of = 1..Len(fs) /\ \A i \in 1..Len(fs) : of[i] = CRef(CLayout, fs[i].type)
  BY <1>7 DEF CFields
<1>9. ASSUME NEW i \in 1..Len(fs)
      PROVE  /\ fs[i] \in Field /\ fs[i].name \in Names /\ fs[i].type \in TypesIn(t)
             /\ of[i].size = SizeOf(fs[i].type) /\ of[i].alignment = AlignOf(fs[i].type)
             /\ SizeOf(fs[i].type) \in Nat /\ AlignOf(fs[i].type) \in Nat \ {0}
             /\ AlignOf(fs[i].type) \in Alignments
             /\ SizeOf(fs[i].type) % AlignOf(fs[i].type) = 0
  <2> DEFINE r == fs[i].type
  <2>1. r \in TypesIn(t)
    BY <1>1, <1>7 DEF TypesIn
  <2>2. of[i] = CRef(CLayout, r)
    BY <1>8
  <2> HIDE DEF r, of
  <2>3. /\ CRef(CLayout, r).size = SizeOf(r) /\ CRef(CLayout, r).alignment = AlignOf(r)
        /\ SizeOf(r) \in Nat
        /\ AlignOf(r) \in Alignments /\ AlignOf(r) \in Nat \ {0} /\ SizeOf(r) % AlignOf(r) = 0
    BY <2>1, RefMatches
  <2> QED  BY <1>7, <2>1, <2>2, <2>3 DEF r
<1>10. FieldsMatch(t, of)
  <2> HIDE DEF of
  <2> QED  BY <1>3, <1>6, <1>7, <1>8, <1>9 DEF FieldsMatch
<1> QED  BY <1>3, <1>4, <1>5, <1>10

\* The alignment: the largest of the fields', which is one of them.
LEMMA AlignmentMatches ==
  ASSUME NEW t, NEW of, FieldsMatch(t, of)
  PROVE  LET A == {AlignOf(fields[t][i].type) : i \in DOMAIN fields[t]}
         IN /\ A \subseteq Alignments /\ A \subseteq Nat \ {0}
            /\ Max(A) \in A /\ Min(A) \in A /\ \A x \in A : Min(A) <= x
            /\ CMax(t, of) = IF kind[t] = "packed" THEN 1 ELSE Max(A)
<1> DEFINE fs == fields[t]
           n == Len(fs)
           f == [i \in 1..n |-> AlignOf(fs[i].type)]
           A == {AlignOf(fields[t][i].type) : i \in DOMAIN fields[t]}
           F == {f[i] : i \in 1..n}
           B == {1} \cup {CAlign(t, of, i) : i \in DOMAIN of}
<1>1. /\ n \in Nat /\ n # 0 /\ DOMAIN fields[t] = 1..n /\ DOMAIN of = 1..n
      /\ \A i \in 1..n : f[i] \in Nat \ {0} /\ f[i] \in Alignments /\ of[i].alignment = f[i]
  BY DEF FieldsMatch
<1>2. A = F /\ A \subseteq Alignments /\ A \subseteq Nat \ {0}
  BY <1>1
<1>3. B = IF kind[t] = "packed" THEN {1} ELSE {1} \cup A
  <2>1. \A i \in 1..n : CAlign(t, of, i) = IF kind[t] = "packed" THEN 1 ELSE f[i]
    BY <1>1 DEF CAlign
  <2> HIDE DEF f, F
  <2>2. CASE kind[t] = "packed"
    <3>1. 1 \in 1..n
      BY <1>1
    <3>2. \A i \in DOMAIN of : CAlign(t, of, i) = 1
      BY <1>1, <2>1, <2>2
    <3> QED  BY <1>1, <2>2, <3>1, <3>2
  <2>3. CASE kind[t] # "packed"
    <3>1. \A i \in 1..n : CAlign(t, of, i) = f[i]
      BY <2>1, <2>3
    <3>2. {CAlign(t, of, i) : i \in DOMAIN of} = F
      BY <1>1, <3>1 DEF F
    <3> QED  BY <1>2, <2>3, <3>2
  <2> QED  BY <2>2, <2>3
<1>4. CMax(t, of) = Max(B)
  BY DEF CMax
<1> HIDE DEF f, n, A, B
<1>5. Max(F) \in F /\ Min(F) \in F /\ \A i \in 1..n : f[i] <= Max(F) /\ Min(F) <= f[i]
  BY <1>1, ExtremesOf
<1>6. Max(A) \in A /\ Min(A) \in A /\ \A x \in A : Min(A) <= x /\ x <= Max(A)
  BY <1>2, <1>5
<1>7. CASE kind[t] = "packed"
  <2>1. Max({1}) = 1
    BY MaxEq
  <2> QED  BY <1>2, <1>3, <1>4, <1>6, <1>7, <2>1 DEF A
<1>8. CASE kind[t] # "packed"
  <2> DEFINE m == Max(A)
  <2>a. m \in A /\ \A x \in A : x <= m
    BY <1>6
  <2>b. B = {1} \cup A
    BY <1>3, <1>8
  <2>c. A \subseteq Nat \ {0}
    BY <1>2
  <2> HIDE DEF m
  <2>d. m \in Nat /\ 1 <= m
    BY <2>a, <2>c
  <2>1. m \in B /\ B \in SUBSET Nat /\ \A x \in B : x <= m
    BY <2>a, <2>b, <2>c, <2>d
  <2>2. Max(B) = m
    BY <2>1, MaxEq
  <2> QED  BY <1>2, <1>4, <1>6, <1>8, <2>2 DEF A, m
<1> QED  BY <1>7, <1>8

\* recalc() of union.js lays a union out as C does.
LEMMA UnionIsC ==
  ASSUME LayoutInv, AlignedAsInC, NEW t \in Records, Sound(t), MatchesBefore(t), kind[t] = "union"
  PROVE  /\ Matches(t)
         /\ \A i \in DOMAIN fields[t] : offset[t][fields[t][i].name] = CLayout[t].at[i]
<1> DEFINE of == CFields(CLayout, t)
           fs == fields[t]
           n == Len(fs)
           A == {AlignOf(fs[i].type) : i \in DOMAIN fs}
           f == [i \in 1..n |-> SizeOf(fs[i].type)]
           Z == {SizeOf(fs[i].type) : i \in DOMAIN fs}
           F == {f[i] : i \in 1..n}
           w == [i \in DOMAIN of |-> 0]
<1>1. /\ FieldsMatch(t, of) /\ CLayout[t] = CRecord(t, of)
      /\ size[t] = Recalc(t, fs).size /\ alignment[t] = Recalc(t, fs).alignment
  BY SoundFields
<1>2. /\ n \in Nat \ {0} /\ DOMAIN fs = 1..n /\ DOMAIN of = 1..n
      /\ \A i \in 1..n : f[i] \in Nat /\ of[i].size = f[i] /\ fs[i].name \in Names
  BY <1>1 DEF FieldsMatch
<1>3. Recalc(t, fs) = [ok |-> TRUE, offset |-> offset[t], alignment |-> Max(A),
                       size |-> PadTo(Max(Z), Max(A))]
  BY DEF Recalc, RecalcUnion
<1>4. Z = F
  BY <1>2
<1>5. A \subseteq Alignments /\ A \subseteq Nat \ {0} /\ Max(A) \in A /\ CMax(t, of) = Max(A)
  BY <1>1, AlignmentMatches
<1> HIDE DEF of, f, n, Z
<1>6. Max(F) \in F /\ \A i \in 1..n : f[i] <= Max(F)
  BY <1>2, ExtremesOf
<1>7. w = CAt(t, of, w)
  BY DEF CAt
<1>8. CRecord(t, of) = [size |-> LeastAligned(CEnd(of, w), CMax(t, of)),
                        alignment |-> CMax(t, of), at |-> w]
  <2> HIDE DEF w
  <2> QED  BY <1>2, <1>7, CRecordIs
<1>9. CEnd(of, w) = Max(F) /\ Max(F) \in Nat
  <2> DEFINE E == {0} \cup {w[i] + of[i].size : i \in DOMAIN of}
             m == Max(F)
  <2>1. \A i \in 1..n : w[i] + of[i].size = f[i]
    BY <1>2
  <2>2. E = {0} \cup F
    BY <1>2, <2>1
  <2>a. F \in SUBSET Nat /\ m \in F /\ \A x \in F : x <= m
    BY <1>2, <1>6
  <2> HIDE DEF m, E, F
  <2>b. m \in Nat
    BY <2>a
  <2>3. m \in E /\ E \in SUBSET Nat /\ \A x \in E : x <= m
    BY <2>2, <2>a, <2>b
  <2>4. CEnd(of, w) = Max(E)
    BY DEF CEnd, E
  <2>5. Max(E) = m
    BY <2>3, MaxEq
  <2> QED  BY <2>3, <2>4, <2>5 DEF m
<1> HIDE DEF w, fs, A, F
<1> DEFINE x == Max(F)
           a == Max(A)
<1>10. x \in Nat /\ a \in Nat \ {0} /\ a \in Alignments
  BY <1>5, <1>9
<1>11. size[t] = PadTo(x, a) /\ alignment[t] = a /\ CLayout[t].size = LeastAligned(x, a)
       /\ CLayout[t].alignment = a /\ CLayout[t].at = w
  BY <1>1, <1>3, <1>4, <1>5, <1>8, <1>9
<1> HIDE DEF x, a
<1>12. PadTo(x, a) \in Nat /\ x <= PadTo(x, a) /\ PadTo(x, a) < x + a
  BY <1>10, PadToIs
<1>13. PadTo(x, a) \in x..(x + a - 1)
  BY <1>10, <1>12
<1>14. LeastAligned(x, a) = PadTo(x, a) /\ PadTo(x, a) % a = 0
  BY <1>10, <1>13, LeastAlignedIs, PadToMultiple
<1>15. Matches(t)
  BY <1>10, <1>11, <1>14 DEF Matches
<1>16. \A i \in 1..n : offset[t][fs[i].name] = w[i]
  <2>1. offset[t] = [y \in Names |-> 0]
    BY DEF LayoutInv, UnionInv, Records
  <2> QED  BY <1>2, <2>1 DEF w
<1> QED  BY <1>2, <1>11, <1>15, <1>16 DEF fs

\* Rounds of recalc() over the fields of a sound type leave no other gaps than
\* those that align the fields.
LEMMA RoundExact ==
  ASSUME LayoutInv, AlignedAsInC, NEW t \in Records, Sound(t), MatchesBefore(t),
         NEW a, Placed(a, t, fields[t]), Place(t, fields[t]).ok, NEW k \in 1..Len(fields[t])
  PROVE  LET r == fields[t][k].type
         IN /\ a[k - 1].size \in Nat /\ a[k].size \in Nat
            /\ From(a, t, fields[t], k) \in Nat
            /\ From(a, t, fields[t], k) = IF kind[t] = "packed" THEN a[k - 1].size
                                          ELSE PadTo(a[k - 1].size, AlignOf(r))
            /\ a[k].size = From(a, t, fields[t], k) + SizeOf(r)
<1> DEFINE fs == fields[t]
           f == fs[k]
           b == a[k - 1]
           p == Parts(f.type)[1]
<1>1. t \in Compound /\ t \notin Arrays /\ TypeOK /\ ElemInv
  BY DEF LayoutInv, Records
<1>2. fs \in Seq(Field) /\ f \in Field /\ k - 1 \in 0..Len(fs) /\ f.type \in TypesIn(t)
  <2>1. fs \in Seq(Field) /\ k \in 1..Len(fs) /\ DOMAIN fs = 1..Len(fs)
    BY <1>1 DEF TypeOK
  <2> QED  BY <1>1, <2>1 DEF TypesIn
<1>3. Round(a, t, fs, k)
  BY <1>1, <1>2, RoundIs
<1>4. b \in Placement /\ b.size \in Nat /\ a[k].size \in Nat
      /\ From(a, t, fs, k) \in Nat /\ From(a, t, fs, k) = Start(t, b.size, p)
  BY <1>3 DEF Round, From
<1>5. b.ok
  BY <1>1, <1>2, RoundsSucceed
<1>6. a[k] = PlaceNext(t, b, f)
  BY DEF Placed
<1> HIDE DEF f, b, fs
<1>7. /\ Alignable(t, p)
      /\ Start(t, b.size, p) = IF kind[t] = "packed" THEN b.size ELSE PadTo(b.size, AlignOf(f.type))
      /\ End(t, b.size, f) = Start(t, b.size, p) + SizeOf(f.type)
  BY <1>2, <1>4, FieldExact
<1>8. a[k].size = End(t, b.size, f)
  <2>1. a[k] = [ok |-> TRUE, offset |-> [b.offset EXCEPT ![f.name] = Start(t, b.size, p)],
                size |-> End(t, b.size, f)]
    BY <1>5, <1>6, <1>7 DEF PlaceNext
  <2> QED  BY <2>1
<1>9. /\ b.size \in Nat /\ a[k].size \in Nat /\ From(a, t, fs, k) \in Nat
      /\ From(a, t, fs, k) = IF kind[t] = "packed" THEN b.size ELSE PadTo(b.size, AlignOf(f.type))
      /\ a[k].size = From(a, t, fs, k) + SizeOf(f.type)
  BY <1>4, <1>7, <1>8
<1> QED  BY <1>9 DEF b, f, fs

\* A packed struct needs no padding at its end: the least alignment divides all
\* the others, and so the sizes.
LEMMA PackedEnd ==
  ASSUME LayoutInv, AlignedAsInC, NEW t \in Records, Sound(t), MatchesBefore(t),
         kind[t] = "packed", NEW a, Placed(a, t, fields[t]), Place(t, fields[t]).ok,
         NEW m \in Alignments, m \in Nat \ {0},
         \A i \in 1..Len(fields[t]) : m <= AlignOf(fields[t][i].type)
  PROVE  a[Len(fields[t])].size \in Nat /\ a[Len(fields[t])].size % m = 0
<1> DEFINE fs == fields[t]
           n == Len(fs)
           S == {k \in 0..n : a[k].size \in Nat /\ a[k].size % m = 0}
<1>1. FieldsMatch(t, CFields(CLayout, t)) /\ n \in Nat
  <2>1. FieldsMatch(t, CFields(CLayout, t))
    BY SoundFields
  <2> QED  BY <2>1 DEF FieldsMatch
<1>2. 0 \in S /\ 0 \in Nat
  <2>1. a[0].size = 0
    BY DEF Placed
  <2>2. 0 = 0 * m
    OBVIOUS
  <2>3. 0 % m = 0
    BY <2>2, MultipleIs
  <2> QED  BY <1>1, <2>1, <2>3
<1>3. ASSUME NEW i \in 0..n - 1, i \in S  PROVE i + 1 \in S
  <2> DEFINE k == i + 1
             r == fs[k].type
             x == a[k - 1].size
             z == SizeOf(r)
             g == AlignOf(r)
  <2>1. k \in 1..n /\ k \in 0..n /\ k - 1 = i
    BY <1>1, <1>3
  <2>2. x \in Nat /\ x % m = 0
    BY <1>3, <2>1
  <2> HIDE DEF k
  <2>3. a[k].size \in Nat /\ a[k].size = x + z
    BY <2>1, RoundExact
  <2>4. z \in Nat /\ g \in Nat \ {0} /\ g \in Alignments /\ z % g = 0
    BY <1>1, <2>1 DEF FieldsMatch
  <2>5. m <= g
    BY <2>1
  <2> HIDE DEF x, z, g
  <2>6. g % m = 0
    <3>1. CASE m % g = 0
      <4>1. PICK l \in Nat : m = l * g
        BY <2>4, <3>1, MultipleIs
      <4>2. l # 0
        BY <2>4, <4>1
      <4>3. CASE l = 1
        <5>1. g = 1 * m
          BY <2>4, <4>1, <4>3
        <5> QED  BY <2>4, <5>1, MultipleIs
      <4>4. CASE l # 1
        <5>1. l - 2 \in Nat /\ l = (l - 2) + 2
          BY <4>2, <4>4
        <5>2. m = (l - 2) * g + 2 * g
          BY <2>4, <4>1, <5>1
        <5>3. (l - 2) * g \in Nat
          BY <2>4, <5>1, Product
        <5>4. m > g
          BY <2>4, <5>2, <5>3
        <5> QED  BY <2>4, <2>5, <5>4
      <4> QED  BY <4>3, <4>4
    <3>2. CASE ~(m % g = 0)
      BY <2>4, <3>2 DEF AlignedAsInC
    <3> QED  BY <3>1, <3>2
  <2>7. z % m = 0
    BY <2>4, <2>6, DivideThrough
  <2>8. (x + z) % m = 0
    BY <2>2, <2>4, <2>7, SumMultiple
  <2>9. k \in S
    BY <2>1, <2>3, <2>8
  <2> QED  BY <2>9 DEF k
<1> HIDE DEF S
<1>4. 0..n \subseteq S
  BY <1>1, <1>2, <1>3, RangeInduction
<1>5. n \in S
  BY <1>1, <1>4
<1> QED  BY <1>5 DEF S

\* Where C and recalc() put what follows o.
LEMMA LeastIsPad ==
  ASSUME NEW o \in Nat, NEW a \in Nat \ {0}
  PROVE  LeastAligned(o, a) = PadTo(o, a) /\ LeastAligned(o, 1) = o /\ PadTo(0, a) = 0
<1>1. ASSUME NEW b \in Nat \ {0}  PROVE LeastAligned(o, b) = PadTo(o, b)
  <2>1. PadTo(o, b) \in Nat /\ o <= PadTo(o, b) /\ PadTo(o, b) < o + b
    BY PadToIs
  <2>2. PadTo(o, b) \in o..(o + b - 1)
    BY <2>1
  <2> QED  BY <2>2, LeastAlignedIs
<1>2. PadTo(o, 1) = o
  <2>1. o = o * 1 /\ 1 \in Nat \ {0}
    OBVIOUS
  <2>2. o % 1 = 0
    BY <2>1, MultipleIs
  <2> QED  BY <2>1, <2>2, PadToMultiple
<1>3. PadTo(0, a) = 0
  <2>1. 0 = 0 * a /\ 0 \in Nat
    OBVIOUS
  <2>2. 0 % a = 0
    BY <2>1, MultipleIs
  <2> QED  BY <2>1, <2>2, PadToMultiple
<1>4. LeastAligned(o, 1) = PadTo(o, 1)
  <2>1. 1 \in Nat \ {0}
    OBVIOUS
  <2> QED  BY <1>1, <2>1
<1> QED  BY <1>1, <1>2, <1>3, <1>4

\* recalc() of struct.js lays a struct out as C does.
LEMMA StructIsC ==
  ASSUME LayoutInv, AlignedAsInC, NEW t \in Records, Sound(t), MatchesBefore(t), kind[t] # "union"
  PROVE  /\ size[t] = CLayout[t].size
         /\ kind[t] # "packed" => Matches(t)
         /\ \A i \in DOMAIN fields[t] : offset[t][fields[t][i].name] = CLayout[t].at[i]
<1> DEFINE fs == fields[t]
           n == Len(fs)
           of == CFields(CLayout, t)
           A == {AlignOf(fs[i].type) : i \in DOMAIN fs}
           end == Place(t, fs)
           align == IF kind[t] = "packed" THEN Min(A) ELSE Max(A)
<1>1. /\ FieldsMatch(t, of) /\ CLayout[t] = CRecord(t, of)
      /\ Recalc(t, fs).ok
      /\ offset[t] = Recalc(t, fs).offset
      /\ size[t] = Recalc(t, fs).size
      /\ alignment[t] = Recalc(t, fs).alignment
      /\ Keys(fs) = fs
  BY SoundFields
<1>2. /\ n \in Nat \ {0} /\ DOMAIN fs = 1..n /\ DOMAIN of = 1..n /\ fs \in Seq(Field)
      /\ \A i \in 1..n : /\ of[i].size = SizeOf(fs[i].type) /\ of[i].alignment = AlignOf(fs[i].type)
                         /\ SizeOf(fs[i].type) \in Nat /\ AlignOf(fs[i].type) \in Nat \ {0}
  BY <1>1 DEF FieldsMatch
<1>3. t \in Compound /\ TypeOK /\ ElemInv /\ UniqueNames(fs)
  BY DEF LayoutInv, Records, NamesInv
<1>4. Recalc(t, fs) = [ok |-> end.ok, offset |-> end.offset, alignment |-> align,
                       size |-> IF end.ok THEN PadTo(end.size, align) ELSE end.size]
  BY <1>1 DEF Recalc, RecalcStruct, StructAlignment
<1> HIDE DEF align, end, of
<1>5. end.ok /\ offset[t] = end.offset /\ alignment[t] = align /\ size[t] = PadTo(end.size, align)
  BY <1>1, <1>4
<1>6. /\ A \subseteq Alignments /\ A \subseteq Nat \ {0}
      /\ Max(A) \in A /\ Min(A) \in A /\ \A x \in A : Min(A) <= x
      /\ CMax(t, of) = IF kind[t] = "packed" THEN 1 ELSE Max(A)
  <2>1. FieldsMatch(t, of)
    BY <1>1
  <2> QED  BY <2>1, AlignmentMatches, Zenon
<1>7. PICK a : Placed(a, t, fs)
  BY <1>2, <1>3, PlaceIs
<1>8. end = a[n] /\ a[0].size = 0
  BY <1>7 DEF Placed, end
<1>9. ASSUME NEW k \in 1..n
      PROVE  /\ a[k - 1].size \in Nat /\ a[k].size \in Nat
             /\ From(a, t, fs, k) \in Nat
             /\ From(a, t, fs, k) = IF kind[t] = "packed" THEN a[k - 1].size
                                    ELSE PadTo(a[k - 1].size, of[k].alignment)
             /\ a[k].size = From(a, t, fs, k) + of[k].size
  <2>1. k \in 1..Len(fields[t]) /\ Placed(a, t, fields[t]) /\ Place(t, fields[t]).ok
    BY <1>5, <1>7 DEF end
  <2>2. LET r == fs[k].type
        IN /\ a[k - 1].size \in Nat /\ a[k].size \in Nat
           /\ From(a, t, fs, k) \in Nat
           /\ From(a, t, fs, k) = IF kind[t] = "packed" THEN a[k - 1].size
                                  ELSE PadTo(a[k - 1].size, AlignOf(r))
           /\ a[k].size = From(a, t, fs, k) + SizeOf(r)
    BY <2>1, RoundExact
  <2> QED  BY <1>2, <2>2
<1>10. \A k \in 1..n : \A l \in k..n :
         a[l].offset[fs[k].name] = From(a, t, fs, k) /\ a[k].size <= a[l].size
  BY <1>2, <1>3, <1>5, <1>7, RoundsFollow DEF end
<1> DEFINE w == [k \in 1..n |-> From(a, t, fs, k)]
<1>11. \A i \in DOMAIN fs : offset[t][fs[i].name] = w[i]
  <2> SUFFICES ASSUME NEW i \in 1..n  PROVE offset[t][fs[i].name] = w[i]
    BY <1>2
  <2>1. n \in i..n
    BY <1>2
  <2> QED  BY <1>5, <1>8, <1>10, <2>1
<1> HIDE DEF A, fs, n
<1>12. w = CAt(t, of, w)
  <2>1. ASSUME NEW k \in 1..n
        PROVE  w[k] = IF k = 1 THEN 0 ELSE LeastAligned(w[k - 1] + of[k - 1].size, CAlign(t, of, k))
    <3> DEFINE x == a[k - 1].size
               g == of[k].alignment
    <3>1. x \in Nat /\ g \in Nat \ {0} /\ w[k] = IF kind[t] = "packed" THEN x ELSE PadTo(x, g)
      BY <1>2, <1>9
    <3>2. CAlign(t, of, k) = IF kind[t] = "packed" THEN 1 ELSE g
      BY DEF CAlign
    <3>3. k # 1 => w[k - 1] + of[k - 1].size = x
      <4> SUFFICES ASSUME k # 1  PROVE w[k - 1] + of[k - 1].size = x
        OBVIOUS
      <4> DEFINE j == k - 1
      <4>1. j \in 1..n
        BY <1>2
      <4> HIDE DEF j
      <4>2. w[j] + of[j].size = a[j].size
        BY <1>9, <4>1
      <4> QED  BY <4>2 DEF j
    <3>4. k = 1 => x = 0
      BY <1>8
    <3> HIDE DEF x, g, w
    <3>5. LeastAligned(x, CAlign(t, of, k)) = w[k]
      <4>1. CASE kind[t] = "packed"
        BY <3>1, <3>2, <4>1, LeastIsPad
      <4>2. CASE kind[t] # "packed"
        BY <3>1, <3>2, <4>2, LeastIsPad
      <4> QED  BY <4>1, <4>2
    <3>6. CASE k = 1
      <4>1. PadTo(0, g) = 0
        BY <3>1, LeastIsPad
      <4> QED  BY <3>1, <3>4, <3>6, <4>1
    <3>7. CASE k # 1
      BY <3>3, <3>5, <3>7
    <3> QED  BY <3>6, <3>7
  <2>2. w = [k \in 1..n |-> w[k]]
    OBVIOUS
  <2> HIDE DEF w
  <2> QED  BY <1>2, <2>1, <2>2 DEF CAt
<1>13. CRecord(t, of) = [size |-> LeastAligned(CEnd(of, w), CMax(t, of)),
                         alignment |-> CMax(t, of), at |-> w]
  <2>1. n \in Nat
    BY <1>2
  <2> HIDE DEF w
  <2> QED  BY <1>2, <1>12, <2>1, CRecordIs
<1>14. CEnd(of, w) = end.size /\ end.size \in Nat
  <2> DEFINE E == {0} \cup {w[i] + of[i].size : i \in DOMAIN of}
             m == end.size
  <2>1. \A i \in 1..n : w[i] + of[i].size = a[i].size /\ a[i].size \in Nat /\ a[i].size <= m
    <3> SUFFICES ASSUME NEW i \in 1..n
                 PROVE  w[i] + of[i].size = a[i].size /\ a[i].size \in Nat /\ a[i].size <= m
      OBVIOUS
    <3>1. n \in i..n
      BY <1>2
    <3> QED  BY <1>8, <1>9, <1>10, <3>1
  <2>2. n \in 1..n /\ m = a[n].size
    BY <1>2, <1>8
  <2>3. CEnd(of, w) = Max(E)
    BY DEF CEnd
  <2> HIDE DEF w, m
  <2>4. m \in Nat
    BY <2>1, <2>2
  <2>5. m \in E /\ E \in SUBSET Nat /\ \A x \in E : x <= m
    <3>1. m = w[n] + of[n].size /\ n \in DOMAIN of
      BY <1>2, <2>1, <2>2
    <3>2. m \in E
      BY <3>1
    <3>3. \A i \in DOMAIN of : w[i] + of[i].size \in Nat /\ w[i] + of[i].size <= m
      BY <1>2, <2>1
    <3> QED  BY <2>4, <3>2, <3>3
  <2> HIDE DEF E
  <2>6. Max(E) = m
    BY <2>5, MaxEq
  <2> QED  BY <2>3, <2>4, <2>6 DEF m
<1> DEFINE x == end.size
<1>15. x \in Nat /\ align \in Nat \ {0} /\ align \in Alignments
  BY <1>6, <1>14 DEF align
<1>16. /\ CLayout[t].size = LeastAligned(x, CMax(t, of)) /\ CLayout[t].alignment = CMax(t, of)
       /\ CLayout[t].at = w /\ size[t] = PadTo(x, align) /\ alignment[t] = align
  BY <1>1, <1>5, <1>13, <1>14
<1>17. CASE kind[t] = "packed"
  <2>1. CMax(t, of) = 1 /\ align = Min(A)
    BY <1>6, <1>17 DEF align
  <2>2. x % align = 0
    <3>1. \A i \in 1..Len(fields[t]) : align <= AlignOf(fields[t][i].type)
      BY <1>2, <1>6, <2>1 DEF A, fs, n
    <3>2. Placed(a, t, fields[t]) /\ Place(t, fields[t]).ok /\ x = a[Len(fields[t])].size
      BY <1>5, <1>7, <1>8 DEF end, fs, n
    <3> HIDE DEF x
    <3> QED  BY <1>15, <1>17, <3>1, <3>2, PackedEnd
  <2> HIDE DEF x, w
  <2>3. PadTo(x, align) = x
    BY <1>15, <2>2, PadToMultiple
  <2>4. LeastAligned(x, 1) = x
    BY <1>15, LeastIsPad
  <2> QED  BY <1>11, <1>16, <1>17, <2>1, <2>3, <2>4 DEF fs
<1>18. CASE kind[t] # "packed"
  <2>1. CMax(t, of) = align
    BY <1>6, <1>18 DEF align
  <2> HIDE DEF x, w
  <2>2. LeastAligned(x, align) = PadTo(x, align) /\ PadTo(x, align) % align = 0
    BY <1>15, LeastIsPad, PadToMultiple
  <2>3. Matches(t)
    BY <1>15, <1>16, <2>1, <2>2 DEF Matches
  <2> QED  BY <1>11, <1>16, <2>3 DEF Matches, fs
<1> QED  BY <1>17, <1>18

\* ArrayType() lays an array out as C does.
LEMMA ArrayIsC ==
  ASSUME LayoutInv, OpenArrays, AlignedAsInC, NEW t \in Arrays, Sound(t), MatchesBefore(t)
  PROVE  Matches(t)
<1>1. t \in Compound /\ t \notin Records /\ length[t] \in Nat /\ t \in Closure[t]
  BY ClosureIs DEF Arrays, Records, Sound, LayoutInv, TypeOK
<1>2. CLayout[t] = CValue(CLayout, t)
  BY <1>1, CLayoutIs
<1>3. CASE length[t] = 0
  <2>1. CLayout[t] = CPointer /\ size[t] = PointerSize /\ alignment[t] = PointerSize
    BY <1>1, <1>2, <1>3 DEF CValue, OpenArrays
  <2>2. PointerSize \in Nat \ {0} /\ PointerSize = 1 * PointerSize
    BY PrimAssumption
  <2>3. PointerSize % PointerSize = 0
    BY <2>2, MultipleIs
  <2> QED  BY <2>1, <2>3, AlignmentsAre DEF Matches, CPointer
<1>4. CASE length[t] # 0
  <2> DEFINE r == elem[t]
             z == SizeOf(r)
             l == length[t]
  <2>1. l > 0 /\ r \in TypesIn(t)
    BY <1>1, <1>4 DEF TypesIn
  <2>2. size[t] = z * l /\ alignment[t] = RawAlign(r)
    BY <1>1, <2>1 DEF Sound, Settled, UpToDate
  <2>3. ~r.ptr
    BY <1>1, <2>1 DEF Sound, Plain
  <2>4. CLayout[t] = [size |-> l * CRef(CLayout, r).size, alignment |-> CRef(CLayout, r).alignment]
    BY <1>1, <1>2, <2>1 DEF CValue
  <2> HIDE DEF r, l
  <2>5. /\ CRef(CLayout, r).size = z /\ CRef(CLayout, r).alignment = AlignOf(r)
        /\ z \in Nat /\ AlignOf(r) \in Alignments /\ AlignOf(r) \in Nat \ {0}
        /\ z % AlignOf(r) = 0 /\ AlignOf(r) = RawAlign(r)
    BY <2>1, <2>3, RefMatches
  <2> HIDE DEF z
  <2>6. l \in Nat /\ l * z = z * l
    BY <1>1, <2>5 DEF l
  <2>7. (l * z) % AlignOf(r) = 0
    BY <2>5, <2>6, TimesMultiple
  <2> QED  BY <2>2, <2>4, <2>5, <2>6, <2>7 DEF Matches
<1> QED  BY <1>3, <1>4

\* And so all types match: each from those before it.
LEMMA AllMatch ==
  ASSUME LayoutInv, OpenArrays, AlignedAsInC
  PROVE  \A t \in Compound : MatchesBefore(t)
<1> DEFINE S == {t \in Compound : Sound(t) /\ kind[t] # "packed" => Matches(t)}
<1>1. Compound = 1..N /\ N \in Nat
  BY NAssumption DEF Compound
<1>2. ASSUME NEW t \in 1..N, 1..t - 1 \subseteq S  PROVE t \in S
  <2> SUFFICES ASSUME Sound(t), kind[t] # "packed"  PROVE Matches(t)
    BY <1>1
  <2>1. MatchesBefore(t)
    BY <1>2 DEF MatchesBefore
  <2>2. CASE t \in Arrays
    BY <2>1, <2>2, ArrayIsC
  <2>3. CASE t \notin Arrays
    <3>1. t \in Records
      BY <1>1, <2>3 DEF Records
    <3> QED  BY <2>1, <3>1, UnionIsC, StructIsC
  <2> QED  BY <2>2, <2>3
<1> HIDE DEF S
<1>3. 1..N \subseteq S
  BY <1>1, <1>2, CourseInduction
<1> SUFFICES ASSUME NEW t \in Compound, NEW v \in 1..t - 1, Sound(v), kind[v] # "packed"
             PROVE  Matches(v)
  BY DEF MatchesBefore
<1>4. v \in 1..N
  BY <1>1
<1> QED  BY <1>3, <1>4 DEF S

\* An array type without a fixed length has the size and the alignment of a
\* pointer for good.  (ArrayType of array.js)
THEOREM OpenArraysAre == Spec => []OpenArrays
<1>1. Init => OpenArrays
  BY DEF Init, OpenArrays
<1>2. LayoutInv /\ OpenArrays /\ [Next]_vars => OpenArrays'
  BY OpenArraysStep
<1> QED  BY <1>1, <1>2, LayoutInvariant, PTL DEF Spec

\* Where alignments and sizes are as C promises, plain types that are up to
\* date are laid out as C lays them out: recalc() and ArrayType() compute from
\* cached sizes and element by element what the compiler computes from the
\* declarations.
THEOREM LayoutAsInC == ASSUME AlignedAsInC PROVE Spec => []LayoutIsC
<1>1. LayoutInv /\ OpenArrays => LayoutIsC
  <2> SUFFICES ASSUME LayoutInv, OpenArrays, NEW t \in Records, Plain(t), Settled(t)
               PROVE  /\ size[t] = CLayout[t].size
                      /\ kind[t] # "packed" => alignment[t] = CLayout[t].alignment
                      /\ \A i \in DOMAIN fields[t] :
                           offset[t][fields[t][i].name] = CLayout[t].at[i]
    BY DEF LayoutIsC
  <2>1. t \in Compound /\ Sound(t)
    BY DEF Records, Sound
  <2>2. MatchesBefore(t)
    BY <2>1, AllMatch
  <2>3. CASE kind[t] = "union"
    BY <2>1, <2>2, <2>3, UnionIsC DEF Matches
  <2>4. CASE kind[t] # "union"
    BY <2>1, <2>2, <2>4, StructIsC DEF Matches
  <2> QED  BY <2>3, <2>4
<1> QED  BY <1>1, LayoutInvariant, OpenArraysAre, PTL

-----------------------------------------------------------------------------
(* The layout that libffi computes.                                        *)

\* The ffi_type that a type has cached lists primitive types, pointers and
\* types before it.
FfiInv ==
  \A t \in Compound : ffi_type[t] # NoFfi => ffi_type[t] \in Seq(NodesBefore(t))

\* Each step keeps the lists of elements so.
LEMMA FfiStep ==
  ASSUME LayoutInv, FfiInv, [Next]_vars
  PROVE  FfiInv'
<1>1. ASSUME ffi_type' = ffi_type  PROVE FfiInv'
  BY <1>1 DEF FfiInv, NodesBefore
<1>2. CASE Next
  <2>1. PICK t \in Compound :
          \/ \E f \in Menu[t] : DefineProperty(t, f.name, f.type)
          \/ \E f \in Menu[t], len \in Lengths : DefineArray(t, f.type, len)
          \/ NewInstance(t)
          \/ \E n \in Names : GetField(t, n)
          \/ Describe(t)
    BY <1>2 DEF Next
  <2>2. ASSUME NEW f \in Menu[t], DefineProperty(t, f.name, f.type)  PROVE FfiInv'
    BY <1>1, <2>2 DEF DefineProperty
  <2>3. ASSUME NEW f \in Menu[t], NEW len \in Lengths, DefineArray(t, f.type, len)
        PROVE  FfiInv'
    BY <1>1, <2>3 DEF DefineArray
  <2>4. CASE NewInstance(t)
    BY <1>1, <2>4 DEF NewInstance
  <2>5. ASSUME NEW n \in Names, GetField(t, n)  PROVE FfiInv'
    BY <1>1, <2>5 DEF GetField
  <2>6. CASE Describe(t)
    <3>1. \A u \in Compound : ffi_type'[u] = Elements(u) \/ ffi_type'[u] = ffi_type[u]
      BY <2>6 DEF Describe
    <3> SUFFICES ASSUME NEW u \in Compound, ffi_type'[u] # NoFfi
                 PROVE  ffi_type'[u] \in Seq(NodesBefore(u))
      BY DEF FfiInv, NodesBefore
    <3>2. Elements(u) \in Seq(NodesBefore(u))
      BY ElementsType
    <3> QED  BY <3>1, <3>2 DEF FfiInv
  <2> QED  BY <2>1, <2>2, <2>3, <2>4, <2>5, <2>6
<1>3. CASE UNCHANGED vars
  BY <1>1, <1>3 DEF vars
<1> QED  BY <1>2, <1>3

\* What FfiLayout makes of an element of an ffi_type, and of a type, from the
\* values in g.
FNode(g, e) == CASE e = 0 -> CPointer
                 [] e \in Prims -> [size |-> PrimSize[e], alignment |-> PrimAlign[e]]
                 [] OTHER -> g[e]

FNodes(t) == IF ffi_type[t] = NoFfi THEN <<>> ELSE ffi_type[t]

FLayouts(g, t) == [i \in DOMAIN FNodes(t) |-> FNode(g, FNodes(t)[i])]

\* It needs the values below t only.
LEMMA FLayoutsLocal ==
  ASSUME FfiInv, NEW t \in Compound, NEW g, NEW h, \A j \in 1..t - 1 : g[j] = h[j]
  PROVE  FLayouts(g, t) = FLayouts(h, t)
<1>1. FNodes(t) \in Seq(NodesBefore(t))
  BY EmptySeq DEF FNodes, FfiInv
<1>2. ASSUME NEW i \in DOMAIN FNodes(t)
      PROVE  FNode(g, FNodes(t)[i]) = FNode(h, FNodes(t)[i])
  <2> DEFINE e == FNodes(t)[i]
  <2>1. e \in NodesBefore(t)
    BY <1>1
  <2> HIDE DEF e
  <2>2. FNode(g, e) = FNode(h, e)
    BY <2>1 DEF FNode, NodesBefore
  <2> QED  BY <2>2 DEF e
<1> QED  BY <1>2 DEF FLayouts

\* FfiLayout solves its equation.
LEMMA FfiLayoutIs ==
  ASSUME FfiInv
  PROVE  \A t \in Compound : FfiLayout[t] = Aggregate(FLayouts(FfiLayout, t))
<1> DEFINE Value(g, t) == Aggregate(FLayouts(g, t))
           Body(g) == [t \in Compound |->
             Aggregate([i \in DOMAIN (IF ffi_type[t] = NoFfi THEN <<>> ELSE ffi_type[t]) |->
               CASE (IF ffi_type[t] = NoFfi THEN <<>> ELSE ffi_type[t])[i] = 0 ->
                      [size |-> PointerSize, alignment |-> PointerSize]
                 [] (IF ffi_type[t] = NoFfi THEN <<>> ELSE ffi_type[t])[i] \in Prims ->
                      [size |-> PrimSize[(IF ffi_type[t] = NoFfi THEN <<>> ELSE ffi_type[t])[i]],
                       alignment |-> PrimAlign[(IF ffi_type[t] = NoFfi THEN <<>> ELSE ffi_type[t])[i]]]
                 [] OTHER -> g[(IF ffi_type[t] = NoFfi THEN <<>> ELSE ffi_type[t])[i]]])]
<1>1. FfiLayout = CHOOSE g : g = Body(g)
  BY DEF FfiLayout
<1>2. \A g : Body(g) = [t \in Compound |-> Value(g, t)]
  BY DEF FLayouts, FNodes, FNode, CPointer
<1> HIDE DEF Body
<1>3. N \in Nat /\ Compound = 1..N
  BY NAssumption DEF Compound
<1>l. ASSUME NEW t \in Compound, NEW g, NEW h, \A j \in 1..t - 1 : g[j] = h[j]
      PROVE  Value(g, t) = Value(h, t)
  BY <1>l, FLayoutsLocal
<1> HIDE DEF Value
<1> DEFINE Solves(g, k) == \A i \in 1..k : g[i] = Value(g, i)
           S == {k \in 0..N : \E g : Solves(g, k)}
<1>4. 0 \in S /\ 0 \in Nat
  <2>1. \A g : Solves(g, 0)
    OBVIOUS
  <2> HIDE DEF Solves
  <2> QED  BY <1>3, <2>1
<1>5. ASSUME NEW k \in 0..N - 1, k \in S  PROVE k + 1 \in S
  <2>1. PICK g : Solves(g, k)
    BY <1>5
  <2> DEFINE h == [i \in 1..N |-> IF i = k + 1 THEN Value(g, k + 1) ELSE g[i]]
  <2>2. k + 1 \in 1..N /\ k + 1 \in 0..N /\ h[k + 1] = Value(g, k + 1)
    BY <1>3
  <2>3. \A i \in 1..k : h[i] = g[i]
    BY <1>3
  <2> HIDE DEF h
  <2>4. ASSUME NEW i \in 1..k + 1  PROVE h[i] = Value(h, i)
    <3>1. i \in Compound /\ \A j \in 1..i - 1 : j \in 1..k
      BY <1>3
    <3>2. \A j \in 1..i - 1 : g[j] = h[j]
      BY <2>3, <3>1
    <3>3. Value(g, i) = Value(h, i)
      BY <3>1, <3>2, <1>l
    <3>4. h[i] = Value(g, i)
      <4>1. CASE i = k + 1
        BY <2>2, <4>1
      <4>2. CASE i # k + 1
        <5>1. i \in 1..k
          BY <4>2
        <5> QED  BY <2>1, <2>3, <5>1
      <4> QED  BY <4>1, <4>2
    <3> QED  BY <3>3, <3>4
  <2>5. Solves(h, k + 1)
    BY <2>4
  <2> HIDE DEF Solves
  <2> QED  BY <2>2, <2>5
<1> HIDE DEF S
<1>6. 0..N \subseteq S
  BY <1>3, <1>4, <1>5, RangeInduction
<1>7. N \in S
  BY <1>3, <1>6
<1>8. PICK g : Solves(g, N)
  BY <1>7 DEF S
<1> DEFINE c == [t \in Compound |-> g[t]]
<1>9. \A t \in Compound : c[t] = Value(c, t)
  <2> SUFFICES ASSUME NEW t \in Compound  PROVE c[t] = Value(c, t)
    OBVIOUS
  <2>1. \A j \in 1..t - 1 : j \in Compound
    BY <1>3
  <2>2. \A j \in 1..t - 1 : g[j] = c[j]
    BY <2>1
  <2>3. Value(g, t) = Value(c, t)
    BY <2>2, <1>l
  <2>4. g[t] = Value(g, t)
    BY <1>3, <1>8
  <2> QED  BY <2>3, <2>4
<1>10. c = Body(c)
  <2>1. Body(c) = [t \in Compound |-> c[t]]
    BY <1>2, <1>9
  <2> QED  BY <2>1
<1> HIDE DEF c
<1>11. FfiLayout = Body(FfiLayout)
  BY <1>1, <1>10
<1>12. FfiLayout = [t \in Compound |-> Value(FfiLayout, t)]
  BY <1>2, <1>11
<1> QED  BY <1>12 DEF Value

\* initialize_aggregate() ends each element where the next one may start.
Ended(e, nodes) ==
  LET align == Max({1} \cup {nodes[i].alignment : i \in DOMAIN nodes})
  IN /\ e \in [0..Len(nodes) -> Nat] /\ e[0] = 0
     /\ \A i \in 1..Len(nodes) : e[i] = PadTo(e[i - 1], nodes[i].alignment) + nodes[i].size
     /\ Aggregate(nodes) = [size |-> PadTo(e[Len(nodes)], align), alignment |-> align]

\* The recursive function of Aggregate exists and is such a list of ends.
LEMMA AggregateIs ==
  ASSUME NEW n \in Nat, NEW nodes, Len(nodes) = n,
         \A i \in 1..n : nodes[i].size \in Nat /\ nodes[i].alignment \in Nat \ {0}
  PROVE  \E e : Ended(e, nodes)
<1> DEFINE After(b, i) == PadTo(b, nodes[i].alignment) + nodes[i].size
           Body(g) == [i \in 0..Len(nodes) |-> IF i = 0 THEN 0
                          ELSE PadTo(g[i - 1], nodes[i].alignment) + nodes[i].size]
           D == [x \in (1..n) \X Nat |-> After(x[2], x[1])]
           end == CHOOSE g : g = Body(g)
           align == Max({1} \cup {nodes[i].alignment : i \in DOMAIN nodes})
<1>1. Aggregate(nodes) = [size |-> PadTo(end[Len(nodes)], align), alignment |-> align]
  BY DEF Aggregate
<1>2. \A g : Body(g) = [i \in 0..n |-> IF i = 0 THEN 0 ELSE After(g[i - 1], i)]
  OBVIOUS
<1>3. \A i \in 1..n : \A b \in Nat : After(b, i) \in Nat
  <2> SUFFICES ASSUME NEW i \in 1..n, NEW b \in Nat  PROVE After(b, i) \in Nat
    OBVIOUS
  <2>1. nodes[i].size \in Nat /\ PadTo(b, nodes[i].alignment) \in Nat
    BY PadToIs
  <2> QED  BY <2>1
<1> HIDE DEF align, After, Body
<1>4. D \in [(1..n) \X Nat -> Nat] /\ \A i \in 1..n : \A b \in Nat : D[<<i, b>>] = After(b, i)
  BY <1>3
<1> HIDE DEF D
<1>5. PICK g : StepFunction(g, n, Nat, 0, D)
  <2>1. StepData(n, Nat, 0, D)
    BY <1>4 DEF StepData
  <2> QED  BY <2>1, StepRecursion
<1>6. g = Body(g)
  <2> USE <1>5 DEF StepFunction
  <2>1. ASSUME NEW i \in 0..n
        PROVE  g[i] = IF i = 0 THEN 0 ELSE After(g[i - 1], i)
    <3>1. CASE i # 0
      <4>1. i \in 1..n /\ i - 1 \in 0..n
        BY <3>1
      <4> QED  BY <1>4, <3>1, <4>1
    <3> QED  BY <3>1
  <2>2. g = [i \in 0..n |-> g[i]]
    OBVIOUS
  <2> QED  BY <1>2, <2>1, <2>2
<1>7. end = Body(end)
  BY <1>6
<1> HIDE DEF end
<1>8. end[0] = 0 /\ \A i \in 1..n : i - 1 \in 0..n /\ end[i] = After(end[i - 1], i)
  BY <1>2, <1>7
<1>9. \A i \in 0..n : end[i] \in Nat
  <2> DEFINE S == {i \in 0..n : end[i] \in Nat}
  <2>1. 0 \in S /\ 0 \in Nat
    BY <1>8
  <2>2. ASSUME NEW i \in 0..n - 1, i \in S  PROVE i + 1 \in S
    <3>1. i + 1 \in 1..n /\ i + 1 \in 0..n /\ (i + 1) - 1 = i /\ end[i] \in Nat
      BY <2>2
    <3>2. end[i + 1] = After(end[i], i + 1)
      BY <1>8, <3>1
    <3> QED  BY <1>3, <3>1, <3>2
  <2> HIDE DEF S
  <2>3. 0..n \subseteq S
    BY <2>1, <2>2, RangeInduction
  <2> QED  BY <2>3 DEF S
<1>10. end \in [0..n -> Nat]
  <2>1. end = [i \in 0..n |-> end[i]]
    BY <1>2, <1>7
  <2> QED  BY <1>9, <2>1
<1>11. \A i \in 1..n : end[i] = PadTo(end[i - 1], nodes[i].alignment) + nodes[i].size
  BY <1>8 DEF After
<1>12. Ended(end, nodes)
  BY <1>1, <1>8, <1>10, <1>11 DEF Ended, align
<1> QED  BY <1>12

\* A type that libffi is told of as it is, with all it embeds.
SoundFfi(t) == Sound(t) /\ PlainToFfi(t) /\ FfiUpToDate(t)

\* What such a type embeds is such a type.
LEMMA SoundFfiEmbeds ==
  ASSUME LayoutInv, NEW t, SoundFfi(t), NEW v \in Embedded(t)
  PROVE  SoundFfi(v) /\ v \in 1..t - 1
<1>1. t \in Compound /\ v \in Compound /\ v < t /\ Sound(v) /\ v \in 1..t - 1
  <2>1. Sound(v) /\ v \in 1..t - 1
    BY SoundEmbeds DEF SoundFfi
  <2> QED  BY <2>1, NAssumption DEF SoundFfi, Sound, Compound
<1>2. Closure[v] \subseteq Closure[t]
  BY <1>1, ClosureIs
<1>3. PlainToFfi(v)
  BY <1>1, <1>2 DEF SoundFfi, PlainToFfi, Sound
<1>4. FfiUpToDate(v)
  BY <1>2 DEF SoundFfi, FfiUpToDate
<1> QED  BY <1>1, <1>3, <1>4 DEF SoundFfi

\* libffi computes the layout that the type has in JavaScript.
FfiMatches(t) ==
  /\ FfiLayout[t].size = size[t] /\ FfiLayout[t].alignment = alignment[t]
  /\ alignment[t] \in Nat \ {0}

FfiMatchesBefore(t) == \A v \in 1..t - 1 : SoundFfi(v) /\ v \in Records => FfiMatches(v)

\* An element of the ffi_type has the layout of the part it stands for.
NodeMatches(p) ==
  LET node == FNode(FfiLayout, Node(p))
  IN /\ node.size = SizeOf(p) /\ SizeOf(p) \in Nat
     /\ node.alignment = AlignOf(p) /\ AlignOf(p) \in Nat \ {0}
     /\ AlignOf(p) = IF p.ptr THEN PointerSize ELSE RawAlign(p)
     /\ ~p.ptr => RawAlign(p) # 0

\* Where the part is not an array with a fixed length.
LEMMA NodesMatch ==
  ASSUME LayoutInv, OpenArrays, NEW t, SoundFfi(t), FfiMatchesBefore(t),
         NEW p \in TypesIn(t), p \in TypeRef,
         ~p.ptr => FixedLength(p) <= 0
  PROVE  NodeMatches(p)
<1>1. t \in Compound /\ t \in Closure[t] /\ TypeOK /\ PointerSize \in Nat \ {0} /\ p.ptr \in BOOLEAN
  BY ClosureIs, PrimAssumption DEF SoundFfi, Sound, LayoutInv, TypeRef
<1>2. SizeOf(p) \in Nat /\ AlignOf(p) \in Nat \ {0} /\ RawAlign(p) \in Nat
  BY <1>1, RefIs
<1>3. CASE p.ptr
  <2>1. Node(p) = 0 /\ SizeOf(p) = PointerSize /\ AlignOf(p) = PointerSize
    BY <1>3 DEF Node, SizeOf, AlignOf
  <2>2. FNode(FfiLayout, 0) = CPointer
    BY CompoundIs DEF FNode
  <2> QED  BY <1>1, <1>3, <2>1, <2>2 DEF NodeMatches, CPointer
<1>4. CASE ~p.ptr /\ p.base \in Prims
  <2>1. PrimAlign[p.base] # 0
    BY <1>1, <1>4 DEF SoundFfi, Sound, Plain
  <2>2. Node(p) = p.base /\ p.base # 0
    BY <1>4, PrimAssumption DEF Node, Arrays
  <2>3. /\ SizeOf(p) = PrimSize[p.base] /\ RawAlign(p) = PrimAlign[p.base]
        /\ AlignOf(p) = PrimAlign[p.base]
    BY <1>4, <2>1 DEF SizeOf, RawSize, AlignOf, RawAlign
  <2>4. FNode(FfiLayout, p.base) = [size |-> PrimSize[p.base], alignment |-> PrimAlign[p.base]]
    BY <1>4, <2>2 DEF FNode
  <2> QED  BY <1>2, <1>4, <2>1, <2>2, <2>3, <2>4 DEF NodeMatches
<1>5. CASE ~p.ptr /\ p.base \in Arrays
  <2>1. Node(p) = 0 /\ p.base \notin Prims /\ p.base \in Compound
    BY <1>5, PrimAssumption DEF Node, Arrays
  <2>2. length[p.base] = 0
    <3>1. length[p.base] \in Nat \cup {-1} /\ length[p.base] <= 0
      BY <1>1, <1>5, <2>1 DEF FixedLength, TypeOK
    <3>2. length[p.base] # -1
      BY <1>1, <1>5 DEF LayoutInv, DefinedInv, Exists
    <3> QED  BY <3>1, <3>2
  <2>3. size[p.base] = PointerSize /\ alignment[p.base] = PointerSize
    BY <2>1, <2>2 DEF OpenArrays
  <2>4. SizeOf(p) = PointerSize /\ RawAlign(p) = PointerSize /\ AlignOf(p) = PointerSize
    BY <1>1, <1>5, <2>1, <2>3 DEF SizeOf, RawSize, AlignOf, RawAlign
  <2>5. FNode(FfiLayout, 0) = CPointer
    BY CompoundIs DEF FNode
  <2> QED  BY <1>1, <1>5, <2>1, <2>4, <2>5 DEF NodeMatches, CPointer
<1>6. CASE ~p.ptr /\ p.base \notin Prims /\ p.base \notin Arrays
  <2> DEFINE v == p.base
  <2>1. v \in Compound /\ v \in Records /\ v # 0 /\ v \notin Prims /\ Node(p) = v
    BY <1>6, CompoundIs DEF TypeRef, Records, Node
  <2>2. v \in Embedded(t)
    BY <1>6, <2>1 DEF Embedded
  <2>3. SoundFfi(v) /\ v \in 1..t - 1
    BY <2>2, SoundFfiEmbeds
  <2>4. FfiMatches(v)
    BY <2>1, <2>3 DEF FfiMatchesBefore
  <2>5. FNode(FfiLayout, v) = FfiLayout[v]
    BY <2>1 DEF FNode
  <2>6. SizeOf(p) = size[v] /\ RawAlign(p) = alignment[v] /\ alignment[v] # 0
    BY <1>6, <2>4 DEF SizeOf, RawSize, RawAlign, FfiMatches
  <2>7. AlignOf(p) = alignment[v]
    BY <1>6, <2>6 DEF AlignOf
  <2> HIDE DEF v
  <2> QED  BY <1>2, <1>6, <2>1, <2>4, <2>5, <2>6, <2>7 DEF NodeMatches, FfiMatches
<1> QED  BY <1>1, <1>3, <1>4, <1>5, <1>6

\* The parts of a field: each as the element that stands for it, all aligned
\* as the field.
LEMMA PartMatches ==
  ASSUME LayoutInv, OpenArrays, NEW t \in Records, SoundFfi(t), FfiMatchesBefore(t),
         NEW f \in Field, f.type \in TypesIn(t)
  PROVE  LET p == Parts(f.type)[1]
         IN /\ p \in TypeRef /\ NodeMatches(p)
            /\ AlignOf(p) = AlignOf(f.type)
            /\ Alignable(t, p)
            /\ \A x \in Nat : Start(t, x, p) = PadTo(x, AlignOf(p))
<1> DEFINE r == f.type
           p == Parts(r)[1]
           b == r.base
<1>1. /\ TypeOK /\ ElemInv /\ t \in Compound /\ t \in Closure[t] /\ r \in TypeRef
      /\ Sound(t) /\ PlainToFfi(t) /\ r.ptr \in BOOLEAN
  BY ClosureIs DEF LayoutInv, Records, Field, SoundFfi, TypeRef
<1>2. p \in TypeRef /\ p = IF FixedLength(r) > 0 THEN elem[b] ELSE r
  BY <1>1, PartsAre
<1>3. ~PointerToArray(r)
  BY <1>1 DEF Sound, Plain
<1>4. FixedLength(r) \in Nat \cup {-1}
  BY <1>1, RefIs
<1>5. NodeMatches(p) /\ AlignOf(p) = AlignOf(r)
  <2>1. CASE ~(FixedLength(r) > 0)
    <3>1. p = r /\ FixedLength(r) <= 0
      BY <1>2, <1>4, <2>1
    <3> HIDE DEF p
    <3>2. NodeMatches(r)
      BY <1>1, <3>1, NodesMatch
    <3> QED  BY <3>1, <3>2
  <2>2. CASE FixedLength(r) > 0
    <3>1. b \in Arrays /\ ~r.ptr /\ length[b] > 0 /\ b \in Compound /\ b \notin Prims /\ p = elem[b]
      BY <1>2, <1>3, <2>2, PrimAssumption DEF FixedLength, PointerToArray, IsFixedArray, Arrays
    <3>2. b \in Embedded(t)
      BY <3>1 DEF Embedded
    <3>3. SoundFfi(b) /\ b \in 1..t - 1 /\ b \in Closure[b]
      BY <3>1, <3>2, SoundFfiEmbeds, ClosureIs
    <3>4. elem[b] \in TypesIn(b)
      BY <3>1 DEF TypesIn
    <3>5. FfiMatchesBefore(b)
      <4>1. t \in Nat /\ b \in Nat /\ b < t
        BY <1>1, <3>3, NAssumption DEF Compound
      <4>2. \A v \in 1..b - 1 : v \in 1..t - 1
        BY <4>1
      <4> QED  BY <4>2 DEF FfiMatchesBefore
    <3>6. alignment[b] = RawAlign(elem[b])
      <4>1. UpToDate(b)
        BY <3>3 DEF SoundFfi, Sound, Settled
      <4> QED  BY <3>1, <4>1 DEF UpToDate
    <3>7. ~elem[b].ptr
      BY <3>1, <3>3, <3>4 DEF SoundFfi, Sound, Plain
    <3>8. elem[b].base \notin Arrays
      <4>1. ~ArrayOf(r, LAMBDA e : e.base \in Arrays)
        BY <1>1 DEF PlainToFfi
      <4> QED  BY <2>2, <3>1, <4>1 DEF ArrayOf, IsFixedArray
    <3>9. FixedLength(elem[b]) <= 0
      BY <3>8 DEF FixedLength
    <3> DEFINE q == elem[b]
    <3>10. q \in TypeRef
      BY <1>2, <3>1
    <3>11. NodeMatches(q)
      <4> HIDE DEF b
      <4> QED  BY <3>3, <3>4, <3>5, <3>9, <3>10, NodesMatch
    <3>12. AlignOf(q) = RawAlign(q) /\ RawAlign(q) # 0
      BY <3>7, <3>11 DEF NodeMatches
    <3>13. RawAlign(r) = alignment[b]
      BY <3>1 DEF RawAlign
    <3>14. AlignOf(r) = AlignOf(q)
      BY <3>1, <3>6, <3>12, <3>13 DEF AlignOf
    <3>15. p = q
      BY <3>1
    <3> HIDE DEF p, q
    <3> QED  BY <3>11, <3>14, <3>15
  <2> QED  BY <2>1, <2>2
<1>6. kind[t] # "packed"
  BY <1>1 DEF PlainToFfi
<1> HIDE DEF p, r
<1>7. Alignable(t, p) /\ \A x \in Nat : Start(t, x, p) = PadTo(x, AlignOf(p))
  BY <1>5, <1>6 DEF NodeMatches, Alignable, Start
<1> QED  BY <1>2, <1>5, <1>7 DEF p, r

-----------------------------------------------------------------------------
(* Where the parts of each field are in the list of elements.              *)

\* The elements of field k follow those of the fields before it.
LEMMA ListedAt ==
  ASSUME LayoutInv, NEW t \in Compound, NEW nodes, Listed(nodes, t),
         NEW k \in 1..Len(Keys(fields[t]))
  PROVE  LET part == PartNodes(Keys(fields[t])[k])
         IN /\ Len(nodes[k - 1]) \in Nat /\ Len(part) \in Nat
            /\ Len(nodes[k]) = Len(nodes[k - 1]) + Len(part)
            /\ \A j \in 1..Len(part) : /\ Len(nodes[k - 1]) + j \in 1..Len(Elements(t))
                                       /\ Elements(t)[Len(nodes[k - 1]) + j] = part[j]
<1> DEFINE fs == Keys(fields[t])
           n == Len(fs)
           T == Seq(NodesBefore(t))
           part == PartNodes(fs[k])
           a == nodes[k - 1]
           S == {l \in k..n : /\ Len(nodes[k]) <= Len(nodes[l])
                              /\ \A i \in 1..Len(nodes[k]) : nodes[l][i] = nodes[k][i]}
<1>1. /\ n \in Nat /\ \A i \in 1..n : fs[i] \in Field /\ fs[i].type \in TypesIn(t)
      /\ \A i \in 0..n : nodes[i] \in T
      /\ \A i \in 1..n : nodes[i] = nodes[i - 1] \o PartNodes(fs[i])
      /\ Elements(t) = nodes[n]
  BY DEF Listed
<1>2. \A i \in 1..n : PartNodes(fs[i]) \in T
  <2> HIDE DEF fs, n
  <2> QED  BY <1>1, PartNodesAre
<1>3. k \in 1..n
  OBVIOUS
<1> HIDE DEF fs, n, T
<1>4. a \in T /\ part \in T /\ nodes[k] = a \o part /\ nodes[k] \in T /\ k - 1 \in 0..n /\ k \in Nat
  <2>1. k - 1 \in 0..n /\ k \in 0..n /\ k \in Nat
    BY <1>1, <1>3
  <2>2. nodes[k] = a \o part
    BY <1>1, <1>3
  <2>3. part \in T
    BY <1>2, <1>3
  <2> QED  BY <1>1, <2>1, <2>2, <2>3
<1> HIDE DEF a, part
<1>5. /\ Len(a) \in Nat /\ Len(part) \in Nat /\ Len(nodes[k]) = Len(a) + Len(part)
      /\ \A j \in 1..Len(part) : nodes[k][Len(a) + j] = part[j]
  BY <1>4 DEF T
<1>6. k \in S
  BY <1>3, <1>4, <1>5
<1>7. ASSUME NEW i \in k..n - 1, i \in S  PROVE i + 1 \in S
  <2>1. i + 1 \in 1..n /\ i + 1 \in k..n /\ (i + 1) - 1 = i /\ i \in 0..n
    BY <1>1, <1>3, <1>7
  <2> DEFINE c == nodes[i]
             d == PartNodes(fs[i + 1])
  <2>2. nodes[i + 1] = c \o d /\ c \in T /\ d \in T
    BY <1>1, <1>2, <2>1
  <2>3. Len(nodes[k]) <= Len(c) /\ \A j \in 1..Len(nodes[k]) : c[j] = nodes[k][j]
    BY <1>7
  <2> HIDE DEF c, d
  <2>4. Len(c) \in Nat /\ Len(d) \in Nat /\ Len(c \o d) = Len(c) + Len(d)
        /\ \A j \in 1..Len(c) : (c \o d)[j] = c[j]
    BY <2>2 DEF T
  <2>5. Len(nodes[k]) <= Len(nodes[i + 1])
        /\ \A j \in 1..Len(nodes[k]) : nodes[i + 1][j] = nodes[k][j]
    BY <1>5, <2>2, <2>3, <2>4
  <2> QED  BY <2>1, <2>5
<1> HIDE DEF S
<1>8. k..n \subseteq S
  BY <1>1, <1>4, <1>6, <1>7, RangeInduction
<1>9. n \in S
  BY <1>1, <1>3, <1>8
<1>10. Len(nodes[k]) <= Len(nodes[n]) /\ \A i \in 1..Len(nodes[k]) : nodes[n][i] = nodes[k][i]
  BY <1>9 DEF S
<1>11. Len(nodes[n]) \in Nat
  BY <1>1 DEF T
<1>12. ASSUME NEW j \in 1..Len(part)
       PROVE  Len(a) + j \in 1..Len(nodes[n]) /\ nodes[n][Len(a) + j] = part[j]
  <2>1. Len(a) + j \in 1..Len(nodes[k])
    BY <1>5
  <2> QED  BY <1>5, <1>10, <1>11, <2>1
<1> QED  BY <1>1, <1>5, <1>12 DEF a, part, fs

\* Each element stands for a part of some field.
LEMMA ListedFrom ==
  ASSUME LayoutInv, NEW t \in Compound
  PROVE  LET fs == Keys(fields[t])
         IN \A i \in 1..Len(Elements(t)) :
              \E k \in 1..Len(fs) : Elements(t)[i] = Node(Parts(fs[k].type)[1])
<1> DEFINE fs == Keys(fields[t])
           n == Len(fs)
           T == Seq(NodesBefore(t))
<1>0. PICK nodes : Listed(nodes, t)
  BY ElementsAre
<1> DEFINE Stands(l) == \A i \in 1..Len(nodes[l]) :
                         \E k \in 1..n : nodes[l][i] = Node(Parts(fs[k].type)[1])
           S == {l \in 0..n : Stands(l)}
<1>1. /\ n \in Nat /\ \A i \in 1..n : fs[i] \in Field /\ fs[i].type \in TypesIn(t)
      /\ \A i \in 0..n : nodes[i] \in T
      /\ nodes[0] = <<>>
      /\ \A i \in 1..n : nodes[i] = nodes[i - 1] \o PartNodes(fs[i])
      /\ Elements(t) = nodes[n]
  BY <1>0 DEF Listed
<1>2. \A i \in 1..n : /\ PartNodes(fs[i]) \in T
                      /\ \A j \in 1..Len(PartNodes(fs[i])) :
                           PartNodes(fs[i])[j] = Node(Parts(fs[i].type)[1])
  <2> SUFFICES ASSUME NEW i \in 1..n
               PROVE  /\ PartNodes(fs[i]) \in T
                      /\ \A j \in 1..Len(PartNodes(fs[i])) :
                           PartNodes(fs[i])[j] = Node(Parts(fs[i].type)[1])
    OBVIOUS
  <2> DEFINE f == fs[i]
  <2>1. f \in Field /\ f.type \in TypesIn(t)
    BY <1>1
  <2> HIDE DEF f, fs, n
  <2>2. PartNodes(f) \in T /\ PartNodes(f) = [j \in 1..Len(Parts(f.type)) |-> Node(Parts(f.type)[1])]
        /\ Len(PartNodes(f)) = Len(Parts(f.type))
    BY <2>1, PartNodesAre
  <2> QED  BY <2>2 DEF f
<1> HIDE DEF fs, n, T
<1>3. 0 \in S /\ 0 \in Nat
  <2>1. \A i \in 1..Len(nodes[0]) : FALSE
    <3>1. Len(<<>>) = 0
      OBVIOUS
    <3> QED  BY <1>1, <3>1
  <2> QED  BY <1>1, <2>1
<1>4. ASSUME NEW l \in 0..n - 1, l \in S  PROVE l + 1 \in S
  <2> DEFINE c == nodes[l]
             d == PartNodes(fs[l + 1])
  <2>1. l + 1 \in 1..n /\ l + 1 \in 0..n /\ (l + 1) - 1 = l /\ l \in 0..n
    BY <1>1, <1>4
  <2>2. nodes[l + 1] = c \o d /\ c \in T /\ d \in T
    BY <1>1, <1>2, <2>1
  <2>3. \A j \in 1..Len(c) : \E k \in 1..n : c[j] = Node(Parts(fs[k].type)[1])
    BY <1>4
  <2>4. \A j \in 1..Len(d) : d[j] = Node(Parts(fs[l + 1].type)[1])
    BY <1>2, <2>1
  <2> HIDE DEF c, d
  <2>5. Len(c) \in Nat /\ Len(d) \in Nat /\ Len(c \o d) = Len(c) + Len(d)
        /\ \A j \in 1..Len(c) + Len(d) :
             (c \o d)[j] = IF j <= Len(c) THEN c[j] ELSE d[j - Len(c)]
    BY <2>2 DEF T
  <2>6. ASSUME NEW i \in 1..Len(nodes[l + 1])
        PROVE  \E k \in 1..n : nodes[l + 1][i] = Node(Parts(fs[k].type)[1])
    <3>1. i \in 1..Len(c) + Len(d) /\ nodes[l + 1][i] = IF i <= Len(c) THEN c[i] ELSE d[i - Len(c)]
      BY <2>2, <2>5
    <3>2. CASE i <= Len(c)
      <4>1. i \in 1..Len(c)
        BY <2>5, <3>2
      <4> QED  BY <2>3, <3>1, <3>2, <4>1
    <3>3. CASE ~(i <= Len(c))
      <4>1. i - Len(c) \in 1..Len(d)
        BY <2>5, <3>1, <3>3
      <4> QED  BY <2>1, <2>4, <3>1, <3>3, <4>1
    <3> QED  BY <3>2, <3>3
  <2> QED  BY <2>1, <2>6
<1> HIDE DEF S
<1>5. 0..n \subseteq S
  BY <1>1, <1>3, <1>4, RangeInduction
<1>6. n \in S
  BY <1>1, <1>5
<1> QED  BY <1>1, <1>6 DEF S, fs, n

\* A record on its way through recalc(), a, and through libffi, e.
Walk(t, nodes, a, e) ==
  LET fs == fields[t]
      of == FLayouts(FfiLayout, t)
  IN /\ fs \in Seq(Field) /\ fs # <<>> /\ Keys(fs) = fs
     /\ \A i \in 1..Len(fs) : fs[i] \in Field /\ fs[i].type \in TypesIn(t)
     /\ Listed(nodes, t)
     /\ Placed(a, t, fs) /\ Place(t, fs).ok
     /\ Len(of) = Len(Elements(t)) /\ DOMAIN of = 1..Len(of)
     /\ \A i \in 1..Len(of) : of[i] = FNode(FfiLayout, Elements(t)[i])
     /\ Ended(e, of)
     /\ FfiLayout[t] = Aggregate(of)

\* A record that libffi is told of as it is has such a walk.
LEMMA WalkExists ==
  ASSUME LayoutInv, OpenArrays, FfiInv, NEW t \in Records, SoundFfi(t), FfiMatchesBefore(t)
  PROVE  /\ \E nodes, a, e : Walk(t, nodes, a, e)
         /\ size[t] = Recalc(t, fields[t]).size
         /\ alignment[t] = Recalc(t, fields[t]).alignment
<1> DEFINE fs == fields[t]
           of == FLayouts(FfiLayout, t)
           els == Elements(t)
<1>1. t \in Compound /\ t \notin Arrays /\ t \in Closure[t] /\ TypeOK /\ ElemInv
  BY ClosureIs DEF Records, LayoutInv
<1>2. kind[t] \notin {"packed", "union"}
  BY <1>1 DEF SoundFfi, PlainToFfi
<1>3. Keys(fs) = fs
  BY <1>1 DEF SoundFfi, Sound, Plain
<1>4. fs # <<>> /\ Recalc(t, fs).ok /\ size[t] = Recalc(t, fs).size
      /\ alignment[t] = Recalc(t, fs).alignment
  <2>1. UpToDate(t)
    BY <1>1 DEF SoundFfi, Sound, Settled
  <2> QED  BY <1>1, <2>1 DEF UpToDate
<1>5. Place(t, fs).ok
  BY <1>2, <1>3, <1>4 DEF Recalc, RecalcStruct
<1>6. fs \in Seq(Field)
  BY <1>1 DEF TypeOK
<1>7. PICK nodes : Listed(nodes, t)
  BY <1>1, ElementsAre
<1>8. PICK a : Placed(a, t, fs)
  BY <1>1, <1>6, PlaceIs
<1>9. ffi_type[t] = els
  BY <1>1 DEF SoundFfi, FfiUpToDate
<1>10. els \in Seq(Prims \cup Compound \cup {0})
  BY <1>1, ElementsType
<1>11. FNodes(t) = els
  BY <1>9, <1>10, NoFfiAssumption DEF FNodes
<1>12. of = [i \in DOMAIN els |-> FNode(FfiLayout, els[i])]
  BY <1>11 DEF FLayouts
<1>13. \A i \in 1..Len(fs) : fs[i] \in Field /\ fs[i].type \in TypesIn(t)
  <2>1. DOMAIN fs = 1..Len(fs)
    BY <1>6
  <2> QED  BY <1>1, <1>6, <2>1 DEF TypesIn
<1>14. ASSUME NEW i \in 1..Len(els)
       PROVE  FNode(FfiLayout, els[i]).size \in Nat /\ FNode(FfiLayout, els[i]).alignment \in Nat \ {0}
  <2>1. PICK k \in 1..Len(fs) : els[i] = Node(Parts(fs[k].type)[1])
    BY <1>1, <1>3, ListedFrom
  <2> DEFINE f == fs[k]
  <2>2. f \in Field /\ f.type \in TypesIn(t)
    BY <1>13, <2>1
  <2>3. els[i] = Node(Parts(f.type)[1])
    BY <2>1
  <2> HIDE DEF f
  <2>4. NodeMatches(Parts(f.type)[1])
    BY <2>2, PartMatches
  <2> QED  BY <2>3, <2>4 DEF NodeMatches
<1> HIDE DEF of, els
<1>15. /\ Len(els) \in Nat /\ Len(of) = Len(els) /\ DOMAIN of = 1..Len(of)
       /\ \A i \in 1..Len(of) : of[i] = FNode(FfiLayout, els[i])
  <2>1. Len(els) \in Nat /\ DOMAIN els = 1..Len(els)
    BY <1>10
  <2>2. Len(of) = Len(els)
    BY <1>12, <2>1
  <2> QED  BY <1>12, <2>1, <2>2
<1>16. PICK e : Ended(e, of)
  <2>1. \A i \in 1..Len(els) : of[i].size \in Nat /\ of[i].alignment \in Nat \ {0}
    BY <1>14, <1>15
  <2> QED  BY <1>15, <2>1, AggregateIs
<1>17. FfiLayout[t] = Aggregate(of)
  BY <1>1, FfiLayoutIs DEF of
<1>18. Walk(t, nodes, a, e)
  BY <1>3, <1>4, <1>5, <1>6, <1>7, <1>8, <1>13, <1>15, <1>16, <1>17 DEF Walk, of, els
<1> QED  BY <1>4, <1>18

\* recalc() and libffi end each field at the same place.
LEMMA SameEnd ==
  ASSUME LayoutInv, OpenArrays, NEW t \in Records, SoundFfi(t), FfiMatchesBefore(t),
         NEW nodes, NEW a, NEW e, Walk(t, nodes, a, e), NEW k \in 1..Len(fields[t]),
         e[Len(nodes[k - 1])] = a[k - 1].size
  PROVE  e[Len(nodes[k])] = a[k].size
<1> DEFINE fs == fields[t]
           f == fs[k]
           p == Parts(f.type)[1]
           of == FLayouts(FfiLayout, t)
           els == Elements(t)
           part == PartNodes(f)
           m == Len(part)
           o == Len(nodes[k - 1])
           b == a[k - 1]
<1>1. t \in Compound /\ TypeOK /\ ElemInv
  BY DEF Records, LayoutInv
<1>2. /\ fs \in Seq(Field) /\ f \in Field /\ f.type \in TypesIn(t) /\ Keys(fs) = fs
      /\ Listed(nodes, t) /\ Placed(a, t, fs) /\ Place(t, fs).ok
      /\ Len(of) = Len(els) /\ \A i \in 1..Len(of) : of[i] = FNode(FfiLayout, els[i])
      /\ Ended(e, of)
  BY DEF Walk
<1>3. k \in 1..Len(Keys(fs)) /\ Keys(fs)[k] = f
  BY <1>2
<1>4. /\ o \in Nat /\ m \in Nat /\ Len(nodes[k]) = o + m
      /\ \A j \in 1..m : o + j \in 1..Len(els) /\ els[o + j] = part[j]
  <2> DEFINE c == PartNodes(Keys(fields[t])[k])
  <2>0. t \in Compound /\ Listed(nodes, t) /\ k \in 1..Len(Keys(fields[t]))
    BY <1>1, <1>2, <1>3
  <2>1. /\ o \in Nat /\ Len(c) \in Nat /\ Len(nodes[k]) = o + Len(c)
        /\ \A j \in 1..Len(c) : o + j \in 1..Len(els) /\ els[o + j] = c[j]
    BY <2>0, ListedAt
  <2>2. c = part
    BY <1>3
  <2> HIDE DEF c, part, o, els
  <2> QED  BY <2>1, <2>2
<1>5. m = Len(Parts(f.type)) /\ m \in Nat \ {0} /\ part = [i \in 1..m |-> Node(p)]
  <2> HIDE DEF f
  <2> QED  BY <1>1, <1>2, PartNodesAre
<1>6. /\ p \in TypeRef /\ NodeMatches(p) /\ Alignable(t, p)
      /\ \A x \in Nat : Start(t, x, p) = PadTo(x, AlignOf(p))
  <2> HIDE DEF f
  <2> QED  BY <1>2, PartMatches
<1>7. b.ok /\ b \in Placement /\ a[k] = PlaceNext(t, b, f)
  <2>1. k - 1 \in 0..Len(fs)
    BY <1>2
  <2>2. b.ok
    BY <1>1, <1>2, <2>1, RoundsSucceed
  <2> QED  BY <1>2, <2>1, <2>2 DEF Placed
<1>8. b.size \in Nat
  BY <1>7 DEF Placement
<1>9. a[k].size = End(t, b.size, f)
  <2> HIDE DEF b, f
  <2>1. a[k] = [ok |-> TRUE, offset |-> [b.offset EXCEPT ![f.name] = Start(t, b.size, p)],
                size |-> End(t, b.size, f)]
    BY <1>6, <1>7 DEF PlaceNext
  <2> QED  BY <2>1
<1>10. PICK g : Ends(g, t, b.size, f)
  BY <1>1, <1>2, <1>6, <1>8, EndIs
<1>11. /\ g \in [0..m -> Nat] /\ g[0] = b.size
       /\ \A i \in 1..m : g[i] = Start(t, g[i - 1], p) + SizeOf(p)
       /\ End(t, b.size, f) = g[m]
  BY <1>5, <1>10 DEF Ends
<1>12. e \in [0..Len(of) -> Nat]
       /\ \A i \in 1..Len(of) : e[i] = PadTo(e[i - 1], of[i].alignment) + of[i].size
  BY <1>2 DEF Ended
<1>13. e[o] = g[0]
  BY <1>11
<1> HIDE DEF f, p, of, els, part, m, o, b, fs
<1>14. ASSUME NEW i \in 1..m
       PROVE  g[i] = PadTo(g[i - 1], AlignOf(p)) + SizeOf(p)
              /\ e[o + i] = PadTo(e[(o + i) - 1], AlignOf(p)) + SizeOf(p)
  <2>1. g[i - 1] \in Nat /\ g[i] = Start(t, g[i - 1], p) + SizeOf(p)
    BY <1>4, <1>11
  <2>2. Start(t, g[i - 1], p) = PadTo(g[i - 1], AlignOf(p))
    BY <1>6, <2>1
  <2>3. o + i \in 1..Len(of) /\ els[o + i] = Node(p)
    BY <1>2, <1>4, <1>5
  <2>4. of[o + i] = FNode(FfiLayout, Node(p))
    BY <1>2, <2>3
  <2>5. of[o + i].size = SizeOf(p) /\ of[o + i].alignment = AlignOf(p)
    BY <1>6, <2>4 DEF NodeMatches
  <2>6. e[o + i] = PadTo(e[(o + i) - 1], of[o + i].alignment) + of[o + i].size
    BY <1>12, <2>3
  <2> QED  BY <2>1, <2>2, <2>5, <2>6
<1> DEFINE S == {i \in 0..m : e[o + i] = g[i]}
<1>15. 0 \in S /\ 0 \in Nat
  <2>1. o + 0 = o
    BY <1>4
  <2> QED  BY <1>4, <1>13, <2>1
<1>16. ASSUME NEW i \in 0..m - 1, i \in S  PROVE i + 1 \in S
  <2>1. i + 1 \in 1..m /\ i + 1 \in 0..m /\ (i + 1) - 1 = i /\ (o + (i + 1)) - 1 = o + i
    BY <1>4, <1>16
  <2>2. e[o + i] = g[i]
    BY <1>16
  <2> DEFINE j == i + 1
  <2>3. j \in 1..m /\ j - 1 = i /\ (o + j) - 1 = o + i
    BY <2>1
  <2> HIDE DEF j
  <2>4. e[o + j] = g[j]
    BY <1>14, <2>2, <2>3
  <2> QED  BY <2>1, <2>4 DEF j
<1> HIDE DEF S
<1>17. 0..m \subseteq S
  BY <1>4, <1>15, <1>16, RangeInduction
<1>18. m \in S
  BY <1>4, <1>17
<1>19. e[o + m] = g[m]
  BY <1>18 DEF S
<1> QED  BY <1>4, <1>9, <1>11, <1>19

\* And so the record ends at the same place.
LEMMA SameEnds ==
  ASSUME LayoutInv, OpenArrays, NEW t \in Records, SoundFfi(t), FfiMatchesBefore(t),
         NEW nodes, NEW a, NEW e, Walk(t, nodes, a, e)
  PROVE  e[Len(Elements(t))] = a[Len(fields[t])].size
<1> DEFINE n == Len(fields[t])
           S == {k \in 0..n : e[Len(nodes[k])] = a[k].size}
<1>1. /\ n \in Nat /\ nodes[0] = <<>> /\ Elements(t) = nodes[n] /\ a[0].size = 0 /\ e[0] = 0
  BY DEF Walk, Listed, Placed, Ended
<1>2. 0 \in S /\ 0 \in Nat
  <2>1. Len(<<>>) = 0
    OBVIOUS
  <2> QED  BY <1>1, <2>1
<1>3. ASSUME NEW i \in 0..n - 1, i \in S  PROVE i + 1 \in S
  <2> DEFINE k == i + 1
  <2>1. k \in 1..n /\ k \in 0..n /\ k - 1 = i
    BY <1>1, <1>3
  <2>2. e[Len(nodes[i])] = a[i].size
    BY <1>3
  <2> HIDE DEF k
  <2>3. e[Len(nodes[k - 1])] = a[k - 1].size
    BY <2>1, <2>2
  <2>4. e[Len(nodes[k])] = a[k].size
    BY <2>1, <2>3, SameEnd
  <2> QED  BY <2>1, <2>4 DEF k
<1> HIDE DEF S
<1>4. 0..n \subseteq S
  BY <1>1, <1>2, <1>3, RangeInduction
<1>5. n \in S
  BY <1>1, <1>4
<1> QED  BY <1>1, <1>5 DEF S

\* The alignment that libffi finds is the largest of the fields'.
LEMMA SameAlignment ==
  ASSUME LayoutInv, OpenArrays, NEW t \in Records, SoundFfi(t), FfiMatchesBefore(t),
         NEW nodes, NEW a, NEW e, Walk(t, nodes, a, e)
  PROVE  LET A == {AlignOf(fields[t][i].type) : i \in DOMAIN fields[t]}
             of == FLayouts(FfiLayout, t)
         IN /\ Max(A) \in Nat \ {0}
            /\ Max({1} \cup {of[i].alignment : i \in DOMAIN of}) = Max(A)
<1> DEFINE fs == fields[t]
           n == Len(fs)
           f == [i \in 1..n |-> AlignOf(fs[i].type)]
           A == {AlignOf(fields[t][i].type) : i \in DOMAIN fields[t]}
           F == {f[i] : i \in 1..n}
           of == FLayouts(FfiLayout, t)
           B == {of[i].alignment : i \in DOMAIN of}
           C == {1} \cup B
           mx == Max(F)
<1>1. t \in Compound
  BY DEF Records
<1>2. /\ n \in Nat /\ n # 0 /\ DOMAIN fs = 1..n
      /\ \A i \in 1..n : fs[i] \in Field /\ fs[i].type \in TypesIn(t) /\ fs[i].type \in TypeRef
  BY FieldsAre DEF Walk
<1>3. /\ Keys(fs) = fs /\ Listed(nodes, t)
      /\ DOMAIN of = 1..Len(Elements(t))
      /\ \A i \in DOMAIN of : of[i] = FNode(FfiLayout, Elements(t)[i])
  BY DEF Walk
<1>4. A = F
  BY <1>2
<1>5. ASSUME NEW k \in 1..n
      PROVE  LET p == Parts(fs[k].type)[1]
             IN f[k] \in Nat \ {0} /\ FNode(FfiLayout, Node(p)).alignment = f[k]
  <2> DEFINE g == fs[k]
  <2>1. g \in Field /\ g.type \in TypesIn(t) /\ f[k] = AlignOf(g.type)
    BY <1>2
  <2> HIDE DEF g
  <2>2. NodeMatches(Parts(g.type)[1]) /\ AlignOf(Parts(g.type)[1]) = AlignOf(g.type)
    BY <2>1, PartMatches
  <2> QED  BY <2>1, <2>2 DEF NodeMatches, g
<1>6. \A i \in DOMAIN of : \E k \in 1..n : of[i].alignment = f[k]
  <2> SUFFICES ASSUME NEW i \in DOMAIN of  PROVE \E k \in 1..n : of[i].alignment = f[k]
    OBVIOUS
  <2>1. i \in 1..Len(Elements(t)) /\ of[i] = FNode(FfiLayout, Elements(t)[i])
    BY <1>3
  <2>2. PICK k \in 1..n : Elements(t)[i] = Node(Parts(fs[k].type)[1])
    BY <1>1, <1>3, <2>1, ListedFrom
  <2> HIDE DEF f, of
  <2> QED  BY <1>5, <2>1, <2>2
<1>7. \A k \in 1..n : \E i \in DOMAIN of : of[i].alignment = f[k]
  <2> SUFFICES ASSUME NEW k \in 1..n  PROVE \E i \in DOMAIN of : of[i].alignment = f[k]
    OBVIOUS
  <2> DEFINE g == fs[k]
             part == PartNodes(g)
             i == Len(nodes[k - 1]) + 1
  <2>1. g \in Field /\ g.type \in TypesIn(t)
    BY <1>2
  <2>2. k \in 1..Len(Keys(fs)) /\ Keys(fs)[k] = g
    BY <1>3
  <2>3. FNode(FfiLayout, Node(Parts(g.type)[1])).alignment = f[k]
    BY <1>5
  <2> HIDE DEF g, f, of
  <2>4. Len(part) \in Nat \ {0} /\ part[1] = Node(Parts(g.type)[1])
    <3>1. LET m == Len(Parts(g.type))
          IN m \in Nat \ {0} /\ part = [j \in 1..m |-> Node(Parts(g.type)[1])] /\ Len(part) = m
      BY <1>1, <2>1, PartNodesAre
    <3> QED  BY <3>1
  <2>5. \A j \in 1..Len(part) : /\ Len(nodes[k - 1]) + j \in 1..Len(Elements(t))
                                /\ Elements(t)[Len(nodes[k - 1]) + j] = part[j]
    BY <1>1, <1>3, <2>2, ListedAt
  <2>6. 1 \in 1..Len(part)
    BY <2>4
  <2>7. i \in 1..Len(Elements(t)) /\ Elements(t)[i] = part[1]
    BY <2>5, <2>6
  <2> HIDE DEF i, part
  <2> QED  BY <1>3, <2>3, <2>4, <2>7
<1> HIDE DEF f, of, n, fs, A
<1>8. B = F
  BY <1>6, <1>7
<1>9. Max(F) \in F /\ \A i \in 1..n : f[i] <= Max(F) /\ f[i] \in Nat \ {0}
  BY <1>2, <1>5, ExtremesOf
<1>10. mx \in F /\ \A x \in F : x <= mx /\ x \in Nat /\ x # 0
  BY <1>9
<1> HIDE DEF F, mx, B
<1>11. mx \in C /\ C \in SUBSET Nat /\ \A x \in C : x <= mx
  BY <1>8, <1>10
<1>12. Max(C) = mx
  BY <1>11, MaxEq
<1> QED  BY <1>4, <1>10, <1>12 DEF A, mx, B, of

\* A record matches if the types before it do.
LEMMA RecordMatches ==
  ASSUME LayoutInv, OpenArrays, FfiInv, NEW t \in Records, SoundFfi(t), FfiMatchesBefore(t)
  PROVE  FfiMatches(t)
<1> DEFINE fs == fields[t]
           of == FLayouts(FfiLayout, t)
           A == {AlignOf(fields[t][i].type) : i \in DOMAIN fields[t]}
           end == Place(t, fs)
<1>1. /\ \E nodes, a, e : Walk(t, nodes, a, e)
      /\ size[t] = Recalc(t, fs).size /\ alignment[t] = Recalc(t, fs).alignment
  BY WalkExists
<1>2. PICK nodes, a, e : Walk(t, nodes, a, e)
  BY <1>1
<1>3. e[Len(Elements(t))] = a[Len(fs)].size
  BY <1>2, SameEnds
<1>4. Max(A) \in Nat \ {0} /\ Max({1} \cup {of[i].alignment : i \in DOMAIN of}) = Max(A)
  BY <1>2, SameAlignment
<1>5. /\ Keys(fs) = fs /\ end = a[Len(fs)] /\ end.ok
      /\ Len(of) = Len(Elements(t)) /\ Ended(e, of) /\ FfiLayout[t] = Aggregate(of)
  BY <1>2 DEF Walk, Placed
<1>6. FfiLayout[t] = [size |-> PadTo(e[Len(of)], Max(A)), alignment |-> Max(A)]
  BY <1>4, <1>5 DEF Ended
<1>7. kind[t] \notin {"packed", "union"}
  BY ClosureIs DEF SoundFfi, PlainToFfi, Records
<1>8. Recalc(t, fs) = [ok |-> end.ok, offset |-> end.offset, alignment |-> Max(A),
                       size |-> IF end.ok THEN PadTo(end.size, Max(A)) ELSE end.size]
  BY <1>5, <1>7 DEF Recalc, RecalcStruct, StructAlignment
<1> HIDE DEF A, of, end
<1> QED  BY <1>1, <1>3, <1>4, <1>5, <1>6, <1>8 DEF FfiMatches

\* And so all records match.
LEMMA AllFfiMatch ==
  ASSUME LayoutInv, OpenArrays, FfiInv
  PROVE  \A t \in Records : SoundFfi(t) => FfiMatches(t)
<1> DEFINE S == {t \in Compound : SoundFfi(t) /\ t \in Records => FfiMatches(t)}
<1>1. Compound = 1..N /\ N \in Nat /\ Records \subseteq Compound
  BY NAssumption DEF Compound, Records
<1>2. ASSUME NEW t \in 1..N, 1..t - 1 \subseteq S  PROVE t \in S
  <2> SUFFICES ASSUME SoundFfi(t), t \in Records  PROVE FfiMatches(t)
    BY <1>1
  <2>1. FfiMatchesBefore(t)
    BY <1>2 DEF FfiMatchesBefore
  <2> QED  BY <2>1, RecordMatches
<1> HIDE DEF S
<1>3. 1..N \subseteq S
  BY <1>1, <1>2, CourseInduction
<1> QED  BY <1>1, <1>3 DEF S

\* A struct by value has the same size and alignment for libffi as in
\* JavaScript, whatever sizes and alignments the primitive types have.
THEOREM FfiLayoutAgrees == Spec => []FfiAgrees
<1>1. Init => FfiInv
  BY DEF Init, FfiInv
<1>2. LayoutInv /\ FfiInv /\ [Next]_vars => FfiInv'
  BY FfiStep
<1>3. LayoutInv /\ OpenArrays /\ FfiInv => FfiAgrees
  <2> SUFFICES ASSUME LayoutInv, OpenArrays, FfiInv, NEW t \in Records,
                      ffi_type[t] # NoFfi, PlainToFfi(t), FfiUpToDate(t), Settled(t)
               PROVE  FfiLayout[t].size = size[t] /\ FfiLayout[t].alignment = alignment[t]
    BY DEF FfiAgrees
  <2>1. SoundFfi(t)
    BY DEF SoundFfi, Sound, PlainToFfi, Records
  <2> QED  BY <2>1, AllFfiMatch DEF FfiMatches
<1> QED  BY <1>1, <1>2, <1>3, LayoutInvariant, OpenArraysAre, PTL DEF Spec
=============================================================================
