------------------------- MODULE ForeignLibraryProofs -------------------------
(***************************************************************************)
(* Theorems about VariadicFunctions, for any type objects, base and number *)
(* of requests, about DynamicLibraries, for any environments, finite set   *)
(* of DynamicLibrary objects, files and symbols, and about the two side by *)
(* side.                                                                   *)
(***************************************************************************)
EXTENDS MCForeignLibrary, RecursionTheorems, SequenceTheorems, FiniteSetTheorems

-----------------------------------------------------------------------------
(* getId: a recursive function over the types of a request.                *)

\* The ids of the types are below the counter, and all different.
GoodIds(ids, n) ==
  /\ n \in Nat
  /\ ids \in [TypeObjects -> {NoId} \cup 0..n - 1]
  /\ \A t, u \in TypeObjects : ids[t] = ids[u] /\ ids[t] # NoId => t = u

\* getId(type) gives ids to types that have none, and changes no other.
LEMMA GetIdsResult ==
  ASSUME NEW ids, NEW n, GoodIds(ids, n), NEW types \in Seq(TypeObjects)
  PROVE  LET given == GetIds(ids, n, types)
         IN /\ GoodIds(given.ids, given.n)
            /\ given.n >= n
            /\ \A t \in TypeObjects : ids[t] # NoId => given.ids[t] = ids[t]
            /\ \A i \in 1..Len(types) : given.ids[types[i]] # NoId
<1> DEFINE m == Len(types)
           T == [ids : [TypeObjects -> {NoId} \cup Nat], n : Nat]
           e == [ids |-> ids, n |-> n]
           After(b, t) == IF OwnId(b.ids, t) # NoId THEN b
                          ELSE [ids |-> [b.ids EXCEPT ![t] = b.n], n |-> b.n + 1]
           Body(g) == [i \in 0..m |-> IF i = 0 THEN e ELSE After(g[i - 1], types[i])]
           D == [p \in (1..m) \X T |-> After(p[2], types[p[1]])]
           after == CHOOSE g : g = Body(g)
<1>1. m \in Nat /\ \A i \in 1..m : types[i] \in TypeObjects
  OBVIOUS
<1>2. GetIds(ids, n, types) = after[m]
  BY DEF GetIds
<1>3. e \in T
  BY DEF GoodIds
<1>4. \A b \in T : \A t \in TypeObjects : After(b, t) \in T
  BY DEF OwnId
<1> HIDE DEF m, T, e, After
<1>5. D \in [(1..m) \X T -> T] /\ \A i \in 1..m : \A b \in T : D[<<i, b>>] = After(b, types[i])
  BY <1>1, <1>4
<1> HIDE DEF D
<1>6. \E g \in [0..m -> T] : g = Body(g)
  <2>0. StepData(m, T, e, D)
    BY <1>1, <1>3, <1>5 DEF StepData
  <2>1. PICK g : StepFunction(g, m, T, e, D)
    BY <2>0, StepRecursion
  <2> USE <2>1 DEF StepFunction
  <2>2. ASSUME NEW i \in 0..m
        PROVE  g[i] = IF i = 0 THEN e ELSE After(g[i - 1], types[i])
    <3>1. CASE i = 0
      BY <2>1, <3>1
    <3>2. CASE i # 0
      <4>1. i \in 1..m /\ i - 1 \in 0..m
        BY <1>1, <3>2
      <4> QED  BY <1>5, <2>1, <3>2, <4>1
    <3> QED  BY <3>1, <3>2
  <2>3. g = [i \in 0..m |-> g[i]]
    OBVIOUS
  <2> QED  BY <2>2, <2>3
<1>7. after = Body(after)
  BY <1>6
<1> HIDE DEF after
<1>8. after[0] = e /\ \A i \in 1..m : after[i] = After(after[i - 1], types[i])
  BY <1>1, <1>7
<1> DEFINE Good(i) == /\ after[i] \in T
                      /\ GoodIds(after[i].ids, after[i].n)
                      /\ after[i].n >= n
                      /\ \A t \in TypeObjects : ids[t] # NoId => after[i].ids[t] = ids[t]
                      /\ \A j \in 1..m : j <= i => after[i].ids[types[j]] # NoId
           S == {i \in 0..m : Good(i)}
<1>9. 0 \in S
  <2>1. after[0].ids = ids /\ after[0].n = n /\ after[0] \in T
    BY <1>3, <1>8 DEF e
  <2>2. n \in Nat
    BY DEF GoodIds
  <2> QED  BY <1>1, <2>1, <2>2
<1>10. ASSUME NEW i \in 0..m - 1, i \in S  PROVE  i + 1 \in S
  <2>1. i \in 0..m /\ i + 1 \in 1..m /\ i + 1 \in 0..m /\ (i + 1) - 1 = i
    BY <1>1
  <2>2. Good(i)
    BY <1>10
  <2> DEFINE b == after[i]
             t == types[i + 1]
  <2>3. t \in TypeObjects /\ after[i + 1] = After(b, t)
    BY <1>1, <1>8, <2>1
  <2> SUFFICES Good(i + 1)
    BY <2>1
  <2>4. CASE b.ids[t] # NoId
    <3>1. after[i + 1] = b
      BY <2>3, <2>4 DEF After, OwnId
    <3>2. \A j \in 1..m : j <= i + 1 => j <= i \/ j = i + 1
      BY <1>1
    <3> QED  BY <2>2, <2>4, <3>1, <3>2
  <2>5. CASE b.ids[t] = NoId
    <3>1. after[i + 1].ids = [b.ids EXCEPT ![t] = b.n] /\ after[i + 1].n = b.n + 1
      BY <2>3, <2>5 DEF After, OwnId
    <3>2. \A j \in 1..m : j <= i + 1 => j <= i \/ j = i + 1
      BY <1>1
    <3>3. b.n \in Nat /\ n \in Nat /\ b.n # NoId
      BY <2>2 DEF GoodIds, NoId
    <3>4. GoodIds(after[i + 1].ids, after[i + 1].n)
      BY <2>2, <2>3, <2>5, <3>1, <3>3 DEF GoodIds
    <3>5. after[i + 1] \in T
      BY <1>4, <2>2, <2>3
    <3>6. \A u \in TypeObjects : ids[u] # NoId => after[i + 1].ids[u] = ids[u]
      BY <2>2, <2>3, <2>5, <3>1 DEF GoodIds
    <3>7. ASSUME NEW j \in 1..m, j <= i + 1  PROVE after[i + 1].ids[types[j]] # NoId
      BY <1>1, <2>2, <2>3, <3>1, <3>2, <3>3, <3>7 DEF GoodIds
    <3> QED  BY <2>2, <3>1, <3>3, <3>4, <3>5, <3>6, <3>7
  <2> QED  BY <2>4, <2>5
<1> HIDE DEF S
<1>11. 0..m \subseteq S
  BY <1>1, <1>9, <1>10, RangeInduction
<1>12. m \in S
  BY <1>1, <1>11
<1> USE DEF S
<1>13. Good(m)
  BY <1>12
<1>14. \A i \in 1..m : i <= m
  BY <1>1
<1> QED  BY <1>2, <1>13, <1>14 DEF m

-----------------------------------------------------------------------------
(* Keys can be read back.                                                  *)

\* Ids that toString(16) writes with one digit, before their zeros.
SmallId(i) == i \in Nat /\ i < Base /\ i < Wrap \div 2

\* The length of a small id.
Width(i) == IF i = 0 THEN 1 ELSE 5

\* A small id is written with one digit, and four zeros if it is not zero.
LEMMA IdStringIs ==
  ASSUME NEW i, SmallId(i)
  PROVE  IdString(i) \in Seq(Int) /\ Len(IdString(i)) = Width(i) /\ IdString(i)[1] = i
<1>1. i \in Nat /\ i < Base /\ Base \in Nat /\ Wrap \in Nat /\ i < Wrap \div 2 /\ Wrap # 0
  BY BaseAssumption DEF SmallId
<1>2. i % Wrap = i
  BY <1>1
<1>3. CASE i = 0
  <2>1. IdString(i) = <<0>>
    BY <1>2, <1>3 DEF IdString
  <2> QED  BY <2>1, <1>3 DEF Width
<1>4. CASE i # 0
  <2> DEFINE Body(g) == [k \in 0..i |-> IF k < Base THEN <<k>>
                                        ELSE Append(g[k \div Base], k % Base)]
             h == [k \in 0..i |-> <<k>>]
             digits == CHOOSE g : g = Body(g)
  <2>1. \A g : Body(g) = h
    BY <1>1
  <2>2. digits = h
    BY <2>1
  <2>3. Digits(i) = digits[i]
    BY DEF Digits
  <2> HIDE DEF digits
  <2>4. Digits(i) = <<i>>
    BY <1>1, <2>2, <2>3
  <2>5. IdString(i) = <<i>> \o <<0, 0, 0, 0>>
    BY <1>1, <1>2, <1>4, <2>4 DEF IdString
  <2> DEFINE d == <<i>>
             z == <<0, 0, 0, 0>>
  <2>6. d \in Seq(Int) /\ Len(d) = 1 /\ d[1] = i
    BY <1>1
  <2>7. z \in Seq(Int) /\ Len(z) = 4
    OBVIOUS
  <2> HIDE DEF d, z
  <2>8. /\ d \o z \in Seq(Int)
        /\ Len(d \o z) = Len(d) + Len(z)
        /\ \A p \in 1..Len(d) + Len(z) : (d \o z)[p] = IF p <= Len(d) THEN d[p] ELSE z[p - Len(d)]
    <3>1. d \in Seq(Int) /\ z \in Seq(Int)
      BY <2>6, <2>7
    <3> QED  BY <3>1, ConcatProperties
  <2>9. Len(d \o z) = 5 /\ (d \o z)[1] = i
    BY <2>6, <2>7, <2>8
  <2> QED  BY <1>4, <2>5, <2>8, <2>9 DEF d, z, Width
<1> QED  BY <1>3, <1>4

\* All the types of a signature have small ids.
Given(ids, rtn, args) ==
  SmallId(ids[rtn]) /\ \A i \in 1..Len(args) : SmallId(ids[args[i]])

\* The ids are found in a key at the ends of the ids before.
Parsed(key, ends, ids, rtn, args) ==
  /\ ends \in [0..Len(args) -> Nat]
  /\ key[1] = ids[rtn] /\ ends[0] = Width(ids[rtn])
  /\ \A i \in 1..Len(args) : key[ends[i - 1] + 1] = ids[args[i]]
  /\ \A i \in 1..Len(args) : ends[i] = ends[i - 1] + Width(ids[args[i]])
  /\ ends[Len(args)] = Len(key)
  /\ \A i \in 0..Len(args) : i < Len(args) => ends[i] < Len(key)

\* Every key is a row of ids that can be told apart.
LEMMA KeyIsParsed ==
  ASSUME NEW ids, NEW rtn, NEW args, Len(args) \in Nat, Given(ids, rtn, args)
  PROVE  \E ends : Parsed(Key(ids, rtn, args), ends, ids, rtn, args)
<1> DEFINE n == Len(args)
           T == Seq(Int)
           Word(t) == IdString(OwnId(ids, t))
           e == Word(rtn)
           After(b, t) == b \o Word(t)
           Body(g) == [i \in 0..n |-> IF i = 0 THEN e ELSE g[i - 1] \o Word(args[i])]
           D == [p \in (1..n) \X T |-> p[2] \o Word(args[p[1]])]
           key == CHOOSE g : g = Body(g)
<1>1. n \in Nat
  OBVIOUS
<1>2. Key(ids, rtn, args) = key[n]
  BY DEF Key
<1>3. /\ e \in T /\ Len(e) = Width(ids[rtn]) /\ e[1] = ids[rtn]
      /\ \A i \in 1..n : LET w == Word(args[i])
                         IN w \in T /\ Len(w) = Width(ids[args[i]]) /\ w[1] = ids[args[i]]
  BY IdStringIs DEF Given, OwnId
<1>4. \A b, c \in T : b \o c \in T
  BY ConcatProperties
<1> HIDE DEF n, T, e, Word
<1>5. D \in [(1..n) \X T -> T] /\ \A i \in 1..n : \A b \in T : D[<<i, b>>] = b \o Word(args[i])
  BY <1>3, <1>4
<1> HIDE DEF D
<1>6. \E g \in [0..n -> T] : g = Body(g)
  <2>1. StepData(n, T, e, D)
    BY <1>1, <1>3, <1>5 DEF StepData
  <2>2. PICK g : StepFunction(g, n, T, e, D)
    BY <2>1, StepRecursion
  <2> USE <2>2 DEF StepFunction
  <2>3. ASSUME NEW i \in 0..n
        PROVE  g[i] = IF i = 0 THEN e ELSE g[i - 1] \o Word(args[i])
    <3>1. CASE i # 0
      <4>1. i \in 1..n /\ i - 1 \in 0..n
        BY <1>1, <3>1
      <4> QED  BY <1>5, <3>1, <4>1
    <3> QED  BY <3>1
  <2>4. g = [i \in 0..n |-> g[i]]
    OBVIOUS
  <2> QED  BY <2>3, <2>4
<1>7. key = Body(key)
  BY <1>6
<1> HIDE DEF key
<1>8. key[0] = e /\ \A i \in 1..n : key[i] = key[i - 1] \o Word(args[i])
  BY <1>1, <1>7
<1>9. \A i \in 0..n : key[i] \in T
  <2> DEFINE S == {i \in 0..n : key[i] \in T}
  <2>1. 0 \in S
    BY <1>1, <1>3, <1>8
  <2>2. ASSUME NEW i \in 0..n - 1, i \in S  PROVE  i + 1 \in S
    <3>1. i + 1 \in 1..n /\ i + 1 \in 0..n /\ (i + 1) - 1 = i
      BY <1>1
    <3>2. key[i + 1] = key[i] \o Word(args[i + 1])
      BY <1>8, <3>1
    <3>3. Word(args[i + 1]) \in T /\ key[i] \in T
      BY <1>3, <2>2, <3>1
    <3>4. key[i + 1] \in T
      BY <1>4, <3>2, <3>3
    <3> QED  BY <3>1, <3>4
  <2> HIDE DEF S
  <2>3. 0..n \subseteq S
    BY <1>1, <2>1, <2>2, RangeInduction
  <2> QED  BY <2>3 DEF S
\* A key begins with the keys before it.
<1>10. ASSUME NEW i \in 0..n
       PROVE  /\ Len(key[i]) <= Len(key[n])
              /\ \A p \in 1..Len(key[i]) : key[n][p] = key[i][p]
  <2> DEFINE S == {j \in i..n : /\ Len(key[i]) <= Len(key[j])
                                /\ \A p \in 1..Len(key[i]) : key[j][p] = key[i][p]}
  <2>0. i \in Nat /\ Len(key[i]) \in Nat
    BY <1>9, LenProperties DEF T
  <2>1. i \in S
    BY <1>1, <2>0
  <2>2. ASSUME NEW j \in i..n - 1, j \in S  PROVE  j + 1 \in S
    <3>1. j + 1 \in 1..n /\ j + 1 \in i..n /\ (j + 1) - 1 = j /\ j \in 0..n
      BY <1>1
    <3>2. key[j + 1] = key[j] \o Word(args[j + 1])
      BY <1>8, <3>1
    <3>3. key[j] \in T /\ Word(args[j + 1]) \in T
      BY <1>3, <1>9, <3>1
    <3> DEFINE b == key[j]
               w == Word(args[j + 1])
    <3>4. b \in Seq(Int) /\ w \in Seq(Int) /\ Len(b) \in Nat /\ Len(w) \in Nat
      BY <3>3 DEF T
    <3>5. key[j + 1] = b \o w
      BY <3>2
    <3> HIDE DEF b, w
    <3>6. /\ Len(b \o w) = Len(b) + Len(w)
          /\ \A p \in 1..Len(b) + Len(w) : (b \o w)[p] = IF p <= Len(b) THEN b[p] ELSE w[p - Len(b)]
      BY <3>4, ConcatProperties
    <3>7. Len(key[j + 1]) = Len(b) + Len(w) /\ \A p \in 1..Len(b) : key[j + 1][p] = b[p]
      BY <3>4, <3>5, <3>6
    <3>8. Len(key[i]) <= Len(b) /\ \A p \in 1..Len(key[i]) : b[p] = key[i][p]
      BY <2>2 DEF b
    <3>9. Len(key[i]) <= Len(key[j + 1]) /\ \A p \in 1..Len(key[i]) : key[j + 1][p] = key[i][p]
      <4>1. Len(key[i]) <= Len(key[j + 1])
        BY <2>0, <3>4, <3>7, <3>8
      <4>2. \A p \in 1..Len(key[i]) : p \in 1..Len(b)
        BY <2>0, <3>4, <3>8
      <4> QED  BY <3>7, <3>8, <4>1, <4>2
    <3> QED  BY <3>1, <3>9
  <2> HIDE DEF S
  <2>3. i..n \subseteq S
    BY <1>1, <2>0, <2>1, <2>2, RangeInduction
  <2>4. n \in S
    BY <1>1, <2>3
  <2> QED  BY <2>4 DEF S
<1> DEFINE ends == [i \in 0..n |-> Len(key[i])]
<1>11. \A i \in 0..n : Len(key[i]) \in Nat
  BY <1>9 DEF T
<1>12. ASSUME NEW i \in 1..n
       PROVE  /\ key[n][Len(key[i - 1]) + 1] = ids[args[i]]
              /\ Len(key[i]) = Len(key[i - 1]) + Width(ids[args[i]])
  <2> DEFINE w == Word(args[i])
             b == key[i - 1]
  <2>1. i - 1 \in 0..n /\ i \in 0..n
    BY <1>1
  <2>2. key[i] = b \o w /\ b \in T /\ w \in T
    BY <1>3, <1>8, <1>9, <2>1
  <2>3. Len(w) = Width(ids[args[i]]) /\ w[1] = ids[args[i]] /\ Width(ids[args[i]]) >= 1
    BY <1>3 DEF Width
  <2>4. Len(b) \in Nat /\ Len(w) \in Nat
    BY <2>2 DEF T
  <2> HIDE DEF w, b
  <2>5. Len(key[i]) = Len(b) + Len(w) /\ key[i][Len(b) + 1] = w[1]
    <3>1. Len(b) + 1 \in 1..Len(b) + Len(w) /\ ~(Len(b) + 1 <= Len(b)) /\ (Len(b) + 1) - Len(b) = 1
      BY <2>3, <2>4
    <3> QED  BY <2>2, <3>1, ConcatProperties DEF T
  <2>6. Len(b) + 1 \in 1..Len(key[i])
    BY <2>3, <2>4, <2>5
  <2> QED  BY <1>10, <2>1, <2>3, <2>5, <2>6 DEF b
<1>13. key[n][1] = ids[rtn]
  <2>1. 1 \in 1..Len(key[0]) /\ 0 \in 0..n
    BY <1>1, <1>3, <1>8 DEF Width
  <2> QED  BY <1>3, <1>8, <1>10, <2>1
<1>14. ASSUME NEW i \in 0..n, i < n  PROVE Len(key[i]) < Len(key[n])
  <2>1. i + 1 \in 1..n /\ i + 1 \in 0..n /\ (i + 1) - 1 = i
    BY <1>1, <1>14
  <2>2. Len(key[i + 1]) = Len(key[i]) + Width(ids[args[i + 1]])
    BY <1>12, <2>1
  <2>3. Width(ids[args[i + 1]]) \in Nat /\ Width(ids[args[i + 1]]) >= 1
    BY DEF Width
  <2> QED  BY <1>1, <1>10, <1>11, <2>1, <2>2, <2>3
<1>15. \A i \in 1..n : i \in 0..n /\ i - 1 \in 0..n
  BY <1>1
<1>16. ends \in [0..n -> Nat] /\ \A i \in 0..n : ends[i] = Len(key[i])
  BY <1>11
<1> HIDE DEF ends
<1>17. Parsed(key[n], ends, ids, rtn, args)
  <2>1. ends[0] = Width(ids[rtn]) /\ ends[n] = Len(key[n])
    BY <1>1, <1>3, <1>8, <1>16
  <2>2. \A i \in 1..n : key[n][ends[i - 1] + 1] = ids[args[i]]
    BY <1>12, <1>15, <1>16
  <2>3. \A i \in 1..n : ends[i] = ends[i - 1] + Width(ids[args[i]])
    BY <1>12, <1>15, <1>16
  <2>4. \A i \in 0..n : i < n => ends[i] < Len(key[n])
    BY <1>14, <1>16
  <2> QED  BY <1>13, <1>16, <2>1, <2>2, <2>3, <2>4 DEF Parsed, n
<1> QED  BY <1>2, <1>17

\* Types whose ids stand in the same key one after the other are the same.
LEMMA ParsedPrefix ==
  ASSUME NEW ids, NEW c, GoodIds(ids, c), NEW key, Len(key) \in Nat,
         NEW r \in TypeObjects, NEW a \in Seq(TypeObjects), Given(ids, r, a),
         NEW s \in TypeObjects, NEW b \in Seq(TypeObjects), Given(ids, s, b),
         NEW d, Parsed(key, d, ids, r, a), NEW f, Parsed(key, f, ids, s, b)
  PROVE  r = s /\ Len(a) <= Len(b) /\ \A i \in 1..Len(a) : a[i] = b[i]
<1> DEFINE n == Len(a)
           m == Len(b)
           S == {i \in 0..n : i <= m /\ d[i] = f[i] /\ \A j \in 1..n : j <= i => a[j] = b[j]}
<1>0. /\ n \in Nat /\ m \in Nat
      /\ \A i \in 1..n : a[i] \in TypeObjects
      /\ \A i \in 1..m : b[i] \in TypeObjects
  OBVIOUS
<1>1. \A t, u \in TypeObjects : ids[t] = ids[u] /\ SmallId(ids[t]) => t = u
  BY DEF GoodIds, SmallId, NoId
<1>2. r = s
  BY <1>1 DEF Parsed, Given
<1>3. 0 \in S
  BY <1>0, <1>2 DEF Parsed
<1>4. ASSUME NEW i \in 0..n - 1, i \in S  PROVE  i + 1 \in S
  <2>1. i \in 0..n /\ i + 1 \in 1..n /\ i + 1 \in 0..n /\ (i + 1) - 1 = i /\ i < n
    BY <1>0
  <2>2. i <= m /\ d[i] = f[i] /\ \A j \in 1..n : j <= i => a[j] = b[j]
    BY <1>4
  <2>3. d[i] < Len(key)
    BY <2>1 DEF Parsed
  <2>4. i # m
    BY <2>2, <2>3 DEF Parsed
  <2>5. i + 1 \in 1..m
    BY <1>0, <2>1, <2>2, <2>4
  <2>6. key[d[i] + 1] = ids[a[i + 1]] /\ key[f[i] + 1] = ids[b[i + 1]]
    BY <2>1, <2>5 DEF Parsed
  <2>7. SmallId(ids[a[i + 1]])
    BY <2>1 DEF Given
  <2>8. a[i + 1] = b[i + 1]
    BY <1>0, <1>1, <2>1, <2>2, <2>5, <2>6, <2>7
  <2>9. d[i + 1] = d[i] + Width(ids[a[i + 1]]) /\ f[i + 1] = f[i] + Width(ids[b[i + 1]])
    BY <2>1, <2>5 DEF Parsed
  <2>10. d[i + 1] = f[i + 1]
    BY <2>2, <2>8, <2>9
  <2>11. \A j \in 1..n : j <= i + 1 => j <= i \/ j = i + 1
    BY <1>0
  <2>12. i + 1 <= m
    BY <2>5
  <2> QED  BY <2>1, <2>2, <2>8, <2>10, <2>11, <2>12
<1> HIDE DEF S
<1>5. 0 \in Nat
  OBVIOUS
<1>6. 0..n \subseteq S
  BY <1>0, <1>3, <1>4, <1>5, RangeInduction
<1>7. n \in S /\ \A j \in 1..n : j <= n
  BY <1>0, <1>6
<1> QED  BY <1>2, <1>7 DEF S

\* Signatures with the same key are the same, while ids are small.
LEMMA KeyIsUnique ==
  ASSUME NEW ids, NEW c, GoodIds(ids, c),
         NEW r \in TypeObjects, NEW a \in Seq(TypeObjects), Given(ids, r, a),
         NEW s \in TypeObjects, NEW b \in Seq(TypeObjects), Given(ids, s, b),
         Key(ids, r, a) = Key(ids, s, b)
  PROVE  r = s /\ a = b
<1>0. Len(a) \in Nat /\ Len(b) \in Nat
  OBVIOUS
<1> DEFINE key == Key(ids, r, a)
<1>1. PICK d : Parsed(key, d, ids, r, a)
  BY <1>0, KeyIsParsed
<1>2. PICK f : Parsed(key, f, ids, s, b)
  BY <1>0, KeyIsParsed
<1> HIDE DEF key
<1>3. Len(key) \in Nat
  BY <1>0, <1>1 DEF Parsed
<1>4. r = s /\ Len(a) <= Len(b) /\ \A i \in 1..Len(a) : a[i] = b[i]
  BY <1>1, <1>2, <1>3, ParsedPrefix
<1>5. Len(b) <= Len(a)
  BY <1>1, <1>2, <1>3, ParsedPrefix
<1>6. Len(a) = Len(b)
  BY <1>0, <1>4, <1>5
<1> QED  BY <1>4, <1>6, SeqEqual

-----------------------------------------------------------------------------
(* The invariant of the generator.                                         *)

\* The return type and all the arguments have ids.
HasIds(ids, rtn, args) == ids[rtn] # NoId /\ \A i \in 1..Len(args) : ids[args[i]] # NoId

\* A function is in the cache under the key of its own types, whose ids do not
\* change any more.
CacheInv ==
  \A k \in DOMAIN cache :
    /\ cache[k] \in [rtn : TypeObjects, cifRtn : {ReturnType}, args : Seq(TypeObjects)]
    /\ HasIds(id, cache[k].rtn, cache[k].args)
    /\ k = Key(id, cache[k].rtn, cache[k].args)

\* The types of the fixed arguments were given ids when the generator was made.
FixedInv == \A i \in 1..Len(FixedTypes) : id[FixedTypes[i]] # NoId

\* The inductive invariant: VariadicTypeOK and CachedSignature follow from it.
VariadicInv ==
  /\ GoodIds(id, counter)
  /\ returnType \in TypeObjects
  /\ request.rtn \in TypeObjects
  /\ requests \in 0..MaxRequests
  /\ CacheInv
  /\ FixedInv
  /\ CachedSignature

\* Given ids stay, and so do the keys made of them.
LEMMA KeyIsStable ==
  ASSUME NEW ids, NEW after, NEW r \in TypeObjects, NEW a \in Seq(TypeObjects),
         HasIds(ids, r, a), \A t \in TypeObjects : ids[t] # NoId => after[t] = ids[t]
  PROVE  HasIds(after, r, a) /\ Key(after, r, a) = Key(ids, r, a)
<1>1. after[r] = ids[r] /\ \A i \in 1..Len(a) : after[a[i]] = ids[a[i]]
  BY DEF HasIds
<1>2. HasIds(after, r, a)
  BY <1>1 DEF HasIds
<1> DEFINE Body(x, g) == [i \in 0..Len(a) |-> IF i = 0 THEN IdString(OwnId(x, r))
                                              ELSE g[i - 1] \o IdString(OwnId(x, a[i]))]
           F(x) == CHOOSE g : g = Body(x, g)
<1>3. Key(ids, r, a) = F(ids)[Len(a)] /\ Key(after, r, a) = F(after)[Len(a)]
  BY DEF Key
<1>4. ASSUME NEW g  PROVE Body(after, g) = Body(ids, g)
  <2>1. ASSUME NEW i \in 0..Len(a), i # 0  PROVE i \in 1..Len(a)
    BY <2>1
  <2> QED  BY <1>1, <2>1 DEF OwnId
<1> HIDE DEF Body
<1>5. F(after) = F(ids)
  BY <1>4
<1> HIDE DEF F
<1> QED  BY <1>2, <1>3, <1>5

\* foreign_function_var.js gives the first ids when the generator is made.
LEMMA VariadicInitInv == VariadicInit => VariadicInv
<1> SUFFICES ASSUME VariadicInit  PROVE VariadicInv
  OBVIOUS
<1> DEFINE none == [t \in TypeObjects |-> NoId]
<1>1. GoodIds(none, 0)
  BY DEF GoodIds, NoId
<1>2. FixedTypes \in Seq(TypeObjects)
  BY FixedTypesAssumption
<1>3. id = GetIds(none, 0, FixedTypes).ids /\ counter = GetIds(none, 0, FixedTypes).n
  BY DEF VariadicInit
<1> HIDE DEF none
<1>4. GoodIds(id, counter) /\ FixedInv
  BY <1>1, <1>2, <1>3, GetIdsResult DEF FixedInv
<1>5. CacheInv
  BY DEF VariadicInit, CacheInv
<1>6. /\ returnType \in TypeObjects /\ request.rtn \in TypeObjects
      /\ requests \in 0..MaxRequests /\ CachedSignature
  BY ReturnTypeAssumption, MaxRequestsAssumption
  DEF VariadicInit, NoRequest, CachedSignature
<1> QED  BY <1>4, <1>5, <1>6 DEF VariadicInv

\* A request keeps the invariant: new ids change no key in the cache, and what
\* is found under the key of a request was prepared for its types.
LEMMA GenerateInv ==
  ASSUME VariadicInv, NEW n \in 0..MaxVariable, NEW variable \in [1..n -> TypeObjects],
         Generate(variable)
  PROVE  VariadicInv'
<1> DEFINE args == FixedTypes \o variable
           types == Append(variable, returnType)
           given == GetIds(id, counter, types)
           key == Key(given.ids, returnType, args)
           func == IF key \in DOMAIN cache THEN cache[key] ELSE Prepare(returnType, args)
<1>1. variable \in Seq(TypeObjects) /\ Len(variable) = n /\ n \in Nat
  BY MaxRequestsAssumption
<1>2. returnType \in TypeObjects /\ FixedTypes \in Seq(TypeObjects)
  BY FixedTypesAssumption DEF VariadicInv
<1>3. /\ types \in Seq(TypeObjects) /\ Len(types) = n + 1 /\ types[n + 1] = returnType
      /\ \A i \in 1..n : types[i] = variable[i]
  BY <1>1, <1>2
<1>4. /\ args \in Seq(TypeObjects) /\ Len(args) = Len(FixedTypes) + n
      /\ \A i \in 1..Len(FixedTypes) + n :
           args[i] = IF i <= Len(FixedTypes) THEN FixedTypes[i] ELSE variable[i - Len(FixedTypes)]
  BY <1>1, <1>2, ConcatProperties
<1>5. /\ id' = given.ids /\ counter' = given.n
      /\ cache' = [k \in DOMAIN cache \cup {key} |-> IF k = key THEN func ELSE cache[k]]
      /\ request' = [rtn |-> returnType, args |-> args, func |-> func]
      /\ requests < MaxRequests /\ requests' = requests + 1
      /\ returnType' = returnType
  BY DEF Generate
<1> HIDE DEF args, types, func, given, key
<1>6. /\ GoodIds(id', counter') /\ counter' >= counter
      /\ \A t \in TypeObjects : id[t] # NoId => id'[t] = id[t]
      /\ \A i \in 1..Len(types) : id'[types[i]] # NoId
  <2>1. GoodIds(id, counter) /\ types \in Seq(TypeObjects)
    BY <1>3 DEF VariadicInv
  <2>2. /\ GoodIds(given.ids, given.n) /\ given.n >= counter
        /\ \A t \in TypeObjects : id[t] # NoId => given.ids[t] = id[t]
        /\ \A i \in 1..Len(types) : given.ids[types[i]] # NoId
    BY <2>1, GetIdsResult DEF given
  <2> QED  BY <1>5, <2>2
<1>7. FixedInv'
  BY <1>2, <1>6 DEF VariadicInv, FixedInv
<1>8. HasIds(id', returnType, args)
  <2>1. id'[returnType] # NoId /\ \A i \in 1..n : id'[variable[i]] # NoId
    BY <1>1, <1>3, <1>6
  <2>2. \A i \in 1..Len(FixedTypes) : id'[FixedTypes[i]] # NoId
    BY <1>7 DEF FixedInv
  <2>3. ASSUME NEW i \in 1..Len(args)  PROVE id'[args[i]] # NoId
    <3>1. CASE i <= Len(FixedTypes)
      BY <1>2, <1>4, <2>2, <3>1
    <3>2. CASE ~(i <= Len(FixedTypes))
      <4>1. i - Len(FixedTypes) \in 1..n
        BY <1>1, <1>2, <1>4, <3>2
      <4> QED  BY <1>4, <2>1, <3>2, <4>1
    <3> QED  BY <3>1, <3>2
  <2> QED  BY <2>1, <2>3 DEF HasIds
<1>9. key = Key(id', returnType, args)
  BY <1>5 DEF key
<1>10. ASSUME NEW k \in DOMAIN cache
       PROVE  /\ cache[k] \in [rtn : TypeObjects, cifRtn : {ReturnType}, args : Seq(TypeObjects)]
              /\ HasIds(id', cache[k].rtn, cache[k].args)
              /\ k = Key(id', cache[k].rtn, cache[k].args)
  <2>1. /\ cache[k] \in [rtn : TypeObjects, cifRtn : {ReturnType}, args : Seq(TypeObjects)]
        /\ HasIds(id, cache[k].rtn, cache[k].args)
        /\ k = Key(id, cache[k].rtn, cache[k].args)
    BY DEF VariadicInv, CacheInv
  <2>2. cache[k].rtn \in TypeObjects /\ cache[k].args \in Seq(TypeObjects)
    BY <2>1
  <2> QED  BY <1>6, <2>1, <2>2, KeyIsStable
<1>11. /\ func \in [rtn : TypeObjects, cifRtn : {ReturnType}, args : Seq(TypeObjects)]
       /\ HasIds(id', func.rtn, func.args)
       /\ key = Key(id', func.rtn, func.args)
  <2>1. CASE key \in DOMAIN cache
    BY <1>10, <2>1 DEF func
  <2>2. CASE key \notin DOMAIN cache
    <3>1. func = [rtn |-> returnType, cifRtn |-> ReturnType, args |-> args]
      BY <2>2 DEF func, Prepare
    <3> QED  BY <1>2, <1>4, <1>8, <1>9, <3>1
  <2> QED  BY <2>1, <2>2
<1>12. CacheInv'
  <2>1. ASSUME NEW k \in DOMAIN cache'
        PROVE  /\ cache'[k] \in [rtn : TypeObjects, cifRtn : {ReturnType}, args : Seq(TypeObjects)]
               /\ HasIds(id', cache'[k].rtn, cache'[k].args)
               /\ k = Key(id', cache'[k].rtn, cache'[k].args)
    <3>1. CASE k = key
      <4>1. cache'[k] = func
        BY <1>5, <3>1
      <4> QED  BY <1>11, <3>1, <4>1
    <3>2. CASE k # key
      <4>1. k \in DOMAIN cache /\ cache'[k] = cache[k]
        BY <1>5, <3>2
      <4> QED  BY <1>10, <4>1
    <3> QED  BY <3>1, <3>2
  <2> QED  BY <2>1 DEF CacheInv
<1>13. CachedSignature'
  <2> SUFFICES ASSUME counter' <= Base, counter' <= Wrap \div 2
               PROVE  /\ func.rtn = returnType
                      /\ func.args = args
                      /\ func.cifRtn = ReturnType
    BY <1>5 DEF CachedSignature
  <2>1. Base \in Nat /\ Wrap \in Nat
    BY BaseAssumption
  <2>2. ASSUME NEW t \in TypeObjects, id'[t] # NoId  PROVE SmallId(id'[t])
    <3>1. id'[t] \in 0..counter' - 1 /\ counter' \in Nat
      BY <1>6, <2>2 DEF GoodIds
    <3> QED  BY <2>1, <3>1 DEF SmallId
  <2>3. ASSUME NEW r \in TypeObjects, NEW a \in Seq(TypeObjects), HasIds(id', r, a)
        PROVE  Given(id', r, a)
    <3>1. \A i \in 1..Len(a) : a[i] \in TypeObjects
      OBVIOUS
    <3> QED  BY <2>2, <2>3, <3>1 DEF HasIds, Given
  <2>4. func.rtn \in TypeObjects /\ func.args \in Seq(TypeObjects) /\ func.cifRtn = ReturnType
    BY <1>11
  <2>5. Given(id', returnType, args) /\ Given(id', func.rtn, func.args)
    BY <1>2, <1>4, <1>8, <1>11, <2>3, <2>4
  <2>6. Key(id', func.rtn, func.args) = Key(id', returnType, args)
    BY <1>9, <1>11
  <2>7. GoodIds(id', counter')
    BY <1>6
  <2>8. func.rtn = returnType /\ func.args = args
    BY <1>2, <1>4, <2>4, <2>5, <2>6, <2>7, KeyIsUnique
  <2> QED  BY <2>4, <2>8
<1>14. returnType' \in TypeObjects /\ request'.rtn \in TypeObjects /\ requests' \in 0..MaxRequests
  BY <1>2, <1>5, MaxRequestsAssumption DEF VariadicInv
<1> QED  BY <1>6, <1>7, <1>12, <1>13, <1>14 DEF VariadicInv

\* Every step of the generator, or of the program that patches it, keeps it.
LEMMA VariadicStep == VariadicInv /\ [VariadicNext]_variadicVars => VariadicInv'
<1> SUFFICES ASSUME VariadicInv, [VariadicNext]_variadicVars  PROVE VariadicInv'
  OBVIOUS
<1>1. CASE \E n \in 0..MaxVariable : \E variable \in [1..n -> TypeObjects] : Generate(variable)
  BY <1>1, GenerateInv
<1>2. CASE \E t \in TypeObjects \ {returnType} : PatchReturnType(t)
  BY <1>2 DEF PatchReturnType, VariadicInv, CacheInv, FixedInv, CachedSignature
<1>3. CASE UNCHANGED variadicVars
  BY <1>3 DEF variadicVars, VariadicInv, CacheInv, FixedInv, CachedSignature
<1> QED  BY <1>1, <1>2, <1>3 DEF VariadicNext

\* The type invariant follows.
LEMMA VariadicTypes == VariadicInv => VariadicTypeOK
<1> SUFFICES ASSUME VariadicInv  PROVE VariadicTypeOK
  OBVIOUS
<1>1. \A k \in DOMAIN cache : cache[k].rtn \in TypeObjects
  BY DEF VariadicInv, CacheInv
<1> QED  BY <1>1 DEF VariadicInv, GoodIds, VariadicTypeOK

\* The ids that getId gives are all different, below the counter, and the
\* generator keeps its types, for any types and any number of requests.
THEOREM VariadicTypeCorrect == VariadicSpec => []VariadicTypeOK
  BY VariadicInitInv, VariadicStep, VariadicTypes, PTL DEF VariadicSpec

\* As long as the ids are single digits the generator returns a function for
\* the very types it was asked for: keys of different signatures differ.
THEOREM SignaturesAreKept == VariadicSpec => []CachedSignature
<1>1. VariadicInv => CachedSignature
  BY DEF VariadicInv
<1> QED  BY <1>1, VariadicInitInv, VariadicStep, PTL DEF VariadicSpec

-----------------------------------------------------------------------------
(* DynamicLibraries.                                                       *)

\* Where an open library came from.
Holders(f) == {l \in Libraries : lib[l].handle = f}
Unclosed(f) == {l \in Libraries : lib[l].handle = f /\ lib[l].closes = 0}

Records == [state : {"new", "opening", "open"}, env : Envs \cup {None},
            asked : Files \cup {None}, handle : Files \cup {None}, closes : 0..2]

Types ==
  /\ host \in {"glibc", "posix", "win32"}
  /\ loads \in [Files -> Nat]
  /\ lastError \in [Envs -> Files \cup {None}]
  /\ lib \in [Libraries -> Records]
  /\ step \in [Envs -> Steps]
  /\ thrown \in [Envs -> Exceptions]
  /\ functions \in [Libraries -> SUBSET Symbols]

\* The handle of a library is set while it is open, to an object.
HandleInv ==
  \A l \in Libraries :
    /\ lib[l].state = "open" => lib[l].handle \in Files /\ Kind(lib[l].handle) = "object"
    /\ lib[l].state # "open" =>
         lib[l].handle = None /\ lib[l].closes = 0 /\ functions[l] = {}

\* An environment between two steps is about to open a library of its own that
\* is not open yet, or to report a missing symbol of an open one.
StepInv ==
  \A e \in Envs :
    /\ step[e].op \in {"open", "openError"} =>
         /\ step[e].lib \in Libraries /\ step[e].file \in Files
         /\ lib[step[e].lib].state = "opening" /\ lib[step[e].lib].env = e
    /\ step[e].op = "openError" => Kind(step[e].file) # "object"
    /\ step[e].op = "symbolError" => step[e].lib \in Libraries /\ step[e].file \in Files

\* Outside Windows a pending error is that of the step before.
ErrorInv ==
  host # "win32" =>
    \A e \in Envs : step[e].op \in {"openError", "symbolError"} => lastError[e] = step[e].file

\* What is being opened is on the way from the file asked for.
ChainInv ==
  \A e \in Envs :
    step[e].op \in {"open", "openError"} =>
      LeadsTo(host, lib[step[e].lib].asked, step[e].file)

\* The loader counts the objects that are open and were not closed, as long as
\* none was closed twice.
CountInv ==
  \A f \in Files :
    (\A k \in Holders(f) : lib[k].closes < 2) => loads[f] = Cardinality(Unclosed(f))

LibInv ==
  Types /\ HandleInv /\ StepInv /\ ErrorInv /\ ChainInv /\ ErrorIsOwn /\ ScriptsFollowed

USE NoneAssumption, FilesAssumption

-----------------------------------------------------------------------------
\* The way from a file begins there, and goes on through followable scripts.
LEMMA LeadsToItself == \A h, f : LeadsTo(h, f, f)
BY DEF LeadsTo

LEMMA LeadsOn ==
  ASSUME NEW h, NEW f, NEW g \in Files, LeadsTo(h, f, g), Followable(h, g)
  PROVE  LeadsTo(h, f, Target(g))
BY DEF LeadsTo

LEMMA InitLibInv == LibInit => LibInv
BY DEF LibInit, LibInv, Types, HandleInv, StepInv, ErrorInv, ChainInv, ErrorIsOwn,
       ScriptsFollowed, NewLibrary, Idle, Steps, NoError, Records, Exceptions, Failures

\* The error that a step leaves is the one of the environment that took it;
\* outside Windows the others keep theirs.
LEMMA SetErrorFacts ==
  ASSUME Types, NEW e \in Envs, NEW f \in Files \cup {None}
  PROVE  /\ SetError(e, f) \in [Envs -> Files \cup {None}]
         /\ SetError(e, f)[e] = f
         /\ host # "win32" => \A x \in Envs \ {e} : SetError(e, f)[x] = lastError[x]
BY DEF SetError, Types

\* Calling without an exception disturbs neither property of exceptions.
LEMMA NothingThrown ==
  ASSUME LibInv, NEW e \in Envs, thrown' = [thrown EXCEPT ![e] = NoError], UNCHANGED host,
         \A l \in Libraries : /\ lib'[l].state = "open" => lib[l].state = "open"
                              /\ lib'[l].state = "open" =>
                                   lib'[l].asked = lib[l].asked /\ lib'[l].handle = lib[l].handle
  PROVE  thrown' \in [Envs -> Exceptions] /\ ErrorIsOwn' /\ ScriptsFollowed'
<1>1. NoError \in Exceptions
  BY DEF NoError, Exceptions
<1>2. thrown' \in [Envs -> Exceptions]
  BY <1>1 DEF LibInv, Types
<1>3. /\ thrown'[e].error = "none"
      /\ \A x \in Envs \ {e} : thrown'[x] = thrown[x]
  BY DEF LibInv, Types, NoError
<1>4. ErrorIsOwn'
  BY <1>3 DEF LibInv, ErrorIsOwn
<1>5. ScriptsFollowed'
  BY <1>3 DEF LibInv, ScriptsFollowed, Failures
<1> QED  BY <1>2, <1>4, <1>5

LEMMA NewKeeps ==
  ASSUME LibInv, NEW e \in Envs, NEW l \in Libraries, NEW f \in Files, New(e, l, f)
  PROVE  LibInv'
<1> USE DEF New, LibInv
<1> DEFINE s == [op |-> "open", lib |-> l, file |-> f]
           r == [lib[l] EXCEPT !.state = "opening", !.env = e, !.asked = f]
<1>1. /\ s \in Steps /\ step' = [step EXCEPT ![e] = s]
      /\ r \in Records /\ lib' = [lib EXCEPT ![l] = r]
  BY DEF Types, Steps, Records
<1>r. /\ lib'[l].state = "opening" /\ lib'[l].asked = f /\ step'[e] = s
      /\ lib'[l].handle = lib[l].handle
      /\ \A k \in Libraries \ {l} : lib'[k] = lib[k]
      /\ \A x \in Envs \ {e} : step'[x] = step[x]
  BY DEF Types, Records
<1>t. thrown' \in [Envs -> Exceptions] /\ ErrorIsOwn' /\ ScriptsFollowed'
  BY <1>r, NothingThrown
<1>2. Types'
  BY <1>1, <1>t DEF Types
<1>3. HandleInv'
  BY DEF HandleInv, Types, Records
<1>4. StepInv'
  BY DEF HandleInv, StepInv, Types, Steps, Records
<1>5. ErrorInv'
  BY DEF ErrorInv, Types, Steps
<1>6. ChainInv'
  BY <1>r, LeadsToItself DEF ChainInv, StepInv
<1> QED  BY <1>t, <1>2, <1>3, <1>4, <1>5, <1>6

LEMMA DlopenKeeps == ASSUME LibInv, NEW e \in Envs, Dlopen(e) PROVE LibInv'
<1> USE DEF LibInv
<1> DEFINE l == step[e].lib
           f == step[e].file
<1>1. /\ step[e].op = "open" /\ l \in Libraries /\ f \in Files
      /\ lib[l].state = "opening" /\ lib[l].env = e
      /\ LeadsTo(host, lib[l].asked, f)
  BY DEF Dlopen, StepInv, ChainInv
<1>2. CASE Kind(f) = "object"
  <2> DEFINE r == [lib[l] EXCEPT !.state = "open", !.handle = f]
  <2>1. /\ loads' = [loads EXCEPT ![f] = @ + 1]
        /\ lib' = [lib EXCEPT ![l] = r] /\ step' = [step EXCEPT ![e] = Idle]
        /\ UNCHANGED <<lastError, host, thrown, functions>>
    BY <1>2 DEF Dlopen
  <2>r. lib[l] \in Records
    BY <1>1 DEF Types
  <2>2. r \in Records /\ r.asked = lib[l].asked /\ r.handle = f
    BY <1>1, <2>r DEF Records
  <2> Idle \in Steps
    BY DEF Steps, Idle
  <2>3. Types'
    BY <1>1, <2>1, <2>2 DEF Types
  <2>4. HandleInv'
    BY <1>1, <1>2, <2>1 DEF HandleInv, Types, Records
  <2>5. StepInv'
    BY <1>1, <2>1 DEF StepInv, Types, Steps, Idle, Records
  <2>6. ErrorInv' /\ ErrorIsOwn'
    BY <2>1 DEF ErrorInv, ErrorIsOwn, Types, Steps, Idle
  <2>7. lib'[l] = r /\ \A k \in Libraries \ {l} : lib'[k] = lib[k]
    BY <1>1, <2>1 DEF Types
  <2>8. ScriptsFollowed'
    BY <1>1, <2>1, <2>2, <2>7 DEF ScriptsFollowed
  <2>9. ChainInv'
    <3>1. SUFFICES ASSUME NEW x \in Envs, step'[x].op \in {"open", "openError"}
                   PROVE  LeadsTo(host', lib'[step'[x].lib].asked, step'[x].file)
      BY DEF ChainInv
    <3>2. x # e /\ step'[x] = step[x]
      BY <2>1, <3>1 DEF Types, Idle
    <3>3. step[x].lib \in Libraries /\ step[x].lib # l
      BY <1>1, <3>1, <3>2 DEF StepInv
    <3> QED  BY <2>1, <2>7, <3>1, <3>2, <3>3 DEF ChainInv
  <2> QED  BY <2>3, <2>4, <2>5, <2>6, <2>8, <2>9
<1>3. CASE Kind(f) # "object"
  <2> DEFINE s == [step[e] EXCEPT !.op = "openError"]
  <2>1. /\ lastError' = SetError(e, f) /\ step' = [step EXCEPT ![e] = s]
        /\ UNCHANGED <<loads, lib, host, thrown, functions>>
    BY <1>3 DEF Dlopen
  <2>2. s \in Steps /\ s.lib = l /\ s.file = f
    BY DEF Types, Steps
  <2>3. Types'
    BY <1>1, <2>1, <2>2, SetErrorFacts DEF Types
  <2>4. HandleInv' /\ ErrorIsOwn' /\ ScriptsFollowed'
    BY <2>1 DEF HandleInv, ErrorIsOwn, ScriptsFollowed
  <2>5. StepInv'
    BY <1>1, <1>3, <2>1 DEF StepInv, Types, Steps
  <2>6. ErrorInv'
    BY <1>1, <2>1, SetErrorFacts DEF ErrorInv, Types, Steps
  <2>7. ChainInv'
    BY <1>1, <2>1, <2>2 DEF ChainInv, Types
  <2> QED  BY <2>3, <2>4, <2>5, <2>6, <2>7
<1> QED  BY <1>2, <1>3

LEMMA OpenErrorKeeps == ASSUME LibInv, NEW e \in Envs, OpenError(e) PROVE LibInv'
<1> USE DEF LibInv
<1> DEFINE l == step[e].lib
           f == step[e].file
           err == lastError[e]
<1>1. /\ step[e].op = "openError" /\ l \in Libraries /\ f \in Files /\ Kind(f) # "object"
      /\ lib[l].state = "opening" /\ lib[l].env = e
      /\ lastError' = SetError(e, None) /\ UNCHANGED <<host, loads, functions>>
      /\ err \in Files \cup {None}
      /\ LeadsTo(host, lib[l].asked, f)
      /\ host # "win32" => err = f
  BY DEF OpenError, StepInv, ErrorInv, ChainInv, Types
<1>2. CASE Follows(err)
  <2> DEFINE s == [step[e] EXCEPT !.op = "open", !.file = Target(err)]
  <2>1. step' = [step EXCEPT ![e] = s] /\ UNCHANGED <<lib, thrown>>
    BY <1>2 DEF OpenError
  <2>2. s \in Steps /\ s.op = "open" /\ s.lib = l /\ s.file = Target(err) /\ s.file \in Files
    BY <1>1, <1>2 DEF Types, Steps, Follows
  <2>3. Types'
    BY <1>1, <2>1, <2>2, SetErrorFacts DEF Types
  <2>4. HandleInv' /\ ErrorIsOwn' /\ ScriptsFollowed'
    BY <1>1, <2>1 DEF HandleInv, ErrorIsOwn, ScriptsFollowed
  <2>5. StepInv'
    BY <1>1, <2>1, <2>2 DEF StepInv, Types
  <2>6. ErrorInv'
    BY <1>1, <2>1, <2>2, SetErrorFacts DEF ErrorInv, Types
  <2>7. err = f /\ Followable(host, f)
    BY <1>1, <1>2 DEF Follows, Named, Followable
  <2>8. LeadsTo(host, lib[l].asked, Target(err))
    BY <1>1, <2>7, LeadsOn
  <2>9. ChainInv'
    BY <1>1, <2>1, <2>2, <2>8 DEF ChainInv, Types
  <2> QED  BY <2>3, <2>4, <2>5, <2>6, <2>9
<1>3. CASE ~Follows(err)
  <2> DEFINE t == [error |-> Failure(err), asked |-> lib[l].asked, file |-> f, about |-> err]
  <2>1. /\ thrown' = [thrown EXCEPT ![e] = t] /\ lib' = [lib EXCEPT ![l] = NewLibrary]
        /\ step' = [step EXCEPT ![e] = Idle]
    BY <1>3 DEF OpenError
  <2>2. /\ NewLibrary \in Records /\ NewLibrary.state = "new" /\ Idle \in Steps
        /\ t \in Exceptions
    <3>1. lib[l].asked \in Files \cup {None} /\ Failure(err) \in Failures
      BY <1>1 DEF Types, Records, Failure, Failures
    <3> QED  BY <1>1, <3>1 DEF Records, Steps, NewLibrary, Idle, Exceptions
  <2>3. Types'
    BY <1>1, <2>1, <2>2, SetErrorFacts DEF Types
  <2>4. HandleInv'
    BY <1>1, <2>1 DEF HandleInv, Types, NewLibrary
  <2>5. StepInv'
    BY <1>1, <2>1 DEF StepInv, Types, Idle, NewLibrary
  <2>6. ErrorInv'
    BY <1>1, <2>1, SetErrorFacts DEF ErrorInv, Types, Idle
  <2>7. host # "win32" => err = f /\ ~Followable(host, f)
    BY <1>1, <1>3 DEF Follows, Named, Followable
  <2>r. /\ thrown'[e] = t /\ \A x \in Envs \ {e} : thrown'[x] = thrown[x]
        /\ lib'[l] = NewLibrary /\ \A k \in Libraries \ {l} : lib'[k] = lib[k]
    BY <1>1, <2>1 DEF Types
  <2>8. ErrorIsOwn'
    BY <1>1, <2>r, <2>7 DEF ErrorIsOwn
  <2>9. ScriptsFollowed'
    BY <1>1, <2>2, <2>r, <2>7 DEF ScriptsFollowed
  <2>10. ChainInv'
    <3>1. SUFFICES ASSUME NEW x \in Envs, step'[x].op \in {"open", "openError"}
                   PROVE  LeadsTo(host', lib'[step'[x].lib].asked, step'[x].file)
      BY DEF ChainInv
    <3>2. x # e /\ step'[x] = step[x]
      BY <2>1, <3>1 DEF Types, Idle
    <3>3. step[x].lib \in Libraries /\ step[x].lib # l
      BY <1>1, <3>1, <3>2 DEF StepInv
    <3> QED  BY <1>1, <2>r, <3>1, <3>2, <3>3 DEF ChainInv
  <2> QED  BY <2>3, <2>4, <2>5, <2>6, <2>8, <2>9, <2>10
<1> QED  BY <1>2, <1>3

LEMMA GetKeeps ==
  ASSUME LibInv, NEW e \in Envs, NEW l \in Libraries, NEW s \in Symbols, Get(e, l, s)
  PROVE  LibInv'
<1> USE DEF LibInv
<1> DEFINE f == lib[l].handle
<1>1. /\ step[e].op = "idle" /\ lib[l].state = "open" /\ f \in Files /\ Kind(f) = "object"
      /\ thrown' = [thrown EXCEPT ![e] = NoError] /\ UNCHANGED <<host, loads, lib>>
  BY DEF Get, HandleInv
<1>t. thrown' \in [Envs -> Exceptions] /\ ErrorIsOwn' /\ ScriptsFollowed'
  BY <1>1, NothingThrown
<1>2. CASE s \in Exports(f)
  <2>1. functions' = [functions EXCEPT ![l] = @ \cup {s}] /\ UNCHANGED <<lastError, step>>
    BY <1>2 DEF Get
  <2>2. Types'
    BY <1>1, <1>t, <2>1 DEF Types
  <2>3. HandleInv'
    BY <1>1, <2>1 DEF HandleInv, Types
  <2>4. StepInv' /\ ErrorInv' /\ ChainInv'
    BY <1>1, <2>1 DEF StepInv, ErrorInv, ChainInv
  <2> QED  BY <1>t, <2>2, <2>3, <2>4
<1>3. CASE s \notin Exports(f)
  <2> DEFINE t == [op |-> "symbolError", lib |-> l, file |-> f]
  <2>1. /\ lastError' = SetError(e, f) /\ step' = [step EXCEPT ![e] = t]
        /\ UNCHANGED functions
    BY <1>3 DEF Get
  <2>2. t \in Steps
    BY <1>1 DEF Steps
  <2>3. Types'
    BY <1>1, <1>t, <2>1, <2>2, SetErrorFacts DEF Types
  <2>4. HandleInv'
    BY <1>1, <2>1 DEF HandleInv
  <2>5. StepInv'
    BY <1>1, <2>1 DEF StepInv, Types
  <2>6. ErrorInv'
    BY <1>1, <2>1, SetErrorFacts DEF ErrorInv, Types
  <2>7. ChainInv'
    BY <1>1, <2>1 DEF ChainInv, Types
  <2> QED  BY <1>t, <2>3, <2>4, <2>5, <2>6, <2>7
<1> QED  BY <1>2, <1>3

LEMMA SymbolErrorKeeps == ASSUME LibInv, NEW e \in Envs, SymbolError(e) PROVE LibInv'
<1> USE DEF LibInv
<1> DEFINE t == [error |-> "symbol", asked |-> lib[step[e].lib].asked,
                 file |-> step[e].file, about |-> lastError[e]]
<1>1. /\ step[e].op = "symbolError" /\ lastError' = SetError(e, None)
      /\ thrown' = [thrown EXCEPT ![e] = t] /\ step' = [step EXCEPT ![e] = Idle]
      /\ UNCHANGED <<host, loads, lib, functions>>
  BY DEF SymbolError
<1>2. Idle \in Steps /\ step[e].lib \in Libraries /\ step[e].file \in Files
  BY <1>1 DEF Steps, Idle, StepInv
<1>3. t \in Exceptions
  BY <1>2 DEF Types, Records, Exceptions, Failures
<1>4. Types'
  BY <1>1, <1>2, <1>3, SetErrorFacts DEF Types
<1>5. HandleInv'
  BY <1>1 DEF HandleInv
<1>6. StepInv'
  BY <1>1 DEF StepInv, Types, Idle
<1>7. ErrorInv'
  BY <1>1, SetErrorFacts DEF ErrorInv, Types, Idle
<1>8. ChainInv'
  BY <1>1 DEF ChainInv, Types, Idle
<1>9. thrown'[e] = t /\ \A x \in Envs \ {e} : thrown'[x] = thrown[x]
  BY <1>1 DEF Types
<1>10. ErrorIsOwn'
  BY <1>1, <1>9 DEF ErrorInv, ErrorIsOwn
<1>11. ScriptsFollowed'
  BY <1>1, <1>9 DEF ScriptsFollowed, Failures
<1> QED  BY <1>4, <1>5, <1>6, <1>7, <1>8, <1>10, <1>11

LEMMA CloseKeeps ==
  ASSUME LibInv, NEW e \in Envs, NEW l \in Libraries, Close(e, l)
  PROVE  LibInv'
<1> USE DEF LibInv
<1> DEFINE f == lib[l].handle
           r == [lib[l] EXCEPT !.closes = @ + 1]
<1>1. /\ step[e].op = "idle" /\ lib[l].state = "open" /\ f \in Files /\ Kind(f) = "object"
      /\ lib[l].closes < 2 /\ lib' = [lib EXCEPT ![l] = r]
      /\ thrown' = [thrown EXCEPT ![e] = NoError] /\ UNCHANGED <<host, step, functions>>
      /\ \/ loads[f] > 0 /\ loads' = Unloaded(f) /\ UNCHANGED lastError
         \/ loads[f] = 0 /\ lastError' = SetError(e, f) /\ UNCHANGED loads
  <2>1. lib[l].state = "open"
    BY DEF Close
  <2>2. f \in Files /\ Kind(f) = "object"
    BY <2>1 DEF HandleInv
  <2> QED  BY <2>2 DEF Close
<1>2. r \in Records
  BY <1>1 DEF Types, Records
<1>r. \A k \in Libraries : /\ lib'[k].state = lib[k].state /\ lib'[k].asked = lib[k].asked
                           /\ lib'[k].handle = lib[k].handle
  BY <1>1 DEF Types, Records
<1>t. thrown' \in [Envs -> Exceptions] /\ ErrorIsOwn' /\ ScriptsFollowed'
  BY <1>1, <1>r, NothingThrown
<1>3. loads' \in [Files -> Nat]
  BY <1>1 DEF Types, Unloaded
<1>4. Types'
  BY <1>1, <1>2, <1>3, <1>t, SetErrorFacts DEF Types
<1>5. HandleInv' /\ StepInv'
  BY <1>1 DEF HandleInv, StepInv, Types, Records
<1>6. ErrorInv'
  BY <1>1, SetErrorFacts DEF ErrorInv
<1>7. ChainInv'
  BY <1>1, <1>r DEF ChainInv, StepInv
<1> QED  BY <1>t, <1>4, <1>5, <1>6, <1>7

-----------------------------------------------------------------------------
(* The steps that change a handle, a count of closes or the loader.        *)

LEMMA CountKept ==
  ASSUME Types, CountInv, UNCHANGED loads,
         \A l \in Libraries : lib'[l].handle = lib[l].handle /\ lib'[l].closes = lib[l].closes
  PROVE  CountInv'
BY DEF CountInv, Holders, Unclosed

LEMMA DlopenCounts == ASSUME LibInv, CountInv, NEW e \in Envs, Dlopen(e) PROVE CountInv'
<1> DEFINE l == step[e].lib
           f == step[e].file
<1>1. /\ l \in Libraries /\ f \in Files /\ lib[l].state = "opening"
      /\ lib[l].handle = None /\ lib[l].closes = 0
  BY DEF Dlopen, LibInv, StepInv, HandleInv
<1>2. CASE Kind(f) # "object"
  BY <1>2, CountKept DEF Dlopen, LibInv
<1>3. CASE Kind(f) = "object"
  <2>1. /\ loads' = [loads EXCEPT ![f] = @ + 1]
        /\ lib' = [lib EXCEPT ![l] = [@ EXCEPT !.state = "open", !.handle = f]]
    BY <1>3 DEF Dlopen
  <2>2. /\ lib'[l].handle = f /\ lib'[l].closes = 0
        /\ \A k \in Libraries \ {l} : lib'[k] = lib[k]
    BY <1>1, <2>1 DEF LibInv, Types, Records
  <2>3. SUFFICES ASSUME NEW g \in Files, \A k \in Holders(g)' : lib'[k].closes < 2
                 PROVE  loads'[g] = Cardinality(Unclosed(g)')
    BY DEF CountInv
  <2>4. \A k \in Holders(g) : lib[k].closes < 2
    BY <1>1, <2>2, <2>3 DEF Holders
  <2>5. loads[g] = Cardinality(Unclosed(g))
    BY <2>4 DEF CountInv
  <2>6. CASE g = f
    <3>1. Unclosed(g)' = Unclosed(g) \cup {l} /\ l \notin Unclosed(g)
      BY <1>1, <2>2, <2>6 DEF Unclosed
    <3>2. IsFiniteSet(Unclosed(g))
      BY LibrariesAssumption, FS_Subset DEF Unclosed
    <3>3. Cardinality(Unclosed(g)') = Cardinality(Unclosed(g)) + 1
      BY <3>1, <3>2, FS_AddElement
    <3> QED  BY <2>1, <2>5, <2>6, <3>3 DEF LibInv, Types
  <2>7. CASE g # f
    <3>1. Unclosed(g)' = Unclosed(g)
      BY <1>1, <2>2, <2>7 DEF Unclosed
    <3> QED  BY <2>1, <2>5, <2>7, <3>1 DEF LibInv, Types
  <2> QED  BY <2>6, <2>7
<1> QED  BY <1>2, <1>3

LEMMA CloseCounts ==
  ASSUME LibInv, CountInv, NEW e \in Envs, NEW l \in Libraries, Close(e, l)
  PROVE  CountInv'
<1> DEFINE f == lib[l].handle
<1>1. /\ f \in Files /\ lib' = [lib EXCEPT ![l].closes = @ + 1]
      /\ \/ loads[f] > 0 /\ loads' = Unloaded(f)
         \/ loads[f] = 0 /\ UNCHANGED loads
  BY DEF Close, LibInv, HandleInv
<1>2. /\ lib'[l].handle = f /\ lib'[l].closes = lib[l].closes + 1
      /\ \A k \in Libraries \ {l} : lib'[k] = lib[k]
  <2>1. lib[l] \in Records /\ lib \in [Libraries -> Records]
    BY DEF LibInv, Types
  <2> QED  BY <1>1, <2>1 DEF Records
<1>3. SUFFICES ASSUME NEW g \in Files, \A k \in Holders(g)' : lib'[k].closes < 2
               PROVE  loads'[g] = Cardinality(Unclosed(g)')
  BY DEF CountInv
<1>4. lib[l].closes \in 0..2
  BY DEF LibInv, Types, Records
<1>5. \A k \in Holders(g) : lib[k].closes < 2
  <2> SUFFICES ASSUME NEW k \in Holders(g) PROVE lib[k].closes < 2
    OBVIOUS
  <2>1. k \in Holders(g)'
    BY <1>2 DEF Holders
  <2>2. lib'[k].closes < 2
    BY <1>3, <2>1
  <2> QED  BY <1>2, <1>4, <2>2 DEF Holders
<1>6. loads[g] = Cardinality(Unclosed(g))
  BY <1>5 DEF CountInv
<1>7. CASE g = f
  <2>1. lib[l].closes = 0
    BY <1>2, <1>3, <1>4, <1>7 DEF Holders
  <2>2. Unclosed(g)' = Unclosed(g) \ {l} /\ l \in Unclosed(g)
    BY <1>2, <1>7, <2>1 DEF Unclosed
  <2>3. IsFiniteSet(Unclosed(g))
    BY LibrariesAssumption, FS_Subset DEF Unclosed
  <2>4. Cardinality(Unclosed(g)') = Cardinality(Unclosed(g)) - 1
    BY <2>2, <2>3, FS_RemoveElement
  <2>5. loads[g] # 0
    BY <1>6, <2>2, <2>3, FS_EmptySet
  <2> QED  BY <1>1, <1>6, <1>7, <2>4, <2>5 DEF Unloaded, LibInv, Types
<1>8. CASE g # f
  <2>1. Unclosed(g)' = Unclosed(g)
    BY <1>2, <1>8 DEF Unclosed
  <2> QED  BY <1>1, <1>6, <1>8, <2>1 DEF Unloaded, LibInv, Types
<1> QED  BY <1>7, <1>8

-----------------------------------------------------------------------------
LEMMA InitCounts == LibInit => CountInv
<1> SUFFICES ASSUME LibInit, NEW f \in Files PROVE loads[f] = Cardinality(Unclosed(f))
  BY DEF CountInv
<1>1. Unclosed(f) = {}
  BY DEF LibInit, Unclosed, NewLibrary
<1> QED  BY <1>1, FS_EmptySet DEF LibInit

LEMMA NextKeeps == ASSUME LibInv, CountInv, [LibNext]_libVars PROVE LibInv' /\ CountInv'
<1>1. CASE UNCHANGED libVars
  BY <1>1 DEF libVars, LibInv, Types, HandleInv, StepInv, ErrorInv, ChainInv, ErrorIsOwn,
              ScriptsFollowed, CountInv, Holders, Unclosed
<1> SUFFICES ASSUME LibNext PROVE LibInv' /\ CountInv'
  BY <1>1
<1> PICK e \in Envs :
      \/ Dlopen(e) \/ OpenError(e) \/ SymbolError(e)
      \/ \E l \in Libraries :
           \/ \E f \in Files : New(e, l, f)
           \/ \E s \in Symbols : Get(e, l, s)
           \/ Close(e, l)
  BY DEF LibNext
<1>2. CASE Dlopen(e)
  BY <1>2, DlopenKeeps, DlopenCounts
<1>3. CASE OpenError(e)
  <2> DEFINE l == step[e].lib
  <2>1. /\ l \in Libraries /\ lib[l].handle = None /\ lib[l].closes = 0
        /\ UNCHANGED loads /\ (UNCHANGED lib \/ lib' = [lib EXCEPT ![l] = NewLibrary])
    BY <1>3 DEF OpenError, LibInv, StepInv, HandleInv
  <2>2. \A k \in Libraries : lib'[k].handle = lib[k].handle /\ lib'[k].closes = lib[k].closes
    BY <2>1 DEF LibInv, Types, NewLibrary
  <2> QED  BY <1>3, <2>1, <2>2, OpenErrorKeeps, CountKept DEF LibInv
<1>4. CASE SymbolError(e)
  BY <1>4, SymbolErrorKeeps, CountKept DEF SymbolError, LibInv
<1>5. ASSUME NEW l \in Libraries, NEW f \in Files, New(e, l, f) PROVE LibInv' /\ CountInv'
  <2>1. \A k \in Libraries : lib'[k].handle = lib[k].handle /\ lib'[k].closes = lib[k].closes
    BY <1>5 DEF New, LibInv, Types, Records
  <2>2. UNCHANGED loads
    BY <1>5 DEF New
  <2> QED  BY <1>5, <2>1, <2>2, NewKeeps, CountKept DEF LibInv
<1>6. ASSUME NEW l \in Libraries, NEW s \in Symbols, Get(e, l, s) PROVE LibInv' /\ CountInv'
  BY <1>6, GetKeeps, CountKept DEF Get, LibInv
<1>7. ASSUME NEW l \in Libraries, Close(e, l) PROVE LibInv' /\ CountInv'
  BY <1>7, CloseKeeps, CloseCounts
<1> QED  BY <1>2, <1>3, <1>4, <1>5, <1>6, <1>7

LEMMA LibInvariant == LibSpec => [](LibInv /\ CountInv)
<1>1. LibInit => LibInv /\ CountInv
  BY InitLibInv, InitCounts
<1>2. LibInv /\ CountInv /\ [LibNext]_libVars => LibInv' /\ CountInv'
  BY NextKeeps
<1> QED  BY <1>1, <1>2, PTL DEF LibSpec

\* An exception of DynamicLibrary is about the file that its own thread failed
\* with (except on Windows), however the environments interleave.
THEOREM OwnErrors == LibSpec => []ErrorIsOwn
<1>1. LibInv => ErrorIsOwn
  BY DEF LibInv
<1> QED  BY <1>1, LibInvariant, PTL

\* The constructor opens the file it was asked for or the object that followable
\* scripts lead to from there, and otherwise throws about the first file on this
\* way that neither opens nor leads on (except on Windows), for any files,
\* chains of scripts and environments.
THEOREM ScriptsAreFollowed == LibSpec => []ScriptsFollowed
<1>1. LibInv => ScriptsFollowed
  BY DEF LibInv
<1> QED  BY <1>1, LibInvariant, PTL

\* What Library and get() gave out stays loaded until close(), as long as no
\* object of the same file is closed twice.
THEOREM FunctionsMapped == LibSpec => []FunctionsStayMapped
<1>1. LibInv /\ CountInv => FunctionsStayMapped
  <2> SUFFICES ASSUME LibInv, CountInv, NEW l \in Libraries,
                      functions[l] # {}, lib[l].closes = 0,
                      \A k \in Libraries : lib[k].handle = lib[l].handle => lib[k].closes < 2
               PROVE  loads[lib[l].handle] > 0
    BY DEF FunctionsStayMapped
  <2> DEFINE f == lib[l].handle
  <2>1. f \in Files
    BY DEF LibInv, HandleInv, Types
  <2>2. loads[f] = Cardinality(Unclosed(f))
    BY <2>1 DEF CountInv, Holders
  <2>3. l \in Unclosed(f) /\ IsFiniteSet(Unclosed(f))
    BY LibrariesAssumption, FS_Subset DEF Unclosed
  <2> QED  BY <2>1, <2>2, <2>3, FS_EmptySet DEF LibInv, Types
<1> QED  BY <1>1, LibInvariant, PTL

-----------------------------------------------------------------------------
(* The loader's counts are bounded by the number of objects.               *)

\* Every opening of a file that is still counted belongs to an object.
LoadsInv == \A f \in Files : loads[f] <= Cardinality(Holders(f))

\* Steps that change no handle and open nothing.
LEMMA LoadsKept ==
  ASSUME LibInv, LoadsInv, \A f \in Files : loads'[f] \in Nat /\ loads'[f] <= loads[f],
         \A l \in Libraries : lib'[l].handle = lib[l].handle
  PROVE  LoadsInv'
<1> SUFFICES ASSUME NEW f \in Files  PROVE loads'[f] <= Cardinality(Holders(f)')
  BY DEF LoadsInv
<1>1. Holders(f)' = Holders(f)
  BY DEF Holders
<1>2. Cardinality(Holders(f)) \in Nat
  BY LibrariesAssumption, FS_Subset, FS_CardinalityType DEF Holders
<1> QED  BY <1>1, <1>2 DEF LoadsInv, LibInv, Types

\* dlopen counts the object for the DynamicLibrary that is being made.
LEMMA DlopenLoads == ASSUME LibInv, LoadsInv, NEW e \in Envs, Dlopen(e) PROVE LoadsInv'
<1> DEFINE l == step[e].lib
           f == step[e].file
<1>1. l \in Libraries /\ f \in Files /\ lib[l].handle = None
  BY DEF Dlopen, LibInv, StepInv, HandleInv
<1>2. CASE Kind(f) # "object"
  BY <1>2, LoadsKept DEF Dlopen, LibInv, Types
<1>3. CASE Kind(f) = "object"
  <2>1. /\ loads' = [loads EXCEPT ![f] = @ + 1]
        /\ lib' = [lib EXCEPT ![l] = [@ EXCEPT !.state = "open", !.handle = f]]
    BY <1>3 DEF Dlopen
  <2>2. lib'[l].handle = f /\ \A k \in Libraries \ {l} : lib'[k] = lib[k]
    BY <1>1, <2>1 DEF LibInv, Types, Records
  <2> SUFFICES ASSUME NEW g \in Files  PROVE loads'[g] <= Cardinality(Holders(g)')
    BY DEF LoadsInv
  <2>3. IsFiniteSet(Holders(g)) /\ Cardinality(Holders(g)) \in Nat
    BY LibrariesAssumption, FS_Subset, FS_CardinalityType DEF Holders
  <2>4. loads[g] \in Nat /\ loads[g] <= Cardinality(Holders(g))
    BY DEF LoadsInv, LibInv, Types
  <2>5. CASE g = f
    <3>1. Holders(g)' = Holders(g) \cup {l} /\ l \notin Holders(g)
      BY <1>1, <2>2, <2>5 DEF Holders
    <3>2. Cardinality(Holders(g)') = Cardinality(Holders(g)) + 1
      BY <2>3, <3>1, FS_AddElement
    <3>3. loads'[g] = loads[g] + 1
      BY <2>1, <2>5 DEF LibInv, Types
    <3> QED  BY <2>3, <2>4, <3>2, <3>3
  <2>6. CASE g # f
    <3>1. Holders(g)' = Holders(g)
      BY <1>1, <2>2, <2>6 DEF Holders
    <3>2. loads'[g] = loads[g]
      BY <2>1, <2>6 DEF LibInv, Types
    <3> QED  BY <2>4, <3>1, <3>2
  <2> QED  BY <2>5, <2>6
<1> QED  BY <1>2, <1>3

LEMMA NextLoads == ASSUME LibInv, LoadsInv, [LibNext]_libVars PROVE LoadsInv'
<1>1. \A f \in Files : loads[f] \in Nat
  BY DEF LibInv, Types
<1>2. CASE UNCHANGED libVars
  BY <1>1, <1>2, LoadsKept DEF libVars
<1> SUFFICES ASSUME LibNext PROVE LoadsInv'
  BY <1>2
<1> PICK e \in Envs :
      \/ Dlopen(e) \/ OpenError(e) \/ SymbolError(e)
      \/ \E l \in Libraries :
           \/ \E f \in Files : New(e, l, f)
           \/ \E s \in Symbols : Get(e, l, s)
           \/ Close(e, l)
  BY DEF LibNext
<1>3. CASE Dlopen(e)
  BY <1>3, DlopenLoads
<1>4. CASE OpenError(e)
  <2> DEFINE l == step[e].lib
  <2>1. /\ l \in Libraries /\ lib[l].handle = None
        /\ UNCHANGED loads /\ (UNCHANGED lib \/ lib' = [lib EXCEPT ![l] = NewLibrary])
    BY <1>4 DEF OpenError, LibInv, StepInv, HandleInv
  <2>2. \A k \in Libraries : lib'[k].handle = lib[k].handle
    BY <2>1 DEF LibInv, Types, NewLibrary
  <2> QED  BY <1>1, <2>1, <2>2, LoadsKept
<1>5. CASE SymbolError(e)
  BY <1>1, <1>5, LoadsKept DEF SymbolError
<1>6. ASSUME NEW l \in Libraries, NEW f \in Files, New(e, l, f) PROVE LoadsInv'
  <2>1. UNCHANGED loads /\ \A k \in Libraries : lib'[k].handle = lib[k].handle
    BY <1>6 DEF New, LibInv, Types, Records
  <2> QED  BY <1>1, <2>1, LoadsKept
<1>7. ASSUME NEW l \in Libraries, NEW s \in Symbols, Get(e, l, s) PROVE LoadsInv'
  BY <1>1, <1>7, LoadsKept DEF Get
<1>8. ASSUME NEW l \in Libraries, Close(e, l) PROVE LoadsInv'
  <2>1. lib' = [lib EXCEPT ![l].closes = @ + 1]
    BY <1>8 DEF Close
  <2>2. \A k \in Libraries : lib'[k].handle = lib[k].handle
    BY <2>1 DEF LibInv, Types, Records
  <2>3. \A f \in Files : loads'[f] \in Nat /\ loads'[f] <= loads[f]
    BY <1>1, <1>8 DEF Close, Unloaded, LibInv, Types
  <2> QED  BY <2>2, <2>3, LoadsKept
<1> QED  BY <1>3, <1>4, <1>5, <1>6, <1>7, <1>8

\* The objects, the loader and the pending errors keep their types, and no file
\* is counted more often than there are objects.
THEOREM LibTypeCorrect == LibSpec => []LibTypeOK
<1>1. LibInit => LoadsInv
  <2> SUFFICES ASSUME LibInit, NEW f \in Files  PROVE loads[f] <= Cardinality(Holders(f))
    BY DEF LoadsInv
  <2>1. Cardinality(Holders(f)) \in Nat
    BY LibrariesAssumption, FS_Subset, FS_CardinalityType DEF Holders
  <2> QED  BY <2>1 DEF LibInit
<1>2. LibInv /\ LoadsInv /\ [LibNext]_libVars => LoadsInv'
  BY NextLoads
<1>3. LibInv /\ LoadsInv => LibTypeOK
  <2> SUFFICES ASSUME LibInv, LoadsInv  PROVE LibTypeOK
    OBVIOUS
  <2>1. ASSUME NEW f \in Files  PROVE loads[f] \in 0..Cardinality(Libraries)
    <3>1. /\ Cardinality(Holders(f)) \in Nat /\ Cardinality(Libraries) \in Nat
          /\ Cardinality(Holders(f)) <= Cardinality(Libraries)
      BY LibrariesAssumption, FS_Subset, FS_CardinalityType DEF Holders
    <3> QED  BY <3>1 DEF LoadsInv, LibInv, Types
  <2> QED  BY <2>1 DEF LibInv, Types, Records, LibTypeOK
<1> QED  BY <1>1, <1>2, <1>3, LibInvariant, PTL DEF LibSpec

-----------------------------------------------------------------------------
(* The two modules side by side.                                           *)

\* A behaviour of the instance is one of each module, stuttering where the other
\* takes a step.
THEOREM BothModules == Spec => VariadicSpec /\ LibSpec
<1>1. Init => VariadicInit /\ LibInit
  BY DEF Init
<1>2. [Next]_<<variadicVars, libVars, focus>> => [VariadicNext]_variadicVars /\ [LibNext]_libVars
  BY DEF Next
<1> QED  BY <1>1, <1>2, PTL DEF Spec, VariadicSpec, LibSpec

\* Every variable of both keeps its type.
THEOREM BothTypeCorrect == Spec => []TypeOK
<1>1. VariadicTypeOK /\ LibTypeOK => TypeOK
  BY DEF TypeOK
<1> QED  BY <1>1, BothModules, VariadicTypeCorrect, LibTypeCorrect, PTL
===============================================================================
