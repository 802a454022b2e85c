-------------------------- MODULE TypedMemoryProofs --------------------------
(* Theorems about TypedMemory, for every host, layout, byte size and input. *)
EXTENDS TypedMemory, RecursionTheorems, FiniteSetTheorems, TLAPS

-----------------------------------------------------------------------------
(* Division of integers.                                                   *)

\* Quotient and remainder.
LEMMA DivisionIs ==
  ASSUME NEW n \in Int, NEW a \in Nat \ {0}
  PROVE  n \div a \in Int /\ n % a \in 0..a - 1 /\ n = (n \div a) * a + (n % a)
<1>1. n \div a \in Int
  OBVIOUS
<1>2. n % a \in 0..a - 1
  OBVIOUS
<1>3. n = (n \div a) * a + (n % a)
  OBVIOUS
<1> QED  BY <1>1, <1>2, <1>3

\* No multiple of a lies between -a and a but 0.
LEMMA MultipleBelow ==
  ASSUME NEW k \in Int, NEW a \in Nat \ {0}, k * a < a, -a < k * a
  PROVE  k = 0
<1>1. CASE k >= 1
  <2>1. k * a >= a
    BY <1>1
  <2> QED  BY <2>1
<1>2. CASE k <= -1
  <2>1. k * a <= -a
    BY <1>2
  <2> QED  BY <2>1
<1> QED  BY <1>1, <1>2

\* There is one quotient and one remainder.
LEMMA DivisionIsUnique ==
  ASSUME NEW a \in Nat \ {0}, NEW q \in Int, NEW r \in 0..a - 1
  PROVE  (q * a + r) \div a = q /\ (q * a + r) % a = r
<1> DEFINE n == q * a + r
           p == n \div a
           s == n % a
<1>1. n \in Int /\ q * a \in Int
  OBVIOUS
<1>2. p \in Int /\ s \in 0..a - 1 /\ n = p * a + s
  <2> HIDE DEF n
  <2> QED  BY <1>1, DivisionIs
<1>3. p * a \in Int /\ (q - p) * a = q * a - p * a
  <2> HIDE DEF p
  <2> QED  BY <1>2
<1>4. (q - p) * a = s - r
  <2> HIDE DEF p, s
  <2> QED  BY <1>1, <1>2, <1>3
<1>5. q - p = 0
  <2> HIDE DEF p, s
  <2> DEFINE k == q - p
  <2>1. k \in Int /\ k * a < a /\ -a < k * a
    BY <1>2, <1>4
  <2> HIDE DEF k
  <2>2. k = 0
    BY <2>1, MultipleBelow
  <2> QED  BY <2>2 DEF k
<1> HIDE DEF p, s
<1>6. p = q /\ s = r
  BY <1>2, <1>4, <1>5
<1> QED  BY <1>6 DEF p, s, n

\* Dividing twice is dividing once by the product, and the remainders make one.
LEMMA DivisionTwice ==
  ASSUME NEW n \in Int, NEW a \in Nat \ {0}, NEW b \in Nat \ {0}
  PROVE  /\ a * b \in Nat \ {0}
         /\ (n \div a) \div b = n \div (a * b)
         /\ n % (a * b) = ((n \div a) % b) * a + (n % a)
<1> DEFINE q == n \div a  r == n % a  p == q \div b  s == q % b  c == a * b
           t == s * a + r
<1>1. q \in Int /\ r \in 0..a - 1 /\ n = q * a + r
  BY DivisionIs
<1>2. p \in Int /\ s \in 0..b - 1 /\ q = p * b + s
  <2> HIDE DEF q
  <2> QED  BY <1>1, DivisionIs
<1>3. c \in Nat \ {0}
  OBVIOUS
<1>4. t \in 0..c - 1
  <2> HIDE DEF s, r
  <2>1. s * a \in Nat /\ s + 1 <= b /\ (s + 1) * a = s * a + a
    BY <1>2
  <2>2. (s + 1) * a <= b * a /\ b * a = c
    BY <1>2
  <2> HIDE DEF c
  <2> DEFINE sa == s * a
  <2> HIDE DEF sa
  <2>3. sa \in Nat /\ sa + a <= c
    BY <2>1, <2>2, <1>3 DEF sa
  <2> QED  BY <2>3, <1>1, <1>3 DEF sa
<1>5. n = p * c + t
  <2> HIDE DEF q, r, p, s
  <2>1. n = (p * b + s) * a + r
    BY <1>1, <1>2
  <2>2. (p * b + s) * a = p * (a * b) + s * a
    BY <1>2
  <2> QED  BY <1>1, <1>2, <2>1, <2>2
<1> HIDE DEF c, t, p
<1>6. n \div c = p /\ n % c = t
  BY <1>2, <1>3, <1>4, <1>5, DivisionIsUnique
<1>7. a * b = c /\ (n \div a) \div b = p /\ ((n \div a) % b) * a + (n % a) = t
  BY DEF c, t, p
<1> QED  BY <1>3, <1>6, <1>7

-----------------------------------------------------------------------------
(* Weights of bytes.                                                       *)

\* A byte has an even number of values.
LEMMA BytesAre ==
  /\ ByteValues \in Nat \ {0} /\ ByteValues \div 2 \in Nat \ {0}
  /\ ByteValues = 2 * (ByteValues \div 2)
BY ByteValuesAssumption

\* The powers of b, as a recursive function.
PowersOf(f, b, n) ==
  /\ f[0] = 1
  /\ \A i \in 0..n : f[i] \in Nat \ {0}
  /\ \A i \in 1..n : f[i] = f[i - 1] * b

\* Such a function exists, and has positive values.
LEMMA PowersAre ==
  ASSUME NEW n \in Nat, NEW b \in Nat \ {0}, NEW f,
         f = CHOOSE g : g = [i \in 0..n |-> IF i = 0 THEN 1 ELSE g[i - 1] * b]
  PROVE  PowersOf(f, b, n)
<1> DEFINE T == Nat \ {0}
           Body(g) == [i \in 0..n |-> IF i = 0 THEN 1 ELSE g[i - 1] * b]
           D == [x \in (1..n) \X T |-> x[2] * b]
<1>1. f = CHOOSE g : g = Body(g)
  OBVIOUS
<1>2. b \in T /\ 1 \in T
  OBVIOUS
<1>3. \A x \in T : x * b \in T
  OBVIOUS
<1>4. \A g : Body(g) = [i \in 0..n |-> IF i = 0 THEN 1 ELSE g[i - 1] * b]
  OBVIOUS
<1> HIDE DEF T, Body
<1>5. D \in [(1..n) \X T -> T] /\ \A i \in 1..n : \A x \in T : D[<<i, x>>] = x * b
  BY <1>3
<1> HIDE DEF D
<1>6. PICK g : StepFunction(g, n, T, 1, D)
  <2>1. StepData(n, T, 1, D)
    BY <1>2, <1>5 DEF StepData
  <2> QED  BY <2>1, StepRecursion
<1>7. g = Body(g)
  <2> USE <1>6 DEF StepFunction
  <2>1. ASSUME NEW i \in 0..n  PROVE g[i] = IF i = 0 THEN 1 ELSE g[i - 1] * b
    <3>1. CASE i # 0
      <4>1. i \in 1..n /\ i - 1 \in 0..n
        BY <3>1
      <4> QED  BY <1>5, <3>1, <4>1
    <3> QED  BY <3>1
  <2>2. g = [i \in 0..n |-> g[i]]
    OBVIOUS
  <2> QED  BY <1>4, <2>1, <2>2
<1>8. f = Body(f)
  BY <1>1, <1>7
<1>9. f[0] = 1 /\ \A i \in 1..n : f[i] = f[i - 1] * b
  <2>1. f = [i \in 0..n |-> IF i = 0 THEN 1 ELSE f[i - 1] * b]
    BY <1>4, <1>8, Zenon
  <2>2. 0 \in 0..n /\ \A i \in 1..n : i \in 0..n /\ i # 0
    OBVIOUS
  <2>3. \A i \in 0..n : f[i] = IF i = 0 THEN 1 ELSE f[i - 1] * b
    BY <2>1, Zenon
  <2> QED  BY <2>2, <2>3
<1> DEFINE S == {i \in 0..n : f[i] \in T}
<1>10. 0..n \subseteq S
  <2>1. 0 \in S
    BY <1>2, <1>9
  <2>2. ASSUME NEW i \in 0..n - 1, i \in S  PROVE i + 1 \in S
    <3>1. i + 1 \in 1..n /\ (i + 1) - 1 = i /\ i + 1 \in 0..n
      OBVIOUS
    <3>2. f[i + 1] = f[i] * b
      BY <1>9, <3>1
    <3> QED  BY <1>3, <2>2, <3>1, <3>2
  <2> HIDE DEF S
  <2>3. 0 \in Nat
    OBVIOUS
  <2> QED  BY <2>1, <2>2, <2>3, RangeInduction
<1> QED  BY <1>9, <1>10 DEF T, PowersOf

\* Weights are powers of the number of values of a byte.
LEMMA WeightIs ==
  /\ Weight[0] = 1
  /\ \A i \in 0..8 : Weight[i] \in Nat \ {0}
  /\ \A i \in 1..8 : Weight[i] = Weight[i - 1] * ByteValues
<1> DEFINE f == Weight  b == ByteValues
<1>1. f = CHOOSE g : g = [i \in 0..8 |-> IF i = 0 THEN 1 ELSE g[i - 1] * b]
  BY DEF Weight
<1>2. b \in Nat \ {0} /\ 8 \in Nat
  BY BytesAre
<1> HIDE DEF f, b
<1>3. PowersOf(f, b, 8)
  BY <1>1, <1>2, PowersAre
<1> QED  BY <1>3 DEF PowersOf, f, b

\* Four bytes have more values than any width or count of bytes in use.
LEMMA FourBytesAre == Weight[4] \in Nat /\ Weight[4] >= 16
<1> DEFINE x == Weight[1]  y == Weight[2]  z == Weight[3]  B == ByteValues
<1>1. /\ Weight[4] = z * B /\ z = y * B /\ y = x * B /\ x = 1 * B
      /\ x \in Nat /\ y \in Nat /\ z \in Nat
  <2>1. /\ 1 - 1 = 0 /\ 2 - 1 = 1 /\ 3 - 1 = 2 /\ 4 - 1 = 3
        /\ 1 \in 1..8 /\ 2 \in 1..8 /\ 3 \in 1..8 /\ 4 \in 1..8
        /\ 1 \in 0..8 /\ 2 \in 0..8 /\ 3 \in 0..8
    OBVIOUS
  <2>2. \A k \in 1..8 : Weight[k] = Weight[k - 1] * B
    BY WeightIs
  <2>3. Weight[0] = 1 /\ \A k \in 0..8 : Weight[k] \in Nat
    BY WeightIs
  <2> HIDE DEF B
  <2> QED  BY <2>1, <2>2, <2>3
<1>2. B \in Nat /\ B >= 2
  BY ByteValuesAssumption
<1> HIDE DEF B, x, y, z
<1>3. x >= 2
  BY <1>1, <1>2
<1>4. y >= 2 * x
  BY <1>1, <1>2
<1>5. z >= 2 * y
  BY <1>1, <1>2
<1>6. z * B >= 2 * z /\ z * B \in Nat
  BY <1>1, <1>2
<1> QED  BY <1>1, <1>3, <1>4, <1>5, <1>6

\* Half of the values of w bytes are the negative ones of a signed type.
LEMMA HalfIs ==
  ASSUME NEW w \in 1..8
  PROVE  Half(w) \in Nat \ {0} /\ Weight[w] = 2 * Half(w)
<1> DEFINE h == ByteValues \div 2  v == Weight[w - 1]  x == v * h
<1>1. h \in Nat \ {0} /\ v \in Nat \ {0} /\ Weight[w] = v * (2 * h)
  <2>1. w - 1 \in 0..8
    OBVIOUS
  <2> QED  BY <2>1, WeightIs, BytesAre
<1> HIDE DEF h, v
<1>2. x \in Nat \ {0} /\ v * (2 * h) = 2 * x
  BY <1>1
<1> HIDE DEF x
<1>3. (2 * x) \div 2 = x
  BY <1>2
<1> QED  BY <1>1, <1>2, <1>3 DEF Half

\* Integers of a width come back from the value of their bytes.
LEMMA SignIs ==
  ASSUME NEW n \in Int, NEW w \in 1..8, NEW u \in BOOLEAN, InRange(n, w, u)
  PROVE  IF u THEN n % Weight[w] = n ELSE Signed(n % Weight[w], w) = n
<1> DEFINE a == Weight[w]  h == Half(w)
<1>1. h \in Nat \ {0} /\ a = 2 * h /\ a \in Nat \ {0}
  BY HalfIs
<1>2. IF u THEN n \in 0..a - 1 ELSE n \in -h..h - 1
  BY <1>1 DEF InRange, MinInt, MaxInt
<1> HIDE DEF a, h
<1>3. CASE n >= 0
  <2>1. n \in 0..a - 1
    BY <1>1, <1>2, <1>3
  <2>2. (0 * a + n) % a = n
    BY <1>1, <2>1, DivisionIsUnique
  <2>3. n % a = n
    BY <1>1, <2>2
  <2>4. ~u => ~(n >= h)
    BY <1>1, <1>2
  <2> QED  BY <2>3, <2>4 DEF a, h, Signed
<1>4. CASE n < 0
  <2>1. ~u /\ n + a \in 0..a - 1 /\ n + a >= h /\ -1 \in Int
    BY <1>1, <1>2, <1>4
  <2> DEFINE m == n + a
  <2>2. ((-1) * a + m) % a = m
    <3> HIDE DEF m
    <3> QED  BY <1>1, <2>1, DivisionIsUnique DEF m
  <2>3. n % a = n + a
    BY <1>1, <2>2
  <2>4. Signed(m, w) = n
    <3>1. m >= Half(w) /\ m - 2 * Half(w) = n
      BY <1>1, <1>4, <2>1 DEF h
    <3> HIDE DEF m
    <3> QED  BY <3>1 DEF Signed
  <2> QED  BY <1>1, <2>1, <2>3, <2>4 DEF a
<1> QED  BY <1>3, <1>4

-----------------------------------------------------------------------------
(* Powers of two.                                                          *)

\* Both formats fit in the numbers of the model.
LEMMA BitsAre ==
  /\ NumberBits \in Nat /\ NumberBits >= 2
  /\ IsFormat(4, FloatBits) /\ IsFormat(8, DoubleBits)
BY FormatAssumption DEF IsFormat

\* Power[i] is the i-th power of two.
LEMMA PowerIs ==
  /\ Power[0] = 1
  /\ \A i \in 0..NumberBits + 1 : Power[i] \in Nat \ {0}
  /\ \A i \in 1..NumberBits + 1 : Power[i] = 2 * Power[i - 1]
<1> DEFINE f == Power  n == NumberBits + 1
<1>1. f = CHOOSE g : g = [i \in 0..n |-> IF i = 0 THEN 1 ELSE g[i - 1] * 2]
  BY DEF Power
<1>2. n \in Nat /\ 2 \in Nat \ {0}
  BY BitsAre
<1> HIDE DEF f, n
<1>3. PowersOf(f, 2, n)
  BY <1>1, <1>2, PowersAre
<1>4. \A i \in 1..n : f[i] = 2 * f[i - 1]
  <2> SUFFICES ASSUME NEW i \in 1..n  PROVE f[i] = 2 * f[i - 1]
    OBVIOUS
  <2>1. i - 1 \in 0..n
    BY <1>2
  <2>2. f[i] = f[i - 1] * 2 /\ f[i - 1] \in Nat
    BY <1>3, <2>1 DEF PowersOf
  <2> QED  BY <2>2
<1> QED  BY <1>3, <1>4 DEF PowersOf, f, n

\* Powers multiply by adding their exponents, and grow with them.
LEMMA PowerSum ==
  ASSUME NEW i \in Nat, NEW j \in Nat, i + j <= NumberBits + 1
  PROVE  Power[i + j] = Power[i] * Power[j]
<1> DEFINE n == NumberBits + 1
           S == {k \in 0..j : Power[i + k] = Power[i] * Power[k]}
<1>1. n \in Nat
  BY BitsAre
<1>2. /\ Power[0] = 1 /\ \A k \in 0..n : Power[k] \in Nat \ {0}
      /\ \A k \in 1..n : Power[k] = 2 * Power[k - 1]
  BY PowerIs
<1> HIDE DEF n
<1>3. i \in 0..n /\ j \in 0..n
  BY <1>1 DEF n
<1>4. 0 \in S
  BY <1>2, <1>3
<1>5. ASSUME NEW k \in 0..j - 1, k \in S  PROVE k + 1 \in S
  <2>1. /\ k + 1 \in 1..n /\ (k + 1) - 1 = k /\ i + (k + 1) \in 1..n
        /\ i + (k + 1) - 1 = i + k /\ k \in 0..n /\ k + 1 \in 0..j
    BY <1>1, <1>3 DEF n
  <2>2. Power[k + 1] = 2 * Power[k] /\ Power[i + (k + 1)] = 2 * Power[i + k]
    BY <1>2, <2>1
  <2>3. Power[i + k] = Power[i] * Power[k] /\ Power[i] \in Nat /\ Power[k] \in Nat
    BY <1>2, <1>3, <1>5, <2>1
  <2> DEFINE x == Power[i]  y == Power[k]
  <2>4. 2 * (x * y) = x * (2 * y)
    <3> HIDE DEF x, y
    <3>1. x \in Nat /\ y \in Nat
      BY <2>3 DEF x, y
    <3> QED  BY <3>1
  <2> QED  BY <2>1, <2>2, <2>3, <2>4
<1> HIDE DEF S
<1>6. 0 \in Nat
  OBVIOUS
<1>7. 0..j \subseteq S
  BY <1>4, <1>5, <1>6, RangeInduction
<1> QED  BY <1>7 DEF S

\* A larger exponent at least doubles the power.
LEMMA PowerGrows ==
  ASSUME NEW i \in 0..NumberBits + 1, NEW j \in i..NumberBits + 1
  PROVE  Power[i] <= Power[j] /\ (i # j => 2 * Power[i] <= Power[j])
<1> DEFINE d == j - i
<1>1. NumberBits \in Nat
  BY BitsAre
<1>2. d \in 0..NumberBits + 1 /\ i + d = j /\ (i # j => d \in 1..NumberBits + 1)
      /\ i \in Nat /\ d \in Nat /\ i + d <= NumberBits + 1
  BY <1>1
<1> HIDE DEF d
<1>3. Power[j] = Power[i] * Power[d] /\ Power[i] \in Nat /\ Power[d] \in Nat \ {0}
  <2>1. Power[i + d] = Power[i] * Power[d]
    BY <1>2, PowerSum
  <2> QED  BY <1>2, <2>1, PowerIs
<1>4. i # j => Power[d] >= 2
  <2> SUFFICES ASSUME i # j  PROVE Power[d] >= 2
    OBVIOUS
  <2>1. Power[d] = 2 * Power[d - 1]
    BY <1>2, PowerIs
  <2>2. d - 1 \in 0..NumberBits + 1
    BY <1>1, <1>2
  <2>3. Power[d - 1] \in Nat \ {0}
    BY <2>2, PowerIs
  <2> QED  BY <2>1, <2>3
<1> DEFINE x == Power[i]  y == Power[d]
<1> HIDE DEF x, y
<1>5. x \in Nat /\ y \in Nat /\ y >= 1 => x <= x * y
  OBVIOUS
<1>6. x \in Nat /\ y \in Nat /\ y >= 2 => 2 * x <= x * y
  OBVIOUS
<1> QED  BY <1>3, <1>4, <1>5, <1>6 DEF x, y

-----------------------------------------------------------------------------
(* Floating point.                                                         *)

\* The exponent is the least one with which p bits are enough.
IsExponent(e, n, p) ==
  /\ e \in 0..NumberBits + 1 - p /\ Abs(n) < Power[p + e]
  /\ \A d \in 0..NumberBits + 1 - p : Abs(n) < Power[p + d] => e <= d

\* Every number in range has an exponent, and Exponent finds it.
LEMMA ExponentIs ==
  ASSUME NEW n \in Int, NEW p \in 2..NumberBits, Abs(n) < Power[NumberBits + 1]
  PROVE  IsExponent(Exponent(n, p), n, p)
<1> DEFINE S == {e \in 0..NumberBits + 1 - p : Abs(n) < Power[p + e]}
<1>1. NumberBits \in Nat
  BY BitsAre
<1>2. S \in SUBSET Nat /\ NumberBits + 1 - p \in S
  <2>1. NumberBits + 1 - p \in 0..NumberBits + 1 - p /\ p + (NumberBits + 1 - p) = NumberBits + 1
    BY <1>1
  <2> QED  BY <1>1, <2>1
<1>3. Exponent(n, p) = Min(S)
  BY DEF Exponent
<1> HIDE DEF S
<1>4. \E x \in S : \A y \in S : x <= y
  BY <1>2, LeastNat
<1>5. Min(S) \in S /\ \A y \in S : Min(S) <= y
  BY <1>4 DEF Min
<1>6. \A d \in 0..NumberBits + 1 - p : Abs(n) < Power[p + d] => d \in S
  BY DEF S
<1>7. Min(S) \in 0..NumberBits + 1 - p /\ Abs(n) < Power[p + Min(S)]
  BY <1>5 DEF S
<1> QED  BY <1>3, <1>5, <1>6, <1>7 DEF IsExponent

\* Absolute values.
LEMMA AbsIs ==
  ASSUME NEW n \in Int
  PROVE  /\ Abs(n) \in Nat /\ (n = 0 <=> Abs(n) = 0)
         /\ n = IF n < 0 THEN -Abs(n) ELSE Abs(n)
         /\ Abs(Abs(n)) = Abs(n) /\ Abs(-n) = Abs(n)
BY DEF Abs

\* n is k units of exponent e, with p bits, the first of which is 1 if e > 0.
Normal(n, e, k, p) ==
  /\ e \in 0..NumberBits + 1 - p /\ k \in 0..Power[p] - 1
  /\ Abs(n) = k * Power[e]
  /\ e > 0 => Power[p - 1] <= k

\* The exponent and the units of a number are unique.
LEMMA NormalIs ==
  ASSUME NEW n \in Int, NEW p \in 2..NumberBits, NEW e, NEW k, Normal(n, e, k, p)
  PROVE  Abs(n) < Power[NumberBits + 1] /\ Exponent(n, p) = e /\ Abs(n) \div Power[e] = k
<1> DEFINE N == NumberBits + 1  a == Abs(n)  u == Power[e]
<1>1. N \in Nat /\ p \in 2..N /\ p - 1 \in 0..N /\ e \in 0..N - p /\ p + e \in 0..N
      /\ p \in 0..N /\ e \in 0..N
  BY BitsAre DEF Normal
<1> HIDE DEF N
<1>2. u \in Nat \ {0} /\ Power[p] \in Nat /\ Power[p - 1] \in Nat
  BY <1>1, PowerIs DEF N
<1>3. k \in 0..Power[p] - 1 /\ a = k * u /\ (e > 0 => Power[p - 1] <= k) /\ a \in Nat
  BY AbsIs DEF Normal
<1>4. Power[p + e] = Power[p] * u
  BY <1>1, PowerSum DEF N
<1>5. a < Power[p + e]
  <2> DEFINE P == Power[p]
  <2>1. P \in Nat /\ k \in 0..P - 1
    BY <1>2, <1>3
  <2> HIDE DEF P, u
  <2>2. k * u < P * u
    BY <1>2, <2>1
  <2> QED  BY <1>3, <1>4, <2>2 DEF P
<1>6. Power[p + e] <= Power[N]
  <2>1. p + e \in 0..NumberBits + 1 /\ N \in p + e..NumberBits + 1 /\ N = NumberBits + 1
    BY <1>1 DEF N
  <2> QED  BY <2>1, PowerGrows
<1>7. a < Power[N]
  <2>1. Power[N] \in Nat /\ Power[p + e] \in Nat
    BY <1>1, PowerIs DEF N
  <2> QED  BY <1>3, <1>5, <1>6, <2>1
<1> DEFINE x == Exponent(n, p)
<1>8. /\ x \in 0..N - p /\ a < Power[p + x]
      /\ \A d \in 0..N - p : a < Power[p + d] => x <= d
  <2>1. IsExponent(x, n, p)
    BY <1>7, ExponentIs DEF N
  <2>2. N - p = NumberBits + 1 - p
    BY BitsAre DEF N
  <2> HIDE DEF x
  <2> QED  BY <2>1, <2>2 DEF IsExponent
<1>9. x <= e
  BY <1>1, <1>5, <1>8
<1> HIDE DEF x, a
<1>10. x >= e
  <2> SUFFICES ASSUME x < e  PROVE FALSE
    BY <1>1, <1>8
  <2>1. e > 0 /\ p + x \in 0..N /\ p - 1 + e \in p + x..N
    BY <1>1, <1>8
  <2>2. Power[p + x] <= Power[p - 1 + e]
    BY <2>1, PowerGrows DEF N
  <2>3. Power[p - 1 + e] = Power[p - 1] * u
    <3>1. p - 1 \in Nat /\ e \in Nat /\ (p - 1) + e <= NumberBits + 1
      BY <1>1 DEF N
    <3> QED  BY <3>1, PowerSum
  <2>4. Power[p - 1] * u <= k * u
    <3> DEFINE P == Power[p - 1]
    <3>1. P \in Nat /\ P <= k
      BY <1>2, <1>3, <2>1
    <3>2. k \in Int
      BY <1>2, <1>3
    <3> HIDE DEF P, u
    <3>3. P * u <= k * u
      BY <1>2, <3>1, <3>2
    <3> QED  BY <3>3 DEF P
  <2>5. Power[p + x] \in Nat /\ Power[p - 1 + e] \in Nat
    <3>1. p - 1 + e \in 0..N
      BY <1>1
    <3> QED  BY <2>1, <3>1, PowerIs DEF N
  <2> QED  BY <1>3, <1>8, <2>2, <2>3, <2>4, <2>5
<1>11. x = e
  BY <1>1, <1>8, <1>9, <1>10
<1>12. a \div u = k
  <2> HIDE DEF u
  <2>1. k \in Int /\ 0 \in 0..u - 1
    BY <1>2, <1>3
  <2>2. (k * u + 0) \div u = k
    BY <1>2, <2>1, DivisionIsUnique
  <2>3. k * u + 0 = k * u
    BY <1>2, <2>1
  <2> QED  BY <1>3, <2>2, <2>3
<1> QED  BY <1>7, <1>11, <1>12 DEF N, a, x

\* Rounding keeps the sign and leaves p bits.
LEMMA RoundIs ==
  ASSUME NEW n \in Int, NEW p \in 2..NumberBits, Abs(n) < Power[NumberBits]
  PROVE  LET r == Round(n, p)
         IN /\ r \in Int /\ (r < 0 <=> n < 0)
            /\ \E e, k : Normal(r, e, k, p)
<1> DEFINE N == NumberBits + 1
           a == Abs(n)
           e == Exponent(n, p)
           u == Power[e]
           q == a \div u
           s == a % u
           up == 2 * s > u \/ (2 * s = u /\ q % 2 = 1)
           k == IF up THEN q + 1 ELSE q
           b == k * u
           r == Round(n, p)
<1>1. N \in Nat /\ p \in 2..N - 1 /\ N = NumberBits + 1 /\ NumberBits \in Nat
  BY BitsAre
<1>2. Power[NumberBits] < Power[N]
  <2>1. NumberBits \in 0..NumberBits + 1 /\ N \in NumberBits..NumberBits + 1 /\ NumberBits # N
    BY BitsAre
  <2>2. 2 * Power[NumberBits] <= Power[N]
    BY <2>1, PowerGrows
  <2>3. Power[NumberBits] \in Nat \ {0} /\ Power[N] \in Nat
    BY <2>1, PowerIs
  <2> QED  BY <2>2, <2>3
<1>3. a \in Nat /\ a < Power[N]
  <2>1. Power[NumberBits] \in Nat /\ Power[N] \in Nat
    <3>1. NumberBits \in 0..NumberBits + 1 /\ N \in 0..NumberBits + 1
      BY BitsAre
    <3> QED  BY <3>1, PowerIs
  <2> QED  BY <1>2, <2>1, AbsIs
<1>4. /\ e \in 0..N - p /\ a < Power[p + e]
      /\ \A d \in 0..N - p : a < Power[p + d] => e <= d
  <2>1. IsExponent(e, n, p)
    BY <1>3, ExponentIs
  <2>2. N - p = NumberBits + 1 - p
    BY <1>1
  <2> HIDE DEF e
  <2> QED  BY <2>1, <2>2 DEF IsExponent
<1>5. r = IF n < 0 THEN -b ELSE b
  BY DEF Round
<1> HIDE DEF N, a, e
<1>6. /\ u \in Nat \ {0} /\ Power[p] \in Nat \ {0} /\ Power[p - 1] \in Nat \ {0}
      /\ Power[p] = 2 * Power[p - 1]
      /\ Power[p + e] = Power[p] * u
      /\ (e > 0 => Power[p + (e - 1)] = Power[p - 1] * u)
      /\ e \in Nat
  <2>1. e \in 0..N /\ p \in 1..N /\ p \in 0..N /\ p - 1 \in 0..N /\ e \in Nat /\ p \in Nat
        /\ p - 1 \in Nat /\ p + e <= N /\ (p - 1) + e <= N /\ p + (e - 1) = (p - 1) + e
    BY <1>1, <1>4
  <2>2. Power[p + e] = Power[p] * u
    BY <1>1, <2>1, PowerSum
  <2>3. Power[(p - 1) + e] = Power[p - 1] * u
    BY <1>1, <2>1, PowerSum
  <2> QED  BY <1>1, <2>1, <2>2, <2>3, PowerIs
<1>7. q \in Int /\ s \in 0..u - 1 /\ a = q * u + s
  <2> HIDE DEF u
  <2>1. a \in Int /\ u \in Nat \ {0}
    BY <1>3, <1>6
  <2> QED  BY <2>1, DivisionIs
<1> DEFINE P == Power[p]  H == Power[p - 1]
<1> HIDE DEF P, H
<1>8. P = 2 * H /\ P \in Nat \ {0} /\ H \in Nat \ {0}
  BY <1>6 DEF P, H
<1>9. q \in 0..P - 1
  <2>1. q * u <= a /\ a < P * u
    <3> HIDE DEF s, q, u
    <3>1. q * u \in Int
      BY <1>6, <1>7
    <3> QED  BY <1>4, <1>6, <1>7, <3>1 DEF P
  <2>2. q < P
    <3> HIDE DEF q, u
    <3> SUFFICES ASSUME q >= P  PROVE FALSE
      BY <1>7, <1>8
    <3>1. q * u >= P * u
      BY <1>6, <1>7, <1>8
    <3>2. q * u \in Int /\ P * u \in Int
      BY <1>6, <1>7, <1>8
    <3> QED  BY <1>3, <2>1, <3>1, <3>2
  <2>3. q >= 0
    <3> HIDE DEF q, u, s
    <3> SUFFICES ASSUME q <= -1  PROVE FALSE
      BY <1>7
    <3>1. q * u <= (-1) * u
      BY <1>6, <1>7
    <3>2. q * u \in Int /\ (-1) * u = -u
      BY <1>6, <1>7
    <3> QED  BY <1>3, <1>6, <1>7, <3>1, <3>2
  <2> HIDE DEF q
  <2> QED  BY <1>7, <1>8, <2>2, <2>3
<1>10. e > 0 => q >= H
  <2> SUFFICES ASSUME e > 0  PROVE q >= H
    OBVIOUS
  <2>1. e - 1 \in 0..N - p /\ ~(e <= e - 1)
    BY <1>1, <1>4
  <2>2. ~(a < Power[p + (e - 1)])
    BY <1>4, <2>1
  <2>3. a >= H * u
    <3> HIDE DEF u
    <3>1. H * u \in Int /\ Power[p + (e - 1)] = H * u
      BY <1>6, <1>8 DEF H
    <3> QED  BY <1>3, <2>2, <3>1
  <2> HIDE DEF q, u, s
  <2> SUFFICES ASSUME q < H  PROVE FALSE
    BY <1>8, <1>9
  <2>4. (q + 1) * u <= H * u
    BY <1>6, <1>8, <1>9
  <2>5. (q + 1) * u = q * u + u /\ q * u \in Int /\ H * u \in Int
    BY <1>6, <1>8, <1>9
  <2> QED  BY <1>6, <1>7, <2>3, <2>4, <2>5
<1>11. e = 0 => s = 0 /\ u = 1
  <2> SUFFICES ASSUME e = 0  PROVE s = 0 /\ u = 1
    OBVIOUS
  <2>1. u = 1
    BY PowerIs
  <2> QED  BY <1>7, <2>1
<1>12. k \in 0..P /\ (e > 0 => k >= H) /\ (e = 0 => k = q)
  <2> HIDE DEF q, s, u
  <2>1. e = 0 => ~up
    BY <1>11
  <2> HIDE DEF up
  <2> QED  BY <1>8, <1>9, <1>10, <2>1
<1>13. n # 0 => k # 0
  <2> SUFFICES ASSUME n # 0  PROVE k # 0
    OBVIOUS
  <2>1. a # 0
    BY AbsIs DEF a
  <2>2. CASE e > 0
    <3> HIDE DEF k
    <3> QED  BY <1>8, <1>12, <2>2
  <2>3. CASE e = 0
    <3> HIDE DEF q, s, u
    <3>1. q # 0
      BY <1>7, <1>11, <2>1, <2>3
    <3> HIDE DEF k
    <3> QED  BY <1>12, <2>3, <3>1
  <2> QED  BY <1>6, <2>2, <2>3
<1> HIDE DEF k
<1>14. b \in Nat /\ (k # 0 => b # 0)
  <2> HIDE DEF u
  <2>1. k \in Nat
    BY <1>8, <1>12
  <2> QED  BY <1>6, <2>1
<1>15. r \in Int /\ Abs(r) = b /\ (r < 0 <=> n < 0)
  <2> HIDE DEF b, r
  <2> QED  BY <1>5, <1>13, <1>14 DEF Abs
<1>16. CASE k < P
  <2>1. Normal(r, e, k, p)
    <3> HIDE DEF r
    <3>1. k \in 0..P - 1
      BY <1>8, <1>12, <1>16
    <3>2. e \in 0..NumberBits + 1 - p
      BY <1>1, <1>4
    <3>3. Abs(r) = k * Power[e] /\ (e > 0 => H <= k)
      BY <1>8, <1>12, <1>15
    <3> QED  BY <3>1, <3>2, <3>3 DEF Normal, P, H
  <2> QED  BY <1>15, <2>1
<1>17. CASE k = P
  <2>1. p + e <= NumberBits
    <3> SUFFICES ASSUME p + e > NumberBits  PROVE FALSE
      BY <1>1, <1>4
    <3>1. p + e = N /\ e > 0 /\ e - 1 \in 0..N - p /\ p + (e - 1) = NumberBits
      BY <1>1, <1>4
    <3>2. a < Power[p + (e - 1)]
      BY <3>1 DEF a
    <3>3. e <= e - 1
      BY <1>4, <3>1, <3>2
    <3> QED  BY <1>6, <3>3
  <2>2. e + 1 \in 0..NumberBits + 1 - p /\ e + 1 \in 1..NumberBits + 1 /\ (e + 1) - 1 = e
    BY <1>1, <1>6, <2>1
  <2>3. Power[e + 1] = 2 * u
    BY <2>2, PowerIs
  <2>4. b = H * Power[e + 1]
    <3> HIDE DEF u
    <3>1. P * u = H * (2 * u)
      BY <1>6, <1>8
    <3> QED  BY <1>17, <2>3, <3>1
  <2>5. H \in 0..P - 1
    BY <1>8
  <2>6. Normal(r, e + 1, H, p)
    <3> HIDE DEF r, b
    <3> QED  BY <1>15, <2>2, <2>4, <2>5, <1>8 DEF Normal, P, H
  <2> QED  BY <1>15, <2>6
<1> QED  BY <1>8, <1>12, <1>16, <1>17

\* The parts of a format: g values of the fraction, x exponents.
LEMMA FormatIs ==
  ASSUME NEW w \in 1..8, NEW p, IsFormat(w, p)
  PROVE  LET g == Power[p - 1]
             x == Exponents(w, p)
         IN /\ p \in 2..NumberBits /\ NumberBits \in Nat
            /\ g \in Nat /\ g >= 2 /\ Power[p] = 2 * g
            /\ x \in Int /\ x >= 3 /\ p + x - 3 <= NumberBits
            /\ Half(w) = g * x /\ Half(w) \in Nat \ {0} /\ Weight[w] = 2 * Half(w)
            /\ InfinityCode(w, p) = Half(w) - g
<1> DEFINE g == Power[p - 1]  x == Exponents(w, p)
<1>1. /\ p \in 2..NumberBits /\ NumberBits \in Nat /\ Half(w) = g * x /\ x >= 3
      /\ p + x - 3 <= NumberBits
  BY BitsAre DEF IsFormat
<1>2. g \in Nat \ {0} /\ Power[p] = 2 * g /\ 2 * Power[0] <= g /\ Power[0] = 1
  <2>1. p - 1 \in 0..NumberBits + 1 /\ p \in 1..NumberBits + 1 /\ 0 \in 0..NumberBits + 1
        /\ p - 1 \in 0..NumberBits + 1 /\ 0 # p - 1
    BY <1>1
  <2>2. 2 * Power[0] <= Power[p - 1]
    BY <2>1, PowerGrows
  <2> QED  BY <2>1, <2>2, PowerIs
<1>3. Half(w) \in Nat \ {0} /\ Weight[w] = 2 * Half(w)
  BY HalfIs
<1>4. x \in Int
  <2> DEFINE h == Half(w)
  <2>1. x = h \div g
    BY DEF Exponents
  <2> HIDE DEF h, g, x
  <2>2. h \div g \in Int
    BY <1>2, <1>3, DivisionIs DEF h
  <2> QED  BY <2>1, <2>2
<1>5. InfinityCode(w, p) = Half(w) - g
  <2>1. InfinityCode(w, p) = g * (x - 1)
    BY DEF InfinityCode
  <2> HIDE DEF g, x
  <2>2. g * (x - 1) = g * x - g
    BY <1>2, <1>4
  <2> QED  BY <1>1, <2>1, <2>2
<1> QED  BY <1>1, <1>2, <1>3, <1>4, <1>5

\* The code of a normal number is that of Infinity from the limit on; below it
\* the exponent and the fraction come back.
LEMMA CodeIs ==
  ASSUME NEW w \in 1..8, NEW p, IsFormat(w, p), NEW n \in Int, NEW e, NEW k, Normal(n, e, k, p)
  PROVE  LET g == Power[p - 1]
             code == g * e + k
             d == IF code < Power[p] THEN 0 ELSE code \div g - 1
         IN /\ code \in Nat
            /\ code < InfinityCode(w, p) <=> Abs(n) < Power[p + Exponents(w, p) - 3]
            /\ (code - g * d) * Power[d] = Abs(n)
<1> DEFINE g == Power[p - 1]
           x == Exponents(w, p)
           code == g * e + k
           d == IF code < Power[p] THEN 0 ELSE code \div g - 1
           u == Power[e]
           a == Abs(n)
           l == p + x - 3
<1>1. /\ p \in 2..NumberBits /\ NumberBits \in Nat
      /\ g \in Nat /\ g >= 2 /\ Power[p] = 2 * g
      /\ x \in Int /\ x >= 3 /\ l <= NumberBits
      /\ Half(w) = g * x /\ InfinityCode(w, p) = Half(w) - g
  BY FormatIs
<1>2. /\ e \in 0..NumberBits + 1 - p /\ k \in 0..2 * g - 1 /\ a = k * u /\ (e > 0 => g <= k)
  BY <1>1 DEF Normal
<1>3. e \in 0..NumberBits + 1 /\ u \in Nat \ {0} /\ l \in p..NumberBits /\ Power[l] \in Nat
  <2>1. e \in 0..NumberBits + 1
    BY <1>1, <1>2
  <2>2. l \in p..NumberBits
    BY <1>1
  <2> HIDE DEF l
  <2>3. l \in 0..NumberBits + 1
    BY <1>1, <2>2
  <2> QED  BY <2>1, <2>2, <2>3, PowerIs
<1> HIDE DEF x, l
<1>4. CASE e = 0
  <2>1. u = 1 /\ code = k /\ d = 0
    <3>1. u = 1
      BY <1>4, PowerIs
    <3> HIDE DEF u
    <3>2. g * 0 = 0
      <4> HIDE DEF g
      <4> QED  BY <1>1
    <3>3. code = k
      BY <1>2, <1>4, <3>2
    <3> HIDE DEF code
    <3> QED  BY <1>1, <1>2, <3>1, <3>3
  <2>2. a = k /\ k \in Nat /\ k < Power[p]
    <3> HIDE DEF u, g, a
    <3> QED  BY <1>1, <1>2, <2>1
  <2>3. Power[p] <= Power[l] /\ Power[p] \in Nat
    <3>1. p \in 0..NumberBits + 1 /\ l \in p..NumberBits + 1
      BY <1>1, <1>3
    <3> QED  BY <3>1, PowerGrows, PowerIs
  <2>4. k < InfinityCode(w, p)
    <3> HIDE DEF g
    <3>1. g * x >= g * 3
      BY <1>1
    <3> QED  BY <1>1, <1>2, <3>1
  <2>5. a < Power[l]
    BY <1>3, <2>2, <2>3
  <2>6. (code - g * d) * Power[d] = a
    <3> HIDE DEF code, d
    <3>1. g * 0 = 0
      <4> HIDE DEF g
      <4> QED  BY <1>1
    <3>2. Power[d] = 1 /\ g * d = 0
      BY <2>1, <3>1, PowerIs
    <3> QED  BY <2>1, <2>2, <3>2
  <2> HIDE DEF code, d, g, a
  <2> QED  BY <2>1, <2>2, <2>4, <2>5, <2>6 DEF code, d, g, a, x, l
<1>5. CASE e # 0
  <2> DEFINE f == k - g
  <2>1. e \in Nat /\ e >= 1 /\ f \in 0..g - 1 /\ e + 1 \in Int
    <3> HIDE DEF g
    <3> QED  BY <1>1, <1>2, <1>5
  <2>2. code = (e + 1) * g + f /\ code \in Nat
    <3> HIDE DEF g
    <3>1. g * e \in Nat /\ (e + 1) * g = g * e + g
      BY <1>1, <2>1
    <3> QED  BY <1>1, <1>2, <3>1
  <2>3. code \div g = e + 1
    <3> HIDE DEF g, f, code
    <3>1. g \in Nat \ {0}
      BY <1>1
    <3>2. ((e + 1) * g + f) \div g = e + 1
      BY <2>1, <3>1, DivisionIsUnique
    <3> QED  BY <2>2, <3>2
  <2>4. ~(code < Power[p])
    <3> HIDE DEF g, f, code
    <3>1. (e + 1) * g >= 2 * g
      BY <1>1, <2>1
    <3>2. (e + 1) * g \in Nat
      BY <1>1, <2>1
    <3> QED  BY <1>1, <2>1, <2>2, <3>1, <3>2
  <2>5. d = e
    <3> HIDE DEF code, g, f
    <3> QED  BY <2>1, <2>3, <2>4
  <2>6. (code - g * d) * Power[d] = a
    <3>1. code - g * e = k
      <4> HIDE DEF g
      <4>1. g * e \in Int
        BY <1>1, <2>1
      <4> QED  BY <1>2, <4>1
    <3> HIDE DEF d, code
    <3> QED  BY <1>2, <2>5, <3>1
  <2>7. g * u <= a /\ a < 2 * g * u
    <3> HIDE DEF g, u, a
    <3>1. g <= k /\ k < 2 * g /\ k \in Int
      BY <1>1, <1>2, <2>1
    <3>2. g * u <= k * u
      BY <1>1, <1>3, <3>1
    <3>3. k * u < (2 * g) * u
      BY <1>1, <1>3, <3>1
    <3> QED  BY <1>2, <3>2, <3>3
  <2>8. Power[(p - 1) + e] = g * u /\ Power[p + e] = 2 * g * u
    <3>1. p - 1 \in Nat /\ e \in Nat /\ (p - 1) + e <= NumberBits + 1
          /\ p \in Nat /\ p + e <= NumberBits + 1
      BY <1>1, <1>2
    <3>2. Power[(p - 1) + e] = Power[p - 1] * Power[e]
      BY <3>1, PowerSum
    <3>3. Power[p + e] = Power[p] * Power[e]
      BY <3>1, PowerSum
    <3> QED  BY <1>1, <3>2, <3>3
  <2>9. code < InfinityCode(w, p) <=> e < x - 2
    <3> HIDE DEF g, f, code
    <3>1. CASE e < x - 2
      <4>1. (e + 2) * g <= x * g
        BY <1>1, <2>1, <3>1
      <4>2. (e + 2) * g = (e + 1) * g + g /\ x * g = g * x /\ (e + 1) * g \in Int /\ g * x \in Int
        BY <1>1, <2>1
      <4> QED  BY <1>1, <2>1, <2>2, <3>1, <4>1, <4>2
    <3>2. CASE ~(e < x - 2)
      <4>1. (e + 2) * g >= x * g
        BY <1>1, <2>1, <3>2
      <4>2. (e + 2) * g = (e + 1) * g + g /\ x * g = g * x /\ (e + 1) * g \in Int /\ g * x \in Int
        BY <1>1, <2>1
      <4> QED  BY <1>1, <2>1, <2>2, <3>2, <4>1, <4>2
    <3> QED  BY <3>1, <3>2
  <2>10. a < Power[l] <=> e < x - 2
    <3>1. CASE e < x - 2
      <4>1. p + e \in 0..NumberBits + 1 /\ l \in p + e..NumberBits + 1
        BY <1>1, <1>2, <1>3, <2>1, <3>1 DEF l
      <4>2. Power[p + e] <= Power[l] /\ Power[p + e] \in Nat
        BY <4>1, PowerGrows, PowerIs
      <4> QED  BY <1>3, <2>7, <2>8, <3>1, <4>2, AbsIs
    <3>2. CASE ~(e < x - 2)
      <4>1. l \in 0..NumberBits + 1 /\ (p - 1) + e \in l..NumberBits + 1
        BY <1>1, <1>2, <1>3, <2>1, <3>2 DEF l
      <4>2. Power[l] <= Power[(p - 1) + e] /\ Power[(p - 1) + e] \in Nat
        <5>1. (p - 1) + e \in 0..NumberBits + 1
          BY <1>1, <4>1
        <5> QED  BY <4>1, <5>1, PowerGrows, PowerIs
      <4> QED  BY <1>3, <2>7, <2>8, <3>2, <4>2, AbsIs
    <3> QED  BY <3>1, <3>2
  <2> HIDE DEF code, d, g, a
  <2> QED  BY <2>2, <2>6, <2>9, <2>10 DEF code, d, g, a, x, l
<1> QED  BY <1>4, <1>5

\* What WriteFloat gets: a double, NaN or an infinity.
FloatInput(val) ==
  \/ val.t = "number" /\ val.v \in Int /\ Abs(val.v) < Power[NumberBits] /\ val = Num(val.v)
  \/ val = NaN
  \/ val.t = "Infinity" /\ val.v \in {-1, 1} /\ val = [t |-> "Infinity", v |-> val.v]

\* A number below the divisor is its own remainder.
LEMMA SmallRemainder ==
  ASSUME NEW a \in Nat \ {0}, NEW r \in 0..a - 1
  PROVE  r % a = r
<1>1. 0 \in Int /\ 0 * a + r = r
  OBVIOUS
<1>2. (0 * a + r) % a = r
  BY <1>1, DivisionIsUnique
<1> QED  BY <1>1, <1>2

\* The sign and the code of a pattern.
LEMMA PatternIs ==
  ASSUME NEW h \in Nat \ {0}, NEW m \in 0..h - 1, NEW negative \in BOOLEAN
  PROVE  LET q == IF negative THEN h + m ELSE m
         IN q \in 0..2 * h - 1 /\ q % h = m /\ (q >= h <=> negative)
<1>1. (0 * h + m) % h = m /\ (1 * h + m) % h = m
  BY DivisionIsUnique
<1>2. 0 * h + m = m /\ 1 * h + m = h + m
  OBVIOUS
<1> QED  BY <1>1, <1>2

\* The pattern of a float is that of its value: it is read back as it was
\* rounded, with its sign, and NaN and the infinities as themselves.
LEMMA FloatIs ==
  ASSUME NEW w \in 1..8, NEW p, IsFormat(w, p), NEW val, FloatInput(val)
  PROVE  LET q == FloatPattern(val, w, p)
         IN /\ q \in 0..Weight[w] - 1
            /\ FloatValue(q, w, p) = ToFloat(val, w, p)
            /\ ToFloat(val, w, p) \in JsValue
<1> DEFINE h == Half(w)
           g == Power[p - 1]
           inf == InfinityCode(w, p)
           q == FloatPattern(val, w, p)
           v == val.v
<1>1. /\ p \in 2..NumberBits /\ g \in Nat /\ g >= 2 /\ h \in Nat \ {0} /\ Weight[w] = 2 * h
      /\ inf = h - g /\ h = g * Exponents(w, p) /\ Exponents(w, p) \in Int
      /\ Exponents(w, p) >= 3
  BY FormatIs
<1>2. inf \in 0..h - 1 /\ h - 1 \in 0..h - 1 /\ h - 1 > inf
  <2> DEFINE x == Exponents(w, p)
  <2> HIDE DEF g, h, inf, x
  <2>1. g * 3 <= g * x
    BY <1>1 DEF x
  <2> QED  BY <1>1, <2>1 DEF x
<1>3. CASE val = NaN
  <2>1. val.t = "NaN" /\ ~(v < 0)
    BY <1>3 DEF NaN
  <2>2. q = h - 1
    BY <2>1 DEF FloatPattern
  <2>3. q \in 0..2 * h - 1 /\ q % h = h - 1
    <3> DEFINE m == h - 1
    <3>1. h \in Nat \ {0} /\ m \in 0..h - 1 /\ FALSE \in BOOLEAN
      BY <1>1
    <3> HIDE DEF h, q, m
    <3>2. (0 * h + m) % h = m
      BY <3>1, DivisionIsUnique
    <3>3. m \in 0..2 * h - 1 /\ 0 * h + m = m
      BY <3>1
    <3> QED  BY <2>2, <3>2, <3>3 DEF m
  <2>4. FloatValue(q, w, p) = NaN
    <3> HIDE DEF q
    <3> QED  BY <1>2, <2>3 DEF FloatValue
  <2>5. ToFloat(val, w, p) = NaN
    BY <1>3, <2>1 DEF ToFloat
  <2>6. NaN \in JsValue
    BY DEF NaN, JsValue, Kinds
  <2> QED  BY <1>1, <2>3, <2>4, <2>5, <2>6
<1>4. CASE val.t = "Infinity" /\ v \in {-1, 1} /\ val = [t |-> "Infinity", v |-> v]
  <2>1. q = IF v < 0 THEN h + inf ELSE inf
    BY <1>4 DEF FloatPattern
  <2>2. q \in 0..2 * h - 1 /\ q % h = inf /\ (q >= h <=> v < 0)
    <3> DEFINE neg == v < 0
    <3>1. neg \in BOOLEAN
      OBVIOUS
    <3> HIDE DEF h, inf, q, neg
    <3>2. q = IF neg THEN h + inf ELSE inf
      BY <2>1 DEF neg
    <3>3. q \in 0..2 * h - 1 /\ q % h = inf /\ (q >= h <=> neg)
      BY <1>1, <1>2, <3>1, <3>2, PatternIs
    <3> QED  BY <3>3 DEF neg
  <2>3. FloatValue(q, w, p) = [t |-> "Infinity", v |-> v]
    <3>1. v = IF q >= h THEN -1 ELSE 1
      BY <1>4, <2>2
    <3>2. ~(inf > inf)
      BY <1>2
    <3> HIDE DEF q, v
    <3> QED  BY <2>2, <3>1, <3>2 DEF FloatValue
  <2>4. ToFloat(val, w, p) = val
    BY <1>4 DEF ToFloat
  <2>5. val \in JsValue
    BY <1>4 DEF JsValue, Kinds
  <2> QED  BY <1>1, <1>4, <2>2, <2>3, <2>4, <2>5
<1>5. CASE val.t = "number" /\ v \in Int /\ Abs(v) < Power[NumberBits] /\ val = Num(v)
  <2> DEFINE n == Round(v, p)
             code == g * Exponent(n, p) + Abs(n) \div Power[Exponent(n, p)]
             m == IF code > inf THEN inf ELSE code
             limit == Power[p + Exponents(w, p) - 3]
  <2>1. n \in Int /\ (n < 0 <=> v < 0) /\ \E e, k : Normal(n, e, k, p)
    BY <1>1, <1>5, RoundIs
  <2> HIDE DEF n
  <2>2. PICK e, k : Normal(n, e, k, p)
    BY <2>1
  <2>3. Exponent(n, p) = e /\ Abs(n) \div Power[e] = k
    BY <1>1, <2>1, <2>2, NormalIs
  <2>4. code = g * e + k
    BY <2>3
  <2> DEFINE d == IF code < Power[p] THEN 0 ELSE code \div g - 1
  <2>5. /\ code \in Nat /\ (code < inf <=> Abs(n) < limit)
        /\ (code - g * d) * Power[d] = Abs(n)
    <3> DEFINE c == g * e + k
               b == IF c < Power[p] THEN 0 ELSE c \div g - 1
    <3>1. /\ c \in Nat /\ (c < inf <=> Abs(n) < limit)
          /\ (c - g * b) * Power[b] = Abs(n)
      BY <2>1, <2>2, CodeIs
    <3> HIDE DEF code
    <3> QED  BY <2>4, <3>1
  <2>6. q = IF v < 0 THEN h + m ELSE m
    BY <1>5 DEF FloatPattern, n
  <2>7. m \in 0..h - 1
    <3> HIDE DEF code, inf, h
    <3> QED  BY <1>1, <1>2, <2>5
  <2>8. q \in 0..2 * h - 1 /\ q % h = m /\ (q >= h <=> v < 0)
    <3> DEFINE neg == v < 0
    <3>1. neg \in BOOLEAN
      OBVIOUS
    <3>2. h \in Nat \ {0}
      BY <1>1
    <3> HIDE DEF h, m, q, neg
    <3>3. q = IF neg THEN h + m ELSE m
      BY <2>6 DEF neg
    <3>4. LET z == IF neg THEN h + m ELSE m
          IN z \in 0..2 * h - 1 /\ z % h = m /\ (z >= h <=> neg)
      BY <2>7, <3>1, <3>2, PatternIs
    <3>5. q \in 0..2 * h - 1 /\ q % h = m /\ (q >= h <=> neg)
      BY <3>3, <3>4
    <3> QED  BY <3>5 DEF neg
  <2>9. Abs(n) \in Nat /\ limit \in Nat /\ n = IF n < 0 THEN -Abs(n) ELSE Abs(n)
    <3>1. p + Exponents(w, p) - 3 \in 0..NumberBits + 1
      BY <1>1, FormatIs
    <3> QED  BY <2>1, <3>1, AbsIs, PowerIs
  <2> DEFINE sign == IF q >= h THEN -1 ELSE 1
  <2>10. sign = IF n < 0 THEN -1 ELSE 1
    BY <2>1, <2>8
  <2> HIDE DEF h, q, limit, code, d, sign, v
  <2>11. CASE Abs(n) >= limit
    <3>1. ~(code < inf) /\ m = inf
      BY <1>2, <2>5, <2>9, <2>11
    <3>2. FloatValue(q, w, p) = [t |-> "Infinity", v |-> sign]
      <4>1. q % h = inf /\ ~(inf > inf)
        BY <1>2, <2>8, <3>1
      <4> HIDE DEF m
      <4> QED  BY <4>1 DEF FloatValue, h, sign
    <3>3. ToFloat(val, w, p) = [t |-> "Infinity", v |-> sign]
      BY <1>5, <2>10, <2>11 DEF ToFloat, n, v, limit
    <3>4. [t |-> "Infinity", v |-> sign] \in JsValue
      BY <2>10 DEF JsValue, Kinds
    <3> QED  BY <1>1, <2>8, <3>2, <3>3, <3>4 DEF q, h
  <2>12. CASE Abs(n) < limit
    <3>1. code < inf /\ m = code
      BY <1>2, <2>5, <2>12
    <3>2. q % h = code /\ ~(code > inf) /\ code # inf
      BY <1>2, <2>5, <2>8, <3>1
    <3>3. FloatValue(q, w, p) = Num(sign * Abs(n))
      <4> HIDE DEF m
      <4>1. FloatValue(q, w, p) = Num(sign * ((code - g * d) * Power[d]))
        BY <3>2 DEF FloatValue, h, sign, d
      <4> QED  BY <2>5, <4>1
    <3>4. sign * Abs(n) = n
      <4> DEFINE a == Abs(n)
      <4> HIDE DEF a
      <4>1. a \in Nat /\ n = IF n < 0 THEN -a ELSE a
        BY <2>9 DEF a
      <4>2. sign * a = n
        BY <2>10, <4>1
      <4> QED  BY <4>2 DEF a
    <3>5. ToFloat(val, w, p) = Num(n)
      <4>1. ~(Abs(n) >= limit)
        BY <2>9, <2>12
      <4> QED  BY <1>5, <4>1 DEF ToFloat, n, limit, v
    <3>6. Num(n) \in JsValue
      BY <2>1 DEF Num, JsValue, Kinds
    <3> QED  BY <1>1, <2>8, <3>3, <3>4, <3>5, <3>6 DEF q, h
  <2> QED  BY <2>9, <2>11, <2>12 DEF q
<1> QED  BY <1>3, <1>4, <1>5 DEF FloatInput

-----------------------------------------------------------------------------
(* The bytes of an integer.                                                *)

Holds(m, at, w, n, little) ==
  \A k \in 0..w - 1 : m[AddressOf(at, w, k, little)] = (n \div Weight[k]) % ByteValues

\* readUInt gives the integer back, modulo the number of values of its width.
LEMMA UnsignedIs ==
  ASSUME NEW m, NEW at, NEW w \in 1..8, NEW n \in Int, NEW little, Holds(m, at, w, n, little)
  PROVE  Unsigned(m, at, w, little) = n % Weight[w]
<1> DEFINE B == ByteValues
           Digit(i) == (n \div Weight[w - i]) % B
           Byte(i) == m[AddressOf(at, w, w - i, little)]
           Body(g) == [i \in 0..w |-> IF i = 0 THEN 0
                         ELSE g[i - 1] * B + m[AddressOf(at, w, w - i, little)]]
           D == [x \in (1..w) \X Int |-> x[2] * B + Digit(x[1])]
           upper == CHOOSE g : g = Body(g)
<1>1. Unsigned(m, at, w, little) = upper[w]
  BY DEF Unsigned
<1>2. B \in Nat \ {0} /\ 0 \in Int /\ w \in Nat
  BY BytesAre
<1>3. \A i \in 1..w : Byte(i) = Digit(i) /\ Digit(i) \in Int
  <2> SUFFICES ASSUME NEW i \in 1..w  PROVE Byte(i) = Digit(i) /\ Digit(i) \in Int
    OBVIOUS
  <2>1. w - i \in 0..w - 1 /\ w - i \in 0..8
    OBVIOUS
  <2>2. Byte(i) = Digit(i)
    BY <2>1 DEF Holds
  <2> DEFINE a == Weight[w - i]  q == n \div a
  <2>3. a \in Nat \ {0}
    BY <2>1, WeightIs
  <2>4. q \in Int
    <3> HIDE DEF a
    <3> QED  BY <2>3, DivisionIs
  <2> HIDE DEF B
  <2>5. q % B \in Int
    <3> HIDE DEF q
    <3>1. q % B \in 0..B - 1
      BY <1>2, <2>4, DivisionIs
    <3> QED  BY <1>2, <3>1
  <2> QED  BY <2>2, <2>5
<1>4. \A g : Body(g) = [i \in 0..w |-> IF i = 0 THEN 0 ELSE g[i - 1] * B + Byte(i)]
  OBVIOUS
<1>5. \A i \in 1..w : Digit(i) = (n \div Weight[w - i]) % B
  OBVIOUS
<1> HIDE DEF B, Digit, Byte, Body
<1>6. D \in [(1..w) \X Int -> Int]
      /\ \A i \in 1..w : \A b \in Int : D[<<i, b>>] = b * B + Digit(i)
  BY <1>2, <1>3
<1> HIDE DEF D
<1>7. PICK g : StepFunction(g, w, Int, 0, D)
  <2>1. StepData(w, Int, 0, D)
    BY <1>2, <1>6 DEF StepData
  <2> QED  BY <2>1, StepRecursion
<1>8. g = Body(g)
  <2> USE <1>7 DEF StepFunction
  <2>1. ASSUME NEW i \in 0..w
        PROVE  g[i] = IF i = 0 THEN 0 ELSE g[i - 1] * B + Byte(i)
    <3>1. CASE i # 0
      <4>1. i \in 1..w /\ i - 1 \in 0..w
        BY <3>1
      <4> QED  BY <1>3, <1>6, <3>1, <4>1
    <3> QED  BY <3>1
  <2>2. g = [i \in 0..w |-> g[i]]
    OBVIOUS
  <2> QED  BY <1>4, <2>1, <2>2
<1>9. upper = Body(upper)
  BY <1>8
<1> HIDE DEF upper
<1>10. upper[0] = 0 /\ \A i \in 1..w : upper[i] = upper[i - 1] * B + Digit(i)
  <2>1. upper = [i \in 0..w |-> IF i = 0 THEN 0 ELSE upper[i - 1] * B + Byte(i)]
    BY <1>4, <1>9, Zenon
  <2>2. 0 \in 0..w /\ \A i \in 1..w : i \in 0..w /\ i # 0
    BY <1>2
  <2>3. \A i \in 0..w : upper[i] = IF i = 0 THEN 0 ELSE upper[i - 1] * B + Byte(i)
    BY <2>1, Zenon
  <2> QED  BY <1>3, <2>2, <2>3
<1> DEFINE Good(i) == upper[i] = (n \div Weight[w - i]) % Weight[i]
           S == {i \in 0..w : Good(i)}
<1>11. 0 \in S
  <2> DEFINE q == n \div Weight[w - 0]
  <2>1. q \in Int
    <3> DEFINE a == Weight[w - 0]
    <3>1. a \in Nat \ {0} /\ q = n \div a
      BY WeightIs
    <3> HIDE DEF a, q
    <3>2. n \div a \in Int
      BY <3>1, DivisionIs
    <3> QED  BY <3>1, <3>2
  <2> HIDE DEF q
  <2>2. q % 1 = 0
    BY <2>1
  <2> QED  BY <1>10, <2>2, WeightIs DEF q
<1>12. ASSUME NEW j \in 0..w - 1, j \in S  PROVE j + 1 \in S
  <2> DEFINE i == j + 1
             a == Weight[w - i]
             q == n \div a
             b == Weight[j]
  <2>1. i \in 1..w /\ i - 1 = j /\ w - i \in 0..8 /\ w - j \in 1..8 /\ (w - j) - 1 = w - i
        /\ j \in 0..8 /\ i \in 1..8
    OBVIOUS
  <2> HIDE DEF i
  <2>2. a \in Nat \ {0} /\ b \in Nat \ {0} /\ Weight[w - j] = a * B /\ Weight[i] = b * B
    BY <2>1, WeightIs DEF B
  <2>3. q \in Int /\ n \div (a * B) = q \div B
    <3> HIDE DEF a
    <3> QED  BY <1>2, <2>2, DivisionIs, DivisionTwice
  <2>4. upper[j] = (q \div B) % b /\ upper[i] = upper[j] * B + (q % B)
    <3> HIDE DEF q
    <3>1. upper[j] = (n \div (a * B)) % b
      BY <1>12, <2>2
    <3>2. upper[i] = upper[j] * B + Digit(i)
      BY <1>10, <2>1
    <3>3. Digit(i) = q % B
      BY <1>5, <2>1 DEF q
    <3> QED  BY <2>3, <3>1, <3>2, <3>3
  <2> HIDE DEF q, a, b
  <2>5. B * b = b * B
    BY <1>2, <2>2
  <2>6. q % (B * b) = ((q \div B) % b) * B + (q % B)
    BY <1>2, <2>2, <2>3, DivisionTwice
  <2>7. upper[i] = q % Weight[i]
    BY <2>2, <2>4, <2>5, <2>6
  <2> QED  BY <2>1, <2>7 DEF q, a, i
<1> HIDE DEF S
<1>13. 0..w \subseteq S
  <2>1. 0 \in Nat
    OBVIOUS
  <2> QED  BY <1>2, <1>11, <1>12, <2>1, RangeInduction
<1>14. Good(w)
  BY <1>13 DEF S
<1>15. w - w = 0 /\ n \div 1 = n
  OBVIOUS
<1> QED  BY <1>1, <1>14, <1>15, WeightIs

\* w bytes from at on lie in a Buffer of less than 4 GB.
Fits(m, at, w) ==
  \E l \in 0..Weight[4] - 1 : DOMAIN m = 0..l - 1 /\ at \in Nat /\ at + w <= l

\* A variable inside the Buffer passes checkOffset, and its bytes exist.
LEMMA FitsIs ==
  ASSUME NEW m, NEW at, NEW w \in 1..8, Fits(m, at, w)
  PROVE  /\ at \in Nat /\ ToUint32(at) = at /\ Inside(m, at, w)
         /\ at..at + w - 1 \subseteq DOMAIN m
<1> DEFINE a == Weight[4]
<1>1. a \in Nat \ {0}
  BY WeightIs
<1>2. PICK l \in 0..a - 1 : DOMAIN m = 0..l - 1 /\ at \in Nat /\ at + w <= l
  BY DEF Fits
<1> HIDE DEF a
<1>3. at \in 0..a - 1 /\ l \in Nat /\ l # 0
  BY <1>1, <1>2
<1>4. (0 * a + at) % a = at
  BY <1>1, <1>3, DivisionIsUnique
<1>5. at % a = at
  BY <1>1, <1>3, <1>4
<1>6. Cardinality(0..l - 1) = l
  <2>1. 0 \in Int /\ l - 1 \in Int /\ ~(0 > l - 1) /\ (l - 1) - 0 + 1 = l
    BY <1>3
  <2> DEFINE k == l - 1
  <2> HIDE DEF k
  <2>2. k \in Int /\ ~(0 > k) /\ k - 0 + 1 = l
    BY <2>1 DEF k
  <2>3. Cardinality(0..k) = k - 0 + 1
    BY <2>2, FS_Interval
  <2> QED  BY <2>2, <2>3 DEF k
<1>7. ToUint32(at) = at
  BY <1>5 DEF ToUint32, a
<1>8. Inside(m, at, w)
  BY <1>2, <1>6, <1>7 DEF Inside
<1>9. at..at + w - 1 \subseteq DOMAIN m
  BY <1>2
<1> QED  BY <1>2, <1>7, <1>8, <1>9

\* The address of byte k is in the variable, and byte k is found at it.
LEMMA AddressIs ==
  ASSUME NEW at \in Nat, ToUint32(at) = at, NEW w \in 1..8, NEW little \in BOOLEAN,
         NEW k \in 0..w - 1
  PROVE  /\ AddressOf(at, w, k, little) \in at..at + w - 1
         /\ (IF little THEN AddressOf(at, w, k, little) - at
             ELSE at + w - 1 - AddressOf(at, w, k, little)) = k
BY DEF AddressOf

\* A writer changes the bytes of the integer and no other.
LEMMA WrittenIs ==
  ASSUME NEW m, NEW at, NEW w \in 1..8, NEW n, NEW little \in BOOLEAN, Fits(m, at, w)
  PROVE  LET s == Written(m, at, w, n, little)
         IN /\ DOMAIN s = DOMAIN m
            /\ Holds(s, at, w, n, little)
            /\ \A a \in DOMAIN m : a \notin at..at + w - 1 => s[a] = m[a]
<1> DEFINE s == Written(m, at, w, n, little)
           I(a) == IF little THEN a - at ELSE at + w - 1 - a
           Digit(i) == (n \div Weight[i]) % ByteValues
<1>1. at \in Nat /\ ToUint32(at) = at /\ at..at + w - 1 \subseteq DOMAIN m
  BY FitsIs
<1>2. s = [a \in DOMAIN m |-> IF I(a) \in 0..w - 1 THEN Digit(I(a)) ELSE m[a]]
  BY <1>1 DEF Written
<1>3. DOMAIN m \subseteq Int
  BY DEF Fits
<1>4. \A k \in 0..w - 1 : LET a == AddressOf(at, w, k, little)
                          IN a \in DOMAIN m /\ I(a) = k
  <2> SUFFICES ASSUME NEW k \in 0..w - 1
               PROVE  LET a == AddressOf(at, w, k, little) IN a \in DOMAIN m /\ I(a) = k
    OBVIOUS
  <2> QED  BY <1>1, AddressIs
<1>5. \A a \in DOMAIN m : a \notin at..at + w - 1 => I(a) \notin 0..w - 1
  BY <1>1, <1>3
<1> HIDE DEF s, I, Digit
<1>6. DOMAIN s = DOMAIN m
  BY <1>2
<1>7. \A k \in 0..w - 1 : s[AddressOf(at, w, k, little)] = Digit(k)
  BY <1>2, <1>4
<1>8. \A a \in DOMAIN m : a \notin at..at + w - 1 => s[a] = m[a]
  BY <1>2, <1>5
<1> QED  BY <1>6, <1>7, <1>8 DEF s, Digit, Holds

\* What a writer leaves are bytes.
LEMMA WrittenBytes ==
  ASSUME NEW m, NEW at, NEW w \in 1..8, NEW n \in Int, NEW little \in BOOLEAN, Fits(m, at, w),
         NEW A, m \in [A -> 0..ByteValues - 1]
  PROVE  Written(m, at, w, n, little) \in [A -> 0..ByteValues - 1]
<1> DEFINE B == 0..ByteValues - 1
           I(a) == IF little THEN a - at ELSE at + w - 1 - a
           Digit(i) == (n \div Weight[i]) % ByteValues
<1>1. at \in Nat /\ ToUint32(at) = at
  BY FitsIs
<1>2. Written(m, at, w, n, little) =
        [a \in DOMAIN m |-> IF I(a) \in 0..w - 1 THEN Digit(I(a)) ELSE m[a]]
  BY <1>1 DEF Written
<1>3. ASSUME NEW i \in 0..w - 1  PROVE Digit(i) \in B
  <2> DEFINE a == Weight[i]  q == n \div a  b == ByteValues
  <2>1. a \in Nat \ {0} /\ b \in Nat \ {0}
    <3>1. i \in 0..8
      OBVIOUS
    <3> QED  BY <3>1, WeightIs, BytesAre
  <2> HIDE DEF a, b
  <2>2. q \in Int
    BY <2>1, DivisionIs
  <2> HIDE DEF q
  <2>3. q % b \in 0..b - 1
    BY <2>1, <2>2, DivisionIs
  <2> QED  BY <2>3 DEF q, a, b
<1> HIDE DEF B, I, Digit
<1>4. DOMAIN m = A /\ \A a \in A : m[a] \in B
  BY DEF B
<1> QED  BY <1>2, <1>3, <1>4 DEF B

\* An integer stays where it is while its bytes do.
LEMMA HoldsStill ==
  ASSUME NEW m, NEW s, NEW at \in Nat, ToUint32(at) = at, NEW w \in 1..8, NEW n,
         NEW little \in BOOLEAN, Holds(m, at, w, n, little),
         \A a \in at..at + w - 1 : s[a] = m[a]
  PROVE  Holds(s, at, w, n, little)
BY AddressIs DEF Holds

-----------------------------------------------------------------------------
(* Types and their sizes.                                                  *)

\* Sizes of the types on a host.
LEMMA HostIs ==
  ASSUME NEW h \in Hosts
  PROVE  /\ h.little \in BOOLEAN
         /\ \A t \in TypeNames : Size(h, t) \in Widths
         /\ \A t \in SizeNames : Size(h, t) = h.size[t]
         /\ \A t \in {"ssize_t", "intptr_t", "uintptr_t"} : Size(h, t) = h.size["size_t"]
<1>1. h \in [little : BOOLEAN, size : [SizeNames -> Widths]]
  BY HostsAssumption
<1>2. \A t \in SizeNames : t \notin {"ssize_t", "intptr_t", "uintptr_t"}
  BY DEF SizeNames
<1>3. "size_t" \in SizeNames
  BY DEF SizeNames, TypeNames, Typedefs
<1>4. \A t \in TypeNames : t \in SizeNames \/ t \in {"ssize_t", "intptr_t", "uintptr_t"}
  BY DEF SizeNames
<1>5. \A t \in SizeNames : h.size[t] \in Widths
  BY <1>1
<1> HIDE DEF SizeNames
<1>6. \A t \in SizeNames : Size(h, t) = h.size[t]
  BY <1>2 DEF Size
<1>7. \A t \in {"ssize_t", "intptr_t", "uintptr_t"} : Size(h, t) = h.size["size_t"]
  BY DEF Size
<1>8. \A t \in TypeNames : Size(h, t) \in Widths
  BY <1>3, <1>4, <1>5, <1>6, <1>7
<1> QED  BY <1>1, <1>6, <1>7, <1>8

\* The sizes that decide which reader and writer a type has.
LEMMA SizesAre ==
  ASSUME NEW h \in Hosts
  PROVE  /\ \A t \in {"int8", "uint8", "bool", "byte", "char", "uchar"} : Size(h, t) = 1
         /\ \A t \in {"int16", "uint16"} : Size(h, t) = 2
         /\ \A t \in {"int32", "uint32", "float"} : Size(h, t) = 4
         /\ \A t \in {"int64", "uint64", "double"} : Size(h, t) = 8
         /\ \A t \in {"long", "ulong", "longlong", "ulonglong", "size_t", "ssize_t",
                      "intptr_t", "uintptr_t"} : Size(h, t) \in {4, 8}
<1>1. {"int8", "uint8", "bool", "byte", "char", "uchar", "int16", "uint16", "int32",
       "uint32", "float", "int64", "uint64", "double", "long", "ulong", "longlong",
       "ulonglong", "size_t"} \subseteq SizeNames
  BY DEF SizeNames, TypeNames, Typedefs, Fixed
<1>2. \A t \in SizeNames : Size(h, t) = h.size[t]
  BY HostIs
<1>3. \A t \in {"ssize_t", "intptr_t", "uintptr_t"} : Size(h, t) = h.size["size_t"]
  BY HostIs
<1>4. /\ \A t \in {"int8", "uint8", "bool", "byte", "char", "uchar"} : h.size[t] = 1
      /\ \A t \in {"int16", "uint16"} : h.size[t] = 2
      /\ \A t \in {"int32", "uint32", "float"} : h.size[t] = 4
      /\ \A t \in {"int64", "uint64", "double"} : h.size[t] = 8
      /\ \A t \in {"long", "ulong", "longlong", "ulonglong", "size_t"} : h.size[t] \in {4, 8}
  BY HostsAssumption
<1> HIDE DEF SizeNames
<1>5. \A t \in {"int8", "uint8", "bool", "byte", "char", "uchar"} : Size(h, t) = 1
  BY <1>1, <1>2, <1>4
<1>6. \A t \in {"int16", "uint16"} : Size(h, t) = 2
  BY <1>1, <1>2, <1>4
<1>7. \A t \in {"int32", "uint32", "float"} : Size(h, t) = 4
  BY <1>1, <1>2, <1>4
<1>8. \A t \in {"int64", "uint64", "double"} : Size(h, t) = 8
  BY <1>1, <1>2, <1>4
<1>9. \A t \in {"long", "ulong", "longlong", "ulonglong", "size_t"} : Size(h, t) \in {4, 8}
  BY <1>1, <1>2, <1>4
<1>10. \A t \in {"ssize_t", "intptr_t", "uintptr_t"} : Size(h, t) \in {4, 8}
  BY <1>3, <1>4
<1> QED  BY <1>5, <1>6, <1>7, <1>8, <1>9, <1>10

-----------------------------------------------------------------------------
(* Readers.                                                                *)

\* What a getter of type t shows of n, by its width: the integer itself, or
\* rounded to a JavaScript number.
AsNumber(h, t, n) == Num(IF Size(h, t) = 8 THEN Round(n, DoubleBits) ELSE n)

\* Where the bytes hold an integer of the type, the getters give it back.
LEMMA GettersAre ==
  ASSUME NEW h \in Hosts, NEW m, NEW c, c.type \in TypeNames, NEW n \in Int,
         Fits(m, c.at, Size(h, c.type)), InRange(n, Size(h, c.type), IsUnsigned(c.type)),
         Holds(m, c.at, Size(h, c.type), n, h.little)
  PROVE  /\ GetBigInt(h, m, c) = Big(n)
         /\ GetNumber(h, m, c) = AsNumber(h, c.type, n)
         /\ c.type \notin {"float", "double"} => Get(h, m, c) = Shown(h, c.type, n)
<1> DEFINE w == Size(h, c.type)
           u == IsUnsigned(c.type)
           x == Unsigned(m, c.at, w, h.little)
<1>1. w \in 1..8 /\ u \in BOOLEAN /\ h.little \in BOOLEAN
  BY HostIs DEF Widths, IsUnsigned
<1>2. Inside(m, c.at, w)
  BY <1>1, FitsIs
<1>3. x = n % Weight[w]
  BY <1>1, UnsignedIs
<1>4. IF u THEN x = n ELSE Signed(x, w) = n
  BY <1>1, <1>3, SignIs
<1>5. IF u THEN ReadUInt(m, c.at, w, h.little) = Num(n)
      ELSE ReadInt(m, c.at, w, h.little) = Num(n)
  BY <1>2, <1>4 DEF ReadUInt, ReadInt
<1>6. w = 8 => IF u THEN ReadBigUInt64(m, c.at, h.little) = Big(n)
               ELSE ReadBigInt64(m, c.at, h.little) = Big(n)
  BY <1>2, <1>4 DEF ReadBigUInt64, ReadBigInt64
<1>7. Big(n).v = n /\ Num(n).v = n
  BY DEF Big, Num
<1>8. GetNumber(h, m, c) = AsNumber(h, c.type, n)
  <2> HIDE DEF x
  <2> QED  BY <1>5, <1>6, <1>7 DEF GetNumber, AsNumber
<1>9. GetBigInt(h, m, c) = Big(n)
  BY <1>6, <1>7, <1>8 DEF GetBigInt, AsNumber, Num
<1>10. c.type \in {"char", "uchar"} => ReadUInt(m, c.at, 1, h.little).v = n % ByteValues
  <2> SUFFICES ASSUME c.type \in {"char", "uchar"}
               PROVE  ReadUInt(m, c.at, 1, h.little).v = n % ByteValues
    OBVIOUS
  <2>1. w = 1
    BY SizesAre
  <2>2. Weight[1] = ByteValues
    <3>1. Weight[1] = Weight[0] * ByteValues
      <4>1. 1 - 1 = 0 /\ 1 \in 1..8
        OBVIOUS
      <4> QED  BY <4>1, WeightIs
    <3> QED  BY <3>1, WeightIs, BytesAre
  <2>3. ReadUInt(m, c.at, 1, h.little) = Num(x)
    BY <1>2, <2>1 DEF ReadUInt
  <2> QED  BY <1>3, <2>1, <2>2, <2>3 DEF Num
<1>11. ASSUME c.type \notin {"float", "double"}  PROVE Get(h, m, c) = Shown(h, c.type, n)
  <2>1. CASE c.type = "bool"
    <3>1. w # 8
      BY <2>1, SizesAre
    <3>2. GetNumber(h, m, c).v = n
      BY <1>7, <1>8, <3>1 DEF AsNumber
    <3> QED  BY <2>1, <3>2 DEF Get, Shown
  <2>2. CASE c.type \in {"char", "uchar"}
    <3>1. c.type # "bool"
      BY <2>2
    <3> QED  BY <1>10, <2>2, <3>1 DEF Get, Shown
  <2>3. CASE c.type \notin {"bool", "char", "uchar"}
    <3>1. Get(h, m, c) = IF MaxSizeIs8(h, c.type) THEN GetBigInt(h, m, c) ELSE GetNumber(h, m, c)
      BY <1>11, <2>3 DEF Get
    <3>2. Shown(h, c.type, n) = IF MaxSizeIs8(h, c.type) THEN Big(n) ELSE Num(n)
      BY <2>3 DEF Shown
    <3>3. ~MaxSizeIs8(h, c.type) => w # 8
      BY DEF MaxSizeIs8
    <3> QED  BY <1>8, <1>9, <3>1, <3>2, <3>3 DEF AsNumber
  <2> QED  BY <2>1, <2>2, <2>3
<1> QED  BY <1>8, <1>9, <1>11

-----------------------------------------------------------------------------
(* Writers.                                                                *)

\* What a setter may do when it is to store the integer v: throw, or write
\* the bytes of an integer of the type.
StoresInt(h, m, c, o, v) ==
  \/ o = Failed(m)
  \/ \E n \in Int : /\ o = Wrote(m, c.at, Size(h, c.type), n, h.little)
                    /\ v = Num(n)
                    /\ InRange(n, Size(h, c.type), IsUnsigned(c.type))

\* +value of a JavaScript value; NaN is written as 0.
LEMMA NumbersAre ==
  ASSUME NEW val \in JsValue
  PROVE  /\ val.v \in Int /\ ToNumber(val).v \in Int
         /\ ToNumber(val).t = "number" => ToNumber(val).v = val.v
         /\ ToNumber(val).t \notin {"number", "Infinity"} => ToNumber(val).v = 0
BY DEF JsValue, ToNumber, Num, NaN

\* 0 is in the range of every integer type.
LEMMA ZeroInRange ==
  ASSUME NEW w \in 1..8, NEW u \in BOOLEAN
  PROVE  InRange(0, w, u)
<1>1. Half(w) \in Nat \ {0}
  BY HalfIs
<1> QED  BY <1>1 DEF InRange, MinInt, MaxInt

\* The bytes have the width of the type, which is the width of its writer.
LEMMA WriteNumberIs ==
  ASSUME NEW h \in Hosts, NEW m, NEW c, c.type \in TypeNames, NEW val \in JsValue
  PROVE  LET w == Size(h, c.type)
         IN StoresInt(h, m, c, IF IsUnsigned(c.type) THEN WriteUInt(m, val, c.at, w, h.little)
                               ELSE WriteInt(m, val, c.at, w, h.little), AsInt(val))
<1> DEFINE w == Size(h, c.type)
           u == IsUnsigned(c.type)
           n == ToNumber(val).v
           o == IF u THEN WriteUInt(m, val, c.at, w, h.little)
                ELSE WriteInt(m, val, c.at, w, h.little)
<1>1. w \in 1..8 /\ u \in BOOLEAN
  BY HostIs DEF Widths, IsUnsigned
<1>2. o = IF CheckInt(m, val, c.at, w, u) THEN Wrote(m, c.at, w, n, h.little) ELSE Failed(m)
  BY <1>1 DEF WriteUInt, WriteInt
<1>3. ASSUME CheckInt(m, val, c.at, w, u)
      PROVE  n \in Int /\ AsInt(val) = Num(n) /\ InRange(n, w, u)
  <2>1. val.t # "bigint" /\ ToNumber(val).t # "Infinity"
        /\ (ToNumber(val).t = "number" => InRange(val.v, w, u))
    BY <1>3 DEF CheckInt
  <2>2. AsInt(val) = Num(n)
    BY <2>1 DEF AsInt
  <2>3. n \in Int
    BY NumbersAre
  <2>4. CASE ToNumber(val).t = "number"
    <3>1. n = val.v
      BY <2>4, NumbersAre
    <3> QED  BY <2>1, <2>2, <2>3, <2>4, <3>1
  <2>5. CASE ToNumber(val).t # "number"
    <3>1. n = 0
      BY <2>1, <2>5, NumbersAre
    <3>2. InRange(0, w, u)
      BY <1>1, ZeroInRange
    <3> QED  BY <2>2, <2>3, <3>1, <3>2
  <2> QED  BY <2>4, <2>5
<1> HIDE DEF n, o, u, w
<1>4. o = Failed(m) \/ (o = Wrote(m, c.at, w, n, h.little)
                        /\ n \in Int /\ AsInt(val) = Num(n) /\ InRange(n, w, u))
  BY <1>2, <1>3
<1> QED  BY <1>4 DEF StoresInt, w, u, o

\* Both writers of BigInts are one.
LEMMA WriteBigAs ==
  ASSUME NEW h, NEW m, NEW c, NEW b
  PROVE  WriteBig(h, m, c, b) = IF CheckIntBI(m, b, c.at, IsUnsigned(c.type))
                                THEN Wrote(m, c.at, 8, b.v, h.little) ELSE Failed(m)
<1> DEFINE u == IsUnsigned(c.type)
<1>1. u = TRUE \/ u = FALSE
  BY DEF IsUnsigned
<1>2. WriteBig(h, m, c, b) = IF u THEN WriteBigUInt64(m, b, c.at, h.little)
                             ELSE WriteBigInt64(m, b, c.at, h.little)
  BY DEF WriteBig
<1> HIDE DEF u
<1>3. CASE u = TRUE
  BY <1>2, <1>3 DEF WriteBigUInt64, u
<1>4. CASE u = FALSE
  BY <1>2, <1>4 DEF WriteBigInt64, u
<1> QED  BY <1>1, <1>3, <1>4

\* A writer of BigInts stores a BigInt in range, or throws.
LEMMA WriteBigIs ==
  ASSUME NEW h \in Hosts, NEW m, NEW c, NEW b, Size(h, c.type) = 8
  PROVE  LET o == WriteBig(h, m, c, b)
         IN \/ o = Failed(m)
            \/ /\ b.t = "bigint" /\ InRange(b.v, 8, IsUnsigned(c.type))
               /\ o = Wrote(m, c.at, 8, b.v, h.little)
BY WriteBigAs DEF CheckIntBI

\* setNumber stores the integer that the value is, or throws.
LEMMA SetNumberIs ==
  ASSUME NEW h \in Hosts, NEW m, NEW c, c.type \in TypeNames, NEW val \in JsValue
  PROVE  StoresInt(h, m, c, SetNumber(h, m, c, val), AsInt(val))
<1>1. CASE Size(h, c.type) = 8
  <2> DEFINE b == ToBigInt(val)
  <2>1. SetNumber(h, m, c, val) = WriteBig(h, m, c, b)
    BY <1>1 DEF SetNumber
  <2>2. val.v \in Int
    BY NumbersAre
  <2>3. ASSUME b.t = "bigint"  PROVE b.v = val.v /\ AsInt(val) = Num(b.v)
    <3>1. val.t \in {"number", "bigint", "boolean"}
      BY <2>3 DEF ToBigInt, Throws
    <3>2. b.v = val.v
      BY <3>1 DEF ToBigInt, Big
    <3>3. AsInt(val) = Num(val.v)
      BY <3>1 DEF AsInt, ToNumber, Num
    <3> QED  BY <3>2, <3>3
  <2> HIDE DEF b
  <2>4. LET o == WriteBig(h, m, c, b)
        IN \/ o = Failed(m)
           \/ /\ b.t = "bigint" /\ InRange(b.v, 8, IsUnsigned(c.type))
              /\ o = Wrote(m, c.at, 8, b.v, h.little)
    BY <1>1, WriteBigIs
  <2> QED  BY <1>1, <2>1, <2>2, <2>3, <2>4 DEF StoresInt
<1>2. CASE Size(h, c.type) # 8
  BY <1>2, WriteNumberIs DEF SetNumber
<1> QED  BY <1>1, <1>2

\* setBigInt stores the BigInt, or throws.
LEMMA SetBigIntIs ==
  ASSUME NEW h \in Hosts, NEW m, NEW c, c.type \in TypeNames, NEW val \in JsValue
  PROVE  StoresInt(h, m, c, SetBigInt(h, m, c, val), AsInt(val))
<1>1. CASE Size(h, c.type) = 8
  <2>1. LET o == WriteBig(h, m, c, val)
        IN \/ o = Failed(m)
           \/ /\ val.t = "bigint" /\ InRange(val.v, 8, IsUnsigned(c.type))
              /\ o = Wrote(m, c.at, 8, val.v, h.little)
    BY <1>1, WriteBigIs
  <2>2. val.v \in Int
    BY NumbersAre
  <2> QED  BY <1>1, <2>1, <2>2 DEF StoresInt, SetBigInt, AsInt
<1>2. CASE Size(h, c.type) # 8
  BY <1>2 DEF SetBigInt, StoresInt
<1> QED  BY <1>1, <1>2

\* value | 0 is a number.
LEMMA ToInt32Is ==
  ASSUME NEW val \in JsValue
  PROVE  ToInt32(val) \in JsValue /\ AsInt(ToInt32(val)) = ToInt32(val)
<1> DEFINE a == Weight[4]  r == val.v % a
<1>1. val.v \in Int /\ a \in Nat \ {0} /\ Half(4) \in Nat
  BY NumbersAre, WeightIs, HalfIs
<1>2. r \in 0..a - 1
  <2> HIDE DEF a
  <2> QED  BY <1>1, DivisionIs
<1> HIDE DEF r
<1>3. Signed(r, 4) \in Int
  BY <1>1, <1>2 DEF Signed
<1>4. \E n \in Int : ToInt32(val) = Num(n)
  BY <1>3 DEF ToInt32, r
<1> QED  BY <1>4 DEF Num, JsValue, Kinds, AsInt, ToNumber

\* set, for the types whose values are integers.
LEMMA SetIs ==
  ASSUME NEW h \in Hosts, NEW m, NEW c, c.type \in TypeNames \ {"float", "double"},
         NEW val \in JsValue
  PROVE  StoresInt(h, m, c, Set(h, m, c, val), Meaning(c, "set", val).v)
<1>1. CASE c.type = "bool"
  <2>1. Set(h, m, c, val) = IF val.t = "bigint" THEN Failed(m)
                            ELSE SetNumber(h, m, c, ToInt32(val))
    BY <1>1 DEF Set
  <2>2. Meaning(c, "set", val).v = ToInt32(val)
    <3>1. c.type \notin {"float", "double", "char", "uchar"}
      BY <1>1
    <3> HIDE DEF ToInt32
    <3> QED  BY <1>1, <3>1 DEF Meaning
  <2>3. StoresInt(h, m, c, SetNumber(h, m, c, ToInt32(val)), ToInt32(val))
    <3> DEFINE v == ToInt32(val)
    <3>1. v \in JsValue /\ AsInt(v) = v
      BY ToInt32Is
    <3> HIDE DEF v
    <3>2. StoresInt(h, m, c, SetNumber(h, m, c, v), AsInt(v))
      BY <3>1, SetNumberIs
    <3> QED  BY <3>1, <3>2 DEF v
  <2>4. StoresInt(h, m, c, Failed(m), ToInt32(val))
    BY DEF StoresInt
  <2> QED  BY <2>1, <2>2, <2>3, <2>4
<1>2. CASE c.type \in {"char", "uchar"}
  <2> DEFINE v == Num(val.v)
             u == IsUnsigned(c.type)
             o == IF u THEN WriteUInt(m, v, c.at, 1, h.little)
                  ELSE WriteInt(m, v, c.at, 1, h.little)
  <2>1. Set(h, m, c, val) = IF val.t # "string" THEN Failed(m) ELSE o
    <3>1. c.type # "bool" /\ (u <=> c.type = "uchar")
      BY <1>2 DEF IsUnsigned
    <3> QED  BY <1>2, <3>1 DEF Set
  <2>2. Meaning(c, "set", val).v = v
    <3>1. c.type \notin {"bool", "float", "double"}
      BY <1>2
    <3> QED  BY <1>2, <3>1 DEF Meaning
  <2>3. v \in JsValue /\ AsInt(v) = v
    <3>1. val.v \in Int
      BY NumbersAre
    <3> QED  BY <3>1 DEF Num, JsValue, Kinds, AsInt, ToNumber
  <2>4. Size(h, c.type) = 1
    BY <1>2, SizesAre
  <2> HIDE DEF v
  <2>5. StoresInt(h, m, c, o, AsInt(v))
    BY <2>3, <2>4, WriteNumberIs
  <2>6. StoresInt(h, m, c, Failed(m), v)
    BY DEF StoresInt
  <2> QED  BY <2>1, <2>2, <2>3, <2>5, <2>6
<1>3. CASE c.type \notin {"bool", "char", "uchar"}
  <2>1. Set(h, m, c, val) = IF MaxSizeIs8(h, c.type) THEN SetBigInt(h, m, c, val)
                            ELSE SetNumber(h, m, c, val)
    BY <1>3 DEF Set
  <2>2. Meaning(c, "set", val).v = AsInt(val)
    BY <1>3 DEF Meaning
  <2> QED  BY <2>1, <2>2, SetBigIntIs, SetNumberIs
<1> QED  BY <1>1, <1>2, <1>3

\* Significant bits of the floating-point types.
Bits(t) == IF t = "float" THEN FloatBits ELSE DoubleBits

\* n is what the bytes of a variable that holds x are the bytes of.
Means(h, c, x, n) ==
  LET w == Size(h, c.type)
  IN /\ x.as = "int" => x.v = Num(n) /\ InRange(n, w, IsUnsigned(c.type))
     /\ x.as = "float" => /\ c.type \in {"float", "double"} /\ n \in 0..Weight[w] - 1
                          /\ FloatValue(n, w, Bits(c.type)) = x.v

\* Sizes and formats of float and double.
LEMMA FloatTypesAre ==
  ASSUME NEW h \in Hosts, NEW t \in {"float", "double"}
  PROVE  Size(h, t) \in 1..8 /\ IsFormat(Size(h, t), Bits(t))
         /\ Size(h, t) = IF t = "float" THEN 4 ELSE 8
<1>1. Size(h, "float") = 4 /\ Size(h, "double") = 8
  BY SizesAre
<1> QED  BY <1>1, BitsAre DEF Bits

\* The numbers that a program can pass are doubles.
LEMMA InputIs ==
  ASSUME NEW val \in Inputs
  PROVE  val \in JsValue /\ FloatInput(ToNumber(val))
<1>1. /\ val \in JsValue
      /\ val.t = "number" => Abs(val.v) < Power[NumberBits]
      /\ val.t = "boolean" => val.v \in {0, 1}
      /\ val.t = "Infinity" => val.v \in {-1, 1}
  BY InputsAssumption
<1>2. val.v \in Int /\ val = [t |-> val.t, v |-> val.v]
  BY <1>1 DEF JsValue
<1>3. CASE val.t = "number"
  <2>1. ToNumber(val) = Num(val.v)
    BY <1>3 DEF ToNumber
  <2> QED  BY <1>1, <1>2, <1>3, <2>1 DEF FloatInput, Num
<1>4. CASE val.t = "boolean"
  <2>1. ToNumber(val) = Num(val.v)
    BY <1>4 DEF ToNumber
  <2>2. Abs(val.v) < Power[NumberBits]
    <3>1. 0 \in 0..NumberBits + 1 /\ NumberBits \in 0..NumberBits + 1 /\ 0 # NumberBits
      BY BitsAre
    <3>2. 2 * Power[0] <= Power[NumberBits] /\ Power[0] = 1 /\ Power[NumberBits] \in Nat
      BY <3>1, PowerGrows, PowerIs
    <3> QED  BY <1>1, <1>4, <3>2 DEF Abs
  <2> QED  BY <1>1, <1>2, <2>1, <2>2 DEF FloatInput, Num
<1>5. CASE val.t = "Infinity"
  <2>1. ToNumber(val) = val
    BY <1>5 DEF ToNumber
  <2> QED  BY <1>1, <1>2, <1>5, <2>1 DEF FloatInput
<1>6. CASE val.t \notin {"number", "boolean", "Infinity"}
  <2>1. ToNumber(val) = NaN
    BY <1>6 DEF ToNumber
  <2> QED  BY <1>1, <2>1 DEF FloatInput
<1> QED  BY <1>3, <1>4, <1>5, <1>6

\* What a variable is said to hold is a JavaScript value.
LEMMA MeaningIs ==
  ASSUME NEW h \in Hosts, NEW c, NEW val \in Inputs, NEW setter
  PROVE  Meaning(c, setter, val) \in Value
<1>1. val \in JsValue /\ FloatInput(ToNumber(val)) /\ val.v \in Int
  BY InputIs, NumbersAre
<1>2. CASE c.type \in {"float", "double"} /\ setter = "set"
  <2>1. ToFloat(ToNumber(val), 4, FloatBits) \in JsValue
        /\ ToFloat(ToNumber(val), 8, DoubleBits) \in JsValue
    <3> DEFINE x == ToNumber(val)
    <3> HIDE DEF x
    <3>1. ToFloat(x, 4, FloatBits) \in JsValue
      <4>1. 4 \in 1..8 /\ IsFormat(4, FloatBits) /\ FloatInput(x)
        BY <1>1, BitsAre DEF x
      <4> QED  BY <4>1, FloatIs
    <3>2. ToFloat(x, 8, DoubleBits) \in JsValue
      <4>1. 8 \in 1..8 /\ IsFormat(8, DoubleBits) /\ FloatInput(x)
        BY <1>1, BitsAre DEF x
      <4> QED  BY <4>1, FloatIs
    <3> QED  BY <3>1, <3>2 DEF x
  <2>2. Meaning(c, setter, val).as = "float"
        /\ Meaning(c, setter, val) \in
             {[as |-> "float", v |-> ToFloat(ToNumber(val), 4, FloatBits)],
              [as |-> "float", v |-> ToFloat(ToNumber(val), 8, DoubleBits)]}
    BY <1>2 DEF Meaning
  <2> QED  BY <2>1, <2>2 DEF Value
<1>3. CASE ~(c.type \in {"float", "double"} /\ setter = "set")
  <2>1. ToInt32(val) \in JsValue /\ Num(val.v) \in JsValue /\ AsInt(val) \in JsValue
    <3>1. ToInt32(val) \in JsValue
      BY <1>1, ToInt32Is
    <3>2. ToNumber(val).v \in Int
      BY <1>1, NumbersAre
    <3>3. \A n \in Int : Num(n) \in JsValue
      BY DEF Num, JsValue, Kinds
    <3> QED  BY <1>1, <3>1, <3>2, <3>3 DEF AsInt
  <2> DEFINE x == CASE c.type = "bool" /\ setter = "set" -> ToInt32(val)
                    [] c.type \in {"char", "uchar"} /\ setter = "set" -> Num(val.v)
                    [] OTHER -> AsInt(val)
  <2>2. Meaning(c, setter, val) = [as |-> "int", v |-> x]
    BY <1>3 DEF Meaning
  <2>3. x \in JsValue
    <3> HIDE DEF ToInt32, Num, AsInt, JsValue
    <3>1. CASE c.type = "bool" /\ setter = "set"
      <4>1. c.type \notin {"char", "uchar"}
        BY <3>1
      <4> QED  BY <2>1, <3>1, <4>1
    <3>2. CASE c.type \in {"char", "uchar"} /\ setter = "set"
      <4>1. c.type # "bool"
        BY <3>2
      <4> QED  BY <2>1, <3>2, <4>1
    <3>3. CASE setter # "set" \/ c.type \notin {"bool", "char", "uchar"}
      BY <2>1, <3>3
    <3> QED  BY <3>1, <3>2, <3>3
  <2> HIDE DEF x
  <2> QED  BY <2>2, <2>3 DEF Value
<1> QED  BY <1>2, <1>3

\* Every setter throws, or writes the bytes of what it means to store.
LEMMA StoredIs ==
  ASSUME NEW h \in Hosts, NEW m, NEW c, c.type \in TypeNames, NEW val \in Inputs,
         NEW setter \in Setters
  PROVE  LET o == Stored(h, m, c, setter, val)
         IN \/ o = Failed(m)
            \/ \E n \in Int : /\ o = Wrote(m, c.at, Size(h, c.type), n, h.little)
                              /\ Means(h, c, Meaning(c, setter, val), n)
<1> DEFINE o == Stored(h, m, c, setter, val)
           meant == Meaning(c, setter, val)
           w == Size(h, c.type)
<1>0. val \in JsValue /\ FloatInput(ToNumber(val))
  BY InputIs
<1>1. CASE setter = "set" /\ c.type \in {"float", "double"}
  <2> DEFINE p == Bits(c.type)  x == ToNumber(val)  q == FloatPattern(x, w, p)
  <2>1. meant = [as |-> "float", v |-> ToFloat(x, w, p)]
    BY <1>1, FloatTypesAre DEF Meaning, Bits
  <2>2. o = WriteFloat(m, val, c.at, w, p, h.little)
    <3>1. c.type \notin {"bool", "char", "uchar"} /\ w = IF c.type = "float" THEN 4 ELSE 8
      BY <1>1, FloatTypesAre
    <3>2. o = Set(h, m, c, val)
      BY <1>1 DEF Stored
    <3> QED  BY <1>1, <3>1, <3>2 DEF Set, Bits
  <2>3. /\ q \in 0..Weight[w] - 1 /\ FloatValue(q, w, p) = ToFloat(x, w, p)
        /\ Weight[w] \in Nat
    <3>1. w \in 1..8 /\ IsFormat(w, p)
      BY <1>1, FloatTypesAre
    <3>2. Weight[w] \in Nat
      <4>1. w \in 0..8
        BY <3>1
      <4> QED  BY <4>1, WeightIs
    <3> HIDE DEF x, w, p
    <3> QED  BY <1>0, <3>1, <3>2, FloatIs DEF x
  <2>4. q \in Int
    <3> HIDE DEF q
    <3> QED  BY <2>3
  <2>5. Means(h, c, meant, q)
    <3> HIDE DEF q, x
    <3> QED  BY <1>1, <2>1, <2>3 DEF Means
  <2>6. o = Failed(m) \/ o = Wrote(m, c.at, w, q, h.little)
    BY <2>2 DEF WriteFloat
  <2> QED  BY <2>4, <2>5, <2>6
<1>2. ASSUME meant.as = "int", StoresInt(h, m, c, o, meant.v)
      PROVE  o = Failed(m) \/ \E n \in Int : /\ o = Wrote(m, c.at, w, n, h.little)
                                             /\ Means(h, c, meant, n)
  BY <1>2 DEF StoresInt, Means
<1>3. CASE setter = "set" /\ c.type \notin {"float", "double"}
  <2>1. meant.as = "int"
    BY <1>3 DEF Meaning
  <2>2. o = Set(h, m, c, val)
    BY <1>3 DEF Stored
  <2>3. StoresInt(h, m, c, Set(h, m, c, val), Meaning(c, "set", val).v)
    BY <1>0, <1>3, SetIs
  <2> QED  BY <1>2, <1>3, <2>1, <2>2, <2>3
<1>4. CASE setter # "set"
  <2>1. meant = [as |-> "int", v |-> AsInt(val)]
    BY <1>4 DEF Meaning
  <2>2. o = SetNumber(h, m, c, val) \/ o = SetBigInt(h, m, c, val)
    BY <1>4 DEF Stored, SetNumeric, Setters
  <2>3. StoresInt(h, m, c, o, meant.v)
    BY <1>0, <2>1, <2>2, SetBigIntIs, SetNumberIs
  <2> QED  BY <1>2, <2>1, <2>3
<1> QED  BY <1>1, <1>3, <1>4

-----------------------------------------------------------------------------
(* The inductive invariant: the variables lie side by side, and where the  *)
(* program stored a value the bytes of that value are.                     *)

\* Variables side by side are in the Buffer, in order and apart.
LEMMA PlacesAre ==
  ASSUME NEW h \in Hosts, NEW l \in Layouts, SideBySide(h, l)
  PROVE  /\ 1 \in DOMAIN l /\ DOMAIN l \subseteq Nat
         /\ \A i \in DOMAIN l :
              /\ l[i].type \in TypeNames /\ l[i].at \in Nat
              /\ Size(h, l[i].type) \in 1..8
              /\ l[i].at + Size(h, l[i].type) <= Length
              /\ l[1].at <= l[i].at
         /\ \A i, j \in DOMAIN l : i < j => l[i].at + Size(h, l[i].type) <= l[j].at
<1> DEFINE n == Len(l)
           At(i) == l[i].at
           End(i) == l[i].at + Size(h, l[i].type)
<1>1. l \in Seq([type : TypeNames, at : Nat]) /\ l # <<>>
  BY LayoutsAssumption
<1>2. n \in Nat \ {0} /\ DOMAIN l = 1..n
  <2> DEFINE e == <<>>
  <2> HIDE DEF e
  <2> QED  BY <1>1 DEF e
<1>3. \A i \in 1..n : l[i].type \in TypeNames /\ At(i) \in Nat /\ Size(h, l[i].type) \in 1..8
  <2> SUFFICES ASSUME NEW i \in 1..n
               PROVE  l[i].type \in TypeNames /\ At(i) \in Nat /\ Size(h, l[i].type) \in 1..8
    OBVIOUS
  <2>1. l[i] \in [type : TypeNames, at : Nat]
    <3> DEFINE R == [type : TypeNames, at : Nat]
    <3>1. l \in Seq(R)
      BY <1>1
    <3> HIDE DEF R
    <3>2. l[i] \in R
      BY <3>1
    <3> QED  BY <3>2 DEF R
  <2>2. \A t \in TypeNames : Size(h, t) \in Widths
    BY HostIs
  <2> HIDE DEF TypeNames, n
  <2> QED  BY <2>1, <2>2 DEF Widths
<1>4. \A i \in 1..n : End(i) = IF i = n THEN Length ELSE At(i + 1)
  BY <1>2 DEF SideBySide
<1>5. \A i \in 1..n : At(i) \in Nat /\ End(i) \in Nat /\ At(i) <= End(i)
  BY <1>3
<1> HIDE DEF n, At, End
<1>6. ASSUME NEW i \in 1..n, NEW j \in i..n  PROVE End(i) <= End(j)
  <2> DEFINE S == {k \in i..n : End(i) <= End(k)}
  <2>1. i \in S
    BY <1>2, <1>5
  <2>2. ASSUME NEW k \in i..n - 1, k \in S  PROVE k + 1 \in S
    <3>1. k \in 1..n /\ k # n /\ k + 1 \in 1..n /\ k + 1 \in i..n
      BY <1>2
    <3>2. End(k) = At(k + 1)
      BY <1>4, <3>1
    <3> QED  BY <1>5, <2>2, <3>1, <3>2
  <2> HIDE DEF S
  <2>3. i \in Nat /\ n \in Nat
    BY <1>2
  <2>4. i..n \subseteq S
    BY <2>1, <2>2, <2>3, RangeInduction
  <2> QED  BY <2>4 DEF S
<1>7. \A i \in 1..n : End(i) <= Length
  <2> SUFFICES ASSUME NEW i \in 1..n  PROVE End(i) <= Length
    OBVIOUS
  <2>1. n \in 1..n /\ n \in i..n
    BY <1>2
  <2>2. End(n) = Length
    BY <1>4, <2>1
  <2> QED  BY <1>6, <2>1, <2>2
<1>8. ASSUME NEW i \in 1..n, NEW j \in 1..n, i < j  PROVE End(i) <= At(j)
  <2>1. j - 1 \in 1..n /\ j - 1 # n /\ j - 1 \in i..n /\ (j - 1) + 1 = j
    BY <1>2, <1>8
  <2>2. End(j - 1) = At(j)
    BY <1>4, <2>1
  <2> QED  BY <1>6, <2>1, <2>2
<1>9. \A i \in 1..n : At(1) <= At(i)
  <2> SUFFICES ASSUME NEW i \in 1..n  PROVE At(1) <= At(i)
    OBVIOUS
  <2>1. 1 \in 1..n
    BY <1>2
  <2>2. CASE i = 1
    BY <1>5, <2>1, <2>2
  <2>3. CASE i # 1
    <3>1. End(1) <= At(i)
      BY <1>2, <1>8, <2>1, <2>3
    <3> QED  BY <1>5, <2>1, <3>1
  <2> QED  BY <2>2, <2>3
<1> USE DEF At, End
<1>10. 1 \in DOMAIN l /\ DOMAIN l \subseteq Nat
  BY <1>2
<1> QED  BY <1>2, <1>3, <1>7, <1>8, <1>9, <1>10

\* The bytes of variable c are those of what x says it holds.
HoldsValue(h, m, c, x) ==
  x.as # "unset" =>
    \E n \in Int : Means(h, c, x, n) /\ Holds(m, c.at, Size(h, c.type), n, h.little)

\* Where the variables are, and what their bytes hold.
Kept ==
  /\ host \in Hosts /\ layout \in Layouts /\ SideBySide(host, layout)
  /\ mem \in [0..Length - 1 -> 0..ByteValues - 1]
  /\ value \in [DOMAIN layout -> Value]
  /\ \A a \in 0..layout[1].at - 1 : mem[a] = 0
  /\ \A i \in DOMAIN layout : HoldsValue(host, mem, layout[i], value[i])

\* Every variable lies in the Buffer.
LEMMA VariableFits ==
  ASSUME Kept, NEW i \in DOMAIN layout
  PROVE  LET c == layout[i]
             w == Size(host, c.type)
         IN /\ c.type \in TypeNames /\ w \in 1..8 /\ Fits(mem, c.at, w)
            /\ c.at \in Nat /\ ToUint32(c.at) = c.at
<1>1. /\ layout[i].type \in TypeNames /\ layout[i].at \in Nat
      /\ Size(host, layout[i].type) \in 1..8
      /\ layout[i].at + Size(host, layout[i].type) <= Length
  BY PlacesAre DEF Kept
<1>2. Fits(mem, layout[i].at, Size(host, layout[i].type))
  BY <1>1, LengthAssumption DEF Fits, Kept
<1>3. ToUint32(layout[i].at) = layout[i].at
  BY <1>1, <1>2, FitsIs
<1> QED  BY <1>1, <1>2, <1>3

\* At first no variable holds a value.
LEMMA InitKept == Init => Kept
<1> SUFFICES ASSUME Init  PROVE Kept
  OBVIOUS
<1>1. host \in Hosts /\ layout \in Layouts /\ SideBySide(host, layout)
  BY DEF Init
<1>2. layout[1].at \in Nat /\ layout[1].at <= Length
  <2>1. /\ 1 \in DOMAIN layout
        /\ \A i \in DOMAIN layout :
             /\ layout[i].at \in Nat /\ Size(host, layout[i].type) \in 1..8
             /\ layout[i].at + Size(host, layout[i].type) <= Length
    BY <1>1, PlacesAre
  <2> QED  BY <2>1, LengthAssumption
<1>3. Length \in Nat
  <2> DEFINE a == Weight[4]
  <2>1. Length \in 0..a - 1
    BY LengthAssumption
  <2> QED  BY <2>1
<1>4. /\ mem \in [0..Length - 1 -> 0..ByteValues - 1]
      /\ \A a \in 0..Length - 1 : mem[a] = 0
  <2>1. 0 \in 0..ByteValues - 1
    BY BytesAre
  <2> QED  BY <2>1 DEF Init
<1>5. \A a \in 0..layout[1].at - 1 : mem[a] = 0
  BY <1>2, <1>3, <1>4
<1>6. /\ value \in [DOMAIN layout -> Value]
      /\ \A i \in DOMAIN layout : HoldsValue(host, mem, layout[i], value[i])
  <2>1. Unset \in Value /\ Unset.as = "unset"
    BY DEF Unset, Value, NaN, JsValue, Kinds
  <2>2. value = [i \in DOMAIN layout |-> Unset]
    BY DEF Init
  <2> HIDE DEF Value
  <2> QED  BY <2>1, <2>2 DEF HoldsValue
<1> QED  BY <1>1, <1>4, <1>5, <1>6 DEF Kept

\* Storing in one variable leaves the bytes of the others alone.
LEMMA StoreKeeps ==
  ASSUME Kept, NEW i \in DOMAIN layout, NEW setter \in Setters, NEW val \in Inputs,
         Store(i, setter, val)
  PROVE  Kept'
<1> DEFINE c == layout[i]
           w == Size(host, c.type)
           o == Stored(host, mem, c, setter, val)
           meant == Meaning(c, setter, val)
<1>1. /\ mem' = o.mem /\ host' = host /\ layout' = layout
      /\ value' = IF o.ok THEN [value EXCEPT ![i] = meant] ELSE value
  BY DEF Store
<1>2. /\ c.type \in TypeNames /\ w \in 1..8 /\ Fits(mem, c.at, w) /\ host.little \in BOOLEAN
      /\ c.at \in Nat
  BY VariableFits, HostIs DEF Kept
<1>3. \/ o = Failed(mem)
      \/ \E n \in Int : o = Wrote(mem, c.at, w, n, host.little) /\ Means(host, c, meant, n)
  BY <1>2, StoredIs DEF Kept
<1>4. CASE o = Failed(mem)
  <2>1. mem' = mem /\ value' = value
    BY <1>1, <1>4 DEF Failed
  <2> QED  BY <1>1, <2>1 DEF Kept
<1>5. CASE o # Failed(mem)
  <2>1. PICK n \in Int : o = Wrote(mem, c.at, w, n, host.little) /\ Means(host, c, meant, n)
    BY <1>3, <1>5
  <2> DEFINE s == Written(mem, c.at, w, n, host.little)
  <2>2. mem' = s /\ value' = [value EXCEPT ![i] = meant]
    BY <1>1, <2>1 DEF Wrote
  <2>3. /\ DOMAIN s = DOMAIN mem
        /\ Holds(s, c.at, w, n, host.little)
        /\ \A a \in DOMAIN mem : a \notin c.at..c.at + w - 1 => s[a] = mem[a]
    BY <1>2, WrittenIs
  <2>4. s \in [0..Length - 1 -> 0..ByteValues - 1]
    <3> DEFINE A == 0..Length - 1
    <3>1. mem \in [A -> 0..ByteValues - 1]
      BY DEF Kept
    <3> HIDE DEF A
    <3> QED  BY <1>2, <3>1, WrittenBytes DEF A
  <2>5. meant \in Value
    BY MeaningIs DEF Kept
  <2> HIDE DEF s, meant, o
  <2>6. /\ \A j \in DOMAIN layout :
             /\ layout[j].at \in Nat /\ Size(host, layout[j].type) \in 1..8
             /\ layout[j].at + Size(host, layout[j].type) <= Length
             /\ layout[1].at <= layout[j].at
        /\ \A j, k \in DOMAIN layout :
             j < k => layout[j].at + Size(host, layout[j].type) <= layout[k].at
        /\ 1 \in DOMAIN layout /\ DOMAIN layout \subseteq Nat
    BY PlacesAre DEF Kept
  <2>7. \A a \in 0..layout[1].at - 1 : s[a] = 0
    <3> SUFFICES ASSUME NEW a \in 0..layout[1].at - 1  PROVE s[a] = 0
      OBVIOUS
    <3>1. layout[1].at \in Nat /\ layout[1].at <= c.at /\ c.at + w <= Length
      BY <2>6
    <3>2. mem[a] = 0 /\ DOMAIN mem = 0..Length - 1
      BY DEF Kept
    <3> HIDE DEF c, w
    <3>3. a \in 0..Length - 1 /\ a \notin c.at..c.at + w - 1
      BY <1>2, <3>1, LengthAssumption
    <3> QED  BY <2>3, <3>2, <3>3
  <2>8. value' \in [DOMAIN layout -> Value] /\ value'[i] = meant
        /\ \A j \in DOMAIN layout : j # i => value'[j] = value[j]
    <3> HIDE DEF Value, c, w
    <3>1. value \in [DOMAIN layout -> Value]
      BY DEF Kept
    <3> QED  BY <2>2, <2>5, <3>1
  <2>9. ASSUME NEW j \in DOMAIN layout  PROVE HoldsValue(host, s, layout[j], value'[j])
    <3>1. CASE j = i
      BY <2>1, <2>3, <2>8, <3>1 DEF HoldsValue
    <3>2. CASE j # i /\ value[j].as # "unset"
      <4> DEFINE d == layout[j]
                 x == Size(host, d.type)
      <4>1. value'[j] = value[j]
        BY <2>8, <3>2
      <4>2. PICK k \in Int : Means(host, d, value[j], k) /\ Holds(mem, d.at, x, k, host.little)
        BY <3>2 DEF Kept, HoldsValue
      <4>3. /\ x \in 1..8 /\ d.at \in Nat /\ ToUint32(d.at) = d.at
            /\ d.at + x <= Length
        BY <2>6, VariableFits
      <4>4. \/ d.at + x <= c.at
            \/ c.at + w <= d.at
        <5>1. j \in Nat /\ i \in Nat
          BY <2>6
        <5>2. j < i \/ i < j
          BY <3>2, <5>1
        <5> QED  BY <2>6, <5>2
      <4> HIDE DEF c, w, d, x
      <4>5. \A a \in d.at..d.at + x - 1 : a \in 0..Length - 1 /\ a \notin c.at..c.at + w - 1
        BY <1>2, <4>3, <4>4, LengthAssumption
      <4>6. \A a \in d.at..d.at + x - 1 : s[a] = mem[a]
        <5>1. DOMAIN mem = 0..Length - 1
          BY DEF Kept
        <5> QED  BY <2>3, <4>5, <5>1
      <4>7. Holds(s, d.at, x, k, host.little)
        <5> DEFINE at == d.at  little == host.little
        <5>1. /\ at \in Nat /\ ToUint32(at) = at /\ x \in 1..8 /\ little \in BOOLEAN
              /\ Holds(mem, at, x, k, little) /\ \A a \in at..at + x - 1 : s[a] = mem[a]
          BY <1>2, <4>2, <4>3, <4>6
        <5> HIDE DEF at, little
        <5>2. Holds(s, at, x, k, little)
          BY <5>1, HoldsStill
        <5> QED  BY <5>2 DEF at, little
      <4> QED  BY <4>1, <4>2, <4>7 DEF HoldsValue, d, x
    <3>3. CASE j # i /\ value[j].as = "unset"
      BY <2>8, <3>3 DEF HoldsValue
    <3> QED  BY <3>1, <3>2, <3>3
  <2>10. Kept'
    BY <1>1, <2>2, <2>4, <2>7, <2>8, <2>9 DEF Kept
  <2> QED  BY <2>10
<1> QED  BY <1>4, <1>5

\* Kept is inductive.
LEMMA NextKeeps == Kept /\ [Next]_vars => Kept'
<1> SUFFICES ASSUME Kept, [Next]_vars  PROVE Kept'
  OBVIOUS
<1>1. CASE Next
  <2>1. PICK i \in DOMAIN layout, setter \in Setters, val \in Inputs : Store(i, setter, val)
    BY <1>1 DEF Next
  <2> QED  BY <2>1, StoreKeeps
<1>2. CASE UNCHANGED vars
  BY <1>2 DEF vars, Kept
<1> QED  BY <1>1, <1>2

\* The values that were stored are in the bytes of their variables, always.
THEOREM ValuesKept == Spec => []Kept
BY InitKept, NextKeeps, PTL DEF Spec

\* The bytes stay bytes and the values JavaScript values, for every input.
THEOREM MemoryTypeCorrect == Spec => []TypeOK
<1>1. Kept => TypeOK
  BY DEF Kept, TypeOK
<1> QED  BY ValuesKept, <1>1, PTL

\* What a variable holds, of an integer.
LEMMA KeptInteger ==
  ASSUME Kept, NEW i \in DOMAIN layout, value[i].as = "int"
  PROVE  LET c == layout[i]
             w == Size(host, c.type)
         IN \E n \in Int : /\ value[i].v = Num(n) /\ InRange(n, w, IsUnsigned(c.type))
                           /\ Holds(mem, c.at, w, n, host.little)
BY DEF Kept, HoldsValue, Means

-----------------------------------------------------------------------------
(* Getters.                                                                *)

\* The getters of integers find what the bytes hold.
LEMMA KeptRoundTrip == Kept => RoundTrip
<1> SUFFICES ASSUME Kept  PROVE RoundTrip
  OBVIOUS
<1>1. ASSUME NEW i \in DOMAIN layout, value[i].as = "int"
      PROVE  LET c == layout[i]
                 n == value[i].v.v
             IN /\ GetBigInt(host, mem, c) = Big(n)
                /\ GetNumber(host, mem, c) = AsNumber(host, c.type, n)
                /\ c.type \notin {"float", "double"} => Get(host, mem, c) = Shown(host, c.type, n)
  <2>1. PICK n \in Int :
          /\ value[i].v = Num(n)
          /\ InRange(n, Size(host, layout[i].type), IsUnsigned(layout[i].type))
          /\ Holds(mem, layout[i].at, Size(host, layout[i].type), n, host.little)
    BY <1>1, KeptInteger
  <2>2. value[i].v.v = n
    BY <2>1 DEF Num
  <2>3. host \in Hosts /\ layout[i].type \in TypeNames
        /\ Fits(mem, layout[i].at, Size(host, layout[i].type))
    BY VariableFits DEF Kept
  <2> QED  BY <2>1, <2>2, <2>3, GettersAre
<1>2. \A a \in 0..layout[1].at - 1 : mem[a] = 0
  BY DEF Kept
<1> QED  BY <1>1, <1>2 DEF RoundTrip, AsNumber

\* A variable gives back the integer that was stored in it, whatever is stored
\* in its neighbours and whatever fails: for every byte order, any sizes that C
\* gives the types, and any row of variables.  (buffer.js, createCType of ref.js)
THEOREM IntegersComeBack == Spec => []RoundTrip
BY ValuesKept, KeptRoundTrip, PTL

\* The getters of floats find what the bytes hold.
LEMMA KeptFloat == Kept => FloatRoundTrip
<1> SUFFICES ASSUME Kept, NEW i \in DOMAIN layout, value[i].as = "float"
             PROVE  Get(host, mem, layout[i]) = value[i].v
  BY DEF FloatRoundTrip
<1> DEFINE c == layout[i]
           w == Size(host, c.type)
           p == Bits(c.type)
           u == Unsigned(mem, c.at, w, host.little)
<1>1. PICK n \in Int : Means(host, c, value[i], n) /\ Holds(mem, c.at, w, n, host.little)
  BY DEF Kept, HoldsValue
<1>2. c.type \in {"float", "double"} /\ n \in 0..Weight[w] - 1 /\ FloatValue(n, w, p) = value[i].v
  BY <1>1 DEF Means
<1>3. w \in 1..8 /\ Fits(mem, c.at, w) /\ w = (IF c.type = "float" THEN 4 ELSE 8)
  BY <1>2, VariableFits, FloatTypesAre DEF Kept
<1>4. u = n % Weight[w]
  BY <1>1, <1>3, UnsignedIs
<1>5. n % Weight[w] = n
  <2> DEFINE a == Weight[w]
  <2>1. a \in Nat \ {0}
    <3>1. w \in 0..8
      BY <1>3
    <3> QED  BY <3>1, WeightIs
  <2>2. n \in 0..a - 1
    BY <1>2
  <2> HIDE DEF a
  <2> QED  BY <2>1, <2>2, SmallRemainder DEF a
<1>6. Inside(mem, c.at, w)
  BY <1>3, FitsIs
<1>7. Get(host, mem, c) = ReadFloat(mem, c.at, w, p, host.little)
  <2>1. c.type \notin {"bool", "char", "uchar"}
    BY <1>2
  <2> QED  BY <1>2, <1>3, <2>1 DEF Get, Bits
<1>8. ReadFloat(mem, c.at, w, p, host.little) = FloatValue(u, w, p)
  BY <1>6 DEF ReadFloat
<1> QED  BY <1>2, <1>4, <1>5, <1>7, <1>8

\* A float gives back the number that was stored in it, rounded once to its
\* precision with ties to even, or the infinity beyond its range, in any IEEE
\* format.  (buffer.js: writeFloat, readFloat, writeDouble, readDouble)
THEOREM FloatsComeBack == Spec => []FloatRoundTrip
BY ValuesKept, KeptFloat, PTL

-----------------------------------------------------------------------------
(* C.                                                                      *)

\* The ffi_type of a type has the width of the type, and its sign.
LEMMA FfiTypeIs ==
  ASSUME NEW h \in Hosts, NEW t \in TypeNames \ {"float", "double"}
  PROVE  LET f == FfiType(h, t)
         IN IF f = "pointer" THEN Size(h, t) = Size(h, "size_t")
            ELSE Size(h, f) = Size(h, t) /\ (f \in FfiSigned <=> ~IsUnsigned(t))
<1> DEFINE f == FfiType(h, t)
<1>1. /\ Size(h, "int8") = 1 /\ Size(h, "uint8") = 1 /\ Size(h, "bool") = 1
      /\ Size(h, "byte") = 1 /\ Size(h, "char") = 1 /\ Size(h, "uchar") = 1
      /\ Size(h, "int32") = 4 /\ Size(h, "uint32") = 4
      /\ Size(h, "int64") = 8 /\ Size(h, "uint64") = 8
      /\ Size(h, "long") \in {4, 8} /\ Size(h, "longlong") \in {4, 8}
      /\ Size(h, "ulong") \in {4, 8} /\ Size(h, "ulonglong") \in {4, 8}
  BY SizesAre
<1>2. CASE t \in {"size_t", "ssize_t", "intptr_t", "uintptr_t"}
  <2>1. f = "pointer"
    BY <1>2 DEF FfiType
  <2>2. Size(h, t) = Size(h, "size_t")
    BY <1>2 DEF Size
  <2> QED  BY <2>1, <2>2
<1>3. CASE t \in {"long", "longlong"}
  <2>1. f = IF Size(h, t) = 4 THEN "int32" ELSE "int64"
    BY <1>3 DEF FfiType
  <2>2. Size(h, f) = Size(h, t) /\ f # "pointer"
    BY <1>1, <1>3, <2>1
  <2>3. f \in FfiSigned /\ ~IsUnsigned(t)
    BY <1>3, <2>1 DEF FfiSigned, IsUnsigned
  <2> QED  BY <2>2, <2>3
<1>4. CASE t \in {"ulong", "ulonglong"}
  <2>1. f = IF Size(h, t) = 4 THEN "uint32" ELSE "uint64"
    BY <1>4 DEF FfiType
  <2>2. Size(h, f) = Size(h, t) /\ f # "pointer"
    BY <1>1, <1>4, <2>1
  <2>3. f \notin FfiSigned /\ IsUnsigned(t)
    BY <1>4, <2>1 DEF FfiSigned, IsUnsigned
  <2> QED  BY <2>2, <2>3
<1>5. CASE t \in {"bool", "byte"}
  <2>1. f = "uint8"
    BY <1>5 DEF FfiType
  <2>2. f \notin FfiSigned /\ IsUnsigned(t)
    BY <1>5, <2>1 DEF FfiSigned, IsUnsigned
  <2> QED  BY <1>1, <1>5, <2>1, <2>2
<1>6. CASE t \in {"int8", "uint8", "int16", "uint16", "int32", "uint32", "int64", "uint64",
                  "char", "uchar", "short", "ushort", "int", "uint"}
  <2>1. f = t
    BY <1>6 DEF FfiType
  <2>2. t # "pointer"
    BY <1>6
  <2>3. t \in FfiSigned <=> ~IsUnsigned(t)
    BY <1>6 DEF FfiSigned, IsUnsigned
  <2> QED  BY <2>1, <2>2, <2>3
<1>7. \/ t \in {"size_t", "ssize_t", "intptr_t", "uintptr_t"}
      \/ t \in {"long", "longlong"} \/ t \in {"ulong", "ulonglong"} \/ t \in {"bool", "byte"}
      \/ t \in {"int8", "uint8", "int16", "uint16", "int32", "uint32", "int64", "uint64",
                "char", "uchar", "short", "ushort", "int", "uint"}
  BY DEF TypeNames, Typedefs, Fixed
<1> QED  BY <1>2, <1>3, <1>4, <1>5, <1>6, <1>7

\* C finds what the bytes hold.
LEMMA KeptCalleeSees == Kept => CalleeSees
<1> SUFFICES ASSUME Kept, NEW i \in DOMAIN layout, value[i].as = "int",
                    layout[i].type \notin {"float", "double"}
             PROVE  LET c == layout[i]
                        n == value[i].v.v
                    IN SeenByC(host, mem, c) =
                         IF FfiType(host, c.type) = "pointer"
                         THEN n % (2 * Half(Size(host, "size_t"))) ELSE n
  BY DEF CalleeSees
<1> DEFINE c == layout[i]
           w == Size(host, c.type)
           f == FfiType(host, c.type)
           u == IsUnsigned(c.type)
<1>1. PICK n \in Int : /\ value[i].v = Num(n) /\ InRange(n, w, u)
                       /\ Holds(mem, c.at, w, n, host.little)
  BY KeptInteger
<1>2. value[i].v.v = n
  BY <1>1 DEF Num
<1>3. w \in 1..8 /\ u \in BOOLEAN /\ host \in Hosts /\ c.type \in TypeNames
  BY VariableFits DEF Kept, IsUnsigned
<1>4. IF f = "pointer" THEN w = Size(host, "size_t")
      ELSE Size(host, f) = w /\ (f \in FfiSigned <=> ~u)
  BY <1>3, FfiTypeIs
<1> DEFINE x == Unsigned(mem, c.at, w, host.little)
<1>5. x = n % Weight[w] /\ Weight[w] = 2 * Half(w)
  BY <1>1, <1>3, UnsignedIs, HalfIs
<1>6. IF u THEN x = n ELSE Signed(x, w) = n
  BY <1>1, <1>3, <1>5, SignIs
<1>7. SeenByC(host, mem, c) = IF f \in FfiSigned THEN Signed(x, w) ELSE x
  BY <1>4 DEF SeenByC
<1>8. "pointer" \notin FfiSigned
  BY DEF FfiSigned
<1> HIDE DEF c, w, f, u, x
<1>9. SeenByC(host, mem, c) = IF f = "pointer" THEN n % (2 * Half(Size(host, "size_t"))) ELSE n
  BY <1>3, <1>4, <1>5, <1>6, <1>7, <1>8
<1> QED  BY <1>2, <1>9 DEF c, f

\* C finds the integers that JavaScript stored, on every host: the ffi_type of
\* each type has the width and the sign of its codec.  (ffi.js:38-81, type.js)
THEOREM CalleesSeeIntegers == Spec => []CalleeSees
BY ValuesKept, KeptCalleeSees, PTL

-----------------------------------------------------------------------------
(* Results of calls.                                                       *)

\* The getter finds the result in the bytes that libffi wrote.
LEMMA KeptResultRead == Kept => ResultRead
<1> SUFFICES ASSUME Kept, NEW i \in DOMAIN layout, value[i].as = "int",
                    layout[i].type \notin {"float", "double"},
                    Size(host, "long") = FfiArgSize(host)
             PROVE  LET t == layout[i].type
                        n == value[i].v.v
                    IN /\ ReturnedSize(host, t) <= ResultSize(host, t)
                       /\ host.little \/ ReturnedSize(host, t) = Size(host, t) =>
                            GetBigInt(host, Returned(host, t, n), [type |-> t, at |-> 0]) = Big(n)
  BY DEF ResultRead
<1> DEFINE t == layout[i].type
           w == Size(host, t)
           r == ReturnedSize(host, t)
           u == IsUnsigned(t)
<1>1. PICK n \in Int : value[i].v = Num(n) /\ InRange(n, w, u)
  BY KeptInteger
<1>2. value[i].v.v = n
  BY <1>1 DEF Num
<1>3. w \in 1..8 /\ t \in TypeNames /\ host \in Hosts /\ host.little \in BOOLEAN
  BY VariableFits, HostIs DEF Kept
<1>4. FfiArgSize(host) \in {4, 8}
  BY <1>3, SizesAre DEF FfiArgSize
<1>5. r = ResultSize(host, t) /\ r \in 1..8 /\ w <= r
  <2> DEFINE a == FfiArgSize(host)  l == Size(host, "long")
  <2>1. r = IF w < a THEN a ELSE w
    BY DEF ReturnedSize
  <2>2. ResultSize(host, t) = IF w >= l THEN w ELSE a
    BY DEF ResultSize
  <2>3. l = a
    OBVIOUS
  <2> HIDE DEF a, l, w, r
  <2> QED  BY <1>3, <1>4, <2>1, <2>2, <2>3 DEF a
<1> DEFINE b == [a \in 0..ResultSize(host, t) - 1 |-> 0]
           s == Written(b, 0, r, n, host.little)
           c == [type |-> t, at |-> 0]
<1>6. r \in 0..Weight[4] - 1
  <2> DEFINE a == Weight[4]
  <2>1. a \in Nat /\ a >= 16
    BY FourBytesAre
  <2>2. r \in 0..a - 1
    <3> HIDE DEF a, r
    <3> QED  BY <1>5, <2>1
  <2> QED  BY <2>2
<1>7. Fits(b, 0, r)
  <2>1. DOMAIN b = 0..r - 1
    BY <1>5
  <2> HIDE DEF b, r
  <2>2. 0 \in Nat /\ 0 + r <= r
    BY <1>5
  <2> QED  BY <1>6, <2>1, <2>2 DEF Fits
<1>8. DOMAIN s = 0..r - 1 /\ Holds(s, 0, r, n, host.little) /\ ToUint32(0) = 0
  <2>1. DOMAIN b = 0..r - 1
    BY <1>5
  <2> HIDE DEF b, r
  <2>2. DOMAIN s = DOMAIN b /\ Holds(s, 0, r, n, host.little)
    BY <1>3, <1>5, <1>7, WrittenIs
  <2>3. ToUint32(0) = 0
    BY <1>5, <1>7, FitsIs
  <2> QED  BY <2>1, <2>2, <2>3
<1>9. Fits(s, 0, w)
  <2> HIDE DEF s, r, w
  <2>1. 0 \in Nat /\ 0 + w <= r
    BY <1>3, <1>5
  <2> QED  BY <1>6, <1>8, <2>1 DEF Fits
<1>10. ASSUME host.little \/ r = w  PROVE GetBigInt(host, s, c) = Big(n)
  <2>1. Holds(s, 0, w, n, host.little)
    <3> HIDE DEF s, r, w
    <3>1. CASE r = w
      BY <1>8, <3>1
    <3>2. CASE host.little
      <4>1. \A k \in 0..w - 1 : k \in 0..r - 1
        BY <1>3, <1>5
      <4>2. \A k \in Int : /\ AddressOf(0, w, k, host.little) = k
                           /\ AddressOf(0, r, k, host.little) = k
        BY <1>8, <3>2 DEF AddressOf
      <4> QED  BY <1>8, <4>1, <4>2 DEF Holds
    <3> QED  BY <1>10, <3>1, <3>2
  <2>2. c.type = t /\ c.at = 0
    OBVIOUS
  <2> HIDE DEF s, c, t
  <2> QED  BY <1>1, <1>3, <1>9, <2>1, <2>2, GettersAre
<1>11. Returned(host, t, n) = s
  BY DEF Returned
<1> HIDE DEF s
<1>12. r <= ResultSize(host, t)
  BY <1>5
<1> QED  BY <1>2, <1>10, <1>11, <1>12 DEF t, c, r, w

\* The Buffer of a result is as large as what libffi writes to it, and the
\* integer that C returned is read from it, where long is as wide as ffi_arg
\* and the low byte comes first or nothing is widened.  (_foreign_function.js)
THEOREM ResultsAreRead == Spec => []ResultRead
BY ValuesKept, KeptResultRead, PTL

-----------------------------------------------------------------------------
(* What set() accepts.                                                     *)

\* A writer that wrote did not throw, and one that failed did.
LEMMA OutcomesAre ==
  \A m, at, w, n, little : Wrote(m, at, w, n, little).ok = TRUE /\ Failed(m).ok = FALSE
BY DEF Wrote, Failed

\* An outcome tells whether the writer threw.
Tells(o, accepted) == IF accepted THEN o.ok = TRUE ELSE o.ok = FALSE

\* Writers take the integers of their width and no other.
LEMMA WriteUIntTells ==
  ASSUME NEW m, NEW at, NEW w, NEW little, NEW n, Inside(m, at, w)
  PROVE  Tells(WriteUInt(m, Num(n), at, w, little), InRange(n, w, TRUE))
<1> DEFINE v == Num(n)
<1>1. v.t = "number" /\ v.v = n /\ ToNumber(v) = v
  BY DEF Num, ToNumber
<1> HIDE DEF v
<1>2. CheckInt(m, v, at, w, TRUE) <=> InRange(n, w, TRUE)
  BY <1>1 DEF CheckInt
<1>3. CASE InRange(n, w, TRUE)
  <2>1. WriteUInt(m, v, at, w, little) = Wrote(m, at, w, n, little)
    BY <1>1, <1>2, <1>3 DEF WriteUInt
  <2> QED  BY <1>3, <2>1, OutcomesAre DEF Tells, v
<1>4. CASE ~InRange(n, w, TRUE)
  <2>1. WriteUInt(m, v, at, w, little) = Failed(m)
    BY <1>1, <1>2, <1>4 DEF WriteUInt
  <2> QED  BY <1>4, <2>1, OutcomesAre DEF Tells, v
<1> QED  BY <1>3, <1>4

\* The writers of signed numbers take those in range.
LEMMA WriteIntTells ==
  ASSUME NEW m, NEW at, NEW w, NEW little, NEW n, Inside(m, at, w)
  PROVE  Tells(WriteInt(m, Num(n), at, w, little), InRange(n, w, FALSE))
<1> DEFINE v == Num(n)
<1>1. v.t = "number" /\ v.v = n /\ ToNumber(v) = v
  BY DEF Num, ToNumber
<1> HIDE DEF v
<1>2. CheckInt(m, v, at, w, FALSE) <=> InRange(n, w, FALSE)
  BY <1>1 DEF CheckInt
<1>3. CASE InRange(n, w, FALSE)
  <2>1. WriteInt(m, v, at, w, little) = Wrote(m, at, w, n, little)
    BY <1>1, <1>2, <1>3 DEF WriteInt
  <2> QED  BY <1>3, <2>1, OutcomesAre DEF Tells, v
<1>4. CASE ~InRange(n, w, FALSE)
  <2>1. WriteInt(m, v, at, w, little) = Failed(m)
    BY <1>1, <1>2, <1>4 DEF WriteInt
  <2> QED  BY <1>4, <2>1, OutcomesAre DEF Tells, v
<1> QED  BY <1>3, <1>4

\* The writers of BigInts take those in range.
LEMMA WriteBigTells ==
  ASSUME NEW h, NEW m, NEW c, NEW n, Inside(m, c.at, 8)
  PROVE  Tells(WriteBig(h, m, c, Big(n)), InRange(n, 8, IsUnsigned(c.type)))
<1> DEFINE v == Big(n)
           accepted == InRange(n, 8, IsUnsigned(c.type))
<1>1. v.t = "bigint" /\ v.v = n
  BY DEF Big
<1> HIDE DEF v
<1>2. CheckIntBI(m, v, c.at, IsUnsigned(c.type)) <=> accepted
  BY <1>1 DEF CheckIntBI
<1>3. CASE accepted
  <2>1. WriteBig(h, m, c, v) = Wrote(m, c.at, 8, n, h.little)
    BY <1>1, <1>2, <1>3, WriteBigAs
  <2> QED  BY <1>3, <2>1, OutcomesAre DEF Tells, v
<1>4. CASE ~accepted
  <2>1. WriteBig(h, m, c, v) = Failed(m)
    BY <1>1, <1>2, <1>4, WriteBigAs
  <2> QED  BY <1>4, <2>1, OutcomesAre DEF Tells, v
<1> QED  BY <1>3, <1>4

\* set() accepts the proper values of a type, where there is room for them.
LEMMA ProperIsSet ==
  ASSUME NEW h \in Hosts, NEW m, NEW c, c.type \in TypeNames,
         Inside(m, c.at, Size(h, c.type)), MaxSizeIs8(h, c.type) => Size(h, c.type) = 8,
         NEW val \in Proper(h, c.type)
  PROVE  Set(h, m, c, val).ok
<1> DEFINE t == c.type
           w == Size(h, t)
           u == IsUnsigned(t)
<1>1. w \in 1..8 /\ u \in BOOLEAN /\ t \in TypeNames
  BY HostIs DEF Widths, IsUnsigned
<1>2. CASE t = "bool"
  <2>1. val \in [t : {"boolean"}, v : {0, 1}]
    BY <1>2 DEF Proper
  <2> DEFINE n == val.v
  <2>2. val.t = "boolean" /\ n \in {0, 1}
    BY <2>1
  <2> HIDE DEF n
  <2>3. w = 1 /\ u = TRUE
    BY <1>1, <1>2, SizesAre DEF IsUnsigned
  <2>4. ToInt32(val) = Num(n)
    <3> DEFINE a == Weight[4]
    <3>1. a \in Nat /\ a >= 16 /\ a = 2 * Half(4) /\ Half(4) \in Nat
      BY FourBytesAre, HalfIs
    <3> HIDE DEF a
    <3>2. (0 * a + n) % a = n
      BY <2>2, <3>1, DivisionIsUnique
    <3>3. n % a = n
      BY <2>2, <3>1, <3>2
    <3>4. Signed(n, 4) = n
      BY <2>2, <3>1 DEF Signed
    <3>5. ToNumber(val).t = "number"
      BY <2>2 DEF ToNumber, Num
    <3> QED  BY <3>3, <3>4, <3>5 DEF ToInt32, a, n
  <2>5. Set(h, m, c, val) = SetNumber(h, m, c, Num(n))
    <3> DEFINE v == ToInt32(val)
    <3>1. Set(h, m, c, val) = SetNumber(h, m, c, v)
      <4> HIDE DEF v
      <4>1. Set(h, m, c, val) = SetNumber(h, m, c, ToInt32(val))
        BY <1>2, <2>2 DEF Set
      <4> QED  BY <4>1 DEF v
    <3> QED  BY <2>4, <3>1
  <2>6. SetNumber(h, m, c, Num(n)) = WriteUInt(m, Num(n), c.at, 1, h.little)
    BY <2>3 DEF SetNumber
  <2>7. n \in Int /\ InRange(n, 1, TRUE)
    <3>1. Half(1) \in Nat \ {0}
      BY HalfIs
    <3> QED  BY <2>2, <3>1 DEF InRange, MinInt, MaxInt
  <2>8. Tells(WriteUInt(m, Num(n), c.at, 1, h.little), InRange(n, 1, TRUE))
    BY <2>3, WriteUIntTells
  <2> QED  BY <2>5, <2>6, <2>7, <2>8 DEF Tells
<1>3. CASE t \in {"char", "uchar"}
  <2> DEFINE n == val.v
  <2>1. val \in [t : {"string"}, v : 0..MaxInt(w, t = "uchar")]
    BY <1>3 DEF Proper
  <2>2. val.t = "string" /\ n \in 0..MaxInt(w, t = "uchar")
    BY <2>1
  <2> HIDE DEF n
  <2>3. w = 1
    BY <1>3, SizesAre
  <2>4. CASE t = "char"
    <3>1. Set(h, m, c, val) = WriteInt(m, Num(n), c.at, 1, h.little)
      BY <2>2, <2>4 DEF Set, n
    <3>2. InRange(n, 1, FALSE)
      <4>1. (t = "uchar") = FALSE
        BY <2>4
      <4>2. n \in 0..MaxInt(1, FALSE)
        BY <2>2, <2>3, <4>1
      <4>3. Half(1) \in Nat \ {0}
        BY HalfIs
      <4> QED  BY <4>2, <4>3 DEF InRange, MinInt, MaxInt
    <3>3. Tells(WriteInt(m, Num(n), c.at, 1, h.little), InRange(n, 1, FALSE))
      BY <2>3, WriteIntTells
    <3> QED  BY <3>1, <3>2, <3>3 DEF Tells
  <2>5. CASE t = "uchar"
    <3>1. Set(h, m, c, val) = WriteUInt(m, Num(n), c.at, 1, h.little)
      BY <2>2, <2>5 DEF Set, n
    <3>2. InRange(n, 1, TRUE)
      <4>1. (t = "uchar") = TRUE
        BY <2>5
      <4>2. n \in 0..MaxInt(1, TRUE)
        BY <2>2, <2>3, <4>1
      <4>3. Half(1) \in Nat \ {0}
        BY HalfIs
      <4> QED  BY <4>2, <4>3 DEF InRange, MinInt, MaxInt
    <3>3. Tells(WriteUInt(m, Num(n), c.at, 1, h.little), InRange(n, 1, TRUE))
      BY <2>3, WriteUIntTells
    <3> QED  BY <3>1, <3>2, <3>3 DEF Tells
  <2> QED  BY <1>3, <2>4, <2>5
<1>4. CASE t \in {"float", "double"}
  <2>1. t \notin {"bool", "char", "uchar"} /\ w = (IF t = "float" THEN 4 ELSE 8)
    BY <1>4, SizesAre
  <2>2. val \in [t : {"number", "NaN", "Infinity"}, v : Int]
    BY <1>4, <2>1 DEF Proper
  <2>3. val.t # "bigint"
    BY <2>2
  <2>4. \E p : Set(h, m, c, val) = WriteFloat(m, val, c.at, w, p, h.little)
    BY <1>4, <2>1 DEF Set
  <2>5. \A p : WriteFloat(m, val, c.at, w, p, h.little).ok
    BY <2>3 DEF WriteFloat, Wrote
  <2> QED  BY <2>4, <2>5
<1>5. CASE t \notin {"bool", "char", "uchar", "float", "double"}
  <2> DEFINE n == val.v
  <2>1. val \in [t : {IF MaxSizeIs8(h, t) THEN "bigint" ELSE "number"},
                  v : MinInt(w, u)..MaxInt(w, u)]
    BY <1>5 DEF Proper
  <2>2. val.t = (IF MaxSizeIs8(h, t) THEN "bigint" ELSE "number")
        /\ n \in MinInt(w, u)..MaxInt(w, u) /\ val = [t |-> val.t, v |-> n]
    BY <2>1
  <2> HIDE DEF n
  <2>3. InRange(n, w, u)
    BY <2>2 DEF InRange
  <2>4. CASE MaxSizeIs8(h, t)
    <3>1. w = 8 /\ val = Big(n)
      BY <2>2, <2>4 DEF Big
    <3>2. Set(h, m, c, val) = WriteBig(h, m, c, Big(n))
      BY <1>5, <2>4, <3>1 DEF Set, SetBigInt
    <3>3. Tells(WriteBig(h, m, c, Big(n)), InRange(n, 8, u))
      BY <3>1, WriteBigTells
    <3> QED  BY <2>3, <3>1, <3>2, <3>3 DEF Tells
  <2>5. CASE ~MaxSizeIs8(h, t)
    <3>1. w # 8 /\ val = Num(n)
      BY <2>2, <2>5 DEF Num, MaxSizeIs8
    <3>2. Set(h, m, c, val) = SetNumber(h, m, c, Num(n))
      BY <1>5, <2>5, <3>1 DEF Set
    <3>3. CASE u = TRUE
      <4>1. SetNumber(h, m, c, Num(n)) = WriteUInt(m, Num(n), c.at, w, h.little)
        BY <3>1, <3>3 DEF SetNumber
      <4>2. Tells(WriteUInt(m, Num(n), c.at, w, h.little), InRange(n, w, TRUE))
        BY WriteUIntTells
      <4> QED  BY <2>3, <3>2, <3>3, <4>1, <4>2 DEF Tells
    <3>4. CASE u = FALSE
      <4>1. SetNumber(h, m, c, Num(n)) = WriteInt(m, Num(n), c.at, w, h.little)
        BY <3>1, <3>4 DEF SetNumber
      <4>2. Tells(WriteInt(m, Num(n), c.at, w, h.little), InRange(n, w, FALSE))
        BY WriteIntTells
      <4> QED  BY <2>3, <3>2, <3>4, <4>1, <4>2 DEF Tells
    <3> QED  BY <1>1, <3>3, <3>4
  <2> QED  BY <2>4, <2>5
<1> QED  BY <1>2, <1>3, <1>4, <1>5

\* The numeric setter refuses an integer that would not fit.
LEMMA TooLargeIsRefused ==
  ASSUME NEW h \in Hosts, NEW m, NEW c, c.type \in TypeNames,
         Inside(m, c.at, Size(h, c.type)), NEW n \in Int,
         ~InRange(n, Size(h, c.type), IsUnsigned(c.type)), NEW t \in {"number", "bigint"}
  PROVE  ~SetNumeric(h, m, c, [t |-> t, v |-> n]).ok
<1> DEFINE w == Size(h, c.type)
           u == IsUnsigned(c.type)
           val == [t |-> t, v |-> n]
<1>1. u = TRUE \/ u = FALSE
  BY DEF IsUnsigned
<1>2. CASE w = 8
  <2>1. SetNumeric(h, m, c, val) = WriteBig(h, m, c, Big(n))
    <3>1. CASE t = "bigint"
      BY <1>2, <3>1 DEF SetNumeric, SetBigInt, Big
    <3>2. CASE t = "number"
      <4>1. ToBigInt(val) = Big(n)
        BY <3>2 DEF ToBigInt
      <4>2. SetNumeric(h, m, c, val) = SetNumber(h, m, c, val)
        BY <3>2 DEF SetNumeric
      <4>3. SetNumber(h, m, c, val) = WriteBig(h, m, c, ToBigInt(val))
        BY <1>2 DEF SetNumber
      <4> QED  BY <4>1, <4>2, <4>3
    <3> QED  BY <3>1, <3>2
  <2>2. Tells(WriteBig(h, m, c, Big(n)), InRange(n, 8, u))
    BY <1>2, WriteBigTells
  <2> QED  BY <1>2, <2>1, <2>2 DEF Tells
<1>3. CASE w # 8 /\ t = "bigint"
  BY <1>3 DEF SetNumeric, SetBigInt, Failed
<1>4. CASE w # 8 /\ t = "number"
  <2>1. SetNumeric(h, m, c, val) = SetNumber(h, m, c, Num(n))
    BY <1>4 DEF SetNumeric, Num
  <2>2. CASE u = TRUE
    <3>1. SetNumber(h, m, c, Num(n)) = WriteUInt(m, Num(n), c.at, w, h.little)
      BY <1>4, <2>2 DEF SetNumber
    <3>2. Tells(WriteUInt(m, Num(n), c.at, w, h.little), InRange(n, w, TRUE))
      BY WriteUIntTells
    <3> QED  BY <2>1, <2>2, <3>1, <3>2 DEF Tells
  <2>3. CASE u = FALSE
    <3>1. SetNumber(h, m, c, Num(n)) = WriteInt(m, Num(n), c.at, w, h.little)
      BY <1>4, <2>3 DEF SetNumber
    <3>2. Tells(WriteInt(m, Num(n), c.at, w, h.little), InRange(n, w, FALSE))
      BY WriteIntTells
    <3> QED  BY <2>1, <2>3, <3>1, <3>2 DEF Tells
  <2> QED  BY <1>1, <2>2, <2>3
<1> QED  BY <1>2, <1>3, <1>4

\* set() refuses the numbers and BigInts that are not of the type; bool is left out.
LEMMA ImproperIsRefused ==
  ASSUME NEW h \in Hosts, NEW m, NEW c, c.type \in TypeNames \ {"bool"},
         Inside(m, c.at, Size(h, c.type)), NEW val \in JsValue,
         val.t \in {"number", "bigint"}, val \notin Proper(h, c.type)
  PROVE  ~Set(h, m, c, val).ok
<1> DEFINE t == c.type
           w == Size(h, t)
           u == IsUnsigned(t)
           n == val.v
<1>1. w \in 1..8 /\ u \in BOOLEAN /\ t \in TypeNames /\ n \in Int
  BY HostIs DEF Widths, IsUnsigned, JsValue
<1>2. CASE t \in {"char", "uchar"}
  BY <1>2, OutcomesAre DEF Set
<1>3. CASE t \in {"float", "double"}
  <2>1. t \notin {"bool", "char", "uchar"}
    BY <1>3
  <2>2. Proper(h, t) = [t : {"number", "NaN", "Infinity"}, v : Int]
    BY <1>3, <2>1 DEF Proper
  <2>3. val.t = "bigint"
    BY <2>2 DEF JsValue
  <2>4. Set(h, m, c, val) = Failed(m)
    BY <1>3, <2>1, <2>3 DEF Set, WriteFloat
  <2> QED  BY <2>4, OutcomesAre
<1>4. CASE t \notin {"char", "uchar", "float", "double"}
  <2>1. Proper(h, t) = [t : {IF MaxSizeIs8(h, t) THEN "bigint" ELSE "number"},
                        v : MinInt(w, u)..MaxInt(w, u)]
    BY <1>4 DEF Proper
  <2>2. Set(h, m, c, val) = IF MaxSizeIs8(h, t) THEN SetBigInt(h, m, c, val)
                            ELSE SetNumber(h, m, c, val)
    BY <1>4 DEF Set
  <2>3. val = [t |-> val.t, v |-> n]
    BY DEF JsValue
  <2>4. CASE val.t = (IF MaxSizeIs8(h, t) THEN "bigint" ELSE "number")
    <3>1. n \notin MinInt(w, u)..MaxInt(w, u)
      BY <2>1, <2>3, <2>4
    <3>2. MinInt(w, u) \in Int /\ MaxInt(w, u) \in Int
      BY <1>1, HalfIs DEF MinInt, MaxInt
    <3>3. ~InRange(n, w, u)
      BY <1>1, <3>1, <3>2 DEF InRange
    <3>4. ~SetNumeric(h, m, c, [t |-> val.t, v |-> n]).ok
      BY <1>1, <3>3, TooLargeIsRefused
    <3>5. Set(h, m, c, val) = SetNumeric(h, m, c, val)
      BY <2>2, <2>4 DEF SetNumeric
    <3> QED  BY <2>3, <3>4, <3>5
  <2>5. CASE MaxSizeIs8(h, t) /\ val.t = "number"
    <3>1. ~CheckIntBI(m, val, c.at, u)
      BY <2>5 DEF CheckIntBI
    <3>2. WriteBig(h, m, c, val) = Failed(m)
      BY <3>1, WriteBigAs
    <3>3. Set(h, m, c, val) = Failed(m)
      BY <2>2, <2>5, <3>2 DEF SetBigInt
    <3> QED  BY <3>3, OutcomesAre
  <2>6. CASE ~MaxSizeIs8(h, t) /\ val.t = "bigint"
    <3>1. w # 8
      BY <2>6 DEF MaxSizeIs8
    <3>2. \A unsigned : ~CheckInt(m, val, c.at, w, unsigned)
      BY <2>6 DEF CheckInt
    <3>3. SetNumber(h, m, c, val) = Failed(m)
      BY <3>1, <3>2 DEF SetNumber, WriteUInt, WriteInt
    <3> QED  BY <2>2, <2>6, <3>3, OutcomesAre
  <2> QED  BY <2>4, <2>5, <2>6
<1> QED  BY <1>2, <1>3, <1>4

\* set() takes the proper values and refuses other numbers, wherever the variable is.
LEMMA KeptProperAccepted == Kept => ProperAccepted
<1> SUFFICES ASSUME Kept, NEW i \in DOMAIN layout, NEW val \in Inputs
             PROVE  LET c == layout[i]
                        w == Size(host, c.type)
                        integer == val.t \in {"number", "bigint"}
                    IN /\ val \in Proper(host, c.type)
                            /\ (MaxSizeIs8(host, c.type) => w = 8) => Set(host, mem, c, val).ok
                       /\ integer /\ val \notin Proper(host, c.type) /\ c.type # "bool" =>
                            ~Set(host, mem, c, val).ok
                       /\ integer /\ ~InRange(val.v, w, IsUnsigned(c.type))
                            /\ c.type \notin {"float", "double"} =>
                            ~SetNumeric(host, mem, c, val).ok
  BY DEF ProperAccepted
<1> DEFINE c == layout[i]
           w == Size(host, c.type)
           u == IsUnsigned(c.type)
<1>1. /\ host \in Hosts /\ c.type \in TypeNames /\ w \in 1..8 /\ u \in BOOLEAN
      /\ Inside(mem, c.at, w)
  <2>1. c.type \in TypeNames /\ w \in 1..8 /\ Fits(mem, c.at, w)
    BY VariableFits
  <2>2. Inside(mem, c.at, w)
    BY <2>1, FitsIs
  <2> QED  BY <2>1, <2>2 DEF Kept, IsUnsigned
<1>2. val \in JsValue /\ val.v \in Int /\ val = [t |-> val.t, v |-> val.v]
  BY InputsAssumption DEF JsValue
<1>3. val \in Proper(host, c.type) /\ (MaxSizeIs8(host, c.type) => w = 8) =>
        Set(host, mem, c, val).ok
  BY <1>1, ProperIsSet
<1>4. val.t \in {"number", "bigint"} /\ val \notin Proper(host, c.type) /\ c.type # "bool" =>
        ~Set(host, mem, c, val).ok
  BY <1>1, <1>2, ImproperIsRefused
<1>5. val.t \in {"number", "bigint"} /\ ~InRange(val.v, w, u) => ~SetNumeric(host, mem, c, val).ok
  BY <1>1, <1>2, TooLargeIsRefused
<1> QED  BY <1>3, <1>4, <1>5

\* set() takes the values of the type and refuses other numbers and BigInts, at
\* any offset with room for the type (bool takes any number by its low 32 bits),
\* and the numeric setter refuses the integers that the type does not have, for
\* every host, row of variables and input.  (setFunctionsGenerate)
THEOREM ProperValuesAreAccepted == Spec => []ProperAccepted
BY ValuesKept, KeptProperAccepted, PTL
=============================================================================
