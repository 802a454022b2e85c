------------------------------ MODULE ByteCodec ------------------------------
(***************************************************************************)
(* The readers and writers of src/lib/ref/buffer.js: integers, BigInts and *)
(* floating-point numbers at any offset of a byte array, in either byte    *)
(* order.  One operator stands for a family (readUInt8, readUInt16LE, ...) *)
(* and takes the width and the byte order as arguments.                    *)
(*                                                                         *)
(* A byte has ByteValues values (256 in the code), a JavaScript number     *)
(* DoubleBits significant bits (53), a C float FloatBits (24).  Numbers    *)
(* are integers here; a JavaScript value is a record of its kind and its   *)
(* integer.  The exponents have no bias: the smallest float is 1, and the  *)
(* numbers are those below 2^NumberBits (1024, and 1074 for the fractions).*)
(***************************************************************************)
EXTENDS Integers, FiniteSets, FiniteSetsExt

CONSTANTS ByteValues, DoubleBits, FloatBits, NumberBits

ASSUME ByteValuesAssumption == ByteValues \in Nat \ {0, 1} /\ ByteValues % 2 = 0

Kinds == {"number", "bigint", "boolean", "string", "NaN", "Infinity", "object"}
JsValue == [t : Kinds, v : Int]

Num(n) == [t |-> "number", v |-> n]
Big(n) == [t |-> "bigint", v |-> n]
NaN == [t |-> "NaN", v |-> 0]
Throws == [t |-> "throws", v |-> 0]

\* +value, for what is not a bigint; a string is one character, not a digit.
ToNumber(val) ==
  IF val.t \in {"number", "boolean"} THEN Num(val.v)
  ELSE IF val.t = "Infinity" THEN val ELSE NaN

\* The weight of byte i, and the number of values of i bytes.
Weight[i \in 0..8] == IF i = 0 THEN 1 ELSE Weight[i - 1] * ByteValues

Half(w) == Weight[w] \div 2
MinInt(w, unsigned) == IF unsigned THEN 0 ELSE -Half(w)
MaxInt(w, unsigned) == (IF unsigned THEN 2 * Half(w) ELSE Half(w)) - 1
InRange(n, w, unsigned) == MinInt(w, unsigned) <= n /\ n <= MaxInt(w, unsigned)

\* Powers of two.
Power[i \in 0..NumberBits + 1] == IF i = 0 THEN 1 ELSE Power[i - 1] * 2

-----------------------------------------------------------------------------
(* Bytes.                                                                  *)

\* offset >>> 0
ToUint32(n) == n % Weight[4]

\* checkOffset, checkBounds: the w bytes exist.
Inside(mem, offset, w) == ToUint32(offset) + w <= Cardinality(DOMAIN mem)

\* The address of the byte of weight i.
AddressOf(offset, w, i, little) ==
  ToUint32(offset) + (IF little THEN i ELSE w - 1 - i)

\* Mutant: the byte of the highest weight is not masked.
WrittenUnmasked(mem, offset, w, n, little) ==
  [a \in DOMAIN mem |->
     LET i == IF little THEN a - offset ELSE offset + w - 1 - a
     IN IF i \in 0..w - 2 THEN (n \div Weight[i]) % ByteValues
        ELSE IF i = w - 1 THEN n \div Weight[i] ELSE mem[a]]

\* The bytes of an integer, in two's complement.
Written(mem, offset, w, n, little) ==
  [a \in DOMAIN mem |->
     LET at == ToUint32(offset)
         i == IF little THEN a - at ELSE at + w - 1 - a
     IN IF i \in 0..w - 1 THEN (n \div Weight[i]) % ByteValues ELSE mem[a]]

Unsigned(mem, offset, w, little) ==
  LET upper[i \in 0..w] ==
        IF i = 0 THEN 0
        ELSE upper[i - 1] * ByteValues + mem[AddressOf(offset, w, w - i, little)]
  IN upper[w]

\* Mutant: the sign bit is not extended.
SignedNever(n, w) == n

Signed(n, w) == IF n >= Half(w) THEN n - 2 * Half(w) ELSE n

-----------------------------------------------------------------------------
(* Floating point.  A pattern is a sign, an exponent and a fraction, as in *)
(* IEEE 754, with p significant bits; Infinity has the largest exponent.   *)

Abs(n) == IF n < 0 THEN -n ELSE n
Exponent(n, p) == Min({e \in 0..NumberBits + 1 - p : Abs(n) < Power[p + e]})

\* To p significant bits, ties to even: what Number(bigint) does as well.
Round(n, p) ==
  LET unit == Power[Exponent(n, p)]
      q == Abs(n) \div unit
      r == Abs(n) % unit
      up == 2 * r > unit \/ (2 * r = unit /\ q % 2 = 1)
      abs == (IF up THEN q + 1 ELSE q) * unit
  IN IF n < 0 THEN -abs ELSE abs

\* Exponents of a float of w bytes; the last one is that of Infinity and NaN.
Exponents(w, p) == Half(w) \div Power[p - 1]
InfinityCode(w, p) == Power[p - 1] * (Exponents(w, p) - 1)

\* IEEE 754: the exponent fills whole bits.  A JavaScript number is a double.
IsFormat(w, p) ==
  /\ p \in 2..NumberBits /\ Half(w) = Power[p - 1] * Exponents(w, p)
  /\ Exponents(w, p) >= 3 /\ p + Exponents(w, p) - 3 <= NumberBits
ASSUME FormatAssumption ==
  /\ NumberBits \in Nat /\ IsFormat(4, FloatBits) /\ IsFormat(8, DoubleBits)
  /\ NumberBits = DoubleBits + Exponents(8, DoubleBits) - 3

FloatPattern(val, w, p) ==
  LET n == Round(val.v, p)
      e == Exponent(n, p)
      code == Power[p - 1] * e + Abs(n) \div Power[e]
      magnitude == IF val.t = "NaN" THEN Half(w) - 1
                   ELSE IF val.t = "Infinity" \/ code > InfinityCode(w, p)
                   THEN InfinityCode(w, p) ELSE code
  IN IF val.v < 0 THEN Half(w) + magnitude ELSE magnitude

FloatValue(pattern, w, p) ==
  LET code == pattern % Half(w)
      sign == IF pattern >= Half(w) THEN -1 ELSE 1
      e == IF code < Power[p] THEN 0 ELSE code \div Power[p - 1] - 1
  IN IF code > InfinityCode(w, p) THEN NaN
     ELSE IF code = InfinityCode(w, p) THEN [t |-> "Infinity", v |-> sign]
     ELSE Num(sign * ((code - Power[p - 1] * e) * Power[e]))

-----------------------------------------------------------------------------
(* Readers.                                                                *)

ReadUInt(mem, offset, w, little) ==
  IF Inside(mem, offset, w) THEN Num(Unsigned(mem, offset, w, little)) ELSE Throws

ReadBigUInt64(mem, offset, little) ==
  IF Inside(mem, offset, 8) THEN Big(Unsigned(mem, offset, 8, little)) ELSE Throws

ReadInt(mem, offset, w, little) ==
  IF Inside(mem, offset, w)
  THEN Num(Signed(Unsigned(mem, offset, w, little), w)) ELSE Throws

ReadBigInt64(mem, offset, little) ==
  IF Inside(mem, offset, 8)
  THEN Big(Signed(Unsigned(mem, offset, 8, little), 8)) ELSE Throws

\* readFloat with w = 4 and readDouble with w = 8.
ReadFloat(mem, offset, w, p, little) ==
  IF Inside(mem, offset, w)
  THEN FloatValue(Unsigned(mem, offset, w, little), w, p) ELSE Throws

-----------------------------------------------------------------------------
(* Writers: the new bytes, or no change when they throw.                   *)

Failed(mem) == [ok |-> FALSE, mem |-> mem]
Wrote(mem, offset, w, n, little) ==
  [ok |-> TRUE, mem |-> Written(mem, offset, w, n, little)]

\* Mutant: the largest value is one too large.
CheckIntLoose(mem, val, offset, w, unsigned) ==
  /\ val.t # "bigint"
  /\ ToNumber(val).t = "number" => val.v <= MaxInt(w, unsigned) + 1
  /\ Inside(mem, offset, w)

\* checkInt; comparisons with NaN are false, and NaN is written as 0.
CheckInt(mem, val, offset, w, unsigned) ==
  /\ val.t # "bigint"
  /\ ToNumber(val).t # "Infinity"
  /\ ToNumber(val).t = "number" => InRange(val.v, w, unsigned)
  /\ Inside(mem, offset, w)

WriteUInt(mem, val, offset, w, little) ==
  IF CheckInt(mem, val, offset, w, TRUE)
  THEN Wrote(mem, offset, w, ToNumber(val).v, little) ELSE Failed(mem)

CheckIntBI(mem, val, offset, unsigned) ==
  val.t = "bigint" /\ InRange(val.v, 8, unsigned) /\ Inside(mem, offset, 8)

WriteBigUInt64(mem, val, offset, little) ==
  IF CheckIntBI(mem, val, offset, TRUE)
  THEN Wrote(mem, offset, 8, val.v, little) ELSE Failed(mem)

WriteInt(mem, val, offset, w, little) ==
  IF CheckInt(mem, val, offset, w, FALSE)
  THEN Wrote(mem, offset, w, ToNumber(val).v, little) ELSE Failed(mem)

WriteBigInt64(mem, val, offset, little) ==
  IF CheckIntBI(mem, val, offset, FALSE)
  THEN Wrote(mem, offset, 8, val.v, little) ELSE Failed(mem)

\* Mutant: the bytes are not reversed for the byte order.
WriteFloatBigEndian(mem, val, offset, w, p, little) ==
  IF val.t # "bigint" /\ Inside(mem, offset, w)
  THEN Wrote(mem, offset, w, FloatPattern(ToNumber(val), w, p), FALSE)
  ELSE Failed(mem)

\* DataView.setFloat32 and setFloat64 convert like +value.
WriteFloat(mem, val, offset, w, p, little) ==
  IF val.t # "bigint" /\ Inside(mem, offset, w)
  THEN Wrote(mem, offset, w, FloatPattern(ToNumber(val), w, p), little)
  ELSE Failed(mem)
=============================================================================
