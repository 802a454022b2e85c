----------------------------- MODULE TypedMemory -----------------------------
(***************************************************************************)
(* The predefined C types of src/lib/ref/ref.js (createCType): a JavaScript*)
(* program stores values through their setters in variables that lie side  *)
(* by side in one Buffer, reads them back through their getters, and hands *)
(* them to C as the ffi_type that src/lib/ffi.js gives each type.          *)
(***************************************************************************)
EXTENDS ByteCodec, Sequences

CONSTANTS
  Hosts,    \* platforms: [little, size], the byte order and nativeRef.sizeof
  Layouts,  \* sequences of variables [type, at]; Layout(h) picks those for h
  Length,   \* of the Buffer
  Inputs    \* JavaScript values passed to the setters

Fixed == {"int8", "uint8", "int16", "uint16", "int32", "uint32", "int64", "uint64"}
Typedefs ==
  {"bool", "byte", "char", "uchar", "short", "ushort", "int", "uint", "long", "ulong",
   "longlong", "ulonglong", "size_t", "ssize_t", "intptr_t", "uintptr_t"}
TypeNames == Fixed \cup Typedefs \cup {"float", "double"}
SizeNames == TypeNames \ {"ssize_t", "intptr_t", "uintptr_t"}
Widths == {1, 2, 4, 8}
Setters == {"set", "setNumeric", "setNumber", "setBigInt"}

\* The sizes that C gives the types, where any host that libffi runs on has them.
ASSUME HostsAssumption ==
  /\ Hosts \subseteq [little : BOOLEAN, size : [SizeNames -> Widths]]
  /\ \A h \in Hosts :
       /\ \A t \in {"int8", "uint8", "bool", "byte", "char", "uchar"} : h.size[t] = 1
       /\ \A t \in {"int16", "uint16"} : h.size[t] = 2
       /\ \A t \in {"int32", "uint32", "float"} : h.size[t] = 4
       /\ \A t \in {"int64", "uint64", "double"} : h.size[t] = 8
       /\ \A t \in {"long", "ulong", "longlong", "ulonglong", "size_t"} : h.size[t] \in {4, 8}
ASSUME LayoutsAssumption ==
  Layouts \subseteq Seq([type : TypeNames, at : Nat]) /\ <<>> \notin Layouts
\* Less than 4 GB, so that offset >>> 0 is the offset.
ASSUME LengthAssumption == Length \in 0..Weight[4] - 1
ASSUME InputsAssumption ==
  /\ Inputs \subseteq JsValue
  /\ \A val \in Inputs : /\ val.t = "number" => Abs(val.v) < Power[NumberBits]
                         /\ val.t = "boolean" => val.v \in {0, 1}
                         /\ val.t = "Infinity" => val.v \in {-1, 1}

VARIABLES
  host,    \* the platform
  layout,  \* the variables
  mem,     \* the bytes of the Buffer
  value    \* what each variable holds for the program that wrote it

vars == <<host, layout, mem, value>>

Unset == [as |-> "unset", v |-> NaN]
Value == [as : {"unset", "int", "float"}, v : JsValue]

-----------------------------------------------------------------------------
(* What createCType computes from the name of a type.                      *)

Size(h, t) == h.size[IF t \in {"ssize_t", "intptr_t", "uintptr_t"} THEN "size_t" ELSE t]

IsUnsigned(t) ==
  t \in {"bool", "byte", "size_t",
         "uint8", "uint16", "uint32", "uint64",    \* name[0] === 'u'
         "uchar", "ushort", "uint", "ulong", "ulonglong", "uintptr_t"}

MaxSizeIs8(h, t) ==
  \/ t \in {"long", "ulong", "longlong", "ulonglong",
            "size_t", "ssize_t", "intptr_t", "uintptr_t"}
  \/ Size(h, t) = 8

-----------------------------------------------------------------------------
(* Getters and setters: h is the host, m the bytes, c the variable.        *)

GetNumber(h, m, c) ==
  LET w == Size(h, c.type)
      big == IF IsUnsigned(c.type) THEN ReadBigUInt64(m, c.at, h.little)
             ELSE ReadBigInt64(m, c.at, h.little)
  IN IF w = 8 THEN Num(Round(big.v, DoubleBits))
     ELSE IF IsUnsigned(c.type) THEN ReadUInt(m, c.at, w, h.little)
     ELSE ReadInt(m, c.at, w, h.little)

GetBigInt(h, m, c) ==
  IF Size(h, c.type) # 8 THEN Big(GetNumber(h, m, c).v)
  ELSE IF IsUnsigned(c.type) THEN ReadBigUInt64(m, c.at, h.little)
  ELSE ReadBigInt64(m, c.at, h.little)

\* getFunctions.get, with the overrides.
Get(h, m, c) ==
  CASE c.type = "bool" -> [t |-> "boolean", v |-> IF GetNumber(h, m, c).v # 0 THEN 1 ELSE 0]
    [] c.type \in {"char", "uchar"} -> [t |-> "string", v |-> ReadUInt(m, c.at, 1, h.little).v]
    [] c.type = "float" -> ReadFloat(m, c.at, 4, FloatBits, h.little)
    [] c.type = "double" -> ReadFloat(m, c.at, 8, DoubleBits, h.little)
    [] OTHER -> IF MaxSizeIs8(h, c.type) THEN GetBigInt(h, m, c) ELSE GetNumber(h, m, c)

\* BigInt(val)
ToBigInt(val) ==
  IF val.t \in {"number", "bigint", "boolean"} THEN Big(val.v) ELSE Throws

WriteBig(h, m, c, val) ==
  IF IsUnsigned(c.type) THEN WriteBigUInt64(m, val, c.at, h.little)
  ELSE WriteBigInt64(m, val, c.at, h.little)

SetNumber(h, m, c, val) ==
  LET w == Size(h, c.type)
  IN IF w = 8 THEN WriteBig(h, m, c, ToBigInt(val))
     ELSE IF IsUnsigned(c.type) THEN WriteUInt(m, val, c.at, w, h.little)
     ELSE WriteInt(m, val, c.at, w, h.little)

\* Below 8 bytes the arguments of BigInt.asUintN and asIntN are swapped, and
\* the result would be a BigInt for a writer of numbers: it always throws.
SetBigInt(h, m, c, val) ==
  IF Size(h, c.type) = 8 THEN WriteBig(h, m, c, val) ELSE Failed(m)

SetNumeric(h, m, c, val) ==
  IF val.t = "bigint" THEN SetBigInt(h, m, c, val) ELSE SetNumber(h, m, c, val)

\* val | 0
ToInt32(val) ==
  IF ToNumber(val).t = "number" THEN Num(Signed(val.v % Weight[4], 4)) ELSE Num(0)

\* setFunctions.set, with the overrides.
Set(h, m, c, val) ==
  CASE c.type = "bool" ->
         IF val.t = "bigint" THEN Failed(m) ELSE SetNumber(h, m, c, ToInt32(val))
    [] c.type = "char" ->
         IF val.t # "string" THEN Failed(m) ELSE WriteInt(m, Num(val.v), c.at, 1, h.little)
    [] c.type = "uchar" ->
         IF val.t # "string" THEN Failed(m) ELSE WriteUInt(m, Num(val.v), c.at, 1, h.little)
    [] c.type = "float" -> WriteFloat(m, val, c.at, 4, FloatBits, h.little)
    [] c.type = "double" -> WriteFloat(m, val, c.at, 8, DoubleBits, h.little)
    [] OTHER -> IF MaxSizeIs8(h, c.type) THEN SetBigInt(h, m, c, val)
                ELSE SetNumber(h, m, c, val)

Stored(h, m, c, setter, val) ==
  CASE setter = "set" -> Set(h, m, c, val)
    [] setter = "setNumeric" -> SetNumeric(h, m, c, val)
    [] setter = "setNumber" -> SetNumber(h, m, c, val)
    [] setter = "setBigInt" -> SetBigInt(h, m, c, val)

\* What val is as a float of w bytes: the limit is the first power of two that
\* is too large.
ToFloat(val, w, p) ==
  LET n == Round(val.v, p)
      limit == Power[p + Exponents(w, p) - 3]
  IN IF val.t = "number" /\ Abs(n) >= limit
     THEN [t |-> "Infinity", v |-> IF n < 0 THEN -1 ELSE 1]
     ELSE IF val.t = "number" THEN Num(n) ELSE val

\* The integer that a value is for the setters.
AsInt(val) == IF val.t = "bigint" THEN Num(val.v) ELSE Num(ToNumber(val).v)

\* ref.types.double.setNumber and getNumber use the bytes of an int64.
Meaning(c, setter, val) ==
  IF c.type \in {"float", "double"} /\ setter = "set"
  THEN [as |-> "float",
        v |-> IF c.type = "float" THEN ToFloat(ToNumber(val), 4, FloatBits)
              ELSE ToFloat(ToNumber(val), 8, DoubleBits)]
  ELSE [as |-> "int",
        v |-> CASE c.type = "bool" /\ setter = "set" -> ToInt32(val)
                [] c.type \in {"char", "uchar"} /\ setter = "set" -> Num(val.v)
                [] OTHER -> AsInt(val)]

-----------------------------------------------------------------------------
\* The variables fill the Buffer, from some offset to its end.
SideBySide(h, l) ==
  \A i \in DOMAIN l :
    l[i].at + Size(h, l[i].type) = IF i = Len(l) THEN Length ELSE l[i + 1].at

Init ==
  /\ host \in Hosts
  /\ layout \in {l \in Layouts : SideBySide(host, l)}
  /\ mem = [a \in 0..Length - 1 |-> 0]
  /\ value = [i \in DOMAIN layout |-> Unset]

\* type.set(buffer, val, offset) and the other setters: a value or an exception.
Store(i, setter, val) ==
  LET outcome == Stored(host, mem, layout[i], setter, val)
  IN /\ mem' = outcome.mem
     /\ value' = IF outcome.ok
                 THEN [value EXCEPT ![i] = Meaning(layout[i], setter, val)] ELSE value
     /\ UNCHANGED <<host, layout>>

Next == \E i \in DOMAIN layout, setter \in Setters, val \in Inputs : Store(i, setter, val)

Spec == Init /\ [][Next]_vars

-----------------------------------------------------------------------------
(* The ffi_type of a type: what libffi, and the C function, take the bytes *)
(* for.  src/lib/ffi.js sets most of them; Type() finds those of bool,     *)
(* byte, longlong and ulonglong by the name their prototypes give them.    *)

\* Mutant: long has 32 bits everywhere.
FfiTypeLong32(h, t) ==
  CASE t \in {"size_t", "ssize_t", "intptr_t", "uintptr_t"} -> "pointer"
    [] t = "long" -> "int32"
    [] t = "ulong" -> "uint32"
    [] t \in {"bool", "byte"} -> "uint8"
    [] t = "longlong" -> "int64"
    [] t = "ulonglong" -> "uint64"
    [] OTHER -> t

FfiType(h, t) ==
  CASE t \in {"size_t", "ssize_t", "intptr_t", "uintptr_t"} -> "pointer"
    [] t \in {"long", "longlong"} -> IF Size(h, t) = 4 THEN "int32" ELSE "int64"
    [] t \in {"ulong", "ulonglong"} -> IF Size(h, t) = 4 THEN "uint32" ELSE "uint64"
    [] t \in {"bool", "byte"} -> "uint8"
    [] OTHER -> t

FfiSigned == {"int8", "char", "int16", "short", "int32", "int", "int64"}

\* The integer that C finds in the variable; a pointer has no sign.
SeenByC(h, m, c) ==
  LET f == FfiType(h, c.type)
      w == IF f = "pointer" THEN Size(h, "size_t") ELSE Size(h, f)
      n == Unsigned(m, c.at, w, h.little)
  IN IF f \in FfiSigned THEN Signed(n, w) ELSE n

-----------------------------------------------------------------------------
(* The result of a call (src/lib/_foreign_function.js).                    *)

FfiArgSize(h) == Size(h, "size_t")

\* Mutant: the Buffer has the size of the type.
ResultSizeExact(h, t) == Size(h, t)

ResultSize(h, t) == IF Size(h, t) >= Size(h, "long") THEN Size(h, t) ELSE FfiArgSize(h)

\* libffi: an integer is widened to an ffi_arg or ffi_sarg.
ReturnedSize(h, t) == IF Size(h, t) < FfiArgSize(h) THEN FfiArgSize(h) ELSE Size(h, t)

Returned(h, t, n) ==
  LET w == ReturnedSize(h, t)
  IN Written([a \in 0..ResultSize(h, t) - 1 |-> 0], 0, w, n, h.little)

-----------------------------------------------------------------------------
(* Properties.                                                             *)

\* Types: the bytes stay bytes, the values JavaScript values.
TypeOK ==
  /\ host \in Hosts
  /\ layout \in Layouts
  /\ mem \in [0..Length - 1 -> 0..ByteValues - 1]
  /\ value \in [DOMAIN layout -> Value]

\* What the getter shows of an integer.
Shown(h, t, n) ==
  CASE t = "bool" -> [t |-> "boolean", v |-> IF n # 0 THEN 1 ELSE 0]
    [] t \in {"char", "uchar"} -> [t |-> "string", v |-> n % ByteValues]
    [] OTHER -> IF MaxSizeIs8(h, t) THEN Big(n) ELSE Num(n)

\* A variable keeps the integer that was stored in it, whatever is stored in
\* its neighbours and whatever fails, as do the bytes before them: every getter
\* of its type gives that integer back, in the kind of JavaScript value the
\* comment on getFunction has (ref.js:701: a BigInt for 64 bits; README.md:107
\* says strings, see StringsFor64Bits), and getNumber rounded to the precision of
\* numbers.  (buffer.js, getFunctionsGenerate, setFunctionsGenerate,
\* overrideGetSetFunctions of ref.js)
RoundTrip ==
  /\ \A a \in 0..layout[1].at - 1 : mem[a] = 0
  /\ \A i \in DOMAIN layout :
       LET c == layout[i]
           n == value[i].v.v
       IN value[i].as = "int" =>
            /\ GetBigInt(host, mem, c) = Big(n)
            /\ GetNumber(host, mem, c) =
                 Num(IF Size(host, c.type) = 8 THEN Round(n, DoubleBits) ELSE n)
            /\ c.type \notin {"float", "double"} =>
                 Get(host, mem, c) = Shown(host, c.type, n)

\* The same for what set() stores in a float or a double: it is rounded once,
\* ties to even, is Infinity from the right power of two on, and NaN stays NaN.
\* (buffer.js:369-401, 613-689)
FloatRoundTrip ==
  \A i \in DOMAIN layout :
    value[i].as = "float" => Get(host, mem, layout[i]) = value[i].v

\* C finds the integer in a variable that JavaScript stored there: the
\* ffi_type of a type has the width and the sign of its codec.  (ffi.js:38-81,
\* type.js:109-125)
CalleeSees ==
  \A i \in DOMAIN layout :
    LET c == layout[i]
        n == value[i].v.v
    IN value[i].as = "int" /\ c.type \notin {"float", "double"} =>
         SeenByC(host, mem, c) =
           IF FfiType(host, c.type) = "pointer" THEN n % (2 * Half(Size(host, "size_t"))) ELSE n

\* The Buffer of the result of a call holds what libffi writes to it, and
\* reading it as the return type gives the integer that C returned: where long
\* is as wide as ffi_arg (on 64-bit Windows 8 bytes are written for the 4 of an
\* int), and where the low byte comes first (elsewhere only for the types that
\* are not widened).  (_foreign_function.js:20-24, 63-64)
ResultRead ==
  \A i \in DOMAIN layout :
    LET t == layout[i].type
        n == value[i].v.v
    IN value[i].as = "int" /\ t \notin {"float", "double"}
         /\ Size(host, "long") = FfiArgSize(host) =>
         /\ ReturnedSize(host, t) <= ResultSize(host, t)
         /\ host.little \/ ReturnedSize(host, t) = Size(host, t) =>
              GetBigInt(host, Returned(host, t, n), [type |-> t, at |-> 0]) = Big(n)

\* The values that set() is for: those of the C type, in the kind of
\* JavaScript value that get() gives (for char, the codes both signs share).
Proper(h, t) ==
  LET w == Size(h, t)
  IN CASE t = "bool" -> [t : {"boolean"}, v : {0, 1}]
       [] t \in {"char", "uchar"} -> [t : {"string"}, v : 0..MaxInt(w, t = "uchar")]
       [] t \in {"float", "double"} -> [t : {"number", "NaN", "Infinity"}, v : Int]
       [] OTHER -> [t : {IF MaxSizeIs8(h, t) THEN "bigint" ELSE "number"},
                    v : MinInt(w, IsUnsigned(t))..MaxInt(w, IsUnsigned(t))]

\* Of the values that the program uses, set() accepts those of the type, at every
\* offset the Buffer has room for, aligned or not, unless the type is one of up to
\* 8 bytes that has 4 here (then it never does); it refuses every other number
\* and BigInt, except that bool takes a number by its low 32 bits (val | 0, so
\* 2^32 is false).  The numeric setter refuses all integers that the type does
\* not have, for bool as well.  (setFunctionsGenerate, checkInt, checkIntBI)
ProperAccepted ==
  \A i \in DOMAIN layout, val \in Inputs :
    LET c == layout[i]
        w == Size(host, c.type)
        integer == val.t \in {"number", "bigint"}
    IN /\ val \in Proper(host, c.type) /\ (MaxSizeIs8(host, c.type) => w = 8) =>
            Set(host, mem, c, val).ok
       /\ integer /\ val \notin Proper(host, c.type) /\ c.type # "bool" =>
            ~Set(host, mem, c, val).ok
       /\ integer /\ ~InRange(val.v, w, IsUnsigned(c.type)) /\ c.type \notin {"float", "double"} =>
            ~SetNumeric(host, mem, c, val).ok

\* "The methods in js-ffi-cross that deal with 64-bit integers return strings":
\* get() of an 8-byte type gives the integer that was stored as one.
\* (README.md:107)
StringsFor64Bits ==
  \A i \in DOMAIN layout :
    LET c == layout[i]
    IN value[i].as = "int" /\ Size(host, c.type) = 8 /\ c.type # "double" =>
         Get(host, mem, c).t = "string"
=============================================================================
