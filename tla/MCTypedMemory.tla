---------------------------- MODULE MCTypedMemory ----------------------------
(* Instances of TypedMemory for TLC: bytes of four values.                 *)
EXTENDS TypedMemory

Sizes(long, pointer) ==
  [t \in SizeNames |->
     CASE t \in {"int8", "uint8", "bool", "byte", "char", "uchar"} -> 1
       [] t \in {"int16", "uint16", "short", "ushort"} -> 2
       [] t \in {"int32", "uint32", "float", "int", "uint"} -> 4
       [] t \in {"int64", "uint64", "double", "longlong", "ulonglong"} -> 8
       [] t \in {"long", "ulong"} -> long
       [] t = "size_t" -> pointer]

\* Linux and macOS, 64-bit Windows, and a big-endian host of 32 bits.
MCHosts ==
  {[little |-> TRUE, size |-> Sizes(8, 8)],
   [little |-> TRUE, size |-> Sizes(4, 8)],
   [little |-> FALSE, size |-> Sizes(4, 4)]}

\* A variable of each type between other bytes and a variable, mostly unaligned.
MCLayouts ==
  {<<[type |-> t, at |-> 10 - w], [type |-> "uint8", at |-> 10]>> :
     t \in TypeNames, w \in Widths}

\* The limits of every width, and the first integers beyond them.
Limits ==
  {-1, 0, 1} \cup UNION {{Half(w) - 1, Half(w), -Half(w), -Half(w) - 1,
                         2 * Half(w) - 1, 2 * Half(w)} : w \in Widths}

MCInputs ==
  {Num(Round(n, DoubleBits)) : n \in Limits} \cup {Big(n) : n \in Limits}
    \cup [t : {"boolean"}, v : {0, 1}] \cup [t : {"string"}, v : {0, 1, 2, 3, 4}]
    \cup {NaN, [t |-> "object", v |-> 0]}
    \cup [t : {"Infinity"}, v : {-1, 1}]
=============================================================================
