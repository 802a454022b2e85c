---------------------------- MODULE CompoundTypes ----------------------------
(***************************************************************************)
(* Struct, union and array types (src/lib/ref/struct.js, union.js,         *)
(* array.js): how fields are laid out, when a layout may still change, and *)
(* the ffi_type that describes a type to libffi (src/lib/type.js).         *)
(*                                                                         *)
(* A type caches what it computed from the types it embeds: its size,      *)
(* alignment and offsets, and its ffi_type.  Nothing tells it when one of  *)
(* those types changes.                                                    *)
(***************************************************************************)
EXTENDS Integers, Sequences, FiniteSets, SequencesExt, FiniteSetsExt

CONSTANTS
  N,            \* compound types 1..N; a type embeds types before it only
  KindChoices,  \* the kinds, a sequence of N, that a program may pick
  Prims,        \* predefined and custom types without parts
  PrimSize,     \* their size
  PrimAlign,    \* their alignment, 0 for a custom type that gives none
  PointerSize,  \* ref.sizeof.pointer, also ref.alignof.pointer
  Names,        \* field names
  IndexNames,   \* those like array indexes, which JavaScript lists first
  Menu,         \* Menu[t]: the fields that t may get; for an array, its elements
  Lengths,      \* the lengths given to array types; 0 is "no fixed length"
  MaxFields,    \* bound on the fields of a type
  NoFfi         \* no ffi_type yet

Compound == 1..N
Kinds == {"struct", "packed", "union", "array"}

\* A field type: a primitive or compound type, or (ptr) refType() of one.
TypeRef == [base : Prims \cup Compound, ptr : BOOLEAN]
NoType == [base |-> 0, ptr |-> FALSE]

ASSUME NAssumption == N \in Nat /\ KindChoices \subseteq [Compound -> Kinds]
ASSUME PrimAssumption ==
  /\ Prims \cap (Compound \cup {0}) = {}
  /\ PrimSize \in [Prims -> Nat \ {0}]
  /\ PrimAlign \in [Prims -> Nat]
  /\ PointerSize \in Nat \ {0}
ASSUME NamesAssumption == IndexNames \in Seq(Names) /\ IsInjective(IndexNames)
ASSUME LengthsAssumption == Lengths \subseteq Nat
ASSUME NoFfiAssumption == NoFfi \notin Seq(Prims \cup Compound \cup {0})
Field == [name : Names, type : TypeRef]
ASSUME MenuAssumption ==
  /\ Menu \in [Compound -> SUBSET Field]
  /\ \A t \in Compound : \A f \in Menu[t] : f.type.base \in Compound => f.type.base < t

VARIABLES
  kind,       \* kind[t]: struct, packed struct, union or array
  fields,     \* fields[t]: the fields object, in the order of insertion
  accessors,  \* accessors[t]: names with a property on the prototype
  offset,     \* offset[t][name]: field.offset
  size,       \* size[t]: type.size
  alignment,  \* alignment[t]: type.alignment
  elem,       \* elem[t]: the element type of an array
  length,     \* length[t]: its fixedLength; -1 before the type is defined
  created,    \* types with _instanceCreated
  ffi_type    \* ffi_type[t]: the elements of the cached ffi_type

layoutVars == <<fields, accessors, offset, size, alignment>>
vars == <<kind, layoutVars, elem, length, created, ffi_type>>

Arrays == {t \in Compound : kind[t] = "array"}
Records == Compound \ Arrays

TypeOK ==
  /\ kind \in KindChoices
  /\ fields \in [Compound -> Seq(Field)]
  /\ accessors \in [Compound -> SUBSET Names]
  /\ offset \in [Compound -> [Names -> Nat]]
  /\ size \in [Compound -> Nat]
  /\ alignment \in [Compound -> Nat]
  /\ elem \in [Compound -> TypeRef \cup {NoType}]
  /\ length \in [Compound -> Nat \cup {-1}]
  /\ created \subseteq Compound
  /\ \A t \in Compound :
       ffi_type[t] # NoFfi => ffi_type[t] \in Seq(Prims \cup Compound \cup {0})

\* StructType(), UnionType(): no fields yet.
Init ==
  /\ kind \in KindChoices
  /\ fields = [t \in Compound |-> <<>>]
  /\ accessors = [t \in Compound |-> {}]
  /\ offset = [t \in Compound |-> [n \in Names |-> 0]]
  /\ size = [t \in Compound |-> 0]
  /\ alignment = [t \in Compound |-> 0]
  /\ elem = [t \in Compound |-> NoType]
  /\ length = [t \in Compound |-> -1]
  /\ created = {}
  /\ ffi_type = [t \in Compound |-> NoFfi]

-----------------------------------------------------------------------------
(* Properties of a type object.  refType(T) inherits from T: a pointer     *)
(* shows the alignment, fixedLength and element type of what it points to. *)

RawSize(r) == IF r.base \in Prims THEN PrimSize[r.base] ELSE size[r.base]
RawAlign(r) == IF r.base \in Prims THEN PrimAlign[r.base] ELSE alignment[r.base]
SizeOf(r) == IF r.ptr THEN PointerSize ELSE RawSize(r)

\* type.alignment || ref.alignof.pointer
AlignOf(r) == IF r.ptr \/ RawAlign(r) = 0 THEN PointerSize ELSE RawAlign(r)

FixedLength(r) == IF r.base \in Arrays THEN length[r.base] ELSE 0

\* What a field takes room for: an array with a fixed length, element by
\* element.
Parts(r) ==
  IF FixedLength(r) > 0 THEN [i \in 1..FixedLength(r) |-> elem[r.base]] ELSE <<r>>

\* Mutant: the difference the other way around.
PaddingSwapped(o, align) == (o % align) - align

Padding(o, align) == (align - (o % align)) % align
PadTo(o, align) == o + Padding(o, align)

\* The elements of s that are in S, in their order.
Only(s, S) ==
  LET only[i \in 0..Len(s)] ==
        IF i = 0 THEN <<>>
        ELSE IF s[i] \in S THEN Append(only[i - 1], s[i]) ELSE only[i - 1]
  IN only[Len(s)]

\* Object.keys(): names like array indexes first, in ascending order.
Keys(fs) ==
  LET TypeFor(n) == fs[CHOOSE i \in DOMAIN fs : fs[i].name = n]
      indexed == Only(IndexNames, {f.name : f \in Range(fs)})
  IN [i \in DOMAIN indexed |-> TypeFor(indexed[i])]
       \o Only(fs, {f \in Range(fs) : f.name \notin Range(IndexNames)})

-----------------------------------------------------------------------------
(* recalc() of struct.js and of union.js.                                  *)

StructAlignment(t, fs) ==
  LET aligns == {AlignOf(fs[i].type) : i \in DOMAIN fs}
  IN IF kind[t] = "packed" THEN Min(aligns) ELSE Max(aligns)

\* addType: nothing to align to fails the assertion "offset should align".
Alignable(t, r) == kind[t] = "packed" \/ r.ptr \/ RawAlign(r) # 0
Start(t, o, r) ==
  IF kind[t] = "packed" THEN o
  ELSE PadTo(o, IF r.ptr THEN PointerSize ELSE RawAlign(r))

\* Mutant: an array takes the room of its first element.
EndOfFirst(t, o, f) == Start(t, o, Parts(f.type)[1]) + SizeOf(Parts(f.type)[1])

\* Where a field placed at o or later ends: its parts follow one another.
End(t, o, f) ==
  LET parts == Parts(f.type)
      end[i \in 0..Len(parts)] ==
        IF i = 0 THEN o ELSE Start(t, end[i - 1], parts[i]) + SizeOf(parts[i])
  IN end[Len(parts)]

\* The second loop; a failed assertion ends it.
Place(t, fs) ==
  LET after[i \in 0..Len(fs)] ==
        IF i = 0 THEN [ok |-> TRUE, offset |-> offset[t], size |-> 0]
        ELSE LET f == fs[i]
                 before == after[i - 1]
                 first == Parts(f.type)[1]
             IN IF ~before.ok \/ ~Alignable(t, first)
                THEN [before EXCEPT !.ok = FALSE]
                ELSE [ok |-> TRUE,
                      offset |-> [before.offset EXCEPT ![f.name] = Start(t, before.size, first)],
                      size |-> End(t, before.size, f)]
  IN after[Len(fs)]

\* Mutant: no padding after the last field.
RecalcUnpadded(t, fs) ==
  LET end == Place(t, Keys(fs))
  IN [ok |-> end.ok, offset |-> end.offset, size |-> end.size,
      alignment |-> StructAlignment(t, fs)]

RecalcStruct(t, fs) ==
  LET align == StructAlignment(t, fs)
      end == Place(t, Keys(fs))
  IN [ok |-> end.ok, offset |-> end.offset, alignment |-> align,
      size |-> IF end.ok THEN PadTo(end.size, align) ELSE end.size]

RecalcUnion(t, fs) ==
  LET align == Max({AlignOf(fs[i].type) : i \in DOMAIN fs})
  IN [ok |-> TRUE, offset |-> offset[t], alignment |-> align,
      size |-> PadTo(Max({SizeOf(fs[i].type) : i \in DOMAIN fs}), align)]

Recalc(t, fs) == IF kind[t] = "union" THEN RecalcUnion(t, fs) ELSE RecalcStruct(t, fs)

-----------------------------------------------------------------------------
(* Defining types.                                                         *)

\* A program has the type object r.
Exists(r) == r.base \in Arrays => length[r.base] # -1

\* Mutant: a type that has instances still takes fields.
DefinableAlways(t, n, r) ==
  /\ t \in Records
  /\ n \notin accessors[t]
  /\ kind[t] = "union" \/ SizeOf(r) > 0

\* The assertions at the head of defineProperty(); a union also takes a
\* type without a size.  Where one fails, nothing has changed.
Definable(t, n, r) ==
  /\ t \in Records
  /\ t \notin created
  /\ n \notin accessors[t]
  /\ kind[t] = "union" \/ SizeOf(r) > 0

\* fields[name] = {type}: the field of a definition that failed is replaced.
WithField(fs, n, r) ==
  LET field == [name |-> n, type |-> r]
  IN IF \E i \in DOMAIN fs : fs[i].name = n
     THEN [i \in DOMAIN fs |-> IF fs[i].name = n THEN field ELSE fs[i]]
     ELSE Append(fs, field)

\* defineProperty(): when recalc() throws, the field stays in fields, the
\* size is that of the fields before it, and there is no accessor.
DefineProperty(t, n, r) ==
  LET fs == WithField(fields[t], n, r)
      layout == Recalc(t, fs)
  IN /\ Exists(r)
     /\ Definable(t, n, r)
     /\ Len(fs) <= MaxFields
     /\ fields' = [fields EXCEPT ![t] = fs]
     /\ offset' = [offset EXCEPT ![t] = layout.offset]
     /\ size' = [size EXCEPT ![t] = layout.size]
     /\ alignment' = [alignment EXCEPT ![t] = layout.alignment]
     /\ accessors' = [accessors EXCEPT ![t] = IF layout.ok THEN @ \cup {n} ELSE @]
     /\ UNCHANGED <<kind, elem, length, created, ffi_type>>

\* ArrayType(r, len): the size and the alignment of the element type are
\* read here, once; the alignment is not that of a pointer for a pointer.
DefineArray(t, r, len) ==
  /\ t \in Arrays
  /\ length[t] = -1
  /\ Exists(r)
  /\ SizeOf(r) > 0
  /\ elem' = [elem EXCEPT ![t] = r]
  /\ length' = [length EXCEPT ![t] = len]
  /\ size' = [size EXCEPT ![t] = IF len > 0 THEN SizeOf(r) * len ELSE PointerSize]
  /\ alignment' = [alignment EXCEPT ![t] = IF len > 0 THEN RawAlign(r) ELSE PointerSize]
  /\ UNCHANGED <<kind, fields, accessors, offset, created, ffi_type>>

\* new StructType(), new UnionType(); the instance gets size[t] bytes.
NewInstance(t) ==
  /\ t \in Records
  /\ created' = created \cup {t}
  /\ UNCHANGED <<kind, layoutVars, elem, length, ffi_type>>

\* Reading a field of an instance, or setting it from an object, makes an
\* instance of the type the field embeds over the rest of the bytes, if
\* there are enough of them; so does the first element of an array.
GetField(t, n) ==
  /\ t \in created
  /\ n \in accessors[t]
  /\ \E i \in DOMAIN fields[t] :
       LET r == fields[t][i].type
           e == IF FixedLength(r) > 0 THEN elem[r.base] ELSE r
       IN /\ fields[t][i].name = n
          /\ ~r.ptr /\ ~e.ptr /\ e.base \in Records
          /\ size[t] - offset[t][n] >= size[r.base]
          /\ size[r.base] >= size[e.base]
          /\ created' = created \cup {e.base}
  /\ UNCHANGED <<kind, layoutVars, elem, length, ffi_type>>

-----------------------------------------------------------------------------
(* Type(): the ffi_type of a struct is the list of the ffi_types of its    *)
(* parts; 0 stands for FFI_TYPES.pointer, a compound type for its node.    *)

Node(r) == IF r.ptr \/ r.base \in Arrays THEN 0 ELSE r.base

\* Mutant: an array counts as one element.
ElementsOnePerField(t) ==
  LET fs == Keys(fields[t])
  IN [i \in DOMAIN fs |-> Node(Parts(fs[i].type)[1])]

Elements(t) ==
  LET fs == Keys(fields[t])
      NodesOf(f) == [i \in DOMAIN Parts(f.type) |-> Node(Parts(f.type)[i])]
      nodes[i \in 0..Len(fs)] == IF i = 0 THEN <<>> ELSE nodes[i - 1] \o NodesOf(fs[i])
  IN nodes[Len(fs)]

\* The types that Type(t) gives an ffi_type: t, and the ones its elements
\* need that have none yet.
Reached[t \in Compound] ==
  {t} \cup UNION {Reached[u] : u \in {v \in Range(Elements(t)) \cap Compound :
                                         v < t /\ ffi_type[v] = NoFfi}}

\* A custom type, one without an alignment, has no ffi_type: Type() throws,
\* and has described some of the types in Reached[t], as calls for those do.
Describe(t) ==
  /\ t \in Records
  /\ ffi_type[t] = NoFfi
  /\ \A u \in Reached[t] : \A e \in Range(Elements(u)) : e \in Prims => PrimAlign[e] # 0
  /\ ffi_type' = [u \in Compound |-> IF u \in Reached[t] THEN Elements(u) ELSE ffi_type[u]]
  /\ UNCHANGED <<kind, layoutVars, elem, length, created>>

\* initialize_aggregate() of libffi, from the layouts of the elements.
Aggregate(nodes) ==
  LET end[i \in 0..Len(nodes)] ==
        IF i = 0 THEN 0 ELSE PadTo(end[i - 1], nodes[i].alignment) + nodes[i].size
      align == Max({1} \cup {nodes[i].alignment : i \in DOMAIN nodes})
  IN [size |-> PadTo(end[Len(nodes)], align), alignment |-> align]

\* What libffi makes of the ffi_type of each type, if it has one.
FfiLayout[t \in Compound] ==
  LET NodeLayout(e) ==
        CASE e = 0 -> [size |-> PointerSize, alignment |-> PointerSize]
          [] e \in Prims -> [size |-> PrimSize[e], alignment |-> PrimAlign[e]]
          [] OTHER -> FfiLayout[e]
      nodes == IF ffi_type[t] = NoFfi THEN <<>> ELSE ffi_type[t]
  IN Aggregate([i \in DOMAIN nodes |-> NodeLayout(nodes[i])])

-----------------------------------------------------------------------------
Next ==
  \E t \in Compound :
    \/ \E f \in Menu[t] : DefineProperty(t, f.name, f.type)
    \/ \E f \in Menu[t], len \in Lengths : DefineArray(t, f.type, len)
    \/ NewInstance(t)
    \/ \E n \in Names : GetField(t, n)
    \/ Describe(t)

Spec == Init /\ [][Next]_vars

-----------------------------------------------------------------------------
(* What a C compiler makes of the same declarations, from the types as     *)
(* they are now.                                                           *)

LeastAligned(o, align) == CHOOSE m \in o..(o + align - 1) : m % align = 0

\* A struct or union t with fields that are laid out like this.
CRecord(t, of) ==
  LET Align(i) == IF kind[t] = "packed" THEN 1 ELSE of[i].alignment
      align == Max({1} \cup {Align(i) : i \in DOMAIN of})
      at[i \in DOMAIN of] ==
        IF i = 1 \/ kind[t] = "union" THEN 0
        ELSE LeastAligned(at[i - 1] + of[i - 1].size, Align(i))
      end == Max({0} \cup {at[i] + of[i].size : i \in DOMAIN of})
  IN [size |-> LeastAligned(end, align), alignment |-> align, at |-> at]

CPointer == [size |-> PointerSize, alignment |-> PointerSize]

CLayout[t \in Compound] ==
  LET C(r) == CASE r.ptr -> CPointer
                [] ~r.ptr /\ r.base \in Prims ->
                     [size |-> PrimSize[r.base], alignment |-> PrimAlign[r.base]]
                [] OTHER -> CLayout[r.base]
  IN IF t \in Records THEN CRecord(t, [i \in DOMAIN fields[t] |-> C(fields[t][i].type)])
     ELSE IF length[t] <= 0 THEN CPointer
     ELSE [size |-> length[t] * C(elem[t]).size, alignment |-> C(elem[t]).alignment]

-----------------------------------------------------------------------------
(* Which types the claims are about.                                       *)

TypesIn(t) == IF t \in Arrays THEN {elem[t]} ELSE {fields[t][i].type : i \in DOMAIN fields[t]}
Embedded(t) ==
  {r.base : r \in {q \in TypesIn(t) : q.base \in (IF q.ptr THEN Arrays ELSE Compound)}}

\* t and the types it reads the layout of, at any depth.
Closure[t \in Compound] == {t} \cup UNION {Closure[u] : u \in {v \in Embedded(t) : v < t}}

\* What t has cached is what it would compute now.
UpToDate(t) ==
  IF t \in Arrays
  THEN length[t] > 0 => /\ size[t] = SizeOf(elem[t]) * length[t]
                        /\ alignment[t] = RawAlign(elem[t])
  ELSE LET now == Recalc(t, fields[t])
       IN /\ fields[t] # <<>>
          /\ now.ok
          /\ offset[t] = now.offset /\ size[t] = now.size /\ alignment[t] = now.alignment

Settled(t) == \A u \in Closure[t] : UpToDate(u)

IsFixedArray(r) == FixedLength(r) > 0
PointerToArray(r) == r.ptr /\ IsFixedArray(r)
ArrayOf(r, Test(_)) == ~r.ptr /\ IsFixedArray(r) /\ Test(elem[r.base])

\* Not laid out as in C: a pointer to an array (laid out as the array), an
\* array of pointers (aligned as what they point to), a packed struct inside
\* another type (not aligned to 1), a custom type without an alignment, and
\* fields with names like array indexes (moved to the front).
Plain(t) ==
  \A u \in Closure[t] :
    /\ u \in Records => Keys(fields[u]) = fields[u]
    /\ u # t => kind[u] # "packed"
    /\ \A r \in TypesIn(u) :
         /\ ~PointerToArray(r)
         /\ ~(u \in Arrays /\ r.ptr)
         /\ r.base \in Prims /\ ~r.ptr => PrimAlign[r.base] # 0

\* libffi knows no packed structs and no unions, and is told that an array of
\* arrays holds pointers.
PlainToFfi(t) ==
  /\ Plain(t)
  /\ \A u \in Closure[t] :
       /\ kind[u] \notin {"packed", "union"}
       /\ \A r \in TypesIn(u) : ~ArrayOf(r, LAMBDA e : e.base \in Arrays)

\* What C promises: of two alignments one is a multiple of the other, and the
\* size of a type is one of its alignment.
Alignments == {PointerSize} \cup {PrimAlign[p] : p \in {q \in Prims : PrimAlign[q] # 0}}
AlignedAsInC ==
  /\ \A a, b \in Alignments : a % b = 0 \/ b % a = 0
  /\ \A p \in Prims : PrimAlign[p] # 0 => PrimSize[p] % PrimAlign[p] = 0

\* The ffi_types of t and of what it embeds list their fields of now.
FfiUpToDate(t) ==
  \A u \in Closure[t] \cap Records : ffi_type[u] = Elements(u)

-----------------------------------------------------------------------------
(* Properties.                                                             *)

\* A plain type has the size, the offsets and, unless it is packed, the
\* alignment that C gives it: recalc() walks an array element by element and
\* works from the cached sizes of what it embeds, and still agrees with the
\* compiler once those are up to date.
LayoutIsC ==
  \A t \in Records :
    Plain(t) /\ Settled(t) =>
      /\ size[t] = CLayout[t].size
      /\ kind[t] # "packed" => alignment[t] = CLayout[t].alignment
      /\ \A i \in DOMAIN fields[t] : offset[t][fields[t][i].name] = CLayout[t].at[i]

\* The bytes that the accessors of a type read and write are inside the type
\* and, except in a union, no two fields share one; also where the layout is
\* not that of C, but for pointers to arrays.
FieldsDisjoint ==
  \A t \in Records :
    LET fs == fields[t]
        First(i) == offset[t][fs[i].name]
        Past(i) == First(i) + SizeOf(fs[i].type)
    IN (\A r \in TypesIn(t) : ~PointerToArray(r)) /\ Settled(t) =>
         \A i, j \in DOMAIN fs :
           /\ Past(i) <= size[t]
           /\ i # j /\ kind[t] # "union" => Past(i) <= First(j) \/ Past(j) <= First(i)

\* A struct passed by value has the size and the alignment for libffi, which
\* computes them from the elements that Type() lists, that the struct has in
\* JavaScript: libffi copies as many bytes as the Buffer holds.
FfiAgrees ==
  \A t \in Records :
    ffi_type[t] # NoFfi /\ PlainToFfi(t) /\ FfiUpToDate(t) /\ Settled(t) =>
      /\ FfiLayout[t].size = size[t]
      /\ FfiLayout[t].alignment = alignment[t]

\* Once a type and all it embeds have had an instance, which using the
\* embedded fields sees to, nothing that its layout was computed from changes
\* any more: an instance never finds that its type has outgrown its bytes.
SealedForGood ==
  [][\A t \in created :
       Closure[t] \cap Records \subseteq created =>
         \A u \in Closure[t] :
           /\ fields'[u] = fields[u] /\ elem'[u] = elem[u] /\ length'[u] = length[u]
           /\ offset'[u] = offset[u] /\ size'[u] = size[u]
           /\ alignment'[u] = alignment[u]]_vars

\* docs/ref.md:370: the alignment of a type is optional.  Defining a field
\* that passes the assertions of defineProperty() gives it an accessor.
AlignmentIsOptional ==
  \A t \in Records : \A i \in DOMAIN fields[t] : fields[t][i].name \in accessors[t]
=============================================================================
