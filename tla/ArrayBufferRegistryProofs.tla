---------------------- MODULE ArrayBufferRegistryProofs ----------------------
(***************************************************************************)
(* Theorems about ArrayBufferRegistry, for any finite set of ArrayBuffer   *)
(* objects and any set of addresses.                                       *)
(***************************************************************************)
EXTENDS ArrayBufferRegistry, FiniteSetTheorems, TLAPS

-----------------------------------------------------------------------------
(* The inductive invariant.                                                *)

\* A valid entry refers to a live ArrayBuffer over its address, with a finalizer.
WeakInv ==
  /\ \A p \in Addrs : weak[p] # NoBuffer =>
       /\ p \in registered
       /\ weak[p] \in Live
       /\ addr[weak[p]] = p
       /\ finalizers[weak[p]] = 1
  /\ \A b \in Buffers : finalizers[b] > 0 => state[b] # "unused"

TableInv == RegistryTypeOK /\ CountsFinalizers /\ LookupFindsRegistered /\ WeakInv

LEMMA CarriersFinite ==
  \A p \in Addrs : IsFiniteSet(Carriers(p)) /\ Cardinality(Carriers(p)) \in Nat
<1> TAKE p \in Addrs
<1>1. Carriers(p) \subseteq Buffers
  BY DEF Carriers
<1> QED
  BY <1>1, BuffersAssumption, FS_Subset, FS_CardinalityType

LEMMA CarriersEmpty ==
  \A p \in Addrs : Cardinality(Carriers(p)) = 0 <=> Carriers(p) = {}
  BY CarriersFinite, FS_EmptySet

LEMMA TableInit == RegistryInit => TableInv
<1> SUFFICES ASSUME RegistryInit PROVE TableInv
  OBVIOUS
<1>1. RegistryTypeOK
  BY AddrsAssumption DEF RegistryInit, RegistryTypeOK
<1>2. \A p \in Addrs : Carriers(p) = {}
  BY DEF RegistryInit, Carriers
<1>3. CountsFinalizers
  BY <1>2, FS_EmptySet DEF RegistryInit, CountsFinalizers
<1>4. LookupFindsRegistered /\ WeakInv
  BY DEF RegistryInit, LookupFindsRegistered, WeakInv, Live
<1> QED
  BY <1>1, <1>3, <1>4 DEF TableInv

-----------------------------------------------------------------------------
(* Registering b at p, where p has no valid entry and b no finalizer.      *)

LEMMA AddEntryInv ==
  ASSUME TableInv, NEW b \in Buffers, NEW p \in Addrs,
         ~HasValidEntry(p), AddEntry(b, p), finalizers[b] = 0,
         finalizers' = [finalizers EXCEPT ![b] = 1],
         addr' = [addr EXCEPT ![b] = p],
         state' = [state EXCEPT ![b] = "reachable"]
  PROVE  CountsFinalizers' /\ LookupFindsRegistered' /\ WeakInv'
<1> USE DEF TableInv, RegistryTypeOK, AddEntry, HasValidEntry
<1>1. Carriers(p)' = Carriers(p) \cup {b} /\ b \notin Carriers(p)
  BY DEF Carriers
<1>2. \A q \in Addrs \ {p} : Carriers(q)' = Carriers(q)
  BY DEF Carriers
<1>3. Cardinality(Carriers(p) \cup {b}) = Cardinality(Carriers(p)) + 1
  BY <1>1, CarriersFinite, FS_AddElement
<1>4. CountsFinalizers'
  <2>1. p \in registered => count'[p] = Cardinality(Carriers(p)')
    BY <1>1, <1>3 DEF CountsFinalizers
  <2>2. p \notin registered => count'[p] = Cardinality(Carriers(p)')
    BY <1>1, <1>3, CarriersEmpty DEF CountsFinalizers
  <2>3. \A q \in Addrs \ {p} : /\ q \in registered' <=> Carriers(q)' # {}
                               /\ count'[q] = Cardinality(Carriers(q)')
    BY <1>2 DEF CountsFinalizers
  <2>4. p \in registered' /\ Carriers(p)' # {}
    BY <1>1
  <2> QED
    BY <2>1, <2>2, <2>3, <2>4 DEF CountsFinalizers
<1>5. \A c \in Buffers : c \in Live /\ finalizers[c] = 1 => addr[c] # p
  BY BuffersAssumption DEF LookupFindsRegistered
<1>6. LookupFindsRegistered'
  BY <1>5 DEF LookupFindsRegistered, Live
<1>7. WeakInv'
  <2>1. \A q \in Addrs : weak[q] # b
    BY BuffersAssumption DEF WeakInv
  <2> QED
    BY <2>1, BuffersAssumption DEF WeakInv, Live
<1> QED
  BY <1>4, <1>6, <1>7

-----------------------------------------------------------------------------
(* Every step keeps the invariant.                                         *)

LEMMA TypeStep == TableInv /\ [RegistryNext]_registryVars => RegistryTypeOK'
<1> SUFFICES ASSUME TableInv, [RegistryNext]_registryVars PROVE RegistryTypeOK'
  OBVIOUS
<1>1. ASSUME NEW b \in Buffers, finalizers[b] > 0
      PROVE  count[addr[b]] \in Nat \ {0}
  <2>1. addr[b] \in Addrs /\ b \in Carriers(addr[b])
    BY <1>1 DEF TableInv, RegistryTypeOK, Carriers
  <2> QED
    BY <2>1, CarriersEmpty DEF TableInv, RegistryTypeOK, CountsFinalizers
<1> USE DEF TableInv, RegistryTypeOK, tableVars
<1>2. ASSUME NEW b \in Buffers, GetBufferData(b) PROVE RegistryTypeOK'
  BY <1>2 DEF GetBufferData, AddEntry
<1>3. ASSUME NEW b \in Buffers, Finalize(b) PROVE RegistryTypeOK'
  <2>1. finalizers[b] - 1 \in Nat /\ count[addr[b]] - 1 \in Nat
    BY <1>1, <1>3 DEF Finalize
  <2> QED
    BY <1>3, <2>1 DEF Finalize, Unregister
<1>4. ASSUME NEW b \in Buffers, Drop(b) \/ Collect(b) \/ Recycle(b) PROVE RegistryTypeOK'
  BY <1>4 DEF Drop, Collect, Recycle
<1>5. ASSUME NEW p \in Addrs, WrapKnown(p) \/ NativeAlloc(p) \/ NativeFree(p)
      PROVE  RegistryTypeOK'
  BY <1>5 DEF WrapKnown, NativeAlloc, NativeFree
<1>6. ASSUME NEW b \in Buffers, NEW p \in Addrs, WrapNew(p, b) PROVE RegistryTypeOK'
  BY <1>6 DEF WrapNew, AddEntry
<1>7. ASSUME NEW b \in Buffers, NEW p \in Addrs, JsAlloc(b, p) PROVE RegistryTypeOK'
  BY <1>7 DEF JsAlloc
<1>8. CASE UNCHANGED registryVars
  BY <1>8 DEF registryVars
<1> QED
  BY <1>2, <1>3, <1>4, <1>5, <1>6, <1>7, <1>8 DEF RegistryNext

\* UnregisterArrayBuffer, from a finalizer of b.
LEMMA FinalizeInv ==
  ASSUME TableInv, NEW b \in Buffers, Finalize(b)
  PROVE  CountsFinalizers' /\ LookupFindsRegistered' /\ WeakInv'
<1> USE DEF TableInv, RegistryTypeOK
<1>p. PICK p \in Addrs : p = addr[b]
  OBVIOUS
<1>0. state[b] = "collected" /\ finalizers[b] = 1
  BY DEF Finalize, LookupFindsRegistered
<1>1. /\ state[b] = "collected" /\ finalizers[b] = 1
      /\ addr[b] = p /\ UNCHANGED <<state, addr>>
      /\ finalizers' = [finalizers EXCEPT ![b] = 0]
      /\ count' = [count EXCEPT ![p] = @ - 1]
      /\ registered' = IF count[p] = 1 THEN registered \ {p} ELSE registered
      /\ weak' = IF count[p] = 1 THEN [weak EXCEPT ![p] = NoBuffer] ELSE weak
  BY <1>0, <1>p DEF Finalize, Unregister
<1>2. b \in Carriers(p) /\ Carriers(p)' = Carriers(p) \ {b}
  BY <1>1 DEF Carriers
<1>3. \A q \in Addrs \ {p} : Carriers(q)' = Carriers(q)
  BY <1>1 DEF Carriers
<1>4. /\ Cardinality(Carriers(p)') = Cardinality(Carriers(p)) - 1
      /\ p \in registered
      /\ count[p] = Cardinality(Carriers(p)) /\ count[p] \in Nat \ {0}
  <2>1. IsFiniteSet(Carriers(p)) /\ Carriers(p) # {}
    BY <1>2, CarriersFinite
  <2>2. Cardinality(Carriers(p) \ {b}) = Cardinality(Carriers(p)) - 1
    BY <1>2, <2>1, FS_RemoveElement
  <2>3. Cardinality(Carriers(p)) \in Nat \ {0}
    BY <2>1, CarriersFinite, CarriersEmpty
  <2> QED
    BY <1>2, <2>1, <2>2, <2>3 DEF CountsFinalizers
<1>5. count[p] = 1 <=> Carriers(p)' = {}
  <2>1. IsFiniteSet(Carriers(p) \ {b})
    BY <1>1, CarriersFinite, FS_RemoveElement
  <2>2. Cardinality(Carriers(p) \ {b}) = 0 <=> Carriers(p) \ {b} = {}
    BY <2>1, FS_EmptySet
  <2> QED
    BY <1>2, <1>4, <2>2
<1>6. CountsFinalizers'
  <2>1. count'[p] = Cardinality(Carriers(p)')
    BY <1>1, <1>4
  <2>2. p \in registered' <=> Carriers(p)' # {}
    BY <1>1, <1>4, <1>5
  <2>3. \A q \in Addrs \ {p} : /\ q \in registered' <=> Carriers(q)' # {}
                               /\ count'[q] = Cardinality(Carriers(q)')
    BY <1>1, <1>3 DEF CountsFinalizers
  <2>4. ASSUME NEW q \in Addrs
        PROVE  /\ q \in registered' <=> Carriers(q)' # {}
               /\ count'[q] = Cardinality(Carriers(q)')
    <3>1. CASE q = p
      BY <2>1, <2>2, <3>1
    <3>2. CASE q # p
      BY <2>3, <3>2
    <3> QED
      BY <3>1, <3>2
  <2> QED
    BY <2>4 DEF CountsFinalizers
\* An entry is erased only when nobody else carries a finalizer for it.
<1>7. ASSUME count[p] = 1
      PROVE  \A c \in Buffers \ {b} : finalizers[c] = 1 => addr[c] # p
  <2>1. Carriers(p) \ {b} = {}
    BY <1>2, <1>5, <1>7
  <2> QED
    BY <2>1 DEF Carriers
<1>8. b \notin Live
  BY <1>1 DEF Live
<1>9. LookupFindsRegistered'
  BY <1>1, <1>7, <1>8 DEF LookupFindsRegistered, Live
<1>10. WeakInv'
  BY <1>1, <1>8, BuffersAssumption DEF WeakInv, Live
<1> QED
  BY <1>6, <1>9, <1>10

\* A step that leaves the entries, the counts and the finalizers alone.
LEMMA SameCarriers ==
  ASSUME CountsFinalizers, UNCHANGED <<registered, count, finalizers>>,
         \A b \in Buffers : finalizers[b] > 0 => addr'[b] = addr[b]
  PROVE  CountsFinalizers'
<1>1. ASSUME \A b \in Buffers : finalizers[b] > 0 => addr'[b] = addr[b],
             NEW p \in Addrs
      PROVE  Carriers(p)' = Carriers(p)
  BY <1>1 DEF Carriers
<1> QED
  BY <1>1 DEF CountsFinalizers

LEMMA TableStep == TableInv /\ [RegistryNext]_registryVars => TableInv'
<1> SUFFICES ASSUME TableInv, [RegistryNext]_registryVars
             PROVE  CountsFinalizers' /\ LookupFindsRegistered' /\ WeakInv'
  BY TypeStep DEF TableInv
<1> DEFINE Kept == CountsFinalizers' /\ LookupFindsRegistered' /\ WeakInv'
<1>1. ASSUME NEW b \in Buffers, GetBufferData(b) PROVE Kept
  <2>p. PICK p \in Addrs : p = addr[b]
    BY DEF TableInv, RegistryTypeOK
  <2>1. addr[b] = p /\ state[b] = "reachable" /\ UNCHANGED <<state, addr>>
    BY <1>1, <2>p DEF GetBufferData, TableInv, RegistryTypeOK
  <2>2. CASE HasValidEntry(p)
    <3>1. UNCHANGED <<tableVars, finalizers, state, addr>>
      BY <1>1, <2>1, <2>2 DEF GetBufferData
    <3> QED
      BY <3>1, SameCarriers
      DEF TableInv, tableVars, LookupFindsRegistered, WeakInv, Live
  <2>3. CASE ~HasValidEntry(p)
    <3>1. finalizers[b] = 0
      BY <2>1, <2>3, BuffersAssumption
      DEF TableInv, RegistryTypeOK, LookupFindsRegistered, Live, HasValidEntry
    <3>2. AddEntry(b, p) /\ finalizers' = [finalizers EXCEPT ![b] = 1]
      BY <1>1, <2>1, <2>3, <3>1 DEF GetBufferData, TableInv, RegistryTypeOK
    <3>3. /\ addr' = [addr EXCEPT ![b] = p]
          /\ state' = [state EXCEPT ![b] = "reachable"]
      BY <2>1 DEF TableInv, RegistryTypeOK
    <3> QED
      BY <2>1, <2>3, <3>1, <3>2, <3>3, AddEntryInv
  <2> QED
    BY <2>2, <2>3
<1>2. ASSUME NEW p \in Addrs, NEW b \in Buffers, WrapNew(p, b) PROVE Kept
  <2>1. finalizers[b] = 0
    BY <1>2 DEF WrapNew, TableInv, RegistryTypeOK, WeakInv
  <2> QED
    BY <1>2, <2>1, AddEntryInv DEF WrapNew
<1>3. ASSUME NEW b \in Buffers, Finalize(b) PROVE Kept
  BY <1>3, FinalizeInv
<1>4. ASSUME NEW p \in Addrs, WrapKnown(p) PROVE Kept
  <2>1. UNCHANGED <<tableVars, finalizers, addr>> /\ weak[p] \in Live
        /\ state' = [state EXCEPT ![weak[p]] = "reachable"]
    BY <1>4 DEF WrapKnown, HasValidEntry, TableInv, WeakInv
  <2>2. Live' = Live
    BY <2>1 DEF TableInv, RegistryTypeOK, Live
  <2> QED
    BY <2>1, <2>2, SameCarriers
    DEF TableInv, RegistryTypeOK, tableVars, LookupFindsRegistered, WeakInv, Live
<1>5. ASSUME NEW b \in Buffers, NEW p \in Addrs, JsAlloc(b, p) PROVE Kept
  <2>1. /\ finalizers[b] = 0 /\ UNCHANGED <<tableVars, finalizers>>
        /\ addr' = [addr EXCEPT ![b] = p]
        /\ state' = [state EXCEPT ![b] = "reachable"]
        /\ \A q \in Addrs : weak[q] # b
    BY <1>5, BuffersAssumption DEF JsAlloc, TableInv, RegistryTypeOK, WeakInv, Live
  <2> QED
    BY <2>1, SameCarriers, BuffersAssumption
    DEF TableInv, RegistryTypeOK, tableVars, LookupFindsRegistered, WeakInv, Live
<1>6. ASSUME NEW b \in Buffers, Drop(b) PROVE Kept
  BY <1>6, SameCarriers
  DEF Drop, TableInv, RegistryTypeOK, tableVars, LookupFindsRegistered, WeakInv, Live
<1>7. ASSUME NEW b \in Buffers, Collect(b) PROVE Kept
  <2>1. CountsFinalizers'
    BY <1>7, SameCarriers DEF Collect, TableInv
  <2> QED
    BY <1>7, <2>1, BuffersAssumption
    DEF Collect, TableInv, RegistryTypeOK, LookupFindsRegistered, WeakInv, Live
<1>8. ASSUME NEW b \in Buffers, Recycle(b) PROVE Kept
  BY <1>8, SameCarriers
  DEF Recycle, TableInv, RegistryTypeOK, tableVars, LookupFindsRegistered, WeakInv, Live
<1>9. CASE UNCHANGED <<state, addr, finalizers, tableVars>>
  BY <1>9, SameCarriers DEF TableInv, tableVars, LookupFindsRegistered, WeakInv, Live
<1> QED
  BY <1>1, <1>2, <1>3, <1>4, <1>5, <1>6, <1>7, <1>8, <1>9
  DEF RegistryNext, registryVars, NativeAlloc, NativeFree

LEMMA TableCorrect == RegistrySpec => []TableInv
  BY TableInit, TableStep, PTL DEF RegistrySpec

\* Every reachable state is well typed: no count and no finalizer goes below 0.
THEOREM TypeCorrect == RegistrySpec => []RegistryTypeOK
  BY TableCorrect, PTL DEF TableInv

\* finalizer_count is exact and UnregisterArrayBuffer always finds its entry,
\* even if native code frees memory that is still wrapped.
THEOREM CountIsExact == RegistrySpec => []CountsFinalizers
  BY TableCorrect, PTL DEF TableInv

\* A live ArrayBuffer that was registered is found under its address.
THEOREM RegisteredIsFound == RegistrySpec => []LookupFindsRegistered
  BY TableCorrect, PTL DEF TableInv

-----------------------------------------------------------------------------
(* No duplicates, where native code does not free memory that is wrapped.  *)

MemInv ==
  /\ \A b \in Live \ external : owner[addr[b]] = "js"
  /\ \A b \in Live \cap external : owner[addr[b]] = "native" /\ finalizers[b] = 1
  /\ \A b \in Live \cap passed : finalizers[b] = 1
  /\ \A b, c \in Live : addr[b] = addr[c] => b = c
  /\ \A b \in Buffers : state[b] = "unused" => b \notin external \cup passed

LEMMA MemStep ==
  TableInv /\ MemInv /\ ~FreeWhileWrapped /\ [RegistryNext]_registryVars => MemInv'
<1> SUFFICES ASSUME TableInv, MemInv, ~FreeWhileWrapped, [RegistryNext]_registryVars PROVE MemInv'
  OBVIOUS
<1> USE DEF TableInv, RegistryTypeOK, MemInv, Live
<1>1. ASSUME NEW b \in Buffers, GetBufferData(b) PROVE MemInv'
  <2>1. PICK p \in Addrs : p = addr[b]
    OBVIOUS
  <2>2. CASE HasValidEntry(p)
    <3>1. finalizers[b] = 1
      BY <1>1, <2>1, <2>2, BuffersAssumption DEF GetBufferData, HasValidEntry, WeakInv
    <3> QED
      BY <1>1, <2>1, <2>2, <3>1 DEF GetBufferData
  <2>3. CASE ~HasValidEntry(p)
    <3>1. finalizers[b] = 0
      BY <1>1, <2>1, <2>3, BuffersAssumption
      DEF GetBufferData, LookupFindsRegistered, HasValidEntry
    <3> QED
      BY <1>1, <2>1, <2>3, <3>1 DEF GetBufferData
  <2> QED
    BY <2>2, <2>3
<1>2. ASSUME NEW p \in Addrs, NEW b \in Buffers, WrapNew(p, b) PROVE MemInv'
  <2>1. \A c \in Buffers : c \in Live /\ addr[c] = p => finalizers[c] # 1
    BY <1>2, BuffersAssumption DEF WrapNew, HasValidEntry, LookupFindsRegistered
  <2>2. owner[p] = "native"
    BY <1>2, <2>1 DEF WrapNew, Exposed
  <2>3. \A c \in Buffers : c \in Live => addr[c] # p
    BY <2>1, <2>2
  <2> QED
    BY <1>2, <2>2, <2>3 DEF WrapNew
<1>3. ASSUME NEW b \in Buffers, NEW p \in Addrs, JsAlloc(b, p) PROVE MemInv'
  <2>1. \A c \in Buffers : c \in Live => addr[c] # p
    BY <1>3 DEF JsAlloc
  <2> QED
    BY <1>3, <2>1 DEF JsAlloc
<1>4. ASSUME NEW p \in Addrs, WrapKnown(p) PROVE MemInv'
  BY <1>4 DEF WrapKnown, HasValidEntry, WeakInv
<1>5. ASSUME NEW b \in Buffers, Collect(b) PROVE MemInv'
  BY <1>5 DEF Collect
<1>6. ASSUME NEW b \in Buffers, Finalize(b) PROVE MemInv'
  BY <1>6 DEF Finalize
<1>7. ASSUME NEW b \in Buffers, Drop(b) \/ Recycle(b) PROVE MemInv'
  BY <1>7 DEF Drop, Recycle
<1>8. ASSUME NEW p \in Addrs, NativeAlloc(p) \/ NativeFree(p) PROVE MemInv'
  BY <1>8 DEF NativeAlloc, NativeFree
<1>9. CASE UNCHANGED registryVars
  BY <1>9 DEF registryVars
<1> QED
  BY <1>1, <1>2, <1>3, <1>4, <1>5, <1>6, <1>7, <1>8, <1>9 DEF RegistryNext

\* The purpose of the table: of the ArrayBuffers the addon made or was given,
\* no two that live are over one address.  Without the assumption it is false:
\* an address freed by native code while a Buffer wraps it can come back as a
\* Buffer of JavaScript's own.
THEOREM NoDuplicatesWhileOwned ==
  ASSUME ~FreeWhileWrapped
  PROVE  RegistrySpec => []NoDuplicates
<1>1. RegistryInit => MemInv
  BY DEF RegistryInit, MemInv, Live
<1>2. MemInv => NoDuplicates
  BY DEF MemInv, NoDuplicates
<1> QED
  BY <1>1, <1>2, TableCorrect, MemStep, PTL DEF RegistrySpec
=============================================================================
