------------------------- MODULE ArrayBufferRegistry -------------------------
(***************************************************************************)
(* InstanceData::pointer_to_orig_buffer (src/src/ref-napi.cc): the table   *)
(* that maps an address to the ArrayBuffer over it, so that the addon      *)
(* hands out that ArrayBuffer and does not create a second one.            *)
(*                                                                         *)
(* The table holds weak references.  The garbage collector clears the weak *)
(* references to an ArrayBuffer when it collects it, and the finalizers    *)
(* run later: in between, the address may be reused and registered again,  *)
(* which is why an entry counts the finalizers still to run.               *)
(***************************************************************************)
EXTENDS Naturals, FiniteSets

CONSTANTS
  Buffers,          \* ArrayBuffer objects; reused once finalized
  Addrs,            \* addresses, other than nullptr
  NoBuffer,         \* a cleared weak reference
  FreeWhileWrapped  \* native code may free memory that a Buffer still wraps

ASSUME BuffersAssumption == IsFiniteSet(Buffers) /\ NoBuffer \notin Buffers
ASSUME AddrsAssumption == Addrs # {}
ASSUME FreeAssumption == FreeWhileWrapped \in BOOLEAN

VARIABLES
  state,        \* state[b]: life of ArrayBuffer b
  addr,         \* addr[b]: the address of its data
  external,     \* buffers over memory they do not own, created by the addon
  passed,       \* buffers whose address was given to native code
  finalizers,   \* finalizers[b]: UnregisterArrayBuffer finalizers b carries
  registered,   \* keys of pointer_to_orig_buffer
  weak,         \* weak[p]: the ArrayBuffer that entry p refers to
  count,        \* count[p]: finalizer_count of entry p
  owner         \* owner[p]: who owns the memory at p

tableVars == <<registered, weak, count>>
registryVars == <<state, addr, external, passed, finalizers, tableVars, owner>>

Live == {b \in Buffers : state[b] \in {"reachable", "garbage"}}

RegistryTypeOK ==
  /\ state \in [Buffers -> {"unused", "reachable", "garbage", "collected"}]
  /\ addr \in [Buffers -> Addrs]
  /\ external \subseteq Buffers
  /\ passed \subseteq Buffers
  /\ finalizers \in [Buffers -> Nat]
  /\ registered \subseteq Addrs
  /\ weak \in [Addrs -> Buffers \cup {NoBuffer}]
  /\ count \in [Addrs -> Nat]
  /\ owner \in [Addrs -> {"free", "js", "native"}]

RegistryInit ==
  /\ state = [b \in Buffers |-> "unused"]
  /\ addr = [b \in Buffers |-> CHOOSE p \in Addrs : TRUE]   \* of no matter yet
  /\ external = {}
  /\ passed = {}
  /\ finalizers = [b \in Buffers |-> 0]
  /\ registered = {}
  /\ weak = [p \in Addrs |-> NoBuffer]
  /\ count = [p \in Addrs |-> 0]
  /\ owner = [p \in Addrs |-> "free"]

-----------------------------------------------------------------------------
(* The table.                                                              *)

\* it->second.ab.Value() is not empty.
HasValidEntry(p) == p \in registered /\ weak[p] # NoBuffer

\* Mutant: the finalizer of a reset entry is not counted.
AddEntryUncounted(b, p) ==
  /\ registered' = registered \cup {p}
  /\ weak' = [weak EXCEPT ![p] = b]
  /\ count' = [count EXCEPT ![p] = 1]

\* Mutant: the cleared reference of an existing entry is not reset.
AddEntryKeepsWeak(b, p) ==
  /\ registered' = registered \cup {p}
  /\ weak' = [weak EXCEPT ![p] = IF p \in registered THEN @ ELSE b]
  /\ count' = [count EXCEPT ![p] = IF p \in registered THEN @ + 1 ELSE 1]

\* RegisterArrayBufferImpl where it goes on: the weak reference of an entry
\* found cleared is reset, and one more finalizer is counted; otherwise a new
\* entry counts one.
AddEntry(b, p) ==
  /\ registered' = registered \cup {p}
  /\ weak' = [weak EXCEPT ![p] = b]
  /\ count' = [count EXCEPT ![p] = IF p \in registered THEN @ + 1 ELSE 1]

\* Mutant: the first finalizer erases the entry.
UnregisterAtOnce(p) ==
  /\ count' = [count EXCEPT ![p] = 0]
  /\ registered' = registered \ {p}
  /\ weak' = [weak EXCEPT ![p] = NoBuffer]

\* Mutant: the entry is never erased.
UnregisterKeepsEntry(p) ==
  /\ count' = [count EXCEPT ![p] = @ - 1]
  /\ UNCHANGED <<registered, weak>>

\* UnregisterArrayBuffer.
Unregister(p) ==
  /\ count' = [count EXCEPT ![p] = @ - 1]
  /\ registered' = IF count[p] = 1 THEN registered \ {p} ELSE registered
  /\ weak' = IF count[p] = 1 THEN [weak EXCEPT ![p] = NoBuffer] ELSE weak

-----------------------------------------------------------------------------
(* The addon's operations.                                                 *)

\* Mutant: AB_CREATED_BY_REF for a buffer that the addon did not create.
GetBufferDataNoFinalizer(b) ==
  LET p == addr[b] IN
  /\ state[b] = "reachable"
  /\ passed' = passed \cup {b}
  /\ IF HasValidEntry(p) THEN UNCHANGED tableVars ELSE AddEntry(b, p)
  /\ UNCHANGED <<finalizers, state, addr, external, owner>>

\* GetBufferData: the ArrayBuffer of a Buffer argument is registered before its
\* address goes to native code.
GetBufferData(b) ==
  LET p == addr[b] IN
  /\ state[b] = "reachable"
  /\ passed' = passed \cup {b}
  /\ IF HasValidEntry(p)
       THEN UNCHANGED <<tableVars, finalizers>>
       ELSE /\ AddEntry(b, p)
            /\ finalizers' = [finalizers EXCEPT ![b] = @ + 1]
  /\ UNCHANGED <<state, addr, external, owner>>

\* Native code knows the address of its own memory and of what it was passed.
Exposed(p) ==
  \/ owner[p] = "native"
  \/ \E b \in passed \cap Live : addr[b] = p /\ b \notin external

\* WrapPointer of an address with a valid entry: that ArrayBuffer, which
\* JavaScript can now reach (again).
WrapKnown(p) ==
  /\ Exposed(p)
  /\ HasValidEntry(p)
  /\ state' = [state EXCEPT ![weak[p]] = "reachable"]
  /\ UNCHANGED <<addr, external, passed, finalizers, tableVars, owner>>

\* WrapPointer of any other address: a new ArrayBuffer over it, with its
\* finalizer, registered as AB_CREATED_BY_REF.
WrapNew(p, b) ==
  /\ Exposed(p)
  /\ ~HasValidEntry(p)
  /\ state[b] = "unused"
  /\ state' = [state EXCEPT ![b] = "reachable"]
  /\ addr' = [addr EXCEPT ![b] = p]
  /\ external' = external \cup {b}
  /\ finalizers' = [finalizers EXCEPT ![b] = 1]
  /\ AddEntry(b, p)
  /\ UNCHANGED <<passed, owner>>

-----------------------------------------------------------------------------
(* JavaScript, the garbage collector and the allocators.                   *)

\* JavaScript allocates a Buffer with an ArrayBuffer of its own.
JsAlloc(b, p) ==
  /\ state[b] = "unused"
  /\ owner[p] = "free"
  /\ state' = [state EXCEPT ![b] = "reachable"]
  /\ addr' = [addr EXCEPT ![b] = p]
  /\ owner' = [owner EXCEPT ![p] = "js"]
  /\ UNCHANGED <<external, passed, finalizers, tableVars>>

\* The last Buffer over the ArrayBuffer becomes unreachable.
Drop(b) ==
  /\ state[b] = "reachable"
  /\ state' = [state EXCEPT ![b] = "garbage"]
  /\ UNCHANGED <<addr, external, passed, finalizers, tableVars, owner>>

\* The collector clears the weak references and frees the memory that the
\* ArrayBuffer owns.
Collect(b) ==
  LET p == addr[b] IN
  /\ state[b] = "garbage"
  /\ state' = [state EXCEPT ![b] = "collected"]
  /\ weak' = [weak EXCEPT ![p] = IF @ = b THEN NoBuffer ELSE @]
  /\ owner' = [owner EXCEPT ![p] = IF b \in external THEN @ ELSE "free"]
  /\ UNCHANGED <<addr, external, passed, finalizers, registered, count>>

\* A finalizer of the collected ArrayBuffer runs, later.
Finalize(b) ==
  /\ state[b] = "collected"
  /\ finalizers[b] > 0
  /\ Unregister(addr[b])
  /\ finalizers' = [finalizers EXCEPT ![b] = @ - 1]
  /\ UNCHANGED <<state, addr, external, passed, owner>>

\* Nothing is left of it: the model uses b for another ArrayBuffer.
Recycle(b) ==
  /\ state[b] = "collected"
  /\ finalizers[b] = 0
  /\ state' = [state EXCEPT ![b] = "unused"]
  /\ external' = external \ {b}
  /\ passed' = passed \ {b}
  /\ UNCHANGED <<addr, finalizers, tableVars, owner>>

NativeAlloc(p) ==
  /\ owner[p] = "free"
  /\ owner' = [owner EXCEPT ![p] = "native"]
  /\ UNCHANGED <<state, addr, external, passed, finalizers, tableVars>>

NativeFree(p) ==
  /\ owner[p] = "native"
  /\ FreeWhileWrapped \/ \A b \in Live : addr[b] # p
  /\ owner' = [owner EXCEPT ![p] = "free"]
  /\ UNCHANGED <<state, addr, external, passed, finalizers, tableVars>>

RegistryNext ==
  \/ \E b \in Buffers : GetBufferData(b) \/ Drop(b) \/ Collect(b)
                        \/ Finalize(b) \/ Recycle(b)
  \/ \E p \in Addrs : WrapKnown(p) \/ NativeAlloc(p) \/ NativeFree(p)
  \/ \E b \in Buffers, p \in Addrs : WrapNew(p, b) \/ JsAlloc(b, p)

RegistrySpec == RegistryInit /\ [][RegistryNext]_registryVars

\* The collector finds garbage that stays garbage, and finalizers run.
RegistryFairness ==
  \A b \in Buffers : WF_registryVars(Collect(b)) /\ WF_registryVars(Finalize(b))

-----------------------------------------------------------------------------
(* Properties.                                                             *)

\* The count of an entry is the number of finalizers that will still decrement
\* it, and there is an entry as long as there is one: UnregisterArrayBuffer,
\* which does not look whether find() succeeded, always finds its entry, and
\* no entry outlives its last finalizer.
Carriers(p) == {b \in Buffers : finalizers[b] > 0 /\ addr[b] = p}

CountsFinalizers ==
  \A p \in Addrs :
    /\ p \in registered <=> Carriers(p) # {}
    /\ count[p] = Cardinality(Carriers(p))

\* An ArrayBuffer carries at most one finalizer, and while it lives the entry
\* of its address refers to it, however often the address was reused.
LookupFindsRegistered ==
  \A b \in Buffers :
    /\ finalizers[b] <= 1
    /\ (b \in Live /\ finalizers[b] = 1) => addr[b] \in registered /\ weak[addr[b]] = b

\* "we have to keep a global list of all ArrayBuffer instances that we work
\* with, in order not to create any duplicates": of the ArrayBuffers that the
\* addon made or was given, no two that live are over the same address.
NoDuplicates ==
  \A b, c \in Live \cap (external \cup passed) : addr[b] = addr[c] => b = c

\* The table does not grow for ever: an entry whose ArrayBuffer is collected
\* goes, unless its address is registered again.
EntriesGoAway ==
  \A p \in Addrs :
    (p \in registered /\ weak[p] = NoBuffer) ~> (p \notin registered \/ weak[p] # NoBuffer)
=============================================================================
