---------------------------- MODULE BufferMemory ----------------------------
(***************************************************************************)
(* Which memory stays alive, and for how long: the Buffers of a JavaScript *)
(* program, the pointers between their blocks of memory (writePointer,     *)
(* readPointer, reinterpret, writeObject in src/lib/ref/ref.js and         *)
(* src/src/ref-napi.cc), the closures of callback.js, and a garbage        *)
(* collector that knows nothing of the pointers.                           *)
(*                                                                         *)
(* A view is a Buffer object.  It owns its memory if its ArrayBuffer does: *)
(* one that the addon wrapped around an address does not.  A block lives   *)
(* as long as some view that owns it.  The program does not use memory     *)
(* that was freed; the properties tell when it need not fear that.         *)
(***************************************************************************)
EXTENDS Naturals, FiniteSets

CONSTANTS
  Views,   \* the Buffer objects that can exist at a time
  Blocks,  \* the places where memory can be allocated
  Slots,   \* the offsets in a block, one pointer wide each
  None,    \* no view, no block
  MaxCalls \* bound: the calls that the program makes

ASSUME SlotsAssumption == Slots \subseteq Nat /\ 0 \in Slots
ASSUME MaxCallsAssumption == MaxCalls \in Nat
ASSUME NoneAssumption == None \notin Views \cup Blocks

VARIABLES
  view,      \* what each view shows
  memory,    \* what each slot of a block holds
  alive,     \* the views that were created and not collected
  inFlight,  \* the view that the callback of an asynchronous call captures
  attached,  \* per view, buf[kAttachedRefs] and callback._cif
  pinned,    \* per view, the persistent references its finalizers delete
  doomed,    \* the collected views whose finalizers have not run yet
  stray,     \* history: the views whose memory nothing protects from a free
  calls      \* the calls that the program has made

vars == <<view, memory, alive, inFlight, attached, pinned, doomed, stray, calls>>

\* Block None: the memory was freed.
View == [block : Blocks \cup {None}, at : Slots, own : BOOLEAN]
Unused == [block |-> None, at |-> 0, own |-> FALSE]

\* A pointer or the cif of a closure has an address, an object a weak
\* reference.  via and to are the view that was written and the one that was
\* given; via is history, and None when it does not protect `to` any more.
Content == [kind : {"null", "pointer", "cif", "object"},
            block : Blocks \cup {None}, at : Slots,
            via : Views \cup {None}, to : Views \cup {None}]
Null == [kind |-> "null", block |-> None, at |-> 0, via |-> None, to |-> None]
Zeroed == [s \in Slots |-> Null]

Live(b) == \E v \in alive : view[v].own /\ view[v].block = b
IsCode(b) == memory[b][0].kind = "cif"
Fresh(v) == v \in Views \ (alive \cup doomed)

\* The program may use any view that was not collected, but no freed memory.
Usable(v) == v \in alive /\ view[v].block # None
Data(v) == Usable(v) /\ ~IsCode(view[v].block)
InView(v, s) == s \in Slots /\ view[v].at + s \in Slots

Store(v, s, content) ==
  [memory EXCEPT ![view[v].block] = [@ EXCEPT ![view[v].at + s] = content]]
PointerTo(shown, via, to) ==
  [kind |-> "pointer", block |-> shown.block, at |-> shown.at, via |-> via, to |-> to]

\* WrapPointer: LookupOrCreateArrayBuffer finds the ArrayBuffer that begins
\* at the address, if any, and wraps memory that it does not own if not.
WrapPointer(b, a) == [block |-> b, at |-> a, own |-> a = 0 /\ Live(b)]

\* Mutant: the offset is added twice.
PartTwice(v, o) == [view[v] EXCEPT !.at = @ + o + o]

Part(v, o) == [view[v] EXCEPT !.at = @ + o]

-----------------------------------------------------------------------------
Init ==
  /\ view = [v \in Views |-> Unused]
  /\ memory = [b \in Blocks |-> Zeroed]
  /\ alive = {} /\ inFlight = None /\ doomed = {} /\ stray = {} /\ calls = 0
  /\ attached = [v \in Views |-> {}]
  /\ pinned = [v \in Views |-> {}]

\* Buffer.alloc, or Buffer.allocUnsafe with a place in the pool (a > 0).
Alloc(v, b, a) ==
  /\ Fresh(v) /\ ~Live(b)
  /\ view' = [view EXCEPT ![v] = [block |-> b, at |-> a, own |-> TRUE]]
  /\ memory' = [memory EXCEPT ![b] = Zeroed]
  /\ alive' = alive \cup {v}
  /\ UNCHANGED <<inFlight, attached, pinned, doomed, stray>>

\* buffer.slice(): the new Buffer shares the ArrayBuffer, and holds nothing
\* else.  Structs, unions and arrays inside others are backed by slices.
Slice(v, u, o) ==
  /\ Fresh(v) /\ Usable(u) /\ InView(u, o)
  /\ view' = [view EXCEPT ![v] = Part(u, o)]
  /\ alive' = alive \cup {v}
  /\ stray' = IF view[u].own THEN stray ELSE stray \cup {v}
  /\ UNCHANGED <<memory, inFlight, attached, pinned, doomed>>

\* Mutant: _reinterpret, which does not attach u.
ReinterpretUnattached(v, u, o) ==
  LET shown == WrapPointer(view[u].block, view[u].at + o)
  IN /\ Fresh(v) /\ Usable(u) /\ InView(u, o)
     /\ view' = [view EXCEPT ![v] = shown]
     /\ alive' = alive \cup {v}
     /\ UNCHANGED <<memory, inFlight, attached, pinned, doomed, stray>>

\* ref.reinterpret and reinterpretUntilZeros.
Reinterpret(v, u, o) ==
  LET shown == WrapPointer(view[u].block, view[u].at + o)
  IN /\ Fresh(v) /\ Usable(u) /\ InView(u, o)
     /\ view' = [view EXCEPT ![v] = shown]
     /\ attached' = [attached EXCEPT ![v] = @ \cup {u}]
     /\ alive' = alive \cup {v}
     /\ stray' = IF u \in stray /\ ~shown.own THEN stray \cup {v} ELSE stray
     /\ UNCHANGED <<memory, inFlight, pinned, doomed>>

\* Mutant: _writePointer, which does not attach t.
WritePointerUnattached(w, s, t) ==
  /\ Data(w) /\ InView(w, s) /\ Usable(t)
  /\ memory' = Store(w, s, PointerTo(view[t], w, t))
  /\ UNCHANGED <<view, alive, inFlight, attached, pinned, doomed, stray>>

\* ref.writePointer(w, t, s): the finalizer of the view that is written
\* deletes a persistent reference to t.
WritePointer(w, s, t) ==
  /\ Data(w) /\ InView(w, s) /\ Usable(t)
  /\ memory' = Store(w, s, PointerTo(view[t], w, t))
  /\ pinned' = [pinned EXCEPT ![w] = @ \cup {t}]
  /\ UNCHANGED <<view, alive, inFlight, attached, doomed, stray>>

WriteNull(w, s) ==
  /\ Data(w) /\ InView(w, s)
  /\ memory' = Store(w, s, Null)
  /\ UNCHANGED <<view, alive, inFlight, attached, pinned, doomed, stray>>

\* A Buffer made for the purpose is written and dropped: the string of
\* CString.set, the array of ArrayType.setRef, an argument of a call.
WriteNew(w, s, t, b, a) ==
  /\ Data(w) /\ InView(w, s) /\ Fresh(t) /\ ~Live(b)
  /\ view' = [view EXCEPT ![t] = [block |-> b, at |-> a, own |-> TRUE]]
  /\ memory' = [Store(w, s, PointerTo(view'[t], w, t)) EXCEPT ![b] = Zeroed]
  /\ pinned' = [pinned EXCEPT ![w] = @ \cup {t}]
  /\ alive' = alive \cup {t}
  /\ UNCHANGED <<inFlight, attached, doomed, stray>>

\* The setter of a struct or an array inside another one writes through a
\* slice n of the outer Buffer and drops it: t is attached to the slice.
SetNested(w, n, s, t) ==
  /\ Data(w) /\ InView(w, s) /\ Usable(t) /\ Fresh(n)
  /\ view' = [view EXCEPT ![n] = Part(w, s)]
  /\ memory' = Store(w, s, PointerTo(view[t], n, t))
  /\ pinned' = [pinned EXCEPT ![n] = {t}]
  /\ alive' = alive \cup {n}
  /\ stray' = IF view[w].own THEN stray ELSE stray \cup {n}
  /\ UNCHANGED <<inFlight, attached, doomed>>

\* struct.set of an instance: the bytes are copied and nothing is attached.
CopyStruct(w, u) ==
  /\ Data(w) /\ Data(u) /\ view[w].at = 0 /\ view[u].at = 0
  /\ \A s \in Slots : memory[view[u].block][s].kind # "object"
  /\ memory' = [memory EXCEPT ![view[w].block] = memory[view[u].block]]
  /\ UNCHANGED <<view, alive, inFlight, attached, pinned, doomed, stray>>

\* ref.readPointer, ref.get of a pointer: the new Buffer is not attached to
\* the one it was read from.
ReadPointer(v, w, s) ==
  LET c == memory[view[w].block][view[w].at + s]
      shown == WrapPointer(c.block, c.at)
  IN /\ Fresh(v) /\ Data(w) /\ InView(w, s)
     /\ c.kind = "pointer" /\ c.block # None
     /\ view' = [view EXCEPT ![v] = shown]
     /\ alive' = alive \cup {v}
     /\ stray' = IF shown.own THEN stray ELSE stray \cup {v}
     /\ UNCHANGED <<memory, inFlight, attached, pinned, doomed>>

\* Mutant: _writeObject, which does not attach the object.
WriteObjectUnattached(w, s, o) ==
  /\ Data(w) /\ InView(w, s) /\ o \in alive
  /\ memory' = Store(w, s, [Null EXCEPT !.kind = "object", !.via = w, !.to = o])
  /\ UNCHANGED <<view, alive, inFlight, attached, pinned, doomed, stray>>

\* ref.writeObject: a weak reference in memory, and the object attached.
WriteObject(w, s, o) ==
  /\ Data(w) /\ InView(w, s) /\ o \in alive
  /\ memory' = Store(w, s, [Null EXCEPT !.kind = "object", !.via = w, !.to = o])
  /\ attached' = [attached EXCEPT ![w] = @ \cup {o}]
  /\ UNCHANGED <<view, alive, inFlight, pinned, doomed, stray>>

\* new Callback: the closure refers to its cif by address, and the cif is
\* attached to the Buffer v of the closure.
Callback(v, b, c, d) ==
  /\ Fresh(v) /\ Fresh(c) /\ v # c /\ ~Live(b) /\ ~Live(d) /\ b # d
  /\ view' = [view EXCEPT ![v] = [block |-> b, at |-> 0, own |-> TRUE],
                          ![c] = [block |-> d, at |-> 0, own |-> TRUE]]
  /\ memory' = [memory EXCEPT
                  ![b] = [Zeroed EXCEPT ![0] = [PointerTo(view'[c], v, c) EXCEPT !.kind = "cif"]],
                  ![d] = Zeroed]
  /\ attached' = [attached EXCEPT ![v] = {c}]
  /\ alive' = alive \cup {v, c}
  /\ UNCHANGED <<inFlight, pinned, doomed, stray>>

\* bindings.ffi_call_async: its callback captures the Buffer of the arguments.
\* One call at a time.
StartCall(w) ==
  /\ Data(w) /\ inFlight = None
  /\ inFlight' = w
  /\ UNCHANGED <<view, memory, alive, attached, pinned, doomed, stray>>

FinishCall ==
  /\ inFlight # None
  /\ inFlight' = None
  /\ UNCHANGED <<view, memory, alive, attached, pinned, doomed, stray>>

-----------------------------------------------------------------------------
(* The garbage collector.                                                  *)

\* Mutant: the callback of a call does not capture the Buffers.
UnreachableFromJs(S) ==
  /\ \A w \in alive \cup doomed : pinned[w] \cap S = {}
  /\ \A w \in alive \ S : attached[w] \cap S = {}

\* Nothing outside S refers to a view in S, and the program need not: it may
\* have dropped any view that it does not use later.
Unreachable(S) ==
  /\ inFlight \notin S
  /\ \A w \in alive \cup doomed : pinned[w] \cap S = {}
  /\ \A w \in alive \ S : attached[w] \cap S = {}

Freed(S) == {b \in Blocks : Live(b) /\ \A v \in alive \ S : ~(view[v].own /\ view[v].block = b)}

\* A slot when the views in S were collected and the blocks in freed, freed.
AfterCollect(c, S, freed) ==
  [c EXCEPT !.block = IF @ \in freed THEN None ELSE @,
            !.via = IF @ \in S /\ c.kind # "pointer" THEN None ELSE @,
            !.to = IF @ \in S /\ c.kind = "object" THEN None ELSE @]

Collect(S) ==
  /\ S # {} /\ Unreachable(S)
  /\ alive' = alive \ S
  /\ doomed' = doomed \cup S
  /\ attached' = [v \in Views |-> IF v \in S THEN {} ELSE attached[v]]
  /\ view' = [v \in Views |->
                IF v \in S THEN Unused
                ELSE IF view[v].block \in Freed(S) THEN [view[v] EXCEPT !.block = None]
                ELSE view[v]]
  /\ memory' = [b \in Blocks |->
                  IF b \in Freed(S) THEN Zeroed
                  ELSE [s \in Slots |-> AfterCollect(memory[b][s], S, Freed(S))]]
  /\ stray' = stray \ S
  /\ UNCHANGED <<inFlight, pinned>>

\* The finalizers that writePointer added to a view run after its collection
\* and delete the references.
Finalize(v) ==
  /\ v \in doomed
  /\ doomed' = doomed \ {v}
  /\ pinned' = [pinned EXCEPT ![v] = {}]
  /\ memory' = [b \in Blocks |-> [s \in Slots |->
                  LET c == memory[b][s]
                  IN IF c.via = v THEN [c EXCEPT !.via = None, !.to = None] ELSE c]]
  /\ UNCHANGED <<view, alive, inFlight, attached, stray>>

Program ==
  \E v \in Views :
    \/ StartCall(v)
    \/ \E b \in Blocks, a \in Slots : Alloc(v, b, a)
    \/ \E b, d \in Blocks, c \in Views : Callback(v, b, c, d)
    \/ \E s \in Slots : WriteNull(v, s)
    \/ \E u \in Views : CopyStruct(v, u)
    \/ \E u \in Views, s \in Slots :
         \/ Slice(v, u, s) \/ Reinterpret(v, u, s) \/ ReadPointer(v, u, s)
         \/ WritePointer(v, s, u) \/ WriteObject(v, s, u)
         \/ \E b \in Blocks, a \in Slots : WriteNew(v, s, u, b, a)
         \/ \E t \in Views : SetNested(v, u, s, t)

Next ==
  \/ calls < MaxCalls /\ calls' = calls + 1 /\ Program
  \/ calls' = calls /\ (FinishCall \/ \E v \in Views : Finalize(v))
  \/ calls' = calls /\ \E S \in SUBSET alive : Collect(S)

Spec == Init /\ [][Next]_vars

-----------------------------------------------------------------------------
(* Properties.                                                             *)

\* Types, and which views are where.
TypeOK ==
  /\ view \in [Views -> View]
  /\ memory \in [Blocks -> [Slots -> Content]]
  /\ alive \subseteq Views
  /\ inFlight \in Views \cup {None}
  /\ doomed \subseteq Views \ alive
  /\ attached \in [Views -> SUBSET Views]
  /\ pinned \in [Views -> SUBSET Views]
  /\ stray \subseteq alive
  /\ calls \in 0..MaxCalls

\* What a pointer points to is not collected, and its memory is not freed,
\* before the finalizers of the view that the pointer was written through have
\* run ("ensures ptr is only collected after the finalizer for buf has run").
\* A stray view had no claim to its memory to begin with.
\* (writePointer, WritePointer)
PointeesKept ==
  \A b \in Blocks, s \in Slots :
    LET c == memory[b][s]
    IN c.kind = "pointer" /\ c.via # None =>
         /\ c.to \in alive
         /\ c.to \notin stray => c.block # None

\* What is attached to a view lives as long as the view: the object that
\* writeObject put in memory, and the cif that a closure refers to.
\* (writeObject, _attach, callback.js:80)
AttachedKept ==
  \A b \in Blocks, s \in Slots :
    LET c == memory[b][s]
    IN /\ c.kind = "object" /\ c.via # None => c.to \in alive
       /\ c.kind = "cif" /\ c.via # None => c.to \in alive /\ c.block # None

\* No view shows freed memory, unless it is stray: one read from a pointer
\* into the middle of a block, or a slice of such a view or of a
\* reinterpreted one.  (reinterpret, _attach, LookupOrCreateArrayBuffer)
NoStaleView == \A v \in alive \ stray : view[v].block # None

\* An asynchronous call finds its arguments, and what they point to, in
\* place, although the program may have dropped everything: what it can reach
\* by pointers that were written through kept views.  (proxy.async)
ArgumentsKept ==
  \A w \in {inFlight} \ (stray \cup {None}) :
    /\ view[w].block # None
    /\ \A s \in Slots :
         LET c == memory[view[w].block][s]
         IN c.kind = "pointer" /\ c.via = w /\ c.to \notin stray =>
              /\ c.block # None
              /\ \A r \in Slots :
                   LET d == memory[c.block][r]
                   IN d.kind = "pointer" /\ d.via = c.to /\ d.to \notin stray => d.block # None
=============================================================================
