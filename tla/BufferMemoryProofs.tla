-------------------------- MODULE BufferMemoryProofs --------------------------
(* Theorems about BufferMemory, for any number of Buffers, blocks, slots    *)
(* and calls.                                                               *)
EXTENDS BufferMemory, TLAPS

-----------------------------------------------------------------------------
(* The inductive invariant.                                                *)

Types ==
  /\ view \in [Views -> View]
  /\ memory \in [Blocks -> [Slots -> Content]]
  /\ alive \subseteq Views
  /\ doomed \subseteq Views \ alive
  /\ attached \in [Views -> SUBSET Views]
  /\ pinned \in [Views -> SUBSET Views]
  /\ stray \subseteq alive

\* What is attached to a view, or pinned by its finalizers, was not collected;
\* a view that does not exist holds nothing.
Holds ==
  /\ \A v \in Views : attached[v] \subseteq alive /\ pinned[v] \subseteq alive
  /\ \A v \in Views \ alive : attached[v] = {}
  /\ \A v \in Views \ (alive \cup doomed) : pinned[v] = {}
  /\ inFlight \in alive \cup {None}

\* Content protects what it refers to as long as the view that it was written
\* through does, and refers to the memory that the other view shows.
Protects(c) ==
  /\ c.kind = "pointer" /\ c.via # None =>
       /\ c.via \in alive \cup doomed
       /\ c.to \in pinned[c.via]
       /\ c.block = view[c.to].block
  /\ c.kind = "object" /\ c.via # None => c.via \in alive /\ c.to \in attached[c.via]
  /\ c.kind = "cif" /\ c.via # None =>
       /\ c.via \in alive
       /\ c.to \in attached[c.via]
       /\ c.block = view[c.to].block
       /\ c.to \notin stray

Cells == \A b \in Blocks, s \in Slots : Protects(memory[b][s])

Owners == \A v \in alive : view[v].own => v \notin stray /\ view[v].block # None

\* A view u that keeps the memory of v.
Keeps(v, u) == u \in attached[v] /\ u \in alive \ stray /\ view[u].block = view[v].block

\* The views that neither own their memory nor are stray: each is kept by
\* another one, and they do not keep each other in a circle.
Borrowed == {v \in alive \ stray : ~view[v].own}
Rooted == \A T \in SUBSET Borrowed : T # {} => \E v \in T, u \in Views \ T : Keeps(v, u)

Inv == Types /\ Holds /\ Cells /\ Owners /\ NoStaleView /\ Rooted

-----------------------------------------------------------------------------
(* A call of the program adds views, content and references, and leaves    *)
(* the views there are as they were.                                       *)

Grows ==
  /\ Types'
  /\ Holds'
  /\ alive \subseteq alive' /\ doomed' = doomed
  /\ stray \subseteq stray' /\ stray' \subseteq stray \cup (alive' \ alive)
  /\ \A v \in alive : view'[v] = view[v]
  /\ \A v \in Views : pinned[v] \subseteq pinned'[v] /\ attached[v] \subseteq attached'[v]
  /\ \A v \in alive' \ alive :
       /\ v \notin stray' => view'[v].block # None
       /\ view'[v].own => v \notin stray'
       /\ ~view'[v].own /\ v \notin stray' =>
            \E u \in attached'[v] : u \in alive \ stray /\ view[u].block = view'[v].block
  /\ \A b \in Blocks, s \in Slots :
       \/ \E c \in Blocks, t \in Slots : memory'[b][s] = memory[c][t]
       \/ Protects(memory[b][s])'

LEMMA GrowthKeeps == ASSUME Inv, Grows PROVE Inv'
<1> USE DEF Inv
<1>1. Cells'
  <2> SUFFICES ASSUME NEW b \in Blocks, NEW s \in Slots PROVE Protects(memory[b][s])'
    BY DEF Cells
  <2>1. CASE Protects(memory[b][s])'
    BY <2>1
  <2>2. ASSUME NEW c \in Blocks, NEW t \in Slots, memory'[b][s] = memory[c][t]
        PROVE  Protects(memory[b][s])'
    <3> PICK m : m = memory[c][t]
      OBVIOUS
    <3>1. Protects(m) /\ m.via \in Views \cup {None} /\ m.to \in Views \cup {None}
      BY DEF Cells, Types, Content
    <3>2. m.via # None => pinned[m.via] \subseteq alive /\ attached[m.via] \subseteq alive
      BY <3>1 DEF Holds
    <3>3. Protects(m)'
      <4>1. m.kind = "pointer" /\ m.via # None =>
              /\ m.via \in alive' \cup doomed' /\ m.to \in pinned'[m.via]
              /\ m.block = view'[m.to].block
        BY <3>1, <3>2 DEF Protects, Grows
      <4>2. m.kind = "object" /\ m.via # None => m.via \in alive' /\ m.to \in attached'[m.via]
        BY <3>1, <3>2 DEF Protects, Grows
      <4>3. m.kind = "cif" /\ m.via # None =>
              /\ m.via \in alive' /\ m.to \in attached'[m.via]
              /\ m.block = view'[m.to].block /\ m.to \notin stray'
        BY <3>1, <3>2 DEF Protects, Grows
      <4> QED  BY <4>1, <4>2, <4>3 DEF Protects
    <3> QED  BY <2>2, <3>3
  <2> QED  BY <2>1, <2>2 DEF Grows
<1>2. Owners'
  BY DEF Owners, Grows
<1>3. NoStaleView'
  BY DEF NoStaleView, Grows
<1>4. Rooted'
  <2> SUFFICES ASSUME NEW T \in SUBSET Borrowed', T # {}
               PROVE  \E v \in T, u \in Views \ T : Keeps(v, u)'
    BY DEF Rooted
  <2>1. CASE T \cap alive = {}
    <3> PICK v \in T : TRUE
      OBVIOUS
    <3>1. v \in alive' \ alive /\ v \notin stray' /\ ~view'[v].own
      BY <2>1 DEF Borrowed
    <3>2. PICK u \in attached'[v] : u \in alive \ stray /\ view[u].block = view'[v].block
      BY <3>1 DEF Grows
    <3> QED  BY <2>1, <3>2 DEF Keeps, Grows, Types
  <2>2. CASE T \cap alive # {}
    <3>1. T \cap alive \in SUBSET Borrowed
      BY DEF Borrowed, Grows
    <3>2. PICK v \in T \cap alive, u \in Views \ (T \cap alive) : Keeps(v, u)
      BY <2>2, <3>1 DEF Rooted
    <3> QED  BY <3>2 DEF Keeps, Grows, Types
  <2> QED  BY <2>1, <2>2
<1> QED  BY <1>1, <1>2, <1>3, <1>4 DEF Grows

-----------------------------------------------------------------------------
(* The calls of the program.                                               *)

LEMMA ZeroedType == Null \in Content /\ Zeroed \in [Slots -> Content]
BY SlotsAssumption DEF Null, Zeroed, Content

LEMMA StoreFacts ==
  ASSUME Types, NEW w \in Views, NEW s \in Slots, Data(w), InView(w, s), NEW x \in Content
  PROVE  /\ Store(w, s, x) \in [Blocks -> [Slots -> Content]]
         /\ \A b \in Blocks, r \in Slots : Store(w, s, x)[b][r] \in {x, memory[b][r]}
<1>1. view[w].block \in Blocks /\ view[w].at + s \in Slots
  BY DEF Types, View, Data, Usable, InView
<1> QED  BY <1>1 DEF Store, Types

LEMMA PointerFacts ==
  ASSUME Types, NEW r \in View, NEW w \in Views, NEW t \in Views
  PROVE  PointerTo(r, w, t) \in Content
BY DEF PointerTo, Content, View

LEMMA CifFacts ==
  ASSUME NEW r, NEW w, NEW t
  PROVE  [PointerTo(r, w, t) EXCEPT !.kind = "cif"]
           = [kind |-> "cif", block |-> r.block, at |-> r.at, via |-> w, to |-> t]
BY DEF PointerTo

LEMMA PartFacts ==
  ASSUME Types, NEW u \in Views, NEW o \in Slots, InView(u, o)
  PROVE  /\ Part(u, o) \in View
         /\ Part(u, o).block = view[u].block /\ Part(u, o).own = view[u].own
BY DEF Part, View, Types, InView

LEMMA WrapFacts ==
  ASSUME NEW b \in Blocks \cup {None}, NEW a \in Slots
  PROVE  WrapPointer(b, a) \in View /\ WrapPointer(b, a).block = b
BY DEF WrapPointer, View, Live

LEMMA AllocKeeps ==
  ASSUME Inv, NEW v \in Views, NEW b \in Blocks, NEW a \in Slots, Alloc(v, b, a)
  PROVE  Inv'
<1> USE DEF Alloc, Inv, Fresh
<1>1. Types'
  BY ZeroedType DEF Types, View
<1>2. Holds'
  BY DEF Holds
<1>3. \A c \in Blocks, s \in Slots : memory'[c][s] = memory[c][s] \/ memory'[c][s] = Null
  BY DEF Types, Zeroed
<1>4. \A c \in Blocks, s \in Slots : memory'[c][s] = memory[c][s] \/ Protects(memory[c][s])'
  BY <1>3 DEF Protects, Null
<1>5. Grows
  BY <1>1, <1>2, <1>4, NoneAssumption DEF Grows, Types
<1> QED  BY <1>5, GrowthKeeps

LEMMA SliceKeeps ==
  ASSUME Inv, NEW v \in Views, NEW u \in Views, NEW o \in Slots, Slice(v, u, o)
  PROVE  Inv'
<1> USE DEF Slice, Inv, Fresh
<1>1. view' = [view EXCEPT ![v] = Part(u, o)] /\ Part(u, o) \in View
      /\ Part(u, o).block = view[u].block /\ Part(u, o).own = view[u].own
      /\ view[u].block # None /\ u \in alive
  BY PartFacts DEF Usable
<1>2. Types'
  BY <1>1 DEF Types
<1>3. Holds'
  BY DEF Holds
<1>4. Grows
  BY <1>1, <1>2, <1>3 DEF Grows, Types, Owners
<1> QED  BY <1>4, GrowthKeeps

LEMMA ReinterpretKeeps ==
  ASSUME Inv, NEW v \in Views, NEW u \in Views, NEW o \in Slots, Reinterpret(v, u, o)
  PROVE  Inv'
<1> USE DEF Reinterpret, Inv, Fresh
<1> DEFINE shown == WrapPointer(view[u].block, view[u].at + o)
<1>1. /\ view' = [view EXCEPT ![v] = shown] /\ shown \in View
      /\ shown.block = view[u].block /\ view[u].block # None /\ u \in alive
  BY WrapFacts DEF Usable, InView, Types, View
<1>2. Types'
  BY <1>1 DEF Types
<1>3. Holds'
  BY <1>1 DEF Holds, Types
<1>4. /\ attached'[v] = attached[v] \cup {u}
      /\ stray' = IF u \in stray /\ ~shown.own THEN stray \cup {v} ELSE stray
  BY DEF Types
<1>5. Grows
  <2> HIDE DEF shown
  <2> QED  BY <1>1, <1>2, <1>3, <1>4 DEF Grows, Types
<1> QED  BY <1>5, GrowthKeeps

LEMMA WritePointerKeeps ==
  ASSUME Inv, NEW w \in Views, NEW s \in Slots, NEW t \in Views, WritePointer(w, s, t)
  PROVE  Inv'
<1> USE DEF WritePointer, Inv
<1> DEFINE x == PointerTo(view[t], w, t)
<1>1. w \in alive /\ t \in alive /\ x \in Content /\ memory' = Store(w, s, x)
  BY PointerFacts DEF Types, Data, Usable
<1>2. /\ memory' \in [Blocks -> [Slots -> Content]]
      /\ \A b \in Blocks, r \in Slots : memory'[b][r] \in {x, memory[b][r]}
  BY <1>1, StoreFacts
<1>3. Types'
  BY <1>1, <1>2 DEF Types
<1>4. Holds'
  BY <1>1 DEF Holds, Types
<1>5. \A b \in Blocks, r \in Slots : memory'[b][r] = memory[b][r] \/ Protects(memory[b][r])'
  <2>1. x.kind = "pointer" /\ x.via = w /\ x.to = t /\ x.block = view'[t].block
    BY DEF PointerTo, Types
  <2>2. w \in alive' /\ t \in pinned'[w]
    BY <1>1 DEF Types
  <2> SUFFICES ASSUME NEW b \in Blocks, NEW r \in Slots, memory'[b][r] = x
               PROVE  Protects(memory[b][r])'
    BY <1>2
  <2>3. /\ memory'[b][r].kind = "pointer" /\ memory'[b][r].via = w /\ memory'[b][r].to = t
        /\ memory'[b][r].block = view'[t].block
    BY <2>1
  <2> HIDE DEF x, WritePointer, Inv
  <2> QED  BY <2>2, <2>3 DEF Protects
<1>6. Grows
  BY <1>3, <1>4, <1>5 DEF Grows, Types
<1> QED  BY <1>6, GrowthKeeps

LEMMA WriteNullKeeps ==
  ASSUME Inv, NEW w \in Views, NEW s \in Slots, WriteNull(w, s)
  PROVE  Inv'
<1> USE DEF WriteNull, Inv
<1>1. /\ memory' \in [Blocks -> [Slots -> Content]]
      /\ \A b \in Blocks, r \in Slots : memory'[b][r] \in {Null, memory[b][r]}
  BY StoreFacts, ZeroedType
<1>2. Types' /\ Holds'
  BY <1>1 DEF Types, Holds
<1>3. \A b \in Blocks, r \in Slots : memory'[b][r] = memory[b][r] \/ Protects(memory[b][r])'
  BY <1>1 DEF Protects, Null
<1>4. Grows
  BY <1>2, <1>3 DEF Grows
<1> QED  BY <1>4, GrowthKeeps

LEMMA WriteNewKeeps ==
  ASSUME Inv, NEW w \in Views, NEW s \in Slots, NEW t \in Views, NEW b \in Blocks, NEW a \in Slots,
         WriteNew(w, s, t, b, a)
  PROVE  Inv'
<1> USE DEF WriteNew, Inv, Fresh
<1> DEFINE r == [block |-> b, at |-> a, own |-> TRUE]
           x == PointerTo(r, w, t)
<1>1. /\ w \in alive /\ t \notin alive \cup doomed /\ t # w
      /\ r \in View /\ view' = [view EXCEPT ![t] = r] /\ view'[t] = r
  BY DEF Types, View, Data, Usable
<1>2. x \in Content /\ memory' = [Store(w, s, x) EXCEPT ![b] = Zeroed]
  BY <1>1, PointerFacts
<1>u. /\ pinned' = [pinned EXCEPT ![w] = @ \cup {t}] /\ alive' = alive \cup {t}
      /\ UNCHANGED <<inFlight, attached, doomed, stray>> /\ Data(w) /\ InView(w, s)
  OBVIOUS
<1> HIDE DEF r, x, WriteNew
<1>3. /\ memory' \in [Blocks -> [Slots -> Content]]
      /\ \A c \in Blocks, q \in Slots : memory'[c][q] \in {x, Null, memory[c][q]}
  <2>1. /\ Store(w, s, x) \in [Blocks -> [Slots -> Content]]
        /\ \A c \in Blocks, q \in Slots : Store(w, s, x)[c][q] \in {x, memory[c][q]}
    BY <1>2, <1>u, StoreFacts
  <2>2. \A q \in Slots : Zeroed[q] = Null
    BY DEF Zeroed
  <2>3. \A c \in Blocks : memory'[c] = Zeroed \/ memory'[c] = Store(w, s, x)[c]
    BY <1>2, <2>1
  <2>4. memory' \in [Blocks -> [Slots -> Content]]
    BY <1>2, <2>1, ZeroedType
  <2> QED  BY <2>1, <2>2, <2>3, <2>4
<1>4. Types'
  BY <1>1, <1>3, <1>u DEF Types
<1>5. Holds'
  BY <1>1, <1>u DEF Holds, Types
<1>6. Protects(Null)' /\ Protects(x)'
  <2>1. x.kind = "pointer" /\ x.via = w /\ x.to = t /\ x.block = view'[t].block
    BY <1>1 DEF PointerTo, x, r
  <2>2. w \in alive' /\ t \in pinned'[w]
    BY <1>1, <1>u DEF Types
  <2>3. Protects(x)'
    BY <2>1, <2>2 DEF Protects
  <2> QED  BY <2>3 DEF Protects, Null
<1>7. \A c \in Blocks, q \in Slots : memory'[c][q] = memory[c][q] \/ Protects(memory[c][q])'
  BY <1>3, <1>6
<1>8. Grows
  <2>1. r.own = TRUE /\ r.block # None
    BY NoneAssumption DEF r
  <2> QED  BY <1>1, <1>4, <1>5, <1>7, <1>u, <2>1 DEF Grows, Types
<1> QED  BY <1>8, GrowthKeeps

LEMMA SetNestedKeeps ==
  ASSUME Inv, NEW w \in Views, NEW n \in Views, NEW s \in Slots, NEW t \in Views,
         SetNested(w, n, s, t)
  PROVE  Inv'
<1> USE DEF SetNested, Inv, Fresh
<1> DEFINE x == PointerTo(view[t], n, t)
<1>1. /\ w \in alive /\ t \in alive /\ n \notin alive \cup doomed
      /\ x \in Content /\ memory' = Store(w, s, x)
      /\ view' = [view EXCEPT ![n] = Part(w, s)] /\ Part(w, s) \in View
      /\ Part(w, s).block = view[w].block /\ Part(w, s).own = view[w].own
      /\ view[w].block # None
  BY PointerFacts, PartFacts DEF Types, Data, Usable
<1>2. /\ memory' \in [Blocks -> [Slots -> Content]]
      /\ \A b \in Blocks, r \in Slots : memory'[b][r] \in {x, memory[b][r]}
  BY <1>1, StoreFacts
<1>3. Types'
  BY <1>1, <1>2 DEF Types
<1>4. Holds'
  BY <1>1 DEF Holds, Types
<1>5. \A b \in Blocks, r \in Slots : memory'[b][r] = memory[b][r] \/ Protects(memory[b][r])'
  <2>1. x.kind = "pointer" /\ x.via = n /\ x.to = t /\ x.block = view'[t].block
    BY <1>1 DEF PointerTo, Types
  <2>2. n \in alive' /\ t \in pinned'[n]
    BY <1>1 DEF Types
  <2> SUFFICES ASSUME NEW b \in Blocks, NEW r \in Slots, memory'[b][r] = x
               PROVE  Protects(memory[b][r])'
    BY <1>2
  <2>3. /\ memory'[b][r].kind = "pointer" /\ memory'[b][r].via = n /\ memory'[b][r].to = t
        /\ memory'[b][r].block = view'[t].block
    BY <2>1
  <2> HIDE DEF x, SetNested, Inv
  <2> QED  BY <2>2, <2>3 DEF Protects
<1>6. Grows
  BY <1>1, <1>3, <1>4, <1>5 DEF Grows, Types, Owners, Holds
<1> QED  BY <1>6, GrowthKeeps

LEMMA CopyStructKeeps ==
  ASSUME Inv, NEW w \in Views, NEW u \in Views, CopyStruct(w, u)
  PROVE  Inv'
<1> USE DEF CopyStruct, Inv
<1>1. view[w].block \in Blocks /\ view[u].block \in Blocks
  BY DEF Types, View, Data, Usable
<1>2. Types' /\ Holds'
  BY <1>1 DEF Types, Holds
<1>3. \A b \in Blocks, s \in Slots :
        \/ memory'[b][s] = memory[b][s]
        \/ memory'[b][s] = memory[view[u].block][s]
  BY <1>1 DEF Types
<1>4. Grows
  BY <1>1, <1>2, <1>3 DEF Grows
<1> QED  BY <1>4, GrowthKeeps

LEMMA ReadPointerKeeps ==
  ASSUME Inv, NEW v \in Views, NEW w \in Views, NEW s \in Slots, ReadPointer(v, w, s)
  PROVE  Inv'
<1> USE DEF ReadPointer, Inv, Fresh
<1> DEFINE c == memory[view[w].block][view[w].at + s]
           shown == WrapPointer(c.block, c.at)
<1>1. c \in Content
  <2>1. view[w].block \in Blocks /\ view[w].at + s \in Slots
    BY DEF Types, View, Data, Usable, InView
  <2> QED  BY <2>1 DEF Types
<1>2. /\ view' = [view EXCEPT ![v] = shown] /\ shown \in View
      /\ shown.block = c.block /\ c.block # None
  BY <1>1, WrapFacts DEF Content
<1>3. stray' = IF shown.own THEN stray ELSE stray \cup {v}
  OBVIOUS
<1> HIDE DEF shown, c
<1>4. Types'
  BY <1>2, <1>3 DEF Types
<1>5. Holds'
  BY DEF Holds
<1>6. Grows
  <2>1. /\ view'[v] = shown /\ \A u \in alive : view'[u] = view[u]
        /\ alive' = alive \cup {v} /\ v \notin alive /\ v \notin stray
        /\ UNCHANGED <<memory, inFlight, attached, pinned, doomed>>
    BY <1>2 DEF Types
  <2> QED  BY <1>2, <1>3, <1>4, <1>5, <2>1 DEF Grows
<1> QED  BY <1>6, GrowthKeeps

LEMMA WriteObjectKeeps ==
  ASSUME Inv, NEW w \in Views, NEW s \in Slots, NEW o \in Views, WriteObject(w, s, o)
  PROVE  Inv'
<1> USE DEF WriteObject, Inv
<1> DEFINE x == [Null EXCEPT !.kind = "object", !.via = w, !.to = o]
<1>1. /\ w \in alive /\ x \in Content /\ memory' = Store(w, s, x)
      /\ x.kind = "object" /\ x.via = w /\ x.to = o
  BY ZeroedType DEF Null, Content, Data, Usable
<1>2. /\ memory' \in [Blocks -> [Slots -> Content]]
      /\ \A b \in Blocks, r \in Slots : memory'[b][r] \in {x, memory[b][r]}
  BY <1>1, StoreFacts
<1> HIDE DEF x
<1>3. Types'
  BY <1>1, <1>2 DEF Types
<1>4. Holds'
  BY <1>1 DEF Holds, Types
<1>5. \A b \in Blocks, r \in Slots : memory'[b][r] = memory[b][r] \/ Protects(memory[b][r])'
  <2>1. w \in alive' /\ o \in attached'[w]
    BY <1>1 DEF Types
  <2>2. Protects(x)'
    BY <1>1, <2>1 DEF Protects
  <2> QED  BY <1>2, <2>2
<1>6. Grows
  BY <1>3, <1>4, <1>5 DEF Grows, Types
<1> QED  BY <1>6, GrowthKeeps

LEMMA CallbackKeeps ==
  ASSUME Inv, NEW v \in Views, NEW c \in Views, NEW b \in Blocks, NEW d \in Blocks,
         Callback(v, b, c, d)
  PROVE  Inv'
<1> USE DEF Callback, Inv, Fresh
<1> DEFINE rv == [block |-> b, at |-> 0, own |-> TRUE]
           rc == [block |-> d, at |-> 0, own |-> TRUE]
           x == [kind |-> "cif", block |-> d, at |-> 0, via |-> v, to |-> c]
<1>1. /\ rv \in View /\ rc \in View /\ x \in Content
      /\ view' = [view EXCEPT ![v] = rv, ![c] = rc] /\ view'[v] = rv /\ view'[c] = rc
      /\ \A u \in Views \ {v, c} : view'[u] = view[u]
      /\ v \notin alive \cup doomed /\ c \notin alive \cup doomed /\ v # c
  BY SlotsAssumption DEF View, Content, Types
<1>2. memory' = [memory EXCEPT ![b] = [Zeroed EXCEPT ![0] = x], ![d] = Zeroed]
  <2>1. [PointerTo(view'[c], v, c) EXCEPT !.kind = "cif"] = x
    <3>1. rc.block = d /\ rc.at = 0
      OBVIOUS
    <3>2. view'[c] = rc
      BY <1>1
    <3> HIDE DEF rc, Callback
    <3>3. view'[c].block = d /\ view'[c].at = 0
      BY <3>1, <3>2
    <3> QED  BY <3>3, CifFacts
  <2> QED  BY <2>1
<1>u. /\ attached' = [attached EXCEPT ![v] = {c}] /\ alive' = alive \cup {v, c}
      /\ UNCHANGED <<inFlight, pinned, doomed, stray>>
  OBVIOUS
<1>x. x.kind = "cif" /\ x.block = rc.block /\ x.via = v /\ x.to = c
  OBVIOUS
<1>o. rv.own = TRUE /\ rc.own = TRUE /\ rv.block # None /\ rc.block # None
  BY NoneAssumption
<1> HIDE DEF x, rv, rc, Callback
<1>3. /\ memory' \in [Blocks -> [Slots -> Content]]
      /\ \A e \in Blocks, s \in Slots : memory'[e][s] \in {x, Null, memory[e][s]}
  <2>1. /\ [Zeroed EXCEPT ![0] = x] \in [Slots -> Content]
        /\ \A s \in Slots : [Zeroed EXCEPT ![0] = x][s] \in {x, Null} /\ Zeroed[s] = Null
    BY <1>1, ZeroedType, SlotsAssumption DEF Zeroed
  <2>2. memory' \in [Blocks -> [Slots -> Content]]
    BY <1>2, <2>1, ZeroedType DEF Types
  <2>3. \A e \in Blocks : memory'[e] \in {[Zeroed EXCEPT ![0] = x], Zeroed, memory[e]}
    BY <1>2 DEF Types
  <2> QED  BY <2>1, <2>2, <2>3
<1>4. Types'
  BY <1>1, <1>3, <1>u DEF Types
<1>5. Holds'
  BY <1>1, <1>u DEF Holds, Types
<1>6. Protects(Null)' /\ Protects(x)'
  <2>1. v \in alive' /\ c \in attached'[v] /\ view'[c] = rc /\ c \notin stray'
    BY <1>1, <1>u DEF Types
  <2>2. Protects(x)'
    BY <1>x, <2>1 DEF Protects
  <2> QED  BY <2>2 DEF Protects, Null
<1>7. \A e \in Blocks, s \in Slots : memory'[e][s] = memory[e][s] \/ Protects(memory[e][s])'
  BY <1>3, <1>6
<1>8. Grows
  <2>1. \A u \in alive : view'[u] = view[u]
    BY <1>1 DEF Types
  <2>2. alive' \ alive = {v, c} /\ v \notin stray /\ c \notin stray
    BY <1>1, <1>u DEF Types
  <2>3. \A u \in Views : pinned[u] \subseteq pinned'[u] /\ attached[u] \subseteq attached'[u]
    BY <1>1, <1>u DEF Types, Holds
  <2> QED  BY <1>1, <1>o, <1>4, <1>5, <1>7, <1>u, <2>1, <2>2, <2>3 DEF Grows
<1> QED  BY <1>8, GrowthKeeps

LEMMA CallsKeep == ASSUME Inv, NEW w \in Views, StartCall(w) \/ FinishCall PROVE Inv'
<1>1. Types' /\ Holds'
  BY DEF Inv, Types, Holds, StartCall, FinishCall, Data, Usable
<1>2. Grows
  BY <1>1 DEF Grows, StartCall, FinishCall
<1> QED  BY <1>2, GrowthKeeps

-----------------------------------------------------------------------------
(* The garbage collector.                                                  *)

LEMMA AfterCollectFacts ==
  ASSUME NEW c \in Content, NEW S, NEW freed
  PROVE  LET d == AfterCollect(c, S, freed)
         IN /\ d \in Content /\ d.kind = c.kind
            /\ d.block = IF c.block \in freed THEN None ELSE c.block
            /\ d.via = IF c.via \in S /\ c.kind # "pointer" THEN None ELSE c.via
            /\ c.kind # "object" => d.to = c.to
            /\ c.kind = "object" => d.to = IF c.to \in S THEN None ELSE c.to
BY DEF AfterCollect, Content

\* What the collector frees, no view that is left owns; and those that are left
\* and are not stray do not even show it.
LEMMA FreedFacts ==
  ASSUME Inv, NEW S \in SUBSET alive, Unreachable(S)
  PROVE  \A v \in alive \ S : v \notin stray => view[v].block \notin Freed(S)
<1> USE DEF Inv
<1> DEFINE F == Freed(S)
           T == {v \in alive \ S : v \notin stray /\ ~view[v].own /\ view[v].block \in F}
<1>1. \A v \in alive \ S : view[v].own => view[v].block \notin F
  BY DEF Freed
<1>2. T = {}
  <2> SUFFICES ASSUME T # {} PROVE FALSE
    OBVIOUS
  <2>1. T \in SUBSET Borrowed
    BY DEF Borrowed
  <2>2. PICK v \in T, u \in Views \ T : Keeps(v, u)
    BY <2>1 DEF Rooted
  <2>3. u \in alive \ S /\ u \notin stray /\ view[u].block \in F
    BY <2>2 DEF Keeps, Unreachable
  <2> QED  BY <1>1, <2>2, <2>3
<1> QED  BY <1>1, <1>2

LEMMA CollectKeeps == ASSUME Inv, NEW S \in SUBSET alive, Collect(S) PROVE Inv'
<1> USE DEF Inv
<1> DEFINE F == Freed(S)
<1>1. /\ Unreachable(S) /\ alive' = alive \ S /\ doomed' = doomed \cup S /\ stray' = stray \ S
      /\ attached' = [v \in Views |-> IF v \in S THEN {} ELSE attached[v]]
      /\ view' = [v \in Views |->
                    IF v \in S THEN Unused
                    ELSE IF view[v].block \in F THEN [view[v] EXCEPT !.block = None]
                    ELSE view[v]]
      /\ memory' = [b \in Blocks |->
                      IF b \in F THEN Zeroed
                      ELSE [s \in Slots |-> AfterCollect(memory[b][s], S, F)]]
      /\ UNCHANGED <<inFlight, pinned>>
  BY DEF Collect
<1> HIDE DEF F
<1>2. \A v \in Views : view'[v] \in View
  <2> SUFFICES ASSUME NEW v \in Views PROVE view'[v] \in View
    OBVIOUS
  <2>1. view[v] \in View /\ Unused \in View
    BY SlotsAssumption DEF Types, View, Unused
  <2>2. [view[v] EXCEPT !.block = None] \in View
    BY <2>1 DEF View
  <2> QED  BY <1>1, <2>1, <2>2
<1>3. \A v \in Views \ S : /\ view'[v].own = view[v].own
                           /\ view'[v].block = IF view[v].block \in F THEN None ELSE view[v].block
  <2> SUFFICES ASSUME NEW v \in Views \ S
               PROVE  /\ view'[v].own = view[v].own
                      /\ view'[v].block = IF view[v].block \in F THEN None ELSE view[v].block
    OBVIOUS
  <2>1. view[v] \in View
    BY DEF Types
  <2> QED  BY <1>1, <2>1 DEF View
<1>4. \A b \in Blocks, s \in Slots :
        \/ memory'[b][s] = Null
        \/ memory'[b][s] = AfterCollect(memory[b][s], S, F)
  BY <1>1 DEF Zeroed
<1>5. memory' \in [Blocks -> [Slots -> Content]]
  <2> SUFFICES ASSUME NEW b \in Blocks PROVE memory'[b] \in [Slots -> Content]
    BY <1>1
  <2>1. \A s \in Slots : AfterCollect(memory[b][s], S, F) \in Content
    BY AfterCollectFacts DEF Types
  <2> QED  BY <1>1, <2>1, ZeroedType
<1>6. Types'
  BY <1>1, <1>2, <1>5 DEF Types
<1>7. Holds'
  BY <1>1 DEF Holds, Unreachable, Types
<1>8. \A v \in alive \ S : v \notin stray => view[v].block \notin F
  BY <1>1, FreedFacts DEF F
<1>9. Owners' /\ NoStaleView'
  BY <1>1, <1>3, <1>8 DEF Owners, NoStaleView, Types
<1>10. Cells'
  <2> SUFFICES ASSUME NEW b \in Blocks, NEW s \in Slots PROVE Protects(memory[b][s])'
    BY DEF Cells
  <2>1. CASE memory'[b][s] = Null
    BY <2>1 DEF Protects, Null
  <2>2. CASE memory'[b][s] = AfterCollect(memory[b][s], S, F)
    <3> PICK c : c = memory[b][s]
      OBVIOUS
    <3> PICK d : d = memory'[b][s]
      OBVIOUS
    <3>1. c \in Content /\ Protects(c)
      BY DEF Types, Cells
    <3>2. /\ d.kind = c.kind /\ d.block = IF c.block \in F THEN None ELSE c.block
          /\ d.via = IF c.via \in S /\ c.kind # "pointer" THEN None ELSE c.via
          /\ c.kind # "object" => d.to = c.to
          /\ c.kind = "object" => d.to = IF c.to \in S THEN None ELSE c.to
      BY <2>2, <3>1, AfterCollectFacts
    <3>3. /\ c.via \in Views \cup {None} /\ c.to \in Views \cup {None}
          /\ \A v \in alive \cup doomed : pinned[v] \cap S = {} /\ pinned[v] \subseteq Views
          /\ \A v \in alive \ S : /\ attached[v] \cap S = {} /\ attached[v] \subseteq Views
                                  /\ attached'[v] = attached[v]
      BY <1>1, <3>1 DEF Content, Unreachable, Types
    <3>4. d.kind = "pointer" /\ d.via # None =>
            /\ d.via \in alive' \cup doomed' /\ d.to \in pinned'[d.via]
            /\ d.block = view'[d.to].block
      <4> SUFFICES ASSUME d.kind = "pointer", d.via # None
                   PROVE  /\ d.via \in alive' \cup doomed' /\ d.to \in pinned'[d.via]
                          /\ d.block = view'[d.to].block
        OBVIOUS
      <4>1. /\ d.via = c.via /\ d.to = c.to /\ c.via \in alive \cup doomed
            /\ c.to \in pinned[c.via] /\ c.block = view[c.to].block
        BY <3>1, <3>2 DEF Protects
      <4> QED  BY <1>1, <1>3, <3>2, <3>3, <4>1
    <3>5. d.kind = "object" /\ d.via # None => d.via \in alive' /\ d.to \in attached'[d.via]
      BY <1>1, <3>1, <3>2, <3>3 DEF Protects
    <3>6. d.kind = "cif" /\ d.via # None =>
            /\ d.via \in alive' /\ d.to \in attached'[d.via]
            /\ d.block = view'[d.to].block /\ d.to \notin stray'
      <4> SUFFICES ASSUME d.kind = "cif", d.via # None
                   PROVE  /\ d.via \in alive' /\ d.to \in attached'[d.via]
                          /\ d.block = view'[d.to].block /\ d.to \notin stray'
        OBVIOUS
      <4>1. /\ d.via = c.via /\ d.to = c.to /\ c.via \in alive \ S
            /\ c.to \in attached[c.via] /\ c.block = view[c.to].block /\ c.to \notin stray
        BY <3>1, <3>2 DEF Protects
      <4>2. c.to \in Views \ S /\ d.via \in alive' /\ d.to \in attached'[d.via]
        BY <1>1, <3>3, <4>1
      <4>3. d.block = view'[d.to].block
        BY <1>3, <3>2, <4>1, <4>2
      <4> QED  BY <1>1, <4>1, <4>2, <4>3
    <3>7. Protects(d)'
      BY <3>4, <3>5, <3>6 DEF Protects
    <3> QED  BY <3>7 DEF Protects
  <2> QED  BY <1>4, <2>1, <2>2
<1>11. Rooted'
  <2> SUFFICES ASSUME NEW T \in SUBSET Borrowed', T # {}
               PROVE  \E v \in T, u \in Views \ T : Keeps(v, u)'
    BY DEF Rooted
  <2>1. T \in SUBSET Borrowed /\ T \cap S = {}
    BY <1>1, <1>3 DEF Borrowed, Types
  <2>2. PICK v \in T, u \in Views \ T : Keeps(v, u)
    BY <2>1 DEF Rooted
  <2>3. v \in alive \ S /\ u \notin S /\ attached'[v] = attached[v]
    BY <1>1, <2>1, <2>2 DEF Keeps, Unreachable, Borrowed, Types
  <2>4. view'[u].block = view'[v].block
    BY <1>3, <2>2, <2>3 DEF Keeps, Types
  <2>5. u \in attached'[v] /\ u \in alive' \ stray'
    BY <1>1, <2>2, <2>3 DEF Keeps
  <2> QED  BY <2>2, <2>4, <2>5 DEF Keeps
<1> QED  BY <1>6, <1>7, <1>9, <1>10, <1>11

LEMMA FinalizeKeeps == ASSUME Inv, NEW v \in Views, Finalize(v) PROVE Inv'
<1> USE DEF Inv
<1>1. /\ v \in doomed /\ doomed' = doomed \ {v} /\ pinned' = [pinned EXCEPT ![v] = {}]
      /\ memory' = [b \in Blocks |-> [s \in Slots |->
                      IF memory[b][s].via = v
                      THEN [memory[b][s] EXCEPT !.via = None, !.to = None]
                      ELSE memory[b][s]]]
      /\ UNCHANGED <<view, alive, inFlight, attached, stray>>
  BY DEF Finalize
<1>2. \A c \in Content : [c EXCEPT !.via = None, !.to = None] \in Content
  BY DEF Content
<1>3. Types'
  BY <1>1, <1>2 DEF Types
<1>4. Holds'
  BY <1>1 DEF Holds, Types
<1>5. Cells'
  <2> SUFFICES ASSUME NEW b \in Blocks, NEW s \in Slots PROVE Protects(memory[b][s])'
    BY DEF Cells
  <2> PICK c : c = memory[b][s]
    OBVIOUS
  <2>1. c \in Content /\ Protects(c) /\ v \notin alive
    BY <1>1 DEF Types, Cells
  <2>2. CASE c.via = v
    <3>1. memory'[b][s] = [c EXCEPT !.via = None, !.to = None]
      BY <1>1, <2>2
    <3>2. memory'[b][s].via = None
      BY <2>1, <3>1 DEF Content
    <3> QED  BY <3>2 DEF Protects
  <2>3. CASE c.via # v
    <3>1. memory'[b][s] = c
      BY <1>1, <2>3
    <3>2. Protects(c)'
      BY <1>1, <2>1, <2>3 DEF Protects, Types
    <3> QED  BY <3>1, <3>2
  <2> QED  BY <2>2, <2>3
<1>6. Owners' /\ NoStaleView'
  BY <1>1 DEF Owners, NoStaleView
<1>7. Rooted'
  <2>1. Borrowed' = Borrowed /\ \A x, y : Keeps(x, y)' <=> Keeps(x, y)
    BY <1>1 DEF Borrowed, Keeps
  <2> QED  BY <2>1 DEF Rooted
<1> QED  BY <1>3, <1>4, <1>5, <1>6, <1>7

-----------------------------------------------------------------------------
LEMMA InitInv == Init => Inv
<1> SUFFICES ASSUME Init PROVE Inv
  OBVIOUS
<1>1. Types
  BY ZeroedType, SlotsAssumption DEF Init, Types, View, Unused
<1>2. Holds /\ Owners /\ NoStaleView
  BY DEF Init, Holds, Owners, NoStaleView
<1>3. Cells
  BY DEF Init, Cells, Protects, Zeroed, Null
<1>4. Rooted
  BY DEF Init, Rooted, Borrowed
<1> QED  BY <1>1, <1>2, <1>3, <1>4 DEF Inv

LEMMA ProgramKeeps == ASSUME Inv, Program PROVE Inv'
<1> PICK v \in Views :
      \/ StartCall(v)
      \/ \E b \in Blocks, a \in Slots : Alloc(v, b, a)
      \/ \E b, d \in Blocks, c \in Views : Callback(v, b, c, d)
      \/ \E s \in Slots : WriteNull(v, s)
      \/ \E u \in Views : CopyStruct(v, u)
      \/ \E u \in Views, s \in Slots :
           \/ Slice(v, u, s) \/ Reinterpret(v, u, s) \/ ReadPointer(v, u, s)
           \/ WritePointer(v, s, u) \/ WriteObject(v, s, u)
           \/ \E b \in Blocks, a \in Slots : WriteNew(v, s, u, b, a)
           \/ \E t \in Views : SetNested(v, u, s, t)
  BY DEF Program
<1>1. CASE StartCall(v)
  BY <1>1, CallsKeep
<1>2. ASSUME NEW b \in Blocks, NEW a \in Slots, Alloc(v, b, a) PROVE Inv'
  BY <1>2, AllocKeeps
<1>3. ASSUME NEW b \in Blocks, NEW d \in Blocks, NEW c \in Views, Callback(v, b, c, d) PROVE Inv'
  BY <1>3, CallbackKeeps
<1>4. ASSUME NEW s \in Slots, WriteNull(v, s) PROVE Inv'
  BY <1>4, WriteNullKeeps
<1>5. ASSUME NEW u \in Views, CopyStruct(v, u) PROVE Inv'
  BY <1>5, CopyStructKeeps
<1>6. ASSUME NEW u \in Views, NEW s \in Slots,
             \/ Slice(v, u, s) \/ Reinterpret(v, u, s) \/ ReadPointer(v, u, s)
             \/ WritePointer(v, s, u) \/ WriteObject(v, s, u)
      PROVE  Inv'
  BY <1>6, SliceKeeps, ReinterpretKeeps, ReadPointerKeeps, WritePointerKeeps, WriteObjectKeeps
<1>7. ASSUME NEW u \in Views, NEW s \in Slots, NEW b \in Blocks, NEW a \in Slots,
             WriteNew(v, s, u, b, a)
      PROVE  Inv'
  BY <1>7, WriteNewKeeps
<1>8. ASSUME NEW u \in Views, NEW s \in Slots, NEW t \in Views, SetNested(v, u, s, t) PROVE Inv'
  BY <1>8, SetNestedKeeps
<1> QED  BY <1>1, <1>2, <1>3, <1>4, <1>5, <1>6, <1>7, <1>8

LEMMA NextKeeps == ASSUME Inv, calls \in 0..MaxCalls, [Next]_vars
                   PROVE  Inv' /\ calls' \in 0..MaxCalls
<1>1. CASE UNCHANGED vars
  <2>1. Types' /\ Holds' /\ Owners' /\ NoStaleView'
    BY <1>1 DEF Inv, vars, Types, Holds, Owners, NoStaleView
  <2>2. Grows
    BY <1>1, <2>1 DEF vars, Grows
  <2> QED  BY <1>1, <2>2, GrowthKeeps DEF vars
<1>2. CASE calls < MaxCalls /\ calls' = calls + 1 /\ Program
  BY <1>2, ProgramKeeps, MaxCallsAssumption
<1>3. CASE calls' = calls /\ FinishCall
  <2>1. CASE Views = {}
    <3>1. inFlight = None
      BY <2>1 DEF Inv, Types, Holds
    <3> QED  BY <1>3, <3>1 DEF FinishCall
  <2> QED  BY <1>3, <2>1, CallsKeep
<1>4. ASSUME NEW v \in Views, Finalize(v), calls' = calls PROVE Inv' /\ calls' \in 0..MaxCalls
  BY <1>4, FinalizeKeeps
<1>5. ASSUME NEW S \in SUBSET alive, Collect(S), calls' = calls
      PROVE  Inv' /\ calls' \in 0..MaxCalls
  BY <1>5, CollectKeeps
<1> QED  BY <1>1, <1>2, <1>3, <1>4, <1>5 DEF Next

LEMMA Invariant == Spec => [](Inv /\ calls \in 0..MaxCalls)
<1>1. Init => Inv /\ calls \in 0..MaxCalls
  BY InitInv, MaxCallsAssumption DEF Init
<1>2. Inv /\ calls \in 0..MaxCalls /\ [Next]_vars => Inv' /\ (calls \in 0..MaxCalls)'
  BY NextKeeps
<1> QED  BY <1>1, <1>2, PTL DEF Spec

\* The variables have their types.
THEOREM Typed == Spec => []TypeOK
<1>1. Inv /\ calls \in 0..MaxCalls => TypeOK
  BY DEF Inv, Types, Holds, TypeOK
<1> QED  BY <1>1, Invariant, PTL

\* No view shows freed memory, except the stray ones: the attached views lead
\* from any other to one that owns the memory, without a circle.
THEOREM NoStaleViews == Spec => []NoStaleView
<1>1. Inv => NoStaleView
  BY DEF Inv
<1> QED  BY <1>1, Invariant, PTL

\* What was written with writePointer is kept until the finalizers of the view
\* that was written have run.
THEOREM PointeesAreKept == Spec => []PointeesKept
<1>1. Inv => PointeesKept
  <2> SUFFICES ASSUME Inv, NEW b \in Blocks, NEW s \in Slots,
                      memory[b][s].kind = "pointer", memory[b][s].via # None
               PROVE  /\ memory[b][s].to \in alive
                      /\ memory[b][s].to \notin stray => memory[b][s].block # None
    BY DEF PointeesKept
  <2> DEFINE c == memory[b][s]
  <2>1. c.via \in alive \cup doomed /\ c.to \in pinned[c.via] /\ c.block = view[c.to].block
    BY DEF Inv, Cells, Protects
  <2>2. c.to \in alive
    BY <2>1 DEF Inv, Types, Holds
  <2> QED  BY <2>1, <2>2 DEF Inv, NoStaleView
<1> QED  BY <1>1, Invariant, PTL

\* An object in memory, and the cif of a closure, live as long as the view that
\* they are attached to.
THEOREM AttachedAreKept == Spec => []AttachedKept
<1>1. Inv => AttachedKept
  <2> SUFFICES ASSUME Inv, NEW b \in Blocks, NEW s \in Slots
               PROVE  LET c == memory[b][s]
                      IN /\ c.kind = "object" /\ c.via # None => c.to \in alive
                         /\ c.kind = "cif" /\ c.via # None => c.to \in alive /\ c.block # None
    BY DEF AttachedKept
  <2>1. Protects(memory[b][s])
    BY DEF Inv, Cells
  <2> QED  BY <2>1 DEF Inv, Types, Holds, NoStaleView, Protects
<1> QED  BY <1>1, Invariant, PTL

\* The arguments of an asynchronous call, and what they point to, stay in place.
THEOREM ArgumentsAreKept == Spec => []ArgumentsKept
<1>1. Inv /\ PointeesKept => ArgumentsKept
  <2> SUFFICES ASSUME Inv, PointeesKept, inFlight \notin stray, inFlight # None
               PROVE  LET w == inFlight
                      IN /\ view[w].block # None
                         /\ \A s \in Slots :
                              LET c == memory[view[w].block][s]
                              IN c.kind = "pointer" /\ c.via = w /\ c.to \notin stray =>
                                   /\ c.block # None
                                   /\ \A r \in Slots :
                                        LET d == memory[c.block][r]
                                        IN d.kind = "pointer" /\ d.via = c.to /\ d.to \notin stray
                                             => d.block # None
    BY DEF ArgumentsKept
  <2> DEFINE w == inFlight
  <2>1. w \in alive /\ view[w].block # None /\ view[w].block \in Blocks
    BY DEF Inv, Holds, NoStaleView, Types, View
  <2>2. SUFFICES ASSUME NEW s \in Slots,
                        LET c == memory[view[w].block][s]
                        IN c.kind = "pointer" /\ c.via = w /\ c.to \notin stray
                 PROVE  LET c == memory[view[w].block][s]
                        IN /\ c.block # None
                           /\ \A r \in Slots :
                                LET d == memory[c.block][r]
                                IN d.kind = "pointer" /\ d.via = c.to /\ d.to \notin stray
                                     => d.block # None
    BY <2>1
  <2> DEFINE c == memory[view[w].block][s]
  <2>3. c.to \in alive /\ c.block # None /\ c.block \in Blocks
    <3>1. w # None /\ c \in Content
      BY <2>1 DEF Inv, Types
    <3> QED  BY <2>1, <2>2, <3>1 DEF PointeesKept, Content
  <2>4. c.to # None
    BY <2>3, NoneAssumption DEF Inv, Types
  <2> QED  BY <2>3, <2>4 DEF PointeesKept
<1> QED  BY <1>1, PointeesAreKept, Invariant, PTL
==============================================================================
