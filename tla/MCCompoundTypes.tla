--------------------------- MODULE MCCompoundTypes ---------------------------
(* Instances of CompoundTypes for TLC.                                     *)
EXTENDS CompoundTypes

CONSTANTS char, int, custom

MCPrimSize == char :> 1 @@ int :> 4 @@ custom :> 2
MCPrimAlign == char :> 1 @@ int :> 4 @@ custom :> 0

Of(base) == [base |-> base, ptr |-> FALSE]
PtrTo(base) == [base |-> base, ptr |-> TRUE]

\* An embedded type, an array of it or another record that embeds it, and a
\* record that embeds that.
MCKinds ==
  {<<"struct", "array", "struct">>, <<"packed", "array", "packed">>,
   <<"struct", "union", "struct">>, <<"packed", "struct", "union">>}

Fields(names, types) == {[name |-> n, type |-> r] : n \in names, r \in types}

MCMenu ==
  <<Fields({"a"}, {Of(char)}) \cup Fields({"b"}, {Of(int)}),
    Fields({"a"}, {PtrTo(char)}) \cup Fields({"b"}, {Of(1)}),
    Fields({"0"}, {Of(char), PtrTo(2), Of(custom)}) \cup Fields({"b"}, {Of(2)})>>

MCIndexNames == <<"0">>

\* What the proof about LayoutIsC assumes of the sizes.
ASSUME AlignedAsInC
=============================================================================
