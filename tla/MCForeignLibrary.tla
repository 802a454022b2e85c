--------------------------- MODULE MCForeignLibrary ---------------------------
(* Instances of VariadicFunctions and DynamicLibraries for TLC.  They share *)
(* no state: a behaviour is one of the generator or one of the libraries.   *)
EXTENDS VariadicFunctions, DynamicLibraries, TLC

CONSTANTS int, double, pointer, struct, \* type objects
          object, script, outer, spaced, other, missing \* files

VARIABLE focus \* the module whose behaviour this is

MCFixedTypes == <<int>>

\* "int *" is an object derived from that of int.
MCProto(t) == IF t = pointer THEN int ELSE t

\* A script that leads to an object, one that leads to that script, one with a
\* space in its name.
MCKind(f) ==
  CASE f = object -> "object"
    [] f \in {script, outer, spaced} -> "script"
    [] f = other -> "other"
    [] f = missing -> "unreadable"
MCTarget(f) == IF f = outer THEN script ELSE object
MCMatches(f) == f # spaced
MCExports(f) == IF f = object THEN {"s"} ELSE {}

MCSymmetry == Permutations(Envs) \cup Permutations(Libraries)

Init == VariadicInit /\ LibInit /\ focus \in {"variadic", "library"}

Next ==
  \/ focus = "variadic" /\ VariadicNext /\ UNCHANGED <<libVars, focus>>
  \/ focus = "library" /\ LibNext /\ UNCHANGED <<variadicVars, focus>>

Spec == Init /\ [][Next]_<<variadicVars, libVars, focus>>

TypeOK == VariadicTypeOK /\ LibTypeOK
===============================================================================
