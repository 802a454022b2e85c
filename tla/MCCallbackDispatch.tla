------------------------- MODULE MCCallbackDispatch -------------------------
(* Instances of CallbackDispatch for TLC.                                  *)
EXTENDS CallbackDispatch, TLC

CONSTANTS t1, t2, t3

TwoThreads   == {t1, t2}
ThreeThreads == {t1, t2, t3}

Symmetry == Permutations(Threads)
=============================================================================
