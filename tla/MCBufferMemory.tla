--------------------------- MODULE MCBufferMemory ---------------------------
(* Instances of BufferMemory for TLC.                                      *)
EXTENDS BufferMemory, TLC

MCSymmetry == Permutations(Views) \cup Permutations(Blocks)
=============================================================================
