---------------------------- MODULE MCAsyncCalls ----------------------------
(* Instances of AsyncCalls for TLC.                                        *)
EXTENDS AsyncCalls

CONSTANTS w1, w2, j1, j2, j3

TwoWorkers == {w1, w2}
TwoJobs    == {j1, j2}
ThreeJobs  == {j1, j2, j3}
SecondOnly == {j2}
ThirdOnly  == {j3}
=============================================================================
