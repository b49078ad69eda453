---------------------------- MODULE MCCallFrames ------------------------------
(* Constants with which TLC checks CallFrames.                              *)
EXTENDS CallFrames, TLC

Symmetric == Permutations(Fibers)
=============================================================================
