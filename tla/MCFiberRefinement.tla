------------------------- MODULE MCFiberRefinement --------------------------
(* Constants with which TLC checks FiberRefinement.                        *)
EXTENDS FiberRefinement

AllCalls == ApiCalls
=============================================================================
