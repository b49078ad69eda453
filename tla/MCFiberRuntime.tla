--------------------------- MODULE MCFiberRuntime ---------------------------
(* Constants with which TLC checks FiberRuntime.                           *)
EXTENDS FiberInvariant

AllCalls == ApiCalls

(* For the fiber that makes it, a timer or a file request is an archive    *)
(* request that cannot fail.                                               *)
OneKindOfRequest == ApiCalls \ {"Sleep", "File"}
=============================================================================
