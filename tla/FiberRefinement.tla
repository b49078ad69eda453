-------------------------- MODULE FiberRefinement ---------------------------
(***************************************************************************)
(* The fibers of FiberRuntime keep the promise of FiberPromise, as long as *)
(* scripts keep the usage contract.                                        *)
(***************************************************************************)
EXTENDS FiberRuntime

PhaseOf(f) ==
    IF f > slots THEN "unborn"
    ELSE IF lua[f] = "running" THEN "active"
    ELSE IF lua[f] = "suspended" THEN "parked"
    ELSE "ended"

(* A fiber inside require() is in the module's list before it has yielded. *)
JoinsOf ==
    {p \in Fibers \X Fibers : lua[p[1]] = "suspended" /\ WaitsFor(p[1], p[2])}

Promise == INSTANCE FiberPromise WITH
    phase   <- [f \in Fibers |-> PhaseOf(f)],
    request <- {f \in Fibers : ~NoPending(f)},
    joins   <- JoinsOf

(* Every fiber is continued by what it waits for and by nothing else: the  *)
(* slots, raw handles, native call nesting and dependants' lists of the    *)
(* code implement the promise.                                             *)
KeepsPromise == Promise!Spec
=============================================================================
