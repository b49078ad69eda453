--------------------------- MODULE FiberInvariant ---------------------------
(***************************************************************************)
(* Why the native code of FiberRuntime stays out of trouble: an inductive  *)
(* invariant of the states in which no script has broken the contract.     *)
(***************************************************************************)
EXTENDS FiberRuntime

Depth == 1 .. Len(stack)

(* What holds of the activations whatever scripts do: the loop's end was   *)
(* within the list, and a module's first activation has its require() just *)
(* below.                                                                  *)
StackOK ==
    \A i \in Depth :
        /\ stack[i].upto <= Len(deps[stack[i].fiber])
        /\ stack[i].via = "require" => i > 1

(* A fiber has one activation at most.                                     *)
OneActivation ==
    \A i, j \in Depth : stack[i].fiber = stack[j].fiber => i = j

(* An activation belongs to a fiber that is not deleted, and its phase     *)
(* says what Lua says of the thread.  Only the innermost one may be about  *)
(* to return a yield.  The requiring fiber is right below its module's     *)
(* first activation, still running.                                        *)
ActivationOK(i) ==
    /\ Live(stack[i].fiber)
    /\ stack[i].phase = "run" => lua[stack[i].fiber] = "running"
    /\ stack[i].phase = "yield" => lua[stack[i].fiber] = "suspended" /\ i = Len(stack)
    /\ stack[i].phase = "deps" =>
          /\ lua[stack[i].fiber] \in {"empty", "leftover"}
          /\ stack[i].upto = Len(deps[stack[i].fiber])
    /\ stack[i].via = "require" =>
          i > 1 /\ stack[i - 1].phase = "run" /\ stack[i].phase # "deps"

ActivationsOK == \A i \in Depth : ActivationOK(i)

Active(f) == \E i \in Depth : stack[i].fiber = f

RunningIsActive == \A f \in Fibers : lua[f] = "running" => Active(f)

(* d is inside require(), whose module t has not yielded yet.              *)
Requiring(d, t) ==
    \E i \in Depth :
        /\ i > 1
        /\ stack[i].fiber = t
        /\ stack[i].via = "require"
        /\ stack[i - 1].fiber = d

(* A fiber with a request is parked and has no other request.              *)
RequestsOK ==
    \A f \in Fibers, k \in Kinds :
        pending[f][k] > 0 =>
            /\ Live(f)
            /\ lua[f] = "suspended"
            /\ pending[f][k] = 1
            /\ \A m \in Kinds \ {k} : pending[f][m] = 0

Outstanding(t) == continued[t] + 1 .. Len(deps[t])

(* A dependant still to be continued is parked, or about to be, and has    *)
(* no request.                                                             *)
DependantsOK ==
    \A t \in Fibers : \A i \in Outstanding(t) :
        LET d == deps[t][i] IN
        /\ Live(d)
        /\ NoPending(d)
        /\ lua[d] = "suspended" \/ (lua[d] = "running" /\ Requiring(d, t))

(* It waits in one place.                                                  *)
DependantsOnce ==
    \A t, u \in Fibers : \A i \in Outstanding(t), j \in Outstanding(u) :
        deps[t][i] = deps[u][j] => t = u /\ i = j

FiberOK(f) ==
    /\ continued[f] <= Len(deps[f])
    /\ continued[f] > 0 => lua[f] \in {"empty", "leftover"}
    /\ lua[f] \in {"suspended", "running"} => Live(f)
    /\ f > slots => deps[f] = <<>>
    /\ f \in freed \cup shared => Exists(f)

FibersOK == \A f \in Fibers : FiberOK(f)

(* An ended fiber that was not killed has continued every dependant, or    *)
(* its activation is still at it.                                          *)
DependantsServed ==
    \A f \in Fibers :
        /\ Exists(f)
        /\ lua[f] \in {"empty", "leftover"}
        /\ f \notin killed
        /\ ~Active(f)
        => continued[f] = Len(deps[f])

Sound ==
    /\ OneActivation
    /\ ActivationsOK
    /\ RunningIsActive
    /\ RequestsOK
    /\ DependantsOK
    /\ DependantsOnce
    /\ FibersOK
    /\ DependantsServed

(* The inductive invariant.                                                *)
IInv ==
    /\ TypeOK
    /\ StackOK
    /\ ~breached => fault = "none" /\ Sound
=============================================================================
