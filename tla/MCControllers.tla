---------------------------- MODULE MCControllers ----------------------------
(* Constants with which TLC checks Controllers: a module that is loaded     *)
(* again constructs its next controller, of the same name.                  *)
EXTENDS ControllersInvariant, TLC

CONSTANTS m1, m2, c1, c2, c3, file, zip

TwoModules == {m1, m2}
ThreeNatives == {c1, c2, c3}
OwnerOf == c1 :> m1 @@ c2 :> m1 @@ c3 :> m2
TwoNames == {file, zip}
FileFileZip == c1 :> file @@ c2 :> file @@ c3 :> zip

Symmetric == Permutations(Instances) \cup Permutations(Entities)

AllClauses == Clauses
=============================================================================
