----------------------------- MODULE MCRobinMap -----------------------------
(* Five keys with which TLC checks RobinMap: two whose hashes name the     *)
(* third of four buckets, two the last, and one the second.  In eight      *)
(* buckets they are as close to the end, in sixteen none is.               *)
EXTENDS RobinMap, TLC

CONSTANTS k1, k2, k3, k4, k5

FiveKeys == {k1, k2, k3, k4, k5}
Hashes == (k1 :> 6) @@ (k2 :> 6) @@ (k3 :> 7) @@ (k4 :> 7) @@ (k5 :> 1)
Pairs == {<<k, l>> : k \in {k1, k2}, l \in {k3, k4}}

(* Keys of the same hash, and values, are never told apart.                *)
Alike == Permutations({k1, k2}) \union Permutations({k3, k4}) \union Permutations(Values)
=============================================================================
