------------------------- MODULE RobinMapInvariant --------------------------
(***************************************************************************)
(* The inductive invariant of RobinMap: every entry is where its distance  *)
(* says, no key is there twice and, unless the table is damaged, no entry  *)
(* is more than one further from its bucket than the entry before it.      *)
(***************************************************************************)
EXTENDS RobinMap

Slots == {Free} \union [key : Keys, value : Values, dist : Nat]

Buckets(n) == [0 .. (n - 1) -> Slots]

(* The bucket before i in an array of n, which is taken as a ring.         *)
Before(n, i) == IF i = 0 THEN n - 1 ELSE i - 1

(* An entry is less than one turn away from its own bucket.                *)
InPlace(b) ==
    \A i \in Filled(b) : b[i].dist < Count(b) /\ Nth(b, b[i].key, b[i].dist) = i

Distinct(b) == \A i, j \in Filled(b) : b[i].key = b[j].key => i = j

Ordered(b) == \A i \in Filled(b) : b[i].dist <= b[Before(Count(b), i)].dist + 1

(* Which value each key has, in whatever order.                            *)
Contents(b) == {<<b[i].key, b[i].value>> : i \in Filled(b)}

Objects ==
    [buckets : UNION {Buckets(n) : n \in {0} \union Sizes},
     nbElements : Nat, loadThreshold : Nat,
     minLoad : MinLoads, maxLoad : MaxLoads,
     growOnNextInsert : BOOLEAN, tryShrinkOnNextInsert : BOOLEAN]

(* With buckets there is a free one, however full the table may get before *)
(* it grows.                                                               *)
Roomy(t) ==
    LET n == Count(t.buckets) IN
    /\ n <= MaxBuckets
    /\ t.nbElements = Cardinality(Filled(t.buckets))
    /\ IF n = 0 THEN t.loadThreshold = 0
       ELSE t.nbElements < n /\ t.loadThreshold < n

Whole(t) ==
    /\ t \in Objects /\ Roomy(t)
    /\ InPlace(t.buckets) /\ Distinct(t.buckets)

(* The iterator stands on an entry or at the end, and the caller has seen  *)
(* that entry and those in front of it.                                    *)
CursorOK ==
    LET b == table.buckets IN
    cursor # NoCursor =>
      /\ cursor \in Filled(b) \union {Count(b)}
      /\ \A i \in Filled(b) : i <= cursor => b[i].key \in visited

RobinMapInvariant ==
    /\ Whole(table)
    /\ visited \subseteq Keys /\ damaged \in BOOLEAN
    /\ damaged => cursor = NoCursor
    /\ ~damaged => Ordered(table.buckets)
    /\ CursorOK
=============================================================================
