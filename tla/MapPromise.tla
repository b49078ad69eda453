----------------------------- MODULE MapPromise -----------------------------
(***************************************************************************)
(* What a map promises whoever holds one: the value last given to a key is *)
(* the one a lookup finds, until the key is erased.  Insertions may be     *)
(* refused, because the table cannot grow.  Erasing a range is the weak    *)
(* operation: when entries run past the end of the storage, lookups may    *)
(* miss some of the others until the table is rebuilt or cleared.          *)
(***************************************************************************)
CONSTANTS Keys, Values

VARIABLES
    found,     \* the value lookups find, of the keys they find
    crossing,  \* whether entries run past the end of the storage
    damaged    \* whether lookups may miss entries

vars == <<found, crossing, damaged>>

Only(f, S) == [x \in DOMAIN f \intersect S |-> f[x]]

Init ==
    /\ found = <<>>
    /\ crossing = FALSE
    /\ damaged = FALSE

(* New keys with a value, each unless it is refused.                       *)
Insert(old, new) ==
    /\ ~damaged
    /\ old = Only(new, DOMAIN old)
    /\ DOMAIN new \subseteq Keys /\ new \in [DOMAIN new -> Values]
    /\ damaged' = damaged

Assign(old, new) ==
    /\ DOMAIN new = DOMAIN old
    /\ \E k \in DOMAIN old : \A l \in DOMAIN old \ {k} : new[l] = old[l]
    /\ damaged' = damaged

Erase(old, new) ==
    /\ \E k \in DOMAIN old : new = Only(old, DOMAIN old \ {k})
    /\ damaged' = damaged

EraseRange(old, new) ==
    /\ new = Only(old, DOMAIN new)
    /\ damaged' => crossing

(* Rebuilding, clearing, saving and loading, changes of the load factors.  *)
(* What lookups missed they may find again.                                *)
Rebuild(old, new) ==
    /\ \/ new = old \/ new = <<>>
       \/ damaged /\ old = Only(new, DOMAIN old)
    /\ damaged' => damaged

Next ==
    /\ \E old \in {found}, new \in {found'} :
          \/ Rebuild(old, new) \/ Insert(old, new) \/ Assign(old, new)
          \/ Erase(old, new) \/ EraseRange(old, new)
    /\ crossing' \in BOOLEAN

Spec == Init /\ [][Next]_vars
=============================================================================
