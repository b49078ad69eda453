---------------------------- MODULE FiberPromise ----------------------------
(***************************************************************************)
(* What fibers promise to scripts, without native calls, slots, handles or *)
(* dependants' lists.  A fiber is active or parked; a parked one waits for *)
(* one thing only: the answer to a request, the end of another fiber, or   *)
(* that an active fiber resumes it; and nothing else makes it active.  A   *)
(* fiber that has ended stays ended.                                       *)
(***************************************************************************)
CONSTANT Fibers

VARIABLES
    phase,    \* of each fiber
    request,  \* the fibers that wait for an answer
    joins     \* <<d, t>> when d waits for the end of t

vars == <<phase, request, joins>>

Init ==
    /\ phase = [f \in Fibers |-> "unborn"]
    /\ request = {}
    /\ joins = {}

WaitsForAnEnd(f) == \E t \in Fibers : <<f, t>> \in joins

Becomes(f, from, to) ==
    /\ phase[f] = from
    /\ phase' = [phase EXCEPT ![f] = to]

Create(f) ==
    /\ Becomes(f, "unborn", "active")
    /\ UNCHANGED <<request, joins>>

ParkForResume(f) ==
    /\ Becomes(f, "active", "parked")
    /\ UNCHANGED <<request, joins>>

ParkForAnswer(f) ==
    /\ Becomes(f, "active", "parked")
    /\ request' = request \cup {f}
    /\ UNCHANGED joins

ParkForEnd(f, t) ==
    /\ phase[t] \in {"active", "parked"}
    /\ t # f
    /\ Becomes(f, "active", "parked")
    /\ joins' = joins \cup {<<f, t>>}
    /\ UNCHANGED request

(* The answer continues the fiber, or kills it.                            *)
Answer(f) ==
    /\ f \in request
    /\ Becomes(f, "parked", "active") \/ Becomes(f, "parked", "ended")
    /\ request' = request \ {f}
    /\ UNCHANGED joins

Resume(f) ==
    /\ \E g \in Fibers : phase[g] = "active"
    /\ f \notin request
    /\ ~WaitsForAnEnd(f)
    /\ Becomes(f, "parked", "active")
    /\ UNCHANGED <<request, joins>>

Continue(f, t) ==
    /\ <<f, t>> \in joins
    /\ phase[t] = "ended"
    /\ Becomes(f, "parked", "active")
    /\ joins' = joins \ {<<f, t>>}
    /\ UNCHANGED request

End(f) ==
    /\ Becomes(f, "active", "ended")
    /\ UNCHANGED <<request, joins>>

Next ==
    \E f \in Fibers :
        \/ Create(f)
        \/ ParkForResume(f)
        \/ ParkForAnswer(f)
        \/ Answer(f)
        \/ Resume(f)
        \/ End(f)
        \/ \E t \in Fibers : ParkForEnd(f, t) \/ Continue(f, t)

Spec == Init /\ [][Next]_vars
=============================================================================
