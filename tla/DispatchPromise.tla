-------------------------- MODULE DispatchPromise ---------------------------
(***************************************************************************)
(* What calling a controller's methods by name promises: the method of     *)
(* that name of that controller runs, or the call is an error if there is  *)
(* none at that moment.  After more names than there are atoms, any method *)
(* of the controller may run.                                              *)
(***************************************************************************)
CONSTANTS Controllers, Names, None

VARIABLES
    methods,   \* of each controller, as registered so far
    exhausted, \* whether atoms have run out
    answer     \* the last call: of what, and what ran (None for an error)

vars == <<methods, exhausted, answer>>

Answer(c, n, ran) == [controller |-> c, name |-> n, ran |-> ran]

Init ==
    /\ methods \in [Controllers -> SUBSET Names]
    /\ exhausted = FALSE
    /\ answer = None

AddMethod ==
    /\ \E c \in Controllers, n \in Names :
         methods' = [methods EXCEPT ![c] = @ \union {n}]
    /\ UNCHANGED <<exhausted, answer>>

Call ==
    /\ \E c \in Controllers, n \in Names :
         \/ answer' = Answer(c, n, IF n \in methods[c] THEN n ELSE None)
         \/ exhausted' /\ \E ran \in methods[c] : answer' = Answer(c, n, ran)
    /\ exhausted => exhausted'
    /\ UNCHANGED methods

(* Something else takes an atom.                                           *)
Exhaust ==
    /\ exhausted' \in BOOLEAN /\ (exhausted => exhausted')
    /\ UNCHANGED <<methods, answer>>

Next == AddMethod \/ Call \/ Exhaust

Spec == Init /\ [][Next]_vars
=============================================================================
