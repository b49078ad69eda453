------------------------- MODULE EventLoopInvariant -------------------------
(***************************************************************************)
(* The inductive invariant of EventLoop: why its safety properties hold.   *)
(***************************************************************************)
EXTENDS EventLoop

(* Client code runs only in the game thread's callbacks, and a callback    *)
(* only inside a uv_run; Destroy has its uv_run and no other.              *)
PhasesSound ==
    /\ stage = "outside" => callback = None
    /\ loop \in {"new", "failed", "stopped"} => stage = "outside"
    /\ loop = "destroying" => stage # "outside"
    /\ loop = "new" => \A h \in Handles : object[h] = "none"

(* Who still refers to a uv_handle_t: an object that is live and not       *)
(* killed owns one that is open, or that Destroy has closed behind it; and *)
(* no one else closes it.                                                  *)
HandlesSound ==
    \A h \in Handles :
        /\ object[h] = "none" => uv[h] = "none" /\ h \notin revoked \cup walked
        /\ object[h] = "live" /\ ~killed[h] => uv[h] = "open" \/ h \in walked
        /\ uv[h] = "open" => /\ object[h] = "live"
                             /\ h \notin revoked \cup walked
        /\ killed[h] => h \in revoked
        /\ h \in due => uv[h] = "open"
        /\ h \in walked => \/ uv[h] = "freed"
                           \/ uv[h] = "closing" /\ loop = "destroying" /\ stage = "early"

(* Every callback was paid for by an accepted invocation, of which an      *)
(* async handle accepts one.                                               *)
CallbacksCounted ==
    /\ \A h \in Handles : ran[h] + (IF h \in due THEN 1 ELSE 0) <= sent[h]
    /\ \A a \in Asyncs : /\ sent[a] <= 1
                         /\ sent[a] = 1 => invoked[a]

(* How far an item has come, and what it may have run by then.             *)
WorkSound ==
    \A w \in Works :
        /\ work[w] \notin {"receiving", "finished"} => ran[w] = 0
        /\ work[w] = "receiving" => ran[w] = 1
        /\ work[w] = "finished" => ran[w] <= 1
        /\ work[w] = "finished" /\ w \notin revoked => ran[w] = 1
        /\ work[w] = "cancelled" => w \in revoked /\ ~invoked[w]
        /\ work[w] \in {"none", "queued"} => ~invoked[w]
        /\ work[w] = "none" => w \notin revoked
        /\ killed[w] <=> w \in revoked
        /\ callback = w <=> work[w] = "receiving"

(* A run of Destroy that is over: what its answer says.                    *)
AnswersSound ==
    /\ loop = "stopped" => \A w \in Works : ~InFlight(w)
    /\ loop = "failed" => \/ \E w \in Works : InFlight(w)
                          \/ \E h \in Handles \ walked : uv[h] \in {"open", "closing"}

LInv ==
    /\ TypeOK
    /\ PhasesSound
    /\ HandlesSound
    /\ CallbacksCounted
    /\ WorkSound
    /\ AnswersSound
    /\ MisuseOnlyAfterBreach
=============================================================================
