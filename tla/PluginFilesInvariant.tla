------------------------ MODULE PluginFilesInvariant ------------------------
(***************************************************************************)
(* The inductive invariant of PluginFiles: why no importer is forgotten.   *)
(***************************************************************************)
EXTENDS PluginFiles

Depth == DOMAIN stack

(* A file runs when its object is marked, and the mark comes with a fiber. *)
EntitySound(e) ==
    /\ runs[e] = IF started[e] THEN 1 ELSE 0
    /\ started[e] => handle[e] # 0

(* A fiber has one activation at most, whose phase says what its thread    *)
(* does.  Only the one on top may be about to return a yield, and an       *)
(* Import that runs a file is in the script right below it.                *)
OneActivation == \A j, k \in Depth : stack[j].fiber = stack[k].fiber => j = k

ActivationSound(k) ==
    /\ stack[k].phase = "script" => lua[stack[k].fiber] = "running" /\ stack[k].next = 1
    /\ stack[k].phase = "yielded" => lua[stack[k].fiber] = "yielded" /\ k = Len(stack)
    /\ stack[k].phase = "dependants" =>
          /\ lua[stack[k].fiber] = "ended"
          /\ stack[k].next >= 1
          /\ stack[k].last <= Len(deps[stack[k].fiber])
    /\ stack[k].import # None => k > 1 /\ stack[k - 1].phase = "script"

(* A fiber that runs, or has ended and is not deleted, has an activation;  *)
(* one that has yielded waits for something, and no other does.            *)
FiberSound(f) ==
    /\ lua[f] \in {"running", "ended"} => \E k \in Depth : stack[k].fiber = f
    /\ lua[f] = "yielded" <=> waits[f] # "nothing"

(* Who is still to be continued waits for a file, and in that place only.  *)
ListSound(g) ==
    /\ \A i \in DOMAIN deps[g] : deps[g][i] \in Fibers
    /\ \A i \in Outstanding(g) : waits[deps[g][i]] = "file"

WaitsOnce ==
    \A g, h \in Fibers : \A i \in Outstanding(g), j \in Outstanding(h) :
        deps[g][i] = deps[h][j] => g = h /\ i = j

(* Who waits for a file is there, until an ended one was asked for.        *)
NoneForgotten ==
    ~breached => \A f \in Fibers :
        waits[f] = "file" => \E g \in Fibers : \E i \in Outstanding(g) : deps[g][i] = f

(* Activations and threads.                                                *)
Activities ==
    /\ OneActivation
    /\ \A k \in Depth : ActivationSound(k)
    /\ \A f \in Fibers : FiberSound(f)

(* The lists of dependants and who waits.                                  *)
Lists ==
    /\ \A g \in Fibers : ListSound(g)
    /\ WaitsOnce
    /\ NoneForgotten

ImportInv ==
    /\ TypeOK
    /\ \A e \in Entities : EntitySound(e)
    /\ fault => breached
    /\ ~fault => Activities /\ Lists
=============================================================================
