------------------------ MODULE ControllersInvariant ------------------------
(* What holds of Controllers in every reachable state and is preserved by   *)
(* every step, whatever clauses of the contract are broken.                 *)
EXTENDS Controllers

Live(i) == object[i] = "live"

Deleted(i) == object[i] = "deleted"

(* The instances: who made them, who tracks them, what scripts see of them. *)
InstancesSound ==
    /\ \A i \in Instances :
          /\ object[i] # "none" => registered[i] \in Natives
          /\ Live(i) => /\ native[registered[i]] = "ready"
                        /\ i \in sink[Owner[registered[i]]]
          /\ i \in tables <=> Live(i)
          /\ i \in killed <=> Deleted(i)
    /\ \A m \in Modules : \A i \in sink[m] :
          /\ m \in modules
          /\ object[i] # "none"
          /\ Owner[registered[i]] = m
          /\ Deleted(i) => "foreign_destroy" \in breached

(* The controllers: whose code is there, whose template is the instance     *)
(* that scripts reach.                                                      *)
NativesSound ==
    /\ \A c \in Natives :
          /\ native[c] = "ready" => Owner[c] \in modules
          /\ native[c] = "none" <=> template[c] = None
          /\ template[c] # None => /\ object[template[c]] # "none"
                                   /\ registered[template[c]] = c
    /\ "register_twice" \notin breached =>
          \A i \in Instances : object[i] # "none" => template[registered[i]] = i

(* What outlives an instance: its entities and its controller's requests.   *)
OutlivedOnlyAfterBreach ==
    /\ \A e \in Entities :
          entity[e] = "live" => /\ lua = "open"
                                /\ made[e] \in Instances
                                /\ object[made[e]] # "none"
                                /\ Deleted(made[e]) => "undrained" \in breached
    /\ \A c \in requests :
          /\ native[c] # "none"
          /\ native[c] = "gone" => "pending" \in breached
          /\ Deleted(template[c]) =>
                breached \cap {"pending", "register_twice"} # {}

(* A closed Lua state finds no controller left.                             *)
ClosedLast ==
    lua = "closed" /\ "early_close" \notin breached =>
        \A c \in Natives : native[c] # "ready"

(* UnloadAllModules has still to visit exactly the modules that are left.   *)
SweepCovers ==
    /\ stop = "stopping" /\ fault = "none" => sweep = modules
    /\ stop = "stopped" => modules = {}

(* The inductive invariant.                                                 *)
CInv ==
    /\ TypeOK
    /\ InstancesSound
    /\ NativesSound
    /\ OutlivedOnlyAfterBreach
    /\ ClosedLast
    /\ SweepCovers
    /\ FaultsExplained
=============================================================================
