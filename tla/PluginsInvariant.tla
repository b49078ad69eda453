-------------------------- MODULE PluginsInvariant --------------------------
(***************************************************************************)
(* The inductive invariant of Plugins: why its safety properties hold.     *)
(***************************************************************************)
EXTENDS Plugins

(* A plugin, its entry method and its isolate go together; a closed Luau   *)
(* state leaves an entry method only to those who broke the contract.      *)
PluginsSound ==
    \A i \in 1..Len(plugins) :
        /\ ~Loaded(i) <=> plugins[i].entry = "null"
        /\ isolates[i] = "null" <=> plugins[i].entry = "deleted"
        /\ plugins[i].entry = "deleted" => lua = "closed"
        /\ plugins[i].entry = "method" /\ lua = "closed" => "others" \in breached
        /\ plugins[i].starts = IF Loaded(i) /\ i # starting THEN 1 ELSE 0

(* Where the start of all plugins is, and what has a result by then.       *)
LoadingSound ==
    /\ started <=> lua # "none"
    /\ lua = "none" => Len(plugins) = 0 /\ listed = {}
    /\ starting # 0 => /\ running = Nobody
                       /\ plugins[starting].entry = "method"
                       /\ lua = "open"
    /\ fault = "none" => \A name \in listed \ todo : FindPlugin(name) # {}

(* Fibers only live in isolates that do, and the one that runs is the one  *)
(* that `running` names.                                                   *)
FibersSound ==
    /\ \A i \in 1..Len(fibers) :
          /\ Len(fibers[i]) <= MaxFibers
          /\ Len(fibers[i]) > 0 => plugins[i].entry # "null"
          /\ isolates[i] = "null" => \A f \in DOMAIN fibers[i] : fibers[i][f] = "freed"
    /\ running # Nobody => /\ fibers[running[1]][running[2]] = "running"
                           /\ isolates[running[1]] = "live"
                           /\ lua = "open"
                           /\ fault = "none"

(* Requests and waiting fibers: each has one of the other, until a stop    *)
(* leaves requests behind.                                                 *)
HandlesSound ==
    /\ \A r \in requests : r.fiber \in DOMAIN fibers[r.isolate]
    /\ \A q, r \in requests : q.isolate = r.isolate /\ q.fiber = r.fiber => q = r
    /\ fault = "none" =>
          /\ \A r \in requests :
                /\ IsolateExists(r.isolate) => fibers[r.isolate][r.fiber] = "waiting"
                /\ ~IsolateExists(r.isolate) /\ r.kind = "unasked" => "pending" \in breached
          /\ \A i \in 1..Len(fibers) : \A f \in DOMAIN fibers[i] :
                fibers[i][f] = "waiting" => \E r \in requests : r.isolate = i /\ r.fiber = f

PInv ==
    /\ TypeOK
    /\ ListedOnce
    /\ PluginsSound
    /\ LoadingSound
    /\ FibersSound
    /\ HandlesSound
    /\ FaultsExplained
=============================================================================
