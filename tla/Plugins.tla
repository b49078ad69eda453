------------------------------ MODULE Plugins -------------------------------
(***************************************************************************)
(* Plugins, their isolates and what may outlive them.  The plugin manager  *)
(* loads each archive into an isolate of its own and starts its entry      *)
(* method in a fiber; callbacks of the event loop find that fiber again by *)
(* the numbers in a handle: the isolate's in the virtual machine, the      *)
(* fiber's in the isolate.  Stopping a plugin deletes its isolate.         *)
(*                                                                         *)
(* Only plugins make isolates, so plugin, load result and isolate i are    *)
(* the i-th of their vectors.  What scripts do to each other inside an     *)
(* isolate is FiberRuntime's; here a script only makes fibers, waits and   *)
(* ends.                                                                   *)
(***************************************************************************)
EXTENDS Integers, Sequences, FiniteSets

CONSTANTS
    Names,      \* file names of archives
    MaxPlugins, \* bound: plugins that are ever loaded
    MaxFibers,  \* bound: fibers that an isolate ever has
    Allowed     \* the clauses of the usage contract that may be broken

(* What nothing in the code checks before Stop, or after it:               *)
(*   ended    no fiber of the plugin has ended and deleted itself          *)
(*   pending  no callback that would use its handle unasked is outstanding *)
(*   again    the plugin was not stopped before                            *)
(*   others   no other plugin runs, as their Lua state is closed, too      *)
(*   reload   no plugin is loaded once the Lua state is closed             *)
Clauses == {"ended", "pending", "again", "others", "reload"}

ASSUME BoundsAreNatural == MaxPlugins \in Nat /\ MaxFibers \in Nat
ASSUME ClausesAllowed == Allowed \subseteq Clauses

VARIABLES
    started,  \* Duo::_started
    plugins,  \* PluginManager::_plugins, each with its Plugin
    isolates, \* ScriptVM::_isolates
    fibers,   \* ScriptIsolate::_fibers of each isolate
    requests, \* handles that callbacks of the event loop hold
    listed,   \* the files LoadAllPlugins was given
    todo,     \* those its loop has yet to visit
    starting, \* the plugin about to be started, or 0
    running,  \* the fiber that runs: its isolate and its number, or <<0, 0>>
    lua,      \* the Luau state all isolates share
    breached, \* history: clauses that were not kept
    fault     \* the undefined behaviour that was met

vars == <<started, plugins, isolates, fibers, requests, listed, todo, starting,
          running, lua, breached, fault>>
loading == <<listed, todo, starting>>
objects == <<plugins, isolates, fibers>>

Nobody == <<0, 0>>
Archives == {"absent", "empty", "folder", "broken", "good"}
Entries == {"null", "method", "deleted"}
FiberStates == {"running", "waiting", "parked", "freed"}

(* A callback of a file request or a timer takes the fiber from its handle *)
(* unasked; ZipOpenTask asks the handle first.                             *)
RequestKinds == {"unasked", "asked"}

Loaded(i) == plugins[i].success
Loading == todo # {} \/ starting # 0
Idle == ~Loading /\ running = Nobody /\ fault = "none"

TypeOK ==
    /\ started \in BOOLEAN
    /\ plugins \in Seq([name: Names, success: BOOLEAN, entry: Entries,
                        listed: BOOLEAN, starts: Nat])
    /\ isolates \in Seq({"live", "null"})
    /\ fibers \in Seq(Seq(FiberStates))
    /\ Len(plugins) <= MaxPlugins
    /\ Len(isolates) = Len(plugins) /\ Len(fibers) = Len(plugins)
    /\ requests \subseteq
         [isolate: 1..Len(isolates), fiber: 1..MaxFibers, kind: RequestKinds]
    /\ listed \subseteq Names /\ todo \subseteq listed
    /\ starting \in 0..Len(plugins)
    /\ \/ running = Nobody
       \/ running[1] \in 1..Len(fibers) /\ running[2] \in 1..Len(fibers[running[1]])
    /\ lua \in {"none", "open", "closed"}
    /\ breached \subseteq Allowed
    /\ fault \in {"none", "deleted_twice", "null_isolate", "closed_state", "freed_fiber"}

Init ==
    /\ started = FALSE
    /\ plugins = <<>> /\ isolates = <<>> /\ fibers = <<>>
    /\ requests = {}
    /\ listed = {} /\ todo = {} /\ starting = 0
    /\ running = Nobody
    /\ lua = "none"
    /\ breached = {} /\ fault = "none"

Breaks(clauses) ==
    /\ clauses \subseteq Allowed
    /\ breached' = breached \union clauses

-----------------------------------------------------------------------------
(* Loading.                                                                *)

(* A missing archive has no entries; every entry but a folder is read.     *)
TryGetResource(archive) ==
    CASE archive \in {"absent", "empty"} -> "Nonexistant"
      [] archive = "folder"              -> "Directory"
      [] archive \in {"broken", "good"}  -> "File"

(* Compiling never fails: luau_load finds the error in the bytecode.       *)
TryGetCodeResource(archive) == TryGetResource(archive) = "File"
IsolateTryLoad(archive) == archive # "broken"
TryLoad(archive) == TryGetCodeResource(archive) /\ IsolateTryLoad(archive)

(* The result is pushed first and keeps its place when the load fails, as  *)
(* does the isolate.                                                       *)
LoadPluginInternal(name, archive, fromList) ==
    /\ Len(plugins) < MaxPlugins
    /\ IF lua = "closed"
         THEN /\ Breaks({"reload"})
              /\ fault' = "closed_state"
              /\ UNCHANGED <<objects, starting>>
         ELSE /\ plugins' = Append(plugins,
                   [name    |-> name,
                    success |-> TryLoad(archive),
                    entry   |-> IF TryLoad(archive) THEN "method" ELSE "null",
                    listed  |-> fromList,
                    starts  |-> 0])
              /\ isolates' = Append(isolates, "live")
              /\ fibers' = Append(fibers, <<>>)
              /\ starting' = IF TryLoad(archive) THEN Len(plugins) + 1 ELSE 0
              /\ UNCHANGED <<breached, fault>>

FindPlugin(name) == {i \in 1..Len(plugins) : plugins[i].name = name}

(* Native code, as the SDK's main program: load one archive, and start it  *)
(* if that succeeded.                                                      *)
LoadPlugin(name, archive) ==
    /\ Idle /\ lua # "none"
    /\ LoadPluginInternal(name, archive, FALSE)
    /\ UNCHANGED <<started, requests, listed, todo, running, lua>>

(* What is in the directory is asked before the first plugin is loaded.    *)
ListFiles(files) ==
    /\ Len(plugins) + Cardinality({n \in files : FindPlugin(n) = {}}) <= MaxPlugins
    /\ listed' = files /\ todo' = files

LoadAllPlugins(files) ==
    /\ Idle /\ lua # "none"
    /\ ListFiles(files)
    /\ UNCHANGED <<started, objects, requests, starting, running, lua, breached, fault>>

(* The first map or a late load starts everything, once.                   *)
DuoStart(files) ==
    /\ Idle /\ ~started
    /\ started' = TRUE
    /\ lua' = "open"
    /\ ListFiles(files)
    /\ UNCHANGED <<objects, requests, starting, running, breached, fault>>

(* Mutant of LoadNext: the first archive that fails ends the loop.         *)
MutLoadNextGivesUp(name, archive) ==
    /\ name \in todo /\ starting = 0 /\ running = Nobody /\ fault = "none"
    /\ todo' = IF TryLoad(archive) THEN todo \ {name} ELSE {}
    /\ FindPlugin(name) = {}
    /\ LoadPluginInternal(name, archive, TRUE)
    /\ UNCHANGED <<started, requests, listed, running, lua>>

(* One turn of LoadAllPlugins' loop.                                       *)
LoadNext(name, archive) ==
    /\ name \in todo /\ starting = 0 /\ running = Nobody /\ fault = "none"
    /\ todo' = todo \ {name}
    /\ \/ /\ FindPlugin(name) # {}
          /\ UNCHANGED <<objects, starting, breached, fault>>
       \/ /\ FindPlugin(name) = {}
          /\ LoadPluginInternal(name, archive, TRUE)
    /\ UNCHANGED <<started, requests, listed, running, lua>>

(* Mutant of Start: the plugin is not taken off the list of those to start.*)
MutStartAgain ==
    /\ starting # 0 /\ running = Nobody /\ fault = "none"
    /\ Len(fibers[starting]) < MaxFibers
    /\ plugins' = [plugins EXCEPT ![starting].starts = @ + 1]
    /\ fibers' = [fibers EXCEPT ![starting] = Append(@, "running")]
    /\ running' = <<starting, Len(fibers[starting]) + 1>>
    /\ UNCHANGED <<started, isolates, requests, loading, lua, breached, fault>>

(* Plugin::Start: a new fiber of the isolate runs the entry method.        *)
Start ==
    /\ starting # 0 /\ running = Nobody /\ fault = "none"
    /\ Len(fibers[starting]) < MaxFibers
    /\ plugins' = [plugins EXCEPT ![starting].starts = @ + 1]
    /\ fibers' = [fibers EXCEPT ![starting] = Append(@, "running")]
    /\ running' = <<starting, Len(fibers[starting]) + 1>>
    /\ starting' = 0
    /\ UNCHANGED <<started, isolates, requests, listed, todo, lua, breached, fault>>

-----------------------------------------------------------------------------
(* Scripts.                                                                *)

(* How a run of fiber f of isolate i may end: it waits for a callback, is  *)
(* parked until a script continues it, or it ends and deletes itself.      *)
RunEnds(i, f, outcome, slots) ==
    /\ fibers' = [fibers EXCEPT ![i] = [slots EXCEPT ![f] = outcome]]
    /\ \/ /\ outcome = "waiting"
          /\ \E kind \in RequestKinds :
               requests' = requests \union {[isolate |-> i, fiber |-> f, kind |-> kind]}
       \/ /\ outcome # "waiting"
          /\ UNCHANGED requests

Outcomes == FiberStates \ {"running"}

(* Fiber.New: the new fiber runs at once, inside the call.                 *)
Spawn(outcome) ==
    /\ running # Nobody /\ fault = "none"
    /\ LET i == running[1] IN
         /\ Len(fibers[i]) < MaxFibers
         /\ RunEnds(i, Len(fibers[i]) + 1, outcome, Append(fibers[i], outcome))
    /\ UNCHANGED <<started, plugins, isolates, loading, running, lua, breached, fault>>

(* Fiber:Resume, or the end of the fiber that a parked one depends on.     *)
ResumeParked(f, outcome) ==
    /\ running # Nobody /\ fault = "none"
    /\ LET i == running[1] IN
         /\ f \in DOMAIN fibers[i] /\ fibers[i][f] = "parked"
         /\ RunEnds(i, f, outcome, fibers[i])
    /\ UNCHANGED <<started, plugins, isolates, loading, running, lua, breached, fault>>

(* lua_resume returns to Call(false), which returns to Start or to a       *)
(* callback.                                                               *)
Return(outcome) ==
    /\ running # Nobody /\ fault = "none"
    /\ RunEnds(running[1], running[2], outcome, fibers[running[1]])
    /\ running' = Nobody
    /\ UNCHANGED <<started, plugins, isolates, loading, lua, breached, fault>>

-----------------------------------------------------------------------------
(* The event loop, and stopping.                                           *)

IsolateExists(i) == isolates[i] # "null"
(* Mutant of FiberExists: every handle leads to a fiber.                   *)
MutFiberExists(r) == TRUE

FiberExists(r) == IsolateExists(r.isolate)

(* What continuing the fiber that r names meets.                           *)
ContinueFault(r) ==
    IF ~IsolateExists(r.isolate) THEN "null_isolate"
    ELSE IF lua = "closed" THEN "closed_state"
    ELSE IF fibers[r.isolate][r.fiber] = "freed" THEN "freed_fiber"
    ELSE "none"

(* Mutant of Complete: the request stays registered.                       *)
MutCompleteKeeps(r) ==
    /\ Idle /\ r \in requests /\ IsolateExists(r.isolate)
    /\ fault' = ContinueFault(r)
    /\ fault' = "none"
    /\ fibers' = [fibers EXCEPT ![r.isolate][r.fiber] = "running"]
    /\ running' = <<r.isolate, r.fiber>>
    /\ UNCHANGED <<started, plugins, isolates, requests, loading, lua, breached>>

Complete(r) ==
    /\ Idle /\ r \in requests
    /\ requests' = requests \ {r}
    /\ \/ /\ r.kind = "asked" /\ ~FiberExists(r)
          /\ UNCHANGED <<fibers, running, fault>>
       \/ /\ r.kind = "unasked" \/ FiberExists(r)
          /\ fault' = ContinueFault(r)
          /\ \/ /\ fault' # "none"
                /\ UNCHANGED <<fibers, running>>
             \/ /\ fault' = "none"
                /\ fibers' = [fibers EXCEPT ![r.isolate][r.fiber] = "running"]
                /\ running' = <<r.isolate, r.fiber>>
    /\ UNCHANGED <<started, plugins, isolates, loading, lua, breached>>

(* What ~ScriptIsolate and the deletion of the entry method meet.          *)
StopFault(i) ==
    IF plugins[i].entry = "deleted" THEN "deleted_twice"
    ELSE IF lua = "closed" THEN "closed_state"
    ELSE IF \E f \in DOMAIN fibers[i] : fibers[i][f] = "freed" THEN "deleted_twice"
    ELSE "none"

StopBreaks(i) ==
    {c \in Clauses :
       \/ c = "ended" /\ \E f \in DOMAIN fibers[i] : fibers[i][f] = "freed"
       \/ c = "pending" /\ \E r \in requests : r.isolate = i /\ r.kind = "unasked"
       \/ c = "again" /\ plugins[i].entry = "deleted"
       \/ c = "others" /\ \E j \in 1..Len(plugins) \ {i} :
                            Loaded(j) /\ plugins[j].entry = "method"}

(* Plugin::Stop.  Neither pointer is cleared; deleting any isolate closes  *)
(* the Luau state of all of them.                                          *)
Stop(i) ==
    /\ Idle /\ Loaded(i)
    /\ Breaks(StopBreaks(i))
    /\ fault' = StopFault(i)
    /\ \/ /\ fault' # "none"
          /\ UNCHANGED <<objects, lua>>
       \/ /\ fault' = "none"
          /\ plugins' = [plugins EXCEPT ![i].entry = "deleted"]
          /\ fibers' = [fibers EXCEPT ![i] = [f \in DOMAIN @ |-> "freed"]]
          /\ isolates' = [isolates EXCEPT ![i] = "null"]
          /\ lua' = "closed"
    /\ UNCHANGED <<started, requests, loading, running>>

-----------------------------------------------------------------------------
Next ==
    \/ \E files \in SUBSET Names : DuoStart(files) \/ LoadAllPlugins(files)
    \/ \E name \in Names, archive \in Archives :
         LoadPlugin(name, archive) \/ LoadNext(name, archive)
    \/ Start
    \/ \E outcome \in Outcomes : Spawn(outcome) \/ Return(outcome)
    \/ \E f \in 1..MaxFibers, outcome \in Outcomes : ResumeParked(f, outcome)
    \/ \E r \in requests : Complete(r)
    \/ \E i \in 1..Len(plugins) : Stop(i)

Spec == Init /\ [][Next]_vars

(* The rest of LoadAllPlugins is C++ code that runs on, and a script does  *)
(* not run for ever without yielding or ending.                            *)
Fairness ==
    /\ \A name \in Names :
         WF_vars(\E archive \in Archives : LoadNext(name, archive))
    /\ WF_vars(Start)
    /\ WF_vars(\E outcome \in Outcomes : Return(outcome))

FairSpec == Spec /\ Fairness

-----------------------------------------------------------------------------
(* Properties.                                                             *)

(* Each kind of undefined behaviour needs a clause of the contract to be   *)
(* broken first: an object is deleted twice only when a fiber had deleted  *)
(* itself or the plugin was stopped before, a callback finds no isolate    *)
(* only when it was outstanding at Stop (Plugin::Stop, ~ScriptIsolate,     *)
(* FiberHandle::Get).  A freed fiber is never reached through a live       *)
(* isolate.                                                                *)
FaultsExplained ==
    /\ fault = "deleted_twice" => breached \intersect {"ended", "again"} # {}
    /\ fault = "null_isolate" => "pending" \in breached
    /\ fault = "closed_state" => breached \intersect {"others", "reload"} # {}
    /\ fault # "freed_fiber"

(* A callback's handle leads to the very fiber that waits for it, as long  *)
(* as the isolate's slot is not null, and each waiting fiber has one       *)
(* callback to wait for (FiberHandle::Get, ScriptIsolate::GetFiber).       *)
HandlesResolve == fault = "none" =>
    /\ \A r \in requests :
         IsolateExists(r.isolate) => fibers[r.isolate][r.fiber] = "waiting"
    /\ \A i \in 1..Len(fibers) : \A f \in DOMAIN fibers[i] :
         fibers[i][f] = "waiting" =>
           Cardinality({r \in requests : r.isolate = i /\ r.fiber = f}) = 1

(* LoadAllPlugins loads no file that it or anyone else has loaded before,  *)
(* even if that load failed (PluginManager::FindPlugin).                   *)
ListedOnce ==
    \A i, j \in 1..Len(plugins) :
      i < j /\ plugins[i].name = plugins[j].name => ~plugins[j].listed

(* Once LoadAllPlugins is through, every file that was in the directory    *)
(* has a result, a plugin that loaded was started once and no other ever   *)
(* was: one that fails does not keep those after it from starting.         *)
AllStarted ==
    /\ TypeOK /\ ListedOnce
    /\ ~Loading /\ fault = "none" =>
          /\ \A name \in listed : FindPlugin(name) # {}
          /\ \A i \in 1..Len(plugins) :
               plugins[i].starts = IF Loaded(i) THEN 1 ELSE 0

(* Starting up ends, whatever the plugins' scripts wait for: a plugin that *)
(* yields gives way to the next one (PluginManager::LoadAllPlugins).       *)
LoadingEnds == Loading ~> (~Loading \/ fault # "none")

(* A plugin that failed to load leaves nothing behind.  It does not hold:  *)
(* LoadPluginInternal forgets the Plugin and its isolate stays.            *)
FailedLeavesNothing ==
    \A i \in 1..Len(plugins) : ~Loaded(i) => isolates[i] = "null"
=============================================================================
