---------------------------- MODULE Controllers -----------------------------
(***************************************************************************)
(* Modules, the controllers they register and the entities scripts hold:   *)
(* ModuleManager, ModuleInstance, ControllerManagerSink,                   *)
(* ScriptControllerManager, IScriptController, and the collector of Luau.  *)
(*                                                                         *)
(* A controller is a native object of a module, its code goes with the     *)
(* module.  Registering it makes a ControllerInstance, two metatables and  *)
(* a global; the sink of the module owns the instance.  An entity is a     *)
(* userdata with that metatable and raw pointers to instance and           *)
(* controller.  Its destructor runs when Luau collects it.                 *)
(*                                                                         *)
(* All of this runs on the game thread.  The collector may run wherever    *)
(* Lua memory is allocated, requests of a controller end in the event      *)
(* loop, and modules come and go on the console's request.                 *)
(*                                                                         *)
(* `fault` is the undefined behaviour that native code has run into, after *)
(* which nothing is modelled.  `breached` is a history variable: the       *)
(* clauses of the usage contract that were not kept; a clause that is not  *)
(* in Allowed is always kept.                                              *)
(***************************************************************************)
EXTENDS Naturals, FiniteSets

CONSTANTS
    Modules,      \* the Metamod plugins that are DuoScript modules
    Natives,      \* the controller objects they construct
    Owner,        \* the module of each controller
    Names,        \* names of globals
    NameOf,       \* GetName() of each controller
    Instances,    \* the ControllerInstances made, addresses are not reused
    Entities,     \* the userdata made
    None,
    Allowed       \* the clauses of the contract that may be broken

Clauses ==
    {"second_hello",     \* Hello for a module that is introduced already
     "register_twice",   \* Register for a controller that has a template
     "foreign_destroy",  \* Destroy for an instance of another module
     "undrained",        \* an instance goes before its entities
     "pending",          \* an instance or module goes before its requests
     "early_close",      \* the Lua state is closed before the modules go
     "after_close"}      \* Register after that

ASSUME OwnersAssumption ==
    /\ Owner \in [Natives -> Modules]
    /\ NameOf \in [Natives -> Names]
ASSUME NoneAssumption == None \notin Instances \cup Natives
ASSUME AllowedAssumption == Allowed \subseteq Clauses

Faults ==
    {"none", "freed_instance", "unloaded_code", "closed_state", "no_vtable"}

VARIABLES
    modules,    \* _modules: the modules that said Hello and not Goodbye
    sink,       \* of each module: the instances its services track
    native,     \* "none", "ready", "gone": of each controller object
    template,   \* _template of each controller
    object,     \* "none", "live", "deleted": each ControllerInstance
    killed,     \* instances with _killed
    registered, \* the controller that an instance was made for
    tables,     \* instances whose metatables have their methods
    global,     \* the instance behind each global
    entity,     \* "none", "live", "finalized": each userdata
    made,       \* GetInstance() of each entity
    held,       \* entities that scripts can reach
    orphans,    \* entities with a registry reference that no one will free
    requests,   \* controllers with a request in the event loop
    lua,        \* "open", "closed": the Lua state
    stop,       \* "running", "stopping", "stopped": Duo::Stop
    sweep,      \* modules that UnloadAllModules has yet to visit
    fault,
    breached

luaVars == <<tables, global, entity, made, held, orphans, lua>>
nativeVars == <<native, template, object, killed, registered>>
vars == <<modules, sink, nativeVars, luaVars, requests, stop, sweep, fault,
          breached>>

-----------------------------------------------------------------------------
Running == fault = "none" /\ stop = "running"

ScriptsRun == Running /\ lua = "open"

Unless(ok, clause) == IF ok THEN {} ELSE {clause}

Obey(broken) ==
    /\ broken \subseteq Allowed
    /\ breached' = breached \cup broken

EntitiesOf(S) == {e \in Entities : entity[e] = "live" /\ made[e] \in S}

(* Scripts reach the methods of an instance by its global or an entity.    *)
Reachable(i) ==
    /\ i \in tables
    /\ \/ \E n \in Names : global[n] = i
       \/ \E e \in held : made[e] = i

-----------------------------------------------------------------------------
(* Modules.                                                                *)

(* Mutant of Hello: every Hello makes a new ModuleInstance.                *)
HelloAfresh(m) ==
    /\ Running
    /\ Obey(Unless(m \notin modules, "second_hello"))
    /\ modules' = modules \cup {m}
    /\ sink' = [sink EXCEPT ![m] = {}]
    /\ UNCHANGED <<nativeVars, luaVars, requests, stop, sweep, fault>>

(* ModuleManager::Hello: a known id keeps its ModuleInstance, and with it  *)
(* what its sink tracks.  OnReady registers the module's controllers.      *)
Hello(m) ==
    /\ Running
    /\ Obey(Unless(m \notin modules, "second_hello"))
    /\ modules' = modules \cup {m}
    /\ sink' = [sink EXCEPT ![m] = IF m \in modules THEN @ ELSE {}]
    /\ UNCHANGED <<nativeVars, luaVars, requests, stop, sweep, fault>>

(* Mutant of Register: the sink does not track the instance.               *)
RegisterUntracked(c, i) ==
    /\ ScriptsRun
    /\ Owner[c] \in modules
    /\ native[c] # "gone"
    /\ object[i] = "none"
    /\ Obey(Unless(template[c] = None, "register_twice"))
    /\ native' = [native EXCEPT ![c] = "ready"]
    /\ template' = [template EXCEPT ![c] = i]
    /\ object' = [object EXCEPT ![i] = "live"]
    /\ registered' = [registered EXCEPT ![i] = c]
    /\ tables' = tables \cup {i}
    /\ global' = [global EXCEPT ![NameOf[c]] = i]
    /\ UNCHANGED <<modules, sink, killed, entity, made, held, orphans, lua, requests,
                   stop, sweep, fault>>

(* ControllerManagerSink::Register, ScriptControllerManager::Register.     *)
Register(c, i) ==
    LET m == Owner[c] IN
    /\ Running
    /\ m \in modules
    /\ native[c] # "gone"
    /\ object[i] = "none"
    /\ Obey(Unless(template[c] = None, "register_twice")
              \cup Unless(lua = "open", "after_close"))
    /\ \/ /\ lua = "open"
          /\ native' = [native EXCEPT ![c] = "ready"]
          /\ template' = [template EXCEPT ![c] = i]
          /\ object' = [object EXCEPT ![i] = "live"]
          /\ registered' = [registered EXCEPT ![i] = c]
          /\ sink' = [sink EXCEPT ![m] = @ \cup {i}]
          /\ tables' = tables \cup {i}
          /\ global' = [global EXCEPT ![NameOf[c]] = i]
          /\ UNCHANGED fault
       \/ /\ lua = "closed"
          /\ fault' = "closed_state"
          /\ UNCHANGED <<native, template, object, registered, sink, tables, global>>
    /\ UNCHANGED <<modules, killed, entity, made, held, orphans, lua, requests,
                   stop, sweep>>

(* What ScriptControllerManager::Destroy, and the delete that follows it   *)
(* in the sink, meet in a set of instances.                                *)
DestroyFault(S) ==
    IF \E i \in S : object[i] = "deleted" THEN "freed_instance"
    ELSE IF S # {} /\ lua = "closed" THEN "closed_state"
    ELSE "none"

(* Both metatables cleared, the instance killed and deleted.               *)
DestroyAll(S) ==
    /\ tables' = tables \ S
    /\ killed' = killed \cup S
    /\ object' = [i \in Instances |-> IF i \in S THEN "deleted" ELSE object[i]]

(* Mutant of Destroy: the sink goes on tracking the instance.              *)
DestroyTracked(m, i) ==
    /\ Running
    /\ m \in modules
    /\ object[i] = "live"
    /\ Obey(Unless(i \in sink[m], "foreign_destroy")
              \cup Unless(EntitiesOf({i}) = {}, "undrained")
              \cup Unless(registered[i] \notin requests, "pending"))
    /\ fault' = DestroyFault({i})
    /\ DestroyAll({i})
    /\ UNCHANGED <<modules, sink, native, template, registered, global, entity, made,
                   held, orphans, lua, requests, stop, sweep>>

(* ControllerManagerSink::Destroy, for any instance a module knows.        *)
Destroy(m, i) ==
    /\ Running
    /\ m \in modules
    /\ object[i] = "live"
    /\ Obey(Unless(i \in sink[m], "foreign_destroy")
              \cup Unless(EntitiesOf({i}) = {}, "undrained")
              \cup Unless(registered[i] \notin requests, "pending"))
    /\ fault' = DestroyFault({i})
    /\ IF lua = "open"
       THEN DestroyAll({i}) /\ sink' = [sink EXCEPT ![m] = @ \ {i}]
       ELSE UNCHANGED <<tables, killed, object, sink>>
    /\ UNCHANGED <<modules, native, template, registered, global, entity, made,
                   held, orphans, lua, requests, stop, sweep>>

(* Metamod unloads a module: it says Goodbye, which deletes its            *)
(* ModuleInstance and so its sink, and its code goes.                      *)
Goodbye(m) ==
    /\ Obey(Unless(EntitiesOf(sink[m]) = {}, "undrained")
              \cup Unless(\A c \in requests : Owner[c] # m, "pending"))
    /\ fault' = DestroyFault(sink[m])
    /\ IF DestroyFault(sink[m]) = "none"
       THEN /\ DestroyAll(sink[m])
            /\ modules' = modules \ {m}
            /\ sink' = [sink EXCEPT ![m] = {}]
            /\ native' = [c \in Natives |->
                             IF Owner[c] = m /\ native[c] = "ready"
                             THEN "gone" ELSE native[c]]
       ELSE UNCHANGED <<tables, killed, object, modules, sink, native>>
    /\ UNCHANGED <<template, registered, global, entity, made, held, orphans,
                   lua, requests>>

Unload(m) ==
    /\ Running
    /\ m \in modules
    /\ Goodbye(m)
    /\ UNCHANGED <<stop, sweep>>

(* DuoMetamod::Unload, Duo::~Duo: Duo::Stop visits the ids in _modules.    *)
Stop ==
    /\ Running
    /\ stop' = "stopping"
    /\ sweep' = modules
    /\ UNCHANGED <<modules, sink, nativeVars, luaVars, requests, fault, breached>>

(* Mutant of UnloadNext: the removal ends the iteration.                   *)
UnloadFirst ==
    /\ fault = "none"
    /\ stop = "stopping"
    /\ \E m \in sweep : Goodbye(m)
    /\ sweep' = {}
    /\ UNCHANGED stop

(* ModuleManager::UnloadAllModules: each visited module removes itself     *)
(* from the map that is iterated.                                          *)
UnloadNext ==
    /\ fault = "none"
    /\ stop = "stopping"
    /\ \E m \in sweep : Goodbye(m) /\ sweep' = sweep \ {m}
    /\ UNCHANGED stop

Stopped ==
    /\ fault = "none"
    /\ stop = "stopping"
    /\ sweep = {}
    /\ stop' = "stopped"
    /\ UNCHANGED <<modules, sink, nativeVars, luaVars, requests, sweep, fault, breached>>

-----------------------------------------------------------------------------
(* Scripts and requests.                                                   *)

Fail(kind) ==
    /\ fault' = kind
    /\ UNCHANGED <<entity, made, held, orphans>>

(* ControllerInstance::Make by a controller's template, for a caller that  *)
(* passes the userdata to a script or not, and frees its reference or not. *)
Make(c, e, passed, freed) ==
    IF object[template[c]] = "deleted" THEN Fail("freed_instance")
    ELSE IF lua = "closed" THEN Fail("closed_state")
    ELSE /\ entity[e] = "none"
         /\ entity' = [entity EXCEPT ![e] = "live"]
         /\ made' = [made EXCEPT ![e] = template[c]]
         /\ held' = IF passed THEN held \cup {e} ELSE held
         /\ orphans' = IF freed THEN orphans ELSE orphans \cup {e}
         /\ UNCHANGED fault

(* A script calls a method that answers with an entity: ReturnNew.         *)
ReturnNew(i, e) ==
    LET c == registered[i] IN
    /\ ScriptsRun
    /\ Reachable(i)
    /\ IF native[c] = "gone" THEN Fail("unloaded_code")
       ELSE Make(c, e, TRUE, FALSE)
    /\ UNCHANGED <<modules, sink, nativeVars, tables, global, lua, requests,
                   stop, sweep, breached>>

(* A script calls a method that yields for the event loop.                 *)
Request(i) ==
    LET c == registered[i] IN
    /\ ScriptsRun
    /\ Reachable(i)
    /\ IF native[c] = "gone"
       THEN fault' = "unloaded_code" /\ UNCHANGED requests
       ELSE requests' = requests \cup {c} /\ UNCHANGED fault
    /\ UNCHANGED <<modules, sink, nativeVars, luaVars, stop, sweep, breached>>

(* The end of a request, in the event loop.  Without an entity if there is *)
(* no fiber or archive; else VolunteerNew, whose reference FileOpenRequest *)
(* frees, passed on or not, and ZipOpenTask passes on and does not free.   *)
Complete(c) ==
    /\ Running
    /\ c \in requests
    /\ requests' = requests \ {c}
    /\ IF native[c] = "gone" THEN Fail("unloaded_code")
       ELSE \/ \E e \in Entities, passed, freed \in BOOLEAN :
                  (passed \/ freed) /\ Make(c, e, passed, freed)
            \/ UNCHANGED <<entity, made, held, orphans, fault>>
    /\ UNCHANGED <<modules, sink, nativeVars, tables, global, lua, stop, sweep, breached>>

(* Scripts let go of an entity.                                            *)
Drop(e) ==
    /\ ScriptsRun
    /\ e \in held
    /\ held' = held \ {e}
    /\ UNCHANGED <<modules, sink, nativeVars, tables, global, entity, made, orphans,
                   lua, requests, stop, sweep, fault, breached>>

-----------------------------------------------------------------------------
(* The collector.                                                          *)

(* ScriptControllerManager::OnDestroy: the flag is read from the instance, *)
(* then the controller is called.  The accessors are virtual, and nobody   *)
(* constructs the IScriptControllerEntity they belong to: the memory's     *)
(* former content decides whether they are reached.                        *)
OnDestroyOutcomes(e) ==
    LET i == made[e] IN
    {"no_vtable",
     IF object[i] = "deleted" THEN "freed_instance"
     ELSE IF i \notin killed /\ native[registered[i]] = "gone" THEN "unloaded_code"
     ELSE "none"}

(* A garbage collection comes to an entity that nothing refers to.         *)
Collect(e) ==
    /\ fault = "none"
    /\ lua = "open"
    /\ entity[e] = "live"
    /\ e \notin held \cup orphans
    /\ fault' \in OnDestroyOutcomes(e)
    /\ entity' = [entity EXCEPT ![e] = "finalized"]
    /\ UNCHANGED <<modules, sink, nativeVars, tables, global, made, held, orphans,
                   lua, requests, stop, sweep, breached>>

(* lua_close in ScriptIsolate's destructor: Luau closes the whole state    *)
(* and finalizes whatever is left.                                         *)
CloseState ==
    /\ Running
    /\ lua = "open"
    /\ Obey(Unless(modules = {}, "early_close"))
    /\ lua' = "closed"
    /\ \/ /\ \A e \in EntitiesOf(Instances) : "none" \in OnDestroyOutcomes(e)
          /\ UNCHANGED fault
       \/ \E e \in EntitiesOf(Instances) : fault' \in OnDestroyOutcomes(e) \ {"none"}
    /\ entity' = [e \in Entities |->
                     IF entity[e] = "live" THEN "finalized" ELSE entity[e]]
    /\ held' = {}
    /\ orphans' = {}
    /\ UNCHANGED <<modules, sink, nativeVars, tables, global, made, requests,
                   stop, sweep>>

-----------------------------------------------------------------------------
Init ==
    /\ modules = {}
    /\ sink = [m \in Modules |-> {}]
    /\ native = [c \in Natives |-> "none"]
    /\ template = [c \in Natives |-> None]
    /\ object = [i \in Instances |-> "none"]
    /\ killed = {}
    /\ registered = [i \in Instances |-> None]
    /\ tables = {}
    /\ global = [n \in Names |-> None]
    /\ entity = [e \in Entities |-> "none"]
    /\ made = [e \in Entities |-> None]
    /\ held = {}
    /\ orphans = {}
    /\ requests = {}
    /\ lua = "open"
    /\ stop = "running"
    /\ sweep = {}
    /\ fault = "none"
    /\ breached = {}

Next ==
    \/ \E m \in Modules :
          \/ Hello(m)
          \/ Unload(m)
          \/ \E i \in Instances : Destroy(m, i)
    \/ \E i \in Instances :
          \/ \E c \in Natives : Register(c, i)
          \/ \E e \in Entities : ReturnNew(i, e)
          \/ Request(i)
    \/ \E c \in Natives : Complete(c)
    \/ \E e \in Entities : Drop(e) \/ Collect(e)
    \/ CloseState
    \/ Stop
    \/ UnloadNext
    \/ Stopped

Spec == Init /\ [][Next]_vars

-----------------------------------------------------------------------------
(* Properties.                                                             *)

TypeOK ==
    /\ modules \subseteq Modules
    /\ sink \in [Modules -> SUBSET Instances]
    /\ native \in [Natives -> {"none", "ready", "gone"}]
    /\ template \in [Natives -> Instances \cup {None}]
    /\ object \in [Instances -> {"none", "live", "deleted"}]
    /\ killed \subseteq Instances
    /\ registered \in [Instances -> Natives \cup {None}]
    /\ tables \subseteq Instances
    /\ global \in [Names -> Instances \cup {None}]
    /\ entity \in [Entities -> {"none", "live", "finalized"}]
    /\ made \in [Entities -> Instances \cup {None}]
    /\ held \subseteq Entities
    /\ orphans \subseteq Entities
    /\ requests \subseteq Natives
    /\ lua \in {"open", "closed"}
    /\ stop \in {"running", "stopping", "stopped"}
    /\ sweep \subseteq Modules
    /\ fault \in Faults
    /\ breached \subseteq Clauses

(* Whatever scripts still reach, by a global or an entity, after any       *)
(* unloads and reloads: a metatable with methods belongs to a controller   *)
(* of a module that is loaded.                                             *)
CallsReachLoadedCode ==
    \A i \in tables : /\ native[registered[i]] = "ready"
                      /\ Owner[registered[i]] \in modules

(* Every instance that is not deleted is tracked by the one sink that will *)
(* destroy it, and no sink holds an instance that was deleted already,     *)
(* unless a module destroyed another one's.                                *)
OneOwner ==
    "foreign_destroy" \notin breached =>
        \A i \in Instances, m \in Modules :
            i \in sink[m] <=> /\ object[i] = "live"
                              /\ m = Owner[registered[i]]
                              /\ m \in modules

(* When Duo has stopped, no module, instance or callable method is left.   *)
StopLeavesNone ==
    stop = "stopped" =>
        /\ modules = {}
        /\ tables = {}
        /\ \A i \in Instances : object[i] # "live"

(* What scripts can call makes entities from an instance that exists,      *)
(* unless its controller was registered more than once.                    *)
MakesFromLiveInstance ==
    "register_twice" \notin breached =>
        \A i \in tables : /\ template[registered[i]] = i
                          /\ object[i] = "live"

(* Each other kind of undefined behaviour only follows a breach of one of  *)
(* the clauses that exclude it; a second Hello alone leads to none.        *)
FaultsExplained ==
    /\ fault = "freed_instance" =>
          breached \cap {"undrained", "pending", "foreign_destroy", "register_twice"} # {}
    /\ fault = "unloaded_code" => "pending" \in breached
    /\ fault = "closed_state" => breached \cap {"early_close", "after_close"} # {}

(* "Optional destructor that can be added to enable cleaning up an object  *)
(* before it is free" (src/public/IScriptController.h:229): the collector  *)
(* reaches the controller of the entities it collects.                     *)
DestructorsReached == fault # "no_vtable"

(* "This protects all entities from the controller being unallocated.      *)
(* (specifically, this is for dtors!)" (src/Core/Script/                   *)
(* ScriptControllers.cpp:161): the destructor of an entity that outlives   *)
(* its instance reads no freed memory.                                     *)
DtorsProtected == fault # "freed_instance"

(* "As those will cause memory leaks if they aren't freed"                 *)
(* (src/public/IModule.h:60), of references to scripting objects: an       *)
(* entity that no script can reach is not kept by a reference that no      *)
(* native code has a pointer to any more.                                  *)
OnlyOwnedRefs == orphans \subseteq held
=============================================================================
