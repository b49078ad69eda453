---------------------------- MODULE PluginFiles -----------------------------
(***************************************************************************)
(* The files of a plugin as script objects.  Import() of a file runs it in *)
(* a fiber of its own, inside the importing fiber's native call: if it     *)
(* ends there, its results are the results of Import, and if it yields the *)
(* importer waits for its end.  Whoever imports the object again while its *)
(* file runs waits for the same fiber.                                     *)
(*                                                                         *)
(* Fibers are as in FiberRuntime, reduced to what importing needs: they    *)
(* wait for a callback of the event loop or for a file, and a fiber is     *)
(* deleted when its end was not asked for by whoever called it.            *)
(***************************************************************************)
EXTENDS Integers, Sequences, FiniteSets

CONSTANTS
    Entities,  \* PluginFileEntity objects
    None,      \* stands for no object
    MaxFibers  \* bound: fibers of the isolate

ASSUME FibersAreNatural == MaxFibers \in Nat
ASSUME NoneIsNoEntity == None \notin Entities
ASSUME EntitiesAreNoFibers == Entities \intersect 1..MaxFibers = {}

VARIABLES
    lua,      \* of each fiber: running, yielded, ended, or freed
    waits,    \* what a yielded fiber waits for: a callback or a file
    deps,     \* ScriptFiber::_dependants: fibers, or objects (IFiberContinuation)
    stack,    \* the activations of ScriptFiber::Call, the last one on top
    started,  \* PluginFileEntity::_executeStarted
    finished, \* PluginFileEntity::_executeFinished
    handle,   \* the fiber that _executeHandle names, 0 before there is one
    runs,     \* history: how often the code of the file was run
    breached, \* history: an object was imported after its fiber's end
    fault     \* whether a deleted fiber was used

vars == <<lua, waits, deps, stack, started, finished, handle, runs, breached, fault>>
entities == <<started, finished, handle, runs>>

Fibers == 1..Len(lua)

(* An activation: its fiber, the object whose Import made it (None for a   *)
(* callback, a start, or a dependant's continuation), what it is at, and   *)
(* which dependants its loop is at and ends with.                          *)
Phases == {"script", "dependants", "yielded"}
Activation(f, e) == [fiber |-> f, import |-> e, phase |-> "script",
                     next |-> 1, last |-> 0]

Idle == stack = <<>> /\ ~fault
Top == stack[Len(stack)]
Below == SubSeq(stack, 1, Len(stack) - 1)
InScript == stack # <<>> /\ ~fault /\ Top.phase = "script"

TypeOK ==
    /\ lua \in Seq({"running", "yielded", "ended", "freed"})
    /\ Len(lua) <= MaxFibers
    /\ waits \in Seq({"nothing", "callback", "file"}) /\ Len(waits) = Len(lua)
    /\ deps \in Seq(Seq(Fibers \union Entities)) /\ Len(deps) = Len(lua)
    /\ stack \in Seq([fiber: Fibers, import: Entities \union {None},
                      phase: Phases, next: Nat, last: Nat])
    /\ started \in [Entities -> BOOLEAN] /\ finished \in [Entities -> BOOLEAN]
    /\ handle \in [Entities -> {0} \union Fibers]
    /\ runs \in [Entities -> Nat]
    /\ breached \in BOOLEAN /\ fault \in BOOLEAN

Init ==
    /\ lua = <<>> /\ waits = <<>> /\ deps = <<>> /\ stack = <<>>
    /\ started = [e \in Entities |-> FALSE]
    /\ finished = [e \in Entities |-> FALSE]
    /\ handle = [e \in Entities |-> 0]
    /\ runs = [e \in Entities |-> 0]
    /\ breached = FALSE /\ fault = FALSE

-----------------------------------------------------------------------------
(* A new fiber, called inside whatever runs now.                           *)
NewFiber(e) ==
    /\ Len(lua) < MaxFibers
    /\ lua' = Append(lua, "running")
    /\ waits' = Append(waits, "nothing")
    /\ deps' = Append(deps, <<>>)
    /\ stack' = Append(stack, Activation(Len(lua) + 1, e))

(* Plugin::Start.                                                          *)
Start ==
    /\ Idle
    /\ NewFiber(None)
    /\ UNCHANGED <<entities, breached, fault>>

(* A yielded fiber is continued, on top of the activations in below.       *)
Continue(f, below) ==
    /\ lua' = [lua EXCEPT ![f] = "running"]
    /\ waits' = [waits EXCEPT ![f] = "nothing"]
    /\ stack' = Append(below, Activation(f, None))

(* A timer or a request of the fiber is through.                           *)
Complete(f) ==
    /\ Idle
    /\ f \in Fibers /\ waits[f] = "callback"
    /\ Continue(f, stack)
    /\ UNCHANGED <<deps, entities, breached, fault>>

(* The fiber on top yields: its activation has only to return.             *)
YieldFor(what, below, a) ==
    /\ lua' = [lua EXCEPT ![a.fiber] = "yielded"]
    /\ waits' = [waits EXCEPT ![a.fiber] = what]
    /\ stack' = Append(below, [a EXCEPT !.phase = "yielded"])

Suspend ==
    /\ InScript
    /\ YieldFor("callback", Below, Top)
    /\ UNCHANGED <<deps, entities, breached, fault>>

(* It returns or throws; either way its dependants are next.               *)
Finish ==
    /\ InScript
    /\ lua' = [lua EXCEPT ![Top.fiber] = "ended"]
    /\ stack' = Append(Below, [Top EXCEPT !.phase = "dependants",
                                          !.last = Len(deps[Top.fiber])])
    /\ UNCHANGED <<waits, deps, entities, breached, fault>>

-----------------------------------------------------------------------------
(* Import.                                                                 *)

(* TryDepend writes into the fiber whose handle the object has, and asks   *)
(* nothing: the handle's slot is not null, whatever became of the fiber.   *)
(* That of an ended fiber moves the vector under the loop over it, or not. *)
DependOn(g, f) == deps' = [deps EXCEPT ![g] = Append(@, f)]

WaitFor(g) ==
    \/ /\ lua[g] \in {"ended", "freed"}
       /\ fault' = TRUE
       /\ UNCHANGED <<lua, waits, deps, stack>>
    \/ /\ lua[g] # "freed"
       /\ DependOn(g, Top.fiber)
       /\ YieldFor("file", Below, Top)
       /\ UNCHANGED fault

(* A finished object pushes the results it keeps, an executing one makes   *)
(* the caller wait.                                                        *)
ImportAgain(e) ==
    /\ InScript /\ started[e]
    /\ IF finished[e]
         THEN UNCHANGED <<lua, waits, deps, stack, breached, fault>>
         ELSE /\ breached' = (breached \/ lua[handle[e]] \in {"ended", "freed"})
              /\ WaitFor(handle[e])
    /\ UNCHANGED entities

(* Mutant of ImportFirst: _executeStarted is not set.                      *)
MutImportFirstUnmarked(e) ==
    /\ InScript /\ ~started[e]
    /\ NewFiber(e)
    /\ handle' = [handle EXCEPT ![e] = Len(lua) + 1]
    /\ runs' = [runs EXCEPT ![e] = @ + 1]
    /\ UNCHANGED <<started, finished, breached, fault>>

(* The handle and the mark are there before the file runs, which may       *)
(* import itself.  A file that cannot be read or loaded is an error before *)
(* anything has changed, and scripts may catch it.                         *)
ImportFirst(e) ==
    /\ InScript /\ ~started[e]
    /\ NewFiber(e)
    /\ started' = [started EXCEPT ![e] = TRUE]
    /\ handle' = [handle EXCEPT ![e] = Len(lua) + 1]
    /\ runs' = [runs EXCEPT ![e] = @ + 1]
    /\ UNCHANGED <<finished, breached, fault>>

FreeFiber(g) ==
    /\ lua' = [lua EXCEPT ![g] = "freed"]
    /\ deps' = [deps EXCEPT ![g] = <<>>]
    /\ UNCHANGED waits

(* Mutant of ReturnToImport: the importer yields without depending.        *)
MutReturnForgets ==
    LET g == Top.fiber  importer == Below[Len(Below)]
    IN  \/ /\ lua[g] = "yielded"
           /\ YieldFor("file", SubSeq(Below, 1, Len(Below) - 1), importer)
           /\ UNCHANGED deps
        \/ /\ lua[g] = "ended"
           /\ FreeFiber(g)
           /\ stack' = Below

(* Mutant of ReturnToImport: the file's fiber is deleted in any case.      *)
MutReturnDeletes ==
    /\ FreeFiber(Top.fiber)
    /\ stack' = Below

(* The rest of that Import once the file's Call(true) has returned: its    *)
(* fiber has yielded, or has ended and is deleted here.                    *)
ReturnToImport ==
    LET g == Top.fiber  importer == Below[Len(Below)]
    IN  \/ /\ lua[g] = "yielded"
           /\ DependOn(g, importer.fiber)
           /\ YieldFor("file", SubSeq(Below, 1, Len(Below) - 1), importer)
        \/ /\ lua[g] = "ended"
           /\ FreeFiber(g)
           /\ stack' = Below

-----------------------------------------------------------------------------
(* The end of ScriptFiber::Call.                                           *)

Returning ==
    /\ stack # <<>> /\ ~fault
    /\ \/ Top.phase = "yielded"
       \/ Top.phase = "dependants" /\ Top.next > Top.last

(* PluginFileEntity::Continue: an object that depends on a fiber keeps its *)
(* results.                                                                *)
KeepResults(e) == finished' = [finished EXCEPT ![e] = TRUE]

(* One turn of Call's loop.  A fiber among the dependants is continued, an *)
(* object would keep the results, but Import never gives itself to         *)
(* TryDepend.  Nothing asks whether the fiber is still there.              *)
ContinueDependant ==
    /\ stack # <<>> /\ ~fault
    /\ Top.phase = "dependants" /\ Top.next <= Top.last
    /\ LET d == deps[Top.fiber][Top.next]
           below == Append(Below, [Top EXCEPT !.next = @ + 1])
       IN  IF d \in Entities
             THEN /\ KeepResults(d)
                  /\ stack' = below
                  /\ UNCHANGED <<lua, waits, fault>>
             ELSE /\ Continue(d, below)
                  /\ fault' = (lua[d] = "freed")
                  /\ UNCHANGED finished
    /\ UNCHANGED <<deps, started, handle, runs, breached>>

(* Mutant of Return: a fiber that has ended is not deleted.                *)
MutReturnKeeps ==
    /\ Returning
    /\ \/ /\ Top.import # None
          /\ ReturnToImport
       \/ /\ Top.import = None
          /\ stack' = Below
          /\ UNCHANGED <<lua, waits, deps>>
    /\ UNCHANGED <<entities, breached, fault>>

Return ==
    /\ Returning
    /\ \/ /\ Top.import # None
          /\ ReturnToImport
       \/ /\ Top.import = None
          /\ stack' = Below
          /\ \/ /\ lua[Top.fiber] = "yielded"
                /\ UNCHANGED <<lua, waits, deps>>
             \/ /\ lua[Top.fiber] = "ended"
                /\ FreeFiber(Top.fiber)
    /\ UNCHANGED <<entities, breached, fault>>

Next ==
    \/ Start \/ Suspend \/ Finish \/ ContinueDependant \/ Return
    \/ \E f \in 1..MaxFibers : Complete(f)
    \/ \E e \in Entities : ImportAgain(e) \/ ImportFirst(e)

Spec == Init /\ [][Next]_vars

(* Native code runs on; a script ends its run; the loop answers.           *)
Fairness ==
    /\ WF_vars(ContinueDependant) /\ WF_vars(Return)
    /\ SF_vars(Suspend \/ Finish)
    /\ \A f \in 1..MaxFibers : SF_vars(Complete(f))

FairSpec == Spec /\ Fairness
-----------------------------------------------------------------------------
(* Properties.                                                             *)

(* A deleted fiber is used only after a script has imported an object      *)
(* whose file had ended (PluginFileController::Import, TryDepend through   *)
(* _executeHandle): those that Import makes wait are all there when their  *)
(* file ends, and Call(true)'s fiber is there for as long as it waits.     *)
FaultOnlyAfterBreach == fault => breached

(* The code of a file is run at most once for each object, also when the   *)
(* file imports itself or two fibers import it at the same time            *)
(* (_executeStarted is set before Call).                                   *)
RunsOnce == TypeOK /\ \A e \in Entities : runs[e] <= 1

(* The dependants of g that its loop has yet to continue.                  *)
Outstanding(g) ==
    {i \in DOMAIN deps[g] :
       \A k \in DOMAIN stack :
         stack[k].fiber = g /\ stack[k].phase = "dependants" =>
           i \in stack[k].next..stack[k].last}

(* Until then, whoever waits for a file is in exactly one list that will   *)
(* still be walked, once, and no running fiber or one that waits for a     *)
(* callback is in any: no importer is forgotten and none is continued in   *)
(* the middle of something else (Import, Call's loop over _dependants).    *)
ImportersWait ==
    ~breached =>
      \A f \in Fibers :
        LET places == UNION {{<<g, i>> : i \in {j \in Outstanding(g) : deps[g][j] = f}} :
                               g \in Fibers}
        IN  Cardinality(places) = IF waits[f] = "file" THEN 1 ELSE 0

(* A fiber that has ended gets through its dependants, whatever those do   *)
(* when they are continued, and is deleted: by its importer or by itself   *)
(* (ScriptFiber::Call, PluginFileController::Import).                      *)
EndIsReached ==
    \A g \in 1..MaxFibers :
      (g \in Fibers /\ lua[g] = "ended") ~> (breached \/ (g \in Fibers => lua[g] = "freed"))

(* "If this file has been executed, the results will be here": importing   *)
(* an object again never needs the fiber of a file that has ended.  It     *)
(* does not hold: nothing ever stores results.                             *)
ResultsAreKept == ~fault
=============================================================================
