---------------------------- MODULE FiberRuntime ----------------------------
(***************************************************************************)
(* The fibers of one isolate: ScriptFiber, FiberHandle, the Fiber          *)
(* controller, require() and the completions the event loop delivers.      *)
(*                                                                         *)
(* Everything here runs on the game thread.  A fiber is a Luau thread that *)
(* runs from ScriptFiber::Call until it yields or ends, and Call nests: a  *)
(* running fiber that creates or resumes another one waits, inside its     *)
(* native call, for that Call to return.  `stack` is that nesting of       *)
(* ScriptFiber::Call activations.                                          *)
(*                                                                         *)
(* The code keeps raw pointers and trusts scripts to use them well, so the *)
(* model has two more variables.  `fault` is the undefined behaviour the   *)
(* program has run into, after which nothing is modelled.  `breached` is a *)
(* history variable: some script call did not keep the usage contract      *)
(* below.  With Disciplined = TRUE scripts keep the contract.              *)
(***************************************************************************)
EXTENDS Integers, Sequences

CONSTANTS
    MaxFibers,   \* fibers an isolate creates in a behaviour (bounds _fibers)
    MaxPending,  \* unfinished requests of one kind a fiber may have
    MaxDeps,     \* dependants a fiber may have (bounds _dependants)
    Api,         \* the native calls scripts use
    Disciplined  \* whether scripts keep the usage contract

ApiCalls == {"New", "Await", "Sleep", "File", "Zip", "Resume", "Depend", "require"}

ASSUME MaxFibersAssumption == MaxFibers \in Nat \ {0}
ASSUME MaxPendingAssumption == MaxPending \in Nat \ {0}
ASSUME MaxDepsAssumption == MaxDeps \in Nat \ {0}
ASSUME ApiAssumption == Api \subseteq ApiCalls
ASSUME DisciplinedAssumption == Disciplined \in BOOLEAN

Fibers == 1 .. MaxFibers

Kinds == {"timer", "file", "zip"}

LuaStates ==
    {"empty",      \* no frame and no value: new, failed, killed, or ended bare
     "leftover",   \* ended, its results still on the Lua stack
     "suspended",  \* yielded
     "running"}    \* inside lua_resume

(* How a ScriptFiber::Call was reached: from Plugin::Start or the event    *)
(* loop, Fiber.New, Fiber:Resume, require(), or a finished fiber's list.   *)
Vias == {"host", "new", "resume", "require", "dependant"}

Phases ==
    {"run",    \* inside lua_resume
     "yield",  \* lua_resume returned LUA_YIELD
     "deps"}   \* lua_resume returned anything else: the dependants' loop

Frames == [fiber : Fibers, via : Vias, phase : Phases, upto : Nat]

Faults == {"none", "use_after_free", "reset_running", "spent_handle",
           "iterator_invalidated"}

VARIABLES
    slots,      \* _fibers.size(): fiber f is slot f - 1
    freed,      \* fibers whose ScriptFiber was deleted
    lua,        \* the state of each fiber's lua_State
    pending,    \* requests that will continue a fiber when they complete
    deps,       \* _dependants: the fibers whose handles TryDepend was given
    continued,  \* how many of those handles Continue was called on
    stack,      \* the nested ScriptFiber::Call activations
    shared,     \* fibers scripts hold a Fiber entity of
    killed,     \* history: fibers that ScriptFiber::Kill ended
    fault,
    breached

vars == <<slots, freed, lua, pending, deps, continued, stack, shared, killed,
          fault, breached>>

-----------------------------------------------------------------------------
(* State functions.                                                        *)

(* FiberHandle::Exists.  A slot is filled when the fiber is created and no *)
(* code empties it again.                                                  *)
Exists(f) == f \in 1 .. slots

Live(f) == Exists(f) /\ f \notin freed

Ended(f) == Exists(f) /\ (f \in freed \/ lua[f] \in {"empty", "leftover"})

Top == stack[Len(stack)]

Below == SubSeq(stack, 1, Len(stack) - 1)

Idle == fault = "none" /\ stack = <<>>

InCall == fault = "none" /\ stack # <<>>

(* f executes script code: no activation is nested inside its own.         *)
Executing(f) == InCall /\ Top.fiber = f /\ Top.phase = "run"

NoPending(f) == \A k \in Kinds : pending[f][k] = 0

(* d waits for t to end.                                                   *)
WaitsFor(d, t) == \E i \in continued[t] + 1 .. Len(deps[t]) : deps[t][i] = d

(* f yielded and nothing but a Fiber:Resume is going to continue it.       *)
Awaiting(f) ==
    /\ f \notin freed
    /\ lua[f] = "suspended"
    /\ NoPending(f)
    /\ \A t \in Fibers : ~WaitsFor(f, t)

(* The `use` argument of Call: its caller keeps the fiber.                 *)
KeepsFiber(via) == via \in {"resume", "require"}

Frame(f, via, phase, upto) ==
    [fiber |-> f, via |-> via, phase |-> phase, upto |-> upto]

Put(frame, phase, upto) == Frame(frame.fiber, frame.via, phase, upto)

TopIn(phase, upto) == Append(Below, Put(Top, phase, upto))

-----------------------------------------------------------------------------
(* The usage contract.  A call that breaks it still happens, unless        *)
(* Disciplined, and is remembered.                                         *)
Obey(ok) ==
    /\ Disciplined => ok
    /\ breached' = (breached \/ ~ok)

(* Fiber:Resume continues a fiber parked by Fiber.Await, nothing else.     *)
MayResume(t) == Awaiting(t)

(* Fiber:Depend waits for another fiber that has not ended.                *)
MayDepend(f, t) == t # f /\ t \notin freed /\ lua[t] \in {"suspended", "running"}

(* The module run by require() yields before it ends.                      *)
MayFinish == Top.via # "require"

-----------------------------------------------------------------------------
(* Pieces of ScriptFiber::Call.                                            *)

Fail(kind) ==
    /\ fault' = kind
    /\ UNCHANGED <<lua, stack>>

(* lua_resume returned a status other than LUA_YIELD.  The handles that    *)
(* Continue was called on delete themselves, but stay in _dependants: a    *)
(* fiber that concludes again uses them again.                             *)
Conclude(f, left, newStack) ==
    IF continued'[f] > 0
    THEN Fail("spent_handle")
    ELSE /\ lua' = [lua EXCEPT ![f] = left]
         /\ stack' = newStack
         /\ UNCHANGED fault

Run(f, via) ==
    /\ lua' = [lua EXCEPT ![f] = "running"]
    /\ stack' = Append(stack, Frame(f, via, "run", 0))
    /\ UNCHANGED fault

(* Call on the fiber in slot f.  Lua runs a yielded thread on.  It refuses *)
(* to resume a running one, and Call answers by resetting that thread.  On *)
(* a thread that has ended it calls the last value left on the stack, or   *)
(* fails when there is none or the value is not a function.                *)
Enter(f, via) ==
    IF f \in freed THEN Fail("use_after_free")
    ELSE \/ lua[f] = "running" /\ Fail("reset_running")
         \/ lua[f] \in {"suspended", "leftover"} /\ Run(f, via)
         \/ /\ lua[f] \in {"empty", "leftover"}
            /\ Conclude(f, "empty",
                        Append(stack, Frame(f, via, "deps", Len(deps[f]))))

-----------------------------------------------------------------------------
(* The host.                                                               *)

(* Plugin::Start: a new fiber for the plugin's entry point.                *)
Start ==
    /\ Idle
    /\ slots = 0
    /\ slots' = 1
    /\ Run(1, "host")
    /\ UNCHANGED <<freed, pending, deps, continued, shared, killed, breached>>

(* Mutant of Complete: the timer repeats, the callback stays registered.    *)
CompleteRepeatedly(f, k) ==
    /\ Idle
    /\ pending[f][k] > 0
    /\ continued' = continued
    /\ Enter(f, "host")
    /\ UNCHANGED <<slots, freed, pending, deps, shared, killed, breached>>

(* Mutant of Complete: a callback returns early and continues nothing.      *)
CompleteWithoutCall(f, k) ==
    /\ Idle
    /\ pending[f][k] > 0
    /\ pending' = [pending EXCEPT ![f][k] = @ - 1]
    /\ UNCHANGED <<slots, freed, lua, deps, continued, stack, shared, killed,
                   fault, breached>>

(* The event loop delivers a timer's expiry, a file request's result or an *)
(* opened archive to the fiber that waits for it.                          *)
Complete(f, k) ==
    /\ Idle
    /\ pending[f][k] > 0
    /\ pending' = [pending EXCEPT ![f][k] = @ - 1]
    /\ continued' = continued
    /\ Enter(f, "host")
    /\ UNCHANGED <<slots, freed, deps, shared, killed, breached>>

(* The archive could not be opened: ZipOpenTask::Finish kills the fiber.   *)
ZipFails(f) ==
    /\ Idle
    /\ pending[f]["zip"] > 0
    /\ pending' = [pending EXCEPT ![f]["zip"] = @ - 1]
    /\ IF f \in freed
       THEN Fail("use_after_free") /\ UNCHANGED killed
       ELSE /\ lua' = [lua EXCEPT ![f] = "empty"]
            /\ killed' = killed \cup {f}
            /\ UNCHANGED <<stack, fault>>
    /\ UNCHANGED <<slots, freed, deps, continued, shared, breached>>

-----------------------------------------------------------------------------
(* Native calls of the executing script.                                   *)

(* Mutant of Yield: Call takes LUA_YIELD for an end and goes on to the      *)
(* dependants.                                                             *)
YieldAsEnd(f) ==
    /\ lua' = [lua EXCEPT ![f] = "suspended"]
    /\ stack' = TopIn("deps", Len(deps[f]))
    /\ UNCHANGED fault

(* The native function returned Await(): the thread yields.                *)
Yield(f) ==
    /\ lua' = [lua EXCEPT ![f] = "suspended"]
    /\ stack' = TopIn("yield", 0)
    /\ UNCHANGED fault

(* Fiber.New: create a fiber and run it until it yields or ends.           *)
New(f) ==
    /\ "New" \in Api
    /\ Executing(f)
    /\ slots < MaxFibers
    /\ slots' = slots + 1
    /\ Run(slots + 1, "new")
    /\ UNCHANGED <<freed, pending, deps, continued, shared, killed, breached>>

(* Fiber.Await.                                                            *)
Await(f) ==
    /\ "Await" \in Api
    /\ Executing(f)
    /\ Yield(f)
    /\ UNCHANGED <<slots, freed, pending, deps, continued, shared, killed, breached>>

(* Fiber.Sleep, the file requests and Zip.Open: start a request that       *)
(* completes from the event loop, and yield.                               *)
Request(f, call, k) ==
    /\ call \in Api
    /\ Executing(f)
    /\ pending[f][k] < MaxPending
    /\ pending' = [pending EXCEPT ![f][k] = @ + 1]
    /\ Yield(f)
    /\ UNCHANGED <<slots, freed, deps, continued, shared, killed, breached>>

Sleep(f) == Request(f, "Sleep", "timer")
FileRequest(f) == Request(f, "File", "file")
ZipOpen(f) == Request(f, "Zip", "zip")

(* Fiber:Resume: continue another fiber and wait for it to yield or end.   *)
Resume(f, t) ==
    /\ "Resume" \in Api
    /\ Executing(f)
    /\ t \in shared
    /\ Exists(t)
    /\ Obey(MayResume(t))
    /\ continued' = continued
    /\ Enter(t, "resume")
    /\ UNCHANGED <<slots, freed, pending, deps, shared, killed>>

(* _dependants.push_back while the loop over that vector is in progress    *)
(* may move its elements from under the loop.                              *)
Iterating(t) ==
    \E i \in 1 .. Len(stack) : stack[i].fiber = t /\ stack[i].phase = "deps"

(* Fiber:Depend: have another fiber's end continue this one, and yield.    *)
Depend(f, t) ==
    /\ "Depend" \in Api
    /\ Executing(f)
    /\ t \in shared
    /\ Exists(t)
    /\ Len(deps[t]) < MaxDeps
    /\ Obey(MayDepend(f, t))
    /\ \/ /\ t \in freed
          /\ Fail("use_after_free")
          /\ UNCHANGED deps
       \/ /\ t \notin freed
          /\ Iterating(t)
          /\ Fail("iterator_invalidated")
          /\ UNCHANGED deps
       \/ /\ t \notin freed
          /\ deps' = [deps EXCEPT ![t] = Append(@, f)]
          /\ Yield(f)
    /\ UNCHANGED <<slots, freed, pending, continued, shared, killed>>

(* require(): run the module in a new fiber whose end continues this one.  *)
(* The requiring thread yields only after that Call has returned.          *)
Require(f) ==
    /\ "require" \in Api
    /\ Executing(f)
    /\ slots < MaxFibers
    /\ slots' = slots + 1
    /\ deps' = [deps EXCEPT ![slots + 1] = Append(@, f)]
    /\ Run(slots + 1, "require")
    /\ UNCHANGED <<freed, pending, continued, shared, killed, breached>>

(* Mutant of Finish: Call returns after OnError, before the dependants.     *)
FinishSkippingOnError(f) ==
    /\ Executing(f)
    /\ Obey(MayFinish)
    /\ continued' = continued
    /\ \/ Conclude(f, "leftover", TopIn("deps", Len(deps[f])))
       \/ Conclude(f, "empty", TopIn("deps", 0))
    /\ UNCHANGED <<slots, freed, pending, deps, shared, killed>>

(* The script returns (with or without results) or throws.                 *)
Finish(f) ==
    /\ Executing(f)
    /\ Obey(MayFinish)
    /\ continued' = continued
    /\ \E left \in {"empty", "leftover"} :
          Conclude(f, left, TopIn("deps", Len(deps[f])))
    /\ UNCHANGED <<slots, freed, pending, deps, shared, killed>>

-----------------------------------------------------------------------------
(* The rest of ScriptFiber::Call.                                          *)

(* FiberHandle::Continue on the next dependant.                            *)
ContinueDependant ==
    /\ InCall
    /\ Top.phase = "deps"
    /\ continued[Top.fiber] < Top.upto
    /\ continued' = [continued EXCEPT ![Top.fiber] = @ + 1]
    /\ Enter(deps[Top.fiber][continued[Top.fiber] + 1], "dependant")
    /\ UNCHANGED <<slots, freed, pending, deps, shared, killed, breached>>

(* Mutant of Return: require() does not yield after its Call.               *)
ReturnIntoRequire ==
    /\ InCall
    /\ \/ Top.phase = "yield"
       \/ Top.phase = "deps" /\ continued[Top.fiber] >= Top.upto
    /\ freed' = IF Top.phase = "deps" /\ ~KeepsFiber(Top.via)
                THEN freed \cup {Top.fiber} ELSE freed
    /\ shared' = IF Top.via = "new" THEN shared \cup {Top.fiber} ELSE shared
    /\ stack' = Below
    /\ UNCHANGED <<slots, lua, pending, deps, continued, killed, fault, breached>>

(* Call returns, deleting a finished fiber that its caller does not keep.  *)
(* Back in Fiber.New the entity goes to the script; back in require() the  *)
(* requiring thread yields.                                                *)
Return ==
    /\ InCall
    /\ \/ Top.phase = "yield"
       \/ Top.phase = "deps" /\ continued[Top.fiber] >= Top.upto
    /\ freed' = IF Top.phase = "deps" /\ ~KeepsFiber(Top.via)
                THEN freed \cup {Top.fiber} ELSE freed
    /\ shared' = IF Top.via = "new" THEN shared \cup {Top.fiber} ELSE shared
    /\ IF Top.via = "require"
       THEN LET up == Len(stack) - 1 IN
            /\ stack' = [Below EXCEPT ![up] = Put(stack[up], "yield", 0)]
            /\ lua' = [lua EXCEPT ![stack[up].fiber] = "suspended"]
       ELSE stack' = Below /\ lua' = lua
    /\ UNCHANGED <<slots, pending, deps, continued, killed, fault, breached>>

-----------------------------------------------------------------------------

Init ==
    /\ slots = 0
    /\ freed = {}
    /\ lua = [f \in Fibers |-> "empty"]
    /\ pending = [f \in Fibers |-> [k \in Kinds |-> 0]]
    /\ deps = [f \in Fibers |-> <<>>]
    /\ continued = [f \in Fibers |-> 0]
    /\ stack = <<>>
    /\ shared = {}
    /\ killed = {}
    /\ fault = "none"
    /\ breached = FALSE

(* The event loop answers a request of f, one way or the other.            *)
Answer(f) == ZipFails(f) \/ \E k \in Kinds : Complete(f, k)

(* The ways the executing script of f gives control back.                  *)
SegmentEnds(f) ==
    \/ Await(f)
    \/ Sleep(f)
    \/ FileRequest(f)
    \/ ZipOpen(f)
    \/ \E t \in Fibers : Depend(f, t)
    \/ Finish(f)

Next ==
    \/ Start
    \/ \E f \in Fibers : Answer(f)
    \/ \E f \in Fibers : New(f)
    \/ \E f \in Fibers : SegmentEnds(f)
    \/ \E f, t \in Fibers : Resume(f, t)
    \/ \E f \in Fibers : Require(f)
    \/ ContinueDependant
    \/ Return

Spec == Init /\ [][Next]_vars

(* A request that was started is answered: the loop is run once per game   *)
(* frame and libuv loses no request.  No script runs for ever without      *)
(* yielding.  Native code always goes on.                                  *)
Fairness ==
    /\ WF_vars(ContinueDependant \/ Return)
    /\ \A f \in Fibers : SF_vars(SegmentEnds(f)) /\ SF_vars(Answer(f))

FairSpec == Spec /\ Fairness

-----------------------------------------------------------------------------
(* Properties.                                                             *)

(* Every variable keeps its type; slots and requests stay within bounds.   *)
TypeOK ==
    /\ slots \in 0 .. MaxFibers
    /\ freed \subseteq Fibers
    /\ lua \in [Fibers -> LuaStates]
    /\ pending \in [Fibers -> [Kinds -> 0 .. MaxPending]]
    /\ deps \in [Fibers -> Seq(Fibers)]
    /\ continued \in [Fibers -> Nat]
    /\ stack \in Seq(Frames)
    /\ shared \subseteq Fibers
    /\ killed \subseteq Fibers
    /\ fault \in Faults
    /\ breached \in BOOLEAN

(* Native code meets undefined behaviour (a deleted ScriptFiber or handle, *)
(* a running thread reset, a vector changed under its iterator) only after *)
(* a script broke the usage contract: Call, Continue, Resume and Depend    *)
(* check nothing, so all of it rests on who may be continued when.         *)
FaultOnlyAfterBreach == fault # "none" => breached

(* The dependants still to be continued, as places in the lists.           *)
Queued == {p \in Fibers \X (1 .. MaxDeps) :
              p[2] > continued[p[1]] /\ p[2] <= Len(deps[p[1]])}

(* At most one thing is ever going to continue a fiber: one request, or    *)
(* one other fiber's end.  A second one would find the fiber ended and     *)
(* deleted, since ThreadResumer, FileRequest and Continue test only that   *)
(* the slot is not null.                                                   *)
OneWaker ==
    ~breached =>
        /\ \A f \in Fibers, k, m \in Kinds :
              pending[f][k] > 0 /\ pending[f][m] > 0 => k = m /\ pending[f][k] = 1
        /\ \A p \in Queued : NoPending(deps[p[1]][p[2]])
        /\ \A p, q \in Queued : deps[p[1]][p[2]] = deps[q[1]][q[2]] => p = q

(* When a fiber has ended and its Call has returned, every fiber that      *)
(* waited for it has been continued, unless it was killed.                 *)
NoForgottenDependant ==
    ~breached =>
        \A f \in Fibers :
            /\ Ended(f)
            /\ f \notin killed
            /\ \A i \in 1 .. Len(stack) : stack[i].fiber # f
            => continued[f] = Len(deps[f])

(* A fiber that waits for a request runs again, or is killed by it.        *)
RequestsAnswered ==
    \A f \in Fibers :
        ~NoPending(f) ~> (lua[f] = "running" \/ f \in killed)

(* A fiber that depends on another runs again once that one has ended of   *)
(* itself.                                                                 *)
DependantsContinued ==
    \A d, t \in Fibers :
        (WaitsFor(d, t) /\ Ended(t) /\ t \notin killed) ~> (lua[d] = "running")

(* "A weak reference that will dissolve when the fiber ends"               *)
(* (IFiberHandle from ToHandle, public/IScript.h:83).                      *)
HandleDissolves == \A f \in Fibers : Exists(f) => f \notin freed

(* "The other fiber should already be yielded" (TryDepend,                 *)
(* public/IScript.h:109), when its turn to be continued comes.             *)
DependantsAreYielded ==
    InCall /\ Top.phase = "deps" /\ continued[Top.fiber] < Top.upto
        => lua[deps[Top.fiber][continued[Top.fiber] + 1]] # "running"

(* "This does the same logic as an error within the fiber" (Kill,          *)
(* ScriptFiber.h:33): the killed fiber's dependants are continued.         *)
KillContinuesDependants ==
    Idle => \A f \in killed : continued[f] = Len(deps[f])
=============================================================================
