------------------------------ MODULE CallFrames ------------------------------
(***************************************************************************)
(* The values that fibers hand to each other: ScriptCall and the Lua       *)
(* stacks it indexes, ScriptFiber::Call, FiberHandle::Continue and the     *)
(* Fiber controller.                                                       *)
(*                                                                         *)
(* A ScriptCall has no values of its own.  It is a cursor into the stack   *)
(* of its fiber: has_self, the number of values Lua left there             *)
(* (stack_push) and the number native code put on top (stack_pop).  The    *)
(* same object serves three purposes in turn: the arguments of a native    *)
(* call, the values to continue a fiber with, and what a fiber left when   *)
(* it stopped.                                                             *)
(*                                                                         *)
(* Who may continue whom is the subject of FiberRuntime; here scripts keep *)
(* its usage contract.  `handed` and `left` are history variables.         *)
(***************************************************************************)
EXTENDS Integers, Sequences

CONSTANTS
    Fibers,
    Numbers,   \* numbers that scripts pass on
    Objects,   \* entities of other controllers that scripts pass on
    MaxArgs    \* values passed at once, self not counted

(* Values with a meaning of their own.                                     *)
Self == "self"          \* the controller or entity a method is called on
Method == "method"      \* the function of a new fiber
Entity == "entity"      \* the FiberEntity that Fiber.New answers with
Nil == "nil"
Yes == "true"
No == "false"
Message == "message"    \* what a failing script threw
Stale == "stale"        \* what happens to be in the slot above the top
NoError == "no error"   \* GetError() when there seems to be none

Special == {Self, Method, Entity, Nil, Yes, No, Message, Stale, NoError}

ASSUME ValuesAssumption == (Numbers \cup Objects) \cap Special = {}
ASSUME MaxArgsAssumption == MaxArgs \in Nat

Values == Numbers \cup Objects

Lists == UNION {[1 .. n -> Values] : n \in 0 .. MaxArgs}

(* The native calls, of the Fiber controller and of a module that reads    *)
(* its arguments.                                                          *)
Natives == {"New", "Resume", "Await", "Sleep", "Depend", "Ask", "AskEntity"}

(* How a fiber came to run, and what a yielded one waits for.              *)
Vias == {"host", "new", "resume", "dependant"}
States ==
    Natives \cup {"fresh", "script", "yielded", "ended", "failed", "freed"}
Reasons == {"nothing", "resume", "loop", "fiber"}

VARIABLES
    doing,    \* what each fiber is at, one of States
    waits,    \* what a yielded fiber waits for
    stack,    \* the values of the frame that native code indexes
    call,     \* the ScriptCall of each fiber
    first,    \* first_invoke, as the number that Call subtracts
    deps,     \* _dependants that the loop in Call has yet to continue
    active,   \* the activations of ScriptFiber::Call
    handed,   \* the last values that changed hands: how, as given, as got
    left      \* what the script of a fiber returned or yielded last

vars == <<doing, waits, stack, call, first, deps, active, handed, left>>

-----------------------------------------------------------------------------
(* The Lua stack of a frame.                                               *)

(* index2addr: index 0 is the top itself, beyond the top there is nil.     *)
At(s, i) == IF i = 0 THEN Stale ELSE IF i \in 1 .. Len(s) THEN s[i] ELSE Nil

(* What lua_resume, lua_yield and a returning native function take.        *)
Topmost(s, n) == SubSeq(s, Len(s) - n + 1, Len(s))

(* Mutant of SetupCall: self is not counted.                               *)
SetupCallWithoutSelf(argc, c) ==
    [self |-> 1, push |-> argc - 1, pop |-> 0, failed |-> c.failed]

(* Before a native call, and before a fiber is continued (argc is -1).     *)
SetupCall(argc, c) ==
    [self |-> 1, push |-> argc, pop |-> 0, failed |-> c.failed]

(* Mutant of SetupReturn: has_self is not reset.                           *)
SetupReturnWithSelf(argc, failed) ==
    [self |-> 1, push |-> argc, pop |-> 0, failed |-> failed]

(* SetupReturn; the flag stands for last_status.                           *)
SetupReturn(argc, failed) ==
    [self |-> 0, push |-> argc, pop |-> 0, failed |-> failed]

(* Mutant of VarArgs: the loop stops before the length.                    *)
VarArgsBelow(f, after) ==
    [k \in 1 .. call[f].push - after |-> At(stack[f], after + k - 1 + call[f].self)]

(* The values that PushVarArgs copies: up to and including GetLength().    *)
VarArgs(f, after) ==
    [k \in 1 .. call[f].push - after + 1 |->
        At(stack[f], after + k - 1 + call[f].self)]

(* GetError(), of a fiber that stopped.                                    *)
ErrorOf(f) ==
    IF call[f].push # 1 THEN NoError
    ELSE IF stack[f] = <<>> THEN Nil ELSE stack[f][Len(stack[f])]

(* A typed accessor, for numbers, of the frame s with cursor c: the slot   *)
(* is compared before self is counted.                                     *)
ArgNumber(s, c, slot) ==
    LET value == At(s, slot + c.self) IN
    IF slot <= c.push /\ value \in Numbers THEN <<value>> ELSE <<>>

(* ArgOpaqueEntity tests the slot and reads the first value.               *)
ArgEntity(s, c, slot) ==
    IF slot <= c.push /\ At(s, slot + c.self) \in Objects THEN <<At(s, 1)>> ELSE <<>>

-----------------------------------------------------------------------------
Idle == active = <<>>   \* no script runs

Runs(f) == active # <<>> /\ active[Len(active)].fiber = f

(* Where Call goes on after lua_resume.                                    *)
Stopped(f) == Runs(f) /\ doing[f] \in {"yielded", "ended", "failed"}

(* The history of what changed hands.                                      *)
Hand(how, given, got, slot) ==
    handed' = [how |-> how, given |-> given, got |-> got, slot |-> slot]

(* TryContinue or TrySetup of g, the pushes and lua_resume; `given` is     *)
(* what g should get.                                                      *)
Enter(g, via, given, pushes) ==
    /\ doing' = [doing EXCEPT ![g] = "script"]
    /\ waits' = [waits EXCEPT ![g] = "nothing"]
    /\ call' = [call EXCEPT ![g] = [SetupCall(-1, @) EXCEPT !.pop = Len(pushes)]]
    /\ stack' = [stack EXCEPT ![g] = <<>>]
    /\ first' = [first EXCEPT ![g] = 0]
    /\ active' = Append(active, [fiber |-> g, via |-> via])
    /\ Hand(via, given, Topmost(stack[g] \o pushes, Len(pushes) - first[g]), 0)
    /\ UNCHANGED left

(* The host starts a plugin, or the event loop brings what a fiber asked.  *)
Start(g) ==
    /\ Idle
    /\ doing[g] = "fresh"
    /\ Enter(g, "host", <<>>, <<Method>>)
    /\ UNCHANGED deps

Complete(g, values) ==
    /\ Idle
    /\ waits[g] = "loop"
    /\ Enter(g, "host", values, values)
    /\ UNCHANGED deps

-----------------------------------------------------------------------------
(* Native calls.                                                           *)

(* A script calls native code: ScriptVM::CFunction up to the delegate.     *)
CallNative(f, native, args) ==
    /\ Runs(f)
    /\ doing[f] = "script"
    /\ doing' = [doing EXCEPT ![f] = native]
    /\ stack' = [stack EXCEPT ![f] = <<Self>> \o args]
    /\ call' = [call EXCEPT ![f] = SetupCall(1 + Len(args), @)]
    /\ UNCHANGED <<waits, first, deps, active, handed, left>>

(* With(function, S, value): the function with the value for all of S.     *)
With(function, S, value) ==
    [f \in Fibers |-> IF f \in S THEN value ELSE function[f]]

(* What Lua gets back: the topmost values, as many as were pushed.  Before *)
(* that a fiber may be deleted, which resets its thread.                   *)
Answer(f, how, given, pushes, slot, deleted) ==
    /\ doing' = [With(doing, deleted, "freed") EXCEPT ![f] = "script"]
    /\ stack' = With(stack, deleted \cup {f}, <<>>)
    /\ left' = With(left, deleted, <<>>)
    /\ call' = [call EXCEPT ![f].pop = Len(pushes)]
    /\ Hand(how, given, Topmost(stack[f] \o pushes, Len(pushes)), slot)
    /\ UNCHANGED <<waits, first, deps>>

(* An error of the native call, which the script may catch.                *)
Error(f) ==
    /\ doing' = [doing EXCEPT ![f] = "script"]
    /\ stack' = [stack EXCEPT ![f] = <<>>]
    /\ UNCHANGED <<waits, call, first, deps, active, handed, left>>

(* Await: lua_yield with what was pushed, then Call's SetupReturn.         *)
YieldFor(f, reason) ==
    /\ doing' = [doing EXCEPT ![f] = "yielded"]
    /\ waits' = [waits EXCEPT ![f] = reason]
    /\ stack' = [stack EXCEPT ![f] = Topmost(@, call[f].pop)]
    /\ call' = [call EXCEPT ![f] = SetupReturn(call[f].pop, FALSE)]
    /\ left' = [left EXCEPT ![f] = <<>>]
    /\ UNCHANGED <<first, active, handed>>

InNative(f, native) == Runs(f) /\ doing[f] = native

Arguments(f) == \* without self
    Tail(stack[f])

(* Mutant of New: the function is among its own arguments.                 *)
NewWithMethod(f, g) ==
    /\ InNative(f, "New")
    /\ doing[g] = "fresh"
    /\ At(stack[f], 1 + call[f].self) = Method
    /\ Enter(g, "new", Tail(Arguments(f)), <<Method>> \o VarArgs(f, 1))
    /\ UNCHANGED deps

(* FiberController::New, of something that is no method.                   *)
NewRefused(f) ==
    /\ InNative(f, "New")
    /\ At(stack[f], 1 + call[f].self) # Method
    /\ Error(f)

(* FiberController::New, up to the new fiber's Call.                       *)
New(f, g) ==
    LET method == At(stack[f], 1 + call[f].self) IN
    /\ InNative(f, "New")
    /\ doing[g] = "fresh"
    /\ method = Method
    /\ Enter(g, "new", Tail(Arguments(f)), <<method>> \o VarArgs(f, 2))
    /\ UNCHANGED deps

(* FiberController::Resume, up to the resumed fiber's Call.                *)
Resume(f, g) ==
    /\ InNative(f, "Resume")
    /\ waits[g] = "resume"
    /\ Enter(g, "resume", Arguments(f), VarArgs(f, 1))
    /\ UNCHANGED deps

(* FiberController::Await takes no arguments.                              *)
Await(f) ==
    /\ InNative(f, "Await")
    /\ IF call[f].push # 1 THEN Error(f)
       ELSE YieldFor(f, "resume") /\ UNCHANGED deps

(* FiberController::Sleep.                                                 *)
Sleep(f) ==
    /\ InNative(f, "Sleep")
    /\ IF ArgNumber(stack[f], call[f], 1) = <<>> THEN Error(f)
       ELSE YieldFor(f, "loop") /\ UNCHANGED deps

(* FiberController::Depend on a fiber that has not ended.                  *)
Depend(f, g) ==
    /\ InNative(f, "Depend")
    /\ g # f
    /\ doing[g] \notin {"fresh", "ended", "failed", "freed"}
    /\ deps' = [deps EXCEPT ![g] = Append(@, f)]
    /\ YieldFor(f, "fiber")

(* A method that reads a number, before or after it pushed a first result, *)
(* and answers with it.                                                    *)
Ask(f, slot, pushed) ==
    LET read == ArgNumber(stack[f] \o pushed, call[f], slot) IN
    /\ InNative(f, "Ask")
    /\ IF read = <<>> THEN Error(f)
       ELSE /\ Answer(f, "ask", Arguments(f), pushed \o read, slot, {})
            /\ UNCHANGED active

(* A method that reads another controller's entity.                        *)
AskEntity(f, slot) ==
    LET read == ArgEntity(stack[f], call[f], slot) IN
    /\ InNative(f, "AskEntity")
    /\ IF read = <<>> THEN Error(f)
       ELSE /\ Answer(f, "entity", Arguments(f), read, slot, {})
            /\ UNCHANGED active

-----------------------------------------------------------------------------
(* The end of lua_resume.                                                  *)

Stop(f, state, values, cursor, frame) ==
    /\ Runs(f)
    /\ doing[f] = "script"
    /\ doing' = [doing EXCEPT ![f] = state]
    /\ call' = [call EXCEPT ![f] = cursor]
    /\ stack' = [stack EXCEPT ![f] = frame]
    /\ left' = [left EXCEPT ![f] = values]
    /\ UNCHANGED <<first, deps, active, handed>>

(* The script returns.                                                     *)
Finish(f, values) ==
    /\ Stop(f, "ended", values, SetupReturn(Len(values), FALSE), values)
    /\ UNCHANGED waits

(* The script calls coroutine.yield.                                       *)
Suspend(f, values) ==
    /\ Stop(f, "yielded", values, SetupReturn(Len(values), FALSE), values)
    /\ waits' = [waits EXCEPT ![f] = "resume"]

(* The script throws: the length counts the frame's locals and the         *)
(* message, and OnError resets the thread.                                 *)
Throw(f, locals) ==
    /\ Stop(f, "failed", <<>>, SetupReturn(locals + 1, TRUE), <<>>)
    /\ UNCHANGED waits

(* One turn of the loop over the dependants: FiberHandle::Continue.        *)
ContinueDependant(f) ==
    LET success == IF call[f].failed THEN No ELSE Yes IN
    /\ Stopped(f)
    /\ doing[f] # "yielded"
    /\ deps[f] # <<>>
    /\ deps' = [deps EXCEPT ![f] = Tail(@)]
    /\ Enter(Head(deps[f]), "dependant", left[f], <<success>> \o VarArgs(f, 1))

(* Call returns to the event loop or to another fiber's Call.              *)
Leave(f) ==
    /\ Stopped(f)
    /\ doing[f] = "yielded" \/ deps[f] = <<>>
    /\ active' = SubSeq(active, 1, Len(active) - 1)

(* Call(false) deletes a fiber that has ended.                             *)
Unused(f) == IF doing[f] = "yielded" THEN {} ELSE {f}

Below == active[Len(active) - 1].fiber

ReturnToHost(f) ==
    /\ Leave(f)
    /\ active[Len(active)].via \in {"host", "dependant"}
    /\ doing' = With(doing, Unused(f), "freed")
    /\ stack' = With(stack, Unused(f), <<>>)
    /\ left' = With(left, Unused(f), <<>>)
    /\ UNCHANGED <<waits, call, first, deps, handed>>

(* The rest of FiberController::New.                                       *)
ReturnToNew(f) ==
    /\ Leave(f)
    /\ active[Len(active)].via = "new"
    /\ Answer(Below, "made", <<Entity>>, <<Entity>>, 0, Unused(f))

(* The rest of FiberController::Resume: PushVarArgs(results, 0).           *)
ReturnToResume(f) ==
    /\ Leave(f)
    /\ active[Len(active)].via = "resume"
    /\ Answer(Below, "results", left[f], VarArgs(f, 0), 0, {})

-----------------------------------------------------------------------------
Init ==
    /\ doing = [f \in Fibers |-> "fresh"]
    /\ waits = [f \in Fibers |-> "nothing"]
    /\ stack = [f \in Fibers |-> <<>>]
    /\ call = [f \in Fibers |-> SetupReturn(-1, FALSE)]
    /\ first = [f \in Fibers |-> 1]
    /\ deps = [f \in Fibers |-> <<>>]
    /\ active = <<>>
    /\ handed = [how |-> "none", given |-> <<>>, got |-> <<>>, slot |-> 0]
    /\ left = [f \in Fibers |-> <<>>]

ArgumentsOf(native) ==
    Lists \cup IF native = "New" THEN {<<Method>> \o list : list \in Lists} ELSE {}

Next ==
    \E f \in Fibers :
        \/ Start(f)
        \/ \E values \in Lists : Complete(f, values)
        \/ \E native \in Natives : \E args \in ArgumentsOf(native) :
              CallNative(f, native, args)
        \/ \E g \in Fibers : New(f, g) \/ Resume(f, g) \/ Depend(f, g)
        \/ NewRefused(f)
        \/ Await(f)
        \/ Sleep(f)
        \/ \E slot \in 1 .. MaxArgs + 1 :
              \/ \E pushed \in {<<>>} \cup {<<n>> : n \in Numbers} : Ask(f, slot, pushed)
              \/ AskEntity(f, slot)
        \/ \E values \in Lists : Finish(f, values) \/ Suspend(f, values)
        \/ \E locals \in 0 .. 1 : Throw(f, locals)
        \/ ContinueDependant(f)
        \/ ReturnToHost(f)
        \/ ReturnToNew(f)
        \/ ReturnToResume(f)

Spec == Init /\ [][Next]_vars

-----------------------------------------------------------------------------
(* Properties.                                                             *)

Cursors == [self : {0, 1}, push : Int, pop : Nat, failed : BOOLEAN]

TypeOK ==
    /\ doing \in [Fibers -> States]
    /\ waits \in [Fibers -> Reasons]
    /\ stack \in [Fibers -> Seq(Values \cup Special)]
    /\ call \in [Fibers -> Cursors]
    /\ first \in [Fibers -> {0, 1}]
    /\ deps \in [Fibers -> Seq(Fibers)]
    /\ active \in Seq([fiber : Fibers, via : Vias])
    /\ handed.given \in Seq(Values \cup Special)
    /\ handed.got \in Seq(Values \cup Special)
    /\ left \in [Fibers -> Lists]

(* The cursor of a fiber agrees with its stack for as long as someone may  *)
(* read by it: native code its arguments, also after the calls nested in   *)
(* it, and others what the fiber left when it stopped.                     *)
CursorsAgree ==
    TypeOK /\ \A f \in Fibers :
        /\ doing[f] \in Natives => /\ call[f].self = 1
                                  /\ call[f].push = Len(stack[f])
                                  /\ stack[f][1] = Self
        /\ doing[f] \in {"yielded", "ended"} =>
              /\ call[f].self = 0
              /\ call[f].push = Len(stack[f])
              /\ stack[f] = left[f]

(* A successful read of a number finds the argument of that slot; the slot *)
(* after the last argument passes the test of the accessors, but there is  *)
(* a value only when the method has pushed a result before it reads.       *)
ReadsArguments ==
    handed.how = "ask" =>
        LET read == handed.got[Len(handed.got)] IN
        \/ handed.slot <= Len(handed.given) /\ read = handed.given[handed.slot]
        \/ handed.slot = Len(handed.given) + 1 /\ Len(handed.got) = 2

(* The function of a new fiber and a resumed fiber get every argument in   *)
(* its place, and at most one nil after them; native methods read theirs   *)
(* from the slots scripts put them in.                                     *)
ArgumentsArrive ==
    /\ ReadsArguments
    /\ handed.how \in {"new", "resume"} =>
          handed.got \in {handed.given, Append(handed.given, Nil)}

(* "The fiber will be invoked with all args returned from this fiber"      *)
(* (src/public/IScript.h:109-110): a dependant learns whether the fiber    *)
(* failed, and of a fiber that did not gets exactly its results.           *)
DependantsGetResults ==
    handed.how = "dependant" =>
        \/ handed.got = <<Yes>> \o handed.given
        \/ /\ Head(handed.got) = No
           /\ \A i \in 2 .. Len(handed.got) : handed.got[i] = Nil

(* Whatever precedes them, the script that resumed a fiber gets all that   *)
(* the fiber left, in order and at the end of its results.                 *)
ResultsArrive ==
    handed.how = "results" =>
        Topmost(handed.got, Len(handed.given)) = handed.given

(* "Returns the error, when IsError() is true." (src/public/               *)
(* IScriptMethod.h:113), of a fiber that failed, to whoever called it.     *)
ErrorReported ==
    \A f \in Fibers : Stopped(f) /\ call[f].failed => ErrorOf(f) = Message

(* "Push varargs from the returned results." (src/Logic/Threading/         *)
(* FiberController.cpp:73): Fiber:Resume answers with what the fiber left. *)
ResumeAnswersResults ==
    handed.how = "results" => handed.got = handed.given

(* "Push all arguments after the specified arguments." (src/public/        *)
(* IScriptMethod.h:131): a function gets the arguments and nothing else.   *)
OnlyArguments ==
    handed.how \in {"new", "resume"} => handed.got = handed.given

(* "Get another controller's entity as an argument" (src/public/           *)
(* IScriptMethod.h:99): the entity that was asked for.                     *)
EntityIsArgument ==
    handed.how = "entity" => handed.got = <<handed.given[handed.slot]>>
=============================================================================
