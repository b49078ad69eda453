---------------------------- MODULE FiberProofs -----------------------------
(***************************************************************************)
(* Proofs about FiberRuntime for every number of fibers, requests and      *)
(* dependants and every set of native calls: the types, and, from the      *)
(* inductive invariant IInv, that native code meets undefined behaviour    *)
(* only after a script has broken the usage contract.  At the end, that    *)
(* FiberRuntime implements FiberPromise for scripts that keep the usage    *)
(* contract: each step of the code is one step of the promise, or changes  *)
(* nothing that the promise speaks of.                                     *)
(***************************************************************************)
EXTENDS FiberInvariant, FiberRefinement, SequenceTheorems, TLAPS

-----------------------------------------------------------------------------
(* The three things the actions do to the stack of activations.            *)

(* The fields of an activation.                                            *)
LEMMA FrameType ==
    ASSUME NEW s \in Seq(Frames), NEW i \in 1 .. Len(s)
    PROVE  /\ s[i] \in Frames
           /\ s[i].fiber \in Fibers
           /\ s[i].via \in Vias
           /\ s[i].phase \in Phases
           /\ s[i].upto \in Nat
<1>1. s[i] \in Frames
  BY ElementOfSeq
<1>2. QED
  BY <1>1 DEF Frames

(* Append adds one activation and leaves the others alone.                 *)
LEMMA PushShape ==
    ASSUME NEW s \in Seq(Frames), NEW fr \in Frames
    PROVE  /\ Append(s, fr) \in Seq(Frames)
           /\ Len(Append(s, fr)) = Len(s) + 1
           /\ \A i \in 1 .. Len(s) : Append(s, fr)[i] = s[i]
           /\ Append(s, fr)[Len(s) + 1] = fr
OBVIOUS

(* Below is the stack without its innermost activation.                    *)
LEMMA BelowShape ==
    ASSUME stack \in Seq(Frames), stack # <<>>
    PROVE  /\ Len(stack) \in Nat \ {0}
           /\ Below \in Seq(Frames)
           /\ Len(Below) = Len(stack) - 1
           /\ \A i \in 1 .. Len(stack) - 1 : Below[i] = stack[i]
<1>1. Len(stack) \in Nat \ {0}
  BY EmptySeq
<1>2. \A i \in 1 .. Len(stack) - 1 : stack[i] \in Frames
  BY <1>1, ElementOfSeq
<1>. DEFINE n == Len(stack) - 1
<1>3. n \in Int /\ 1 \in Int /\ n - 1 + 1 = n /\ n \in Nat
  BY <1>1
<1>4. /\ SubSeq(stack, 1, n) \in Seq(Frames)
      /\ Len(SubSeq(stack, 1, n)) = IF 1 <= n THEN n - 1 + 1 ELSE 0
      /\ \A i \in 1 .. n - 1 + 1 : SubSeq(stack, 1, n)[i] = stack[1 + i - 1]
  <2>. HIDE DEF n
  <2>1. \A i \in 1 .. n : stack[i] \in Frames
    BY <1>2 DEF n
  <2>. QED
    BY <1>3, <2>1, SubSeqProperties
<1>5. QED
  BY <1>1, <1>3, <1>4 DEF Below

(* The innermost activation is one of the stack's.                         *)
LEMMA TopShape ==
    ASSUME stack \in Seq(Frames), stack # <<>>
    PROVE  /\ Len(stack) \in Nat \ {0}
           /\ Top = stack[Len(stack)]
           /\ Top \in Frames
           /\ Top.fiber \in Fibers
           /\ Top.via \in Vias
           /\ Top.phase \in Phases
           /\ Top.upto \in Nat
<1>1. Len(stack) \in Nat \ {0}
  BY EmptySeq
<1>2. Top \in Frames
  BY <1>1, ElementOfSeq DEF Top
<1>3. QED
  BY <1>1, <1>2 DEF Top, Frames

(* TopIn changes the phase of the innermost activation only.               *)
LEMMA TopInShape ==
    ASSUME stack \in Seq(Frames), stack # <<>>, NEW p \in Phases, NEW u \in Nat
    PROVE  /\ TopIn(p, u) \in Seq(Frames)
           /\ Len(TopIn(p, u)) = Len(stack)
           /\ \A i \in 1 .. Len(stack) - 1 : TopIn(p, u)[i] = stack[i]
           /\ TopIn(p, u)[Len(stack)] = Put(Top, p, u)
<1>1. Put(Top, p, u) \in Frames
  BY TopShape DEF Frames, Frame, Put
<1>2. QED
  BY <1>1, BelowShape, PushShape DEF TopIn

-----------------------------------------------------------------------------
(* Types.                                                                  *)

LEMMA ListLength ==
    ASSUME NEW d \in [Fibers -> Seq(Fibers)], NEW f \in Fibers
    PROVE  d[f] \in Seq(Fibers) /\ Len(d[f]) \in Nat
<1>1. d[f] \in Seq(Fibers)
  OBVIOUS
<1>2. QED
  BY <1>1, LenProperties

(* What a step's new activations must satisfy to keep StackOK.             *)
LEMMA PushKeepsStack ==
    ASSUME TypeOK, StackOK, NEW fr \in Frames,
           stack' = Append(stack, fr),
           fr.upto <= Len(deps'[fr.fiber]),
           fr.via = "require" => stack # <<>>,
           deps' \in [Fibers -> Seq(Fibers)],
           \A f \in Fibers : Len(deps[f]) <= Len(deps'[f])
    PROVE  stack' \in Seq(Frames) /\ StackOK'
<1>1. stack \in Seq(Frames) /\ Len(stack) \in Nat
  BY LenProperties DEF TypeOK
<1>2. /\ stack' \in Seq(Frames)
      /\ Len(stack') = Len(stack) + 1
      /\ \A i \in Depth : stack'[i] = stack[i]
      /\ stack'[Len(stack) + 1] = fr
  BY <1>1, PushShape DEF Depth
<1>3. ASSUME NEW i \in 1 .. Len(stack')
      PROVE  /\ stack'[i].upto <= Len(deps'[stack'[i].fiber])
             /\ stack'[i].via = "require" => i > 1
  <2>1. CASE i = Len(stack) + 1
    <3>1. stack'[i].via = "require" => Len(stack) # 0
      BY <1>1, <1>2, <2>1, EmptySeq
    <3>. QED
      BY <1>1, <1>2, <2>1, <3>1
  <2>2. CASE i \in Depth
    <3>1. stack[i].fiber \in Fibers /\ stack[i].upto \in Nat
      BY <1>1, <2>2, FrameType DEF Depth
    <3>2. Len(deps[stack[i].fiber]) \in Nat /\ Len(deps'[stack[i].fiber]) \in Nat
      BY <3>1, ListLength DEF TypeOK
    <3>. QED
      BY <1>2, <2>2, <3>1, <3>2 DEF StackOK
  <2>. QED
    BY <1>1, <1>2, <2>1, <2>2 DEF Depth
<1>. QED
  BY <1>2, <1>3 DEF StackOK, Depth

LEMMA TopInKeepsStack ==
    ASSUME TypeOK, StackOK, stack # <<>>, NEW p \in Phases, NEW u \in Nat,
           stack' = TopIn(p, u),
           u <= Len(deps[Top.fiber]),
           deps' \in [Fibers -> Seq(Fibers)],
           \A f \in Fibers : Len(deps[f]) <= Len(deps'[f])
    PROVE  stack' \in Seq(Frames) /\ StackOK'
<1>1. stack \in Seq(Frames) /\ Len(stack) \in Nat
  BY LenProperties DEF TypeOK
<1>2. /\ stack' \in Seq(Frames)
      /\ Len(stack') = Len(stack)
      /\ \A i \in 1 .. Len(stack) - 1 : stack'[i] = stack[i]
      /\ stack'[Len(stack)] = Put(Top, p, u)
  BY <1>1, TopInShape
<1>3. /\ stack'[Len(stack)].fiber = stack[Len(stack)].fiber
      /\ stack'[Len(stack)].via = stack[Len(stack)].via
      /\ stack'[Len(stack)].upto = u
  BY <1>2, TopShape, <1>1 DEF Frame, Put
<1>4. ASSUME NEW i \in 1 .. Len(stack)
      PROVE  /\ stack'[i].upto <= Len(deps'[stack'[i].fiber])
             /\ stack'[i].via = "require" => i > 1
  <2>1. stack[i].fiber \in Fibers /\ stack[i].upto \in Nat
    BY <1>1, FrameType
  <2>2. Len(deps[stack[i].fiber]) \in Nat /\ Len(deps'[stack[i].fiber]) \in Nat
    BY <2>1, ListLength DEF TypeOK
  <2>3. CASE i = Len(stack)
    BY <1>3, <2>1, <2>2, <2>3 DEF StackOK, Depth, Top
  <2>4. CASE i \in 1 .. Len(stack) - 1
    <3>1. stack'[i] = stack[i]
      BY <1>2, <2>4
    <3>. QED
      BY <2>1, <2>2, <3>1 DEF StackOK, Depth
  <2>. QED
    BY <1>1, <2>3, <2>4
<1>. QED
  BY <1>2, <1>4 DEF StackOK, Depth

LEMMA BelowKeepsStack ==
    ASSUME TypeOK, StackOK, stack # <<>>, stack' = Below, deps' = deps
    PROVE  stack' \in Seq(Frames) /\ StackOK'
<1>1. stack \in Seq(Frames)
  BY DEF TypeOK
<1>2. /\ Len(stack) \in Nat
      /\ stack' \in Seq(Frames)
      /\ Len(stack') = Len(stack) - 1
      /\ \A i \in 1 .. Len(stack) - 1 : stack'[i] = stack[i]
  BY <1>1, BelowShape
<1>3. \A i \in 1 .. Len(stack') : i \in 1 .. Len(stack) - 1 /\ i \in Depth
  BY <1>2 DEF Depth
<1>4. \A i \in 1 .. Len(stack') : /\ stack'[i] = stack[i]
                                  /\ stack[i].upto <= Len(deps[stack[i].fiber])
                                  /\ stack[i].via = "require" => i > 1
  BY <1>2, <1>3 DEF StackOK
<1>. QED
  BY <1>2, <1>4 DEF StackOK, Depth

(* Return from a module's first activation: the requiring one below it is  *)
(* the innermost one now and yields.                                       *)
LEMMA RequirerShape ==
    ASSUME TypeOK, StackOK, stack # <<>>, Top.via = "require"
    PROVE  LET up == Len(stack) - 1
               s  == [Below EXCEPT ![up] = Put(stack[up], "yield", 0)]
           IN  /\ up \in 1 .. Len(stack)
               /\ s \in Seq(Frames)
               /\ Len(s) = up
               /\ \A i \in 1 .. up - 1 : s[i] = stack[i]
               /\ s[up] = Put(stack[up], "yield", 0)
<1>. DEFINE up == Len(stack) - 1
            e == Put(stack[up], "yield", 0)
<1>1. stack \in Seq(Frames) /\ Len(stack) \in Nat
  BY LenProperties DEF TypeOK
<1>2. Len(stack) > 1
  BY <1>1, TopShape DEF StackOK, Depth
<1>3. /\ up \in 1 .. Len(stack)
      /\ up \in Nat
      /\ Below \in Seq(Frames)
      /\ Len(Below) = up
      /\ \A i \in 1 .. up : Below[i] = stack[i]
  BY <1>1, <1>2, BelowShape
<1>4. stack[up] \in Frames
  BY <1>1, <1>3, FrameType
<1>5. e \in Frames
  BY <1>4 DEF Frames, Frame, Put, Phases
<1>. HIDE DEF e
<1>6. /\ [Below EXCEPT ![up] = e] \in Seq(Frames)
      /\ Len([Below EXCEPT ![up] = e]) = Len(Below)
      /\ \A j \in 1 .. Len(Below) :
            [Below EXCEPT ![up] = e][j] = IF j = up THEN e ELSE Below[j]
  <2>1. up \in 1 .. Len(Below)
    BY <1>1, <1>2, <1>3
  <2>. QED
    BY <1>3, <1>5, <2>1, ExceptSeq
<1>7. /\ [Below EXCEPT ![up] = e][up] = e
      /\ \A i \in 1 .. up - 1 : [Below EXCEPT ![up] = e][i] = stack[i]
  BY <1>1, <1>2, <1>3, <1>6
<1>. QED
  BY <1>3, <1>6, <1>7 DEF e

Types == TypeOK /\ StackOK

LEMMA RunTypes ==
    ASSUME Types, NEW f \in Fibers, NEW via \in Vias, Run(f, via),
           via = "require" => stack # <<>>,
           deps' \in [Fibers -> Seq(Fibers)],
           \A g \in Fibers : Len(deps[g]) <= Len(deps'[g])
    PROVE  /\ lua' \in [Fibers -> LuaStates]
           /\ fault' \in Faults
           /\ stack' \in Seq(Frames) /\ StackOK'
<1>1. Frame(f, via, "run", 0) \in Frames
  BY DEF Frame, Frames, Phases
<1>2. 0 <= Len(deps'[f])
  BY ListLength
<1>3. /\ Frame(f, via, "run", 0).fiber = f
      /\ Frame(f, via, "run", 0).upto = 0
      /\ Frame(f, via, "run", 0).via = via
  BY DEF Frame
<1>4. stack' \in Seq(Frames) /\ StackOK'
  BY <1>1, <1>2, <1>3, PushKeepsStack DEF Run, Types
<1>5. QED
  BY <1>4 DEF Run, Types, TypeOK, LuaStates

LEMMA YieldTypes ==
    ASSUME Types, stack # <<>>, NEW f \in Fibers, Yield(f),
           deps' \in [Fibers -> Seq(Fibers)],
           \A g \in Fibers : Len(deps[g]) <= Len(deps'[g])
    PROVE  /\ lua' \in [Fibers -> LuaStates]
           /\ fault' \in Faults
           /\ stack' \in Seq(Frames) /\ StackOK'
<1>1. 0 <= Len(deps[Top.fiber])
  BY TopShape, ListLength DEF Types, TypeOK
<1>2. "yield" \in Phases /\ 0 \in Nat
  BY DEF Phases
<1>3. stack' \in Seq(Frames) /\ StackOK'
  BY <1>1, <1>2, TopInKeepsStack DEF Yield, Types
<1>4. QED
  BY <1>3 DEF Yield, Types, TypeOK, LuaStates

LEMMA FailTypes ==
    ASSUME Types, NEW kind \in Faults, Fail(kind), deps' = deps
    PROVE  /\ lua' \in [Fibers -> LuaStates]
           /\ fault' \in Faults
           /\ stack' \in Seq(Frames) /\ StackOK'
BY DEF Types, Fail, TypeOK, StackOK, Depth

LEMMA EnterTypes ==
    ASSUME Types, NEW f \in Fibers, NEW via \in Vias, Enter(f, via),
           via # "require", deps' = deps
    PROVE  /\ lua' \in [Fibers -> LuaStates]
           /\ fault' \in Faults
           /\ stack' \in Seq(Frames) /\ StackOK'
<1>. DEFINE fr == Frame(f, via, "deps", Len(deps[f]))
<1>1. CASE \E kind \in Faults : Fail(kind)
  BY <1>1, FailTypes
<1>2. CASE Run(f, via)
  <2>1. /\ deps' \in [Fibers -> Seq(Fibers)]
        /\ \A g \in Fibers : Len(deps[g]) \in Nat
    BY ListLength DEF Types, TypeOK
  <2>. QED
    BY <1>2, <2>1, RunTypes
<1>3. CASE /\ lua' = [lua EXCEPT ![f] = "empty"]
           /\ stack' = Append(stack, fr)
           /\ UNCHANGED fault
  <2>1. /\ deps' \in [Fibers -> Seq(Fibers)]
        /\ \A g \in Fibers : Len(deps[g]) \in Nat
    BY ListLength DEF Types, TypeOK
  <2>2. fr \in Frames
    BY <2>1 DEF Frame, Frames, Phases
  <2>3. fr.fiber = f /\ fr.upto = Len(deps[f]) /\ fr.via = via
    BY DEF Frame
  <2>. HIDE DEF fr
  <2>4. stack' \in Seq(Frames) /\ StackOK'
    BY <1>3, <2>1, <2>2, <2>3, PushKeepsStack DEF Types
  <2>. QED
    BY <1>3, <2>4 DEF Types, TypeOK, LuaStates
<1>. QED
  BY <1>1, <1>2, <1>3 DEF Enter, Conclude, Faults

LEMMA InitTypes == Init => Types
<1>. SUFFICES ASSUME Init PROVE Types
  OBVIOUS
<1>1. <<>> \in Seq(Frames) /\ <<>> \in Seq(Fibers) /\ Len(<<>>) = 0
  BY EmptySeq
<1>2. /\ slots \in 0 .. MaxFibers
      /\ lua \in [Fibers -> LuaStates]
      /\ pending \in [Fibers -> [Kinds -> 0 .. MaxPending]]
      /\ continued \in [Fibers -> Nat]
  BY MaxFibersAssumption, MaxPendingAssumption DEF Init, LuaStates
<1>3. deps \in [Fibers -> Seq(Fibers)] /\ stack \in Seq(Frames)
  BY <1>1 DEF Init
<1>4. TypeOK
  BY <1>2, <1>3 DEF Init, TypeOK, Faults
<1>5. StackOK
  BY <1>1 DEF Init, StackOK, Depth
<1>. QED
  BY <1>4, <1>5 DEF Types

(* Every step keeps the types.                                             *)
LEMMA NextTypes == Types /\ [Next]_vars => Types'
<1>. SUFFICES ASSUME Types, [Next]_vars PROVE Types'
  OBVIOUS
<1>. USE MaxFibersAssumption, MaxPendingAssumption
<1>a. /\ deps \in [Fibers -> Seq(Fibers)]
      /\ \A g \in Fibers : Len(deps[g]) \in Nat
      /\ pending \in [Fibers -> [Kinds -> 0 .. MaxPending]]
      /\ slots \in 0 .. MaxFibers
      /\ continued \in [Fibers -> Nat]
  BY ListLength DEF Types, TypeOK
<1>b. stack # <<>> => /\ Top.fiber \in Fibers
                      /\ Top.via \in Vias
                      /\ Top.phase \in Phases
                      /\ Top.upto \in Nat
                      /\ Top.upto <= Len(deps[Top.fiber])
  <2>1. stack \in Seq(Frames)
    BY DEF Types, TypeOK
  <2>. QED
    BY <2>1, TopShape DEF Types, StackOK, Depth
<1>1. CASE Start
  <2>1. 1 \in Fibers /\ "host" \in Vias /\ "host" # "require"
    BY DEF Fibers, Vias
  <2>. /\ deps' \in [Fibers -> Seq(Fibers)]
       /\ \A g \in Fibers : Len(deps[g]) <= Len(deps'[g])
    BY <1>1, <1>a DEF Start
  <2>2. /\ lua' \in [Fibers -> LuaStates]
        /\ fault' \in Faults
        /\ stack' \in Seq(Frames) /\ StackOK'
    BY <1>1, <1>a, <2>1, RunTypes DEF Start
  <2>. QED
    BY <1>1, <1>a, <2>2 DEF Start, Types, TypeOK
<1>2. ASSUME NEW f \in Fibers, NEW k \in Kinds, Complete(f, k)
      PROVE  Types'
  <2>1. /\ lua' \in [Fibers -> LuaStates]
        /\ fault' \in Faults
        /\ stack' \in Seq(Frames) /\ StackOK'
    BY <1>2, EnterTypes DEF Complete, Vias
  <2>2. pending' \in [Fibers -> [Kinds -> 0 .. MaxPending]]
    BY <1>2, <1>a DEF Complete
  <2>. QED
    BY <1>2, <2>1, <2>2 DEF Complete, Types, TypeOK
<1>3. ASSUME NEW f \in Fibers, ZipFails(f)
      PROVE  Types'
  <2>1. pending' \in [Fibers -> [Kinds -> 0 .. MaxPending]]
    BY <1>3, <1>a DEF ZipFails, Kinds
  <2>2. StackOK'
    BY <1>3 DEF ZipFails, Types, StackOK, Depth, Fail
  <2>3. CASE f \in freed
    BY <1>3, <2>1, <2>2, <2>3 DEF ZipFails, Types, TypeOK, Fail, Faults
  <2>4. CASE f \notin freed
    <3>1. /\ lua' = [lua EXCEPT ![f] = "empty"] /\ killed' = killed \cup {f}
          /\ UNCHANGED <<stack, fault, slots, freed, deps, continued, shared, breached>>
      BY <1>3, <2>4 DEF ZipFails
    <3>2. lua' \in [Fibers -> LuaStates] /\ killed' \subseteq Fibers
      BY <3>1 DEF Types, TypeOK, LuaStates
    <3>. QED
      BY <2>1, <2>2, <3>1, <3>2 DEF Types, TypeOK
  <2>. QED
    BY <2>3, <2>4
<1>4. ASSUME NEW f \in Fibers, New(f)
      PROVE  Types'
  <2>1. slots + 1 \in Fibers /\ slots' \in 0 .. MaxFibers
    BY <1>4, <1>a DEF New, Fibers
  <2>2. /\ lua' \in [Fibers -> LuaStates]
        /\ fault' \in Faults
        /\ stack' \in Seq(Frames) /\ StackOK'
    BY <1>4, <1>a, <2>1, RunTypes DEF New, Vias
  <2>. QED
    BY <1>4, <2>1, <2>2 DEF New, Types, TypeOK
<1>5. ASSUME NEW f \in Fibers, Await(f)
      PROVE  Types'
  <2>1. /\ lua' \in [Fibers -> LuaStates]
        /\ fault' \in Faults
        /\ stack' \in Seq(Frames) /\ StackOK'
    BY <1>5, <1>a, YieldTypes DEF Await, Executing, InCall
  <2>. QED
    BY <1>5, <2>1 DEF Await, Types, TypeOK
<1>6. ASSUME NEW f \in Fibers, NEW call, NEW k \in Kinds, Request(f, call, k)
      PROVE  Types'
  <2>1. /\ lua' \in [Fibers -> LuaStates]
        /\ fault' \in Faults
        /\ stack' \in Seq(Frames) /\ StackOK'
    BY <1>6, <1>a, YieldTypes DEF Request, Executing, InCall
  <2>2. pending' \in [Fibers -> [Kinds -> 0 .. MaxPending]]
    BY <1>6, <1>a DEF Request
  <2>. QED
    BY <1>6, <2>1, <2>2 DEF Request, Types, TypeOK
<1>7. ASSUME NEW f \in Fibers, NEW t \in Fibers, Depend(f, t)
      PROVE  Types'
  <2>1. breached' \in BOOLEAN
    BY <1>7 DEF Depend, Obey, MayDepend, Types, TypeOK
  <2>2. CASE \E kind \in Faults : Fail(kind) /\ UNCHANGED deps
    <3>1. /\ lua' \in [Fibers -> LuaStates]
          /\ fault' \in Faults
          /\ stack' \in Seq(Frames) /\ StackOK'
      BY <2>2, FailTypes
    <3>. QED
      BY <1>7, <2>1, <2>2, <3>1 DEF Depend, Types, TypeOK
  <2>3. CASE deps' = [deps EXCEPT ![t] = Append(@, f)] /\ Yield(f)
    <3>1. /\ Append(deps[t], f) \in Seq(Fibers)
          /\ Len(Append(deps[t], f)) = Len(deps[t]) + 1
      BY <1>a, AppendProperties
    <3>2. /\ deps' \in [Fibers -> Seq(Fibers)]
          /\ \A g \in Fibers : Len(deps[g]) <= Len(deps'[g])
      BY <1>a, <2>3, <3>1
    <3>3. /\ lua' \in [Fibers -> LuaStates]
          /\ fault' \in Faults
          /\ stack' \in Seq(Frames) /\ StackOK'
      BY <1>7, <2>3, <3>2, YieldTypes DEF Depend, Executing, InCall
    <3>. QED
      BY <1>7, <2>1, <3>2, <3>3 DEF Depend, Types, TypeOK
  <2>. QED
    BY <1>7, <2>2, <2>3 DEF Depend, Faults
<1>8. ASSUME NEW f \in Fibers, Finish(f)
      PROVE  Types'
  <2>1. breached' \in BOOLEAN
    BY <1>8 DEF Finish, Obey, MayFinish, Types, TypeOK
  <2>2. PICK left \in {"empty", "leftover"} :
           Conclude(f, left, TopIn("deps", Len(deps[f])))
    BY <1>8 DEF Finish
  <2>3. /\ lua' \in [Fibers -> LuaStates]
        /\ fault' \in Faults
        /\ stack' \in Seq(Frames) /\ StackOK'
    <3>1. CASE continued'[f] > 0
      BY <1>8, <2>2, <3>1, FailTypes DEF Conclude, Finish, Faults
    <3>2. CASE ~(continued'[f] > 0)
      <4>1. /\ lua' = [lua EXCEPT ![f] = left]
            /\ stack' = TopIn("deps", Len(deps[f]))
            /\ fault' = fault
        BY <2>2, <3>2 DEF Conclude
      <4>2. /\ stack # <<>> /\ Top.fiber = f /\ deps' = deps
            /\ "deps" \in Phases
        BY <1>8 DEF Finish, Executing, InCall, Phases
      <4>3. stack' \in Seq(Frames) /\ StackOK'
        BY <1>a, <4>1, <4>2, TopInKeepsStack DEF Types
      <4>. QED
        BY <4>1, <4>3 DEF Types, TypeOK, LuaStates
    <3>. QED
      BY <3>1, <3>2
  <2>. QED
    BY <1>8, <2>1, <2>3 DEF Finish, Types, TypeOK
<1>9. ASSUME NEW f \in Fibers, NEW t \in Fibers, Resume(f, t)
      PROVE  Types'
  <2>1. breached' \in BOOLEAN
    BY <1>9 DEF Resume, Obey, MayResume, Types, TypeOK
  <2>2. /\ lua' \in [Fibers -> LuaStates]
        /\ fault' \in Faults
        /\ stack' \in Seq(Frames) /\ StackOK'
    BY <1>9, EnterTypes DEF Resume, Vias
  <2>. QED
    BY <1>9, <2>1, <2>2 DEF Resume, Types, TypeOK
<1>10. ASSUME NEW f \in Fibers, Require(f)
       PROVE  Types'
  <2>1. slots + 1 \in Fibers /\ slots' \in 0 .. MaxFibers
    BY <1>10, <1>a DEF Require, Fibers
  <2>2. /\ Append(deps[slots + 1], f) \in Seq(Fibers)
        /\ Len(Append(deps[slots + 1], f)) = Len(deps[slots + 1]) + 1
    BY <1>a, <2>1, AppendProperties
  <2>3. /\ deps' \in [Fibers -> Seq(Fibers)]
        /\ \A g \in Fibers : Len(deps[g]) <= Len(deps'[g])
    BY <1>10, <1>a, <2>1, <2>2 DEF Require
  <2>4. /\ lua' \in [Fibers -> LuaStates]
        /\ fault' \in Faults
        /\ stack' \in Seq(Frames) /\ StackOK'
    BY <1>10, <2>1, <2>3, RunTypes DEF Require, Vias, Executing, InCall
  <2>. QED
    BY <1>10, <2>1, <2>3, <2>4 DEF Require, Types, TypeOK
<1>11. CASE ContinueDependant
  <2>. DEFINE f == Top.fiber
              d == deps[f][continued[f] + 1]
  <2>1. /\ f \in Fibers
        /\ continued[f] + 1 \in 1 .. Len(deps[f])
        /\ deps[f] \in Seq(Fibers)
    <3>1. stack # <<>> /\ continued[f] < Top.upto
      BY <1>11 DEF ContinueDependant, InCall
    <3>2. f \in Fibers /\ Top.upto \in Nat /\ Top.upto <= Len(deps[f])
      BY <1>b, <3>1
    <3>. QED
      BY <1>a, <3>1, <3>2
  <2>2. d \in Fibers
    BY <2>1, ElementOfSeq
  <2>3. continued' \in [Fibers -> Nat]
    BY <1>11, <1>a, <2>1 DEF ContinueDependant
  <2>4. Enter(d, "dependant") /\ deps' = deps
    BY <1>11 DEF ContinueDependant
  <2>. HIDE DEF d
  <2>5. /\ lua' \in [Fibers -> LuaStates]
        /\ fault' \in Faults
        /\ stack' \in Seq(Frames) /\ StackOK'
    BY <2>2, <2>4, EnterTypes DEF Vias
  <2>. QED
    BY <1>11, <2>3, <2>5 DEF ContinueDependant, Types, TypeOK
<1>12. CASE Return
  <2>1. freed' \subseteq Fibers /\ shared' \subseteq Fibers
    BY <1>12, <1>b DEF Return, InCall, Types, TypeOK
  <2>2. CASE Top.via = "require"
    <3>. DEFINE up == Len(stack) - 1
    <3>1. /\ stack' = [Below EXCEPT ![up] = Put(stack[up], "yield", 0)]
          /\ lua' = [lua EXCEPT ![stack[up].fiber] = "suspended"]
          /\ stack # <<>>
          /\ deps' = deps
      BY <1>12, <2>2 DEF Return, InCall
    <3>2. /\ up \in 1 .. Len(stack)
          /\ stack' \in Seq(Frames)
          /\ Len(stack') = up
          /\ \A i \in 1 .. up - 1 : stack'[i] = stack[i]
          /\ stack'[up] = Put(stack[up], "yield", 0)
      BY <2>2, <3>1, RequirerShape DEF Types
    <3>3. /\ stack'[up].fiber = stack[up].fiber
          /\ stack'[up].via = stack[up].via
          /\ stack'[up].upto = 0
      BY <3>2 DEF Put, Frame
    <3>4. Len(deps[stack[up].fiber]) \in Nat
      BY <1>a, <3>2, FrameType DEF Types, TypeOK
    <3>5. Len(stack) \in Nat
      BY LenProperties DEF Types, TypeOK
    <3>. HIDE DEF up
    <3>6. StackOK'
      <4>1. \A i \in 1 .. up - 1 : i \in Depth
        BY <3>2, <3>5 DEF Depth
      <4>2. \A i \in 1 .. up - 1 : /\ stack'[i].upto <= Len(deps[stack'[i].fiber])
                                   /\ stack'[i].via = "require" => i > 1
        BY <3>2, <4>1 DEF Types, StackOK
      <4>3. /\ stack'[up].upto <= Len(deps[stack'[up].fiber])
            /\ stack'[up].via = "require" => up > 1
        BY <3>2, <3>3, <3>4 DEF Types, StackOK, Depth
      <4>4. Depth' = 1 .. up /\ \A i \in 1 .. up : i \in 1 .. up - 1 \/ i = up
        BY <3>2, <3>5 DEF Depth
      <4>. QED
        BY <3>1, <4>2, <4>3, <4>4 DEF StackOK
    <3>. QED
      BY <1>12, <2>1, <3>1, <3>2, <3>6 DEF Return, Types, TypeOK, LuaStates
  <2>3. CASE Top.via # "require"
    <3>1. stack # <<>> /\ stack' = Below /\ deps' = deps /\ lua' = lua
      BY <1>12, <2>3 DEF Return, InCall
    <3>2. stack' \in Seq(Frames) /\ StackOK'
      BY <3>1, BelowKeepsStack DEF Types
    <3>. QED
      BY <1>12, <2>1, <3>1, <3>2 DEF Return, Types, TypeOK
  <2>. QED
    BY <2>2, <2>3
<1>13. CASE UNCHANGED vars
  BY <1>13 DEF vars, Types, TypeOK, StackOK, Depth
<1>. QED
  BY <1>1, <1>2, <1>3, <1>4, <1>5, <1>6, <1>7, <1>8, <1>9, <1>10, <1>11, <1>12, <1>13
     DEF Next, Answer, SegmentEnds, Sleep, FileRequest, ZipOpen, Kinds

(* Every variable keeps its type, for every value of the constants.        *)
THEOREM TypeCorrect == Spec => []TypeOK
<1>1. Types => TypeOK
  BY DEF Types
<1>2. QED
  BY <1>1, InitTypes, NextTypes, PTL DEF Spec

-----------------------------------------------------------------------------
(* What is known of every activation.                                      *)

LEMMA Activations ==
    ASSUME Types
    PROVE  /\ Len(stack) \in Nat
           /\ \A i \in Depth : /\ stack[i].fiber \in Fibers
                               /\ stack[i].via \in Vias
                               /\ stack[i].phase \in Phases
                               /\ stack[i].upto \in Nat
<1>1. stack \in Seq(Frames) /\ Len(stack) \in Nat
  BY LenProperties DEF Types, TypeOK
<1>2. QED
  BY <1>1, FrameType DEF Depth

(* Fibers' lists, as functions of natural length.                          *)
LEMMA Lists ==
    ASSUME Types
    PROVE  /\ \A f \in Fibers : Len(deps[f]) \in Nat /\ continued[f] \in Nat
           /\ \A f \in Fibers : \A i \in 1 .. Len(deps[f]) : deps[f][i] \in Fibers
           /\ \A f \in Fibers : \A i \in Outstanding(f) :
                 i \in 1 .. Len(deps[f]) /\ deps[f][i] \in Fibers
           /\ slots \in 0 .. MaxFibers /\ Fibers = 1 .. MaxFibers
<1>1. \A f \in Fibers : Len(deps[f]) \in Nat /\ continued[f] \in Nat
  BY ListLength DEF Types, TypeOK
<1>2. \A f \in Fibers : \A i \in 1 .. Len(deps[f]) : deps[f][i] \in Fibers
  <2>1. TAKE f \in Fibers
  <2>2. deps[f] \in Seq(Fibers)
    BY DEF Types, TypeOK
  <2>3. QED
    BY <2>2, ElementOfSeq
<1>3. \A f \in Fibers : \A i \in Outstanding(f) : i \in 1 .. Len(deps[f])
  BY <1>1 DEF Outstanding
<1>4. QED
  BY <1>1, <1>2, <1>3 DEF Types, TypeOK, Fibers

(* A fiber inside require() has its module's activation above its own.     *)
LEMMA RequiringIsBelow ==
    ASSUME Types, OneActivation, NEW d \in Fibers, NEW t \in Fibers,
           Requiring(d, t), NEW j \in Depth, stack[j].fiber = d
    PROVE  j + 1 \in Depth /\ stack[j + 1].fiber = t /\ stack[j + 1].via = "require"
<1>1. PICK i \in Depth : /\ i > 1
                         /\ stack[i].fiber = t
                         /\ stack[i].via = "require"
                         /\ stack[i - 1].fiber = d
  BY DEF Requiring
<1>2. Len(stack) \in Nat
  BY Activations
<1>3. i - 1 \in Depth /\ i - 1 \in Int /\ j \in Int
  BY <1>1, <1>2 DEF Depth
<1>4. j = i - 1
  BY <1>1, <1>3 DEF OneActivation
<1>5. i = j + 1
  BY <1>3, <1>4
<1>. QED
  BY <1>1, <1>5

(* The fiber that executes waits for nothing.                              *)
LEMMA TopWaitsForNothing ==
    ASSUME Types, Sound, stack # <<>>, lua[Top.fiber] = "running"
    PROVE  /\ NoPending(Top.fiber)
           /\ \A t \in Fibers : \A i \in Outstanding(t) : deps[t][i] # Top.fiber
<1>. DEFINE n == Len(stack)
<1>1. n \in Nat \ {0} /\ Top = stack[n] /\ Top.fiber \in Fibers /\ n \in Depth
  BY TopShape DEF Types, TypeOK, Depth
<1>2. NoPending(Top.fiber)
  <2>1. \A k \in Kinds : pending[Top.fiber][k] \in Nat /\ ~(pending[Top.fiber][k] > 0)
    BY <1>1, MaxPendingAssumption DEF Sound, RequestsOK, Types, TypeOK
  <2>. QED
    BY <2>1 DEF NoPending
<1>3. ASSUME NEW t \in Fibers, NEW i \in Outstanding(t), deps[t][i] = Top.fiber
      PROVE  FALSE
  <2>1. Requiring(Top.fiber, t)
    BY <1>3 DEF Sound, DependantsOK
  <2>2. n + 1 \in Depth
    BY <1>1, <2>1, RequiringIsBelow DEF Sound
  <2>. QED
    BY <1>1, <2>2 DEF Depth
<1>. QED
  BY <1>2, <1>3

-----------------------------------------------------------------------------
(* The activations after each kind of change.                              *)

(* lua_resume is entered on a fiber that has no activation yet.            *)
LEMMA RunActivations ==
    ASSUME Types, Sound, NEW f \in Fibers, NEW via \in Vias, Run(f, via),
           ~Active(f),
           f \in 1 .. slots', f \notin freed, freed' = freed,
           slots' \in Nat, slots <= slots',
           stack # <<>> => Top.phase # "yield",
           via = "require" => stack # <<>> /\ Top.phase = "run",
           \A g \in Fibers : Active(g) => deps'[g] = deps[g]
    PROVE  /\ OneActivation' /\ ActivationsOK' /\ RunningIsActive'
           /\ Active(f)'
           /\ \A g \in Fibers : Active(g) => Active(g)'
           /\ \A g \in Fibers \ {f} : Active(g)' => Active(g)
           /\ \A d, t \in Fibers : Requiring(d, t) => Requiring(d, t)'
           /\ \A d \in Fibers : via = "require" /\ d = Top.fiber => Requiring(d, f)'
<1>0. PICK n \in Nat : n = Len(stack)
  BY Activations
<1>. DEFINE fr == Frame(f, via, "run", 0)
<1>1. fr \in Frames /\ stack \in Seq(Frames)
  BY DEF Frame, Frames, Phases, Types, TypeOK
<1>2. /\ n \in Nat
      /\ Len(stack') = n + 1
      /\ \A i \in 1 .. n : stack'[i] = stack[i]
      /\ stack'[n + 1] = fr
  BY <1>0, <1>1, PushShape DEF Run
<1>3. /\ stack'[n + 1].fiber = f
      /\ stack'[n + 1].via = via
      /\ stack'[n + 1].phase = "run"
  BY <1>2 DEF Frame
<1>4. /\ \A i \in 1 .. n : stack[i].fiber \in Fibers /\ stack[i].fiber # f
      /\ stack # <<>> => n > 0 /\ Top = stack[n]
      /\ \A i \in 1 .. n : stack[i].phase # "yield"
  <2>1. \A i \in 1 .. n : stack[i].fiber \in Fibers /\ stack[i].fiber # f
    BY <1>0, Activations DEF Active, Depth
  <2>2. stack # <<>> => n > 0 /\ Top = stack[n]
    BY <1>0, <1>1, TopShape
  <2>3. ASSUME NEW i \in 1 .. n, stack[i].phase = "yield" PROVE FALSE
    <3>1. i = n
      BY <1>0, <2>3 DEF Sound, ActivationsOK, ActivationOK, Depth
    <3>2. stack # <<>>
      BY <1>0, <1>2, <2>3, EmptySeq
    <3>. QED
      BY <2>2, <2>3, <3>1, <3>2
  <2>. QED
    BY <2>1, <2>2, <2>3
<1>5. lua' = [lua EXCEPT ![f] = "running"] /\ lua \in [Fibers -> LuaStates]
  BY DEF Run, Types, TypeOK
<1>. HIDE DEF fr
<1>6. Depth = 1 .. n /\ Depth' = 1 .. n + 1
  BY <1>0, <1>2 DEF Depth
<1>7. OneActivation'
  BY <1>2, <1>3, <1>4, <1>6 DEF OneActivation, Sound
<1>8. ActivationsOK'
  <2>1. ASSUME NEW i \in 1 .. n PROVE ActivationOK(i)'
    <3>1. ActivationOK(i)
      BY <1>6, <2>1 DEF Sound, ActivationsOK
    <3>2. /\ stack'[i] = stack[i]
          /\ stack[i].fiber \in Fibers
          /\ stack[i].fiber # f
          /\ stack[i].phase # "yield"
          /\ lua'[stack[i].fiber] = lua[stack[i].fiber]
          /\ deps'[stack[i].fiber] = deps[stack[i].fiber]
      BY <1>2, <1>4, <1>5, <1>6, <2>1 DEF Active
    <3>3. Live(stack[i].fiber)'
      BY <3>1, <3>2, Lists DEF ActivationOK, Live, Exists
    <3>4. stack'[i].via = "require" =>
             i > 1 /\ stack'[i - 1].phase = "run" /\ stack'[i].phase # "deps"
      BY <1>2, <2>1, <3>1, <3>2 DEF ActivationOK
    <3>. QED
      BY <3>1, <3>2, <3>3, <3>4 DEF ActivationOK
  <2>2. ActivationOK(n + 1)'
    <3>1. Live(stack[n + 1].fiber)'
      BY <1>3 DEF Live, Exists
    <3>2. via = "require" => n + 1 > 1 /\ stack'[n].phase = "run"
      BY <1>2, <1>4
    <3>. QED
      BY <1>2, <1>3, <1>5, <3>1, <3>2 DEF ActivationOK
  <2>. QED
    BY <1>2, <1>6, <2>1, <2>2 DEF ActivationsOK
<1>9. /\ Active(f)'
      /\ \A g \in Fibers : Active(g) => Active(g)'
      /\ \A g \in Fibers \ {f} : Active(g)' => Active(g)
  BY <1>2, <1>3, <1>6 DEF Active
<1>10. RunningIsActive'
  BY <1>5, <1>9 DEF RunningIsActive, Sound
<1>11. ASSUME NEW d \in Fibers, NEW t \in Fibers, Requiring(d, t)
       PROVE  Requiring(d, t)'
  BY <1>2, <1>6, <1>11 DEF Requiring
<1>12. ASSUME NEW d \in Fibers, via = "require", d = Top.fiber
       PROVE  Requiring(d, f)'
  <2>1. n + 1 \in Depth' /\ n + 1 > 1 /\ stack'[n].fiber = d /\ n + 1 - 1 = n
    BY <1>2, <1>4, <1>6, <1>12
  <2>. QED
    BY <1>3, <1>12, <2>1 DEF Requiring
<1>. QED
  BY <1>7, <1>8, <1>9, <1>10, <1>11, <1>12

(* The innermost activation goes to another phase.                         *)
LEMMA TopInActivations ==
    ASSUME Types, Sound, stack # <<>>,
           NEW p \in Phases, NEW u \in Nat, NEW l \in LuaStates,
           stack' = TopIn(p, u),
           lua' = [lua EXCEPT ![Top.fiber] = l],
           slots' = slots, freed' = freed,
           \A g \in Fibers : Active(g) /\ g # Top.fiber /\ lua[g] # "running" => deps'[g] = deps[g],
           \/ p = "yield" /\ l = "suspended"
           \/ /\ p = "deps" /\ l \in {"empty", "leftover"}
              /\ u = Len(deps'[Top.fiber])
              /\ Top.via # "require"
    PROVE  /\ OneActivation' /\ ActivationsOK' /\ RunningIsActive'
           /\ \A g \in Fibers : Active(g)' <=> Active(g)
           /\ \A d, t \in Fibers : Requiring(d, t) => Requiring(d, t)'
<1>0. PICK n \in Nat : n = Len(stack)
  BY Activations
<1>1. stack \in Seq(Frames)
  BY DEF Types, TypeOK
<1>2. /\ n \in Nat \ {0}
      /\ Len(stack') = n
      /\ \A i \in 1 .. n - 1 : stack'[i] = stack[i]
      /\ stack'[n] = Put(Top, p, u)
      /\ Top = stack[n]
      /\ Top.fiber \in Fibers
  BY <1>0, <1>1, TopInShape, TopShape
<1>3. /\ stack'[n].fiber = Top.fiber
      /\ stack'[n].via = Top.via
      /\ stack'[n].phase = p
      /\ stack'[n].upto = u
  BY <1>2 DEF Put, Frame
<1>4. Depth = 1 .. n /\ Depth' = 1 .. n
  BY <1>0, <1>2 DEF Depth
<1>5. \A i \in 1 .. n : /\ stack[i].fiber \in Fibers
                        /\ stack'[i].fiber = stack[i].fiber
                        /\ stack'[i].via = stack[i].via
  BY <1>2, <1>3, <1>4, Activations
<1>6. \A i \in 1 .. n - 1 : stack[i].fiber # Top.fiber /\ stack[i].phase # "yield"
  <2>1. TAKE i \in 1 .. n - 1
  <2>2. i \in Depth /\ n \in Depth /\ i # n
    BY <1>2, <1>4
  <2>3. stack[i].fiber # Top.fiber
    BY <1>2, <2>2 DEF Sound, OneActivation
  <2>4. stack[i].phase # "yield"
    BY <1>0, <2>2 DEF Sound, ActivationsOK, ActivationOK
  <2>. QED
    BY <2>3, <2>4
<1>7. lua \in [Fibers -> LuaStates]
  BY DEF Types, TypeOK
<1>8. OneActivation'
  BY <1>4, <1>5 DEF OneActivation, Sound
<1>9. ActivationsOK'
  <2>1. ASSUME NEW i \in 1 .. n - 1 PROVE ActivationOK(i)'
    <3>1. ActivationOK(i) /\ i \in Depth /\ i \in 1 .. n
      BY <1>2, <1>4, <2>1 DEF Sound, ActivationsOK
    <3>2. /\ stack'[i] = stack[i]
          /\ stack[i].fiber \in Fibers
          /\ stack[i].fiber # Top.fiber
          /\ stack[i].phase # "yield"
          /\ lua'[stack[i].fiber] = lua[stack[i].fiber]
      BY <1>2, <1>4, <1>6, <1>7, <2>1, Activations
    <3>3. stack[i].phase = "deps" => deps'[stack[i].fiber] = deps[stack[i].fiber]
      BY <3>1, <3>2 DEF ActivationOK, Active
    <3>4. Live(stack[i].fiber)'
      BY <3>1, <3>2 DEF ActivationOK, Live, Exists
    <3>5. stack'[i].via = "require" =>
             i > 1 /\ stack'[i - 1].phase = "run" /\ stack'[i].phase # "deps"
      <4>1. i - 1 \in 1 .. n - 1 \/ i = 1
        BY <1>2, <2>1
      <4>. QED
        BY <1>2, <3>1, <3>2, <4>1 DEF ActivationOK
    <3>. QED
      BY <3>1, <3>2, <3>3, <3>4, <3>5 DEF ActivationOK
  <2>2. ActivationOK(n)'
    <3>1. ActivationOK(n) /\ n \in Depth
      BY <1>2, <1>4 DEF Sound, ActivationsOK
    <3>2. Live(stack[n].fiber)'
      BY <1>2, <1>3, <3>1 DEF ActivationOK, Live, Exists
    <3>3. Top.via = "require" => n > 1 /\ stack'[n - 1].phase = "run"
      <4>1. n > 1 => n - 1 \in 1 .. n - 1
        BY <1>2
      <4>. QED
        BY <1>2, <3>1, <4>1 DEF ActivationOK
    <3>4. lua'[Top.fiber] = l
      BY <1>2, <1>7
    <3>. QED
      BY <1>0, <1>2, <1>3, <3>2, <3>3, <3>4 DEF ActivationOK
  <2>. QED
    BY <1>2, <1>4, <2>1, <2>2 DEF ActivationsOK
<1>10. \A g \in Fibers : Active(g)' <=> Active(g)
  BY <1>4, <1>5 DEF Active
<1>11. RunningIsActive'
  BY <1>2, <1>7, <1>10 DEF RunningIsActive, Sound
<1>12. ASSUME NEW d \in Fibers, NEW t \in Fibers, Requiring(d, t)
       PROVE  Requiring(d, t)'
  <2>1. PICK i \in Depth : /\ i > 1
                           /\ stack[i].fiber = t
                           /\ stack[i].via = "require"
                           /\ stack[i - 1].fiber = d
    BY <1>12 DEF Requiring
  <2>2. i \in 1 .. n /\ i - 1 \in 1 .. n
    BY <1>2, <1>4, <2>1
  <2>. QED
    BY <1>4, <1>5, <2>1, <2>2 DEF Requiring
<1>. QED
  BY <1>8, <1>9, <1>10, <1>11, <1>12

(* Call returns to native code that leaves its own fiber as it was.        *)
LEMMA PopActivations ==
    ASSUME Types, Sound, stack # <<>>,
           Top.phase # "run", Top.via # "require",
           stack' = Below,
           freed' = freed \/ freed' = freed \cup {Top.fiber},
           UNCHANGED <<lua, slots, deps>>
    PROVE  /\ OneActivation' /\ ActivationsOK' /\ RunningIsActive'
           /\ \A g \in Fibers : Active(g)' <=> Active(g) /\ g # Top.fiber
           /\ \A d, t \in Fibers : Requiring(d, t) => Requiring(d, t)'
<1>0. PICK n \in Nat : n = Len(stack)
  BY Activations
<1>1. stack \in Seq(Frames)
  BY DEF Types, TypeOK
<1>2. /\ n > 0
      /\ Len(stack') = n - 1
      /\ \A i \in 1 .. n - 1 : stack'[i] = stack[i]
      /\ Top = stack[n]
      /\ Top.fiber \in Fibers
  BY <1>0, <1>1, BelowShape, TopShape
<1>3. Depth = 1 .. n /\ Depth' = 1 .. n - 1
  BY <1>0, <1>2 DEF Depth
<1>4. \A i \in 1 .. n - 1 : /\ stack[i].fiber \in Fibers
                            /\ stack[i].fiber # Top.fiber
                            /\ stack[i].phase # "yield"
                            /\ ActivationOK(i)
  <2>1. TAKE i \in 1 .. n - 1
  <2>2. i \in Depth /\ n \in Depth /\ i # n
    BY <1>2, <1>3
  <2>3. stack[i].fiber \in Fibers /\ stack[i].fiber # Top.fiber
    BY <1>2, <2>2, Activations DEF Sound, OneActivation
  <2>4. ActivationOK(i)
    BY <2>2 DEF Sound, ActivationsOK
  <2>5. stack[i].phase # "yield"
    BY <1>0, <2>2, <2>4 DEF ActivationOK
  <2>. QED
    BY <2>3, <2>4, <2>5
<1>5. OneActivation'
  BY <1>2, <1>3 DEF OneActivation, Sound
<1>6. ActivationsOK'
  <2>1. ASSUME NEW i \in 1 .. n - 1 PROVE ActivationOK(i)'
    <3>1. stack'[i] = stack[i]
      BY <1>2, <2>1
    <3>2. Live(stack[i].fiber)'
      BY <1>4, <2>1, <3>1 DEF ActivationOK, Live, Exists
    <3>3. stack'[i].via = "require" =>
             i > 1 /\ stack'[i - 1].phase = "run" /\ stack'[i].phase # "deps"
      <4>1. i - 1 \in 1 .. n - 1 \/ i = 1
        BY <1>2, <2>1
      <4>. QED
        BY <1>2, <1>4, <2>1, <3>1, <4>1 DEF ActivationOK
    <3>. QED
      BY <1>4, <2>1, <3>1, <3>2, <3>3 DEF ActivationOK
  <2>. QED
    BY <1>3, <2>1 DEF ActivationsOK
<1>7. \A g \in Fibers : Active(g)' <=> Active(g) /\ g # Top.fiber
  BY <1>2, <1>3, <1>4 DEF Active
<1>8. RunningIsActive'
  <2>1. lua[Top.fiber] # "running"
    <3>1. ActivationOK(n) /\ Top.phase \in Phases
      BY <1>1, <1>2, <1>3, TopShape DEF Sound, ActivationsOK
    <3>. QED
      BY <1>2, <3>1 DEF ActivationOK, Phases
  <2>. QED
    BY <1>7, <2>1 DEF RunningIsActive, Sound
<1>9. ASSUME NEW d \in Fibers, NEW t \in Fibers, Requiring(d, t)
      PROVE  Requiring(d, t)'
  <2>1. PICK i \in Depth : /\ i > 1
                           /\ stack[i].fiber = t
                           /\ stack[i].via = "require"
                           /\ stack[i - 1].fiber = d
    BY <1>9 DEF Requiring
  <2>2. i \in 1 .. n - 1 /\ i - 1 \in 1 .. n - 1
    BY <1>2, <1>3, <2>1
  <2>. QED
    BY <1>2, <1>3, <2>1, <2>2 DEF Requiring
<1>. QED
  BY <1>5, <1>6, <1>7, <1>8, <1>9

(* Call returns to require(), which yields.                                *)
LEMMA RequireActivations ==
    ASSUME Types, Sound, stack # <<>>,
           Top.phase = "yield", Top.via = "require",
           NEW d0 \in Fibers, d0 = stack[Len(stack) - 1].fiber,
           stack' = [Below EXCEPT ![Len(stack) - 1] =
                        Put(stack[Len(stack) - 1], "yield", 0)],
           lua' = [lua EXCEPT ![d0] = "suspended"],
           UNCHANGED <<freed, slots, deps>>
    PROVE  /\ OneActivation' /\ ActivationsOK' /\ RunningIsActive'
           /\ \A g \in Fibers : Active(g)' <=> Active(g) /\ g # Top.fiber
           /\ \A d, t \in Fibers :
                 Requiring(d, t) => Requiring(d, t)' \/ d = d0
           /\ lua[d0] = "running" /\ d0 # Top.fiber /\ Requiring(d0, Top.fiber)
<1>0. PICK n \in Nat : n = Len(stack)
  BY Activations
<1>. DEFINE up == n - 1
<1>1. stack \in Seq(Frames)
  BY DEF Types, TypeOK
<1>2. /\ up \in 1 .. n
      /\ Len(stack') = up
      /\ \A i \in 1 .. up - 1 : stack'[i] = stack[i]
      /\ stack'[up] = Put(stack[up], "yield", 0)
  BY <1>0, RequirerShape DEF Types
<1>3. /\ n > 1 /\ up \in Nat
      /\ Top = stack[n]
      /\ Top.fiber \in Fibers
      /\ stack'[up].fiber = stack[up].fiber
      /\ stack'[up].via = stack[up].via
      /\ stack'[up].phase = "yield"
  BY <1>0, <1>1, <1>2, TopShape DEF Put, Frame
<1>. HIDE DEF up
<1>4. Depth = 1 .. n /\ Depth' = 1 .. up /\ n = up + 1 /\ stack[up].fiber = d0
  BY <1>0, <1>2, <1>3 DEF Depth, up
<1>5. \A i \in 1 .. up : /\ stack[i].fiber \in Fibers
                         /\ stack'[i].fiber = stack[i].fiber
                         /\ stack'[i].via = stack[i].via
                         /\ stack[i].fiber # Top.fiber
                         /\ ActivationOK(i)
  <2>1. TAKE i \in 1 .. up
  <2>2. i \in Depth /\ n \in Depth /\ i # n
    BY <1>3, <1>4
  <2>3. stack[i].fiber \in Fibers /\ stack[i].fiber # Top.fiber
    BY <1>3, <2>2, Activations DEF Sound, OneActivation
  <2>4. ActivationOK(i)
    BY <2>2 DEF Sound, ActivationsOK
  <2>. QED
    BY <1>2, <1>3, <2>3, <2>4
<1>6. /\ ActivationOK(n)
      /\ stack[up].phase = "run"
      /\ lua[d0] = "running"
  <2>1. ActivationOK(n)
    BY <1>3, <1>4 DEF Sound, ActivationsOK
  <2>2. stack[up].phase = "run"
    BY <1>3, <1>4, <2>1 DEF ActivationOK
  <2>3. up \in 1 .. up
    BY <1>3, <1>4
  <2>. QED
    BY <1>4, <1>5, <2>1, <2>2, <2>3 DEF ActivationOK
<1>7. lua \in [Fibers -> LuaStates]
  BY DEF Types, TypeOK
<1>8. OneActivation'
  BY <1>3, <1>4, <1>5 DEF OneActivation, Sound
<1>9. ActivationsOK'
  <2>1. ASSUME NEW i \in 1 .. up - 1 PROVE ActivationOK(i)'
    <3>1. stack'[i] = stack[i] /\ i \in 1 .. up /\ i \in Depth /\ up \in Depth
      BY <1>2, <1>3, <1>4, <2>1
    <3>2. /\ stack[i].fiber \in Fibers /\ stack[i].fiber # d0
          /\ lua'[stack[i].fiber] = lua[stack[i].fiber]
      <4>1. stack[i].fiber # d0
        BY <1>3, <1>4, <2>1, <3>1 DEF Sound, OneActivation
      <4>. QED
        BY <1>5, <1>7, <3>1, <4>1
    <3>3. Live(stack[i].fiber)'
      BY <1>5, <3>1 DEF ActivationOK, Live, Exists
    <3>4. stack'[i].via = "require" =>
             i > 1 /\ stack'[i - 1].phase = "run" /\ stack'[i].phase # "deps"
      <4>1. ActivationOK(i)
        BY <1>5, <3>1
      <4>2. i > 1 => stack'[i - 1] = stack[i - 1]
        BY <1>2, <1>3, <2>1
      <4>. QED
        BY <3>1, <4>1, <4>2 DEF ActivationOK
    <3>5. stack[i].phase # "yield"
      BY <1>0, <1>3, <1>4, <1>5, <2>1, <3>1 DEF ActivationOK
    <3>. QED
      BY <1>5, <3>1, <3>2, <3>3, <3>4, <3>5 DEF ActivationOK
  <2>2. ActivationOK(up)'
    <3>1. up \in 1 .. up
      BY <1>3, <1>4
    <3>2. Live(stack[up].fiber)'
      BY <1>3, <1>5, <3>1 DEF ActivationOK, Live, Exists
    <3>3. stack'[up].via = "require" => up > 1 /\ stack'[up - 1].phase = "run"
      <4>1. up - 1 \in 1 .. up - 1 \/ up = 1
        BY <1>3, <1>4
      <4>. QED
        BY <1>2, <1>5, <3>1, <4>1 DEF ActivationOK
    <3>4. lua'[stack'[up].fiber] = "suspended" /\ up = Len(stack')
      BY <1>2, <1>3, <1>4, <1>7
    <3>. QED
      BY <1>3, <3>2, <3>3, <3>4 DEF ActivationOK
  <2>3. \A i \in 1 .. up : ActivationOK(i)'
    <3>1. \A i \in 1 .. up : i \in 1 .. up - 1 \/ i = up
      BY <1>3
    <3>. QED
      BY <2>1, <2>2, <3>1
  <2>. QED
    BY <1>4, <2>3 DEF ActivationsOK
<1>10. \A g \in Fibers : Active(g)' <=> Active(g) /\ g # Top.fiber
  <2>1. \A i \in Depth : i \in 1 .. up \/ stack[i].fiber = Top.fiber
    BY <1>3, <1>4
  <2>2. \A i \in 1 .. up : i \in Depth
    BY <1>3, <1>4
  <2>3. \A g \in Fibers : Active(g)' <=> \E i \in 1 .. up : stack[i].fiber = g
    BY <1>4, <1>5 DEF Active
  <2>. QED
    BY <1>5, <2>1, <2>2, <2>3 DEF Active
<1>11. RunningIsActive'
  <2>1. lua[Top.fiber] # "running"
    BY <1>3, <1>6 DEF ActivationOK
  <2>. QED
    BY <1>7, <1>10, <2>1 DEF RunningIsActive, Sound
<1>12. ASSUME NEW d \in Fibers, NEW t \in Fibers, Requiring(d, t), d # d0
       PROVE  Requiring(d, t)'
  <2>1. PICK i \in Depth : /\ i > 1
                           /\ stack[i].fiber = t
                           /\ stack[i].via = "require"
                           /\ stack[i - 1].fiber = d
    BY <1>12 DEF Requiring
  <2>2. i # n
    BY <1>3, <1>4, <1>12, <2>1
  <2>3. i \in 1 .. up /\ i - 1 \in 1 .. up
    BY <1>3, <1>4, <2>1, <2>2
  <2>. QED
    BY <1>4, <1>5, <2>1, <2>3 DEF Requiring
<1>13. Requiring(d0, Top.fiber)
  <2>1. n \in Depth /\ n > 1 /\ n - 1 = up
    BY <1>3, <1>4
  <2>. QED
    BY <1>3, <1>4, <2>1 DEF Requiring
<1>14. d0 # Top.fiber
  BY <1>3, <1>4, <1>5
<1>. QED
  BY <1>6, <1>8, <1>9, <1>10, <1>11, <1>12, <1>13, <1>14

-----------------------------------------------------------------------------
(* The parts of Sound after each kind of change.                           *)

(* A yielded fiber has returned from its activations.                      *)
LEMMA SuspendedIsIdle ==
    ASSUME Types, Sound, stack # <<>> => Top.phase # "yield",
           NEW f \in Fibers, lua[f] = "suspended"
    PROVE  ~Active(f)
<1>. SUFFICES ASSUME Active(f) PROVE FALSE
  OBVIOUS
<1>1. PICK i \in Depth : stack[i].fiber = f
  BY DEF Active
<1>2. ActivationOK(i) /\ stack[i].phase \in Phases
  BY <1>1, Activations DEF Sound, ActivationsOK
<1>3. stack[i].phase = "yield" /\ i = Len(stack)
  BY <1>1, <1>2 DEF ActivationOK, Phases
<1>4. stack # <<>>
  BY <1>1, EmptySeq DEF Depth
<1>. QED
  BY <1>3, <1>4 DEF Top

(* A parked fiber runs on.                                                 *)
LEMMA WakeSound ==
    ASSUME Types, Types', Sound,
           NEW f \in Fibers, NEW via \in Vias \ {"require"}, Run(f, via),
           lua[f] = "suspended",
           stack # <<>> => Top.phase # "yield",
           UNCHANGED <<slots, freed, deps, shared, killed>>,
           NoPending(f)',
           \A g \in Fibers \ {f} : pending'[g] = pending[g],
           \A g \in Fibers :
              \/ continued'[g] = continued[g]
              \/ /\ Active(g)
                 /\ lua[g] \in {"empty", "leftover"}
                 /\ continued'[g] \in continued[g] .. Len(deps[g]),
           \A t \in Fibers : \A i \in Outstanding(t)' : deps[t][i] # f
    PROVE  Sound'
<1>1. ~Active(f)
  BY SuspendedIsIdle
<1>2. f \in 1 .. slots /\ f \notin freed /\ slots \in Nat
  BY Lists DEF Sound, FibersOK, FiberOK, Live, Exists
<1>3. /\ OneActivation' /\ ActivationsOK' /\ RunningIsActive'
      /\ Active(f)'
      /\ \A g \in Fibers : Active(g) => Active(g)'
      /\ \A d, t \in Fibers : Requiring(d, t) => Requiring(d, t)'
  BY <1>1, <1>2, RunActivations
<1>4. /\ lua' = [lua EXCEPT ![f] = "running"]
      /\ lua \in [Fibers -> LuaStates]
  BY DEF Run, Types, TypeOK
<1>5. ASSUME NEW t \in Fibers, NEW i \in Outstanding(t)'
      PROVE  i \in Outstanding(t) /\ deps[t][i] \in Fibers \ {f}
  <2>1. Len(deps[t]) \in Nat /\ continued[t] \in Nat /\ continued'[t] \in Nat
    BY Lists DEF Types, TypeOK
  <2>2. i \in Outstanding(t)
    BY <1>5, <2>1 DEF Outstanding
  <2>. QED
    BY <1>5, <2>2, Lists
<1>6. \A g \in Fibers : Live(g)' <=> Live(g)
  BY DEF Live, Exists
<1>7. RequestsOK'
  <2>1. SUFFICES ASSUME NEW g \in Fibers, NEW k \in Kinds, pending'[g][k] > 0
                 PROVE  /\ Live(g)'
                        /\ lua'[g] = "suspended"
                        /\ pending'[g][k] = 1
                        /\ \A m \in Kinds \ {k} : pending'[g][m] = 0
    BY DEF RequestsOK
  <2>2. g # f
    BY <2>1 DEF NoPending
  <2>3. pending'[g] = pending[g] /\ lua'[g] = lua[g]
    BY <1>4, <2>2
  <2>. QED
    BY <1>6, <2>1, <2>3 DEF Sound, RequestsOK
<1>8. DependantsOK'
  <2>1. SUFFICES ASSUME NEW t \in Fibers, NEW i \in Outstanding(t)',
                        NEW d \in Fibers, d = deps[t][i]
                 PROVE  /\ Live(d)'
                        /\ NoPending(d)'
                        /\ lua'[d] = "suspended" \/ (lua'[d] = "running" /\ Requiring(d, t)')
    BY <1>5 DEF DependantsOK
  <2>2. i \in Outstanding(t) /\ d # f
    BY <1>5, <2>1
  <2>3. /\ Live(d)
        /\ NoPending(d)
        /\ lua[d] = "suspended" \/ (lua[d] = "running" /\ Requiring(d, t))
    BY <2>1, <2>2 DEF Sound, DependantsOK
  <2>4. lua'[d] = lua[d] /\ pending'[d] = pending[d]
    BY <1>4, <2>2
  <2>5. NoPending(d)'
    BY <2>3, <2>4 DEF NoPending
  <2>. QED
    BY <1>3, <1>6, <2>3, <2>4, <2>5
<1>9. DependantsOnce'
  BY <1>5 DEF DependantsOnce, Sound
<1>10. FibersOK'
  <2>1. SUFFICES ASSUME NEW g \in Fibers PROVE FiberOK(g)'
    BY DEF FibersOK
  <2>2. FiberOK(g) /\ Len(deps[g]) \in Nat /\ continued[g] \in Nat
    BY Lists DEF Sound, FibersOK
  <2>3. continued'[g] <= Len(deps[g])
    BY <2>2 DEF FiberOK
  <2>4. continued'[g] > 0 => lua'[g] \in {"empty", "leftover"}
    <3>1. CASE g = f
      BY <2>2, <3>1 DEF FiberOK
    <3>2. CASE g # f
      BY <1>4, <2>2, <3>2 DEF FiberOK
    <3>. QED
      BY <3>1, <3>2
  <2>5. lua'[g] \in {"suspended", "running"} => Live(g)'
    BY <1>2, <1>4, <1>6, <2>2 DEF FiberOK, Live, Exists
  <2>. QED
    BY <2>2, <2>3, <2>4, <2>5 DEF FiberOK, Exists
<1>11. DependantsServed'
  <2>1. SUFFICES ASSUME NEW g \in Fibers,
                        Exists(g)', lua'[g] \in {"empty", "leftover"},
                        g \notin killed', ~Active(g)'
                 PROVE  continued'[g] = Len(deps'[g])
    BY DEF DependantsServed
  <2>2. g # f /\ ~Active(g)
    BY <1>3, <2>1
  <2>. QED
    BY <1>4, <2>1, <2>2 DEF Sound, DependantsServed, Exists
<1>. QED
  BY <1>3, <1>7, <1>8, <1>9, <1>10, <1>11 DEF Sound

(* A new fiber runs: Plugin::Start, Fiber.New and require().               *)
LEMMA BirthSound ==
    ASSUME Types, Types', Sound,
           NEW f \in Fibers, f = slots + 1, slots' = f,
           NEW via \in Vias, Run(f, via),
           stack # <<>> => Top.phase = "run",
           UNCHANGED <<freed, pending, continued, shared, killed>>,
           \/ via # "require" /\ UNCHANGED deps
           \/ /\ via = "require" /\ stack # <<>>
              /\ deps' = [deps EXCEPT ![f] = Append(@, Top.fiber)]
    PROVE  Sound'
<1>. USE MaxPendingAssumption
<1>1. /\ slots \in Nat /\ ~Exists(f)
      /\ lua[f] \notin {"suspended", "running"}
      /\ deps[f] = <<>> /\ continued[f] = 0
      /\ f \notin freed
  <2>1. slots \in Nat /\ ~Exists(f)
    BY Lists DEF Exists
  <2>2. FiberOK(f)
    BY DEF Sound, FibersOK
  <2>3. deps[f] = <<>> /\ continued[f] = 0
    BY <2>1, <2>2, Lists, EmptySeq DEF FiberOK
  <2>. QED
    BY <2>1, <2>2, <2>3 DEF FiberOK, Live
<1>2. NoPending(f) /\ ~Active(f)
  <2>1. \A k \in Kinds : pending[f][k] \in Nat /\ ~(pending[f][k] > 0)
    BY <1>1 DEF Sound, RequestsOK, Live, Types, TypeOK
  <2>2. ~Active(f)
    BY <1>1 DEF Sound, ActivationsOK, ActivationOK, Active, Live
  <2>. QED
    BY <2>1, <2>2 DEF NoPending
<1>3. /\ OneActivation' /\ ActivationsOK' /\ RunningIsActive'
      /\ Active(f)'
      /\ \A g \in Fibers : Active(g) => Active(g)'
      /\ \A d, t \in Fibers : Requiring(d, t) => Requiring(d, t)'
      /\ \A d \in Fibers : via = "require" /\ d = Top.fiber => Requiring(d, f)'
  <2>1. \A g \in Fibers : Active(g) => deps'[g] = deps[g]
    BY <1>2 DEF Types, TypeOK
  <2>. QED
    BY <1>1, <1>2, <2>1, RunActivations
<1>4. /\ lua' = [lua EXCEPT ![f] = "running"]
      /\ lua \in [Fibers -> LuaStates]
      /\ \A g \in Fibers : g # f => deps'[g] = deps[g]
  BY DEF Run, Types, TypeOK
<1>5. \A g \in Fibers : Live(g) => Live(g)' /\ g # f
  BY <1>1 DEF Live, Exists
<1>6. stack # <<>> =>
         /\ Top.fiber \in Fibers /\ Live(Top.fiber) /\ Top.fiber # f
         /\ lua[Top.fiber] = "running"
         /\ NoPending(Top.fiber)
         /\ \A t \in Fibers : \A i \in Outstanding(t) : deps[t][i] # Top.fiber
  <2>1. SUFFICES ASSUME stack # <<>>
                 PROVE  /\ Top.fiber \in Fibers /\ Live(Top.fiber) /\ Top.fiber # f
                        /\ lua[Top.fiber] = "running"
                        /\ NoPending(Top.fiber)
                        /\ \A t \in Fibers : \A i \in Outstanding(t) : deps[t][i] # Top.fiber
    OBVIOUS
  <2>2. Len(stack) \in Depth /\ Top = stack[Len(stack)] /\ Top.fiber \in Fibers
    BY <2>1, TopShape DEF Types, TypeOK, Depth
  <2>3. ActivationOK(Len(stack))
    BY <2>2 DEF Sound, ActivationsOK
  <2>4. Live(Top.fiber) /\ lua[Top.fiber] = "running"
    BY <2>1, <2>2, <2>3 DEF ActivationOK
  <2>. QED
    BY <1>5, <2>1, <2>2, <2>4, TopWaitsForNothing
<1>7. ASSUME NEW t \in Fibers, NEW i \in Outstanding(t)'
      PROVE  \/ /\ i \in Outstanding(t) /\ deps'[t][i] = deps[t][i]
                /\ t # f /\ deps[t][i] \in Fibers
             \/ /\ t = f /\ i = 1 /\ deps'[t][i] = Top.fiber
                /\ stack # <<>> /\ via = "require"
  <2>1. CASE t # f
    BY <1>4, <1>7, <2>1, Lists DEF Outstanding
  <2>2. CASE t = f
    <3>1. CASE UNCHANGED deps
      <4>1. i \in 0 + 1 .. Len(<<>>)
        BY <1>1, <1>7, <2>2, <3>1 DEF Outstanding
      <4>. QED
        BY <4>1, EmptySeq
    <3>2. CASE /\ via = "require" /\ stack # <<>>
               /\ deps' = [deps EXCEPT ![f] = Append(@, Top.fiber)]
      <4>1. deps'[f] = Append(<<>>, Top.fiber)
        BY <1>1, <3>2 DEF Types, TypeOK
      <4>2. Append(<<>>, Top.fiber) = <<Top.fiber>>
        BY <1>6, <3>2
      <4>3. Len(deps'[f]) = 1 /\ deps'[f][1] = Top.fiber
        BY <4>1, <4>2
      <4>4. i = 1
        BY <1>1, <1>7, <2>2, <4>3 DEF Outstanding
      <4>. QED
        BY <2>2, <3>2, <4>3, <4>4
    <3>. QED
      BY <3>1, <3>2
  <2>. QED
    BY <2>1, <2>2
<1>8. RequestsOK'
  <2>1. SUFFICES ASSUME NEW g \in Fibers, NEW k \in Kinds, pending[g][k] > 0
                 PROVE  /\ Live(g)'
                        /\ lua'[g] = "suspended"
                        /\ pending[g][k] = 1
                        /\ \A m \in Kinds \ {k} : pending[g][m] = 0
    BY DEF RequestsOK
  <2>2. /\ Live(g) /\ lua[g] = "suspended" /\ pending[g][k] = 1
        /\ \A m \in Kinds \ {k} : pending[g][m] = 0
    BY <2>1 DEF Sound, RequestsOK
  <2>. QED
    BY <1>4, <1>5, <2>2
<1>9. DependantsOK'
  <2>1. SUFFICES ASSUME NEW t \in Fibers, NEW i \in Outstanding(t)',
                        NEW d \in Fibers, d = deps'[t][i]
                 PROVE  /\ Live(d)'
                        /\ NoPending(d)'
                        /\ lua'[d] = "suspended" \/ (lua'[d] = "running" /\ Requiring(d, t)')
    BY <1>6, <1>7 DEF DependantsOK
  <2>2. CASE i \in Outstanding(t) /\ deps'[t][i] = deps[t][i] /\ t # f
    <3>1. /\ Live(d)
          /\ NoPending(d)
          /\ lua[d] = "suspended" \/ (lua[d] = "running" /\ Requiring(d, t))
      BY <2>1, <2>2 DEF Sound, DependantsOK
    <3>2. lua'[d] = lua[d] /\ NoPending(d)'
      BY <1>4, <1>5, <3>1 DEF NoPending
    <3>. QED
      BY <1>3, <1>5, <3>1, <3>2
  <2>3. CASE t = f /\ d = Top.fiber /\ stack # <<>> /\ via = "require"
    <3>1. Live(d) /\ lua[d] = "running" /\ NoPending(d) /\ d # f
      BY <1>6, <2>3
    <3>2. NoPending(d)' /\ lua'[d] = "running"
      BY <1>4, <3>1 DEF NoPending
    <3>3. Requiring(d, t)'
      BY <1>3, <2>3
    <3>. QED
      BY <1>5, <3>1, <3>2, <3>3
  <2>. QED
    BY <1>7, <2>1, <2>2, <2>3
<1>10. DependantsOnce'
  BY <1>6, <1>7 DEF DependantsOnce, Sound
<1>11. FibersOK'
  <2>1. SUFFICES ASSUME NEW g \in Fibers PROVE FiberOK(g)'
    BY DEF FibersOK
  <2>2. FiberOK(g) /\ Len(deps[g]) \in Nat /\ continued[g] \in Nat
    BY Lists DEF Sound, FibersOK
  <2>3. CASE g # f
    <3>1. deps'[g] = deps[g] /\ lua'[g] = lua[g] /\ (g > slots' => g > slots)
      BY <1>1, <1>4, <2>3, Lists
    <3>. QED
      BY <1>1, <1>5, <2>2, <3>1 DEF FiberOK, Exists
  <2>4. CASE g = f
    <3>1. /\ continued'[f] = 0 /\ Len(deps'[f]) \in Nat
          /\ ~(f > slots') /\ Exists(f)' /\ Live(f)'
      BY <1>1, Lists, ListLength DEF Exists, Live, Types, TypeOK
    <3>. QED
      BY <2>4, <3>1 DEF FiberOK
  <2>. QED
    BY <2>3, <2>4
<1>12. DependantsServed'
  <2>1. SUFFICES ASSUME NEW g \in Fibers,
                        Exists(g)', lua'[g] \in {"empty", "leftover"},
                        g \notin killed', ~Active(g)'
                 PROVE  continued'[g] = Len(deps'[g])
    BY DEF DependantsServed
  <2>2. g # f /\ ~Active(g) /\ Exists(g)
    BY <1>1, <1>3, <2>1 DEF Exists
  <2>. QED
    BY <1>4, <2>1, <2>2 DEF Sound, DependantsServed
<1>. QED
  BY <1>3, <1>8, <1>9, <1>10, <1>11, <1>12 DEF Sound

(* The executing fiber yields: Await, the requests and Fiber:Depend.       *)
LEMMA YieldSound ==
    ASSUME Types, Types', Sound, stack # <<>>,
           NEW f \in Fibers, f = Top.fiber, Top.phase = "run",
           Yield(f),
           UNCHANGED <<slots, freed, continued, shared, killed>>,
           \/ UNCHANGED <<deps, pending>>
           \/ /\ UNCHANGED deps
              /\ \E k \in Kinds : pending' = [pending EXCEPT ![f][k] = @ + 1]
           \/ /\ UNCHANGED pending
              /\ \E t \in Fibers : /\ MayDepend(f, t)
                                   /\ deps' = [deps EXCEPT ![t] = Append(@, f)]
    PROVE  Sound'
<1>1. Live(f) /\ lua[f] = "running" /\ Active(f)
  <2>1. Len(stack) \in Depth /\ Top = stack[Len(stack)]
    BY TopShape DEF Types, TypeOK, Depth
  <2>2. ActivationOK(Len(stack))
    BY <2>1 DEF Sound, ActivationsOK
  <2>. QED
    BY <2>1, <2>2 DEF ActivationOK, Active
<1>2. /\ \A k \in Kinds : pending[f][k] = 0
      /\ \A t \in Fibers : \A i \in Outstanding(t) : deps[t][i] # f
  BY <1>1, TopWaitsForNothing DEF NoPending
<1>3. /\ lua' = [lua EXCEPT ![f] = "suspended"]
      /\ lua \in [Fibers -> LuaStates]
      /\ pending \in [Fibers -> [Kinds -> 0 .. MaxPending]]
      /\ deps \in [Fibers -> Seq(Fibers)]
  BY DEF Yield, Types, TypeOK
<1>4. \A g \in Fibers : Live(g)' <=> Live(g)
  BY DEF Live, Exists
(* Who may have been appended to which list.                               *)
<1>5. ASSUME NEW t \in Fibers
      PROVE  \/ deps'[t] = deps[t]
             \/ /\ deps'[t] = Append(deps[t], f)
                /\ t # f /\ lua[t] \in {"suspended", "running"}
                /\ UNCHANGED pending
                /\ \A u \in Fibers \ {t} : deps'[u] = deps[u]
  <2>1. CASE UNCHANGED deps
    BY <2>1
  <2>2. CASE /\ UNCHANGED pending
             /\ \E u \in Fibers : /\ MayDepend(f, u)
                                  /\ deps' = [deps EXCEPT ![u] = Append(@, f)]
    BY <1>3, <2>2 DEF MayDepend
  <2>. QED
    BY <2>1, <2>2
<1>6. /\ OneActivation' /\ ActivationsOK' /\ RunningIsActive'
      /\ \A g \in Fibers : Active(g)' <=> Active(g)
      /\ \A d, t \in Fibers : Requiring(d, t) => Requiring(d, t)'
  <2>1. \A g \in Fibers : Active(g) /\ g # Top.fiber /\ lua[g] # "running"
                             => deps'[g] = deps[g]
    BY <1>5, SuspendedIsIdle
  <2>2. "yield" \in Phases /\ 0 \in Nat /\ "suspended" \in LuaStates
    BY DEF Phases, LuaStates
  <2>3. stack' = TopIn("yield", 0)
    BY DEF Yield
  <2>. QED
    BY <1>3, <2>1, <2>2, <2>3, TopInActivations
<1>7. ASSUME NEW t \in Fibers, NEW i \in Outstanding(t)'
      PROVE  \/ /\ i \in Outstanding(t) /\ deps'[t][i] = deps[t][i]
                /\ deps[t][i] \in Fibers \ {f}
             \/ /\ i = Len(deps[t]) + 1 /\ deps'[t][i] = f
                /\ UNCHANGED pending
                /\ \A u \in Fibers \ {t} : deps'[u] = deps[u]
  <2>1. Len(deps[t]) \in Nat /\ continued[t] \in Nat
    BY Lists
  <2>2. CASE deps'[t] = deps[t]
    <3>1. i \in Outstanding(t)
      BY <1>7, <2>2 DEF Outstanding
    <3>. QED
      BY <1>2, <2>2, <3>1, Lists
  <2>3. CASE /\ deps'[t] = Append(deps[t], f)
             /\ UNCHANGED pending
             /\ \A u \in Fibers \ {t} : deps'[u] = deps[u]
    <3>1. /\ Len(deps'[t]) = Len(deps[t]) + 1
          /\ deps'[t][Len(deps[t]) + 1] = f
          /\ \A j \in 1 .. Len(deps[t]) : deps'[t][j] = deps[t][j]
      BY <1>3, <2>3, AppendProperties
    <3>2. CASE i = Len(deps[t]) + 1
      BY <2>3, <3>1, <3>2
    <3>3. CASE i # Len(deps[t]) + 1
      <4>1. i \in Outstanding(t) /\ i \in 1 .. Len(deps[t])
        BY <1>7, <2>1, <3>1, <3>3 DEF Outstanding
      <4>. QED
        BY <1>2, <3>1, <4>1, Lists
    <3>. QED
      BY <3>2, <3>3
  <2>. QED
    BY <1>5, <2>2, <2>3
<1>8. RequestsOK'
  <2>1. SUFFICES ASSUME NEW g \in Fibers, NEW k \in Kinds, pending'[g][k] > 0
                 PROVE  /\ Live(g)'
                        /\ lua'[g] = "suspended"
                        /\ pending'[g][k] = 1
                        /\ \A m \in Kinds \ {k} : pending'[g][m] = 0
    BY DEF RequestsOK
  <2>2. CASE g # f
    <3>1. pending'[g] = pending[g] /\ lua'[g] = lua[g]
      BY <1>3, <2>2
    <3>. QED
      BY <1>4, <2>1, <3>1 DEF Sound, RequestsOK
  <2>3. CASE g = f
    <3>1. \E m \in Kinds : pending' = [pending EXCEPT ![f][m] = 0 + 1]
      <4>1. ~UNCHANGED pending
        BY <1>2, <2>1, <2>3
      <4>2. PICK m \in Kinds : pending' = [pending EXCEPT ![f][m] = @ + 1]
        BY <4>1
      <4>3. pending[f][m] = 0
        BY <1>2
      <4>. QED
        BY <4>2, <4>3
    <3>2. /\ pending'[g][k] = 1
          /\ \A m \in Kinds \ {k} : pending'[g][m] = 0
      BY <1>2, <1>3, <2>1, <2>3, <3>1
    <3>. QED
      BY <1>1, <1>3, <1>4, <2>3, <3>2
  <2>. QED
    BY <2>2, <2>3
<1>9. DependantsOK'
  <2>1. SUFFICES ASSUME NEW t \in Fibers, NEW i \in Outstanding(t)',
                        NEW d \in Fibers, d = deps'[t][i]
                 PROVE  /\ Live(d)'
                        /\ NoPending(d)'
                        /\ lua'[d] = "suspended" \/ (lua'[d] = "running" /\ Requiring(d, t)')
    BY <1>7 DEF DependantsOK
  <2>2. CASE i \in Outstanding(t) /\ deps'[t][i] = deps[t][i] /\ d # f
    <3>1. /\ Live(d)
          /\ NoPending(d)
          /\ lua[d] = "suspended" \/ (lua[d] = "running" /\ Requiring(d, t))
      BY <2>1, <2>2 DEF Sound, DependantsOK
    <3>2. lua'[d] = lua[d] /\ pending'[d] = pending[d]
      BY <1>3, <2>2
    <3>3. NoPending(d)'
      BY <3>1, <3>2 DEF NoPending
    <3>. QED
      BY <1>4, <1>6, <3>1, <3>2, <3>3
  <2>3. CASE d = f /\ UNCHANGED pending
    BY <1>1, <1>2, <1>3, <1>4, <2>3 DEF NoPending
  <2>. QED
    BY <1>7, <2>1, <2>2, <2>3
<1>10. DependantsOnce'
  <2>1. SUFFICES ASSUME NEW t \in Fibers, NEW u \in Fibers,
                        NEW i \in Outstanding(t)', NEW j \in Outstanding(u)',
                        deps'[t][i] = deps'[u][j]
                 PROVE  t = u /\ i = j
    BY DEF DependantsOnce
  <2>2. CASE deps'[t][i] # f
    BY <1>7, <2>1, <2>2 DEF Sound, DependantsOnce
  <2>3. CASE deps'[t][i] = f
    <3>1. i = Len(deps[t]) + 1 /\ \A v \in Fibers \ {t} : deps'[v] = deps[v]
      BY <1>7, <2>3
    <3>2. j = Len(deps[u]) + 1 /\ \A v \in Fibers \ {u} : deps'[v] = deps[v]
      BY <1>7, <2>1, <2>3
    <3>3. t = u
      <4>1. SUFFICES ASSUME t # u PROVE FALSE
        OBVIOUS
      <4>2. deps'[u] = deps[u]
        BY <3>1, <4>1
      <4>3. Len(deps[u]) \in Nat /\ j <= Len(deps[u])
        BY <2>1, <4>2, Lists DEF Outstanding
      <4>. QED
        BY <3>2, <4>3
    <3>. QED
      BY <3>1, <3>2, <3>3
  <2>. QED
    BY <2>2, <2>3
<1>11. FibersOK'
  <2>1. SUFFICES ASSUME NEW g \in Fibers PROVE FiberOK(g)'
    BY DEF FibersOK
  <2>2. FiberOK(g) /\ Len(deps[g]) \in Nat /\ continued[g] \in Nat
    BY Lists DEF Sound, FibersOK
  <2>3. continued[g] <= Len(deps'[g]) /\ (g > slots => deps'[g] = <<>>)
    <3>1. CASE deps'[g] = deps[g]
      BY <2>2, <3>1 DEF FiberOK
    <3>2. CASE deps'[g] = Append(deps[g], f) /\ lua[g] \in {"suspended", "running"}
      <4>1. Len(deps'[g]) = Len(deps[g]) + 1
        BY <1>3, <3>2, AppendProperties
      <4>2. ~(g > slots)
        BY <2>2, <3>2, Lists DEF FiberOK, Live, Exists
      <4>. QED
        BY <2>2, <4>1, <4>2 DEF FiberOK
    <3>. QED
      BY <1>5, <3>1, <3>2
  <2>4. continued[g] > 0 => lua'[g] \in {"empty", "leftover"}
    BY <1>1, <1>3, <2>2 DEF FiberOK
  <2>5. lua'[g] \in {"suspended", "running"} => Live(g)'
    BY <1>1, <1>3, <1>4, <2>2 DEF FiberOK
  <2>. QED
    BY <2>2, <2>3, <2>4, <2>5 DEF FiberOK, Exists
<1>12. DependantsServed'
  <2>1. SUFFICES ASSUME NEW g \in Fibers,
                        Exists(g)', lua'[g] \in {"empty", "leftover"},
                        g \notin killed', ~Active(g)'
                 PROVE  continued'[g] = Len(deps'[g])
    BY DEF DependantsServed
  <2>2. g # f /\ ~Active(g) /\ Exists(g) /\ lua[g] \in {"empty", "leftover"}
    BY <1>3, <1>6, <2>1 DEF Exists
  <2>3. deps'[g] = deps[g]
    BY <1>5, <2>2
  <2>. QED
    BY <2>1, <2>2, <2>3 DEF Sound, DependantsServed
<1>. QED
  BY <1>6, <1>8, <1>9, <1>10, <1>11, <1>12 DEF Sound

(* The executing fiber ends.                                               *)
LEMMA FinishSound ==
    ASSUME Types, Types', Sound, stack # <<>>,
           NEW f \in Fibers, f = Top.fiber, Top.phase = "run", Top.via # "require",
           NEW left \in {"empty", "leftover"},
           Conclude(f, left, TopIn("deps", Len(deps[f]))),
           UNCHANGED <<slots, freed, pending, deps, continued, shared, killed>>
    PROVE  Sound' /\ fault' = fault
<1>1. Live(f) /\ lua[f] = "running" /\ Active(f)
  <2>1. Len(stack) \in Depth /\ Top = stack[Len(stack)]
    BY TopShape DEF Types, TypeOK, Depth
  <2>2. ActivationOK(Len(stack))
    BY <2>1 DEF Sound, ActivationsOK
  <2>. QED
    BY <2>1, <2>2 DEF ActivationOK, Active
<1>2. /\ \A k \in Kinds : pending[f][k] = 0
      /\ \A t \in Fibers : \A i \in Outstanding(t) : deps[t][i] # f
  BY <1>1, TopWaitsForNothing DEF NoPending
<1>3. /\ lua' = [lua EXCEPT ![f] = left]
      /\ stack' = TopIn("deps", Len(deps[f]))
      /\ fault' = fault
  <2>1. ~(continued'[f] > 0)
    BY <1>1, Lists DEF Sound, FibersOK, FiberOK
  <2>. QED
    BY <2>1 DEF Conclude
<1>4. lua \in [Fibers -> LuaStates] /\ \A g \in Fibers \ {f} : lua'[g] = lua[g]
  BY <1>3 DEF Types, TypeOK
<1>5. \A g \in Fibers : Live(g)' <=> Live(g)
  BY DEF Live, Exists
<1>6. /\ OneActivation' /\ ActivationsOK' /\ RunningIsActive'
      /\ \A g \in Fibers : Active(g)' <=> Active(g)
      /\ \A d, t \in Fibers : Requiring(d, t) => Requiring(d, t)'
  <2>1. "deps" \in Phases /\ Len(deps[f]) \in Nat /\ left \in LuaStates
    BY Lists DEF Phases, LuaStates
  <2>2. Len(deps[f]) = Len(deps'[Top.fiber])
    OBVIOUS
  <2>3. \A g \in Fibers : Active(g) /\ g # Top.fiber /\ lua[g] # "running"
                             => deps'[g] = deps[g]
    OBVIOUS
  <2>4. lua' = [lua EXCEPT ![Top.fiber] = left]
    BY <1>3
  <2>. QED
    BY <1>3, <2>1, <2>2, <2>3, <2>4, TopInActivations
<1>7. RequestsOK'
  <2>1. SUFFICES ASSUME NEW g \in Fibers, NEW k \in Kinds, pending[g][k] > 0
                 PROVE  /\ Live(g)'
                        /\ lua'[g] = "suspended"
                        /\ pending[g][k] = 1
                        /\ \A m \in Kinds \ {k} : pending[g][m] = 0
    BY DEF RequestsOK
  <2>2. g # f
    BY <1>2, <2>1
  <2>. QED
    BY <1>4, <1>5, <2>1, <2>2 DEF Sound, RequestsOK
<1>8. DependantsOK'
  <2>1. SUFFICES ASSUME NEW t \in Fibers, NEW i \in Outstanding(t),
                        NEW d \in Fibers, d = deps[t][i]
                 PROVE  /\ Live(d)'
                        /\ NoPending(d)'
                        /\ lua'[d] = "suspended" \/ (lua'[d] = "running" /\ Requiring(d, t)')
    BY Lists DEF DependantsOK, Outstanding
  <2>2. d # f
    BY <1>2, <2>1
  <2>3. /\ Live(d)
        /\ NoPending(d)
        /\ lua[d] = "suspended" \/ (lua[d] = "running" /\ Requiring(d, t))
    BY <2>1 DEF Sound, DependantsOK
  <2>4. NoPending(d)'
    BY <2>3 DEF NoPending
  <2>. QED
    BY <1>4, <1>5, <1>6, <2>2, <2>3, <2>4
<1>9. DependantsOnce'
  BY DEF DependantsOnce, Sound, Outstanding
<1>10. FibersOK'
  <2>1. SUFFICES ASSUME NEW g \in Fibers PROVE FiberOK(g)'
    BY DEF FibersOK
  <2>2. FiberOK(g)
    BY DEF Sound, FibersOK
  <2>. QED
    BY <1>3, <1>4, <1>5, <2>2 DEF FiberOK, Exists, Types, TypeOK
<1>11. DependantsServed'
  <2>1. SUFFICES ASSUME NEW g \in Fibers,
                        Exists(g)', lua'[g] \in {"empty", "leftover"},
                        g \notin killed', ~Active(g)'
                 PROVE  continued'[g] = Len(deps'[g])
    BY DEF DependantsServed
  <2>2. g # f
    BY <1>1, <1>6, <2>1
  <2>. QED
    BY <1>4, <1>6, <2>1, <2>2 DEF Sound, DependantsServed, Exists
<1>. QED
  BY <1>3, <1>6, <1>7, <1>8, <1>9, <1>10, <1>11 DEF Sound

(* What a returned activation leaves: the dependants of its fiber have     *)
(* been continued if it ended, and a deleted fiber is one that ended.      *)
LEMMA PopSound ==
    ASSUME Types, Types', Sound, stack # <<>>,
           Top.phase # "run", Top.via # "require",
           Top.phase = "deps" => continued[Top.fiber] >= Top.upto,
           stack' = Below,
           freed' = IF Top.phase = "deps" /\ ~KeepsFiber(Top.via)
                    THEN freed \cup {Top.fiber} ELSE freed,
           shared' = shared \/ shared' = shared \cup {Top.fiber},
           UNCHANGED <<slots, lua, pending, deps, continued, killed>>
    PROVE  Sound'
<1>1. Len(stack) \in Depth /\ Top = stack[Len(stack)] /\ Top.fiber \in Fibers
      /\ Top.phase \in Phases
  BY TopShape DEF Types, TypeOK, Depth
<1>2. ActivationOK(Len(stack))
  BY <1>1 DEF Sound, ActivationsOK
<1>3. /\ Live(Top.fiber)
      /\ Top.phase = "yield" => lua[Top.fiber] = "suspended"
      /\ Top.phase = "deps" => /\ lua[Top.fiber] \in {"empty", "leftover"}
                               /\ continued[Top.fiber] = Len(deps[Top.fiber])
  <2>1. Top.phase = "deps" => continued[Top.fiber] >= Len(deps[Top.fiber])
    BY <1>1, <1>2 DEF ActivationOK
  <2>2. continued[Top.fiber] <= Len(deps[Top.fiber])
    BY <1>1 DEF Sound, FibersOK, FiberOK
  <2>3. continued[Top.fiber] \in Nat /\ Len(deps[Top.fiber]) \in Nat
    BY <1>1, Lists
  <2>. QED
    BY <1>1, <1>2, <2>1, <2>2, <2>3 DEF ActivationOK
<1>4. /\ OneActivation' /\ ActivationsOK' /\ RunningIsActive'
      /\ \A g \in Fibers : Active(g)' <=> Active(g) /\ g # Top.fiber
      /\ \A d, t \in Fibers : Requiring(d, t) => Requiring(d, t)'
  <2>1. freed' = freed \/ freed' = freed \cup {Top.fiber}
    OBVIOUS
  <2>. QED
    BY <2>1, PopActivations
<1>5. \A g \in Fibers : Live(g) /\ lua[g] \in {"suspended", "running"} => Live(g)'
  BY <1>3 DEF Live, Exists
<1>6. RequestsOK'
  BY <1>5 DEF Sound, RequestsOK
<1>7. DependantsOK'
  <2>1. SUFFICES ASSUME NEW t \in Fibers, NEW i \in Outstanding(t),
                        NEW d \in Fibers, d = deps[t][i]
                 PROVE  /\ Live(d)'
                        /\ NoPending(d)'
                        /\ lua'[d] = "suspended" \/ (lua'[d] = "running" /\ Requiring(d, t)')
    BY Lists DEF DependantsOK, Outstanding
  <2>2. /\ Live(d)
        /\ NoPending(d)
        /\ lua[d] = "suspended" \/ (lua[d] = "running" /\ Requiring(d, t))
    BY <2>1 DEF Sound, DependantsOK
  <2>3. NoPending(d)'
    BY <2>2 DEF NoPending
  <2>. QED
    BY <1>4, <1>5, <2>2, <2>3
<1>8. DependantsOnce'
  BY DEF DependantsOnce, Sound, Outstanding
<1>9. FibersOK'
  <2>1. SUFFICES ASSUME NEW g \in Fibers PROVE FiberOK(g)'
    BY DEF FibersOK
  <2>2. FiberOK(g)
    BY DEF Sound, FibersOK
  <2>. QED
    BY <1>3, <1>5, <2>2 DEF FiberOK, Exists, Live
<1>10. DependantsServed'
  <2>1. SUFFICES ASSUME NEW g \in Fibers,
                        Exists(g), lua[g] \in {"empty", "leftover"},
                        g \notin killed, ~Active(g)'
                 PROVE  continued[g] = Len(deps[g])
    BY DEF DependantsServed, Exists
  <2>2. CASE g = Top.fiber
    BY <1>1, <1>3, <2>1, <2>2 DEF Phases
  <2>3. CASE g # Top.fiber
    BY <1>4, <2>1, <2>3 DEF Sound, DependantsServed
  <2>. QED
    BY <2>2, <2>3
<1>. QED
  BY <1>4, <1>6, <1>7, <1>8, <1>9, <1>10 DEF Sound

(* Call returns to require() and the requiring fiber yields.               *)
LEMMA RequireReturnSound ==
    ASSUME Types, Types', Sound, stack # <<>>,
           Top.phase = "yield", Top.via = "require",
           NEW d0 \in Fibers, d0 = stack[Len(stack) - 1].fiber,
           stack' = [Below EXCEPT ![Len(stack) - 1] =
                        Put(stack[Len(stack) - 1], "yield", 0)],
           lua' = [lua EXCEPT ![d0] = "suspended"],
           UNCHANGED <<slots, freed, pending, deps, continued, shared, killed>>
    PROVE  Sound'
<1>1. /\ OneActivation' /\ ActivationsOK' /\ RunningIsActive'
      /\ \A g \in Fibers : Active(g)' <=> Active(g) /\ g # Top.fiber
      /\ \A d, t \in Fibers : Requiring(d, t) => Requiring(d, t)' \/ d = d0
      /\ lua[d0] = "running" /\ d0 # Top.fiber
  BY RequireActivations
<1>2. /\ lua \in [Fibers -> LuaStates]
      /\ \A g \in Fibers \ {d0} : lua'[g] = lua[g]
      /\ lua'[d0] = "suspended"
  BY DEF Types, TypeOK
<1>3. \A g \in Fibers : Live(g)' <=> Live(g)
  BY DEF Live, Exists
<1>4. lua[Top.fiber] = "suspended" /\ Top.fiber \in Fibers
  <2>1. Len(stack) \in Depth /\ Top = stack[Len(stack)] /\ Top.fiber \in Fibers
    BY TopShape DEF Types, TypeOK, Depth
  <2>2. ActivationOK(Len(stack))
    BY <2>1 DEF Sound, ActivationsOK
  <2>. QED
    BY <2>1, <2>2 DEF ActivationOK
<1>5. RequestsOK'
  BY <1>2, <1>3 DEF Sound, RequestsOK
<1>6. DependantsOK'
  <2>1. SUFFICES ASSUME NEW t \in Fibers, NEW i \in Outstanding(t),
                        NEW d \in Fibers, d = deps[t][i]
                 PROVE  /\ Live(d)'
                        /\ NoPending(d)'
                        /\ lua'[d] = "suspended" \/ (lua'[d] = "running" /\ Requiring(d, t)')
    BY Lists DEF DependantsOK, Outstanding
  <2>2. /\ Live(d)
        /\ NoPending(d)
        /\ lua[d] = "suspended" \/ (lua[d] = "running" /\ Requiring(d, t))
    BY <2>1 DEF Sound, DependantsOK
  <2>3. NoPending(d)'
    BY <2>2 DEF NoPending
  <2>. QED
    BY <1>1, <1>2, <1>3, <2>2, <2>3
<1>7. DependantsOnce'
  BY DEF DependantsOnce, Sound, Outstanding
<1>8. FibersOK'
  <2>1. SUFFICES ASSUME NEW g \in Fibers PROVE FiberOK(g)'
    BY DEF FibersOK
  <2>2. FiberOK(g)
    BY DEF Sound, FibersOK
  <2>. QED
    BY <1>1, <1>2, <1>3, <2>2 DEF FiberOK, Exists
<1>9. DependantsServed'
  <2>1. SUFFICES ASSUME NEW g \in Fibers,
                        Exists(g), lua'[g] \in {"empty", "leftover"},
                        g \notin killed, ~Active(g)'
                 PROVE  continued[g] = Len(deps[g])
    BY DEF DependantsServed, Exists
  <2>2. g # d0 /\ g # Top.fiber
    BY <1>2, <1>4, <1>1, <2>1
  <2>. QED
    BY <1>1, <1>2, <2>1, <2>2 DEF Sound, DependantsServed
<1>. QED
  BY <1>1, <1>5, <1>6, <1>7, <1>8, <1>9 DEF Sound

(* A failed archive kills the fiber that waits for it.                     *)
LEMMA KillSound ==
    ASSUME Types, Types', Sound, stack = <<>>,
           NEW f \in Fibers, lua[f] = "suspended", pending[f]["zip"] > 0,
           pending' = [pending EXCEPT ![f]["zip"] = @ - 1],
           lua' = [lua EXCEPT ![f] = "empty"],
           killed' = killed \cup {f},
           UNCHANGED <<slots, freed, deps, continued, stack, shared>>
    PROVE  Sound'
<1>. USE DEF Kinds
<1>1. /\ lua \in [Fibers -> LuaStates]
      /\ pending \in [Fibers -> [Kinds -> 0 .. MaxPending]]
      /\ \A g \in Fibers \ {f} : lua'[g] = lua[g] /\ pending'[g] = pending[g]
      /\ lua'[f] = "empty"
  BY DEF Types, TypeOK
<1>2. \A k \in Kinds : pending'[f][k] = 0
  BY <1>1 DEF Sound, RequestsOK
<1>3. \A g \in Fibers : Live(g)' <=> Live(g)
  BY DEF Live, Exists
<1>4. Depth = {} /\ Depth' = {}
  BY EmptySeq DEF Depth
<1>5. OneActivation' /\ ActivationsOK' /\ RunningIsActive'
  BY <1>1, <1>4 DEF OneActivation, ActivationsOK, RunningIsActive, Active, Sound
<1>6. RequestsOK'
  <2>1. SUFFICES ASSUME NEW g \in Fibers, NEW k \in Kinds, pending'[g][k] > 0
                 PROVE  /\ Live(g)'
                        /\ lua'[g] = "suspended"
                        /\ pending'[g][k] = 1
                        /\ \A m \in Kinds \ {k} : pending'[g][m] = 0
    BY DEF RequestsOK
  <2>2. g # f
    BY <1>2, <2>1
  <2>. QED
    BY <1>1, <1>3, <2>1, <2>2 DEF Sound, RequestsOK
<1>7. DependantsOK'
  <2>1. SUFFICES ASSUME NEW t \in Fibers, NEW i \in Outstanding(t),
                        NEW d \in Fibers, d = deps[t][i]
                 PROVE  /\ Live(d)'
                        /\ NoPending(d)'
                        /\ lua'[d] = "suspended" \/ (lua'[d] = "running" /\ Requiring(d, t)')
    BY Lists DEF DependantsOK, Outstanding
  <2>2. /\ Live(d)
        /\ NoPending(d)
        /\ lua[d] = "suspended" \/ (lua[d] = "running" /\ Requiring(d, t))
    BY <2>1 DEF Sound, DependantsOK
  <2>3. d # f
    BY <2>2 DEF NoPending
  <2>4. NoPending(d)'
    BY <1>1, <2>2, <2>3 DEF NoPending
  <2>5. ~Requiring(d, t)
    BY <1>4 DEF Requiring
  <2>. QED
    BY <1>1, <1>3, <2>2, <2>3, <2>4, <2>5
<1>8. DependantsOnce'
  BY DEF DependantsOnce, Sound, Outstanding
<1>9. FibersOK'
  <2>1. SUFFICES ASSUME NEW g \in Fibers PROVE FiberOK(g)'
    BY DEF FibersOK
  <2>2. FiberOK(g)
    BY DEF Sound, FibersOK
  <2>. QED
    BY <1>1, <1>3, <2>2 DEF FiberOK, Exists
<1>10. DependantsServed'
  <2>1. SUFFICES ASSUME NEW g \in Fibers,
                        Exists(g), lua'[g] \in {"empty", "leftover"},
                        g \notin killed', ~Active(g)'
                 PROVE  continued[g] = Len(deps[g])
    BY DEF DependantsServed, Exists
  <2>. QED
    BY <1>1, <1>4, <2>1 DEF Sound, DependantsServed, Active
<1>. QED
  BY <1>5, <1>6, <1>7, <1>8, <1>9, <1>10 DEF Sound

-----------------------------------------------------------------------------
(* The inductive invariant.                                                *)

LEMMA InitSound == Init => fault = "none" /\ Sound
<1>. SUFFICES ASSUME Init PROVE fault = "none" /\ Sound
  OBVIOUS
<1>1. Depth = {} /\ \A f \in Fibers : Outstanding(f) = {}
  BY EmptySeq DEF Init, Depth, Outstanding
<1>2. OneActivation /\ ActivationsOK /\ RunningIsActive
  BY <1>1 DEF Init, OneActivation, ActivationsOK, RunningIsActive
<1>3. RequestsOK /\ DependantsOK /\ DependantsOnce
  BY <1>1 DEF Init, RequestsOK, DependantsOK, DependantsOnce
<1>4. FibersOK /\ DependantsServed
  BY EmptySeq, MaxFibersAssumption
     DEF Init, FibersOK, FiberOK, DependantsServed, Exists, Fibers
<1>. QED
  BY <1>2, <1>3, <1>4 DEF Init, Sound

(* A step that keeps the contract keeps Sound and meets no fault.          *)
LEMMA NextSound ==
    ASSUME Types, Types', fault = "none", Sound, [Next]_vars, ~breached'
    PROVE  fault' = "none" /\ Sound'
<1>. USE MaxPendingAssumption
<1>a. pending \in [Fibers -> [Kinds -> 0 .. MaxPending]]
  BY DEF Types, TypeOK
<1>b. ASSUME NEW f \in Fibers, Executing(f)
      PROVE  /\ stack # <<>> /\ f = Top.fiber /\ Top.phase = "run"
             /\ lua[f] = "running"
  <2>1. /\ stack # <<>> /\ Top.fiber = f /\ Top.phase = "run"
        /\ Len(stack) \in Depth /\ Top = stack[Len(stack)]
    BY <1>b, TopShape DEF Executing, InCall, Types, TypeOK, Depth
  <2>2. ActivationOK(Len(stack))
    BY <2>1 DEF Sound, ActivationsOK
  <2>. QED
    BY <2>1, <2>2 DEF ActivationOK
<1>1. CASE Start
  <2>1. 1 \in Fibers /\ "host" \in Vias /\ "host" # "require" /\ 1 = slots + 1
        /\ slots' = 1 /\ stack = <<>>
    BY <1>1, MaxFibersAssumption DEF Start, Idle, Fibers, Vias
  <2>2. Run(1, "host")
    BY <1>1 DEF Start
  <2>. QED
    BY <1>1, <2>1, <2>2, BirthSound DEF Start, Run
<1>2. ASSUME NEW f \in Fibers, NEW k \in Kinds, Complete(f, k)
      PROVE  fault' = "none" /\ Sound'
  <2>1. /\ Live(f) /\ lua[f] = "suspended" /\ stack = <<>>
        /\ pending[f][k] = 1 /\ \A m \in Kinds \ {k} : pending[f][m] = 0
    BY <1>2 DEF Complete, Idle, Sound, RequestsOK
  <2>2. Run(f, "host")
    BY <1>2, <2>1 DEF Complete, Enter, Live
  <2>3. /\ \A g \in Fibers \ {f} : pending'[g] = pending[g]
        /\ \A m \in Kinds : pending'[f][m] = 0
    BY <1>2, <1>a, <2>1 DEF Complete
  <2>4. NoPending(f)'
    BY <2>3 DEF NoPending
  <2>5. \A t \in Fibers : \A i \in Outstanding(t)' : deps[t][i] # f
    <3>1. ~NoPending(f)
      BY <2>1 DEF NoPending
    <3>2. \A t \in Fibers : Outstanding(t)' = Outstanding(t)
      BY <1>2 DEF Complete, Outstanding
    <3>. QED
      BY <3>1, <3>2 DEF Sound, DependantsOK
  <2>6. "host" \in Vias \ {"require"}
    BY DEF Vias
  <2>7. Sound'
    BY <1>2, <2>1, <2>2, <2>3, <2>4, <2>5, <2>6, WakeSound DEF Complete
  <2>. QED
    BY <2>2, <2>7 DEF Run
<1>3. ASSUME NEW f \in Fibers, ZipFails(f)
      PROVE  fault' = "none" /\ Sound'
  <2>1. "zip" \in Kinds /\ pending[f]["zip"] > 0 /\ stack = <<>>
    BY <1>3 DEF ZipFails, Idle, Kinds
  <2>2. Live(f) /\ lua[f] = "suspended"
    BY <2>1 DEF Sound, RequestsOK
  <2>3. /\ lua' = [lua EXCEPT ![f] = "empty"]
        /\ killed' = killed \cup {f}
        /\ stack' = stack /\ fault' = fault
    BY <1>3, <2>2 DEF ZipFails, Live
  <2>. QED
    BY <1>3, <2>1, <2>2, <2>3, KillSound DEF ZipFails
<1>4. ASSUME NEW f \in Fibers, New(f)
      PROVE  fault' = "none" /\ Sound'
  <2>1. slots + 1 \in Fibers /\ slots' = slots + 1
    <3>1. slots \in Nat
      BY Lists
    <3>. QED
      BY <1>4, <3>1, MaxFibersAssumption DEF New, Fibers
  <2>2. Run(slots + 1, "new") /\ "new" \in Vias /\ "new" # "require"
    BY <1>4 DEF New, Vias
  <2>3. stack # <<>> => Top.phase = "run"
    BY <1>4, <1>b DEF New
  <2>4. PICK g \in Fibers : g = slots + 1
    BY <2>1
  <2>5. Run(g, "new") /\ slots' = g
    BY <2>1, <2>2, <2>4
  <2>6. UNCHANGED <<freed, pending, continued, shared, killed>> /\ UNCHANGED deps
    BY <1>4 DEF New
  <2>7. Sound'
    BY <2>2, <2>3, <2>4, <2>5, <2>6, BirthSound
  <2>. QED
    BY <2>5, <2>7 DEF Run
<1>5. ASSUME NEW f \in Fibers, Await(f)
      PROVE  fault' = "none" /\ Sound'
  <2>1. stack # <<>> /\ f = Top.fiber /\ Top.phase = "run" /\ Yield(f)
    BY <1>5, <1>b DEF Await
  <2>. QED
    BY <1>5, <2>1, YieldSound DEF Await, Yield
<1>6. ASSUME NEW f \in Fibers, NEW call, NEW k \in Kinds, Request(f, call, k)
      PROVE  fault' = "none" /\ Sound'
  <2>1. stack # <<>> /\ f = Top.fiber /\ Top.phase = "run" /\ Yield(f)
    BY <1>6, <1>b DEF Request
  <2>2. \E m \in Kinds : pending' = [pending EXCEPT ![f][m] = @ + 1]
    BY <1>6 DEF Request
  <2>. QED
    BY <1>6, <2>1, <2>2, YieldSound DEF Request, Yield
<1>7. ASSUME NEW f \in Fibers, NEW t \in Fibers, Depend(f, t)
      PROVE  fault' = "none" /\ Sound'
  <2>1. /\ stack # <<>> /\ f = Top.fiber /\ Top.phase = "run"
        /\ MayDepend(f, t)
    BY <1>7, <1>b DEF Depend, Obey
  <2>2. t \notin freed /\ ~Iterating(t)
    <3>1. ASSUME NEW i \in Depth, stack[i].fiber = t, stack[i].phase = "deps"
          PROVE  FALSE
      <4>1. lua[t] \in {"empty", "leftover"}
        BY <3>1 DEF Sound, ActivationsOK, ActivationOK
      <4>. QED
        BY <2>1, <4>1 DEF MayDepend
    <3>. QED
      BY <2>1, <3>1 DEF Iterating, Depth, MayDepend
  <2>3. deps' = [deps EXCEPT ![t] = Append(@, f)] /\ Yield(f)
    BY <1>7, <2>2 DEF Depend
  <2>4. \E u \in Fibers : /\ MayDepend(f, u)
                          /\ deps' = [deps EXCEPT ![u] = Append(@, f)]
    BY <2>1, <2>3
  <2>. QED
    BY <1>7, <2>1, <2>3, <2>4, YieldSound DEF Depend, Yield
<1>8. ASSUME NEW f \in Fibers, Finish(f)
      PROVE  fault' = "none" /\ Sound'
  <2>1. /\ stack # <<>> /\ f = Top.fiber /\ Top.phase = "run"
        /\ Top.via # "require"
    BY <1>8, <1>b DEF Finish, Obey, MayFinish
  <2>2. PICK left \in {"empty", "leftover"} :
           Conclude(f, left, TopIn("deps", Len(deps[f])))
    BY <1>8 DEF Finish
  <2>. QED
    BY <1>8, <2>1, <2>2, FinishSound DEF Finish
<1>9. ASSUME NEW f \in Fibers, NEW t \in Fibers, Resume(f, t)
      PROVE  fault' = "none" /\ Sound'
  <2>1. stack # <<>> /\ Top.phase = "run" /\ Awaiting(t)
    BY <1>9, <1>b DEF Resume, Obey, MayResume
  <2>2. Run(t, "resume") /\ lua[t] = "suspended"
    BY <1>9, <2>1 DEF Resume, Enter, Awaiting
  <2>3. NoPending(t)' /\ UNCHANGED <<slots, freed, deps, shared, killed, pending, continued>>
    BY <1>9, <2>1 DEF Resume, Awaiting, NoPending
  <2>4. \A u \in Fibers : \A i \in Outstanding(u)' : deps[u][i] # t
    BY <2>1, <2>3 DEF Awaiting, WaitsFor, Outstanding
  <2>5. "resume" \in Vias \ {"require"}
    BY DEF Vias
  <2>6. Sound'
    BY <2>1, <2>2, <2>3, <2>4, <2>5, WakeSound
  <2>. QED
    BY <2>2, <2>6 DEF Run
<1>10. ASSUME NEW f \in Fibers, Require(f)
       PROVE  fault' = "none" /\ Sound'
  <2>1. stack # <<>> /\ f = Top.fiber /\ Top.phase = "run"
    BY <1>10, <1>b DEF Require
  <2>2. PICK g \in Fibers : g = slots + 1
    <3>1. slots \in Nat
      BY Lists
    <3>. QED
      BY <1>10, <3>1, MaxFibersAssumption DEF Require, Fibers
  <2>3. /\ Run(g, "require") /\ slots' = g /\ "require" \in Vias
        /\ deps' = [deps EXCEPT ![g] = Append(@, Top.fiber)]
        /\ UNCHANGED <<freed, pending, continued, shared, killed>>
    BY <1>10, <2>1, <2>2 DEF Require, Vias
  <2>4. Sound'
    BY <2>1, <2>2, <2>3, BirthSound
  <2>. QED
    BY <2>3, <2>4 DEF Run
<1>11. CASE ContinueDependant
  <2>1. PICK t \in Fibers : t = Top.fiber
    BY <1>11, TopShape DEF ContinueDependant, InCall, Types, TypeOK
  <2>2. /\ stack # <<>> /\ Top.phase = "deps" /\ continued[t] < Top.upto
        /\ continued' = [continued EXCEPT ![t] = @ + 1]
        /\ UNCHANGED <<slots, freed, pending, deps, shared, killed>>
    BY <1>11, <2>1 DEF ContinueDependant, InCall
  <2>3. /\ Len(stack) \in Depth /\ Top = stack[Len(stack)]
        /\ ActivationOK(Len(stack))
    BY <2>2, TopShape DEF Sound, ActivationsOK, Types, TypeOK, Depth
  <2>4. /\ lua[t] \in {"empty", "leftover"} /\ Active(t)
        /\ Top.upto = Len(deps[t]) /\ Top.via # "require"
    BY <2>1, <2>2, <2>3 DEF ActivationOK, Active
  <2>5. PICK j \in Nat : j = continued[t] + 1
    BY Lists
  <2>6. j \in Outstanding(t) /\ j <= Len(deps[t]) /\ deps[t][j] \in Fibers
    BY <2>2, <2>4, <2>5, Lists DEF Outstanding
  <2>7. PICK d \in Fibers : d = deps[t][j]
    BY <2>6
  <2>8. /\ Live(d) /\ NoPending(d)
        /\ lua[d] = "suspended" \/ (lua[d] = "running" /\ Requiring(d, t))
    BY <2>6, <2>7 DEF Sound, DependantsOK
  <2>9. ~Requiring(d, t)
    <3>1. ASSUME NEW i \in Depth, stack[i].fiber = t, stack[i].via = "require"
          PROVE  FALSE
      <4>1. i = Len(stack)
        BY <2>1, <2>3, <3>1 DEF Sound, OneActivation
      <4>. QED
        BY <2>3, <2>4, <3>1, <4>1
    <3>. QED
      BY <3>1 DEF Requiring
  <2>10. lua[d] = "suspended" /\ d \notin freed
    BY <2>8, <2>9 DEF Live
  <2>11. Enter(d, "dependant")
    BY <1>11, <2>1, <2>5, <2>7 DEF ContinueDependant
  <2>12. Run(d, "dependant")
    BY <2>10, <2>11 DEF Enter
  <2>13. \A u \in Fibers : \A i \in Outstanding(u)' : deps[u][i] # d
    <3>1. SUFFICES ASSUME NEW u \in Fibers, NEW i \in Outstanding(u)', deps[u][i] = d
                   PROVE  FALSE
      OBVIOUS
    <3>2. /\ continued[u] \in Nat /\ Len(deps[u]) \in Nat /\ deps' = deps
          /\ continued'[u] = IF u = t THEN j ELSE continued[u]
      BY <2>2, <2>5, Lists DEF Types, TypeOK
    <3>3. i \in continued'[u] + 1 .. Len(deps[u])
      BY <3>1, <3>2 DEF Outstanding
    <3>4. i \in Outstanding(u) /\ (u = t => i # j)
      BY <2>5, <3>2, <3>3 DEF Outstanding
    <3>5. deps[u][i] = deps[t][j]
      BY <2>7, <3>1
    <3>6. \A a \in Outstanding(u), b \in Outstanding(t) :
             deps[u][a] = deps[t][b] => u = t /\ a = b
      BY DEF Sound, DependantsOnce
    <3>7. u = t /\ i = j
      BY <2>6, <3>4, <3>5, <3>6
    <3>. QED
      BY <3>4, <3>7
  <2>14. \A g \in Fibers :
            \/ continued'[g] = continued[g]
            \/ /\ Active(g)
               /\ lua[g] \in {"empty", "leftover"}
               /\ continued'[g] \in continued[g] .. Len(deps[g])
    BY <2>2, <2>4, <2>5, <2>6, Lists DEF Types, TypeOK
  <2>15. NoPending(d)'
    BY <2>2, <2>8 DEF NoPending
  <2>16. "dependant" \in Vias \ {"require"}
    BY DEF Vias
  <2>17. Sound'
    BY <2>2, <2>10, <2>12, <2>13, <2>14, <2>15, <2>16, WakeSound
  <2>. QED
    BY <2>12, <2>17 DEF Run
<1>12. CASE Return
  <2>1. /\ stack # <<>> /\ Top.phase # "run"
        /\ Top.phase = "deps" => continued[Top.fiber] >= Top.upto
        /\ freed' = IF Top.phase = "deps" /\ ~KeepsFiber(Top.via)
                    THEN freed \cup {Top.fiber} ELSE freed
        /\ shared' = IF Top.via = "new" THEN shared \cup {Top.fiber} ELSE shared
        /\ UNCHANGED <<slots, pending, deps, continued, killed, fault>>
    BY <1>12 DEF Return, InCall
  <2>2. Len(stack) \in Depth /\ Top = stack[Len(stack)] /\ Top.phase \in Phases
    BY <2>1, TopShape DEF Types, TypeOK, Depth
  <2>3. CASE Top.via = "require"
    <3>1. Top.phase = "yield"
      <4>1. ActivationOK(Len(stack))
        BY <2>2 DEF Sound, ActivationsOK
      <4>. QED
        BY <2>1, <2>2, <2>3, <4>1 DEF ActivationOK, Phases
    <3>2. Len(stack) - 1 \in Depth
      BY <2>1, <2>3, RequirerShape DEF Types, Depth
    <3>3. PICK d0 \in Fibers : d0 = stack[Len(stack) - 1].fiber
      BY <3>2, Activations
    <3>4. /\ stack' = [Below EXCEPT ![Len(stack) - 1] =
                          Put(stack[Len(stack) - 1], "yield", 0)]
          /\ lua' = [lua EXCEPT ![d0] = "suspended"]
      BY <1>12, <2>3, <3>3 DEF Return
    <3>5. freed' = freed /\ shared' = shared
      BY <2>1, <2>3, <3>1
    <3>6. Sound'
      BY <2>1, <2>3, <3>1, <3>3, <3>4, <3>5, RequireReturnSound
    <3>. QED
      BY <2>1, <3>6
  <2>4. CASE Top.via # "require"
    <3>1. stack' = Below /\ lua' = lua
      BY <1>12, <2>4 DEF Return
    <3>2. shared' = shared \/ shared' = shared \cup {Top.fiber}
      BY <2>1
    <3>3. Sound'
      BY <2>1, <2>4, <3>1, <3>2, PopSound
    <3>. QED
      BY <2>1, <3>3
  <2>. QED
    BY <2>3, <2>4
<1>13. CASE UNCHANGED vars
  <2>1. UNCHANGED <<slots, freed, lua, pending, deps, continued, stack, shared,
                    killed, fault>>
    BY <1>13 DEF vars
  <2>. QED
    BY <2>1 DEF Sound, OneActivation, ActivationsOK, ActivationOK, RunningIsActive,
                RequestsOK, DependantsOK, DependantsOnce, FibersOK, FiberOK,
                DependantsServed, Requiring, Outstanding, Active, Depth, Live,
                Exists, NoPending
<1>. QED
  BY <1>1, <1>2, <1>3, <1>4, <1>5, <1>6, <1>7, <1>8, <1>9, <1>10, <1>11, <1>12, <1>13
     DEF Next, Answer, SegmentEnds, Sleep, FileRequest, ZipOpen, Kinds

-----------------------------------------------------------------------------
(* The invariant.                                                          *)

(* A breach of the contract is remembered.                                 *)
LEMMA BreachStays ==
    ASSUME breached, [Next]_vars
    PROVE  breached'
BY DEF Next, Start, Answer, ZipFails, Complete, New, SegmentEnds, Await, Sleep,
       FileRequest, ZipOpen, Request, Depend, Finish, Resume, Require,
       ContinueDependant, Return, Obey, vars

LEMMA NextInv == IInv /\ [Next]_vars => IInv'
<1>. SUFFICES ASSUME IInv, [Next]_vars PROVE IInv'
  OBVIOUS
<1>1. Types
  BY DEF IInv, Types
<1>2. Types'
  BY <1>1, NextTypes
<1>3. CASE breached'
  BY <1>2, <1>3 DEF IInv, Types
<1>4. CASE ~breached'
  <2>1. ~breached
    BY <1>4, BreachStays
  <2>2. fault = "none" /\ Sound
    BY <2>1 DEF IInv
  <2>. QED
    BY <1>1, <1>2, <1>4, <2>2, NextSound DEF IInv, Types
<1>. QED
  BY <1>3, <1>4

(* The states of the isolate in which no script has broken the contract    *)
(* are Sound, and native code has met no undefined behaviour in them.      *)
THEOREM Inductive == Spec => []IInv
<1>1. Init => IInv
  BY InitTypes, InitSound DEF IInv, Types
<1>. QED
  BY <1>1, NextInv, PTL DEF Spec

(* Undefined behaviour only follows a script call that broke the contract: *)
(* Call, Continue, Resume and Depend are safe without their checks for     *)
(* scripts that keep it, however many fibers they create.                  *)
THEOREM FaultFree == Spec => []FaultOnlyAfterBreach
<1>1. IInv => FaultOnlyAfterBreach
  BY DEF IInv, FaultOnlyAfterBreach
<1>. QED
  BY <1>1, Inductive, PTL

LEMMA SoundOneWaker == IInv => OneWaker
<1>. SUFFICES ASSUME IInv, ~breached PROVE OneWaker
  BY DEF OneWaker
<1>1. Types /\ Sound
  BY DEF IInv, Types
<1>2. ASSUME NEW f \in Fibers, NEW k \in Kinds, NEW m \in Kinds,
             pending[f][k] > 0, pending[f][m] > 0
      PROVE  k = m /\ pending[f][k] = 1
  BY <1>1, <1>2 DEF Sound, RequestsOK
<1>3. ASSUME NEW p \in Queued
      PROVE  p[1] \in Fibers /\ p[2] \in Outstanding(p[1])
  BY <1>1, <1>3, Lists DEF Queued, Outstanding
<1>4. \A p \in Queued : NoPending(deps[p[1]][p[2]])
  BY <1>1, <1>3 DEF Sound, DependantsOK
<1>5. ASSUME NEW p \in Queued, NEW q \in Queued,
             deps[p[1]][p[2]] = deps[q[1]][q[2]]
      PROVE  p = q
  <2>1. p[1] = q[1] /\ p[2] = q[2]
    BY <1>1, <1>3, <1>5 DEF Sound, DependantsOnce
  <2>. QED
    BY <2>1 DEF Queued
<1>. QED
  BY <1>2, <1>4, <1>5 DEF OneWaker

(* One thing at most is ever going to continue a fiber: a timer, a file    *)
(* request, an archive task, or one place in another fiber's _dependants.  *)
THEOREM WokenOnce == Spec => []OneWaker
BY SoundOneWaker, Inductive, PTL

LEMMA SoundServes == IInv => NoForgottenDependant
<1>. SUFFICES ASSUME IInv, ~breached,
                     NEW f \in Fibers, Ended(f), f \notin killed,
                     \A i \in 1 .. Len(stack) : stack[i].fiber # f
              PROVE  continued[f] = Len(deps[f])
  BY DEF NoForgottenDependant
<1>1. TypeOK /\ Sound
  BY DEF IInv
<1>2. Exists(f) /\ lua[f] \in {"empty", "leftover"}
  BY <1>1 DEF Ended, Live, TypeOK, LuaStates, Sound, FibersOK, FiberOK
<1>3. ~Active(f)
  BY DEF Active, Depth
<1>. QED
  BY <1>1, <1>2, <1>3 DEF Sound, DependantsServed

(* An ended fiber whose Call has returned has continued every fiber that   *)
(* waited for it, unless it was killed.                                    *)
THEOREM DependantsNotForgotten == Spec => []NoForgottenDependant
BY SoundServes, Inductive, PTL

-----------------------------------------------------------------------------
(* What a step does to the three variables of the promise.                 *)

(* d is parked until t ends.                                               *)
Joined(d, t) == lua[d] = "suspended" /\ WaitsFor(d, t)

LEMMA JoinsArePairs ==
    /\ \A p \in JoinsOf : p = <<p[1], p[2]>> /\ p[1] \in Fibers /\ p[2] \in Fibers
    /\ \A d, t \in Fibers : <<d, t>> \in JoinsOf <=> Joined(d, t)
BY DEF JoinsOf, Joined

LEMMA JoinsSame ==
    ASSUME \A d, t \in Fibers : Joined(d, t)' <=> Joined(d, t)
    PROVE  JoinsOf' = JoinsOf
BY DEF JoinsOf, Joined

LEMMA JoinsAdded ==
    ASSUME NEW f \in Fibers, NEW u \in Fibers,
           \A d, t \in Fibers : Joined(d, t)' <=> (Joined(d, t) \/ (d = f /\ t = u))
    PROVE  JoinsOf' = JoinsOf \cup {<<f, u>>}
BY DEF JoinsOf, Joined

LEMMA JoinsRemoved ==
    ASSUME NEW f \in Fibers, NEW u \in Fibers,
           \A d, t \in Fibers : Joined(d, t)' <=> (Joined(d, t) /\ ~(d = f /\ t = u))
    PROVE  JoinsOf' = JoinsOf \ {<<f, u>>}
BY DEF JoinsOf, Joined

(* One fiber changes its phase.                                            *)
LEMMA OneMoves ==
    ASSUME NEW f \in Fibers, NEW from, NEW to, PhaseOf(f) = from, PhaseOf(f)' = to,
           \A g \in Fibers \ {f} : PhaseOf(g)' = PhaseOf(g)
    PROVE  Promise!Becomes(f, from, to)
BY DEF Promise!Becomes

(* Another state of the thread of a fiber that is there.                   *)
LEMMA ThreadMoves ==
    ASSUME Types, NEW f \in Fibers, Exists(f), NEW s \in LuaStates,
           lua' = [lua EXCEPT ![f] = s], slots' = slots
    PROVE  /\ lua'[f] = s
           /\ \A g \in Fibers \ {f} : lua'[g] = lua[g]
           /\ Promise!Becomes(f, PhaseOf(f), PhaseOf(f)')
           /\ PhaseOf(f)' = IF s = "running" THEN "active"
                            ELSE IF s = "suspended" THEN "parked" ELSE "ended"
           /\ PhaseOf(f)  = IF lua[f] = "running" THEN "active"
                            ELSE IF lua[f] = "suspended" THEN "parked" ELSE "ended"
<1>1. /\ lua'[f] = s
      /\ \A g \in Fibers \ {f} : lua'[g] = lua[g]
  BY DEF Types, TypeOK
<1>2. ~(f > slots) /\ ~(f > slots')
  BY DEF Exists, Types, TypeOK, Fibers
<1>3. \A g \in Fibers \ {f} : PhaseOf(g)' = PhaseOf(g)
  BY <1>1 DEF PhaseOf
<1>4. /\ PhaseOf(f)' = IF s = "running" THEN "active"
                       ELSE IF s = "suspended" THEN "parked" ELSE "ended"
      /\ PhaseOf(f)  = IF lua[f] = "running" THEN "active"
                       ELSE IF lua[f] = "suspended" THEN "parked" ELSE "ended"
  BY <1>1, <1>2 DEF PhaseOf
<1>5. Promise!Becomes(f, PhaseOf(f), PhaseOf(f)')
  BY <1>3, OneMoves
<1>. QED
  BY <1>1, <1>4, <1>5

-----------------------------------------------------------------------------
(* The native calls and the event loop.                                    *)

(* A fiber is made and runs; the one that requires it is in its list.      *)
LEMMA BirthPromised ==
    ASSUME Types, Sound, NEW f \in Fibers, f = slots + 1, slots' = f,
           lua' = [lua EXCEPT ![f] = "running"],
           UNCHANGED <<pending, continued>>,
           \A t \in Fibers \ {f} : deps'[t] = deps[t],
           \A i \in Outstanding(f)' : deps'[f][i] \in Fibers /\ lua[deps'[f][i]] = "running"
    PROVE  Promise!Create(f)
<1>1. /\ lua'[f] = "running"
      /\ \A g \in Fibers \ {f} : lua'[g] = lua[g]
  BY DEF Types, TypeOK
<1>2. ~Exists(f) /\ slots \in Nat
  BY Lists DEF Exists, Fibers
<1>3. lua[f] # "suspended" /\ deps[f] = <<>>
  BY <1>2 DEF Sound, FibersOK, FiberOK, Live, Fibers
<1>4. \A i \in Outstanding(f) : FALSE
  BY <1>3, Lists DEF Outstanding
<1>5. ASSUME NEW d \in Fibers, NEW t \in Fibers
      PROVE  Joined(d, t)' <=> Joined(d, t)
  <2>1. CASE d = f
    BY <1>1, <1>3, <2>1 DEF Joined
  <2>2. CASE d # f /\ t # f
    BY <1>1, <2>2 DEF Joined, WaitsFor
  <2>3. CASE d # f /\ t = f
    <3>1. ~Joined(d, t)
      BY <1>4, <2>3 DEF Joined, WaitsFor, Outstanding
    <3>2. ~Joined(d, t)'
      BY <1>1, <2>3 DEF Joined, WaitsFor, Outstanding
    <3>. QED
      BY <3>1, <3>2
  <2>. QED
    BY <2>1, <2>2, <2>3
<1>6. JoinsOf' = JoinsOf
  BY <1>5, JoinsSame
<1>7. Promise!Becomes(f, "unborn", "active")
  <2>1. PhaseOf(f) = "unborn" /\ PhaseOf(f)' = "active"
    BY <1>1, <1>2 DEF PhaseOf, Fibers
  <2>2. \A g \in Fibers \ {f} : PhaseOf(g)' = PhaseOf(g)
    BY <1>1, <1>2 DEF PhaseOf, Fibers
  <2>. QED
    BY <2>1, <2>2, OneMoves
<1>. QED
  BY <1>6, <1>7 DEF Promise!Create, NoPending

(* The event loop's answer runs a parked fiber on, or kills it.            *)
LEMMA AnswerPromised ==
    ASSUME Types, Sound, NEW f \in Fibers, NEW k \in Kinds, pending[f][k] > 0,
           pending' = [pending EXCEPT ![f][k] = @ - 1],
           NEW s \in {"running", "empty"}, lua' = [lua EXCEPT ![f] = s],
           UNCHANGED <<slots, deps, continued>>
    PROVE  Promise!Answer(f)
<1>1. /\ Exists(f) /\ lua[f] = "suspended"
      /\ pending[f][k] = 1 /\ \A m \in Kinds \ {k} : pending[f][m] = 0
  BY DEF Sound, RequestsOK, Live
<1>2. /\ \A g \in Fibers \ {f} : NoPending(g)' <=> NoPending(g)
      /\ ~NoPending(f) /\ NoPending(f)'
  <2>1. pending \in [Fibers -> [Kinds -> 0 .. MaxPending]]
    BY DEF Types, TypeOK
  <2>2. /\ \A g \in Fibers \ {f} : pending'[g] = pending[g]
        /\ \A m \in Kinds : pending'[f][m] = 0
    BY <1>1, <2>1
  <2>3. ~NoPending(f)
    BY <1>1 DEF NoPending
  <2>. QED
    BY <2>2, <2>3 DEF NoPending
<1>3. s \in LuaStates
  BY DEF LuaStates
<1>4. /\ \A g \in Fibers \ {f} : lua'[g] = lua[g]
      /\ lua'[f] = s
      /\ Promise!Becomes(f, "parked", IF s = "running" THEN "active" ELSE "ended")
  BY <1>1, <1>3, ThreadMoves
<1>5. ASSUME NEW d \in Fibers, NEW t \in Fibers
      PROVE  Joined(d, t)' <=> Joined(d, t)
  <2>1. CASE d = f
    <3>1. ~Joined(d, t)
      BY <1>2, <2>1 DEF Sound, DependantsOK, Joined, WaitsFor, Outstanding
    <3>. QED
      BY <1>4, <2>1, <3>1 DEF Joined
  <2>2. CASE d # f
    BY <1>4, <2>2 DEF Joined, WaitsFor
  <2>. QED
    BY <2>1, <2>2
<1>6. JoinsOf' = JoinsOf
  BY <1>5, JoinsSame
<1>. QED
  BY <1>2, <1>4, <1>6 DEF Promise!Answer

(* A fiber parked by Fiber.Await is resumed by the one that executes.      *)
LEMMA ResumePromised ==
    ASSUME Types, Sound, NEW f \in Fibers, lua[f] = "running", Exists(f),
           NEW t \in Fibers, Exists(t), Awaiting(t),
           lua' = [lua EXCEPT ![t] = "running"],
           UNCHANGED <<slots, pending, deps, continued>>
    PROVE  Promise!Resume(t)
<1>1. /\ lua[t] = "suspended" /\ NoPending(t)
      /\ \A u \in Fibers : ~Joined(t, u)
  BY DEF Awaiting, Joined
<1>2. /\ \A g \in Fibers \ {t} : lua'[g] = lua[g]
      /\ lua'[t] = "running"
      /\ Promise!Becomes(t, "parked", "active")
  <2>1. "running" \in LuaStates
    BY DEF LuaStates
  <2>. QED
    BY <1>1, <2>1, ThreadMoves
<1>3. \A d, u \in Fibers : Joined(d, u)' <=> Joined(d, u)
  BY <1>1, <1>2 DEF Joined, WaitsFor
<1>4. JoinsOf' = JoinsOf
  BY <1>3, JoinsSame
<1>5. PhaseOf(f) = "active"
  BY DEF PhaseOf, Exists, Types, TypeOK, Fibers
<1>6. \A u \in Fibers : <<t, u>> \notin JoinsOf
  BY <1>1, JoinsArePairs
<1>7. \E g \in Fibers : [h \in Fibers |-> PhaseOf(h)][g] = "active"
  BY <1>5
<1>8. UNCHANGED {g \in Fibers : ~NoPending(g)}
  BY DEF NoPending
<1>. QED
  BY <1>1, <1>2, <1>4, <1>6, <1>7, <1>8 DEF Promise!Resume, Promise!WaitsForAnEnd

(* The fiber that executes gives control back.  Nothing it waited for      *)
(* before remains, and it waits for the end of others by new places in     *)
(* their lists only.                                                       *)
LEMMA ParkMoves ==
    ASSUME Types, Sound, NEW f \in Fibers, Exists(f), lua[f] = "running",
           lua' = [lua EXCEPT ![f] = "suspended"], slots' = slots
    PROVE  /\ \A g \in Fibers \ {f} : lua'[g] = lua[g]
           /\ lua'[f] = "suspended"
           /\ Promise!Becomes(f, "active", "parked")
           /\ \A t \in Fibers : ~Joined(f, t)
<1>1. "suspended" \in LuaStates
  BY DEF LuaStates
<1>. QED
  BY <1>1, ThreadMoves DEF Joined

LEMMA AwaitPromised ==
    ASSUME Types, Sound, stack # <<>>, NEW f \in Fibers, f = Top.fiber, Exists(f),
           lua[f] = "running",
           lua' = [lua EXCEPT ![f] = "suspended"],
           UNCHANGED <<slots, pending, deps, continued>>
    PROVE  Promise!ParkForResume(f)
<1>1. /\ \A g \in Fibers \ {f} : lua'[g] = lua[g]
      /\ Promise!Becomes(f, "active", "parked")
      /\ \A t \in Fibers : ~Joined(f, t)
  BY ParkMoves
<1>2. \A t \in Fibers : ~WaitsFor(f, t)
  BY TopWaitsForNothing DEF WaitsFor, Outstanding
<1>3. \A d, t \in Fibers : Joined(d, t)' <=> Joined(d, t)
  BY <1>1, <1>2 DEF Joined, WaitsFor
<1>4. JoinsOf' = JoinsOf
  BY <1>3, JoinsSame
<1>. QED
  BY <1>1, <1>4 DEF Promise!ParkForResume, NoPending

LEMMA RequestPromised ==
    ASSUME Types, Sound, stack # <<>>, NEW f \in Fibers, f = Top.fiber, Exists(f),
           lua[f] = "running",
           lua' = [lua EXCEPT ![f] = "suspended"],
           NEW k \in Kinds, pending' = [pending EXCEPT ![f][k] = @ + 1],
           UNCHANGED <<slots, deps, continued>>
    PROVE  Promise!ParkForAnswer(f)
<1>1. /\ \A g \in Fibers \ {f} : lua'[g] = lua[g]
      /\ Promise!Becomes(f, "active", "parked")
      /\ \A t \in Fibers : ~Joined(f, t)
  BY ParkMoves
<1>2. \A t \in Fibers : ~WaitsFor(f, t)
  BY TopWaitsForNothing DEF WaitsFor, Outstanding
<1>3. \A d, t \in Fibers : Joined(d, t)' <=> Joined(d, t)
  BY <1>1, <1>2 DEF Joined, WaitsFor
<1>4. JoinsOf' = JoinsOf
  BY <1>3, JoinsSame
<1>5. /\ \A g \in Fibers \ {f} : NoPending(g)' <=> NoPending(g)
      /\ ~NoPending(f)'
  <2>1. pending \in [Fibers -> [Kinds -> 0 .. MaxPending]]
    BY DEF Types, TypeOK
  <2>2. /\ \A g \in Fibers \ {f} : pending'[g] = pending[g]
        /\ pending'[f][k] = pending[f][k] + 1
    BY <2>1
  <2>3. pending[f][k] \in Nat
    BY <2>1, MaxPendingAssumption
  <2>4. pending'[f][k] # 0
    BY <2>2, <2>3
  <2>. QED
    BY <2>2, <2>4 DEF NoPending
<1>. QED
  BY <1>1, <1>4, <1>5 DEF Promise!ParkForAnswer

(* It waits for another fiber that has not ended.                          *)
LEMMA DependPromised ==
    ASSUME Types, Sound, stack # <<>>, NEW f \in Fibers, f = Top.fiber, Exists(f),
           lua[f] = "running",
           lua' = [lua EXCEPT ![f] = "suspended"],
           NEW u \in Fibers, Exists(u), MayDepend(f, u),
           deps' = [deps EXCEPT ![u] = Append(@, f)],
           UNCHANGED <<slots, pending, continued>>
    PROVE  Promise!ParkForEnd(f, u)
<1>1. /\ \A g \in Fibers \ {f} : lua'[g] = lua[g]
      /\ lua'[f] = "suspended"
      /\ Promise!Becomes(f, "active", "parked")
      /\ \A t \in Fibers : ~Joined(f, t)
  BY ParkMoves
<1>2. \A t \in Fibers : ~WaitsFor(f, t)
  BY TopWaitsForNothing DEF WaitsFor, Outstanding
<1>3. /\ \A t \in Fibers \ {u} : deps'[t] = deps[t]
      /\ deps'[u] = Append(deps[u], f)
  BY DEF Types, TypeOK
<1>4. /\ Len(deps[u]) \in Nat /\ continued[u] \in Nat /\ continued[u] <= Len(deps[u])
      /\ deps[u] \in Seq(Fibers)
  BY Lists DEF Sound, FibersOK, FiberOK, Types, TypeOK
<1>5. /\ Len(deps'[u]) = Len(deps[u]) + 1
      /\ deps'[u][Len(deps[u]) + 1] = f
      /\ \A i \in 1 .. Len(deps[u]) : deps'[u][i] = deps[u][i]
  BY <1>3, <1>4
<1>6. ASSUME NEW d \in Fibers
      PROVE  WaitsFor(d, u)' <=> (WaitsFor(d, u) \/ d = f)
  <2>1. Outstanding(u)' = Outstanding(u) \cup {Len(deps[u]) + 1}
    BY <1>4, <1>5 DEF Outstanding
  <2>2. \A i \in Outstanding(u) : i \in 1 .. Len(deps[u])
    BY <1>4 DEF Outstanding
  <2>3. WaitsFor(d, u)' <=> \E i \in Outstanding(u)' : deps'[u][i] = d
    BY DEF WaitsFor, Outstanding
  <2>4. WaitsFor(d, u) <=> \E i \in Outstanding(u) : deps[u][i] = d
    BY DEF WaitsFor, Outstanding
  <2>. QED
    BY <1>5, <2>1, <2>2, <2>3, <2>4
<1>7. \A d, t \in Fibers : t # u => (WaitsFor(d, t)' <=> WaitsFor(d, t))
  BY <1>3 DEF WaitsFor
<1>8. ASSUME NEW d \in Fibers, NEW t \in Fibers
      PROVE  Joined(d, t)' <=> (Joined(d, t) \/ (d = f /\ t = u))
  <2>1. CASE t = u
    BY <1>1, <1>6, <2>1 DEF Joined
  <2>2. CASE t # u /\ d = f
    BY <1>1, <1>2, <1>7, <2>2 DEF Joined
  <2>3. CASE t # u /\ d # f
    BY <1>1, <1>7, <2>3 DEF Joined
  <2>. QED
    BY <2>1, <2>2, <2>3
<1>9. JoinsOf' = JoinsOf \cup {<<f, u>>}
  BY <1>8, JoinsAdded
<1>10. PhaseOf(u) \in {"active", "parked"} /\ u # f
  BY DEF PhaseOf, MayDepend, Exists, Types, TypeOK, Fibers
<1>11. [h \in Fibers |-> PhaseOf(h)][u] \in {"active", "parked"}
  BY <1>10
<1>12. UNCHANGED {g \in Fibers : ~NoPending(g)}
  BY DEF NoPending
<1>. QED
  BY <1>1, <1>9, <1>10, <1>11, <1>12 DEF Promise!ParkForEnd

(* The script of the executing fiber ends.                                 *)
LEMMA FinishPromised ==
    ASSUME Types, Sound, NEW f \in Fibers, Exists(f), lua[f] = "running",
           NEW s \in {"empty", "leftover"}, lua' = [lua EXCEPT ![f] = s],
           UNCHANGED <<slots, pending, deps, continued>>
    PROVE  Promise!End(f)
<1>1. s \in LuaStates
  BY DEF LuaStates
<1>2. /\ \A g \in Fibers \ {f} : lua'[g] = lua[g]
      /\ lua'[f] = s
      /\ Promise!Becomes(f, "active", "ended")
  BY <1>1, ThreadMoves
<1>3. \A d, t \in Fibers : Joined(d, t)' <=> Joined(d, t)
  BY <1>2 DEF Joined, WaitsFor
<1>4. JoinsOf' = JoinsOf
  BY <1>3, JoinsSame
<1>. QED
  BY <1>2, <1>4 DEF Promise!End, NoPending

-----------------------------------------------------------------------------
(* The rest of ScriptFiber::Call.                                          *)

(* The dependant at place j is continued: it waited in that place only.    *)
LEMMA ContinuePromised ==
    ASSUME Types, Sound, NEW t \in Fibers, Exists(t), lua[t] \in {"empty", "leftover"},
           NEW j \in Outstanding(t), j = continued[t] + 1,
           NEW d \in Fibers, d = deps[t][j], lua[d] = "suspended",
           continued' = [continued EXCEPT ![t] = j],
           lua' = [lua EXCEPT ![d] = "running"],
           UNCHANGED <<slots, pending, deps>>
    PROVE  Promise!Continue(d, t)
<1>1. Exists(d)
  BY DEF Sound, DependantsOK, Live
<1>2. "running" \in LuaStates
  BY DEF LuaStates
<1>3. /\ \A g \in Fibers \ {d} : lua'[g] = lua[g]
      /\ lua'[d] = "running"
      /\ Promise!Becomes(d, "parked", "active")
  BY <1>1, <1>2, ThreadMoves
<1>4. ASSUME NEW u \in Fibers, NEW i \in Outstanding(u), deps[u][i] = d
      PROVE  u = t /\ i = j
  BY <1>4 DEF Sound, DependantsOnce
<1>5. Joined(d, t) /\ \A u \in Fibers : Joined(d, u) => u = t
  BY <1>4 DEF Joined, WaitsFor, Outstanding
<1>6. ASSUME NEW e \in Fibers, NEW u \in Fibers, e # d
      PROVE  WaitsFor(e, u)' <=> WaitsFor(e, u)
  <2>1. CASE u = t
    <3>1. continued'[t] = j /\ j \in Nat /\ Len(deps[t]) \in Nat /\ continued[t] \in Nat
      BY Lists DEF Types, TypeOK
    <3>2. Outstanding(t) = Outstanding(t)' \cup {j}
      BY <3>1 DEF Outstanding
    <3>. QED
      BY <1>6, <2>1, <3>2 DEF WaitsFor, Outstanding
  <2>2. CASE u # t
    <3>1. continued'[u] = continued[u]
      BY <2>2 DEF Types, TypeOK
    <3>. QED
      BY <3>1 DEF WaitsFor
  <2>. QED
    BY <2>1, <2>2
<1>7. \A e, u \in Fibers : Joined(e, u)' <=> (Joined(e, u) /\ ~(e = d /\ u = t))
  BY <1>3, <1>5, <1>6 DEF Joined
<1>8. JoinsOf' = JoinsOf \ {<<d, t>>} /\ <<d, t>> \in JoinsOf
  BY <1>5, <1>7, JoinsRemoved, JoinsArePairs
<1>9. PhaseOf(t) = "ended"
  BY DEF PhaseOf, Exists, Types, TypeOK, Fibers
<1>10. [h \in Fibers |-> PhaseOf(h)][t] = "ended"
  BY <1>9
<1>11. UNCHANGED {g \in Fibers : ~NoPending(g)}
  BY DEF NoPending
<1>. QED
  BY <1>3, <1>8, <1>10, <1>11 DEF Promise!Continue

(* The module has yielded, and require() yields, too, to wait for the      *)
(* module's end.  That it is in the module's list need not be known here:  *)
(* if it were not, it would be parked as by Fiber.Await.                   *)
LEMMA RequireReturnPromised ==
    ASSUME Types, Sound, stack # <<>>, NEW t \in Fibers, t = Top.fiber, Exists(t),
           lua[t] = "suspended",
           NEW f \in Fibers, f # t, Exists(f), lua[f] = "running",
           \A u \in Fibers : Requiring(f, u) => u = t,
           lua' = [lua EXCEPT ![f] = "suspended"],
           UNCHANGED <<slots, pending, deps, continued>>
    PROVE  Promise!ParkForEnd(f, t) \/ Promise!ParkForResume(f)
<1>1. /\ \A g \in Fibers \ {f} : lua'[g] = lua[g]
      /\ lua'[f] = "suspended"
      /\ Promise!Becomes(f, "active", "parked")
      /\ \A u \in Fibers : ~Joined(f, u)
  BY ParkMoves
<1>2. \A u \in Fibers : WaitsFor(f, u) => u = t
  BY DEF Sound, DependantsOK, WaitsFor, Outstanding
<1>3. \A d, u \in Fibers : WaitsFor(d, u)' <=> WaitsFor(d, u)
  BY DEF WaitsFor
<1>4. UNCHANGED {g \in Fibers : ~NoPending(g)}
  BY DEF NoPending
<1>5. CASE WaitsFor(f, t)
  <2>1. \A d, u \in Fibers : Joined(d, u)' <=> (Joined(d, u) \/ (d = f /\ u = t))
    BY <1>1, <1>2, <1>3, <1>5 DEF Joined
  <2>2. JoinsOf' = JoinsOf \cup {<<f, t>>}
    BY <2>1, JoinsAdded
  <2>3. PhaseOf(t) = "parked"
    BY DEF PhaseOf, Exists, Types, TypeOK, Fibers
  <2>4. [h \in Fibers |-> PhaseOf(h)][t] = "parked"
    BY <2>3
  <2>. QED
    BY <1>1, <1>4, <2>2, <2>4 DEF Promise!ParkForEnd
<1>6. CASE ~WaitsFor(f, t)
  <2>1. \A d, u \in Fibers : Joined(d, u)' <=> Joined(d, u)
    BY <1>1, <1>2, <1>3, <1>6 DEF Joined
  <2>2. JoinsOf' = JoinsOf
    BY <2>1, JoinsSame
  <2>. QED
    BY <1>1, <1>4, <2>2 DEF Promise!ParkForResume
<1>. QED
  BY <1>5, <1>6

-----------------------------------------------------------------------------
(* The theorem.                                                            *)

(* Scripts that keep the contract never break it.                          *)
LEMMA DisciplineKept ==
    ASSUME Disciplined, ~breached, [Next]_vars
    PROVE  ~breached'
BY DEF Next, Start, Answer, ZipFails, Complete, New, SegmentEnds, Await, Sleep,
       FileRequest, ZipOpen, Request, Depend, Finish, Resume, Require,
       ContinueDependant, Return, Obey, vars

(* Every step of the code is a step of the promise or keeps what it        *)
(* speaks of.                                                              *)
LEMMA StepPromised ==
    ASSUME Types, Types', fault = "none", Sound, ~breached', [Next]_vars
    PROVE  Promise!Next \/ UNCHANGED Promise!vars
<1>a. fault' = "none"
  BY NextSound
<1>b. ASSUME NEW f \in Fibers, Executing(f)
      PROVE  /\ stack # <<>> /\ f = Top.fiber
             /\ lua[f] = "running" /\ Exists(f)
  <2>1. /\ stack # <<>> /\ Top.fiber = f /\ Top.phase = "run"
        /\ Len(stack) \in Depth /\ Top = stack[Len(stack)]
    BY <1>b, TopShape DEF Executing, InCall, Types, TypeOK, Depth
  <2>2. ActivationOK(Len(stack))
    BY <2>1 DEF Sound, ActivationsOK
  <2>. QED
    BY <2>1, <2>2 DEF ActivationOK, Live
<1>c. ASSUME NEW g \in Fibers, g = slots + 1, slots' = g, Promise!Create(g)
      PROVE  Promise!Next
  BY <1>c DEF Promise!Next
<1>1. CASE Start
  <2>1. PICK g \in Fibers : g = 1
    BY MaxFibersAssumption DEF Fibers
  <2>2. /\ g = slots + 1 /\ slots' = g
        /\ lua' = [lua EXCEPT ![g] = "running"]
        /\ UNCHANGED <<pending, continued>> /\ deps' = deps
    BY <1>1, <2>1 DEF Start, Run
  <2>3. \A i \in Outstanding(g)' : FALSE
    <3>1. deps[g] = <<>> /\ continued[g] \in Nat
      BY <2>2, Lists DEF Sound, FibersOK, FiberOK, Fibers
    <3>. QED
      BY <2>2, <3>1 DEF Outstanding
  <2>. QED
    BY <1>c, <2>2, <2>3, BirthPromised
<1>2. ASSUME NEW f \in Fibers, NEW k \in Kinds, Complete(f, k)
      PROVE  Promise!Next
  <2>1. pending[f][k] > 0 /\ lua[f] = "suspended" /\ f \notin freed
    BY <1>2 DEF Complete, Sound, RequestsOK, Live
  <2>2. Run(f, "host")
    BY <1>2, <2>1 DEF Complete, Enter
  <2>3. Promise!Answer(f)
    BY <1>2, <2>1, <2>2, AnswerPromised DEF Complete, Run
  <2>. QED
    BY <2>3 DEF Promise!Next
<1>3. ASSUME NEW f \in Fibers, ZipFails(f)
      PROVE  Promise!Next
  <2>1. "zip" \in Kinds /\ pending[f]["zip"] > 0
    BY <1>3 DEF ZipFails, Kinds
  <2>2. f \notin freed
    BY <2>1 DEF Sound, RequestsOK, Live
  <2>3. Promise!Answer(f)
    BY <1>3, <2>1, <2>2, AnswerPromised DEF ZipFails
  <2>. QED
    BY <2>3 DEF Promise!Next
<1>4. ASSUME NEW f \in Fibers, New(f)
      PROVE  Promise!Next
  <2>1. PICK g \in Fibers : g = slots + 1
    <3>1. slots \in Nat
      BY Lists
    <3>. QED
      BY <1>4, <3>1, MaxFibersAssumption DEF New, Fibers
  <2>2. /\ slots' = g
        /\ lua' = [lua EXCEPT ![g] = "running"]
        /\ UNCHANGED <<pending, continued>> /\ deps' = deps
    BY <1>4, <2>1 DEF New, Run
  <2>3. \A i \in Outstanding(g)' : FALSE
    <3>1. slots \in Nat
      BY Lists
    <3>2. deps[g] = <<>> /\ continued[g] \in Nat
      BY <2>1, <3>1, Lists DEF Sound, FibersOK, FiberOK, Fibers
    <3>. QED
      BY <2>2, <3>2 DEF Outstanding
  <2>. QED
    BY <1>c, <2>1, <2>2, <2>3, BirthPromised
<1>5. ASSUME NEW f \in Fibers, Await(f)
      PROVE  Promise!Next
  <2>1. Promise!ParkForResume(f)
    BY <1>5, <1>b, AwaitPromised DEF Await, Yield
  <2>. QED
    BY <2>1 DEF Promise!Next
<1>6. ASSUME NEW f \in Fibers, NEW call, NEW k \in Kinds, Request(f, call, k)
      PROVE  Promise!Next
  <2>1. Promise!ParkForAnswer(f)
    BY <1>6, <1>b, RequestPromised DEF Request, Yield
  <2>. QED
    BY <2>1 DEF Promise!Next
<1>7. ASSUME NEW f \in Fibers, NEW t \in Fibers, Depend(f, t)
      PROVE  Promise!Next
  <2>1. /\ Executing(f) /\ Exists(t) /\ MayDepend(f, t)
        /\ UNCHANGED <<slots, pending, continued>>
    BY <1>7 DEF Depend, Obey
  <2>2. deps' = [deps EXCEPT ![t] = Append(@, f)] /\ Yield(f)
    BY <1>7, <1>a DEF Depend, Fail
  <2>3. Promise!ParkForEnd(f, t)
    BY <1>b, <2>1, <2>2, DependPromised DEF Yield
  <2>. QED
    BY <2>3 DEF Promise!Next
<1>8. ASSUME NEW f \in Fibers, Finish(f)
      PROVE  Promise!Next
  <2>1. PICK left \in {"empty", "leftover"} :
           Conclude(f, left, TopIn("deps", Len(deps[f])))
    BY <1>8 DEF Finish
  <2>2. lua' = [lua EXCEPT ![f] = left]
    BY <1>a, <2>1 DEF Conclude, Fail
  <2>3. Promise!End(f)
    BY <1>8, <1>b, <2>2, FinishPromised DEF Finish
  <2>. QED
    BY <2>3 DEF Promise!Next
<1>9. ASSUME NEW f \in Fibers, NEW t \in Fibers, Resume(f, t)
      PROVE  Promise!Next
  <2>1. Executing(f) /\ Exists(t) /\ Awaiting(t)
    BY <1>9 DEF Resume, Obey, MayResume
  <2>2. Run(t, "resume")
    BY <1>9, <2>1 DEF Resume, Enter, Awaiting
  <2>3. Promise!Resume(t)
    BY <1>9, <1>b, <2>1, <2>2, ResumePromised DEF Resume, Run
  <2>. QED
    BY <2>3 DEF Promise!Next
<1>10. ASSUME NEW f \in Fibers, Require(f)
       PROVE  Promise!Next
  <2>1. PICK g \in Fibers : g = slots + 1
    <3>1. slots \in Nat
      BY Lists
    <3>. QED
      BY <1>10, <3>1, MaxFibersAssumption DEF Require, Fibers
  <2>2. /\ slots' = g
        /\ lua' = [lua EXCEPT ![g] = "running"]
        /\ deps' = [deps EXCEPT ![g] = Append(@, f)]
        /\ UNCHANGED <<pending, continued>>
    BY <1>10, <2>1 DEF Require, Run
  <2>3. lua[f] = "running"
    BY <1>10, <1>b DEF Require
  <2>4. /\ \A t \in Fibers \ {g} : deps'[t] = deps[t]
        /\ deps'[g] = <<f>>
    <3>1. slots \in Nat
      BY Lists
    <3>2. deps[g] = <<>>
      BY <2>1, <3>1 DEF Sound, FibersOK, FiberOK, Fibers
    <3>. QED
      BY <2>2, <3>2 DEF Types, TypeOK
  <2>5. ASSUME NEW i \in Outstanding(g)'
        PROVE  deps'[g][i] = f
    <3>1. continued'[g] \in Nat
      BY <2>2, Lists
    <3>. QED
      BY <2>4, <3>1 DEF Outstanding
  <2>. QED
    BY <1>c, <2>1, <2>2, <2>3, <2>4, <2>5, BirthPromised
<1>11. CASE ContinueDependant
  <2>1. PICK t \in Fibers : t = Top.fiber
    BY <1>11, TopShape DEF ContinueDependant, InCall, Types, TypeOK
  <2>2. /\ stack # <<>> /\ Top.phase = "deps" /\ continued[t] < Top.upto
        /\ continued' = [continued EXCEPT ![t] = @ + 1]
        /\ UNCHANGED <<slots, pending, deps>>
    BY <1>11, <2>1 DEF ContinueDependant, InCall
  <2>3. /\ Len(stack) \in Depth /\ Top = stack[Len(stack)]
        /\ ActivationOK(Len(stack))
    BY <2>2, TopShape DEF Sound, ActivationsOK, Types, TypeOK, Depth
  <2>4. /\ lua[t] \in {"empty", "leftover"} /\ Exists(t)
        /\ Top.upto = Len(deps[t]) /\ Top.via # "require"
    BY <2>1, <2>2, <2>3 DEF ActivationOK, Live
  <2>5. PICK j \in Nat : j = continued[t] + 1
    BY Lists
  <2>6. j \in Outstanding(t) /\ deps[t][j] \in Fibers
    BY <2>2, <2>4, <2>5, Lists DEF Outstanding
  <2>7. PICK d \in Fibers : d = deps[t][j]
    BY <2>6
  <2>8. Live(d) /\ (lua[d] = "suspended" \/ (lua[d] = "running" /\ Requiring(d, t)))
    BY <2>6, <2>7 DEF Sound, DependantsOK
  <2>9. ~Requiring(d, t)
    <3>1. ASSUME NEW i \in Depth, stack[i].fiber = t, stack[i].via = "require"
          PROVE  FALSE
      <4>1. i = Len(stack)
        BY <2>1, <2>3, <3>1 DEF Sound, OneActivation
      <4>. QED
        BY <2>3, <2>4, <3>1, <4>1
    <3>. QED
      BY <3>1 DEF Requiring
  <2>10. lua[d] = "suspended" /\ d \notin freed
    BY <2>8, <2>9 DEF Live
  <2>11. Enter(d, "dependant") /\ continued' = [continued EXCEPT ![t] = j]
    BY <1>11, <2>1, <2>2, <2>5, <2>7 DEF ContinueDependant
  <2>12. Run(d, "dependant")
    BY <2>10, <2>11 DEF Enter
  <2>13. Promise!Continue(d, t)
    BY <2>2, <2>4, <2>5, <2>6, <2>7, <2>10, <2>11, <2>12, ContinuePromised DEF Run
  <2>. QED
    BY <2>13 DEF Promise!Next
<1>12. CASE Return
  <2>1. stack # <<>> /\ Top.phase # "run" /\ UNCHANGED <<slots, pending, deps, continued>>
    BY <1>12 DEF Return, InCall
  <2>2. /\ Len(stack) \in Depth /\ Top = stack[Len(stack)] /\ Top.phase \in Phases
        /\ Top.fiber \in Fibers
    BY <2>1, TopShape DEF Types, TypeOK, Depth
  <2>3. CASE Top.via = "require"
    <3>1. ActivationOK(Len(stack))
      BY <2>2 DEF Sound, ActivationsOK
    <3>2. /\ Top.phase = "yield" /\ lua[Top.fiber] = "suspended" /\ Exists(Top.fiber)
      BY <2>1, <2>2, <2>3, <3>1 DEF ActivationOK, Phases, Live
    <3>3. Len(stack) - 1 \in Depth
      BY <2>1, <2>3, RequirerShape DEF Types, Depth
    <3>4. PICK f \in Fibers : f = stack[Len(stack) - 1].fiber
      BY <3>3, Activations
    <3>5. ActivationOK(Len(stack) - 1)
      BY <3>3 DEF Sound, ActivationsOK
    <3>6. /\ Exists(f) /\ lua[f] = "running" /\ f # Top.fiber
      BY <2>2, <2>3, <3>1, <3>2, <3>4, <3>5 DEF ActivationOK, Live
    <3>7. ASSUME NEW u \in Fibers, Requiring(f, u)
          PROVE  u = Top.fiber
      <4>1. stack[Len(stack) - 1 + 1].fiber = u
        BY <3>3, <3>4, <3>7, RequiringIsBelow DEF Sound
      <4>2. Len(stack) - 1 + 1 = Len(stack)
        BY Activations
      <4>. QED
        BY <2>2, <4>1, <4>2
    <3>8. lua' = [lua EXCEPT ![f] = "suspended"]
      BY <1>12, <2>3, <3>4 DEF Return
    <3>9. Promise!ParkForEnd(f, Top.fiber) \/ Promise!ParkForResume(f)
      BY <2>1, <2>2, <3>2, <3>6, <3>7, <3>8, RequireReturnPromised
    <3>. QED
      BY <2>2, <3>9 DEF Promise!Next
  <2>4. CASE Top.via # "require"
    <3>1. lua' = lua
      BY <1>12, <2>4 DEF Return
    <3>. QED
      BY <2>1, <3>1 DEF Promise!vars, PhaseOf, JoinsOf, WaitsFor, NoPending
  <2>. QED
    BY <2>3, <2>4
<1>13. CASE UNCHANGED vars
  BY <1>13 DEF vars, Promise!vars, PhaseOf, JoinsOf, WaitsFor, NoPending
<1>. QED
  BY <1>1, <1>2, <1>3, <1>4, <1>5, <1>6, <1>7, <1>8, <1>9, <1>10, <1>11, <1>12, <1>13
     DEF Next, Answer, SegmentEnds, Sleep, FileRequest, ZipOpen, Kinds

(* Before there is a fiber nothing is parked.                              *)
LEMMA InitPromised == Init => Promise!Init
<1>. SUFFICES ASSUME Init PROVE Promise!Init
  OBVIOUS
<1>1. [f \in Fibers |-> PhaseOf(f)] = [f \in Fibers |-> "unborn"]
  BY DEF Init, PhaseOf, Fibers
<1>2. \A f \in Fibers : NoPending(f) /\ lua[f] # "suspended"
  BY DEF Init, NoPending
<1>3. JoinsOf = {}
  BY <1>2 DEF JoinsOf
<1>. QED
  BY <1>1, <1>2, <1>3 DEF Promise!Init

(* For scripts that keep the contract, the slots, raw handles, nested      *)
(* calls and lists of dependants implement the promise: a fiber goes on    *)
(* when what it waits for is there, and by nothing else (ScriptFiber::Call,*)
(* FiberHandle::Continue, FiberController, ModuleController's require).    *)
THEOREM FibersKeepPromise == Disciplined => (Spec => KeepsPromise)
<1>. SUFFICES ASSUME Disciplined PROVE Spec => KeepsPromise
  OBVIOUS
<1>1. Init => ~breached /\ Promise!Init
  BY InitPromised DEF Init
<1>2. ~breached /\ [Next]_vars => ~breached'
  BY DisciplineKept
<1>3. IInv /\ IInv' /\ ~breached /\ ~breached' /\ [Next]_vars => [Promise!Next]_(Promise!vars)
  <2>. SUFFICES ASSUME IInv, IInv', ~breached, ~breached', [Next]_vars
                PROVE  Promise!Next \/ UNCHANGED Promise!vars
    OBVIOUS
  <2>1. Types /\ Types' /\ fault = "none" /\ Sound
    BY DEF IInv, Types
  <2>. QED
    BY <2>1, StepPromised
<1>. QED
  BY <1>1, <1>2, <1>3, Inductive, PTL DEF Spec, KeepsPromise, Promise!Spec
=============================================================================
