-------------------------- MODULE CallFramesProofs ---------------------------
(***************************************************************************)
(* Proofs about CallFrames for every set of fibers, numbers and objects    *)
(* and for argument lists of every length.                                 *)
(*                                                                         *)
(* First what Topmost, At and PushVarArgs do to sequences; then what an    *)
(* action does to the fibers and activations it does not name; then one    *)
(* lemma per action; then the theorems.                                    *)
(***************************************************************************)
EXTENDS CallFramesInvariant, SequenceTheorems, TLAPS

Anything == Values \cup Special

-----------------------------------------------------------------------------
(* Sequences.                                                              *)

(* The special values differ from each other and from all that scripts     *)
(* pass on.                                                                *)
LEMMA SpecialValues ==
    /\ {Self, Method, Entity, Nil, Yes, No, Message, Stale, NoError} \subseteq Special
    /\ Values \cap Special = {}
    /\ Numbers \subseteq Values /\ Objects \subseteq Values
    /\ Values \subseteq Anything /\ Special \subseteq Anything
BY ValuesAssumption DEF Values, Special, Anything

(* What scripts pass on are sequences.                                     *)
LEMMA ListsAreSequences ==
    /\ <<>> \in Lists
    /\ \A l \in Lists : l \in Seq(Values) /\ l \in Seq(Anything)
<1>1. <<>> \in [1 .. 0 -> Values] /\ 0 \in 0 .. MaxArgs
  BY MaxArgsAssumption
<1>2. <<>> \in Lists
  BY <1>1 DEF Lists
<1>3. ASSUME NEW l \in Lists
      PROVE  l \in Seq(Values) /\ l \in Seq(Anything)
  <2>1. PICK n \in 0 .. MaxArgs : l \in [1 .. n -> Values]
    BY DEF Lists
  <2>2. n \in Nat
    BY <2>1, MaxArgsAssumption
  <2>3. l \in Seq(Values)
    BY <2>1, <2>2
  <2>4. l \in [1 .. n -> Anything]
    BY <2>1 DEF Anything
  <2>5. l \in Seq(Anything)
    BY <2>2, <2>4
  <2> QED  BY <2>3, <2>5
<1> QED  BY <1>2, <1>3

(* A slot of a frame is a value of the frame, nil or what lies above.      *)
LEMMA AtIsValue ==
    ASSUME NEW s \in Seq(Anything), NEW i \in Int
    PROVE  /\ At(s, i) \in Anything
           /\ i \in 1 .. Len(s) => At(s, i) = s[i]
           /\ i > Len(s) => At(s, i) = Nil
           /\ At(s, 0) = Stale
BY SpecialValues DEF At

(* The topmost values of a sequence are as many as were asked for, from    *)
(* the end and in order.                                                   *)
LEMMA TopmostIs ==
    ASSUME NEW S, NEW s \in Seq(S), NEW n \in 0 .. Len(s)
    PROVE  /\ Topmost(s, n) \in Seq(S)
           /\ Len(Topmost(s, n)) = n
           /\ \A i \in 1 .. n : Topmost(s, n)[i] = s[Len(s) - n + i]
<1>1. Len(s) - n + 1 \in 1 .. Len(s) + 1 /\ Len(s) \in Nat
  OBVIOUS
<1>2. /\ SubSeq(s, Len(s) - n + 1, Len(s)) \in Seq(S)
      /\ Len(SubSeq(s, Len(s) - n + 1, Len(s))) = n
  BY <1>1, SubSeqProperties
<1>3. ASSUME NEW i \in 1 .. n
      PROVE  SubSeq(s, Len(s) - n + 1, Len(s))[i] = s[Len(s) - n + i]
  BY <1>1, <1>3, SubSeqProperties
<1> QED  BY <1>2, <1>3 DEF Topmost

(* What was pushed last is on top: all of it, or the last n values.        *)
LEMMA TopmostPushed ==
    ASSUME NEW S, NEW s \in Seq(S), NEW t \in Seq(S), NEW n \in 0 .. Len(t)
    PROVE  /\ Topmost(s \o t, n) = Topmost(t, n)
           /\ Topmost(t, Len(t)) = t
<1>1. s \o t \in Seq(S) /\ Len(s \o t) = Len(s) + Len(t)
  OBVIOUS
<1>2. \A i \in 1 .. Len(t) : (s \o t)[Len(s) + i] = t[i]
  OBVIOUS
<1>3. n \in 0 .. Len(s \o t) /\ Len(t) \in 0 .. Len(t)
  BY <1>1
<1>4. /\ Topmost(s \o t, n) \in Seq(S) /\ Len(Topmost(s \o t, n)) = n
      /\ \A i \in 1 .. n : Topmost(s \o t, n)[i] = (s \o t)[Len(s \o t) - n + i]
  BY <1>1, <1>3, TopmostIs
<1>5. /\ Topmost(t, n) \in Seq(S) /\ Len(Topmost(t, n)) = n
      /\ \A i \in 1 .. n : Topmost(t, n)[i] = t[Len(t) - n + i]
  BY TopmostIs
<1>6. /\ Topmost(t, Len(t)) \in Seq(S) /\ Len(Topmost(t, Len(t))) = Len(t)
      /\ \A i \in 1 .. Len(t) : Topmost(t, Len(t))[i] = t[Len(t) - Len(t) + i]
  BY <1>3, TopmostIs
<1>7. ASSUME NEW i \in 1 .. n PROVE Topmost(s \o t, n)[i] = Topmost(t, n)[i]
  <2>1. Len(t) - n + i \in 1 .. Len(t)
    OBVIOUS
  <2>2. (s \o t)[Len(s) + (Len(t) - n + i)] = t[Len(t) - n + i]
    BY <1>2, <2>1
  <2>3. Len(s \o t) - n + i = Len(s) + (Len(t) - n + i)
    BY <1>1
  <2> QED  BY <1>4, <1>5, <2>2, <2>3
<1>8. \A i \in 1 .. Len(t) : Topmost(t, Len(t))[i] = t[i]
  BY <1>6
<1>9. Topmost(s \o t, n) = Topmost(t, n)
  BY <1>4, <1>5, <1>7, SeqEqual
<1> QED  BY <1>6, <1>8, <1>9, SeqEqual

(* All that was pushed on a frame is what arrives.                         *)
LEMMA AllArrive ==
    ASSUME NEW s \in Seq(Anything), NEW t \in Seq(Anything)
    PROVE  Topmost(s \o t, Len(t)) = t
<1>1. Len(t) \in 0 .. Len(t)
  OBVIOUS
<1> QED  BY <1>1, TopmostPushed

(* The first lua_resume takes all but the function.                        *)
LEMMA AllButFirstArrive ==
    ASSUME NEW s \in Seq(Anything), NEW v \in Anything, NEW t \in Seq(Anything)
    PROVE  Topmost(s \o (<<v>> \o t), Len(<<v>> \o t) - 1) = t
<1>1. <<v>> \o t \in Seq(Anything) /\ Len(<<v>> \o t) = 1 + Len(t)
  OBVIOUS
<1>2. \A i \in 1 .. Len(t) : (<<v>> \o t)[1 + i] = t[i]
  OBVIOUS
<1>3. Len(t) \in 0 .. Len(<<v>> \o t) /\ Len(t) \in 0 .. Len(t)
  BY <1>1
<1>4. Topmost(s \o (<<v>> \o t), Len(t)) = Topmost(<<v>> \o t, Len(t))
  BY <1>1, <1>3, TopmostPushed
<1>5. /\ Topmost(<<v>> \o t, Len(t)) \in Seq(Anything)
      /\ Len(Topmost(<<v>> \o t, Len(t))) = Len(t)
      /\ \A i \in 1 .. Len(t) :
            Topmost(<<v>> \o t, Len(t))[i] = (<<v>> \o t)[Len(<<v>> \o t) - Len(t) + i]
  BY <1>1, <1>3, TopmostIs
<1>6. \A i \in 1 .. Len(t) : Topmost(<<v>> \o t, Len(t))[i] = t[i]
  BY <1>1, <1>2, <1>5
<1>7. Topmost(<<v>> \o t, Len(t)) = t
  BY <1>5, <1>6, SeqEqual
<1> QED  BY <1>1, <1>4, <1>7

(* What PushVarArgs copies is a sequence: the slots above `after`, up to   *)
(* and including the length.                                               *)
LEMMA VarArgsAre ==
    ASSUME NEW f \in Fibers, NEW after \in Nat,
           stack[f] \in Seq(Anything), call[f].push \in Int, call[f].self \in {0, 1}
    PROVE  /\ VarArgs(f, after) \in Seq(Anything)
           /\ call[f].push >= after - 1 =>
                 Len(VarArgs(f, after)) = call[f].push - after + 1
           /\ \A k \in 1 .. call[f].push - after + 1 :
                 VarArgs(f, after)[k] = At(stack[f], after + k - 1 + call[f].self)
<1> DEFINE top == call[f].push - after + 1
           size == IF top >= 0 THEN top ELSE 0
<1>1. size \in Nat /\ 1 .. top = 1 .. size
  OBVIOUS
<1>2. \A k \in 1 .. top : At(stack[f], after + k - 1 + call[f].self) \in Anything
  BY AtIsValue
<1>3. VarArgs(f, after) \in [1 .. size -> Anything]
  BY <1>1, <1>2 DEF VarArgs
<1>4. VarArgs(f, after) \in Seq(Anything) /\ Len(VarArgs(f, after)) = size
  BY <1>1, <1>3
<1>5. \A k \in 1 .. top :
          VarArgs(f, after)[k] = At(stack[f], after + k - 1 + call[f].self)
  BY DEF VarArgs
<1> QED  BY <1>4, <1>5

-----------------------------------------------------------------------------
(* What actions do to the fibers they do not name.                         *)

Same(f) ==
    /\ doing'[f] = doing[f] /\ waits'[f] = waits[f] /\ first'[f] = first[f]
    /\ stack'[f] = stack[f] /\ call'[f] = call[f] /\ left'[f] = left[f]

SameExcept(S) == \A f \in Fibers \ S : Same(f)

GoodFiber(f) == FrameOK(f) /\ LifeOK(f)

(* A fiber that nothing happens to stays as it should be.                  *)
LEMMA SameStaysGood ==
    ASSUME NEW f \in Fibers, GoodFiber(f), Same(f)
    PROVE  GoodFiber(f)'
<1>1. FrameOK(f)'
  BY DEF GoodFiber, FrameOK, NativeFrame, StoppedFrame, FailedFrame, Same
<1>2. LifeOK(f)'
  BY DEF GoodFiber, LifeOK, Same
<1> QED  BY <1>1, <1>2 DEF GoodFiber

(* So the others stay, and what is left to show are the fibers named.      *)
LEMMA OthersStayGood ==
    ASSUME FramesOK, LivesOK, NEW S, SameExcept(S), \A f \in S \cap Fibers : GoodFiber(f)'
    PROVE  FramesOK' /\ LivesOK'
<1>1. ASSUME NEW f \in Fibers PROVE GoodFiber(f)'
  <2>1. CASE f \in S
    BY <2>1
  <2>2. CASE f \notin S
    <3>1. GoodFiber(f)
      BY DEF FramesOK, LivesOK, GoodFiber
    <3>2. Same(f)
      BY <2>2 DEF SameExcept
    <3> QED  BY <3>1, <3>2, SameStaysGood
  <2> QED  BY <2>1, <2>2
<1> QED  BY <1>1 DEF FramesOK, LivesOK, GoodFiber

(* A fiber back in its script has no frame that anyone reads.              *)
LEMMA ScriptIsGood ==
    ASSUME NEW f \in Fibers, doing'[f] = "script", waits'[f] = "nothing", first'[f] = 0
    PROVE  GoodFiber(f)'
BY DEF GoodFiber, FrameOK, LifeOK, Natives

(* Nor has a deleted one.                                                  *)
LEMMA FreedIsGood ==
    ASSUME NEW f \in Fibers, doing'[f] = "freed", waits'[f] = "nothing", first'[f] = 0
    PROVE  GoodFiber(f)'
BY DEF GoodFiber, FrameOK, LifeOK, Natives

-----------------------------------------------------------------------------
(* Activations.                                                            *)

Typed == active \in Seq([fiber : Fibers, via : Vias])

(* The type invariant has this part.                                       *)
LEMMA ActivationsTyped ==
    /\ TypeOK => Typed
    /\ Typed =>
          /\ Len(active) \in Nat
          /\ \A i \in Depth : active[i].fiber \in Fibers /\ active[i].via \in Vias
<1>1. TypeOK => Typed
  BY DEF TypeOK, Typed
<1>2. ASSUME Typed, NEW i \in Depth PROVE active[i].fiber \in Fibers /\ active[i].via \in Vias
  <2>1. active[i] \in [fiber : Fibers, via : Vias]
    BY <1>2, ElementOfSeq DEF Typed, Depth
  <2> QED  BY <2>1
<1> QED  BY <1>1, <1>2 DEF Typed

(* The fiber that runs is the innermost one and no other.                  *)
LEMMA RunsOnce ==
    ASSUME Typed, OneActivation, ActivationsOK, NEW f, Runs(f)
    PROVE  /\ f \in Fibers
           /\ Len(active) \in Nat \ {0} /\ Len(active) \in Depth
           /\ active[Len(active)].fiber = f
           /\ \A i \in Depth : active[i].fiber = f <=> i = Len(active)
           /\ doing[f] \notin {"fresh", "freed"}
<1>1. Len(active) \in Nat \ {0} /\ active[Len(active)].fiber = f
  BY EmptySeq DEF Runs, Typed
<1>2. Len(active) \in Depth
  BY <1>1 DEF Depth
<1>3. f \in Fibers
  BY <1>1, <1>2, ActivationsTyped
<1>4. \A i \in Depth : active[i].fiber = f <=> i = Len(active)
  BY <1>1, <1>2 DEF OneActivation
<1>5. doing[f] \notin {"fresh", "freed"}
  BY <1>1, <1>2 DEF ActivationsOK, ActivationOK
<1> QED  BY <1>1, <1>2, <1>3, <1>4, <1>5

(* Those below it wait in a native call or have ended.                     *)
LEMMA LowerIsBusy ==
    ASSUME Typed, ActivationsOK, NEW i \in Depth, i # Len(active)
    PROVE  doing[active[i].fiber] \in {"New", "Resume", "ended", "failed"}
<1>1. i + 1 \in Depth /\ i + 1 > 1 /\ (i + 1) - 1 = i
  BY ActivationsTyped DEF Depth
<1>2. doing[active[i].fiber] \in Caller(active[i + 1].via)
  BY <1>1 DEF ActivationsOK, ActivationOK
<1>3. Caller(active[i + 1].via) \subseteq {"New", "Resume", "ended", "failed"}
  BY DEF Caller
<1> QED  BY <1>2, <1>3

(* Neither a new nor a waiting fiber is active, unless it has just yielded *)
(* on top.                                                                 *)
LEMMA IdleFiber ==
    ASSUME Typed, ActivationsOK, NEW g \in Fibers, doing[g] \in {"fresh", "yielded"},
           active # <<>> => active[Len(active)].fiber # g
    PROVE  \A i \in Depth : active[i].fiber # g
<1> SUFFICES ASSUME NEW i \in Depth, active[i].fiber = g
             PROVE  FALSE
  OBVIOUS
<1>1. active # <<>>
  BY EmptySeq DEF Depth
<1>2. i # Len(active)
  BY <1>1
<1> QED  BY <1>2, LowerIsBusy

(* As long as nothing happens to the fibers below, and the innermost one   *)
(* goes on.                                                                *)
LEMMA ActivationsStay ==
    ASSUME Typed, ActivationsOK, OneActivation, NEW f, Runs(f),
           active' = active, \A g \in Fibers \ {f} : doing'[g] = doing[g],
           doing'[f] \notin {"fresh", "freed"}
    PROVE  ActivationsOK' /\ OneActivation'
<1>1. OneActivation'
  BY DEF OneActivation, Depth
<1>2. \A i \in Depth : i # Len(active) => active[i].fiber \in Fibers \ {f}
  BY RunsOnce, ActivationsTyped
<1>3. \A i \in Depth : i # Len(active) => doing'[active[i].fiber] = doing[active[i].fiber]
  BY <1>2
<1>4. ASSUME NEW i \in Depth PROVE ActivationOK(i)'
  <2>1. ActivationOK(i)
    BY DEF ActivationsOK
  <2>2. doing'[active[i].fiber] \notin {"fresh", "freed"}
    <3>1. CASE i = Len(active)
      BY <3>1, RunsOnce
    <3>2. CASE i # Len(active)
      BY <3>2, <1>3, <2>1 DEF ActivationOK
    <3> QED  BY <3>1, <3>2
  <2>3. i > 1 => i - 1 \in Depth /\ i - 1 # Len(active)
    BY ActivationsTyped DEF Depth
  <2>4. i > 1 => doing'[active[i - 1].fiber] = doing[active[i - 1].fiber]
    BY <2>3, <1>3
  <2>5. i > 1 => doing'[active[i - 1].fiber] \in Caller(active[i].via)
    BY <2>1, <2>4 DEF ActivationOK
  <2> QED  BY <2>1, <2>2, <2>5 DEF ActivationOK
<1>5. Depth' = Depth
  BY DEF Depth
<1> QED  BY <1>1, <1>4, <1>5 DEF ActivationsOK

(* What g's activation needs to begin.                                     *)
MayEnter(g, via) ==
    /\ doing[g] \in {"fresh", "yielded"}
    /\ \A i \in Depth : active[i].fiber # g
    /\ via \in Vias
    /\ via = "host" <=> active = <<>>
    /\ active # <<>> => doing[active[Len(active)].fiber] \in Caller(via)

(* One more activation.                                                    *)
LEMMA ActivationBegins ==
    ASSUME Typed, ActivationsOK, OneActivation, NEW g \in Fibers, NEW via, MayEnter(g, via),
           active' = Append(active, [fiber |-> g, via |-> via]),
           doing'[g] = "script", \A h \in Fibers \ {g} : doing'[h] = doing[h]
    PROVE  Typed' /\ ActivationsOK' /\ OneActivation'
<1> DEFINE top == [fiber |-> g, via |-> via]
<1> PICK n : n = Len(active)
  OBVIOUS
<1>1. top \in [fiber : Fibers, via : Vias] /\ n \in Nat
  BY DEF MayEnter, Typed
<1>2. /\ active' \in Seq([fiber : Fibers, via : Vias]) /\ Len(active') = n + 1
      /\ \A i \in Depth : active'[i] = active[i]
      /\ active'[n + 1] = top
  BY <1>1, AppendProperties DEF Typed, Depth
<1>3. Depth' = Depth \cup {n + 1} /\ n + 1 \notin Depth
  BY <1>1, <1>2 DEF Depth
<1>4. active'[n + 1].fiber = g /\ active'[n + 1].via = via
  BY <1>2
<1>5. \A i \in Depth : active'[i].fiber \in Fibers \ {g}
  BY <1>2, ActivationsTyped DEF MayEnter
<1>6. OneActivation'
  <2> SUFFICES ASSUME NEW i \in Depth', NEW j \in Depth', active'[i].fiber = active'[j].fiber
               PROVE  i = j
    BY DEF OneActivation
  <2>1. CASE i \in Depth /\ j \in Depth
    BY <2>1, <1>2 DEF OneActivation
  <2>2. CASE i = n + 1 \/ j = n + 1
    BY <2>2, <1>3, <1>4, <1>5
  <2> QED  BY <2>1, <2>2, <1>3
<1>7. \A i \in Depth : doing'[active'[i].fiber] = doing[active[i].fiber]
  BY <1>2, <1>5
<1>8. ASSUME NEW i \in Depth PROVE ActivationOK(i)'
  <2>1. ActivationOK(i)
    BY DEF ActivationsOK
  <2>2. i > 1 => i - 1 \in Depth
    BY <1>1 DEF Depth
  <2>3. active'[i] = active[i] /\ doing'[active'[i].fiber] = doing[active[i].fiber]
    BY <1>2, <1>7
  <2>4. i > 1 => doing'[active'[i - 1].fiber] = doing[active[i - 1].fiber]
    BY <2>2, <1>7
  <2> QED  BY <2>1, <2>3, <2>4 DEF ActivationOK
<1>9. ActivationOK(n + 1)'
  <2>1. doing'[active'[n + 1].fiber] = "script"
    BY <1>4
  <2>2. active = <<>> <=> n = 0
    BY EmptySeq DEF Typed
  <2>3. active'[n + 1].via = "host" <=> n + 1 = 1
    BY <1>1, <1>4, <2>2 DEF MayEnter
  <2>4. n + 1 > 1 => doing'[active'[n].fiber] \in Caller(via)
    <3> SUFFICES ASSUME n > 0 PROVE doing'[active'[n].fiber] \in Caller(via)
      BY <1>1
    <3>1. n \in Depth
      BY <1>1 DEF Depth
    <3>2. doing[active[n].fiber] \in Caller(via)
      BY <2>2 DEF MayEnter
    <3> QED  BY <3>1, <3>2, <1>7
  <2>5. (n + 1) - 1 = n
    BY <1>1
  <2> QED  BY <2>1, <2>3, <2>4, <2>5, <1>4 DEF ActivationOK
<1>10. ActivationsOK'
  BY <1>3, <1>8, <1>9 DEF ActivationsOK
<1> QED  BY <1>2, <1>6, <1>10 DEF Typed

(* One activation less.                                                    *)
LEMMA ActivationEnds ==
    ASSUME Typed, ActivationsOK, OneActivation, NEW f, Runs(f),
           active' = SubSeq(active, 1, Len(active) - 1),
           \A i \in Depth : i < Len(active) - 1 =>
               doing'[active[i].fiber] = doing[active[i].fiber],
           Len(active) > 1 =>
               doing'[active[Len(active) - 1].fiber] \notin {"fresh", "freed"}
    PROVE  Typed' /\ ActivationsOK' /\ OneActivation'
<1> PICK n : n = Len(active)
  OBVIOUS
<1>1. n \in Nat \ {0} /\ n \in Depth
  BY RunsOnce
<1>3. /\ active' \in Seq([fiber : Fibers, via : Vias])
      /\ Len(active') = n - 1
      /\ \A i \in 1 .. n - 1 : active'[i] = active[i]
  <2>0. ASSUME NEW i \in 1 .. n - 1 PROVE active[i] \in [fiber : Fibers, via : Vias]
    <3>1. i \in 1 .. Len(active)
      BY <1>1
    <3> QED  BY <3>1, ElementOfSeq DEF Typed
  <2>1. /\ SubSeq(active, 1, n - 1) \in Seq([fiber : Fibers, via : Vias])
        /\ Len(SubSeq(active, 1, n - 1)) = IF 1 <= n - 1 THEN (n - 1) - 1 + 1 ELSE 0
        /\ \A i \in 1 .. (n - 1) - 1 + 1 : SubSeq(active, 1, n - 1)[i] = active[1 + i - 1]
    BY <1>1, <2>0, SubSeqProperties
  <2>2. \A i \in 1 .. n - 1 : active'[i] = active[1 + i - 1]
    BY <1>1, <2>1
  <2>3. \A i \in 1 .. n - 1 : 1 + i - 1 = i
    BY <1>1
  <2>4. Len(active') = n - 1
    BY <1>1, <2>1
  <2> QED  BY <2>1, <2>2, <2>3, <2>4
<1>4. Depth' = 1 .. n - 1 /\ \A i \in Depth' : i \in Depth
  BY <1>1, <1>3 DEF Depth
<1>5. OneActivation'
  BY <1>3, <1>4 DEF OneActivation
<1>6. ASSUME NEW i \in Depth' PROVE ActivationOK(i)'
  <2>1. ActivationOK(i) /\ i \in Depth /\ i \in 1 .. n - 1 /\ active'[i] = active[i]
    BY <1>3, <1>4 DEF ActivationsOK
  <2>2. doing'[active'[i].fiber] \notin {"fresh", "freed"}
    <3>1. CASE i = n - 1
      BY <3>1, <2>1, <1>1
    <3>2. CASE i # n - 1
      <4>1. i < n - 1
        BY <3>2, <2>1, <1>1
      <4> QED  BY <4>1, <2>1 DEF ActivationOK
    <3> QED  BY <3>1, <3>2
  <2>3. i > 1 => i - 1 \in Depth /\ i - 1 < n - 1 /\ i - 1 \in 1 .. n - 1
    BY <2>1, <1>1 DEF Depth
  <2>4. i > 1 => doing'[active'[i - 1].fiber] = doing[active[i - 1].fiber]
    BY <2>3, <1>3
  <2> QED  BY <2>1, <2>2, <2>4 DEF ActivationOK
<1> QED  BY <1>3, <1>5, <1>6 DEF ActivationsOK, Typed

-----------------------------------------------------------------------------
(* Dependants.                                                             *)

(* As long as none of them stops waiting.                                  *)
LEMMA DependantsStay ==
    ASSUME DependantsWait, OneDependency, TypeOK, deps' = deps,
           \A h \in Fibers : waits[h] = "fiber" => waits'[h] = "fiber"
    PROVE  DependantsWait' /\ OneDependency'
<1>1. OneDependency'
  BY DEF OneDependency
<1>2. ASSUME NEW g \in Fibers, NEW i \in DOMAIN deps[g] PROVE waits'[deps[g][i]] = "fiber"
  <2>1. deps[g] \in Seq(Fibers)
    BY DEF TypeOK
  <2>2. deps[g][i] \in Fibers
    BY <2>1
  <2>3. waits[deps[g][i]] = "fiber"
    BY DEF DependantsWait
  <2> QED  BY <2>2, <2>3
<1> QED  BY <1>1, <1>2 DEF DependantsWait

-----------------------------------------------------------------------------
(* What the actions are made of.                                           *)

(* The part of the invariant that is about fibers and activations.         *)
Orderly ==
    /\ TypeOK
    /\ FramesOK /\ LivesOK
    /\ ActivationsOK /\ OneActivation

(* SetupCall and SetupReturn answer cursors.                               *)
LEMMA CursorsTyped ==
    /\ \A n \in Int, c \in Cursors : SetupCall(n, c) \in Cursors
    /\ \A n \in Int, failed \in BOOLEAN : SetupReturn(n, failed) \in Cursors
BY DEF SetupCall, SetupReturn, Cursors

(* What a fiber has.                                                       *)
LEMMA FiberTyped ==
    ASSUME TypeOK, NEW f \in Fibers
    PROVE  /\ doing[f] \in States /\ waits[f] \in Reasons
           /\ stack[f] \in Seq(Anything)
           /\ call[f] \in Cursors
           /\ call[f].push \in Int /\ call[f].self \in {0, 1}
           /\ call[f].pop \in Nat /\ call[f].failed \in BOOLEAN
           /\ first[f] \in {0, 1}
           /\ deps[f] \in Seq(Fibers)
           /\ left[f] \in Lists /\ left[f] \in Seq(Anything)
<1>1. /\ doing[f] \in States /\ waits[f] \in Reasons /\ stack[f] \in Seq(Anything)
      /\ call[f] \in Cursors /\ first[f] \in {0, 1} /\ deps[f] \in Seq(Fibers)
      /\ left[f] \in Lists
  BY DEF TypeOK, Anything
<1>2. /\ call[f].push \in Int /\ call[f].self \in {0, 1}
      /\ call[f].pop \in Nat /\ call[f].failed \in BOOLEAN
  BY <1>1 DEF Cursors
<1> QED  BY <1>1, <1>2, ListsAreSequences

(* A native frame has self, and the arguments above it.                    *)
LEMMA NativeArguments ==
    ASSUME TypeOK, FramesOK, NEW f \in Fibers, doing[f] \in Natives
    PROVE  /\ NativeFrame(f)
           /\ Len(stack[f]) \in Nat \ {0}
           /\ Arguments(f) \in Seq(Anything)
           /\ Len(Arguments(f)) = Len(stack[f]) - 1
           /\ \A i \in 1 .. Len(stack[f]) - 1 : Arguments(f)[i] = stack[f][i + 1]
<1>1. NativeFrame(f)
  BY DEF FramesOK, FrameOK
<1>2. stack[f] \in Seq(Anything) /\ stack[f] # <<>>
  BY <1>1, FiberTyped DEF NativeFrame
<1>3. Len(stack[f]) \in Nat \ {0}
  BY <1>2, EmptySeq
<1>4. /\ Tail(stack[f]) \in Seq(Anything)
      /\ Len(Tail(stack[f])) = Len(stack[f]) - 1
      /\ \A i \in 1 .. Len(Tail(stack[f])) : Tail(stack[f])[i] = stack[f][i + 1]
  BY <1>2, HeadTailProperties
<1> QED  BY <1>1, <1>3, <1>4 DEF Arguments

(* A fiber is entered where it may be, with enough values.                 *)
Enters(g, via, given, pushes) ==
    /\ g \in Fibers /\ MayEnter(g, via)
    /\ given \in Seq(Anything) /\ pushes \in Seq(Anything)
    /\ Len(pushes) >= first[g]
    /\ Enter(g, via, given, pushes)
    /\ deps' \in [Fibers -> Seq(Fibers)]

(* All that this changes is the fiber and its activation.                  *)
LEMMA EnterKeeps ==
    ASSUME Orderly, NEW g, NEW via, NEW given, NEW pushes, Enters(g, via, given, pushes)
    PROVE  /\ Orderly'
           /\ waits'[g] = "nothing"
           /\ \A h \in Fibers \ {g} : waits'[h] = waits[h]
           /\ handed'.how = via /\ handed'.given = given
           /\ handed'.got = Topmost(stack[g] \o pushes, Len(pushes) - first[g])
<1> /\ g \in Fibers /\ MayEnter(g, via)
    /\ given \in Seq(Anything) /\ pushes \in Seq(Anything)
    /\ Len(pushes) >= first[g]
    /\ Enter(g, via, given, pushes)
    /\ deps' \in [Fibers -> Seq(Fibers)]
  BY DEF Enters
<1>1. TypeOK /\ Typed
  BY ActivationsTyped DEF Orderly
<1>2. /\ doing' \in [Fibers -> States] /\ doing'[g] = "script"
      /\ \A h \in Fibers \ {g} : doing'[h] = doing[h]
  BY <1>1 DEF Enter, TypeOK, States
<1>3. /\ waits' \in [Fibers -> Reasons] /\ waits'[g] = "nothing"
      /\ \A h \in Fibers \ {g} : waits'[h] = waits[h]
  BY <1>1 DEF Enter, TypeOK, Reasons
<1>4. /\ first' \in [Fibers -> {0, 1}] /\ first'[g] = 0
      /\ \A h \in Fibers \ {g} : first'[h] = first[h]
  BY <1>1 DEF Enter, TypeOK
<1>5. /\ stack' \in [Fibers -> Seq(Values \cup Special)]
      /\ \A h \in Fibers \ {g} : stack'[h] = stack[h]
  <2>1. <<>> \in Seq(Values \cup Special)
    OBVIOUS
  <2> QED  BY <1>1, <2>1 DEF Enter, TypeOK
<1>6. /\ call' \in [Fibers -> Cursors]
      /\ \A h \in Fibers \ {g} : call'[h] = call[h]
  <2>0. call[g] \in Cursors /\ -1 \in Int
    BY <1>1, FiberTyped
  <2>1. SetupCall(-1, call[g]) \in Cursors /\ Len(pushes) \in Nat
    BY <2>0, CursorsTyped
  <2>2. [SetupCall(-1, call[g]) EXCEPT !.pop = Len(pushes)] \in Cursors
    BY <2>1 DEF Cursors
  <2>3. call \in [Fibers -> Cursors]
    BY <1>1 DEF TypeOK
  <2>4. call' = [call EXCEPT ![g] = [SetupCall(-1, call[g]) EXCEPT !.pop = Len(pushes)]]
    BY DEF Enter
  <2> QED  BY <2>2, <2>3, <2>4
<1>7. left' = left
  BY DEF Enter
<1>8. SameExcept({g})
  BY <1>2, <1>3, <1>4, <1>5, <1>6, <1>7 DEF SameExcept, Same
<1>9. FramesOK' /\ LivesOK'
  <2>1. GoodFiber(g)'
    BY <1>2, <1>3, <1>4, ScriptIsGood
  <2> QED  BY <1>8, <2>1, OthersStayGood DEF Orderly
<1>10. active' = Append(active, [fiber |-> g, via |-> via])
  BY DEF Enter
<1>11. Typed' /\ ActivationsOK' /\ OneActivation'
  BY <1>1, <1>2, <1>10, ActivationBegins DEF Orderly
<1>12. /\ handed' = [how |-> via, given |-> given, slot |-> 0,
                     got |-> Topmost(stack[g] \o pushes, Len(pushes) - first[g])]
  BY DEF Enter, Hand
<1>13. handed'.given \in Seq(Values \cup Special) /\ handed'.got \in Seq(Values \cup Special)
  <2>1. stack[g] \in Seq(Anything) /\ first[g] \in {0, 1}
    BY <1>1, FiberTyped
  <2>2. stack[g] \o pushes \in Seq(Anything)
    BY <2>1
  <2>3. Len(pushes) - first[g] \in 0 .. Len(stack[g] \o pushes)
    BY <2>1
  <2>4. handed'.got \in Seq(Anything)
    BY <1>12, <2>2, <2>3, TopmostIs
  <2> QED  BY <1>12, <2>4 DEF Anything
<1>14. left' \in [Fibers -> Lists]
  BY <1>1, <1>7 DEF TypeOK
<1>15. TypeOK'
  BY <1>2, <1>3, <1>4, <1>5, <1>6, <1>11, <1>13, <1>14 DEF TypeOK, Typed
<1> QED  BY <1>3, <1>9, <1>11, <1>12, <1>15 DEF Orderly

(* A native call answers its script, which was there all along.            *)
Answers(f, how, given, pushes, slot, deleted) ==
    /\ f \in Fibers /\ deleted \in SUBSET Fibers
    /\ given \in Seq(Anything) /\ pushes \in Seq(Anything)
    /\ \A h \in deleted \cup {f} : waits[h] = "nothing" /\ first[h] = 0
    /\ Answer(f, how, given, pushes, slot, deleted)
    /\ Typed'

(* The script gets just what was pushed.                                   *)
LEMMA AnswerKeeps ==
    ASSUME Orderly, NEW f, NEW how, NEW given, NEW pushes, NEW slot, NEW deleted,
           Answers(f, how, given, pushes, slot, deleted)
    PROVE  /\ TypeOK' /\ FramesOK' /\ LivesOK'
           /\ doing'[f] = "script"
           /\ \A h \in Fibers \ (deleted \cup {f}) : doing'[h] = doing[h]
           /\ waits' = waits /\ deps' = deps
           /\ handed' = [how |-> how, given |-> given, got |-> pushes, slot |-> slot]
<1> /\ f \in Fibers /\ deleted \in SUBSET Fibers
    /\ given \in Seq(Anything) /\ pushes \in Seq(Anything)
    /\ \A h \in deleted \cup {f} : waits[h] = "nothing" /\ first[h] = 0
    /\ Answer(f, how, given, pushes, slot, deleted)
    /\ Typed'
  BY DEF Answers
<1>1. TypeOK
  BY DEF Orderly
<1>2. /\ doing' \in [Fibers -> States] /\ doing'[f] = "script"
      /\ \A h \in deleted \ {f} : doing'[h] = "freed"
      /\ \A h \in Fibers \ (deleted \cup {f}) : doing'[h] = doing[h]
  BY <1>1 DEF Answer, With, TypeOK, States
<1>3. /\ stack' \in [Fibers -> Seq(Values \cup Special)]
      /\ \A h \in Fibers \ (deleted \cup {f}) : stack'[h] = stack[h]
  <2>1. <<>> \in Seq(Values \cup Special)
    OBVIOUS
  <2> QED  BY <1>1, <2>1 DEF Answer, With, TypeOK
<1>4. /\ left' \in [Fibers -> Lists]
      /\ \A h \in Fibers \ (deleted \cup {f}) : left'[h] = left[h]
  BY <1>1, ListsAreSequences DEF Answer, With, TypeOK
<1>5. /\ call' \in [Fibers -> Cursors]
      /\ \A h \in Fibers \ (deleted \cup {f}) : call'[h] = call[h]
  <2>1. call[f] \in Cursors /\ Len(pushes) \in Nat
    BY <1>1, FiberTyped
  <2>2. [call[f] EXCEPT !.pop = Len(pushes)] \in Cursors
    BY <2>1 DEF Cursors
  <2>3. call \in [Fibers -> Cursors]
    BY <1>1 DEF TypeOK
  <2>4. call' = [call EXCEPT ![f] = [call[f] EXCEPT !.pop = Len(pushes)]]
    BY DEF Answer
  <2> QED  BY <2>2, <2>3, <2>4
<1>6. waits' = waits /\ first' = first /\ deps' = deps
  BY DEF Answer
<1>7. SameExcept(deleted \cup {f})
  BY <1>2, <1>3, <1>4, <1>5, <1>6 DEF SameExcept, Same
<1>8. FramesOK' /\ LivesOK'
  <2>1. ASSUME NEW h \in (deleted \cup {f}) \cap Fibers PROVE GoodFiber(h)'
    <3>1. waits'[h] = "nothing" /\ first'[h] = 0
      BY <1>6
    <3>2. CASE h = f
      BY <3>1, <3>2, <1>2, ScriptIsGood
    <3>3. CASE h # f
      BY <3>1, <3>3, <1>2, FreedIsGood
    <3> QED  BY <3>2, <3>3
  <2> QED  BY <1>7, <2>1, OthersStayGood DEF Orderly
<1>9. stack[f] \in Seq(Anything)
  BY <1>1, FiberTyped
<1>10. handed' = [how |-> how, given |-> given, got |-> pushes, slot |-> slot]
  <2>1. Topmost(stack[f] \o pushes, Len(pushes)) = pushes
    BY <1>9, AllArrive
  <2>2. handed' = [how |-> how, given |-> given, slot |-> slot,
                   got |-> Topmost(stack[f] \o pushes, Len(pushes))]
    BY DEF Answer, Hand
  <2> QED  BY <2>1, <2>2
<1>11. handed'.given \in Seq(Values \cup Special) /\ handed'.got \in Seq(Values \cup Special)
  BY <1>10 DEF Anything
<1>12. first' \in [Fibers -> {0, 1}] /\ waits' \in [Fibers -> Reasons]
       /\ deps' \in [Fibers -> Seq(Fibers)]
  BY <1>1, <1>6 DEF TypeOK
<1>13. TypeOK'
  BY <1>2, <1>3, <1>4, <1>5, <1>11, <1>12 DEF TypeOK, Typed
<1> QED  BY <1>2, <1>6, <1>8, <1>10, <1>13

(* What only changes the innermost fiber keeps the activations.            *)
LEMMA InnermostKeeps ==
    ASSUME Orderly, NEW f \in Fibers, Runs(f), TypeOK', SameExcept({f}), active' = active,
           GoodFiber(f)', doing'[f] \notin {"fresh", "freed"}
    PROVE  Orderly'
<1>1. Typed
  BY ActivationsTyped DEF Orderly
<1>2. \A g \in Fibers \ {f} : doing'[g] = doing[g]
  BY DEF SameExcept, Same
<1>3. ActivationsOK' /\ OneActivation'
  BY <1>1, <1>2, ActivationsStay DEF Orderly
<1>4. FramesOK' /\ LivesOK'
  BY OthersStayGood DEF Orderly
<1> QED  BY <1>3, <1>4 DEF Orderly

(* A native call that fails.                                               *)
LEMMA ErrorKeeps ==
    ASSUME Orderly, NEW f \in Fibers, Runs(f), doing[f] \in Natives, Error(f)
    PROVE  Orderly' /\ waits' = waits /\ deps' = deps /\ handed' = handed
<1>1. TypeOK
  BY DEF Orderly
<1>2. waits[f] = "nothing" /\ first[f] = 0
  BY DEF Orderly, LivesOK, LifeOK, Natives
<1>3. /\ doing' \in [Fibers -> States] /\ doing'[f] = "script"
      /\ \A h \in Fibers \ {f} : doing'[h] = doing[h]
  BY <1>1 DEF Error, TypeOK, States
<1>4. /\ stack' \in [Fibers -> Seq(Values \cup Special)]
      /\ \A h \in Fibers \ {f} : stack'[h] = stack[h]
  <2>1. <<>> \in Seq(Values \cup Special)
    OBVIOUS
  <2> QED  BY <1>1, <2>1 DEF Error, TypeOK
<1>5. UNCHANGED <<waits, call, first, deps, active, handed, left>>
  BY DEF Error
<1>6. TypeOK'
  BY <1>1, <1>3, <1>4, <1>5 DEF TypeOK
<1>7. SameExcept({f})
  BY <1>3, <1>4, <1>5 DEF SameExcept, Same
<1>8. GoodFiber(f)'
  BY <1>2, <1>3, <1>5, ScriptIsGood
<1> QED  BY <1>3, <1>5, <1>6, <1>7, <1>8, InnermostKeeps

(* A native call that yields: nothing is on its frame, and nothing is left. *)
LEMMA YieldKeeps ==
    ASSUME Orderly, NEW f \in Fibers, Runs(f), doing[f] \in Natives,
           NEW reason \in Reasons, YieldFor(f, reason),
           deps' \in [Fibers -> Seq(Fibers)]
    PROVE  /\ Orderly' /\ handed' = handed
           /\ waits'[f] = reason
           /\ \A h \in Fibers \ {f} : waits'[h] = waits[h]
<1>1. TypeOK
  BY DEF Orderly
<1>2. NativeFrame(f) /\ first[f] = 0
  BY DEF Orderly, FramesOK, FrameOK, LivesOK, LifeOK, Natives
<1>3. /\ doing' \in [Fibers -> States] /\ doing'[f] = "yielded"
      /\ \A h \in Fibers \ {f} : doing'[h] = doing[h]
  BY <1>1 DEF YieldFor, TypeOK, States
<1>4. /\ waits' \in [Fibers -> Reasons] /\ waits'[f] = reason
      /\ \A h \in Fibers \ {f} : waits'[h] = waits[h]
  BY <1>1 DEF YieldFor, TypeOK
<1>5. /\ stack' \in [Fibers -> Seq(Values \cup Special)] /\ stack'[f] = <<>>
      /\ \A h \in Fibers \ {f} : stack'[h] = stack[h]
  <2>1. stack[f] \in Seq(Anything) /\ call[f].pop = 0
    BY <1>1, <1>2, FiberTyped DEF NativeFrame
  <2>2. 0 \in 0 .. Len(stack[f])
    BY <2>1
  <2>3. Topmost(stack[f], 0) \in Seq(Anything) /\ Len(Topmost(stack[f], 0)) = 0
    BY <2>1, <2>2, TopmostIs
  <2>4. Topmost(stack[f], call[f].pop) = <<>>
    BY <2>1, <2>3, EmptySeq
  <2>5. stack' = [stack EXCEPT ![f] = Topmost(stack[f], call[f].pop)]
    BY DEF YieldFor
  <2>6. stack' = [stack EXCEPT ![f] = <<>>] /\ <<>> \in Seq(Values \cup Special)
    BY <2>4, <2>5
  <2> QED  BY <1>1, <2>6 DEF TypeOK
<1>6. /\ call' \in [Fibers -> Cursors] /\ call'[f] = SetupReturn(0, FALSE)
      /\ \A h \in Fibers \ {f} : call'[h] = call[h]
  <2>1. SetupReturn(0, FALSE) \in Cursors
    BY DEF SetupReturn, Cursors
  <2>2. call' = [call EXCEPT ![f] = SetupReturn(0, FALSE)]
    BY <1>2 DEF YieldFor, NativeFrame
  <2> QED  BY <1>1, <2>1, <2>2 DEF TypeOK
<1>7. /\ left' \in [Fibers -> Lists] /\ left'[f] = <<>>
      /\ \A h \in Fibers \ {f} : left'[h] = left[h]
  BY <1>1, ListsAreSequences DEF YieldFor, TypeOK
<1>8. first' = first /\ active' = active /\ handed' = handed
  BY DEF YieldFor
<1>9. TypeOK'
  <2>1. /\ first' \in [Fibers -> {0, 1}]
        /\ active' \in Seq([fiber : Fibers, via : Vias])
        /\ handed'.given \in Seq(Values \cup Special)
        /\ handed'.got \in Seq(Values \cup Special)
    BY <1>1, <1>8 DEF TypeOK
  <2> QED  BY <1>3, <1>4, <1>5, <1>6, <1>7, <2>1 DEF TypeOK
<1>10. SameExcept({f})
  BY <1>3, <1>4, <1>5, <1>6, <1>7, <1>8 DEF SameExcept, Same
<1>11. GoodFiber(f)'
  <2>1. Len(<<>>) = 0
    OBVIOUS
  <2>2. StoppedFrame(f)'
    BY <2>1, <1>5, <1>6, <1>7 DEF StoppedFrame, SetupReturn
  <2>3. LifeOK(f)'
    BY <1>2, <1>3, <1>8 DEF LifeOK
  <2> QED  BY <2>2, <2>3, <1>3 DEF GoodFiber, FrameOK, Natives
<1>12. doing'[f] \notin {"fresh", "freed"}
  BY <1>3
<1> QED  BY <1>4, <1>8, <1>9, <1>10, <1>11, <1>12, InnermostKeeps

(* lua_resume comes to an end.                                             *)
LEMMA StopKeeps ==
    ASSUME Orderly, NEW f \in Fibers, NEW state \in {"yielded", "ended", "failed"},
           NEW values \in Lists, NEW cursor \in Cursors, NEW frame \in Seq(Anything),
           Stop(f, state, values, cursor, frame), waits' \in [Fibers -> Reasons],
           \A h \in Fibers \ {f} : waits'[h] = waits[h],
           waits'[f] # "nothing" => state = "yielded",
           state # "failed" =>
               /\ frame = values /\ cursor.self = 0 /\ cursor.push = Len(values)
               /\ ~cursor.failed,
           state = "failed" =>
               /\ frame = <<>> /\ values = <<>> /\ cursor.self = 0 /\ cursor.push >= 1
               /\ cursor.failed
    PROVE  Orderly' /\ handed' = handed /\ deps' = deps /\ doing[f] = "script"
<1>1. TypeOK /\ Runs(f) /\ doing[f] = "script"
  BY DEF Orderly, Stop
<1>2. first[f] = 0
  BY <1>1 DEF Orderly, LivesOK, LifeOK
<1>3. /\ doing' \in [Fibers -> States] /\ doing'[f] = state
      /\ \A h \in Fibers \ {f} : doing'[h] = doing[h]
  BY <1>1 DEF Stop, TypeOK, States
<1>4. /\ stack' \in [Fibers -> Seq(Values \cup Special)] /\ stack'[f] = frame
      /\ \A h \in Fibers \ {f} : stack'[h] = stack[h]
  BY <1>1 DEF Stop, TypeOK, Anything
<1>5. /\ call' \in [Fibers -> Cursors] /\ call'[f] = cursor
      /\ \A h \in Fibers \ {f} : call'[h] = call[h]
  BY <1>1 DEF Stop, TypeOK
<1>6. /\ left' \in [Fibers -> Lists] /\ left'[f] = values
      /\ \A h \in Fibers \ {f} : left'[h] = left[h]
  BY <1>1 DEF Stop, TypeOK
<1>7. first' = first /\ deps' = deps /\ active' = active /\ handed' = handed
  BY DEF Stop
<1>8. TypeOK'
  <2>1. /\ first' \in [Fibers -> {0, 1}] /\ deps' \in [Fibers -> Seq(Fibers)]
        /\ active' \in Seq([fiber : Fibers, via : Vias])
        /\ handed'.given \in Seq(Values \cup Special)
        /\ handed'.got \in Seq(Values \cup Special)
    BY <1>1, <1>7 DEF TypeOK
  <2> QED  BY <1>3, <1>4, <1>5, <1>6, <2>1 DEF TypeOK
<1>9. SameExcept({f})
  BY <1>3, <1>4, <1>5, <1>6, <1>7 DEF SameExcept, Same
<1>10. GoodFiber(f)'
  <2>1. LifeOK(f)'
    BY <1>2, <1>3, <1>7 DEF LifeOK
  <2>2. CASE state = "failed"
    <3>1. FailedFrame(f)'
      BY <2>2, <1>4, <1>5, <1>6 DEF FailedFrame
    <3> QED  BY <2>1, <2>2, <3>1, <1>3 DEF GoodFiber, FrameOK, Natives
  <2>3. CASE state # "failed"
    <3>1. StoppedFrame(f)'
      BY <2>3, <1>4, <1>5, <1>6 DEF StoppedFrame
    <3> QED  BY <2>1, <2>3, <3>1, <1>3 DEF GoodFiber, FrameOK, Natives
  <2> QED  BY <2>2, <2>3
<1>11. doing'[f] \notin {"fresh", "freed"}
  BY <1>3
<1> QED  BY <1>1, <1>7, <1>8, <1>9, <1>10, <1>11, InnermostKeeps

(* A script calls native code.                                             *)
LEMMA CallNativeKeeps ==
    ASSUME Orderly, NEW f \in Fibers, NEW native \in Natives, NEW args \in Seq(Anything),
           CallNative(f, native, args)
    PROVE  Orderly' /\ waits' = waits /\ deps' = deps /\ handed' = handed
<1>1. TypeOK /\ Runs(f) /\ doing[f] = "script"
  BY DEF Orderly, CallNative
<1>2. first[f] = 0 /\ waits[f] = "nothing"
  BY <1>1 DEF Orderly, LivesOK, LifeOK
<1>3. /\ doing' \in [Fibers -> States] /\ doing'[f] = native
      /\ \A h \in Fibers \ {f} : doing'[h] = doing[h]
  BY <1>1 DEF CallNative, TypeOK, States
<1>4. UNCHANGED <<waits, first, deps, active, handed, left>>
  BY DEF CallNative
<1> DEFINE frame == <<Self>> \o args
           cursor == SetupCall(1 + Len(args), call[f])
<1>5. /\ frame \in Seq(Anything) /\ frame # <<>> /\ frame[1] = Self
      /\ Len(frame) = 1 + Len(args)
  BY SpecialValues
<1>6. cursor \in Cursors
  BY <1>1, FiberTyped, CursorsTyped
<1>7. /\ cursor.self = 1 /\ cursor.push = 1 + Len(args) /\ cursor.pop = 0
  BY DEF SetupCall
<1> HIDE DEF frame, cursor
<1>8. /\ stack' \in [Fibers -> Seq(Values \cup Special)] /\ stack'[f] = frame
      /\ \A h \in Fibers \ {f} : stack'[h] = stack[h]
  <2>1. stack' = [stack EXCEPT ![f] = frame]
    BY DEF CallNative, frame
  <2> QED  BY <2>1, <1>1, <1>5 DEF TypeOK, Anything
<1>9. /\ call' \in [Fibers -> Cursors] /\ call'[f] = cursor
      /\ \A h \in Fibers \ {f} : call'[h] = call[h]
  <2>1. call' = [call EXCEPT ![f] = cursor]
    BY DEF CallNative, cursor
  <2> QED  BY <2>1, <1>1, <1>6 DEF TypeOK
<1>10. TypeOK'
  <2>1. /\ first' \in [Fibers -> {0, 1}] /\ deps' \in [Fibers -> Seq(Fibers)]
        /\ waits' \in [Fibers -> Reasons] /\ left' \in [Fibers -> Lists]
        /\ active' \in Seq([fiber : Fibers, via : Vias])
        /\ handed'.given \in Seq(Values \cup Special)
        /\ handed'.got \in Seq(Values \cup Special)
    BY <1>1, <1>4 DEF TypeOK
  <2> QED  BY <1>3, <1>8, <1>9, <2>1 DEF TypeOK
<1>11. SameExcept({f})
  BY <1>3, <1>4, <1>8, <1>9 DEF SameExcept, Same
<1>12. GoodFiber(f)'
  <2>1. NativeFrame(f)'
    BY <1>5, <1>7, <1>8, <1>9 DEF NativeFrame
  <2>2. LifeOK(f)'
    BY <1>2, <1>3, <1>4 DEF LifeOK, Natives
  <2> QED  BY <2>1, <2>2, <1>3 DEF GoodFiber, FrameOK, Natives
<1>13. doing'[f] \notin {"fresh", "freed"}
  BY <1>3 DEF Natives
<1> QED  BY <1>1, <1>4, <1>10, <1>11, <1>12, <1>13, InnermostKeeps

(* An activation ends: its fiber has stopped, and is deleted or is not.    *)
LEMMA LeaveKeeps ==
    ASSUME Orderly, NEW f \in Fibers, Leave(f)
    PROVE  /\ active' \in Seq([fiber : Fibers, via : Vias])
           /\ Unused(f) \subseteq {f}
           /\ doing[f] # "yielded" => FrameOK(f) /\ waits[f] = "nothing"
           /\ first[f] = 0
           /\ Unused(f) # {} => doing[f] \in {"ended", "failed"}
<1>1. Typed /\ Runs(f) /\ doing[f] \in {"yielded", "ended", "failed"}
  BY ActivationsTyped DEF Orderly, Leave, Stopped
<1>2. /\ Len(active) \in Nat \ {0} /\ active' = SubSeq(active, 1, Len(active) - 1)
  BY <1>1, RunsOnce DEF Leave, Orderly
<1>3. active' \in Seq([fiber : Fibers, via : Vias])
  <2>1. ASSUME NEW i \in 1 .. Len(active) - 1
        PROVE  active[i] \in [fiber : Fibers, via : Vias]
    <3>1. i \in 1 .. Len(active)
      BY <1>2
    <3> QED  BY <3>1, <1>1, ElementOfSeq DEF Typed
  <2> QED  BY <1>2, <2>1, SubSeqProperties
<1>4. FrameOK(f) /\ LifeOK(f)
  BY DEF Orderly, FramesOK, LivesOK
<1> QED  BY <1>1, <1>3, <1>4 DEF Unused, LifeOK

-----------------------------------------------------------------------------
(* The actions.                                                            *)

(* How a step that hands over nothing keeps what was handed over.          *)
LEMMA HandedStays ==
    ASSUME HandedOK, handed' = handed
    PROVE  HandedOK'
BY DEF HandedOK, ArgumentsArrive, ReadsArguments, DependantsGetResults, ResultsArrive, Topmost

(* And one that hands over in a way of which nothing is claimed.           *)
LEMMA HandedOtherwise ==
    ASSUME handed'.how \in {"host", "made", "entity"}
    PROVE  HandedOK'
BY DEF HandedOK, ArgumentsArrive, ReadsArguments, DependantsGetResults, ResultsArrive

(* The host or the event loop enters a fiber when none is active.          *)
LEMMA HostEnters ==
    ASSUME Orderly, Idle, NEW g \in Fibers, doing[g] \in {"fresh", "yielded"}
    PROVE  MayEnter(g, "host")
<1>1. active = <<>>
  BY DEF Idle
<1>2. Depth = {}
  BY <1>1 DEF Depth
<1> QED  BY <1>1, <1>2 DEF MayEnter, Vias

(* A waiting fiber has yielded and its function is gone from its stack.    *)
LEMMA WaitingFiber ==
    ASSUME Orderly, NEW g \in Fibers, waits[g] # "nothing"
    PROVE  doing[g] = "yielded" /\ first[g] = 0
BY DEF Orderly, LivesOK, LifeOK

(* ScriptFiber::Call on a new fiber, by the host.                          *)
LEMMA StartKeeps ==
    ASSUME CallFramesInvariant, NEW g \in Fibers, Start(g)
    PROVE  CallFramesInvariant'
<1>1. Orderly /\ TypeOK
  BY DEF CallFramesInvariant, Orderly
<1>2. Idle /\ doing[g] = "fresh" /\ Enter(g, "host", <<>>, <<Method>>) /\ deps' = deps
  BY DEF Start
<1>3. MayEnter(g, "host") /\ first[g] = 1 /\ waits[g] = "nothing"
  BY <1>1, <1>2, HostEnters DEF Orderly, LivesOK, LifeOK
<1>4. <<>> \in Seq(Anything) /\ <<Method>> \in Seq(Anything) /\ Len(<<Method>>) = 1
  BY SpecialValues
<1>5. deps' \in [Fibers -> Seq(Fibers)]
  BY <1>1, <1>2 DEF TypeOK
<1>6. /\ Orderly' /\ handed'.how = "host"
      /\ \A h \in Fibers \ {g} : waits'[h] = waits[h]
  <2>1. Enters(g, "host", <<>>, <<Method>>)
    BY <1>2, <1>3, <1>4, <1>5 DEF Enters
  <2> QED  BY <2>1, <1>1, EnterKeeps
<1>7. DependantsWait' /\ OneDependency'
  <2>1. \A h \in Fibers : waits[h] = "fiber" => waits'[h] = "fiber"
    BY <1>3, <1>6
  <2> QED  BY <2>1, <1>1, <1>2, DependantsStay DEF CallFramesInvariant
<1>8. HandedOK'
  BY <1>6, HandedOtherwise
<1> QED  BY <1>6, <1>7, <1>8 DEF CallFramesInvariant, Orderly

(* The event loop brings what a fiber waits for.                           *)
LEMMA CompleteKeeps ==
    ASSUME CallFramesInvariant, NEW g \in Fibers, NEW values \in Lists, Complete(g, values)
    PROVE  CallFramesInvariant'
<1>1. Orderly /\ TypeOK
  BY DEF CallFramesInvariant, Orderly
<1>2. Idle /\ waits[g] = "loop" /\ Enter(g, "host", values, values) /\ deps' = deps
  BY DEF Complete
<1>3. MayEnter(g, "host") /\ first[g] = 0
  BY <1>1, <1>2, HostEnters, WaitingFiber
<1>4. values \in Seq(Anything) /\ Len(values) >= 0
  BY ListsAreSequences
<1>5. deps' \in [Fibers -> Seq(Fibers)]
  BY <1>1, <1>2 DEF TypeOK
<1>6. /\ Orderly' /\ handed'.how = "host"
      /\ \A h \in Fibers \ {g} : waits'[h] = waits[h]
  <2>1. Enters(g, "host", values, values)
    BY <1>2, <1>3, <1>4, <1>5 DEF Enters
  <2> QED  BY <2>1, <1>1, EnterKeeps
<1>7. DependantsWait' /\ OneDependency'
  <2>1. \A h \in Fibers : waits[h] = "fiber" => waits'[h] = "fiber"
    BY <1>2, <1>6
  <2> QED  BY <2>1, <1>1, <1>2, DependantsStay DEF CallFramesInvariant
<1>8. HandedOK'
  BY <1>6, HandedOtherwise
<1> QED  BY <1>6, <1>7, <1>8 DEF CallFramesInvariant, Orderly

(* A native call of the innermost fiber enters another one, which is not   *)
(* active.                                                                 *)
LEMMA NativeEnters ==
    ASSUME Orderly, NEW f \in Fibers, NEW g \in Fibers, NEW via \in {"new", "resume"},
           InNative(f, IF via = "new" THEN "New" ELSE "Resume"),
           doing[g] \in {"fresh", "yielded"}
    PROVE  MayEnter(g, via) /\ doing[f] \in Natives
<1>1. Typed /\ Runs(f) /\ doing[f] = IF via = "new" THEN "New" ELSE "Resume"
  BY ActivationsTyped DEF Orderly, InNative
<1>2. g # f
  BY <1>1
<1>3. active # <<>> /\ active[Len(active)].fiber = f
  BY <1>1 DEF Runs
<1>4. \A i \in Depth : active[i].fiber # g
  BY <1>1, <1>2, <1>3, IdleFiber DEF Orderly
<1>5. doing[f] \in Caller(via)
  BY <1>1 DEF Caller
<1> QED  BY <1>1, <1>3, <1>4, <1>5 DEF MayEnter, Vias, Natives

(* FiberController::New: the new function gets the arguments and one nil.  *)
LEMMA NewKeeps ==
    ASSUME CallFramesInvariant, NEW f \in Fibers, NEW g \in Fibers, New(f, g)
    PROVE  CallFramesInvariant'
<1>1. Orderly /\ TypeOK
  BY DEF CallFramesInvariant, Orderly
<1>2. /\ InNative(f, "New") /\ doing[g] = "fresh" /\ deps' = deps
      /\ At(stack[f], 1 + call[f].self) = Method
      /\ Enter(g, "new", Tail(Arguments(f)), <<Method>> \o VarArgs(f, 2))
  BY DEF New
<1>3. MayEnter(g, "new") /\ first[g] = 1 /\ waits[g] = "nothing" /\ doing[f] \in Natives
  BY <1>1, <1>2, NativeEnters DEF Orderly, LivesOK, LifeOK
<1> DEFINE s == stack[f]
           args == Arguments(f)
           given == Tail(args)
           copied == VarArgs(f, 2)
<1>4. /\ s \in Seq(Anything) /\ Len(s) \in Nat \ {0}
      /\ args \in Seq(Anything) /\ Len(args) = Len(s) - 1
      /\ \A i \in 1 .. Len(s) - 1 : args[i] = s[i + 1]
      /\ call[f].self = 1 /\ call[f].push = Len(s)
  BY <1>1, <1>3, NativeArguments, FiberTyped DEF Orderly, NativeFrame
<1>5. Len(s) >= 2
  <2>1. At(s, 2) = Method
    BY <1>2, <1>4
  <2>2. Method # Nil
    BY DEF Method, Nil
  <2> QED  BY <2>1, <2>2, <1>4, AtIsValue
<1>6. /\ given \in Seq(Anything) /\ Len(given) = Len(s) - 2
      /\ \A i \in 1 .. Len(s) - 2 : given[i] = s[i + 2]
  <2>1. args # <<>>
    BY <1>4, <1>5
  <2>2. /\ Tail(args) \in Seq(Anything) /\ Len(Tail(args)) = Len(args) - 1
        /\ \A i \in 1 .. Len(Tail(args)) : Tail(args)[i] = args[i + 1]
    BY <2>1, <1>4, HeadTailProperties
  <2>3. ASSUME NEW i \in 1 .. Len(s) - 2 PROVE given[i] = s[i + 2]
    <3>1. i + 1 \in 1 .. Len(s) - 1 /\ i \in 1 .. Len(Tail(args)) /\ (i + 1) + 1 = i + 2
      BY <1>4, <2>2
    <3> QED  BY <3>1, <2>2, <1>4
  <2> QED  BY <2>2, <2>3, <1>4
<1>7. /\ copied \in Seq(Anything) /\ Len(copied) = Len(s) - 1
      /\ \A k \in 1 .. Len(s) - 1 : copied[k] = At(s, k + 2)
  <2>0. stack[f] \in Seq(Anything) /\ call[f].push \in Int /\ call[f].self \in {0, 1}
    BY <1>1, FiberTyped
  <2>1. /\ copied \in Seq(Anything)
        /\ call[f].push >= 2 - 1 => Len(copied) = call[f].push - 2 + 1
        /\ \A k \in 1 .. call[f].push - 2 + 1 :
              copied[k] = At(stack[f], 2 + k - 1 + call[f].self)
    BY <2>0, VarArgsAre
  <2>2. ASSUME NEW k \in 1 .. Len(s) - 1 PROVE copied[k] = At(s, k + 2)
    <3>1. k \in 1 .. call[f].push - 2 + 1 /\ 2 + k - 1 + call[f].self = k + 2
      BY <1>4
    <3> QED  BY <3>1, <2>1
  <2> QED  BY <2>1, <2>2, <1>4, <1>5
<1>8. copied = Append(given, Nil)
  <2>1. Nil \in Anything
    BY SpecialValues
  <2>2. /\ Append(given, Nil) \in Seq(Anything) /\ Len(Append(given, Nil)) = Len(s) - 1
        /\ \A i \in 1 .. Len(s) - 2 : Append(given, Nil)[i] = given[i]
        /\ Append(given, Nil)[Len(s) - 1] = Nil
    BY <2>1, <1>4, <1>5, <1>6, AppendProperties
  <2>3. ASSUME NEW k \in 1 .. Len(s) - 1 PROVE copied[k] = Append(given, Nil)[k]
    <3>1. CASE k = Len(s) - 1
      <4>1. k + 2 > Len(s) /\ k + 2 \in Int
        BY <3>1, <1>4
      <4> QED  BY <3>1, <4>1, <1>4, <1>7, <2>2, AtIsValue
    <3>2. CASE k # Len(s) - 1
      <4>1. k + 2 \in 1 .. Len(s) /\ k \in 1 .. Len(s) - 2 /\ k + 2 \in Int
        BY <3>2, <1>4
      <4>2. At(s, k + 2) = s[k + 2]
        BY <4>1, <1>4, AtIsValue
      <4> QED  BY <4>1, <4>2, <1>6, <1>7, <2>2
    <3> QED  BY <3>1, <3>2
  <2> QED  BY <2>2, <2>3, <1>7, SeqEqual
<1> DEFINE pushes == <<Method>> \o copied
<1> HIDE DEF s, args, given, copied, pushes
<1>9. Method \in Anything /\ stack[g] \in Seq(Anything)
  BY <1>1, SpecialValues, FiberTyped
<1>10. pushes \in Seq(Anything) /\ Len(pushes) >= first[g]
  BY <1>3, <1>7, <1>9 DEF pushes
<1>11. deps' \in [Fibers -> Seq(Fibers)]
  BY <1>1, <1>2 DEF TypeOK
<1>12. Enter(g, "new", given, pushes)
  BY <1>2 DEF given, args, copied, pushes
<1>13. /\ Orderly' /\ handed'.how = "new" /\ handed'.given = given
       /\ \A h \in Fibers \ {g} : waits'[h] = waits[h]
       /\ handed'.got = Topmost(stack[g] \o pushes,
                                Len(pushes) - first[g])
  <2>1. Enters(g, "new", given, pushes)
    BY <1>3, <1>6, <1>10, <1>11, <1>12 DEF Enters
  <2> QED  BY <2>1, <1>1, EnterKeeps
<1>14. handed'.got = Append(handed'.given, Nil)
  <2>1. Topmost(stack[g] \o pushes, Len(pushes) - 1) = copied
    BY <1>7, <1>9, AllButFirstArrive DEF pushes
  <2> QED  BY <2>1, <1>3, <1>8, <1>13
<1>15. HandedOK'
  BY <1>13, <1>14
  DEF HandedOK, ArgumentsArrive, ReadsArguments, DependantsGetResults, ResultsArrive
<1>16. DependantsWait' /\ OneDependency'
  <2>1. \A h \in Fibers : waits[h] = "fiber" => waits'[h] = "fiber"
    BY <1>3, <1>13
  <2> QED  BY <2>1, <1>1, <1>2, DependantsStay DEF CallFramesInvariant
<1> QED  BY <1>13, <1>15, <1>16 DEF CallFramesInvariant, Orderly

(* FiberController::Resume: the resumed fiber gets the arguments and nil.  *)
LEMMA ResumeKeeps ==
    ASSUME CallFramesInvariant, NEW f \in Fibers, NEW g \in Fibers, Resume(f, g)
    PROVE  CallFramesInvariant'
<1>1. Orderly /\ TypeOK
  BY DEF CallFramesInvariant, Orderly
<1>2. /\ InNative(f, "Resume") /\ waits[g] = "resume" /\ deps' = deps
      /\ Enter(g, "resume", Arguments(f), VarArgs(f, 1))
  BY DEF Resume
<1>3. doing[g] = "yielded" /\ first[g] = 0
  BY <1>1, <1>2, WaitingFiber
<1>4. MayEnter(g, "resume") /\ doing[f] \in Natives
  BY <1>1, <1>2, <1>3, NativeEnters
<1> DEFINE s == stack[f]
           given == Arguments(f)
           copied == VarArgs(f, 1)
<1>5. /\ s \in Seq(Anything) /\ Len(s) \in Nat \ {0}
      /\ given \in Seq(Anything) /\ Len(given) = Len(s) - 1
      /\ \A i \in 1 .. Len(s) - 1 : given[i] = s[i + 1]
      /\ call[f].self = 1 /\ call[f].push = Len(s)
  BY <1>1, <1>4, NativeArguments, FiberTyped DEF Orderly, NativeFrame
<1>6. /\ copied \in Seq(Anything) /\ Len(copied) = Len(s)
      /\ \A k \in 1 .. Len(s) : copied[k] = At(s, k + 1)
  <2>0. stack[f] \in Seq(Anything) /\ call[f].push \in Int /\ call[f].self \in {0, 1}
    BY <1>1, FiberTyped
  <2>1. /\ copied \in Seq(Anything)
        /\ call[f].push >= 1 - 1 => Len(copied) = call[f].push - 1 + 1
        /\ \A k \in 1 .. call[f].push - 1 + 1 :
              copied[k] = At(stack[f], 1 + k - 1 + call[f].self)
    BY <2>0, VarArgsAre
  <2>2. ASSUME NEW k \in 1 .. Len(s) PROVE copied[k] = At(s, k + 1)
    <3>1. k \in 1 .. call[f].push - 1 + 1 /\ 1 + k - 1 + call[f].self = k + 1
      BY <1>5
    <3> QED  BY <3>1, <2>1
  <2> QED  BY <2>1, <2>2, <1>5
<1>7. copied = Append(given, Nil)
  <2>1. Nil \in Anything
    BY SpecialValues
  <2>2. /\ Append(given, Nil) \in Seq(Anything) /\ Len(Append(given, Nil)) = Len(s)
        /\ \A i \in 1 .. Len(s) - 1 : Append(given, Nil)[i] = given[i]
        /\ Append(given, Nil)[Len(s)] = Nil
    BY <2>1, <1>5, AppendProperties
  <2>3. ASSUME NEW k \in 1 .. Len(s) PROVE copied[k] = Append(given, Nil)[k]
    <3>1. CASE k = Len(s)
      <4>1. k + 1 > Len(s) /\ k + 1 \in Int
        BY <3>1, <1>5
      <4> QED  BY <3>1, <4>1, <1>5, <1>6, <2>2, AtIsValue
    <3>2. CASE k # Len(s)
      <4>1. k + 1 \in 1 .. Len(s) /\ k \in 1 .. Len(s) - 1 /\ k + 1 \in Int
        BY <3>2, <1>5
      <4>2. At(s, k + 1) = s[k + 1]
        BY <4>1, <1>5, AtIsValue
      <4> QED  BY <4>1, <4>2, <1>5, <1>6, <2>2
    <3> QED  BY <3>1, <3>2
  <2> QED  BY <2>2, <2>3, <1>6, SeqEqual
<1> HIDE DEF s, given, copied
<1>8. stack[g] \in Seq(Anything) /\ Len(copied) >= first[g]
  BY <1>1, <1>3, <1>5, <1>6, FiberTyped
<1>9. deps' \in [Fibers -> Seq(Fibers)]
  BY <1>1, <1>2 DEF TypeOK
<1>10. Enter(g, "resume", given, copied)
  BY <1>2 DEF given, copied
<1>11. /\ Orderly' /\ handed'.how = "resume" /\ handed'.given = given
       /\ \A h \in Fibers \ {g} : waits'[h] = waits[h]
       /\ handed'.got = Topmost(stack[g] \o copied, Len(copied) - first[g])
  <2>1. Enters(g, "resume", given, copied)
    BY <1>4, <1>5, <1>6, <1>8, <1>9, <1>10 DEF Enters
  <2> QED  BY <2>1, <1>1, EnterKeeps
<1>12. handed'.got = Append(handed'.given, Nil)
  <2>1. Topmost(stack[g] \o copied, Len(copied)) = copied
    BY <1>6, <1>8, AllArrive
  <2>2. Len(copied) - 0 = Len(copied)
    BY <1>6
  <2> QED  BY <2>1, <2>2, <1>3, <1>7, <1>11
<1>13. HandedOK'
  BY <1>11, <1>12
  DEF HandedOK, ArgumentsArrive, ReadsArguments, DependantsGetResults, ResultsArrive
<1>14. DependantsWait' /\ OneDependency'
  <2>1. \A h \in Fibers : waits[h] = "fiber" => waits'[h] = "fiber"
    BY <1>2, <1>11
  <2> QED  BY <2>1, <1>1, <1>2, DependantsStay DEF CallFramesInvariant
<1> QED  BY <1>11, <1>13, <1>14 DEF CallFramesInvariant, Orderly

(* A step that keeps what fibers wait for and hands over nothing.          *)
LEMMA QuietStep ==
    ASSUME CallFramesInvariant, Orderly', waits' = waits, deps' = deps, handed' = handed
    PROVE  CallFramesInvariant'
<1>1. DependantsWait' /\ OneDependency'
  BY DependantsStay DEF CallFramesInvariant
<1>2. HandedOK'
  BY HandedStays DEF CallFramesInvariant
<1> QED  BY <1>1, <1>2 DEF CallFramesInvariant, Orderly

(* A script calls native code.                                             *)
LEMMA CallKeeps ==
    ASSUME CallFramesInvariant, NEW f \in Fibers, NEW native \in Natives,
           NEW args \in ArgumentsOf(native), CallNative(f, native, args)
    PROVE  CallFramesInvariant'
<1>1. Orderly
  BY DEF CallFramesInvariant, Orderly
<1>2. args \in Seq(Anything)
  <2>1. CASE native = "New"
    <3>1. args \in Lists \/ \E list \in Lists : args = <<Method>> \o list
      BY <2>1 DEF ArgumentsOf
    <3>2. <<Method>> \in Seq(Anything) /\ Lists \subseteq Seq(Anything)
      BY ListsAreSequences, SpecialValues
    <3> QED  BY <3>1, <3>2
  <2>2. CASE native # "New"
    BY <2>2, ListsAreSequences DEF ArgumentsOf
  <2> QED  BY <2>1, <2>2
<1> QED  BY <1>1, <1>2, CallNativeKeeps, QuietStep

(* Fiber.New of something that is no method fails.                         *)
LEMMA NewRefusedKeeps ==
    ASSUME CallFramesInvariant, NEW f \in Fibers, NewRefused(f)
    PROVE  CallFramesInvariant'
<1>1. Orderly
  BY DEF CallFramesInvariant, Orderly
<1>2. Runs(f) /\ doing[f] \in Natives /\ Error(f)
  BY DEF NewRefused, InNative, Natives
<1> QED  BY <1>1, <1>2, ErrorKeeps, QuietStep

(* A native call yields for the host or the loop, or fails.                *)
LEMMA YieldOrErrorKeeps ==
    ASSUME CallFramesInvariant, NEW f \in Fibers, Runs(f), doing[f] \in Natives,
           NEW reason \in Reasons,
           Error(f) \/ (YieldFor(f, reason) /\ deps' = deps)
    PROVE  CallFramesInvariant'
<1>1. Orderly /\ TypeOK
  BY DEF CallFramesInvariant, Orderly
<1>2. CASE Error(f)
  BY <1>1, <1>2, ErrorKeeps, QuietStep
<1>3. CASE YieldFor(f, reason) /\ deps' = deps
  <2>1. deps' \in [Fibers -> Seq(Fibers)]
    BY <1>1, <1>3 DEF TypeOK
  <2>2. /\ Orderly' /\ handed' = handed
        /\ \A h \in Fibers \ {f} : waits'[h] = waits[h]
    BY <1>1, <1>3, <2>1, YieldKeeps
  <2>3. waits[f] = "nothing"
    BY <1>1 DEF Orderly, LivesOK, LifeOK, Natives
  <2>4. \A h \in Fibers : waits[h] = "fiber" => waits'[h] = "fiber"
    BY <2>2, <2>3
  <2>5. DependantsWait' /\ OneDependency'
    BY <1>1, <1>3, <2>4, DependantsStay DEF CallFramesInvariant
  <2>6. HandedOK'
    BY <2>2, HandedStays DEF CallFramesInvariant
  <2> QED  BY <2>2, <2>5, <2>6 DEF CallFramesInvariant, Orderly
<1> QED  BY <1>2, <1>3

(* FiberController::Await.                                                 *)
LEMMA AwaitKeeps ==
    ASSUME CallFramesInvariant, NEW f \in Fibers, Await(f)
    PROVE  CallFramesInvariant'
<1>1. /\ Runs(f) /\ doing[f] \in Natives /\ "resume" \in Reasons
      /\ Error(f) \/ (YieldFor(f, "resume") /\ deps' = deps)
  BY DEF Await, InNative, Natives, Reasons
<1> QED  BY <1>1, YieldOrErrorKeeps

(* FiberController::Sleep.                                                 *)
LEMMA SleepKeeps ==
    ASSUME CallFramesInvariant, NEW f \in Fibers, Sleep(f)
    PROVE  CallFramesInvariant'
<1>1. /\ Runs(f) /\ doing[f] \in Natives /\ "loop" \in Reasons
      /\ Error(f) \/ (YieldFor(f, "loop") /\ deps' = deps)
  BY DEF Sleep, InNative, Natives, Reasons
<1> QED  BY <1>1, YieldOrErrorKeeps

(* FiberController::Depend: a fiber in a native call waits in no list yet. *)
LEMMA DependKeeps ==
    ASSUME CallFramesInvariant, NEW f \in Fibers, NEW g \in Fibers, Depend(f, g)
    PROVE  CallFramesInvariant'
<1>1. Orderly /\ TypeOK /\ OneDependency /\ DependantsWait
  BY DEF CallFramesInvariant, Orderly
<1>2. /\ Runs(f) /\ doing[f] \in Natives /\ YieldFor(f, "fiber") /\ "fiber" \in Reasons
      /\ deps' = [deps EXCEPT ![g] = Append(deps[g], f)]
  BY DEF Depend, InNative, Natives, Reasons
<1>3. waits[f] = "nothing"
  BY <1>1, <1>2 DEF Orderly, LivesOK, LifeOK, Natives
<1> PICK n : n = Len(deps[g])
  OBVIOUS
<1>4. \A h \in Fibers : deps[h] \in Seq(Fibers)
  BY <1>1 DEF TypeOK
<1>5. /\ n \in Nat /\ deps'[g] \in Seq(Fibers)
      /\ DOMAIN deps'[g] = DOMAIN deps[g] \cup {n + 1} /\ n + 1 \notin DOMAIN deps[g]
      /\ \A i \in DOMAIN deps[g] : deps'[g][i] = deps[g][i]
      /\ deps'[g][n + 1] = f
  <2>1. deps'[g] = Append(deps[g], f) /\ deps[g] \in Seq(Fibers) /\ n \in Nat
    BY <1>1, <1>2, <1>4 DEF TypeOK
  <2>2. /\ Append(deps[g], f) \in Seq(Fibers) /\ Len(Append(deps[g], f)) = n + 1
        /\ \A i \in 1 .. n : Append(deps[g], f)[i] = deps[g][i]
        /\ Append(deps[g], f)[n + 1] = f
    BY <2>1, AppendProperties
  <2>3. DOMAIN deps[g] = 1 .. n /\ DOMAIN deps'[g] = 1 .. n + 1
    BY <2>1, <2>2, LenProperties
  <2>4. 1 .. n + 1 = 1 .. n \cup {n + 1} /\ n + 1 \notin 1 .. n
    BY <2>1
  <2> QED  BY <2>1, <2>2, <2>3, <2>4
<1>6. /\ \A h \in Fibers \ {g} : deps'[h] = deps[h]
      /\ deps' \in [Fibers -> Seq(Fibers)]
  BY <1>1, <1>2, <1>5 DEF TypeOK
<1>7. /\ Orderly' /\ handed' = handed /\ waits'[f] = "fiber"
      /\ \A h \in Fibers \ {f} : waits'[h] = waits[h]
  BY <1>1, <1>2, <1>6, YieldKeeps
<1>8. \A h \in Fibers : \A i \in DOMAIN deps[h] :
          deps[h][i] \in Fibers /\ deps[h][i] # f /\ waits'[deps[h][i]] = "fiber"
  <2> SUFFICES ASSUME NEW h \in Fibers, NEW i \in DOMAIN deps[h]
               PROVE  deps[h][i] \in Fibers /\ deps[h][i] # f
                      /\ waits'[deps[h][i]] = "fiber"
    OBVIOUS
  <2>1. deps[h][i] \in Fibers
    BY <1>4
  <2>2. waits[deps[h][i]] = "fiber"
    BY <1>1 DEF DependantsWait
  <2> QED  BY <2>1, <2>2, <1>3, <1>7
(* The entries are the old ones and one for f.                             *)
<1>9. ASSUME NEW h \in Fibers, NEW i \in DOMAIN deps'[h]
      PROVE  \/ h = g /\ i = n + 1 /\ deps'[h][i] = f
             \/ i \in DOMAIN deps[h] /\ deps'[h][i] = deps[h][i]
  <2>1. CASE h = g
    BY <2>1, <1>5
  <2>2. CASE h # g
    BY <2>2, <1>6
  <2> QED  BY <2>1, <2>2
<1>10. DependantsWait'
  <2> SUFFICES ASSUME NEW h \in Fibers, NEW i \in DOMAIN deps'[h]
               PROVE  waits'[deps'[h][i]] = "fiber"
    BY DEF DependantsWait
  <2> QED  BY <1>7, <1>8, <1>9
<1>11. OneDependency'
  <2> SUFFICES ASSUME NEW h \in Fibers, NEW k \in Fibers,
                      NEW i \in DOMAIN deps'[h], NEW j \in DOMAIN deps'[k],
                      deps'[h][i] = deps'[k][j]
               PROVE  h = k /\ i = j
    BY DEF OneDependency
  <2>1. CASE deps'[h][i] = f
    <3>1. ~(i \in DOMAIN deps[h] /\ deps'[h][i] = deps[h][i])
      BY <2>1, <1>8
    <3>2. ~(j \in DOMAIN deps[k] /\ deps'[k][j] = deps[k][j])
      BY <2>1, <1>8
    <3> QED  BY <3>1, <3>2, <1>9
  <2>2. CASE deps'[h][i] # f
    <3>1. i \in DOMAIN deps[h] /\ deps'[h][i] = deps[h][i]
      BY <2>2, <1>9
    <3>2. j \in DOMAIN deps[k] /\ deps'[k][j] = deps[k][j]
      BY <2>2, <1>9
    <3>3. deps[h][i] = deps[k][j]
      BY <3>1, <3>2
    <3> QED  BY <3>1, <3>2, <3>3, <1>1 DEF OneDependency
  <2> QED  BY <2>1, <2>2
<1>12. HandedOK'
  BY <1>7, HandedStays DEF CallFramesInvariant
<1> QED  BY <1>7, <1>10, <1>11, <1>12 DEF CallFramesInvariant, Orderly

(* A native method answers with what it has read.                          *)
LEMMA AnswersInPlace ==
    ASSUME CallFramesInvariant, NEW f \in Fibers, Runs(f), doing[f] \in Natives, NEW how,
           NEW given \in Seq(Anything), NEW pushes \in Seq(Anything), NEW slot,
           Answer(f, how, given, pushes, slot, {}), active' = active
    PROVE  /\ Orderly' /\ waits' = waits /\ deps' = deps
           /\ handed' = [how |-> how, given |-> given, got |-> pushes, slot |-> slot]
<1>1. Orderly /\ Typed
  BY ActivationsTyped DEF CallFramesInvariant, Orderly
<1>2. waits[f] = "nothing" /\ first[f] = 0
  BY <1>1 DEF Orderly, LivesOK, LifeOK, Natives
<1>3. Typed' /\ {} \in SUBSET Fibers
  BY <1>1 DEF Typed
<1>4. \A h \in {} \cup {f} : waits[h] = "nothing" /\ first[h] = 0
  BY <1>2
<1>5. /\ TypeOK' /\ FramesOK' /\ LivesOK' /\ doing'[f] = "script"
      /\ \A h \in Fibers \ ({} \cup {f}) : doing'[h] = doing[h]
      /\ waits' = waits /\ deps' = deps
      /\ handed' = [how |-> how, given |-> given, got |-> pushes, slot |-> slot]
  <2>1. Answers(f, how, given, pushes, slot, {})
    BY <1>3, <1>4 DEF Answers
  <2> QED  BY <2>1, <1>1, AnswerKeeps
<1>6. ActivationsOK' /\ OneActivation'
  BY <1>1, <1>5, ActivationsStay DEF Orderly
<1> QED  BY <1>5, <1>6 DEF Orderly

(* A method that reads a number finds the argument of its slot, or its own *)
(* first result in the slot after them.                                    *)
LEMMA AskKeeps ==
    ASSUME CallFramesInvariant, NEW f \in Fibers, NEW slot \in 1 .. MaxArgs + 1,
           NEW pushed \in {<<>>} \cup {<<m>> : m \in Numbers}, Ask(f, slot, pushed)
    PROVE  CallFramesInvariant'
<1>1. Orderly /\ TypeOK /\ FramesOK
  BY DEF CallFramesInvariant, Orderly
<1> DEFINE s == stack[f]
           given == Arguments(f)
           value == At(s \o pushed, slot + call[f].self)
<1>2. Runs(f) /\ doing[f] \in Natives
  BY DEF Ask, InNative, Natives
<1>3. /\ s \in Seq(Anything) /\ Len(s) \in Nat \ {0}
      /\ given \in Seq(Anything) /\ Len(given) = Len(s) - 1
      /\ \A i \in 1 .. Len(s) - 1 : given[i] = s[i + 1]
      /\ call[f].self = 1 /\ call[f].push = Len(s)
  BY <1>1, <1>2, NativeArguments, FiberTyped DEF NativeFrame
<1>4. slot \in Nat \ {0}
  BY MaxArgsAssumption
<1>5. pushed \in Seq(Anything) /\ Len(pushed) \in {0, 1}
  <2>1. CASE pushed = <<>>
    BY <2>1
  <2>2. CASE pushed # <<>>
    <3>1. PICK m \in Numbers : pushed = <<m>>
      BY <2>2
    <3>2. m \in Anything
      BY <3>1, SpecialValues
    <3> QED  BY <3>1, <3>2
  <2> QED  BY <2>1, <2>2
<1>6. ArgNumber(s \o pushed, call[f], slot) =
          IF slot <= call[f].push /\ value \in Numbers THEN <<value>> ELSE <<>>
  BY DEF ArgNumber
<1>7. CASE ~(slot <= call[f].push /\ value \in Numbers)
  <2>1. Error(f)
    BY <1>6, <1>7 DEF Ask
  <2> QED  BY <2>1, <1>1, <1>2, ErrorKeeps, QuietStep
<1>8. CASE slot <= call[f].push /\ value \in Numbers
  <2>1. value \in Anything /\ value # Nil
    BY <1>8, SpecialValues
  <2> DEFINE got == pushed \o <<value>>
  <2>2. /\ got \in Seq(Anything) /\ Len(got) = Len(pushed) + 1 /\ got[Len(got)] = value
    BY <2>1, <1>5
  <2>3. Answer(f, "ask", given, got, slot, {}) /\ active' = active
    BY <1>6, <1>8 DEF Ask
  <2>4. \/ slot <= Len(given) /\ value = given[slot]
        \/ slot = Len(given) + 1 /\ Len(got) = 2
    <3> PICK t : t = s \o pushed
      OBVIOUS
    <3>1. /\ t \in Seq(Anything) /\ Len(t) = Len(s) + Len(pushed)
          /\ \A i \in 1 .. Len(s) : t[i] = s[i]
      BY <1>3, <1>5
    <3>2. value = At(t, slot + 1)
      BY <1>3
    <3> PICK k : k = slot + 1
      OBVIOUS
    <3> HIDE DEF value
    <3>3. k \in Int /\ k > 1 /\ value = At(t, k)
      BY <3>2, <1>4
    <3>4. k <= Len(t) /\ Len(t) \in Nat
      <4>1. k > Len(t) => At(t, k) = Nil
        BY <3>1, <3>3, AtIsValue
      <4> QED  BY <4>1, <2>1, <3>1, <3>3
    <3>5. value = t[slot + 1]
      <4>1. k \in 1 .. Len(t)
        BY <3>3, <3>4
      <4> QED  BY <4>1, <3>1, <3>3, AtIsValue
    <3>6. CASE slot + 1 <= Len(s)
      <4>1. slot \in 1 .. Len(s) - 1 /\ slot + 1 \in 1 .. Len(s)
        BY <3>6, <1>3, <1>4
      <4> QED  BY <4>1, <3>1, <3>5, <1>3
    <3>7. CASE slot + 1 > Len(s)
      <4>1. slot = Len(s) /\ Len(pushed) = 1
        BY <3>1, <3>4, <3>7, <1>3, <1>4, <1>5, <1>8
      <4> QED  BY <4>1, <2>2, <1>3
    <3> QED  BY <3>6, <3>7, <1>3, <1>4
  <2> HIDE DEF got, value, given, s
  <2>5. /\ Orderly' /\ waits' = waits /\ deps' = deps
        /\ handed' = [how |-> "ask", given |-> given, got |-> got, slot |-> slot]
    BY <1>2, <1>3, <2>2, <2>3, AnswersInPlace
  <2>6. DependantsWait' /\ OneDependency'
    BY <1>1, <2>5, DependantsStay DEF CallFramesInvariant
  <2>7. HandedOK'
    BY <2>2, <2>4, <2>5
    DEF HandedOK, ArgumentsArrive, ReadsArguments, DependantsGetResults, ResultsArrive
  <2> QED  BY <2>5, <2>6, <2>7 DEF CallFramesInvariant, Orderly
<1> QED  BY <1>7, <1>8

(* A method that reads an entity answers, with whichever it reads.         *)
LEMMA AskEntityKeeps ==
    ASSUME CallFramesInvariant, NEW f \in Fibers, NEW slot, AskEntity(f, slot)
    PROVE  CallFramesInvariant'
<1>1. Orderly /\ TypeOK /\ FramesOK
  BY DEF CallFramesInvariant, Orderly
<1>2. Runs(f) /\ doing[f] \in Natives
  BY DEF AskEntity, InNative, Natives
<1> DEFINE read == ArgEntity(stack[f], call[f], slot)
<1>3. CASE read = <<>>
  <2>1. Error(f)
    BY <1>3 DEF AskEntity
  <2> QED  BY <2>1, <1>1, <1>2, ErrorKeeps, QuietStep
<1>4. CASE read # <<>>
  <2>1. Arguments(f) \in Seq(Anything) /\ stack[f] \in Seq(Anything)
    BY <1>1, <1>2, NativeArguments, FiberTyped
  <2>2. read \in Seq(Anything)
    <3>1. At(stack[f], 1) \in Anything
      BY <2>1, AtIsValue
    <3> QED  BY <3>1 DEF ArgEntity
  <2>3. Answer(f, "entity", Arguments(f), read, slot, {}) /\ active' = active
    BY <1>4 DEF AskEntity
  <2> HIDE DEF read
  <2>4. /\ Orderly' /\ waits' = waits /\ deps' = deps
        /\ handed' = [how |-> "entity", given |-> Arguments(f), got |-> read, slot |-> slot]
    BY <1>2, <2>1, <2>2, <2>3, AnswersInPlace
  <2>5. DependantsWait' /\ OneDependency'
    BY <1>1, <2>4, DependantsStay DEF CallFramesInvariant
  <2>6. HandedOK'
    BY <2>4, HandedOtherwise
  <2> QED  BY <2>4, <2>5, <2>6 DEF CallFramesInvariant, Orderly
<1> QED  BY <1>3, <1>4

-----------------------------------------------------------------------------
(* The end of lua_resume.                                                  *)

(* The script returns.                                                     *)
LEMMA FinishKeeps ==
    ASSUME CallFramesInvariant, NEW f \in Fibers, NEW values \in Lists, Finish(f, values)
    PROVE  CallFramesInvariant'
<1>1. Orderly /\ TypeOK
  BY DEF CallFramesInvariant, Orderly
<1> PICK cursor : cursor = SetupReturn(Len(values), FALSE)
  OBVIOUS
<1>2. values \in Seq(Anything) /\ Len(values) \in Int
  BY ListsAreSequences
<1>3. /\ cursor \in Cursors /\ cursor.self = 0 /\ cursor.push = Len(values)
      /\ ~cursor.failed
  BY <1>2 DEF SetupReturn, Cursors
<1>4. Stop(f, "ended", values, cursor, values) /\ waits' = waits
  BY DEF Finish
<1>5. waits[f] = "nothing" /\ waits' \in [Fibers -> Reasons]
  BY <1>1, <1>4 DEF Orderly, LivesOK, LifeOK, Stop, TypeOK
<1>6. Orderly' /\ handed' = handed /\ deps' = deps
  BY <1>1, <1>2, <1>3, <1>4, <1>5, StopKeeps
<1> QED  BY <1>4, <1>6, QuietStep

(* The script calls coroutine.yield.                                       *)
LEMMA SuspendKeeps ==
    ASSUME CallFramesInvariant, NEW f \in Fibers, NEW values \in Lists, Suspend(f, values)
    PROVE  CallFramesInvariant'
<1>1. Orderly /\ TypeOK
  BY DEF CallFramesInvariant, Orderly
<1> PICK cursor : cursor = SetupReturn(Len(values), FALSE)
  OBVIOUS
<1>2. values \in Seq(Anything) /\ Len(values) \in Int
  BY ListsAreSequences
<1>3. /\ cursor \in Cursors /\ cursor.self = 0 /\ cursor.push = Len(values)
      /\ ~cursor.failed
  BY <1>2 DEF SetupReturn, Cursors
<1>4. /\ Stop(f, "yielded", values, cursor, values)
      /\ waits' = [waits EXCEPT ![f] = "resume"]
  BY DEF Suspend
<1>5. /\ waits[f] = "nothing" /\ waits' \in [Fibers -> Reasons]
      /\ \A h \in Fibers \ {f} : waits'[h] = waits[h]
  BY <1>1, <1>4 DEF Orderly, LivesOK, LifeOK, Stop, TypeOK, Reasons
<1>6. Orderly' /\ handed' = handed /\ deps' = deps
  BY <1>1, <1>2, <1>3, <1>4, <1>5, StopKeeps
<1>7. DependantsWait' /\ OneDependency'
  <2>1. \A h \in Fibers : waits[h] = "fiber" => waits'[h] = "fiber"
    BY <1>5
  <2> QED  BY <2>1, <1>1, <1>6, DependantsStay DEF CallFramesInvariant
<1>8. HandedOK'
  BY <1>6, HandedStays DEF CallFramesInvariant
<1> QED  BY <1>6, <1>7, <1>8 DEF CallFramesInvariant, Orderly

(* The script throws.                                                      *)
LEMMA ThrowKeeps ==
    ASSUME CallFramesInvariant, NEW f \in Fibers, NEW locals \in Nat, Throw(f, locals)
    PROVE  CallFramesInvariant'
<1>1. Orderly /\ TypeOK
  BY DEF CallFramesInvariant, Orderly
<1> PICK cursor : cursor = SetupReturn(locals + 1, TRUE)
  OBVIOUS
<1>2. /\ cursor \in Cursors /\ cursor.self = 0 /\ cursor.push >= 1
      /\ cursor.failed
  BY DEF SetupReturn, Cursors
<1>3. Stop(f, "failed", <<>>, cursor, <<>>) /\ waits' = waits
  BY DEF Throw
<1>4. waits[f] = "nothing" /\ waits' \in [Fibers -> Reasons]
  BY <1>1, <1>3 DEF Orderly, LivesOK, LifeOK, Stop, TypeOK
<1>5. <<>> \in Lists /\ <<>> \in Seq(Anything)
  BY ListsAreSequences
<1>6. Orderly' /\ handed' = handed /\ deps' = deps
  BY <1>1, <1>2, <1>3, <1>4, <1>5, StopKeeps
<1> QED  BY <1>3, <1>6, QuietStep

(* What a stopped fiber gives to those who read its results.               *)
LEMMA StoppedValues ==
    ASSUME Orderly, NEW f \in Fibers, Stopped(f)
    PROVE  /\ Runs(f) /\ call[f].self = 0 /\ call[f].push \in Nat
           /\ doing[f] \in {"yielded", "ended"} =>
                 /\ stack[f] = left[f] /\ call[f].push = Len(left[f]) /\ ~call[f].failed
           /\ doing[f] \notin {"yielded", "ended"} =>
                 /\ doing[f] = "failed" /\ call[f].failed
                 /\ stack[f] = <<>> /\ left[f] = <<>>
<1>1. TypeOK /\ FrameOK(f) /\ Runs(f) /\ doing[f] \in {"yielded", "ended", "failed"}
  BY DEF Orderly, FramesOK, Stopped
<1>2. left[f] \in Seq(Anything) /\ Len(left[f]) \in Nat /\ call[f].push \in Int
  BY <1>1, FiberTyped
<1>3. CASE doing[f] = "failed"
  BY <1>1, <1>2, <1>3 DEF FrameOK, FailedFrame
<1>4. CASE doing[f] # "failed"
  BY <1>1, <1>2, <1>4 DEF FrameOK, StoppedFrame
<1> QED  BY <1>1, <1>3, <1>4

(* FiberHandle::Continue of a dependant: whether the fiber failed, and its *)
(* results or nils.                                                        *)
LEMMA DependantKeeps ==
    ASSUME CallFramesInvariant, NEW f \in Fibers, ContinueDependant(f)
    PROVE  CallFramesInvariant'
<1>1. Orderly /\ TypeOK /\ OneDependency /\ DependantsWait /\ Typed
  BY ActivationsTyped DEF CallFramesInvariant, Orderly
<1> PICK h : h = Head(deps[f])
  OBVIOUS
<1> PICK success : success = IF call[f].failed THEN No ELSE Yes
  OBVIOUS
<1> PICK copied : copied = VarArgs(f, 1)
  OBVIOUS
<1>2. /\ Stopped(f) /\ doing[f] # "yielded" /\ deps[f] # <<>>
      /\ deps' = [deps EXCEPT ![f] = Tail(deps[f])]
      /\ Enter(h, "dependant", left[f], <<success>> \o copied)
  BY DEF ContinueDependant
<1>3. /\ deps[f] \in Seq(Fibers) /\ Len(deps[f]) \in Nat \ {0}
      /\ h = deps[f][1] /\ h \in Fibers
      /\ Tail(deps[f]) \in Seq(Fibers)
      /\ Len(Tail(deps[f])) = Len(deps[f]) - 1
      /\ \A i \in 1 .. Len(Tail(deps[f])) : Tail(deps[f])[i] = deps[f][i + 1]
  <2>1. deps[f] \in Seq(Fibers) /\ deps[f] # <<>>
    BY <1>1, <1>2, FiberTyped
  <2> QED  BY <2>1, HeadTailProperties, EmptySeq
<1>4. waits[h] = "fiber" /\ doing[h] = "yielded" /\ first[h] = 0
  <2>1. 1 \in DOMAIN deps[f]
    BY <1>3
  <2>2. waits[h] = "fiber"
    BY <2>1, <1>1, <1>3 DEF DependantsWait
  <2> QED  BY <2>2, <1>1, <1>3, WaitingFiber
<1>5. MayEnter(h, "dependant")
  <2>1. Runs(f) /\ doing[f] \in {"ended", "failed"}
    BY <1>2 DEF Stopped
  <2>2. active # <<>> /\ active[Len(active)].fiber = f /\ f # h
    BY <2>1, <1>4 DEF Runs
  <2>3. \A i \in Depth : active[i].fiber # h
    BY <2>2, <1>1, <1>3, <1>4, IdleFiber DEF Orderly
  <2>4. Caller("dependant") = {"ended", "failed"}
    BY DEF Caller
  <2> QED  BY <2>1, <2>2, <2>3, <2>4, <1>4 DEF MayEnter, Vias
<1>6. /\ stack[f] \in Seq(Anything) /\ left[f] \in Seq(Anything)
      /\ stack[h] \in Seq(Anything)
      /\ call[f].self = 0 /\ call[f].push \in Nat
  BY <1>1, <1>2, <1>3, FiberTyped, StoppedValues
<1>7. /\ copied \in Seq(Anything) /\ Len(copied) = call[f].push
      /\ \A k \in 1 .. call[f].push : copied[k] = At(stack[f], k)
  <2>1. /\ copied \in Seq(Anything)
        /\ call[f].push >= 1 - 1 => Len(copied) = call[f].push - 1 + 1
        /\ \A k \in 1 .. call[f].push - 1 + 1 :
              copied[k] = At(stack[f], 1 + k - 1 + call[f].self)
    <3>1. /\ stack[f] \in Seq(Anything) /\ 1 \in Nat
          /\ call[f].push \in Int /\ call[f].self \in {0, 1}
      BY <1>6
    <3> QED  BY <3>1, VarArgsAre
  <2>2. ASSUME NEW k \in 1 .. call[f].push PROVE copied[k] = At(stack[f], k)
    <3>1. k \in 1 .. call[f].push - 1 + 1 /\ 1 + k - 1 + call[f].self = k
      BY <1>6
    <3> QED  BY <3>1, <2>1
  <2> QED  BY <2>1, <2>2, <1>6
<1>8. IF call[f].failed THEN \A k \in 1 .. Len(copied) : copied[k] = Nil
      ELSE copied = left[f]
  <2>1. CASE call[f].failed
    <3>1. stack[f] = <<>> /\ Len(stack[f]) = 0
      BY <2>1, <1>1, <1>2, StoppedValues DEF Stopped
    <3>2. ASSUME NEW k \in 1 .. Len(copied) PROVE copied[k] = Nil
      <4>1. k \in Int /\ k > Len(stack[f])
        BY <3>1
      <4>2. At(stack[f], k) = Nil
        BY <4>1, <1>6, AtIsValue
      <4> QED  BY <4>2, <1>7
    <3> QED  BY <2>1, <3>2
  <2>2. CASE ~call[f].failed
    <3>1. stack[f] = left[f] /\ call[f].push = Len(left[f])
      BY <2>2, <1>1, <1>2, StoppedValues DEF Stopped
    <3>2. ASSUME NEW k \in 1 .. Len(copied) PROVE copied[k] = left[f][k]
      <4>1. k \in 1 .. Len(stack[f]) /\ k \in Int
        BY <3>1, <1>7
      <4>2. At(stack[f], k) = stack[f][k]
        BY <4>1, <1>6, AtIsValue
      <4> QED  BY <4>2, <3>1, <1>7
    <3> QED  BY <2>2, <3>1, <3>2, <1>6, <1>7, SeqEqual
  <2> QED  BY <2>1, <2>2
<1> PICK pushes : pushes = <<success>> \o copied
  OBVIOUS
<1>9. /\ pushes \in Seq(Anything) /\ Len(pushes) = 1 + Len(copied)
      /\ pushes[1] = success /\ Head(pushes) = success
      /\ \A i \in 2 .. Len(pushes) : pushes[i] = copied[i - 1]
  <2>1. success \in Anything
    BY SpecialValues
  <2>2. <<success>> \in Seq(Anything) /\ Len(<<success>>) = 1 /\ <<success>>[1] = success
    BY <2>1
  <2>3. /\ pushes \in Seq(Anything) /\ Len(pushes) = 1 + Len(copied)
        /\ \A i \in 1 .. 1 + Len(copied) :
              pushes[i] = IF i <= 1 THEN <<success>>[i] ELSE copied[i - 1]
    BY <2>2, <1>7, ConcatProperties
  <2>4. pushes[1] = success /\ Head(pushes) = success
    BY <2>2, <2>3, <1>7
  <2>5. ASSUME NEW i \in 2 .. Len(pushes) PROVE pushes[i] = copied[i - 1]
    BY <2>3, <1>7
  <2> QED  BY <2>3, <2>4, <2>5
<1>10. /\ \A g \in Fibers \ {f} : deps'[g] = deps[g]
       /\ deps'[f] = Tail(deps[f])
       /\ deps' \in [Fibers -> Seq(Fibers)]
  BY <1>1, <1>2, <1>3 DEF TypeOK
<1>11. /\ Orderly' /\ handed'.how = "dependant" /\ handed'.given = left[f]
       /\ handed'.got = Topmost(stack[h] \o pushes, Len(pushes) - first[h])
       /\ \A g \in Fibers \ {h} : waits'[g] = waits[g]
  <2>1. Len(pushes) >= first[h]
    BY <1>4, <1>7, <1>9
  <2> PICK results : results = left[f]
    OBVIOUS
  <2>2. Enters(h, "dependant", results, pushes)
    BY <2>1, <1>2, <1>3, <1>5, <1>6, <1>9, <1>10 DEF Enters
  <2>3. /\ Orderly' /\ handed'.how = "dependant" /\ handed'.given = results
        /\ handed'.got = Topmost(stack[h] \o pushes, Len(pushes) - first[h])
        /\ \A g \in Fibers \ {h} : waits'[g] = waits[g]
    BY <2>2, <1>1, EnterKeeps
  <2> QED  BY <2>3
<1>12. handed'.got = pushes
  <2>1. Topmost(stack[h] \o pushes, Len(pushes)) = pushes
    BY <1>6, <1>9, AllArrive
  <2>2. Len(pushes) - first[h] = Len(pushes)
    BY <1>4, <1>7, <1>9
  <2> QED  BY <2>1, <2>2, <1>11
<1>13. DependantsGetResults'
  <2>1. CASE call[f].failed
    <3>1. success = No /\ \A k \in 1 .. Len(copied) : copied[k] = Nil
      BY <2>1, <1>8
    <3>2. ASSUME NEW i \in 2 .. Len(pushes) PROVE pushes[i] = Nil
      <4>1. i - 1 \in 1 .. Len(copied)
        BY <1>7, <1>9
      <4> QED  BY <4>1, <3>1, <1>9
    <3> QED  BY <3>1, <3>2, <1>9, <1>12 DEF DependantsGetResults
  <2>2. CASE ~call[f].failed
    <3>1. pushes = <<Yes>> \o handed'.given
      BY <2>2, <1>8, <1>11
    <3> QED  BY <3>1, <1>12 DEF DependantsGetResults
  <2> QED  BY <2>1, <2>2
<1>14. HandedOK'
  BY <1>11, <1>13 DEF HandedOK, ArgumentsArrive, ReadsArguments, ResultsArrive
(* The entries left are the old ones but h, shifted by one in f's list.    *)
<1>15. ASSUME NEW g \in Fibers, NEW i \in DOMAIN deps'[g]
       PROVE  \E j \in DOMAIN deps[g] :
                 /\ deps'[g][i] = deps[g][j]
                 /\ j = (IF g = f THEN i + 1 ELSE i) /\ i \in Int
                 /\ deps'[g][i] \in Fibers \ {h}
                 /\ waits[deps'[g][i]] = "fiber"
  <2>1. deps[g] \in Seq(Fibers) /\ deps'[g] \in Seq(Fibers)
    BY <1>1, <1>10 DEF TypeOK
  <2>2. i \in Nat /\ i \in 1 .. Len(deps'[g])
    BY <2>1, LenProperties
  <2> PICK j : j = (IF g = f THEN i + 1 ELSE i)
    OBVIOUS
  <2>3. j \in DOMAIN deps[g] /\ deps'[g][i] = deps[g][j]
    <3>1. CASE g = f
      <4>1. i + 1 \in 1 .. Len(deps[f]) /\ i \in 1 .. Len(Tail(deps[f]))
        BY <3>1, <2>2, <1>3, <1>10
      <4> QED  BY <3>1, <4>1, <1>3, <1>10
    <3>2. CASE g # f
      BY <3>2, <1>10
    <3> QED  BY <3>1, <3>2
  <2>4. deps'[g][i] \in Fibers /\ waits[deps'[g][i]] = "fiber"
    BY <2>1, <2>3, <1>1 DEF DependantsWait
  <2>5. deps'[g][i] # h
    <3>1. ASSUME deps'[g][i] = h PROVE FALSE
      <4>1. 1 \in DOMAIN deps[f] /\ deps[g][j] = deps[f][1]
        BY <3>1, <2>3, <1>3
      <4>2. g = f /\ j = 1
        BY <4>1, <2>3, <1>1 DEF OneDependency
      <4> QED  BY <4>2, <2>2
    <3> QED  BY <3>1
  <2> QED  BY <2>2, <2>3, <2>4, <2>5
<1>16. DependantsWait'
  <2> SUFFICES ASSUME NEW g \in Fibers, NEW i \in DOMAIN deps'[g]
               PROVE  waits'[deps'[g][i]] = "fiber"
    BY DEF DependantsWait
  <2> QED  BY <1>11, <1>15
<1>17. OneDependency'
  <2> SUFFICES ASSUME NEW g \in Fibers, NEW k \in Fibers,
                      NEW i \in DOMAIN deps'[g], NEW j \in DOMAIN deps'[k],
                      deps'[g][i] = deps'[k][j]
               PROVE  g = k /\ i = j
    BY DEF OneDependency
  <2>1. PICK a \in DOMAIN deps[g] :
            deps'[g][i] = deps[g][a] /\ a = (IF g = f THEN i + 1 ELSE i) /\ i \in Int
    BY <1>15
  <2>2. PICK b \in DOMAIN deps[k] :
            deps'[k][j] = deps[k][b] /\ b = (IF k = f THEN j + 1 ELSE j) /\ j \in Int
    BY <1>15
  <2>3. deps[g][a] = deps[k][b]
    BY <2>1, <2>2
  <2>4. g = k /\ a = b
    BY <2>3, <1>1 DEF OneDependency
  <2> QED  BY <2>1, <2>2, <2>4
<1> QED  BY <1>11, <1>14, <1>16, <1>17 DEF CallFramesInvariant, Orderly

(* A fiber that another native call entered has that call below it.        *)
LEMMA CallerBelow ==
    ASSUME Orderly, NEW f \in Fibers, Leave(f), NEW via \in {"new", "resume"},
           active[Len(active)].via = via
    PROVE  /\ Len(active) - 1 \in Depth /\ Len(active) > 1
           /\ Below \in Fibers /\ Below # f
           /\ doing[Below] \in {"New", "Resume"}
           /\ waits[Below] = "nothing" /\ first[Below] = 0
           /\ \A i \in Depth : i < Len(active) - 1 =>
                 active[i].fiber \in Fibers \ {f, Below}
<1>1. Typed /\ Runs(f) /\ ActivationsOK /\ OneActivation
  BY ActivationsTyped DEF Orderly, Leave, Stopped
<1> PICK n : n = Len(active)
  OBVIOUS
<1>2. /\ n \in Nat \ {0} /\ n \in Depth /\ active[n].fiber = f
  BY <1>1, RunsOnce
<1>3. n # 1 /\ doing[active[n - 1].fiber] \in Caller(via)
  BY <1>1, <1>2 DEF ActivationsOK, ActivationOK
<1>4. n - 1 \in Depth /\ n > 1
  BY <1>2, <1>3 DEF Depth
<1>5. Below = active[n - 1].fiber
  BY DEF Below
<1>6. Below \in Fibers
  BY <1>1, <1>4, <1>5, ActivationsTyped
<1>7. doing[Below] \in {"New", "Resume"}
  BY <1>3, <1>5 DEF Caller
<1>8. Below # f
  BY <1>1, <1>2, <1>4, <1>5 DEF OneActivation
<1>9. waits[Below] = "nothing" /\ first[Below] = 0
  BY <1>6, <1>7 DEF Orderly, LivesOK, LifeOK
<1>10. ASSUME NEW i \in Depth, i < n - 1 PROVE active[i].fiber \in Fibers \ {f, Below}
  <2>1. active[i].fiber \in Fibers
    BY <1>1, ActivationsTyped
  <2>2. i # n /\ i # n - 1
    BY <1>2, <1>10 DEF Depth
  <2> QED  BY <2>1, <2>2, <1>1, <1>2, <1>4, <1>5 DEF OneActivation
<1> QED  BY <1>4, <1>6, <1>7, <1>8, <1>9, <1>10

(* The rest of a native call that entered another fiber: it answers.       *)
LEMMA ReturnAnswers ==
    ASSUME CallFramesInvariant, NEW f \in Fibers, Leave(f), NEW via \in {"new", "resume"},
           active[Len(active)].via = via, NEW how, NEW given \in Seq(Anything),
           NEW pushes \in Seq(Anything), NEW deleted \in {{}, Unused(f)},
           Answer(Below, how, given, pushes, 0, deleted)
    PROVE  /\ Orderly' /\ waits' = waits /\ deps' = deps
           /\ handed' = [how |-> how, given |-> given, got |-> pushes, slot |-> 0]
<1>1. Orderly /\ Typed /\ Runs(f)
  BY ActivationsTyped DEF CallFramesInvariant, Orderly, Leave, Stopped
<1> PICK b : b = Below
  OBVIOUS
<1>2. /\ Len(active) - 1 \in Depth /\ Len(active) > 1
      /\ b \in Fibers /\ b # f
      /\ waits[b] = "nothing" /\ first[b] = 0
      /\ \A i \in Depth : i < Len(active) - 1 => active[i].fiber \in Fibers \ {f, b}
  BY <1>1, CallerBelow
<1>3. /\ active' \in Seq([fiber : Fibers, via : Vias])
      /\ deleted \subseteq {f}
      /\ deleted # {} => waits[f] = "nothing"
      /\ first[f] = 0
  BY <1>1, LeaveKeeps
<1>4. /\ TypeOK' /\ FramesOK' /\ LivesOK' /\ doing'[b] = "script"
      /\ \A h \in Fibers \ (deleted \cup {b}) : doing'[h] = doing[h]
      /\ waits' = waits /\ deps' = deps
      /\ handed' = [how |-> how, given |-> given, got |-> pushes, slot |-> 0]
  <2>1. \A h \in deleted \cup {b} : waits[h] = "nothing" /\ first[h] = 0
    BY <1>2, <1>3
  <2>2. Answers(b, how, given, pushes, 0, deleted)
    BY <2>1, <1>2, <1>3 DEF Answers, Typed
  <2> QED  BY <2>2, <1>1, AnswerKeeps
<1>5. \A i \in Depth : i < Len(active) - 1 =>
          doing'[active[i].fiber] = doing[active[i].fiber]
  BY <1>2, <1>3, <1>4
<1>6. doing'[active[Len(active) - 1].fiber] \notin {"fresh", "freed"}
  BY <1>4 DEF Below
<1>7. active' = SubSeq(active, 1, Len(active) - 1)
  BY DEF Leave
<1>8. ActivationsOK' /\ OneActivation'
  BY <1>1, <1>5, <1>6, <1>7, ActivationEnds DEF Orderly
<1> QED  BY <1>4, <1>8 DEF Orderly

(* Call returns to the host, or to the fiber that continued a dependant.   *)
LEMMA ReturnToHostKeeps ==
    ASSUME CallFramesInvariant, NEW f \in Fibers, ReturnToHost(f)
    PROVE  CallFramesInvariant'
<1>1. Orderly /\ TypeOK /\ Typed /\ Leave(f) /\ Runs(f)
  BY ActivationsTyped DEF CallFramesInvariant, Orderly, ReturnToHost, Leave, Stopped
<1>2. /\ active' \in Seq([fiber : Fibers, via : Vias])
      /\ Unused(f) \subseteq {f}
      /\ Unused(f) # {} => waits[f] = "nothing"
      /\ first[f] = 0
  BY <1>1, LeaveKeeps
<1> PICK gone : gone = Unused(f)
  OBVIOUS
<1>3. /\ doing' = With(doing, gone, "freed") /\ stack' = With(stack, gone, <<>>)
      /\ left' = With(left, gone, <<>>)
      /\ UNCHANGED <<waits, call, first, deps, handed>>
  BY DEF ReturnToHost
<1>4. /\ doing' \in [Fibers -> States] /\ \A h \in gone : doing'[h] = "freed"
      /\ \A h \in Fibers \ gone : doing'[h] = doing[h]
  BY <1>1, <1>2, <1>3 DEF With, TypeOK, States
<1>5. /\ stack' \in [Fibers -> Seq(Values \cup Special)]
      /\ \A h \in Fibers \ gone : stack'[h] = stack[h]
  <2>1. <<>> \in Seq(Values \cup Special)
    OBVIOUS
  <2> QED  BY <1>1, <1>3, <2>1 DEF With, TypeOK
<1>6. /\ left' \in [Fibers -> Lists]
      /\ \A h \in Fibers \ gone : left'[h] = left[h]
  BY <1>1, <1>3, ListsAreSequences DEF With, TypeOK
<1>7. TypeOK'
  <2>1. /\ first' \in [Fibers -> {0, 1}] /\ deps' \in [Fibers -> Seq(Fibers)]
        /\ waits' \in [Fibers -> Reasons] /\ call' \in [Fibers -> Cursors]
        /\ handed'.given \in Seq(Values \cup Special)
        /\ handed'.got \in Seq(Values \cup Special)
    BY <1>1, <1>3 DEF TypeOK
  <2> QED  BY <1>2, <1>4, <1>5, <1>6, <2>1 DEF TypeOK
<1>8. SameExcept(gone)
  BY <1>3, <1>4, <1>5, <1>6 DEF SameExcept, Same
<1>9. FramesOK' /\ LivesOK'
  <2>1. ASSUME NEW h \in gone \cap Fibers PROVE GoodFiber(h)'
    <3>1. h = f /\ waits'[h] = "nothing" /\ first'[h] = 0 /\ doing'[h] = "freed"
      BY <1>2, <1>3, <1>4
    <3> QED  BY <3>1, FreedIsGood
  <2> QED  BY <1>1, <1>8, <2>1, OthersStayGood DEF Orderly
<1>10. ActivationsOK' /\ OneActivation'
  <2>1. ASSUME NEW i \in Depth, i # Len(active)
        PROVE  doing'[active[i].fiber] = doing[active[i].fiber]
    <3>1. active[i].fiber \in Fibers /\ active[i].fiber # f
      BY <2>1, <1>1, RunsOnce, ActivationsTyped DEF Orderly
    <3> QED  BY <3>1, <1>2, <1>4
  <2>2. Len(active) \in Nat
    BY <1>1, ActivationsTyped
  <2>3. \A i \in Depth : i < Len(active) - 1 =>
            doing'[active[i].fiber] = doing[active[i].fiber]
    BY <2>1, <2>2 DEF Depth
  <2>4. ASSUME Len(active) > 1
        PROVE  doing'[active[Len(active) - 1].fiber] \notin {"fresh", "freed"}
    <3>1. Len(active) - 1 \in Depth /\ Len(active) - 1 # Len(active)
      BY <2>2, <2>4 DEF Depth
    <3>2. doing[active[Len(active) - 1].fiber] \notin {"fresh", "freed"}
      BY <3>1, <1>1 DEF Orderly, ActivationsOK, ActivationOK
    <3> QED  BY <3>1, <3>2, <2>1
  <2>5. active' = SubSeq(active, 1, Len(active) - 1)
    BY <1>1 DEF Leave
  <2> QED  BY <2>3, <2>4, <2>5, <1>1, ActivationEnds DEF Orderly
<1>11. Orderly'
  BY <1>7, <1>9, <1>10 DEF Orderly
<1> QED  BY <1>3, <1>11, QuietStep

(* The rest of FiberController::New.                                       *)
LEMMA ReturnToNewKeeps ==
    ASSUME CallFramesInvariant, NEW f \in Fibers, ReturnToNew(f)
    PROVE  CallFramesInvariant'
<1>1. /\ Leave(f) /\ active[Len(active)].via = "new"
      /\ Answer(Below, "made", <<Entity>>, <<Entity>>, 0, Unused(f))
  BY DEF ReturnToNew
<1> PICK entity : entity = <<Entity>>
  OBVIOUS
<1>2. entity \in Seq(Anything)
  BY SpecialValues
<1>3. /\ Orderly' /\ waits' = waits /\ deps' = deps
      /\ handed' = [how |-> "made", given |-> entity, got |-> entity, slot |-> 0]
  BY <1>1, <1>2, ReturnAnswers
<1>4. DependantsWait' /\ OneDependency'
  BY <1>3, DependantsStay DEF CallFramesInvariant
<1>5. HandedOK'
  BY <1>3, HandedOtherwise
<1> QED  BY <1>3, <1>4, <1>5 DEF CallFramesInvariant, Orderly

(* The rest of FiberController::Resume: what the fiber left is on top of   *)
(* the slot below its first value.                                         *)
LEMMA ReturnToResumeKeeps ==
    ASSUME CallFramesInvariant, NEW f \in Fibers, ReturnToResume(f)
    PROVE  CallFramesInvariant'
<1>1. Orderly /\ TypeOK /\ Leave(f) /\ Stopped(f)
  BY DEF CallFramesInvariant, Orderly, ReturnToResume, Leave
<1> PICK given : given = left[f]
  OBVIOUS
<1> PICK copied : copied = VarArgs(f, 0)
  OBVIOUS
<1>2. /\ active[Len(active)].via = "resume"
      /\ Answer(Below, "results", given, copied, 0, {})
  BY DEF ReturnToResume
<1>3. /\ stack[f] \in Seq(Anything) /\ given \in Seq(Anything)
      /\ call[f].self = 0 /\ call[f].push \in Nat
  BY <1>1, FiberTyped, StoppedValues
<1>4. /\ copied \in Seq(Anything) /\ Len(copied) = call[f].push + 1
      /\ \A k \in 1 .. call[f].push + 1 : copied[k] = At(stack[f], k - 1)
  <2>1. /\ copied \in Seq(Anything)
        /\ call[f].push >= 0 - 1 => Len(copied) = call[f].push - 0 + 1
        /\ \A k \in 1 .. call[f].push - 0 + 1 :
              copied[k] = At(stack[f], 0 + k - 1 + call[f].self)
    <3>1. /\ stack[f] \in Seq(Anything) /\ 0 \in Nat
          /\ call[f].push \in Int /\ call[f].self \in {0, 1}
      BY <1>3
    <3> QED  BY <3>1, VarArgsAre
  <2>2. ASSUME NEW k \in 1 .. call[f].push + 1 PROVE copied[k] = At(stack[f], k - 1)
    <3>1. k \in 1 .. call[f].push - 0 + 1 /\ 0 + k - 1 + call[f].self = k - 1
      BY <1>3
    <3> QED  BY <3>1, <2>1
  <2> QED  BY <2>1, <2>2, <1>3
<1>5. /\ Orderly' /\ waits' = waits /\ deps' = deps
      /\ handed' = [how |-> "results", given |-> given, got |-> copied, slot |-> 0]
  BY <1>1, <1>2, <1>3, <1>4, ReturnAnswers
<1>6. Topmost(copied, Len(given)) = given
  <2>1. Len(given) <= call[f].push /\ Len(given) \in Nat
        /\ (given # <<>> => stack[f] = given /\ call[f].push = Len(given))
    <3>1. CASE doing[f] \in {"yielded", "ended"}
      BY <3>1, <1>1, <1>3, StoppedValues
    <3>2. CASE doing[f] \notin {"yielded", "ended"}
      <4>1. given = <<>>
        BY <3>2, <1>1, StoppedValues
      <4> QED  BY <4>1, <1>3
    <3> QED  BY <3>1, <3>2
  <2>2. Len(given) \in 0 .. Len(copied)
    BY <2>1, <1>3, <1>4
  <2>3. /\ Topmost(copied, Len(given)) \in Seq(Anything)
        /\ Len(Topmost(copied, Len(given))) = Len(given)
        /\ \A i \in 1 .. Len(given) :
              Topmost(copied, Len(given))[i] = copied[Len(copied) - Len(given) + i]
    BY <2>2, <1>4, TopmostIs
  <2>4. ASSUME NEW i \in 1 .. Len(given)
        PROVE  copied[Len(copied) - Len(given) + i] = given[i]
    <3>1. given # <<>>
      BY <1>3
    <3>2. stack[f] = given /\ call[f].push = Len(given)
      BY <2>1, <3>1
    <3> PICK k : k = i + 1
      OBVIOUS
    <3> PICK n : n = Len(given)
      OBVIOUS
    <3>3. Len(copied) - Len(given) + i = k /\ k \in 1 .. call[f].push + 1 /\ k - 1 = i
      <4>1. Len(copied) = n + 1 /\ n \in Nat /\ i \in 1 .. n /\ call[f].push = n
        BY <2>1, <3>2, <1>4
      <4>2. (n + 1) - n + i = i + 1 /\ i + 1 \in 1 .. n + 1 /\ (i + 1) - 1 = i
        BY <4>1
      <4> QED  BY <4>1, <4>2
    <3>4. copied[k] = At(stack[f], i)
      BY <3>3, <1>4
    <3>5. i \in Int /\ i \in 1 .. Len(stack[f])
      BY <3>2
    <3> QED  BY <3>2, <3>3, <3>4, <3>5, <1>3, AtIsValue
  <2>5. \A i \in 1 .. Len(given) : Topmost(copied, Len(given))[i] = given[i]
    BY <2>3, <2>4
  <2> QED  BY <2>3, <2>5, <1>3, SeqEqual
<1>7. DependantsWait' /\ OneDependency'
  BY <1>1, <1>5, DependantsStay DEF CallFramesInvariant
<1>8. HandedOK'
  <2>1. handed'.how = "results" /\ handed'.given = given /\ handed'.got = copied
    BY <1>5
  <2>2. ResultsArrive'
    BY <2>1, <1>6 DEF ResultsArrive, Topmost
  <2> QED  BY <2>1, <2>2 DEF HandedOK, ArgumentsArrive, ReadsArguments, DependantsGetResults
<1> QED  BY <1>5, <1>7, <1>8 DEF CallFramesInvariant, Orderly

-----------------------------------------------------------------------------
(* The theorems.                                                           *)

(* Nothing is active and every fiber is new at first.                      *)
LEMMA InitHolds ==
    ASSUME Init
    PROVE  CallFramesInvariant
<1>1. active = <<>> /\ Len(active) = 0 /\ Depth = {}
  BY DEF Init, Depth
<1>2. <<>> \in Seq(Values \cup Special) /\ <<>> \in Seq(Fibers) /\ <<>> \in Lists
      /\ <<>> \in Seq([fiber : Fibers, via : Vias])
  BY ListsAreSequences
<1>3. SetupReturn(-1, FALSE) \in Cursors
  BY DEF SetupReturn, Cursors
<1>4. TypeOK
  <2>1. /\ doing \in [Fibers -> States] /\ waits \in [Fibers -> Reasons]
        /\ first \in [Fibers -> {0, 1}]
    BY DEF Init, States, Reasons
  <2>2. stack \in [Fibers -> Seq(Values \cup Special)]
    BY <1>2 DEF Init
  <2>3. call \in [Fibers -> Cursors]
    BY <1>3 DEF Init
  <2>4. deps \in [Fibers -> Seq(Fibers)] /\ left \in [Fibers -> Lists]
    BY <1>2 DEF Init
  <2>5. handed.given \in Seq(Values \cup Special) /\ handed.got \in Seq(Values \cup Special)
    BY <1>2 DEF Init
  <2> QED  BY <1>1, <1>2, <2>1, <2>2, <2>3, <2>4, <2>5 DEF TypeOK
<1>5. ASSUME NEW f \in Fibers PROVE FrameOK(f) /\ LifeOK(f)
  <2>1. doing[f] = "fresh" /\ first[f] = 1 /\ waits[f] = "nothing"
    BY DEF Init
  <2> QED  BY <2>1 DEF FrameOK, LifeOK, Natives
<1>6. ActivationsOK /\ OneActivation
  BY <1>1 DEF ActivationsOK, OneActivation
<1>7. \A g \in Fibers : DOMAIN deps[g] = {}
  BY DEF Init
<1>8. DependantsWait /\ OneDependency
  BY <1>7 DEF DependantsWait, OneDependency
<1>9. HandedOK
  BY DEF Init, HandedOK, ArgumentsArrive, ReadsArguments, DependantsGetResults, ResultsArrive
<1> QED  BY <1>4, <1>5, <1>6, <1>8, <1>9 DEF CallFramesInvariant, FramesOK, LivesOK

(* A step of no fiber changes nothing that the invariant is about.         *)
LEMMA StutterHolds ==
    ASSUME CallFramesInvariant, UNCHANGED vars
    PROVE  CallFramesInvariant'
<1>1. /\ doing' = doing /\ waits' = waits /\ stack' = stack /\ call' = call
      /\ first' = first /\ deps' = deps /\ active' = active /\ handed' = handed
      /\ left' = left
  BY DEF vars
<1>2. TypeOK'
  BY <1>1 DEF CallFramesInvariant, TypeOK
<1>3. SameExcept({})
  BY <1>1 DEF SameExcept, Same
<1>4. FramesOK' /\ LivesOK'
  BY <1>3, OthersStayGood DEF CallFramesInvariant
<1>5. ActivationsOK' /\ OneActivation'
  BY <1>1 DEF CallFramesInvariant, ActivationsOK, ActivationOK, OneActivation, Depth
<1>6. Orderly'
  BY <1>2, <1>4, <1>5 DEF Orderly
<1> QED  BY <1>1, <1>6, QuietStep

(* Every action of a script, of native code, of the host and of Call keeps *)
(* the invariant.                                                          *)
LEMMA StepKeeps ==
    ASSUME CallFramesInvariant, [Next]_vars
    PROVE  CallFramesInvariant'
<1>1. CASE UNCHANGED vars
  BY <1>1, StutterHolds
<1>2. CASE Next
  <2> PICK f \in Fibers :
        \/ Start(f)
        \/ \E values \in Lists : Complete(f, values)
        \/ \E native \in Natives : \E args \in ArgumentsOf(native) :
              CallNative(f, native, args)
        \/ \E g \in Fibers : New(f, g) \/ Resume(f, g) \/ Depend(f, g)
        \/ NewRefused(f)
        \/ Await(f)
        \/ Sleep(f)
        \/ \E slot \in 1 .. MaxArgs + 1 :
              \/ \E pushed \in {<<>>} \cup {<<n>> : n \in Numbers} : Ask(f, slot, pushed)
              \/ AskEntity(f, slot)
        \/ \E values \in Lists : Finish(f, values) \/ Suspend(f, values)
        \/ \E locals \in 0 .. 1 : Throw(f, locals)
        \/ ContinueDependant(f)
        \/ ReturnToHost(f)
        \/ ReturnToNew(f)
        \/ ReturnToResume(f)
    BY <1>2 DEF Next
  <2>1. CASE Start(f)
    BY <2>1, StartKeeps
  <2>2. CASE \E values \in Lists : Complete(f, values)
    BY <2>2, CompleteKeeps
  <2>3. CASE \E native \in Natives : \E args \in ArgumentsOf(native) :
                CallNative(f, native, args)
    BY <2>3, CallKeeps
  <2>4. CASE \E g \in Fibers : New(f, g) \/ Resume(f, g) \/ Depend(f, g)
    BY <2>4, NewKeeps, ResumeKeeps, DependKeeps
  <2>5. CASE Await(f)
    BY <2>5, AwaitKeeps
  <2>6. CASE Sleep(f)
    BY <2>6, SleepKeeps
  <2>7. CASE \E slot \in 1 .. MaxArgs + 1 :
                \/ \E pushed \in {<<>>} \cup {<<n>> : n \in Numbers} : Ask(f, slot, pushed)
                \/ AskEntity(f, slot)
    BY <2>7, AskKeeps, AskEntityKeeps
  <2>8. CASE \E values \in Lists : Finish(f, values) \/ Suspend(f, values)
    BY <2>8, FinishKeeps, SuspendKeeps
  <2>9. CASE \E locals \in 0 .. 1 : Throw(f, locals)
    <3>1. \E locals \in Nat : Throw(f, locals)
      BY <2>9
    <3> QED  BY <3>1, ThrowKeeps
  <2>10. CASE ContinueDependant(f)
    BY <2>10, DependantKeeps
  <2>11. CASE ReturnToHost(f)
    BY <2>11, ReturnToHostKeeps
  <2>12. CASE ReturnToNew(f)
    BY <2>12, ReturnToNewKeeps
  <2>13. CASE ReturnToResume(f)
    BY <2>13, ReturnToResumeKeeps
  <2>14. CASE NewRefused(f)
    BY <2>14, NewRefusedKeeps
  <2> QED  BY <2>1, <2>2, <2>3, <2>4, <2>5, <2>6, <2>7, <2>8, <2>9, <2>10, <2>11,
              <2>12, <2>13, <2>14
<1> QED  BY <1>1, <1>2

(* What cursors, frames, activations and dependants say of each other is   *)
(* true for every number of fibers, nested to any depth (ScriptFiber.cpp,  *)
(* ScriptCall.h).                                                          *)
THEOREM FramesInductive == Spec => []CallFramesInvariant
<1>1. Init => CallFramesInvariant
  BY InitHolds
<1>2. CallFramesInvariant /\ [Next]_vars => CallFramesInvariant'
  BY StepKeeps
<1> QED  BY <1>1, <1>2, PTL DEF Spec

(* Whoever reads through a cursor reads the frame it was set up for: a     *)
(* native call its arguments, whatever is nested in it, and others what a  *)
(* fiber left when it stopped.                                             *)
THEOREM CursorsAgreeAlways == Spec => []CursorsAgree
<1>1. CallFramesInvariant => CursorsAgree
  BY DEF CallFramesInvariant, FramesOK, FrameOK, NativeFrame, StoppedFrame, CursorsAgree
<1> QED  BY <1>1, FramesInductive, PTL

(* A new fiber, a resumed one and a native method get every argument in    *)
(* its place, for argument lists of every length.                          *)
THEOREM ArgumentsArriveAlways == Spec => []ArgumentsArrive
<1>1. CallFramesInvariant => ArgumentsArrive
  BY DEF CallFramesInvariant, HandedOK
<1> QED  BY <1>1, FramesInductive, PTL

(* A dependant learns whether its fiber failed, and gets the results of    *)
(* one that did not, and nothing but nil of one that did.                  *)
THEOREM DependantsGetResultsAlways == Spec => []DependantsGetResults
<1>1. CallFramesInvariant => DependantsGetResults
  BY DEF CallFramesInvariant, HandedOK
<1> QED  BY <1>1, FramesInductive, PTL

(* The script that resumed a fiber gets all that the fiber left, at the    *)
(* end of its results.                                                     *)
THEOREM ResultsArriveAlways == Spec => []ResultsArrive
<1>1. CallFramesInvariant => ResultsArrive
  BY DEF CallFramesInvariant, HandedOK
<1> QED  BY <1>1, FramesInductive, PTL
=============================================================================
