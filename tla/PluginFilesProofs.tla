-------------------------- MODULE PluginFilesProofs --------------------------
(***************************************************************************)
(* Proofs about PluginFiles, for every number of fibers and files.         *)
(***************************************************************************)
EXTENDS PluginFilesInvariant, FiniteSetTheorems, SequenceTheorems, TLAPS

(* The bound is a number, and objects are neither fibers nor None.         *)
LEMMA Bounds == /\ MaxFibers \in Nat
                /\ None \notin Entities
                /\ \A e \in Entities : e \notin 1..MaxFibers
BY FibersAreNatural, NoneIsNoEntity, EntitiesAreNoFibers

USE Bounds

Activations(fibers) == [fiber: fibers, import: Entities \union {None},
                        phase: Phases, next: Nat, last: Nat]
LuaStates == {"running", "yielded", "ended", "freed"}
Waits == {"nothing", "callback", "file"}

-----------------------------------------------------------------------------
(* Vectors and the stack.                                                  *)

(* What the types say of vectors and stack, element by element.            *)
LEMMA Typed ==
    ASSUME TypeOK
    PROVE  /\ Len(lua) \in Nat /\ Len(lua) <= MaxFibers
           /\ Len(waits) = Len(lua) /\ Len(deps) = Len(lua)
           /\ lua \in Seq(LuaStates) /\ waits \in Seq(Waits)
           /\ deps \in Seq(Seq(Fibers \union Entities))
           /\ stack \in Seq(Activations(Fibers))
           /\ Len(stack) \in Nat /\ Depth = 1..Len(stack)
           /\ DOMAIN lua = Fibers /\ DOMAIN waits = Fibers /\ DOMAIN deps = Fibers
           /\ \A f \in Fibers :
                 /\ f \in Nat \ {0} /\ f \in 1..MaxFibers
                 /\ lua[f] \in LuaStates
                 /\ waits[f] \in Waits
                 /\ deps[f] \in Seq(Fibers \union Entities)
                 /\ Len(deps[f]) \in Nat /\ DOMAIN deps[f] = 1..Len(deps[f])
           /\ \A k \in Depth : stack[k] \in Activations(Fibers)
<1>1. /\ lua \in Seq(LuaStates) /\ waits \in Seq(Waits)
      /\ deps \in Seq(Seq(Fibers \union Entities))
      /\ stack \in Seq(Activations(Fibers))
      /\ Len(lua) <= MaxFibers /\ Len(waits) = Len(lua) /\ Len(deps) = Len(lua)
  BY DEF TypeOK, LuaStates, Waits, Activations
<1>2. /\ Len(lua) \in Nat /\ Len(stack) \in Nat /\ Depth = 1..Len(stack)
      /\ DOMAIN lua = Fibers /\ DOMAIN waits = Fibers /\ DOMAIN deps = Fibers
  BY <1>1, LenProperties DEF Fibers, Depth
<1>3. \A f \in Fibers : /\ f \in Nat \ {0} /\ f \in 1..MaxFibers
                        /\ lua[f] \in LuaStates /\ waits[f] \in Waits
                        /\ deps[f] \in Seq(Fibers \union Entities)
  BY <1>1, <1>2 DEF Fibers
<1>4. \A f \in Fibers : Len(deps[f]) \in Nat /\ DOMAIN deps[f] = 1..Len(deps[f])
  BY <1>3, LenProperties
<1>5. \A k \in Depth : stack[k] \in Activations(Fibers)
  BY <1>1, <1>2, ElementOfSeq
<1>. QED
  BY <1>1, <1>2, <1>3, <1>4, <1>5

(* The fields of an activation.                                            *)
LEMMA FieldsTyped ==
    ASSUME NEW S, NEW a \in Activations(S)
    PROVE  /\ a.fiber \in S /\ a.import \in Entities \union {None}
           /\ a.phase \in Phases /\ a.next \in Nat /\ a.last \in Nat
BY DEF Activations

(* More elements than needed do no harm.                                   *)
LEMMA SeqWidened ==
    ASSUME NEW S, NEW T, S \subseteq T, NEW s \in Seq(S)
    PROVE  s \in Seq(T)
OBVIOUS

(* An element more.                                                        *)
LEMMA Pushed ==
    ASSUME NEW S, NEW s \in Seq(S), NEW a \in S, NEW t, t = Append(s, a)
    PROVE  /\ t \in Seq(S)
           /\ Len(t) = Len(s) + 1 /\ t[Len(s) + 1] = a
           /\ \A k \in 1..Len(s) : t[k] = s[k]
OBVIOUS

(* All but the last element.                                               *)
LEMMA Popped ==
    ASSUME NEW S, NEW s \in Seq(S), s # <<>>, NEW t, t = SubSeq(s, 1, Len(s) - 1)
    PROVE  /\ t \in Seq(S)
           /\ Len(s) \in Nat \ {0} /\ Len(t) = Len(s) - 1
           /\ \A k \in 1..Len(s) - 1 : t[k] = s[k]
<1>1. Len(s) \in Nat \ {0}
  BY EmptySeq
<1>2. \A k \in 1..Len(s) - 1 : s[k] \in S
  BY <1>1, ElementOfSeq
<1>. PICK n : n = Len(s) - 1
  OBVIOUS
<1>3. n \in Int /\ 1 \in Int /\ n - 1 + 1 = n /\ n \in Nat
  BY <1>1
<1>4. \A k \in 1..n : s[k] \in S
  BY <1>2
<1>5. /\ SubSeq(s, 1, n) \in Seq(S)
      /\ Len(SubSeq(s, 1, n)) = IF 1 <= n THEN n - 1 + 1 ELSE 0
      /\ \A k \in 1..n - 1 + 1 : SubSeq(s, 1, n)[k] = s[1 + k - 1]
  BY <1>3, <1>4, SubSeqProperties
<1>. QED
  BY <1>1, <1>3, <1>5

(* The last element replaced.                                              *)
LEMMA TopReplaced ==
    ASSUME NEW S, NEW s \in Seq(S), s # <<>>, NEW a \in S,
           NEW t, t = Append(SubSeq(s, 1, Len(s) - 1), a)
    PROVE  /\ t \in Seq(S)
           /\ Len(s) \in Nat \ {0} /\ Len(t) = Len(s) /\ t[Len(s)] = a
           /\ \A k \in 1..Len(s) - 1 : t[k] = s[k]
<1>. PICK b : b = SubSeq(s, 1, Len(s) - 1)
  OBVIOUS
<1>1. /\ b \in Seq(S) /\ Len(s) \in Nat \ {0} /\ Len(b) = Len(s) - 1
      /\ \A k \in 1..Len(s) - 1 : b[k] = s[k]
  BY Popped
<1>2. t = Append(b, a)
  OBVIOUS
<1>3. /\ t \in Seq(S) /\ Len(t) = Len(b) + 1 /\ t[Len(b) + 1] = a
      /\ \A k \in 1..Len(b) : t[k] = b[k]
  BY <1>1, <1>2, Pushed
<1>. QED
  BY <1>1, <1>3

(* A vector with one element replaced.                                     *)
LEMMA Replaced ==
    ASSUME NEW S, NEW s \in Seq(S), NEW i \in 1..Len(s), NEW x \in S,
           NEW t, t = [s EXCEPT ![i] = x]
    PROVE  /\ t \in Seq(S) /\ Len(t) = Len(s) /\ t[i] = x
           /\ \A j \in 1..Len(s) \ {i} : t[j] = s[j]
OBVIOUS

-----------------------------------------------------------------------------
(* The dependants still to be continued.                                   *)

(* Activation k continues the dependants of g.                             *)
Loops(k, g) == stack[k].fiber = g /\ stack[k].phase = "dependants"

(* The same, by the activations that walk the list.                        *)
LEMMA OutstandingIs ==
    ASSUME NEW g
    PROVE  Outstanding(g) = {i \in DOMAIN deps[g] :
              \A k \in Depth : Loops(k, g) => i \in stack[k].next..stack[k].last}
BY DEF Outstanding, Loops, Depth

(* Unless its list or its loop changes, the same are outstanding.          *)
LEMMA SameOutstanding ==
    ASSUME NEW g, deps'[g] = deps[g],
           \A k \in Depth : Loops(k, g) =>
              \E j \in Depth' : Loops(j, g)' /\ stack'[j] = stack[k],
           \A k \in Depth' : Loops(k, g)' =>
              \E j \in Depth : Loops(j, g) /\ stack[j] = stack'[k]
    PROVE  Outstanding(g)' = Outstanding(g)
<1>1. Outstanding(g)' = {i \in DOMAIN deps'[g] :
         \A k \in Depth' : Loops(k, g)' => i \in stack'[k].next..stack'[k].last}
  BY DEF Outstanding, Loops, Depth
<1>2. \A i : (\A k \in Depth' : Loops(k, g)' => i \in stack'[k].next..stack'[k].last)
          <=> (\A k \in Depth : Loops(k, g) => i \in stack[k].next..stack[k].last)
  OBVIOUS
<1>. QED
  BY <1>1, <1>2, OutstandingIs

(* Loops that stay as they are.                                            *)
LoopsStay ==
    \A k : /\ k \in Depth /\ stack[k].phase = "dependants" =>
                 k \in Depth' /\ stack'[k] = stack[k]
           /\ k \in Depth' /\ stack'[k].phase = "dependants" =>
                 k \in Depth /\ stack'[k] = stack[k]

(* A list that stays has the same dependants outstanding.                  *)
LEMMA OutstandingKept ==
    ASSUME LoopsStay, NEW g, deps'[g] = deps[g]
    PROVE  Outstanding(g)' = Outstanding(g)
<1>1. \A k \in Depth : Loops(k, g) => k \in Depth' /\ Loops(k, g)' /\ stack'[k] = stack[k]
  BY DEF LoopsStay, Loops
<1>2. \A k \in Depth' : Loops(k, g)' => k \in Depth /\ Loops(k, g) /\ stack'[k] = stack[k]
  BY DEF LoopsStay, Loops
<1>. QED
  BY <1>1, <1>2, SameOutstanding

(* A dependant more is outstanding, unless the list is being walked.       *)
LEMMA OutstandingGrown ==
    ASSUME TypeOK, Activities, LoopsStay, NEW g \in Fibers, NEW f \in Fibers,
           deps'[g] = Append(deps[g], f)
    PROVE  \E m :
           /\ \A i \in Outstanding(g) : deps'[g][i] = deps[g][i]
           /\ m \notin Outstanding(g) /\ deps'[g][m] = f
           /\ \/ Outstanding(g)' = Outstanding(g) \union {m}
              \/ lua[g] = "ended" /\ Outstanding(g)' = Outstanding(g)
<1>. PICK n : n = Len(deps[g])
  OBVIOUS
<1>. PICK m : m = n + 1
  OBVIOUS
<1>1. /\ deps[g] \in Seq(Fibers \union Entities) /\ n \in Nat /\ DOMAIN deps[g] = 1..n
      /\ m = n + 1
  BY Typed
<1>2. /\ DOMAIN deps'[g] = 1..m /\ deps'[g][m] = f
      /\ \A i \in 1..n : deps'[g][i] = deps[g][i]
  <2>1. /\ deps'[g] \in Seq(Fibers \union Entities)
        /\ Len(deps'[g]) = n + 1 /\ deps'[g][n + 1] = f
        /\ \A i \in 1..n : deps'[g][i] = deps[g][i]
    BY <1>1, Pushed
  <2>. QED
    BY <1>1, <2>1, LenProperties
<1>3. \A k \in Depth : Loops(k, g) =>
         /\ lua[g] = "ended"
         /\ stack[k].last \in Nat /\ stack[k].next \in Nat /\ stack[k].last <= n
  BY Typed, FieldsTyped DEF Activities, ActivationSound, Loops
<1>4. Outstanding(g) = {i \in 1..n :
         \A k \in Depth : Loops(k, g) => i \in stack[k].next..stack[k].last}
  BY <1>1, OutstandingIs
<1>5. Outstanding(g)' = {i \in 1..m :
         \A k \in Depth' : Loops(k, g)' => i \in stack'[k].next..stack'[k].last}
  BY <1>2 DEF Outstanding, Loops, Depth
<1>6. \A k : /\ k \in Depth /\ Loops(k, g) => k \in Depth' /\ Loops(k, g)' /\ stack'[k] = stack[k]
             /\ k \in Depth' /\ Loops(k, g)' => k \in Depth /\ Loops(k, g) /\ stack'[k] = stack[k]
  BY DEF LoopsStay, Loops
<1>7. Outstanding(g)' = {i \in 1..m :
         \A k \in Depth : Loops(k, g) => i \in stack[k].next..stack[k].last}
  BY <1>5, <1>6
<1>8. 1..m = 1..n \union {m} /\ m \notin 1..n
  BY <1>1
<1>9. CASE \E k \in Depth : Loops(k, g)
  <2>. PICK k \in Depth : Loops(k, g)
    BY <1>9
  <2>1. m \notin stack[k].next..stack[k].last
    BY <1>1, <1>3
  <2>2. Outstanding(g)' = Outstanding(g)
    BY <1>4, <1>7, <1>8, <2>1
  <2>. QED
    BY <1>2, <1>3, <1>4, <1>8, <2>2
<1>10. CASE ~\E k \in Depth : Loops(k, g)
  BY <1>2, <1>4, <1>7, <1>8, <1>10
<1>. QED
  BY <1>9, <1>10

-----------------------------------------------------------------------------
(* What waits for a file is in one list: how the lists may change.         *)

(* Who is outstanding is a fiber that waits for a file.                    *)
LEMMA OutstandingAreFibers ==
    ASSUME Lists, NEW g \in Fibers, NEW i \in Outstanding(g)
    PROVE  deps[g][i] \in Fibers /\ waits[deps[g][i]] = "file"
BY DEF Lists, ListSound, Outstanding

FibersStay ==
    /\ Fibers \subseteq Fibers'
    /\ \A g \in Fibers' \ Fibers : Outstanding(g)' = {} /\ waits'[g] # "file"
    /\ \A g \in Fibers' : \A i \in DOMAIN deps'[g] : deps'[g][i] \in Fibers'
    /\ breached => breached'

(* The same are outstanding.                                               *)
LEMMA ListsKept ==
    ASSUME Lists, FibersStay,
           \A g \in Fibers : /\ Outstanding(g)' = Outstanding(g)
                             /\ \A i \in Outstanding(g) : deps'[g][i] = deps[g][i],
           \A f \in Fibers : waits'[f] = "file" <=> waits[f] = "file"
    PROVE  Lists'
<1>1. ASSUME NEW g \in Fibers'
      PROVE  ListSound(g)'
  <2>1. ASSUME NEW i \in Outstanding(g)'
        PROVE  waits'[deps'[g][i]] = "file"
    BY <1>1, <2>1, OutstandingAreFibers DEF FibersStay
  <2>. QED
    BY <2>1 DEF ListSound, FibersStay
<1>2. WaitsOnce'
  BY DEF Lists, WaitsOnce, FibersStay
<1>3. NoneForgotten'
  BY DEF Lists, NoneForgotten, FibersStay
<1>. QED
  BY <1>1, <1>2, <1>3 DEF Lists

(* The dependant d, at i of g, is continued.                               *)
LEMMA ListsConsumed ==
    ASSUME Lists, FibersStay, Fibers' = Fibers, NEW g \in Fibers, NEW i \in Outstanding(g),
           \A h \in Fibers : deps'[h] = deps[h],
           Outstanding(g)' = Outstanding(g) \ {i},
           \A h \in Fibers \ {g} : Outstanding(h)' = Outstanding(h),
           waits'[deps[g][i]] # "file",
           \A f \in Fibers \ {deps[g][i]} : waits'[f] = waits[f]
    PROVE  Lists'
<1>1. ASSUME NEW h \in Fibers
      PROVE  ListSound(h)'
  <2>1. ASSUME NEW j \in Outstanding(h)'
        PROVE  waits'[deps'[h][j]] = "file"
    <3>1. j \in Outstanding(h) /\ ~(h = g /\ j = i)
      BY <2>1
    <3>2. deps[h][j] # deps[g][i]
      BY <3>1 DEF Lists, WaitsOnce
    <3>. QED
      BY <3>1, <3>2, OutstandingAreFibers
  <2>. QED
    BY <2>1 DEF ListSound, FibersStay
<1>2. \A h \in Fibers : Outstanding(h)' \subseteq Outstanding(h)
  OBVIOUS
<1>3. WaitsOnce'
  BY <1>2 DEF Lists, WaitsOnce
<1>4. ASSUME ~breached', NEW f \in Fibers, waits'[f] = "file"
      PROVE  \E h \in Fibers : \E j \in Outstanding(h)' : deps'[h][j] = f
  <2>1. f # deps[g][i] /\ waits[f] = "file"
    BY <1>4
  <2>2. PICK h \in Fibers : \E j \in Outstanding(h) : deps[h][j] = f
    BY <1>4, <2>1 DEF Lists, NoneForgotten, FibersStay
  <2>. PICK j \in Outstanding(h) : deps[h][j] = f
    BY <2>2
  <2>3. j \in Outstanding(h)'
    BY <2>1, <2>2
  <2>. QED
    BY <2>2, <2>3
<1>5. NoneForgotten'
  BY <1>4 DEF NoneForgotten
<1>. QED
  BY <1>1, <1>3, <1>5 DEF Lists

(* A fiber that waited for no file waits for g, in whose list it is last.  *)
LEMMA ListsGrown ==
    ASSUME Lists, FibersStay, Fibers' = Fibers, NEW g \in Fibers, NEW f \in Fibers, NEW m,
           waits[f] # "file", waits'[f] = "file",
           \A h \in Fibers \ {f} : waits'[h] = waits[h],
           \A h \in Fibers \ {g} : Outstanding(h)' = Outstanding(h) /\ deps'[h] = deps[h],
           \A i \in Outstanding(g) : deps'[g][i] = deps[g][i],
           m \notin Outstanding(g), deps'[g][m] = f,
           \/ Outstanding(g)' = Outstanding(g) \union {m}
           \/ breached' /\ Outstanding(g)' = Outstanding(g)
    PROVE  Lists'
<1>1. ASSUME NEW h \in Fibers, NEW i \in Outstanding(h)'
      PROVE  \/ /\ i \in Outstanding(h) /\ deps'[h][i] = deps[h][i] /\ deps[h][i] # f
                /\ deps[h][i] \in Fibers /\ waits'[deps[h][i]] = "file"
             \/ h = g /\ i = m /\ deps'[h][i] = f
  BY <1>1, OutstandingAreFibers
<1>2. \A h \in Fibers : ListSound(h)'
  BY <1>1 DEF ListSound, FibersStay
<1>3. WaitsOnce'
  BY <1>1 DEF Lists, WaitsOnce
<1>4. NoneForgotten'
  <2>1. SUFFICES ASSUME ~breached', NEW h \in Fibers, waits'[h] = "file"
                 PROVE  \E j \in Fibers : \E i \in Outstanding(j)' : deps'[j][i] = h
    BY DEF NoneForgotten
  <2>2. CASE h = f
    BY <2>1, <2>2
  <2>3. CASE h # f
    <3>1. PICK j \in Fibers : \E i \in Outstanding(j) : deps[j][i] = h
      BY <2>1, <2>3 DEF Lists, NoneForgotten, FibersStay
    <3>. PICK i \in Outstanding(j) : deps[j][i] = h
      BY <3>1
    <3>2. i \in Outstanding(j)' /\ deps'[j][i] = h
      BY <3>1
    <3>. QED
      BY <3>2
  <2>. QED
    BY <2>2, <2>3
<1>. QED
  BY <1>2, <1>3, <1>4 DEF Lists

-----------------------------------------------------------------------------
(* Types, in two parts.                                                    *)

VectorsOK ==
    /\ lua \in Seq(LuaStates) /\ Len(lua) <= MaxFibers
    /\ waits \in Seq(Waits) /\ Len(waits) = Len(lua)
    /\ deps \in Seq(Seq(Fibers \union Entities)) /\ Len(deps) = Len(lua)
    /\ stack \in Seq(Activations(Fibers))

EntitiesOK ==
    /\ started \in [Entities -> BOOLEAN] /\ finished \in [Entities -> BOOLEAN]
    /\ handle \in [Entities -> {0} \union Fibers]
    /\ runs \in [Entities -> Nat]
    /\ breached \in BOOLEAN /\ fault \in BOOLEAN

(* Together they are the types.                                            *)
LEMMA TypesAre == /\ TypeOK <=> VectorsOK /\ EntitiesOK
                  /\ TypeOK' <=> VectorsOK' /\ EntitiesOK'
BY DEF TypeOK, VectorsOK, EntitiesOK, LuaStates, Waits, Activations

-----------------------------------------------------------------------------
(* A new fiber starts running, in a script that imports or from nowhere.   *)
LEMMA BirthPreserves ==
    ASSUME TypeOK, Activities, Lists, NEW e \in Entities \union {None}, NewFiber(e),
           stack = <<>> \/ Top.phase = "script",
           e # None => stack # <<>>,
           breached' = breached
    PROVE  VectorsOK' /\ Activities' /\ Lists' /\ Fibers' = Fibers \union {Len(lua) + 1}
<1>. PICK n : n = Len(lua) + 1
  OBVIOUS
<1>. PICK t : t = Len(stack) + 1
  OBVIOUS
<1>1. /\ n \in Nat \ {0} /\ n <= MaxFibers /\ n \notin Fibers /\ Len(lua) = n - 1
      /\ Len(waits) = n - 1 /\ Len(deps) = n - 1 /\ Fibers = 1..n - 1
      /\ t \in Nat \ {0} /\ Len(stack) = t - 1 /\ Depth = 1..t - 1
  BY Typed DEF NewFiber, Fibers
<1>2. /\ lua' \in Seq(LuaStates) /\ Len(lua') = n /\ lua'[n] = "running"
      /\ \A f \in Fibers : lua'[f] = lua[f]
  BY <1>1, Typed, Pushed DEF NewFiber, LuaStates
<1>3. /\ waits' \in Seq(Waits) /\ Len(waits') = n /\ waits'[n] = "nothing"
      /\ \A f \in Fibers : waits'[f] = waits[f]
  BY <1>1, Typed, Pushed DEF NewFiber, Waits
<1>4. Fibers' = 1..n /\ Fibers' = Fibers \union {n} /\ Fibers \subseteq Fibers'
  BY <1>1, <1>2 DEF Fibers
<1>5. /\ deps' \in Seq(Seq(Fibers' \union Entities)) /\ Len(deps') = n /\ deps'[n] = <<>>
      /\ \A f \in Fibers : deps'[f] = deps[f]
  <2>1. Seq(Fibers \union Entities) \subseteq Seq(Fibers' \union Entities)
    BY <1>4
  <2>2. deps \in Seq(Seq(Fibers' \union Entities))
    BY <2>1, Typed, SeqWidened
  <2>3. <<>> \in Seq(Fibers' \union Entities)
    OBVIOUS
  <2>4. deps' = Append(deps, <<>>)
    BY DEF NewFiber
  <2>. QED
    BY <1>1, <2>2, <2>3, <2>4, Pushed
<1>. PICK a : a = Activation(n, e)
  OBVIOUS
<1>6. /\ a.fiber = n /\ a.import = e /\ a.phase = "script" /\ a.next = 1 /\ a.last = 0
      /\ a \in Activations(Fibers')
  BY <1>4, <1>1 DEF Activation, Activations, Phases
<1>7. /\ stack' \in Seq(Activations(Fibers')) /\ Len(stack') = t /\ stack'[t] = a
      /\ \A k \in Depth : stack'[k] = stack[k]
  <2>1. Activations(Fibers) \subseteq Activations(Fibers')
    BY <1>4 DEF Activations
  <2>2. stack \in Seq(Activations(Fibers'))
    BY <2>1, Typed, SeqWidened
  <2>3. stack' = Append(stack, a)
    BY DEF NewFiber
  <2>. QED
    BY <1>1, <1>6, <2>2, <2>3, Pushed
<1>8. Depth' = 1..t /\ Depth' = Depth \union {t} /\ t \notin Depth
  BY <1>1, <1>7, LenProperties DEF Depth
<1>9. VectorsOK'
  BY <1>1, <1>2, <1>3, <1>5, <1>7 DEF VectorsOK
<1>10. \A k \in Depth : /\ stack[k].fiber \in Fibers /\ stack[k].fiber # n
                        /\ stack[k].phase # "yielded"
  <2>1. \A k \in Depth : stack[k].fiber \in Fibers
    BY Typed, FieldsTyped
  <2>2. ASSUME NEW k \in Depth, stack[k].phase = "yielded"
        PROVE  FALSE
    <3>1. k = Len(stack)
      BY <2>2 DEF Activities, ActivationSound
    <3>2. stack # <<>>
      BY <1>1, <2>2, <3>1
    <3>. QED
      BY <2>2, <3>1, <3>2 DEF Top
  <2>. QED
    BY <1>1, <2>1, <2>2
<1>11. OneActivation'
  BY <1>6, <1>7, <1>8, <1>10 DEF Activities, OneActivation
<1>12. ASSUME NEW k \in Depth'
       PROVE  ActivationSound(k)'
  <2>1. CASE k = t
    <3>1. e # None => t > 1 /\ t - 1 \in Depth /\ stack'[t - 1].phase = "script"
      <4>1. ASSUME e # None
            PROVE  t > 1 /\ t - 1 \in Depth /\ stack[t - 1].phase = "script"
        <5>1. t # 1
          BY <1>1, <4>1, Typed, EmptySeq
        <5>. QED
          BY <1>1, <4>1, <5>1 DEF Top
      <4>. QED
        BY <1>7, <4>1
    <3>. QED
      BY <1>2, <1>6, <1>7, <2>1, <3>1 DEF ActivationSound
  <2>2. CASE k \in Depth
    <3>1. ActivationSound(k) /\ stack'[k] = stack[k] /\ stack[k].phase # "yielded"
      BY <1>7, <1>10, <2>2 DEF Activities
    <3>2. lua'[stack[k].fiber] = lua[stack[k].fiber] /\ deps'[stack[k].fiber] = deps[stack[k].fiber]
      BY <1>2, <1>5, <1>10, <2>2
    <3>3. k > 1 => k - 1 \in Depth /\ stack'[k - 1] = stack[k - 1]
      BY <1>1, <1>7, <2>2
    <3>. QED
      BY <3>1, <3>2, <3>3 DEF ActivationSound
  <2>. QED
    BY <1>8, <2>1, <2>2
<1>13. ASSUME NEW f \in Fibers'
       PROVE  FiberSound(f)'
  <2>1. CASE f = n
    BY <1>2, <1>3, <1>6, <1>7, <1>8, <2>1 DEF FiberSound
  <2>2. CASE f \in Fibers
    BY <1>2, <1>3, <1>7, <1>8, <2>2 DEF Activities, FiberSound
  <2>. QED
    BY <1>4, <2>1, <2>2
<1>14. LoopsStay
  BY <1>6, <1>7, <1>8 DEF LoopsStay
<1>15. \A g \in Fibers : Outstanding(g)' = Outstanding(g)
  BY <1>5, <1>14, OutstandingKept
<1>16. FibersStay
  <2>1. Outstanding(n)' = {}
    BY <1>5 DEF Outstanding
  <2>2. \A i \in DOMAIN deps'[n] : FALSE
    BY <1>5
  <2>3. \A g \in Fibers : \A i \in DOMAIN deps'[g] : deps'[g][i] \in Fibers'
    BY <1>4, <1>5 DEF Lists, ListSound
  <2>. QED
    BY <1>3, <1>4, <2>1, <2>2, <2>3 DEF FibersStay
<1>17. Lists'
  BY <1>3, <1>5, <1>15, <1>16, ListsKept
<1>. QED
  BY <1>4, <1>9, <1>11, <1>12, <1>13, <1>17 DEF Activities

-----------------------------------------------------------------------------
(* A fiber that has yielded goes on, above activations none of which is    *)
(* its own or about to return, and of which one may have got further.      *)
LEMMA WakePreserves ==
    ASSUME TypeOK, Activities, NEW f \in Fibers, lua[f] = "yielded",
           \A k \in Depth : stack[k].fiber # f /\ stack[k].phase # "yielded",
           NEW below \in Seq(Activations(Fibers)), Len(below) = Len(stack),
           \A k \in Depth :
              /\ below[k].fiber = stack[k].fiber /\ below[k].import = stack[k].import
              /\ below[k].phase = stack[k].phase /\ below[k].last = stack[k].last
              /\ below[k].next >= stack[k].next
              /\ stack[k].phase = "script" => below[k].next = stack[k].next,
           Continue(f, below), deps' = deps
    PROVE  /\ VectorsOK' /\ Activities' /\ Fibers' = Fibers
           /\ waits'[f] = "nothing" /\ \A g \in Fibers \ {f} : waits'[g] = waits[g]
           /\ Depth' = Depth \union {Len(stack) + 1} /\ Len(stack) + 1 \notin Depth
           /\ stack'[Len(stack) + 1].phase = "script"
           /\ \A k \in Depth : stack'[k] = below[k]
<1>. PICK t : t = Len(stack) + 1
  OBVIOUS
<1>. PICK a : a = Activation(f, None)
  OBVIOUS
<1>1. t \in Nat \ {0} /\ Len(stack) = t - 1 /\ Depth = 1..t - 1 /\ Fibers = 1..Len(lua)
  BY Typed DEF Fibers
<1>2. /\ lua' \in Seq(LuaStates) /\ Len(lua') = Len(lua) /\ lua'[f] = "running"
      /\ \A g \in Fibers \ {f} : lua'[g] = lua[g]
  BY <1>1, Typed, Replaced DEF Continue, LuaStates
<1>3. /\ waits' \in Seq(Waits) /\ Len(waits') = Len(waits) /\ waits'[f] = "nothing"
      /\ \A g \in Fibers \ {f} : waits'[g] = waits[g]
  BY <1>1, Typed, Replaced DEF Continue, Waits
<1>4. Fibers' = Fibers
  BY <1>2 DEF Fibers
<1>5. /\ a.fiber = f /\ a.import = None /\ a.phase = "script" /\ a.next = 1 /\ a.last = 0
      /\ a \in Activations(Fibers)
  BY DEF Activation, Activations, Phases
<1>6. /\ stack' \in Seq(Activations(Fibers)) /\ Len(stack') = t /\ stack'[t] = a
      /\ \A k \in Depth : stack'[k] = below[k]
  <2>1. stack' = Append(below, a)
    BY DEF Continue
  <2>. QED
    BY <1>1, <1>5, <2>1, Pushed
<1>7. Depth' = 1..t /\ Depth' = Depth \union {t} /\ t \notin Depth
  BY <1>1, <1>6, LenProperties DEF Depth
<1>8. VectorsOK'
  BY <1>2, <1>3, <1>4, <1>6, Typed DEF VectorsOK
<1>9. OneActivation'
  BY <1>5, <1>6, <1>7 DEF Activities, OneActivation
<1>10. ASSUME NEW k \in Depth'
       PROVE  ActivationSound(k)'
  <2>1. CASE k = t
    BY <1>2, <1>5, <1>6, <2>1 DEF ActivationSound
  <2>2. CASE k \in Depth
    <3>1. ActivationSound(k)
      BY <2>2 DEF Activities
    <3>2. /\ stack[k].fiber \in Fibers \ {f} /\ stack[k].next \in Nat /\ stack[k].phase # "yielded"
          /\ below[k].next \in Nat
      BY <2>2, <1>1, Typed, FieldsTyped, ElementOfSeq
    <3>3. lua'[stack[k].fiber] = lua[stack[k].fiber]
      BY <1>2, <3>2
    <3>4. /\ stack'[k].fiber = stack[k].fiber /\ stack'[k].import = stack[k].import
          /\ stack'[k].phase = stack[k].phase /\ stack'[k].last = stack[k].last
          /\ stack'[k].next >= stack[k].next /\ stack'[k].next \in Nat
          /\ stack[k].phase = "script" => stack'[k].next = stack[k].next
      BY <1>6, <2>2, <3>2
    <3>5. k > 1 => k - 1 \in Depth /\ stack'[k - 1].phase = stack[k - 1].phase
      BY <1>1, <1>6, <2>2
    <3>. QED
      BY <3>1, <3>2, <3>3, <3>4, <3>5 DEF ActivationSound
  <2>. QED
    BY <1>7, <2>1, <2>2
<1>11. ASSUME NEW g \in Fibers
       PROVE  FiberSound(g)'
  <2>1. CASE g = f
    BY <1>2, <1>3, <1>5, <1>6, <1>7, <2>1 DEF FiberSound
  <2>2. CASE g # f
    <3>1. lua'[g] = lua[g] /\ waits'[g] = waits[g]
      BY <1>2, <1>3, <2>2
    <3>2. \A k \in Depth : k \in Depth' /\ stack'[k].fiber = stack[k].fiber
      BY <1>6, <1>7
    <3>. QED
      BY <3>1, <3>2 DEF Activities, FiberSound
  <2>. QED
    BY <2>1, <2>2
<1>. QED
  BY <1>3, <1>4, <1>5, <1>6, <1>7, <1>8, <1>9, <1>10, <1>11 DEF Activities

(* The loop calls back, when no script runs.                               *)
LEMMA CompletePreserves ==
    ASSUME TypeOK, Activities, Lists, NEW f, Complete(f)
    PROVE  VectorsOK' /\ Activities' /\ Lists' /\ Fibers' = Fibers
<1>1. /\ f \in Fibers /\ waits[f] = "callback" /\ Continue(f, stack) /\ stack = <<>>
      /\ deps' = deps /\ breached' = breached
  BY DEF Complete, Idle
<1>2. Depth = {} /\ stack \in Seq(Activations(Fibers)) /\ Len(stack) = 0
  BY <1>1, Typed
<1>3. lua[f] = "yielded"
  BY <1>1 DEF Activities, FiberSound
<1>4. /\ VectorsOK' /\ Activities' /\ Fibers' = Fibers
      /\ waits'[f] = "nothing" /\ \A g \in Fibers \ {f} : waits'[g] = waits[g]
      /\ Depth' = {1} /\ stack'[1].phase = "script"
  <2>1. /\ VectorsOK' /\ Activities' /\ Fibers' = Fibers
        /\ waits'[f] = "nothing" /\ \A g \in Fibers \ {f} : waits'[g] = waits[g]
        /\ Depth' = Depth \union {Len(stack) + 1}
        /\ stack'[Len(stack) + 1].phase = "script"
    BY <1>1, <1>2, <1>3, WakePreserves
  <2>. QED
    BY <1>2, <2>1
<1>5. LoopsStay
  BY <1>2, <1>4 DEF LoopsStay
<1>6. \A g \in Fibers : Outstanding(g)' = Outstanding(g)
  BY <1>1, <1>5, OutstandingKept
<1>7. FibersStay
  BY <1>1, <1>4 DEF FibersStay, Lists, ListSound
<1>8. Lists'
  BY <1>1, <1>4, <1>6, <1>7, ListsKept
<1>. QED
  BY <1>4, <1>8

(* One turn of the loop over the dependants.  Whoever is there waits for   *)
(* the file, so it is not deleted, and no object is among them.            *)
LEMMA ContinuePreserves ==
    ASSUME TypeOK, Activities, Lists, ContinueDependant
    PROVE  /\ VectorsOK' /\ Activities' /\ Lists' /\ Fibers' = Fibers
           /\ UNCHANGED <<finished, fault>>
<1>. PICK t : t = Len(stack)
  OBVIOUS
<1>. PICK a : a = stack[t]
  OBVIOUS
<1>. PICK g : g = a.fiber
  OBVIOUS
<1>. PICK i : i = a.next
  OBVIOUS
<1>. PICK d : d = deps[g][i]
  OBVIOUS
<1>b. PICK b : b = [a EXCEPT !.next = i + 1]
  OBVIOUS
<1>c. PICK below : below = Append(Below, b)
  OBVIOUS
<1>1. /\ stack # <<>> /\ ~fault /\ a.phase = "dependants" /\ i <= a.last
      /\ IF d \in Entities
           THEN KeepResults(d) /\ stack' = below /\ UNCHANGED <<lua, waits, fault>>
           ELSE Continue(d, below) /\ fault' = (lua[d] = "freed") /\ UNCHANGED finished
      /\ deps' = deps /\ breached' = breached
  BY <1>b, <1>c DEF ContinueDependant, Top
<1>2. t \in Depth /\ t \in Nat \ {0} /\ Depth = 1..t
  BY <1>1, Typed, EmptySeq
<1>3. /\ a \in Activations(Fibers) /\ g \in Fibers /\ i \in Nat /\ a.last \in Nat
      /\ a.import \in Entities \union {None}
  BY <1>2, Typed, FieldsTyped
<1>4. lua[g] = "ended" /\ i >= 1 /\ a.last <= Len(deps[g])
  BY <1>1, <1>2 DEF Activities, ActivationSound
<1>5. Loops(t, g) /\ \A k \in Depth : Loops(k, g) => k = t
  BY <1>1, <1>2 DEF Loops, Activities, OneActivation
<1>6. DOMAIN deps[g] = 1..Len(deps[g]) /\ Len(deps[g]) \in Nat
  BY <1>3, Typed
<1>7. Outstanding(g) = i..a.last
  <2>1. Outstanding(g) = {j \in 1..Len(deps[g]) : j \in i..a.last}
    BY <1>2, <1>5, <1>6, OutstandingIs
  <2>. QED
    BY <1>3, <1>4, <1>6, <2>1
<1>8. d \in Fibers /\ waits[d] = "file" /\ i \in Outstanding(g)
  <2>1. i \in Outstanding(g)
    BY <1>1, <1>3, <1>7
  <2>. QED
    BY <1>3, <2>1, OutstandingAreFibers
<1>9. d \notin Entities
  BY <1>8, Typed
<1>10. lua[d] = "yielded"
  BY <1>8 DEF Activities, FiberSound
<1>11. Continue(d, below) /\ fault' = fault /\ UNCHANGED finished
  <2>1. fault \in BOOLEAN /\ fault' = FALSE
    BY <1>1, <1>9, <1>10 DEF TypeOK
  <2>. QED
    BY <1>1, <1>9, <2>1
<1>12. \A k \in Depth : stack[k].fiber # d /\ stack[k].phase # "yielded"
  <2>1. ASSUME NEW k \in Depth, stack[k].phase = "yielded"
        PROVE  FALSE
    <3>1. k = t
      BY <2>1 DEF Activities, ActivationSound
    <3>. QED
      BY <1>1, <2>1, <3>1
  <2>2. ASSUME NEW k \in Depth, stack[k].fiber = d
        PROVE  FALSE
    <3>1. stack[k].phase \in Phases /\ stack[k].phase # "yielded"
      BY <2>1, Typed, FieldsTyped
    <3>. QED
      BY <1>10, <2>2, <3>1 DEF Phases, Activities, ActivationSound
  <2>. QED
    BY <2>1, <2>2
<1>13. /\ b \in Activations(Fibers)
       /\ b.fiber = g /\ b.import = a.import /\ b.phase = "dependants" /\ b.last = a.last
       /\ b.next = i + 1
  BY <1>1, <1>3, <1>b DEF Activations
<1>14. /\ below \in Seq(Activations(Fibers)) /\ Len(below) = t /\ below[t] = b
       /\ \A k \in 1..t - 1 : below[k] = stack[k]
  <2>1. below = Append(SubSeq(stack, 1, Len(stack) - 1), b)
    BY <1>c DEF Below
  <2>2. stack \in Seq(Activations(Fibers))
    BY Typed
  <2>3. stack # <<>> /\ b \in Activations(Fibers)
    BY <1>1, <1>13
  <2>. QED
    BY <2>1, <2>2, <2>3, TopReplaced
<1>15. \A k \in Depth :
          /\ below[k].fiber = stack[k].fiber /\ below[k].import = stack[k].import
          /\ below[k].phase = stack[k].phase /\ below[k].last = stack[k].last
          /\ below[k].next >= stack[k].next
          /\ stack[k].phase = "script" => below[k].next = stack[k].next
  <2>1. ASSUME NEW k \in Depth, k # t
        PROVE  below[k] = stack[k] /\ stack[k].next \in Nat
    <3>1. k \in 1..t - 1
      BY <1>2, <2>1
    <3>2. stack[k].next \in Nat
      BY <2>1, Typed, FieldsTyped
    <3>. QED
      BY <1>14, <3>1, <3>2
  <2>2. b.next >= a.next
    BY <1>3, <1>13
  <2>3. below[t] = b /\ a.phase # "script"
    BY <1>1, <1>14
  <2>. QED
    BY <1>1, <1>13, <2>1, <2>2, <2>3
<1>16. /\ VectorsOK' /\ Activities' /\ Fibers' = Fibers
       /\ waits'[d] = "nothing" /\ \A h \in Fibers \ {d} : waits'[h] = waits[h]
       /\ Depth' = Depth \union {t + 1} /\ t + 1 \notin Depth
       /\ stack'[t + 1].phase = "script"
       /\ \A k \in Depth : stack'[k] = below[k]
  <2>1. Len(below) = Len(stack) /\ below \in Seq(Activations(Fibers))
    BY <1>14
  <2>2. Continue(d, below) /\ deps' = deps
    BY <1>1, <1>11
  <2>. QED
    BY <1>8, <1>10, <1>12, <1>15, <2>1, <2>2, WakePreserves
<1>17a. /\ Depth' = Depth \union {t + 1} /\ t \in Depth /\ t + 1 \notin Depth
        /\ stack'[t] = b /\ stack'[t + 1].phase = "script"
        /\ \A k \in Depth \ {t} : stack'[k] = stack[k]
  <2>1. \A k \in Depth \ {t} : k \in 1..t - 1
    BY <1>2
  <2>. QED
    BY <1>2, <1>14, <1>16, <2>1
<1>17. Outstanding(g)' = Outstanding(g) \ {i}
  <2>1. Loops(t, g)' /\ \A k \in Depth' : Loops(k, g)' => k = t
    BY <1>1, <1>5, <1>13, <1>17a DEF Loops
  <2>2. stack'[t].next = i + 1 /\ stack'[t].last = a.last /\ t \in Depth'
    BY <1>13, <1>17a
  <2>3. Outstanding(g)' = {j \in 1..Len(deps[g]) : j \in i + 1..a.last}
    BY <1>1, <1>6, <2>1, <2>2 DEF Outstanding, Loops, Depth
  <2>. QED
    BY <1>3, <1>4, <1>6, <1>7, <2>3
<1>18. ASSUME NEW h \in Fibers, h # g
       PROVE  Outstanding(h)' = Outstanding(h)
  <2>1. deps'[h] = deps[h]
    BY <1>1
  <2>2. \A k \in Depth : Loops(k, h) => k \in Depth' /\ Loops(k, h)' /\ stack'[k] = stack[k]
    BY <1>5, <1>17a, <1>18 DEF Loops
  <2>3. \A k \in Depth' : Loops(k, h)' => k \in Depth /\ Loops(k, h) /\ stack'[k] = stack[k]
    BY <1>13, <1>17a, <1>18 DEF Loops
  <2>. QED
    BY <2>1, <2>2, <2>3, SameOutstanding
<1>19. FibersStay
  BY <1>1, <1>16 DEF FibersStay, Lists, ListSound
<1>20. Lists'
  BY <1>1, <1>3, <1>8, <1>16, <1>17, <1>18, <1>19, ListsConsumed
<1>. QED
  BY <1>11, <1>16, <1>20

-----------------------------------------------------------------------------
(* The fiber of activation a, at t, yields, as those above it have; the    *)
(* lists may grow.                                                         *)
YieldsAt(t, a, below, what) ==
    /\ what \in {"callback", "file"}
    /\ t \in Depth /\ a = stack[t] /\ a.phase = "script"
    /\ \A k \in Depth : k > t => stack[k].phase = "yielded"
    /\ below \in Seq(Activations(Fibers)) /\ Len(below) = t - 1
    /\ \A k \in 1..t - 1 : below[k] = stack[k]
    /\ YieldFor(what, below, a)
    /\ deps' \in Seq(Seq(Fibers \union Entities)) /\ Len(deps') = Len(deps)
    /\ \A g \in Fibers : Len(deps'[g]) \in Nat /\ Len(deps'[g]) >= Len(deps[g])

(* What fits together before fits after it, but for the lists.             *)
LEMMA YieldPreserves ==
    ASSUME TypeOK, Activities, NEW t, NEW a, NEW below, NEW what, YieldsAt(t, a, below, what)
    PROVE  /\ VectorsOK' /\ Activities' /\ Fibers' = Fibers /\ LoopsStay
           /\ a.fiber \in Fibers /\ lua[a.fiber] = "running"
           /\ waits[a.fiber] = "nothing" /\ waits'[a.fiber] = what
           /\ \A g \in Fibers \ {a.fiber} : waits'[g] = waits[g]
<1>. PICK f : f = a.fiber
  OBVIOUS
<1>b. PICK b : b = [a EXCEPT !.phase = "yielded"]
  OBVIOUS
<1>0. /\ what \in {"callback", "file"}
      /\ t \in Depth /\ a = stack[t] /\ a.phase = "script"
      /\ \A k \in Depth : k > t => stack[k].phase = "yielded"
      /\ below \in Seq(Activations(Fibers)) /\ Len(below) = t - 1
      /\ \A k \in 1..t - 1 : below[k] = stack[k]
      /\ deps' \in Seq(Seq(Fibers \union Entities)) /\ Len(deps') = Len(deps)
      /\ \A g \in Fibers : Len(deps'[g]) \in Nat /\ Len(deps'[g]) >= Len(deps[g])
  BY DEF YieldsAt
<1>. USE <1>0
<1>y. YieldFor(what, below, a)
  BY DEF YieldsAt
<1>1. /\ t \in Nat \ {0} /\ t <= Len(stack) /\ Len(stack) \in Nat /\ Depth = 1..Len(stack)
      /\ Fibers = 1..Len(lua) /\ Len(waits) = Len(lua)
      /\ a \in Activations(Fibers) /\ f \in Fibers
  <2>1. a \in Activations(Fibers) /\ Len(stack) \in Nat /\ Depth = 1..Len(stack)
    BY Typed
  <2>2. f \in Fibers
    BY <2>1, FieldsTyped
  <2>3. Fibers = 1..Len(lua) /\ Len(waits) = Len(lua)
    BY Typed DEF Fibers
  <2>. QED
    BY <2>1, <2>2, <2>3
<1>2. lua[f] = "running" /\ waits[f] = "nothing"
  BY <1>1 DEF Activities, ActivationSound, FiberSound
<1>3. /\ lua' \in Seq(LuaStates) /\ Len(lua') = Len(lua) /\ lua'[f] = "yielded"
      /\ \A g \in Fibers \ {f} : lua'[g] = lua[g]
  BY <1>1, Typed, Replaced, <1>y DEF YieldFor, LuaStates
<1>4. /\ waits' \in Seq(Waits) /\ Len(waits') = Len(waits) /\ waits'[f] = what
      /\ \A g \in Fibers \ {f} : waits'[g] = waits[g]
  BY <1>1, Typed, Replaced, <1>y DEF YieldFor, Waits
<1>5. Fibers' = Fibers
  BY <1>3 DEF Fibers
<1>6. /\ b \in Activations(Fibers)
      /\ b.fiber = f /\ b.import = a.import /\ b.phase = "yielded"
  BY <1>1, <1>b DEF Activations, Phases
<1>7. /\ stack' \in Seq(Activations(Fibers)) /\ Len(stack') = t /\ stack'[t] = b
      /\ \A k \in 1..t - 1 : stack'[k] = stack[k]
  <2>1. stack' = Append(below, b)
    BY <1>b, <1>y DEF YieldFor
  <2>2. /\ stack' \in Seq(Activations(Fibers)) /\ Len(stack') = Len(below) + 1
        /\ stack'[Len(below) + 1] = b
        /\ \A k \in 1..Len(below) : stack'[k] = below[k]
    BY <1>6, <2>1, Pushed
  <2>. QED
    BY <1>1, <2>2
<1>8. Depth' = 1..t /\ Depth' \subseteq Depth /\ \A k \in Depth' : k = t \/ k \in 1..t - 1
  BY <1>1, <1>7, LenProperties DEF Depth
<1>9. VectorsOK'
  BY <1>1, <1>3, <1>4, <1>5, <1>7, Typed DEF VectorsOK
<1>10. \A k \in 1..t - 1 : /\ k \in Depth /\ stack[k].fiber \in Fibers \ {f}
                           /\ stack[k].phase # "yielded"
  <2>1. SUFFICES ASSUME NEW k \in 1..t - 1
                 PROVE  /\ k \in Depth /\ stack[k].fiber \in Fibers \ {f}
                        /\ stack[k].phase # "yielded"
    OBVIOUS
  <2>2. k \in Depth /\ k # t /\ k # Len(stack)
    BY <1>1
  <2>3. stack[k].fiber \in Fibers
    BY <2>2, Typed, FieldsTyped
  <2>. QED
    BY <2>2, <2>3 DEF Activities, OneActivation, ActivationSound
<1>11. OneActivation'
  <2>1. \A k \in Depth' : k \in Depth /\ stack'[k].fiber = stack[k].fiber
    BY <1>6, <1>7, <1>8
  <2>. QED
    BY <2>1 DEF Activities, OneActivation
<1>12. ASSUME NEW k \in Depth'
       PROVE  ActivationSound(k)'
  <2>1. k > 1 => k - 1 \in 1..t - 1 /\ k - 1 \in Depth /\ stack'[k - 1] = stack[k - 1]
    BY <1>1, <1>7, <1>8
  <2>2. ActivationSound(k)
    BY <1>8 DEF Activities
  <2>3. CASE k = t
    BY <1>3, <1>6, <1>7, <2>1, <2>2, <2>3 DEF ActivationSound
  <2>4. CASE k \in 1..t - 1
    <3>1. stack'[k] = stack[k] /\ stack[k].fiber \in Fibers \ {f} /\ stack[k].phase # "yielded"
      BY <1>7, <1>10, <2>4
    <3>2. lua'[stack[k].fiber] = lua[stack[k].fiber]
      BY <1>3, <3>1
    <3>3. stack[k].last \in Nat /\ Len(deps[stack[k].fiber]) \in Nat
      BY <1>8, <3>1, Typed, FieldsTyped
    <3>4. stack[k].last <= Len(deps[stack[k].fiber]) => stack[k].last <= Len(deps'[stack[k].fiber])
      BY <3>1, <3>3
    <3>. QED
      BY <2>1, <2>2, <3>1, <3>2, <3>4 DEF ActivationSound
  <2>. QED
    BY <1>8, <2>3, <2>4
<1>13. ASSUME NEW g \in Fibers
       PROVE  FiberSound(g)'
  <2>1. CASE g = f
    BY <1>3, <1>4, <2>1 DEF FiberSound
  <2>2. CASE g # f
    <3>1. lua'[g] = lua[g] /\ waits'[g] = waits[g]
      BY <1>3, <1>4, <2>2
    <3>2. ASSUME NEW k \in Depth, stack[k].fiber = g, lua[g] \in {"running", "ended"}
          PROVE  k \in Depth' /\ stack'[k].fiber = g
      <4>1. k # t
        BY <2>2, <3>2
      <4>2. ~(k > t)
        BY <3>2 DEF Activities, ActivationSound
      <4>3. k \in 1..t - 1
        BY <1>1, <4>1, <4>2
      <4>. QED
        BY <1>1, <1>7, <1>8, <3>2, <4>3
    <3>. QED
      BY <3>1, <3>2 DEF Activities, FiberSound
  <2>. QED
    BY <2>1, <2>2
<1>14. LoopsStay
  <2>1. ASSUME NEW k \in Depth, stack[k].phase = "dependants"
        PROVE  k \in Depth' /\ stack'[k] = stack[k]
    <3>1. k \in 1..t - 1
      BY <1>1, <2>1
    <3>. QED
      BY <1>1, <1>7, <1>8, <3>1
  <2>2. ASSUME NEW k \in Depth', stack'[k].phase = "dependants"
        PROVE  k \in Depth /\ stack'[k] = stack[k]
    BY <1>6, <1>7, <1>8, <2>2
  <2>. QED
    BY <2>1, <2>2 DEF LoopsStay
<1>. QED
  BY <1>1, <1>2, <1>4, <1>5, <1>9, <1>11, <1>12, <1>13, <1>14 DEF Activities

(* What TryDepend writes.                                                  *)
LEMMA DependWrites ==
    ASSUME TypeOK, NEW g \in Fibers, NEW f \in Fibers, DependOn(g, f)
    PROVE  /\ deps' \in Seq(Seq(Fibers \union Entities)) /\ Len(deps') = Len(deps)
           /\ deps'[g] = Append(deps[g], f) /\ \A h \in Fibers \ {g} : deps'[h] = deps[h]
           /\ \A h \in Fibers : Len(deps'[h]) \in Nat /\ Len(deps'[h]) >= Len(deps[h])
<1>. PICK l : l = Append(deps[g], f)
  OBVIOUS
<1>1. deps[g] \in Seq(Fibers \union Entities) /\ f \in Fibers \union Entities
  BY Typed
<1>2. l \in Seq(Fibers \union Entities) /\ Len(l) = Len(deps[g]) + 1
  BY <1>1, Pushed
<1>3. deps' = [deps EXCEPT ![g] = l]
  BY DEF DependOn
<1>4. deps \in Seq(Seq(Fibers \union Entities)) /\ g \in 1..Len(deps) /\ Fibers = 1..Len(deps)
  BY Typed DEF Fibers
<1>5. /\ deps' \in Seq(Seq(Fibers \union Entities)) /\ Len(deps') = Len(deps) /\ deps'[g] = l
      /\ \A h \in Fibers \ {g} : deps'[h] = deps[h]
  BY <1>2, <1>3, <1>4, Replaced
<1>6. \A h \in Fibers : Len(deps[h]) \in Nat
  BY Typed
<1>7. ASSUME NEW h \in Fibers
      PROVE  Len(deps'[h]) \in Nat /\ Len(deps'[h]) >= Len(deps[h])
  BY <1>2, <1>5, <1>6
<1>. QED
  BY <1>5, <1>7

(* It yields to wait for g, in whose list it is now.                       *)
LEMMA FileAwaited ==
    ASSUME TypeOK, Activities, Lists, NEW g \in Fibers, NEW f \in Fibers, DependOn(g, f),
           LoopsStay, Fibers' = Fibers, waits[f] # "file", waits'[f] = "file",
           \A h \in Fibers \ {f} : waits'[h] = waits[h],
           breached => breached', lua[g] = "ended" => breached'
    PROVE  Lists'
<1>1. deps'[g] = Append(deps[g], f) /\ \A h \in Fibers \ {g} : deps'[h] = deps[h]
  BY DependWrites
<1>2. PICK m :
         /\ \A i \in Outstanding(g) : deps'[g][i] = deps[g][i]
         /\ m \notin Outstanding(g) /\ deps'[g][m] = f
         /\ \/ Outstanding(g)' = Outstanding(g) \union {m}
            \/ lua[g] = "ended" /\ Outstanding(g)' = Outstanding(g)
  <2>1. deps'[g] = Append(deps[g], f)
    BY <1>1
  <2>. QED
    BY <2>1, OutstandingGrown
<1>3. \A h \in Fibers \ {g} : Outstanding(h)' = Outstanding(h)
  BY <1>1, OutstandingKept
<1>4. \A h \in Fibers : \A i \in DOMAIN deps'[h] : deps'[h][i] \in Fibers
  <2>1. ASSUME NEW i \in DOMAIN deps'[g]
        PROVE  deps'[g][i] \in Fibers
    <3>1. /\ deps[g] \in Seq(Fibers \union Entities) /\ Len(deps[g]) \in Nat
          /\ DOMAIN deps[g] = 1..Len(deps[g])
      BY Typed
    <3>2. /\ deps'[g] \in Seq(Fibers \union Entities) /\ Len(deps'[g]) = Len(deps[g]) + 1
          /\ deps'[g][Len(deps[g]) + 1] = f
          /\ \A k \in 1..Len(deps[g]) : deps'[g][k] = deps[g][k]
      BY <1>1, <3>1, Pushed
    <3>3. i = Len(deps[g]) + 1 \/ i \in 1..Len(deps[g])
      BY <2>1, <3>1, <3>2, LenProperties
    <3>. QED
      BY <3>1, <3>2, <3>3 DEF Lists, ListSound
  <2>. QED
    BY <1>1, <2>1 DEF Lists, ListSound
<1>5. FibersStay
  BY <1>4 DEF FibersStay
<1>. QED
  BY <1>1, <1>2, <1>3, <1>5, ListsGrown

(* Nothing of fibers changes.                                              *)
LEMMA NothingMoves ==
    ASSUME VectorsOK, UNCHANGED <<lua, waits, deps, stack>>, breached => breached'
    PROVE  VectorsOK' /\ Fibers' = Fibers /\ (Activities /\ Lists => Activities' /\ Lists')
<1>1. VectorsOK' /\ Fibers' = Fibers /\ Depth' = Depth
  BY DEF VectorsOK, Fibers, Depth
<1>2. \A g : Outstanding(g)' = Outstanding(g)
  BY DEF Outstanding
<1>3. Activities => Activities'
  BY <1>1 DEF Activities, OneActivation, ActivationSound, FiberSound
<1>4. Lists => Lists'
  BY <1>1, <1>2 DEF Lists, ListSound, WaitsOnce, NoneForgotten
<1>. QED
  BY <1>1, <1>3, <1>4

(* The activation on top, when a script runs in it.                        *)
LEMMA TopInScript ==
    ASSUME TypeOK, InScript
    PROVE  /\ Len(stack) \in Depth /\ Top = stack[Len(stack)] /\ Top.phase = "script"
           /\ Top \in Activations(Fibers) /\ Top.fiber \in Fibers
           /\ \A k \in Depth : ~(k > Len(stack))
           /\ Below \in Seq(Activations(Fibers)) /\ Len(Below) = Len(stack) - 1
           /\ \A k \in 1..Len(stack) - 1 : Below[k] = stack[k]
<1>1. stack # <<>> /\ stack \in Seq(Activations(Fibers)) /\ Top.phase = "script"
  BY Typed DEF InScript
<1>2. Len(stack) \in Nat \ {0} /\ Depth = 1..Len(stack)
  BY <1>1, Typed, EmptySeq
<1>3. Top = stack[Len(stack)] /\ Top \in Activations(Fibers)
  BY <1>2, Typed DEF Top
<1>4. Top.fiber \in Fibers
  BY <1>3, FieldsTyped
<1>5. /\ Below \in Seq(Activations(Fibers)) /\ Len(Below) = Len(stack) - 1
      /\ \A k \in 1..Len(stack) - 1 : Below[k] = stack[k]
  BY <1>1, Popped DEF Below
<1>. QED
  BY <1>1, <1>2, <1>3, <1>4, <1>5

-----------------------------------------------------------------------------
(* A script returns or throws; its dependants are next.                    *)
LEMMA FinishPreserves ==
    ASSUME TypeOK, Activities, Lists, Finish
    PROVE  VectorsOK' /\ Activities' /\ Lists' /\ Fibers' = Fibers
<1>. PICK t : t = Len(stack)
  OBVIOUS
<1>. PICK a : a = stack[t]
  OBVIOUS
<1>. PICK f : f = a.fiber
  OBVIOUS
<1>. PICK n : n = Len(deps[f])
  OBVIOUS
<1>b. PICK b : b = [a EXCEPT !.phase = "dependants", !.last = n]
  OBVIOUS
<1>1. /\ InScript /\ Top = a
      /\ lua' = [lua EXCEPT ![f] = "ended"] /\ stack' = Append(Below, b)
      /\ waits' = waits /\ deps' = deps /\ breached' = breached
  BY <1>b DEF Finish, Top
<1>2. /\ t \in Depth /\ a.phase = "script" /\ a \in Activations(Fibers) /\ f \in Fibers
      /\ Below \in Seq(Activations(Fibers)) /\ Len(Below) = t - 1
      /\ \A k \in 1..t - 1 : Below[k] = stack[k]
  BY <1>1, TopInScript
<1>3. t \in Nat \ {0} /\ Depth = 1..t /\ n \in Nat /\ DOMAIN deps[f] = 1..n
  BY <1>2, Typed
<1>4. lua[f] = "running" /\ waits[f] = "nothing" /\ a.next = 1
  BY <1>2 DEF Activities, ActivationSound, FiberSound
<1>5. /\ lua' \in Seq(LuaStates) /\ Len(lua') = Len(lua) /\ lua'[f] = "ended"
      /\ \A g \in Fibers \ {f} : lua'[g] = lua[g]
  <2>1. lua \in Seq(LuaStates) /\ Fibers = 1..Len(lua) /\ "ended" \in LuaStates
    BY Typed DEF Fibers, LuaStates
  <2>. QED
    BY <1>1, <1>2, <2>1, Replaced
<1>6. Fibers' = Fibers
  BY <1>5 DEF Fibers
<1>7. /\ b \in Activations(Fibers) /\ b.fiber = f /\ b.import = a.import
      /\ b.phase = "dependants" /\ b.next = 1 /\ b.last = n
  BY <1>2, <1>3, <1>4, <1>b DEF Activations, Phases
<1>8. /\ stack' \in Seq(Activations(Fibers)) /\ Len(stack') = t /\ stack'[t] = b
      /\ \A k \in 1..t - 1 : stack'[k] = stack[k]
  <2>1. /\ stack' \in Seq(Activations(Fibers)) /\ Len(stack') = Len(Below) + 1
        /\ stack'[Len(Below) + 1] = b
        /\ \A k \in 1..Len(Below) : stack'[k] = Below[k]
    BY <1>1, <1>2, <1>7, Pushed
  <2>. QED
    BY <1>2, <1>3, <2>1
<1>9. Depth' = 1..t /\ Depth' = Depth
  BY <1>3, <1>8, LenProperties DEF Depth
<1>10. \A k \in Depth \ {t} :
          /\ stack'[k] = stack[k] /\ stack[k].fiber \in Fibers \ {f}
          /\ stack[k].phase # "yielded"
  <2>1. SUFFICES ASSUME NEW k \in Depth \ {t}
                 PROVE  /\ stack'[k] = stack[k] /\ stack[k].fiber \in Fibers \ {f}
                        /\ stack[k].phase # "yielded"
    OBVIOUS
  <2>2. k \in 1..t - 1
    BY <1>3
  <2>3. stack[k].fiber \in Fibers
    BY Typed, FieldsTyped
  <2>4. stack[k].fiber # f
    BY <1>2 DEF Activities, OneActivation
  <2>5. stack[k].phase # "yielded"
    BY DEF Activities, ActivationSound
  <2>. QED
    BY <1>8, <2>2, <2>3, <2>4, <2>5
<1>11. VectorsOK'
  BY <1>1, <1>5, <1>6, <1>8, Typed DEF VectorsOK
<1>12. OneActivation'
  BY <1>7, <1>8, <1>9, <1>10 DEF Activities, OneActivation
<1>13. ASSUME NEW k \in Depth
       PROVE  ActivationSound(k)'
  <2>1. k > 1 => k - 1 \in Depth \ {t} /\ stack'[k - 1] = stack[k - 1]
    BY <1>3, <1>10
  <2>2. ActivationSound(k)
    BY DEF Activities
  <2>3. CASE k = t
    BY <1>1, <1>3, <1>5, <1>7, <1>8, <2>1, <2>2, <2>3 DEF ActivationSound
  <2>4. CASE k # t
    <3>1. stack'[k] = stack[k] /\ lua'[stack[k].fiber] = lua[stack[k].fiber]
      BY <1>5, <1>10, <2>4
    <3>. QED
      BY <1>1, <1>10, <2>1, <2>2, <2>4, <3>1 DEF ActivationSound
  <2>. QED
    BY <2>3, <2>4
<1>14. ASSUME NEW g \in Fibers
       PROVE  FiberSound(g)'
  <2>1. \A k \in Depth : stack'[k].fiber = stack[k].fiber
    BY <1>7, <1>8, <1>10
  <2>2. CASE g = f
    <3>1. t \in Depth' /\ stack'[t].fiber = f
      BY <1>2, <1>7, <1>8, <1>9
    <3>2. lua'[f] = "ended" /\ waits'[f] = "nothing"
      BY <1>1, <1>4, <1>5
    <3>. QED
      BY <2>2, <3>1, <3>2 DEF FiberSound
  <2>3. CASE g # f
    <3>1. lua'[g] = lua[g] /\ waits'[g] = waits[g]
      BY <1>1, <1>5, <2>3
    <3>2. FiberSound(g)
      BY DEF Activities
    <3>. QED
      BY <1>9, <2>1, <3>1, <3>2 DEF FiberSound
  <2>. QED
    BY <2>2, <2>3
<1>15. Outstanding(f)' = Outstanding(f)
  <2>1. \A k \in Depth : ~Loops(k, f)
    BY <1>2, <1>10 DEF Loops
  <2>2. Loops(t, f)' /\ \A k \in Depth' : Loops(k, f)' => k = t
    BY <1>7, <1>8, <1>9, <1>10 DEF Loops
  <2>3. Outstanding(f) = 1..n
    BY <1>3, <2>1, OutstandingIs
  <2>4. Outstanding(f)' = {i \in 1..n : i \in 1..n}
    BY <1>1, <1>2, <1>3, <1>7, <1>8, <1>9, <2>2 DEF Outstanding, Loops, Depth
  <2>. QED
    BY <2>3, <2>4
<1>16. ASSUME NEW h \in Fibers, h # f
       PROVE  Outstanding(h)' = Outstanding(h)
  <2>1. deps'[h] = deps[h]
    BY <1>1
  <2>2. \A k \in Depth : Loops(k, h) => k \in Depth' /\ Loops(k, h)' /\ stack'[k] = stack[k]
    BY <1>2, <1>9, <1>10, <1>16 DEF Loops
  <2>3. \A k \in Depth' : Loops(k, h)' => k \in Depth /\ Loops(k, h) /\ stack'[k] = stack[k]
    BY <1>7, <1>8, <1>9, <1>10, <1>16 DEF Loops
  <2>. QED
    BY <2>1, <2>2, <2>3, SameOutstanding
<1>17. FibersStay
  BY <1>1, <1>6 DEF FibersStay, Lists, ListSound
<1>18. \A h \in Fibers : Outstanding(h)' = Outstanding(h)
  BY <1>15, <1>16
<1>19. Lists'
  BY <1>1, <1>17, <1>18, ListsKept
<1>. QED
  BY <1>6, <1>9, <1>11, <1>12, <1>13, <1>14, <1>19 DEF Activities

-----------------------------------------------------------------------------
(* The activation on top is over; the rest stay as they are.               *)
LEMMA PopKeeps ==
    ASSUME TypeOK, Activities, stack # <<>>, Top.phase # "script", stack' = Below,
           lua' \in Seq(LuaStates), Len(lua') = Len(lua), waits' = waits,
           lua'[Top.fiber] \in {"yielded", "freed"},
           lua'[Top.fiber] = "freed" => lua[Top.fiber] # "yielded",
           lua'[Top.fiber] = "yielded" => lua[Top.fiber] = "yielded",
           \A g \in Fibers \ {Top.fiber} : lua'[g] = lua[g] /\ deps'[g] = deps[g],
           deps' \in Seq(Seq(Fibers \union Entities)), Len(deps') = Len(deps)
    PROVE  /\ VectorsOK' /\ Activities' /\ Fibers' = Fibers
           /\ Depth' = Depth \ {Len(stack)} /\ \A k \in Depth' : stack'[k] = stack[k]
<1>. PICK t : t = Len(stack)
  OBVIOUS
<1>. PICK f : f = Top.fiber
  OBVIOUS
<1>1. stack \in Seq(Activations(Fibers))
  BY Typed
<1>2. /\ stack' \in Seq(Activations(Fibers)) /\ t \in Nat \ {0} /\ Len(stack') = t - 1
      /\ \A k \in 1..t - 1 : stack'[k] = stack[k]
  BY <1>1, Popped DEF Below
<1>3. Depth = 1..t /\ Depth' = 1..t - 1 /\ t \in Depth
  BY <1>1, <1>2, LenProperties DEF Depth
<1>4. Fibers' = Fibers /\ f = stack[t].fiber
  BY DEF Fibers, Top
<1>5. VectorsOK'
  BY <1>2, <1>4, Typed DEF VectorsOK
<1>6. \A k \in Depth' : /\ k \in Depth /\ stack'[k] = stack[k]
                        /\ stack[k].fiber \in Fibers \ {f} /\ stack[k].phase # "yielded"
  <2>1. SUFFICES ASSUME NEW k \in 1..t - 1
                 PROVE  /\ k \in Depth /\ stack'[k] = stack[k]
                        /\ stack[k].fiber \in Fibers \ {f} /\ stack[k].phase # "yielded"
    BY <1>3
  <2>2. k \in Depth /\ k # t
    BY <1>2, <1>3
  <2>3. stack[k].fiber \in Fibers
    BY <2>2, Typed, FieldsTyped
  <2>4. stack[k].fiber # f
    BY <1>3, <1>4, <2>2 DEF Activities, OneActivation
  <2>5. stack[k].phase # "yielded"
    BY <2>2 DEF Activities, ActivationSound
  <2>. QED
    BY <1>2, <2>2, <2>3, <2>4, <2>5
<1>7. OneActivation'
  BY <1>6 DEF Activities, OneActivation
<1>8. ASSUME NEW k \in Depth'
      PROVE  ActivationSound(k)'
  <2>1. ActivationSound(k) /\ stack'[k] = stack[k] /\ stack[k].phase # "yielded"
    BY <1>6 DEF Activities
  <2>2. lua'[stack[k].fiber] = lua[stack[k].fiber] /\ deps'[stack[k].fiber] = deps[stack[k].fiber]
    BY <1>6
  <2>3. k > 1 => k - 1 \in Depth' /\ stack'[k - 1] = stack[k - 1]
    BY <1>2, <1>3
  <2>. QED
    BY <2>1, <2>2, <2>3 DEF ActivationSound
<1>9. ASSUME NEW g \in Fibers
      PROVE  FiberSound(g)'
  <2>1. CASE g = f
    BY <2>1 DEF Activities, FiberSound
  <2>2. CASE g # f
    <3>1. lua'[g] = lua[g]
      BY <2>2
    <3>2. ASSUME NEW k \in Depth, stack[k].fiber = g
          PROVE  k \in Depth' /\ stack'[k].fiber = g
      <4>1. k # t
        BY <1>4, <2>2, <3>2
      <4>2. k \in 1..t - 1
        BY <1>2, <1>3, <4>1
      <4>. QED
        BY <1>2, <1>3, <3>2, <4>2
    <3>. QED
      BY <3>1, <3>2 DEF Activities, FiberSound
  <2>. QED
    BY <2>1, <2>2
<1>10. Depth' = Depth \ {t}
  BY <1>2, <1>3
<1>. QED
  BY <1>4, <1>5, <1>6, <1>7, <1>8, <1>9, <1>10 DEF Activities

(* After a yield.                                                          *)
LEMMA PopPreserves ==
    ASSUME TypeOK, Activities, Lists, stack # <<>>, Top.phase = "yielded", stack' = Below,
           UNCHANGED <<lua, waits, deps, breached>>
    PROVE  VectorsOK' /\ Activities' /\ Lists' /\ Fibers' = Fibers
<1>1. Len(stack) \in Depth /\ Top = stack[Len(stack)]
  BY Typed, EmptySeq DEF Top
<1>2. lua[Top.fiber] = "yielded"
  BY <1>1 DEF Activities, ActivationSound
<1>3. lua \in Seq(LuaStates) /\ deps \in Seq(Seq(Fibers \union Entities))
  BY Typed
<1>4. /\ VectorsOK' /\ Activities' /\ Fibers' = Fibers
      /\ Depth' = Depth \ {Len(stack)} /\ \A k \in Depth' : stack'[k] = stack[k]
  BY <1>2, <1>3, PopKeeps
<1>5. LoopsStay
  BY <1>1, <1>4 DEF LoopsStay
<1>6. \A g \in Fibers : Outstanding(g)' = Outstanding(g)
  BY <1>5, OutstandingKept
<1>7. FibersStay
  BY <1>4 DEF FibersStay, Lists, ListSound
<1>8. Lists'
  BY <1>6, <1>7, ListsKept
<1>. QED
  BY <1>4, <1>8

(* After an end whose dependants were all continued: the fiber is deleted. *)
LEMMA FreePreserves ==
    ASSUME TypeOK, Activities, Lists, stack # <<>>, Top.phase = "dependants",
           Top.next > Top.last, FreeFiber(Top.fiber), stack' = Below, breached' = breached
    PROVE  VectorsOK' /\ Activities' /\ Lists' /\ Fibers' = Fibers
<1>. PICK t : t = Len(stack)
  OBVIOUS
<1>. PICK f : f = Top.fiber
  OBVIOUS
<1>1. t \in Depth /\ Top = stack[t] /\ Top \in Activations(Fibers)
  BY Typed, EmptySeq DEF Top
<1>2. f \in Fibers /\ lua[f] = "ended" /\ Top.next \in Nat /\ Top.last \in Nat
  BY <1>1, FieldsTyped DEF Activities, ActivationSound
<1>3. /\ lua' \in Seq(LuaStates) /\ Len(lua') = Len(lua) /\ lua'[f] = "freed"
      /\ \A g \in Fibers \ {f} : lua'[g] = lua[g]
  <2>1. lua \in Seq(LuaStates) /\ Fibers = 1..Len(lua) /\ "freed" \in LuaStates
    BY Typed DEF Fibers, LuaStates
  <2>2. lua' = [lua EXCEPT ![f] = "freed"]
    BY DEF FreeFiber
  <2>. QED
    BY <1>2, <2>1, <2>2, Replaced
<1>4. /\ deps' \in Seq(Seq(Fibers \union Entities)) /\ Len(deps') = Len(deps) /\ deps'[f] = <<>>
      /\ \A g \in Fibers \ {f} : deps'[g] = deps[g]
  <2>1. /\ deps \in Seq(Seq(Fibers \union Entities)) /\ Fibers = 1..Len(deps)
        /\ <<>> \in Seq(Fibers \union Entities)
    BY Typed DEF Fibers
  <2>2. deps' = [deps EXCEPT ![f] = <<>>]
    BY DEF FreeFiber
  <2>. QED
    BY <1>2, <2>1, <2>2, Replaced
<1>5. waits' = waits
  BY DEF FreeFiber
<1>6. /\ VectorsOK' /\ Activities' /\ Fibers' = Fibers
      /\ Depth' = Depth \ {t} /\ \A k \in Depth' : stack'[k] = stack[k]
  BY <1>2, <1>3, <1>4, <1>5, PopKeeps
<1>7. \A k \in Depth : stack[k].fiber = f => k = t
  BY <1>1 DEF Activities, OneActivation
<1>8. Outstanding(f)' = {} /\ Outstanding(f) = {}
  <2>1. Outstanding(f)' = {}
    BY <1>4 DEF Outstanding
  <2>2. Loops(t, f) /\ Top.next..Top.last = {}
    BY <1>1, <1>2 DEF Loops
  <2>3. Outstanding(f) \subseteq stack[t].next..stack[t].last
    BY <1>1, <2>2, OutstandingIs
  <2>. QED
    BY <1>1, <2>1, <2>2, <2>3
<1>9. ASSUME NEW h \in Fibers, h # f
      PROVE  Outstanding(h)' = Outstanding(h)
  <2>1. deps'[h] = deps[h]
    BY <1>4, <1>9
  <2>2. \A k \in Depth : Loops(k, h) => k \in Depth' /\ Loops(k, h)' /\ stack'[k] = stack[k]
    BY <1>1, <1>6, <1>9 DEF Loops
  <2>3. \A k \in Depth' : Loops(k, h)' => k \in Depth /\ Loops(k, h) /\ stack'[k] = stack[k]
    BY <1>6 DEF Loops
  <2>. QED
    BY <2>1, <2>2, <2>3, SameOutstanding
<1>10. FibersStay
  <2>1. \A g \in Fibers : \A i \in DOMAIN deps'[g] : deps'[g][i] \in Fibers
    <3>1. \A g \in Fibers \ {f} : \A i \in DOMAIN deps'[g] : deps'[g][i] \in Fibers
      BY <1>4 DEF Lists, ListSound
    <3>2. \A i \in DOMAIN deps'[f] : FALSE
      BY <1>4
    <3>. QED
      BY <3>1, <3>2
  <2>. QED
    BY <1>6, <2>1 DEF FibersStay
<1>11. \A g \in Fibers : /\ Outstanding(g)' = Outstanding(g)
                         /\ \A i \in Outstanding(g) : deps'[g][i] = deps[g][i]
  BY <1>4, <1>8, <1>9
<1>12. Lists'
  BY <1>5, <1>10, <1>11, ListsKept
<1>. QED
  BY <1>6, <1>12

-----------------------------------------------------------------------------
(* The actions.                                                            *)

(* A script waits for a callback of the loop.                              *)
LEMMA SuspendPreserves ==
    ASSUME TypeOK, Activities, Lists, Suspend
    PROVE  VectorsOK' /\ Activities' /\ Lists' /\ Fibers' = Fibers
<1>1. InScript /\ YieldFor("callback", Below, Top) /\ deps' = deps /\ breached' = breached
  BY DEF Suspend
<1>2. \A g \in Fibers : Len(deps'[g]) \in Nat /\ Len(deps'[g]) >= Len(deps[g])
  BY <1>1, Typed
<1>3. /\ Len(stack) \in Depth /\ Top = stack[Len(stack)] /\ Top.phase = "script"
      /\ \A k \in Depth : ~(k > Len(stack))
      /\ Below \in Seq(Activations(Fibers)) /\ Len(Below) = Len(stack) - 1
      /\ \A k \in 1..Len(stack) - 1 : Below[k] = stack[k]
  BY <1>1, TopInScript
<1>4. deps' \in Seq(Seq(Fibers \union Entities)) /\ Len(deps') = Len(deps)
  BY <1>1, Typed
<1>5. /\ VectorsOK' /\ Activities' /\ Fibers' = Fibers /\ LoopsStay
      /\ waits[Top.fiber] = "nothing" /\ waits'[Top.fiber] = "callback"
      /\ \A g \in Fibers \ {Top.fiber} : waits'[g] = waits[g]
  <2>1. YieldsAt(Len(stack), Top, Below, "callback")
    BY <1>1, <1>2, <1>3, <1>4 DEF YieldsAt
  <2>. QED
    BY <2>1, YieldPreserves
<1>6. \A g \in Fibers : Outstanding(g)' = Outstanding(g)
  BY <1>1, <1>5, OutstandingKept
<1>7. FibersStay
  BY <1>1, <1>5 DEF FibersStay, Lists, ListSound
<1>8. \A g \in Fibers : waits'[g] = "file" <=> waits[g] = "file"
  BY <1>5
<1>9. Lists'
  BY <1>1, <1>6, <1>7, <1>8, ListsKept
<1>. QED
  BY <1>5, <1>9

(* Import of an object whose file was started: the one who asks waits for  *)
(* its fiber, whatever became of it.                                       *)
LEMMA ImportAgainPreserves ==
    ASSUME TypeOK, Activities, Lists, ~fault, \A e \in Entities : EntitySound(e),
           NEW e \in Entities, ImportAgain(e)
    PROVE  /\ VectorsOK' /\ Fibers' = Fibers /\ breached' \in BOOLEAN /\ fault' \in BOOLEAN
           /\ fault' => breached'
           /\ ~fault' => Activities' /\ Lists'
<1>1. VectorsOK /\ fault = FALSE /\ breached \in BOOLEAN
  BY TypesAre DEF TypeOK
<1>2. CASE finished[e]
  <2>1. UNCHANGED <<lua, waits, deps, stack, breached, fault>>
    BY <1>2 DEF ImportAgain
  <2>2. VectorsOK' /\ Fibers' = Fibers /\ Activities' /\ Lists'
    BY <1>1, <2>1, NothingMoves
  <2>. QED
    BY <1>1, <2>1, <2>2
<1>3. CASE ~finished[e]
  <2>. PICK g : g = handle[e]
    OBVIOUS
  <2>1. g \in Fibers
    <3>1. handle[e] \in {0} \union Fibers
      BY DEF TypeOK
    <3>2. g # 0
      BY DEF ImportAgain, EntitySound
    <3>. QED
      BY <3>1, <3>2
  <2>2. InScript /\ WaitFor(g) /\ breached' = (breached \/ lua[g] \in {"ended", "freed"})
    BY <1>3 DEF ImportAgain
  <2>3. breached' \in BOOLEAN /\ (breached => breached')
        /\ (lua[g] \in {"ended", "freed"} => breached')
    BY <1>1, <2>2
  <2>4. CASE fault' = TRUE /\ lua[g] \in {"ended", "freed"} /\ UNCHANGED <<lua, waits, deps, stack>>
    <3>1. VectorsOK' /\ Fibers' = Fibers
      BY <1>1, <2>3, <2>4, NothingMoves
    <3>. QED
      BY <2>3, <2>4, <3>1
  <2>5. CASE DependOn(g, Top.fiber) /\ YieldFor("file", Below, Top) /\ fault' = fault
    <3>1. /\ Len(stack) \in Depth /\ Top = stack[Len(stack)] /\ Top.phase = "script"
          /\ Top.fiber \in Fibers
          /\ \A k \in Depth : ~(k > Len(stack))
          /\ Below \in Seq(Activations(Fibers)) /\ Len(Below) = Len(stack) - 1
          /\ \A k \in 1..Len(stack) - 1 : Below[k] = stack[k]
      BY <2>2, TopInScript
    <3>2. /\ deps' \in Seq(Seq(Fibers \union Entities)) /\ Len(deps') = Len(deps)
          /\ \A h \in Fibers : Len(deps'[h]) \in Nat /\ Len(deps'[h]) >= Len(deps[h])
      BY <2>1, <2>5, <3>1, DependWrites
    <3>3. /\ VectorsOK' /\ Activities' /\ Fibers' = Fibers /\ LoopsStay
          /\ waits[Top.fiber] = "nothing" /\ waits'[Top.fiber] = "file"
          /\ \A h \in Fibers \ {Top.fiber} : waits'[h] = waits[h]
      <4>1. YieldsAt(Len(stack), Top, Below, "file")
        BY <2>5, <3>1, <3>2 DEF YieldsAt
      <4>. QED
        BY <4>1, YieldPreserves
    <3>4. Lists'
      <4>1. waits[Top.fiber] # "file"
        BY <3>3
      <4>. QED
        BY <2>1, <2>3, <2>5, <3>1, <3>3, <4>1, FileAwaited
    <3>. QED
      BY <1>1, <2>3, <2>5, <3>3, <3>4
  <2>. QED
    BY <2>2, <2>4, <2>5 DEF WaitFor
<1>. QED
  BY <1>2, <1>3

(* Call ends, with what Import does then if it was the caller.             *)
LEMMA ReturnPreserves ==
    ASSUME TypeOK, Activities, Lists, Return
    PROVE  VectorsOK' /\ Activities' /\ Lists' /\ Fibers' = Fibers
<1>. PICK t : t = Len(stack)
  OBVIOUS
<1>. PICK g : g = Top.fiber
  OBVIOUS
<1>1. Returning /\ stack # <<>> /\ breached' = breached
  BY DEF Return, Returning
<1>2. /\ t \in Depth /\ t \in Nat \ {0} /\ Depth = 1..t /\ Top = stack[t]
      /\ Top \in Activations(Fibers) /\ stack \in Seq(Activations(Fibers))
  BY <1>1, Typed, EmptySeq DEF Top
<1>3. g \in Fibers
  BY <1>2, FieldsTyped
<1>4. /\ Top.phase = "yielded" => lua[g] = "yielded"
      /\ Top.phase = "dependants" => lua[g] = "ended"
  BY <1>2 DEF Activities, ActivationSound
<1>5. \/ Top.phase = "yielded" /\ lua[g] = "yielded"
      \/ Top.phase = "dependants" /\ Top.next > Top.last /\ lua[g] = "ended"
  BY <1>1, <1>4 DEF Returning
<1>6. CASE lua[g] = "ended"
  <2>1. FreeFiber(g) /\ stack' = Below
    BY <1>6 DEF Return, ReturnToImport
  <2>. QED
    BY <1>1, <1>5, <1>6, <2>1, FreePreserves
<1>7. CASE lua[g] = "yielded" /\ Top.import = None
  <2>1. stack' = Below /\ UNCHANGED <<lua, waits, deps>>
    BY <1>7 DEF Return
  <2>. QED
    BY <1>1, <1>5, <1>7, <2>1, PopPreserves
<1>8. CASE lua[g] = "yielded" /\ Top.import # None
  <2>u. PICK u : u = t - 1
    OBVIOUS
  <2>1. u \in Nat \ {0} /\ u \in Depth /\ stack[u].phase = "script"
    BY <1>2, <1>8, <2>u DEF Activities, ActivationSound
  <2>2. /\ Below \in Seq(Activations(Fibers)) /\ Len(Below) = u
        /\ \A k \in 1..u : Below[k] = stack[k]
    BY <1>1, <1>2, <2>u, Popped DEF Below
  <2>a. PICK a : a = stack[u]
    OBVIOUS
  <2>b. PICK below : below = SubSeq(Below, 1, Len(Below) - 1)
    OBVIOUS
  <2>3. Below[Len(Below)] = a
    BY <2>1, <2>2, <2>a
  <2>4. DependOn(g, a.fiber) /\ YieldFor("file", below, a)
    BY <1>8, <2>3, <2>b DEF Return, ReturnToImport
  <2>5. /\ below \in Seq(Activations(Fibers)) /\ Len(below) = u - 1
        /\ \A k \in 1..u - 1 : below[k] = stack[k]
    <3>1. Below # <<>>
      BY <2>1, <2>2
    <3>2. /\ below \in Seq(Activations(Fibers)) /\ Len(below) = Len(Below) - 1
          /\ \A k \in 1..Len(Below) - 1 : below[k] = Below[k]
      BY <2>2, <2>b, <3>1, Popped
    <3>. QED
      BY <2>1, <2>2, <3>2
  <2>6. \A k \in Depth : k > u => stack[k].phase = "yielded"
    <3>1. \A k \in Depth : k > u => k = t
      BY <1>2, <2>u
    <3>. QED
      BY <1>2, <1>5, <1>8, <3>1
  <2>7. a.fiber \in Fibers
    BY <2>1, <2>a, Typed, FieldsTyped
  <2>8. /\ deps' \in Seq(Seq(Fibers \union Entities)) /\ Len(deps') = Len(deps)
        /\ \A h \in Fibers : Len(deps'[h]) \in Nat /\ Len(deps'[h]) >= Len(deps[h])
    BY <1>3, <2>4, <2>7, DependWrites
  <2>9. /\ VectorsOK' /\ Activities' /\ Fibers' = Fibers /\ LoopsStay
        /\ waits[a.fiber] = "nothing" /\ waits'[a.fiber] = "file"
        /\ \A h \in Fibers \ {a.fiber} : waits'[h] = waits[h]
    <3>1. a = stack[u] /\ a.phase = "script"
      BY <2>1, <2>a
    <3>2. YieldsAt(u, a, below, "file")
      BY <2>1, <2>4, <2>5, <2>6, <2>8, <3>1 DEF YieldsAt
    <3>. QED
      BY <3>2, YieldPreserves
  <2>10. Lists'
    <3>1. waits[a.fiber] # "file" /\ lua[g] # "ended"
      BY <1>8, <2>9
    <3>. QED
      BY <1>1, <1>3, <2>4, <2>7, <2>9, <3>1, FileAwaited
  <2>. QED
    BY <2>9, <2>10
<1>. QED
  BY <1>5, <1>6, <1>7, <1>8

-----------------------------------------------------------------------------
(* It holds before the first plugin is started.                            *)
LEMMA InitSound == Init => ImportInv
<1>. SUFFICES ASSUME Init PROVE ImportInv
  OBVIOUS
<1>1. Fibers = {} /\ Depth = {}
  BY DEF Init, Fibers, Depth
<1>2. TypeOK
  <2>1. lua = <<>> /\ waits = <<>> /\ deps = <<>> /\ stack = <<>>
    BY DEF Init
  <2>2. VectorsOK
    BY <2>1 DEF VectorsOK
  <2>3. EntitiesOK
    BY DEF Init, EntitiesOK
  <2>. QED
    BY <2>2, <2>3, TypesAre
<1>3. \A e \in Entities : EntitySound(e)
  BY DEF Init, EntitySound
<1>4. Activities
  BY <1>1 DEF Activities, OneActivation
<1>5. Lists
  BY <1>1 DEF Lists, WaitsOnce, NoneForgotten
<1>. QED
  BY <1>2, <1>3, <1>4, <1>5 DEF ImportInv, Init

(* The files' objects are as they were.                                    *)
LEMMA EntitiesStay ==
    ASSUME TypeOK, UNCHANGED <<started, handle, runs>>, Fibers \subseteq Fibers',
           finished' \in [Entities -> BOOLEAN], breached' \in BOOLEAN, fault' \in BOOLEAN,
           \A e \in Entities : EntitySound(e)
    PROVE  EntitiesOK' /\ \A e \in Entities : EntitySound(e)'
<1>1. handle' \in [Entities -> {0} \union Fibers']
  <2>1. handle \in [Entities -> {0} \union Fibers]
    BY DEF TypeOK
  <2>. QED
    BY <2>1
<1>. QED
  BY <1>1 DEF TypeOK, EntitiesOK, EntitySound

(* Every step preserves the invariant.                                     *)
LEMMA NextPreserves == ImportInv /\ [Next]_vars => ImportInv'
<1>. SUFFICES ASSUME ImportInv, [Next]_vars
              PROVE  ImportInv'
  OBVIOUS
<1>1. /\ TypeOK /\ \A e \in Entities : EntitySound(e)
      /\ fault => breached
      /\ ~fault => Activities /\ Lists
  BY DEF ImportInv
<1>2. /\ VectorsOK /\ EntitiesOK /\ finished \in [Entities -> BOOLEAN]
      /\ breached \in BOOLEAN /\ fault \in BOOLEAN
  BY <1>1, TypesAre DEF EntitiesOK
<1>3. ASSUME UNCHANGED <<started, handle, runs, finished, breached, fault>>, ~fault,
             VectorsOK', Activities', Lists', Fibers \subseteq Fibers'
      PROVE  ImportInv'
  <2>1. EntitiesOK' /\ \A e \in Entities : EntitySound(e)'
    BY <1>1, <1>2, <1>3, EntitiesStay
  <2>. QED
    BY <1>1, <1>3, <2>1, TypesAre DEF ImportInv
<1>4. CASE UNCHANGED vars
  <2>1. UNCHANGED <<lua, waits, deps, stack, started, handle, runs, finished, breached, fault>>
    BY <1>4 DEF vars
  <2>2. VectorsOK' /\ Fibers' = Fibers /\ (Activities /\ Lists => Activities' /\ Lists')
    BY <1>2, <2>1, NothingMoves
  <2>3. EntitiesOK' /\ \A e \in Entities : EntitySound(e)'
    BY <1>1, <1>2, <2>1, <2>2, EntitiesStay
  <2>. QED
    BY <1>1, <2>1, <2>2, <2>3, TypesAre DEF ImportInv
<1>5. CASE Start
  <2>1. /\ stack = <<>> /\ ~fault /\ NewFiber(None) /\ breached' = breached
        /\ UNCHANGED <<started, handle, runs, finished, breached, fault>>
    BY <1>5 DEF Start, Idle, entities
  <2>2. VectorsOK' /\ Activities' /\ Lists' /\ Fibers' = Fibers \union {Len(lua) + 1}
    BY <1>1, <2>1, BirthPreserves
  <2>. QED
    BY <1>3, <2>1, <2>2
<1>6. CASE Suspend
  <2>1. ~fault /\ UNCHANGED <<started, handle, runs, finished, breached, fault>>
    BY <1>6 DEF Suspend, InScript, entities
  <2>. QED
    BY <1>1, <1>3, <1>6, <2>1, SuspendPreserves
<1>7. CASE Finish
  <2>1. ~fault /\ UNCHANGED <<started, handle, runs, finished, breached, fault>>
    BY <1>7 DEF Finish, InScript, entities
  <2>. QED
    BY <1>1, <1>3, <1>7, <2>1, FinishPreserves
<1>8. CASE ContinueDependant
  <2>1. ~fault /\ UNCHANGED <<started, handle, runs, breached>>
    BY <1>8 DEF ContinueDependant
  <2>2. VectorsOK' /\ Activities' /\ Lists' /\ Fibers' = Fibers /\ UNCHANGED <<finished, fault>>
    BY <1>1, <1>8, <2>1, ContinuePreserves
  <2>. QED
    BY <1>3, <2>1, <2>2
<1>9. CASE Return
  <2>1. ~fault /\ UNCHANGED <<started, handle, runs, finished, breached, fault>>
    BY <1>9 DEF Return, Returning, entities
  <2>. QED
    BY <1>1, <1>3, <1>9, <2>1, ReturnPreserves
<1>10. ASSUME NEW f \in 1..MaxFibers, Complete(f)
       PROVE  ImportInv'
  <2>1. ~fault /\ UNCHANGED <<started, handle, runs, finished, breached, fault>>
    BY <1>10 DEF Complete, Idle, entities
  <2>. QED
    BY <1>1, <1>3, <1>10, <2>1, CompletePreserves
<1>11. ASSUME NEW e \in Entities, ImportAgain(e)
       PROVE  ImportInv'
  <2>1. ~fault /\ UNCHANGED <<started, handle, runs, finished>>
    BY <1>11 DEF ImportAgain, InScript, entities
  <2>2. /\ VectorsOK' /\ Fibers' = Fibers /\ breached' \in BOOLEAN /\ fault' \in BOOLEAN
        /\ fault' => breached'
        /\ ~fault' => Activities' /\ Lists'
    BY <1>1, <1>11, <2>1, ImportAgainPreserves
  <2>3. EntitiesOK' /\ \A d \in Entities : EntitySound(d)'
    BY <1>1, <1>2, <2>1, <2>2, EntitiesStay
  <2>. QED
    BY <2>2, <2>3, TypesAre DEF ImportInv
<1>12. ASSUME NEW e \in Entities, ImportFirst(e)
       PROVE  ImportInv'
  <2>. PICK n : n = Len(lua) + 1
    OBVIOUS
  <2>1. /\ InScript /\ stack # <<>> /\ ~fault /\ Top.phase = "script" /\ ~started[e]
        /\ NewFiber(e) /\ UNCHANGED <<finished, breached, fault>>
    BY <1>12 DEF ImportFirst, InScript
  <2>2. VectorsOK' /\ Activities' /\ Lists' /\ Fibers' = Fibers \union {n}
    BY <1>1, <2>1, BirthPreserves
  <2>3. n # 0
    BY <1>1, Typed
  <2>4. /\ started \in [Entities -> BOOLEAN] /\ handle \in [Entities -> {0} \union Fibers]
        /\ runs \in [Entities -> Nat]
    BY <1>2 DEF EntitiesOK
  <2>5. /\ started' = [started EXCEPT ![e] = TRUE] /\ handle' = [handle EXCEPT ![e] = n]
        /\ runs' = [runs EXCEPT ![e] = @ + 1]
    BY <1>12 DEF ImportFirst
  <2>6. EntitiesOK'
    BY <1>2, <2>1, <2>2, <2>4, <2>5 DEF EntitiesOK
  <2>7. \A d \in Entities : EntitySound(d)'
    BY <1>1, <2>1, <2>3, <2>4, <2>5 DEF EntitySound
  <2>. QED
    BY <1>1, <2>1, <2>2, <2>6, <2>7, TypesAre DEF ImportInv
<1>. QED
  BY <1>4, <1>5, <1>6, <1>7, <1>8, <1>9, <1>10, <1>11, <1>12 DEF Next

-----------------------------------------------------------------------------
(* Whatever files import and in whatever order callbacks come: activations,*)
(* threads and lists of dependants fit together (PluginFileController,     *)
(* ScriptFiber::Call).                                                     *)
THEOREM ImportsInductive == Spec => []ImportInv
BY InitSound, NextPreserves, PTL DEF Spec

(* No deleted fiber is used before a script has imported an object whose   *)
(* file had ended (TryDepend through _executeHandle, Call's loop).         *)
THEOREM FaultsNeedBreach == Spec => []FaultOnlyAfterBreach
<1>1. ImportInv => FaultOnlyAfterBreach
  BY DEF ImportInv, FaultOnlyAfterBreach
<1>. QED
  BY <1>1, ImportsInductive, PTL

(* The code of a file runs once at most for each object, whoever imports   *)
(* it and whenever (_executeStarted).                                      *)
THEOREM FilesRunOnce == Spec => []RunsOnce
<1>1. ImportInv => RunsOnce
  BY DEF ImportInv, EntitySound, RunsOnce
<1>. QED
  BY <1>1, ImportsInductive, PTL

(* Until an ended file was imported, whoever waits for a file is in        *)
(* exactly one list that will still be walked, and nobody else is in any   *)
(* (Import, TryDepend, Call's loop over _dependants).                      *)
THEOREM NoImporterForgotten == Spec => []ImportersWait
<1>1. ASSUME ImportInv, ~breached, NEW f \in Fibers
      PROVE  Cardinality(UNION {{<<g, i>> : i \in {j \in Outstanding(g) : deps[g][j] = f}} :
                                 g \in Fibers})
               = IF waits[f] = "file" THEN 1 ELSE 0
  <2>. PICK S : S = UNION {{<<g, i>> : i \in {j \in Outstanding(g) : deps[g][j] = f}} :
                             g \in Fibers}
    OBVIOUS
  <2>1. Lists
    BY <1>1 DEF ImportInv
  <2>2. \A p : p \in S <=> \E g \in Fibers : \E i \in Outstanding(g) :
                              deps[g][i] = f /\ p = <<g, i>>
    OBVIOUS
  <2>3. CASE waits[f] = "file"
    <3>1. PICK g \in Fibers : \E i \in Outstanding(g) : deps[g][i] = f
      BY <1>1, <2>1, <2>3 DEF Lists, NoneForgotten
    <3>. PICK i \in Outstanding(g) : deps[g][i] = f
      BY <3>1
    <3>2. \A h \in Fibers : \A j \in Outstanding(h) : deps[h][j] = f => h = g /\ j = i
      BY <2>1 DEF Lists, WaitsOnce
    <3>3. S = {<<g, i>>}
      BY <2>2, <3>2
    <3>4. Cardinality(S) = 1
      BY <3>3, FS_Singleton
    <3>. QED
      BY <2>3, <3>4
  <2>4. CASE waits[f] # "file"
    <3>1. S = {}
      BY <2>1, <2>2, <2>4, OutstandingAreFibers
    <3>2. Cardinality(S) = 0
      BY <3>1, FS_EmptySet
    <3>. QED
      BY <2>4, <3>2
  <2>. QED
    BY <2>3, <2>4
<1>2. ImportInv => ImportersWait
  BY <1>1 DEF ImportersWait
<1>. QED
  BY <1>2, ImportsInductive, PTL

=============================================================================
