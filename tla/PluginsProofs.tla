---------------------------- MODULE PluginsProofs ----------------------------
(***************************************************************************)
(* Proofs about Plugins for all names and bounds, whatever clauses of the  *)
(* usage contract are broken.                                              *)
(***************************************************************************)
EXTENDS PluginsInvariant, FiniteSetTheorems, SequenceTheorems, TLAPS

(* The bounds are numbers.                                                 *)
LEMMA Bounds == MaxPlugins \in Nat /\ MaxFibers \in Nat
BY BoundsAreNatural

USE Bounds

-----------------------------------------------------------------------------
(* What the vectors are, index by index.                                   *)

LEMMA VectorsTyped ==
    ASSUME PInv
    PROVE  /\ Len(plugins) \in Nat
           /\ Len(isolates) = Len(plugins) /\ Len(fibers) = Len(plugins)
           /\ DOMAIN plugins = 1..Len(plugins) /\ DOMAIN isolates = 1..Len(plugins)
           /\ DOMAIN fibers = 1..Len(plugins)
           /\ \A i \in 1..Len(plugins) :
                 /\ plugins[i].success \in BOOLEAN
                 /\ plugins[i].entry \in Entries
                 /\ isolates[i] \in {"live", "null"}
                 /\ fibers[i] \in Seq(FiberStates)
                 /\ Len(fibers[i]) \in Nat /\ DOMAIN fibers[i] = 1..Len(fibers[i])
<1>1. /\ isolates \in Seq({"live", "null"})
      /\ fibers \in Seq(Seq(FiberStates))
      /\ Len(isolates) = Len(plugins) /\ Len(fibers) = Len(plugins)
  BY DEF PInv, TypeOK
<1>2. plugins \in Seq([name: Names, success: BOOLEAN, entry: Entries,
                       listed: BOOLEAN, starts: Nat])
  BY DEF PInv, TypeOK
<1>3. /\ Len(plugins) \in Nat
      /\ \A i \in 1..Len(plugins) : /\ plugins[i].success \in BOOLEAN
                                    /\ plugins[i].entry \in Entries
  <2>1. Len(plugins) \in Nat
    BY <1>2, LenProperties
  <2>2. ASSUME NEW i \in 1..Len(plugins)
        PROVE  plugins[i].success \in BOOLEAN /\ plugins[i].entry \in Entries
    <3>1. plugins[i] \in [name: Names, success: BOOLEAN, entry: Entries,
                          listed: BOOLEAN, starts: Nat]
      BY <1>2, ElementOfSeq
    <3>. QED
      BY <3>1
  <2>. QED
    BY <2>1, <2>2
<1>4. ASSUME NEW i \in 1..Len(plugins)
      PROVE  fibers[i] \in Seq(FiberStates) /\ isolates[i] \in {"live", "null"}
  BY <1>1
<1>5. ASSUME NEW i \in 1..Len(plugins)
      PROVE  Len(fibers[i]) \in Nat /\ DOMAIN fibers[i] = 1..Len(fibers[i])
  BY <1>4
<1>. QED
  BY <1>1, <1>2, <1>3, <1>4, <1>5

(* The fibers of one isolate replaced by others.                           *)
LEMMA FibersReplaced ==
    ASSUME PInv, NEW i \in 1..Len(plugins), NEW s \in Seq(FiberStates),
           fibers' = [fibers EXCEPT ![i] = s]
    PROVE  /\ fibers' \in Seq(Seq(FiberStates))
           /\ Len(fibers') = Len(fibers)
           /\ fibers'[i] = s
           /\ \A j \in 1..Len(plugins) \ {i} : fibers'[j] = fibers[j]
<1>1. fibers \in Seq(Seq(FiberStates)) /\ Len(fibers) = Len(plugins)
  BY DEF PInv, TypeOK
<1>. QED
  BY <1>1, VectorsTyped

(* One state of a fiber replaced by another, or put behind the others.     *)
LEMMA SlotReplaced ==
    ASSUME NEW s \in Seq(FiberStates), NEW f \in 1..Len(s), NEW state \in FiberStates,
           NEW t, t = [s EXCEPT ![f] = state]
    PROVE  /\ t \in Seq(FiberStates)
           /\ Len(t) = Len(s) /\ DOMAIN t = DOMAIN s
           /\ t[f] = state
           /\ \A g \in DOMAIN s \ {f} : t[g] = s[g]
OBVIOUS

LEMMA SlotAppended ==
    ASSUME NEW s \in Seq(FiberStates), NEW state \in FiberStates,
           NEW t, t = Append(s, state), NEW f, f = Len(s) + 1
    PROVE  /\ t \in Seq(FiberStates)
           /\ Len(t) = f /\ f \in Nat \ {0}
           /\ DOMAIN t = DOMAIN s \union {f} /\ f \notin DOMAIN s
           /\ t[f] = state
           /\ \A g \in DOMAIN s : t[g] = s[g]
OBVIOUS

-----------------------------------------------------------------------------
(* Runs of fibers.                                                         *)

(* A fiber of the running isolate stops running: a new one, a parked one   *)
(* that was resumed, or the one that ran.                                  *)
LEMMA RunEndsPreserves ==
    ASSUME PInv, fault = "none", running # Nobody,
           NEW i, i = running[1],
           NEW slots \in Seq(FiberStates), NEW f \in 1..Len(slots),
           NEW outcome \in Outcomes,
           Len(slots) <= MaxFibers,
           DOMAIN slots = DOMAIN fibers[i] \union {f},
           \A g \in DOMAIN fibers[i] : slots[g] = fibers[i][g],
           f \in DOMAIN fibers[i] => fibers[i][f] # "waiting",
           RunEnds(i, f, outcome, slots),
           (running' = running /\ f # running[2]) \/ running' = Nobody,
           UNCHANGED <<started, plugins, isolates, loading, lua, breached, fault>>
    PROVE  PInv'
<1>1. /\ i \in 1..Len(plugins)
      /\ running[2] \in DOMAIN fibers[i]
      /\ isolates[i] = "live" /\ fibers[i][running[2]] = "running"
      /\ lua = "open"
      /\ starting = 0
  BY VectorsTyped DEF PInv, TypeOK, FibersSound, LoadingSound
<1>. DEFINE t == [slots EXCEPT ![f] = outcome]
<1>2. /\ t \in Seq(FiberStates)
      /\ Len(t) = Len(slots) /\ DOMAIN t = DOMAIN slots
      /\ t[f] = outcome
      /\ \A g \in DOMAIN slots \ {f} : t[g] = slots[g]
  BY SlotReplaced DEF Outcomes
<1>3. /\ fibers' = [fibers EXCEPT ![i] = t]
      /\ \/ outcome # "waiting" /\ requests' = requests
         \/ /\ outcome = "waiting"
            /\ \E kind \in RequestKinds :
                  requests' = requests \union {[isolate |-> i, fiber |-> f, kind |-> kind]}
  BY DEF RunEnds
<1>. HIDE DEF t
<1>4. /\ fibers' \in Seq(Seq(FiberStates))
      /\ Len(fibers') = Len(fibers)
      /\ fibers'[i] = t
      /\ \A j \in 1..Len(plugins) \ {i} : fibers'[j] = fibers[j]
  BY <1>1, <1>2, <1>3, FibersReplaced
<1>5. /\ DOMAIN t = DOMAIN fibers[i] \union {f}
      /\ \A g \in DOMAIN fibers[i] \ {f} : t[g] = fibers[i][g]
  BY <1>2
<1>6. UNCHANGED <<started, plugins, isolates, listed, todo, starting, lua, breached, fault>>
  BY DEF loading
<1>7. ASSUME outcome = "waiting"
      PROVE  \E q : /\ q \in [isolate: 1..Len(isolates), fiber: 1..MaxFibers, kind: RequestKinds]
                    /\ q.isolate = i /\ q.fiber = f
                    /\ requests' = requests \union {q}
  <2>1. PICK kind \in RequestKinds :
          requests' = requests \union {[isolate |-> i, fiber |-> f, kind |-> kind]}
    BY <1>3, <1>7
  <2>2. i \in 1..Len(isolates) /\ f \in 1..MaxFibers
    BY <1>1, VectorsTyped
  <2>. QED
    BY <2>1, <2>2
<1>8. requests \subseteq requests' /\ (outcome # "waiting" => requests' = requests)
  BY <1>3
<1>9. \A r \in requests : ~(r.isolate = i /\ r.fiber = f)
  BY <1>1 DEF PInv, HandlesSound, IsolateExists
<1>10. TypeOK'
  <2>1. requests' \subseteq
          [isolate: 1..Len(isolates), fiber: 1..MaxFibers, kind: RequestKinds]
    BY <1>7, <1>8 DEF PInv, TypeOK
  <2>2. \/ running' = Nobody
        \/ running'[1] \in 1..Len(fibers') /\ running'[2] \in 1..Len(fibers'[running'[1]])
    <3>1. running[2] \in 1..Len(t)
      BY <1>1, <1>2, <1>5
    <3>. QED
      BY <1>1, <1>4, <3>1, VectorsTyped
  <2>. QED
    BY <1>4, <1>6, <2>1, <2>2 DEF PInv, TypeOK
<1>11. ListedOnce' /\ PluginsSound' /\ FaultsExplained'
  BY <1>6 DEF PInv, ListedOnce, PluginsSound, FaultsExplained, Loaded
<1>12. LoadingSound'
  BY <1>1, <1>6 DEF PInv, LoadingSound, FindPlugin
<1>13. FibersSound'
  <2>1. ASSUME NEW j \in 1..Len(plugins)
        PROVE  /\ Len(fibers'[j]) <= MaxFibers
               /\ Len(fibers'[j]) > 0 => plugins'[j].entry # "null"
               /\ isolates'[j] = "null" => \A g \in DOMAIN fibers'[j] : fibers'[j][g] = "freed"
    <3>1. CASE j = i
      <4>1. Len(fibers[i]) > 0
        BY <1>1, VectorsTyped
      <4>. QED
        BY <1>1, <1>2, <1>4, <1>6, <3>1, <4>1, VectorsTyped DEF PInv, FibersSound
    <3>2. CASE j # i
      BY <1>4, <1>6, <3>2, VectorsTyped DEF PInv, FibersSound
    <3>. QED
      BY <3>1, <3>2
  <2>2. running' # Nobody => fibers'[running'[1]][running'[2]] = "running"
    BY <1>1, <1>4, <1>5
  <2>3. Len(fibers') = Len(plugins)
    BY <1>4, VectorsTyped
  <2>. QED
    BY <1>1, <1>6, <2>1, <2>2, <2>3 DEF FibersSound
<1>14. HandlesSound'
  <2>1. ASSUME NEW r \in requests
        PROVE  /\ r.isolate \in 1..Len(plugins)
               /\ r.fiber \in DOMAIN fibers[r.isolate]
               /\ r.fiber \in DOMAIN fibers'[r.isolate]
               /\ fibers'[r.isolate][r.fiber] = fibers[r.isolate][r.fiber]
    <3>1. r.isolate \in 1..Len(plugins) /\ r.fiber \in DOMAIN fibers[r.isolate]
      BY VectorsTyped DEF PInv, TypeOK, HandlesSound
    <3>2. CASE r.isolate = i
      BY <1>4, <1>5, <1>9, <3>1, <3>2
    <3>3. CASE r.isolate # i
      BY <1>4, <3>1, <3>3
    <3>. QED
      BY <3>1, <3>2, <3>3
  <2>2. ASSUME NEW j \in 1..Len(plugins), NEW g \in DOMAIN fibers'[j],
               fibers'[j][g] = "waiting", ~(j = i /\ g = f)
        PROVE  \E r \in requests : r.isolate = j /\ r.fiber = g
    <3>1. g \in DOMAIN fibers[j] /\ fibers[j][g] = "waiting"
      BY <1>4, <1>5, <2>2
    <3>. QED
      BY <3>1, VectorsTyped DEF PInv, HandlesSound
  <2>3. Len(fibers') = Len(plugins)
    BY <1>4, VectorsTyped
  <2>4. CASE outcome # "waiting"
    <3>1. fibers'[i][f] # "waiting" /\ requests' = requests
      BY <1>2, <1>4, <1>8, <2>4
    <3>. QED
      BY <1>6, <2>1, <2>2, <2>3, <3>1 DEF PInv, HandlesSound, IsolateExists
  <2>5. CASE outcome = "waiting"
    <3>1. PICK q : q.isolate = i /\ q.fiber = f /\ requests' = requests \union {q}
      BY <1>7, <2>5
    <3>2. f \in DOMAIN fibers'[i] /\ fibers'[i][f] = "waiting"
      BY <1>2, <1>4, <1>5, <2>5
    <3>3. \A r \in requests' : r.fiber \in DOMAIN fibers'[r.isolate]
      BY <2>1, <3>1, <3>2
    <3>4. \A p, r \in requests' : p.isolate = r.isolate /\ p.fiber = r.fiber => p = r
      BY <1>9, <3>1 DEF PInv, HandlesSound
    <3>5. \A r \in requests' :
            /\ IsolateExists(r.isolate) => fibers'[r.isolate][r.fiber] = "waiting"
            /\ ~IsolateExists(r.isolate) /\ r.kind = "unasked" => "pending" \in breached
      BY <1>1, <2>1, <3>1, <3>2 DEF PInv, HandlesSound, IsolateExists
    <3>6. \A j \in 1..Len(plugins) : \A g \in DOMAIN fibers'[j] :
            fibers'[j][g] = "waiting" => \E r \in requests' : r.isolate = j /\ r.fiber = g
      BY <2>2, <3>1
    <3>. QED
      BY <1>6, <2>3, <3>3, <3>4, <3>5, <3>6 DEF HandlesSound, IsolateExists
  <2>. QED
    BY <2>4, <2>5
<1>. QED
  BY <1>10, <1>11, <1>12, <1>13, <1>14 DEF PInv

(* A script makes a fiber.                                                 *)
LEMMA SpawnPreserves ==
    ASSUME PInv, NEW outcome \in Outcomes, Spawn(outcome)
    PROVE  PInv'
<1>. PICK i : i = running[1]
  OBVIOUS
<1>1. /\ running # Nobody /\ fault = "none"
      /\ Len(fibers[i]) < MaxFibers
      /\ RunEnds(i, Len(fibers[i]) + 1, outcome, Append(fibers[i], outcome))
      /\ UNCHANGED <<started, plugins, isolates, loading, running, lua, breached, fault>>
  BY DEF Spawn
<1>2. /\ i \in 1..Len(plugins)
      /\ running[2] \in 1..Len(fibers[i])
  BY <1>1, VectorsTyped DEF PInv, TypeOK
<1>3. fibers[i] \in Seq(FiberStates) /\ outcome \in FiberStates
  BY <1>2, VectorsTyped DEF Outcomes
<1>. PICK slots, f : slots = Append(fibers[i], outcome) /\ f = Len(fibers[i]) + 1
  OBVIOUS
<1>4. /\ slots \in Seq(FiberStates)
      /\ f \in 1..Len(slots)
      /\ Len(slots) <= MaxFibers
      /\ DOMAIN slots = DOMAIN fibers[i] \union {f}
      /\ \A g \in DOMAIN fibers[i] : slots[g] = fibers[i][g]
      /\ f \notin DOMAIN fibers[i] /\ f # running[2]
  <2>1. Len(fibers[i]) \in Nat /\ DOMAIN fibers[i] = 1..Len(fibers[i])
    BY <1>2, VectorsTyped
  <2>. QED
    BY <1>1, <1>2, <1>3, <2>1, SlotAppended
<1>5. RunEnds(i, f, outcome, slots)
  BY <1>1
<1>. QED
  BY <1>1, <1>4, <1>5, RunEndsPreserves

(* A parked fiber is continued inside a call of the running one.           *)
LEMMA ResumeParkedPreserves ==
    ASSUME PInv, NEW f \in 1..MaxFibers, NEW outcome \in Outcomes, ResumeParked(f, outcome)
    PROVE  PInv'
<1>. PICK i : i = running[1]
  OBVIOUS
<1>1. /\ running # Nobody /\ fault = "none"
      /\ f \in DOMAIN fibers[i] /\ fibers[i][f] = "parked"
      /\ RunEnds(i, f, outcome, fibers[i])
      /\ UNCHANGED <<started, plugins, isolates, loading, running, lua, breached, fault>>
  BY DEF ResumeParked
<1>2. /\ i \in 1..Len(plugins)
      /\ fibers[i][running[2]] = "running"
  BY <1>1, VectorsTyped DEF PInv, TypeOK, FibersSound
<1>3. /\ fibers[i] \in Seq(FiberStates)
      /\ DOMAIN fibers[i] = 1..Len(fibers[i])
      /\ Len(fibers[i]) <= MaxFibers
  BY <1>2, VectorsTyped DEF PInv, FibersSound
<1>. QED
  BY <1>1, <1>2, <1>3, RunEndsPreserves

(* The fiber that runs stops.                                              *)
LEMMA ReturnPreserves ==
    ASSUME PInv, NEW outcome \in Outcomes, Return(outcome)
    PROVE  PInv'
<1>. PICK i, f : i = running[1] /\ f = running[2]
  OBVIOUS
<1>1. /\ running # Nobody /\ fault = "none" /\ running' = Nobody
      /\ RunEnds(i, f, outcome, fibers[i])
      /\ UNCHANGED <<started, plugins, isolates, loading, lua, breached, fault>>
  BY DEF Return
<1>2. /\ i \in 1..Len(plugins)
      /\ f \in 1..Len(fibers[i])
      /\ fibers[i][f] = "running"
  BY <1>1, VectorsTyped DEF PInv, TypeOK, FibersSound
<1>3. /\ fibers[i] \in Seq(FiberStates)
      /\ DOMAIN fibers[i] = 1..Len(fibers[i])
      /\ Len(fibers[i]) <= MaxFibers
  BY <1>2, VectorsTyped DEF PInv, FibersSound
<1>. QED
  BY <1>1, <1>2, <1>3, RunEndsPreserves

-----------------------------------------------------------------------------
(* Loading and starting.                                                   *)

(* One more element at the end of a vector.                                *)
LEMMA VectorGrown ==
    ASSUME NEW S, NEW s \in Seq(S), NEW e \in S, NEW t, t = Append(s, e)
    PROVE  /\ t \in Seq(S)
           /\ Len(t) = Len(s) + 1
           /\ t[Len(s) + 1] = e
           /\ \A j \in 1..Len(s) : t[j] = s[j]
OBVIOUS

(* A plugin replaced by another one in the vector of plugins.              *)
PluginRecords == [name: Names, success: BOOLEAN, entry: Entries,
                  listed: BOOLEAN, starts: Nat]

LEMMA PluginReplaced ==
    ASSUME PInv, NEW i \in 1..Len(plugins), NEW p \in PluginRecords,
           plugins' = [plugins EXCEPT ![i] = p]
    PROVE  /\ plugins' \in Seq(PluginRecords)
           /\ Len(plugins') = Len(plugins)
           /\ plugins'[i] = p
           /\ \A j \in 1..Len(plugins) \ {i} : plugins'[j] = plugins[j]
<1>1. plugins \in Seq(PluginRecords)
  BY DEF PInv, TypeOK, PluginRecords
<1>. QED
  BY <1>1

(* Undefined behaviour is met, and nothing else happens to the objects.    *)
LEMMA FaultMetPreserves ==
    ASSUME PInv, running = Nobody,
           fault' \in {"deleted_twice", "null_isolate", "closed_state"},
           FaultsExplained',
           breached \subseteq breached', breached' \subseteq Allowed,
           requests' \subseteq requests, todo' \subseteq todo,
           UNCHANGED <<started, objects, listed, starting, running, lua>>
    PROVE  PInv'
<1>1. UNCHANGED <<started, plugins, isolates, fibers, listed, starting, running, lua>>
  BY DEF objects
<1>2. TypeOK'
  BY <1>1 DEF PInv, TypeOK
<1>3. ListedOnce' /\ PluginsSound' /\ LoadingSound' /\ FibersSound'
  BY <1>1 DEF PInv, ListedOnce, PluginsSound, LoadingSound, FibersSound, Loaded
<1>4. HandlesSound'
  BY <1>1 DEF PInv, HandlesSound
<1>. QED
  BY <1>2, <1>3, <1>4 DEF PInv

LEMMA LoadPreserves ==
    ASSUME PInv, fault = "none", starting = 0, running = Nobody, lua # "none",
           NEW name \in Names, NEW archive \in Archives, NEW fromList \in BOOLEAN,
           LoadPluginInternal(name, archive, fromList),
           fromList => FindPlugin(name) = {},
           todo' = todo \/ todo' = todo \ {name},
           UNCHANGED <<started, requests, listed, running, lua>>
    PROVE  PInv'
<1>1. CASE lua = "closed"
  <2>1. /\ {"reload"} \subseteq Allowed
        /\ breached' = breached \union {"reload"}
        /\ fault' = "closed_state"
        /\ UNCHANGED <<objects, starting>>
    BY <1>1 DEF LoadPluginInternal, Breaks
  <2>2. breached' \subseteq Allowed /\ FaultsExplained' /\ todo' \subseteq todo
    BY <2>1 DEF PInv, TypeOK, FaultsExplained
  <2>. QED
    BY <2>1, <2>2, FaultMetPreserves
<1>2. CASE lua # "closed"
  <2>. PICK n : n = Len(plugins) + 1
    OBVIOUS
  <2>. PICK p : p = [name    |-> name,
                     success |-> TryLoad(archive),
                     entry   |-> IF TryLoad(archive) THEN "method" ELSE "null",
                     listed  |-> fromList,
                     starts  |-> 0]
    OBVIOUS
  <2>1. /\ Len(plugins) < MaxPlugins
        /\ plugins' = Append(plugins, p)
        /\ isolates' = Append(isolates, "live")
        /\ fibers' = Append(fibers, <<>>)
        /\ starting' = IF TryLoad(archive) THEN n ELSE 0
        /\ UNCHANGED <<breached, fault>>
    BY <1>2 DEF LoadPluginInternal
  <2>2. TryLoad(archive) \in BOOLEAN
    BY DEF TryLoad, TryGetCodeResource, IsolateTryLoad
  <2>3. /\ p \in PluginRecords
        /\ p.name = name /\ p.listed = fromList /\ p.starts = 0
        /\ p.success = TryLoad(archive)
        /\ p.entry = IF TryLoad(archive) THEN "method" ELSE "null"
    BY <2>2 DEF PluginRecords, Entries
  <2>4. /\ plugins \in Seq(PluginRecords)
        /\ isolates \in Seq({"live", "null"})
        /\ fibers \in Seq(Seq(FiberStates))
        /\ Len(plugins) \in Nat
        /\ Len(isolates) = Len(plugins) /\ Len(fibers) = Len(plugins)
    BY VectorsTyped DEF PInv, TypeOK, PluginRecords
  <2>5. /\ plugins' \in Seq(PluginRecords)
        /\ Len(plugins') = n
        /\ plugins'[n] = p
        /\ \A j \in 1..Len(plugins) : plugins'[j] = plugins[j]
    BY <2>1, <2>3, <2>4, VectorGrown
  <2>6. /\ isolates' \in Seq({"live", "null"})
        /\ Len(isolates') = n
        /\ isolates'[n] = "live"
        /\ \A j \in 1..Len(plugins) : isolates'[j] = isolates[j]
    BY <2>1, <2>4, VectorGrown
  <2>7. /\ fibers' \in Seq(Seq(FiberStates))
        /\ Len(fibers') = n
        /\ fibers'[n] = <<>>
        /\ \A j \in 1..Len(plugins) : fibers'[j] = fibers[j]
    <3>1. <<>> \in Seq(FiberStates)
      OBVIOUS
    <3>. QED
      BY <2>1, <2>4, <3>1, VectorGrown
  <2>8. n \in Nat /\ n > 0 /\ 1..n = 1..Len(plugins) \union {n} /\ n \notin 1..Len(plugins)
    BY <2>4
  <2>9. lua = "open"
    BY <1>2 DEF PInv, TypeOK
  <2>10. TypeOK'
    <3>1. requests' \subseteq
            [isolate: 1..Len(isolates'), fiber: 1..MaxFibers, kind: RequestKinds]
      BY <2>4, <2>6, <2>8 DEF PInv, TypeOK
    <3>2. Len(plugins') <= MaxPlugins /\ starting' \in 0..Len(plugins')
      BY <2>1, <2>4, <2>5, <2>8
    <3>3. listed' \subseteq Names /\ todo' \subseteq listed'
      BY DEF PInv, TypeOK
    <3>4. plugins' \in Seq([name: Names, success: BOOLEAN, entry: Entries,
                            listed: BOOLEAN, starts: Nat])
      BY <2>5 DEF PluginRecords
    <3>. QED
      BY <2>1, <2>5, <2>6, <2>7, <3>1, <3>2, <3>3, <3>4 DEF PInv, TypeOK
  <2>11. ListedOnce'
    <3>1. ASSUME NEW i \in 1..n, NEW j \in 1..n, i < j, plugins'[i].name = plugins'[j].name
          PROVE  ~plugins'[j].listed
      <4>1. i \in 1..Len(plugins)
        BY <2>8, <3>1
      <4>2. CASE j \in 1..Len(plugins)
        BY <2>5, <3>1, <4>1, <4>2 DEF PInv, ListedOnce
      <4>3. CASE j = n
        BY <2>3, <2>5, <3>1, <4>1, <4>3 DEF FindPlugin
      <4>. QED
        BY <2>8, <4>2, <4>3
    <3>. QED
      BY <2>5, <3>1 DEF ListedOnce
  <2>12. PluginsSound'
    <3>1. ASSUME NEW j \in 1..n
          PROVE  /\ ~plugins'[j].success <=> plugins'[j].entry = "null"
                 /\ isolates'[j] = "null" <=> plugins'[j].entry = "deleted"
                 /\ plugins'[j].entry = "deleted" => lua' = "closed"
                 /\ plugins'[j].entry = "method" /\ lua' = "closed" => "others" \in breached'
                 /\ plugins'[j].starts = IF plugins'[j].success /\ j # starting' THEN 1 ELSE 0
      <4>1. CASE j \in 1..Len(plugins)
        <5>1. j # starting /\ j # starting'
          BY <2>1, <2>8, <4>1
        <5>. QED
          BY <2>1, <2>5, <2>6, <4>1, <5>1 DEF PInv, PluginsSound, Loaded
      <4>2. CASE j = n
        BY <2>1, <2>2, <2>3, <2>5, <2>6, <2>8, <2>9, <4>2
      <4>. QED
        BY <2>8, <4>1, <4>2
    <3>. QED
      BY <2>5, <3>1 DEF PluginsSound, Loaded
  <2>13. LoadingSound'
    <3>1. starting' # 0 => plugins'[starting'].entry = "method"
      BY <2>1, <2>3, <2>5
    <3>2. ASSUME NEW other \in listed' \ todo'
          PROVE  \E i \in 1..n : plugins'[i].name = other
      <4>1. CASE other = name
        BY <2>3, <2>5, <2>8, <4>1
      <4>2. CASE other # name
        <5>1. FindPlugin(other) # {}
          BY <3>2, <4>2 DEF PInv, LoadingSound
        <5>2. PICK i \in 1..Len(plugins) : plugins[i].name = other
          BY <5>1 DEF FindPlugin
        <5>. QED
          BY <2>5, <2>8, <5>2
      <4>. QED
        BY <4>1, <4>2
    <3>3. \A other \in listed' \ todo' : FindPlugin(other)' # {}
      BY <2>5, <3>2 DEF FindPlugin
    <3>. QED
      BY <2>9, <3>1, <3>3 DEF PInv, LoadingSound
  <2>14. FibersSound'
    <3>1. ASSUME NEW j \in 1..n
          PROVE  /\ Len(fibers'[j]) <= MaxFibers
                 /\ Len(fibers'[j]) > 0 => plugins'[j].entry # "null"
                 /\ isolates'[j] = "null" => \A f \in DOMAIN fibers'[j] : fibers'[j][f] = "freed"
      <4>1. CASE j \in 1..Len(plugins)
        <5>1. /\ fibers'[j] = fibers[j] /\ isolates'[j] = isolates[j]
              /\ plugins'[j] = plugins[j]
          BY <2>5, <2>6, <2>7, <4>1
        <5>2. j \in 1..Len(fibers)
          BY <2>4, <4>1
        <5>. QED
          BY <5>1, <5>2 DEF PInv, FibersSound
      <4>2. CASE j = n
        BY <2>6, <2>7, <4>2
      <4>. QED
        BY <2>8, <4>1, <4>2
    <3>. QED
      BY <2>7, <3>1 DEF FibersSound
  <2>15. HandlesSound'
    <3>1. ASSUME NEW r \in requests
          PROVE  /\ fibers'[r.isolate] = fibers[r.isolate]
                 /\ isolates'[r.isolate] = isolates[r.isolate]
      <4>1. r.isolate \in 1..Len(plugins)
        BY <2>4 DEF PInv, TypeOK
      <4>. QED
        BY <2>6, <2>7, <4>1
    <3>2. \A j \in 1..n : \A f \in DOMAIN fibers'[j] : fibers'[j][f] = "waiting" =>
            \E r \in requests : r.isolate = j /\ r.fiber = f
      <4>1. ASSUME NEW j \in 1..n, NEW f \in DOMAIN fibers'[j], fibers'[j][f] = "waiting"
            PROVE  \E r \in requests : r.isolate = j /\ r.fiber = f
        <5>1. j \in 1..Len(fibers)
          BY <2>4, <2>7, <2>8, <4>1
        <5>2. f \in DOMAIN fibers[j] /\ fibers[j][f] = "waiting"
          BY <2>4, <2>7, <4>1, <5>1
        <5>. QED
          BY <5>1, <5>2 DEF PInv, HandlesSound
      <4>. QED
        BY <4>1
    <3>3. fault' = "none" /\ breached' = breached /\ requests' = requests
      BY <2>1
    <3>4. \A r \in requests' : r.fiber \in DOMAIN fibers'[r.isolate]
      BY <3>1, <3>3 DEF PInv, HandlesSound
    <3>5. \A r \in requests' :
            /\ isolates'[r.isolate] # "null" => fibers'[r.isolate][r.fiber] = "waiting"
            /\ isolates'[r.isolate] = "null" /\ r.kind = "unasked" => "pending" \in breached'
      BY <3>1, <3>3 DEF PInv, HandlesSound, IsolateExists
    <3>6. \A j \in 1..Len(fibers') : \A f \in DOMAIN fibers'[j] : fibers'[j][f] = "waiting" =>
            \E r \in requests' : r.isolate = j /\ r.fiber = f
      <4>1. Len(fibers') = n
        BY <2>7
      <4>. QED
        BY <3>2, <3>3, <4>1
    <3>7. \A q, r \in requests' : q.isolate = r.isolate /\ q.fiber = r.fiber => q = r
      BY <3>3 DEF PInv, HandlesSound
    <3>. QED
      BY <3>4, <3>5, <3>6, <3>7 DEF HandlesSound, IsolateExists
  <2>16. FaultsExplained'
    BY <2>1 DEF FaultsExplained
  <2>. QED
    BY <2>10, <2>11, <2>12, <2>13, <2>14, <2>15, <2>16 DEF PInv
<1>. QED
  BY <1>1, <1>2

(* A directory is listed.                                                  *)
LEMMA ListPreserves ==
    ASSUME PInv, NEW files \in SUBSET Names, Idle, ListFiles(files),
           UNCHANGED <<objects, requests, starting, running, breached, fault>>,
           \/ started' = started /\ lua' = lua /\ lua # "none"
           \/ ~started /\ started' = TRUE /\ lua' = "open"
    PROVE  PInv'
<1>1. UNCHANGED <<plugins, isolates, fibers, requests, starting, running, breached, fault>>
  BY DEF objects
<1>2. /\ starting = 0 /\ running = Nobody /\ fault = "none"
      /\ listed' = files /\ todo' = files
  BY DEF Idle, Loading, ListFiles
<1>3. lua' # lua => Len(plugins) = 0
  BY DEF PInv, LoadingSound
<1>4. lua' # "none" /\ started' = TRUE
  BY DEF PInv, LoadingSound
<1>5. TypeOK'
  BY <1>1, <1>2 DEF PInv, TypeOK
<1>6. ListedOnce'
  BY <1>1 DEF PInv, ListedOnce
<1>7. PluginsSound'
  <2>1. CASE lua' = lua
    BY <1>1, <2>1 DEF PInv, PluginsSound, Loaded
  <2>2. CASE lua' # lua
    BY <1>1, <1>3, <2>2 DEF PluginsSound
  <2>. QED
    BY <2>1, <2>2
<1>8. LoadingSound'
  BY <1>1, <1>2, <1>4 DEF LoadingSound
<1>9. FibersSound' /\ HandlesSound' /\ FaultsExplained'
  BY <1>1, <1>2 DEF PInv, FibersSound, HandlesSound, FaultsExplained, IsolateExists
<1>. QED
  BY <1>5, <1>6, <1>7, <1>8, <1>9 DEF PInv

LEMMA DuoStartPreserves ==
    ASSUME PInv, NEW files \in SUBSET Names, DuoStart(files)
    PROVE  PInv'
BY ListPreserves DEF DuoStart

LEMMA LoadAllPluginsPreserves ==
    ASSUME PInv, NEW files \in SUBSET Names, LoadAllPlugins(files)
    PROVE  PInv'
BY ListPreserves DEF LoadAllPlugins

LEMMA LoadPluginPreserves ==
    ASSUME PInv, NEW name \in Names, NEW archive \in Archives, LoadPlugin(name, archive)
    PROVE  PInv'
BY LoadPreserves DEF LoadPlugin, Idle, Loading

(* A file whose plugin is there is skipped, any other is loaded.           *)
LEMMA LoadNextPreserves ==
    ASSUME PInv, NEW name \in Names, NEW archive \in Archives, LoadNext(name, archive)
    PROVE  PInv'
<1>1. /\ name \in todo /\ starting = 0 /\ running = Nobody /\ fault = "none"
      /\ todo' = todo \ {name}
      /\ UNCHANGED <<started, requests, listed, running, lua>>
  BY DEF LoadNext
<1>2. lua # "none"
  BY <1>1 DEF PInv, TypeOK, LoadingSound
<1>3. CASE FindPlugin(name) = {} /\ LoadPluginInternal(name, archive, TRUE)
  BY <1>1, <1>2, <1>3, LoadPreserves
<1>4. CASE FindPlugin(name) # {} /\ UNCHANGED <<objects, starting, breached, fault>>
  <2>1. UNCHANGED <<started, plugins, isolates, fibers, requests, listed, starting,
                    running, lua, breached, fault>>
    BY <1>1, <1>4 DEF objects
  <2>2. TypeOK'
    BY <1>1, <2>1 DEF PInv, TypeOK
  <2>3. LoadingSound'
    BY <1>1, <1>2, <1>4, <2>1 DEF PInv, LoadingSound, FindPlugin
  <2>4. ListedOnce' /\ PluginsSound' /\ FibersSound' /\ HandlesSound' /\ FaultsExplained'
    BY <2>1 DEF PInv, ListedOnce, PluginsSound, FibersSound, HandlesSound,
                FaultsExplained, Loaded, IsolateExists
  <2>. QED
    BY <2>2, <2>3, <2>4 DEF PInv
<1>. QED
  BY <1>3, <1>4 DEF LoadNext

(* The entry method's fiber is new and is the one that runs.               *)
LEMMA StartPreserves ==
    ASSUME PInv, Start
    PROVE  PInv'
<1>. PICK i : i = starting
  OBVIOUS
<1>1. /\ i # 0 /\ running = Nobody /\ fault = "none" /\ starting' = 0
      /\ Len(fibers[i]) < MaxFibers
      /\ plugins' = [plugins EXCEPT ![i].starts = @ + 1]
      /\ fibers' = [fibers EXCEPT ![i] = Append(@, "running")]
      /\ running' = <<i, Len(fibers[i]) + 1>>
      /\ UNCHANGED <<started, isolates, requests, listed, todo, lua, breached, fault>>
  BY DEF Start
<1>2. /\ i \in 1..Len(plugins)
      /\ plugins[i].entry = "method" /\ lua = "open"
  BY <1>1, VectorsTyped DEF PInv, TypeOK, LoadingSound
<1>3. /\ plugins[i].success /\ plugins[i].starts = 0
      /\ isolates[i] = "live"
  BY <1>1, <1>2, VectorsTyped DEF PInv, PluginsSound, Loaded
<1>. PICK p : p = [plugins[i] EXCEPT !.starts = @ + 1]
  OBVIOUS
<1>4. /\ plugins[i] \in PluginRecords
      /\ plugins' = [plugins EXCEPT ![i] = p]
  <2>1. plugins \in Seq(PluginRecords)
    BY DEF PInv, TypeOK, PluginRecords
  <2>. QED
    BY <1>1, <1>2, <2>1, ElementOfSeq
<1>5. /\ p \in PluginRecords
      /\ p.name = plugins[i].name /\ p.listed = plugins[i].listed
      /\ p.success = plugins[i].success /\ p.entry = plugins[i].entry
      /\ p.starts = 1
  <2>. PICK q : q = plugins[i]
    OBVIOUS
  <2>1. q \in PluginRecords /\ q.starts = 0 /\ p = [q EXCEPT !.starts = @ + 1]
    BY <1>3, <1>4
  <2>2. /\ p \in PluginRecords
        /\ p.name = q.name /\ p.listed = q.listed
        /\ p.success = q.success /\ p.entry = q.entry
        /\ p.starts = 1
    BY <2>1 DEF PluginRecords
  <2>. QED
    BY <2>2
<1>6. /\ plugins' \in Seq(PluginRecords)
      /\ Len(plugins') = Len(plugins)
      /\ plugins'[i] = p
      /\ \A j \in 1..Len(plugins) \ {i} : plugins'[j] = plugins[j]
  BY <1>2, <1>4, <1>5, PluginReplaced
<1>. PICK s, f : s = Append(fibers[i], "running") /\ f = Len(fibers[i]) + 1
  OBVIOUS
<1>7. /\ s \in Seq(FiberStates)
      /\ Len(s) = f /\ f \in Nat \ {0}
      /\ DOMAIN s = DOMAIN fibers[i] \union {f} /\ f \notin DOMAIN fibers[i]
      /\ s[f] = "running"
      /\ \A g \in DOMAIN fibers[i] : s[g] = fibers[i][g]
  <2>1. fibers[i] \in Seq(FiberStates) /\ "running" \in FiberStates
    BY <1>2, VectorsTyped DEF FiberStates
  <2>. QED
    BY <2>1, SlotAppended
<1>8. /\ fibers' \in Seq(Seq(FiberStates))
      /\ Len(fibers') = Len(fibers)
      /\ fibers'[i] = s
      /\ \A j \in 1..Len(plugins) \ {i} : fibers'[j] = fibers[j]
  <2>1. fibers' = [fibers EXCEPT ![i] = s]
    BY <1>1
  <2>. QED
    BY <1>2, <1>7, <2>1, FibersReplaced
<1>9. /\ Len(plugins) \in Nat /\ Len(fibers) = Len(plugins) /\ Len(isolates) = Len(plugins)
      /\ Len(fibers[i]) \in Nat /\ f \in 1..Len(s) /\ f <= MaxFibers
  BY <1>1, <1>2, <1>7, VectorsTyped
<1>10. TypeOK'
  <2>1. running'[1] \in 1..Len(fibers') /\ running'[2] \in 1..Len(fibers'[running'[1]])
    BY <1>1, <1>2, <1>8, <1>9
  <2>2. plugins' \in Seq([name: Names, success: BOOLEAN, entry: Entries,
                          listed: BOOLEAN, starts: Nat])
    BY <1>6 DEF PluginRecords
  <2>3. Len(plugins') <= MaxPlugins /\ starting' \in 0..Len(plugins')
    BY <1>1, <1>6, <1>9 DEF PInv, TypeOK
  <2>. QED
    BY <1>1, <1>6, <1>8, <2>1, <2>2, <2>3 DEF PInv, TypeOK
<1>11. ASSUME NEW j \in 1..Len(plugins)
       PROVE  /\ plugins'[j].name = plugins[j].name
              /\ plugins'[j].listed = plugins[j].listed
              /\ plugins'[j].success = plugins[j].success
              /\ plugins'[j].entry = plugins[j].entry
              /\ plugins'[j].starts = IF j = i THEN 1 ELSE plugins[j].starts
  BY <1>5, <1>6
<1>12. ListedOnce'
  BY <1>6, <1>11 DEF PInv, ListedOnce
<1>13. PluginsSound'
  <2>1. ASSUME NEW j \in 1..Len(plugins)
        PROVE  /\ ~plugins'[j].success <=> plugins'[j].entry = "null"
               /\ isolates'[j] = "null" <=> plugins'[j].entry = "deleted"
               /\ plugins'[j].entry = "deleted" => lua' = "closed"
               /\ plugins'[j].entry = "method" /\ lua' = "closed" => "others" \in breached'
    BY <1>1, <1>11 DEF PInv, PluginsSound, Loaded
  <2>2. ASSUME NEW j \in 1..Len(plugins)
        PROVE  plugins'[j].starts = IF plugins'[j].success /\ j # starting' THEN 1 ELSE 0
    <3>1. j # starting'
      BY <1>1
    <3>2. CASE j = i
      BY <1>3, <1>11, <3>1, <3>2
    <3>3. CASE j # i
      BY <1>11, <3>1, <3>3 DEF PInv, PluginsSound, Loaded
    <3>. QED
      BY <3>2, <3>3
  <2>. QED
    BY <1>6, <2>1, <2>2 DEF PluginsSound, Loaded
<1>14. LoadingSound'
  <2>1. \A name \in Names : FindPlugin(name)' = FindPlugin(name)
    BY <1>6, <1>11 DEF FindPlugin
  <2>2. listed \subseteq Names
    BY DEF PInv, TypeOK
  <2>. QED
    BY <1>1, <1>2, <2>1, <2>2 DEF PInv, LoadingSound
<1>15. FibersSound'
  <2>1. ASSUME NEW j \in 1..Len(plugins)
        PROVE  /\ Len(fibers'[j]) <= MaxFibers
               /\ Len(fibers'[j]) > 0 => plugins'[j].entry # "null"
               /\ isolates'[j] = "null" => \A g \in DOMAIN fibers'[j] : fibers'[j][g] = "freed"
    <3>1. CASE j = i
      BY <1>1, <1>2, <1>3, <1>7, <1>8, <1>9, <1>11, <3>1
    <3>2. CASE j # i
      <4>1. fibers'[j] = fibers[j] /\ isolates'[j] = isolates[j] /\ j \in 1..Len(fibers)
        BY <1>1, <1>8, <1>9, <3>2
      <4>. QED
        BY <1>11, <4>1 DEF PInv, FibersSound
    <3>. QED
      BY <3>1, <3>2
  <2>2. fibers'[running'[1]][running'[2]] = "running" /\ isolates'[running'[1]] = "live"
    BY <1>1, <1>3, <1>7, <1>8
  <2>. QED
    BY <1>1, <1>2, <1>8, <1>9, <2>1, <2>2 DEF FibersSound
<1>16. HandlesSound'
  <2>1. ASSUME NEW r \in requests
        PROVE  /\ r.fiber \in DOMAIN fibers'[r.isolate]
               /\ fibers'[r.isolate][r.fiber] = fibers[r.isolate][r.fiber]
    <3>1. r.isolate \in 1..Len(plugins) /\ r.fiber \in DOMAIN fibers[r.isolate]
      BY <1>9 DEF PInv, TypeOK, HandlesSound
    <3>2. CASE r.isolate = i
      <4>1. fibers'[r.isolate] = s /\ fibers[r.isolate] = fibers[i]
        BY <1>8, <3>2
      <4>. QED
        BY <1>7, <3>1, <4>1
    <3>3. CASE r.isolate # i
      <4>1. fibers'[r.isolate] = fibers[r.isolate]
        BY <1>8, <3>1, <3>3
      <4>. QED
        BY <3>1, <4>1
    <3>. QED
      BY <3>2, <3>3
  <2>2. ASSUME NEW j \in 1..Len(plugins), NEW g \in DOMAIN fibers'[j],
               fibers'[j][g] = "waiting"
        PROVE  \E r \in requests : r.isolate = j /\ r.fiber = g
    <3>1. CASE j = i
      <4>1. fibers'[j] = s /\ fibers[j] = fibers[i]
        BY <1>8, <3>1
      <4>2. g # f /\ g \in DOMAIN fibers[i]
        BY <1>7, <2>2, <4>1
      <4>3. fibers[j][g] = "waiting" /\ g \in DOMAIN fibers[j]
        BY <1>7, <2>2, <4>1, <4>2
      <4>. QED
        BY <1>1, <1>9, <4>3 DEF PInv, HandlesSound
    <3>2. CASE j # i
      <4>1. fibers'[j] = fibers[j]
        BY <1>8, <3>2
      <4>. QED
        BY <1>1, <1>9, <2>2, <4>1 DEF PInv, HandlesSound
    <3>. QED
      BY <3>1, <3>2
  <2>3. \A r \in requests : r.fiber \in DOMAIN fibers'[r.isolate]
    BY <2>1
  <2>4. \A r \in requests :
          /\ isolates[r.isolate] # "null" => fibers'[r.isolate][r.fiber] = "waiting"
          /\ isolates[r.isolate] = "null" /\ r.kind = "unasked" => "pending" \in breached
    BY <1>1, <2>1 DEF PInv, HandlesSound, IsolateExists
  <2>5. \A j \in 1..Len(fibers') : \A g \in DOMAIN fibers'[j] :
          fibers'[j][g] = "waiting" => \E r \in requests : r.isolate = j /\ r.fiber = g
    <3>1. Len(fibers') = Len(plugins)
      BY <1>8, <1>9
    <3>. QED
      BY <2>2, <3>1
  <2>6. \A q, r \in requests : q.isolate = r.isolate /\ q.fiber = r.fiber => q = r
    BY DEF PInv, HandlesSound
  <2>. QED
    BY <1>1, <2>3, <2>4, <2>5, <2>6 DEF HandlesSound, IsolateExists
<1>17. FaultsExplained'
  BY <1>1 DEF FaultsExplained
<1>. QED
  BY <1>10, <1>12, <1>13, <1>14, <1>15, <1>16, <1>17 DEF PInv

-----------------------------------------------------------------------------
(* Callbacks and stopping.                                                 *)

(* What a callback meets is explained by what was broken before.           *)
LEMMA ContinueExplained ==
    ASSUME PInv, fault = "none", NEW r \in requests, r.kind = "unasked" \/ FiberExists(r),
           fault' = ContinueFault(r)
    PROVE  /\ fault' = "null_isolate" => "pending" \in breached
           /\ fault' = "closed_state" => "others" \in breached
           /\ fault' \in {"none", "null_isolate", "closed_state"}
<1>1. /\ r.isolate \in 1..Len(plugins)
      /\ r.fiber \in DOMAIN fibers[r.isolate]
  <2>1. r.isolate \in 1..Len(isolates) /\ r.fiber \in DOMAIN fibers[r.isolate]
    BY DEF PInv, TypeOK, HandlesSound
  <2>. QED
    BY <2>1, VectorsTyped
<1>2. CASE ~IsolateExists(r.isolate)
  <2>1. r.kind = "unasked" /\ fault' = "null_isolate"
    BY <1>2 DEF FiberExists, ContinueFault
  <2>. QED
    BY <1>2, <2>1 DEF PInv, HandlesSound
<1>3. CASE IsolateExists(r.isolate) /\ lua = "closed"
  <2>1. Len(fibers[r.isolate]) > 0
    BY <1>1, VectorsTyped
  <2>2. plugins[r.isolate].entry # "null"
    BY <1>1, <2>1, VectorsTyped DEF PInv, FibersSound
  <2>3. plugins[r.isolate].entry # "deleted"
    BY <1>1, <1>3 DEF PInv, PluginsSound, IsolateExists
  <2>4. plugins[r.isolate].entry = "method"
    BY <1>1, <2>2, <2>3, VectorsTyped DEF Entries
  <2>5. "others" \in breached
    BY <1>1, <1>3, <2>4 DEF PInv, PluginsSound
  <2>6. fault' = "closed_state"
    BY <1>3 DEF ContinueFault
  <2>. QED
    BY <2>5, <2>6
<1>4. CASE IsolateExists(r.isolate) /\ lua # "closed"
  <2>1. fibers[r.isolate][r.fiber] = "waiting"
    BY <1>4 DEF PInv, HandlesSound
  <2>. QED
    BY <1>4, <2>1 DEF ContinueFault
<1>. QED
  BY <1>2, <1>3, <1>4

(* A callback of the event loop continues the fiber that its handle names. *)
LEMMA CompletePreserves ==
    ASSUME PInv, NEW r \in requests, Complete(r)
    PROVE  PInv'
<1>1. /\ todo = {} /\ starting = 0 /\ running = Nobody /\ fault = "none"
      /\ requests' = requests \ {r}
      /\ UNCHANGED <<started, plugins, isolates, listed, todo, starting, lua, breached>>
  BY DEF Complete, Idle, Loading, loading
<1>2. /\ r.isolate \in 1..Len(plugins)
      /\ r.fiber \in DOMAIN fibers[r.isolate]
      /\ r.fiber \in 1..Len(fibers[r.isolate])
  <2>1. r.isolate \in 1..Len(isolates) /\ r.fiber \in DOMAIN fibers[r.isolate]
    BY DEF PInv, TypeOK, HandlesSound
  <2>. QED
    BY <2>1, VectorsTyped
<1>3. CASE /\ r.kind = "asked" /\ ~FiberExists(r)
           /\ UNCHANGED <<fibers, running, fault>>
  <2>1. TypeOK'
    BY <1>1, <1>3 DEF PInv, TypeOK
  <2>2. ListedOnce' /\ PluginsSound' /\ LoadingSound' /\ FibersSound' /\ FaultsExplained'
    BY <1>1, <1>3 DEF PInv, ListedOnce, PluginsSound, LoadingSound, FibersSound,
                      FaultsExplained, Loaded, FindPlugin
  <2>3. \A f \in DOMAIN fibers[r.isolate] : fibers[r.isolate][f] # "waiting"
    <3>1. isolates[r.isolate] = "null" /\ r.isolate \in 1..Len(fibers)
      BY <1>2, <1>3, VectorsTyped DEF FiberExists, IsolateExists
    <3>. QED
      BY <3>1 DEF PInv, FibersSound
  <2>4. HandlesSound'
    BY <1>1, <1>3, <2>3 DEF PInv, HandlesSound, IsolateExists
  <2>. QED
    BY <2>1, <2>2, <2>4 DEF PInv
<1>4. CASE /\ r.kind = "unasked" \/ FiberExists(r)
           /\ fault' = ContinueFault(r)
           /\ fault' # "none"
           /\ UNCHANGED <<fibers, running>>
  <2>1. /\ FaultsExplained'
        /\ fault' \in {"deleted_twice", "null_isolate", "closed_state"}
    BY <1>1, <1>4, ContinueExplained DEF FaultsExplained
  <2>2. breached' \subseteq Allowed /\ UNCHANGED objects
    BY <1>1, <1>4 DEF PInv, TypeOK, objects
  <2>. QED
    BY <1>1, <1>4, <2>1, <2>2, FaultMetPreserves
<1>5. CASE /\ r.kind = "unasked" \/ FiberExists(r)
           /\ fault' = ContinueFault(r)
           /\ fault' = "none"
           /\ fibers' = [fibers EXCEPT ![r.isolate][r.fiber] = "running"]
           /\ running' = <<r.isolate, r.fiber>>
  <2>. PICK i, f : i = r.isolate /\ f = r.fiber
    OBVIOUS
  <2>1. /\ IsolateExists(i) /\ lua # "closed"
    BY <1>5 DEF ContinueFault
  <2>2. /\ isolates[i] = "live" /\ fibers[i][f] = "waiting" /\ lua = "open"
    <3>1. lua # "none"
      BY <1>2 DEF PInv, LoadingSound
    <3>. QED
      BY <1>1, <1>2, <2>1, <3>1, VectorsTyped DEF PInv, TypeOK, HandlesSound, IsolateExists
  <2>. PICK t : t = [fibers[i] EXCEPT ![f] = "running"]
    OBVIOUS
  <2>3. /\ t \in Seq(FiberStates)
        /\ Len(t) = Len(fibers[i]) /\ DOMAIN t = DOMAIN fibers[i]
        /\ t[f] = "running"
        /\ \A g \in DOMAIN fibers[i] \ {f} : t[g] = fibers[i][g]
    <3>1. fibers[i] \in Seq(FiberStates) /\ "running" \in FiberStates
      BY <1>2, VectorsTyped DEF FiberStates
    <3>. QED
      BY <1>2, <3>1, SlotReplaced
  <2>4. /\ fibers' \in Seq(Seq(FiberStates))
        /\ Len(fibers') = Len(fibers)
        /\ fibers'[i] = t
        /\ \A j \in 1..Len(plugins) \ {i} : fibers'[j] = fibers[j]
    <3>1. fibers' = [fibers EXCEPT ![i] = t]
      BY <1>5
    <3>2. i \in 1..Len(plugins) /\ t \in Seq(FiberStates)
      BY <1>2, <2>3
    <3>. QED
      BY <3>1, <3>2, FibersReplaced
  <2>5. /\ Len(plugins) \in Nat /\ Len(fibers) = Len(plugins) /\ Len(isolates) = Len(plugins)
        /\ Len(fibers[i]) \in Nat /\ DOMAIN fibers[i] = 1..Len(fibers[i])
    BY <1>2, VectorsTyped
  <2>6. TypeOK'
    <3>1. running'[1] \in 1..Len(fibers') /\ running'[2] \in 1..Len(fibers'[running'[1]])
      BY <1>2, <1>5, <2>3, <2>4, <2>5
    <3>. QED
      BY <1>1, <1>5, <2>4, <3>1 DEF PInv, TypeOK
  <2>7. ListedOnce' /\ PluginsSound' /\ FaultsExplained'
    BY <1>1, <1>5 DEF PInv, ListedOnce, PluginsSound, FaultsExplained, Loaded
  <2>8. LoadingSound'
    BY <1>1, <1>5 DEF PInv, LoadingSound, FindPlugin
  <2>9. FibersSound'
    <3>1. ASSUME NEW j \in 1..Len(plugins)
          PROVE  /\ Len(fibers'[j]) <= MaxFibers
                 /\ Len(fibers'[j]) > 0 => plugins'[j].entry # "null"
                 /\ isolates'[j] = "null" => \A g \in DOMAIN fibers'[j] : fibers'[j][g] = "freed"
      <4>1. Len(fibers'[j]) = Len(fibers[j]) /\ (j # i => fibers'[j] = fibers[j])
        BY <2>3, <2>4
      <4>2. j \in 1..Len(fibers) /\ plugins' = plugins /\ isolates' = isolates
        BY <1>1, <2>5
      <4>. QED
        BY <2>2, <4>1, <4>2 DEF PInv, FibersSound
    <3>2. fibers'[running'[1]][running'[2]] = "running" /\ isolates'[running'[1]] = "live"
      BY <1>1, <1>5, <2>2, <2>3, <2>4
    <3>. QED
      BY <1>1, <1>5, <2>2, <2>4, <2>5, <3>1, <3>2 DEF FibersSound
  <2>10. HandlesSound'
    <3>1. ASSUME NEW q \in requests
          PROVE  /\ q.isolate \in 1..Len(plugins)
                 /\ q.fiber \in DOMAIN fibers'[q.isolate]
                 /\ q # r => fibers'[q.isolate][q.fiber] = fibers[q.isolate][q.fiber]
      <4>1. q.isolate \in 1..Len(plugins) /\ q.fiber \in DOMAIN fibers[q.isolate]
        BY <2>5 DEF PInv, TypeOK, HandlesSound
      <4>2. q # r => ~(q.isolate = i /\ q.fiber = f)
        BY DEF PInv, HandlesSound
      <4>3. CASE q.isolate = i
        <5>1. fibers'[q.isolate] = t /\ fibers[q.isolate] = fibers[i]
          BY <2>4, <4>3
        <5>2. q # r => q.fiber # f
          BY <4>2, <4>3
        <5>. QED
          BY <2>3, <4>1, <5>1, <5>2
      <4>4. CASE q.isolate # i
        <5>1. fibers'[q.isolate] = fibers[q.isolate]
          BY <2>4, <4>1, <4>4
        <5>. QED
          BY <4>1, <5>1
      <4>. QED
        BY <4>1, <4>3, <4>4
    <3>2. ASSUME NEW j \in 1..Len(plugins), NEW g \in DOMAIN fibers'[j],
                 fibers'[j][g] = "waiting"
          PROVE  \E q \in requests' : q.isolate = j /\ q.fiber = g
      <4>1. ~(j = i /\ g = f)
        BY <2>3, <2>4, <3>2
      <4>2. g \in DOMAIN fibers[j] /\ fibers[j][g] = "waiting"
        BY <2>3, <2>4, <3>2, <4>1
      <4>3. \E q \in requests : q.isolate = j /\ q.fiber = g
        BY <1>1, <2>5, <4>2 DEF PInv, HandlesSound
      <4>. QED
        BY <1>1, <4>1, <4>3
    <3>. QED
      BY <1>1, <1>5, <2>4, <2>5, <3>1, <3>2 DEF PInv, HandlesSound, IsolateExists
  <2>. QED
    BY <2>6, <2>7, <2>8, <2>9, <2>10 DEF PInv
<1>. QED
  BY <1>3, <1>4, <1>5 DEF Complete

(* What deleting the isolate and the entry method meets is explained by    *)
(* the clauses that this very stop breaks.                                 *)
LEMMA StopExplained ==
    ASSUME PInv, NEW i \in 1..Len(plugins), Loaded(i)
    PROVE  /\ StopFault(i) = "deleted_twice" => StopBreaks(i) \intersect {"ended", "again"} # {}
           /\ StopFault(i) = "closed_state" => "others" \in breached
           /\ StopFault(i) \in {"none", "deleted_twice", "closed_state"}
<1>1. CASE plugins[i].entry = "deleted"
  <2>1. StopFault(i) = "deleted_twice" /\ "again" \in StopBreaks(i)
    BY <1>1 DEF StopFault, StopBreaks, Clauses
  <2>. QED
    BY <2>1
<1>2. CASE plugins[i].entry # "deleted" /\ lua = "closed"
  <2>1. plugins[i].entry = "method"
    BY <1>2, VectorsTyped DEF PInv, PluginsSound, Loaded, Entries
  <2>2. "others" \in breached
    BY <1>2, <2>1 DEF PInv, PluginsSound
  <2>3. StopFault(i) = "closed_state"
    BY <1>2 DEF StopFault
  <2>. QED
    BY <2>2, <2>3
<1>3. CASE plugins[i].entry # "deleted" /\ lua # "closed"
  <2>1. CASE \E f \in DOMAIN fibers[i] : fibers[i][f] = "freed"
    <3>1. StopFault(i) = "deleted_twice" /\ "ended" \in StopBreaks(i)
      BY <1>3, <2>1 DEF StopFault, StopBreaks, Clauses
    <3>. QED
      BY <3>1
  <2>2. CASE ~\E f \in DOMAIN fibers[i] : fibers[i][f] = "freed"
    BY <1>3, <2>2 DEF StopFault
  <2>. QED
    BY <2>1, <2>2
<1>. QED
  BY <1>1, <1>2, <1>3

(* Plugin::Stop deletes the isolate with its fibers, and closes the state. *)
LEMMA StopPreserves ==
    ASSUME PInv, NEW i \in 1..Len(plugins), Stop(i)
    PROVE  PInv'
<1>1. /\ todo = {} /\ starting = 0 /\ running = Nobody /\ fault = "none" /\ Loaded(i)
      /\ StopBreaks(i) \subseteq Allowed /\ breached' = breached \union StopBreaks(i)
      /\ fault' = StopFault(i)
      /\ UNCHANGED <<started, requests, listed, todo, starting, running>>
  BY DEF Stop, Idle, Loading, loading, Breaks
<1>2. breached' \subseteq Allowed /\ FaultsExplained'
  BY <1>1, StopExplained DEF PInv, TypeOK, FaultsExplained
<1>3. CASE fault' # "none" /\ UNCHANGED <<objects, lua>>
  BY <1>1, <1>2, <1>3, StopExplained, FaultMetPreserves
<1>4. CASE /\ fault' = "none"
           /\ plugins' = [plugins EXCEPT ![i].entry = "deleted"]
           /\ fibers' = [fibers EXCEPT ![i] = [f \in DOMAIN @ |-> "freed"]]
           /\ isolates' = [isolates EXCEPT ![i] = "null"]
           /\ lua' = "closed"
  <2>. PICK p : p = [plugins[i] EXCEPT !.entry = "deleted"]
    OBVIOUS
  <2>1. /\ plugins[i] \in PluginRecords
        /\ plugins' = [plugins EXCEPT ![i] = p]
    <3>1. plugins \in Seq(PluginRecords)
      BY DEF PInv, TypeOK, PluginRecords
    <3>. QED
      BY <1>4, <3>1, ElementOfSeq
  <2>2. /\ p \in PluginRecords
        /\ p.name = plugins[i].name /\ p.listed = plugins[i].listed
        /\ p.success = plugins[i].success /\ p.starts = plugins[i].starts
        /\ p.entry = "deleted"
    <3>. PICK q : q = plugins[i]
      OBVIOUS
    <3>1. q \in PluginRecords /\ p = [q EXCEPT !.entry = "deleted"]
      BY <2>1
    <3>2. /\ p \in PluginRecords
          /\ p.name = q.name /\ p.listed = q.listed
          /\ p.success = q.success /\ p.starts = q.starts
          /\ p.entry = "deleted"
      BY <3>1 DEF PluginRecords, Entries
    <3>. QED
      BY <3>2
  <2>3. /\ plugins' \in Seq(PluginRecords)
        /\ Len(plugins') = Len(plugins)
        /\ plugins'[i] = p
        /\ \A j \in 1..Len(plugins) \ {i} : plugins'[j] = plugins[j]
    BY <2>1, <2>2, PluginReplaced
  <2>. PICK s : s = [f \in DOMAIN fibers[i] |-> "freed"]
    OBVIOUS
  <2>4. /\ fibers[i] \in Seq(FiberStates) /\ "freed" \in FiberStates
        /\ Len(fibers[i]) \in Nat /\ DOMAIN fibers[i] = 1..Len(fibers[i])
    BY VectorsTyped DEF FiberStates
  <2>5. /\ s \in Seq(FiberStates)
        /\ Len(s) = Len(fibers[i]) /\ DOMAIN s = DOMAIN fibers[i]
        /\ \A g \in DOMAIN s : s[g] = "freed"
    BY <2>4
  <2>6. /\ fibers' \in Seq(Seq(FiberStates))
        /\ Len(fibers') = Len(fibers)
        /\ fibers'[i] = s
        /\ \A j \in 1..Len(plugins) \ {i} : fibers'[j] = fibers[j]
    <3>1. fibers' = [fibers EXCEPT ![i] = s]
      BY <1>4
    <3>. QED
      BY <2>5, <3>1, FibersReplaced
  <2>7. /\ isolates' \in Seq({"live", "null"})
        /\ Len(isolates') = Len(isolates)
        /\ isolates'[i] = "null"
        /\ \A j \in 1..Len(plugins) \ {i} : isolates'[j] = isolates[j]
    <3>1. isolates \in Seq({"live", "null"}) /\ Len(isolates) = Len(plugins)
      BY DEF PInv, TypeOK
    <3>. QED
      BY <1>4, <3>1
  <2>8. /\ Len(plugins) \in Nat /\ Len(fibers) = Len(plugins) /\ Len(isolates) = Len(plugins)
    BY VectorsTyped
  <2>9. ASSUME NEW j \in 1..Len(plugins)
        PROVE  /\ plugins'[j].name = plugins[j].name
               /\ plugins'[j].listed = plugins[j].listed
               /\ plugins'[j].success = plugins[j].success
               /\ plugins'[j].starts = plugins[j].starts
               /\ plugins'[j].entry = IF j = i THEN "deleted" ELSE plugins[j].entry
    BY <2>2, <2>3
  <2>10. TypeOK'
    <3>1. plugins' \in Seq([name: Names, success: BOOLEAN, entry: Entries,
                            listed: BOOLEAN, starts: Nat])
      BY <2>3 DEF PluginRecords
    <3>. QED
      BY <1>1, <1>2, <1>4, <2>3, <2>6, <2>7, <3>1 DEF PInv, TypeOK
  <2>11. ListedOnce'
    BY <2>3, <2>9 DEF PInv, ListedOnce
  <2>12. PluginsSound'
    <3>1. ASSUME NEW j \in 1..Len(plugins)
          PROVE  /\ ~plugins'[j].success <=> plugins'[j].entry = "null"
                 /\ isolates'[j] = "null" <=> plugins'[j].entry = "deleted"
                 /\ plugins'[j].entry = "method" => "others" \in breached'
                 /\ plugins'[j].starts = IF plugins'[j].success /\ j # starting' THEN 1 ELSE 0
      <4>1. plugins'[j].starts = IF plugins'[j].success /\ j # starting' THEN 1 ELSE 0
        BY <1>1, <2>9 DEF PInv, PluginsSound, Loaded
      <4>2. CASE j = i
        <5>1. plugins'[j].success /\ plugins'[j].entry = "deleted" /\ isolates'[j] = "null"
          BY <1>1, <2>7, <2>9, <4>2 DEF Loaded
        <5>. QED
          BY <4>1, <5>1
      <4>3. CASE j # i
        <5>1. plugins'[j].entry = plugins[j].entry /\ isolates'[j] = isolates[j]
          BY <2>7, <2>9, <4>3
        <5>2. ASSUME plugins[j].entry = "method"
              PROVE  "others" \in StopBreaks(i)
          <6>1. Loaded(j)
            BY <5>2 DEF PInv, PluginsSound
          <6>. QED
            BY <4>3, <5>2, <6>1 DEF StopBreaks, Clauses
        <5>. QED
          BY <1>1, <2>9, <4>1, <5>1, <5>2 DEF PInv, PluginsSound, Loaded
      <4>. QED
        BY <4>2, <4>3
    <3>. QED
      BY <1>4, <2>3, <3>1 DEF PluginsSound, Loaded
  <2>13. LoadingSound'
    <3>1. \A name \in Names : FindPlugin(name)' = FindPlugin(name)
      BY <2>3, <2>9 DEF FindPlugin
    <3>2. listed \subseteq Names
      BY DEF PInv, TypeOK
    <3>3. started /\ lua # "none"
      BY <2>8 DEF PInv, LoadingSound
    <3>. QED
      BY <1>1, <1>4, <3>1, <3>2, <3>3 DEF PInv, LoadingSound
  <2>14. FibersSound'
    <3>1. ASSUME NEW j \in 1..Len(plugins)
          PROVE  /\ Len(fibers'[j]) <= MaxFibers
                 /\ Len(fibers'[j]) > 0 => plugins'[j].entry # "null"
                 /\ isolates'[j] = "null" => \A g \in DOMAIN fibers'[j] : fibers'[j][g] = "freed"
      <4>0. j \in 1..Len(fibers)
        BY <2>8
      <4>1. CASE j = i
        <5>1. fibers'[j] = s /\ plugins'[j].entry = "deleted" /\ Len(s) = Len(fibers[j])
          BY <2>5, <2>6, <2>9, <4>1
        <5>. QED
          BY <2>5, <4>0, <5>1 DEF PInv, FibersSound
      <4>2. CASE j # i
        <5>1. /\ fibers'[j] = fibers[j] /\ isolates'[j] = isolates[j]
              /\ plugins'[j].entry = plugins[j].entry
          BY <2>6, <2>7, <2>9, <4>2
        <5>. QED
          BY <4>0, <5>1 DEF PInv, FibersSound
      <4>. QED
        BY <4>1, <4>2
    <3>2. Len(fibers') = Len(plugins) /\ running' = Nobody
      BY <1>1, <2>6, <2>8
    <3>. QED
      BY <3>1, <3>2 DEF FibersSound
  <2>15. HandlesSound'
    <3>1. ASSUME NEW r \in requests
          PROVE  /\ r.fiber \in DOMAIN fibers'[r.isolate]
                 /\ isolates'[r.isolate] # "null" => fibers'[r.isolate][r.fiber] = "waiting"
                 /\ isolates'[r.isolate] = "null" /\ r.kind = "unasked" => "pending" \in breached'
      <4>1. r.isolate \in 1..Len(plugins) /\ r.fiber \in DOMAIN fibers[r.isolate]
        BY <2>8 DEF PInv, TypeOK, HandlesSound
      <4>2. CASE r.isolate = i
        <5>1. fibers'[r.isolate] = s /\ isolates'[r.isolate] = "null"
          BY <2>6, <2>7, <4>2
        <5>2. r.kind = "unasked" => "pending" \in StopBreaks(i)
          BY <4>2 DEF StopBreaks, Clauses
        <5>. QED
          BY <1>1, <2>5, <4>1, <4>2, <5>1, <5>2
      <4>3. CASE r.isolate # i
        <5>1. fibers'[r.isolate] = fibers[r.isolate] /\ isolates'[r.isolate] = isolates[r.isolate]
          BY <2>6, <2>7, <4>1, <4>3
        <5>. QED
          BY <1>1, <4>1, <5>1 DEF PInv, HandlesSound, IsolateExists
      <4>. QED
        BY <4>2, <4>3
    <3>2. ASSUME NEW j \in 1..Len(plugins), NEW g \in DOMAIN fibers'[j],
                 fibers'[j][g] = "waiting"
          PROVE  \E r \in requests : r.isolate = j /\ r.fiber = g
      <4>1. CASE j = i
        <5>1. fibers'[j] = s
          BY <2>6, <4>1
        <5>. QED
          BY <2>5, <3>2, <5>1
      <4>2. CASE j # i
        <5>1. fibers'[j] = fibers[j] /\ j \in 1..Len(fibers)
          BY <2>6, <2>8, <4>2
        <5>. QED
          BY <1>1, <3>2, <5>1 DEF PInv, HandlesSound
      <4>. QED
        BY <4>1, <4>2
    <3>3. \A j \in 1..Len(fibers') : \A g \in DOMAIN fibers'[j] :
            fibers'[j][g] = "waiting" => \E r \in requests : r.isolate = j /\ r.fiber = g
      <4>1. Len(fibers') = Len(plugins)
        BY <2>6, <2>8
      <4>. QED
        BY <3>2, <4>1
    <3>4. \A q, r \in requests : q.isolate = r.isolate /\ q.fiber = r.fiber => q = r
      BY DEF PInv, HandlesSound
    <3>. QED
      BY <1>1, <3>1, <3>3, <3>4 DEF HandlesSound, IsolateExists
  <2>. QED
    BY <1>2, <2>10, <2>11, <2>12, <2>13, <2>14, <2>15 DEF PInv
<1>. QED
  BY <1>3, <1>4 DEF Stop

-----------------------------------------------------------------------------
(* The theorems.                                                           *)

LEMMA InitSound == Init => PInv
<1>1. SUFFICES ASSUME Init
               PROVE  PInv
  OBVIOUS
<1>2. /\ plugins = <<>> /\ isolates = <<>> /\ fibers = <<>> /\ started = FALSE
      /\ requests = {} /\ listed = {} /\ todo = {} /\ starting = 0
      /\ running = Nobody /\ lua = "none" /\ breached = {} /\ fault = "none"
  BY <1>1 DEF Init
<1>3. \A S : <<>> \in Seq(S)
  BY EmptySeq
<1>4. Len(plugins) = 0 /\ Len(isolates) = 0 /\ Len(fibers) = 0
  BY <1>2
<1>5. TypeOK
  <2>1. /\ plugins \in Seq([name: Names, success: BOOLEAN, entry: Entries,
                            listed: BOOLEAN, starts: Nat])
        /\ isolates \in Seq({"live", "null"})
        /\ fibers \in Seq(Seq(FiberStates))
    BY <1>2, <1>3, Zenon
  <2>2. Len(plugins) <= MaxPlugins /\ starting \in 0..Len(plugins)
    BY <1>2, <1>4
  <2>3. started \in BOOLEAN /\ breached \subseteq Allowed
    BY <1>2
  <2>. QED
    BY <1>2, <1>4, <2>1, <2>2, <2>3 DEF TypeOK
<1>6. ListedOnce /\ PluginsSound /\ LoadingSound /\ FibersSound /\ HandlesSound
      /\ FaultsExplained
  BY <1>2, <1>4 DEF ListedOnce, PluginsSound, LoadingSound, FibersSound,
                    HandlesSound, FaultsExplained
<1>. QED
  BY <1>5, <1>6 DEF PInv

LEMMA NextPreserves == PInv /\ [Next]_vars => PInv'
<1>1. ASSUME PInv, Next
      PROVE  PInv'
  BY <1>1, DuoStartPreserves, LoadAllPluginsPreserves, LoadPluginPreserves,
     LoadNextPreserves, StartPreserves, SpawnPreserves, ReturnPreserves,
     ResumeParkedPreserves, CompletePreserves, StopPreserves DEF Next
<1>2. ASSUME PInv, UNCHANGED vars
      PROVE  PInv'
  BY <1>2 DEF vars, PInv, TypeOK, ListedOnce, PluginsSound, LoadingSound, FibersSound,
              HandlesSound, FaultsExplained, Loaded, FindPlugin, IsolateExists
<1>. QED
  BY <1>1, <1>2

(* Whatever archives are found, whatever scripts do and whichever clauses  *)
(* are broken, plugins, isolates, fibers and handles stay as PInv says     *)
(* (PluginManager, Plugin, ScriptVM, ScriptIsolate).                       *)
THEOREM PluginsInductive == Spec => []PInv
BY InitSound, NextPreserves, PTL DEF Spec

(* Every kind of undefined behaviour needs a broken clause first           *)
(* (Plugin::Stop, ~ScriptIsolate, FiberHandle::Get).                       *)
THEOREM FaultsHaveCauses == Spec => []FaultsExplained
<1>1. PInv => FaultsExplained
  BY DEF PInv
<1>. QED
  BY <1>1, PluginsInductive, PTL

(* A handle leads to the fiber that waits, and each waiting fiber has      *)
(* exactly one (FiberHandle::Get, ScriptIsolate::GetFiber).                *)
THEOREM HandlesFindFibers == Spec => []HandlesResolve
<1>1. ASSUME PInv
      PROVE  HandlesResolve
  <2>1. ASSUME fault = "none", NEW i \in 1..Len(fibers), NEW f \in DOMAIN fibers[i],
               fibers[i][f] = "waiting"
        PROVE  Cardinality({r \in requests : r.isolate = i /\ r.fiber = f}) = 1
    <3>1. PICK q \in requests : q.isolate = i /\ q.fiber = f
      BY <1>1, <2>1 DEF PInv, HandlesSound
    <3>2. {r \in requests : r.isolate = i /\ r.fiber = f} = {q}
      BY <1>1, <3>1 DEF PInv, HandlesSound
    <3>. QED
      BY <3>2, FS_Singleton
  <2>2. fault = "none" => \A r \in requests :
          IsolateExists(r.isolate) => fibers[r.isolate][r.fiber] = "waiting"
    BY <1>1 DEF PInv, HandlesSound
  <2>. QED
    BY <2>1, <2>2 DEF HandlesResolve
<1>. QED
  BY <1>1, PluginsInductive, PTL

(* When LoadAllPlugins is through, every listed file has its result and    *)
(* every plugin that loaded was started exactly once                       *)
(* (PluginManager::LoadAllPlugins, FindPlugin).                            *)
THEOREM EveryPluginStarted == Spec => []AllStarted
<1>1. ASSUME PInv
      PROVE  AllStarted
  <2>1. ASSUME todo = {}, starting = 0, fault = "none"
        PROVE  /\ \A name \in listed : FindPlugin(name) # {}
               /\ \A i \in 1..Len(plugins) :
                    plugins[i].starts = IF Loaded(i) THEN 1 ELSE 0
    <3>1. \A name \in listed : FindPlugin(name) # {}
      BY <1>1, <2>1 DEF PInv, LoadingSound
    <3>2. \A i \in 1..Len(plugins) : i # starting
      BY <2>1
    <3>3. \A i \in 1..Len(plugins) : plugins[i].starts = IF Loaded(i) THEN 1 ELSE 0
      BY <1>1, <3>2 DEF PInv, PluginsSound
    <3>. QED
      BY <3>1, <3>3
  <2>. QED
    BY <1>1, <2>1 DEF PInv, AllStarted, Loading
<1>. QED
  BY <1>1, PluginsInductive, PTL
=============================================================================
