-------------------------- MODULE ControllersProofs --------------------------
(***************************************************************************)
(* Proofs about Controllers for all modules, controllers, instances and    *)
(* entities, and whatever clauses of the contract are broken; about        *)
(* Dispatch: calls through atoms answer as calls by name do, for any       *)
(* controllers, names and width of the counter, as long as no more atoms   *)
(* were handed out than there are; and, in the second half, about the maps *)
(* for names, RobinMap: they are the maps that MapPromise promises, for    *)
(* any keys, hashes, values, load factors and distance limit.              *)
(***************************************************************************)
EXTENDS ControllersInvariant, Dispatch, RobinMapInvariant, FiniteSetTheorems,
        WellFoundedInduction, TLAPS

USE DEF Faults, Clauses

-----------------------------------------------------------------------------
(* A module is introduced, or introduced again.                             *)
LEMMA HelloPreserves ==
    ASSUME NEW m \in Modules, CInv, Hello(m)
    PROVE  CInv'
<1>1. TypeOK'
  BY DEF CInv, TypeOK, Hello, Obey, Unless, nativeVars, luaVars
<1>2. InstancesSound'
  BY DEF CInv, InstancesSound, Live, Deleted, Hello, Obey, nativeVars, luaVars
<1>3. NativesSound'
  BY DEF CInv, NativesSound, Hello, Obey, nativeVars
<1>4. OutlivedOnlyAfterBreach'
  BY DEF CInv, OutlivedOnlyAfterBreach, Deleted, Hello, Obey, nativeVars, luaVars
<1>5. ClosedLast'
  BY DEF CInv, ClosedLast, Hello, Obey, nativeVars, luaVars
<1>6. SweepCovers'
  BY DEF SweepCovers, Hello, Running
<1>7. FaultsExplained'
  BY DEF FaultsExplained, Hello, Running
<1>. QED
  BY <1>1, <1>2, <1>3, <1>4, <1>5, <1>6, <1>7 DEF CInv

(* A controller is registered: the new instance enters every relation at once.*)
LEMMA RegisterPreserves ==
    ASSUME NEW c \in Natives, NEW i \in Instances, CInv, Register(c, i)
    PROVE  CInv'
<1>1. TypeOK'
  <2>1. /\ Owner[c] \in Modules
        /\ NameOf[c] \in Names
        /\ breached' \subseteq Clauses
    BY OwnersAssumption DEF CInv, TypeOK, Register, Obey, Unless
  <2>2. CASE lua = "closed"
    BY <2>1, <2>2 DEF CInv, TypeOK, Register
  <2>3. CASE lua = "open"
    <3>1. /\ native' \in [Natives -> {"none", "ready", "gone"}]
          /\ template' \in [Natives -> Instances \cup {None}]
          /\ object' \in [Instances -> {"none", "live", "deleted"}]
          /\ registered' \in [Instances -> Natives \cup {None}]
      BY <2>3 DEF CInv, TypeOK, Register
    <3>2. /\ sink' \in [Modules -> SUBSET Instances]
          /\ tables' \subseteq Instances
          /\ global' \in [Names -> Instances \cup {None}]
      BY <2>1, <2>3 DEF CInv, TypeOK, Register
    <3>. QED
      BY <2>1, <2>3, <3>1, <3>2 DEF CInv, TypeOK, Register
  <2>. QED
    BY <2>2, <2>3 DEF CInv, TypeOK
<1>2. InstancesSound'
  <2>1. CASE lua = "closed"
    BY <2>1 DEF CInv, InstancesSound, Live, Deleted, Register, Obey
  <2>2. CASE lua = "open"
    <3>1. /\ registered'[i] = c
          /\ object[i] = "none"
          /\ object'[i] = "live"
          /\ \A k \in Instances \ {i} : /\ registered'[k] = registered[k]
                                       /\ object'[k] = object[k]
      BY <2>2 DEF CInv, TypeOK, Register
    <3>2. /\ native'[c] = "ready"
          /\ \A d \in Natives : native[d] = "ready" => native'[d] = "ready"
      BY <2>2 DEF CInv, TypeOK, Register
    <3>3. /\ Owner[c] \in modules
          /\ modules' = modules
          /\ tables' = tables \cup {i}
          /\ killed' = killed
          /\ breached \subseteq breached'
      BY <2>2 DEF Register, Obey
    <3>4. /\ i \in sink'[Owner[c]]
          /\ \A m \in Modules : sink[m] \subseteq sink'[m]
          /\ \A m \in Modules : sink'[m] \ {i} \subseteq sink[m]
          /\ \A m \in Modules : i \in sink'[m] => m = Owner[c]
      BY <2>2, <3>1, OwnersAssumption DEF CInv, TypeOK, InstancesSound, Register
    <3>5. ASSUME NEW k \in Instances
          PROVE  /\ object'[k] # "none" => registered'[k] \in Natives
                 /\ Live(k)' => /\ native'[registered'[k]] = "ready"
                                /\ k \in sink'[Owner[registered'[k]]]
                 /\ k \in tables' <=> Live(k)'
                 /\ k \in killed' <=> Deleted(k)'
      <4>1. CASE k = i
        BY <3>1, <3>2, <3>3, <3>4, <4>1 DEF CInv, InstancesSound, Live, Deleted
      <4>2. CASE k # i
        BY <3>1, <3>2, <3>3, <3>4, <4>2, OwnersAssumption DEF CInv, InstancesSound, Live, Deleted
      <4>. QED
        BY <4>1, <4>2
    <3>6. ASSUME NEW m \in Modules, NEW k \in sink'[m]
          PROVE  /\ m \in modules'
                 /\ object'[k] # "none"
                 /\ Owner[registered'[k]] = m
                 /\ Deleted(k)' => "foreign_destroy" \in breached'
      <4>1. CASE k = i
        BY <3>1, <3>3, <3>4, <4>1 DEF Deleted
      <4>2. CASE k # i
        <5>1. k \in sink[m] /\ k \in Instances
          BY <3>4, <4>2 DEF CInv, TypeOK
        <5>. QED
          BY <3>1, <3>3, <4>2, <5>1 DEF CInv, InstancesSound, Deleted
      <4>. QED
        BY <4>1, <4>2
    <3>. QED
      BY <3>5, <3>6 DEF InstancesSound, Live, Deleted
  <2>. QED
    BY <2>1, <2>2 DEF CInv, TypeOK
<1>3. NativesSound'
  BY NoneAssumption DEF CInv, TypeOK, InstancesSound, NativesSound, Register, Obey, Unless
<1>4. OutlivedOnlyAfterBreach'
  BY DEF CInv, TypeOK, NativesSound, OutlivedOnlyAfterBreach, Deleted, Register, Obey
<1>5. ClosedLast'
  BY DEF CInv, ClosedLast, Register, Obey
<1>6. SweepCovers'
  BY DEF SweepCovers, Register, Running
<1>7. FaultsExplained'
  BY DEF FaultsExplained, Register, Obey, Unless, Running
<1>. QED
  BY <1>1, <1>2, <1>3, <1>4, <1>5, <1>6, <1>7 DEF CInv

(* A module destroys an instance, its own or not.                           *)
LEMMA DestroyPreserves ==
    ASSUME NEW m \in Modules, NEW i \in Instances, CInv, Destroy(m, i)
    PROVE  CInv'
<1>1. TypeOK'
  <2>1. /\ object' \in [Instances -> {"none", "live", "deleted"}]
        /\ killed' \subseteq Instances
        /\ tables' \subseteq Instances
        /\ sink' \in [Modules -> SUBSET Instances]
    BY DEF CInv, TypeOK, Destroy, DestroyAll
  <2>2. breached' \subseteq Clauses /\ fault' \in Faults
    BY DEF CInv, TypeOK, Destroy, DestroyFault, Obey, Unless
  <2>. QED
    BY <2>1, <2>2 DEF CInv, TypeOK, Destroy
<1>2. InstancesSound'
  BY DEF CInv, TypeOK, InstancesSound, NativesSound, Live, Deleted, Destroy, DestroyAll,
     Obey, Unless
<1>3. NativesSound'
  BY DEF CInv, TypeOK, NativesSound, Destroy, DestroyAll, Obey
<1>4. OutlivedOnlyAfterBreach'
  <2>1. /\ \A k \in Instances : k # i => object'[k] = object[k]
        /\ object[i] = "live"
        /\ object'[i] \in {"live", "deleted"}
    BY DEF CInv, TypeOK, Destroy, DestroyAll
  <2>2. \A e \in Entities : entity[e] = "live" /\ made[e] = i => "undrained" \in breached'
    BY DEF Destroy, EntitiesOf, Obey, Unless
  <2>3. registered[i] \in requests => "pending" \in breached'
    BY DEF Destroy, Obey, Unless
  <2>4. /\ breached \subseteq breached'
        /\ UNCHANGED <<entity, made, lua, requests, native, template>>
    BY DEF Destroy, Obey
  <2>5. \A e \in Entities :
          entity'[e] = "live" => /\ lua' = "open"
                                 /\ made'[e] \in Instances
                                 /\ object'[made'[e]] # "none"
                                 /\ Deleted(made[e])' => "undrained" \in breached'
    BY <2>1, <2>2, <2>4 DEF CInv, OutlivedOnlyAfterBreach, Deleted
  <2>6. \A c \in requests' :
          /\ native'[c] # "none"
          /\ native'[c] = "gone" => "pending" \in breached'
          /\ Deleted(template[c])' =>
                breached' \cap {"pending", "register_twice"} # {}
    <3>. SUFFICES ASSUME NEW c \in requests'
                  PROVE  /\ native'[c] # "none"
                         /\ native'[c] = "gone" => "pending" \in breached'
                         /\ Deleted(template[c])' =>
                               breached' \cap {"pending", "register_twice"} # {}
      OBVIOUS
    <3>1. c \in requests /\ c \in Natives
      BY <2>4 DEF CInv, TypeOK
    <3>2. template[c] \in Instances /\ registered[template[c]] = c
      BY <3>1 DEF CInv, TypeOK, NativesSound, OutlivedOnlyAfterBreach
    <3>3. CASE template[c] = i
      BY <2>3, <2>4, <3>1, <3>2, <3>3 DEF CInv, OutlivedOnlyAfterBreach
    <3>4. CASE template[c] # i
      BY <2>1, <2>4, <3>1, <3>2, <3>4 DEF CInv, OutlivedOnlyAfterBreach, Deleted
    <3>. QED
      BY <3>3, <3>4
  <2>. QED
    BY <2>5, <2>6 DEF OutlivedOnlyAfterBreach
<1>5. ClosedLast'
  BY DEF CInv, ClosedLast, Destroy, Obey
<1>6. SweepCovers'
  BY DEF CInv, SweepCovers, Destroy, Running
<1>7. FaultsExplained'
  BY DEF CInv, InstancesSound, ClosedLast, FaultsExplained, Live, Destroy, DestroyFault,
     Obey
<1>. QED
  BY <1>1, <1>2, <1>3, <1>4, <1>5, <1>6, <1>7 DEF CInv

(* A module goes, by itself or in the sweep.                                *)
LEMMA GoodbyePreserves ==
    ASSUME NEW m \in Modules, CInv, fault = "none", m \in modules, Goodbye(m),
           stop' = stop, sweep' = IF stop = "stopping" THEN sweep \ {m} ELSE sweep
    PROVE  CInv'
<1>1. /\ Owner \in [Natives -> Modules]
      /\ sink[m] \subseteq Instances
  BY OwnersAssumption DEF CInv, TypeOK
<1>2. /\ breached' \subseteq Clauses
      /\ breached \subseteq breached'
      /\ fault' \in Faults
      /\ "undrained" \notin breached' => EntitiesOf(sink[m]) = {}
      /\ "pending" \notin breached' => \A c \in requests : Owner[c] # m
      /\ \A k \in {"register_twice", "foreign_destroy", "early_close"} : k \in breached' => k \in breached
  BY DEF CInv, TypeOK, Goodbye, Obey, Unless, DestroyFault
<1>3. /\ UNCHANGED <<template, registered, global, entity, made, held, orphans, lua, requests>>
  BY DEF Goodbye
<1>4. CASE fault' # "none"
  <2>1. UNCHANGED <<tables, killed, object, modules, sink, native>>
    BY <1>4 DEF Goodbye
  <2>2. TypeOK'
    BY <1>2, <1>3, <2>1 DEF CInv, TypeOK
  <2>3. InstancesSound' /\ NativesSound'
    BY <1>2, <1>3, <2>1 DEF CInv, InstancesSound, NativesSound, Live, Deleted
  <2>4. OutlivedOnlyAfterBreach' /\ ClosedLast'
    BY <1>2, <1>3, <2>1 DEF CInv, OutlivedOnlyAfterBreach, ClosedLast, Deleted
  <2>5. SweepCovers'
    BY <1>4, <2>1 DEF CInv, SweepCovers
  <2>6. FaultsExplained'
    BY <1>1, <1>2, <1>3 DEF CInv, InstancesSound, ClosedLast, Deleted, Live, TypeOK, FaultsExplained, Goodbye, DestroyFault
  <2>. QED
    BY <2>2, <2>3, <2>4, <2>5, <2>6 DEF CInv
<1>5. CASE fault' = "none"
  <2>1. /\ modules' = modules \ {m}
        /\ tables' = tables \ sink[m]
        /\ killed' = killed \cup sink[m]
        /\ sink' \in [Modules -> SUBSET Instances]
        /\ sink'[m] = {}
        /\ \A n \in Modules : n # m => sink'[n] = sink[n]
    BY <1>5 DEF Goodbye, DestroyAll, CInv, TypeOK
  <2>2. /\ object' \in [Instances -> {"none", "live", "deleted"}]
        /\ \A i \in Instances :
              object'[i] = IF i \in sink[m] THEN "deleted" ELSE object[i]
        /\ native' \in [Natives -> {"none", "ready", "gone"}]
        /\ \A c \in Natives :
              native'[c] = IF Owner[c] = m /\ native[c] = "ready" THEN "gone" ELSE native[c]
    BY <1>5 DEF Goodbye, DestroyAll, CInv, TypeOK
  <2>3. TypeOK'
    BY <1>1, <1>2, <1>3, <2>1, <2>2 DEF CInv, TypeOK
  <2>4. InstancesSound'
    BY <1>1, <1>2, <1>3, <2>1, <2>2 DEF CInv, TypeOK, InstancesSound, Live, Deleted
  <2>5. NativesSound'
    BY <1>1, <1>2, <1>3, <2>1, <2>2 DEF CInv, TypeOK, NativesSound, InstancesSound
  <2>6. \A e \in Entities :
          entity'[e] = "live" => /\ lua' = "open"
                                 /\ made'[e] \in Instances
                                 /\ object'[made'[e]] # "none"
                                 /\ Deleted(made[e])' => "undrained" \in breached'
    BY <1>2, <1>3, <2>2 DEF CInv, OutlivedOnlyAfterBreach, Deleted, EntitiesOf
  <2>7. \A c \in requests' :
          /\ native'[c] # "none"
          /\ native'[c] = "gone" => "pending" \in breached'
          /\ Deleted(template[c])' =>
                breached' \cap {"pending", "register_twice"} # {}
    <3>. SUFFICES ASSUME NEW c \in requests'
                  PROVE  /\ native'[c] # "none"
                         /\ native'[c] = "gone" => "pending" \in breached'
                         /\ Deleted(template[c])' =>
                               breached' \cap {"pending", "register_twice"} # {}
      OBVIOUS
    <3>1. c \in requests /\ c \in Natives
      BY <1>3 DEF CInv, TypeOK
    <3>2. template[c] \in Instances /\ registered[template[c]] = c
      BY <3>1 DEF CInv, TypeOK, NativesSound, OutlivedOnlyAfterBreach
    <3>3. CASE template[c] \in sink[m]
      <4>1. Owner[c] = m
        BY <3>2, <3>3 DEF CInv, InstancesSound
      <4>. QED
        BY <1>2, <3>1, <4>1, <2>2 DEF CInv, OutlivedOnlyAfterBreach
    <3>4. CASE template[c] \notin sink[m]
      BY <1>2, <1>3, <2>2, <3>1, <3>2, <3>4 DEF CInv, OutlivedOnlyAfterBreach, Deleted
    <3>. QED
      BY <3>3, <3>4
  <2>8. OutlivedOnlyAfterBreach'
    BY <2>6, <2>7 DEF OutlivedOnlyAfterBreach
  <2>9. ClosedLast' /\ SweepCovers'
    BY <1>2, <1>3, <1>5, <2>1, <2>2 DEF CInv, ClosedLast, SweepCovers
  <2>10. FaultsExplained'
    BY <1>5 DEF FaultsExplained
  <2>. QED
    BY <2>3, <2>4, <2>5, <2>8, <2>9, <2>10 DEF CInv
<1>. QED
  BY <1>4, <1>5

(* A script gets an entity.                                                 *)
LEMMA ReturnNewPreserves ==
    ASSUME NEW i \in Instances, NEW e \in Entities, CInv, ReturnNew(i, e)
    PROVE  CInv'
<1>1. TypeOK'
  BY DEF CInv, TypeOK, InstancesSound, Live, ReturnNew, Make, Fail, Reachable, nativeVars
<1>2. InstancesSound'
  BY DEF CInv, InstancesSound, Live, Deleted, ReturnNew, nativeVars
<1>3. NativesSound'
  BY DEF CInv, NativesSound, ReturnNew, nativeVars
<1>4. OutlivedOnlyAfterBreach'
  BY DEF CInv, TypeOK, InstancesSound, NativesSound, OutlivedOnlyAfterBreach, Live,
     Deleted, ReturnNew, Make, Fail, Reachable, nativeVars
<1>5. ClosedLast'
  BY DEF CInv, ClosedLast, ReturnNew, nativeVars
<1>6. SweepCovers'
  BY DEF CInv, SweepCovers, ReturnNew, ScriptsRun, Running
<1>7. FaultsExplained'
  BY DEF CInv, InstancesSound, NativesSound, FaultsExplained, Live, ReturnNew, Make, Fail,
     Reachable, ScriptsRun
<1>. QED
  BY <1>1, <1>2, <1>3, <1>4, <1>5, <1>6, <1>7 DEF CInv

(* A script starts a request.                                               *)
LEMMA RequestPreserves ==
    ASSUME NEW i \in Instances, CInv, Request(i)
    PROVE  CInv'
<1>1. TypeOK'
  BY DEF CInv, TypeOK, InstancesSound, Live, Request, Reachable, nativeVars, luaVars
<1>2. InstancesSound'
  BY DEF CInv, InstancesSound, Live, Deleted, Request, nativeVars, luaVars
<1>3. NativesSound'
  BY DEF CInv, NativesSound, Request, nativeVars
<1>4. OutlivedOnlyAfterBreach'
  BY DEF CInv, InstancesSound, NativesSound, OutlivedOnlyAfterBreach, Live, Deleted,
     Request, Reachable, nativeVars, luaVars
<1>5. ClosedLast'
  BY DEF CInv, ClosedLast, Request, nativeVars, luaVars
<1>6. SweepCovers'
  BY DEF CInv, SweepCovers, Request
<1>7. FaultsExplained'
  BY DEF CInv, InstancesSound, FaultsExplained, Request, Reachable
<1>. QED
  BY <1>1, <1>2, <1>3, <1>4, <1>5, <1>6, <1>7 DEF CInv

(* A request ends.                                                          *)
LEMMA CompletePreserves ==
    ASSUME NEW c \in Natives, CInv, Complete(c)
    PROVE  CInv'
<1>1. TypeOK'
  <2>1. template[c] \in Instances /\ requests' \subseteq Natives
    BY DEF CInv, TypeOK, NativesSound, OutlivedOnlyAfterBreach, Complete
  <2>2. /\ entity' \in [Entities -> {"none", "live", "finalized"}]
        /\ made' \in [Entities -> Instances \cup {None}]
        /\ held' \subseteq Entities
        /\ orphans' \subseteq Entities
        /\ fault' \in Faults
    BY <2>1 DEF CInv, TypeOK, Complete, Make, Fail
  <2>. QED
    BY <2>1, <2>2 DEF CInv, TypeOK, Complete, nativeVars
<1>2. InstancesSound'
  BY DEF CInv, InstancesSound, Live, Deleted, Complete, nativeVars
<1>3. NativesSound'
  BY DEF CInv, NativesSound, Complete, nativeVars
<1>4. OutlivedOnlyAfterBreach'
  BY DEF CInv, TypeOK, NativesSound, OutlivedOnlyAfterBreach, Deleted, Complete, Make,
     Fail, nativeVars
<1>5. ClosedLast'
  BY DEF CInv, ClosedLast, Complete, nativeVars
<1>6. SweepCovers'
  BY DEF CInv, SweepCovers, Complete, Running
<1>7. FaultsExplained'
  BY DEF CInv, TypeOK, OutlivedOnlyAfterBreach, ClosedLast, FaultsExplained, Deleted,
     Complete, Make, Fail
<1>. QED
  BY <1>1, <1>2, <1>3, <1>4, <1>5, <1>6, <1>7 DEF CInv

(* Scripts let go of an entity.                                             *)
LEMMA DropPreserves ==
    ASSUME NEW e \in Entities, CInv, Drop(e)
    PROVE  CInv'
<1>1. TypeOK'
  BY DEF CInv, TypeOK, Drop, nativeVars
<1>2. InstancesSound'
  BY DEF CInv, InstancesSound, Live, Deleted, Drop, nativeVars
<1>3. NativesSound'
  BY DEF CInv, NativesSound, Drop, nativeVars
<1>4. OutlivedOnlyAfterBreach'
  BY DEF CInv, OutlivedOnlyAfterBreach, Deleted, Drop, nativeVars
<1>5. ClosedLast'
  BY DEF CInv, ClosedLast, Drop, nativeVars
<1>6. SweepCovers'
  BY DEF CInv, SweepCovers, Drop
<1>7. FaultsExplained'
  BY DEF CInv, FaultsExplained, Drop
<1>. QED
  BY <1>1, <1>2, <1>3, <1>4, <1>5, <1>6, <1>7 DEF CInv

(* The collector finalizes an entity.                                       *)
LEMMA CollectPreserves ==
    ASSUME NEW e \in Entities, CInv, Collect(e)
    PROVE  CInv'
<1>1. TypeOK'
  BY DEF CInv, TypeOK, Collect, OnDestroyOutcomes, nativeVars
<1>2. InstancesSound'
  BY DEF CInv, InstancesSound, Live, Deleted, Collect, nativeVars
<1>3. NativesSound'
  BY DEF CInv, NativesSound, Collect, nativeVars
<1>4. OutlivedOnlyAfterBreach'
  BY DEF CInv, OutlivedOnlyAfterBreach, Deleted, Collect, nativeVars
<1>5. ClosedLast'
  BY DEF CInv, ClosedLast, Collect
<1>6. SweepCovers'
  BY DEF CInv, SweepCovers, Collect
<1>7. FaultsExplained'
  BY DEF CInv, TypeOK, InstancesSound, OutlivedOnlyAfterBreach, FaultsExplained, Live,
     Deleted, Collect, OnDestroyOutcomes
<1>. QED
  BY <1>1, <1>2, <1>3, <1>4, <1>5, <1>6, <1>7 DEF CInv

(* The Lua state is closed.                                                 *)
LEMMA CloseStatePreserves ==
    ASSUME CInv, CloseState
    PROVE  CInv'
<1>1. TypeOK'
  BY DEF CInv, TypeOK, CloseState, OnDestroyOutcomes, Obey, Unless, nativeVars
<1>2. InstancesSound'
  BY DEF CInv, InstancesSound, Live, Deleted, CloseState, Obey, nativeVars
<1>3. NativesSound'
  BY DEF CInv, NativesSound, CloseState, Obey, nativeVars
<1>4. OutlivedOnlyAfterBreach'
  BY DEF CInv, OutlivedOnlyAfterBreach, Deleted, CloseState, Obey, nativeVars
<1>5. ClosedLast'
  BY DEF CInv, NativesSound, ClosedLast, CloseState, Obey, Unless, nativeVars
<1>6. SweepCovers'
  BY DEF CInv, SweepCovers, CloseState
<1>7. FaultsExplained'
  BY DEF CInv, TypeOK, InstancesSound, OutlivedOnlyAfterBreach, FaultsExplained, Live,
     Deleted, CloseState, OnDestroyOutcomes, EntitiesOf, Obey
<1>. QED
  BY <1>1, <1>2, <1>3, <1>4, <1>5, <1>6, <1>7 DEF CInv

(* Duo starts to stop.                                                      *)
LEMMA StopPreserves ==
    ASSUME CInv, Stop
    PROVE  CInv'
<1>1. TypeOK'
  BY DEF CInv, TypeOK, Stop, nativeVars, luaVars
<1>2. InstancesSound'
  BY DEF CInv, InstancesSound, Live, Deleted, Stop, nativeVars, luaVars
<1>3. NativesSound'
  BY DEF CInv, NativesSound, Stop, nativeVars
<1>4. OutlivedOnlyAfterBreach'
  BY DEF CInv, OutlivedOnlyAfterBreach, Deleted, Stop, nativeVars, luaVars
<1>5. ClosedLast'
  BY DEF CInv, ClosedLast, Stop, nativeVars, luaVars
<1>6. SweepCovers'
  BY DEF CInv, SweepCovers, Stop
<1>7. FaultsExplained'
  BY DEF CInv, FaultsExplained, Stop
<1>. QED
  BY <1>1, <1>2, <1>3, <1>4, <1>5, <1>6, <1>7 DEF CInv

(* Duo has stopped.                                                         *)
LEMMA StoppedPreserves ==
    ASSUME CInv, Stopped
    PROVE  CInv'
<1>1. TypeOK'
  BY DEF CInv, TypeOK, Stopped, nativeVars, luaVars
<1>2. InstancesSound'
  BY DEF CInv, InstancesSound, Live, Deleted, Stopped, nativeVars, luaVars
<1>3. NativesSound'
  BY DEF CInv, NativesSound, Stopped, nativeVars
<1>4. OutlivedOnlyAfterBreach'
  BY DEF CInv, OutlivedOnlyAfterBreach, Deleted, Stopped, nativeVars, luaVars
<1>5. ClosedLast'
  BY DEF CInv, ClosedLast, Stopped, nativeVars, luaVars
<1>6. SweepCovers'
  BY DEF CInv, SweepCovers, Stopped
<1>7. FaultsExplained'
  BY DEF CInv, FaultsExplained, Stopped
<1>. QED
  BY <1>1, <1>2, <1>3, <1>4, <1>5, <1>6, <1>7 DEF CInv

-----------------------------------------------------------------------------
(* The initial state satisfies the invariant.                              *)
LEMMA InitSound == Init => CInv
BY NoneAssumption DEF Init, CInv, TypeOK, InstancesSound, NativesSound,
   OutlivedOnlyAfterBreach, ClosedLast, SweepCovers, FaultsExplained, Live, Deleted

(* Every step preserves it.                                                *)
LEMMA NextPreserves == CInv /\ [Next]_vars => CInv'
<1>. SUFFICES ASSUME CInv, [Next]_vars
              PROVE  CInv'
  OBVIOUS
<1>1. CASE UNCHANGED vars
  BY <1>1 DEF vars, nativeVars, luaVars, CInv, TypeOK, InstancesSound, NativesSound,
     OutlivedOnlyAfterBreach, ClosedLast, SweepCovers, FaultsExplained, Live, Deleted
<1>2. ASSUME NEW m \in Modules, Hello(m)
      PROVE  CInv'
  BY <1>2, HelloPreserves
<1>3. ASSUME NEW m \in Modules, Unload(m)
      PROVE  CInv'
  BY <1>3, GoodbyePreserves DEF Unload, Running
<1>4. ASSUME NEW m \in Modules, NEW i \in Instances, Destroy(m, i)
      PROVE  CInv'
  BY <1>4, DestroyPreserves
<1>5. ASSUME NEW c \in Natives, NEW i \in Instances, Register(c, i)
      PROVE  CInv'
  BY <1>5, RegisterPreserves
<1>6. ASSUME NEW i \in Instances, NEW e \in Entities, ReturnNew(i, e)
      PROVE  CInv'
  BY <1>6, ReturnNewPreserves
<1>7. ASSUME NEW i \in Instances, Request(i)
      PROVE  CInv'
  BY <1>7, RequestPreserves
<1>8. ASSUME NEW c \in Natives, Complete(c)
      PROVE  CInv'
  BY <1>8, CompletePreserves
<1>9. ASSUME NEW e \in Entities, Drop(e) \/ Collect(e)
      PROVE  CInv'
  BY <1>9, DropPreserves, CollectPreserves
<1>10. CASE CloseState
  BY <1>10, CloseStatePreserves
<1>11. CASE Stop \/ Stopped
  BY <1>11, StopPreserves, StoppedPreserves
<1>12. CASE UnloadNext
  <2>1. PICK m \in sweep : Goodbye(m) /\ sweep' = sweep \ {m}
    BY <1>12 DEF UnloadNext
  <2>2. m \in Modules /\ fault = "none" /\ stop = "stopping" /\ stop' = stop
    BY <1>12, <2>1 DEF UnloadNext, CInv, TypeOK
  <2>3. m \in modules
    BY <2>1, <2>2 DEF CInv, SweepCovers
  <2>. QED
    BY <2>1, <2>2, <2>3, GoodbyePreserves
<1>. QED
  BY <1>1, <1>2, <1>3, <1>4, <1>5, <1>6, <1>7, <1>8, <1>9, <1>10, <1>11, <1>12 DEF Next

-----------------------------------------------------------------------------
(* Whatever modules, scripts and the collector do, in any order and with   *)
(* any breach of the contract: the invariant holds.                        *)
THEOREM ControllersInductive == Spec => []CInv
BY InitSound, NextPreserves, PTL DEF Spec

(* A script's call, by a global or an entity, only ever reaches the code   *)
(* of a module that is loaded: after reloads, a second Hello, controllers  *)
(* that were registered twice and instances that another module destroyed. *)
THEOREM CallsAreSafe == Spec => []CallsReachLoadedCode
<1>1. CInv => CallsReachLoadedCode
  BY DEF CInv, TypeOK, InstancesSound, NativesSound, Live, CallsReachLoadedCode
<1>. QED
  BY <1>1, ControllersInductive, PTL

(* Every live ControllerInstance is tracked by exactly one sink, and no    *)
(* sink by a dangling pointer, unless Destroy was called for the instance  *)
(* of another module.                                                      *)
THEOREM SinksOwn == Spec => []OneOwner
<1>1. CInv => OneOwner
  <2>. SUFFICES ASSUME CInv, "foreign_destroy" \notin breached,
                       NEW i \in Instances, NEW m \in Modules
                PROVE  i \in sink[m] <=> /\ object[i] = "live"
                                         /\ m = Owner[registered[i]]
                                         /\ m \in modules
    BY DEF OneOwner
  <2>1. i \in sink[m] => Live(i) /\ m = Owner[registered[i]] /\ m \in modules
    BY DEF CInv, TypeOK, InstancesSound, Live, Deleted
  <2>2. Live(i) => i \in sink[Owner[registered[i]]]
    BY DEF CInv, InstancesSound
  <2>. QED
    BY <2>1, <2>2 DEF Live
<1>. QED
  BY <1>1, ControllersInductive, PTL

(* A stopped Duo leaves no module, no live instance and no metatable that  *)
(* still has methods.                                                      *)
THEOREM StopIsClean == Spec => []StopLeavesNone
<1>1. CInv => StopLeavesNone
  BY OwnersAssumption DEF CInv, TypeOK, InstancesSound, SweepCovers, Live, StopLeavesNone
<1>. QED
  BY <1>1, ControllersInductive, PTL

(* Undefined behaviour of each kind has one of the breaches for a cause    *)
(* that the contract names for it, and a second Hello is not among them.   *)
THEOREM FaultsHaveCauses == Spec => []FaultsExplained
<1>1. CInv => FaultsExplained
  BY DEF CInv
<1>. QED
  BY <1>1, ControllersInductive, PTL

(* Scripts make entities from live instances as long as no controller is   *)
(* registered twice.                                                       *)
THEOREM EntitiesFromLive == Spec => []MakesFromLiveInstance
<1>1. CInv => MakesFromLiveInstance
  BY DEF CInv, TypeOK, InstancesSound, NativesSound, Live, MakesFromLiveInstance
<1>. QED
  BY <1>1, ControllersInductive, PTL


-----------------------------------------------------------------------------
(* Dispatch.                                                                *)

(* The history of who an atom was made for is only written where an atom   *)
(* was never handed out before: what it says of others stays true.         *)
LEMMA NextAtomIsFresh ==
  ASSUME DInv, given < AtomCount
  PROVE  ~HandedOut(nextAtom, given)
PROOF
  BY AtomsAreNatural DEF DInv, DispatchTypeOK, AtomsInOrder, Exhausted, HandedOut, Atoms, ATOM_UNDEF

LEMMA SuccessorInAtoms ==
  ASSUME NEW a \in Atoms
  PROVE  Successor(a) \in Atoms
PROOF
  BY AtomsAreNatural DEF Successor, Atoms

(* What asking for an atom does to the numbering, and that the atom it     *)
(* finds belongs to the name that was asked for.                           *)
LEMMA AtomOfNumbers ==
  ASSUME DInv, NEW n \in MethodNames, NEW atom \in Atoms, AtomOf(n, atom)
  PROVE  /\ atoms' \in [MethodNames -> SUBSET Atoms]
         /\ nextAtom' \in Atoms
         /\ cached' \in [MethodNames -> Atoms]
         /\ owner' \in [Atoms -> MethodNames \union {NoName}]
         /\ given' \in 0..MaxGiven
         /\ given <= given'
         /\ ~Exhausted' =>
              /\ nextAtom' = IF given' + 1 < AtomCount THEN given' + 1
                                                       ELSE given' + 1 - AtomCount
              /\ \A m \in MethodNames : \A a \in atoms'[m] : owner'[a] = m /\ HandedOut(a, given')
              /\ \A m \in MethodNames : cached'[m] # ATOM_UNDEF =>
                   owner'[cached'[m]] = m /\ HandedOut(cached'[m], given')
              /\ \A a \in Atoms : HandedOut(a, given) => HandedOut(a, given') /\ owner'[a] = owner[a]
              /\ owner'[atom] = n /\ HandedOut(atom, given')
PROOF
<1>1. CASE UNCHANGED numbering /\ cached[n] # ATOM_UNDEF /\ atom = cached[n]
  <2>1. UNCHANGED <<atoms, nextAtom, cached, owner, given>>
    BY <1>1 DEF numbering
  <2> QED
    BY <1>1, <2>1, AtomsAreNatural
    DEF DInv, DispatchTypeOK, AtomsIdentify, AtomsInOrder, HandedOut, Exhausted, Atoms, ATOM_UNDEF
<1>2. CASE /\ cached[n] = ATOM_UNDEF
           /\ atom \in atoms[n]
           /\ UNCHANGED <<atoms, nextAtom, owner, given>>
           /\ cached' = [cached EXCEPT ![n] = atom]
  <2>1. cached' \in [MethodNames -> Atoms]
    BY <1>2 DEF DInv, DispatchTypeOK
  <2>2. \A m \in MethodNames : cached'[m] = IF m = n THEN atom ELSE cached[m]
    BY <1>2 DEF DInv, DispatchTypeOK
  <2>3. given' = given
    BY <1>2
  <2>4. Exhausted' <=> Exhausted
    BY <1>2 DEF Exhausted
  <2> QED
    BY <1>2, <2>1, <2>2, <2>3, <2>4, AtomsAreNatural
    DEF DInv, DispatchTypeOK, AtomsIdentify, AtomsInOrder, ATOM_UNDEF
<1>3. CASE /\ cached[n] = ATOM_UNDEF
           /\ atoms[n] = {}
           /\ given < MaxGiven
           /\ atom = nextAtom
           /\ atoms' = [atoms EXCEPT ![n] = {nextAtom}]
           /\ nextAtom' = Successor(nextAtom)
           /\ owner' = [owner EXCEPT ![nextAtom] = n]
           /\ given' = given + 1
           /\ cached' = [cached EXCEPT ![n] = atom]
  <2>1. /\ cached' \in [MethodNames -> Atoms] /\ atoms' \in [MethodNames -> SUBSET Atoms]
        /\ owner' \in [Atoms -> MethodNames \union {NoName}]
    BY <1>3 DEF DInv, DispatchTypeOK
  <2>2. /\ \A m \in MethodNames : cached'[m] = IF m = n THEN nextAtom ELSE cached[m]
        /\ \A m \in MethodNames : atoms'[m] = IF m = n THEN {nextAtom} ELSE atoms[m]
        /\ \A a \in Atoms : owner'[a] = IF a = nextAtom THEN n ELSE owner[a]
    BY <1>3 DEF DInv, DispatchTypeOK
  <2>3. nextAtom' \in Atoms
    BY <1>3, SuccessorInAtoms DEF DInv, DispatchTypeOK
  <2>4. given' \in 0..MaxGiven /\ given <= given' /\ given \in Nat
    BY <1>3, AtomsAreNatural DEF DInv, DispatchTypeOK
  <2>5. SUFFICES ASSUME ~Exhausted'
                 PROVE  /\ nextAtom' = IF given' + 1 < AtomCount THEN given' + 1
                                                       ELSE given' + 1 - AtomCount
                        /\ \A m \in MethodNames : \A a \in atoms'[m] :
                             owner'[a] = m /\ HandedOut(a, given')
                        /\ \A m \in MethodNames : cached'[m] # ATOM_UNDEF =>
                             owner'[cached'[m]] = m /\ HandedOut(cached'[m], given')
                        /\ \A a \in Atoms :
                             HandedOut(a, given) => HandedOut(a, given') /\ owner'[a] = owner[a]
                        /\ owner'[atom] = n /\ HandedOut(atom, given')
    BY <2>1, <2>3, <2>4
  <2>6. given < AtomCount /\ ~Exhausted
    BY <1>3, <2>4, <2>5, AtomsAreNatural DEF Exhausted
  <2>7. nextAtom = IF given + 1 < AtomCount THEN given + 1 ELSE given + 1 - AtomCount
    BY <2>6 DEF DInv, AtomsInOrder
  <2>8. nextAtom' = IF given' + 1 < AtomCount THEN given' + 1 ELSE given' + 1 - AtomCount
    BY <1>3, <2>4, <2>6, <2>7, AtomsAreNatural DEF Successor
  <2>9. \A a \in Atoms : HandedOut(a, given) => HandedOut(a, given') /\ a # nextAtom
    BY <1>3, <2>4, <2>6, NextAtomIsFresh, AtomsAreNatural DEF HandedOut, ATOM_UNDEF, Atoms
  <2>10. HandedOut(nextAtom, given')
    BY <1>3, <2>4, <2>6, <2>7, AtomsAreNatural DEF HandedOut, ATOM_UNDEF
  <2>11. \A m \in MethodNames : \A a \in atoms'[m] : owner'[a] = m /\ HandedOut(a, given')
    <3> SUFFICES ASSUME NEW m \in MethodNames, NEW a \in atoms'[m]
                 PROVE  owner'[a] = m /\ HandedOut(a, given')
      OBVIOUS
    <3>1. CASE m = n
      BY <3>1, <2>2, <2>10 DEF DInv, DispatchTypeOK
    <3>2. CASE m # n
      <4>1. a \in atoms[m] /\ a \in Atoms /\ owner[a] = m /\ HandedOut(a, given)
        BY <3>2, <2>2, <2>6 DEF DInv, DispatchTypeOK, AtomsIdentify, AtomsInOrder
      <4> QED
        BY <4>1, <2>2, <2>9
    <3> QED
      BY <3>1, <3>2
  <2>12. \A m \in MethodNames : cached'[m] # ATOM_UNDEF =>
           owner'[cached'[m]] = m /\ HandedOut(cached'[m], given')
    <3> SUFFICES ASSUME NEW m \in MethodNames, cached'[m] # ATOM_UNDEF
                 PROVE  owner'[cached'[m]] = m /\ HandedOut(cached'[m], given')
      OBVIOUS
    <3>1. CASE m = n
      BY <3>1, <2>2, <2>10 DEF DInv, DispatchTypeOK
    <3>2. CASE m # n
      <4>1. /\ cached'[m] = cached[m] /\ cached[m] \in Atoms
            /\ owner[cached[m]] = m /\ HandedOut(cached[m], given)
        BY <3>2, <2>2, <2>6 DEF DInv, DispatchTypeOK, AtomsIdentify, AtomsInOrder
      <4> QED
        BY <4>1, <2>2, <2>9
    <3> QED
      BY <3>1, <3>2
  <2> QED
    BY <1>3, <2>2, <2>8, <2>9, <2>10, <2>11, <2>12
<1> QED
  BY <1>1, <1>2, <1>3 DEF AtomOf, UserAtom

-----------------------------------------------------------------------------
(* What is in the tables of the controllers.                               *)
FastInv ==
    /\ \A c \in Controllers, a \in Atoms : fast[c][a] \in methods[c] \union {NoName}
    /\ ~Exhausted => \A c \in Controllers, a \in Atoms :
         fast[c][a] # NoName => fast[c][a] = owner[a] /\ HandedOut(a, given)

(* The invariant as two halves: the numbering, and the tables.             *)
NumberInv ==
    /\ atoms \in [MethodNames -> SUBSET Atoms]
    /\ nextAtom \in Atoms
    /\ cached \in [MethodNames -> Atoms]
    /\ owner \in [Atoms -> MethodNames \union {NoName}]
    /\ given \in 0..MaxGiven
    /\ ~Exhausted =>
         /\ nextAtom = IF given + 1 < AtomCount THEN given + 1 ELSE given + 1 - AtomCount
         /\ \A m \in MethodNames : \A a \in atoms[m] : owner[a] = m /\ HandedOut(a, given)
         /\ \A m \in MethodNames : cached[m] # ATOM_UNDEF =>
              owner[cached[m]] = m /\ HandedOut(cached[m], given)

TableTypes ==
    /\ methods \in [Controllers -> SUBSET MethodNames]
    /\ fast \in [Controllers -> [Atoms -> MethodNames \union {NoName}]]
    /\ \/ answer = NoName
       \/ \E c \in Controllers, n \in MethodNames, ran \in MethodNames \union {NoName} :
            answer = Answer(c, n, ran)

LEMMA Halves == DInv <=> NumberInv /\ TableTypes /\ FastInv
PROOF
  BY DEF DInv, DispatchTypeOK, AtomsIdentify, AtomsInOrder, FastIsRegistered,
         NumberInv, TableTypes, FastInv

LEMMA HalvesNext == NumberInv' /\ TableTypes' /\ FastInv' => DInv'
PROOF
  BY DEF DInv, DispatchTypeOK, AtomsIdentify, AtomsInOrder, FastIsRegistered,
         NumberInv, TableTypes, FastInv, Exhausted

(* Asking for an atom leaves the tables true.                              *)
LEMMA AtomOfKeepsFast ==
  ASSUME DInv, NEW n \in MethodNames, NEW atom \in Atoms, AtomOf(n, atom),
         UNCHANGED <<methods, fast>>
  PROVE  NumberInv' /\ FastInv'
PROOF
<1>1. NumberInv'
  BY AtomOfNumbers DEF NumberInv
<1>2. Exhausted => Exhausted'
  BY AtomOfNumbers, AtomsAreNatural DEF Exhausted, DInv, DispatchTypeOK
<1>3. ASSUME ~Exhausted', NEW c \in Controllers, NEW a \in Atoms, fast[c][a] # NoName
      PROVE  fast[c][a] = owner'[a] /\ HandedOut(a, given')
  <2>1. fast[c][a] = owner[a] /\ HandedOut(a, given)
    BY <1>2, <1>3, Halves DEF FastInv
  <2> QED
    BY <1>3, <2>1, AtomOfNumbers
<1>4. FastInv'
  BY <1>3, Halves DEF FastInv
<1> QED
  BY <1>1, <1>4

LEMMA InitDInv == DispatchInit => DInv
PROOF
<1> SUFFICES ASSUME DispatchInit PROVE NumberInv /\ TableTypes /\ FastInv
  BY Halves
<1> QED
  BY AtomsAreNatural
  DEF DispatchInit, NumberInv, TableTypes, FastInv, Atoms, ATOM_UNDEF, Exhausted, HandedOut

LEMMA NamecallKeeps ==
  ASSUME DInv, NEW c \in Controllers, NEW n \in MethodNames, NEW atom \in Atoms,
         Namecall(c, n, atom)
  PROVE  DInv'
PROOF
<1>1. AtomOf(n, atom) /\ methods' = methods
  BY DEF Namecall
<1>2. CASE UNCHANGED fast
  <2>1. NumberInv' /\ FastInv'
    BY <1>1, <1>2, AtomOfKeepsFast
  <2>2. TableTypes'
    <3>1. \E ran \in MethodNames \union {NoName} : answer' = Answer(c, n, ran)
      BY DEF Namecall, DInv, DispatchTypeOK
    <3> QED
      BY <1>1, <1>2, <3>1 DEF DInv, DispatchTypeOK, TableTypes, Answer
  <2> QED
    BY <2>1, <2>2, HalvesNext
<1>3. CASE /\ atom = ATOM_UNDEF \/ fast[c][atom] = NoName
           /\ n \in methods[c] /\ answer' = Answer(c, n, n)
           /\ fast' = [fast EXCEPT ![c] = [@ EXCEPT ![atom] = n]]
  <2>1. NumberInv'
    BY <1>1, AtomOfNumbers DEF NumberInv
  <2>2. TableTypes'
    BY <1>1, <1>3 DEF DInv, DispatchTypeOK, TableTypes, Answer
  <2>3. \A d \in Controllers, a \in Atoms :
          fast'[d][a] = IF d = c /\ a = atom THEN n ELSE fast[d][a]
    BY <1>3 DEF DInv, DispatchTypeOK
  <2>4. \A d \in Controllers, a \in Atoms : fast'[d][a] \in methods'[d] \union {NoName}
    BY <1>1, <1>3, <2>3 DEF DInv, FastIsRegistered
  <2>5. Exhausted => Exhausted'
    BY <1>1, AtomOfNumbers, AtomsAreNatural DEF Exhausted, DInv, DispatchTypeOK
  <2>6. ASSUME ~Exhausted', NEW d \in Controllers, NEW a \in Atoms, fast'[d][a] # NoName
        PROVE  fast'[d][a] = owner'[a] /\ HandedOut(a, given')
    <3>1. CASE d = c /\ a = atom
      BY <1>1, <2>3, <2>6, <3>1, AtomOfNumbers
    <3>2. CASE ~(d = c /\ a = atom)
      <4>1. fast'[d][a] = owner[a] /\ HandedOut(a, given)
        BY <2>3, <2>5, <2>6, <3>2, Halves DEF FastInv
      <4> QED
        BY <1>1, <2>6, <4>1, AtomOfNumbers
    <3> QED
      BY <3>1, <3>2
  <2>7. FastInv'
    BY <2>4, <2>6 DEF FastInv
  <2> QED
    BY <2>1, <2>2, <2>7, HalvesNext
<1> QED
  BY <1>2, <1>3 DEF Namecall

LEMMA CreateAtomKeeps ==
  ASSUME DInv, NEW n \in MethodNames, NEW atom \in Atoms, CreateAtom(n, atom)
  PROVE  DInv'
PROOF
<1>1. NumberInv' /\ FastInv'
  BY AtomOfKeepsFast DEF CreateAtom
<1>2. TableTypes'
  BY DEF CreateAtom, DInv, DispatchTypeOK, TableTypes, Answer
<1> QED
  BY <1>1, <1>2, HalvesNext

LEMMA AddMethodKeeps ==
  ASSUME DInv, NEW c \in Controllers, NEW n \in MethodNames, AddMethod(c, n)
  PROVE  DInv'
PROOF
<1>1. NumberInv'
  BY Halves DEF AddMethod, numbering, NumberInv, Exhausted
<1>2. TableTypes'
  BY DEF AddMethod, DInv, DispatchTypeOK, TableTypes, Answer
<1>3. \A d \in Controllers : methods[d] \subseteq methods'[d]
  BY DEF AddMethod, DInv, DispatchTypeOK
<1>4. FastInv'
  BY <1>3, Halves DEF AddMethod, numbering, FastInv, Exhausted
<1> QED
  BY <1>1, <1>2, <1>4, HalvesNext

LEMMA CollectKeeps ==
  ASSUME DInv, NEW n \in MethodNames, CollectName(n)
  PROVE  DInv'
PROOF
<1>1. /\ \A m \in MethodNames : cached'[m] = IF m = n THEN ATOM_UNDEF ELSE cached[m]
      /\ \A m \in MethodNames : atoms'[m] \subseteq atoms[m]
      /\ cached' \in [MethodNames -> Atoms] /\ atoms' \in [MethodNames -> SUBSET Atoms]
  <2>1. cached \in [MethodNames -> Atoms] /\ atoms \in [MethodNames -> SUBSET Atoms] /\ ATOM_UNDEF \in Atoms
    BY AtomsAreNatural DEF DInv, DispatchTypeOK, Atoms, ATOM_UNDEF
  <2>2. cached' = [cached EXCEPT ![n] = ATOM_UNDEF]
    BY DEF CollectName
  <2>3. atoms' = atoms \/ atoms' = [atoms EXCEPT ![n] = {}]
    BY DEF CollectName
  <2> QED
    BY <2>1, <2>2, <2>3
<1>2. UNCHANGED <<methods, fast, nextAtom, owner, given, answer>>
  BY DEF CollectName
<1>3. NumberInv'
  BY <1>1, <1>2, Halves DEF NumberInv, Exhausted
<1>4. TableTypes' /\ FastInv'
  BY <1>2, Halves DEF TableTypes, FastInv, Exhausted, Answer
<1> QED
  BY <1>3, <1>4, HalvesNext

LEMMA StutterKeeps ==
  ASSUME DInv, UNCHANGED dispatchVars
  PROVE  DInv'
PROOF
<1>1. NumberInv' /\ TableTypes' /\ FastInv'
  BY Halves DEF dispatchVars, NumberInv, TableTypes, FastInv, Exhausted, Answer
<1> QED
  BY <1>1, HalvesNext

LEMMA NextKeeps == DInv /\ [DispatchNext]_dispatchVars => DInv'
PROOF
<1> SUFFICES ASSUME DInv, [DispatchNext]_dispatchVars PROVE DInv'
  OBVIOUS
<1>1. CASE \E n \in MethodNames, atom \in Atoms, c \in Controllers : Namecall(c, n, atom)
  BY <1>1, NamecallKeeps
<1>2. CASE \E n \in MethodNames, atom \in Atoms : CreateAtom(n, atom)
  BY <1>2, CreateAtomKeeps
<1>3. CASE \E c \in Controllers, n \in MethodNames : AddMethod(c, n)
  BY <1>3, AddMethodKeeps
<1>4. CASE \E n \in MethodNames : CollectName(n)
  BY <1>4, CollectKeeps
<1>5. CASE UNCHANGED dispatchVars
  BY <1>5, StutterKeeps
<1> QED
  BY <1>1, <1>2, <1>3, <1>4, <1>5 DEF DispatchNext

(* The inductive invariant holds: atoms are handed out in the counter's    *)
(* order, and what the tables say is true (ScriptVM::UserAtom,             *)
(* IScriptController::Namecall).                                           *)
THEOREM DispatchInvariant == DispatchSpec => []DInv
PROOF
<1>1. DispatchInit => DInv
  BY InitDInv
<1>2. DInv /\ [DispatchNext]_dispatchVars => DInv'
  BY NextKeeps
<1> QED
  BY <1>1, <1>2, PTL DEF DispatchSpec

(* Every table has values of its type (ScriptVM::UserAtom).                *)
THEOREM DispatchTypes == DispatchSpec => []DispatchTypeOK
PROOF
<1>1. DInv => DispatchTypeOK
  BY DEF DInv
<1> QED
  BY <1>1, DispatchInvariant, PTL

(* Until the counter comes round a second time, no two names share an      *)
(* atom (ScriptVM::UserAtom).                                              *)
THEOREM NamesKeepTheirAtoms == DispatchSpec => []AtomsIdentify
PROOF
<1>1. DInv => AtomsIdentify
  BY DEF DInv
<1> QED
  BY <1>1, DispatchInvariant, PTL

-----------------------------------------------------------------------------
(* Refinement.                                                             *)

LEMMA NamecallPromised ==
  ASSUME DInv, NEW c \in Controllers, NEW n \in MethodNames, NEW atom \in Atoms,
         Namecall(c, n, atom)
  PROVE  Promise!Call
PROOF
<1>1. AtomOf(n, atom) /\ methods' = methods
  BY DEF Namecall
<1>2. Exhausted => Exhausted'
  BY <1>1, AtomOfNumbers, AtomsAreNatural DEF Exhausted, DInv, DispatchTypeOK
<1>3. \/ answer' = Answer(c, n, IF n \in methods[c] THEN n ELSE NoName)
      \/ Exhausted' /\ \E ran \in methods[c] : answer' = Answer(c, n, ran)
  <2>1. CASE fast[c][atom] # NoName /\ answer' = Answer(c, n, fast[c][atom])
    <3>1. fast[c][atom] \in methods[c]
      BY <2>1 DEF DInv, FastIsRegistered
    <3>2. CASE ~Exhausted'
      <4>1. fast[c][atom] = owner[atom] /\ HandedOut(atom, given)
        BY <1>2, <2>1, <3>2, Halves DEF FastInv
      <4>2. owner[atom] = n
        BY <1>1, <3>2, <4>1, AtomOfNumbers
      <4> QED
        BY <2>1, <3>1, <4>1, <4>2
    <3> QED
      BY <2>1, <3>1, <3>2
  <2> QED
    BY <2>1 DEF Namecall
<1> QED
  BY <1>1, <1>2, <1>3 DEF Promise!Call, Promise!Answer, Answer

LEMMA OthersPromised ==
  ASSUME DInv,
         \/ \E n \in MethodNames, atom \in Atoms : CreateAtom(n, atom)
         \/ \E n \in MethodNames : CollectName(n)
  PROVE  Promise!Exhaust
PROOF
<1>1. UNCHANGED <<methods, answer>>
  BY DEF CreateAtom, CollectName
<1>2. given <= given'
  <2>1. CASE \E n \in MethodNames, atom \in Atoms : CreateAtom(n, atom)
    BY <2>1, AtomOfNumbers DEF CreateAtom
  <2>2. CASE \E n \in MethodNames : CollectName(n)
    BY <2>2, AtomsAreNatural DEF CollectName, DInv, DispatchTypeOK
  <2> QED
    BY <2>1, <2>2
<1>3. given \in Nat /\ given' \in Nat
  BY AtomsAreNatural, AtomOfNumbers DEF CreateAtom, CollectName, DInv, DispatchTypeOK
<1>4. Exhausted' \in BOOLEAN /\ (Exhausted => Exhausted')
  BY <1>2, <1>3, AtomsAreNatural DEF Exhausted
<1> QED
  BY <1>1, <1>4 DEF Promise!Exhaust

LEMMA StepPromised == DInv /\ [DispatchNext]_dispatchVars => [Promise!Next]_(Promise!vars)
PROOF
<1> SUFFICES ASSUME DInv, [DispatchNext]_dispatchVars PROVE Promise!Next \/ UNCHANGED Promise!vars
  OBVIOUS
<1>1. CASE \E n \in MethodNames, atom \in Atoms, c \in Controllers : Namecall(c, n, atom)
  BY <1>1, NamecallPromised DEF Promise!Next
<1>2. CASE \/ \E n \in MethodNames, atom \in Atoms : CreateAtom(n, atom)
           \/ \E n \in MethodNames : CollectName(n)
  BY <1>2, OthersPromised DEF Promise!Next
<1>3. CASE \E c \in Controllers, n \in MethodNames : AddMethod(c, n)
  <2>1. Promise!AddMethod
    BY <1>3 DEF AddMethod, numbering, Exhausted, Promise!AddMethod
  <2> QED
    BY <2>1 DEF Promise!Next
<1>4. CASE UNCHANGED dispatchVars
  BY <1>4 DEF dispatchVars, Promise!vars, Exhausted
<1> QED
  BY <1>1, <1>2, <1>3, <1>4 DEF DispatchNext

(* Calls through atoms run what calls by name would run, until more atoms  *)
(* were handed out than there are (IScriptController::Namecall).           *)
THEOREM AtomsImplementNames == DispatchSpec => CallsByName
PROOF
<1>1. DispatchInit => Promise!Init
  BY AtomsAreNatural DEF DispatchInit, Promise!Init, Exhausted
<1>2. DInv /\ [DispatchNext]_dispatchVars => [Promise!Next]_(Promise!vars)
  BY StepPromised
<1> QED
  BY <1>1, <1>2, DispatchInvariant, PTL DEF DispatchSpec, CallsByName, Promise!Spec

-----------------------------------------------------------------------------
(* RobinMap.  Numbers, and loops.                                          *)

(* A set of numbers that is not empty has a least one.                     *)
LEMMA LeastNatural ==
    ASSUME NEW T \in SUBSET Nat, T # {}
    PROVE  \E n \in T : \A m \in T : n <= m
<1>1. IsWellFoundedOn(OpToRel(<, Nat), Nat)
  BY NatLessThanWellFounded
<1>2. \E n \in T : \A m \in T : ~(<<m, n>> \in OpToRel(<, Nat))
  BY <1>1, WFMin
<1>3. PICK n \in T : \A m \in T : ~(<<m, n>> \in OpToRel(<, Nat))
  BY <1>2
<1>4. \A m \in T : ~(m < n)
  BY <1>3 DEF OpToRel
<1>5. QED
  BY <1>4

(* Which Min returns.                                                      *)
LEMMA MinIsLeast ==
    ASSUME NEW T \in SUBSET Nat, T # {}
    PROVE  Min(T) \in T /\ \A m \in T : Min(T) <= m
BY LeastNatural DEF Min

(* Remainders, of numbers within one turn of 0 .. n - 1.                   *)
LEMMA Remainder ==
    ASSUME NEW n \in Nat \ {0}, NEW x \in Int
    PROVE  /\ x % n \in 0 .. (n - 1)
           /\ 0 <= x /\ x < n => x % n = x
           /\ n <= x /\ x < n + n => x % n = x - n
           /\ 0 - n <= x /\ x < 0 => x % n = x + n
<1>1. x % n \in 0 .. (n - 1)
  OBVIOUS
<1>2. ASSUME 0 <= x, x < n  PROVE x % n = x
  BY <1>2
<1>3. ASSUME n <= x, x < n + n  PROVE x % n = x - n
  BY <1>3
<1>4. ASSUME 0 - n <= x, x < 0  PROVE x % n = x + n
  BY <1>4
<1>5. QED
  BY <1>1, <1>2, <1>3, <1>4

(* A loop whose turn is F, and what holds before each of its turns: I[j]   *)
(* is the set of the states it can be in after j turns.                    *)
KeepsTo(I, F, n) == \A j \in 0 .. (n - 1) : \A x \in I[j] : F[<<x, j>>] \in I[j + 1]

(* g holds the states of n turns of a loop.                                *)
RunsFrom(g, s, I, F, U, n) ==
    /\ g \in [0 .. n -> U] /\ g[0] = s
    /\ \A j \in 1 .. n : g[j] = F[<<g[j - 1], j - 1>>]
    /\ \A j \in 0 .. n : g[j] \in I[j]

(* Such a loop runs to its end.                                            *)
LEMMA LoopStates ==
    ASSUME NEW n \in Nat, NEW U, NEW I \in [0 .. n -> SUBSET U], NEW s \in I[0],
           NEW F, KeepsTo(I, F, n)
    PROVE  \E g : RunsFrom(g, s, I, F, U, n)
<1> DEFINE Runs(m, g) == RunsFrom(g, s, I, F, U, m)
           Stuck == {m \in 0 .. n : ~\E g : Runs(m, g)}
<1> USE DEF RunsFrom, KeepsTo
<1>1. Stuck = {}
  <2> SUFFICES ASSUME Stuck # {} PROVE FALSE
    OBVIOUS
  <2>1. PICK m \in Stuck : \A l \in Stuck : m <= l
    <3>1. Stuck \in SUBSET Nat
      OBVIOUS
    <3> HIDE DEF Stuck
    <3> QED  BY <3>1, LeastNatural
  <2>2. m # 0
    <3>1. SUFFICES ASSUME m = 0 PROVE \E g : Runs(0, g)
      BY <2>1
    <3> DEFINE g == [j \in 0 .. 0 |-> s]
    <3>2. s \in U
      OBVIOUS
    <3>3. Runs(0, g)
      BY <3>2
    <3> QED  BY <3>3
  <2>3. PICK h : Runs(m - 1, h)
    <3>1. m - 1 \in 0 .. n /\ m - 1 \notin Stuck
      BY <2>1, <2>2
    <3> QED  BY <3>1
  <2> DEFINE last == F[<<h[m - 1], m - 1>>]
             g == [j \in 0 .. m |-> IF j = m THEN last ELSE h[j]]
  <2>4. m \in 1 .. n
    BY <2>1, <2>2
  <2>5. last \in I[m]
    <3>1. m - 1 \in 0 .. (n - 1) /\ h[m - 1] \in I[m - 1]
      BY <2>3, <2>4
    <3>2. F[<<h[m - 1], m - 1>>] \in I[(m - 1) + 1]
      BY <3>1
    <3> QED  BY <3>2, <2>4
  <2>6. last \in U
    BY <2>4, <2>5
  <2> HIDE DEF last
  <2>7. g \in [0 .. m -> U] /\ g[0] = s
    BY <2>3, <2>4, <2>6
  <2>8. \A j \in 1 .. m : g[j] = F[<<g[j - 1], j - 1>>]
    <3> SUFFICES ASSUME NEW j \in 1 .. m PROVE g[j] = F[<<g[j - 1], j - 1>>]
      OBVIOUS
    <3>1. j \in 0 .. m /\ j - 1 \in 0 .. m /\ j - 1 # m
      BY <2>4
    <3>2. CASE j = m
      BY <3>1, <3>2, <2>4 DEF last
    <3>3. CASE j # m
      BY <3>1, <3>3, <2>3, <2>4
    <3> QED  BY <3>2, <3>3
  <2>9. \A j \in 0 .. m : g[j] \in I[j]
    BY <2>3, <2>4, <2>5
  <2> QED
    BY <2>1, <2>7, <2>8, <2>9
<1> QED  BY <1>1

(* An induction along the turns of a loop.                                 *)
LEMMA TurnByTurn ==
    ASSUME NEW n \in Nat, NEW I, NEW h, h[0] \in I[0],
           \A j \in 0 .. (n - 1) : h[j] \in I[j] => h[j + 1] \in I[j + 1]
    PROVE  h[n] \in I[n]
<1> DEFINE Wrong == {j \in 0 .. n : h[j] \notin I[j]}
<1> SUFFICES ASSUME Wrong # {} PROVE FALSE
  OBVIOUS
<1>1. Wrong \in SUBSET Nat
  OBVIOUS
<1>2. PICK j \in Wrong : \A l \in Wrong : j <= l
  <2> HIDE DEF Wrong
  <2> QED  BY <1>1, LeastNatural
<1>3. j \in 1 .. n /\ j - 1 \in 0 .. (n - 1) /\ j - 1 \notin Wrong
  BY <1>2
<1>4. h[j - 1] \in I[j - 1]
  BY <1>3
<1>5. h[(j - 1) + 1] \in I[(j - 1) + 1]
  BY <1>3, <1>4
<1> QED  BY <1>2, <1>3, <1>5

(* The loops of RobinMap, each as LoopStates and TurnByTurn have it.       *)
LEMMA DisplaceEnds ==
    ASSUME NEW b, NEW start, NEW entry, NEW n \in Nat, n = Count(b),
           NEW U, NEW I \in [0 .. n -> SUBSET U],
           [buckets |-> b, carried |-> entry, placed |-> FALSE, far |-> FALSE] \in I[0],
           \A j \in 0 .. (n - 1) : \A s \in I[j] : Carry(b, start, s, j) \in I[j + 1]
    PROVE  Displace(b, start, entry) \in I[n]
<1> DEFINE zero == [buckets |-> b, carried |-> entry, placed |-> FALSE, far |-> FALSE]
           F == [p \in U \X (0 .. (n - 1)) |-> Carry(b, start, p[1], p[2])]
           Turns(g) == [j \in 0 .. Count(b) |->
                          IF j = 0 THEN zero ELSE Carry(b, start, g[j - 1], j - 1)]
<1>1. \A j \in 0 .. (n - 1) : \A s \in I[j] : F[<<s, j>>] = Carry(b, start, s, j)
  OBVIOUS
<1>2. PICK g : RunsFrom(g, zero, I, F, U, n)
  <2>1. zero \in I[0] /\ KeepsTo(I, F, n)
    BY <1>1 DEF KeepsTo
  <2> HIDE DEF F, zero
  <2> QED  BY <2>1, LoopStates
<1>3. g = Turns(g)
  <2>1. ASSUME NEW j \in 1 .. n  PROVE F[<<g[j - 1], j - 1>>] = Carry(b, start, g[j - 1], j - 1)
    <3>1. j - 1 \in 0 .. (n - 1) /\ g[j - 1] \in I[j - 1]
      BY <1>2 DEF RunsFrom
    <3> HIDE DEF F
    <3> QED  BY <3>1, <1>1
  <2> HIDE DEF F, zero
  <2>2. g \in [0 .. Count(b) -> U] /\ g[0] = zero
    BY <1>2 DEF RunsFrom
  <2>3. \A j \in 1 .. n : g[j] = Carry(b, start, g[j - 1], j - 1)
    BY <1>2, <2>1 DEF RunsFrom
  <2>4. \A j \in 0 .. Count(b) : g[j] = IF j = 0 THEN zero ELSE Carry(b, start, g[j - 1], j - 1)
    BY <2>2, <2>3
  <2> QED  BY <2>2, <2>4
<1> DEFINE h == CHOOSE f : f = Turns(f)
<1>4. h = Turns(h)
  BY <1>3
<1>5. Displace(b, start, entry) = h[Count(b)]
  BY DEF Displace, Loop
<1> HIDE DEF h
<1>6. h[0] \in I[0] /\ \A j \in 0 .. (n - 1) : h[j] \in I[j] => h[j + 1] \in I[j + 1]
  <2> HIDE DEF zero
  <2>1. h[0] = zero /\ \A j \in 1 .. n : h[j] = Carry(b, start, h[j - 1], j - 1)
    BY <1>4
  <2>2. zero \in I[0]
    BY DEF zero
  <2>3. ASSUME NEW j \in 0 .. (n - 1)  PROVE h[j + 1] = Carry(b, start, h[j], j)
    <3>1. j + 1 \in 1 .. n /\ (j + 1) - 1 = j
      OBVIOUS
    <3> QED  BY <2>1, <3>1
  <2> QED  BY <2>1, <2>2, <2>3
<1>7. h[n] \in I[n]
  BY <1>6, TurnByTurn
<1> QED  BY <1>5, <1>7

(* All entries of a table, into a new one.                                *)
LEMMA RehashedEnds ==
    ASSUME NEW t, NEW count, NEW n \in Nat, n = Count(t.buckets),
           NEW U, NEW I \in [0 .. n -> SUBSET U],
           NewTable(count, t.minLoad, t.maxLoad).buckets \in I[0],
           \A j \in 0 .. (n - 1) : \A s \in I[j] : Reinsert(t.buckets, s, j) \in I[j + 1]
    PROVE  \E b \in I[n] :
             Rehashed(t, count) =
               [NewTable(count, t.minLoad, t.maxLoad) EXCEPT
                  !.nbElements = t.nbElements, !.buckets = b]
<1> DEFINE zero == NewTable(count, t.minLoad, t.maxLoad).buckets
           F == [p \in U \X (0 .. (n - 1)) |-> Reinsert(t.buckets, p[1], p[2])]
           Turns(g) == [j \in 0 .. Count(t.buckets) |->
                          IF j = 0 THEN zero ELSE Reinsert(t.buckets, g[j - 1], j - 1)]
<1>1. \A j \in 0 .. (n - 1) : \A s \in I[j] : F[<<s, j>>] = Reinsert(t.buckets, s, j)
  OBVIOUS
<1>2. PICK g : RunsFrom(g, zero, I, F, U, n)
  <2>1. zero \in I[0] /\ KeepsTo(I, F, n)
    BY <1>1 DEF KeepsTo
  <2> HIDE DEF F, zero
  <2> QED  BY <2>1, LoopStates
<1>3. g = Turns(g)
  <2>1. ASSUME NEW j \in 1 .. n  PROVE F[<<g[j - 1], j - 1>>] = Reinsert(t.buckets, g[j - 1], j - 1)
    <3>1. j - 1 \in 0 .. (n - 1) /\ g[j - 1] \in I[j - 1]
      BY <1>2 DEF RunsFrom
    <3> HIDE DEF F
    <3> QED  BY <3>1, <1>1
  <2> HIDE DEF F, zero
  <2>2. g \in [0 .. Count(t.buckets) -> U] /\ g[0] = zero
    BY <1>2 DEF RunsFrom
  <2>3. \A j \in 1 .. n : g[j] = Reinsert(t.buckets, g[j - 1], j - 1)
    BY <1>2, <2>1 DEF RunsFrom
  <2>4. \A j \in 0 .. Count(t.buckets) :
           g[j] = IF j = 0 THEN zero ELSE Reinsert(t.buckets, g[j - 1], j - 1)
    BY <2>2, <2>3
  <2> QED  BY <2>2, <2>4
<1> DEFINE h == CHOOSE f : f = Turns(f)
<1>4. h = Turns(h)
  BY <1>3
<1>5. Rehashed(t, count) =
        [NewTable(count, t.minLoad, t.maxLoad) EXCEPT
           !.nbElements = t.nbElements, !.buckets = h[Count(t.buckets)]]
  BY DEF Rehashed, Loop
<1> HIDE DEF h
<1>6. h[0] \in I[0] /\ \A j \in 0 .. (n - 1) : h[j] \in I[j] => h[j + 1] \in I[j + 1]
  <2> HIDE DEF zero
  <2>1. h[0] = zero /\ \A j \in 1 .. n : h[j] = Reinsert(t.buckets, h[j - 1], j - 1)
    BY <1>4
  <2>2. zero \in I[0]
    BY DEF zero
  <2>3. ASSUME NEW j \in 0 .. (n - 1)  PROVE h[j + 1] = Reinsert(t.buckets, h[j], j)
    <3>1. j + 1 \in 1 .. n /\ (j + 1) - 1 = j
      OBVIOUS
    <3> QED  BY <2>1, <3>1
  <2> QED  BY <2>1, <2>2, <2>3
<1>7. h[n] \in I[n]
  BY <1>6, TurnByTurn
<1> QED  BY <1>5, <1>7

(* Growing and shrinking until there is nothing to do.                     *)
LEMMA MakeRoomEnds ==
    ASSUME NEW t, NEW k, NEW n \in Nat, n = MaxBuckets,
           NEW U, NEW I \in [0 .. n -> SUBSET U],
           [table |-> t, done |-> FALSE, full |-> FALSE] \in I[0],
           \A j \in 0 .. (n - 1) : \A s \in I[j] : Extremes(s, k) \in I[j + 1]
    PROVE  MakeRoom(t, k) \in I[n]
<1> DEFINE zero == [table |-> t, done |-> FALSE, full |-> FALSE]
           F == [p \in U \X (0 .. (n - 1)) |-> Extremes(p[1], k)]
           Turns(g) == [j \in 0 .. MaxBuckets |->
                          IF j = 0 THEN zero ELSE Extremes(g[j - 1], k)]
<1>1. \A j \in 0 .. (n - 1) : \A s \in I[j] : F[<<s, j>>] = Extremes(s, k)
  OBVIOUS
<1>2. PICK g : RunsFrom(g, zero, I, F, U, n)
  <2>1. zero \in I[0] /\ KeepsTo(I, F, n)
    BY <1>1 DEF KeepsTo
  <2> HIDE DEF F, zero
  <2> QED  BY <2>1, LoopStates
<1>3. g = Turns(g)
  <2>1. ASSUME NEW j \in 1 .. n  PROVE F[<<g[j - 1], j - 1>>] = Extremes(g[j - 1], k)
    <3>1. j - 1 \in 0 .. (n - 1) /\ g[j - 1] \in I[j - 1]
      BY <1>2 DEF RunsFrom
    <3> HIDE DEF F
    <3> QED  BY <3>1, <1>1
  <2> HIDE DEF F, zero
  <2>2. g \in [0 .. MaxBuckets -> U] /\ g[0] = zero
    BY <1>2 DEF RunsFrom
  <2>3. \A j \in 1 .. n : g[j] = Extremes(g[j - 1], k)
    BY <1>2, <2>1 DEF RunsFrom
  <2>4. \A j \in 0 .. MaxBuckets : g[j] = IF j = 0 THEN zero ELSE Extremes(g[j - 1], k)
    BY <2>2, <2>3
  <2> QED  BY <2>2, <2>4
<1> DEFINE h == CHOOSE f : f = Turns(f)
<1>4. h = Turns(h)
  BY <1>3
<1>5. MakeRoom(t, k) = h[MaxBuckets]
  BY DEF MakeRoom, Loop
<1> HIDE DEF h
<1>6. h[0] \in I[0] /\ \A j \in 0 .. (n - 1) : h[j] \in I[j] => h[j + 1] \in I[j + 1]
  <2> HIDE DEF zero
  <2>1. h[0] = zero /\ \A j \in 1 .. n : h[j] = Extremes(h[j - 1], k)
    BY <1>4
  <2>2. zero \in I[0]
    BY DEF zero
  <2>3. ASSUME NEW j \in 0 .. (n - 1)  PROVE h[j + 1] = Extremes(h[j], k)
    <3>1. j + 1 \in 1 .. n /\ (j + 1) - 1 = j
      OBVIOUS
    <3> QED  BY <2>1, <3>1
  <2> QED  BY <2>1, <2>2, <2>3
<1>7. h[n] \in I[n]
  BY <1>6, TurnByTurn
<1> QED  BY <1>5, <1>7

(* Some keys, one after the other.                                         *)
LEMMA PutAllEnds ==
    ASSUME NEW t, NEW ks, NEW v, NEW n \in Nat, n = Len(ks),
           NEW U, NEW I \in [0 .. n -> SUBSET U],
           [table |-> t, done |-> TRUE, full |-> FALSE] \in I[0],
           \A j \in 0 .. (n - 1) : \A s \in I[j] : PutNew(s, ks[j + 1], v) \in I[j + 1]
    PROVE  PutAll(t, ks, v) \in I[n]
<1> DEFINE zero == [table |-> t, done |-> TRUE, full |-> FALSE]
           F == [p \in U \X (0 .. (n - 1)) |-> PutNew(p[1], ks[p[2] + 1], v)]
           Turns(g) == [j \in 0 .. Len(ks) |->
                          IF j = 0 THEN zero ELSE PutNew(g[j - 1], ks[j - 1 + 1], v)]
<1>1. \A j \in 0 .. (n - 1) : \A s \in I[j] : F[<<s, j>>] = PutNew(s, ks[j + 1], v)
  OBVIOUS
<1>2. PICK g : RunsFrom(g, zero, I, F, U, n)
  <2>1. zero \in I[0] /\ KeepsTo(I, F, n)
    BY <1>1 DEF KeepsTo
  <2> HIDE DEF F, zero
  <2> QED  BY <2>1, LoopStates
<1>3. g = Turns(g)
  <2>1. ASSUME NEW j \in 1 .. n  PROVE F[<<g[j - 1], j - 1>>] = PutNew(g[j - 1], ks[j - 1 + 1], v)
    <3>1. j - 1 \in 0 .. (n - 1) /\ g[j - 1] \in I[j - 1]
      BY <1>2 DEF RunsFrom
    <3> HIDE DEF F
    <3> QED  BY <3>1, <1>1
  <2> HIDE DEF F, zero
  <2>2. g \in [0 .. Len(ks) -> U] /\ g[0] = zero
    BY <1>2 DEF RunsFrom
  <2>3. \A j \in 1 .. n : g[j] = PutNew(g[j - 1], ks[j - 1 + 1], v)
    BY <1>2, <2>1 DEF RunsFrom
  <2>4. \A j \in 0 .. Len(ks) : g[j] = IF j = 0 THEN zero ELSE PutNew(g[j - 1], ks[j - 1 + 1], v)
    BY <2>2, <2>3
  <2> QED  BY <2>2, <2>4
<1> DEFINE h == CHOOSE f : f = Turns(f)
<1>4. h = Turns(h)
  BY <1>3
<1>5. PutAll(t, ks, v) = h[Len(ks)]
  BY DEF PutAll, Loop
<1> HIDE DEF h
<1>6. h[0] \in I[0] /\ \A j \in 0 .. (n - 1) : h[j] \in I[j] => h[j + 1] \in I[j + 1]
  <2> HIDE DEF zero
  <2>1. h[0] = zero /\ \A j \in 1 .. n : h[j] = PutNew(h[j - 1], ks[j - 1 + 1], v)
    BY <1>4
  <2>2. zero \in I[0]
    BY DEF zero
  <2>3. ASSUME NEW j \in 0 .. (n - 1)  PROVE h[j + 1] = PutNew(h[j], ks[j + 1], v)
    <3>1. j + 1 \in 1 .. n /\ (j + 1) - 1 = j
      OBVIOUS
    <3> QED  BY <2>1, <3>1
  <2> QED  BY <2>1, <2>2, <2>3
<1>7. h[n] \in I[n]
  BY <1>6, TurnByTurn
<1> QED  BY <1>5, <1>7

(* The entries behind an erased range.                                     *)
MovesUp(I, U, b, first, last, n) ==
    /\ n \in Nat /\ I \in [0 .. n -> SUBSET U]
    /\ n = Count(b) - last
    /\ [buckets |-> Cleared(b, first, last), closer |-> first, done |-> FALSE] \in I[0]
    /\ \A j \in 0 .. (n - 1) : \A s \in I[j] : MoveUp(s, last + j) \in I[j + 1]

(* What they keep true at every turn is true of what is left.              *)
LEMMA WithoutRangeEnds ==
    ASSUME NEW b, NEW first, NEW last, NEW n, NEW U, NEW I,
           MovesUp(I, U, b, first, last, n)
    PROVE  \E s \in I[n] : WithoutRange(b, first, last) = s.buckets
<1>0. n \in Nat /\ I \in [0 .. n -> SUBSET U]
  BY DEF MovesUp
<1>8. /\ n = Count(b) - last
      /\ [buckets |-> Cleared(b, first, last), closer |-> first, done |-> FALSE] \in I[0]
      /\ \A j \in 0 .. (n - 1) : \A s \in I[j] : MoveUp(s, last + j) \in I[j + 1]
  BY DEF MovesUp
<1> DEFINE zero == [buckets |-> Cleared(b, first, last), closer |-> first, done |-> FALSE]
           F == [p \in U \X (0 .. (n - 1)) |-> MoveUp(p[1], last + p[2])]
           Turns(g) == [j \in 0 .. Count(b) - last |->
                          IF j = 0 THEN zero ELSE MoveUp(g[j - 1], last + j - 1)]
<1>1. \A j \in 0 .. (n - 1) : \A s \in I[j] : F[<<s, j>>] = MoveUp(s, last + j)
  BY <1>0
<1>2. PICK g : RunsFrom(g, zero, I, F, U, n)
  <2>1. zero \in I[0] /\ KeepsTo(I, F, n)
    BY <1>1, <1>8 DEF KeepsTo
  <2> HIDE DEF F, zero
  <2> QED  BY <1>0, <2>1, LoopStates
<1>3. g = Turns(g)
  <2>1. ASSUME NEW j \in 1 .. n  PROVE F[<<g[j - 1], j - 1>>] = MoveUp(g[j - 1], last + j - 1)
    <3>1. j - 1 \in 0 .. (n - 1) /\ g[j - 1] \in I[j - 1]
      BY <1>0, <1>2 DEF RunsFrom
    <3> HIDE DEF F
    <3> QED  BY <1>0, <3>1, <1>1
  <2> HIDE DEF F, zero
  <2>2. g \in [0 .. Count(b) - last -> U] /\ g[0] = zero
    BY <1>0, <1>2, <1>8 DEF RunsFrom
  <2>3. \A j \in 1 .. n : g[j] = MoveUp(g[j - 1], last + j - 1)
    BY <1>0, <1>2, <2>1 DEF RunsFrom
  <2>4. \A j \in 0 .. Count(b) - last :
           g[j] = IF j = 0 THEN zero ELSE MoveUp(g[j - 1], last + j - 1)
    BY <1>0, <1>8, <2>2, <2>3
  <2> QED  BY <1>0, <1>8, <2>2, <2>4
<1> DEFINE h == CHOOSE f : f = Turns(f)
<1>4. h = Turns(h)
  BY <1>0, <1>3
<1>5. WithoutRange(b, first, last) = h[Count(b) - last].buckets
  BY DEF WithoutRange, Loop
<1> HIDE DEF h
<1>6. h[0] \in I[0] /\ \A j \in 0 .. (n - 1) : h[j] \in I[j] => h[j + 1] \in I[j + 1]
  <2> HIDE DEF zero
  <2>1. h[0] = zero /\ \A j \in 1 .. n : h[j] = MoveUp(h[j - 1], last + j - 1)
    BY <1>0, <1>4, <1>8
  <2>2. zero \in I[0]
    BY <1>0, <1>8 DEF zero
  <2>3. ASSUME NEW j \in 0 .. (n - 1)  PROVE h[j + 1] = MoveUp(h[j], last + j)
    <3>1. j + 1 \in 1 .. n /\ (j + 1) - 1 = j
      BY <1>0
    <3> QED  BY <1>0, <2>1, <3>1
  <2> QED  BY <1>0, <1>8, <2>1, <2>2, <2>3
<1>7. h[n] \in I[n]
  BY <1>0, <1>6, TurnByTurn
<1> QED  BY <1>0, <1>5, <1>7, <1>8

(* Entries that are read again one by one.                                 *)
LEMMA RereadEnds ==
    ASSUME NEW saved, NEW n \in Nat, n = Count(saved.buckets),
           NEW U, NEW I \in [0 .. n -> SUBSET U],
           [table |-> ReserveFor(Fresh(saved), saved.nbElements),
            done |-> TRUE, full |-> FALSE] \in I[0],
           \A j \in 0 .. (n - 1) : \A s \in I[j] : Reread(saved.buckets, s, j) \in I[j + 1]
    PROVE  ReadEntries(saved) \in I[n]
<1> DEFINE zero == [table |-> ReserveFor(Fresh(saved), saved.nbElements),
                    done |-> TRUE, full |-> FALSE]
           F == [p \in U \X (0 .. (n - 1)) |-> Reread(saved.buckets, p[1], p[2])]
           Turns(g) == [j \in 0 .. Count(saved.buckets) |->
                          IF j = 0 THEN zero ELSE Reread(saved.buckets, g[j - 1], j - 1)]
<1>1. \A j \in 0 .. (n - 1) : \A s \in I[j] : F[<<s, j>>] = Reread(saved.buckets, s, j)
  OBVIOUS
<1>2. PICK g : RunsFrom(g, zero, I, F, U, n)
  <2>1. zero \in I[0] /\ KeepsTo(I, F, n)
    BY <1>1 DEF KeepsTo
  <2> HIDE DEF F, zero
  <2> QED  BY <2>1, LoopStates
<1>3. g = Turns(g)
  <2>1. ASSUME NEW j \in 1 .. n
        PROVE  F[<<g[j - 1], j - 1>>] = Reread(saved.buckets, g[j - 1], j - 1)
    <3>1. j - 1 \in 0 .. (n - 1) /\ g[j - 1] \in I[j - 1]
      BY <1>2 DEF RunsFrom
    <3> HIDE DEF F
    <3> QED  BY <3>1, <1>1
  <2> HIDE DEF F, zero
  <2>2. g \in [0 .. Count(saved.buckets) -> U] /\ g[0] = zero
    BY <1>2 DEF RunsFrom
  <2>3. \A j \in 1 .. n : g[j] = Reread(saved.buckets, g[j - 1], j - 1)
    BY <1>2, <2>1 DEF RunsFrom
  <2>4. \A j \in 0 .. Count(saved.buckets) :
           g[j] = IF j = 0 THEN zero ELSE Reread(saved.buckets, g[j - 1], j - 1)
    BY <2>2, <2>3
  <2> QED  BY <2>2, <2>4
<1> DEFINE h == CHOOSE f : f = Turns(f)
<1>4. h = Turns(h)
  BY <1>3
<1>5. ReadEntries(saved) = h[Count(saved.buckets)]
  BY DEF ReadEntries, Loop
<1> HIDE DEF h
<1>6. h[0] \in I[0] /\ \A j \in 0 .. (n - 1) : h[j] \in I[j] => h[j + 1] \in I[j + 1]
  <2> HIDE DEF zero
  <2>1. h[0] = zero /\ \A j \in 1 .. n : h[j] = Reread(saved.buckets, h[j - 1], j - 1)
    BY <1>4
  <2>2. zero \in I[0]
    BY DEF zero
  <2>3. ASSUME NEW j \in 0 .. (n - 1)  PROVE h[j + 1] = Reread(saved.buckets, h[j], j)
    <3>1. j + 1 \in 1 .. n /\ (j + 1) - 1 = j
      OBVIOUS
    <3> QED  BY <2>1, <3>1
  <2> QED  BY <2>1, <2>2, <2>3
<1>7. h[n] \in I[n]
  BY <1>6, TurnByTurn
<1> QED  BY <1>5, <1>7

-----------------------------------------------------------------------------
(* Arrays of buckets.                                                      *)

(* The buckets in use.                                                     *)
Entries == [key : Keys, value : Values, dist : Nat]

(* The bucket d behind i in an array of n, and the one a key's hash names. *)
Turn(n, i, d) == IF i + d < n THEN i + d ELSE i + d - n
Home(n, k) == HashOf[k] % n

(* An entry is free or has all fields.                                     *)
LEMMA SlotIs ==
    ASSUME NEW e \in Slots
    PROVE  /\ e.dist \in Int /\ -1 <= e.dist
           /\ e.dist # -1 => e \in Entries
           /\ e.dist = -1 => e = Free
<1>1. CASE e = Free
  BY <1>1 DEF Free
<1>2. CASE e \in Entries
  BY <1>2 DEF Entries
<1> QED  BY <1>1, <1>2 DEF Slots, Entries

(* The fields of an entry.                                                 *)
LEMMA EntryIs ==
    ASSUME NEW e \in Entries
    PROVE  e \in Slots /\ e.key \in Keys /\ e.value \in Values /\ e.dist \in Nat /\ e.dist # -1
BY DEF Slots, Entries

(* A free bucket.                                                          *)
LEMMA FreeIs == Free \in Slots /\ Free.dist = -1
BY DEF Slots, Free

(* An entry that is moved.                                                 *)
LEMMA MovedIs ==
    ASSUME NEW e \in Entries, NEW by \in Int, e.dist + by \in Nat
    PROVE  /\ Moved(e, by) \in Entries
           /\ Moved(e, by).key = e.key /\ Moved(e, by).value = e.value
           /\ Moved(e, by).dist = e.dist + by
BY DEF Moved, Entries

(* How many buckets an array has.                                          *)
LEMMA CountIs ==
    ASSUME NEW n \in Nat, NEW b \in Buckets(n)
    PROVE  Count(b) = n /\ DOMAIN b = 0 .. (n - 1)
<1>1. DOMAIN b = 0 .. (n - 1)
  BY DEF Buckets
<1>2. Cardinality(0 .. (n - 1)) = n
  BY FS_Interval
<1> QED  BY <1>1, <1>2 DEF Count

(* Its buckets in use hold entries, and are finitely many.                 *)
LEMMA FilledIs ==
    ASSUME NEW n \in Nat, NEW b \in Buckets(n)
    PROVE  /\ Filled(b) = {i \in 0 .. (n - 1) : b[i].dist # -1}
           /\ \A i \in 0 .. (n - 1) : b[i] \in Slots
           /\ \A i \in Filled(b) : b[i] \in Entries
           /\ IsFiniteSet(Filled(b))
<1>1. Filled(b) = {i \in 0 .. (n - 1) : b[i].dist # -1}
  BY CountIs DEF Filled, Empty
<1>2. \A i \in 0 .. (n - 1) : b[i] \in Slots
  BY DEF Buckets
<1>3. \A i \in Filled(b) : b[i] \in Entries
  BY <1>1, <1>2, SlotIs
<1>4. IsFiniteSet(0 .. (n - 1)) /\ Filled(b) \subseteq 0 .. (n - 1)
  BY <1>1, FS_Interval
<1> QED  BY <1>1, <1>2, <1>3, <1>4, FS_Subset

(* A turn stays in the ring, and is what the remainder computes.           *)
LEMMA TurnIs ==
    ASSUME NEW n \in Nat \ {0}, NEW i \in 0 .. (n - 1), NEW d \in 0 .. n
    PROVE  /\ Turn(n, i, d) \in 0 .. (n - 1)
           /\ (i + d) % n = Turn(n, i, d)
<1>1. PICK x \in Int : x = i + d /\ 0 <= x /\ x < n + n
  OBVIOUS
<1>2. /\ x < n => x % n = x
      /\ n <= x => x % n = x - n
  BY <1>1, Remainder
<1> QED  BY <1>1, <1>2 DEF Turn

(* The bucket that a key's hash names is in the ring.                      *)
LEMMA HomeIs ==
    ASSUME NEW n \in Nat \ {0}, NEW b \in Buckets(n), NEW k \in Keys
    PROVE  /\ Home(n, k) \in 0 .. (n - 1)
           /\ BucketFor(b, k) = Home(n, k)
<1>1. HashOf[k] \in Int
  BY TableAssumption
<1> QED  BY <1>1, Remainder, CountIs DEF Home, BucketFor

(* The operators of the model as turns.                                    *)
LEMMA AfterIs ==
    ASSUME NEW n \in Nat \ {0}, NEW b \in Buckets(n), NEW i \in 0 .. (n - 1),
           NEW d \in 0 .. n
    PROVE  After(b, i, d) = Turn(n, i, d) /\ Turn(n, i, d) \in 0 .. (n - 1)
BY TurnIs, CountIs DEF After

(* Where a search for a key is after d buckets.                            *)
LEMMA NthIs ==
    ASSUME NEW n \in Nat \ {0}, NEW b \in Buckets(n), NEW k \in Keys, NEW d \in 0 .. n
    PROVE  /\ Nth(b, k, d) = Turn(n, Home(n, k), d)
           /\ Turn(n, Home(n, k), d) \in 0 .. (n - 1)
BY HomeIs, AfterIs DEF Nth

(* Where an entry with its distance belongs.                               *)
Spot(n, e) == Turn(n, Home(n, e.key), e.dist)

(* InPlace and Ordered without remainders.                                 *)
LEMMA InPlaceIs ==
    ASSUME NEW n \in Nat \ {0}, NEW b \in Buckets(n)
    PROVE  InPlace(b) <=> \A i \in Filled(b) : b[i].dist < n /\ Spot(n, b[i]) = i
<1>1. ASSUME NEW i \in Filled(b), b[i].dist < n
      PROVE  Nth(b, b[i].key, b[i].dist) = Spot(n, b[i])
  <2>1. b[i].key \in Keys /\ b[i].dist \in 0 .. n
    BY <1>1, FilledIs, EntryIs
  <2> QED  BY <2>1, NthIs DEF Spot
<1> QED  BY <1>1, CountIs DEF InPlace

(* Ordered, with the bucket before every bucket in the ring.               *)
LEMMA OrderedIs ==
    ASSUME NEW n \in Nat \ {0}, NEW b \in Buckets(n)
    PROVE  /\ Ordered(b) <=> \A i \in Filled(b) : b[i].dist <= b[Before(n, i)].dist + 1
           /\ \A i \in 0 .. (n - 1) : Before(n, i) \in 0 .. (n - 1)
BY CountIs DEF Ordered, Before

(* A bucket is free if not all are in use.                                 *)
LEMMA SomeFree ==
    ASSUME NEW n \in Nat \ {0}, NEW b \in Buckets(n), Cardinality(Filled(b)) < n
    PROVE  \E f \in 0 .. (n - 1) : b[f].dist = -1
<1>1. SUFFICES ASSUME \A f \in 0 .. (n - 1) : b[f].dist # -1  PROVE FALSE
  OBVIOUS
<1>2. Filled(b) = 0 .. (n - 1)
  BY <1>1, FilledIs
<1>3. Cardinality(0 .. (n - 1)) = n
  BY FS_Interval
<1> QED  BY <1>2, <1>3

(* And where there is a free bucket, not all are in use.                   *)
LEMMA NotAllFilled ==
    ASSUME NEW n \in Nat \ {0}, NEW b \in Buckets(n), NEW f \in 0 .. (n - 1), b[f].dist = -1
    PROVE  Cardinality(Filled(b)) \in Nat /\ Cardinality(Filled(b)) < n
<1>1. Filled(b) \subseteq 0 .. (n - 1) /\ f \notin Filled(b)
  BY FilledIs
<1>2. IsFiniteSet(0 .. (n - 1))
  BY FS_Interval
<1>6. Cardinality(0 .. (n - 1)) = n
  BY FS_Interval
<1>3. Filled(b) # 0 .. (n - 1)
  BY <1>1
<1>4. Cardinality(Filled(b)) <= n /\ (Cardinality(Filled(b)) = n => Filled(b) = 0 .. (n - 1))
  BY <1>1, <1>2, <1>6, FS_Subset
<1>5. Cardinality(Filled(b)) \in Nat
  BY FilledIs, FS_CardinalityType
<1> QED  BY <1>3, <1>4, <1>5

(* In front of an entry far from its bucket are entries that are almost as *)
(* far from theirs.                                                        *)
LEMMA Chain ==
    ASSUME NEW n \in Nat \ {0}, NEW b \in Buckets(n), Ordered(b), NEW i \in Filled(b),
           NEW c \in 0 .. n, c <= b[i].dist
    PROVE  b[Turn(n, i, n - c)].dist >= b[i].dist - c
<1> DEFINE Wrong == {x \in 0 .. n : x <= b[i].dist /\ ~(b[Turn(n, i, n - x)].dist >= b[i].dist - x)}
<1> SUFFICES ASSUME Wrong # {} PROVE FALSE
  OBVIOUS
<1>1. PICK x \in Wrong : \A y \in Wrong : x <= y
  <2>1. Wrong \in SUBSET Nat
    OBVIOUS
  <2> HIDE DEF Wrong
  <2> QED  BY <2>1, LeastNatural
<1>2. i \in 0 .. (n - 1) /\ b[i].dist \in Nat
  BY FilledIs, EntryIs
<1>3. x # 0
  <2>1. Turn(n, i, n - 0) = i
    BY <1>2 DEF Turn
  <2> QED  BY <1>2, <2>1
<1>4. x - 1 \in 0 .. n /\ x - 1 \notin Wrong /\ x - 1 <= b[i].dist
  BY <1>1, <1>2, <1>3
<1> DEFINE p == Turn(n, i, n - (x - 1))
           q == Turn(n, i, n - x)
<1>5. b[p].dist >= b[i].dist - (x - 1)
  BY <1>4
<1>6. p \in 0 .. (n - 1) /\ q \in 0 .. (n - 1) /\ q = Before(n, p)
  BY <1>2, <1>3 DEF Turn, Before
<1> HIDE DEF p, q
<1>7. b[p].dist \in Int /\ b[q].dist \in Int
  BY <1>6, FilledIs, SlotIs
<1>8. p \in Filled(b)
  BY <1>2, <1>5, <1>6, <1>7, <1>1, FilledIs
<1>9. b[p].dist <= b[q].dist + 1
  BY <1>6, <1>8, OrderedIs
<1>10. b[q].dist >= b[i].dist - x
  BY <1>1, <1>2, <1>5, <1>7, <1>9
<1> QED  BY <1>1, <1>10 DEF q

(* So no entry is nearly a whole turn away while a bucket is free.         *)
LEMMA DistBound ==
    ASSUME NEW n \in Nat \ {0}, NEW b \in Buckets(n), Ordered(b), NEW i \in Filled(b),
           NEW f \in 0 .. (n - 1), b[f].dist = -1
    PROVE  b[i].dist + 1 < n
<1> SUFFICES ASSUME b[i].dist >= n - 1 PROVE FALSE
  BY FilledIs, EntryIs
<1>1. i \in 0 .. (n - 1) /\ b[i].dist \in Nat
  BY FilledIs, EntryIs
<1> DEFINE c == IF f <= i THEN i - f ELSE i - f + n
<1>2. c \in 0 .. (n - 1) /\ Turn(n, i, n - c) = f
  BY <1>1 DEF Turn
<1> HIDE DEF c
<1>3. b[f].dist >= b[i].dist - c
  BY <1>1, <1>2, Chain
<1> QED  BY <1>1, <1>2, <1>3

-----------------------------------------------------------------------------
(* The search.                                                             *)

(* A search for k ends in the bucket d behind its own.                     *)
StopsAt(n, b, k, d) ==
    \/ d > b[Turn(n, Home(n, k), d)].dist
    \/ b[Turn(n, Home(n, k), d)].key = k

(* The array without buckets is the empty tuple.                           *)
LEMMA NotEmptyTuple ==
    ASSUME NEW n \in Nat, NEW b \in Buckets(n)
    PROVE  (b = <<>>) <=> (n = 0)
<1>1. DOMAIN b = 0 .. (n - 1)
  BY CountIs
<1>2. ASSUME n = 0  PROVE b = <<>>
  BY <1>1, <1>2 DEF Buckets
<1>3. ASSUME n # 0  PROVE b # <<>>
  BY <1>1, <1>3
<1> QED  BY <1>2, <1>3

(* A search stops at the first bucket that stops it.                       *)
LEMMA ProbeIs ==
    ASSUME NEW n \in Nat \ {0}, NEW b \in Buckets(n), NEW k \in Keys, NEW d \in 0 .. n,
           StopsAt(n, b, k, d), \A c \in 0 .. (d - 1) : ~StopsAt(n, b, k, c)
    PROVE  Probe(b, k) = d
<1> DEFINE Stops(c) == LET e == b[(BucketFor(b, k) + c) % Count(b)]
                       IN c > e.dist \/ e.key = k
           First(c) == Stops(c) /\ \A x \in 0 .. (c - 1) : ~Stops(x)
<1>1. \A c \in 0 .. n : Stops(c) <=> StopsAt(n, b, k, c)
  <2> TAKE c \in 0 .. n
  <2>1. (BucketFor(b, k) + c) % Count(b) = Turn(n, Home(n, k), c)
    BY HomeIs, TurnIs, CountIs
  <2> QED  BY <2>1 DEF StopsAt
<1>2. Probe(b, k) = CHOOSE c \in 0 .. n : First(c)
  <2>1. b # <<>> /\ Count(b) = n
    BY NotEmptyTuple, CountIs
  <2> QED  BY <2>1 DEF Probe
<1> HIDE DEF Stops
<1>3. First(d)
  BY <1>1
<1>4. ASSUME NEW c \in 0 .. n, First(c)  PROVE c = d
  <2>1. ~(c < d)
    BY <1>1, <1>4
  <2>2. ~(d < c)
    BY <1>3, <1>4
  <2> QED  BY <2>1, <2>2
<1> HIDE DEF First
<1>5. QED  BY <1>2, <1>3, <1>4

(* It ends, because there is a free bucket.                                *)
LEMMA ProbeStops ==
    ASSUME NEW n \in Nat \ {0}, NEW b \in Buckets(n), NEW k \in Keys,
           NEW f \in 0 .. (n - 1), b[f].dist = -1
    PROVE  /\ Probe(b, k) \in 0 .. (n - 1)
           /\ StopsAt(n, b, k, Probe(b, k))
           /\ \A c \in 0 .. (Probe(b, k) - 1) : ~StopsAt(n, b, k, c)
           /\ Place(b, k) = Turn(n, Home(n, k), Probe(b, k))
           /\ Place(b, k) \in 0 .. (n - 1)
<1> DEFINE T == {c \in 0 .. (n - 1) : StopsAt(n, b, k, c)}
           h == Home(n, k)
           x == IF f >= h THEN f - h ELSE f - h + n
<1>1. h \in 0 .. (n - 1)
  BY HomeIs
<1>2. x \in 0 .. (n - 1) /\ Turn(n, h, x) = f
  BY <1>1 DEF Turn
<1>3. x \in T
  BY <1>2 DEF StopsAt
<1>4. PICK d \in T : \A c \in T : d <= c
  <2>1. T \in SUBSET Nat /\ T # {}
    BY <1>3
  <2> HIDE DEF T
  <2> QED  BY <2>1, LeastNatural
<1>5. d \in 0 .. (n - 1) /\ StopsAt(n, b, k, d) /\ \A c \in 0 .. (d - 1) : ~StopsAt(n, b, k, c)
  BY <1>4
<1>6. Probe(b, k) = d
  BY <1>5, ProbeIs
<1>7. Place(b, k) = Turn(n, Home(n, k), d) /\ Place(b, k) \in 0 .. (n - 1)
  BY <1>5, <1>6, NthIs DEF Place
<1> QED  BY <1>5, <1>6, <1>7

(* What it finds is in the table.                                          *)
LEMMA HoldsIs ==
    ASSUME NEW n \in Nat \ {0}, NEW b \in Buckets(n), NEW k \in Keys,
           NEW f \in 0 .. (n - 1), b[f].dist = -1
    PROVE  Holds(b, k) <=> Place(b, k) \in Filled(b) /\ b[Place(b, k)].key = k
<1>1. b # <<>>
  BY NotEmptyTuple
<1>2. Place(b, k) \in 0 .. (n - 1)
  BY ProbeStops
<1>3. b[Place(b, k)].dist \in Int /\ -1 <= b[Place(b, k)].dist
  BY <1>2, FilledIs, SlotIs
<1>4. Place(b, k) \in Filled(b) <=> b[Place(b, k)].dist >= 0
  BY <1>2, <1>3, FilledIs
<1> QED  BY <1>1, <1>4 DEF Holds

(* It finds every entry of an ordered table.                               *)
LEMMA SearchFinds ==
    ASSUME NEW n \in Nat \ {0}, NEW b \in Buckets(n), InPlace(b), Distinct(b), Ordered(b),
           NEW i \in Filled(b), NEW f \in 0 .. (n - 1), b[f].dist = -1
    PROVE  /\ Place(b, b[i].key) = i /\ Holds(b, b[i].key)
           /\ Probe(b, b[i].key) = b[i].dist
<1> DEFINE k == b[i].key
           d == b[i].dist
           h == Home(n, k)
<1>1. /\ i \in 0 .. (n - 1) /\ k \in Keys /\ d \in Nat /\ d < n
      /\ h \in 0 .. (n - 1) /\ Turn(n, h, d) = i
  <2>1. i \in 0 .. (n - 1) /\ b[i] \in Entries
    BY FilledIs
  <2>2. d < n /\ Spot(n, b[i]) = i
    BY InPlaceIs
  <2>3. k \in Keys /\ d \in Nat
    BY <2>1, EntryIs
  <2> QED  BY <2>1, <2>2, <2>3, HomeIs DEF Spot
<1>2. StopsAt(n, b, k, d)
  BY <1>1 DEF StopsAt
<1>3. ASSUME NEW c \in 0 .. (d - 1)  PROVE ~StopsAt(n, b, k, c)
  <2> DEFINE j == Turn(n, h, c)
  <2>1. j \in 0 .. (n - 1) /\ Turn(n, i, n - (d - c)) = j /\ j # i
    BY <1>1, <1>3 DEF Turn
  <2>2. b[j].dist >= d - (d - c)
    <3>1. d - c \in 0 .. n /\ d - c <= b[i].dist
      BY <1>1, <1>3
    <3> HIDE DEF j
    <3>2. b[Turn(n, i, n - (d - c))].dist >= b[i].dist - (d - c)
      BY <3>1, Chain
    <3> QED  BY <3>2, <2>1
  <2> HIDE DEF j
  <2>3. b[j].dist >= c /\ j \in Filled(b)
    BY <1>1, <1>3, <2>1, <2>2, FilledIs, SlotIs
  <2>4. b[j].key # k
    BY <2>1, <2>3 DEF Distinct
  <2>5. b[j].dist \in Int
    BY <2>1, FilledIs, SlotIs
  <2>6. ~(c > b[j].dist)
    BY <1>3, <1>1, <2>3, <2>5
  <2> QED  BY <2>4, <2>6 DEF j, StopsAt
<1> HIDE DEF k, d
<1>4. Probe(b, k) = d
  BY <1>1, <1>2, <1>3, ProbeIs
<1>5. Place(b, k) = i
  BY <1>1, <1>4, NthIs DEF Place
<1>6. Holds(b, k)
  <2>1. b[i].key = k
    BY DEF k
  <2> QED  BY <1>1, <1>5, <2>1, HoldsIs
<1> QED  BY <1>4, <1>5, <1>6 DEF k, d

(* Searches and the keys of the entries agree in an ordered table.         *)
LEMMA HoldsKeys ==
    ASSUME NEW n \in Nat \ {0}, NEW b \in Buckets(n), InPlace(b), Distinct(b), Ordered(b),
           NEW k \in Keys, NEW f \in 0 .. (n - 1), b[f].dist = -1
    PROVE  Holds(b, k) <=> k \in KeysIn(b)
BY SearchFinds, HoldsIs DEF KeysIn

(* Where a search ends that finds nothing, and what is in front of there.  *)
LEMMA SearchFails ==
    ASSUME NEW n \in Nat \ {0}, NEW b \in Buckets(n), NEW k \in Keys, k \notin KeysIn(b),
           NEW f \in 0 .. (n - 1), b[f].dist = -1
    PROVE  LET d == Probe(b, k) IN
           /\ d \in 0 .. (n - 1)
           /\ b[Turn(n, Home(n, k), d)].dist < d
           /\ d > 0 => b[Turn(n, Home(n, k), d - 1)].dist >= d - 1
<1> DEFINE d == Probe(b, k)
           h == Home(n, k)
<1>1. d \in 0 .. (n - 1) /\ StopsAt(n, b, k, d) /\ \A c \in 0 .. (d - 1) : ~StopsAt(n, b, k, c)
  BY ProbeStops
<1> HIDE DEF d
<1>2. \A c \in 0 .. n : Turn(n, h, c) \in 0 .. (n - 1)
  BY HomeIs, TurnIs
<1>3. \A j \in 0 .. (n - 1) : /\ b[j].dist \in Int /\ -1 <= b[j].dist
                              /\ b[j].key = k => b[j].dist = -1
  BY FilledIs, SlotIs DEF KeysIn
<1>4. b[Turn(n, h, d)].dist < d
  BY <1>1, <1>2, <1>3 DEF StopsAt
<1>5. ASSUME d > 0  PROVE b[Turn(n, h, d - 1)].dist >= d - 1
  <2>1. d - 1 \in 0 .. (d - 1) /\ d - 1 \in 0 .. n
    BY <1>1, <1>5
  <2>2. ~StopsAt(n, b, k, d - 1)
    BY <1>1, <2>1
  <2>3. b[Turn(n, h, d - 1)].dist \in Int
    BY <1>2, <1>3, <2>1
  <2> QED  BY <2>1, <2>2, <2>3 DEF StopsAt
<1> QED  BY <1>1, <1>4, <1>5 DEF d

-----------------------------------------------------------------------------
(* An insertion.                                                           *)

(* What an entry stores.                                                   *)
KV(e) == <<e.key, e.value>>

(* What an array must be for a search to find all that is in it.           *)
Sorted(b) == InPlace(b) /\ Distinct(b) /\ Ordered(b)

(* The contents of an array as pairs.                                      *)
LEMMA ContentsIs ==
    ASSUME NEW n \in Nat, NEW b \in Buckets(n)
    PROVE  /\ Contents(b) = {KV(b[i]) : i \in Filled(b)}
           /\ \A k, v : <<k, v>> \in Contents(b)
                          <=> \E i \in Filled(b) : b[i].key = k /\ b[i].value = v
           /\ Contents(b) \subseteq Keys \X Values
           /\ KeysIn(b) \subseteq Keys
<1>1. \A i \in Filled(b) : b[i].key \in Keys /\ b[i].value \in Values
  BY FilledIs, EntryIs
<1> QED  BY <1>1 DEF Contents, KV, KeysIn

(* Its keys are the keys of its contents.                                  *)
LEMMA KeysOfContents ==
    ASSUME NEW n \in Nat, NEW b \in Buckets(n), NEW k
    PROVE  k \in KeysIn(b) <=> \E v \in Values : <<k, v>> \in Contents(b)
<1>1. ASSUME k \in KeysIn(b)  PROVE \E v \in Values : <<k, v>> \in Contents(b)
  <2>1. PICK i \in Filled(b) : b[i].key = k
    BY <1>1 DEF KeysIn
  <2>2. b[i].value \in Values
    BY FilledIs, EntryIs
  <2>3. <<k, b[i].value>> \in Contents(b)
    BY <2>1 DEF Contents
  <2> QED  BY <2>2, <2>3
<1>2. ASSUME NEW v \in Values, <<k, v>> \in Contents(b)  PROVE k \in KeysIn(b)
  <2>1. PICK i \in Filled(b) : b[i].key = k
    BY <1>2, ContentsIs
  <2> QED  BY <2>1 DEF KeysIn
<1> QED  BY <1>1, <1>2

(* One bucket on.                                                          *)
LEMMA OneOn ==
    ASSUME NEW n \in Nat \ {0}, NEW start \in 0 .. (n - 1), NEW j \in 0 .. (n - 1)
    PROVE  Before(n, Turn(n, start, j + 1)) = Turn(n, start, j)
BY DEF Before, Turn

(* An entry that is carried on by one bucket is one further from its own.  *)
LEMMA SpotOneOn ==
    ASSUME NEW n \in Nat \ {0}, NEW start \in 0 .. (n - 1), NEW j \in 0 .. (n - 1),
           NEW e \in Entries, e.dist + 1 < n, Spot(n, e) = Turn(n, start, j)
    PROVE  Spot(n, Moved(e, 1)) = Turn(n, start, j + 1)
<1>1. e.dist \in Nat /\ e.key \in Keys
  BY EntryIs
<1>2. Home(n, e.key) \in 0 .. (n - 1)
  <2>1. HashOf[e.key] \in Int
    BY <1>1, TableAssumption
  <2> QED  BY <2>1, Remainder DEF Home
<1>3. Moved(e, 1).key = e.key /\ Moved(e, 1).dist = e.dist + 1
  BY <1>1, MovedIs
<1>4. Turn(n, Home(n, e.key), e.dist) = Turn(n, start, j)
  BY DEF Spot
<1>5. Turn(n, Home(n, e.key), e.dist + 1) = Turn(n, start, j + 1)
  BY <1>1, <1>2, <1>4 DEF Turn
<1> QED  BY <1>3, <1>5 DEF Spot

(* The array c is b but for the entry e in bucket p.                       *)
Replaced(n, b, p, e, c) ==
    c \in Buckets(n) /\ c[p] = e /\ \A i \in 0 .. (n - 1) : i # p => c[i] = b[i]

(* As EXCEPT does.                                                         *)
LEMMA ExceptReplaces ==
    ASSUME NEW n \in Nat, NEW b \in Buckets(n), NEW p \in 0 .. (n - 1), NEW e \in Slots
    PROVE  Replaced(n, b, p, e, [b EXCEPT ![p] = e])
BY DEF Replaced, Buckets

(* An entry takes a bucket that is free or has one nearer to its own.      *)
LEMMA PutInto ==
    ASSUME NEW n \in Nat \ {0}, NEW b \in Buckets(n), Sorted(b),
           NEW p \in 0 .. (n - 1), NEW e \in Entries, e.dist < n, Spot(n, e) = p,
           e.dist <= b[Before(n, p)].dist + 1, b[p].dist < e.dist, e.key \notin KeysIn(b),
           NEW c, Replaced(n, b, p, e, c)
    PROVE  /\ c \in Buckets(n) /\ Sorted(c)
           /\ Filled(c) = Filled(b) \union {p}
           /\ p \notin Filled(b) => Contents(c) = Contents(b) \union {KV(e)}
           /\ p \in Filled(b) =>
                /\ Contents(c) \union {KV(b[p])} = Contents(b) \union {KV(e)}
                /\ b[p].key \notin KeysIn(c)
<1>1. e \in Slots /\ e.key \in Keys /\ e.dist \in Nat /\ e.dist # -1
  BY EntryIs
<1>2. c \in Buckets(n) /\ c[p] = e /\ \A i \in 0 .. (n - 1) : i # p => c[i] = b[i]
  BY DEF Replaced
<1>3. Filled(c) = Filled(b) \union {p} /\ Filled(b) \subseteq 0 .. (n - 1)
  <2>1. /\ Filled(b) = {i \in 0 .. (n - 1) : b[i].dist # -1}
        /\ Filled(c) = {i \in 0 .. (n - 1) : c[i].dist # -1}
    BY <1>2, FilledIs
  <2>2. ASSUME NEW i \in 0 .. (n - 1)  PROVE i \in Filled(c) <=> i \in Filled(b) \union {p}
    <3>1. CASE i = p
      BY <1>1, <1>2, <2>1, <3>1
    <3>2. CASE i # p
      BY <1>2, <2>1, <3>2
    <3> QED  BY <3>1, <3>2
  <2> QED  BY <2>1, <2>2
<1>4. InPlace(c)
  <2>1. \A i \in Filled(b) : b[i].dist < n /\ Spot(n, b[i]) = i
    BY InPlaceIs DEF Sorted
  <2>2. \A i \in Filled(c) : c[i].dist < n /\ Spot(n, c[i]) = i
    BY <1>2, <1>3, <2>1
  <2> QED  BY <1>2, <2>2, InPlaceIs
<1>5. Distinct(c)
  <2> SUFFICES ASSUME NEW i \in Filled(c), NEW j \in Filled(c), c[i].key = c[j].key
               PROVE  i = j
    BY DEF Distinct
  <2>1. \A x \in Filled(b) : b[x].key # e.key
    BY DEF KeysIn
  <2>2. \A x \in Filled(c) : x # p => x \in Filled(b) /\ c[x] = b[x]
    BY <1>2, <1>3
  <2>3. CASE i # p /\ j # p
    BY <2>2, <2>3 DEF Sorted, Distinct
  <2>4. CASE i = p \/ j = p
    BY <1>2, <2>1, <2>2, <2>4
  <2> QED  BY <2>3, <2>4
<1>6. Ordered(c)
  <2>1. \A i \in 0 .. (n - 1) : /\ b[i].dist \in Int /\ c[i].dist \in Int
                                /\ b[i].dist <= c[i].dist
    BY <1>1, <1>2, FilledIs, SlotIs
  <2>2. \A i \in Filled(b) : b[i].dist <= b[Before(n, i)].dist + 1
    BY OrderedIs DEF Sorted
  <2>3. \A i \in 0 .. (n - 1) : Before(n, i) \in 0 .. (n - 1)
    BY DEF Before
  <2>4. ASSUME NEW i \in Filled(c)  PROVE c[i].dist <= c[Before(n, i)].dist + 1
    <3>1. CASE i = p
      BY <1>1, <1>2, <2>1, <2>3, <3>1
    <3>2. CASE i # p
      <4>1. i \in Filled(b) /\ i \in 0 .. (n - 1) /\ c[i] = b[i]
        BY <1>2, <1>3, <3>2
      <4>2. b[Before(n, i)].dist <= c[Before(n, i)].dist
        BY <2>1, <2>3, <4>1
      <4> QED  BY <2>1, <2>2, <2>3, <4>1, <4>2
    <3> QED  BY <3>1, <3>2
  <2> QED  BY <1>2, <2>4, OrderedIs
<1>7. \A x : /\ x \in Contents(b) <=> \E i \in Filled(b) : x = KV(b[i])
             /\ x \in Contents(c) <=> \E i \in Filled(c) : x = KV(c[i])
  BY DEF Contents, KV
<1>10. \A i \in Filled(b) : i # p => i \in Filled(c) /\ KV(c[i]) = KV(b[i])
  BY <1>2, <1>3
<1>11. p \in Filled(c) /\ KV(c[p]) = KV(e)
  BY <1>2, <1>3
<1>12. \A i \in Filled(c) : i # p => i \in Filled(b)
  BY <1>3
<1>13. ASSUME NEW x \in Contents(c)  PROVE x \in Contents(b) \union {KV(e)}
  <2>1. PICK i \in Filled(c) : x = KV(c[i])
    BY <1>7
  <2>2. CASE i = p
    BY <1>11, <2>1, <2>2
  <2>3. CASE i # p
    BY <1>7, <1>10, <1>12, <2>1, <2>3
  <2> QED  BY <2>2, <2>3
<1>14. KV(e) \in Contents(c)
  BY <1>7, <1>11
<1>15. ASSUME NEW x \in Contents(b)
       PROVE  x \in Contents(c) \/ (p \in Filled(b) /\ x = KV(b[p]))
  <2>1. PICK i \in Filled(b) : x = KV(b[i])
    BY <1>7
  <2>2. CASE i = p
    BY <2>1, <2>2
  <2>3. CASE i # p
    BY <1>7, <1>10, <2>1, <2>3
  <2> QED  BY <2>2, <2>3
<1>8. p \notin Filled(b) => Contents(c) = Contents(b) \union {KV(e)}
  BY <1>13, <1>14, <1>15
<1>9. ASSUME p \in Filled(b)
      PROVE  /\ Contents(c) \union {KV(b[p])} = Contents(b) \union {KV(e)}
             /\ b[p].key \notin KeysIn(c)
  <2>1. Contents(c) \union {KV(b[p])} = Contents(b) \union {KV(e)}
    <3>1. KV(b[p]) \in Contents(b)
      BY <1>7, <1>9
    <3> QED  BY <1>13, <1>14, <1>15, <3>1
  <2>2. ASSUME NEW i \in Filled(c)  PROVE c[i].key # b[p].key
    <3>1. CASE i = p
      BY <1>2, <1>9, <3>1 DEF KeysIn
    <3>2. CASE i # p
      BY <1>2, <1>3, <1>9, <3>2 DEF Sorted, Distinct
    <3> QED  BY <3>1, <3>2
  <2> QED  BY <2>1, <2>2 DEF KeysIn
<1> QED  BY <1>2, <1>3, <1>4, <1>5, <1>6, <1>8, <1>9 DEF Sorted

(* The states of the loop of an insertion of e at the bucket start: an     *)
(* entry is carried to where it belongs, or is placed already.             *)
CarryStates(n) ==
    [buckets : Buckets(n), carried : Entries, placed : BOOLEAN, far : BOOLEAN]

(* While an entry is carried: where it is, and that with it the array      *)
(* would hold what it held and the new entry.                              *)
Carrying(n, b, start, e, s, j) ==
    LET p == Turn(n, start, j) IN
    /\ ~s.placed /\ Sorted(s.buckets) /\ Filled(s.buckets) = Filled(b)
    /\ s.carried.dist < n /\ Spot(n, s.carried) = p
    /\ s.carried.dist <= s.buckets[Before(n, p)].dist + 1
    /\ s.carried.key \notin KeysIn(s.buckets)
    /\ Contents(s.buckets) \union {KV(s.carried)} = Contents(b) \union {KV(e)}
    /\ \A c \in 0 .. (j - 1) : Turn(n, start, c) \in Filled(b)

(* The array b with one more entry, e.                                     *)
WithOne(n, b, e, c) ==
    /\ c \in Buckets(n) /\ Sorted(c)
    /\ \E p \in (0 .. (n - 1)) \ Filled(b) : Filled(c) = Filled(b) \union {p}
    /\ Contents(c) = Contents(b) \union {KV(e)}

(* Before and after the entry that is carried has found a bucket.          *)
Carried(n, b, start, e, s, j) ==
    IF s.placed THEN WithOne(n, b, e, s.buckets) ELSE Carrying(n, b, start, e, s, j)

(* One turn of the loop.                                                   *)
LEMMA CarryKeeps ==
    ASSUME NEW n \in Nat \ {0}, NEW b \in Buckets(n), NEW start \in 0 .. (n - 1),
           NEW e \in Entries, NEW f \in 0 .. (n - 1), b[f].dist = -1,
           NEW j \in 0 .. (n - 1), NEW s \in CarryStates(n),
           Carried(n, b, start, e, s, j)
    PROVE  /\ Carry(b, start, s, j) \in CarryStates(n)
           /\ Carried(n, b, start, e, Carry(b, start, s, j), j + 1)
<1> DEFINE p == Turn(n, start, j)
           t == Carry(b, start, s, j)
           B == s.buckets
           x == s.carried
<1>1. CASE s.placed
  BY <1>1 DEF Carry, Carried
<1> SUFFICES ASSUME ~s.placed
             PROVE  t \in CarryStates(n) /\ Carried(n, b, start, e, t, j + 1)
  BY <1>1
<1>2. p \in 0 .. (n - 1) /\ After(b, start, j) = p
  BY AfterIs
<1>3. B \in Buckets(n) /\ x \in Entries /\ s.placed \in BOOLEAN /\ s.far \in BOOLEAN
  BY DEF CarryStates
<1>4. /\ Sorted(B) /\ Filled(B) = Filled(b)
      /\ x.dist < n /\ Spot(n, x) = p
      /\ x.dist <= B[Before(n, p)].dist + 1
      /\ x.key \notin KeysIn(B)
      /\ Contents(B) \union {KV(x)} = Contents(b) \union {KV(e)}
      /\ \A c \in 0 .. (j - 1) : Turn(n, start, c) \in Filled(b)
  BY DEF Carried, Carrying
<1>5. x.dist \in Nat /\ x.key \in Keys /\ x \in Slots
  BY <1>3, EntryIs
<1>6. B[p] \in Slots /\ B[p].dist \in Int /\ -1 <= B[p].dist
      /\ (p \in Filled(B) <=> B[p].dist # -1)
  BY <1>2, <1>3, FilledIs, SlotIs
<1>7. B[f].dist = -1
  <2>1. f \notin Filled(b)
    BY FilledIs
  <2> QED  BY <1>3, <1>4, <2>1, FilledIs
<1>8. Before(n, Turn(n, start, j + 1)) = p
  BY OneOn
<1>9. p \in Filled(B) => \A c \in 0 .. ((j + 1) - 1) : Turn(n, start, c) \in Filled(b)
  BY <1>4
<1>10. PICK C : C = [B EXCEPT ![p] = x]
  OBVIOUS
<1>16. Replaced(n, B, p, x, C)
  BY <1>2, <1>3, <1>5, <1>10, ExceptReplaces
<1>11. C \in Buckets(n) /\ C[p] = x
  BY <1>16 DEF Replaced
<1> HIDE DEF p, B, x
<1>12. ASSUME B[p].dist < x.dist
       PROVE  /\ Sorted(C) /\ Filled(C) = Filled(B) \union {p}
              /\ p \notin Filled(B) => Contents(C) = Contents(B) \union {KV(x)}
              /\ p \in Filled(B) =>
                   /\ Contents(C) \union {KV(B[p])} = Contents(B) \union {KV(x)}
                   /\ B[p].key \notin KeysIn(C)
  <2>1. p \in 0 .. (n - 1) /\ B \in Buckets(n) /\ x \in Entries
    BY <1>2, <1>3
  <2>2. /\ Sorted(B) /\ x.dist < n /\ Spot(n, x) = p
        /\ x.dist <= B[Before(n, p)].dist + 1 /\ x.key \notin KeysIn(B)
    BY <1>4
  <2> QED  BY <1>12, <1>16, <2>1, <2>2, PutInto
<1>13. CASE B[p].dist = -1
  <2>1. t = [s EXCEPT !.buckets = C, !.placed = TRUE]
    BY <1>2, <1>10, <1>13 DEF Carry, Empty, B, x
  <2>2. t \in CarryStates(n) /\ t.placed /\ t.buckets = C
    BY <1>11, <2>1 DEF CarryStates
  <2>3. p \notin Filled(b) /\ p \notin Filled(B) /\ B[p].dist < x.dist
    BY <1>4, <1>5, <1>6, <1>13
  <2>4. WithOne(n, b, e, C)
    BY <1>2, <1>4, <1>11, <1>12, <2>3 DEF WithOne
  <2> QED  BY <2>2, <2>4 DEF Carried
<1>14. CASE B[p].dist # -1 /\ x.dist > B[p].dist
  <2> DEFINE y == Moved(B[p], 1)
  <2>1. \E far \in BOOLEAN : t = [s EXCEPT !.buckets = C, !.carried = y, !.far = far]
    <3>1. t = [s EXCEPT !.buckets = C, !.carried = y,
                        !.far = @ \/ (j > 0 /\ x.dist > Limit)]
      BY <1>2, <1>10, <1>14 DEF Carry, Empty, B, x
    <3>2. (s.far \/ (j > 0 /\ x.dist > Limit)) \in BOOLEAN
      OBVIOUS
    <3> QED  BY <3>1, <3>2
  <2>2. p \in Filled(B) /\ B[p] \in Entries
    BY <1>3, <1>6, <1>14, FilledIs
  <2>3. /\ y \in Entries /\ y.key = B[p].key /\ y.value = B[p].value
        /\ y.dist = B[p].dist + 1
    BY <1>6, <1>14, <2>2, MovedIs, EntryIs
  <2>4. KV(y) = KV(B[p])
    BY <2>3 DEF KV
  <2>5. Spot(n, B[p]) = p /\ B[p].dist + 1 < n
    <3>1. InPlace(B) /\ Ordered(B)
      BY <1>4 DEF Sorted
    <3> QED  BY <1>3, <1>7, <2>2, <3>1, InPlaceIs, DistBound
  <2>6. Spot(n, y) = Turn(n, start, j + 1)
    BY <2>2, <2>5, SpotOneOn DEF p
  <2> HIDE DEF y
  <2>7. /\ t \in CarryStates(n) /\ ~t.placed /\ t.buckets = C /\ t.carried = y
    BY <1>3, <1>11, <2>1, <2>3 DEF CarryStates
  <2>8. Sorted(C) /\ Filled(C) = Filled(b)
    BY <1>4, <1>12, <1>14, <2>2
  <2>9. y.dist < n /\ y.dist <= C[Before(n, Turn(n, start, j + 1))].dist + 1
    BY <1>5, <1>6, <1>8, <1>11, <1>14, <2>3, <2>5
  <2>10. y.key \notin KeysIn(C)
    BY <1>12, <1>14, <2>2, <2>3
  <2>11. Contents(C) \union {KV(y)} = Contents(b) \union {KV(e)}
    BY <1>4, <1>12, <1>14, <2>2, <2>4
  <2>12. Carrying(n, b, start, e, t, j + 1)
    BY <1>9, <2>2, <2>6, <2>7, <2>8, <2>9, <2>10, <2>11 DEF Carrying
  <2> QED  BY <2>7, <2>12 DEF Carried
<1>15. CASE B[p].dist # -1 /\ ~(x.dist > B[p].dist)
  <2> DEFINE y == Moved(x, 1)
  <2>1. t = [s EXCEPT !.carried = y]
    BY <1>2, <1>15 DEF Carry, Empty, B, x
  <2>2. p \in Filled(B) /\ B[p] \in Entries
    BY <1>3, <1>6, <1>15, FilledIs
  <2>3. y \in Entries /\ y.key = x.key /\ y.value = x.value /\ y.dist = x.dist + 1
    <3>1. x \in Entries /\ x.dist + 1 \in Nat /\ 1 \in Int
      BY <1>3, <1>5
    <3> QED  BY <3>1, MovedIs
  <2>4. KV(y) = KV(x)
    BY <2>3 DEF KV
  <2>5. x.dist + 1 < n
    <3>1. B[p].dist + 1 < n
      BY <1>3, <1>4, <1>7, <2>2, DistBound DEF Sorted
    <3> QED  BY <1>5, <1>6, <1>15, <3>1
  <2>6. Spot(n, y) = Turn(n, start, j + 1)
    BY <1>3, <1>4, <2>5, SpotOneOn DEF p
  <2> HIDE DEF y
  <2>7. /\ t \in CarryStates(n) /\ ~t.placed /\ t.buckets = B /\ t.carried = y
    BY <1>3, <2>1, <2>3 DEF CarryStates, B
  <2>8. y.dist < n /\ y.dist <= B[Before(n, Turn(n, start, j + 1))].dist + 1
    BY <1>5, <1>6, <1>8, <1>15, <2>3, <2>5
  <2>9. Carrying(n, b, start, e, t, j + 1)
    BY <1>4, <1>9, <2>2, <2>3, <2>4, <2>6, <2>7, <2>8 DEF Carrying
  <2> QED  BY <2>7, <2>9 DEF Carried
<1> QED  BY <1>13, <1>14, <1>15

(* An entry whose search failed gets a bucket, and all others keep theirs  *)
(* or one further on.                                                      *)
LEMMA DisplaceInserts ==
    ASSUME NEW n \in Nat \ {0}, NEW b \in Buckets(n), Sorted(b),
           NEW f \in 0 .. (n - 1), b[f].dist = -1,
           NEW start \in 0 .. (n - 1), NEW e \in Entries, e.dist < n, Spot(n, e) = start,
           e.dist <= b[Before(n, start)].dist + 1, e.key \notin KeysIn(b)
    PROVE  /\ WithOne(n, b, e, Displace(b, start, e).buckets)
           /\ Displace(b, start, e).far \in BOOLEAN
<1> DEFINE zero == [buckets |-> b, carried |-> e, placed |-> FALSE, far |-> FALSE]
           States(j) == {s \in CarryStates(n) : Carried(n, b, start, e, s, j)}
           I == [j \in 0 .. n |-> States(j)]
           last == Displace(b, start, e)
<1>1. zero \in I[0]
  <2>1. zero \in CarryStates(n) /\ ~zero.placed /\ zero.buckets = b /\ zero.carried = e
    BY DEF CarryStates
  <2>2. Turn(n, start, 0) = start
    BY DEF Turn
  <2> HIDE DEF zero
  <2>3. Carrying(n, b, start, e, zero, 0)
    BY <2>1, <2>2 DEF Carrying
  <2> QED  BY <2>1, <2>3 DEF Carried
<1>2. \A j \in 0 .. (n - 1) : \A s \in I[j] : Carry(b, start, s, j) \in I[j + 1]
  <2> SUFFICES ASSUME NEW j \in 0 .. (n - 1), NEW s \in I[j]
               PROVE  Carry(b, start, s, j) \in I[j + 1]
    OBVIOUS
  <2>1. s \in CarryStates(n) /\ Carried(n, b, start, e, s, j)
    OBVIOUS
  <2>2. Carry(b, start, s, j) \in States(j + 1)
    BY <2>1, CarryKeeps
  <2> QED  BY <2>2
<1>3. I \in [0 .. n -> SUBSET CarryStates(n)] /\ n = Count(b)
  BY CountIs
<1>4. last \in I[n]
  <2> HIDE DEF I
  <2> QED  BY <1>1, <1>2, <1>3, DisplaceEnds
<1>5. last \in CarryStates(n) /\ Carried(n, b, start, e, last, n)
  BY <1>4
<1> HIDE DEF last
<1>6. last.placed
  <2> SUFFICES ASSUME ~last.placed PROVE FALSE
    OBVIOUS
  <2>1. \A c \in 0 .. (n - 1) : Turn(n, start, c) \in Filled(b)
    BY <1>5 DEF Carried, Carrying
  <2> DEFINE c == IF f >= start THEN f - start ELSE f - start + n
  <2>2. c \in 0 .. (n - 1) /\ Turn(n, start, c) = f
    BY DEF Turn
  <2>3. f \notin Filled(b)
    BY FilledIs
  <2> QED  BY <2>1, <2>2, <2>3
<1> QED  BY <1>5, <1>6 DEF Carried, CarryStates, last

(* One bucket and one key more.                                            *)
LEMMA WithOneIs ==
    ASSUME NEW n \in Nat, NEW b \in Buckets(n), NEW e \in Entries,
           NEW c, WithOne(n, b, e, c)
    PROVE  /\ Cardinality(Filled(c)) = Cardinality(Filled(b)) + 1
           /\ KeysIn(c) = KeysIn(b) \union {e.key}
<1>1. PICK p \in (0 .. (n - 1)) \ Filled(b) : Filled(c) = Filled(b) \union {p}
  BY DEF WithOne
<1>2. Cardinality(Filled(c)) = Cardinality(Filled(b)) + 1
  BY <1>1, FilledIs, FS_AddElement
<1>3. \A k : k \in KeysIn(c) <=> k \in KeysIn(b) \/ k = e.key
  <2> TAKE k
  <2>1. c \in Buckets(n) /\ Contents(c) = Contents(b) \union {<<e.key, e.value>>}
    BY DEF WithOne, KV
  <2>2. k \in KeysIn(c) <=> \E v \in Values : <<k, v>> \in Contents(c)
    BY <2>1, KeysOfContents
  <2>3. k \in KeysIn(b) <=> \E v \in Values : <<k, v>> \in Contents(b)
    BY KeysOfContents
  <2>4. e.value \in Values
    BY EntryIs
  <2> QED  BY <2>1, <2>2, <2>3, <2>4
<1> QED  BY <1>2, <1>3

(* Another table takes over an entry.                                      *)
LEMMA ReinsertedIs ==
    ASSUME NEW n \in Nat \ {0}, NEW b \in Buckets(n), Sorted(b),
           NEW f \in 0 .. (n - 1), b[f].dist = -1, NEW e \in Entries, e.key \notin KeysIn(b)
    PROVE  \E x \in Entries : /\ KV(x) = KV(e) /\ x.key = e.key
                              /\ WithOne(n, b, x, Reinserted(b, e))
<1> DEFINE x == Entry(e.key, e.value, 0)
           h == Home(n, e.key)
<1>1. x \in Entries /\ x.key = e.key /\ x.value = e.value /\ x.dist = 0
  BY EntryIs DEF Entry, Entries
<1>2. h \in 0 .. (n - 1) /\ BucketFor(b, e.key) = h
  BY EntryIs, HomeIs
<1>3. KV(x) = KV(e)
  BY <1>1 DEF KV
<1> HIDE DEF h
<1>4. Reinserted(b, e) = Displace(b, h, x).buckets
  BY <1>2 DEF Reinserted
<1> HIDE DEF x
<1>5. Spot(n, x) = h
  BY <1>1, <1>2 DEF Spot, Turn, h
<1>6. x.dist <= b[Before(n, h)].dist + 1
  <2>1. Before(n, h) \in 0 .. (n - 1)
    BY <1>2 DEF Before
  <2> QED  BY <1>1, <2>1, FilledIs, SlotIs
<1>7. x.dist < n /\ x.key \notin KeysIn(b)
  BY <1>1
<1>8. WithOne(n, b, x, Displace(b, h, x).buckets)
  BY <1>1, <1>2, <1>5, <1>6, <1>7, DisplaceInserts
<1> QED  BY <1>1, <1>3, <1>4, <1>8

-----------------------------------------------------------------------------
(* New tables, and tables that take over all entries of another.           *)

(* The least power of two that is enough.                                  *)
LEMMA PowerOfTwoIs ==
    ASSUME NEW count \in 0 .. MaxBuckets
    PROVE  /\ PowerOfTwo(count) \in {0} \union Sizes
           /\ PowerOfTwo(count) \in Nat
           /\ count <= PowerOfTwo(count) /\ PowerOfTwo(count) <= MaxBuckets
           /\ PowerOfTwo(count) = 0 <=> count = 0
<1> DEFINE T == Sizes \ 0 .. (count - 1)
<1>1. Sizes \subseteq Nat \ {0} /\ MaxBuckets \in Sizes /\ MaxBuckets \in Nat
  BY TableAssumption, SizesAssumption
<1>2. CASE count = 0
  BY <1>1, <1>2 DEF PowerOfTwo
<1>3. CASE count # 0
  <2>1. T \in SUBSET Nat /\ MaxBuckets \in T
    BY <1>1, <1>3
  <2>2. Min(T) \in T /\ Min(T) <= MaxBuckets
    <3> HIDE DEF T
    <3> QED  BY <2>1, MinIsLeast
  <2>3. PowerOfTwo(count) = Min(T)
    BY <1>3 DEF PowerOfTwo
  <2> DEFINE q == Min(T)
  <2>4. q \in Sizes /\ q \notin 0 .. (count - 1) /\ q <= MaxBuckets
    BY <2>2
  <2> HIDE DEF q
  <2>5. q \in Nat /\ q >= count
    BY <1>1, <2>4
  <2>6. PowerOfTwo(count) = q
    BY <2>3 DEF q
  <2> QED  BY <1>3, <2>4, <2>5, <2>6
<1> QED  BY <1>2, <1>3

(* The load threshold leaves a bucket free.                                *)
LEMMA ThresholdIs ==
    ASSUME NEW n \in Nat, NEW p \in 20 .. 95
    PROVE  /\ Threshold(n, p) \in Nat
           /\ IF n = 0 THEN Threshold(n, p) = 0 ELSE Threshold(n, p) < n
BY DEF Threshold

(* The least bucket count for a number of elements is a number,            *)
LEMMA CeilingType ==
    ASSUME NEW a \in Nat, NEW p \in 20 .. 95
    PROVE  Ceiling(a, p) \in Nat
BY DEF Ceiling

(* and one whose threshold allows them.                                    *)
LEMMA CeilingIs ==
    ASSUME NEW n \in Nat, NEW a \in Nat, NEW p \in 20 .. 95
    PROVE  /\ Ceiling(a, p) \in Nat
           /\ n >= Ceiling(a, p) => Threshold(n, p) >= a
BY DEF Threshold, Ceiling

(* An array of free buckets.                                               *)
LEMMA EmptyIs ==
    ASSUME NEW n \in Nat, NEW b \in Buckets(n), \A i \in 0 .. (n - 1) : b[i] = Free
    PROVE  /\ Filled(b) = {} /\ Cardinality(Filled(b)) = 0
           /\ Contents(b) = {} /\ KeysIn(b) = {} /\ Sorted(b)
<1>1. Filled(b) = {}
  BY FilledIs, FreeIs
<1>2. Cardinality(Filled(b)) = 0
  BY <1>1, FS_EmptySet
<1> QED  BY <1>1, <1>2 DEF Contents, KeysIn, Sorted, InPlace, Distinct, Ordered

(* A new table.                                                            *)
LEMMA NewTableIs ==
    ASSUME NEW count \in 0 .. MaxBuckets, NEW minLoad \in MinLoads, NEW maxLoad \in MaxLoads
    PROVE  LET t == NewTable(count, minLoad, maxLoad)
               n == PowerOfTwo(count) IN
           /\ t \in Objects /\ t.buckets \in Buckets(n)
           /\ \A i \in 0 .. (n - 1) : t.buckets[i] = Free
           /\ t.nbElements = 0 /\ t.loadThreshold = Threshold(n, maxLoad)
           /\ t.minLoad = minLoad /\ t.maxLoad = maxLoad
           /\ ~t.growOnNextInsert /\ ~t.tryShrinkOnNextInsert
<1> DEFINE n == PowerOfTwo(count)
           b == IF n = 0 THEN <<>> ELSE [i \in 0 .. (n - 1) |-> Free]
           t == NewTable(count, minLoad, maxLoad)
<1>1. n \in {0} \union Sizes /\ n \in Nat
  BY PowerOfTwoIs
<1> HIDE DEF n
<1>2. b \in Buckets(n)
  <2>1. CASE n = 0
    BY <2>1, <1>1 DEF Buckets
  <2>2. CASE n # 0
    BY <2>2, <1>1, FreeIs DEF Buckets
  <2> QED  BY <2>1, <2>2
<1>3. \A i \in 0 .. (n - 1) : b[i] = Free
  BY <1>1
<1> HIDE DEF b
<1>4. maxLoad \in 20 .. 95
  BY TableAssumption
<1>5. Threshold(n, maxLoad) \in Nat
  BY <1>1, <1>4, ThresholdIs
<1>6. t = [buckets |-> b, nbElements |-> 0, loadThreshold |-> Threshold(n, maxLoad),
           minLoad |-> minLoad, maxLoad |-> maxLoad,
           growOnNextInsert |-> FALSE, tryShrinkOnNextInsert |-> FALSE]
  BY DEF NewTable, b, n
<1>7. b \in UNION {Buckets(m) : m \in {0} \union Sizes}
  BY <1>1, <1>2
<1>8. t \in Objects
  BY <1>5, <1>6, <1>7 DEF Objects
<1> QED  BY <1>2, <1>3, <1>6, <1>8 DEF n

(* The entries in the first j buckets.                                     *)
Upto(b, j) == {i \in Filled(b) : i < j}

(* The entries in front of bucket j, one more bucket at a time.            *)
LEMMA UptoIs ==
    ASSUME NEW n \in Nat, NEW b \in Buckets(n), NEW j \in 0 .. n
    PROVE  /\ Upto(b, 0) = {} /\ Upto(b, n) = Filled(b)
           /\ Upto(b, j) \subseteq Filled(b) /\ IsFiniteSet(Upto(b, j))
           /\ Cardinality(Upto(b, j)) \in Nat
           /\ j < n /\ j \in Filled(b) =>
                 /\ Upto(b, j + 1) = Upto(b, j) \union {j}
                 /\ j \notin Upto(b, j)
                 /\ Cardinality(Upto(b, j)) < Cardinality(Filled(b))
                 /\ Cardinality(Upto(b, j + 1)) = Cardinality(Upto(b, j)) + 1
           /\ j < n /\ j \notin Filled(b) => Upto(b, j + 1) = Upto(b, j)
<1>1. Filled(b) \subseteq 0 .. (n - 1) /\ IsFiniteSet(Filled(b))
  BY FilledIs
<1>2. Upto(b, 0) = {} /\ Upto(b, n) = Filled(b) /\ Upto(b, j) \subseteq Filled(b)
  BY <1>1 DEF Upto
<1>3. IsFiniteSet(Upto(b, j)) /\ Cardinality(Upto(b, j)) \in Nat
  BY <1>1, <1>2, FS_Subset, FS_CardinalityType
<1>4. ASSUME j < n, j \in Filled(b)
      PROVE  /\ Upto(b, j + 1) = Upto(b, j) \union {j}
             /\ j \notin Upto(b, j)
             /\ Cardinality(Upto(b, j)) < Cardinality(Filled(b))
             /\ Cardinality(Upto(b, j + 1)) = Cardinality(Upto(b, j)) + 1
  <2>1. Upto(b, j + 1) = Upto(b, j) \union {j} /\ j \notin Upto(b, j)
    BY <1>1, <1>4 DEF Upto
  <2>2. Cardinality(Upto(b, j + 1)) = Cardinality(Upto(b, j)) + 1
    BY <1>3, <2>1, FS_AddElement
  <2>3. Upto(b, j) # Filled(b)
    BY <1>4, <2>1
  <2>4. Cardinality(Upto(b, j)) <= Cardinality(Filled(b))
        /\ Cardinality(Upto(b, j)) # Cardinality(Filled(b))
    BY <1>1, <1>2, <2>3, FS_Subset
  <2>5. Cardinality(Filled(b)) \in Nat
    BY <1>1, FS_CardinalityType
  <2> QED  BY <1>3, <2>1, <2>2, <2>4, <2>5
<1>5. ASSUME j < n, j \notin Filled(b)  PROVE Upto(b, j + 1) = Upto(b, j)
  BY <1>1, <1>5 DEF Upto
<1> QED  BY <1>2, <1>3, <1>4, <1>5

(* After j buckets of b the array c of n buckets has taken over their      *)
(* entries.                                                                *)
TakenOver(n, b, j, c) ==
    /\ c \in Buckets(n) /\ Sorted(c)
    /\ Contents(c) = {KV(b[i]) : i \in Upto(b, j)}
    /\ Cardinality(Filled(c)) = Cardinality(Upto(b, j))

(* A turn of rehash_impl: one more entry is taken over.                    *)
LEMMA ReinsertKeeps ==
    ASSUME NEW m \in Nat, NEW b \in Buckets(m), Distinct(b),
           NEW n \in Nat, Cardinality(Filled(b)) < n \/ Cardinality(Filled(b)) = 0,
           NEW j \in 0 .. (m - 1), NEW c, TakenOver(n, b, j, c)
    PROVE  TakenOver(n, b, j + 1, Reinsert(b, c, j))
<1>1. CASE j \notin Filled(b)
  <2>1. Reinsert(b, c, j) = c
    BY <1>1, CountIs DEF Reinsert, Filled
  <2>2. Upto(b, j + 1) = Upto(b, j)
    BY <1>1, UptoIs
  <2> QED  BY <2>1, <2>2 DEF TakenOver
<1>2. CASE j \in Filled(b)
  <2>1. Reinsert(b, c, j) = Reinserted(c, b[j])
    BY <1>2 DEF Reinsert, Filled
  <2>2. b[j] \in Entries
    BY <1>2, FilledIs
  <2>3. /\ Upto(b, j + 1) = Upto(b, j) \union {j} /\ j \notin Upto(b, j)
        /\ Cardinality(Upto(b, j)) < Cardinality(Filled(b))
        /\ Cardinality(Upto(b, j + 1)) = Cardinality(Upto(b, j)) + 1
        /\ Upto(b, j) \subseteq Filled(b) /\ Cardinality(Upto(b, j)) \in Nat
    BY <1>2, UptoIs
  <2>4. c \in Buckets(n) /\ Sorted(c) /\ Cardinality(Filled(c)) = Cardinality(Upto(b, j))
        /\ Contents(c) = {KV(b[i]) : i \in Upto(b, j)}
    BY DEF TakenOver
  <2>5. Cardinality(Filled(b)) \in Nat
    BY FilledIs, FS_CardinalityType
  <2>6. Cardinality(Filled(c)) < n /\ n # 0
    BY <2>3, <2>4, <2>5
  <2>7. PICK f \in 0 .. (n - 1) : c[f].dist = -1
    BY <2>4, <2>6, SomeFree
  <2>8. b[j].key \notin KeysIn(c)
    <3>1. SUFFICES ASSUME NEW i \in Filled(c), c[i].key = b[j].key PROVE FALSE
      BY DEF KeysIn
    <3>2. KV(c[i]) \in Contents(c)
      BY DEF Contents, KV
    <3>3. PICK x \in Upto(b, j) : KV(c[i]) = KV(b[x])
      BY <2>4, <3>2
    <3>4. b[x].key = b[j].key
      BY <3>1, <3>3 DEF KV
    <3> QED  BY <1>2, <2>3, <3>4 DEF Distinct
  <2>9. PICK x \in Entries : KV(x) = KV(b[j]) /\ WithOne(n, c, x, Reinserted(c, b[j]))
    <3>1. n \in Nat \ {0}
      BY <2>6
    <3> QED  BY <2>2, <2>4, <2>7, <2>8, <3>1, ReinsertedIs
  <2>10. PICK d : d = Reinserted(c, b[j])
    OBVIOUS
  <2>11. d \in Buckets(n) /\ Sorted(d) /\ Contents(d) = Contents(c) \union {KV(b[j])}
    BY <2>9, <2>10 DEF WithOne
  <2>12. Cardinality(Filled(d)) = Cardinality(Filled(c)) + 1
    BY <2>4, <2>9, <2>10, WithOneIs
  <2>13. Contents(d) = {KV(b[i]) : i \in Upto(b, j + 1)}
    BY <2>3, <2>4, <2>11
  <2> QED  BY <2>1, <2>3, <2>4, <2>10, <2>11, <2>12, <2>13 DEF TakenOver
<1> QED  BY <1>1, <1>2

(* A table's fields.                                                       *)
LEMMA ObjectIs ==
    ASSUME NEW t \in Objects
    PROVE  /\ Count(t.buckets) \in {0} \union Sizes /\ Count(t.buckets) \in Nat
           /\ t.buckets \in Buckets(Count(t.buckets))
           /\ t.nbElements \in Nat /\ t.loadThreshold \in Nat
           /\ t.minLoad \in MinLoads /\ t.maxLoad \in MaxLoads
           /\ t.minLoad \in 0 .. 15 /\ t.maxLoad \in 20 .. 95
           /\ t.growOnNextInsert \in BOOLEAN /\ t.tryShrinkOnNextInsert \in BOOLEAN
<1>1. t.buckets \in UNION {Buckets(n) : n \in {0} \union Sizes}
  BY DEF Objects
<1>2. PICK n \in {0} \union Sizes : t.buckets \in Buckets(n)
  BY <1>1
<1>3. n \in Nat
  BY <1>2, SizesAssumption
<1>4. Count(t.buckets) = n
  BY <1>2, <1>3, CountIs
<1>5. t.minLoad \in MinLoads /\ t.maxLoad \in MaxLoads
  BY DEF Objects
<1>6. t.minLoad \in 0 .. 15 /\ t.maxLoad \in 20 .. 95
  BY <1>5, TableAssumption
<1>7. /\ t.nbElements \in Nat /\ t.loadThreshold \in Nat
      /\ t.growOnNextInsert \in BOOLEAN /\ t.tryShrinkOnNextInsert \in BOOLEAN
  BY DEF Objects
<1> QED  BY <1>2, <1>3, <1>4, <1>5, <1>6, <1>7

(* A table that a search works on.                                         *)
Sound(t) == Whole(t) /\ Ordered(t.buckets)

(* The parts of a table in order.                                          *)
LEMMA SoundIs ==
    ASSUME NEW t \in Objects
    PROVE  Sound(t) <=> Roomy(t) /\ Sorted(t.buckets)
BY DEF Sound, Whole, Sorted

(* A rehash leaves a sound table with the same entries, even of one that   *)
(* was damaged.                                                            *)
LEMMA RehashedKeeps ==
    ASSUME NEW t, Whole(t), NEW count \in 0 .. MaxBuckets,
           t.nbElements < PowerOfTwo(count) \/ t.nbElements = 0
    PROVE  LET u == Rehashed(t, count) IN
           /\ Sound(u) /\ Contents(u.buckets) = Contents(t.buckets)
           /\ Count(u.buckets) = PowerOfTwo(count)
           /\ u.nbElements = t.nbElements
           /\ u.loadThreshold = Threshold(PowerOfTwo(count), t.maxLoad)
           /\ u.minLoad = t.minLoad /\ u.maxLoad = t.maxLoad
           /\ ~u.growOnNextInsert /\ ~u.tryShrinkOnNextInsert
<1> DEFINE n == PowerOfTwo(count)
           m == Count(t.buckets)
           b == t.buckets
           new == NewTable(count, t.minLoad, t.maxLoad)
           I == [j \in 0 .. m |-> {c \in Buckets(n) : TakenOver(n, b, j, c)}]
           u == Rehashed(t, count)
<1>1. t \in Objects /\ Roomy(t) /\ Distinct(b)
  BY DEF Whole
<1>2. /\ m \in Nat /\ b \in Buckets(m) /\ t.minLoad \in MinLoads /\ t.maxLoad \in MaxLoads
      /\ t.maxLoad \in 20 .. 95 /\ t.nbElements \in Nat /\ t.nbElements = Cardinality(Filled(b))
  BY <1>1, ObjectIs DEF Roomy
<1>3. n \in {0} \union Sizes /\ n \in Nat /\ n <= MaxBuckets
  BY PowerOfTwoIs
<1>4. /\ new \in Objects /\ new.buckets \in Buckets(n)
      /\ \A i \in 0 .. (n - 1) : new.buckets[i] = Free
      /\ new.loadThreshold = Threshold(n, t.maxLoad)
      /\ new.minLoad = t.minLoad /\ new.maxLoad = t.maxLoad
      /\ ~new.growOnNextInsert /\ ~new.tryShrinkOnNextInsert
  BY <1>2, NewTableIs
<1>5. new.buckets \in I[0]
  <2>1. /\ Cardinality(Filled(new.buckets)) = 0
        /\ Contents(new.buckets) = {} /\ Sorted(new.buckets)
    BY <1>3, <1>4, EmptyIs
  <2>2. Upto(b, 0) = {} /\ Cardinality(Upto(b, 0)) = 0
    BY <1>2, UptoIs, FS_EmptySet
  <2> HIDE DEF new, n, m, b
  <2>3. TakenOver(n, b, 0, new.buckets)
    BY <1>4, <2>1, <2>2 DEF TakenOver
  <2> QED  BY <1>2, <1>4, <2>3
<1>6. \A j \in 0 .. (m - 1) : \A c \in I[j] : Reinsert(b, c, j) \in I[j + 1]
  <2> SUFFICES ASSUME NEW j \in 0 .. (m - 1), NEW c \in I[j]
               PROVE  Reinsert(b, c, j) \in I[j + 1]
    OBVIOUS
  <2>1. TakenOver(n, b, j, c)
    BY <1>2
  <2> HIDE DEF n, m, b
  <2>2. TakenOver(n, b, j + 1, Reinsert(b, c, j))
    BY <1>1, <1>2, <1>3, <2>1, ReinsertKeeps DEF n
  <2>3. Reinsert(b, c, j) \in Buckets(n)
    BY <2>2 DEF TakenOver
  <2> QED  BY <1>2, <2>2, <2>3
<1>7. I \in [0 .. m -> SUBSET Buckets(n)]
  OBVIOUS
<1>8. PICK c \in I[m] : u = [new EXCEPT !.nbElements = t.nbElements, !.buckets = c]
  <2> HIDE DEF I, n
  <2> QED  BY <1>2, <1>5, <1>6, <1>7, RehashedEnds
<1>9. TakenOver(n, b, m, c)
  BY <1>2, <1>8
<1> HIDE DEF I, n, m, b, new, u
<1>10. Upto(b, m) = Filled(b)
  BY <1>2, UptoIs
<1>11. /\ c \in Buckets(n) /\ Sorted(c) /\ Contents(c) = Contents(b)
       /\ Cardinality(Filled(c)) = t.nbElements
  BY <1>2, <1>9, <1>10 DEF TakenOver, Contents, KV
<1>12. c \in UNION {Buckets(x) : x \in {0} \union Sizes}
  BY <1>3, <1>11
<1>13. u \in Objects
  BY <1>2, <1>4, <1>8, <1>12 DEF Objects
<1>14. /\ u.buckets = c /\ u.nbElements = t.nbElements
       /\ u.loadThreshold = Threshold(n, t.maxLoad)
       /\ u.minLoad = t.minLoad /\ u.maxLoad = t.maxLoad
       /\ ~u.growOnNextInsert /\ ~u.tryShrinkOnNextInsert
  BY <1>4, <1>8 DEF Objects
<1>15. Count(c) = n
  BY <1>3, <1>11, CountIs
<1>16. Roomy(u)
  <2>1. IF n = 0 THEN Threshold(n, t.maxLoad) = 0 ELSE Threshold(n, t.maxLoad) < n
    BY <1>2, <1>3, ThresholdIs
  <2>2. n # 0 => t.nbElements < n
    BY <1>3 DEF n
  <2> QED  BY <1>3, <1>11, <1>14, <1>15, <2>1, <2>2 DEF Roomy
<1>17. Sound(u)
  BY <1>11, <1>13, <1>14, <1>16, SoundIs
<1> QED  BY <1>11, <1>14, <1>15, <1>17 DEF b, n, u
(* The table u has the entries of t, in order.                             *)
Keeps(t, u) ==
    /\ Sound(u) /\ Contents(u.buckets) = Contents(t.buckets)
    /\ u.nbElements = t.nbElements
    /\ u.minLoad = t.minLoad /\ u.maxLoad = t.maxLoad

(* The numbers of a table.                                                 *)
LEMMA WholeIs ==
    ASSUME NEW t, Whole(t)
    PROVE  /\ t \in Objects
           /\ t.nbElements = Cardinality(Filled(t.buckets))
           /\ Count(t.buckets) <= MaxBuckets
           /\ IF Count(t.buckets) = 0 THEN t.nbElements = 0 /\ t.loadThreshold = 0
              ELSE t.nbElements < Count(t.buckets) /\ t.loadThreshold < Count(t.buckets)
<1>1. /\ t \in Objects /\ t.nbElements = Cardinality(Filled(t.buckets))
      /\ Count(t.buckets) <= MaxBuckets
      /\ IF Count(t.buckets) = 0 THEN t.loadThreshold = 0
         ELSE t.nbElements < Count(t.buckets) /\ t.loadThreshold < Count(t.buckets)
  BY DEF Whole, Roomy
<1>2. ASSUME Count(t.buckets) = 0  PROVE t.nbElements = 0
  <2>1. t.buckets \in Buckets(0)
    BY <1>1, <1>2, ObjectIs
  <2>2. Filled(t.buckets) = {}
    BY <2>1, FilledIs
  <2> QED  BY <1>1, <2>2, FS_EmptySet
<1> QED  BY <1>1, <1>2

(* rehash and reserve: room for what is there, and for what is asked.      *)
LEMMA RehashToKeeps ==
    ASSUME NEW t, Whole(t), NEW count \in Nat, CanRehash(t, count)
    PROVE  LET u == RehashTo(t, count) IN
           /\ Keeps(t, u) /\ ~u.growOnNextInsert /\ ~u.tryShrinkOnNextInsert
           /\ count <= Count(u.buckets)
           /\ u.loadThreshold = Threshold(Count(u.buckets), u.maxLoad)
<1> DEFINE asked == Asked(t, count)
           least == Ceiling(t.nbElements, t.maxLoad)
           n == PowerOfTwo(asked)
<1>1. t.nbElements \in Nat /\ t.maxLoad \in 20 .. 95
  BY WholeIs, ObjectIs
<1>2. least \in Nat
  BY <1>1, CeilingIs
<1>3. asked \in 0 .. MaxBuckets /\ count <= asked /\ least <= asked
  <2>1. MaxBuckets \in Nat
    BY TableAssumption, SizesAssumption
  <2> HIDE DEF least
  <2>2. asked = IF count > least THEN count ELSE least
    BY DEF Asked, least
  <2> QED  BY <1>2, <2>1, <2>2 DEF CanRehash
<1> HIDE DEF asked
<1>4. n \in Nat /\ asked <= n
  BY <1>3, PowerOfTwoIs
<1> HIDE DEF n
<1>5. t.nbElements <= Threshold(n, t.maxLoad)
  <2>1. n >= least
    BY <1>2, <1>3, <1>4
  <2> QED  BY <1>1, <1>4, <2>1, CeilingIs
<1>6. t.nbElements < n \/ t.nbElements = 0
  <2>1. /\ Threshold(n, t.maxLoad) \in Nat
        /\ n = 0 => Threshold(n, t.maxLoad) = 0
        /\ n # 0 => Threshold(n, t.maxLoad) < n
    BY <1>1, <1>4, ThresholdIs
  <2> QED  BY <1>1, <1>4, <1>5, <2>1
<1>7. PICK u : u = Rehashed(t, asked)
  OBVIOUS
<1>8. /\ Sound(u) /\ Contents(u.buckets) = Contents(t.buckets)
      /\ Count(u.buckets) = n
      /\ u.nbElements = t.nbElements
      /\ u.loadThreshold = Threshold(n, t.maxLoad)
      /\ u.minLoad = t.minLoad /\ u.maxLoad = t.maxLoad
      /\ ~u.growOnNextInsert /\ ~u.tryShrinkOnNextInsert
  BY <1>3, <1>6, <1>7, RehashedKeeps DEF n
<1>9. RehashTo(t, count) = u
  BY <1>7 DEF RehashTo, asked
<1> QED  BY <1>3, <1>4, <1>8, <1>9 DEF Keeps

(* So does reserve, which makes the threshold allow what was asked for.    *)
LEMMA ReserveForKeeps ==
    ASSUME NEW t, Whole(t), NEW count \in Nat, CanReserve(t, count)
    PROVE  LET u == ReserveFor(t, count) IN
           /\ Keeps(t, u) /\ ~u.growOnNextInsert /\ ~u.tryShrinkOnNextInsert
           /\ count <= u.loadThreshold
<1>1. t.maxLoad \in 20 .. 95
  BY WholeIs, ObjectIs
<1>2. PICK c : c = Ceiling(count, t.maxLoad)
  OBVIOUS
<1>3. c \in Nat /\ CanRehash(t, c)
  BY <1>1, <1>2, CeilingIs DEF CanReserve
<1>4. PICK u : u = RehashTo(t, c)
  OBVIOUS
<1>5. /\ Keeps(t, u) /\ ~u.growOnNextInsert /\ ~u.tryShrinkOnNextInsert
      /\ c <= Count(u.buckets)
      /\ u.loadThreshold = Threshold(Count(u.buckets), u.maxLoad)
  BY <1>3, <1>4, RehashToKeeps
<1>6. Count(u.buckets) \in Nat
  BY <1>5, ObjectIs DEF Keeps, Sound, Whole
<1>7. u.maxLoad = t.maxLoad
  BY <1>5 DEF Keeps
<1>8. Threshold(Count(u.buckets), t.maxLoad) >= count
  <2>1. Count(u.buckets) >= Ceiling(count, t.maxLoad)
    BY <1>2, <1>3, <1>5, <1>6
  <2> QED  BY <1>1, <1>6, <2>1, CeilingIs
<1>9. count <= u.loadThreshold
  <2>1. Threshold(Count(u.buckets), t.maxLoad) \in Nat
    BY <1>1, <1>6, ThresholdIs
  <2> QED  BY <1>5, <1>7, <1>8, <2>1
<1>10. ReserveFor(t, count) = u
  BY <1>2, <1>4 DEF ReserveFor
<1> QED  BY <1>5, <1>9, <1>10

(* A table that is empty enough to shrink fits the smaller array.          *)
LEMMA ShrinkFits ==
    ASSUME NEW t, Whole(t), Shrinks(t)
    PROVE  CanReserve(t, t.nbElements + 1)
<1>1. /\ t.nbElements \in Nat /\ t.maxLoad \in 20 .. 95 /\ t.minLoad \in 0 .. 15
      /\ Count(t.buckets) \in {0} \union Sizes /\ Count(t.buckets) <= MaxBuckets
  BY WholeIs, ObjectIs
<1>2. PICK a, p, n, l : a = t.nbElements /\ p = t.maxLoad /\ n = Count(t.buckets) /\ l = t.minLoad
  OBVIOUS
<1>3. /\ a \in Nat /\ p \in 20 .. 95 /\ l \in 0 .. 15 /\ n \in {0} \union Sizes
      /\ n <= MaxBuckets /\ a * 100 < l * n
  BY <1>1, <1>2 DEF Shrinks
<1>11. a \in Nat /\ a + 1 \in Nat /\ p \in 20 .. 95
  BY <1>3
<1>4. l * n <= 15 * n
  BY <1>3, SizesAssumption
<1>5. MaxBuckets \in Sizes /\ 16 <= MaxBuckets
  BY TableAssumption
<1>6. a * 100 < 15 * MaxBuckets
  <2>1. n \in Nat /\ MaxBuckets \in Nat /\ l * n \in Nat
    BY <1>3, <1>5, SizesAssumption
  <2> QED  BY <1>3, <1>4, <2>1
<1>7. 5 * a + 5 <= MaxBuckets
  BY <1>3, <1>5, <1>6, SizesAssumption
<1>8. Ceiling(a + 1, p) <= 5 * a + 5 /\ Ceiling(a, p) <= 5 * a + 5
  <2>1. ASSUME NEW c \in 0 .. (a + 1)  PROVE Ceiling(c, p) <= 5 * a + 5
    <3>1. Ceiling(c, p) \in Nat
      <4>1. c \in Nat
        BY <1>11
      <4> QED  BY <1>11, <4>1, CeilingType
    <3>2. Ceiling(c, p) * p <= c * 100 + p - 1
      BY <1>3 DEF Ceiling
    <3>3. (5 * a + 5) * 20 <= (5 * a + 5) * p
      BY <1>3
    <3>4. SUFFICES ASSUME Ceiling(c, p) >= 5 * a + 6  PROVE FALSE
      BY <1>3, <3>1
    <3>5. PICK x : x = Ceiling(c, p)
      OBVIOUS
    <3>6. (5 * a + 6) * p <= x * p
      BY <1>3, <3>1, <3>4, <3>5
    <3>7. (5 * a + 6) * p = (5 * a + 5) * p + p
      BY <1>3
    <3>8. (5 * a + 5) * p \in Nat /\ x * p \in Nat
      BY <1>3, <3>1, <3>5
    <3> QED  BY <1>3, <3>2, <3>3, <3>5, <3>6, <3>7, <3>8
  <2> QED  BY <1>3, <2>1
<1>9. Ceiling(a + 1, p) \in Nat /\ Ceiling(a, p) \in Nat /\ MaxBuckets \in Nat
  <2>1. MaxBuckets \in Nat
    BY <1>5, SizesAssumption
  <2> QED  BY <1>11, <2>1, CeilingType
<1>10. Ceiling(a + 1, p) <= MaxBuckets /\ Ceiling(a, p) <= MaxBuckets
  BY <1>3, <1>7, <1>8, <1>9
<1> QED  BY <1>2, <1>10 DEF CanReserve, CanRehash, Asked

(* Growing.                                                                *)
LEMMA GrownKeeps ==
    ASSUME NEW t, Whole(t), CanGrow(t.buckets)
    PROVE  LET u == Rehashed(t, NextCount(t.buckets)) IN
           /\ Keeps(t, u) /\ ~u.tryShrinkOnNextInsert
           /\ 1 <= Count(u.buckets) /\ 2 * Count(t.buckets) <= Count(u.buckets)
<1>1. /\ t \in Objects /\ t.nbElements \in Nat
      /\ Count(t.buckets) \in {0} \union Sizes /\ t.buckets \in Buckets(Count(t.buckets))
      /\ Count(t.buckets) \in Nat
  BY WholeIs, ObjectIs
<1>2. PICK n : n = Count(t.buckets)
  OBVIOUS
<1>3. Growth \in Sizes /\ MaxBuckets \in Sizes /\ 2 <= Growth /\ Growth <= MaxBuckets
  BY TableAssumption
<1>4. n <= MaxBuckets \div Growth
  BY <1>2 DEF CanGrow
<1>5. n * Growth <= MaxBuckets
  BY <1>1, <1>2, <1>3, <1>4, SizesAssumption
<1>6. 2 * n <= n * Growth /\ n * Growth \in Nat /\ (n # 0 => 1 <= n * Growth)
  BY <1>1, <1>2, <1>3, SizesAssumption
<1>7. PICK c : c = NextCount(t.buckets)
  OBVIOUS
<1>8. c = IF n = 0 THEN Growth ELSE n * Growth
  BY <1>1, <1>2, <1>7, NotEmptyTuple DEF NextCount
<1>9. c \in 0 .. MaxBuckets /\ 1 <= c /\ 2 * n <= c
  <2>1. Growth \in Nat /\ MaxBuckets \in Nat
    BY <1>3, SizesAssumption
  <2>2. CASE n = 0
    BY <1>3, <1>8, <2>1, <2>2
  <2>3. CASE n # 0
    <3>1. c = n * Growth
      BY <1>8, <2>3
    <3> QED  BY <1>5, <1>6, <2>1, <2>3, <3>1
  <2> QED  BY <2>2, <2>3
<1>10. PowerOfTwo(c) \in Nat /\ c <= PowerOfTwo(c)
  BY <1>9, PowerOfTwoIs
<1>11. t.nbElements < PowerOfTwo(c) \/ t.nbElements = 0
  <2>1. IF n = 0 THEN t.nbElements = 0 ELSE t.nbElements < n
    BY <1>2, WholeIs
  <2> QED  BY <1>1, <1>2, <1>9, <1>10, <2>1
<1>12. PICK u : u = Rehashed(t, c)
  OBVIOUS
<1>13. /\ Sound(u) /\ Contents(u.buckets) = Contents(t.buckets)
       /\ Count(u.buckets) = PowerOfTwo(c)
       /\ u.nbElements = t.nbElements
       /\ u.minLoad = t.minLoad /\ u.maxLoad = t.maxLoad
       /\ ~u.tryShrinkOnNextInsert
  BY <1>9, <1>11, <1>12, RehashedKeeps
<1>14. 1 <= Count(u.buckets) /\ 2 * n <= Count(u.buckets)
  BY <1>1, <1>2, <1>9, <1>10, <1>13
<1> QED  BY <1>2, <1>7, <1>12, <1>13, <1>14 DEF Keeps

(* Two rebuilds in a row are one.                                          *)
LEMMA KeepsIs ==
    ASSUME NEW t, NEW u, NEW w, Keeps(t, u)
    PROVE  /\ Keeps(u, w) => Keeps(t, w)
           /\ u \in Objects /\ Whole(u)
BY DEF Keeps, Sound, Whole

(* After j turns of growing and shrinking: a table may shrink in the first *)
(* turn only, and doubles, at least, in every other.                       *)
Stretched(t, s, j) ==
    /\ Keeps(t, s.table)
    /\ s.full => s.done
    /\ s.done /\ ~s.full => s.table.nbElements < s.table.loadThreshold
    /\ ~s.done /\ j >= 1 => ~s.table.tryShrinkOnNextInsert /\ 1 <= Count(s.table.buckets)
    /\ ~s.done /\ j >= 2 => 2 * (j - 1) <= Count(s.table.buckets)

(* A turn of rehash_on_extreme_load.                                       *)
LEMMA ExtremesKeeps ==
    ASSUME NEW t, NEW k, NEW j \in Nat,
           NEW s \in [table : Objects, done : BOOLEAN, full : BOOLEAN], Stretched(t, s, j)
    PROVE  /\ Extremes(s, k) \in [table : Objects, done : BOOLEAN, full : BOOLEAN]
           /\ Stretched(t, Extremes(s, k), j + 1)
<1> DEFINE w == Extremes(s, k)
           T == s.table
<1>1. CASE s.done
  BY <1>1 DEF Extremes, Stretched
<1> SUFFICES ASSUME ~s.done
             PROVE  /\ w \in [table : Objects, done : BOOLEAN, full : BOOLEAN]
                    /\ Stretched(t, w, j + 1)
  BY <1>1
<1>2. /\ T \in Objects /\ Keeps(t, T) /\ Whole(T) /\ ~s.full
      /\ j >= 1 => ~T.tryShrinkOnNextInsert /\ 1 <= Count(T.buckets)
      /\ j >= 2 => 2 * (j - 1) <= Count(T.buckets)
  BY KeepsIs DEF Stretched
<1>3. Count(T.buckets) \in Nat
  BY <1>2, ObjectIs
<1>4. CASE MustGrow(T, k) /\ CanGrow(T.buckets)
  <2>1. PICK u : u = Rehashed(T, NextCount(T.buckets))
    OBVIOUS
  <2>2. w = [s EXCEPT !.table = u]
    BY <1>4, <2>1 DEF Extremes
  <2>3. /\ Keeps(T, u) /\ ~u.tryShrinkOnNextInsert
        /\ 1 <= Count(u.buckets) /\ 2 * Count(T.buckets) <= Count(u.buckets)
    BY <1>2, <1>4, <2>1, GrownKeeps
  <2>4. Keeps(t, u) /\ u \in Objects /\ Count(u.buckets) \in Nat
    BY <1>2, <2>3, KeepsIs, ObjectIs
  <2>5. j + 1 >= 2 => 2 * ((j + 1) - 1) <= Count(u.buckets)
    <3>1. CASE j = 0
      BY <3>1
    <3>2. CASE j = 1
      BY <1>2, <1>3, <2>3, <2>4, <3>2
    <3>3. CASE j >= 2
      BY <1>2, <1>3, <2>3, <2>4, <3>3
    <3> QED  BY <3>1, <3>2, <3>3
  <2>6. /\ w.table = u /\ ~w.done /\ ~w.full
        /\ w \in [table : Objects, done : BOOLEAN, full : BOOLEAN]
    BY <1>2, <2>2, <2>4
  <2> HIDE DEF w
  <2> QED  BY <2>3, <2>4, <2>5, <2>6 DEF Stretched
<1>5. CASE MustGrow(T, k) /\ ~CanGrow(T.buckets)
  <2>1. w = [s EXCEPT !.done = TRUE, !.full = TRUE]
    BY <1>5 DEF Extremes
  <2>2. /\ w.table = T /\ w.done /\ w.full
        /\ w \in [table : Objects, done : BOOLEAN, full : BOOLEAN]
    BY <1>2, <2>1
  <2> HIDE DEF w
  <2> QED  BY <1>2, <2>2 DEF Stretched
<1>6. CASE ~MustGrow(T, k) /\ Shrinks(T)
  <2>1. PICK u : u = ReserveFor(T, T.nbElements + 1)
    OBVIOUS
  <2>2. w = [s EXCEPT !.table = u]
    BY <1>6, <2>1 DEF Extremes
  <2>3. j = 0
    BY <1>2, <1>6 DEF Shrinks
  <2>4. T.nbElements \in Nat
    BY <1>2, ObjectIs
  <2>5. Keeps(T, u) /\ ~u.tryShrinkOnNextInsert /\ T.nbElements + 1 <= u.loadThreshold
    BY <1>2, <1>6, <2>1, <2>4, ShrinkFits, ReserveForKeeps
  <2>6. /\ Keeps(t, u) /\ Whole(u) /\ u \in Objects /\ Count(u.buckets) \in Nat
        /\ u.loadThreshold \in Nat
    BY <1>2, <2>5, KeepsIs, ObjectIs
  <2>7. 1 <= Count(u.buckets)
    BY <2>4, <2>5, <2>6, WholeIs
  <2>8. /\ w.table = u /\ ~w.done /\ ~w.full
        /\ w \in [table : Objects, done : BOOLEAN, full : BOOLEAN]
    BY <1>2, <2>2, <2>6
  <2> HIDE DEF w
  <2> QED  BY <2>3, <2>5, <2>6, <2>7, <2>8 DEF Stretched
<1>7. CASE ~MustGrow(T, k) /\ ~Shrinks(T)
  <2>1. PICK u : u = [T EXCEPT !.tryShrinkOnNextInsert = FALSE]
    OBVIOUS
  <2>2. w = [s EXCEPT !.table = u, !.done = TRUE]
    BY <1>7, <2>1 DEF Extremes
  <2>3. /\ u \in Objects /\ u.buckets = T.buckets /\ u.nbElements = T.nbElements
        /\ u.loadThreshold = T.loadThreshold
        /\ u.minLoad = T.minLoad /\ u.maxLoad = T.maxLoad
    BY <1>2, <2>1 DEF Objects
  <2>4. Keeps(t, u)
    BY <1>2, <2>3 DEF Keeps, Sound, Whole, Roomy
  <2>5. u.nbElements < u.loadThreshold
    <3>1. T.nbElements \in Nat /\ T.loadThreshold \in Nat /\ ~(T.nbElements >= T.loadThreshold)
      BY <1>2, <1>7, ObjectIs DEF MustGrow
    <3> QED  BY <2>3, <3>1
  <2>6. /\ w.table = u /\ w.done
        /\ w \in [table : Objects, done : BOOLEAN, full : BOOLEAN]
    BY <1>2, <2>2, <2>3
  <2>7. ~w.full
    BY <1>2, <2>2
  <2> HIDE DEF w
  <2> QED  BY <2>4, <2>5, <2>6, <2>7 DEF Stretched
<1> QED  BY <1>4, <1>5, <1>6, <1>7

(* It ends, with room for one entry more unless the table cannot grow.     *)
LEMMA MakeRoomKeeps ==
    ASSUME NEW t, Sound(t), NEW k
    PROVE  LET room == MakeRoom(t, k) IN
           /\ room \in [table : Objects, done : BOOLEAN, full : BOOLEAN]
           /\ Keeps(t, room.table)
           /\ ~room.full => room.table.nbElements < room.table.loadThreshold
<1> DEFINE U == [table : Objects, done : BOOLEAN, full : BOOLEAN]
           n == MaxBuckets
           I == [j \in 0 .. n |-> {s \in U : Stretched(t, s, j)}]
           zero == [table |-> t, done |-> FALSE, full |-> FALSE]
<1>1. n \in Nat /\ 16 <= n
  BY TableAssumption, SizesAssumption
<1>2. zero \in I[0]
  <2>1. t \in Objects /\ Keeps(t, t)
    BY DEF Keeps, Sound, Whole
  <2>2. zero \in U /\ zero.table = t /\ ~zero.done /\ ~zero.full
    BY <2>1
  <2> HIDE DEF zero, n
  <2>3. Stretched(t, zero, 0)
    BY <2>1, <2>2 DEF Stretched
  <2> QED  BY <1>1, <2>2, <2>3
<1>3. \A j \in 0 .. (n - 1) : \A s \in I[j] : Extremes(s, k) \in I[j + 1]
  <2> SUFFICES ASSUME NEW j \in 0 .. (n - 1), NEW s \in I[j]
               PROVE  Extremes(s, k) \in I[j + 1]
    OBVIOUS
  <2>1. s \in U /\ Stretched(t, s, j) /\ j \in Nat
    BY <1>1
  <2>2. Extremes(s, k) \in U /\ Stretched(t, Extremes(s, k), j + 1)
    BY <2>1, ExtremesKeeps
  <2> QED  BY <1>1, <2>2
<1>4. I \in [0 .. n -> SUBSET U]
  OBVIOUS
<1>5. PICK room : room = MakeRoom(t, k)
  OBVIOUS
<1>6. room \in I[n]
  <2> HIDE DEF I, U
  <2> QED  BY <1>1, <1>2, <1>3, <1>4, <1>5, MakeRoomEnds DEF n
<1>7. room \in U /\ Stretched(t, room, n)
  BY <1>1, <1>6
<1>8. room.done
  <2>1. SUFFICES ASSUME ~room.done PROVE FALSE
    OBVIOUS
  <2>2. Keeps(t, room.table) /\ 2 * (n - 1) <= Count(room.table.buckets)
    BY <1>1, <1>7, <2>1 DEF Stretched
  <2>3. Count(room.table.buckets) \in Nat /\ Count(room.table.buckets) <= n
    BY <2>2, KeepsIs, WholeIs, ObjectIs
  <2> QED  BY <1>1, <2>2, <2>3
<1> QED  BY <1>5, <1>7, <1>8 DEF Stretched
-----------------------------------------------------------------------------
(* Insertions, one and several.                                            *)

(* What MakeRoom and Put return.                                           *)
Rooms == [table : Objects, done : BOOLEAN, full : BOOLEAN]

(* The table u has the entries of t, and perhaps more.                     *)
Fuller(t, u) ==
    /\ Sound(u) /\ Contents(t.buckets) \subseteq Contents(u.buckets)
    /\ u.minLoad = t.minLoad /\ u.maxLoad = t.maxLoad

(* In a table in order a search finds the keys that are there.             *)
LEMMA HoldsSound ==
    ASSUME NEW t, Sound(t), NEW k \in Keys
    PROVE  Holds(t.buckets, k) <=> k \in KeysIn(t.buckets)
<1> DEFINE n == Count(t.buckets)
           b == t.buckets
<1>1. t \in Objects /\ b \in Buckets(n) /\ n \in Nat
  BY ObjectIs DEF Sound, Whole
<1>2. InPlace(b) /\ Distinct(b) /\ Ordered(b)
  BY DEF Sound, Whole
<1>3. n # 0 => Cardinality(Filled(b)) < n
  BY WholeIs DEF Sound
<1> HIDE DEF n, b
<1>4. CASE n = 0
  <2>1. b = <<>>
    BY <1>1, <1>4, NotEmptyTuple
  <2>2. KeysIn(b) = {}
    BY <1>1, <1>4, FilledIs DEF KeysIn
  <2> QED  BY <2>1, <2>2 DEF Holds, b
<1>5. CASE n # 0
  <2>1. PICK f \in 0 .. (n - 1) : b[f].dist = -1
    BY <1>1, <1>3, <1>5, SomeFree
  <2>2. Holds(b, k) <=> k \in KeysIn(b)
    BY <1>1, <1>2, <1>5, <2>1, HoldsKeys
  <2> QED  BY <2>2 DEF b
<1> QED  BY <1>4, <1>5

(* Tables with the same contents have the same keys.                       *)
LEMMA SameKeys ==
    ASSUME NEW t \in Objects, NEW u \in Objects, Contents(u.buckets) = Contents(t.buckets)
    PROVE  KeysIn(u.buckets) = KeysIn(t.buckets)
<1>1. ASSUME NEW w \in Objects
      PROVE  \A k : k \in KeysIn(w.buckets) <=> \E v \in Values : <<k, v>> \in Contents(w.buckets)
  BY ObjectIs, KeysOfContents
<1> QED  BY <1>1

(* A table with one more entry.                                            *)
LEMMA GainedOne ==
    ASSUME NEW t, Sound(t), t.nbElements < t.loadThreshold,
           NEW e \in Entries, NEW c, WithOne(Count(t.buckets), t.buckets, e, c),
           NEW u \in Objects, u.buckets = c, u.nbElements = t.nbElements + 1,
           u.loadThreshold = t.loadThreshold
    PROVE  Sound(u) /\ Contents(u.buckets) = Contents(t.buckets) \union {KV(e)}
<1> DEFINE n == Count(t.buckets)
<1>1. /\ t \in Objects /\ t.buckets \in Buckets(n) /\ n \in Nat /\ n \in {0} \union Sizes
      /\ t.nbElements \in Nat /\ t.loadThreshold \in Nat
  BY ObjectIs DEF Sound, Whole
<1>2. /\ t.nbElements = Cardinality(Filled(t.buckets)) /\ n <= MaxBuckets
      /\ IF n = 0 THEN t.loadThreshold = 0 ELSE t.loadThreshold < n
  BY WholeIs DEF Sound
<1> HIDE DEF n
<1>3. WithOne(n, t.buckets, e, c)
  BY DEF n
<1>4. c \in Buckets(n) /\ Sorted(c) /\ Contents(c) = Contents(t.buckets) \union {KV(e)}
  BY <1>3 DEF WithOne
<1>5. Cardinality(Filled(c)) = Cardinality(Filled(t.buckets)) + 1
  BY <1>1, <1>3, WithOneIs
<1>9. Count(c) = n
  BY <1>1, <1>4, CountIs
<1>10. Roomy(u)
  BY <1>1, <1>2, <1>5, <1>9 DEF Roomy
<1> QED  BY <1>4, <1>10, SoundIs

(* insert_impl adds the key, unless the table is full.                     *)
LEMMA PutKeeps ==
    ASSUME NEW t, Sound(t), NEW k \in Keys, NEW v \in Values, k \notin KeysIn(t.buckets)
    PROVE  LET s == Put(t, k, v) IN
           /\ s \in Rooms /\ Fuller(t, s.table)
           /\ ~s.full => Contents(s.table.buckets) = Contents(t.buckets) \union {<<k, v>>}
<1>1. PICK room : room = MakeRoom(t, k)
  OBVIOUS
<1>2. /\ room \in Rooms /\ Keeps(t, room.table)
      /\ ~room.full => room.table.nbElements < room.table.loadThreshold
  BY <1>1, MakeRoomKeeps DEF Rooms
<1>3. PICK s : s = Put(t, k, v)
  OBVIOUS
<1>4. CASE room.full
  <2>1. s = room
    BY <1>1, <1>3, <1>4 DEF Put
  <2> QED  BY <1>2, <1>3, <1>4, <2>1 DEF Fuller, Keeps
<1>5. CASE ~room.full
  <2> DEFINE w == room.table
             b == w.buckets
             n == Count(b)
             d == Probe(b, k)
             e == Entry(k, v, d)
             h == Home(n, k)
             start == Turn(n, h, d)
  <2>1. /\ w \in Objects /\ Sound(w) /\ Contents(b) = Contents(t.buckets)
        /\ w.minLoad = t.minLoad /\ w.maxLoad = t.maxLoad
        /\ w.nbElements < w.loadThreshold /\ w.growOnNextInsert \in BOOLEAN
    BY <1>2, <1>5, ObjectIs DEF Keeps, Sound, Whole
  <2>2. b \in Buckets(n) /\ n \in Nat /\ w.nbElements \in Nat
    BY <2>1, ObjectIs
  <2>3. n # 0 /\ w.nbElements < n /\ Cardinality(Filled(b)) < n
    BY <2>1, <2>2, WholeIs DEF Sound
  <2>4. Sorted(b) /\ t \in Objects
    BY <2>1, SoundIs DEF Sound, Whole
  <2> HIDE DEF w
  <2>5. k \notin KeysIn(b)
    BY <2>1, <2>4, SameKeys
  <2> HIDE DEF b, n
  <2>6. PICK f \in 0 .. (n - 1) : b[f].dist = -1
    BY <2>2, <2>3, SomeFree
  <2>7. /\ d \in 0 .. (n - 1) /\ b[start].dist < d
        /\ d > 0 => b[Turn(n, h, d - 1)].dist >= d - 1
    BY <2>2, <2>3, <2>5, <2>6, SearchFails
  <2> HIDE DEF d
  <2>8. h \in 0 .. (n - 1) /\ start \in 0 .. (n - 1) /\ Nth(b, k, d) = start
    BY <2>2, <2>3, <2>7, HomeIs, NthIs
  <2>9. e \in Entries /\ e.key = k /\ e.value = v /\ e.dist = d
    BY <2>7 DEF Entry, Entries
  <2> HIDE DEF h, e
  <2>10. Spot(n, e) = start
    BY <2>9 DEF Spot, h
  <2>11. e.dist <= b[Before(n, start)].dist + 1
    <3>1. CASE d = 0
      <4>1. Before(n, start) \in 0 .. (n - 1)
        BY <2>2, <2>8 DEF Before
      <4> QED  BY <2>2, <2>9, <3>1, <4>1, FilledIs, SlotIs
    <3>2. CASE d > 0
      <4>1. d - 1 \in 0 .. (n - 1) /\ (d - 1) + 1 = d
        BY <2>2, <2>7, <3>2
      <4>2. Before(n, Turn(n, h, (d - 1) + 1)) = Turn(n, h, d - 1)
        BY <2>2, <2>3, <2>8, <4>1, OneOn
      <4>3. Before(n, start) = Turn(n, h, d - 1)
        BY <4>1, <4>2
      <4>4. Turn(n, h, d - 1) \in 0 .. (n - 1)
        BY <2>2, <2>3, <2>8, <4>1, TurnIs
      <4>5. b[Turn(n, h, d - 1)].dist \in Int
        BY <2>2, <4>4, FilledIs, SlotIs
      <4> QED  BY <2>7, <2>9, <3>2, <4>1, <4>3, <4>5
    <3> QED  BY <2>7, <3>1, <3>2
  <2> HIDE DEF start
  <2>12. PICK put : put = Displace(b, start, e)
    OBVIOUS
  <2>13. WithOne(n, b, e, put.buckets) /\ put.far \in BOOLEAN
    BY <2>2, <2>3, <2>4, <2>5, <2>6, <2>7, <2>8, <2>9, <2>10, <2>11, <2>12, DisplaceInserts
  <2>20. PICK grow \in BOOLEAN : grow = (w.growOnNextInsert \/ put.far)
    OBVIOUS
  <2>14. PICK u : u = [w EXCEPT !.buckets = put.buckets, !.nbElements = @ + 1,
                                !.growOnNextInsert = grow]
    OBVIOUS
  <2>15. s = [room EXCEPT !.table.buckets = put.buckets,
                          !.table.nbElements = @ + 1,
                          !.table.growOnNextInsert = @ \/ put.far]
    BY <1>1, <1>3, <1>5, <2>8, <2>12 DEF Put, w, b, d, e
  <2>16. s = [room EXCEPT !.table = u]
    BY <2>14, <2>15, <2>20 DEF w
  <2>17. /\ Sound(u) /\ Contents(u.buckets) = Contents(b) \union {KV(e)}
         /\ u.minLoad = w.minLoad /\ u.maxLoad = w.maxLoad
    <3>2. WithOne(Count(w.buckets), w.buckets, e, put.buckets)
      BY <2>13 DEF b, n
    <3>3. PICK a, c : a = w.nbElements + 1 /\ c = put.buckets
      OBVIOUS
    <3>4. a \in Nat /\ c \in Buckets(n) /\ n \in {0} \union Sizes
      BY <2>1, <2>2, <2>13, <3>3, ObjectIs DEF WithOne, n, b
    <3>5. c \in UNION {Buckets(x) : x \in {0} \union Sizes}
      BY <3>4
    <3>6. u = [w EXCEPT !.buckets = c, !.nbElements = a, !.growOnNextInsert = grow]
      BY <2>14, <3>3
    <3>7. /\ u \in Objects /\ u.buckets = c /\ u.nbElements = a
          /\ u.loadThreshold = w.loadThreshold
          /\ u.minLoad = w.minLoad /\ u.maxLoad = w.maxLoad
      BY <2>1, <3>4, <3>5, <3>6 DEF Objects
    <3>8. Sound(u) /\ Contents(u.buckets) = Contents(w.buckets) \union {KV(e)}
      BY <2>1, <2>9, <3>2, <3>3, <3>7, GainedOne
    <3> QED  BY <3>7, <3>8 DEF b
  <2>18. KV(e) = <<k, v>>
    BY <2>9 DEF KV
  <2>19. s \in Rooms /\ s.table = u
    BY <1>2, <2>16, <2>17 DEF Rooms, Sound, Whole
  <2> QED  BY <1>3, <2>1, <2>17, <2>18, <2>19 DEF Fuller
<1> QED  BY <1>4, <1>5

(* Likewise when the key may be there.                                     *)
LEMMA PutNewKeeps ==
    ASSUME NEW s \in Rooms, Sound(s.table), NEW k \in Keys, NEW v \in Values
    PROVE  LET r == PutNew(s, k, v) IN
           /\ r \in Rooms /\ Fuller(s.table, r.table)
           /\ s.full => r.full
           /\ ~r.full /\ k \notin KeysIn(s.table.buckets) =>
                Contents(r.table.buckets) = Contents(s.table.buckets) \union {<<k, v>>}
<1>1. Holds(s.table.buckets, k) <=> k \in KeysIn(s.table.buckets)
  BY HoldsSound
<1>2. CASE s.full \/ Holds(s.table.buckets, k)
  BY <1>1, <1>2 DEF PutNew, Fuller
<1>3. CASE ~(s.full \/ Holds(s.table.buckets, k))
  <2>1. PICK r : r = Put(s.table, k, v)
    OBVIOUS
  <2>2. /\ r \in Rooms /\ Fuller(s.table, r.table)
        /\ ~r.full => Contents(r.table.buckets) = Contents(s.table.buckets) \union {<<k, v>>}
    BY <1>1, <1>3, <2>1, PutKeeps
  <2>3. PutNew(s, k, v) = r
    BY <1>3, <2>1 DEF PutNew
  <2> QED  BY <1>3, <2>2, <2>3
<1> QED  BY <1>2, <1>3

(* Two insertions in a row only add.                                       *)
LEMMA FullerIs ==
    ASSUME NEW t, NEW u, NEW w, Fuller(t, u)
    PROVE  /\ Fuller(u, w) => Fuller(t, w)
           /\ Sound(u)
BY DEF Fuller

(* insert(first, last).                                                    *)
LEMMA PutAllKeeps ==
    ASSUME NEW t, Sound(t), NEW ks \in Seq(Keys), NEW v \in Values
    PROVE  PutAll(t, ks, v) \in Rooms /\ Fuller(t, PutAll(t, ks, v).table)
<1> DEFINE n == Len(ks)
           States == {s \in Rooms : Fuller(t, s.table)}
           I == [j \in 0 .. n |-> States]
           zero == [table |-> t, done |-> TRUE, full |-> FALSE]
<1>1. n \in Nat
  OBVIOUS
<1>2. zero \in I[0]
  <2>1. t \in Objects /\ Fuller(t, t)
    BY DEF Fuller, Sound, Whole
  <2>2. zero \in Rooms /\ zero.table = t
    BY <2>1 DEF Rooms
  <2> QED  BY <1>1, <2>1, <2>2
<1>3. \A j \in 0 .. (n - 1) : \A s \in I[j] : PutNew(s, ks[j + 1], v) \in I[j + 1]
  <2> SUFFICES ASSUME NEW j \in 0 .. (n - 1), NEW s \in I[j]
               PROVE  PutNew(s, ks[j + 1], v) \in I[j + 1]
    OBVIOUS
  <2>1. s \in Rooms /\ Fuller(t, s.table)
    OBVIOUS
  <2>2. ks[j + 1] \in Keys
    OBVIOUS
  <2>3. PICK r : r = PutNew(s, ks[j + 1], v)
    OBVIOUS
  <2>4. Sound(s.table)
    BY <2>1, FullerIs
  <2>5. r \in Rooms /\ Fuller(s.table, r.table)
    BY <2>1, <2>2, <2>3, <2>4, PutNewKeeps
  <2>6. Fuller(t, r.table)
    BY <2>1, <2>5, FullerIs
  <2> QED  BY <2>3, <2>5, <2>6
<1>4. I \in [0 .. n -> SUBSET Rooms]
  OBVIOUS
<1>5. PutAll(t, ks, v) \in I[n]
  <2> HIDE DEF I
  <2> QED  BY <1>1, <1>2, <1>3, <1>4, PutAllEnds
<1> QED  BY <1>1, <1>5

(* Entries that have been read again, the first j buckets of b.            *)
ReadTo(b, t, s, j) ==
    /\ Sound(s.table)
    /\ s.table.minLoad = t.minLoad /\ s.table.maxLoad = t.maxLoad
    /\ ~s.full => Contents(s.table.buckets) = {KV(b[i]) : i \in Upto(b, j)}

(* A turn of deserialize_impl, entry by entry.                             *)
LEMMA RereadKeeps ==
    ASSUME NEW m \in Nat, NEW b \in Buckets(m), Distinct(b), NEW t,
           NEW j \in 0 .. (m - 1), NEW s \in Rooms, ReadTo(b, t, s, j)
    PROVE  Reread(b, s, j) \in Rooms /\ ReadTo(b, t, Reread(b, s, j), j + 1)
<1>1. CASE j \notin Filled(b)
  <2>1. Reread(b, s, j) = s
    BY <1>1, CountIs DEF Reread, Filled
  <2>2. Upto(b, j + 1) = Upto(b, j)
    BY <1>1, UptoIs
  <2> QED  BY <2>1, <2>2 DEF ReadTo
<1>2. CASE j \in Filled(b)
  <2>1. PICK r : r = PutNew(s, b[j].key, b[j].value)
    OBVIOUS
  <2>2. Reread(b, s, j) = r
    BY <1>2, <2>1 DEF Reread, Filled
  <2>3. b[j].key \in Keys /\ b[j].value \in Values
    BY <1>2, FilledIs, EntryIs
  <2>4. PICK c : c = s.table.buckets
    OBVIOUS
  <2>5. Sound(s.table)
    BY DEF ReadTo
  <2>6. /\ r \in Rooms /\ Fuller(s.table, r.table)
        /\ s.full => r.full
        /\ ~r.full /\ b[j].key \notin KeysIn(c) =>
             Contents(r.table.buckets) = Contents(c) \union {<<b[j].key, b[j].value>>}
    BY <2>1, <2>3, <2>4, <2>5, PutNewKeeps
  <2>7. ASSUME ~r.full
        PROVE  Contents(r.table.buckets) = {KV(b[i]) : i \in Upto(b, j + 1)}
    <3>1. Contents(c) = {KV(b[i]) : i \in Upto(b, j)}
      BY <2>4, <2>6, <2>7 DEF ReadTo
    <3>2. /\ Upto(b, j + 1) = Upto(b, j) \union {j} /\ j \notin Upto(b, j)
          /\ Upto(b, j) \subseteq Filled(b)
      BY <1>2, UptoIs
    <3>3. b[j].key \notin KeysIn(c)
      <4>1. SUFFICES ASSUME NEW i \in Filled(c), c[i].key = b[j].key PROVE FALSE
        BY DEF KeysIn
      <4>2. KV(c[i]) \in Contents(c)
        BY DEF Contents, KV
      <4>3. PICK x \in Upto(b, j) : KV(c[i]) = KV(b[x])
        BY <3>1, <4>2
      <4>4. b[x].key = b[j].key
        BY <4>1, <4>3 DEF KV
      <4> QED  BY <1>2, <3>2, <4>4 DEF Distinct
    <3>4. Contents(r.table.buckets) = Contents(c) \union {KV(b[j])}
      BY <2>6, <2>7, <3>3 DEF KV
    <3> QED  BY <3>1, <3>2, <3>4
  <2>8. ReadTo(b, t, r, j + 1)
    BY <2>6, <2>7 DEF ReadTo, Fuller
  <2> QED  BY <2>2, <2>6, <2>8
<1> QED  BY <1>1, <1>2

(* A table that is written and read again has the same entries.            *)
LEMMA FreshIs ==
    ASSUME NEW t \in Objects
    PROVE  LET u == Fresh(Saved(t)) IN
           /\ Sound(u) /\ Contents(u.buckets) = {} /\ u.loadThreshold = 0
           /\ u.minLoad = t.minLoad /\ u.maxLoad = t.maxLoad
<1>1. PICK u : u = Fresh(Saved(t))
  OBVIOUS
<1>2. t.minLoad \in MinLoads /\ t.maxLoad \in MaxLoads /\ t.maxLoad \in 20 .. 95
  BY ObjectIs
<1>3. u = NewTable(0, t.minLoad, t.maxLoad)
  BY <1>1 DEF Fresh, Saved
<1>4. MaxBuckets \in Nat /\ 0 \in 0 .. MaxBuckets
  <2>1. MaxBuckets \in Nat
    BY TableAssumption, SizesAssumption
  <2> QED  BY <2>1
<1>5. PowerOfTwo(0) = 0
  BY DEF PowerOfTwo
<1>6. /\ u \in Objects /\ u.buckets \in Buckets(0) /\ u.nbElements = 0
      /\ u.loadThreshold = Threshold(0, t.maxLoad)
      /\ u.minLoad = t.minLoad /\ u.maxLoad = t.maxLoad
  BY <1>2, <1>3, <1>4, <1>5, NewTableIs
<1>7. u.loadThreshold = 0
  BY <1>2, <1>6 DEF Threshold
<1>8. /\ Cardinality(Filled(u.buckets)) = 0 /\ Contents(u.buckets) = {} /\ Sorted(u.buckets)
  BY <1>6, EmptyIs
<1>9. Roomy(u)
  BY <1>4, <1>6, <1>7, <1>8, CountIs DEF Roomy
<1> QED  BY <1>1, <1>6, <1>7, <1>8, <1>9, SoundIs

(* Reading bucket by bucket gives the same table,                          *)
LEMMA ReadBucketsKeeps ==
    ASSUME NEW t, Sound(t)
    PROVE  Keeps(t, ReadBuckets(Saved(t)))
<1>1. PICK f, u : f = Fresh(Saved(t)) /\ u = ReadBuckets(Saved(t))
  OBVIOUS
<1>2. t \in Objects
  BY DEF Sound, Whole
<1>3. /\ f \in Objects /\ f.loadThreshold = 0
      /\ f.minLoad = t.minLoad /\ f.maxLoad = t.maxLoad
  BY <1>1, <1>2, FreshIs DEF Sound, Whole
<1>4. u = [f EXCEPT !.buckets = t.buckets, !.nbElements = t.nbElements]
  BY <1>1 DEF ReadBuckets, Saved
<1>5. /\ u \in Objects /\ u.buckets = t.buckets /\ u.nbElements = t.nbElements
      /\ u.loadThreshold = 0 /\ u.minLoad = t.minLoad /\ u.maxLoad = t.maxLoad
  BY <1>2, <1>3, <1>4 DEF Objects
<1>6. Roomy(u)
  <2>1. Count(t.buckets) \in Nat
    BY <1>2, ObjectIs
  <2> QED  BY <1>5, <2>1, WholeIs DEF Roomy, Sound
<1> QED  BY <1>1, <1>5, <1>6 DEF Keeps, Sound, Whole

(* and so does reading entry by entry, unless the table gets full.         *)
LEMMA ReadEntriesKeeps ==
    ASSUME NEW t, Sound(t), CanReserve(Fresh(Saved(t)), t.nbElements)
    PROVE  LET s == ReadEntries(Saved(t)) IN
           /\ s \in Rooms /\ Sound(s.table)
           /\ s.table.minLoad = t.minLoad /\ s.table.maxLoad = t.maxLoad
           /\ ~s.full => Contents(s.table.buckets) = Contents(t.buckets)
<1> DEFINE b == t.buckets
           n == Count(b)
           saved == Saved(t)
           zero == [table |-> ReserveFor(Fresh(saved), saved.nbElements),
                    done |-> TRUE, full |-> FALSE]
           I == [j \in 0 .. n |-> {s \in Rooms : ReadTo(b, t, s, j)}]
<1>1. /\ t \in Objects /\ n \in Nat /\ b \in Buckets(n) /\ t.nbElements \in Nat /\ Distinct(b)
  BY ObjectIs DEF Sound, Whole
<1>2. saved.buckets = b /\ saved.nbElements = t.nbElements
  BY DEF Saved
<1>3. PICK f, u : f = Fresh(saved) /\ u = ReserveFor(f, t.nbElements)
  OBVIOUS
<1>4. Whole(f) /\ Contents(f.buckets) = {} /\ f.minLoad = t.minLoad /\ f.maxLoad = t.maxLoad
  BY <1>1, <1>3, FreshIs DEF Sound
<1>5. Keeps(f, u)
  <2>1. CanReserve(f, t.nbElements)
    BY <1>3
  <2> QED  BY <1>1, <1>3, <1>4, <2>1, ReserveForKeeps
<1>6. zero \in I[0]
  <2>1. zero.table = u /\ ~zero.full /\ zero \in Rooms
    BY <1>2, <1>3, <1>5 DEF Rooms, Keeps, Sound, Whole
  <2>2. Upto(b, 0) = {}
    BY <1>1, UptoIs
  <2>3. Contents(u.buckets) = {}
    BY <1>4, <1>5 DEF Keeps
  <2>4. ReadTo(b, t, zero, 0)
    BY <1>4, <1>5, <2>1, <2>2, <2>3 DEF ReadTo, Keeps
  <2> QED  BY <1>1, <2>1, <2>4
<1>7. \A j \in 0 .. (n - 1) : \A s \in I[j] : Reread(b, s, j) \in I[j + 1]
  <2> SUFFICES ASSUME NEW j \in 0 .. (n - 1), NEW s \in I[j]
               PROVE  Reread(b, s, j) \in I[j + 1]
    OBVIOUS
  <2>1. s \in Rooms /\ ReadTo(b, t, s, j)
    BY <1>1
  <2> HIDE DEF n, b
  <2>2. Reread(b, s, j) \in Rooms /\ ReadTo(b, t, Reread(b, s, j), j + 1)
    BY <1>1, <2>1, RereadKeeps
  <2> QED  BY <1>1, <2>2 DEF n, b
<1>8. I \in [0 .. n -> SUBSET Rooms]
  OBVIOUS
<1>9. PICK s : s = ReadEntries(saved)
  OBVIOUS
<1>10. s \in I[n]
  <2> HIDE DEF I, saved
  <2> QED  BY <1>1, <1>2, <1>6, <1>7, <1>8, <1>9, RereadEnds DEF b
<1>11. s \in Rooms /\ ReadTo(b, t, s, n)
  BY <1>1, <1>10
<1> HIDE DEF I, n, b, saved
<1>12. Upto(b, n) = Filled(b)
  BY <1>1, UptoIs
<1>13. ~s.full => Contents(s.table.buckets) = Contents(b)
  BY <1>11, <1>12 DEF ReadTo, Contents, KV
<1> QED  BY <1>9, <1>11, <1>13 DEF ReadTo, b, saved
-----------------------------------------------------------------------------
(* An erasure.                                                             *)

(* How far j is behind i.                                                  *)
Offset(n, i, j) == IF j >= i THEN j - i ELSE j - i + n

(* Each bucket is one turn from i.                                         *)
LEMMA OffsetIs ==
    ASSUME NEW n \in Nat \ {0}, NEW i \in 0 .. (n - 1), NEW j \in 0 .. (n - 1)
    PROVE  /\ Offset(n, i, j) \in 0 .. (n - 1) /\ Turn(n, i, Offset(n, i, j)) = j
           /\ (j - i) % n = Offset(n, i, j)
           /\ \A d \in 0 .. (n - 1) : Turn(n, i, d) = j => d = Offset(n, i, j)
<1>1. PICK x \in Int : x = j - i /\ 0 - n <= x /\ x < n
  OBVIOUS
<1>2. /\ 0 <= x => x % n = x
      /\ x < 0 => x % n = x + n
  BY <1>1, Remainder
<1>3. (j - i) % n = Offset(n, i, j)
  BY <1>1, <1>2 DEF Offset
<1> QED  BY <1>3 DEF Offset, Turn

(* An entry that moves back by one bucket is one nearer to its own.        *)
LEMMA SpotOneBack ==
    ASSUME NEW n \in Nat \ {0}, NEW i \in 0 .. (n - 1), NEW d \in 0 .. (n - 1),
           NEW e \in Entries, 1 <= e.dist, e.dist < n, Spot(n, e) = Turn(n, i, d + 1)
    PROVE  /\ Moved(e, -1) \in Entries /\ KV(Moved(e, -1)) = KV(e)
           /\ Moved(e, -1).key = e.key /\ Moved(e, -1).dist = e.dist - 1
           /\ Spot(n, Moved(e, -1)) = Turn(n, i, d)
<1>1. e.dist \in Nat /\ e.key \in Keys
  BY EntryIs
<1>2. Home(n, e.key) \in 0 .. (n - 1)
  <2>1. HashOf[e.key] \in Int
    BY <1>1, TableAssumption
  <2> QED  BY <2>1, Remainder DEF Home
<1>3. PICK by \in Int : by = -1 /\ e.dist + by \in Nat /\ e.dist + by = e.dist - 1
  BY <1>1
<1>4. /\ Moved(e, by) \in Entries
      /\ Moved(e, by).key = e.key /\ Moved(e, by).value = e.value
      /\ Moved(e, by).dist = e.dist + by
  BY <1>3, MovedIs
<1>5. Turn(n, Home(n, e.key), e.dist) = Turn(n, i, d + 1)
  BY DEF Spot
<1>6. Turn(n, Home(n, e.key), e.dist - 1) = Turn(n, i, d)
  BY <1>1, <1>2, <1>5 DEF Turn
<1> QED  BY <1>3, <1>4, <1>6 DEF Spot, KV

(* The array c is b with the entries in the run - 1 buckets after i moved  *)
(* back by one.                                                            *)
Shifted(n, b, i, run, c) ==
    /\ c \in Buckets(n) /\ run \in 1 .. n
    /\ \A d \in 1 .. (run - 1) : 1 <= b[Turn(n, i, d)].dist
    /\ run < n => b[Turn(n, i, run)].dist <= 0
    /\ \A d \in 0 .. (run - 2) : c[Turn(n, i, d)] = Moved(b[Turn(n, i, d + 1)], -1)
    /\ c[Turn(n, i, run - 1)] = Free
    /\ \A d \in run .. (n - 1) : c[Turn(n, i, d)] = b[Turn(n, i, d)]

(* What erase_from_bucket makes of an array.                               *)
LEMMA ShiftBackIs ==
    ASSUME NEW n \in Nat \ {0}, NEW b \in Buckets(n), NEW i \in 0 .. (n - 1), InPlace(b)
    PROVE  \E run \in 1 .. n : Shifted(n, b, i, run, ShiftBack(b, i))
<1> DEFINE cleared == [b EXCEPT ![i] = Free]
           T == {d \in 1 .. Count(b) : cleared[After(b, i, d)].dist <= 0}
           run == Min(T)
           offset(j) == (j - i) % Count(b)
           c == [j \in DOMAIN b |->
                   IF offset(j) < run - 1 THEN Moved(b[After(b, j, 1)], -1)
                   ELSE IF offset(j) = run - 1 THEN Free ELSE cleared[j]]
<1>1. Count(b) = n /\ DOMAIN b = 0 .. (n - 1)
  BY CountIs
<1>2. Replaced(n, b, i, Free, cleared)
  BY FreeIs, ExceptReplaces
<1> HIDE DEF cleared
<1>3. cleared[i] = Free /\ \A j \in 0 .. (n - 1) : j # i => cleared[j] = b[j]
  BY <1>2 DEF Replaced
<1>4. T = {d \in 1 .. n : cleared[Turn(n, i, d)].dist <= 0}
  <2>1. \A d \in 1 .. n : After(b, i, d) = Turn(n, i, d)
    BY AfterIs
  <2> QED  BY <1>1, <2>1
<1>5. n \in T
  <2>1. Turn(n, i, n) = i
    BY DEF Turn
  <2> QED  BY <1>3, <1>4, <2>1, FreeIs
<1>6. run \in T /\ \A d \in T : run <= d
  <2>1. T \in SUBSET Nat /\ T # {}
    BY <1>4, <1>5
  <2> HIDE DEF T
  <2> QED  BY <2>1, MinIsLeast
<1>7. c = ShiftBack(b, i)
  BY DEF ShiftBack, cleared
<1> HIDE DEF run
<1>8. run \in 1 .. n /\ cleared[Turn(n, i, run)].dist <= 0
  BY <1>4, <1>6
<1>9. ASSUME NEW d \in 1 .. (n - 1)
      PROVE  Turn(n, i, d) \in 0 .. (n - 1) /\ Turn(n, i, d) # i
             /\ cleared[Turn(n, i, d)] = b[Turn(n, i, d)]
  <2>1. Turn(n, i, d) \in 0 .. (n - 1) /\ Turn(n, i, d) # i
    BY DEF Turn
  <2> QED  BY <1>3, <2>1
<1>10. ASSUME NEW d \in 1 .. (run - 1)  PROVE 1 <= b[Turn(n, i, d)].dist
  <2>1. d \in 1 .. (n - 1) /\ d \notin T
    BY <1>6, <1>8
  <2>2. ~(b[Turn(n, i, d)].dist <= 0)
    BY <1>4, <1>9, <2>1
  <2>3. b[Turn(n, i, d)].dist \in Int
    BY <1>9, <2>1, FilledIs, SlotIs
  <2> QED  BY <2>2, <2>3
<1>11. run < n => b[Turn(n, i, run)].dist <= 0
  BY <1>8, <1>9
<1> HIDE DEF T
<1>12. ASSUME NEW d \in 0 .. (n - 1)
       PROVE  /\ Turn(n, i, d) \in 0 .. (n - 1)
              /\ d < run - 1 => c[Turn(n, i, d)] = Moved(b[Turn(n, i, d + 1)], -1)
              /\ d = run - 1 => c[Turn(n, i, d)] = Free
              /\ d >= run => c[Turn(n, i, d)] = b[Turn(n, i, d)]
  <2> DEFINE j == Turn(n, i, d)
  <2>1. j \in 0 .. (n - 1) /\ Offset(n, i, j) = d
    BY TurnIs, OffsetIs
  <2>2. After(b, j, 1) = Turn(n, i, d + 1)
    <3>1. Turn(n, j, 1) = Turn(n, i, d + 1)
      BY DEF Turn
    <3>2. 1 \in 0 .. n
      OBVIOUS
    <3> HIDE DEF j
    <3> QED  BY <2>1, <3>1, <3>2, AfterIs
  <2> HIDE DEF j
  <2>3. offset(j) = d
    BY <1>1, <2>1, OffsetIs
  <2> HIDE DEF offset
  <2>4. c[j] = IF d < run - 1 THEN Moved(b[Turn(n, i, d + 1)], -1)
               ELSE IF d = run - 1 THEN Free ELSE cleared[j]
    BY <1>1, <2>1, <2>2, <2>3
  <2> HIDE DEF c
  <2>5. d >= run => cleared[j] = b[j]
    <3>1. SUFFICES ASSUME d >= run PROVE d \in 1 .. (n - 1)
      BY <1>9 DEF j
    <3> QED  BY <1>8, <3>1
  <2> QED  BY <1>8, <2>1, <2>4, <2>5 DEF j
<1> HIDE DEF c
<1>13. c \in Buckets(n)
  <2>1. c = [j \in 0 .. (n - 1) |-> c[j]]
    BY <1>1 DEF c
  <2>2. ASSUME NEW j \in 0 .. (n - 1)  PROVE c[j] \in Slots
    <3>1. PICK d \in 0 .. (n - 1) : Turn(n, i, d) = j
      BY OffsetIs
    <3>2. CASE d < run - 1
      <4>1. PICK q : q = Turn(n, i, d + 1)
        OBVIOUS
      <4>2. d + 1 \in 1 .. (run - 1) /\ d + 1 \in 1 .. (n - 1)
        BY <1>8, <3>2
      <4>3. 1 <= b[q].dist /\ q \in 0 .. (n - 1)
        BY <1>9, <1>10, <4>1, <4>2
      <4>4. b[q].dist \in Int /\ q \in Filled(b)
        BY <4>3, FilledIs, SlotIs
      <4>5. b[q] \in Entries /\ b[q].dist < n /\ Spot(n, b[q]) = q
        BY <4>4, FilledIs, InPlaceIs
      <4>6. Moved(b[q], -1) \in Entries
        BY <4>1, <4>3, <4>5, SpotOneBack
      <4> QED  BY <1>12, <3>1, <3>2, <4>1, <4>6, EntryIs
    <3>3. CASE d = run - 1
      BY <1>12, <3>1, <3>3, FreeIs
    <3>4. CASE d >= run
      BY <1>12, <3>1, <3>4, FilledIs
    <3> QED  BY <1>8, <3>2, <3>3, <3>4
  <2> QED  BY <2>1, <2>2 DEF Buckets
<1>14. Shifted(n, b, i, run, c)
  <2>1. ASSUME NEW d \in 0 .. (run - 2)
        PROVE  c[Turn(n, i, d)] = Moved(b[Turn(n, i, d + 1)], -1)
    <3>1. d \in 0 .. (n - 1) /\ d < run - 1
      BY <1>8
    <3> QED  BY <1>12, <3>1
  <2>2. c[Turn(n, i, run - 1)] = Free
    <3>1. PICK d \in 0 .. (n - 1) : d = run - 1
      BY <1>8
    <3> QED  BY <1>12, <3>1
  <2>3. ASSUME NEW d \in run .. (n - 1)  PROVE c[Turn(n, i, d)] = b[Turn(n, i, d)]
    <3>1. d \in 0 .. (n - 1) /\ d >= run
      BY <1>8
    <3> QED  BY <1>12, <3>1
  <2> QED  BY <1>8, <1>10, <1>11, <1>13, <2>1, <2>2, <2>3 DEF Shifted
<1> QED  BY <1>7, <1>8, <1>14

(* Where the entry at p comes from.                                        *)
Source(n, i, run, p) ==
    IF Offset(n, i, p) < run - 1 THEN Turn(n, i, Offset(n, i, p) + 1) ELSE p

(* Every entry that is left was somewhere, with the same key; and each     *)
(* but the erased one is left.                                             *)
LEMMA SourceIs ==
    ASSUME NEW n \in Nat \ {0}, NEW b \in Buckets(n), NEW i \in Filled(b), InPlace(b),
           NEW run, NEW c, Shifted(n, b, i, run, c)
    PROVE  /\ Turn(n, i, run - 1) \in Filled(b)
           /\ Filled(c) = Filled(b) \ {Turn(n, i, run - 1)}
           /\ \A p \in Filled(c) :
                LET q == Source(n, i, run, p) IN
                /\ q \in Filled(b) /\ q # i
                /\ c[p].key = b[q].key /\ KV(c[p]) = KV(b[q])
                /\ c[p].dist < n /\ Spot(n, c[p]) = p
                /\ p < i => q <= i
                /\ \A x \in Filled(c) : Source(n, i, run, x) = q => x = p
           /\ \A q \in Filled(b) : q # i => \E p \in Filled(c) : Source(n, i, run, p) = q
<1> DEFINE hole == Turn(n, i, run - 1)
<1>1. /\ c \in Buckets(n) /\ run \in 1 .. n
      /\ \A d \in 1 .. (run - 1) : 1 <= b[Turn(n, i, d)].dist
      /\ \A d \in 0 .. (run - 2) : c[Turn(n, i, d)] = Moved(b[Turn(n, i, d + 1)], -1)
      /\ c[Turn(n, i, run - 1)] = Free
      /\ \A d \in run .. (n - 1) : c[Turn(n, i, d)] = b[Turn(n, i, d)]
  BY DEF Shifted
<1>2. i \in 0 .. (n - 1) /\ Turn(n, i, 0) = i
  BY FilledIs DEF Turn
<1>3. \A d \in 0 .. n : Turn(n, i, d) \in 0 .. (n - 1)
  BY <1>2, TurnIs
<1>4. ASSUME NEW d \in 0 .. (run - 1)  PROVE Turn(n, i, d) \in Filled(b)
  <2>1. CASE d = 0
    BY <1>2, <2>1
  <2>2. CASE d # 0
    <3>1. d \in 1 .. (run - 1) /\ d \in 0 .. n
      BY <1>1, <2>2
    <3>2. 1 <= b[Turn(n, i, d)].dist /\ Turn(n, i, d) \in 0 .. (n - 1)
      BY <1>1, <1>3, <3>1
    <3> QED  BY <3>2, FilledIs
  <2> QED  BY <2>1, <2>2
<1>5. ASSUME NEW d \in 0 .. (run - 2)
      PROVE  LET p == Turn(n, i, d)
                 q == Turn(n, i, d + 1) IN
             /\ p \in Filled(c) /\ q \in Filled(b) /\ q # i
             /\ c[p].key = b[q].key /\ KV(c[p]) = KV(b[q])
             /\ c[p].dist < n /\ Spot(n, c[p]) = p
             /\ p < i => q <= i
  <2> DEFINE p == Turn(n, i, d)
             q == Turn(n, i, d + 1)
  <2>1. /\ d + 1 \in 0 .. (run - 1) /\ d + 1 \in 1 .. (run - 1) /\ d \in 0 .. (n - 1)
        /\ d \in 0 .. n /\ d + 1 < n
    BY <1>1
  <2>2. q \in Filled(b) /\ 1 <= b[q].dist /\ p \in 0 .. (n - 1)
    BY <1>1, <1>3, <1>4, <2>1
  <2>3. b[q] \in Entries /\ b[q].dist < n /\ Spot(n, b[q]) = q
    BY <2>2, FilledIs, InPlaceIs
  <2>4. q # i /\ (p < i => q <= i)
    BY <1>2, <2>1 DEF Turn
  <2>5. c[p] = Moved(b[q], -1)
    BY <1>1
  <2> HIDE DEF p
  <2>6. /\ Moved(b[q], -1) \in Entries /\ KV(Moved(b[q], -1)) = KV(b[q])
        /\ Moved(b[q], -1).key = b[q].key /\ Moved(b[q], -1).dist = b[q].dist - 1
        /\ Spot(n, Moved(b[q], -1)) = Turn(n, i, d)
    <3>1. PICK e : e = b[q]
      OBVIOUS
    <3> QED  BY <1>2, <2>1, <2>2, <2>3, <3>1, SpotOneBack
  <2> HIDE DEF q
  <2>7. b[q].dist \in Nat
    BY <2>3, EntryIs
  <2>8. p \in Filled(c)
    BY <1>1, <2>2, <2>5, <2>6, FilledIs, EntryIs
  <2> QED  BY <2>2, <2>3, <2>4, <2>5, <2>6, <2>7, <2>8 DEF p, q
<1>6. hole \in Filled(b) /\ hole \notin Filled(c)
  <2>1. run - 1 \in 0 .. (run - 1)
    BY <1>1
  <2> QED  BY <1>1, <1>4, <2>1, FilledIs, FreeIs
<1>7. ASSUME NEW d \in run .. (n - 1)
      PROVE  LET p == Turn(n, i, d) IN
             /\ p \in Filled(c) <=> p \in Filled(b)
             /\ p # i /\ p # hole
             /\ p \in Filled(b) => c[p] = b[p] /\ c[p].dist < n /\ Spot(n, c[p]) = p
  <2>1. PICK p : p = Turn(n, i, d)
    OBVIOUS
  <2>2. d \in 0 .. (n - 1) /\ d \in 0 .. n /\ run - 1 \in 0 .. (n - 1) /\ d # 0 /\ d # run - 1
    BY <1>1
  <2>3. p \in 0 .. (n - 1) /\ c[p] = b[p]
    BY <1>1, <1>3, <2>1, <2>2
  <2>4. p # i /\ p # hole
    BY <1>2, <2>1, <2>2 DEF Turn
  <2> QED  BY <1>1, <2>1, <2>3, <2>4, FilledIs, InPlaceIs
<1>8. ASSUME NEW p \in 0 .. (n - 1)
      PROVE  Offset(n, i, p) \in 0 .. (n - 1) /\ Turn(n, i, Offset(n, i, p)) = p
  BY <1>2, OffsetIs
<1>9. Filled(c) = Filled(b) \ {hole}
  <2>1. Filled(c) \subseteq 0 .. (n - 1) /\ Filled(b) \subseteq 0 .. (n - 1)
    BY <1>1, FilledIs
  <2>2. ASSUME NEW p \in 0 .. (n - 1)  PROVE p \in Filled(c) <=> p \in Filled(b) /\ p # hole
    <3>1. PICK d \in 0 .. (n - 1) : d = Offset(n, i, p) /\ Turn(n, i, d) = p
      BY <1>8
    <3>2. CASE d < run - 1
      <4>1. d \in 0 .. (run - 2) /\ d \in 0 .. (run - 1)
        BY <1>1, <3>2
      <4>2. p \in Filled(c) /\ p \in Filled(b)
        BY <1>4, <1>5, <3>1, <4>1
      <4> QED  BY <1>6, <4>2
    <3>3. CASE d = run - 1
      BY <1>6, <3>1, <3>3
    <3>4. CASE d >= run
      <4>1. d \in run .. (n - 1)
        BY <1>1, <3>4
      <4> QED  BY <1>7, <3>1, <4>1
    <3> QED  BY <1>1, <3>2, <3>3, <3>4
  <2> QED  BY <2>1, <2>2, <1>6
<1>10. ASSUME NEW p \in Filled(c)
       PROVE  LET q == Source(n, i, run, p) IN
              /\ q \in Filled(b) /\ q # i
              /\ c[p].key = b[q].key /\ KV(c[p]) = KV(b[q])
              /\ c[p].dist < n /\ Spot(n, c[p]) = p
              /\ p < i => q <= i
  <2>1. p \in 0 .. (n - 1) /\ p # hole /\ p \in Filled(b)
    BY <1>1, <1>9, FilledIs
  <2>2. PICK d \in 0 .. (n - 1) : d = Offset(n, i, p) /\ Turn(n, i, d) = p
    BY <1>8, <2>1
  <2>3. CASE d < run - 1
    <3>1. d \in 0 .. (run - 2) /\ Source(n, i, run, p) = Turn(n, i, d + 1)
      BY <1>1, <2>2, <2>3 DEF Source
    <3> QED  BY <1>5, <2>2, <3>1
  <2>4. CASE d >= run - 1
    <3>1. d # run - 1
      BY <2>1, <2>2
    <3>2. d \in run .. (n - 1) /\ Source(n, i, run, p) = p
      BY <1>1, <2>2, <2>4, <3>1 DEF Source
    <3> QED  BY <1>2, <1>7, <2>1, <2>2, <3>2
  <2> QED  BY <1>1, <2>3, <2>4
<1>11. ASSUME NEW p \in Filled(c), NEW x \in Filled(c),
              Source(n, i, run, x) = Source(n, i, run, p)
       PROVE  x = p
  <2>1. p \in 0 .. (n - 1) /\ p # hole /\ x \in 0 .. (n - 1) /\ x # hole
    BY <1>1, <1>9, FilledIs
  <2>2. PICK d \in 0 .. (n - 1) : d = Offset(n, i, p) /\ Turn(n, i, d) = p
    BY <1>8, <2>1
  <2>3. PICK y \in 0 .. (n - 1) : y = Offset(n, i, x) /\ Turn(n, i, y) = x
    BY <1>8, <2>1
  <2>4. d # run - 1 /\ y # run - 1
    BY <2>1, <2>2, <2>3
  <2>5. Source(n, i, run, p) = Turn(n, i, IF d < run - 1 THEN d + 1 ELSE d)
    BY <2>2 DEF Source
  <2>6. Source(n, i, run, x) = Turn(n, i, IF y < run - 1 THEN y + 1 ELSE y)
    BY <2>3 DEF Source
  <2>7. PICK a, e : /\ a = (IF d < run - 1 THEN d + 1 ELSE d)
                    /\ e = (IF y < run - 1 THEN y + 1 ELSE y)
    OBVIOUS
  <2>8. a \in 0 .. (n - 1) /\ e \in 0 .. (n - 1)
    BY <1>1, <2>7
  <2>9. Turn(n, i, a) = Turn(n, i, e)
    BY <1>11, <2>5, <2>6, <2>7
  <2>10. a = e
    BY <1>2, <2>8, <2>9 DEF Turn
  <2>11. d = y
    BY <1>1, <2>4, <2>7, <2>10
  <2> QED  BY <2>2, <2>3, <2>11
<1>12. ASSUME NEW q \in Filled(b), q # i
       PROVE  \E p \in Filled(c) : Source(n, i, run, p) = q
  <2>1. q \in 0 .. (n - 1)
    BY FilledIs
  <2>2. PICK d \in 0 .. (n - 1) : d = Offset(n, i, q) /\ Turn(n, i, d) = q
    BY <1>8, <2>1
  <2>3. d # 0
    BY <1>2, <1>12, <2>2
  <2>4. CASE d <= run - 1
    <3>1. PICK y : y = d - 1
      OBVIOUS
    <3>2. y \in 0 .. (run - 2) /\ y \in 0 .. (n - 1) /\ y + 1 = d
      BY <1>1, <2>3, <2>4, <3>1
    <3>3. Turn(n, i, y) \in Filled(c) /\ Turn(n, i, y) \in 0 .. (n - 1)
      BY <1>3, <1>5, <3>2
    <3>4. Offset(n, i, Turn(n, i, y)) = y
      BY <1>2, <3>2, <3>3, OffsetIs
    <3>5. Source(n, i, run, Turn(n, i, y)) = Turn(n, i, d)
      BY <1>1, <3>2, <3>4 DEF Source
    <3> QED  BY <2>2, <3>3, <3>5
  <2>5. CASE d > run - 1
    <3>1. d \in run .. (n - 1)
      BY <1>1, <2>5
    <3>2. q \in Filled(c)
      BY <1>7, <2>2, <3>1
    <3>3. Source(n, i, run, q) = q
      BY <1>1, <2>2, <2>5 DEF Source
    <3> QED  BY <3>2, <3>3
  <2> QED  BY <1>1, <2>4, <2>5
<1> QED  BY <1>6, <1>9, <1>10, <1>11, <1>12
(* The entries that are left are in order, each key's value is as before,  *)
(* and none comes to stand in front of i from behind it.                   *)
LEMMA ShiftBackKeeps ==
    ASSUME NEW n \in Nat \ {0}, NEW b \in Buckets(n), Sorted(b), NEW i \in Filled(b),
           NEW f \in 0 .. (n - 1), b[f].dist = -1
    PROVE  LET c == ShiftBack(b, i) IN
           /\ c \in Buckets(n) /\ Sorted(c)
           /\ Cardinality(Filled(c)) = Cardinality(Filled(b)) - 1
           /\ Contents(c) = Contents(b) \ {KV(b[i])}
           /\ \A p \in Filled(c) :
                p < i => \E q \in Filled(b) : q <= i /\ b[q].key = c[p].key
<1>1. PICK c : c = ShiftBack(b, i)
  OBVIOUS
<1>2. i \in 0 .. (n - 1) /\ InPlace(b) /\ Distinct(b) /\ Ordered(b)
  BY FilledIs DEF Sorted
<1>3. PICK run \in 1 .. n : Shifted(n, b, i, run, c)
  BY <1>1, <1>2, ShiftBackIs
<1>4. /\ c \in Buckets(n)
      /\ \A d \in 1 .. (run - 1) : 1 <= b[Turn(n, i, d)].dist
      /\ run < n => b[Turn(n, i, run)].dist <= 0
      /\ \A d \in 0 .. (run - 2) : c[Turn(n, i, d)] = Moved(b[Turn(n, i, d + 1)], -1)
      /\ c[Turn(n, i, run - 1)] = Free
      /\ \A d \in run .. (n - 1) : c[Turn(n, i, d)] = b[Turn(n, i, d)]
  BY <1>3 DEF Shifted
<1>5. /\ Turn(n, i, run - 1) \in Filled(b)
      /\ Filled(c) = Filled(b) \ {Turn(n, i, run - 1)}
  BY <1>2, <1>3, SourceIs
<1>6. ASSUME NEW p \in Filled(c)
      PROVE  LET q == Source(n, i, run, p) IN
             /\ q \in Filled(b) /\ q # i
             /\ c[p].key = b[q].key /\ KV(c[p]) = KV(b[q])
             /\ c[p].dist < n /\ Spot(n, c[p]) = p
             /\ p < i => q <= i
             /\ \A x \in Filled(c) : Source(n, i, run, x) = q => x = p
  BY <1>2, <1>3, SourceIs
<1>7. \A q \in Filled(b) : q # i => \E p \in Filled(c) : Source(n, i, run, p) = q
  BY <1>2, <1>3, SourceIs
<1>8. run < n
  <2>1. PICK d \in 0 .. (n - 1) : Turn(n, i, d) = f
    BY <1>2, OffsetIs
  <2>2. d # 0
    <3>1. f # i
      BY FilledIs
    <3> QED  BY <1>2, <2>1, <3>1 DEF Turn
  <2>3. d \notin 1 .. (run - 1)
    BY <1>4, <2>1
  <2> QED  BY <2>2, <2>3
<1>9. Cardinality(Filled(c)) = Cardinality(Filled(b)) - 1
  <2>1. IsFiniteSet(Filled(b))
    BY FilledIs
  <2> QED  BY <1>5, <2>1, FS_RemoveElement
<1>10. InPlace(c)
  BY <1>4, <1>6, InPlaceIs
<1>11. Distinct(c)
  <2> SUFFICES ASSUME NEW p \in Filled(c), NEW x \in Filled(c), c[p].key = c[x].key
               PROVE  p = x
    BY DEF Distinct
  <2>1. Source(n, i, run, x) = Source(n, i, run, p)
    <3>1. PICK q, y : q = Source(n, i, run, p) /\ y = Source(n, i, run, x)
      OBVIOUS
    <3>2. q \in Filled(b) /\ y \in Filled(b) /\ b[q].key = b[y].key
      BY <1>6, <3>1
    <3> QED  BY <1>2, <3>1, <3>2 DEF Distinct
  <2> QED  BY <1>6, <2>1
<1>12. Contents(c) = Contents(b) \ {KV(b[i])}
  <2>1. \A x : /\ x \in Contents(b) <=> \E q \in Filled(b) : x = KV(b[q])
               /\ x \in Contents(c) <=> \E p \in Filled(c) : x = KV(c[p])
    BY DEF Contents, KV
  <2>2. ASSUME NEW x \in Contents(c)  PROVE x \in Contents(b) /\ x # KV(b[i])
    <3>1. PICK p \in Filled(c) : x = KV(c[p])
      BY <2>1
    <3>2. PICK q \in Filled(b) : q # i /\ KV(c[p]) = KV(b[q])
      BY <1>6
    <3>3. b[q].key # b[i].key
      BY <1>2, <3>2 DEF Distinct
    <3>4. KV(b[q]) # KV(b[i])
      BY <3>3 DEF KV
    <3> QED  BY <2>1, <3>1, <3>2, <3>4
  <2>3. ASSUME NEW x \in Contents(b), x # KV(b[i])  PROVE x \in Contents(c)
    <3>1. PICK q \in Filled(b) : x = KV(b[q])
      BY <2>1
    <3>2. PICK p \in Filled(c) : Source(n, i, run, p) = q
      BY <1>7, <2>3, <3>1
    <3>3. KV(c[p]) = KV(b[q])
      BY <1>6, <3>2
    <3> QED  BY <2>1, <3>1, <3>2, <3>3
  <2> QED  BY <2>2, <2>3
<1>13. Ordered(c)
  <2>1. \A q \in Filled(b) : b[q].dist <= b[Before(n, q)].dist + 1
    BY <1>2, OrderedIs
  <2>2. \A d \in 0 .. n : Turn(n, i, d) \in 0 .. (n - 1)
    BY <1>2, TurnIs
  <2>3. \A q \in 0 .. (n - 1) : b[q].dist \in Int /\ -1 <= b[q].dist /\ c[q].dist \in Int
    BY <1>4, FilledIs, SlotIs
  <2>4. \A d \in 0 .. (n - 1) : Before(n, Turn(n, i, d + 1)) = Turn(n, i, d)
    BY <1>2, OneOn
  <2>5. ASSUME NEW d \in 0 .. (run - 2)
        PROVE  c[Turn(n, i, d)].dist = b[Turn(n, i, d + 1)].dist - 1
    <3>1. d + 1 \in 1 .. (run - 1) /\ d + 1 \in 0 .. n
      OBVIOUS
    <3>2. PICK q : q = Turn(n, i, d + 1)
      OBVIOUS
    <3>3. q \in 0 .. (n - 1) /\ 1 <= b[q].dist
      BY <1>4, <2>2, <3>1, <3>2
    <3>4. q \in Filled(b) /\ b[q] \in Entries
      BY <2>3, <3>3, FilledIs
    <3>5. PICK by \in Int : by = -1 /\ b[q].dist + by \in Nat
      BY <2>3, <3>3
    <3>6. Moved(b[q], by).dist = b[q].dist + by
      BY <3>4, <3>5, MovedIs
    <3> QED  BY <1>4, <2>3, <3>2, <3>3, <3>5, <3>6
  <2>6. ASSUME NEW p \in Filled(c)  PROVE c[p].dist <= c[Before(n, p)].dist + 1
    <3>1. p \in 0 .. (n - 1) /\ p # Turn(n, i, run - 1)
      BY <1>4, <1>5, FilledIs
    <3>2. PICK d \in 0 .. (n - 1) : Turn(n, i, d) = p
      BY <1>2, <3>1, OffsetIs
    <3>3. CASE d = 0
      <4>1. 0 \in 0 .. (run - 2)
        BY <3>1, <3>2, <3>3
      <4>2. Turn(n, i, 0) = i /\ 0 + 1 = 1
        BY <1>2 DEF Turn
      <4>3. c[i].dist = b[Turn(n, i, 1)].dist - 1
        BY <2>5, <4>1, <4>2
      <4>4. Turn(n, i, 1) \in Filled(b) /\ Before(n, Turn(n, i, 1)) = i
        <5>1. 1 \in 1 .. (run - 1) /\ 1 \in 0 .. n /\ 0 \in 0 .. (n - 1)
          BY <4>1
        <5>2. 1 <= b[Turn(n, i, 1)].dist /\ Turn(n, i, 1) \in 0 .. (n - 1)
          BY <1>4, <2>2, <5>1
        <5> QED  BY <2>4, <4>2, <5>1, <5>2, FilledIs
      <4>5. b[Turn(n, i, 1)].dist <= b[i].dist + 1
        BY <2>1, <4>4
      <4>6. b[i].dist <= b[Before(n, i)].dist + 1
        BY <2>1
      <4>7. Before(n, i) = Turn(n, i, n - 1) /\ n - 1 \in run .. (n - 1)
        BY <1>2, <1>8 DEF Before, Turn
      <4>8. c[Before(n, i)] = b[Before(n, i)] /\ Before(n, i) \in 0 .. (n - 1)
        BY <1>2, <1>4, <4>7 DEF Before
      <4>9. p = i /\ Turn(n, i, 1) \in 0 .. (n - 1)
        BY <3>2, <3>3, <4>2, <4>4, FilledIs
      <4> QED  BY <1>2, <2>3, <4>3, <4>5, <4>6, <4>8, <4>9
    <3>4. CASE d # 0
      <4>1. d - 1 \in 0 .. (n - 1) /\ (d - 1) + 1 = d
        BY <3>4
      <4>2. PICK x : x = Turn(n, i, d - 1)
        OBVIOUS
      <4>3. Before(n, p) = x /\ x \in 0 .. (n - 1)
        BY <2>2, <2>4, <3>2, <4>1, <4>2
      <4>4. d # run - 1
        BY <3>1, <3>2
      <4>5. CASE d < run - 1
        <5>1. d \in 0 .. (run - 2) /\ d - 1 \in 0 .. (run - 2)
          BY <3>4, <4>5
        <5>2. c[p].dist = b[Turn(n, i, d + 1)].dist - 1 /\ c[x].dist = b[p].dist - 1
          BY <2>5, <3>2, <4>1, <4>2, <5>1
        <5>3. Turn(n, i, d + 1) \in Filled(b) /\ Before(n, Turn(n, i, d + 1)) = p
          <6>1. d + 1 \in 1 .. (run - 1) /\ d + 1 \in 0 .. n
            BY <5>1
          <6>2. 1 <= b[Turn(n, i, d + 1)].dist /\ Turn(n, i, d + 1) \in 0 .. (n - 1)
            BY <1>4, <2>2, <6>1
          <6> QED  BY <2>4, <3>2, <6>2, FilledIs
        <5>4. b[Turn(n, i, d + 1)].dist <= b[p].dist + 1
          BY <2>1, <5>3
        <5>5. Turn(n, i, d + 1) \in 0 .. (n - 1)
          BY <5>3, FilledIs
        <5> QED  BY <2>3, <3>1, <4>3, <5>2, <5>4, <5>5
      <4>6. CASE d = run
        <5>1. c[p] = b[p] /\ b[p].dist <= 0
          BY <1>4, <1>8, <3>2, <4>6
        <5>2. -1 <= c[x].dist
          BY <1>4, <4>3, FilledIs, SlotIs
        <5> QED  BY <2>3, <3>1, <4>3, <5>1, <5>2
      <4>7. CASE d > run
        <5>1. d \in run .. (n - 1) /\ d - 1 \in run .. (n - 1)
          BY <4>7
        <5>2. c[p] = b[p] /\ c[x] = b[x]
          BY <1>4, <3>2, <4>2, <5>1
        <5>3. p \in Filled(b)
          BY <1>5
        <5> QED  BY <2>1, <4>3, <5>2, <5>3
      <4> QED  BY <4>4, <4>5, <4>6, <4>7
    <3> QED  BY <3>3, <3>4
  <2> QED  BY <1>4, <2>6, OrderedIs
<1>14. ASSUME NEW p \in Filled(c), p < i
       PROVE  \E q \in Filled(b) : q <= i /\ b[q].key = c[p].key
  BY <1>6, <1>14
<1> QED  BY <1>1, <1>4, <1>9, <1>10, <1>11, <1>12, <1>13, <1>14 DEF Sorted

(* A table with an entry the less.                                         *)
LEMMA ErasedKeeps ==
    ASSUME NEW t, Sound(t), NEW i \in Filled(t.buckets)
    PROVE  LET u == Erased(t, i) IN
           /\ Sound(u) /\ Contents(u.buckets) = Contents(t.buckets) \ {KV(t.buckets[i])}
           /\ Count(u.buckets) = Count(t.buckets)
           /\ \A p \in Filled(u.buckets) :
                p < i => \E q \in Filled(t.buckets) :
                            q <= i /\ t.buckets[q].key = u.buckets[p].key
<1> DEFINE n == Count(t.buckets)
           b == t.buckets
<1>1. /\ t \in Objects /\ b \in Buckets(n) /\ n \in Nat /\ n \in {0} \union Sizes
      /\ t.nbElements \in Nat /\ t.loadThreshold \in Nat
  BY ObjectIs DEF Sound, Whole
<1>2. /\ t.nbElements = Cardinality(Filled(b)) /\ n <= MaxBuckets
      /\ n # 0 => t.nbElements < n /\ t.loadThreshold < n
  BY WholeIs DEF Sound
<1>3. Sorted(b)
  BY <1>1, SoundIs
<1>4. n # 0
  BY <1>1, FilledIs
<1> HIDE DEF n, b
<1>5. PICK f \in 0 .. (n - 1) : b[f].dist = -1
  BY <1>1, <1>2, <1>4, SomeFree
<1>6. PICK c : c = ShiftBack(b, i)
  OBVIOUS
<1>7. i \in Filled(b)
  BY DEF b
<1>8. /\ c \in Buckets(n) /\ Sorted(c)
      /\ Cardinality(Filled(c)) = Cardinality(Filled(b)) - 1
      /\ Contents(c) = Contents(b) \ {KV(b[i])}
      /\ \A p \in Filled(c) :
           p < i => \E q \in Filled(b) : q <= i /\ b[q].key = c[p].key
  BY <1>1, <1>3, <1>4, <1>5, <1>6, <1>7, ShiftBackKeeps
<1>9. c \in UNION {Buckets(x) : x \in {0} \union Sizes}
  BY <1>1, <1>8
<1>10. PICK a : a = t.nbElements - 1
  OBVIOUS
<1>11. a \in Nat /\ a = Cardinality(Filled(c))
  <2>1. Cardinality(Filled(c)) \in Nat
    BY <1>1, <1>8, FilledIs, FS_CardinalityType
  <2> QED  BY <1>1, <1>2, <1>8, <1>10, <2>1
<1>12. PICK u : u = Erased(t, i)
  OBVIOUS
<1>13. u = [t EXCEPT !.buckets = c, !.nbElements = a, !.tryShrinkOnNextInsert = TRUE]
  BY <1>6, <1>10, <1>12 DEF Erased, b
<1>14. /\ u \in Objects /\ u.buckets = c /\ u.nbElements = a
       /\ u.loadThreshold = t.loadThreshold
  BY <1>1, <1>9, <1>11, <1>13 DEF Objects
<1>15. Count(c) = n
  BY <1>1, <1>8, CountIs
<1>16. Roomy(u)
  <2>1. a < n
    BY <1>1, <1>2, <1>4, <1>10
  <2> QED  BY <1>2, <1>4, <1>11, <1>14, <1>15, <2>1 DEF Roomy
<1>17. Sound(u)
  BY <1>8, <1>14, <1>16, SoundIs
<1> QED  BY <1>8, <1>12, <1>14, <1>15, <1>17 DEF b, n

(* A key that is there gets another value.                                 *)
Assigned(t, i, v) == [t EXCEPT !.buckets[i].value = v]

(* Only the value changes.                                                 *)
LEMMA AssignedKeeps ==
    ASSUME NEW t, Sound(t), NEW i \in Filled(t.buckets), NEW v \in Values,
           NEW u, u = Assigned(t, i, v)
    PROVE  /\ Sound(u) /\ Count(u.buckets) = Count(t.buckets)
           /\ Filled(u.buckets) = Filled(t.buckets)
           /\ \A p \in Filled(t.buckets) :
                /\ u.buckets[p].key = t.buckets[p].key
                /\ p # i => u.buckets[p].value = t.buckets[p].value
           /\ u.buckets[i].value = v
<1> DEFINE n == Count(t.buckets)
           b == t.buckets
<1>1. /\ t \in Objects /\ b \in Buckets(n) /\ n \in Nat /\ n \in {0} \union Sizes
  BY ObjectIs DEF Sound, Whole
<1>2. Sorted(b) /\ Roomy(t)
  BY <1>1, SoundIs DEF Sound, Whole
<1>3. i \in 0 .. (n - 1) /\ b[i] \in Entries /\ n # 0
  BY <1>1, FilledIs
<1> HIDE DEF n
<1>4. PICK e : e = [b[i] EXCEPT !.value = v]
  OBVIOUS
<1>5. e \in Entries /\ e.key = b[i].key /\ e.dist = b[i].dist /\ e.value = v /\ e \in Slots
  BY <1>3, <1>4 DEF Entries, Slots
<1>6. PICK c : c = [b EXCEPT ![i] = e]
  OBVIOUS
<1>7. Replaced(n, b, i, e, c)
  BY <1>1, <1>3, <1>5, <1>6, ExceptReplaces
<1>8. c \in Buckets(n) /\ c[i] = e /\ \A p \in 0 .. (n - 1) : p # i => c[p] = b[p]
  BY <1>7 DEF Replaced
<1>9. u = [t EXCEPT !.buckets = c]
  BY <1>4, <1>6 DEF Assigned
<1>10. c \in UNION {Buckets(x) : x \in {0} \union Sizes}
  BY <1>1, <1>8
<1>11. u \in Objects /\ u.buckets = c /\ u.nbElements = t.nbElements
       /\ u.loadThreshold = t.loadThreshold
  BY <1>1, <1>9, <1>10 DEF Objects
<1> HIDE DEF b
<1>12. \A p \in 0 .. (n - 1) : c[p].dist = b[p].dist
  BY <1>5, <1>8
<1>13. Filled(c) = Filled(b) /\ Filled(b) \subseteq 0 .. (n - 1)
  BY <1>1, <1>8, <1>12, FilledIs
<1>14. \A p \in Filled(b) : c[p].key = b[p].key /\ Spot(n, c[p]) = Spot(n, b[p])
  BY <1>5, <1>8, <1>13 DEF Spot
<1>15. InPlace(c)
  <2>1. \A p \in Filled(b) : b[p].dist < n /\ Spot(n, b[p]) = p
    BY <1>1, <1>2, <1>3, InPlaceIs DEF Sorted
  <2>2. \A p \in Filled(c) : c[p].dist < n /\ Spot(n, c[p]) = p
    BY <1>12, <1>13, <1>14, <2>1
  <2> QED  BY <1>1, <1>3, <1>8, <2>2, InPlaceIs
<1>16. Distinct(c)
  BY <1>2, <1>13, <1>14 DEF Sorted, Distinct
<1>17. Ordered(c)
  <2>1. \A p \in Filled(b) : b[p].dist <= b[Before(n, p)].dist + 1
    BY <1>1, <1>2, <1>3, OrderedIs DEF Sorted
  <2>2. \A p \in 0 .. (n - 1) : Before(n, p) \in 0 .. (n - 1)
    BY <1>1, <1>3 DEF Before
  <2>3. \A p \in Filled(c) : c[p].dist <= c[Before(n, p)].dist + 1
    BY <1>12, <1>13, <2>1, <2>2
  <2> QED  BY <1>1, <1>3, <1>8, <2>3, OrderedIs
<1>18. Count(c) = n
  BY <1>1, <1>8, CountIs
<1>19. Roomy(u)
  BY <1>2, <1>11, <1>13, <1>18 DEF Roomy, n, b
<1>20. Sound(u)
  BY <1>11, <1>15, <1>16, <1>17, <1>19, SoundIs DEF Sorted
<1> QED  BY <1>5, <1>8, <1>11, <1>13, <1>14, <1>18, <1>20 DEF b, n
-----------------------------------------------------------------------------
(* An erased range.                                                        *)

(* No entry runs past the end of the array.                                *)
NoneCross(b) == \A i \in Filled(b) : b[i].dist <= i

(* The array c is b with the entry at j moved back by some buckets.        *)
Closer(n, b, j, by, c) ==
    /\ c \in Buckets(n)
    /\ c[j - by] = Moved(b[j], -by) /\ c[j] = Free
    /\ \A x \in 0 .. (n - 1) : x # j /\ x # j - by => c[x] = b[x]

(* An entry that moves back, to a free bucket and not past its own, is     *)
(* where it says; none is lost.                                            *)
LEMMA CloserIs ==
    ASSUME NEW n \in Nat \ {0}, NEW b \in Buckets(n), InPlace(b), Distinct(b),
           NEW j \in Filled(b), NEW by \in 1 .. j, by <= b[j].dist, b[j - by] = Free,
           NEW c, Closer(n, b, j, by, c)
    PROVE  /\ InPlace(c) /\ Distinct(c) /\ Contents(c) = Contents(b)
           /\ Filled(c) = (Filled(b) \ {j}) \union {j - by}
           /\ c[j - by].dist = b[j].dist - by
           /\ NoneCross(b) => NoneCross(c)
<1>1. PICK t \in 0 .. (n - 1) : t = j - by /\ t < j
  BY FilledIs
<1>2. /\ c \in Buckets(n) /\ c[t] = Moved(b[j], -by) /\ c[j] = Free
      /\ \A x \in 0 .. (n - 1) : x # j /\ x # t => c[x] = b[x]
      /\ b[t] = Free
  BY <1>1 DEF Closer
<1>3. j \in 0 .. (n - 1) /\ b[j] \in Entries /\ b[j].dist < n /\ Spot(n, b[j]) = j
  BY FilledIs, InPlaceIs
<1>4. b[j].dist \in Nat /\ b[j].key \in Keys
  BY <1>3, EntryIs
<1>5. PICK m \in Int : m = -by /\ b[j].dist + m \in Nat /\ b[j].dist + m = b[j].dist - by
  BY <1>4
<1>6. /\ c[t] \in Entries /\ c[t].key = b[j].key /\ c[t].value = b[j].value
      /\ c[t].dist = b[j].dist - by
  BY <1>2, <1>3, <1>5, MovedIs
<1>7. Spot(n, c[t]) = t
  <2>1. Home(n, b[j].key) \in 0 .. (n - 1)
    <3>1. HashOf[b[j].key] \in Int
      BY <1>4, TableAssumption
    <3> QED  BY <3>1, Remainder DEF Home
  <2>2. Turn(n, Home(n, b[j].key), b[j].dist) = j
    BY <1>3 DEF Spot
  <2>3. Turn(n, Home(n, b[j].key), b[j].dist - by) = t
    BY <1>1, <1>3, <1>4, <2>1, <2>2 DEF Turn
  <2> QED  BY <1>6, <2>3 DEF Spot
<1>8. Filled(c) = (Filled(b) \ {j}) \union {t}
  <2>1. /\ Filled(b) = {x \in 0 .. (n - 1) : b[x].dist # -1}
        /\ Filled(c) = {x \in 0 .. (n - 1) : c[x].dist # -1}
    BY <1>2, FilledIs
  <2>2. c[j].dist = -1 /\ c[t].dist # -1
    BY <1>2, <1>6, FreeIs, EntryIs
  <2>3. ASSUME NEW x \in 0 .. (n - 1)
        PROVE  x \in Filled(c) <=> x \in (Filled(b) \ {j}) \union {t}
    <3>1. CASE x = j
      BY <1>1, <2>1, <2>2, <3>1
    <3>2. CASE x = t
      BY <2>1, <2>2, <3>2
    <3>3. CASE x # j /\ x # t
      BY <1>2, <2>1, <3>3
    <3> QED  BY <3>1, <3>2, <3>3
  <2> QED  BY <2>1, <2>3
<1>9. \A x \in Filled(c) : x # t => x \in Filled(b) /\ x # j /\ c[x] = b[x]
  BY <1>2, <1>8, FilledIs
<1>10. t \notin Filled(b)
  BY <1>2, FilledIs, FreeIs
<1>11. InPlace(c)
  <2>1. \A x \in Filled(b) : b[x].dist < n /\ Spot(n, b[x]) = x
    BY InPlaceIs
  <2>2. c[t].dist < n
    BY <1>3, <1>4, <1>6
  <2>3. \A x \in Filled(c) : c[x].dist < n /\ Spot(n, c[x]) = x
    BY <1>7, <1>9, <2>1, <2>2
  <2> QED  BY <1>2, <2>3, InPlaceIs
<1>12. Distinct(c)
  <2> SUFFICES ASSUME NEW x \in Filled(c), NEW y \in Filled(c), c[x].key = c[y].key
               PROVE  x = y
    BY DEF Distinct
  <2>1. CASE x # t /\ y # t
    BY <1>9, <2>1 DEF Distinct
  <2>2. CASE x = t \/ y = t
    BY <1>6, <1>9, <2>2 DEF Distinct
  <2> QED  BY <2>1, <2>2
<1>13. Contents(c) = Contents(b)
  <2>1. \A e : /\ e \in Contents(b) <=> \E x \in Filled(b) : e = KV(b[x])
               /\ e \in Contents(c) <=> \E x \in Filled(c) : e = KV(c[x])
    BY DEF Contents, KV
  <2>2. KV(c[t]) = KV(b[j])
    BY <1>6 DEF KV
  <2>3. ASSUME NEW e \in Contents(c)  PROVE e \in Contents(b)
    <3>1. PICK x \in Filled(c) : e = KV(c[x])
      BY <2>1
    <3>2. CASE x = t
      BY <2>1, <2>2, <3>1, <3>2
    <3>3. CASE x # t
      BY <1>9, <2>1, <3>1, <3>3
    <3> QED  BY <3>2, <3>3
  <2>4. ASSUME NEW e \in Contents(b)  PROVE e \in Contents(c)
    <3>1. PICK x \in Filled(b) : e = KV(b[x])
      BY <2>1
    <3>2. CASE x = j
      BY <1>8, <2>1, <2>2, <3>1, <3>2
    <3>3. CASE x # j
      <4>1. x \in Filled(c) /\ x # t
        BY <1>8, <1>10, <3>3
      <4> QED  BY <1>9, <2>1, <3>1, <4>1
    <3> QED  BY <3>2, <3>3
  <2> QED  BY <2>3, <2>4
<1>14. ASSUME NoneCross(b)  PROVE NoneCross(c)
  <2>1. b[j].dist <= j
    BY <1>14 DEF NoneCross
  <2>2. c[t].dist <= t
    BY <1>1, <1>3, <1>4, <1>6, <2>1
  <2> QED  BY <1>9, <1>14, <2>2 DEF NoneCross
<1> QED  BY <1>1, <1>6, <1>8, <1>11, <1>12, <1>13, <1>14

(* Where the entry behind the range ends up.                               *)
Landing(n, b, first, last) == IF last = n THEN n ELSE last - Gap(b, first, last)

(* Before the entry at j moves back: the buckets from s.closer on are free *)
(* up to j, those from j on are as they were.                              *)
Closing(n, b, first, last, s, j) ==
    LET B == s.buckets
        c == s.closer
        g == Landing(n, b, first, last) IN
    /\ InPlace(B) /\ Distinct(B) /\ Contents(B) \subseteq Contents(b)
    /\ c \in first .. (n - 1) /\ B[c] = Free
    /\ \A x \in 0 .. (first - 1) : B[x] = b[x]
    /\ ~s.done => /\ c < j
                  /\ \A x \in c .. (j - 1) : B[x] = Free
                  /\ \A x \in j .. (n - 1) : B[x] = b[x]
    /\ \A x \in first .. (g - 1) : B[x] = Free
    /\ IF j = last THEN ~s.done /\ c = first
       ELSE g < n => g \in Filled(B) /\ (c > g \/ s.done)

(* If no entry crossed the end, those in front of j are in order, and the  *)
(* one at j will be.                                                       *)
OrderlyTo(n, b, s, j) ==
    LET B == s.buckets
        c == s.closer IN
    /\ NoneCross(B)
    /\ IF s.done THEN Ordered(B)
       ELSE /\ \A x \in 1 .. (j - 1) : x \in Filled(B) => B[x].dist <= B[x - 1].dist + 1
            /\ j < n /\ 1 <= c /\ b[j].dist > j - c =>
                 b[j].dist - (j - c) <= B[c - 1].dist + 1

(* The states of the loop of erase(first, last).                           *)
Closings(n) == [buckets : Buckets(n), closer : 0 .. n, done : BOOLEAN]

(* How far an entry moves back.                                            *)
LEMMA GapIs ==
    ASSUME NEW n \in Nat \ {0}, NEW b \in Buckets(n), NEW j \in 0 .. (n - 1),
           NEW c \in 0 .. (n - 1), c < j, b[j].dist > 0
    PROVE  /\ Gap(b, c, j) \in 1 .. j /\ Gap(b, c, j) <= j - c /\ Gap(b, c, j) <= b[j].dist
           /\ Gap(b, c, j) = j - c \/ Gap(b, c, j) = b[j].dist
<1>1. b[j].dist \in Int
  BY FilledIs, SlotIs
<1> QED  BY <1>1 DEF Gap

(* One turn of the loop.                                                   *)
LEMMA MoveUpIs ==
    ASSUME NEW n \in Nat \ {0}, NEW j \in 0 .. (n - 1), NEW s \in Closings(n),
           ~s.done, s.closer < j, s.buckets[j].dist > 0
    PROVE  LET B == s.buckets
               w == MoveUp(s, j)
               by == Gap(B, s.closer, j) IN
           /\ w \in Closings(n) /\ ~w.done /\ w.closer = j - by + 1
           /\ by \in 1 .. j /\ by <= B[j].dist /\ s.closer <= j - by
           /\ by = j - s.closer \/ by = B[j].dist
           /\ j \in Filled(B) /\ Closer(n, B, j, by, w.buckets)
<1> DEFINE B == s.buckets
           c == s.closer
           by == Gap(B, c, j)
           w == MoveUp(s, j)
<1>1. B \in Buckets(n) /\ c \in 0 .. n /\ s.done \in BOOLEAN /\ c \in 0 .. (n - 1)
  BY DEF Closings
<1>2. /\ by \in 1 .. j /\ by <= j - c /\ by <= B[j].dist
      /\ by = j - c \/ by = B[j].dist
  BY <1>1, GapIs
<1>3. B[j].dist \in Int /\ B[j].dist # -1 /\ ~(B[j].dist <= 0)
  BY <1>1, FilledIs, SlotIs
<1>4. j \in Filled(B) /\ B[j] \in Entries
  BY <1>1, <1>3, FilledIs
<1>5. PICK m \in Int : m = -by /\ B[j].dist + m \in Nat
  BY <1>2, <1>3
<1>6. Moved(B[j], m) \in Slots
  BY <1>4, <1>5, MovedIs, EntryIs
<1> HIDE DEF by
<1>7. PICK t \in 0 .. (n - 1) : t = j - by /\ t # j /\ c <= t
  BY <1>1, <1>2
<1>8. PICK C : C = [B EXCEPT ![j] = Free, ![t] = Moved(B[j], m)]
  OBVIOUS
<1>9. C \in Buckets(n) /\ C[t] = Moved(B[j], m) /\ C[j] = Free
      /\ \A x \in 0 .. (n - 1) : x # j /\ x # t => C[x] = B[x]
  BY <1>1, <1>6, <1>7, <1>8, FreeIs DEF Buckets
<1>10. Closer(n, B, j, by, C)
  BY <1>5, <1>7, <1>9 DEF Closer
<1>11. w = [s EXCEPT !.buckets = C, !.closer = t + 1]
  <2>1. ~(s.done \/ s.buckets[j].dist <= 0)
    BY <1>3
  <2>2. w = [s EXCEPT !.buckets[j] = Free, !.buckets[j - by] = Moved(s.buckets[j], -by),
                      !.closer = j - by + 1]
    BY <2>1 DEF MoveUp, by
  <2>3. w = [s EXCEPT !.buckets[j] = Free, !.buckets[t] = Moved(B[j], m), !.closer = t + 1]
    BY <1>5, <1>7, <2>2
  <2> QED  BY <1>8, <2>3 DEF Closings
<1> HIDE DEF B, c
<1>12. w \in Closings(n) /\ ~w.done /\ w.closer = j - by + 1 /\ w.buckets = C
  <2>1. t + 1 \in 0 .. n /\ t + 1 = j - by + 1
    BY <1>7
  <2> QED  BY <1>9, <1>11, <2>1 DEF Closings
<1> QED  BY <1>2, <1>4, <1>7, <1>10, <1>12 DEF B, c, by
(* A turn of that loop,                                                    *)
LEMMA ClosingKeeps ==
    ASSUME NEW n \in Nat \ {0}, NEW b \in Buckets(n),
           NEW first \in 0 .. (n - 1), NEW last \in (first + 1) .. n,
           last \in Filled(b) \union {n},
           NEW j \in last .. (n - 1), NEW s \in Closings(n), Closing(n, b, first, last, s, j)
    PROVE  /\ MoveUp(s, j) \in Closings(n)
           /\ Closing(n, b, first, last, MoveUp(s, j), j + 1)
<1> DEFINE B == s.buckets
           c == s.closer
           g == Landing(n, b, first, last)
           w == MoveUp(s, j)
<1>1. B \in Buckets(n) /\ c \in 0 .. n /\ s.done \in BOOLEAN
  BY DEF Closings
<1>2. /\ InPlace(B) /\ Distinct(B) /\ Contents(B) \subseteq Contents(b)
      /\ c \in first .. (n - 1) /\ B[c] = Free
      /\ \A x \in 0 .. (first - 1) : B[x] = b[x]
      /\ ~s.done => /\ c < j
                    /\ \A x \in c .. (j - 1) : B[x] = Free
                    /\ \A x \in j .. (n - 1) : B[x] = b[x]
      /\ \A x \in first .. (g - 1) : B[x] = Free
      /\ j = last => ~s.done /\ c = first
      /\ j # last => (g < n => g \in Filled(B) /\ (c > g \/ s.done))
  BY DEF Closing
<1>3. j \in 0 .. (n - 1) /\ j \in Nat /\ last \in 0 .. (n - 1) /\ last \in Filled(b)
  OBVIOUS
<1>4. b[last].dist \in Nat
  BY <1>3, FilledIs, EntryIs
<1>5. g \in first .. last /\ g = last - Gap(b, first, last)
  BY <1>3, <1>4 DEF Landing, Gap
<1>6. j + 1 # last
  OBVIOUS
<1> HIDE DEF g
<1>7. CASE s.done
  <2>1. w = [s EXCEPT !.done = TRUE]
    BY <1>7 DEF MoveUp
  <2>2. w \in Closings(n) /\ w.buckets = B /\ w.closer = c /\ w.done
    BY <1>1, <2>1 DEF Closings
  <2> HIDE DEF w, B, c
  <2>3. g < n => g \in Filled(B)
    BY <1>2, <1>7
  <2>4. Closing(n, b, first, last, w, j + 1)
    BY <1>2, <1>6, <1>7, <2>2, <2>3 DEF Closing, g
  <2> QED  BY <2>2, <2>4 DEF w
<1>8. CASE ~s.done /\ B[j].dist <= 0
  <2>1. w = [s EXCEPT !.done = TRUE]
    BY <1>8 DEF MoveUp
  <2>2. w \in Closings(n) /\ w.buckets = B /\ w.closer = c /\ w.done
    BY <1>1, <2>1 DEF Closings
  <2> HIDE DEF w
  <2>3. g \in Filled(B)
    <3>1. CASE j = last
      <4>1. B[last] = b[last]
        BY <1>2, <1>3, <1>8, <3>1
      <4>2. b[last].dist = 0
        BY <1>4, <1>8, <3>1, <4>1
      <4>3. g = last
        BY <1>3, <1>5, <4>2 DEF Gap
      <4> QED  BY <1>1, <1>3, <4>1, <4>2, <4>3, FilledIs
    <3>2. CASE j # last
      BY <1>2, <1>3, <1>5, <3>2
    <3> QED  BY <3>1, <3>2
  <2> HIDE DEF B, c
  <2>4. Closing(n, b, first, last, w, j + 1)
    BY <1>2, <1>6, <2>2, <2>3 DEF Closing, g
  <2> QED  BY <2>2, <2>4 DEF w
<1>9. CASE ~s.done /\ ~(B[j].dist <= 0)
  <2>1. B[j].dist > 0
    BY <1>1, <1>3, <1>9, FilledIs, SlotIs
  <2>2. PICK by : by = Gap(B, c, j)
    OBVIOUS
  <2>3. PICK C : C = w.buckets
    OBVIOUS
  <2>4. /\ w \in Closings(n) /\ ~w.done /\ w.closer = j - by + 1
        /\ by \in 1 .. j /\ by <= B[j].dist /\ c <= j - by
        /\ j \in Filled(B) /\ Closer(n, B, j, by, C)
    BY <1>2, <1>3, <1>9, <2>1, <2>2, <2>3, MoveUpIs
  <2> HIDE DEF w
  <2>5. PICK t \in 0 .. (n - 1) : t = j - by /\ t < j /\ c <= t
    BY <1>3, <2>4
  <2>6. B[t] = Free /\ B[j] = b[j]
    BY <1>1, <1>2, <1>3, <1>9, <2>5
  <2> HIDE DEF B, c
  <2>7. /\ InPlace(C) /\ Distinct(C) /\ Contents(C) = Contents(B)
        /\ Filled(C) = (Filled(B) \ {j}) \union {t}
    BY <1>1, <1>2, <2>4, <2>5, <2>6, CloserIs
  <2>8. C \in Buckets(n) /\ C[j] = Free /\ \A x \in 0 .. (n - 1) : x # j /\ x # t => C[x] = B[x]
    BY <2>4, <2>5 DEF Closer
  <2>9. PICK d : d = w.closer /\ d = t + 1
    BY <1>3, <2>4, <2>5
  <2>10. d \in first .. (n - 1) /\ d < j + 1 /\ c < d
    BY <1>1, <1>2, <1>3, <2>5, <2>9
  <2>11. \A x \in d .. j : C[x] = Free
    <3>1. SUFFICES ASSUME NEW x \in d .. j, x # j PROVE C[x] = Free
      BY <2>8
    <3>2. x \in c .. (j - 1) /\ x \in 0 .. (n - 1) /\ x # t
      BY <1>1, <1>2, <1>3, <2>5, <2>9, <3>1
    <3> QED  BY <1>2, <1>9, <2>8, <3>1, <3>2
  <2>12. \A x \in (j + 1) .. (n - 1) : C[x] = b[x]
    <3>1. SUFFICES ASSUME NEW x \in (j + 1) .. (n - 1) PROVE C[x] = b[x]
      OBVIOUS
    <3>2. x \in j .. (n - 1) /\ x \in 0 .. (n - 1) /\ x # t /\ x # j
      BY <1>3, <2>5
    <3> QED  BY <1>2, <1>9, <2>8, <3>2
  <2>13. \A x \in 0 .. (first - 1) : C[x] = b[x]
    <3>1. SUFFICES ASSUME NEW x \in 0 .. (first - 1) PROVE C[x] = b[x]
      OBVIOUS
    <3>2. x \in 0 .. (n - 1) /\ x # t /\ x # j
      BY <1>2, <1>3, <2>5
    <3> QED  BY <1>2, <2>8, <3>2
  <2>14. g <= t /\ g \in Filled(C) /\ d > g
    <3>1. CASE j = last
      <4>1. Gap(B, c, j) = Gap(b, first, last)
        BY <1>2, <2>6, <3>1 DEF Gap
      <4>2. g = t
        BY <1>5, <2>2, <2>5, <3>1, <4>1
      <4> QED  BY <2>5, <2>7, <2>9, <4>2
    <3>2. CASE j # last
      <4>1. g \in Filled(B) /\ c > g
        BY <1>2, <1>3, <1>5, <1>9, <3>2
      <4>2. g \in Int /\ c \in Int
        BY <1>1, <1>5
      <4> QED  BY <1>3, <2>5, <2>7, <2>9, <4>1, <4>2
    <3> QED  BY <3>1, <3>2
  <2>15. \A x \in first .. (g - 1) : C[x] = Free
    <3>1. SUFFICES ASSUME NEW x \in first .. (g - 1) PROVE C[x] = Free
      OBVIOUS
    <3>2. x \in 0 .. (n - 1) /\ x # t
      BY <1>3, <1>5, <2>5, <2>14
    <3> QED  BY <1>2, <2>8, <3>2
  <2>16. (j + 1) - 1 = j
    BY <1>3
  <2>17. C[d] = Free
    BY <2>9, <2>11, <2>5, <1>3
  <2>18. Contents(C) \subseteq Contents(b)
    BY <1>2, <2>7
  <2>19. Closing(n, b, first, last, w, j + 1)
    BY <1>6, <2>3, <2>4, <2>7, <2>9, <2>10, <2>11, <2>12, <2>13, <2>14, <2>15, <2>16, <2>17,
       <2>18 DEF Closing, g
  <2> QED  BY <2>4, <2>19 DEF w
<1> QED  BY <1>7, <1>8, <1>9

(* which keeps the order of an array in which no entry runs past the end.  *)
LEMMA OrderlyKeeps ==
    ASSUME NEW n \in Nat \ {0}, NEW b \in Buckets(n), Sorted(b),
           NEW first \in 0 .. (n - 1), NEW last \in (first + 1) .. n,
           NEW j \in last .. (n - 1), NEW s \in Closings(n), Closing(n, b, first, last, s, j),
           OrderlyTo(n, b, s, j)
    PROVE  OrderlyTo(n, b, MoveUp(s, j), j + 1)
<1> DEFINE B == s.buckets
           c == s.closer
           w == MoveUp(s, j)
<1>1. B \in Buckets(n) /\ c \in 0 .. n /\ s.done \in BOOLEAN
  BY DEF Closings
<1>2. /\ InPlace(B) /\ Distinct(B) /\ c \in first .. (n - 1)
      /\ ~s.done => /\ c < j
                    /\ \A x \in c .. (j - 1) : B[x] = Free
                    /\ \A x \in j .. (n - 1) : B[x] = b[x]
  BY DEF Closing
<1>3. j \in 0 .. (n - 1) /\ j \in Nat /\ j >= 1
  OBVIOUS
<1>4. /\ NoneCross(B)
      /\ s.done => Ordered(B)
      /\ ~s.done =>
           /\ \A x \in 1 .. (j - 1) : x \in Filled(B) => B[x].dist <= B[x - 1].dist + 1
           /\ j < n /\ 1 <= c /\ b[j].dist > j - c =>
                b[j].dist - (j - c) <= B[c - 1].dist + 1
  BY DEF OrderlyTo
<1>5. \A x \in 0 .. (n - 1) : b[x].dist \in Int /\ -1 <= b[x].dist
                              /\ B[x].dist \in Int /\ -1 <= B[x].dist
  BY <1>1, FilledIs, SlotIs
<1>6. \A x \in Filled(b) : x # 0 => b[x].dist <= b[x - 1].dist + 1
  <2>1. \A x \in Filled(b) : b[x].dist <= b[Before(n, x)].dist + 1
    BY OrderedIs DEF Sorted
  <2> QED  BY <2>1 DEF Before
<1>7. CASE s.done
  <2>1. w = [s EXCEPT !.done = TRUE]
    BY <1>7 DEF MoveUp
  <2>2. w.buckets = B /\ w.done
    BY <1>1, <2>1 DEF Closings
  <2> HIDE DEF w, B
  <2> QED  BY <1>4, <1>7, <2>2 DEF OrderlyTo, w
<1>8. CASE ~s.done /\ B[j].dist <= 0
  <2>1. w = [s EXCEPT !.done = TRUE]
    BY <1>8 DEF MoveUp
  <2>2. w.buckets = B /\ w.done
    BY <1>1, <2>1 DEF Closings
  <2> HIDE DEF w, B
  <2>3. ASSUME NEW x \in Filled(B)  PROVE B[x].dist <= B[Before(n, x)].dist + 1
    <3>1. x \in 0 .. (n - 1) /\ Before(n, x) \in 0 .. (n - 1)
      BY <1>1, FilledIs DEF Before
    <3>2. CASE x = 0
      BY <1>4, <1>5, <3>1, <3>2 DEF NoneCross
    <3>3. CASE x \in 1 .. (j - 1)
      BY <1>4, <1>8, <3>3 DEF Before
    <3>4. CASE x = j
      BY <1>5, <1>8, <3>1, <3>4
    <3>5. CASE x > j
      <4>1. B[x] = b[x] /\ B[x - 1] = b[x - 1]
        BY <1>2, <1>3, <1>8, <3>1, <3>5
      <4>2. x \in Filled(b) /\ x # 0
        BY <1>1, <1>3, <3>1, <3>5, <4>1, FilledIs
      <4> QED  BY <1>6, <4>1, <4>2 DEF Before
    <3> QED  BY <1>3, <3>1, <3>2, <3>3, <3>4, <3>5
  <2>4. Ordered(B)
    BY <1>1, <2>3, OrderedIs
  <2> QED  BY <1>4, <2>2, <2>4 DEF OrderlyTo, w
<1>9. CASE ~s.done /\ ~(B[j].dist <= 0)
  <2>1. B[j].dist > 0
    BY <1>5, <1>3, <1>9
  <2>2. PICK by : by = Gap(B, c, j)
    OBVIOUS
  <2>3. PICK C : C = w.buckets
    OBVIOUS
  <2>4. /\ w \in Closings(n) /\ ~w.done /\ w.closer = j - by + 1
        /\ by \in 1 .. j /\ by <= B[j].dist /\ c <= j - by
        /\ by = j - c \/ by = B[j].dist
        /\ j \in Filled(B) /\ Closer(n, B, j, by, C)
    BY <1>2, <1>3, <1>9, <2>1, <2>2, <2>3, MoveUpIs
  <2> HIDE DEF w
  <2>5. PICK t \in 0 .. (n - 1) : t = j - by /\ t < j /\ c <= t
    BY <1>3, <2>4
  <2>6. B[t] = Free /\ B[j] = b[j]
    BY <1>1, <1>2, <1>3, <1>9, <2>5
  <2> HIDE DEF B, c
  <2>7. /\ Filled(C) = (Filled(B) \ {j}) \union {t}
        /\ C[t].dist = B[j].dist - by
        /\ NoneCross(C)
    BY <1>1, <1>2, <1>4, <2>4, <2>5, <2>6, CloserIs
  <2>8. C \in Buckets(n) /\ C[j] = Free /\ \A x \in 0 .. (n - 1) : x # j /\ x # t => C[x] = B[x]
    BY <2>4, <2>5 DEF Closer
  <2>9. PICK d : d = w.closer /\ d = t + 1
    BY <1>3, <2>4, <2>5
  <2>10. \A x \in 0 .. (n - 1) : C[x].dist \in Int /\ -1 <= C[x].dist
    BY <2>8, FilledIs, SlotIs
  <2>11. ASSUME NEW x \in 1 .. j, x \in Filled(C)  PROVE C[x].dist <= C[x - 1].dist + 1
    <3>1. x \in 0 .. (n - 1) /\ x - 1 \in 0 .. (n - 1) /\ x # j
      BY <1>3, <2>5, <2>7, <2>11
    <3>2. CASE x = t /\ by = B[j].dist
      BY <1>3, <1>5, <2>7, <2>10, <3>1, <3>2
    <3>3. CASE x = t /\ by # B[j].dist
      <4>1. by = j - c /\ t = c /\ by < B[j].dist
        BY <1>1, <1>3, <1>5, <2>4, <2>5, <3>3
      <4>2. b[j].dist - (j - c) <= B[c - 1].dist + 1
        BY <1>1, <1>3, <1>4, <1>9, <2>6, <3>3, <4>1
      <4>3. C[x - 1] = B[x - 1]
        BY <1>3, <2>5, <2>8, <3>1, <3>3
      <4> QED  BY <2>6, <2>7, <3>3, <4>1, <4>2, <4>3
    <3>4. CASE x # t
      <4>1. x \in Filled(B)
        BY <2>7, <2>11, <3>4
      <4>2. B[x] # Free
        BY <1>1, <3>1, <4>1, FilledIs, FreeIs
      <4>3. x < c
        <5>1. SUFFICES ASSUME x >= c PROVE x \in c .. (j - 1)
          BY <1>1, <1>2, <1>9, <3>1, <4>2
        <5> QED  BY <1>1, <1>3, <3>1, <5>1
      <4>4. x \in 1 .. (j - 1) /\ x - 1 # j /\ x - 1 # t
        BY <1>1, <1>3, <2>5, <3>1, <4>3
      <4>5. B[x].dist <= B[x - 1].dist + 1
        BY <1>4, <1>9, <4>1, <4>4
      <4> QED  BY <2>8, <3>1, <3>4, <4>4, <4>5
    <3> QED  BY <3>2, <3>3, <3>4
  <2>12. ASSUME j + 1 < n, b[j + 1].dist > (j + 1) - d
         PROVE  b[j + 1].dist - ((j + 1) - d) <= C[d - 1].dist + 1
    <3>1. (j + 1) - d = by /\ d - 1 = t
      BY <1>3, <2>4, <2>5, <2>9
    <3>2. j + 1 \in 0 .. (n - 1) /\ j + 1 # 0 /\ (j + 1) - 1 = j
      BY <1>3, <2>12
    <3>3. j + 1 \in Filled(b)
      BY <1>5, <2>4, <2>12, <3>1, <3>2, FilledIs
    <3>4. b[j + 1].dist <= b[j].dist + 1
      BY <1>6, <3>2, <3>3
    <3>5. b[j + 1].dist \in Int /\ b[j].dist \in Int
      BY <1>3, <1>5, <3>2
    <3> QED  BY <2>4, <2>6, <2>7, <3>1, <3>4, <3>5
  <2>13. (j + 1) - 1 = j
    BY <1>3
  <2> QED  BY <2>3, <2>4, <2>7, <2>9, <2>11, <2>12, <2>13 DEF OrderlyTo, w
<1> QED  BY <1>7, <1>8, <1>9
(* The range is emptied.                                                   *)
LEMMA ClearedIs ==
    ASSUME NEW n \in Nat \ {0}, NEW b \in Buckets(n),
           NEW first \in 0 .. (n - 1), NEW last \in (first + 1) .. n
    PROVE  LET B == Cleared(b, first, last) IN
           /\ B \in Buckets(n)
           /\ \A x \in first .. (last - 1) : B[x] = Free
           /\ \A x \in 0 .. (n - 1) : x < first \/ x >= last => B[x] = b[x]
           /\ Filled(B) \subseteq Filled(b) /\ \A x \in Filled(B) : B[x] = b[x]
<1>1. PICK B : B = Cleared(b, first, last)
  OBVIOUS
<1>2. B = [j \in 0 .. (n - 1) |-> IF first <= j /\ j < last THEN Free ELSE b[j]]
  BY <1>1, CountIs DEF Cleared
<1>3. ASSUME NEW j \in 0 .. (n - 1)
      PROVE  B[j] = (IF first <= j /\ j < last THEN Free ELSE b[j]) /\ B[j] \in Slots
  BY <1>2, FreeIs, FilledIs
<1>4. B \in Buckets(n)
  <2>1. B = [j \in 0 .. (n - 1) |-> B[j]]
    BY <1>2
  <2> QED  BY <1>3, <2>1 DEF Buckets
<1>5. \A x \in first .. (last - 1) : B[x] = Free
  BY <1>3
<1>6. \A x \in 0 .. (n - 1) : x < first \/ x >= last => B[x] = b[x]
  BY <1>3
<1>7. ASSUME NEW x \in Filled(B)  PROVE x \in Filled(b) /\ B[x] = b[x]
  <2>1. x \in 0 .. (n - 1) /\ B[x].dist # -1
    BY <1>4, FilledIs
  <2>2. B[x] = b[x]
    BY <1>3, <2>1, FreeIs
  <2> QED  BY <2>1, <2>2, FilledIs
<1> QED  BY <1>1, <1>4, <1>5, <1>6, <1>7

(* The state from which that loop starts.                                  *)
LEMMA ClosingStarts ==
    ASSUME NEW n \in Nat \ {0}, NEW b \in Buckets(n), Sorted(b),
           NEW first \in 0 .. (n - 1), NEW last \in (first + 1) .. n,
           last \in Filled(b) \union {n}, NEW s,
           s = [buckets |-> Cleared(b, first, last), closer |-> first, done |-> FALSE]
    PROVE  /\ s \in Closings(n) /\ Closing(n, b, first, last, s, last)
           /\ NoneCross(b) => OrderlyTo(n, b, s, last)
<1>1. PICK B : B = Cleared(b, first, last)
  OBVIOUS
<1>2. /\ B \in Buckets(n)
      /\ \A x \in first .. (last - 1) : B[x] = Free
      /\ \A x \in 0 .. (n - 1) : x < first \/ x >= last => B[x] = b[x]
      /\ Filled(B) \subseteq Filled(b) /\ \A x \in Filled(B) : B[x] = b[x]
  BY <1>1, ClearedIs
<1>3. s \in Closings(n) /\ s.buckets = B /\ s.closer = first /\ ~s.done
  BY <1>1, <1>2 DEF Closings
<1>4. InPlace(B)
  <2>1. \A x \in Filled(b) : b[x].dist < n /\ Spot(n, b[x]) = x
    BY InPlaceIs DEF Sorted
  <2>2. \A x \in Filled(B) : B[x].dist < n /\ Spot(n, B[x]) = x
    BY <1>2, <2>1
  <2> QED  BY <1>2, <2>2, InPlaceIs
<1>5. Distinct(B)
  BY <1>2 DEF Sorted, Distinct
<1>6. Contents(B) \subseteq Contents(b)
  BY <1>2 DEF Contents
<1>7. \A x \in first .. (Landing(n, b, first, last) - 1) : B[x] = Free
  <2>1. Landing(n, b, first, last) <= last /\ Landing(n, b, first, last) \in Int
    <3>1. CASE last = n
      BY <3>1 DEF Landing
    <3>2. CASE last # n
      <4>1. b[last].dist \in Nat
        BY <3>2, FilledIs, EntryIs
      <4> QED  BY <3>2, <4>1 DEF Landing, Gap
    <3> QED  BY <3>1, <3>2
  <2> QED  BY <1>2, <2>1
<1>8. B[first] = Free
  BY <1>2
<1>9. /\ \A x \in 0 .. (first - 1) : B[x] = b[x]
      /\ \A x \in last .. (n - 1) : B[x] = b[x]
  BY <1>2
<1>10. Closing(n, b, first, last, s, last)
  BY <1>2, <1>3, <1>4, <1>5, <1>6, <1>7, <1>8, <1>9 DEF Closing
<1>11. ASSUME NoneCross(b)  PROVE OrderlyTo(n, b, s, last)
  <2>1. NoneCross(B)
    BY <1>2, <1>11 DEF NoneCross
  <2>2. ASSUME NEW x \in 1 .. (last - 1), x \in Filled(B)
        PROVE  B[x].dist <= B[x - 1].dist + 1
    <3>1. x < first
      <4>1. x \in 0 .. (n - 1) /\ B[x].dist # -1
        BY <1>2, <2>2, FilledIs
      <4> QED  BY <1>2, <4>1, FreeIs
    <3>2. B[x] = b[x] /\ B[x - 1] = b[x - 1] /\ x \in Filled(b)
      BY <1>2, <1>9, <2>2, <3>1
    <3>3. b[x].dist <= b[Before(n, x)].dist + 1
      BY <3>2, OrderedIs DEF Sorted
    <3> QED  BY <3>2, <3>3 DEF Before
  <2>3. ASSUME last < n, 1 <= first, b[last].dist > last - first
        PROVE  b[last].dist - (last - first) <= B[first - 1].dist + 1
    <3>1. PICK d : d = last - first + 1
      OBVIOUS
    <3>2. last \in Filled(b) /\ b[last].dist \in Nat
      BY <2>3, FilledIs, EntryIs
    <3>3. d \in 0 .. n /\ d <= b[last].dist
      BY <2>3, <3>1, <3>2
    <3>4. b[Turn(n, last, n - d)].dist >= b[last].dist - d
      BY <3>2, <3>3, Chain DEF Sorted
    <3>5. Turn(n, last, n - d) = first - 1 /\ first - 1 \in 0 .. (n - 1)
      BY <2>3, <3>1 DEF Turn
    <3>6. b[first - 1].dist \in Int /\ B[first - 1] = b[first - 1]
      BY <1>2, <3>5, FilledIs, SlotIs
    <3> QED  BY <3>1, <3>2, <3>4, <3>5, <3>6
  <2> QED  BY <1>3, <2>1, <2>2, <2>3 DEF OrderlyTo
<1> QED  BY <1>3, <1>10, <1>11

(* What erase(first, last) is called with: the range is not empty, and it  *)
(* ends at an entry or at the end.                                         *)
IsRange(n, b, first, last) ==
    /\ first \in 0 .. (n - 1) /\ last \in (first + 1) .. n
    /\ last \in Filled(b) \union {n}

(* What is left of an array: no key twice, every entry where its distance  *)
(* says, those in front of the range where they were, then free buckets up *)
(* to the first entry from behind it; and all in order if none crossed the *)
(* end.                                                                    *)
LEMMA WithoutRangeKeeps ==
    ASSUME NEW n \in Nat \ {0}, NEW b \in Buckets(n), Sorted(b),
           NEW first, NEW last, IsRange(n, b, first, last)
    PROVE  LET c == WithoutRange(b, first, last)
               g == Landing(n, b, first, last) IN
           /\ c \in Buckets(n) /\ InPlace(c) /\ Distinct(c)
           /\ Contents(c) \subseteq Contents(b)
           /\ \E f \in 0 .. (n - 1) : c[f].dist = -1
           /\ \A x \in 0 .. (first - 1) : c[x] = b[x]
           /\ \A x \in first .. (g - 1) : c[x] = Free
           /\ g \in first .. n /\ g \in Filled(c) \union {n}
           /\ NoneCross(b) => Ordered(c)
<1> DEFINE m == n - last
           States(j) == {s \in Closings(n) :
                           /\ Closing(n, b, first, last, s, last + j)
                           /\ NoneCross(b) => OrderlyTo(n, b, s, last + j)}
           I == [j \in 0 .. m |-> States(j)]
           zero == [buckets |-> Cleared(b, first, last), closer |-> first, done |-> FALSE]
           g == Landing(n, b, first, last)
<1>0. /\ first \in 0 .. (n - 1) /\ last \in (first + 1) .. n
      /\ last \in Filled(b) \union {n}
  BY DEF IsRange
<1>1. m \in Nat /\ m = Count(b) - last
  BY <1>0, CountIs
<1>2. zero \in I[0]
  <2>1. zero \in Closings(n) /\ Closing(n, b, first, last, zero, last)
        /\ (NoneCross(b) => OrderlyTo(n, b, zero, last))
    BY <1>0, ClosingStarts
  <2>2. last + 0 = last
    BY <1>0
  <2> HIDE DEF zero
  <2> QED  BY <1>1, <2>1, <2>2
<1>3. \A j \in 0 .. (m - 1) : \A s \in I[j] : MoveUp(s, last + j) \in I[j + 1]
  <2> SUFFICES ASSUME NEW j \in 0 .. (m - 1), NEW s \in I[j]
               PROVE  MoveUp(s, last + j) \in I[j + 1]
    BY <1>0
  <2>1. PICK y \in last .. (n - 1) : y = last + j /\ last + (j + 1) = y + 1
    BY <1>0
  <2>2. /\ s \in Closings(n) /\ Closing(n, b, first, last, s, y)
        /\ NoneCross(b) => OrderlyTo(n, b, s, y)
    BY <1>1, <2>1
  <2>3. PICK w : w = MoveUp(s, y)
    BY <1>0
  <2>4. w \in Closings(n) /\ Closing(n, b, first, last, w, y + 1)
    BY <1>0, <2>2, <2>3, ClosingKeeps
  <2>5. NoneCross(b) => OrderlyTo(n, b, w, y + 1)
    BY <1>0, <2>2, <2>3, OrderlyKeeps
  <2> QED  BY <1>1, <2>1, <2>3, <2>4, <2>5
<1>4. I \in [0 .. m -> SUBSET Closings(n)]
  OBVIOUS
<1>5. PICK s \in I[m] : WithoutRange(b, first, last) = s.buckets
  <2>0. [buckets |-> Cleared(b, first, last), closer |-> first, done |-> FALSE] \in I[0]
    BY <1>2
  <2>1. m \in Nat
    BY <1>1
  <2> HIDE DEF I, zero
  <2>3. I \in [0 .. m -> SUBSET Closings(n)]
    BY <1>4
  <2>2. MovesUp(I, Closings(n), b, first, last, m)
    BY <1>1, <1>3, <2>0, <2>3 DEF MovesUp
  <2> HIDE DEF m
  <2>4. \E s \in I[m] : WithoutRange(b, first, last) = s.buckets
    BY <2>2, WithoutRangeEnds
  <2> QED  BY <2>4
<1>6. /\ s \in Closings(n) /\ Closing(n, b, first, last, s, n)
      /\ NoneCross(b) => OrderlyTo(n, b, s, n)
  <2>1. last + m = n
    BY <1>0
  <2> QED  BY <1>0, <1>1, <1>5, <2>1
<1> HIDE DEF I, m
<1>7. PICK c : c = s.buckets
  OBVIOUS
<1>8. /\ c \in Buckets(n) /\ InPlace(c) /\ Distinct(c) /\ Contents(c) \subseteq Contents(b)
      /\ s.closer \in first .. (n - 1) /\ c[s.closer] = Free
      /\ \A x \in 0 .. (first - 1) : c[x] = b[x]
      /\ \A x \in first .. (g - 1) : c[x] = Free
      /\ n # last => (g < n => g \in Filled(c))
  BY <1>0, <1>6, <1>7 DEF Closing, Closings
<1>9. g \in first .. n /\ (last = n => g = n)
  <2>1. CASE last = n
    BY <1>0, <2>1 DEF Landing
  <2>2. CASE last # n
    <3>1. b[last].dist \in Nat
      BY <1>0, <2>2, FilledIs, EntryIs
    <3> QED  BY <1>0, <2>2, <3>1 DEF Landing, Gap
  <2> QED  BY <2>1, <2>2
<1> HIDE DEF g
<1>10. \E f \in 0 .. (n - 1) : c[f].dist = -1
  <2>1. s.closer \in 0 .. (n - 1)
    BY <1>0, <1>8
  <2> QED  BY <1>8, <2>1, FreeIs
<1>11. ASSUME NoneCross(b)  PROVE Ordered(c)
  <2>1. CASE s.done
    BY <1>6, <1>7, <1>11, <2>1 DEF OrderlyTo
  <2>2. CASE ~s.done
    <3>1. /\ NoneCross(c)
          /\ \A x \in 1 .. (n - 1) : x \in Filled(c) => c[x].dist <= c[x - 1].dist + 1
      BY <1>6, <1>7, <1>11, <2>2 DEF OrderlyTo
    <3>2. ASSUME NEW x \in Filled(c)  PROVE c[x].dist <= c[Before(n, x)].dist + 1
      <4>1. x \in 0 .. (n - 1)
        BY <1>8, FilledIs
      <4>2. CASE x = 0
        <5>1. c[x].dist <= 0 /\ Before(n, x) \in 0 .. (n - 1)
          BY <3>1, <4>1, <4>2 DEF NoneCross, Before
        <5>2. -1 <= c[Before(n, x)].dist /\ c[Before(n, x)].dist \in Int /\ c[x].dist \in Int
          BY <1>8, <4>1, <5>1, FilledIs, SlotIs
        <5> QED  BY <5>1, <5>2
      <4>3. CASE x # 0
        BY <3>1, <4>1, <4>3 DEF Before
      <4> QED  BY <4>2, <4>3
    <3> QED  BY <1>8, <3>2, OrderedIs
  <2> QED  BY <2>1, <2>2
<1>12. g \in Filled(c) \union {n}
  BY <1>0, <1>8, <1>9
<1> QED  BY <1>5, <1>7, <1>8, <1>9, <1>10, <1>11, <1>12 DEF g

(* An array in which every search succeeds is in order.                    *)
LEMMA FoundOrdered ==
    ASSUME NEW n \in Nat \ {0}, NEW b \in Buckets(n), InPlace(b), Distinct(b), ~Torn(b),
           NEW f \in 0 .. (n - 1), b[f].dist = -1
    PROVE  Ordered(b)
<1> SUFFICES ASSUME NEW i \in Filled(b)  PROVE b[i].dist <= b[Before(n, i)].dist + 1
  BY OrderedIs
<1> DEFINE k == b[i].key
           h == Home(n, k)
           d == b[i].dist
<1>1. i \in 0 .. (n - 1) /\ k \in Keys /\ d \in Nat /\ d < n /\ Turn(n, h, d) = i
  <2>1. i \in 0 .. (n - 1) /\ b[i] \in Entries
    BY FilledIs
  <2>2. d < n /\ Spot(n, b[i]) = i
    BY InPlaceIs
  <2> QED  BY <2>1, <2>2, EntryIs DEF Spot
<1>2. h \in 0 .. (n - 1)
  BY <1>1, HomeIs
<1>3. Place(b, k) = i
  <2>1. Holds(b, k)
    BY DEF Torn, KeysIn
  <2> HIDE DEF k
  <2>2. Place(b, k) \in Filled(b) /\ b[Place(b, k)].key = k
    BY <1>1, <2>1, HoldsIs
  <2> QED  BY <2>2 DEF Distinct, k
<1> HIDE DEF k, d
<1>4. PICK p : p = Probe(b, k)
  OBVIOUS
<1>5. /\ p \in 0 .. (n - 1) /\ Turn(n, h, p) = i
      /\ \A c \in 0 .. (p - 1) : ~StopsAt(n, b, k, c)
  BY <1>1, <1>3, <1>4, ProbeStops
<1>6. p = d
  BY <1>1, <1>2, <1>5 DEF Turn
<1>7. Before(n, i) \in 0 .. (n - 1) /\ b[Before(n, i)].dist \in Int /\ -1 <= b[Before(n, i)].dist
  <2>1. Before(n, i) \in 0 .. (n - 1)
    BY <1>1 DEF Before
  <2> QED  BY <2>1, FilledIs, SlotIs
<1>8. CASE d = 0
  BY <1>7, <1>8 DEF d
<1>9. CASE d # 0
  <2>1. d - 1 \in 0 .. (d - 1) /\ d - 1 \in 0 .. (n - 1) /\ (d - 1) + 1 = d
    BY <1>1, <1>9
  <2>2. Before(n, Turn(n, h, (d - 1) + 1)) = Turn(n, h, d - 1)
    BY <1>2, <2>1, OneOn
  <2>3. Before(n, i) = Turn(n, h, d - 1)
    BY <1>1, <2>1, <2>2
  <2>4. ~(d - 1 > b[Before(n, i)].dist)
    BY <1>5, <1>6, <2>1, <2>3 DEF StopsAt
  <2> QED  BY <1>1, <1>7, <2>4 DEF d
<1> QED  BY <1>8, <1>9

-----------------------------------------------------------------------------
(* The invariant, action by action.                                        *)

(* What is known of every table, and of one without damage.                *)
LEMMA WholeTable ==
    ASSUME NEW t, Whole(t)
    PROVE  /\ t \in Objects /\ Count(t.buckets) \in Nat
           /\ t.buckets \in Buckets(Count(t.buckets)) /\ IsFiniteSet(Filled(t.buckets))
           /\ \A k \in Keys : Holds(t.buckets, k) =>
                /\ Place(t.buckets, k) \in Filled(t.buckets)
                /\ t.buckets[Place(t.buckets, k)].key = k
<1> DEFINE b == t.buckets
           n == Count(b)
<1>1. /\ t \in Objects /\ n \in Nat /\ b \in Buckets(n)
  BY ObjectIs DEF Whole
<1>2. n # 0 => t.nbElements = Cardinality(Filled(b)) /\ t.nbElements < n
  BY WholeIs
<1> HIDE DEF n, b
<1>3. IsFiniteSet(Filled(b))
  BY <1>1, FilledIs
<1>4. ASSUME NEW k \in Keys, Holds(b, k)
      PROVE  Place(b, k) \in Filled(b) /\ b[Place(b, k)].key = k
  <2>1. n # 0
    BY <1>1, <1>4, NotEmptyTuple DEF Holds
  <2>2. PICK f \in 0 .. (n - 1) : b[f].dist = -1
    BY <1>1, <1>2, <2>1, SomeFree
  <2> QED  BY <1>1, <1>4, <2>1, <2>2, HoldsIs
<1> QED  BY <1>1, <1>3, <1>4 DEF n, b

(* The same of a table in order.                                           *)
LEMMA SoundTable ==
    ASSUME NEW t, Sound(t)
    PROVE  /\ t \in Objects /\ Count(t.buckets) \in Nat
           /\ t.buckets \in Buckets(Count(t.buckets)) /\ IsFiniteSet(Filled(t.buckets))
           /\ \A k \in Keys : Holds(t.buckets, k) =>
                /\ Place(t.buckets, k) \in Filled(t.buckets)
                /\ t.buckets[Place(t.buckets, k)].key = k
BY WholeTable DEF Sound

(* The first bucket in use from i on.                                      *)
LEMMA FromIs ==
    ASSUME NEW n \in Nat, NEW b \in Buckets(n), NEW i \in Nat
    PROVE  /\ From(b, i) \in Filled(b) \union {n}
           /\ From(b, i) \in Nat
           /\ i <= n => i <= From(b, i)
           /\ \A j \in Filled(b) : i <= j => From(b, i) <= j
<1> DEFINE T == {j \in Filled(b) : j >= i} \union {n}
<1>1. Filled(b) \subseteq 0 .. (n - 1)
  BY FilledIs
<1>2. T \in SUBSET Nat /\ T # {}
  BY <1>1
<1>3. From(b, i) = Min(T)
  BY CountIs DEF From
<1>4. Min(T) \in T /\ \A m \in T : Min(T) <= m
  <2> HIDE DEF T
  <2> QED  BY <1>2, MinIsLeast
<1> QED  BY <1>1, <1>2, <1>3, <1>4

(* An iterator on an array, of a caller that has seen the entries up to it.*)
CursorAt(b, c, seen) ==
    /\ c \in Filled(b) \union {Count(b)}
    /\ \A i \in Filled(b) : i <= c => b[i].key \in seen

(* An iterator on the first entry its caller has not seen.                 *)
LEMMA CursorStands ==
    ASSUME NEW n \in Nat, NEW b \in Buckets(n), NEW c \in Filled(b) \union {n}, NEW seen,
           \A i \in Filled(b) : i < c => b[i].key \in seen
    PROVE  /\ CursorAt(b, c, seen \union StandsOn(b, c))
           /\ StandsOn(b, c) \subseteq Keys /\ KeysIn(b) \subseteq Keys
<1>1. Count(b) = n /\ Filled(b) \subseteq 0 .. (n - 1)
  BY CountIs, FilledIs
<1>2. \A i \in Filled(b) : b[i].key \in Keys
  BY FilledIs, EntryIs
<1>3. ASSUME NEW i \in Filled(b), i <= c  PROVE b[i].key \in seen \union StandsOn(b, c)
  <2>1. CASE i < c
    BY <2>1
  <2>2. CASE i = c
    BY <2>2 DEF StandsOn
  <2> QED  BY <1>1, <1>3, <2>1, <2>2
<1> QED  BY <1>1, <1>2, <1>3 DEF CursorAt, StandsOn, KeysIn

(* The parts of the invariant.                                             *)
LEMMA InvariantIs ==
    /\ RobinMapInvariant =>
         /\ Whole(table) /\ visited \subseteq Keys /\ damaged \in BOOLEAN
         /\ ~damaged => Sound(table)
         /\ cursor # NoCursor => ~damaged /\ CursorAt(table.buckets, cursor, visited)
    /\ Whole(table) /\ visited \subseteq Keys /\ damaged \in BOOLEAN
       /\ (~damaged => Sound(table)) /\ (damaged => cursor = NoCursor)
       /\ (cursor # NoCursor => CursorAt(table.buckets, cursor, visited))
       => RobinMapInvariant
<1>1. CursorOK <=> (cursor # NoCursor => CursorAt(table.buckets, cursor, visited))
  BY DEF CursorOK, CursorAt
<1> QED  BY <1>1 DEF RobinMapInvariant, Sound

(* Steps that leave the caller without an iterator, or where it was.       *)
LEMMA WithoutCursor ==
    ASSUME Sound(table'), ~damaged', damaged' \in BOOLEAN, DropCursor
    PROVE  RobinMapInvariant'
BY DEF DropCursor, Sound, RobinMapInvariant, CursorOK

(* Steps that leave it where it was.                                       *)
LEMMA CursorStays ==
    ASSUME RobinMapInvariant, ~damaged, Sound(table'), UNCHANGED <<cursor, visited, damaged>>,
           Filled(table'.buckets) = Filled(table.buckets),
           Count(table'.buckets) = Count(table.buckets),
           \A i \in Filled(table.buckets) : table'.buckets[i].key = table.buckets[i].key
    PROVE  RobinMapInvariant'
BY DEF Sound, RobinMapInvariant, CursorOK

(* A table without buckets.                                                *)
LEMMA TableWithout ==
    ASSUME NEW minLoad \in MinLoads, NEW maxLoad \in MaxLoads
    PROVE  LET u == NewTable(0, minLoad, maxLoad) IN
           Sound(u) /\ Contents(u.buckets) = {} /\ u.minLoad = minLoad /\ u.maxLoad = maxLoad
<1>1. PICK u : u = NewTable(0, minLoad, maxLoad)
  OBVIOUS
<1>2. MaxBuckets \in Nat /\ 0 \in 0 .. MaxBuckets
  <2>1. MaxBuckets \in Nat
    BY TableAssumption, SizesAssumption
  <2> QED  BY <2>1
<1>3. PowerOfTwo(0) = 0
  BY DEF PowerOfTwo
<1>4. /\ u \in Objects /\ u.buckets \in Buckets(0) /\ u.nbElements = 0
      /\ u.loadThreshold = Threshold(0, maxLoad)
      /\ u.minLoad = minLoad /\ u.maxLoad = maxLoad
  BY <1>1, <1>2, <1>3, NewTableIs
<1>5. u.loadThreshold = 0
  BY <1>4, TableAssumption DEF Threshold
<1>6. /\ Cardinality(Filled(u.buckets)) = 0 /\ Contents(u.buckets) = {} /\ Sorted(u.buckets)
  BY <1>4, EmptyIs
<1>7. Roomy(u)
  BY <1>2, <1>4, <1>5, <1>6, CountIs DEF Roomy
<1> QED  BY <1>1, <1>4, <1>6, <1>7, SoundIs

(* The initial table.                                                      *)
LEMMA InitKeeps ==
    ASSUME TableInit
    PROVE  RobinMapInvariant /\ Sound(table) /\ Contents(table.buckets) = {}
<1>1. PICK l \in MinLoads, m \in MaxLoads : table = NewTable(0, l, m)
  BY DEF TableInit
<1>2. Sound(table) /\ Contents(table.buckets) = {}
  BY <1>1, TableWithout
<1> QED  BY <1>2 DEF TableInit, Sound, RobinMapInvariant, CursorOK

(* What each action makes of the table.                                    *)
LEMMA InsertKeeps ==
    ASSUME RobinMapInvariant, NEW k \in Keys, NEW v \in Values, Insert(k, v)
    PROVE  Sound(table) /\ Fuller(table, table') /\ RobinMapInvariant'
<1>1. PICK t, s : t = table /\ s = Put(t, k, v)
  OBVIOUS
<1>2. Sound(t) /\ ~Holds(t.buckets, k)
  BY <1>1, InvariantIs DEF Insert
<1>3. Fuller(t, s.table)
  BY <1>1, <1>2, HoldsSound, PutKeeps
<1>4. table' = s.table
  BY <1>1 DEF Insert
<1>5. Sound(table')
  BY <1>3, <1>4 DEF Fuller
<1> QED  BY <1>1, <1>2, <1>3, <1>4, <1>5, WithoutCursor, InvariantIs DEF Insert

(* insert_or_assign of a key that is there.                                *)
LEMMA AssignKeeps ==
    ASSUME RobinMapInvariant, NEW k \in Keys, NEW v \in Values, Assign(k, v)
    PROVE  /\ Sound(table) /\ Sound(table') /\ RobinMapInvariant'
           /\ \E i \in Filled(table.buckets) :
                /\ Filled(table'.buckets) = Filled(table.buckets)
                /\ \A p \in Filled(table.buckets) :
                     /\ table'.buckets[p].key = table.buckets[p].key
                     /\ p # i => table'.buckets[p].value = table.buckets[p].value
                /\ table'.buckets[i].value = v
<1>1. PICK t, i : t = table /\ i = Place(t.buckets, k)
  OBVIOUS
<1>2. Sound(t) /\ Holds(t.buckets, k)
  BY <1>1, InvariantIs DEF Assign
<1>3. i \in Filled(t.buckets)
  BY <1>1, <1>2, SoundTable
<1>4. PICK u : u = Assigned(t, i, v)
  OBVIOUS
<1>5. table' = u
  BY <1>1, <1>4 DEF Assign, Assigned
<1>6. /\ Sound(u) /\ Count(u.buckets) = Count(t.buckets)
      /\ Filled(u.buckets) = Filled(t.buckets)
      /\ \A p \in Filled(t.buckets) :
           /\ u.buckets[p].key = t.buckets[p].key
           /\ p # i => u.buckets[p].value = t.buckets[p].value
      /\ u.buckets[i].value = v
  BY <1>2, <1>3, <1>4, AssignedKeeps
<1>7. RobinMapInvariant'
  BY <1>1, <1>5, <1>6, CursorStays DEF Assign
<1> QED  BY <1>1, <1>2, <1>3, <1>5, <1>6, <1>7

(* insert(first, last).                                                    *)
LEMMA InsertAllKeeps ==
    ASSUME RobinMapInvariant, NEW ks \in Ranges, NEW v \in Values, InsertAll(ks, v)
    PROVE  Sound(table) /\ Fuller(table, table') /\ RobinMapInvariant'
<1> DEFINE few == table.loadThreshold >= table.nbElements
                  /\ table.loadThreshold - table.nbElements < Len(ks)
           roomy == IF few THEN ReserveFor(table, table.nbElements + Len(ks)) ELSE table
<1>1. /\ few => CanReserve(table, table.nbElements + Len(ks))
      /\ table' = PutAll(roomy, ks, v).table /\ DropCursor
      /\ ~damaged /\ damaged' = damaged
  BY DEF InsertAll
<1>2. Sound(table) /\ Whole(table) /\ damaged \in BOOLEAN
  BY <1>1, InvariantIs
<1>3. ks \in Seq(Keys) /\ Len(ks) \in Nat
  BY TableAssumption
<1>4. PICK more : more = table.nbElements + Len(ks)
  OBVIOUS
<1>5. more \in Nat
  BY <1>2, <1>3, <1>4, SoundTable, ObjectIs
<1>6. PICK r : r = roomy
  OBVIOUS
<1>7. Sound(r) /\ Contents(r.buckets) = Contents(table.buckets)
      /\ r.minLoad = table.minLoad /\ r.maxLoad = table.maxLoad
  <2>1. CASE few
    <3>1. CanReserve(table, more) /\ r = ReserveFor(table, more)
      BY <1>1, <1>4, <1>6, <2>1
    <3>2. Keeps(table, r)
      BY <1>2, <1>5, <3>1, ReserveForKeeps
    <3> QED  BY <3>2 DEF Keeps
  <2>2. CASE ~few
    BY <1>2, <1>6, <2>2
  <2> QED  BY <2>1, <2>2
<1>8. table' = PutAll(r, ks, v).table
  BY <1>1, <1>6
<1> HIDE DEF roomy, few
<1>9. PICK u : u = PutAll(r, ks, v).table
  OBVIOUS
<1>10. Fuller(r, u)
  BY <1>3, <1>7, <1>9, PutAllKeeps
<1>11. Fuller(table, u)
  BY <1>7, <1>10 DEF Fuller
<1>12. RobinMapInvariant'
  BY <1>1, <1>2, <1>8, <1>9, <1>11, WithoutCursor DEF Fuller
<1> QED  BY <1>2, <1>8, <1>9, <1>11, <1>12

(* erase(key).                                                             *)
LEMMA EraseKeeps ==
    ASSUME RobinMapInvariant, NEW k \in Keys, Erase(k)
    PROVE  /\ Sound(table) /\ Sound(table') /\ RobinMapInvariant'
           /\ \E i \in Filled(table.buckets) :
                Contents(table'.buckets)
                  = Contents(table.buckets) \ {KV(table.buckets[i])}
<1>1. PICK t, i : t = table /\ i = Place(t.buckets, k)
  OBVIOUS
<1>2. Sound(t) /\ Holds(t.buckets, k)
  BY <1>1, InvariantIs DEF Erase
<1>3. i \in Filled(t.buckets)
  BY <1>1, <1>2, SoundTable
<1>4. PICK u : u = Erased(t, i)
  OBVIOUS
<1>5. table' = u
  BY <1>1, <1>4 DEF Erase
<1>6. Sound(u) /\ Contents(u.buckets) = Contents(t.buckets) \ {KV(t.buckets[i])}
  BY <1>2, <1>3, <1>4, ErasedKeeps
<1>7. RobinMapInvariant'
  BY <1>5, <1>6, WithoutCursor, InvariantIs DEF Erase
<1> QED  BY <1>1, <1>2, <1>3, <1>5, <1>6, <1>7

(* begin().                                                                *)
LEMMA BeginKeeps ==
    ASSUME RobinMapInvariant, Begin
    PROVE  RobinMapInvariant'
<1>1. PICK b, n : b = table.buckets /\ n = Count(b)
  OBVIOUS
<1>2. PICK c : c = From(b, 0)
  OBVIOUS
<1>3. /\ Whole(table) /\ Sound(table) /\ damaged \in BOOLEAN /\ ~damaged
  BY InvariantIs DEF Begin
<1>4. n \in Nat /\ b \in Buckets(n)
  BY <1>1, <1>3, SoundTable
<1>5. c \in Filled(b) \union {n} /\ \A i \in Filled(b) : 0 <= i => c <= i
  BY <1>2, <1>4, FromIs
<1>6. Filled(b) \subseteq 0 .. (n - 1)
  BY <1>4, FilledIs
<1>7. \A i \in Filled(b) : i < c => b[i].key \in {}
  BY <1>4, <1>5, <1>6
<1>8. CursorAt(b, c, {} \union StandsOn(b, c)) /\ StandsOn(b, c) \subseteq Keys
  BY <1>4, <1>5, <1>7, CursorStands
<1>9. table' = table /\ damaged' = damaged /\ cursor' = c /\ visited' = {} \union StandsOn(b, c)
  BY <1>1, <1>2 DEF Begin
<1> QED  BY <1>1, <1>3, <1>8, <1>9, InvariantIs DEF CursorAt, RobinMapInvariant, CursorOK, Sound

(* Where the iterator is put when the entries in front of that have been   *)
(* seen.                                                                   *)
LEMMA CursorPut ==
    ASSUME NEW n \in Nat, NEW b \in Buckets(n), NEW c \in Filled(b) \union {n},
           \A i \in Filled(b) : i < c => b[i].key \in visited,
           table'.buckets = b, Sound(table'), ~damaged', damaged' \in BOOLEAN,
           PutCursor(b, c)
    PROVE  RobinMapInvariant'
<1> DEFINE seen == visited \intersect KeysIn(b)
<1>1. \A i \in Filled(b) : i < c => b[i].key \in seen
  BY DEF KeysIn
<1>2. cursor' = c /\ visited' = seen \union StandsOn(b, c)
  BY DEF PutCursor
<1>3. KeysIn(b) \subseteq Keys
  BY ContentsIs
<1>4. seen \subseteq Keys
  BY <1>3
<1> HIDE DEF seen
<1>5. CursorAt(b, c, seen \union StandsOn(b, c)) /\ StandsOn(b, c) \subseteq Keys
  BY <1>1, CursorStands
<1>6. CursorAt(b, cursor', visited') /\ visited' \subseteq Keys
  BY <1>2, <1>4, <1>5
<1> QED  BY <1>6 DEF CursorAt, RobinMapInvariant, CursorOK, Sound

(* An iterator that is not at the end stands on an entry of a table in     *)
(* order.                                                                  *)
LEMMA OnEntry ==
    ASSUME RobinMapInvariant, cursor \in DOMAIN table.buckets
    PROVE  /\ Sound(table) /\ ~damaged /\ cursor \in Filled(table.buckets)
           /\ cursor \in 0 .. (Count(table.buckets) - 1)
           /\ \A i \in Filled(table.buckets) : i <= cursor => table.buckets[i].key \in visited
<1>1. PICK b, n : b = table.buckets /\ n = Count(b)
  OBVIOUS
<1>2. n \in Nat /\ b \in Buckets(n)
  BY <1>1, ObjectIs DEF RobinMapInvariant, Whole
<1>3. cursor \in 0 .. (n - 1)
  BY <1>1, <1>2, CountIs
<1>4. cursor # NoCursor
  BY <1>2, <1>3 DEF NoCursor
<1>5. ~damaged /\ Sound(table) /\ CursorAt(b, cursor, visited)
  BY <1>1, <1>4, InvariantIs
<1>6. cursor \in Filled(b)
  BY <1>1, <1>2, <1>3, <1>5 DEF CursorAt
<1> QED  BY <1>1, <1>3, <1>5, <1>6 DEF CursorAt

(* operator++.                                                             *)
LEMMA AdvanceKeeps ==
    ASSUME RobinMapInvariant, Advance
    PROVE  RobinMapInvariant'
<1>1. PICK b, n : b = table.buckets /\ n = Count(b)
  OBVIOUS
<1>2. /\ Sound(table) /\ ~damaged /\ cursor \in Filled(b) /\ cursor \in 0 .. (n - 1)
      /\ \A i \in Filled(b) : i <= cursor => b[i].key \in visited
  BY <1>1, OnEntry DEF Advance
<1>3. n \in Nat /\ b \in Buckets(n)
  BY <1>1, <1>2, SoundTable
<1>4. PICK x, c : x = cursor + 1 /\ c = From(b, x)
  OBVIOUS
<1>5. x \in Nat
  BY <1>2, <1>3, <1>4
<1>6. c \in Filled(b) \union {n} /\ \A i \in Filled(b) : x <= i => c <= i
  BY <1>3, <1>4, <1>5, FromIs
<1>7. Filled(b) \subseteq 0 .. (n - 1)
  BY <1>3, FilledIs
<1>8. \A i \in Filled(b) : i < c => b[i].key \in visited
  BY <1>2, <1>3, <1>4, <1>6, <1>7
<1>9. table' = table /\ damaged' = damaged /\ PutCursor(b, c)
  BY <1>1, <1>4 DEF Advance
<1>10. damaged \in BOOLEAN
  BY InvariantIs
<1> QED  BY <1>1, <1>2, <1>3, <1>6, <1>8, <1>9, <1>10, CursorPut

(* erase(pos).                                                             *)
LEMMA EraseAtKeeps ==
    ASSUME RobinMapInvariant, EraseAt
    PROVE  /\ Sound(table) /\ Sound(table') /\ RobinMapInvariant'
           /\ \E i \in Filled(table.buckets) :
                Contents(table'.buckets)
                  = Contents(table.buckets) \ {KV(table.buckets[i])}
<1>1. PICK t, n, y : t = table /\ n = Count(t.buckets) /\ y = cursor
  OBVIOUS
<1>2. /\ Sound(t) /\ ~damaged /\ y \in Filled(t.buckets) /\ y \in 0 .. (n - 1)
      /\ \A i \in Filled(t.buckets) : i <= y => t.buckets[i].key \in visited
  BY <1>1, OnEntry DEF EraseAt
<1>3. n \in Nat /\ t.buckets \in Buckets(n)
  BY <1>1, <1>2, SoundTable
<1>4. PICK u : u = Erased(t, y)
  OBVIOUS
<1>5. /\ Sound(u) /\ Contents(u.buckets) = Contents(t.buckets) \ {KV(t.buckets[y])}
      /\ Count(u.buckets) = n
      /\ \A p \in Filled(u.buckets) :
           p < y => \E q \in Filled(t.buckets) :
                       q <= y /\ t.buckets[q].key = u.buckets[p].key
  BY <1>1, <1>2, <1>4, ErasedKeeps
<1>6. PICK b : b = u.buckets
  OBVIOUS
<1>7. b \in Buckets(n)
  BY <1>5, <1>6, SoundTable
<1>8. PICK c : c = From(b, y)
  OBVIOUS
<1>9. y \in Nat
  BY <1>2, <1>3
<1>10. c \in Filled(b) \union {n} /\ \A i \in Filled(b) : y <= i => c <= i
  BY <1>3, <1>7, <1>8, <1>9, FromIs
<1>11. Filled(b) \subseteq 0 .. (n - 1)
  BY <1>3, <1>7, FilledIs
<1>12. ASSUME NEW i \in Filled(b), i < c  PROVE b[i].key \in visited
  <2>1. i < y
    BY <1>3, <1>9, <1>10, <1>11, <1>12
  <2>2. PICK q \in Filled(t.buckets) : q <= y /\ t.buckets[q].key = b[i].key
    BY <1>5, <1>6, <1>12, <2>1
  <2> QED  BY <1>2, <2>2
<1>13. table' = u
  BY <1>1, <1>4 DEF EraseAt
<1>14. damaged' = damaged /\ PutCursor(b, c)
  BY <1>1, <1>6, <1>8, <1>13 DEF EraseAt
<1>15. damaged \in BOOLEAN
  BY InvariantIs
<1>16. RobinMapInvariant'
  BY <1>2, <1>3, <1>5, <1>6, <1>7, <1>10, <1>12, <1>13, <1>14, <1>15, CursorPut
<1> QED  BY <1>1, <1>2, <1>5, <1>13, <1>16

(* An erased range leaves a whole table, damaged or in order.              *)
LEMMA EraseRangeKeeps ==
    ASSUME RobinMapInvariant, NEW last \in 0 .. MaxBuckets, EraseRange(last)
    PROVE  /\ Sound(table) /\ Whole(table') /\ RobinMapInvariant' /\ ~damaged
           /\ Contents(table'.buckets) \subseteq Contents(table.buckets)
           /\ NoneCross(table.buckets) => ~damaged'
<1>1. PICK t, b, n, y : t = table /\ b = t.buckets /\ n = Count(b) /\ y = cursor
  OBVIOUS
<1>2. PICK e \in 0 .. MaxBuckets : e = last
  OBVIOUS
<1>3. /\ Sound(t) /\ ~damaged /\ y \in Filled(b) /\ y \in 0 .. (n - 1)
      /\ \A i \in Filled(b) : i <= y => b[i].key \in visited
  BY <1>1, OnEntry DEF EraseRange
<1>4. /\ n \in Nat /\ n # 0 /\ b \in Buckets(n) /\ t \in Objects
      /\ n \in {0} \union Sizes
  BY <1>1, <1>3, SoundTable, ObjectIs
<1>5. Sorted(b) /\ n <= MaxBuckets /\ t.loadThreshold \in Nat /\ t.loadThreshold < n
  <2>1. Whole(t)
    BY <1>3 DEF Sound
  <2>2. Sorted(b)
    BY <1>1, <1>3, <1>4, SoundIs
  <2>3. n <= MaxBuckets /\ t.loadThreshold < n
    BY <1>1, <1>4, <2>1, WholeIs
  <2> QED  BY <1>4, <2>2, <2>3, ObjectIs
<1>6. IsRange(n, b, y, e)
  <2>1. e > y /\ e \in Filled(b) \union {n}
    BY <1>1, <1>2 DEF EraseRange
  <2>2. Filled(b) \subseteq 0 .. (n - 1)
    BY <1>4, FilledIs
  <2> QED  BY <1>3, <1>4, <2>1, <2>2 DEF IsRange
<1>7. PICK c, g : c = WithoutRange(b, y, e) /\ g = Landing(n, b, y, e)
  OBVIOUS
<1>8. /\ c \in Buckets(n) /\ InPlace(c) /\ Distinct(c)
      /\ Contents(c) \subseteq Contents(b)
      /\ \E f \in 0 .. (n - 1) : c[f].dist = -1
      /\ \A x \in 0 .. (y - 1) : c[x] = b[x]
      /\ \A x \in y .. (g - 1) : c[x] = Free
      /\ g \in y .. n /\ g \in Filled(c) \union {n}
      /\ NoneCross(b) => Ordered(c)
  BY <1>4, <1>5, <1>6, <1>7, WithoutRangeKeeps
<1>9. PICK f \in 0 .. (n - 1) : c[f].dist = -1
  BY <1>8
<1>10. PICK a : a = Cardinality(Filled(c))
  OBVIOUS
<1>11. a \in Nat /\ a < n /\ Count(c) = n
  BY <1>4, <1>8, <1>9, <1>10, NotAllFilled, CountIs
<1>12. PICK u : u = table'
  OBVIOUS
<1>13. u = [t EXCEPT !.buckets = c, !.nbElements = a, !.tryShrinkOnNextInsert = TRUE]
  BY <1>1, <1>2, <1>7, <1>10, <1>12 DEF EraseRange
<1>14. c \in UNION {Buckets(x) : x \in {0} \union Sizes}
  BY <1>4, <1>8
<1>15. /\ u \in Objects /\ u.buckets = c /\ u.nbElements = a
       /\ u.loadThreshold = t.loadThreshold
  BY <1>4, <1>11, <1>13, <1>14 DEF Objects
<1>16. Roomy(u)
  BY <1>4, <1>5, <1>10, <1>11, <1>15 DEF Roomy
<1>17. Whole(u)
  BY <1>8, <1>15, <1>16 DEF Whole
<1>18. damaged' = Torn(c)
  BY <1>1, <1>2, <1>7 DEF EraseRange
<1>19. damaged' \in BOOLEAN
  BY <1>18 DEF Torn
<1>20. ~damaged' => Sound(u)
  BY <1>4, <1>8, <1>9, <1>15, <1>17, <1>18, FoundOrdered DEF Sound
<1>21. NoneCross(b) => ~damaged'
  <2>1. KeysIn(c) \subseteq Keys
    BY <1>4, <1>8, ContentsIs
  <2>2. Ordered(c) => \A k \in KeysIn(c) : Holds(c, k)
    BY <1>4, <1>8, <1>9, <2>1, HoldsKeys
  <2> QED  BY <1>8, <1>18, <2>2 DEF Torn
<1>22. CASE damaged'
  <2>1. DropCursor
    BY <1>22 DEF EraseRange
  <2> QED
    BY <1>1, <1>3, <1>8, <1>12, <1>15, <1>17, <1>19, <1>21, <1>22, <2>1
    DEF DropCursor, RobinMapInvariant, CursorOK
<1>23. CASE ~damaged'
  <2>1. g = IF last = Count(b) THEN last ELSE last - Gap(b, cursor, last)
    BY <1>1, <1>2, <1>7 DEF Landing
  <2>2. PutCursor(c, g)
    BY <1>1, <1>2, <1>7, <1>23, <2>1 DEF EraseRange
  <2>3. Filled(c) \subseteq 0 .. (n - 1)
    BY <1>4, <1>8, FilledIs
  <2>4. ASSUME NEW i \in Filled(c), i < g  PROVE c[i].key \in visited
    <3>1. i \in 0 .. (n - 1) /\ c[i] # Free /\ c[i].dist # -1
      BY <1>4, <1>8, FilledIs, FreeIs
    <3>2. i < y
      BY <1>3, <1>4, <1>8, <2>4, <3>1
    <3>3. c[i] = b[i]
      BY <1>3, <1>8, <3>1, <3>2
    <3>4. i \in Filled(b) /\ i <= y
      BY <1>3, <1>4, <3>1, <3>2, <3>3, FilledIs
    <3> QED  BY <1>3, <3>3, <3>4
  <2>5. RobinMapInvariant'
    BY <1>4, <1>8, <1>12, <1>15, <1>19, <1>20, <1>23, <2>2, <2>4, CursorPut
  <2> QED  BY <1>1, <1>3, <1>8, <1>12, <1>15, <1>17, <1>21, <2>5
<1> QED  BY <1>22, <1>23

(* clear().                                                                *)
LEMMA ClearKeeps ==
    ASSUME RobinMapInvariant, Clear
    PROVE  Sound(table') /\ Contents(table'.buckets) = {} /\ RobinMapInvariant'
<1>1. PICK t, b, n, u : t = table /\ b = t.buckets /\ n = Count(b) /\ u = table'
  OBVIOUS
<1>2. Whole(t) /\ t \in Objects
  BY <1>1, InvariantIs DEF Whole
<1>3. n \in Nat /\ b \in Buckets(n) /\ n \in {0} \union Sizes
  BY <1>1, <1>2, ObjectIs
<1>4. Sound(u) /\ Contents(u.buckets) = {}
  <2>1. CASE t.minLoad > 0
    <3>1. u = NewTable(0, t.minLoad, t.maxLoad)
      BY <1>1, <2>1 DEF Clear
    <3> QED  BY <1>2, <3>1, ObjectIs, TableWithout
  <2>2. CASE ~(t.minLoad > 0)
    <3>1. PICK c : c = [i \in 0 .. (n - 1) |-> Free]
      OBVIOUS
    <3>2. u = [t EXCEPT !.buckets = c, !.nbElements = 0, !.growOnNextInsert = FALSE]
      BY <1>1, <1>3, <2>2, <3>1, CountIs DEF Clear
    <3>3. c \in Buckets(n) /\ \A i \in 0 .. (n - 1) : c[i] = Free
      BY <3>1, FreeIs DEF Buckets
    <3>4. c \in UNION {Buckets(x) : x \in {0} \union Sizes}
      BY <1>3, <3>3
    <3>5. /\ u \in Objects /\ u.buckets = c /\ u.nbElements = 0
          /\ u.loadThreshold = t.loadThreshold
      BY <1>2, <3>2, <3>4 DEF Objects
    <3>6. /\ Cardinality(Filled(c)) = 0 /\ Contents(c) = {} /\ Sorted(c)
          /\ Count(c) = n
      BY <1>3, <3>3, EmptyIs, CountIs
    <3>7. /\ n <= MaxBuckets
          /\ n = 0 => t.loadThreshold = 0
          /\ n # 0 => t.loadThreshold < n
      BY <1>1, <1>2, WholeIs
    <3>8. Roomy(u)
      BY <1>3, <3>5, <3>6, <3>7 DEF Roomy
    <3> QED  BY <3>5, <3>6, <3>8, SoundIs
  <2> QED  BY <2>1, <2>2
<1>5. RobinMapInvariant'
  BY <1>1, <1>4, WithoutCursor DEF Clear
<1> QED  BY <1>1, <1>4, <1>5

(* rehash and reserve.                                                     *)
LEMMA RehashKeeps ==
    ASSUME RobinMapInvariant, NEW count \in Counts, Rehash(count)
    PROVE  Keeps(table, table') /\ RobinMapInvariant'
<1>1. PICK t, u, m : t = table /\ u = table' /\ m = count
  OBVIOUS
<1>2. Whole(t)
  BY <1>1, InvariantIs
<1>3. m \in Nat
  BY <1>1, TableAssumption, SizesAssumption
<1>4. \/ CanRehash(t, m) /\ u = RehashTo(t, m)
      \/ CanReserve(t, m) /\ u = ReserveFor(t, m)
  BY <1>1 DEF Rehash
<1>5. Keeps(t, u)
  BY <1>2, <1>3, <1>4, RehashToKeeps, ReserveForKeeps
<1>6. Sound(u)
  BY <1>5 DEF Keeps
<1> QED  BY <1>1, <1>5, <1>6, WithoutCursor DEF Rehash

(* min_load_factor.                                                        *)
LEMMA SetMinLoadKeeps ==
    ASSUME RobinMapInvariant, NEW minLoad \in MinLoads, SetMinLoad(minLoad)
    PROVE  RobinMapInvariant' /\ table'.buckets = table.buckets
<1>1. PICK t, u : t = table /\ u = table'
  OBVIOUS
<1>2. ~damaged /\ Sound(t) /\ t \in Objects
  BY <1>1, InvariantIs DEF SetMinLoad, Sound, Whole
<1>3. u = [t EXCEPT !.minLoad = minLoad]
  BY <1>1 DEF SetMinLoad
<1>4. /\ u \in Objects /\ u.buckets = t.buckets /\ u.nbElements = t.nbElements
      /\ u.loadThreshold = t.loadThreshold
  BY <1>2, <1>3 DEF Objects
<1>5. Roomy(t) /\ Sorted(t.buckets)
  BY <1>2, SoundIs
<1>6. Roomy(u)
  BY <1>4, <1>5 DEF Roomy
<1>7. Sound(u)
  BY <1>4, <1>5, <1>6, SoundIs
<1> QED  BY <1>1, <1>2, <1>4, <1>7, CursorStays DEF SetMinLoad

(* max_load_factor.                                                        *)
LEMMA SetMaxLoadKeeps ==
    ASSUME RobinMapInvariant, NEW maxLoad \in MaxLoads, SetMaxLoad(maxLoad)
    PROVE  RobinMapInvariant' /\ table'.buckets = table.buckets
<1>1. PICK t, u, n : t = table /\ u = table' /\ n = Count(t.buckets)
  OBVIOUS
<1>2. ~damaged /\ Sound(t) /\ t \in Objects
  BY <1>1, InvariantIs DEF SetMaxLoad, Sound, Whole
<1>3. n \in Nat
  BY <1>1, <1>2, ObjectIs
<1>4. maxLoad \in 20 .. 95
  BY TableAssumption
<1>5. PICK h : h = Threshold(n, maxLoad)
  OBVIOUS
<1>6. h \in Nat /\ (n = 0 => h = 0) /\ (n # 0 => h < n)
  BY <1>3, <1>4, <1>5, ThresholdIs
<1>7. u = [t EXCEPT !.maxLoad = maxLoad, !.loadThreshold = h]
  BY <1>1, <1>5 DEF SetMaxLoad
<1>8. /\ u \in Objects /\ u.buckets = t.buckets /\ u.nbElements = t.nbElements
      /\ u.loadThreshold = h
  BY <1>2, <1>6, <1>7 DEF Objects
<1>9. Roomy(t) /\ Sorted(t.buckets)
  BY <1>2, SoundIs
<1>10. Roomy(u)
  BY <1>1, <1>3, <1>6, <1>8, <1>9 DEF Roomy
<1>11. Sound(u)
  BY <1>8, <1>9, <1>10, SoundIs
<1> QED  BY <1>1, <1>2, <1>8, <1>11, CursorStays DEF SetMaxLoad

(* serialize and deserialize.                                              *)
LEMMA ReloadKeeps ==
    ASSUME RobinMapInvariant, Reload
    PROVE  /\ Sound(table) /\ Sound(table') /\ RobinMapInvariant'
           /\ Contents(table'.buckets) = Contents(table.buckets)
<1>1. PICK t, u : t = table /\ u = table'
  OBVIOUS
<1>2. ~damaged /\ Sound(t)
  BY <1>1, InvariantIs DEF Reload
<1>3. Saved(t).nbElements = t.nbElements
  BY DEF Saved
<1>4. \/ u = ReadBuckets(Saved(t))
      \/ /\ CanReserve(Fresh(Saved(t)), t.nbElements)
         /\ ~ReadEntries(Saved(t)).full /\ u = ReadEntries(Saved(t)).table
  BY <1>1, <1>3 DEF Reload
<1>5. Sound(u) /\ Contents(u.buckets) = Contents(t.buckets)
  <2>1. CASE u = ReadBuckets(Saved(t))
    BY <1>2, <2>1, ReadBucketsKeeps DEF Keeps
  <2>2. CASE /\ CanReserve(Fresh(Saved(t)), t.nbElements)
             /\ ~ReadEntries(Saved(t)).full /\ u = ReadEntries(Saved(t)).table
    BY <1>2, <2>2, ReadEntriesKeeps
  <2> QED  BY <1>4, <2>1, <2>2
<1>6. damaged' = damaged /\ DropCursor /\ damaged \in BOOLEAN
  BY InvariantIs DEF Reload
<1> QED  BY <1>1, <1>2, <1>5, <1>6, WithoutCursor

-----------------------------------------------------------------------------
(* The theorems.                                                           *)

(* The invariant holds initially and no step of the table breaks it.       *)
THEOREM TableInductive == TableSpec => []RobinMapInvariant
<1>1. TableInit => RobinMapInvariant
  BY InitKeeps
<1>2. RobinMapInvariant /\ [TableNext]_tableVars => RobinMapInvariant'
  <2> SUFFICES ASSUME RobinMapInvariant, [TableNext]_tableVars
               PROVE  RobinMapInvariant'
    OBVIOUS
  <2>1. ASSUME NEW k \in Keys, NEW v \in Values, Insert(k, v)  PROVE RobinMapInvariant'
    BY <2>1, InsertKeeps
  <2>2. ASSUME NEW k \in Keys, NEW v \in Values, Assign(k, v)  PROVE RobinMapInvariant'
    BY <2>2, AssignKeeps
  <2>3. ASSUME NEW ks \in Ranges, NEW v \in Values, InsertAll(ks, v)
        PROVE  RobinMapInvariant'
    BY <2>3, InsertAllKeeps
  <2>4. ASSUME NEW k \in Keys, Erase(k)  PROVE RobinMapInvariant'
    BY <2>4, EraseKeeps
  <2>5. CASE Begin
    BY <2>5, BeginKeeps
  <2>6. CASE Advance
    BY <2>6, AdvanceKeeps
  <2>7. CASE EraseAt
    BY <2>7, EraseAtKeeps
  <2>8. ASSUME NEW last \in 0 .. MaxBuckets, EraseRange(last)  PROVE RobinMapInvariant'
    BY <2>8, EraseRangeKeeps
  <2>9. CASE Clear
    BY <2>9, ClearKeeps
  <2>10. ASSUME NEW count \in Counts, Rehash(count)  PROVE RobinMapInvariant'
    BY <2>10, RehashKeeps
  <2>11. ASSUME NEW minLoad \in MinLoads, SetMinLoad(minLoad)  PROVE RobinMapInvariant'
    BY <2>11, SetMinLoadKeeps
  <2>12. ASSUME NEW maxLoad \in MaxLoads, SetMaxLoad(maxLoad)  PROVE RobinMapInvariant'
    BY <2>12, SetMaxLoadKeeps
  <2>13. CASE Reload
    BY <2>13, ReloadKeeps
  <2>14. CASE UNCHANGED tableVars
    BY <2>14 DEF tableVars, RobinMapInvariant, CursorOK
  <2> QED
    BY <2>1, <2>2, <2>3, <2>4, <2>5, <2>6, <2>7, <2>8, <2>9, <2>10, <2>11, <2>12,
       <2>13, <2>14 DEF TableNext
<1> QED  BY <1>1, <1>2, PTL DEF TableSpec

(* TableInv: in every reachable state the table is in order unless it is   *)
(* damaged, counts its entries and has a free bucket, which every search   *)
(* and every insertion stop at (robin_hash.h:1137-1207).                   *)
THEOREM TableInvariant == TableSpec => []TableInv
<1>1. RobinMapInvariant => TableInv
  <2> SUFFICES ASSUME RobinMapInvariant  PROVE TableInv
    OBVIOUS
  <2>1. PICK t, b, n : t = table /\ b = t.buckets /\ n = Count(b)
    OBVIOUS
  <2>2. Whole(t) /\ t \in Objects
    BY <2>1 DEF RobinMapInvariant, Whole
  <2>3. /\ n \in Nat /\ n \in {0} \union Sizes /\ b \in Buckets(n)
        /\ t.minLoad \in MinLoads /\ t.maxLoad \in MaxLoads
        /\ t.growOnNextInsert \in BOOLEAN /\ t.tryShrinkOnNextInsert \in BOOLEAN
    BY <2>1, <2>2, ObjectIs
  <2>4. /\ t.nbElements = Cardinality(Filled(b)) /\ n <= MaxBuckets
        /\ n # 0 => Cardinality(Filled(b)) < n /\ t.loadThreshold < n
    BY <2>1, <2>2, WholeIs
  <2>5. cursor \in {NoCursor} \union 0 .. n /\ visited \subseteq Keys
    <3>1. Filled(b) \subseteq 0 .. (n - 1)
      BY <2>3, FilledIs
    <3>2. cursor # NoCursor => cursor \in Filled(b) \union {n}
      BY <2>1 DEF RobinMapInvariant, CursorOK
    <3> QED  BY <2>3, <3>1, <3>2 DEF RobinMapInvariant
  <2>6. TableTypeOK
    <3>1. DOMAIN b = 0 .. (n - 1)
      BY <2>3, CountIs
    <3>2. \A i \in 0 .. (n - 1) : b[i] \in Slots
      BY <2>3, FilledIs
    <3>3. \A i \in 0 .. (n - 1) :
             b[i] = Free \/ b[i] \in [key : Keys, value : Values, dist : Nat]
      BY <3>2 DEF Slots
    <3> QED  BY <2>1, <2>3, <2>4, <2>5, <3>1, <3>3 DEF TableTypeOK
  <2>7. (b # <<>>) <=> (n # 0)
    BY <2>3, NotEmptyTuple
  <2>8. ASSUME ~damaged  PROVE InOrder(b)
    <3> SUFFICES ASSUME NEW i \in Filled(b)
                 PROVE  /\ Nth(b, b[i].key, b[i].dist) = i
                        /\ b[i].dist <= b[After(b, i, n - 1)].dist + 1
                        /\ \A j \in Filled(b) : b[j].key = b[i].key => j = i
      BY <2>1 DEF InOrder
    <3>1. i \in 0 .. (n - 1) /\ n # 0
      BY <2>3, FilledIs
    <3>2. After(b, i, n - 1) = Turn(n, i, n - 1)
      <4>1. n - 1 \in 0 .. n
        BY <2>3, <3>1
      <4>2. \A d \in 0 .. n : After(b, i, d) = Turn(n, i, d)
        BY <2>3, <3>1, AfterIs
      <4> QED  BY <4>1, <4>2
    <3>3. Turn(n, i, n - 1) = Before(n, i)
      BY <2>3, <3>1 DEF Turn, Before
    <3>4. b[i].dist <= b[Before(n, i)].dist + 1
      BY <2>1, <2>8 DEF RobinMapInvariant, Ordered
    <3> QED  BY <2>1, <2>2, <3>2, <3>3, <3>4 DEF Whole, InPlace, Distinct
  <2> QED  BY <2>1, <2>4, <2>6, <2>7, <2>8 DEF TableInv
<1> QED  BY <1>1, TableInductive, PTL

(* IterationCovers: in every reachable state the caller of an iteration    *)
(* has seen the key of every entry in front of the iterator, whatever it   *)
(* has erased on the way (robin_hash.h:820-883, erase).                    *)
THEOREM IterationCoversAll == TableSpec => []IterationCovers
<1>1. RobinMapInvariant => IterationCovers
  <2> SUFFICES ASSUME RobinMapInvariant, cursor # NoCursor,
                      NEW i \in Filled(table.buckets), i < cursor
               PROVE  table.buckets[i].key \in visited
    BY DEF IterationCovers
  <2>1. PICK b, n : b = table.buckets /\ n = Count(b)
    OBVIOUS
  <2>2. n \in Nat /\ b \in Buckets(n)
    BY <2>1, ObjectIs DEF RobinMapInvariant, Whole
  <2>3. i \in Int /\ cursor \in Int
    <3>1. Filled(b) \subseteq 0 .. (n - 1)
      BY <2>2, FilledIs
    <3> QED  BY <2>1, <2>2, <3>1 DEF RobinMapInvariant, CursorOK
  <2>4. i <= cursor
    BY <2>3
  <2> QED  BY <2>4 DEF RobinMapInvariant, CursorOK
<1> QED  BY <1>1, TableInductive, PTL

-----------------------------------------------------------------------------
(* The refinement of MapPromise.                                           *)

(* What lookups find: some of the contents of a table, and all of them     *)
(* unless it is damaged.                                                   *)
Shows(f, C) ==
    /\ f = [k \in DOMAIN f |-> f[k]]
    /\ DOMAIN f \subseteq Keys
    /\ \A k \in DOMAIN f : f[k] \in Values /\ <<k, f[k]>> \in C

(* All of them.                                                            *)
Exactly(f, C) ==
    /\ Shows(f, C)
    /\ \A k \in Keys, v \in Values : <<k, v>> \in C => k \in DOMAIN f /\ f[k] = v

(* What lookups find in a table, damaged or not.                           *)
LEMMA LookupsShow ==
    ASSUME NEW t, Whole(t)
    PROVE  /\ Shows(Lookups(t.buckets), Contents(t.buckets))
           /\ Sound(t) => Exactly(Lookups(t.buckets), Contents(t.buckets))
<1>1. PICK b, n : b = t.buckets /\ n = Count(b)
  OBVIOUS
<1>2. /\ n \in Nat /\ b \in Buckets(n)
      /\ \A k \in Keys : Holds(b, k) => Place(b, k) \in Filled(b) /\ b[Place(b, k)].key = k
  BY <1>1, WholeTable
<1>3. PICK f : f = Lookups(b)
  OBVIOUS
<1>4. /\ DOMAIN f = {k \in Keys : Holds(b, k)} /\ f = [k \in DOMAIN f |-> f[k]]
      /\ \A k \in DOMAIN f : f[k] = b[Place(b, k)].value
  BY <1>3 DEF Lookups
<1>5. \A k, v : <<k, v>> \in Contents(b)
                  <=> \E i \in Filled(b) : b[i].key = k /\ b[i].value = v
  BY <1>2, ContentsIs
<1>6. \A i \in Filled(b) : b[i].key \in Keys /\ b[i].value \in Values
  BY <1>2, FilledIs, EntryIs
<1>7. ASSUME NEW k \in DOMAIN f  PROVE f[k] \in Values /\ <<k, f[k]>> \in Contents(b)
  <2>1. Place(b, k) \in Filled(b) /\ b[Place(b, k)].key = k /\ f[k] = b[Place(b, k)].value
    BY <1>2, <1>4
  <2> QED  BY <1>5, <1>6, <2>1
<1>8. Shows(f, Contents(b))
  BY <1>4, <1>7 DEF Shows
<1>9. ASSUME Sound(t), NEW k \in Keys, NEW v \in Values, <<k, v>> \in Contents(b)
      PROVE  k \in DOMAIN f /\ f[k] = v
  <2>1. PICK i \in Filled(b) : b[i].key = k /\ b[i].value = v
    BY <1>5, <1>9
  <2>2. Holds(b, k)
    <3>1. k \in KeysIn(b)
      BY <2>1 DEF KeysIn
    <3> QED  BY <1>1, <1>9, <3>1, HoldsSound
  <2>3. Place(b, k) \in Filled(b) /\ b[Place(b, k)].key = k
    BY <1>2, <2>2
  <2>4. Place(b, k) = i
    BY <1>1, <2>1, <2>3 DEF Whole, Distinct
  <2> QED  BY <1>4, <2>1, <2>2, <2>4
<1> QED  BY <1>1, <1>3, <1>8, <1>9 DEF Exactly

(* Lookups that find all of the same contents find the same.               *)
LEMMA SameShown ==
    ASSUME NEW C, NEW f, NEW g, Exactly(f, C), Exactly(g, C)
    PROVE  f = g
<1>1. /\ f = [k \in DOMAIN f |-> f[k]] /\ g = [k \in DOMAIN g |-> g[k]]
      /\ DOMAIN f \subseteq Keys /\ DOMAIN g \subseteq Keys
      /\ \A k \in DOMAIN f : f[k] \in Values /\ <<k, f[k]>> \in C
      /\ \A k \in DOMAIN g : g[k] \in Values /\ <<k, g[k]>> \in C
      /\ \A k \in Keys, v \in Values : <<k, v>> \in C => k \in DOMAIN f /\ f[k] = v
      /\ \A k \in Keys, v \in Values : <<k, v>> \in C => k \in DOMAIN g /\ g[k] = v
  BY DEF Exactly, Shows
<1>2. DOMAIN f = DOMAIN g
  BY <1>1
<1>3. \A k \in DOMAIN f : f[k] = g[k]
  BY <1>1
<1> QED  BY <1>1, <1>2, <1>3

(* Lookups in part of the contents find part of what is found in all.      *)
LEMMA PartShown ==
    ASSUME NEW C, NEW D, C \subseteq D, NEW f, NEW g, Shows(f, C), Exactly(g, D)
    PROVE  f = Map!Only(g, DOMAIN f) /\ DOMAIN f \subseteq DOMAIN g
<1>1. /\ f = [k \in DOMAIN f |-> f[k]] /\ DOMAIN f \subseteq Keys
      /\ \A k \in DOMAIN f : f[k] \in Values /\ <<k, f[k]>> \in D
      /\ \A k \in Keys, v \in Values : <<k, v>> \in D => k \in DOMAIN g /\ g[k] = v
  BY DEF Exactly, Shows
<1>2. \A k \in DOMAIN f : k \in DOMAIN g /\ g[k] = f[k]
  BY <1>1
<1>3. DOMAIN g \intersect DOMAIN f = DOMAIN f
  BY <1>2
<1>4. PICK S : S = DOMAIN f
  OBVIOUS
<1>5. Map!Only(g, S) = [x \in S |-> g[x]]
  BY <1>3, <1>4 DEF Map!Only
<1>6. [x \in S |-> g[x]] = [x \in S |-> f[x]]
  BY <1>2, <1>4
<1> QED  BY <1>1, <1>2, <1>4, <1>5, <1>6

(* In no contents nothing is found.                                        *)
LEMMA NoneShown ==
    ASSUME NEW f, Shows(f, {})
    PROVE  f = <<>>
<1>1. DOMAIN f = {} /\ f = [k \in DOMAIN f |-> f[k]]
  BY DEF Shows
<1> QED  BY <1>1

(* A step of the table as a step of what lookups find.                     *)
LEMMA FullerInserts ==
    ASSUME NEW t, NEW u, Sound(t), Fuller(t, u), ~damaged, damaged' = damaged
    PROVE  Map!Insert(Lookups(t.buckets), Lookups(u.buckets))
<1>1. PICK f, g : f = Lookups(t.buckets) /\ g = Lookups(u.buckets)
  OBVIOUS
<1>2. Sound(u) /\ Contents(t.buckets) \subseteq Contents(u.buckets)
  BY DEF Fuller
<1>3. Exactly(f, Contents(t.buckets)) /\ Exactly(g, Contents(u.buckets))
  BY <1>1, <1>2, LookupsShow DEF Sound
<1>4. f = Map!Only(g, DOMAIN f)
  BY <1>2, <1>3, PartShown DEF Exactly
<1>5. DOMAIN g \subseteq Keys /\ g \in [DOMAIN g -> Values]
  BY <1>3 DEF Exactly, Shows
<1> QED  BY <1>1, <1>4, <1>5 DEF Map!Insert

(* A key that is erased.                                                   *)
LEMMA ErasesOne ==
    ASSUME NEW t, NEW u, Sound(t), Sound(u), NEW i \in Filled(t.buckets),
           Contents(u.buckets) = Contents(t.buckets) \ {KV(t.buckets[i])},
           damaged' = damaged
    PROVE  Map!Erase(Lookups(t.buckets), Lookups(u.buckets))
<1>1. PICK f, g, C, D : /\ f = Lookups(t.buckets) /\ g = Lookups(u.buckets)
                        /\ C = Contents(t.buckets) /\ D = Contents(u.buckets)
  OBVIOUS
<1>2. Exactly(f, C) /\ Exactly(g, D) /\ D \subseteq C
  BY <1>1, LookupsShow DEF Sound
<1>3. PICK k, v : k = t.buckets[i].key /\ v = t.buckets[i].value
  OBVIOUS
<1>4. /\ k \in Keys /\ v \in Values /\ <<k, v>> \in C /\ D = C \ {<<k, v>>}
  <2>1. \E n \in Nat : t.buckets \in Buckets(n)
    BY SoundTable
  <2>2. PICK n \in Nat : t.buckets \in Buckets(n)
    BY <2>1
  <2>3. k \in Keys /\ v \in Values
    BY <1>3, <2>2, FilledIs, EntryIs
  <2>4. <<k, v>> \in C
    BY <1>1, <1>3 DEF Contents
  <2> QED  BY <1>1, <1>3, <2>3, <2>4 DEF KV
<1>5. /\ DOMAIN f \subseteq Keys /\ DOMAIN g \subseteq Keys
      /\ \A x \in DOMAIN f : f[x] \in Values /\ <<x, f[x]>> \in C
      /\ \A x \in DOMAIN g : g[x] \in Values /\ <<x, g[x]>> \in D
      /\ \A x \in Keys, y \in Values : <<x, y>> \in C => x \in DOMAIN f /\ f[x] = y
      /\ \A x \in Keys, y \in Values : <<x, y>> \in D => x \in DOMAIN g /\ g[x] = y
  BY <1>2 DEF Exactly, Shows
<1>6. k \in DOMAIN f /\ f[k] = v
  BY <1>4, <1>5
<1>7. DOMAIN g = DOMAIN f \ {k}
  <2>1. ASSUME NEW x \in DOMAIN g  PROVE x \in DOMAIN f /\ x # k
    <3>1. <<x, g[x]>> \in C /\ <<x, g[x]>> # <<k, v>>
      BY <1>4, <1>5
    <3>2. x \in DOMAIN f /\ f[x] = g[x]
      BY <1>5, <3>1
    <3> QED  BY <1>6, <3>1, <3>2
  <2>2. ASSUME NEW x \in DOMAIN f, x # k  PROVE x \in DOMAIN g
    <3>1. <<x, f[x]>> \in D
      BY <1>4, <1>5, <2>2
    <3> QED  BY <1>5, <3>1
  <2> QED  BY <2>1, <2>2
<1>8. g = Map!Only(f, DOMAIN g)
  BY <1>2, PartShown DEF Exactly
<1> QED  BY <1>1, <1>6, <1>7, <1>8 DEF Map!Erase

(* A value that is assigned.                                               *)
LEMMA AssignsOne ==
    ASSUME NEW t, NEW u, Sound(t), Sound(u), NEW i \in Filled(t.buckets),
           Filled(u.buckets) = Filled(t.buckets),
           \A p \in Filled(t.buckets) :
              /\ u.buckets[p].key = t.buckets[p].key
              /\ p # i => u.buckets[p].value = t.buckets[p].value,
           damaged' = damaged
    PROVE  Map!Assign(Lookups(t.buckets), Lookups(u.buckets))
<1>1. PICK f, g, b, c : /\ f = Lookups(b) /\ g = Lookups(c)
                        /\ b = t.buckets /\ c = u.buckets
  OBVIOUS
<1>2. Exactly(f, Contents(b)) /\ Exactly(g, Contents(c))
  BY <1>1, LookupsShow DEF Sound
<1>3. /\ DOMAIN f \subseteq Keys /\ DOMAIN g \subseteq Keys
      /\ \A x \in DOMAIN f : f[x] \in Values /\ <<x, f[x]>> \in Contents(b)
      /\ \A x \in DOMAIN g : g[x] \in Values /\ <<x, g[x]>> \in Contents(c)
      /\ \A x \in Keys, y \in Values : <<x, y>> \in Contents(b) => x \in DOMAIN f /\ f[x] = y
      /\ \A x \in Keys, y \in Values : <<x, y>> \in Contents(c) => x \in DOMAIN g /\ g[x] = y
  BY <1>2 DEF Exactly, Shows
<1>4. \E n \in Nat : b \in Buckets(n)
  BY <1>1, SoundTable
<1>5. \E n \in Nat : c \in Buckets(n)
  BY <1>1, SoundTable
<1>6. \A p \in Filled(b) : b[p].key \in Keys /\ b[p].value \in Values
  BY <1>4, FilledIs, EntryIs
<1>7. \A p \in Filled(c) : c[p].key \in Keys /\ c[p].value \in Values
  BY <1>5, FilledIs, EntryIs
<1>8. /\ \A x, y : <<x, y>> \in Contents(b) <=> \E p \in Filled(b) : b[p].key = x /\ b[p].value = y
      /\ \A x, y : <<x, y>> \in Contents(c) <=> \E p \in Filled(c) : c[p].key = x /\ c[p].value = y
  BY <1>4, <1>5, ContentsIs
<1>9. /\ Filled(c) = Filled(b) /\ i \in Filled(b)
      /\ \A p \in Filled(b) : c[p].key = b[p].key /\ (p # i => c[p].value = b[p].value)
  BY <1>1
<1>10. ASSUME NEW x \in DOMAIN f  PROVE x \in DOMAIN g
  <2>0. PICK y : y = f[x] /\ <<x, y>> \in Contents(b)
    BY <1>3
  <2>1. PICK p \in Filled(b) : b[p].key = x
    BY <2>0, <1>8
  <2>2. <<x, c[p].value>> \in Contents(c) /\ c[p].value \in Values
    BY <1>7, <1>8, <1>9, <2>1
  <2> QED  BY <1>3, <2>2
<1>11. ASSUME NEW x \in DOMAIN g  PROVE x \in DOMAIN f
  <2>0. PICK y : y = g[x] /\ <<x, y>> \in Contents(c)
    BY <1>3
  <2>1. PICK p \in Filled(c) : c[p].key = x
    BY <2>0, <1>8
  <2>2. <<x, b[p].value>> \in Contents(b) /\ b[p].value \in Values
    BY <1>6, <1>8, <1>9, <2>1
  <2> QED  BY <1>3, <2>2
<1>12. PICK k : k = b[i].key
  OBVIOUS
<1>13. k \in DOMAIN f
  <2>1. <<k, b[i].value>> \in Contents(b) /\ k \in Keys /\ b[i].value \in Values
    BY <1>6, <1>8, <1>9, <1>12
  <2> QED  BY <1>3, <2>1
<1>14. ASSUME NEW l \in DOMAIN f \ {k}  PROVE g[l] = f[l]
  <2>0. PICK y : y = f[l] /\ <<l, y>> \in Contents(b)
    BY <1>3
  <2>1. PICK p \in Filled(b) : b[p].key = l /\ b[p].value = f[l]
    BY <2>0, <1>8
  <2>2. p # i
    BY <1>12, <2>1
  <2>3. <<l, f[l]>> \in Contents(c) /\ f[l] \in Values
    BY <1>3, <1>8, <1>9, <2>1, <2>2
  <2> QED  BY <1>3, <2>3
<1>15. DOMAIN g = DOMAIN f
  BY <1>10, <1>11
<1> QED  BY <1>1, <1>13, <1>14, <1>15 DEF Map!Assign

(* Contents that stay as they are.                                         *)
LEMMA KeepsRebuilds ==
    ASSUME NEW t, NEW u, Whole(t), Sound(u), ~damaged => Sound(t), damaged \in BOOLEAN,
           Contents(u.buckets) = Contents(t.buckets), damaged' => damaged
    PROVE  Map!Rebuild(Lookups(t.buckets), Lookups(u.buckets))
<1>1. PICK f, g, C : /\ f = Lookups(t.buckets) /\ g = Lookups(u.buckets)
                     /\ C = Contents(t.buckets)
  OBVIOUS
<1>2. Shows(f, C) /\ (Sound(t) => Exactly(f, C)) /\ Exactly(g, C)
  BY <1>1, LookupsShow DEF Sound
<1>3. CASE damaged
  <2>1. f = Map!Only(g, DOMAIN f)
    BY <1>2, PartShown
  <2> QED  BY <1>1, <1>3, <2>1 DEF Map!Rebuild
<1>4. CASE ~damaged
  <2>1. f = g
    BY <1>2, <1>4, SameShown
  <2> QED  BY <1>1, <2>1 DEF Map!Rebuild
<1> QED  BY <1>3, <1>4

(* IsMap: whatever happens to it, the table is the map that MapPromise     *)
(* promises.  Lookups find what was last put in, and only erasing a range  *)
(* of a table whose entries run past its end may leave some unreachable.   *)
THEOREM TableIsMap == TableSpec => IsMap
<1>1. TableInit => Map!Init
  <2> SUFFICES ASSUME TableInit  PROVE Map!Init
    OBVIOUS
  <2>1. PICK t, b : t = table /\ b = t.buckets
    OBVIOUS
  <2>2. Sound(t) /\ Contents(b) = {}
    BY <2>1, InitKeeps
  <2>3. Shows(Lookups(b), {})
    BY <2>1, <2>2, LookupsShow DEF Sound
  <2>4. Lookups(b) = <<>>
    BY <2>3, NoneShown
  <2>5. \A i : i \notin Filled(b)
    BY <2>2 DEF Contents
  <2> QED  BY <2>1, <2>4, <2>5 DEF Map!Init, TableInit
<1>2. RobinMapInvariant /\ RobinMapInvariant' /\ [TableNext]_tableVars
      => [Map!Next]_Map!vars
  <2> SUFFICES ASSUME RobinMapInvariant, [TableNext]_tableVars
               PROVE  [Map!Next]_Map!vars
    OBVIOUS
  <2> DEFINE old == Lookups(table.buckets)
             new == Lookups(table'.buckets)
  <2>1. ASSUME \/ Map!Rebuild(old, new) \/ Map!Insert(old, new) \/ Map!Assign(old, new)
               \/ Map!Erase(old, new) \/ Map!EraseRange(old, new)
        PROVE  Map!Next
    BY <2>1 DEF Map!Next
  <2>2. /\ Whole(table) /\ damaged \in BOOLEAN /\ (~damaged => Sound(table))
    BY InvariantIs
  <2>3. ASSUME table' = table, damaged' = damaged  PROVE Map!Rebuild(old, new)
    BY <2>2, <2>3 DEF Map!Rebuild
  <2>4. ASSUME NEW k \in Keys, NEW v \in Values, Insert(k, v)  PROVE Map!Insert(old, new)
    BY <2>4, InsertKeeps, FullerInserts DEF Insert
  <2>5. ASSUME NEW k \in Keys, NEW v \in Values, Assign(k, v)  PROVE Map!Assign(old, new)
    <3>1. damaged' = damaged
      BY <2>5 DEF Assign
    <3>2. PICK t, u : t = table /\ u = table'
      OBVIOUS
    <3>3. /\ Sound(t) /\ Sound(u)
          /\ \E i \in Filled(t.buckets) :
               /\ Filled(u.buckets) = Filled(t.buckets)
               /\ \A p \in Filled(t.buckets) :
                    /\ u.buckets[p].key = t.buckets[p].key
                    /\ p # i => u.buckets[p].value = t.buckets[p].value
      BY <2>5, <3>2, AssignKeeps
    <3>4. Map!Assign(Lookups(t.buckets), Lookups(u.buckets))
      BY <3>1, <3>3, AssignsOne
    <3> QED  BY <3>2, <3>4
  <2>6. ASSUME NEW ks \in Ranges, NEW v \in Values, InsertAll(ks, v)
        PROVE  Map!Insert(old, new)
    BY <2>6, InsertAllKeeps, FullerInserts DEF InsertAll
  <2>7. ASSUME NEW k \in Keys, Erase(k)  PROVE Map!Erase(old, new)
    BY <2>7, EraseKeeps, ErasesOne DEF Erase
  <2>8. CASE Begin
    BY <2>1, <2>3, <2>8 DEF Begin
  <2>9. CASE Advance
    BY <2>1, <2>3, <2>9 DEF Advance
  <2>10. ASSUME EraseAt  PROVE Map!Erase(old, new)
    BY <2>10, EraseAtKeeps, ErasesOne DEF EraseAt
  <2>11. ASSUME NEW last \in 0 .. MaxBuckets, EraseRange(last)
         PROVE  Map!EraseRange(old, new)
    <3>1. PICK t, u : t = table /\ u = table'
      OBVIOUS
    <3>2. /\ Sound(t) /\ Whole(u) /\ Contents(u.buckets) \subseteq Contents(t.buckets)
          /\ NoneCross(t.buckets) => ~damaged'
      BY <2>11, <3>1, EraseRangeKeeps
    <3>3. PICK f, g : f = Lookups(t.buckets) /\ g = Lookups(u.buckets)
      OBVIOUS
    <3>4. Exactly(f, Contents(t.buckets)) /\ Shows(g, Contents(u.buckets))
      BY <3>2, <3>3, LookupsShow DEF Sound
    <3>5. g = Map!Only(f, DOMAIN g)
      BY <3>2, <3>4, PartShown
    <3>6. \E n \in Nat : t.buckets \in Buckets(n)
      BY <3>2, SoundTable
    <3>7. \A i \in Filled(t.buckets) : i \in Int /\ t.buckets[i].dist \in Int
      BY <3>6, FilledIs, EntryIs
    <3>8. damaged' => \E i \in Filled(t.buckets) : i < t.buckets[i].dist
      BY <3>2, <3>7 DEF NoneCross
    <3> QED  BY <3>1, <3>3, <3>5, <3>8 DEF Map!EraseRange
  <2>12. CASE Clear
    <3>1. Sound(table') /\ Contents(table'.buckets) = {} /\ ~damaged'
      BY <2>12, ClearKeeps DEF Clear
    <3>2. PICK u : u = table'
      OBVIOUS
    <3>3. Shows(Lookups(u.buckets), {})
      BY <3>1, <3>2, LookupsShow DEF Sound
    <3>4. new = <<>>
      BY <3>2, <3>3, NoneShown
    <3>5. Map!Rebuild(old, new)
      BY <3>1, <3>4 DEF Map!Rebuild
    <3> QED  BY <2>1, <3>5
  <2>13. ASSUME NEW count \in Counts, Rehash(count)  PROVE Map!Rebuild(old, new)
    <3>1. Keeps(table, table') /\ ~damaged'
      BY <2>13, RehashKeeps DEF Rehash
    <3> QED  BY <2>2, <3>1, KeepsRebuilds DEF Keeps
  <2>14. ASSUME NEW minLoad \in MinLoads, SetMinLoad(minLoad)  PROVE Map!Rebuild(old, new)
    BY <2>14, SetMinLoadKeeps DEF SetMinLoad, Map!Rebuild
  <2>15. ASSUME NEW maxLoad \in MaxLoads, SetMaxLoad(maxLoad)  PROVE Map!Rebuild(old, new)
    BY <2>15, SetMaxLoadKeeps DEF SetMaxLoad, Map!Rebuild
  <2>16. ASSUME Reload  PROVE Map!Rebuild(old, new)
    <3>1. /\ Sound(table) /\ Sound(table')
          /\ Contents(table'.buckets) = Contents(table.buckets)
          /\ damaged' = damaged
      BY <2>16, ReloadKeeps DEF Reload
    <3> QED  BY <2>2, <3>1, KeepsRebuilds
  <2>17. CASE UNCHANGED tableVars
    BY <2>17 DEF tableVars, Map!vars
  <2> HIDE DEF old, new
  <2> QED
    BY <2>1, <2>4, <2>5, <2>6, <2>7, <2>8, <2>9, <2>10, <2>11, <2>12, <2>13, <2>14,
       <2>15, <2>16, <2>17 DEF TableNext
<1> QED  BY <1>1, <1>2, TableInductive, PTL DEF TableSpec, IsMap, Map!Spec
=============================================================================
