-------------------------- MODULE EventLoopProofs ---------------------------
(***************************************************************************)
(* Proofs about EventLoop for all handles and work items and any number of *)
(* invocations, whether or not the shutdown contract is kept.              *)
(***************************************************************************)
EXTENDS EventLoopInvariant, FiniteSetTheorems, TLAPS

USE KindsAssumption, MaxSendsAssumption DEF Handles, LoopStates, Stages, ObjectStates, UvStates,
    WorkStates, Faults

-----------------------------------------------------------------------------
(* The loop is initialised.                                                *)
LEMMA InitializePreserves ==
    ASSUME LInv, Initialize
    PROVE  LInv'
<1>1. TypeOK'
  BY DEF LInv, TypeOK, CallbacksCounted, WorkSound, HandlesSound, Initialize
<1>2. PhasesSound'
  BY DEF LInv, TypeOK, PhasesSound, Initialize
<1>3. HandlesSound'
  BY DEF LInv, TypeOK, HandlesSound, PhasesSound, Initialize
<1>4. CallbacksCounted'
  BY DEF LInv, TypeOK, CallbacksCounted, HandlesSound, Initialize
<1>5. WorkSound'
  BY DEF LInv, TypeOK, WorkSound, PhasesSound, Initialize
<1>6. AnswersSound'
  BY DEF LInv, TypeOK, AnswersSound, PhasesSound, HandlesSound, InFlight, Initialize
<1>7. MisuseOnlyAfterBreach'
  BY DEF LInv, TypeOK, MisuseOnlyAfterBreach, HandlesSound, Initialize
<1>. QED
  BY <1>1, <1>2, <1>3, <1>4, <1>5, <1>6, <1>7 DEF LInv

(* A client creates a handle.                                              *)
LEMMA NewHandlePreserves ==
    ASSUME NEW h \in Handles, LInv, NewHandle(h)
    PROVE  LInv'
<1>1. TypeOK'
  BY DEF LInv, TypeOK, CallbacksCounted, WorkSound, HandlesSound, NewHandle, Clients,
     Obey, Fail, MayCreate
<1>2. PhasesSound'
  BY DEF LInv, TypeOK, PhasesSound, NewHandle, Clients, Obey, Fail, MayCreate
<1>3. HandlesSound'
  BY DEF LInv, TypeOK, HandlesSound, PhasesSound, NewHandle, Clients, Obey, Fail,
     MayCreate
<1>4. CallbacksCounted'
  BY DEF LInv, TypeOK, CallbacksCounted, HandlesSound, NewHandle, Clients, Obey, Fail,
     MayCreate
<1>5. WorkSound'
  BY DEF LInv, TypeOK, WorkSound, PhasesSound, NewHandle, Clients, Obey, Fail, MayCreate
<1>6. AnswersSound'
  BY DEF LInv, TypeOK, AnswersSound, PhasesSound, HandlesSound, InFlight, NewHandle,
     Clients, Obey, Fail, MayCreate
<1>7. MisuseOnlyAfterBreach'
  BY DEF LInv, TypeOK, MisuseOnlyAfterBreach, HandlesSound, NewHandle, Clients, Obey,
     Fail, MayCreate
<1>. QED
  BY <1>1, <1>2, <1>3, <1>4, <1>5, <1>6, <1>7 DEF LInv

(* A client invokes an async handle.                                       *)
LEMMA TryInvokePreserves ==
    ASSUME NEW a \in Asyncs, LInv, TryInvoke(a)
    PROVE  LInv'
<1>1. TypeOK'
  BY DEF LInv, TypeOK, CallbacksCounted, WorkSound, HandlesSound, TryInvoke, Clients,
     Signal, Obey, Fail, MayUse
<1>2. PhasesSound'
  BY DEF LInv, TypeOK, PhasesSound, TryInvoke, Clients, Signal, Obey, Fail, MayUse
<1>3. HandlesSound'
  BY DEF LInv, TypeOK, HandlesSound, PhasesSound, TryInvoke, Clients, Signal, Obey, Fail,
     MayUse
<1>4. CallbacksCounted'
  BY DEF LInv, TypeOK, CallbacksCounted, HandlesSound, TryInvoke, Clients, Signal, Obey,
     Fail, MayUse
<1>5. WorkSound'
  BY DEF LInv, TypeOK, WorkSound, PhasesSound, TryInvoke, Clients, Signal, Obey, Fail,
     MayUse
<1>6. AnswersSound'
  BY DEF LInv, TypeOK, AnswersSound, PhasesSound, HandlesSound, InFlight, TryInvoke,
     Clients, Signal, Obey, Fail, MayUse
<1>7. MisuseOnlyAfterBreach'
  BY DEF LInv, TypeOK, MisuseOnlyAfterBreach, HandlesSound, TryInvoke, Clients, Signal,
     Obey, Fail, MayUse
<1>. QED
  BY <1>1, <1>2, <1>3, <1>4, <1>5, <1>6, <1>7 DEF LInv

(* A client starts a delay.                                                *)
LEMMA TryDelayPreserves ==
    ASSUME NEW d \in Delays, LInv, TryDelay(d)
    PROVE  LInv'
<1>1. TypeOK'
  BY DEF LInv, TypeOK, CallbacksCounted, WorkSound, HandlesSound, TryDelay, Clients,
     Signal, Obey, Fail, MayUse
<1>2. PhasesSound'
  BY DEF LInv, TypeOK, PhasesSound, TryDelay, Clients, Signal, Obey, Fail, MayUse
<1>3. HandlesSound'
  BY DEF LInv, TypeOK, HandlesSound, PhasesSound, TryDelay, Clients, Signal, Obey, Fail,
     MayUse
<1>4. CallbacksCounted'
  BY DEF LInv, TypeOK, CallbacksCounted, HandlesSound, TryDelay, Clients, Signal, Obey,
     Fail, MayUse
<1>5. WorkSound'
  BY DEF LInv, TypeOK, WorkSound, PhasesSound, TryDelay, Clients, Signal, Obey, Fail,
     MayUse
<1>6. AnswersSound'
  BY DEF LInv, TypeOK, AnswersSound, PhasesSound, HandlesSound, InFlight, TryDelay,
     Clients, Signal, Obey, Fail, MayUse
<1>7. MisuseOnlyAfterBreach'
  BY DEF LInv, TypeOK, MisuseOnlyAfterBreach, HandlesSound, TryDelay, Clients, Signal,
     Obey, Fail, MayUse
<1>. QED
  BY <1>1, <1>2, <1>3, <1>4, <1>5, <1>6, <1>7 DEF LInv

(* A client kills a handle.                                                *)
LEMMA KillPreserves ==
    ASSUME NEW h \in Handles, LInv, Kill(h)
    PROVE  LInv'
<1>1. TypeOK'
  BY DEF LInv, TypeOK, CallbacksCounted, WorkSound, HandlesSound, Kill, Clients, Close,
     Obey, Fail, MayUse
<1>2. PhasesSound'
  BY DEF LInv, TypeOK, PhasesSound, Kill, Clients, Close, Obey, Fail, MayUse
<1>3. HandlesSound'
  BY DEF LInv, TypeOK, HandlesSound, PhasesSound, Kill, Clients, Close, Obey, Fail, MayUse
<1>4. CallbacksCounted'
  BY DEF LInv, TypeOK, CallbacksCounted, HandlesSound, Kill, Clients, Close, Obey, Fail,
     MayUse
<1>5. WorkSound'
  BY DEF LInv, TypeOK, WorkSound, PhasesSound, Kill, Clients, Close, Obey, Fail, MayUse
<1>6. AnswersSound'
  BY DEF LInv, TypeOK, AnswersSound, PhasesSound, HandlesSound, InFlight, Kill, Clients,
     Close, Obey, Fail, MayUse
<1>7. MisuseOnlyAfterBreach'
  BY DEF LInv, TypeOK, MisuseOnlyAfterBreach, HandlesSound, Kill, Clients, Close, Obey,
     Fail, MayUse
<1>. QED
  BY <1>1, <1>2, <1>3, <1>4, <1>5, <1>6, <1>7 DEF LInv

(* A client deletes a handle, killed before or not.                        *)
LEMMA DeletePreserves ==
    ASSUME NEW h \in Handles, LInv, Delete(h)
    PROVE  LInv'
<1>1. TypeOK'
  BY DEF LInv, TypeOK, CallbacksCounted, WorkSound, HandlesSound, Delete, Clients, Close,
     Obey, Fail, MayUse
<1>2. PhasesSound'
  BY DEF LInv, TypeOK, PhasesSound, Delete, Clients, Close, Obey, Fail, MayUse
<1>3. HandlesSound'
  BY DEF LInv, TypeOK, HandlesSound, PhasesSound, Delete, Clients, Close, Obey, Fail,
     MayUse
<1>4. CallbacksCounted'
  BY DEF LInv, TypeOK, CallbacksCounted, HandlesSound, Delete, Clients, Close, Obey, Fail,
     MayUse
<1>5. WorkSound'
  BY DEF LInv, TypeOK, WorkSound, PhasesSound, Delete, Clients, Close, Obey, Fail, MayUse
<1>6. AnswersSound'
  BY DEF LInv, TypeOK, AnswersSound, PhasesSound, HandlesSound, InFlight, Delete, Clients,
     Close, Obey, Fail, MayUse
<1>7. MisuseOnlyAfterBreach'
  BY DEF LInv, TypeOK, MisuseOnlyAfterBreach, HandlesSound, Delete, Clients, Close, Obey,
     Fail, MayUse
<1>. QED
  BY <1>1, <1>2, <1>3, <1>4, <1>5, <1>6, <1>7 DEF LInv

(* A signal or timer is delivered.                                         *)
LEMMA FirePreserves ==
    ASSUME NEW h \in Handles, LInv, Fire(h)
    PROVE  LInv'
<1>1. TypeOK'
  BY DEF LInv, TypeOK, CallbacksCounted, WorkSound, HandlesSound, Fire, Looping
<1>2. PhasesSound'
  BY DEF LInv, TypeOK, PhasesSound, Fire, Looping
<1>3. HandlesSound'
  BY DEF LInv, TypeOK, HandlesSound, PhasesSound, Fire, Looping
<1>4. CallbacksCounted'
  BY DEF LInv, TypeOK, CallbacksCounted, HandlesSound, Fire, Looping
<1>5. WorkSound'
  BY DEF LInv, TypeOK, WorkSound, PhasesSound, Fire, Looping
<1>6. AnswersSound'
  BY DEF LInv, TypeOK, AnswersSound, PhasesSound, HandlesSound, InFlight, Fire, Looping
<1>7. MisuseOnlyAfterBreach'
  BY DEF LInv, TypeOK, MisuseOnlyAfterBreach, HandlesSound, Fire, Looping
<1>. QED
  BY <1>1, <1>2, <1>3, <1>4, <1>5, <1>6, <1>7 DEF LInv

(* A client creates a work item.                                           *)
LEMMA NewWorkPreserves ==
    ASSUME NEW w \in Works, NEW emulate \in BOOLEAN, LInv, NewWork(w, emulate)
    PROVE  LInv'
<1>1. TypeOK'
  BY DEF LInv, TypeOK, CallbacksCounted, WorkSound, HandlesSound, NewWork, Clients, Obey,
     MayCreate
<1>2. PhasesSound'
  BY DEF LInv, TypeOK, PhasesSound, NewWork, Clients, Obey, MayCreate
<1>3. HandlesSound'
  BY DEF LInv, TypeOK, HandlesSound, PhasesSound, NewWork, Clients, Obey, MayCreate
<1>4. CallbacksCounted'
  BY DEF LInv, TypeOK, CallbacksCounted, HandlesSound, NewWork, Clients, Obey, MayCreate
<1>5. WorkSound'
  BY DEF LInv, TypeOK, WorkSound, PhasesSound, NewWork, Clients, Obey, MayCreate
<1>6. AnswersSound'
  BY DEF LInv, TypeOK, AnswersSound, PhasesSound, HandlesSound, InFlight, NewWork,
     Clients, Obey, MayCreate
<1>7. MisuseOnlyAfterBreach'
  BY DEF LInv, TypeOK, MisuseOnlyAfterBreach, HandlesSound, NewWork, Clients, Obey,
     MayCreate
<1>. QED
  BY <1>1, <1>2, <1>3, <1>4, <1>5, <1>6, <1>7 DEF LInv

(* A worker thread goes on with an item.                                   *)
LEMMA WorkerPreserves ==
    ASSUME NEW w \in Works, LInv, Worker(w)
    PROVE  LInv'
<1>1. TypeOK'
  <2>1. /\ work' \in [Works -> WorkStates]
        /\ invoked' \in [Handles \cup Works -> BOOLEAN]
    BY DEF LInv, TypeOK, Worker, Take, Process, Processed
  <2>. QED
    BY <2>1 DEF LInv, TypeOK, Worker, Take, Process, Processed
<1>2. PhasesSound'
  BY DEF LInv, TypeOK, PhasesSound, Worker, Take, Process, Processed
<1>3. HandlesSound'
  BY DEF LInv, TypeOK, HandlesSound, PhasesSound, Worker, Take, Process, Processed
<1>4. CallbacksCounted'
  BY DEF LInv, TypeOK, CallbacksCounted, HandlesSound, Worker, Take, Process, Processed
<1>5. WorkSound'
  BY DEF LInv, TypeOK, WorkSound, PhasesSound, Worker, Take, Process, Processed
<1>6. AnswersSound'
  BY DEF LInv, TypeOK, AnswersSound, PhasesSound, HandlesSound, InFlight, Worker, Take,
     Process, Processed
<1>7. MisuseOnlyAfterBreach'
  BY DEF LInv, TypeOK, MisuseOnlyAfterBreach, HandlesSound, Worker, Take, Process,
     Processed
<1>. QED
  BY <1>1, <1>2, <1>3, <1>4, <1>5, <1>6, <1>7 DEF LInv

(* A client kills an item, wherever its worker is.                         *)
LEMMA KillWorkPreserves ==
    ASSUME NEW w \in Works, LInv, KillWork(w)
    PROVE  LInv'
<1>1. TypeOK'
  BY DEF LInv, TypeOK, CallbacksCounted, WorkSound, HandlesSound, KillWork, Clients,
     InvokedSeen, InFlight
<1>2. PhasesSound'
  BY DEF LInv, TypeOK, PhasesSound, KillWork, Clients, InvokedSeen, InFlight
<1>3. HandlesSound'
  BY DEF LInv, TypeOK, HandlesSound, PhasesSound, KillWork, Clients, InvokedSeen, InFlight
<1>4. CallbacksCounted'
  BY DEF LInv, TypeOK, CallbacksCounted, HandlesSound, KillWork, Clients, InvokedSeen,
     InFlight
<1>5. WorkSound'
  BY DEF LInv, TypeOK, WorkSound, PhasesSound, KillWork, Clients, InvokedSeen, InFlight
<1>6. AnswersSound'
  BY DEF LInv, TypeOK, AnswersSound, PhasesSound, HandlesSound, InFlight, KillWork,
     Clients, InvokedSeen
<1>7. MisuseOnlyAfterBreach'
  BY DEF LInv, TypeOK, MisuseOnlyAfterBreach, HandlesSound, KillWork, Clients,
     InvokedSeen, InFlight
<1>. QED
  BY <1>1, <1>2, <1>3, <1>4, <1>5, <1>6, <1>7 DEF LInv

(* The loop finishes an item, with or without its receiver.                *)
LEMMA FinishPreserves ==
    ASSUME NEW w \in Works, LInv, Finish(w)
    PROVE  LInv'
<1>1. TypeOK'
  BY DEF LInv, TypeOK, CallbacksCounted, WorkSound, HandlesSound, Finish, Looping
<1>2. PhasesSound'
  BY DEF LInv, TypeOK, PhasesSound, Finish, Looping
<1>3. HandlesSound'
  BY DEF LInv, TypeOK, HandlesSound, PhasesSound, Finish, Looping
<1>4. CallbacksCounted'
  BY DEF LInv, TypeOK, CallbacksCounted, HandlesSound, Finish, Looping
<1>5. WorkSound'
  BY DEF LInv, TypeOK, WorkSound, PhasesSound, Finish, Looping
<1>6. AnswersSound'
  BY DEF LInv, TypeOK, AnswersSound, PhasesSound, HandlesSound, InFlight, Finish, Looping
<1>7. MisuseOnlyAfterBreach'
  BY DEF LInv, TypeOK, MisuseOnlyAfterBreach, HandlesSound, Finish, Looping
<1>. QED
  BY <1>1, <1>2, <1>3, <1>4, <1>5, <1>6, <1>7 DEF LInv

(* A frame begins to run the loop.                                         *)
LEMMA RunOncePreserves ==
    ASSUME LInv, RunOnce
    PROVE  LInv'
<1>1. TypeOK'
  BY DEF LInv, TypeOK, CallbacksCounted, WorkSound, HandlesSound, RunOnce
<1>2. PhasesSound'
  BY DEF LInv, TypeOK, PhasesSound, RunOnce
<1>3. HandlesSound'
  BY DEF LInv, TypeOK, HandlesSound, PhasesSound, RunOnce
<1>4. CallbacksCounted'
  BY DEF LInv, TypeOK, CallbacksCounted, HandlesSound, RunOnce
<1>5. WorkSound'
  BY DEF LInv, TypeOK, WorkSound, PhasesSound, RunOnce
<1>6. AnswersSound'
  BY DEF LInv, TypeOK, AnswersSound, PhasesSound, HandlesSound, InFlight, RunOnce
<1>7. MisuseOnlyAfterBreach'
  BY DEF LInv, TypeOK, MisuseOnlyAfterBreach, HandlesSound, RunOnce
<1>. QED
  BY <1>1, <1>2, <1>3, <1>4, <1>5, <1>6, <1>7 DEF LInv

(* A callback or receiver returns.                                         *)
LEMMA CallbackReturnsPreserves ==
    ASSUME LInv, CallbackReturns
    PROVE  LInv'
<1>1. TypeOK'
  BY DEF LInv, TypeOK, CallbacksCounted, WorkSound, HandlesSound, CallbackReturns
<1>2. PhasesSound'
  BY DEF LInv, TypeOK, PhasesSound, CallbackReturns
<1>3. HandlesSound'
  BY DEF LInv, TypeOK, HandlesSound, PhasesSound, CallbackReturns
<1>4. CallbacksCounted'
  BY DEF LInv, TypeOK, CallbacksCounted, HandlesSound, CallbackReturns
<1>5. WorkSound'
  <2>1. CASE callback \in Works
    <3>1. /\ work[callback] = "receiving"
          /\ work'[callback] = "finished"
          /\ \A w \in Works \ {callback} : work'[w] = work[w]
          /\ \A w \in Works \ {callback} : work[w] # "receiving"
      BY <2>1 DEF LInv, TypeOK, WorkSound, CallbackReturns
    <3>2. /\ callback' = None
          /\ UNCHANGED <<ran, invoked, killed, revoked>>
      BY DEF CallbackReturns
    <3>3. ran[callback] = 1
      BY <2>1, <3>1 DEF LInv, WorkSound
    <3>. QED
      BY <3>1, <3>2, <3>3 DEF LInv, WorkSound
  <2>2. CASE callback \notin Works
    BY <2>2 DEF LInv, TypeOK, WorkSound, CallbackReturns
  <2>. QED
    BY <2>1, <2>2
<1>6. AnswersSound'
  BY DEF LInv, TypeOK, AnswersSound, PhasesSound, HandlesSound, InFlight, CallbackReturns
<1>7. MisuseOnlyAfterBreach'
  BY DEF LInv, TypeOK, MisuseOnlyAfterBreach, HandlesSound, CallbackReturns
<1>. QED
  BY <1>1, <1>2, <1>3, <1>4, <1>5, <1>6, <1>7 DEF LInv

(* Closed handles are given back.                                          *)
LEMMA CloseHandlesPreserves ==
    ASSUME LInv, CloseHandles
    PROVE  LInv'
<1>1. TypeOK'
  BY DEF LInv, TypeOK, CallbacksCounted, WorkSound, HandlesSound, CloseHandles, Looping
<1>2. PhasesSound'
  BY DEF LInv, TypeOK, PhasesSound, CloseHandles, Looping
<1>3. HandlesSound'
  BY DEF LInv, TypeOK, HandlesSound, PhasesSound, CloseHandles, Looping
<1>4. CallbacksCounted'
  BY DEF LInv, TypeOK, CallbacksCounted, HandlesSound, CloseHandles, Looping
<1>5. WorkSound'
  BY DEF LInv, TypeOK, WorkSound, PhasesSound, CloseHandles, Looping
<1>6. AnswersSound'
  BY DEF LInv, TypeOK, AnswersSound, PhasesSound, HandlesSound, InFlight, CloseHandles,
     Looping
<1>7. MisuseOnlyAfterBreach'
  BY DEF LInv, TypeOK, MisuseOnlyAfterBreach, HandlesSound, CloseHandles, Looping
<1>. QED
  BY <1>1, <1>2, <1>3, <1>4, <1>5, <1>6, <1>7 DEF LInv

(* A run of the loop ends, and with it perhaps Destroy.                    *)
LEMMA RunEndsPreserves ==
    ASSUME LInv, RunEnds
    PROVE  LInv'
<1>1. TypeOK'
  BY DEF LInv, TypeOK, CallbacksCounted, WorkSound, HandlesSound, RunEnds, Looping, Alive
<1>2. PhasesSound'
  BY DEF LInv, TypeOK, PhasesSound, RunEnds, Looping, Alive
<1>3. HandlesSound'
  BY DEF LInv, TypeOK, HandlesSound, PhasesSound, RunEnds, Looping, Alive
<1>4. CallbacksCounted'
  BY DEF LInv, TypeOK, CallbacksCounted, HandlesSound, RunEnds, Looping, Alive
<1>5. WorkSound'
  BY DEF LInv, TypeOK, WorkSound, PhasesSound, RunEnds, Looping, Alive
<1>6. AnswersSound'
  BY DEF LInv, TypeOK, AnswersSound, PhasesSound, HandlesSound, InFlight, RunEnds,
     Looping, Alive
<1>7. MisuseOnlyAfterBreach'
  BY DEF LInv, TypeOK, MisuseOnlyAfterBreach, HandlesSound, RunEnds, Looping, Alive
<1>. QED
  BY <1>1, <1>2, <1>3, <1>4, <1>5, <1>6, <1>7 DEF LInv

(* Duo closes what is left and runs the loop a last time.                  *)
LEMMA DestroyPreserves ==
    ASSUME LInv, Destroy
    PROVE  LInv'
<1>1. TypeOK'
  BY DEF LInv, TypeOK, CallbacksCounted, WorkSound, HandlesSound, Destroy, Obey, Fail,
     MayDestroy
<1>2. PhasesSound'
  BY DEF LInv, TypeOK, PhasesSound, Destroy, Obey, Fail, MayDestroy
<1>3. HandlesSound'
  BY DEF LInv, TypeOK, HandlesSound, PhasesSound, Destroy, Obey, Fail, MayDestroy
<1>4. CallbacksCounted'
  BY DEF LInv, TypeOK, CallbacksCounted, HandlesSound, Destroy, Obey, Fail, MayDestroy
<1>5. WorkSound'
  BY DEF LInv, TypeOK, WorkSound, PhasesSound, Destroy, Obey, Fail, MayDestroy
<1>6. AnswersSound'
  BY DEF LInv, TypeOK, AnswersSound, PhasesSound, HandlesSound, InFlight, Destroy, Obey,
     Fail, MayDestroy
<1>7. MisuseOnlyAfterBreach'
  BY DEF LInv, TypeOK, MisuseOnlyAfterBreach, HandlesSound, Destroy, Obey, Fail,
     MayDestroy
<1>. QED
  BY <1>1, <1>2, <1>3, <1>4, <1>5, <1>6, <1>7 DEF LInv

-----------------------------------------------------------------------------
(* The initial state satisfies the invariant.                              *)
LEMMA InitSound == Init => LInv
<1>. SUFFICES ASSUME Init
              PROVE  LInv
  OBVIOUS
<1>1. TypeOK
  <2>1. /\ loop \in LoopStates /\ stage \in Stages /\ callback = None
        /\ due = {} /\ misled = {} /\ revoked = {} /\ walked = {}
        /\ fault \in Faults /\ breached \in BOOLEAN
    BY DEF Init
  <2>2. /\ object \in [Handles -> ObjectStates]
        /\ uv \in [Handles -> UvStates]
        /\ work \in [Works -> WorkStates]
    BY DEF Init
  <2>3. /\ killed \in [Handles \cup Works -> BOOLEAN]
        /\ invoked \in [Handles \cup Works -> BOOLEAN]
    BY DEF Init
  <2>4. /\ sent \in [Handles -> 0 .. MaxSends]
        /\ ran \in [Handles \cup Works -> 0 .. MaxSends]
    BY DEF Init
  <2>. QED
    BY <2>1, <2>2, <2>3, <2>4 DEF TypeOK
<1>2. HandlesSound /\ CallbacksCounted
  BY DEF Init, HandlesSound, CallbacksCounted
<1>3. WorkSound
  BY DEF Init, WorkSound
<1>4. PhasesSound /\ AnswersSound /\ MisuseOnlyAfterBreach
  BY DEF Init, PhasesSound, AnswersSound, MisuseOnlyAfterBreach
<1>. QED
  BY <1>1, <1>2, <1>3, <1>4 DEF LInv

(* Every step preserves it.                                                *)
LEMMA NextPreserves == LInv /\ [Next]_vars => LInv'
<1>. SUFFICES ASSUME LInv, [Next]_vars
              PROVE  LInv'
  OBVIOUS
<1>1. CASE UNCHANGED vars
  BY <1>1 DEF vars, LInv, TypeOK, PhasesSound, HandlesSound, CallbacksCounted, WorkSound,
     AnswersSound, MisuseOnlyAfterBreach, InFlight
<1>2. CASE Initialize \/ RunOnce \/ CallbackReturns \/ CloseHandles \/ RunEnds \/ Destroy
  BY <1>2, InitializePreserves, RunOncePreserves, CallbackReturnsPreserves,
     CloseHandlesPreserves, RunEndsPreserves, DestroyPreserves
<1>3. ASSUME NEW h \in Handles, NewHandle(h) \/ Kill(h) \/ Delete(h) \/ Fire(h)
      PROVE  LInv'
  BY <1>3, NewHandlePreserves, KillPreserves, DeletePreserves, FirePreserves
<1>4. ASSUME NEW a \in Asyncs, TryInvoke(a)
      PROVE  LInv'
  BY <1>4, TryInvokePreserves
<1>5. ASSUME NEW d \in Delays, TryDelay(d)
      PROVE  LInv'
  BY <1>5, TryDelayPreserves
<1>6. ASSUME NEW w \in Works, NEW emulate \in BOOLEAN, NewWork(w, emulate)
      PROVE  LInv'
  BY <1>6, NewWorkPreserves
<1>7. ASSUME NEW w \in Works, Worker(w) \/ KillWork(w) \/ Finish(w)
      PROVE  LInv'
  BY <1>7, WorkerPreserves, KillWorkPreserves, FinishPreserves
<1>. QED
  BY <1>1, <1>2, <1>3, <1>4, <1>5, <1>6, <1>7 DEF Next

(* The only steps that run a callback, a receiver included, and what they  *)
(* require: the handle is due, or the item is new or processed and not     *)
(* killed.                                                                 *)
LEMMA CallbacksRun ==
    ASSUME LInv, [Next]_vars, NEW x \in Handles \cup Works, ran'[x] > ran[x]
    PROVE  \/ x \in due
           \/ x \in Works /\ (work[x] = "none" \/ ~killed[x])
<1>1. ran[x] \in Int
  BY DEF LInv, TypeOK
<1>2. ran' # ran
  BY <1>1
<1>3. \/ \E h \in Handles : Fire(h)
      \/ \E w \in Works : (\E emulate \in BOOLEAN : NewWork(w, emulate)) \/ Finish(w)
  BY <1>2 DEF Next, vars, Initialize, RunOnce, CallbackReturns, CloseHandles, RunEnds, Destroy,
     NewHandle, Kill, Delete, TryInvoke, TryDelay, Worker, Take, Process, Processed, KillWork
<1>4. ASSUME NEW h \in Handles, Fire(h)
      PROVE  x \in due
  BY <1>1, <1>4 DEF Fire, LInv, TypeOK
<1>5. ASSUME NEW w \in Works, NEW emulate \in BOOLEAN, NewWork(w, emulate)
      PROVE  x \in Works /\ work[x] = "none"
  BY <1>1, <1>5 DEF NewWork, LInv, TypeOK
<1>6. ASSUME NEW w \in Works, Finish(w)
      PROVE  x \in Works /\ ~killed[x]
  BY <1>1, <1>6 DEF Finish, LInv, TypeOK
<1>. QED
  BY <1>3, <1>4, <1>5, <1>6

-----------------------------------------------------------------------------
(* Whatever clients, workers and the game thread do, in any order, with or *)
(* without breaking the shutdown contract: the invariant holds.            *)
THEOREM LoopInductive == Spec => []LInv
BY InitSound, NextPreserves, PTL DEF Spec

(* No libuv handle is closed twice or used after it was freed, and no      *)
(* stopped loop is used, before the shutdown contract was broken: the      *)
(* flags that Kill, the destructors and OnWalk each look at suffice.       *)
THEOREM MisuseNeedsBreach == Spec => []MisuseOnlyAfterBreach
<1>1. LInv => MisuseOnlyAfterBreach
  BY DEF LInv
<1>. QED
  BY <1>1, LoopInductive, PTL

(* Every callback answers an accepted invocation of its own, and every     *)
(* work item that was not killed is received exactly once.                 *)
THEOREM RepliesAreOnce == Spec => []OneReplyEach
<1>1. ASSUME LInv
      PROVE  WorkSettled
  BY <1>1 DEF LInv, TypeOK, WorkSound, WorkSettled
<1>2. ASSUME LInv, NEW h \in Handles
      PROVE  ran[h] + Cardinality({h} \cap due) <= sent[h]
  <2>1. CASE h \in due
    <3>1. {h} \cap due = {h} /\ Cardinality({h}) = 1
      BY <2>1, FS_Singleton
    <3>. QED
      BY <1>2, <2>1, <3>1 DEF LInv, CallbacksCounted
  <2>2. CASE h \notin due
    <3>1. {h} \cap due = {} /\ Cardinality({}) = 0
      BY <2>2, FS_EmptySet
    <3>. QED
      BY <1>2, <2>2, <3>1 DEF LInv, CallbacksCounted
  <2>. QED
    BY <2>1, <2>2
<1>3. ASSUME LInv, NEW a \in Asyncs
      PROVE  ran[a] <= 1
  BY <1>3 DEF LInv, TypeOK, CallbacksCounted
<1>4. LInv => OneReplyEach
  BY <1>1, <1>2, <1>3 DEF LInv, OneReplyEach
<1>. QED
  BY <1>4, LoopInductive, PTL

(* Whoever killed a handle or an item, deleted it or closed it in Destroy  *)
(* hears nothing more of it, at whatever point its signal, its timer or    *)
(* its worker was.                                                         *)
THEOREM SilentAfterKill == Spec => KilledStaysSilent
<1>1. ASSUME LInv, [Next]_vars, NEW x \in Handles \cup Works, ran'[x] > ran[x]
      PROVE  x \notin revoked \cup walked
  <2>1. CASE x \in due
    BY <1>1, <2>1 DEF LInv, TypeOK, HandlesSound
  <2>2. CASE x \in Works /\ (work[x] = "none" \/ ~killed[x])
    BY <1>1, <2>2 DEF LInv, TypeOK, WorkSound
  <2>. QED
    BY <1>1, <2>1, <2>2, CallbacksRun
<1>2. LInv /\ [Next]_vars =>
        [\A x \in Handles \cup Works :
            ran'[x] > ran[x] => x \notin revoked \cup walked]_vars
  BY <1>1
<1>. QED
  BY <1>2, LoopInductive, PTL DEF Spec, KilledStaysSilent

(* When Destroy has answered, every handle it closed is given back, and    *)
(* its answer says truly whether anything else is left of the loop.        *)
THEOREM ShutdownIsClean == Spec => []ShutdownClears
<1>1. LInv => ShutdownClears
  BY DEF LInv, TypeOK, HandlesSound, AnswersSound, ShutdownClears
<1>. QED
  BY <1>1, LoopInductive, PTL

=============================================================================
