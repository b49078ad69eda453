----------------------------- MODULE EventLoop ------------------------------
(***************************************************************************)
(* The event loop: Loop, AsyncHandle, DelayHandle, WorkHandle, and what    *)
(* they use of libuv.                                                      *)
(*                                                                         *)
(* The game thread runs the loop once per frame and is the only one that   *)
(* calls it; clients run in the loop's callbacks or between two frames.    *)
(* Worker threads run the processors of work items.  A handle object owns  *)
(* a uv_handle_t that libuv keeps until a closed handle's turn comes.      *)
(*                                                                         *)
(* `fault` is the misuse of libuv the program has run into, after which    *)
(* nothing is modelled.  `breached` is a history variable: the host or a   *)
(* client did not keep the shutdown contract below; with Orderly = TRUE    *)
(* they keep it.                                                           *)
(***************************************************************************)
EXTENDS Integers, FiniteSets

CONSTANTS
    Asyncs,    \* the AsyncHandles clients create
    Delays,    \* the DelayHandles they create
    Works,     \* the work items they create
    None,      \* no callback is running
    MaxSends,  \* accepted invocations of one handle
    Orderly    \* whether host and clients keep the shutdown contract

Handles == Asyncs \cup Delays

ASSUME KindsAssumption ==
    /\ Asyncs \cap Delays = {}
    /\ Handles \cap Works = {}
    /\ None \notin Handles \cup Works
ASSUME MaxSendsAssumption == MaxSends \in Nat \ {0}
ASSUME OrderlyAssumption == Orderly \in BOOLEAN

LoopStates ==
    {"new",         \* before Initialize
     "active",
     "destroying",  \* in the uv_run of Destroy that follows the walk
     "failed",      \* Destroy returned false
     "stopped"}     \* Destroy returned true

(* The part of a uv_run that is under way.  Closed handles are given back  *)
(* between the two; libuv runs timers before that point or after it,       *)
(* depending on its version.                                               *)
Stages == {"outside", "early", "late"}

ObjectStates == {"none", "live", "deleted"}

UvStates == {"none", "open", "closing", "freed"}

WorkStates ==
    {"none",
     "queued",      \* in libuv's queue
     "taken",       \* a worker has it, OnWork has not written _invoked
     "processing",
     "done",        \* processed, to be finished by the loop
     "cancelled",   \* uv_cancel took it out of the queue
     "receiving",   \* its receiver runs
     "finished"}    \* the WorkHandle is deleted

Faults == {"none", "closed_twice", "use_after_free", "closed_loop"}

VARIABLES
    loop,
    stage,
    callback,  \* the handle or work item whose callback runs
    object,    \* of each handle: the AsyncHandle or DelayHandle
    killed,    \* _killed (and a null _handle), of handles and work items
    invoked,   \* _invoked, of handles and work items
    uv,        \* the uv_handle_t of each handle
    due,       \* handles with an async signal or a started timer
    sent,      \* history: accepted invocations of each handle
    ran,       \* history: callbacks of each handle, receivers of each item
    misled,    \* history: asyncs that took an invocation and answered false
    work,      \* the state of each work item
    revoked,   \* history: handles and items killed, or deleted by clients
    walked,    \* history: handles that Destroy closed
    fault,
    breached

vars == <<loop, stage, callback, object, killed, invoked, uv, due, sent, ran,
          misled, work, revoked, walked, fault, breached>>

-----------------------------------------------------------------------------
(* Client code runs in a callback, or on the game thread between frames.   *)
Clients == fault = "none" /\ (callback # None \/ stage = "outside")

(* The loop itself is at work.                                             *)
Looping == fault = "none" /\ callback = None /\ stage # "outside"

InFlight(w) == work[w] \notin {"none", "finished"}

(* uv_loop_alive: an async handle is active while it is open, a timer      *)
(* while it is started.                                                    *)
Alive ==
    \/ \E h \in Handles : uv[h] = "closing"
    \/ \E a \in Asyncs : uv[a] = "open"
    \/ \E d \in Delays : uv[d] = "open" /\ d \in due
    \/ \E w \in Works : InFlight(w)

(* The shutdown contract: nothing is being closed when Destroy is called,  *)
(* and a handle that Destroy closed is not used again, nor a loop it       *)
(* stopped.                                                                *)
MayDestroy == loop # "stopped" /\ \A h \in Handles : uv[h] # "closing"

MayUse(h) == h \notin walked /\ loop # "stopped"

MayCreate == loop # "stopped"

Obey(ok) ==
    /\ Orderly => ok
    /\ breached' = (breached \/ ~ok)

Fail(kind) ==
    /\ fault' = kind
    /\ UNCHANGED <<uv, due>>

(* uv_close.                                                               *)
Close(h) ==
    \/ /\ uv[h] = "open"
       /\ uv' = [uv EXCEPT ![h] = "closing"]
       /\ due' = due \ {h}
       /\ UNCHANGED fault
    \/ uv[h] = "closing" /\ Fail("closed_twice")
    \/ uv[h] = "freed" /\ Fail("use_after_free")

(* uv_async_send, uv_timer_start: they have no effect on a closing handle. *)
Signal(h) ==
    \/ /\ uv[h] = "open"
       /\ due' = due \cup {h}
       /\ UNCHANGED <<uv, fault>>
    \/ uv[h] = "closing" /\ UNCHANGED <<uv, due, fault>>
    \/ uv[h] = "freed" /\ Fail("use_after_free")

-----------------------------------------------------------------------------
(* Handles.                                                                *)

(* Loop::NewAsync, Loop::NewDelay.                                         *)
NewHandle(h) ==
    /\ Clients
    /\ loop # "new"
    /\ object[h] = "none"
    /\ Obey(MayCreate)
    /\ IF loop = "stopped"
       THEN Fail("closed_loop") /\ UNCHANGED object
       ELSE /\ object' = [object EXCEPT ![h] = "live"]
            /\ uv' = [uv EXCEPT ![h] = "open"]
            /\ UNCHANGED <<due, fault>>
    /\ UNCHANGED <<loop, stage, callback, killed, invoked, sent, ran, misled,
                   work, revoked, walked>>

(* Mutant of TryInvoke: _invoked is not tested.                            *)
TryInvokeAgain(a) ==
    /\ Clients
    /\ object[a] = "live"
    /\ ~killed[a]
    /\ sent[a] < MaxSends
    /\ Obey(MayUse(a))
    /\ Signal(a)
    /\ invoked' = [invoked EXCEPT ![a] = TRUE]
    /\ sent' = [sent EXCEPT ![a] = @ + 1]
    /\ misled' = misled
    /\ UNCHANGED <<loop, stage, callback, object, killed, ran, work, revoked, walked>>

(* AsyncHandle::TryInvoke on a handle that is neither killed nor invoked:  *)
(* it has no return statement on this path, so it answers anything.        *)
TryInvoke(a) ==
    /\ Clients
    /\ object[a] = "live"
    /\ ~killed[a]
    /\ ~invoked[a]
    /\ Obey(MayUse(a))
    /\ Signal(a)
    /\ invoked' = [invoked EXCEPT ![a] = TRUE]
    /\ sent' = [sent EXCEPT ![a] = @ + 1]
    /\ \E answer \in BOOLEAN :
          misled' = IF answer THEN misled ELSE misled \cup {a}
    /\ UNCHANGED <<loop, stage, callback, object, killed, ran, work, revoked, walked>>

(* DelayHandle::TryDelay on a handle that is not killed; starting a timer  *)
(* again replaces its earlier start.                                       *)
TryDelay(d) ==
    /\ Clients
    /\ object[d] = "live"
    /\ ~killed[d]
    /\ sent[d] < MaxSends
    /\ Obey(MayUse(d))
    /\ Signal(d)
    /\ invoked' = [invoked EXCEPT ![d] = TRUE]
    /\ sent' = [sent EXCEPT ![d] = @ + 1]
    /\ UNCHANGED <<loop, stage, callback, object, killed, ran, misled, work,
                   revoked, walked>>

(* Mutant of Kill: _killed is not set.                                     *)
KillForgetting(h) ==
    /\ Clients
    /\ object[h] = "live"
    /\ ~killed[h]
    /\ Obey(MayUse(h))
    /\ Close(h)
    /\ revoked' = revoked \cup {h}
    /\ UNCHANGED <<loop, stage, callback, object, killed, invoked, sent, ran,
                   misled, work, walked>>

(* AsyncHandle::Kill, DelayHandle::Kill.                                   *)
Kill(h) ==
    /\ Clients
    /\ object[h] = "live"
    /\ ~killed[h]
    /\ Obey(MayUse(h))
    /\ Close(h)
    /\ killed' = [killed EXCEPT ![h] = TRUE]
    /\ revoked' = revoked \cup {h}
    /\ UNCHANGED <<loop, stage, callback, object, invoked, sent, ran, misled,
                   work, walked>>

(* The destructors.                                                        *)
Delete(h) ==
    /\ Clients
    /\ object[h] = "live"
    /\ Obey(MayUse(h))
    /\ IF killed[h] THEN UNCHANGED <<uv, due, fault>> ELSE Close(h)
    /\ object' = [object EXCEPT ![h] = "deleted"]
    /\ revoked' = revoked \cup {h}
    /\ UNCHANGED <<loop, stage, callback, killed, invoked, sent, ran, misled,
                   work, walked>>

(* OnAsync, OnDelay: libuv has taken the signal when the callback starts.  *)
Fire(h) ==
    /\ Looping
    /\ h \in due
    /\ stage = "early" \/ h \in Delays
    /\ due' = due \ {h}
    /\ callback' = h
    /\ ran' = [ran EXCEPT ![h] = @ + 1]
    /\ UNCHANGED <<loop, stage, object, killed, invoked, uv, sent, misled, work,
                   revoked, walked, fault, breached>>

-----------------------------------------------------------------------------
(* Work items.                                                             *)

(* NewWorkUnsafe, with or without emulation: an emulated item is processed *)
(* and received at once and has no handle.                                 *)
NewWork(w, emulate) ==
    /\ Clients
    /\ loop # "new"
    /\ work[w] = "none"
    /\ Obey(MayCreate)
    /\ IF emulate
       THEN /\ work' = [work EXCEPT ![w] = "finished"]
            /\ ran' = [ran EXCEPT ![w] = @ + 1]
            /\ UNCHANGED fault
       ELSE IF loop = "stopped"
       THEN fault' = "closed_loop" /\ UNCHANGED <<work, ran>>
       ELSE work' = [work EXCEPT ![w] = "queued"] /\ UNCHANGED <<ran, fault>>
    /\ UNCHANGED <<loop, stage, callback, object, killed, invoked, uv, due, sent,
                   misled, revoked, walked>>

(* A worker thread takes the item out of libuv's queue.                    *)
Take(w) ==
    /\ fault = "none"
    /\ work[w] = "queued"
    /\ work' = [work EXCEPT ![w] = "taken"]
    /\ UNCHANGED <<loop, stage, callback, object, killed, invoked, uv, due, sent,
                   ran, misled, revoked, walked, fault, breached>>

(* OnWork, up to the processor.                                            *)
Process(w) ==
    /\ fault = "none"
    /\ work[w] = "taken"
    /\ work' = [work EXCEPT ![w] = "processing"]
    /\ invoked' = [invoked EXCEPT ![w] = TRUE]
    /\ UNCHANGED <<loop, stage, callback, object, killed, uv, due, sent, ran,
                   misled, revoked, walked, fault, breached>>

(* The processor returns, and OnWork.                                      *)
Processed(w) ==
    /\ fault = "none"
    /\ work[w] = "processing"
    /\ work' = [work EXCEPT ![w] = "done"]
    /\ UNCHANGED <<loop, stage, callback, object, killed, invoked, uv, due, sent,
                   ran, misled, revoked, walked, fault, breached>>

(* What Kill may read of _invoked, which OnWork writes without a lock.     *)
InvokedSeen(w) ==
    IF work[w] \in {"taken", "processing"} THEN BOOLEAN ELSE {invoked[w]}

(* Mutant of KillWork: an item that was not invoked is only cancelled, one  *)
(* that was is only marked.                                                *)
KillWorkEither(w) ==
    /\ Clients
    /\ InFlight(w)
    /\ ~killed[w]
    /\ revoked' = revoked \cup {w}
    /\ \E seen \in InvokedSeen(w) :
          /\ killed' = [killed EXCEPT ![w] = seen]
          /\ work' = IF ~seen /\ work[w] = "queued"
                     THEN [work EXCEPT ![w] = "cancelled"] ELSE work
    /\ UNCHANGED <<loop, stage, callback, object, invoked, uv, due, sent, ran,
                   misled, walked, fault, breached>>

(* WorkHandle::Kill, on a handle whose receiver has not returned.          *)
KillWork(w) ==
    /\ Clients
    /\ InFlight(w)
    /\ ~killed[w]
    /\ killed' = [killed EXCEPT ![w] = TRUE]
    /\ revoked' = revoked \cup {w}
    /\ \E seen \in InvokedSeen(w) :
          work' = IF ~seen /\ work[w] = "queued"
                  THEN [work EXCEPT ![w] = "cancelled"] ELSE work
    /\ UNCHANGED <<loop, stage, callback, object, invoked, uv, due, sent, ran,
                   misled, walked, fault, breached>>

(* Mutant of Finish: it returns early for killed items.                     *)
FinishUnkilled(w) ==
    /\ Looping
    /\ stage = "early"
    /\ work[w] = "done" /\ ~killed[w]
    /\ callback' = w
    /\ work' = [work EXCEPT ![w] = "receiving"]
    /\ ran' = [ran EXCEPT ![w] = @ + 1]
    /\ UNCHANGED <<loop, stage, object, killed, invoked, uv, due, sent, misled,
                   revoked, walked, fault, breached>>

(* OnFinish, up to the receiver if there is one to call.                   *)
Finish(w) ==
    /\ Looping
    /\ stage = "early"
    /\ work[w] \in {"done", "cancelled"}
    /\ IF work[w] # "cancelled" /\ ~killed[w]
       THEN /\ callback' = w
            /\ work' = [work EXCEPT ![w] = "receiving"]
            /\ ran' = [ran EXCEPT ![w] = @ + 1]
       ELSE /\ work' = [work EXCEPT ![w] = "finished"]
            /\ UNCHANGED <<callback, ran>>
    /\ UNCHANGED <<loop, stage, object, killed, invoked, uv, due, sent, misled,
                   revoked, walked, fault, breached>>

-----------------------------------------------------------------------------
(* The loop.                                                               *)

Initialize ==
    /\ loop = "new"
    /\ loop' = "active"
    /\ UNCHANGED <<stage, callback, object, killed, invoked, uv, due, sent, ran,
                   misled, work, revoked, walked, fault, breached>>

(* RunOnce, the beginning of uv_run.                                       *)
RunOnce ==
    /\ fault = "none"
    /\ stage = "outside"
    /\ loop = "active"
    /\ stage' = "early"
    /\ UNCHANGED <<loop, callback, object, killed, invoked, uv, due, sent, ran,
                   misled, work, revoked, walked, fault, breached>>

(* A callback returns; a work item is deleted after its receiver.          *)
CallbackReturns ==
    /\ fault = "none"
    /\ callback # None
    /\ callback' = None
    /\ work' = IF callback \in Works
               THEN [work EXCEPT ![callback] = "finished"] ELSE work
    /\ UNCHANGED <<loop, stage, object, killed, invoked, uv, due, sent, ran,
                   misled, revoked, walked, fault, breached>>

(* Every handle that is closing is closed, and OnDeallocate frees it.      *)
CloseHandles ==
    /\ Looping
    /\ stage = "early"
    /\ stage' = "late"
    /\ uv' = [h \in Handles |-> IF uv[h] = "closing" THEN "freed" ELSE uv[h]]
    /\ UNCHANGED <<loop, callback, object, killed, invoked, due, sent, ran, misled,
                   work, revoked, walked, fault, breached>>

(* uv_run ends; in Destroy, what is left decides what it answers.          *)
RunEnds ==
    /\ Looping
    /\ stage = "late"
    /\ stage' = "outside"
    /\ loop' = IF loop # "destroying" THEN loop
               ELSE IF Alive THEN "failed" ELSE "stopped"
    /\ UNCHANGED <<callback, object, killed, invoked, uv, due, sent, ran, misled,
                   work, revoked, walked, fault, breached>>

(* Mutant of Destroy: the loop has no iteration after the walk.             *)
DestroyAtOnce ==
    /\ fault = "none"
    /\ stage = "outside"
    /\ loop # "new"
    /\ Obey(MayDestroy)
    /\ loop' = "destroying"
    /\ stage' = "late"
    /\ walked' = walked \cup {h \in Handles : uv[h] = "open"}
    /\ uv' = [h \in Handles |-> IF uv[h] = "open" THEN "closing" ELSE uv[h]]
    /\ due' = {}
    /\ UNCHANGED <<callback, object, killed, invoked, sent, ran, misled, work,
                   revoked, fault>>

(* Destroy up to its last uv_run.  The first one returns at once, because  *)
(* uv_stop was called.  OnWalk closes every handle that libuv still has,   *)
(* those already closing included.                                         *)
Destroy ==
    /\ fault = "none"
    /\ stage = "outside"
    /\ loop # "new"
    /\ Obey(MayDestroy)
    /\ IF loop = "stopped" THEN Fail("closed_loop") /\ UNCHANGED <<loop, stage, walked>>
       ELSE IF \E h \in Handles : uv[h] = "closing"
       THEN Fail("closed_twice") /\ UNCHANGED <<loop, stage, walked>>
       ELSE /\ loop' = "destroying"
            /\ stage' = "early"
            /\ walked' = walked \cup {h \in Handles : uv[h] = "open"}
            /\ uv' = [h \in Handles |-> IF uv[h] = "open" THEN "closing" ELSE uv[h]]
            /\ due' = {}
            /\ UNCHANGED fault
    /\ UNCHANGED <<callback, object, killed, invoked, sent, ran, misled, work,
                   revoked>>

-----------------------------------------------------------------------------

Init ==
    /\ loop = "new"
    /\ stage = "outside"
    /\ callback = None
    /\ object = [h \in Handles |-> "none"]
    /\ killed = [x \in Handles \cup Works |-> FALSE]
    /\ invoked = [x \in Handles \cup Works |-> FALSE]
    /\ uv = [h \in Handles |-> "none"]
    /\ due = {}
    /\ sent = [h \in Handles |-> 0]
    /\ ran = [x \in Handles \cup Works |-> 0]
    /\ misled = {}
    /\ work = [w \in Works |-> "none"]
    /\ revoked = {}
    /\ walked = {}
    /\ fault = "none"
    /\ breached = FALSE

Worker(w) == Take(w) \/ Process(w) \/ Processed(w)

Next ==
    \/ Initialize
    \/ \E h \in Handles : NewHandle(h) \/ Kill(h) \/ Delete(h) \/ Fire(h)
    \/ \E a \in Asyncs : TryInvoke(a)
    \/ \E d \in Delays : TryDelay(d)
    \/ \E w \in Works :
          \/ \E emulate \in BOOLEAN : NewWork(w, emulate)
          \/ Worker(w)
          \/ KillWork(w)
          \/ Finish(w)
    \/ RunOnce
    \/ CallbackReturns
    \/ CloseHandles
    \/ RunEnds
    \/ Destroy

Spec == Init /\ [][Next]_vars

(* The game runs the loop on every frame, a run of it goes on to its end,  *)
(* callbacks return, and workers go on.  A timer expires, and each run     *)
(* polls for signals and processed items, so one that is there again and   *)
(* again is delivered.                                                     *)
Fairness ==
    /\ WF_vars(RunOnce)
    /\ WF_vars(CallbackReturns)
    /\ WF_vars(CloseHandles \/ RunEnds)
    /\ \A w \in Works : WF_vars(Worker(w)) /\ SF_vars(Finish(w))
    /\ \A h \in Handles : SF_vars(Fire(h))

FairSpec == Spec /\ Fairness

-----------------------------------------------------------------------------
(* Properties.                                                             *)

TypeOK ==
    /\ loop \in LoopStates
    /\ stage \in Stages
    /\ callback \in Handles \cup Works \cup {None}
    /\ object \in [Handles -> ObjectStates]
    /\ killed \in [Handles \cup Works -> BOOLEAN]
    /\ invoked \in [Handles \cup Works -> BOOLEAN]
    /\ uv \in [Handles -> UvStates]
    /\ due \subseteq Handles
    /\ sent \in [Handles -> 0 .. MaxSends]
    /\ ran \in [Handles \cup Works -> 0 .. MaxSends]
    /\ misled \subseteq Asyncs
    /\ work \in [Works -> WorkStates]
    /\ revoked \subseteq Handles \cup Works
    /\ walked \subseteq Handles
    /\ fault \in Faults
    /\ breached \in BOOLEAN

(* libuv handles are closed once and never used after that, nor a stopped  *)
(* loop, unless the shutdown contract was broken: Kill, the destructors    *)
(* and OnWalk close by flags and pointers of their own, in any order.      *)
MisuseOnlyAfterBreach == fault # "none" => breached

(* An item that was not killed is received once and not dropped; a         *)
(* cancelled one was killed before its processor ran.                      *)
WorkSettled ==
    \A w \in Works :
        /\ ran[w] <= 1
        /\ work[w] = "finished" /\ w \notin revoked => ran[w] = 1
        /\ work[w] = "cancelled" => w \in revoked /\ ~invoked[w] /\ ran[w] = 0

(* Every callback answers an accepted invocation of its own, a replaced    *)
(* timer start has none, an async handle runs its callback once ever, and  *)
(* work is settled as above.                                               *)
OneReplyEach ==
    /\ TypeOK
    /\ WorkSettled
    /\ \A h \in Handles :
          ran[h] + Cardinality({h} \cap due) <= sent[h]
    /\ \A a \in Asyncs : ran[a] <= 1

(* Once it was killed, deleted or closed by Destroy, a handle runs no more *)
(* callbacks, also when it was signalled before; nor is the receiver of a  *)
(* killed item called, wherever the kill found its worker.                 *)
KilledStaysSilent ==
    [][\A x \in Handles \cup Works :
           ran'[x] > ran[x] => x \notin revoked \cup walked]_vars

(* Destroy frees every handle it closed.  It stops the loop only when no   *)
(* worker still has an item, and fails only because of such an item or of  *)
(* a handle that a receiver created meanwhile.                             *)
ShutdownClears ==
    loop \in {"failed", "stopped"} /\ stage = "outside" =>
        /\ \A h \in walked : uv[h] = "freed"
        /\ loop = "stopped" => \A w \in Works : ~InFlight(w)
        /\ loop = "failed" => \/ \E w \in Works : InFlight(w)
                              \/ \E h \in Handles \ walked : uv[h] \in {"open", "closing"}

(* A signal or timer that was accepted runs its callback, unless the       *)
(* handle is closed first, and a work item is finished, unless Destroy     *)
(* gave up on it.                                                          *)
AcceptedIsDelivered ==
    /\ \A h \in Handles : (h \in due) ~> (h \notin due \/ loop = "failed")
    /\ \A w \in Works : InFlight(w) ~> (work[w] = "finished" \/ loop = "failed")

(* "Destroy all handles in libuv to perform a clean shutdown" (OnWalk,     *)
(* src/Core/Loop/Loop.h:33): no handle is closed twice by it.              *)
CleanShutdown == fault # "closed_twice"

(* "Returns true when the handle is still alive" (TryInvoke,               *)
(* src/Core/Loop/AsyncHandle.h:19).                                        *)
AnswersTruly == misled = {}
=============================================================================
