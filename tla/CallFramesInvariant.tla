------------------------- MODULE CallFramesInvariant -------------------------
(***************************************************************************)
(* Why the values of CallFrames arrive: an inductive invariant of what the *)
(* cursor, the frame and the activations of a fiber say of each other.     *)
(***************************************************************************)
EXTENDS CallFrames

Depth == 1 .. Len(active)

(* The frame of a native call begins with self, and nothing is pushed on   *)
(* top of it before the call answers.                                      *)
NativeFrame(f) ==
    /\ stack[f] # <<>> /\ stack[f][1] = Self
    /\ call[f].self = 1
    /\ call[f].push = Len(stack[f])
    /\ call[f].pop = 0

(* A fiber that stopped without an error left exactly its frame.           *)
StoppedFrame(f) ==
    /\ stack[f] = left[f]
    /\ call[f].self = 0
    /\ call[f].push = Len(stack[f])
    /\ ~call[f].failed

(* One that failed has a reset thread, and a length that counts what the   *)
(* thread no longer has.                                                   *)
FailedFrame(f) ==
    /\ stack[f] = <<>> /\ left[f] = <<>>
    /\ call[f].self = 0
    /\ call[f].push >= 1
    /\ call[f].failed

FrameOK(f) ==
    /\ doing[f] \in Natives => NativeFrame(f)
    /\ doing[f] \in {"yielded", "ended"} => StoppedFrame(f)
    /\ doing[f] = "failed" => FailedFrame(f)

FramesOK == \A f \in Fibers : FrameOK(f)

(* The function is below the arguments of the first lua_resume only, and a *)
(* fiber that waits has yielded.                                           *)
LifeOK(f) ==
    /\ first[f] = IF doing[f] = "fresh" THEN 1 ELSE 0
    /\ waits[f] # "nothing" => doing[f] = "yielded"

LivesOK == \A f \in Fibers : LifeOK(f)

(* The fiber below an activation is where that activation began.           *)
Caller(via) ==
    CASE via = "new" -> {"New"}
      [] via = "resume" -> {"Resume"}
      [] OTHER -> {"ended", "failed"}

(* Only the innermost fiber may have just yielded, the host starts only    *)
(* the outermost one, and those between wait in Fiber.New or Fiber:Resume  *)
(* or continue their dependants.                                           *)
ActivationOK(i) ==
    /\ doing[active[i].fiber] \notin {"fresh", "freed"}
    /\ active[i].via = "host" <=> i = 1
    /\ i > 1 => doing[active[i - 1].fiber] \in Caller(active[i].via)

ActivationsOK == \A i \in Depth : ActivationOK(i)

OneActivation ==
    \A i, j \in Depth : active[i].fiber = active[j].fiber => i = j

(* A dependant waits in one list, at one place.                            *)
DependantsWait ==
    \A g \in Fibers : \A i \in DOMAIN deps[g] : waits[deps[g][i]] = "fiber"

OneDependency ==
    \A g, h \in Fibers : \A i \in DOMAIN deps[g], j \in DOMAIN deps[h] :
        deps[g][i] = deps[h][j] => g = h /\ i = j

(* What changed hands last did so as it should.                            *)
HandedOK == ArgumentsArrive /\ DependantsGetResults /\ ResultsArrive

CallFramesInvariant ==
    /\ TypeOK
    /\ FramesOK /\ LivesOK
    /\ ActivationsOK /\ OneActivation
    /\ DependantsWait /\ OneDependency
    /\ HandedOK
=============================================================================
