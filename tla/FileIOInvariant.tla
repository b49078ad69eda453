-------------------------- MODULE FileIOInvariant ---------------------------
(***************************************************************************)
(* The inductive invariant of FileIO: why its safety properties hold.      *)
(***************************************************************************)
EXTENDS FileIO

Opening == {f \in Fibers : request[f].kind = "open"}
Opened == {f \in Fibers : request[f].kind = "open" /\ request[f].done}

(* What the bounds count: entities and archives, and those on their way.   *)
BoundsKept ==
    /\ Len(files) + Cardinality(Opening) <= MaxFiles
    /\ Len(position) <= Len(files) + Cardinality(Opened)
    /\ Len(archives) + Cardinality(Asked("zip")) <= MaxArchives

(* A request that is under way is one of a file a script has; what was     *)
(* opened for one fiber, nobody else has.                                  *)
RequestSound(f) ==
    LET r == request[f]
    IN  /\ r.done \in BOOLEAN
        /\ r.kind \in {"none", "open", "read", "write", "stat", "zip"}
        /\ r.kind = "open" /\ r.done =>
              /\ r.result \in 0..Len(position)
              /\ r.result # 0 => \A d \in DOMAIN files : files[d].file # r.result
        /\ r.kind \in {"read", "write", "stat"} /\ ~r.done => r.file \in held
        /\ r.kind \in {"read", "write"} /\ ~r.done => r.offset \in Offsets
        /\ r.kind = "read" /\ ~r.done => r.length \in 1..MaxLength
        /\ r.kind = "zip" /\ r.done => r.result \in {0} \union DOMAIN archives

OpenedOnce ==
    \A f, g \in Opened :
       request[f].result = request[g].result /\ request[f].result # 0 => f = g

RequestsSound ==
    /\ request = [f \in Fibers |-> request[f]]
    /\ \A f \in Fibers : RequestSound(f)
    /\ OpenedOnce

(* Each descriptor is one file's.                                          *)
FilesSound ==
    /\ \A e \in DOMAIN files : files[e].is_open <=> files[e].file # 0
    /\ \A d, e \in DOMAIN files :
          files[d].file = files[e].file /\ files[e].file # 0 => d = e
    /\ \A e \in held : files[e].is_open

(* The task that has opened an archive and not been finished.              *)
InTask(f, a) == Waiting(f, "zip", TRUE) /\ request[f].result = a

(* Who holds an archive that is open, and that nobody holds one that is    *)
(* closed: the pointer that is tested is the one that was cleared.         *)
HolderSound(a) ==
    /\ \A f \in Fibers : InTask(f, a) =>
          /\ archives[a] # "closed"
          /\ a \notin lost
          /\ \A z \in zips : z.file # a
          /\ \A g \in Fibers : InTask(g, a) => g = f
    /\ \A z \in zips : z.file = a =>
          /\ z.id = a
          /\ archives[a] # "closed"
          /\ a \notin lost
    /\ a \in lost => archives[a] # "closed"
    /\ fault = "none" /\ archives[a] # "closed" =>
          \/ \E f \in Fibers : InTask(f, a)
          \/ \E z \in zips : z.file = a
          \/ a \in lost
    /\ fault = "none" /\ archives[a] = "written" => \E z \in zips : z.file = a

HoldersSound == \A a \in DOMAIN archives : HolderSound(a)

(* No misuse but that of the entity without a vtable, when all ends.       *)
EndSound ==
    /\ ~alive => /\ zips = {} /\ held = {}
                 /\ \A f \in Fibers : request[f].kind \in {"none", "zip"}
    /\ alive => fault = "none"
    /\ fault \in {"none", "no_vtable"}

FInv ==
    /\ TypeOK
    /\ BoundsKept
    /\ RequestsSound
    /\ FilesSound
    /\ HoldersSound
    /\ EndSound
=============================================================================
