------------------------------- MODULE FileIO --------------------------------
(***************************************************************************)
(* Files and archives as scripts see them.  Each call of File parks its    *)
(* fiber, a thread of libuv performs it, and a callback on the game thread *)
(* continues the fiber.  Opening an archive is such a call, too; reading,  *)
(* writing and closing one are done at once.                               *)
(*                                                                         *)
(* One file is enough: entities meet in its bytes, of which only the       *)
(* number matters here, and each has a descriptor with a position of its   *)
(* own.  What fibers do besides is FiberRuntime's; here one may call       *)
(* whenever it does not wait.                                              *)
(***************************************************************************)
EXTENDS Integers, Sequences, FiniteSets

CONSTANTS
    Fibers,
    MaxLength,  \* bound: length of the file, and of what is read
    MaxFiles,   \* bound: entities of File ever made
    MaxArchives \* bound: archives ever opened

ASSUME BoundsAreNatural == {MaxLength, MaxFiles, MaxArchives} \subseteq Nat
ASSUME FibersAreFinite == IsFiniteSet(Fibers)

VARIABLES
    exists,   \* whether the file is there
    size,     \* how many bytes it has
    position, \* of each open descriptor
    files,    \* FileEntity objects: is_open, file
    held,     \* those that scripts were given
    archives, \* zip_t objects: open, written (entries not yet saved) or closed
    zips,     \* ZipEntity objects: _file, 0 for null
    fiber,    \* ready, waiting, or killed
    request,  \* what a waiting fiber waits for
    alive,    \* the isolate, and with it the Luau state
    lost,     \* history: archives whose fiber's isolate was gone when they were open
    fault     \* none, closed_archive, unopened_file or no_vtable

vars == <<exists, size, position, files, held, archives, zips, fiber, request,
          alive, lost, fault>>
disk == <<exists, size, position>>
objects == <<files, held, archives, zips>>

Offsets == {-1} \union 0..MaxLength - 1   \* -1: no offset was given
NoRequest == [kind |-> "none", done |-> FALSE]

Ready(f) == alive /\ fiber[f] = "ready" /\ fault = "none"
Waiting(f, kind, done) ==
    fiber[f] = "waiting" /\ request[f].kind = kind /\ request[f].done = done
Asked(kind) == {f \in Fibers : Waiting(f, kind, FALSE)}
Larger(a, b) == IF a > b THEN a ELSE b
Smaller(a, b) == IF a < b THEN a ELSE b

Init ==
    /\ exists \in BOOLEAN /\ size = 0 /\ position = <<>>
    /\ files = <<>> /\ held = {} /\ archives = <<>> /\ zips = {}
    /\ fiber = [f \in Fibers |-> "ready"]
    /\ request = [f \in Fibers |-> NoRequest]
    /\ alive = TRUE /\ lost = {} /\ fault = "none"

-----------------------------------------------------------------------------
(* Calls of scripts.                                                       *)

(* ScriptCall::Await, with the request queued.                             *)
Await(f, r) ==
    /\ fiber' = [fiber EXCEPT ![f] = "waiting"]
    /\ request' = [request EXCEPT ![f] = r]
    /\ UNCHANGED <<disk, objects, alive, lost, fault>>

Open(f, create) ==
    /\ Ready(f) /\ Len(files) + Cardinality({g \in Fibers : request[g].kind = "open"}) < MaxFiles
    /\ Await(f, [kind |-> "open", done |-> FALSE, create |-> create])

(* A file that is not open is an error before anything else has happened.  *)
Read(f, e, length, offset) ==
    /\ Ready(f) /\ e \in held /\ files[e].is_open
    /\ Await(f, [kind |-> "read", done |-> FALSE, file |-> e,
                 length |-> length, offset |-> offset])

Write(f, e, offset) ==
    /\ Ready(f) /\ e \in held /\ files[e].is_open
    /\ Await(f, [kind |-> "write", done |-> FALSE, file |-> e,
                 offset |-> offset])

(* Length does not ask whether the file is open.                           *)
Length(f, e) ==
    /\ Ready(f) /\ e \in held
    /\ Await(f, [kind |-> "stat", done |-> FALSE, file |-> e])

ZipOpen(f) ==
    /\ Ready(f) /\ Len(archives) + Cardinality(Asked("zip")) < MaxArchives
    /\ Await(f, [kind |-> "zip", done |-> FALSE])

-----------------------------------------------------------------------------
(* Threads of libuv, at any moment.  A request may fail for any reason.    *)
(* What is answered is whether it failed, and what was opened.             *)

Performed(f, answer) == request' = [request EXCEPT ![f] = answer]

Where(r) == IF r.offset = -1 THEN position[files[r.file].file] ELSE r.offset
Moved(r, n) ==
    IF r.offset = -1 THEN [position EXCEPT ![files[r.file].file] = @ + n] ELSE position

PerformOpen(f) ==
    /\ Waiting(f, "open", FALSE)
    /\ \/ /\ exists \/ request[f].create
          /\ exists' = TRUE
          /\ position' = Append(position, 0)
          /\ Performed(f, [kind |-> "open", done |-> TRUE, result |-> Len(position) + 1])
       \/ /\ Performed(f, [kind |-> "open", done |-> TRUE, result |-> 0])
          /\ UNCHANGED <<exists, position>>
    /\ UNCHANGED <<size, objects, fiber, alive, lost, fault>>

PerformRead(f) ==
    /\ Waiting(f, "read", FALSE)
    /\ LET r == request[f]
           got == Smaller(r.length, Larger(0, size - Where(r)))
       IN  \/ /\ position' = Moved(r, got)
              /\ Performed(f, [kind |-> "read", done |-> TRUE, ok |-> TRUE])
           \/ /\ Performed(f, [kind |-> "read", done |-> TRUE, ok |-> FALSE])
              /\ UNCHANGED position
    /\ UNCHANGED <<exists, size, objects, fiber, alive, lost, fault>>

PerformWrite(f) ==
    /\ Waiting(f, "write", FALSE)
    /\ LET r == request[f]  p == Where(r)
       IN  \/ /\ p < MaxLength
              /\ size' = Larger(size, p + 1)
              /\ position' = Moved(r, 1)
              /\ Performed(f, [kind |-> "write", done |-> TRUE, ok |-> TRUE,
                            misplaced |-> r.offset = -1 /\ p # size])
           \/ /\ Performed(f, [kind |-> "write", done |-> TRUE, ok |-> FALSE])
              /\ UNCHANGED <<size, position>>
    /\ UNCHANGED <<exists, objects, fiber, alive, lost, fault>>

(* The descriptor of a file that is not open is whatever was in memory.    *)
PerformStat(f) ==
    /\ Waiting(f, "stat", FALSE)
    /\ fault' = IF files[request[f].file].is_open THEN fault ELSE "unopened_file"
    /\ \E ok \in BOOLEAN : Performed(f, [kind |-> "stat", done |-> TRUE, ok |-> ok])
    /\ UNCHANGED <<disk, objects, fiber, alive, lost>>

(* ZipOpenTask::Execute.                                                   *)
Execute(f) ==
    /\ Waiting(f, "zip", FALSE)
    /\ \/ /\ archives' = Append(archives, "open")
          /\ Performed(f, [kind |-> "zip", done |-> TRUE, result |-> Len(archives) + 1])
       \/ /\ Performed(f, [kind |-> "zip", done |-> TRUE, result |-> 0])
          /\ UNCHANGED archives
    /\ UNCHANGED <<disk, files, held, zips, fiber, alive, lost, fault>>

-----------------------------------------------------------------------------
(* Callbacks on the game thread.                                           *)

Continue(f) ==
    /\ fiber' = [fiber EXCEPT ![f] = "ready"]
    /\ request' = [request EXCEPT ![f] = NoRequest]

(* FileRequest::Callback and FileStatRequest::Callback: what is pushed is  *)
(* the buffer as it was allocated, with as many bytes as were asked for.   *)
Answer(f) ==
    /\ \E kind \in {"read", "write", "stat"} : Waiting(f, kind, TRUE)
    /\ Continue(f)
    /\ UNCHANGED <<disk, objects, alive, lost, fault>>

(* Mutant of AnswerOpen: a file that is not open gets no answer.           *)
MutAnswerOpenForgets(f) ==
    /\ Waiting(f, "open", TRUE) /\ request[f].result # 0
    /\ files' = Append(files, [is_open |-> TRUE, file |-> request[f].result])
    /\ held' = held \union {Len(files) + 1}
    /\ Continue(f)
    /\ UNCHANGED <<disk, archives, zips, alive, lost, fault>>

(* FileOpenRequest::Callback makes an entity in any case, and gives it to  *)
(* the script if the file is open.                                         *)
AnswerOpen(f) ==
    /\ Waiting(f, "open", TRUE)
    /\ LET opened == request[f].result # 0
       IN  /\ files' = Append(files, [is_open |-> opened, file |-> request[f].result])
           /\ held' = IF opened THEN held \union {Len(files) + 1} ELSE held
    /\ Continue(f)
    /\ UNCHANGED <<disk, archives, zips, alive, lost, fault>>

(* ZipOpenTask::Finish: nothing if the isolate is gone, a killed fiber if  *)
(* the archive could not be opened, an entity otherwise.                   *)
Finish(f) ==
    /\ Waiting(f, "zip", TRUE)
    /\ LET a == request[f].result
       IN  \/ /\ ~alive
              /\ lost' = lost \union ({a} \ {0})
              /\ request' = [request EXCEPT ![f] = NoRequest]
              /\ fiber' = [fiber EXCEPT ![f] = "killed"]
              /\ UNCHANGED zips
           \/ /\ alive /\ a = 0
              /\ request' = [request EXCEPT ![f] = NoRequest]
              /\ fiber' = [fiber EXCEPT ![f] = "killed"]
              /\ UNCHANGED <<zips, lost>>
           \/ /\ alive /\ a # 0
              /\ zips' = zips \union {[id |-> a, file |-> a]}
              /\ Continue(f)
              /\ UNCHANGED lost
    /\ UNCHANGED <<disk, files, held, archives, alive, fault>>

-----------------------------------------------------------------------------
(* Archives.                                                               *)

(* zip_close saves what was written.                                       *)
ZipClose(a) ==
    IF archives[a] = "closed"
      THEN fault' = "closed_archive" /\ UNCHANGED archives
      ELSE archives' = [archives EXCEPT ![a] = "closed"] /\ UNCHANGED fault

(* Write and Append test the pointer and use the archive at once; Read     *)
(* does the same and leaves the archive as it was.                         *)
WriteZip(f, z) ==
    /\ Ready(f) /\ z \in zips /\ z.file # 0
    /\ IF archives[z.file] = "closed"
         THEN fault' = "closed_archive" /\ UNCHANGED archives
         ELSE archives' = [archives EXCEPT ![z.file] = "written"] /\ UNCHANGED fault
    /\ UNCHANGED <<disk, files, held, zips, fiber, request, alive, lost>>

(* Mutant of Close: the entity keeps its pointer.                          *)
MutCloseKeepsPointer(f, z) ==
    /\ Ready(f) /\ z \in zips /\ z.file # 0
    /\ ZipClose(z.file)
    /\ UNCHANGED <<disk, files, held, zips, fiber, request, alive, lost>>

(* Mutant of Close: the pointer is cleared, the archive is not closed.     *)
MutClose(f, z) ==
    /\ Ready(f) /\ z \in zips /\ z.file # 0
    /\ zips' = (zips \ {z}) \union {[id |-> z.id, file |-> 0]}
    /\ UNCHANGED <<disk, files, held, archives, fiber, request, alive, lost, fault>>

Close(f, z) ==
    /\ Ready(f) /\ z \in zips /\ z.file # 0
    /\ ZipClose(z.file)
    /\ zips' = (zips \ {z}) \union {[id |-> z.id, file |-> 0]}
    /\ UNCHANGED <<disk, files, held, fiber, request, alive, lost>>

(* Mutant of OnDestroy: open archives are left as they are.                *)
MutOnDestroyNothing == UNCHANGED <<archives, fault>>

(* ~ScriptIsolate, with no file request under way (that one is a breach of *)
(* Plugins), and the end of the Luau state: OnDestroy for each entity, if  *)
(* the vtable pointer nobody has set leads there (see Controllers).        *)
(* Nothing of libuv's is closed.                                           *)
OnDestroy ==
    LET open == {z.file : z \in zips} \ {0}
    IN  IF \E a \in open : archives[a] = "closed"
          THEN fault' = "closed_archive" /\ UNCHANGED archives
          ELSE /\ archives' = [a \in DOMAIN archives |-> IF a \in open THEN "closed"
                                                                     ELSE archives[a]]
               /\ UNCHANGED fault

Unload ==
    /\ alive /\ fault = "none"
    /\ \A f \in Fibers : fiber[f] = "waiting" => request[f].kind = "zip"
    /\ alive' = FALSE /\ zips' = {} /\ held' = {}
    /\ \/ OnDestroy
       \/ zips # {} /\ fault' = "no_vtable" /\ UNCHANGED archives
    /\ UNCHANGED <<disk, files, fiber, request, lost>>

-----------------------------------------------------------------------------
Threads(f) == PerformOpen(f) \/ PerformRead(f) \/ PerformWrite(f) \/ PerformStat(f)
                 \/ Execute(f)
Callbacks(f) == Answer(f) \/ AnswerOpen(f) \/ Finish(f)

Next ==
    \/ \E f \in Fibers :
         \/ \E create \in BOOLEAN : Open(f, create)
         \/ \E e \in held, offset \in Offsets :
              \/ \E length \in 1..MaxLength : Read(f, e, length, offset)
              \/ Write(f, e, offset)
         \/ \E e \in held : Length(f, e)
         \/ ZipOpen(f)
         \/ Threads(f)
         \/ Callbacks(f)
         \/ \E z \in zips : WriteZip(f, z) \/ Close(f, z)
    \/ Unload

Spec == Init /\ [][Next]_vars

(* Threads of libuv finish what they are given, and the loop that runs     *)
(* every frame calls each callback.                                        *)
FairSpec == Spec /\ \A f \in Fibers : WF_vars(Threads(f)) /\ WF_vars(Callbacks(f))

-----------------------------------------------------------------------------
(* Every object and request is one that the code can make.                 *)
TypeOK ==
    /\ exists \in BOOLEAN /\ size \in 0..MaxLength
    /\ position \in Seq(0..MaxLength) /\ Len(position) <= MaxFiles
    /\ files \in Seq([is_open : BOOLEAN, file : 0..MaxFiles]) /\ Len(files) <= MaxFiles
    /\ \A e \in DOMAIN files : files[e].file \in 0..Len(position)
    /\ held \subseteq DOMAIN files
    /\ archives \in Seq({"open", "written", "closed"}) /\ Len(archives) <= MaxArchives
    /\ zips \subseteq [id : DOMAIN archives, file : {0} \union DOMAIN archives]
    /\ fiber \in [Fibers -> {"ready", "waiting", "killed"}]
    /\ \A f \in Fibers : (fiber[f] = "waiting") <=> (request[f].kind # "none")
    /\ lost \subseteq DOMAIN archives /\ alive \in BOOLEAN
    /\ fault \in {"none", "closed_archive", "unopened_file", "no_vtable"}

(* A script has only files that were opened, each with a descriptor of its *)
(* own: IsValid is asked by Read and Write alone, and Length relies on     *)
(* FileOpenRequest::Callback having kept back the entity of a failure.     *)
HeldFilesOpen ==
    \A e \in held :
      /\ files[e].is_open /\ files[e].file \in DOMAIN position
      /\ \A d \in DOMAIN files : files[d].file = files[e].file => d = e

(* The files scripts have are open ones; and the pointer that Read, Write, *)
(* Append, Close and OnDestroy test is never one to an archive that        *)
(* zip_close has freed.                                                    *)
UsedWhileOpen ==
    /\ TypeOK
    /\ HeldFilesOpen
    /\ fault \notin {"closed_archive", "unopened_file"}

(* An archive that is open is in exactly one place: in the task that opens *)
(* it, in an entity, or with nobody because the isolate ended first; one   *)
(* that is closed is in none.                                              *)
OneHolder ==
    fault # "no_vtable" =>
      \A a \in DOMAIN archives :
        LET inTasks == {f \in Fibers : Waiting(f, "zip", TRUE) /\ request[f].result = a}
            inEntities == {z \in zips : z.file = a}
        IN  Cardinality(inTasks) + Cardinality(inEntities) + Cardinality(lost \intersect {a})
              = IF archives[a] = "closed" THEN 0 ELSE 1

(* What scripts put into archives is saved at the latest when their Luau   *)
(* state ends: ZipController::OnDestroy "Close the zip handle if it was    *)
(* not already closed" (src/Logic/Files/ZipController.h:78).               *)
ArchivesSaved ==
    ~alive /\ fault = "none" => \A a \in DOMAIN archives : archives[a] # "written"

(* A fiber that asked for a file or an archive does not wait for ever,     *)
(* whatever the request comes to and however the isolate ends.             *)
RequestsEnd == \A f \in Fibers : fiber[f] = "waiting" ~> fiber[f] # "waiting"

(* "the location to write the content. default to end of file"             *)
(* (src/Logic/Files/FileSystemController.cpp:192): a write with no offset  *)
(* goes after the last byte.                                               *)
DefaultWriteAtEnd ==
    \A f \in Fibers :
      Waiting(f, "write", TRUE) /\ request[f].ok => ~request[f].misplaced
=============================================================================
