----------------------------- MODULE SourceTree -----------------------------
(***************************************************************************)
(* The compiler plugin of the SDK.  Its index.luau requires FileTree.luau, *)
(* which reads the directory they are in into a tree of folders and files, *)
(* one request of the event loop after the other while others may write    *)
(* the files.  The end of that module continues index.luau, which has      *)
(* Luau's type checker look for modules by their dotted names: each of its *)
(* questions is a fiber of its own, made, run and perhaps deleted by       *)
(* LuauFileResolver.  What the checker asks, how often and when it stops,  *)
(* is Luau's to decide: nothing of that is assumed here.                   *)
(*                                                                         *)
(* A name without dots is a string, a path the sequence of its segments.   *)
(***************************************************************************)
EXTENDS Integers, Sequences, FiniteSets, SequencesExt

CONSTANTS
    Layout,    \* files: folder (a path), base, and the segments after it
    Modules,   \* paths that scripts require
    Root,      \* the one that Check is called with
    NoFile,    \* stands for no file
    MaxSize,   \* bound: bytes of a file
    MaxTouches,\* bound: writes of others
    MaxMissed  \* bound: questions without an answer

ASSUME BoundsAreNatural == {MaxSize, MaxTouches, MaxMissed} \subseteq Nat
Segment == STRING

ASSUME LayoutOfNames ==
    Layout \subseteq [folder : Seq(Segment), base : Segment, ext : Seq(Segment)]
ASSUME ModulesAreNames == IsFiniteSet(Modules) /\ Modules \subseteq Seq(Segment) \ {<<>>}
ASSUME RootIsModule == Root \in Modules

VARIABLES
    phase,   \* collecting, ready to check, checking, done; or lost
    yielded, \* index.luau has yielded in the require
    provided,\* FileTree.luau has ended and returned the tree
    stack,   \* the activations of CollectLocalTree, the last one on top
    current, \* the file the top one is at, or NoFile
    size,    \* of each file on the disk
    stale,   \* history: files written after their length was asked
    touches, \* how often others have written
    tree,    \* File objects: folder, key, file, bytes, and how many are the file's
    children,\* folders that are children of their parent's object
    known,   \* modules that the checker has been given the name of
    environments, \* names for which it has an environment
    fibers   \* fibers of LuauFileResolver that were not deleted

vars == <<phase, yielded, provided, stack, current, size, stale, touches, tree,
          children, known, environments, fibers>>
collected == <<stack, current, tree, children>>
disk == <<size, stale, touches>>
required == <<phase, yielded, provided>>
checker == <<known, environments, fibers>>

Folders ==
    {<<>>} \union UNION {{SubSeq(f.folder, 1, n) : n \in 0..Len(f.folder)} : f \in Layout}
SubFolders(d) == {e \in Folders : e # <<>> /\ Front(e) = d}
FilesIn(d) == {f \in Layout : f.folder = d}

IgnoredExts == {"exe", "so", "dyn", "dynlib", "ps1", "bat", "duo", "zip", "tar"}

(* The pattern wants something before the extension and its dot.           *)
ShouldIgnoreFile(f) ==
    /\ f.ext # <<>> /\ Last(f.ext) \in IgnoredExts
    /\ f.base # "" \/ Len(f.ext) > 1

(* RemoveExtension: what has not exactly one extension keeps, as its name, *)
(* the message that says so, which no module is called.                    *)
Key(f) == IF Len(f.ext) = 1 THEN <<f.base>> ELSE <<f.base>> \o f.ext \o <<"!">>

Readable == {f \in Layout : ~ShouldIgnoreFile(f)}

Init ==
    /\ phase = "collecting" /\ yielded = FALSE /\ provided = FALSE
    /\ stack = <<[folder |-> <<>>, stage |-> "new", left |-> {}]>>
    /\ current = NoFile
    /\ size \in [Readable -> {0, MaxSize}]
    /\ stale = {} /\ touches = 0
    /\ tree = {} /\ children = {}
    /\ known = {} /\ environments = {} /\ fibers = 0

-----------------------------------------------------------------------------
(* CollectLocalTree, in the fiber that require made for FileTree.luau.     *)

Top == stack[Len(stack)]
SetTop(frame) == stack' = [stack EXCEPT ![Len(stack)] = frame]
At(stage) == phase = "collecting" /\ Top.stage = stage /\ current = NoFile

ListFiles ==
    /\ At("new")
    /\ SetTop([Top EXCEPT !.stage = "files", !.left = FilesIn(Top.folder)])
    /\ UNCHANGED <<required, current, disk, tree, children, checker>>

Take(f) == SetTop([Top EXCEPT !.left = @ \ {f}])

Duplicate(f) == \E o \in tree : o.folder = f.folder /\ o.key = Key(f)

(* A mutant of End: an error leaves the dependants where they are.         *)
MutEnd(found) ==
    /\ phase' = IF yielded /\ found THEN "ready" ELSE "lost"
    /\ provided' = found

(* The module's fiber ends, with the tree or with an error: either way it  *)
(* continues index.luau.  If it has never yielded, index.luau is still     *)
(* inside the require and running, and nothing can be said any more.       *)
End(found) ==
    /\ phase' = IF yielded THEN "ready" ELSE "lost"
    /\ provided' = found

(* The next file is left out, ends the module with an error, or is opened, *)
(* for which the module yields for the first time, if it has not yet;      *)
(* opening may fail for any reason.                                        *)
NextFile(f) ==
    /\ At("files") /\ f \in Top.left
    /\ Take(f)
    /\ \/ /\ ShouldIgnoreFile(f)
          /\ UNCHANGED <<required, current>>
       \/ /\ ~ShouldIgnoreFile(f) /\ Duplicate(f)
          /\ End(FALSE)
          /\ UNCHANGED <<yielded, current>>
       \/ /\ ~ShouldIgnoreFile(f) /\ ~Duplicate(f)
          /\ current' \in {NoFile, [file |-> f, length |-> -1]}
          /\ yielded' = TRUE
          /\ UNCHANGED <<phase, provided>>
    /\ UNCHANGED <<disk, tree, children, checker>>

Reading == phase = "collecting" /\ current # NoFile

(* A mutant of Length: a buffer of a fixed size.                           *)
MutLengthFixed ==
    /\ Reading /\ current.length = -1
    /\ current' = [current EXCEPT !.length = MaxSize]
    /\ UNCHANGED <<required, stack, disk, tree, children, checker>>

Length ==
    /\ Reading /\ current.length = -1
    /\ current' \in {NoFile, [current EXCEPT !.length = size[current.file]]}
    /\ UNCHANGED <<required, stack, disk, tree, children, checker>>

(* The buffer is as long as was asked for; the file fills what it can.     *)
Read ==
    /\ Reading /\ current.length # -1
    /\ \/ UNCHANGED tree
       \/ tree' = tree \union
            {[folder |-> current.file.folder, key |-> Key(current.file),
              file |-> current.file, bytes |-> current.length,
              whole |-> current.length = size[current.file]]}
    /\ current' = NoFile
    /\ UNCHANGED <<required, stack, disk, children, checker>>

ListDirs ==
    /\ At("files") /\ Top.left = {}
    /\ SetTop([Top EXCEPT !.stage = "dirs", !.left = SubFolders(Top.folder)])
    /\ UNCHANGED <<required, current, disk, tree, children, checker>>

(* A mutant of Dive: the child is attached before it is collected.         *)
MutDiveAttaches(d) ==
    /\ At("dirs") /\ d \in Top.left
    /\ stack' = Append([stack EXCEPT ![Len(stack)] = [Top EXCEPT !.left = @ \ {d}]],
                       [folder |-> d, stage |-> "new", left |-> {}])
    /\ children' = children \union {d}
    /\ UNCHANGED <<required, current, disk, tree, checker>>

Dive(d) ==
    /\ At("dirs") /\ d \in Top.left
    /\ stack' = Append([stack EXCEPT ![Len(stack)] = [Top EXCEPT !.left = @ \ {d}]],
                       [folder |-> d, stage |-> "new", left |-> {}])
    /\ UNCHANGED <<required, current, disk, tree, children, checker>>

(* A folder becomes a child when all that is in it has been collected; the *)
(* module ends when it has collected the directory itself.                 *)
Leave ==
    /\ At("dirs") /\ Top.left = {}
    /\ \/ /\ Len(stack) > 1
          /\ stack' = Front(stack)
          /\ children' = children \union {Top.folder}
          /\ UNCHANGED <<phase, provided>>
       \/ /\ Len(stack) = 1
          /\ End(TRUE)
          /\ UNCHANGED <<stack, children>>
    /\ UNCHANGED <<yielded, current, disk, tree, checker>>

(* Another program writes a file.                                          *)
Touch(f) ==
    /\ phase = "collecting" /\ touches < MaxTouches
    /\ \E n \in 0..MaxSize \ {size[f]} : size' = [size EXCEPT ![f] = n]
    /\ touches' = touches + 1
    /\ stale' = IF current # NoFile /\ current.file = f /\ current.length # -1
                  THEN stale \union {f} ELSE stale
    /\ UNCHANGED <<required, collected, checker>>

-----------------------------------------------------------------------------
(* A mutant of Query, which stops one step early.                          *)
MutQueryAbove(p) ==
    {o \in tree : o.folder = (IF Len(p) < 3 THEN Front(p) ELSE Front(Front(p)))
                  /\ o.key = <<Last(p)>>}

(* Query, step by step: down one child for each segment, and the last one  *)
(* is looked for in the contents.  No folder pushes an environment.        *)
Query(p) ==
    LET reached[i \in 0..Len(p) - 1] ==
          i = 0 \/ (reached[i - 1] /\ SubSeq(p, 1, i) \in children)
    IN  IF reached[Len(p) - 1]
          THEN {o \in tree : o.folder = Front(p) /\ o.key = <<Last(p)>>}
          ELSE {}

(* Each question is put to a new fiber, which is deleted when it has       *)
(* answered with a string, and stays when it has not.                      *)
Ask(answered) ==
    /\ fibers' = fibers + IF answered THEN 0 ELSE 1
    /\ fibers' <= MaxMissed

Check ==
    /\ phase = "ready"
    /\ phase' = "checking"
    /\ known' = {Root}
    /\ UNCHANGED <<yielded, provided, disk, collected, environments, fibers>>

(* FileResolver fails if require has given no tree, and if the tree does   *)
(* not have the module.                                                    *)
HasSource(m) == provided /\ Query(m) # {}

ReadSource(m) ==
    /\ phase = "checking" /\ m \in known
    /\ Ask(HasSource(m))
    /\ UNCHANGED <<required, disk, collected, known, environments>>

(* ModuleResolver answers with what it is asked, if an expression names a  *)
(* module; from any other, nothing is pushed and it fails.  Only a module  *)
(* with a source has expressions.                                          *)
ResolveModule(m, named) ==
    /\ phase = "checking" /\ \E k \in known : HasSource(k)
    /\ Ask(named)
    /\ known' = IF named THEN known \union {m} ELSE known
    /\ UNCHANGED <<required, disk, collected, environments>>

(* The constructor takes ModuleResolver for EnvironmentResolver, too: the  *)
(* environment of a module has its name.                                   *)
GetEnvironment(m) ==
    /\ phase = "checking" /\ m \in known
    /\ Ask(TRUE)
    /\ environments' = environments \union {m}
    /\ UNCHANGED <<required, disk, collected, known>>

Checked ==
    /\ phase = "checking"
    /\ phase' = "done"
    /\ UNCHANGED <<yielded, provided, disk, collected, checker>>

Collect ==
    \/ ListFiles \/ Length \/ Read \/ ListDirs \/ Leave
    \/ \E f \in Layout : NextFile(f)
    \/ \E d \in Folders : Dive(d)

CheckStep ==
    \/ Check \/ Checked
    \/ \E m \in Modules : ReadSource(m) \/ GetEnvironment(m)
    \/ \E m \in Modules, named \in BOOLEAN : ResolveModule(m, named)

Next == Collect \/ CheckStep \/ (\E f \in Readable : Touch(f))

Spec == Init /\ [][Next]_vars

(* Requests are answered and the module runs on.                           *)
FairSpec == Spec /\ WF_vars(Collect)

-----------------------------------------------------------------------------
(* Every activation and object is one that the script can make.            *)
TypeOK ==
    /\ phase \in {"collecting", "ready", "checking", "done", "lost"}
    /\ {yielded, provided} \subseteq BOOLEAN
    /\ \A i \in DOMAIN stack :
         /\ stack[i].folder \in Folders /\ stack[i].stage \in {"new", "files", "dirs"}
         /\ stack[i].left \subseteq
              IF stack[i].stage = "dirs" THEN SubFolders(stack[i].folder)
              ELSE FilesIn(stack[i].folder)
    /\ current = NoFile \/ (current.file \in Layout /\ current.length \in -1..MaxSize)
    /\ size \in [Readable -> 0..MaxSize] /\ stale \subseteq Readable
    /\ touches \in 0..MaxTouches
    /\ \A o \in tree : o.file \in Layout /\ o.bytes \in 0..MaxSize
    /\ children \subseteq Folders
    /\ known \subseteq Modules /\ environments \subseteq Modules
    /\ fibers \in 0..MaxMissed

(* What a dotted name means, without walking: the file in that folder with *)
(* that name and one extension, if it was read.                            *)
Named(p) == {o \in tree : Append(o.file.folder, o.file.base) = p /\ Len(o.file.ext) = 1}

(* Once FileTree.luau has returned the tree, a name finds the file it      *)
(* means, at most one, at any depth; a file with no or several extensions  *)
(* is never found, and an ignored one is not there (Module:Query,          *)
(* CollectLocalTree).                                                      *)
NamesFindFiles ==
    provided =>
      \A p \in Modules :
        /\ Query(p) = Named(p)
        /\ Cardinality(Named(p)) <= 1
        /\ \A o \in Named(p) : ~ShouldIgnoreFile(o.file)

(* A source is cut off or padded only if the file was written between the  *)
(* request for its length and the one for its bytes.                       *)
SourcesAreWhole == \A o \in tree : ~o.whole => o.file \in stale

(* Activations go down one branch, each has a folder of its own, and what  *)
(* is reachable is complete: no file of a folder is still to be read when  *)
(* the folder has become a child.                                          *)
BranchByBranch ==
    /\ \A i \in 2..Len(stack) : Front(stack[i].folder) = stack[i - 1].folder
    /\ \A d \in children : \A i \in DOMAIN stack : stack[i].folder # d
    /\ \A d \in children : SubFolders(d) \subseteq children

(* The walk of the directory visits nothing twice and leaves nothing out   *)
(* behind it.                                                              *)
WalkedOnce == TypeOK /\ BranchByBranch

(* The require in index.luau returns, whatever becomes of the module it    *)
(* runs: files that cannot be opened or read, names that are there twice,  *)
(* writes of others.  Only in a directory without a file to read does the  *)
(* module end before index.luau has yielded (ScriptVM::LuaRequire).        *)
RequireReturns == phase = "collecting" ~> phase = "ready" \/ Readable = {}

(* The part of it that a state shows.                                      *)
RequirerHasYielded == phase = "lost" => Readable = {}

(* Every fiber of a question is deleted when it is answered.  It does not  *)
(* hold: readSource and resolveModule return before they delete a fiber    *)
(* that gave no string.                                                    *)
FibersAreReturned == fibers = 0
=============================================================================
