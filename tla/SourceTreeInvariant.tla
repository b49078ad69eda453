------------------------ MODULE SourceTreeInvariant -------------------------
(***************************************************************************)
(* The inductive invariant of SourceTree: where the walk of the directory  *)
(* is decides which folders are children, which files are objects, which   *)
(* lengths may be out of date, and, until index.luau has yielded, that     *)
(* every file to read is still ahead.                                      *)
(***************************************************************************)
EXTENDS SourceTree

Activations ==
    [stage : {"new", "files"}, folder : Folders, left : SUBSET Layout]
      \union [stage : {"dirs"}, folder : Folders, left : SUBSET Folders]

(* Some activation of CollectLocalTree is collecting the folder, or one    *)
(* has collected it.                                                       *)
OnBranch(d) == \E i \in DOMAIN stack : stack[i].folder = d
Walked(d) == d \in children \/ OnBranch(d)

(* The branch goes down from the root, one folder for each activation, and *)
(* each activation but the last one waits for the one above it.            *)
BranchOK ==
    /\ stack \in Seq(Activations) /\ Len(stack) >= 1
    /\ \A i \in 1 .. Len(stack) : Len(stack[i].folder) = i - 1
    /\ \A i \in 2 .. Len(stack) :
         /\ Front(stack[i].folder) = stack[i - 1].folder
         /\ stack[i - 1].stage = "dirs"
         /\ stack[i].folder \notin stack[i - 1].left

(* Of the folders in one on the branch, those are children that the        *)
(* activation has taken and that are complete.                             *)
BelowOK(i) ==
    \A e \in SubFolders(stack[i].folder) :
      e \in children <=>
        stack[i].stage = "dirs" /\ e \notin stack[i].left /\ ~OnBranch(e)

(* A child is complete, and hangs from another one or from the branch.     *)
ChildOK(d) ==
    /\ d # <<>> /\ ~OnBranch(d)
    /\ SubFolders(d) \subseteq children
    /\ Walked(Front(d))

WalkOK ==
    /\ BranchOK
    /\ \A i \in 1 .. Len(stack) : BelowOK(i)
    /\ \A d \in children : ChildOK(d)

(* An object is that of a file whose folder has been walked into, and has  *)
(* its name to itself there.                                               *)
ObjectOK(o) ==
    /\ o.file \in Readable /\ o.folder = o.file.folder /\ o.key = Key(o.file)
    /\ Walked(o.folder)

ObjectsOK ==
    /\ \A o \in tree : ObjectOK(o)
    /\ \A o, q \in tree : o.folder = q.folder /\ o.key = q.key => o = q

(* The name of the file that is being read is still free, and a length     *)
(* that is out of date was overtaken by a write.                           *)
ReadingOK ==
    current # NoFile =>
      /\ current \in [file : Readable, length : -1 .. MaxSize]
      /\ Walked(current.file.folder)
      /\ ~Duplicate(current.file)
      /\ current.length \in {-1, size[current.file]} \/ current.file \in stale

(* The walk has not come to the file.                                      *)
Ahead(f) ==
    /\ f.folder \notin children
    /\ \A i \in 1 .. Len(stack) :
         stack[i].folder = f.folder =>
           \/ stack[i].stage = "new"
           \/ stack[i].stage = "files" /\ f \in stack[i].left

(* The first file that is opened makes index.luau yield.                   *)
YieldOK ==
    ~yielded => /\ tree = {} /\ current = NoFile
                /\ \A f \in Readable : Ahead(f)

(* The tree is returned when only the root is left, and a module that ends *)
(* first has found nothing to read.                                        *)
PhaseOK ==
    /\ phase = "collecting" => ~provided
    /\ provided => Len(stack) = 1
    /\ RequirerHasYielded

SourceTreeInvariant ==
    /\ TypeOK /\ WalkOK /\ ObjectsOK /\ SourcesAreWhole /\ ReadingOK
    /\ YieldOK /\ PhaseOK
=============================================================================
