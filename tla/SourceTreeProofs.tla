-------------------------- MODULE SourceTreeProofs --------------------------
(***************************************************************************)
(* Proofs about SourceTree for every directory, whatever its files are     *)
(* called and however deep its folders are, for any finite set of modules, *)
(* whatever a checker asks about them, and for all bounds.                 *)
(*                                                                         *)
(* First paths and the walk of Query, whose recursion is unfolded once for *)
(* all; then one lemma per action; then the theorems.                      *)
(***************************************************************************)
EXTENDS SourceTreeInvariant, SequenceTheorems, FiniteSetTheorems,
        WellFoundedInduction, TLAPS

(* Paths, and the names of objects in a folder.                            *)
Path == Seq(Segment)

-----------------------------------------------------------------------------
(* Paths.                                                                  *)

(* A set of numbers that is not empty has a least one: what the inductions *)
(* of this module rest on.                                                 *)
LEMMA LeastNatural ==
    ASSUME NEW T \in SUBSET Nat, T # {}
    PROVE  \E n \in T : \A m \in T : n <= m
<1>1. IsWellFoundedOn(OpToRel(<, Nat), Nat)
  BY NatLessThanWellFounded
<1>2. \E n \in T : \A m \in T : ~(<<m, n>> \in OpToRel(<, Nat))
  BY <1>1, WFMin
<1>3. PICK n \in T : \A m \in T : ~(<<m, n>> \in OpToRel(<, Nat))
  BY <1>2
<1>4. \A m \in T : ~(m < n)
  BY <1>3 DEF OpToRel
<1>5. QED
  BY <1>4

(* The fields of a file.                                                   *)
LEMMA FileFields ==
    ASSUME NEW f \in Layout
    PROVE  f.folder \in Path /\ f.base \in Segment /\ f.ext \in Path
BY LayoutOfNames DEF Path

(* The first segments of a path.                                           *)
LEMMA Prefix ==
    ASSUME NEW p \in Path, NEW n \in 0 .. Len(p)
    PROVE  /\ SubSeq(p, 1, n) \in Path /\ Len(SubSeq(p, 1, n)) = n
           /\ \A i \in 1 .. n : SubSeq(p, 1, n)[i] = p[i]
<1>1. \A i \in 1 .. n : p[i] \in Segment
  BY ElementOfSeq DEF Path
<1>2. QED
  BY <1>1, SubSeqProperties, LenProperties DEF Path

(* Folders are paths.                                                      *)
LEMMA FoldersArePaths == Folders \subseteq Path /\ <<>> \in Folders
<1>1. <<>> \in Path
  BY EmptySeq DEF Path
<1>2. ASSUME NEW f \in Layout, NEW n \in 0 .. Len(f.folder)
      PROVE  SubSeq(f.folder, 1, n) \in Path
  BY <1>2, FileFields, Prefix
<1>3. ASSUME NEW d \in Folders, d # <<>>
      PROVE  \E f \in Layout : \E n \in 0 .. Len(f.folder) : d = SubSeq(f.folder, 1, n)
  BY <1>3 DEF Folders
<1>4. <<>> \in Folders
  BY DEF Folders
<1>5. QED
  BY <1>1, <1>2, <1>3, <1>4

(* A path is what comes before its last segment, and that one.             *)
LEMMA FrontAndLast ==
    ASSUME NEW p \in Path, p # <<>>
    PROVE  /\ Len(p) \in Nat \ {0}
           /\ Front(p) \in Path /\ Len(Front(p)) = Len(p) - 1
           /\ \A i \in 1 .. Len(p) - 1 : Front(p)[i] = p[i]
           /\ Last(p) \in Segment /\ Last(p) = p[Len(p)]
<1>1. PICK n : n = Len(p)
  OBVIOUS
<1>2. n \in Nat \ {0}
  BY <1>1, EmptySeq, LenProperties DEF Path
<1>3. n - 1 \in 0 .. n /\ n \in 1 .. n
  BY <1>2
<1>4. /\ SubSeq(p, 1, n - 1) \in Path /\ Len(SubSeq(p, 1, n - 1)) = n - 1
      /\ \A i \in 1 .. n - 1 : SubSeq(p, 1, n - 1)[i] = p[i]
  BY <1>1, <1>3, Prefix
<1>5. p[n] \in Segment
  BY <1>1, <1>3, ElementOfSeq DEF Path
<1>6. QED
  BY <1>1, <1>2, <1>4, <1>5 DEF Front, Last

(* Appending a segment, and taking it away.                                *)
LEMMA Appending ==
    ASSUME NEW d \in Path, NEW b \in Segment, NEW p \in Path, p # <<>>
    PROVE  Append(d, b) = p <=> d = Front(p) /\ b = Last(p)
<1>1. /\ Front(p) \in Path /\ Last(p) \in Segment
      /\ Len(p) \in Nat \ {0} /\ Len(Front(p)) = Len(p) - 1
      /\ \A i \in 1 .. Len(p) - 1 : Front(p)[i] = p[i]
      /\ Last(p) = p[Len(p)]
  BY FrontAndLast
<1>2. Append(d, b) = Append(Front(p), Last(p)) <=> d = Front(p) /\ b = Last(p)
  <2>1. PICK e : e = Front(p)
    OBVIOUS
  <2>2. PICK a : a = Last(p)
    OBVIOUS
  <2>3. /\ d \in Seq(Segment) /\ e \in Seq(Segment)
        /\ b \in Segment /\ a \in Segment
    BY <2>1, <2>2, <1>1 DEF Path
  <2>4. Append(d, b) = Append(e, a) <=> d = e /\ b = a
    BY <2>3, AppendInjective
  <2>5. QED
    BY <2>1, <2>2, <2>4
<1>3. PICK q : q = Append(Front(p), Last(p))
  OBVIOUS
<1>4. PICK n : n = Len(p)
  OBVIOUS
<1>5. /\ q \in Path /\ Len(q) = (n - 1) + 1 /\ n \in Nat \ {0}
      /\ \A i \in 1 .. n - 1 : q[i] = p[i]
      /\ q[(n - 1) + 1] = p[n]
  <2>1. PICK e : e = Front(p)
    OBVIOUS
  <2>2. PICK a : a = Last(p)
    OBVIOUS
  <2>3. /\ e \in Seq(Segment) /\ a \in Segment /\ n \in Nat \ {0} /\ Len(e) = n - 1
        /\ \A i \in 1 .. n - 1 : e[i] = p[i]
        /\ a = p[n] /\ q = Append(e, a)
    BY <2>1, <2>2, <1>1, <1>3, <1>4 DEF Path
  <2>4. /\ q \in Seq(Segment) /\ Len(q) = Len(e) + 1
        /\ \A i \in 1 .. Len(e) : q[i] = e[i]
        /\ q[Len(e) + 1] = a
    BY <2>3, AppendProperties
  <2>5. QED
    BY <2>3, <2>4 DEF Path
<1>6. Len(q) = n /\ q[n] = p[n]
  BY <1>5
<1>7. \A i \in 1 .. n : q[i] = p[i]
  BY <1>5, <1>6
<1>8. q = p
  BY <1>4, <1>5, <1>6, <1>7, SeqEqual DEF Path
<1>9. QED
  BY <1>2, <1>3, <1>8

(* A prefix of a prefix.                                                   *)
LEMMA PrefixOfPrefix ==
    ASSUME NEW p \in Path, NEW n \in 0 .. Len(p), NEW m \in 0 .. n
    PROVE  SubSeq(SubSeq(p, 1, n), 1, m) = SubSeq(p, 1, m)
<1>1. Len(p) \in Nat
  BY LenProperties DEF Path
<1>2. m \in 0 .. Len(p)
  BY <1>1
<1>3. PICK q : q = SubSeq(p, 1, n)
  OBVIOUS
<1>4. q \in Path /\ Len(q) = n /\ \A i \in 1 .. n : q[i] = p[i]
  BY <1>3, Prefix
<1>5. PICK s : s = SubSeq(q, 1, m)
  OBVIOUS
<1>6. s \in Path /\ Len(s) = m /\ \A i \in 1 .. m : s[i] = q[i]
  BY <1>4, <1>5, Prefix
<1>7. PICK t : t = SubSeq(p, 1, m)
  OBVIOUS
<1>8. t \in Path /\ Len(t) = m /\ \A i \in 1 .. m : t[i] = p[i]
  BY <1>2, <1>7, Prefix
<1>9. \A i \in 1 .. m : s[i] = t[i]
  BY <1>4, <1>6, <1>8
<1>10. s = t
  BY <1>6, <1>8, <1>9, SeqEqual DEF Path
<1>11. QED
  BY <1>3, <1>5, <1>7, <1>10

(* The folder of the first segments, but one.                              *)
LEMMA FrontOfPrefix ==
    ASSUME NEW p \in Path, NEW n \in 1 .. Len(p)
    PROVE  Front(SubSeq(p, 1, n)) = SubSeq(p, 1, n - 1)
<1>1. n \in 0 .. Len(p) /\ n - 1 \in 0 .. n
  BY LenProperties DEF Path
<1>2. Len(SubSeq(p, 1, n)) = n
  BY <1>1, Prefix
<1>3. QED
  BY <1>1, <1>2, PrefixOfPrefix DEF Front

(* Only a file with exactly one extension is an object whose key is a      *)
(* single segment, and that segment is its base name.                      *)
LEMMA KeyOfOneExtension ==
    ASSUME NEW f \in Layout, NEW n \in Segment
    PROVE  Key(f) = <<n>> <=> Len(f.ext) = 1 /\ f.base = n
<1>1. f.base \in Segment /\ f.ext \in Path
  BY FileFields
<1>2. CASE Len(f.ext) = 1
  <2>1. <<f.base>> = <<n>> <=> f.base = n
    OBVIOUS
  <2>2. QED
    BY <1>2, <2>1 DEF Key
<1>3. CASE Len(f.ext) # 1
  <2>0. PICK S : S = Segment \union {"!"}
    OBVIOUS
  <2>1. ASSUME NEW a \in S
        PROVE  <<a>> \in Seq(S) /\ Len(<<a>>) = 1
    OBVIOUS
  <2>2. <<f.base>> \in Seq(S) /\ Len(<<f.base>>) = 1
    BY <1>1, <2>0, <2>1
  <2>3. f.ext \in Seq(S) /\ Len(f.ext) \in Nat
    BY <1>1, <2>0, SeqMonotonic, LenProperties DEF Path
  <2>4. <<"!">> \in Seq(S) /\ Len(<<"!">>) = 1
    BY <2>0, <2>1
  <2>6. PICK s : s = <<f.base>> \o f.ext
    OBVIOUS
  <2>7. s \in Seq(S) /\ Len(s) = 1 + Len(f.ext)
    BY <2>2, <2>3, <2>6, ConcatProperties
  <2>8. Len(s \o <<"!">>) = Len(s) + 1
    BY <2>4, <2>7, ConcatProperties
  <2>5. Len(Key(f)) # 1
    BY <1>3, <2>3, <2>6, <2>7, <2>8 DEF Key
  <2>9. QED
    BY <1>3, <2>5
<1>4. QED
  BY <1>2, <1>3

-----------------------------------------------------------------------------
(* The walk of Query.                                                      *)

(* Query's recursive function, and what it amounts to: every folder on the *)
(* way is a child of its parent's object.                                  *)
Walk(p) ==
    CHOOSE g : g = [i \in 0 .. Len(p) - 1 |->
                      i = 0 \/ (g[i - 1] /\ SubSeq(p, 1, i) \in children)]
Passable(p, n) == \A j \in 1 .. n : SubSeq(p, 1, j) \in children

(* The recursion has a solution.                                           *)
LEMMA WalkIsDefined ==
    ASSUME NEW p \in Path, p # <<>>
    PROVE  Walk(p) = [i \in 0 .. Len(p) - 1 |->
                        i = 0 \/ (Walk(p)[i - 1] /\ SubSeq(p, 1, i) \in children)]
<1>1. PICK n : n = Len(p) - 1
  OBVIOUS
<1>2. n \in Nat
  BY <1>1, FrontAndLast
<1>3. PICK g : g = [i \in 0 .. n |-> Passable(p, i)]
  OBVIOUS
<1>0. Passable(p, 0)
  BY DEF Passable
<1>4. ASSUME NEW i \in 0 .. n
      PROVE  Passable(p, i) = (i = 0 \/ (g[i - 1] /\ SubSeq(p, 1, i) \in children))
  <2>1. CASE i = 0
    <3>1. Passable(p, i) = TRUE
      BY <2>1, <1>0 DEF Passable
    <3>2. QED
      BY <2>1, <3>1
  <2>2. CASE i # 0
    <3>1. i - 1 \in 0 .. n /\ i \in Nat
      BY <2>2, <1>2
    <3>2. g[i - 1] = Passable(p, i - 1)
      BY <3>1, <1>3
    <3>3. \A j \in Int : j \in 1 .. i <=> j = i \/ j \in 1 .. i - 1
      BY <2>2, <3>1
    <3>4. Passable(p, i) <=> Passable(p, i - 1) /\ SubSeq(p, 1, i) \in children
      BY <3>1, <3>3 DEF Passable
    <3>5. QED
      BY <2>2, <3>2, <3>4 DEF Passable
  <2>3. QED
    BY <2>1, <2>2
<1>5. g = [i \in 0 .. n |-> i = 0 \/ (g[i - 1] /\ SubSeq(p, 1, i) \in children)]
  BY <1>3, <1>4
<1>6. QED
  BY <1>1, <1>5 DEF Walk

(* It has one only: a first place where two differ has another before it.  *)
LEMMA WalkPasses ==
    ASSUME NEW p \in Path, p # <<>>, NEW n \in 0 .. Len(p) - 1
    PROVE  Walk(p)[n] <=> Passable(p, n)
<1>1. PICK g : g = Walk(p)
  OBVIOUS
<1>2. PICK k : k = Len(p) - 1
  OBVIOUS
<1>3. k \in Nat /\ n \in 0 .. k
  BY <1>2, FrontAndLast
<1>4. \A i \in 0 .. k : g[i] = (i = 0 \/ (g[i - 1] /\ SubSeq(p, 1, i) \in children))
  BY <1>1, <1>2, WalkIsDefined
<1>0. Passable(p, 0)
  BY DEF Passable
<1>5. PICK T : T = {i \in 0 .. k : ~(g[i] <=> Passable(p, i))}
  OBVIOUS
<1>6. ASSUME T # {} PROVE FALSE
  <2>0. T \in SUBSET Nat
    BY <1>3, <1>5
  <2>1. PICK i \in T : \A m \in T : i <= m
    BY <2>0, <1>6, LeastNatural
  <2>2. i \in 0 .. k /\ ~(g[i] <=> Passable(p, i))
    BY <2>1, <1>5
  <2>7. 0 \in 0 .. k
    BY <1>3
  <2>8. Passable(p, 0) /\ g[0]
    BY <2>7, <1>4, <1>0
  <2>3. i # 0
    BY <2>2, <2>8
  <2>4. i - 1 \in 0 .. k /\ i - 1 \notin T
    BY <2>1, <2>2, <2>3, <1>3
  <2>5. g[i - 1] <=> Passable(p, i - 1)
    BY <2>4, <1>5
  <2>6. Passable(p, i) <=> Passable(p, i - 1) /\ SubSeq(p, 1, i) \in children
    BY <2>2, <2>3 DEF Passable
  <2>9. QED
    BY <2>2, <2>3, <2>5, <2>6, <1>4
<1>7. QED
  BY <1>1, <1>3, <1>5, <1>6

(* What Query answers, without its recursion.                              *)
LEMMA QueryAnswers ==
    ASSUME NEW p \in Path, p # <<>>
    PROVE  Query(p) = IF Passable(p, Len(p) - 1)
                        THEN {o \in tree : o.folder = Front(p) /\ o.key = <<Last(p)>>}
                        ELSE {}
<1>1. Len(p) - 1 \in 0 .. Len(p) - 1
  BY FrontAndLast
<1>2. Walk(p)[Len(p) - 1] <=> Passable(p, Len(p) - 1)
  BY <1>1, WalkPasses
<1>3. Query(p) = IF Walk(p)[Len(p) - 1]
                   THEN {o \in tree : o.folder = Front(p) /\ o.key = <<Last(p)>>}
                   ELSE {}
  BY DEF Query, Walk
<1>4. QED
  BY <1>2, <1>3

-----------------------------------------------------------------------------
(* What the activations do to the branch and to the children.              *)

(* The part of TypeOK that is about activations, and the rest of it.       *)
LeavesOK ==
    \A i \in DOMAIN stack :
      /\ stack[i].folder \in Folders /\ stack[i].stage \in {"new", "files", "dirs"}
      /\ stack[i].left \subseteq
           IF stack[i].stage = "dirs" THEN SubFolders(stack[i].folder)
           ELSE FilesIn(stack[i].folder)
RestTypes ==
    /\ phase \in {"collecting", "ready", "checking", "done", "lost"}
    /\ {yielded, provided} \subseteq BOOLEAN
    /\ current = NoFile \/ (current.file \in Layout /\ current.length \in -1..MaxSize)
    /\ size \in [Readable -> 0..MaxSize] /\ stale \subseteq Readable
    /\ touches \in 0..MaxTouches
    /\ \A o \in tree : o.file \in Layout /\ o.bytes \in 0..MaxSize
    /\ children \subseteq Folders
    /\ known \subseteq Modules /\ environments \subseteq Modules
    /\ fibers \in 0..MaxMissed

(* Nothing is lost in between.                                             *)
LEMMA TypeParts == (TypeOK <=> LeavesOK /\ RestTypes) /\ (TypeOK' <=> LeavesOK' /\ RestTypes')
BY DEF TypeOK, LeavesOK, RestTypes

(* A folder in another has one segment more.                               *)
LEMMA SubFolderIs ==
    ASSUME NEW d, NEW e \in SubFolders(d)
    PROVE  /\ e \in Folders /\ e \in Path /\ e # <<>> /\ Front(e) = d
           /\ Len(d) \in Nat /\ Len(e) = Len(d) + 1
<1>1. e \in Folders /\ e \in Path /\ e # <<>> /\ Front(e) = d
  BY FoldersArePaths DEF SubFolders
<1>2. QED
  BY <1>1, FrontAndLast

(* What is on top.                                                         *)
LEMMA TopIs ==
    ASSUME BranchOK, NEW n, n = Len(stack)
    PROVE  /\ n \in Nat \ {0} /\ n \in 1 .. n /\ DOMAIN stack = 1 .. n
           /\ Top = stack[n] /\ Top \in Activations
           /\ Top.folder \in Folders /\ Top.folder \in Path /\ Len(Top.folder) = n - 1
           /\ Top.stage # "dirs" => Top.left \subseteq Layout
           /\ Top.stage = "dirs" => Top.left \subseteq Folders
<1>1. n \in Nat /\ n >= 1 /\ DOMAIN stack = 1 .. n
  BY LenProperties DEF BranchOK
<1>2. n \in 1 .. n
  BY <1>1
<1>3. stack[n] \in Activations /\ Len(stack[n].folder) = n - 1
  BY <1>2, ElementOfSeq DEF BranchOK
<1>4. Top = stack[n]
  BY DEF Top
<1>5. /\ Top.folder \in Folders
      /\ Top.stage # "dirs" => Top.left \subseteq Layout
      /\ Top.stage = "dirs" => Top.left \subseteq Folders
  BY <1>3, <1>4 DEF Activations
<1>6. QED
  BY <1>1, <1>2, <1>3, <1>4, <1>5, FoldersArePaths

(* Each folder of the branch is that of one activation, told by its length.*)
LEMMA OnBranchIs ==
    ASSUME BranchOK, NEW d
    PROVE  /\ OnBranch(d) => Len(d) \in 0 .. Len(stack) - 1
           /\ \A i \in 1 .. Len(stack) : OnBranch(d) /\ Len(d) = i - 1 => stack[i].folder = d
<1>1. PICK n : n = Len(stack)
  OBVIOUS
<1>2. n \in Nat \ {0} /\ DOMAIN stack = 1 .. n
  BY <1>1, TopIs
<1>3. \A i \in 1 .. n : Len(stack[i].folder) = i - 1
  BY <1>1 DEF BranchOK
<1>4. ASSUME OnBranch(d)
      PROVE  \E i \in 1 .. n : stack[i].folder = d /\ Len(d) = i - 1
  BY <1>2, <1>3, <1>4 DEF OnBranch
<1>5. ASSUME OnBranch(d)
      PROVE  Len(d) \in 0 .. n - 1
  BY <1>2, <1>4, <1>5
<1>6. ASSUME NEW i \in 1 .. n, OnBranch(d), Len(d) = i - 1
      PROVE  stack[i].folder = d
  BY <1>2, <1>4, <1>6
<1>7. QED
  BY <1>1, <1>5, <1>6

(* The activation on top goes on, and takes no folder yet.                 *)
LEMMA SetTopWalks ==
    ASSUME WalkOK, LeavesOK, UNCHANGED children,
           NEW a \in Activations, SetTop(a), a.folder = Top.folder, Top.stage # "dirs",
           a.left \subseteq IF a.stage = "dirs" THEN SubFolders(a.folder)
                            ELSE FilesIn(a.folder),
           a.stage = "dirs" => a.left = SubFolders(a.folder)
    PROVE  /\ WalkOK' /\ LeavesOK' /\ Len(stack') = Len(stack)
           /\ \A d : Walked(d) => Walked(d)'
           /\ \A f : /\ Ahead(f)
                     /\ f.folder = Top.folder => a.stage = "files" /\ f \in a.left
                     => Ahead(f)'
<1>1. PICK n : n = Len(stack)
  OBVIOUS
<1>2. /\ n \in Nat \ {0} /\ n \in 1 .. n /\ DOMAIN stack = 1 .. n
      /\ Top = stack[n] /\ stack \in Seq(Activations)
  BY <1>1, TopIs DEF WalkOK, BranchOK
<1>3. stack' = [stack EXCEPT ![n] = a]
  BY <1>1 DEF SetTop
<1>4. /\ stack' \in Seq(Activations) /\ Len(stack') = n
      /\ \A i \in 1 .. n : stack'[i] = IF i = n THEN a ELSE stack[i]
  BY <1>1, <1>2, <1>3, ExceptSeq
<1>5. DOMAIN stack' = 1 .. n
  BY <1>4, LenProperties
<1>6. \A i \in 1 .. n : stack'[i].folder = stack[i].folder
  BY <1>2, <1>4
<1>7. \A d : OnBranch(d)' = OnBranch(d)
  BY <1>2, <1>5, <1>6 DEF OnBranch
<1>8. BranchOK'
  <2>1. \A i \in 1 .. n : Len(stack'[i].folder) = i - 1
    BY <1>1, <1>6 DEF WalkOK, BranchOK
  <2>2. ASSUME NEW i \in 2 .. n
        PROVE  /\ Front(stack'[i].folder) = stack'[i - 1].folder
               /\ stack'[i - 1].stage = "dirs"
               /\ stack'[i].folder \notin stack'[i - 1].left
    <3>1. i \in 1 .. n /\ i - 1 \in 1 .. n /\ i - 1 # n
      BY <1>2
    <3>2. stack'[i - 1] = stack[i - 1] /\ stack'[i].folder = stack[i].folder
      BY <3>1, <1>4, <1>6
    <3>3. QED
      BY <3>2, <1>1 DEF WalkOK, BranchOK
  <2>3. QED
    BY <2>1, <2>2, <1>2, <1>4 DEF BranchOK
<1>9. ASSUME NEW i \in 1 .. n
      PROVE  BelowOK(i)'
  <2>1. BelowOK(i)
    BY <1>1, <1>9 DEF WalkOK
  <2>2. CASE i = n
    <3>1. \A e \in SubFolders(Top.folder) : e \notin children
      BY <2>1, <2>2, <1>2 DEF BelowOK
    <3>2. stack'[i] = a
      BY <2>2, <1>4
    <3>3. QED
      BY <3>1, <3>2 DEF BelowOK
  <2>3. CASE i # n
    <3>1. stack'[i] = stack[i]
      BY <2>3, <1>4
    <3>2. QED
      BY <3>1, <2>1, <1>7 DEF BelowOK
  <2>4. QED
    BY <2>2, <2>3
<1>10. \A d \in children : ChildOK(d)'
  BY <1>7 DEF WalkOK, ChildOK, Walked
<1>11. WalkOK'
  BY <1>4, <1>8, <1>9, <1>10 DEF WalkOK
<1>12. LeavesOK'
  <2>1. SUFFICES ASSUME NEW i \in 1 .. n
        PROVE  /\ stack'[i].folder \in Folders
               /\ stack'[i].stage \in {"new", "files", "dirs"}
               /\ stack'[i].left \subseteq
                    IF stack'[i].stage = "dirs" THEN SubFolders(stack'[i].folder)
                    ELSE FilesIn(stack'[i].folder)
    BY <1>5 DEF LeavesOK
  <2>2. CASE i = n
    BY <2>2, <1>4 DEF Activations
  <2>3. CASE i # n
    BY <2>3, <1>2, <1>4 DEF LeavesOK
  <2>4. QED
    BY <2>2, <2>3
<1>13. ASSUME NEW f, Ahead(f),
              f.folder = Top.folder => a.stage = "files" /\ f \in a.left
       PROVE  Ahead(f)'
  BY <1>1, <1>2, <1>4, <1>13 DEF Ahead
<1>14. QED
  BY <1>1, <1>4, <1>7, <1>11, <1>12, <1>13 DEF Walked

(* A folder is walked into: it and what is in it were no children yet.     *)
LEMMA DiveWalks ==
    ASSUME WalkOK, LeavesOK, NEW d \in Folders, Dive(d)
    PROVE  /\ WalkOK' /\ LeavesOK' /\ Len(stack') = Len(stack) + 1
           /\ \A x : Walked(x) => Walked(x)'
           /\ \A f : Ahead(f) => Ahead(f)'
<1>1. PICK n : n = Len(stack)
  OBVIOUS
<1>2. /\ n \in Nat \ {0} /\ n \in 1 .. n /\ DOMAIN stack = 1 .. n
      /\ Top = stack[n] /\ stack \in Seq(Activations) /\ Top \in Activations
      /\ Top.folder \in Path /\ Len(Top.folder) = n - 1
  BY <1>1, TopIs DEF WalkOK, BranchOK
<1>3. Top.stage = "dirs" /\ d \in Top.left /\ UNCHANGED children
  BY DEF Dive, At
<1>4. d \in SubFolders(Top.folder)
  BY <1>2, <1>3 DEF LeavesOK
<1>5. d \in Path /\ d # <<>> /\ Front(d) = Top.folder /\ Len(d) = n
  BY <1>2, <1>4, SubFolderIs
<1>6. PICK a : a = [Top EXCEPT !.left = @ \ {d}]
  OBVIOUS
<1>7. PICK b : b = [folder |-> d, stage |-> "new", left |-> {}]
  OBVIOUS
<1>8. /\ a \in Activations /\ a.folder = Top.folder /\ a.stage = "dirs"
      /\ a.left = Top.left \ {d}
  BY <1>2, <1>3, <1>6 DEF Activations
<1>9. b \in Activations /\ b.folder = d /\ b.stage = "new" /\ b.left = {}
  BY <1>7 DEF Activations
<1>10. PICK s : s = [stack EXCEPT ![n] = a]
  OBVIOUS
<1>11. stack' = Append(s, b)
  BY <1>1, <1>6, <1>7, <1>10 DEF Dive
<1>12. /\ s \in Seq(Activations) /\ Len(s) = n
       /\ \A i \in 1 .. n : s[i] = IF i = n THEN a ELSE stack[i]
  BY <1>1, <1>2, <1>8, <1>10, ExceptSeq
<1>13. /\ stack' \in Seq(Activations) /\ Len(stack') = n + 1
       /\ \A i \in 1 .. n : stack'[i] = s[i]
       /\ stack'[n + 1] = b
  BY <1>9, <1>11, <1>12, AppendProperties
<1>14. PICK k : k = n + 1
  OBVIOUS
<1>15. /\ Len(stack') = k /\ DOMAIN stack' = 1 .. k /\ k - 1 = n /\ k \in 1 .. k
       /\ \A i \in 1 .. k : i \in 1 .. n \/ i = k
       /\ \A i \in 1 .. n : i \in 1 .. k /\ i # k
  BY <1>2, <1>13, <1>14, LenProperties
<1>16. /\ stack'[k] = b
       /\ \A i \in 1 .. n : stack'[i] = IF i = n THEN a ELSE stack[i]
       /\ \A i \in 1 .. n : stack'[i].folder = stack[i].folder
       /\ \A i \in 1 .. n : stack'[i].stage = stack[i].stage
  BY <1>2, <1>3, <1>8, <1>12, <1>13, <1>14
<1>17. \A x : OnBranch(x)' <=> OnBranch(x) \/ x = d
  <2>1. ASSUME NEW x, OnBranch(x)' PROVE OnBranch(x) \/ x = d
    BY <2>1, <1>2, <1>9, <1>15, <1>16 DEF OnBranch
  <2>2. ASSUME NEW x, OnBranch(x) PROVE OnBranch(x)'
    BY <2>2, <1>2, <1>15, <1>16 DEF OnBranch
  <2>3. OnBranch(d)'
    BY <1>9, <1>15, <1>16 DEF OnBranch
  <2>4. QED
    BY <2>1, <2>2, <2>3
<1>18. ~OnBranch(d)
  BY <1>1, <1>2, <1>5, OnBranchIs DEF WalkOK
<1>19. d \notin children
  <2>1. BelowOK(n)
    BY <1>1, <1>2 DEF WalkOK
  <2>2. QED
    BY <2>1, <1>2, <1>3, <1>4 DEF BelowOK
<1>20. BranchOK'
  <2>1. ASSUME NEW i \in 1 .. k
        PROVE  Len(stack'[i].folder) = i - 1
    <3>1. CASE i = k
      BY <3>1, <1>5, <1>9, <1>15, <1>16
    <3>2. CASE i # k
      BY <3>2, <1>1, <1>15, <1>16 DEF WalkOK, BranchOK
    <3>3. QED
      BY <3>1, <3>2
  <2>2. ASSUME NEW i \in 2 .. k
        PROVE  /\ Front(stack'[i].folder) = stack'[i - 1].folder
               /\ stack'[i - 1].stage = "dirs"
               /\ stack'[i].folder \notin stack'[i - 1].left
    <3>1. CASE i = k
      <4>1. stack'[i] = b /\ stack'[i - 1] = a
        BY <3>1, <1>2, <1>15, <1>16
      <4>2. QED
        BY <4>1, <1>5, <1>8, <1>9
    <3>2. CASE i # k
      <4>1. i \in 2 .. n /\ i \in 1 .. n /\ i - 1 \in 1 .. n /\ i - 1 # n
        BY <3>2, <1>2, <1>15
      <4>2. stack'[i - 1] = stack[i - 1] /\ stack'[i].folder = stack[i].folder
        BY <4>1, <1>16
      <4>3. QED
        BY <4>1, <4>2, <1>1 DEF WalkOK, BranchOK
    <3>3. QED
      BY <3>1, <3>2
  <2>3. QED
    BY <2>1, <2>2, <1>2, <1>13, <1>14, <1>15 DEF BranchOK
<1>21. ASSUME NEW i \in 1 .. k, NEW e \in SubFolders(stack'[i].folder)
       PROVE  e \in children <=>
                stack'[i].stage = "dirs" /\ e \notin stack'[i].left /\ ~OnBranch(e)'
  <2>1. Len(e) = i
    BY <1>20, <1>15, SubFolderIs DEF BranchOK
  <2>2. CASE i = k
    <3>1. Front(e) = d /\ stack'[i].stage = "new"
      BY <2>2, <1>9, <1>16, SubFolderIs
    <3>2. e \notin children
      BY <3>1, <1>18, <1>19 DEF WalkOK, ChildOK, Walked
    <3>3. QED
      BY <3>1, <3>2
  <2>3. CASE i = n
    <3>1. BelowOK(i) /\ e \in SubFolders(stack[i].folder)
      BY <2>3, <1>1, <1>2, <1>16 DEF WalkOK
    <3>2. stack'[i] = a /\ stack[i] = Top
      BY <2>3, <1>2, <1>16
    <3>3. QED
      BY <3>1, <3>2, <1>3, <1>8, <1>17, <1>18, <1>19 DEF BelowOK
  <2>4. CASE i # n /\ i # k
    <3>1. i \in 1 .. n /\ stack'[i] = stack[i]
      BY <2>4, <1>15, <1>16
    <3>2. BelowOK(i)
      BY <3>1, <1>1 DEF WalkOK
    <3>3. e # d
      BY <2>1, <2>4, <1>5
    <3>4. QED
      BY <3>1, <3>2, <3>3, <1>17 DEF BelowOK
  <2>5. QED
    BY <2>2, <2>3, <2>4
<1>22. \A i \in 1 .. k : BelowOK(i)'
  BY <1>3, <1>21 DEF BelowOK
<1>23. \A c \in children : ChildOK(c)'
  BY <1>3, <1>17, <1>19 DEF WalkOK, ChildOK, Walked
<1>24. WalkOK'
  BY <1>3, <1>15, <1>20, <1>22, <1>23 DEF WalkOK
<1>25. LeavesOK'
  <2>1. SUFFICES ASSUME NEW i \in 1 .. k
        PROVE  /\ stack'[i].folder \in Folders
               /\ stack'[i].stage \in {"new", "files", "dirs"}
               /\ stack'[i].left \subseteq
                    IF stack'[i].stage = "dirs" THEN SubFolders(stack'[i].folder)
                    ELSE FilesIn(stack'[i].folder)
    BY <1>15 DEF LeavesOK
  <2>2. CASE i = k
    BY <2>2, <1>9, <1>16
  <2>3. CASE i # k
    <3>1. /\ i \in 1 .. n /\ stack'[i].folder = stack[i].folder
          /\ stack'[i].stage = stack[i].stage /\ stack'[i].left \subseteq stack[i].left
      BY <2>3, <1>2, <1>8, <1>15, <1>16
    <3>2. QED
      BY <3>1, <1>2 DEF LeavesOK
  <2>4. QED
    BY <2>2, <2>3
<1>26. ASSUME NEW f, Ahead(f), NEW i \in 1 .. k, stack'[i].folder = f.folder
       PROVE  \/ stack'[i].stage = "new"
              \/ stack'[i].stage = "files" /\ f \in stack'[i].left
  <2>1. CASE i = k
    BY <2>1, <1>9, <1>16
  <2>2. CASE i # k
    <3>1. i \in 1 .. n
      BY <2>2, <1>15
    <3>2. \/ stack[i].stage = "new"
          \/ stack[i].stage = "files" /\ f \in stack[i].left
      BY <3>1, <1>1, <1>16, <1>26 DEF Ahead
    <3>3. i # n
      BY <3>2, <1>2, <1>3
    <3>4. QED
      BY <3>1, <3>2, <3>3, <1>16
  <2>3. QED
    BY <2>1, <2>2
<1>27. \A f : Ahead(f) => Ahead(f)'
  BY <1>3, <1>15, <1>26 DEF Ahead
<1>28. QED
  BY <1>1, <1>3, <1>13, <1>17, <1>24, <1>25, <1>27 DEF Walked

(* The activation on top is done: its folder, with all that is in it,      *)
(* becomes a child of the one that waits for it.                           *)
LEMMA PopWalks ==
    ASSUME WalkOK, LeavesOK, Len(stack) > 1, Top.stage = "dirs", Top.left = {},
           stack' = Front(stack), children' = children \union {Top.folder}
    PROVE  /\ WalkOK' /\ LeavesOK' /\ Top.folder \in Folders
           /\ \A x : Walked(x) => Walked(x)'
           /\ \A f : Ahead(f) => Ahead(f)'
<1>1. PICK n : n = Len(stack)
  OBVIOUS
<1>2. /\ n \in Nat \ {0} /\ n \in 1 .. n /\ DOMAIN stack = 1 .. n /\ n > 1
      /\ Top = stack[n] /\ stack \in Seq(Activations) /\ Top \in Activations
      /\ Top.folder \in Path /\ Len(Top.folder) = n - 1 /\ Top.folder \in Folders
  BY <1>1, TopIs DEF WalkOK, BranchOK
<1>3. PICK t : t = Top.folder
  OBVIOUS
<1>4. PICK k : k = n - 1
  OBVIOUS
<1>5. /\ k \in Nat \ {0} /\ k \in 1 .. k /\ k # n /\ n = k + 1
      /\ \A i \in 1 .. n : i \in 1 .. k \/ i = n
      /\ \A i \in 1 .. k : i \in 1 .. n /\ i # n
  BY <1>2, <1>4
<1>6. /\ stack' \in Seq(Activations) /\ Len(stack') = k
      /\ \A i \in 1 .. k : stack'[i] = stack[i]
  <2>1. stack' = SubSeq(stack, 1, k)
    BY <1>1, <1>4 DEF Front
  <2>2. /\ \A i \in 1 .. k : stack[i] \in Activations
        /\ 1 \in Int /\ k \in Int /\ 1 <= k /\ k - 1 + 1 = k
    BY <1>1, <1>2, <1>5, ElementOfSeq
  <2>3. /\ SubSeq(stack, 1, k) \in Seq(Activations)
        /\ Len(SubSeq(stack, 1, k)) = k - 1 + 1
        /\ \A i \in 1 .. k - 1 + 1 : SubSeq(stack, 1, k)[i] = stack[1 + i - 1]
    BY <2>2, SubSeqProperties
  <2>4. QED
    BY <2>1, <2>2, <2>3
<1>7. DOMAIN stack' = 1 .. k
  BY <1>6, LenProperties
<1>8. /\ t # <<>> /\ Front(t) = stack[k].folder
      /\ stack[k].stage = "dirs" /\ t \notin stack[k].left
  <2>1. n \in 2 .. n
    BY <1>2
  <2>2. Len(t) = k
    BY <1>2, <1>3, <1>4
  <2>3. QED
    BY <2>1, <2>2, <1>1, <1>2, <1>3, <1>4, <1>5 DEF WalkOK, BranchOK
<1>9. \A i \in 1 .. k : Len(stack[i].folder) = i - 1 /\ stack[i].folder # t
  BY <1>1, <1>2, <1>3, <1>5 DEF WalkOK, BranchOK
<1>10. \A x : OnBranch(x)' <=> OnBranch(x) /\ x # t
  <2>1. ASSUME NEW x, OnBranch(x)' PROVE OnBranch(x) /\ x # t
    BY <2>1, <1>2, <1>5, <1>6, <1>7, <1>9 DEF OnBranch
  <2>2. ASSUME NEW x, OnBranch(x), x # t PROVE OnBranch(x)'
    BY <2>2, <1>2, <1>3, <1>5, <1>6, <1>7 DEF OnBranch
  <2>3. QED
    BY <2>1, <2>2
<1>11. SubFolders(t) \subseteq children
  <2>1. SUFFICES ASSUME NEW e \in SubFolders(t) PROVE e \in children
    OBVIOUS
  <2>2. Len(e) = n
    BY <1>2, <1>3, <1>4, <1>5, SubFolderIs
  <2>3. ~OnBranch(e)
    BY <2>2, <1>1, <1>2, OnBranchIs DEF WalkOK
  <2>4. BelowOK(n)
    BY <1>1, <1>2 DEF WalkOK
  <2>5. QED
    BY <2>3, <2>4, <1>2, <1>3 DEF BelowOK
<1>12. BranchOK'
  <2>1. \A i \in 1 .. k : Len(stack'[i].folder) = i - 1
    BY <1>6, <1>9
  <2>2. ASSUME NEW i \in 2 .. k
        PROVE  /\ Front(stack'[i].folder) = stack'[i - 1].folder
               /\ stack'[i - 1].stage = "dirs"
               /\ stack'[i].folder \notin stack'[i - 1].left
    <3>1. i \in 2 .. n /\ i \in 1 .. k /\ i - 1 \in 1 .. k
      BY <1>5
    <3>2. stack'[i] = stack[i] /\ stack'[i - 1] = stack[i - 1]
      BY <3>1, <1>6
    <3>3. QED
      BY <3>1, <3>2, <1>1 DEF WalkOK, BranchOK
  <2>3. QED
    BY <2>1, <2>2, <1>5, <1>6 DEF BranchOK
<1>13. ASSUME NEW i \in 1 .. k, NEW e \in SubFolders(stack[i].folder)
       PROVE  e \in children' <=>
                stack[i].stage = "dirs" /\ e \notin stack[i].left /\ ~OnBranch(e)'
  <2>1. BelowOK(i)
    BY <1>1, <1>5 DEF WalkOK
  <2>2. Front(e) = stack[i].folder
    BY SubFolderIs
  <2>3. CASE e = t
    <3>1. i = k
      BY <2>2, <2>3, <1>5, <1>8, <1>9
    <3>2. QED
      BY <3>1, <2>3, <1>3, <1>8, <1>10
  <2>4. CASE e # t
    BY <2>1, <2>4, <1>3, <1>10 DEF BelowOK
  <2>5. QED
    BY <2>3, <2>4
<1>14. \A i \in 1 .. k : BelowOK(i)'
  BY <1>6, <1>13 DEF BelowOK
<1>15. \A x : Walked(x) => Walked(x)'
  BY <1>3, <1>10 DEF Walked
<1>16. ChildOK(t)'
  <2>1. PICK u : u = Front(t)
    OBVIOUS
  <2>2. OnBranch(u)'
    BY <2>1, <1>5, <1>6, <1>7, <1>8 DEF OnBranch
  <2>3. t # <<>> /\ ~OnBranch(t)' /\ Walked(u)'
    BY <2>2, <1>8, <1>10 DEF Walked
  <2>4. SubFolders(t) \subseteq children'
    BY <1>11
  <2>5. QED
    BY <2>1, <2>3, <2>4 DEF ChildOK
<1>17. ASSUME NEW c \in children PROVE ChildOK(c)'
  <2>1. ChildOK(c)
    BY DEF WalkOK
  <2>2. QED
    BY <2>1, <1>10, <1>15 DEF ChildOK
<1>18. WalkOK'
  BY <1>3, <1>6, <1>12, <1>14, <1>16, <1>17 DEF WalkOK
<1>19. LeavesOK'
  BY <1>2, <1>5, <1>6, <1>7 DEF LeavesOK
<1>20. ASSUME NEW f, Ahead(f)
       PROVE  Ahead(f)'
  <2>1. f.folder # t
    BY <1>1, <1>2, <1>3, <1>20 DEF Ahead
  <2>2. f.folder \notin children'
    BY <2>1, <1>3, <1>20 DEF Ahead
  <2>3. QED
    BY <2>2, <1>1, <1>5, <1>6, <1>20 DEF Ahead
<1>21. QED
  BY <1>2, <1>15, <1>18, <1>19, <1>20

-----------------------------------------------------------------------------
(* What a step leaves as it is.                                            *)

(* Steps that touch neither branch nor children.                           *)
LEMMA SameWalks ==
    ASSUME UNCHANGED <<stack, children>>
    PROVE  /\ WalkOK => WalkOK'
           /\ LeavesOK => LeavesOK'
           /\ \A x : Walked(x) => Walked(x)'
           /\ \A f : Ahead(f) => Ahead(f)'
<1>1. \A x : OnBranch(x)' = OnBranch(x)
  BY DEF OnBranch
<1>2. BranchOK => BranchOK'
  BY DEF BranchOK
<1>3. \A i : BelowOK(i) => BelowOK(i)'
  BY <1>1 DEF BelowOK
<1>4. \A x : Walked(x) <=> Walked(x)'
  BY <1>1 DEF Walked
<1>5. \A d : ChildOK(d) => ChildOK(d)'
  BY <1>1, <1>4 DEF ChildOK
<1>6. WalkOK => WalkOK'
  BY <1>2, <1>3, <1>5 DEF WalkOK
<1>7. LeavesOK => LeavesOK'
  BY DEF LeavesOK
<1>8. \A f : Ahead(f) => Ahead(f)'
  BY DEF Ahead
<1>9. QED
  BY <1>4, <1>6, <1>7, <1>8

(* Objects stay where they are.                                            *)
LEMMA SameObjects ==
    ASSUME ObjectsOK, UNCHANGED tree, \A x : Walked(x) => Walked(x)'
    PROVE  ObjectsOK'
<1>1. \A o : ObjectOK(o) => ObjectOK(o)'
  BY DEF ObjectOK
<1>2. QED
  BY <1>1 DEF ObjectsOK

(* No file that was ahead is passed by.                                    *)
LEMMA StillAhead ==
    ASSUME YieldOK, UNCHANGED <<yielded, tree, current>>,
           \A f \in Readable : Ahead(f) => Ahead(f)'
    PROVE  YieldOK'
BY DEF YieldOK

(* A file that is ahead, of the folder on top, has not been taken.         *)
LEMMA TopAhead ==
    ASSUME WalkOK, NEW f, Ahead(f), f.folder = Top.folder
    PROVE  Top.stage = "new" \/ (Top.stage = "files" /\ f \in Top.left)
<1>1. PICK n : n = Len(stack)
  OBVIOUS
<1>2. n \in 1 .. n /\ Top = stack[n]
  BY <1>1, TopIs DEF WalkOK
<1>3. QED
  BY <1>1, <1>2 DEF Ahead

(* When only the root is left on the branch, it is the only folder there.  *)
LEMMA RootIsLeft ==
    ASSUME BranchOK, Len(stack) = 1, NEW d \in Path, OnBranch(d)
    PROVE  d = <<>>
<1>1. Len(d) \in 0 .. 0
  BY OnBranchIs
<1>2. QED
  BY <1>1, EmptySeq DEF Path

(* When the root is done, no file is ahead: a first folder on the way to   *)
(* one that was not walked into would be in one that was.                  *)
LEMMA NothingAhead ==
    ASSUME WalkOK, Len(stack) = 1, Top.stage = "dirs", Top.left = {}, NEW f \in Layout
    PROVE  ~Ahead(f)
<1>1. PICK c : c = f.folder
  OBVIOUS
<1>2. PICK n : n = Len(c)
  OBVIOUS
<1>3. c \in Path /\ n \in Nat
  BY <1>1, <1>2, FileFields, LenProperties DEF Path
<1>4. /\ BranchOK /\ 1 \in 1 .. Len(stack) /\ DOMAIN stack = 1 .. 1 /\ Top = stack[1]
      /\ Top.folder \in Path /\ Len(Top.folder) = 1 - 1
  BY TopIs DEF WalkOK
<1>5. Top.folder = <<>>
  BY <1>4, EmptySeq DEF Path
<1>6. PICK T : T = {k \in 0 .. n : ~Walked(SubSeq(c, 1, k))}
  OBVIOUS
<1>7. ASSUME T # {} PROVE FALSE
  <2>1. T \in SUBSET Nat
    BY <1>3, <1>6
  <2>2. PICK k \in T : \A m \in T : k <= m
    BY <2>1, <1>7, LeastNatural
  <2>3. PICK e : e = SubSeq(c, 1, k)
    OBVIOUS
  <2>4. k \in 0 .. n /\ ~Walked(e)
    BY <2>2, <2>3, <1>6
  <2>5. e \in Path /\ Len(e) = k /\ e \in Folders
    <3>1. e \in Path /\ Len(e) = k
      BY <2>3, <2>4, <1>2, <1>3, Prefix
    <3>2. e \in Folders
      BY <2>3, <2>4, <1>1, <1>2 DEF Folders
    <3>3. QED
      BY <3>1, <3>2
  <2>6. k # 0
    <3>1. SUFFICES ASSUME k = 0 PROVE FALSE
      OBVIOUS
    <3>2. e = <<>>
      BY <3>1, <2>5, EmptySeq DEF Path
    <3>3. OnBranch(e)
      BY <3>2, <1>4, <1>5 DEF OnBranch
    <3>4. QED
      BY <3>3, <2>4 DEF Walked
  <2>7. k \in 1 .. n /\ k - 1 \in 0 .. n /\ ~(k <= k - 1)
    BY <2>4, <2>6, <1>3
  <2>8. PICK p : p = SubSeq(c, 1, k - 1)
    OBVIOUS
  <2>9. p \in Path /\ Walked(p)
    BY <2>2, <2>7, <2>8, <1>2, <1>3, <1>6, Prefix
  <2>10. e \in SubFolders(p)
    <3>1. Front(e) = p
      BY <2>3, <2>7, <2>8, <1>2, <1>3, FrontOfPrefix
    <3>2. e # <<>>
      BY <2>5, <2>6
    <3>3. QED
      BY <3>1, <3>2, <2>5 DEF SubFolders
  <2>11. CASE p \in children
    BY <2>4, <2>10, <2>11 DEF WalkOK, ChildOK, Walked
  <2>12. CASE OnBranch(p)
    <3>1. p = Top.folder
      BY <2>9, <2>12, <1>4, <1>5, RootIsLeft
    <3>2. ~OnBranch(e) /\ e \notin children
      BY <2>4 DEF Walked
    <3>3. BelowOK(1)
      BY <1>4 DEF WalkOK
    <3>4. QED
      BY <3>1, <3>2, <3>3, <2>10, <1>4 DEF BelowOK
  <2>13. QED
    BY <2>9, <2>11, <2>12 DEF Walked
<1>8. Walked(c)
  <2>1. SubSeq(c, 1, n) = c
    BY <1>2, <1>3, SubSeqFull DEF Path
  <2>2. n \in 0 .. n
    BY <1>3
  <2>3. QED
    BY <2>1, <2>2, <1>6, <1>7
<1>9. SUFFICES ASSUME Ahead(f) PROVE FALSE
  OBVIOUS
<1>10. OnBranch(c)
  BY <1>1, <1>8, <1>9 DEF Ahead, Walked
<1>11. f.folder = Top.folder
  BY <1>1, <1>3, <1>4, <1>5, <1>10, RootIsLeft
<1>12. QED
  BY <1>9, <1>11, TopAhead

-----------------------------------------------------------------------------
(* The actions of CollectLocalTree.                                        *)

(* The files of a folder are listed.                                       *)
LEMMA ListFilesKeeps ==
    ASSUME SourceTreeInvariant, ListFiles
    PROVE  SourceTreeInvariant'
<1>1. /\ phase = "collecting" /\ Top.stage = "new" /\ current = NoFile
      /\ UNCHANGED <<phase, yielded, provided, current, size, stale, touches, tree, children,
                      known, environments, fibers>>
  BY DEF ListFiles, At, required, disk, checker
<1>2. /\ TypeOK /\ LeavesOK /\ RestTypes /\ WalkOK /\ ObjectsOK /\ PhaseOK /\ YieldOK /\ SourcesAreWhole
      /\ BranchOK
  BY TypeParts DEF SourceTreeInvariant, WalkOK
<1>3. PICK a : a = [Top EXCEPT !.stage = "files", !.left = FilesIn(Top.folder)]
  OBVIOUS
<1>4. /\ a \in Activations /\ a.folder = Top.folder /\ a.stage = "files"
      /\ a.left = FilesIn(Top.folder)
  <2>1. Top \in Activations /\ FilesIn(Top.folder) \subseteq Layout
    BY <1>2, TopIs DEF FilesIn
  <2>2. QED
    BY <2>1, <1>3 DEF Activations
<1>5. SetTop(a)
  BY <1>3 DEF ListFiles
<1>6. /\ WalkOK' /\ LeavesOK' /\ Len(stack') = Len(stack) /\ \A d : Walked(d) => Walked(d)'
      /\ \A f : /\ Ahead(f)
                /\ f.folder = Top.folder => a.stage = "files" /\ f \in a.left
                => Ahead(f)'
  BY <1>1, <1>2, <1>4, <1>5, SetTopWalks
<1>7. RestTypes'
  BY <1>1, <1>2 DEF RestTypes
<1>8. ObjectsOK'
  BY <1>1, <1>2, <1>6, SameObjects
<1>9. ReadingOK'
  BY <1>1 DEF ReadingOK
<1>10. PhaseOK' /\ SourcesAreWhole'
  BY <1>1, <1>2, <1>6 DEF PhaseOK, RequirerHasYielded, SourcesAreWhole
<1>11. YieldOK'
  <2>1. ASSUME NEW f \in Readable, Ahead(f) PROVE Ahead(f)'
    BY <2>1, <1>4, <1>6 DEF FilesIn, Readable
  <2>2. QED
    BY <2>1, <1>1, <1>2, StillAhead
<1>12. QED
  BY <1>6, <1>7, <1>8, <1>9, <1>10, <1>11, TypeParts DEF SourceTreeInvariant

(* The folders in a folder are listed.                                     *)
LEMMA ListDirsKeeps ==
    ASSUME SourceTreeInvariant, ListDirs
    PROVE  SourceTreeInvariant'
<1>1. /\ phase = "collecting" /\ Top.stage = "files" /\ current = NoFile
      /\ UNCHANGED <<phase, yielded, provided, current, size, stale, touches, tree, children,
                      known, environments, fibers>>
  BY DEF ListDirs, At, required, disk, checker
<1>2. /\ TypeOK /\ LeavesOK /\ RestTypes /\ WalkOK /\ ObjectsOK /\ PhaseOK /\ YieldOK /\ SourcesAreWhole
      /\ BranchOK
  BY TypeParts DEF SourceTreeInvariant, WalkOK
<1>3. PICK a : a = [Top EXCEPT !.stage = "dirs", !.left = SubFolders(Top.folder)]
  OBVIOUS
<1>4. /\ a \in Activations /\ a.folder = Top.folder /\ a.stage = "dirs"
      /\ a.left = SubFolders(Top.folder)
  <2>1. Top \in Activations /\ SubFolders(Top.folder) \subseteq Folders
    BY <1>2, TopIs DEF SubFolders
  <2>2. QED
    BY <2>1, <1>3 DEF Activations
<1>5. SetTop(a)
  BY <1>3 DEF ListDirs
<1>6. /\ WalkOK' /\ LeavesOK' /\ Len(stack') = Len(stack) /\ \A d : Walked(d) => Walked(d)'
      /\ \A f : /\ Ahead(f)
                /\ f.folder = Top.folder => a.stage = "files" /\ f \in a.left
                => Ahead(f)'
  BY <1>1, <1>2, <1>4, <1>5, SetTopWalks
<1>7. RestTypes'
  BY <1>1, <1>2 DEF RestTypes
<1>8. ObjectsOK'
  BY <1>1, <1>2, <1>6, SameObjects
<1>9. ReadingOK'
  BY <1>1 DEF ReadingOK
<1>10. PhaseOK' /\ SourcesAreWhole'
  BY <1>1, <1>2, <1>6 DEF PhaseOK, RequirerHasYielded, SourcesAreWhole
<1>11. YieldOK'
  <2>1. Top.left = {}
    BY DEF ListDirs
  <2>2. ASSUME NEW f \in Readable, Ahead(f) PROVE Ahead(f)'
    BY <2>1, <2>2, <1>1, <1>2, <1>6, TopAhead
  <2>3. QED
    BY <2>2, <1>1, <1>2, StillAhead
<1>12. QED
  BY <1>6, <1>7, <1>8, <1>9, <1>10, <1>11, TypeParts DEF SourceTreeInvariant

(* The next file is looked at, and opened if its name is still free.       *)
LEMMA NextFileKeeps ==
    ASSUME SourceTreeInvariant, NEW f \in Layout, NextFile(f)
    PROVE  SourceTreeInvariant'
<1>1. /\ phase = "collecting" /\ Top.stage = "files" /\ current = NoFile /\ f \in Top.left
      /\ UNCHANGED <<size, stale, touches, tree, children, known, environments, fibers>>
  BY DEF NextFile, At, disk, checker
<1>2. /\ TypeOK /\ LeavesOK /\ RestTypes /\ WalkOK /\ ObjectsOK /\ PhaseOK /\ YieldOK /\ SourcesAreWhole
      /\ BranchOK
  BY TypeParts DEF SourceTreeInvariant, WalkOK
<1>3. PICK a : a = [Top EXCEPT !.left = @ \ {f}]
  OBVIOUS
<1>4. Top \in Activations /\ Top.folder \in Folders /\ OnBranch(Top.folder)
      /\ Top.left \subseteq FilesIn(Top.folder)
  BY <1>1, <1>2, TopIs DEF LeavesOK, OnBranch
<1>5. /\ a \in Activations /\ a.folder = Top.folder /\ a.stage = "files"
      /\ a.left \subseteq FilesIn(Top.folder)
  BY <1>1, <1>3, <1>4 DEF Activations
<1>6. SetTop(a)
  BY <1>3 DEF NextFile, Take
<1>7. /\ WalkOK' /\ LeavesOK' /\ Len(stack') = Len(stack) /\ \A d : Walked(d) => Walked(d)'
      /\ \A g : /\ Ahead(g)
                /\ g.folder = Top.folder => a.stage = "files" /\ g \in a.left
                => Ahead(g)'
  BY <1>1, <1>2, <1>5, <1>6, SetTopWalks
<1>8. \/ current' = NoFile
      \/ current' = [file |-> f, length |-> -1] /\ f \in Readable /\ ~Duplicate(f)
  BY <1>1 DEF NextFile, Readable
<1>9. \/ f \notin Readable /\ UNCHANGED <<phase, yielded, provided, current>>
      \/ yielded /\ phase' = "ready" /\ provided' = FALSE /\ UNCHANGED <<yielded, current>>
      \/ yielded' = TRUE /\ UNCHANGED <<phase, provided>>
  <2>1. CASE ShouldIgnoreFile(f) /\ UNCHANGED <<required, current>>
    BY <2>1 DEF Readable, required
  <2>2. CASE Duplicate(f) /\ End(FALSE) /\ UNCHANGED <<yielded, current>>
    <3>1. yielded
      BY <2>2, <1>2 DEF Duplicate, YieldOK
    <3>2. QED
      BY <3>1, <2>2 DEF End
  <2>3. CASE yielded' = TRUE /\ UNCHANGED <<phase, provided>>
    BY <2>3
  <2>4. QED
    BY <2>1, <2>2, <2>3 DEF NextFile
<1>10. RestTypes'
  <2>1. current' = NoFile \/ (current'.file \in Layout /\ current'.length \in -1..MaxSize)
    BY <1>8, BoundsAreNatural
  <2>2. QED
    BY <2>1, <1>1, <1>2, <1>9 DEF RestTypes
<1>11. ObjectsOK'
  BY <1>1, <1>2, <1>7, SameObjects
<1>12. ReadingOK'
  <2>1. CASE current' = NoFile
    BY <2>1 DEF ReadingOK
  <2>2. CASE current' = [file |-> f, length |-> -1] /\ f \in Readable /\ ~Duplicate(f)
    <3>1. current' \in [file : Readable, length : -1 .. MaxSize]
      BY <2>2, BoundsAreNatural
    <3>2. current'.file = f /\ current'.length = -1
      BY <2>2
    <3>3. f.folder = Top.folder
      BY <1>1, <1>4 DEF FilesIn
    <3>4. PICK d : d = f.folder
      OBVIOUS
    <3>5. Walked(d)'
      BY <3>3, <3>4, <1>4, <1>7 DEF Walked
    <3>6. ~Duplicate(f)'
      BY <2>2, <1>1 DEF Duplicate
    <3>7. ~Duplicate(current.file)' /\ Walked(current.file.folder)'
      BY <3>2, <3>4, <3>5, <3>6 DEF Duplicate, Walked, OnBranch
    <3>8. QED
      BY <3>1, <3>2, <3>7 DEF ReadingOK
  <2>3. QED
    BY <1>8, <2>1, <2>2
<1>13. PhaseOK' /\ SourcesAreWhole'
  BY <1>1, <1>2, <1>9 DEF PhaseOK, RequirerHasYielded, SourcesAreWhole
<1>14. YieldOK'
  <2>1. CASE f \notin Readable /\ UNCHANGED <<phase, yielded, provided, current>>
    <3>1. ASSUME NEW g \in Readable, Ahead(g) PROVE Ahead(g)'
      <4>1. CASE g.folder = Top.folder
        <5>1. g \in Top.left /\ g # f
          BY <2>1, <3>1, <4>1, <1>1, <1>2, TopAhead
        <5>2. a.stage = "files" /\ g \in a.left
          BY <5>1, <1>3, <1>4, <1>5 DEF Activations
        <5>3. QED
          BY <5>2, <3>1, <1>7
      <4>2. CASE g.folder # Top.folder
        BY <4>2, <3>1, <1>7
      <4>3. QED
        BY <4>1, <4>2
    <3>2. QED
      BY <2>1, <3>1, <1>1, <1>2, StillAhead
  <2>2. CASE yielded'
    BY <2>2 DEF YieldOK
  <2>3. QED
    BY <2>1, <2>2, <1>9
<1>15. QED
  BY <1>7, <1>10, <1>11, <1>12, <1>13, <1>14, TypeParts DEF SourceTreeInvariant

(* The length is asked for: it is that of the file now.                    *)
LEMMA LengthKeeps ==
    ASSUME SourceTreeInvariant, Length
    PROVE  SourceTreeInvariant'
<1>1. /\ phase = "collecting" /\ current # NoFile
      /\ UNCHANGED <<phase, yielded, provided, stack, size, stale, touches, tree, children,
                      known, environments, fibers>>
  BY DEF Length, Reading, required, disk, checker
<1>2. /\ LeavesOK /\ RestTypes /\ WalkOK /\ ObjectsOK /\ PhaseOK /\ YieldOK /\ SourcesAreWhole
      /\ ReadingOK
  BY TypeParts DEF SourceTreeInvariant
<1>3. WalkOK' /\ LeavesOK' /\ \A d : Walked(d) => Walked(d)'
  BY <1>1, <1>2, SameWalks
<1>4. PICK f : f = current.file
  OBVIOUS
<1>5. /\ current \in [file : Readable, length : -1 .. MaxSize] /\ f \in Readable
      /\ Walked(f.folder) /\ ~Duplicate(f) /\ size[f] \in 0 .. MaxSize /\ f \in Layout
  BY <1>1, <1>2, <1>4 DEF ReadingOK, RestTypes, Readable
<1>6. \/ current' = NoFile
      \/ /\ current' \in [file : Readable, length : -1 .. MaxSize]
         /\ current'.file = f /\ current'.length = size[f] /\ current'.length \in -1 .. MaxSize
  <2>1. current' \in {NoFile, [current EXCEPT !.length = size[f]]}
    BY <1>4 DEF Length
  <2>2. size[f] \in -1 .. MaxSize
    BY <1>5, BoundsAreNatural
  <2>3. QED
    BY <2>1, <2>2, <1>4, <1>5
<1>7. RestTypes'
  BY <1>1, <1>2, <1>5, <1>6 DEF RestTypes
<1>8. ObjectsOK'
  BY <1>1, <1>2, <1>3, SameObjects
<1>9. ReadingOK'
  <2>1. CASE current' = NoFile
    BY <2>1 DEF ReadingOK
  <2>2. CASE current' # NoFile
    <3>1. ~Duplicate(current.file)'
      BY <2>2, <1>1, <1>5, <1>6 DEF Duplicate
    <3>2. Walked(current.file.folder)'
      BY <2>2, <1>1, <1>5, <1>6 DEF Walked, OnBranch
    <3>3. QED
      BY <2>2, <3>1, <3>2, <1>1, <1>6 DEF ReadingOK
  <2>3. QED
    BY <2>1, <2>2
<1>10. PhaseOK' /\ SourcesAreWhole'
  BY <1>1, <1>2 DEF PhaseOK, RequirerHasYielded, SourcesAreWhole
<1>11. YieldOK'
  BY <1>1, <1>2 DEF YieldOK
<1>12. QED
  BY <1>3, <1>7, <1>8, <1>9, <1>10, <1>11, TypeParts DEF SourceTreeInvariant

(* The bytes are read: as many as were asked for, and all of the file or   *)
(* less, unless it has been written since.                                 *)
LEMMA ReadKeeps ==
    ASSUME SourceTreeInvariant, Read
    PROVE  SourceTreeInvariant'
<1>1. /\ phase = "collecting" /\ current # NoFile /\ current.length # -1 /\ current' = NoFile
      /\ UNCHANGED <<phase, yielded, provided, stack, size, stale, touches, children,
                      known, environments, fibers>>
  BY DEF Read, Reading, required, disk, checker
<1>2. /\ LeavesOK /\ RestTypes /\ WalkOK /\ ObjectsOK /\ PhaseOK /\ YieldOK /\ SourcesAreWhole
      /\ ReadingOK
  BY TypeParts DEF SourceTreeInvariant
<1>3. WalkOK' /\ LeavesOK' /\ \A d : Walked(d) => Walked(d)'
  BY <1>1, <1>2, SameWalks
<1>4. /\ current \in [file : Readable, length : -1 .. MaxSize]
      /\ Walked(current.file.folder) /\ ~Duplicate(current.file)
      /\ current.length = size[current.file] \/ current.file \in stale
  BY <1>1, <1>2 DEF ReadingOK
<1>5. PICK f \in Readable, b \in 0 .. MaxSize : f = current.file /\ b = current.length
  BY <1>1, <1>4, BoundsAreNatural
<1>6. PICK w : w = (b = size[f])
  OBVIOUS
<1>7. PICK q : q = [folder |-> f.folder, key |-> Key(f), file |-> f, bytes |-> b, whole |-> w]
  OBVIOUS
<1>8. tree' = tree \/ tree' = tree \union {q}
  BY <1>5, <1>6, <1>7 DEF Read
<1>9. /\ q.folder = f.folder /\ q.key = Key(f) /\ q.file = f /\ q.bytes = b /\ q.whole = w
      /\ f \in Layout
  BY <1>7 DEF Readable
<1>10. RestTypes'
  <2>1. \A o \in tree' : o.file \in Layout /\ o.bytes \in 0..MaxSize
    BY <1>2, <1>8, <1>9 DEF RestTypes
  <2>2. QED
    BY <2>1, <1>1, <1>2 DEF RestTypes
<1>11. ObjectsOK'
  <2>1. \A o : ObjectOK(o) => ObjectOK(o)'
    BY <1>3 DEF ObjectOK
  <2>2. PICK d : d = f.folder
    OBVIOUS
  <2>3. Walked(d)'
    BY <2>2, <1>3, <1>4, <1>5
  <2>4. ObjectOK(q)'
    BY <2>2, <2>3, <1>9 DEF ObjectOK
  <2>5. \A o \in tree : ~(o.folder = q.folder /\ o.key = q.key)
    BY <1>4, <1>5, <1>9 DEF Duplicate
  <2>6. \A o \in tree' : o \in tree \/ o = q
    BY <1>8
  <2>7. \A o \in tree' : ObjectOK(o)'
    BY <2>1, <2>4, <2>6, <1>2 DEF ObjectsOK
  <2>8. ASSUME NEW o \in tree', NEW r \in tree', o.folder = r.folder, o.key = r.key
        PROVE  o = r
    BY <2>5, <2>6, <2>8, <1>2 DEF ObjectsOK
  <2>9. QED
    BY <2>7, <2>8 DEF ObjectsOK
<1>12. ReadingOK'
  BY <1>1 DEF ReadingOK
<1>13. SourcesAreWhole'
  <2>1. w \/ f \in stale
    BY <1>4, <1>5, <1>6
  <2>2. QED
    BY <2>1, <1>1, <1>2, <1>8, <1>9 DEF SourcesAreWhole
<1>14. PhaseOK'
  BY <1>1, <1>2 DEF PhaseOK, RequirerHasYielded
<1>15. YieldOK'
  BY <1>1, <1>2 DEF YieldOK
<1>16. QED
  BY <1>3, <1>10, <1>11, <1>12, <1>13, <1>14, <1>15, TypeParts DEF SourceTreeInvariant

(* A folder is walked into.                                                *)
LEMMA DiveKeeps ==
    ASSUME SourceTreeInvariant, NEW d \in Folders, Dive(d)
    PROVE  SourceTreeInvariant'
<1>1. /\ phase = "collecting" /\ current = NoFile
      /\ UNCHANGED <<phase, yielded, provided, current, size, stale, touches, tree, children,
                      known, environments, fibers>>
  BY DEF Dive, At, required, disk, checker
<1>2. /\ LeavesOK /\ RestTypes /\ WalkOK /\ ObjectsOK /\ PhaseOK /\ YieldOK /\ SourcesAreWhole
  BY TypeParts DEF SourceTreeInvariant
<1>3. /\ WalkOK' /\ LeavesOK' /\ \A x : Walked(x) => Walked(x)'
      /\ \A f : Ahead(f) => Ahead(f)'
  BY <1>2, DiveWalks
<1>4. RestTypes'
  BY <1>1, <1>2 DEF RestTypes
<1>5. ObjectsOK'
  BY <1>1, <1>2, <1>3, SameObjects
<1>6. ReadingOK'
  BY <1>1 DEF ReadingOK
<1>7. PhaseOK' /\ SourcesAreWhole'
  BY <1>1, <1>2 DEF PhaseOK, RequirerHasYielded, SourcesAreWhole
<1>8. YieldOK'
  BY <1>1, <1>2, <1>3, StillAhead
<1>9. QED
  BY <1>3, <1>4, <1>5, <1>6, <1>7, <1>8, TypeParts DEF SourceTreeInvariant

(* A folder is done: it becomes a child, or it was the directory itself.   *)
LEMMA LeaveKeeps ==
    ASSUME SourceTreeInvariant, Leave
    PROVE  SourceTreeInvariant'
<1>1. /\ phase = "collecting" /\ current = NoFile /\ Top.stage = "dirs" /\ Top.left = {}
      /\ UNCHANGED <<yielded, current, size, stale, touches, tree, known, environments, fibers>>
  BY DEF Leave, At, disk, checker
<1>2. /\ LeavesOK /\ RestTypes /\ WalkOK /\ ObjectsOK /\ PhaseOK /\ YieldOK /\ SourcesAreWhole
  BY TypeParts DEF SourceTreeInvariant
<1>3. /\ WalkOK' /\ LeavesOK' /\ RestTypes' /\ PhaseOK' /\ YieldOK'
      /\ \A x : Walked(x) => Walked(x)'
  <2>1. CASE /\ Len(stack) > 1 /\ stack' = Front(stack)
             /\ children' = children \union {Top.folder} /\ UNCHANGED <<phase, provided>>
    <3>1. /\ WalkOK' /\ LeavesOK' /\ Top.folder \in Folders
          /\ \A x : Walked(x) => Walked(x)'
          /\ \A f : Ahead(f) => Ahead(f)'
      BY <2>1, <1>1, <1>2, PopWalks
    <3>2. children' \subseteq Folders
      BY <2>1, <3>1, <1>2 DEF RestTypes
    <3>3. RestTypes'
      BY <2>1, <3>2, <1>1, <1>2 DEF RestTypes
    <3>4. PhaseOK'
      BY <2>1, <1>1, <1>2 DEF PhaseOK, RequirerHasYielded
    <3>5. YieldOK'
      BY <3>1, <1>1, <1>2, StillAhead
    <3>6. QED
      BY <3>1, <3>3, <3>4, <3>5
  <2>2. CASE Len(stack) = 1 /\ End(TRUE) /\ UNCHANGED <<stack, children>>
    <3>1. /\ WalkOK' /\ LeavesOK' /\ \A x : Walked(x) => Walked(x)'
          /\ \A f : Ahead(f) => Ahead(f)'
      BY <2>2, <1>2, SameWalks
    <3>2. RestTypes'
      BY <2>2, <1>1, <1>2 DEF RestTypes, End
    <3>3. ASSUME ~yielded PROVE Readable = {}
      <4>1. \A f \in Readable : Ahead(f)
        BY <3>3, <1>2 DEF YieldOK
      <4>2. \A f \in Layout : ~Ahead(f)
        BY <2>2, <1>1, <1>2, NothingAhead
      <4>3. QED
        BY <4>1, <4>2 DEF Readable
    <3>4. PhaseOK'
      BY <2>2, <3>3, <1>1 DEF PhaseOK, RequirerHasYielded, End
    <3>5. YieldOK'
      BY <3>1, <1>1, <1>2, StillAhead
    <3>6. QED
      BY <3>1, <3>2, <3>4, <3>5
  <2>3. QED
    BY <2>1, <2>2 DEF Leave
<1>4. ObjectsOK'
  BY <1>1, <1>2, <1>3, SameObjects
<1>5. ReadingOK'
  BY <1>1 DEF ReadingOK
<1>6. SourcesAreWhole'
  BY <1>1, <1>2 DEF SourcesAreWhole
<1>7. QED
  BY <1>3, <1>4, <1>5, <1>6, TypeParts DEF SourceTreeInvariant

(* Another program writes a file: if it is the one that is being read, and *)
(* its length is known, the length is out of date and the file stale.      *)
LEMMA TouchKeeps ==
    ASSUME SourceTreeInvariant, NEW f \in Readable, Touch(f)
    PROVE  SourceTreeInvariant'
<1>1. /\ phase = "collecting" /\ touches < MaxTouches /\ touches' = touches + 1
      /\ UNCHANGED <<phase, yielded, provided, stack, current, tree, children,
                      known, environments, fibers>>
      /\ stale' = IF current # NoFile /\ current.file = f /\ current.length # -1
                    THEN stale \union {f} ELSE stale
  BY DEF Touch, collected, required, checker
<1>2. /\ LeavesOK /\ RestTypes /\ WalkOK /\ ObjectsOK /\ PhaseOK /\ YieldOK /\ SourcesAreWhole
      /\ ReadingOK
  BY TypeParts DEF SourceTreeInvariant
<1>3. /\ WalkOK' /\ LeavesOK' /\ \A x : Walked(x) => Walked(x)'
      /\ \A g : Ahead(g) => Ahead(g)'
  BY <1>1, <1>2, SameWalks
<1>4. /\ size' \in [Readable -> 0 .. MaxSize]
      /\ \A g \in Readable \ {f} : size'[g] = size[g]
  <2>1. PICK n \in 0 .. MaxSize \ {size[f]} : size' = [size EXCEPT ![f] = n]
    BY DEF Touch
  <2>2. QED
    BY <2>1, <1>2 DEF RestTypes
<1>5. stale \subseteq stale' /\ stale' \subseteq Readable
  BY <1>1, <1>2 DEF RestTypes
<1>6. RestTypes'
  <2>1. touches' \in 0 .. MaxTouches
    BY <1>1, <1>2, BoundsAreNatural DEF RestTypes
  <2>2. QED
    BY <2>1, <1>1, <1>2, <1>4, <1>5 DEF RestTypes
<1>7. ObjectsOK'
  BY <1>1, <1>2, <1>3, SameObjects
<1>8. ReadingOK'
  <2>1. SUFFICES ASSUME current # NoFile
        PROVE  /\ current \in [file : Readable, length : -1 .. MaxSize]
               /\ Walked(current.file.folder)' /\ ~Duplicate(current.file)'
               /\ current.length \in {-1, size'[current.file]} \/ current.file \in stale'
    BY <1>1 DEF ReadingOK
  <2>2. /\ current \in [file : Readable, length : -1 .. MaxSize]
        /\ Walked(current.file.folder) /\ ~Duplicate(current.file)
        /\ current.length \in {-1, size[current.file]} \/ current.file \in stale
    BY <2>1, <1>2 DEF ReadingOK
  <2>3. Walked(current.file.folder)' /\ ~Duplicate(current.file)'
    BY <2>2, <1>1 DEF Walked, OnBranch, Duplicate
  <2>4. CASE current.file = f
    BY <2>1, <2>2, <2>3, <2>4, <1>1
  <2>5. CASE current.file # f
    <3>1. size'[current.file] = size[current.file]
      BY <2>2, <2>5, <1>4
    <3>2. QED
      BY <3>1, <2>2, <2>3, <1>5
  <2>6. QED
    BY <2>4, <2>5
<1>9. SourcesAreWhole' /\ PhaseOK'
  BY <1>1, <1>2, <1>5 DEF SourcesAreWhole, PhaseOK, RequirerHasYielded
<1>10. YieldOK'
  BY <1>1, <1>2, <1>3, StillAhead
<1>11. QED
  BY <1>3, <1>6, <1>7, <1>8, <1>9, <1>10, TypeParts DEF SourceTreeInvariant

-----------------------------------------------------------------------------
(* The actions of the checker.                                             *)

(* What a step of the checker leaves alone.                                *)
LEMMA CheckerKeeps ==
    ASSUME SourceTreeInvariant,
           UNCHANGED <<yielded, provided, stack, current, size, stale, touches, tree, children>>,
           phase' = phase \/ phase' \in {"checking", "done"},
           known' \subseteq Modules, environments' \subseteq Modules,
           fibers' \in 0 .. MaxMissed
    PROVE  SourceTreeInvariant'
<1>1. /\ LeavesOK /\ RestTypes /\ WalkOK /\ ObjectsOK /\ SourcesAreWhole /\ ReadingOK
      /\ YieldOK /\ PhaseOK
  BY TypeParts DEF SourceTreeInvariant
<1>2. /\ WalkOK' /\ LeavesOK' /\ \A x : Walked(x) => Walked(x)'
      /\ \A f : Ahead(f) => Ahead(f)'
  BY <1>1, SameWalks
<1>3. ObjectsOK'
  BY <1>1, <1>2, SameObjects
<1>4. ReadingOK'
  BY <1>1 DEF ReadingOK, Walked, OnBranch, Duplicate
<1>5. SourcesAreWhole'
  BY <1>1 DEF SourcesAreWhole
<1>6. YieldOK'
  BY <1>1, <1>2, StillAhead
<1>7. PhaseOK'
  BY <1>1 DEF PhaseOK, RequirerHasYielded
<1>8. RestTypes'
  BY <1>1 DEF RestTypes
<1>9. QED
  BY <1>2, <1>3, <1>4, <1>5, <1>6, <1>7, <1>8, TypeParts DEF SourceTreeInvariant

(* What the checker has of its own has its types.                          *)
LEMMA CheckerTypes ==
    ASSUME SourceTreeInvariant
    PROVE  /\ known \subseteq Modules /\ environments \subseteq Modules
           /\ fibers \in 0 .. MaxMissed
BY DEF SourceTreeInvariant, TypeOK

(* A question leaves at most a fiber, while the bound allows it.           *)
LEMMA AskKeeps ==
    ASSUME SourceTreeInvariant, NEW answered \in BOOLEAN, Ask(answered)
    PROVE  fibers' \in 0 .. MaxMissed
<1>1. fibers \in 0 .. MaxMissed /\ MaxMissed \in Nat
  BY CheckerTypes, BoundsAreNatural
<1>2. QED
  BY <1>1 DEF Ask

(* Checking begins.                                                        *)
LEMMA CheckKeeps ==
    ASSUME SourceTreeInvariant, Check
    PROVE  SourceTreeInvariant'
<1>1. /\ phase' = "checking" /\ known' = {Root}
      /\ UNCHANGED <<yielded, provided, stack, current, size, stale, touches, tree, children,
                      environments, fibers>>
  BY DEF Check, collected, disk
<1>2. QED
  BY <1>1, CheckerTypes, RootIsModule, CheckerKeeps

(* FileResolver is asked.                                                  *)
LEMMA ReadSourceKeeps ==
    ASSUME SourceTreeInvariant, NEW m \in Modules, ReadSource(m)
    PROVE  SourceTreeInvariant'
<1>1. /\ phase = "checking" /\ Ask(HasSource(m))
      /\ UNCHANGED <<phase, yielded, provided, stack, current, size, stale, touches, tree,
                      children, known, environments>>
  BY DEF ReadSource, required, collected, disk
<1>2. fibers' \in 0 .. MaxMissed
  BY <1>1, AskKeeps DEF HasSource
<1>3. QED
  BY <1>1, <1>2, CheckerTypes, CheckerKeeps

(* ModuleResolver is asked for the name of a module.                       *)
LEMMA ResolveModuleKeeps ==
    ASSUME SourceTreeInvariant, NEW m \in Modules, NEW named \in BOOLEAN,
           ResolveModule(m, named)
    PROVE  SourceTreeInvariant'
<1>1. /\ phase = "checking" /\ Ask(named) /\ known' \subseteq known \union {m}
      /\ UNCHANGED <<phase, yielded, provided, stack, current, size, stale, touches, tree,
                      children, environments>>
  BY DEF ResolveModule, required, collected, disk
<1>2. fibers' \in 0 .. MaxMissed
  BY <1>1, AskKeeps
<1>3. QED
  BY <1>1, <1>2, CheckerTypes, CheckerKeeps

(* ModuleResolver is asked for the environment of one.                     *)
LEMMA GetEnvironmentKeeps ==
    ASSUME SourceTreeInvariant, NEW m \in Modules, GetEnvironment(m)
    PROVE  SourceTreeInvariant'
<1>1. /\ phase = "checking" /\ Ask(TRUE) /\ environments' = environments \union {m}
      /\ UNCHANGED <<phase, yielded, provided, stack, current, size, stale, touches, tree,
                      children, known>>
  BY DEF GetEnvironment, required, collected, disk
<1>2. fibers' \in 0 .. MaxMissed
  BY <1>1, AskKeeps
<1>3. QED
  BY <1>1, <1>2, CheckerTypes, CheckerKeeps

(* The checker has no more questions.                                      *)
LEMMA CheckedKeeps ==
    ASSUME SourceTreeInvariant, Checked
    PROVE  SourceTreeInvariant'
<1>1. /\ phase' = "done"
      /\ UNCHANGED <<yielded, provided, stack, current, size, stale, touches, tree, children,
                      known, environments, fibers>>
  BY DEF Checked, collected, disk, checker
<1>2. QED
  BY <1>1, CheckerTypes, CheckerKeeps

(* Nothing happens here.                                                   *)
LEMMA StutterKeeps ==
    ASSUME SourceTreeInvariant, UNCHANGED vars
    PROVE  SourceTreeInvariant'
<1>1. UNCHANGED <<phase, yielded, provided, stack, current, size, stale, touches, tree,
                  children, known, environments, fibers>>
  BY DEF vars
<1>2. QED
  BY <1>1, CheckerTypes, CheckerKeeps

(* The walk begins at the root, with nothing read.                         *)
LEMMA InitSound == Init => SourceTreeInvariant
<1>1. SUFFICES ASSUME Init PROVE SourceTreeInvariant
  OBVIOUS
<1>2. PICK a : a = [folder |-> <<>>, stage |-> "new", left |-> {}]
  OBVIOUS
<1>3. a \in Activations /\ a.folder = <<>> /\ a.stage = "new" /\ a.left = {}
  BY <1>2, FoldersArePaths DEF Activations
<1>4. stack = <<a>> /\ children = {} /\ tree = {} /\ current = NoFile
  BY <1>1, <1>2 DEF Init
<1>5. stack \in Seq(Activations) /\ Len(stack) = 1 /\ stack[1] = a /\ DOMAIN stack = 1 .. 1
  BY <1>3, <1>4
<1>6. BranchOK
  BY <1>3, <1>5 DEF BranchOK
<1>7. BelowOK(1)
  BY <1>3, <1>4, <1>5 DEF BelowOK
<1>8. WalkOK
  BY <1>4, <1>5, <1>6, <1>7 DEF WalkOK
<1>9. LeavesOK
  BY <1>3, <1>5, FoldersArePaths DEF LeavesOK
<1>10. RestTypes
  <2>1. 0 \in 0 .. MaxMissed
    BY BoundsAreNatural
  <2>2. size \in [Readable -> 0 .. MaxSize] /\ 0 \in 0 .. MaxTouches
    BY <1>1, BoundsAreNatural DEF Init
  <2>3. QED
    BY <1>1, <2>1, <2>2 DEF Init, RestTypes
<1>11. ObjectsOK /\ SourcesAreWhole /\ ReadingOK
  BY <1>4 DEF ObjectsOK, SourcesAreWhole, ReadingOK
<1>12. PhaseOK
  BY <1>1 DEF Init, PhaseOK, RequirerHasYielded
<1>13. YieldOK
  <2>1. DOMAIN stack = 1 .. 1 /\ 1 .. Len(stack) = 1 .. 1
    BY <1>5
  <2>2. \A f \in Readable : Ahead(f)
    BY <2>1, <1>3, <1>4, <1>5 DEF Ahead
  <2>3. QED
    BY <2>2, <1>4 DEF YieldOK
<1>14. QED
  BY <1>8, <1>9, <1>10, <1>11, <1>12, <1>13, TypeParts DEF SourceTreeInvariant

(* Every step.                                                             *)
LEMMA NextKeeps == SourceTreeInvariant /\ [Next]_vars => SourceTreeInvariant'
<1> SUFFICES ASSUME SourceTreeInvariant, [Next]_vars
             PROVE  SourceTreeInvariant'
  OBVIOUS
<1>1. CASE ListFiles
  BY <1>1, ListFilesKeeps
<1>2. CASE Length
  BY <1>2, LengthKeeps
<1>3. CASE Read
  BY <1>3, ReadKeeps
<1>4. CASE ListDirs
  BY <1>4, ListDirsKeeps
<1>5. CASE Leave
  BY <1>5, LeaveKeeps
<1>6. CASE \E f \in Layout : NextFile(f)
  BY <1>6, NextFileKeeps
<1>7. CASE \E d \in Folders : Dive(d)
  BY <1>7, DiveKeeps
<1>8. CASE Check
  BY <1>8, CheckKeeps
<1>9. CASE Checked
  BY <1>9, CheckedKeeps
<1>10. CASE \E m \in Modules : ReadSource(m) \/ GetEnvironment(m)
  BY <1>10, ReadSourceKeeps, GetEnvironmentKeeps
<1>11. CASE \E m \in Modules, named \in BOOLEAN : ResolveModule(m, named)
  BY <1>11, ResolveModuleKeeps
<1>12. CASE \E f \in Readable : Touch(f)
  BY <1>12, TouchKeeps
<1>13. CASE UNCHANGED vars
  BY <1>13, StutterKeeps
<1>14. QED
  BY <1>1, <1>2, <1>3, <1>4, <1>5, <1>6, <1>7, <1>8, <1>9, <1>10, <1>11,
     <1>12, <1>13
     DEF Next, Collect, CheckStep

-----------------------------------------------------------------------------
(* What a name finds.                                                      *)

(* With only the root left, every folder on the way to a child is a child: *)
(* a last one that is none would hang from the folder after it.            *)
LEMMA WayIsOpen ==
    ASSUME WalkOK, Len(stack) = 1, NEW c \in Path, Walked(c)
    PROVE  Passable(c, Len(c))
<1>1. PICK n : n = Len(c)
  OBVIOUS
<1>2. n \in Nat
  BY <1>1, LenProperties DEF Path
<1>3. PICK T : T = {k \in 0 .. n - 1 : SubSeq(c, 1, n - k) \notin children}
  OBVIOUS
<1>4. ASSUME T # {} PROVE FALSE
  <2>1. T \in SUBSET Nat
    BY <1>2, <1>3
  <2>2. PICK k \in T : \A m \in T : k <= m
    BY <2>1, <1>4, LeastNatural
  <2>3. k \in 0 .. n - 1 /\ SubSeq(c, 1, n - k) \notin children
    BY <2>2, <1>3
  <2>4. k # 0
    <3>1. SUFFICES ASSUME k = 0 PROVE FALSE
      OBVIOUS
    <3>2. SubSeq(c, 1, n) = c /\ n - k = n
      BY <3>1, <1>1, <1>2, SubSeqFull DEF Path
    <3>3. OnBranch(c)
      BY <2>3, <3>2 DEF Walked
    <3>4. n = 0
      BY <3>3, <1>1, RootIsLeft DEF WalkOK
    <3>5. QED
      BY <3>4, <2>3
  <2>5. PICK j : j = n - k + 1
    OBVIOUS
  <2>6. j \in 1 .. n /\ j - 1 = n - k /\ j - 1 \in 0 .. n /\ j - 1 # 0
    BY <2>3, <2>4, <2>5, <1>2
  <2>7. SubSeq(c, 1, j) \in children
    <3>1. k - 1 \in 0 .. n - 1 /\ n - (k - 1) = j /\ ~(k <= k - 1)
      BY <2>3, <2>4, <2>5, <1>2
    <3>2. QED
      BY <3>1, <2>2, <1>3
  <2>8. Front(SubSeq(c, 1, j)) = SubSeq(c, 1, j - 1)
    BY <2>6, <1>1, FrontOfPrefix
  <2>9. PICK p : p = SubSeq(c, 1, j - 1)
    OBVIOUS
  <2>10. p \in Path /\ Len(p) = j - 1
    BY <2>6, <2>9, <1>1, Prefix
  <2>11. Walked(p)
    BY <2>7, <2>8, <2>9 DEF WalkOK, ChildOK
  <2>12. OnBranch(p)
    BY <2>3, <2>6, <2>9, <2>11 DEF Walked
  <2>13. Len(p) = 0
    <3>1. BranchOK
      BY DEF WalkOK
    <3>2. p = <<>>
      BY <3>1, <2>10, <2>12, RootIsLeft
    <3>3. QED
      BY <3>2
  <2>14. QED
    BY <2>6, <2>10, <2>13
<1>5. ASSUME NEW j \in 1 .. n
      PROVE  SubSeq(c, 1, j) \in children
  <2>1. n - j \in 0 .. n - 1 /\ n - (n - j) = j
    BY <1>2
  <2>2. QED
    BY <2>1, <1>3, <1>4
<1>6. QED
  BY <1>1, <1>5 DEF Passable

(* An object that a name means is one that the walk arrives at, and the    *)
(* other way round.                                                        *)
LEMMA NamedIsFound ==
    ASSUME WalkOK, ObjectsOK, Len(stack) = 1, NEW p \in Modules
    PROVE  Query(p) = Named(p)
<1>1. p \in Path /\ p # <<>>
  BY ModulesAreNames DEF Path
<1>2. PICK d : d = Front(p)
  OBVIOUS
<1>3. PICK n : n = Len(p) - 1
  OBVIOUS
<1>4. /\ d \in Path /\ Len(d) = n /\ Last(p) \in Segment /\ n \in 0 .. Len(p)
      /\ n \in Nat
  BY <1>1, <1>2, <1>3, FrontAndLast
<1>5. ASSUME NEW o \in tree
      PROVE  o.folder = d /\ o.key = <<Last(p)>> <=>
               Append(o.file.folder, o.file.base) = p /\ Len(o.file.ext) = 1
  <2>1. /\ o.file \in Layout /\ o.folder = o.file.folder /\ o.key = Key(o.file)
    BY DEF ObjectsOK, ObjectOK, Readable
  <2>2. o.file.folder \in Path /\ o.file.base \in Segment
    BY <2>1, FileFields
  <2>3. Append(o.file.folder, o.file.base) = p
          <=> o.file.folder = d /\ o.file.base = Last(p)
    BY <2>2, <1>1, <1>2, Appending
  <2>4. Key(o.file) = <<Last(p)>> <=> Len(o.file.ext) = 1 /\ o.file.base = Last(p)
    BY <2>1, <1>4, KeyOfOneExtension
  <2>5. QED
    BY <2>1, <2>3, <2>4
<1>6. Named(p) = {o \in tree : o.folder = d /\ o.key = <<Last(p)>>}
  BY <1>5 DEF Named
<1>7. CASE Passable(p, n)
  BY <1>1, <1>2, <1>3, <1>6, <1>7, QueryAnswers
<1>8. CASE ~Passable(p, n)
  <2>1. Query(p) = {}
    BY <1>1, <1>3, <1>8, QueryAnswers
  <2>2. ASSUME NEW o \in Named(p) PROVE FALSE
    <3>1. o \in tree /\ o.folder = d
      BY <1>6
    <3>2. Walked(d)
      BY <3>1 DEF ObjectsOK, ObjectOK
    <3>3. Passable(d, n)
      BY <3>2, <1>4, WayIsOpen
    <3>4. d = SubSeq(p, 1, n)
      BY <1>2, <1>3 DEF Front
    <3>5. ASSUME NEW j \in 1 .. n
          PROVE  SubSeq(p, 1, j) \in children
      <4>1. j \in 0 .. n
        BY <1>4
      <4>2. SubSeq(d, 1, j) = SubSeq(p, 1, j)
        BY <4>1, <3>4, <1>1, <1>4, PrefixOfPrefix
      <4>3. QED
        BY <4>2, <3>3 DEF Passable
    <3>6. QED
      BY <3>5, <1>8 DEF Passable
  <2>3. QED
    BY <2>1, <2>2
<1>9. QED
  BY <1>7, <1>8

(* Two objects that a name means would have the same key in one folder.    *)
LEMMA NamedIsOne ==
    ASSUME ObjectsOK, NEW p \in Modules
    PROVE  Cardinality(Named(p)) <= 1
<1>1. p \in Path /\ p # <<>>
  BY ModulesAreNames DEF Path
<1>2. ASSUME NEW o \in Named(p)
      PROVE  o \in tree /\ o.folder = Front(p) /\ o.key = <<Last(p)>>
  <2>1. /\ o \in tree /\ o.file \in Layout /\ o.folder = o.file.folder /\ o.key = Key(o.file)
        /\ Append(o.file.folder, o.file.base) = p /\ Len(o.file.ext) = 1
    BY DEF Named, ObjectsOK, ObjectOK, Readable
  <2>2. o.file.folder \in Path /\ o.file.base \in Segment
    BY <2>1, FileFields
  <2>3. o.file.folder = Front(p) /\ o.file.base = Last(p)
    BY <2>1, <2>2, <1>1, Appending
  <2>4. Key(o.file) = <<Last(p)>>
    BY <2>1, <2>2, <2>3, KeyOfOneExtension
  <2>5. QED
    BY <2>1, <2>3, <2>4
<1>3. \A o, q \in Named(p) : o = q
  BY <1>2 DEF ObjectsOK
<1>4. CASE Named(p) = {}
  BY <1>4, FS_EmptySet
<1>5. CASE Named(p) # {}
  <2>1. PICK o : Named(p) = {o}
    BY <1>3, <1>5
  <2>2. Cardinality(Named(p)) = 1
    BY <2>1, FS_Singleton
  <2>3. QED
    BY <2>2
<1>6. QED
  BY <1>4, <1>5

-----------------------------------------------------------------------------
(* The theorems.                                                           *)

(* The inductive invariant holds in every reachable state: branch,         *)
(* children, objects, lengths and the yield of index.luau fit together.    *)
THEOREM SourceTreeInductive == Spec => []SourceTreeInvariant
<1>1. Init => SourceTreeInvariant
  BY InitSound
<1>2. SourceTreeInvariant /\ [Next]_vars => SourceTreeInvariant'
  BY NextKeeps
<1>3. QED
  BY <1>1, <1>2, PTL DEF Spec

(* A source is cut off or padded only if the file was written between the  *)
(* request for its length and the one for its bytes.                       *)
THEOREM SourcesStayWhole == Spec => []SourcesAreWhole
<1>1. SourceTreeInvariant => SourcesAreWhole
  BY DEF SourceTreeInvariant
<1>2. QED
  BY <1>1, SourceTreeInductive, PTL

(* The walk of the directory goes down one branch and hangs a folder up    *)
(* only when all that is in it is there (CollectLocalTree).                *)
THEOREM NothingIsWalkedTwice == Spec => []WalkedOnce
<1>1. SourceTreeInvariant => WalkedOnce
  <2>1. SUFFICES ASSUME SourceTreeInvariant PROVE BranchByBranch
    BY DEF SourceTreeInvariant, WalkedOnce
  <2>2. WalkOK
    BY <2>1 DEF SourceTreeInvariant
  <2>3. \A i \in 2 .. Len(stack) : Front(stack[i].folder) = stack[i - 1].folder
    BY <2>2 DEF WalkOK, BranchOK
  <2>4. \A d \in children : \A i \in DOMAIN stack : stack[i].folder # d
    BY <2>2 DEF WalkOK, ChildOK, OnBranch
  <2>5. \A d \in children : SubFolders(d) \subseteq children
    BY <2>2 DEF WalkOK, ChildOK
  <2>6. QED
    BY <2>3, <2>4, <2>5 DEF BranchByBranch
<1>2. QED
  BY <1>1, SourceTreeInductive, PTL

(* Once the tree is returned, the walk of Query finds for each name  *)
(* the one object that the name means, if there is one, at any depth.      *)
THEOREM NamesAlwaysFindFiles == Spec => []NamesFindFiles
<1>1. SourceTreeInvariant => NamesFindFiles
  <2>1. SUFFICES ASSUME SourceTreeInvariant, provided, NEW p \in Modules
        PROVE  /\ Query(p) = Named(p)
               /\ Cardinality(Named(p)) <= 1
               /\ \A o \in Named(p) : ~ShouldIgnoreFile(o.file)
    BY DEF NamesFindFiles
  <2>2. WalkOK /\ ObjectsOK /\ Len(stack) = 1
    BY <2>1 DEF SourceTreeInvariant, PhaseOK
  <2>3. Query(p) = Named(p)
    BY <2>2, NamedIsFound
  <2>4. Cardinality(Named(p)) <= 1
    BY <2>2, NamedIsOne
  <2>5. \A o \in Named(p) : ~ShouldIgnoreFile(o.file)
    BY <2>2 DEF Named, ObjectsOK, ObjectOK, Readable
  <2>6. QED
    BY <2>3, <2>4, <2>5
<1>2. QED
  BY <1>1, SourceTreeInductive, PTL

(* The module's end finds index.luau inside the require, still running,    *)
(* only if no file of the directory is there to be read: the first one     *)
(* that is opened makes both yield (ScriptVM::LuaRequire), and a name that *)
(* is there twice has been read once before.                               *)
THEOREM RequirerYieldsFirst == Spec => []RequirerHasYielded
<1>1. SourceTreeInvariant => RequirerHasYielded
  BY DEF SourceTreeInvariant, PhaseOK
<1>2. QED
  BY <1>1, SourceTreeInductive, PTL
=============================================================================
