---------------------------- MODULE FileIOProofs ----------------------------
(***************************************************************************)
(* Proofs about FileIO for any finite set of fibers and all bounds.        *)
(***************************************************************************)
EXTENDS FileIOInvariant, FiniteSetTheorems, SequenceTheorems, TLAPS

(* The bounds are numbers.                                                 *)
LEMMA Bounds == MaxLength \in Nat /\ MaxFiles \in Nat /\ MaxArchives \in Nat
BY BoundsAreNatural

USE Bounds

-----------------------------------------------------------------------------
(* Counting.                                                               *)

Bit(b) == IF b THEN 1 ELSE 0

(* Two finite sets that differ at most in one element.                     *)
LEMMA CountsDiffer ==
    ASSUME NEW S, NEW T, NEW x, IsFiniteSet(S), T \ {x} = S \ {x}
    PROVE  /\ Cardinality(S) \in Nat
           /\ Cardinality(T) \in Nat
           /\ Cardinality(T) = Cardinality(S) + Bit(x \in T) - Bit(x \in S)
<1>. DEFINE R == S \ {x}
<1>1. IsFiniteSet(R) /\ Cardinality(R) \in Nat
  BY FS_Subset, FS_CardinalityType
<1>2. Cardinality(R \union {x}) = Cardinality(R) + 1
  BY <1>1, FS_AddElement
<1>3. Cardinality(S) = Cardinality(R) + Bit(x \in S)
  <2>1. CASE x \in S
    <3>1. S = R \union {x}
      BY <2>1
    <3>. QED
      BY <1>2, <2>1, <3>1 DEF Bit
  <2>2. CASE x \notin S
    <3>1. S = R
      BY <2>2
    <3>2. Cardinality(S) = Cardinality(R) /\ Bit(x \in S) = 0
      BY <2>2, <3>1 DEF Bit
    <3>. QED
      BY <1>1, <3>2
  <2>. QED
    BY <2>1, <2>2
<1>4. Cardinality(T) = Cardinality(R) + Bit(x \in T)
  <2>1. CASE x \in T
    <3>1. T = R \union {x}
      BY <2>1
    <3>. QED
      BY <1>2, <2>1, <3>1 DEF Bit
  <2>2. CASE x \notin T
    <3>1. T = R
      BY <2>2
    <3>2. Cardinality(T) = Cardinality(R) /\ Bit(x \in T) = 0
      BY <2>2, <3>1 DEF Bit
    <3>. QED
      BY <1>1, <3>2
  <2>. QED
    BY <2>1, <2>2
<1>. HIDE DEF R
<1>. QED
  BY <1>1, <1>3, <1>4 DEF Bit

(* What a step that concerns one fiber does to the sets that are counted.  *)
LEMMA Recount ==
    ASSUME NEW f \in Fibers,
           \A g \in Fibers \ {f} : request'[g] = request[g] /\ fiber'[g] = fiber[g]
    PROVE  /\ Cardinality(Opening) \in Nat
           /\ Cardinality(Opened) \in Nat
           /\ Cardinality(Asked("zip")) \in Nat
           /\ Cardinality(Opening') \in Nat
           /\ Cardinality(Opened') \in Nat
           /\ Cardinality(Asked("zip")') \in Nat
           /\ Cardinality(Opening') =
                  Cardinality(Opening) + Bit(f \in Opening') - Bit(f \in Opening)
           /\ Cardinality(Opened') =
                  Cardinality(Opened) + Bit(f \in Opened') - Bit(f \in Opened)
           /\ Cardinality(Asked("zip")') =
                  Cardinality(Asked("zip")) + Bit(f \in Asked("zip")') - Bit(f \in Asked("zip"))
<1>1. IsFiniteSet(Opening) /\ IsFiniteSet(Opened) /\ IsFiniteSet(Asked("zip"))
  BY FibersAreFinite, FS_Subset DEF Opening, Opened, Asked
<1>2. Opening' \ {f} = Opening \ {f}
  BY DEF Opening
<1>3. Opened' \ {f} = Opened \ {f}
  BY DEF Opened
<1>4. Asked("zip")' \ {f} = Asked("zip") \ {f}
  BY DEF Asked, Waiting
<1>5. /\ Cardinality(Opening) \in Nat
      /\ Cardinality(Opening') \in Nat
      /\ Cardinality(Opening') =
            Cardinality(Opening) + Bit(f \in Opening') - Bit(f \in Opening)
  BY <1>1, <1>2, CountsDiffer
<1>6. /\ Cardinality(Opened) \in Nat
      /\ Cardinality(Opened') \in Nat
      /\ Cardinality(Opened') =
            Cardinality(Opened) + Bit(f \in Opened') - Bit(f \in Opened)
  BY <1>1, <1>3, CountsDiffer
<1>7. /\ Cardinality(Asked("zip")) \in Nat
      /\ Cardinality(Asked("zip")') \in Nat
      /\ Cardinality(Asked("zip")') =
            Cardinality(Asked("zip")) + Bit(f \in Asked("zip")') - Bit(f \in Asked("zip"))
  BY <1>1, <1>4, CountsDiffer
<1>. QED
  BY <1>5, <1>6, <1>7

-----------------------------------------------------------------------------
(* A request of one fiber replaced by another, with the fiber's state.     *)
LEMMA RequestReplaced ==
    ASSUME FInv, NEW f \in Fibers, NEW r, request' = [request EXCEPT ![f] = r]
    PROVE  /\ request' = [g \in Fibers |-> request'[g]]
           /\ request'[f] = r
           /\ \A g \in Fibers \ {f} : request'[g] = request[g]
BY DEF FInv, RequestsSound

(* A fiber's state replaced by another.                                    *)
LEMMA FiberReplaced ==
    ASSUME FInv, NEW f \in Fibers, NEW s \in {"ready", "waiting", "killed"},
           fiber' = [fiber EXCEPT ![f] = s]
    PROVE  /\ fiber' \in [Fibers -> {"ready", "waiting", "killed"}]
           /\ fiber'[f] = s
           /\ \A g \in Fibers \ {f} : fiber'[g] = fiber[g]
BY DEF FInv, TypeOK

-----------------------------------------------------------------------------
(* A script asks for something, and its fiber waits.                       *)
LEMMA AwaitPreserves ==
    ASSUME FInv, NEW f \in Fibers, NEW r, Ready(f), Await(f, r),
           r.done = FALSE,
           r.kind \in {"open", "read", "write", "stat", "zip"},
           r.kind \in {"read", "write", "stat"} => r.file \in held,
           r.kind \in {"read", "write"} => r.offset \in Offsets,
           r.kind = "read" => r.length \in 1..MaxLength,
           r.kind = "open" => Len(files) + Cardinality(Opening) < MaxFiles,
           r.kind = "zip" => Len(archives) + Cardinality(Asked("zip")) < MaxArchives
    PROVE  FInv'
<1>1. /\ request' = [g \in Fibers |-> request'[g]]
      /\ request'[f] = r
      /\ \A g \in Fibers \ {f} : request'[g] = request[g]
  BY RequestReplaced DEF Await
<1>2. /\ fiber' \in [Fibers -> {"ready", "waiting", "killed"}]
      /\ fiber'[f] = "waiting"
      /\ \A g \in Fibers \ {f} : fiber'[g] = fiber[g]
  BY FiberReplaced DEF Await
<1>3. /\ fiber[f] = "ready"
      /\ request[f].kind = "none"
      /\ UNCHANGED <<exists, size, position, files, held, archives, zips, alive, lost, fault>>
  BY DEF FInv, TypeOK, Ready, Await, disk, objects
<1>4. TypeOK'
  BY <1>1, <1>2, <1>3 DEF FInv, TypeOK
<1>5. BoundsKept'
  <2>1. /\ f \notin Opening /\ (f \in Opening' <=> r.kind = "open")
        /\ f \notin Opened /\ f \notin Opened'
        /\ f \notin Asked("zip") /\ (f \in Asked("zip")' <=> r.kind = "zip")
    BY <1>1, <1>2, <1>3 DEF Opening, Opened, Asked, Waiting
  <2>2. /\ Cardinality(Opening') = Cardinality(Opening) + Bit(r.kind = "open")
        /\ Cardinality(Opened') = Cardinality(Opened)
        /\ Cardinality(Asked("zip")') = Cardinality(Asked("zip")) + Bit(r.kind = "zip")
        /\ Cardinality(Opening) \in Nat
        /\ Cardinality(Opened) \in Nat
        /\ Cardinality(Asked("zip")) \in Nat
    BY <1>1, <1>2, <2>1, Recount DEF Bit
  <2>. QED
    BY <1>3, <2>2 DEF FInv, TypeOK, BoundsKept, Bit
<1>6. RequestsSound'
  <2>1. \A g \in Fibers \ {f} : RequestSound(g)'
    BY <1>1, <1>3 DEF FInv, RequestsSound, RequestSound
  <2>2. RequestSound(f)'
    BY <1>1, <1>3 DEF RequestSound
  <2>3. OpenedOnce'
    BY <1>1, <1>3 DEF FInv, RequestsSound, OpenedOnce, Opened
  <2>. QED
    BY <1>1, <2>1, <2>2, <2>3 DEF RequestsSound
<1>7. FilesSound'
  BY <1>3 DEF FInv, FilesSound
<1>8. HoldersSound'
  BY <1>1, <1>2, <1>3 DEF FInv, HoldersSound, HolderSound, InTask, Waiting
<1>9. EndSound'
  BY <1>3 DEF FInv, EndSound, Ready
<1>. QED
  BY <1>4, <1>5, <1>6, <1>7, <1>8, <1>9 DEF FInv

(* The five requests there are.                                            *)
LEMMA CallPreserves ==
    ASSUME FInv, NEW f \in Fibers,
           \/ \E create \in BOOLEAN : Open(f, create)
           \/ \E e \in held, offset \in Offsets :
                 \/ \E length \in 1..MaxLength : Read(f, e, length, offset)
                 \/ Write(f, e, offset)
           \/ \E e \in held : Length(f, e)
           \/ ZipOpen(f)
    PROVE  FInv'
<1>1. ASSUME NEW create \in BOOLEAN, Open(f, create)
      PROVE  FInv'
  <2>. DEFINE r == [kind |-> "open", done |-> FALSE, create |-> create]
  <2>1. Ready(f) /\ Await(f, r) /\ Len(files) + Cardinality(Opening) < MaxFiles
    BY <1>1 DEF Open, Opening
  <2>2. r.kind = "open" /\ r.done = FALSE
    OBVIOUS
  <2>. HIDE DEF r
  <2>. QED
    BY <2>1, <2>2, AwaitPreserves
<1>2. ASSUME NEW e \in held, NEW offset \in Offsets, NEW length \in 1..MaxLength,
             Read(f, e, length, offset)
      PROVE  FInv'
  <2>. DEFINE r == [kind |-> "read", done |-> FALSE, file |-> e,
                    length |-> length, offset |-> offset]
  <2>1. Ready(f) /\ Await(f, r)
    BY <1>2 DEF Read
  <2>2. r.kind = "read" /\ r.done = FALSE /\ r.file = e /\ r.length = length /\ r.offset = offset
    OBVIOUS
  <2>. HIDE DEF r
  <2>. QED
    BY <2>1, <2>2, AwaitPreserves
<1>3. ASSUME NEW e \in held, NEW offset \in Offsets, Write(f, e, offset)
      PROVE  FInv'
  <2>. DEFINE r == [kind |-> "write", done |-> FALSE, file |-> e, offset |-> offset]
  <2>1. Ready(f) /\ Await(f, r)
    BY <1>3 DEF Write
  <2>2. r.kind = "write" /\ r.done = FALSE /\ r.file = e /\ r.offset = offset
    OBVIOUS
  <2>. HIDE DEF r
  <2>. QED
    BY <2>1, <2>2, AwaitPreserves
<1>4. ASSUME NEW e \in held, Length(f, e)
      PROVE  FInv'
  <2>. DEFINE r == [kind |-> "stat", done |-> FALSE, file |-> e]
  <2>1. Ready(f) /\ Await(f, r)
    BY <1>4 DEF Length
  <2>2. r.kind = "stat" /\ r.done = FALSE /\ r.file = e
    OBVIOUS
  <2>. HIDE DEF r
  <2>. QED
    BY <2>1, <2>2, AwaitPreserves
<1>5. ASSUME ZipOpen(f)
      PROVE  FInv'
  <2>. DEFINE r == [kind |-> "zip", done |-> FALSE]
  <2>1. Ready(f) /\ Await(f, r) /\ Len(archives) + Cardinality(Asked("zip")) < MaxArchives
    BY <1>5 DEF ZipOpen
  <2>2. r.kind = "zip" /\ r.done = FALSE
    OBVIOUS
  <2>. HIDE DEF r
  <2>. QED
    BY <2>1, <2>2, AwaitPreserves
<1>. QED
  BY <1>1, <1>2, <1>3, <1>4, <1>5

-----------------------------------------------------------------------------
(* A thread has done what it was asked of a file: what it may have changed *)
(* besides are the bytes and positions.                                    *)
LEMMA FileAccessPreserves ==
    ASSUME FInv, NEW f \in Fibers, NEW r, request' = [request EXCEPT ![f] = r],
           fiber[f] = "waiting", request[f].kind \in {"read", "write", "stat"},
           r.kind = request[f].kind, r.done = TRUE,
           exists' = exists, size' \in 0..MaxLength, position' \in Seq(0..MaxLength),
           Len(position') = Len(position),
           UNCHANGED <<objects, fiber, alive, lost, fault>>
    PROVE  FInv'
<1>1. /\ request' = [g \in Fibers |-> request'[g]]
      /\ request'[f] = r
      /\ \A g \in Fibers \ {f} : request'[g] = request[g]
  BY RequestReplaced
<1>2. UNCHANGED <<files, held, archives, zips>>
  BY DEF objects
<1>3. TypeOK'
  BY <1>1, <1>2 DEF FInv, TypeOK
<1>4. BoundsKept'
  <2>1. Opening' = Opening /\ Opened' = Opened /\ Asked("zip")' = Asked("zip")
    BY <1>1 DEF Opening, Opened, Asked, Waiting
  <2>. QED
    BY <1>2, <2>1 DEF FInv, BoundsKept
<1>5. RequestsSound'
  <2>1. \A g \in Fibers : RequestSound(g)'
    BY <1>1, <1>2 DEF FInv, RequestsSound, RequestSound
  <2>2. OpenedOnce'
    BY <1>1 DEF FInv, RequestsSound, OpenedOnce, Opened
  <2>. QED
    BY <1>1, <2>1, <2>2 DEF RequestsSound
<1>6. FilesSound' /\ EndSound'
  BY <1>1, <1>2 DEF FInv, FilesSound, EndSound
<1>7. HoldersSound'
  BY <1>1, <1>2 DEF FInv, HoldersSound, HolderSound, InTask, Waiting
<1>. QED
  BY <1>3, <1>4, <1>5, <1>6, <1>7 DEF FInv

(* The position of an open file and the offset of a request are in it.     *)
LEMMA WhereItIs ==
    ASSUME FInv, NEW f \in Fibers, request[f].kind \in {"read", "write"},
           request[f].done = FALSE
    PROVE  /\ files[request[f].file].file \in DOMAIN position
           /\ request[f].offset \in Offsets
           /\ Where(request[f]) \in 0..MaxLength
<1>1. request[f].file \in held /\ request[f].offset \in Offsets
  BY DEF FInv, RequestsSound, RequestSound
<1>2. files[request[f].file].file \in DOMAIN position
  BY <1>1 DEF FInv, TypeOK, FilesSound
<1>3. position[files[request[f].file].file] \in 0..MaxLength
  <2>1. position \in Seq(0..MaxLength)
    BY DEF FInv, TypeOK
  <2>. QED
    BY <1>2, <2>1
<1>. QED
  BY <1>1, <1>2, <1>3 DEF Where, Offsets

(* A descriptor that moves within the file.                                *)
LEMMA MovedStays ==
    ASSUME FInv, NEW r, NEW n \in Nat, files[r.file].file \in DOMAIN position,
           r.offset = -1 => Where(r) + n \in 0..MaxLength
    PROVE  Moved(r, n) \in Seq(0..MaxLength) /\ Len(Moved(r, n)) = Len(position)
<1>1. position \in Seq(0..MaxLength)
  BY DEF FInv, TypeOK
<1>2. CASE r.offset = -1
  <2>. DEFINE d == files[r.file].file
  <2>1. position[d] + n \in 0..MaxLength
    BY <1>2 DEF Where
  <2>2. Moved(r, n) = [position EXCEPT ![d] = position[d] + n]
    BY <1>2 DEF Moved
  <2>3. d \in 1..Len(position)
    BY <1>1
  <2>. HIDE DEF d
  <2>. QED
    BY <1>1, <2>1, <2>2, <2>3, ExceptSeq
<1>3. CASE r.offset # -1
  BY <1>1, <1>3 DEF Moved
<1>. QED
  BY <1>2, <1>3

(* What is read lies in the file.                                          *)
LEMMA ReadStays ==
    ASSUME NEW p \in 0..MaxLength, NEW s \in 0..MaxLength, NEW l \in 1..MaxLength
    PROVE  /\ Smaller(l, Larger(0, s - p)) \in Nat
           /\ p + Smaller(l, Larger(0, s - p)) \in 0..MaxLength
BY DEF Smaller, Larger

(* A thread reads, or fails to.                                            *)
LEMMA PerformReadPreserves ==
    ASSUME FInv, NEW f \in Fibers, PerformRead(f)
    PROVE  FInv'
<1>. DEFINE r == request[f]
            got == Smaller(r.length, Larger(0, size - Where(r)))
<1>1. /\ r.kind = "read" /\ r.done = FALSE /\ fiber[f] = "waiting"
      /\ position' \in {position, Moved(r, got)}
      /\ UNCHANGED <<exists, size, objects, fiber, alive, lost, fault>>
  BY DEF PerformRead, Waiting
<1>2. PICK ok \in BOOLEAN :
        request' = [request EXCEPT ![f] = [kind |-> "read", done |-> TRUE, ok |-> ok]]
  BY DEF PerformRead, Performed
<1>3. /\ position \in Seq(0..MaxLength)
      /\ size \in 0..MaxLength
      /\ r.length \in 1..MaxLength
  BY <1>1 DEF FInv, TypeOK, RequestsSound, RequestSound
<1>4. Moved(r, got) \in Seq(0..MaxLength) /\ Len(Moved(r, got)) = Len(position)
  <2>1. Where(r) \in 0..MaxLength /\ files[r.file].file \in DOMAIN position
    BY <1>1, WhereItIs
  <2>2. got \in Nat /\ Where(r) + got \in 0..MaxLength
    BY <1>3, <2>1, ReadStays
  <2>. HIDE DEF got, r
  <2>. QED
    BY <2>1, <2>2, MovedStays
<1>. DEFINE s == [kind |-> "read", done |-> TRUE, ok |-> ok]
<1>5. s.kind = "read" /\ s.done = TRUE /\ request' = [request EXCEPT ![f] = s]
  BY <1>2
<1>6. position' \in Seq(0..MaxLength) /\ Len(position') = Len(position)
  BY <1>1, <1>3, <1>4
<1>. HIDE DEF s, got
<1>. QED
  BY <1>1, <1>3, <1>5, <1>6, FileAccessPreserves

(* A thread writes a byte, or fails to.                                    *)
LEMMA PerformWritePreserves ==
    ASSUME FInv, NEW f \in Fibers, PerformWrite(f)
    PROVE  FInv'
<1>. DEFINE r == request[f]
<1>1. /\ r.kind = "write" /\ r.done = FALSE /\ fiber[f] = "waiting"
      /\ UNCHANGED <<exists, objects, fiber, alive, lost, fault>>
      /\ \/ /\ Where(r) < MaxLength
            /\ size' = Larger(size, Where(r) + 1)
            /\ position' = Moved(r, 1)
         \/ UNCHANGED <<size, position>>
  BY DEF PerformWrite, Waiting
<1>2. PICK s : s.kind = "write" /\ s.done = TRUE /\ request' = [request EXCEPT ![f] = s]
  BY DEF PerformWrite, Performed
<1>3. /\ position \in Seq(0..MaxLength)
      /\ size \in 0..MaxLength
      /\ Where(r) \in 0..MaxLength
      /\ files[r.file].file \in DOMAIN position
  BY <1>1, WhereItIs DEF FInv, TypeOK
<1>4. size' \in 0..MaxLength
  BY <1>1, <1>3 DEF Larger
<1>5. Where(r) < MaxLength =>
        Moved(r, 1) \in Seq(0..MaxLength) /\ Len(Moved(r, 1)) = Len(position)
  BY <1>3, MovedStays
<1>6. position' \in Seq(0..MaxLength) /\ Len(position') = Len(position)
  BY <1>1, <1>3, <1>5
<1>. QED
  BY <1>1, <1>2, <1>4, <1>6, FileAccessPreserves

(* A thread asks for the length: the file is one that is open.             *)
LEMMA PerformStatPreserves ==
    ASSUME FInv, NEW f \in Fibers, PerformStat(f)
    PROVE  FInv'
<1>1. /\ request[f].kind = "stat" /\ request[f].done = FALSE /\ fiber[f] = "waiting"
      /\ UNCHANGED <<disk, objects, fiber, alive, lost>>
  BY DEF PerformStat, Waiting
<1>2. files[request[f].file].is_open
  BY <1>1 DEF FInv, RequestsSound, RequestSound, FilesSound
<1>3. fault' = fault
  BY <1>2 DEF PerformStat
<1>4. PICK s : s.kind = "stat" /\ s.done = TRUE /\ request' = [request EXCEPT ![f] = s]
  BY DEF PerformStat, Performed
<1>5. exists' = exists /\ size' \in 0..MaxLength /\ position' \in Seq(0..MaxLength)
      /\ Len(position') = Len(position)
  BY <1>1 DEF FInv, TypeOK, disk
<1>. QED
  BY <1>1, <1>3, <1>4, <1>5, FileAccessPreserves

(* A thread opens a file, or fails to: a descriptor that no file has yet.  *)
LEMMA PerformOpenPreserves ==
    ASSUME FInv, NEW f \in Fibers, PerformOpen(f)
    PROVE  FInv'
<1>1. PICK n : /\ request' = [request EXCEPT
                                ![f] = [kind |-> "open", done |-> TRUE, result |-> n]]
               /\ \/ n = Len(position) + 1 /\ position' = Append(position, 0)
                                          /\ exists' = TRUE
                  \/ n = 0 /\ UNCHANGED <<exists, position>>
  BY DEF PerformOpen, Performed
<1>2. /\ request' = [g \in Fibers |-> request'[g]]
      /\ request'[f].kind = "open" /\ request'[f].done = TRUE /\ request'[f].result = n
      /\ \A g \in Fibers \ {f} : request'[g] = request[g]
  BY <1>1, RequestReplaced
<1>3. /\ request[f].kind = "open" /\ request[f].done = FALSE /\ fiber[f] = "waiting"
      /\ UNCHANGED <<size, files, held, archives, zips, fiber, alive, lost, fault>>
  BY DEF PerformOpen, Waiting, objects
<1>4. BoundsKept'
  <2>1. /\ f \in Opening /\ f \in Opening'
        /\ f \notin Opened /\ f \in Opened'
        /\ f \notin Asked("zip") /\ f \notin Asked("zip")'
    BY <1>2, <1>3 DEF Opening, Opened, Asked, Waiting
  <2>2. /\ Cardinality(Opening') = Cardinality(Opening)
        /\ Cardinality(Opened') = Cardinality(Opened) + 1
        /\ Cardinality(Asked("zip")') = Cardinality(Asked("zip"))
        /\ Cardinality(Opened) \in Nat
    BY <1>2, <1>3, <2>1, Recount DEF Bit
  <2>3. Len(position') \in {Len(position), Len(position) + 1} /\ Len(position) \in Nat
    BY <1>1 DEF FInv, TypeOK
  <2>. QED
    BY <1>3, <2>2, <2>3 DEF FInv, TypeOK, BoundsKept
<1>5. TypeOK'
  <2>1. Len(position') <= MaxFiles
    <3>1. /\ Opened' \subseteq Opening'
          /\ IsFiniteSet(Opening')
      BY FibersAreFinite, FS_Subset DEF Opened, Opening
    <3>2. /\ Cardinality(Opened') <= Cardinality(Opening')
          /\ Cardinality(Opened') \in Nat
          /\ Cardinality(Opening') \in Nat
      BY <3>1, FS_Subset, FS_CardinalityType
    <3>. QED
      BY <1>1, <1>3, <1>4, <3>2 DEF FInv, TypeOK, BoundsKept
  <2>. position \in Seq(0..MaxLength) /\ exists \in BOOLEAN
    BY DEF FInv, TypeOK
  <2>2. /\ exists' \in BOOLEAN
        /\ position' \in Seq(0..MaxLength)
        /\ Len(position) <= Len(position')
        /\ Len(position) \in Nat
        /\ Len(position') \in Nat
    <3>1. CASE n = Len(position) + 1 /\ position' = Append(position, 0) /\ exists' = TRUE
      BY <3>1
    <3>2. CASE n = 0 /\ UNCHANGED <<exists, position>>
      BY <3>2
    <3>. QED
      BY <1>1, <3>1, <3>2
  <2>3. \A e \in DOMAIN files' : files'[e].file \in 0..Len(position')
    BY <1>3, <2>2 DEF FInv, TypeOK
  <2>. QED
    BY <1>2, <1>3, <2>1, <2>2, <2>3 DEF FInv, TypeOK
<1>6. RequestsSound'
  <2>1. /\ Len(position) \in Nat
        /\ Len(position') \in Nat
        /\ Len(position) <= Len(position')
        /\ n \in 0..Len(position')
        /\ n # 0 => n > Len(position)
    BY <1>1 DEF FInv, TypeOK
  <2>2. \A g \in Fibers \ {f} : RequestSound(g)'
    BY <1>2, <1>3, <2>1 DEF FInv, RequestsSound, RequestSound
  <2>3. RequestSound(f)'
    <3>1. \A d \in DOMAIN files : files[d].file \in 0..Len(position)
      BY DEF FInv, TypeOK
    <3>2. n # 0 => \A d \in DOMAIN files' : files'[d].file # n
      BY <1>3, <2>1, <3>1
    <3>. QED
      BY <1>2, <2>1, <3>2 DEF RequestSound
  <2>4. OpenedOnce'
    <3>1. Opened' = Opened \union {f}
      BY <1>2, <1>3 DEF Opened
    <3>2. \A g \in Opened : g # f /\ request'[g] = request[g]
                                 /\ request[g].result \in 0..Len(position)
      BY <1>2, <1>3 DEF FInv, RequestsSound, RequestSound, Opened
    <3>3. \A g \in Opened : n # 0 => request'[g].result # n
      BY <2>1, <3>2
    <3>. QED
      BY <1>2, <3>1, <3>2, <3>3 DEF FInv, RequestsSound, OpenedOnce
  <2>. QED
    BY <1>2, <2>2, <2>3, <2>4 DEF RequestsSound
<1>7. FilesSound' /\ EndSound'
  BY <1>2, <1>3 DEF FInv, FilesSound, EndSound
<1>8. HoldersSound'
  BY <1>2, <1>3 DEF FInv, HoldersSound, HolderSound, InTask, Waiting
<1>. QED
  BY <1>4, <1>5, <1>6, <1>7, <1>8 DEF FInv

(* A thread opens an archive, or fails to: the task holds the new one.     *)
LEMMA ExecutePreserves ==
    ASSUME FInv, NEW f \in Fibers, Execute(f)
    PROVE  FInv'
<1>1. PICK n : /\ request' = [request EXCEPT
                                ![f] = [kind |-> "zip", done |-> TRUE, result |-> n]]
               /\ \/ n = Len(archives) + 1 /\ archives' = Append(archives, "open")
                  \/ n = 0 /\ archives' = archives
  BY DEF Execute, Performed
<1>2. /\ request' = [g \in Fibers |-> request'[g]]
      /\ request'[f].kind = "zip" /\ request'[f].done = TRUE /\ request'[f].result = n
      /\ \A g \in Fibers \ {f} : request'[g] = request[g]
  BY <1>1, RequestReplaced
<1>3. /\ request[f].kind = "zip" /\ request[f].done = FALSE /\ fiber[f] = "waiting"
      /\ UNCHANGED <<exists, size, position, files, held, zips, fiber, alive, lost, fault>>
  BY DEF Execute, Waiting, disk
<1>4. /\ archives' \in Seq({"open", "written", "closed"})
      /\ DOMAIN archives \subseteq DOMAIN archives'
      /\ n \in {0} \union DOMAIN archives'
      /\ n # 0 => n \notin DOMAIN archives /\ archives'[n] = "open"
      /\ \A a \in DOMAIN archives' : a # n => a \in DOMAIN archives /\ archives'[a] = archives[a]
      /\ Len(archives') \in {Len(archives), Len(archives) + 1}
      /\ Len(archives) \in Nat
  <2>1. archives \in Seq({"open", "written", "closed"})
    BY DEF FInv, TypeOK
  <2>2. CASE n = Len(archives) + 1 /\ archives' = Append(archives, "open")
    BY <2>1, <2>2
  <2>3. CASE n = 0 /\ archives' = archives
    BY <2>1, <2>3
  <2>. QED
    BY <1>1, <2>2, <2>3
<1>5. BoundsKept'
  <2>1. /\ f \notin Opening /\ f \notin Opening'
        /\ f \notin Opened /\ f \notin Opened'
        /\ f \in Asked("zip") /\ f \notin Asked("zip")'
    BY <1>2, <1>3 DEF Opening, Opened, Asked, Waiting
  <2>2. /\ Cardinality(Opening') = Cardinality(Opening)
        /\ Cardinality(Opened') = Cardinality(Opened)
        /\ Cardinality(Asked("zip")') = Cardinality(Asked("zip")) - 1
        /\ Cardinality(Asked("zip")) \in Nat
    BY <1>2, <1>3, <2>1, Recount DEF Bit
  <2>. QED
    BY <1>3, <1>4, <2>2 DEF FInv, BoundsKept
<1>6. TypeOK'
  <2>1. Len(archives') <= MaxArchives
    <3>1. Cardinality(Asked("zip")') \in Nat
      BY <1>2, <1>3, Recount
    <3>. QED
      BY <1>4, <1>5, <3>1 DEF BoundsKept
  <2>2. /\ zips' \subseteq [id : DOMAIN archives', file : {0} \union DOMAIN archives']
        /\ lost' \subseteq DOMAIN archives'
    <3>1. /\ zips \subseteq [id : DOMAIN archives, file : {0} \union DOMAIN archives]
          /\ lost \subseteq DOMAIN archives
      BY DEF FInv, TypeOK
    <3>. QED
      BY <1>3, <1>4, <3>1
  <2>3. \A g \in Fibers : fiber'[g] = "waiting" <=> request'[g].kind # "none"
    BY <1>2, <1>3 DEF FInv, TypeOK
  <2>. QED
    BY <1>3, <1>4, <2>1, <2>2, <2>3 DEF FInv, TypeOK
<1>7. RequestsSound'
  <2>1. \A g \in Fibers \ {f} : RequestSound(g)'
    BY <1>2, <1>3, <1>4 DEF FInv, RequestsSound, RequestSound
  <2>2. RequestSound(f)'
    BY <1>2, <1>3, <1>4 DEF RequestSound
  <2>3. OpenedOnce'
    BY <1>2, <1>3 DEF FInv, RequestsSound, OpenedOnce, Opened
  <2>. QED
    BY <1>2, <2>1, <2>2, <2>3 DEF RequestsSound
<1>8. FilesSound' /\ EndSound'
  BY <1>2, <1>3 DEF FInv, FilesSound, EndSound
<1>9. HoldersSound'
  <2>1. \A a \in DOMAIN archives : \A g \in Fibers : InTask(g, a)' <=> InTask(g, a)
    BY <1>2, <1>3, <1>4 DEF InTask, Waiting
  <2>2. ASSUME n # 0
        PROVE  /\ \A g \in Fibers : InTask(g, n)' <=> g = f
               /\ \A z \in zips : z.file # n
               /\ n \notin lost
    BY <1>2, <1>3, <1>4, <2>2 DEF FInv, TypeOK, RequestsSound, RequestSound, InTask, Waiting
  <2>. QED
    BY <1>3, <1>4, <2>1, <2>2 DEF FInv, HoldersSound, HolderSound
<1>. QED
  BY <1>5, <1>6, <1>7, <1>8, <1>9 DEF FInv

-----------------------------------------------------------------------------
(* A fiber is continued, or killed, and its request is over: what remains  *)
(* of the invariant when nothing but one kind of object changes.           *)
LEMMA RequestOver ==
    ASSUME FInv, NEW f \in Fibers, request' = [request EXCEPT ![f] = NoRequest],
           NEW s \in {"ready", "killed"}, fiber' = [fiber EXCEPT ![f] = s]
    PROVE  /\ request' = [g \in Fibers |-> request'[g]]
           /\ request'[f].kind = "none" /\ request'[f].done = FALSE
           /\ \A g \in Fibers \ {f} : request'[g] = request[g]
           /\ fiber' \in [Fibers -> {"ready", "waiting", "killed"}]
           /\ fiber'[f] = s
           /\ \A g \in Fibers \ {f} : fiber'[g] = fiber[g]
           /\ \A g \in Fibers : fiber'[g] = "waiting" <=> request'[g].kind # "none"
<1>1. /\ request' = [g \in Fibers |-> request'[g]]
      /\ request'[f] = NoRequest
      /\ \A g \in Fibers \ {f} : request'[g] = request[g]
  BY RequestReplaced
<1>2. /\ fiber' \in [Fibers -> {"ready", "waiting", "killed"}]
      /\ fiber'[f] = s
      /\ \A g \in Fibers \ {f} : fiber'[g] = fiber[g]
  BY FiberReplaced
<1>3. request'[f].kind = "none" /\ request'[f].done = FALSE
  BY <1>1 DEF NoRequest
<1>4. \A g \in Fibers : fiber[g] = "waiting" <=> request[g].kind # "none"
  BY DEF FInv, TypeOK
<1>. QED
  BY <1>1, <1>2, <1>3, <1>4

(* A read, a write or a length is answered.                                *)
LEMMA AnswerPreserves ==
    ASSUME FInv, NEW f \in Fibers, Answer(f)
    PROVE  FInv'
<1>1. /\ request' = [g \in Fibers |-> request'[g]]
      /\ request'[f].kind = "none" /\ request'[f].done = FALSE
      /\ \A g \in Fibers \ {f} : request'[g] = request[g]
      /\ fiber' \in [Fibers -> {"ready", "waiting", "killed"}]
      /\ fiber'[f] = "ready"
      /\ \A g \in Fibers \ {f} : fiber'[g] = fiber[g]
      /\ \A g \in Fibers : fiber'[g] = "waiting" <=> request'[g].kind # "none"
  BY RequestOver DEF Answer, Continue
<1>2. /\ request[f].kind \in {"read", "write", "stat"}
      /\ UNCHANGED <<exists, size, position, files, held, archives, zips, alive, lost, fault>>
  BY DEF Answer, Waiting, disk, objects
<1>3. TypeOK'
  BY <1>1, <1>2 DEF FInv, TypeOK
<1>4. BoundsKept'
  <2>1. Opening' = Opening /\ Opened' = Opened
    BY <1>1, <1>2 DEF Opening, Opened
  <2>2. Asked("zip")' = Asked("zip")
    BY <1>1, <1>2 DEF Asked, Waiting
  <2>. QED
    BY <1>2, <2>1, <2>2 DEF FInv, BoundsKept
<1>5. RequestsSound'
  <2>1. \A g \in Fibers \ {f} : RequestSound(g)'
    BY <1>1, <1>2 DEF FInv, RequestsSound, RequestSound
  <2>2. RequestSound(f)'
    BY <1>1 DEF RequestSound
  <2>3. OpenedOnce'
    BY <1>1 DEF FInv, RequestsSound, OpenedOnce, Opened
  <2>. QED
    BY <1>1, <2>1, <2>2, <2>3 DEF RequestsSound
<1>6. FilesSound' /\ EndSound'
  BY <1>1, <1>2 DEF FInv, FilesSound, EndSound
<1>7. HoldersSound'
  BY <1>1, <1>2 DEF FInv, HoldersSound, HolderSound, InTask, Waiting
<1>. QED
  BY <1>3, <1>4, <1>5, <1>6, <1>7 DEF FInv

(* A file becomes an entity, and a script's if it is open.                 *)
LEMMA AnswerOpenPreserves ==
    ASSUME FInv, NEW f \in Fibers, AnswerOpen(f)
    PROVE  FInv'
<1>. DEFINE n == request[f].result
            e == Len(files) + 1
<1>1. /\ request' = [g \in Fibers |-> request'[g]]
      /\ request'[f].kind = "none" /\ request'[f].done = FALSE
      /\ \A g \in Fibers \ {f} : request'[g] = request[g]
      /\ fiber' \in [Fibers -> {"ready", "waiting", "killed"}]
      /\ fiber'[f] = "ready"
      /\ \A g \in Fibers \ {f} : fiber'[g] = fiber[g]
      /\ \A g \in Fibers : fiber'[g] = "waiting" <=> request'[g].kind # "none"
  BY RequestOver DEF AnswerOpen, Continue
<1>2. /\ request[f].kind = "open" /\ request[f].done = TRUE /\ fiber[f] = "waiting"
      /\ files' = Append(files, [is_open |-> n # 0, file |-> n])
      /\ held' = IF n # 0 THEN held \union {e} ELSE held
      /\ UNCHANGED <<exists, size, position, archives, zips, alive, lost, fault>>
  BY DEF AnswerOpen, Waiting, disk
<1>3. /\ n \in 0..Len(position)
      /\ n # 0 => \A d \in DOMAIN files : files[d].file # n
      /\ Len(position) \in Nat /\ Len(position) <= MaxFiles
  BY <1>2 DEF FInv, TypeOK, RequestsSound, RequestSound
<1>4. /\ files' \in Seq([is_open : BOOLEAN, file : 0..MaxFiles])
      /\ Len(files) \in Nat
      /\ Len(files') = e
      /\ DOMAIN files' = DOMAIN files \union {e}
      /\ e \notin DOMAIN files
      /\ files'[e].file = n /\ (files'[e].is_open <=> n # 0)
      /\ \A d \in DOMAIN files : files'[d] = files[d]
  <2>1. files \in Seq([is_open : BOOLEAN, file : 0..MaxFiles])
    BY DEF FInv, TypeOK
  <2>. DEFINE x == [is_open |-> n # 0, file |-> n]
  <2>2. /\ x \in [is_open : BOOLEAN, file : 0..MaxFiles]
        /\ x.file = n /\ (x.is_open <=> n # 0)
    <3>1. n \in 0..MaxFiles /\ (n # 0) \in BOOLEAN
      BY <1>3
    <3>. HIDE DEF n
    <3>. QED
      BY <3>1
  <2>3. files' = Append(files, x)
    BY <1>2
  <2>. HIDE DEF x, n
  <2>. QED
    BY <2>1, <2>2, <2>3
<1>. HIDE DEF n, e
<1>5. BoundsKept'
  <2>1. /\ f \in Opening /\ f \notin Opening'
        /\ f \in Opened /\ f \notin Opened'
        /\ f \notin Asked("zip") /\ f \notin Asked("zip")'
    BY <1>1, <1>2 DEF Opening, Opened, Asked, Waiting
  <2>2. /\ Cardinality(Opening') = Cardinality(Opening) - 1
        /\ Cardinality(Opened') = Cardinality(Opened) - 1
        /\ Cardinality(Asked("zip")') = Cardinality(Asked("zip"))
        /\ Cardinality(Opening) \in Nat
        /\ Cardinality(Opened) \in Nat
    BY <1>1, <2>1, Recount DEF Bit
  <2>3. Len(files') = Len(files) + 1
    BY <1>4 DEF e
  <2>. QED
    BY <1>2, <1>3, <1>4, <2>2, <2>3 DEF FInv, BoundsKept
<1>6. TypeOK'
  <2>1. Len(files') <= MaxFiles
    <3>1. Cardinality(Opening') \in Nat
      BY <1>1, Recount
    <3>2. Len(files') \in Nat
      BY <1>4 DEF e
    <3>. QED
      BY <1>5, <3>1, <3>2 DEF BoundsKept
  <2>2. \A d \in DOMAIN files' : files'[d].file \in 0..Len(position')
    <3>1. \A d \in DOMAIN files : files[d].file \in 0..Len(position)
      BY DEF FInv, TypeOK
    <3>. QED
      BY <1>2, <1>3, <1>4, <3>1
  <2>3. held' \subseteq DOMAIN files'
    <3>1. held \subseteq DOMAIN files
      BY DEF FInv, TypeOK
    <3>. QED
      BY <1>2, <1>4, <3>1
  <2>. QED
    BY <1>1, <1>2, <1>4, <2>1, <2>2, <2>3 DEF FInv, TypeOK
<1>7. RequestsSound'
  <2>1. ASSUME NEW g \in Fibers \ {f}
        PROVE  RequestSound(g)'
    <3>1. held \subseteq held'
      BY <1>2
    <3>2. RequestSound(g) /\ request'[g] = request[g]
      BY <1>1 DEF FInv, RequestsSound
    <3>3. CASE request[g].kind = "open" /\ request[g].done /\ request[g].result # 0
      <4>1. request[g].result # n
        BY <1>2, <3>3 DEF FInv, RequestsSound, OpenedOnce, Opened, n
      <4>. QED
        BY <1>2, <1>4, <3>2, <3>3, <4>1 DEF RequestSound
    <3>4. CASE ~(request[g].kind = "open" /\ request[g].done /\ request[g].result # 0)
      BY <1>2, <3>1, <3>2, <3>4 DEF RequestSound
    <3>. QED
      BY <3>3, <3>4
  <2>2. RequestSound(f)'
    BY <1>1 DEF RequestSound
  <2>3. OpenedOnce'
    <3>1. Opened' \subseteq Opened /\ \A g \in Opened' : request'[g] = request[g]
      BY <1>1 DEF Opened
    <3>. QED
      BY <3>1 DEF FInv, RequestsSound, OpenedOnce
  <2>. QED
    BY <1>1, <2>1, <2>2, <2>3 DEF RequestsSound
<1>8. FilesSound'
  <2>1. \A d \in DOMAIN files' : files'[d].is_open <=> files'[d].file # 0
    BY <1>4 DEF FInv, FilesSound
  <2>2. \A c, d \in DOMAIN files' :
           files'[c].file = files'[d].file /\ files'[d].file # 0 => c = d
    BY <1>3, <1>4 DEF FInv, FilesSound
  <2>3. \A d \in held' : files'[d].is_open
    <3>1. \A d \in held : d \in DOMAIN files /\ files[d].is_open
      BY DEF FInv, TypeOK, FilesSound
    <3>. QED
      BY <1>2, <1>4, <3>1
  <2>. QED
    BY <2>1, <2>2, <2>3 DEF FilesSound
<1>9. HoldersSound'
  BY <1>1, <1>2 DEF FInv, HoldersSound, HolderSound, InTask, Waiting
<1>10. EndSound'
  <2>1. alive
    BY <1>2 DEF FInv, EndSound
  <2>. QED
    BY <1>2, <2>1 DEF FInv, EndSound
<1>. QED
  BY <1>5, <1>6, <1>7, <1>8, <1>9, <1>10 DEF FInv

(* The task of an archive is finished: its archive goes to an entity, or   *)
(* is lost with the isolate.                                               *)
LEMMA FinishPreserves ==
    ASSUME FInv, NEW f \in Fibers, Finish(f)
    PROVE  FInv'
<1>. PICK n : n = request[f].result
  OBVIOUS
<1>1. PICK s \in {"ready", "killed"} : /\ request' = [request EXCEPT ![f] = NoRequest]
                                        /\ fiber' = [fiber EXCEPT ![f] = s]
  BY DEF Finish, Continue
<1>2. /\ request' = [g \in Fibers |-> request'[g]]
      /\ request'[f].kind = "none" /\ request'[f].done = FALSE
      /\ \A g \in Fibers \ {f} : request'[g] = request[g]
      /\ fiber' \in [Fibers -> {"ready", "waiting", "killed"}]
      /\ fiber'[f] = s
      /\ \A g \in Fibers \ {f} : fiber'[g] = fiber[g]
      /\ \A g \in Fibers : fiber'[g] = "waiting" <=> request'[g].kind # "none"
  BY <1>1, RequestOver
<1>3. /\ request[f].kind = "zip" /\ request[f].done = TRUE /\ fiber[f] = "waiting"
      /\ UNCHANGED <<exists, size, position, files, held, archives, alive, fault>>
      /\ \/ ~alive /\ lost' = lost \union ({n} \ {0}) /\ zips' = zips
         \/ alive /\ n = 0 /\ UNCHANGED <<zips, lost>>
         \/ alive /\ n # 0 /\ zips' = zips \union {[id |-> n, file |-> n]} /\ lost' = lost
  BY DEF Finish, Waiting, disk
<1>4. n \in {0} \union DOMAIN archives
  BY <1>3 DEF FInv, RequestsSound, RequestSound
<1>5. InTask(f, n)
  BY <1>3 DEF InTask, Waiting
<1>6. \A a \in DOMAIN archives : \A g \in Fibers :
         InTask(g, a)' <=> InTask(g, a) /\ g # f
  BY <1>2 DEF InTask, Waiting
<1>7. n # 0 => /\ n \in DOMAIN archives
               /\ archives[n] # "closed"
               /\ n \notin lost
               /\ \A z \in zips : z.file # n
               /\ \A g \in Fibers : ~InTask(g, n)'
  BY <1>4, <1>5, <1>6 DEF FInv, HoldersSound, HolderSound
<1>8. \A a \in DOMAIN archives : a # n => ~InTask(f, a)
  BY DEF InTask
<1>9. BoundsKept'
  <2>1. Opening' = Opening /\ Opened' = Opened
    BY <1>2, <1>3 DEF Opening, Opened
  <2>2. Asked("zip")' = Asked("zip")
    BY <1>2, <1>3 DEF Asked, Waiting
  <2>. QED
    BY <1>3, <2>1, <2>2 DEF FInv, BoundsKept
<1>10. RequestsSound'
  <2>1. \A g \in Fibers \ {f} : RequestSound(g)'
    BY <1>2, <1>3 DEF FInv, RequestsSound, RequestSound
  <2>2. RequestSound(f)'
    BY <1>2 DEF RequestSound
  <2>3. OpenedOnce'
    BY <1>2 DEF FInv, RequestsSound, OpenedOnce, Opened
  <2>. QED
    BY <1>2, <2>1, <2>2, <2>3 DEF RequestsSound
<1>11. TypeOK'
  <2>1. /\ zips' \subseteq [id : DOMAIN archives, file : {0} \union DOMAIN archives]
        /\ lost' \subseteq DOMAIN archives
    BY <1>3, <1>4 DEF FInv, TypeOK
  <2>. QED
    BY <1>2, <1>3, <2>1 DEF FInv, TypeOK
<1>12. FilesSound' /\ EndSound'
  BY <1>2, <1>3 DEF FInv, FilesSound, EndSound
<1>13. HoldersSound'
  <2>1. /\ zips \subseteq zips' /\ lost \subseteq lost'
        /\ \A a \in DOMAIN archives \ {n} : a \in lost' => a \in lost
        /\ \A z \in zips' : z \in zips \/ (z.id = n /\ z.file = n /\ n # 0)
        /\ ~(n \in lost' /\ \E z \in zips' : z.file = n) \/ n = 0
        /\ n # 0 => n \in lost' \/ \E z \in zips' : z.file = n
    <3>1. CASE ~alive /\ lost' = lost \union ({n} \ {0}) /\ zips' = zips
      BY <1>7, <3>1
    <3>2. CASE alive /\ n = 0 /\ UNCHANGED <<zips, lost>>
      BY <3>2
    <3>3. CASE alive /\ n # 0 /\ zips' = zips \union {[id |-> n, file |-> n]} /\ lost' = lost
      <4>. DEFINE y == [id |-> n, file |-> n]
      <4>1. y.id = n /\ y.file = n /\ zips' = zips \union {y}
        BY <3>3
      <4>. HIDE DEF y
      <4>. QED
        BY <1>7, <3>3, <4>1
    <3>. QED
      BY <1>3, <3>1, <3>2, <3>3
  <2>2. ASSUME NEW a \in DOMAIN archives, a # n
        PROVE  HolderSound(a)'
    <3>1. HolderSound(a)
      BY DEF FInv, HoldersSound
    <3>2. \A g \in Fibers : InTask(g, a)' <=> InTask(g, a)
      BY <1>6, <1>8, <2>2
    <3>3. \A z \in zips' : z.file = a => z \in zips
      BY <2>1, <2>2
    <3>. QED
      BY <1>3, <2>1, <2>2, <3>1, <3>2, <3>3 DEF HolderSound
  <2>3. ASSUME n # 0
        PROVE  HolderSound(n)'
    <3>1. (\E z \in zips' : z.file = n) => n \notin lost'
      BY <2>1, <2>3
    <3>2. fault = "none" => archives[n] # "written"
      BY <1>3, <1>7, <2>3 DEF FInv, HoldersSound, HolderSound
    <3>. QED
      BY <1>3, <1>7, <2>1, <2>3, <3>1, <3>2 DEF HolderSound
  <2>4. \A a \in DOMAIN archives : a = n => n # 0
    BY DEF FInv, TypeOK
  <2>. QED
    BY <1>3, <2>2, <2>3, <2>4 DEF HoldersSound
<1>. QED
  BY <1>9, <1>10, <1>11, <1>12, <1>13 DEF FInv

-----------------------------------------------------------------------------
(* The pointer of an entity that is not null is one to an open archive.    *)
LEMMA PointersAreOpen ==
    ASSUME FInv, NEW z \in zips, z.file # 0
    PROVE  z.file \in DOMAIN archives /\ archives[z.file] # "closed"
BY DEF FInv, TypeOK, HoldersSound, HolderSound

(* A script writes to an archive.                                          *)
LEMMA WriteZipPreserves ==
    ASSUME FInv, NEW f \in Fibers, NEW z \in zips, WriteZip(f, z)
    PROVE  FInv'
<1>. DEFINE a == z.file
<1>1. /\ a \in DOMAIN archives /\ archives[a] # "closed"
      /\ archives' = [archives EXCEPT ![a] = "written"]
      /\ UNCHANGED <<exists, size, position, files, held, zips, fiber, request,
                     alive, lost, fault>>
  BY PointersAreOpen DEF WriteZip, disk
<1>. HIDE DEF a
<1>2. /\ archives' \in Seq({"open", "written", "closed"})
      /\ Len(archives') = Len(archives) /\ DOMAIN archives' = DOMAIN archives
      /\ archives'[a] = "written"
      /\ \A b \in DOMAIN archives : b # a => archives'[b] = archives[b]
  <2>1. archives \in Seq({"open", "written", "closed"})
    BY DEF FInv, TypeOK
  <2>. QED
    BY <1>1, <2>1
<1>3. TypeOK'
  BY <1>1, <1>2 DEF FInv, TypeOK
<1>4. BoundsKept'
  BY <1>1, <1>2 DEF FInv, BoundsKept, Opening, Opened, Asked, Waiting
<1>5. RequestsSound'
  <2>1. \A g \in Fibers : RequestSound(g)'
    BY <1>1, <1>2 DEF FInv, RequestsSound, RequestSound
  <2>. QED
    BY <1>1, <2>1 DEF FInv, RequestsSound, OpenedOnce, Opened
<1>6. FilesSound' /\ EndSound'
  BY <1>1 DEF FInv, FilesSound, EndSound
<1>7. HoldersSound'
  BY <1>1, <1>2 DEF FInv, HoldersSound, HolderSound, InTask, Waiting, a
<1>. QED
  BY <1>3, <1>4, <1>5, <1>6, <1>7 DEF FInv

(* A script closes an archive: the archive and the pointer go together.    *)
LEMMA ClosePreserves ==
    ASSUME FInv, NEW f \in Fibers, NEW z \in zips, Close(f, z)
    PROVE  FInv'
<1>. DEFINE a == z.file
            y == [id |-> z.id, file |-> 0]
<1>1. /\ a \in DOMAIN archives /\ archives[a] # "closed"
      /\ archives' = [archives EXCEPT ![a] = "closed"]
      /\ zips' = (zips \ {z}) \union {y}
      /\ UNCHANGED <<exists, size, position, files, held, fiber, request, alive, lost, fault>>
  BY PointersAreOpen DEF Close, ZipClose, disk
<1>2. y \in [id : DOMAIN archives, file : {0} \union DOMAIN archives] /\ y.file = 0
  BY DEF FInv, TypeOK
<1>3. \A x \in zips : x.file = a => x = z
  <2>1. ASSUME NEW x \in zips, x.file = a
        PROVE  x = z
    <3>1. x.id = a /\ z.id = a
      BY <1>1, <2>1 DEF FInv, HoldersSound, HolderSound
    <3>2. /\ x \in [id : DOMAIN archives, file : {0} \union DOMAIN archives]
          /\ z \in [id : DOMAIN archives, file : {0} \union DOMAIN archives]
      BY DEF FInv, TypeOK
    <3>. QED
      BY <2>1, <3>1, <3>2
  <2>. QED
    BY <2>1
<1>4. a \notin lost /\ \A g \in Fibers : ~InTask(g, a)
  BY <1>1 DEF FInv, HoldersSound, HolderSound
<1>. HIDE DEF a, y
<1>5. /\ archives' \in Seq({"open", "written", "closed"})
      /\ Len(archives') = Len(archives) /\ DOMAIN archives' = DOMAIN archives
      /\ archives'[a] = "closed"
      /\ \A b \in DOMAIN archives : b # a => archives'[b] = archives[b]
  <2>1. archives \in Seq({"open", "written", "closed"})
    BY DEF FInv, TypeOK
  <2>. QED
    BY <1>1, <2>1
<1>6. TypeOK'
  <2>1. zips' \subseteq [id : DOMAIN archives', file : {0} \union DOMAIN archives']
    BY <1>1, <1>2, <1>5 DEF FInv, TypeOK
  <2>. QED
    BY <1>1, <1>5, <2>1 DEF FInv, TypeOK
<1>7. BoundsKept'
  BY <1>1, <1>5 DEF FInv, BoundsKept, Opening, Opened, Asked, Waiting
<1>8. RequestsSound'
  <2>1. \A g \in Fibers : RequestSound(g)'
    BY <1>1, <1>5 DEF FInv, RequestsSound, RequestSound
  <2>. QED
    BY <1>1, <2>1 DEF FInv, RequestsSound, OpenedOnce, Opened
<1>9. FilesSound' /\ EndSound'
  <2>1. alive
    BY DEF Close, Ready
  <2>. QED
    BY <1>1, <2>1 DEF FInv, FilesSound, EndSound
<1>10. HoldersSound'
  <2>1. \A b \in DOMAIN archives : \A g \in Fibers : InTask(g, b)' <=> InTask(g, b)
    BY <1>1 DEF InTask, Waiting
  <2>2. \A b \in DOMAIN archives : \A x \in zips' : x.file = b => x \in zips /\ b # a
    BY <1>1, <1>2, <1>3, <1>5
  <2>3. \A b \in DOMAIN archives \ {a} : \A x \in zips : x.file = b => x \in zips'
    BY <1>1 DEF a
  <2>4. ASSUME NEW b \in DOMAIN archives, b = a
        PROVE  /\ \A g \in Fibers : ~InTask(g, b)'
               /\ \A x \in zips' : x.file # b
               /\ b \notin lost'
               /\ archives'[b] = "closed"
    BY <1>1, <1>4, <1>5, <2>1, <2>2, <2>4
  <2>. QED
    BY <1>1, <1>5, <2>1, <2>2, <2>3, <2>4 DEF FInv, HoldersSound, HolderSound
<1>. QED
  BY <1>6, <1>7, <1>8, <1>9, <1>10 DEF FInv

(* The isolate ends, and closes every archive an entity still has.         *)
LEMMA UnloadPreserves ==
    ASSUME FInv, Unload
    PROVE  FInv'
<1>. DEFINE open == {z.file : z \in zips} \ {0}
<1>1. /\ alive' = FALSE /\ zips' = {} /\ held' = {}
      /\ fault = "none"
      /\ \A f \in Fibers : fiber[f] = "waiting" => request[f].kind = "zip"
      /\ UNCHANGED <<exists, size, position, files, fiber, request, lost>>
  BY DEF Unload, disk
<1>2. open \subseteq DOMAIN archives /\ \A a \in open : archives[a] # "closed"
  BY PointersAreOpen
<1>3. \/ /\ fault' = "none"
         /\ archives' = [a \in DOMAIN archives |-> IF a \in open THEN "closed" ELSE archives[a]]
      \/ fault' = "no_vtable" /\ archives' = archives
  BY <1>1, <1>2 DEF Unload, OnDestroy
<1>. HIDE DEF open
<1>4. /\ archives' \in Seq({"open", "written", "closed"})
      /\ Len(archives') = Len(archives) /\ DOMAIN archives' = DOMAIN archives
      /\ \A a \in DOMAIN archives \ open : archives'[a] = archives[a]
      /\ fault' = "none" => \A a \in open : archives'[a] = "closed"
  <2>1. archives \in Seq({"open", "written", "closed"})
    BY DEF FInv, TypeOK
  <2>. QED
    BY <1>2, <1>3, <2>1
<1>5. \A f \in Fibers : request[f].kind \in {"none", "zip"}
  BY <1>1 DEF FInv, TypeOK
<1>6. TypeOK'
  BY <1>1, <1>3, <1>4 DEF FInv, TypeOK
<1>7. BoundsKept'
  BY <1>1, <1>4 DEF FInv, BoundsKept, Opening, Opened, Asked, Waiting
<1>8. RequestsSound'
  <2>1. \A g \in Fibers : RequestSound(g)'
    BY <1>1, <1>4, <1>5 DEF FInv, RequestsSound, RequestSound
  <2>. QED
    BY <1>1, <2>1 DEF FInv, RequestsSound, OpenedOnce, Opened
<1>9. FilesSound' /\ EndSound'
  BY <1>1, <1>3, <1>5 DEF FInv, FilesSound, EndSound
<1>10. HoldersSound'
  <2>1. \A b \in DOMAIN archives : \A g \in Fibers : InTask(g, b)' <=> InTask(g, b)
    BY <1>1 DEF InTask, Waiting
  <2>2. \A b \in DOMAIN archives : b \in open <=> \E z \in zips : z.file = b
    BY <1>4 DEF FInv, TypeOK, open
  <2>3. \A b \in open : b \notin lost /\ \A g \in Fibers : ~InTask(g, b)
    BY <1>2, <2>2 DEF FInv, HoldersSound, HolderSound
  <2>4. ASSUME NEW b \in DOMAIN archives, b \notin open
        PROVE  archives'[b] = archives[b] /\ \A z \in zips : z.file # b
    BY <1>4, <2>2, <2>4
  <2>. QED
    BY <1>1, <1>4, <2>1, <2>3, <2>4 DEF FInv, HoldersSound, HolderSound
<1>. QED
  BY <1>6, <1>7, <1>8, <1>9, <1>10 DEF FInv

-----------------------------------------------------------------------------
(* The initial state satisfies the invariant.                              *)
LEMMA InitSound == Init => FInv
<1>. SUFFICES ASSUME Init
              PROVE  FInv
  OBVIOUS
<1>1. /\ request = [f \in Fibers |-> request[f]]
      /\ \A f \in Fibers : request[f].kind = "none" /\ request[f].done = FALSE
  BY DEF Init, NoRequest
<1>2. TypeOK
  BY <1>1 DEF Init, TypeOK
<1>3. BoundsKept
  <2>1. Opening = {} /\ Opened = {} /\ Asked("zip") = {}
    BY <1>1 DEF Opening, Opened, Asked, Waiting
  <2>. QED
    <3>1. Cardinality(Opening) = 0 /\ Cardinality(Opened) = 0 /\ Cardinality(Asked("zip")) = 0
      BY <2>1, FS_EmptySet
    <3>. QED
      BY <3>1 DEF Init, BoundsKept
<1>4. RequestsSound
  BY <1>1 DEF RequestsSound, RequestSound, OpenedOnce, Opened
<1>5. FilesSound /\ HoldersSound /\ EndSound
  BY <1>1 DEF Init, FilesSound, HoldersSound, HolderSound, EndSound
<1>. QED
  BY <1>2, <1>3, <1>4, <1>5 DEF FInv

(* Every step preserves it.                                                *)
LEMMA NextPreserves == FInv /\ [Next]_vars => FInv'
<1>. SUFFICES ASSUME FInv, [Next]_vars
              PROVE  FInv'
  OBVIOUS
<1>1. CASE UNCHANGED vars
  BY <1>1 DEF vars, disk, objects, FInv, TypeOK, BoundsKept, RequestsSound, RequestSound,
     OpenedOnce, FilesSound, HoldersSound, HolderSound, EndSound, Opening, Opened, Asked,
     InTask, Waiting
<1>2. ASSUME NEW f \in Fibers, Threads(f)
      PROVE  FInv'
  BY <1>2, PerformOpenPreserves, PerformReadPreserves, PerformWritePreserves,
     PerformStatPreserves, ExecutePreserves DEF Threads
<1>3. ASSUME NEW f \in Fibers, Callbacks(f)
      PROVE  FInv'
  BY <1>3, AnswerPreserves, AnswerOpenPreserves, FinishPreserves DEF Callbacks
<1>4. ASSUME NEW f \in Fibers, NEW z \in zips, WriteZip(f, z) \/ Close(f, z)
      PROVE  FInv'
  BY <1>4, WriteZipPreserves, ClosePreserves
<1>5. CASE Unload
  BY <1>5, UnloadPreserves
<1>. QED
  BY <1>1, <1>2, <1>3, <1>4, <1>5, CallPreserves DEF Next

-----------------------------------------------------------------------------
(* Whatever scripts ask for and in whatever order threads and callbacks    *)
(* answer, whenever the isolate ends: the invariant holds.                 *)
THEOREM FilesInductive == Spec => []FInv
BY InitSound, NextPreserves, PTL DEF Spec

(* Scripts only have files that are open, each with a descriptor of its    *)
(* own, and no pointer that is tested leads to an archive that was closed. *)
THEOREM PointersAreValid == Spec => []UsedWhileOpen
<1>1. FInv => UsedWhileOpen
  <2>. SUFFICES ASSUME FInv
                PROVE  UsedWhileOpen
    OBVIOUS
  <2>1. HeldFilesOpen
    BY DEF FInv, TypeOK, FilesSound, HeldFilesOpen
  <2>. QED
    BY <2>1 DEF FInv, EndSound, UsedWhileOpen
<1>. QED
  BY <1>1, FilesInductive, PTL

(* An open archive has exactly one holder, whatever the isolate does while *)
(* it is opened; a closed one has none.                                    *)
THEOREM ArchivesHaveOneHolder == Spec => []OneHolder
<1>1. FInv => OneHolder
  <2>. SUFFICES ASSUME FInv, fault # "no_vtable", NEW a \in DOMAIN archives
                PROVE  Cardinality({f \in Fibers : InTask(f, a)})
                         + Cardinality({z \in zips : z.file = a})
                         + Cardinality(lost \intersect {a})
                       = IF archives[a] = "closed" THEN 0 ELSE 1
    BY DEF OneHolder, InTask
  <2>. DEFINE T == {f \in Fibers : InTask(f, a)}
              E == {z \in zips : z.file = a}
              L == lost \intersect {a}
  <2>1. fault = "none"
    BY DEF FInv, EndSound
  <2>2. Cardinality({}) = 0 /\ \A x : Cardinality({x}) = 1
    BY FS_EmptySet, FS_Singleton
  <2>3. CASE archives[a] = "closed"
    <3>1. T = {} /\ E = {} /\ L = {}
      BY <2>3 DEF FInv, HoldersSound, HolderSound
    <3>. QED
      BY <2>2, <2>3, <3>1
  <2>4. CASE \E f \in Fibers : InTask(f, a)
    <3>1. PICK f \in Fibers : InTask(f, a)
      BY <2>4
    <3>2. T = {f} /\ E = {} /\ L = {} /\ archives[a] # "closed"
      BY <3>1 DEF FInv, HoldersSound, HolderSound
    <3>3. Cardinality(T) = 1 /\ Cardinality(E) = 0 /\ Cardinality(L) = 0
      BY <2>2, <3>2
    <3>. HIDE DEF T, E, L
    <3>. QED
      BY <3>2, <3>3 DEF T, E, L
  <2>5. CASE \E z \in zips : z.file = a
    <3>1. PICK z \in zips : z.file = a
      BY <2>5
    <3>2. ASSUME NEW x \in zips, x.file = a
          PROVE  x = z
      <4>1. x.id = a /\ z.id = a
        BY <3>1, <3>2 DEF FInv, HoldersSound, HolderSound
      <4>2. /\ x \in [id : DOMAIN archives, file : {0} \union DOMAIN archives]
            /\ z \in [id : DOMAIN archives, file : {0} \union DOMAIN archives]
        BY DEF FInv, TypeOK
      <4>. QED
        BY <3>1, <3>2, <4>1, <4>2
    <3>3. T = {} /\ L = {} /\ archives[a] # "closed"
      BY <3>1 DEF FInv, HoldersSound, HolderSound
    <3>4. E = {z}
      BY <3>1, <3>2
    <3>5. Cardinality(T) = 0 /\ Cardinality(E) = 1 /\ Cardinality(L) = 0
      BY <2>2, <3>3, <3>4
    <3>. QED
      BY <3>3, <3>5
  <2>6. CASE a \in lost
    <3>1. T = {} /\ E = {} /\ archives[a] # "closed"
      BY <2>6 DEF FInv, HoldersSound, HolderSound
    <3>2. L = {a}
      BY <2>6
    <3>. QED
      BY <2>2, <3>1, <3>2
  <2>. QED
    BY <2>1, <2>3, <2>4, <2>5, <2>6 DEF FInv, HoldersSound, HolderSound
<1>. QED
  BY <1>1, FilesInductive, PTL

(* What was written to an archive is saved when the state has ended.       *)
THEOREM WrittenIsSaved == Spec => []ArchivesSaved
<1>1. FInv => ArchivesSaved
  BY DEF FInv, EndSound, HoldersSound, HolderSound, ArchivesSaved
<1>. QED
  BY <1>1, FilesInductive, PTL

=============================================================================
