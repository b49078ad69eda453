------------------------------ MODULE RobinMap ------------------------------
(***************************************************************************)
(* FastStringMap of public/Generic/StringMap.h: a tsl::robin_map whose     *)
(* bucket count is a power of two and grows by a factor of Growth.  The    *)
(* entries of a table sit at or after the bucket their hash names, each    *)
(* with its distance from it; an insertion takes the bucket of an entry    *)
(* that is nearer to its own and carries that entry on, an erasure moves   *)
(* the entries behind it one bucket back.  Load factors are percentages.   *)
(***************************************************************************)
EXTENDS Integers, Sequences, FiniteSetsExt

CONSTANTS
    Keys, Values,
    HashOf,       \* the hash of each key
    Growth,       \* the GrowthFactor of the growth policy
    Limit,        \* DIST_FROM_IDEAL_BUCKET_LIMIT
    Sizes,        \* the bucket counts there are: powers of two
    MaxBuckets,   \* the most buckets a table can have (max_bucket_count)
    MinLoads,     \* the minimum load factors callers set,
    MaxLoads,     \* the maximum ones
    Counts,       \* the bucket counts they ask for
    Ranges        \* and the keys they insert at once, as sequences

ASSUME SizesAssumption ==
    /\ Sizes \subseteq Nat \ {0}
    /\ \A n \in Sizes \ {1} : n % 2 = 0 /\ n \div 2 \in Sizes

(* Sixteen buckets are enough to shrink any table that may be shrunk; in   *)
(* the code the most there can be are 2^63.                                *)
ASSUME TableAssumption ==
    /\ HashOf \in [Keys -> Nat]
    /\ {Growth, MaxBuckets} \subseteq Sizes
    /\ 2 <= Growth /\ Growth <= MaxBuckets /\ 16 <= MaxBuckets
    /\ MinLoads \subseteq 0..15 /\ MaxLoads \subseteq 20..95
    /\ Counts \subseteq 0..MaxBuckets
    /\ Limit \in Nat
    /\ Ranges \subseteq Seq(Keys)

VARIABLES
    table,     \* the robin_hash object
    cursor,    \* the bucket of the caller's iterator, NoCursor without one
    visited,   \* the keys that iterator has stood on since begin()
    damaged    \* whether an erased range has left an entry unreachable

tableVars == <<table, cursor, visited, damaged>>

NoCursor == -1

-----------------------------------------------------------------------------
(* Buckets: a function on 0..n-1.  The one bucket that m_buckets points to *)
(* while there are none (static_empty_bucket_ptr) is empty.                *)
Free == [dist |-> -1]
Entry(k, v, d) == [key |-> k, value |-> v, dist |-> d]
Moved(e, by) == [e EXCEPT !.dist = @ + by]
Count(b) == Cardinality(DOMAIN b)
Empty(b, i) == b[i].dist = -1
Filled(b) == {i \in DOMAIN b : ~Empty(b, i)}
KeysIn(b) == {b[i].key : i \in Filled(b)}

(* The bucket d buckets after the one of k's hash, and after i.            *)
After(b, i, d) == (i + d) % Count(b)
BucketFor(b, k) == HashOf[k] % Count(b)
Nth(b, k, d) == After(b, BucketFor(b, k), d)

(* How far from its bucket a search for k stops: at k, or at an entry      *)
(* nearer to its own bucket than k would be.                               *)
Probe(b, k) ==
    LET n == Count(b)
        home == BucketFor(b, k)
        Stops(d) == LET e == b[(home + d) % n] IN d > e.dist \/ e.key = k
    IN IF b = <<>> THEN 0
       ELSE CHOOSE d \in 0..n : Stops(d) /\ \A c \in 0..(d - 1) : ~Stops(c)

Place(b, k) == Nth(b, k, Probe(b, k))
Holds(b, k) ==
    b # <<>> /\ LET e == b[Place(b, k)] IN e.dist >= 0 /\ e.key = k

(* What at, find and count find.                                           *)
Lookups(b) == [k \in {x \in Keys : Holds(b, x)} |-> b[Place(b, k)].value]

(* Op applied n times from s, to what it gave and to 0, 1 up to n-1: a     *)
(* loop.  (FoldLeft of the community modules searches the set of indices   *)
(* left at every step, which the loops below are too many for.)            *)
Loop(Op(_, _), s, n) ==
    LET after[j \in 0..n] == IF j = 0 THEN s ELSE Op(after[j - 1], j - 1)
    IN after[n]

(* Put an entry at a bucket; an entry there that is nearer to its own is   *)
(* carried on to the next.  "far" tells whether one that was carried took  *)
(* a bucket further than Limit from its own.                               *)
Carry(b, start, s, j) ==
    LET i == After(b, start, j) IN
    IF s.placed THEN s
    ELSE IF Empty(s.buckets, i)
    THEN [s EXCEPT !.buckets[i] = s.carried, !.placed = TRUE]
    ELSE IF s.carried.dist > s.buckets[i].dist
    THEN [s EXCEPT !.buckets[i] = s.carried,
                   !.carried = Moved(s.buckets[i], 1),
                   !.far = @ \/ (j > 0 /\ s.carried.dist > Limit)]
    ELSE [s EXCEPT !.carried = Moved(@, 1)]

Displace(b, start, entry) ==
    Loop(LAMBDA s, j : Carry(b, start, s, j),
         [buckets |-> b, carried |-> entry, placed |-> FALSE, far |-> FALSE], Count(b))

(* A mutant: the entries that move back keep the distance they had.        *)
MutShiftBack(b, i) ==
    LET cleared == [b EXCEPT ![i] = Free]
        run == Min({d \in 1..Count(b) : cleared[After(b, i, d)].dist <= 0})
        offset(j) == (j - i) % Count(b)
    IN [j \in DOMAIN b |->
          IF offset(j) < run - 1 THEN b[After(b, j, 1)]
          ELSE IF offset(j) = run - 1 THEN Free ELSE cleared[j]]

(* The hole at i, closed by the entries that follow it, up to one that is  *)
(* in its own bucket or a free bucket.                                     *)
ShiftBack(b, i) ==
    LET cleared == [b EXCEPT ![i] = Free]
        run == Min({d \in 1..Count(b) : cleared[After(b, i, d)].dist <= 0})
        offset(j) == (j - i) % Count(b)
    IN [j \in DOMAIN b |->
          IF offset(j) < run - 1 THEN Moved(b[After(b, j, 1)], -1)
          ELSE IF offset(j) = run - 1 THEN Free ELSE cleared[j]]

-----------------------------------------------------------------------------
(* Tables.                                                                 *)
Ceiling(a, percent) == (a * 100 + percent - 1) \div percent
PowerOfTwo(count) ==
    IF count = 0 THEN 0 ELSE Min(Sizes \ 0..(count - 1))
Threshold(n, maxLoad) == (n * maxLoad) \div 100

NewTable(count, minLoad, maxLoad) ==
    LET n == PowerOfTwo(count) IN
    [buckets |-> IF n = 0 THEN <<>> ELSE [i \in 0..(n - 1) |-> Free], nbElements |-> 0,
     loadThreshold |-> Threshold(n, maxLoad),
     minLoad |-> minLoad, maxLoad |-> maxLoad,
     growOnNextInsert |-> FALSE, tryShrinkOnNextInsert |-> FALSE]

Reinserted(b, e) ==
    Displace(b, BucketFor(b, e.key), Entry(e.key, e.value, 0)).buckets

(* rehash_impl: every entry, in bucket order, into a new table.            *)
Reinsert(old, b, i) == IF Empty(old, i) THEN b ELSE Reinserted(b, old[i])

Rehashed(t, count) ==
    LET new == NewTable(count, t.minLoad, t.maxLoad) IN
    [new EXCEPT !.nbElements = t.nbElements,
                !.buckets = Loop(LAMBDA b, i : Reinsert(t.buckets, b, i), @,
                                 Count(t.buckets))]

(* What rehash(count) asks the growth policy for, which throws             *)
(* length_error for more than MaxBuckets, before anything has changed.     *)
Asked(t, count) ==
    LET least == Ceiling(t.nbElements, t.maxLoad)
    IN IF count > least THEN count ELSE least

CanRehash(t, count) == Asked(t, count) <= MaxBuckets
RehashTo(t, count) == Rehashed(t, Asked(t, count))

CanReserve(t, count) == CanRehash(t, Ceiling(count, t.maxLoad))
ReserveFor(t, count) == RehashTo(t, Ceiling(count, t.maxLoad))

(* rehash_on_extreme_load until it has nothing to do: grow when asked to,  *)
(* when k would be too far from its bucket or the table is full enough;    *)
(* otherwise shrink once after an erasure.  Growing past MaxBuckets throws *)
(* length_error; the tables grown before that stay.                        *)
CanGrow(b) == Count(b) <= MaxBuckets \div Growth
NextCount(b) == IF b = <<>> THEN Growth ELSE Count(b) * Growth

MustGrow(t, k) ==
    \/ t.growOnNextInsert
    \/ Probe(t.buckets, k) > Limit
    \/ t.nbElements >= t.loadThreshold

Shrinks(t) ==
    /\ t.tryShrinkOnNextInsert
    /\ t.minLoad # 0
    /\ t.nbElements * 100 < t.minLoad * Count(t.buckets)

Extremes(s, k) ==
    IF s.done THEN s
    ELSE IF MustGrow(s.table, k)
    THEN IF CanGrow(s.table.buckets)
         THEN [s EXCEPT !.table = Rehashed(@, NextCount(@.buckets))]
         ELSE [s EXCEPT !.done = TRUE, !.full = TRUE]
    ELSE IF Shrinks(s.table)
    THEN [s EXCEPT !.table = ReserveFor(@, @.nbElements + 1)]
    ELSE [s EXCEPT !.table.tryShrinkOnNextInsert = FALSE, !.done = TRUE]

MakeRoom(t, k) ==
    Loop(LAMBDA s, j : Extremes(s, k), [table |-> t, done |-> FALSE, full |-> FALSE],
         MaxBuckets)

(* insert_impl of a key that is not in the table.                          *)
Put(t, k, v) ==
    LET room == MakeRoom(t, k)
        b == room.table.buckets
        d == Probe(b, k)
        put == Displace(b, Nth(b, k, d), Entry(k, v, d))
    IN IF room.full THEN room
       ELSE [room EXCEPT !.table.buckets = put.buckets,
                         !.table.nbElements = @ + 1,
                         !.table.growOnNextInsert = @ \/ put.far]

PutNew(s, k, v) ==
    IF s.full \/ Holds(s.table.buckets, k) THEN s ELSE Put(s.table, k, v)

(* The keys in ks, in that order, with the value v, until one is refused.  *)
PutAll(t, ks, v) ==
    Loop(LAMBDA s, j : PutNew(s, ks[j + 1], v),
         [table |-> t, done |-> TRUE, full |-> FALSE], Len(ks))

-----------------------------------------------------------------------------
TableInit ==
    /\ table \in {NewTable(0, l, m) : l \in MinLoads, m \in MaxLoads}
    /\ cursor = NoCursor
    /\ visited = {}
    /\ damaged = FALSE

(* What may move entries leaves the caller without an iterator.            *)
DropCursor == cursor' = NoCursor /\ visited' = {}

(* insert, emplace, try_emplace, operator[]: nothing for a key that is     *)
(* there, nor when the table cannot grow, except the room made until then. *)
Insert(k, v) ==
    /\ ~damaged /\ ~Holds(table.buckets, k)
    /\ table' = Put(table, k, v).table
    /\ DropCursor
    /\ UNCHANGED damaged

(* insert_or_assign of a key that is there; of another it is Insert.       *)
Assign(k, v) ==
    /\ ~damaged /\ Holds(table.buckets, k)
    /\ table' = [table EXCEPT !.buckets[Place(table.buckets, k)].value = v]
    /\ UNCHANGED <<cursor, visited, damaged>>

(* insert(first, last): room is made first, if the free buckets, a         *)
(* difference of unsigned numbers, are fewer than what is inserted.        *)
InsertAll(ks, v) ==
    LET few == table.loadThreshold >= table.nbElements
               /\ table.loadThreshold - table.nbElements < Len(ks)
        roomy == IF few THEN ReserveFor(table, table.nbElements + Len(ks)) ELSE table
    IN /\ ~damaged
       /\ few => CanReserve(table, table.nbElements + Len(ks))
       /\ table' = PutAll(roomy, ks, v).table
       /\ DropCursor
       /\ UNCHANGED damaged

Erased(t, i) ==
    [t EXCEPT !.buckets = ShiftBack(@, i), !.nbElements = @ - 1,
              !.tryShrinkOnNextInsert = TRUE]

Erase(k) ==
    /\ ~damaged /\ Holds(table.buckets, k)
    /\ table' = Erased(table, Place(table.buckets, k))
    /\ DropCursor
    /\ UNCHANGED damaged

(* begin(), operator++ and what erase returns: the next bucket in use.     *)
From(b, i) == Min({j \in Filled(b) : j >= i} \union {Count(b)})

StandsOn(b, i) == {b[j].key : j \in Filled(b) \intersect {i}}

PutCursor(b, i) ==
    /\ cursor' = i
    /\ visited' = (visited \intersect KeysIn(b)) \union StandsOn(b, i)

Begin ==
    /\ ~damaged
    /\ cursor' = From(table.buckets, 0)
    /\ visited' = StandsOn(table.buckets, cursor')
    /\ UNCHANGED <<table, damaged>>

Advance ==
    /\ cursor \in DOMAIN table.buckets
    /\ PutCursor(table.buckets, From(table.buckets, cursor + 1))
    /\ UNCHANGED <<table, damaged>>

(* A mutant: the iterator always moves to the next bucket in use.          *)
MutEraseAt ==
    /\ cursor \in DOMAIN table.buckets
    /\ table' = Erased(table, cursor)
    /\ PutCursor(table'.buckets, From(table'.buckets, cursor + 1))
    /\ UNCHANGED damaged

EraseAt ==
    /\ cursor \in DOMAIN table.buckets
    /\ table' = Erased(table, cursor)
    /\ PutCursor(table'.buckets, From(table'.buckets, cursor))
    /\ UNCHANGED damaged

(* erase(first, last) empties the buckets from first to before last; then  *)
(* the entries from last on move back, as far as the nearest bucket that   *)
(* was emptied and their own allow, up to one in its own bucket or the end *)
(* of the array.                                                           *)
Cleared(b, first, last) ==
    [j \in DOMAIN b |-> IF first <= j /\ j < last THEN Free ELSE b[j]]

(* How far an entry can move back to the bucket c or its own.              *)
Gap(b, c, j) == IF j - c < b[j].dist THEN j - c ELSE b[j].dist

MoveUp(s, j) ==
    LET by == Gap(s.buckets, s.closer, j) IN
    IF s.done \/ s.buckets[j].dist <= 0 THEN [s EXCEPT !.done = TRUE]
    ELSE [s EXCEPT !.buckets[j] = Free,
                   !.buckets[j - by] = Moved(s.buckets[j], -by),
                   !.closer = j - by + 1]

(* A mutant: the entries behind the range stay where they are.             *)
MutWithoutRange(b, first, last) == Cleared(b, first, last)

WithoutRange(b, first, last) ==
    Loop(LAMBDA s, x : MoveUp(s, last + x),
         [buckets |-> Cleared(b, first, last), closer |-> first, done |-> FALSE],
         Count(b) - last).buckets

Torn(b) == \E k \in KeysIn(b) : ~Holds(b, k)

EraseRange(last) ==
    LET b == table.buckets
        kept == WithoutRange(b, cursor, last)
    IN /\ cursor \in DOMAIN b /\ last > cursor
       /\ last \in Filled(b) \union {Count(b)}
       /\ table' = [table EXCEPT !.buckets = kept,
                                 !.nbElements = Cardinality(Filled(kept)),
                                 !.tryShrinkOnNextInsert = TRUE]
       /\ damaged' = Torn(kept)
       /\ IF damaged' THEN DropCursor
          ELSE PutCursor(kept, IF last = Count(b) THEN last
                               ELSE last - Gap(b, cursor, last))

(* clear() gives the buckets back when the table may shrink.               *)
Clear ==
    /\ table' = IF table.minLoad > 0 THEN NewTable(0, table.minLoad, table.maxLoad)
                ELSE [table EXCEPT !.buckets = [i \in DOMAIN @ |-> Free],
                                   !.nbElements = 0,
                                   !.growOnNextInsert = FALSE]
    /\ damaged' = FALSE
    /\ DropCursor

(* rehash and reserve put every entry in its place again.                  *)
Rehash(count) ==
    /\ \/ CanRehash(table, count) /\ table' = RehashTo(table, count)
       \/ CanReserve(table, count) /\ table' = ReserveFor(table, count)
    /\ damaged' = FALSE
    /\ DropCursor

SetMinLoad(minLoad) ==
    /\ ~damaged
    /\ table' = [table EXCEPT !.minLoad = minLoad]
    /\ UNCHANGED <<cursor, visited, damaged>>

SetMaxLoad(maxLoad) ==
    /\ ~damaged
    /\ table' = [table EXCEPT !.maxLoad = maxLoad,
                              !.loadThreshold = Threshold(Count(table.buckets), maxLoad)]
    /\ UNCHANGED <<cursor, visited, damaged>>

(* What serialize writes.                                                  *)
Saved(t) ==
    [buckets |-> t.buckets, nbElements |-> t.nbElements,
     minLoad |-> t.minLoad, maxLoad |-> t.maxLoad]

Fresh(saved) == NewTable(0, saved.minLoad, saved.maxLoad)

(* deserialize into a new table, bucket by bucket when the hashes are      *)
(* compatible: its threshold is that of no buckets.                        *)
ReadBuckets(saved) ==
    [Fresh(saved) EXCEPT !.buckets = saved.buckets, !.nbElements = saved.nbElements]

(* Otherwise entry by entry, which throws when the table cannot grow.      *)
Reread(b, s, i) == IF Empty(b, i) THEN s ELSE PutNew(s, b[i].key, b[i].value)

ReadEntries(saved) ==
    Loop(LAMBDA s, i : Reread(saved.buckets, s, i),
         [table |-> ReserveFor(Fresh(saved), saved.nbElements),
          done |-> TRUE, full |-> FALSE], Count(saved.buckets))

Reload ==
    LET saved == Saved(table) IN
    /\ ~damaged
    /\ \/ table' = ReadBuckets(saved)
       \/ /\ CanReserve(Fresh(saved), saved.nbElements)
          /\ ~ReadEntries(saved).full
          /\ table' = ReadEntries(saved).table
    /\ DropCursor
    /\ UNCHANGED damaged

TableNext ==
    \/ \E k \in Keys, v \in Values : Insert(k, v) \/ Assign(k, v)
    \/ \E ks \in Ranges, v \in Values : InsertAll(ks, v)
    \/ \E k \in Keys : Erase(k)
    \/ Begin \/ Advance \/ EraseAt
    \/ \E last \in 0..MaxBuckets : EraseRange(last)
    \/ Clear
    \/ \E count \in Counts : Rehash(count)
    \/ \E minLoad \in MinLoads : SetMinLoad(minLoad)
    \/ \E maxLoad \in MaxLoads : SetMaxLoad(maxLoad)
    \/ Reload

TableSpec == TableInit /\ [][TableNext]_tableVars

-----------------------------------------------------------------------------
(* Properties.                                                             *)
TableTypeOK ==
    LET b == table.buckets IN
    /\ DOMAIN b = 0..(Count(b) - 1)
    /\ Count(b) \in {0} \union Sizes /\ Count(b) <= MaxBuckets
    /\ \A i \in DOMAIN b :
          b[i] = Free \/ b[i] \in [key : Keys, value : Values, dist : Nat]
    /\ table.minLoad \in MinLoads /\ table.maxLoad \in MaxLoads
    /\ table.growOnNextInsert \in BOOLEAN /\ table.tryShrinkOnNextInsert \in BOOLEAN
    /\ cursor \in {NoCursor} \union 0..Count(b)
    /\ visited \subseteq Keys

(* The order robin_hash keeps its entries in: each is as far from its      *)
(* bucket as it says, and no search passes a free bucket or a nearer entry *)
(* on its way to one; no key is there twice.                               *)
InOrder(b) ==
    \A i \in Filled(b) :
       /\ Nth(b, b[i].key, b[i].dist) = i
       /\ b[i].dist <= b[After(b, i, Count(b) - 1)].dist + 1
       /\ \A j \in Filled(b) : b[j].key = b[i].key => j = i

(* The table over which every operation is written: in order, unless a     *)
(* range was erased across its end, with the element count it reports, and *)
(* with a free bucket, without which find_impl and insert_impl would not   *)
(* end.                                                                    *)
TableInv ==
    LET b == table.buckets IN
    /\ TableTypeOK
    /\ damaged \/ InOrder(b)
    /\ table.nbElements = Cardinality(Filled(b))
    /\ b # <<>> => Cardinality(Filled(b)) < Count(b) /\ table.loadThreshold < Count(b)

(* A loop from begin() that erases some of what it stands on, one or a     *)
(* range at a time, has stood on every entry it has passed: the entry that *)
(* moves into the erased bucket is not skipped.                            *)
IterationCovers ==
    cursor # NoCursor =>
       \A i \in Filled(table.buckets) : i < cursor => table.buckets[i].key \in visited

(* The table is a map: lookups (find, at, count) find what was put in,     *)
(* through growth, shrinking, erasures between entries that share buckets, *)
(* saving and loading; only an erased range can damage it, and only when   *)
(* entries run past the end of the array.                                  *)
Map == INSTANCE MapPromise WITH
    found    <- Lookups(table.buckets),
    crossing <- \E i \in Filled(table.buckets) : i < table.buckets[i].dist

IsMap == Map!Spec

(* Not checked: a range that is erased leaves the other entries reachable  *)
(* (it does not when the entries that follow it run past the end), and the *)
(* assertion at the start of insert(first, last).                          *)
RangeKeepsRest == ~damaged
FreeBucketsKnown == table.loadThreshold >= table.nbElements
=============================================================================
