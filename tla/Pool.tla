---------------------------------- MODULE Pool ----------------------------------
(***************************************************************************)
(* The pool of uclib/pool.h: a vector of elements of one size whose free    *)
(* ones are known in two ways, by a bitmap and by a vector of indices used  *)
(* as a stack.  The bitmap is that of module Bitmap, words and all.         *)
(***************************************************************************)
EXTENDS Bitmap

CONSTANT MaxPool    \* bound: elements of the pool

ASSUME PoolAssumption == MaxPool \in Nat

VARIABLES
    pool,       \* len of the vector, freeBitmap, freeIndices; or NoPool
    inUse       \* history: the indices that callers hold

poolVars == <<pool, inUse>>

NoPool == [len |-> 0, freeBitmap |-> <<>>, freeIndices |-> <<>>]

PoolInit == pool = NoPool /\ inUse = {}

\* The index behind the last free one below s.
AfterFree(p, s) == Max({-1} \cup {t \in Bits(p.freeBitmap) : t < s}) + 1

\* A wrong version of Reused, for a mutation check only.
BitLeft(p) == [p EXCEPT !.freeIndices = Front(@)]

\* pool_is_free_index
IsFree(p, i) == i >= p.len \/ BitmapGet(p.freeBitmap, i)

\* pool_get_free_index: the last index freed, which is not free any more.
Reused(p) == [p EXCEPT !.freeBitmap = Andnoti(@, Last(p.freeIndices)), !.freeIndices = Front(@)]

PoolGet ==
    IF pool.freeIndices # <<>>
    THEN pool' = Reused(pool) /\ inUse' = inUse \cup {Last(pool.freeIndices)}
    ELSE /\ pool.len < MaxPool
         /\ pool' = [pool EXCEPT !.len = @ + 1]
         /\ inUse' = inUse \cup {pool.len}

\* pool_put_index
PoolPut(i) ==
    /\ ~ IsFree(pool, i)
    /\ pool' = [pool EXCEPT !.freeBitmap = Ori(@, i), !.freeIndices = Append(@, i)]
    /\ inUse' = inUse \ {i}

\* pool_validate_index: the elements up to i exist; new ones are in use.
PoolValidateIndex(i) ==
    /\ pool' = [pool EXCEPT !.len = IF i < @ THEN @ ELSE i + 1,
                            !.freeBitmap = WithWord(@, i \div W)]
    /\ inUse' = inUse \cup (pool.len .. i)

\* _pool_free
PoolFree == pool # NoPool /\ pool' = NoPool /\ inUse' = {}

PoolNext ==
    \/ PoolGet \/ PoolFree
    \/ \E i \in inUse : PoolPut(i)
    \/ \E i \in 0 .. MaxPool - 1 : PoolValidateIndex(i)

PoolSpec == PoolInit /\ [][PoolNext]_poolVars

\* pool_foreach_region: between one free index and the next, and from the
\* last to the end of the vector.
Visited(p) == UNION {AfterFree(p, s) .. s - 1 : s \in Bits(p.freeBitmap) \cup {p.len}}

\* serialize_pool sends the length and the free indices; what
\* unserialize_pool_helper makes of them.
Unserialized(p) ==
    LET b[i \in 0 .. Len(p.freeIndices)] ==
            IF i = 0 THEN <<>> ELSE Ori(b[i - 1], p.freeIndices[i])
    IN  [p EXCEPT !.freeBitmap = b[Len(p.freeIndices)]]

-----------------------------------------------------------------------------
(* Properties *)

\* pool_validate, and more: bitmap and vector name the same indices, each
\* once, and together with the indices in use they are all of the pool,
\* whatever words the bitmap lost or gained at its end.
FreeTwoWays ==
    /\ Cardinality(Bits(pool.freeBitmap)) = Len(pool.freeIndices)
    /\ ToSet(pool.freeIndices) = Bits(pool.freeBitmap)
    /\ 0 .. pool.len - 1 = inUse \cup ToSet(pool.freeIndices)
    /\ inUse \cap ToSet(pool.freeIndices) = {}

\* Iterating by regions and by asking for each index, and the number of
\* elements, tell of exactly the elements in use.
IterationVisitsInUse ==
    /\ Visited(pool) = inUse
    /\ {i \in 0 .. pool.len : ~ IsFree(pool, i)} = inUse
    /\ pool.len - Len(pool.freeIndices) = Cardinality(inUse)

\* "to guarantee that unserialized pool will be identical" (serialize.c:361): it
\* has the same elements in use, which are sent by regions, and gives out the
\* same indices in the same order.
SerializedAlike ==
    LET p == Unserialized(pool)
    IN  p.len = pool.len /\ Visited(p) = inUse /\ Bits(p.freeBitmap) = Bits(pool.freeBitmap)
            /\ p.freeIndices = pool.freeIndices

\* The three together.
PoolIsSound == FreeTwoWays /\ IterationVisitsInUse /\ SerializedAlike

=============================================================================
