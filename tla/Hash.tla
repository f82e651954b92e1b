---------------------------------- MODULE Hash ----------------------------------
(***************************************************************************)
(* The hash tables of uclib/hash.h and uclib/hash.c.  A bucket holds one    *)
(* pair itself (is_user) or points to an array of at least two.             *)
(*                                                                         *)
(* key_sum and key_equal look at what a key stands for: the key itself, the *)
(* string it points to, or memory that module Mhash keeps.  Here id[key] is *)
(* what they look at and KeySum[id[key]] the sum.                           *)
(***************************************************************************)
EXTENDS Logarithms, Sequences, SequencesExt, FiniteSets, Functions

CONSTANTS HashKeys, HashValues,
          KeySum,           \* the key_sum function
          UserBits,         \* bits of a word of is_user: the least capacity
          ShrinkAbove,      \* 32: smaller tables do not shrink
          NewSizes,         \* bound: what hash_resize is asked for
          MaxHashOps        \* bound: changes of one table

ASSUME HashAssumption ==
    /\ \A k \in HashKeys : KeySum[k] \in Nat
    /\ UserBits \in Nat \ {0} /\ ShrinkAbove \in Nat /\ NewSizes \subseteq Nat /\ MaxHashOps \in Nat

VARIABLES
    hash,       \* the table: buckets, elts, flags; or NoHash
    hashNext,   \* hash_next_t, and as history what the iteration has seen
    contents,   \* history: the value of each key set
    hashOps     \* bounds the run

hashVars == <<hash, hashNext, contents, hashOps>>

NoHash == [buckets |-> <<>>, elts |-> 0, flags |-> {}]
NoPair == [key |-> -2, value |-> -2]
Pair(key, value) == [key |-> key, value |-> value]

\* A bucket that is zero, one that is a pair, one with an array of pairs for
\* which room was allocated.
EmptyBucket == [user |-> FALSE, pairs |-> <<>>, room |-> 0]
Direct(pair) == [user |-> TRUE, pairs |-> <<pair>>, room |-> 0]
Indirect(pairs, room) == [user |-> FALSE, pairs |-> pairs, room |-> room]

-----------------------------------------------------------------------------
(* lookup *)

\* The bucket of a key, counted from 1.
BucketOf(t, id, key) == (KeySum[id[key]] % Len(t.buckets)) + 1

\* key_equal, get_indirect: the first pair in bucket b with a key equal to key.
Equal(id, b, key) == {j \in DOMAIN b.pairs : id[b.pairs[j].key] = id[key]}
First(s) == CHOOSE j \in s : \A k \in s : j <= k

\* _hash_get_pair
GetPair(t, id, key) ==
    IF t = NoHash THEN NoPair
    ELSE LET b == t.buckets[BucketOf(t, id, key)]
             found == Equal(id, b, key)
         IN  IF found = {} THEN NoPair ELSE b.pairs[First(found)]

\* set_indirect_is_user, set_indirect: a new pair in bucket b.
AddedTo(b, pair) ==
    IF b.user THEN Indirect(<<b.pairs[1], pair>>, 2)
    ELSE IF b.pairs = <<>> THEN Direct(pair)
    ELSE Indirect(Append(b.pairs, pair),
                  IF Len(b.pairs) + 1 > b.room THEN 2 * b.room ELSE b.room)

\* lookup SET: a key that is there keeps its name and gets the new value.
Set(t, id, key, value) ==
    LET i     == BucketOf(t, id, key)
        found == Equal(id, t.buckets[i], key)
    IN  IF found # {} THEN [t EXCEPT !.buckets[i].pairs[First(found)].value = value]
        ELSE [t EXCEPT !.buckets[i] = AddedTo(@, Pair(key, value)), !.elts = @ + 1]

\* A wrong version of the next definition, for a mutation check only: the last
\* pair is not moved into the gap.
LastDropped(b, j) ==
    IF b.user THEN EmptyBucket
    ELSE IF Len(b.pairs) = 2 THEN Direct(b.pairs[3 - j])
    ELSE [b EXCEPT !.pairs = Front(@)]

\* unset_indirect: the last pair fills the gap; a single pair moves into the
\* bucket.
RemovedFrom(b, j) ==
    IF b.user THEN EmptyBucket
    ELSE IF Len(b.pairs) = 2 THEN Direct(b.pairs[3 - j])
    ELSE [b EXCEPT !.pairs = Front([@ EXCEPT ![j] = Last(b.pairs)])]

\* lookup UNSET
Unset(t, id, key) ==
    LET i     == BucketOf(t, id, key)
        found == Equal(id, t.buckets[i], key)
    IN  IF found = {} THEN t
        ELSE [t EXCEPT !.buckets[i] = RemovedFrom(@, First(found)), !.elts = @ - 1]

-----------------------------------------------------------------------------
(* Tables *)

\* _hash_create: a power of two, at least as many as is_user has bits.
Capacity(elts) == Pow2[MaxLog2(IF elts > UserBits THEN elts ELSE UserBits)]
Created(elts, flags) ==
    [buckets |-> [i \in 1 .. Capacity(elts) |-> EmptyBucket], elts |-> 0, flags |-> flags]

\* hash_foreach_pair
Pairs(t) == FlattenSeq([i \in DOMAIN t.buckets |-> t.buckets[i].pairs])

\* A table that grows when it has been set: it is 3/4 full.
Full(t) == "no_grow" \notin t.flags /\ 4 * (t.elts + 1) > 3 * Len(t.buckets)

\* hash_resize_internal sets one pair after the other, and the new table may
\* have to grow meanwhile: then what it has is set first, in a larger one.
Refill(s, id) ==
    LET pair == Head(s.todo)
        new  == Set(s.table, id, pair.key, pair.value)
    IN  IF s.todo = <<>> THEN s
        ELSE IF Full(new)
        THEN [table |-> Created(2 * Len(new.buckets), new.flags), todo |-> Pairs(new) \o Tail(s.todo)]
        ELSE [table |-> new, todo |-> Tail(s.todo)]

\* Every time it grows it is less than 4/3 of n + 1, and twice as large then.
RefillSteps(t, n) ==
    LET small == 4 * (n + 1) - 3 * Len(t.buckets)
    IN  (IF small > 0 THEN small ELSE 0) * (n + 1) + n
Refilled(t, id, pairs) ==
    LET after[n \in Nat] ==
            IF n = 0 THEN [table |-> t, todo |-> pairs] ELSE Refill(after[n - 1], id)
    IN  after[RefillSteps(t, Len(pairs))].table

\* hash_resize_internal
Rehashed(t, id, size) ==
    IF size = 0 THEN NoHash ELSE Refilled(Created(size, t.flags), id, Pairs(t))

\* _hash_set3: hash_create passes a header of its own, so that the table may shrink.
HashSet3(t, id, key, value) ==
    LET old == IF t = NoHash THEN Created(0, {}) ELSE t
        new == Set(old, id, key, value)
    IN  IF Full(new) THEN Rehashed(new, id, 2 * Len(new.buckets)) ELSE new

\* _hash_unset: a large table shrinks when it is 1/4 full.
HashUnset(t, id, key) ==
    LET new == Unset(t, id, key)
    IN  IF t = NoHash THEN t
        ELSE IF "no_shrink" \notin new.flags /\ new.elts > ShrinkAbove
                    /\ 4 * (new.elts + 1) < Len(new.buckets)
        THEN Rehashed(new, id, Len(new.buckets) \div 2) ELSE new

-----------------------------------------------------------------------------
(* One table used with its own keys *)

Self == [k \in HashKeys |-> k]
NotNext == [i |-> 0, j |-> 0, flags |-> {}, seen |-> <<>>, there |-> {}, unset |-> FALSE, ended |-> FALSE]

HashInit == hash = NoHash /\ hashNext = NotNext /\ contents = <<>> /\ hashOps = 0

\* hash_create2, with whose flags the table may shrink.
HashCreate ==
    /\ hash = NoHash /\ hash' = Created(0, {})
    /\ UNCHANGED <<hashNext, contents>>

\* hash_set, hash_set3
HashSet(key, value) ==
    /\ hash' = HashSet3(hash, Self, key, value)
    /\ contents' = [k \in DOMAIN contents \cup {key} |-> IF k = key THEN value ELSE contents[k]]
    /\ UNCHANGED hashNext

\* hash_unset, hash_unset3
HashUnsetKey(key) ==
    /\ hash # NoHash /\ hash' = HashUnset(hash, Self, key)
    /\ contents' = Restrict(contents, DOMAIN contents \ {key})
    /\ hashNext' = [hashNext EXCEPT !.unset = TRUE, !.there = @ \ {key}]

\* hash_resize, not of a null table nor while hash_next is under way.
HashResize(size) ==
    /\ hash # NoHash /\ "next" \notin hash.flags
    /\ hash' = Rehashed(hash, Self, size)
    /\ contents' = IF size = 0 THEN <<>> ELSE contents
    /\ UNCHANGED hashNext

\* _hash_free
HashFree ==
    /\ hash # NoHash /\ "next" \notin hash.flags
    /\ hash' = NoHash /\ contents' = <<>> /\ UNCHANGED hashNext

\* A wrong version of the next definition, for a mutation check only: j is not
\* set to 0 for the next bucket.
NextPlaceFromJ(t, i, j) ==
    LET left == {k \in i .. Len(t.buckets) : j < Len(t.buckets[k].pairs)}
    IN  IF left = {} THEN Len(t.buckets) + 1 ELSE First(left)

\* The next bucket from i on with a pair that hash_next has not returned;
\* behind a bucket that is a pair j is kept.
NextPlace(t, i, j) ==
    LET Left(k) == IF k = i THEN t.buckets[k].user \/ j < Len(t.buckets[k].pairs)
                   ELSE t.buckets[k].pairs # <<>>
        left == {k \in i .. Len(t.buckets) : Left(k)}
    IN  IF left = {} THEN Len(t.buckets) + 1 ELSE First(left)

\* hash_next
HashNextPair ==
    LET start == hashNext.i = 0 /\ hashNext.j = 0
        n     == IF start THEN [NotNext EXCEPT !.flags = hash.flags, !.there = DOMAIN contents] ELSE hashNext
        i     == NextPlace(hash, n.i + 1, n.j)
        b     == hash.buckets[i]
        at    == IF i = n.i + 1 THEN n.j ELSE 0
        key   == IF b.user THEN b.pairs[1].key ELSE b.pairs[at + 1].key
    IN  /\ hash # NoHash /\ UNCHANGED contents
        /\ IF i > Len(hash.buckets)
           THEN /\ hashNext' = [n EXCEPT !.i = 0, !.j = 0, !.ended = TRUE]
                /\ hash' = [hash EXCEPT !.flags = n.flags]
           ELSE /\ hashNext' = [n EXCEPT !.i = IF b.user THEN i ELSE i - 1,
                                         !.j = IF b.user THEN at ELSE at + 1,
                                         !.seen = Append(@, key)]
                /\ hash' = [hash EXCEPT !.flags = @ \cup {"no_grow", "no_shrink", "next"}]

HashNext ==
    /\ hashOps < MaxHashOps /\ hashOps' = hashOps + 1
    /\ \/ HashCreate \/ HashFree
       \/ \E key \in HashKeys, value \in HashValues : HashSet(key, value)
       \/ \E key \in HashKeys : HashUnsetKey(key)
       \/ \E size \in NewSizes : HashResize(size)

HashIterate == HashNextPair /\ UNCHANGED hashOps

HashSpec == HashInit /\ [][HashNext \/ HashIterate]_hashVars

-----------------------------------------------------------------------------
(* Properties *)

\* No array of pairs is used beyond what was allocated for it, or for fewer
\* than two pairs.
RoomForPairs ==
    \A i \in DOMAIN hash.buckets : LET b == hash.buckets[i] IN
        IF b.user THEN Len(b.pairs) = 1
        ELSE b.pairs = <<>> \/ Len(b.pairs) \in 2 .. b.room

\* Through growing, shrinking and resizing, and buckets that change between a
\* pair and an array of pairs, the table is the map that was written: every key
\* is found with its last value, others are not, the count is right, and
\* iterating visits each pair once.
HashIsMap ==
    /\ \A k \in HashKeys :
           GetPair(hash, Self, k) = IF k \in DOMAIN contents THEN Pair(k, contents[k]) ELSE NoPair
    /\ RoomForPairs
    /\ hash.elts = Cardinality(DOMAIN contents)
    /\ Len(Pairs(hash)) = hash.elts
    /\ ToSet(Pairs(hash)) = {Pair(k, contents[k]) : k \in DOMAIN contents}

\* hash_next visits every pair that is there all the time, and none twice,
\* while the table is written to, as long as nothing is unset meanwhile (then
\* the pair that fills the gap, or the first of the next array, is missed).
NextVisitsAll ==
    hashNext.ended /\ ~ hashNext.unset =>
        /\ hashNext.there \subseteq ToSet(hashNext.seen)
        /\ IsInjective(hashNext.seen)

=============================================================================
