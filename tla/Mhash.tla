---------------------------------- MODULE Mhash ----------------------------------
(***************************************************************************)
(* The hash tables of uclib/mhash.h and uclib/mhash.c, whose keys are       *)
(* copied into memory of their own: equally long keys into a vector with a  *)
(* list of free offsets, strings into a heap (module Heap).  The hash table *)
(* knows a key by its offset, which is a slot here.                         *)
(***************************************************************************)
EXTENDS Hash

CONSTANT MaxSlots   \* bound: slots of the key vector or heap

ASSUME MhashAssumption == MaxSlots \in Nat

VARIABLES
    mhash,      \* mhash_t: keys in slots, len or used slots, free, hash
    values,     \* history: the value of each key
    freedTwice, \* history: a slot was put into the free list twice
    mhashOps    \* bounds the run

mhashVars == <<mhash, values, freedTwice, mhashOps>>

Tmp == -1       \* ~0, which stands for key_tmp
Slots == 0 .. MaxSlots - 1

\* mhash_init for keys of one size or for strings.
NewMhash(heap) ==
    [isHeap |-> heap, keys |-> [s \in Slots |-> -2], used |-> {}, free |-> <<>>,
     hash |-> Created(0, {})]

\* mhash_key_to_mem with key_tmp set to key.
Memory(m, key) == [s \in Slots \cup {Tmp} |-> IF s = Tmp THEN key ELSE m.keys[s]]

\* mhash_get_pair
MhashGetPair(m, key) == GetPair(m.hash, Memory(m, key), Tmp)

MhashInit == mhash = NewMhash(FALSE) /\ values = <<>> /\ freedTwice = FALSE /\ mhashOps = 0

MhashReset(heap) ==
    mhash' = NewMhash(heap) /\ values' = <<>> /\ freedTwice' = FALSE

\* Where a new key is stored: the slot last freed, or a new one.  The slots of
\* a vector in use are the first ones.
SlotFor(m) ==
    IF m.free # <<>> THEN Last(m.free) ELSE First(Slots \ m.used)

\* A wrong version of the next definition, for a mutation check only: the slot
\* stays in the free list.
StoredInFree(m, slot, key) == [m EXCEPT !.keys[slot] = key, !.used = @ \cup {slot}]

\* mhash_set_mem: the key is stored before the table is asked whether it has
\* it, and taken back then; the index it was taken from the free list with is
\* one too high for putting it back.
Stored(m, slot, key) ==
    [m EXCEPT !.keys[slot] = key, !.used = @ \cup {slot}, !.free = IF @ = <<>> THEN @ ELSE Front(@)]
FreeAfterDuplicate(m, slot) == IF m.free # <<>> THEN Append(m.free, slot) ELSE <<>>

MhashSet(key, value) ==
    LET slot   == SlotFor(mhash)
        stored == Stored(mhash, slot, key)
        new    == HashSet3(mhash.hash, Memory(stored, key), slot, value)
        same   == new.elts = mhash.hash.elts
    IN  /\ mhash.free # <<>> \/ Slots \ mhash.used # {}
        /\ mhash' = IF same
                    THEN [mhash EXCEPT !.hash = new, !.keys = stored.keys,
                                       !.free = FreeAfterDuplicate(mhash, slot)]
                    ELSE [stored EXCEPT !.hash = new]
        /\ freedTwice' = (freedTwice \/ (same /\ mhash.free # <<>>))
        /\ values' = [k \in DOMAIN values \cup {key} |-> IF k = key THEN value ELSE values[k]]

\* mhash_unset: the slot is freed before the table, which still reads the key
\* there, forgets it.
MhashUnset(key) ==
    LET pair == MhashGetPair(mhash, key)
    IN  /\ pair # NoPair
        /\ mhash' = [mhash EXCEPT !.hash = HashUnset(@, Memory(mhash, key), pair.key),
                                  !.free = IF mhash.isHeap THEN @ ELSE Append(@, pair.key),
                                  !.used = IF mhash.isHeap THEN @ \ {pair.key} ELSE @]
        /\ values' = Restrict(values, DOMAIN values \ {key})
        /\ UNCHANGED freedTwice

MhashNext ==
    /\ mhashOps < MaxHashOps /\ mhashOps' = mhashOps + 1
    /\ ~ freedTwice                 \* bound: what follows has no meaning
    /\ \/ \E heap \in BOOLEAN : MhashReset(heap)
       \/ \E key \in HashKeys, value \in HashValues : MhashSet(key, value)
       \/ \E key \in HashKeys : MhashUnset(key)

MhashSpec == MhashInit /\ [][MhashNext]_mhashVars

-----------------------------------------------------------------------------

\* Until a key that exists is set while a slot is free, which frees that slot
\* twice: every key is found with its last value, and every slot of the memory
\* belongs to one key or is free once.
MhashIsMap ==
    ~ freedTwice =>
        LET inTable == {pair.key : pair \in ToSet(Pairs(mhash.hash))}
        IN  /\ \A k \in HashKeys :
                  LET pair == MhashGetPair(mhash, k)
                  IN  IF k \in DOMAIN values
                      THEN pair.value = values[k] /\ mhash.keys[pair.key] = k
                      ELSE pair = NoPair
            /\ mhash.hash.elts = Cardinality(DOMAIN values)
            /\ mhash.used = inTable \cup ToSet(mhash.free)
            /\ inTable \cap ToSet(mhash.free) = {} /\ IsInjective(mhash.free)

=============================================================================
