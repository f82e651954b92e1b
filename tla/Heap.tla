---------------------------------- MODULE Heap ----------------------------------
(***************************************************************************)
(* The heap of vector elements of uclib/heap.h and uclib/heap.c: objects of *)
(* any size and alignment inside one vector, a doubly linked chain of the   *)
(* blocks used and free in the order of their offsets, and the free ones    *)
(* listed by bin of size.                                                   *)
(*                                                                         *)
(* A block is named by its handle, an index of elts.  Links are handles     *)
(* (the code keeps them relative).  The place of a free block in its free   *)
(* list is kept in the block itself or in a vector beside it: here in fi.   *)
(***************************************************************************)
EXTENDS Logarithms, Sequences, SequencesExt, FiniteSets

CONSTANTS Log2SmallBins,    \* sizes up to 2 ^ Log2SmallBins have their own bins
          NBins,            \* bins enough for any size up to
          MaxHeapLen,       \* heap_set_max_len
          MaxObjects,       \* bound: objects ever allocated
          HeapSizes, Aligns \* requests

ASSUME HeapAssumption ==
    /\ Log2SmallBins \in Nat /\ NBins \in Nat /\ MaxHeapLen \in Nat /\ MaxObjects \in Nat
    /\ NBins >= Pow2[Log2SmallBins]
    /\ NBins >= Pow2[Log2SmallBins] + MaxLog2(MaxHeapLen) - Log2SmallBins
    /\ HeapSizes \subseteq Nat \ {0} /\ Aligns \subseteq Nat

VARIABLES heap,         \* heap_header_t with the length of the vector
          objects,      \* history: for each handle in use what was asked for
          made,         \* history: objects allocated so far
          heapAsserted  \* an ASSERT failed (a debug build stops here)

heapVars == <<heap, objects, made, heapAsserted>>

NoBlock == -1
SmallBins == Pow2[Log2SmallBins]

SizeToBin(size) ==
    IF size <= SmallBins THEN size - 1
    ELSE LET bin == SmallBins + MaxLog2(size) - (Log2SmallBins + 1)
         IN  IF bin >= NBins THEN NBins - 1 ELSE bin

EmptyHeap ==
    [elts |-> <<>>, freeElts |-> <<>>, lists |-> [b \in 0 .. NBins - 1 |-> <<>>],
     head |-> 0, tail |-> 0, len |-> 0]

HeapInit == heap = EmptyHeap /\ objects = <<>> /\ made = 0 /\ heapAsserted = FALSE

\* heap_elt_size: up to the next block or the end of the vector.
Size(h, e) ==
    (IF h.elts[e].next = e THEN h.len ELSE h.elts[h.elts[e].next].offset) - h.elts[e].offset

-----------------------------------------------------------------------------
(* The chain *)

\* elt_new: a block index, taken from free_elts or at the end of elts.
NewElt(h) == IF h.freeElts = <<>> THEN Cardinality(DOMAIN h.elts) ELSE Last(h.freeElts)
Block(offset) == [offset |-> offset, free |-> FALSE, next |-> 0, prev |-> 0, fi |-> 0]
WithElt(h, offset) ==
    LET new == NewElt(h)
    IN  [h EXCEPT !.elts = [i \in DOMAIN @ \cup {new} |-> IF i = new THEN Block(offset) ELSE @[i]],
                  !.freeElts = IF @ = <<>> THEN @ ELSE Front(@)]

\* elt_insert_after; the first block is inserted after itself.
InsertAfter(h, e, new) ==
    LET n == h.elts[e].next
    IN  IF n = e THEN [h EXCEPT !.elts[e].next = new, !.elts[new].next = new,
                                !.elts[new].prev = e, !.tail = new]
        ELSE [h EXCEPT !.elts[new].prev = e, !.elts[new].next = n,
                       !.elts[e].next = new, !.elts[n].prev = new]

\* elt_insert_before
InsertBefore(h, e, new) ==
    LET p == h.elts[e].prev
    IN  IF p = e THEN [h EXCEPT !.elts[e].prev = new, !.elts[new].prev = new,
                                !.elts[new].next = e, !.head = new]
        ELSE [h EXCEPT !.elts[new].next = e, !.elts[new].prev = p,
                       !.elts[e].prev = new, !.elts[p].next = new]

\* The neighbours of e are linked to each other, or become the first or the last.
PassedBy(h, e) ==
    LET p == h.elts[e].prev
        n == h.elts[e].next
    IN  IF p = e THEN [h EXCEPT !.elts[n].prev = n, !.head = n]
        ELSE IF n = e THEN [h EXCEPT !.elts[p].next = p, !.tail = p]
        ELSE [h EXCEPT !.elts[p].next = n, !.elts[n].prev = p]

\* Its element is free for another block, or the last one is dropped.
TakenOut(h, e) ==
    IF e < Cardinality(DOMAIN h.elts) - 1 THEN [h EXCEPT !.freeElts = Append(@, e), !.elts[e] = Block(0)]
    ELSE [h EXCEPT !.elts = [i \in DOMAIN @ \ {e} |-> @[i]]]

\* elt_delete; what the deleted element says is read by nobody.
DeleteElt(h, e) == TakenOut(PassedBy(h, e), e)

-----------------------------------------------------------------------------
(* Free lists *)

\* A free block is added to the list of bin b.
Listed(h, b, e) ==
    [h EXCEPT !.lists[b] = Append(@, e), !.elts[e].free = TRUE,
              !.elts[e].fi = Len(h.lists[b])]

\* remove_free_block: the last one of the list takes the place that is left.
Unlisted(h, b, i) ==
    LET list == h.lists[b]
        l    == Len(list) - 1
    IN  IF i < l THEN [h EXCEPT !.lists[b] = Front([list EXCEPT ![i + 1] = list[l + 1]]),
                                !.elts[list[l + 1]].fi = i]
        ELSE [h EXCEPT !.lists[b] = Front(list)]

\* A wrong version of the next definition, for a mutation check only: the
\* places of the blocks as they were before the first of them was removed.
UnlistedAsFound(h, found, e) == Unlisted(h, SizeToBin(Size(h, e)), found.elts[e].fi)

\* A free block is removed; found is the heap in which the merge began.
UnlistedNow(h, found, e) == Unlisted(h, SizeToBin(Size(h, e)), h.elts[e].fi)

\* combine_free_blocks: the two or three blocks of run become one, in the
\* element that already is in the bin of their total size or in a new one,
\* which is said to be listed where it was before the others were removed.
Combined(h, run) ==
    LET total == Size(h, run[1]) + Size(h, run[2]) + (IF Len(run) = 3 THEN Size(h, run[3]) ELSE 0)
        b     == SizeToBin(total)
        fits  == {i \in DOMAIN run : SizeToBin(Size(h, run[i])) = b}
        kept  == IF fits = {} THEN NewElt(h)
                 ELSE run[CHOOSE i \in fits : \A j \in fits : i <= j]
        start == IF fits # {} THEN h
                 ELSE Listed(InsertBefore(WithElt(h, 0), run[1], kept), b, kept)
        Gone(g, e) == IF e = kept THEN g ELSE DeleteElt(UnlistedNow(g, h, e), e)
        two   == Gone(Gone(start, run[1]), run[2])
        all   == IF Len(run) = 3 THEN Gone(two, run[3]) ELSE two
    IN  [all EXCEPT !.elts[kept].offset = h.elts[run[1]].offset,
                    !.elts[kept].fi = start.elts[kept].fi]

\* dealloc_elt
Dealloc(h, e) ==
    LET g    == Listed(h, SizeToBin(Size(h, e)), e)
        p    == g.elts[e].prev
        n    == g.elts[e].next
        down == IF p # e /\ g.elts[p].free THEN <<p>> ELSE <<>>
        up   == IF n # e /\ g.elts[n].free THEN <<n>> ELSE <<>>
    IN  IF down \o up = <<>> THEN g ELSE Combined(g, down \o <<e>> \o up)

-----------------------------------------------------------------------------
(* Allocation *)

\* search_free_list: the bins tried in order, each list from its end.
BigEnough(h, b, size) == {l \in DOMAIN h.lists[b] : Size(h, h.lists[b][l]) >= size}
FittingBins(h, size) == {b \in SizeToBin(size) .. NBins - 1 : BigEnough(h, b, size) # {}}

\* What is left of free block f, at place l of bin b, when it keeps s.
SplitListed(h, b, l, f, s) ==
    IF s > 0 /\ SizeToBin(s) = b THEN h
    ELSE IF s = 0 THEN Unlisted(h, b, l)
    ELSE Unlisted(Listed(h, SizeToBin(s), f), b, l)

\* The object is the end of the first block that is large enough.
Searched(h, size) ==
    LET b == CHOOSE x \in FittingBins(h, size) : \A y \in FittingBins(h, size) : x <= y
        l == CHOOSE x \in BigEnough(h, b, size) : \A y \in BigEnough(h, b, size) : x >= y
        f == h.lists[b][l]
        s == Size(h, f) - size
        u == IF s = 0 THEN f ELSE NewElt(h)
    IN  [e |-> u,
         h |-> IF s = 0 THEN SplitListed([h EXCEPT !.elts[f].free = FALSE, !.elts[f].fi = 0], b, l - 1, f, 0)
               ELSE SplitListed(InsertAfter(WithElt(h, h.elts[f].offset + s), f, u), b, l - 1, f, s)]

\* A list searched in vain is read at place -1, where its length is, and that
\* number taken for a block (elt_at).
ReadsBeforeList(h, size) ==
    LET b == SizeToBin(size)
    IN  /\ h.lists[b] # <<>> /\ BigEnough(h, b, size) = {}
        /\ Len(h.lists[b]) \notin DOMAIN h.elts

\* A new object at the end of the vector.
AtEnd(h, size) ==
    LET new == NewElt(h)
        g   == WithElt([h EXCEPT !.len = @ + size], h.len)
    IN  [e |-> new,
         h |-> IF h.elts = <<>>
               THEN [g EXCEPT !.head = new, !.tail = new, !.elts[new].next = new, !.elts[new].prev = new]
               ELSE InsertAfter(g, g.tail, new)]

\* The block e, reserved from from on, keeps size from the aligned offset at
\* on; fragments in front of it and behind it are freed.
Aligned(h, e, from, at, size, reserved) ==
    LET moved  == [h EXCEPT !.elts[e].offset = at]
        front  == IF at = from THEN moved
                  ELSE Dealloc(InsertBefore(WithElt(moved, from), e, NewElt(moved)), NewElt(moved))
    IN  IF at + size >= from + reserved THEN front
        ELSE Dealloc(InsertAfter(WithElt(front, at + size), e, NewElt(front)), NewElt(front))

RoundedAlign(align) == IF align <= 1 THEN 1 ELSE Pow2[MaxLog2(align)]

\* _heap_alloc
HeapAlloc(size, align) ==
    LET a        == RoundedAlign(align)
        reserved == size + a - 1
        found    == FittingBins(heap, reserved) # {}
        g        == IF found THEN Searched(heap, reserved) ELSE AtEnd(heap, reserved)
        from     == g.h.elts[g.e].offset
        at       == ((from + a - 1) \div a) * a
    IN  /\ made < MaxObjects /\ made' = made + 1
        /\ found \/ heap.len + reserved <= MaxHeapLen
        /\ heap' = Aligned(g.h, g.e, from, at, size, reserved)
        /\ objects' = [k \in DOMAIN objects \cup {g.e} |->
                          IF k = g.e THEN [offset |-> at, size |-> size, align |-> a] ELSE objects[k]]
        /\ UNCHANGED heapAsserted

\* The search of a debug build stops at an assertion.
HeapAllocAsserts(size, align) ==
    /\ ReadsBeforeList(heap, size + RoundedAlign(align) - 1)
    /\ heapAsserted' = TRUE
    /\ UNCHANGED <<heap, objects, made>>

\* heap_dealloc
HeapDealloc(handle) ==
    /\ heap' = Dealloc(heap, handle)
    /\ objects' = [k \in DOMAIN objects \ {handle} |-> objects[k]]
    /\ UNCHANGED <<made, heapAsserted>>

\* _heap_free
HeapFree ==
    /\ heap.len > 0 /\ heap' = EmptyHeap /\ objects' = <<>>
    /\ UNCHANGED <<made, heapAsserted>>

\* serialize_heap and unserialize_heap: the blocks, their chain and the free
\* lists are sent, and what is in the objects; where a free block keeps its
\* place, which it does if an element has four bytes, there are zeros.
HeapUnserialized(h, eltBytes) ==
    IF h.len = 0 THEN EmptyHeap
    ELSE [h EXCEPT !.elts = [e \in DOMAIN @ |->
             IF @[e].free /\ eltBytes >= 4 THEN [@[e] EXCEPT !.fi = 0] ELSE @[e]]]

HeapNext ==
    /\ ~ heapAsserted
    /\ \/ \E size \in HeapSizes, align \in Aligns : HeapAlloc(size, align) \/ HeapAllocAsserts(size, align)
       \/ \E handle \in DOMAIN objects : HeapDealloc(handle)
       \/ HeapFree

HeapSpec == HeapInit /\ [][HeapNext]_heapVars

-----------------------------------------------------------------------------
(* Properties *)

\* heap_foreach: the blocks from head to tail.
Chain(h) ==
    LET elt[n \in Nat] == IF n = 0 THEN h.head ELSE h.elts[elt[n - 1]].next
        in == DOMAIN h.elts \ ToSet(h.freeElts)
    IN  [n \in 1 .. Cardinality(in) |-> elt[n - 1]]

\* heap_validate
Validated(h) ==
    LET chain == Chain(h)
        in    == DOMAIN h.elts \ ToSet(h.freeElts)
    IN  /\ ToSet(chain) = in
        /\ in # {} => /\ h.elts[h.head].prev = h.head /\ h.elts[h.head].offset = 0
                      /\ h.elts[h.tail].next = h.tail /\ Last(chain) = h.tail
        /\ \A n \in 1 .. Len(chain) - 1 :
               /\ h.elts[chain[n + 1]].prev = chain[n] /\ Size(h, chain[n]) > 0
               /\ ~ (h.elts[chain[n]].free /\ h.elts[chain[n + 1]].free)
        /\ {e \in in : h.elts[e].free} = UNION {ToSet(h.lists[b]) : b \in DOMAIN h.lists}
        /\ \A b \in DOMAIN h.lists : \A l \in DOMAIN h.lists[b] :
               LET e == h.lists[b][l]
               IN  h.elts[e].fi = l - 1 /\ SizeToBin(Size(h, e)) = b

\* Whatever was allocated, aligned, freed and merged before, the heap is as
\* heap_validate wants it: a chain that covers the vector, free blocks never
\* adjacent, each listed once, at the place it believes, in the bin of its size.
HeapValidates == Validated(heap)

\* Every object lies where its caller was told, as large and as aligned as
\* asked for, and the blocks not free are exactly the objects: none is lost
\* or handed out twice while its neighbours are split, moved and merged.
ObjectsInPlace ==
    /\ \A k \in DOMAIN objects :
           /\ k \in ToSet(Chain(heap)) /\ ~ heap.elts[k].free
           /\ heap.elts[k].offset = objects[k].offset /\ Size(heap, k) = objects[k].size
           /\ objects[k].offset % objects[k].align = 0
    /\ \A e \in ToSet(Chain(heap)) : heap.elts[e].free \/ e \in DOMAIN objects

\* A heap that was sent through a stream is valid again; but a free block of
\* larger elements forgets its place, unless it is the first of its list.
ReceivedIsValid ==
    \A eltBytes \in {1, 4} :
        eltBytes < 4 \/ (\A b \in DOMAIN heap.lists : Len(heap.lists[b]) <= 1)
            => Validated(HeapUnserialized(heap, eltBytes))

\* The chain, the free lists and the objects together; without a vector there
\* are no objects.
HeapIsSound ==
    IF heap = EmptyHeap THEN DOMAIN objects = {} ELSE HeapValidates /\ ObjectsInPlace /\ ReceivedIsValid

\* The assertions of the allocator hold (elt_at, for the index the search reads).
HeapAssertsHold == ~ heapAsserted

=============================================================================
