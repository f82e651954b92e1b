--------------------------------- MODULE Mheap ---------------------------------
(***************************************************************************)
(* The memory allocator of uclib/mheap.h and uclib/mheap.c.                *)
(*                                                                         *)
(* A heap is a vector of words.  Every element is preceded by two words of *)
(* boundary tag; free elements are linked into one list per size bin, with *)
(* the links in their first two words of data.  An element is named by the *)
(* offset of its data (uoffset), in words of MHEAP_USER_DATA_WORD_BYTES.   *)
(* Small elements that are given back first go to a cache.  Pages that lie *)
(* wholly inside a free element are unmapped.                              *)
(***************************************************************************)
EXTENDS Logarithms, Sequences, FiniteSets, FiniteSetsExt

CONSTANTS MaxSize,      \* h->max_size, in words
          NSmallBins,   \* MHEAP_N_SMALL_OBJECT_BINS: 256 in the code
          Log2NSmallBins,
          CacheSize,    \* entries of the small object cache: 64 in the code
          PageSize,     \* mheap_page_size, in words
          Requests      \* the [n, align, alignOffset] callers ask for

Overhead == 2           \* MHEAP_ELT_OVERHEAD_BYTES

ASSUME MheapAssumption ==
    /\ MaxSize \in Nat /\ MaxSize >= Overhead
    /\ PageSize \in Nat \ {0} /\ CacheSize \in Nat \ {0}
    /\ Log2NSmallBins \in Nat /\ NSmallBins = Pow2[Log2NSmallBins]
    /\ \A r \in Requests : /\ r.n \in Nat \ {0} /\ r.alignOffset \in Nat
                           /\ \E k \in 0 .. 20 : r.align = Pow2[k]

MinData  == 2           \* MHEAP_MIN_USER_DATA_BYTES
EltWords == 4           \* sizeof (mheap_elt_t)
FirstElt == Overhead    \* uoffset of the first element
Invalid  == MaxSize + 1 \* MHEAP_N_USER_DATA_INVALID
Nil      == 0           \* ~0 as an offset, which 0 never is
Offsets  == FirstElt .. MaxSize

\* The boundary tag of an element: its size and state, and its predecessor's.
Tag(prevN, prevFree, n, free) ==
    [prevN |-> prevN, prevFree |-> prevFree, n |-> n, free |-> free]
Zeroed == Tag(0, FALSE, 0, FALSE)
Links(next, prev) == [next |-> next, prev |-> prev]
Entry(bin, offset) == [bin |-> bin, offset |-> offset]

-----------------------------------------------------------------------------
(* Sizes, bins, pages *)

Floor(x, a)   == x - (x % a)
RoundUp(x, a) == Floor(x + a - 1, a)
AtLeast(x, y) == IF x > y THEN x ELSE y

\* user_data_size_to_bin_index: one bin per small size, then one per power of 2.
BinOf(n) ==
    LET small == AtLeast(n, MinData) - MinData
    IN  IF small < NSmallBins THEN small
        ELSE NSmallBins + MaxLog2(4 * n) - Log2NSmallBins
Bins == {BinOf(n) : n \in MinData .. MaxSize}

\* The pages from one page boundary to another.
Pages(start, end) == {p \in 0 .. MaxSize : start <= p * PageSize /\ (p + 1) * PageSize <= end}

VARIABLES
    heap,   \* [len, tag, link, first, mapped]: the vector, the heads of the
            \* free lists by bin, and the pages that are mapped
    cache,  \* small_object_cache: [entry, replacement]
    nElts,  \* n_elts
    held    \* history: offset and request of every block callers have

vars == <<heap, cache, nElts, held>>

Init ==
    /\ heap = [len |-> 0,
               tag |-> [o \in Offsets |-> Zeroed],
               link |-> [o \in Offsets |-> Links(Nil, Nil)],
               first |-> [b \in Bins |-> Nil],
               mapped |-> {}]
    /\ cache = [entry |-> [i \in 0 .. CacheSize - 1 |-> Entry(0, 0)], replacement |-> 0]
    /\ nElts = 0
    /\ held = {}

-----------------------------------------------------------------------------
(* Wrong versions of the helpers below, for mutation checks of the           *)
(* properties: none is used by the specification.                            *)

SetSizeHereOnly(m, o, n, free) == [m EXCEPT !.tag[o].n = n, !.tag[o].free = free]
UnlinkedOneWay(m, o, bin) ==
    LET l == m.link[o]
    IN  IF l.prev = Nil THEN [m EXCEPT !.first[bin] = l.next]
        ELSE [m EXCEPT !.link[l.prev].next = l.next]
UnmapRoundedUp(m, o) ==
    [m EXCEPT !.mapped = @ \ {p \in @ : p * PageSize >= o + Overhead /\ p * PageSize < o + m.tag[o].n}]
FitsBySizeOnly(m, f0, r) == m.tag[f0].n >= r.n
HitsOfAnyAlignment(r) == {i \in 0 .. CacheSize - 1 : cache.entry[i].bin = BinOf(r.n) + 1}
EveryEntry == 0 .. CacheSize - 1

-----------------------------------------------------------------------------
(* Tags and free lists of a heap m *)

NextElt(m, o) == o + m.tag[o].n + Overhead
PrevElt(m, o) == o - m.tag[o].prevN - Overhead

\* mheap_elt_set_size: the element's tag and its successor's copy of it.
SetSize(m, o, n, free) ==
    [m EXCEPT !.tag[o].n = n, !.tag[o].free = free,
              !.tag[o + n + Overhead].prevN = n, !.tag[o + n + Overhead].prevFree = free]

\* remove_free_elt: the element leaves the free list of its bin.
RemoveFree(m, o, bin) ==
    LET l  == m.link[o]
        m1 == IF l.prev = Nil THEN [m EXCEPT !.first[bin] = l.next]
              ELSE [m EXCEPT !.link[l.prev].next = l.next]
    IN  IF l.next = Nil THEN m1 ELSE [m1 EXCEPT !.link[l.next].prev = l.prev]

\* remove_free_elt2
RemoveFree2(m, o) == RemoveFree(m, o, BinOf(m.tag[o].n))

\* mheap_set_free_elt: the element becomes the first of its bin's free list.
SetFree(m, o, n) ==
    LET bin  == BinOf(n)
        next == m.first[bin]
        m1   == [m EXCEPT !.link[o] = Links(next, Nil), !.first[bin] = o]
    IN  IF next = Nil THEN m1 ELSE [m1 EXCEPT !.link[next].prev = o]

\* new_free_elt
NewFree(m, o, n) == SetFree(SetSize(m, o, n, TRUE), o, n)

\* mheap_vm: whole pages from start to end, the end rounded as its caller asks.
Map(m, start, end) ==
    [m EXCEPT !.mapped = @ \cup Pages(RoundUp(start, PageSize), RoundUp(end, PageSize))]

\* mheap_vm_elt with MHEAP_VM_UNMAP: the pages inside a free element.
UnmapElt(m, o) ==
    [m EXCEPT !.mapped = @ \ Pages(RoundUp(o + Overhead, PageSize),
                                   Floor(o + m.tag[o].n, PageSize))]

\* The elements of a bin's free list from its head, with Nil once it has ended.
Listed(m, bin) ==
    LET at[k \in 0 .. MaxSize \div EltWords] ==
            IF k = 0 THEN m.first[bin]
            ELSE IF at[k - 1] = Nil THEN Nil
            ELSE m.link[at[k - 1]].next
    IN  at

\* The elements of the heap from its start; each is found by its predecessor's
\* size, and the last one is the end marker at vec_len.
Walk(m) ==
    LET at[k \in 0 .. MaxSize \div EltWords] ==
            IF k = 0 THEN FirstElt
            ELSE IF at[k - 1] >= m.len THEN at[k - 1]
            ELSE NextElt(m, at[k - 1])
    IN  at
Elements(m) == LET at == Walk(m) IN IF m.len = 0 THEN {} ELSE {at[k] : k \in DOMAIN at}

\* What is not a tag, or not a link of a free element, is somebody's data.
Tidy(m) ==
    LET es == Elements(m)
    IN  [m EXCEPT !.tag  = [o \in Offsets |-> IF o \in es THEN m.tag[o] ELSE Zeroed],
                  !.link = [o \in Offsets |-> IF o \in es /\ m.tag[o].free /\ o < m.len
                                              THEN m.link[o] ELSE Links(Nil, Nil)]]

-----------------------------------------------------------------------------
(* mheap_get_search_free_bin *)

\* Where a block of n words goes in the free element f0 .. f1 - 1: as far up
\* as alignment allows, but with no fragment below it too small to be free.
Place(f0, f1, r) ==
    LET top == Floor(f1 - r.n, r.align) - r.alignOffset
        low == IF top >= f0 THEN top ELSE top + RoundUp(f0 - top, r.align)
    IN  Max({o \in low - (r.align + Overhead + MinData) .. low :
                /\ (low - o) % r.align = 0
                /\ o <= f0 \/ o - f0 - Overhead >= MinData})

Fits(m, f0, r) ==
    LET f1 == f0 + m.tag[f0].n
        o0 == Place(f0, f1, r)
    IN  m.tag[f0].n >= r.n /\ o0 >= f0 /\ o0 + r.n <= f1

\* The first element that fits, in the lowest bin that has one, or Nil.
FreeEltFor(m, r) ==
    LET Fitting(b) == {k \in DOMAIN Listed(m, b) :
                          Listed(m, b)[k] # Nil /\ Fits(m, Listed(m, b)[k], r)}
        candidates == {b \in Bins : b >= BinOf(r.n) /\ Fitting(b) # {}}
    IN  IF candidates = {} THEN Nil
        ELSE Listed(m, Min(candidates))[Min(Fitting(Min(candidates)))]

\* Words left over above the block: too few to be free go with the block.
SizeGiven(f1, o0, n) == IF f1 - o0 - n < Overhead + MinData THEN f1 - o0 ELSE n

\* The pages mapped for the block at o0 .. o1 - 1 of the free element at f0.
MapBlock(m, f0, f1, o0, o1) ==
    LET start == AtLeast(Floor(o0 - Overhead, PageSize), RoundUp(f0 + Overhead, PageSize))
        end   == RoundUp(o1 + Overhead, PageSize)
        last  == Floor(f1, PageSize)
    IN  [m EXCEPT !.mapped = @ \cup Pages(start, IF end > last THEN last ELSE end)]

\* The free element f0 becomes a free fragment, the block, a free fragment.
Carved(m, f0, r) ==
    LET f1 == f0 + m.tag[f0].n
        o0 == Place(f0, f1, r)
        n  == SizeGiven(f1, o0, r.n)
        o1 == o0 + n
        m1 == RemoveFree(MapBlock(m, f0, f1, o0, o1), f0, BinOf(m.tag[f0].n))
        m2 == IF o0 = f0 THEN m1 ELSE NewFree(m1, f0, o0 - f0 - Overhead)
        m3 == SetSize(m2, o0, n, FALSE)
    IN  IF o1 = f1 THEN m3 ELSE NewFree(m3, o1 + Overhead, f1 - o1 - Overhead)

-----------------------------------------------------------------------------
(* mheap_get_extend_vector *)

\* The first element's tag is made when the heap has none.
Begun(m) ==
    IF m.len # 0 THEN m
    ELSE [Map(m, 0, EltWords) EXCEPT !.len = FirstElt, !.tag[FirstElt].prevN = Invalid]

\* Where the block goes: at the end, or above a new free element.
ExtendAt(m, r) ==
    LET low == RoundUp(m.len, r.align) - r.alignOffset
    IN  Min({o \in low .. low + 2 * (r.align + EltWords + Overhead) :
                /\ (o - low) % r.align = 0
                /\ o = m.len \/ o - m.len - Overhead >= EltWords})

\* With room for the block and the end marker the vector grows.
Extended(m, r) ==
    LET o0 == ExtendAt(m, r)
        f1 == o0 + r.n + Overhead
        m1 == [m EXCEPT !.len = f1,
                        !.mapped = @ \cup Pages(RoundUp(m.len, PageSize), RoundUp(f1, PageSize))]
        m2 == IF o0 = m.len THEN m1 ELSE NewFree(m1, m.len, o0 - m.len - Overhead)
    IN  [SetSize(m2, o0, r.n, FALSE) EXCEPT !.tag[f1].n = Invalid]

ExtensionFits(m, r) == ExtendAt(m, r) + r.n + Overhead <= MaxSize

-----------------------------------------------------------------------------
(* mheap_get_aligned *)

\* The request as mheap_get_aligned rounds it.
Rounded(r) == [n |-> AtLeast(r.n, MinData), align |-> r.align,
               alignOffset |-> r.alignOffset % r.align]

\* The cache entries an allocation may be served from.
CacheHits(r) ==
    IF BinOf(r.n) < NSmallBins - 1 /\ r.align = 1 /\ r.alignOffset = 0
    THEN {i \in 0 .. CacheSize - 1 : cache.entry[i].bin = BinOf(r.n) + 1}
    ELSE {}

Gave(o, r) ==
    /\ nElts' = nElts + 1
    /\ held' = held \cup {[off |-> o, req |-> r]}

GetFromCache(r) ==
    /\ CacheHits(r) # {}
    /\ LET i == Max(CacheHits(r))
       IN  /\ cache' = [cache EXCEPT !.entry[i].bin = 0]
           /\ Gave(cache.entry[i].offset, r)
    /\ UNCHANGED heap

GetFromFreeList(r) ==
    /\ CacheHits(r) = {}
    /\ LET f0 == FreeEltFor(heap, r)
       IN  /\ f0 # Nil
           /\ heap' = Tidy(Carved(heap, f0, r))
           /\ Gave(Place(f0, f0 + heap.tag[f0].n, r), r)
    /\ UNCHANGED cache

GetByExtending(r) ==
    /\ CacheHits(r) = {} /\ FreeEltFor(heap, r) = Nil
    /\ heap.len < MaxSize
    /\ LET m == Begun(heap)
       IN  IF ExtensionFits(m, r)
           THEN heap' = Tidy(Extended(m, r)) /\ Gave(ExtendAt(m, r), r)
           ELSE heap' = m /\ UNCHANGED <<nElts, held>>
    /\ UNCHANGED cache

-----------------------------------------------------------------------------
(* mheap_put *)

\* free_last_elt: the end marker moves down to the element, or to the free
\* element below it.
LastFreed(m, o) ==
    LET e  == IF m.tag[o].prevFree THEN PrevElt(m, o) ELSE o
        m1 == IF m.tag[o].prevFree THEN RemoveFree2(m, e) ELSE m
        m2 == UnmapElt(m1, e)
    IN  IF m.tag[e].prevN = Invalid THEN [m2 EXCEPT !.len = 0]
        ELSE [m2 EXCEPT !.len = e, !.tag[e].n = Invalid]

\* The element above is free and not the end marker.
MergesUp(m, o) == m.tag[NextElt(m, o)].free

\* The element becomes free together with its free neighbours.
Merged(m, o) ==
    LET n  == NextElt(m, o)
        f0 == IF m.tag[o].prevFree THEN PrevElt(m, o) ELSE o
        f1 == IF MergesUp(m, o) THEN n + m.tag[n].n ELSE o + m.tag[o].n
        m1 == IF m.tag[o].prevFree THEN RemoveFree2(m, f0) ELSE m
        m2 == IF MergesUp(m, o) THEN RemoveFree2(m1, n) ELSE m1
    IN  UnmapElt(NewFree(m2, f0, f1 - f0), f0)

Freed(m, o) ==
    Tidy(IF m.tag[NextElt(m, o)].n = Invalid THEN LastFreed(m, o) ELSE Merged(m, o))

\* Where mheap_put_small_object puts an offset: the highest unused entry, or
\* the next in turn, whose offset is then freed instead.
UnusedEntries == {i \in 0 .. CacheSize - 1 : cache.entry[i].bin = 0}

Cached(o) == BinOf(heap.tag[o].n) < NSmallBins - 1

Put(h) ==
    /\ nElts' = nElts - 1
    /\ held' = held \ {h}
    /\ LET o == h.off
           new == Entry(BinOf(heap.tag[o].n) + 1, o)
           i == IF UnusedEntries # {} THEN Max(UnusedEntries) ELSE cache.replacement
       IN  IF Cached(o)
           THEN /\ cache' = [entry |-> [cache.entry EXCEPT ![i] = new],
                             replacement |-> IF UnusedEntries # {} THEN cache.replacement
                                             ELSE (cache.replacement + 1) % CacheSize]
                /\ heap' = IF UnusedEntries # {} THEN heap
                           ELSE Freed(heap, cache.entry[i].offset)
           ELSE /\ heap' = Freed(heap, o)
                /\ UNCHANGED cache

Get(r) == GetFromCache(r) \/ GetFromFreeList(r) \/ GetByExtending(r)

Next ==
    \/ \E r \in Requests : Get(Rounded(r))
    \/ \E h \in held : Put(h)

Spec == Init /\ [][Next]_vars

-----------------------------------------------------------------------------
(* Properties *)

TypeOK ==
    /\ heap.len \in 0 .. MaxSize
    /\ heap.tag \in [Offsets -> [prevN : 0 .. Invalid, prevFree : BOOLEAN,
                                 n : 0 .. Invalid, free : BOOLEAN]]
    /\ heap.link \in [Offsets -> [next : Offsets \cup {Nil}, prev : Offsets \cup {Nil}]]
    /\ heap.first \in [Bins -> Offsets \cup {Nil}]
    /\ heap.mapped \subseteq 0 .. MaxSize
    /\ cache.entry \in [0 .. CacheSize - 1 -> [bin : 0 .. NSmallBins, offset : Offsets \cup {0}]]
    /\ cache.replacement \in 0 .. CacheSize - 1
    /\ nElts \in Nat
    /\ held \subseteq [off : Offsets, req : {Rounded(r) : r \in Requests}]

\* A heap with elements; len = FirstElt is what a first request that does not
\* fit leaves behind.
Populated == heap.len > FirstElt

Blocks(m)  == {o \in Elements(m) : o < m.len}
FreeBlocks == {o \in Blocks(heap) : heap.tag[o].free}

\* Putting a block merges it with both neighbours at once, and the end of
\* the heap is never free: no two free elements touch.
NoFreeNeighbours ==
    /\ ~ heap.tag[heap.len].prevFree
    /\ \A o \in FreeBlocks : ~ heap.tag[o].prevFree

\* The boundary tags chain from the start of the heap to its end marker, the
\* two copies of every size and state agree, as mheap_put relies on when it
\* panics otherwise, and no two free elements touch; and every value has its
\* type.
TagsChain ==
    /\ TypeOK
    /\ Populated =>
        /\ heap.len \in Elements(heap) /\ heap.tag[heap.len].n = Invalid
        /\ heap.tag[FirstElt].prevN = Invalid
        /\ \A o \in Blocks(heap) :
               LET n == NextElt(heap, o)
               IN  /\ heap.tag[o].n \in MinData .. MaxSize
                   /\ heap.tag[n].prevN = heap.tag[o].n
                   /\ heap.tag[n].prevFree = heap.tag[o].free
        /\ NoFreeNeighbours

\* The free lists hold exactly the free elements, each in the list of its
\* bin and linked both ways.
FreeListsExact ==
    \A b \in Bins :
        LET at == Listed(heap, b)
            on == {at[k] : k \in DOMAIN at} \ {Nil}
        IN  /\ on = {o \in FreeBlocks : BinOf(heap.tag[o].n) = b}
            /\ \A o \in on :
                   LET prev == heap.link[o].prev
                   IN  IF o = heap.first[b] THEN prev = Nil
                       ELSE prev \in on /\ heap.link[prev].next = o

CacheOffsets == {cache.entry[i].offset : i \in {j \in DOMAIN cache.entry : cache.entry[j].bin # 0}}

\* Every allocated block is with one caller or in the cache once, and n_elts
\* counts the former.
BlocksAccountedFor ==
    /\ Blocks(heap) \ FreeBlocks = {h.off : h \in held} \cup CacheOffsets
    /\ CacheOffsets \cap {h.off : h \in held} = {}
    /\ Cardinality(CacheOffsets) = Cardinality({i \in DOMAIN cache.entry : cache.entry[i].bin # 0})
    /\ nElts = Cardinality({h.off : h \in held})
    /\ \A i \in DOMAIN cache.entry : cache.entry[i].bin # 0 =>
           BinOf(heap.tag[cache.entry[i].offset].n) = cache.entry[i].bin - 1

\* Every caller has what was asked for, through cache, free lists, splitting
\* and rounding: enough words, aligned at the offset asked for.
RequestsMet ==
    \A h \in held : /\ heap.tag[h.off].n >= h.req.n
                    /\ (h.off + h.req.alignOffset) % h.req.align = 0

Touched(o, n) == {w \div PageSize : w \in o .. o + n - 1}

\* All tags, all words of blocks in use, and the links of free elements, which
\* are kept in the first words of their data, are in mapped pages.
NeededIsMapped ==
    /\ \A o \in Elements(heap) : Touched(o - Overhead, Overhead) \subseteq heap.mapped
    /\ \A o \in Blocks(heap) :
           Touched(o, IF heap.tag[o].free THEN EltWords - Overhead ELSE heap.tag[o].n)
               \subseteq heap.mapped

\* What remains of a free element above an aligned block is less than a page.
AlignedWithinPage == \A r \in Requests : 2 * r.align <= PageSize

\* What the heap or its callers use is mapped, through unmapping the inside of
\* free elements and mapping it again in part, as long as alignments are small
\* beside a page: the page behind a block of larger alignment stays unmapped
\* although a free element may begin in it.
InUseIsMapped == AlignedWithinPage => NeededIsMapped

BlockOf(h) == [off |-> h.off, n |-> heap.tag[h.off].n]
HeldBlocks == {BlockOf(h) : h \in held}

A == INSTANCE Allocator WITH Size <- MaxSize, blocks <- HeldBlocks

\* The heap is an allocator: through merging, splitting, the cache and its
\* replacements, no block ever overlaps, moves or changes size.
ImplementsAllocator == A!AllocatorSpec

=============================================================================
