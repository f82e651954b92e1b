------------------------------- MODULE BitmapOps -------------------------------
(***************************************************************************)
(* The functions of uclib/bitmap.h applied to one bitmap in any order,      *)
(* beside the set of numbers that it should be.                             *)
(***************************************************************************)
EXTENDS Bitmap

CONSTANT MaxBit    \* bound: bits are 0 .. MaxBit

ASSUME BitmapOpsAssumption == MaxBit \in Nat

VARIABLES bitmap,   \* the words of the vector
          vector,   \* "null" before it is allocated; "fault": its null length was written
          bits      \* history: the set it should be

bitmapVars == <<bitmap, vector, bits>>
BitNumbers == 0 .. MaxBit
Operands == {<<>>} \cup {<<x>> : x \in SUBSET Positions} \cup {<<{}, x>> : x \in SUBSET Positions}

BitmapInit == bitmap = <<>> /\ vector = "null" /\ bits = {}

Change(b, s) == bitmap' = b /\ bits' = s

Allocated == vector' = "allocated"

SetBit(i) == \E value \in BOOLEAN :
    /\ Change(BitmapSet(bitmap, i, value), IF value THEN bits \cup {i} ELSE bits \ {i})
    /\ IF value THEN Allocated ELSE UNCHANGED vector
Immediate(i) ==
    /\ Allocated
    /\ \/ Change(Ori(bitmap, i), bits \cup {i})
       \/ Change(Andnoti(bitmap, i), bits \ {i})
       \/ Change(Xori(bitmap, i), SymDiff(bits, {i}))
       \/ Change(Andi(bitmap, i), {j \in bits : j = i \/ j \div W # i \div W})
OrWith(b) ==
    /\ IF b = <<>> THEN UNCHANGED vector ELSE Allocated
    /\ Change(Or(bitmap, b), bits \cup Bits(b))
Binary(b) ==
    /\ vector = "allocated" \/ b # <<>>
    /\ Allocated
    /\ \/ Change(And(bitmap, b), bits \cap Bits(b))
       \/ Change(Andnot(bitmap, b), bits \ Bits(b))
       \/ Change(Xor(bitmap, b), SymDiff(bits, Bits(b)))
\* With no word in b a null vector stays null, and they subtract from its length.
BinaryOfNull == vector = "null" /\ vector' = "fault" /\ UNCHANGED <<bitmap, bits>>
Multiple(i, n) ==
    /\ Allocated
    /\ \/ \E value \in SUBSET (0 .. n - 1) :
              Change(SetMultiple(bitmap, i, value, n),
                     (bits \ (i .. i + n - 1)) \cup {i + j : j \in value})
       \/ /\ RegionFits(i, n)
          /\ \E value \in BOOLEAN :
                 Change(SetRegion(bitmap, i, value, n),
                        IF value THEN bits \cup (i .. i + n - 1) ELSE bits \ (i .. i + n - 1))

BitmapNext ==
    /\ vector # "fault"
    /\ \/ \E i \in BitNumbers : SetBit(i) \/ Immediate(i)
       \/ \E b \in Operands : Binary(b) \/ OrWith(b)
       \/ \E i \in BitNumbers, n \in 0 .. W : i + n - 1 <= MaxBit /\ Multiple(i, n)
       \/ BinaryOfNull

BitmapSpec == BitmapInit /\ [][BitmapNext]_bitmapVars

\* Searching and reading agree with the set, from every bit up to beyond
\* the end and for every width, also across the boundary of words; the search for
\* a clear bit does where a word at or after i has one.
QueriesAgree ==
    \A i \in 0 .. Len(bitmap) * W + 1 :
        /\ BitmapGet(bitmap, i) <=> i \in bits
        /\ NextSet(bitmap, i) = IF \A j \in bits : j < i THEN Infinity
                                ELSE CHOOSE j \in bits : j >= i /\ \A k \in bits : k >= i => k >= j
        /\ \A n \in 0 .. W : GetMultiple(bitmap, i, n) = {j \in 0 .. n - 1 : i + j \in bits}
        /\ FirstClear(bitmap) \notin bits /\ (i < FirstClear(bitmap) => i \in bits)
        /\ (i .. Len(bitmap) * W - 1) \subseteq bits \/ NextClear(bitmap, i) \notin bits

\* After any sequence of changes of bits, fields of bits, regions and whole
\* bitmaps, up to one that writes the length of a null vector, the words hold
\* exactly the set, across words and at their edges, and whatever is asked of
\* the bitmap is answered as the set would.
BitmapIsSet == Bits(bitmap) = bits /\ QueriesAgree

\* "Returns next clear bit at position >= i" (bitmap.h:440).
NextClearIsClear == \A i \in BitNumbers : ~ BitmapGet(bitmap, NextClear(bitmap, i))

=============================================================================
