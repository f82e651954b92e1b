--------------------------------- MODULE Bitmap ---------------------------------
(***************************************************************************)
(* The bitmaps of uclib/bitmap.h: vectors of words, a bit beyond the end    *)
(* being clear.  A word is the set of the positions of its bits that are    *)
(* set; its width is a parameter.                                           *)
(***************************************************************************)
EXTENDS Naturals, Integers, Sequences, SequencesExt, FiniteSets, FiniteSetsExt

CONSTANT W    \* BITS (uword)

ASSUME BitmapAssumption == W \in Nat \ {0}

Infinity == -1      \* ~0

Positions == 0 .. W - 1
Words(b) == 0 .. Len(b) - 1
Word(b, k) == IF k < Len(b) THEN b[k + 1] ELSE {}
Bits(b) == {i \in 0 .. Len(b) * W - 1 : i % W \in Word(b, i \div W)}

\* clib_bitmap_vec_validate: word k exists.
WithWord(b, k) == IF k < Len(b) THEN b ELSE b \o [j \in 1 .. k + 1 - Len(b) |-> {}]

\* _clib_bitmap_remove_trailing_zeros
Trimmed(b) == SubSeq(b, 1, Max({0} \cup {k \in DOMAIN b : b[k] # {}}))

\* clib_bitmap_get
BitmapGet(b, i) == i % W \in Word(b, i \div W)

\* A word is replaced; a word that became zero may end the vector sooner.
Put(b, k, word) == [WithWord(b, k) EXCEPT ![k + 1] = word]
PutTrimmed(b, k, word) == IF word = {} THEN Trimmed(Put(b, k, word)) ELSE Put(b, k, word)

\* clib_bitmap_set
BitmapSet(b, i, value) ==
    LET k == i \div W
    IN  IF ~ value /\ k >= Len(b) THEN b
        ELSE PutTrimmed(b, k, IF value THEN Word(b, k) \cup {i % W} ELSE Word(b, k) \ {i % W})

\* clib_bitmap_ori, _andnoti, _xori and, for the one word it looks at, _andi.
Ori(b, i)     == Put(b, i \div W, Word(b, i \div W) \cup {i % W})
Andnoti(b, i) == PutTrimmed(b, i \div W, Word(b, i \div W) \ {i % W})
Xori(b, i)    == PutTrimmed(b, i \div W, SymDiff(Word(b, i \div W), {i % W}))
Andi(b, i)    == PutTrimmed(b, i \div W, Word(b, i \div W) \cap {i % W})

\* The functions of two bitmaps, a being overwritten; all but or leave out
\* the zeros at the end, and for that write the length of a, which then must not
\* be a null vector that b leaves as it is.
Alu(a, b, Op(_, _)) ==
    LET wide == IF b = <<>> THEN a ELSE WithWord(a, Len(b) - 1)
    IN  [k \in DOMAIN wide |-> Op(wide[k], Word(b, k - 1))]
AndWord(x, y) == x \cap y
AndnotWord(x, y) == x \ y
OrWord(x, y) == x \cup y
XorWord(x, y) == SymDiff(x, y)
And(a, b)    == Trimmed(Alu(a, b, AndWord))
Andnot(a, b) == Trimmed(Alu(a, b, AndnotWord))
Or(a, b)     == Alu(a, b, OrWord)
Xor(a, b)    == Trimmed(Alu(a, b, XorWord))

\* clib_bitmap_get_multiple: n <= W bits from bit i on, numbered from 0; the
\* first word's, and those that lie in the word after it.
GetMultiple(b, i, n) ==
    LET k == i \div W
        o == i % W
    IN  {j \in 0 .. n - 1 : o + j < W /\ o + j \in Word(b, k)}
            \cup {j \in W - o .. n - 1 : o + j - W \in Word(b, k + 1)}

\* A wrong version of the next definition, for a mutation check only: the
\* second word keeps what it had.
NotCleared(b, i, value, n) ==
    LET set == {i + j : j \in {v \in value : v < n}}
        k   == i \div W
        one == Put(b, k, (Word(b, k) \ (i % W .. (i % W) + n - 1)) \cup {j % W : j \in {x \in set : x \div W = k}})
    IN  Put(one, k + 1, Word(b, k + 1) \cup {j % W : j \in {x \in set : x \div W = k + 1}})

\* clib_bitmap_set_multiple
SetMultiple(b, i, value, n) ==
    LET k     == i \div W
        o     == i % W
        wide  == WithWord(b, (i + n) \div W)
        first == (Word(wide, k) \ {o + j : j \in 0 .. n - 1})
                     \cup {o + j : j \in {v \in value : v < n /\ o + v < W}}
        next  == (Word(wide, k + 1) \ (0 .. n - (W - o) - 1))
                     \cup {o + j - W : j \in {v \in value : v < n /\ o + v >= W}}
        one   == Put(wide, k, first)
    IN  IF o + n > W /\ k + 1 < Len(wide) THEN Put(one, k + 1, next) ELSE one

\* clib_bitmap_set_region, for regions that end in the word after the first or
\* before: a longer one shifts by a word's width or more in its last word.
SetRegion(b, i, value, n) ==
    LET k     == i \div W
        wide  == WithWord(b, (i + n) \div W)
        Changed(word, mask) == IF value THEN word \cup mask ELSE word \ mask
        first == Put(wide, k, Changed(Word(wide, k), {p \in i % W .. (i % W) + n - 1 : p < W}))
    IN  IF k + 1 = (i + n) \div W
        THEN Put(first, k + 1, Changed(Word(wide, k + 1), 0 .. n - (W - (i % W)) - 1))
        ELSE first
RegionFits(i, n) == n - (W - (i % W)) < W

\* The first position at or after i that is in the words given, or otherwise.
SearchFrom(word(_), n, i, otherwise) ==
    LET k     == i \div W
        here  == {p \in word(k) : p >= i % W}
        later == {j \in k + 1 .. n - 1 : word(j) # {}}
    IN  IF k >= n THEN otherwise
        ELSE IF here # {} THEN k * W + Min(here)
        ELSE IF later = {} THEN otherwise
        ELSE Min(later) * W + Min(word(Min(later)))

\* clib_bitmap_next_set, clib_bitmap_first_set and clib_bitmap_foreach
NextSet(b, i) == LET In(k) == Word(b, k) IN SearchFrom(In, Len(b), i, Infinity)

\* clib_bitmap_first_clear: behind the last word when all words are full.
FirstClear(b) ==
    LET Out(k) == Positions \ Word(b, k) IN SearchFrom(Out, Len(b), 0, Len(b) * W)

\* clib_bitmap_next_clear: i itself when all words from i on are full.
NextClear(b, i) ==
    LET Out(k) == Positions \ Word(b, k) IN SearchFrom(Out, Len(b), i, i)

=============================================================================
