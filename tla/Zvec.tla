---------------------------------- MODULE Zvec ----------------------------------
(***************************************************************************)
(* The compressed vectors of uclib/zvec.h and uclib/zvec.c: numbers written *)
(* with a code of variable length into a bitmap (module Bitmap) and read    *)
(* back, and the choice of the code that is the shortest for a histogram.   *)
(*                                                                         *)
(* A coding is a number, which stands for the sequence of its bits that are *)
(* set: code k of it has the numbers that follow those of the codes before, *)
(* as many as the k'th bit says.                                            *)
(***************************************************************************)
EXTENDS Bitmap

CONSTANTS Codings,          \* codings used, whose codes have at most W bits
          SignedZdata,      \* signed numbers written
          MaxZdata,         \* bound: numbers written
          Histograms,       \* counts of the numbers 0, 1, ...
          MaxCodingBits     \* 8: a chosen coding has no more codes

ASSUME ZvecAssumption ==
    /\ Codings \subseteq Nat /\ SignedZdata \subseteq Int
    /\ MaxZdata \in Nat /\ Histograms \subseteq Seq(Nat) /\ MaxCodingBits \in Nat

VARIABLES
    zvec,       \* coding, is_signed, the bitmap and zvec_n_bits
    zdata,      \* history: the numbers written
    histogram   \* history: what the coding of an empty vector was chosen for

zvecVars == <<zvec, zdata, histogram>>

BitsOf(x)  == {j \in 0 .. x : (x \div 2 ^ j) % 2 = 1}
NumberOf(s) == MapThenSumSet(LAMBDA j : 2 ^ j, s)
Ascending(s) == SetToSortSeq(s, <)

-----------------------------------------------------------------------------
(* One number *)

\* The codes of a coding as logarithms; and the numbers before code k.
Codes(coding) == Ascending(BitsOf(coding))
Before(codes, k) == MapThenSumSet(LAMBDA j : 2 ^ codes[j], 1 .. k - 1)

\* Wrong version of the next definition, for a mutation check only: the last
\* code ends like the others.
AllEnd(codes, k) == 1

\* All codes but the last end in a one.
EndBit(codes, k) == IF k = Len(codes) THEN 0 ELSE 1

\* zvec_encode: k - 1 zeros, a one, the number in its code, from the lowest bit.
ZvecEncode(coding, data) ==
    LET codes == Codes(coding)
        k == Min({j \in DOMAIN codes : data < Before(codes, j + 1)})
    IN  IF coding = 0 THEN [z |-> data, n |-> W]
        ELSE [z |-> ((data - Before(codes, k)) * 2 ^ EndBit(codes, k) + EndBit(codes, k)) * 2 ^ (k - 1),
              n |-> codes[k] + (k - 1) + EndBit(codes, k)]

\* zvec_decode: the first one ends the code, or there is none left but the last.
ZvecDecode(coding, z) ==
    LET codes == Codes(coding)
        k == Min({Len(codes)} \cup {j \in DOMAIN codes : (z \div 2 ^ (j - 1)) % 2 = 1})
        e == IF k < Len(codes) THEN 1 ELSE 0
    IN  IF coding = 0 THEN [data |-> z, n |-> W]
        ELSE [data |-> Before(codes, k) + ((z \div 2 ^ (k - 1 + e)) % (2 ^ codes[k])),
              n    |-> codes[k] + (k - 1) + e]

\* coding_max_n_bits
MaxBits(coding) == ZvecDecode(coding, 0).n

\* zvec_signed_to_unsigned, zvec_unsigned_to_signed
SignedToUnsigned(s) == IF s < 0 THEN -(2 * s + 1) ELSE 2 * s
UnsignedToSigned(u) == IF u % 2 = 1 THEN -(u \div 2) ELSE u \div 2

\* get_data, put_data
GetData(signed, x) == IF signed THEN SignedToUnsigned(x) ELSE x
PutData(signed, x) == IF signed THEN UnsignedToSigned(x) ELSE x

-----------------------------------------------------------------------------
(* Choosing a coding *)

\* zvec_coding_bits, with count[i] of the data below i: codes that have no data
\* that those before them had not end the sum.
CodingBits(coding, count) ==
    LET codes == Codes(coding)
        UpTo(k) == IF k = 0 THEN 0
                   ELSE LET i == Before(codes, k + 1) IN count[IF i > Len(count) THEN Len(count) ELSE i]
        empty == {k \in DOMAIN codes : UpTo(k) = UpTo(k - 1)}
        used  == {k \in DOMAIN codes : \A j \in empty : k < j}
    IN  MapThenSumSet(LAMBDA k : (UpTo(k) - UpTo(k - 1)) * (k - 1 + EndBit(codes, k) + codes[k]), used)

\* _zvec_coding_from_histogram, for numbers up to the histogram's length:
\* codings that reach so far are tried by the number of their codes and in
\* ascending order, and the first with the fewest bits is kept.
CodingChosen(h) ==
    LET count == [i \in DOMAIN h |-> MapThenSumSet(LAMBDA j : h[j], 1 .. i)]
        reach == Len(h) .. 2 ^ (CHOOSE l \in 0 .. 2 * Len(h) : 2 ^ l >= 2 * Len(h)
                                  /\ \A m \in 0 .. l - 1 : 2 ^ m < 2 * Len(h)) - 1
        tried == {c \in reach : Len(Codes(c)) <= MaxCodingBits}
        bits  == [c \in tried |-> CodingBits(c, count)]
        least == {c \in tried : \A d \in tried : bits[c] <= bits[d]}
    IN  CHOOSE c \in least : \A d \in least :
            Len(Codes(c)) < Len(Codes(d)) \/ (Len(Codes(c)) = Len(Codes(d)) /\ c <= d)

-----------------------------------------------------------------------------
(* Vectors *)

\* What fits a coding; zero stands for all of a word.
Encodable(coding, signed) ==
    LET most == IF coding = 0 THEN 2 ^ W - 1 ELSE coding - 1
    IN  IF signed THEN {s \in SignedZdata : SignedToUnsigned(s) <= most} ELSE 0 .. most

ZvecInit ==
    /\ zvec \in [coding : Codings, signed : BOOLEAN, bitmap : {<<>>}, n : {0}]
    /\ zdata = <<>> /\ histogram = <<>>

\* zvec_encode_u8 and its like, one number at a time.
ZvecAdd(x) ==
    LET code == ZvecEncode(zvec.coding, GetData(zvec.signed, x))
    IN  /\ Len(zdata) < MaxZdata /\ zdata' = Append(zdata, x) /\ histogram' = <<>>
        /\ zvec' = [zvec EXCEPT !.bitmap = SetMultiple(@, zvec.n, BitsOf(code.z), code.n),
                                !.n = @ + code.n]

\* zvec_coding_from_histogram, for a vector that has nothing yet.
ZvecChoose(h) ==
    /\ zdata = <<>> /\ histogram = <<>> /\ histogram' = h
    /\ zvec' = [zvec EXCEPT !.coding = CodingChosen(h)] /\ UNCHANGED zdata

ZvecNext ==
    \/ zvec.coding \in Codings /\ \E x \in Encodable(zvec.coding, zvec.signed) : ZvecAdd(x)
    \/ \E h \in Histograms : ZvecChoose(h)

ZvecSpec == ZvecInit /\ [][ZvecNext]_zvecVars

\* zvec_decode_u8 and its like: n numbers, each read in as many bits as any
\* may have, and the number of bits they took.
ZvecRead(n) ==
    LET Next(r, j) ==
            LET z == GetMultiple(zvec.bitmap, r.i, MaxBits(zvec.coding))
                d == ZvecDecode(zvec.coding, NumberOf(z))
            IN  [i |-> r.i + d.n, data |-> Append(r.data, PutData(zvec.signed, d.data))]
    IN  FoldLeft(Next, [i |-> 0, data |-> <<>>], [j \in 1 .. n |-> j])

-----------------------------------------------------------------------------
(* Properties *)

\* The bits the numbers of a histogram take in a coding.
BitsTaken(coding, h) == MapThenSumSet(LAMBDA i : h[i] * ZvecEncode(coding, i - 1).n, DOMAIN h)

\* What was written is read back, in as many bits, wherever its codes cross
\* the words of the bitmap; but negative numbers come back one too large.  And
\* no coding takes fewer bits for a histogram than the chosen one, if every
\* number was counted (numbers never seen hide those behind them).
ZvecReadsBack ==
    /\ LET read == ZvecRead(Len(zdata))
       IN  read.i = zvec.n /\ \A j \in DOMAIN zdata : zdata[j] >= 0 => read.data[j] = zdata[j]
    /\ histogram # <<>> /\ 0 \notin {histogram[i] : i \in DOMAIN histogram} =>
           \A c \in Len(histogram) .. 4 * Len(histogram) :
               BitsTaken(zvec.coding, histogram) <= BitsTaken(c, histogram)

=============================================================================
