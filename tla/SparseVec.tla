-------------------------------- MODULE SparseVec --------------------------------
(***************************************************************************)
(* The sparse vectors of uclib/sparse_vec.h: indices from a large range, of *)
(* which only those that were validated have an element.  Where an element  *)
(* lies is counted: the members in the words before, kept per word, and the *)
(* members below it in its own word.                                        *)
(***************************************************************************)
EXTENDS Bitmap

CONSTANT SparseWords    \* words of the bitmap of members

ASSUME SparseVecAssumption == SparseWords \in Nat /\ \E n \in 0 .. SparseWords : SparseWords = 2 ^ n

VARIABLES
    sparse,     \* is_member_bitmap, member_counts, and the elements
    validated   \* history: the indices that callers asked for

sparseVars == <<sparse, validated>>

SparseIndices == 0 .. SparseWords * W - 1
Invalid == 0    \* SPARSE_VEC_INVALID_INDEX

\* sparse_vec_new: the element at index 0 is the invalid one.
SparseNew ==
    [members |-> [k \in 1 .. SparseWords |-> {}], counts |-> [k \in 1 .. SparseWords |-> 0],
     vec |-> <<Infinity>>]

SparseInit == sparse = SparseNew /\ validated = {}

IsMember(v, s) == BitmapGet(v.members, s)
Mask(v, s) == {p \in Word(v.members, s \div W) : p < s % W}
Below(v, s) == v.counts[s \div W + 1] + Cardinality(Mask(v, s))

\* sparse_vec_index
SparseIndex(v, s) == IF IsMember(v, s) THEN 1 + Below(v, s) ELSE Invalid

\* sparse_vec_index2 takes each mask to have at most one bit, and corrects both
\* counts when one of them has more.
SparseIndex2(v, s, t) ==
    LET Guess(x) == IF Mask(v, x) = {} THEN 0 ELSE 1
        wrong    == Cardinality(Mask(v, s)) > 1 \/ Cardinality(Mask(v, t)) > 1
        Index(x) == v.counts[x \div W + 1] + Guess(x)
                        + (IF wrong THEN Cardinality(Mask(v, x)) - Guess(x) ELSE 0)
    IN  [x \in {s, t} |-> IF IsMember(v, x) THEN 1 + Index(x) ELSE Invalid]

\* A wrong version of the next definition, for a mutation check only: the
\* members of the index's own word are counted as well.
CountedFromOwn(v, s) ==
    [k \in 1 .. SparseWords |-> v.counts[k] + (IF k >= s \div W + 1 THEN 1 ELSE 0)]

\* sparse_vec_index_internal: one member more before each of the later words.
Counted(v, s) ==
    [k \in 1 .. SparseWords |-> v.counts[k] + (IF k > s \div W + 1 THEN 1 ELSE 0)]

\* sparse_vec_validate; a caller writes into the element that is made, here the
\* index that it is for.
SparseValidate(s) ==
    /\ validated' = validated \cup {s}
    /\ sparse' = IF IsMember(sparse, s) THEN sparse
                 ELSE [members |-> Ori(sparse.members, s), counts |-> Counted(sparse, s),
                       vec |-> InsertAt(sparse.vec, 2 + Below(sparse, s), s)]

SparseNext == \E s \in SparseIndices : SparseValidate(s)

SparseSpec == SparseInit /\ [][SparseNext]_sparseVars

\* In whatever order indices were validated, and though every insertion moves
\* the elements behind it: each validated index finds its own element, others
\* find the invalid one, and looking for two at once finds the same, however
\* many members their words have.
SparseFindsOwn ==
    /\ Len(sparse.vec) = 1 + Cardinality(validated)
    /\ \A s \in SparseIndices :
           /\ IF s \in validated THEN {j \in DOMAIN sparse.vec : sparse.vec[j] = s} = {1 + SparseIndex(sparse, s)}
              ELSE SparseIndex(sparse, s) = Invalid
           /\ \A t \in validated :
                  SparseIndex2(sparse, s, t) = [x \in {s, t} |-> SparseIndex(sparse, x)]

=============================================================================
