---------------------------------- MODULE Fifo ----------------------------------
(***************************************************************************)
(* The growing ring buffer of uclib/fifo.h and uclib/fifo.c.               *)
(*                                                                         *)
(* A fifo is a vector of len elements and a header with two indices.  An   *)
(* empty fifo has tail = head; a full one is told apart by an out of range *)
(* tail, head + len.  The null pointer and the fifo that clib_fifo_reset   *)
(* leaves both have len = 0 and behave alike.                              *)
(***************************************************************************)
EXTENDS Integers, Sequences

CONSTANTS Elems,      \* what the vector holds
          Zero,       \* what _clib_fifo_resize fills empty space with
          PowersOfTwo, MaxLen, \* the lengths max_pow2 returns, and the largest
          MinLen,     \* the smallest vector allocated: 32 in the code
          MaxElts,    \* bound: elements queued at any time
          HeadSteps   \* the n_elts that clib_fifo_advance_head is called with

ASSUME FifoAssumption ==
    /\ Zero \notin Elems
    /\ MaxLen \in Nat
    /\ MinLen \in 1 .. MaxLen
    /\ MaxElts \in 1 .. MaxLen
    /\ HeadSteps \in SUBSET Nat

\* As of {2^k : k \in 0 .. 30}, with MaxLen = 2^30: lengths are u32, and the
\* mark of a full fifo, head + len, has to fit as well.
ASSUME PowersAssumption ==
    /\ PowersOfTwo \in SUBSET (1 .. MaxLen)
    /\ \A x \in 1 .. MaxLen : \E p \in PowersOfTwo : x <= p /\ p < 2 * x

VARIABLES
    fifo,     \* [head, tail, len, vec]: header and vector
    passed    \* history: elements last passed to or by an operation

vars == <<fifo, passed>>

Ring(head, tail, len, vec) == [head |-> head, tail |-> tail, len |-> len, vec |-> vec]
NullFifo == Ring(0, 0, 0, [i \in {} |-> Zero])

Init == fifo = NullFifo /\ passed = <<>>

-----------------------------------------------------------------------------
(* Helpers *)

\* clib_fifo_elts and clib_fifo_free_elts
Elts(f) ==
    LET r == f.tail - f.head
    IN  IF r < 0 THEN r + f.len ELSE r
FreeElts(f) == f.len - Elts(f)

\* clib_fifo_elt_index, and the wrap of every other index computation
WrapAt(i, len) == IF i >= len THEN i - len ELSE i
EltIndex(f, i) == WrapAt(f.head + i, f.len)

\* Wrong versions of helpers below, for mutation checks of the properties:
\* none is used by the specification.
TailUnmarked(f, n)        == WrapAt(f.tail + n, f.len)
HeadOnly(f, n)            == Ring(WrapAt(f.head + n, f.len), f.tail, f.len, f.vec)
IndexNotUnwrapped(f, at)  == at - f.head

\* The smallest power of two that is at least x.
MaxPow2(x) == CHOOSE p \in PowersOfTwo : x <= p /\ p < 2 * x

\* _clib_fifo_resize: the elements move to the start of a larger vector.
NewLen(n) == IF n < MinLen THEN MinLen ELSE MaxPow2(n)
OldIndex(f, i) == IF f.head + Elts(f) >= f.len /\ i >= f.len - f.head
                  THEN i - (f.len - f.head)
                  ELSE f.head + i
Resized(f, n) ==
    LET elts == Elts(f)
        len  == NewLen(n + elts)
    IN  Ring(0, elts, len,
             [i \in 0 .. len - 1 |-> IF i < elts THEN f.vec[OldIndex(f, i)] ELSE Zero])

\* _clib_fifo_validate, and the start of _clib_fifo_advance_tail
Roomy(f, n) == IF FreeElts(f) < n THEN Resized(f, n) ELSE f

\* The tail n elements further (back when n < 0), and the mark of a full fifo.
NewTail(f, n) ==
    LET t == f.tail + n
    IN  IF FreeElts(f) = n THEN f.head + f.len
        ELSE IF t >= f.len THEN t - f.len
        ELSE IF t < 0 THEN t + f.len
        ELSE t
TailAdvanced(f, n) == Ring(f.head, NewTail(f, n), f.len, f.vec)

\* clib_fifo_advance_head: a full fifo first gets its tail back in range.
HeadAdvanced(f, n) ==
    Ring(WrapAt(f.head + n, f.len),
         IF f.tail = f.head + f.len THEN f.head ELSE f.tail,
         f.len, f.vec)

\* The two copies of clib_fifo_add: up to the vector's end, then its start.
Written(f, i, es) ==
    LET over   == i + Len(es) - f.len
        second == IF over < 0 THEN 0 ELSE over
        first  == Len(es) - second
    IN  Ring(f.head, f.tail, f.len,
             [j \in 0 .. f.len - 1 |->
                 IF j >= i /\ j < i + first THEN es[j - i + 1]
                 ELSE IF j < second THEN es[first + j + 1]
                 ELSE f.vec[j]])

\* clib_fifo_index_for_elt_index: the inverse of clib_fifo_elt_index.
IndexForElt(f, at) == IF at < f.head THEN at - f.head + f.len ELSE at - f.head

\* The elements, oldest first, as clib_fifo_foreach visits them.
Contents(f) == [i \in 1 .. Elts(f) |-> f.vec[EltIndex(f, i - 1)]]

-----------------------------------------------------------------------------
(* Operations *)

\* clib_fifo_add, clib_fifo_add1, clib_fifo_add2: n = Len(es) > 0 elements
\* are written from the tail that _clib_fifo_advance_tail returns.
Add(es) ==
    /\ Elts(fifo) + Len(es) <= MaxElts
    /\ LET f == Roomy(fifo, Len(es))
       IN  fifo' = Written(TailAdvanced(f, Len(es)), f.tail, es)
    /\ passed' = es

\* clib_fifo_advance_tail with a negative count: the last n leave.
TakeBack(n) ==
    /\ n <= Elts(fifo)
    /\ fifo' = TailAdvanced(fifo, - n)
    /\ UNCHANGED passed

\* clib_fifo_sub1, clib_fifo_sub2, clib_fifo_advance_head.
AdvanceHead(n) ==
    /\ fifo.len > 0
    /\ n <= Elts(fifo)
    /\ passed' = [i \in 1 .. n |-> fifo.vec[EltIndex(fifo, i - 1)]]
    /\ fifo' = HeadAdvanced(fifo, n)

\* clib_fifo_resize called directly, and clib_fifo_validate.
Resize(n) ==
    /\ Elts(fifo) + n <= MaxElts
    /\ fifo' = Resized(fifo, n)
    /\ UNCHANGED passed

Validate(n) ==
    /\ Elts(fifo) + n <= MaxElts
    /\ fifo' = Roomy(fifo, n)
    /\ UNCHANGED passed

\* clib_fifo_reset keeps the memory but forgets its length; clib_fifo_free.
Reset ==
    /\ fifo' = NullFifo
    /\ UNCHANGED passed

Next ==
    \/ \E n \in 1 .. MaxElts : \E es \in [1 .. n -> Elems] : Add(es)
    \/ \E n \in 1 .. MaxElts : TakeBack(n) \/ Resize(n) \/ Validate(n)
    \/ \E n \in HeadSteps : AdvanceHead(n)
    \/ Reset

Spec == Init /\ [][Next]_vars

-----------------------------------------------------------------------------
(* Properties *)

\* Header and vector fit together: the head is in range, and so is the tail
\* unless the fifo is full.
Sane(f) ==
    /\ f = Ring(f.head, f.tail, f.len, f.vec)
    /\ f.len \in 0 .. MaxLen
    /\ f.vec \in [0 .. f.len - 1 -> Elems \cup {Zero}]
    /\ f.head \in 0 .. f.len
    /\ f.len > 0 => f.head < f.len
    /\ f.tail \in Nat
    /\ f.tail < f.len \/ f.tail = f.head + f.len

\* The type invariant of the fifo and of the history.
TypeOK ==
    /\ Sane(fifo)
    /\ Elts(fifo) <= MaxElts
    /\ passed \in Seq(Elems \cup {Zero})

\* clib_fifo_index_for_elt_index finds the place in the queue of any
\* element that clib_fifo_elt_index found, wrapped or not.
IndexRoundTrip ==
    \A i \in 0 .. Elts(fifo) - 1 : IndexForElt(fifo, EltIndex(fifo, i)) = i

Q == INSTANCE Queue WITH queue <- Contents(fifo)

\* The ring buffer, through every wrap, full fifo, growth and take back, is
\* the "general first in/first out queue" of fifo.c: the elements its callers
\* added come back once each and in order.
ImplementsQueue == Q!QueueSpec

=============================================================================
