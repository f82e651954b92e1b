------------------------------ MODULE ContainerProofs ------------------------------
(***************************************************************************)
(* What holds of the containers for every value of their constants: the     *)
(* fifo implements the queue; a hash table is the map that was written,     *)
(* and hash_next visits it; a table with keys of its own is one too, and    *)
(* loses no slot of their memory; what is read of the event log are the     *)
(* newest events, and the event of a trigger is kept.                       *)
(***************************************************************************)
EXTENDS Fifo, Mhash, Elog, Numbers, SequenceTheorems, FiniteSetTheorems, TLAPS

Content == Elems \cup {Zero}

-----------------------------------------------------------------------------
(* Indices and lengths *)

\* The number of elements computed from the header lies in the vector.
LEMMA EltsInRange ==
    ASSUME NEW f, Sane(f)
    PROVE  /\ Elts(f) \in 0 .. f.len
           /\ FreeElts(f) \in 0 .. f.len
           /\ f.tail = f.head + f.len => Elts(f) = f.len
           /\ f.tail < f.len => f.tail = WrapAt(f.head + Elts(f), f.len) /\ Elts(f) < f.len
BY FifoAssumption DEF Sane, Elts, FreeElts, WrapAt

\* clib_fifo_elt_index stays inside the vector.
LEMMA IndexInRange ==
    ASSUME NEW f, Sane(f), NEW i \in 0 .. Elts(f) - 1
    PROVE  EltIndex(f, i) \in 0 .. f.len - 1
<1>1. Elts(f) \in 0 .. f.len BY EltsInRange
<1>2. f.len \in Nat /\ f.head \in Nat BY FifoAssumption DEF Sane
<1>3. f.head < f.len BY <1>1, <1>2 DEF Sane
<1> QED BY <1>1, <1>2, <1>3 DEF EltIndex, WrapAt

\* max_pow2 never rounds down, and never past the largest length.
LEMMA PowerAtLeast ==
    ASSUME NEW x \in 1 .. MaxLen
    PROVE  MaxPow2(x) \in x .. MaxLen
<1>1. MaxPow2(x) \in PowersOfTwo /\ x <= MaxPow2(x)
    BY PowersAssumption DEF MaxPow2
<1>2. \A p \in PowersOfTwo : p \in 1 .. MaxLen
    BY PowersAssumption
<1> QED BY <1>1, <1>2, FifoAssumption

\* A new vector is never too short.
LEMMA NewLenAtLeast ==
    ASSUME NEW n \in 0 .. MaxLen
    PROVE  NewLen(n) \in 1 .. MaxLen /\ NewLen(n) >= n
<1>1. CASE n < MinLen BY <1>1, FifoAssumption DEF NewLen
<1>2. CASE n >= MinLen
    <2>1. n \in 1 .. MaxLen BY <1>2, FifoAssumption
    <2>2. MaxPow2(n) \in n .. MaxLen BY <2>1, PowerAtLeast
    <2> QED BY <2>1, <2>2, <1>2, FifoAssumption DEF NewLen
<1> QED BY <1>1, <1>2, FifoAssumption

-----------------------------------------------------------------------------
(* Growth *)

\* _clib_fifo_resize makes room and keeps every element in its place in the
\* queue, even when the old vector is wrapped.
LEMMA ResizeKeeps ==
    ASSUME NEW f, Sane(f), NEW n \in Nat, Elts(f) + n <= MaxLen
    PROVE  /\ Sane(Resized(f, n))
           /\ Elts(Resized(f, n)) = Elts(f)
           /\ FreeElts(Resized(f, n)) >= n
           /\ Contents(Resized(f, n)) = Contents(f)
<1> DEFINE e == Elts(f)
           g == Resized(f, n)
           len == NewLen(n + e)
<1>1. e \in 0 .. f.len /\ f.len \in 0 .. MaxLen /\ f.head \in Nat
    BY EltsInRange DEF Sane
<1>2. len \in 1 .. MaxLen /\ len >= n + e
    BY <1>1, NewLenAtLeast
<1>3. /\ g.head = 0 /\ g.tail = e /\ g.len = len
      /\ g.vec = [i \in 0 .. len - 1 |-> IF i < e THEN f.vec[OldIndex(f, i)] ELSE Zero]
      /\ g = Ring(g.head, g.tail, g.len, g.vec)
    BY DEF Resized, Ring
<1>4. ASSUME NEW i \in 0 .. e - 1
      PROVE  OldIndex(f, i) = EltIndex(f, i) /\ OldIndex(f, i) \in 0 .. f.len - 1
    <2>1. EltIndex(f, i) \in 0 .. f.len - 1 BY IndexInRange
    <2>2. f.head < f.len BY <1>1 DEF Sane
    <2>3. OldIndex(f, i) = EltIndex(f, i)
        BY <1>1, <2>2, FifoAssumption DEF OldIndex, EltIndex, WrapAt
    <2> QED BY <2>1, <2>3
<1>5. g.vec \in [0 .. len - 1 -> Content]
    <2>1. \A i \in 0 .. e - 1 : f.vec[OldIndex(f, i)] \in Content
        BY <1>4 DEF Sane, Content
    <2> HIDE DEF e, g, len
    <2> QED BY <2>1, <1>1, <1>2, <1>3 DEF Content
<1> HIDE DEF len, g
<1>6. Sane(g)
    BY <1>1, <1>2, <1>3, <1>5 DEF Sane, Content
<1>7. Elts(g) = e
    BY <1>1, <1>2, <1>3 DEF Elts
<1>8. FreeElts(g) >= n
    BY <1>1, <1>2, <1>3, <1>7 DEF FreeElts
<1>9. ASSUME NEW i \in 1 .. e PROVE g.vec[EltIndex(g, i - 1)] = f.vec[EltIndex(f, i - 1)]
    <2>1. i - 1 \in 0 .. e - 1 /\ i - 1 \in 0 .. len - 1
        BY <1>1, <1>2
    <2>2. EltIndex(g, i - 1) = i - 1
        BY <2>1, <1>2, <1>3 DEF EltIndex, WrapAt
    <2>3. g.vec[i - 1] = f.vec[OldIndex(f, i - 1)]
        BY <2>1, <1>1, <1>2, <1>3
    <2> QED BY <2>1, <2>2, <2>3, <1>4
<1>10. Contents(g) = Contents(f)
    BY <1>7, <1>9 DEF Contents
<1> QED BY <1>6, <1>7, <1>8, <1>10 DEF g

\* So does asking for room that may be there already.
LEMMA RoomyKeeps ==
    ASSUME NEW f, Sane(f), NEW n \in Nat, Elts(f) + n <= MaxLen
    PROVE  /\ Sane(Roomy(f, n))
           /\ Elts(Roomy(f, n)) = Elts(f)
           /\ FreeElts(Roomy(f, n)) >= n
           /\ Contents(Roomy(f, n)) = Contents(f)
<1>1. FreeElts(f) \in 0 .. f.len /\ f.len \in Nat BY EltsInRange DEF Sane
<1> QED BY <1>1, ResizeKeeps DEF Roomy

-----------------------------------------------------------------------------
(* The contents as a sequence *)

\* clib_fifo_foreach visits Elts elements, oldest first.
LEMMA ContentsSeq ==
    ASSUME NEW f, Sane(f)
    PROVE  /\ Contents(f) \in Seq(Content)
           /\ Len(Contents(f)) = Elts(f)
           /\ \A i \in 1 .. Elts(f) : Contents(f)[i] = f.vec[EltIndex(f, i - 1)]
<1>1. Elts(f) \in Nat BY EltsInRange DEF Sane
<1>2. \A i \in 1 .. Elts(f) : EltIndex(f, i - 1) \in 0 .. f.len - 1
    <2> TAKE i \in 1 .. Elts(f)
    <2>1. i - 1 \in 0 .. Elts(f) - 1 BY <1>1
    <2> QED BY <2>1, IndexInRange
<1>3. Contents(f) \in [1 .. Elts(f) -> Content]
    BY <1>1, <1>2 DEF Contents, Sane, Content
<1>4. Contents(f) \in Seq(Content)
    BY <1>1, <1>3, SeqDef
<1>5. DOMAIN Contents(f) = 1 .. Elts(f) BY DEF Contents
<1>6. Len(Contents(f)) = Elts(f)
    BY <1>1, <1>4, <1>5, LenProperties
<1> QED BY <1>4, <1>6 DEF Contents

\* Two fifos with as many elements and the same element in each place.
LEMMA SameContents ==
    ASSUME NEW f, Sane(f), NEW s \in Seq(Content), Len(s) = Elts(f),
           \A i \in 1 .. Elts(f) : f.vec[EltIndex(f, i - 1)] = s[i]
    PROVE  Contents(f) = s
BY ContentsSeq, SeqEqual

-----------------------------------------------------------------------------
(* Adding *)

\* Room makes the tail a real index: the end of the contents.
LEMMA TailInRange ==
    ASSUME NEW f, Sane(f), FreeElts(f) > 0
    PROVE  f.tail \in 0 .. f.len - 1 /\ f.tail = WrapAt(f.head + Elts(f), f.len)
<1>1. f.len \in Nat /\ Elts(f) \in 0 .. f.len BY EltsInRange DEF Sane
<1>2. f.tail # f.head + f.len BY <1>1, EltsInRange DEF FreeElts
<1> QED BY <1>1, <1>2, EltsInRange DEF Sane

\* A vector of l with e elements from head h has its tail t at a real index,
\* and room for n more.
Room(l, h, e, n, t) ==
    /\ l \in Nat \ {0} /\ h \in 0 .. l - 1 /\ t \in 0 .. l - 1
    /\ e \in 0 .. l - 1 /\ n \in 1 .. l - e
    /\ t = WrapAt(h + e, l)

\* How many elements the second copy of clib_fifo_add moves.
Over(l, n, t) == IF t + n - l < 0 THEN 0 ELSE t + n - l

\* What the two copies do: they miss the old elements and hit each of the n
\* new places.
Missed(l, h, e, t, first, second) ==
    \A k \in 0 .. e - 1 :
        /\ WrapAt(h + k, l) < t \/ WrapAt(h + k, l) >= t + first
        /\ WrapAt(h + k, l) >= second
Hit(l, h, e, n, t, first, second) ==
    \A m \in 0 .. n - 1 :
        \/ /\ WrapAt(h + (e + m), l) = t + m
           /\ m < first /\ t + m \in 0 .. l - 1
        \/ /\ WrapAt(h + (e + m), l) = m - first
           /\ m - first \in 0 .. second - 1
           /\ m - first < t /\ m - first < l

LEMMA RingArithmetic ==
    ASSUME NEW l \in Int, NEW h \in Int, NEW e \in Int, NEW n \in Int, NEW t \in Int,
           Room(l, h, e, n, t)
    PROVE  /\ Over(l, n, t) \in 0 .. n /\ n - Over(l, n, t) \in 0 .. n
           /\ t + (n - Over(l, n, t)) <= l
           /\ Missed(l, h, e, t, n - Over(l, n, t), Over(l, n, t))
           /\ Hit(l, h, e, n, t, n - Over(l, n, t), Over(l, n, t))
BY DEF WrapAt, Room, Over, Missed, Hit

\* The mark of a full fifo is set exactly when the last place is filled.
MovedTail(l, h, e, n, t) ==
    IF l - e = n THEN h + l
    ELSE IF t + n >= l THEN (t + n) - l
    ELSE IF t + n < 0 THEN t + n + l
    ELSE t + n
Span(h, t, l) == IF t - h < 0 THEN t - h + l ELSE t - h
LEMMA TailArithmetic ==
    ASSUME NEW l \in Int, NEW h \in Int, NEW e \in Int, NEW n \in Int, NEW t \in Int,
           Room(l, h, e, n, t)
    PROVE  /\ MovedTail(l, h, e, n, t) \in Nat
           /\ MovedTail(l, h, e, n, t) < l \/ MovedTail(l, h, e, n, t) = h + l
           /\ Span(h, MovedTail(l, h, e, n, t), l) = e + n
BY DEF WrapAt, Room, MovedTail, Span

LEMMA TailMoves ==
    ASSUME NEW l, NEW h, NEW e, NEW n, NEW t, Room(l, h, e, n, t)
    PROVE  /\ MovedTail(l, h, e, n, t) \in Nat
           /\ MovedTail(l, h, e, n, t) < l \/ MovedTail(l, h, e, n, t) = h + l
           /\ Span(h, MovedTail(l, h, e, n, t), l) = e + n
<1>1. l \in Int /\ h \in Int /\ e \in Int /\ n \in Int /\ t \in Int BY DEF Room
<1> QED BY <1>1, TailArithmetic

\* Where _clib_fifo_advance_tail puts the tail, with its tests in order.
LEMMA NewTailCases ==
    ASSUME NEW f, NEW n
    PROVE  NewTail(f, n) = (IF f.len - Elts(f) = n THEN f.head + f.len
                            ELSE IF f.tail + n >= f.len THEN (f.tail + n) - f.len
                            ELSE IF f.tail + n < 0 THEN f.tail + n + f.len
                            ELSE f.tail + n)
BY DEF NewTail, FreeElts

\* The two copies of clib_fifo_add fill the n places behind the tail, across
\* the end of the vector, and spare every element in the queue.
LEMMA AddAppends ==
    ASSUME NEW f, Sane(f), NEW es \in Seq(Elems), Len(es) > 0, FreeElts(f) >= Len(es)
    PROVE  LET g == Written(TailAdvanced(f, Len(es)), f.tail, es)
           IN  /\ Sane(g)
               /\ Elts(g) = Elts(f) + Len(es)
               /\ Contents(g) = Contents(f) \o es
<1> DEFINE n == Len(es)
           e == Elts(f)
           len == f.len
           over == f.tail + n - len
           second == IF over < 0 THEN 0 ELSE over
           first == n - second
           g == Written(TailAdvanced(f, n), f.tail, es)
<1>1. n \in Nat \ {0} /\ len \in Nat \ {0} /\ e \in 0 .. len /\ f.head \in 0 .. len - 1
      /\ e + n <= len
    <2>1. n \in Nat BY LenProperties
    <2>2. len \in Nat /\ e \in 0 .. len BY EltsInRange DEF Sane
    <2>3. e + n <= len BY <2>1, <2>2 DEF FreeElts
    <2> QED BY <2>1, <2>2, <2>3 DEF Sane
<1>2. f.tail \in 0 .. len - 1 /\ f.tail = WrapAt(f.head + e, len)
    BY <1>1, TailInRange DEF FreeElts
<1>3. /\ g.head = f.head /\ g.tail = NewTail(f, n) /\ g.len = len
      /\ g.vec = [j \in 0 .. len - 1 |->
                     IF j >= f.tail /\ j < f.tail + first THEN es[j - f.tail + 1]
                     ELSE IF j < second THEN es[first + j + 1]
                     ELSE f.vec[j]]
      /\ g = Ring(g.head, g.tail, g.len, g.vec)
    BY DEF Written, TailAdvanced, Ring
<1>v. ASSUME NEW j \in 0 .. len - 1
      PROVE  g.vec[j] = IF j >= f.tail /\ j < f.tail + first THEN es[j - f.tail + 1]
                        ELSE IF j < second THEN es[first + j + 1]
                        ELSE f.vec[j]
    BY <1>3, Zenon
<1>4. \A i \in 1 .. n : es[i] \in Content
    BY ElementOfSeq DEF Content, n
<1>5. e \in 0 .. len - 1 /\ n \in 1 .. len - e
    BY <1>1
<1>6. first = n - second /\ second = (IF f.tail + n - len < 0 THEN 0 ELSE f.tail + n - len)
      /\ second \in Int /\ first \in Int
    BY <1>1, <1>2
<1>7. \A k : EltIndex(f, k) = WrapAt(f.head + k, len) /\ EltIndex(g, k) = WrapAt(f.head + k, len)
    BY <1>3 DEF EltIndex, len
<1>8. NewTail(f, n) = (IF len - e = n THEN f.head + len
                       ELSE IF f.tail + n >= len THEN (f.tail + n) - len
                       ELSE IF f.tail + n < 0 THEN f.tail + n + len
                       ELSE f.tail + n)
    BY NewTailCases
<1>9. Elts(g) = Span(f.head, g.tail, len)
    BY <1>3 DEF Elts, Span
<1> HIDE DEF g, first, second, over, n, e, len
<1>t. len \in Int /\ f.head \in Int /\ e \in Int /\ n \in Int /\ f.tail \in Int
    BY <1>1, <1>2
<1>r. Room(len, f.head, e, n, f.tail)
    BY <1>1, <1>2, <1>5 DEF Room
<1>10. /\ g.tail \in Nat
       /\ g.tail < len \/ g.tail = f.head + len
       /\ Elts(g) = e + n
    <2>1. /\ g.tail \in Nat
          /\ g.tail < len \/ g.tail = f.head + len
          /\ Span(f.head, g.tail, len) = e + n
        <3>1. g.tail = MovedTail(len, f.head, e, n, f.tail) BY <1>3, <1>8 DEF MovedTail
        <3>2. /\ MovedTail(len, f.head, e, n, f.tail) \in Nat
              /\ MovedTail(len, f.head, e, n, f.tail) < len
                    \/ MovedTail(len, f.head, e, n, f.tail) = f.head + len
            BY <1>r, TailMoves
        <3>3. Span(f.head, MovedTail(len, f.head, e, n, f.tail), len) = e + n
            BY <1>r, TailMoves
        <3> QED BY <3>1, <3>2, <3>3
    <2> QED BY <2>1, <1>9
<1>11. /\ second \in 0 .. n /\ first \in 0 .. n /\ f.tail + first <= len
       /\ \A k \in 0 .. e - 1 :
             /\ EltIndex(f, k) < f.tail \/ EltIndex(f, k) >= f.tail + first
             /\ EltIndex(f, k) >= second
       /\ \A m \in 0 .. n - 1 :
             \/ /\ EltIndex(g, e + m) = f.tail + m
                /\ m < first /\ f.tail + m \in 0 .. len - 1
             \/ /\ EltIndex(g, e + m) = m - first
                /\ m - first \in 0 .. second - 1
                /\ m - first < f.tail /\ m - first < len
    <2>1. second = Over(len, n, f.tail) /\ first = n - Over(len, n, f.tail)
        BY <1>6 DEF Over
    <2>2. /\ Over(len, n, f.tail) \in 0 .. n /\ n - Over(len, n, f.tail) \in 0 .. n
          /\ f.tail + (n - Over(len, n, f.tail)) <= len
          /\ Missed(len, f.head, e, f.tail, n - Over(len, n, f.tail), Over(len, n, f.tail))
          /\ Hit(len, f.head, e, n, f.tail, n - Over(len, n, f.tail), Over(len, n, f.tail))
        BY <1>t, <1>r, RingArithmetic
    <2>3. /\ second \in 0 .. n /\ first \in 0 .. n /\ f.tail + first <= len
          /\ Missed(len, f.head, e, f.tail, first, second)
          /\ Hit(len, f.head, e, n, f.tail, first, second)
        BY <2>1, <2>2
    <2> QED BY <2>3, <1>7 DEF Missed, Hit
<1>b. second \in 0 .. n /\ first \in 0 .. n /\ f.tail + first <= len BY <1>11
<1>12. g.vec \in [0 .. len - 1 -> Content]
    <2> SUFFICES ASSUME NEW j \in 0 .. len - 1 PROVE g.vec[j] \in Content
        BY <1>3
    <2>1. CASE j >= f.tail /\ j < f.tail + first
        <3>1. j - f.tail + 1 \in 1 .. n BY <2>1, <1>1, <1>2, <1>b
        <3> QED BY <2>1, <3>1, <1>3, <1>4
    <2>2. CASE ~ (j >= f.tail /\ j < f.tail + first) /\ j < second
        <3>1. first + j + 1 \in 1 .. n
            <4>1. j \in Nat /\ j < second /\ first = n - second /\ n \in Nat /\ second \in Int /\ first >= 0
                BY <2>2, <1>1, <1>6, <1>b
            <4> QED BY <4>1
        <3> QED BY <2>2, <3>1, <1>3, <1>4
    <2>3. CASE ~ (j >= f.tail /\ j < f.tail + first) /\ ~ (j < second)
        BY <2>3, <1>3 DEF Sane, Content, len
    <2> QED BY <2>1, <2>2, <2>3
<1>13. Sane(g)
    BY <1>1, <1>3, <1>10, <1>12 DEF Sane, Content, len
<1>14. ASSUME NEW k \in 0 .. e - 1
       PROVE  g.vec[EltIndex(g, k)] = f.vec[EltIndex(f, k)]
    <2>1. EltIndex(g, k) = EltIndex(f, k) /\ EltIndex(f, k) \in 0 .. len - 1
        BY <1>7, IndexInRange DEF e, len
    <2> DEFINE p == EltIndex(f, k)
    <2>2. p \in 0 .. len - 1 /\ (p < f.tail \/ p >= f.tail + first) /\ p >= second
        BY <2>1, <1>11
    <2> HIDE DEF p
    <2>3. ~ (p >= f.tail /\ p < f.tail + first) /\ ~ (p < second)
        <3>1. p \in Int /\ f.tail \in Int /\ first \in Int /\ second \in Int
            BY <2>2, <1>1, <1>2, <1>6
        <3> QED BY <2>2, <3>1
    <2>4. g.vec[p] = f.vec[p] BY <2>2, <2>3, <1>v
    <2> QED BY <2>1, <2>4 DEF p
<1>15. ASSUME NEW m \in 0 .. n - 1
       PROVE  g.vec[EltIndex(g, e + m)] = es[m + 1]
    <2> DEFINE p == EltIndex(g, e + m)
    <2>1. CASE p = f.tail + m /\ m < first /\ f.tail + m \in 0 .. len - 1
        <3>1. g.vec[f.tail + m] = es[(f.tail + m) - f.tail + 1]
            <4>1. f.tail + m >= f.tail /\ f.tail + m < f.tail + first
                <5>1. f.tail \in Int /\ first \in Int /\ m \in Nat BY <1>1, <1>2, <1>6
                <5> HIDE DEF p
                <5> QED BY <2>1, <5>1
            <4> QED BY <4>1, <2>1, <1>v
        <3>2. (f.tail + m) - f.tail + 1 = m + 1 BY <1>1, <1>2
        <3> QED BY <2>1, <3>1, <3>2
    <2>2. CASE p = m - first /\ m - first \in 0 .. second - 1 /\ m - first < f.tail /\ m - first < len
        <3>1. g.vec[m - first] = es[first + (m - first) + 1]
            <4>1. m - first \in 0 .. len - 1 /\ ~ (m - first >= f.tail) /\ m - first < second
                <5>1. second \in Int /\ m \in Int /\ first \in Int BY <1>1, <1>6
                <5> HIDE DEF p
                <5> QED BY <2>2, <5>1, <1>t
            <4> QED BY <4>1, <1>v
        <3>2. first + (m - first) + 1 = m + 1 BY <1>6
        <3> QED BY <2>2, <3>1, <3>2
    <2> QED BY <2>1, <2>2, <1>11
<1>16. /\ Contents(f) \o es \in Seq(Content)
       /\ Len(Contents(f) \o es) = e + n
       /\ \A i \in 1 .. e + n : (Contents(f) \o es)[i] =
              IF i <= e THEN Contents(f)[i] ELSE es[i - e]
    <2>1. es \in Seq(Content) BY SeqMonotonic DEF Content
    <2>2. Contents(f) \in Seq(Content) /\ Len(Contents(f)) = e BY ContentsSeq DEF e
    <2> QED BY <2>1, <2>2, ConcatProperties DEF n
<1>17. ASSUME NEW i \in 1 .. e + n
       PROVE  g.vec[EltIndex(g, i - 1)] = (Contents(f) \o es)[i]
    <2>1. CASE i <= e
        <3>1. i - 1 \in 0 .. e - 1 /\ i \in 1 .. e BY <2>1, <1>1
        <3>2. g.vec[EltIndex(g, i - 1)] = f.vec[EltIndex(f, i - 1)] BY <3>1, <1>14
        <3>3. Contents(f)[i] = f.vec[EltIndex(f, i - 1)] BY <3>1, ContentsSeq DEF e
        <3> QED BY <2>1, <3>2, <3>3, <1>16
    <2>2. CASE i > e
        <3>1. i - 1 - e \in 0 .. n - 1 /\ e + (i - 1 - e) = i - 1 /\ (i - 1 - e) + 1 = i - e
            BY <2>2, <1>1
        <3>2. g.vec[EltIndex(g, i - 1)] = es[i - e] BY <3>1, <1>15
        <3>3. ~ (i <= e) BY <2>2, <1>1
        <3> QED BY <3>2, <3>3, <1>16
    <2>3. i <= e \/ i > e BY <1>1
    <2> QED BY <2>1, <2>2, <2>3
<1>18. Contents(g) = Contents(f) \o es
    BY <1>10, <1>13, <1>16, <1>17, SameContents
<1> QED BY <1>10, <1>13, <1>18 DEF g, e, n
-----------------------------------------------------------------------------
(* Removing *)

\* A header that fits a vector of l, as Sane says.
Fits(l, h, t) ==
    /\ l \in Nat \ {0} /\ h \in 0 .. l - 1 /\ t \in Nat
    /\ t < l \/ t = h + l

\* The tail of a full fifo, put back in range.
Restored(l, h, t) == IF t = h + l THEN h ELSE t

LEMMA HeadArithmetic ==
    ASSUME NEW l \in Int, NEW h \in Int, NEW t \in Int, NEW n \in Int,
           Fits(l, h, t), n \in 1 .. Span(h, t, l)
    PROVE  /\ Fits(l, WrapAt(h + n, l), Restored(l, h, t))
           /\ Span(WrapAt(h + n, l), Restored(l, h, t), l) = Span(h, t, l) - n
           /\ \A k \in 0 .. Span(h, t, l) - n - 1 :
                  WrapAt(WrapAt(h + n, l) + k, l) = WrapAt(h + (n + k), l)
BY DEF WrapAt, Fits, Restored, Span

LEMMA BackArithmetic ==
    ASSUME NEW l \in Int, NEW h \in Int, NEW t \in Int, NEW n \in Int,
           Fits(l, h, t), n \in 1 .. Span(h, t, l)
    PROVE  /\ Fits(l, h, MovedTail(l, h, Span(h, t, l), - n, t))
           /\ Span(h, MovedTail(l, h, Span(h, t, l), - n, t), l) = Span(h, t, l) - n
BY DEF Fits, MovedTail, Span

\* Header and vector of a fifo that has memory.
LEMMA SaneFits ==
    ASSUME NEW f, Sane(f), f.len > 0
    PROVE  /\ Fits(f.len, f.head, f.tail)
           /\ Elts(f) = Span(f.head, f.tail, f.len)
           /\ f.len \in Int /\ f.head \in Int /\ f.tail \in Int
<1>1. f.len \in Nat \ {0} /\ f.head \in 0 .. f.len - 1 /\ f.tail \in Nat
    BY FifoAssumption DEF Sane
<1> QED BY <1>1 DEF Sane, Fits, Elts, Span

\* clib_fifo_advance_head drops the n oldest elements, n > 0, and what it
\* passes over is what the queue would return.
LEMMA HeadDrops ==
    ASSUME NEW f, Sane(f), f.len > 0, NEW n \in Nat \ {0}, n <= Elts(f)
    PROVE  LET g == HeadAdvanced(f, n)
           IN  /\ Sane(g)
               /\ Elts(g) = Elts(f) - n
               /\ Contents(g) = SubSeq(Contents(f), n + 1, Elts(f))
               /\ [i \in 1 .. n |-> f.vec[EltIndex(f, i - 1)]] = SubSeq(Contents(f), 1, n)
<1> DEFINE g == HeadAdvanced(f, n)
           e == Elts(f)
<1>1. /\ g.head = WrapAt(f.head + n, f.len) /\ g.tail = Restored(f.len, f.head, f.tail)
      /\ g.len = f.len /\ g.vec = f.vec /\ g = Ring(g.head, g.tail, g.len, g.vec)
    BY DEF HeadAdvanced, Restored, Ring
<1>2. e \in Nat /\ n \in 1 .. e
    BY EltsInRange DEF Sane
<1>3. /\ Fits(f.len, g.head, g.tail)
      /\ Span(g.head, g.tail, f.len) = e - n
      /\ \A k \in 0 .. e - n - 1 : WrapAt(g.head + k, f.len) = WrapAt(f.head + (n + k), f.len)
    <2>1. Fits(f.len, f.head, f.tail) /\ e = Span(f.head, f.tail, f.len)
          /\ f.len \in Int /\ f.head \in Int /\ f.tail \in Int
        BY SaneFits
    <2> HIDE DEF e, g
    <2>2. n \in 1 .. Span(f.head, f.tail, f.len) /\ n \in Int BY <1>2, <2>1
    <2>3. /\ Fits(f.len, WrapAt(f.head + n, f.len), Restored(f.len, f.head, f.tail))
          /\ Span(WrapAt(f.head + n, f.len), Restored(f.len, f.head, f.tail), f.len)
                = Span(f.head, f.tail, f.len) - n
          /\ \A k \in 0 .. Span(f.head, f.tail, f.len) - n - 1 :
                 WrapAt(WrapAt(f.head + n, f.len) + k, f.len) = WrapAt(f.head + (n + k), f.len)
        BY <2>1, <2>2, HeadArithmetic, SMTT(30)
    <2> QED BY <2>1, <2>3, <1>1
<1> HIDE DEF g, e
<1>4. Sane(g)
    BY <1>1, <1>3 DEF Sane, Fits
<1>5. Elts(g) = e - n
    BY <1>1, <1>3 DEF Elts, Span
<1>6. /\ Contents(f) \in Seq(Content) /\ Len(Contents(f)) = e
      /\ \A i \in 1 .. e : /\ Contents(f)[i] = f.vec[EltIndex(f, i - 1)]
                          /\ Contents(f)[i] \in Content
    BY ContentsSeq, ElementOfSeq DEF e
<1>7. /\ SubSeq(Contents(f), n + 1, e) \in Seq(Content)
      /\ Len(SubSeq(Contents(f), n + 1, e)) = e - n
      /\ \A i \in 1 .. e - n : SubSeq(Contents(f), n + 1, e)[i] = Contents(f)[n + i]
    <2>1. \A i \in n + 1 .. e : Contents(f)[i] \in Content BY <1>2, <1>6
    <2>2. n + 1 \in Int /\ e \in Int BY <1>2
    <2>3. /\ SubSeq(Contents(f), n + 1, e) \in Seq(Content)
          /\ Len(SubSeq(Contents(f), n + 1, e)) = IF n + 1 <= e THEN e - (n + 1) + 1 ELSE 0
          /\ \A i \in 1 .. e - (n + 1) + 1 :
                 SubSeq(Contents(f), n + 1, e)[i] = Contents(f)[(n + 1) + i - 1]
        BY <2>1, <2>2, SubSeqProperties
    <2>4. e - (n + 1) + 1 = e - n /\ \A i \in Int : (n + 1) + i - 1 = n + i BY <1>2
    <2> QED BY <2>3, <2>4, <1>2
<1>8. Contents(g) = SubSeq(Contents(f), n + 1, e)
    <2>1. ASSUME NEW i \in 1 .. e - n
          PROVE  g.vec[EltIndex(g, i - 1)] = SubSeq(Contents(f), n + 1, e)[i]
        <3>1. i - 1 \in 0 .. e - n - 1 /\ n + i \in 1 .. e /\ n + (i - 1) = (n + i) - 1
            BY <1>2
        <3>2. EltIndex(g, i - 1) = EltIndex(f, (n + i) - 1)
            BY <3>1, <1>1, <1>3 DEF EltIndex
        <3> QED BY <3>1, <3>2, <1>1, <1>6, <1>7
    <2> QED BY <2>1, <1>4, <1>5, <1>7, SameContents
<1>9. [i \in 1 .. n |-> f.vec[EltIndex(f, i - 1)]] = SubSeq(Contents(f), 1, n)
    <2> DEFINE s == [i \in 1 .. n |-> f.vec[EltIndex(f, i - 1)]]
    <2>1. /\ SubSeq(Contents(f), 1, n) \in Seq(Content)
          /\ Len(SubSeq(Contents(f), 1, n)) = IF 1 <= n THEN n - 1 + 1 ELSE 0
          /\ \A i \in 1 .. n - 1 + 1 : SubSeq(Contents(f), 1, n)[i] = Contents(f)[1 + i - 1]
        <3>1. \A i \in 1 .. n : Contents(f)[i] \in Content BY <1>2, <1>6
        <3> QED BY <3>1, <1>2, SubSeqProperties
    <2>2. n - 1 + 1 = n /\ \A i \in Int : 1 + i - 1 = i BY <1>2
    <2>3. \A i \in 1 .. n : s[i] = Contents(f)[i] /\ Contents(f)[i] \in Content
        BY <1>2, <1>6
    <2>4. s \in [1 .. n -> Content] BY <2>3
    <2>5. s \in Seq(Content) BY <2>4, SeqDef
    <2>6. Len(s) = n
        <3>1. DOMAIN s = 1 .. n OBVIOUS
        <3> HIDE DEF s
        <3> QED BY <3>1, <2>5, LenProperties
    <2> HIDE DEF s
    <2>7. s = SubSeq(Contents(f), 1, n)
        BY <2>1, <2>2, <2>3, <2>5, <2>6, SeqEqual
    <2> QED BY <2>7 DEF s
<1> QED BY <1>4, <1>5, <1>8, <1>9 DEF g, e

\* A negative clib_fifo_advance_tail takes back the n newest elements.
LEMMA TailDrops ==
    ASSUME NEW f, Sane(f), NEW n \in Nat \ {0}, n <= Elts(f)
    PROVE  LET g == TailAdvanced(f, - n)
           IN  /\ Sane(g)
               /\ Elts(g) = Elts(f) - n
               /\ Contents(g) = SubSeq(Contents(f), 1, Elts(f) - n)
<1> DEFINE g == TailAdvanced(f, - n)
           e == Elts(f)
<1>1. e \in 0 .. f.len /\ f.len \in Nat /\ n \in 1 .. e /\ f.len > 0
    BY EltsInRange DEF Sane
<1>2. Fits(f.len, f.head, f.tail) /\ e = Span(f.head, f.tail, f.len)
      /\ f.len \in Int /\ f.head \in Int /\ f.tail \in Int
    BY <1>1, SaneFits
<1>3. /\ g.head = f.head /\ g.tail = MovedTail(f.len, f.head, e, - n, f.tail)
      /\ g.len = f.len /\ g.vec = f.vec /\ g = Ring(g.head, g.tail, g.len, g.vec)
    BY <1>1, <1>2 DEF TailAdvanced, NewTail, FreeElts, MovedTail, Ring
<1> HIDE DEF g, e
<1>4. Fits(f.len, f.head, g.tail) /\ Span(f.head, g.tail, f.len) = e - n
    <2>1. n \in 1 .. Span(f.head, f.tail, f.len) /\ n \in Int BY <1>1, <1>2
    <2>2. /\ Fits(f.len, f.head, MovedTail(f.len, f.head, Span(f.head, f.tail, f.len), - n, f.tail))
          /\ Span(f.head, MovedTail(f.len, f.head, Span(f.head, f.tail, f.len), - n, f.tail), f.len)
                = Span(f.head, f.tail, f.len) - n
        BY <2>1, <1>2, BackArithmetic
    <2> QED BY <2>2, <1>2, <1>3
<1>5. Sane(g)
    BY <1>3, <1>4 DEF Sane, Fits
<1>6. Elts(g) = e - n
    BY <1>3, <1>4 DEF Elts, Span
<1>7. /\ Contents(f) \in Seq(Content) /\ Len(Contents(f)) = e
      /\ \A i \in 1 .. e : /\ Contents(f)[i] = f.vec[EltIndex(f, i - 1)]
                          /\ Contents(f)[i] \in Content
    BY ContentsSeq, ElementOfSeq DEF e
<1>8. /\ SubSeq(Contents(f), 1, e - n) \in Seq(Content)
      /\ Len(SubSeq(Contents(f), 1, e - n)) = e - n
      /\ \A i \in 1 .. e - n : SubSeq(Contents(f), 1, e - n)[i] = Contents(f)[i]
    <2>1. \A i \in 1 .. e - n : Contents(f)[i] \in Content BY <1>1, <1>7
    <2>2. e - n \in Int BY <1>1
    <2>3. /\ SubSeq(Contents(f), 1, e - n) \in Seq(Content)
          /\ Len(SubSeq(Contents(f), 1, e - n)) = IF 1 <= e - n THEN (e - n) - 1 + 1 ELSE 0
          /\ \A i \in 1 .. (e - n) - 1 + 1 :
                 SubSeq(Contents(f), 1, e - n)[i] = Contents(f)[1 + i - 1]
        BY <2>1, <2>2, SubSeqProperties
    <2>4. (e - n) - 1 + 1 = e - n /\ \A i \in Int : 1 + i - 1 = i BY <1>1
    <2> QED BY <2>3, <2>4, <1>1
<1>9. Contents(g) = SubSeq(Contents(f), 1, e - n)
    <2>1. ASSUME NEW i \in 1 .. e - n
          PROVE  g.vec[EltIndex(g, i - 1)] = SubSeq(Contents(f), 1, e - n)[i]
        <3>1. i \in 1 .. e BY <1>1
        <3>2. EltIndex(g, i - 1) = EltIndex(f, i - 1) BY <1>3 DEF EltIndex
        <3> QED BY <3>1, <3>2, <1>3, <1>7, <1>8
    <2> QED BY <2>1, <1>5, <1>6, <1>8, SameContents
<1> QED BY <1>5, <1>6, <1>9 DEF g, e

-----------------------------------------------------------------------------
(* The theorems *)

\* No elements, no contents.
LEMMA EmptyContents ==
    ASSUME NEW f, Sane(f), Elts(f) = 0
    PROVE  Contents(f) = <<>>
<1>1. Contents(f) \in Seq(Content) /\ Len(Contents(f)) = 0
    BY ContentsSeq
<1> QED BY <1>1, EmptySeq

\* The fifo starts as the null pointer: an empty queue.
LEMMA FifoInit == Init => TypeOK /\ Q!Init
<1> SUFFICES ASSUME Init PROVE TypeOK /\ Q!Init
    OBVIOUS
<1>1. /\ fifo.head = 0 /\ fifo.tail = 0 /\ fifo.len = 0
      /\ fifo.vec = [i \in {} |-> Zero] /\ fifo = Ring(fifo.head, fifo.tail, fifo.len, fifo.vec)
    BY DEF Init, NullFifo, Ring
<1>2. Sane(fifo)
    BY <1>1, FifoAssumption DEF Sane
<1>3. Elts(fifo) = 0 BY <1>1 DEF Elts
<1>4. passed = <<>> /\ passed \in Seq(Content) BY DEF Init
<1>5. Contents(fifo) = <<>>
    BY <1>2, <1>3, EmptyContents
<1> QED BY <1>2, <1>3, <1>4, <1>5, FifoAssumption DEF TypeOK, Q!Init, Content

\* Emptying the fifo leaves the null fifo's header.
LEMMA NullIsEmpty == Sane(NullFifo) /\ Elts(NullFifo) = 0 /\ Contents(NullFifo) = <<>>
<1> DEFINE f == NullFifo
<1>1. /\ f.head = 0 /\ f.tail = 0 /\ f.len = 0
      /\ f.vec = [i \in {} |-> Zero] /\ f = Ring(f.head, f.tail, f.len, f.vec)
    BY DEF NullFifo, Ring
<1> HIDE DEF f
<1>2. Sane(f) BY <1>1, FifoAssumption DEF Sane
<1>3. Elts(f) = 0 BY <1>1 DEF Elts
<1>4. Contents(f) = <<>> BY <1>2, <1>3, EmptyContents
<1> QED BY <1>2, <1>3, <1>4 DEF f

\* Every operation keeps the fifo sane and is the queue's operation: the
\* element order survives each wrap, full fifo and growth.  Advancing the
\* head by nothing is excluded, as every caller in the library does.
LEMMA FifoStep ==
    ASSUME HeadSteps \in SUBSET (Nat \ {0}), TypeOK, [Next]_vars
    PROVE  TypeOK' /\ [Q!Next]_(Q!vars)
<1>1. /\ Sane(fifo) /\ Elts(fifo) <= MaxElts /\ passed \in Seq(Content)
      /\ Elts(fifo) \in Nat /\ MaxElts \in Nat /\ MaxElts <= MaxLen /\ MaxLen \in Nat
    <2>1. Sane(fifo) /\ Elts(fifo) <= MaxElts /\ passed \in Seq(Content) BY DEF TypeOK, Content
    <2>2. Elts(fifo) \in 0 .. fifo.len /\ fifo.len \in Nat
        <3>1. Elts(fifo) \in 0 .. fifo.len BY <2>1, EltsInRange
        <3>2. fifo.len \in Nat BY <2>1, FifoAssumption DEF Sane
        <3> QED BY <3>1, <3>2
    <2>3. MaxElts \in Nat /\ MaxElts <= MaxLen /\ MaxLen \in Nat BY FifoAssumption
    <2> QED BY <2>1, <2>2, <2>3
<1>2. Len(Contents(fifo)) = Elts(fifo)
    BY <1>1, ContentsSeq
<1>3. ASSUME NEW n \in 1 .. MaxElts, NEW es \in [1 .. n -> Elems], Add(es)
      PROVE  TypeOK' /\ Q!Next
    <2> DEFINE f == Roomy(fifo, n)
    <2>1. es \in Seq(Elems) /\ Len(es) = n /\ n \in Nat /\ n > 0
        <3>1. n \in Nat /\ n > 0 BY FifoAssumption
        <3>2. es \in Seq(Elems) BY <3>1, SeqDef
        <3> QED BY <3>1, <3>2, LenProperties
    <2>2. Elts(fifo) + n <= MaxElts BY <1>3, <2>1 DEF Add
    <2>3. /\ Sane(f) /\ Elts(f) = Elts(fifo) /\ FreeElts(f) >= n
          /\ Contents(f) = Contents(fifo)
        BY <1>1, <2>1, <2>2, RoomyKeeps
    <2>4. fifo' = Written(TailAdvanced(f, Len(es)), f.tail, es) /\ passed' = es
        BY <1>3, <2>1 DEF Add
    <2> HIDE DEF f
    <2>5. /\ Sane(fifo') /\ Elts(fifo') = Elts(fifo) + n
          /\ Contents(fifo') = Contents(fifo) \o es
        BY <2>1, <2>3, <2>4, AddAppends
    <2>6. passed' \in Seq(Content)
        BY <2>1, <2>4, SeqMonotonic DEF Content
    <2> QED BY <2>2, <2>4, <2>5, <2>6 DEF TypeOK, Content, Q!Next, Q!Put
<1>4. ASSUME NEW n \in 1 .. MaxElts, TakeBack(n)
      PROVE  TypeOK' /\ Q!Next
    <2>1. n \in Nat \ {0} /\ n <= Elts(fifo) /\ fifo' = TailAdvanced(fifo, - n)
          /\ passed' = passed
        BY <1>4, FifoAssumption DEF TakeBack
    <2>2. /\ Sane(fifo') /\ Elts(fifo') = Elts(fifo) - n
          /\ Contents(fifo') = SubSeq(Contents(fifo), 1, Elts(fifo) - n)
        BY <1>1, <2>1, TailDrops
    <2>3. TypeOK' BY <1>1, <2>1, <2>2 DEF TypeOK, Content
    <2>4. n \in 1 .. Len(Contents(fifo)) BY <1>1, <1>2, <2>1
    <2>5. Q!TakeBack(n) BY <1>2, <2>1, <2>2 DEF Q!TakeBack
    <2> QED BY <2>3, <2>4, <2>5 DEF Q!Next
<1>5. ASSUME NEW n \in 1 .. MaxElts, Resize(n)
      PROVE  TypeOK' /\ UNCHANGED Q!vars
    <2>1. n \in Nat /\ Elts(fifo) + n <= MaxLen /\ fifo' = Resized(fifo, n) /\ passed' = passed
        BY <1>1, <1>5 DEF Resize
    <2>2. Sane(fifo') /\ Elts(fifo') = Elts(fifo) /\ Contents(fifo') = Contents(fifo)
        BY <1>1, <2>1, ResizeKeeps
    <2> QED BY <1>1, <2>1, <2>2 DEF TypeOK, Content, Q!vars
<1>6. ASSUME NEW n \in 1 .. MaxElts, Validate(n)
      PROVE  TypeOK' /\ UNCHANGED Q!vars
    <2>1. n \in Nat /\ Elts(fifo) + n <= MaxLen /\ fifo' = Roomy(fifo, n) /\ passed' = passed
        BY <1>1, <1>6 DEF Validate
    <2>2. Sane(fifo') /\ Elts(fifo') = Elts(fifo) /\ Contents(fifo') = Contents(fifo)
        BY <1>1, <2>1, RoomyKeeps
    <2> QED BY <1>1, <2>1, <2>2 DEF TypeOK, Content, Q!vars
<1>7. ASSUME NEW n \in HeadSteps, AdvanceHead(n)
      PROVE  TypeOK' /\ Q!Next
    <2>1. n \in Nat \ {0} /\ n <= Elts(fifo) /\ fifo.len > 0 /\ fifo' = HeadAdvanced(fifo, n)
          /\ passed' = [i \in 1 .. n |-> fifo.vec[EltIndex(fifo, i - 1)]]
        BY <1>7 DEF AdvanceHead
    <2>2. /\ Sane(fifo') /\ Elts(fifo') = Elts(fifo) - n
          /\ Contents(fifo') = SubSeq(Contents(fifo), n + 1, Elts(fifo))
          /\ passed' = SubSeq(Contents(fifo), 1, n)
        BY <1>1, <2>1, HeadDrops
    <2>3. passed' \in Seq(Content)
        <3>1. n \in Nat BY <2>1
        <3>2. \A i \in 1 .. n : fifo.vec[EltIndex(fifo, i - 1)] \in Content
            <4>1. Elts(fifo) \in Nat /\ n <= Elts(fifo) BY <1>1, <2>1, EltsInRange DEF Sane
            <4>2. SUFFICES ASSUME NEW i \in 1 .. n
                           PROVE  fifo.vec[EltIndex(fifo, i - 1)] \in Content
                OBVIOUS
            <4>3. i - 1 \in 0 .. Elts(fifo) - 1 BY <4>1, <3>1
            <4>4. EltIndex(fifo, i - 1) \in 0 .. fifo.len - 1 BY <1>1, <4>3, IndexInRange
            <4> QED BY <1>1, <4>4 DEF Sane, Content
        <3>3. [i \in 1 .. n |-> fifo.vec[EltIndex(fifo, i - 1)]] \in Seq(Content)
            BY <3>1, <3>2
        <3> QED BY <2>1, <3>3
    <2>4. TypeOK' BY <1>1, <2>1, <2>2, <2>3 DEF TypeOK, Content
    <2>5. n \in 1 .. Len(Contents(fifo)) BY <1>1, <1>2, <2>1
    <2>6. Q!Get(n) BY <1>2, <2>1, <2>2 DEF Q!Get
    <2> QED BY <2>4, <2>5, <2>6 DEF Q!Next
<1>8. CASE Reset
    <2>1. fifo' = NullFifo /\ passed' = passed BY <1>8 DEF Reset
    <2>2. TypeOK' BY <1>1, <2>1, NullIsEmpty DEF TypeOK, Content
    <2>3. Contents(fifo)' = <<>> BY <2>1, NullIsEmpty
    <2> QED BY <2>1, <2>2, <2>3 DEF Q!Next, Q!Clear
<1>9. CASE UNCHANGED vars
    BY <1>1, <1>9 DEF TypeOK, vars, Q!vars, Content
<1> QED BY <1>3, <1>4, <1>5, <1>6, <1>7, <1>8, <1>9 DEF Next

\* Head and tail always fit the vector, and the number of elements is within
\* bounds, whatever is added, taken back, removed, grown or reset.
THEOREM FifoTypeCorrect ==
    ASSUME HeadSteps \in SUBSET (Nat \ {0})
    PROVE  Spec => []TypeOK
<1>1. Init => TypeOK BY FifoInit
<1>2. TypeOK /\ [Next]_vars => TypeOK' BY FifoStep
<1> QED BY <1>1, <1>2, PTL DEF Spec

\* The growing ring buffer is a first in first out queue: for every element
\* set, first vector length and growth by powers of two.
THEOREM FifoImplementsQueue ==
    ASSUME HeadSteps \in SUBSET (Nat \ {0})
    PROVE  Spec => ImplementsQueue
<1>1. Init => TypeOK /\ Q!Init BY FifoInit
<1>2. TypeOK /\ [Next]_vars => TypeOK' /\ [Q!Next]_(Q!vars) BY FifoStep
<1> QED BY <1>1, <1>2, PTL DEF Spec, ImplementsQueue, Q!QueueSpec

\* clib_fifo_index_for_elt_index undoes clib_fifo_elt_index in every state.
THEOREM FifoIndexRoundTrip ==
    ASSUME HeadSteps \in SUBSET (Nat \ {0})
    PROVE  Spec => []IndexRoundTrip
<1>1. ASSUME TypeOK PROVE IndexRoundTrip
    <2> SUFFICES ASSUME NEW i \in 0 .. Elts(fifo) - 1
                 PROVE  IndexForElt(fifo, EltIndex(fifo, i)) = i
        BY DEF IndexRoundTrip
    <2>1. /\ Elts(fifo) \in 0 .. fifo.len /\ fifo.len \in Nat /\ fifo.head \in Nat
          /\ fifo.len > 0 => fifo.head < fifo.len
        <3>1. Sane(fifo) BY <1>1 DEF TypeOK
        <3>2. Elts(fifo) \in 0 .. fifo.len BY <3>1, EltsInRange
        <3>3. /\ fifo.len \in 0 .. MaxLen /\ fifo.head \in 0 .. fifo.len
              /\ fifo.len > 0 => fifo.head < fifo.len
            BY <3>1 DEF Sane
        <3>4. MaxLen \in Nat BY FifoAssumption
        <3> QED BY <3>2, <3>3, <3>4
    <2> QED BY <2>1 DEF IndexForElt, EltIndex, WrapAt
<1>2. Spec => []TypeOK BY FifoTypeCorrect
<1> QED BY <1>1, <1>2, PTL

-----------------------------------------------------------------------------
(* Buckets *)

Flags == {"no_grow", "no_shrink", "next"}
PairsOf(K) == [key : K, value : HashValues]
BucketsOf(K) == [user : BOOLEAN, pairs : Seq(PairsOf(K)), room : Nat]
Tables(K) == [buckets : Seq(BucketsOf(K)), elts : Nat, flags : SUBSET Flags]

\* No two pairs have keys that are equal.
Distinct(pairs, id) ==
    \A j, k \in 1 .. Len(pairs) : id[pairs[j].key] = id[pairs[k].key] => j = k

\* There is room for the pairs, they differ, and belong in bucket i of n.
BucketFits(b, id, K, i, n) ==
    /\ b \in BucketsOf(K)
    /\ IF b.user THEN Len(b.pairs) = 1 ELSE b.pairs = <<>> \/ Len(b.pairs) \in 2 .. b.room
    /\ \A j \in 1 .. Len(b.pairs) :
           id[b.pairs[j].key] \in HashKeys /\ KeySum[id[b.pairs[j].key]] % n = i - 1
    /\ Distinct(b.pairs, id)

\* A bucket that fits and has these pairs.
FitsWith(b, pairs, id, K, i, n) == BucketFits(b, id, K, i, n) /\ ToSet(b.pairs) = pairs

\* The pairs of a bucket are a sequence of pairs.
LEMMA BucketPairs ==
    ASSUME NEW b, NEW K, b \in BucketsOf(K)
    PROVE  /\ b.pairs \in Seq(PairsOf(K)) /\ Len(b.pairs) \in Nat /\ DOMAIN b.pairs = 1 .. Len(b.pairs)
           /\ \A j \in 1 .. Len(b.pairs) : b.pairs[j] \in PairsOf(K) /\ b.pairs[j].key \in K
           /\ ToSet(b.pairs) = {b.pairs[j] : j \in 1 .. Len(b.pairs)}
           /\ ToSet(b.pairs) \subseteq PairsOf(K)
<1>1. b.pairs \in Seq(PairsOf(K)) BY DEF BucketsOf
<1> DEFINE s == b.pairs
<1> HIDE DEF s
<1>2. Len(s) \in Nat /\ DOMAIN s = 1 .. Len(s) /\ \A j \in 1 .. Len(s) : s[j] \in PairsOf(K)
    <2>1. s \in Seq(PairsOf(K)) BY <1>1 DEF s
    <2> QED BY <2>1, LenProperties, ElementOfSeq
<1>3. \A p \in PairsOf(K) : p.key \in K BY DEF PairsOf
<1>4. ToSet(s) = {s[j] : j \in 1 .. Len(s)} BY <1>2 DEF ToSet
<1> QED BY <1>1, <1>2, <1>3, <1>4 DEF s

\* A key is found at one place of a bucket or at none.
LEMMA FoundOnce ==
    ASSUME NEW b, NEW id, NEW K, NEW i, NEW n, BucketFits(b, id, K, i, n), NEW key
    PROVE  /\ Equal(id, b, key) = {j \in 1 .. Len(b.pairs) : id[b.pairs[j].key] = id[key]}
           /\ \A j \in 1 .. Len(b.pairs) :
                  id[b.pairs[j].key] = id[key] => Equal(id, b, key) = {j} /\ First(Equal(id, b, key)) = j
<1>1. DOMAIN b.pairs = 1 .. Len(b.pairs) /\ Len(b.pairs) \in Nat BY BucketPairs DEF BucketFits
<1>2. Equal(id, b, key) = {j \in 1 .. Len(b.pairs) : id[b.pairs[j].key] = id[key]} BY <1>1 DEF Equal
<1>3. ASSUME NEW j \in 1 .. Len(b.pairs), id[b.pairs[j].key] = id[key]
      PROVE  Equal(id, b, key) = {j} /\ First(Equal(id, b, key)) = j
    <2>1. \A k \in 1 .. Len(b.pairs) : id[b.pairs[k].key] = id[key] => k = j
        BY <1>3 DEF BucketFits, Distinct
    <2>2. Equal(id, b, key) = {j} BY <1>2, <1>3, <2>1
    <2>3. First({j}) = j
        <3>1. j \in {j} /\ (\A k \in {j} : j <= k) /\ \A k \in {j} : k = j BY <1>1
        <3> QED BY <3>1 DEF First
    <2> QED BY <2>2, <2>3
<1> QED BY <1>2, <1>3

\* What is the same for a pair of a bucket and for what takes its place in it.
Belongs(p, id, K, i, n) ==
    p \in PairsOf(K) /\ id[p.key] \in HashKeys /\ KeySum[id[p.key]] % n = i - 1

\* A bucket's pairs are distinct and belong there.
LEMMA BucketMembers ==
    ASSUME NEW b, NEW id, NEW K, NEW i, NEW n, BucketFits(b, id, K, i, n)
    PROVE  \A p \in ToSet(b.pairs) :
               Belongs(p, id, K, i, n) /\ \A q \in ToSet(b.pairs) : id[p.key] = id[q.key] => p = q
<1> DEFINE s == b.pairs
<1>1. ToSet(s) = {s[j] : j \in 1 .. Len(s)} BY BucketPairs DEF BucketFits
<1>2. \A j \in 1 .. Len(s) : Belongs(s[j], id, K, i, n) BY BucketPairs DEF BucketFits, Belongs
<1>3. Distinct(s, id) BY DEF BucketFits
<1> HIDE DEF s
<1>4. ASSUME NEW p \in ToSet(s)
      PROVE  Belongs(p, id, K, i, n) /\ \A q \in ToSet(s) : id[p.key] = id[q.key] => p = q
    <2>1. PICK j \in 1 .. Len(s) : p = s[j] BY <1>1
    <2>2. ASSUME NEW q \in ToSet(s), id[p.key] = id[q.key] PROVE p = q
        <3>1. PICK k \in 1 .. Len(s) : q = s[k] BY <1>1
        <3> QED BY <1>3, <2>1, <2>2, <3>1 DEF Distinct
    <2> QED BY <1>2, <2>1, <2>2
<1> QED BY <1>4 DEF s

\* Pairs that belong in a bucket and differ make one, with room for them.
LEMMA BucketFrom ==
    ASSUME NEW id, NEW K, NEW i, NEW n, NEW user \in BOOLEAN, NEW room \in Nat,
           NEW pairs \in Seq(PairsOf(K)),
           IF user THEN Len(pairs) = 1 ELSE pairs = <<>> \/ Len(pairs) \in 2 .. room,
           \A j \in 1 .. Len(pairs) : Belongs(pairs[j], id, K, i, n),
           Distinct(pairs, id)
    PROVE  BucketFits([user |-> user, pairs |-> pairs, room |-> room], id, K, i, n)
<1> DEFINE b == [user |-> user, pairs |-> pairs, room |-> room]
<1>1. b.user = user /\ b.pairs = pairs /\ b.room = room /\ b \in BucketsOf(K) BY DEF BucketsOf
<1> HIDE DEF b
<1>2. BucketFits(b, id, K, i, n) BY <1>1 DEF BucketFits, Belongs
<1> QED BY <1>2 DEF b

\* An empty bucket fits anywhere.
LEMMA EmptyFits ==
    ASSUME NEW id, NEW K, NEW i, NEW n
    PROVE  BucketFits(EmptyBucket, id, K, i, n) /\ ToSet(EmptyBucket.pairs) = {}
<1>1. <<>> \in Seq(PairsOf(K)) /\ Len(<<>>) = 0 /\ 0 \in Nat /\ FALSE \in BOOLEAN
    BY EmptySeq
<1>2. Distinct(<<>>, id) BY <1>1 DEF Distinct
<1>3. \A j \in 1 .. Len(<<>>) : Belongs(<<>>[j], id, K, i, n) BY <1>1
<1>4. BucketFits(EmptyBucket, id, K, i, n) BY <1>1, <1>2, <1>3, BucketFrom DEF EmptyBucket
<1>5. ToSet(EmptyBucket.pairs) = {} BY DEF EmptyBucket, ToSet
<1> QED BY <1>4, <1>5

\* A bucket that is a pair.
LEMMA OnePair ==
    ASSUME NEW id, NEW K, NEW i, NEW n, NEW p, Belongs(p, id, K, i, n)
    PROVE  BucketFits(Direct(p), id, K, i, n) /\ ToSet(Direct(p).pairs) = {p}
<1> DEFINE s == <<p>>
<1>1. p \in PairsOf(K) BY DEF Belongs
<1>2. s \in Seq(PairsOf(K)) /\ Len(s) = 1 /\ s[1] = p /\ ToSet(s) = {p} BY <1>1 DEF ToSet
<1> HIDE DEF s
<1>3. Distinct(s, id) /\ \A j \in 1 .. Len(s) : Belongs(s[j], id, K, i, n) BY <1>2 DEF Distinct
<1>4. BucketFits([user |-> TRUE, pairs |-> s, room |-> 0], id, K, i, n) BY <1>2, <1>3, BucketFrom
<1> QED BY <1>2, <1>4 DEF Direct, s

\* set_indirect makes room for the pair it adds.
LEMMA AddedFits ==
    ASSUME NEW b, NEW id, NEW K, NEW i, NEW n, BucketFits(b, id, K, i, n),
           NEW p, Belongs(p, id, K, i, n), \A q \in ToSet(b.pairs) : id[q.key] # id[p.key]
    PROVE  FitsWith(AddedTo(b, p), ToSet(b.pairs) \cup {p}, id, K, i, n)
<1> SUFFICES BucketFits(AddedTo(b, p), id, K, i, n) /\ ToSet(AddedTo(b, p).pairs) = ToSet(b.pairs) \cup {p}
    BY DEF FitsWith
<1> DEFINE s == b.pairs
           l == Len(s)
           new == Append(s, p)
<1>1. /\ s \in Seq(PairsOf(K)) /\ l \in Nat /\ ToSet(s) = {s[j] : j \in 1 .. l}
      /\ b.user \in BOOLEAN /\ b.room \in Nat /\ p \in PairsOf(K)
    BY BucketPairs DEF BucketFits, BucketsOf, Belongs
<1>2. IF b.user THEN l = 1 ELSE s = <<>> \/ l \in 2 .. b.room BY DEF BucketFits
<1>3. /\ Distinct(s, id) /\ \A j \in 1 .. l : Belongs(s[j], id, K, i, n)
    <2>1. \A j \in 1 .. l : s[j] \in ToSet(s) BY <1>1
    <2> QED BY <2>1, BucketMembers DEF BucketFits
<1>4. \A j \in 1 .. l : id[s[j].key] # id[p.key] BY <1>1
<1> HIDE DEF s
<1>5. /\ new \in Seq(PairsOf(K)) /\ Len(new) = l + 1
      /\ \A j \in 1 .. l : new[j] = s[j]
      /\ new[l + 1] = p
    BY <1>1, AppendProperties
<1> HIDE DEF new, l
<1>6. ASSUME NEW j \in 1 .. l + 1 PROVE new[j] = IF j <= l THEN s[j] ELSE p BY <1>1, <1>5
<1>7. Distinct(new, id)
    <2> SUFFICES ASSUME NEW j \in 1 .. l + 1, NEW k \in 1 .. l + 1, id[new[j].key] = id[new[k].key]
                 PROVE  j = k
        BY <1>5 DEF Distinct
    <2>1. CASE j <= l /\ k <= l
        <3>1. j \in 1 .. l /\ k \in 1 .. l /\ new[j] = s[j] /\ new[k] = s[k] BY <1>1, <1>6, <2>1
        <3> QED BY <1>3, <3>1 DEF Distinct, l
    <2>2. CASE j <= l /\ k > l
        <3>1. j \in 1 .. l /\ new[j] = s[j] /\ new[k] = p BY <1>1, <1>6, <2>2
        <3> QED BY <1>4, <3>1
    <2>3. CASE j > l /\ k <= l
        <3>1. k \in 1 .. l /\ new[k] = s[k] /\ new[j] = p BY <1>1, <1>6, <2>3
        <3> QED BY <1>4, <3>1
    <2>4. CASE j > l /\ k > l BY <1>1, <2>4
    <2> QED BY <1>1, <2>1, <2>2, <2>3, <2>4
<1>8. \A j \in 1 .. Len(new) : Belongs(new[j], id, K, i, n)
    <2> TAKE j \in 1 .. Len(new)
    <2>1. CASE j <= l
        <3>1. j \in 1 .. l BY <1>1, <1>5, <2>1
        <3> QED BY <1>3, <1>5, <3>1
    <2>2. CASE j > l BY <1>1, <1>5, <1>6, <2>2
    <2> QED BY <1>1, <1>5, <2>1, <2>2
<1>9. ToSet(new) = ToSet(s) \cup {p}
    <2>1. DOMAIN new = 1 .. l + 1 BY <1>5, LenProperties
    <2>2. ToSet(new) = {new[j] : j \in 1 .. l + 1} BY <2>1 DEF ToSet
    <2>3. \A q \in ToSet(s) : q \in ToSet(new)
        <3> TAKE q \in ToSet(s)
        <3>1. PICK j \in 1 .. l : q = s[j] BY <1>1 DEF l
        <3>2. j \in 1 .. l + 1 /\ new[j] = q BY <1>1, <1>5, <3>1
        <3> QED BY <2>2, <3>2
    <2>4. l + 1 \in 1 .. l + 1 BY <1>1
    <2>5. p \in ToSet(new) BY <1>5, <2>2, <2>4
    <2>6. ASSUME NEW j \in 1 .. l + 1 PROVE new[j] \in ToSet(s) \cup {p}
        <3>1. CASE j <= l
            <4>1. j \in 1 .. l BY <1>1, <3>1
            <4> QED BY <1>1, <1>5, <4>1 DEF l
        <3>2. CASE j > l BY <1>1, <1>6, <3>2
        <3> QED BY <1>1, <3>1, <3>2
    <2> QED BY <2>2, <2>3, <2>5, <2>6
<1>10. ASSUME NEW room \in Nat, room >= l + 1, l >= 1
       PROVE  /\ BucketFits(Indirect(new, room), id, K, i, n)
              /\ ToSet(Indirect(new, room).pairs) = ToSet(s) \cup {p}
    <2>1. Len(new) \in 2 .. room /\ FALSE \in BOOLEAN BY <1>1, <1>5, <1>10
    <2>2. BucketFits(Indirect(new, room), id, K, i, n) BY <1>5, <1>7, <1>8, <2>1, BucketFrom DEF Indirect
    <2>3. Indirect(new, room).pairs = new BY DEF Indirect
    <2> QED BY <1>9, <2>2, <2>3
<1>11. CASE b.user
    <2>1. l = 1 BY <1>2, <1>11
    <2>2. new = <<s[1], p>>
        <3> DEFINE two == <<s[1], p>>
        <3>1. s[1] \in PairsOf(K) BY <1>3, <2>1 DEF Belongs
        <3>2. two \in Seq(PairsOf(K)) /\ Len(two) = 2 /\ two[1] = s[1] /\ two[2] = p BY <1>1, <3>1
        <3> HIDE DEF two
        <3>3. new[1] = s[1] /\ new[2] = p /\ Len(new) = 2 BY <1>5, <2>1
        <3>4. \A j \in 1 .. Len(new) : new[j] = two[j] BY <3>2, <3>3
        <3>5. new = two BY <1>5, <3>2, <3>3, <3>4, SeqEqual
        <3> QED BY <3>5 DEF two
    <2>3. AddedTo(b, p) = Indirect(new, 2) BY <1>11, <2>2 DEF AddedTo, s
    <2> QED BY <1>10, <2>1, <2>3 DEF s
<1>12. CASE ~ b.user /\ s = <<>>
    <2>1. AddedTo(b, p) = Direct(p) BY <1>12 DEF AddedTo, s
    <2>2. ToSet(s) = {} BY <1>12 DEF ToSet
    <2> QED BY <2>1, <2>2, OnePair DEF s
<1>13. CASE ~ b.user /\ s # <<>>
    <2> DEFINE room == IF l + 1 > b.room THEN 2 * b.room ELSE b.room
    <2>1. l \in 2 .. b.room BY <1>2, <1>13
    <2>2. room \in Nat /\ room >= l + 1 /\ l >= 1 BY <1>1, <2>1
    <2>3. AddedTo(b, p) = Indirect(new, room) BY <1>13 DEF AddedTo, s, new, l
    <2> HIDE DEF room
    <2> QED BY <1>10, <2>2, <2>3 DEF s
<1> QED BY <1>11, <1>12, <1>13

\* A new value changes nothing else in a bucket.
LEMMA ValueSetFits ==
    ASSUME NEW b, NEW id, NEW K, NEW i, NEW n, BucketFits(b, id, K, i, n),
           NEW j \in 1 .. Len(b.pairs), NEW value \in HashValues
    PROVE  FitsWith([b EXCEPT !.pairs[j].value = value],
                    (ToSet(b.pairs) \ {b.pairs[j]}) \cup {Pair(b.pairs[j].key, value)}, id, K, i, n)
<1> SUFFICES /\ BucketFits([b EXCEPT !.pairs[j].value = value], id, K, i, n)
             /\ ToSet([b EXCEPT !.pairs[j].value = value].pairs) =
                    (ToSet(b.pairs) \ {b.pairs[j]}) \cup {Pair(b.pairs[j].key, value)}
    BY DEF FitsWith
<1> DEFINE s == b.pairs
           l == Len(s)
           p == [s[j] EXCEPT !.value = value]
           t == [s EXCEPT ![j] = p]
           new == [b EXCEPT !.pairs = t]
<1>1. /\ s \in Seq(PairsOf(K)) /\ l \in Nat /\ ToSet(s) = {s[k] : k \in 1 .. l} /\ j \in 1 .. l
      /\ b \in BucketsOf(K) /\ b.user \in BOOLEAN /\ b.room \in Nat /\ s[j] \in PairsOf(K)
    BY BucketPairs DEF BucketFits, BucketsOf
<1>2. IF b.user THEN l = 1 ELSE s = <<>> \/ l \in 2 .. b.room BY DEF BucketFits
<1>3. /\ Distinct(s, id) /\ \A k \in 1 .. l : Belongs(s[k], id, K, i, n)
    <2>1. \A k \in 1 .. l : s[k] \in ToSet(s) BY <1>1
    <2> QED BY <2>1, BucketMembers DEF BucketFits
<1>4. p = Pair(s[j].key, value) /\ p \in PairsOf(K) /\ p.key = s[j].key BY <1>1 DEF PairsOf, Pair
<1>5. new = [user |-> b.user, pairs |-> t, room |-> b.room] /\ new.pairs = t BY <1>1 DEF BucketsOf
<1>14. new = [b EXCEPT !.pairs[j].value = value] OBVIOUS
<1> HIDE DEF s, l, p, new
<1>6. t \in Seq(PairsOf(K)) /\ Len(t) = l /\ \A k \in 1 .. l : t[k] = IF k = j THEN p ELSE s[k]
    BY <1>1, <1>4, ExceptSeq DEF l
<1> HIDE DEF t
<1>7. \A k \in 1 .. l : t[k].key = s[k].key BY <1>4, <1>6
<1>8. Distinct(t, id) BY <1>3, <1>6, <1>7 DEF Distinct, l
<1>9. \A k \in 1 .. Len(t) : Belongs(t[k], id, K, i, n) BY <1>3, <1>4, <1>6, <1>7 DEF Belongs
<1>10. l >= 1 /\ (t = <<>> => l = 0)
    <2>1. t = <<>> => Len(t) = 0 OBVIOUS
    <2> QED BY <1>1, <1>6, <2>1
<1>11. IF b.user THEN Len(t) = 1 ELSE t = <<>> \/ Len(t) \in 2 .. b.room
    <2>1. s # <<>> BY <1>1, <1>10 DEF l
    <2> QED BY <1>2, <1>6, <2>1
<1>12. BucketFits(new, id, K, i, n) BY <1>1, <1>5, <1>6, <1>8, <1>9, <1>11, BucketFrom
<1>13. ToSet(t) = (ToSet(s) \ {s[j]}) \cup {p}
    <2>1. DOMAIN t = 1 .. l BY <1>6, LenProperties
    <2>2. ToSet(t) = {t[k] : k \in 1 .. l} BY <2>1 DEF ToSet
    <2>3. \A k \in 1 .. l : s[k] = s[j] => k = j BY <1>1, <1>3 DEF Distinct, l
    <2>4. ASSUME NEW k \in 1 .. l PROVE t[k] \in (ToSet(s) \ {s[j]}) \cup {p}
        BY <1>1, <1>6, <2>3
    <2>5. ASSUME NEW q \in (ToSet(s) \ {s[j]}) \cup {p} PROVE q \in ToSet(t)
        <3>1. CASE q = p BY <1>1, <1>6, <2>2, <3>1
        <3>2. CASE q \in ToSet(s) \ {s[j]}
            <4>1. PICK k \in 1 .. l : q = s[k] BY <1>1, <3>2
            <4>2. t[k] = q BY <1>6, <3>2, <4>1
            <4> QED BY <2>2, <4>1, <4>2
        <3> QED BY <3>1, <3>2
    <2> QED BY <2>2, <2>4, <2>5
<1>15. new.pairs = t BY <1>5
<1>16. ToSet(new.pairs) = (ToSet(s) \ {s[j]}) \cup {Pair(s[j].key, value)} BY <1>4, <1>13, <1>15
<1> QED BY <1>12, <1>14, <1>16 DEF s
-----------------------------------------------------------------------------
(* Sequences without equal elements *)

\* The elements of a sequence.
LEMMA SeqMembers ==
    ASSUME NEW S, NEW s \in Seq(S)
    PROVE  /\ Len(s) \in Nat /\ DOMAIN s = 1 .. Len(s)
           /\ \A j \in 1 .. Len(s) : s[j] \in S /\ s[j] \in ToSet(s)
           /\ ToSet(s) = {s[j] : j \in 1 .. Len(s)} /\ ToSet(s) \subseteq S
<1>1. Len(s) \in Nat /\ DOMAIN s = 1 .. Len(s) /\ \A j \in 1 .. Len(s) : s[j] \in S
    BY LenProperties, ElementOfSeq
<1>2. ToSet(s) = {s[j] : j \in 1 .. Len(s)} BY <1>1 DEF ToSet
<1> QED BY <1>1, <1>2

\* All but the last.
LEMMA FrontIs ==
    ASSUME NEW S, NEW s \in Seq(S), s # <<>>
    PROVE  /\ Front(s) \in Seq(S) /\ Len(Front(s)) = Len(s) - 1
           /\ \A j \in 1 .. Len(s) - 1 : Front(s)[j] = s[j]
           /\ Len(s) >= 1 /\ Last(s) = s[Len(s)]
<1> DEFINE l == Len(s)
<1>1. l \in Nat /\ l >= 1 /\ \A j \in 1 .. l : s[j] \in S BY SeqMembers, EmptySeq
<1>2. Front(s) = SubSeq(s, 1, l - 1) /\ Last(s) = s[l] BY DEF Front, Last
<1> HIDE DEF l
<1>3. 1 \in Int /\ l - 1 \in Int /\ \A j \in 1 .. l - 1 : s[j] \in S BY <1>1
<1>4. /\ SubSeq(s, 1, l - 1) \in Seq(S)
      /\ Len(SubSeq(s, 1, l - 1)) = IF 1 <= l - 1 THEN (l - 1) - 1 + 1 ELSE 0
      /\ \A j \in 1 .. (l - 1) - 1 + 1 : SubSeq(s, 1, l - 1)[j] = s[1 + j - 1]
    BY <1>3, SubSeqProperties
<1>5. \A j \in 1 .. l - 1 : 1 + j - 1 = j /\ j \in 1 .. (l - 1) - 1 + 1 BY <1>1
<1>6. \A j \in 1 .. l - 1 : SubSeq(s, 1, l - 1)[j] = s[j] BY <1>4, <1>5
<1>7. (IF 1 <= l - 1 THEN (l - 1) - 1 + 1 ELSE 0) = l - 1 BY <1>1
<1> QED BY <1>1, <1>2, <1>4, <1>6, <1>7 DEF l

\* unset_indirect leaves the others of a bucket.
LEMMA RemovedFits ==
    ASSUME NEW b, NEW id, NEW K, NEW i, NEW n, BucketFits(b, id, K, i, n),
           NEW j \in 1 .. Len(b.pairs)
    PROVE  FitsWith(RemovedFrom(b, j), ToSet(b.pairs) \ {b.pairs[j]}, id, K, i, n)
<1> SUFFICES /\ BucketFits(RemovedFrom(b, j), id, K, i, n)
             /\ ToSet(RemovedFrom(b, j).pairs) = ToSet(b.pairs) \ {b.pairs[j]}
    BY DEF FitsWith
<1> DEFINE s == b.pairs
           l == Len(s)
           t == [s EXCEPT ![j] = Last(s)]
           u == Front(t)
<1>1. /\ s \in Seq(PairsOf(K)) /\ l \in Nat /\ ToSet(s) = {s[k] : k \in 1 .. l} /\ j \in 1 .. l
      /\ b \in BucketsOf(K) /\ b.user \in BOOLEAN /\ b.room \in Nat
      /\ b = [user |-> b.user, pairs |-> s, room |-> b.room]
    BY BucketPairs DEF BucketFits, BucketsOf
<1>2. IF b.user THEN l = 1 ELSE s = <<>> \/ l \in 2 .. b.room BY DEF BucketFits
<1>3. /\ Distinct(s, id) /\ \A k \in 1 .. l : Belongs(s[k], id, K, i, n)
    <2>1. \A k \in 1 .. l : s[k] \in ToSet(s) BY <1>1
    <2> QED BY <2>1, BucketMembers, ZenonT(30) DEF BucketFits
<1>4. RemovedFrom(b, j) =
          IF b.user THEN EmptyBucket
          ELSE IF l = 2 THEN Direct(s[3 - j]) ELSE [b EXCEPT !.pairs = u]
    BY DEF RemovedFrom
<1>5. [b EXCEPT !.pairs = u] = [user |-> b.user, pairs |-> u, room |-> b.room] BY <1>1 DEF BucketsOf
<1> HIDE DEF s
<1>6. l >= 1 /\ s # <<>> BY <1>1, EmptySeq DEF l
<1> HIDE DEF l, t, u
<1> DEFINE Good == BucketFits(RemovedFrom(b, j), id, K, i, n) /\ ToSet(RemovedFrom(b, j).pairs) = ToSet(s) \ {s[j]}
<1>7. ASSUME b.user PROVE Good
    <2>1. RemovedFrom(b, j) = EmptyBucket BY <1>4, <1>7
    <2>2. l = 1 /\ j = 1 /\ ToSet(s) = {s[1]} BY <1>1, <1>2, <1>7
    <2>3. ToSet(s) \ {s[j]} = {} BY <2>2
    <2> QED BY <2>1, <2>3, EmptyFits
<1>8. ASSUME ~ b.user /\ l = 2 PROVE Good
    <2> DEFINE k == 3 - j
    <2>1. RemovedFrom(b, j) = Direct(s[k]) BY <1>4, <1>8
    <2>2. k \in 1 .. l /\ k # j /\ (\A x \in 1 .. l : x = j \/ x = k) BY <1>1, <1>8
    <2> HIDE DEF k
    <2>3. s[k] # s[j] BY <1>1, <1>3, <2>2 DEF Distinct, l
    <2>4. ToSet(s) \ {s[j]} = {s[k]} BY <1>1, <2>2, <2>3
    <2>5. Belongs(s[k], id, K, i, n) BY <1>3, <2>2
    <2> QED BY <2>1, <2>4, <2>5, OnePair
<1>9. ASSUME ~ b.user /\ l # 2 PROVE Good
    <2>1. l \in 2 .. b.room /\ l > 2 BY <1>2, <1>6, <1>9
    <2>2. RemovedFrom(b, j) = [user |-> FALSE, pairs |-> u, room |-> b.room]
        <3>1. b.user = FALSE BY <1>1, <1>9
        <3>2. RemovedFrom(b, j) = [b EXCEPT !.pairs = u] BY <1>4, <1>9
        <3> QED BY <1>5, <3>1, <3>2
    <2>3. Last(s) = s[l] BY DEF Last, l
    <2>4. s[l] \in PairsOf(K) BY <1>3, <2>1 DEF Belongs
    <2>5. t \in Seq(PairsOf(K)) /\ Len(t) = l /\ \A k \in 1 .. l : t[k] = IF k = j THEN s[l] ELSE s[k]
        BY <1>1, <2>3, <2>4, ExceptSeq DEF l, t
    <2>6. t # <<>> BY <2>1, <2>5
    <2>7. /\ u \in Seq(PairsOf(K)) /\ Len(u) = l - 1
          /\ \A k \in 1 .. l - 1 : u[k] = t[k]
        <3>1. Front(t) \in Seq(PairsOf(K)) /\ Len(Front(t)) = Len(t) - 1
              /\ \A k \in 1 .. Len(t) - 1 : Front(t)[k] = t[k]
            BY <2>5, <2>6, FrontIs
        <3> QED BY <2>5, <3>1 DEF u
    <2> DEFINE from(k) == IF k = j THEN l ELSE k
    <2>8. \A k \in 1 .. l - 1 : from(k) \in 1 .. l /\ u[k] = s[from(k)] BY <1>1, <2>5, <2>7
    <2>9. \A k, m \in 1 .. l - 1 : from(k) = from(m) => k = m BY <1>1
    <2>10. \A x \in 1 .. l : x # j => \E k \in 1 .. l - 1 : from(k) = x
        <3> SUFFICES ASSUME NEW x \in 1 .. l, x # j PROVE \E k \in 1 .. l - 1 : from(k) = x
            OBVIOUS
        <3>1. CASE x = l
            <4>1. j \in 1 .. l - 1 /\ from(j) = x BY <1>1, <3>1
            <4> QED BY <4>1
        <3>2. CASE x # l
            <4>1. x \in 1 .. l - 1 /\ from(x) = x BY <1>1, <3>2
            <4> QED BY <4>1
        <3> QED BY <3>1, <3>2
    <2>11. \A k \in 1 .. l - 1 : from(k) # j BY <1>1
    <2> HIDE DEF from
    <2>12. Distinct(u, id)
        <3> SUFFICES ASSUME NEW k \in 1 .. l - 1, NEW m \in 1 .. l - 1, id[u[k].key] = id[u[m].key]
                     PROVE  k = m
            BY <2>7 DEF Distinct
        <3>1. from(k) = from(m) BY <1>3, <2>8, SMTT(30) DEF Distinct, l
        <3> QED BY <2>9, <3>1
    <2>13. \A k \in 1 .. Len(u) : Belongs(u[k], id, K, i, n) BY <1>3, <2>7, <2>8
    <2>14. Len(u) \in 2 .. b.room BY <1>1, <2>1, <2>7
    <2>15. BucketFits([user |-> FALSE, pairs |-> u, room |-> b.room], id, K, i, n)
        BY <1>1, <2>7, <2>12, <2>13, <2>14, BucketFrom
    <2>16. ToSet(u) = ToSet(s) \ {s[j]}
        <3>1. ToSet(u) = {u[k] : k \in 1 .. l - 1} BY <2>7, SeqMembers
        <3>2. \A k \in 1 .. l - 1 : u[k] \in ToSet(s) \ {s[j]}
            <4> TAKE k \in 1 .. l - 1
            <4>1. from(k) \in 1 .. l /\ from(k) # j /\ u[k] = s[from(k)] BY <2>8, <2>11
            <4>2. s[from(k)] # s[j] BY <1>1, <1>3, <4>1 DEF Distinct, l
            <4> QED BY <1>1, <4>1, <4>2
        <3>3. \A p \in ToSet(s) \ {s[j]} : p \in ToSet(u)
            <4> TAKE p \in ToSet(s) \ {s[j]}
            <4>1. PICK x \in 1 .. l : p = s[x] BY <1>1
            <4>2. x # j BY <4>1
            <4>3. PICK k \in 1 .. l - 1 : from(k) = x BY <2>10, <4>2
            <4> QED BY <2>8, <3>1, <4>1, <4>3
        <3> QED BY <3>1, <3>2, <3>3
    <2>17. RemovedFrom(b, j).pairs = u BY <2>2, SMTT(30)
    <2> QED BY <2>2, <2>15, <2>16, <2>17
<1> QED BY <1>7, <1>8, <1>9 DEF s

-----------------------------------------------------------------------------
(* Tables *)

\* Every bucket fits in its place.
TableFits(t, id, K) ==
    /\ t \in Tables(K) /\ Len(t.buckets) >= 1
    /\ \A i \in 1 .. Len(t.buckets) : BucketFits(t.buckets[i], id, K, i, Len(t.buckets))

\* The pairs in a table, and a table that counts them.
Held(t) == UNION {ToSet(t.buckets[i].pairs) : i \in 1 .. Len(t.buckets)}
Sound(t, id, K) ==
    TableFits(t, id, K) /\ IsFiniteSet(Held(t)) /\ t.elts = Cardinality(Held(t))

\* A table with as many buckets that has these pairs.
TableWith(t, n, pairs, id, K) == TableFits(t, id, K) /\ Len(t.buckets) = n /\ Held(t) = pairs

\* A table's buckets.
LEMMA TableBuckets ==
    ASSUME NEW t, NEW id, NEW K, TableFits(t, id, K)
    PROVE  /\ t.buckets \in Seq(BucketsOf(K)) /\ Len(t.buckets) \in Nat \ {0}
           /\ DOMAIN t.buckets = 1 .. Len(t.buckets)
           /\ \A i \in 1 .. Len(t.buckets) :
                  t.buckets[i] \in BucketsOf(K) /\ BucketFits(t.buckets[i], id, K, i, Len(t.buckets))
           /\ t.elts \in Nat /\ t.flags \in SUBSET Flags /\ t # NoHash
           /\ t = [buckets |-> t.buckets, elts |-> t.elts, flags |-> t.flags]
<1>1. t.buckets \in Seq(BucketsOf(K)) /\ t.elts \in Nat /\ t.flags \in SUBSET Flags
      /\ t = [buckets |-> t.buckets, elts |-> t.elts, flags |-> t.flags]
    BY DEF TableFits, Tables
<1>2. Len(t.buckets) \in Nat \ {0} /\ DOMAIN t.buckets = 1 .. Len(t.buckets)
    BY <1>1, SeqMembers DEF TableFits
<1>3. t # NoHash
    <2>1. Len(<<>>) = 0 /\ NoHash.buckets = <<>> BY DEF NoHash
    <2> QED BY <2>1 DEF TableFits
<1> QED BY <1>1, <1>2, <1>3 DEF TableFits, BucketFits

\* A key's sum tells the bucket.
LEMMA BucketIs ==
    ASSUME NEW t, NEW id, NEW K, TableFits(t, id, K), NEW key, id[key] \in HashKeys
    PROVE  /\ BucketOf(t, id, key) \in 1 .. Len(t.buckets)
           /\ KeySum[id[key]] % Len(t.buckets) = BucketOf(t, id, key) - 1
<1> DEFINE n == Len(t.buckets)
           k == KeySum[id[key]]
<1>1. n \in Nat \ {0} BY TableBuckets
<1>2. k \in Int BY HashAssumption
<1>3. BucketOf(t, id, key) = (k % n) + 1 BY DEF BucketOf
<1> HIDE DEF n, k
<1>4. k % n \in 0 .. n - 1 BY <1>1, <1>2, DivMod
<1>5. (k % n) + 1 \in 1 .. n /\ ((k % n) + 1) - 1 = k % n BY <1>1, <1>4
<1> QED BY <1>3, <1>5 DEF n, k

\* A pair of a table is in the bucket of its key, and no other is as its key.
LEMMA HeldPairs ==
    ASSUME NEW t, NEW id, NEW K, TableFits(t, id, K)
    PROVE  /\ \A p \in Held(t) :
                  /\ p \in PairsOf(K) /\ p.key \in K /\ id[p.key] \in HashKeys
                  /\ p \in ToSet(t.buckets[BucketOf(t, id, p.key)].pairs)
                  /\ \A i \in 1 .. Len(t.buckets) :
                         p \in ToSet(t.buckets[i].pairs) => i = BucketOf(t, id, p.key)
           /\ \A p, q \in Held(t) : id[p.key] = id[q.key] => p = q
           /\ \A i \in 1 .. Len(t.buckets) : ToSet(t.buckets[i].pairs) \subseteq Held(t)
<1> DEFINE n == Len(t.buckets)
<1>1. \A i \in 1 .. n : BucketFits(t.buckets[i], id, K, i, n) BY DEF TableFits
<1>2. ASSUME NEW i \in 1 .. n, NEW p \in ToSet(t.buckets[i].pairs)
      PROVE  /\ p \in PairsOf(K) /\ p.key \in K /\ id[p.key] \in HashKeys
             /\ i = BucketOf(t, id, p.key)
             /\ \A q \in ToSet(t.buckets[i].pairs) : id[p.key] = id[q.key] => p = q
    <2>1. Belongs(p, id, K, i, n) /\ \A q \in ToSet(t.buckets[i].pairs) : id[p.key] = id[q.key] => p = q
        BY <1>1, <1>2, BucketMembers
    <2>2. KeySum[id[p.key]] % n = i - 1 BY <2>1 DEF Belongs
    <2>3. i = BucketOf(t, id, p.key)
        <3>1. (KeySum[id[p.key]] % n) + 1 = i BY <2>2
        <3> QED BY <3>1 DEF BucketOf
    <2> QED BY <2>1, <2>3 DEF Belongs, PairsOf
<1>3. \A p \in Held(t) : \E i \in 1 .. n : p \in ToSet(t.buckets[i].pairs) BY DEF Held
<1>4. ASSUME NEW p \in Held(t)
      PROVE  /\ p \in PairsOf(K) /\ p.key \in K /\ id[p.key] \in HashKeys
             /\ p \in ToSet(t.buckets[BucketOf(t, id, p.key)].pairs)
             /\ BucketOf(t, id, p.key) \in 1 .. n
             /\ \A i \in 1 .. n : p \in ToSet(t.buckets[i].pairs) => i = BucketOf(t, id, p.key)
    <2>1. PICK i \in 1 .. n : p \in ToSet(t.buckets[i].pairs) BY <1>3
    <2>2. i = BucketOf(t, id, p.key) BY <1>2, <2>1
    <2> QED BY <1>2, <2>1, <2>2
<1>5. ASSUME NEW p \in Held(t), NEW q \in Held(t), id[p.key] = id[q.key] PROVE p = q
    <2> DEFINE i == BucketOf(t, id, p.key)
    <2>1. i = BucketOf(t, id, q.key) BY <1>5 DEF BucketOf
    <2>2. i \in 1 .. n /\ p \in ToSet(t.buckets[i].pairs) BY <1>4
    <2>3. q \in ToSet(t.buckets[i].pairs) BY <1>4, <2>1
    <2> HIDE DEF i
    <2> QED BY <1>2, <1>5, <2>2, <2>3
<1>6. \A i \in 1 .. n : ToSet(t.buckets[i].pairs) \subseteq Held(t) BY DEF Held
<1> QED BY <1>4, <1>5, <1>6

\* Another bucket in the place of one, for other pairs.
LEMMA BucketReplaced ==
    ASSUME NEW t, NEW id, NEW K, TableFits(t, id, K), NEW i \in 1 .. Len(t.buckets),
           NEW c, BucketFits(c, id, K, i, Len(t.buckets)), NEW e \in Nat,
           NEW u, u = [buckets |-> [t.buckets EXCEPT ![i] = c], elts |-> e, flags |-> t.flags]
    PROVE  /\ TableWith(u, Len(t.buckets), (Held(t) \ ToSet(t.buckets[i].pairs)) \cup ToSet(c.pairs), id, K)
           /\ \A k \in 1 .. Len(t.buckets) : u.buckets[k] = IF k = i THEN c ELSE t.buckets[k]
<1> DEFINE n == Len(t.buckets)
           s == [t.buckets EXCEPT ![i] = c]
<1>1. /\ t.buckets \in Seq(BucketsOf(K)) /\ n \in Nat \ {0} /\ t.flags \in SUBSET Flags
      /\ \A k \in 1 .. n : BucketFits(t.buckets[k], id, K, k, n)
    BY TableBuckets
<1>2. c \in BucketsOf(K) BY DEF BucketFits
<1>3. s \in Seq(BucketsOf(K)) /\ Len(s) = n /\ \A k \in 1 .. n : s[k] = IF k = i THEN c ELSE t.buckets[k]
    BY <1>1, <1>2, ExceptSeq
<1>4. u.buckets = s /\ u.elts = e /\ u.flags = t.flags OBVIOUS
<1> HIDE DEF s
<1>5. u \in Tables(K)
    <2>1. u = [buckets |-> s, elts |-> e, flags |-> t.flags] BY DEF s
    <2> QED BY <1>1, <1>3, <2>1 DEF Tables
<1>6. \A k \in 1 .. n : BucketFits(s[k], id, K, k, n) BY <1>1, <1>3
<1>7. TableFits(u, id, K) BY <1>1, <1>3, <1>4, <1>5, <1>6 DEF TableFits
<1>8. Held(u) = (Held(t) \ ToSet(t.buckets[i].pairs)) \cup ToSet(c.pairs)
    <2>1. Held(u) = UNION {ToSet(s[k].pairs) : k \in 1 .. n} BY <1>3, <1>4 DEF Held
    <2>2. \A k \in 1 .. n : ToSet(s[k].pairs) \subseteq (Held(t) \ ToSet(t.buckets[i].pairs)) \cup ToSet(c.pairs)
        <3> TAKE k \in 1 .. n
        <3>1. CASE k = i BY <1>3, <3>1
        <3>2. CASE k # i
            <4>1. s[k] = t.buckets[k] /\ ToSet(t.buckets[k].pairs) \subseteq Held(t) BY <1>3, <3>2, HeldPairs
            <4>2. \A p \in ToSet(t.buckets[k].pairs) : p \notin ToSet(t.buckets[i].pairs)
                <5> TAKE p \in ToSet(t.buckets[k].pairs)
                <5>1. p \in Held(t) BY <4>1
                <5>2. \A m \in 1 .. n : p \in ToSet(t.buckets[m].pairs) => m = BucketOf(t, id, p.key)
                    BY <5>1, HeldPairs
                <5> QED BY <3>2, <5>2
            <4> QED BY <4>1, <4>2
        <3> QED BY <3>1, <3>2
    <2>3. \A p \in Held(t) \ ToSet(t.buckets[i].pairs) : \E k \in 1 .. n : p \in ToSet(s[k].pairs)
        <3> TAKE p \in Held(t) \ ToSet(t.buckets[i].pairs)
        <3>1. PICK k \in 1 .. n : p \in ToSet(t.buckets[k].pairs) BY DEF Held
        <3>2. k # i BY <3>1
        <3> QED BY <1>3, <3>1, <3>2
    <2>4. s[i] = c BY <1>3
    <2> QED BY <2>1, <2>2, <2>3, <2>4
<1> QED BY <1>3, <1>4, <1>7, <1>8 DEF TableWith

\* Where a key is looked for and what is found there.
Bucket(t, id, key) == t.buckets[BucketOf(t, id, key)]
Found(t, id, key) == Equal(id, Bucket(t, id, key), key)
FoundPair(t, id, key) == Bucket(t, id, key).pairs[First(Found(t, id, key))]

\* A lookup finds the one pair of a key that is equal, or there is none.
LEMMA Looked ==
    ASSUME NEW t, NEW id, NEW K, TableFits(t, id, K), NEW key, id[key] \in HashKeys
    PROVE  /\ BucketFits(Bucket(t, id, key), id, K, BucketOf(t, id, key), Len(t.buckets))
           /\ Found(t, id, key) = {} => \A p \in Held(t) : id[p.key] # id[key]
           /\ Found(t, id, key) # {} =>
                  /\ First(Found(t, id, key)) \in 1 .. Len(Bucket(t, id, key).pairs)
                  /\ FoundPair(t, id, key) \in Held(t) /\ FoundPair(t, id, key) \in PairsOf(K)
                  /\ id[FoundPair(t, id, key).key] = id[key]
<1> DEFINE i == BucketOf(t, id, key)
           n == Len(t.buckets)
           b == Bucket(t, id, key)
           found == Found(t, id, key)
           pair == FoundPair(t, id, key)
<1>1. i \in 1 .. n BY BucketIs
<1>2. b = t.buckets[i] /\ found = Equal(id, b, key) /\ pair = b.pairs[First(found)]
    BY DEF Bucket, Found, FoundPair
<1>3. BucketFits(b, id, K, i, n) BY <1>1, <1>2 DEF TableFits
<1>4. ToSet(b.pairs) \subseteq Held(t) BY <1>1, <1>2, HeldPairs
<1>5. \A p \in Held(t) : p \in ToSet(t.buckets[BucketOf(t, id, p.key)].pairs) BY HeldPairs
<1> HIDE DEF b, found, n, pair
<1>6. b \in BucketsOf(K) BY <1>3 DEF BucketFits
<1>7. ToSet(b.pairs) = {b.pairs[j] : j \in 1 .. Len(b.pairs)} /\ ToSet(b.pairs) \subseteq PairsOf(K)
    BY <1>6, BucketPairs
<1>8. found = {j \in 1 .. Len(b.pairs) : id[b.pairs[j].key] = id[key]}
      /\ \A j \in 1 .. Len(b.pairs) : id[b.pairs[j].key] = id[key] => found = {j} /\ First(found) = j
    BY <1>2, <1>3, FoundOnce
<1>9. ASSUME found = {}, NEW p \in Held(t), id[p.key] = id[key] PROVE FALSE
    <2>1. p \in ToSet(t.buckets[BucketOf(t, id, p.key)].pairs) BY <1>5
    <2>2. BucketOf(t, id, p.key) = i BY <1>9 DEF BucketOf
    <2>3. PICK j \in 1 .. Len(b.pairs) : p = b.pairs[j] BY <1>2, <1>7, <2>1, <2>2
    <2> QED BY <1>8, <1>9, <2>3
<1>10. ASSUME found # {}
       PROVE  /\ First(found) \in 1 .. Len(b.pairs)
              /\ pair \in Held(t) /\ pair \in PairsOf(K)
              /\ id[pair.key] = id[key]
    <2>1. PICK j \in 1 .. Len(b.pairs) : id[b.pairs[j].key] = id[key] BY <1>8, <1>10
    <2>2. First(found) = j BY <1>8, <2>1
    <2> QED BY <1>2, <1>4, <1>7, <2>1, <2>2
<1> QED BY <1>3, <1>9, <1>10 DEF b, found, n, pair

\* A key is found with the pair that the table holds for it.
LEMMA GetPairIs ==
    ASSUME NEW t, NEW id, NEW K, TableFits(t, id, K), NEW key, id[key] \in HashKeys
    PROVE  /\ \A p \in Held(t) : id[p.key] = id[key] => GetPair(t, id, key) = p
           /\ (\A p \in Held(t) : id[p.key] # id[key]) => GetPair(t, id, key) = NoPair
<1> DEFINE found == Found(t, id, key)
           pair == FoundPair(t, id, key)
<1>1. t # NoHash BY TableBuckets
<1>2. GetPair(t, id, key) = IF found = {} THEN NoPair ELSE pair
    BY <1>1 DEF GetPair, Found, Bucket, FoundPair
<1>3. /\ found = {} => \A p \in Held(t) : id[p.key] # id[key]
      /\ found # {} => pair \in Held(t) /\ id[pair.key] = id[key]
    BY Looked
<1> HIDE DEF found, pair
<1>4. \A p, q \in Held(t) : id[p.key] = id[q.key] => p = q BY HeldPairs
<1> QED BY <1>2, <1>3, <1>4

\* One pair changed for another, and one more, in what a table holds.
LEMMA HeldChanged ==
    ASSUME NEW S, IsFiniteSet(S), NEW q
    PROVE  /\ \A p \in S : q \notin S \ {p} =>
                  IsFiniteSet((S \ {p}) \cup {q}) /\ Cardinality((S \ {p}) \cup {q}) = Cardinality(S)
           /\ q \notin S => IsFiniteSet(S \cup {q}) /\ Cardinality(S \cup {q}) = Cardinality(S) + 1
           /\ q \in S => IsFiniteSet(S \ {q}) /\ Cardinality(S \ {q}) = Cardinality(S) - 1
           /\ Cardinality(S) \in Nat
<1>1. Cardinality(S) \in Nat BY FS_CardinalityType
<1>2. ASSUME NEW p \in S, q \notin S \ {p}
      PROVE  IsFiniteSet((S \ {p}) \cup {q}) /\ Cardinality((S \ {p}) \cup {q}) = Cardinality(S)
    <2>1. IsFiniteSet(S \ {p}) /\ Cardinality(S \ {p}) = Cardinality(S) - 1 BY FS_RemoveElement
    <2>2. /\ IsFiniteSet((S \ {p}) \cup {q})
          /\ Cardinality((S \ {p}) \cup {q}) = Cardinality(S \ {p}) + 1
        BY <1>2, <2>1, FS_AddElement
    <2> QED BY <1>1, <2>1, <2>2
<1>3. q \notin S => IsFiniteSet(S \cup {q}) /\ Cardinality(S \cup {q}) = Cardinality(S) + 1
    BY FS_AddElement
<1>4. q \in S => IsFiniteSet(S \ {q}) /\ Cardinality(S \ {q}) = Cardinality(S) - 1
    BY FS_RemoveElement
<1> QED BY <1>1, <1>2, <1>3, <1>4

\* The bucket and the count after a key is set.
SetBucket(t, id, key, value) ==
    IF Found(t, id, key) # {}
    THEN [Bucket(t, id, key) EXCEPT !.pairs[First(Found(t, id, key))].value = value]
    ELSE AddedTo(Bucket(t, id, key), Pair(key, value))
SetCount(t, id, key) == IF Found(t, id, key) # {} THEN t.elts ELSE t.elts + 1

\* lookup SET changes one bucket and the count.
LEMMA SetReplaces ==
    ASSUME NEW t, NEW id, NEW K, TableFits(t, id, K), NEW key, id[key] \in HashKeys, NEW value
    PROVE  Set(t, id, key, value) =
               [buckets |-> [t.buckets EXCEPT ![BucketOf(t, id, key)] = SetBucket(t, id, key, value)],
                elts |-> SetCount(t, id, key), flags |-> t.flags]
<1> DEFINE i == BucketOf(t, id, key)
           found == Found(t, id, key)
           pair == Pair(key, value)
<1>1. /\ t = [buckets |-> t.buckets, elts |-> t.elts, flags |-> t.flags]
      /\ DOMAIN t.buckets = 1 .. Len(t.buckets)
    BY TableBuckets
<1>2. i \in DOMAIN t.buckets BY <1>1, BucketIs
<1>3. found = Equal(id, t.buckets[i], key) /\ Bucket(t, id, key) = t.buckets[i] BY DEF Found, Bucket
<1>4. Set(t, id, key, value) =
          IF found # {} THEN [t EXCEPT !.buckets[i].pairs[First(found)].value = value]
          ELSE [t EXCEPT !.buckets[i] = AddedTo(@, pair), !.elts = @ + 1]
    BY <1>3 DEF Set
<1> HIDE DEF i, found, pair
<1>5. [t EXCEPT !.buckets[i].pairs[First(found)].value = value] =
          [buckets |-> [t.buckets EXCEPT ![i] = [t.buckets[i] EXCEPT !.pairs[First(found)].value = value]],
           elts |-> t.elts, flags |-> t.flags]
    <2> DEFINE B == [t.buckets EXCEPT ![i] = [t.buckets[i] EXCEPT !.pairs[First(found)].value = value]]
    <2>1. [t EXCEPT !.buckets[i].pairs[First(found)].value = value] = [t EXCEPT !.buckets = B] OBVIOUS
    <2> HIDE DEF B
    <2>2. [t EXCEPT !.buckets = B] = [buckets |-> B, elts |-> t.elts, flags |-> t.flags] BY <1>1
    <2> QED BY <2>1, <2>2 DEF B
<1>6. [t EXCEPT !.buckets[i] = AddedTo(@, pair), !.elts = @ + 1] =
          [buckets |-> [t.buckets EXCEPT ![i] = AddedTo(t.buckets[i], pair)],
           elts |-> t.elts + 1, flags |-> t.flags]
    <2> DEFINE B == [t.buckets EXCEPT ![i] = AddedTo(t.buckets[i], pair)]
               x == t.elts + 1
               s == t.buckets
               z == t.elts
               f == t.flags
    <2>1. [t EXCEPT !.buckets[i] = AddedTo(@, pair), !.elts = @ + 1] = [t EXCEPT !.buckets = B, !.elts = x]
        OBVIOUS
    <2> HIDE DEF B, x, s, z, f
    <2>2. t = [buckets |-> s, elts |-> z, flags |-> f] BY <1>1 DEF s, z, f
    <2>3. [t EXCEPT !.buckets = B, !.elts = x] = [buckets |-> B, elts |-> x, flags |-> f]
        <3> DEFINE w == [t EXCEPT !.buckets = B]
        <3>1. w = [buckets |-> B, elts |-> z, flags |-> f] BY <2>2
        <3>2. [t EXCEPT !.buckets = B, !.elts = x] = [w EXCEPT !.elts = x] BY <2>2
        <3> HIDE DEF w
        <3> QED BY <3>1, <3>2
    <2> QED BY <2>1, <2>3 DEF B, x, f
<1>7. CASE found # {}
    <2>1. SetBucket(t, id, key, value) = [t.buckets[i] EXCEPT !.pairs[First(found)].value = value]
          /\ SetCount(t, id, key) = t.elts
        BY <1>3, <1>7 DEF SetBucket, SetCount, found
    <2> QED BY <1>4, <1>5, <1>7, <2>1 DEF i
<1>8. CASE found = {}
    <2>1. SetBucket(t, id, key, value) = AddedTo(t.buckets[i], pair)
          /\ SetCount(t, id, key) = t.elts + 1
        BY <1>3, <1>8 DEF SetBucket, SetCount, found, pair
    <2> QED BY <1>4, <1>6, <1>8, <2>1 DEF i
<1> QED BY <1>7, <1>8

\* What a table holds after a key is set: the pair that was there keeps its key.
IsSet(t, u, id, key, value) ==
    \/ \E p \in Held(t) :
           /\ id[p.key] = id[key] /\ u.elts = t.elts
           /\ Held(u) = (Held(t) \ {p}) \cup {Pair(p.key, value)}
    \/ /\ \A p \in Held(t) : id[p.key] # id[key]
       /\ u.elts = t.elts + 1 /\ Held(u) = Held(t) \cup {Pair(key, value)}

\* lookup SET: the pair of a key that is equal gets the value, or a pair is added.
LEMMA SetIs ==
    ASSUME NEW t, NEW id, NEW K, Sound(t, id, K), NEW key \in K, id[key] \in HashKeys,
           NEW value \in HashValues
    PROVE  /\ Sound(Set(t, id, key, value), id, K)
           /\ IsSet(t, Set(t, id, key, value), id, key, value)
           /\ Len(Set(t, id, key, value).buckets) = Len(t.buckets)
           /\ Set(t, id, key, value).flags = t.flags
<1> DEFINE i == BucketOf(t, id, key)
           n == Len(t.buckets)
           b == Bucket(t, id, key)
           found == Found(t, id, key)
           j == First(found)
           c == SetBucket(t, id, key, value)
           e == SetCount(t, id, key)
           u == Set(t, id, key, value)
           H == Held(t)
<1>1. TableFits(t, id, K) /\ IsFiniteSet(H) /\ t.elts = Cardinality(H) BY DEF Sound
<1>2. u = [buckets |-> [t.buckets EXCEPT ![i] = c], elts |-> e, flags |-> t.flags] BY <1>1, SetReplaces
<1>3. i \in 1 .. n /\ n \in Nat \ {0} /\ t.elts \in Nat /\ b = t.buckets[i]
      /\ KeySum[id[key]] % n = i - 1
    BY <1>1, BucketIs, TableBuckets DEF Bucket
<1>4. /\ BucketFits(b, id, K, i, n)
      /\ found = {} => \A p \in H : id[p.key] # id[key]
      /\ found # {} => /\ j \in 1 .. Len(b.pairs)
                       /\ b.pairs[j] = FoundPair(t, id, key)
                       /\ b.pairs[j] \in H /\ id[b.pairs[j].key] = id[key]
    BY <1>1, Looked DEF FoundPair
<1>5. ToSet(b.pairs) \subseteq H /\ \A p, q \in H : id[p.key] = id[q.key] => p = q
    BY <1>1, <1>3, HeldPairs
<1>6. u.elts = e /\ u.flags = t.flags BY <1>2
<1>7. /\ c = IF found # {} THEN [b EXCEPT !.pairs[j].value = value] ELSE AddedTo(b, Pair(key, value))
      /\ e = IF found # {} THEN t.elts ELSE t.elts + 1
    BY DEF SetBucket, SetCount
<1> HIDE DEF i, n, b, found, j, c, e, u, H
<1>8. ASSUME BucketFits(c, id, K, i, n), e \in Nat
      PROVE  TableFits(u, id, K) /\ Len(u.buckets) = n
             /\ Held(u) = (H \ ToSet(b.pairs)) \cup ToSet(c.pairs)
    <2>1. i \in 1 .. Len(t.buckets) /\ BucketFits(c, id, K, i, Len(t.buckets)) BY <1>3, <1>8 DEF n
    <2>2. TableWith(u, Len(t.buckets), (Held(t) \ ToSet(t.buckets[i].pairs)) \cup ToSet(c.pairs), id, K)
        <3>1. TableFits(t, id, K) /\ e \in Nat BY <1>1, <1>8
        <3> QED BY <1>2, <2>1, <3>1, BucketReplaced, ZenonT(30)
    <2> QED BY <1>3, <2>2 DEF n, H, TableWith
<1>9. CASE found # {}
    <2> DEFINE p == b.pairs[j]
               q == Pair(p.key, value)
    <2>1. BucketFits(c, id, K, i, n) /\ ToSet(c.pairs) = (ToSet(b.pairs) \ {p}) \cup {q}
        <3>1. j \in 1 .. Len(b.pairs) /\ BucketFits(b, id, K, i, n) BY <1>4, <1>9
        <3>2. c = [b EXCEPT !.pairs[j].value = value] BY <1>7, <1>9
        <3>3. FitsWith([b EXCEPT !.pairs[j].value = value],
                       (ToSet(b.pairs) \ {b.pairs[j]}) \cup {Pair(b.pairs[j].key, value)}, id, K, i, n)
            BY <3>1, ValueSetFits
        <3> QED BY <3>2, <3>3 DEF FitsWith
    <2>2. p \in H /\ id[p.key] = id[key] /\ p \in ToSet(b.pairs) /\ q.key = p.key
        <3>1. b.pairs \in Seq(PairsOf(K)) BY <1>4 DEF BucketFits, BucketsOf
        <3>2. p \in ToSet(b.pairs) BY <1>4, <1>9, <3>1, SeqMembers
        <3> QED BY <1>4, <1>9, <3>2 DEF Pair
    <2>3. q \notin H \ {p} BY <1>5, <2>2
    <2> HIDE DEF p, q
    <2>4. TableFits(u, id, K) /\ Len(u.buckets) = n /\ Held(u) = (H \ ToSet(b.pairs)) \cup ToSet(c.pairs)
        BY <1>3, <1>7, <1>8, <1>9, <2>1
    <2>5. Held(u) = (H \ {p}) \cup {q} BY <1>5, <2>1, <2>2, <2>4
    <2>6. IsFiniteSet(Held(u)) /\ Cardinality(Held(u)) = Cardinality(H) 
        <3>1. \A x \in H : q \notin H \ {x} =>
                  IsFiniteSet((H \ {x}) \cup {q}) /\ Cardinality((H \ {x}) \cup {q}) = Cardinality(H)
            BY <1>1, HeldChanged
        <3> QED BY <2>2, <2>3, <2>5, <3>1
    <2>7. u.elts = t.elts BY <1>6, <1>7, <1>9
    <2>8. Sound(u, id, K) BY <1>1, <2>4, <2>6, <2>7 DEF Sound
    <2>9. IsSet(t, u, id, key, value)
        <3>1. p \in Held(t) /\ id[p.key] = id[key] /\ u.elts = t.elts
              /\ Held(u) = (Held(t) \ {p}) \cup {Pair(p.key, value)}
            BY <2>2, <2>5, <2>7 DEF H, q
        <3> QED BY <3>1 DEF IsSet
    <2> QED BY <1>6, <2>4, <2>8, <2>9 DEF u, n
<1>10. CASE found = {}
    <2> DEFINE p == Pair(key, value)
    <2>1. Belongs(p, id, K, i, n) BY <1>3 DEF Belongs, Pair, PairsOf
    <2>2. p.key = key /\ \A q \in H : id[q.key] # id[p.key] BY <1>4, <1>10 DEF Pair
    <2>3. c = AddedTo(b, p) /\ e = t.elts + 1 /\ e \in Nat BY <1>3, <1>7, <1>10
    <2> HIDE DEF p
    <2>4. BucketFits(c, id, K, i, n) /\ ToSet(c.pairs) = ToSet(b.pairs) \cup {p}
        <3>1. \A q \in ToSet(b.pairs) : id[q.key] # id[p.key] BY <1>5, <2>2
        <3>2. BucketFits(b, id, K, i, n) BY <1>4
        <3>3. FitsWith(AddedTo(b, p), ToSet(b.pairs) \cup {p}, id, K, i, n) BY <2>1, <3>1, <3>2, AddedFits
        <3> QED BY <2>3, <3>3 DEF FitsWith
    <2>5. TableFits(u, id, K) /\ Len(u.buckets) = n /\ Held(u) = (H \ ToSet(b.pairs)) \cup ToSet(c.pairs)
        BY <1>8, <2>3, <2>4
    <2>6. Held(u) = H \cup {p} /\ p \notin H BY <1>5, <2>2, <2>4, <2>5
    <2>7. IsFiniteSet(Held(u)) /\ Cardinality(Held(u)) = Cardinality(H) + 1 BY <1>1, <2>6, HeldChanged
    <2>8. u.elts = t.elts + 1 BY <1>6, <2>3
    <2>9. Sound(u, id, K) BY <1>1, <2>5, <2>7, <2>8 DEF Sound
    <2>10. IsSet(t, u, id, key, value) BY <2>2, <2>6, <2>8 DEF IsSet, H, p, Pair
    <2> QED BY <1>6, <2>5, <2>9, <2>10 DEF u, n
<1> QED BY <1>9, <1>10

\* What a table holds after a key is unset.
IsUnset(t, u, id, key) ==
    \/ \E p \in Held(t) :
           /\ id[p.key] = id[key] /\ u.elts = t.elts - 1 /\ Held(u) = Held(t) \ {p}
    \/ (\A p \in Held(t) : id[p.key] # id[key]) /\ u = t

\* lookup UNSET: the pair of a key that is equal is gone, or there was none.
LEMMA UnsetIs ==
    ASSUME NEW t, NEW id, NEW K, Sound(t, id, K), NEW key, id[key] \in HashKeys
    PROVE  /\ Sound(Unset(t, id, key), id, K)
           /\ IsUnset(t, Unset(t, id, key), id, key)
           /\ Len(Unset(t, id, key).buckets) = Len(t.buckets)
           /\ Unset(t, id, key).flags = t.flags
<1> DEFINE i == BucketOf(t, id, key)
           n == Len(t.buckets)
           b == Bucket(t, id, key)
           found == Found(t, id, key)
           j == First(found)
           c == RemovedFrom(b, j)
           e == t.elts - 1
           u == Unset(t, id, key)
           H == Held(t)
<1>1. TableFits(t, id, K) /\ IsFiniteSet(H) /\ t.elts = Cardinality(H) BY DEF Sound
<1>2. i \in 1 .. n /\ n \in Nat \ {0} /\ t.elts \in Nat /\ b = t.buckets[i]
      /\ t = [buckets |-> t.buckets, elts |-> t.elts, flags |-> t.flags]
    BY <1>1, BucketIs, TableBuckets DEF Bucket
<1>3. u = IF found = {} THEN t ELSE [t EXCEPT !.buckets[i] = c, !.elts = e]
    <2>1. found = Equal(id, t.buckets[i], key) /\ b = t.buckets[i] BY DEF Found, Bucket
    <2>2. u = IF found = {} THEN t
              ELSE [t EXCEPT !.buckets[i] = RemovedFrom(t.buckets[i], j), !.elts = t.elts - 1]
        BY <2>1 DEF Unset
    <2> QED BY <2>1, <2>2
<1>4. /\ BucketFits(b, id, K, i, n)
      /\ found = {} => \A p \in H : id[p.key] # id[key]
      /\ found # {} => /\ j \in 1 .. Len(b.pairs)
                       /\ b.pairs[j] = FoundPair(t, id, key)
                       /\ b.pairs[j] \in H /\ id[b.pairs[j].key] = id[key]
    BY <1>1, Looked DEF FoundPair
<1>5. ToSet(b.pairs) \subseteq H BY <1>1, <1>2, HeldPairs
<1>6. CASE found = {}
    <2>1. u = t BY <1>3, <1>6
    <2>2. IsUnset(t, u, id, key) BY <1>4, <1>6, <2>1 DEF IsUnset
    <2> HIDE DEF u
    <2>3. Sound(u, id, K) /\ Len(u.buckets) = n /\ u.flags = t.flags BY <2>1
    <2> QED BY <2>2, <2>3 DEF u
<1> HIDE DEF i, n, b, found, j, c, e, u, H
<1>7. CASE found # {}
    <2> DEFINE p == b.pairs[j]
               B == [t.buckets EXCEPT ![i] = c]
               s == t.buckets
               z == t.elts
               f == t.flags
    <2>1. u = [t EXCEPT !.buckets = B, !.elts = e] BY <1>3, <1>7
    <2>2. u = [buckets |-> B, elts |-> e, flags |-> t.flags]
        <3> HIDE DEF B, s, z, f
        <3>1. t = [buckets |-> s, elts |-> z, flags |-> f] BY <1>2 DEF s, z, f
        <3> DEFINE w == [t EXCEPT !.buckets = B]
        <3>2. w = [buckets |-> B, elts |-> z, flags |-> f] BY <3>1
        <3>3. u = [w EXCEPT !.elts = e] BY <2>1
        <3> HIDE DEF w
        <3>4. u = [buckets |-> B, elts |-> e, flags |-> f] BY <3>2, <3>3
        <3> QED BY <3>4 DEF f
    <2>3. j \in 1 .. Len(b.pairs) /\ BucketFits(b, id, K, i, n) BY <1>4, <1>7
    <2>4. FitsWith(c, ToSet(b.pairs) \ {p}, id, K, i, n) BY <2>3, RemovedFits DEF c
    <2>5. p \in H /\ id[p.key] = id[key] /\ p \in ToSet(b.pairs)
        <3>1. b.pairs \in Seq(PairsOf(K)) BY <1>4 DEF BucketFits, BucketsOf
        <3>2. p \in ToSet(b.pairs) BY <2>3, <3>1, SeqMembers
        <3> QED BY <1>4, <1>7, <3>2
    <2> HIDE DEF p
    <2>6. IsFiniteSet(H \ {p}) /\ Cardinality(H \ {p}) = e /\ e \in Nat
        <3>1. IsFiniteSet(H \ {p}) /\ Cardinality(H \ {p}) = Cardinality(H) - 1 BY <1>1, <2>5, FS_RemoveElement
        <3>2. Cardinality(H \ {p}) \in Nat BY <3>1, FS_CardinalityType
        <3> QED BY <1>1, <3>1, <3>2 DEF e
    <2>7. TableWith(u, n, (H \ ToSet(b.pairs)) \cup ToSet(c.pairs), id, K)
        <3>1. i \in 1 .. Len(t.buckets) /\ BucketFits(c, id, K, i, Len(t.buckets))
            BY <1>2, <2>4 DEF n, FitsWith
        <3>2. TableWith(u, Len(t.buckets), (Held(t) \ ToSet(t.buckets[i].pairs)) \cup ToSet(c.pairs), id, K)
            <4>1. TableFits(t, id, K) /\ e \in Nat BY <1>1, <2>6
            <4> HIDE DEF s, z, f
            <4> QED BY <4>1, <2>2, <3>1, BucketReplaced, ZenonT(60)
        <3> QED BY <1>2, <3>2 DEF n, H
    <2>8. ToSet(c.pairs) = ToSet(b.pairs) \ {p} BY <2>4 DEF FitsWith
    <2>9. (H \ ToSet(b.pairs)) \cup ToSet(c.pairs) = H \ {p} BY <1>5, <2>5, <2>8
    <2>10. TableFits(u, id, K) /\ Len(u.buckets) = n /\ Held(u) = H \ {p} BY <2>7, <2>9 DEF TableWith
    <2>11. u.elts = e /\ u.flags = t.flags BY <2>2
    <2>12. Sound(u, id, K) BY <2>6, <2>10, <2>11 DEF Sound
    <2>13. IsUnset(t, u, id, key) BY <2>5, <2>10, <2>11 DEF IsUnset, H, e
    <2> QED BY <2>10, <2>11, <2>12, <2>13 DEF u, n
<1> QED BY <1>6, <1>7

\* A new table is empty, and large enough.
LEMMA CreatedIs ==
    ASSUME NEW elts \in Nat, NEW flags \in SUBSET Flags, NEW id, NEW K
    PROVE  /\ Sound(Created(elts, flags), id, K) /\ Held(Created(elts, flags)) = {}
           /\ Created(elts, flags).elts = 0 /\ Created(elts, flags).flags = flags
           /\ Len(Created(elts, flags).buckets) >= elts
<1> DEFINE x == IF elts > UserBits THEN elts ELSE UserBits
           n == Capacity(elts)
           s == [i \in 1 .. n |-> EmptyBucket]
           t == Created(elts, flags)
<1>1. x \in Nat /\ x >= 1 /\ x >= elts BY HashAssumption
<1>2. n = Pow2[MaxLog2(x)] BY DEF Capacity
<1>3. t = [buckets |-> s, elts |-> 0, flags |-> flags] BY DEF Created
<1> HIDE DEF x, n, t
<1>4. MaxLog2(x) \in Nat /\ Pow2[MaxLog2(x)] >= x BY <1>1, Log2
<1>5. n \in Nat /\ n >= x BY <1>2, <1>4, Powers
<1>6. \A i \in 1 .. n : s[i] = EmptyBucket OBVIOUS
<1>7. EmptyBucket \in BucketsOf(K) BY EmptyFits DEF BucketFits
<1>8. s \in Seq(BucketsOf(K)) /\ Len(s) = n
    <2>1. s \in [1 .. n -> BucketsOf(K)] BY <1>7
    <2> HIDE DEF s
    <2>2. s \in Seq(BucketsOf(K)) BY <1>5, <2>1, SeqDef
    <2>3. DOMAIN s = 1 .. n BY <2>1
    <2>4. Len(s) \in Nat /\ DOMAIN s = 1 .. Len(s) BY <2>2, LenProperties
    <2> QED BY <1>5, <2>2, <2>3, <2>4
<1> HIDE DEF s
<1>9. t.buckets = s /\ t.elts = 0 /\ t.flags = flags BY <1>3
<1>10. t \in Tables(K) BY <1>3, <1>8 DEF Tables
<1>11. TableFits(t, id, K)
    <2>1. \A i \in 1 .. n : BucketFits(EmptyBucket, id, K, i, n) BY EmptyFits
    <2> QED BY <1>1, <1>5, <1>6, <1>8, <1>9, <1>10, <2>1 DEF TableFits
<1>12. Held(t) = {}
    <2>1. ToSet(EmptyBucket.pairs) = {} BY EmptyFits
    <2>2. \A i \in 1 .. n : ToSet(s[i].pairs) = {} BY <1>6, <2>1
    <2>3. Len(t.buckets) = n /\ \A i \in 1 .. n : ToSet(t.buckets[i].pairs) = {} BY <1>8, <1>9, <2>2
    <2>4. \A p : ~ (p \in Held(t)) BY <2>3 DEF Held
    <2> QED BY <2>4
<1>13. Sound(t, id, K) BY <1>9, <1>11, <1>12, FS_EmptySet DEF Sound
<1>14. Len(t.buckets) >= elts BY <1>1, <1>5, <1>8, <1>9
<1> QED BY <1>9, <1>12, <1>13, <1>14 DEF t

-----------------------------------------------------------------------------
(* The pairs of a table as a sequence *)

\* A sequence of these pairs, each of another key.
PairsWith(s, pairs, id, K) == s \in Seq(PairsOf(K)) /\ ToSet(s) = pairs /\ Distinct(s, id)

\* Two of them joined, when their keys differ.
LEMMA PairsJoined ==
    ASSUME NEW id, NEW K, NEW P, NEW R, NEW s, PairsWith(s, P, id, K), NEW t, PairsWith(t, R, id, K),
           \A p \in P, q \in R : id[p.key] # id[q.key]
    PROVE  PairsWith(s \o t, P \cup R, id, K) /\ Len(s \o t) = Len(s) + Len(t)
<1> DEFINE l == Len(s)
           m == Len(t)
           u == s \o t
<1>1. s \in Seq(PairsOf(K)) /\ t \in Seq(PairsOf(K)) /\ ToSet(s) = P /\ ToSet(t) = R
      /\ Distinct(s, id) /\ Distinct(t, id)
    BY DEF PairsWith
<1>2. /\ l \in Nat /\ m \in Nat
      /\ \A j \in 1 .. l : s[j] \in P
      /\ \A j \in 1 .. m : t[j] \in R
      /\ P = {s[j] : j \in 1 .. l} /\ R = {t[j] : j \in 1 .. m}
    BY <1>1, SeqMembers
<1>3. u \in Seq(PairsOf(K)) /\ Len(u) = l + m
      /\ \A j \in 1 .. l + m : u[j] = IF j <= l THEN s[j] ELSE t[j - l]
    BY <1>1, ConcatProperties
<1>4. ToSet(u) = {u[j] : j \in 1 .. l + m}
    <2> HIDE DEF u, l, m
    <2> QED BY <1>3, SeqMembers
<1>5. (\A j, k \in 1 .. l : id[s[j].key] = id[s[k].key] => j = k)
      /\ (\A j, k \in 1 .. m : id[t[j].key] = id[t[k].key] => j = k)
    BY <1>1 DEF Distinct
<1> HIDE DEF l, m, u
<1>6. \A j \in 1 .. l : j \in 1 .. l + m /\ u[j] = s[j] BY <1>2, <1>3
<1>7. \A j \in 1 .. m : l + j \in 1 .. l + m /\ u[l + j] = t[j]
    <2> TAKE j \in 1 .. m
    <2>1. l + j \in 1 .. l + m /\ ~ (l + j <= l) /\ (l + j) - l = j BY <1>2
    <2> QED BY <1>3, <2>1
<1>8. \A x \in 1 .. l + m : x \in 1 .. l \/ \E j \in 1 .. m : x = l + j
    <2> TAKE x \in 1 .. l + m
    <2>1. CASE x <= l BY <1>2, <2>1
    <2>2. CASE x > l
        <3>1. x - l \in 1 .. m /\ x = l + (x - l) BY <1>2, <2>2
        <3> QED BY <3>1
    <2> QED BY <1>2, <2>1, <2>2
<1>9. ToSet(u) = P \cup R
    <2>1. \A x \in 1 .. l + m : u[x] \in P \cup R
        <3> TAKE x \in 1 .. l + m
        <3>1. CASE x \in 1 .. l BY <1>2, <1>6, <3>1
        <3>2. CASE \E j \in 1 .. m : x = l + j BY <1>2, <1>7, <3>2
        <3> QED BY <1>8, <3>1, <3>2
    <2>2. \A p \in P : p \in ToSet(u) BY <1>2, <1>4, <1>6
    <2>3. \A q \in R : q \in ToSet(u)
        <3> TAKE q \in R
        <3>1. PICK j \in 1 .. m : q = t[j] BY <1>2
        <3> QED BY <1>4, <1>7, <3>1
    <2> QED BY <1>4, <2>1, <2>2, <2>3
<1>10. Distinct(u, id)
    <2> SUFFICES ASSUME NEW x \in 1 .. l + m, NEW y \in 1 .. l + m, id[u[x].key] = id[u[y].key]
                 PROVE  x = y
        BY <1>3 DEF Distinct
    <2>1. CASE x \in 1 .. l /\ y \in 1 .. l BY <1>5, <1>6, <2>1
    <2>2. ASSUME x \in 1 .. l, NEW j \in 1 .. m, y = l + j PROVE FALSE
        <3>1. u[x] \in P /\ u[y] \in R BY <1>2, <1>6, <1>7, <2>2
        <3> QED BY <3>1
    <2>3. ASSUME y \in 1 .. l, NEW j \in 1 .. m, x = l + j PROVE FALSE
        <3>1. u[y] \in P /\ u[x] \in R BY <1>2, <1>6, <1>7, <2>3
        <3> QED BY <3>1
    <2>4. ASSUME NEW j \in 1 .. m, x = l + j, NEW k \in 1 .. m, y = l + k PROVE x = y
        <3>1. u[x] = t[j] /\ u[y] = t[k] BY <1>7, <2>4
        <3>2. j = k BY <1>5, <3>1
        <3> QED BY <2>4, <3>2
    <2> QED BY <1>8, <2>1, <2>2, <2>3, <2>4
<1>11. PairsWith(u, P \cup R, id, K) BY <1>3, <1>9, <1>10 DEF PairsWith
<1> QED BY <1>3, <1>11 DEF u, l, m

\* As many as their set has.
LEMMA PairsCounted ==
    ASSUME NEW id, NEW K, NEW P, NEW s, PairsWith(s, P, id, K)
    PROVE  IsFiniteSet(P) /\ Cardinality(P) = Len(s) /\ Len(s) \in Nat
<1> DEFINE n == Len(s)
<1>1. s \in Seq(PairsOf(K)) /\ ToSet(s) = P /\ Distinct(s, id) BY DEF PairsWith
<1>2. n \in Nat /\ DOMAIN s = 1 .. n /\ (\A j \in 1 .. n : s[j] \in P) /\ P = {s[j] : j \in 1 .. n}
      /\ s \in [1 .. n -> PairsOf(K)]
    BY <1>1, SeqMembers, LenProperties
<1>3. \A j, k \in 1 .. n : s[j] = s[k] => j = k BY <1>1 DEF Distinct
<1> HIDE DEF n
<1>4. s \in [1 .. n -> P] BY <1>2
<1>5. IsInjective(s) BY <1>2, <1>3 DEF IsInjective
<1>6. \A p \in P : \E j \in 1 .. n : s[j] = p BY <1>2
<1>7. s \in Bijection(1 .. n, P) BY <1>4, <1>5, <1>6 DEF Bijection, Injection, Surjection
<1>8. ExistsBijection(1 .. n, P) BY <1>7 DEF ExistsBijection
<1>9. IsFiniteSet(1 .. n) /\ Cardinality(1 .. n) = n
    <2>1. 1 \in Int /\ n \in Int BY <1>2
    <2>2. IsFiniteSet(1 .. n) /\ Cardinality(1 .. n) = IF 1 > n THEN 0 ELSE n - 1 + 1
        BY <2>1, FS_Interval, Zenon
    <2>3. (IF 1 > n THEN 0 ELSE n - 1 + 1) = n BY <1>2
    <2> QED BY <2>2, <2>3
<1>10. IsFiniteSet(P) /\ Cardinality(P) = n BY <1>8, <1>9, FS_Bijection
<1> QED BY <1>2, <1>10 DEF n

\* hash_foreach_pair visits each pair of a table, and each once.
LEMMA PairsIs ==
    ASSUME NEW t, NEW id, NEW K, Sound(t, id, K)
    PROVE  PairsWith(Pairs(t), Held(t), id, K) /\ Len(Pairs(t)) = t.elts
<1> DEFINE n == Len(t.buckets)
           seqs == [i \in DOMAIN t.buckets |-> t.buckets[i].pairs]
           Upto(k) == UNION {ToSet(t.buckets[i].pairs) : i \in 1 .. k}
<1>1. TableFits(t, id, K) /\ IsFiniteSet(Held(t)) /\ t.elts = Cardinality(Held(t)) BY DEF Sound
<1>2. n \in Nat /\ DOMAIN t.buckets = 1 .. n
      /\ \A i \in 1 .. n : BucketFits(t.buckets[i], id, K, i, n) /\ t.buckets[i] \in BucketsOf(K)
    BY <1>1, TableBuckets
<1>3. \A i \in 1 .. n : PairsWith(t.buckets[i].pairs, ToSet(t.buckets[i].pairs), id, K)
    BY <1>2 DEF PairsWith, BucketFits, BucketsOf
<1>4. Pairs(t) = FlattenSeq(seqs) /\ Held(t) = Upto(n) BY DEF Pairs, Held
<1> HIDE DEF n
<1>5. seqs \in [1 .. n -> Seq(PairsOf(K))] /\ \A i \in 1 .. n : seqs[i] = t.buckets[i].pairs
    BY <1>2, <1>3 DEF PairsWith
<1> HIDE DEF seqs
<1>6. seqs \in Seq(Seq(PairsOf(K))) /\ Len(seqs) = n
    <2> DEFINE S == Seq(PairsOf(K))
    <2>1. seqs \in [1 .. n -> S] BY <1>5
    <2> HIDE DEF S
    <2>2. seqs \in Seq(S) BY <1>2, <2>1, SeqDef
    <2>3. DOMAIN seqs = 1 .. n BY <2>1
    <2>4. Len(seqs) \in Nat /\ DOMAIN seqs = 1 .. Len(seqs) BY <2>2, LenProperties
    <2>5. Len(seqs) = n BY <1>2, <2>3, <2>4
    <2> QED BY <2>2, <2>5 DEF S
<1>7. PICK f \in [0 .. Len(seqs) -> Seq(PairsOf(K))] :
          InTurn(f, seqs) /\ FlattenSeq(seqs) = f[Len(seqs)]
    BY <1>6, FlattenIs
<1>8. f[0] = <<>> /\ \A k \in 1 .. n : f[k] = f[k - 1] \o t.buckets[k].pairs
    BY <1>5, <1>6, <1>7 DEF InTurn
<1>9. \A p, q \in Held(t) : id[p.key] = id[q.key] => p = q BY <1>1, HeldPairs
<1>10. \A k \in 1 .. n, i \in 1 .. n : i # k =>
           \A p \in ToSet(t.buckets[i].pairs), q \in ToSet(t.buckets[k].pairs) : id[p.key] # id[q.key]
    <2> SUFFICES ASSUME NEW k \in 1 .. n, NEW i \in 1 .. n, i # k,
                        NEW p \in ToSet(t.buckets[i].pairs), NEW q \in ToSet(t.buckets[k].pairs),
                        id[p.key] = id[q.key]
                 PROVE  FALSE
        OBVIOUS
    <2>1. p \in Held(t) /\ q \in Held(t) BY DEF Held, n
    <2>2. p = q BY <1>9, <2>1
    <2>3. \A m \in 1 .. Len(t.buckets) : p \in ToSet(t.buckets[m].pairs) => m = BucketOf(t, id, p.key)
        BY <1>1, <2>1, HeldPairs
    <2>4. i = k BY <2>2, <2>3 DEF n
    <2> QED BY <2>4
<1> DEFINE G == {k \in 0 .. n : PairsWith(f[k], Upto(k), id, K)}
<1>11. 0 \in G
    <2>1. <<>> \in Seq(PairsOf(K)) /\ Len(<<>>) = 0 BY EmptySeq
    <2>2. ToSet(<<>>) = {} /\ Distinct(<<>>, id) BY <2>1 DEF ToSet, Distinct
    <2>3. Upto(0) = {} OBVIOUS
    <2>4. PairsWith(f[0], Upto(0), id, K) BY <1>8, <2>1, <2>2, <2>3 DEF PairsWith
    <2> QED BY <1>2, <2>4
<1>12. ASSUME NEW k \in 1 .. n, k - 1 \in G PROVE k \in G
    <2> DEFINE A == ToSet(t.buckets[k].pairs)
    <2>1. PairsWith(f[k - 1], Upto(k - 1), id, K) BY <1>12
    <2>2. \A p \in Upto(k - 1), q \in A : id[p.key] # id[q.key]
        <3> TAKE p \in Upto(k - 1), q \in A
        <3>1. PICK i \in 1 .. k - 1 : p \in ToSet(t.buckets[i].pairs) OBVIOUS
        <3>2. i \in 1 .. n /\ i # k BY <1>2
        <3> QED BY <1>10, <3>1, <3>2
    <2>3. Upto(k) = Upto(k - 1) \cup A
        <3>1. \A p \in Upto(k) : p \in Upto(k - 1) \cup A
            <4> TAKE p \in Upto(k)
            <4>1. PICK i \in 1 .. k : p \in ToSet(t.buckets[i].pairs) OBVIOUS
            <4>2. CASE i = k BY <4>1, <4>2
            <4>3. CASE i # k
                <5>1. i \in 1 .. k - 1 BY <1>2, <4>3
                <5> QED BY <4>1, <5>1
            <4> QED BY <4>2, <4>3
        <3>2. \A p \in Upto(k - 1) : p \in Upto(k)
            <4> TAKE p \in Upto(k - 1)
            <4>1. PICK i \in 1 .. k - 1 : p \in ToSet(t.buckets[i].pairs) OBVIOUS
            <4>2. i \in 1 .. k BY <1>2
            <4> QED BY <4>1, <4>2
        <3>3. A \subseteq Upto(k)
            <4>1. k \in 1 .. k BY <1>2
            <4> QED BY <4>1
        <3> QED BY <3>1, <3>2, <3>3
    <2>4. PairsWith(t.buckets[k].pairs, A, id, K) BY <1>3
    <2> HIDE DEF Upto, A
    <2>5. PairsWith(f[k - 1] \o t.buckets[k].pairs, Upto(k - 1) \cup A, id, K)
        BY <2>1, <2>2, <2>4, PairsJoined
    <2>6. PairsWith(f[k], Upto(k), id, K) BY <1>8, <2>3, <2>5
    <2> QED BY <2>6
<1> HIDE DEF Upto
<1>13. n \in G
    <2> HIDE DEF G
    <2>1. 0 .. n \subseteq G BY <1>2, <1>11, <1>12, AllNumbersUpTo
    <2> QED BY <1>2, <2>1
<1>14. PairsWith(Pairs(t), Held(t), id, K) BY <1>4, <1>6, <1>7, <1>13
<1>15. Len(Pairs(t)) = t.elts BY <1>1, <1>14, PairsCounted
<1> QED BY <1>14, <1>15

\* Without the first.
LEMMA PairsTail ==
    ASSUME NEW id, NEW K, NEW R, NEW s, PairsWith(s, R, id, K), s # <<>>
    PROVE  /\ Head(s) \in R /\ Head(s) \in PairsOf(K) /\ PairsWith(Tail(s), R \ {Head(s)}, id, K)
           /\ Len(Tail(s)) = Len(s) - 1 /\ Len(s) \in Nat \ {0}
           /\ \A q \in R \ {Head(s)} : id[q.key] # id[Head(s).key]
<1> DEFINE n == Len(s)
           t == Tail(s)
<1>1. s \in Seq(PairsOf(K)) /\ ToSet(s) = R /\ Distinct(s, id) BY DEF PairsWith
<1>2. n \in Nat /\ n # 0 /\ (\A j \in 1 .. n : s[j] \in R /\ s[j] \in PairsOf(K)) /\ R = {s[j] : j \in 1 .. n}
    BY <1>1, SeqMembers, EmptySeq
<1>3. t \in Seq(PairsOf(K)) /\ Len(t) = n - 1 /\ \A j \in 1 .. n - 1 : t[j] = s[j + 1]
    <2>1. t \in Seq(PairsOf(K)) /\ Len(t) = n - 1 /\ \A j \in 1 .. Len(t) : t[j] = s[j + 1]
        BY <1>1, HeadTailProperties
    <2> QED BY <2>1
<1>4. Head(s) = s[1] OBVIOUS
<1>5. \A j, k \in 1 .. n : id[s[j].key] = id[s[k].key] => j = k BY <1>1 DEF Distinct
<1> HIDE DEF n, t
<1>6. ToSet(t) = {t[j] : j \in 1 .. n - 1} BY <1>3, SeqMembers
<1>7. \A j \in 1 .. n - 1 : j + 1 \in 1 .. n /\ j + 1 # 1 /\ t[j] = s[j + 1] BY <1>2, <1>3
<1>8. 1 \in 1 .. n BY <1>2
<1>9. ToSet(t) = R \ {s[1]}
    <2>1. \A j \in 1 .. n - 1 : t[j] \in R \ {s[1]}
        <3> TAKE j \in 1 .. n - 1
        <3>1. s[j + 1] # s[1] BY <1>5, <1>7, <1>8
        <3> QED BY <1>2, <1>7, <3>1
    <2>2. \A q \in R \ {s[1]} : q \in ToSet(t)
        <3> TAKE q \in R \ {s[1]}
        <3>1. PICK k \in 1 .. n : q = s[k] BY <1>2
        <3>2. k # 1 BY <3>1
        <3>3. k - 1 \in 1 .. n - 1 /\ (k - 1) + 1 = k BY <1>2, <3>2
        <3>4. t[k - 1] = q BY <1>7, <3>1, <3>3
        <3> QED BY <1>6, <3>3, <3>4
    <2> QED BY <1>6, <2>1, <2>2
<1>10. Distinct(t, id)
    <2> SUFFICES ASSUME NEW j \in 1 .. n - 1, NEW k \in 1 .. n - 1, id[t[j].key] = id[t[k].key]
                 PROVE  j = k
        BY <1>3 DEF Distinct
    <2>1. j + 1 = k + 1 BY <1>5, <1>7
    <2> QED BY <2>1
<1>11. \A q \in R \ {s[1]} : id[q.key] # id[s[1].key]
    <2> TAKE q \in R \ {s[1]}
    <2>1. PICK k \in 1 .. n : q = s[k] BY <1>2
    <2> QED BY <1>5, <1>8, <2>1
<1>12. PairsWith(t, R \ {s[1]}, id, K) BY <1>3, <1>9, <1>10 DEF PairsWith
<1>13. s[1] \in R /\ s[1] \in PairsOf(K) BY <1>2, <1>8
<1> QED BY <1>2, <1>3, <1>4, <1>11, <1>12, <1>13 DEF n, t

-----------------------------------------------------------------------------
(* Filling a table with the pairs of another *)

\* On the way: the pairs are in the new table or still to be set, none in both.
Filling(s, id, K, P, m, flags) ==
    /\ Sound(s.table, id, K) /\ s.table.flags = flags
    /\ PairsWith(s.todo, ToSet(s.todo), id, K)
    /\ \A q \in ToSet(s.todo) : id[q.key] \in HashKeys
    /\ \A p \in Held(s.table), q \in ToSet(s.todo) : id[p.key] # id[q.key]
    /\ Held(s.table) \cup ToSet(s.todo) = P
    /\ s.table.elts + Len(s.todo) = m
Fillings(id, K, P, m, flags) ==
    {s \in [table : Tables(K), todo : Seq(PairsOf(K))] : Filling(s, id, K, P, m, flags)}

\* How many steps there can still be.
Short(t, m) == IF 4 * (m + 1) - 3 * Len(t.buckets) > 0 THEN 4 * (m + 1) - 3 * Len(t.buckets) ELSE 0
Effort(s, m) == Short(s.table, m) * (m + 1) + Len(s.todo)
LEMMA ShortIsNat ==
    ASSUME NEW t, Len(t.buckets) \in Nat, NEW m \in Nat
    PROVE  Short(t, m) \in Nat
<1> DEFINE n == Len(t.buckets)
           x == 4 * (m + 1) - 3 * n
<1>1. n \in Nat /\ Short(t, m) = (IF x > 0 THEN x ELSE 0) BY DEF Short
<1> HIDE DEF n
<1>2. x \in Int BY <1>1
<1> HIDE DEF x
<1> QED BY <1>1, <1>2

\* A larger table is less short.
LEMMA LessShort ==
    ASSUME NEW m \in Nat, NEW n \in Nat \ {0}, 3 * n < 4 * (m + 1), NEW k \in Nat, k >= 2 * n,
           NEW x \in Nat, x = (IF 4 * (m + 1) - 3 * n > 0 THEN 4 * (m + 1) - 3 * n ELSE 0),
           NEW y \in Nat, y = (IF 4 * (m + 1) - 3 * k > 0 THEN 4 * (m + 1) - 3 * k ELSE 0)
    PROVE  y * (m + 1) + m < x * (m + 1)
<1>1. y < x OBVIOUS
<1> DEFINE M == m + 1
<1>2. M \in Nat \ {0} OBVIOUS
<1>3. M * y + M <= M * x
    <2> HIDE DEF M
    <2>1. x \in Int /\ y \in Int OBVIOUS
    <2> QED BY <1>1, <1>2, <2>1, Monotone
<1>4. y * (m + 1) = M * y /\ x * (m + 1) = M * x OBVIOUS
<1>5. M * y \in Int /\ M * x \in Int OBVIOUS
<1> DEFINE a == M * y
           b == M * x
<1>6. a \in Int /\ b \in Int /\ a + (m + 1) <= b BY <1>3, <1>5
<1> HIDE DEF a, b
<1>7. a + m < b BY <1>6
<1>8. y * (m + 1) = a /\ x * (m + 1) = b BY <1>4 DEF a, b
<1> HIDE DEF M
<1> QED BY <1>7, <1>8

\* One step sets a pair, or starts again with a larger table.
LEMMA RefillKeeps ==
    ASSUME NEW id, NEW K, NEW P, NEW m \in Nat, NEW flags,
           NEW s \in Fillings(id, K, P, m, flags)
    PROVE  /\ Refill(s, id) \in Fillings(id, K, P, m, flags)
           /\ Effort(s, m) \in Nat
           /\ s.todo = <<>> => Refill(s, id) = s
           /\ s.todo # <<>> => Effort(Refill(s, id), m) < Effort(s, m)
<1> DEFINE t == s.table
           todo == s.todo
           R == ToSet(todo)
           n == Len(t.buckets)
           pair == Head(todo)
           rest == Tail(todo)
           new == Set(t, id, pair.key, pair.value)
           large == Created(2 * Len(new.buckets), new.flags)
           next == Refill(s, id)
<1>1. /\ s \in [table : Tables(K), todo : Seq(PairsOf(K))] /\ Filling(s, id, K, P, m, flags)
    BY DEF Fillings
<1>2. /\ Sound(t, id, K) /\ t.flags = flags /\ PairsWith(todo, R, id, K)
      /\ \A q \in R : id[q.key] \in HashKeys
      /\ \A p \in Held(t), q \in R : id[p.key] # id[q.key]
      /\ Held(t) \cup R = P /\ t.elts + Len(todo) = m
    BY <1>1 DEF Filling
<1>3. TableFits(t, id, K) BY <1>2 DEF Sound
<1>4. n \in Nat \ {0} /\ t.elts \in Nat /\ flags \in SUBSET Flags BY <1>2, <1>3, TableBuckets
<1>5. Len(todo) \in Nat BY <1>2, PairsCounted
<1>6. Short(t, m) \in Nat BY <1>4, ShortIsNat
<1>7. Effort(s, m) \in Nat
    <2> DEFINE x == Short(t, m)
               y == Len(todo)
    <2>1. Effort(s, m) = x * (m + 1) + y BY DEF Effort
    <2> HIDE DEF x, y
    <2>2. x \in Nat /\ y \in Nat BY <1>5, <1>6 DEF x, y
    <2>3. x * (m + 1) + y \in Nat BY <2>2
    <2> QED BY <2>1, <2>3
<1>8. next = IF todo = <<>> THEN s
             ELSE IF Full(new) THEN [table |-> large, todo |-> Pairs(new) \o rest]
             ELSE [table |-> new, todo |-> rest]
    BY DEF Refill
<1>9. CASE todo = <<>>
    <2>1. next = s BY <1>8, <1>9
    <2> QED BY <1>7, <1>9, <2>1
<1>10. CASE todo # <<>>
    <2>1. /\ pair \in R /\ pair \in PairsOf(K) /\ PairsWith(rest, R \ {pair}, id, K)
          /\ Len(rest) = Len(todo) - 1
          /\ \A q \in R \ {pair} : id[q.key] # id[pair.key]
        <3> HIDE DEF R, todo
        <3> QED BY <1>2, <1>10, PairsTail
    <2>2. pair.key \in K /\ pair.value \in HashValues /\ Pair(pair.key, pair.value) = pair
        BY <2>1 DEF PairsOf, Pair
    <2>3. id[pair.key] \in HashKeys BY <1>2, <2>1
    <2>4. Sound(new, id, K) /\ Len(new.buckets) = n /\ new.flags = flags
          /\ IsSet(t, new, id, pair.key, pair.value)
        <3> HIDE DEF t, pair
        <3> QED BY <1>2, <2>2, <2>3, SetIs
    <2> HIDE DEF t, todo, R, n, rest, new, large, next, pair
    <2>5. new.elts = t.elts + 1 /\ Held(new) = Held(t) \cup {pair}
        <3>1. \A p \in Held(t) : id[p.key] # id[pair.key] BY <1>2, <2>1
        <3> QED BY <2>2, <2>4, <3>1 DEF IsSet
    <2>6. ToSet(rest) = R \ {pair} /\ rest \in Seq(PairsOf(K)) BY <2>1 DEF PairsWith
    <2>7. /\ \A p \in Held(new), q \in R \ {pair} : id[p.key] # id[q.key]
          /\ Held(new) \cup (R \ {pair}) = P
        BY <1>2, <2>1, <2>5
    <2>8. new.elts + Len(rest) = m /\ new.elts \in Nat /\ Len(rest) \in Nat /\ Len(rest) < Len(todo)
        <3>1. Len(rest) \in Nat BY <2>1, PairsCounted
        <3> QED BY <1>2, <1>4, <1>5, <2>1, <2>5, <3>1
    <2>9. CASE ~ Full(new)
        <3>1. next = [table |-> new, todo |-> rest] BY <1>8, <1>10, <2>9
        <3>2. next.table = new /\ next.todo = rest BY <3>1
        <3>3. \A q \in R \ {pair} : id[q.key] \in HashKeys BY <1>2
        <3>4. Filling(next, id, K, P, m, flags)
            BY <2>1, <2>4, <2>6, <2>7, <2>8, <3>2, <3>3 DEF Filling
        <3>5. next \in [table : Tables(K), todo : Seq(PairsOf(K))]
            <4>1. new \in Tables(K) BY <2>4 DEF Sound, TableFits
            <4> QED BY <2>6, <3>1, <4>1
        <3>6. Effort(next, m) < Effort(s, m)
            <4> DEFINE x == Short(t, m) * (m + 1)
            <4>1. Short(new, m) = Short(t, m) BY <2>4 DEF Short, n
            <4>2. Effort(next, m) = x + Len(rest) /\ Effort(s, m) = x + Len(todo)
                BY <3>2, <4>1 DEF Effort, todo, t
            <4>3. x \in Int BY <1>6
            <4> HIDE DEF x
            <4> QED BY <1>5, <2>8, <4>2, <4>3
        <3>7. next \in Fillings(id, K, P, m, flags) BY <3>4, <3>5 DEF Fillings
        <3> QED BY <1>7, <1>10, <3>6, <3>7 DEF next, todo
    <2>10. CASE Full(new)
        <3> DEFINE pairs == Pairs(new)
                   all == pairs \o rest
        <3>1. next = [table |-> large, todo |-> all] BY <1>8, <1>10, <2>10
        <3>2. next.table = large /\ next.todo = all BY <3>1
        <3>3. /\ Sound(large, id, K) /\ Held(large) = {} /\ large.elts = 0 /\ large.flags = flags
              /\ Len(large.buckets) >= 2 * n
            <4>1. 2 * Len(new.buckets) \in Nat /\ 2 * Len(new.buckets) = 2 * n BY <1>4, <2>4
            <4>2. new.flags \in SUBSET Flags /\ new.flags = flags BY <1>4, <2>4
            <4> QED BY <4>1, <4>2, CreatedIs DEF large
        <3>4. PairsWith(pairs, Held(new), id, K) /\ Len(pairs) = new.elts BY <2>4, PairsIs
        <3> HIDE DEF pairs
        <3>5. PairsWith(all, Held(new) \cup (R \ {pair}), id, K) /\ Len(all) = Len(pairs) + Len(rest)
            BY <2>1, <2>7, <3>4, PairsJoined
        <3> HIDE DEF all
        <3>6. ToSet(all) = P /\ all \in Seq(PairsOf(K)) /\ PairsWith(all, P, id, K) BY <2>7, <3>5 DEF PairsWith
        <3>7. \A q \in P : id[q.key] \in HashKeys
            <4>1. \A p \in Held(t) : id[p.key] \in HashKeys BY <1>3, HeldPairs
            <4> QED BY <1>2, <4>1
        <3>8. Len(all) = m BY <2>8, <3>4, <3>5
        <3>9. Filling(next, id, K, P, m, flags)
            BY <3>2, <3>3, <3>6, <3>7, <3>8 DEF Filling
        <3>10. next \in [table : Tables(K), todo : Seq(PairsOf(K))]
            <4>1. large \in Tables(K) BY <3>3 DEF Sound, TableFits
            <4> QED BY <3>1, <3>6, <4>1
        <3>11. Effort(next, m) < Effort(s, m)
            <4> DEFINE x == Short(t, m)
                       y == Short(large, m)
                       k == Len(large.buckets)
            <4>1. k \in Nat
                <5>1. TableFits(large, id, K) BY <3>3 DEF Sound
                <5> QED BY <5>1, TableBuckets
            <4>2. 3 * n < 4 * (m + 1)
                <5>1. 4 * (new.elts + 1) > 3 * n BY <2>4, <2>10 DEF Full
                <5>2. new.elts <= m BY <2>8
                <5> QED BY <1>4, <2>8, <5>1, <5>2
            <4>3. x = (IF 4 * (m + 1) - 3 * n > 0 THEN 4 * (m + 1) - 3 * n ELSE 0)
                  /\ y = (IF 4 * (m + 1) - 3 * k > 0 THEN 4 * (m + 1) - 3 * k ELSE 0)
                BY DEF Short, n
            <4>4. Effort(next, m) = y * (m + 1) + m /\ Effort(s, m) = x * (m + 1) + Len(todo)
                BY <3>2, <3>8 DEF Effort, t, todo
            <4> HIDE DEF x, y, k
            <4>5. k >= 2 * n BY <3>3 DEF k
            <4>6. x \in Nat /\ y \in Nat BY <1>4, <4>1, <4>3
            <4>7. y * (m + 1) + m < x * (m + 1) BY <1>4, <4>1, <4>2, <4>3, <4>5, <4>6, LessShort
            <4> DEFINE a == y * (m + 1)
                       b == x * (m + 1)
            <4>8. a \in Int /\ b \in Int /\ a + m < b BY <4>6, <4>7
            <4> HIDE DEF a, b
            <4>9. a + m < b + Len(todo) BY <1>5, <4>8
            <4> QED BY <4>4, <4>9 DEF a, b
        <3>12. next \in Fillings(id, K, P, m, flags) BY <3>9, <3>10 DEF Fillings
        <3> QED BY <1>7, <1>10, <3>11, <3>12 DEF next, todo
    <2> QED BY <2>9, <2>10
<1> QED BY <1>9, <1>10

\* The loop ends with every pair set.
LEMMA RefilledIs ==
    ASSUME NEW id, NEW K, NEW P, NEW m \in Nat, NEW flags, NEW t, NEW pairs,
           [table |-> t, todo |-> pairs] \in Fillings(id, K, P, m, flags), Len(pairs) = m
    PROVE  /\ Sound(Refilled(t, id, pairs), id, K) /\ Held(Refilled(t, id, pairs)) = P
           /\ Refilled(t, id, pairs).elts = m /\ Refilled(t, id, pairs).flags = flags
<1> DEFINE S == Fillings(id, K, P, m, flags)
           a == [table |-> t, todo |-> pairs]
           step == [s \in S |-> Refill(s, id)]
           n == RefillSteps(t, Len(pairs))
           Is(g) == g = [k \in Nat |-> IF k = 0 THEN a ELSE Refill(g[k - 1], id)]
           g == CHOOSE g : Is(g)
<1>1. Refilled(t, id, pairs) = g[n].table BY DEF Refilled
<1>2. \A s \in S : Refill(s, id) \in S BY RefillKeeps
<1>3. step \in [S -> S] /\ a \in S BY <1>2
<1>4. n = Effort(a, m) BY DEF RefillSteps, Effort, Short
<1> HIDE DEF n
<1>5. n \in Nat BY <1>3, <1>4, RefillKeeps
<1>6. \A s \in S : step[s] = Refill(s, id) OBVIOUS
<1> HIDE DEF a, step, S
<1>7. PICK f : SteppedOn(f, S, a, step) BY <1>3, Steps
<1>8. f \in [Nat -> S] /\ f[0] = a /\ \A k \in Nat : f[k + 1] = Refill(f[k], id)
    BY <1>6, <1>7 DEF SteppedOn
<1>9. \A k \in Nat : f[k] = IF k = 0 THEN a ELSE Refill(f[k - 1], id)
    <2> TAKE k \in Nat
    <2>1. CASE k = 0 BY <1>8, <2>1
    <2>2. CASE k # 0
        <3>1. k - 1 \in Nat /\ (k - 1) + 1 = k BY <2>2
        <3> QED BY <1>8, <2>2, <3>1
    <2> QED BY <2>1, <2>2
<1>10. Is(f) BY <1>8, <1>9
<1>11. Is(g) BY <1>10
<1> HIDE DEF g
<1>12. DOMAIN g = Nat /\ \A k \in Nat : g[k] = IF k = 0 THEN a ELSE Refill(g[k - 1], id) BY <1>11, Zenon
<1> DEFINE G == {k \in Nat : g[k] = f[k]}
<1>13. 0 \in G BY <1>8, <1>12
<1>14. \A k \in Nat : k \in G => k + 1 \in G
    <2> SUFFICES ASSUME NEW k \in Nat, k \in G PROVE k + 1 \in G OBVIOUS
    <2>1. k + 1 \in Nat /\ k + 1 # 0 /\ (k + 1) - 1 = k /\ g[k] = f[k] OBVIOUS
    <2>2. g[k + 1] = Refill(g[k], id) BY <1>12, <2>1
    <2> QED BY <1>8, <2>1, <2>2
<1> HIDE DEF G
<1>15. g[n] = f[n]
    <2>1. Nat \subseteq G BY <1>13, <1>14, AllNumbers
    <2> QED BY <1>5, <2>1 DEF G
<1> DEFINE D == {k \in Nat : f[k].todo = <<>> \/ Effort(f[k], m) + k <= n}
<1>16. 0 \in D BY <1>4, <1>5, <1>8
<1>17. \A k \in Nat : k \in D => k + 1 \in D
    <2> SUFFICES ASSUME NEW k \in Nat, k \in D PROVE k + 1 \in D OBVIOUS
    <2>1. f[k] \in S /\ f[k + 1] \in S /\ f[k + 1] = Refill(f[k], id) /\ k + 1 \in Nat
        <3>1. k + 1 \in Nat OBVIOUS
        <3>2. f[k] \in S /\ f[k + 1] \in S BY <1>8, <3>1
        <3>3. f[k + 1] = Refill(f[k], id) BY <1>8
        <3> QED BY <3>1, <3>2, <3>3
    <2>2. f[k] \in Fillings(id, K, P, m, flags) /\ f[k + 1] \in Fillings(id, K, P, m, flags) BY <2>1 DEF S
    <2>3. CASE f[k].todo = <<>>
        <3>1. f[k + 1] = f[k] BY <2>1, <2>2, <2>3, RefillKeeps
        <3> QED BY <2>1, <2>3, <3>1
    <2>4. CASE f[k].todo # <<>>
        <3> DEFINE x == Effort(f[k], m)
                   y == Effort(f[k + 1], m)
        <3>1. x + k <= n BY <2>4
        <3>2. y < x BY <2>1, <2>2, <2>4, RefillKeeps
        <3>3. x \in Nat /\ y \in Nat BY <2>2, RefillKeeps
        <3> HIDE DEF x, y
        <3>4. y + (k + 1) <= n BY <1>5, <3>1, <3>2, <3>3
        <3> QED BY <2>1, <3>4 DEF y
    <2> QED BY <2>3, <2>4
<1> HIDE DEF D
<1>18. n \in D
    <2>1. Nat \subseteq D BY <1>16, <1>17, AllNumbers
    <2> QED BY <1>5, <2>1
<1> DEFINE e == f[n]
<1>19. e \in Fillings(id, K, P, m, flags) BY <1>5, <1>8 DEF S
<1>20. e.todo = <<>> \/ Effort(e, m) + n <= n BY <1>18 DEF D
<1> HIDE DEF e
<1>21. Filling(e, id, K, P, m, flags) BY <1>19 DEF Fillings
<1>22. Sound(e.table, id, K) /\ e.table.flags = flags /\ Held(e.table) \cup ToSet(e.todo) = P
       /\ e.table.elts + Len(e.todo) = m /\ e.todo \in Seq(PairsOf(K)) /\ e.table.elts \in Nat
    <2>1. Sound(e.table, id, K) BY <1>21 DEF Filling
    <2>2. TableFits(e.table, id, K) BY <2>1 DEF Sound
    <2>3. e.table.elts \in Nat BY <2>2, TableBuckets
    <2> QED BY <1>21, <2>1, <2>3 DEF Filling, PairsWith
<1>23. e.todo = <<>>
    <2> SUFFICES ASSUME e.todo # <<>> PROVE FALSE OBVIOUS
    <2>1. Effort(e, m) + n <= n BY <1>20
    <2>2. Effort(e, m) \in Nat BY <1>19, RefillKeeps
    <2>3. Effort(e, m) = 0 BY <1>5, <2>1, <2>2
    <2> DEFINE u == e.table
    <2>4. TableFits(u, id, K) BY <1>22 DEF Sound
    <2>5. Len(u.buckets) \in Nat BY <2>4, TableBuckets
    <2>6. Len(e.todo) \in Nat \ {0} BY <1>22, EmptySeq
    <2> DEFINE x == Short(u, m) * (m + 1)
    <2>7. x \in Nat
        <3>1. Short(u, m) \in Nat BY <2>5, ShortIsNat
        <3> QED BY <3>1
    <2>8. Effort(e, m) = x + Len(e.todo) BY DEF Effort
    <2> HIDE DEF x
    <2> QED BY <2>3, <2>6, <2>7, <2>8
<1>24. ToSet(e.todo) = {} /\ Len(e.todo) = 0 BY <1>23 DEF ToSet
<1>25. Held(e.table) = P /\ e.table.elts = m BY <1>22, <1>24
<1>26. Refilled(t, id, pairs) = e.table BY <1>1, <1>15 DEF e
<1> QED BY <1>22, <1>25, <1>26

\* A table of another size holds the same.
LEMMA RehashedIs ==
    ASSUME NEW t, NEW id, NEW K, Sound(t, id, K), NEW size \in Nat \ {0}
    PROVE  /\ Sound(Rehashed(t, id, size), id, K) /\ Held(Rehashed(t, id, size)) = Held(t)
           /\ Rehashed(t, id, size).elts = t.elts /\ Rehashed(t, id, size).flags = t.flags
<1> DEFINE new == Created(size, t.flags)
           pairs == Pairs(t)
           P == Held(t)
           a == [table |-> new, todo |-> pairs]
<1>1. TableFits(t, id, K) BY DEF Sound
<1>2. t.elts \in Nat /\ t.flags \in SUBSET Flags BY <1>1, TableBuckets
<1>3. Sound(new, id, K) /\ Held(new) = {} /\ new.elts = 0 /\ new.flags = t.flags
    BY <1>2, CreatedIs
<1>4. PairsWith(pairs, P, id, K) /\ Len(pairs) = t.elts BY PairsIs
<1>5. Rehashed(t, id, size) = Refilled(new, id, pairs) BY DEF Rehashed
<1>6. \A p \in P : id[p.key] \in HashKeys BY <1>1, HeldPairs
<1> HIDE DEF new, pairs, P
<1>7. ToSet(pairs) = P /\ pairs \in Seq(PairsOf(K)) BY <1>4 DEF PairsWith
<1>8. a.table = new /\ a.todo = pairs OBVIOUS
<1>9. a \in [table : Tables(K), todo : Seq(PairsOf(K))]
    <2>1. new \in Tables(K) BY <1>3 DEF Sound, TableFits
    <2> QED BY <1>7, <2>1
<1>10. Filling(a, id, K, P, t.elts, t.flags)
    <2> HIDE DEF a
    <2> QED BY <1>2, <1>3, <1>4, <1>6, <1>7, <1>8 DEF Filling
<1>11. a \in Fillings(id, K, P, t.elts, t.flags) BY <1>9, <1>10 DEF Fillings
<1>12. /\ Sound(Refilled(new, id, pairs), id, K) /\ Held(Refilled(new, id, pairs)) = P
       /\ Refilled(new, id, pairs).elts = t.elts /\ Refilled(new, id, pairs).flags = t.flags
    BY <1>2, <1>4, <1>11, RefilledIs
<1> QED BY <1>5, <1>12 DEF P

\* No table holds nothing.
Whole(t, id, K) == t = NoHash \/ Sound(t, id, K)

\* No table, no pairs.
LEMMA NothingHeld ==
    Held(NoHash) = {} /\ NoHash.elts = 0 /\ NoHash.flags = {} /\ Len(NoHash.buckets) = 0
<1>1. NoHash.buckets = <<>> /\ Len(<<>>) = 0 /\ NoHash.elts = 0 /\ NoHash.flags = {} BY DEF NoHash
<1>2. 1 .. 0 = {} OBVIOUS
<1> QED BY <1>1, <1>2 DEF Held

\* _hash_set3 sets the key, whether the table is created or grows meanwhile.
LEMMA HashSet3Is ==
    ASSUME NEW t, NEW id, NEW K, Whole(t, id, K), NEW key \in K, id[key] \in HashKeys,
           NEW value \in HashValues
    PROVE  /\ Sound(HashSet3(t, id, key, value), id, K)
           /\ IsSet(t, HashSet3(t, id, key, value), id, key, value)
           /\ t # NoHash => HashSet3(t, id, key, value).flags = t.flags
           /\ "no_grow" \in t.flags => HashSet3(t, id, key, value) = Set(t, id, key, value)
           /\ t = NoHash => HashSet3(t, id, key, value).flags = {}
<1> DEFINE old == IF t = NoHash THEN Created(0, {}) ELSE t
           new == Set(old, id, key, value)
           u == HashSet3(t, id, key, value)
           larger == Rehashed(new, id, 2 * Len(new.buckets))
<1>1. Sound(old, id, K) /\ Held(old) = Held(t) /\ old.elts = t.elts
      /\ old.flags = IF t = NoHash THEN {} ELSE t.flags
    <2>1. CASE t = NoHash
        <3>1. {} \in SUBSET Flags /\ 0 \in Nat BY DEF Flags
        <3> DEFINE c == Created(0, {})
        <3>2. Sound(c, id, K) /\ Held(c) = {} /\ c.elts = 0 /\ c.flags = {}
            BY <3>1, CreatedIs
        <3> HIDE DEF c
        <3>3. old = c BY <2>1 DEF c
        <3> QED BY <2>1, <3>2, <3>3, NothingHeld
    <2>2. CASE t # NoHash BY <2>2 DEF Whole
    <2> QED BY <2>1, <2>2
<1>2. u = IF Full(new) THEN larger ELSE new BY DEF HashSet3
<1>3. "no_grow" \in t.flags => t # NoHash /\ old = t BY NothingHeld
<1>8. Set(t, id, key, value) = Set(t, id, key, value) OBVIOUS
<1>9. old = t => new = Set(t, id, key, value) OBVIOUS
<1> HIDE DEF old
<1>4. Sound(new, id, K) /\ IsSet(old, new, id, key, value) /\ Len(new.buckets) = Len(old.buckets)
      /\ new.flags = old.flags
    BY <1>1, SetIs
<1> HIDE DEF new, u, larger
<1>5. Sound(larger, id, K) /\ Held(larger) = Held(new) /\ larger.elts = new.elts /\ larger.flags = new.flags
    <2>1. TableFits(new, id, K) BY <1>4 DEF Sound
    <2>2. Len(new.buckets) \in Nat \ {0} BY <2>1, TableBuckets
    <2>3. 2 * Len(new.buckets) \in Nat \ {0} BY <2>2
    <2> QED BY <1>4, <2>3, RehashedIs DEF larger
<1>6. Sound(u, id, K) /\ Held(u) = Held(new) /\ u.elts = new.elts /\ u.flags = new.flags
    BY <1>2, <1>4, <1>5
<1>7. IsSet(t, u, id, key, value) BY <1>1, <1>4, <1>6 DEF IsSet
<1>10. "no_grow" \in t.flags => u = Set(t, id, key, value)
    <2> SUFFICES ASSUME "no_grow" \in t.flags PROVE u = Set(t, id, key, value) OBVIOUS
    <2>1. "no_grow" \in new.flags BY <1>3, <1>4
    <2>2. u = new BY <1>2, <2>1 DEF Full
    <2> QED BY <1>3, <1>9, <2>2
<1> QED BY <1>1, <1>4, <1>6, <1>7, <1>10 DEF u

\* _hash_unset unsets it, whether the table shrinks or not.
LEMMA HashUnsetIs ==
    ASSUME NEW t, NEW id, NEW K, Sound(t, id, K), NEW key, id[key] \in HashKeys
    PROVE  /\ Sound(HashUnset(t, id, key), id, K)
           /\ \/ \E p \in Held(t) :
                     /\ id[p.key] = id[key] /\ HashUnset(t, id, key).elts = t.elts - 1
                     /\ Held(HashUnset(t, id, key)) = Held(t) \ {p}
              \/ /\ \A p \in Held(t) : id[p.key] # id[key]
                 /\ HashUnset(t, id, key).elts = t.elts /\ Held(HashUnset(t, id, key)) = Held(t)
           /\ HashUnset(t, id, key).flags = t.flags
<1> DEFINE new == Unset(t, id, key)
           u == HashUnset(t, id, key)
           n == Len(new.buckets)
           smaller == Rehashed(new, id, n \div 2)
           shrinks == "no_shrink" \notin new.flags /\ new.elts > ShrinkAbove /\ 4 * (new.elts + 1) < n
<1>1. t # NoHash
    <2>1. TableFits(t, id, K) BY DEF Sound
    <2> QED BY <2>1, TableBuckets
<1>2. u = IF shrinks THEN smaller ELSE new BY <1>1 DEF HashUnset
<1>3. Sound(new, id, K) /\ IsUnset(t, new, id, key) /\ new.flags = t.flags BY UnsetIs
<1> HIDE DEF u, new, smaller, n
<1>4. n \in Nat /\ new.elts \in Nat
    <2>1. TableFits(new, id, K) BY <1>3 DEF Sound
    <2> QED BY <2>1, TableBuckets DEF n
<1>5. ASSUME shrinks
      PROVE  Sound(smaller, id, K) /\ Held(smaller) = Held(new) /\ smaller.elts = new.elts
             /\ smaller.flags = new.flags
    <2>1. n >= 4 BY <1>4, <1>5
    <2>2. n \div 2 \in Nat \ {0} BY <1>4, <2>1
    <2> QED BY <1>3, <2>2, RehashedIs DEF smaller
<1>6. Sound(u, id, K) /\ Held(u) = Held(new) /\ u.elts = new.elts /\ u.flags = new.flags
    <2>1. CASE shrinks BY <1>2, <1>5, <2>1
    <2>2. CASE ~ shrinks BY <1>2, <1>3, <2>2
    <2> QED BY <2>1, <2>2
<1> HIDE DEF shrinks
<1>7. \/ \E p \in Held(t) : id[p.key] = id[key] /\ u.elts = t.elts - 1 /\ Held(u) = Held(t) \ {p}
      \/ (\A p \in Held(t) : id[p.key] # id[key]) /\ u.elts = t.elts /\ Held(u) = Held(t)
    <2>1. CASE \E p \in Held(t) : id[p.key] = id[key] /\ new.elts = t.elts - 1 /\ Held(new) = Held(t) \ {p}
        BY <1>6, <2>1
    <2>2. CASE (\A p \in Held(t) : id[p.key] # id[key]) /\ new = t BY <1>6, <2>2
    <2> QED BY <1>3, <2>1, <2>2 DEF IsUnset
<1> QED BY <1>3, <1>6, <1>7 DEF u

\* Flags do not matter for what is held.
LEMMA FlagsChanged ==
    ASSUME NEW t, NEW id, NEW K, Sound(t, id, K), NEW flags \in SUBSET Flags
    PROVE  Sound([t EXCEPT !.flags = flags], id, K) /\ Held([t EXCEPT !.flags = flags]) = Held(t)
<1> DEFINE u == [t EXCEPT !.flags = flags]
<1>1. TableFits(t, id, K) /\ IsFiniteSet(Held(t)) /\ t.elts = Cardinality(Held(t)) BY DEF Sound
<1>2. t \in Tables(K) BY <1>1 DEF TableFits
<1>3. u \in Tables(K) /\ u.buckets = t.buckets /\ u.elts = t.elts BY <1>2 DEF Tables
<1> HIDE DEF u
<1>4. Held(u) = Held(t) BY <1>3 DEF Held
<1>5. TableFits(u, id, K) BY <1>1, <1>3 DEF TableFits
<1> QED BY <1>1, <1>3, <1>4, <1>5 DEF Sound, u

-----------------------------------------------------------------------------
(* A table used with its own keys is a map *)

\* The pairs of a map.
Entries(map) == {Pair(k, map[k]) : k \in DOMAIN map}

\* The table is sound and holds what was set.
HashInv ==
    /\ Whole(hash, Self, HashKeys) /\ Held(hash) = Entries(contents)
    /\ DOMAIN contents \subseteq HashKeys
    /\ hashNext.flags \in SUBSET Flags

\* As many pairs as a map has keys.
LEMMA EntriesCounted ==
    ASSUME NEW map, IsFiniteSet(Entries(map))
    PROVE  IsFiniteSet(DOMAIN map) /\ Cardinality(Entries(map)) = Cardinality(DOMAIN map)
<1> DEFINE S == Entries(map)
           T == DOMAIN map
           f == [p \in S |-> p.key]
<1>1. \A p \in S : \E k \in T : p = Pair(k, map[k]) BY DEF Entries
<1>2. \A k \in T : Pair(k, map[k]) \in S BY DEF Entries
<1>3. \A k, v : Pair(k, v).key = k BY DEF Pair
<1> HIDE DEF S, T
<1>4. f \in [S -> T] BY <1>1, <1>3
<1>5. \A p \in S : f[p] = p.key OBVIOUS
<1> HIDE DEF f
<1>6. \A p, q \in S : p.key = q.key => p = q
    <2> SUFFICES ASSUME NEW p \in S, NEW q \in S, p.key = q.key PROVE p = q OBVIOUS
    <2>1. PICK k \in T : p = Pair(k, map[k]) BY <1>1
    <2>2. PICK m \in T : q = Pair(m, map[m]) BY <1>1
    <2>3. k = m BY <1>3, <2>1, <2>2
    <2> QED BY <2>1, <2>2, <2>3
<1>7. \A k \in T : \E p \in S : f[p] = k BY <1>2, <1>3, <1>5
<1>8. IsInjective(f) BY <1>4, <1>5, <1>6 DEF IsInjective
<1>9. f \in Bijection(S, T) BY <1>4, <1>7, <1>8 DEF Bijection, Injection, Surjection
<1>10. ExistsBijection(S, T) BY <1>9 DEF ExistsBijection
<1>11. IsFiniteSet(S) BY DEF S
<1> QED BY <1>10, <1>11, FS_Bijection DEF S, T

\* Setting a key in the table is setting it in the map.
LEMMA EntriesSet ==
    ASSUME NEW t, NEW u, NEW map, DOMAIN map \subseteq HashKeys, Held(t) = Entries(map),
           NEW key \in HashKeys, NEW value, IsSet(t, u, Self, key, value)
    PROVE  Held(u) = Entries([k \in DOMAIN map \cup {key} |-> IF k = key THEN value ELSE map[k]])
<1> DEFINE new == [k \in DOMAIN map \cup {key} |-> IF k = key THEN value ELSE map[k]]
<1>1. DOMAIN new = DOMAIN map \cup {key} /\ \A k \in DOMAIN map \cup {key} : new[k] = IF k = key THEN value ELSE map[k]
    OBVIOUS
<1> HIDE DEF new
<1>2. \A p : p \in Held(t) <=> \E k \in DOMAIN map : p = Pair(k, map[k]) BY DEF Entries
<1>3. \A p : p \in Entries(new) <=> p = Pair(key, value) \/ \E k \in DOMAIN map : k # key /\ p = Pair(k, map[k])
    BY <1>1 DEF Entries
<1>4. \A k \in HashKeys : Self[k] = k BY DEF Self
<1>5. \A k, v : Pair(k, v).key = k BY DEF Pair
<1>6. \A p \in Held(t) : Self[p.key] = p.key /\ \E k \in DOMAIN map : k = p.key /\ p = Pair(k, map[k])
    <2> TAKE p \in Held(t)
    <2>1. PICK k \in DOMAIN map : p = Pair(k, map[k]) BY <1>2
    <2>2. p.key = k BY <1>5, <2>1
    <2> QED BY <1>4, <2>1, <2>2
<1>7. ASSUME NEW p \in Held(t), Self[p.key] = Self[key], Held(u) = (Held(t) \ {p}) \cup {Pair(p.key, value)}
      PROVE  Held(u) = Entries(new)
    <2>1. p.key = key /\ p = Pair(key, map[key]) /\ key \in DOMAIN map BY <1>4, <1>6, <1>7
    <2>2. \A q : q \in Held(t) \ {p} <=> \E k \in DOMAIN map : k # key /\ q = Pair(k, map[k])
        <3> TAKE q
        <3>1. ASSUME q \in Held(t) \ {p} PROVE \E k \in DOMAIN map : k # key /\ q = Pair(k, map[k])
            <4>1. PICK k \in DOMAIN map : q = Pair(k, map[k]) BY <1>2, <3>1
            <4> QED BY <2>1, <3>1, <4>1
        <3>2. ASSUME NEW k \in DOMAIN map, k # key, q = Pair(k, map[k]) PROVE q \in Held(t) \ {p}
            <4>1. q \in Held(t) BY <1>2, <3>2
            <4>2. q.key = k BY <1>5, <3>2
            <4> QED BY <2>1, <3>2, <4>1, <4>2
        <3> QED BY <3>1, <3>2
    <2> QED BY <1>3, <1>7, <2>1, <2>2
<1>8. ASSUME \A p \in Held(t) : Self[p.key] # Self[key], Held(u) = Held(t) \cup {Pair(key, value)}
      PROVE  Held(u) = Entries(new)
    <2>1. \A k \in DOMAIN map : k # key
        <3> SUFFICES ASSUME key \in DOMAIN map PROVE FALSE OBVIOUS
        <3>1. Pair(key, map[key]) \in Held(t) BY <1>2
        <3> QED BY <1>5, <1>8, <3>1
    <2> QED BY <1>2, <1>3, <1>8, <2>1
<1>9. Held(u) = Entries(new) BY <1>7, <1>8 DEF IsSet
<1> QED BY <1>9 DEF new

\* The pairs H without the one of a key, if there is one.
Without(G, H, id, key) ==
    \/ \E p \in H : id[p.key] = id[key] /\ G = H \ {p}
    \/ (\A p \in H : id[p.key] # id[key]) /\ G = H

\* Unsetting it likewise.
LEMMA EntriesUnset ==
    ASSUME NEW H, NEW G, NEW map, DOMAIN map \subseteq HashKeys, H = Entries(map), NEW key \in HashKeys,
           Without(G, H, Self, key)
    PROVE  G = Entries(Restrict(map, DOMAIN map \ {key}))
<1> DEFINE D == DOMAIN map \ {key}
           new == Restrict(map, D)
<1>1. DOMAIN new = D /\ \A k \in D : new[k] = map[k] BY DEF Restrict
<1> HIDE DEF new
<1>2. \A p : p \in H <=> \E k \in DOMAIN map : p = Pair(k, map[k]) BY DEF Entries
<1>3. \A p : p \in Entries(new) <=> \E k \in DOMAIN map : k # key /\ p = Pair(k, map[k])
    BY <1>1 DEF Entries
<1>4. \A k \in HashKeys : Self[k] = k BY DEF Self
<1>5. \A k, v : Pair(k, v).key = k BY DEF Pair
<1>6. ASSUME NEW p \in H, Self[p.key] = Self[key], G = H \ {p} PROVE G = Entries(new)
    <2>1. PICK k \in DOMAIN map : p = Pair(k, map[k]) BY <1>2
    <2>2. k = key BY <1>4, <1>5, <1>6, <2>1
    <2>3. \A q : q \in H \ {p} <=> \E m \in DOMAIN map : m # key /\ q = Pair(m, map[m])
        <3> TAKE q
        <3>1. ASSUME q \in H \ {p} PROVE \E m \in DOMAIN map : m # key /\ q = Pair(m, map[m])
            <4>1. PICK m \in DOMAIN map : q = Pair(m, map[m]) BY <1>2, <3>1
            <4> QED BY <2>1, <2>2, <3>1, <4>1
        <3>2. ASSUME NEW m \in DOMAIN map, m # key, q = Pair(m, map[m]) PROVE q \in H \ {p}
            <4>1. q \in H BY <1>2, <3>2
            <4>2. q.key = m /\ p.key = key BY <1>5, <2>1, <2>2, <3>2
            <4> QED BY <3>2, <4>1, <4>2
        <3> QED BY <3>1, <3>2
    <2> QED BY <1>3, <1>6, <2>3
<1>7. ASSUME \A p \in H : Self[p.key] # Self[key], G = H PROVE G = Entries(new)
    <2>1. \A k \in DOMAIN map : k # key
        <3> SUFFICES ASSUME key \in DOMAIN map PROVE FALSE OBVIOUS
        <3>1. Pair(key, map[key]) \in H BY <1>2
        <3> QED BY <1>5, <1>7, <3>1
    <2> QED BY <1>2, <1>3, <1>7, <2>1
<1>8. G = Entries(new) BY <1>6, <1>7 DEF Without
<1> QED BY <1>8 DEF new

\* A program starts without a table.
LEMMA HashInitHolds == HashInit => HashInv
<1> SUFFICES ASSUME HashInit PROVE HashInv OBVIOUS
<1>1. hash = NoHash /\ hashNext.flags = {} /\ contents = <<>> BY DEF HashInit, NotNext
<1>2. DOMAIN contents = {} BY <1>1
<1>3. Entries(contents) = {} BY <1>2 DEF Entries
<1> QED BY <1>1, <1>2, <1>3, NothingHeld DEF HashInv, Whole

\* Every operation keeps it.
LEMMA HashStepKeeps == HashInv /\ [HashNext \/ HashIterate]_hashVars => HashInv'
<1> SUFFICES ASSUME HashInv, [HashNext \/ HashIterate]_hashVars PROVE HashInv' OBVIOUS
<1>1. Whole(hash, Self, HashKeys) /\ Held(hash) = Entries(contents) /\ DOMAIN contents \subseteq HashKeys
      /\ hashNext.flags \in SUBSET Flags
    BY DEF HashInv
<1>2. \A k \in HashKeys : Self[k] = k BY DEF Self
<1>3. ASSUME hash' = NoHash, contents' = <<>>, hashNext' = hashNext PROVE HashInv'
    <2>1. DOMAIN contents' = {} BY <1>3
    <2>2. Entries(contents') = {} BY <2>1 DEF Entries
    <2>3. Whole(hash', Self, HashKeys) /\ Held(hash') = Entries(contents') BY <1>3, <2>2, NothingHeld DEF Whole
    <2> QED BY <1>1, <1>3, <2>1, <2>3 DEF HashInv
<1>4. ASSUME HashCreate PROVE HashInv'
    <2>1. hash = NoHash /\ hash' = Created(0, {}) /\ contents' = contents /\ hashNext' = hashNext
        BY <1>4 DEF HashCreate
    <2>2. Sound(Created(0, {}), Self, HashKeys) /\ Held(Created(0, {})) = {}
        <3>1. 0 \in Nat /\ {} \in SUBSET Flags OBVIOUS
        <3> QED BY <3>1, CreatedIs
    <2>3. Held(hash') = Held(hash) /\ Whole(hash', Self, HashKeys) BY <2>1, <2>2, NothingHeld DEF Whole
    <2> QED BY <1>1, <2>1, <2>3 DEF HashInv
<1>5. ASSUME HashFree PROVE HashInv' BY <1>3, <1>5 DEF HashFree
<1>6. ASSUME NEW key \in HashKeys, NEW value \in HashValues, HashSet(key, value) PROVE HashInv'
    <2> DEFINE new == [k \in DOMAIN contents \cup {key} |-> IF k = key THEN value ELSE contents[k]]
    <2>1. hash' = HashSet3(hash, Self, key, value) /\ contents' = new /\ hashNext' = hashNext
        BY <1>6 DEF HashSet
    <2>2. Self[key] \in HashKeys BY <1>2
    <2>3. Sound(hash', Self, HashKeys) /\ IsSet(hash, hash', Self, key, value)
        BY <1>1, <2>1, <2>2, HashSet3Is
    <2>4. Held(hash') = Entries(contents') BY <1>1, <2>1, <2>3, EntriesSet
    <2>5. DOMAIN contents' \subseteq HashKeys BY <1>1, <2>1
    <2> QED BY <1>1, <2>1, <2>3, <2>4, <2>5 DEF HashInv, Whole
<1>7. ASSUME NEW key \in HashKeys, HashUnsetKey(key) PROVE HashInv'
    <2> DEFINE new == Restrict(contents, DOMAIN contents \ {key})
               G == Held(hash')
               H == Held(hash)
    <2>1. hash # NoHash /\ hash' = HashUnset(hash, Self, key) /\ contents' = new
          /\ hashNext' = [hashNext EXCEPT !.unset = TRUE, !.there = @ \ {key}]
        BY <1>7 DEF HashUnsetKey
    <2>2. Self[key] \in HashKeys /\ Sound(hash, Self, HashKeys) BY <1>1, <1>2, <2>1 DEF Whole
    <2>3. /\ Sound(hash', Self, HashKeys)
          /\ \/ \E p \in H : Self[p.key] = Self[key] /\ G = H \ {p}
             \/ (\A p \in H : Self[p.key] # Self[key]) /\ G = H
        BY <2>1, <2>2, HashUnsetIs
    <2> HIDE DEF G, H
    <2>4. H = Entries(contents) BY <1>1 DEF H
    <2>5. G = Entries(contents')
        <3>1. DOMAIN contents \subseteq HashKeys BY <1>1
        <3>2. Without(G, H, Self, key) BY <2>3 DEF Without
        <3>3. G = Entries(Restrict(contents, DOMAIN contents \ {key})) BY <2>4, <3>1, <3>2, EntriesUnset
        <3> QED BY <2>1, <3>3
    <2>6. DOMAIN contents' \subseteq HashKeys BY <1>1, <2>1 DEF Restrict
    <2>7. hashNext'.flags = hashNext.flags
        <3> DEFINE a == [hashNext EXCEPT !.unset = TRUE]
        <3>1. a.flags = hashNext.flags OBVIOUS
        <3>2. hashNext' = [a EXCEPT !.there = @ \ {key}] BY <2>1
        <3> HIDE DEF a
        <3>3. hashNext'.flags = a.flags BY <3>2
        <3> QED BY <3>1, <3>3
    <2> QED BY <1>1, <2>3, <2>5, <2>6, <2>7 DEF HashInv, Whole, G
<1>8. ASSUME NEW size \in NewSizes, HashResize(size) PROVE HashInv'
    <2>1. hash # NoHash /\ hash' = Rehashed(hash, Self, size) /\ hashNext' = hashNext
          /\ contents' = IF size = 0 THEN <<>> ELSE contents
        BY <1>8 DEF HashResize
    <2>2. CASE size = 0
        <3>1. hash' = NoHash BY <2>1, <2>2 DEF Rehashed
        <3> QED BY <1>3, <2>1, <2>2, <3>1
    <2>3. CASE size # 0
        <3>1. size \in Nat \ {0} BY <2>3, HashAssumption
        <3>2. Sound(hash, Self, HashKeys) BY <1>1, <2>1 DEF Whole
        <3>3. Sound(hash', Self, HashKeys) /\ Held(hash') = Held(hash) BY <2>1, <3>1, <3>2, RehashedIs
        <3> QED BY <1>1, <2>1, <2>3, <3>3 DEF HashInv, Whole
    <2> QED BY <2>2, <2>3
<1>9. ASSUME HashIterate PROVE HashInv'
    <2>1. hash # NoHash /\ contents' = contents BY <1>9 DEF HashIterate, HashNextPair
    <2>2. Sound(hash, Self, HashKeys) BY <1>1, <2>1 DEF Whole
    <2>3. hash.flags \in SUBSET Flags
        <3>1. TableFits(hash, Self, HashKeys) BY <2>2 DEF Sound
        <3> QED BY <3>1, TableBuckets
    <2> DEFINE start == hashNext.i = 0 /\ hashNext.j = 0
               n == IF start THEN [NotNext EXCEPT !.flags = hash.flags, !.there = DOMAIN contents] ELSE hashNext
               i == NextPlace(hash, n.i + 1, n.j)
               b == hash.buckets[i]
               at == IF i = n.i + 1 THEN n.j ELSE 0
               key == IF b.user THEN b.pairs[1].key ELSE b.pairs[at + 1].key
    <2>4. n.flags \in SUBSET Flags
        <3>1. [NotNext EXCEPT !.flags = hash.flags, !.there = DOMAIN contents].flags = hash.flags
            BY SMTT(30) DEF NotNext
        <3> QED BY <1>1, <2>3, <3>1
    <2>5. IF i > Len(hash.buckets)
          THEN /\ hashNext' = [n EXCEPT !.i = 0, !.j = 0, !.ended = TRUE]
               /\ hash' = [hash EXCEPT !.flags = n.flags]
          ELSE /\ hashNext' = [n EXCEPT !.i = IF b.user THEN i ELSE i - 1,
                                        !.j = IF b.user THEN at ELSE at + 1,
                                        !.seen = Append(@, key)]
               /\ hash' = [hash EXCEPT !.flags = @ \cup {"no_grow", "no_shrink", "next"}]
        BY <1>9, Zenon DEF HashIterate, HashNextPair
    <2> HIDE DEF n, i, b, at, key
    <2>6. CASE i > Len(hash.buckets)
        <3> DEFINE f == n.flags
        <3>1. hash' = [hash EXCEPT !.flags = f] /\ f \in SUBSET Flags BY <2>4, <2>5, <2>6
        <3> HIDE DEF f
        <3>2. Sound(hash', Self, HashKeys) /\ Held(hash') = Held(hash) BY <2>2, <3>1, FlagsChanged
        <3>3. hashNext' = [n EXCEPT !.i = 0, !.j = 0, !.ended = TRUE] BY <2>5, <2>6
        <3>4. hashNext'.flags = n.flags BY <3>3
        <3> QED BY <1>1, <2>1, <2>4, <3>2, <3>4 DEF HashInv, Whole
    <2>7. CASE ~ (i > Len(hash.buckets))
        <3> DEFINE f == hash.flags \cup {"no_grow", "no_shrink", "next"}
        <3>1. hash' = [hash EXCEPT !.flags = f] BY <2>5, <2>7
        <3>2. f \in SUBSET Flags BY <2>3 DEF Flags
        <3> HIDE DEF f
        <3>3. Sound(hash', Self, HashKeys) /\ Held(hash') = Held(hash) BY <2>2, <3>1, <3>2, FlagsChanged
        <3>4. hashNext' = [n EXCEPT !.i = IF b.user THEN i ELSE i - 1,
                                    !.j = IF b.user THEN at ELSE at + 1,
                                    !.seen = Append(@, key)]
            BY <2>5, <2>7
        <3>5. hashNext'.flags = n.flags BY <3>4
        <3> QED BY <1>1, <2>1, <2>4, <3>3, <3>5 DEF HashInv, Whole
    <2> QED BY <2>6, <2>7, ZenonT(60)
<1>10. ASSUME UNCHANGED hashVars PROVE HashInv' BY <1>1, <1>10 DEF HashInv, hashVars
<1> QED BY <1>4, <1>5, <1>6, <1>7, <1>8, <1>9, <1>10 DEF HashNext

\* What it says of the table.
LEMMA HashInvIsMap == HashInv => HashIsMap
<1> SUFFICES ASSUME HashInv PROVE HashIsMap OBVIOUS
<1>1. Whole(hash, Self, HashKeys) /\ Held(hash) = Entries(contents) /\ DOMAIN contents \subseteq HashKeys
    BY DEF HashInv
<1>2. \A k \in HashKeys : Self[k] = k BY DEF Self
<1>3. \A k \in DOMAIN contents : Pair(k, contents[k]) \in Held(hash) BY <1>1 DEF Entries
<1>4. \A p \in Held(hash) : \E k \in DOMAIN contents : p = Pair(k, contents[k]) BY <1>1 DEF Entries
<1>5. \A k, v : Pair(k, v).key = k BY DEF Pair
<1>6. ASSUME NEW k \in HashKeys
      PROVE  GetPair(hash, Self, k) = IF k \in DOMAIN contents THEN Pair(k, contents[k]) ELSE NoPair
    <2>1. CASE hash = NoHash
        <3>1. k \notin DOMAIN contents BY <1>3, <2>1, NothingHeld
        <3> QED BY <2>1, <3>1 DEF GetPair
    <2>2. CASE hash # NoHash
        <3>1. TableFits(hash, Self, HashKeys) BY <1>1, <2>2 DEF Whole, Sound
        <3>2. Self[k] \in HashKeys BY <1>2
        <3>3. /\ \A p \in Held(hash) : Self[p.key] = Self[k] => GetPair(hash, Self, k) = p
              /\ (\A p \in Held(hash) : Self[p.key] # Self[k]) => GetPair(hash, Self, k) = NoPair
            BY <3>1, <3>2, GetPairIs
        <3>4. CASE k \in DOMAIN contents
            <4>1. Pair(k, contents[k]) \in Held(hash) /\ Pair(k, contents[k]).key = k BY <1>3, <1>5, <3>4
            <4> QED BY <3>3, <3>4, <4>1
        <3>5. CASE k \notin DOMAIN contents
            <4>1. \A p \in Held(hash) : Self[p.key] # Self[k]
                <5> TAKE p \in Held(hash)
                <5>1. PICK m \in DOMAIN contents : p = Pair(m, contents[m]) BY <1>4
                <5>2. p.key = m /\ m # k /\ m \in HashKeys BY <1>1, <1>5, <3>5, <5>1
                <5> QED BY <1>2, <5>2
            <4> QED BY <3>3, <3>5, <4>1
        <3> QED BY <3>4, <3>5
    <2> QED BY <2>1, <2>2
<1>7. CASE hash = NoHash
    <2>1. Held(hash) = {} /\ hash.elts = 0 /\ Len(hash.buckets) = 0 /\ hash.buckets = <<>>
        BY <1>7, NothingHeld DEF NoHash
    <2>2. DOMAIN contents = {} BY <1>3, <2>1
    <2>3. Cardinality(DOMAIN contents) = 0 BY <2>2, FS_EmptySet
    <2>4. Len(Pairs(hash)) = 0 /\ ToSet(Pairs(hash)) = {}
        <3> DEFINE seqs == [i \in DOMAIN hash.buckets |-> hash.buckets[i].pairs]
        <3>1. DOMAIN hash.buckets = {} BY <2>1
        <3>2. seqs = <<>> BY <3>1
        <3>3. Pairs(hash) = FlattenSeq(seqs) BY DEF Pairs
        <3> HIDE DEF seqs
        <3>4. FlattenSeq(seqs) = <<>> BY <3>2 DEF FlattenSeq
        <3>5. ToSet(<<>>) = {} /\ Len(<<>>) = 0 BY DEF ToSet
        <3> QED BY <3>3, <3>4, <3>5
    <2>5. RoomForPairs BY <2>1 DEF RoomForPairs
    <2>6. {Pair(k, contents[k]) : k \in DOMAIN contents} = {} BY <2>2
    <2> QED BY <1>6, <2>1, <2>3, <2>4, <2>5, <2>6 DEF HashIsMap
<1>8. CASE hash # NoHash
    <2>1. Sound(hash, Self, HashKeys) BY <1>1, <1>8 DEF Whole
    <2>2. TableFits(hash, Self, HashKeys) /\ IsFiniteSet(Held(hash)) /\ hash.elts = Cardinality(Held(hash))
        BY <2>1 DEF Sound
    <2>3. RoomForPairs BY <2>2, TableBuckets DEF RoomForPairs, BucketFits
    <2>4. Cardinality(Held(hash)) = Cardinality(DOMAIN contents) BY <1>1, <2>2, EntriesCounted
    <2>5. PairsWith(Pairs(hash), Held(hash), Self, HashKeys) /\ Len(Pairs(hash)) = hash.elts BY <2>1, PairsIs
    <2>6. ToSet(Pairs(hash)) = Entries(contents) BY <1>1, <2>5 DEF PairsWith
    <2>7. ToSet(Pairs(hash)) = {Pair(k, contents[k]) : k \in DOMAIN contents} BY <2>6 DEF Entries
    <2> QED BY <1>6, <2>2, <2>3, <2>4, <2>5, <2>7 DEF HashIsMap
<1> QED BY <1>7, <1>8

\* The hash table is the map that was written to it, with room for its pairs,
\* whatever the sums of the keys are, and whatever was set, unset, resized and
\* visited.
THEOREM HashIsAMap == HashSpec => []HashIsMap
<1>1. HashInit => HashInv BY HashInitHolds
<1>2. HashInv /\ [HashNext \/ HashIterate]_hashVars => HashInv' BY HashStepKeeps
<1>3. HashInv => HashIsMap BY HashInvIsMap
<1> QED BY <1>1, <1>2, <1>3, PTL DEF HashSpec

-----------------------------------------------------------------------------
(* hash_next *)

\* The least of some numbers.
LEMMA FirstIs ==
    ASSUME NEW S, S \subseteq Nat, S # {}
    PROVE  First(S) \in S /\ \A y \in S : First(S) <= y
<1>1. Min(S) \in S /\ \A y \in S : Min(S) <= y BY MinIsLeast
<1>2. \E x \in S : \A y \in S : x <= y BY <1>1
<1> QED BY <1>2 DEF First

\* A bucket that has what it had in the same places, and may have one more key.
Grown(b, c, key, fresh) ==
    /\ Len(b.pairs) <= Len(c.pairs)
    /\ \A m \in 1 .. Len(b.pairs) : c.pairs[m].key = b.pairs[m].key
    /\ \A m \in 1 .. Len(c.pairs) : m > Len(b.pairs) => c.pairs[m].key = key /\ fresh
    /\ ~ b.user /\ b.pairs # <<>> => ~ c.user

\* A new value leaves the keys of a bucket in their places.
LEMMA ValueSetGrows ==
    ASSUME NEW K, NEW b \in BucketsOf(K), NEW j \in 1 .. Len(b.pairs), NEW value \in HashValues,
           NEW key, NEW fresh
    PROVE  Grown(b, [b EXCEPT !.pairs[j].value = value], key, fresh)
<1> DEFINE s == b.pairs
           p == [s[j] EXCEPT !.value = value]
           t == [s EXCEPT ![j] = p]
           c == [b EXCEPT !.pairs[j].value = value]
<1>1. s \in Seq(PairsOf(K)) /\ Len(s) \in Nat /\ s[j] \in PairsOf(K)
    <2>1. s \in Seq(PairsOf(K)) BY DEF BucketsOf
    <2> QED BY <2>1, SeqMembers
<1>2. p \in PairsOf(K) /\ p.key = s[j].key BY <1>1 DEF PairsOf
<1>3. c = [b EXCEPT !.pairs = t] OBVIOUS
<1> HIDE DEF c, p
<1>4. c.user = b.user /\ c.pairs = t BY <1>3 DEF BucketsOf
<1>5. Len(t) = Len(s) /\ \A m \in 1 .. Len(s) : t[m] = IF m = j THEN p ELSE s[m]
    BY <1>1, <1>2, ExceptSeq
<1> HIDE DEF t
<1>6. \A m \in 1 .. Len(s) : t[m].key = s[m].key BY <1>2, <1>5
<1> HIDE DEF s
<1>7. \A m \in 1 .. Len(s) : ~ (m > Len(s)) BY <1>1
<1>8. Len(s) <= Len(t) BY <1>1, <1>5
<1>9. Grown(b, c, key, fresh) BY <1>4, <1>5, <1>6, <1>7, <1>8 DEF Grown, s
<1> QED BY <1>9 DEF c

\* A new pair goes behind the others.
LEMMA AddedGrows ==
    ASSUME NEW b, NEW id, NEW K, NEW i, NEW n, BucketFits(b, id, K, i, n),
           NEW p \in PairsOf(K), NEW fresh, fresh
    PROVE  Grown(b, AddedTo(b, p), p.key, fresh)
<1> DEFINE s == b.pairs
           l == Len(s)
           c == AddedTo(b, p)
           t == c.pairs
<1>1. s \in Seq(PairsOf(K)) /\ l \in Nat BY BucketPairs DEF BucketFits
<1>2. IF b.user THEN l = 1 ELSE s = <<>> \/ l \in 2 .. b.room BY DEF BucketFits
<1> HIDE DEF c
<1>3. ASSUME Len(t) = l + 1, \A m \in 1 .. l : t[m] = s[m], t[l + 1] = p, ~ b.user /\ s # <<>> => ~ c.user
      PROVE  Grown(b, c, p.key, fresh)
    <2>1. l <= Len(t) BY <1>1, <1>3
    <2>2. \A m \in 1 .. l : t[m].key = s[m].key BY <1>3
    <2>3. \A m \in 1 .. Len(t) : m > l => t[m].key = p.key
        <3> TAKE m \in 1 .. Len(t)
        <3>1. m > l => m = l + 1 BY <1>1, <1>3
        <3> QED BY <1>3, <3>1
    <2> QED BY <1>3, <2>1, <2>2, <2>3 DEF Grown
<1>4. CASE b.user
    <2>1. l = 1 BY <1>2, <1>4
    <2>2. c = Indirect(<<s[1], p>>, 2) BY <1>4 DEF c, AddedTo
    <2>3. t = <<s[1], p>> BY <2>2 DEF Indirect
    <2>4. Len(t) = l + 1 /\ (\A m \in 1 .. l : t[m] = s[m]) /\ t[l + 1] = p BY <2>1, <2>3
    <2> QED BY <1>3, <1>4, <2>4 DEF c
<1>5. CASE ~ b.user /\ s = <<>>
    <2>1. l = 0 BY <1>5
    <2>2. c = Direct(p) BY <1>5 DEF c, AddedTo
    <2>3. t = <<p>> BY <2>2 DEF Direct
    <2>4. Len(t) = l + 1 /\ (\A m \in 1 .. l : t[m] = s[m]) /\ t[l + 1] = p BY <2>1, <2>3
    <2> QED BY <1>3, <1>5, <2>4 DEF c
<1>6. CASE ~ b.user /\ s # <<>>
    <2>1. t = Append(s, p) /\ ~ c.user BY <1>6 DEF c, AddedTo, Indirect
    <2> HIDE DEF s
    <2>2. Len(t) = l + 1 /\ (\A m \in 1 .. l : t[m] = s[m]) /\ t[l + 1] = p BY <1>1, <2>1, AppendProperties
    <2> QED BY <1>3, <1>6, <2>1, <2>2 DEF c, s
<1> QED BY <1>4, <1>5, <1>6

\* Setting a key leaves every pair in its place.
LEMMA SetGrows ==
    ASSUME NEW t, NEW id, NEW K, TableFits(t, id, K), NEW key \in K, id[key] \in HashKeys,
           NEW value \in HashValues
    PROVE  \A k \in 1 .. Len(t.buckets) :
               Grown(t.buckets[k], Set(t, id, key, value).buckets[k], key,
                     \A p \in Held(t) : id[p.key] # id[key])
<1> DEFINE i == BucketOf(t, id, key)
           n == Len(t.buckets)
           b == Bucket(t, id, key)
           found == Found(t, id, key)
           j == First(found)
           c == SetBucket(t, id, key, value)
           u == Set(t, id, key, value)
           fresh == \A p \in Held(t) : id[p.key] # id[key]
<1>1. u.buckets = [t.buckets EXCEPT ![i] = c]
    <2>1. u = [buckets |-> [t.buckets EXCEPT ![i] = c], elts |-> SetCount(t, id, key), flags |-> t.flags]
        BY SetReplaces
    <2> HIDE DEF u
    <2> QED BY <2>1
<1>2. i \in 1 .. n /\ b = t.buckets[i] /\ DOMAIN t.buckets = 1 .. n BY BucketIs, TableBuckets DEF Bucket
<1>3. /\ BucketFits(b, id, K, i, n) /\ b \in BucketsOf(K)
      /\ found = {} => fresh
      /\ found # {} => j \in 1 .. Len(b.pairs)
    <2>1. BucketFits(b, id, K, i, n) BY Looked
    <2> QED BY <2>1, Looked DEF BucketFits
<1>4. c = IF found # {} THEN [b EXCEPT !.pairs[j].value = value] ELSE AddedTo(b, Pair(key, value))
    BY DEF SetBucket
<1>5. \A k \in 1 .. n : t.buckets[k] \in BucketsOf(K) BY TableBuckets
<1> HIDE DEF i, n, b, found, j, c, u, fresh
<1>6. Grown(b, c, key, fresh)
    <2>1. CASE found # {}
        <3>1. j \in 1 .. Len(b.pairs) BY <1>3, <2>1
        <3>2. Grown(b, [b EXCEPT !.pairs[j].value = value], key, fresh) BY <1>3, <3>1, ValueSetGrows
        <3> QED BY <1>4, <2>1, <3>2
    <2>2. CASE found = {}
        <3> DEFINE p == Pair(key, value)
        <3>1. p \in PairsOf(K) /\ p.key = key BY DEF Pair, PairsOf
        <3>2. fresh BY <1>3, <2>2
        <3> HIDE DEF p
        <3>3. Grown(b, AddedTo(b, p), p.key, fresh) BY <1>3, <3>1, <3>2, AddedGrows
        <3> QED BY <1>4, <2>2, <3>1, <3>3 DEF p
    <2> QED BY <2>1, <2>2
<1>7. ASSUME NEW k \in 1 .. n PROVE Grown(t.buckets[k], u.buckets[k], key, fresh)
    <2>1. CASE k = i
        <3>1. u.buckets[k] = c /\ t.buckets[k] = b BY <1>1, <1>2, <2>1
        <3> QED BY <1>6, <3>1
    <2>2. CASE k # i
        <3> DEFINE d == t.buckets[k]
        <3>1. u.buckets[k] = d BY <1>1, <1>2, <2>2
        <3>2. d \in BucketsOf(K) BY <1>5
        <3> HIDE DEF d
        <3>3. Len(d.pairs) \in Nat BY <3>2, BucketPairs
        <3>4. Grown(d, d, key, fresh) BY <3>3 DEF Grown
        <3> QED BY <3>1, <3>4 DEF d
    <2> QED BY <2>1, <2>2
<1> QED BY <1>7 DEF n, u, fresh

\* Where a key lies, and the keys that lie before a place: in the buckets up to
\* i, or among the first j of the next.
Lies(t, k, m, key) ==
    k \in 1 .. Len(t.buckets) /\ m \in 1 .. Len(t.buckets[k].pairs) /\ t.buckets[k].pairs[m].key = key
Passed(t, i, j) ==
    {key \in HashKeys : \E k, m \in Nat : Lies(t, k, m, key) /\ (k <= i \/ (k = i + 1 /\ m <= j))}

\* A key lies in one place.
LEMMA LiesOnce ==
    ASSUME NEW t, TableFits(t, Self, HashKeys)
    PROVE  /\ \A k, m, l, o, key : Lies(t, k, m, key) /\ Lies(t, l, o, key) => k = l /\ m = o
           /\ \A k, m, key : Lies(t, k, m, key) =>
                  key \in HashKeys /\ k \in Nat \ {0} /\ m \in Nat \ {0} /\ \E p \in Held(t) : p.key = key
           /\ \A p \in Held(t) : \E k, m \in Nat : Lies(t, k, m, p.key)
<1> DEFINE n == Len(t.buckets)
<1>1. n \in Nat \ {0} /\ \A k \in 1 .. n : BucketFits(t.buckets[k], Self, HashKeys, k, n)
                                          /\ t.buckets[k] \in BucketsOf(HashKeys)
    BY TableBuckets
<1>2. \A k \in HashKeys : Self[k] = k BY DEF Self
<1>3. ASSUME NEW k \in 1 .. n
      PROVE  /\ Len(t.buckets[k].pairs) \in Nat
             /\ ToSet(t.buckets[k].pairs) = {t.buckets[k].pairs[m] : m \in 1 .. Len(t.buckets[k].pairs)}
             /\ \A m \in 1 .. Len(t.buckets[k].pairs) : t.buckets[k].pairs[m].key \in HashKeys
             /\ Distinct(t.buckets[k].pairs, Self)
             /\ ToSet(t.buckets[k].pairs) \subseteq Held(t)
    <2> DEFINE b == t.buckets[k]
    <2>1. BucketFits(b, Self, HashKeys, k, n) /\ b \in BucketsOf(HashKeys) BY <1>1
    <2>2. ToSet(b.pairs) \subseteq Held(t) BY HeldPairs
    <2> HIDE DEF b
    <2>3. Len(b.pairs) \in Nat /\ ToSet(b.pairs) = {b.pairs[m] : m \in 1 .. Len(b.pairs)}
          /\ \A m \in 1 .. Len(b.pairs) : b.pairs[m].key \in HashKeys
        BY <2>1, BucketPairs
    <2>4. Distinct(b.pairs, Self) BY <2>1 DEF BucketFits
    <2> QED BY <2>2, <2>3, <2>4 DEF b
<1>4. ASSUME NEW k, NEW m, NEW key, Lies(t, k, m, key)
      PROVE  key \in HashKeys /\ k \in 1 .. n /\ m \in Nat \ {0} /\ k = BucketOf(t, Self, key)
             /\ \E p \in Held(t) : p.key = key
    <2>1. k \in 1 .. n /\ m \in 1 .. Len(t.buckets[k].pairs) /\ t.buckets[k].pairs[m].key = key
        BY <1>4 DEF Lies
    <2> DEFINE p == t.buckets[k].pairs[m]
    <2>2. p \in ToSet(t.buckets[k].pairs) /\ p.key = key BY <1>3, <2>1
    <2> HIDE DEF p
    <2>3. p \in Held(t) BY <1>3, <2>1, <2>2
    <2>4. k = BucketOf(t, Self, key) BY <2>1, <2>2, <2>3, HeldPairs
    <2>5. key \in HashKeys /\ m \in Nat \ {0} BY <1>3, <2>1
    <2> QED BY <2>1, <2>2, <2>3, <2>4, <2>5
<1>5. ASSUME NEW k, NEW m, NEW l, NEW o, NEW key, Lies(t, k, m, key), Lies(t, l, o, key)
      PROVE  k = l /\ m = o
    <2>1. k = l /\ k \in 1 .. n /\ key \in HashKeys BY <1>4, <1>5
    <2>2. /\ m \in 1 .. Len(t.buckets[k].pairs) /\ t.buckets[k].pairs[m].key = key
          /\ o \in 1 .. Len(t.buckets[k].pairs) /\ t.buckets[k].pairs[o].key = key
        BY <1>5, <2>1 DEF Lies
    <2>3. Distinct(t.buckets[k].pairs, Self) BY <1>3, <2>1
    <2>4. m = o BY <2>2, <2>3 DEF Distinct
    <2> QED BY <2>1, <2>4
<1>6. ASSUME NEW p \in Held(t) PROVE \E k, m \in Nat : Lies(t, k, m, p.key)
    <2>1. PICK k \in 1 .. n : p \in ToSet(t.buckets[k].pairs) BY DEF Held
    <2>2. PICK m \in 1 .. Len(t.buckets[k].pairs) : p = t.buckets[k].pairs[m] BY <1>3, <2>1
    <2>3. Lies(t, k, m, p.key) BY <2>1, <2>2 DEF Lies
    <2>4. k \in Nat /\ m \in Nat BY <1>1
    <2> QED BY <2>3, <2>4
<1>7. \A k \in 1 .. n : k \in Nat \ {0} BY <1>1
<1> QED BY <1>4, <1>5, <1>6, <1>7

\* A table in which nothing was unset since the iteration started: it is at a
\* pair or before a bucket, every pair before there that was there at the start
\* has been seen, and what has been seen lies before, each seen once.
Visiting(t, map, i, j, there, seen) ==
    /\ i \in 0 .. Len(t.buckets) /\ j \in Nat
    /\ j > 0 => i < Len(t.buckets) /\ ~ t.buckets[i + 1].user /\ j <= Len(t.buckets[i + 1].pairs)
    /\ there \subseteq DOMAIN map
    /\ there \cap Passed(t, i, j) \subseteq ToSet(seen)
    /\ seen \in Seq(HashKeys) /\ ToSet(seen) \subseteq Passed(t, i, j) /\ IsInjective(seen)

\* A pair of bucket k remains to be returned.
Remains(t, i, j, k) ==
    IF k = i THEN t.buckets[k].user \/ j < Len(t.buckets[k].pairs) ELSE t.buckets[k].pairs # <<>>
\* NextPlace returns the first such bucket.
LEMMA NextPlaceIs ==
    ASSUME NEW t, NEW id, NEW K, TableFits(t, id, K), NEW i \in Nat \ {0}, NEW j \in Nat
    PROVE  /\ NextPlace(t, i, j) \in Nat \ {0}
           /\ NextPlace(t, i, j) <= Len(t.buckets) =>
                  i <= NextPlace(t, i, j) /\ Remains(t, i, j, NextPlace(t, i, j))
           /\ \A k \in i .. Len(t.buckets) : k < NextPlace(t, i, j) => ~ Remains(t, i, j, k)
<1> DEFINE n == Len(t.buckets)
           left == {k \in i .. n : Remains(t, i, j, k)}
           x == NextPlace(t, i, j)
<1>1. n \in Nat \ {0} BY TableBuckets
<1>2. x = IF left = {} THEN n + 1 ELSE First(left) BY DEF NextPlace, Remains
<1> HIDE DEF x, n
<1>3. left \subseteq Nat /\ \A k \in left : k \in i .. n BY <1>1
<1>4. CASE left = {}
    <2>1. x = n + 1 BY <1>2, <1>4
    <2>2. \A k \in i .. n : ~ Remains(t, i, j, k) BY <1>4
    <2>3. x \in Nat \ {0} /\ ~ (x <= n) BY <1>1, <2>1
    <2> QED BY <2>2, <2>3 DEF x, n
<1>5. CASE left # {}
    <2>1. x \in left /\ \A y \in left : x <= y
        <3> HIDE DEF left
        <3> QED BY <1>2, <1>3, <1>5, FirstIs
    <2>2. x \in i .. n /\ Remains(t, i, j, x) BY <2>1
    <2>3. \A k \in i .. n : k < x => ~ Remains(t, i, j, k) BY <1>1, <2>1, <2>2
    <2>4. x \in Nat \ {0} /\ i <= x BY <1>1, <2>2
    <2> QED BY <2>2, <2>3, <2>4 DEF x, n
<1> QED BY <1>4, <1>5

\* At a place found by hash_next: what lay before the last place still does.
Moved(t, i, j, x, at) ==
    /\ x >= i + 1 /\ at \in Nat /\ Passed(t, x - 1, at) = Passed(t, i, j)
    /\ IF t.buckets[x].user THEN at = 0 ELSE at + 1 <= Len(t.buckets[x].pairs)
\* Before the next place lie the same keys.
LEMMA SamePassed ==
    ASSUME NEW t, TableFits(t, Self, HashKeys), NEW i \in Nat, NEW j \in Nat,
           j > 0 => i < Len(t.buckets) /\ ~ t.buckets[i + 1].user /\ j <= Len(t.buckets[i + 1].pairs),
           NEW x \in Nat, x = NextPlace(t, i + 1, j), NEW at, at = (IF x = i + 1 THEN j ELSE 0)
    PROVE  /\ x <= Len(t.buckets) => Moved(t, i, j, x, at)
           /\ x > Len(t.buckets) => \A key \in HashKeys, k, m \in Nat : Lies(t, k, m, key) => key \in Passed(t, i, j)
<1> DEFINE n == Len(t.buckets)
           Size(k) == Len(t.buckets[k].pairs)
<1>1. n \in Nat \ {0} /\ \A k \in 1 .. n : t.buckets[k] \in BucketsOf(HashKeys) BY TableBuckets
<1>2. \A k \in 1 .. n : Size(k) \in Nat /\ (t.buckets[k].pairs = <<>> => Size(k) = 0)
                        /\ (t.buckets[k].pairs # <<>> => Size(k) >= 1)
    <2> TAKE k \in 1 .. n
    <2> DEFINE s == t.buckets[k].pairs
    <2>1. s \in Seq(PairsOf(HashKeys)) BY <1>1 DEF BucketsOf
    <2> HIDE DEF s
    <2>2. Len(s) \in Nat /\ (s = <<>> => Len(s) = 0) /\ (s # <<>> => Len(s) >= 1)
        BY <2>1, LenProperties, EmptySeq
    <2> QED BY <2>2 DEF s
<1>3. i + 1 \in Nat \ {0} OBVIOUS
<1>4. /\ x <= n => i + 1 <= x /\ Remains(t, i + 1, j, x)
      /\ \A k \in i + 1 .. n : k < x => ~ Remains(t, i + 1, j, k)
    BY <1>3, NextPlaceIs
<1> HIDE DEF n, Size
<1>5. \A k, m, key : Lies(t, k, m, key) => k \in 1 .. n /\ m \in 1 .. Size(k) BY DEF Lies, n, Size
<1>6. ASSUME NEW k \in i + 1 .. n, k < x, NEW m \in 1 .. Size(k) PROVE k = i + 1 /\ m <= j
    <2>1. ~ Remains(t, i + 1, j, k) /\ k \in 1 .. n BY <1>1, <1>4, <1>6
    <2>2. CASE k = i + 1
        <3>1. ~ (j < Size(k)) BY <2>1, <2>2 DEF Remains, Size
        <3>2. m <= j BY <1>2, <2>1, <3>1
        <3> QED BY <2>2, <3>2
    <2>3. CASE k # i + 1
        <3>1. t.buckets[k].pairs = <<>> BY <2>1, <2>3 DEF Remains
        <3>2. Size(k) = 0 BY <1>2, <2>1, <3>1
        <3> QED BY <3>2
    <2> QED BY <2>2, <2>3
<1>7. ASSUME x <= n
      PROVE  /\ x >= i + 1 /\ at \in Nat /\ Passed(t, x - 1, at) = Passed(t, i, j)
             /\ IF t.buckets[x].user THEN at = 0 ELSE at + 1 <= Size(x)
    <2>1. i + 1 <= x /\ Remains(t, i + 1, j, x) /\ x \in 1 .. n /\ Size(x) \in Nat /\ at \in Nat
        BY <1>1, <1>2, <1>4, <1>7
    <2>2. IF t.buckets[x].user THEN at = 0 ELSE at + 1 <= Size(x)
        <3>1. CASE x = i + 1
            <4>1. at = j BY <3>1
            <4>2. t.buckets[x].user \/ j < Size(x) BY <2>1, <3>1 DEF Remains, Size
            <4>3. t.buckets[x].user => ~ (j > 0) BY <3>1
            <4> QED BY <2>1, <4>1, <4>2, <4>3
        <3>2. CASE x # i + 1
            <4>1. at = 0 BY <3>2
            <4>2. t.buckets[x].pairs # <<>> BY <2>1, <3>2 DEF Remains
            <4>3. Size(x) >= 1 BY <1>2, <2>1, <4>2
            <4> QED BY <4>1, <4>3
        <3> QED BY <3>1, <3>2
    <2>3. ASSUME NEW k \in Nat, NEW m \in Nat, NEW key, Lies(t, k, m, key)
          PROVE  (k <= x - 1 \/ (k = (x - 1) + 1 /\ m <= at)) <=> (k <= i \/ (k = i + 1 /\ m <= j))
        <3>1. k \in 1 .. n /\ m \in 1 .. Size(k) BY <1>5, <2>3
        <3>2. CASE k <= i BY <2>1, <3>2
        <3>3. CASE k > i /\ k < x
            <4>1. k = i + 1 /\ m <= j BY <1>6, <3>1, <3>3
            <4> QED BY <2>1, <3>3, <4>1
        <3>4. CASE k > i /\ k = x
            <4>1. CASE x = i + 1 BY <3>4, <4>1
            <4>2. CASE x # i + 1 BY <2>1, <3>1, <3>4, <4>2
            <4> QED BY <4>1, <4>2
        <3>5. CASE k > x BY <2>1, <3>5
        <3> QED BY <3>2, <3>3, <3>4, <3>5
    <2>4. Passed(t, x - 1, at) = Passed(t, i, j) BY <2>3 DEF Passed
    <2> QED BY <2>1, <2>2, <2>4
<1>8. ASSUME x > n, NEW key \in HashKeys, NEW k \in Nat, NEW m \in Nat, Lies(t, k, m, key)
      PROVE  key \in Passed(t, i, j)
    <2>1. k \in 1 .. n /\ m \in 1 .. Size(k) BY <1>5, <1>8
    <2>2. k <= i \/ (k = i + 1 /\ m <= j)
        <3>1. CASE k <= i BY <3>1
        <3>2. CASE k > i
            <4>1. k \in i + 1 .. n /\ k < x BY <1>1, <1>8, <2>1, <3>2, SMTT(30)
            <4> QED BY <1>6, <2>1, <4>1
        <3> QED BY <3>1, <3>2
    <2> QED BY <1>8, <2>2 DEF Passed
<1> QED BY <1>7, <1>8 DEF n, Size, Moved

\* hash_next goes on from place j of bucket i + 1 and finds key at place at of
\* bucket x.
FoundNext(t, i, j, x, at, key) ==
    /\ x = NextPlace(t, i + 1, j) /\ x <= Len(t.buckets)
    /\ at = (IF x = i + 1 THEN j ELSE 0)
    /\ key = IF t.buckets[x].user THEN t.buckets[x].pairs[1].key ELSE t.buckets[x].pairs[at + 1].key

\* hash_next's next pair.
LEMMA VisitNext ==
    ASSUME NEW t, TableFits(t, Self, HashKeys), NEW map, NEW i, NEW j, NEW there, NEW seen,
           Visiting(t, map, i, j, there, seen),
           NEW x \in Nat, NEW at, NEW key, FoundNext(t, i, j, x, at, key)
    PROVE  Visiting(t, map, IF t.buckets[x].user THEN x ELSE x - 1, IF t.buckets[x].user THEN at ELSE at + 1,
                    there, Append(seen, key))
<1> DEFINE n == Len(t.buckets)
           b == t.buckets[x]
           P == Passed(t, x - 1, at)
           i2 == IF b.user THEN x ELSE x - 1
           j2 == IF b.user THEN at ELSE at + 1
           more == Append(seen, key)
<1>1. n \in Nat \ {0} /\ \A k \in 1 .. n : BucketFits(t.buckets[k], Self, HashKeys, k, n)
    BY TableBuckets
<1>2. /\ i \in 0 .. n /\ j \in Nat
      /\ j > 0 => i < n /\ ~ t.buckets[i + 1].user /\ j <= Len(t.buckets[i + 1].pairs)
      /\ there \subseteq DOMAIN map /\ there \cap Passed(t, i, j) \subseteq ToSet(seen)
      /\ seen \in Seq(HashKeys) /\ ToSet(seen) \subseteq Passed(t, i, j) /\ IsInjective(seen)
    BY DEF Visiting
<1>3. i \in Nat /\ x \in 1 .. n
    <2>1. i \in Nat /\ i + 1 \in Nat \ {0} BY <1>1, <1>2
    <2>0. x = NextPlace(t, i + 1, j) /\ x <= n BY DEF FoundNext
    <2>2. x \in Nat \ {0} BY <1>2, <2>0, <2>1, NextPlaceIs
    <2> QED BY <2>0, <2>1, <2>2
<1>4. /\ x >= i + 1 /\ at \in Nat /\ P = Passed(t, i, j)
      /\ IF b.user THEN at = 0 ELSE at + 1 <= Len(b.pairs)
    <2>1. TableFits(t, Self, HashKeys) /\ x <= n /\ i \in Nat /\ j \in Nat BY <1>2, <1>3
    <2>2. j > 0 => i < Len(t.buckets) /\ ~ t.buckets[i + 1].user /\ j <= Len(t.buckets[i + 1].pairs) BY <1>2
    <2>4. x = NextPlace(t, i + 1, j) /\ x <= Len(t.buckets) /\ at = (IF x = i + 1 THEN j ELSE 0) BY DEF FoundNext
    <2>3. Moved(t, i, j, x, at) BY <2>1, <2>2, <2>4, SamePassed
    <2> QED BY <2>3 DEF Moved
<1>5. BucketFits(b, Self, HashKeys, x, n) BY <1>1, <1>3
<1>14. b.user => Len(b.pairs) = 1 BY <1>5 DEF BucketFits
<1>15. key = IF b.user THEN b.pairs[1].key ELSE b.pairs[at + 1].key BY DEF FoundNext
<1>6. key = b.pairs[at + 1].key /\ at + 1 \in 1 .. Len(b.pairs)
    <2>1. CASE b.user
        <3>1. at = 0 /\ Len(b.pairs) = 1 BY <1>4, <1>14, <2>1
        <3>2. at + 1 = 1 /\ at + 1 \in 1 .. Len(b.pairs) BY <3>1
        <3> HIDE DEF b
        <3> QED BY <1>15, <2>1, <3>2
    <2>2. CASE ~ b.user
        <3>1. at + 1 \in 1 .. Len(b.pairs) BY <1>4, <2>2
        <3> HIDE DEF b
        <3> QED BY <1>15, <2>2, <3>1
    <2> QED BY <2>1, <2>2
<1>7. Lies(t, x, at + 1, key) BY <1>3, <1>6 DEF Lies
<1>8. \A k, m, y : Lies(t, k, m, y) => y \in HashKeys /\ k \in Nat \ {0} /\ m \in Nat \ {0} BY LiesOnce
<1>9. \A k, m, y : Lies(t, k, m, y) => k \in 1 .. n /\ m \in 1 .. Len(t.buckets[k].pairs) BY DEF Lies
<1>10. \A k, m : Lies(t, k, m, key) => k = x /\ m = at + 1 BY <1>7, LiesOnce
<1>11. key \in HashKeys BY <1>7, <1>8
<1>12. key \notin P
    <2> SUFFICES ASSUME NEW k \in Nat, NEW m \in Nat, Lies(t, k, m, key), k <= x - 1 \/ (k = (x - 1) + 1 /\ m <= at)
                 PROVE  FALSE
        BY DEF Passed
    <2>1. k = x /\ m = at + 1 BY <1>10
    <2> QED BY <1>3, <1>4, <2>1
<1> HIDE DEF b
<1>13. Passed(t, i2, j2) = P \cup {key}
    <2>1. ASSUME NEW k \in Nat, NEW m \in Nat, NEW y, Lies(t, k, m, y)
          PROVE  (k <= i2 \/ (k = i2 + 1 /\ m <= j2))
                     <=> ((k <= x - 1 \/ (k = (x - 1) + 1 /\ m <= at)) \/ (k = x /\ m = at + 1))
        <3>1. m >= 1 /\ k \in 1 .. n /\ m \in 1 .. Len(t.buckets[k].pairs) BY <1>8, <1>9, <2>1
        <3>2. CASE b.user
            <4>1. i2 = x /\ j2 = 0 /\ at = 0 /\ Len(b.pairs) = 1 BY <1>4, <1>14, <3>2
            <4>2. ASSUME k = x PROVE m = 1
                <5>1. m \in 1 .. Len(b.pairs) BY <3>1, <4>2 DEF b
                <5>2. m \in 1 .. 1 BY <4>1, <5>1
                <5> QED BY <5>2
            <4> HIDE DEF i2, j2
            <4> QED BY <1>3, <3>1, <4>1, <4>2
        <3>3. CASE ~ b.user
            <4>1. i2 = x - 1 /\ j2 = at + 1 BY <3>3
            <4> HIDE DEF i2, j2
            <4> QED BY <1>3, <1>4, <3>1, <4>1
        <3> QED BY <3>2, <3>3
    <2> HIDE DEF i2, j2
    <2>2. \A y : y \in Passed(t, i2, j2) => y \in P \cup {key}
        <3> SUFFICES ASSUME NEW k \in Nat, NEW m \in Nat, NEW y \in HashKeys, Lies(t, k, m, y),
                            k <= i2 \/ (k = i2 + 1 /\ m <= j2)
                     PROVE  y \in P \cup {key}
            BY DEF Passed
        <3>1. (k <= x - 1 \/ (k = (x - 1) + 1 /\ m <= at)) \/ (k = x /\ m = at + 1) BY <2>1
        <3>2. CASE k <= x - 1 \/ (k = (x - 1) + 1 /\ m <= at) BY <3>2 DEF Passed
        <3>3. CASE k = x /\ m = at + 1 BY <1>7, <3>3 DEF Lies
        <3> QED BY <3>1, <3>2, <3>3
    <2>3. \A y \in P : y \in Passed(t, i2, j2)
        <3> SUFFICES ASSUME NEW k \in Nat, NEW m \in Nat, NEW y \in HashKeys, Lies(t, k, m, y),
                            k <= x - 1 \/ (k = (x - 1) + 1 /\ m <= at)
                     PROVE  y \in Passed(t, i2, j2)
            BY DEF Passed
        <3>1. k <= i2 \/ (k = i2 + 1 /\ m <= j2) BY <2>1
        <3> QED BY <3>1 DEF Passed
    <2>4. key \in Passed(t, i2, j2)
        <3>1. x \in Nat /\ at + 1 \in Nat BY <1>3, <1>4
        <3>2. x <= i2 \/ (x = i2 + 1 /\ at + 1 <= j2) BY <1>7, <2>1, <3>1
        <3> QED BY <1>7, <1>11, <3>1, <3>2 DEF Passed
    <2> QED BY <2>2, <2>3, <2>4
<1>16. /\ i2 \in 0 .. n /\ j2 \in Nat
       /\ j2 > 0 => i2 < n /\ ~ t.buckets[i2 + 1].user /\ j2 <= Len(t.buckets[i2 + 1].pairs)
    <2>1. CASE b.user
        <3>1. i2 = x /\ j2 = 0 BY <1>4, <2>1
        <3> HIDE DEF i2, j2
        <3> QED BY <1>1, <1>3, <3>1
    <2>2. CASE ~ b.user
        <3>1. i2 = x - 1 /\ j2 = at + 1 BY <2>2
        <3> HIDE DEF i2, j2
        <3>2. i2 + 1 = x /\ i2 \in 0 .. n /\ i2 < n /\ j2 \in Nat BY <1>1, <1>3, <1>4, <3>1
        <3>3. ~ t.buckets[i2 + 1].user /\ j2 <= Len(t.buckets[i2 + 1].pairs)
            BY <1>4, <2>2, <3>1, <3>2 DEF b
        <3> QED BY <3>2, <3>3
    <2> QED BY <2>1, <2>2
<1> HIDE DEF i2, j2, P
<1>17. /\ more \in Seq(HashKeys) /\ ToSet(more) = ToSet(seen) \cup {key} /\ IsInjective(more)
    <2> DEFINE l == Len(seen)
    <2>1. l \in Nat /\ DOMAIN seen = 1 .. l /\ ToSet(seen) = {seen[m] : m \in 1 .. l} BY <1>2, SeqMembers
    <2>2. more \in Seq(HashKeys) /\ Len(more) = l + 1 /\ (\A m \in 1 .. l : more[m] = seen[m]) /\ more[l + 1] = key
        BY <1>2, <1>11, AppendProperties
    <2> HIDE DEF more, l
    <2>3. DOMAIN more = 1 .. l + 1 /\ ToSet(more) = {more[m] : m \in 1 .. l + 1} BY <2>2, SeqMembers
    <2>4. \A m \in 1 .. l + 1 : m \in 1 .. l \/ m = l + 1 BY <2>1
    <2>5. ToSet(more) = ToSet(seen) \cup {key}
        <3>1. \A m \in 1 .. l : m \in 1 .. l + 1 BY <2>1
        <3>2. l + 1 \in 1 .. l + 1 BY <2>1
        <3> QED BY <2>1, <2>2, <2>3, <2>4, <3>1, <3>2
    <2>6. \A m \in 1 .. l : seen[m] # key BY <1>2, <1>4, <1>12, <2>1
    <2>7. IsInjective(more)
        <3> SUFFICES ASSUME NEW m \in 1 .. l + 1, NEW o \in 1 .. l + 1, more[m] = more[o] PROVE m = o
            BY <2>3 DEF IsInjective
        <3>1. CASE m \in 1 .. l /\ o \in 1 .. l
            <4>1. seen[m] = seen[o] BY <2>2, <3>1
            <4> QED BY <1>2, <2>1, <3>1, <4>1 DEF IsInjective
        <3>2. CASE m = l + 1 /\ o \in 1 .. l BY <2>2, <2>6, <3>2
        <3>3. CASE m \in 1 .. l /\ o = l + 1 BY <2>2, <2>6, <3>3
        <3> QED BY <2>4, <3>1, <3>2, <3>3
    <2> QED BY <2>2, <2>5, <2>7
<1> HIDE DEF more
<1>18. there \cap Passed(t, i2, j2) \subseteq ToSet(more) /\ ToSet(more) \subseteq Passed(t, i2, j2)
    BY <1>2, <1>4, <1>13, <1>17
<1>19. Visiting(t, map, i2, j2, there, more) BY <1>2, <1>16, <1>17, <1>18 DEF Visiting
<1> QED BY <1>19 DEF i2, j2, more, b

\* When it finds no more, it has seen them all.
LEMMA VisitEnd ==
    ASSUME NEW t, TableFits(t, Self, HashKeys), NEW map, Held(t) = Entries(map), DOMAIN map \subseteq HashKeys,
           NEW i, NEW j, NEW there, NEW seen, Visiting(t, map, i, j, there, seen),
           NEW x \in Nat, x = NextPlace(t, i + 1, j), x > Len(t.buckets)
    PROVE  there \subseteq ToSet(seen) /\ IsInjective(seen)
<1>1. /\ i \in 0 .. Len(t.buckets) /\ j \in Nat
      /\ j > 0 => i < Len(t.buckets) /\ ~ t.buckets[i + 1].user /\ j <= Len(t.buckets[i + 1].pairs)
      /\ there \subseteq DOMAIN map /\ there \cap Passed(t, i, j) \subseteq ToSet(seen)
      /\ IsInjective(seen)
    BY DEF Visiting
<1>2. i \in Nat BY <1>1
<1> DEFINE at == IF x = i + 1 THEN j ELSE 0
<1>3. at = IF x = i + 1 THEN j ELSE 0 OBVIOUS
<1> HIDE DEF at
<1>4. \A key \in HashKeys, k, m \in Nat : Lies(t, k, m, key) => key \in Passed(t, i, j)
    BY <1>1, <1>2, <1>3, SamePassed
<1>5. ASSUME NEW key \in there PROVE key \in Passed(t, i, j)
    <2>1. key \in DOMAIN map /\ key \in HashKeys BY <1>1
    <2>2. Pair(key, map[key]) \in Held(t) /\ Pair(key, map[key]).key = key BY <2>1 DEF Entries, Pair
    <2>3. \E k, m \in Nat : Lies(t, k, m, key) BY <2>2, LiesOnce
    <2> QED BY <1>4, <2>1, <2>3
<1> QED BY <1>1, <1>5

\* Setting a key meanwhile does no harm.
LEMMA VisitSet ==
    ASSUME NEW t, TableFits(t, Self, HashKeys), NEW map, Held(t) = Entries(map), DOMAIN map \subseteq HashKeys,
           NEW i, NEW j, NEW there, NEW seen, Visiting(t, map, i, j, there, seen),
           NEW key \in HashKeys, NEW value \in HashValues, NEW new, DOMAIN map \subseteq DOMAIN new,
           NEW u, u = Set(t, Self, key, value), TableFits(u, Self, HashKeys),
           Len(u.buckets) = Len(t.buckets)
    PROVE  Visiting(u, new, i, j, there, seen)
<1> DEFINE n == Len(t.buckets)
           fresh == \A p \in Held(t) : Self[p.key] # Self[key]
<1>1. n \in Nat \ {0} /\ \A k \in 1 .. n : t.buckets[k] \in BucketsOf(HashKeys) BY TableBuckets
<1>2. Self[key] \in HashKeys /\ \A k \in HashKeys : Self[k] = k BY DEF Self
<1>3. \A k \in 1 .. n : Grown(t.buckets[k], u.buckets[k], key, fresh) BY <1>2, SetGrows
<1> HIDE DEF fresh
<1>4. \A k \in 1 .. n : Len(t.buckets[k].pairs) \in Nat
    <2> TAKE k \in 1 .. n
    <2> DEFINE b == t.buckets[k]
    <2>1. b \in BucketsOf(HashKeys) BY <1>1
    <2> HIDE DEF b
    <2>2. Len(b.pairs) \in Nat BY <2>1, BucketPairs
    <2> QED BY <2>2 DEF b
<1>5. /\ i \in 0 .. n /\ j \in Nat
      /\ j > 0 => i < n /\ ~ t.buckets[i + 1].user /\ j <= Len(t.buckets[i + 1].pairs)
      /\ there \subseteq DOMAIN map /\ there \cap Passed(t, i, j) \subseteq ToSet(seen)
      /\ seen \in Seq(HashKeys) /\ ToSet(seen) \subseteq Passed(t, i, j) /\ IsInjective(seen)
    BY DEF Visiting
<1>6. fresh => key \notin there
    <2> SUFFICES ASSUME fresh, key \in there PROVE FALSE OBVIOUS
    <2>1. key \in DOMAIN map BY <1>5
    <2>2. Pair(key, map[key]) \in Held(t) /\ Pair(key, map[key]).key = key BY <2>1 DEF Entries, Pair
    <2> QED BY <2>2 DEF fresh
<1>7. ASSUME NEW k, NEW m, NEW y, Lies(t, k, m, y) PROVE Lies(u, k, m, y)
    <2>1. k \in 1 .. n /\ m \in 1 .. Len(t.buckets[k].pairs) /\ t.buckets[k].pairs[m].key = y BY <1>7 DEF Lies
    <2>2. Len(t.buckets[k].pairs) <= Len(u.buckets[k].pairs)
          /\ u.buckets[k].pairs[m].key = t.buckets[k].pairs[m].key
        BY <1>3, <2>1 DEF Grown
    <2>3. m \in 1 .. Len(u.buckets[k].pairs)
        <3> DEFINE w == Len(u.buckets[k].pairs)
                   v == Len(t.buckets[k].pairs)
        <3>1. v <= w /\ m \in 1 .. v BY <2>1, <2>2
        <3>2. v \in Nat BY <1>4, <2>1
        <3>3. w \in Nat
            <4>1. TableFits(u, Self, HashKeys) OBVIOUS
            <4> DEFINE c == u.buckets[k]
            <4>2. c \in BucketsOf(HashKeys) BY <2>1, <4>1, TableBuckets
            <4> HIDE DEF c
            <4>3. Len(c.pairs) \in Nat BY <4>2, BucketPairs
            <4> QED BY <4>3 DEF c
        <3> HIDE DEF v, w
        <3>4. m \in 1 .. w BY <3>1, <3>2, <3>3
        <3> QED BY <3>4 DEF w
    <2> QED BY <2>1, <2>2, <2>3 DEF Lies
<1>8. ASSUME NEW k, NEW m, NEW y \in there, Lies(u, k, m, y) PROVE Lies(t, k, m, y)
    <2>1. k \in 1 .. n /\ m \in 1 .. Len(u.buckets[k].pairs) /\ u.buckets[k].pairs[m].key = y BY <1>8 DEF Lies
    <2>2. ~ (m > Len(t.buckets[k].pairs)) BY <1>3, <1>6, <2>1 DEF Grown
    <2>3. m \in 1 .. Len(t.buckets[k].pairs) BY <1>4, <2>1, <2>2
    <2>4. t.buckets[k].pairs[m].key = y BY <1>3, <2>1, <2>3 DEF Grown
    <2> QED BY <2>1, <2>3, <2>4 DEF Lies
<1>9. Passed(t, i, j) \subseteq Passed(u, i, j) BY <1>7 DEF Passed
<1>10. there \cap Passed(u, i, j) \subseteq Passed(t, i, j) BY <1>8 DEF Passed
<1>11. j > 0 => i < n /\ ~ u.buckets[i + 1].user /\ j <= Len(u.buckets[i + 1].pairs)
    <2> SUFFICES ASSUME j > 0 PROVE i < n /\ ~ u.buckets[i + 1].user /\ j <= Len(u.buckets[i + 1].pairs)
        OBVIOUS
    <2> DEFINE k == i + 1
               b == t.buckets[k]
               c == u.buckets[k]
    <2>1. k \in 1 .. n /\ i < n /\ ~ b.user /\ j <= Len(b.pairs) BY <1>1, <1>5
    <2>2. Grown(b, c, key, fresh) /\ Len(b.pairs) \in Nat BY <1>3, <1>4, <2>1
    <2>5. \A m \in 1 .. Len(b.pairs) : Lies(t, k, m, b.pairs[m].key) BY <2>1 DEF Lies
    <2>6. \A m \in 1 .. Len(b.pairs) : Lies(u, k, m, b.pairs[m].key) BY <1>7, <2>5
    <2> HIDE DEF b, c
    <2>3. b.pairs # <<>> BY <1>5, <2>1, <2>2
    <2>4. ~ c.user BY <2>1, <2>2, <2>3 DEF Grown
    <2>7. j \in 1 .. Len(b.pairs) BY <1>5, <2>1, <2>2
    <2>8. j \in 1 .. Len(c.pairs) BY <2>6, <2>7 DEF Lies, c
    <2>9. j <= Len(c.pairs) BY <2>8
    <2> QED BY <2>1, <2>4, <2>9 DEF c
<1> QED BY <1>5, <1>9, <1>10, <1>11 DEF Visiting

\* An iteration starts before the first bucket.
LEMMA VisitStart ==
    ASSUME NEW t, TableFits(t, Self, HashKeys), NEW map
    PROVE  Visiting(t, map, 0, 0, DOMAIN map, <<>>)
<1>1. Len(t.buckets) \in Nat BY TableBuckets
<1>2. \A k, m, y : Lies(t, k, m, y) => k \in Nat \ {0} /\ m \in Nat \ {0} BY LiesOnce
<1>3. Passed(t, 0, 0) = {}
    <2> SUFFICES ASSUME NEW k \in Nat, NEW m \in Nat, NEW y, Lies(t, k, m, y), k <= 0 \/ (k = 0 + 1 /\ m <= 0)
                 PROVE  FALSE
        BY DEF Passed
    <2>1. k \in Nat \ {0} /\ m \in Nat \ {0} BY <1>2
    <2> QED BY <2>1
<1>4. <<>> \in Seq(HashKeys) /\ ToSet(<<>>) = {} /\ IsInjective(<<>>) BY DEF ToSet, IsInjective
<1>5. 0 \in 0 .. Len(t.buckets) /\ 0 \in Nat /\ ~ (0 > 0) BY <1>1
<1> QED BY <1>3, <1>4, <1>5 DEF Visiting

\* The state of hash_next.
NextRecord(n) ==
    /\ n = [i |-> n.i, j |-> n.j, flags |-> n.flags, seen |-> n.seen, there |-> n.there,
            unset |-> n.unset, ended |-> n.ended]
    /\ n.i \in Nat /\ n.j \in Nat /\ n.unset \in BOOLEAN /\ n.ended \in BOOLEAN
SeenAll(n) == n.ended /\ ~ n.unset => n.there \subseteq ToSet(n.seen) /\ IsInjective(n.seen)

\* hash_next is under way just when the table has the flag for it, which keeps
\* the table from growing, and then it has seen what lies before its place.
NextInv ==
    /\ HashInv
    /\ NextRecord(hashNext) /\ SeenAll(hashNext)
    /\ "next" \in hash.flags <=> ~ (hashNext.i = 0 /\ hashNext.j = 0)
    /\ "next" \notin hashNext.flags
    /\ "next" \in hash.flags => "no_grow" \in hash.flags
    /\ "next" \in hash.flags /\ ~ hashNext.unset =>
           /\ ~ hashNext.ended
           /\ Visiting(hash, contents, hashNext.i, hashNext.j, hashNext.there, hashNext.seen)

\* A program starts without an iteration.
LEMMA NextInitHolds == HashInit => NextInv
<1> SUFFICES ASSUME HashInit PROVE NextInv OBVIOUS
<1>1. hash = NoHash /\ hashNext = NotNext BY DEF HashInit
<1>2. hash.flags = {} BY <1>1 DEF NoHash
<1>3. NextRecord(NotNext) /\ SeenAll(NotNext) /\ NotNext.i = 0 /\ NotNext.j = 0 /\ NotNext.flags = {}
    BY DEF NotNext, NextRecord, SeenAll
<1> QED BY <1>1, <1>2, <1>3, HashInitHolds DEF NextInv
\* Without an iteration, it stays as it is.
LEMMA NextIdle ==
    ASSUME NextInv, HashInv', hashNext' = hashNext, "next" \notin hash.flags, "next" \notin hash'.flags
    PROVE  NextInv'
BY DEF NextInv

\* A key that is set during an iteration.
LEMMA NextSet ==
    ASSUME NextInv, HashInv', NEW key \in HashKeys, NEW value \in HashValues, HashSet(key, value)
    PROVE  NextInv'
<1>1. /\ hash' = HashSet3(hash, Self, key, value) /\ hashNext' = hashNext
      /\ contents' = [k \in DOMAIN contents \cup {key} |-> IF k = key THEN value ELSE contents[k]]
    BY DEF HashSet
<1>2. Whole(hash, Self, HashKeys) /\ Held(hash) = Entries(contents) /\ DOMAIN contents \subseteq HashKeys
    BY DEF NextInv, HashInv
<1>3. Self[key] \in HashKeys BY DEF Self
<1>4. /\ Sound(hash', Self, HashKeys)
      /\ hash # NoHash => hash'.flags = hash.flags
      /\ "no_grow" \in hash.flags => hash' = Set(hash, Self, key, value)
      /\ hash = NoHash => hash'.flags = {}
    BY <1>1, <1>2, <1>3, HashSet3Is
<1>5. CASE "next" \notin hash.flags
    <2>1. "next" \notin hash'.flags BY <1>4, <1>5
    <2> QED BY <1>1, <1>5, <2>1, NextIdle
<1>6. CASE "next" \in hash.flags
    <2>1. hash # NoHash BY <1>6 DEF NoHash
    <2>2. hash'.flags = hash.flags BY <1>4, <2>1
    <2>3. hash' = Set(hash, Self, key, value) BY <1>4, <1>6 DEF NextInv
    <2>4. Sound(hash, Self, HashKeys) BY <1>2, <2>1 DEF Whole
    <2>5. TableFits(hash, Self, HashKeys) /\ TableFits(hash', Self, HashKeys) BY <1>4, <2>4 DEF Sound
    <2>6. Len(hash'.buckets) = Len(hash.buckets) BY <1>3, <2>3, <2>4, SetIs
    <2>7. ASSUME ~ hashNext.unset
          PROVE  /\ ~ hashNext.ended
                 /\ Visiting(hash', contents', hashNext.i, hashNext.j, hashNext.there, hashNext.seen)
        <3> DEFINE i == hashNext.i
                   j == hashNext.j
                   there == hashNext.there
                   seen == hashNext.seen
                   u == hash'
                   new == contents'
        <3>1. Visiting(hash, contents, i, j, there, seen) /\ ~ hashNext.ended BY <1>6, <2>7 DEF NextInv
        <3>2. DOMAIN contents \subseteq DOMAIN new BY <1>1
        <3>3. u = Set(hash, Self, key, value) /\ TableFits(u, Self, HashKeys)
              /\ Len(u.buckets) = Len(hash.buckets)
            BY <2>3, <2>5, <2>6
        <3> HIDE DEF i, j, there, seen, u, new
        <3>4. Visiting(u, new, i, j, there, seen) BY <1>2, <2>5, <3>1, <3>2, <3>3, VisitSet
        <3> QED BY <3>1, <3>4 DEF i, j, there, seen, u, new
    <2> QED BY <1>1, <2>2, <2>7 DEF NextInv
<1> QED BY <1>5, <1>6

\* A key that is unset: nothing is said of what an iteration sees after that.
LEMMA NextUnset ==
    ASSUME NextInv, HashInv', NEW key \in HashKeys, HashUnsetKey(key)
    PROVE  NextInv'
<1>1. /\ hash # NoHash /\ hash' = HashUnset(hash, Self, key)
      /\ hashNext' = [hashNext EXCEPT !.unset = TRUE, !.there = @ \ {key}]
    BY DEF HashUnsetKey
<1>2. Sound(hash, Self, HashKeys) BY <1>1 DEF NextInv, HashInv, Whole
<1>3. Self[key] \in HashKeys BY DEF Self
<1>4. hash'.flags = hash.flags BY <1>1, <1>2, <1>3, HashUnsetIs
<1> DEFINE n == hashNext
           a == [n EXCEPT !.unset = TRUE]
           c == n.there \ {key}
<1>5. /\ NextRecord(n) /\ "next" \notin n.flags
      /\ "next" \in hash.flags <=> ~ (n.i = 0 /\ n.j = 0)
      /\ "next" \in hash.flags => "no_grow" \in hash.flags
    BY DEF NextInv
<1>6. hashNext' = [a EXCEPT !.there = @ \ {key}] BY <1>1
<1> HIDE DEF n
<1>7. NextRecord(a) /\ a.unset /\ a.flags = n.flags /\ a.i = n.i /\ a.j = n.j
    <2> DEFINE w == TRUE
    <2>1. a = [n EXCEPT !.unset = w] /\ w \in BOOLEAN OBVIOUS
    <2> HIDE DEF a, w
    <2>2. a = [i |-> n.i, j |-> n.j, flags |-> n.flags, seen |-> n.seen, there |-> n.there,
               unset |-> w, ended |-> n.ended]
        BY <1>5, <2>1 DEF NextRecord
    <2>3. a.i = n.i /\ a.j = n.j /\ a.flags = n.flags /\ a.seen = n.seen /\ a.there = n.there
          /\ a.unset = w /\ a.ended = n.ended
        BY <2>2
    <2>4. NextRecord(a) BY <1>5, <2>1, <2>2, <2>3 DEF NextRecord
    <2> QED BY <2>3, <2>4 DEF w
<1> HIDE DEF a
<1>8. NextRecord(hashNext') /\ hashNext'.unset /\ hashNext'.flags = n.flags
      /\ hashNext'.i = n.i /\ hashNext'.j = n.j
    BY <1>6, <1>7 DEF NextRecord
<1>9. SeenAll(hashNext') BY <1>8 DEF SeenAll
<1> QED BY <1>4, <1>5, <1>8, <1>9 DEF NextInv

\* hash_next itself.
LEMMA NextIterates == ASSUME NextInv, HashInv', HashIterate PROVE NextInv'
<1> DEFINE start == hashNext.i = 0 /\ hashNext.j = 0
           n == IF start THEN [NotNext EXCEPT !.flags = hash.flags, !.there = DOMAIN contents] ELSE hashNext
           i == NextPlace(hash, n.i + 1, n.j)
           b == hash.buckets[i]
           at == IF i = n.i + 1 THEN n.j ELSE 0
           key == IF b.user THEN b.pairs[1].key ELSE b.pairs[at + 1].key
           i2 == IF b.user THEN i ELSE i - 1
           j2 == IF b.user THEN at ELSE at + 1
           past == i > Len(hash.buckets)
<1>1. /\ hash # NoHash /\ contents' = contents
      /\ past => /\ hashNext' = [n EXCEPT !.i = 0, !.j = 0, !.ended = TRUE]
                 /\ hash' = [hash EXCEPT !.flags = n.flags]
      /\ ~ past => /\ hashNext' = [n EXCEPT !.i = i2, !.j = j2, !.seen = Append(@, key)]
                   /\ hash' = [hash EXCEPT !.flags = @ \cup {"no_grow", "no_shrink", "next"}]
    BY DEF HashIterate, HashNextPair
<1>2. Sound(hash, Self, HashKeys) /\ Held(hash) = Entries(contents) /\ DOMAIN contents \subseteq HashKeys
    BY <1>1 DEF NextInv, HashInv, Whole
<1>3. TableFits(hash, Self, HashKeys) BY <1>2 DEF Sound
<1>4. hash = [buckets |-> hash.buckets, elts |-> hash.elts, flags |-> hash.flags] BY <1>3, TableBuckets
<1>5. /\ NextRecord(n) /\ "next" \notin n.flags
      /\ ~ n.unset => ~ n.ended /\ Visiting(hash, contents, n.i, n.j, n.there, n.seen)
    <2>1. CASE start
        <3> DEFINE a == [NotNext EXCEPT !.flags = hash.flags]
        <3>1. a = [i |-> 0, j |-> 0, flags |-> hash.flags, seen |-> <<>>, there |-> {}, unset |-> FALSE,
                   ended |-> FALSE]
            <4> DEFINE w == FALSE
                       f == hash.flags
            <4>1. NotNext = [i |-> 0, j |-> 0, flags |-> {}, seen |-> <<>>, there |-> {}, unset |-> w, ended |-> w]
                BY DEF NotNext
            <4>2. a = [NotNext EXCEPT !.flags = f] OBVIOUS
            <4> HIDE DEF a, w, f
            <4>3. a = [i |-> 0, j |-> 0, flags |-> f, seen |-> <<>>, there |-> {}, unset |-> w, ended |-> w]
                BY <4>1, <4>2
            <4> QED BY <4>3 DEF w, f
        <3>2. n = [a EXCEPT !.there = DOMAIN contents] BY <2>1
        <3> HIDE DEF a, n
        <3>3. n = [i |-> 0, j |-> 0, flags |-> hash.flags, seen |-> <<>>, there |-> DOMAIN contents,
                   unset |-> FALSE, ended |-> FALSE]
            BY <3>1, <3>2
        <3>4. "next" \notin hash.flags BY <2>1 DEF NextInv
        <3>5. n.i = 0 /\ n.j = 0 /\ n.there = DOMAIN contents /\ n.seen = <<>> /\ ~ n.ended
              /\ n.flags = hash.flags
            BY <3>3
        <3>6. NextRecord(n) BY <3>3 DEF NextRecord
        <3>7. Visiting(hash, contents, 0, 0, DOMAIN contents, <<>>) BY <1>3, VisitStart
        <3> QED BY <3>4, <3>5, <3>6, <3>7
    <2>2. CASE ~ start BY <2>2 DEF NextInv
    <2> QED BY <2>1, <2>2
<1> HIDE DEF n
<1>6. n.i \in Nat /\ n.j \in Nat BY <1>5 DEF NextRecord
<1>7. i \in Nat \ {0}
    <2>1. n.i + 1 \in Nat \ {0} BY <1>6
    <2> QED BY <1>3, <1>6, <2>1, NextPlaceIs
<1>8. at \in Nat BY <1>6
<1>9. i2 \in Nat /\ j2 \in Nat /\ ~ (i2 = 0 /\ j2 = 0)
    <2> HIDE DEF i, at, b
    <2> QED BY <1>7, <1>8
<1>10. CASE past
    <2>1. i \in Nat /\ i = NextPlace(hash, n.i + 1, n.j) /\ i > Len(hash.buckets) BY <1>7, <1>10
    <2> HIDE DEF i
    <2>2. ~ n.unset => n.there \subseteq ToSet(n.seen) /\ IsInjective(n.seen)
        BY <1>2, <1>3, <1>5, <2>1, VisitEnd
    <2> DEFINE a == [n EXCEPT !.i = 0]
               c == [a EXCEPT !.j = 0]
    <2>3. NextRecord(a) /\ a.i = 0 /\ a.flags = n.flags /\ a.unset = n.unset /\ a.there = n.there
          /\ a.seen = n.seen
        BY <1>5 DEF NextRecord
    <2>4. hashNext' = [c EXCEPT !.ended = TRUE] BY <1>1, <1>10
    <2>5. hash' = [hash EXCEPT !.flags = n.flags] BY <1>1, <1>10
    <2> HIDE DEF a
    <2>6. NextRecord(c) /\ c.i = 0 /\ c.j = 0 /\ c.flags = n.flags /\ c.unset = n.unset /\ c.there = n.there
          /\ c.seen = n.seen
        BY <2>3 DEF NextRecord
    <2> HIDE DEF c
    <2>7. NextRecord(hashNext') /\ hashNext'.i = 0 /\ hashNext'.j = 0 /\ hashNext'.flags = n.flags
          /\ hashNext'.unset = n.unset /\ hashNext'.there = n.there /\ hashNext'.seen = n.seen
        BY <2>4, <2>6 DEF NextRecord
    <2>8. hash'.flags = n.flags BY <1>4, <2>5
    <2>9. SeenAll(hashNext') BY <2>2, <2>7 DEF SeenAll
    <2> QED BY <1>5, <2>7, <2>8, <2>9 DEF NextInv
<1>11. CASE ~ past
    <2> DEFINE a == [n EXCEPT !.i = i2]
               c == [a EXCEPT !.j = j2]
               more == Append(n.seen, key)
    <2>1. i \in Nat /\ i = NextPlace(hash, n.i + 1, n.j) /\ i <= Len(hash.buckets)
        <3>1. Len(hash.buckets) \in Nat BY <1>3, TableBuckets
        <3> HIDE DEF i
        <3> QED BY <1>7, <1>11, <3>1 DEF i
    <2>2. at = (IF i = n.i + 1 THEN n.j ELSE 0)
          /\ key = IF hash.buckets[i].user THEN hash.buckets[i].pairs[1].key
                   ELSE hash.buckets[i].pairs[at + 1].key
        OBVIOUS
    <2>3. i2 = (IF hash.buckets[i].user THEN i ELSE i - 1) /\ j2 = (IF hash.buckets[i].user THEN at ELSE at + 1)
        BY Zenon
    <2>4. hashNext' = [c EXCEPT !.seen = more] /\ hash' = [hash EXCEPT !.flags = @ \cup {"no_grow", "no_shrink", "next"}]
        BY <1>1, <1>11, Zenon
    <2> HIDE DEF i, at, b, key, i2, j2, past
    <2>5. ASSUME ~ n.unset PROVE Visiting(hash, contents, i2, j2, n.there, more)
        <3>1. Visiting(hash, contents, n.i, n.j, n.there, n.seen) BY <1>5, <2>5
        <3>2. Visiting(hash, contents, IF hash.buckets[i].user THEN i ELSE i - 1,
                       IF hash.buckets[i].user THEN at ELSE at + 1, n.there, Append(n.seen, key))
            <4>1. FoundNext(hash, n.i, n.j, i, at, key) BY <2>1, <2>2 DEF FoundNext
            <4> QED BY <1>3, <2>1, <3>1, <4>1, VisitNext
        <3> QED BY <2>3, <3>2
    <2> HIDE DEF more
    <2>6. NextRecord(a) /\ a.i = i2 /\ a.flags = n.flags /\ a.unset = n.unset /\ a.there = n.there
          /\ a.ended = n.ended
        BY <1>5, <1>9 DEF NextRecord
    <2> HIDE DEF a
    <2>7. NextRecord(c) /\ c.i = i2 /\ c.j = j2 /\ c.flags = n.flags /\ c.unset = n.unset /\ c.there = n.there
          /\ c.ended = n.ended
        BY <1>9, <2>6 DEF NextRecord
    <2> HIDE DEF c
    <2>8. NextRecord(hashNext') /\ hashNext'.i = i2 /\ hashNext'.j = j2 /\ hashNext'.flags = n.flags
          /\ hashNext'.unset = n.unset /\ hashNext'.there = n.there /\ hashNext'.seen = more
          /\ hashNext'.ended = n.ended
        BY <2>4, <2>7 DEF NextRecord
    <2> DEFINE f == hash.flags \cup {"no_grow", "no_shrink", "next"}
    <2>9. "next" \in f /\ "no_grow" \in f OBVIOUS
    <2>10. hash' = [hash EXCEPT !.flags = f] BY <2>4
    <2> HIDE DEF f
    <2>11. hash'.flags = f /\ hash'.buckets = hash.buckets BY <1>4, <2>10
    <2>12. n.unset \in BOOLEAN /\ n.ended \in BOOLEAN BY <1>5 DEF NextRecord
    <2>13. SeenAll(hashNext') BY <1>5, <2>8, <2>12 DEF SeenAll
    <2>14. ASSUME ~ n.unset PROVE ~ n.ended /\ Visiting(hash', contents', i2, j2, n.there, more)
        <3>1. \A k, m, y : Lies(hash', k, m, y) <=> Lies(hash, k, m, y) BY <2>11 DEF Lies
        <3>2. Passed(hash', i2, j2) = Passed(hash, i2, j2) BY <3>1 DEF Passed
        <3>3. Visiting(hash, contents, i2, j2, n.there, more) BY <2>5, <2>14
        <3>4. Visiting(hash', contents, i2, j2, n.there, more) BY <2>11, <3>2, <3>3 DEF Visiting
        <3> QED BY <1>1, <1>5, <2>14, <3>4
    <2> QED BY <1>5, <1>9, <2>8, <2>9, <2>11, <2>13, <2>14 DEF NextInv
<1> QED BY <1>10, <1>11

\* Every operation keeps it.
LEMMA NextStepKeeps == NextInv /\ [HashNext \/ HashIterate]_hashVars => NextInv'
<1> SUFFICES ASSUME NextInv, [HashNext \/ HashIterate]_hashVars PROVE NextInv' OBVIOUS
<1>1. HashInv' BY HashStepKeeps DEF NextInv
<1>2. ASSUME HashCreate PROVE NextInv'
    <2>1. hash = NoHash /\ hash' = Created(0, {}) /\ hashNext' = hashNext BY <1>2 DEF HashCreate
    <2>2. hash.flags = {} /\ hash'.flags = {} BY <2>1 DEF NoHash, Created
    <2> QED BY <1>1, <2>1, <2>2, NextIdle
<1>3. ASSUME HashFree PROVE NextInv'
    <2>1. hash' = NoHash /\ hashNext' = hashNext /\ "next" \notin hash.flags BY <1>3 DEF HashFree
    <2>2. hash'.flags = {} BY <2>1 DEF NoHash
    <2> QED BY <1>1, <2>1, <2>2, NextIdle
<1>4. ASSUME NEW size \in NewSizes, HashResize(size) PROVE NextInv'
    <2>1. hash # NoHash /\ hash' = Rehashed(hash, Self, size) /\ hashNext' = hashNext
          /\ "next" \notin hash.flags
        BY <1>4 DEF HashResize
    <2>2. "next" \notin hash'.flags
        <3>1. CASE size = 0 BY <2>1, <3>1 DEF Rehashed, NoHash
        <3>2. CASE size # 0
            <4>1. Sound(hash, Self, HashKeys) /\ size \in Nat \ {0}
                BY <2>1, <3>2, HashAssumption DEF NextInv, HashInv, Whole
            <4> QED BY <2>1, <4>1, RehashedIs
        <3> QED BY <3>1, <3>2
    <2> QED BY <1>1, <2>1, <2>2, NextIdle
<1>5. ASSUME UNCHANGED hashVars PROVE NextInv' BY <1>1, <1>5 DEF NextInv, hashVars
<1> QED BY <1>1, <1>2, <1>3, <1>4, <1>5, NextSet, NextUnset, NextIterates DEF HashNext

\* hash_next visits every pair that is there all the time, and none twice, while
\* keys are set and get new values, as long as none is unset.
THEOREM HashNextVisits == HashSpec => []NextVisitsAll
<1>1. HashInit => NextInv BY NextInitHolds
<1>2. NextInv /\ [HashNext \/ HashIterate]_hashVars => NextInv' BY NextStepKeeps
<1>3. NextInv => NextVisitsAll BY DEF NextInv, SeenAll, NextVisitsAll
<1> QED BY <1>1, <1>2, <1>3, PTL DEF HashSpec

-----------------------------------------------------------------------------
(* Tables with keys of their own *)

\* A table only depends on what the keys of its pairs stand for.
LEMMA SameId ==
    ASSUME NEW t, NEW id, NEW K, Sound(t, id, K), NEW new, \A p \in Held(t) : new[p.key] = id[p.key]
    PROVE  Sound(t, new, K)
<1> DEFINE n == Len(t.buckets)
<1>1. TableFits(t, id, K) BY ZenonT(60) DEF Sound
<1>2. ASSUME NEW i \in 1 .. n PROVE BucketFits(t.buckets[i], new, K, i, n)
    <2> DEFINE b == t.buckets[i]
    <2>1. BucketFits(b, id, K, i, n) BY <1>1, TableBuckets
    <2>2. ToSet(b.pairs) \subseteq Held(t) BY <1>1, HeldPairs
    <2>3. b \in BucketsOf(K) BY <2>1 DEF BucketFits
    <2> HIDE DEF b, n
    <2>4. \A j \in 1 .. Len(b.pairs) : b.pairs[j] \in ToSet(b.pairs)
        <3>1. ToSet(b.pairs) = {b.pairs[j] : j \in 1 .. Len(b.pairs)} BY <2>3, BucketPairs
        <3> QED BY <3>1
    <2>5. \A j \in 1 .. Len(b.pairs) : new[b.pairs[j].key] = id[b.pairs[j].key] BY <2>2, <2>4
    <2>6. Distinct(b.pairs, new) BY <2>1, <2>5 DEF BucketFits, Distinct
    <2>7. \A j \in 1 .. Len(b.pairs) :
              new[b.pairs[j].key] \in HashKeys /\ KeySum[new[b.pairs[j].key]] % n = i - 1
        BY <2>1, <2>5 DEF BucketFits
    <2> QED BY <2>1, <2>6, <2>7 DEF BucketFits, b
<1> QED BY <1>1, <1>2 DEF Sound, TableFits

\* The pairs of a table say what was set: for each key one, with its value.
Agree(H, keys, map) ==
    /\ \A p \in H : keys[p.key] \in DOMAIN map /\ p.value = map[keys[p.key]]
    /\ \A k \in DOMAIN map : \E p \in H : keys[p.key] = k

\* A slot belongs to a pair, or it is free, once.
SlotsOf(H) == {p.key : p \in H}
MemoryFits(H, used, free) ==
    /\ used = SlotsOf(H) \cup ToSet(free)
    /\ SlotsOf(H) \cap ToSet(free) = {} /\ IsInjective(free)

MhashRecord(m) ==
    /\ m = [isHeap |-> m.isHeap, keys |-> m.keys, used |-> m.used, free |-> m.free, hash |-> m.hash]
    /\ DOMAIN m.keys = Slots /\ m.free \in Seq(Slots)
MhashInv ==
    ~ freedTwice =>
        /\ MhashRecord(mhash) /\ Sound(mhash.hash, mhash.keys, Slots)
        /\ Agree(Held(mhash.hash), mhash.keys, values) /\ DOMAIN values \subseteq HashKeys
        /\ MemoryFits(Held(mhash.hash), mhash.used, mhash.free)

\* As many pairs as a map has keys.
LEMMA AgreeCounted ==
    ASSUME NEW H, NEW keys, NEW map, Agree(H, keys, map), IsFiniteSet(H),
           \A p, q \in H : keys[p.key] = keys[q.key] => p = q
    PROVE  Cardinality(H) = Cardinality(DOMAIN map)
<1> DEFINE T == DOMAIN map
           f == [p \in H |-> keys[p.key]]
<1>1. (\A p \in H : keys[p.key] \in T) /\ \A k \in T : \E p \in H : keys[p.key] = k BY DEF Agree
<1> HIDE DEF T
<1>2. f \in [H -> T] /\ \A p \in H : f[p] = keys[p.key] BY <1>1
<1> HIDE DEF f
<1>3. IsInjective(f) BY <1>2 DEF IsInjective
<1>4. \A k \in T : \E p \in H : f[p] = k BY <1>1, <1>2
<1>5. f \in Bijection(H, T) BY <1>2, <1>3, <1>4 DEF Bijection, Injection, Surjection
<1>6. ExistsBijection(H, T) BY <1>5 DEF ExistsBijection
<1> QED BY <1>6, FS_Bijection DEF T

\* A key that is there gets a new value, in the slot it has.
LEMMA AgreeChanged ==
    ASSUME NEW H, NEW keys, NEW map, Agree(H, keys, map), NEW key, NEW value,
           NEW p \in H, keys[p.key] = key, \A q \in H : keys[q.key] = key => q = p,
           NEW more, \A q \in H : more[q.key] = keys[q.key],
           NEW G, \A q : q \in G <=> q = Pair(p.key, value) \/ (q \in H /\ q # p)
    PROVE  Agree(G, more,
                 [k \in DOMAIN map \cup {key} |-> IF k = key THEN value ELSE map[k]])
<1> DEFINE r == Pair(p.key, value)
           new == [k \in DOMAIN map \cup {key} |-> IF k = key THEN value ELSE map[k]]
<1>1. r.key = p.key /\ r.value = value BY DEF Pair
<1>2. DOMAIN new = DOMAIN map \cup {key} /\ new[key] = value
      /\ \A k \in DOMAIN map : k # key => new[k] = map[k]
    OBVIOUS
<1>3. r \in G /\ (\A q \in H : q = p \/ q \in G) /\ (\A q \in G : q = r \/ (q \in H /\ q # p)) OBVIOUS
<1> HIDE DEF r, new
<1>4. ASSUME NEW q \in G PROVE more[q.key] \in DOMAIN new /\ q.value = new[more[q.key]]
    <2>1. CASE q = r BY <1>1, <1>2, <2>1
    <2>2. CASE q \in H /\ q # p
        <3>1. keys[q.key] # key /\ more[q.key] = keys[q.key] BY <2>2
        <3>2. keys[q.key] \in DOMAIN map /\ q.value = map[keys[q.key]] BY <2>2 DEF Agree
        <3> QED BY <1>2, <3>1, <3>2
    <2> QED BY <1>3, <2>1, <2>2
<1>5. ASSUME NEW k \in DOMAIN new PROVE \E q \in G : more[q.key] = k
    <2>1. CASE k = key BY <1>1, <1>3, <2>1
    <2>2. CASE k # key
        <3>1. PICK q \in H : keys[q.key] = k BY <1>2, <2>2 DEF Agree
        <3>2. q # p /\ more[q.key] = k BY <2>2, <3>1
        <3> QED BY <1>3, <3>2
    <2> QED BY <2>1, <2>2
<1>6. Agree(G, more, new) BY <1>4, <1>5 DEF Agree
<1> QED BY <1>6 DEF new

\* A new key gets a slot.
LEMMA AgreeAdded ==
    ASSUME NEW H, NEW keys, NEW map, Agree(H, keys, map), NEW key, NEW value,
           \A q \in H : keys[q.key] # key,
           NEW more, \A q \in H : more[q.key] = keys[q.key], NEW slot, more[slot] = key
    PROVE  Agree(H \cup {Pair(slot, value)}, more,
                 [k \in DOMAIN map \cup {key} |-> IF k = key THEN value ELSE map[k]])
<1> DEFINE r == Pair(slot, value)
           G == H \cup {r}
           new == [k \in DOMAIN map \cup {key} |-> IF k = key THEN value ELSE map[k]]
<1>1. r.key = slot /\ r.value = value BY DEF Pair
<1>2. DOMAIN new = DOMAIN map \cup {key} /\ new[key] = value
      /\ \A k \in DOMAIN map : k # key => new[k] = map[k]
    OBVIOUS
<1>3. r \in G /\ (\A q \in H : q \in G) /\ (\A q \in G : q = r \/ q \in H) OBVIOUS
<1> HIDE DEF r, G, new
<1>4. ASSUME NEW q \in G PROVE more[q.key] \in DOMAIN new /\ q.value = new[more[q.key]]
    <2>1. CASE q = r BY <1>1, <1>2, <2>1
    <2>2. CASE q \in H
        <3>1. keys[q.key] # key /\ more[q.key] = keys[q.key] BY <2>2
        <3>2. keys[q.key] \in DOMAIN map /\ q.value = map[keys[q.key]] BY <2>2 DEF Agree
        <3> QED BY <1>2, <3>1, <3>2
    <2> QED BY <1>3, <2>1, <2>2
<1>5. ASSUME NEW k \in DOMAIN new PROVE \E q \in G : more[q.key] = k
    <2>1. CASE k = key BY <1>1, <1>3, <2>1
    <2>2. CASE k # key
        <3>1. PICK q \in H : keys[q.key] = k BY <1>2, <2>2 DEF Agree
        <3>2. more[q.key] = k BY <3>1
        <3> QED BY <1>3, <3>2
    <2> QED BY <2>1, <2>2
<1>6. Agree(G, more, new) BY <1>4, <1>5 DEF Agree
<1> QED BY <1>6 DEF r, G, new

\* A key that is gone.
LEMMA AgreeRemoved ==
    ASSUME NEW H, NEW keys, NEW map, Agree(H, keys, map), NEW key,
           NEW p \in H, keys[p.key] = key, \A q \in H : keys[q.key] = key => q = p
    PROVE  Agree(H \ {p}, keys, Restrict(map, DOMAIN map \ {key}))
<1> DEFINE new == Restrict(map, DOMAIN map \ {key})
<1>1. DOMAIN new = DOMAIN map \ {key} /\ \A k \in DOMAIN new : new[k] = map[k] BY DEF Restrict
<1> HIDE DEF new
<1>2. ASSUME NEW q \in H, q # p PROVE keys[q.key] \in DOMAIN new /\ q.value = new[keys[q.key]]
    <2>1. keys[q.key] # key BY <1>2
    <2>2. keys[q.key] \in DOMAIN map /\ q.value = map[keys[q.key]] BY DEF Agree
    <2> QED BY <1>1, <2>1, <2>2
<1>3. ASSUME NEW k \in DOMAIN new PROVE \E q \in H : q # p /\ keys[q.key] = k
    <2>1. k \in DOMAIN map /\ k # key BY <1>1
    <2>2. PICK q \in H : keys[q.key] = k BY <2>1 DEF Agree
    <2> QED BY <2>1, <2>2
<1>4. Agree(H \ {p}, keys, new) BY <1>2, <1>3 DEF Agree
<1> QED BY <1>4 DEF new

\* The slot last freed is taken.
LEMMA SlotTaken ==
    ASSUME NEW H, NEW used, NEW free \in Seq(Slots), MemoryFits(H, used, free), free # <<>>
    PROVE  /\ Last(free) \in Slots /\ Last(free) \notin SlotsOf(H)
           /\ Front(free) \in Seq(Slots)
           /\ \A G : SlotsOf(G) = SlotsOf(H) \cup {Last(free)} =>
                         MemoryFits(G, used \cup {Last(free)}, Front(free))
<1> DEFINE l == Len(free)
           slot == Last(free)
           rest == Front(free)
           T == SlotsOf(H)
<1>1. /\ l \in Nat /\ DOMAIN free = 1 .. l /\ ToSet(free) = {free[j] : j \in 1 .. l}
      /\ \A j \in 1 .. l : free[j] \in Slots
    BY SeqMembers
<1>2. rest \in Seq(Slots) /\ Len(rest) = l - 1 /\ (\A j \in 1 .. l - 1 : rest[j] = free[j])
      /\ l >= 1 /\ slot = free[l]
    BY FrontIs
<1>3. used = T \cup ToSet(free) /\ T \cap ToSet(free) = {} /\ IsInjective(free) BY DEF MemoryFits
<1> HIDE DEF slot, rest, T
<1>4. DOMAIN rest = 1 .. Len(rest) /\ ToSet(rest) = {rest[j] : j \in 1 .. Len(rest)} BY <1>2, SeqMembers
<1> HIDE DEF l
<1>5. DOMAIN rest = 1 .. l - 1 /\ ToSet(rest) = {rest[j] : j \in 1 .. l - 1} BY <1>2, <1>4
<1>6. l \in 1 .. l /\ (\A j \in 1 .. l - 1 : j \in 1 .. l /\ j # l)
      /\ \A j \in 1 .. l : j = l \/ j \in 1 .. l - 1
    BY <1>1, <1>2
<1>7. \A j, k \in 1 .. l : free[j] = free[k] => j = k BY <1>1, <1>3 DEF IsInjective
<1>8. slot \notin ToSet(rest) BY <1>2, <1>5, <1>6, <1>7
<1>9. \A s : s \in ToSet(free) <=> s = slot \/ s \in ToSet(rest)
    <2>1. \A s \in ToSet(rest) : s \in ToSet(free) BY <1>1, <1>2, <1>5, <1>6
    <2>2. slot \in ToSet(free) BY <1>1, <1>2, <1>6
    <2>3. \A s \in ToSet(free) : s = slot \/ s \in ToSet(rest) BY <1>1, <1>2, <1>5, <1>6
    <2> QED BY <2>1, <2>2, <2>3
<1>10. IsInjective(rest)
    <2> SUFFICES ASSUME NEW j \in 1 .. l - 1, NEW k \in 1 .. l - 1, rest[j] = rest[k] PROVE j = k
        BY <1>5 DEF IsInjective
    <2>1. free[j] = free[k] /\ j \in 1 .. l /\ k \in 1 .. l BY <1>2, <1>6
    <2> QED BY <1>7, <2>1
<1>11. slot \in Slots /\ slot \notin T BY <1>1, <1>2, <1>3, <1>6, <1>9
<1>12. ASSUME NEW G, SlotsOf(G) = T \cup {slot} PROVE MemoryFits(G, used \cup {slot}, rest)
    <2>1. used \cup {slot} = SlotsOf(G) \cup ToSet(rest) BY <1>3, <1>9, <1>12
    <2>2. SlotsOf(G) \cap ToSet(rest) = {} BY <1>3, <1>8, <1>9, <1>12
    <2> QED BY <1>10, <2>1, <2>2 DEF MemoryFits
<1> QED BY <1>2, <1>11, <1>12 DEF slot, rest, T

\* A new slot.
LEMMA SlotNew ==
    ASSUME NEW H, NEW used, MemoryFits(H, used, <<>>), NEW slot, slot \notin used
    PROVE  /\ slot \notin SlotsOf(H)
           /\ \A G : SlotsOf(G) = SlotsOf(H) \cup {slot} => MemoryFits(G, used \cup {slot}, <<>>)
<1>1. ToSet(<<>>) = {} BY DEF ToSet
<1> QED BY <1>1 DEF MemoryFits

\* A slot is free again.
LEMMA SlotFreed ==
    ASSUME NEW H, NEW used, NEW free \in Seq(Slots), MemoryFits(H, used, free),
           NEW slot \in Slots, slot \in SlotsOf(H), NEW G, SlotsOf(G) = SlotsOf(H) \ {slot}
    PROVE  /\ MemoryFits(G, used, Append(free, slot)) /\ Append(free, slot) \in Seq(Slots)
           /\ MemoryFits(G, used \ {slot}, free)
<1> DEFINE l == Len(free)
           more == Append(free, slot)
           T == SlotsOf(H)
<1>1. l \in Nat /\ DOMAIN free = 1 .. l /\ ToSet(free) = {free[j] : j \in 1 .. l} BY SeqMembers
<1>2. more \in Seq(Slots) /\ Len(more) = l + 1 /\ (\A j \in 1 .. l : more[j] = free[j]) /\ more[l + 1] = slot
    BY AppendProperties
<1>3. used = T \cup ToSet(free) /\ T \cap ToSet(free) = {} /\ IsInjective(free) BY DEF MemoryFits
<1>4. slot \in T /\ SlotsOf(G) = T \ {slot} OBVIOUS
<1> HIDE DEF more, T
<1>5. DOMAIN more = 1 .. Len(more) /\ ToSet(more) = {more[j] : j \in 1 .. Len(more)} BY <1>2, SeqMembers
<1> HIDE DEF l
<1>6. DOMAIN more = 1 .. l + 1 /\ ToSet(more) = {more[j] : j \in 1 .. l + 1} BY <1>2, <1>5
<1>7. l + 1 \in 1 .. l + 1 /\ (\A j \in 1 .. l : j \in 1 .. l + 1)
      /\ \A j \in 1 .. l + 1 : j = l + 1 \/ j \in 1 .. l
    BY <1>1
<1>8. \A s : s \in ToSet(more) <=> s = slot \/ s \in ToSet(free)
    <2>1. \A s \in ToSet(free) : s \in ToSet(more) BY <1>1, <1>2, <1>6, <1>7
    <2>2. slot \in ToSet(more) BY <1>2, <1>6, <1>7
    <2>3. \A s \in ToSet(more) : s = slot \/ s \in ToSet(free) BY <1>1, <1>2, <1>6, <1>7
    <2> QED BY <2>1, <2>2, <2>3
<1>9. slot \notin ToSet(free) BY <1>3, <1>4
<1>10. IsInjective(more)
    <2> SUFFICES ASSUME NEW j \in 1 .. l + 1, NEW k \in 1 .. l + 1, more[j] = more[k] PROVE j = k
        BY <1>6 DEF IsInjective
    <2>1. \A i \in 1 .. l : free[i] # slot BY <1>1, <1>9
    <2>2. CASE j \in 1 .. l /\ k \in 1 .. l
        <3>1. free[j] = free[k] BY <1>2, <2>2
        <3> QED BY <1>1, <1>3, <2>2, <3>1 DEF IsInjective
    <2>3. CASE j = l + 1 /\ k \in 1 .. l BY <1>2, <2>1, <2>3
    <2>4. CASE j \in 1 .. l /\ k = l + 1 BY <1>2, <2>1, <2>4
    <2> QED BY <1>7, <2>2, <2>3, <2>4
<1>11. MemoryFits(G, used, more)
    <2>1. used = SlotsOf(G) \cup ToSet(more) BY <1>3, <1>4, <1>8
    <2>2. SlotsOf(G) \cap ToSet(more) = {} BY <1>3, <1>4, <1>8
    <2> QED BY <1>10, <2>1, <2>2 DEF MemoryFits
<1>12. MemoryFits(G, used \ {slot}, free)
    <2>1. used \ {slot} = SlotsOf(G) \cup ToSet(free) BY <1>3, <1>4, <1>9
    <2>2. SlotsOf(G) \cap ToSet(free) = {} BY <1>3, <1>4
    <2> QED BY <1>3, <2>1, <2>2 DEF MemoryFits
<1> QED BY <1>2, <1>11, <1>12 DEF more

\* What mhash_init makes.
LEMMA NewMhashFits ==
    ASSUME NEW heap
    PROVE  /\ MhashRecord(NewMhash(heap)) /\ Sound(NewMhash(heap).hash, NewMhash(heap).keys, Slots)
           /\ Agree(Held(NewMhash(heap).hash), NewMhash(heap).keys, <<>>)
           /\ MemoryFits(Held(NewMhash(heap).hash), NewMhash(heap).used, NewMhash(heap).free)
<1> DEFINE m == NewMhash(heap)
<1>1. m = [isHeap |-> heap, keys |-> [s \in Slots |-> -2], used |-> {}, free |-> <<>>, hash |-> Created(0, {})]
    BY DEF NewMhash
<1> HIDE DEF m
<1>2. MhashRecord(m)
    <2>1. <<>> \in Seq(Slots) BY EmptySeq
    <2> QED BY <1>1, <2>1 DEF MhashRecord
<1>3. Sound(m.hash, m.keys, Slots) /\ Held(m.hash) = {}
    <2>1. 0 \in Nat /\ {} \in SUBSET Flags OBVIOUS
    <2> QED BY <1>1, <2>1, CreatedIs
<1>4. Agree(Held(m.hash), m.keys, <<>>)
    <2>1. DOMAIN <<>> = {} OBVIOUS
    <2> QED BY <1>3, <2>1 DEF Agree
<1>5. MemoryFits(Held(m.hash), m.used, m.free)
    <2>1. ToSet(<<>>) = {} /\ IsInjective(<<>>) BY DEF ToSet, IsInjective
    <2>2. SlotsOf({}) = {} BY DEF SlotsOf
    <2> QED BY <1>1, <1>3, <2>1, <2>2 DEF MemoryFits
<1> QED BY <1>2, <1>3, <1>4, <1>5 DEF m
\* What mhash_key_to_mem reads.
LEMMA MemoryIs ==
    ASSUME NEW m, NEW key
    PROVE  Memory(m, key)[Tmp] = key /\ Tmp \notin Slots /\ \A s \in Slots : Memory(m, key)[s] = m.keys[s]
<1>1. \A s \in Slots : s # -1 BY MhashAssumption DEF Slots
<1>2. Tmp \notin Slots BY <1>1 DEF Tmp
<1> QED BY <1>2 DEF Memory

\* The pair of a key, if it has one.
LEMMA MhashPairIs ==
    ASSUME NEW m, Sound(m.hash, m.keys, Slots), NEW key \in HashKeys
    PROVE  /\ Sound(m.hash, Memory(m, key), Slots)
           /\ \A p \in Held(m.hash) : p.key \in Slots /\ m.keys[p.key] \in HashKeys
           /\ \A p, q \in Held(m.hash) : m.keys[p.key] = m.keys[q.key] => p = q
           /\ \A p \in Held(m.hash) : m.keys[p.key] = key => MhashGetPair(m, key) = p
           /\ (\A p \in Held(m.hash) : m.keys[p.key] # key) => MhashGetPair(m, key) = NoPair
<1> DEFINE id == Memory(m, key)
           t == m.hash
<1>1. id[Tmp] = key /\ \A s \in Slots : id[s] = m.keys[s] BY MemoryIs
<1>2. TableFits(t, m.keys, Slots) BY DEF Sound
<1>3. /\ \A p \in Held(t) : p.key \in Slots /\ m.keys[p.key] \in HashKeys
      /\ \A p, q \in Held(t) : m.keys[p.key] = m.keys[q.key] => p = q
    BY <1>2, HeldPairs
<1>4. Sound(t, m.keys, Slots) OBVIOUS
<1>5. MhashGetPair(m, key) = GetPair(t, id, Tmp) BY DEF MhashGetPair
<1> HIDE DEF id, t
<1>6. Sound(t, id, Slots) BY <1>1, <1>3, <1>4, SameId
<1>7. TableFits(t, id, Slots) /\ id[Tmp] \in HashKeys BY <1>1, <1>6 DEF Sound
<1>8. /\ \A p \in Held(t) : id[p.key] = id[Tmp] => GetPair(t, id, Tmp) = p
      /\ (\A p \in Held(t) : id[p.key] # id[Tmp]) => GetPair(t, id, Tmp) = NoPair
    BY <1>7, GetPairIs
<1>9. \A p \in Held(t) : id[p.key] = m.keys[p.key] BY <1>1, <1>3
<1>10. /\ \A p \in Held(t) : m.keys[p.key] = key => MhashGetPair(m, key) = p
       /\ (\A p \in Held(t) : m.keys[p.key] # key) => MhashGetPair(m, key) = NoPair
    BY <1>1, <1>5, <1>8, <1>9
<1> QED BY <1>3, <1>6, <1>10 DEF id, t

\* mhash_set_mem
LEMMA MhashSets ==
    ASSUME MhashInv, ~ freedTwice, NEW key \in HashKeys, NEW value \in HashValues, MhashSet(key, value)
    PROVE  MhashInv'
<1> DEFINE m == mhash
           H == Held(m.hash)
           slot == SlotFor(m)
           keys == [m.keys EXCEPT ![slot] = key]
           used == m.used \cup {slot}
           free == IF m.free = <<>> THEN m.free ELSE Front(m.free)
           stored == Stored(m, slot, key)
           id == Memory(stored, key)
           new == HashSet3(m.hash, id, slot, value)
           same == new.elts = m.hash.elts
           map == [k \in DOMAIN values \cup {key} |-> IF k = key THEN value ELSE values[k]]
<1>1. /\ m.free # <<>> \/ Slots \ m.used # {}
      /\ same => mhash' = [m EXCEPT !.hash = new, !.keys = stored.keys, !.free = FreeAfterDuplicate(m, slot)]
      /\ ~ same => mhash' = [stored EXCEPT !.hash = new]
      /\ freedTwice' = (freedTwice \/ (same /\ m.free # <<>>))
      /\ values' = map
    BY DEF MhashSet
<1>2. /\ MhashRecord(m) /\ Sound(m.hash, m.keys, Slots) /\ Agree(H, m.keys, values)
      /\ DOMAIN values \subseteq HashKeys /\ MemoryFits(H, m.used, m.free)
    BY DEF MhashInv
<1>3. /\ m = [isHeap |-> m.isHeap, keys |-> m.keys, used |-> m.used, free |-> m.free, hash |-> m.hash]
      /\ DOMAIN m.keys = Slots /\ m.free \in Seq(Slots)
    BY <1>2 DEF MhashRecord
<1>4. /\ \A p \in H : p.key \in Slots /\ m.keys[p.key] \in HashKeys
      /\ \A p, q \in H : m.keys[p.key] = m.keys[q.key] => p = q
    BY <1>2, MhashPairIs
<1>5. /\ slot \in Slots /\ slot \notin SlotsOf(H) /\ free \in Seq(Slots)
      /\ \A G : SlotsOf(G) = SlotsOf(H) \cup {slot} => MemoryFits(G, used, free)
    <2>1. CASE m.free # <<>>
        <3>1. slot = Last(m.free) /\ free = Front(m.free) BY <2>1 DEF SlotFor
        <3> HIDE DEF slot, free, H, m
        <3>2. /\ Last(m.free) \in Slots /\ Last(m.free) \notin SlotsOf(H) /\ Front(m.free) \in Seq(Slots)
              /\ \A G : SlotsOf(G) = SlotsOf(H) \cup {Last(m.free)} =>
                            MemoryFits(G, m.used \cup {Last(m.free)}, Front(m.free))
            BY <1>2, <1>3, <2>1, SlotTaken
        <3> QED BY <3>1, <3>2
    <2>2. CASE m.free = <<>>
        <3> DEFINE left == Slots \ m.used
        <3>1. slot = First(left) /\ free = <<>> BY <2>2 DEF SlotFor
        <3>2. left # {} BY <1>1, <2>2
        <3>3. left \subseteq Nat BY MhashAssumption DEF Slots
        <3> HIDE DEF left
        <3>4. First(left) \in left BY <3>2, <3>3, FirstIs
        <3>5. slot \in Slots /\ slot \notin m.used BY <3>1, <3>4 DEF left
        <3>6. free \in Seq(Slots) BY <1>3, <2>2
        <3> HIDE DEF slot, free, H, m
        <3>7. MemoryFits(H, m.used, <<>>) BY <1>2, <2>2
        <3>8. /\ slot \notin SlotsOf(H)
              /\ \A G : SlotsOf(G) = SlotsOf(H) \cup {slot} => MemoryFits(G, m.used \cup {slot}, <<>>)
            BY <3>5, <3>7, SlotNew
        <3> QED BY <3>1, <3>5, <3>6, <3>8
    <2> QED BY <2>1, <2>2
<1> HIDE DEF slot, H
<1>6. stored = [isHeap |-> m.isHeap, keys |-> keys, used |-> used, free |-> free, hash |-> m.hash]
    <2>1. stored = [[[m EXCEPT !.keys = keys] EXCEPT !.used = used] EXCEPT !.free = free]
        BY <1>3 DEF Stored
    <2> DEFINE a == [m EXCEPT !.keys = keys]
               b == [a EXCEPT !.used = used]
    <2> HIDE DEF keys, used, free, stored
    <2>2. a = [isHeap |-> m.isHeap, keys |-> keys, used |-> m.used, free |-> m.free, hash |-> m.hash]
        BY <1>3
    <2> HIDE DEF a
    <2>3. b = [isHeap |-> m.isHeap, keys |-> keys, used |-> used, free |-> m.free, hash |-> m.hash]
        BY <2>2
    <2>4. stored = [b EXCEPT !.free = free] BY <2>1 DEF a
    <2> HIDE DEF b
    <2> QED BY <2>3, <2>4
<1>7. DOMAIN keys = Slots /\ keys[slot] = key /\ \A s \in Slots : s # slot => keys[s] = m.keys[s]
    BY <1>3, <1>5
<1> HIDE DEF keys, used, free, stored
<1>8. stored.keys = keys /\ stored.hash = m.hash BY <1>6
<1>9. \A s \in Slots : id[s] = keys[s] BY <1>8, MemoryIs
<1>10. id[slot] = key BY <1>5, <1>7, <1>9
<1>11. \A p \in H : p.key # slot BY <1>5 DEF SlotsOf
<1>12. \A p \in H : id[p.key] = m.keys[p.key] /\ keys[p.key] = m.keys[p.key]
    BY <1>4, <1>7, <1>9, <1>11
<1>13. Sound(m.hash, id, Slots)
    <2> HIDE DEF id
    <2>1. \A p \in Held(m.hash) : id[p.key] = m.keys[p.key] BY <1>12 DEF H
    <2> DEFINE t == m.hash
               old == m.keys
    <2>2. Sound(t, old, Slots) /\ \A p \in Held(t) : id[p.key] = old[p.key] BY <1>2, <2>1
    <2> HIDE DEF t, old
    <2>3. Sound(t, id, Slots) BY <2>2, SameId
    <2> QED BY <2>3 DEF t
<1>14. Sound(new, id, Slots) /\ IsSet(m.hash, new, id, slot, value)
    <2> DEFINE t == m.hash
    <2>1. Whole(t, id, Slots) /\ id[slot] \in HashKeys BY <1>10, <1>13 DEF Whole
    <2> HIDE DEF id, t
    <2> QED BY <1>5, <2>1, HashSet3Is DEF t
<1> DEFINE G == Held(new)
<1>15. \/ \E p \in H : id[p.key] = id[slot] /\ same /\ G = (H \ {p}) \cup {Pair(p.key, value)}
       \/ (\A p \in H : id[p.key] # id[slot]) /\ new.elts = m.hash.elts + 1 /\ G = H \cup {Pair(slot, value)}
    BY <1>14 DEF IsSet, H
<1>16. m.hash.elts \in Nat
    <2> DEFINE t == m.hash
    <2>1. TableFits(t, id, Slots) BY <1>13 DEF Sound
    <2> HIDE DEF t, id
    <2> QED BY <2>1, TableBuckets DEF t
<1>17. Sound(new, keys, Slots)
    <2> HIDE DEF id, new
    <2>1. TableFits(new, id, Slots) BY <1>14 DEF Sound
    <2>2. \A p \in Held(new) : p.key \in Slots BY <2>1, HeldPairs
    <2>3. \A p \in Held(new) : keys[p.key] = id[p.key] BY <1>9, <2>2
    <2> QED BY <1>14, <2>3, SameId
<1>18. DOMAIN map \subseteq HashKeys BY <1>2
<1>19. CASE \E p \in H : id[p.key] = id[slot] /\ same /\ G = (H \ {p}) \cup {Pair(p.key, value)}
    <2>1. PICK p \in H : id[p.key] = id[slot] /\ same /\ G = (H \ {p}) \cup {Pair(p.key, value)} BY <1>19
    <2>2. m.keys[p.key] = key BY <1>10, <1>12, <2>1
    <2>3. \A q \in H : m.keys[q.key] = key => q = p BY <1>4, <2>1, <2>2
    <2> HIDE DEF id, new, G
    <2>4. Agree(G, keys, map)
        <3> DEFINE old == m.keys
        <3>1. /\ Agree(H, old, values) /\ p \in H /\ old[p.key] = key
              /\ (\A q \in H : old[q.key] = key => q = p) /\ \A q \in H : keys[q.key] = old[q.key]
            BY <1>2, <1>12, <2>1, <2>2, <2>3
        <3> HIDE DEF old
        <3>2. G = (H \ {p}) \cup {Pair(p.key, value)} BY <2>1
        <3>3. \A q : q \in G <=> q = Pair(p.key, value) \/ (q \in H /\ q # p)
            <4> DEFINE r == Pair(p.key, value)
            <4>1. r.key = p.key /\ r.value = value /\ G = (H \ {p}) \cup {r} BY <3>2 DEF Pair
            <4> HIDE DEF r
            <4> QED BY <4>1 DEF r
        <3> QED BY <3>1, <3>3, AgreeChanged
    <2> SUFFICES ASSUME ~ freedTwice' PROVE MhashInv' BY DEF MhashInv
    <2>5. m.free = <<>> BY <1>1, <2>1
    <2>6. FreeAfterDuplicate(m, slot) = <<>> BY <2>5 DEF FreeAfterDuplicate
    <2> DEFINE a == [m EXCEPT !.hash = new]
               b == [a EXCEPT !.keys = keys]
    <2>7. a = [isHeap |-> m.isHeap, keys |-> m.keys, used |-> m.used, free |-> m.free, hash |-> new] BY <1>3
    <2>8. mhash' = [b EXCEPT !.free = <<>>] BY <1>1, <1>8, <2>1, <2>6
    <2> HIDE DEF a
    <2>9. b = [isHeap |-> m.isHeap, keys |-> keys, used |-> m.used, free |-> m.free, hash |-> new] BY <2>7
    <2> HIDE DEF b
    <2>10. mhash' = [isHeap |-> m.isHeap, keys |-> keys, used |-> m.used, free |-> m.free, hash |-> new]
        BY <2>5, <2>8, <2>9
    <2>11. SlotsOf(G) = SlotsOf(H)
        <3> DEFINE r == Pair(p.key, value)
        <3>1. r.key = p.key /\ G = (H \ {p}) \cup {r} /\ p \in H BY <2>1 DEF Pair
        <3> HIDE DEF r
        <3>2. \A s : (\E q \in G : s = q.key) <=> (\E q \in H : s = q.key) BY <3>1
        <3> QED BY <3>2 DEF SlotsOf
    <2>12. MemoryFits(G, m.used, m.free) BY <1>2, <2>11 DEF MemoryFits
    <2>13. MhashRecord(mhash') BY <1>3, <1>7, <2>10 DEF MhashRecord
    <2>14. mhash'.keys = keys /\ mhash'.hash = new /\ mhash'.used = m.used /\ mhash'.free = m.free BY <2>10
    <2>15. Held(mhash'.hash) = G BY <2>14 DEF G
    <2> QED BY <1>1, <1>17, <1>18, <2>4, <2>12, <2>13, <2>14, <2>15 DEF MhashInv
<1>20. CASE (\A p \in H : id[p.key] # id[slot]) /\ new.elts = m.hash.elts + 1 /\ G = H \cup {Pair(slot, value)}
    <2>1. \A q \in H : m.keys[q.key] # key BY <1>10, <1>12, <1>20
    <2>2. ~ same
        <3> DEFINE e == m.hash.elts
                   x == new.elts
        <3>1. e \in Nat /\ x = e + 1 BY <1>16, <1>20
        <3> HIDE DEF e, x
        <3>2. x # e BY <3>1
        <3> QED BY <3>2 DEF e, x
    <2>3. mhash' = [stored EXCEPT !.hash = new] BY <1>1, <2>2
    <2> HIDE DEF id, same
    <2>4. G = H \cup {Pair(slot, value)} BY <1>20
    <2> HIDE DEF new, G
    <2>5. Agree(G, keys, map) BY <1>2, <1>7, <1>12, <2>1, <2>4, AgreeAdded, SMTT(30)
    <2>6. mhash' = [isHeap |-> m.isHeap, keys |-> keys, used |-> used, free |-> free, hash |-> new]
        BY <1>6, <2>3
    <2>7. SlotsOf(G) = SlotsOf(H) \cup {slot}
        <3> DEFINE r == Pair(slot, value)
        <3>1. r.key = slot /\ G = H \cup {r} BY <2>4 DEF Pair
        <3> HIDE DEF r
        <3>2. \A s : (\E q \in G : s = q.key) <=> ((\E q \in H : s = q.key) \/ s = slot) BY <3>1
        <3> QED BY <3>2 DEF SlotsOf
    <2>8. MemoryFits(G, used, free) BY <1>5, <2>7
    <2>9. MhashRecord(mhash') BY <1>5, <1>7, <2>6 DEF MhashRecord
    <2>10. mhash'.keys = keys /\ mhash'.hash = new /\ mhash'.used = used /\ mhash'.free = free BY <2>6
    <2>11. Held(mhash'.hash) = G BY <2>10 DEF G
    <2> QED BY <1>1, <1>17, <1>18, <2>5, <2>8, <2>9, <2>10, <2>11 DEF MhashInv
<1> QED BY <1>15, <1>19, <1>20

\* mhash_unset
LEMMA MhashUnsets ==
    ASSUME MhashInv, ~ freedTwice, NEW key \in HashKeys, MhashUnset(key)
    PROVE  MhashInv'
<1> DEFINE m == mhash
           H == Held(m.hash)
           pair == MhashGetPair(m, key)
           id == Memory(m, key)
           new == HashUnset(m.hash, id, pair.key)
           G == Held(new)
           free == IF m.isHeap THEN m.free ELSE Append(m.free, pair.key)
           used == IF m.isHeap THEN m.used \ {pair.key} ELSE m.used
           map == Restrict(values, DOMAIN values \ {key})
<1>1. /\ pair # NoPair /\ values' = map /\ freedTwice' = freedTwice
      /\ mhash' = [m EXCEPT !.hash = HashUnset(@, id, pair.key),
                            !.free = IF m.isHeap THEN @ ELSE Append(@, pair.key),
                            !.used = IF m.isHeap THEN @ \ {pair.key} ELSE @]
    BY DEF MhashUnset
<1>2. /\ MhashRecord(m) /\ Sound(m.hash, m.keys, Slots) /\ Agree(H, m.keys, values)
      /\ DOMAIN values \subseteq HashKeys /\ MemoryFits(H, m.used, m.free)
    BY DEF MhashInv
<1>3. /\ m = [isHeap |-> m.isHeap, keys |-> m.keys, used |-> m.used, free |-> m.free, hash |-> m.hash]
      /\ DOMAIN m.keys = Slots /\ m.free \in Seq(Slots)
    BY <1>2 DEF MhashRecord
<1>4. /\ Sound(m.hash, id, Slots)
      /\ \A p \in H : p.key \in Slots /\ m.keys[p.key] \in HashKeys
      /\ \A p, q \in H : m.keys[p.key] = m.keys[q.key] => p = q
      /\ \A p \in H : m.keys[p.key] = key => pair = p
      /\ (\A p \in H : m.keys[p.key] # key) => pair = NoPair
    BY <1>2, MhashPairIs
<1>5. pair \in H /\ m.keys[pair.key] = key
    <2> HIDE DEF pair, H
    <2>1. PICK p \in H : m.keys[p.key] = key BY <1>1, <1>4
    <2> QED BY <1>4, <2>1
<1>6. mhash' = [isHeap |-> m.isHeap, keys |-> m.keys, used |-> used, free |-> free, hash |-> new]
    <2> DEFINE a == [m EXCEPT !.hash = new]
               b == [a EXCEPT !.free = free]
    <2>1. mhash' = [b EXCEPT !.used = used]
        <3> DEFINE c == pair.key
                   x == m.isHeap
        <3>1. mhash' = [m EXCEPT !.hash = HashUnset(@, id, c),
                                 !.free = IF x THEN @ ELSE Append(@, c),
                                 !.used = IF x THEN @ \ {c} ELSE @]
            BY <1>1
        <3>2. new = HashUnset(m.hash, id, c) /\ free = (IF x THEN m.free ELSE Append(m.free, c))
              /\ used = (IF x THEN m.used \ {c} ELSE m.used)
            OBVIOUS
        <3> HIDE DEF pair, c, x, new, free, used, id
        <3>3. a = [m EXCEPT !.hash = HashUnset(@, id, c)] BY <3>2
        <3>4. a.free = m.free /\ a.used = m.used BY <1>3
        <3>5. b.used = m.used /\ b = [a EXCEPT !.free = IF x THEN @ ELSE Append(@, c)] BY <3>2, <3>4
        <3>6. [b EXCEPT !.used = used] = [b EXCEPT !.used = IF x THEN @ \ {c} ELSE @] BY <3>2, <3>5
        <3> QED BY <3>1, <3>3, <3>5, <3>6
    <2> HIDE DEF new, free, used
    <2>2. a = [isHeap |-> m.isHeap, keys |-> m.keys, used |-> m.used, free |-> m.free, hash |-> new] BY <1>3
    <2> HIDE DEF a
    <2>3. b = [isHeap |-> m.isHeap, keys |-> m.keys, used |-> m.used, free |-> free, hash |-> new] BY <2>2
    <2> HIDE DEF b
    <2> QED BY <2>1, <2>3
<1>7. \A p \in H : id[p.key] = m.keys[p.key] BY <1>4, MemoryIs
<1> HIDE DEF pair
<1>8. Sound(new, id, Slots)
      /\ \/ \E p \in H : id[p.key] = id[pair.key] /\ G = H \ {p}
         \/ (\A p \in H : id[p.key] # id[pair.key]) /\ G = H
    <2> DEFINE t == m.hash
               slot == pair.key
    <2>1. Sound(t, id, Slots) /\ id[slot] \in HashKeys BY <1>4, <1>5, <1>7
    <2> HIDE DEF id, t, slot
    <2>2. /\ Sound(HashUnset(t, id, slot), id, Slots)
          /\ \/ \E p \in Held(t) :
                    /\ id[p.key] = id[slot] /\ HashUnset(t, id, slot).elts = t.elts - 1
                    /\ Held(HashUnset(t, id, slot)) = Held(t) \ {p}
             \/ /\ \A p \in Held(t) : id[p.key] # id[slot]
                /\ HashUnset(t, id, slot).elts = t.elts /\ Held(HashUnset(t, id, slot)) = Held(t)
        BY <2>1, HashUnsetIs
    <2>3. new = HashUnset(t, id, slot) BY DEF t, slot
    <2>4. \/ \E p \in Held(t) : id[p.key] = id[slot] /\ G = Held(t) \ {p}
          \/ (\A p \in Held(t) : id[p.key] # id[slot]) /\ G = Held(t)
        BY <2>2, <2>3
    <2> QED BY <2>2, <2>3, <2>4 DEF t, slot
<1> HIDE DEF new, G, H, id
<1>9. G = H \ {pair}
    <2>1. PICK p \in H : id[p.key] = id[pair.key] /\ G = H \ {p} BY <1>5, <1>8
    <2>2. p = pair BY <1>4, <1>5, <1>7, <2>1
    <2> QED BY <2>1, <2>2
<1>10. Sound(new, m.keys, Slots)
    <2> DEFINE old == m.keys
    <2>1. \A p \in Held(new) : old[p.key] = id[p.key] BY <1>7, <1>9 DEF G
    <2> HIDE DEF old
    <2>2. Sound(new, old, Slots) BY <1>8, <2>1, SameId
    <2> QED BY <2>2 DEF old
<1>11. \A q \in H : m.keys[q.key] = key => q = pair BY <1>4, <1>5
<1>12. Agree(G, m.keys, map)
    <2> DEFINE old == m.keys
    <2>1. Agree(H, old, values) /\ old[pair.key] = key /\ \A q \in H : old[q.key] = key => q = pair
        BY <1>2, <1>5, <1>11
    <2> HIDE DEF old, map
    <2>2. Agree(H \ {pair}, old, Restrict(values, DOMAIN values \ {key})) BY <1>5, <2>1, AgreeRemoved
    <2> QED BY <1>9, <2>2 DEF map, old
<1>13. SlotsOf(G) = SlotsOf(H) \ {pair.key} /\ pair.key \in SlotsOf(H)
    <2>1. \A q \in H : q.key = pair.key => q = pair BY <1>5, <1>11
    <2>2. \A s : (\E q \in G : s = q.key) <=> ((\E q \in H : s = q.key) /\ s # pair.key) BY <1>9, <2>1
    <2> QED BY <1>5, <2>2 DEF SlotsOf
<1>14. /\ MemoryFits(G, m.used, Append(m.free, pair.key)) /\ Append(m.free, pair.key) \in Seq(Slots)
       /\ MemoryFits(G, m.used \ {pair.key}, m.free)
    <2> DEFINE slot == pair.key
    <2>1. slot \in Slots BY <1>4, <1>5
    <2>2. SlotsOf(G) = SlotsOf(H) \ {slot} /\ slot \in SlotsOf(H) BY <1>13
    <2> HIDE DEF slot
    <2>3. /\ MemoryFits(G, m.used, Append(m.free, slot)) /\ Append(m.free, slot) \in Seq(Slots)
          /\ MemoryFits(G, m.used \ {slot}, m.free)
        BY <1>2, <1>3, <2>1, <2>2, SlotFreed
    <2> QED BY <2>3 DEF slot
<1>15. MemoryFits(G, used, free) /\ free \in Seq(Slots)
    <2>1. CASE m.isHeap BY <1>3, <1>14, <2>1
    <2>2. CASE ~ m.isHeap BY <1>14, <2>2
    <2> QED BY <2>1, <2>2
<1> HIDE DEF used, free
<1>16. MhashRecord(mhash') BY <1>3, <1>6, <1>15 DEF MhashRecord
<1>17. mhash'.keys = m.keys /\ mhash'.hash = new /\ mhash'.used = used /\ mhash'.free = free BY <1>6
<1>18. Held(mhash'.hash) = G BY <1>17 DEF G
<1>19. DOMAIN map \subseteq HashKeys BY <1>2 DEF Restrict
<1> QED BY <1>1, <1>10, <1>12, <1>15, <1>16, <1>17, <1>18, <1>19 DEF MhashInv

\* A new table has no keys.
LEMMA MhashNew == ASSUME NEW heap, mhash = NewMhash(heap), values = <<>> PROVE MhashInv
<1>1. DOMAIN values \subseteq HashKeys OBVIOUS
<1> QED BY <1>1, NewMhashFits DEF MhashInv
\* Every operation keeps it.
LEMMA MhashStepKeeps == MhashInv /\ [MhashNext]_mhashVars => MhashInv'
<1> SUFFICES ASSUME MhashInv, [MhashNext]_mhashVars PROVE MhashInv' OBVIOUS
<1>1. ASSUME NEW heap, MhashReset(heap) PROVE MhashInv'
    <2>1. mhash' = NewMhash(heap) /\ values' = <<>> BY <1>1 DEF MhashReset
    <2>2. DOMAIN values' \subseteq HashKeys BY <2>1
    <2> QED BY <2>1, <2>2, NewMhashFits DEF MhashInv
<1>2. ASSUME UNCHANGED mhashVars PROVE MhashInv' BY <1>2 DEF MhashInv, mhashVars
<1> QED BY <1>1, <1>2, MhashSets, MhashUnsets DEF MhashNext

\* What it says of the table.
LEMMA MhashInvIsMap == MhashInv => MhashIsMap
<1> SUFFICES ASSUME MhashInv, ~ freedTwice PROVE MhashIsMap BY DEF MhashIsMap
<1> DEFINE m == mhash
           t == m.hash
           H == Held(t)
<1>1. /\ Sound(t, m.keys, Slots) /\ Agree(H, m.keys, values)
      /\ DOMAIN values \subseteq HashKeys /\ MemoryFits(H, m.used, m.free)
    BY DEF MhashInv
<1>2. ToSet(Pairs(t)) = H
    <2> DEFINE old == m.keys
               s == Pairs(t)
    <2>1. Sound(t, old, Slots) BY <1>1
    <2> HIDE DEF t, old
    <2>2. PairsWith(Pairs(t), Held(t), old, Slots) BY <2>1, PairsIs
    <2> QED BY <2>2 DEF PairsWith, t
<1>3. t.elts = Cardinality(H) /\ IsFiniteSet(H) BY <1>1 DEF Sound
<1>4. ASSUME NEW k \in HashKeys
      PROVE  /\ k \in DOMAIN values => MhashGetPair(m, k).value = values[k] /\ m.keys[MhashGetPair(m, k).key] = k
             /\ k \notin DOMAIN values => MhashGetPair(m, k) = NoPair
    <2> DEFINE pair == MhashGetPair(m, k)
    <2>1. /\ \A p \in H : m.keys[p.key] = k => pair = p
          /\ (\A p \in H : m.keys[p.key] # k) => pair = NoPair
        BY <1>1, MhashPairIs
    <2> HIDE DEF pair, H
    <2>2. ASSUME k \in DOMAIN values PROVE pair.value = values[k] /\ m.keys[pair.key] = k
        <3>1. PICK p \in H : m.keys[p.key] = k BY <1>1, <2>2 DEF Agree
        <3>2. p.value = values[k] /\ pair = p BY <1>1, <2>1, <3>1 DEF Agree
        <3> QED BY <3>1, <3>2
    <2>3. ASSUME k \notin DOMAIN values PROVE pair = NoPair BY <1>1, <2>1, <2>3 DEF Agree
    <2> QED BY <2>2, <2>3 DEF pair
<1>5. \A p, q \in H : m.keys[p.key] = m.keys[q.key] => p = q
    <2> DEFINE old == m.keys
    <2>1. TableFits(t, old, Slots) BY <1>1 DEF Sound
    <2> HIDE DEF old, t
    <2>2. \A p, q \in Held(t) : old[p.key] = old[q.key] => p = q BY <2>1, HeldPairs
    <2> QED BY <2>2 DEF old
<1>6. t.elts = Cardinality(DOMAIN values)
    <2> DEFINE old == m.keys
    <2>1. Agree(H, old, values) /\ \A p, q \in H : old[p.key] = old[q.key] => p = q BY <1>1, <1>5
    <2> HIDE DEF old, H
    <2>2. Cardinality(H) = Cardinality(DOMAIN values) BY <1>3, <2>1, AgreeCounted
    <2> QED BY <1>3, <2>2
<1>7. LET inTable == {pair.key : pair \in ToSet(Pairs(t))}
      IN  m.used = inTable \cup ToSet(m.free) /\ inTable \cap ToSet(m.free) = {} /\ IsInjective(m.free)
    BY <1>1, <1>2 DEF MemoryFits, SlotsOf
<1> QED BY <1>4, <1>6, <1>7 DEF MhashIsMap

\* The tables with keys of their own are maps too, and every slot of the memory
\* for keys belongs to one of them or is free once, until a slot is freed twice.
THEOREM MhashIsAMap == MhashSpec => []MhashIsMap
<1>1. MhashInit => MhashInv BY MhashNew DEF MhashInit
<1>2. MhashInv /\ [MhashNext]_mhashVars => MhashInv' BY MhashStepKeeps
<1>3. MhashInv => MhashIsMap BY MhashInvIsMap
<1> QED BY <1>1, <1>2, <1>3, PTL DEF MhashSpec

-----------------------------------------------------------------------------
(* The event log *)

Events == [id : Nat, type : Nat, track : Nat, data : Nat]

LoggerStates ==
    [pc : {"idle", "register", "copy", "add", "write", "data", "limit"}, vec : {"types", "tracks"},
     type : Types, track : Tracks, index : [types : Nat, tracks : Nat], place : Places, id : Nat,
     limit : Nat, n : Nat]

ElogTypeOK ==
    /\ elog \in [total : 0 .. CounterWords - 1, limit : Nat, ring : [Places -> Events],
                 vec : [types : Seq(Types), tracks : Seq(Tracks \cup {"default"})],
                 holder : Loggers \cup {Free}]
    /\ index \in [Types \cup Tracks -> Nat]
    /\ logger \in [Loggers -> LoggerStates]
    /\ given \in [n : Nat, last : [Places -> Nat]]
    /\ overtaken \subseteq Places
    /\ trigger \in [id : Nat, n : Nat, before : Int]

\* How many places were given out since place p was, as long as that many were
\* given out since the counter was 0.
Since(p) ==
    LET next == elog.total % RingSize
    IN  IF p < next THEN next - 1 - p ELSE next - 1 - p + RingSize

\* The places behind the counter have the numbers behind the last one given.
Counted ==
    /\ elog.total <= given.n
    /\ \A p \in Places : Since(p) < elog.total => given.last[p] = given.n - Since(p)

\* The thread whose event a place has is about to write a part of it, has
\* written that part, or another thread has written there late.
Writing(p, pcs) ==
    \E t \in Loggers : logger[t].pc \in pcs /\ logger[t].place = p /\ logger[t].id = given.last[p]

RingWritten ==
    \A p \in Places \ overtaken :
        /\ given.last[p] = 0 \/ Writing(p, {"write"}) \/ elog.ring[p].id = given.last[p]
        /\ given.last[p] = 0 \/ Writing(p, {"write", "data"}) \/ elog.ring[p].data = given.last[p]

\* The one thread that has given out an index and has not filled it.
Registering ==
    /\ \A t \in Loggers : logger[t].pc = "copy" => elog.holder = t
    /\ elog.holder # Free =>
           LET l == logger[elog.holder]
           IN  l.pc = "copy" /\ index[Static(l)] = Len(elog.vec[l.vec]) + 1

\* Every index other than that one names what it was given to.
Names(vec, s) ==
    \/ index[s] = 0
    \/ index[s] \in 1 .. Len(elog.vec[vec]) /\ elog.vec[vec][index[s]] = s
    \/ elog.holder # Free /\ Static(logger[elog.holder]) = s

Named == (\A s \in Types : Names("types", s)) /\ (\A s \in Tracks : Names("tracks", s))

ElogInv == ElogTypeOK /\ Counted /\ RingWritten /\ Registering /\ Named

--------------------------------------------------------------------------------
(* The counter and the ring *)

LEMMA Sizes ==
    /\ RingSize \in Nat \ {0} /\ RingSize > 0 /\ CounterWords \in Nat \ {0} /\ CounterWords > 0
    /\ MaxLogged \in Nat /\ Never \in 0 .. CounterWords - 1
BY ElogAssumption DEF Never

\* The next place, and how far behind it the others are.
LEMMA PlaceType ==
    ASSUME NEW n \in Nat
    PROVE  n % RingSize \in Places /\ (n < RingSize => n % RingSize = n)
<1>1. n % RingSize \in 0 .. RingSize - 1
  BY Sizes, DivMod
<1>2. n < RingSize => n % RingSize = n
  BY Sizes, LessThanTwice
<1>3. QED
  BY <1>1, <1>2 DEF Places

LEMMA SinceType ==
    ASSUME elog.total \in Nat, NEW p \in Places
    PROVE  Since(p) \in 0 .. RingSize - 1
<1>1. elog.total % RingSize \in 0 .. RingSize - 1
  BY PlaceType DEF Places
<1>2. QED
  BY <1>1, Sizes DEF Since, Places

LEMMA SinceTypeNext ==
    ASSUME elog'.total \in Nat, NEW p \in Places
    PROVE  Since(p)' \in 0 .. RingSize - 1
<1>1. elog'.total % RingSize \in 0 .. RingSize - 1
  BY PlaceType DEF Places
<1>2. QED
  BY <1>1, Sizes DEF Since, Places

LEMMA SinceAdvances ==
    ASSUME elog.total \in Nat, elog'.total = elog.total + 1, NEW p \in Places
    PROVE  Since(p)' = IF p = elog.total % RingSize THEN 0 ELSE Since(p) + 1
<1> DEFINE c == elog.total % RingSize
<1>1. c \in 0 .. RingSize - 1
  BY PlaceType DEF Places
<1>2. elog'.total % RingSize = IF c = RingSize - 1 THEN 0 ELSE c + 1
  <2> DEFINE n == elog.total
  <2>1. n \in Int /\ RingSize \in Nat \ {0}
    BY Sizes
  <2> HIDE DEF n
  <2>2. (n + 1) % RingSize = IF n % RingSize = RingSize - 1 THEN 0 ELSE (n % RingSize) + 1
    BY <2>1, NextModulo
  <2>3. QED
    BY <2>2 DEF n
<1>3. Since(p) = IF p < c THEN c - 1 - p ELSE c - 1 - p + RingSize
  BY DEF Since
<1>4. Since(p)' = IF p < elog'.total % RingSize THEN (elog'.total % RingSize) - 1 - p
                  ELSE (elog'.total % RingSize) - 1 - p + RingSize
  BY DEF Since
<1> HIDE DEF c
<1>5. QED
  BY <1>1, <1>2, <1>3, <1>4, Sizes DEF Places, c

--------------------------------------------------------------------------------
(* Steps *)

LEMMA IdleType == Idle \in LoggerStates
<1>1. (CHOOSE x \in Types : TRUE) \in Types /\ (CHOOSE x \in Tracks : TRUE) \in Tracks
  BY ElogAssumption
<1>2. 0 \in Places
  BY Sizes DEF Places
<1>3. QED
  BY <1>1, <1>2 DEF Idle, LoggerStates

LEMMA ElogInitially == ElogInit => ElogInv
<1> SUFFICES ASSUME ElogInit PROVE ElogInv
  OBVIOUS
<1> USE DEF ElogInit
<1>1. ElogTypeOK
  <2>1. NoEvent \in Events /\ NoTrigger \in [id : Nat, n : Nat, before : Int]
    BY DEF NoEvent, NoTrigger, Events
  <2>2. <<>> \in Seq(Types) /\ <<"default">> \in Seq(Tracks \cup {"default"})
    OBVIOUS
  <2>3. QED
    BY <2>1, <2>2, IdleType, Sizes DEF ElogTypeOK
<1>2. Counted
  BY SinceType, Sizes DEF Counted
<1>3. RingWritten
  BY DEF RingWritten
<1>4. Registering
  BY DEF Registering, Idle
<1>5. Named
  BY DEF Named, Names
<1>6. QED
  BY <1>1, <1>2, <1>3, <1>4, <1>5 DEF ElogInv

\* A step that gives out no place and writes to none.
LEMMA WrittenKept ==
    ASSUME ElogInv, given' = given, overtaken' = overtaken, elog'.ring = elog.ring,
           \A t \in Loggers : logger[t].pc \in {"write", "data"} => logger'[t] = logger[t]
    PROVE  RingWritten'
<1>1. ASSUME NEW p \in Places, NEW pcs \in SUBSET {"write", "data"}, Writing(p, pcs)
      PROVE  Writing(p, pcs)'
  BY <1>1 DEF Writing
<1>2. QED
  BY <1>1 DEF ElogInv, RingWritten

\* A step that counts nothing.
LEMMA CountedKept ==
    ASSUME ElogInv, given' = given, elog'.total = elog.total
    PROVE  Counted'
BY DEF ElogInv, Counted, Since

\* A step that registers nothing.
LEMMA NamedKept ==
    ASSUME ElogInv, index' = index, elog'.vec = elog.vec, elog'.holder = elog.holder,
           \A t \in Loggers : /\ logger[t].pc = "copy" => logger'[t] = logger[t]
                              /\ logger'[t].pc = "copy" => logger[t].pc = "copy"
    PROVE  Registering' /\ Named'
<1>1. elog.holder # Free => elog.holder \in Loggers /\ logger'[elog.holder] = logger[elog.holder]
  BY DEF ElogInv, ElogTypeOK, Registering
<1>2. Registering'
  BY <1>1 DEF ElogInv, Registering, Static
<1>3. Named'
  BY <1>1 DEF ElogInv, Named, Names, Static
<1>4. QED
  BY <1>2, <1>3

\* What Continued makes of a thread that has read two indices.
LEMMA ContinuedType ==
    ASSUME NEW l \in LoggerStates, NEW read \in [types : Nat, tracks : Nat]
    PROVE  Continued(l, read) \in LoggerStates /\ Continued(l, read).pc \in {"register", "add"}
BY IdleType DEF Continued, LoggerStates

LEMMA CheckKeeps ==
    ASSUME ElogInv, NEW t \in Loggers, Check(t)
    PROVE  ElogInv' /\ logger'[t].pc # "limit"
<1>1. PICK type \in Types, track \in Tracks :
        /\ logger[t].pc = "idle"
        /\ logger' = [logger EXCEPT ![t] =
               Continued([@ EXCEPT !.type = type, !.track = track],
                         [types |-> index[type], tracks |-> index[track]])]
  BY DEF Check, At
<1>2. UNCHANGED <<elog, index, given, overtaken, trigger>>
  BY DEF Check
<1> DEFINE l == [logger[t] EXCEPT !.type = type, !.track = track]
           read == [types |-> index[type], tracks |-> index[track]]
<1>3. logger[t] \in LoggerStates /\ logger \in [Loggers -> LoggerStates]
  BY DEF ElogInv, ElogTypeOK
<1>4. l \in LoggerStates
  BY <1>3 DEF LoggerStates
<1>5. read \in [types : Nat, tracks : Nat]
  BY DEF ElogInv, ElogTypeOK
<1>6. logger' = [logger EXCEPT ![t] = Continued(l, read)]
  BY <1>1
<1> HIDE DEF l, read
<1>7. Continued(l, read) \in LoggerStates /\ Continued(l, read).pc \in {"register", "add"}
  BY <1>4, <1>5, ContinuedType
<1>8. ElogTypeOK'
  BY <1>2, <1>3, <1>6, <1>7 DEF ElogInv, ElogTypeOK
<1>9. Counted' /\ RingWritten' /\ Registering' /\ Named'
  BY <1>1, <1>2, <1>3, <1>6, <1>7, CountedKept, WrittenKept, NamedKept
<1>10. logger'[t].pc # "limit"
  BY <1>3, <1>6, <1>7
<1>11. QED
  BY <1>8, <1>9, <1>10 DEF ElogInv

LEMMA RegisterKeeps ==
    ASSUME ElogInv, NEW t \in Loggers, Register(t)
    PROVE  ElogInv'
<1> DEFINE l == logger[t]
           s == Static(l)
<1>1. /\ l.pc = "register" /\ elog.holder = Free
      /\ index' = [index EXCEPT ![s] = Len(elog.vec[l.vec]) + 1]
      /\ elog' = [elog EXCEPT !.holder = t]
      /\ logger' = [logger EXCEPT ![t].pc = "copy"]
      /\ UNCHANGED <<given, overtaken, trigger>>
  BY DEF Register, At, LockFree, Goto
<1>2. l \in LoggerStates /\ logger \in [Loggers -> LoggerStates] /\ t # Free
  BY ElogAssumption DEF ElogInv, ElogTypeOK
<1>3. /\ l.vec \in {"types", "tracks"} /\ l.type \in Types /\ l.track \in Tracks
      /\ s \in Types \cup Tracks
  BY <1>2 DEF LoggerStates, Static
<1>4. Len(elog.vec[l.vec]) \in Nat
  BY <1>3 DEF ElogInv, ElogTypeOK
<1>5. logger' = [logger EXCEPT ![t] = [l EXCEPT !.pc = "copy"]] /\ [l EXCEPT !.pc = "copy"] \in LoggerStates
  BY <1>1, <1>2 DEF LoggerStates
<1>6. Static(logger'[t]) = s /\ logger'[t].vec = l.vec /\ logger'[t].pc = "copy"
  BY <1>2, <1>5 DEF LoggerStates, Static
<1>7. /\ elog'.holder = t /\ elog'.vec = elog.vec /\ elog'.total = elog.total
      /\ elog'.ring = elog.ring /\ elog'.limit = elog.limit
  BY <1>1 DEF ElogInv, ElogTypeOK
<1> HIDE DEF l, s
<1>8. ElogTypeOK'
  <2>1. /\ elog' \in [total : 0 .. CounterWords - 1, limit : Nat, ring : [Places -> Events],
                      vec : [types : Seq(Types), tracks : Seq(Tracks \cup {"default"})],
                      holder : Loggers \cup {Free}]
    BY <1>1 DEF ElogInv, ElogTypeOK
  <2>2. index' \in [Types \cup Tracks -> Nat]
    BY <1>1, <1>3, <1>4 DEF ElogInv, ElogTypeOK
  <2>3. logger' \in [Loggers -> LoggerStates]
    BY <1>2, <1>5
  <2>4. QED
    BY <1>1, <2>1, <2>2, <2>3 DEF ElogInv, ElogTypeOK
<1>9. Counted' /\ RingWritten'
  BY <1>1, <1>2, <1>5, <1>7, CountedKept, WrittenKept DEF l
<1>10. Registering'
  <2>1. \A u \in Loggers : logger[u].pc # "copy"
    BY <1>1, ElogAssumption DEF ElogInv, Registering
  <2>2. \A u \in Loggers : logger'[u].pc = "copy" => u = t
    BY <1>2, <1>5, <2>1
  <2>3. index'[s] = Len(elog.vec[l.vec]) + 1
    BY <1>1, <1>3 DEF ElogInv, ElogTypeOK
  <2>4. QED
    BY <1>6, <1>7, <2>2, <2>3 DEF Registering
<1>11. Named'
  <2>1. ASSUME NEW vec \in {"types", "tracks"}, NEW x \in Types \cup Tracks, Names(vec, x)
        PROVE  Names(vec, x)'
    <3>1. CASE x = s
      BY <1>2, <1>6, <1>7, <3>1 DEF Names
    <3>2. CASE x # s
      <4>1. index'[x] = index[x]
        BY <1>1, <3>2 DEF ElogInv, ElogTypeOK
      <4>2. QED
        BY <1>1, <1>7, <2>1, <4>1 DEF Names
    <3>3. QED
      BY <3>1, <3>2
  <2>2. QED
    BY <2>1 DEF ElogInv, Named
<1>12. QED
  BY <1>8, <1>9, <1>10, <1>11 DEF ElogInv

LEMMA RegisteredKeeps ==
    ASSUME ElogInv, NEW t \in Loggers, Registered(t)
    PROVE  ElogInv' /\ logger'[t].pc # "limit"
<1> DEFINE l == logger[t]
           s == Static(l)
           new == Append(elog.vec[l.vec], s)
           next == Continued(l, [l.index EXCEPT ![l.vec] = Len(new)])
<1>1. /\ l.pc = "copy"
      /\ elog' = [elog EXCEPT !.vec[l.vec] = new, !.holder = Free]
      /\ logger' = [logger EXCEPT ![t] = next]
      /\ UNCHANGED <<index, given, overtaken, trigger>>
  BY DEF Registered, At
<1>2. /\ l \in LoggerStates /\ logger \in [Loggers -> LoggerStates]
      /\ elog.holder = t /\ t # Free
      /\ index[s] = Len(elog.vec[l.vec]) + 1
  BY <1>1, ElogAssumption DEF ElogInv, ElogTypeOK, Registering
<1>3. /\ l.vec \in {"types", "tracks"} /\ l.type \in Types /\ l.track \in Tracks
      /\ l.index \in [types : Nat, tracks : Nat]
      /\ s = IF l.vec = "types" THEN l.type ELSE l.track
  BY <1>2 DEF LoggerStates, Static
<1> DEFINE Members == IF l.vec = "types" THEN Types ELSE Tracks \cup {"default"}
           old == elog.vec[l.vec]
<1>4. old \in Seq(Members) /\ s \in Members
  BY <1>3 DEF ElogInv, ElogTypeOK
<1>5. /\ new \in Seq(Members) /\ Len(new) = Len(elog.vec[l.vec]) + 1
      /\ new[Len(new)] = s
      /\ \A i \in 1 .. Len(elog.vec[l.vec]) : new[i] = elog.vec[l.vec][i]
      /\ Len(elog.vec[l.vec]) \in Nat
  <2>1. new = Append(old, s)
    OBVIOUS
  <2> HIDE DEF old, s, Members, new
  <2>2. /\ new \in Seq(Members) /\ Len(new) = Len(old) + 1 /\ new[Len(old) + 1] = s
        /\ \A i \in 1 .. Len(old) : new[i] = old[i]
        /\ Len(old) \in Nat
    BY <1>4, <2>1, AppendProperties
  <2>3. QED
    BY <2>2 DEF old
<1>6. [l.index EXCEPT ![l.vec] = Len(new)] \in [types : Nat, tracks : Nat]
  <2>1. Len(new) \in Nat
    BY <1>5
  <2> HIDE DEF new, l
  <2>2. QED
    BY <1>3, <2>1
<1>7. next \in LoggerStates /\ next.pc \in {"register", "add"}
  BY <1>2, <1>6, ContinuedType
<1>8. /\ elog' \in [total : 0 .. CounterWords - 1, limit : Nat, ring : [Places -> Events],
                    vec : [types : Seq(Types), tracks : Seq(Tracks \cup {"default"})],
                    holder : Loggers \cup {Free}]
      /\ elog'.total = elog.total /\ elog'.ring = elog.ring /\ elog'.holder = Free
      /\ elog'.vec[l.vec] = new
      /\ \A vec \in {"types", "tracks"} \ {l.vec} : elog'.vec[vec] = elog.vec[vec]
  <2>1. new \in Seq(Members)
    BY <1>5
  <2> HIDE DEF new, l
  <2>2. CASE l.vec = "types"
    BY <1>1, <2>1, <2>2 DEF ElogInv, ElogTypeOK
  <2>3. CASE l.vec = "tracks"
    BY <1>1, <2>1, <2>3 DEF ElogInv, ElogTypeOK
  <2>4. QED
    BY <1>3, <2>2, <2>3
<1> HIDE DEF l, s, new, next, Members, old
<1>9. ElogTypeOK'
  BY <1>1, <1>2, <1>7, <1>8 DEF ElogInv, ElogTypeOK
<1>10. Counted' /\ RingWritten'
  BY <1>1, <1>2, <1>8, CountedKept, WrittenKept DEF l
<1>11. Registering'
  <2>1. \A u \in Loggers : logger[u].pc = "copy" => u = t
    BY <1>2 DEF ElogInv, Registering
  <2>2. \A u \in Loggers : logger'[u].pc # "copy"
    BY <1>1, <1>2, <1>7, <2>1
  <2>3. QED
    BY <1>8, <2>2 DEF Registering
<1>12. Named'
  <2>1. ASSUME NEW vec \in {"types", "tracks"}, NEW x \in IF vec = "types" THEN Types ELSE Tracks,
               Names(vec, x)
        PROVE  Names(vec, x)'
    <3>1. CASE x = s
      <4>1. vec = l.vec
        BY <1>3, <3>1, ElogAssumption
      <4>2. index'[x] = Len(new) /\ elog'.vec[vec] = new
        BY <1>1, <1>2, <1>5, <1>8, <3>1, <4>1
      <4>3. QED
        BY <1>5, <3>1, <4>2 DEF Names
    <3>2. CASE x # s
      <4>1. index[x] = 0 \/ (index[x] \in 1 .. Len(elog.vec[vec]) /\ elog.vec[vec][index[x]] = x)
        BY <1>2, <2>1, <3>2 DEF Names, s, l
      <4>2. CASE vec = l.vec
        BY <1>1, <1>5, <1>8, <4>1, <4>2 DEF Names
      <4>3. CASE vec # l.vec
        BY <1>1, <1>8, <4>1, <4>3 DEF Names
      <4>4. QED
        BY <4>2, <4>3
    <3>3. QED
      BY <3>1, <3>2
  <2>2. QED
    BY <2>1 DEF ElogInv, Named
<1>13. logger'[t].pc # "limit"
  BY <1>1, <1>2, <1>7
<1>14. QED
  BY <1>9, <1>10, <1>11, <1>12, <1>13 DEF ElogInv

LEMMA AddKeeps ==
    ASSUME ElogInv, NEW t \in Loggers, AddEvent(t)
    PROVE  ElogInv'
<1> DEFINE place == elog.total % RingSize
           n == given.n + 1
           added == [logger[t] EXCEPT !.pc = "write", !.place = place, !.id = n]
<1>1. /\ logger[t].pc = "add"
      /\ elog' = [elog EXCEPT !.total = (elog.total + 1) % CounterWords]
      /\ given' = [n |-> n, last |-> [given.last EXCEPT ![place] = n]]
      /\ logger' = [logger EXCEPT ![t] = added]
      /\ UNCHANGED <<index, overtaken, trigger>>
  BY DEF AddEvent, At
<1>2. /\ elog.total \in 0 .. CounterWords - 1 /\ given.n \in Nat
      /\ given.last \in [Places -> Nat]
      /\ logger \in [Loggers -> LoggerStates] /\ logger[t] \in LoggerStates
  BY DEF ElogInv, ElogTypeOK
<1>3. place \in Places
  BY <1>2, Sizes, PlaceType
<1>4. (elog.total + 1) % CounterWords = IF elog.total + 1 = CounterWords THEN 0 ELSE elog.total + 1
  BY <1>2, Sizes, LessThanTwice
<1>5. /\ elog'.total = IF elog.total + 1 = CounterWords THEN 0 ELSE elog.total + 1
      /\ elog'.ring = elog.ring /\ elog'.vec = elog.vec /\ elog'.holder = elog.holder
      /\ elog'.limit = elog.limit
  BY <1>1, <1>4 DEF ElogInv, ElogTypeOK
<1>6. added \in LoggerStates
  <2>1. n \in Nat
    BY <1>2
  <2> HIDE DEF n
  <2>2. QED
    BY <1>2, <1>3, <2>1 DEF LoggerStates
<1>7. /\ given'.n = n /\ n \in Nat /\ n > 0
      /\ \A p \in Places : given'.last[p] = IF p = place THEN n ELSE given.last[p]
      /\ given' \in [n : Nat, last : [Places -> Nat]]
  BY <1>1, <1>2, <1>3
<1>8. added.pc = "write" /\ added.place = place /\ added.id = n
  BY <1>2 DEF LoggerStates
<1> HIDE DEF added, n
<1>9. ElogTypeOK'
  <2>1. elog' \in [total : 0 .. CounterWords - 1, limit : Nat, ring : [Places -> Events],
                   vec : [types : Seq(Types), tracks : Seq(Tracks \cup {"default"})],
                   holder : Loggers \cup {Free}]
    <3>1. (elog.total + 1) % CounterWords \in 0 .. CounterWords - 1
      BY <1>2, <1>4, Sizes
    <3>2. QED
      BY <1>1, <3>1 DEF ElogInv, ElogTypeOK
  <2>2. logger' \in [Loggers -> LoggerStates]
    BY <1>1, <1>2, <1>6
  <2>3. UNCHANGED <<index, overtaken, trigger>>
    BY <1>1
  <2>4. QED
    BY <1>7, <2>1, <2>2, <2>3 DEF ElogInv, ElogTypeOK
<1>10. Counted'
  <2>1. elog'.total <= given'.n
    BY <1>2, <1>5, <1>7 DEF ElogInv, Counted, n
  <2>2. ASSUME NEW p \in Places, Since(p)' < elog'.total
        PROVE  given'.last[p] = given'.n - Since(p)'
    <3>1. Since(p) \in 0 .. RingSize - 1 /\ Since(p)' \in 0 .. RingSize - 1
      BY <1>2, <1>5, SinceType, SinceTypeNext, Sizes
    <3>2. elog'.total = elog.total + 1
      BY <1>2, <1>5, <2>2, <3>1
    <3>3. Since(p)' = IF p = place THEN 0 ELSE Since(p) + 1
      BY <1>2, <3>2, SinceAdvances
    <3>4. CASE p = place
      BY <1>7, <3>3, <3>4
    <3>5. CASE p # place
      <4>1. given.last[p] = given.n - Since(p)
        BY <1>2, <2>2, <3>1, <3>2, <3>3, <3>5 DEF ElogInv, Counted
      <4>2. QED
        BY <1>2, <1>7, <3>1, <3>3, <3>5, <4>1 DEF n
    <3>6. QED
      BY <3>4, <3>5
  <2>3. QED
    BY <2>1, <2>2 DEF Counted
<1>11. RingWritten'
  <2>1. ASSUME NEW p \in Places, NEW pcs \in SUBSET {"write", "data"}, Writing(p, pcs), p # place
        PROVE  Writing(p, pcs)'
    <3>1. PICK u \in Loggers : logger[u].pc \in pcs /\ logger[u].place = p /\ logger[u].id = given.last[p]
      BY <2>1 DEF Writing
    <3>2. u # t
      BY <1>1, <3>1
    <3>3. QED
      BY <1>1, <1>2, <1>7, <2>1, <3>1, <3>2 DEF Writing
  <2>2. ASSUME NEW p \in Places, p = place, NEW pcs \in SUBSET {"write", "data"}, "write" \in pcs
        PROVE  Writing(p, pcs)'
    <3>1. logger'[t] = added
      BY <1>1, <1>2
    <3>2. given'.last[p] = n
      BY <1>7, <2>2
    <3>3. QED
      BY <1>8, <2>2, <3>1, <3>2 DEF Writing
  <2>3. ASSUME NEW p \in Places \ overtaken
        PROVE  /\ given'.last[p] = 0 \/ Writing(p, {"write"})' \/ elog'.ring[p].id = given'.last[p]
               /\ given'.last[p] = 0 \/ Writing(p, {"write", "data"})' \/ elog'.ring[p].data = given'.last[p]
    <3>1. CASE p = place
      <4>1. Writing(p, {"write"})' /\ Writing(p, {"write", "data"})'
        BY <2>2, <3>1
      <4>2. QED
        BY <4>1
    <3>2. CASE p # place
      BY <1>5, <1>7, <2>1, <3>2 DEF ElogInv, RingWritten
    <3>3. QED
      BY <3>1, <3>2
  <2>4. QED
    BY <1>1, <2>3 DEF RingWritten
<1>12. Registering' /\ Named'
  <2>1. logger'[t].pc = "write" /\ \A u \in Loggers \ {t} : logger'[u] = logger[u]
    BY <1>1, <1>2, <1>8
  <2>2. QED
    BY <1>1, <1>5, <2>1, NamedKept
<1>13. QED
  BY <1>9, <1>10, <1>11, <1>12 DEF ElogInv

\* A thread writes into place p a part of its event.
LEMMA WritingKept ==
    ASSUME ElogInv, given' = given, NEW t \in Loggers, NEW l \in LoggerStates,
           logger' = [logger EXCEPT ![t] = l], NEW p \in Places, NEW pcs,
           Writing(p, pcs), logger[t].place # p \/ logger[t].id # given.last[p]
    PROVE  Writing(p, pcs)'
<1>1. PICK u \in Loggers : logger[u].pc \in pcs /\ logger[u].place = p /\ logger[u].id = given.last[p]
  BY DEF Writing
<1>2. u # t
  BY <1>1
<1>3. logger'[u] = logger[u]
  BY <1>2 DEF ElogInv, ElogTypeOK
<1>4. QED
  BY <1>1, <1>3 DEF Writing

LEMMA WriteKeeps ==
    ASSUME ElogInv, NEW t \in Loggers, Write(t)
    PROVE  ElogInv'
<1> DEFINE l == logger[t]
           place == l.place
           written == [l EXCEPT !.pc = "data", !.index = Idle.index]
           event == [elog.ring[place] EXCEPT !.id = l.id, !.type = l.index.types,
                                             !.track = l.index.tracks]
<1>1. /\ l.pc = "write" /\ overtaken' = Overtaken(t)
      /\ logger' = [logger EXCEPT ![t] = written]
      /\ elog' = [elog EXCEPT !.ring[place] = event]
      /\ UNCHANGED <<index, given, trigger>>
  BY DEF Write, At
<1>2. /\ logger \in [Loggers -> LoggerStates] /\ l \in LoggerStates /\ place \in Places
      /\ l.id \in Nat /\ l.index \in [types : Nat, tracks : Nat]
      /\ elog.ring \in [Places -> Events]
  BY DEF ElogInv, ElogTypeOK, LoggerStates
<1>3. event \in Events /\ event.id = l.id /\ event.data = elog.ring[place].data
  BY <1>2 DEF Events
<1>4. Idle.index \in [types : Nat, tracks : Nat]
  BY DEF Idle
<1>5. written \in LoggerStates /\ written.pc = "data" /\ written.place = place /\ written.id = l.id
  BY <1>2, <1>4 DEF LoggerStates
<1>6. /\ elog'.total = elog.total /\ elog'.vec = elog.vec /\ elog'.holder = elog.holder
      /\ \A p \in Places : elog'.ring[p] = IF p = place THEN event ELSE elog.ring[p]
  BY <1>1, <1>2 DEF ElogInv, ElogTypeOK
<1>7. overtaken' = IF given.last[place] # l.id THEN overtaken \cup {place} ELSE overtaken \ {place}
  BY <1>1 DEF Overtaken
<1> HIDE DEF l, place, written, event
<1>8. ElogTypeOK'
  <2>1. elog' \in [total : 0 .. CounterWords - 1, limit : Nat, ring : [Places -> Events],
                   vec : [types : Seq(Types), tracks : Seq(Tracks \cup {"default"})],
                   holder : Loggers \cup {Free}]
    BY <1>1, <1>2, <1>3 DEF ElogInv, ElogTypeOK
  <2>2. logger' \in [Loggers -> LoggerStates]
    BY <1>1, <1>2, <1>5
  <2>3. overtaken' \subseteq Places
    BY <1>2, <1>7 DEF ElogInv, ElogTypeOK
  <2>4. QED
    BY <1>1, <2>1, <2>2, <2>3 DEF ElogInv, ElogTypeOK
<1>9. Counted'
  BY <1>1, <1>6, CountedKept
<1>10. Registering' /\ Named'
  <2>1. logger'[t].pc = "data" /\ \A u \in Loggers \ {t} : logger'[u] = logger[u]
    BY <1>1, <1>2, <1>5
  <2>2. QED
    BY <1>1, <1>6, <2>1, NamedKept DEF l
<1>11. RingWritten'
  <2>1. ASSUME NEW p \in Places \ overtaken'
        PROVE  /\ given.last[p] = 0 \/ Writing(p, {"write"})' \/ elog'.ring[p].id = given.last[p]
               /\ given.last[p] = 0 \/ Writing(p, {"write", "data"})' \/ elog'.ring[p].data = given.last[p]
    <3>1. CASE p # place
      <4>1. \A pcs : Writing(p, pcs) => Writing(p, pcs)'
        BY <1>1, <1>5, <3>1, WritingKept DEF l, place
      <4>2. p \notin overtaken /\ elog'.ring[p] = elog.ring[p]
        BY <1>6, <1>7, <2>1, <3>1
      <4>3. QED
        BY <4>1, <4>2 DEF ElogInv, RingWritten
    <3>2. CASE p = place
      <4>1. given.last[p] = l.id
        BY <1>7, <2>1, <3>2
      <4>2. elog'.ring[p].id = given.last[p]
        BY <1>3, <1>6, <3>2, <4>1
      <4>3. Writing(p, {"write", "data"})'
        BY <1>1, <1>2, <1>5, <3>2, <4>1 DEF Writing
      <4>4. QED
        BY <4>2, <4>3
    <3>3. QED
      BY <3>1, <3>2
  <2>2. QED
    BY <1>1, <2>1 DEF RingWritten
<1>12. QED
  BY <1>8, <1>9, <1>10, <1>11 DEF ElogInv

LEMMA DataKeeps ==
    ASSUME ElogInv, NEW t \in Loggers, Data(t)
    PROVE  ElogInv'
<1> DEFINE l == logger[t]
           place == l.place
           event == [elog.ring[place] EXCEPT !.data = l.id]
<1>1. /\ l.pc = "data" /\ logger' = [logger EXCEPT ![t] = Idle]
      /\ overtaken' = (overtaken \cup (Overtaken(t) \cap {place}))
      /\ elog' = [elog EXCEPT !.ring[place].data = l.id]
      /\ UNCHANGED <<index, given, trigger>>
  BY DEF Data, At
<1>2. /\ logger \in [Loggers -> LoggerStates] /\ l \in LoggerStates /\ place \in Places
      /\ l.id \in Nat /\ elog.ring \in [Places -> Events]
  BY DEF ElogInv, ElogTypeOK, LoggerStates
<1>3. event \in Events /\ event.id = elog.ring[place].id /\ event.data = l.id
  BY <1>2 DEF Events
<1>4. elog' = [elog EXCEPT !.ring[place] = event]
  BY <1>1
<1>5. /\ elog'.total = elog.total /\ elog'.vec = elog.vec /\ elog'.holder = elog.holder
      /\ \A p \in Places : elog'.ring[p] = IF p = place THEN event ELSE elog.ring[p]
  BY <1>2, <1>4 DEF ElogInv, ElogTypeOK
<1>6. overtaken' = IF given.last[place] # l.id THEN overtaken \cup {place} ELSE overtaken
  BY <1>1 DEF Overtaken
<1> HIDE DEF l, place, event
<1>7. ElogTypeOK'
  <2>1. elog' \in [total : 0 .. CounterWords - 1, limit : Nat, ring : [Places -> Events],
                   vec : [types : Seq(Types), tracks : Seq(Tracks \cup {"default"})],
                   holder : Loggers \cup {Free}]
    BY <1>2, <1>3, <1>4 DEF ElogInv, ElogTypeOK
  <2>2. logger' \in [Loggers -> LoggerStates]
    BY <1>1, <1>2, IdleType
  <2>3. overtaken' \subseteq Places
    BY <1>2, <1>6 DEF ElogInv, ElogTypeOK
  <2>4. QED
    BY <1>1, <2>1, <2>2, <2>3 DEF ElogInv, ElogTypeOK
<1>8. Counted'
  BY <1>1, <1>5, CountedKept
<1>9. Registering' /\ Named'
  <2>1. logger'[t].pc = "idle" /\ \A u \in Loggers \ {t} : logger'[u] = logger[u]
    BY <1>1, <1>2 DEF Idle
  <2>2. QED
    BY <1>1, <1>5, <2>1, NamedKept DEF l
<1>10. RingWritten'
  <2>1. ASSUME NEW p \in Places \ overtaken'
        PROVE  /\ given.last[p] = 0 \/ Writing(p, {"write"})' \/ elog'.ring[p].id = given.last[p]
               /\ given.last[p] = 0 \/ Writing(p, {"write", "data"})' \/ elog'.ring[p].data = given.last[p]
    <3>1. p \notin overtaken
      BY <1>6, <2>1
    <3>2. CASE p # place
      <4>1. \A pcs : Writing(p, pcs) => Writing(p, pcs)'
        BY <1>1, <3>2, IdleType, WritingKept DEF l, place
      <4>2. elog'.ring[p] = elog.ring[p]
        BY <1>5, <3>2
      <4>3. QED
        BY <3>1, <4>1, <4>2 DEF ElogInv, RingWritten
    <3>3. CASE p = place
      <4>1. given.last[p] = l.id
        BY <1>6, <2>1, <3>3
      <4>2. elog'.ring[p].data = given.last[p] /\ elog'.ring[p].id = elog.ring[p].id
        BY <1>3, <1>5, <3>3, <4>1
      <4>3. Writing(p, {"write"}) => Writing(p, {"write"})'
        <5>1. SUFFICES ASSUME Writing(p, {"write"}) PROVE Writing(p, {"write"})'
          OBVIOUS
        <5>2. PICK u \in Loggers : /\ logger[u].pc = "write" /\ logger[u].place = p
                                   /\ logger[u].id = given.last[p]
          BY <5>1 DEF Writing
        <5>3. logger'[u] = logger[u]
          BY <1>1, <1>2, <5>2 DEF l
        <5>4. QED
          BY <1>1, <5>2, <5>3 DEF Writing
      <4>4. QED
        BY <3>1, <4>2, <4>3 DEF ElogInv, RingWritten
    <3>4. QED
      BY <3>2, <3>3
  <2>2. QED
    BY <1>1, <2>1 DEF RingWritten
<1>11. QED
  BY <1>7, <1>8, <1>9, <1>10 DEF ElogInv

LEMMA DisableAfterKeeps ==
    ASSUME ElogInv, NEW t \in Loggers, NEW n \in 0 .. RingSize, DisableAfter(t, n)
    PROVE  ElogInv'
<1> DEFINE id == IF elog.total = 0 THEN 0 ELSE given.last[(elog.total - 1) % RingSize]
           limit == (elog.total + n) % CounterWords
           l == [Idle EXCEPT !.pc = "limit", !.limit = limit, !.n = n, !.id = id]
<1>1. /\ logger[t].pc = "idle"
      /\ logger' = [logger EXCEPT ![t] = l]
      /\ UNCHANGED <<elog, index, given, overtaken, trigger>>
  BY DEF DisableAfter, At
<1>2. elog.total \in Nat /\ n \in Nat /\ given.last \in [Places -> Nat]
  BY Sizes DEF ElogInv, ElogTypeOK
<1>3. limit \in Nat
  <2>1. elog.total + n \in Int
    BY <1>2
  <2>2. QED
    BY <2>1, Sizes, DivMod
<1>4. id \in Nat
  <2>1. CASE elog.total = 0
    BY <2>1
  <2>2. CASE elog.total # 0
    <3>1. elog.total - 1 \in Nat
      BY <1>2, <2>2
    <3>2. (elog.total - 1) % RingSize \in Places
      BY <3>1, PlaceType
    <3>3. QED
      BY <1>2, <2>2, <3>2
  <2>3. QED
    BY <2>1, <2>2
<1> HIDE DEF id, limit
<1>5. l \in LoggerStates /\ l.pc = "limit"
  BY <1>2, <1>3, <1>4, IdleType DEF LoggerStates
<1> HIDE DEF l
<1>6. ElogTypeOK'
  BY <1>1, <1>5 DEF ElogInv, ElogTypeOK
<1>7. Counted'
  BY <1>1, CountedKept
<1>8. logger'[t].pc = "limit" /\ \A u \in Loggers \ {t} : logger'[u] = logger[u]
  BY <1>1, <1>5 DEF ElogInv, ElogTypeOK
<1>9. RingWritten'
  BY <1>1, <1>8, WrittenKept
<1>10. Registering' /\ Named'
  BY <1>1, <1>8, NamedKept
<1>11. QED
  BY <1>6, <1>7, <1>9, <1>10 DEF ElogInv

LEMMA SetLimitKeeps ==
    ASSUME ElogInv, NEW t \in Loggers, SetLimit(t)
    PROVE  ElogInv'
<1>1. /\ logger[t].pc = "limit" /\ elog' = [elog EXCEPT !.limit = logger[t].limit]
      /\ trigger' = ToKeep(logger[t])
      /\ logger' = [logger EXCEPT ![t] = Idle]
      /\ UNCHANGED <<index, given, overtaken>>
  BY DEF SetLimit, At
<1>2. /\ logger[t] \in LoggerStates /\ given.n \in Nat
      /\ logger[t].limit \in Nat /\ logger[t].id \in Nat /\ logger[t].n \in Nat
  BY DEF ElogInv, ElogTypeOK, LoggerStates
<1>3. trigger' \in [id : Nat, n : Nat, before : Int]
  BY <1>1, <1>2 DEF ToKeep, NoTrigger
<1>4. /\ elog' \in [total : 0 .. CounterWords - 1, limit : Nat, ring : [Places -> Events],
                    vec : [types : Seq(Types), tracks : Seq(Tracks \cup {"default"})],
                    holder : Loggers \cup {Free}]
      /\ elog'.total = elog.total /\ elog'.ring = elog.ring /\ elog'.vec = elog.vec
      /\ elog'.holder = elog.holder
  BY <1>1, <1>2 DEF ElogInv, ElogTypeOK
<1>5. logger'[t].pc = "idle" /\ \A u \in Loggers \ {t} : logger'[u] = logger[u]
  BY <1>1 DEF ElogInv, ElogTypeOK, Idle
<1>6. ElogTypeOK'
  BY <1>1, <1>3, <1>4, IdleType DEF ElogInv, ElogTypeOK
<1>7. Counted'
  BY <1>1, <1>4, CountedKept
<1>8. RingWritten'
  BY <1>1, <1>4, <1>5, WrittenKept
<1>9. Registering' /\ Named'
  BY <1>1, <1>4, <1>5, NamedKept
<1>10. QED
  BY <1>6, <1>7, <1>8, <1>9 DEF ElogInv

LEMMA SwitchKeeps ==
    ASSUME ElogInv, NEW t \in Loggers, Switch(t)
    PROVE  ElogInv'
<1>1. PICK limit \in {Never, 0} :
          logger' = [logger EXCEPT ![t] = [Idle EXCEPT !.pc = "limit", !.limit = limit]]
  BY DEF Switch
<1>2. /\ logger[t].pc = "idle" /\ elog' = [elog EXCEPT !.total = 0] /\ trigger' = NoTrigger
      /\ UNCHANGED <<index, given, overtaken>>
  BY DEF Switch, At
<1> DEFINE l == [Idle EXCEPT !.pc = "limit", !.limit = limit]
<1>3. l \in LoggerStates /\ l.pc = "limit"
  <2>1. limit \in Nat
    BY Sizes
  <2>2. QED
    BY <2>1, IdleType DEF LoggerStates
<1>4. logger' = [logger EXCEPT ![t] = l]
  BY <1>1
<1> HIDE DEF l
<1>5. /\ elog' \in [total : 0 .. CounterWords - 1, limit : Nat, ring : [Places -> Events],
                    vec : [types : Seq(Types), tracks : Seq(Tracks \cup {"default"})],
                    holder : Loggers \cup {Free}]
      /\ elog'.total = 0 /\ elog'.ring = elog.ring /\ elog'.vec = elog.vec
      /\ elog'.holder = elog.holder
  <2>1. 0 \in 0 .. CounterWords - 1
    BY Sizes
  <2>2. QED
    BY <1>2, <2>1 DEF ElogInv, ElogTypeOK
<1>6. logger'[t].pc = "limit" /\ \A u \in Loggers \ {t} : logger'[u] = logger[u]
  BY <1>3, <1>4 DEF ElogInv, ElogTypeOK
<1>7. ElogTypeOK'
  <2>1. NoTrigger \in [id : Nat, n : Nat, before : Int]
    BY DEF NoTrigger
  <2>2. logger' \in [Loggers -> LoggerStates]
    BY <1>3, <1>4 DEF ElogInv, ElogTypeOK
  <2>3. QED
    BY <1>2, <1>5, <2>1, <2>2 DEF ElogInv, ElogTypeOK
<1>8. Counted'
  <2>1. given.n \in Nat
    BY DEF ElogInv, ElogTypeOK
  <2>2. ASSUME NEW p \in Places PROVE ~ (Since(p)' < elog'.total)
    BY <1>5, Sizes, SinceTypeNext
  <2>3. QED
    BY <1>2, <1>5, <2>1, <2>2 DEF Counted
<1>9. RingWritten'
  BY <1>2, <1>5, <1>6, WrittenKept
<1>10. Registering' /\ Named'
  BY <1>2, <1>5, <1>6, NamedKept
<1>11. QED
  BY <1>7, <1>8, <1>9, <1>10 DEF ElogInv

\* Reading changes nothing but what is read.
LEMMA ReadKeeps ==
    ASSUME ElogInv, UNCHANGED <<elog, index, logger, given, overtaken, trigger>>
    PROVE  ElogInv'
BY DEF ElogInv, ElogTypeOK, Counted, Since, RingWritten, Writing, Registering, Static, Named, Names

LEMMA ElogStep == ElogInv /\ [ElogNext]_elogVars => ElogInv'
<1> SUFFICES ASSUME ElogInv, [ElogNext]_elogVars PROVE ElogInv'
  OBVIOUS
<1>1. CASE UNCHANGED elogVars
  BY <1>1, ReadKeeps DEF elogVars
<1>2. CASE Peek \/ CopyHalf \/ Peeked
  BY <1>2, ReadKeeps DEF Peek, CopyHalf, Peeked
<1>3. CASE \E t \in Loggers :
               \/ Check(t) \/ Register(t) \/ Registered(t)
               \/ AddEvent(t) \/ Write(t) \/ Data(t)
               \/ Switch(t) \/ (\E n \in 0 .. RingSize : DisableAfter(t, n)) \/ SetLimit(t)
  BY <1>3, CheckKeeps, RegisterKeeps, RegisteredKeeps, AddKeeps, WriteKeeps, DataKeeps,
     SwitchKeeps, DisableAfterKeeps, SetLimitKeeps
<1>4. QED
  BY <1>1, <1>2, <1>3 DEF ElogNext

LEMMA ElogInvariant == ElogSpec => []ElogInv
BY ElogInitially, ElogStep, PTL DEF ElogSpec

--------------------------------------------------------------------------------
(* What readers find *)

ReaderStates ==
    [n : 0 .. RingSize, first : Places, halves : Nat, got : Nat, sure : BOOLEAN,
     began : [n : Nat, last : [Places -> Nat]]]

\* The events that the reader is to find had the last numbers given when the
\* reading began, and the half copied last has the one of its event.
Reading ==
    /\ reader \in ReaderStates
    /\ reader.halves <= 2 * reader.n /\ reader.n <= reader.began.n
    /\ \A k \in 1 .. reader.n :
           reader.began.last[(reader.first + (k - 1)) % RingSize] = reader.began.n - reader.n + k
    /\ reader.halves > 0 /\ reader.sure =>
           reader.got = reader.began.n - reader.n + ((reader.halves + 1) \div 2)

\* The k-th of n places read is the one that n - k others were given out after.
LEMMA PeekedSince ==
    ASSUME elog.total \in Nat
    PROVE  /\ InBuffer \in 0 .. RingSize /\ InBuffer <= elog.total /\ Oldest \in Places
           /\ \A k \in 1 .. InBuffer :
                  LET p == (Oldest + (k - 1)) % RingSize IN p \in Places /\ Since(p) = InBuffer - k
<1> DEFINE total == elog.total
           c  == total % RingSize
           n  == InBuffer
           lo == Oldest
<1>1. RingSize \in Nat \ {0} /\ c \in 0 .. RingSize - 1 /\ (total < RingSize => c = total)
  BY Sizes, PlaceType DEF Places
<1>2. total = RingSize => c = 0
  BY <1>1, LessThanTwice
<1>3. /\ n = IF total <= RingSize THEN total ELSE RingSize
      /\ lo = IF total <= RingSize THEN 0 ELSE c
  BY DEF InBuffer, Oldest
<1> HIDE DEF n, lo
<1>4. n \in Nat /\ n <= total /\ n <= RingSize /\ lo \in 0 .. RingSize - 1
  BY <1>1, <1>3
<1>5. ASSUME NEW k \in 1 .. n
      PROVE  (lo + (k - 1)) % RingSize \in Places /\ Since((lo + (k - 1)) % RingSize) = n - k
  <2> DEFINE i == lo + (k - 1)
             p == i % RingSize
  <2>1. i \in 0 .. 2 * RingSize - 1
    BY <1>1, <1>4
  <2> HIDE DEF i
  <2>2. p = IF i < RingSize THEN i ELSE i - RingSize
    BY <1>1, <2>1, LessThanTwice
  <2>3. Since(p) = IF p < c THEN c - 1 - p ELSE c - 1 - p + RingSize
    BY DEF Since
  <2> HIDE DEF c, p
  <2>4. p \in Places /\ Since(p) = n - k
    BY <1>1, <1>2, <1>3, <1>4, <2>1, <2>2, <2>3 DEF i, Places
  <2>5. QED
    BY <2>4 DEF p, i
<1>6. QED
  BY <1>4, <1>5, Sizes DEF n, lo, Places

LEMMA PeekReads ==
    ASSUME ElogInv, Peek
    PROVE  Reading'
<1>1. reader' = [NoReading EXCEPT !.n = InBuffer, !.first = Oldest, !.began = given]
  BY DEF Peek
<1>2. /\ elog.total \in Nat /\ given \in [n : Nat, last : [Places -> Nat]]
      /\ elog.total <= given.n
      /\ \A p \in Places : Since(p) < elog.total => given.last[p] = given.n - Since(p)
  BY Sizes DEF ElogInv, ElogTypeOK, Counted
<1>3. /\ InBuffer \in 0 .. RingSize /\ InBuffer <= elog.total /\ Oldest \in Places
      /\ \A k \in 1 .. InBuffer :
             LET p == (Oldest + (k - 1)) % RingSize IN p \in Places /\ Since(p) = InBuffer - k
  BY <1>2, PeekedSince
<1>4. /\ reader'.n = InBuffer /\ reader'.first = Oldest /\ reader'.began = given
      /\ reader'.halves = 0 /\ reader'.sure = FALSE /\ reader' \in ReaderStates
  BY <1>1, <1>2, <1>3 DEF NoReading, ReaderStates
<1>5. ASSUME NEW k \in 1 .. InBuffer
      PROVE  given.last[(Oldest + (k - 1)) % RingSize] = given.n - InBuffer + k
  <2> DEFINE p == (Oldest + (k - 1)) % RingSize
  <2>1. p \in Places /\ Since(p) = InBuffer - k
    BY <1>3
  <2> HIDE DEF p
  <2>2. Since(p) < elog.total
    BY <1>2, <1>3, <2>1
  <2>3. given.last[p] = given.n - (InBuffer - k)
    BY <1>2, <2>1, <2>2
  <2>4. given.n - (InBuffer - k) = given.n - InBuffer + k
    BY <1>2, <1>3
  <2>5. QED
    BY <2>3, <2>4 DEF p
<1>6. reader'.halves <= 2 * reader'.n /\ reader'.n <= reader'.began.n
  BY <1>2, <1>3, <1>4, Sizes
<1>7. \A k \in 1 .. reader'.n :
          reader'.began.last[(reader'.first + (k - 1)) % RingSize] = reader'.began.n - reader'.n + k
  BY <1>4, <1>5
<1>8. QED
  BY <1>4, <1>6, <1>7 DEF Reading

LEMMA Halving ==
    ASSUME NEW h \in Nat
    PROVE  /\ h \div 2 \in Nat /\ ((h + 1) + 1) \div 2 = (h \div 2) + 1
           /\ \A n \in Nat : h < 2 * n => (h \div 2) + 1 \in 1 .. n
OBVIOUS

\* A half that is copied while nobody writes there is the event's to whom the
\* place was given last.
LEMMA CopyReads ==
    ASSUME ElogInv, Reading, CopyHalf
    PROVE  Reading'
<1> DEFINE h == reader.halves
           k == (h \div 2) + 1
           p == (reader.first + (h \div 2)) % RingSize
           e == elog.ring[p]
           got == IF h % 2 = 0 THEN e.id ELSE e.data
           sure == given.last[p] = reader.began.last[p] /\ ~Busy(p) /\ p \notin overtaken
<1>1. h < 2 * reader.n /\ reader' = [reader EXCEPT !.halves = h + 1, !.got = got, !.sure = sure]
  BY DEF CopyHalf
<1>2. /\ reader \in ReaderStates /\ h \in Nat /\ reader.n \in Nat /\ reader.first \in Nat
      /\ reader.n <= reader.began.n /\ reader.began.n \in Nat
  BY Sizes DEF Reading, ReaderStates, Places
<1>3. /\ h \div 2 \in Nat /\ k \in 1 .. reader.n /\ ((h + 1) + 1) \div 2 = k
  BY <1>1, <1>2, Halving
<1>4. k - 1 = h \div 2
  BY <1>3
<1>5. p \in Places
  <2>1. reader.first + (h \div 2) \in Nat
    BY <1>2, <1>3
  <2>2. QED
    BY <2>1, PlaceType
<1>6. reader.began.last[p] = reader.began.n - reader.n + k
  BY <1>3, <1>4 DEF Reading
<1> HIDE DEF k, p
<1>7. e \in Events /\ got \in Nat /\ sure \in BOOLEAN
  BY <1>5 DEF ElogInv, ElogTypeOK, Events
<1>8. sure => got = reader.began.n - reader.n + k
  <2>1. SUFFICES ASSUME sure PROVE got = reader.began.n - reader.n + k
    OBVIOUS
  <2>2. ~ Writing(p, {"write"}) /\ ~ Writing(p, {"write", "data"})
    BY <2>1 DEF Busy, Writing
  <2>3. given.last[p] = reader.began.n - reader.n + k /\ given.last[p] > 0
    BY <1>2, <1>3, <1>6, <2>1
  <2>4. e.id = given.last[p] /\ e.data = given.last[p]
    BY <1>5, <2>1, <2>2, <2>3 DEF ElogInv, RingWritten
  <2>5. QED
    BY <2>3, <2>4
<1> HIDE DEF got, sure, e
<1>9. /\ reader' \in ReaderStates /\ reader'.halves = h + 1 /\ reader'.got = got
      /\ reader'.sure = sure /\ reader'.n = reader.n /\ reader'.first = reader.first
      /\ reader'.began = reader.began
  <2> DEFINE now == reader
             then == reader'
  <2>1. then = [now EXCEPT !.halves = h + 1, !.got = got, !.sure = sure]
    BY <1>1
  <2>2. now \in ReaderStates /\ h \in Nat /\ got \in Nat /\ sure \in BOOLEAN
    BY <1>2, <1>7
  <2> DEFINE Began == [n : Nat, last : [Places -> Nat]]
             Taken == 0 .. RingSize
  <2>3. h + 1 \in Nat /\ ReaderStates =
            [n : Taken, first : Places, halves : Nat, got : Nat, sure : BOOLEAN, began : Began]
    BY <2>2 DEF ReaderStates
  <2> HIDE DEF now, then, h, Began, Taken
  <2>4. /\ then \in ReaderStates /\ then.halves = h + 1 /\ then.got = got /\ then.sure = sure
        /\ then.n = now.n /\ then.first = now.first /\ then.began = now.began
    BY <2>1, <2>2, <2>3
  <2>5. QED
    BY <2>4 DEF now, then, h
<1>10. h + 1 <= 2 * reader.n
  BY <1>1, <1>2
<1>11. reader'.sure => reader'.got = reader'.began.n - reader'.n + ((reader'.halves + 1) \div 2)
  BY <1>3, <1>8, <1>9
<1>12. \A j \in 1 .. reader'.n :
          reader'.began.last[(reader'.first + (j - 1)) % RingSize] = reader'.began.n - reader'.n + j
  BY <1>9 DEF Reading
<1>13. QED
  BY <1>2, <1>9, <1>10, <1>11, <1>12 DEF Reading

LEMMA NothingRead == ASSUME reader = NoReading PROVE Reading
<1>1. /\ reader.n = 0 /\ reader.halves = 0 /\ reader.sure = FALSE /\ reader.began.n = 0
  BY DEF NoReading
<1>2. reader \in ReaderStates
  BY Sizes DEF NoReading, ReaderStates, Places
<1>3. QED
  BY <1>1, <1>2 DEF Reading

LEMMA ReadingStep ==
    ASSUME ElogInv, Reading, [ElogNext]_elogVars
    PROVE  Reading'
<1>1. CASE UNCHANGED reader
  BY <1>1 DEF Reading
<1>2. CASE Peek
  BY <1>2, PeekReads
<1>3. CASE CopyHalf
  BY <1>3, CopyReads
<1>4. CASE Peeked
  <2>1. reader' = NoReading
    BY <1>4 DEF Peeked
  <2>2. /\ reader'.n = 0 /\ reader'.halves = 0 /\ reader'.sure = FALSE /\ reader'.began.n = 0
        /\ reader' \in ReaderStates
    BY <2>1, Sizes DEF NoReading, ReaderStates, Places
  <2>3. QED
    BY <2>2 DEF Reading
<1>5. CASE \E t \in Loggers :
               \/ Check(t) \/ Register(t) \/ Registered(t)
               \/ AddEvent(t) \/ Write(t) \/ Data(t)
               \/ Switch(t) \/ (\E n \in 0 .. RingSize : DisableAfter(t, n)) \/ SetLimit(t)
  BY <1>1, <1>5 DEF Check, Register, Registered, AddEvent, Write, Data, Switch, DisableAfter, SetLimit
<1>6. QED
  BY <1>1, <1>2, <1>3, <1>4, <1>5 DEF ElogNext, elogVars

LEMMA InvReads == ElogInv /\ Reading => ReadsLastEvents
<1> SUFFICES ASSUME ElogInv, Reading PROVE ReadsLastEvents
  OBVIOUS
<1>1. IndicesNameTypes
  BY DEF ElogInv, Named, Names, IndicesNameTypes
<1>2. ASSUME reader.halves > 0, reader.sure
      PROVE  /\ reader.got = reader.began.n - reader.n + ((reader.halves + 1) \div 2)
             /\ reader.got > 0
  <2>1. reader.halves \in Nat /\ reader.n \in Nat /\ reader.began.n \in Nat
    BY Sizes DEF Reading, ReaderStates
  <2>2. (reader.halves + 1) \div 2 > 0
    BY <1>2, <2>1
  <2>3. reader.got = reader.began.n - reader.n + ((reader.halves + 1) \div 2)
    BY <1>2 DEF Reading
  <2> DEFINE half == (reader.halves + 1) \div 2
  <2>4. half \in Int
    BY <2>1
  <2> HIDE DEF half
  <2>5. reader.began.n - reader.n + half > 0
    BY <2>1, <2>2, <2>4 DEF Reading, half
  <2>6. QED
    BY <2>3, <2>5 DEF half
<1>3. QED
  BY <1>1, <1>2 DEF ReadsLastEvents

\* Whoever reads the log, event after event, while threads log, register, enable
\* and disable at any moment, finds the newest events at the time it began, each
\* once and in the order of their places, and under the names of their types and
\* tracks: every half it copied before its place was given to a newer event and
\* while nobody was writing there is the half of that event, also when the
\* counter of events begins again at 0.
THEOREM ElogReadsLastEvents == ElogSpec => []ReadsLastEvents
<1>1. ElogInit => Reading
  BY NothingRead DEF ElogInit
<1>2. ElogInv /\ Reading /\ [ElogNext]_elogVars => Reading'
  BY ReadingStep
<1>3. ElogInv /\ Reading => ReadsLastEvents
  BY InvReads
<1>4. QED
  BY <1>1, <1>2, <1>3, ElogInvariant, PTL DEF ElogSpec

--------------------------------------------------------------------------------
(* The event of a trigger *)

\* Threads that have found the log enabled and have not got a place yet.
Underway == {t \in Loggers : logger[t].pc \in {"register", "copy", "add"}}

\* Events that followed the event of the trigger.
After == given.n - trigger.id

\* The limit that lets n events follow an event when after of them did.
LimitOf(limit, n, after) ==
    \/ limit = elog.total - after + n
    \/ limit = elog.total - after + n - CounterWords

\* What followed and what is under way were let through by the limit, or were
\* before it was set.
Limited ==
    trigger.id # 0 =>
        /\ After \in Nat /\ After < elog.total /\ trigger.n <= RingSize /\ trigger.before \in Nat
        /\ After + Cardinality(Underway)
               <= Larger(trigger.n, trigger.before) + Cardinality(Loggers) - 1
        /\ LimitOf(elog.limit, trigger.n, After)

\* A limit that is about to be written is that of the event it was read at.
LimitFits(l) ==
    /\ l.id <= given.n
    /\ l.id # 0 /\ given.n - l.id < elog.total =>
           l.n <= RingSize /\ LimitOf(l.limit, l.n, given.n - l.id)

Pending == \A t \in Loggers : logger[t].pc = "limit" => LimitFits(logger[t])

LEMMA LargerType ==
    ASSUME NEW m \in Nat, NEW n \in Nat
    PROVE  Larger(m, n) \in Nat /\ m <= Larger(m, n) /\ n <= Larger(m, n)
BY DEF Larger

LEMMA UnderwayFinite ==
    /\ IsFiniteSet(Loggers) /\ Cardinality(Loggers) \in Nat
    /\ IsFiniteSet(Underway) /\ Cardinality(Underway) \in Nat
    /\ Cardinality(Underway) <= Cardinality(Loggers)
<1>1. IsFiniteSet(Loggers) /\ Underway \subseteq Loggers
  BY ElogAssumption DEF Underway
<1>2. QED
  BY <1>1, FS_Subset, FS_CardinalityType

\* A ring is not longer than the counter counts.
LEMMA RingInCounter == RingSize <= CounterWords
<1>1. CounterWords % RingSize = 0
  BY ElogAssumption
<1>2. QED
  BY <1>1, Sizes, LessThanTwice

\* A step that gives out no place and writes neither counter nor limit.
LEMMA LimitedKept ==
    ASSUME ElogInv, Limited, given' = given, trigger' = trigger, elog'.total = elog.total,
           elog'.limit = elog.limit,
           Underway' \subseteq Underway \/ (/\ elog.total < elog.limit
                                           /\ \E t \in Loggers : Underway' = Underway \cup {t})
    PROVE  Limited'
<1> SUFFICES ASSUME trigger.id # 0 PROVE Limited'
  BY DEF Limited
<1>1. /\ IsFiniteSet(Underway) /\ Cardinality(Underway) \in Nat
      /\ Cardinality(Underway) <= Cardinality(Loggers) /\ Cardinality(Loggers) \in Nat
  BY UnderwayFinite
<1>2. elog.total \in Nat /\ trigger.n \in Nat /\ elog.limit \in Nat
  BY Sizes DEF ElogInv, ElogTypeOK
<1> DEFINE most == Larger(trigger.n, trigger.before)
<1>3. /\ After' = After /\ After \in Nat /\ After < elog.total
      /\ trigger.n <= RingSize /\ trigger.before \in Nat
      /\ After + Cardinality(Underway) <= most + Cardinality(Loggers) - 1
      /\ LimitOf(elog.limit, trigger.n, After)
  BY DEF After, Limited
<1>4. most \in Nat /\ trigger.n <= most
  BY <1>2, <1>3, LargerType
<1>5. LimitOf(elog.limit, trigger.n, After)'
  BY <1>3 DEF LimitOf
<1> HIDE DEF most
<1>6. SUFFICES After + Cardinality(Underway') <= most + Cardinality(Loggers) - 1
  BY <1>3, <1>5 DEF Limited, most
<1>7. CASE Underway' \subseteq Underway
  <2>1. Cardinality(Underway') <= Cardinality(Underway) /\ Cardinality(Underway') \in Nat
    BY <1>1, <1>7, FS_Subset, FS_CardinalityType
  <2>2. QED
    BY <1>1, <1>3, <1>4, <2>1
<1>8. CASE elog.total < elog.limit /\ \E t \in Loggers : Underway' = Underway \cup {t}
  <2>1. After <= trigger.n - 1
    BY <1>2, <1>3, <1>8, Sizes, RingInCounter DEF LimitOf
  <2>2. Underway' \subseteq Loggers
    BY DEF Underway
  <2>3. Cardinality(Underway') <= Cardinality(Loggers) /\ Cardinality(Underway') \in Nat
    BY <2>2, UnderwayFinite, FS_Subset, FS_CardinalityType
  <2>4. QED
    BY <1>1, <1>2, <1>3, <1>4, <2>1, <2>3
<1>9. QED
  BY <1>7, <1>8

\* Nor does such a step change what the limits about to be written are for.
LEMMA PendingKept ==
    ASSUME Pending, given' = given, elog'.total = elog.total,
           \A u \in Loggers : logger'[u].pc = "limit" => logger'[u] = logger[u]
    PROVE  Pending'
<1> SUFFICES ASSUME NEW u \in Loggers, logger'[u].pc = "limit" PROVE LimitFits(logger[u])'
  BY DEF Pending
<1>1. logger'[u] = logger[u] /\ LimitFits(logger[u])
  BY DEF Pending
<1>2. QED
  BY <1>1 DEF LimitFits, LimitOf

\* An event that follows moves the counter with it.
LEMMA AddAdvances ==
    ASSUME ElogInv, NEW t \in Loggers, AddEvent(t), MaxLogged < CounterWords
    PROVE  /\ elog'.total = elog.total + 1 /\ elog'.limit = elog.limit
           /\ given'.n = given.n + 1 /\ trigger' = trigger
           /\ t \in Underway /\ Underway' = Underway \ {t}
           /\ \A u \in Loggers : logger'[u].pc = "limit" => logger'[u] = logger[u]
<1>1. /\ logger[t].pc = "add" /\ given.n < MaxLogged
      /\ elog' = [elog EXCEPT !.total = (elog.total + 1) % CounterWords]
      /\ given'.n = given.n + 1 /\ trigger' = trigger
  BY DEF AddEvent, At
<1>2. elog.total \in Nat /\ elog.total <= given.n /\ given.n \in Nat
  BY Sizes DEF ElogInv, ElogTypeOK, Counted
<1>3. (elog.total + 1) % CounterWords = elog.total + 1
  <2> DEFINE sum == elog.total + 1
  <2>1. sum \in 0 .. 2 * CounterWords - 1 /\ sum < CounterWords
    BY <1>1, <1>2, Sizes
  <2> HIDE DEF sum
  <2>2. sum % CounterWords = sum
    BY <2>1, Sizes, LessThanTwice
  <2>3. QED
    BY <2>2 DEF sum
<1>4. elog'.total = elog.total + 1 /\ elog'.limit = elog.limit
  BY <1>1, <1>3 DEF ElogInv, ElogTypeOK
<1>5. logger'[t].pc = "write" /\ \A u \in Loggers \ {t} : logger'[u] = logger[u]
  BY DEF AddEvent, ElogInv, ElogTypeOK, LoggerStates
<1>6. t \in Underway /\ Underway' = Underway \ {t}
  BY <1>1, <1>5 DEF Underway
<1>7. QED
  BY <1>1, <1>4, <1>5, <1>6

LEMMA AddLimited ==
    ASSUME ElogInv, Limited, Pending, NEW t \in Loggers, AddEvent(t), MaxLogged < CounterWords
    PROVE  Limited' /\ Pending'
<1>1. /\ elog'.total = elog.total + 1 /\ elog'.limit = elog.limit
      /\ given'.n = given.n + 1 /\ trigger' = trigger
      /\ t \in Underway /\ Underway' = Underway \ {t}
      /\ \A u \in Loggers : logger'[u].pc = "limit" => logger'[u] = logger[u]
  BY AddAdvances
<1>2. /\ elog.total \in Nat /\ trigger.n \in Nat /\ trigger.id \in Nat /\ given.n \in Nat
  BY Sizes DEF ElogInv, ElogTypeOK
<1>3. Limited'
  <2> SUFFICES ASSUME trigger.id # 0 PROVE Limited'
    BY <1>1 DEF Limited
  <2>1. /\ IsFiniteSet(Underway) /\ Cardinality(Underway) \in Nat /\ Cardinality(Loggers) \in Nat
    BY UnderwayFinite
  <2>2. Cardinality(Underway') = Cardinality(Underway) - 1
    BY <1>1, <2>1, FS_RemoveElement
  <2>3. After' = After + 1
    BY <1>1, <1>2 DEF After
  <2> DEFINE most == Larger(trigger.n, trigger.before)
  <2>4. /\ After \in Nat /\ After < elog.total /\ trigger.n <= RingSize /\ trigger.before \in Nat
        /\ After + Cardinality(Underway) <= most + Cardinality(Loggers) - 1
        /\ LimitOf(elog.limit, trigger.n, After)
    BY DEF Limited
  <2>5. most \in Nat
    BY <1>2, <2>4, LargerType
  <2> HIDE DEF most
  <2>6. LimitOf(elog.limit, trigger.n, After)'
    BY <1>1, <1>2, <2>3, <2>4, Sizes DEF LimitOf
  <2>7. /\ After' \in Nat /\ After' < elog'.total
        /\ After' + Cardinality(Underway') <= most + Cardinality(Loggers) - 1
    BY <1>1, <1>2, <2>1, <2>2, <2>3, <2>4, <2>5
  <2>8. QED
    BY <1>1, <2>4, <2>6, <2>7 DEF Limited, most
<1>4. Pending'
  <2> SUFFICES ASSUME NEW u \in Loggers, logger'[u].pc = "limit" PROVE LimitFits(logger[u])'
    BY DEF Pending
  <2> DEFINE l == logger[u]
  <2>1. logger'[u] = l /\ LimitFits(l) /\ l.id \in Nat /\ l.n \in Nat
    BY <1>1 DEF Pending, ElogInv, ElogTypeOK, LoggerStates
  <2> HIDE DEF l
  <2> DEFINE before == given.n - l.id
             after  == given'.n - l.id
  <2>2. before \in Int /\ after = before + 1
    BY <1>1, <1>2, <2>1
  <2>3. /\ l.id <= given.n
        /\ l.id # 0 /\ before < elog.total => l.n <= RingSize /\ LimitOf(l.limit, l.n, before)
    BY <2>1 DEF LimitFits
  <2> HIDE DEF before, after
  <2>4. LimitOf(l.limit, l.n, before) => \/ l.limit = elog'.total - after + l.n
                                        \/ l.limit = elog'.total - after + l.n - CounterWords
    BY <1>1, <1>2, <2>1, <2>2, Sizes DEF LimitOf
  <2>5. /\ l.id <= given'.n
        /\ l.id # 0 /\ after < elog'.total =>
               /\ l.n <= RingSize
               /\ \/ l.limit = elog'.total - after + l.n
                  \/ l.limit = elog'.total - after + l.n - CounterWords
    BY <1>1, <1>2, <2>1, <2>2, <2>3, <2>4
  <2>6. QED
    BY <2>1, <2>5 DEF LimitFits, LimitOf, after
<1>5. QED
  BY <1>3, <1>4

\* The last event is that of the last place given.
LEMMA LastGiven ==
    ASSUME ElogInv, elog.total # 0
    PROVE  given.last[(elog.total - 1) % RingSize] = given.n
<1>1. elog.total \in Nat /\ given.n \in Nat /\ elog.total > 0
  BY Sizes DEF ElogInv, ElogTypeOK
<1> DEFINE p == (elog.total - 1) % RingSize
           before == elog.total - 1
<1>2. before \in Int /\ before >= 0 /\ elog.total = before + 1 /\ RingSize \in Nat \ {0}
  BY <1>1, Sizes
<1>3. p \in Places
  BY <1>1, PlaceType
<1>4. elog.total % RingSize = IF p = RingSize - 1 THEN 0 ELSE p + 1
  <2>1. (before + 1) % RingSize = IF before % RingSize = RingSize - 1 THEN 0 ELSE (before % RingSize) + 1
    <3> HIDE DEF before
    <3>1. QED
      BY <1>2, NextModulo
  <2>2. QED
    BY <1>2, <2>1
<1> HIDE DEF p
<1>5. Since(p) = 0
  BY <1>3, <1>4, Sizes DEF Since, Places
<1>6. given.last[p] = given.n
  BY <1>1, <1>3, <1>5 DEF ElogInv, Counted
<1>7. QED
  BY <1>6 DEF p

\* The counter is read.
LEMMA DisableAfterPending ==
    ASSUME ElogInv, Pending, NEW t \in Loggers, NEW n \in 0 .. RingSize, DisableAfter(t, n)
    PROVE  Pending'
<1> DEFINE id  == IF elog.total = 0 THEN 0 ELSE given.last[(elog.total - 1) % RingSize]
           sum == elog.total + n
           new == [Idle EXCEPT !.pc = "limit", !.limit = sum % CounterWords, !.n = n, !.id = id]
<1>1. /\ logger' = [logger EXCEPT ![t] = new]
      /\ elog' = elog /\ given' = given /\ logger \in [Loggers -> LoggerStates]
  BY DEF DisableAfter, ElogInv, ElogTypeOK
<1>2. /\ elog.total \in 0 .. CounterWords - 1 /\ n \in Nat /\ given.n \in Nat
  BY Sizes DEF ElogInv, ElogTypeOK
<1>3. id = 0 \/ id = given.n
  BY LastGiven
<1>4. sum % CounterWords = IF sum < CounterWords THEN sum ELSE sum - CounterWords
  <2>1. sum \in 0 .. 2 * CounterWords - 1
    BY <1>2, Sizes, RingInCounter
  <2> HIDE DEF sum
  <2>2. QED
    BY <2>1, Sizes, LessThanTwice
<1>5. /\ logger'[t] = new /\ new.limit = sum % CounterWords /\ new.n = n /\ new.id = id
      /\ \A u \in Loggers \ {t} : logger'[u] = logger[u]
  BY <1>1 DEF Idle
<1> HIDE DEF id, new
<1>6. LimitFits(new)
  <2>1. given.n - given.n = 0
    BY <1>2
  <2>2. LimitOf(new.limit, n, 0)
    BY <1>2, <1>4, <1>5, Sizes DEF LimitOf
  <2>3. QED
    BY <1>2, <1>3, <1>5, <2>1, <2>2 DEF LimitFits
<1>7. ASSUME NEW u \in Loggers, logger'[u].pc = "limit" PROVE LimitFits(logger[u])'
  <2>1. LimitFits(logger'[u])
    BY <1>5, <1>6, <1>7 DEF Pending
  <2>2. QED
    BY <1>1, <2>1 DEF LimitFits, LimitOf
<1>8. QED
  BY <1>7 DEF Pending

\* The limit is written, by a thread that is not adding an event.
LEMMA SetLimitLimited ==
    ASSUME ElogInv, Pending, NEW t \in Loggers, SetLimit(t)
    PROVE  Limited'
<1> DEFINE l == logger[t]
<1>1. /\ l.pc = "limit" /\ elog' = [elog EXCEPT !.limit = l.limit] /\ given' = given
      /\ trigger' = ToKeep(l) /\ logger' = [logger EXCEPT ![t] = Idle]
  BY DEF SetLimit, At
<1>2. l \in LoggerStates /\ LimitFits(l) /\ logger \in [Loggers -> LoggerStates]
  BY <1>1 DEF Pending, ElogInv, ElogTypeOK
<1>3. l.id \in Nat /\ l.n \in Nat /\ l.limit \in Nat /\ elog.total \in Nat /\ given.n \in Nat
  BY <1>2, Sizes DEF ElogInv, ElogTypeOK, LoggerStates
<1>4. elog'.total = elog.total /\ elog'.limit = l.limit
  BY <1>1 DEF ElogInv, ElogTypeOK
<1>5. Cardinality(Underway') <= Cardinality(Loggers) - 1 /\ Cardinality(Underway') \in Nat
      /\ Cardinality(Loggers) \in Nat
  <2>1. Underway' \subseteq Loggers \ {t}
    BY <1>1, <1>2 DEF Underway, Idle
  <2>2. /\ IsFiniteSet(Loggers \ {t}) /\ Cardinality(Loggers \ {t}) = Cardinality(Loggers) - 1
    BY UnderwayFinite, FS_RemoveElement
  <2>3. QED
    BY <2>1, <2>2, UnderwayFinite, FS_Subset, FS_CardinalityType
<1> HIDE DEF l
<1> SUFFICES ASSUME trigger'.id # 0 PROVE Limited'
  BY DEF Limited
<1>6. /\ l.id # 0 /\ given.n - l.id < elog.total
      /\ trigger' = [id |-> l.id, n |-> l.n, before |-> given.n - l.id]
  BY <1>1 DEF ToKeep, NoTrigger
<1>7. /\ trigger'.id = l.id /\ trigger'.n = l.n /\ trigger'.before = given.n - l.id
  BY <1>6
<1> DEFINE before == given.n - l.id
<1>8. before \in Nat /\ After' = before /\ l.n <= RingSize /\ LimitOf(l.limit, l.n, before)
  BY <1>1, <1>2, <1>3, <1>6, <1>7 DEF After, LimitFits
<1> HIDE DEF before
<1>9. Larger(l.n, before) \in Nat /\ before <= Larger(l.n, before)
  BY <1>3, <1>8, LargerType
<1>10. LimitOf(elog.limit, trigger.n, After)'
  BY <1>4, <1>7, <1>8 DEF LimitOf
<1>11. before + Cardinality(Underway') <= Larger(l.n, before) + Cardinality(Loggers) - 1
  BY <1>5, <1>8, <1>9
<1>12. Larger(trigger.n, trigger.before)' = Larger(l.n, before)
  BY <1>7 DEF before, Larger
<1>13. before < elog'.total
  BY <1>4, <1>6 DEF before
<1>14. trigger'.before \in Nat
  BY <1>7, <1>8 DEF before
<1>15. QED
  BY <1>7, <1>8, <1>10, <1>11, <1>12, <1>13, <1>14 DEF Limited

LEMMA SwitchPending ==
    ASSUME ElogInv, Pending, NEW t \in Loggers, Switch(t)
    PROVE  Pending'
<1>1. PICK limit \in {Never, 0} :
          logger' = [logger EXCEPT ![t] = [Idle EXCEPT !.pc = "limit", !.limit = limit]]
  BY DEF Switch
<1>2. /\ elog'.total = 0 /\ given' = given /\ logger \in [Loggers -> LoggerStates] /\ given.n \in Nat
  BY DEF Switch, ElogInv, ElogTypeOK
<1>3. logger'[t].id = 0 /\ \A u \in Loggers \ {t} : logger'[u] = logger[u]
  BY <1>1, <1>2 DEF Idle
<1>4. ASSUME NEW u \in Loggers, logger'[u].pc = "limit" PROVE LimitFits(logger[u])'
  <2>1. logger'[u].id \in Nat /\ logger'[u].id <= given.n
    <3>1. CASE u = t
      BY <1>2, <1>3, <3>1
    <3>2. CASE u # t
      BY <1>2, <1>3, <1>4, <3>2 DEF Pending, LimitFits, LoggerStates
    <3>3. QED
      BY <3>1, <3>2
  <2>2. QED
    BY <1>2, <2>1 DEF LimitFits
<1>5. QED
  BY <1>4 DEF Pending

LEMMA LimitedStep ==
    ASSUME MaxLogged < CounterWords, ElogInv, Limited, Pending, [ElogNext]_elogVars
    PROVE  Limited' /\ Pending'
<1>0. logger \in [Loggers -> LoggerStates]
  BY DEF ElogInv, ElogTypeOK
<1>1. CASE UNCHANGED <<elog, logger, given, trigger>>
  BY <1>1 DEF Limited, After, Underway, LimitOf, Larger, Pending, LimitFits
\* A thread that goes on with an event, but gives it no place yet.
<1>2. ASSUME NEW t \in Loggers, given' = given, trigger' = trigger, elog'.total = elog.total,
             elog'.limit = elog.limit,
             \A u \in Loggers \ {t} : logger'[u] = logger[u],
             logger'[t].pc # "limit",
             \/ logger'[t].pc \notin {"register", "copy", "add"}
             \/ logger[t].pc \in {"register", "copy", "add"}
             \/ elog.total < elog.limit
      PROVE  Limited' /\ Pending'
  <2>1. \/ Underway' \subseteq Underway
        \/ elog.total < elog.limit /\ Underway' = Underway \cup {t}
    BY <1>2 DEF Underway
  <2>2. \A u \in Loggers : logger'[u].pc = "limit" => logger'[u] = logger[u]
    BY <1>2
  <2>3. Limited'
    BY <1>2, <2>1, LimitedKept
  <2>4. Pending'
    BY <1>2, <2>2, PendingKept
  <2>5. QED
    BY <2>3, <2>4
<1>5. ASSUME NEW t \in Loggers, Check(t) PROVE Limited' /\ Pending'
  <2>1. elog.total < elog.limit /\ UNCHANGED <<elog, given, trigger>>
    BY <1>5 DEF Check, Enabled
  <2>2. logger'[t].pc # "limit"
    BY <1>5, CheckKeeps
  <2>3. \A u \in Loggers \ {t} : logger'[u] = logger[u]
    BY <1>0, <1>5 DEF Check
  <2>4. QED
    BY <1>2, <2>1, <2>2, <2>3
<1>6. ASSUME NEW t \in Loggers, Register(t) PROVE Limited' /\ Pending'
  <2>1. /\ UNCHANGED <<given, trigger>> /\ logger[t].pc = "register"
        /\ elog'.total = elog.total /\ elog'.limit = elog.limit
    BY <1>6 DEF Register, At, ElogInv, ElogTypeOK
  <2>2. logger'[t].pc = "copy" /\ \A u \in Loggers \ {t} : logger'[u] = logger[u]
    BY <1>0, <1>6 DEF Register, Goto, LoggerStates
  <2>3. QED
    BY <1>2, <2>1, <2>2
<1>7. ASSUME NEW t \in Loggers, Registered(t) PROVE Limited' /\ Pending'
  <2>1. /\ UNCHANGED <<given, trigger>> /\ logger[t].pc = "copy"
        /\ elog'.total = elog.total /\ elog'.limit = elog.limit
    BY <1>7 DEF Registered, At, ElogInv, ElogTypeOK
  <2>2. logger'[t].pc # "limit"
    BY <1>7, RegisteredKeeps
  <2>3. \A u \in Loggers \ {t} : logger'[u] = logger[u]
    BY <1>0, <1>7 DEF Registered
  <2>4. QED
    BY <1>2, <2>1, <2>2, <2>3
<1>8. ASSUME NEW t \in Loggers, AddEvent(t) PROVE Limited' /\ Pending'
  BY <1>8, AddLimited
<1>9. ASSUME NEW t \in Loggers, Write(t) \/ Data(t) PROVE Limited' /\ Pending'
  <2>1. /\ UNCHANGED <<given, trigger>>
        /\ elog'.total = elog.total /\ elog'.limit = elog.limit
    BY <1>9 DEF Write, Data, ElogInv, ElogTypeOK
  <2>2. logger'[t].pc \in {"data", "idle"} /\ \A u \in Loggers \ {t} : logger'[u] = logger[u]
    <3>1. logger[t] \in LoggerStates
      BY <1>0
    <3>2. CASE Write(t)
      BY <1>0, <3>1, <3>2 DEF Write, LoggerStates
    <3>3. CASE Data(t)
      BY <1>0, <3>3 DEF Data, Idle
    <3>4. QED
      BY <1>9, <3>2, <3>3
  <2>3. QED
    BY <1>2, <2>1, <2>2
<1>10. ASSUME NEW t \in Loggers, Switch(t) PROVE Limited' /\ Pending'
  <2>1. Limited'
    BY <1>10 DEF Switch, NoTrigger, Limited
  <2>2. QED
    BY <1>10, <2>1, SwitchPending
<1>11. ASSUME NEW t \in Loggers, NEW n \in 0 .. RingSize, DisableAfter(t, n) PROVE Limited' /\ Pending'
  <2>1. /\ UNCHANGED <<elog, given, trigger>>
        /\ \E l : l.pc = "limit" /\ logger' = [logger EXCEPT ![t] = l]
    BY <1>11 DEF DisableAfter, Idle
  <2>2. Underway' \subseteq Underway
    BY <1>0, <2>1 DEF Underway
  <2>3. Limited'
    BY <2>1, <2>2, LimitedKept
  <2>4. QED
    BY <1>11, <2>3, DisableAfterPending
<1>12. ASSUME NEW t \in Loggers, SetLimit(t) PROVE Limited' /\ Pending'
  <2>1. /\ given' = given /\ elog'.total = elog.total
        /\ \A u \in Loggers : logger'[u].pc = "limit" => logger'[u] = logger[u]
    BY <1>0, <1>12 DEF SetLimit, Idle, ElogInv, ElogTypeOK
  <2>2. Pending'
    BY <2>1, PendingKept
  <2>3. QED
    BY <1>12, <2>2, SetLimitLimited
<1>13. CASE Peek \/ CopyHalf \/ Peeked
  BY <1>1, <1>13 DEF Peek, CopyHalf, Peeked
<1>14. QED
  BY <1>1, <1>5, <1>6, <1>7, <1>8, <1>9, <1>10, <1>11, <1>12, <1>13 DEF ElogNext, elogVars

LEMMA LimitedKeepsEvent ==
    ASSUME ElogInv, Limited
    PROVE  TriggerEventKept
<1> DEFINE most == Larger(trigger.n, trigger.before)
<1> SUFFICES ASSUME trigger.id # 0, most + Cardinality(Loggers) - 1 < RingSize
             PROVE  \E p \in Places : given.last[p] = trigger.id
  BY DEF TriggerEventKept
<1>0. most \in Nat
  BY Sizes, LargerType DEF Limited, ElogInv, ElogTypeOK
<1>1. /\ elog.total \in Nat /\ given.n \in Nat /\ trigger.n \in Nat /\ trigger.id \in Nat
      /\ Cardinality(Underway) \in Nat /\ Cardinality(Loggers) \in Nat
  BY UnderwayFinite, Sizes DEF ElogInv, ElogTypeOK
<1>2. After \in 0 .. RingSize - 1 /\ After < elog.total
  <2>1. /\ After \in Nat /\ After < elog.total
        /\ After + Cardinality(Underway) <= most + Cardinality(Loggers) - 1
    BY DEF Limited
  <2> HIDE DEF most
  <2>2. QED
    BY <1>0, <1>1, <2>1, Sizes
<1> DEFINE c == elog.total % RingSize
           p == IF After < c THEN c - 1 - After ELSE c - 1 - After + RingSize
<1>3. c \in 0 .. RingSize - 1
  BY <1>1, PlaceType DEF Places
<1>4. p \in Places /\ Since(p) = After
  <2>1. Since(p) = IF p < c THEN c - 1 - p ELSE c - 1 - p + RingSize
    BY DEF Since
  <2> HIDE DEF c
  <2>2. QED
    BY <1>2, <1>3, <2>1, Sizes DEF Places
<1> HIDE DEF p
<1>5. given.last[p] = given.n - After
  BY <1>2, <1>4 DEF ElogInv, Counted
<1>6. QED
  BY <1>1, <1>4, <1>5 DEF After

\* An event that a trigger is to keep stays in the ring as long as the other
\* threads, with the events asked for after it or with those given places while
\* the caller was between reading the counter and writing the limit, are fewer
\* than its places: until the log is switched again, and until the counter of
\* events, which also counts what threads under way add past the limit, begins
\* again at 0.
THEOREM ElogTriggerEventKept ==
    ASSUME MaxLogged < CounterWords
    PROVE  ElogSpec => []TriggerEventKept
<1>1. ElogInit => Limited /\ Pending
  BY DEF ElogInit, NoTrigger, Limited, Pending, Idle
<1>2. ElogInv /\ Limited /\ Pending /\ [ElogNext]_elogVars => Limited' /\ Pending'
  BY LimitedStep
<1>3. ElogInv /\ Limited => TriggerEventKept
  BY LimitedKeepsEvent
<1>4. QED
  BY <1>1, <1>2, <1>3, ElogInvariant, PTL DEF ElogSpec

=============================================================================
