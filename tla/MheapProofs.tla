------------------------------ MODULE MheapProofs ------------------------------
(* The memory allocator, for every size of the heap and of its bins, cache and *)
(* pages, and every set of requests: the boundary tags chain, the free lists   *)
(* hold the free elements, and blocks stay what and where they were given out. *)
EXTENDS Mheap, Numbers, FiniteSetTheorems

-----------------------------------------------------------------------------
(* Bins *)

\* Small sizes have a bin each; larger ones have bins behind all of these.
LEMMA BinsOfSizes ==
    ASSUME NEW n \in Nat
    PROVE  /\ BinOf(n) \in Nat
           /\ BinOf(n) = AtLeast(n, MinData) - MinData \/ BinOf(n) > NSmallBins
           /\ n \in MinData .. MaxSize => BinOf(n) \in Bins
<1> DEFINE small == AtLeast(n, MinData) - MinData
           l == MaxLog2(4 * n)
<1>1. small \in Nat /\ (small > 0 => n = small + 2) BY DEF AtLeast, MinData
<1>2. NSmallBins \in Nat \ {0} /\ Log2NSmallBins \in Nat /\ NSmallBins = Pow2[Log2NSmallBins]
    BY MheapAssumption, Powers
<1>3. 4 * n \in Nat OBVIOUS
<1>4. l \in Nat /\ Pow2[l] >= 4 * n /\ Pow2[l] \in Nat BY <1>3, Log2, Powers
<1>5. BinOf(n) = IF small < NSmallBins THEN small ELSE NSmallBins + l - Log2NSmallBins BY DEF BinOf
<1>6. n \in MinData .. MaxSize => BinOf(n) \in Bins BY DEF Bins
<1> HIDE DEF small, l
<1>7. small >= NSmallBins => l > Log2NSmallBins
    <2> SUFFICES ASSUME small >= NSmallBins, l <= Log2NSmallBins PROVE FALSE BY <1>2, <1>4
    <2>1. Pow2[l] <= NSmallBins BY <1>2, <1>4, PowersGrow
    <2> QED BY <1>1, <1>2, <1>4, <2>1
<1>8. BinOf(n) \in Nat /\ (BinOf(n) = small \/ BinOf(n) > NSmallBins) BY <1>1, <1>2, <1>4, <1>5, <1>7
<1> QED BY <1>6, <1>8 DEF small

LEMMA BinsAreNumbers == Bins \subseteq Nat
<1> SUFFICES ASSUME NEW n \in MinData .. MaxSize PROVE BinOf(n) \in Nat BY DEF Bins
<1>1. n \in Nat BY MheapAssumption DEF MinData
<1> QED BY <1>1, BinsOfSizes

-----------------------------------------------------------------------------
(* Requests, and where blocks are placed for them *)

Asked == {Rounded(r) : r \in Requests}

LEMMA AskedFor ==
    ASSUME NEW r \in Asked
    PROVE  /\ r.n \in Nat /\ r.n >= MinData
           /\ r.align \in Nat \ {0} /\ r.alignOffset \in 0 .. r.align - 1
<1>1. PICK q \in Requests : r = Rounded(q) BY DEF Asked
<1>2. /\ r.n = AtLeast(q.n, MinData) /\ r.align = q.align
      /\ r.alignOffset = q.alignOffset % q.align BY <1>1 DEF Rounded
<1>3. /\ q.n \in Nat \ {0} /\ q.alignOffset \in Nat
      /\ \E k \in 0 .. 20 : q.align = Pow2[k] BY MheapAssumption
<1>4. q.align \in Nat \ {0} BY <1>3, Powers
<1>5. q.alignOffset % q.align \in 0 .. q.align - 1
    <2> DEFINE x == q.alignOffset
               m == q.align
    <2>1. x \in Int /\ m \in Nat \ {0} BY <1>3, <1>4
    <2> HIDE DEF x, m
    <2>2. x % m \in 0 .. m - 1 BY <2>1, DivMod
    <2> QED BY <2>2 DEF x, m
<1> QED BY <1>2, <1>3, <1>4, <1>5 DEF AtLeast, MinData

LEMMA Multiples ==
    ASSUME NEW x \in Int, NEW a \in Nat \ {0}
    PROVE  /\ Floor(x, a) \in Int /\ Floor(x, a) <= x /\ x < Floor(x, a) + a
           /\ \E q \in Int : Floor(x, a) = a * q
<1>1. x \div a \in Int /\ x % a \in 0 .. a - 1 /\ x = a * (x \div a) + (x % a) BY DivMod
<1> DEFINE q == x \div a
           r == x % a
<1>2. Floor(x, a) = x - r BY DEF Floor
<1>3. q \in Int /\ r \in 0 .. a - 1 /\ x = a * q + r BY <1>1
<1> HIDE DEF q, r
<1> QED BY <1>2, <1>3

LEMMA MultiplesAbove ==
    ASSUME NEW x \in Int, NEW a \in Nat \ {0}
    PROVE  /\ RoundUp(x, a) \in Int /\ x <= RoundUp(x, a) /\ RoundUp(x, a) < x + a
           /\ \E q \in Int : RoundUp(x, a) = a * q
<1> DEFINE y == x + a - 1
<1>1. y \in Int OBVIOUS
<1>2. RoundUp(x, a) = Floor(y, a) BY DEF RoundUp
<1> HIDE DEF y
<1>3. /\ Floor(y, a) \in Int /\ Floor(y, a) <= y /\ y < Floor(y, a) + a
      /\ \E q \in Int : Floor(y, a) = a * q BY <1>1, Multiples
<1> QED BY <1>2, <1>3 DEF y

\* Rounding, for numbers that are multiples already.
LEMMA Rounding ==
    ASSUME NEW m \in Nat \ {0}, NEW x \in Int, NEW p \in Int
    PROVE  /\ RoundUp(x, m) <= m * p <=> x <= m * p
           /\ m * p <= Floor(x, m) <=> m * p <= x
           /\ m * (p + 1) <= RoundUp(x, m) <=> m * p < x
           /\ Floor(x, m) <= m * p <=> x < m * (p + 1)
           /\ RoundUp(x, m) \in Int /\ Floor(x, m) \in Int
<1>1. ASSUME NEW y \in Int
      PROVE  \E q \in Int : Floor(y, m) = m * q /\ m * q <= y /\ y < m * q + m
    <2> DEFINE q == y \div m
               s == y % m
    <2>1. q \in Int /\ s \in 0 .. m - 1 /\ y = m * q + s BY DivMod
    <2>2. Floor(y, m) = y - s BY DEF Floor
    <2> HIDE DEF q, s
    <2>3. m * q \in Int BY <2>1
    <2> QED BY <2>1, <2>2, <2>3
<1>2. PICK q \in Int : Floor(x, m) = m * q /\ m * q <= x /\ x < m * q + m BY <1>1
<1>3. x + m - 1 \in Int /\ RoundUp(x, m) = Floor(x + m - 1, m) BY DEF RoundUp
<1>4. PICK u \in Int : RoundUp(x, m) = m * u /\ m * u <= x + m - 1 /\ x + m - 1 < m * u + m
    BY <1>1, <1>3
<1> DEFINE P == m * p
           Q == m * q
           U == m * u
<1>5. P \in Int /\ Q \in Int /\ U \in Int /\ m * (p + 1) = P + m BY Monotone
<1>6. (p <= q <=> P <= Q) /\ (q <= p <=> Q <= P) /\ (u <= p <=> U <= P) /\ (p < u <=> P + m <= U)
      /\ (p < q <=> P + m <= Q) /\ (q < p <=> Q + m <= P) /\ (u < p <=> U + m <= P) BY Monotone
<1> HIDE DEF P, Q, U
<1>7. (U <= P <=> x <= P) /\ (P <= Q <=> P <= x) /\ (P + m <= U <=> P < x) /\ (Q <= P <=> x < P + m)
    <2>1. Q <= x /\ x < Q + m /\ U <= x + m - 1 /\ x + m - 1 < U + m BY <1>2, <1>4 DEF Q, U
    <2> QED BY <2>1, <1>5, <1>6
<1> QED BY <1>2, <1>4, <1>5, <1>7 DEF P, Q, U

\* What is a multiple of a from a multiple of a is one.
LEMMA SameRemainder ==
    ASSUME NEW a \in Nat \ {0}, NEW x \in Int, NEW o \in Int, NEW c \in Int,
           NEW q \in Int, x + c = a * q, (x - o) % a = 0
    PROVE  (o + c) % a = 0
<1> DEFINE d == x - o
           p == d \div a
<1>1. d \in Int OBVIOUS
<1>2. d % a = 0 OBVIOUS
<1> HIDE DEF d
<1>3. p \in Int /\ d = a * p + (d % a) BY <1>1, DivMod
<1>4. d = a * p BY <1>1, <1>2, <1>3
<1> HIDE DEF p
<1>5. a * p = x - o BY <1>4 DEF d
<1>6. a * (q - p) = a * q - a * p BY <1>3
<1>7. o + c = a * (q - p) + 0 BY <1>5, <1>6
<1>8. o + c \in Int /\ q - p \in Int /\ 0 \in 0 .. a - 1 BY <1>3
<1> HIDE DEF p
<1> QED BY <1>7, <1>8, DivModIs

LEMMA DifferByMultiple ==
    ASSUME NEW a \in Nat \ {0}, NEW q \in Int
    PROVE  (a * q) % a = 0
<1>1. a * q \in Int /\ a * q = a * q + 0 /\ 0 \in 0 .. a - 1 OBVIOUS
<1> QED BY <1>1, DivModIs

\* The code's search for a place ends, aligned, with no fragment below the
\* block that is too small to be free, and little above it.
LEMMA PlaceIs ==
    ASSUME NEW r \in Asked, NEW f0 \in Int, NEW f1 \in Int
    PROVE  LET o == Place(f0, f1, r) IN
           /\ o \in Int /\ (o + r.alignOffset) % r.align = 0
           /\ o <= f0 \/ o - f0 - Overhead >= MinData
           /\ o >= f0 => f1 - r.n - o <= 2 * r.align + 1
<1> DEFINE n == r.n
           a == r.align
           c == r.alignOffset
           top == Floor(f1 - n, a) - c
           low == IF top >= f0 THEN top ELSE top + RoundUp(f0 - top, a)
           S == {o \in low - (a + Overhead + MinData) .. low :
                    /\ (low - o) % a = 0
                    /\ o <= f0 \/ o - f0 - Overhead >= MinData}
<1>1. n \in Nat /\ a \in Nat \ {0} /\ c \in 0 .. a - 1 BY AskedFor
<1>2. Place(f0, f1, r) = Max(S) BY DEF Place
<1>3. r.align = a /\ r.alignOffset = c /\ r.n = n OBVIOUS
<1> HIDE DEF n, a, c
<1>4. top \in Int /\ f1 - n - top <= 2 * a - 2 /\ \E q \in Int : top + c = a * q
    <2> DEFINE x == f1 - n
    <2>1. x \in Int BY <1>1
    <2> HIDE DEF x
    <2>2. Floor(x, a) \in Int /\ x < Floor(x, a) + a /\ \E q \in Int : Floor(x, a) = a * q
        BY <2>1, <1>1, Multiples
    <2>3. top = Floor(x, a) - c BY DEF x
    <2> HIDE DEF top
    <2>4. PICK q \in Int : Floor(x, a) = a * q BY <2>2
    <2>5. top + c = a * q /\ top \in Int /\ x - top <= 2 * a - 2 BY <2>1, <2>2, <2>3, <2>4, <1>1
    <2> QED BY <2>5 DEF x
<1> HIDE DEF top
<1>5. low \in Int /\ low >= top /\ \E q \in Int : low + c = a * q
    <2>1. CASE top >= f0 BY <2>1, <1>4
    <2>2. CASE ~ (top >= f0)
        <3> DEFINE x == f0 - top
                   y == RoundUp(x, a)
        <3>1. x \in Int BY <1>4
        <3>2. low = top + y BY <2>2
        <3> HIDE DEF x
        <3>3. y \in Int /\ x <= y /\ \E q \in Int : y = a * q BY <3>1, <1>1, MultiplesAbove
        <3>8. x >= 0 BY <2>2, <1>4 DEF x
        <3> HIDE DEF y, low
        <3>4. PICK p \in Int : top + c = a * p BY <1>4
        <3>5. PICK q \in Int : y = a * q BY <3>3
        <3>6. a * (p + q) = a * p + a * q /\ p + q \in Int BY <1>1
        <3>7. low + c = a * (p + q) BY <3>2, <3>3, <3>4, <3>5, <3>6, <1>1, <1>4
        <3> QED BY <3>1, <3>2, <3>3, <3>6, <3>7, <3>8, <1>4
    <2> QED BY <2>1, <2>2
<1> HIDE DEF low
<1>6. S # {}
    <2>1. CASE low <= f0 \/ low - f0 - Overhead >= MinData
        <3>1. low - low = a * 0 /\ (a * 0) % a = 0 BY <1>1, <1>5, DifferByMultiple
        <3>2. low \in low - (a + Overhead + MinData) .. low BY <1>1, <1>5 DEF Overhead, MinData
        <3> QED BY <2>1, <3>1, <3>2
    <2>2. CASE ~ (low <= f0 \/ low - f0 - Overhead >= MinData)
        <3> DEFINE x == low - f0
                   y == RoundUp(x, a)
                   o == low - y
        <3>1. x \in Int /\ x >= 1 /\ x < 4 BY <2>2, <1>5 DEF Overhead, MinData
        <3>2. x = low - f0 OBVIOUS
        <3> HIDE DEF x
        <3>3. y \in Int /\ x <= y /\ y < x + a /\ \E q \in Int : y = a * q BY <3>1, <1>1, MultiplesAbove
        <3>4. y % a = 0 BY <3>3, <1>1, DifferByMultiple
        <3> HIDE DEF y
        <3>5. o \in Int /\ low - o = y /\ o <= f0 BY <3>2, <3>3, <1>5
        <3>6. o \in low - (a + Overhead + MinData) .. low
            BY <3>1, <3>2, <3>3, <1>1, <1>5 DEF Overhead, MinData
        <3>7. (low - o) % a = 0 BY <3>4, <3>5
        <3> HIDE DEF o
        <3>8. o \in S BY <3>5, <3>6, <3>7
        <3> QED BY <3>8
    <2> QED BY <2>1, <2>2
<1>7. S \subseteq Int /\ \A o \in S : o <= low BY <1>1, <1>5 DEF Overhead, MinData
<1>8. Max(S) \in S /\ \A y \in S : y <= Max(S)
    <2> HIDE DEF S
    <2> QED BY <1>5, <1>6, <1>7, GreatestBelow
<1> DEFINE o == Max(S)
<1>9. o \in Int /\ (low - o) % a = 0 /\ (o <= f0 \/ o - f0 - Overhead >= MinData) BY <1>7, <1>8
<1>12. o >= f0 => f1 - n - o <= 2 * a + 1
    <2>1. o >= low \/ ~ (low <= f0 \/ low - f0 - Overhead >= MinData)
        <3> SUFFICES ASSUME low <= f0 \/ low - f0 - Overhead >= MinData PROVE o >= low OBVIOUS
        <3>1. low - low = a * 0 /\ (a * 0) % a = 0 BY <1>1, <1>5, DifferByMultiple
        <3>2. low \in low - (a + Overhead + MinData) .. low BY <1>1, <1>5 DEF Overhead, MinData
        <3>3. low \in S BY <3>1, <3>2
        <3> QED BY <3>3, <1>8
    <2>2. n \in Int /\ low \in Int /\ top \in Int /\ o \in Int /\ low >= top /\ a \in Int
          /\ f1 - n - top <= 2 * a - 2 BY <1>1, <1>4, <1>5, <1>9
    <2> HIDE DEF o
    <2> QED BY <2>1, <2>2 DEF Overhead, MinData
<1> HIDE DEF o, S
<1>10. (o + c) % a = 0
    <2>1. PICK q \in Int : low + c = a * q BY <1>5
    <2>2. c \in Int /\ low \in Int BY <1>1, <1>5
    <2>3. o \in Int /\ (low - o) % a = 0 /\ a \in Nat \ {0} BY <1>1, <1>9
    <2>4. \A x, y, z, p \in Int : x + z = a * p /\ (x - y) % a = 0 => (y + z) % a = 0
        BY <1>1, SameRemainder
    <2> QED BY <2>1, <2>2, <2>3, <2>4
<1>11. Place(f0, f1, r) = o BY <1>2 DEF o
<1> QED BY <1>3, <1>9, <1>10, <1>11, <1>12

\* And so does the one for a place behind the last element.
LEMMA ExtendAtIs ==
    ASSUME NEW r \in Asked, NEW m, m.len \in Int
    PROVE  LET o == ExtendAt(m, r) IN
           /\ o \in Int /\ (o + r.alignOffset) % r.align = 0
           /\ o = m.len \/ o - m.len - Overhead >= EltWords
<1> DEFINE len == m.len
           a == r.align
           c == r.alignOffset
           low == RoundUp(len, a) - c
           S == {o \in low .. low + 2 * (a + EltWords + Overhead) :
                    /\ (o - low) % a = 0
                    /\ o = len \/ o - len - Overhead >= EltWords}
<1>1. len \in Int /\ a \in Nat \ {0} /\ c \in 0 .. a - 1 BY AskedFor
<1>2. ExtendAt(m, r) = Min(S) BY DEF ExtendAt
<1>3. r.align = a /\ r.alignOffset = c /\ m.len = len OBVIOUS
<1> HIDE DEF len, a, c
<1>4. low \in Int /\ len - a < low /\ \E q \in Int : low + c = a * q
    <2>1. /\ RoundUp(len, a) \in Int /\ len <= RoundUp(len, a)
          /\ \E q \in Int : RoundUp(len, a) = a * q BY <1>1, MultiplesAbove
    <2> QED BY <2>1, <1>1
<1> HIDE DEF low
<1>5. S # {}
    <2>1. CASE low - len - Overhead >= EltWords
        <3>1. low - low = a * 0 /\ (a * 0) % a = 0 BY <1>1, <1>4, DifferByMultiple
        <3>2. low \in low .. low + 2 * (a + EltWords + Overhead) BY <1>1, <1>4 DEF Overhead, EltWords
        <3> QED BY <2>1, <3>1, <3>2
    <2>2. CASE ~ (low - len - Overhead >= EltWords)
        <3> DEFINE x == len + Overhead + EltWords - low
                   y == RoundUp(x, a)
                   o == low + y
        <3>1. x \in Int /\ x >= 1 /\ x < a + Overhead + EltWords BY <2>2, <1>1, <1>4 DEF Overhead, EltWords
        <3>2. x = len + Overhead + EltWords - low OBVIOUS
        <3> HIDE DEF x
        <3>3. y \in Int /\ x <= y /\ y < x + a /\ \E q \in Int : y = a * q BY <3>1, <1>1, MultiplesAbove
        <3>4. y % a = 0 BY <3>3, <1>1, DifferByMultiple
        <3> HIDE DEF y
        <3>5. o \in Int /\ o - low = y /\ o - len - Overhead >= EltWords
            BY <3>2, <3>3, <1>1, <1>4 DEF Overhead, EltWords
        <3>6. o \in low .. low + 2 * (a + EltWords + Overhead)
            BY <3>1, <3>2, <3>3, <1>1, <1>4 DEF Overhead, EltWords
        <3>7. (o - low) % a = 0 BY <3>4, <3>5
        <3> HIDE DEF o
        <3>8. o \in S BY <3>5, <3>6, <3>7
        <3> QED BY <3>8
    <2> QED BY <2>1, <2>2
<1>6. S \subseteq Int /\ \A o \in S : low <= o BY <1>1, <1>4 DEF Overhead, EltWords
<1>7. Min(S) \in S
    <2> HIDE DEF S
    <2> QED BY <1>4, <1>5, <1>6, LeastAbove
<1> DEFINE o == Min(S)
<1>8. o \in Int /\ (o - low) % a = 0 /\ (o = len \/ o - len - Overhead >= EltWords) BY <1>6, <1>7
<1> HIDE DEF o, S
<1>9. (low - o) % a = 0
    <2> DEFINE d == o - low
               p == d \div a
    <2>1. d \in Int /\ d % a = 0 BY <1>4, <1>8
    <2> HIDE DEF d
    <2>2. p \in Int /\ d = a * p + (d % a) BY <2>1, <1>1, DivMod
    <2>3. d = a * p BY <2>1, <2>2, <1>1
    <2> HIDE DEF p
    <2>4. a * (0 - p) = 0 - a * p /\ 0 - p \in Int BY <2>2, <1>1
    <2>5. low - o = a * (0 - p) BY <2>3, <2>4, <2>1, <1>4, <1>8 DEF d
    <2> QED BY <2>4, <2>5, <1>1, DifferByMultiple
<1>10. (o + c) % a = 0
    <2>1. PICK q \in Int : low + c = a * q BY <1>4
    <2>2. c \in Int /\ low \in Int BY <1>1, <1>4
    <2> QED BY <2>1, <2>2, <1>1, <1>4, <1>8, <1>9, SameRemainder
<1>11. ExtendAt(m, r) = o BY <1>2 DEF o
<1> QED BY <1>3, <1>8, <1>10, <1>11

-----------------------------------------------------------------------------
(* The chain of elements.  Elements is the set of what a walk from the start  *)
(* of the heap finds; the invariant speaks of the set only: E has the start,  *)
(* the end marker at len, and with every element the next, and none between.  *)

Tags == [prevN : 0 .. Invalid, prevFree : BOOLEAN, n : 0 .. Invalid, free : BOOLEAN]

After(t, o) == o + t[o].n + Overhead

Chain(t, len, E) ==
    /\ E \subseteq FirstElt .. len /\ FirstElt \in E /\ len \in E
    /\ t[FirstElt].prevN = Invalid /\ ~ t[FirstElt].prevFree
    /\ len > FirstElt => t[len].n = Invalid
    /\ \A o \in E \ {len} :
           /\ t[o].n >= MinData /\ After(t, o) \in E
           /\ \A x \in E : x <= o \/ x >= After(t, o)
           /\ t[After(t, o)].prevN = t[o].n /\ t[After(t, o)].prevFree = t[o].free

\* A heap that has a chain with the elements E.
Chained(m, E) ==
    /\ m.len \in FirstElt .. MaxSize /\ m.tag \in [Offsets -> Tags]
    /\ Chain(m.tag, m.len, E)

LEMMA Sizes ==
    /\ MaxSize \in Nat /\ MaxSize >= 2 /\ Invalid = MaxSize + 1
    /\ FirstElt = 2 /\ Overhead = 2 /\ MinData = 2 /\ EltWords = 4 /\ Nil = 0
    /\ Offsets = 2 .. MaxSize /\ FirstElt \in Offsets
BY MheapAssumption DEF Overhead, FirstElt, MinData, EltWords, Invalid, Offsets, Nil

\* What is known of every element.
LEMMA ChainedAt ==
    ASSUME NEW m, NEW E, Chained(m, E), NEW o \in E
    PROVE  /\ o \in Offsets /\ o \in Int /\ o >= 2 /\ o <= m.len /\ m.len \in Int /\ m.len <= MaxSize
           /\ m.tag[o] \in Tags /\ m.tag[o].n \in Nat /\ m.tag[o].prevN \in Nat
           /\ m.tag[o].free \in BOOLEAN /\ m.tag[o].prevFree \in BOOLEAN
           /\ o # m.len => /\ o < m.len /\ NextElt(m, o) = After(m.tag, o)
                           /\ After(m.tag, o) \in Int /\ After(m.tag, o) >= o + 4
                           /\ After(m.tag, o) <= m.len /\ m.tag[o].n <= MaxSize
<1>1. o \in 2 .. m.len /\ m.len \in 2 .. MaxSize BY Sizes DEF Chained, Chain
<1>2. o \in Offsets /\ m.tag[o] \in Tags BY <1>1, Sizes DEF Chained
<1>3. /\ m.tag[o].n \in 0 .. Invalid /\ m.tag[o].prevN \in 0 .. Invalid
      /\ m.tag[o].free \in BOOLEAN /\ m.tag[o].prevFree \in BOOLEAN BY <1>2 DEF Tags
<1>4. ASSUME o # m.len
      PROVE  /\ o < m.len /\ NextElt(m, o) = After(m.tag, o)
             /\ After(m.tag, o) \in Int /\ After(m.tag, o) >= o + 4
             /\ After(m.tag, o) <= m.len /\ m.tag[o].n <= MaxSize
    <2>1. m.tag[o].n >= 2 /\ After(m.tag, o) \in E BY <1>4, Sizes DEF Chained, Chain
    <2>2. After(m.tag, o) = o + m.tag[o].n + 2 BY Sizes DEF After
    <2>3. After(m.tag, o) \in 2 .. m.len BY <2>1, Sizes DEF Chained, Chain
    <2>4. NextElt(m, o) = After(m.tag, o) BY DEF NextElt, After
    <2> QED BY <1>1, <1>3, <1>4, <2>1, <2>2, <2>3, <2>4, Sizes
<1> QED BY <1>1, <1>2, <1>3, <1>4, Sizes

\* The walk finds exactly the elements: it moves on by at least the smallest
\* element, and so is at the end when it stops.
LEMMA ElementsAre ==
    ASSUME NEW m, NEW E, Chained(m, E)
    PROVE  Elements(m) = E
<1> DEFINE K == MaxSize \div EltWords
           step == [x \in E |-> IF x >= m.len THEN x ELSE NextElt(m, x)]
<1>1. K \in Nat /\ 4 * K >= MaxSize - 3 BY Sizes
<1>2. step \in [E -> E] /\ FirstElt \in E
    <2>1. ASSUME NEW x \in E, ~ (x >= m.len) PROVE NextElt(m, x) \in E
        <3>1. x \in E \ {m.len} /\ NextElt(m, x) = After(m.tag, x) BY <2>1, ChainedAt
        <3> QED BY <3>1 DEF Chained, Chain
    <2> QED BY <2>1 DEF Chained, Chain
<1>3. \A x \in E : step[x] = IF x >= m.len THEN x ELSE NextElt(m, x) OBVIOUS
<1>4. K = MaxSize \div EltWords OBVIOUS
<1> HIDE DEF K, step
<1>5. PICK f : Stepped(f, E, FirstElt, step, K) BY <1>1, <1>2, StepsUpTo
<1>6. f \in [0 .. K -> E] /\ f[0] = FirstElt /\ \A k \in 1 .. K : f[k] = step[f[k - 1]]
    BY <1>5 DEF Stepped
<1>7. \A k \in 1 .. K : /\ k \in 0 .. K /\ k - 1 \in 0 .. K /\ f[k - 1] \in E
                        /\ f[k] = IF f[k - 1] >= m.len THEN f[k - 1] ELSE NextElt(m, f[k - 1])
    BY <1>1, <1>3, <1>6
<1> DEFINE Is(at) == at = [k \in 0 .. K |-> IF k = 0 THEN FirstElt
                                            ELSE IF at[k - 1] >= m.len THEN at[k - 1]
                                            ELSE NextElt(m, at[k - 1])]
<1>8. Is(f)
    <2>1. \A k \in 0 .. K : f[k] = IF k = 0 THEN FirstElt
                                   ELSE IF f[k - 1] >= m.len THEN f[k - 1]
                                   ELSE NextElt(m, f[k - 1])
        <3> TAKE k \in 0 .. K
        <3>1. CASE k = 0 BY <3>1, <1>6
        <3>2. CASE k # 0
            <4>1. k \in 1 .. K BY <1>1, <3>2
            <4> QED BY <3>2, <4>1, <1>7
        <3> QED BY <3>1, <3>2
    <2> QED BY <1>6, <2>1
<1>9. Walk(m) = CHOOSE at : Is(at) BY <1>4, Zenon DEF Walk
<1>10. Is(Walk(m)) BY <1>8, <1>9, Zenon
<1> DEFINE w == Walk(m)
<1>11. /\ DOMAIN w = 0 .. K
       /\ \A k \in 0 .. K : w[k] = IF k = 0 THEN FirstElt
                                   ELSE IF w[k - 1] >= m.len THEN w[k - 1]
                                   ELSE NextElt(m, w[k - 1])
    BY <1>10, Zenon
<1>12. Elements(m) = {w[k] : k \in DOMAIN w}
    <2>1. m.len # 0 BY Sizes DEF Chained
    <2> QED BY <2>1 DEF Elements
<1> HIDE DEF w, Is
<1>13. \A k \in 0 .. K : w[k] = f[k]
    <2> DEFINE P == {k \in 0 .. K : w[k] = f[k]}
    <2>1. 0 \in P BY <1>1, <1>6, <1>11
    <2>2. \A k \in 1 .. K : k - 1 \in P => k \in P BY <1>1, <1>7, <1>11
    <2> HIDE DEF P
    <2>3. 0 .. K \subseteq P BY <1>1, <2>1, <2>2, AllNumbersUpTo
    <2> QED BY <2>3 DEF P
<1>14. \A k \in 0 .. K : f[k] \in E /\ f[k] \in Int /\ f[k] <= m.len /\ m.len \in Int BY <1>6, ChainedAt
<1>15. \A k \in 0 .. K : f[k] >= m.len \/ f[k] >= 2 + 4 * k
    <2> DEFINE P == {k \in 0 .. K : f[k] >= m.len \/ f[k] >= 2 + 4 * k}
    <2>1. 0 \in P BY <1>1, <1>6, Sizes
    <2>2. \A k \in 1 .. K : k - 1 \in P => k \in P
        <3> SUFFICES ASSUME NEW k \in 1 .. K, k - 1 \in P PROVE k \in P OBVIOUS
        <3>1. f[k - 1] >= m.len \/ f[k - 1] >= 2 + 4 * (k - 1) OBVIOUS
        <3>2. CASE f[k - 1] >= m.len BY <3>2, <1>7
        <3>3. CASE ~ (f[k - 1] >= m.len)
            <4>1. /\ k - 1 \in 0 .. K /\ k \in 0 .. K /\ f[k - 1] \in E
                  /\ f[k] = NextElt(m, f[k - 1]) BY <3>3, <1>7
            <4>2. f[k - 1] \in Int /\ f[k] \in Int BY <4>1, <1>14
            <4>3. f[k] >= f[k - 1] + 4
                <5> DEFINE x == f[k - 1]
                <5>1. x \in E /\ x # m.len BY <3>3, <4>1, <1>14
                <5> HIDE DEF x
                <5>2. After(m.tag, x) >= x + 4 /\ NextElt(m, x) = After(m.tag, x) BY <5>1, ChainedAt
                <5> QED BY <4>1, <5>2 DEF x
            <4>4. f[k] >= 2 + 4 * k BY <3>1, <3>3, <4>2, <4>3
            <4> QED BY <4>1, <4>4
        <3> QED BY <3>2, <3>3
    <2> HIDE DEF P
    <2>3. 0 .. K \subseteq P BY <1>1, <2>1, <2>2, AllNumbersUpTo
    <2> QED BY <2>3 DEF P
<1>16. f[K] = m.len
    <2>1. K \in 0 .. K BY <1>1
    <2>2. /\ f[K] \in E /\ f[K] \in Int /\ f[K] <= m.len /\ m.len \in Int
          /\ f[K] >= m.len \/ f[K] >= 2 + 4 * K BY <2>1, <1>14, <1>15
    <2>3. m.len <= MaxSize BY Sizes DEF Chained
    <2>4. f[K] >= m.len - 1 BY <1>1, <2>2, <2>3, Sizes
    <2>5. ASSUME f[K] # m.len PROVE FALSE
        <3> DEFINE x == f[K]
        <3>1. x \in E /\ x # m.len /\ x >= m.len - 1 BY <2>2, <2>4, <2>5
        <3> HIDE DEF x
        <3>2. After(m.tag, x) >= x + 4 /\ After(m.tag, x) <= m.len /\ After(m.tag, x) \in Int /\ x \in Int
            BY <3>1, ChainedAt
        <3> QED BY <2>2, <3>1, <3>2
    <2> QED BY <2>5
<1>17. ASSUME NEW x \in E PROVE \E k \in 0 .. K : f[k] = x
    <2> DEFINE S == {k \in 0 .. K : f[k] >= x}
               k == Min(S)
    <2>1. x \in Int /\ x >= 2 /\ x <= m.len BY ChainedAt
    <2>2. S # {} /\ S \subseteq Nat
        <3>1. K \in 0 .. K /\ f[K] >= x BY <1>1, <1>16, <2>1
        <3> QED BY <3>1
    <2>3. k \in S /\ \A y \in S : k <= y
        <3> HIDE DEF S
        <3> QED BY <2>2, MinIsLeast
    <2> HIDE DEF k
    <2>4. k \in 0 .. K /\ f[k] >= x BY <2>3
    <2>5. CASE k = 0 BY <2>1, <2>4, <2>5, <1>6, Sizes DEF Chained, Chain
    <2>6. CASE k # 0
        <3>1. k \in 1 .. K /\ k - 1 \in 0 .. K /\ k - 1 \notin S BY <1>1, <2>3, <2>4, <2>6
        <3>2. f[k - 1] < x /\ f[k - 1] \in E BY <3>1, <1>14, <2>1
        <3> DEFINE y == f[k - 1]
        <3>3. y \in E /\ y < x /\ y # m.len /\ ~ (y >= m.len) BY <3>1, <3>2, <1>14, <2>1
        <3>4. f[k] = NextElt(m, y) BY <3>1, <3>3, <1>7
        <3> HIDE DEF y
        <3>5. NextElt(m, y) = After(m.tag, y) /\ y \in Int /\ After(m.tag, y) \in Int BY <3>3, ChainedAt
        <3>6. x >= After(m.tag, y) BY <3>3, <3>5, <2>1 DEF Chained, Chain
        <3> QED BY <3>4, <3>5, <3>6, <2>1, <2>4
    <2> QED BY <2>5, <2>6
<1>18. Elements(m) = {f[k] : k \in 0 .. K} BY <1>11, <1>12, <1>13
<1> QED BY <1>14, <1>17, <1>18

-----------------------------------------------------------------------------
(* Free lists.  The invariant is about neighbours: F is the set of elements    *)
(* on lists, each linked with its neighbours both ways, and links lead upwards *)
(* in some numbering, so that no list runs in a circle.                        *)

LinkPairs == [next : Offsets \cup {Nil}, prev : Offsets \cup {Nil}]

Heaps == [len : 0 .. MaxSize, tag : [Offsets -> Tags], link : [Offsets -> LinkPairs],
          first : [Bins -> Offsets \cup {Nil}], mapped : SUBSET (0 .. MaxSize)]

Bin(m, o) == BinOf(m.tag[o].n)

Neighbours(m, F, o) ==
    LET next == m.link[o].next
        prev == m.link[o].prev
    IN  /\ Bin(m, o) \in Bins
        /\ next # Nil => next \in F /\ Bin(m, next) = Bin(m, o) /\ m.link[next].prev = o
        /\ prev # Nil => prev \in F /\ Bin(m, prev) = Bin(m, o) /\ m.link[prev].next = o
        /\ prev = Nil => m.first[Bin(m, o)] = o

FirstOf(m, F, b) ==
    m.first[b] # Nil => /\ m.first[b] \in F /\ Bin(m, m.first[b]) = b
                        /\ m.link[m.first[b]].prev = Nil

Upwards(m, F, pos) == \A o \in F : m.link[o].next # Nil => pos[o] < pos[m.link[o].next]

Lists(m, F) ==
    /\ m \in Heaps /\ F \subseteq Offsets
    /\ \A o \in F : Neighbours(m, F, o)
    /\ \A b \in Bins : FirstOf(m, F, b)
    /\ \E pos \in [Offsets -> Nat] : Upwards(m, F, pos)

LEMMA NilIsNone == Nil \notin Offsets
BY Sizes

\* The lists are the same when the elements on them are.
LEMMA ListsSame ==
    ASSUME NEW m, NEW F, Lists(m, F), NEW h \in Heaps, h.first = m.first,
           \A o \in F : h.link[o] = m.link[o] /\ h.tag[o].n = m.tag[o].n
    PROVE  Lists(h, F)
<1>1. \A o \in F : Bin(h, o) = Bin(m, o) BY DEF Bin
<1>2. ASSUME NEW o \in F PROVE Neighbours(h, F, o)
    <2>1. Neighbours(m, F, o) BY DEF Lists
    <2> QED BY <2>1, <1>1 DEF Neighbours
<1>3. ASSUME NEW b \in Bins PROVE FirstOf(h, F, b)
    <2>1. FirstOf(m, F, b) BY DEF Lists
    <2> QED BY <2>1, <1>1 DEF FirstOf
<1>4. PICK pos \in [Offsets -> Nat] : Upwards(m, F, pos) BY DEF Lists
<1>5. Upwards(h, F, pos) BY <1>4 DEF Upwards
<1> QED BY <1>2, <1>3, <1>5 DEF Lists

\* remove_free_elt, link by link.
LEMMA RemoveFreeIs ==
    ASSUME NEW m \in Heaps, NEW o \in Offsets, NEW b \in Bins
    PROVE  LET h == RemoveFree(m, o, b)
               l == m.link[o]
           IN  /\ h \in Heaps /\ h.len = m.len /\ h.tag = m.tag
               /\ \A x \in Offsets : h.link[x].next = IF l.prev # Nil /\ x = l.prev THEN l.next
                                                      ELSE m.link[x].next
               /\ \A x \in Offsets : h.link[x].prev = IF l.next # Nil /\ x = l.next THEN l.prev
                                                      ELSE m.link[x].prev
               /\ \A c \in Bins : h.first[c] = IF l.prev = Nil /\ c = b THEN l.next ELSE m.first[c]
<1> DEFINE l  == m.link[o]
           m1 == IF l.prev = Nil THEN [m EXCEPT !.first[b] = l.next]
                 ELSE [m EXCEPT !.link[l.prev].next = l.next]
           h  == IF l.next = Nil THEN m1 ELSE [m1 EXCEPT !.link[l.next].prev = l.prev]
<1>1. RemoveFree(m, o, b) = h BY DEF RemoveFree
<1>2. l \in LinkPairs /\ l.next \in Offsets \cup {Nil} /\ l.prev \in Offsets \cup {Nil}
    BY DEF Heaps, LinkPairs
<1>3. m.link[o] = l OBVIOUS
<1>4. m.link \in [Offsets -> LinkPairs] /\ m.first \in [Bins -> Offsets \cup {Nil}] BY DEF Heaps
<1> HIDE DEF l
<1>5. /\ m1 \in Heaps /\ m1.len = m.len /\ m1.tag = m.tag
      /\ \A x \in Offsets : /\ m1.link[x].next = IF l.prev # Nil /\ x = l.prev THEN l.next
                                                 ELSE m.link[x].next
                            /\ m1.link[x].prev = m.link[x].prev
      /\ \A c \in Bins : m1.first[c] = IF l.prev = Nil /\ c = b THEN l.next ELSE m.first[c]
    <2>1. CASE l.prev = Nil
        <3>1. [m.first EXCEPT ![b] = l.next] \in [Bins -> Offsets \cup {Nil}] BY <1>2, <1>4
        <3>2. m1 = [m EXCEPT !.first = [m.first EXCEPT ![b] = l.next]] BY <2>1
        <3> HIDE DEF m1
        <3>3. /\ m1 \in Heaps /\ m1.len = m.len /\ m1.tag = m.tag /\ m1.link = m.link
              /\ m1.first = [m.first EXCEPT ![b] = l.next] BY <3>1, <3>2 DEF Heaps
        <3> QED BY <2>1, <3>3, <1>4
    <2>2. CASE l.prev # Nil
        <3>1. l.prev \in Offsets BY <2>2, <1>2
        <3> DEFINE n == [m.link[l.prev] EXCEPT !.next = l.next]
                   k == [m.link EXCEPT ![l.prev] = n]
        <3>2. /\ n \in LinkPairs /\ n.next = l.next /\ n.prev = m.link[l.prev].prev
            BY <3>1, <1>2, <1>4 DEF LinkPairs
        <3>3. m1 = [m EXCEPT !.link = k] BY <2>2
        <3> HIDE DEF n
        <3>4. /\ k \in [Offsets -> LinkPairs]
              /\ \A x \in Offsets : k[x] = IF x = l.prev THEN n ELSE m.link[x] BY <3>1, <3>2, <1>4
        <3> HIDE DEF k, m1
        <3>5. /\ m1 \in Heaps /\ m1.len = m.len /\ m1.tag = m.tag /\ m1.link = k
              /\ m1.first = m.first BY <3>3, <3>4 DEF Heaps
        <3> QED BY <2>2, <3>2, <3>4, <3>5
    <2> QED BY <2>1, <2>2
<1>6. h = IF l.next = Nil THEN m1 ELSE [m1 EXCEPT !.link[l.next].prev = l.prev] OBVIOUS
<1> HIDE DEF m1, h
<1>7. /\ h \in Heaps /\ h.len = m1.len /\ h.tag = m1.tag /\ h.first = m1.first
      /\ \A x \in Offsets : /\ h.link[x].prev = IF l.next # Nil /\ x = l.next THEN l.prev
                                                ELSE m1.link[x].prev
                            /\ h.link[x].next = m1.link[x].next
    <2>1. CASE l.next = Nil BY <2>1, <1>5, <1>6
    <2>2. CASE l.next # Nil
        <3>1. l.next \in Offsets BY <2>2, <1>2
        <3>2. m1.link \in [Offsets -> LinkPairs] BY <1>5 DEF Heaps
        <3> DEFINE n == [m1.link[l.next] EXCEPT !.prev = l.prev]
                   k == [m1.link EXCEPT ![l.next] = n]
        <3>3. /\ n \in LinkPairs /\ n.prev = l.prev /\ n.next = m1.link[l.next].next
            BY <3>1, <1>2, <3>2 DEF LinkPairs
        <3>4. h = [m1 EXCEPT !.link = k] BY <2>2, <1>6
        <3> HIDE DEF n
        <3>5. /\ k \in [Offsets -> LinkPairs]
              /\ \A x \in Offsets : k[x] = IF x = l.next THEN n ELSE m1.link[x] BY <3>1, <3>2, <3>3
        <3> HIDE DEF k
        <3>6. /\ h \in Heaps /\ h.len = m1.len /\ h.tag = m1.tag /\ h.link = k
              /\ h.first = m1.first BY <3>4, <3>5, <1>5 DEF Heaps
        <3> QED BY <2>2, <3>3, <3>5, <3>6
    <2> QED BY <2>1, <2>2
<1> QED BY <1>1, <1>3, <1>5, <1>7

LEMMA RemoveFreeKeeps ==
    ASSUME NEW m, NEW F, Lists(m, F), NEW o \in F
    PROVE  LET h == RemoveFree2(m, o)
           IN  Lists(h, F \ {o}) /\ h.len = m.len /\ h.tag = m.tag
<1> DEFINE h == RemoveFree2(m, o)
           l == m.link[o]
           b == Bin(m, o)
           G == F \ {o}
<1>1. m \in Heaps /\ F \subseteq Offsets /\ o \in Offsets BY DEF Lists
<1>2. Neighbours(m, F, o) BY DEF Lists
<1>3. b \in Bins BY <1>2 DEF Neighbours
<1>4. h = RemoveFree(m, o, b) BY DEF RemoveFree2, Bin
<1>5. l = m.link[o] /\ b = Bin(m, o) OBVIOUS
<1> HIDE DEF h, l, b
<1>6. /\ h \in Heaps /\ h.len = m.len /\ h.tag = m.tag
      /\ \A x \in Offsets : h.link[x].next = IF l.prev # Nil /\ x = l.prev THEN l.next ELSE m.link[x].next
      /\ \A x \in Offsets : h.link[x].prev = IF l.next # Nil /\ x = l.next THEN l.prev ELSE m.link[x].prev
      /\ \A c \in Bins : h.first[c] = IF l.prev = Nil /\ c = b THEN l.next ELSE m.first[c]
    BY <1>1, <1>3, <1>4, <1>5, RemoveFreeIs
<1>7. \A x : Bin(h, x) = Bin(m, x) BY <1>6 DEF Bin
<1>8. /\ l.next # Nil => l.next \in F /\ Bin(m, l.next) = b /\ m.link[l.next].prev = o
      /\ l.prev # Nil => l.prev \in F /\ Bin(m, l.prev) = b /\ m.link[l.prev].next = o
      /\ l.prev = Nil => m.first[b] = o
    BY <1>2, <1>5 DEF Neighbours
<1>9. PICK pos \in [Offsets -> Nat] : Upwards(m, F, pos) BY DEF Lists
<1>10. l.next # o /\ l.prev # o
    <2>1. l.next # Nil => pos[o] < pos[l.next] BY <1>5, <1>9 DEF Upwards
    <2>2. l.prev = o => pos[o] < pos[o]
        <3>1. ASSUME l.prev = o PROVE l.next = o
            <4>1. l.prev # Nil BY <3>1, <1>1, NilIsNone
            <4> QED BY <3>1, <4>1, <1>8, <1>5
        <3> QED BY <3>1, <2>1, <1>1, NilIsNone
    <2>3. pos[o] \in Nat BY <1>1
    <2> QED BY <2>1, <2>2, <2>3, <1>1, NilIsNone
<1>11. ASSUME NEW x \in G PROVE Neighbours(h, G, x)
    <2>1. Neighbours(m, F, x) /\ x \in F /\ x # o /\ x \in Offsets BY <1>1 DEF Lists
    <2> DEFINE n == m.link[x].next
               p == m.link[x].prev
    <2>2. /\ Bin(m, x) \in Bins
          /\ n # Nil => n \in F /\ Bin(m, n) = Bin(m, x) /\ m.link[n].prev = x
          /\ p # Nil => p \in F /\ Bin(m, p) = Bin(m, x) /\ m.link[p].next = x
          /\ p = Nil => m.first[Bin(m, x)] = x BY <2>1 DEF Neighbours
    <2>3. n = m.link[x].next /\ p = m.link[x].prev OBVIOUS
    <2> HIDE DEF n, p
    <2>4. /\ h.link[x].next = IF l.prev # Nil /\ x = l.prev THEN l.next ELSE n
          /\ h.link[x].prev = IF l.next # Nil /\ x = l.next THEN l.prev ELSE p BY <2>1, <2>3, <1>6
    <2>5. ASSUME h.link[x].next # Nil
          PROVE  /\ h.link[x].next \in G /\ Bin(m, h.link[x].next) = Bin(m, x)
                 /\ h.link[h.link[x].next].prev = x
        <3>1. CASE l.prev # Nil /\ x = l.prev
            <4>1. h.link[x].next = l.next /\ l.next # Nil /\ l.next \in F /\ l.next \in Offsets
                BY <3>1, <2>4, <2>5, <1>8, <1>1
            <4>2. h.link[l.next].prev = l.prev BY <4>1, <1>6
            <4> QED BY <3>1, <4>1, <4>2, <1>8, <1>10
        <3>2. CASE ~ (l.prev # Nil /\ x = l.prev)
            <4>1. h.link[x].next = n /\ n # Nil /\ n \in F /\ n \in Offsets /\ m.link[n].prev = x
                BY <3>2, <2>2, <2>4, <2>5, <1>1
            <4>2. n # o BY <3>2, <4>1, <1>5, <2>1, <1>1, NilIsNone
            <4>3. n = l.next => x = o BY <4>1, <1>8
            <4>4. h.link[n].prev = x BY <4>1, <4>3, <2>1, <1>6
            <4> QED BY <4>1, <4>2, <4>4, <2>2
        <3> QED BY <3>1, <3>2
    <2>6. ASSUME h.link[x].prev # Nil
          PROVE  /\ h.link[x].prev \in G /\ Bin(m, h.link[x].prev) = Bin(m, x)
                 /\ h.link[h.link[x].prev].next = x
        <3>1. CASE l.next # Nil /\ x = l.next
            <4>1. h.link[x].prev = l.prev /\ l.prev # Nil /\ l.prev \in F /\ l.prev \in Offsets
                BY <3>1, <2>4, <2>6, <1>8, <1>1
            <4>2. h.link[l.prev].next = l.next BY <4>1, <1>6
            <4> QED BY <3>1, <4>1, <4>2, <1>8, <1>10
        <3>2. CASE ~ (l.next # Nil /\ x = l.next)
            <4>1. h.link[x].prev = p /\ p # Nil /\ p \in F /\ p \in Offsets /\ m.link[p].next = x
                BY <3>2, <2>2, <2>4, <2>6, <1>1
            <4>2. p # o BY <3>2, <4>1, <1>5, <2>1, <1>1, NilIsNone
            <4>3. p = l.prev => x = o BY <4>1, <1>8
            <4>4. h.link[p].next = x BY <4>1, <4>3, <2>1, <1>6
            <4> QED BY <4>1, <4>2, <4>4, <2>2
        <3> QED BY <3>1, <3>2
    <2>7. ASSUME h.link[x].prev = Nil PROVE h.first[Bin(m, x)] = x
        <3>1. CASE l.next # Nil /\ x = l.next
            <4>1. l.prev = Nil BY <3>1, <2>4, <2>7
            <4> QED BY <3>1, <4>1, <2>2, <1>6, <1>8
        <3>2. CASE ~ (l.next # Nil /\ x = l.next)
            <4>1. p = Nil /\ m.first[Bin(m, x)] = x BY <3>2, <2>2, <2>4, <2>7
            <4>2. l.prev = Nil => Bin(m, x) # b BY <4>1, <2>1, <1>8
            <4> QED BY <4>1, <4>2, <2>2, <1>6
        <3> QED BY <3>1, <3>2
    <2> QED BY <2>2, <2>5, <2>6, <2>7, <1>7 DEF Neighbours
<1>12. ASSUME NEW c \in Bins PROVE FirstOf(h, G, c)
    <2>1. m.first[c] # Nil => /\ m.first[c] \in F /\ Bin(m, m.first[c]) = c
                              /\ m.link[m.first[c]].prev = Nil BY DEF Lists, FirstOf
    <2> DEFINE y == h.first[c]
    <2> SUFFICES ASSUME y # Nil PROVE y \in G /\ Bin(m, y) = c /\ h.link[y].prev = Nil
        BY <1>7 DEF FirstOf
    <2>2. y = IF l.prev = Nil /\ c = b THEN l.next ELSE m.first[c] BY <1>6
    <2> HIDE DEF y
    <2>3. CASE l.prev = Nil /\ c = b
        <3>1. y = l.next /\ y \in F /\ y \in Offsets /\ Bin(m, y) = c BY <2>2, <2>3, <1>1, <1>8
        <3>2. h.link[y].prev = l.prev BY <3>1, <1>6
        <3> QED BY <2>3, <3>1, <3>2, <1>10
    <2>4. CASE ~ (l.prev = Nil /\ c = b)
        <3>1. y = m.first[c] /\ y \in F /\ y \in Offsets /\ Bin(m, y) = c /\ m.link[y].prev = Nil
            BY <2>1, <2>2, <2>4, <1>1
        <3>2. y # o BY <2>4, <3>1, <1>5
        <3>3. y # l.next BY <3>1, <1>8, <1>1, NilIsNone
        <3> QED BY <3>1, <3>2, <3>3, <1>6
    <2> QED BY <2>3, <2>4
<1>13. Upwards(h, G, pos)
    <2> SUFFICES ASSUME NEW x \in G, h.link[x].next # Nil PROVE pos[x] < pos[h.link[x].next] BY DEF Upwards
    <2>1. \A y \in F : m.link[y].next # Nil => pos[y] < pos[m.link[y].next] BY <1>9 DEF Upwards
    <2>2. x \in F /\ x \in Offsets BY <1>1
    <2>3. CASE l.prev # Nil /\ x = l.prev
        <3>1. h.link[x].next = l.next /\ m.link[x].next = o BY <2>2, <2>3, <1>6, <1>8
        <3>2. pos[x] < pos[o] /\ pos[o] < pos[l.next] BY <3>1, <2>1, <2>2, <1>1, <1>5, NilIsNone
        <3>3. l.next \in Offsets BY <3>1, <1>1, <1>8
        <3>4. pos[x] \in Nat /\ pos[o] \in Nat /\ pos[l.next] \in Nat BY <3>3, <2>2, <1>1
        <3> QED BY <3>1, <3>2, <3>4
    <2>4. CASE ~ (l.prev # Nil /\ x = l.prev)
        <3>1. h.link[x].next = m.link[x].next BY <2>2, <2>4, <1>6
        <3> QED BY <3>1, <2>1, <2>2
    <2> QED BY <2>3, <2>4
<1>14. Lists(h, G)
    <2>1. G \subseteq Offsets BY <1>1
    <2>2. \E q \in [Offsets -> Nat] : Upwards(h, G, q) BY <1>13
    <2> HIDE DEF G
    <2> QED BY <2>1, <2>2, <1>6, <1>11, <1>12 DEF Lists
<1> QED BY <1>6, <1>14 DEF h

\* mheap_elt_set_size, tag by tag.
SizeSet(t, u, o, n, free) ==
    \A x \in Offsets : /\ u[x].n = IF x = o THEN n ELSE t[x].n
                       /\ u[x].free = IF x = o THEN free ELSE t[x].free
                       /\ u[x].prevN = IF x = o + n + Overhead THEN n ELSE t[x].prevN
                       /\ u[x].prevFree = IF x = o + n + Overhead THEN free ELSE t[x].prevFree

LEMMA SetSizeIs ==
    ASSUME NEW m \in Heaps, NEW o \in Offsets, NEW n \in 0 .. Invalid, NEW free \in BOOLEAN,
           o + n + Overhead \in Offsets
    PROVE  LET h == SetSize(m, o, n, free)
           IN  /\ h \in Heaps /\ h.len = m.len /\ h.link = m.link /\ h.first = m.first
               /\ SizeSet(m.tag, h.tag, o, n, free)
<1> DEFINE e == o + n + Overhead
           t == m.tag
           h == SetSize(m, o, n, free)
           a == [t[o] EXCEPT !.n = n]
           t1 == [t EXCEPT ![o] = a]
           b == [t1[o] EXCEPT !.free = free]
           t2 == [t1 EXCEPT ![o] = b]
           c == [t2[e] EXCEPT !.prevN = n]
           t3 == [t2 EXCEPT ![e] = c]
           d == [t3[e] EXCEPT !.prevFree = free]
           t4 == [t3 EXCEPT ![e] = d]
<1>1. e \in Offsets /\ e # o /\ t \in [Offsets -> Tags] BY Sizes DEF Heaps
<1>2. h = [m EXCEPT !.tag = t4] BY DEF SetSize
<1>3. e = o + n + Overhead /\ t = m.tag OBVIOUS
<1> HIDE DEF e, t, h
<1>4. /\ a \in Tags /\ a.n = n /\ a.free = t[o].free /\ a.prevN = t[o].prevN
      /\ a.prevFree = t[o].prevFree BY <1>1 DEF Tags
<1> HIDE DEF a
<1>5. t1 \in [Offsets -> Tags] /\ \A x \in Offsets : t1[x] = IF x = o THEN a ELSE t[x] BY <1>1, <1>4
<1> HIDE DEF t1
<1>6. /\ b \in Tags /\ b.n = n /\ b.free = free /\ b.prevN = t[o].prevN
      /\ b.prevFree = t[o].prevFree BY <1>4, <1>5 DEF Tags
<1> HIDE DEF b
<1>7. t2 \in [Offsets -> Tags] /\ \A x \in Offsets : t2[x] = IF x = o THEN b ELSE t[x] BY <1>5, <1>6
<1> HIDE DEF t2
<1>8. /\ c \in Tags /\ c.n = t[e].n /\ c.free = t[e].free /\ c.prevN = n
      /\ c.prevFree = t[e].prevFree BY <1>1, <1>7 DEF Tags
<1> HIDE DEF c
<1>9. t3 \in [Offsets -> Tags] /\ \A x \in Offsets : t3[x] = IF x = e THEN c ELSE t2[x]
    BY <1>1, <1>7, <1>8
<1> HIDE DEF t3
<1>10. /\ d \in Tags /\ d.n = t[e].n /\ d.free = t[e].free /\ d.prevN = n
       /\ d.prevFree = free BY <1>1, <1>8, <1>9 DEF Tags
<1> HIDE DEF d
<1>11. t4 \in [Offsets -> Tags] /\ \A x \in Offsets : t4[x] = IF x = e THEN d ELSE t2[x]
    BY <1>1, <1>9, <1>10
<1> HIDE DEF t4
<1>12. h \in Heaps /\ h.len = m.len /\ h.link = m.link /\ h.first = m.first /\ h.tag = t4
    BY <1>2, <1>11 DEF Heaps
<1>13. SizeSet(t, t4, o, n, free)
    <2> SUFFICES ASSUME NEW x \in Offsets
                 PROVE  /\ t4[x].n = IF x = o THEN n ELSE t[x].n
                        /\ t4[x].free = IF x = o THEN free ELSE t[x].free
                        /\ t4[x].prevN = IF x = e THEN n ELSE t[x].prevN
                        /\ t4[x].prevFree = IF x = e THEN free ELSE t[x].prevFree
        BY <1>3 DEF SizeSet
    <2>1. CASE x = e BY <2>1, <1>1, <1>10, <1>11
    <2>2. CASE x = o BY <2>2, <1>1, <1>6, <1>7, <1>11
    <2>3. CASE x # e /\ x # o BY <2>3, <1>7, <1>11
    <2> QED BY <2>1, <2>2, <2>3
<1> QED BY <1>3, <1>12, <1>13 DEF h

\* mheap_set_free_elt, link by link.
LEMMA SetFreeIs ==
    ASSUME NEW m \in Heaps, NEW o \in Offsets, NEW n, BinOf(n) \in Bins, m.first[BinOf(n)] # o
    PROVE  LET h == SetFree(m, o, n)
               b == BinOf(n)
               f == m.first[b]
           IN  /\ h \in Heaps /\ h.len = m.len /\ h.tag = m.tag
               /\ \A x \in Offsets : h.link[x].next = IF x = o THEN f ELSE m.link[x].next
               /\ \A x \in Offsets : h.link[x].prev = IF x = o THEN Nil
                                                      ELSE IF f # Nil /\ x = f THEN o
                                                      ELSE m.link[x].prev
               /\ \A c \in Bins : h.first[c] = IF c = b THEN o ELSE m.first[c]
<1> DEFINE b  == BinOf(n)
           f  == m.first[b]
           p  == Links(f, Nil)
           k1 == [m.link EXCEPT ![o] = p]
           r1 == [m.first EXCEPT ![b] = o]
           m1 == [m EXCEPT !.link[o] = Links(f, Nil), !.first[b] = o]
           h  == IF f = Nil THEN m1 ELSE [m1 EXCEPT !.link[f].prev = o]
<1>1. SetFree(m, o, n) = h BY DEF SetFree
<1>2. m1 = [[m EXCEPT !.link = k1] EXCEPT !.first = r1] OBVIOUS
<1>3. /\ m.link \in [Offsets -> LinkPairs] /\ m.first \in [Bins -> Offsets \cup {Nil}]
      /\ b \in Bins /\ f \in Offsets \cup {Nil} /\ f # o BY DEF Heaps
<1>4. b = BinOf(n) /\ f = m.first[b] OBVIOUS
<1>5. h = IF f = Nil THEN m1 ELSE [m1 EXCEPT !.link[f].prev = o] OBVIOUS
<1> HIDE DEF b, f, m1, h
<1>6. p \in LinkPairs /\ p.next = f /\ p.prev = Nil BY <1>3 DEF LinkPairs, Links
<1> HIDE DEF p
<1>7. /\ k1 \in [Offsets -> LinkPairs] /\ \A x \in Offsets : k1[x] = IF x = o THEN p ELSE m.link[x]
      /\ r1 \in [Bins -> Offsets \cup {Nil}] /\ \A c \in Bins : r1[c] = IF c = b THEN o ELSE m.first[c]
    BY <1>3, <1>6
<1> HIDE DEF k1, r1
<1>8. m1 \in Heaps /\ m1.len = m.len /\ m1.tag = m.tag /\ m1.link = k1 /\ m1.first = r1
    BY <1>2, <1>7 DEF Heaps
<1>9. /\ h \in Heaps /\ h.len = m1.len /\ h.tag = m1.tag /\ h.first = m1.first
      /\ \A x \in Offsets : /\ h.link[x].prev = IF f # Nil /\ x = f THEN o ELSE m1.link[x].prev
                            /\ h.link[x].next = m1.link[x].next
    <2>1. CASE f = Nil BY <2>1, <1>5, <1>8
    <2>2. CASE f # Nil
        <3>1. f \in Offsets BY <2>2, <1>3
        <3> DEFINE q == [m1.link[f] EXCEPT !.prev = o]
                   k == [m1.link EXCEPT ![f] = q]
        <3>2. q \in LinkPairs /\ q.prev = o /\ q.next = m1.link[f].next
            BY <3>1, <1>7, <1>8 DEF LinkPairs
        <3>3. h = [m1 EXCEPT !.link = k] BY <2>2, <1>5
        <3> HIDE DEF q
        <3>4. /\ k \in [Offsets -> LinkPairs]
              /\ \A x \in Offsets : k[x] = IF x = f THEN q ELSE m1.link[x] BY <3>1, <3>2, <1>7, <1>8
        <3> HIDE DEF k
        <3>5. /\ h \in Heaps /\ h.len = m1.len /\ h.tag = m1.tag /\ h.link = k
              /\ h.first = m1.first BY <3>3, <3>4, <1>8 DEF Heaps
        <3> QED BY <2>2, <3>2, <3>4, <3>5
    <2> QED BY <2>1, <2>2
<1>10. /\ \A x \in Offsets : h.link[x].next = IF x = o THEN f ELSE m.link[x].next
       /\ \A x \in Offsets : h.link[x].prev = IF x = o THEN Nil
                                              ELSE IF f # Nil /\ x = f THEN o ELSE m.link[x].prev
    BY <1>3, <1>6, <1>7, <1>8, <1>9
<1> QED BY <1>1, <1>4, <1>7, <1>8, <1>9, <1>10

LEMMA SetFreeKeeps ==
    ASSUME NEW m, NEW F, Lists(m, F), NEW o \in Offsets \ F, Bin(m, o) \in Bins
    PROVE  LET h == SetFree(m, o, m.tag[o].n)
           IN  Lists(h, F \cup {o}) /\ h.len = m.len /\ h.tag = m.tag
<1> DEFINE h == SetFree(m, o, m.tag[o].n)
           b == Bin(m, o)
           f == m.first[b]
           G == F \cup {o}
<1>1. m \in Heaps /\ F \subseteq Offsets /\ o \in Offsets /\ o \notin F /\ b \in Bins BY DEF Lists
<1>2. f # Nil => f \in F /\ Bin(m, f) = b /\ m.link[f].prev = Nil BY <1>1 DEF Lists, FirstOf
<1>3. f # o BY <1>1, <1>2, NilIsNone
<1>4. b = BinOf(m.tag[o].n) BY DEF Bin
<1>5. /\ h \in Heaps /\ h.len = m.len /\ h.tag = m.tag
      /\ \A x \in Offsets : h.link[x].next = IF x = o THEN f ELSE m.link[x].next
      /\ \A x \in Offsets : h.link[x].prev = IF x = o THEN Nil
                                             ELSE IF f # Nil /\ x = f THEN o ELSE m.link[x].prev
      /\ \A c \in Bins : h.first[c] = IF c = b THEN o ELSE m.first[c]
    <2> DEFINE n == m.tag[o].n
    <2>1. BinOf(n) \in Bins /\ m.first[BinOf(n)] # o BY <1>1, <1>3, <1>4
    <2>2. h = SetFree(m, o, n) /\ b = BinOf(n) BY <1>4
    <2> HIDE DEF n, h
    <2> QED BY <2>1, <2>2, <1>1, SetFreeIs
<1>6. f = m.first[b] /\ b = Bin(m, o) OBVIOUS
<1> HIDE DEF h, f, b
<1>7. \A x : Bin(h, x) = Bin(m, x) BY <1>5 DEF Bin
<1>8. PICK pos \in [Offsets -> Nat] : Upwards(m, F, pos) BY DEF Lists
<1>9. ASSUME NEW x \in G PROVE Neighbours(h, G, x)
    <2>1. CASE x = o
        <3>1. h.link[x].next = f /\ h.link[x].prev = Nil /\ h.first[b] = o BY <2>1, <1>1, <1>5
        <3>2. f # Nil => h.link[f].prev = o BY <1>1, <1>2, <1>3, <1>5
        <3> QED BY <2>1, <3>1, <3>2, <1>1, <1>2, <1>6, <1>7 DEF Neighbours
    <2>2. CASE x # o
        <3>1. Neighbours(m, F, x) /\ x \in F /\ x \in Offsets BY <2>2, <1>1 DEF Lists
        <3> DEFINE n == m.link[x].next
                   p == m.link[x].prev
        <3>2. /\ Bin(m, x) \in Bins
              /\ n # Nil => n \in F /\ Bin(m, n) = Bin(m, x) /\ m.link[n].prev = x
              /\ p # Nil => p \in F /\ Bin(m, p) = Bin(m, x) /\ m.link[p].next = x
              /\ p = Nil => m.first[Bin(m, x)] = x BY <3>1 DEF Neighbours
        <3>3. h.link[x].next = n /\ h.link[x].prev = IF f # Nil /\ x = f THEN o ELSE p
            BY <2>2, <3>1, <1>5
        <3> HIDE DEF n, p
        <3>4. n # Nil => h.link[n].prev = x
            <4> SUFFICES ASSUME n # Nil PROVE h.link[n].prev = x OBVIOUS
            <4>1. n \in F /\ n \in Offsets /\ n # o /\ m.link[n].prev = x /\ x # Nil
                BY <3>1, <3>2, <1>1, NilIsNone
            <4>2. n # f BY <4>1, <1>2, <1>1, NilIsNone
            <4> QED BY <4>1, <4>2, <1>5
        <3>5. CASE f # Nil /\ x = f
            <4>1. h.link[x].prev = o /\ h.link[o].next = x /\ Bin(m, x) = b /\ o # Nil
                BY <3>3, <3>5, <1>1, <1>2, <1>5, NilIsNone
            <4> QED BY <4>1, <3>2, <3>3, <3>4, <1>6, <1>7 DEF Neighbours
        <3>6. CASE ~ (f # Nil /\ x = f)
            <4>1. h.link[x].prev = p BY <3>3, <3>6
            <4>2. p # Nil => h.link[p].next = x BY <3>2, <1>1, <1>5
            <4>3. p = Nil => h.first[Bin(m, x)] = x
                <5> SUFFICES ASSUME p = Nil PROVE h.first[Bin(m, x)] = x OBVIOUS
                <5>1. m.first[Bin(m, x)] = x /\ x # Nil BY <3>1, <3>2, NilIsNone
                <5>2. Bin(m, x) # b BY <5>1, <3>6, <1>6
                <5> QED BY <5>1, <5>2, <3>2, <1>5
            <4> QED BY <4>1, <4>2, <4>3, <3>2, <3>3, <3>4, <1>7 DEF Neighbours
        <3> QED BY <3>5, <3>6
    <2> QED BY <2>1, <2>2
<1>10. ASSUME NEW c \in Bins PROVE FirstOf(h, G, c)
    <2>1. CASE c = b
        <3>1. h.first[c] = o /\ h.link[o].prev = Nil BY <2>1, <1>1, <1>5
        <3> QED BY <2>1, <3>1, <1>6, <1>7 DEF FirstOf
    <2>2. CASE c # b
        <3>1. h.first[c] = m.first[c] BY <2>2, <1>5
        <3>2. m.first[c] # Nil => /\ m.first[c] \in F /\ Bin(m, m.first[c]) = c
                                  /\ m.link[m.first[c]].prev = Nil BY DEF Lists, FirstOf
        <3>3. m.first[c] # Nil => m.first[c] # o /\ m.first[c] # f BY <2>2, <3>2, <1>1, <1>2
        <3>4. m.first[c] # Nil => h.link[m.first[c]].prev = Nil BY <3>2, <3>3, <1>1, <1>5
        <3> QED BY <3>1, <3>2, <3>4, <1>7 DEF FirstOf
    <2> QED BY <2>1, <2>2
<1>11. \E q \in [Offsets -> Nat] : Upwards(h, G, q)
    <2> DEFINE q == [x \in Offsets |-> IF x = o THEN 0 ELSE pos[x] + 1]
    <2>1. q \in [Offsets -> Nat] /\ \A x \in Offsets : q[x] = IF x = o THEN 0 ELSE pos[x] + 1 OBVIOUS
    <2> HIDE DEF q
    <2>2. ASSUME NEW x \in G, h.link[x].next # Nil PROVE q[x] < q[h.link[x].next]
        <3>1. CASE x = o
            <4>1. h.link[x].next = f /\ f \in F /\ f \in Offsets BY <2>2, <3>1, <1>1, <1>2, <1>5
            <4>2. pos[f] \in Nat BY <4>1
            <4> QED BY <3>1, <4>1, <4>2, <2>1, <1>1, <1>3
        <3>2. CASE x # o
            <4>1. x \in F /\ x \in Offsets /\ h.link[x].next = m.link[x].next BY <3>2, <1>1, <1>5
            <4>2. Neighbours(m, F, x) /\ m.link[x].next # Nil BY <2>2, <4>1 DEF Lists
            <4>3. m.link[x].next \in F /\ m.link[x].next \in Offsets /\ m.link[x].next # o
                BY <4>2, <1>1 DEF Neighbours
            <4>4. pos[x] < pos[m.link[x].next] BY <4>1, <4>2, <1>8 DEF Upwards
            <4>5. pos[x] \in Nat /\ pos[m.link[x].next] \in Nat BY <4>1, <4>3
            <4> QED BY <3>2, <4>1, <4>3, <4>4, <4>5, <2>1
        <3> QED BY <3>1, <3>2
    <2>3. Upwards(h, G, q) BY <2>2 DEF Upwards
    <2> QED BY <2>1, <2>3
<1>12. Lists(h, G)
    <2>1. G \subseteq Offsets BY <1>1
    <2> HIDE DEF G
    <2> QED BY <2>1, <1>5, <1>9, <1>10, <1>11 DEF Lists
<1> QED BY <1>5, <1>12 DEF h

\* new_free_elt, after mheap_elt_set_size.
LEMMA NewFreeKeeps ==
    ASSUME NEW m, NEW F, Lists(m, F), NEW o \in Offsets \ F, NEW n \in MinData .. MaxSize,
           o + n + Overhead \in Offsets
    PROVE  LET h == NewFree(m, o, n)
           IN  Lists(h, F \cup {o}) /\ h.len = m.len /\ SizeSet(m.tag, h.tag, o, n, TRUE)
<1> DEFINE k == SetSize(m, o, n, TRUE)
           h == NewFree(m, o, n)
<1>1. m \in Heaps /\ F \subseteq Offsets /\ o \in Offsets /\ o \notin F BY DEF Lists
<1>2. n \in 0 .. Invalid /\ n \in Nat BY Sizes
<1>3. /\ k \in Heaps /\ k.len = m.len /\ k.link = m.link /\ k.first = m.first
      /\ SizeSet(m.tag, k.tag, o, n, TRUE)
    <2> HIDE DEF k
    <2> QED BY <1>1, <1>2, SetSizeIs DEF k
<1>4. h = SetFree(k, o, n) BY DEF NewFree
<1> HIDE DEF k, h
<1>5. \A x \in F : k.link[x] = m.link[x] /\ k.tag[x].n = m.tag[x].n BY <1>1, <1>3 DEF SizeSet
<1>6. Lists(k, F) BY <1>3, <1>5, ListsSame
<1>7. k.tag[o].n = n BY <1>1, <1>3 DEF SizeSet
<1>8. Bin(k, o) \in Bins BY <1>2, <1>7, BinsOfSizes DEF Bin
<1>9. Lists(SetFree(k, o, k.tag[o].n), F \cup {o})
      /\ SetFree(k, o, k.tag[o].n).len = k.len /\ SetFree(k, o, k.tag[o].n).tag = k.tag
    BY <1>6, <1>8, SetFreeKeeps
<1>10. SetFree(k, o, k.tag[o].n) = h BY <1>4, <1>7
<1> QED BY <1>3, <1>9, <1>10 DEF h

-----------------------------------------------------------------------------
(* One heap: the chain, no two free elements together, and the free lists *)

Frees(m, E) == {o \in E \ {m.len} : m.tag[o].free}
Used(m, E)  == {o \in E \ {m.len} : ~ m.tag[o].free}

Apart(m, E) == \A o \in E : o = m.len \/ m.tag[o].free => ~ m.tag[o].prevFree

Sound(m, E) ==
    /\ (m.len = 0 /\ E = {}) \/ (Chained(m, E) /\ Apart(m, E))
    /\ ~ m.tag[FirstElt].prevFree
    /\ Lists(m, Frees(m, E))

LEMMA SoundElements ==
    ASSUME NEW m, NEW E, Sound(m, E)
    PROVE  Elements(m) = E
<1>1. CASE m.len = 0 /\ E = {} BY <1>1 DEF Elements
<1>2. CASE Chained(m, E) BY <1>2, ElementsAre
<1> QED BY <1>1, <1>2 DEF Sound

LEMMA SoundChained ==
    ASSUME NEW m, NEW E, Sound(m, E), E # {}
    PROVE  Chained(m, E) /\ Apart(m, E) /\ m \in Heaps
BY DEF Sound, Lists

LEMMA ChainedSame ==
    ASSUME NEW m, NEW E, Chained(m, E), NEW h \in Heaps, h.len = m.len,
           \A o \in E : h.tag[o] = m.tag[o]
    PROVE  Chained(h, E)
<1>1. h.tag \in [Offsets -> Tags] BY DEF Heaps
<1>2. \A o \in E : After(h.tag, o) = After(m.tag, o) BY DEF After
<1>3. FirstElt \in E /\ m.len \in E BY DEF Chained, Chain
<1>4. ASSUME NEW o \in E \ {m.len}
      PROVE  /\ h.tag[o].n >= MinData /\ After(h.tag, o) \in E
             /\ \A x \in E : x <= o \/ x >= After(h.tag, o)
             /\ h.tag[After(h.tag, o)].prevN = h.tag[o].n
             /\ h.tag[After(h.tag, o)].prevFree = h.tag[o].free
    <2>1. /\ m.tag[o].n >= MinData /\ After(m.tag, o) \in E
          /\ \A x \in E : x <= o \/ x >= After(m.tag, o)
          /\ m.tag[After(m.tag, o)].prevN = m.tag[o].n
          /\ m.tag[After(m.tag, o)].prevFree = m.tag[o].free BY DEF Chained, Chain
    <2> QED BY <2>1, <1>2
<1> QED BY <1>1, <1>3, <1>4 DEF Chained, Chain

\* Every element but the first has the one before it where its tag says.
LEMMA Predecessor ==
    ASSUME NEW m, NEW E, Chained(m, E), NEW o \in E, o # FirstElt
    PROVE  LET p == PrevElt(m, o)
           IN  /\ p \in E \ {m.len} /\ After(m.tag, p) = o
               /\ m.tag[p].free = m.tag[o].prevFree /\ m.tag[o].prevN = m.tag[p].n
               /\ m.tag[o].prevN <= MaxSize
<1> DEFINE S == {x \in E : x < o}
           p == Max(S)
<1>1. S \subseteq Int /\ \A x \in S : x <= o BY ChainedAt
<1>2. o \in Int /\ o >= 2 /\ o <= m.len BY ChainedAt
<1>3. S # {} BY <1>2, Sizes DEF Chained, Chain
<1>4. p \in S /\ \A x \in S : x <= p
    <2> HIDE DEF S
    <2> QED BY <1>1, <1>2, <1>3, GreatestBelow
<1> HIDE DEF p
<1>5. p \in E \ {m.len} /\ p \in Int /\ p < o /\ p # m.len BY <1>2, <1>4, ChainedAt
<1>6. /\ After(m.tag, p) \in E /\ After(m.tag, p) \in Int /\ After(m.tag, p) > p
      /\ m.tag[p].n \in Nat /\ m.tag[p].n <= MaxSize
      /\ \A x \in E : x <= p \/ x >= After(m.tag, p)
      /\ m.tag[After(m.tag, p)].prevN = m.tag[p].n
      /\ m.tag[After(m.tag, p)].prevFree = m.tag[p].free
    <2>1. /\ After(m.tag, p) \in Int /\ After(m.tag, p) >= p + 4 /\ m.tag[p].n \in Nat
          /\ m.tag[p].n <= MaxSize BY <1>5, ChainedAt
    <2> QED BY <1>5, <2>1 DEF Chained, Chain
<1>7. After(m.tag, p) = o
    <2>1. ~ (After(m.tag, p) < o) BY <1>4, <1>5, <1>6
    <2>2. o >= After(m.tag, p) BY <1>5, <1>6, <1>2
    <2> QED BY <2>1, <2>2, <1>2, <1>6
<1>8. PrevElt(m, o) = p BY <1>5, <1>6, <1>7, <1>2, Sizes DEF PrevElt, After
<1> QED BY <1>5, <1>6, <1>7, <1>8

LEMMA TidyKeeps ==
    ASSUME NEW m, NEW E, Sound(m, E)
    PROVE  LET h == Tidy(m)
           IN  /\ Sound(h, E) /\ h.len = m.len /\ Used(h, E) = Used(m, E)
               /\ \A o \in E : h.tag[o] = m.tag[o]
<1> DEFINE h == Tidy(m)
           F == Frees(m, E)
           t == [o \in Offsets |-> IF o \in E THEN m.tag[o] ELSE Zeroed]
           k == [o \in Offsets |-> IF o \in E /\ m.tag[o].free /\ o < m.len
                                   THEN m.link[o] ELSE Links(Nil, Nil)]
<1>1. Elements(m) = E BY SoundElements
<1>2. m \in Heaps /\ Lists(m, F) BY DEF Sound, Lists
<1>3. h = [[m EXCEPT !.tag = t] EXCEPT !.link = k] BY <1>1 DEF Tidy
<1>4. Zeroed \in Tags BY Sizes DEF Zeroed, Tag, Tags
<1>5. Links(Nil, Nil) \in LinkPairs BY DEF Links, LinkPairs
<1>6. m.tag \in [Offsets -> Tags] /\ m.link \in [Offsets -> LinkPairs] BY <1>2 DEF Heaps
<1>7. /\ t \in [Offsets -> Tags] /\ k \in [Offsets -> LinkPairs]
      /\ \A o \in Offsets : t[o] = IF o \in E THEN m.tag[o] ELSE Zeroed
      /\ \A o \in Offsets : o \in E /\ m.tag[o].free /\ o < m.len => k[o] = m.link[o]
    BY <1>4, <1>5, <1>6
<1> HIDE DEF t, k, h
<1>8. /\ h \in Heaps /\ h.len = m.len /\ h.tag = t /\ h.link = k /\ h.first = m.first
    BY <1>2, <1>3, <1>7 DEF Heaps
<1>9. E \subseteq Offsets
    <2>1. CASE E = {} BY <2>1
    <2>2. CASE E # {} BY <2>2, SoundChained, ChainedAt
    <2> QED BY <2>1, <2>2
<1>10. \A o \in E : h.tag[o] = m.tag[o] BY <1>7, <1>8, <1>9
<1>11. Frees(h, E) = F /\ Used(h, E) = Used(m, E) BY <1>8, <1>10 DEF Frees, Used
<1>12. \A o \in F : h.link[o] = m.link[o] /\ h.tag[o].n = m.tag[o].n
    <2> TAKE o \in F
    <2>1. o \in E /\ m.tag[o].free /\ o # m.len /\ o \in Offsets BY <1>9 DEF Frees
    <2>2. o < m.len BY <2>1, SoundChained, ChainedAt
    <2> QED BY <2>1, <2>2, <1>7, <1>8, <1>10
<1>13. Lists(h, F)
    <2> HIDE DEF F
    <2> QED BY <1>2, <1>8, <1>12, ListsSame
<1>14. ~ h.tag[FirstElt].prevFree
    <2>1. ~ m.tag[FirstElt].prevFree /\ FirstElt \in Offsets BY Sizes DEF Sound
    <2>2. ~ Zeroed.prevFree BY DEF Zeroed, Tag
    <2> QED BY <2>1, <2>2, <1>7, <1>8
<1>15. (h.len = 0 /\ E = {}) \/ (Chained(h, E) /\ Apart(h, E))
    <2>1. CASE E = {}
        <3>1. m.len = 0 BY <2>1 DEF Sound, Chained, Chain
        <3> QED BY <2>1, <3>1, <1>8
    <2>2. CASE E # {}
        <3>1. Chained(m, E) /\ Apart(m, E) BY <2>2, SoundChained
        <3>2. Chained(h, E) BY <3>1, <1>8, <1>10, ChainedSame
        <3>3. Apart(h, E) BY <3>1, <1>8, <1>10 DEF Apart
        <3> QED BY <3>2, <3>3
    <2> QED BY <2>1, <2>2
<1>16. Sound(h, E) BY <1>11, <1>13, <1>14, <1>15 DEF Sound
<1> QED BY <1>8, <1>10, <1>11, <1>16 DEF h

-----------------------------------------------------------------------------
(* Allocation from a free element *)

\* The free element f0 .. f1 - 1 cut into a free fragment (unless o0 is f0), the
\* block o0 .. o1 - 1, and a free fragment (unless o1 is f1).
Cut(t, u, f0, f1, o0, o1) ==
    \A x \in Offsets :
        /\ u[x].n = IF x = o1 + Overhead /\ o1 # f1 THEN f1 - o1 - Overhead
                    ELSE IF x = o0 THEN o1 - o0
                    ELSE IF x = f0 THEN o0 - f0 - Overhead ELSE t[x].n
        /\ u[x].free = IF x = o1 + Overhead /\ o1 # f1 THEN TRUE
                       ELSE IF x = o0 THEN FALSE
                       ELSE IF x = f0 THEN TRUE ELSE t[x].free
        /\ u[x].prevN = IF x = f1 + Overhead /\ o1 # f1 THEN f1 - o1 - Overhead
                        ELSE IF x = o1 + Overhead THEN o1 - o0
                        ELSE IF x = o0 /\ o0 # f0 THEN o0 - f0 - Overhead ELSE t[x].prevN
        /\ u[x].prevFree = IF x = f1 + Overhead /\ o1 # f1 THEN TRUE
                           ELSE IF x = o1 + Overhead THEN FALSE
                           ELSE IF x = o0 /\ o0 # f0 THEN TRUE ELSE t[x].prevFree

CutElements(E, f0, f1, o0, o1) ==
    E \cup {o0} \cup (IF o1 = f1 THEN {} ELSE {o1 + Overhead})

LEMMA CutChain ==
    ASSUME NEW m, NEW E, Chained(m, E), Apart(m, E), NEW f0 \in Frees(m, E),
           NEW f1 \in Int, f1 = f0 + m.tag[f0].n, NEW o0 \in Int, NEW o1 \in Int,
           o0 = f0 \/ o0 >= f0 + 4, o1 >= o0 + 2, o1 = f1 \/ o1 + 4 <= f1,
           NEW h \in Heaps, h.len = m.len, Cut(m.tag, h.tag, f0, f1, o0, o1)
    PROVE  LET G == CutElements(E, f0, f1, o0, o1)
           IN  /\ Chained(h, G) /\ Apart(h, G)
               /\ Used(h, G) = Used(m, E) \cup {o0} /\ o0 \notin Used(m, E) /\ o0 \in Offsets
               /\ Frees(h, G) = (Frees(m, E) \ {f0}) \cup (IF o0 = f0 THEN {} ELSE {f0})
                                    \cup (IF o1 = f1 THEN {} ELSE {o1 + Overhead})
               /\ \A x \in Used(m, E) : h.tag[x].n = m.tag[x].n
<1> DEFINE G == CutElements(E, f0, f1, o0, o1)
           e == f1 + 2
           c == o1 + 2
           t == m.tag
           u == h.tag
           len == m.len
<1>1. /\ f0 \in E /\ f0 # len /\ t[f0].free /\ f0 \in Int /\ f0 >= 2 /\ f0 < len
      /\ len \in Int /\ len <= MaxSize /\ After(t, f0) = e /\ e \in E
      /\ \A x \in E : x <= f0 \/ x >= e
      /\ t[e].prevFree /\ ~ t[f0].prevFree
    <2>1. /\ f0 \in E /\ f0 # len /\ t[f0].free BY DEF Frees
    <2>2. /\ f0 \in Int /\ f0 >= 2 /\ f0 < len /\ len \in Int /\ len <= MaxSize BY <2>1, ChainedAt
    <2>3. After(t, f0) = e BY <2>2, Sizes DEF After
    <2>4. /\ e \in E /\ \A x \in E : x <= f0 \/ x >= e
          /\ t[e].prevFree = t[f0].free BY <2>1, <2>3 DEF Chained, Chain
    <2>5. ~ t[f0].prevFree BY <2>1 DEF Apart
    <2> QED BY <2>1, <2>2, <2>3, <2>4, <2>5
<1>2. e # len
    <2>1. e = len => ~ t[e].prevFree BY <1>1 DEF Apart
    <2> QED BY <1>1, <2>1
<1>3. e \in Int /\ e <= len /\ e < len /\ e \in Offsets /\ o0 \in Offsets /\ f0 \in Offsets
    <2>1. e \in Int /\ e <= len /\ e \in Offsets /\ f0 \in Offsets
        <3> HIDE DEF e
        <3> QED BY <1>1, ChainedAt
    <2>2. e < len BY <2>1, <1>1, <1>2
    <2>3. f0 \in Int /\ f0 >= 2 /\ len \in Int /\ len <= MaxSize /\ MaxSize \in Nat BY <1>1, Sizes
    <2>4. e = f1 + 2 OBVIOUS
    <2> HIDE DEF e, len, t
    <2>5. o0 >= f0 /\ o0 + 2 <= o1 /\ o1 <= f1 BY <2>3
    <2>6. o0 >= 2 /\ o0 <= MaxSize BY <2>2, <2>3, <2>4, <2>5
    <2> QED BY <2>1, <2>2, <2>6, Sizes
<1>4. o0 >= f0 /\ o0 + 2 <= o1 /\ o1 <= f1 /\ (o1 # f1 => c \in Offsets /\ c < e /\ c > o0)
    BY <1>1, <1>3, Sizes
<1>5. G = E \cup {o0} \cup (IF o1 = f1 THEN {} ELSE {c}) BY Sizes DEF CutElements
<1>6. ASSUME NEW x \in Offsets
      PROVE  /\ u[x].n = IF x = c /\ o1 # f1 THEN e - c - 2
                         ELSE IF x = o0 THEN c - o0 - 2
                         ELSE IF x = f0 THEN o0 - f0 - 2 ELSE t[x].n
             /\ u[x].free = IF x = c /\ o1 # f1 THEN TRUE
                            ELSE IF x = o0 THEN FALSE
                            ELSE IF x = f0 THEN TRUE ELSE t[x].free
             /\ u[x].prevN = IF x = e /\ o1 # f1 THEN e - c - 2
                             ELSE IF x = c THEN c - o0 - 2
                             ELSE IF x = o0 /\ o0 # f0 THEN o0 - f0 - 2 ELSE t[x].prevN
             /\ u[x].prevFree = IF x = e /\ o1 # f1 THEN TRUE
                                ELSE IF x = c THEN FALSE
                                ELSE IF x = o0 /\ o0 # f0 THEN TRUE ELSE t[x].prevFree
    <2>1. f1 - o1 - Overhead = e - c - 2 /\ o1 - o0 = c - o0 - 2 /\ f1 + Overhead = e
          /\ o1 + Overhead = c /\ Overhead = 2 BY <1>1, <1>3, Sizes
    <2> QED BY <2>1 DEF Cut
<1>7. \A x \in E : x \in Int /\ x \in Offsets /\ x >= 2 /\ x <= len BY ChainedAt
<1>8. h.len = len /\ m.len = len OBVIOUS
<1>9. \A x \in E \ {len} : /\ t[x].n \in Nat /\ t[x].n >= 2 /\ After(t, x) = x + t[x].n + 2
                           /\ After(t, x) \in E /\ x < After(t, x)
                           /\ \A y \in E : y <= x \/ y >= After(t, x)
                           /\ t[After(t, x)].prevN = t[x].n
                           /\ t[After(t, x)].prevFree = t[x].free
    <2> TAKE x \in E \ {len}
    <2>1. t[x].n \in Nat /\ After(t, x) >= x + 4 /\ After(t, x) \in Int /\ x \in Int BY ChainedAt
    <2>2. After(t, x) = x + t[x].n + 2 BY Sizes DEF After
    <2>3. /\ t[x].n >= MinData /\ After(t, x) \in E
          /\ \A y \in E : y <= x \/ y >= After(t, x)
          /\ t[After(t, x)].prevN = t[x].n
          /\ t[After(t, x)].prevFree = t[x].free BY DEF Chained, Chain
    <2>4. x < After(t, x) BY <2>1
    <2>5. t[x].n >= 2 BY <2>3, Sizes
    <2> QED BY <2>1, <2>2, <2>3, <2>4, <2>5
<1> HIDE DEF G, e, c, t, u, len
<1>10. c \in Int /\ c >= o0 + 4 /\ e >= c /\ (o1 = f1 <=> c = e) /\ (c # e => e >= c + 4)
    BY <1>1, <1>3, <1>4 DEF c, e
<1>11. \A y \in G : y \in Offsets /\ y \in Int /\ y <= len
    <2>1. o0 <= len BY <1>1, <1>3, <1>10
    <2>2. o1 # f1 => c \in Offsets /\ c \in Int /\ c <= len BY <1>1, <1>3, <1>4, <1>10
    <2> QED BY <2>1, <2>2, <1>3, <1>5, <1>7
<1>12. ASSUME NEW y \in G \ {len}
       PROVE  /\ u[y].n >= 2 /\ y + u[y].n + 2 \in G
              /\ \A x \in G : x <= y \/ x >= y + u[y].n + 2
              /\ u[y + u[y].n + 2].prevN = u[y].n
              /\ u[y + u[y].n + 2].prevFree = u[y].free
    <2>1. CASE y = c /\ o1 # f1
        <3>1. u[y].n = e - c - 2 /\ u[y].free = TRUE BY <2>1, <1>6, <1>11
        <3>2. y + u[y].n + 2 = e BY <3>1, <2>1, <1>3, <1>10
        <3>3. \A x \in G : x <= c \/ x >= e BY <1>1, <1>3, <1>4, <1>5, <1>7, <1>10
        <3>4. u[e].prevN = e - c - 2 /\ u[e].prevFree = TRUE BY <2>1, <1>3, <1>6
        <3>5. e - c - 2 >= 2 BY <2>1, <1>3, <1>10
        <3> QED BY <2>1, <3>1, <3>2, <3>3, <3>4, <3>5, <1>1, <1>5
    <2>2. CASE y = o0 /\ ~ (y = c /\ o1 # f1)
        <3>1. u[y].n = c - o0 - 2 /\ u[y].free = FALSE BY <2>2, <1>6, <1>11
        <3>2. y + u[y].n + 2 = c BY <3>1, <2>2, <1>3, <1>10
        <3>3. \A x \in G : x <= o0 \/ x >= c BY <1>1, <1>3, <1>4, <1>5, <1>7, <1>10
        <3>4. c \in Offsets /\ c \in G BY <1>1, <1>3, <1>4, <1>5, <1>10
        <3>5. u[c].prevN = c - o0 - 2 /\ u[c].prevFree = FALSE BY <3>4, <1>6, <1>10
        <3>6. c - o0 - 2 >= 2 BY <1>3, <1>10
        <3> QED BY <2>2, <3>1, <3>2, <3>3, <3>4, <3>5, <3>6
    <2>3. CASE y = f0 /\ o0 # f0
        <3>1. f0 # c /\ f0 # o0 BY <2>3, <1>1, <1>3, <1>4, <1>10
        <3>2. u[y].n = o0 - f0 - 2 /\ u[y].free = TRUE BY <2>3, <3>1, <1>6, <1>11
        <3>3. y + u[y].n + 2 = o0 BY <3>2, <2>3, <1>1, <1>3
        <3>4. \A x \in G : x <= f0 \/ x >= o0 BY <1>1, <1>3, <1>4, <1>5, <1>7, <1>10
        <3>5. o0 # c /\ o0 # e BY <1>3, <1>10
        <3>6. u[o0].prevN = o0 - f0 - 2 /\ u[o0].prevFree = TRUE BY <2>3, <3>5, <1>3, <1>6
        <3>7. o0 - f0 - 2 >= 2 BY <2>3, <1>1, <1>3
        <3> QED BY <2>3, <3>2, <3>3, <3>4, <3>6, <3>7, <1>5
    <2>4. CASE y \in E /\ y # f0 /\ y # o0 /\ ~ (y = c /\ o1 # f1)
        <3> DEFINE a == After(t, y)
        <3>1. /\ t[y].n \in Nat /\ t[y].n >= 2 /\ a = y + t[y].n + 2 /\ a \in E /\ y < a
              /\ \A x \in E : x <= y \/ x >= a
              /\ t[a].prevN = t[y].n /\ t[a].prevFree = t[y].free BY <2>4, <1>9
        <3> HIDE DEF a
        <3>2. u[y].n = t[y].n /\ u[y].free = t[y].free BY <2>4, <1>6, <1>7
        <3>3. (y < f0 /\ a <= f0) \/ y >= e
            <4>1. y <= f0 \/ y >= e BY <2>4, <1>1
            <4>2. f0 <= y \/ f0 >= a BY <3>1, <1>1
            <4>3. y \in Int /\ a \in Int /\ f0 \in Int BY <2>4, <3>1, <1>1, <1>7
            <4> QED BY <2>4, <4>1, <4>2, <4>3
        <3>7. y \in Int /\ a \in Int /\ f0 \in Int /\ y >= 2 BY <2>4, <3>1, <1>1, <1>7
        <3>4. a # e /\ a # c /\ (a = o0 => o0 = f0) /\ a \in Int
            <4>1. CASE y >= e BY <4>1, <3>1, <3>7, <1>3, <1>4, <1>10
            <4>2. CASE y < f0 /\ a <= f0 BY <4>2, <3>1, <3>7, <1>3, <1>4, <1>10
            <4> QED BY <4>1, <4>2, <3>3
        <3>5. u[a].prevN = t[a].prevN /\ u[a].prevFree = t[a].prevFree BY <3>1, <3>4, <1>6, <1>7
        <3>6. \A x \in G : x <= y \/ x >= a
            <4>1. o0 <= y \/ o0 >= a
                <5>1. CASE y >= e BY <5>1, <3>7, <1>3, <1>4, <1>10
                <5>2. CASE y < f0 /\ a <= f0 BY <5>2, <3>7, <1>3, <1>4, <1>10
                <5> QED BY <5>1, <5>2, <3>3
            <4>2. c <= y \/ c >= a
                <5>1. CASE y >= e BY <5>1, <3>7, <1>3, <1>4, <1>10
                <5>2. CASE y < f0 /\ a <= f0 BY <5>2, <3>7, <1>3, <1>4, <1>10
                <5> QED BY <5>1, <5>2, <3>3
            <4> QED BY <3>1, <4>1, <4>2, <1>5
        <3> QED BY <3>1, <3>2, <3>5, <3>6, <1>5
    <2> QED BY <2>1, <2>2, <2>3, <2>4, <1>5
<1>13. Chained(h, G)
    <2>1. h.tag \in [Offsets -> Tags] /\ h.len \in FirstElt .. MaxSize
        BY <1>1, <1>8, Sizes DEF Heaps
    <2>2. G \subseteq FirstElt .. len /\ FirstElt \in G /\ len \in G
        <3>1. FirstElt \in E /\ len \in E BY <1>8 DEF Chained, Chain
        <3>2. \A y \in G : y >= 2 BY <1>1, <1>3, <1>4, <1>5, <1>7, <1>10
        <3> QED BY <3>1, <3>2, <1>5, <1>11, Sizes
    <2>3. u[FirstElt].prevN = Invalid /\ ~ u[FirstElt].prevFree
        <3>1. t[FirstElt].prevN = Invalid /\ ~ t[FirstElt].prevFree /\ FirstElt \in Offsets
            BY Sizes DEF Chained, Chain, t
        <3>2. FirstElt # e /\ FirstElt # c /\ ~ (FirstElt = o0 /\ o0 # f0)
            BY <1>1, <1>3, <1>4, <1>10, Sizes
        <3> QED BY <3>1, <3>2, <1>6
    <2>4. u[len].n = Invalid
        <3>1. len \in Offsets /\ len > FirstElt BY <1>1, <1>3, Sizes
        <3>2. t[len].n = Invalid BY <3>1 DEF Chained, Chain, t, len
        <3>3. len # c /\ len # o0 /\ len # f0 BY <1>1, <1>3, <1>4, <1>10
        <3> QED BY <3>1, <3>2, <3>3, <1>6
    <2>5. \A y \in G : After(u, y) = y + u[y].n + 2 BY Sizes DEF After
    <2>6. Chain(u, len, G) BY <2>2, <2>3, <2>4, <2>5, <1>12, Sizes DEF Chain
    <2> QED BY <2>1, <2>6, <1>8 DEF Chained, u
<1>14. \A x \in E : x # f0 /\ x # e => x # o0 /\ x # c
    BY <1>1, <1>3, <1>4, <1>7, <1>10
<1>15. Apart(h, G)
    <2> SUFFICES ASSUME NEW y \in G, y = len \/ u[y].free PROVE ~ u[y].prevFree BY <1>8 DEF Apart, u
    <2>1. CASE y = c /\ o1 # f1
        <3>1. y # e BY <2>1, <1>10
        <3> QED BY <2>1, <3>1, <1>6, <1>11
    <2>2. CASE y = o0 /\ ~ (y = c /\ o1 # f1)
        <3>1. y # len BY <2>2, <1>3, <1>4, <1>10
        <3>2. u[y].free = FALSE BY <2>2, <1>3, <1>6
        <3> QED BY <3>1, <3>2
    <2>3. CASE y = f0 /\ o0 # f0
        <3>1. y # e /\ y # c /\ y # o0 BY <2>3, <1>1, <1>3, <1>4, <1>10
        <3> QED BY <2>3, <3>1, <1>1, <1>6, <1>11
    <2>4. CASE y \in E /\ y # f0 /\ y # o0 /\ ~ (y = c /\ o1 # f1)
        <3>1. u[y].free = t[y].free BY <2>4, <1>6, <1>7
        <3>2. ~ t[y].prevFree BY <2>4, <3>1, <1>8 DEF Apart, t
        <3>3. y # e BY <3>2, <1>1
        <3>4. y # c BY <2>4, <3>3, <1>10
        <3>5. u[y].prevFree = t[y].prevFree BY <2>4, <3>3, <3>4, <1>6, <1>7
        <3> QED BY <3>2, <3>5
    <2> QED BY <2>1, <2>2, <2>3, <2>4, <1>5
<1>16. o0 \notin Used(m, E) BY <1>1, <1>3, <1>4, <1>7, <1>10 DEF Used, t
<1>17. \A x \in E \ {f0} : u[x].n = t[x].n /\ u[x].free = t[x].free
    <2> TAKE x \in E \ {f0}
    <2>1. x # o0 /\ ~ (x = c /\ o1 # f1) BY <1>1, <1>3, <1>4, <1>7, <1>10
    <2> QED BY <2>1, <1>6, <1>7
<1>18. /\ u[o0].free = FALSE /\ o0 # len /\ (o1 # f1 => u[c].free = TRUE /\ c # len)
       /\ (o0 # f0 => u[f0].free = TRUE)
    <2>1. o0 # c /\ o0 # len /\ f0 # c BY <1>1, <1>3, <1>4, <1>10
    <2>2. c # len \/ o1 = f1 BY <1>3, <1>10
    <2> QED BY <2>1, <2>2, <1>3, <1>4, <1>6
<1>19. Used(h, G) = Used(m, E) \cup {o0}
    <2>1. ASSUME NEW x \in G, x # len, ~ u[x].free PROVE x \in Used(m, E) \cup {o0}
        <3> SUFFICES ASSUME x # o0 PROVE x \in Used(m, E) OBVIOUS
        <3>1. x \in E /\ x # f0 BY <2>1, <1>5, <1>18
        <3> QED BY <2>1, <3>1, <1>8, <1>17 DEF Used, t
    <2>2. ASSUME NEW x \in Used(m, E) PROVE x \in G /\ x # len /\ ~ u[x].free
        <3>1. x \in E /\ x # len /\ ~ t[x].free BY <1>8 DEF Used, t
        <3> QED BY <3>1, <1>1, <1>5, <1>17
    <2> QED BY <2>1, <2>2, <1>5, <1>8, <1>18 DEF Used, u
<1>20. Frees(h, G) = (Frees(m, E) \ {f0}) \cup (IF o0 = f0 THEN {} ELSE {f0})
                         \cup (IF o1 = f1 THEN {} ELSE {c})
    <2>1. ASSUME NEW x \in G, x # len, u[x].free
          PROVE  x \in (Frees(m, E) \ {f0}) \cup (IF o0 = f0 THEN {} ELSE {f0})
                         \cup (IF o1 = f1 THEN {} ELSE {c})
        <3> SUFFICES ASSUME ~ (x = f0 /\ o0 # f0), ~ (x = c /\ o1 # f1) PROVE x \in Frees(m, E) \ {f0}
            OBVIOUS
        <3>1. x # o0 BY <2>1, <1>18
        <3>2. x \in E /\ x # f0 BY <3>1, <1>5
        <3> QED BY <2>1, <3>2, <1>8, <1>17 DEF Frees, t
    <2>2. ASSUME NEW x \in Frees(m, E) \ {f0} PROVE x \in G /\ x # len /\ u[x].free
        <3>1. x \in E /\ x # len /\ t[x].free /\ x # f0 BY <1>8 DEF Frees, t
        <3> QED BY <3>1, <1>5, <1>17
    <2> QED BY <2>1, <2>2, <1>1, <1>5, <1>8, <1>18 DEF Frees, u
<1>21. \A x \in Used(m, E) : u[x].n = t[x].n
    <2> TAKE x \in Used(m, E)
    <2>1. x \in E /\ ~ t[x].free BY DEF Used, t
    <2> QED BY <2>1, <1>1, <1>17
<1>22. o1 + Overhead = c BY Sizes DEF c
<1> QED BY <1>3, <1>13, <1>15, <1>16, <1>19, <1>20, <1>21, <1>22 DEF G, u, t

\* Mapping and unmapping pages touches nothing else.
LEMMA MappedOnly ==
    ASSUME NEW m, NEW F, Lists(m, F), NEW p, p \subseteq 0 .. MaxSize
    PROVE  LET h == [m EXCEPT !.mapped = p]
           IN  Lists(h, F) /\ h.len = m.len /\ h.tag = m.tag
<1> DEFINE h == [m EXCEPT !.mapped = p]
<1>1. m \in Heaps BY DEF Lists
<1>2. /\ h \in Heaps /\ h.len = m.len /\ h.tag = m.tag /\ h.link = m.link /\ h.first = m.first
    BY <1>1 DEF Heaps
<1> HIDE DEF h
<1>3. Lists(h, F) BY <1>2, ListsSame
<1> QED BY <1>2, <1>3 DEF h

Good(m)  == Sound(m, Elements(m))
InUse(m) == Used(m, Elements(m))

Parts == {"len", "tag", "link", "first", "mapped"}
\* The pages stay mapped as they are when tags and links change.
LEMMA PagesStay ==
    ASSUME NEW m, DOMAIN m = Parts, NEW o, NEW n, NEW free, NEW bin
    PROVE  /\ DOMAIN SetSize(m, o, n, free) = Parts /\ SetSize(m, o, n, free).mapped = m.mapped
           /\ DOMAIN RemoveFree(m, o, bin) = Parts /\ RemoveFree(m, o, bin).mapped = m.mapped
           /\ RemoveFree(m, o, bin).tag = m.tag
           /\ DOMAIN SetFree(m, o, n) = Parts /\ SetFree(m, o, n).mapped = m.mapped
<1>1. ASSUME NEW k, DOMAIN k = Parts, NEW t
      PROVE  /\ DOMAIN [k EXCEPT !.tag = t] = Parts /\ [k EXCEPT !.tag = t].mapped = k.mapped
             /\ DOMAIN [k EXCEPT !.link = t] = Parts /\ [k EXCEPT !.link = t].mapped = k.mapped
             /\ DOMAIN [k EXCEPT !.first = t] = Parts /\ [k EXCEPT !.first = t].mapped = k.mapped
    BY <1>1 DEF Parts
<1>2. DOMAIN SetSize(m, o, n, free) = Parts /\ SetSize(m, o, n, free).mapped = m.mapped
    BY DEF SetSize, Parts
<1>3. /\ DOMAIN RemoveFree(m, o, bin) = Parts /\ RemoveFree(m, o, bin).mapped = m.mapped
      /\ RemoveFree(m, o, bin).tag = m.tag
    BY DEF RemoveFree, Parts
<1>4. DOMAIN SetFree(m, o, n) = Parts /\ SetFree(m, o, n).mapped = m.mapped
    BY DEF SetFree, Parts
<1> QED BY <1>2, <1>3, <1>4

\* The words that only the free elements' size tells about: their inside.
Hole(m, w) == \E f \in Frees(m, Elements(m)) : f + 2 <= w /\ w < f + m.tag[f].n

\* All other words are in mapped pages.
Backed(m) == \A w \in 0 .. m.len - 1 : ~ Hole(m, w) => w \div PageSize \in m.mapped

\* What an operation does to the inside of free elements: splitting one,
CutAs(m, h, f0, f1, o0, o1) ==
    /\ h.len = m.len /\ Cut(m.tag, h.tag, f0, f1, o0, o1)
    /\ Frees(h, Elements(h)) = (Frees(m, Elements(m)) \ {f0})
                                   \cup (IF o0 = f0 THEN {} ELSE {f0})
                                   \cup (IF o1 = f1 THEN {} ELSE {o1 + Overhead})

\* extending the heap to f1,
GrownAs(m, h, f1) ==
    /\ h.len = f1 /\ f1 \in 0 .. MaxSize
    /\ \A f \in Frees(m, Elements(m)) : f \in Frees(h, Elements(h)) /\ h.tag[f].n = m.tag[f].n

\* and freeing, which unmaps the pages from p to e inside what is free or
\* behind the heap now.
FreedAs(m, h, p, e) ==
    /\ h.len \in Nat /\ h.len <= m.len /\ p \in Int /\ e \in Int
    /\ h.mapped = m.mapped \ Pages(RoundUp(p, PageSize), Floor(e, PageSize))
    /\ \A w \in 0 .. h.len - 1 : Hole(m, w) \/ (p <= w /\ w < e) => Hole(h, w)
FreedTo(m, h) == \E p, e : FreedAs(m, h, p, e)

\* h is m with one block more, at o, for the request r.
Gives(m, h, o, r) ==
    /\ Good(h) /\ o \in Offsets /\ o \notin InUse(m) /\ InUse(h) = InUse(m) \cup {o}
    /\ \A x \in InUse(m) : h.tag[x].n = m.tag[x].n
    /\ h.tag[o].n >= r.n /\ (o + r.alignOffset) % r.align = 0

\* h is m with one block fewer.
Takes(m, h, o) ==
    /\ Good(h) /\ InUse(h) = InUse(m) \ {o}
    /\ \A x \in InUse(h) : h.tag[x].n = m.tag[x].n

LEMMA TidyGives ==
    ASSUME NEW m, NEW h, NEW o, NEW r, Gives(m, h, o, r)
    PROVE  Gives(m, Tidy(h), o, r)
<1> DEFINE E == Elements(h)
           k == Tidy(h)
<1>1. Sound(h, E) BY DEF Gives, Good
<1> HIDE DEF E
<1>2. Sound(k, E) /\ Used(k, E) = Used(h, E) /\ \A x \in E : k.tag[x] = h.tag[x] BY <1>1, TidyKeeps
<1> HIDE DEF k
<1>3. Elements(k) = E BY <1>2, SoundElements
<1>4. Good(k) /\ InUse(k) = InUse(h) BY <1>2, <1>3 DEF Good, InUse, E
<1>5. InUse(h) \subseteq E BY DEF InUse, Used, E
<1>6. o \in E /\ InUse(m) \subseteq E BY <1>5 DEF Gives
<1> QED BY <1>2, <1>4, <1>6 DEF Gives, k

LEMMA TidyTakes ==
    ASSUME NEW m, NEW h, NEW o, Takes(m, h, o)
    PROVE  Takes(m, Tidy(h), o)
<1> DEFINE E == Elements(h)
           k == Tidy(h)
<1>1. Sound(h, E) BY DEF Takes, Good
<1> HIDE DEF E
<1>2. Sound(k, E) /\ Used(k, E) = Used(h, E) /\ \A x \in E : k.tag[x] = h.tag[x] BY <1>1, TidyKeeps
<1> HIDE DEF k
<1>3. Elements(k) = E BY <1>2, SoundElements
<1>4. Good(k) /\ InUse(k) = InUse(h) BY <1>2, <1>3 DEF Good, InUse, E
<1>5. InUse(h) \subseteq E BY DEF InUse, Used, E
<1> QED BY <1>2, <1>4, <1>5 DEF Takes, k

LEMMA CarvedGives ==
    ASSUME NEW m, Good(m), NEW f0 \in Frees(m, Elements(m)), NEW r \in Asked, Fits(m, f0, r)
    PROVE  LET h  == Carved(m, f0, r)
               f1 == f0 + m.tag[f0].n
               o0 == Place(f0, f1, r)
           IN  Gives(m, h, o0, r) /\ CutAs(m, h, f0, f1, o0, o0 + SizeGiven(f1, o0, r.n))
<1> DEFINE E  == Elements(m)
           F  == Frees(m, E)
           f1 == f0 + m.tag[f0].n
           o0 == Place(f0, f1, r)
           n  == SizeGiven(f1, o0, r.n)
           o1 == o0 + n
           mm == MapBlock(m, f0, f1, o0, o1)
           m1 == RemoveFree2(mm, f0)
           m2 == IF o0 = f0 THEN m1 ELSE NewFree(m1, f0, o0 - f0 - Overhead)
           m3 == SetSize(m2, o0, n, FALSE)
           h  == IF o1 = f1 THEN m3 ELSE NewFree(m3, o1 + Overhead, f1 - o1 - Overhead)
           F2 == (F \ {f0}) \cup (IF o0 = f0 THEN {} ELSE {f0})
           F4 == F2 \cup (IF o1 = f1 THEN {} ELSE {o1 + Overhead})
<1>1. Sound(m, E) /\ f0 \in F BY DEF Good
<1>2. E # {} BY DEF Frees
<1>3. Chained(m, E) /\ Apart(m, E) /\ m \in Heaps /\ Lists(m, F) BY <1>1, <1>2, SoundChained DEF Sound
<1> HIDE DEF E
<1>4. /\ f0 \in E /\ f0 # m.len /\ f0 \in Int /\ f0 >= 2 /\ f0 \in Offsets /\ m.tag[f0].n \in Nat
      /\ f1 \in Int /\ f1 + 2 <= m.len /\ f1 + 2 \in E /\ m.len <= MaxSize /\ m.len \in Int
      /\ \A x \in E : x \in Int /\ (x <= f0 \/ x >= f1 + 2)
    <2>1. f0 \in E /\ f0 # m.len BY <1>1 DEF Frees
    <2>2. /\ f0 \in Int /\ f0 >= 2 /\ f0 \in Offsets /\ m.tag[f0].n \in Nat
          /\ m.len <= MaxSize /\ m.len \in Int /\ After(m.tag, f0) <= m.len BY <2>1, <1>3, ChainedAt
    <2>3. After(m.tag, f0) = f1 + 2 BY <2>2, Sizes DEF After
    <2>4. After(m.tag, f0) \in E /\ \A x \in E : x <= f0 \/ x >= After(m.tag, f0)
        BY <1>3, <2>1 DEF Chained, Chain
    <2>5. \A x \in E : x \in Int BY <1>3, ChainedAt
    <2> QED BY <2>1, <2>2, <2>3, <2>4, <2>5
<1>5. f1 = f0 + m.tag[f0].n OBVIOUS
<1>6. o0 >= f0 /\ o0 + r.n <= f1 BY DEF Fits
<1>7. o0 \in Int /\ (o0 + r.alignOffset) % r.align = 0 /\ (o0 <= f0 \/ o0 - f0 - Overhead >= MinData)
    <2> HIDE DEF f1
    <2> QED BY <1>4, PlaceIs
<1>8. Carved(m, f0, r) = IF o1 = f1 THEN SetSize(IF o0 = f0 THEN RemoveFree(mm, f0, BinOf(m.tag[f0].n))
                                                 ELSE NewFree(RemoveFree(mm, f0, BinOf(m.tag[f0].n)), f0, o0 - f0 - Overhead), o0, n, FALSE)
                         ELSE NewFree(SetSize(IF o0 = f0 THEN RemoveFree(mm, f0, BinOf(m.tag[f0].n))
                                                 ELSE NewFree(RemoveFree(mm, f0, BinOf(m.tag[f0].n)), f0, o0 - f0 - Overhead), o0, n, FALSE), o1 + Overhead, f1 - o1 - Overhead)
    BY DEF Carved
<1>9. r.n \in Nat /\ r.n >= 2 BY AskedFor, Sizes
<1> HIDE DEF F, f1, o0
<1>10. n \in Int /\ n >= r.n /\ (o0 + n = f1 \/ o0 + n + 4 <= f1)
    <2>1. CASE f1 - o0 - r.n < 4
        <3>1. n = f1 - o0 BY <2>1, Sizes DEF SizeGiven
        <3> QED BY <3>1, <1>4, <1>6, <1>7, <1>9
    <2>2. CASE ~ (f1 - o0 - r.n < 4)
        <3>1. n = r.n BY <2>2, Sizes DEF SizeGiven
        <3> QED BY <2>2, <3>1, <1>4, <1>6, <1>7, <1>9
    <2> QED BY <2>1, <2>2
<1> HIDE DEF n
<1>11. /\ o1 \in Int /\ o1 >= o0 + 2 /\ (o1 = f1 \/ o1 + 4 <= f1) /\ o1 - o0 = n
       /\ (o0 = f0 \/ o0 >= f0 + 4) /\ n \in 0 .. Invalid /\ n \in Nat
    BY <1>4, <1>6, <1>7, <1>9, <1>10, Sizes
<1>12. Lists(mm, F) /\ mm.len = m.len /\ mm.tag = m.tag
    <2>1. PICK s, e : mm = [m EXCEPT !.mapped = m.mapped \cup Pages(s, e)]
        <3> HIDE DEF o1
        <3> QED BY DEF MapBlock
    <2> HIDE DEF mm
    <2>2. m.mapped \subseteq 0 .. MaxSize /\ Pages(s, e) \subseteq 0 .. MaxSize BY <1>3 DEF Heaps, Pages
    <2> QED BY <2>1, <2>2, <1>3, MappedOnly
<1> HIDE DEF mm
<1>13. Lists(m1, F \ {f0}) /\ m1.len = m.len /\ m1.tag = m.tag BY <1>1, <1>12, RemoveFreeKeeps
<1>14. m1 = RemoveFree(mm, f0, BinOf(m.tag[f0].n)) BY <1>12 DEF RemoveFree2
<1>15. Carved(m, f0, r) = h BY <1>8, <1>14
<1> HIDE DEF m1, o1
<1>16. /\ Lists(m2, F2) /\ m2.len = m.len
       /\ o0 # f0 => SizeSet(m.tag, m2.tag, f0, o0 - f0 - Overhead, TRUE)
       /\ o0 = f0 => m2.tag = m.tag
    <2>1. CASE o0 = f0
        <3>1. F2 = F \ {f0} /\ m2 = m1 BY <2>1
        <3> QED BY <2>1, <3>1, <1>13
    <2>2. CASE o0 # f0
        <3> DEFINE k == o0 - f0 - Overhead
        <3>1. k \in MinData .. MaxSize /\ f0 + k + Overhead = o0 /\ o0 \in Offsets
            <4>1. /\ f0 \in Int /\ f1 \in Int /\ o0 \in Int /\ o1 \in Int /\ f0 >= 2
                  /\ f1 + 2 <= MaxSize BY <1>4, <1>7, <1>11, Sizes
            <4>2. o0 >= f0 + 4 /\ o1 >= o0 + 2 /\ o1 <= f1 BY <2>2, <4>1, <1>11
            <4> QED BY <4>1, <4>2, Sizes
        <3>2. F2 = (F \ {f0}) \cup {f0} /\ m2 = NewFree(m1, f0, k) BY <2>2
        <3> HIDE DEF k, m2, F2
        <3>3. f0 \in Offsets \ (F \ {f0}) BY <1>4
        <3>4. /\ Lists(m2, (F \ {f0}) \cup {f0}) /\ m2.len = m1.len
              /\ SizeSet(m1.tag, m2.tag, f0, k, TRUE)
            BY <3>1, <3>2, <3>3, <1>13, NewFreeKeeps
        <3> QED BY <2>2, <3>2, <3>4, <1>13 DEF k
    <2> QED BY <2>1, <2>2
<1> HIDE DEF m2
<1>17. \A x \in F : x \in Int /\ (x <= f0 \/ x >= f1 + 2) BY <1>4 DEF F, Frees
<1>18. o0 \in Offsets /\ o0 \notin F2 /\ o0 + n + Overhead \in Offsets
    <2>1. o0 \in Offsets /\ o0 + n + Overhead \in Offsets BY <1>4, <1>6, <1>7, <1>9, <1>10, Sizes
    <2>2. CASE o0 = f0 BY <2>1, <2>2
    <2>3. CASE o0 # f0
        <3>1. o0 > f0 /\ o0 < f1 + 2 BY <2>3, <1>4, <1>6, <1>7, <1>9
        <3>2. o0 \notin F BY <3>1, <1>17, <1>4
        <3> QED BY <2>1, <2>3, <3>2
    <2> QED BY <2>2, <2>3
<1>19. /\ m3 \in Heaps /\ m3.len = m.len /\ SizeSet(m2.tag, m3.tag, o0, n, FALSE) /\ Lists(m3, F2)
    <2>1. m2 \in Heaps /\ F2 \subseteq Offsets BY <1>16 DEF Lists
    <2>2. /\ m3 \in Heaps /\ m3.len = m2.len /\ m3.link = m2.link /\ m3.first = m2.first
          /\ SizeSet(m2.tag, m3.tag, o0, n, FALSE) BY <2>1, <1>11, <1>18, SetSizeIs
    <2> HIDE DEF m3, F2
    <2>3. \A x \in F2 : m3.link[x] = m2.link[x] /\ m3.tag[x].n = m2.tag[x].n
        BY <2>1, <2>2, <1>18 DEF SizeSet
    <2> QED BY <2>2, <2>3, <1>16, ListsSame
<1> HIDE DEF m3
<1>20. /\ Lists(h, F4) /\ h.len = m.len
       /\ o1 # f1 => SizeSet(m3.tag, h.tag, o1 + Overhead, f1 - o1 - Overhead, TRUE)
       /\ o1 = f1 => h.tag = m3.tag
    <2>1. CASE o1 = f1
        <3>1. F4 = F2 /\ h = m3 BY <2>1
        <3> QED BY <2>1, <3>1, <1>19
    <2>2. CASE o1 # f1
        <3> DEFINE k == f1 - o1 - Overhead
                   c == o1 + Overhead
        <3>1. /\ k \in MinData .. MaxSize /\ c + k + Overhead \in Offsets /\ c \in Offsets
              /\ c > f0 /\ c < f1 + 2
            <4>1. /\ f0 \in Int /\ f1 \in Int /\ o0 \in Int /\ o1 \in Int /\ f0 >= 2
                  /\ f1 + 2 <= MaxSize BY <1>4, <1>7, <1>11, Sizes
            <4>2. o0 >= f0 /\ o1 >= o0 + 2 /\ o1 + 4 <= f1 BY <2>2, <1>6, <1>11
            <4> QED BY <4>1, <4>2, Sizes
        <3>2. F4 = F2 \cup {c} /\ h = NewFree(m3, c, k) BY <2>2
        <3>3. c \notin F /\ c # f0 BY <3>1, <1>17, <1>4, Sizes
        <3>4. c \in Offsets \ F2 BY <3>1, <3>3
        <3> HIDE DEF k, c, F4, F2, h
        <3>5. /\ Lists(h, F2 \cup {c}) /\ h.len = m3.len
              /\ SizeSet(m3.tag, h.tag, c, k, TRUE)
            BY <3>1, <3>2, <3>4, <1>19, NewFreeKeeps
        <3> QED BY <2>2, <3>2, <3>5, <1>19 DEF k, c
    <2> QED BY <2>1, <2>2
<1> HIDE DEF h
<1>21. Cut(m.tag, h.tag, f0, f1, o0, o1)
    <2> SUFFICES ASSUME NEW x \in Offsets
                 PROVE
        /\ h.tag[x].n = IF x = o1 + Overhead /\ o1 # f1 THEN f1 - o1 - Overhead
                    ELSE IF x = o0 THEN o1 - o0
                    ELSE IF x = f0 THEN o0 - f0 - Overhead ELSE m.tag[x].n
        /\ h.tag[x].free = IF x = o1 + Overhead /\ o1 # f1 THEN TRUE
                       ELSE IF x = o0 THEN FALSE
                       ELSE IF x = f0 THEN TRUE ELSE m.tag[x].free
        /\ h.tag[x].prevN = IF x = f1 + Overhead /\ o1 # f1 THEN f1 - o1 - Overhead
                        ELSE IF x = o1 + Overhead THEN o1 - o0
                        ELSE IF x = o0 /\ o0 # f0 THEN o0 - f0 - Overhead ELSE m.tag[x].prevN
        /\ h.tag[x].prevFree = IF x = f1 + Overhead /\ o1 # f1 THEN TRUE
                           ELSE IF x = o1 + Overhead THEN FALSE
                           ELSE IF x = o0 /\ o0 # f0 THEN TRUE ELSE m.tag[x].prevFree
        BY DEF Cut
    <2>1. o0 + n + Overhead = o1 + Overhead /\ f0 + (o0 - f0 - Overhead) + Overhead = o0
          /\ (o1 + Overhead) + (f1 - o1 - Overhead) + Overhead = f1 + Overhead /\ n = o1 - o0
        <3>1. f0 \in Int /\ f1 \in Int /\ o0 \in Int /\ o1 \in Int /\ n \in Int /\ n = o1 - o0
            BY <1>4, <1>7, <1>10, <1>11
        <3> QED BY <3>1, Sizes
    <2>2. /\ m3.tag[x].n = IF x = o0 THEN n ELSE m2.tag[x].n
          /\ m3.tag[x].free = IF x = o0 THEN FALSE ELSE m2.tag[x].free
          /\ m3.tag[x].prevN = IF x = o1 + Overhead THEN n ELSE m2.tag[x].prevN
          /\ m3.tag[x].prevFree = IF x = o1 + Overhead THEN FALSE ELSE m2.tag[x].prevFree
        BY <2>1, <1>19 DEF SizeSet
    <2>3. /\ m2.tag[x].n = IF x = f0 /\ o0 # f0 THEN o0 - f0 - Overhead ELSE m.tag[x].n
          /\ m2.tag[x].free = IF x = f0 /\ o0 # f0 THEN TRUE ELSE m.tag[x].free
          /\ m2.tag[x].prevN = IF x = o0 /\ o0 # f0 THEN o0 - f0 - Overhead ELSE m.tag[x].prevN
          /\ m2.tag[x].prevFree = IF x = o0 /\ o0 # f0 THEN TRUE ELSE m.tag[x].prevFree
        <3>1. CASE o0 = f0 BY <3>1, <1>16
        <3>2. CASE o0 # f0 BY <3>2, <2>1, <1>16 DEF SizeSet
        <3> QED BY <3>1, <3>2
    <2>4. /\ h.tag[x].n = IF x = o1 + Overhead /\ o1 # f1 THEN f1 - o1 - Overhead ELSE m3.tag[x].n
          /\ h.tag[x].free = IF x = o1 + Overhead /\ o1 # f1 THEN TRUE ELSE m3.tag[x].free
          /\ h.tag[x].prevN = IF x = f1 + Overhead /\ o1 # f1 THEN f1 - o1 - Overhead
                              ELSE m3.tag[x].prevN
          /\ h.tag[x].prevFree = IF x = f1 + Overhead /\ o1 # f1 THEN TRUE ELSE m3.tag[x].prevFree
        <3>1. CASE o1 = f1 BY <3>1, <1>20
        <3>2. CASE o1 # f1 BY <3>2, <2>1, <1>20 DEF SizeSet
        <3> QED BY <3>1, <3>2
    <2> QED BY <2>1, <2>2, <2>3, <2>4
<1> DEFINE G == CutElements(E, f0, f1, o0, o1)
<1>22. h \in Heaps BY <1>20 DEF Lists
<1>23. /\ Chained(h, G) /\ Apart(h, G)
       /\ Used(h, G) = Used(m, E) \cup {o0} /\ o0 \notin Used(m, E) /\ o0 \in Offsets
       /\ Frees(h, G) = F4
       /\ \A x \in Used(m, E) : h.tag[x].n = m.tag[x].n
    BY <1>1, <1>3, <1>4, <1>5, <1>7, <1>11, <1>20, <1>21, <1>22, CutChain DEF F
<1> HIDE DEF G, F4
<1>24. Sound(h, G)
    <2>1. ~ h.tag[FirstElt].prevFree BY <1>23 DEF Chained, Chain
    <2> QED BY <2>1, <1>20, <1>23 DEF Sound
<1>25. Elements(h) = G BY <1>24, SoundElements
<1>26. h.tag[o0].n >= r.n
    <2>1. h.tag[o0].n = n
        <3>1. o0 # o1 + Overhead BY <1>7, <1>11, Sizes
        <3> QED BY <3>1, <1>11, <1>18, <1>21 DEF Cut
    <2> QED BY <2>1, <1>10
<1>27. Gives(m, h, o0, r) BY <1>7, <1>23, <1>24, <1>25, <1>26 DEF Gives, Good, InUse, E
<1>28. CutAs(m, h, f0, f1, o0, o1)
    BY <1>20, <1>21, <1>23, <1>25 DEF CutAs, F4, F2, F, E
<1> QED BY <1>15, <1>27, <1>28 DEF o1, n, o0, f1

\* The walk of a free list stays on free elements of its bin until it ends.
LEMMA ListedIs ==
    ASSUME NEW m, NEW F, Lists(m, F), NEW b \in Bins
    PROVE  LET K  == MaxSize \div EltWords
               at == Listed(m, b)
           IN  /\ K \in Nat /\ DOMAIN at = 0 .. K /\ at[0] = m.first[b]
               /\ \A k \in 1 .. K : at[k] = IF at[k - 1] = Nil THEN Nil ELSE m.link[at[k - 1]].next
               /\ \A k \in 0 .. K : at[k] # Nil => at[k] \in F /\ Bin(m, at[k]) = b
<1> DEFINE K == MaxSize \div EltWords
           S == {o \in F : Bin(m, o) = b} \cup {Nil}
           step == [x \in S |-> IF x = Nil THEN Nil ELSE m.link[x].next]
           a == m.first[b]
<1>1. K \in Nat BY Sizes
<1>2. \A x \in S : (IF x = Nil THEN Nil ELSE m.link[x].next) \in S
    <2> SUFFICES ASSUME NEW x \in S, x # Nil PROVE m.link[x].next \in S OBVIOUS
    <2>1. x \in F /\ Bin(m, x) = b OBVIOUS
    <2>2. Neighbours(m, F, x) BY <2>1 DEF Lists
    <2> QED BY <2>1, <2>2 DEF Neighbours
<1>3. step \in [S -> S] /\ \A x \in S : step[x] = IF x = Nil THEN Nil ELSE m.link[x].next BY <1>2
<1>4. a \in S BY DEF Lists, FirstOf
<1>5. K = MaxSize \div EltWords /\ a = m.first[b] OBVIOUS
<1>6. \A x \in S : x # Nil => x \in F /\ Bin(m, x) = b OBVIOUS
<1> HIDE DEF K, S, step, a
<1>7. PICK f : Stepped(f, S, a, step, K) BY <1>1, <1>3, <1>4, StepsUpTo
<1>8. f \in [0 .. K -> S] /\ f[0] = a /\ \A k \in 1 .. K : f[k] = step[f[k - 1]] BY <1>7 DEF Stepped
<1>9. \A k \in 1 .. K : /\ k \in 0 .. K /\ k - 1 \in 0 .. K /\ f[k - 1] \in S
                        /\ f[k] = IF f[k - 1] = Nil THEN Nil ELSE m.link[f[k - 1]].next
    BY <1>1, <1>3, <1>8
<1> DEFINE Is(at) == at = [k \in 0 .. K |-> IF k = 0 THEN a
                                            ELSE IF at[k - 1] = Nil THEN Nil
                                            ELSE m.link[at[k - 1]].next]
<1>10. Is(f)
    <2>1. \A k \in 0 .. K : f[k] = IF k = 0 THEN a
                                   ELSE IF f[k - 1] = Nil THEN Nil
                                   ELSE m.link[f[k - 1]].next
        <3> TAKE k \in 0 .. K
        <3>1. CASE k = 0 BY <3>1, <1>8
        <3>2. CASE k # 0
            <4>1. k \in 1 .. K BY <1>1, <3>2
            <4> QED BY <3>2, <4>1, <1>9
        <3> QED BY <3>1, <3>2
    <2> QED BY <1>8, <2>1
<1>11. Listed(m, b) = CHOOSE at : Is(at) BY <1>5, Zenon DEF Listed
<1>12. Is(Listed(m, b)) BY <1>10, <1>11, Zenon
<1> DEFINE w == Listed(m, b)
<1>13. /\ DOMAIN w = 0 .. K
       /\ \A k \in 0 .. K : w[k] = IF k = 0 THEN a
                                   ELSE IF w[k - 1] = Nil THEN Nil
                                   ELSE m.link[w[k - 1]].next
    BY <1>12, Zenon
<1> HIDE DEF w, Is
<1>14. \A k \in 0 .. K : w[k] \in S
    <2> DEFINE P == {k \in 0 .. K : w[k] \in S}
    <2>1. 0 \in P BY <1>1, <1>4, <1>13
    <2>2. \A k \in 1 .. K : k - 1 \in P => k \in P
        <3> SUFFICES ASSUME NEW k \in 1 .. K, k - 1 \in P PROVE k \in P OBVIOUS
        <3>1. k \in 0 .. K /\ k # 0 /\ w[k - 1] \in S BY <1>1
        <3>2. w[k] = IF w[k - 1] = Nil THEN Nil ELSE m.link[w[k - 1]].next BY <3>1, <1>13
        <3>3. step[w[k - 1]] = w[k] /\ step[w[k - 1]] \in S BY <3>1, <3>2, <1>3
        <3> QED BY <3>1, <3>3
    <2> HIDE DEF P
    <2>3. 0 .. K \subseteq P BY <1>1, <2>1, <2>2, AllNumbersUpTo
    <2> QED BY <2>3 DEF P
<1>15. w[0] = a /\ \A k \in 1 .. K : w[k] = IF w[k - 1] = Nil THEN Nil ELSE m.link[w[k - 1]].next
    <2>1. 0 \in 0 .. K BY <1>1
    <2>2. \A k \in 1 .. K : k \in 0 .. K /\ k # 0 BY <1>1
    <2> QED BY <2>1, <2>2, <1>13
<1> QED BY <1>1, <1>5, <1>6, <1>13, <1>14, <1>15 DEF w

LEMMA FreeEltIs ==
    ASSUME NEW m, Good(m), NEW r \in Asked, FreeEltFor(m, r) # Nil
    PROVE  FreeEltFor(m, r) \in Frees(m, Elements(m)) /\ Fits(m, FreeEltFor(m, r), r)
<1> DEFINE F == Frees(m, Elements(m))
           Fitting(b) == {k \in DOMAIN Listed(m, b) : Listed(m, b)[k] # Nil /\ Fits(m, Listed(m, b)[k], r)}
           B == {b \in Bins : b >= BinOf(r.n) /\ Fitting(b) # {}}
           b == Min(B)
           k == Min(Fitting(b))
<1>1. Lists(m, F) BY DEF Good, Sound
<1>2. FreeEltFor(m, r) = IF B = {} THEN Nil ELSE Listed(m, b)[k] BY DEF FreeEltFor
<1> HIDE DEF F
<1>3. B # {} BY <1>2
<1>4. b \in B
    <2>1. B \subseteq Nat BY BinsAreNumbers
    <2> HIDE DEF B
    <2> QED BY <2>1, <1>3, MinIsLeast
<1> HIDE DEF b
<1>5. b \in Bins /\ Fitting(b) # {} BY <1>4
<1>6. /\ DOMAIN Listed(m, b) = 0 .. MaxSize \div EltWords
      /\ \A i \in 0 .. MaxSize \div EltWords : Listed(m, b)[i] # Nil => Listed(m, b)[i] \in F
    BY <1>1, <1>5, ListedIs
<1>7. k \in Fitting(b)
    <2>1. Fitting(b) \subseteq Nat BY <1>6, Sizes
    <2> DEFINE S == Fitting(b)
    <2>2. S \subseteq Nat /\ S # {} BY <1>5, <2>1
    <2> HIDE DEF Fitting, S
    <2>3. Min(S) \in S BY <2>2, MinIsLeast
    <2> QED BY <2>3 DEF S
<1> QED BY <1>2, <1>3, <1>6, <1>7 DEF F

-----------------------------------------------------------------------------
(* Allocation at the end *)

LEMMA BegunKeeps ==
    ASSUME NEW m, Good(m)
    PROVE  LET h == Begun(m)
           IN  /\ Good(h) /\ InUse(h) = InUse(m) /\ Elements(h) # {}
               /\ \A x \in InUse(m) : h.tag[x].n = m.tag[x].n
<1>1. CASE m.len # 0
    <2>1. Begun(m) = m BY <1>1 DEF Begun
    <2>2. Sound(m, Elements(m)) BY DEF Good
    <2>3. Elements(m) # {} BY <1>1, <2>2 DEF Sound, Chained, Chain
    <2> QED BY <2>1, <2>3
<1>2. CASE m.len = 0
    <2> DEFINE h == Begun(m)
               p == m.mapped \cup Pages(RoundUp(0, PageSize), RoundUp(EltWords, PageSize))
               a == [m.tag[FirstElt] EXCEPT !.prevN = Invalid]
               t == [m.tag EXCEPT ![FirstElt] = a]
               G == {FirstElt}
    <2>1. Sound(m, Elements(m)) /\ Elements(m) = {} BY <1>2 DEF Good, Elements
    <2>2. Lists(m, {}) /\ m \in Heaps /\ ~ m.tag[FirstElt].prevFree
        <3>1. Frees(m, {}) = {} BY DEF Frees
        <3> QED BY <2>1, <3>1 DEF Sound, Lists
    <2>3. FirstElt \in Offsets /\ m.tag \in [Offsets -> Tags] BY <2>2, Sizes DEF Heaps
    <2>4. a \in Tags /\ a.prevN = Invalid /\ a.prevFree = m.tag[FirstElt].prevFree
        BY <2>3, Sizes DEF Tags
    <2>5. h = [[[m EXCEPT !.mapped = p] EXCEPT !.len = FirstElt] EXCEPT !.tag = t]
        BY <1>2 DEF Begun, Map
    <2>6. p \subseteq 0 .. MaxSize BY <2>2 DEF Heaps, Pages
    <2> HIDE DEF a, p, h
    <2>7. t \in [Offsets -> Tags] /\ t[FirstElt] = a BY <2>3, <2>4
    <2> HIDE DEF t
    <2>8. /\ h \in Heaps /\ h.len = FirstElt /\ h.tag = t /\ h.first = m.first
        <3>1. FirstElt \in 0 .. MaxSize BY Sizes
        <3> QED BY <2>2, <2>5, <2>6, <2>7, <3>1 DEF Heaps
    <2>9. Lists(h, {}) BY <2>2, <2>8, ListsSame
    <2>10. Frees(h, G) = {} /\ Used(h, G) = {} BY <2>8 DEF Frees, Used
    <2>11. Chained(h, G)
        BY <2>2, <2>3, <2>4, <2>7, <2>8, Sizes DEF Chained, Chain
    <2>12. Apart(h, G) BY <2>2, <2>4, <2>7, <2>8 DEF Apart
    <2>13. Sound(h, G) BY <2>9, <2>10, <2>11, <2>12, <2>2, <2>4, <2>7, <2>8 DEF Sound
    <2>14. Elements(h) = G BY <2>13, SoundElements
    <2>15. InUse(m) = {} BY <2>1 DEF InUse, Used
    <2> QED BY <2>10, <2>13, <2>14, <2>15 DEF Good, InUse, h
<1> QED BY <1>1, <1>2

\* The tags when the end at len moves to f1, with the block at o0 below it, and
\* a free element at len unless that is where the block is.
Grown(t, u, len, o0, f1) ==
    \A x \in Offsets :
        /\ u[x].n = IF x = f1 THEN Invalid
                    ELSE IF x = o0 THEN f1 - o0 - 2
                    ELSE IF x = len THEN o0 - len - 2 ELSE t[x].n
        /\ u[x].free = IF x = o0 THEN FALSE ELSE IF x = len THEN TRUE ELSE t[x].free
        /\ u[x].prevN = IF x = f1 THEN f1 - o0 - 2
                        ELSE IF x = o0 /\ o0 # len THEN o0 - len - 2 ELSE t[x].prevN
        /\ u[x].prevFree = IF x = f1 THEN FALSE
                           ELSE IF x = o0 /\ o0 # len THEN TRUE ELSE t[x].prevFree

Grew(m, E, h, G, o0) ==
    /\ Chained(h, G) /\ Apart(h, G)
    /\ Used(h, G) = Used(m, E) \cup {o0} /\ o0 \notin Used(m, E)
    /\ o0 = m.len => Frees(h, G) = Frees(m, E)
    /\ o0 # m.len => Frees(h, G) = Frees(m, E) \cup {m.len}
    /\ \A x \in Used(m, E) : h.tag[x].n = m.tag[x].n

LEMMA GrownChain ==
    ASSUME NEW m, NEW E, Chained(m, E), Apart(m, E), NEW len \in Int, len = m.len,
           NEW o0 \in Int, NEW f1 \in Int, o0 = len \/ o0 >= len + 6, f1 >= o0 + 4, f1 <= MaxSize,
           NEW h \in Heaps, h.len = f1,
           Grown(m.tag, h.tag, len, o0, f1)
    PROVE  Grew(m, E, h, E \cup {o0, f1}, o0)
<1> DEFINE G == E \cup {o0, f1}
           t == m.tag
           u == h.tag
<1>1. /\ len \in E /\ FirstElt \in E /\ len >= 2 /\ MaxSize \in Nat /\ len <= MaxSize
      /\ \A x \in E : x \in Int /\ x >= 2 /\ x <= len /\ x \in Offsets
    <2>1. len \in E /\ FirstElt \in E BY DEF Chained, Chain
    <2> QED BY <2>1, ChainedAt, Sizes
<1>2. /\ len \in Offsets /\ o0 \in Offsets /\ f1 \in Offsets /\ FirstElt \in Offsets
      /\ o0 >= len /\ f1 > o0 /\ f1 > len
    <2>1. o0 >= len /\ o0 >= 2 /\ o0 <= MaxSize /\ f1 > o0 /\ f1 > len BY <1>1
    <2> QED BY <1>1, <2>1, Sizes
<1>3. ASSUME NEW x \in Offsets
      PROVE  /\ u[x].n = IF x = f1 THEN Invalid
                         ELSE IF x = o0 THEN f1 - o0 - 2
                         ELSE IF x = len THEN o0 - len - 2 ELSE t[x].n
             /\ u[x].free = IF x = o0 THEN FALSE ELSE IF x = len THEN TRUE ELSE t[x].free
             /\ u[x].prevN = IF x = f1 THEN f1 - o0 - 2
                             ELSE IF x = o0 /\ o0 # len THEN o0 - len - 2 ELSE t[x].prevN
             /\ u[x].prevFree = IF x = f1 THEN FALSE
                                ELSE IF x = o0 /\ o0 # len THEN TRUE ELSE t[x].prevFree
    BY DEF Grown
<1>4. \A x \in E \ {len} : /\ t[x].n \in Nat /\ t[x].n >= 2 /\ After(t, x) = x + t[x].n + 2
                           /\ After(t, x) \in E /\ x < After(t, x)
                           /\ \A y \in E : y <= x \/ y >= After(t, x)
                           /\ t[After(t, x)].prevN = t[x].n
                           /\ t[After(t, x)].prevFree = t[x].free
    <2> TAKE x \in E \ {len}
    <2>1. t[x].n \in Nat /\ After(t, x) >= x + 4 /\ After(t, x) \in Int /\ x \in Int BY ChainedAt
    <2>2. After(t, x) = x + t[x].n + 2 BY Sizes DEF After
    <2>3. /\ t[x].n >= MinData /\ After(t, x) \in E
          /\ \A y \in E : y <= x \/ y >= After(t, x)
          /\ t[After(t, x)].prevN = t[x].n
          /\ t[After(t, x)].prevFree = t[x].free BY DEF Chained, Chain
    <2>4. x < After(t, x) BY <2>1
    <2>5. t[x].n >= 2 BY <2>3, Sizes
    <2> QED BY <2>1, <2>2, <2>3, <2>4, <2>5
<1>5. /\ t[FirstElt].prevN = Invalid /\ ~ t[FirstElt].prevFree
      /\ \A y \in E : y = len \/ t[y].free => ~ t[y].prevFree
    BY DEF Chained, Chain, Apart
<1>6. G = E \cup {o0, f1} OBVIOUS
<1>7. \A y \in E \ {len} : y < len /\ y < o0 /\ y < f1 BY <1>1, <1>2
<1>8. h.len = f1 OBVIOUS
<1> HIDE DEF G, t, u
<1>9. \A y \in E \ {len} : u[y].n = t[y].n /\ u[y].free = t[y].free /\ u[y].prevFree = t[y].prevFree
    <2> TAKE y \in E \ {len}
    <2>1. y \in Offsets /\ y # len /\ y # o0 /\ y # f1 BY <1>1, <1>2, <1>7
    <2> QED BY <2>1, <1>3
<1>10. ASSUME NEW y \in G \ {f1}
       PROVE  /\ u[y].n >= 2 /\ y + u[y].n + 2 \in G
              /\ \A x \in G : x <= y \/ x >= y + u[y].n + 2
              /\ u[y + u[y].n + 2].prevN = u[y].n
              /\ u[y + u[y].n + 2].prevFree = u[y].free
    <2>1. CASE y = o0
        <3>1. u[y].n = f1 - o0 - 2 /\ u[y].free = FALSE BY <2>1, <1>2, <1>3
        <3>2. y + u[y].n + 2 = f1 /\ f1 - o0 - 2 >= 2 BY <2>1, <3>1
        <3>3. \A x \in G : x <= o0 \/ x >= f1
            <4>1. \A x \in E : x <= o0 BY <1>1, <1>2
            <4> QED BY <4>1, <1>6
        <3>4. u[f1].prevN = f1 - o0 - 2 /\ u[f1].prevFree = FALSE BY <1>2, <1>3
        <3> QED BY <2>1, <3>1, <3>2, <3>3, <3>4, <1>6
    <2>2. CASE y = len /\ o0 # len
        <3>1. u[y].n = o0 - len - 2 /\ u[y].free = TRUE BY <2>2, <1>2, <1>3
        <3>2. y + u[y].n + 2 = o0 /\ o0 - len - 2 >= 2 BY <2>2, <3>1
        <3>3. \A x \in G : x <= len \/ x >= o0
            <4>1. \A x \in E : x <= len BY <1>1
            <4> QED BY <4>1, <1>2, <1>6
        <3>5. o0 # f1 /\ o0 # len /\ o0 \in Offsets BY <2>2, <1>2
        <3>4. u[o0].prevN = o0 - len - 2 /\ u[o0].prevFree = TRUE BY <3>5, <1>3
        <3> QED BY <2>2, <3>1, <3>2, <3>3, <3>4, <1>6
    <2>3. CASE y \in E \ {len}
        <3> DEFINE a == After(t, y)
        <3>1. /\ t[y].n \in Nat /\ t[y].n >= 2 /\ a = y + t[y].n + 2 /\ a \in E /\ y < a
              /\ \A x \in E : x <= y \/ x >= a
              /\ t[a].prevN = t[y].n /\ t[a].prevFree = t[y].free BY <2>3, <1>4
        <3> HIDE DEF a
        <3>2. u[y].n = t[y].n /\ u[y].free = t[y].free BY <2>3, <1>9
        <3>3. a \in Offsets /\ a \in Int /\ a <= len BY <3>1, <1>1
        <3>4. a # f1 /\ ~ (a = o0 /\ o0 # len) BY <3>3, <1>2
        <3>5. u[a].prevN = t[a].prevN /\ u[a].prevFree = t[a].prevFree BY <3>3, <3>4, <1>3
        <3>6. \A x \in G : x <= y \/ x >= a
            <4>1. o0 >= a /\ f1 >= a BY <3>3, <1>2
            <4> QED BY <3>1, <4>1, <1>6
        <3> QED BY <3>1, <3>2, <3>5, <3>6, <1>6
    <2> QED BY <2>1, <2>2, <2>3, <1>6
<1>11. Chained(h, G)
    <2>1. h.tag \in [Offsets -> Tags] /\ h.len \in FirstElt .. MaxSize
        BY <1>1, <1>2, <1>8, Sizes DEF Heaps
    <2>2. G \subseteq FirstElt .. f1 /\ FirstElt \in G /\ f1 \in G
        <3>1. \A y \in G : y \in Int /\ y >= 2 /\ y <= f1 BY <1>1, <1>2, <1>6
        <3> QED BY <3>1, <1>1, <1>6, Sizes
    <2>3. u[FirstElt].prevN = Invalid /\ ~ u[FirstElt].prevFree
        <3>1. FirstElt # f1 /\ ~ (FirstElt = o0 /\ o0 # len) BY <1>1, <1>2, Sizes
        <3> QED BY <3>1, <1>2, <1>3, <1>5
    <2>4. u[f1].n = Invalid BY <1>2, <1>3
    <2>5. \A y \in G : After(u, y) = y + u[y].n + 2 BY Sizes DEF After
    <2>6. Chain(u, f1, G) BY <2>2, <2>3, <2>4, <2>5, <1>10, Sizes DEF Chain
    <2> QED BY <2>1, <2>6, <1>8 DEF Chained, u
<1>12. Apart(h, G)
    <2> SUFFICES ASSUME NEW y \in G, y = f1 \/ u[y].free PROVE ~ u[y].prevFree BY <1>8 DEF Apart, u
    <2>1. CASE y = f1 BY <2>1, <1>2, <1>3
    <2>2. CASE y = o0 /\ y # f1
        <3>1. u[y].free = FALSE BY <2>2, <1>2, <1>3
        <3> QED BY <2>2, <3>1
    <2>3. CASE y = len /\ y # o0
        <3>2. y # f1 /\ y # o0 /\ y \in Offsets BY <2>3, <1>2
        <3>1. u[y].prevFree = t[y].prevFree BY <3>2, <1>3
        <3> QED BY <2>3, <3>1, <1>1, <1>5
    <2>4. CASE y \in E \ {len}
        <3>1. t[y].free BY <2>4, <1>7, <1>9
        <3> QED BY <2>4, <3>1, <1>5, <1>9
    <2> QED BY <2>1, <2>2, <2>3, <2>4, <1>6
<1>13. o0 \notin Used(m, E) BY <1>7 DEF Used
<1>14. /\ u[o0].free = FALSE /\ (o0 # len => u[len].free = TRUE) BY <1>2, <1>3
<1>15. Used(h, G) = Used(m, E) \cup {o0}
    <2>1. ASSUME NEW x \in G, x # f1, ~ u[x].free PROVE x \in Used(m, E) \cup {o0}
        <3> SUFFICES ASSUME x # o0 PROVE x \in Used(m, E) OBVIOUS
        <3>1. x \in E /\ x # len BY <2>1, <1>6, <1>14
        <3> QED BY <2>1, <3>1, <1>9 DEF Used, t
    <2>2. ASSUME NEW x \in Used(m, E) PROVE x \in G /\ x # f1 /\ ~ u[x].free
        <3>1. x \in E /\ x # len /\ ~ t[x].free BY DEF Used, t
        <3> QED BY <3>1, <1>6, <1>7, <1>9
    <2> QED BY <2>1, <2>2, <1>2, <1>6, <1>8, <1>14 DEF Used, u
<1>16. /\ o0 = len => Frees(h, G) = Frees(m, E)
       /\ o0 # len => Frees(h, G) = Frees(m, E) \cup {len}
    <2>1. ASSUME NEW x \in G, x # f1, u[x].free, ~ (x = len /\ o0 # len) PROVE x \in Frees(m, E)
        <3>1. x # o0 BY <2>1, <1>14
        <3>2. x \in E /\ x # len BY <2>1, <3>1, <1>6
        <3> QED BY <2>1, <3>2, <1>9 DEF Frees, t
    <2>2. ASSUME NEW x \in Frees(m, E) PROVE x \in G /\ x # f1 /\ u[x].free
        <3>1. x \in E /\ x # len /\ t[x].free BY DEF Frees, t
        <3> QED BY <3>1, <1>6, <1>7, <1>9
    <2>3. o0 # len => len \in G /\ len # f1 /\ u[len].free BY <1>1, <1>2, <1>6, <1>14
    <2>4. Frees(h, G) = {x \in G \ {f1} : u[x].free} BY <1>8 DEF Frees, u
    <2> QED BY <2>1, <2>2, <2>3, <2>4
<1>17. \A x \in Used(m, E) : u[x].n = t[x].n
    <2> TAKE x \in Used(m, E)
    <2>1. x \in E \ {len} BY DEF Used
    <2> QED BY <2>1, <1>9
<1>18. len = m.len OBVIOUS
<1> HIDE DEF G
<1>19. Grew(m, E, h, G, o0) BY <1>11, <1>12, <1>13, <1>15, <1>16, <1>17, <1>18 DEF Grew, t, u
<1> QED BY <1>19 DEF G

LEMMA ExtendedGives ==
    ASSUME NEW m, Good(m), Elements(m) # {}, NEW r \in Asked, ExtensionFits(m, r)
    PROVE  LET h  == Extended(m, r)
               o0 == ExtendAt(m, r)
           IN  Gives(m, h, o0, r) /\ GrownAs(m, h, o0 + r.n + Overhead)
<1> DEFINE E   == Elements(m)
           F   == Frees(m, E)
           len == m.len
           n   == r.n
           o0  == ExtendAt(m, r)
           f1  == o0 + n + Overhead
           p   == m.mapped \cup Pages(RoundUp(len, PageSize), RoundUp(f1, PageSize))
           m1  == [m EXCEPT !.len = f1, !.mapped = p]
           m2  == IF o0 = len THEN m1 ELSE NewFree(m1, len, o0 - len - Overhead)
           m3  == SetSize(m2, o0, n, FALSE)
           a   == [m3.tag[f1] EXCEPT !.n = Invalid]
           t   == [m3.tag EXCEPT ![f1] = a]
           h   == [m3 EXCEPT !.tag = t]
           F2  == F \cup (IF o0 = len THEN {} ELSE {len})
<1>1. Sound(m, E) /\ E # {} BY DEF Good
<1>2. Chained(m, E) /\ Apart(m, E) /\ m \in Heaps /\ Lists(m, F) BY <1>1, SoundChained DEF Sound
<1> HIDE DEF E
<1>3. len \in E BY <1>2 DEF Chained, Chain
<1>4. /\ len \in Int /\ len >= 2 /\ len \in Offsets /\ MaxSize \in Nat
      /\ \A x \in E \ {len} : x \in Int /\ x < len
    BY <1>2, <1>3, ChainedAt, Sizes
<1>5. n \in Nat /\ n >= 2 BY AskedFor, Sizes
<1>6. o0 \in Int /\ (o0 + r.alignOffset) % r.align = 0 /\ (o0 = len \/ o0 >= len + 6)
    <2>1. /\ o0 \in Int /\ (o0 + r.alignOffset) % r.align = 0
          /\ o0 = len \/ o0 - len - Overhead >= EltWords BY <1>4, ExtendAtIs
    <2> QED BY <2>1, <1>4, Sizes
<1>7. f1 <= MaxSize BY DEF ExtensionFits
<1>8. Extended(m, r) = h BY DEF Extended
<1>9. len = m.len /\ n = r.n OBVIOUS
<1> HIDE DEF F, len, n, o0
<1>10. f1 \in Int /\ f1 = o0 + n + 2 /\ f1 >= o0 + 4 BY <1>5, <1>6, Sizes
<1>11. f1 = o0 + n + Overhead OBVIOUS
<1> HIDE DEF f1
<1>12. /\ o0 \in Offsets /\ f1 \in Offsets /\ f1 \in 0 .. MaxSize /\ n \in 0 .. Invalid
       /\ o0 >= len /\ len # f1 /\ o0 # f1
    BY <1>4, <1>5, <1>6, <1>7, <1>10, Sizes
<1>13. p \subseteq 0 .. MaxSize BY <1>2 DEF Heaps, Pages
<1> HIDE DEF p
<1>14. Lists(m1, F) /\ m1 \in Heaps /\ m1.len = f1 /\ m1.tag = m.tag
    <2>1. /\ m1 \in Heaps /\ m1.len = f1 /\ m1.tag = m.tag /\ m1.link = m.link /\ m1.first = m.first
        BY <1>2, <1>12, <1>13 DEF Heaps
    <2> HIDE DEF m1
    <2> QED BY <2>1, <1>2, ListsSame
<1>15. \A x \in F : x \in Int /\ x < len BY <1>4, <1>9 DEF F, Frees
<1> HIDE DEF m1
<1>16. /\ Lists(m2, F2) /\ m2.len = f1
       /\ o0 # len => SizeSet(m.tag, m2.tag, len, o0 - len - Overhead, TRUE)
       /\ o0 = len => m2.tag = m.tag
    <2>1. CASE o0 = len
        <3>1. F2 = F /\ m2 = m1 BY <2>1
        <3> QED BY <2>1, <3>1, <1>14
    <2>2. CASE o0 # len
        <3> DEFINE k == o0 - len - Overhead
        <3>1. k \in MinData .. MaxSize /\ len + k + Overhead = o0
            BY <2>2, <1>4, <1>5, <1>6, <1>7, <1>10, Sizes
        <3>2. F2 = F \cup {len} /\ m2 = NewFree(m1, len, k) BY <2>2
        <3> HIDE DEF k, m2, F2
        <3>3. len \in Offsets \ F BY <1>4, <1>15
        <3>4. /\ Lists(m2, F \cup {len}) /\ m2.len = m1.len
              /\ SizeSet(m1.tag, m2.tag, len, k, TRUE)
            BY <3>1, <3>2, <3>3, <1>12, <1>14, NewFreeKeeps
        <3> QED BY <2>2, <3>2, <3>4, <1>14 DEF k
    <2> QED BY <2>1, <2>2
<1> HIDE DEF m2
<1>17. /\ m3 \in Heaps /\ m3.len = f1 /\ SizeSet(m2.tag, m3.tag, o0, n, FALSE)
       /\ m3.link = m2.link /\ m3.first = m2.first
    <2>1. m2 \in Heaps BY <1>16 DEF Lists
    <2>2. o0 + n + Overhead \in Offsets BY <1>11, <1>12
    <2> QED BY <2>1, <2>2, <1>12, <1>16, SetSizeIs
<1> HIDE DEF m3
<1>18. /\ h \in Heaps /\ h.len = f1 /\ h.link = m2.link /\ h.first = m2.first
       /\ \A x \in Offsets : /\ h.tag[x].n = IF x = f1 THEN Invalid ELSE m3.tag[x].n
                             /\ h.tag[x].free = m3.tag[x].free
                             /\ h.tag[x].prevN = m3.tag[x].prevN
                             /\ h.tag[x].prevFree = m3.tag[x].prevFree
    <2>1. m3.tag \in [Offsets -> Tags] BY <1>17 DEF Heaps
    <2>2. /\ a \in Tags /\ a.n = Invalid /\ a.free = m3.tag[f1].free
          /\ a.prevN = m3.tag[f1].prevN /\ a.prevFree = m3.tag[f1].prevFree
        <3>1. m3.tag[f1] \in Tags /\ Invalid \in 0 .. Invalid BY <2>1, <1>12, Sizes
        <3> QED BY <3>1 DEF Tags
    <2> HIDE DEF a
    <2>3. t \in [Offsets -> Tags] /\ \A x \in Offsets : t[x] = IF x = f1 THEN a ELSE m3.tag[x]
        BY <2>1, <2>2
    <2> HIDE DEF t
    <2>4. h \in Heaps /\ h.len = f1 /\ h.link = m2.link /\ h.first = m2.first /\ h.tag = t
        BY <2>3, <1>17 DEF Heaps
    <2> QED BY <2>2, <2>3, <2>4, <1>12
<1> HIDE DEF h
<1>19. f1 \notin F2 /\ o0 \notin F2 /\ F2 \subseteq Offsets
    <2>1. \A x \in F : x # f1 /\ x # o0 BY <1>12, <1>15, <1>4, <1>6, <1>10
    <2>2. F2 \subseteq Offsets BY <1>16 DEF Lists
    <2> QED BY <2>1, <2>2, <1>12
<1>20. Lists(h, F2)
    <2>1. \A x \in F2 : h.link[x] = m2.link[x] /\ h.tag[x].n = m2.tag[x].n
        BY <1>17, <1>18, <1>19 DEF SizeSet
    <2> HIDE DEF F2
    <2> QED BY <2>1, <1>16, <1>18, ListsSame
<1>21. Grown(m.tag, h.tag, len, o0, f1)
    <2> SUFFICES ASSUME NEW x \in Offsets
                 PROVE  /\ h.tag[x].n = IF x = f1 THEN Invalid
                                        ELSE IF x = o0 THEN f1 - o0 - 2
                                        ELSE IF x = len THEN o0 - len - 2 ELSE m.tag[x].n
                        /\ h.tag[x].free = IF x = o0 THEN FALSE
                                           ELSE IF x = len THEN TRUE ELSE m.tag[x].free
                        /\ h.tag[x].prevN = IF x = f1 THEN f1 - o0 - 2
                                            ELSE IF x = o0 /\ o0 # len THEN o0 - len - 2
                                            ELSE m.tag[x].prevN
                        /\ h.tag[x].prevFree = IF x = f1 THEN FALSE
                                               ELSE IF x = o0 /\ o0 # len THEN TRUE
                                               ELSE m.tag[x].prevFree
        BY DEF Grown
    <2>1. n = f1 - o0 - 2 /\ o0 + n + Overhead = f1 /\ len + (o0 - len - Overhead) + Overhead = o0
          /\ o0 - len - Overhead = o0 - len - 2
        BY <1>4, <1>5, <1>6, <1>10, <1>11, Sizes
    <2>2. /\ m3.tag[x].n = IF x = o0 THEN n ELSE m2.tag[x].n
          /\ m3.tag[x].free = IF x = o0 THEN FALSE ELSE m2.tag[x].free
          /\ m3.tag[x].prevN = IF x = f1 THEN n ELSE m2.tag[x].prevN
          /\ m3.tag[x].prevFree = IF x = f1 THEN FALSE ELSE m2.tag[x].prevFree
        BY <2>1, <1>17 DEF SizeSet
    <2>3. CASE o0 = len BY <2>1, <2>2, <2>3, <1>16, <1>18
    <2>4. CASE o0 # len
        <3>1. /\ m2.tag[x].n = IF x = len THEN o0 - len - 2 ELSE m.tag[x].n
              /\ m2.tag[x].free = IF x = len THEN TRUE ELSE m.tag[x].free
              /\ m2.tag[x].prevN = IF x = o0 THEN o0 - len - 2 ELSE m.tag[x].prevN
              /\ m2.tag[x].prevFree = IF x = o0 THEN TRUE ELSE m.tag[x].prevFree
            BY <2>1, <2>4, <1>16 DEF SizeSet
        <3> QED BY <2>1, <2>2, <2>4, <3>1, <1>18
    <2> QED BY <2>3, <2>4
<1> DEFINE G == E \cup {o0, f1}
<1>22. /\ Chained(h, G) /\ Apart(h, G)
       /\ Used(h, G) = Used(m, E) \cup {o0} /\ o0 \notin Used(m, E)
       /\ Frees(h, G) = F2
       /\ \A x \in Used(m, E) : h.tag[x].n = m.tag[x].n
    <2>1. len \in Int /\ o0 \in Int /\ f1 \in Int BY <1>4, <1>6, <1>10
    <2>2. f1 >= o0 + 4 BY <1>10
    <2>3. h \in Heaps /\ h.len = f1 BY <1>18
    <2> HIDE DEF h, m3
    <2>4. o0 = len \/ o0 >= len + 6 BY <1>6
    <2>5. Chained(m, E) /\ Apart(m, E) /\ len = m.len BY <1>2, <1>9
    <2>7. Grew(m, E, h, E \cup {o0, f1}, o0) BY <2>1, <2>2, <2>3, <2>4, <2>5, <1>7, <1>21, GrownChain
    <2>8. Grew(m, E, h, G, o0) BY <2>7
    <2> HIDE DEF G
    <2>9. /\ Chained(h, G) /\ Apart(h, G)
          /\ Used(h, G) = Used(m, E) \cup {o0} /\ o0 \notin Used(m, E)
          /\ o0 = len => Frees(h, G) = F
          /\ o0 # len => Frees(h, G) = F \cup {len}
          /\ \A x \in Used(m, E) : h.tag[x].n = m.tag[x].n
        BY <2>5, <2>8 DEF Grew, F
    <2>6. Frees(h, G) = F2
        <3>1. CASE o0 = len BY <2>9, <3>1
        <3>2. CASE o0 # len BY <2>9, <3>2
        <3> QED BY <3>1, <3>2
    <2> QED BY <2>6, <2>9
<1> HIDE DEF G
<1>23. Sound(h, G)
    <2>1. ~ h.tag[FirstElt].prevFree BY <1>22 DEF Chained, Chain
    <2> QED BY <2>1, <1>20, <1>22 DEF Sound
<1>24. Elements(h) = G BY <1>23, SoundElements
<1>25. h.tag[o0].n >= n
    <2>1. h.tag[o0].n = n BY <1>12, <1>17, <1>18 DEF SizeSet
    <2> QED BY <2>1, <1>5
<1>26. Gives(m, h, o0, r) BY <1>6, <1>9, <1>12, <1>22, <1>23, <1>24, <1>25 DEF Gives, Good, InUse, E
<1>27. GrownAs(m, h, f1)
    <2>1. \A x \in F : x \in Offsets /\ x # f1 /\ x # o0 /\ x # len
        BY <1>4, <1>6, <1>10, <1>12, <1>15, <1>19
    <2>2. \A x \in F : h.tag[x].n = m.tag[x].n BY <2>1, <1>21 DEF Grown
    <2>3. \A x \in F : x \in Frees(h, Elements(h)) BY <1>22, <1>24
    <2> QED BY <2>2, <2>3, <1>12, <1>18 DEF GrownAs, F, E
<1> QED BY <1>8, <1>26, <1>27 DEF f1, n, o0

-----------------------------------------------------------------------------
(* Freeing *)

\* What is known of an element and the next one, in numbers.
LEMMA ChainedNext ==
    ASSUME NEW m, NEW E, Chained(m, E), NEW x \in E \ {m.len}
    PROVE  LET a == After(m.tag, x)
           IN  /\ m.tag[x].n \in Nat /\ m.tag[x].n >= 2 /\ a = x + m.tag[x].n + 2
               /\ a \in E /\ a \in Int /\ x < a /\ a = NextElt(m, x)
               /\ \A y \in E : y <= x \/ y >= a
               /\ m.tag[a].prevN = m.tag[x].n /\ m.tag[a].prevFree = m.tag[x].free
<1>1. /\ m.tag[x].n \in Nat /\ After(m.tag, x) >= x + 4 /\ After(m.tag, x) \in Int /\ x \in Int
      /\ NextElt(m, x) = After(m.tag, x) BY ChainedAt
<1>2. After(m.tag, x) = x + m.tag[x].n + 2 BY Sizes DEF After
<1>3. /\ m.tag[x].n >= MinData /\ After(m.tag, x) \in E
      /\ \A y \in E : y <= x \/ y >= After(m.tag, x)
      /\ m.tag[After(m.tag, x)].prevN = m.tag[x].n
      /\ m.tag[After(m.tag, x)].prevFree = m.tag[x].free BY DEF Chained, Chain
<1>4. x < After(m.tag, x) /\ m.tag[x].n >= 2 BY <1>1, <1>3, Sizes
<1> QED BY <1>1, <1>2, <1>3, <1>4

\* What freeing the block x leaves: the elements G, with n gone and p free.
Joined(m, E, h, G, x, p, n) ==
    /\ Chained(h, G) /\ Apart(h, G)
    /\ Used(h, G) = Used(m, E) \ {x}
    /\ Frees(h, G) = (Frees(m, E) \ {p, n}) \cup {p}
    /\ \A y \in Used(h, G) : h.tag[y].n = m.tag[y].n

Around(E, p, e) == {y \in E : y <= p \/ y >= e}

\* The block x, the element p before it if that is free, and the element n
\* after it if that is free, as one free element up to e.
LEMMA MergedChain ==
    ASSUME NEW m, NEW E, Chained(m, E), Apart(m, E), NEW x \in Used(m, E),
           NEW p \in E, p = x \/ (p # m.len /\ After(m.tag, p) = x /\ m.tag[p].free),
           p = x => ~ m.tag[x].prevFree,
           NEW n \in E, n = After(m.tag, x), n # m.len,
           NEW e \in E, m.tag[n].free => e = After(m.tag, n), ~ m.tag[n].free => e = n,
           NEW h \in Heaps, h.len = m.len, SizeSet(m.tag, h.tag, p, e - p - 2, TRUE)
    PROVE  Joined(m, E, h, Around(E, p, e), x, p, n)
<1> DEFINE G == {y \in E : y <= p \/ y >= e}
           t == m.tag
           u == h.tag
           len == m.len
<1>1. x \in E \ {len} /\ ~ t[x].free /\ len \in E /\ FirstElt \in E BY DEF Used, Chained, Chain
<1>2. \A y \in E : y \in Int /\ y >= 2 /\ y <= len /\ y \in Offsets BY ChainedAt
<1>3. \A y \in E \ {len} :
          /\ t[y].n \in Nat /\ t[y].n >= 2 /\ After(t, y) = y + t[y].n + 2
          /\ After(t, y) \in E /\ y < After(t, y)
          /\ \A z \in E : z <= y \/ z >= After(t, y)
          /\ t[After(t, y)].prevN = t[y].n /\ t[After(t, y)].prevFree = t[y].free
    BY ChainedNext
<1>4. /\ p <= x /\ x < n /\ n <= e /\ p # len /\ p < e
      /\ \A y \in E : y <= p \/ y = x \/ y >= n
      /\ \A y \in E : y <= n \/ y >= e
    <2>1. p <= x /\ p # len /\ \A y \in E : y <= p \/ y >= x
        <3>1. CASE p = x BY <3>1, <1>1, <1>2
        <3>2. CASE p # x
            <4>1. p \in E \ {len} /\ After(t, p) = x BY <3>2
            <4> QED BY <4>1, <1>2, <1>3
        <3> QED BY <3>1, <3>2
    <2>2. x < n /\ \A y \in E : y <= x \/ y >= n BY <1>1, <1>3
    <2>3. n <= e /\ \A y \in E : y <= n \/ y >= e
        <3>1. CASE t[n].free BY <3>1, <1>2, <1>3
        <3>2. CASE ~ t[n].free BY <3>2, <1>2
        <3> QED BY <3>1, <3>2
    <2>4. \A y \in E : y <= p \/ y = x \/ y >= n BY <2>1, <2>2, <1>1, <1>2
    <2>5. p < e BY <2>1, <2>2, <2>3, <1>1, <1>2
    <2> QED BY <2>1, <2>2, <2>3, <2>4, <2>5
<1>5. ~ t[p].prevFree
    <2>1. CASE p = x BY <2>1
    <2>2. CASE p # x BY <2>2 DEF Apart
    <2> QED BY <2>1, <2>2
<1>6. e # len /\ ~ t[e].free
    <2>1. CASE t[n].free
        <3>1. n \in E \ {len} /\ e = After(t, n) BY <2>1
        <3>2. t[e].prevFree BY <2>1, <3>1, <1>3
        <3> QED BY <3>2 DEF Apart
    <2>2. CASE ~ t[n].free BY <2>2
    <2> QED BY <2>1, <2>2
<1>7. n = e \/ t[n].free OBVIOUS
<1>25. p = x \/ t[p].free OBVIOUS
<1>8. \A y \in E : y \in G \/ y = x \/ y = n
    <2> TAKE y \in E
    <2>1. y <= p \/ y = x \/ y >= n BY <1>4
    <2>2. y <= n \/ y >= e BY <1>4
    <2> QED BY <2>1, <2>2, <1>2
<1>9. p \in G /\ e \in G /\ len \in G /\ FirstElt \in G
    <2>1. e <= len /\ FirstElt <= p BY <1>2, Sizes
    <2> QED BY <2>1, <1>1, <1>2
<1>10. G \subseteq E /\ \A y \in G : y <= p \/ y >= e OBVIOUS
<1>11. p + (e - p - 2) + Overhead = e BY <1>2, Sizes
<1>12. \A y \in Offsets : /\ u[y].n = IF y = p THEN e - p - 2 ELSE t[y].n
                          /\ u[y].free = IF y = p THEN TRUE ELSE t[y].free
                          /\ u[y].prevN = IF y = e THEN e - p - 2 ELSE t[y].prevN
                          /\ u[y].prevFree = IF y = e THEN TRUE ELSE t[y].prevFree
    BY <1>11 DEF SizeSet
<1>13. h.len = len /\ m.len = len OBVIOUS
<1>14. /\ t[FirstElt].prevN = Invalid /\ ~ t[FirstElt].prevFree
       /\ len > FirstElt => t[len].n = Invalid
       /\ \A y \in E : y = len \/ t[y].free => ~ t[y].prevFree
    BY DEF Chained, Chain, Apart
<1>15. x = p \/ x \notin G BY <1>1, <1>2, <1>4
<1>16. n = e \/ n \notin G BY <1>1, <1>2, <1>4
<1> HIDE DEF G, t, u, len
<1>17. ASSUME NEW y \in G \ {len}
       PROVE  /\ u[y].n >= 2 /\ y + u[y].n + 2 \in G
              /\ \A z \in G : z <= y \/ z >= y + u[y].n + 2
              /\ u[y + u[y].n + 2].prevN = u[y].n
              /\ u[y + u[y].n + 2].prevFree = u[y].free
    <2>1. CASE y = p
        <3>1. u[y].n = e - p - 2 /\ u[y].free = TRUE BY <2>1, <1>2, <1>12
        <3>2. y + u[y].n + 2 = e BY <2>1, <3>1, <1>2
        <3>3. u[e].prevN = e - p - 2 /\ u[e].prevFree = TRUE BY <1>2, <1>12
        <3>4. e - p - 2 >= 2
            <4>1. t[x].n >= 2 /\ n = x + t[x].n + 2 /\ t[x].n \in Nat BY <1>1, <1>3 DEF t
            <4>2. p \in Int /\ x \in Int /\ n \in Int /\ e \in Int BY <1>1, <1>2
            <4>3. p <= x /\ n <= e BY <1>4
            <4> QED BY <4>1, <4>2, <4>3
        <3> QED BY <2>1, <3>1, <3>2, <3>3, <3>4, <1>9, <1>10
    <2>2. CASE y # p
        <3> DEFINE a == After(t, y)
        <3>1. y \in E \ {len} BY <1>10
        <3>2. /\ t[y].n \in Nat /\ t[y].n >= 2 /\ a = y + t[y].n + 2
              /\ a \in E /\ y < a /\ \A z \in E : z <= y \/ z >= a
              /\ t[a].prevN = t[y].n /\ t[a].prevFree = t[y].free BY <3>1, <1>3
        <3> HIDE DEF a
        <3>3. u[y].n = t[y].n /\ u[y].free = t[y].free BY <2>2, <3>1, <1>2, <1>12
        <3>4. a # e /\ a \in G
            <4>1. y \in Int /\ a \in Int /\ p \in Int /\ e \in Int BY <3>1, <3>2, <1>2
            <4>2. CASE y >= e
                <5>1. a > e BY <4>1, <4>2, <3>2
                <5> QED BY <4>1, <5>1, <3>2 DEF G
            <4>3. CASE ~ (y >= e)
                <5>1. y < p BY <4>1, <4>3, <2>2, <1>10
                <5>2. p <= y \/ p >= a BY <3>2
                <5>3. a <= p BY <4>1, <5>1, <5>2
                <5>4. a # e BY <4>1, <5>3, <1>4
                <5> QED BY <5>3, <5>4, <3>2 DEF G
            <4> QED BY <4>2, <4>3
        <3>5. u[a].prevN = t[a].prevN /\ u[a].prevFree = t[a].prevFree BY <3>2, <3>4, <1>2, <1>12
        <3> QED BY <3>2, <3>3, <3>4, <3>5, <1>10
    <2> QED BY <2>1, <2>2
<1>18. Chained(h, G)
    <2>1. h.tag \in [Offsets -> Tags] /\ h.len \in FirstElt .. MaxSize
        BY <1>13 DEF Heaps, Chained
    <2>2. G \subseteq FirstElt .. len /\ FirstElt \in G /\ len \in G
        <3>1. \A y \in G : y \in Int /\ y >= 2 /\ y <= len BY <1>2, <1>10
        <3>2. len \in Int BY <1>1, <1>2
        <3>3. G \subseteq 2 .. len BY <3>1, <3>2
        <3>4. FirstElt = 2 BY Sizes
        <3> QED BY <3>3, <3>4, <1>9
    <2>3. u[FirstElt].prevN = Invalid /\ ~ u[FirstElt].prevFree
        <3>1. FirstElt # e
            <4>1. p \in Int /\ e \in Int /\ p >= 2 /\ p < e BY <1>2, <1>4
            <4> QED BY <4>1, Sizes
        <3> QED BY <3>1, <1>1, <1>2, <1>12, <1>14
    <2>4. len > FirstElt => u[len].n = Invalid
        <3>1. len \in Offsets /\ len # p BY <1>1, <1>2, <1>4
        <3> QED BY <3>1, <1>12, <1>14
    <2>5. \A y \in G : After(u, y) = y + u[y].n + 2 BY Sizes DEF After
    <2>6. Chain(u, len, G) BY <2>2, <2>3, <2>4, <2>5, <1>17, Sizes DEF Chain
    <2> QED BY <2>1, <2>6, <1>13 DEF Chained, u
<1>19. Apart(h, G)
    <2> SUFFICES ASSUME NEW y \in G, y = len \/ u[y].free PROVE ~ u[y].prevFree BY <1>13 DEF Apart, u
    <2>1. y \in E /\ y \in Offsets BY <1>2, <1>10
    <2>2. CASE y = p
        <3>1. y # e BY <2>2, <1>2, <1>4
        <3> QED BY <2>1, <2>2, <3>1, <1>5, <1>12
    <2>3. CASE y # p
        <3>1. y = len \/ t[y].free BY <2>1, <2>3, <1>12
        <3>2. y # e BY <3>1, <1>6
        <3> QED BY <2>1, <3>1, <3>2, <1>12, <1>14
    <2> QED BY <2>2, <2>3
<1>20. \A y \in G \ {p} : y \in E /\ u[y].n = t[y].n /\ u[y].free = t[y].free BY <1>2, <1>10, <1>12
<1>21. u[p].free = TRUE BY <1>2, <1>12
<1>22. Used(h, G) = Used(m, E) \ {x}
    <2>1. ASSUME NEW y \in G, y # len, ~ u[y].free PROVE y \in Used(m, E) \ {x}
        <3>1. y # p BY <2>1, <1>21
        <3>2. y \in E /\ ~ t[y].free /\ y # x BY <2>1, <3>1, <1>15, <1>20
        <3> QED BY <2>1, <3>2, <1>13 DEF Used, t
    <2>2. ASSUME NEW y \in Used(m, E) \ {x} PROVE y \in G /\ y # len /\ ~ u[y].free
        <3>1. y \in E /\ y # len /\ ~ t[y].free /\ y # x BY <1>13 DEF Used, t
        <3>2. y \in G BY <3>1, <1>7, <1>8, <1>9
        <3>3. y # p BY <3>1, <1>25
        <3> QED BY <3>1, <3>2, <3>3, <1>20
    <2>3. Used(h, G) = {y \in G \ {len} : ~ u[y].free} BY <1>13 DEF Used, u
    <2> QED BY <2>1, <2>2, <2>3
<1>23. Frees(h, G) = (Frees(m, E) \ {p, n}) \cup {p}
    <2>1. ASSUME NEW y \in G, y # len, u[y].free, y # p PROVE y \in Frees(m, E) \ {p, n}
        <3>1. y \in E /\ t[y].free BY <2>1, <1>20
        <3>2. y # n BY <2>1, <3>1, <1>6, <1>16
        <3> QED BY <2>1, <3>1, <3>2, <1>13 DEF Frees, t
    <2>2. ASSUME NEW y \in Frees(m, E) \ {p, n} PROVE y \in G /\ y # len /\ u[y].free
        <3>1. y \in E /\ y # len /\ t[y].free /\ y # p /\ y # n BY <1>13 DEF Frees, t
        <3>2. y # x BY <3>1, <1>1
        <3>3. y \in G BY <3>1, <3>2, <1>8
        <3> QED BY <3>1, <3>3, <1>20
    <2>3. p \in G /\ p # len BY <1>4, <1>9
    <2>4. Frees(h, G) = {y \in G \ {len} : u[y].free} BY <1>13 DEF Frees, u
    <2> QED BY <2>1, <2>2, <2>3, <2>4, <1>21
<1>24. \A y \in Used(h, G) : u[y].n = t[y].n
    <2> TAKE y \in Used(h, G)
    <2>1. y \in G /\ ~ u[y].free BY DEF Used, u
    <2> QED BY <2>1, <1>20, <1>21
<1>26. Joined(m, E, h, G, x, p, n) BY <1>18, <1>19, <1>22, <1>23, <1>24 DEF Joined, t, u
<1> QED BY <1>26 DEF G, Around

\* The pages that are unmapped are those inside the free element.
LEMMA MergedPages ==
    ASSUME NEW m \in Heaps, NEW x
    PROVE  LET p == IF m.tag[x].prevFree THEN PrevElt(m, x) ELSE x
               h == Merged(m, x)
           IN  h.mapped = m.mapped \ Pages(RoundUp(p + Overhead, PageSize),
                                           Floor(p + h.tag[p].n, PageSize))
<1> DEFINE n  == NextElt(m, x)
           p  == IF m.tag[x].prevFree THEN PrevElt(m, x) ELSE x
           f1 == IF m.tag[n].free THEN n + m.tag[n].n ELSE x + m.tag[x].n
           m1 == IF m.tag[x].prevFree THEN RemoveFree2(m, p) ELSE m
           m2 == IF m.tag[n].free THEN RemoveFree2(m1, n) ELSE m1
           m3 == NewFree(m2, p, f1 - p)
           h  == UnmapElt(m3, p)
<1>1. Merged(m, x) = h BY DEF Merged, MergesUp
<1>2. DOMAIN m = Parts BY DEF Heaps, Parts
<1> HIDE DEF p, f1, n
<1>3. DOMAIN m1 = Parts /\ m1.mapped = m.mapped BY <1>2, PagesStay DEF RemoveFree2
<1> HIDE DEF m1
<1>4. DOMAIN m2 = Parts /\ m2.mapped = m.mapped BY <1>3, PagesStay DEF RemoveFree2
<1> HIDE DEF m2
<1>5. DOMAIN m3 = Parts /\ m3.mapped = m.mapped
    <2> DEFINE k == SetSize(m2, p, f1 - p, TRUE)
    <2>1. DOMAIN k = Parts /\ k.mapped = m.mapped BY <1>4 DEF SetSize, Parts
    <2>2. m3 = SetFree(k, p, f1 - p) BY DEF NewFree
    <2> HIDE DEF k, m3
    <2> QED BY <2>1, <2>2, PagesStay
<1> HIDE DEF m3
<1> DEFINE q == m3.mapped \ Pages(RoundUp(p + Overhead, PageSize), Floor(p + m3.tag[p].n, PageSize))
<1>6. h = [m3 EXCEPT !.mapped = q] BY DEF UnmapElt
<1> HIDE DEF q, h
<1>7. h.mapped = q /\ h.tag = m3.tag BY <1>5, <1>6 DEF Parts
<1> QED BY <1>1, <1>5, <1>7 DEF q, p

LEMMA MergedTakes ==
    ASSUME NEW m, Good(m), NEW x \in InUse(m), m.tag[NextElt(m, x)].n # Invalid
    PROVE  LET h == Merged(m, x)
           IN  Takes(m, h, x) /\ FreedTo(m, h)
<1> DEFINE E  == Elements(m)
           F  == Frees(m, E)
           n  == NextElt(m, x)
           p  == IF m.tag[x].prevFree THEN PrevElt(m, x) ELSE x
           f1 == IF m.tag[n].free THEN n + m.tag[n].n ELSE x + m.tag[x].n
           e  == IF m.tag[n].free THEN After(m.tag, n) ELSE n
           m1 == IF m.tag[x].prevFree THEN RemoveFree2(m, p) ELSE m
           m2 == IF m.tag[n].free THEN RemoveFree2(m1, n) ELSE m1
           m3 == NewFree(m2, p, f1 - p)
           h  == UnmapElt(m3, p)
           F1 == F \ {p}
           F2 == F1 \ {n}
<1>1. Sound(m, E) /\ x \in Used(m, E) BY DEF Good, InUse
<1>2. E # {} BY <1>1 DEF Used
<1>3. Chained(m, E) /\ Apart(m, E) /\ m \in Heaps /\ Lists(m, F) BY <1>1, <1>2, SoundChained DEF Sound
<1>4. Merged(m, x) = h BY DEF Merged, MergesUp
<1> HIDE DEF E
<1>5. x \in E \ {m.len} /\ ~ m.tag[x].free BY <1>1 DEF Used
<1>6. /\ n = After(m.tag, x) /\ n \in E /\ m.tag[x].n \in Nat /\ n = x + m.tag[x].n + 2
      /\ m.tag[n].prevFree = FALSE
    BY <1>3, <1>5, ChainedNext
<1>7. n # m.len
    <2>1. m.len > FirstElt => m.tag[m.len].n = Invalid BY <1>3 DEF Chained, Chain
    <2>2. x \in Int /\ x >= 2 /\ x < m.len /\ m.len \in Int BY <1>3, <1>5, ChainedAt
    <2>3. m.tag[m.len].n = Invalid BY <2>1, <2>2, Sizes
    <2> QED BY <2>3
<1>8. /\ e \in E /\ e \in Int /\ e <= m.len /\ n \in Int /\ x \in Int /\ f1 + 2 = e /\ f1 \in Int
      /\ m.len \in Int /\ m.len <= MaxSize /\ e >= n
    <2>1. /\ n \in Int /\ x \in Int /\ m.len \in Int /\ m.len <= MaxSize BY <1>3, <1>5, <1>6, ChainedAt
    <2>2. CASE m.tag[n].free
        <3>1. /\ After(m.tag, n) \in E /\ After(m.tag, n) \in Int /\ After(m.tag, n) = n + m.tag[n].n + 2
              /\ m.tag[n].n \in Nat BY <1>3, <1>6, <1>7, ChainedNext
        <3>2. e = After(m.tag, n) /\ f1 = n + m.tag[n].n BY <2>2
        <3> HIDE DEF e, f1, n
        <3>3. e <= m.len BY <1>3, <3>1, <3>2, ChainedAt
        <3> QED BY <2>1, <3>1, <3>2, <3>3
    <2>3. CASE ~ m.tag[n].free
        <3>1. e = n /\ f1 = x + m.tag[x].n BY <2>3
        <3> HIDE DEF e, f1, n
        <3>2. n <= m.len BY <1>3, <1>6, ChainedAt
        <3> QED BY <2>1, <3>1, <3>2, <1>6
    <2> QED BY <2>2, <2>3
<1>9. /\ p \in E /\ (p = x \/ (p # m.len /\ After(m.tag, p) = x /\ m.tag[p].free))
      /\ (p = x => ~ m.tag[x].prevFree) /\ p \in Int /\ p \in Offsets /\ p <= x /\ p >= 2
    <2>1. CASE m.tag[x].prevFree
        <3>1. x # FirstElt BY <2>1, <1>3 DEF Chained, Chain
        <3> DEFINE q == PrevElt(m, x)
        <3>2. q \in E \ {m.len} /\ After(m.tag, q) = x /\ m.tag[q].free = m.tag[x].prevFree
            BY <3>1, <1>3, <1>5, Predecessor
        <3>3. p = q BY <2>1
        <3> HIDE DEF q, p
        <3>4. q \in Int /\ q \in Offsets /\ q >= 2 /\ q < x BY <3>2, <1>3, ChainedAt, ChainedNext
        <3>5. x \in Int BY <1>8
        <3>6. p # x /\ p <= x BY <3>3, <3>4, <3>5
        <3>7. m.tag[p].free BY <2>1, <3>2, <3>3
        <3> QED BY <3>2, <3>3, <3>4, <3>6, <3>7
    <2>2. CASE ~ m.tag[x].prevFree
        <3>1. p = x BY <2>2
        <3>2. x \in Int /\ x \in Offsets /\ x >= 2 BY <1>3, <1>5, ChainedAt
        <3> HIDE DEF p
        <3> QED BY <2>2, <3>1, <3>2, <1>5
    <2> QED BY <2>1, <2>2
<1>10. m.tag[x].prevFree => p \in F
    <2>1. x \notin F BY <1>5 DEF F, Frees
    <2>2. m.tag[x].prevFree => p # m.len /\ m.tag[p].free /\ p \in E BY <1>9
    <2> QED BY <2>2 DEF F, Frees
<1>11. ~ m.tag[x].prevFree => p \notin F
    <2>1. ~ m.tag[x].prevFree => p = x OBVIOUS
    <2> QED BY <2>1, <1>5 DEF F, Frees
<1>12. m.tag[n].free => n \in F1
    <2>1. n \in F \/ ~ m.tag[n].free BY <1>6, <1>7 DEF F, Frees
    <2>2. p # n
        <3> HIDE DEF p, n
        <3>1. x < n BY <1>6, <1>8
        <3> QED BY <3>1, <1>8, <1>9
    <2> QED BY <2>1, <2>2
<1>13. ~ m.tag[n].free => n \notin F1 BY DEF F, Frees
<1>14. m.tag[x].prevFree \in BOOLEAN /\ m.tag[n].free \in BOOLEAN BY <1>3, <1>5, <1>6, ChainedAt
<1>15. p = p /\ n = NextElt(m, x) OBVIOUS
<1> HIDE DEF F, p, f1, e, n
<1>16. Lists(m1, F1) /\ m1.len = m.len /\ m1.tag = m.tag
    <2>1. CASE m.tag[x].prevFree
        <3>1. m1 = RemoveFree2(m, p) BY <2>1
        <3> HIDE DEF m1
        <3> QED BY <2>1, <3>1, <1>3, <1>10, RemoveFreeKeeps
    <2>2. CASE ~ m.tag[x].prevFree
        <3>1. m1 = m /\ F1 = F BY <2>2, <1>11
        <3> QED BY <3>1, <1>3
    <2> QED BY <2>1, <2>2
<1> HIDE DEF m1, F1
<1>17. Lists(m2, F2) /\ m2.len = m.len /\ m2.tag = m.tag
    <2>1. CASE m.tag[n].free
        <3>1. m2 = RemoveFree2(m1, n) BY <2>1
        <3> HIDE DEF m2
        <3> QED BY <2>1, <3>1, <1>12, <1>16, RemoveFreeKeeps
    <2>2. CASE ~ m.tag[n].free
        <3>1. m2 = m1 /\ F2 = F1 BY <2>2, <1>13
        <3> QED BY <3>1, <1>16
    <2> QED BY <2>1, <2>2
<1> HIDE DEF m2
<1>18. Lists(m3, F2 \cup {p}) /\ m3.len = m.len /\ SizeSet(m.tag, m3.tag, p, e - p - 2, TRUE)
    <2> DEFINE k == f1 - p
    <2>1. k \in MinData .. MaxSize /\ k = e - p - 2
        <3>1. e >= p + 4
            <4>1. m.tag[x].n >= 2 BY <1>3, <1>5, ChainedNext
            <4> QED BY <4>1, <1>6, <1>8, <1>9
        <3> QED BY <3>1, <1>8, <1>9, Sizes
    <2>2. p + k + Overhead \in Offsets
        <3>1. p + k + Overhead = e BY <1>8, <1>9, Sizes
        <3> QED BY <3>1, <1>3, <1>8, ChainedAt
    <2>3. p \in Offsets \ F2 BY <1>9 DEF F1
    <2> HIDE DEF k
    <2>4. m3 = NewFree(m2, p, k) BY DEF k
    <2> HIDE DEF m3, F2
    <2>5. Lists(m3, F2 \cup {p}) /\ m3.len = m2.len /\ SizeSet(m2.tag, m3.tag, p, k, TRUE)
        BY <2>1, <2>2, <2>3, <2>4, <1>17, NewFreeKeeps
    <2> QED BY <2>1, <2>5, <1>17
<1> HIDE DEF m3
<1>19. Lists(h, F2 \cup {p}) /\ h.len = m.len /\ h.tag = m3.tag
    <2> DEFINE q == m3.mapped \ Pages(RoundUp(p + Overhead, PageSize), Floor(p + m3.tag[p].n, PageSize))
    <2>1. h = [m3 EXCEPT !.mapped = q] BY DEF UnmapElt
    <2>2. q \subseteq 0 .. MaxSize BY <1>18 DEF Lists, Heaps
    <2> HIDE DEF q, h, F2
    <2> QED BY <2>1, <2>2, <1>18, MappedOnly
<1> HIDE DEF h
<1> DEFINE G == Around(E, p, e)
<1>20. Joined(m, E, h, G, x, p, n)
    <2>1. h \in Heaps BY <1>19 DEF Lists
    <2>2. SizeSet(m.tag, h.tag, p, e - p - 2, TRUE) BY <1>18, <1>19
    <2>3. (m.tag[n].free => e = After(m.tag, n)) /\ (~ m.tag[n].free => e = n) BY DEF e
    <2>4. x \in Used(m, E) /\ Chained(m, E) /\ Apart(m, E) BY <1>1, <1>3
    <2>5. p \in E /\ (p = x \/ (p # m.len /\ After(m.tag, p) = x /\ m.tag[p].free)) BY <1>9
    <2>6. p = x => ~ m.tag[x].prevFree BY <1>9
    <2>7. n \in E /\ n = After(m.tag, x) /\ n # m.len /\ e \in E BY <1>6, <1>7, <1>8
    <2>8. h.len = m.len BY <1>19
    <2>9. Joined(m, E, h, Around(E, p, e), x, p, n)
        BY <2>1, <2>2, <2>3, <2>4, <2>5, <2>6, <2>7, <2>8, MergedChain
    <2> QED BY <2>9 DEF G
<1> HIDE DEF G
<1>21. Frees(h, G) = F2 \cup {p} BY <1>20 DEF Joined, F1, F
<1>22. Sound(h, G)
    <2>1. ~ h.tag[FirstElt].prevFree BY <1>20 DEF Joined, Chained, Chain
    <2> QED BY <2>1, <1>19, <1>20, <1>21 DEF Sound, Joined
<1>23. Elements(h) = G BY <1>22, SoundElements
<1>24. Takes(m, h, x) BY <1>20, <1>22, <1>23 DEF Takes, Good, InUse, Joined, E
<1>25. h.mapped = m.mapped \ Pages(RoundUp(p + Overhead, PageSize), Floor(p + h.tag[p].n, PageSize))
    BY <1>3, <1>4, MergedPages DEF p
<1>26. h.tag[p].n = e - p - 2 BY <1>9, <1>18, <1>19 DEF SizeSet
<1>27. ASSUME NEW w \in Int, Hole(m, w) PROVE \/ w >= p + 2 /\ w < e - 2
                                              \/ Hole(h, w)
    <2>1. PICK f \in F : f + 2 <= w /\ w < f + m.tag[f].n BY <1>27 DEF Hole, F, E
    <2>2. f \in E /\ f # m.len /\ m.tag[f].free /\ f # x BY <1>5 DEF F, Frees
    <2>3. f \in Int /\ f \in Offsets BY <2>2, <1>3, ChainedAt
    <2>4. CASE f = p
        <3>1. After(m.tag, p) = x /\ x < n /\ n <= e BY <2>2, <2>4, <1>3, <1>5, <1>6, <1>8, <1>9, ChainedNext
        <3>2. p + m.tag[p].n + 2 = x /\ m.tag[p].n \in Nat BY <2>2, <2>4, <3>1, <1>3, ChainedNext
        <3> QED BY <2>1, <2>4, <3>1, <3>2, <1>8, <1>9
    <2>5. CASE f = n
        <3>1. e = After(m.tag, n) BY <2>2, <2>5 DEF e
        <3>2. n + m.tag[n].n + 2 = e /\ m.tag[n].n \in Nat BY <2>2, <2>5, <3>1, <1>3, ChainedNext
        <3>3. p <= n BY <1>3, <1>5, <1>6, <1>8, <1>9, ChainedNext
        <3> QED BY <2>1, <2>5, <3>2, <3>3, <1>8, <1>9
    <2>6. CASE f # p /\ f # n
        <3>1. f \in Frees(h, G) BY <2>6, <1>20 DEF Joined, F
        <3>2. h.tag[f].n = m.tag[f].n BY <2>3, <2>6, <1>18, <1>19 DEF SizeSet
        <3> QED BY <2>1, <3>1, <3>2, <1>23 DEF Hole
    <2> QED BY <2>4, <2>5, <2>6
<1>28. ASSUME NEW w \in Int, w >= p + 2, w < e - 2 PROVE Hole(h, w)
    <2>1. p \in Frees(h, Elements(h)) BY <1>21, <1>23
    <2>2. p + 2 <= w /\ w < p + h.tag[p].n BY <1>28, <1>26, <1>8, <1>9
    <2> QED BY <2>1, <2>2 DEF Hole
<1>29. FreedAs(m, h, p + Overhead, p + h.tag[p].n)
    <2>1. p + Overhead = p + 2 /\ p + h.tag[p].n = e - 2 /\ p + 2 \in Int /\ e - 2 \in Int
        BY <1>8, <1>9, <1>26, Sizes
    <2>2. h.len \in Nat /\ h.len <= m.len BY <1>19, <1>3, Sizes DEF Chained
    <2>3. ASSUME NEW w \in 0 .. h.len - 1, Hole(m, w) \/ (p + 2 <= w /\ w < e - 2) PROVE Hole(h, w)
        <3>1. w \in Int BY <2>2
        <3> QED BY <2>3, <3>1, <1>27, <1>28
    <2> QED BY <2>1, <2>2, <2>3, <1>25 DEF FreedAs
<1>30. FreedTo(m, h) BY <1>29 DEF FreedTo
<1> QED BY <1>4, <1>24, <1>30

\* The last block x, and with it a free element p before it, becomes the end.
LEMMA LastChain ==
    ASSUME NEW m, NEW E, Chained(m, E), Apart(m, E), NEW x \in Used(m, E), After(m.tag, x) = m.len,
           NEW p \in E, p = x \/ (p # m.len /\ After(m.tag, p) = x /\ m.tag[p].free),
           p = x => ~ m.tag[x].prevFree
    PROVE  /\ ~ m.tag[p].prevFree /\ p # m.len
           /\ Used(m, E) \ {x} = {y \in E : y < p /\ ~ m.tag[y].free}
           /\ Frees(m, E) \ {p} = {y \in E : y < p /\ m.tag[y].free}
<1> DEFINE t == m.tag
           len == m.len
<1>1. x \in E \ {len} /\ ~ t[x].free /\ len \in E BY DEF Used, Chained, Chain
<1>2. \A y \in E : y \in Int /\ y <= len BY ChainedAt
<1>3. \A y \in E \ {len} : y < After(t, y) /\ \A z \in E : z <= y \/ z >= After(t, y) BY ChainedNext
<1>4. /\ p <= x /\ x < len /\ p # len
      /\ \A y \in E : y <= p \/ y = x \/ y = len
    <2>1. p <= x /\ p # len /\ \A y \in E : y <= p \/ y >= x
        <3>1. CASE p = x BY <3>1, <1>1, <1>2
        <3>2. CASE p # x
            <4>1. p \in E \ {len} /\ After(t, p) = x BY <3>2
            <4>2. p < x /\ \A y \in E : y <= p \/ y >= x BY <4>1, <1>3
            <4>3. p \in Int /\ x \in Int /\ p # len BY <4>1, <1>1, <1>2
            <4> QED BY <4>2, <4>3
        <3> QED BY <3>1, <3>2
    <2>2. x < len /\ \A y \in E : y <= x \/ y >= len BY <1>1, <1>3
    <2> QED BY <2>1, <2>2, <1>1, <1>2
<1>5. ~ t[p].prevFree
    <2>1. CASE p = x BY <2>1
    <2>2. CASE p # x BY <2>2 DEF Apart
    <2> QED BY <2>1, <2>2
<1>6. p = x \/ t[p].free OBVIOUS
<1>7. \A y \in E : (y # len /\ y # x /\ y # p) <=> y < p
    <2> TAKE y \in E
    <2>1. y <= p \/ y = x \/ y = len BY <1>4
    <2>2. y \in Int /\ p \in Int /\ x \in Int /\ len \in Int BY <1>1, <1>2
    <2> QED BY <2>1, <2>2, <1>4
<1>8. Used(m, E) \ {x} = {y \in E : y < p /\ ~ t[y].free}
    <2>1. ASSUME NEW y \in E PROVE y # len /\ ~ t[y].free /\ y # x <=> y < p /\ ~ t[y].free
        BY <2>1, <1>6, <1>7
    <2> QED BY <2>1 DEF Used
<1>9. Frees(m, E) \ {p} = {y \in E : y < p /\ t[y].free}
    <2>1. ASSUME NEW y \in E PROVE y # len /\ t[y].free /\ y # p <=> y < p /\ t[y].free
        BY <2>1, <1>1, <1>7
    <2> QED BY <2>1 DEF Frees
<1> QED BY <1>4, <1>5, <1>8, <1>9

LEMMA LastFreedPages ==
    ASSUME NEW m \in Heaps, NEW x
    PROVE  LET p == IF m.tag[x].prevFree THEN PrevElt(m, x) ELSE x
               h == LastFreed(m, x)
           IN  h.mapped = m.mapped \ Pages(RoundUp(p + Overhead, PageSize),
                                           Floor(p + m.tag[p].n, PageSize))
<1> DEFINE p  == IF m.tag[x].prevFree THEN PrevElt(m, x) ELSE x
           m1 == IF m.tag[x].prevFree THEN RemoveFree2(m, p) ELSE m
           m2 == UnmapElt(m1, p)
           h  == IF m.tag[p].prevN = Invalid THEN [m2 EXCEPT !.len = 0]
                 ELSE [m2 EXCEPT !.len = p, !.tag[p].n = Invalid]
<1>1. LastFreed(m, x) = h BY DEF LastFreed
<1>2. DOMAIN m = Parts BY DEF Heaps, Parts
<1> HIDE DEF p
<1>3. DOMAIN m1 = Parts /\ m1.mapped = m.mapped /\ m1.tag = m.tag BY <1>2, PagesStay DEF RemoveFree2
<1> HIDE DEF m1
<1> DEFINE q == m.mapped \ Pages(RoundUp(p + Overhead, PageSize), Floor(p + m.tag[p].n, PageSize))
<1>4. m2 = [m1 EXCEPT !.mapped = q] BY <1>3 DEF UnmapElt
<1> HIDE DEF q, m2
<1>5. DOMAIN m2 = Parts /\ m2.mapped = q BY <1>3, <1>4 DEF Parts
<1>6. h.mapped = q BY <1>5 DEF Parts
<1> QED BY <1>1, <1>6 DEF q, p

LEMMA LastFreedTakes ==
    ASSUME NEW m, Good(m), NEW x \in InUse(m), m.tag[NextElt(m, x)].n = Invalid
    PROVE  LET h == LastFreed(m, x)
           IN  Takes(m, h, x) /\ FreedTo(m, h)
<1> DEFINE E  == Elements(m)
           F  == Frees(m, E)
           p  == IF m.tag[x].prevFree THEN PrevElt(m, x) ELSE x
           m1 == IF m.tag[x].prevFree THEN RemoveFree2(m, p) ELSE m
           m2 == UnmapElt(m1, p)
           h  == IF m.tag[p].prevN = Invalid THEN [m2 EXCEPT !.len = 0]
                 ELSE [m2 EXCEPT !.len = p, !.tag[p].n = Invalid]
           F1 == F \ {p}
           t  == m.tag
<1>1. Sound(m, E) /\ x \in Used(m, E) BY DEF Good, InUse
<1>2. E # {} BY <1>1 DEF Used
<1>3. Chained(m, E) /\ Apart(m, E) /\ m \in Heaps /\ Lists(m, F) BY <1>1, <1>2, SoundChained DEF Sound
<1>4. LastFreed(m, x) = h BY DEF LastFreed
<1> HIDE DEF E
<1>5. x \in E \ {m.len} /\ ~ m.tag[x].free BY <1>1 DEF Used
<1>6. After(m.tag, x) = m.len
    <2> DEFINE a == After(m.tag, x)
    <2>1. a \in E /\ NextElt(m, x) = a BY <1>3, <1>5, ChainedNext
    <2> HIDE DEF a
    <2>2. m.tag[a].n = Invalid BY <2>1
    <2>3. a # m.len => m.tag[a].n <= MaxSize /\ m.tag[a].n \in Nat BY <1>3, <2>1, ChainedAt
    <2>4. a = m.len BY <2>2, <2>3, Sizes
    <2> QED BY <2>4 DEF a
<1>7. /\ p \in E /\ (p = x \/ (p # m.len /\ After(m.tag, p) = x /\ m.tag[p].free))
      /\ (p = x => ~ m.tag[x].prevFree) /\ p \in Int /\ p \in Offsets /\ p >= 2
    <2>0. x \in Int /\ x \in Offsets /\ x >= 2 BY <1>3, <1>5, ChainedAt
    <2>1. CASE m.tag[x].prevFree
        <3>1. x # FirstElt BY <2>1, <1>3 DEF Chained, Chain
        <3> DEFINE q == PrevElt(m, x)
        <3>2. q \in E \ {m.len} /\ After(m.tag, q) = x /\ m.tag[q].free = m.tag[x].prevFree
            BY <3>1, <1>3, <1>5, Predecessor
        <3>3. p = q BY <2>1
        <3> HIDE DEF q, p
        <3>4. q \in Int /\ q \in Offsets /\ q >= 2 /\ q < x BY <3>2, <1>3, ChainedAt, ChainedNext
        <3>5. p # x BY <3>3, <3>4, <2>0
        <3>6. m.tag[p].free BY <2>1, <3>2, <3>3
        <3> QED BY <3>2, <3>3, <3>4, <3>5, <3>6
    <2>2. CASE ~ m.tag[x].prevFree
        <3>1. p = x BY <2>2
        <3> HIDE DEF p
        <3> QED BY <2>0, <2>2, <3>1, <1>5
    <2> QED BY <2>1, <2>2
<1>8. m.tag[x].prevFree => p \in F
    <2>1. m.tag[x].prevFree => p # m.len /\ m.tag[p].free /\ p \in E BY <1>7
    <2> QED BY <2>1 DEF F, Frees
<1>9. ~ m.tag[x].prevFree => p \notin F
    <2>1. ~ m.tag[x].prevFree => p = x OBVIOUS
    <2> QED BY <2>1, <1>5 DEF F, Frees
<1>10. m.tag[x].prevFree \in BOOLEAN BY <1>3, <1>5, ChainedAt
<1> HIDE DEF F, p
<1>11. Lists(m1, F1) /\ m1.len = m.len /\ m1.tag = t
    <2>1. CASE m.tag[x].prevFree
        <3>1. m1 = RemoveFree2(m, p) BY <2>1
        <3> HIDE DEF m1
        <3> QED BY <2>1, <3>1, <1>3, <1>8, RemoveFreeKeeps
    <2>2. CASE ~ m.tag[x].prevFree
        <3>1. m1 = m /\ F1 = F BY <2>2, <1>9
        <3> QED BY <3>1, <1>3
    <2> QED BY <2>1, <2>2
<1> HIDE DEF m1, F1
<1>12. Lists(m2, F1) /\ m2 \in Heaps /\ m2.tag = t
    <2> DEFINE q == m1.mapped \ Pages(RoundUp(p + Overhead, PageSize), Floor(p + m1.tag[p].n, PageSize))
    <2>1. m2 = [m1 EXCEPT !.mapped = q] BY DEF UnmapElt
    <2>2. q \subseteq 0 .. MaxSize BY <1>11 DEF Lists, Heaps
    <2> HIDE DEF q, m2
    <2>3. Lists(m2, F1) /\ m2.tag = t BY <2>1, <2>2, <1>11, MappedOnly
    <2> QED BY <2>3 DEF Lists
<1> HIDE DEF m2
<1>13. /\ ~ t[p].prevFree /\ p # m.len
       /\ Used(m, E) \ {x} = {y \in E : y < p /\ ~ t[y].free}
       /\ F1 = {y \in E : y < p /\ t[y].free}
    <2>1. p \in E /\ (p = x \/ (p # m.len /\ After(m.tag, p) = x /\ m.tag[p].free)) BY <1>7
    <2>2. p = x => ~ m.tag[x].prevFree BY <1>7
    <2> HIDE DEF t
    <2>3. /\ ~ m.tag[p].prevFree /\ p # m.len
          /\ Used(m, E) \ {x} = {y \in E : y < p /\ ~ m.tag[y].free}
          /\ Frees(m, E) \ {p} = {y \in E : y < p /\ m.tag[y].free}
        BY <2>1, <2>2, <1>1, <1>3, <1>6, LastChain
    <2> QED BY <2>3 DEF t, F1, F
<1>14. \A y \in E : y \in Int /\ y >= 2 /\ y \in Offsets BY <1>3, ChainedAt
<1>17. /\ LastFreed(m, x).mapped = m.mapped \ Pages(RoundUp(p + 2, PageSize),
                                                   Floor(p + m.tag[p].n, PageSize))
       /\ p + 2 \in Int /\ p + m.tag[p].n \in Int /\ m.len \in Nat /\ p <= m.len
    <2> DEFINE b == p + Overhead
               c == p + m.tag[p].n
    <2>1. LastFreed(m, x).mapped = m.mapped \ Pages(RoundUp(b, PageSize), Floor(c, PageSize))
        BY <1>3, LastFreedPages DEF p
    <2>2. b = p + 2 BY <1>7, Sizes
    <2>3. m.tag[p].n \in Nat /\ p <= m.len /\ m.len \in Int /\ p >= 2 BY <1>3, <1>7, ChainedAt
    <2>4. m.len \in Nat BY <2>3, <1>7
    <2>5. p + 2 \in Int /\ p + m.tag[p].n \in Int BY <2>3, <1>7
    <2> QED BY <2>1, <2>2, <2>3, <2>4, <2>5
<1>18. ASSUME NEW h1, h1 = LastFreed(m, x), h1.len \in Nat, h1.len <= p,
              \A w \in 0 .. h1.len - 1 : Hole(m, w) => Hole(h1, w)
       PROVE  FreedTo(m, h1)
    <2>1. h1.len <= m.len BY <1>17, <1>18, <1>7
    <2>2. ASSUME NEW w \in 0 .. h1.len - 1, p + 2 <= w PROVE FALSE BY <2>2, <1>7, <1>18
    <2>3. FreedAs(m, h1, p + 2, p + m.tag[p].n) BY <1>17, <1>18, <2>1, <2>2 DEF FreedAs
    <2> QED BY <2>3 DEF FreedTo
<1>15. CASE p = FirstElt
    <2>1. t[p].prevN = Invalid BY <1>3, <1>15 DEF Chained, Chain
    <2>2. h = [m2 EXCEPT !.len = 0] BY <2>1
    <2> HIDE DEF h
    <2>3. /\ h \in Heaps /\ h.len = 0 /\ h.tag = t /\ h.link = m2.link /\ h.first = m2.first
        <3>1. 0 \in 0 .. MaxSize BY Sizes
        <3> QED BY <2>2, <3>1, <1>12 DEF Heaps
    <2>4. Lists(h, F1) BY <2>3, <1>12, ListsSame
    <2>5. F1 = {} /\ Used(m, E) \ {x} = {} BY <1>13, <1>14, <1>15, Sizes
    <2>6. Frees(h, {}) = {} /\ Used(h, {}) = {} BY DEF Frees, Used
    <2>7. Sound(h, {})
        <3>1. ~ h.tag[FirstElt].prevFree BY <2>3, <1>3 DEF Chained, Chain
        <3> QED BY <2>3, <2>4, <2>5, <2>6, <3>1 DEF Sound
    <2>8. Elements(h) = {} BY <2>7, SoundElements
    <2>9. FreedTo(m, h)
        <3>1. h.len \in Nat /\ h.len <= p /\ 0 .. h.len - 1 = {} BY <2>3, <1>7
        <3> QED BY <3>1, <1>4, <1>18
    <2> QED BY <2>5, <2>6, <2>7, <2>8, <2>9, <1>4 DEF Takes, Good, InUse, E
<1>16. CASE p # FirstElt
    <2> DEFINE G == {y \in E : y <= p}
               a == [t[p] EXCEPT !.n = Invalid]
               u == [t EXCEPT ![p] = a]
    <2>1. t[p].prevN # Invalid
        <3>1. t[p].prevN <= MaxSize /\ t[p].prevN \in Nat
            BY <1>3, <1>7, <1>16, Predecessor, ChainedAt
        <3> QED BY <3>1, Sizes
    <2>2. h = [[m2 EXCEPT !.len = p] EXCEPT !.tag = [m2.tag EXCEPT ![p] = [m2.tag[p] EXCEPT !.n = Invalid]]]
        BY <2>1
    <2>3. h = [[m2 EXCEPT !.len = p] EXCEPT !.tag = u] BY <2>2, <1>12
    <2>4. t \in [Offsets -> Tags] BY <1>3 DEF Heaps
    <2>5. /\ a \in Tags /\ a.n = Invalid /\ a.free = t[p].free
          /\ a.prevN = t[p].prevN /\ a.prevFree = t[p].prevFree
        <3>1. t[p] \in Tags /\ Invalid \in 0 .. Invalid BY <2>4, <1>7, Sizes
        <3> QED BY <3>1 DEF Tags
    <2> HIDE DEF a
    <2>6. u \in [Offsets -> Tags] /\ \A y \in Offsets : u[y] = IF y = p THEN a ELSE t[y] BY <2>4, <2>5
    <2> HIDE DEF u, h
    <2>7. /\ h \in Heaps /\ h.len = p /\ h.tag = u /\ h.link = m2.link /\ h.first = m2.first
        <3>1. p \in 0 .. MaxSize BY <1>7, Sizes
        <3> QED BY <2>3, <2>6, <3>1, <1>12 DEF Heaps
    <2>8. \A y \in F1 : h.link[y] = m2.link[y] /\ h.tag[y].n = m2.tag[y].n
        <3>1. \A y \in F1 : y \in Offsets /\ y # p BY <1>7, <1>13, <1>14
        <3> QED BY <3>1, <2>6, <2>7, <1>12
    <2>9. Lists(h, F1) BY <2>7, <2>8, <1>12, ListsSame
    <2>10. \A y \in G : /\ y \in E /\ y <= p /\ u[y].free = t[y].free /\ u[y].prevN = t[y].prevN
                        /\ u[y].prevFree = t[y].prevFree /\ (y # p => u[y].n = t[y].n /\ y < p)
        BY <2>5, <2>6, <1>7, <1>14
    <2>11. Chained(h, G)
        <3>1. p \in FirstElt .. MaxSize BY <1>7, Sizes
        <3>2. G \subseteq FirstElt .. p /\ FirstElt \in G /\ p \in G
            <4>1. FirstElt \in E BY <1>3 DEF Chained, Chain
            <4>2. FirstElt \in G /\ p \in G BY <4>1, <1>7, Sizes
            <4>3. G \subseteq 2 .. p
                <5>1. \A y \in G : y \in Int /\ y >= 2 /\ y <= p BY <1>14
                <5>2. p \in Int BY <1>7
                <5> HIDE DEF G
                <5> QED BY <5>1, <5>2
            <4>4. FirstElt = 2 BY Sizes
            <4> QED BY <4>2, <4>3, <4>4
        <3>3. u[FirstElt].prevN = Invalid /\ ~ u[FirstElt].prevFree
            <4>1. t[FirstElt].prevN = Invalid /\ ~ t[FirstElt].prevFree BY <1>3 DEF Chained, Chain
            <4> QED BY <4>1, <3>2, <2>10
        <3>4. u[p].n = Invalid BY <2>5, <2>6, <1>7
        <3>5. ASSUME NEW y \in G \ {p}
              PROVE  /\ u[y].n >= MinData /\ After(u, y) \in G
                     /\ \A z \in G : z <= y \/ z >= After(u, y)
                     /\ u[After(u, y)].prevN = u[y].n /\ u[After(u, y)].prevFree = u[y].free
            <4> DEFINE b == After(t, y)
            <4>1. y \in E /\ y < p /\ u[y].n = t[y].n /\ u[y].free = t[y].free BY <2>10
            <4>2. y # m.len
                <5>1. p <= m.len /\ y \in Int /\ m.len \in Int BY <4>1, <1>3, <1>7, ChainedAt
                <5> QED BY <4>1, <5>1, <1>7
            <4>3. /\ t[y].n >= 2 /\ b \in E /\ b \in Int /\ \A z \in E : z <= y \/ z >= b
                  /\ t[b].prevN = t[y].n /\ t[b].prevFree = t[y].free
                BY <4>1, <4>2, <1>3, ChainedNext
            <4>4. After(u, y) = b BY <4>1 DEF After
            <4> HIDE DEF b
            <4>5. p >= b BY <4>1, <4>3, <1>7, <1>14
            <4>6. b \in G BY <4>3, <4>5, <1>7
            <4>7. u[b].prevN = t[b].prevN /\ u[b].prevFree = t[b].prevFree BY <4>6, <2>10
            <4>8. \A z \in G : z <= y \/ z >= b BY <4>3
            <4> QED BY <4>1, <4>3, <4>4, <4>6, <4>7, <4>8, Sizes
        <3> HIDE DEF G
        <3>6. Chain(u, p, G) BY <3>2, <3>3, <3>4, <3>5 DEF Chain
        <3> QED BY <3>1, <3>6, <2>6, <2>7 DEF Chained
    <2>12. Apart(h, G)
        <3> SUFFICES ASSUME NEW y \in G, y = p \/ u[y].free PROVE ~ u[y].prevFree BY <2>7 DEF Apart
        <3>1. CASE y = p BY <3>1, <2>10, <1>13
        <3>2. CASE y # p
            <4>1. t[y].free /\ y \in E BY <3>2, <2>10
            <4>2. ~ t[y].prevFree BY <4>1, <1>3 DEF Apart
            <4> QED BY <4>2, <2>10
        <3> QED BY <3>1, <3>2
    <2>18. \A y \in E : y < p => y \in G \ {p}
        <3> TAKE y \in E
        <3>1. y \in Int /\ p \in Int BY <1>7, <1>14
        <3> QED BY <3>1
    <2>13. Frees(h, G) = F1
        <3>1. Frees(h, G) = {y \in G \ {p} : u[y].free} BY <2>7 DEF Frees
        <3>2. \A y \in G \ {p} : y \in E /\ y < p /\ u[y].free = t[y].free BY <2>10
        <3> QED BY <3>1, <3>2, <2>18, <1>13
    <2>14. Used(h, G) = Used(m, E) \ {x}
        <3>1. Used(h, G) = {y \in G \ {p} : ~ u[y].free} BY <2>7 DEF Used
        <3>2. \A y \in G \ {p} : y \in E /\ y < p /\ u[y].free = t[y].free BY <2>10
        <3> QED BY <3>1, <3>2, <2>18, <1>13
    <2>15. \A y \in Used(h, G) : h.tag[y].n = m.tag[y].n
        <3>1. \A y \in Used(h, G) : y \in G /\ y # p BY <2>7 DEF Used
        <3> QED BY <3>1, <2>7, <2>10
    <2> HIDE DEF G
    <2>16. Sound(h, G)
        <3>1. ~ h.tag[FirstElt].prevFree BY <2>11 DEF Chained, Chain
        <3> QED BY <3>1, <2>9, <2>11, <2>12, <2>13 DEF Sound
    <2>17. Elements(h) = G BY <2>16, SoundElements
    <2>19. ASSUME NEW w \in 0 .. h.len - 1, Hole(m, w) PROVE Hole(h, w)
        <3>1. w \in Int /\ w < p BY <2>7, <1>7
        <3>2. PICK f \in F : f + 2 <= w /\ w < f + m.tag[f].n BY <2>19 DEF Hole, F, E
        <3>3. f \in E /\ f \in Int BY <1>14 DEF F, Frees
        <3>4. f # p /\ f < p BY <3>1, <3>2, <3>3, <1>7
        <3>5. f \in Frees(h, G) BY <3>2, <3>4, <2>13 DEF F1
        <3>6. h.tag[f].n = m.tag[f].n BY <3>4, <2>7, <2>10, <2>18, <3>3 DEF t
        <3> QED BY <3>2, <3>5, <3>6, <2>17 DEF Hole
    <2>20. FreedTo(m, h)
        <3>1. h.len \in Nat /\ h.len <= p BY <2>7, <1>7
        <3> QED BY <3>1, <2>19, <1>4, <1>18
    <2> QED BY <2>14, <2>15, <2>16, <2>17, <2>20, <1>4 DEF Takes, Good, InUse, E
<1> QED BY <1>15, <1>16

LEMMA FreedTakes ==
    ASSUME NEW m, Good(m), NEW x \in InUse(m)
    PROVE  Takes(m, Freed(m, x), x)
<1>1. CASE m.tag[NextElt(m, x)].n = Invalid
    <2>1. Freed(m, x) = Tidy(LastFreed(m, x)) BY <1>1 DEF Freed
    <2> QED BY <2>1, <1>1, LastFreedTakes, TidyTakes
<1>2. CASE m.tag[NextElt(m, x)].n # Invalid
    <2>1. Freed(m, x) = Tidy(Merged(m, x)) BY <1>2 DEF Freed
    <2> QED BY <2>1, <1>2, MergedTakes, TidyTakes
<1> QED BY <1>1, <1>2

-----------------------------------------------------------------------------
(* The invariant.  Who has the blocks in use: callers, by held, or the cache. *)

CacheIndexes == 0 .. CacheSize - 1
Entries == [bin : 0 .. NSmallBins, offset : Offsets \cup {0}]
Caches  == [entry : [CacheIndexes -> Entries], replacement : CacheIndexes]

HeldOffsets == {h.off : h \in held}

\* The cache has the offset of one block per entry in use, filed by its bin.
CacheIs(m, e, offsets) ==
    /\ \A i \in CacheIndexes : e[i].bin # 0 => /\ e[i].offset \in offsets
                                               /\ Bin(m, e[i].offset) = e[i].bin - 1
    /\ \A i, j \in CacheIndexes :
           e[i].bin # 0 /\ e[j].bin # 0 /\ e[i].offset = e[j].offset => i = j
    /\ \A o \in offsets : \E i \in CacheIndexes : e[i].bin # 0 /\ e[i].offset = o

Met(m, h) == m.tag[h.off].n >= h.req.n /\ (h.off + h.req.alignOffset) % h.req.align = 0

\* One holder per block, who has what was asked for; and as many as n_elts.
HeldIs(m, hs, n, offsets) ==
    /\ hs \subseteq [off : Offsets, req : Asked]
    /\ \A h \in hs : h.off \in offsets /\ Met(m, h)
    /\ \A g, h \in hs : g.off = h.off => g = h
    /\ \A o \in offsets : \E h \in hs : h.off = o
    /\ IsFiniteSet(offsets) /\ n = Cardinality(offsets)

\* H: the blocks callers have; C: the blocks in the cache.
Shared(m, H, C) == InUse(m) = H \cup C /\ H \cap C = {}

Inv ==
    /\ Good(heap) /\ cache \in Caches
    /\ \E H, C : /\ Shared(heap, H, C) /\ CacheIs(heap, cache.entry, C)
                 /\ HeldIs(heap, held, nElts, H)

\* What is known of a block in use.
LEMMA InUseIs ==
    ASSUME NEW m, Good(m), NEW o \in InUse(m)
    PROVE  /\ o \in Offsets /\ o \in Elements(m) /\ Elements(m) # {} /\ o # m.len
           /\ m.tag[o].n \in MinData .. MaxSize /\ Bin(m, o) \in Nat
<1> DEFINE E == Elements(m)
<1>1. o \in E /\ o # m.len BY DEF InUse, Used
<1>2. Sound(m, E) BY DEF Good
<1>3. E # {} BY <1>1
<1> HIDE DEF E
<1>4. Chained(m, E) BY <1>2, <1>3, SoundChained
<1>5. o \in Offsets /\ m.tag[o].n \in Nat /\ m.tag[o].n <= MaxSize BY <1>1, <1>4, ChainedAt
<1>6. m.tag[o].n >= MinData BY <1>1, <1>4 DEF Chained, Chain
<1>7. m.tag[o].n \in MinData .. MaxSize BY <1>5, <1>6, Sizes
<1>8. Bin(m, o) \in Nat BY <1>5, BinsOfSizes DEF Bin
<1> QED BY <1>1, <1>3, <1>5, <1>7, <1>8 DEF E

\* Who has what depends on the sizes of the blocks alone.
LEMMA CacheKept ==
    ASSUME NEW m, NEW k, NEW e, NEW C, CacheIs(m, e, C), \A x \in C : k.tag[x].n = m.tag[x].n
    PROVE  CacheIs(k, e, C)
<1>1. \A i \in CacheIndexes : e[i].bin # 0 => Bin(k, e[i].offset) = Bin(m, e[i].offset)
    BY DEF CacheIs, Bin
<1> QED BY <1>1 DEF CacheIs

LEMMA HeldKept ==
    ASSUME NEW m, NEW k, NEW hs, NEW n, NEW H, HeldIs(m, hs, n, H),
           \A x \in H : k.tag[x].n = m.tag[x].n
    PROVE  HeldIs(k, hs, n, H)
<1>1. \A h \in hs : Met(k, h) BY DEF HeldIs, Met
<1> QED BY <1>1 DEF HeldIs

\* A caller gets a block that no caller has.
LEMMA OneMoreHeld ==
    ASSUME NEW m, NEW hs, NEW n, NEW H, HeldIs(m, hs, n, H), NEW o \in Offsets, o \notin H,
           NEW r \in Asked, m.tag[o].n >= r.n, (o + r.alignOffset) % r.align = 0
    PROVE  HeldIs(m, hs \cup {[off |-> o, req |-> r]}, n + 1, H \cup {o})
<1> DEFINE g == [off |-> o, req |-> r]
           gs == hs \cup {g}
<1>1. g.off = o /\ g.req = r /\ g \in [off : Offsets, req : Asked] OBVIOUS
<1> HIDE DEF g
<1>2. gs \subseteq [off : Offsets, req : Asked] BY <1>1 DEF HeldIs
<1>3. Met(m, g) BY <1>1 DEF Met
<1>4. \A h \in gs : h.off \in H \cup {o} /\ Met(m, h) BY <1>1, <1>3 DEF HeldIs
<1>5. \A h \in hs : h.off # o BY DEF HeldIs
<1>6. \A h, i \in gs : h.off = i.off => h = i BY <1>1, <1>5 DEF HeldIs
<1>7. \A x \in H \cup {o} : \E h \in gs : h.off = x BY <1>1 DEF HeldIs
<1>8. IsFiniteSet(H) /\ n = Cardinality(H) BY DEF HeldIs
<1>9. IsFiniteSet(H \cup {o}) /\ n + 1 = Cardinality(H \cup {o}) BY <1>8, FS_AddElement
<1> HIDE DEF gs
<1>10. HeldIs(m, gs, n + 1, H \cup {o}) BY <1>2, <1>4, <1>6, <1>7, <1>9 DEF HeldIs
<1> QED BY <1>10 DEF gs, g

\* A caller gives its block back.
LEMMA OneFewerHeld ==
    ASSUME NEW m, NEW hs, NEW n, NEW H, HeldIs(m, hs, n, H), NEW g \in hs
    PROVE  HeldIs(m, hs \ {g}, n - 1, H \ {g.off})
<1> DEFINE gs == hs \ {g}
<1>1. gs \subseteq [off : Offsets, req : Asked] BY DEF HeldIs
<1>2. \A h \in gs : h.off \in H \ {g.off} /\ Met(m, h) BY DEF HeldIs
<1>3. \A h, i \in gs : h.off = i.off => h = i BY DEF HeldIs
<1>4. \A x \in H \ {g.off} : \E h \in gs : h.off = x BY DEF HeldIs
<1>5. IsFiniteSet(H) /\ n = Cardinality(H) /\ g.off \in H BY DEF HeldIs
<1>6. IsFiniteSet(H \ {g.off}) /\ n - 1 = Cardinality(H \ {g.off}) BY <1>5, FS_RemoveElement
<1> HIDE DEF gs
<1>7. HeldIs(m, gs, n - 1, H \ {g.off}) BY <1>1, <1>2, <1>3, <1>4, <1>6 DEF HeldIs
<1> QED BY <1>7 DEF gs

\* A cached block is taken out of the cache.
LEMMA EntryTaken ==
    ASSUME NEW m, NEW e \in [CacheIndexes -> Entries], NEW C, CacheIs(m, e, C),
           NEW i \in CacheIndexes, e[i].bin # 0
    PROVE  LET d == [e EXCEPT ![i].bin = 0]
           IN  d \in [CacheIndexes -> Entries] /\ CacheIs(m, d, C \ {e[i].offset})
<1> DEFINE a == [e[i] EXCEPT !.bin = 0]
           d == [e EXCEPT ![i] = a]
           D == C \ {e[i].offset}
<1>1. a \in Entries /\ a.bin = 0
    <2>1. e[i] \in Entries /\ 0 \in 0 .. NSmallBins
        <3>1. NSmallBins \in Nat BY MheapAssumption, Powers
        <3> QED BY <3>1
    <2> QED BY <2>1 DEF Entries
<1> HIDE DEF a
<1>2. d \in [CacheIndexes -> Entries] /\ \A j \in CacheIndexes : d[j] = IF j = i THEN a ELSE e[j]
    BY <1>1
<1> HIDE DEF d
<1>3. \A j \in CacheIndexes : d[j].bin # 0 => j # i /\ d[j] = e[j] BY <1>1, <1>2
<1>4. \A j \in CacheIndexes : j # i => d[j] = e[j] BY <1>2
<1>5. \A j \in CacheIndexes : d[j].bin # 0 => d[j].offset \in D /\ Bin(m, d[j].offset) = d[j].bin - 1
    BY <1>3 DEF CacheIs
<1>6. \A j, k \in CacheIndexes : d[j].bin # 0 /\ d[k].bin # 0 /\ d[j].offset = d[k].offset => j = k
    BY <1>3 DEF CacheIs
<1>7. \A o \in D : \E j \in CacheIndexes : d[j].bin # 0 /\ d[j].offset = o
    <2> TAKE o \in D
    <2>1. PICK j \in CacheIndexes : e[j].bin # 0 /\ e[j].offset = o BY DEF CacheIs
    <2>2. j # i BY <2>1
    <2> QED BY <2>1, <2>2, <1>4
<1>8. CacheIs(m, d, D) BY <1>5, <1>6, <1>7 DEF CacheIs
<1> QED BY <1>2, <1>8 DEF a, d, D

\* A block is put into an entry that is not used.
LEMMA EntryPut ==
    ASSUME NEW m, NEW e \in [CacheIndexes -> Entries], NEW C, CacheIs(m, e, C),
           NEW i \in CacheIndexes, e[i].bin = 0, NEW a \in Entries, a.bin # 0,
           a.offset \notin C, Bin(m, a.offset) = a.bin - 1
    PROVE  LET d == [e EXCEPT ![i] = a]
           IN  d \in [CacheIndexes -> Entries] /\ CacheIs(m, d, C \cup {a.offset})
<1> DEFINE d == [e EXCEPT ![i] = a]
           D == C \cup {a.offset}
<1>2. d \in [CacheIndexes -> Entries] /\ \A j \in CacheIndexes : d[j] = IF j = i THEN a ELSE e[j]
    OBVIOUS
<1> HIDE DEF d
<1>3. d[i] = a /\ \A j \in CacheIndexes : j # i => d[j] = e[j] BY <1>2
<1>4. \A j \in CacheIndexes : j # i /\ e[j].bin # 0 => e[j].offset \in C BY DEF CacheIs
<1>5. \A j \in CacheIndexes : d[j].bin # 0 => d[j].offset \in D /\ Bin(m, d[j].offset) = d[j].bin - 1
    BY <1>3 DEF CacheIs
<1>6. \A j, k \in CacheIndexes : d[j].bin # 0 /\ d[k].bin # 0 /\ d[j].offset = d[k].offset => j = k
    BY <1>3, <1>4 DEF CacheIs
<1>7. \A o \in D : \E j \in CacheIndexes : d[j].bin # 0 /\ d[j].offset = o
    <2> TAKE o \in D
    <2>1. CASE o = a.offset BY <2>1, <1>3
    <2>2. CASE o \in C
        <3>1. PICK j \in CacheIndexes : e[j].bin # 0 /\ e[j].offset = o BY <2>2 DEF CacheIs
        <3>2. j # i BY <3>1
        <3> QED BY <3>1, <3>2, <1>3
    <2> QED BY <2>1, <2>2
<1>8. CacheIs(m, d, D) BY <1>5, <1>6, <1>7 DEF CacheIs
<1> QED BY <1>2, <1>8 DEF d, D

-----------------------------------------------------------------------------
(* The invariant holds at first and is kept *)

LEMMA InitInv == Init => Inv
<1> SUFFICES ASSUME Init PROVE Inv OBVIOUS
<1>1. /\ heap.len = 0 /\ heap.tag = [o \in Offsets |-> Zeroed]
      /\ heap.link = [o \in Offsets |-> Links(Nil, Nil)]
      /\ heap.first = [b \in Bins |-> Nil] /\ heap.mapped = {}
    BY DEF Init
<1>2. heap \in Heaps
    <2>1. Zeroed \in Tags BY Sizes DEF Zeroed, Tag, Tags
    <2>2. Links(Nil, Nil) \in LinkPairs BY DEF Links, LinkPairs
    <2>3. 0 \in 0 .. MaxSize BY Sizes
    <2> QED BY <2>1, <2>2, <2>3 DEF Init, Heaps
<1>3. Elements(heap) = {} BY <1>1 DEF Elements
<1>4. Frees(heap, {}) = {} /\ Used(heap, {}) = {} BY DEF Frees, Used
<1>5. Lists(heap, {})
    <2>1. \A b \in Bins : FirstOf(heap, {}, b) BY <1>1 DEF FirstOf
    <2>2. \E pos \in [Offsets -> Nat] : Upwards(heap, {}, pos)
        <3>1. [o \in Offsets |-> 0] \in [Offsets -> Nat] OBVIOUS
        <3> QED BY <3>1 DEF Upwards
    <2> QED BY <1>2, <2>1, <2>2 DEF Lists
<1>6. ~ heap.tag[FirstElt].prevFree BY <1>1, Sizes DEF Zeroed, Tag
<1>7. Good(heap) BY <1>1, <1>3, <1>4, <1>5, <1>6 DEF Good, Sound
<1>8. \A i \in CacheIndexes : cache.entry[i].bin = 0 BY DEF Init, CacheIndexes, Entry
<1>9. cache \in Caches
    <2>1. 0 \in 0 .. NSmallBins
        <3>1. NSmallBins \in Nat BY MheapAssumption, Powers
        <3> QED BY <3>1
    <2>2. 0 \in CacheIndexes BY MheapAssumption DEF CacheIndexes
    <2>3. Entry(0, 0) \in Entries BY <2>1 DEF Entry, Entries
    <2> QED BY <2>2, <2>3 DEF Init, Caches, CacheIndexes
<1>10. CacheIs(heap, cache.entry, {}) BY <1>8 DEF CacheIs
<1>11. HeldIs(heap, held, nElts, {})
    <2>1. held = {} /\ nElts = 0 BY DEF Init
    <2> QED BY <2>1, FS_EmptySet DEF HeldIs
<1>12. Shared(heap, {}, {}) BY <1>3, <1>4 DEF Shared, InUse
<1> QED BY <1>7, <1>9, <1>10, <1>11, <1>12 DEF Inv

\* An allocation from the heap itself.
LEMMA GaveKeepsInv ==
    ASSUME Inv, NEW r \in Asked, NEW o, Gives(heap, heap', o, r), Gave(o, r), cache' = cache
    PROVE  Inv'
<1>1. PICK H, C : /\ Shared(heap, H, C) /\ CacheIs(heap, cache.entry, C)
                  /\ HeldIs(heap, held, nElts, H) BY DEF Inv
<1>2. H \cup C = InUse(heap) /\ H \cap C = {} BY <1>1 DEF Shared
<1>3. /\ Good(heap') /\ o \in Offsets /\ o \notin InUse(heap) /\ InUse(heap') = InUse(heap) \cup {o}
      /\ \A x \in InUse(heap) : heap'.tag[x].n = heap.tag[x].n
      /\ heap'.tag[o].n >= r.n /\ (o + r.alignOffset) % r.align = 0
    BY DEF Gives
<1>4. \A x \in H : heap'.tag[x].n = heap.tag[x].n BY <1>2, <1>3
<1>5. \A x \in C : heap'.tag[x].n = heap.tag[x].n BY <1>2, <1>3
<1>6. HeldIs(heap', held, nElts, H) BY <1>1, <1>4, HeldKept
<1>7. o \notin H /\ o \notin C BY <1>2, <1>3
<1>8. HeldIs(heap', held \cup {[off |-> o, req |-> r]}, nElts + 1, H \cup {o})
    BY <1>3, <1>6, <1>7, OneMoreHeld
<1>9. HeldIs(heap', held', nElts', H \cup {o}) BY <1>8 DEF Gave
<1>10. CacheIs(heap', cache'.entry, C) BY <1>1, <1>5, CacheKept
<1>11. Shared(heap', H \cup {o}, C) BY <1>2, <1>3, <1>7 DEF Shared
<1>12. cache' \in Caches BY DEF Inv
<1> QED BY <1>3, <1>9, <1>10, <1>11, <1>12 DEF Inv

LEMMA GetFromFreeListKeepsInv ==
    ASSUME Inv, NEW r \in Asked, GetFromFreeList(r)
    PROVE  Inv'
<1> DEFINE f0 == FreeEltFor(heap, r)
           o  == Place(f0, f0 + heap.tag[f0].n, r)
<1>1. f0 # Nil /\ heap' = Tidy(Carved(heap, f0, r)) /\ Gave(o, r) /\ cache' = cache
    BY DEF GetFromFreeList
<1>2. Good(heap) BY DEF Inv
<1>3. f0 \in Frees(heap, Elements(heap)) /\ Fits(heap, f0, r) BY <1>1, <1>2, FreeEltIs
<1> HIDE DEF f0
<1>4. Gives(heap, Carved(heap, f0, r), o, r) BY <1>2, <1>3, CarvedGives
<1> HIDE DEF o
<1>5. Gives(heap, heap', o, r) BY <1>1, <1>4, TidyGives
<1> QED BY <1>1, <1>5, GaveKeepsInv

LEMMA GetByExtendingKeepsInv ==
    ASSUME Inv, NEW r \in Asked, GetByExtending(r)
    PROVE  Inv'
<1> DEFINE m == Begun(heap)
           o == ExtendAt(m, r)
<1>1. /\ ExtensionFits(m, r) => heap' = Tidy(Extended(m, r)) /\ Gave(o, r)
      /\ ~ ExtensionFits(m, r) => heap' = m /\ nElts' = nElts /\ held' = held
      /\ cache' = cache
    BY DEF GetByExtending
<1>2. Good(heap) BY DEF Inv
<1>3. /\ Good(m) /\ InUse(m) = InUse(heap) /\ Elements(m) # {}
      /\ \A x \in InUse(heap) : m.tag[x].n = heap.tag[x].n
    BY <1>2, BegunKeeps
<1> HIDE DEF m
<1>4. CASE ExtensionFits(m, r)
    <2>1. Gives(m, Extended(m, r), o, r) BY <1>3, <1>4, ExtendedGives
    <2> HIDE DEF o
    <2>2. Gives(m, heap', o, r) BY <2>1, <1>1, <1>4, TidyGives
    <2>3. Gives(heap, heap', o, r) BY <2>2, <1>3 DEF Gives
    <2> QED BY <2>3, <1>1, <1>4, GaveKeepsInv
<1>5. CASE ~ ExtensionFits(m, r)
    <2>1. PICK H, C : /\ Shared(heap, H, C) /\ CacheIs(heap, cache.entry, C)
                      /\ HeldIs(heap, held, nElts, H) BY DEF Inv
    <2>2. heap' = m /\ nElts' = nElts /\ held' = held /\ cache' = cache BY <1>1, <1>5
    <2>3. H \subseteq InUse(heap) /\ C \subseteq InUse(heap) BY <2>1 DEF Shared
    <2>4. HeldIs(m, held, nElts, H) BY <2>1, <2>3, <1>3, HeldKept
    <2>5. CacheIs(m, cache.entry, C) BY <2>1, <2>3, <1>3, CacheKept
    <2>6. Shared(m, H, C) BY <2>1, <1>3 DEF Shared
    <2>7. cache \in Caches BY DEF Inv
    <2> QED BY <2>2, <2>4, <2>5, <2>6, <2>7, <1>3 DEF Inv
<1> QED BY <1>4, <1>5

\* A small block comes back out of the cache: it is of the same bin, and
\* small bins have one size each.
LEMMA GetFromCacheKeepsInv ==
    ASSUME Inv, NEW r \in Asked, GetFromCache(r)
    PROVE  Inv'
<1> DEFINE S == CacheHits(r)
           i == Max(S)
           e == cache.entry
           o == e[i].offset
           d == [e EXCEPT ![i].bin = 0]
<1>1. /\ S # {} /\ cache' = [cache EXCEPT !.entry[i].bin = 0] /\ Gave(o, r) /\ heap' = heap
    BY DEF GetFromCache
<1>2. /\ BinOf(r.n) < NSmallBins - 1 /\ r.align = 1 /\ r.alignOffset = 0
      /\ S = {j \in CacheIndexes : e[j].bin = BinOf(r.n) + 1}
    BY <1>1 DEF CacheHits, CacheIndexes
<1>3. cache \in Caches /\ e \in [CacheIndexes -> Entries] BY DEF Inv, Caches
<1> HIDE DEF S
<1>4. i \in S
    <2>1. S \subseteq 0 .. CacheSize BY <1>2, MheapAssumption DEF CacheIndexes
    <2>2. CacheSize \in Nat BY MheapAssumption
    <2> QED BY <2>1, <2>2, <1>1, GreatestBelow
<1> HIDE DEF i
<1>5. r.n \in Nat /\ r.n >= MinData BY AskedFor
<1>6. i \in CacheIndexes /\ e[i].bin = BinOf(r.n) + 1 /\ BinOf(r.n) \in Nat
    BY <1>2, <1>4, <1>5, BinsOfSizes
<1>7. e[i].bin # 0 BY <1>6
<1>8. PICK H, C : /\ Shared(heap, H, C) /\ CacheIs(heap, e, C)
                  /\ HeldIs(heap, held, nElts, H) BY DEF Inv
<1>9. o \in C /\ Bin(heap, o) = e[i].bin - 1 BY <1>6, <1>7, <1>8 DEF CacheIs
<1>10. H \cup C = InUse(heap) /\ H \cap C = {} BY <1>8 DEF Shared
<1>11. Good(heap) BY DEF Inv
<1>12. o \in InUse(heap) /\ o \notin H BY <1>9, <1>10
<1>13. d \in [CacheIndexes -> Entries] /\ CacheIs(heap, d, C \ {o})
    BY <1>3, <1>6, <1>7, <1>8, EntryTaken
<1>14. cache' \in Caches /\ cache'.entry = d
    <2>1. cache' = [cache EXCEPT !.entry = d] BY <1>1
    <2> HIDE DEF d
    <2> QED BY <2>1, <1>3, <1>13 DEF Caches
<1> HIDE DEF d, o
<1>15. o \in Offsets /\ heap.tag[o].n \in MinData .. MaxSize BY <1>11, <1>12, InUseIs
<1>16. heap.tag[o].n >= r.n
    <2>1. BinOf(heap.tag[o].n) = BinOf(r.n) BY <1>6, <1>9 DEF Bin
    <2>2. heap.tag[o].n \in Nat /\ heap.tag[o].n >= 2 BY <1>15, Sizes
    <2>3. BinOf(heap.tag[o].n) = AtLeast(heap.tag[o].n, MinData) - MinData \/ BinOf(heap.tag[o].n) > NSmallBins
        BY <2>2, BinsOfSizes
    <2>4. BinOf(r.n) = AtLeast(r.n, MinData) - MinData \/ BinOf(r.n) > NSmallBins
        BY <1>5, BinsOfSizes
    <2>5. NSmallBins \in Nat BY MheapAssumption, Powers
    <2>6. AtLeast(heap.tag[o].n, MinData) = heap.tag[o].n /\ AtLeast(r.n, MinData) = r.n
        BY <1>5, <2>2, Sizes DEF AtLeast
    <2> QED BY <1>2, <1>5, <1>6, <2>1, <2>2, <2>3, <2>4, <2>5, <2>6, Sizes
<1>17. (o + r.alignOffset) % r.align = 0
    <2>1. o \in Int /\ o + 0 = o BY <1>15, Sizes
    <2> QED BY <2>1, <1>2
<1>18. HeldIs(heap, held \cup {[off |-> o, req |-> r]}, nElts + 1, H \cup {o})
    BY <1>8, <1>12, <1>15, <1>16, <1>17, OneMoreHeld
<1>19. HeldIs(heap', held', nElts', H \cup {o}) BY <1>1, <1>18 DEF Gave
<1>20. CacheIs(heap', cache'.entry, C \ {o}) BY <1>1, <1>13, <1>14
<1>21. Shared(heap', H \cup {o}, C \ {o}) BY <1>1, <1>9, <1>10 DEF Shared
<1> QED BY <1>1, <1>11, <1>14, <1>19, <1>20, <1>21 DEF Inv

\* A block is given back: it is freed, or it goes into the cache, where it may
\* take the place of another one, which is freed then.
LEMMA PutKeepsInv ==
    ASSUME Inv, NEW g \in held, Put(g)
    PROVE  Inv'
<1> DEFINE o == g.off
           e == cache.entry
           a == Entry(BinOf(heap.tag[o].n) + 1, o)
           S == UnusedEntries
           i == IF S # {} THEN Max(S) ELSE cache.replacement
           d == [e EXCEPT ![i] = a]
<1>1. /\ nElts' = nElts - 1 /\ held' = held \ {g}
      /\ Cached(o) => /\ cache' = [entry |-> d,
                                   replacement |-> IF S # {} THEN cache.replacement
                                                   ELSE (cache.replacement + 1) % CacheSize]
                      /\ heap' = IF S # {} THEN heap ELSE Freed(heap, e[i].offset)
      /\ ~ Cached(o) => heap' = Freed(heap, o) /\ cache' = cache
    BY DEF Put
<1>2. Good(heap) BY DEF Inv
<1>3. cache \in Caches /\ e \in [CacheIndexes -> Entries] /\ cache.replacement \in CacheIndexes
    BY DEF Inv, Caches
<1>4. PICK H, C : /\ Shared(heap, H, C) /\ CacheIs(heap, e, C)
                  /\ HeldIs(heap, held, nElts, H) BY DEF Inv
<1>5. H \cup C = InUse(heap) /\ H \cap C = {} BY <1>4 DEF Shared
<1>6. o \in H BY <1>4 DEF HeldIs
<1>7. o \in InUse(heap) /\ o \notin C BY <1>5, <1>6
<1>8. o \in Offsets /\ Bin(heap, o) \in Nat BY <1>2, <1>7, InUseIs
<1>9. HeldIs(heap, held', nElts', H \ {o}) BY <1>1, <1>4, OneFewerHeld
<1>10. CASE ~ Cached(o)
    <2>1. heap' = Freed(heap, o) /\ cache' = cache BY <1>1, <1>10
    <2>2. Takes(heap, heap', o) BY <2>1, <1>2, <1>7, FreedTakes
    <2> HIDE DEF o
    <2>3. /\ Good(heap') /\ InUse(heap') = InUse(heap) \ {o}
          /\ \A x \in InUse(heap') : heap'.tag[x].n = heap.tag[x].n BY <2>2 DEF Takes
    <2>4. H \ {o} \subseteq InUse(heap') /\ C \subseteq InUse(heap') BY <2>3, <1>5, <1>7
    <2>5. HeldIs(heap', held', nElts', H \ {o})
        <3>1. \A x \in H \ {o} : heap'.tag[x].n = heap.tag[x].n BY <2>3, <2>4
        <3> QED BY <3>1, <1>9, HeldKept
    <2>6. CacheIs(heap', cache'.entry, C)
        <3>1. \A x \in C : heap'.tag[x].n = heap.tag[x].n BY <2>3, <2>4
        <3> QED BY <2>1, <3>1, <1>4, CacheKept
    <2>7. Shared(heap', H \ {o}, C) BY <2>3, <1>5, <1>7 DEF Shared
    <2>8. cache' \in Caches BY <2>1, <1>3
    <2> QED BY <2>3, <2>5, <2>6, <2>7, <2>8 DEF Inv
<1>11. CASE Cached(o)
    <2> DEFINE x == e[i].offset
    <2>1. a \in Entries /\ a.bin # 0 /\ a.offset = o /\ Bin(heap, a.offset) = a.bin - 1
        <3>1. Bin(heap, o) < NSmallBins - 1 BY <1>11 DEF Cached, Bin
        <3>2. NSmallBins \in Nat BY MheapAssumption, Powers
        <3>3. a = [bin |-> Bin(heap, o) + 1, offset |-> o] BY DEF Bin, Entry
        <3> HIDE DEF o, a
        <3>4. Bin(heap, o) + 1 \in 0 .. NSmallBins BY <3>1, <3>2, <1>8
        <3>5. a.bin = Bin(heap, o) + 1 /\ a.offset = o BY <3>3
        <3>6. a \in Entries BY <3>3, <3>4, <1>8 DEF Entries
        <3> QED BY <3>5, <3>6, <1>8
    <2> HIDE DEF a, o
    <2>2. S = {j \in CacheIndexes : e[j].bin = 0} BY DEF UnusedEntries, CacheIndexes
    <2>3. S # {} => Max(S) \in S
        <3>1. CacheSize \in Nat BY MheapAssumption
        <3>2. S \subseteq 0 .. CacheSize BY <2>2, <3>1 DEF CacheIndexes
        <3> HIDE DEF S
        <3>3. S \subseteq Int /\ CacheSize \in Int /\ \A j \in S : j <= CacheSize BY <3>1, <3>2
        <3> QED BY <3>3, GreatestBelow
    <2>4. i \in CacheIndexes /\ (S # {} => e[i].bin = 0) /\ (S = {} => e[i].bin # 0)
        <3>1. CASE S # {} BY <3>1, <2>2, <2>3
        <3>2. CASE S = {} BY <3>2, <2>2, <1>3
        <3> QED BY <3>1, <3>2
    <2>5. cache'.replacement \in CacheIndexes /\ cache'.entry = d
        <3>1. (cache.replacement + 1) % CacheSize \in CacheIndexes
            <4>1. CacheSize \in Nat \ {0} /\ cache.replacement \in Int
                BY <1>3, MheapAssumption DEF CacheIndexes
            <4>2. cache.replacement + 1 \in Int BY <4>1
            <4> QED BY <4>1, <4>2, DivMod DEF CacheIndexes
        <3> HIDE DEF d, S
        <3> QED BY <3>1, <1>1, <1>3, <1>11
    <2>6. cache' = [entry |-> cache'.entry, replacement |-> cache'.replacement] BY <1>1, <1>11
    <2> HIDE DEF i
    <2>7. CASE S # {}
        <3>1. d \in [CacheIndexes -> Entries] /\ CacheIs(heap, d, C \cup {o})
            BY <2>1, <2>4, <2>7, <1>3, <1>4, <1>7, EntryPut
        <3>2. heap' = heap BY <2>7, <1>1, <1>11
        <3>3. cache' \in Caches BY <3>1, <2>5, <2>6 DEF Caches
        <3>4. Shared(heap', H \ {o}, C \cup {o}) BY <3>2, <1>5, <1>6 DEF Shared
        <3> QED BY <3>1, <3>2, <3>3, <3>4, <2>5, <1>2, <1>9 DEF Inv
    <2>8. CASE S = {}
        <3> DEFINE b == [e EXCEPT ![i].bin = 0]
                   D == C \ {x}
        <3>1. x \in C BY <2>4, <2>8, <1>4 DEF CacheIs
        <3>2. b \in [CacheIndexes -> Entries] /\ CacheIs(heap, b, D)
            BY <2>4, <2>8, <1>3, <1>4, EntryTaken
        <3>3. b[i].bin = 0
            <4>1. e[i] \in Entries BY <2>4, <1>3
            <4> QED BY <4>1, <2>4, <1>3 DEF Entries
        <3>4. [b EXCEPT ![i] = a] = d BY <2>4, <1>3
        <3> HIDE DEF b, d
        <3>5. a.offset \notin D BY <2>1, <1>7
        <3>6. d \in [CacheIndexes -> Entries] /\ CacheIs(heap, d, D \cup {o})
            BY <3>2, <3>3, <3>4, <3>5, <2>1, <2>4, EntryPut
        <3>7. heap' = Freed(heap, x) BY <2>8, <1>1, <1>11
        <3> HIDE DEF x
        <3>8. x \in InUse(heap) /\ x \notin H /\ x # o BY <3>1, <1>5, <1>6
        <3>9. Takes(heap, heap', x) BY <3>7, <3>8, <1>2, FreedTakes
        <3>10. /\ Good(heap') /\ InUse(heap') = InUse(heap) \ {x}
               /\ \A y \in InUse(heap') : heap'.tag[y].n = heap.tag[y].n BY <3>9 DEF Takes
        <3>11. H \ {o} \subseteq InUse(heap') /\ D \cup {o} \subseteq InUse(heap')
            BY <3>8, <3>10, <1>5, <1>6
        <3>12. HeldIs(heap', held', nElts', H \ {o})
            <4>1. \A y \in H \ {o} : heap'.tag[y].n = heap.tag[y].n BY <3>10, <3>11
            <4> QED BY <4>1, <1>9, HeldKept
        <3>13. CacheIs(heap', cache'.entry, D \cup {o})
            <4> HIDE DEF D
            <4>1. \A y \in D \cup {o} : heap'.tag[y].n = heap.tag[y].n BY <3>10, <3>11
            <4>2. CacheIs(heap', d, D \cup {o}) BY <4>1, <3>6, CacheKept
            <4> QED BY <4>2, <2>5
        <3>14. Shared(heap', H \ {o}, D \cup {o}) BY <3>1, <3>8, <3>10, <1>5, <1>6 DEF Shared
        <3>15. cache' \in Caches BY <3>6, <2>5, <2>6 DEF Caches
        <3> HIDE DEF D
        <3> QED BY <3>10, <3>12, <3>13, <3>14, <3>15 DEF Inv
    <2> QED BY <2>7, <2>8
<1> QED BY <1>10, <1>11

LEMMA StepInv == Inv /\ [Next]_vars => Inv'
<1> SUFFICES ASSUME Inv, [Next]_vars PROVE Inv' OBVIOUS
<1>1. ASSUME NEW q \in Requests, Get(Rounded(q)) PROVE Inv'
    <2>1. Rounded(q) \in Asked BY DEF Asked
    <2>2. PICK r \in Asked : Get(r) BY <2>1, <1>1
    <2> QED BY <2>2, GetFromCacheKeepsInv, GetFromFreeListKeepsInv, GetByExtendingKeepsInv DEF Get
<1>2. ASSUME NEW h \in held, Put(h) PROVE Inv' BY <1>2, PutKeepsInv
<1>3. CASE UNCHANGED vars
    <2>1. heap' = heap /\ cache' = cache /\ nElts' = nElts /\ held' = held BY <1>3 DEF vars
    <2> QED BY <2>1 DEF Inv
<1> QED BY <1>1, <1>2, <1>3 DEF Next

LEMMA SpecInv == Spec => []Inv
BY InitInv, StepInv, PTL DEF Spec

-----------------------------------------------------------------------------
(* What callers and TLC see of it: the properties of Mheap *)

\* The blocks of the heap are those of the invariant.
LEMMA BlocksAre ==
    ASSUME NEW m, Good(m)
    PROVE  /\ Blocks(m) = Elements(m) \ {m.len}
           /\ \A o \in Blocks(m) : m.tag[o].free \in BOOLEAN
<1> DEFINE E == Elements(m)
<1>1. Sound(m, E) BY DEF Good
<1> HIDE DEF E
<1>2. \A o \in E : (o < m.len <=> o # m.len) /\ m.tag[o].free \in BOOLEAN
    <2> SUFFICES ASSUME NEW o \in E PROVE (o < m.len <=> o # m.len) /\ m.tag[o].free \in BOOLEAN
        OBVIOUS
    <2>1. Chained(m, E) BY <1>1, SoundChained
    <2>2. o \in Int /\ m.len \in Int /\ o <= m.len /\ m.tag[o].free \in BOOLEAN BY <2>1, ChainedAt
    <2> QED BY <2>2
<1> QED BY <1>2 DEF Blocks, E

\* The callers' offsets and the cache's are what the invariant says they are.
LEMMA HoldersAre ==
    ASSUME Inv
    PROVE  /\ Shared(heap, HeldOffsets, CacheOffsets) /\ CacheIs(heap, cache.entry, CacheOffsets)
           /\ HeldIs(heap, held, nElts, HeldOffsets)
<1>1. PICK H, C : /\ Shared(heap, H, C) /\ CacheIs(heap, cache.entry, C)
                  /\ HeldIs(heap, held, nElts, H) BY DEF Inv
<1>2. H = HeldOffsets BY <1>1 DEF HeldIs, HeldOffsets
<1>3. C = CacheOffsets
    <2>1. DOMAIN cache.entry = CacheIndexes BY DEF Inv, Caches
    <2>2. \A x \in CacheOffsets : x \in C BY <1>1, <2>1 DEF CacheIs, CacheOffsets
    <2>3. \A x \in C : x \in CacheOffsets BY <1>1, <2>1 DEF CacheIs, CacheOffsets
    <2> QED BY <2>2, <2>3
<1> QED BY <1>1, <1>2, <1>3

LEMMA HoldersAfter ==
    ASSUME Inv'
    PROVE  HeldOffsets' \subseteq InUse(heap') /\ HeldIs(heap', held', nElts', HeldOffsets')
<1>1. PICK H, C : Shared(heap', H, C) /\ HeldIs(heap', held', nElts', H) BY DEF Inv
<1>2. H = HeldOffsets' BY <1>1 DEF HeldIs, HeldOffsets
<1> QED BY <1>1, <1>2 DEF Shared

LEMMA InvAccounts == Inv => BlocksAccountedFor
<1> SUFFICES ASSUME Inv PROVE BlocksAccountedFor OBVIOUS
<1> DEFINE e == cache.entry
           U == {i \in CacheIndexes : e[i].bin # 0}
           H == HeldOffsets
           C == CacheOffsets
<1>1. Shared(heap, H, C) /\ CacheIs(heap, e, C) /\ HeldIs(heap, held, nElts, H) BY HoldersAre
<1>2. Good(heap) BY DEF Inv
<1>3. DOMAIN e = CacheIndexes BY DEF Inv, Caches
<1>4. C = {e[i].offset : i \in U} BY <1>3 DEF CacheOffsets
<1> HIDE DEF H, C
<1>5. Blocks(heap) \ FreeBlocks = H \cup C
    <2>1. Blocks(heap) = Elements(heap) \ {heap.len} BY <1>2, BlocksAre
    <2>2. Blocks(heap) \ FreeBlocks = InUse(heap) BY <2>1 DEF FreeBlocks, InUse, Used
    <2> QED BY <2>2, <1>1 DEF Shared
<1>6. C \cap H = {} BY <1>1 DEF Shared
<1>7. Cardinality(C) = Cardinality(U)
    <2> DEFINE f == [i \in U |-> e[i].offset]
    <2>1. f \in [U -> C] BY <1>4
    <2>2. \A i, j \in U : f[i] = f[j] => i = j BY <1>1 DEF CacheIs
    <2>3. \A x \in C : \E i \in U : f[i] = x BY <1>4
    <2>4. IsFiniteSet(U)
        <3>1. CacheSize - 1 \in Int /\ 0 \in Int BY MheapAssumption
        <3>2. IsFiniteSet(CacheIndexes) BY <3>1, FS_Interval DEF CacheIndexes
        <3>3. U \in SUBSET CacheIndexes OBVIOUS
        <3> HIDE DEF U
        <3> QED BY <3>2, <3>3, FS_Subset
    <2> HIDE DEF f, U
    <2>5. f \in Bijection(U, C)
        <3>1. DOMAIN f = U BY <2>1
        <3>2. IsInjective(f) BY <2>2, <3>1 DEF IsInjective
        <3>3. f \in Injection(U, C) BY <2>1, <3>2 DEF Injection
        <3>4. f \in Surjection(U, C) BY <2>1, <2>3 DEF Surjection
        <3> QED BY <3>3, <3>4 DEF Bijection
    <2>6. ExistsBijection(U, C) BY <2>5 DEF ExistsBijection
    <2> QED BY <2>4, <2>6, FS_Bijection
<1>8. nElts = Cardinality(H) BY <1>1 DEF HeldIs
<1>9. \A i \in CacheIndexes : e[i].bin # 0 => BinOf(heap.tag[e[i].offset].n) = e[i].bin - 1
    BY <1>1 DEF CacheIs, Bin
<1>10. H = {h.off : h \in held} BY DEF H, HeldOffsets
<1> QED BY <1>3, <1>5, <1>6, <1>7, <1>8, <1>9, <1>10 DEF BlocksAccountedFor, C

LEMMA InvMeets == Inv => RequestsMet
BY HoldersAre DEF HeldIs, Met, RequestsMet

LEMMA InvTypeOK == Inv => TypeOK
<1> SUFFICES ASSUME Inv PROVE TypeOK OBVIOUS
<1>1. heap \in Heaps /\ cache \in Caches BY DEF Inv, Good, Sound, Lists
<1>2. HeldIs(heap, held, nElts, HeldOffsets) BY HoldersAre
<1>3. nElts \in Nat BY <1>2, FS_CardinalityType DEF HeldIs
<1>4. held \subseteq [off : Offsets, req : {Rounded(r) : r \in Requests}] BY <1>2 DEF HeldIs, Asked
<1>5. /\ heap.len \in 0 .. MaxSize
      /\ heap.tag \in [Offsets -> [prevN : 0 .. Invalid, prevFree : BOOLEAN,
                                   n : 0 .. Invalid, free : BOOLEAN]]
      /\ heap.link \in [Offsets -> [next : Offsets \cup {Nil}, prev : Offsets \cup {Nil}]]
      /\ heap.first \in [Bins -> Offsets \cup {Nil}]
      /\ heap.mapped \subseteq 0 .. MaxSize
    BY <1>1 DEF Heaps, Tags, LinkPairs
<1>6. /\ cache.entry \in [0 .. CacheSize - 1 -> [bin : 0 .. NSmallBins, offset : Offsets \cup {0}]]
      /\ cache.replacement \in 0 .. CacheSize - 1
    BY <1>1 DEF Caches, CacheIndexes, Entries
<1> QED BY <1>3, <1>4, <1>5, <1>6 DEF TypeOK

LEMMA InvChains == Inv => TagsChain
<1> SUFFICES ASSUME Inv PROVE TagsChain OBVIOUS
<1> DEFINE E == Elements(heap)
           t == heap.tag
<1>1. TypeOK BY InvTypeOK
<1>2. Good(heap) BY DEF Inv
<1>3. Sound(heap, E) BY <1>2 DEF Good
<1>4. Blocks(heap) = E \ {heap.len} BY <1>2, BlocksAre
<1>5. FreeBlocks = {o \in E \ {heap.len} : t[o].free} BY <1>4 DEF FreeBlocks
<1> HIDE DEF E, t
<1>6. SUFFICES ASSUME Populated
               PROVE  /\ heap.len \in E /\ t[heap.len].n = Invalid /\ t[FirstElt].prevN = Invalid
                      /\ \A o \in E \ {heap.len} :
                             /\ t[o].n \in MinData .. MaxSize
                             /\ t[NextElt(heap, o)].prevN = t[o].n
                             /\ t[NextElt(heap, o)].prevFree = t[o].free
                      /\ NoFreeNeighbours
    BY <1>1, <1>4 DEF TagsChain, E, t
<1>7. heap.len > 2 BY <1>6, Sizes DEF Populated
<1>8. Chained(heap, E) /\ Apart(heap, E) BY <1>3, <1>7 DEF Sound
<1>9. /\ heap.len \in E /\ heap.tag[heap.len].n = Invalid /\ heap.tag[FirstElt].prevN = Invalid
    BY <1>7, <1>8, Sizes DEF Chained, Chain
<1>10. ASSUME NEW o \in E \ {heap.len}
       PROVE  /\ t[o].n \in MinData .. MaxSize /\ t[NextElt(heap, o)].prevN = t[o].n
              /\ t[NextElt(heap, o)].prevFree = t[o].free
    <2>1. /\ heap.tag[o].n \in Nat /\ heap.tag[o].n >= 2
          /\ heap.tag[NextElt(heap, o)].prevN = heap.tag[o].n
          /\ heap.tag[NextElt(heap, o)].prevFree = heap.tag[o].free
        BY <1>8, ChainedNext
    <2>2. heap.tag[o].n <= MaxSize BY <1>8, ChainedAt
    <2>3. heap.tag[o].n \in MinData .. MaxSize BY <2>1, <2>2, Sizes
    <2> QED BY <2>1, <2>3 DEF t
<1>11. NoFreeNeighbours BY <1>5, <1>8, <1>9 DEF NoFreeNeighbours, Apart, t
<1> QED BY <1>9, <1>10, <1>11 DEF t

\* Elements lie four words apart at least, so there are no more of them than
\* a walk can visit: different elements i of 0 .. k, none of them the last.
LEMMA FewElements ==
    ASSUME NEW m, NEW E, Chained(m, E), NEW k \in Nat, NEW w,
           \A i \in 0 .. k : w[i] \in E \ {m.len},
           \A i, j \in 0 .. k : w[i] = w[j] => i = j
    PROVE  k + 1 <= MaxSize \div EltWords
<1> DEFINE K == MaxSize \div EltWords
           q(x) == (x - 2) \div 4
           f == [i \in 0 .. k |-> q(w[i])]
<1>1. K \in Nat /\ MaxSize < 4 * K + 4 /\ MaxSize \in Nat BY Sizes
<1>2. \A x \in E \ {m.len} : /\ x \in Int /\ x >= 2 /\ x + 4 <= MaxSize
                             /\ \A y \in E : y <= x \/ y >= x + 4
    <2> TAKE x \in E \ {m.len}
    <2> DEFINE a == After(m.tag, x)
    <2>1. x \in Int /\ x >= 2 /\ a \in Int /\ a >= x + 4 /\ a <= m.len /\ m.len \in Int /\ m.len <= MaxSize
        BY ChainedAt
    <2>2. \A y \in E : y <= x \/ y >= a BY DEF Chained, Chain
    <2>3. \A y \in E : y \in Int BY ChainedAt
    <2> HIDE DEF a
    <2> QED BY <2>1, <2>2, <2>3, <1>1
<1> HIDE DEF K
<1>3. ASSUME NEW x \in E \ {m.len} PROVE q(x) \in 0 .. K - 1
    <2>1. x \in Int /\ x >= 2 /\ x + 4 <= MaxSize BY <1>2
    <2> QED BY <2>1, <1>1
<1>4. ASSUME NEW x \in E \ {m.len}, NEW y \in E \ {m.len}, q(x) = q(y) PROVE x = y
    <2>1. x \in Int /\ x >= 2 /\ y \in Int /\ y >= 2 BY <1>2
    <2>2. (y <= x \/ y >= x + 4) /\ (x <= y \/ x >= y + 4) BY <1>2
    <2> QED BY <2>1, <2>2, <1>4
<1> HIDE DEF q
<1>5. f \in [0 .. k -> 0 .. K - 1] BY <1>3
<1>6. \A i, j \in 0 .. k : f[i] = f[j] => i = j BY <1>4
<1> HIDE DEF f
<1>7. f \in Injection(0 .. k, 0 .. K - 1)
    <2>1. DOMAIN f = 0 .. k BY <1>5
    <2>2. IsInjective(f) BY <2>1, <1>6 DEF IsInjective
    <2> QED BY <2>2, <1>5 DEF Injection
<1>8. IsFiniteSet(0 .. K - 1) /\ Cardinality(0 .. K - 1) = K
    <2>1. 0 \in Int /\ K - 1 \in Int BY <1>1
    <2>2. IsFiniteSet(0 .. K - 1) /\ Cardinality(0 .. K - 1) = IF 0 > K - 1 THEN 0 ELSE K - 1 - 0 + 1
        BY <2>1, FS_Interval
    <2> QED BY <2>2, <1>1
<1>9. Cardinality(0 .. k) = k + 1
    <2>1. Cardinality(0 .. k) = IF 0 > k THEN 0 ELSE k - 0 + 1 BY FS_Interval
    <2> QED BY <2>1
<1>10. Cardinality(0 .. k) <= Cardinality(0 .. K - 1) BY <1>7, <1>8, FS_Injection
<1> QED BY <1>8, <1>9, <1>10 DEF K

\* The walk of a free list finds every element of its bin: each has its
\* predecessors on the list down to the first one, and there are no more
\* elements than steps.
LEMMA ListedFinds ==
    ASSUME NEW m, NEW E, Chained(m, E), Lists(m, Frees(m, E)), NEW b \in Bins,
           NEW o \in Frees(m, E), Bin(m, o) = b
    PROVE  \E k \in DOMAIN Listed(m, b) : Listed(m, b)[k] = o
<1> DEFINE F  == Frees(m, E)
           K  == MaxSize \div EltWords
           at == Listed(m, b)
           S  == Offsets \cup {Nil}
           step == [x \in S |-> IF x = Nil THEN Nil ELSE m.link[x].next]
<1>1. /\ m \in Heaps /\ F \subseteq Offsets /\ \A x \in F : Neighbours(m, F, x)
      /\ \A c \in Bins : FirstOf(m, F, c) BY DEF Lists
<1>2. PICK pos \in [Offsets -> Nat] : Upwards(m, F, pos) BY DEF Lists
<1>3. /\ K \in Nat /\ DOMAIN at = 0 .. K /\ at[0] = m.first[b]
      /\ \A k \in 1 .. K : at[k] = IF at[k - 1] = Nil THEN Nil ELSE m.link[at[k - 1]].next
    BY ListedIs
<1> HIDE DEF at, K
<1>4. m.first[b] \in S BY <1>1 DEF Heaps
<1>5. step \in [S -> S]
    <2>1. \A x \in Offsets : m.link[x].next \in S BY <1>1 DEF Heaps, LinkPairs
    <2> QED BY <2>1
<1>6. PICK w : SteppedOn(w, S, m.first[b], step)
    <2> HIDE DEF step, S
    <2> QED BY <1>4, <1>5, Steps
<1>7. w \in [Nat -> S] /\ w[0] = m.first[b] /\ \A k \in Nat : w[k + 1] = step[w[k]]
    BY <1>6 DEF SteppedOn
<1>8. \A k \in Nat : w[k + 1] = IF w[k] = Nil THEN Nil ELSE m.link[w[k]].next BY <1>7
<1> HIDE DEF step
<1>9. \A k \in 0 .. K : at[k] = w[k]
    <2> DEFINE P == {k \in 0 .. K : at[k] = w[k]}
    <2>1. 0 \in P BY <1>3, <1>7
    <2>2. ASSUME NEW k \in 1 .. K, k - 1 \in P PROVE k \in P
        <3>1. k - 1 \in Nat /\ (k - 1) + 1 = k /\ at[k - 1] = w[k - 1] BY <2>2
        <3>2. w[k] = IF w[k - 1] = Nil THEN Nil ELSE m.link[w[k - 1]].next BY <3>1, <1>8
        <3>3. at[k] = w[k] BY <3>1, <3>2, <1>3
        <3> QED BY <3>3
    <2> HIDE DEF P
    <2>3. 0 .. K \subseteq P BY <1>3, <2>1, <2>2, AllNumbersUpTo
    <2> QED BY <2>3 DEF P
\* Elements of the walk are free elements, and the numbering goes up.
<1>10. \A k \in Nat : w[k] # Nil => w[k] \in F
    <2> DEFINE P == {k \in Nat : w[k] # Nil => w[k] \in F}
    <2>1. 0 \in P BY <1>1, <1>7 DEF FirstOf
    <2>2. ASSUME NEW k \in Nat, k \in P PROVE k + 1 \in P
        <3>1. CASE w[k] = Nil BY <3>1, <1>8
        <3>2. CASE w[k] # Nil
            <4>1. w[k] \in F /\ w[k + 1] = m.link[w[k]].next BY <3>2, <2>2, <1>8
            <4>2. w[k + 1] # Nil => w[k + 1] \in F BY <4>1, <1>1 DEF Neighbours
            <4> QED BY <4>2
        <3> QED BY <3>1, <3>2
    <2> HIDE DEF P
    <2>3. Nat \subseteq P BY <2>1, <2>2, AllNumbers
    <2> QED BY <2>3 DEF P
<1>11. \A k \in Nat : w[k + 1] # Nil => w[k] # Nil /\ pos[w[k]] < pos[w[k + 1]]
    <2> TAKE k \in Nat
    <2> SUFFICES ASSUME w[k + 1] # Nil PROVE w[k] # Nil /\ pos[w[k]] < pos[w[k + 1]] OBVIOUS
    <2>1. w[k] # Nil /\ w[k + 1] = m.link[w[k]].next BY <1>8
    <2> QED BY <2>1, <1>2, <1>10 DEF Upwards
<1>12. ASSUME NEW k \in Nat, w[k] # Nil
       PROVE  \A i \in 0 .. k : /\ w[i] # Nil
                                /\ i < k => pos[w[i]] < pos[w[k]]
    <2> DEFINE P == {d \in 0 .. k : w[k - d] # Nil /\ (d > 0 => pos[w[k - d]] < pos[w[k]])}
    <2>1. 0 \in P BY <1>12
    <2>2. ASSUME NEW d \in 1 .. k, d - 1 \in P PROVE d \in P
        <3> DEFINE j == k - d
        <3>1. j \in Nat /\ k - (d - 1) = j + 1 OBVIOUS
        <3>2. w[j + 1] # Nil /\ (d - 1 > 0 => pos[w[j + 1]] < pos[w[k]]) BY <2>2, <3>1
        <3>3. w[j] # Nil /\ pos[w[j]] < pos[w[j + 1]] BY <3>1, <3>2, <1>11
        <3>4. w[j] \in Offsets /\ w[j + 1] \in Offsets /\ w[k] \in Offsets BY <3>1, <3>2, <3>3, <1>1, <1>10, <1>12
        <3>5. pos[w[j]] \in Nat /\ pos[w[j + 1]] \in Nat /\ pos[w[k]] \in Nat BY <3>4, <1>2
        <3>6. d - 1 = 0 => j + 1 = k BY <3>1
        <3>7. pos[w[j]] < pos[w[k]] BY <3>2, <3>3, <3>5, <3>6
        <3> QED BY <3>3, <3>7
    <2> HIDE DEF P
    <2>3. 0 .. k \subseteq P BY <2>1, <2>2, AllNumbersUpTo
    <2>4. ASSUME NEW i \in 0 .. k PROVE w[i] # Nil /\ (i < k => pos[w[i]] < pos[w[k]])
        <3>1. k - i \in 0 .. k /\ k - (k - i) = i OBVIOUS
        <3>2. k - i \in P BY <2>3, <3>1
        <3> QED BY <3>1, <3>2 DEF P
    <2> QED BY <2>4
\* So no element is met twice, and the walk ends in time.
<1>13. ASSUME NEW k \in Nat, w[k] # Nil PROVE k \in 0 .. K
    <2>1. \A i \in 0 .. k : w[i] # Nil BY <1>12, <1>13
    <2>2. \A i \in 0 .. k : w[i] \in E \ {m.len} BY <2>1, <1>10 DEF Frees
    <2>3. ASSUME NEW i \in 0 .. k, NEW j \in 0 .. k, w[i] = w[j], i < j PROVE FALSE
        <3>1. pos[w[i]] < pos[w[j]]
            <4>1. j \in Nat /\ i \in 0 .. j BY <2>3
            <4> QED BY <4>1, <2>1, <2>3, <1>12
        <3>2. pos[w[j]] \in Nat BY <2>1, <1>1, <1>2, <1>10
        <3> QED BY <2>3, <3>1, <3>2
    <2>4. \A i, j \in 0 .. k : w[i] = w[j] => i = j
        <3> TAKE i, j \in 0 .. k
        <3>1. i < j \/ j < i \/ i = j OBVIOUS
        <3> QED BY <3>1, <2>3
    <2>5. k + 1 <= MaxSize \div EltWords BY <2>2, <2>4, FewElements
    <2> QED BY <2>5, <1>3 DEF K
\* Every element of the bin is met: the one before it is.
<1>14. \A x \in F : Bin(m, x) = b => \E k \in Nat : w[k] = x
    <2> DEFINE Missed == {x \in F : Bin(m, x) = b /\ ~ \E k \in Nat : w[k] = x}
               Q == {pos[x] : x \in Missed}
    <2> SUFFICES ASSUME Missed # {} PROVE FALSE OBVIOUS
    <2>1. Q \subseteq Nat /\ Q # {} BY <1>1, <1>2
    <2>2. PICK x \in Missed : \A y \in Missed : pos[x] <= pos[y]
        <3>1. Min(Q) \in Q /\ \A n \in Q : Min(Q) <= n
            <4> HIDE DEF Q
            <4> QED BY <2>1, MinIsLeast
        <3> QED BY <3>1
    <2>3. x \in F /\ Bin(m, x) = b /\ (\A k \in Nat : w[k] # x) BY <2>2
    <2>4. Neighbours(m, F, x) BY <2>3, <1>1
    <2> DEFINE p == m.link[x].prev
    <2>5. p # Nil
        <3>1. p = Nil => m.first[b] = x BY <2>3, <2>4 DEF Neighbours
        <3> QED BY <3>1, <2>3, <1>7
    <2>6. p \in F /\ Bin(m, p) = b /\ m.link[p].next = x BY <2>3, <2>4, <2>5 DEF Neighbours
    <2> HIDE DEF p
    <2>7. x # Nil /\ p # Nil BY <2>3, <2>6, <1>1, NilIsNone
    <2>8. pos[p] < pos[x] BY <2>6, <2>7, <1>2 DEF Upwards
    <2>9. pos[p] \in Nat /\ pos[x] \in Nat BY <2>3, <2>6, <1>1, <1>2
    <2>10. p \notin Missed
        <3> HIDE DEF Missed
        <3> QED BY <2>2, <2>8, <2>9
    <2>11. PICK k \in Nat : w[k] = p BY <2>6, <2>10
    <2>12. w[k + 1] = x BY <2>6, <2>7, <2>11, <1>8
    <2>13. k + 1 \in Nat OBVIOUS
    <2> QED BY <2>3, <2>12, <2>13
<1>15. PICK k \in Nat : w[k] = o BY <1>14
<1>16. w[k] # Nil BY <1>15, <1>1, NilIsNone
<1>17. k \in 0 .. K BY <1>13, <1>16
<1> QED BY <1>3, <1>9, <1>15, <1>17 DEF at

LEMMA InvLists == Inv => FreeListsExact
<1> SUFFICES ASSUME Inv PROVE FreeListsExact OBVIOUS
<1> DEFINE E == Elements(heap)
           F == Frees(heap, E)
<1>1. Good(heap) BY DEF Inv
<1>2. Sound(heap, E) BY <1>1 DEF Good
<1>3. Lists(heap, F) BY <1>2 DEF Sound
<1>4. FreeBlocks = F BY <1>1, BlocksAre DEF FreeBlocks, Frees
<1> SUFFICES ASSUME NEW b \in Bins
             PROVE  LET at == Listed(heap, b)
                        on == {at[k] : k \in DOMAIN at} \ {Nil}
                    IN  /\ on = {o \in FreeBlocks : BinOf(heap.tag[o].n) = b}
                        /\ \A o \in on :
                               LET prev == heap.link[o].prev
                               IN  IF o = heap.first[b] THEN prev = Nil
                                   ELSE prev \in on /\ heap.link[prev].next = o
    BY DEF FreeListsExact
<1> DEFINE at == Listed(heap, b)
           on == {at[k] : k \in DOMAIN at} \ {Nil}
<1>5. \A k \in DOMAIN at : at[k] # Nil => at[k] \in F /\ Bin(heap, at[k]) = b
    <2> HIDE DEF F
    <2> QED BY <1>3, ListedIs
<1>6. \A o \in F : Bin(heap, o) = b => \E k \in DOMAIN at : at[k] = o
    <2> SUFFICES ASSUME NEW o \in F, Bin(heap, o) = b PROVE \E k \in DOMAIN at : at[k] = o OBVIOUS
    <2>1. o \in E BY DEF Frees
    <2> HIDE DEF E
    <2>2. Chained(heap, E) BY <2>1, <1>2, SoundChained
    <2> QED BY <2>2, <1>3, ListedFinds
<1> HIDE DEF E, F
<1>7. F \subseteq Offsets BY <1>3 DEF Lists
<1>8. on = {o \in F : Bin(heap, o) = b}
    <2> HIDE DEF at
    <2> QED BY <1>5, <1>6, <1>7, NilIsNone
<1> HIDE DEF on
<1>9. ASSUME NEW o \in on
      PROVE  IF o = heap.first[b] THEN heap.link[o].prev = Nil
             ELSE heap.link[o].prev \in on /\ heap.link[heap.link[o].prev].next = o
    <2>1. o \in F /\ Bin(heap, o) = b BY <1>8
    <2>2. Neighbours(heap, F, o) /\ FirstOf(heap, F, b) BY <2>1, <1>3 DEF Lists
    <2>3. CASE o = heap.first[b]
        <3>1. heap.first[b] # Nil BY <2>1, <2>3, <1>7, NilIsNone
        <3>2. heap.link[o].prev = Nil BY <3>1, <2>2, <2>3 DEF FirstOf
        <3> QED BY <3>2, <2>3
    <2>4. CASE o # heap.first[b]
        <3>1. heap.link[o].prev # Nil BY <2>1, <2>2, <2>4 DEF Neighbours
        <3>2. /\ heap.link[o].prev \in F /\ Bin(heap, heap.link[o].prev) = b
              /\ heap.link[heap.link[o].prev].next = o
            BY <3>1, <2>1, <2>2 DEF Neighbours
        <3> QED BY <3>2, <2>4, <1>8
    <2> QED BY <2>3, <2>4
<1>10. on = {o \in FreeBlocks : BinOf(heap.tag[o].n) = b} BY <1>4, <1>8 DEF Bin
<1> QED BY <1>9, <1>10 DEF at, on

-----------------------------------------------------------------------------
(* The steps of the allocator *)

\* Blocks that stay in use keep their size: a step gives one block, takes one,
\* or moves one between its caller and the cache.
LEMMA GetSizes ==
    ASSUME Inv, NEW r \in Asked, Get(r)
    PROVE  \A x \in InUse(heap) : heap'.tag[x].n = heap.tag[x].n
<1>1. Good(heap) BY DEF Inv
<1>2. CASE GetFromCache(r)
    <2>1. heap' = heap BY <1>2 DEF GetFromCache
    <2> QED BY <2>1
<1>3. CASE GetFromFreeList(r)
    <2> DEFINE f0 == FreeEltFor(heap, r)
               o  == Place(f0, f0 + heap.tag[f0].n, r)
    <2>1. f0 # Nil /\ heap' = Tidy(Carved(heap, f0, r)) BY <1>3 DEF GetFromFreeList
    <2>2. f0 \in Frees(heap, Elements(heap)) /\ Fits(heap, f0, r) BY <1>1, <2>1, FreeEltIs
    <2> HIDE DEF f0
    <2>3. Gives(heap, Carved(heap, f0, r), o, r) BY <1>1, <2>2, CarvedGives
    <2> HIDE DEF o
    <2>4. Gives(heap, heap', o, r) BY <2>1, <2>3, TidyGives
    <2> QED BY <2>4 DEF Gives
<1>4. CASE GetByExtending(r)
    <2> DEFINE m == Begun(heap)
               o == ExtendAt(m, r)
    <2>1. /\ ExtensionFits(m, r) => heap' = Tidy(Extended(m, r))
          /\ ~ ExtensionFits(m, r) => heap' = m
        BY <1>4 DEF GetByExtending
    <2>2. /\ Good(m) /\ InUse(m) = InUse(heap) /\ Elements(m) # {}
          /\ \A x \in InUse(heap) : m.tag[x].n = heap.tag[x].n
        BY <1>1, BegunKeeps
    <2> HIDE DEF m
    <2>3. CASE ExtensionFits(m, r)
        <3>1. Gives(m, Extended(m, r), o, r) BY <2>2, <2>3, ExtendedGives
        <3> HIDE DEF o
        <3>2. Gives(m, heap', o, r) BY <3>1, <2>1, <2>3, TidyGives
        <3> QED BY <3>2, <2>2 DEF Gives
    <2>4. CASE ~ ExtensionFits(m, r) BY <2>1, <2>2, <2>4
    <2> QED BY <2>3, <2>4
<1> QED BY <1>2, <1>3, <1>4 DEF Get

\* What is freed is a block in use: the caller's, or the one that leaves the cache.
LEMMA PutFrees ==
    ASSUME Inv, NEW g \in held, Put(g)
    PROVE  heap' = heap \/ \E x \in InUse(heap) : heap' = Freed(heap, x)
<1> DEFINE i == IF UnusedEntries # {} THEN Max(UnusedEntries) ELSE cache.replacement
           x == cache.entry[i].offset
<1>1. \/ heap' = heap
      \/ heap' = Freed(heap, g.off)
      \/ UnusedEntries = {} /\ heap' = Freed(heap, x)
    BY DEF Put
<1>2. /\ Shared(heap, HeldOffsets, CacheOffsets) /\ CacheIs(heap, cache.entry, CacheOffsets)
      /\ HeldIs(heap, held, nElts, HeldOffsets) BY HoldersAre
<1>3. g.off \in InUse(heap) BY <1>2 DEF Shared, HeldIs
<1>4. UnusedEntries = {} => x \in InUse(heap)
    <2> SUFFICES ASSUME UnusedEntries = {} PROVE x \in InUse(heap) OBVIOUS
    <2>1. i = cache.replacement /\ i \in CacheIndexes BY DEF Inv, Caches
    <2>2. cache.entry[i].bin # 0 BY <2>1 DEF UnusedEntries, CacheIndexes
    <2>3. x \in CacheOffsets BY <2>1, <2>2, <1>2 DEF CacheIs
    <2> QED BY <2>3, <1>2 DEF Shared
<1> HIDE DEF x
<1> QED BY <1>1, <1>3, <1>4

LEMMA PutSizes ==
    ASSUME Inv, NEW g \in held, Put(g)
    PROVE  \A x \in InUse(heap') : heap'.tag[x].n = heap.tag[x].n
<1>1. heap' = heap \/ \E x \in InUse(heap) : heap' = Freed(heap, x) BY PutFrees
<1>2. Good(heap) BY DEF Inv
<1>3. ASSUME NEW o \in InUse(heap), heap' = Freed(heap, o)
      PROVE  \A y \in InUse(heap') : heap'.tag[y].n = heap.tag[y].n
    <2>1. Takes(heap, heap', o) BY <1>2, <1>3, FreedTakes
    <2> QED BY <2>1 DEF Takes
<1>4. CASE heap' = heap BY <1>4
<1> QED BY <1>1, <1>3, <1>4

\* No caller gets a block that a caller has: there would not be one more.
LEMMA GaveNewBlock ==
    ASSUME Inv, Inv', NEW r, NEW o, Gave(o, r)
    PROVE  o \notin HeldOffsets
<1> SUFFICES ASSUME o \in HeldOffsets PROVE FALSE OBVIOUS
<1>1. held' = held \cup {[off |-> o, req |-> r]} /\ nElts' = nElts + 1 BY DEF Gave
<1>2. HeldOffsets' = HeldOffsets BY <1>1 DEF HeldOffsets
<1>3. IsFiniteSet(HeldOffsets) /\ nElts = Cardinality(HeldOffsets) BY HoldersAre DEF HeldIs
<1>4. nElts' = Cardinality(HeldOffsets') BY HoldersAfter DEF HeldIs
<1>5. nElts \in Nat BY <1>3, FS_CardinalityType
<1> QED BY <1>1, <1>2, <1>3, <1>4, <1>5

\* The words of a block, and those of two blocks, which lie apart.
LEMMA BlocksApart ==
    ASSUME NEW m, Good(m), NEW x \in InUse(m), NEW y \in InUse(m), x # y
    PROVE  (x .. x + m.tag[x].n - 1) \cap (y .. y + m.tag[y].n - 1) = {}
<1> DEFINE E == Elements(m)
<1>1. Sound(m, E) /\ x \in E \ {m.len} /\ y \in E \ {m.len} BY DEF Good, InUse, Used
<1> HIDE DEF E
<1>2. Chained(m, E) BY <1>1, SoundChained
<1> DEFINE a == After(m.tag, x)
           b == After(m.tag, y)
<1>3. m.tag[x].n \in Nat /\ a = x + m.tag[x].n + 2 /\ a \in Int /\ \A z \in E : z <= x \/ z >= a
    BY <1>1, <1>2, ChainedNext
<1>4. m.tag[y].n \in Nat /\ b = y + m.tag[y].n + 2 /\ b \in Int /\ \A z \in E : z <= y \/ z >= b
    BY <1>1, <1>2, ChainedNext
<1>5. x \in Int /\ y \in Int BY <1>1, <1>2, ChainedAt
<1> HIDE DEF a, b
<1>6. (y <= x \/ y >= a) /\ (x <= y \/ x >= b) BY <1>1, <1>3, <1>4
<1> QED BY <1>3, <1>4, <1>5, <1>6

LEMMA BlockInHeap ==
    ASSUME NEW m, Good(m), NEW x \in InUse(m)
    PROVE  m.tag[x].n > 0 /\ x + m.tag[x].n <= MaxSize
<1> DEFINE E == Elements(m)
<1>1. Sound(m, E) /\ x \in E \ {m.len} BY DEF Good, InUse, Used
<1> HIDE DEF E
<1>2. Chained(m, E) BY <1>1, SoundChained
<1> DEFINE a == After(m.tag, x)
<1>3. m.tag[x].n \in Nat /\ m.tag[x].n >= 2 /\ a = x + m.tag[x].n + 2 BY <1>1, <1>2, ChainedNext
<1>4. x \in Int /\ a \in Int /\ a <= m.len /\ m.len \in Int /\ m.len <= MaxSize
    BY <1>1, <1>2, ChainedAt
<1> HIDE DEF a
<1> QED BY <1>3, <1>4, Sizes

LEMMA AllocatorInitial == Init => A!Init
BY DEF Init, A!Init, HeldBlocks

LEMMA AllocatorGet ==
    ASSUME Inv, Inv', NEW r \in Asked, Get(r)
    PROVE  A!Get \/ HeldBlocks' = HeldBlocks
<1>1. \A x \in InUse(heap) : heap'.tag[x].n = heap.tag[x].n BY GetSizes
<1>2. /\ Shared(heap, HeldOffsets, CacheOffsets) /\ HeldIs(heap, held, nElts, HeldOffsets)
    BY HoldersAre
<1>3. \A h \in held : h.off \in InUse(heap) /\ h.off \in HeldOffsets BY <1>2 DEF Shared, HeldIs
<1>4. \A h \in held : BlockOf(h)' = BlockOf(h) BY <1>1, <1>3 DEF BlockOf
<1>5. CASE held' = held BY <1>4, <1>5 DEF HeldBlocks
<1>6. ASSUME NEW o, Gave(o, r) PROVE A!Get
    <2> DEFINE g == [off |-> o, req |-> r]
               b == [off |-> o, n |-> heap'.tag[o].n]
    <2>1. held' = held \cup {g} BY <1>6 DEF Gave
    <2>2. BlockOf(g)' = b BY DEF BlockOf
    <2>3. HeldBlocks' = HeldBlocks \cup {b}
        <3> HIDE DEF g, b
        <3> QED BY <2>1, <2>2, <1>4 DEF HeldBlocks
    <2>4. Good(heap') BY DEF Inv
    <2>5. HeldOffsets' \subseteq InUse(heap') BY HoldersAfter
    <2>6. o \in InUse(heap') /\ \A h \in held : h.off \in InUse(heap')
        <3>1. g.off = o /\ g \in held' BY <2>1
        <3>2. HeldOffsets' = {h.off : h \in held'} BY DEF HeldOffsets
        <3> HIDE DEF g
        <3> QED BY <3>1, <3>2, <2>1, <2>5
    <2>7. o \notin HeldOffsets BY <1>6, GaveNewBlock
    <2>8. b.n > 0 /\ b.off + b.n <= MaxSize BY <2>4, <2>6, BlockInHeap
    <2>9. ASSUME NEW c \in HeldBlocks PROVE A!Extent(b) \cap A!Extent(c) = {}
        <3>1. PICK h \in held : c = BlockOf(h) BY DEF HeldBlocks
        <3>2. c.off = h.off /\ c.n = heap'.tag[h.off].n BY <3>1, <1>4 DEF BlockOf
        <3>3. h.off # o BY <1>3, <2>7
        <3>4. h.off \in InUse(heap') BY <2>6
        <3>5. (o .. o + heap'.tag[o].n - 1) \cap (h.off .. h.off + heap'.tag[h.off].n - 1) = {}
            BY <3>3, <3>4, <2>4, <2>6, BlocksApart
        <3> QED BY <3>2, <3>5 DEF A!Extent
    <2> HIDE DEF b
    <2>10. b \in HeldBlocks' BY <2>3
    <2> QED BY <2>3, <2>8, <2>9, <2>10 DEF A!Get
<1>7. held' = held \/ \E o : Gave(o, r)
    BY DEF Get, GetFromCache, GetFromFreeList, GetByExtending
<1> QED BY <1>5, <1>6, <1>7

LEMMA AllocatorPut ==
    ASSUME Inv, Inv', NEW g \in held, Put(g)
    PROVE  A!Put
<1>1. held' = held \ {g} BY DEF Put
<1>2. \A x \in InUse(heap') : heap'.tag[x].n = heap.tag[x].n BY PutSizes
<1>3. \A h \in held' : BlockOf(h)' = BlockOf(h)
    <2>2. \A h \in held' : h.off \in InUse(heap') BY HoldersAfter DEF HeldIs
    <2> QED BY <1>2, <2>2 DEF BlockOf
<1>4. \A h \in held' : h.off # g.off
    <2>1. HeldIs(heap, held, nElts, HeldOffsets) BY HoldersAre
    <2> QED BY <2>1, <1>1 DEF HeldIs
<1>5. \A h \in held : BlockOf(h).off = h.off BY DEF BlockOf
<1>6. HeldBlocks' = HeldBlocks \ {BlockOf(g)}
    <2>1. HeldBlocks' = {BlockOf(h) : h \in held'} BY <1>3 DEF HeldBlocks
    <2>2. \A h \in held' : BlockOf(h) # BlockOf(g) BY <1>1, <1>4, <1>5
    <2> QED BY <1>1, <2>1, <2>2 DEF HeldBlocks
<1>7. BlockOf(g) \in HeldBlocks BY DEF HeldBlocks
<1> QED BY <1>6, <1>7 DEF A!Put

LEMMA AllocatorStep == Inv /\ Inv' /\ [Next]_vars => [A!Get \/ A!Put]_HeldBlocks
<1> SUFFICES ASSUME Inv, Inv', [Next]_vars PROVE A!Get \/ A!Put \/ HeldBlocks' = HeldBlocks OBVIOUS
<1>1. ASSUME NEW q \in Requests, Get(Rounded(q)) PROVE A!Get \/ HeldBlocks' = HeldBlocks
    <2>1. Rounded(q) \in Asked BY DEF Asked
    <2>2. PICK r \in Asked : Get(r) BY <2>1, <1>1
    <2> QED BY <2>2, AllocatorGet
<1>2. ASSUME NEW h \in held, Put(h) PROVE A!Put BY <1>2, AllocatorPut
<1>3. CASE UNCHANGED vars BY <1>3 DEF vars, HeldBlocks, BlockOf
<1> QED BY <1>1, <1>2, <1>3 DEF Next

-----------------------------------------------------------------------------
(* Pages.  All words of the heap are in mapped pages but those inside free     *)
(* elements: only these are unmapped, and a page is mapped again before a word *)
(* of it is anything else.                                                     *)

\* Tags, links and blocks in use are no holes.
LEMMA NoHole ==
    ASSUME NEW m, Good(m), NEW o \in Elements(m), NEW w \in Int, o - 2 <= w, w < m.len,
           w < o + 2 \/ (o \in InUse(m) /\ w < o + m.tag[o].n)
    PROVE  ~ Hole(m, w)
<1> DEFINE E == Elements(m)
<1>1. Sound(m, E) /\ o \in E /\ E # {} BY DEF Good
<1>2. o \in InUse(m) => ~ m.tag[o].free BY DEF InUse, Used
<1> SUFFICES ASSUME NEW f \in Frees(m, E), f + 2 <= w, w < f + m.tag[f].n PROVE FALSE BY DEF Hole
<1> HIDE DEF E
<1>3. Chained(m, E) BY <1>1, SoundChained
<1>4. f \in E \ {m.len} /\ m.tag[f].free BY DEF Frees
<1>5. o \in Int /\ f \in Int /\ f <= m.len /\ m.len \in Int BY <1>1, <1>3, <1>4, ChainedAt
<1>6. m.tag[f].n \in Nat /\ After(m.tag, f) = f + m.tag[f].n + 2 /\ (o <= f \/ o >= After(m.tag, f))
    BY <1>1, <1>3, <1>4, ChainedNext
<1>7. o <= f BY <1>5, <1>6
<1>8. CASE o = f BY <1>2, <1>4, <1>5, <1>8
<1>9. CASE o # f
    <2>1. o < f /\ o # m.len BY <1>5, <1>7, <1>9
    <2>2. m.tag[o].n \in Nat /\ After(m.tag, o) = o + m.tag[o].n + 2 /\ (f <= o \/ f >= After(m.tag, o))
        BY <2>1, <1>1, <1>3, <1>4, ChainedNext
    <2> QED BY <2>1, <2>2, <1>5
<1> QED BY <1>8, <1>9

\* The first word b of the page of w.
LEMMA PageOf ==
    ASSUME NEW w \in 0 .. MaxSize, NEW b, b = PageSize * (w \div PageSize)
    PROVE  /\ b \in Int /\ b <= w /\ w < b + PageSize /\ PageSize \in Nat \ {0}
           /\ w \div PageSize \in 0 .. MaxSize
           /\ b = (w \div PageSize) * PageSize
           /\ b + PageSize = PageSize * (w \div PageSize + 1)
           /\ b + PageSize = (w \div PageSize + 1) * PageSize
<1> DEFINE P == w \div PageSize
<1>1. PageSize \in Nat \ {0} /\ w \in Int /\ w >= 0 /\ MaxSize \in Nat BY MheapAssumption, Sizes
<1>2. P \in Int /\ w % PageSize \in 0 .. PageSize - 1 /\ w = PageSize * P + (w % PageSize)
    BY <1>1, DivMod
<1>3. b = PageSize * P OBVIOUS
<1> HIDE DEF P
<1>4. b \in Int /\ PageSize * (P + 1) = b + PageSize /\ b = P * PageSize /\ (P + 1) * PageSize = b + PageSize
    BY <1>1, <1>2, <1>3
<1>5. b <= w /\ w < b + PageSize BY <1>1, <1>2, <1>3, <1>4
<1>6. P \in 0 .. MaxSize
    <2>1. 0 <= P
        <3>1. (-1) < P <=> PageSize * (-1) < b BY <1>1, <1>2, <1>3, Monotone
        <3>2. PageSize * (-1) < b BY <1>1, <1>4, <1>5
        <3> QED BY <3>1, <3>2, <1>2
    <2>2. P <= w
        <3>1. P * PageSize >= P BY <2>1, <1>1, <1>2
        <3> QED BY <3>1, <1>1, <1>2, <1>4, <1>5
    <2> QED BY <2>1, <2>2, <1>1, <1>2
<1> QED BY <1>1, <1>4, <1>5, <1>6 DEF P

\* The words of a page have the same page.
LEMMA SamePage ==
    ASSUME NEW w \in 0 .. MaxSize, NEW b, b = PageSize * (w \div PageSize),
           NEW v \in Int, b <= v, v < b + PageSize
    PROVE  v \div PageSize = w \div PageSize
<1> DEFINE P == w \div PageSize
           r == v - b
<1>1. /\ b \in Int /\ PageSize \in Nat \ {0} /\ P \in 0 .. MaxSize /\ b = PageSize * P
      /\ r \in 0 .. PageSize - 1 /\ v = b + r BY PageOf
<1> HIDE DEF r, P
<1>2. v = PageSize * P + r /\ P \in Int BY <1>1
<1> QED BY <1>1, <1>2, DivModIs DEF P

\* The bounds of page b that rounding leaves it within.
LEMMA PageBounds ==
    ASSUME NEW w \in 0 .. MaxSize, NEW b, b = PageSize * (w \div PageSize), NEW x \in Int
    PROVE  /\ RoundUp(x, PageSize) \in Int /\ Floor(x, PageSize) \in Int
           /\ RoundUp(x, PageSize) <= b <=> x <= b
           /\ Floor(x, PageSize) <= b <=> x < b + PageSize
           /\ b + PageSize <= RoundUp(x, PageSize) <=> b < x
           /\ b + PageSize <= Floor(x, PageSize) <=> b + PageSize <= x
<1> DEFINE P == w \div PageSize
<1>1. /\ PageSize \in Nat \ {0} /\ P \in 0 .. MaxSize
      /\ b = PageSize * P /\ b + PageSize = PageSize * (P + 1) BY PageOf
<1> HIDE DEF P
<1>2. P + 1 \in Int /\ P \in Int BY <1>1
<1>3. PageSize * (P + 1) <= Floor(x, PageSize) <=> PageSize * (P + 1) <= x BY <1>1, <1>2, Rounding
<1>4. PageSize * (P + 1) <= RoundUp(x, PageSize) <=> PageSize * P < x BY <1>1, <1>2, Rounding
<1>5. /\ RoundUp(x, PageSize) <= PageSize * P <=> x <= PageSize * P
      /\ Floor(x, PageSize) <= PageSize * P <=> x < PageSize * (P + 1)
      /\ RoundUp(x, PageSize) \in Int /\ Floor(x, PageSize) \in Int BY <1>1, <1>2, Rounding
<1> QED BY <1>1, <1>3, <1>4, <1>5

\* Whether the page of w is one of those that are mapped or unmapped.
LEMMA PageBetween ==
    ASSUME NEW w \in 0 .. MaxSize, NEW b, b = PageSize * (w \div PageSize),
           NEW x \in Int, NEW y \in Int, NEW u \in Int, NEW v \in Int
    PROVE  LET p == w \div PageSize
               start == AtLeast(Floor(u, PageSize), RoundUp(x, PageSize))
               end == RoundUp(v, PageSize)
               last == Floor(y, PageSize)
           IN  /\ p \in Pages(RoundUp(x, PageSize), RoundUp(v, PageSize)) <=> x <= b /\ b < v
               /\ p \in Pages(RoundUp(x, PageSize), Floor(y, PageSize)) <=> x <= b /\ b + PageSize <= y
               /\ p \in Pages(start, IF end > last THEN last ELSE end)
                      <=> /\ u < b + PageSize /\ x <= b
                          /\ b < v /\ b + PageSize <= y
<1> DEFINE p == w \div PageSize
           start == AtLeast(Floor(u, PageSize), RoundUp(x, PageSize))
           end == RoundUp(v, PageSize)
           last == Floor(y, PageSize)
           stop == IF end > last THEN last ELSE end
<1>1. p \in 0 .. MaxSize /\ b = p * PageSize /\ b + PageSize = (p + 1) * PageSize /\ b \in Int /\ PageSize \in Int
    BY PageOf
<1>2. \A c, d : p \in Pages(c, d) <=> c <= b /\ b + PageSize <= d
    <2> HIDE DEF p
    <2> QED BY <1>1 DEF Pages
<1>3. RoundUp(x, PageSize) \in Int /\ (RoundUp(x, PageSize) <= b <=> x <= b) BY PageBounds
<1>4. Floor(u, PageSize) \in Int /\ (Floor(u, PageSize) <= b <=> u < b + PageSize) BY PageBounds
<1>5. end \in Int /\ (b + PageSize <= end <=> b < v) BY PageBounds
<1>6. last \in Int /\ (b + PageSize <= last <=> b + PageSize <= y) BY PageBounds
<1>7. start <= b <=> u < b + PageSize /\ x <= b BY <1>1, <1>3, <1>4 DEF AtLeast
<1> HIDE DEF p, end, last, start
<1>8. b + PageSize <= stop <=> b < v /\ b + PageSize <= y BY <1>1, <1>5, <1>6
<1> HIDE DEF stop
<1>9. p \in Pages(start, stop) <=> start <= b /\ b + PageSize <= stop BY <1>2
<1>10. p \in Pages(RoundUp(x, PageSize), end) <=> RoundUp(x, PageSize) <= b /\ b + PageSize <= end BY <1>2
<1>11. p \in Pages(RoundUp(x, PageSize), last) <=> RoundUp(x, PageSize) <= b /\ b + PageSize <= last BY <1>2
<1> QED BY <1>3, <1>5, <1>6, <1>7, <1>8, <1>9, <1>10, <1>11 DEF p, end, last, start, stop

LEMMA TidyBacked ==
    ASSUME NEW m, Good(m), Backed(m)
    PROVE  Backed(Tidy(m))
<1> DEFINE h == Tidy(m)
           E == Elements(m)
           t == [o \in Offsets |-> IF o \in E THEN m.tag[o] ELSE Zeroed]
           k == [o \in Offsets |-> IF o \in E /\ m.tag[o].free /\ o < m.len
                                   THEN m.link[o] ELSE Links(Nil, Nil)]
<1>1. Sound(m, E) BY DEF Good
<1>2. h = [[m EXCEPT !.tag = t] EXCEPT !.link = k] BY DEF Tidy
<1>3. DOMAIN m = Parts BY <1>1 DEF Sound, Lists, Heaps, Parts
<1> HIDE DEF E, t, k, h
<1>4. h.mapped = m.mapped BY <1>2, <1>3 DEF Parts
<1>5. Sound(h, E) /\ h.len = m.len /\ \A o \in E : h.tag[o] = m.tag[o] BY <1>1, TidyKeeps DEF h
<1>6. Elements(h) = E BY <1>5, SoundElements
<1>7. Frees(h, E) = Frees(m, E) /\ \A f \in Frees(m, E) : h.tag[f].n = m.tag[f].n BY <1>5 DEF Frees
<1>8. \A w : Hole(h, w) <=> Hole(m, w) BY <1>6, <1>7 DEF Hole, E
<1> QED BY <1>4, <1>5, <1>8 DEF Backed, h

\* What is unmapped is inside a free element, or behind the heap.
LEMMA FreedBacked ==
    ASSUME NEW m, Good(m), Backed(m), NEW h, FreedTo(m, h)
    PROVE  Backed(h)
<1>1. PICK p, e : FreedAs(m, h, p, e) BY DEF FreedTo
<1>2. m.len \in 0 .. MaxSize BY DEF Good, Sound, Lists, Heaps
<1> SUFFICES ASSUME NEW w \in 0 .. h.len - 1, ~ Hole(h, w) PROVE w \div PageSize \in h.mapped BY DEF Backed
<1>3. /\ w \in 0 .. m.len - 1 /\ w \in 0 .. MaxSize /\ p \in Int /\ e \in Int /\ ~ Hole(m, w)
      /\ ~ (p <= w /\ w < e)
    BY <1>1, <1>2, Sizes DEF FreedAs
<1>4. w \div PageSize \in m.mapped BY <1>3 DEF Backed
<1>5. w \div PageSize \notin Pages(RoundUp(p, PageSize), Floor(e, PageSize))
    <2> DEFINE b == PageSize * (w \div PageSize)
    <2>2. b = PageSize * (w \div PageSize) OBVIOUS
    <2> HIDE DEF b
    <2>1. w \in 0 .. MaxSize /\ p \in Int /\ e \in Int BY <1>3
    <2>3. /\ b \in Int /\ b <= w /\ w < b + PageSize /\ PageSize \in Nat BY <2>1, <2>2, PageOf
    <2>4. w \div PageSize \in Pages(RoundUp(p, PageSize), Floor(e, PageSize))
             <=> p <= b /\ b + PageSize <= e BY <2>1, <2>2, PageBetween
    <2> QED BY <2>1, <2>3, <2>4, <1>3
<1> QED BY <1>1, <1>4, <1>5 DEF FreedAs

\* Making a free element maps and unmaps nothing.
LEMMA NewFreePages ==
    ASSUME NEW m, DOMAIN m = Parts, NEW o, NEW n
    PROVE  DOMAIN NewFree(m, o, n) = Parts /\ NewFree(m, o, n).mapped = m.mapped
<1> DEFINE k == SetSize(m, o, n, TRUE)
<1>1. DOMAIN k = Parts /\ k.mapped = m.mapped BY DEF SetSize, Parts
<1>2. NewFree(m, o, n) = SetFree(k, o, n) BY DEF NewFree
<1> HIDE DEF k
<1> QED BY <1>1, <1>2, PagesStay

LEMMA BegunBacked ==
    ASSUME NEW m, Good(m), Backed(m)
    PROVE  Backed(Begun(m))
<1>1. CASE m.len # 0 BY <1>1 DEF Begun
<1>2. CASE m.len = 0
    <2> DEFINE h == Begun(m)
               p == m.mapped \cup Pages(RoundUp(0, PageSize), RoundUp(EltWords, PageSize))
    <2>1. DOMAIN m = Parts BY DEF Good, Sound, Lists, Heaps, Parts
    <2>2. h.len = 2 /\ h.mapped = p BY <2>1, <1>2, Sizes DEF Begun, Map, Parts
    <2> HIDE DEF p, h
    <2> SUFFICES ASSUME NEW w \in 0 .. 1 PROVE w \div PageSize \in p BY <2>2 DEF Backed, h
    <2> DEFINE b == PageSize * (w \div PageSize)
    <2>3. b = PageSize * (w \div PageSize) OBVIOUS
    <2> HIDE DEF b
    <2>4. w \in 0 .. MaxSize BY Sizes
    <2>5. b \in Int /\ b <= w BY <2>3, <2>4, PageOf
    <2>6. w \div PageSize \in 0 .. MaxSize /\ b = (w \div PageSize) * PageSize /\ PageSize \in Nat
        BY <2>3, <2>4, PageOf
    <2>7. 0 <= b
        <3> DEFINE q == w \div PageSize
        <3>1. q \in Nat /\ b = q * PageSize BY <2>6
        <3> HIDE DEF q
        <3> QED BY <3>1, <2>6
    <2>8. 0 \in Int /\ 4 \in Int OBVIOUS
    <2>9. w \div PageSize \in Pages(RoundUp(0, PageSize), RoundUp(4, PageSize)) <=> 0 <= b /\ b < 4
        BY <2>3, <2>4, <2>8, PageBetween
    <2> QED BY <2>5, <2>7, <2>9, Sizes DEF p
<1> QED BY <1>1, <1>2

\* Extending maps the pages that begin in the words it adds; the page the heap
\* ended in is mapped.
LEMMA ExtendedPages ==
    ASSUME NEW m, DOMAIN m = Parts, NEW r
    PROVE  Extended(m, r).mapped =
               m.mapped \cup Pages(RoundUp(m.len, PageSize),
                                   RoundUp(ExtendAt(m, r) + r.n + Overhead, PageSize))
<1> DEFINE o0  == ExtendAt(m, r)
           f1  == o0 + r.n + Overhead
           p   == m.mapped \cup Pages(RoundUp(m.len, PageSize), RoundUp(f1, PageSize))
           m1  == [m EXCEPT !.len = f1, !.mapped = p]
           m2  == IF o0 = m.len THEN m1 ELSE NewFree(m1, m.len, o0 - m.len - Overhead)
           m3  == SetSize(m2, o0, r.n, FALSE)
           a   == [m3.tag[f1] EXCEPT !.n = Invalid]
           h   == [m3 EXCEPT !.tag[f1].n = Invalid]
<1>1. Extended(m, r) = h BY DEF Extended
<1> HIDE DEF p, f1, o0
<1>2. DOMAIN m1 = Parts /\ m1.mapped = p BY DEF Parts
<1> HIDE DEF m1
<1>3. DOMAIN m2 = Parts /\ m2.mapped = p BY <1>2, NewFreePages
<1> HIDE DEF m2
<1>4. DOMAIN m3 = Parts /\ m3.mapped = p BY <1>3 DEF SetSize, Parts
<1> HIDE DEF m3
<1>5. h.mapped = p BY <1>4 DEF Parts
<1> QED BY <1>1, <1>5 DEF p, f1, o0

LEMMA ExtendedBacked ==
    ASSUME NEW m, Good(m), Elements(m) # {}, Backed(m), NEW r \in Asked, ExtensionFits(m, r)
    PROVE  Backed(Extended(m, r))
<1> DEFINE h  == Extended(m, r)
           f1 == ExtendAt(m, r) + r.n + Overhead
           E  == Elements(m)
<1>1. GrownAs(m, h, f1) BY ExtendedGives
<1>2. Sound(m, E) /\ E # {} BY DEF Good
<1>3. Chained(m, E) /\ m \in Heaps BY <1>2, SoundChained
<1>4. m.len \in E /\ m.len \in Int /\ m.len >= 2 /\ m.len <= MaxSize /\ MaxSize \in Nat
    <2>1. m.len \in E BY <1>3 DEF Chained, Chain
    <2> QED BY <2>1, <1>3, ChainedAt, Sizes
<1>5. DOMAIN m = Parts BY <1>3 DEF Heaps, Parts
<1>6. h.mapped = m.mapped \cup Pages(RoundUp(m.len, PageSize), RoundUp(f1, PageSize))
    BY <1>5, ExtendedPages
<1> HIDE DEF h, f1
<1>7. h.len = f1 /\ f1 \in 0 .. MaxSize BY <1>1 DEF GrownAs
<1> SUFFICES ASSUME NEW w \in 0 .. f1 - 1, ~ Hole(h, w) PROVE w \div PageSize \in h.mapped
    BY <1>7 DEF Backed, h
<1>8. ~ Hole(m, w) BY <1>1 DEF Hole, GrownAs
<1>9. w \in 0 .. MaxSize /\ w \in Int /\ w < f1 /\ f1 \in Int /\ w >= 0 BY <1>7, <1>4
<1>10. CASE w < m.len
    <2>1. w \in 0 .. m.len - 1 BY <1>4, <1>9, <1>10
    <2> QED BY <2>1, <1>6, <1>8 DEF Backed
<1>11. CASE ~ (w < m.len)
    <2> DEFINE b == PageSize * (w \div PageSize)
    <2>1. b = PageSize * (w \div PageSize) OBVIOUS
    <2> HIDE DEF b
    <2>2. b \in Int /\ b <= w /\ w < b + PageSize BY <2>1, <1>9, PageOf
    <2>3. CASE m.len <= b
        <3>1. w \div PageSize \in Pages(RoundUp(m.len, PageSize), RoundUp(f1, PageSize))
                  <=> m.len <= b /\ b < f1 BY <2>1, <1>4, <1>9, PageBetween
        <3> QED BY <3>1, <2>2, <2>3, <1>6, <1>9
    <2>4. CASE ~ (m.len <= b)
        <3> DEFINE v == m.len - 1
        <3>1. v \in Int /\ b <= v /\ v < b + PageSize /\ v \in 0 .. m.len - 1 /\ m.len - 2 <= v /\ v < m.len
              /\ v < m.len + 2
            BY <2>2, <2>4, <1>4, <1>9, <1>11, MheapAssumption
        <3> HIDE DEF v
        <3>2. ~ Hole(m, v) BY <3>1, <1>4, NoHole
        <3>3. v \div PageSize \in m.mapped BY <3>1, <3>2 DEF Backed
        <3>4. v \div PageSize = w \div PageSize BY <3>1, <2>1, <1>9, SamePage
        <3> QED BY <3>3, <3>4, <1>6
    <2> QED BY <2>3, <2>4
<1> QED BY <1>10, <1>11

\* Splitting a free element maps the pages between the words before the block
\* and the words behind it, as far as they begin and end inside the element.
LEMMA CarvedPages ==
    ASSUME NEW m, DOMAIN m = Parts, NEW f0, NEW r
    PROVE  LET f1 == f0 + m.tag[f0].n
               o0 == Place(f0, f1, r)
               o1 == o0 + SizeGiven(f1, o0, r.n)
           IN  Carved(m, f0, r).mapped = MapBlock(m, f0, f1, o0, o1).mapped
<1> DEFINE f1 == f0 + m.tag[f0].n
           o0 == Place(f0, f1, r)
           n  == SizeGiven(f1, o0, r.n)
           o1 == o0 + n
           mm == MapBlock(m, f0, f1, o0, o1)
           m1 == RemoveFree(mm, f0, BinOf(m.tag[f0].n))
           m2 == IF o0 = f0 THEN m1 ELSE NewFree(m1, f0, o0 - f0 - Overhead)
           m3 == SetSize(m2, o0, n, FALSE)
           h  == IF o1 = f1 THEN m3 ELSE NewFree(m3, o1 + Overhead, f1 - o1 - Overhead)
<1>1. Carved(m, f0, r) = h BY DEF Carved
<1> HIDE DEF f1, o0, n
<1>2. DOMAIN mm = Parts BY DEF MapBlock, Parts
<1> HIDE DEF mm
<1>3. DOMAIN m1 = Parts /\ m1.mapped = mm.mapped BY <1>2, PagesStay
<1> HIDE DEF m1
<1>4. DOMAIN m2 = Parts /\ m2.mapped = mm.mapped BY <1>3, NewFreePages
<1> HIDE DEF m2
<1>5. DOMAIN m3 = Parts /\ m3.mapped = mm.mapped BY <1>4 DEF SetSize, Parts
<1> HIDE DEF m3
<1>6. h.mapped = mm.mapped BY <1>5, NewFreePages
<1> QED BY <1>1, <1>6 DEF mm, n, o0, f1

LEMMA CarvedBacked ==
    ASSUME NEW m, Good(m), Backed(m), NEW f0 \in Frees(m, Elements(m)),
           NEW r \in Asked, Fits(m, f0, r), 2 * r.align <= PageSize
    PROVE  Backed(Carved(m, f0, r))
<1> DEFINE E  == Elements(m)
           h  == Carved(m, f0, r)
           f1 == f0 + m.tag[f0].n
           o0 == Place(f0, f1, r)
           o1 == o0 + SizeGiven(f1, o0, r.n)
           u  == o0 - Overhead
           x  == f0 + Overhead
           v  == o1 + Overhead
           start == AtLeast(Floor(u, PageSize), RoundUp(x, PageSize))
           end == RoundUp(v, PageSize)
           last == Floor(f1, PageSize)
           new == Pages(start, IF end > last THEN last ELSE end)
<1>1. CutAs(m, h, f0, f1, o0, o1) BY CarvedGives
<1>2. Sound(m, E) /\ f0 \in E \ {m.len} BY DEF Good, Frees
<1>3. Chained(m, E) /\ m \in Heaps BY <1>2, SoundChained
<1>4. /\ f0 \in Int /\ f0 >= 2 /\ f1 \in Int /\ m.tag[f0].n \in Nat /\ f1 + 2 \in E
      /\ m.len \in Int /\ f1 + 2 <= m.len /\ m.len <= MaxSize /\ MaxSize \in Nat
      /\ \A y \in E : y \in Int /\ (y <= f0 \/ y >= f1 + 2)
    <2>1. f0 \in Int /\ f0 >= 2 /\ m.len \in Int /\ m.len <= MaxSize BY <1>2, <1>3, ChainedAt
    <2>2. /\ m.tag[f0].n \in Nat /\ After(m.tag, f0) = f0 + m.tag[f0].n + 2
          /\ After(m.tag, f0) \in E /\ \A y \in E : y <= f0 \/ y >= After(m.tag, f0)
        BY <1>2, <1>3, ChainedNext
    <2>3. After(m.tag, f0) = f1 + 2 BY <2>1, <2>2
    <2>4. \A y \in E : y \in Int /\ y <= m.len BY <1>3, ChainedAt
    <2> QED BY <2>1, <2>2, <2>3, <2>4, Sizes
<1>5. DOMAIN m = Parts BY <1>3 DEF Heaps, Parts
<1>6. h.mapped = m.mapped \cup new
    <2>1. h.mapped = MapBlock(m, f0, f1, o0, o1).mapped BY <1>5, CarvedPages
    <2>2. MapBlock(m, f0, f1, o0, o1) = [m EXCEPT !.mapped = m.mapped \cup new] BY DEF MapBlock
    <2> HIDE DEF h, new
    <2> QED BY <2>1, <2>2, <1>5 DEF Parts
<1>7. o0 >= f0 /\ o0 + r.n <= f1 BY DEF Fits
<1> HIDE DEF new, E
<1>8. o0 \in Int /\ f1 - r.n - o0 <= 2 * r.align + 1
    <2> HIDE DEF f1
    <2> QED BY <1>4, <1>7, PlaceIs
<1>9. r.n \in Nat /\ r.n >= 2 /\ r.align \in Nat BY AskedFor, Sizes
<1>10. f1 = f0 + m.tag[f0].n OBVIOUS
<1> HIDE DEF f1, o0
<1>11. /\ o1 \in Int /\ o1 >= o0 /\ (o1 = f1 \/ (o1 = o0 + r.n /\ o1 + 4 <= f1))
    <2>1. CASE f1 - o0 - r.n < 4
        <3>1. o1 = f1 BY <2>1, <1>4, <1>8, Sizes DEF SizeGiven
        <3> QED BY <3>1, <1>4, <1>7, <1>8, <1>9
    <2>2. CASE ~ (f1 - o0 - r.n < 4)
        <3>1. o1 = o0 + r.n BY <2>2, Sizes DEF SizeGiven
        <3> QED BY <2>2, <3>1, <1>4, <1>8, <1>9
    <2> QED BY <2>1, <2>2
<1> HIDE DEF o1, h
<1>12. h.len = m.len BY <1>1 DEF CutAs
<1> SUFFICES ASSUME NEW w \in 0 .. m.len - 1, ~ Hole(h, w) PROVE w \div PageSize \in h.mapped
    BY <1>12 DEF Backed, h
<1>13. w \in 0 .. MaxSize /\ w \in Int /\ w < m.len BY <1>4
<1>14. CASE ~ Hole(m, w) BY <1>6, <1>14 DEF Backed
<1>15. CASE Hole(m, w)
    <2>1. PICK f \in Frees(m, E) : f + 2 <= w /\ w < f + m.tag[f].n BY <1>15 DEF Hole, E
    <2>2. f \in E /\ f # m.len /\ f \in Offsets /\ f \in Int BY <2>1, <1>3, ChainedAt DEF Frees
    <2>3. f = f0
        <3> SUFFICES ASSUME f # f0 PROVE FALSE OBVIOUS
        <3>1. f # o0 /\ f # f0 /\ (o1 # f1 => f # o1 + Overhead)
            BY <2>2, <1>4, <1>7, <1>8, <1>9, <1>11, Sizes
        <3>2. h.tag[f].n = m.tag[f].n BY <3>1, <2>2, <1>1 DEF CutAs, Cut
        <3>3. f \in Frees(h, Elements(h)) BY <2>1, <3>1, <1>1 DEF CutAs, E
        <3> QED BY <2>1, <3>2, <3>3 DEF Hole
    <2>4. f0 + 2 <= w /\ w < f1 BY <2>1, <2>3, <1>10
    <2>5. o0 = f0 \/ w >= o0 - 2
        <3> SUFFICES ASSUME o0 # f0, w < o0 - 2 PROVE FALSE BY <1>8, <1>13
        <3>1. f0 # o0 /\ f0 # o1 + Overhead BY <1>4, <1>7, <1>8, <1>11, Sizes
        <3>2. h.tag[f0].n = o0 - f0 - 2 BY <2>2, <2>3, <3>1, <1>1, Sizes DEF CutAs, Cut
        <3>3. f0 \in Frees(h, Elements(h)) BY <3>1, <1>1 DEF CutAs
        <3>4. w < f0 + (o0 - f0 - 2) BY <1>4, <1>8, <1>13
        <3> QED BY <2>4, <3>2, <3>3, <3>4 DEF Hole
    <2> DEFINE b == PageSize * (w \div PageSize)
    <2>6. b = PageSize * (w \div PageSize) OBVIOUS
    <2> HIDE DEF b
    <2>7. b \in Int /\ b <= w /\ w < b + PageSize /\ PageSize \in Nat BY <2>6, <1>13, PageOf
    <2>8. CASE b < f0 + 2
        <3> DEFINE y == f0 + 1
        <3>1. y \in Int /\ b <= y /\ y < b + PageSize /\ y \in 0 .. m.len - 1
              /\ f0 - 2 <= y /\ y < m.len /\ y < f0 + 2
            BY <2>4, <2>7, <2>8, <1>4, <1>13
        <3> HIDE DEF y
        <3>2. ~ Hole(m, y) BY <3>1, <1>2, NoHole DEF E
        <3>3. y \div PageSize \in m.mapped BY <3>1, <3>2 DEF Backed
        <3>4. y \div PageSize = w \div PageSize BY <3>1, <2>6, <1>13, SamePage
        <3> QED BY <3>3, <3>4, <1>6
    <2>9. CASE b + PageSize > f1
        <3> DEFINE e == f1 + 2
        <3>1. f1 \in Int /\ b <= f1 /\ f1 < b + PageSize /\ f1 \in 0 .. m.len - 1
              /\ e - 2 <= f1 /\ f1 < m.len /\ f1 < e + 2 /\ e \in Elements(m)
            BY <2>4, <2>7, <2>9, <1>4, <1>13 DEF E
        <3> HIDE DEF e
        <3>2. ~ Hole(m, f1) BY <3>1, NoHole
        <3>3. f1 \div PageSize \in m.mapped BY <3>1, <3>2 DEF Backed
        <3>4. f1 \div PageSize = w \div PageSize BY <3>1, <2>6, <1>13, SamePage
        <3> QED BY <3>3, <3>4, <1>6
    <2>10. CASE f0 + 2 <= b /\ b + PageSize <= f1
        <3>1. u < b + PageSize
            BY <2>5, <2>7, <2>10, <1>4, <1>8, <1>13, Sizes
        <3>2. b < v
            <4> SUFFICES ASSUME ~ (b < v) PROVE FALSE OBVIOUS
            <4>1. o1 + 2 <= b BY <2>7, <1>11, Sizes
            <4>2. o1 # f1 BY <4>1, <2>4, <2>7, <1>4, <1>13
            <4>3. o1 = o0 + r.n BY <4>2, <1>11
            <4> QED BY <4>1, <4>3, <2>7, <2>10, <1>4, <1>8, <1>9, <1>11
        <3>3. u \in Int /\ x \in Int /\ v \in Int /\ x <= b BY <2>10, <1>4, <1>8, <1>11, Sizes
        <3> HIDE DEF u, x, v
        <3>4. w \div PageSize \in new <=> /\ u < b + PageSize /\ x <= b
                                          /\ b < v /\ b + PageSize <= f1
            <4>1. w \in 0 .. MaxSize /\ f1 \in Int /\ u \in Int /\ x \in Int /\ v \in Int
                BY <3>3, <1>4, <1>13
            <4> QED BY <4>1, <2>6, PageBetween DEF new
        <3>5. b + PageSize <= f1 BY <2>10
        <3> HIDE DEF new
        <3> QED BY <3>1, <3>2, <3>3, <3>4, <3>5, <1>6
    <2> QED BY <2>7, <2>8, <2>9, <2>10, <1>4
<1> QED BY <1>14, <1>15

LEMMA BlockFreedBacked ==
    ASSUME NEW m, Good(m), Backed(m), NEW x \in InUse(m)
    PROVE  Backed(Freed(m, x))
<1>1. CASE m.tag[NextElt(m, x)].n = Invalid
    <2> DEFINE h == LastFreed(m, x)
    <2>1. Freed(m, x) = Tidy(h) BY <1>1 DEF Freed
    <2>2. Takes(m, h, x) /\ FreedTo(m, h) BY <1>1, LastFreedTakes
    <2> HIDE DEF h
    <2>3. Good(h) /\ Backed(h) BY <2>2, FreedBacked DEF Takes
    <2> QED BY <2>1, <2>3, TidyBacked
<1>2. CASE m.tag[NextElt(m, x)].n # Invalid
    <2> DEFINE h == Merged(m, x)
    <2>1. Freed(m, x) = Tidy(h) BY <1>2 DEF Freed
    <2>2. Takes(m, h, x) /\ FreedTo(m, h) BY <1>2, MergedTakes
    <2> HIDE DEF h
    <2>3. Good(h) /\ Backed(h) BY <2>2, FreedBacked DEF Takes
    <2> QED BY <2>1, <2>3, TidyBacked
<1> QED BY <1>1, <1>2

\* The invariant for pages, beside Inv.
HeapIsBacked == AlignedWithinPage => Backed(heap)

LEMMA GetBacked ==
    ASSUME Inv, Backed(heap), AlignedWithinPage, NEW r \in Asked, Get(r)
    PROVE  Backed(heap')
<1>1. Good(heap) BY DEF Inv
<1>2. 2 * r.align <= PageSize BY DEF Asked, Rounded, AlignedWithinPage
<1>3. CASE GetFromCache(r) BY <1>3 DEF GetFromCache
<1>4. CASE GetFromFreeList(r)
    <2> DEFINE f0 == FreeEltFor(heap, r)
               h  == Carved(heap, f0, r)
    <2>1. f0 # Nil /\ heap' = Tidy(h) BY <1>4 DEF GetFromFreeList
    <2>2. f0 \in Frees(heap, Elements(heap)) /\ Fits(heap, f0, r) BY <1>1, <2>1, FreeEltIs
    <2> HIDE DEF f0
    <2>3. Backed(h) BY <1>1, <1>2, <2>2, CarvedBacked
    <2>4. Good(h)
        <3> DEFINE o == Place(f0, f0 + heap.tag[f0].n, r)
        <3>1. Gives(heap, h, o, r) BY <1>1, <2>2, CarvedGives
        <3> HIDE DEF o, h
        <3> QED BY <3>1 DEF Gives
    <2> QED BY <2>1, <2>3, <2>4, TidyBacked
<1>5. CASE GetByExtending(r)
    <2> DEFINE m == Begun(heap)
               h == Extended(m, r)
               o == ExtendAt(m, r)
    <2>1. (ExtensionFits(m, r) => heap' = Tidy(h)) /\ (~ ExtensionFits(m, r) => heap' = m)
        BY <1>5 DEF GetByExtending
    <2>2. Good(m) /\ Elements(m) # {} /\ Backed(m) BY <1>1, BegunKeeps, BegunBacked
    <2> HIDE DEF m
    <2>3. CASE ExtensionFits(m, r)
        <3>1. Backed(h) /\ Gives(m, h, o, r) BY <2>2, <2>3, ExtendedBacked, ExtendedGives
        <3> HIDE DEF h, o
        <3>2. Good(h) BY <3>1 DEF Gives
        <3> QED BY <3>1, <3>2, <2>1, <2>3, TidyBacked
    <2>4. CASE ~ ExtensionFits(m, r) BY <2>1, <2>2, <2>4
    <2> QED BY <2>3, <2>4
<1> QED BY <1>3, <1>4, <1>5 DEF Get

LEMMA PutBacked ==
    ASSUME Inv, Backed(heap), NEW g \in held, Put(g)
    PROVE  Backed(heap')
<1>1. Good(heap) BY DEF Inv
<1>2. heap' = heap \/ \E x \in InUse(heap) : heap' = Freed(heap, x) BY PutFrees
<1> QED BY <1>1, <1>2, BlockFreedBacked

LEMMA StepBacked == Inv /\ HeapIsBacked /\ [Next]_vars => HeapIsBacked'
<1> SUFFICES ASSUME Inv, HeapIsBacked, [Next]_vars, AlignedWithinPage PROVE Backed(heap')
    BY DEF HeapIsBacked, AlignedWithinPage
<1>1. Backed(heap) BY DEF HeapIsBacked
<1>2. ASSUME NEW q \in Requests, Get(Rounded(q)) PROVE Backed(heap')
    <2>1. Rounded(q) \in Asked BY DEF Asked
    <2>2. PICK r \in Asked : Get(r) BY <2>1, <1>2
    <2> QED BY <2>2, <1>1, GetBacked
<1>3. ASSUME NEW h \in held, Put(h) PROVE Backed(heap') BY <1>1, <1>3, PutBacked
<1>4. CASE UNCHANGED vars BY <1>1, <1>4 DEF vars
<1> QED BY <1>2, <1>3, <1>4 DEF Next

LEMMA InitBacked == Init => HeapIsBacked
<1> SUFFICES ASSUME Init PROVE Backed(heap) BY DEF HeapIsBacked
<1>1. heap.len = 0 BY DEF Init
<1> QED BY <1>1 DEF Backed

\* Mapped words are all that is asked for.
LEMMA BackedNeeded ==
    ASSUME Good(heap), Backed(heap)
    PROVE  NeededIsMapped
<1> DEFINE E == Elements(heap)
           t == heap.tag
           len == heap.len
<1>1. Sound(heap, E) BY DEF Good
<1>2. E # {} => Chained(heap, E) BY <1>1, SoundChained
<1>3. ASSUME NEW o \in E, NEW w \in Int, o - 2 <= w, w < len,
             w < o + 2 \/ (o \in InUse(heap) /\ w < o + t[o].n)
      PROVE  w \div PageSize \in heap.mapped
    <2>1. ~ Hole(heap, w) BY <1>3, NoHole
    <2>2. Chained(heap, E) /\ o \in E BY <1>2, <1>3
    <2>3. o >= 2 /\ o \in Int /\ len \in Int
        <3> HIDE DEF E
        <3> QED BY <2>2, ChainedAt
    <2>4. w \in 0 .. len - 1 BY <2>3, <1>3
    <2> QED BY <2>1, <2>4 DEF Backed
<1>4. \A o \in E : o \in Int /\ o <= len /\ len \in Int
    <2> HIDE DEF E
    <2> QED BY <1>2, ChainedAt
<1>5. ASSUME NEW o \in E PROVE Touched(o - Overhead, Overhead) \subseteq heap.mapped
    <2> SUFFICES ASSUME NEW w \in o - Overhead .. o - Overhead + Overhead - 1
                 PROVE  w \div PageSize \in heap.mapped BY DEF Touched
    <2>1. o \in Int /\ o <= len /\ len \in Int BY <1>4, <1>5
    <2>2. w \in Int /\ o - 2 <= w /\ w < len /\ w < o + 2 BY <2>1, Sizes
    <2> QED BY <2>2, <1>3, <1>5
<1>6. ASSUME NEW o \in Blocks(heap)
      PROVE  Touched(o, IF t[o].free THEN EltWords - Overhead ELSE t[o].n) \subseteq heap.mapped
    <2> DEFINE n == IF t[o].free THEN EltWords - Overhead ELSE t[o].n
    <2>1. o \in E \ {len} BY <1>6, BlocksAre
    <2>2. o \in Int /\ len \in Int BY <2>1, <1>4
    <2>3. t[o].n \in Nat /\ t[o].n >= 2 /\ o + t[o].n + 2 <= len
        <3>1. Chained(heap, E) BY <2>1, <1>2
        <3> HIDE DEF E
        <3>2. t[o].n \in Nat /\ t[o].n >= 2 /\ After(t, o) = o + t[o].n + 2 /\ After(t, o) \in E
            BY <2>1, <3>1, ChainedNext
        <3> QED BY <3>2, <1>4
    <2>4. n \in Nat /\ n <= t[o].n /\ (n <= 2 \/ o \in InUse(heap))
        <3>1. CASE t[o].free BY <3>1, <2>3, Sizes
        <3>2. CASE ~ t[o].free BY <3>2, <2>1, <2>3 DEF InUse, Used
        <3> QED BY <3>1, <3>2
    <2>5. n <= t[o].n /\ (o \in InUse(heap) => n = t[o].n)
        <3>1. o \in InUse(heap) => ~ t[o].free BY DEF InUse, Used
        <3> QED BY <3>1, <2>4
    <2> HIDE DEF n, E, t, len
    <2> SUFFICES ASSUME NEW w \in o .. o + n - 1 PROVE w \div PageSize \in heap.mapped
        BY DEF Touched, n
    <2>6. w \in Int /\ o - 2 <= w /\ w < len /\ (w < o + 2 \/ (o \in InUse(heap) /\ w < o + t[o].n))
        BY <2>2, <2>3, <2>4, <2>5
    <2> QED BY <2>1, <2>6, <1>3
<1> QED BY <1>5, <1>6 DEF NeededIsMapped, E, t

-----------------------------------------------------------------------------
(* The theorems *)

\* Through any sequence of allocations and frees the boundary tags chain, the
\* two copies of every size and state agree, no two free elements touch, and
\* every value has its type (mheap_get_aligned, mheap_put).
THEOREM MheapTagsChain == Spec => []TagsChain
BY SpecInv, InvChains, PTL

\* The free lists hold exactly the free elements, each in the list of its bin
\* and linked both ways (mheap_set_free_elt, remove_free_elt).
THEOREM MheapFreeListsExact == Spec => []FreeListsExact
BY SpecInv, InvLists, PTL

\* Every block in use is with one caller or in one entry of the small object
\* cache, filed by its size, and n_elts counts the callers' (mheap_put_small_object).
THEOREM MheapBlocksAccountedFor == Spec => []BlocksAccountedFor
BY SpecInv, InvAccounts, PTL

\* Every caller has the words and the alignment asked for, wherever the block
\* came from and whatever happened around it since.
THEOREM MheapRequestsMet == Spec => []RequestsMet
BY SpecInv, InvMeets, PTL

\* Pages are unmapped inside free elements only and mapped again as far as an
\* element above reaches: every word the heap or a caller uses is mapped, for
\* alignments up to half a page (mheap_vm_elt, mheap_get_search_free_bin).
THEOREM MheapInUseIsMapped == Spec => []InUseIsMapped
<1>1. Inv /\ HeapIsBacked => InUseIsMapped
    BY BackedNeeded DEF Inv, HeapIsBacked, InUseIsMapped
<1> QED BY <1>1, SpecInv, InitBacked, StepBacked, PTL DEF Spec

\* The heap implements the abstract allocator: a block handed out overlaps no
\* other one, and stays where and as large as it is until it is given back.
THEOREM MheapImplementsAllocator == Spec => ImplementsAllocator
<1>1. Init => A!Init BY AllocatorInitial
<1>2. Inv /\ Inv' /\ [Next]_vars => [A!Get \/ A!Put]_HeldBlocks BY AllocatorStep
<1> QED BY <1>1, <1>2, SpecInv, PTL DEF Spec, ImplementsAllocator, A!AllocatorSpec

=============================================================================
