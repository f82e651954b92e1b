------------------------------ MODULE BitmapProofs ------------------------------
(***************************************************************************)
(* A bitmap is a set of numbers, for every width of its words, and what     *)
(* lives on bitmaps is sound: the pool, whose free elements it names, and   *)
(* the sparse vector, whose members it names.                               *)
(***************************************************************************)
EXTENDS BitmapOps, Pool, SparseVec, Numbers, SequenceTheorems, FiniteSetTheorems

-----------------------------------------------------------------------------
(* Words of a bitmap *)

Vector(b) == b \in Seq(SUBSET Positions)

\* A bitmap's length is a number and each of its words a set of positions,
\* the words beyond its end included.
LEMMA Vectors ==
    ASSUME NEW b, Vector(b)
    PROVE  /\ Len(b) \in Nat /\ W \in Nat \ {0}
           /\ \A k \in Nat : Word(b, k) \in SUBSET Positions
<1>1. Len(b) \in Nat /\ \A j \in 1 .. Len(b) : b[j] \in SUBSET Positions
    BY LenProperties, ElementOfSeq DEF Vector
<1>2. ASSUME NEW k \in Nat PROVE Word(b, k) \in SUBSET Positions
    <2>1. CASE k < Len(b)
        <3>1. k + 1 \in 1 .. Len(b) BY <1>1, <2>1
        <3> QED BY <3>1, <2>1, <1>1 DEF Word
    <2>2. CASE ~ (k < Len(b)) BY <2>2 DEF Word
    <2> QED BY <2>1, <2>2
<1> QED BY <1>1, <1>2, BitmapAssumption

\* a has the words of b, but for word k.
WordChanged(a, b, k, word) ==
    Vector(a) /\ \A j \in Nat : Word(a, j) = IF j = k THEN word ELSE Word(b, j)
SameWords(a, b) == Vector(a) /\ \A j \in Nat : Word(a, j) = Word(b, j)

\* Extending a bitmap until it has a word changes none of its words.
LEMMA WithWordIs ==
    ASSUME NEW b, Vector(b), NEW k \in Nat
    PROVE  SameWords(WithWord(b, k), b) /\ Len(WithWord(b, k)) = IF k < Len(b) THEN Len(b) ELSE k + 1
<1>1. CASE k < Len(b) BY <1>1 DEF WithWord, SameWords
<1>2. CASE ~ (k < Len(b))
    <2> DEFINE n == k + 1 - Len(b)
               t == [j \in 1 .. n |-> {}]
               a == b \o t
    <2>1. n \in Nat /\ Len(b) \in Nat BY <1>2, Vectors
    <2>2. t \in Seq(SUBSET Positions) /\ Len(t) = n /\ \A j \in 1 .. n : t[j] = {} BY <2>1
    <2> HIDE DEF t
    <2>3. a \in Seq(SUBSET Positions) /\ Len(a) = Len(b) + n
          /\ \A i \in 1 .. Len(b) + n : a[i] = IF i <= Len(b) THEN b[i] ELSE t[i - Len(b)]
        BY <2>2, ConcatProperties DEF Vector
    <2>4. WithWord(b, k) = a BY <1>2 DEF WithWord, t
    <2> HIDE DEF a
    <2>5. Len(a) = k + 1 BY <2>1, <2>3
    <2>6. ASSUME NEW j \in Nat PROVE Word(a, j) = Word(b, j)
        <3>1. CASE j < Len(b)
            <4>1. j + 1 \in 1 .. Len(b) + n /\ j + 1 <= Len(b) /\ j < Len(a) BY <2>1, <2>3, <3>1
            <4> QED BY <4>1, <3>1, <2>3 DEF Word
        <3>2. CASE ~ (j < Len(b)) /\ j < Len(a)
            <4>1. j + 1 \in 1 .. Len(b) + n /\ ~ (j + 1 <= Len(b)) /\ (j + 1) - Len(b) \in 1 .. n
                BY <2>1, <2>3, <3>2
            <4> QED BY <4>1, <3>2, <2>2, <2>3 DEF Word
        <3>3. CASE ~ (j < Len(b)) /\ ~ (j < Len(a)) BY <3>3 DEF Word
        <3> QED BY <3>1, <3>2, <3>3
    <2> QED BY <1>2, <2>3, <2>4, <2>5, <2>6 DEF SameWords, Vector
<1> QED BY <1>1, <1>2

\* Writing a word changes that word alone.
LEMMA PutIs ==
    ASSUME NEW b, Vector(b), NEW k \in Nat, NEW word \in SUBSET Positions
    PROVE  WordChanged(Put(b, k, word), b, k, word)
<1> DEFINE a == WithWord(b, k)
           c == [a EXCEPT ![k + 1] = word]
<1>1. Put(b, k, word) = c BY DEF Put
<1>2. SameWords(a, b) /\ Len(b) \in Nat /\ Len(a) = IF k < Len(b) THEN Len(b) ELSE k + 1
    BY WithWordIs, Vectors
<1> HIDE DEF a
<1>3. a \in Seq(SUBSET Positions) /\ k + 1 \in 1 .. Len(a) /\ Len(a) \in Nat
    BY <1>2 DEF SameWords, Vector
<1>4. c \in Seq(SUBSET Positions) /\ Len(c) = Len(a)
      /\ \A j \in 1 .. Len(a) : c[j] = IF j = k + 1 THEN word ELSE a[j]
    BY <1>3, ExceptSeq
<1> HIDE DEF c
<1>5. ASSUME NEW j \in Nat PROVE Word(c, j) = IF j = k THEN word ELSE Word(a, j)
    <2>1. CASE j < Len(a)
        <3>1. j + 1 \in 1 .. Len(a) /\ (j + 1 = k + 1 <=> j = k) BY <1>3, <2>1
        <3> QED BY <3>1, <2>1, <1>4 DEF Word
    <2>2. CASE ~ (j < Len(a))
        <3>1. j # k BY <1>3, <2>2
        <3> QED BY <3>1, <2>2, <1>4 DEF Word
    <2> QED BY <2>1, <2>2
<1> QED BY <1>1, <1>2, <1>4, <1>5 DEF WordChanged, SameWords, Vector

\* Dropping the empty words at the end changes no word.
LEMMA TrimmedIs ==
    ASSUME NEW b, Vector(b)
    PROVE  SameWords(Trimmed(b), b)
<1> DEFINE S == {0} \cup {k \in DOMAIN b : b[k] # {}}
           n == Max(S)
           a == SubSeq(b, 1, n)
<1>1. DOMAIN b = 1 .. Len(b) /\ Len(b) \in Nat /\ \A j \in 1 .. Len(b) : b[j] \in SUBSET Positions
    BY LenProperties, ElementOfSeq DEF Vector
<1>2. S \subseteq Int /\ S # {} /\ \A k \in S : k <= Len(b) BY <1>1
<1>3. n \in S /\ \A k \in S : k <= n
    <2> DEFINE l == Len(b)
    <2>1. l \in Int /\ \A k \in S : k <= l BY <1>1, <1>2
    <2> HIDE DEF S, l
    <2> QED BY <1>2, <2>1, GreatestBelow
<1>6. Trimmed(b) = a BY DEF Trimmed
<1> HIDE DEF n
<1>4. n \in 0 .. Len(b) BY <1>1, <1>3
<1>5. \A k \in 1 .. Len(b) : k > n => b[k] = {}
    <2> SUFFICES ASSUME NEW k \in 1 .. Len(b), k > n, b[k] # {} PROVE FALSE OBVIOUS
    <2>1. k \in S BY <1>1
    <2>2. k <= n BY <2>1, <1>3
    <2> QED BY <2>2, <1>4
<1> HIDE DEF S
<1>7. a \in Seq(SUBSET Positions) /\ Len(a) = n /\ \A j \in 1 .. n : a[j] = b[j]
    <2>1. \A i \in 1 .. n : b[i] \in SUBSET Positions BY <1>1, <1>4
    <2>2. n \in Int /\ n - 1 + 1 = n BY <1>4
    <2>3. a \in Seq(SUBSET Positions) /\ Len(a) = (IF 1 <= n THEN n - 1 + 1 ELSE 0)
          /\ \A i \in 1 .. n - 1 + 1 : a[i] = b[1 + i - 1]
        BY <2>1, <2>2, SubSeqProperties
    <2>4. \A i \in 1 .. n : 1 + i - 1 = i OBVIOUS
    <2> QED BY <2>2, <2>3, <2>4, <1>4
<1> HIDE DEF a
<1>8. ASSUME NEW j \in Nat PROVE Word(a, j) = Word(b, j)
    <2>1. CASE j < n
        <3>1. j + 1 \in 1 .. n /\ j < Len(b) BY <1>4, <2>1
        <3> QED BY <3>1, <2>1, <1>7 DEF Word
    <2>2. CASE ~ (j < n) /\ j < Len(b)
        <3>1. j + 1 \in 1 .. Len(b) /\ j + 1 > n BY <1>1, <1>4, <2>2
        <3> QED BY <3>1, <2>2, <1>5, <1>7 DEF Word
    <2>3. CASE ~ (j < n) /\ ~ (j < Len(b)) BY <2>3, <1>7 DEF Word
    <2> QED BY <2>1, <2>2, <2>3
<1> QED BY <1>6, <1>7, <1>8 DEF SameWords, Vector

\* So does writing a word and then dropping the empty ones.
LEMMA PutTrimmedIs ==
    ASSUME NEW b, Vector(b), NEW k \in Nat, NEW word \in SUBSET Positions
    PROVE  WordChanged(PutTrimmed(b, k, word), b, k, word)
<1> DEFINE a == Put(b, k, word)
<1>1. WordChanged(a, b, k, word) BY PutIs
<1> HIDE DEF a
<1>2. SameWords(Trimmed(a), a)
    <2>1. Vector(a) BY <1>1 DEF WordChanged
    <2> QED BY <2>1, TrimmedIs
<1>3. WordChanged(Trimmed(a), b, k, word)
    <2> DEFINE t == Trimmed(a)
    <2> HIDE DEF t
    <2>1. SameWords(t, a) BY <1>2 DEF t
    <2>2. WordChanged(t, b, k, word) BY <2>1, <1>1 DEF WordChanged, SameWords
    <2> QED BY <2>2 DEF t
<1> QED BY <1>1, <1>3 DEF PutTrimmed, a

-----------------------------------------------------------------------------
(* Bits of a bitmap *)

\* A number has a word and a position in it, and is known by them.
LEMMA Place ==
    ASSUME NEW i \in Nat
    PROVE  /\ i \div W \in Nat /\ i % W \in Positions /\ i = W * (i \div W) + (i % W)
           /\ W \in Nat \ {0}
<1>1. W \in Nat \ {0} BY BitmapAssumption
<1>2. i \div W \in Int /\ i % W \in 0 .. W - 1 /\ i = W * (i \div W) + (i % W) BY <1>1, DivMod
<1>3. i \div W >= 0
    <2> DEFINE q == i \div W
    <2>1. q \in Int /\ i < W * (q + 1) BY <1>1, <1>2
    <2> HIDE DEF q
    <2>2. q >= 0
        <3> SUFFICES ASSUME q < 0 PROVE FALSE BY <2>1
        <3>1. -q - 1 \in Nat BY <2>1
        <3>2. W * (-q - 1) >= 0 BY <3>1, <1>1
        <3>3. W * (q + 1) = -(W * (-q - 1)) BY <2>1, <1>1
        <3> DEFINE x == W * (-q - 1)
                   y == W * (q + 1)
        <3>4. x \in Int /\ y \in Int /\ x >= 0 /\ y = - x /\ i < y BY <3>1, <3>2, <3>3, <2>1, <1>1
        <3> HIDE DEF x, y
        <3> QED BY <3>4
    <2> QED BY <2>2 DEF q
<1> QED BY <1>1, <1>2, <1>3 DEF Positions

\* A place in a word is the place of one bit.
LEMMA PlaceIs ==
    ASSUME NEW k \in Nat, NEW p \in Positions
    PROVE  /\ k * W + p \in Nat /\ (k * W + p) % W = p /\ (k * W + p) \div W = k
<1>1. W \in Nat \ {0} /\ p \in 0 .. W - 1 /\ k * W = W * k BY BitmapAssumption DEF Positions
<1>2. k * W \in Nat BY <1>1
<1>3. k * W + p \in Int /\ k * W + p \in Nat /\ k * W + p = W * k + p BY <1>1, <1>2
<1> QED BY <1>1, <1>3, DivModIs

\* The bits are those of the words.
LEMMA BitsIs ==
    ASSUME NEW b, Vector(b)
    PROVE  /\ Bits(b) \subseteq Nat /\ IsFiniteSet(Bits(b)) /\ Bits(b) \subseteq 0 .. Len(b) * W - 1
           /\ \A i \in Nat : i \in Bits(b) <=> i % W \in Word(b, i \div W)
           /\ \A i \in Nat : BitmapGet(b, i) <=> i \in Bits(b)
<1>1. Len(b) \in Nat /\ W \in Nat \ {0} BY Vectors
<1> DEFINE m == Len(b) * W
<1>2. m \in Nat BY <1>1
<1>3. Bits(b) = {i \in 0 .. m - 1 : i % W \in Word(b, i \div W)} BY DEF Bits
<1>4. IsFiniteSet(0 .. m - 1) BY <1>2, FS_Interval
<1>5. Bits(b) \in SUBSET (0 .. m - 1) BY <1>3
<1>6. IsFiniteSet(Bits(b)) BY <1>4, <1>5, FS_Subset
<1>7. ASSUME NEW i \in Nat PROVE i \in Bits(b) <=> i % W \in Word(b, i \div W)
    <2> SUFFICES ASSUME i % W \in Word(b, i \div W) PROVE i \in 0 .. m - 1 BY <1>3
    <2> DEFINE q == i \div W
               r == i % W
    <2>1. q \in Nat /\ r \in 0 .. W - 1 /\ i = W * q + r BY Place DEF Positions
    <2>2. q < Len(b)
        <3>1. Word(b, q) # {} OBVIOUS
        <3> HIDE DEF q
        <3> QED BY <3>1 DEF Word
    <2> HIDE DEF q, r
    <2>3. W * q + W <= W * Len(b) BY <1>1, <2>1, <2>2, Monotone
    <2>4. W * Len(b) = m /\ W * q \in Int BY <1>1, <2>1
    <2> DEFINE x == W * q
    <2>5. x + W <= m /\ x \in Int /\ i = x + r BY <2>1, <2>3, <2>4
    <2> HIDE DEF x, m
    <2> QED BY <2>1, <2>5, <1>1, <1>2
<1>8. \A i \in Nat : BitmapGet(b, i) <=> i \in Bits(b) BY <1>7 DEF BitmapGet
<1> QED BY <1>2, <1>5, <1>6, <1>7, <1>8

\* What has the same words has the same bits.
LEMMA SameBits ==
    ASSUME NEW a, NEW b, Vector(b), SameWords(a, b)
    PROVE  Vector(a) /\ Bits(a) = Bits(b)
<1>1. Vector(a) BY DEF SameWords
<1>2. ASSUME NEW i \in Nat PROVE i \in Bits(a) <=> i \in Bits(b)
    <2>1. i \div W \in Nat BY Place
    <2>2. Word(a, i \div W) = Word(b, i \div W) BY <2>1 DEF SameWords
    <2> QED BY <1>1, <2>2, BitsIs
<1>3. Bits(a) \subseteq Nat /\ Bits(b) \subseteq Nat BY <1>1, BitsIs
<1> QED BY <1>1, <1>2, <1>3

\* The bits of a bitmap of which one word was changed.
LEMMA BitsChanged ==
    ASSUME NEW a, NEW b, Vector(b), NEW k \in Nat, NEW word, WordChanged(a, b, k, word)
    PROVE  /\ Vector(a)
           /\ \A i \in Nat : i \in Bits(a) <=> IF i \div W = k THEN i % W \in word ELSE i \in Bits(b)
<1>1. Vector(a) BY DEF WordChanged
<1>2. ASSUME NEW i \in Nat
      PROVE i \in Bits(a) <=> IF i \div W = k THEN i % W \in word ELSE i \in Bits(b)
    <2>1. i \div W \in Nat BY Place
    <2>2. Word(a, i \div W) = IF i \div W = k THEN word ELSE Word(b, i \div W) BY <2>1 DEF WordChanged
    <2> QED BY <1>1, <2>2, BitsIs
<1> QED BY <1>1, <1>2

\* Two numbers in one word are the same when their positions are.
LEMMA SamePlace ==
    ASSUME NEW i \in Nat, NEW j \in Nat
    PROVE  i \div W = j \div W /\ i % W = j % W <=> i = j
<1>1. i = W * (i \div W) + (i % W) /\ j = W * (j \div W) + (j % W) BY Place
<1> QED BY <1>1

\* Setting one bit adds one number.
LEMMA OriIs ==
    ASSUME NEW b, Vector(b), NEW i \in Nat
    PROVE  Vector(Ori(b, i)) /\ Bits(Ori(b, i)) = Bits(b) \cup {i}
<1> DEFINE k == i \div W
           word == Word(b, k) \cup {i % W}
           a == Ori(b, i)
<1>1. k \in Nat /\ i % W \in Positions BY Place
<1>2. word \in SUBSET Positions BY <1>1, Vectors
<1>3. WordChanged(a, b, k, word) BY <1>1, <1>2, PutIs DEF Ori
<1> HIDE DEF a
<1>4. /\ Vector(a)
      /\ \A j \in Nat : j \in Bits(a) <=> IF j \div W = k THEN j % W \in word ELSE j \in Bits(b)
    <2> HIDE DEF k, word
    <2> QED BY <1>1, <1>3, BitsChanged
<1>5. ASSUME NEW j \in Nat PROVE j \in Bits(a) <=> j \in Bits(b) \cup {i}
    <2>1. j \div W = k /\ j % W = i % W <=> j = i BY SamePlace
    <2>2. j \in Bits(b) <=> j % W \in Word(b, j \div W) BY BitsIs
    <2> QED BY <1>4, <2>1, <2>2
<1>6. Bits(a) \subseteq Nat /\ Bits(b) \subseteq Nat BY <1>4, BitsIs
<1>7. Vector(a) /\ Bits(a) = Bits(b) \cup {i} BY <1>4, <1>5, <1>6
<1> QED BY <1>7 DEF a

\* Clearing one bit takes one number out.
LEMMA AndnotiIs ==
    ASSUME NEW b, Vector(b), NEW i \in Nat
    PROVE  Vector(Andnoti(b, i)) /\ Bits(Andnoti(b, i)) = Bits(b) \ {i}
<1> DEFINE k == i \div W
           word == Word(b, k) \ {i % W}
           a == Andnoti(b, i)
<1>1. k \in Nat BY Place
<1>2. word \in SUBSET Positions BY <1>1, Vectors
<1>3. WordChanged(a, b, k, word) BY <1>1, <1>2, PutTrimmedIs DEF Andnoti
<1> HIDE DEF a
<1>4. /\ Vector(a)
      /\ \A j \in Nat : j \in Bits(a) <=> IF j \div W = k THEN j % W \in word ELSE j \in Bits(b)
    <2> HIDE DEF k, word
    <2> QED BY <1>1, <1>3, BitsChanged
<1>5. ASSUME NEW j \in Nat PROVE j \in Bits(a) <=> j \in Bits(b) \ {i}
    <2>1. j \div W = k /\ j % W = i % W <=> j = i BY SamePlace
    <2>2. j \in Bits(b) <=> j % W \in Word(b, j \div W) BY BitsIs
    <2> QED BY <1>4, <2>1, <2>2
<1>6. Bits(a) \subseteq Nat /\ Bits(b) \subseteq Nat BY <1>4, BitsIs
<1>7. Vector(a) /\ Bits(a) = Bits(b) \ {i} BY <1>4, <1>5, <1>6
<1> QED BY <1>7 DEF a

\* A word more at the end changes nothing.
LEMMA WithWordBits ==
    ASSUME NEW b, Vector(b), NEW k \in Nat
    PROVE  Vector(WithWord(b, k)) /\ Bits(WithWord(b, k)) = Bits(b)
<1> DEFINE a == WithWord(b, k)
<1>1. SameWords(a, b) BY WithWordIs
<1> HIDE DEF a
<1>2. Vector(a) /\ Bits(a) = Bits(b) BY <1>1, SameBits
<1> QED BY <1>2 DEF a

\* A bitmap without words is empty.
LEMMA NoBits == Vector(<<>>) /\ Bits(<<>>) = {}
<1>1. Vector(<<>>) BY EmptySeq DEF Vector
<1>2. ASSUME NEW i \in Nat PROVE i \notin Bits(<<>>)
    <2>1. Word(<<>>, i \div W) = {} BY Place DEF Word
    <2> QED BY <1>1, <2>1, BitsIs
<1> QED BY <1>1, <1>2, BitsIs

-----------------------------------------------------------------------------
(* The pool *)

Pools == [len : Nat, freeBitmap : Seq(SUBSET Positions), freeIndices : Seq(Nat)]
Once(f) == \A i, j \in 1 .. Len(f) : f[i] = f[j] => i = j

\* What is known of a pool p of which callers hold the indices in held.
PoolFits(p, held) ==
    /\ p \in Pools /\ Once(p.freeIndices)
    /\ Bits(p.freeBitmap) = ToSet(p.freeIndices)
    /\ Bits(p.freeBitmap) \subseteq 0 .. p.len - 1
    /\ held = (0 .. p.len - 1) \ Bits(p.freeBitmap)

PoolInv == PoolFits(pool, inUse)

\* The last of a sequence whose elements are all different.
LEMMA WithoutLast ==
    ASSUME NEW f \in Seq(Nat), Once(f), f # <<>>
    PROVE  /\ Last(f) \in ToSet(f) /\ Last(f) \in Nat
           /\ Front(f) \in Seq(Nat) /\ Once(Front(f)) /\ ToSet(Front(f)) = ToSet(f) \ {Last(f)}
<1> DEFINE n == Len(f)
           g == Front(f)
<1>1. n \in Nat \ {0} /\ DOMAIN f = 1 .. n /\ \A i \in 1 .. n : f[i] \in Nat
    BY LenProperties, EmptySeq, ElementOfSeq
<1>2. n \in 1 .. n /\ Last(f) = f[n] BY <1>1 DEF Last
<1>3. g \in Seq(Nat) /\ Len(g) = n - 1 /\ \A i \in 1 .. n - 1 : g[i] = f[i]
    <2>1. g = SubSeq(f, 1, n - 1) BY DEF Front
    <2>2. n - 1 \in Int /\ \A i \in 1 .. n - 1 : f[i] \in Nat /\ 1 + i - 1 = i BY <1>1
    <2>3. /\ SubSeq(f, 1, n - 1) \in Seq(Nat)
          /\ Len(SubSeq(f, 1, n - 1)) = IF 1 <= n - 1 THEN n - 1 - 1 + 1 ELSE 0
          /\ \A i \in 1 .. n - 1 - 1 + 1 : SubSeq(f, 1, n - 1)[i] = f[1 + i - 1]
        BY <2>2, SubSeqProperties
    <2> HIDE DEF g, n
    <2> QED BY <1>1, <2>1, <2>2, <2>3
<1> HIDE DEF g
<1>4. DOMAIN g = 1 .. n - 1 BY <1>3, LenProperties
<1>5. Once(g)
    <2> SUFFICES ASSUME NEW i \in 1 .. n - 1, NEW j \in 1 .. n - 1, g[i] = g[j] PROVE i = j
        BY <1>3 DEF Once
    <2>1. i \in 1 .. n /\ j \in 1 .. n BY <1>1, SMTT(30)
    <2> QED BY <1>3, <2>1 DEF Once
<1>6. ASSUME NEW x PROVE x \in ToSet(g) <=> x \in ToSet(f) /\ x # f[n]
    <2>1. ASSUME x \in ToSet(g) PROVE x \in ToSet(f) /\ x # f[n]
        <3>1. PICK i \in 1 .. n - 1 : x = g[i] BY <2>1, <1>4 DEF ToSet
        <3>2. i \in 1 .. n /\ i # n
            <4> HIDE DEF n
            <4> QED BY <1>1, <3>1
        <3>3. x = f[i] BY <1>3, <3>1
        <3> QED BY <1>1, <1>2, <3>2, <3>3, ZenonT(30) DEF Once, ToSet
    <2>2. ASSUME x \in ToSet(f), x # f[n] PROVE x \in ToSet(g)
        <3>1. PICK i \in 1 .. n : x = f[i] BY <2>2, <1>1 DEF ToSet
        <3>2. i \in 1 .. n - 1 BY <1>1, <2>2, <3>1
        <3> QED BY <1>3, <1>4, <3>1, <3>2 DEF ToSet
    <2> QED BY <2>1, <2>2
<1>7. Last(f) \in ToSet(f) BY <1>1, <1>2 DEF ToSet
<1> QED BY <1>1, <1>2, <1>3, <1>5, <1>6, <1>7 DEF g

\* And one that another is appended to.
LEMMA WithOneMore ==
    ASSUME NEW f \in Seq(Nat), Once(f), NEW x \in Nat, x \notin ToSet(f)
    PROVE  /\ Append(f, x) \in Seq(Nat) /\ Once(Append(f, x))
           /\ ToSet(Append(f, x)) = ToSet(f) \cup {x}
<1> DEFINE n == Len(f)
           g == Append(f, x)
<1>1. n \in Nat /\ DOMAIN f = 1 .. n BY LenProperties
<1>2. g \in Seq(Nat) /\ Len(g) = n + 1 /\ (\A i \in 1 .. n : g[i] = f[i]) /\ g[n + 1] = x
    BY AppendProperties
<1> HIDE DEF g
<1>3. DOMAIN g = 1 .. n + 1 BY <1>2, LenProperties
<1>4. \A i \in 1 .. n : f[i] # x BY <1>1 DEF ToSet
<1>5. Once(g)
    <2> SUFFICES ASSUME NEW i \in 1 .. n + 1, NEW j \in 1 .. n + 1, g[i] = g[j] PROVE i = j
        BY <1>2 DEF Once
    <2>1. CASE i \in 1 .. n /\ j \in 1 .. n BY <2>1, <1>2 DEF Once
    <2>2. CASE i = n + 1 /\ j \in 1 .. n BY <2>2, <1>2, <1>4
    <2>3. CASE i \in 1 .. n /\ j = n + 1 BY <2>3, <1>2, <1>4
    <2>4. CASE i = n + 1 /\ j = n + 1 BY <2>4
    <2> QED BY <1>1, <2>1, <2>2, <2>3, <2>4
<1>6. ASSUME NEW y PROVE y \in ToSet(g) <=> y \in ToSet(f) \/ y = x
    <2>1. ASSUME y \in ToSet(g) PROVE y \in ToSet(f) \/ y = x
        <3>1. PICK i \in 1 .. n + 1 : y = g[i] BY <2>1, <1>3 DEF ToSet
        <3>2. CASE i = n + 1 BY <3>1, <3>2, <1>2
        <3>3. CASE i \in 1 .. n BY <3>1, <3>3, <1>1, <1>2 DEF ToSet
        <3> QED BY <1>1, <3>2, <3>3
    <2>2. ASSUME y \in ToSet(f) PROVE y \in ToSet(g)
        <3>1. PICK i \in 1 .. n : y = f[i] BY <2>2, <1>1 DEF ToSet
        <3>2. i \in 1 .. n + 1 /\ y = g[i] BY <1>1, <1>2, <3>1
        <3> QED BY <1>3, <3>2 DEF ToSet
    <2>3. x \in ToSet(g)
        <3>1. n + 1 \in 1 .. n + 1 BY <1>1
        <3> QED BY <1>2, <1>3, <3>1 DEF ToSet
    <2> QED BY <2>1, <2>2, <2>3
<1> QED BY <1>2, <1>5, <1>6 DEF g

\* No pool.
LEMMA PoolBegins == PoolFits(NoPool, {})
<1>1. NoPool.len = 0 /\ NoPool.freeBitmap = <<>> /\ NoPool.freeIndices = <<>> BY DEF NoPool
<1>2. Vector(<<>>) /\ Bits(<<>>) = {} BY NoBits
<1>3. NoPool \in Pools BY <1>2, EmptySeq DEF NoPool, Pools, Vector
<1>4. Once(<<>>) /\ ToSet(<<>>) = {}
    <2>1. Len(<<>>) = 0 /\ DOMAIN <<>> = {} OBVIOUS
    <2> QED BY <2>1 DEF Once, ToSet
<1>5. 0 .. NoPool.len - 1 = {} BY <1>1
<1> QED BY <1>1, <1>2, <1>3, <1>4, <1>5 DEF PoolFits

\* Taking the last index freed.
LEMMA ReusedFits ==
    ASSUME NEW p, NEW held, PoolFits(p, held), p.freeIndices # <<>>
    PROVE  PoolFits(Reused(p), held \cup {Last(p.freeIndices)})
<1> DEFINE q == Reused(p)
           f == p.freeIndices
           x == Last(f)
<1>1. /\ p.len \in Nat /\ Vector(p.freeBitmap) /\ f \in Seq(Nat) /\ p \in Pools
    BY DEF PoolFits, Pools, Vector
<1>2. /\ x \in ToSet(f) /\ x \in Nat /\ Front(f) \in Seq(Nat) /\ Once(Front(f))
      /\ ToSet(Front(f)) = ToSet(f) \ {x}
    <2>1. Once(f) BY DEF PoolFits
    <2> HIDE DEF f
    <2> QED BY <1>1, <2>1, WithoutLast DEF f
<1>3. /\ q.len = p.len /\ q.freeBitmap = Andnoti(p.freeBitmap, x) /\ q.freeIndices = Front(f)
      /\ q = [len |-> p.len, freeBitmap |-> Andnoti(p.freeBitmap, x), freeIndices |-> Front(f)]
    <2>1. q = [p EXCEPT !.freeBitmap = Andnoti(@, x), !.freeIndices = Front(@)] BY DEF Reused
    <2> HIDE DEF q, x
    <2> QED BY <1>1, <2>1 DEF Pools
<1> HIDE DEF q, x
<1>4. Vector(q.freeBitmap) /\ Bits(q.freeBitmap) = Bits(p.freeBitmap) \ {x}
    BY <1>1, <1>2, <1>3, AndnotiIs
<1>5. q \in Pools BY <1>1, <1>2, <1>3, <1>4 DEF Pools, Vector
<1>6. /\ Bits(q.freeBitmap) = ToSet(q.freeIndices) /\ Bits(q.freeBitmap) \subseteq 0 .. q.len - 1
      /\ held \cup {x} = (0 .. q.len - 1) \ Bits(q.freeBitmap)
    BY <1>2, <1>3, <1>4 DEF PoolFits
<1> QED BY <1>2, <1>3, <1>5, <1>6 DEF PoolFits, q, x

\* Every operation keeps the invariant.
LEMMA PoolGetKeeps ==
    ASSUME PoolInv, PoolGet
    PROVE  PoolInv'
<1>1. CASE pool.freeIndices # <<>>
    <2>1. PoolFits(Reused(pool), inUse \cup {Last(pool.freeIndices)})
        BY <1>1, ReusedFits DEF PoolInv
    <2> QED BY <1>1, <2>1 DEF PoolInv, PoolGet
<1>2. CASE pool.freeIndices = <<>>
    <2>1. pool \in Pools /\ pool.len \in Nat BY DEF PoolInv, PoolFits, Pools
    <2>2. /\ pool'.len = pool.len + 1 /\ pool'.freeBitmap = pool.freeBitmap
          /\ pool'.freeIndices = pool.freeIndices /\ pool' \in Pools
          /\ inUse' = inUse \cup {pool.len}
        BY <1>2, <2>1 DEF PoolGet, Pools
    <2>3. 0 .. pool'.len - 1 = (0 .. pool.len - 1) \cup {pool.len} BY <2>1, <2>2
    <2>4. pool.len \notin Bits(pool.freeBitmap) BY <2>1 DEF PoolInv, PoolFits
    <2> QED BY <2>2, <2>3, <2>4 DEF PoolInv, PoolFits
<1> QED BY <1>1, <1>2

\* Giving an element back names it in the bitmap and, once, in the vector.
LEMMA PoolPutKeeps ==
    ASSUME PoolInv, NEW i \in inUse, PoolPut(i)
    PROVE  PoolInv'
<1> DEFINE b == pool.freeBitmap
           f == pool.freeIndices
<1>1. pool \in Pools /\ pool.len \in Nat /\ Vector(b) /\ f \in Seq(Nat) /\ Once(f)
    BY DEF PoolInv, PoolFits, Pools, Vector
<1>2. i \in Nat /\ i \in 0 .. pool.len - 1 /\ i \notin ToSet(f) /\ i \notin Bits(b) BY DEF PoolInv, PoolFits
<1>3. /\ pool'.len = pool.len /\ pool'.freeBitmap = Ori(b, i) /\ pool'.freeIndices = Append(f, i)
      /\ pool' = [len |-> pool.len, freeBitmap |-> Ori(b, i), freeIndices |-> Append(f, i)]
      /\ inUse' = inUse \ {i}
    BY <1>1 DEF PoolPut, Pools
<1>4. Bits(b) = ToSet(f) /\ Bits(b) \subseteq 0 .. pool.len - 1
      /\ inUse = (0 .. pool.len - 1) \ Bits(b)
    BY DEF PoolInv, PoolFits
<1> HIDE DEF b, f
<1>5. Vector(Ori(b, i)) /\ Bits(Ori(b, i)) = Bits(b) \cup {i} BY <1>1, <1>2, OriIs
<1>6. Append(f, i) \in Seq(Nat) /\ Once(Append(f, i)) /\ ToSet(Append(f, i)) = ToSet(f) \cup {i}
    BY <1>1, <1>2, WithOneMore
<1>7. pool' \in Pools BY <1>1, <1>3, <1>5, <1>6 DEF Pools, Vector
<1> QED BY <1>2, <1>3, <1>4, <1>5, <1>6, <1>7 DEF PoolInv, PoolFits

\* Validating an index extends the pool up to it; what is new is in use, and
\* neither set changes.
LEMMA PoolValidateIndexKeeps ==
    ASSUME PoolInv, NEW i \in Nat, PoolValidateIndex(i)
    PROVE  PoolInv'
<1> DEFINE b == pool.freeBitmap
           n == IF i < pool.len THEN pool.len ELSE i + 1
           a == WithWord(b, i \div W)
<1>1. pool \in Pools /\ pool.len \in Nat /\ Vector(b)
    BY DEF PoolInv, PoolFits, Pools, Vector
<1>2. i \div W \in Nat BY Place
<1>3. /\ pool'.len = n /\ pool'.freeBitmap = a /\ pool'.freeIndices = pool.freeIndices
      /\ pool' = [len |-> n, freeBitmap |-> a, freeIndices |-> pool.freeIndices]
      /\ inUse' = inUse \cup (pool.len .. i)
    BY <1>1 DEF PoolValidateIndex, Pools
<1>4. Vector(a) /\ Bits(a) = Bits(b) BY <1>1, <1>2, WithWordBits
<1>5. n \in Nat /\ 0 .. n - 1 = (0 .. pool.len - 1) \cup (pool.len .. i) BY <1>1
<1> HIDE DEF a, n
<1>6. pool' \in Pools BY <1>1, <1>3, <1>4, <1>5 DEF Pools, Vector
<1>7. Bits(b) \cap (pool.len .. i) = {} BY <1>1 DEF PoolInv, PoolFits
<1> QED BY <1>3, <1>4, <1>5, <1>6, <1>7 DEF PoolInv, PoolFits

\* The invariant holds for ever.
LEMMA PoolInvariant == PoolSpec => []PoolInv
<1>1. PoolInit => PoolInv BY PoolBegins DEF PoolInit, PoolInv
<1>2. PoolInv /\ [PoolNext]_poolVars => PoolInv'
    <2> SUFFICES ASSUME PoolInv, [PoolNext]_poolVars PROVE PoolInv' OBVIOUS
    <2>1. CASE PoolGet BY <2>1, PoolGetKeeps
    <2>2. CASE PoolFree BY <2>2, PoolBegins DEF PoolFree, PoolInv
    <2>3. ASSUME NEW i \in inUse, PoolPut(i) PROVE PoolInv' BY <2>3, PoolPutKeeps
    <2>4. ASSUME NEW i \in 0 .. MaxPool - 1, PoolValidateIndex(i) PROVE PoolInv'
        <3>1. i \in Nat BY PoolAssumption
        <3> QED BY <2>4, <3>1, PoolValidateIndexKeeps
    <2>5. CASE UNCHANGED poolVars BY <2>5 DEF poolVars, PoolInv
    <2> QED BY <2>1, <2>2, <2>3, <2>4, <2>5 DEF PoolNext
<1> QED BY <1>1, <1>2, PTL DEF PoolSpec

\* The numbers of an interval.
LEMMA UpTo ==
    ASSUME NEW n \in Nat
    PROVE  /\ IsFiniteSet(1 .. n) /\ Cardinality(1 .. n) = n
           /\ IsFiniteSet(0 .. n - 1) /\ Cardinality(0 .. n - 1) = n
<1>1. 0 \in Int /\ 1 \in Int /\ n \in Int /\ n - 1 \in Int OBVIOUS
<1>2. IsFiniteSet(1 .. n) /\ Cardinality(1 .. n) = IF 1 > n THEN 0 ELSE n - 1 + 1
    BY <1>1, FS_Interval, Zenon
<1>3. IsFiniteSet(0 .. n - 1) /\ Cardinality(0 .. n - 1) = IF 0 > n - 1 THEN 0 ELSE n - 1 - 0 + 1
    BY <1>1, FS_Interval, Zenon
<1> QED BY <1>2, <1>3

\* As many free indices as bits, and as many elements in use as are left.
LEMMA PoolCounts ==
    ASSUME NEW p, NEW held, PoolFits(p, held)
    PROVE  /\ Cardinality(Bits(p.freeBitmap)) = Len(p.freeIndices)
           /\ p.len - Len(p.freeIndices) = Cardinality(held)
<1> DEFINE f == p.freeIndices
           n == Len(f)
           B == Bits(p.freeBitmap)
           all == 0 .. p.len - 1
<1>1. p.len \in Nat /\ f \in Seq(Nat) /\ n \in Nat /\ B = ToSet(f) /\ B \subseteq all /\ held = all \ B
    BY LenProperties DEF PoolFits, Pools
<1>2. Cardinality(B) = n
    <2>1. f \in [1 .. n -> B]
        <3>1. DOMAIN f = 1 .. n /\ f = [i \in 1 .. n |-> f[i]] BY <1>1, LenProperties
        <3>2. \A i \in 1 .. n : f[i] \in B BY <1>1, <3>1 DEF ToSet
        <3> QED BY <3>1, <3>2
    <2>2. \A y \in B : \E i \in 1 .. n : f[i] = y BY <1>1, LenProperties DEF ToSet
    <2>3. \A i, j \in 1 .. n : f[i] = f[j] => i = j BY DEF PoolFits, Once
    <2>4. f \in Bijection(1 .. n, B) BY <2>1, <2>2, <2>3 DEF Bijection, Injection, Surjection, IsInjective
    <2>5. ExistsBijection(1 .. n, B) BY <2>4 DEF ExistsBijection
    <2>6. IsFiniteSet(1 .. n) /\ Cardinality(1 .. n) = n
        <3> HIDE DEF n
        <3> QED BY <1>1, UpTo
    <2> QED BY <2>5, <2>6, FS_Bijection
<1>3. Cardinality(held) = p.len - n
    <2>1. IsFiniteSet(all) /\ Cardinality(all) = p.len BY <1>1, UpTo
    <2>2. all \cap B = B BY <1>1
    <2>3. Cardinality(all \ B) = Cardinality(all) - Cardinality(all \cap B) BY <2>1, FS_Difference
    <2> QED BY <1>1, <1>2, <2>1, <2>2, <2>3
<1>4. p.len - (p.len - n) = n /\ p.len - n = Cardinality(held) BY <1>1, <1>3
<1> QED BY <1>2, <1>4

\* The regions between free indices are what is not free.
LEMMA VisitedIs ==
    ASSUME NEW p, NEW l \in Nat, p.len = l, Bits(p.freeBitmap) \subseteq 0 .. l - 1
    PROVE  Visited(p) = (0 .. l - 1) \ Bits(p.freeBitmap)
<1> DEFINE B == Bits(p.freeBitmap)
           Before(s) == {-1} \cup {t \in B : t < s}
<1>1. B \subseteq Int /\ \A t \in B : t >= 0 /\ t < l OBVIOUS
<1>2. \A s : AfterFree(p, s) = Max(Before(s)) + 1 BY DEF AfterFree
<1> HIDE DEF B
<1>3. ASSUME NEW s \in B \cup {l}
      PROVE  /\ Max(Before(s)) \in Int /\ Max(Before(s)) >= -1
             /\ Max(Before(s)) \in Before(s) /\ \A t \in Before(s) : t <= Max(Before(s))
    <2>1. Before(s) \subseteq Int /\ -1 \in Before(s)
        <3>1. -1 \in Before(s) OBVIOUS
        <3>2. \A t \in Before(s) : t = -1 \/ t \in B OBVIOUS
        <3>3. -1 \in Int OBVIOUS
        <3> HIDE DEF Before
        <3> QED BY <1>1, <3>1, <3>2, <3>3
    <2>2. l \in Int /\ \A t \in Before(s) : t <= l BY <1>1
    <2> DEFINE S == Before(s)
    <2> HIDE DEF Before
    <2>3. S \subseteq Int /\ -1 \in S /\ \A t \in S : t <= l BY <2>1, <2>2
    <2> HIDE DEF S
    <2>4. Max(S) \in S /\ \A t \in S : t <= Max(S) BY <2>2, <2>3, GreatestBelow
    <2>5. Max(S) \in Int /\ Max(S) >= -1 BY <2>3, <2>4
    <2> QED BY <2>4, <2>5 DEF S
<1>4. Visited(p) = UNION {AfterFree(p, s) .. s - 1 : s \in B \cup {l}} BY DEF Visited, B
<1>5. ASSUME NEW i \in Visited(p) PROVE i \in (0 .. l - 1) \ B
    <2>1. PICK s \in B \cup {l} : i \in Max(Before(s)) + 1 .. s - 1 BY <1>2, <1>4
    <2> DEFINE m == Max(Before(s))
    <2>2. m \in Int /\ m >= -1 /\ \A t \in B : t < s => t <= m BY <1>3
    <2> HIDE DEF m
    <2>3. i \in m + 1 .. s - 1 BY <2>1 DEF m
    <2>4. s \in Int /\ s <= l BY <1>1
    <2>5. i \in Int /\ m < i /\ i < s BY <2>2, <2>3, <2>4
    <2>6. i \notin B
        <3> SUFFICES ASSUME i \in B PROVE FALSE OBVIOUS
        <3>1. i <= m BY <2>2, <2>5
        <3> QED BY <2>2, <2>5, <3>1
    <2>7. i \in 0 .. l - 1 BY <2>2, <2>4, <2>5
    <2> QED BY <2>6, <2>7
<1>6. ASSUME NEW i \in 0 .. l - 1, i \notin B PROVE i \in Visited(p)
    <2> DEFINE T == {s \in B \cup {l} : s > i}
               s == Min(T)
    <2>1. T \subseteq Int /\ l \in T /\ i \in Int /\ \A x \in T : i <= x
        <3>1. l \in T /\ i \in Int OBVIOUS
        <3>2. \A x \in T : x \in Int /\ x > i BY <1>1
        <3> HIDE DEF T
        <3> QED BY <3>1, <3>2
    <2>2. s \in T /\ \A x \in T : s <= x
        <3> HIDE DEF T
        <3> QED BY <2>1, LeastAbove
    <2> HIDE DEF s
    <2> DEFINE m == Max(Before(s))
    <2>3. s \in B \cup {l} /\ s > i /\ s \in Int BY <2>1, <2>2
    <2>4. m \in Int /\ m \in Before(s) BY <1>3, <2>3
    <2> HIDE DEF m
    <2>5. m < i
        <3>1. CASE m = -1 BY <3>1
        <3>2. CASE m \in B /\ m < s
            <4>1. m # i BY <1>6, <3>2
            <4>2. ~ (m > i)
                <5> SUFFICES ASSUME m > i PROVE FALSE OBVIOUS
                <5>1. m \in T BY <3>2
                <5>2. s <= m BY <5>1, <2>2
                <5> QED BY <5>2, <3>2, <2>3, <2>4
            <4> QED BY <4>1, <4>2, <2>4
        <3> QED BY <2>4, <3>1, <3>2
    <2>6. i \in m + 1 .. s - 1 BY <2>3, <2>4, <2>5
    <2> QED BY <1>2, <1>4, <2>3, <2>6 DEF m
<1> QED BY <1>5, <1>6 DEF B

\* The free bitmap that is built from the free indices has the bits it had.
LEMMA UnserializedIs ==
    ASSUME NEW p, NEW held, PoolFits(p, held)
    PROVE  /\ Unserialized(p).len = p.len /\ Unserialized(p).freeIndices = p.freeIndices
           /\ Bits(Unserialized(p).freeBitmap) = Bits(p.freeBitmap)
<1> DEFINE f == p.freeIndices
           n == Len(f)
           Bitmaps == Seq(SUBSET Positions)
           step == [i \in 1 .. n |-> [b \in Bitmaps |-> Ori(b, f[i])]]
<1>1. /\ p \in Pools /\ f \in Seq(Nat) /\ n \in Nat /\ DOMAIN f = 1 .. n
      /\ \A i \in 1 .. n : f[i] \in Nat /\ f[i] = p.freeIndices[i]
    BY LenProperties, ElementOfSeq DEF PoolFits, Pools
<1>2. Bits(p.freeBitmap) = ToSet(f) BY DEF PoolFits
<1>3. ToSet(f) = {f[i] : i \in 1 .. n} BY <1>1 DEF ToSet
<1> HIDE DEF f, n
<1>4. \A i \in 1 .. n : \A b \in Bitmaps :
          Ori(b, f[i]) \in Bitmaps /\ Bits(Ori(b, f[i])) = Bits(b) \cup {f[i]}
    BY <1>1, OriIs DEF Vector
<1>5. step \in [1 .. n -> [Bitmaps -> Bitmaps]] /\ \A i \in 1 .. n : \A b \in Bitmaps : step[i][b] = Ori(b, f[i])
    BY <1>4
<1>6. <<>> \in Bitmaps BY NoBits DEF Vector
<1> HIDE DEF step
<1>7. PICK g : UnlikeStepped(g, Bitmaps, <<>>, n, step)
    <2> HIDE DEF Bitmaps
    <2> QED BY <1>1, <1>5, <1>6, UnlikeSteps
<1>8. g \in [0 .. n -> Bitmaps] /\ g[0] = <<>> /\ \A i \in 1 .. n : g[i] = step[i][g[i - 1]]
    BY <1>7 DEF UnlikeStepped
<1>9. ASSUME NEW i \in 1 .. n
      PROVE  /\ i - 1 \in 0 .. n /\ g[i - 1] \in Bitmaps
             /\ g[i] = Ori(g[i - 1], f[i]) /\ Bits(g[i]) = Bits(g[i - 1]) \cup {f[i]}
    <2>1. i - 1 \in 0 .. n BY <1>1
    <2>2. g[i - 1] \in Bitmaps BY <2>1, <1>8
    <2> QED BY <2>1, <2>2, <1>4, <1>5, <1>8, ZenonT(30)
<1> DEFINE P == {k \in 0 .. n : Bits(g[k]) = {f[i] : i \in 1 .. k}}
<1>10. 0 \in P
    <2>1. {f[i] : i \in 1 .. 0} = {} OBVIOUS
    <2> QED BY <2>1, <1>1, <1>8, NoBits
<1>11. ASSUME NEW k \in 1 .. n, k - 1 \in P PROVE k \in P
    <2>1. Bits(g[k]) = {f[i] : i \in 1 .. k - 1} \cup {f[k]} BY <1>9, <1>11
    <2>2. \A i : i \in 1 .. k <=> i \in 1 .. k - 1 \/ i = k BY <1>1
    <2>3. {f[i] : i \in 1 .. k} = {f[i] : i \in 1 .. k - 1} \cup {f[k]} BY <2>2
    <2>4. k \in 0 .. n BY <1>1
    <2> QED BY <2>1, <2>3, <2>4
<1> HIDE DEF P
<1>12. 0 .. n \subseteq P BY <1>1, <1>10, <1>11, AllNumbersUpTo
<1>13. Bits(g[n]) = ToSet(f)
    <2>1. n \in P BY <1>1, <1>12
    <2> QED BY <2>1, <1>3 DEF P
<1> DEFINE Is(h) == h = [i \in 0 .. n |-> IF i = 0 THEN <<>> ELSE Ori(h[i - 1], f[i])]
           h == CHOOSE h : Is(h)
<1>14. Is(g)
    <2> DEFINE r == [i \in 0 .. n |-> IF i = 0 THEN <<>> ELSE Ori(g[i - 1], f[i])]
    <2>1. ASSUME NEW i \in 0 .. n PROVE g[i] = r[i]
        <3>1. CASE i = 0 BY <1>8, <3>1
        <3>2. CASE i # 0
            <4>1. i \in 1 .. n BY <1>1, <3>2
            <4> QED BY <1>9, <3>2, <4>1
        <3> QED BY <3>1, <3>2
    <2> HIDE DEF r
    <2>2. g = [i \in 0 .. n |-> g[i]] BY <1>8
    <2>3. r = [i \in 0 .. n |-> r[i]] BY DEF r
    <2>4. g = r BY <2>1, <2>2, <2>3
    <2> QED BY <2>4 DEF r
<1>15. Unserialized(p) = [p EXCEPT !.freeBitmap = h[n]] BY DEF Unserialized, n, f
<1>16. Is(h) BY <1>14
<1> HIDE DEF h
<1> DEFINE Q == {k \in 0 .. n : h[k] = g[k]}
<1>17. 0 \in Q
    <2>1. 0 \in 0 .. n BY <1>1
    <2>2. h[0] = <<>> BY <1>16, <2>1
    <2> QED BY <1>8, <2>1, <2>2
<1>18. ASSUME NEW k \in 1 .. n, k - 1 \in Q PROVE k \in Q
    <2>1. k \in 0 .. n /\ k # 0 BY <1>1
    <2>2. h[k - 1] = g[k - 1] BY <1>18
    <2>3. h[k] = Ori(h[k - 1], f[k]) BY <1>16, <2>1
    <2>4. h[k] = g[k] BY <1>9, <2>2, <2>3
    <2> QED BY <2>1, <2>4
<1> HIDE DEF Q
<1>19. 0 .. n \subseteq Q BY <1>1, <1>17, <1>18, AllNumbersUpTo
<1>20. n \in Q BY <1>1, <1>19
<1>21. h[n] = g[n] BY <1>20 DEF Q
<1> DEFINE q == Unserialized(p)
<1>22. q.len = p.len /\ q.freeIndices = p.freeIndices /\ q.freeBitmap = h[n]
    BY <1>1, <1>15 DEF Pools
<1> HIDE DEF q
<1>23. Bits(q.freeBitmap) = Bits(p.freeBitmap) BY <1>2, <1>13, <1>21, <1>22
<1> QED BY <1>22, <1>23 DEF q

\* What fits is sound.
LEMMA PoolFitsIsSound == PoolInv => PoolIsSound
<1> SUFFICES ASSUME PoolInv PROVE PoolIsSound OBVIOUS
<1> DEFINE B == Bits(pool.freeBitmap)
           all == 0 .. pool.len - 1
<1>1. /\ PoolFits(pool, inUse) /\ pool.len \in Nat /\ Vector(pool.freeBitmap)
      /\ B = ToSet(pool.freeIndices) /\ B \subseteq all /\ inUse = all \ B
    BY DEF PoolInv, PoolFits, Pools, Vector
<1>2. /\ Cardinality(B) = Len(pool.freeIndices)
      /\ pool.len - Len(pool.freeIndices) = Cardinality(inUse)
    BY <1>1, PoolCounts
<1>3. FreeTwoWays
    <2>1. all = inUse \cup ToSet(pool.freeIndices) /\ inUse \cap ToSet(pool.freeIndices) = {} BY <1>1
    <2> QED BY <1>1, <1>2, <2>1 DEF FreeTwoWays
<1>4. \A p : p.len = pool.len /\ Bits(p.freeBitmap) = B => Visited(p) = inUse
    BY <1>1, VisitedIs
<1>5. IterationVisitsInUse
    <2>1. ASSUME NEW i \in 0 .. pool.len PROVE ~ IsFree(pool, i) <=> i \in inUse
        <3>1. i \in Nat /\ (i \in all <=> ~ (i >= pool.len)) BY <1>1
        <3>2. BitmapGet(pool.freeBitmap, i) <=> i \in B BY <1>1, <3>1, BitsIs
        <3> QED BY <1>1, <3>1, <3>2 DEF IsFree
    <2>2. inUse \subseteq 0 .. pool.len BY <1>1
    <2>3. {i \in 0 .. pool.len : ~ IsFree(pool, i)} = inUse BY <2>1, <2>2
    <2>4. Visited(pool) = inUse BY <1>4
    <2> QED BY <1>2, <2>3, <2>4 DEF IterationVisitsInUse
<1>6. SerializedAlike
    <2> DEFINE p == Unserialized(pool)
    <2>1. p.len = pool.len /\ p.freeIndices = pool.freeIndices /\ Bits(p.freeBitmap) = B
        BY <1>1, UnserializedIs
    <2> HIDE DEF p
    <2>2. Visited(p) = inUse BY <1>4, <2>1
    <2> QED BY <2>1, <2>2 DEF SerializedAlike, p
<1> QED BY <1>3, <1>5, <1>6 DEF PoolIsSound

\* Bitmap and stack of a pool name the same free elements, each once,
\* iteration by regions visits what is in use, and a pool read back gives out
\* the same indices (pool.h, serialize.c), for every width of the bitmap's words
\* and every length of the pool.
THEOREM PoolSound == PoolSpec => []PoolIsSound
BY PoolInvariant, PoolFitsIsSound, PTL

-----------------------------------------------------------------------------
(* The sparse vector *)

\* How many of the numbers of V are below x: the place of x among them.
Rank(V, x) == Cardinality({y \in V : y < x})

\* Ranks grow with the numbers and stay below the number of members.
LEMMA Ranks ==
    ASSUME NEW V, IsFiniteSet(V), V \subseteq Nat, NEW x \in Nat
    PROVE  /\ Rank(V, x) \in Nat /\ Cardinality(V) \in Nat /\ Rank(V, x) <= Cardinality(V)
           /\ \A y \in V : y < x => Rank(V, y) < Rank(V, x)
           /\ x \in V => Rank(V, x) < Cardinality(V)
           /\ \A y \in Nat : y <= x => Rank(V, y) <= Rank(V, x)
<1> DEFINE Low(z) == {v \in V : v < z}
<1>1. \A z : IsFiniteSet(Low(z)) /\ Cardinality(Low(z)) \in Nat /\ Cardinality(Low(z)) <= Cardinality(V)
    <2> TAKE z
    <2>1. Low(z) \in SUBSET V OBVIOUS
    <2> HIDE DEF Low
    <2> QED BY <2>1, FS_Subset, FS_CardinalityType
<1>2. Cardinality(V) \in Nat BY FS_CardinalityType
<1>3. ASSUME NEW y \in V, y < x PROVE Cardinality(Low(y)) < Cardinality(Low(x))
    <2>1. Low(y) \cup {y} \in SUBSET Low(x) /\ y \notin Low(y)
        <3>1. y \in Nat OBVIOUS
        <3>2. \A v \in V : v \in Nat /\ (v < y => v < x) BY <1>3, <3>1
        <3>3. y \in Low(x) BY <1>3
        <3>4. Low(y) \subseteq Low(x) BY <3>2
        <3>5. ~ (y < y) BY <3>1
        <3>6. y \notin Low(y) BY <3>5
        <3> HIDE DEF Low
        <3> QED BY <3>3, <3>4, <3>6
    <2> HIDE DEF Low
    <2>2. Cardinality(Low(y) \cup {y}) = Cardinality(Low(y)) + 1 BY <1>1, <2>1, FS_AddElement
    <2>3. Cardinality(Low(y) \cup {y}) <= Cardinality(Low(x)) BY <1>1, <2>1, FS_Subset
    <2> QED BY <1>1, <2>2, <2>3
<1>4. ASSUME NEW y \in Nat, y <= x PROVE Cardinality(Low(y)) <= Cardinality(Low(x))
    <2>1. Low(y) \in SUBSET Low(x)
        <3>1. \A v \in V : v \in Nat /\ (v < y => v < x) BY <1>4
        <3> QED BY <3>1
    <2> HIDE DEF Low
    <2> QED BY <1>1, <2>1, FS_Subset
<1>5. ASSUME x \in V PROVE Cardinality(Low(x)) < Cardinality(V)
    <2>1. Low(x) \cup {x} \in SUBSET V BY <1>5
    <2>2. x \notin Low(x) OBVIOUS
    <2> HIDE DEF Low
    <2>3. Cardinality(Low(x) \cup {x}) = Cardinality(Low(x)) + 1 BY <1>1, <2>2, FS_AddElement
    <2>4. Cardinality(Low(x) \cup {x}) <= Cardinality(V) BY <2>1, FS_Subset
    <2> QED BY <1>1, <1>2, <2>3, <2>4
<1>6. \A z : Rank(V, z) = Cardinality(Low(z)) BY DEF Rank
<1> HIDE DEF Low
<1> QED BY <1>1, <1>2, <1>3, <1>4, <1>5, <1>6

\* One number more.
LEMMA RankWithOneMore ==
    ASSUME NEW V, IsFiniteSet(V), V \subseteq Nat, NEW s \in Nat, s \notin V
    PROVE  /\ Cardinality(V \cup {s}) = Cardinality(V) + 1
           /\ \A x \in Nat : Rank(V \cup {s}, x) = Rank(V, x) + (IF s < x THEN 1 ELSE 0)
<1>1. Cardinality(V \cup {s}) = Cardinality(V) + 1 BY FS_AddElement
<1>2. ASSUME NEW x \in Nat
      PROVE  Rank(V \cup {s}, x) = Rank(V, x) + (IF s < x THEN 1 ELSE 0)
    <2> DEFINE low == {y \in V : y < x}
               new == {y \in V \cup {s} : y < x}
    <2>1. low \in SUBSET V /\ s \notin low OBVIOUS
    <2>2. new = IF s < x THEN low \cup {s} ELSE low OBVIOUS
    <2>3. Rank(V, x) = Cardinality(low) /\ Rank(V \cup {s}, x) = Cardinality(new) BY DEF Rank
    <2> HIDE DEF low, new
    <2>4. IsFiniteSet(low) BY <2>1, FS_Subset
    <2>5. Cardinality(low) \in Nat BY <2>4, FS_CardinalityType
    <2>6. Cardinality(low \cup {s}) = Cardinality(low) + 1 BY <2>1, <2>4, FS_AddElement
    <2> QED BY <2>2, <2>3, <2>5, <2>6
<1> QED BY <1>1, <1>2

\* A sequence into which an element was inserted.
Inserted(new, S, seq, i, e) ==
    /\ new \in Seq(S) /\ Len(new) = Len(seq) + 1
    /\ \A j \in 1 .. Len(seq) + 1 :
           new[j] = IF j < i THEN seq[j] ELSE IF j = i THEN e ELSE seq[j - 1]

\* What inserting an element does to a sequence.
LEMMA InsertAtIs ==
    ASSUME NEW S, NEW seq \in Seq(S), NEW i \in 1 .. Len(seq) + 1, NEW e \in S
    PROVE  Inserted(InsertAt(seq, i, e), S, seq, i, e)
<1> DEFINE n == Len(seq)
           a == SubSeq(seq, 1, i - 1)
           c == SubSeq(seq, i, n)
           ab == a \o <<e>>
           t == ab \o c
<1>1. n \in Nat /\ i \in 1 .. n + 1 /\ \A j \in 1 .. n : seq[j] \in S BY LenProperties, ElementOfSeq
<1>2. InsertAt(seq, i, e) = t BY DEF InsertAt
<1> HIDE DEF n
<1>3. a \in Seq(S) /\ Len(a) = i - 1 /\ \A j \in 1 .. i - 1 : a[j] = seq[j]
    <2>1. i - 1 \in Int /\ 1 \in Int /\ \A j \in 1 .. i - 1 : seq[j] \in S BY <1>1
    <2>2. /\ a \in Seq(S) /\ Len(a) = (IF 1 <= i - 1 THEN i - 1 - 1 + 1 ELSE 0)
          /\ \A j \in 1 .. i - 1 - 1 + 1 : a[j] = seq[1 + j - 1]
        BY <2>1, SubSeqProperties
    <2>3. \A j \in 1 .. i - 1 : 1 + j - 1 = j /\ j \in 1 .. i - 1 - 1 + 1 BY <1>1
    <2> HIDE DEF a
    <2> QED BY <1>1, <2>2, <2>3
<1>4. c \in Seq(S) /\ Len(c) = n - i + 1 /\ \A j \in 1 .. n - i + 1 : c[j] = seq[i + j - 1]
    <2>1. n \in Int /\ i \in Int /\ \A j \in i .. n : seq[j] \in S BY <1>1
    <2>2. /\ c \in Seq(S) /\ Len(c) = (IF i <= n THEN n - i + 1 ELSE 0)
          /\ \A j \in 1 .. n - i + 1 : c[j] = seq[i + j - 1]
        BY <2>1, SubSeqProperties
    <2> HIDE DEF c
    <2> QED BY <1>1, <2>2
<1> HIDE DEF a, c
<1>5. <<e>> \in Seq(S) /\ Len(<<e>>) = 1 /\ <<e>>[1] = e OBVIOUS
<1>6. /\ ab \in Seq(S) /\ Len(ab) = i
      /\ \A j \in 1 .. i : ab[j] = IF j < i THEN seq[j] ELSE e
    <2> DEFINE b == <<e>>
    <2>1. b \in Seq(S) /\ Len(b) = 1 /\ b[1] = e BY <1>5
    <2>2. ab = a \o b OBVIOUS
    <2> HIDE DEF b, ab
    <2>3. /\ ab \in Seq(S) /\ Len(ab) = Len(a) + Len(b)
          /\ \A j \in 1 .. Len(a) + Len(b) : ab[j] = IF j <= Len(a) THEN a[j] ELSE b[j - Len(a)]
        BY <1>3, <2>1, <2>2, ConcatProperties
    <2>4. ASSUME NEW j \in 1 .. i PROVE ab[j] = IF j < i THEN seq[j] ELSE e
        <3>1. CASE j < i
            <4>1. j \in 1 .. i - 1 /\ j <= Len(a) /\ j \in 1 .. Len(a) + Len(b) BY <1>1, <1>3, <2>1, <3>1
            <4> QED BY <4>1, <1>3, <2>3, <3>1
        <3>2. CASE j = i
            <4>1. ~ (j <= Len(a)) /\ j - Len(a) = 1 /\ j \in 1 .. Len(a) + Len(b) BY <1>1, <1>3, <2>1, <3>2
            <4> QED BY <4>1, <2>1, <2>3, <3>2
        <3> QED BY <1>1, <3>1, <3>2
    <2> QED BY <1>1, <1>3, <2>1, <2>3, <2>4
<1> HIDE DEF ab
<1>7. /\ t \in Seq(S) /\ Len(t) = Len(ab) + Len(c)
      /\ \A j \in 1 .. Len(ab) + Len(c) : t[j] = IF j <= Len(ab) THEN ab[j] ELSE c[j - Len(ab)]
    BY <1>4, <1>6, ConcatProperties
<1> HIDE DEF t
<1>8. Len(ab) + Len(c) = n + 1 BY <1>1, <1>4, <1>6
<1>9. ASSUME NEW j \in 1 .. n + 1
      PROVE  t[j] = IF j < i THEN seq[j] ELSE IF j = i THEN e ELSE seq[j - 1]
    <2>1. CASE j <= i
        <3>1. j \in 1 .. i BY <2>1
        <3> QED BY <3>1, <2>1, <1>1, <1>6, <1>7, <1>8
    <2>2. CASE j > i
        <3>1. j - i \in 1 .. n - i + 1 /\ i + (j - i) - 1 = j - 1 BY <1>1, <2>2
        <3>2. t[j] = c[j - i] BY <2>2, <1>1, <1>6, <1>7, <1>8
        <3>3. c[j - i] = seq[j - 1] BY <3>1, <1>4
        <3> QED BY <3>2, <3>3, <2>2, <1>1
    <2> QED BY <1>1, <2>1, <2>2
<1>10. Inserted(t, S, seq, i, e) BY <1>7, <1>8, <1>9 DEF n, Inserted
<1> QED BY <1>2, <1>10

\* The elements of a sparse vector lie where their indices come in the set of
\* all; and the members in the words before are counted.
SparseFits(v, V) ==
    /\ V \subseteq SparseIndices /\ IsFiniteSet(V)
    /\ Vector(v.members) /\ Bits(v.members) = V
    /\ v.counts \in [1 .. SparseWords -> Nat]
    /\ \A k \in 1 .. SparseWords : v.counts[k] = Rank(V, (k - 1) * W)
    /\ v.vec \in Seq(Int) /\ Len(v.vec) = Cardinality(V) + 1
    /\ v.vec[1] = Infinity
    /\ \A s \in V : v.vec[2 + Rank(V, s)] = s
    /\ \A j \in 2 .. Len(v.vec) : v.vec[j] \in V /\ Rank(V, v.vec[j]) = j - 2

SparseInv == SparseFits(sparse, validated)

\* Every index has a word.
LEMMA Members ==
    /\ SparseWords \in Nat /\ W \in Nat \ {0} /\ SparseIndices \subseteq Nat
    /\ \A s \in SparseIndices : s \div W + 1 \in 1 .. SparseWords
<1>1. SparseWords \in Nat BY SparseVecAssumption, Zenon
<1>2. W \in Nat \ {0} BY BitmapAssumption
<1> DEFINE n == SparseWords * W
<1>3. n \in Nat BY <1>1, <1>2
<1>4. SparseIndices = 0 .. n - 1 BY DEF SparseIndices
<1> HIDE DEF n
<1>5. SparseIndices \subseteq Nat BY <1>3, <1>4
<1>6. ASSUME NEW s \in SparseIndices PROVE s \div W + 1 \in 1 .. SparseWords
    <2> DEFINE q == s \div W
               r == s % W
    <2>1. s \in Nat /\ s < n BY <1>3, <1>4
    <2>2. q \in Nat /\ r \in 0 .. W - 1 /\ s = W * q + r BY <2>1, Place DEF Positions
    <2> HIDE DEF q, r
    <2>3. W * q \in Int /\ W * SparseWords = n BY <1>1, <1>2, <2>2 DEF n
    <2>4. W * q < W * SparseWords
        <3> DEFINE x == W * q
                   y == W * SparseWords
        <3>1. x \in Int /\ y = n /\ s = x + r BY <2>2, <2>3
        <3> HIDE DEF x, y
        <3>2. x < y BY <3>1, <2>1, <2>2, <1>2, <1>3
        <3> QED BY <3>2 DEF x, y
    <2>5. q < SparseWords BY <1>1, <1>2, <2>2, <2>4, Monotone
    <2> QED BY <1>1, <2>2, <2>5 DEF q
<1> QED BY <1>1, <1>2, <1>5, <1>6

\* The numbers below s are those in the words before and those below it in its
\* own word, which is what sparse_vec_index adds up.
LEMMA BelowIsRank ==
    ASSUME NEW v, NEW V, SparseFits(v, V), NEW s \in SparseIndices
    PROVE  /\ Below(v, s) = Rank(V, s) /\ Below(v, s) \in Nat
           /\ Cardinality(Mask(v, s)) \in Nat /\ (Mask(v, s) = {} <=> Cardinality(Mask(v, s)) = 0)
           /\ v.counts[s \div W + 1] \in Nat
           /\ IsMember(v, s) <=> s \in V
<1> DEFINE k == s \div W
           r == s % W
           M == Mask(v, s)
           old == {y \in V : y < k * W}
           own == {y \in V : y < s /\ ~ (y < k * W)}
           low == {y \in V : y < s}
<1>1. /\ s \in Nat /\ k \in Nat /\ r \in Positions /\ s = W * k + r /\ W \in Nat \ {0}
      /\ k + 1 \in 1 .. SparseWords
    BY Members, Place
<1>2. /\ V \subseteq Nat /\ IsFiniteSet(V) /\ Vector(v.members) /\ Bits(v.members) = V
      /\ v.counts \in [1 .. SparseWords -> Nat]
      /\ \A j \in 1 .. SparseWords : v.counts[j] = Rank(V, (j - 1) * W)
    BY Members DEF SparseFits
<1>3. v.counts[k + 1] = Cardinality(old) /\ v.counts[k + 1] \in Nat
    <2>1. (k + 1) - 1 = k BY <1>1
    <2> QED BY <1>1, <1>2, <2>1 DEF Rank
<1>4. M \in SUBSET Positions /\ IsFiniteSet(M)
    <2>1. M \in SUBSET Positions BY <1>1, <1>2, Vectors DEF Mask
    <2>2. IsFiniteSet(Positions) BY <1>1, UpTo DEF Positions
    <2> QED BY <2>1, <2>2, FS_Subset
<1>5. M = {p \in Word(v.members, k) : p < r} BY DEF Mask
<1> HIDE DEF k, r, M
<1>6. \A y \in V : y \in Nat /\ (y % W \in Word(v.members, y \div W)) /\ y = W * (y \div W) + (y % W)
              /\ y \div W \in Nat /\ y % W \in 0 .. W - 1
    BY <1>2, BitsIs, Place DEF Positions
<1>7. ASSUME NEW y \in own PROVE y \div W = k /\ y % W \in M
    <2> DEFINE q == y \div W
               p == y % W
    <2>1. /\ y \in V /\ y \in Nat /\ y < s /\ ~ (y < k * W)
          /\ p \in Word(v.members, q) /\ y = W * q + p /\ q \in Nat /\ p \in 0 .. W - 1
        BY <1>2, <1>6
    <2> HIDE DEF q, p
    <2>2. q = k
        <3> DEFINE x == W * q
                   z == W * k
        <3>1. x \in Int /\ z \in Int /\ z = k * W /\ y = x + p /\ s = z + r BY <1>1, <2>1
        <3> HIDE DEF x, z
        <3>2. x <= z + W - 1 /\ z <= x + W - 1 BY <3>1, <1>1, <2>1 DEF Positions
        <3>3. ~ (x + W <= z) /\ ~ (z + W <= x) BY <3>1, <3>2, <1>1
        <3>4. ~ (q < k) /\ ~ (k < q) BY <3>3, <1>1, <2>1, Monotone DEF x, z
        <3> QED BY <3>4, <1>1, <2>1
    <2>3. p < r
        <3> DEFINE z == W * k
        <3>1. z \in Int /\ y = z + p /\ s = z + r BY <1>1, <2>1, <2>2
        <3> HIDE DEF z
        <3> QED BY <3>1, <1>1, <2>1 DEF Positions
    <2> QED BY <1>5, <2>1, <2>2, <2>3 DEF q, p
<1>8. ASSUME NEW p \in M PROVE k * W + p \in own /\ (k * W + p) % W = p
    <2> DEFINE y == k * W + p
    <2>1. p \in Positions /\ p \in Word(v.members, k) /\ p < r BY <1>4, <1>5
    <2>2. y \in Nat /\ y % W = p /\ y \div W = k BY <1>1, <2>1, PlaceIs
    <2>3. y \in V BY <1>2, <2>1, <2>2, BitsIs
    <2>4. y < s /\ ~ (y < k * W)
        <3> DEFINE z == W * k
        <3>1. z \in Int /\ k * W = z /\ s = z + r BY <1>1
        <3> HIDE DEF z
        <3>2. y = z + p BY <3>1
        <3> HIDE DEF y
        <3> QED BY <3>1, <3>2, <1>1, <2>1 DEF Positions
    <2> HIDE DEF y
    <2>5. y \in own BY <2>3, <2>4
    <2> QED BY <2>2, <2>5 DEF y
<1>9. low = old \cup own /\ old \cap own = {}
    <2>1. \A y \in V : y < k * W => y < s
        <3> TAKE y \in V
        <3> DEFINE z == k * W
        <3>1. z \in Int /\ s = z + r BY <1>1
        <3> HIDE DEF z
        <3> QED BY <3>1, <1>1, <1>2 DEF Positions
    <2> QED BY <2>1
<1>10. old \in SUBSET V /\ own \in SUBSET V /\ low \in SUBSET V OBVIOUS
<1> HIDE DEF own, old, low
<1>11. IsFiniteSet(old) /\ IsFiniteSet(own) /\ IsFiniteSet(low) BY <1>2, <1>10, FS_Subset
<1>12. Cardinality(own) = Cardinality(M)
    <2> DEFINE g == [p \in M |-> k * W + p]
    <2>1. g \in [M -> own] BY <1>8
    <2>2. \A p, q \in M : g[p] = g[q] => p = q BY <1>8
    <2>3. \A y \in own : \E p \in M : g[p] = y
        <3> TAKE y \in own
        <3>1. y % W \in M /\ y \div W = k BY <1>7
        <3>2. y \in V BY <1>10
        <3>3. y = W * k + (y % W) BY <1>6, <3>1, <3>2
        <3>4. W * k = k * W BY <1>1
        <3>5. y = k * W + (y % W) BY <3>3, <3>4
        <3> QED BY <3>1, <3>5
    <2> HIDE DEF g
    <2>4. g \in Bijection(M, own) BY <2>1, <2>2, <2>3 DEF Bijection, Injection, Surjection, IsInjective
    <2>5. ExistsBijection(M, own) BY <2>4 DEF ExistsBijection
    <2> QED BY <1>4, <2>5, FS_Bijection
<1>13. Cardinality(M) \in Nat /\ (M = {} <=> Cardinality(M) = 0)
    BY <1>4, FS_CardinalityType, FS_EmptySet
<1>14. Cardinality(low) = Cardinality(old) + Cardinality(M)
    <2>1. Cardinality(old \cup own) = Cardinality(old) + Cardinality(own) - Cardinality(old \cap own)
        BY <1>11, FS_Union
    <2>2. Cardinality(old \cap own) = 0 BY <1>9, FS_EmptySet
    <2>3. Cardinality(old) \in Nat BY <1>3
    <2> QED BY <1>9, <1>12, <1>13, <2>1, <2>2, <2>3
<1>15. Below(v, s) = v.counts[k + 1] + Cardinality(M) BY DEF Below, k, M
<1>16. Rank(V, s) = Cardinality(low) BY DEF Rank, low
<1>17. IsMember(v, s) <=> s \in V BY <1>1, <1>2, BitsIs DEF IsMember
<1> QED BY <1>3, <1>13, <1>14, <1>15, <1>16, <1>17 DEF k, M

\* Every validated index finds its element, others the invalid one, two at once
\* the same.
LEMMA SparseFitsFinds ==
    ASSUME NEW v, NEW V, SparseFits(v, V), NEW s \in SparseIndices
    PROVE  /\ s \in V => {j \in DOMAIN v.vec : v.vec[j] = s} = {1 + SparseIndex(v, s)}
           /\ s \notin V => SparseIndex(v, s) = Invalid
           /\ \A t \in V : SparseIndex2(v, s, t) = [x \in {s, t} |-> SparseIndex(v, x)]
<1> DEFINE n == Cardinality(V) + 1
<1>1. /\ V \subseteq SparseIndices /\ IsFiniteSet(V) /\ V \subseteq Nat /\ SparseIndices \subseteq Nat
      /\ v.vec \in Seq(Int) /\ Len(v.vec) = n /\ v.vec[1] = Infinity
      /\ \A x \in V : v.vec[2 + Rank(V, x)] = x
      /\ \A j \in 2 .. n : v.vec[j] \in V /\ Rank(V, v.vec[j]) = j - 2
    BY Members DEF SparseFits
<1>2. DOMAIN v.vec = 1 .. n /\ n \in Nat BY <1>1, LenProperties
<1>3. Below(v, s) = Rank(V, s) /\ Below(v, s) \in Nat /\ (IsMember(v, s) <=> s \in V)
    BY BelowIsRank
<1>4. SparseIndex(v, s) = IF s \in V THEN 1 + Rank(V, s) ELSE Invalid BY <1>3 DEF SparseIndex
<1>5. ASSUME s \in V PROVE {j \in DOMAIN v.vec : v.vec[j] = s} = {1 + SparseIndex(v, s)}
    <2> DEFINE r == Rank(V, s)
    <2>1. r \in Nat /\ r < n - 1 /\ n \in Nat
        <3>1. s \in Nat BY <1>1
        <3>2. r \in Nat /\ r < Cardinality(V) /\ Cardinality(V) \in Nat BY <1>1, <1>5, <3>1, Ranks
        <3> HIDE DEF r
        <3> QED BY <3>2
    <2> HIDE DEF r
    <2>2. 2 + r \in 1 .. n
        <3> HIDE DEF n
        <3> QED BY <2>1
    <2>3. v.vec[2 + r] = s BY <1>1, <1>5 DEF r
    <2>4. ASSUME NEW j \in 1 .. n, v.vec[j] = s PROVE j = 2 + r
        <3>1. j # 1
            <4>1. s # Infinity BY <1>1 DEF Infinity
            <4> QED BY <4>1, <2>4, <1>1
        <3>2. j \in 2 .. n BY <3>1, <1>2
        <3>3. Rank(V, v.vec[j]) = j - 2 BY <1>1, <3>2
        <3>4. r = j - 2 BY <2>4, <3>3 DEF r
        <3> QED BY <3>2, <3>4
    <2>5. SparseIndex(v, s) = 1 + r BY <1>4, <1>5 DEF r
    <2>6. 1 + SparseIndex(v, s) = 2 + r BY <2>1, <2>5
    <2> QED BY <1>2, <2>2, <2>3, <2>4, <2>6
<1>6. ASSUME NEW t \in V PROVE SparseIndex2(v, s, t) = [x \in {s, t} |-> SparseIndex(v, x)]
    <2> DEFINE Guess(x) == IF Mask(v, x) = {} THEN 0 ELSE 1
               wrong    == Cardinality(Mask(v, s)) > 1 \/ Cardinality(Mask(v, t)) > 1
               Index(x) == v.counts[x \div W + 1] + Guess(x)
                               + (IF wrong THEN Cardinality(Mask(v, x)) - Guess(x) ELSE 0)
    <2>1. ASSUME NEW x \in {s, t} PROVE Index(x) = Below(v, x)
        <3>1. x \in SparseIndices BY <1>1
        <3>2. /\ Cardinality(Mask(v, x)) \in Nat /\ (Mask(v, x) = {} <=> Cardinality(Mask(v, x)) = 0)
              /\ v.counts[x \div W + 1] \in Nat
            BY <3>1, BelowIsRank
        <3>3. Below(v, x) = v.counts[x \div W + 1] + Cardinality(Mask(v, x)) BY DEF Below
        <3> DEFINE c == Cardinality(Mask(v, x))
                   o == v.counts[x \div W + 1]
        <3>4. ~ wrong => ~ (c > 1) OBVIOUS
        <3>5. c \in Nat /\ o \in Nat /\ Guess(x) = IF c = 0 THEN 0 ELSE 1 BY <3>2
        <3>6. Index(x) = o + Guess(x) + (IF wrong THEN c - Guess(x) ELSE 0) OBVIOUS
        <3>7. Below(v, x) = o + c BY <3>3
        <3> DEFINE g == Guess(x)
        <3> HIDE DEF c, o, wrong, g
        <3>8. g = (IF c = 0 THEN 0 ELSE 1) /\ Index(x) = o + g + (IF wrong THEN c - g ELSE 0)
            BY <3>5, <3>6 DEF g
        <3> HIDE DEF Index, Guess
        <3> QED BY <3>4, <3>5, <3>7, <3>8
    <2>2. SparseIndex2(v, s, t) = [x \in {s, t} |-> IF IsMember(v, x) THEN 1 + Index(x) ELSE Invalid]
        BY DEF SparseIndex2
    <2> HIDE DEF Index
    <2>3. \A x \in {s, t} : SparseIndex(v, x) = IF IsMember(v, x) THEN 1 + Index(x) ELSE Invalid
        BY <2>1 DEF SparseIndex
    <2> QED BY <2>2, <2>3
<1> QED BY <1>4, <1>5, <1>6

\* The empty vector.
LEMMA SparseBegins == SparseFits(SparseNew, {})
<1> DEFINE v == SparseNew
           c == [k \in 1 .. SparseWords |-> 0]
           m == [k \in 1 .. SparseWords |-> {}]
<1>1. v.members = m /\ v.counts = c /\ v.vec = <<Infinity>> BY DEF SparseNew
<1>2. SparseWords \in Nat BY Members
<1>3. m \in Seq(SUBSET Positions) /\ Len(m) = SparseWords /\ \A k \in 1 .. SparseWords : m[k] = {}
    BY <1>2
<1>4. c \in [1 .. SparseWords -> Nat] /\ \A k \in 1 .. SparseWords : c[k] = 0 OBVIOUS
<1> HIDE DEF v, m, c
<1>5. ASSUME NEW k \in Nat PROVE Word(m, k) = {}
    <2>1. k < Len(m) => k + 1 \in 1 .. SparseWords BY <1>2, <1>3
    <2> QED BY <1>3, <2>1 DEF Word
<1>6. Vector(m) BY <1>3 DEF Vector
<1>7. ASSUME NEW i \in Nat PROVE i \notin Bits(m)
    <2>1. Word(m, i \div W) = {} BY <1>5, Place
    <2> QED BY <1>6, <2>1, BitsIs
<1>8. Bits(m) = {} BY <1>6, <1>7, BitsIs
<1>9. \A x : Rank({}, x) = 0
    <2> TAKE x
    <2>1. {y \in {} : y < x} = {} OBVIOUS
    <2> QED BY <2>1, FS_EmptySet DEF Rank
<1>10. v.vec \in Seq(Int) /\ Len(v.vec) = 1 /\ v.vec[1] = Infinity BY <1>1 DEF Infinity
<1>11. IsFiniteSet({}) /\ Cardinality({}) = 0 BY FS_EmptySet
<1>12. \A j \in 2 .. Len(v.vec) : v.vec[j] \in {} /\ Rank({}, v.vec[j]) = j - 2
    <2>1. 2 .. Len(v.vec) = {} BY <1>10
    <2> QED BY <2>1
<1>13. Len(v.vec) = Cardinality({}) + 1 BY <1>10, <1>11
<1>14. \A k \in 1 .. SparseWords : v.counts[k] = Rank({}, (k - 1) * W) BY <1>1, <1>4, <1>9
<1>15. SparseFits(v, {}) BY <1>1, <1>4, <1>6, <1>8, <1>10, <1>11, <1>12, <1>13, <1>14 DEF SparseFits
<1> QED BY <1>15 DEF v

\* A number lies below the first of word k just when its word is before k.
LEMMA WordsBefore ==
    ASSUME NEW s \in Nat, NEW k \in Nat
    PROVE  s < k * W <=> s \div W < k
<1> DEFINE q == s \div W
           r == s % W
           x == W * q
           z == W * k
<1>1. q \in Nat /\ r \in 0 .. W - 1 /\ s = W * q + r /\ W \in Nat \ {0} BY Place DEF Positions
<1> HIDE DEF q, r
<1>2. x \in Int /\ z \in Int /\ z = k * W /\ s = x + r BY <1>1
<1>3. (q < k <=> x + W <= z) /\ (k <= q <=> z <= x) BY <1>1, Monotone
<1> HIDE DEF x, z
<1>4. s < z <=> q < k BY <1>1, <1>2, <1>3
<1> QED BY <1>2, <1>4 DEF q

\* An index that was not a member is validated.
LEMMA SparseFitsOneMore ==
    ASSUME NEW v, NEW V, SparseFits(v, V), NEW s \in SparseIndices, s \notin V
    PROVE  SparseFits([members |-> Ori(v.members, s), counts |-> Counted(v, s),
                       vec |-> InsertAt(v.vec, 2 + Below(v, s), s)], V \cup {s})
<1> DEFINE r == Rank(V, s)
           n == Cardinality(V)
           U == V \cup {s}
           m == Ori(v.members, s)
           c == Counted(v, s)
           t == InsertAt(v.vec, 2 + Below(v, s), s)
           u == [members |-> m, counts |-> c, vec |-> t]
<1>1. /\ V \subseteq SparseIndices /\ IsFiniteSet(V) /\ V \subseteq Nat /\ s \in Nat /\ s \in Int
      /\ Vector(v.members) /\ Bits(v.members) = V
      /\ v.vec \in Seq(Int) /\ Len(v.vec) = n + 1 /\ v.vec[1] = Infinity
      /\ \A x \in V : v.vec[2 + Rank(V, x)] = x
      /\ \A j \in 2 .. n + 1 : v.vec[j] \in V /\ Rank(V, v.vec[j]) = j - 2
    <2>1. /\ V \subseteq SparseIndices /\ IsFiniteSet(V)
          /\ Vector(v.members) /\ Bits(v.members) = V
          /\ v.vec \in Seq(Int) /\ Len(v.vec) = n + 1 /\ v.vec[1] = Infinity
          /\ \A x \in V : v.vec[2 + Rank(V, x)] = x
          /\ \A j \in 2 .. Len(v.vec) : v.vec[j] \in V /\ Rank(V, v.vec[j]) = j - 2
        BY DEF SparseFits
    <2> HIDE DEF n
    <2>2. s \in Nat /\ s \in Int /\ V \subseteq Nat BY <2>1, Members
    <2> QED BY <2>1, <2>2
<1>2. /\ v.counts \in [1 .. SparseWords -> Nat]
      /\ \A k \in 1 .. SparseWords : v.counts[k] = Rank(V, (k - 1) * W)
    BY DEF SparseFits
<1>3. Below(v, s) = r BY BelowIsRank
<1>4. r \in Nat /\ n \in Nat /\ r <= n BY <1>1, Ranks
<1>5. /\ Cardinality(U) = n + 1
      /\ \A x \in Nat : Rank(U, x) = Rank(V, x) + (IF s < x THEN 1 ELSE 0)
    BY <1>1, RankWithOneMore
<1>6. IsFiniteSet(U) BY <1>1, FS_AddElement
<1>7. U \subseteq SparseIndices BY <1>1
<1>8. Vector(m) /\ Bits(m) = U BY <1>1, OriIs
<1>9. /\ c \in [1 .. SparseWords -> Nat]
      /\ \A k \in 1 .. SparseWords : c[k] = Rank(U, (k - 1) * W)
    <2>1. c = [k \in 1 .. SparseWords |-> v.counts[k] + (IF k > s \div W + 1 THEN 1 ELSE 0)]
        BY DEF Counted
    <2>2. ASSUME NEW k \in 1 .. SparseWords
          PROVE  c[k] \in Nat /\ c[k] = Rank(U, (k - 1) * W)
        <3>1. k - 1 \in Nat /\ W \in Nat /\ s \div W \in Nat
            <4>1. k - 1 \in Nat BY Members
            <4>2. W \in Nat /\ s \div W \in Nat BY <1>1, Place
            <4> QED BY <4>1, <4>2
        <3>2. (k - 1) * W \in Nat BY <3>1
        <3>3. s < (k - 1) * W <=> s \div W < k - 1 BY <1>1, <3>1, WordsBefore
        <3> DEFINE z == (k - 1) * W
                   q == s \div W
        <3>4. Rank(U, z) = Rank(V, z) + (IF q < k - 1 THEN 1 ELSE 0) BY <1>5, <3>2, <3>3
        <3>5. c[k] = v.counts[k] + (IF k > q + 1 THEN 1 ELSE 0) BY <2>1
        <3>6. v.counts[k] = Rank(V, z) /\ v.counts[k] \in Nat BY <1>2
        <3>7. q \in Nat BY <3>1
        <3> HIDE DEF z, q, c
        <3>8. k > q + 1 <=> q < k - 1 BY <3>7
        <3>9. c[k] \in Nat /\ c[k] = Rank(U, z) BY <3>4, <3>5, <3>6, <3>8
        <3> QED BY <3>9 DEF z
    <2>3. c = [k \in 1 .. SparseWords |-> c[k]] BY <2>1
    <2> QED BY <2>2, <2>3
<1> HIDE DEF r, n, U, m, c
<1>10. /\ t \in Seq(Int) /\ Len(t) = n + 2
       /\ \A j \in 1 .. n + 2 : t[j] = IF j < 2 + r THEN v.vec[j]
                                       ELSE IF j = 2 + r THEN s ELSE v.vec[j - 1]
    <2> DEFINE i == 2 + r
    <2>1. i \in 1 .. Len(v.vec) + 1 BY <1>1, <1>4
    <2>2. t = InsertAt(v.vec, i, s) BY <1>3
    <2> HIDE DEF t, i
    <2>3. /\ t \in Seq(Int) /\ Len(t) = Len(v.vec) + 1
          /\ \A j \in 1 .. Len(v.vec) + 1 :
                 t[j] = IF j < i THEN v.vec[j] ELSE IF j = i THEN s ELSE v.vec[j - 1]
        <3> DEFINE e == v.vec
        <3>1. e \in Seq(Int) /\ i \in 1 .. Len(e) + 1 /\ s \in Int /\ t = InsertAt(e, i, s)
            BY <1>1, <2>1, <2>2
        <3> HIDE DEF e
        <3>2. Inserted(InsertAt(e, i, s), Int, e, i, s) BY <3>1, InsertAtIs
        <3>3. Inserted(t, Int, e, i, s) BY <3>1, <3>2
        <3> QED BY <3>3 DEF Inserted, e
    <2>4. Len(v.vec) + 1 = n + 2 BY <1>1, <1>4
    <2> QED BY <2>3, <2>4 DEF i
<1> HIDE DEF t
<1>11. t[1] = Infinity
    <2>1. 1 \in 1 .. n + 2 /\ 1 < 2 + r BY <1>4
    <2> QED BY <1>1, <1>10, <2>1
<1>12. ASSUME NEW x \in Nat
       PROVE Rank(V, x) \in Nat /\ (x <= s => Rank(V, x) <= r) /\ (s <= x => r <= Rank(V, x))
             /\ (x \in V => (x < s => Rank(V, x) < r) /\ Rank(V, x) < n)
    BY <1>1, Ranks DEF r, n
<1>13. ASSUME NEW x \in U PROVE t[2 + Rank(U, x)] = x
    <2>1. CASE x = s
        <3>1. Rank(U, s) = r
            <4>1. ~ (s < s) BY <1>1
            <4> QED BY <1>1, <1>4, <1>5, <4>1 DEF r
        <3>2. 2 + r \in 1 .. n + 2 BY <1>4
        <3>3. t[2 + r] = s BY <1>10, <3>2
        <3> QED BY <2>1, <3>1, <3>3
    <2>2. CASE x \in V /\ x < s
        <3> DEFINE p == Rank(V, x)
        <3>1. x \in Nat /\ p \in Nat /\ p < r /\ ~ (s < x) BY <1>1, <1>12, <2>2
        <3>2. Rank(U, x) = p BY <1>5, <3>1
        <3>3. v.vec[2 + p] = x BY <1>1, <2>2
        <3> HIDE DEF p
        <3>4. 2 + p \in 1 .. n + 2 /\ 2 + p < 2 + r BY <1>4, <3>1
        <3>5. t[2 + p] = x BY <1>10, <3>3, <3>4
        <3> QED BY <3>2, <3>5
    <2>3. CASE x \in V /\ s < x
        <3> DEFINE p == Rank(V, x)
        <3>1. x \in Nat /\ p \in Nat /\ r <= p /\ p < n BY <1>1, <1>12, <2>3
        <3>2. Rank(U, x) = p + 1 BY <1>5, <2>3, <3>1
        <3>3. v.vec[2 + p] = x BY <1>1, <2>3
        <3> HIDE DEF p
        <3> DEFINE j == 3 + p
        <3>4. j \in 1 .. n + 2 /\ ~ (j < 2 + r) /\ j # 2 + r /\ j - 1 = 2 + p /\ 2 + (p + 1) = j
            BY <1>4, <3>1
        <3> HIDE DEF j
        <3>5. t[j] = x BY <1>10, <3>3, <3>4
        <3> QED BY <3>2, <3>4, <3>5
    <2>4. x = s \/ (x \in V /\ x \in Nat) BY <1>1 DEF U
    <2> QED BY <1>1, <2>1, <2>2, <2>3, <2>4
<1>14. ASSUME NEW j \in 2 .. n + 2 PROVE t[j] \in U /\ Rank(U, t[j]) = j - 2
    <2>0. j \in 1 .. n + 2 BY <1>4
    <2>1. CASE j < 2 + r
        <3> DEFINE x == v.vec[j]
        <3>1. j \in 2 .. n + 1 /\ t[j] = x BY <1>4, <1>10, <2>0, <2>1
        <3>2. x \in V /\ Rank(V, x) = j - 2 BY <1>1, <3>1
        <3> HIDE DEF x
        <3>3. x \in Nat /\ Rank(V, x) < r BY <1>1, <1>4, <2>1, <3>2
        <3>4. ~ (s < x)
            <4> SUFFICES ASSUME s <= x PROVE FALSE BY <1>1, <3>3
            <4>1. r <= Rank(V, x) BY <1>12, <3>3
            <4> QED BY <4>1, <3>2, <3>3, <1>4
        <3>5. Rank(U, x) = j - 2 BY <1>5, <3>2, <3>3, <3>4
        <3> QED BY <3>1, <3>2, <3>5 DEF U
    <2>2. CASE j = 2 + r
        <3>1. t[j] = s BY <1>10, <2>0, <2>2
        <3>2. Rank(U, s) = r
            <4>1. ~ (s < s) BY <1>1
            <4> QED BY <1>1, <1>4, <1>5, <4>1 DEF r
        <3>3. r = j - 2 BY <1>4, <2>2
        <3> QED BY <3>1, <3>2, <3>3 DEF U
    <2>3. CASE j > 2 + r
        <3> DEFINE x == v.vec[j - 1]
        <3>1. j - 1 \in 2 .. n + 1 /\ t[j] = x BY <1>4, <1>10, <2>0, <2>3
        <3>2. x \in V /\ Rank(V, x) = (j - 1) - 2 BY <1>1, <3>1
        <3> HIDE DEF x
        <3>3. x \in Nat /\ r <= Rank(V, x) BY <1>1, <1>4, <2>3, <3>2
        <3>4. s < x
            <4>1. x # s BY <1>1, <3>2
            <4>2. ~ (x < s)
                <5> SUFFICES ASSUME x < s PROVE FALSE OBVIOUS
                <5>1. Rank(V, x) < r BY <1>12, <3>2, <3>3
                <5> QED BY <5>1, <3>2, <3>3, <1>4
            <4> QED BY <1>1, <3>3, <4>1, <4>2
        <3>5. Rank(U, x) = j - 2 BY <1>5, <3>2, <3>3, <3>4
        <3> QED BY <3>1, <3>2, <3>5 DEF U
    <2> QED BY <1>4, <2>1, <2>2, <2>3
<1>15. u.members = m /\ u.counts = c /\ u.vec = t OBVIOUS
<1> HIDE DEF u
<1>16. Len(t) = Cardinality(U) + 1 BY <1>4, <1>5, <1>10
<1>17. SparseFits(u, U)
    BY <1>5, <1>6, <1>7, <1>8, <1>9, <1>10, <1>11, <1>13, <1>14, <1>15, <1>16 DEF SparseFits
<1> QED BY <1>17 DEF u, U, m, c, t

\* The invariant holds for ever.
LEMMA SparseInvariant == SparseSpec => []SparseInv
<1>1. SparseInit => SparseInv BY SparseBegins DEF SparseInit, SparseInv
<1>2. SparseInv /\ [SparseNext]_sparseVars => SparseInv'
    <2> SUFFICES ASSUME SparseInv, [SparseNext]_sparseVars PROVE SparseInv' OBVIOUS
    <2>1. ASSUME NEW s \in SparseIndices, SparseValidate(s) PROVE SparseInv'
        <3>1. IsMember(sparse, s) <=> s \in validated BY BelowIsRank DEF SparseInv
        <3>2. CASE s \in validated
            <4>1. sparse' = sparse /\ validated' = validated BY <2>1, <3>1, <3>2 DEF SparseValidate
            <4> QED BY <4>1 DEF SparseInv
        <3>3. CASE s \notin validated
            <4>1. /\ validated' = validated \cup {s}
                  /\ sparse' = [members |-> Ori(sparse.members, s), counts |-> Counted(sparse, s),
                                vec |-> InsertAt(sparse.vec, 2 + Below(sparse, s), s)]
                BY <2>1, <3>1, <3>3 DEF SparseValidate
            <4>2. SparseFits([members |-> Ori(sparse.members, s), counts |-> Counted(sparse, s),
                              vec |-> InsertAt(sparse.vec, 2 + Below(sparse, s), s)], validated \cup {s})
                BY <3>3, SparseFitsOneMore DEF SparseInv
            <4> QED BY <4>1, <4>2, Zenon DEF SparseInv
        <3> QED BY <3>2, <3>3
    <2>2. CASE UNCHANGED sparseVars BY <2>2 DEF sparseVars, SparseInv
    <2> QED BY <2>1, <2>2 DEF SparseNext
<1> QED BY <1>1, <1>2, PTL DEF SparseSpec

\* However the indices of a sparse vector come, each finds its own element
\* behind those that moved, others find the invalid one, and two looked for at
\* once are the two looked for alone (sparse_vec.h), for every number and every
\* width of the words of its bitmap.
THEOREM SparseFinds == SparseSpec => []SparseFindsOwn
<1>1. SparseInv => SparseFindsOwn
    <2> SUFFICES ASSUME SparseInv PROVE SparseFindsOwn OBVIOUS
    <2>1. SparseFits(sparse, validated) BY DEF SparseInv
    <2>2. Len(sparse.vec) = 1 + Cardinality(validated)
        <3>1. IsFiniteSet(validated) /\ Len(sparse.vec) = Cardinality(validated) + 1
            BY <2>1 DEF SparseFits
        <3>2. Cardinality(validated) \in Nat BY <3>1, FS_CardinalityType
        <3> QED BY <3>1, <3>2
    <2>3. ASSUME NEW s \in SparseIndices
          PROVE  /\ IF s \in validated
                    THEN {j \in DOMAIN sparse.vec : sparse.vec[j] = s} = {1 + SparseIndex(sparse, s)}
                    ELSE SparseIndex(sparse, s) = Invalid
                 /\ \A t \in validated :
                        SparseIndex2(sparse, s, t) = [x \in {s, t} |-> SparseIndex(sparse, x)]
        <3>1. /\ s \in validated =>
                     {j \in DOMAIN sparse.vec : sparse.vec[j] = s} = {1 + SparseIndex(sparse, s)}
              /\ s \notin validated => SparseIndex(sparse, s) = Invalid
              /\ \A t \in validated :
                     SparseIndex2(sparse, s, t) = [x \in {s, t} |-> SparseIndex(sparse, x)]
            BY <2>1, SparseFitsFinds
        <3> QED BY <3>1, Zenon
    <2> QED BY <2>2, <2>3, Zenon DEF SparseFindsOwn
<1> QED BY <1>1, SparseInvariant, PTL

-----------------------------------------------------------------------------
(* The bitmap: changes *)

\* Where the number lies that is x above i, for x less than a word's width.
LEMMA Offset ==
    ASSUME NEW i \in Nat, NEW x \in 0 .. W - 1
    PROVE  /\ i + x \in Nat
           /\ (i % W) + x < W => (i + x) \div W = i \div W /\ (i + x) % W = (i % W) + x
           /\ (i % W) + x >= W => (i + x) \div W = i \div W + 1 /\ (i + x) % W = (i % W) + x - W
<1> DEFINE k == i \div W
           o == i % W
<1>1. k \in Nat /\ o \in 0 .. W - 1 /\ i = W * k + o /\ W \in Nat \ {0} BY Place DEF Positions
<1> HIDE DEF k, o
<1>2. i + x \in Int /\ i + x \in Nat BY <1>1
<1>3. W * k \in Int /\ W * (k + 1) = W * k + W BY <1>1
<1>4. CASE o + x < W
    <2>1. o + x \in 0 .. W - 1 /\ i + x = W * k + (o + x) BY <1>1, <1>3, <1>4
    <2>2. (i + x) % W = o + x /\ (i + x) \div W = k BY <1>1, <1>2, <2>1, DivModIs
    <2> QED BY <1>1, <1>2, <1>4, <2>2 DEF k, o
<1>5. CASE o + x >= W
    <2> DEFINE r == o + x - W
               q == k + 1
               a == i + x
    <2>1. r \in 0 .. W - 1 /\ a = W * q + r /\ q \in Int /\ a \in Int
        BY <1>1, <1>2, <1>3, <1>5
    <2> HIDE DEF r, q, a
    <2>2. a % W = r /\ a \div W = q BY <1>1, <2>1, DivModIs
    <2> QED BY <1>1, <1>2, <1>5, <2>2 DEF k, o, r, q, a
<1> QED BY <1>1, <1>4, <1>5

\* The numbers j of a region of up to W from i on, in one word or two.
InRegion(j, i, n) ==
    \/ j \div W = i \div W /\ (j % W) \in i % W .. (i % W) + n - 1 /\ j = i + ((j % W) - (i % W))
    \/ j \div W = i \div W + 1 /\ (j % W) \in 0 .. n - (W - (i % W)) - 1
           /\ j = i + (W + (j % W) - (i % W))

\* A region of up to a word's width lies in the word it begins in and the next.
LEMMA Regions ==
    ASSUME NEW i \in Nat, NEW j \in Nat, NEW n \in 0 .. W
    PROVE  /\ j \in i .. i + n - 1 <=> InRegion(j, i, n)
           /\ j \div W = i \div W => j - i = (j % W) - (i % W)
           /\ j \div W = i \div W + 1 => j - i = W + (j % W) - (i % W)
<1> DEFINE k == i \div W
           o == i % W
           q == j \div W
           p == j % W
<1>1. /\ k \in Nat /\ o \in 0 .. W - 1 /\ i = W * k + o /\ W \in Nat \ {0}
      /\ q \in Nat /\ p \in 0 .. W - 1 /\ j = W * q + p
    BY Place DEF Positions
<1>2. W * k \in Int /\ W * (k + 1) = W * k + W BY <1>1
<1> DEFINE In == InRegion(j, i, n)
<1>0. In <=> \/ q = k /\ p \in o .. o + n - 1 /\ j = i + (p - o)
             \/ q = k + 1 /\ p \in 0 .. n - (W - o) - 1 /\ j = i + (W + p - o)
    BY Zenon DEF InRegion
<1> HIDE DEF k, o, q, p, In
<1>3. q = k => j - i = p - o
    <2> SUFFICES ASSUME q = k PROVE j - i = p - o OBVIOUS
    <2> DEFINE x == W * k
    <2>1. j = x + p /\ i = x + o /\ x \in Int BY <1>1, <1>2
    <2> HIDE DEF x
    <2> QED BY <1>1, <2>1
<1>4. q = k + 1 => j - i = W + p - o
    <2> SUFFICES ASSUME q = k + 1 PROVE j - i = W + p - o OBVIOUS
    <2> DEFINE x == W * k
    <2>1. j = x + W + p /\ i = x + o /\ x \in Int BY <1>1, <1>2
    <2> HIDE DEF x
    <2> QED BY <1>1, <2>1
<1>5. ASSUME j \in i .. i + n - 1 PROVE q = k \/ q = k + 1
    <2> DEFINE x == j - i
    <2>1. x \in 0 .. W - 1 /\ i + x = j BY <1>1, <1>5
    <2> HIDE DEF x
    <2>2. (i + x) \div W = k \/ (i + x) \div W = k + 1
        <3>1. o + x < W \/ o + x >= W BY <1>1, <2>1
        <3> QED BY <2>1, <3>1, Offset DEF k, o
    <2> QED BY <2>1, <2>2 DEF q
<1>6. CASE q = k
    <2>1. j \in i .. i + n - 1 <=> p \in o .. o + n - 1 BY <1>1, <1>3, <1>6
    <2>2. j = i + (p - o) /\ ~ (q = k + 1) BY <1>1, <1>3, <1>6
    <2>3. j \in i .. i + n - 1 <=> In BY <1>0, <1>6, <2>1, <2>2
    <2> QED BY <1>3, <1>4, <2>3, Zenon DEF k, o, q, p, In
<1>7. CASE q = k + 1
    <2>1. j \in i .. i + n - 1 <=> p \in 0 .. n - (W - o) - 1 BY <1>1, <1>4, <1>7
    <2>2. j = i + (W + p - o) /\ ~ (q = k) BY <1>1, <1>4, <1>7
    <2>3. j \in i .. i + n - 1 <=> In BY <1>0, <1>7, <2>1, <2>2
    <2> QED BY <1>3, <1>4, <2>3, Zenon DEF k, o, q, p, In
<1>8. CASE q # k /\ q # k + 1
    <2>1. ~ (j \in i .. i + n - 1) BY <1>5, <1>8
    <2>2. ~ In BY <1>0, <1>8
    <2> QED BY <1>8, <2>1, <2>2 DEF k, q, In
<1> QED BY <1>6, <1>7, <1>8

\* What is known of a bitmap that should hold the set given.
Holds(b, s) == Vector(b) /\ Bits(b) = s

BitmapInv == Holds(bitmap, bits)

\* A bitmap holds the set whose numbers are known by their words.
LEMMA HoldsIf ==
    ASSUME NEW b, Vector(b), NEW s, s \subseteq Nat, \A j \in Nat : j \in Bits(b) <=> j \in s
    PROVE  Holds(b, s)
<1>1. Bits(b) \subseteq Nat BY BitsIs
<1> QED BY <1>1 DEF Holds

\* The word of one number is changed.
LEMMA PutHolds ==
    ASSUME NEW b, Vector(b), NEW i \in Nat, NEW word \in SUBSET Positions,
           NEW s \in SUBSET Nat,
           \A j \in Nat : j \in s <=> IF j \div W = i \div W THEN (j % W) \in word ELSE j \in Bits(b)
    PROVE  Holds(Put(b, i \div W, word), s) /\ Holds(PutTrimmed(b, i \div W, word), s)
<1> DEFINE k == i \div W
           x == Put(b, k, word)
           y == PutTrimmed(b, k, word)
<1>1. k \in Nat BY Place
<1> HIDE DEF k
<1>2. WordChanged(x, b, k, word) BY <1>1, PutIs
<1>3. WordChanged(y, b, k, word) BY <1>1, PutTrimmedIs
<1> HIDE DEF x, y
<1>4. \A j \in Nat : j \in s <=> IF j \div W = k THEN (j % W) \in word ELSE j \in Bits(b) BY DEF k
<1>5. Holds(x, s)
    <2>1. Vector(x) /\ \A j \in Nat : j \in Bits(x) <=> IF j \div W = k THEN (j % W) \in word ELSE j \in Bits(b)
        BY <1>1, <1>2, BitsChanged
    <2>2. \A j \in Nat : j \in Bits(x) <=> j \in s BY <1>4, <2>1
    <2> QED BY <2>1, <2>2, HoldsIf
<1>6. Holds(y, s)
    <2>1. Vector(y) /\ \A j \in Nat : j \in Bits(y) <=> IF j \div W = k THEN (j % W) \in word ELSE j \in Bits(b)
        BY <1>1, <1>3, BitsChanged
    <2>2. \A j \in Nat : j \in Bits(y) <=> j \in s BY <1>4, <2>1
    <2> QED BY <2>1, <2>2, HoldsIf
<1> QED BY <1>5, <1>6 DEF x, y, k

\* Setting and clearing a bit, and the functions of one bit.
LEMMA OneBit ==
    ASSUME NEW b, NEW s, Holds(b, s), NEW i \in Nat, NEW value \in BOOLEAN
    PROVE  /\ Holds(BitmapSet(b, i, value), IF value THEN s \cup {i} ELSE s \ {i})
           /\ Holds(Ori(b, i), s \cup {i})
           /\ Holds(Andnoti(b, i), s \ {i})
           /\ Holds(Xori(b, i), SymDiff(s, {i}))
           /\ Holds(Andi(b, i), {j \in s : j = i \/ j \div W # i \div W})
<1> DEFINE k == i \div W
           p == i % W
           word == Word(b, k)
<1>1. Vector(b) /\ Bits(b) = s /\ s \subseteq Nat
      /\ \A j \in Nat : j \in s <=> (j % W) \in Word(b, j \div W)
    BY BitsIs DEF Holds
<1>2. k \in Nat /\ p \in Positions BY Place
<1>3. word \in SUBSET Positions BY <1>1, <1>2, Vectors
<1>4. \A j \in Nat : j \div W = k /\ (j % W) = p <=> j = i BY SamePlace
<1>5. \A j \in Nat : j \div W = k => (j \in s <=> (j % W) \in word) BY <1>1
<1> HIDE DEF word
<1>6. Holds(Put(b, k, word \cup {p}), s \cup {i}) /\ Holds(PutTrimmed(b, k, word \cup {p}), s \cup {i})
    <2>1. \A j \in Nat : j \in s \cup {i} <=> IF j \div W = k THEN (j % W) \in word \cup {p} ELSE j \in Bits(b)
        BY <1>1, <1>4, <1>5
    <2>2. s \cup {i} \in SUBSET Nat /\ word \cup {p} \in SUBSET Positions BY <1>1, <1>2, <1>3
    <2> QED BY <1>1, <2>1, <2>2, PutHolds
<1>7. Holds(PutTrimmed(b, k, word \ {p}), s \ {i})
    <2>1. \A j \in Nat : j \in s \ {i} <=> IF j \div W = k THEN (j % W) \in word \ {p} ELSE j \in Bits(b)
        BY <1>1, <1>4, <1>5
    <2>2. s \ {i} \in SUBSET Nat /\ word \ {p} \in SUBSET Positions BY <1>1, <1>3
    <2> QED BY <1>1, <2>1, <2>2, PutHolds
<1>8. Holds(PutTrimmed(b, k, SymDiff(word, {p})), SymDiff(s, {i}))
    <2>1. \A j \in Nat : j \in SymDiff(s, {i}) <=>
              IF j \div W = k THEN (j % W) \in SymDiff(word, {p}) ELSE j \in Bits(b)
        BY <1>1, <1>4, <1>5 DEF SymDiff
    <2>2. SymDiff(s, {i}) \in SUBSET Nat /\ SymDiff(word, {p}) \in SUBSET Positions
        BY <1>1, <1>2, <1>3 DEF SymDiff
    <2> QED BY <1>1, <2>1, <2>2, PutHolds
<1>9. Holds(PutTrimmed(b, k, word \cap {p}), {j \in s : j = i \/ j \div W # k})
    <2> DEFINE t == {j \in s : j = i \/ j \div W # k}
    <2>1. \A j \in Nat : j \in t <=> IF j \div W = k THEN (j % W) \in word \cap {p} ELSE j \in Bits(b)
        BY <1>1, <1>4, <1>5
    <2>2. t \in SUBSET Nat /\ word \cap {p} \in SUBSET Positions BY <1>1, <1>3
    <2> HIDE DEF t
    <2>3. Holds(PutTrimmed(b, k, word \cap {p}), t) BY <1>1, <2>1, <2>2, PutHolds
    <2> QED BY <2>3 DEF t
<1>10. Holds(BitmapSet(b, i, value), IF value THEN s \cup {i} ELSE s \ {i})
    <2>1. CASE value
        <3>1. BitmapSet(b, i, value) = PutTrimmed(b, k, word \cup {p}) BY <2>1 DEF BitmapSet, word
        <3> QED BY <1>6, <2>1, <3>1
    <2>2. CASE ~ value /\ ~ (k >= Len(b))
        <3>1. BitmapSet(b, i, value) = PutTrimmed(b, k, word \ {p}) BY <2>2 DEF BitmapSet, word
        <3> QED BY <1>7, <2>2, <3>1
    <2>3. CASE ~ value /\ k >= Len(b)
        <3>1. BitmapSet(b, i, value) = b BY <2>3 DEF BitmapSet
        <3>2. word = {}
            <4>1. Len(b) \in Nat /\ ~ (k < Len(b)) BY <1>1, <1>2, <2>3, Vectors
            <4> QED BY <4>1 DEF Word, word
        <3>3. i \notin s BY <1>5, <3>2
        <3>4. s \ {i} = s BY <3>3
        <3> QED BY <2>3, <3>1, <3>4
    <2> QED BY <2>1, <2>2, <2>3
<1>11. Holds(Ori(b, i), s \cup {i}) BY <1>6 DEF Ori, word
<1>12. Holds(Andnoti(b, i), s \ {i}) BY <1>7 DEF Andnoti, word
<1>13. Holds(Xori(b, i), SymDiff(s, {i})) BY <1>8 DEF Xori, word
<1>14. Holds(Andi(b, i), {j \in s : j = i \/ j \div W # i \div W}) BY <1>9 DEF Andi, word
<1> QED BY <1>10, <1>11, <1>12, <1>13, <1>14

\* What the operations with a single bit leave.
LEMMA OneBitAlu ==
    ASSUME NEW b, NEW s, Holds(b, s), NEW i \in Nat
    PROVE  /\ Holds(Ori(b, i), s \cup {i}) /\ Holds(Andnoti(b, i), s \ {i})
           /\ Holds(Xori(b, i), SymDiff(s, {i}))
           /\ Holds(Andi(b, i), {j \in s : j = i \/ j \div W # i \div W})
<1>1. TRUE \in BOOLEAN OBVIOUS
<1> QED BY <1>1, OneBit, ZenonT(60)

\* What the loop of a function of two bitmaps gives: c has the words given,
\* those beyond the longer of the two being zero.
LEMMA AluHolds ==
    ASSUME NEW a, Vector(a), NEW b, Vector(b), NEW word \in [Nat -> SUBSET Positions],
           \A k \in Nat : Word(a, k) = {} /\ Word(b, k) = {} => word[k] = {},
           NEW wide, wide = IF b = <<>> THEN a ELSE WithWord(a, Len(b) - 1),
           NEW c, c = [k \in DOMAIN wide |-> word[k - 1]],
           NEW s \in SUBSET Nat, \A j \in Nat : j \in s <=> j % W \in word[j \div W]
    PROVE  Holds(c, s) /\ Holds(Trimmed(c), s)
<1>1. Len(a) \in Nat /\ Len(b) \in Nat BY Vectors
<1>2. /\ Vector(wide) /\ Len(wide) >= Len(a) /\ Len(wide) >= Len(b) /\ Len(wide) \in Nat
    <2>1. CASE b = <<>>
        <3>1. Len(b) = 0 /\ wide = a BY <2>1
        <3> QED BY <1>1, <3>1
    <2>2. CASE b # <<>>
        <3>1. Len(b) # 0 BY <2>2, EmptySeq DEF Vector
        <3> DEFINE k == Len(b) - 1
        <3>2. k \in Nat /\ k + 1 = Len(b) BY <1>1, <3>1
        <3>3. wide = WithWord(a, k) BY <2>2
        <3> HIDE DEF k
        <3>4. SameWords(wide, a) /\ Len(wide) = IF k < Len(a) THEN Len(a) ELSE k + 1
            BY <3>2, <3>3, WithWordIs
        <3> QED BY <1>1, <3>2, <3>4 DEF SameWords
    <2> QED BY <2>1, <2>2
<1> DEFINE n == Len(wide)
<1>3. DOMAIN wide = 1 .. n /\ n \in Nat BY <1>2, LenProperties DEF Vector
<1>4. \A k \in Nat : k >= n => word[k] = {}
    <2> SUFFICES ASSUME NEW k \in Nat, k >= n PROVE word[k] = {} OBVIOUS
    <2>1. ~ (k < Len(a)) /\ ~ (k < Len(b)) BY <1>1, <1>2
    <2> QED BY <2>1 DEF Word
<1> HIDE DEF n
<1>5. c = [k \in 1 .. n |-> word[k - 1]] BY <1>3
<1>6. \A k \in 1 .. n : k - 1 \in Nat /\ word[k - 1] \in SUBSET Positions BY <1>3
<1>7. c \in Seq(SUBSET Positions) /\ Len(c) = n /\ \A k \in 1 .. n : c[k] = word[k - 1]
    <2> DEFINE P == SUBSET Positions
    <2>1. \A k \in 1 .. n : c[k] = word[k - 1] /\ c[k] \in P BY <1>5, <1>6
    <2>2. c = [k \in 1 .. n |-> c[k]] BY <1>5
    <2> HIDE DEF P
    <2>3. c \in Seq(P) /\ Len(c) = n
        <3>1. c \in [1 .. n -> P] BY <2>1, <2>2
        <3>2. [1 .. n -> P] \subseteq Seq(P) BY <1>3
        <3>3. c \in Seq(P) BY <3>1, <3>2
        <3>4. 1 .. n = 1 .. Len(c) /\ Len(c) \in Nat BY <3>1, <3>3, LenProperties
        <3> QED BY <1>3, <3>3, <3>4
    <2> QED BY <2>1, <2>3 DEF P
<1>8. Vector(c) BY <1>7 DEF Vector
<1>9. ASSUME NEW k \in Nat PROVE Word(c, k) = word[k]
    <2>1. CASE k < n
        <3>1. k + 1 \in 1 .. n /\ (k + 1) - 1 = k BY <1>3, <2>1
        <3>2. c[k + 1] = word[k] BY <1>7, <3>1
        <3> QED BY <3>2, <2>1, <1>7 DEF Word
    <2>2. CASE ~ (k < n)
        <3>1. k >= n BY <1>3, <2>2
        <3> QED BY <3>1, <2>2, <1>4, <1>7 DEF Word
    <2> QED BY <2>1, <2>2
<1>10. ASSUME NEW j \in Nat PROVE j \in Bits(c) <=> j \in s
    <2>1. j \div W \in Nat BY Place
    <2>2. Word(c, j \div W) = word[j \div W] BY <2>1, <1>9
    <2> QED BY <1>8, <2>2, BitsIs
<1>11. Holds(c, s) BY <1>8, <1>10, HoldsIf
<1>12. Holds(Trimmed(c), s)
    <2> DEFINE t == Trimmed(c)
    <2>1. SameWords(t, c) BY <1>8, TrimmedIs
    <2> HIDE DEF t
    <2>2. Vector(t) /\ Bits(t) = Bits(c) BY <1>8, <2>1, SameBits
    <2>3. Holds(t, s) BY <2>2, <1>11 DEF Holds
    <2> QED BY <2>3 DEF t
<1> QED BY <1>11, <1>12

\* The word of a bitmap that has been widened is the word it had.
LEMMA WideWord ==
    ASSUME NEW a, Vector(a), NEW b, Vector(b),
           NEW wide, wide = IF b = <<>> THEN a ELSE WithWord(a, Len(b) - 1)
    PROVE  \A k \in DOMAIN wide : k - 1 \in Nat /\ wide[k] = Word(a, k - 1)
<1>1. SameWords(wide, a)
    <2>1. CASE b = <<>> BY <2>1 DEF SameWords
    <2>2. CASE b # <<>>
        <3>1. Len(b) # 0 /\ Len(b) \in Nat BY <2>2, EmptySeq, Vectors DEF Vector
        <3> DEFINE k == Len(b) - 1
        <3>2. k \in Nat /\ wide = WithWord(a, k) BY <2>2, <3>1
        <3> HIDE DEF k
        <3> QED BY <3>2, WithWordIs
    <2> QED BY <2>1, <2>2
<1>2. Vector(wide) BY <1>1 DEF SameWords
<1>3. DOMAIN wide = 1 .. Len(wide) /\ Len(wide) \in Nat BY <1>2, LenProperties DEF Vector
<1> SUFFICES ASSUME NEW k \in DOMAIN wide PROVE k - 1 \in Nat /\ wide[k] = Word(a, k - 1)
    OBVIOUS
<1>4. k \in Nat /\ k - 1 \in Nat /\ k - 1 < Len(wide) /\ (k - 1) + 1 = k BY <1>3
<1>5. Word(wide, k - 1) = wide[k] BY <1>4 DEF Word
<1>6. Word(wide, k - 1) = Word(a, k - 1) BY <1>1, <1>4 DEF SameWords
<1> QED BY <1>4, <1>5, <1>6

\* The four functions of two bitmaps.
LEMMA TwoBitmaps ==
    ASSUME NEW a, NEW s, Holds(a, s), NEW b, Vector(b)
    PROVE  /\ Holds(And(a, b), s \cap Bits(b)) /\ Holds(Andnot(a, b), s \ Bits(b))
           /\ Holds(Or(a, b), s \cup Bits(b)) /\ Holds(Xor(a, b), SymDiff(s, Bits(b)))
<1> DEFINE wide == IF b = <<>> THEN a ELSE WithWord(a, Len(b) - 1)
           B == Bits(b)
<1>1. /\ Vector(a) /\ s \subseteq Nat /\ B \subseteq Nat
      /\ \A j \in Nat : j \in s <=> j % W \in Word(a, j \div W)
      /\ \A j \in Nat : j \in B <=> j % W \in Word(b, j \div W)
    BY BitsIs DEF Holds
<1>2. \A k \in Nat : Word(a, k) \in SUBSET Positions /\ Word(b, k) \in SUBSET Positions
    BY <1>1, Vectors
<1>3. \A k \in DOMAIN wide : k - 1 \in Nat /\ wide[k] = Word(a, k - 1)
    <2> DEFINE w == wide
    <2>1. w = IF b = <<>> THEN a ELSE WithWord(a, Len(b) - 1) OBVIOUS
    <2> HIDE DEF w, wide
    <2>2. \A k \in DOMAIN w : k - 1 \in Nat /\ w[k] = Word(a, k - 1) BY <1>1, <2>1, WideWord
    <2> QED BY <2>2 DEF w
<1>4. \A j \in Nat : j \div W \in Nat BY Place
<1>5. wide = IF b = <<>> THEN a ELSE WithWord(a, Len(b) - 1) OBVIOUS
<1>6. /\ Alu(a, b, AndWord) = [k \in DOMAIN wide |-> AndWord(wide[k], Word(b, k - 1))]
      /\ Alu(a, b, AndnotWord) = [k \in DOMAIN wide |-> AndnotWord(wide[k], Word(b, k - 1))]
      /\ Alu(a, b, OrWord) = [k \in DOMAIN wide |-> OrWord(wide[k], Word(b, k - 1))]
      /\ Alu(a, b, XorWord) = [k \in DOMAIN wide |-> XorWord(wide[k], Word(b, k - 1))]
    BY DEF Alu
<1> HIDE DEF wide, B
<1>7. Holds(And(a, b), s \cap B)
    <2> DEFINE word == [k \in Nat |-> AndWord(Word(a, k), Word(b, k))]
               c == [k \in DOMAIN wide |-> word[k - 1]]
               t == s \cap B
    <2>1. word \in [Nat -> SUBSET Positions] BY <1>2 DEF AndWord
    <2>2. \A k \in Nat : Word(a, k) = {} /\ Word(b, k) = {} => word[k] = {} BY DEF AndWord
    <2>3. \A j \in Nat : j \in t <=> j % W \in word[j \div W] BY <1>1, <1>4 DEF AndWord
    <2>4. t \in SUBSET Nat BY <1>1
    <2>5. c = [k \in DOMAIN wide |-> word[k - 1]] OBVIOUS
    <2>6. Alu(a, b, AndWord) = c BY <1>3, <1>6
    <2> HIDE DEF word, c, t
    <2>7. Holds(Trimmed(c), t) BY <1>1, <1>5, <2>1, <2>2, <2>3, <2>4, <2>5, AluHolds
    <2> QED BY <2>6, <2>7 DEF And, t
<1>8. Holds(Andnot(a, b), s \ B)
    <2> DEFINE word == [k \in Nat |-> AndnotWord(Word(a, k), Word(b, k))]
               c == [k \in DOMAIN wide |-> word[k - 1]]
               t == s \ B
    <2>1. word \in [Nat -> SUBSET Positions] BY <1>2 DEF AndnotWord
    <2>2. \A k \in Nat : Word(a, k) = {} /\ Word(b, k) = {} => word[k] = {} BY DEF AndnotWord
    <2>3. \A j \in Nat : j \in t <=> j % W \in word[j \div W] BY <1>1, <1>4 DEF AndnotWord
    <2>4. t \in SUBSET Nat BY <1>1
    <2>5. c = [k \in DOMAIN wide |-> word[k - 1]] OBVIOUS
    <2>6. Alu(a, b, AndnotWord) = c BY <1>3, <1>6
    <2> HIDE DEF word, c, t
    <2>7. Holds(Trimmed(c), t) BY <1>1, <1>5, <2>1, <2>2, <2>3, <2>4, <2>5, AluHolds
    <2> QED BY <2>6, <2>7 DEF Andnot, t
<1>9. Holds(Or(a, b), s \cup B)
    <2> DEFINE word == [k \in Nat |-> OrWord(Word(a, k), Word(b, k))]
               c == [k \in DOMAIN wide |-> word[k - 1]]
               t == s \cup B
    <2>1. word \in [Nat -> SUBSET Positions] BY <1>2 DEF OrWord
    <2>2. \A k \in Nat : Word(a, k) = {} /\ Word(b, k) = {} => word[k] = {} BY DEF OrWord
    <2>3. \A j \in Nat : j \in t <=> j % W \in word[j \div W] BY <1>1, <1>4 DEF OrWord
    <2>4. t \in SUBSET Nat BY <1>1
    <2>5. c = [k \in DOMAIN wide |-> word[k - 1]] OBVIOUS
    <2>6. Alu(a, b, OrWord) = c BY <1>3, <1>6
    <2> HIDE DEF word, c, t
    <2>7. Holds(c, t) BY <1>1, <1>5, <2>1, <2>2, <2>3, <2>4, <2>5, AluHolds
    <2> QED BY <2>6, <2>7 DEF Or, t
<1>10. Holds(Xor(a, b), SymDiff(s, B))
    <2> DEFINE word == [k \in Nat |-> XorWord(Word(a, k), Word(b, k))]
               c == [k \in DOMAIN wide |-> word[k - 1]]
               t == SymDiff(s, B)
    <2>1. word \in [Nat -> SUBSET Positions] BY <1>2 DEF XorWord, SymDiff
    <2>2. \A k \in Nat : Word(a, k) = {} /\ Word(b, k) = {} => word[k] = {} BY DEF XorWord, SymDiff
    <2>3. \A j \in Nat : j \in t <=> j % W \in word[j \div W] BY <1>1, <1>4 DEF XorWord, SymDiff
    <2>4. t \in SUBSET Nat BY <1>1 DEF SymDiff
    <2>5. c = [k \in DOMAIN wide |-> word[k - 1]] OBVIOUS
    <2>6. Alu(a, b, XorWord) = c BY <1>3, <1>6
    <2> HIDE DEF word, c, t
    <2>7. Holds(Trimmed(c), t) BY <1>1, <1>5, <2>1, <2>2, <2>3, <2>4, <2>5, AluHolds
    <2> QED BY <2>6, <2>7 DEF Xor, t
<1> QED BY <1>7, <1>8, <1>9, <1>10 DEF B

\* Two words next to each other are changed.
LEMMA TwoWords ==
    ASSUME NEW b, Vector(b), NEW k \in Nat, NEW x \in SUBSET Positions, NEW y \in SUBSET Positions,
           NEW s \in SUBSET Nat,
           \A j \in Nat : j \in s <=> IF j \div W = k THEN j % W \in x
                                      ELSE IF j \div W = k + 1 THEN j % W \in y ELSE j \in Bits(b)
    PROVE  Holds(Put(Put(b, k, x), k + 1, y), s)
<1> DEFINE l == k + 1
           one == Put(b, k, x)
           two == Put(one, l, y)
<1>1. WordChanged(one, b, k, x) BY PutIs
<1>2. l \in Nat /\ l # k OBVIOUS
<1>3. \A j \in Nat : j \in s <=> IF j \div W = k THEN j % W \in x
                                 ELSE IF j \div W = l THEN j % W \in y ELSE j \in Bits(b)
    OBVIOUS
<1> HIDE DEF one, l
<1>4. /\ Vector(one)
      /\ \A j \in Nat : j \in Bits(one) <=> IF j \div W = k THEN j % W \in x ELSE j \in Bits(b)
    BY <1>1, BitsChanged
<1>5. WordChanged(two, one, l, y) BY <1>2, <1>4, PutIs
<1> HIDE DEF two
<1>6. /\ Vector(two)
      /\ \A j \in Nat : j \in Bits(two) <=> IF j \div W = l THEN j % W \in y ELSE j \in Bits(one)
    BY <1>2, <1>4, <1>5, BitsChanged
<1>7. \A j \in Nat : j \in Bits(two) <=> j \in s BY <1>2, <1>3, <1>4, <1>6
<1>8. Holds(two, s) BY <1>6, <1>7, HoldsIf
<1> QED BY <1>8 DEF two, one, l

\* Fields of up to W bits, in one word or across two: value is put at i.
LEMMA FieldSet ==
    ASSUME NEW b, NEW s, Holds(b, s), NEW i \in Nat, NEW n \in 0 .. W, NEW value \in SUBSET (0 .. n - 1)
    PROVE  Holds(SetMultiple(b, i, value, n), (s \ (i .. i + n - 1)) \cup {i + x : x \in value})
<1> DEFINE k     == i \div W
           o     == i % W
           m     == (i + n) \div W
           wide  == WithWord(b, m)
           first == (Word(wide, k) \ {o + j : j \in 0 .. n - 1})
                        \cup {o + j : j \in {v \in value : v < n /\ o + v < W}}
           next  == (Word(wide, k + 1) \ (0 .. n - (W - o) - 1))
                        \cup {o + j - W : j \in {v \in value : v < n /\ o + v >= W}}
           t     == (s \ (i .. i + n - 1)) \cup {i + x : x \in value}
<1>1. /\ k \in Nat /\ o \in 0 .. W - 1 /\ i = W * k + o /\ W \in Nat \ {0} /\ n \in Nat /\ n <= W
      /\ Positions = 0 .. W - 1
    <2>1. Positions = 0 .. W - 1 BY DEF Positions
    <2>2. k \in Nat /\ o \in Positions /\ i = W * k + o /\ W \in Nat \ {0} BY Place
    <2> HIDE DEF k, o
    <2> QED BY <2>1, <2>2
<1>2. Vector(b) /\ Bits(b) = s /\ s \subseteq Nat
      /\ \A j \in Nat : j \in s <=> j % W \in Word(b, j \div W)
    BY BitsIs DEF Holds
<1>3. m \in Nat
    <2>1. i + n \in Nat BY <1>1
    <2> QED BY <2>1, Place
<1>4. SameWords(wide, b) /\ Len(wide) = IF m < Len(b) THEN Len(b) ELSE m + 1
    <2> HIDE DEF m
    <2> QED BY <1>2, <1>3, WithWordIs
<1>5. Len(wide) > m /\ Len(wide) \in Nat
    <2>1. Len(b) \in Nat BY <1>2, Vectors
    <2> HIDE DEF m, wide
    <2> QED BY <1>3, <1>4, <2>1
<1>6. o + n > W => m >= k + 1
    <2> SUFFICES ASSUME o + n > W PROVE m >= k + 1 OBVIOUS
    <2> DEFINE q == m
               r == (i + n) % W
               x == W * q
               y == W * k
    <2>1. i + n = W * m + ((i + n) % W) /\ r \in 0 .. W - 1
        <3>1. i + n \in Nat BY <1>1
        <3> QED BY <3>1, Place DEF Positions
    <2>2. i + n = x + r /\ i = y + o /\ x \in Int /\ y \in Int BY <1>1, <1>3, <2>1
    <2>4. y < x
        <3> HIDE DEF x, y, r, o
        <3> QED BY <1>1, <2>1, <2>2
    <2> HIDE DEF m
    <2>5. k < m BY <1>1, <1>3, <2>4, Monotone
    <2> QED BY <1>1, <1>3, <2>5
<1>7. \A x \in value : x \in 0 .. n - 1 /\ x \in Nat /\ x < n OBVIOUS
<1>8. /\ Word(wide, k) = Word(b, k) /\ Word(wide, k + 1) = Word(b, k + 1) /\ Vector(wide)
      /\ Word(b, k) \in SUBSET Positions /\ Word(b, k + 1) \in SUBSET Positions
    <2>1. k + 1 \in Nat BY <1>1
    <2> HIDE DEF wide
    <2> QED BY <1>1, <1>2, <1>4, <2>1, Vectors DEF SameWords
<1>9. first \in SUBSET Positions
    <2>1. \A v \in value : o + v < W => o + v \in Positions BY <1>1, <1>7
    <2> QED BY <1>8, <2>1
<1>10. next \in SUBSET Positions
    <2>1. \A v \in value : o + v >= W => o + v - W \in Positions BY <1>1, <1>7
    <2> QED BY <1>8, <2>1
<1>11. t \in SUBSET Nat
    <2>1. \A x \in value : i + x \in Nat BY <1>7
    <2> QED BY <1>2, <2>1
<1>12. ASSUME NEW j \in Nat
       PROVE  /\ j \div W = k => (j \in t <=> j % W \in first)
              /\ j \div W = k + 1 /\ o + n > W => (j \in t <=> j % W \in next)
              /\ j \div W = k + 1 /\ ~ (o + n > W) => (j \in t <=> j \in s)
              /\ j \div W # k /\ j \div W # k + 1 => (j \in t <=> j \in s)
    <2> DEFINE q == j \div W
               p == j % W
    <2>1. q \in Nat /\ p \in 0 .. W - 1 /\ (j \in s <=> p \in Word(b, q)) BY <1>2, Place DEF Positions
    <2>2. j \in i .. i + n - 1 <=> InRegion(j, i, n) BY Regions
    <2>3. (q = k => j - i = p - o) /\ (q = k + 1 => j - i = W + p - o) BY Regions
    <2>4. (\E x \in value : j = i + x) <=> j - i \in value
        <3>1. \A x \in value : j = i + x <=> j - i = x BY <1>7
        <3> QED BY <3>1
    <2>5. j \in t <=> (j \in s /\ ~ (j \in i .. i + n - 1)) \/ j - i \in value BY <2>4
    <2>6. j - i \in value => j \in i .. i + n - 1 BY <1>1, <1>7
    <2>7. InRegion(j, i, n) <=>
              \/ q = k /\ p \in o .. o + n - 1 /\ j = i + (p - o)
              \/ q = k + 1 /\ p \in 0 .. n - (W - o) - 1 /\ j = i + (W + p - o)
        BY DEF InRegion
    <2> HIDE DEF t
    <2>8. CASE q = k
        <3> HIDE DEF o, k, q, p
        <3>1. j \in i .. i + n - 1 => p \in o .. o + n - 1 BY <1>1, <2>1, <2>2, <2>3, <2>7, <2>8
        <3>2. p \in o .. o + n - 1 => j \in i .. i + n - 1 BY <1>1, <2>1, <2>3, <2>8
        <3>3. p \in {o + x : x \in 0 .. n - 1} <=> p \in o .. o + n - 1
            <4>1. p \in o .. o + n - 1 => p - o \in 0 .. n - 1 /\ o + (p - o) = p BY <1>1, <2>1
            <4>2. \A x \in 0 .. n - 1 : o + x \in o .. o + n - 1 BY <1>1
            <4> QED BY <4>1, <4>2
        <3>4. p \in {o + x : x \in {v \in value : v < n /\ o + v < W}} <=> j - i \in value
            <4>1. \A x \in value : p = o + x <=> x = p - o BY <1>1, <1>7, <2>1
            <4>2. \A x \in value : p = o + x => o + x < W BY <1>1, <2>1
            <4>3. j - i = p - o BY <2>3, <2>8
            <4>4. o + (p - o) = p BY <1>1, <2>1
            <4> QED BY <1>7, <4>1, <4>2, <4>3, <4>4
        <3>5. p \in first <=> (p \in Word(b, k) /\ ~ (p \in {o + x : x \in 0 .. n - 1}))
                               \/ p \in {o + x : x \in {v \in value : v < n /\ o + v < W}}
            BY <1>8 DEF k, o
        <3>6. j \in t <=> p \in first BY <2>1, <2>5, <2>8, <3>1, <3>2, <3>3, <3>4, <3>5
        <3>7. k # k + 1 BY <1>1
        <3> QED BY <2>8, <3>6, <3>7 DEF k, o, q, p
    <2>9. CASE q = k + 1
        <3> HIDE DEF o, k, q, p
        <3>1. j \in i .. i + n - 1 => p \in 0 .. n - (W - o) - 1
            BY <1>1, <2>1, <2>3, <2>9
        <3>2. p \in 0 .. n - (W - o) - 1 => j \in i .. i + n - 1 BY <1>1, <2>1, <2>3, <2>9
        <3>3. p \in {o + x - W : x \in {v \in value : v < n /\ o + v >= W}} <=> j - i \in value
            <4>1. \A x \in value : p = o + x - W <=> x = W + p - o BY <1>1, <1>7, <2>1
            <4>2. \A x \in value : p = o + x - W => o + x >= W BY <1>1, <1>7, <2>1
            <4>3. j - i = W + p - o BY <2>3, <2>9
            <4>4. o + (W + p - o) - W = p BY <1>1, <2>1
            <4> QED BY <1>7, <4>1, <4>2, <4>3, <4>4
        <3>4. p \in next <=> (p \in Word(b, k + 1) /\ ~ (p \in 0 .. n - (W - o) - 1))
                              \/ p \in {o + x - W : x \in {v \in value : v < n /\ o + v >= W}}
            BY <1>8 DEF k, o
        <3>5. j \in t <=> p \in next BY <2>1, <2>5, <2>9, <3>1, <3>2, <3>3, <3>4
        <3>6. ~ (o + n > W) => ~ (p \in 0 .. n - (W - o) - 1) BY <1>1, <2>1
        <3>7. ~ (o + n > W) => (j \in t <=> j \in s) BY <2>5, <2>6, <3>1, <3>6
        <3>8. k # k + 1 BY <1>1
        <3> QED BY <2>9, <3>5, <3>7, <3>8 DEF k, o, q, p
    <2>10. CASE q # k /\ q # k + 1
        <3>1. ~ (j \in i .. i + n - 1) BY <2>2, <2>7, <2>10
        <3> QED BY <2>5, <2>6, <2>10, <3>1
    <2> QED BY <2>8, <2>9, <2>10
<1> HIDE DEF t
<1>13. CASE o + n > W
    <2>1. k + 1 < Len(wide)
        <3> HIDE DEF k, m, wide, o
        <3> QED BY <1>1, <1>3, <1>5, <1>6, <1>13
    <2>2. SetMultiple(b, i, value, n) = Put(Put(wide, k, first), k + 1, next)
        BY <1>13, <2>1 DEF SetMultiple
    <2>3. Bits(wide) = s
        <3> HIDE DEF wide
        <3> QED BY <1>2, <1>4, SameBits
    <2>4. \A j \in Nat : j \in t <=> IF j \div W = k THEN j % W \in first
                                     ELSE IF j \div W = k + 1 THEN j % W \in next ELSE j \in Bits(wide)
        <3> HIDE DEF first, next, k, o, wide
        <3> QED BY <1>12, <1>13, <2>3
    <2> HIDE DEF first, next, k, o, wide
    <2>5. Holds(Put(Put(wide, k, first), k + 1, next), t)
        BY <1>1, <1>8, <1>9, <1>10, <1>11, <2>4, TwoWords
    <2> QED BY <2>2, <2>5 DEF t
<1>14. CASE ~ (o + n > W)
    <2>1. SetMultiple(b, i, value, n) = Put(wide, k, first) BY <1>14 DEF SetMultiple
    <2>2. Bits(wide) = s
        <3> HIDE DEF wide
        <3> QED BY <1>2, <1>4, SameBits
    <2>3. \A j \in Nat : j \in t <=> IF j \div W = k THEN j % W \in first ELSE j \in Bits(wide)
        <3> HIDE DEF first, next, k, o, wide
        <3> QED BY <1>12, <1>14, <2>2
    <2>4. Holds(Put(wide, k, first), t)
        <3> DEFINE a == first
                   w == wide
        <3>1. \A j \in Nat : j \in t <=> IF j \div W = i \div W THEN j % W \in a ELSE j \in Bits(w)
            BY <2>3
        <3>2. Vector(w) /\ a \in SUBSET Positions BY <1>8, <1>9
        <3> HIDE DEF a, w, first, wide
        <3>3. Holds(Put(w, i \div W, a), t) BY <1>11, <3>1, <3>2, PutHolds
        <3> QED BY <3>3 DEF a, w
    <2> QED BY <2>1, <2>4 DEF t
<1> QED BY <1>13, <1>14

\* Regions of up to W bits that are set or cleared.
LEMMA RegionSet ==
    ASSUME NEW b, NEW s, Holds(b, s), NEW i \in Nat, NEW n \in 0 .. W, NEW value \in BOOLEAN
    PROVE  Holds(SetRegion(b, i, value, n),
                 IF value THEN s \cup (i .. i + n - 1) ELSE s \ (i .. i + n - 1))
<1> DEFINE k     == i \div W
           o     == i % W
           m     == (i + n) \div W
           wide  == WithWord(b, m)
           Changed(word, mask) == IF value THEN word \cup mask ELSE word \ mask
           low   == {p \in o .. o + n - 1 : p < W}
           high  == 0 .. n - (W - o) - 1
           x     == Changed(Word(wide, k), low)
           y     == Changed(Word(wide, k + 1), high)
           t     == Changed(s, i .. i + n - 1)
<1>1. /\ k \in Nat /\ o \in 0 .. W - 1 /\ i = W * k + o /\ W \in Nat \ {0} /\ n \in Nat /\ n <= W
      /\ Positions = 0 .. W - 1
    <2>1. Positions = 0 .. W - 1 BY DEF Positions
    <2>2. k \in Nat /\ o \in Positions /\ i = W * k + o /\ W \in Nat \ {0} BY Place
    <2> HIDE DEF k, o
    <2> QED BY <2>1, <2>2
<1>2. Vector(b) /\ Bits(b) = s /\ s \subseteq Nat
      /\ \A j \in Nat : j \in s <=> j % W \in Word(b, j \div W)
    BY BitsIs DEF Holds
<1>3. m \in Nat
    <2>1. i + n \in Nat BY <1>1
    <2> QED BY <2>1, Place
<1>4. SameWords(wide, b)
    <2> HIDE DEF m
    <2> QED BY <1>2, <1>3, WithWordIs
<1>5. k + 1 = m <=> o + n >= W
    <2> DEFINE a == i + n
               z == W * k
    <2>1. a \in Int /\ a = z + (o + n) /\ z \in Int /\ W * (k + 1) = z + W BY <1>1
    <2>2. CASE o + n < W
        <3>1. o + n \in 0 .. W - 1 BY <1>1, <2>2
        <3> DEFINE r == o + n
                   q == k
        <3>2. r \in 0 .. W - 1 /\ a = W * q + r /\ q \in Int BY <1>1, <2>1, <3>1
        <3> HIDE DEF r, a, q
        <3>3. a \div W = q BY <1>1, <2>1, <3>2, DivModIs
        <3>4. m = k BY <3>3 DEF a, q
        <3> QED BY <1>1, <2>2, <3>4
    <2>3. CASE o + n >= W /\ o + n < W + W
        <3> DEFINE r == o + n - W
                   q == k + 1
        <3>1. r \in 0 .. W - 1 /\ q \in Int BY <1>1, <2>3
        <3>2. a = W * q + r BY <1>1, <2>1
        <3> HIDE DEF r, a, q
        <3>3. a \div W = q BY <1>1, <2>1, <3>1, <3>2, DivModIs
        <3>4. m = q BY <3>3 DEF a
        <3> QED BY <2>3, <3>4 DEF q
    <2> HIDE DEF o, m, k
    <2>4. o + n < W \/ (o + n >= W /\ o + n < W + W) BY <1>1
    <2> QED BY <2>2, <2>3, <2>4
<1>6. /\ Word(wide, k) = Word(b, k) /\ Word(wide, k + 1) = Word(b, k + 1) /\ Vector(wide)
      /\ Word(b, k) \in SUBSET Positions /\ Word(b, k + 1) \in SUBSET Positions
    <2>1. k + 1 \in Nat BY <1>1
    <2> HIDE DEF wide
    <2> QED BY <1>1, <1>2, <1>4, <2>1, Vectors DEF SameWords
<1>7. x \in SUBSET Positions /\ y \in SUBSET Positions
    <2>1. low \subseteq Positions /\ high \subseteq Positions BY <1>1
    <2> QED BY <1>6, <2>1
<1>8. t \in SUBSET Nat
    <2>1. i .. i + n - 1 \subseteq Nat BY <1>1
    <2> QED BY <1>2, <2>1
<1>9. ASSUME NEW j \in Nat
      PROVE  /\ j \div W = k => (j \in t <=> j % W \in x)
             /\ j \div W = k + 1 => (j \in t <=> j % W \in y)
             /\ j \div W = k + 1 /\ ~ (o + n >= W) => (j \in t <=> j \in s)
             /\ j \div W # k /\ j \div W # k + 1 => (j \in t <=> j \in s)
    <2> DEFINE q == j \div W
               p == j % W
               R == i .. i + n - 1
    <2>1. q \in Nat /\ p \in 0 .. W - 1 /\ (j \in s <=> p \in Word(b, q)) BY <1>2, Place DEF Positions
    <2>2. j \in R <=> InRegion(j, i, n) BY Regions
    <2>3. InRegion(j, i, n) <=>
              \/ q = k /\ p \in o .. o + n - 1 /\ j = i + (p - o)
              \/ q = k + 1 /\ p \in high /\ j = i + (W + p - o)
        BY DEF InRegion
    <2>4. (q = k => j - i = p - o) /\ (q = k + 1 => j - i = W + p - o) BY Regions
    <2>5. j \in t <=> IF value THEN j \in s \/ j \in R ELSE j \in s /\ ~ (j \in R) OBVIOUS
    <2>6. p \in x <=> IF value THEN p \in Word(b, k) \/ p \in low ELSE p \in Word(b, k) /\ ~ (p \in low)
        BY <1>6
    <2>7. p \in y <=> IF value THEN p \in Word(b, k + 1) \/ p \in high
                      ELSE p \in Word(b, k + 1) /\ ~ (p \in high)
        BY <1>6
    <2>8. p \in low <=> p \in o .. o + n - 1 BY <2>1, <1>1
    <2> HIDE DEF t, x, y, R
    <2>9. CASE q = k
        <3>1. j - i = p - o BY <2>4, <2>9
        <3>2. j = i + (p - o)
            <4> HIDE DEF q, p, k, o
            <4> QED BY <1>1, <2>1, <3>1
        <3>3. k # k + 1
            <4> HIDE DEF k
            <4> QED BY <1>1
        <3> HIDE DEF low, high
        <3>4. j \in R <=> p \in low BY <2>2, <2>3, <2>8, <2>9, <3>2, <3>3
        <3>5. j \in t <=> p \in x BY <2>1, <2>5, <2>6, <2>9, <3>4
        <3> QED BY <2>9, <3>3, <3>5
    <2>10. CASE q = k + 1
        <3>1. j - i = W + p - o BY <2>4, <2>10
        <3>2. j = i + (W + p - o)
            <4> HIDE DEF q, p, k, o
            <4> QED BY <1>1, <2>1, <3>1
        <3>3. k # k + 1
            <4> HIDE DEF k
            <4> QED BY <1>1
        <3>4. ~ (o + n >= W) => ~ (p \in high)
            <4> HIDE DEF p, o
            <4> QED BY <1>1, <2>1
        <3> HIDE DEF low, high
        <3>5. j \in R <=> p \in high BY <2>2, <2>3, <2>10, <3>2, <3>3
        <3>6. j \in t <=> p \in y BY <2>1, <2>5, <2>7, <2>10, <3>5
        <3>7. ~ (o + n >= W) => (j \in t <=> j \in s) BY <2>5, <3>4, <3>5
        <3> QED BY <2>10, <3>3, <3>6, <3>7
    <2>11. CASE q # k /\ q # k + 1
        <3>1. ~ (j \in R) BY <2>2, <2>3, <2>11
        <3> QED BY <2>5, <2>11, <3>1
    <2> QED BY <2>9, <2>10, <2>11
<1>10. Bits(wide) = s
    <2> HIDE DEF wide
    <2> QED BY <1>2, <1>4, SameBits
<1>11. SetRegion(b, i, value, n) = IF k + 1 = m THEN Put(Put(wide, k, x), k + 1, y) ELSE Put(wide, k, x)
    BY DEF SetRegion
<1>12. t = IF value THEN s \cup (i .. i + n - 1) ELSE s \ (i .. i + n - 1) OBVIOUS
<1> HIDE DEF t, x, y, wide, m
<1>13. CASE o + n >= W
    <2>1. \A j \in Nat : j \in t <=> IF j \div W = k THEN j % W \in x
                                     ELSE IF j \div W = k + 1 THEN j % W \in y ELSE j \in Bits(wide)
        BY <1>9, <1>10
    <2> HIDE DEF k, o
    <2>2. Holds(Put(Put(wide, k, x), k + 1, y), t) BY <1>1, <1>6, <1>7, <1>8, <2>1, TwoWords
    <2> QED BY <1>5, <1>11, <1>12, <1>13, <2>2
<1>14. CASE ~ (o + n >= W)
    <2>1. \A j \in Nat : j \in t <=> IF j \div W = k THEN j % W \in x ELSE j \in Bits(wide)
        BY <1>9, <1>10, <1>14
    <2>2. Holds(Put(wide, k, x), t) BY <1>6, <1>7, <1>8, <2>1, PutHolds
    <2> QED BY <1>5, <1>11, <1>12, <1>14, <2>2
<1> QED BY <1>13, <1>14

\* The invariant holds for ever.
LEMMA BitmapInvariant == BitmapSpec => []BitmapInv
<1>1. BitmapInit => BitmapInv BY NoBits DEF BitmapInit, BitmapInv, Holds
<1>2. BitmapInv /\ [BitmapNext]_bitmapVars => BitmapInv'
    <2> SUFFICES ASSUME BitmapInv, [BitmapNext]_bitmapVars PROVE BitmapInv' OBVIOUS
    <2>1. Holds(bitmap, bits) BY DEF BitmapInv
    <2>2. BitNumbers \subseteq Nat BY BitmapOpsAssumption DEF BitNumbers
    <2>3. \A b, s : Change(b, s) /\ Holds(b, s) => BitmapInv' BY DEF Change, BitmapInv
    <2>4. ASSUME NEW i \in BitNumbers, SetBit(i) PROVE BitmapInv'
        <3>1. i \in Nat BY <2>2
        <3>2. PICK value \in BOOLEAN :
                  Change(BitmapSet(bitmap, i, value), IF value THEN bits \cup {i} ELSE bits \ {i})
            BY <2>4 DEF SetBit
        <3>3. Holds(BitmapSet(bitmap, i, value), IF value THEN bits \cup {i} ELSE bits \ {i})
            BY <2>1, <3>1, OneBit
        <3> QED BY <2>3, <3>2, <3>3
    <2>5. ASSUME NEW i \in BitNumbers, Immediate(i) PROVE BitmapInv'
        <3>1. i \in Nat BY <2>2
        <3>2. /\ Holds(Ori(bitmap, i), bits \cup {i}) /\ Holds(Andnoti(bitmap, i), bits \ {i})
              /\ Holds(Xori(bitmap, i), SymDiff(bits, {i}))
              /\ Holds(Andi(bitmap, i), {j \in bits : j = i \/ j \div W # i \div W})
            BY <2>1, <3>1, OneBitAlu, ZenonT(30)
        <3>3. CASE Change(Ori(bitmap, i), bits \cup {i}) BY <2>3, <3>2, <3>3
        <3>4. CASE Change(Andnoti(bitmap, i), bits \ {i}) BY <2>3, <3>2, <3>4
        <3>5. CASE Change(Xori(bitmap, i), SymDiff(bits, {i})) BY <2>3, <3>2, <3>5
        <3>6. CASE Change(Andi(bitmap, i), {j \in bits : j = i \/ j \div W # i \div W})
            BY <2>3, <3>2, <3>6
        <3> QED BY <2>5, <3>3, <3>4, <3>5, <3>6 DEF Immediate
    <2>6. ASSUME NEW b \in Operands, Binary(b) \/ OrWith(b) PROVE BitmapInv'
        <3>1. Vector(b)
            <4>1. CASE b = <<>> BY <4>1, NoBits
            <4>2. ASSUME NEW x \in SUBSET Positions, b = <<x>> PROVE Vector(b) BY <4>2 DEF Vector
            <4>3. ASSUME NEW x \in SUBSET Positions, b = <<{}, x>> PROVE Vector(b)
                <5>1. {} \in SUBSET Positions OBVIOUS
                <5> QED BY <4>3, <5>1 DEF Vector
            <4> QED BY <4>1, <4>2, <4>3 DEF Operands
        <3>2. /\ Holds(And(bitmap, b), bits \cap Bits(b)) /\ Holds(Andnot(bitmap, b), bits \ Bits(b))
              /\ Holds(Or(bitmap, b), bits \cup Bits(b))
              /\ Holds(Xor(bitmap, b), SymDiff(bits, Bits(b)))
            BY <2>1, <3>1, TwoBitmaps
        <3>3. CASE Change(And(bitmap, b), bits \cap Bits(b)) BY <2>3, <3>2, <3>3
        <3>4. CASE Change(Andnot(bitmap, b), bits \ Bits(b)) BY <2>3, <3>2, <3>4
        <3>5. CASE Change(Or(bitmap, b), bits \cup Bits(b)) BY <2>3, <3>2, <3>5
        <3>6. CASE Change(Xor(bitmap, b), SymDiff(bits, Bits(b))) BY <2>3, <3>2, <3>6
        <3> QED BY <2>6, <3>3, <3>4, <3>5, <3>6 DEF Binary, OrWith
    <2>7. ASSUME NEW i \in BitNumbers, NEW n \in 0 .. W, Multiple(i, n) PROVE BitmapInv'
        <3>1. i \in Nat BY <2>2
        <3>2. ASSUME NEW value \in SUBSET (0 .. n - 1),
                     Change(SetMultiple(bitmap, i, value, n),
                            (bits \ (i .. i + n - 1)) \cup {i + j : j \in value})
              PROVE  BitmapInv'
            <4>1. Holds(SetMultiple(bitmap, i, value, n),
                        (bits \ (i .. i + n - 1)) \cup {i + j : j \in value})
                BY <2>1, <3>1, FieldSet, ZenonT(30)
            <4> QED BY <2>3, <3>2, <4>1
        <3>3. ASSUME NEW value \in BOOLEAN,
                     Change(SetRegion(bitmap, i, value, n),
                            IF value THEN bits \cup (i .. i + n - 1) ELSE bits \ (i .. i + n - 1))
              PROVE  BitmapInv'
            <4>1. Holds(SetRegion(bitmap, i, value, n),
                        IF value THEN bits \cup (i .. i + n - 1) ELSE bits \ (i .. i + n - 1))
                BY <2>1, <3>1, RegionSet
            <4> QED BY <2>3, <3>3, <4>1
        <3> QED BY <2>7, <3>2, <3>3 DEF Multiple
    <2>8. CASE UNCHANGED bitmapVars BY <2>8 DEF bitmapVars, BitmapInv
    <2>9. CASE BinaryOfNull BY <2>9 DEF BinaryOfNull, BitmapInv
    <2> QED BY <2>4, <2>5, <2>6, <2>7, <2>8, <2>9 DEF BitmapNext
<1> QED BY <1>1, <1>2, PTL DEF BitmapSpec

-----------------------------------------------------------------------------
(* The bitmap: questions *)

\* Numbers are ordered by word and then by position.
LEMMA Places ==
    ASSUME NEW i \in Nat, NEW j \in Nat
    PROVE  /\ j \div W < i \div W => j < i
           /\ j \div W = i \div W => (j < i <=> j % W < i % W) /\ (j <= i <=> j % W <= i % W)
<1> DEFINE q == j \div W
           p == j % W
           k == i \div W
           o == i % W
           x == W * q
           y == W * k
<1>1. /\ q \in Nat /\ p \in 0 .. W - 1 /\ j = x + p /\ k \in Nat /\ o \in 0 .. W - 1 /\ i = y + o
      /\ W \in Nat \ {0}
    BY Place DEF Positions
<1>2. q < k => x + W <= y
    <2> HIDE DEF q, k
    <2> QED BY <1>1, Monotone
<1>3. x \in Int /\ y \in Int /\ (q = k => x = y) BY <1>1
<1> HIDE DEF x, y, q, p, k, o
<1>4. q < k => j < i BY <1>1, <1>2, <1>3
<1>5. q = k => (j < i <=> p < o) /\ (j <= i <=> p <= o) BY <1>1, <1>3
<1> QED BY <1>4, <1>5 DEF q, p, k, o

\* The numbers whose positions the words name, of n words.
Named(w, n) == {j \in Nat : j \div W < n /\ j % W \in w[j \div W]}

\* r is the first of S at or after i; otherwise where there is none.
FirstFrom(r, S, i, otherwise) ==
    \/ r = otherwise /\ \A j \in S : j < i
    \/ r \in S /\ r >= i /\ \A j \in S : j >= i => r <= j

\* A search that looks into the rest of the first word, then for the next
\* word that is not empty, finds the first number at or after i.
LEMMA SearchIs ==
    ASSUME NEW w \in [Nat -> SUBSET Positions], NEW n \in Nat, NEW i \in Nat, NEW otherwise,
           NEW here, here = {p \in w[i \div W] : p >= i % W},
           NEW later, later = {j \in (i \div W) + 1 .. n - 1 : w[j] # {}},
           NEW r, r = IF i \div W >= n THEN otherwise
                      ELSE IF here # {} THEN (i \div W) * W + Min(here)
                      ELSE IF later = {} THEN otherwise
                      ELSE Min(later) * W + Min(w[Min(later)])
    PROVE  FirstFrom(r, Named(w, n), i, otherwise)
<1> DEFINE k == i \div W
           o == i % W
           S == Named(w, n)
<1>1. k \in Nat /\ o \in Positions /\ W \in Nat \ {0} /\ Positions = 0 .. W - 1
    <2>1. Positions = 0 .. W - 1 BY DEF Positions
    <2> QED BY <2>1, Place
<1>2. \A j \in S : /\ j \in Nat /\ j \div W \in Nat /\ j \div W < n /\ j % W \in w[j \div W]
                   /\ j % W \in Positions
    BY Place DEF Named
<1>3. \A q \in Nat : \A p \in w[q] : p \in Positions OBVIOUS
<1> HIDE DEF S
<1>4. \A j \in S : /\ j \div W < k => j < i
                   /\ j \div W = k => (j < i <=> j % W < o)
    BY <1>2, Places DEF k, o
<1>5. CASE k >= n
    <2>1. r = otherwise BY <1>5
    <2>2. \A j \in S : j \div W < k
        <3> HIDE DEF k
        <3> QED BY <1>1, <1>2, <1>5
    <2>3. \A j \in S : j < i BY <1>4, <2>2
    <2> QED BY <2>1, <2>3 DEF FirstFrom, S
<1>6. ASSUME NEW q \in Nat, NEW p \in w[q], q < n
      PROVE  /\ q * W + p \in S /\ (q * W + p) \div W = q /\ (q * W + p) % W = p /\ q * W + p \in Nat
    <2>1. p \in Positions BY <1>3
    <2> DEFINE a == q * W + p
    <2>2. a \in Nat /\ a % W = p /\ a \div W = q BY <2>1, PlaceIs
    <2> HIDE DEF a
    <2>3. a \in S BY <1>6, <2>2 DEF Named, S
    <2> QED BY <2>2, <2>3 DEF a
<1>7. CASE k < n /\ here # {}
    <2> DEFINE p == Min(here)
               a == k * W + p
    <2>1. here \subseteq Int /\ \A x \in here : 0 <= x
        <3>1. \A x \in here : x \in Positions BY <1>1, <1>3
        <3> QED BY <1>1, <3>1
    <2>2. p \in here /\ \A x \in here : p <= x BY <1>7, <2>1, LeastAbove
    <2>3. r = a
        <3>1. ~ (k >= n)
            <4> HIDE DEF k
            <4> QED BY <1>1, <1>7
        <3> QED BY <1>7, <3>1
    <2> HIDE DEF p
    <2>4. p \in w[k] /\ p >= o /\ p \in Int BY <2>1, <2>2
    <2>5. a \in S /\ a \div W = k /\ a % W = p /\ a \in Nat
        <3> HIDE DEF k
        <3> QED BY <1>1, <1>6, <1>7, <2>4
    <2> HIDE DEF a
    <2>6. a >= i
        <3>1. a < i <=> p < o BY <1>4, <2>5
        <3>2. ~ (p < o)
            <4> HIDE DEF o
            <4> QED BY <1>1, <2>4
        <3> QED BY <2>5, <3>1, <3>2
    <2>7. ASSUME NEW j \in S, j >= i PROVE a <= j
        <3>1. j \in Nat /\ j \div W \in Nat /\ ~ (j < i) BY <1>2, <2>7
        <3>2. CASE j \div W = k
            <4>1. ~ (j % W < o) BY <1>4, <3>1, <3>2
            <4>2. j % W \in here
                <5>1. j % W \in w[k] /\ j % W \in Positions BY <1>2, <3>2
                <5>2. j % W >= o
                    <6> DEFINE x == j % W
                    <6>1. x \in Positions /\ ~ (x < o) BY <4>1, <5>1
                    <6> HIDE DEF x, o
                    <6>2. x >= o BY <1>1, <6>1
                    <6> QED BY <6>2 DEF x
                <5> QED BY <5>1, <5>2
            <4>3. p <= j % W BY <2>2, <4>2
            <4>4. a <= j <=> a % W <= j % W BY <2>5, <3>1, <3>2, Places
            <4> QED BY <2>5, <4>3, <4>4
        <3>3. CASE j \div W > k
            <4>1. a \div W < j \div W
                <5> HIDE DEF k
                <5> QED BY <1>1, <2>5, <3>1, <3>3
            <4>2. a < j BY <2>5, <3>1, <4>1, Places
            <4> QED BY <2>5, <3>1, <4>2
        <3>4. ~ (j \div W < k) BY <1>4, <3>1
        <3>5. j \div W = k \/ j \div W > k
            <4> DEFINE q == j \div W
            <4>1. q \in Nat /\ ~ (q < k) BY <3>1, <3>4
            <4> HIDE DEF q, k
            <4>2. q = k \/ q > k BY <1>1, <4>1
            <4> QED BY <4>2 DEF q
        <3> QED BY <3>2, <3>3, <3>5
    <2> QED BY <2>3, <2>5, <2>6, <2>7 DEF FirstFrom, S
<1>8. CASE k < n /\ here = {} /\ later = {}
    <2>1. r = otherwise BY <1>8
    <2>2. ASSUME NEW j \in S PROVE j < i
        <3> DEFINE q == j \div W
                   p == j % W
        <3>1. q \in Nat /\ q < n /\ p \in w[q] /\ p \in Positions BY <1>2
        <3>2. ~ (q = k /\ p >= o)
            <4> SUFFICES ASSUME q = k, p >= o PROVE FALSE OBVIOUS
            <4>1. p \in here BY <3>1
            <4> QED BY <1>8, <4>1
        <3>3. ~ (q > k)
            <4> SUFFICES ASSUME q > k PROVE FALSE OBVIOUS
            <4>1. q \in k + 1 .. n - 1
                <5> HIDE DEF q, k
                <5> QED BY <1>1, <3>1
            <4>2. q \in later
                <5> HIDE DEF q
                <5> QED BY <3>1, <4>1
            <4> QED BY <1>8, <4>2
        <3>4. q < k \/ (q = k /\ p < o)
            <4> HIDE DEF q, k, p, o
            <4> QED BY <1>1, <3>1, <3>2, <3>3
        <3> QED BY <1>4, <3>4
    <2> QED BY <2>1, <2>2 DEF FirstFrom, S
<1>9. CASE k < n /\ here = {} /\ later # {}
    <2> DEFINE l == Min(later)
               p == Min(w[l])
               a == l * W + p
    <2>1. later \subseteq Int /\ \A x \in later : 0 <= x /\ x \in Nat /\ x > k /\ x < n /\ w[x] # {}
        <3> HIDE DEF k
        <3>1. later = {j \in k + 1 .. n - 1 : w[j] # {}} BY DEF k
        <3> QED BY <1>1, <3>1, SMTT(30)
    <2>2. l \in later /\ \A x \in later : l <= x
        <3>1. 0 \in Int /\ later \subseteq Int /\ later # {} /\ \A x \in later : 0 <= x BY <1>9, <2>1
        <3> QED BY <3>1, LeastAbove
    <2>3. r = a
        <3>1. ~ (k >= n)
            <4> HIDE DEF k
            <4> QED BY <1>1, <1>9
        <3> QED BY <1>9, <3>1
    <2> HIDE DEF l
    <2>4. l \in Nat /\ l > k /\ l < n /\ w[l] # {} BY <2>1, <2>2
    <2>5. w[l] \subseteq Int /\ \A x \in w[l] : 0 <= x BY <1>1, <1>3, <2>4
    <2>6. p \in w[l] /\ \A x \in w[l] : p <= x BY <2>4, <2>5, LeastAbove
    <2> HIDE DEF p
    <2>7. a \in S /\ a \div W = l /\ a % W = p /\ a \in Nat BY <1>6, <2>4, <2>6
    <2> HIDE DEF a
    <2>8. a >= i
        <3>1. i \div W < a \div W
            <4>1. k < l
                <5> HIDE DEF k
                <5> QED BY <1>1, <2>4
            <4> QED BY <2>7, <4>1
        <3>2. i < a BY <2>7, <3>1, Places
        <3> QED BY <2>7, <3>2
    <2>9. ASSUME NEW j \in S, j >= i PROVE a <= j
        <3> DEFINE q == j \div W
        <3>1. j \in Nat /\ q \in Nat /\ q < n /\ j % W \in w[q] /\ j % W \in Positions /\ ~ (j < i)
            BY <1>2, <2>9
        <3>2. ~ (q < k) BY <1>4, <3>1
        <3>3. q # k
            <4> SUFFICES ASSUME q = k PROVE FALSE OBVIOUS
            <4>1. ~ (j % W < o) BY <1>4, <3>1
            <4>2. j % W >= o
                <5> DEFINE x == j % W
                <5>1. x \in Positions /\ ~ (x < o) BY <3>1, <4>1
                <5> HIDE DEF x, o
                <5>2. x >= o BY <1>1, <5>1
                <5> QED BY <5>2 DEF x
            <4>3. j % W \in here BY <3>1, <4>2
            <4> QED BY <1>9, <4>3
        <3>4. q \in k + 1 .. n - 1
            <4> HIDE DEF q, k
            <4> QED BY <1>1, <3>1, <3>2, <3>3
        <3>5. q \in later
            <4> HIDE DEF q
            <4> QED BY <3>1, <3>4
        <3>6. l <= q BY <2>2, <3>5
        <3>7. CASE l = q
            <4>1. p <= j % W BY <2>6, <3>1, <3>7
            <4>2. a \div W = j \div W BY <2>7, <3>7
            <4>3. a <= j <=> a % W <= j % W BY <2>7, <3>1, <4>2, Places
            <4> QED BY <2>7, <4>1, <4>3
        <3>8. CASE l # q
            <4>1. l < q
                <5> HIDE DEF q
                <5> QED BY <2>4, <3>1, <3>6, <3>8
            <4>2. a < j BY <2>7, <3>1, <4>1, Places
            <4> QED BY <2>7, <3>1, <4>2
        <3> QED BY <3>7, <3>8
    <2> QED BY <2>3, <2>7, <2>8, <2>9 DEF FirstFrom, S
<1>10. k >= n \/ k < n
    <2> HIDE DEF k
    <2> QED BY <1>1
<1> QED BY <1>5, <1>7, <1>8, <1>9, <1>10

\* What the three searches find in a bitmap.
LEMMA Searches ==
    ASSUME NEW b, NEW s, Holds(b, s), NEW i \in Nat
    PROVE  /\ FirstFrom(NextSet(b, i), s, i, Infinity)
           /\ FirstFrom(FirstClear(b), {j \in Nat : j < Len(b) * W /\ j \notin s}, 0, Len(b) * W)
           /\ FirstFrom(NextClear(b, i), {j \in Nat : j < Len(b) * W /\ j \notin s}, i, i)
<1> DEFINE n == Len(b)
           clear == {j \in Nat : j < n * W /\ j \notin s}
           in == [k \in Nat |-> Word(b, k)]
           out == [k \in Nat |-> Positions \ Word(b, k)]
<1>1. Vector(b) /\ s \subseteq Nat /\ \A j \in Nat : j \in s <=> j % W \in Word(b, j \div W)
    BY BitsIs DEF Holds
<1>2. n \in Nat /\ \A k \in Nat : Word(b, k) \in SUBSET Positions BY <1>1, Vectors
<1>3. /\ in \in [Nat -> SUBSET Positions] /\ \A k \in Nat : in[k] = Word(b, k)
      /\ out \in [Nat -> SUBSET Positions] /\ \A k \in Nat : out[k] = Positions \ Word(b, k)
    BY <1>2
<1>4. \A j \in Nat : j \div W \in Nat /\ j % W \in Positions /\ (j < n * W <=> j \div W < n)
    <2> TAKE j \in Nat
    <2> HIDE DEF n
    <2> QED BY <1>2, Place, WordsBefore
<1> HIDE DEF in, out
<1>5. Named(in, n) = s
    <2>1. ASSUME NEW j \in Nat PROVE j \in Named(in, n) <=> j \in s
        <3>1. j % W \in Word(b, j \div W) => j \div W < n BY DEF Word
        <3>2. j \div W \in Nat BY <1>4
        <3>3. in[j \div W] = Word(b, j \div W) BY <1>3, <3>2
        <3> QED BY <1>1, <3>1, <3>3 DEF Named
    <2>2. Named(in, n) \subseteq Nat BY DEF Named
    <2> QED BY <1>1, <2>1, <2>2
<1>6. Named(out, n) = clear
    <2>1. ASSUME NEW j \in Nat PROVE j \in Named(out, n) <=> j \in clear
        <3>1. j \div W \in Nat /\ j % W \in Positions /\ (j < n * W <=> j \div W < n) BY <1>4
        <3>2. out[j \div W] = Positions \ Word(b, j \div W) BY <1>3, <3>1
        <3> QED BY <1>1, <3>1, <3>2 DEF Named
    <2>2. Named(out, n) \subseteq Nat /\ clear \subseteq Nat BY DEF Named
    <2> QED BY <2>1, <2>2
<1> HIDE DEF n, clear
<1>7. ASSUME NEW x \in Nat
      PROVE  /\ x \div W \in Nat
             /\ \A l : l = {j \in (x \div W) + 1 .. n - 1 : Word(b, j) # {}} /\ l # {}
                           => Min(l) \in Nat
             /\ \A l : l = {j \in (x \div W) + 1 .. n - 1 : Positions \ Word(b, j) # {}} /\ l # {}
                           => Min(l) \in Nat
    <2> DEFINE k == x \div W
    <2>1. k \in Nat BY Place
    <2> HIDE DEF k
    <2>2. ASSUME NEW l, l \subseteq k + 1 .. n - 1, l # {} PROVE Min(l) \in Nat
        <3>1. l \subseteq Nat BY <1>2, <2>1, <2>2
        <3> QED BY <2>2, <3>1, MinIsLeast
    <2>3. \A l : l = {j \in k + 1 .. n - 1 : Word(b, j) # {}} => l \subseteq k + 1 .. n - 1 OBVIOUS
    <2>4. \A l : l = {j \in k + 1 .. n - 1 : Positions \ Word(b, j) # {}} => l \subseteq k + 1 .. n - 1
        OBVIOUS
    <2> QED BY <2>1, <2>2, <2>3, <2>4 DEF k
<1>8. FirstFrom(NextSet(b, i), s, i, Infinity)
    <2> DEFINE k == i \div W
               here == {p \in Word(b, k) : p >= i % W}
               later == {j \in k + 1 .. n - 1 : Word(b, j) # {}}
               r == NextSet(b, i)
    <2>1. r = IF k >= n THEN Infinity
              ELSE IF here # {} THEN k * W + Min(here)
              ELSE IF later = {} THEN Infinity
              ELSE Min(later) * W + Min(Word(b, Min(later)))
        BY DEF NextSet, SearchFrom, n
    <2>2. k \in Nat /\ (later # {} => Min(later) \in Nat) BY <1>7
    <2>3. here = {p \in in[k] : p >= i % W} BY <1>3, <2>2
    <2>4. later = {j \in k + 1 .. n - 1 : in[j] # {}}
        <3> HIDE DEF k
        <3>1. \A j \in k + 1 .. n - 1 : in[j] = Word(b, j) BY <1>2, <1>3, <2>2
        <3> QED BY <3>1 DEF later
    <2>5. later # {} => Min(Word(b, Min(later))) = Min(in[Min(later)]) BY <1>3, <2>2
    <2> HIDE DEF r, here, later
    <2>6. r = IF k >= n THEN Infinity
              ELSE IF here # {} THEN k * W + Min(here)
              ELSE IF later = {} THEN Infinity
              ELSE Min(later) * W + Min(in[Min(later)])
        BY <2>1, <2>5
    <2>7. FirstFrom(r, Named(in, n), i, Infinity) BY <1>2, <1>3, <2>3, <2>4, <2>6, SearchIs
    <2> QED BY <1>5, <2>7 DEF r
<1>9. ASSUME NEW x \in Nat, NEW otherwise, NEW r, NEW here, NEW later,
             here = {p \in Positions \ Word(b, x \div W) : p >= x % W},
             later = {j \in (x \div W) + 1 .. n - 1 : Positions \ Word(b, j) # {}},
             r = IF x \div W >= n THEN otherwise
                 ELSE IF here # {} THEN (x \div W) * W + Min(here)
                 ELSE IF later = {} THEN otherwise
                 ELSE Min(later) * W + Min(Positions \ Word(b, Min(later)))
      PROVE  FirstFrom(r, clear, x, otherwise)
    <2> DEFINE k == x \div W
    <2>2. k \in Nat /\ (later # {} => Min(later) \in Nat) BY <1>7, <1>9
    <2>3. here = {p \in out[k] : p >= x % W} BY <1>3, <1>9, <2>2
    <2>4. later = {j \in k + 1 .. n - 1 : out[j] # {}}
        <3>0. later = {j \in k + 1 .. n - 1 : Positions \ Word(b, j) # {}} BY <1>9
        <3> HIDE DEF k
        <3>1. \A j \in k + 1 .. n - 1 : out[j] = Positions \ Word(b, j) BY <1>2, <1>3, <2>2
        <3> QED BY <3>0, <3>1
    <2>5. later # {} => Min(Positions \ Word(b, Min(later))) = Min(out[Min(later)]) BY <1>3, <2>2
    <2>6. r = IF k >= n THEN otherwise
              ELSE IF here # {} THEN k * W + Min(here)
              ELSE IF later = {} THEN otherwise
              ELSE Min(later) * W + Min(out[Min(later)])
        BY <1>9, <2>5
    <2>7. FirstFrom(r, Named(out, n), x, otherwise) BY <1>2, <1>3, <2>3, <2>4, <2>6, SearchIs
    <2> QED BY <1>6, <2>7
<1>10. FirstFrom(FirstClear(b), clear, 0, n * W)
    <2> DEFINE k == 0 \div W
               here == {p \in Positions \ Word(b, k) : p >= 0 % W}
               later == {j \in k + 1 .. n - 1 : Positions \ Word(b, j) # {}}
               r == FirstClear(b)
    <2>1. r = IF k >= n THEN n * W
              ELSE IF here # {} THEN k * W + Min(here)
              ELSE IF later = {} THEN n * W
              ELSE Min(later) * W + Min(Positions \ Word(b, Min(later)))
        BY DEF FirstClear, SearchFrom, n
    <2>2. /\ here = {p \in Positions \ Word(b, 0 \div W) : p >= 0 % W}
          /\ later = {j \in (0 \div W) + 1 .. n - 1 : Positions \ Word(b, j) # {}}
        OBVIOUS
    <2> HIDE DEF here, later, r
    <2>3. 0 \in Nat OBVIOUS
    <2>4. FirstFrom(r, clear, 0, n * W) BY <1>9, <2>1, <2>2, <2>3, Zenon
    <2> QED BY <2>4 DEF r
<1>11. FirstFrom(NextClear(b, i), clear, i, i)
    <2> DEFINE k == i \div W
               here == {p \in Positions \ Word(b, k) : p >= i % W}
               later == {j \in k + 1 .. n - 1 : Positions \ Word(b, j) # {}}
               r == NextClear(b, i)
    <2>1. r = IF k >= n THEN i
              ELSE IF here # {} THEN k * W + Min(here)
              ELSE IF later = {} THEN i
              ELSE Min(later) * W + Min(Positions \ Word(b, Min(later)))
        BY DEF NextClear, SearchFrom, n
    <2>2. /\ here = {p \in Positions \ Word(b, i \div W) : p >= i % W}
          /\ later = {j \in (i \div W) + 1 .. n - 1 : Positions \ Word(b, j) # {}}
        OBVIOUS
    <2> HIDE DEF here, later, r
    <2>4. FirstFrom(r, clear, i, i) BY <1>9, <2>1, <2>2, Zenon
    <2> QED BY <2>4 DEF r
<1> QED BY <1>8, <1>10, <1>11 DEF n, clear

\* Reading a field of bits, one word or two, gives the bits of it.
LEMMA FieldRead ==
    ASSUME NEW b, NEW s, Holds(b, s), NEW i \in Nat, NEW n \in 0 .. W
    PROVE  GetMultiple(b, i, n) = {j \in 0 .. n - 1 : i + j \in s}
<1> DEFINE k == i \div W
           o == i % W
           read == {j \in 0 .. n - 1 : o + j < W /\ o + j \in Word(b, k)}
                       \cup {j \in W - o .. n - 1 : o + j - W \in Word(b, k + 1)}
           field == {j \in 0 .. n - 1 : i + j \in s}
<1>1. W \in Nat \ {0} /\ k \in Nat /\ o \in 0 .. W - 1 BY Place DEF Positions
<1>2. GetMultiple(b, i, n) = read BY DEF GetMultiple
<1>3. \A j \in Nat : j \in s <=> j % W \in Word(b, j \div W) BY BitsIs DEF Holds
<1>4. ASSUME NEW j \in 0 .. n - 1
      PROVE  /\ o + j < W => (i + j \in s <=> o + j \in Word(b, k))
             /\ o + j >= W => (i + j \in s <=> o + j - W \in Word(b, k + 1))
    <2>1. j \in 0 .. W - 1 BY <1>1
    <2>2. /\ i + j \in Nat
          /\ o + j < W => (i + j) \div W = k /\ (i + j) % W = o + j
          /\ o + j >= W => (i + j) \div W = k + 1 /\ (i + j) % W = o + j - W
        BY <2>1, Offset
    <2> HIDE DEF k, o
    <2> QED BY <1>3, <2>2
<1> HIDE DEF k, o
<1>5. ASSUME NEW j \in 0 .. n - 1 PROVE j \in read <=> j \in field
    <2>1. CASE o + j < W
        <3>1. j \notin W - o .. n - 1 BY <1>1, <2>1
        <3> QED BY <1>4, <2>1, <3>1
    <2>2. CASE o + j >= W
        <3>1. j \in W - o .. n - 1 /\ ~ (o + j < W) BY <1>1, <2>2
        <3> QED BY <1>4, <2>2, <3>1
    <2> QED BY <1>1, <2>1, <2>2
<1>6. read \subseteq 0 .. n - 1 BY <1>1
<1>7. field \subseteq 0 .. n - 1 OBVIOUS
<1> HIDE DEF read, field
<1>8. read = field BY <1>5, <1>6, <1>7
<1> QED BY <1>2, <1>8 DEF field

\* The bitmap's promise (bitmap.h): after any changes of single bits, fields,
\* regions and whole bitmaps the words hold exactly the set, and every reading
\* and search answers as the set would, for every width of a word.
THEOREM BitmapSound == BitmapSpec => []BitmapIsSet
<1>1. BitmapInv => BitmapIsSet
    <2> SUFFICES ASSUME BitmapInv PROVE BitmapIsSet OBVIOUS
    <2>1. Holds(bitmap, bits) BY DEF BitmapInv
    <2> DEFINE m == Len(bitmap) * W
               clear == {j \in Nat : j < m /\ j \notin bits}
    <2>2. /\ bits \subseteq Nat /\ bits \subseteq 0 .. m - 1
          /\ \A i \in Nat : BitmapGet(bitmap, i) <=> i \in bits
        BY <2>1, BitsIs DEF Holds
    <2>3. m \in Nat
        <3>1. Len(bitmap) \in Nat /\ W \in Nat \ {0} BY <2>1, Vectors DEF Holds
        <3> QED BY <3>1
    <2>4. \A i \in Nat : /\ FirstFrom(NextSet(bitmap, i), bits, i, Infinity)
                         /\ FirstFrom(FirstClear(bitmap), clear, 0, m)
                         /\ FirstFrom(NextClear(bitmap, i), clear, i, i)
        BY <2>1, Searches
    <2> HIDE DEF m
    <2>5. ASSUME NEW i \in 0 .. m + 1
          PROVE  /\ BitmapGet(bitmap, i) <=> i \in bits
                 /\ NextSet(bitmap, i) = IF \A j \in bits : j < i THEN Infinity
                        ELSE CHOOSE j \in bits : j >= i /\ \A k \in bits : k >= i => k >= j
                 /\ \A n \in 0 .. W : GetMultiple(bitmap, i, n) = {j \in 0 .. n - 1 : i + j \in bits}
                 /\ FirstClear(bitmap) \notin bits /\ (i < FirstClear(bitmap) => i \in bits)
                 /\ (i .. m - 1) \subseteq bits \/ NextClear(bitmap, i) \notin bits
        <3>1. i \in Nat BY <2>3
        <3>2. BitmapGet(bitmap, i) <=> i \in bits BY <2>2, <3>1
        <3>3. NextSet(bitmap, i) = IF \A j \in bits : j < i THEN Infinity
                        ELSE CHOOSE j \in bits : j >= i /\ \A k \in bits : k >= i => k >= j
            <4> DEFINE r == NextSet(bitmap, i)
                       c == CHOOSE j \in bits : j >= i /\ \A k \in bits : k >= i => k >= j
            <4>1. FirstFrom(r, bits, i, Infinity) BY <2>4, <3>1
            <4> HIDE DEF r
            <4>2. CASE r = Infinity /\ \A j \in bits : j < i BY <4>2 DEF r
            <4>3. CASE r \in bits /\ r >= i /\ \A j \in bits : j >= i => r <= j
                <5>1. r \in bits /\ r \in Nat /\ r >= i /\ \A k \in bits : k >= i => k >= r
                    BY <2>2, <4>3
                <5>2. c \in bits /\ c >= i /\ \A k \in bits : k >= i => k >= c BY <5>1
                <5> HIDE DEF c
                <5>3. c = r BY <2>2, <5>1, <5>2
                <5>4. ~ \A j \in bits : j < i BY <3>1, <5>1
                <5> QED BY <5>3, <5>4 DEF c, r
            <4> QED BY <4>1, <4>2, <4>3 DEF FirstFrom
        <3>4. \A n \in 0 .. W : GetMultiple(bitmap, i, n) = {j \in 0 .. n - 1 : i + j \in bits}
            BY <2>1, <3>1, FieldRead
        <3>5. FirstClear(bitmap) \notin bits /\ (i < FirstClear(bitmap) => i \in bits)
            <4> DEFINE r == FirstClear(bitmap)
            <4>1. FirstFrom(r, clear, 0, m) BY <2>4, <3>1
            <4> HIDE DEF r
            <4>2. CASE r = m /\ \A j \in clear : j < 0
                <5>1. r \notin bits BY <2>2, <2>3, <4>2
                <5>2. i < r => i \in bits BY <2>3, <3>1, <4>2
                <5> QED BY <5>1, <5>2 DEF r
            <4>3. CASE r \in clear /\ r >= 0 /\ \A j \in clear : j >= 0 => r <= j
                <5>1. r \notin bits BY <4>3
                <5>2. i < r => i \in bits BY <2>3, <3>1, <4>3
                <5> QED BY <5>1, <5>2 DEF r
            <4> QED BY <4>1, <4>2, <4>3 DEF FirstFrom
        <3>6. (i .. m - 1) \subseteq bits \/ NextClear(bitmap, i) \notin bits
            <4> DEFINE r == NextClear(bitmap, i)
            <4>1. FirstFrom(r, clear, i, i) BY <2>4, <3>1
            <4> HIDE DEF r
            <4>2. CASE \A j \in clear : j < i
                <5>1. \A j \in i .. m - 1 : j \in bits BY <2>3, <3>1, <4>2
                <5> QED BY <5>1
            <4>3. CASE r \in clear BY <4>3 DEF r
            <4> QED BY <4>1, <4>2, <4>3 DEF FirstFrom
        <3> QED BY <3>2, <3>3, <3>4, <3>5, <3>6, Zenon
    <2>6. QueriesAgree BY <2>5, Zenon DEF QueriesAgree, m
    <2>7. Bits(bitmap) = bits BY <2>1 DEF Holds
    <2> QED BY <2>6, <2>7 DEF BitmapIsSet
<1> QED BY <1>1, BitmapInvariant, PTL

=============================================================================
