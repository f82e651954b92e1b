-------------------------------- MODULE Numbers ---------------------------------
(* Lemmas about numbers: \div and % by a number that is not known, least and    *)
(* greatest numbers of a set, induction, functions defined step by step, powers of 2,    *)
(* and sequences joined, which are two such functions.                          *)
EXTENDS Logarithms, SequencesExt, SequenceTheorems, WellFoundedInduction, TLAPS

-----------------------------------------------------------------------------
(* Division *)

\* The quotient and the remainder of a division by m.
LEMMA DivMod ==
    ASSUME NEW a \in Int, NEW m \in Nat \ {0}
    PROVE  /\ a \div m \in Int /\ a % m \in 0 .. m - 1
           /\ a = m * (a \div m) + (a % m)
OBVIOUS

\* No number has two of them.
LEMMA DivModUnique ==
    ASSUME NEW m \in Nat \ {0}, NEW q \in Int, NEW r \in 0 .. m - 1,
           NEW p \in Int, NEW s \in 0 .. m - 1, m * q + r = m * p + s
    PROVE  q = p /\ r = s
<1>1. CASE q > p
  <2>1. q - p >= 1 /\ m * (q - p) = s - r BY <1>1
  <2>2. m * (q - p) >= m BY <2>1
  <2> QED BY <2>1, <2>2
<1>2. CASE q < p
  <2>1. p - q >= 1 /\ m * (p - q) = r - s BY <1>2
  <2>2. m * (p - q) >= m BY <2>1
  <2> QED BY <2>1, <2>2
<1> QED BY <1>1, <1>2

\* What is written as quotient and remainder has them.
LEMMA DivModIs ==
    ASSUME NEW a \in Int, NEW m \in Nat \ {0}, NEW q \in Int, NEW r \in 0 .. m - 1, a = m * q + r
    PROVE  a % m = r /\ a \div m = q
BY DivMod, DivModUnique

\* Counting on by one, modulo m.
LEMMA NextModulo ==
    ASSUME NEW a \in Int, NEW m \in Nat \ {0}
    PROVE  (a + 1) % m = IF a % m = m - 1 THEN 0 ELSE (a % m) + 1
<1> DEFINE q == a \div m
           r == a % m
<1>1. q \in Int /\ r \in 0 .. m - 1 /\ a = m * q + r BY DivMod
<1>2. r = a % m OBVIOUS
<1> HIDE DEF q, r
<1>3. CASE r = m - 1
  <2>1. a + 1 = m * (q + 1) + 0 /\ q + 1 \in Int /\ 0 \in 0 .. m - 1 BY <1>1, <1>3
  <2>2. a + 1 \in Int OBVIOUS
  <2>3. (a + 1) % m = 0 BY <2>1, <2>2, DivModIs
  <2> QED BY <1>2, <1>3, <2>3
<1>4. CASE r # m - 1
  <2>1. a + 1 = m * q + (r + 1) /\ r + 1 \in 0 .. m - 1 /\ a + 1 \in Int BY <1>1, <1>4
  <2>2. (a + 1) % m = r + 1 BY <1>1, <2>1, DivModIs
  <2> QED BY <1>2, <1>4, <2>2
<1> QED BY <1>3, <1>4

\* Remainders of numbers not above twice m.
LEMMA LessThanTwice ==
    ASSUME NEW m \in Nat \ {0}, NEW a \in 0 .. 2 * m - 1
    PROVE  a % m = IF a < m THEN a ELSE a - m
<1>1. CASE a < m
  <2>1. a = m * 0 + a /\ a \in 0 .. m - 1 BY <1>1
  <2> QED BY <1>1, <2>1, DivModIs
<1>2. CASE a >= m
  <2>1. a = m * 1 + (a - m) /\ a - m \in 0 .. m - 1 BY <1>2
  <2> QED BY <1>2, <2>1, DivModIs
<1> QED BY <1>1, <1>2

\* Multiplying by m keeps the order, and one more is m more.
LEMMA Monotone ==
    ASSUME NEW m \in Nat \ {0}, NEW a \in Int, NEW b \in Int
    PROVE  /\ a <= b <=> m * a <= m * b
           /\ a < b <=> m * a < m * b
           /\ a < b <=> m * a + m <= m * b
           /\ m * a \in Int /\ m * (a + 1) = m * a + m
<1>1. a < b => m * a + m <= m * b
    <2> SUFFICES ASSUME a < b PROVE m * a + m <= m * b OBVIOUS
    <2>1. b - a - 1 \in Nat OBVIOUS
    <2>2. m * (b - a - 1) >= 0 BY <2>1
    <2>3. m * b = m * (b - a - 1) + m * a + m OBVIOUS
    <2> QED BY <2>2, <2>3
<1>2. b < a => m * b + m <= m * a
    <2> SUFFICES ASSUME b < a PROVE m * b + m <= m * a OBVIOUS
    <2>1. a - b - 1 \in Nat OBVIOUS
    <2>2. m * (a - b - 1) >= 0 BY <2>1
    <2>3. m * a = m * (a - b - 1) + m * b + m OBVIOUS
    <2> QED BY <2>2, <2>3
<1>3. m * a \in Int /\ m * b \in Int /\ m * (a + 1) = m * a + m OBVIOUS
<1> DEFINE x == m * a
           y == m * b
<1>4. (a < b => x + m <= y) /\ (b < a => y + m <= x) /\ x \in Int /\ y \in Int BY <1>1, <1>2, <1>3
<1>5. a = b => x = y OBVIOUS
<1> HIDE DEF x, y
<1>6. (a <= b <=> x <= y) /\ (a < b <=> x < y) /\ (a < b <=> x + m <= y) BY <1>4, <1>5
<1> QED BY <1>3, <1>6 DEF x, y

-----------------------------------------------------------------------------
(* Induction over numbers, by the least counterexample *)

\* A set of natural numbers has a least.
LEMMA MinIsLeast ==
    ASSUME NEW S, S \subseteq Nat, S # {}
    PROVE  Min(S) \in S /\ \A y \in S : Min(S) <= y
<1>1. PICK x \in S : \A y \in S : ~ (<<y, x>> \in OpToRel(<, Nat))
    BY NatLessThanWellFounded, WFMin
<1>2. \A y \in S : x <= y
    <2> SUFFICES ASSUME NEW y \in S, ~ (x <= y) PROVE FALSE OBVIOUS
    <2>1. <<y, x>> \in OpToRel(<, Nat) BY DEF OpToRel
    <2> QED BY <2>1, <1>1
<1> QED BY <1>2 DEF Min

\* A set of integers that is bounded below has a least.
LEMMA LeastAbove ==
    ASSUME NEW a \in Int, NEW S, S \subseteq Int, S # {}, \A x \in S : a <= x
    PROVE  Min(S) \in S /\ \A y \in S : Min(S) <= y
<1> DEFINE T == {x - a : x \in S}
<1>1. T \subseteq Nat /\ T # {}
    <2>1. \A x \in S : x \in Int /\ x - a \in Nat OBVIOUS
    <2>2. \A y \in T : y \in Nat BY <2>1
    <2> QED BY <2>2
<1>2. Min(T) \in T /\ \A y \in T : Min(T) <= y
    <2> HIDE DEF T
    <2> QED BY <1>1, MinIsLeast
<1>3. PICK x \in S : Min(T) = x - a BY <1>2
<1>4. \A y \in S : x <= y
    <2> TAKE y \in S
    <2>1. x - a <= y - a BY <1>2, <1>3
    <2> QED BY <2>1
<1> QED BY <1>4 DEF Min

\* One that is bounded above has a greatest.
LEMMA GreatestBelow ==
    ASSUME NEW a \in Int, NEW S, S \subseteq Int, S # {}, \A x \in S : x <= a
    PROVE  Max(S) \in S /\ \A y \in S : y <= Max(S)
<1> DEFINE T == {a - x : x \in S}
<1>1. T \subseteq Nat /\ T # {}
    <2>1. \A x \in S : x \in Int /\ a - x \in Nat OBVIOUS
    <2>2. \A y \in T : y \in Nat BY <2>1
    <2> QED BY <2>2
<1>2. Min(T) \in T /\ \A y \in T : Min(T) <= y
    <2> HIDE DEF T
    <2> QED BY <1>1, MinIsLeast
<1>3. PICK x \in S : Min(T) = a - x BY <1>2
<1>4. \A y \in S : x >= y
    <2> TAKE y \in S
    <2>1. a - x <= a - y BY <1>2, <1>3
    <2> QED BY <2>1
<1> QED BY <1>4 DEF Max

\* A set with 0 and with the successor of each of its numbers has them all.
LEMMA AllNumbers ==
    ASSUME NEW P, 0 \in P, \A k \in Nat : k \in P => k + 1 \in P
    PROVE  Nat \subseteq P
<1> SUFFICES ASSUME Nat \ P # {} PROVE FALSE OBVIOUS
<1> DEFINE k == Min(Nat \ P)
<1>1. k \in Nat \ P /\ \A y \in Nat \ P : k <= y BY MinIsLeast
<1> HIDE DEF k
<1>2. k # 0 /\ k - 1 \in Nat /\ k - 1 \in P BY <1>1
<1> QED BY <1>1, <1>2

\* And up to a bound likewise.
LEMMA AllNumbersUpTo ==
    ASSUME NEW n \in Nat, NEW P, 0 \in P, \A k \in 1 .. n : k - 1 \in P => k \in P
    PROVE  0 .. n \subseteq P
<1> DEFINE Q == {k \in Nat : k \in 0 .. n => k \in P}
<1>1. 0 \in Q OBVIOUS
<1>2. \A k \in Nat : k \in Q => k + 1 \in Q
    <2> SUFFICES ASSUME NEW k \in Nat, k \in Q, k + 1 \in 0 .. n PROVE k + 1 \in P OBVIOUS
    <2>1. k + 1 \in 1 .. n /\ k \in 0 .. n /\ (k + 1) - 1 = k OBVIOUS
    <2> QED BY <2>1
<1> HIDE DEF Q
<1>3. Nat \subseteq Q BY <1>1, <1>2, AllNumbers
<1> QED BY <1>3 DEF Q

\* f has the values of n steps from a, each of them in S; and of any number.
Stepped(f, S, a, step, n) ==
    f \in [0 .. n -> S] /\ f[0] = a /\ \A k \in 1 .. n : f[k] = step[f[k - 1]]
SteppedOn(f, S, a, step) ==
    f \in [Nat -> S] /\ f[0] = a /\ \A k \in Nat : f[k + 1] = step[f[k]]

\* The same when each step is another.
UnlikeStepped(f, S, a, n, step) ==
    f \in [0 .. n -> S] /\ f[0] = a /\ \A k \in 1 .. n : f[k] = step[k][f[k - 1]]

\* Steps can be taken as often as wanted, also when each is another: what
\* functions that are defined by recursion rest on.
LEMMA UnlikeSteps ==
    ASSUME NEW S, NEW a \in S, NEW n \in Nat, NEW step \in [1 .. n -> [S -> S]]
    PROVE  \E f : UnlikeStepped(f, S, a, n, step)
<1> DEFINE Good(f, k) == f[0] = a /\ \A j \in 1 .. k : f[j] = step[j][f[j - 1]]
           P == {k \in 0 .. n : \E f \in [0 .. n -> S] : Good(f, k)}
<1>1. 0 \in P
    <2> DEFINE g == [k \in 0 .. n |-> a]
    <2>1. g \in [0 .. n -> S] /\ g[0] = a OBVIOUS
    <2> HIDE DEF g
    <2>2. Good(g, 0) BY <2>1
    <2> QED BY <2>1, <2>2
<1>2. \A k \in 1 .. n : k - 1 \in P => k \in P
    <2> SUFFICES ASSUME NEW k \in 1 .. n, k - 1 \in P PROVE k \in P OBVIOUS
    <2>1. PICK f \in [0 .. n -> S] : Good(f, k - 1) OBVIOUS
    <2> DEFINE g == [f EXCEPT ![k] = step[k][f[k - 1]]]
    <2>2. k - 1 \in 0 .. n /\ k \in 0 .. n /\ f[k - 1] \in S /\ step[k][f[k - 1]] \in S OBVIOUS
    <2>3. g \in [0 .. n -> S] BY <2>2
    <2>4. \A j \in 0 .. n : g[j] = IF j = k THEN step[k][f[k - 1]] ELSE f[j] BY <2>2
    <2> HIDE DEF g
    <2>5. g[0] = a BY <2>1, <2>4
    <2>6. ASSUME NEW j \in 1 .. k PROVE g[j] = step[j][g[j - 1]]
        <3>1. j \in 0 .. n /\ j - 1 \in 0 .. n /\ j - 1 # k OBVIOUS
        <3>2. CASE j = k BY <3>1, <3>2, <2>4
        <3>3. CASE j # k
            <4>1. j \in 1 .. k - 1 BY <3>3
            <4> QED BY <3>1, <3>3, <4>1, <2>1, <2>4
        <3> QED BY <3>2, <3>3
    <2>7. Good(g, k) BY <2>5, <2>6
    <2> QED BY <2>2, <2>3, <2>7
<1>3. n \in P
    <2> HIDE DEF P
    <2>1. 0 .. n \subseteq P BY <1>1, <1>2, AllNumbersUpTo
    <2> QED BY <2>1
<1>4. PICK f \in [0 .. n -> S] : Good(f, n) BY <1>3
<1>5. UnlikeStepped(f, S, a, n, step) BY <1>4 DEF UnlikeStepped
<1> QED BY <1>5

\* The same when all steps are alike.
LEMMA StepsUpTo ==
    ASSUME NEW S, NEW a \in S, NEW step \in [S -> S], NEW n \in Nat
    PROVE  \E f : Stepped(f, S, a, step, n)
<1> DEFINE all == [k \in 1 .. n |-> step]
<1>1. all \in [1 .. n -> [S -> S]] /\ \A k \in 1 .. n : all[k] = step OBVIOUS
<1> HIDE DEF all
<1>2. PICK f : UnlikeStepped(f, S, a, n, all) BY <1>1, UnlikeSteps
<1>3. Stepped(f, S, a, step, n) BY <1>1, <1>2 DEF Stepped, UnlikeStepped
<1> QED BY <1>3

\* And for ever.
LEMMA Steps ==
    ASSUME NEW S, NEW a \in S, NEW step \in [S -> S]
    PROVE  \E f : SteppedOn(f, S, a, step)
<1> DEFINE F(n) == CHOOSE f : Stepped(f, S, a, step, n)
           f == [k \in Nat |-> F(k)[k]]
<1>1. ASSUME NEW n \in Nat
      PROVE  /\ F(n) \in [0 .. n -> S]
             /\ F(n)[0] = a /\ \A k \in 1 .. n : F(n)[k] = step[F(n)[k - 1]]
    <2>1. Stepped(F(n), S, a, step, n) BY StepsUpTo
    <2> HIDE DEF F
    <2> QED BY <2>1 DEF Stepped
<1>2. ASSUME NEW n \in Nat \ {0} PROVE F(n)[n - 1] = F(n - 1)[n - 1]
    <2> DEFINE P == {i \in 0 .. n - 1 : F(n)[i] = F(n - 1)[i]}
    <2>1. n - 1 \in Nat /\ n \in Nat OBVIOUS
    <2> HIDE DEF F
    <2>2. 0 \in P BY <2>1, <1>1
    <2>3. ASSUME NEW i \in 1 .. n - 1, i - 1 \in P PROVE i \in P
        <3>1. i \in 1 .. n /\ i \in 1 .. n - 1 /\ F(n)[i - 1] = F(n - 1)[i - 1] BY <2>3
        <3>2. F(n)[i] = step[F(n)[i - 1]] /\ F(n - 1)[i] = step[F(n - 1)[i - 1]]
            BY <3>1, <2>1, <1>1
        <3> QED BY <3>1, <3>2
    <2> HIDE DEF P
    <2>4. 0 .. n - 1 \subseteq P BY <2>1, <2>2, <2>3, AllNumbersUpTo
    <2> QED BY <2>1, <2>4 DEF P
<1> HIDE DEF F
<1>3. f \in [Nat -> S] BY <1>1
<1>4. f[0] = a BY <1>1
<1>5. ASSUME NEW k \in Nat PROVE f[k + 1] = step[f[k]]
    <2>1. k + 1 \in Nat \ {0} /\ k + 1 \in Nat /\ k + 1 \in 1 .. k + 1 /\ (k + 1) - 1 = k OBVIOUS
    <2>2. F(k + 1)[k + 1] = step[F(k + 1)[k]] BY <2>1, <1>1
    <2>3. F(k + 1)[k] = F(k)[k] BY <2>1, <1>2
    <2> QED BY <2>1, <2>2, <2>3
<1> HIDE DEF f
<1>6. SteppedOn(f, S, a, step) BY <1>3, <1>4, <1>5 DEF SteppedOn
<1> QED BY <1>6

-----------------------------------------------------------------------------
(* Powers of 2 *)

\* Pow2 is the function that its recursion describes.
LEMMA Powers ==
    /\ Pow2 \in [Nat -> Nat \ {0}] /\ Pow2[0] = 1
    /\ \A k \in Nat : Pow2[k + 1] = 2 * Pow2[k]
<1> DEFINE step == [x \in Nat \ {0} |-> 2 * x]
<1>1. 1 \in Nat \ {0} /\ step \in [Nat \ {0} -> Nat \ {0}]
    <2>1. \A x \in Nat \ {0} : 2 * x \in Nat \ {0} OBVIOUS
    <2> QED BY <2>1
<1>2. \A x \in Nat \ {0} : step[x] = 2 * x OBVIOUS
<1> HIDE DEF step
<1>3. PICK f : SteppedOn(f, Nat \ {0}, 1, step) BY <1>1, Steps
<1>4. \A k \in Nat : f[k] = IF k = 0 THEN 1 ELSE 2 * f[k - 1]
    <2> TAKE k \in Nat
    <2>1. CASE k = 0 BY <1>3, <2>1 DEF SteppedOn
    <2>2. CASE k # 0
        <3>1. k - 1 \in Nat /\ (k - 1) + 1 = k BY <2>2
        <3>2. f[k - 1] \in Nat \ {0} /\ f[(k - 1) + 1] = step[f[k - 1]]
            BY <1>3, <3>1 DEF SteppedOn
        <3> QED BY <1>2, <2>2, <3>1, <3>2
    <2> QED BY <2>1, <2>2
<1>5. f \in [Nat -> Nat \ {0}] BY <1>3 DEF SteppedOn
<1>12. f = [k \in Nat |-> IF k = 0 THEN 1 ELSE 2 * f[k - 1]] BY <1>4, <1>5
<1>6. \E g : g = [k \in Nat |-> IF k = 0 THEN 1 ELSE 2 * g[k - 1]] BY <1>12
<1>7. Pow2 = [k \in Nat |-> IF k = 0 THEN 1 ELSE 2 * Pow2[k - 1]]
    BY <1>6, Zenon DEF Pow2
<1>8. DOMAIN Pow2 = Nat /\ \A k \in Nat : Pow2[k] = IF k = 0 THEN 1 ELSE 2 * Pow2[k - 1]
    BY <1>7, Zenon
<1>9. \A k \in Nat : Pow2[k] = f[k]
    <2> DEFINE P == {k \in Nat : Pow2[k] = f[k]}
    <2>1. 0 \in P BY <1>4, <1>8
    <2>2. \A k \in Nat : k \in P => k + 1 \in P
        <3> SUFFICES ASSUME NEW k \in Nat, k \in P PROVE k + 1 \in P OBVIOUS
        <3>1. k + 1 \in Nat /\ k + 1 # 0 /\ (k + 1) - 1 = k /\ Pow2[k] = f[k] OBVIOUS
        <3>2. Pow2[k + 1] = 2 * Pow2[k] /\ f[k + 1] = 2 * f[k] BY <3>1, <1>4, <1>8
        <3> QED BY <3>1, <3>2
    <2> HIDE DEF P
    <2>3. Nat \subseteq P BY <2>1, <2>2, AllNumbers
    <2> QED BY <2>3 DEF P
<1>10. Pow2 = f BY <1>5, <1>7, <1>8, <1>9
<1>11. ASSUME NEW k \in Nat PROVE f[k + 1] = 2 * f[k]
    <2>1. k + 1 \in Nat /\ k + 1 # 0 /\ (k + 1) - 1 = k OBVIOUS
    <2> QED BY <2>1, <1>4
<1> QED BY <1>4, <1>5, <1>10, <1>11

\* Powers of 2 grow, and faster than numbers.
LEMMA PowersGrow ==
    /\ \A k \in Nat : k <= Pow2[k]
    /\ \A i, j \in Nat : i <= j => Pow2[i] <= Pow2[j]
<1>1. \A k \in Nat : k <= Pow2[k]
    <2> DEFINE P == {k \in Nat : k + 1 <= Pow2[k]}
    <2>1. 0 \in P BY Powers
    <2>2. \A k \in Nat : k \in P => k + 1 \in P
        <3> SUFFICES ASSUME NEW k \in Nat, k \in P PROVE k + 1 \in P OBVIOUS
        <3>1. Pow2[k] \in Nat /\ Pow2[k + 1] = 2 * Pow2[k] /\ k + 1 <= Pow2[k] BY Powers
        <3> QED BY <3>1
    <2> HIDE DEF P
    <2>3. Nat \subseteq P BY <2>1, <2>2, AllNumbers
    <2> QED BY <2>3, Powers DEF P
<1>2. ASSUME NEW i \in Nat, NEW j \in Nat, i <= j PROVE Pow2[i] <= Pow2[j]
    <2> DEFINE P == {d \in Nat : Pow2[i] <= Pow2[i + d]}
    <2>1. 0 \in P BY Powers
    <2>2. \A k \in Nat : k \in P => k + 1 \in P
        <3> SUFFICES ASSUME NEW k \in Nat, k \in P PROVE k + 1 \in P OBVIOUS
        <3>1. i + k \in Nat /\ i + (k + 1) = (i + k) + 1 OBVIOUS
        <3>2. /\ Pow2[i] \in Nat /\ Pow2[i + k] \in Nat
              /\ Pow2[(i + k) + 1] = 2 * Pow2[i + k] /\ Pow2[i] <= Pow2[i + k] BY <3>1, Powers
        <3>3. Pow2[i] <= Pow2[i + (k + 1)] BY <3>1, <3>2
        <3> QED BY <3>3
    <2> HIDE DEF P
    <2>3. Nat \subseteq P BY <2>1, <2>2, AllNumbers
    <2>4. j - i \in Nat /\ i + (j - i) = j BY <1>2
    <2>5. j - i \in P BY <2>3, <2>4
    <2> QED BY <2>4, <2>5 DEF P
<1> QED BY <1>1, <1>2

\* The logarithm that the code rounds up is one.
LEMMA Log2 ==
    ASSUME NEW x \in Nat
    PROVE  /\ MaxLog2(x) \in Nat /\ Pow2[MaxLog2(x)] >= x
           /\ MaxLog2(x) = 0 \/ Pow2[MaxLog2(x) - 1] < x
<1> DEFINE S == {k \in Nat : Pow2[k] >= x}
           k == Min(S)
<1>1. x \in S /\ S \subseteq Nat BY PowersGrow
<1>2. k \in S /\ \A y \in S : k <= y
    <2> HIDE DEF S
    <2> QED BY <1>1, MinIsLeast
<1> HIDE DEF k
<1>3. k \in 0 .. x /\ Pow2[k] >= x BY <1>1, <1>2
<1>4. k = 0 \/ Pow2[k - 1] < x
    <2> SUFFICES ASSUME k # 0 PROVE Pow2[k - 1] < x OBVIOUS
    <2>1. k - 1 \in Nat /\ k - 1 \notin S BY <1>2
    <2>2. Pow2[k - 1] \in Nat BY <2>1, Powers
    <2> QED BY <2>1, <2>2
<1>5. \E i \in 0 .. x : Pow2[i] >= x /\ (i = 0 \/ Pow2[i - 1] < x) BY <1>3, <1>4
<1> QED BY <1>5 DEF MaxLog2

-----------------------------------------------------------------------------
(* The sequences of a sequence, joined *)

\* What FlattenSeq computes, step by step.
InTurn(f, seqs) ==
    f[0] = <<>> /\ \A k \in 1 .. Len(seqs) : f[k] = f[k - 1] \o seqs[k]

\* FlattenSeq's recursion is over the sequences joined so far.
LEMMA FlattenIs ==
    ASSUME NEW S, NEW seqs \in Seq(Seq(S))
    PROVE  \E f \in [0 .. Len(seqs) -> Seq(S)] :
               InTurn(f, seqs) /\ FlattenSeq(seqs) = f[Len(seqs)]
<1> DEFINE n == Len(seqs)
           step == [k \in 1 .. n |-> [t \in Seq(S) |-> t \o seqs[k]]]
<1>1. n \in Nat /\ \A k \in 1 .. n : seqs[k] \in Seq(S) BY LenProperties, ElementOfSeq
<1>2. step \in [1 .. n -> [Seq(S) -> Seq(S)]]
    <2> SUFFICES ASSUME NEW k \in 1 .. n, NEW t \in Seq(S) PROVE t \o seqs[k] \in Seq(S)
        OBVIOUS
    <2> QED BY <1>1, ConcatProperties
<1>3. <<>> \in Seq(S) OBVIOUS
<1>4. \A k \in 1 .. n : \A t \in Seq(S) : step[k][t] = t \o seqs[k] OBVIOUS
<1> HIDE DEF step
<1>5. PICK f : UnlikeStepped(f, Seq(S), <<>>, n, step)
    <2> HIDE DEF n
    <2> QED BY <1>1, <1>2, <1>3, UnlikeSteps
<1>6. /\ f \in [0 .. n -> Seq(S)] /\ f[0] = <<>>
       /\ \A k \in 1 .. n : f[k] = step[k][f[k - 1]]
    BY <1>5 DEF UnlikeStepped
<1>7. InTurn(f, seqs)
    <2>1. ASSUME NEW k \in 1 .. n PROVE f[k] = f[k - 1] \o seqs[k]
        <3>1. k - 1 \in 0 .. n BY <1>1
        <3>2. f[k - 1] \in Seq(S) BY <3>1, <1>6
        <3>3. f[k] = step[k][f[k - 1]] BY <1>6
        <3> QED BY <3>2, <3>3, <1>4
    <2> QED BY <1>6, <2>1 DEF InTurn
<1>8. CASE n = 0
    <2>1. FlattenSeq(seqs) = <<>> BY <1>8 DEF FlattenSeq
    <2> QED BY <1>6, <1>7, <1>8, <2>1
<1>9. CASE n # 0
    <2> DEFINE Is(g) == g = [i \in 1 .. n |-> IF i = 1 THEN seqs[i] ELSE g[i - 1] \o seqs[i]]
               g == CHOOSE g : Is(g)
               h == [i \in 1 .. n |-> f[i]]
    <2>1. Is(h)
        <3> SUFFICES ASSUME NEW i \in 1 .. n
                     PROVE  f[i] = IF i = 1 THEN seqs[i] ELSE h[i - 1] \o seqs[i]
            OBVIOUS
        <3>1. f[i] = f[i - 1] \o seqs[i] BY <1>7 DEF InTurn
        <3>2. CASE i = 1
            <4>1. f[i - 1] = <<>> /\ seqs[i] \in Seq(S) BY <1>1, <1>6, <3>2
            <4>2. <<>> \o seqs[i] = seqs[i] BY <4>1, ConcatEmptySeq
            <4> QED BY <3>1, <3>2, <4>1, <4>2
        <3>3. CASE i # 1
            <4>1. i - 1 \in 1 .. n BY <1>1, <3>3
            <4>2. h[i - 1] = f[i - 1] BY <4>1
            <4> HIDE DEF h
            <4> QED BY <3>1, <3>3, <4>2
        <3> QED BY <3>2, <3>3
    <2>2. FlattenSeq(seqs) = g[n] BY <1>9 DEF FlattenSeq
    <2> HIDE DEF h
    <2>3. Is(g) BY <2>1
    <2> HIDE DEF g
    <2> DEFINE P == {k \in 0 .. n : k = 0 \/ g[k] = f[k]}
    <2>4. 0 \in P BY <1>1
    <2>5. ASSUME NEW k \in 1 .. n, k - 1 \in P PROVE k \in P
        <3>1. g[k] = IF k = 1 THEN seqs[k] ELSE g[k - 1] \o seqs[k] BY <2>3
        <3>2. f[k] = f[k - 1] \o seqs[k] BY <1>7 DEF InTurn
        <3>3. k \in 0 .. n BY <1>1
        <3>4. CASE k = 1
            <4>1. f[k - 1] = <<>> /\ seqs[k] \in Seq(S) BY <1>1, <1>6, <3>4
            <4>2. <<>> \o seqs[k] = seqs[k] BY <4>1, ConcatEmptySeq
            <4> QED BY <3>1, <3>2, <3>3, <3>4, <4>1, <4>2
        <3>5. CASE k # 1
            <4>1. g[k - 1] = f[k - 1] BY <2>5, <3>5
            <4> QED BY <3>1, <3>2, <3>3, <3>5, <4>1
        <3> QED BY <3>4, <3>5
    <2> HIDE DEF P
    <2>6. 0 .. n \subseteq P BY <1>1, <2>4, <2>5, AllNumbersUpTo
    <2>7. n \in P BY <1>1, <2>6
    <2>8. g[n] = f[n] BY <1>9, <2>7 DEF P
    <2> QED BY <1>6, <1>7, <2>2, <2>8
<1> QED BY <1>8, <1>9

=================================================================================
