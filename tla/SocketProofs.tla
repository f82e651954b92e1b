------------------------------ MODULE SocketProofs ------------------------------
(***************************************************************************)
(* The socket keeps its two streams, for every number of bytes and every   *)
(* pattern of adds, writes, reads and failures: what writev took is a      *)
(* prefix of what joined the fifo until a write completes a buffer that    *)
(* was partly sent before, and rx_buffer is what read delivered until a    *)
(* read fails for good.                                                    *)
(***************************************************************************)
EXTENDS Socket, Numbers, SequenceTheorems

\* Buffers as clib_socket_tx may find them in the fifo: none empty, none wholly
\* sent, and none but the first partly sent.
Buffers == [bytes : Seq(TxBytes), offset : Nat]
WellFormed(bufs) ==
    /\ bufs \in Seq(Buffers)
    /\ \A i \in 1 .. Len(bufs) :
          /\ Len(bufs[i].bytes) \in 1 .. MaxTx
          /\ bufs[i].offset < (IF i = 1 THEN Len(bufs[i].bytes) ELSE 1)

\* The inductive invariant: of the transmitting half, and of the receiving half.
TxInv ==
    /\ current \in Seq(TxBytes) /\ WellFormed(fifo)
    /\ joined \in Seq(TxBytes) /\ wire \in Seq(TxBytes)
    /\ added \in 0 .. MaxTx /\ Len(current) <= added
    /\ resumed \in BOOLEAN /\ asserted \in BOOLEAN
    /\ resumed \/ (StreamInOrder /\ ~ asserted)
RxInv ==
    /\ rxBuffer \in Seq(RxBytes \cup {Garbage}) /\ consumed \in Seq(RxBytes \cup {Garbage})
    /\ endOfFile \in BOOLEAN /\ readFailed \in BOOLEAN /\ peerClosed \in BOOLEAN
    /\ peerSent \in 0 .. MaxRx /\ arrived \in 0 .. peerSent
    /\ RxStreamUntilFailure
IInv == TxInv /\ RxInv

-----------------------------------------------------------------------------
(* Sequences *)

\* ConcatAssociative in a form that the provers apply.
Associative(T) == \A s, t, u \in T : (s \o t) \o u = s \o (t \o u)

LEMMA Regroup ==
    ASSUME NEW S
    PROVE  Associative(Seq(S))
<1> SUFFICES ASSUME NEW s \in Seq(S), NEW t \in Seq(S), NEW u \in Seq(S)
             PROVE  (s \o t) \o u = s \o (t \o u)
    BY DEF Associative
<1> QED BY ConcatAssociative

\* An element put before a sequence.
Before(new, S, b, t) ==
    /\ new \in Seq(S) /\ Len(new) = Len(t) + 1 /\ new # <<>>
    /\ Head(new) = b /\ Tail(new) = t
    /\ \A i \in 1 .. Len(t) + 1 : new[i] = IF i = 1 THEN b ELSE t[i - 1]

LEMMA OneBefore ==
    ASSUME NEW S, NEW b \in S, NEW t \in Seq(S)
    PROVE  Before(<<b>> \o t, S, b, t)
<1> DEFINE new == <<b>> \o t
<1>1. new \in Seq(S) /\ Len(new) = Len(t) + 1 /\ new # <<>> OBVIOUS
<1>2. Head(new) = b /\ Tail(new) = t OBVIOUS
<1>3. \A i \in 1 .. Len(t) + 1 : new[i] = IF i = 1 THEN b ELSE t[i - 1] OBVIOUS
<1> HIDE DEF new
<1>4. Before(new, S, b, t) BY <1>1, <1>2, <1>3 DEF Before
<1> QED BY <1>4 DEF new

\* A sequence is taken apart where it was put together.
LEMMA ConcatParts ==
    ASSUME NEW S, NEW s \in Seq(S), NEW t \in Seq(S)
    PROVE  /\ SubSeq(s \o t, 1, Len(s)) = s
           /\ SubSeq(s \o t, Len(s) + 1, Len(s) + Len(t)) = t
<1>1. s \o t \in Seq(S) /\ Len(s \o t) = Len(s) + Len(t) /\ Len(s) \in Nat /\ Len(t) \in Nat
    BY ConcatProperties, LenProperties
<1>2. SubSeq(s \o t, 1, Len(s)) = s
    <2> DEFINE u == SubSeq(s \o t, 1, Len(s))
    <2>1. \A i \in 1 .. Len(s) : (s \o t)[i] = s[i] /\ s[i] \in S
        BY <1>1, ConcatProperties, ElementOfSeq
    <2>2. u \in Seq(S) /\ Len(u) = Len(s) /\ \A i \in 1 .. Len(s) : u[i] = (s \o t)[i]
        BY <1>1, <2>1, SubSeqProperties
    <2> HIDE DEF u
    <2> QED BY <2>1, <2>2, SeqEqual DEF u
<1>3. SubSeq(s \o t, Len(s) + 1, Len(s) + Len(t)) = t
    <2> DEFINE u == SubSeq(s \o t, Len(s) + 1, Len(s) + Len(t))
    <2>1. \A i \in 1 .. Len(t) : (s \o t)[Len(s) + i] = t[i]
        BY <1>1, ConcatProperties
    <2>2. \A i \in Len(s) + 1 .. Len(s) + Len(t) : (s \o t)[i] \in S
        BY <1>1, ElementOfSeq
    <2>3. u \in Seq(S) /\ Len(u) = Len(t) /\ \A i \in 1 .. Len(t) : u[i] = (s \o t)[Len(s) + i]
        BY <1>1, <2>2, SubSeqProperties
    <2> HIDE DEF u
    <2> QED BY <2>1, <2>3, SeqEqual DEF u
<1> QED BY <1>2, <1>3

\* A sequence is its first n elements and the rest.
LEMMA SplitAt ==
    ASSUME NEW S, NEW s \in Seq(S), NEW n \in 0 .. Len(s)
    PROVE  /\ SubSeq(s, 1, n) \in Seq(S) /\ Len(SubSeq(s, 1, n)) = n
           /\ SubSeq(s, n + 1, Len(s)) \in Seq(S)
           /\ Len(SubSeq(s, n + 1, Len(s))) = Len(s) - n
           /\ SubSeq(s, 1, n) \o SubSeq(s, n + 1, Len(s)) = s
<1>1. Len(s) \in Nat /\ n \in Int /\ n + 1 \in Int /\ 1 \in 1 .. Len(s) + 1 /\ n \in 1 - 1 .. Len(s)
      /\ Len(s) \in n .. Len(s)
    BY LenProperties
<1>2. \A i \in 1 .. Len(s) : s[i] \in S BY ElementOfSeq
<1>3. SubSeq(s, 1, n) \in Seq(S) /\ Len(SubSeq(s, 1, n)) = n
    BY <1>1, <1>2, SubSeqProperties
<1>4. SubSeq(s, n + 1, Len(s)) \in Seq(S) /\ Len(SubSeq(s, n + 1, Len(s))) = Len(s) - n
    BY <1>1, <1>2, SubSeqProperties
<1>5. SubSeq(s, 1, n) \o SubSeq(s, n + 1, Len(s)) = SubSeq(s, 1, Len(s))
    BY <1>1, ConcatAdjacentSubSeq
<1> QED BY <1>3, <1>4, <1>5, SubSeqFull

\* A sequence that is not empty is its head and its tail.
LEMMA HeadThenTail ==
    ASSUME NEW S, NEW s \in Seq(S), s # <<>>
    PROVE  /\ Len(s) \in Nat \ {0} /\ Head(s) = s[1] /\ Head(s) \in S /\ Tail(s) \in Seq(S)
           /\ Len(Tail(s)) = Len(s) - 1
           /\ \A i \in 1 .. Len(s) - 1 : Tail(s)[i] = s[i + 1]
           /\ s = <<Head(s)>> \o Tail(s)
<1>1. Len(s) \in Nat \ {0} BY EmptySeq
<1>2. Head(s) = s[1] OBVIOUS
<1>3. Head(s) \in S /\ Tail(s) \in Seq(S) /\ Len(Tail(s)) = Len(s) - 1
      /\ \A i \in 1 .. Len(s) - 1 : Tail(s)[i] = s[i + 1]
    BY HeadTailProperties
<1>4. s = <<Head(s)>> \o Tail(s)
    <2>1. SubSeq(s, 1, Len(s)) = <<s[1]>> \o SubSeq(s, 1 + 1, Len(s))
        BY <1>1, SubSeqRecursiveFirst
    <2>2. SubSeq(s, 1 + 1, Len(s)) = Tail(s) BY TailIsSubSeq
    <2> QED BY <1>2, <2>1, <2>2, SubSeqFull
<1> QED BY <1>1, <1>2, <1>3, <1>4

-----------------------------------------------------------------------------
(* The bytes of several buffers *)

\* FlattenSeq at the ends of a sequence of sequences.
LEMMA FlattenEmpty == FlattenSeq(<<>>) = <<>>
BY DEF FlattenSeq

LEMMA FlattenType ==
    ASSUME NEW S, NEW seqs \in Seq(Seq(S))
    PROVE  FlattenSeq(seqs) \in Seq(S)
<1>1. PICK f \in [0 .. Len(seqs) -> Seq(S)] : FlattenSeq(seqs) = f[Len(seqs)] BY FlattenIs
<1>2. Len(seqs) \in 0 .. Len(seqs) BY LenProperties
<1> QED BY <1>1, <1>2

LEMMA FlattenAppend ==
    ASSUME NEW S, NEW seqs \in Seq(Seq(S)), NEW t \in Seq(S)
    PROVE  FlattenSeq(Append(seqs, t)) = FlattenSeq(seqs) \o t
<1> DEFINE n == Len(seqs)
           more == Append(seqs, t)
<1>1. n \in Nat BY LenProperties
<1>2. /\ more \in Seq(Seq(S)) /\ Len(more) = n + 1 /\ more[n + 1] = t
      /\ \A k \in 1 .. n : more[k] = seqs[k]
    <2> DEFINE T == Seq(S)
    <2> HIDE DEF T
    <2>1. seqs \in Seq(T) /\ t \in T BY DEF T
    <2> QED BY <2>1, AppendProperties DEF T
<1> HIDE DEF more
<1>3. PICK f \in [0 .. n -> Seq(S)] : InTurn(f, seqs) /\ FlattenSeq(seqs) = f[n]
    BY FlattenIs
<1>4. PICK g \in [0 .. n + 1 -> Seq(S)] : InTurn(g, more) /\ FlattenSeq(more) = g[n + 1]
    BY <1>2, FlattenIs
<1> DEFINE P == {k \in 0 .. n : f[k] = g[k]}
<1>5. 0 \in P BY <1>1, <1>3, <1>4 DEF InTurn
<1>6. ASSUME NEW k \in 1 .. n, k - 1 \in P PROVE k \in P
    <2>1. f[k] = f[k - 1] \o seqs[k] BY <1>3 DEF InTurn
    <2>2. k \in 1 .. n + 1 /\ k \in 0 .. n BY <1>1
    <2>3. g[k] = g[k - 1] \o more[k] BY <1>2, <1>4, <2>2 DEF InTurn
    <2>4. f[k - 1] = g[k - 1] /\ more[k] = seqs[k] BY <1>2, <1>6
    <2> QED BY <2>1, <2>2, <2>3, <2>4
<1> HIDE DEF P
<1>7. 0 .. n \subseteq P BY <1>1, <1>5, <1>6, AllNumbersUpTo
<1>8. n \in P BY <1>1, <1>7
<1>9. g[n] = f[n] BY <1>8 DEF P
<1>10. n + 1 \in 1 .. n + 1 /\ (n + 1) - 1 = n BY <1>1
<1>11. g[n + 1] = g[n] \o more[n + 1] BY <1>2, <1>4, <1>10 DEF InTurn
<1> QED BY <1>2, <1>3, <1>4, <1>9, <1>11 DEF more

LEMMA FlattenHead ==
    ASSUME NEW S, NEW seqs \in Seq(Seq(S)), seqs # <<>>
    PROVE  FlattenSeq(seqs) = Head(seqs) \o FlattenSeq(Tail(seqs))
<1> DEFINE rest == Tail(seqs)
           n == Len(rest)
           h == Head(seqs)
<1>1. /\ Len(seqs) \in Nat /\ n \in Nat /\ Len(seqs) = n + 1
      /\ rest \in Seq(Seq(S)) /\ h \in Seq(S) /\ h = seqs[1]
      /\ \A k \in 1 .. n : rest[k] = seqs[k + 1]
    <2> DEFINE T == Seq(S)
    <2> HIDE DEF T
    <2>1. seqs \in Seq(T) BY DEF T
    <2>2. /\ Len(seqs) \in Nat \ {0} /\ h = seqs[1] /\ h \in T /\ rest \in Seq(T)
          /\ n = Len(seqs) - 1 /\ \A k \in 1 .. Len(seqs) - 1 : rest[k] = seqs[k + 1]
        BY <2>1, HeadThenTail
    <2> QED BY <2>2 DEF T
<1> HIDE DEF rest, h
<1>2. PICK f \in [0 .. n + 1 -> Seq(S)] : InTurn(f, seqs) /\ FlattenSeq(seqs) = f[n + 1]
    BY <1>1, FlattenIs
<1>3. PICK g \in [0 .. n -> Seq(S)] : InTurn(g, rest) /\ FlattenSeq(rest) = g[n]
    BY <1>1, FlattenIs
<1> HIDE DEF n
<1>4. f[0] = <<>> /\ \A k \in 1 .. n + 1 : f[k] = f[k - 1] \o seqs[k]
    BY <1>1, <1>2 DEF InTurn
<1>5. g[0] = <<>> /\ \A k \in 1 .. n : g[k] = g[k - 1] \o rest[k]
    BY <1>3 DEF InTurn, n
<1> DEFINE P == {k \in 0 .. n : f[k + 1] = h \o g[k]}
<1>6. 0 \in P
    <2>1. 1 \in 1 .. n + 1 /\ 0 \in 0 .. n BY <1>1
    <2>2. f[1] = f[0] \o seqs[1]
        <3> SUFFICES ASSUME NEW k \in 1 .. n + 1, k = 1 PROVE f[k] = f[0] \o seqs[k] BY <2>1
        <3>1. f[k] = f[k - 1] \o seqs[k] BY <1>4, Zenon
        <3>2. k - 1 = 0 OBVIOUS
        <3> QED BY <3>1, <3>2, Zenon
    <2>3. h \in Seq(S) /\ h = seqs[1] BY <1>1
    <2>4. <<>> \o h = h /\ h \o <<>> = h BY <2>3, ConcatEmptySeq
    <2>5. f[1] = h \o g[0] BY <1>4, <1>5, <2>2, <2>3, <2>4
    <2> QED BY <2>1, <2>5
<1>7. Associative(Seq(S)) BY Regroup
<1>8. ASSUME NEW k \in 1 .. n, k - 1 \in P PROVE k \in P
    <2>1. k + 1 \in 1 .. n + 1 /\ (k + 1) - 1 = k /\ k \in 0 .. n /\ k - 1 \in 0 .. n
          /\ (k - 1) + 1 = k
        BY <1>1
    <2>2. f[k + 1] = f[k] \o seqs[k + 1] BY <1>4, <2>1
    <2>3. f[k] = h \o g[k - 1] BY <1>8, <2>1
    <2>4. g[k] = g[k - 1] \o rest[k] /\ rest[k] = seqs[k + 1] BY <1>1, <1>5
    <2>5. g[k - 1] \in Seq(S) BY <1>3, <2>1
    <2>6. h \in Seq(S) /\ rest[k] \in Seq(S) BY <1>1, ElementOfSeq DEF n
    <2>7. (h \o g[k - 1]) \o rest[k] = h \o (g[k - 1] \o rest[k])
        BY <1>7, <2>5, <2>6, Zenon DEF Associative
    <2>8. f[k + 1] = h \o g[k] BY <2>2, <2>3, <2>4, <2>7
    <2> QED BY <2>1, <2>8
<1> HIDE DEF P
<1>9. 0 .. n \subseteq P BY <1>1, <1>6, <1>8, AllNumbersUpTo
<1>10. n \in P BY <1>1, <1>9
<1>11. f[n + 1] = h \o g[n] BY <1>10 DEF P
<1> QED BY <1>2, <1>3, <1>11 DEF rest, h

\* What is unsent of one buffer.
LEMMA UnsentIs ==
    ASSUME NEW b \in Buffers, b.offset <= Len(b.bytes)
    PROVE  /\ Unsent(b) \in Seq(TxBytes) /\ Len(Unsent(b)) = Len(b.bytes) - b.offset
           /\ Len(b.bytes) \in Nat /\ b.offset \in Nat
           /\ b.bytes \in Seq(TxBytes)
           /\ b.offset = 0 => Unsent(b) = b.bytes
<1>1. b.bytes \in Seq(TxBytes) /\ b.offset \in Nat BY DEF Buffers
<1>2. Len(b.bytes) \in Nat BY <1>1, LenProperties
<1>3. b.offset \in 0 .. Len(b.bytes) BY <1>1, <1>2
<1>4. Unsent(b) \in Seq(TxBytes) /\ Len(Unsent(b)) = Len(b.bytes) - b.offset
    BY <1>1, <1>3, SplitAt DEF Unsent
<1>5. ASSUME b.offset = 0 PROVE Unsent(b) = b.bytes
    <2>1. b.offset + 1 = 1 BY <1>5
    <2> QED BY <1>1, <2>1, SubSeqFull DEF Unsent
<1> QED BY <1>1, <1>2, <1>4, <1>5

\* The iovecs are sequences of bytes.
LEMMA IovecsAre ==
    ASSUME NEW bufs \in Seq(Buffers)
    PROVE  /\ Iovecs(bufs) \in Seq(Seq(TxBytes)) /\ Len(Iovecs(bufs)) = Len(bufs)
           /\ \A i \in 1 .. Len(bufs) : Iovecs(bufs)[i] = Unsent(bufs[i])
<1>1. Len(bufs) \in Nat BY LenProperties
<1>2. ASSUME NEW i \in 1 .. Len(bufs) PROVE Unsent(bufs[i]) \in Seq(TxBytes)
    <2>1. bufs[i] \in Buffers BY ElementOfSeq
    <2> DEFINE b == bufs[i]
    <2> HIDE DEF b
    <2>2. b \in Buffers BY <2>1 DEF b
    <2>3. b.bytes \in Seq(TxBytes) /\ b.offset \in Nat BY <2>2 DEF Buffers
    <2>4. Len(b.bytes) \in Nat BY <2>3, LenProperties
    <2>5. \A j \in b.offset + 1 .. Len(b.bytes) : b.bytes[j] \in TxBytes
        BY <2>3, <2>4, ElementOfSeq
    <2>6. Unsent(b) \in Seq(TxBytes) BY <2>3, <2>4, <2>5, SubSeqProperties DEF Unsent
    <2> QED BY <2>6 DEF b
<1>3. Iovecs(bufs) \in [1 .. Len(bufs) -> Seq(TxBytes)] BY <1>2 DEF Iovecs
<1>4. Iovecs(bufs) \in Seq(Seq(TxBytes)) /\ Len(Iovecs(bufs)) = Len(bufs)
    <2> DEFINE T == Seq(TxBytes)
               v == Iovecs(bufs)
               n == Len(bufs)
    <2>1. v \in [1 .. n -> T] /\ n \in Nat BY <1>1, <1>3
    <2> HIDE DEF T, v, n
    <2>2. v \in Seq(T) /\ Len(v) = n BY <2>1
    <2> QED BY <2>2 DEF T, v, n
<1>5. \A i \in 1 .. Len(bufs) : Iovecs(bufs)[i] = Unsent(bufs[i]) BY DEF Iovecs
<1> QED BY <1>4, <1>5

LEMMA PendingType ==
    ASSUME NEW bufs \in Seq(Buffers)
    PROVE  Pending(bufs) \in Seq(TxBytes) /\ Len(Pending(bufs)) \in Nat
<1>1. Iovecs(bufs) \in Seq(Seq(TxBytes)) BY IovecsAre
<1>2. Pending(bufs) \in Seq(TxBytes) BY <1>1, FlattenType DEF Pending
<1> QED BY <1>2, LenProperties

LEMMA PendingEmpty == Pending(<<>>) = <<>>
<1>1. <<>> \in Seq(Buffers) /\ Len(<<>>) = 0 OBVIOUS
<1>2. Iovecs(<<>>) = <<>> BY DEF Iovecs
<1> QED BY <1>2, FlattenEmpty DEF Pending

\* A buffer added at the tail.
LEMMA PendingAppend ==
    ASSUME NEW bufs \in Seq(Buffers), NEW b \in Buffers
    PROVE  Pending(Append(bufs, b)) = Pending(bufs) \o Unsent(b)
<1> DEFINE more == Append(bufs, b)
           v == Iovecs(bufs)
           u == Unsent(b)
           n == Len(bufs)
<1>1. /\ more \in Seq(Buffers) /\ Len(more) = n + 1 /\ more[n + 1] = b
      /\ \A i \in 1 .. n : more[i] = bufs[i]
    BY AppendProperties
<1>2. n \in Nat BY LenProperties
<1>3. v \in Seq(Seq(TxBytes)) /\ Len(v) = n /\ \A i \in 1 .. n : v[i] = Unsent(bufs[i])
    BY IovecsAre
<1>4. /\ Iovecs(more) \in Seq(Seq(TxBytes)) /\ Len(Iovecs(more)) = n + 1
      /\ \A i \in 1 .. n + 1 : Iovecs(more)[i] = Unsent(more[i])
    <2> HIDE DEF more
    <2> QED BY <1>1, IovecsAre
<1>5. u \in Seq(TxBytes)
    <2>1. n + 1 \in 1 .. n + 1 BY <1>2
    <2>2. Iovecs(more)[n + 1] = u BY <1>1, <1>4, <2>1
    <2> HIDE DEF u, more
    <2> QED BY <1>4, <2>1, <2>2, ElementOfSeq
<1>6. Iovecs(more) = Append(v, u)
    <2> DEFINE T == Seq(TxBytes)
               w == Iovecs(more)
    <2>1. v \in Seq(T) /\ u \in T /\ w \in Seq(T) /\ Len(v) = n /\ Len(w) = n + 1
        BY <1>3, <1>4, <1>5
    <2>2. \A i \in 1 .. n : w[i] = v[i] BY <1>1, <1>2, <1>3, <1>4
    <2>3. w[n + 1] = u BY <1>1, <1>2, <1>4
    <2> HIDE DEF T, u, v, w, more, n
    <2>4. /\ Append(v, u) \in Seq(T) /\ Len(Append(v, u)) = n + 1
          /\ \A i \in 1 .. n : Append(v, u)[i] = v[i]
          /\ Append(v, u)[n + 1] = u
        BY <2>1, AppendProperties
    <2>5. \A i \in 1 .. n + 1 : w[i] = Append(v, u)[i] BY <1>2, <2>2, <2>3, <2>4
    <2>6. w = Append(v, u) BY <2>1, <2>4, <2>5, SeqEqual
    <2> QED BY <2>6 DEF w
<1> HIDE DEF more, v, u
<1>7. FlattenSeq(Append(v, u)) = FlattenSeq(v) \o u BY <1>3, <1>5, FlattenAppend
<1> QED BY <1>6, <1>7 DEF Pending, more, v, u

\* A buffer at the head.
LEMMA PendingHead ==
    ASSUME NEW bufs \in Seq(Buffers), bufs # <<>>
    PROVE  Pending(bufs) = Unsent(Head(bufs)) \o Pending(Tail(bufs))
<1> DEFINE rest == Tail(bufs)
           v == Iovecs(bufs)
           n == Len(rest)
<1>1. /\ Len(bufs) \in Nat /\ n \in Nat /\ Len(bufs) = n + 1 /\ Head(bufs) = bufs[1]
      /\ rest \in Seq(Buffers) /\ \A i \in 1 .. n : rest[i] = bufs[i + 1]
    BY HeadThenTail
<1>2. /\ v \in Seq(Seq(TxBytes)) /\ Len(v) = n + 1
      /\ \A i \in 1 .. n + 1 : v[i] = Unsent(bufs[i])
    BY <1>1, IovecsAre
<1>3. /\ Iovecs(rest) \in Seq(Seq(TxBytes)) /\ Len(Iovecs(rest)) = n
      /\ \A i \in 1 .. n : Iovecs(rest)[i] = Unsent(rest[i])
    <2> HIDE DEF rest
    <2> QED BY <1>1, IovecsAre
<1> HIDE DEF rest, v, n
<1>4. /\ v # <<>> /\ Head(v) = v[1] /\ Tail(v) \in Seq(Seq(TxBytes)) /\ Len(Tail(v)) = n
      /\ \A i \in 1 .. n : Tail(v)[i] = v[i + 1]
    <2> DEFINE T == Seq(TxBytes)
    <2> HIDE DEF T
    <2>1. v \in Seq(T) /\ Len(v) = n + 1 BY <1>2 DEF T
    <2>2. v # <<>> BY <1>1, <2>1, EmptySeq
    <2>3. /\ Head(v) = v[1] /\ Tail(v) \in Seq(T) /\ Len(Tail(v)) = Len(v) - 1
          /\ \A i \in 1 .. Len(v) - 1 : Tail(v)[i] = v[i + 1]
        BY <2>1, <2>2, HeadThenTail
    <2>4. Len(v) - 1 = n BY <1>1, <2>1
    <2> QED BY <2>2, <2>3, <2>4 DEF T
<1>5. Head(v) = Unsent(Head(bufs)) BY <1>1, <1>2, <1>4
<1>6. Tail(v) = Iovecs(rest)
    <2> DEFINE T == Seq(TxBytes)
               w == Iovecs(rest)
               t == Tail(v)
    <2>1. t \in Seq(T) /\ w \in Seq(T) /\ Len(t) = n /\ Len(w) = n BY <1>3, <1>4
    <2>2. ASSUME NEW i \in 1 .. n PROVE t[i] = w[i]
        <3>1. i + 1 \in 1 .. n + 1 BY <1>1
        <3> QED BY <3>1, <1>1, <1>2, <1>3, <1>4
    <2> HIDE DEF T, t, w
    <2>3. t = w BY <2>1, <2>2, SeqEqual
    <2> QED BY <2>3 DEF t, w
<1>7. FlattenSeq(v) = Head(v) \o FlattenSeq(Tail(v)) BY <1>2, <1>4, FlattenHead
<1> QED BY <1>5, <1>6, <1>7 DEF Pending, v, rest

-----------------------------------------------------------------------------
(* What the loop of clib_socket_tx does to well-formed buffers *)

LEMMA HeadIs ==
    ASSUME NEW bufs, WellFormed(bufs), bufs # <<>>
    PROVE  /\ Head(bufs) \in Buffers /\ Len(Head(bufs).bytes) \in 1 .. MaxTx
           /\ Head(bufs).bytes \in Seq(TxBytes)
           /\ Head(bufs).offset \in Nat /\ Head(bufs).offset < Len(Head(bufs).bytes)
<1>1. bufs \in Seq(Buffers) BY DEF WellFormed
<1>2. Len(bufs) \in Nat \ {0} /\ Head(bufs) = bufs[1] /\ Head(bufs) \in Buffers
    BY <1>1, HeadThenTail
<1>3. Len(bufs[1].bytes) \in 1 .. MaxTx /\ bufs[1].offset < Len(bufs[1].bytes)
    BY <1>2 DEF WellFormed
<1> QED BY <1>2, <1>3 DEF Buffers

\* Behind the head no buffer is partly sent.
LEMMA TailIs ==
    ASSUME NEW bufs, WellFormed(bufs), bufs # <<>>
    PROVE  /\ WellFormed(Tail(bufs)) /\ Len(Tail(bufs)) = Len(bufs) - 1
           /\ Len(bufs) \in Nat \ {0}
           /\ Tail(bufs) # <<>> => Head(Tail(bufs)).offset = 0
<1> DEFINE rest == Tail(bufs)
<1>1. bufs \in Seq(Buffers) BY DEF WellFormed
<1>2. /\ Len(bufs) \in Nat \ {0} /\ rest \in Seq(Buffers) /\ Len(rest) = Len(bufs) - 1
      /\ \A i \in 1 .. Len(bufs) - 1 : rest[i] = bufs[i + 1]
    BY <1>1, HeadThenTail
<1> HIDE DEF rest
<1>3. ASSUME NEW i \in 1 .. Len(rest)
      PROVE  rest[i].offset = 0 /\ Len(rest[i].bytes) \in 1 .. MaxTx
    <2>1. i + 1 \in 1 .. Len(bufs) /\ i + 1 # 1 /\ rest[i] = bufs[i + 1] BY <1>2
    <2>2. bufs[i + 1].offset < 1 /\ Len(bufs[i + 1].bytes) \in 1 .. MaxTx
        BY <2>1 DEF WellFormed
    <2>3. bufs[i + 1] \in Buffers BY <1>1, <2>1, ElementOfSeq
    <2>4. bufs[i + 1].offset \in Nat BY <2>3 DEF Buffers
    <2> QED BY <2>1, <2>2, <2>4
<1>4. WellFormed(rest)
    <2>1. ASSUME NEW i \in 1 .. Len(rest)
          PROVE  rest[i].offset < (IF i = 1 THEN Len(rest[i].bytes) ELSE 1)
        BY <1>3
    <2> QED BY <1>2, <1>3, <2>1 DEF WellFormed
<1>5. rest # <<>> => Head(rest).offset = 0
    <2> SUFFICES ASSUME rest # <<>> PROVE Head(rest).offset = 0 OBVIOUS
    <2>1. Len(rest) \in Nat \ {0} /\ Head(rest) = rest[1] BY <1>2, HeadThenTail
    <2> QED BY <2>1, <1>3
<1> QED BY <1>2, <1>4, <1>5 DEF rest

LEMMA HeadReplaced ==
    ASSUME NEW bufs, WellFormed(bufs), bufs # <<>>, NEW b \in Buffers,
           Len(b.bytes) \in 1 .. MaxTx, b.offset < Len(b.bytes)
    PROVE  LET new == <<b>> \o Tail(bufs)
           IN  WellFormed(new) /\ new # <<>> /\ Head(new) = b /\ Tail(new) = Tail(bufs)
<1> DEFINE rest == Tail(bufs)
           new == <<b>> \o rest
<1>1. WellFormed(rest) /\ Len(bufs) \in Nat \ {0} /\ Len(rest) = Len(bufs) - 1 BY TailIs
<1>2. bufs \in Seq(Buffers) /\ rest \in Seq(Buffers) BY <1>1 DEF WellFormed
<1>3. ASSUME NEW i \in 1 .. Len(rest)
      PROVE  Len(rest[i].bytes) \in 1 .. MaxTx /\ rest[i].offset < 1
    <2>1. i + 1 \in 1 .. Len(bufs) /\ i + 1 # 1 /\ rest[i] = bufs[i + 1]
        BY <1>1, <1>2, HeadThenTail
    <2> QED BY <2>1 DEF WellFormed
<1> HIDE DEF rest
<1>4. Before(new, Buffers, b, rest) BY <1>2, OneBefore
<1> HIDE DEF new
<1>5. Len(rest) \in Nat BY <1>2, LenProperties
<1>6. WellFormed(new)
    <2> SUFFICES ASSUME NEW i \in 1 .. Len(new)
                 PROVE  /\ Len(new[i].bytes) \in 1 .. MaxTx
                        /\ new[i].offset < (IF i = 1 THEN Len(new[i].bytes) ELSE 1)
        BY <1>4 DEF Before, WellFormed
    <2>1. CASE i = 1 BY <1>4, <1>5, <2>1 DEF Before
    <2>2. CASE i # 1
        <3>1. new[i] = rest[i - 1] /\ i - 1 \in 1 .. Len(rest) BY <1>4, <1>5, <2>2 DEF Before
        <3> QED BY <1>3, <2>2, <3>1
    <2> QED BY <2>1, <2>2
<1> QED BY <1>4, <1>6 DEF Before, new, rest

\* What the loop works on: n_left and the fifo.
Rounds == [left : 0 .. WordSize - 1, bufs : {bufs \in Seq(Buffers) : WellFormed(bufs)}]

LEMMA ReclaimKeeps ==
    ASSUME NEW s \in Rounds, s.bufs # <<>>
    PROVE  /\ Reclaim(s) \in Rounds
           /\ Reclaim(s).left = 0 \/ Len(Reclaim(s).bufs) = Len(s.bufs) - 1
<1> DEFINE b == Head(s.bufs)
<1>1. WellFormed(s.bufs) /\ s.left \in 0 .. WordSize - 1 BY DEF Rounds
<1>2. WordSize \in Nat \ {0} BY SocketAssumption
<1>3. b \in Buffers /\ Len(b.bytes) \in 1 .. MaxTx /\ b.offset \in Nat BY <1>1, HeadIs
<1>4. CASE Kept(s)
    <2> DEFINE to == Plus(b.offset, s.left)
               c == Buffer(b.bytes, to)
               new == <<c>> \o Tail(s.bufs)
    <2>1. to \in 0 .. WordSize - 1
        <3>1. b.offset + s.left \in Int BY <1>1, <1>3
        <3> QED BY <1>2, <3>1, DivMod DEF Plus
    <2>2. to < Len(b.bytes) BY <1>4 DEF Kept
    <2>3. c \in Buffers /\ c.bytes = b.bytes /\ c.offset = to
        <3> HIDE DEF to
        <3>1. to \in Nat /\ b.bytes \in Seq(TxBytes) BY <2>1, <1>2, <1>3 DEF Buffers
        <3> QED BY <3>1 DEF Buffer, Buffers
    <2>4. WellFormed(new)
        <3> HIDE DEF c, to, b
        <3>1. Len(c.bytes) \in 1 .. MaxTx /\ c.offset < Len(c.bytes) BY <1>3, <2>2, <2>3
        <3> QED BY <1>1, <2>3, <3>1, HeadReplaced
    <2>5. Reclaim(s) = [left |-> 0, bufs |-> new] BY <1>4 DEF Reclaim
    <2>6. new \in Seq(Buffers) BY <2>4 DEF WellFormed
    <2> HIDE DEF new
    <2> QED BY <1>2, <2>4, <2>5, <2>6 DEF Rounds
<1>5. CASE ~ Kept(s)
    <2>1. Reclaim(s) = [left |-> LeftAfter(s.left, b), bufs |-> Tail(s.bufs)]
        BY <1>5 DEF Reclaim
    <2>2. LeftAfter(s.left, b) \in 0 .. WordSize - 1
        <3>1. s.left - Len(b.bytes) \in Int BY <1>1, <1>3
        <3> QED BY <1>2, <3>1, DivMod DEF LeftAfter, Minus
    <2>3. WellFormed(Tail(s.bufs)) /\ Len(Tail(s.bufs)) = Len(s.bufs) - 1
        BY <1>1, TailIs
    <2>4. Tail(s.bufs) \in Seq(Buffers) BY <2>3 DEF WellFormed
    <2> QED BY <2>1, <2>2, <2>3, <2>4 DEF Rounds
<1> QED BY <1>4, <1>5

\* What Reclaimed computes, round by round.
Looped(f, bufs, n) ==
    /\ f \in [0 .. Len(bufs) -> Rounds]
    /\ f[0] = [left |-> n, bufs |-> bufs]
    /\ \A k \in 1 .. Len(bufs) :
          f[k] = IF f[k - 1].left = 0 THEN f[k - 1] ELSE Reclaim(f[k - 1])
    /\ \A k \in 0 .. Len(bufs) : f[k].left = 0 \/ Len(f[k].bufs) = Len(bufs) - k
    /\ Reclaimed(bufs, n) = f[Len(bufs)]

LEMMA ReclaimedIs ==
    ASSUME NEW bufs, WellFormed(bufs), NEW n \in 0 .. WordSize - 1
    PROVE  \E f : Looped(f, bufs, n)
<1> DEFINE N == Len(bufs)
           first == [left |-> n, bufs |-> bufs]
           step == [s \in Rounds |->
                       IF s.left = 0 \/ s.bufs = <<>> THEN s ELSE Reclaim(s)]
<1>1. N \in Nat /\ bufs \in Seq(Buffers) BY LenProperties DEF WellFormed
<1>2. first \in Rounds BY <1>1 DEF Rounds
<1>3. step \in [Rounds -> Rounds]
    <2> SUFFICES ASSUME NEW s \in Rounds, s.bufs # <<>> PROVE Reclaim(s) \in Rounds
        OBVIOUS
    <2> QED BY ReclaimKeeps
<1>4. \A s \in Rounds :
          step[s] = IF s.left = 0 \/ s.bufs = <<>> THEN s ELSE Reclaim(s)
    OBVIOUS
<1> HIDE DEF N, first, step
<1>5. PICK f : Stepped(f, Rounds, first, step, N) BY <1>1, <1>2, <1>3, StepsUpTo
<1>6. /\ f \in [0 .. N -> Rounds] /\ f[0] = first
      /\ \A k \in 1 .. N : f[k] = step[f[k - 1]]
    BY <1>5 DEF Stepped
<1> DEFINE P == {k \in 0 .. N : f[k].left = 0 \/ Len(f[k].bufs) = N - k}
<1>7. 0 \in P
    <2>1. f[0].bufs = bufs /\ Len(bufs) = N - 0 /\ 0 \in 0 .. N
        BY <1>1, <1>6 DEF first, N
    <2> QED BY <2>1
<1>8. ASSUME NEW k \in 1 .. N, k - 1 \in P
      PROVE  /\ k \in P
             /\ f[k] = IF f[k - 1].left = 0 THEN f[k - 1] ELSE Reclaim(f[k - 1])
    <2> DEFINE s == f[k - 1]
    <2>1. k - 1 \in 0 .. N /\ k \in 0 .. N /\ N - (k - 1) = (N - k) + 1 /\ N - k \in Nat
        BY <1>1
    <2>2. s \in Rounds /\ f[k] = step[s] BY <1>6, <2>1
    <2>3. s.left = 0 \/ Len(s.bufs) = (N - k) + 1 BY <1>8, <2>1
    <2> HIDE DEF s
    <2>4. CASE s.left = 0
        <3>1. f[k] = s BY <1>4, <2>2, <2>4
        <3> QED BY <2>1, <2>4, <3>1 DEF s
    <2>5. CASE s.left # 0
        <3>1. Len(s.bufs) = (N - k) + 1 BY <2>3, <2>5
        <3>2. s.bufs # <<>> BY <2>1, <3>1
        <3>3. f[k] = Reclaim(s) BY <1>4, <2>2, <2>5, <3>2
        <3>4. Reclaim(s).left = 0 \/ Len(Reclaim(s).bufs) = Len(s.bufs) - 1
            BY <2>2, <3>2, ReclaimKeeps
        <3>5. f[k].left = 0 \/ Len(f[k].bufs) = N - k BY <2>1, <3>1, <3>3, <3>4
        <3> QED BY <2>1, <2>5, <3>3, <3>5 DEF s
    <2> QED BY <2>4, <2>5
<1> HIDE DEF P
<1>9. 0 .. N \subseteq P BY <1>1, <1>7, <1>8, AllNumbersUpTo
<1>10. \A k \in 0 .. N : f[k].left = 0 \/ Len(f[k].bufs) = N - k BY <1>9 DEF P
<1>11. ASSUME NEW k \in 1 .. N
       PROVE  f[k] = IF f[k - 1].left = 0 THEN f[k - 1] ELSE Reclaim(f[k - 1])
    <2>1. k - 1 \in 0 .. N BY <1>1
    <2>2. k - 1 \in P BY <2>1, <1>9
    <2> QED BY <1>8, <2>2
<1> DEFINE Is(g) == g = [i \in 0 .. N |->
                           IF i = 0 THEN first
                           ELSE IF g[i - 1].left = 0 THEN g[i - 1]
                           ELSE Reclaim(g[i - 1])]
           g == CHOOSE g : Is(g)
<1>12. Is(f)
    <2> DEFINE h == [i \in 0 .. N |->
                       IF i = 0 THEN first
                       ELSE IF f[i - 1].left = 0 THEN f[i - 1] ELSE Reclaim(f[i - 1])]
    <2>1. ASSUME NEW i \in 0 .. N PROVE f[i] = h[i]
        <3>1. CASE i = 0 BY <1>6, <3>1
        <3>2. CASE i # 0
            <4>1. i \in 1 .. N BY <1>1, <3>2
            <4> QED BY <1>11, <3>2, <4>1
        <3> QED BY <3>1, <3>2
    <2> HIDE DEF h
    <2>2. f = [i \in 0 .. N |-> f[i]] BY <1>6
    <2>3. h = [i \in 0 .. N |-> h[i]] BY DEF h
    <2>4. f = h BY <2>1, <2>2, <2>3
    <2> QED BY <2>4 DEF h
<1>13. Reclaimed(bufs, n) = g[N] BY DEF Reclaimed, N, first
<1>14. Is(g) BY <1>12
<1> HIDE DEF g
<1> DEFINE Q == {k \in 0 .. N : g[k] = f[k]}
<1>15. 0 \in Q
    <2>1. 0 \in 0 .. N BY <1>1
    <2>2. g[0] = first BY <1>14, <2>1
    <2> QED BY <1>6, <2>1, <2>2
<1>16. ASSUME NEW k \in 1 .. N, k - 1 \in Q PROVE k \in Q
    <2>1. k \in 0 .. N /\ k # 0 BY <1>1
    <2>2. g[k - 1] = f[k - 1] BY <1>16
    <2>3. g[k] = IF g[k - 1].left = 0 THEN g[k - 1] ELSE Reclaim(g[k - 1])
        BY <1>14, <2>1
    <2>4. g[k] = f[k] BY <1>11, <2>2, <2>3
    <2> QED BY <2>1, <2>4
<1> HIDE DEF Q
<1>17. 0 .. N \subseteq Q BY <1>1, <1>15, <1>16, AllNumbersUpTo
<1>18. N \in Q BY <1>1, <1>17
<1>19. Reclaimed(bufs, n) = f[N] BY <1>13, <1>18 DEF Q
<1>20. Looped(f, bufs, n) BY <1>6, <1>10, <1>11, <1>19 DEF Looped, N, first
<1> QED BY <1>20

\* Whatever n_left became, the buffers stay well-formed.
LEMMA ReclaimedKeeps ==
    ASSUME NEW bufs, WellFormed(bufs), NEW n \in 0 .. WordSize - 1
    PROVE  WellFormed(Reclaimed(bufs, n).bufs)
<1>1. PICK f : Looped(f, bufs, n) BY ReclaimedIs
<1>2. f \in [0 .. Len(bufs) -> Rounds] /\ Reclaimed(bufs, n) = f[Len(bufs)]
    BY <1>1 DEF Looped
<1>3. Len(bufs) \in 0 .. Len(bufs) BY LenProperties DEF WellFormed
<1>4. Reclaimed(bufs, n) \in Rounds BY <1>2, <1>3
<1> QED BY <1>4 DEF Rounds

-----------------------------------------------------------------------------
(* The loop reclaims what was sent, unless it frees a buffer partly sent      *)
(* before                                                                      *)

\* Some rounds have taken n - left bytes off the whole, in order.
Splits(s, whole, n, taken) ==
    /\ taken \in Seq(TxBytes)
    /\ whole = taken \o Pending(s.bufs)
    /\ Len(taken) = n - s.left
    /\ s.left <= Len(Pending(s.bufs))

\* The next round keeps the head buffer, or frees one that was never partly sent.
Ready(s) ==
    s.left = 0 \/ Head(s.bufs).offset = 0
               \/ Head(s.bufs).offset + s.left < Len(Head(s.bufs).bytes)

\* n_left and the offsets are small enough to be added.
LEMMA SumIs ==
    ASSUME NEW a \in 0 .. MaxTx, NEW b \in 0 .. MaxTx
    PROVE  /\ Plus(a, b) = a + b
           /\ b <= a => Minus(a, b) = a - b
<1>1. /\ WordSize \in Nat \ {0} /\ MaxTx \in Nat /\ WordSize > 2 * MaxTx
    BY SocketAssumption
<1>2. a + b \in 0 .. WordSize - 1 BY <1>1
<1>3. Plus(a, b) = a + b
    <2>1. a + b \in 0 .. 2 * WordSize - 1 /\ a + b < WordSize BY <1>1, <1>2
    <2> QED BY <1>1, <2>1, LessThanTwice DEF Plus
<1>4. ASSUME b <= a PROVE Minus(a, b) = a - b
    <2>1. a - b \in 0 .. 2 * WordSize - 1 /\ a - b < WordSize BY <1>1, <1>4
    <2> QED BY <1>1, <2>1, LessThanTwice DEF Minus
<1> QED BY <1>3, <1>4

\* A buffer whose offset is moved has its first bytes sent.
LEMMA OffsetMoved ==
    ASSUME NEW b \in Buffers, NEW k \in Nat, b.offset + k < Len(b.bytes)
    PROVE  /\ k \in 0 .. Len(Unsent(b))
           /\ Unsent(Buffer(b.bytes, b.offset + k)) = SubSeq(Unsent(b), k + 1, Len(Unsent(b)))
<1> DEFINE x == b.bytes
           o == b.offset
           U == Unsent(b)
<1>1. x \in Seq(TxBytes) /\ o \in Nat /\ Len(x) \in Nat BY LenProperties DEF Buffers
<1>2. U \in Seq(TxBytes) /\ Len(U) = Len(x) - o /\ U = SubSeq(x, o + 1, Len(x))
    BY <1>1, UnsentIs DEF Unsent
<1>3. Unsent(Buffer(x, o + k)) = SubSeq(x, (o + k) + 1, Len(x)) BY DEF Unsent, Buffer
<1> HIDE DEF x, o, U
<1>4. o + k < Len(x) BY DEF x, o
<1>5. /\ o + 1 \in 1 .. Len(x) /\ Len(x) \in 1 .. Len(x)
      /\ k + 1 \in 1 .. Len(x) - (o + 1) + 1 /\ Len(U) \in 1 .. Len(x) - (o + 1) + 1
      /\ (o + 1) + (k + 1) - 1 = (o + k) + 1 /\ (o + 1) + Len(U) - 1 = Len(x)
    BY <1>1, <1>2, <1>4
<1>6. SubSeq(SubSeq(x, o + 1, Len(x)), k + 1, Len(U))
          = SubSeq(x, (o + 1) + (k + 1) - 1, (o + 1) + Len(U) - 1)
    BY <1>1, <1>5, SubSeqOfSubSeq
<1>7. k \in 0 .. Len(U) BY <1>1, <1>2, <1>4
<1>8. SubSeq(U, k + 1, Len(U)) = SubSeq(x, (o + k) + 1, Len(x)) BY <1>2, <1>5, <1>6
<1> QED BY <1>3, <1>7, <1>8 DEF x, o, U

LEMMA ReclaimSplits ==
    ASSUME NEW s \in Rounds, s.bufs # <<>>, Ready(s), s.left # 0, s.left <= MaxTx,
           NEW whole, NEW n \in Nat, NEW taken, Splits(s, whole, n, taken)
    PROVE  /\ \E more : Splits(Reclaim(s), whole, n, more)
           /\ Ready(Reclaim(s)) /\ Reclaim(s).left <= MaxTx
<1> DEFINE b == Head(s.bufs)
           rest == Tail(s.bufs)
           U == Unsent(b)
           left == s.left
<1>1. WellFormed(s.bufs) /\ left \in Nat /\ s.bufs \in Seq(Buffers)
    BY SocketAssumption DEF Rounds
<1>2. /\ b \in Buffers /\ Len(b.bytes) \in 1 .. MaxTx /\ b.bytes \in Seq(TxBytes)
      /\ b.offset \in Nat /\ b.offset < Len(b.bytes)
    BY <1>1, HeadIs
<1>3. WellFormed(rest) /\ (rest # <<>> => Head(rest).offset = 0) BY <1>1, TailIs
<1>4. rest \in Seq(Buffers) BY <1>3 DEF WellFormed
<1> DEFINE PT == Pending(rest)
<1>5. PT \in Seq(TxBytes) /\ Len(PT) \in Nat BY <1>4, PendingType
<1>6. Pending(s.bufs) = U \o PT BY <1>1, PendingHead
<1>7. /\ taken \in Seq(TxBytes) /\ whole = taken \o (U \o PT) /\ Len(taken) = n - left
      /\ left <= Len(U \o PT)
    BY <1>6 DEF Splits
<1>8. MaxTx \in Nat /\ left \in 0 .. MaxTx /\ b.offset \in 0 .. MaxTx
      /\ Len(b.bytes) \in 0 .. MaxTx /\ left > 0
    BY <1>1, <1>2, SocketAssumption
<1>9. Plus(b.offset, left) = b.offset + left BY <1>8, SumIs
<1>10. Kept(s) <=> b.offset + left < Len(b.bytes) BY <1>9 DEF Kept
<1>11. Associative(Seq(TxBytes)) BY Regroup
<1>12. U \in Seq(TxBytes) /\ Len(U) = Len(b.bytes) - b.offset
       /\ (b.offset = 0 => U = b.bytes)
    BY <1>2, UnsentIs
<1>13. CASE Kept(s)
    <2> DEFINE c == Buffer(b.bytes, b.offset + left)
               new == <<c>> \o rest
               A == SubSeq(U, 1, left)
               B == SubSeq(U, left + 1, Len(U))
    <2>1. Reclaim(s) = [left |-> 0, bufs |-> new] BY <1>9, <1>13 DEF Reclaim
    <2>2. c \in Buffers BY <1>1, <1>2 DEF Buffer, Buffers
    <2>3. Before(new, Buffers, c, rest)
        <3> HIDE DEF c, rest
        <3> QED BY <2>2, <1>4, OneBefore
    <2>4. left \in 0 .. Len(U) /\ Unsent(c) = B
        BY <1>1, <1>2, <1>10, <1>13, OffsetMoved
    <2>5. A \in Seq(TxBytes) /\ Len(A) = left /\ B \in Seq(TxBytes) /\ A \o B = U
        <3> HIDE DEF U
        <3> QED BY <1>12, <2>4, SplitAt
    <2> HIDE DEF new, c, A, B, U, PT, rest, left
    <2>6. Pending(new) = B \o PT
        <3>1. new \in Seq(Buffers) /\ new # <<>> /\ Head(new) = c /\ Tail(new) = rest
            BY <2>3 DEF Before
        <3>2. Pending(new) = Unsent(Head(new)) \o Pending(Tail(new)) BY <3>1, PendingHead
        <3> QED BY <3>1, <3>2, <2>4 DEF PT
    <2>7. taken \o A \in Seq(TxBytes) /\ Len(taken \o A) = Len(taken) + Len(A)
        BY <1>7, <2>5, ConcatProperties
    <2>8. whole = (taken \o A) \o Pending(new)
        <3>1. (A \o B) \o PT = A \o (B \o PT)
            BY <1>5, <1>11, <2>5, Zenon DEF Associative
        <3>2. B \o PT \in Seq(TxBytes) BY <1>5, <2>5, ConcatProperties
        <3>3. (taken \o A) \o (B \o PT) = taken \o (A \o (B \o PT))
            BY <1>7, <1>11, <2>5, <3>2, Zenon DEF Associative
        <3> QED BY <1>7, <2>5, <2>6, <3>1, <3>3, Zenon
    <2>9. Len(taken \o A) = n - 0 BY <1>1, <1>7, <2>5, <2>7
    <2>10. Reclaim(s).left = 0 /\ Reclaim(s).bufs = new BY <2>1
    <2>11. 0 <= Len(Pending(new))
        <3>1. new \in Seq(Buffers) BY <2>3 DEF Before
        <3> QED BY <3>1, PendingType
    <2>12. Splits(Reclaim(s), whole, n, taken \o A)
        BY <2>7, <2>8, <2>9, <2>10, <2>11 DEF Splits
    <2>13. Ready(Reclaim(s)) BY <2>10 DEF Ready
    <2> QED BY <1>8, <2>10, <2>12, <2>13
<1>14. CASE ~ Kept(s)
    <2>1. b.offset = 0 /\ Len(b.bytes) <= left
        BY <1>1, <1>2, <1>8, <1>10, <1>14 DEF Ready
    <2>2. LeftAfter(left, b) = left - Len(b.bytes) BY <1>8, <2>1, SumIs DEF LeftAfter
    <2>3. Reclaim(s) = [left |-> left - Len(b.bytes), bufs |-> rest]
        BY <1>14, <2>2 DEF Reclaim
    <2> DEFINE to == left - Len(b.bytes)
    <2>4. Reclaim(s).left = to /\ Reclaim(s).bufs = rest BY <2>3
    <2>5. Len(U) = Len(b.bytes) /\ Len(U \o PT) = Len(U) + Len(PT)
        BY <1>2, <1>5, <1>12, <2>1, ConcatProperties
    <2> HIDE DEF U, PT, rest, b
    <2>6. to <= Len(PT) /\ to \in Nat /\ to <= MaxTx
        <3> DEFINE x == Len(b.bytes)
                   y == Len(PT)
        <3>1. y \in Nat BY <1>5, LenProperties
        <3>2. x \in 0 .. MaxTx /\ MaxTx \in Nat /\ left \in 0 .. MaxTx BY <1>8
        <3>3. x <= left /\ left <= x + y BY <1>7, <2>1, <2>5
        <3> HIDE DEF x, y
        <3>4. left - x <= y /\ left - x \in Nat /\ left - x <= MaxTx BY <3>1, <3>2, <3>3
        <3> QED BY <3>4 DEF x, y
    <2>7. taken \o U \in Seq(TxBytes) /\ Len(taken \o U) = Len(taken) + Len(U)
        BY <1>7, <1>12, ConcatProperties
    <2>8. (taken \o U) \o PT = taken \o (U \o PT)
        BY <1>5, <1>7, <1>11, <1>12, Zenon DEF Associative
    <2>9. whole = (taken \o U) \o PT BY <1>7, <2>8
    <2>10. Len(taken \o U) = n - to BY <1>1, <1>2, <1>7, <2>5, <2>7
    <2>11. Splits(Reclaim(s), whole, n, taken \o U)
        BY <2>4, <2>6, <2>7, <2>9, <2>10 DEF Splits, PT
    <2>12. Ready(Reclaim(s))
        <3>1. CASE rest = <<>>
            <4>1. Len(PT) = 0 BY <3>1, PendingEmpty DEF PT
            <4>2. to = 0 BY <2>6, <4>1
            <4> QED BY <2>4, <4>2 DEF Ready
        <3>2. CASE rest # <<>>
            <4>1. Head(rest).offset = 0 BY <1>3, <3>2
            <4> QED BY <2>4, <4>1 DEF Ready
        <3> QED BY <3>1, <3>2
    <2> QED BY <2>4, <2>6, <2>11, <2>12
<1> QED BY <1>13, <1>14

\* The whole loop, when its first round is one of these.
LEMMA ReclaimedSplits ==
    ASSUME NEW bufs, WellFormed(bufs), bufs # <<>>,
           NEW n \in 1 .. MaxTx, n <= Len(Pending(bufs)),
           Head(bufs).offset = 0 \/ n < Len(Unsent(Head(bufs)))
    PROVE  /\ Reclaimed(bufs, n).left = 0
           /\ Pending(bufs) = SubSeq(Pending(bufs), 1, n) \o Pending(Reclaimed(bufs, n).bufs)
<1> DEFINE N == Len(bufs)
           whole == Pending(bufs)
<1>1. bufs \in Seq(Buffers) /\ N \in Nat BY LenProperties DEF WellFormed
<1>2. MaxTx \in Nat /\ n \in Nat /\ n \in 0 .. WordSize - 1 BY SocketAssumption
<1>3. PICK f : Looped(f, bufs, n) BY <1>2, ReclaimedIs
<1>4. /\ f \in [0 .. N -> Rounds] /\ f[0] = [left |-> n, bufs |-> bufs]
      /\ \A k \in 1 .. N : f[k] = IF f[k - 1].left = 0 THEN f[k - 1] ELSE Reclaim(f[k - 1])
      /\ \A k \in 0 .. N : f[k].left = 0 \/ Len(f[k].bufs) = N - k
      /\ Reclaimed(bufs, n) = f[N]
    BY <1>3 DEF Looped
<1>5. whole \in Seq(TxBytes) BY <1>1, PendingType
<1> HIDE DEF N, whole
<1> DEFINE Good(s) == Ready(s) /\ s.left <= MaxTx /\ \E taken : Splits(s, whole, n, taken)
           P == {k \in 0 .. N : Good(f[k])}
<1>6. 0 \in P
    <2> DEFINE s == f[0]
    <2>1. s.left = n /\ s.bufs = bufs BY <1>4
    <2> HIDE DEF s
    <2>2. Head(bufs).offset + n < Len(Head(bufs).bytes) \/ Head(bufs).offset = 0
        <3> DEFINE b == Head(bufs)
        <3>1. b \in Buffers /\ b.offset \in Nat /\ b.offset < Len(b.bytes)
              /\ Len(b.bytes) \in Nat
            BY <1>2, HeadIs
        <3>2. Len(Unsent(b)) = Len(b.bytes) - b.offset BY <3>1, UnsentIs
        <3> QED BY <1>2, <3>1, <3>2
    <2>3. Ready(s) BY <2>1, <2>2 DEF Ready
    <2>4. Splits(s, whole, n, <<>>)
        <3>1. <<>> \in Seq(TxBytes) /\ Len(<<>>) = n - n BY <1>2
        <3>2. whole = <<>> \o whole BY <1>5, ConcatEmptySeq
        <3> QED BY <2>1, <3>1, <3>2 DEF Splits, whole
    <2>5. Good(s) BY <1>2, <2>1, <2>3, <2>4
    <2> QED BY <1>1, <2>5 DEF s
<1>7. ASSUME NEW k \in 1 .. N, k - 1 \in P PROVE k \in P
    <2> DEFINE s == f[k - 1]
    <2>1. k - 1 \in 0 .. N /\ k \in 0 .. N /\ N - (k - 1) \in Nat \ {0} BY <1>1
    <2>2. s \in Rounds /\ f[k] = IF s.left = 0 THEN s ELSE Reclaim(s) BY <1>4, <2>1
    <2>3. s.left = 0 \/ Len(s.bufs) = N - (k - 1) BY <1>4, <2>1
    <2>4. Good(s) BY <1>7
    <2> HIDE DEF s
    <2>5. CASE s.left = 0
        <3>1. f[k] = s BY <2>2, <2>5
        <3>2. Good(f[k]) BY <2>4, <3>1
        <3> QED BY <2>1, <3>2
    <2>6. CASE s.left # 0
        <3>1. s.bufs # <<>> BY <2>1, <2>3, <2>6
        <3>2. PICK taken : Splits(s, whole, n, taken) BY <2>4
        <3>3. Good(Reclaim(s)) BY <1>2, <2>2, <2>4, <2>6, <3>1, <3>2, ReclaimSplits
        <3>4. f[k] = Reclaim(s) BY <2>2, <2>6
        <3>5. Good(f[k]) BY <3>3, <3>4
        <3> QED BY <2>1, <3>5
    <2> QED BY <2>5, <2>6
<1> HIDE DEF P
<1>8. 0 .. N \subseteq P BY <1>1, <1>6, <1>7, AllNumbersUpTo
<1>9. N \in 0 .. N /\ N \in P BY <1>1, <1>8
<1> DEFINE last == f[N]
<1>10. Good(last) BY <1>9 DEF P
<1>11. last \in Rounds /\ (last.left = 0 \/ Len(last.bufs) = N - N) /\ Reclaimed(bufs, n) = last
    BY <1>4, <1>9
<1> HIDE DEF last
<1>12. PICK taken : Splits(last, whole, n, taken) BY <1>10
<1>13. WellFormed(last.bufs) /\ last.left \in Nat BY <1>11, SocketAssumption DEF Rounds
<1>14. last.left = 0
    <2> SUFFICES ASSUME last.left # 0 PROVE FALSE OBVIOUS
    <2>1. Len(last.bufs) = 0 BY <1>1, <1>11
    <2>2. last.bufs = <<>> BY <1>13, <2>1, EmptySeq DEF WellFormed
    <2>3. last.left <= Len(Pending(last.bufs)) BY <1>12 DEF Splits
    <2>4. Len(Pending(last.bufs)) = 0 BY <2>2, PendingEmpty
    <2> QED BY <1>13, <2>3, <2>4
<1>15. taken \in Seq(TxBytes) /\ Len(taken) = n /\ whole = taken \o Pending(last.bufs)
    BY <1>2, <1>12, <1>14 DEF Splits
<1>16. Pending(last.bufs) \in Seq(TxBytes) BY <1>13, PendingType DEF WellFormed
<1>17. SubSeq(whole, 1, n) = taken BY <1>15, <1>16, ConcatParts
<1> QED BY <1>11, <1>14, <1>15, <1>17 DEF whole

-----------------------------------------------------------------------------
(* The transmitting half *)

\* The bytes that follow byte n.
LEMMA FollowingIs ==
    ASSUME NEW n \in Nat, NEW k \in Nat, NEW m \in Nat, n + k <= m
    PROVE  Following(n, k) \in Seq(1 .. m) /\ Len(Following(n, k)) = k
BY DEF Following

LEMMA AppendedIs ==
    ASSUME NEW bufs, WellFormed(bufs), NEW x \in Seq(TxBytes), Len(x) \in 1 .. MaxTx
    PROVE  /\ WellFormed(Append(bufs, Buffer(x, 0)))
           /\ Append(bufs, Buffer(x, 0)) # <<>>
           /\ Pending(Append(bufs, Buffer(x, 0))) = Pending(bufs) \o x
<1> DEFINE b == Buffer(x, 0)
           more == Append(bufs, b)
<1>1. bufs \in Seq(Buffers) /\ Len(bufs) \in Nat BY LenProperties DEF WellFormed
<1>2. b \in Buffers /\ b.bytes = x /\ b.offset = 0 BY DEF Buffer, Buffers
<1> HIDE DEF b
<1>3. /\ more \in Seq(Buffers) /\ more # <<>> /\ Len(more) = Len(bufs) + 1
      /\ \A i \in 1 .. Len(bufs) : more[i] = bufs[i]
      /\ more[Len(bufs) + 1] = b
    BY <1>1, <1>2, AppendProperties
<1> HIDE DEF more
<1>4. WellFormed(more)
    <2> SUFFICES ASSUME NEW i \in 1 .. Len(more)
                 PROVE  /\ Len(more[i].bytes) \in 1 .. MaxTx
                        /\ more[i].offset < (IF i = 1 THEN Len(more[i].bytes) ELSE 1)
        BY <1>3 DEF WellFormed
    <2>1. CASE i \in 1 .. Len(bufs) BY <1>3, <2>1 DEF WellFormed
    <2>2. CASE i = Len(bufs) + 1 BY <1>2, <1>3, <2>2
    <2> QED BY <1>1, <1>3, <2>1, <2>2
<1>5. Pending(more) = Pending(bufs) \o Unsent(b) BY <1>1, <1>2, PendingAppend DEF more
<1>6. Unsent(b) = x
    <2>1. Len(b.bytes) \in Nat BY <1>2, LenProperties
    <2> QED BY <1>2, <2>1, UnsentIs
<1> QED BY <1>3, <1>4, <1>5, <1>6 DEF more, b

\* clib_socket_tx starts with what waited in both places.
LEMMA GatheredIs ==
    ASSUME TxInv
    PROVE  WellFormed(Gathered) /\ Pending(Gathered) = Pending(fifo) \o current
<1>1. fifo \in Seq(Buffers) BY DEF TxInv, WellFormed
<1>2. CASE current = <<>>
    <2>1. Pending(fifo) \in Seq(TxBytes) BY <1>1, PendingType
    <2>2. Pending(fifo) \o <<>> = Pending(fifo) BY <2>1, ConcatEmptySeq
    <2> QED BY <1>2, <2>2 DEF Gathered, TxInv
<1>3. CASE current # <<>>
    <2>1. current \in Seq(TxBytes) /\ Len(current) \in Nat \ {0} BY <1>3, EmptySeq DEF TxInv
    <2>2. Len(current) \in 1 .. MaxTx BY <2>1, SocketAssumption DEF TxInv
    <2>3. WellFormed(fifo) BY DEF TxInv
    <2> QED BY <1>3, <2>1, <2>2, <2>3, AppendedIs DEF Gathered
<1> QED BY <1>2, <1>3

LEMMA TxAddKeeps ==
    ASSUME TxInv, NEW k \in 1 .. MaxAdd, TxAdd(k)
    PROVE  TxInv'
<1> DEFINE F == Following(added, k)
<1>1. MaxAdd \in Nat /\ MaxTx \in Nat BY SocketAssumption
<1>2. k \in Nat /\ added \in Nat /\ added + k <= MaxTx BY <1>1 DEF TxAdd, TxInv
<1>3. F \in Seq(TxBytes) /\ Len(F) = k BY <1>1, <1>2, FollowingIs DEF TxBytes
<1>4. current \in Seq(TxBytes) /\ Len(current) \in Nat /\ Len(current) <= added
    BY LenProperties DEF TxInv
<1> HIDE DEF F
<1>5. current \o F \in Seq(TxBytes) /\ Len(current \o F) = Len(current) + Len(F)
    BY <1>3, <1>4, ConcatProperties
<1>6. current' = current \o F /\ added' = added + k BY DEF TxAdd, F
<1>7. added' \in 0 .. MaxTx /\ Len(current') <= added' /\ current' \in Seq(TxBytes)
    BY <1>2, <1>3, <1>4, <1>5, <1>6
<1>8. UNCHANGED <<fifo, joined, wire, resumed, asserted>> BY DEF TxAdd
<1>9. StreamInOrder => StreamInOrder' BY <1>8 DEF StreamInOrder
<1> QED BY <1>7, <1>8, <1>9 DEF TxInv

LEMMA TxAddToBufferFifoKeeps ==
    ASSUME TxInv, NEW k \in 1 .. MaxAdd, TxAddToBufferFifo(k)
    PROVE  TxInv'
<1> DEFINE F == Following(added, k)
<1>1. MaxAdd \in Nat /\ MaxTx \in Nat BY SocketAssumption
<1>2. k \in Nat /\ added \in Nat /\ added + k <= MaxTx BY <1>1 DEF TxAddToBufferFifo, TxInv
<1>3. F \in Seq(TxBytes) /\ Len(F) = k BY <1>1, <1>2, FollowingIs DEF TxBytes
<1> HIDE DEF F
<1>4. Len(F) \in 1 .. MaxTx BY <1>1, <1>2, <1>3
<1>5. /\ fifo' = Append(fifo, Buffer(F, 0)) /\ joined' = joined \o F /\ added' = added + k
      /\ UNCHANGED <<current, asserted, wire, resumed>>
    BY DEF TxAddToBufferFifo, F
<1>6. WellFormed(fifo) BY DEF TxInv
<1>7. WellFormed(fifo') /\ Pending(fifo') = Pending(fifo) \o F
    BY <1>3, <1>4, <1>5, <1>6, AppendedIs
<1>8. joined \in Seq(TxBytes) /\ wire \in Seq(TxBytes) BY DEF TxInv
<1>9. joined' \in Seq(TxBytes) BY <1>3, <1>5, <1>8, ConcatProperties
<1>10. Len(current') <= added' /\ added' \in 0 .. MaxTx
    <2>1. Len(current) \in Nat /\ Len(current) <= added BY LenProperties DEF TxInv
    <2> QED BY <1>2, <1>5, <2>1
<1>11. StreamInOrder => StreamInOrder'
    <2>1. Pending(fifo) \in Seq(TxBytes) BY <1>6, PendingType DEF WellFormed
    <2>2. Associative(Seq(TxBytes)) BY Regroup
    <2>3. (wire \o Pending(fifo)) \o F = wire \o (Pending(fifo) \o F)
        BY <1>3, <1>8, <2>1, <2>2, Zenon DEF Associative
    <2> QED BY <1>5, <1>7, <2>3 DEF StreamInOrder
<1> QED BY <1>5, <1>7, <1>9, <1>10, <1>11 DEF TxInv

LEMMA TxNothingWrittenKeeps ==
    ASSUME TxInv, TxNothingWritten
    PROVE  TxInv'
<1>1. /\ fifo' = Gathered /\ joined' = joined \o current /\ current' = <<>>
      /\ UNCHANGED <<asserted, added, wire, resumed>>
    BY DEF TxNothingWritten
<1>2. WellFormed(fifo') /\ Pending(fifo') = Pending(fifo) \o current BY <1>1, GatheredIs
<1>3. /\ joined \in Seq(TxBytes) /\ wire \in Seq(TxBytes) /\ current \in Seq(TxBytes)
      /\ added \in 0 .. MaxTx
    BY DEF TxInv
<1>4. joined' \in Seq(TxBytes) BY <1>1, <1>3, ConcatProperties
<1>5. current' \in Seq(TxBytes) /\ Len(current') <= added' BY <1>1, <1>3
<1>6. StreamInOrder => StreamInOrder'
    <2>1. Pending(fifo) \in Seq(TxBytes) BY PendingType DEF TxInv, WellFormed
    <2>2. Associative(Seq(TxBytes)) BY Regroup
    <2>3. (wire \o Pending(fifo)) \o current = wire \o (Pending(fifo) \o current)
        BY <1>3, <2>1, <2>2, Zenon DEF Associative
    <2> QED BY <1>1, <1>2, <2>3 DEF StreamInOrder
<1> QED BY <1>1, <1>2, <1>4, <1>5, <1>6 DEF TxInv

LEMMA TxWrittenKeeps ==
    ASSUME TxInv, ~ asserted, NEW n \in 1 .. MaxTx, TxWritten(n)
    PROVE  TxInv'
<1> DEFINE G == Gathered
           PG == Pending(G)
           r == Reclaimed(G, n)
           T == SubSeq(PG, 1, n)
<1>1. /\ n \in WriteSizes(G) /\ fifo' = r.bufs /\ asserted' = (r.left # 0)
      /\ resumed' = (resumed \/ (Head(G).offset > 0 /\ n >= Len(Unsent(Head(G)))))
      /\ wire' = wire \o T /\ joined' = joined \o current /\ current' = <<>>
      /\ UNCHANGED added
    BY DEF TxWritten
<1>2. WellFormed(G) /\ PG = Pending(fifo) \o current BY GatheredIs
<1>3. PG \in Seq(TxBytes) /\ Len(PG) \in Nat BY <1>2, PendingType DEF WellFormed
<1> HIDE DEF G, PG, T
<1>4. n \in 1 .. Len(PG) BY <1>1 DEF WriteSizes, PG
<1>5. G # <<>>
    <2> SUFFICES ASSUME G = <<>> PROVE FALSE OBVIOUS
    <2>1. Len(PG) = 0 BY PendingEmpty DEF PG
    <2> QED BY <1>4, <2>1
<1>6. MaxTx \in Nat /\ n \in 0 .. WordSize - 1 BY SocketAssumption
<1>7. WellFormed(fifo') BY <1>1, <1>2, <1>6, ReclaimedKeeps
<1>8. /\ joined \in Seq(TxBytes) /\ wire \in Seq(TxBytes) /\ current \in Seq(TxBytes)
      /\ added \in 0 .. MaxTx /\ resumed \in BOOLEAN
    BY DEF TxInv
<1>9. T \in Seq(TxBytes)
    <2>1. n \in 0 .. Len(PG) BY <1>4
    <2> QED BY <1>3, <2>1, SplitAt DEF T
<1>10. joined' \in Seq(TxBytes) /\ wire' \in Seq(TxBytes) BY <1>1, <1>8, <1>9, ConcatProperties
<1>11. current' \in Seq(TxBytes) /\ Len(current') <= added' /\ added' \in 0 .. MaxTx
    BY <1>1, <1>8
<1>12. resumed' \in BOOLEAN /\ asserted' \in BOOLEAN BY <1>1, <1>8
<1>13. ASSUME ~ resumed' PROVE StreamInOrder' /\ ~ asserted'
    <2>1. ~ resumed /\ ~ (Head(G).offset > 0 /\ n >= Len(Unsent(Head(G)))) BY <1>1, <1>13
    <2>2. StreamInOrder BY <2>1 DEF TxInv
    <2>3. Head(G).offset = 0 \/ n < Len(Unsent(Head(G)))
        <3> DEFINE b == Head(G)
        <3>1. b \in Buffers /\ b.offset \in Nat /\ b.offset < Len(b.bytes)
              /\ Len(b.bytes) \in Nat
            BY <1>2, <1>5, <1>6, HeadIs
        <3>2. Len(Unsent(b)) \in Nat BY <3>1, UnsentIs
        <3> QED BY <1>6, <2>1, <3>1, <3>2
    <2>4. n <= Len(PG) BY <1>4
    <2>5. r.left = 0 /\ PG = T \o Pending(r.bufs)
        BY <1>2, <1>5, <2>3, <2>4, ReclaimedSplits DEF PG, T
    <2>6. Pending(fifo') \in Seq(TxBytes) BY <1>7, PendingType DEF WellFormed
    <2>7. Pending(fifo) \in Seq(TxBytes) BY PendingType DEF TxInv, WellFormed
    <2>8. Associative(Seq(TxBytes)) BY Regroup
    <2>9. (wire \o T) \o Pending(fifo') = wire \o (T \o Pending(fifo'))
        BY <1>8, <1>9, <2>6, <2>8, Zenon DEF Associative
    <2>10. (wire \o Pending(fifo)) \o current = wire \o (Pending(fifo) \o current)
        BY <1>8, <2>7, <2>8, Zenon DEF Associative
    <2>11. wire' \o Pending(fifo') = wire \o PG BY <1>1, <2>5, <2>9, Zenon
    <2>12. wire \o PG = joined' BY <1>1, <1>2, <2>2, <2>10, Zenon DEF StreamInOrder
    <2> QED BY <1>1, <2>5, <2>11, <2>12 DEF StreamInOrder
<1> QED BY <1>7, <1>10, <1>11, <1>12, <1>13 DEF TxInv

\* A new connection.
LEMMA NothingIs ==
    /\ WellFormed(<<>>) /\ <<>> \in Seq(TxBytes) /\ <<>> \in Seq(RxBytes \cup {Garbage})
    /\ Len(<<>>) <= 0 /\ 0 \in 0 .. MaxTx /\ 0 \in 0 .. MaxRx
    /\ <<>> \o Pending(<<>>) = <<>>
    /\ <<>> \o <<>> = Following(0, 0)
<1>1. MaxTx \in Nat /\ MaxRx \in Nat BY SocketAssumption
<1>2. WellFormed(<<>>) BY DEF WellFormed
<1>3. <<>> \o <<>> = <<>> OBVIOUS
<1>4. <<>> \o Pending(<<>>) = <<>> BY <1>3, PendingEmpty
<1>5. Following(0, 0) = <<>> BY DEF Following
<1>6. <<>> \in Seq(TxBytes) /\ <<>> \in Seq(RxBytes \cup {Garbage}) /\ Len(<<>>) = 0 OBVIOUS
<1>7. Len(<<>>) <= 0 /\ 0 \in 0 .. MaxTx /\ 0 \in 0 .. MaxRx BY <1>1, <1>6
<1>8. <<>> \o <<>> = Following(0, 0) BY <1>3, <1>5
<1> QED BY <1>2, <1>4, <1>6, <1>7, <1>8

-----------------------------------------------------------------------------
(* The receiving half *)

\* The bytes read so far, and those read next.
LEMMA FollowingOn ==
    ASSUME NEW a \in Nat, NEW k \in Nat
    PROVE  Following(0, a) \o Following(a, k) = Following(0, a + k)
<1> DEFINE s == Following(0, a)
           t == Following(a, k)
           u == Following(0, a + k)
           m == a + k
<1>1. m \in Nat /\ a + k <= m /\ 0 + m <= m /\ 0 + a <= m OBVIOUS
<1>2. s \in Seq(1 .. m) /\ Len(s) = a /\ t \in Seq(1 .. m) /\ Len(t) = k
      /\ u \in Seq(1 .. m) /\ Len(u) = m
    <2> HIDE DEF m
    <2> QED BY <1>1, FollowingIs DEF m
<1>3. /\ \A i \in 1 .. a : s[i] = i
      /\ \A i \in 1 .. k : t[i] = a + i
      /\ \A i \in 1 .. m : u[i] = i
    BY DEF Following
<1> HIDE DEF s, t, u, m
<1>4. m = a + k BY DEF m
<1> DEFINE v == s \o t
<1>5. v \in Seq(1 .. m) /\ Len(v) = m BY <1>2, <1>4, ConcatProperties
<1>6. ASSUME NEW i \in 1 .. m PROVE v[i] = u[i]
    <2>1. i \in 1 .. Len(s) + Len(t) BY <1>2, <1>4
    <2>2. v[i] = IF i <= Len(s) THEN s[i] ELSE t[i - Len(s)] BY <1>2, <2>1, ConcatProperties
    <2>3. CASE i <= a
        <3>1. i \in 1 .. a BY <2>3
        <3> QED BY <1>2, <1>3, <2>2, <3>1
    <2>4. CASE ~ (i <= a)
        <3>1. i - a \in 1 .. k /\ a + (i - a) = i BY <1>4, <2>4
        <3> HIDE DEF v
        <3> QED BY <1>2, <1>3, <2>2, <2>4, <3>1
    <2> QED BY <2>3, <2>4
<1> HIDE DEF v
<1>7. v = u BY <1>2, <1>5, <1>6, SeqEqual
<1> QED BY <1>7 DEF v, s, t, u, m

\* What clib_socket_rx leaves in rx_buffer when read delivers k bytes, and when it
\* does not correct the length.
LEMMA LengthenedIs ==
    ASSUME RxInv, NEW k \in 0 .. MaxAdd, arrived + k <= peerSent
    PROVE  /\ Lengthened(k) \in Seq(RxBytes \cup {Garbage})
           /\ Following(arrived, k) \in Seq(RxBytes \cup {Garbage})
           /\ Shortened(Lengthened(k), k) = rxBuffer \o Following(arrived, k)
<1> DEFINE S == RxBytes \cup {Garbage}
           F == Following(arrived, k)
           Z == [i \in 1 .. MaxAdd - k |-> Garbage]
<1>1. /\ MaxRx \in Nat /\ MaxAdd \in Nat /\ k \in Nat /\ MaxAdd - k \in Nat
      /\ arrived \in Nat /\ arrived + k <= MaxRx
    BY SocketAssumption DEF RxInv
<1>2. F \in Seq(RxBytes) /\ Len(F) = k BY <1>1, FollowingIs DEF RxBytes
<1>3. RxBytes \subseteq S OBVIOUS
<1>4. Z \in Seq(S) /\ Len(Z) = MaxAdd - k BY <1>1
<1>5. rxBuffer \in Seq(S) /\ Len(rxBuffer) \in Nat BY LenProperties DEF RxInv
<1>6. Lengthened(k) = (rxBuffer \o F) \o Z BY DEF Lengthened
<1> HIDE DEF S, F, Z
<1>7. F \in Seq(S) BY <1>2, <1>3, SeqMonotonic
<1> DEFINE A == rxBuffer \o F
<1>8. A \in Seq(S) /\ Len(A) = Len(rxBuffer) + k BY <1>2, <1>5, <1>7, ConcatProperties
<1> HIDE DEF A
<1>9. A \o Z \in Seq(S) /\ Len(A \o Z) = Len(A) + (MaxAdd - k) BY <1>4, <1>8, ConcatProperties
<1>10. Len(A \o Z) + k - MaxAdd = Len(A) BY <1>1, <1>5, <1>8, <1>9
<1>11. SubSeq(A \o Z, 1, Len(A)) = A BY <1>4, <1>8, ConcatParts
<1>12. Lengthened(k) = A \o Z BY <1>6 DEF A
<1>13. Shortened(Lengthened(k), k) = A BY <1>10, <1>11, <1>12 DEF Shortened
<1> QED BY <1>7, <1>9, <1>12, <1>13 DEF A, S, F

LEMMA RxReadKeeps ==
    ASSUME RxInv, NEW k \in 1 .. MaxAdd, RxRead(k)
    PROVE  RxInv'
<1> DEFINE S == RxBytes \cup {Garbage}
           F == Following(arrived, k)
<1>1. /\ arrived + k <= peerSent /\ arrived' = arrived + k
      /\ rxBuffer' = Shortened(Lengthened(k), k)
      /\ UNCHANGED <<endOfFile, consumed, readFailed, peerSent, peerClosed>>
    BY DEF RxRead, peerVars
<1>2. /\ MaxAdd \in Nat /\ k \in 0 .. MaxAdd /\ k \in Nat /\ arrived \in Nat
      /\ peerSent \in Nat
    BY SocketAssumption DEF RxInv
<1>3. F \in Seq(S) /\ rxBuffer' = rxBuffer \o F BY <1>1, <1>2, LengthenedIs
<1>4. rxBuffer \in Seq(S) /\ consumed \in Seq(S) BY DEF RxInv
<1>5. arrived' \in 0 .. peerSent' BY <1>1, <1>2
<1>6. Following(0, arrived) \o F = Following(0, arrived') BY <1>1, <1>2, FollowingOn
<1> HIDE DEF S, F
<1>7. rxBuffer' \in Seq(S) BY <1>3, <1>4, ConcatProperties
<1>8. RxIsStream => RxIsStream'
    <2>1. Associative(Seq(S)) BY Regroup
    <2>2. (consumed \o rxBuffer) \o F = consumed \o (rxBuffer \o F)
        BY <1>3, <1>4, <2>1, Zenon DEF Associative
    <2> QED BY <1>1, <1>3, <1>6, <2>2, Zenon DEF RxIsStream
<1> QED BY <1>1, <1>5, <1>7, <1>8 DEF RxInv, RxStreamUntilFailure, S

\* A read that delivers nothing leaves rx_buffer as it was.
LEMMA NothingShortened ==
    ASSUME RxInv
    PROVE  Shortened(Lengthened(0), 0) = rxBuffer
<1>1. 0 \in 0 .. MaxAdd /\ arrived + 0 <= peerSent BY SocketAssumption DEF RxInv
<1>2. Shortened(Lengthened(0), 0) = rxBuffer \o Following(arrived, 0) BY <1>1, LengthenedIs
<1>3. Following(arrived, 0) = <<>> BY DEF Following
<1>4. rxBuffer \o <<>> = rxBuffer BY ConcatEmptySeq DEF RxInv
<1> QED BY <1>2, <1>3, <1>4

LEMMA RxFailedKeeps ==
    ASSUME RxInv, RxFailed
    PROVE  RxInv'
<1>1. /\ rxBuffer' = Lengthened(0) /\ readFailed' = TRUE
      /\ UNCHANGED <<endOfFile, arrived, consumed, peerSent, peerClosed>>
    BY DEF RxFailed, peerVars
<1>2. 0 \in 0 .. MaxAdd /\ arrived + 0 <= peerSent BY SocketAssumption DEF RxInv
<1>3. rxBuffer' \in Seq(RxBytes \cup {Garbage}) BY <1>1, <1>2, LengthenedIs
<1> QED BY <1>1, <1>3 DEF RxInv, RxStreamUntilFailure

LEMMA RxConsumeKeeps ==
    ASSUME RxInv, NEW k \in 1 .. MaxAdd, RxConsume(k)
    PROVE  RxInv'
<1> DEFINE S == RxBytes \cup {Garbage}
           A == SubSeq(rxBuffer, 1, k)
           B == SubSeq(rxBuffer, k + 1, Len(rxBuffer))
<1>1. /\ k <= Len(rxBuffer) /\ consumed' = consumed \o A /\ rxBuffer' = B
      /\ UNCHANGED <<endOfFile, arrived, readFailed, peerSent, peerClosed>>
    BY DEF RxConsume, peerVars
<1>2. rxBuffer \in Seq(S) /\ consumed \in Seq(S) BY DEF RxInv
<1>3. A \in Seq(S) /\ B \in Seq(S) /\ A \o B = rxBuffer
    <2>1. k \in 0 .. Len(rxBuffer) BY <1>1, SocketAssumption
    <2> QED BY <1>2, <2>1, SplitAt
<1> HIDE DEF S, A, B
<1>4. consumed' \in Seq(S) BY <1>1, <1>2, <1>3, ConcatProperties
<1>5. RxIsStream => RxIsStream'
    <2>1. Associative(Seq(S)) BY Regroup
    <2>2. (consumed \o A) \o B = consumed \o (A \o B)
        BY <1>2, <1>3, <2>1, Zenon DEF Associative
    <2> QED BY <1>1, <1>3, <2>2, Zenon DEF RxIsStream
<1> QED BY <1>1, <1>3, <1>4, <1>5 DEF RxInv, RxStreamUntilFailure, S

-----------------------------------------------------------------------------
(* The theorems *)

LEMMA InitIInv == Init => IInv
<1> SUFFICES ASSUME Init PROVE IInv OBVIOUS
<1>1. TxInv
    <2>1. StreamInOrder BY NothingIs DEF Init, StreamInOrder
    <2> QED BY <2>1, NothingIs DEF Init, TxInv
<1>2. RxInv
    <2>1. RxIsStream BY NothingIs DEF Init, RxIsStream
    <2>2. arrived \in 0 .. peerSent BY DEF Init
    <2> QED BY <2>1, <2>2, NothingIs DEF Init, RxInv, RxStreamUntilFailure
<1> QED BY <1>1, <1>2 DEF IInv

LEMMA NextIInv == IInv /\ [Next]_vars => IInv'
<1> SUFFICES ASSUME IInv, [Next]_vars PROVE IInv' OBVIOUS
<1> USE DEF IInv
<1>1. ASSUME UNCHANGED <<txVars>> PROVE TxInv'
    BY <1>1 DEF txVars, TxInv, WellFormed, StreamInOrder
<1>2. ASSUME UNCHANGED <<rxVars, peerVars>> PROVE RxInv'
    BY <1>2 DEF rxVars, peerVars, RxInv, RxStreamUntilFailure, RxIsStream
<1>3. ASSUME NEW k \in 1 .. MaxAdd, TxAdd(k) PROVE IInv'
    BY <1>2, <1>3, TxAddKeeps DEF TxAdd
<1>4. ASSUME NEW k \in 1 .. MaxAdd, TxAddToBufferFifo(k) PROVE IInv'
    BY <1>2, <1>4, TxAddToBufferFifoKeeps DEF TxAddToBufferFifo
<1>5. CASE TxNothingWritten BY <1>2, <1>5, TxNothingWrittenKeeps DEF TxNothingWritten
<1>6. ASSUME ~ asserted, NEW n \in 1 .. MaxTx, TxWritten(n) PROVE IInv'
    BY <1>2, <1>6, TxWrittenKeeps DEF TxWritten
<1>7. ASSUME NEW k \in 1 .. MaxAdd, RxRead(k) PROVE IInv'
    BY <1>1, <1>7, RxReadKeeps DEF RxRead
<1>8. CASE RxNothingRead \/ RxEndOfFile
    <2>1. rxBuffer' = rxBuffer
        BY <1>8, NothingShortened DEF RxNothingRead, RxEndOfFile
    <2>2. UNCHANGED <<arrived, consumed, readFailed, txVars, peerVars>> /\ endOfFile' \in BOOLEAN
        BY <1>8 DEF RxNothingRead, RxEndOfFile, RxInv
    <2>3. RxInv' BY <2>1, <2>2 DEF peerVars, RxInv, RxStreamUntilFailure, RxIsStream
    <2> QED BY <1>1, <2>2, <2>3
<1>9. CASE RxFailed BY <1>1, <1>9, RxFailedKeeps DEF RxFailed
<1>10. ASSUME NEW k \in 1 .. MaxAdd, RxConsume(k) PROVE IInv'
    BY <1>1, <1>10, RxConsumeKeeps DEF RxConsume
<1>11. ASSUME NEW k \in 1 .. MaxAdd, PeerSend(k) PROVE IInv'
    <2>1. /\ peerSent + k <= MaxRx /\ peerSent' = peerSent + k
          /\ UNCHANGED <<peerClosed, txVars, rxVars>>
        BY <1>11 DEF PeerSend
    <2>2. peerSent' \in 0 .. MaxRx /\ arrived \in 0 .. peerSent'
        BY <2>1, SocketAssumption DEF RxInv
    <2>3. RxInv' BY <2>1, <2>2 DEF rxVars, RxInv, RxStreamUntilFailure, RxIsStream
    <2> QED BY <1>1, <2>1, <2>3
<1>12. CASE PeerClose
    <2>1. UNCHANGED <<peerSent, txVars, rxVars>> /\ peerClosed' = TRUE BY <1>12 DEF PeerClose
    <2>2. RxInv' BY <2>1 DEF rxVars, RxInv, RxStreamUntilFailure, RxIsStream
    <2> QED BY <1>1, <2>1, <2>2
<1>13. CASE ~ asserted /\ CloseAndFree
    <2>1. TxInv'
        <3>1. StreamInOrder' BY <1>13, NothingIs DEF CloseAndFree, StreamInOrder
        <3> QED BY <1>13, <3>1, NothingIs DEF CloseAndFree, TxInv
    <2>2. RxInv'
        <3>1. RxIsStream' BY <1>13, NothingIs DEF CloseAndFree, RxIsStream
        <3>2. arrived' \in 0 .. peerSent' BY <1>13 DEF CloseAndFree
        <3> QED BY <1>13, <3>1, <3>2, NothingIs DEF CloseAndFree, RxInv, RxStreamUntilFailure
    <2> QED BY <2>1, <2>2
<1>14. CASE UNCHANGED vars BY <1>1, <1>2, <1>14 DEF vars, txVars, rxVars, peerVars
<1> QED BY <1>3, <1>4, <1>5, <1>6, <1>7, <1>8, <1>9, <1>10, <1>11, <1>12, <1>13, <1>14
        DEF Next, Tx, Rx

\* What the invariant says of the properties that are checked.
LEMMA IInvImplies == IInv => StreamUntilResumed /\ RxStreamUntilFailure
<1> SUFFICES ASSUME IInv PROVE StreamUntilResumed BY DEF IInv, RxInv
<1>1. ASSUME NEW i \in DOMAIN fifo
      PROVE  /\ fifo[i] = Buffer(fifo[i].bytes, fifo[i].offset)
             /\ fifo[i].bytes \in Seq(TxBytes) /\ fifo[i].offset \in Nat
             /\ fifo[i].offset < (IF i = 1 THEN Len(fifo[i].bytes) ELSE 1)
    <2>1. WellFormed(fifo) BY DEF IInv, TxInv
    <2>2. i \in 1 .. Len(fifo) BY <2>1, LenProperties DEF WellFormed
    <2>3. fifo[i] \in Buffers BY <2>1, <2>2, ElementOfSeq DEF WellFormed
    <2>4. fifo[i].offset < (IF i = 1 THEN Len(fifo[i].bytes) ELSE 1)
        BY <2>1, <2>2 DEF WellFormed
    <2> QED BY <2>3, <2>4 DEF Buffers, Buffer
<1>2. TypeOK
    <2>1. arrived \in 0 .. MaxRx BY SocketAssumption DEF IInv, RxInv
    <2>2. {endOfFile, asserted, peerClosed, resumed, readFailed} \subseteq BOOLEAN
        BY DEF IInv, TxInv, RxInv
    <2> QED BY <1>1, <2>1, <2>2 DEF IInv, TxInv, RxInv, TypeOK
<1>3. PartlySentIsHead BY <1>1 DEF PartlySentIsHead
<1> QED BY <1>2, <1>3 DEF IInv, TxInv, StreamUntilResumed

\* clib_socket_tx reclaims exactly what writev took, and keeps the rest in order, for
\* every size of buffers and of writes, until a write completes a buffer that was
\* partly sent before; only the buffer at the head is ever partly sent.
THEOREM SocketStream == Spec => []StreamUntilResumed
<1>1. IInv => StreamUntilResumed BY IInvImplies
<1> QED BY <1>1, InitIInv, NextIInv, PTL DEF Spec

\* What the caller took out of rx_buffer and what is left there is what read
\* delivered, through EWOULDBLOCK, short reads and the end of the file, until a read
\* fails for good.
THEOREM SocketRxStream == Spec => []RxStreamUntilFailure
<1>1. IInv => RxStreamUntilFailure BY IInvImplies
<1> QED BY <1>1, InitIInv, NextIInv, PTL DEF Spec

\* The assertion of clib_socket_tx that all bytes taken were reclaimed holds until
\* then, too.
THEOREM SocketAssertionHolds == Spec => [](resumed \/ ~ asserted)
<1>1. IInv => resumed \/ ~ asserted BY DEF IInv, TxInv
<1> QED BY <1>1, InitIInv, NextIInv, PTL DEF Spec

=================================================================================
