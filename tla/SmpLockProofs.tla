----------------------------- MODULE SmpLockProofs -----------------------------
(* Proofs about SmpLock: type correctness for every use of the lock; for the  *)
(* spin lock the inductive invariant SpinInv and what follows from it; and    *)
(* that the spin lock implements FifoLock.                                    *)
EXTENDS SmpLock, FiniteSetTheorems, SequenceTheorems, TLAPS

-----------------------------------------------------------------------------
(* The types, whatever the lock is used for *)

\* Every variable keeps its type.  What this needs beyond TypeOK is that a
\* thread about to advance the fifo has seen it non-empty.
TypeInv ==
    /\ TypeOK
    /\ \A c \in Cpus : pc[c] = "uslow_cas" => h0[c].n # 0

LEMMA Constants ==
    /\ NCpus \in Nat /\ NFifo \in Nat /\ NFifo >= 1 /\ NThreads \in Nat
    /\ NThreads >= 2 /\ NThreads >= NCpus
    /\ 0 \in Cpus /\ 0 \in Slots
    /\ ReadersModulus \in Nat /\ ReadersModulus > 1
BY NCpusAssumption, NThreadsAssumption DEF NFifo, Cpus, Slots, ReadersModulus

\* The ranges of a header's fields, those of the current one and of copies.
LEMMA HeaderFields ==
    ASSUME NEW h \in Header
    PROVE  /\ h.head \in Slots /\ h.n \in 0 .. NFifo
           /\ h.readers \in 0 .. ReadersModulus - 1 /\ h.writer \in {0, 1}
BY DEF Header

LEMMA WrapType == \A i \in 0 .. (2 * NFifo - 1) : Wrap(i) \in Slots
BY Constants DEF Wrap, Slots

\* Every header the routines install is a header.
LEMMA HeadersType ==
    ASSUME NEW h \in Header, NEW c \in Cpus, NEW t, NEW w
    PROVE  /\ Taken(h, c, t) \in Header
           /\ Released(h, c, t) \in Header
           /\ Left(h, c, t) \in Header
           /\ h.n + 1 <= NFifo => Queued(h, c) \in Header
           /\ h.n + 1 <= NFifo => Wrap(h.head + h.n) \in Slots
           /\ h.n # 0 => Advanced(h, c, t, w) \in Header
<1> USE Constants
<1>1. /\ h.head \in Slots /\ h.n \in 0 .. NFifo /\ h.req \in Cpus
      /\ h.readers \in 0 .. ReadersModulus - 1 /\ h.writer \in 0 .. 1
  BY DEF Header
<1>2. Taken(h, c, t) \in Header
  BY <1>1 DEF Taken, PlusReader, Word, Header
<1>3. Released(h, c, t) \in Header
  BY <1>1 DEF Released, MinusReader, Word, Header
<1>4. Left(h, c, t) \in Header
  BY <1>1 DEF Left, MinusReader, Word, Header
<1>5. h.n + 1 <= NFifo => Queued(h, c) \in Header
  BY <1>1 DEF Queued, Word, Header
<1>6. h.n + 1 <= NFifo => Wrap(h.head + h.n) \in Slots
  BY <1>1 DEF Wrap, Slots
<1>7. h.n # 0 => Advanced(h, c, t, w) \in Header
  <2> SUFFICES ASSUME h.n # 0 PROVE Advanced(h, c, t, w) \in Header
    OBVIOUS
  <2>1. Wrap(h.head + 1) \in Slots /\ h.n - 1 \in 0 .. NFifo
    BY <1>1 DEF Wrap, Slots
  <2>2. MinusReader(h.readers, t) \in 0 .. ReadersModulus - 1
    BY <1>1 DEF MinusReader
  <2>3. PlusReader(MinusReader(h.readers, t), "READER") \in 0 .. ReadersModulus - 1
    BY <2>2 DEF PlusReader
  <2>4. QED
    BY <1>1, <2>1, <2>2, <2>3 DEF Advanced, Word, Header
<1>8. QED
  BY <1>2, <1>3, <1>4, <1>5, <1>6, <1>7

LEMMA UnlockedType == Unlocked \in Header
BY Constants DEF Unlocked, Word, Header

LEMMA TypeInit == Init => TypeInv
<1>1. Init => TypeOK
  <2> SUFFICES ASSUME Init PROVE TypeOK
    OBVIOUS
  <2>1. header \in Header /\ h0 \in [Cpus -> Header]
    BY UnlockedType DEF Init
  <2>2. waitType \in [Slots -> WaitTypes] /\ hwt \in [Cpus -> WaitTypes]
    BY DEF Init, WaitTypes
  <2>3. pc \in [Cpus -> Pcs]
    BY DEF Init, Pcs
  <2>4. type \in [Cpus -> LockTypes] /\ panicked \in BOOLEAN /\ granted \in SUBSET Cpus
    BY DEF Init
  <2>5. tail \in [Cpus -> Slots] /\ slotCpu \in [Slots -> Cpus]
    BY Constants DEF Init
  <2>6. QED
    BY <2>1, <2>2, <2>3, <2>4, <2>5 DEF TypeOK
<1>2. Init => \A c \in Cpus : pc[c] # "uslow_cas"
  BY DEF Init
<1>3. QED
  BY <1>1, <1>2 DEF TypeInv

LEMMA TypeStep == TypeInv /\ [Next]_vars => TypeInv'
<1> SUFFICES ASSUME TypeInv, [Next]_vars PROVE TypeInv'
  OBVIOUS
<1> USE DEF TypeInv, TypeOK, Goto, Load, shared, history, Pcs, WaitTypes,
            LockPc, RetryPc, UnlockPc, SlotFree, LockGranted, HeadReady, FreeSlot
<1>1. ASSUME NEW c \in Cpus, NEW t \in Uses[c], LockRead(c, t) PROVE TypeInv'
  BY <1>1 DEF LockRead, LockTypes
<1>2. ASSUME NEW c \in Cpus, LockCas(c) PROVE TypeInv'
  BY <1>2, HeadersType, UnlockedType DEF LockCas
<1>3. ASSUME NEW c \in Cpus, LockCasLost(c) PROVE TypeInv'
  BY <1>3 DEF LockCasLost
<1>4. ASSUME NEW c \in Cpus, Enqueue(c) PROVE TypeInv'
  BY <1>4, HeadersType, UnlockedType DEF Enqueue
<1>5. ASSUME NEW c \in Cpus, EnqueueLost(c) PROVE TypeInv'
  BY <1>5 DEF EnqueueLost
<1>6. ASSUME NEW c \in Cpus, SlowTake(c) PROVE TypeInv'
  BY <1>6, HeadersType, UnlockedType DEF SlowTake
<1>7. ASSUME NEW c \in Cpus, SlowTakeLost(c) PROVE TypeInv'
  BY <1>7 DEF SlowTakeLost
<1>8. ASSUME NEW c \in Cpus, AwaitSlot(c) PROVE TypeInv'
  BY <1>8 DEF AwaitSlot
<1>9. ASSUME NEW c \in Cpus, SetWait(c) PROVE TypeInv'
  BY <1>9 DEF SetWait
<1>10. ASSUME NEW c \in Cpus, AwaitDone(c) PROVE TypeInv'
  BY <1>10 DEF AwaitDone
<1>11. ASSUME NEW c \in Cpus, ClearSlot(c) PROVE TypeInv'
  BY <1>11, Constants DEF ClearSlot
<1>12. ASSUME NEW c \in Cpus, UnlockRead(c) PROVE TypeInv'
  BY <1>12 DEF UnlockRead
<1>13. ASSUME NEW c \in Cpus, UnlockCas(c) PROVE TypeInv'
  BY <1>13, HeadersType, UnlockedType DEF UnlockCas
<1>14. ASSUME NEW c \in Cpus, UnlockCasLost(c) PROVE TypeInv'
  BY <1>14 DEF UnlockCasLost
<1>15. ASSUME NEW c \in Cpus, ReadHead(c) PROVE TypeInv'
  <2>1. h0[c] \in Header /\ h0[c].head \in Slots
    BY DEF Header
  <2>2. hwt' \in [Cpus -> WaitTypes] /\ pc' \in [Cpus -> Pcs]
    BY <1>15, <2>1 DEF ReadHead
  <2>3. \A d \in Cpus : pc'[d] = "uslow_cas" => h0[d].n # 0
    BY <1>15 DEF ReadHead
  <2>4. QED
    BY <1>15, <2>2, <2>3 DEF ReadHead
<1>16. ASSUME NEW c \in Cpus, Leave(c) PROVE TypeInv'
  BY <1>16, HeadersType, UnlockedType DEF Leave
<1>17. ASSUME NEW c \in Cpus, Advance(c) PROVE TypeInv'
  <2>1. h0[c] \in Header /\ h0[c].n # 0 /\ h0[c].head \in Slots
    BY <1>17 DEF Advance, Header
  <2>2. header' \in Header
    BY <1>17, <2>1, HeadersType DEF Advance
  <2>3. granted' \in SUBSET Cpus
    BY <1>17, <2>1 DEF Advance
  <2>4. QED
    BY <1>17, <2>2, <2>3 DEF Advance
<1>18. ASSUME NEW c \in Cpus, AdvanceLost(c) PROVE TypeInv'
  BY <1>18 DEF AdvanceLost
<1>19. ASSUME NEW c \in Cpus, Wake(c) PROVE TypeInv'
  BY <1>19, UnlockedType DEF Wake
<1>20. ASSUME NEW c \in Cpus, CheckMore(c) PROVE TypeInv'
  BY <1>20, UnlockedType DEF CheckMore
<1>21. ASSUME NEW c \in Cpus, Panic(c) PROVE TypeInv'
  BY <1>21 DEF Panic, locals
<1>22. CASE UNCHANGED vars
  BY <1>22 DEF vars
<1>23. QED
  BY <1>1, <1>2, <1>3, <1>4, <1>5, <1>6, <1>7, <1>8, <1>9, <1>10, <1>11, <1>12, <1>13, <1>14, <1>15, <1>16, <1>17, <1>18, <1>19, <1>20, <1>21, <1>22 DEF Next, Step, Request

\* Whatever kinds of lock calls the threads make, the header and the slots
\* stay what the C types can hold and every index stays inside its array.
THEOREM TypeCorrect == Spec => []TypeOK
<1>1. Spec => []TypeInv
  BY TypeInit, TypeStep, PTL DEF Spec
<1>2. TypeInv => TypeOK
  BY DEF TypeInv
<1>3. QED
  BY <1>1, <1>2, PTL

-----------------------------------------------------------------------------
(* The spin lock: SpinInv is inductive, whatever the number of cpus, and what *)
(* follows from it.                                                           *)

\* The threads only make spin lock calls.
SpinOnly == Uses \in [Cpus -> {{"SPIN"}}]

LEMMA SpinTypes == SpinOnly => LockTypes = {"SPIN"}
BY Constants DEF SpinOnly, LockTypes

\* What an advance of the head or of the tail does to the set of slots
\* between them.
LEMMA HeadAdvances ==
    ASSUME header \in Header, header.n > 0,
           header'.head = Wrap(header.head + 1), header'.n = header.n - 1
    PROVE  /\ InFifo(header.head)
           /\ \A s \in Slots : InFifo(s)' <=> InFifo(s) /\ s # header.head
BY Constants, HeaderFields DEF InFifo, Offset, Wrap, Slots

LEMMA HeadInFifo == header \in Header /\ header.n > 0 => InFifo(header.head)
BY Constants, HeaderFields DEF InFifo, Offset, Slots

LEMMA TailAdvances ==
    ASSUME header \in Header, header.n + 1 <= NFifo,
           header'.head = header.head, header'.n = header.n + 1
    PROVE  LET last == Wrap(header.head + header.n)
           IN  /\ last \in Slots
               /\ ~ InFifo(last)
               /\ \A s \in Slots : InFifo(s)' <=> InFifo(s) \/ s = last
BY Constants, HeaderFields DEF InFifo, Offset, Wrap, Slots

LEMMA LockReadSpin ==
    ASSUME SpinOnly, SpinInv, TypeInv', NEW c \in Cpus, NEW t \in Uses[c], LockRead(c, t)
    PROVE  SpinInv'
<1> USE Constants DEF SpinInv, TypeInv, TypeOK, Goto, Load, CasSucceeds, shared, history, LockRead, LockPc
<1>1. type' \in [Cpus -> {"SPIN"}]
  BY SpinTypes
<1>2. /\ header.n \in 0 .. NFifo /\ header.head \in Slots /\ header.writer \in {0, 1}
      /\ h0[c].n \in 0 .. NFifo /\ h0[c].head \in Slots /\ h0[c].writer \in {0, 1}
  BY HeaderFields
<1>4. HeaderInv'
  BY <1>1, <1>2 DEF HeaderInv
<1>5. FifoInv'
  BY <1>1, <1>2 DEF FifoInv, InFifo, Offset, Waiting, Unlocking
<1>6. PlaceInv'
  BY <1>1, <1>2 DEF InFifo, Offset, PlaceInv, Waiting, Unlocking
<1>7. SlotInv'
  BY DEF SlotInv, PlaceInv, FifoInv, Waiting, Unlocking
<1>8. WakeInv'
  BY DEF WakeInv, SlotInv, PlaceInv, Waiting, Unlocking
<1>9. CopyInv'
  BY <1>1, <1>2 DEF HeaderInv, PlaceInv, CopyInv, Waiting, Unlocking, Unlocked, Word, MustQueue
<1>10. QED
  BY <1>1, <1>4, <1>5, <1>6, <1>7, <1>8, <1>9

LEMMA LockCasSpin ==
    ASSUME SpinOnly, SpinInv, TypeInv', NEW c \in Cpus, LockCas(c)
    PROVE  SpinInv'
<1> USE Constants DEF SpinInv, TypeInv, TypeOK, Goto, Load, CasSucceeds, shared, history, LockCas
<1>1. type' \in [Cpus -> {"SPIN"}]
  BY SpinTypes
<1>2. /\ header.n \in 0 .. NFifo /\ header.head \in Slots /\ header.writer \in {0, 1}
      /\ h0[c].n \in 0 .. NFifo /\ h0[c].head \in Slots /\ h0[c].writer \in {0, 1}
  BY HeaderFields
<1>3. header'.head = header.head /\ header'.n = 0 /\ header'.readers = 0 /\ header'.writer = 1 /\ granted = {} /\ header.n = 0
  BY <1>2 DEF Taken, Word, PlusReader, HeaderInv, CopyInv
<1>4. HeaderInv'
  BY <1>2, <1>3 DEF HeaderInv
<1>5. FifoInv'
  BY <1>2, <1>3 DEF FifoInv, InFifo, Offset, Waiting, Unlocking
<1>6. PlaceInv'
  BY <1>2, <1>3 DEF InFifo, Offset, PlaceInv, Waiting, Unlocking
<1>7. SlotInv'
  BY <1>2, <1>3 DEF SlotInv, Waiting, Unlocking
<1>8. WakeInv'
  BY <1>2, <1>3 DEF WakeInv
<1>9. CopyInv'
  BY <1>2, <1>3 DEF CopyInv, Unlocking, Unlocked, Word, MustQueue
<1>10. QED
  BY <1>1, <1>4, <1>5, <1>6, <1>7, <1>8, <1>9

LEMMA LockCasLostSpin ==
    ASSUME SpinOnly, SpinInv, TypeInv', NEW c \in Cpus, LockCasLost(c)
    PROVE  SpinInv'
<1> USE Constants DEF SpinInv, TypeInv, TypeOK, Goto, Load, CasSucceeds, shared, history, LockCasLost, LockPc
<1>1. type' \in [Cpus -> {"SPIN"}]
  BY SpinTypes
<1>2. /\ header.n \in 0 .. NFifo /\ header.head \in Slots /\ header.writer \in {0, 1}
      /\ h0[c].n \in 0 .. NFifo /\ h0[c].head \in Slots /\ h0[c].writer \in {0, 1}
  BY HeaderFields
<1>4. HeaderInv'
  BY <1>1, <1>2 DEF HeaderInv
<1>5. FifoInv'
  BY <1>1, <1>2 DEF FifoInv, InFifo, Offset, Waiting, Unlocking
<1>6. PlaceInv'
  BY <1>1, <1>2 DEF InFifo, Offset, PlaceInv, Waiting, Unlocking
<1>7. SlotInv'
  BY DEF SlotInv, PlaceInv, FifoInv, Waiting, Unlocking
<1>8. WakeInv'
  BY DEF WakeInv, SlotInv, PlaceInv, Waiting, Unlocking
<1>9. CopyInv'
  BY <1>1, <1>2 DEF HeaderInv, PlaceInv, CopyInv, Waiting, Unlocking, Unlocked, Word, MustQueue
<1>10. QED
  BY <1>1, <1>4, <1>5, <1>6, <1>7, <1>8, <1>9

LEMMA EnqueueSpin ==
    ASSUME SpinOnly, SpinInv, TypeInv', NEW c \in Cpus, Enqueue(c)
    PROVE  SpinInv'
<1> USE Constants DEF SpinInv, TypeInv, TypeOK, Goto, Load, CasSucceeds, shared, history, Enqueue
<1>1. type' \in [Cpus -> {"SPIN"}]
  BY SpinTypes
<1>2. /\ header.n \in 0 .. NFifo /\ header.head \in Slots /\ header.writer \in {0, 1}
      /\ h0[c].n \in 0 .. NFifo /\ h0[c].head \in Slots /\ h0[c].writer \in {0, 1}
  BY HeaderFields
<1>3. header'.head = header.head /\ header'.n = header.n + 1 /\ header'.readers = 0 /\ header'.writer = 1 /\ header.writer = 1
  BY <1>2 DEF Queued, Word, HeaderInv, CopyInv
<1> DEFINE last == Wrap(header.head + header.n)
<1>11. /\ last \in Slots /\ ~ InFifo(last)
      /\ \A s \in Slots : InFifo(s)' <=> InFifo(s) \/ s = last
  BY <1>2, <1>3, TailAdvances
<1>12. c \notin granted /\ granted \subseteq Cpus
  BY DEF PlaceInv, Unlocking
<1>13. /\ pc' = [pc EXCEPT ![c] = "wait_slot"] /\ h0' = [h0 EXCEPT ![c] = Unlocked]
       /\ tail' = [tail EXCEPT ![c] = last] /\ slotCpu' = [slotCpu EXCEPT ![last] = c]
       /\ UNCHANGED <<waitType, hwt, granted>> /\ pc[c] = "slow_cas"
  OBVIOUS
<1> HIDE DEF last, Enqueue
<1>4. HeaderInv'
  BY <1>2, <1>3, <1>13 DEF HeaderInv
<1>5. FifoInv'
  BY <1>11, <1>12, <1>13 DEF FifoInv, PlaceInv, Waiting
<1>6. PlaceInv'
  BY <1>11, <1>12, <1>13 DEF FifoInv, PlaceInv, Waiting, Unlocking
<1>7. SlotInv'
  BY <1>11, <1>12, <1>13 DEF FifoInv, PlaceInv, SlotInv, Waiting, Unlocking
<1>8. WakeInv'
  <2>1. \A w \in Cpus : pc'[w] = "wake" <=> pc[w] = "wake" /\ w # c
    BY <1>13
  <2>2. \A g \in granted : g # c /\ tail'[g] = tail[g] /\ pc'[g] = pc[g]
    BY <1>12, <1>13
  <2>3. \A w \in Cpus : w # c => h0'[w] = h0[w]
    BY <1>13
  <2>4. /\ \A w \in Cpus : pc'[w] = "wake" =>
               /\ waitType'[h0'[w].head] = "WRITER" /\ hwt'[w] = "WRITER"
               /\ \E g \in granted' : pc'[g] = "wait_done" /\ tail'[g] = h0'[w].head
        /\ \A v, w \in Cpus : pc'[v] = "wake" /\ pc'[w] = "wake" => v = w
    BY <1>13, <2>1, <2>2, <2>3 DEF WakeInv
  <2>5. \A g \in granted' : pc'[g] = "wait_done" /\ waitType'[tail'[g]] = "WRITER" =>
           \E w \in Cpus : pc'[w] = "wake" /\ h0'[w].head = tail'[g]
    <3> SUFFICES ASSUME NEW g \in granted, pc'[g] = "wait_done", waitType'[tail'[g]] = "WRITER"
                 PROVE  \E w \in Cpus : pc'[w] = "wake" /\ h0'[w].head = tail'[g]
      BY <1>13
    <3>1. pc[g] = "wait_done" /\ waitType[tail[g]] = "WRITER" /\ tail'[g] = tail[g]
      BY <1>13, <2>2
    <3>2. PICK w \in Cpus : pc[w] = "wake" /\ h0[w].head = tail[g]
      BY <3>1 DEF WakeInv
    <3>3. w # c
      BY <1>13, <3>2
    <3>4. QED
      BY <2>1, <2>3, <3>1, <3>2, <3>3
  <2>6. QED
    BY <2>4, <2>5 DEF WakeInv
<1>9. CopyInv'
  <2>1. header.n > 0 => InFifo(header.head) /\ header.head # last
    BY <1>11, HeadInFifo
  <2>2. \A d \in Cpus : pc[d] \in Unlocking => InFifo(header.head) /\ header.head # last
    <3> SUFFICES ASSUME NEW d \in Cpus, pc[d] \in Unlocking PROVE header.n > 0
      BY <2>1
    <3>1. h0[d] \in Header
      OBVIOUS
    <3>2. h0[d].n \in 0 .. NFifo
      BY <3>1 DEF Header
    <3>3. h0[d].n > 0 /\ h0[d].n <= header.n
      BY DEF CopyInv
    <3>4. QED
      BY <1>2, <3>2, <3>3
  <2>3. QED
    BY <1>2, <1>3, <1>11, <1>12, <1>13, <2>2, HeaderFields DEF CopyInv, FifoInv, PlaceInv, Unlocking, Waiting, Unlocked, Word
<1>10. QED
  BY <1>1, <1>4, <1>5, <1>6, <1>7, <1>8, <1>9

LEMMA EnqueueLostSpin ==
    ASSUME SpinOnly, SpinInv, TypeInv', NEW c \in Cpus, EnqueueLost(c)
    PROVE  SpinInv'
<1> USE Constants DEF SpinInv, TypeInv, TypeOK, Goto, Load, CasSucceeds, shared, history, EnqueueLost, RetryPc
<1>1. type' \in [Cpus -> {"SPIN"}]
  BY SpinTypes
<1>2. /\ header.n \in 0 .. NFifo /\ header.head \in Slots /\ header.writer \in {0, 1}
      /\ h0[c].n \in 0 .. NFifo /\ h0[c].head \in Slots /\ h0[c].writer \in {0, 1}
  BY HeaderFields
<1>4. HeaderInv'
  BY <1>1, <1>2 DEF HeaderInv
<1>5. FifoInv'
  BY <1>1, <1>2 DEF FifoInv, InFifo, Offset, Waiting, Unlocking
<1>6. PlaceInv'
  BY <1>1, <1>2 DEF InFifo, Offset, PlaceInv, Waiting, Unlocking
<1>7. SlotInv'
  BY DEF SlotInv, PlaceInv, FifoInv, Waiting, Unlocking
<1>8. WakeInv'
  BY DEF WakeInv, SlotInv, PlaceInv, Waiting, Unlocking
<1>9. CopyInv'
  BY <1>1, <1>2 DEF HeaderInv, PlaceInv, CopyInv, Waiting, Unlocking, Unlocked, Word, MustQueue
<1>10. QED
  BY <1>1, <1>4, <1>5, <1>6, <1>7, <1>8, <1>9

LEMMA SlowTakeSpin ==
    ASSUME SpinOnly, SpinInv, TypeInv', NEW c \in Cpus, SlowTake(c)
    PROVE  SpinInv'
<1> USE Constants DEF SpinInv, TypeInv, TypeOK, Goto, Load, CasSucceeds, shared, history, SlowTake
<1>1. type' \in [Cpus -> {"SPIN"}]
  BY SpinTypes
<1>2. /\ header.n \in 0 .. NFifo /\ header.head \in Slots /\ header.writer \in {0, 1}
      /\ h0[c].n \in 0 .. NFifo /\ h0[c].head \in Slots /\ h0[c].writer \in {0, 1}
  BY HeaderFields
<1>3. header'.head = header.head /\ header'.n = 0 /\ header'.readers = 0 /\ header'.writer = 1 /\ granted = {} /\ header.n = 0
  BY <1>2 DEF Taken, Word, PlusReader, HeaderInv, CopyInv
<1>4. HeaderInv'
  BY <1>2, <1>3 DEF HeaderInv
<1>5. FifoInv'
  BY <1>2, <1>3 DEF FifoInv, InFifo, Offset, Waiting, Unlocking
<1>6. PlaceInv'
  BY <1>2, <1>3 DEF InFifo, Offset, PlaceInv, Waiting, Unlocking
<1>7. SlotInv'
  BY <1>2, <1>3 DEF SlotInv, Waiting, Unlocking
<1>8. WakeInv'
  BY <1>2, <1>3 DEF WakeInv
<1>9. CopyInv'
  BY <1>2, <1>3 DEF CopyInv, Unlocking, Unlocked, Word, MustQueue
<1>10. QED
  BY <1>1, <1>4, <1>5, <1>6, <1>7, <1>8, <1>9

LEMMA SlowTakeLostSpin ==
    ASSUME SpinOnly, SpinInv, TypeInv', NEW c \in Cpus, SlowTakeLost(c)
    PROVE  SpinInv'
<1> USE Constants DEF SpinInv, TypeInv, TypeOK, Goto, Load, CasSucceeds, shared, history, SlowTakeLost, RetryPc
<1>1. type' \in [Cpus -> {"SPIN"}]
  BY SpinTypes
<1>2. /\ header.n \in 0 .. NFifo /\ header.head \in Slots /\ header.writer \in {0, 1}
      /\ h0[c].n \in 0 .. NFifo /\ h0[c].head \in Slots /\ h0[c].writer \in {0, 1}
  BY HeaderFields
<1>4. HeaderInv'
  BY <1>1, <1>2 DEF HeaderInv
<1>5. FifoInv'
  BY <1>1, <1>2 DEF FifoInv, InFifo, Offset, Waiting, Unlocking
<1>6. PlaceInv'
  BY <1>1, <1>2 DEF InFifo, Offset, PlaceInv, Waiting, Unlocking
<1>7. SlotInv'
  BY DEF SlotInv, PlaceInv, FifoInv, Waiting, Unlocking
<1>8. WakeInv'
  BY DEF WakeInv, SlotInv, PlaceInv, Waiting, Unlocking
<1>9. CopyInv'
  BY <1>1, <1>2 DEF HeaderInv, PlaceInv, CopyInv, Waiting, Unlocking, Unlocked, Word, MustQueue
<1>10. QED
  BY <1>1, <1>4, <1>5, <1>6, <1>7, <1>8, <1>9

LEMMA AwaitSlotSpin ==
    ASSUME SpinOnly, SpinInv, TypeInv', NEW c \in Cpus, AwaitSlot(c)
    PROVE  SpinInv'
<1> USE Constants DEF SpinInv, TypeInv, TypeOK, Goto, Load, CasSucceeds, shared, history, AwaitSlot, SlotFree
<1>1. type' \in [Cpus -> {"SPIN"}]
  BY SpinTypes
<1>2. /\ header.n \in 0 .. NFifo /\ header.head \in Slots /\ header.writer \in {0, 1}
      /\ h0[c].n \in 0 .. NFifo /\ h0[c].head \in Slots /\ h0[c].writer \in {0, 1}
  BY HeaderFields
<1>4. HeaderInv'
  BY <1>1, <1>2 DEF HeaderInv
<1>5. FifoInv'
  BY <1>1, <1>2 DEF FifoInv, InFifo, Offset, Waiting, Unlocking
<1>6. PlaceInv'
  BY <1>1, <1>2 DEF InFifo, Offset, PlaceInv, Waiting, Unlocking
<1>7. SlotInv'
  BY DEF SlotInv, PlaceInv, FifoInv, Waiting, Unlocking
<1>8. WakeInv'
  BY DEF WakeInv, SlotInv, PlaceInv, Waiting, Unlocking
<1>9. CopyInv'
  BY <1>1, <1>2 DEF CopyInv, Unlocking, Unlocked, Word, MustQueue
<1>10. QED
  BY <1>1, <1>4, <1>5, <1>6, <1>7, <1>8, <1>9

LEMMA SetWaitSpin ==
    ASSUME SpinOnly, SpinInv, TypeInv', NEW c \in Cpus, SetWait(c)
    PROVE  SpinInv'
<1> USE Constants DEF SpinInv, TypeInv, TypeOK, Goto, Load, CasSucceeds, shared, history, SetWait
<1>1. type' \in [Cpus -> {"SPIN"}]
  BY SpinTypes
<1>2. /\ header.n \in 0 .. NFifo /\ header.head \in Slots /\ header.writer \in {0, 1}
      /\ h0[c].n \in 0 .. NFifo /\ h0[c].head \in Slots /\ h0[c].writer \in {0, 1}
  BY HeaderFields
<1>4. HeaderInv'
  BY <1>1, <1>2 DEF HeaderInv
<1>5. FifoInv'
  BY <1>1, <1>2 DEF FifoInv, InFifo, Offset, Waiting, Unlocking
<1>6. PlaceInv'
  BY <1>1, <1>2 DEF InFifo, Offset, PlaceInv, Waiting, Unlocking
<1>7. SlotInv'
  BY DEF SlotInv, PlaceInv, FifoInv, Waiting, Unlocking
<1>8. WakeInv'
  BY DEF WakeInv, SlotInv, PlaceInv, Waiting, Unlocking
<1>9. CopyInv'
  BY <1>1, <1>2 DEF CopyInv, Unlocking, Unlocked, Word, MustQueue
<1>10. QED
  BY <1>1, <1>4, <1>5, <1>6, <1>7, <1>8, <1>9

LEMMA AwaitDoneSpin ==
    ASSUME SpinOnly, SpinInv, TypeInv', NEW c \in Cpus, AwaitDone(c)
    PROVE  SpinInv'
<1> USE Constants DEF SpinInv, TypeInv, TypeOK, Goto, Load, CasSucceeds, shared, history, AwaitDone, LockGranted
<1>1. type' \in [Cpus -> {"SPIN"}]
  BY SpinTypes
<1>2. /\ header.n \in 0 .. NFifo /\ header.head \in Slots /\ header.writer \in {0, 1}
      /\ h0[c].n \in 0 .. NFifo /\ h0[c].head \in Slots /\ h0[c].writer \in {0, 1}
  BY HeaderFields
<1>4. HeaderInv'
  BY <1>1, <1>2 DEF HeaderInv
<1>5. FifoInv'
  BY <1>1, <1>2 DEF HeaderInv, FifoInv, InFifo, Offset, PlaceInv, SlotInv, CopyInv, Waiting, Unlocking
<1>6. PlaceInv'
  BY <1>1, <1>2 DEF HeaderInv, FifoInv, InFifo, Offset, PlaceInv, SlotInv, CopyInv, Waiting, Unlocking
<1>7. SlotInv'
  BY <1>1, <1>2 DEF SlotInv, Waiting, Unlocking
<1>8. WakeInv'
  BY <1>1, <1>2 DEF WakeInv
<1>9. CopyInv'
  BY <1>1, <1>2 DEF HeaderInv, FifoInv, InFifo, Offset, PlaceInv, SlotInv, CopyInv, Waiting, Unlocking, Unlocked, Word, MustQueue
<1>10. QED
  BY <1>1, <1>4, <1>5, <1>6, <1>7, <1>8, <1>9

LEMMA ClearSlotSpin ==
    ASSUME SpinOnly, SpinInv, TypeInv', NEW c \in Cpus, ClearSlot(c)
    PROVE  SpinInv'
<1> USE Constants DEF SpinInv, TypeInv, TypeOK, Goto, Load, CasSucceeds, shared, history, ClearSlot, FreeSlot
<1>1. type' \in [Cpus -> {"SPIN"}]
  BY SpinTypes
<1>2. /\ header.n \in 0 .. NFifo /\ header.head \in Slots /\ header.writer \in {0, 1}
      /\ h0[c].n \in 0 .. NFifo /\ h0[c].head \in Slots /\ h0[c].writer \in {0, 1}
  BY HeaderFields
<1>4. HeaderInv'
  BY <1>1, <1>2 DEF HeaderInv
<1>5. FifoInv'
  BY <1>1, <1>2 DEF FifoInv, InFifo, Offset, Waiting, Unlocking
<1>6. PlaceInv'
  BY <1>1, <1>2 DEF InFifo, Offset, PlaceInv, Waiting, Unlocking
<1>7. SlotInv'
  BY <1>1, <1>2 DEF HeaderInv, PlaceInv, SlotInv, CopyInv, Waiting, Unlocking
<1>8. WakeInv'
  BY <1>1, <1>2 DEF HeaderInv, PlaceInv, WakeInv, CopyInv, Waiting, Unlocking
<1>9. CopyInv'
  BY <1>1, <1>2 DEF HeaderInv, PlaceInv, CopyInv, Waiting, Unlocking, Unlocked, Word, MustQueue
<1>10. QED
  BY <1>1, <1>4, <1>5, <1>6, <1>7, <1>8, <1>9

LEMMA UnlockReadSpin ==
    ASSUME SpinOnly, SpinInv, TypeInv', NEW c \in Cpus, UnlockRead(c)
    PROVE  SpinInv'
<1> USE Constants DEF SpinInv, TypeInv, TypeOK, Goto, Load, CasSucceeds, shared, history, UnlockRead, UnlockPc
<1>1. type' \in [Cpus -> {"SPIN"}]
  BY SpinTypes
<1>2. /\ header.n \in 0 .. NFifo /\ header.head \in Slots /\ header.writer \in {0, 1}
      /\ h0[c].n \in 0 .. NFifo /\ h0[c].head \in Slots /\ h0[c].writer \in {0, 1}
  BY HeaderFields
<1>4. HeaderInv'
  BY <1>1, <1>2 DEF HeaderInv
<1>5. FifoInv'
  BY <1>1, <1>2 DEF FifoInv, InFifo, Offset, Waiting, Unlocking
<1>6. PlaceInv'
  BY <1>1, <1>2 DEF InFifo, Offset, PlaceInv, Waiting, Unlocking
<1>7. SlotInv'
  BY <1>1, <1>2 DEF SlotInv, Waiting, Unlocking
<1>8. WakeInv'
  BY <1>1, <1>2 DEF WakeInv
<1>9. CopyInv'
  BY <1>1, <1>2 DEF HeaderInv, PlaceInv, CopyInv, Waiting, Unlocking, Unlocked, Word, MustQueue
<1>10. QED
  BY <1>1, <1>4, <1>5, <1>6, <1>7, <1>8, <1>9

LEMMA UnlockCasSpin ==
    ASSUME SpinOnly, SpinInv, TypeInv', NEW c \in Cpus, UnlockCas(c)
    PROVE  SpinInv'
<1> USE Constants DEF SpinInv, TypeInv, TypeOK, Goto, Load, CasSucceeds, shared, history, UnlockCas
<1>1. type' \in [Cpus -> {"SPIN"}]
  BY SpinTypes
<1>2. /\ header.n \in 0 .. NFifo /\ header.head \in Slots /\ header.writer \in {0, 1}
      /\ h0[c].n \in 0 .. NFifo /\ h0[c].head \in Slots /\ h0[c].writer \in {0, 1}
  BY HeaderFields
<1>3. header'.head = header.head /\ header'.n = 0 /\ header'.readers = 0 /\ header'.writer = 0 /\ granted = {c} /\ header.n = 0
  BY <1>2 DEF Released, Word, MinusReader, HeaderInv, CopyInv, PlaceInv, Unlocking
<1>4. HeaderInv'
  BY <1>2, <1>3 DEF HeaderInv
<1>5. FifoInv'
  BY <1>2, <1>3 DEF FifoInv, InFifo, Offset, Waiting, Unlocking
<1>6. PlaceInv'
  BY <1>2, <1>3 DEF InFifo, Offset, PlaceInv, Waiting, Unlocking
<1>7. SlotInv'
  BY <1>2, <1>3 DEF SlotInv, Waiting, Unlocking
<1>8. WakeInv'
  BY <1>2, <1>3 DEF WakeInv
<1>9. CopyInv'
  BY <1>2, <1>3 DEF CopyInv, Unlocking, Unlocked, Word, MustQueue
<1>10. QED
  BY <1>1, <1>4, <1>5, <1>6, <1>7, <1>8, <1>9

LEMMA UnlockCasLostSpin ==
    ASSUME SpinOnly, SpinInv, TypeInv', NEW c \in Cpus, UnlockCasLost(c)
    PROVE  SpinInv'
<1> USE Constants DEF SpinInv, TypeInv, TypeOK, Goto, Load, CasSucceeds, shared, history, UnlockCasLost, UnlockPc
<1>1. type' \in [Cpus -> {"SPIN"}]
  BY SpinTypes
<1>2. /\ header.n \in 0 .. NFifo /\ header.head \in Slots /\ header.writer \in {0, 1}
      /\ h0[c].n \in 0 .. NFifo /\ h0[c].head \in Slots /\ h0[c].writer \in {0, 1}
  BY HeaderFields
<1>4. HeaderInv'
  BY <1>1, <1>2 DEF HeaderInv
<1>5. FifoInv'
  BY <1>1, <1>2 DEF FifoInv, InFifo, Offset, Waiting, Unlocking
<1>6. PlaceInv'
  BY <1>1, <1>2 DEF InFifo, Offset, PlaceInv, Waiting, Unlocking
<1>7. SlotInv'
  BY <1>1, <1>2 DEF SlotInv, Waiting, Unlocking
<1>8. WakeInv'
  BY <1>1, <1>2 DEF WakeInv
<1>9. CopyInv'
  BY <1>1, <1>2 DEF HeaderInv, PlaceInv, CopyInv, Waiting, Unlocking, Unlocked, Word, MustQueue
<1>10. QED
  BY <1>1, <1>4, <1>5, <1>6, <1>7, <1>8, <1>9

LEMMA ReadHeadSpin ==
    ASSUME SpinOnly, SpinInv, TypeInv', NEW c \in Cpus, ReadHead(c)
    PROVE  SpinInv'
<1> USE Constants DEF SpinInv, TypeInv, TypeOK, Goto, Load, CasSucceeds, shared, history, ReadHead, HeadReady
<1>1. type' \in [Cpus -> {"SPIN"}]
  BY SpinTypes
<1>2. /\ header.n \in 0 .. NFifo /\ header.head \in Slots /\ header.writer \in {0, 1}
      /\ h0[c].n \in 0 .. NFifo /\ h0[c].head \in Slots /\ h0[c].writer \in {0, 1}
  BY HeaderFields
<1>4. HeaderInv'
  BY <1>1, <1>2 DEF HeaderInv
<1>5. FifoInv'
  BY <1>1, <1>2 DEF FifoInv, InFifo, Offset, Waiting, Unlocking
<1>6. PlaceInv'
  BY <1>1, <1>2 DEF InFifo, Offset, PlaceInv, Waiting, Unlocking
<1>7. SlotInv'
  BY <1>1, <1>2 DEF SlotInv, Waiting, Unlocking
<1>8. WakeInv'
  BY <1>1, <1>2 DEF WakeInv
<1>9. CopyInv'
  BY <1>1, <1>2 DEF HeaderInv, FifoInv, InFifo, Offset, PlaceInv, SlotInv, WakeInv, CopyInv, Waiting, Unlocking, Unlocked, Word, MustQueue
<1>10. QED
  BY <1>1, <1>4, <1>5, <1>6, <1>7, <1>8, <1>9

LEMMA AdvanceSpin ==
    ASSUME SpinOnly, SpinInv, TypeInv', NEW c \in Cpus, Advance(c)
    PROVE  SpinInv'
<1> USE Constants DEF SpinInv, TypeInv, TypeOK, Goto, Load, CasSucceeds, shared, history, Advance
<1>1. type' \in [Cpus -> {"SPIN"}]
  BY SpinTypes
<1>2. /\ header.n \in 0 .. NFifo /\ header.head \in Slots /\ header.writer \in {0, 1}
      /\ h0[c].n \in 0 .. NFifo /\ h0[c].head \in Slots /\ h0[c].writer \in {0, 1}
  BY HeaderFields
<1>3. header'.head = Wrap(header.head + 1) /\ header'.n = header.n - 1 /\ header'.readers = 0 /\ header'.writer = 1 /\ granted = {c} /\ header.n > 0
  BY <1>2 DEF Advanced, Word, MinusReader, HeaderInv, CopyInv, PlaceInv, Unlocking
<1>11. /\ InFifo(header.head)
      /\ \A s \in Slots : InFifo(s)' <=> InFifo(s) /\ s # header.head
  BY <1>3, HeadAdvances
<1>12. /\ granted' = {slotCpu[header.head]}
      /\ slotCpu[header.head] \in Cpus /\ slotCpu[header.head] # c
      /\ tail[slotCpu[header.head]] = header.head
      /\ pc[slotCpu[header.head]] = "wait_done"
      /\ pc[c] = "uslow_cas"
  BY <1>2, <1>3, <1>11 DEF FifoInv, CopyInv
<1>4. HeaderInv'
  BY <1>2, <1>3 DEF HeaderInv
<1>5. FifoInv'
  BY <1>2, <1>3, <1>11, <1>12 DEF FifoInv, Waiting
<1>6. PlaceInv'
  BY <1>3, <1>11, <1>12 DEF FifoInv, PlaceInv, Waiting, Unlocking
<1>7. SlotInv'
  BY <1>2, <1>3 DEF PlaceInv, SlotInv, Waiting, Unlocking
<1>8. WakeInv'
  <2>1. \A w \in Cpus : pc[w] # "wake"
    BY <1>3, <1>12 DEF WakeInv
  <2>2. \A w \in Cpus : pc'[w] = "wake" <=> w = c
    BY <2>1
  <2>3. /\ waitType'[h0'[c].head] = "WRITER" /\ hwt'[c] = "WRITER"
        /\ h0'[c].head = header.head /\ tail' = tail
    BY <1>12 DEF CopyInv, Unlocking
  <2>4. \E g \in granted' : pc'[g] = "wait_done" /\ tail'[g] = h0'[c].head
    BY <1>12, <2>3
  <2>5. \A g \in granted' : tail'[g] = h0'[c].head
    BY <1>12, <2>3
  <2>6. QED
    BY <2>2, <2>3, <2>4, <2>5 DEF WakeInv
<1>9. CopyInv'
  BY <1>2, <1>3 DEF PlaceInv, CopyInv, Waiting, Unlocking, Unlocked, Word, MustQueue
<1>10. QED
  BY <1>1, <1>4, <1>5, <1>6, <1>7, <1>8, <1>9

LEMMA AdvanceLostSpin ==
    ASSUME SpinOnly, SpinInv, TypeInv', NEW c \in Cpus, AdvanceLost(c)
    PROVE  SpinInv'
<1> USE Constants DEF SpinInv, TypeInv, TypeOK, Goto, Load, CasSucceeds, shared, history, AdvanceLost
<1>1. type' \in [Cpus -> {"SPIN"}]
  BY SpinTypes
<1>2. /\ header.n \in 0 .. NFifo /\ header.head \in Slots /\ header.writer \in {0, 1}
      /\ h0[c].n \in 0 .. NFifo /\ h0[c].head \in Slots /\ h0[c].writer \in {0, 1}
  BY HeaderFields
<1>4. HeaderInv'
  BY <1>1, <1>2 DEF HeaderInv
<1>5. FifoInv'
  BY <1>1, <1>2 DEF FifoInv, InFifo, Offset, Waiting, Unlocking
<1>6. PlaceInv'
  BY <1>1, <1>2 DEF HeaderInv, InFifo, Offset, PlaceInv, CopyInv, Waiting, Unlocking
<1>7. SlotInv'
  BY <1>1, <1>2 DEF SlotInv, Waiting, Unlocking
<1>8. WakeInv'
  BY <1>1, <1>2 DEF PlaceInv, WakeInv, Waiting, Unlocking
<1>9. CopyInv'
  BY <1>1, <1>2 DEF HeaderInv, PlaceInv, CopyInv, Waiting, Unlocking, Unlocked, Word, MustQueue
<1>10. QED
  BY <1>1, <1>4, <1>5, <1>6, <1>7, <1>8, <1>9

LEMMA WakeSpin ==
    ASSUME SpinOnly, SpinInv, TypeInv', NEW c \in Cpus, Wake(c)
    PROVE  SpinInv'
<1> USE Constants DEF SpinInv, TypeInv, TypeOK, Goto, Load, CasSucceeds, shared, history, Wake
<1>1. type' \in [Cpus -> {"SPIN"}]
  BY SpinTypes
<1>2. /\ header.n \in 0 .. NFifo /\ header.head \in Slots /\ header.writer \in {0, 1}
      /\ h0[c].n \in 0 .. NFifo /\ h0[c].head \in Slots /\ h0[c].writer \in {0, 1}
  BY HeaderFields
<1>4. HeaderInv'
  BY <1>1, <1>2 DEF HeaderInv
<1>5. FifoInv'
  BY <1>1, <1>2 DEF FifoInv, InFifo, Offset, Waiting, Unlocking
<1>6. PlaceInv'
  BY <1>1, <1>2 DEF HeaderInv, FifoInv, InFifo, Offset, PlaceInv, SlotInv, WakeInv, CopyInv, Waiting, Unlocking
<1>7. SlotInv'
  BY <1>1, <1>2 DEF HeaderInv, FifoInv, InFifo, Offset, PlaceInv, SlotInv, WakeInv, CopyInv, Waiting, Unlocking
<1>8. WakeInv'
  BY <1>1, <1>2 DEF WakeInv
<1>9. CopyInv'
  BY <1>1, <1>2 DEF HeaderInv, FifoInv, InFifo, Offset, PlaceInv, SlotInv, WakeInv, CopyInv, Waiting, Unlocking, Unlocked, Word, MustQueue
<1>10. QED
  BY <1>1, <1>4, <1>5, <1>6, <1>7, <1>8, <1>9

LEMMA PanicSpin ==
    ASSUME SpinInv, NEW c \in Cpus, Panic(c)
    PROVE  SpinInv'
BY DEF SpinInv, TypeOK, Panic, shared, locals, history, HeaderInv, FifoInv, InFifo, Offset,
       PlaceInv, SlotInv, WakeInv, CopyInv, Waiting, Unlocking

\* A spin lock never leaves by the reader's exit and never looks for a
\* second reader to wake.
LEMMA NoReaderSteps ==
    ASSUME SpinInv, NEW c \in Cpus
    PROVE  ~ Leave(c) /\ ~ CheckMore(c)
BY DEF SpinInv, PlaceInv, Leave, CheckMore, MustWaitForReaders

LEMMA SpinInit == SpinOnly /\ Init => SpinInv
<1> SUFFICES ASSUME SpinOnly, Init PROVE SpinInv
  OBVIOUS
<1>1. TypeOK
  BY TypeInit DEF TypeInv
<1>2. \A c \in Cpus : type[c] = "SPIN"
  BY SpinTypes DEF Init
<1>3. \A s \in Slots : ~ InFifo(s)
  BY Constants DEF Init, InFifo, Offset, Unlocked, Word, Slots
<1>4. HeaderInv /\ FifoInv /\ PlaceInv /\ SlotInv /\ WakeInv /\ CopyInv
  BY <1>3 DEF Init, Unlocked, Word, HeaderInv, FifoInv, PlaceInv, SlotInv, WakeInv, CopyInv,
              Waiting, Unlocking
<1>5. QED
  BY <1>1, <1>2, <1>4 DEF SpinInv

LEMMA SpinStep == SpinOnly /\ TypeInv /\ SpinInv /\ [Next]_vars => SpinInv'
<1> SUFFICES ASSUME SpinOnly, TypeInv, SpinInv, [Next]_vars PROVE SpinInv'
  OBVIOUS
<1>1. TypeInv'
  BY TypeStep
<1>2. CASE UNCHANGED vars
  BY <1>2 DEF vars, SpinInv, TypeOK, HeaderInv, FifoInv, InFifo, Offset, PlaceInv, SlotInv,
              WakeInv, CopyInv, Waiting, Unlocking
<1>3. ASSUME NEW c \in Cpus, NEW t \in Uses[c], LockRead(c, t) PROVE SpinInv'
  BY <1>1, <1>3, LockReadSpin
<1>4. ASSUME NEW c \in Cpus, Step(c) PROVE SpinInv'
  BY <1>1, <1>4, LockCasSpin, LockCasLostSpin, EnqueueSpin, EnqueueLostSpin, SlowTakeSpin,
     SlowTakeLostSpin, AwaitSlotSpin, SetWaitSpin, AwaitDoneSpin, ClearSlotSpin,
     UnlockReadSpin, UnlockCasSpin, UnlockCasLostSpin, ReadHeadSpin, AdvanceSpin,
     AdvanceLostSpin, WakeSpin, PanicSpin, NoReaderSteps DEF Step
<1>5. QED
  BY <1>2, <1>3, <1>4 DEF Next, Request

\* The invariant of the spin lock, for every number of cpus.
THEOREM SpinInvariant == ASSUME SpinOnly PROVE Spec => [](TypeInv /\ SpinInv)
<1>1. Init => TypeInv /\ SpinInv
  BY TypeInit, SpinInit
<1>2. TypeInv /\ SpinInv /\ [Next]_vars => (TypeInv /\ SpinInv)'
  BY TypeStep, SpinStep
<1>3. QED
  BY <1>1, <1>2, PTL DEF Spec

\* At most one thread is between a return of clib_smp_lock and its
\* clib_smp_unlock, however many threads (the main thread included) use the
\* spin lock.
THEOREM SpinMutualExclusion == ASSUME SpinOnly PROVE Spec => []MutualExclusion
<1>1. SpinInv => MutualExclusion
  BY DEF SpinInv, HeaderInv, PlaceInv, MutualExclusion
<1>2. QED
  BY <1>1, SpinInvariant, PTL

\* An unlock never leaves a waiter behind a spin lock nobody holds.
THEOREM SpinWaitersHaveHolder == ASSUME SpinOnly PROVE Spec => []WaitersHaveHolder
<1>1. SpinInv => WaitersHaveHolder
  BY DEF SpinInv, HeaderInv, WaitersHaveHolder
<1>2. QED
  BY <1>1, SpinInvariant, PTL

\* The holder of the lock is the thread that was handed it.
THEOREM SpinGrants == ASSUME SpinOnly PROVE Spec => []GrantsGoToHolders
<1>1. SpinInv => GrantsGoToHolders
  <2> SUFFICES ASSUME SpinInv PROVE GrantsGoToHolders
    OBVIOUS
  <2>1. {c \in granted : type[c] = "READER"} = {}
    BY DEF SpinInv, TypeOK
  <2>2. granted = {} \/ \E c \in Cpus : granted = {c}
    BY DEF SpinInv, TypeOK, HeaderInv
  <2>3. Cardinality({}) = 0 /\ \A c \in Cpus : Cardinality({c}) = 1
    BY FS_EmptySet, FS_Singleton
  <2>4. header.writer = Cardinality(granted) /\ header.readers = 0
    BY <2>2, <2>3, HeaderFields DEF SpinInv, TypeOK, HeaderInv
  <2>5. granted \ {} = granted
    OBVIOUS
  <2>6. \A c \in Cpus : pc[c] \in {"clear", "held"} => c \in granted
    BY DEF SpinInv, PlaceInv
  <2>7. QED
    BY <2>1, <2>3, <2>4, <2>5, <2>6 DEF GrantsGoToHolders
<1>2. QED
  BY <1>1, SpinInvariant, PTL

\* A waiter's request and a holder's grant are never overwritten in a slot.
THEOREM SpinSlotCycle == ASSUME SpinOnly PROVE Spec => SlotCycle
<1> DEFINE Cycle == \A s \in Slots : waitType[s]' = waitType[s] \/ SlotMoves(s)
<1>1. ASSUME SpinInv, NEW c \in Cpus, SetWait(c) PROVE Cycle
  BY <1>1 DEF SpinInv, TypeOK, SetWait, SlotInv, SlotMoves
<1>2. ASSUME SpinInv, NEW c \in Cpus, ClearSlot(c) PROVE Cycle
  BY <1>2 DEF SpinInv, TypeOK, ClearSlot, FreeSlot, SlotInv, SlotMoves
<1>3. ASSUME SpinInv, NEW c \in Cpus, Wake(c) PROVE Cycle
  BY <1>3 DEF SpinInv, TypeOK, Wake, WakeInv, SlotMoves
<1>4. ASSUME SpinInv, [Next]_vars PROVE Cycle
  <2>1. ASSUME NEW c \in Cpus, Step(c) PROVE Cycle
    <3>1. CASE SetWait(c) \/ ClearSlot(c) \/ Wake(c)
      BY <1>1, <1>2, <1>3, <1>4, <3>1
    <3>2. CASE ~ (SetWait(c) \/ ClearSlot(c) \/ Wake(c))
      <4>1. UNCHANGED waitType
        BY <2>1, <3>2 DEF Step, LockCas, LockCasLost, Enqueue, EnqueueLost, SlowTake,
              SlowTakeLost, AwaitSlot, AwaitDone, UnlockRead, UnlockCas, UnlockCasLost,
              ReadHead, Leave, Advance, AdvanceLost, CheckMore, Panic, shared
      <4>2. QED
        BY <4>1
    <3>3. QED
      BY <3>1, <3>2
  <2>2. ASSUME NEW c \in Cpus, Request(c) PROVE Cycle
    BY <2>2 DEF Request, LockRead, shared
  <2>3. CASE UNCHANGED vars
    BY <2>3 DEF vars
  <2>4. QED
    BY <1>4, <2>1, <2>2, <2>3 DEF Next
<1>5. Spec => []SpinInv
  BY SpinInvariant, PTL
<1>6. SpinInv /\ [Next]_vars => [Cycle]_vars
  BY <1>4
<1>7. QED
  BY <1>5, <1>6, PTL DEF Spec, SlotCycle

--------------------------------------------------------------------------------
(* The waiting fifo has room for one thread per cpu *)

\* A thread that may still ask for a slot leaves one free: every slot in use
\* belongs to another thread that is not the holder either.
LEMMA RoomToWait ==
    ASSUME NThreads = NCpus, SpinInv, NEW c \in Cpus, c \notin granted, pc[c] \notin Waiting
    PROVE  header.n + 1 <= NFifo
<1>1. header \in Header /\ header.n \in 0 .. NFifo /\ header.head \in Slots /\ header.writer \in {0, 1}
  BY HeaderFields DEF SpinInv, TypeOK
<1>2. SUFFICES ASSUME header.n = NFifo PROVE FALSE
  BY <1>1, Constants
<1>3. PICK g \in granted : TRUE
  BY <1>2, Constants DEF SpinInv, HeaderInv
<1>4. \A s \in Slots : InFifo(s)
  BY <1>1, <1>2, Constants DEF InFifo, Offset, Slots
<1>5. g \in Cpus /\ g # c
  BY DEF SpinInv, TypeOK
<1> DEFINE Others == Cpus \ {c, g}
<1>6. slotCpu \in [Slots -> Others]
  BY <1>3, <1>4 DEF SpinInv, TypeOK, FifoInv, Waiting
<1>7. \A r, s \in Slots : slotCpu[r] = slotCpu[s] => r = s
  BY <1>4 DEF SpinInv, FifoInv
<1>8. IsFiniteSet(Slots) /\ Cardinality(Slots) = NFifo
  BY FS_Interval, Constants DEF Slots
<1>9. IsFiniteSet(Cpus) /\ Cardinality(Cpus) = NThreads
  BY FS_Interval, Constants DEF Cpus
<1>10. IsFiniteSet(Others) /\ Cardinality(Others) = NThreads - 2
  <2>1. Others = (Cpus \ {c}) \ {g} /\ g \in Cpus \ {c}
    BY <1>5
  <2>2. IsFiniteSet(Cpus \ {c}) /\ Cardinality(Cpus \ {c}) = NThreads - 1
    BY <1>9, FS_RemoveElement
  <2>3. IsFiniteSet((Cpus \ {c}) \ {g}) /\ Cardinality((Cpus \ {c}) \ {g}) = (NThreads - 1) - 1
    BY <2>1, <2>2, FS_RemoveElement
  <2>4. QED
    BY <2>1, <2>3, Constants
<1>11. Cardinality(Others) < Cardinality(Slots)
  BY <1>8, <1>10, Constants DEF NFifo
<1> HIDE DEF Others
<1>12. QED
  BY <1>6, <1>7, <1>8, <1>10, <1>11, FS_PigeonHole

LEMMA RoomStep ==
    ASSUME NThreads = NCpus, TypeInv, SpinInv, RoomInv, [Next]_vars
    PROVE  RoomInv'
<1> USE DEF TypeInv, TypeOK, RoomInv, Goto, Load
<1>1. ASSUME NEW c \in Cpus, pc[c] \in {"idle", "lock_cas", "slow_cas", "slow_take"}
      PROVE  header.n + 1 <= NFifo
  BY <1>1, RoomToWait DEF SpinInv, PlaceInv, Waiting, Unlocking
<1>2. ASSUME NEW c \in Cpus, NEW t \in Uses[c], LockRead(c, t) PROVE RoomInv'
  BY <1>1, <1>2 DEF LockRead, LockPc
<1>3. ASSUME NEW c \in Cpus, LockCasLost(c) \/ EnqueueLost(c) \/ SlowTakeLost(c) PROVE RoomInv'
  BY <1>1, <1>3 DEF LockCasLost, EnqueueLost, SlowTakeLost, LockPc, RetryPc
<1>4. ASSUME NEW c \in Cpus, LockCas(c) \/ SlowTake(c) \/ Enqueue(c) PROVE RoomInv'
  BY <1>4 DEF LockCas, SlowTake, Enqueue
<1>5. ASSUME NEW c \in Cpus, AwaitSlot(c) \/ SetWait(c) \/ AwaitDone(c) \/ ClearSlot(c)
      PROVE  RoomInv'
  BY <1>5 DEF AwaitSlot, SetWait, AwaitDone, ClearSlot
<1>6. ASSUME NEW c \in Cpus, UnlockRead(c) \/ UnlockCas(c) \/ UnlockCasLost(c) PROVE RoomInv'
  BY <1>6 DEF UnlockRead, UnlockCas, UnlockCasLost, UnlockPc
<1>7. ASSUME NEW c \in Cpus, ReadHead(c) \/ Advance(c) \/ AdvanceLost(c) \/ Wake(c) PROVE RoomInv'
  BY <1>7 DEF ReadHead, Advance, AdvanceLost, Wake
<1>8. ASSUME NEW c \in Cpus, Panic(c) PROVE RoomInv'
  BY <1>8 DEF Panic, locals
<1>9. CASE UNCHANGED vars
  BY <1>9 DEF vars
<1>10. QED
  BY <1>2, <1>3, <1>4, <1>5, <1>6, <1>7, <1>8, <1>9, NoReaderSteps DEF Next, Step, Request

\* No assertion is false in a state of the invariant.
LEMMA AssertionsHold ==
    ASSUME SpinInv, RoomInv, NEW c \in Cpus
    PROVE  ~ AssertionFails(c)
<1>1. type[c] = "SPIN" /\ h0[c].n \in Nat /\ NFifo \in Nat
  BY Constants DEF SpinInv, TypeOK, Header
<1>2. pc[c] \in {"lock_cas", "slow_take"} => h0[c].n = 0
  BY DEF SpinInv, CopyInv
<1>3. pc[c] = "slow_cas" => ~ (h0[c].n + 1 > NFifo)
  BY <1>1 DEF RoomInv
<1>4. pc[c] = "held" => header.writer = 1 /\ header.readers = 0
  BY DEF SpinInv, HeaderInv, PlaceInv
<1>5. pc[c] # "unl_read"
  BY DEF SpinInv, PlaceInv
<1>6. pc[c] = "uslow_read" => h0[c].n # 0 /\ h0[c].writer = 1
  BY <1>1 DEF SpinInv, CopyInv, Unlocking
<1>7. QED
  BY <1>1, <1>2, <1>3, <1>4, <1>5, <1>6 DEF AssertionFails, UnlockChecks, HoldsLock

\* With one thread per cpu no interleaving of spin lock calls stops the
\* process: the assertions of smp.h and smp.c all hold.
THEOREM SpinNoPanic == ASSUME SpinOnly, NThreads = NCpus PROVE Spec => []NoPanic
<1>1. Init => RoomInv /\ NoPanic
  BY DEF Init, RoomInv, NoPanic
<1>2. TypeInv /\ SpinInv /\ RoomInv /\ NoPanic /\ [Next]_vars => RoomInv' /\ NoPanic'
  <2> SUFFICES ASSUME TypeInv, SpinInv, RoomInv, NoPanic, [Next]_vars PROVE RoomInv' /\ NoPanic'
    OBVIOUS
  <2>1. RoomInv'
    BY RoomStep
  <2>2. \A c \in Cpus : ~ Panic(c)
    BY AssertionsHold DEF Panic
  <2>3. panicked' = panicked
    BY <2>2 DEF Next, Step, Request, vars, LockRead, LockCas, LockCasLost, Enqueue, EnqueueLost,
        SlowTake, SlowTakeLost, AwaitSlot, SetWait, AwaitDone, ClearSlot, UnlockRead, UnlockCas,
        UnlockCasLost, ReadHead, Leave, Advance, AdvanceLost, Wake, CheckMore
  <2>4. QED
    BY <2>1, <2>3 DEF NoPanic
<1>3. QED
  BY <1>1, <1>2, SpinInvariant, PTL DEF Spec

-----------------------------------------------------------------------------
(* The spin lock implements FifoLock, whatever the number of cpus: every step *)
(* of the lock routines is a step of the fifo lock or leaves it alone.  The   *)
(* smp_spin run checks the same, and the fairness of FifoSpec, for 3 cpus.    *)

\* The threads between head and tail of the waiting fifo, in that order.
Queue == [i \in 1 .. header.n |-> slotCpu[Wrap(header.head + i - 1)]]

Fifo == INSTANCE FifoLock WITH holders <- granted, queue <- Queue

\* Positions of a ring of NFifo slots, counted from any slot.
LEMMA RingPlaces ==
    ASSUME NEW h \in Slots, NEW n \in 0 .. NFifo
    PROVE  /\ \A i \in 0 .. NFifo : Wrap(h + i) \in Slots
           /\ n < NFifo => \A i \in 0 .. n : Wrap(h + i) = Wrap(h + n) <=> i = n
           /\ \A i \in 0 .. NFifo - 1 : Wrap(Wrap(h + 1) + i) = Wrap(h + (i + 1))
BY Constants DEF Wrap, Slots

\* The facts of the invariant that every step of the refinement needs.
LEMMA QueueType ==
    ASSUME SpinInv
    PROVE  /\ header.n \in 0 .. NFifo /\ header.head \in Slots
           /\ Queue \in Seq(Cpus)
           /\ Len(Queue) = header.n
           /\ Queue = <<>> <=> header.n = 0
           /\ header.n > 0 => granted # {}
<1>1. header \in Header /\ slotCpu \in [Slots -> Cpus]
  BY DEF SpinInv, TypeOK
<1>2. header.n \in 0 .. NFifo /\ header.head \in Slots /\ NFifo \in Nat
  BY <1>1, HeaderFields, Constants
<1>3. ASSUME NEW i \in 1 .. header.n
      PROVE  Wrap(header.head + i - 1) \in Slots
  BY <1>2 DEF Wrap, Slots
<1>4. Queue \in [1 .. header.n -> Cpus]
  BY <1>1, <1>3 DEF Queue
<1>5. Queue \in Seq(Cpus) /\ Len(Queue) = header.n
  BY <1>2, <1>4
<1>6. Queue = <<>> <=> header.n = 0
  BY <1>5
<1>7. header.n > 0 => granted # {}
  BY DEF SpinInv, HeaderInv
<1>8. QED
  BY <1>2, <1>5, <1>6, <1>7

\* Every thread of the queue is waiting for a lock that it does not hold.
LEMMA QueuedWait ==
    ASSUME SpinInv, NEW i \in 1 .. header.n
    PROVE  pc[Queue[i]] \in Waiting /\ Queue[i] \notin granted
<1>1. header.n \in 0 .. NFifo /\ header.head \in Slots
  BY QueueType
<1> DEFINE s == Wrap(header.head + i - 1)
<1>2. s \in Slots /\ InFifo(s)
  BY <1>1, Constants DEF Wrap, Slots, InFifo, Offset
<1>3. Queue[i] = slotCpu[s]
  BY DEF Queue
<1> HIDE DEF s
<1>4. QED
  BY <1>2, <1>3 DEF SpinInv, FifoInv

\* Neither the queue nor the holders depend on anything but these variables.
LEMMA FifoUntouched ==
    ASSUME UNCHANGED <<header, slotCpu, granted>>
    PROVE  UNCHANGED <<granted, Queue>>
BY DEF Queue

\* A lock is taken by its two compare-and-swaps only when it is free and
\* nobody waits.
LEMMA TakeAcquires ==
    ASSUME SpinInv, NEW c \in Cpus, LockCas(c) \/ SlowTake(c)
    PROVE  Fifo!Acquire(c)
<1>1. /\ header = h0[c] /\ header' = Taken(h0[c], c, "SPIN")
      /\ granted' = granted \cup {c} /\ slotCpu' = slotCpu
      /\ pc[c] \in {"lock_cas", "slow_take"}
  BY DEF LockCas, SlowTake, CasSucceeds, SpinInv
<1>2. header.n = 0 /\ header.writer = 0 /\ header.head \in Slots
  BY <1>1, QueueType DEF SpinInv, CopyInv
<1>3. granted = {}
  BY <1>2 DEF SpinInv, HeaderInv
<1>4. header'.n = 0 /\ header'.head = header.head
  BY <1>1, <1>2 DEF Taken, Word
<1>5. Queue = <<>> /\ Queue' = <<>>
  BY <1>2, <1>4 DEF Queue
<1>6. QED
  BY <1>1, <1>3, <1>5 DEF Fifo!Acquire

\* The compare-and-swap that advances the tail puts its thread last, behind
\* a holder.
LEMMA EnqueueJoins ==
    ASSUME SpinInv, NEW c \in Cpus, Enqueue(c)
    PROVE  Fifo!Join(c)
<1> DEFINE n == header.n
           last == Wrap(header.head + n)
<1>1. /\ pc[c] = "slow_cas" /\ header = h0[c] /\ n + 1 <= NFifo
      /\ header' = Queued(header, c) /\ slotCpu' = [slotCpu EXCEPT ![last] = c]
      /\ granted' = granted
  BY DEF Enqueue, CasSucceeds
<1>2. /\ n \in 0 .. NFifo /\ header.head \in Slots /\ NFifo \in Nat
      /\ Queue \in Seq(Cpus) /\ Len(Queue) = n /\ slotCpu \in [Slots -> Cpus]
  BY QueueType, Constants DEF SpinInv, TypeOK
<1>3. granted # {}
  BY <1>1 DEF SpinInv, CopyInv, HeaderInv
<1>4. c \notin granted
  BY <1>1 DEF SpinInv, PlaceInv, Unlocking
<1>5. c \notin Fifo!ToSet(Queue)
  <2>1. \A i \in 1 .. n : Queue[i] # c
    BY <1>1, QueuedWait DEF Waiting
  <2>2. QED
    BY <1>2, <2>1 DEF Fifo!ToSet
<1>6. header'.head = header.head /\ header'.n = n + 1
  BY <1>1 DEF Queued, Word
<1>7. Queue' = [i \in 1 .. n + 1 |-> slotCpu'[Wrap(header.head + i - 1)]]
  BY <1>6 DEF Queue
<1>8. ASSUME NEW i \in 1 .. n + 1
      PROVE  slotCpu'[Wrap(header.head + i - 1)] = IF i = n + 1 THEN c ELSE Queue[i]
  <2>1. /\ i - 1 \in 0 .. n /\ i - 1 \in 0 .. NFifo /\ n \in 0 .. NFifo /\ n < NFifo
        /\ header.head + i - 1 = header.head + (i - 1)
    BY <1>1, <1>2 DEF Slots
  <2>2. /\ Wrap(header.head + i - 1) \in Slots /\ last \in Slots
        /\ Wrap(header.head + i - 1) = last <=> i - 1 = n
    BY <1>2, <2>1, RingPlaces
  <2>3. CASE i = n + 1
    BY <1>1, <1>2, <2>2, <2>3
  <2>4. CASE i # n + 1
    <3>1. i \in 1 .. header.n
      BY <1>2, <2>4
    <3>2. slotCpu'[Wrap(header.head + i - 1)] = slotCpu[Wrap(header.head + i - 1)]
      BY <1>1, <1>2, <2>2, <2>4
    <3>3. QED
      BY <2>4, <3>1, <3>2 DEF Queue
  <2>5. QED
    BY <2>3, <2>4
<1> HIDE DEF n, last
<1>9. Queue' = Append(Queue, c)
  <2>1. Queue' = [i \in 1 .. n + 1 |-> IF i = n + 1 THEN c ELSE Queue[i]]
    BY <1>7, <1>8
  <2>2. /\ Append(Queue, c) \in Seq(Cpus) /\ Len(Append(Queue, c)) = n + 1
        /\ \A i \in 1 .. n : Append(Queue, c)[i] = Queue[i]
        /\ Append(Queue, c)[n + 1] = c
    BY <1>2, AppendProperties
  <2>3. Queue' \in Seq(Cpus) /\ Len(Queue') = n + 1
    BY <1>2, <2>1
  <2>4. \A i \in 1 .. n + 1 : Queue'[i] = Append(Queue, c)[i]
    BY <1>2, <2>1, <2>2
  <2>5. QED
    BY <2>2, <2>3, <2>4, SeqEqual
<1>10. QED
  BY <1>1, <1>3, <1>4, <1>5, <1>9 DEF Fifo!Join

\* The compare-and-swap of an unlock that saw nobody waiting frees the lock.
LEMMA UnlockReleases ==
    ASSUME SpinInv, NEW c \in Cpus, UnlockCas(c)
    PROVE  Fifo!Release(c)
<1>1. /\ pc[c] = "unl_cas" /\ header = h0[c] /\ granted' = granted \ {c}
      /\ header' = Released(header, c, "SPIN") /\ slotCpu' = slotCpu
  BY DEF UnlockCas, CasSucceeds, SpinInv
<1>2. header.n = 0 /\ header'.n = 0
  BY <1>1 DEF SpinInv, CopyInv, Released, Word
<1>3. granted = {c}
  BY <1>1 DEF SpinInv, PlaceInv, HeaderInv, TypeOK
<1>4. Queue = <<>> /\ Queue' = <<>>
  BY <1>2 DEF Queue
<1>5. QED
  BY <1>1, <1>3, <1>4 DEF Fifo!Release

\* The compare-and-swap of an unlock that saw waiters hands the lock to the
\* one that has waited longest, even when others queued after its read.
LEMMA AdvanceHandsOver ==
    ASSUME SpinInv, NEW c \in Cpus, Advance(c)
    PROVE  Fifo!Handover(c)
<1> DEFINE n == header.n
<1>1. /\ pc[c] = "uslow_cas" /\ header = h0[c] /\ slotCpu' = slotCpu
      /\ header' = Advanced(header, c, "SPIN", hwt[c])
      /\ granted' = (granted \ {c}) \cup {slotCpu[header.head]}
  BY DEF Advance, CasSucceeds, SpinInv
<1>2. /\ n \in 0 .. NFifo /\ header.head \in Slots /\ NFifo \in Nat
      /\ Queue \in Seq(Cpus) /\ Len(Queue) = n
  BY QueueType, Constants
<1>3. n > 0
  BY <1>1 DEF SpinInv, CopyInv, Unlocking
<1>4. granted = {c}
  BY <1>1 DEF SpinInv, PlaceInv, HeaderInv, TypeOK, Unlocking
<1>5. header'.head = Wrap(header.head + 1) /\ header'.n = n - 1
  BY <1>1 DEF Advanced, Word
<1>6. Head(Queue) = slotCpu[header.head]
  <2>1. Wrap(header.head + 1 - 1) = header.head
    BY <1>2 DEF Wrap, Slots
  <2>2. QED
    BY <1>2, <1>3, <2>1 DEF Queue
<1>7. Queue' = [i \in 1 .. n - 1 |-> slotCpu[Wrap(Wrap(header.head + 1) + i - 1)]]
  BY <1>1, <1>5 DEF Queue
<1>8. ASSUME NEW i \in 1 .. n - 1
      PROVE  slotCpu[Wrap(Wrap(header.head + 1) + i - 1)] = Queue[i + 1]
  <2>1. Wrap(Wrap(header.head + 1) + i - 1) = Wrap(header.head + (i + 1) - 1)
    <3>1. i - 1 \in 0 .. NFifo - 1 /\ header.head \in Nat /\ Wrap(header.head + 1) \in Nat
      BY <1>2 DEF Wrap, Slots
    <3>2. /\ Wrap(header.head + 1) + i - 1 = Wrap(header.head + 1) + (i - 1)
          /\ header.head + (i + 1) - 1 = header.head + ((i - 1) + 1)
      BY <3>1
    <3> QED
      BY <1>2, <3>1, <3>2, RingPlaces
  <2>2. i + 1 \in 1 .. header.n
    BY <1>2
  <2>3. QED
    BY <2>1, <2>2 DEF Queue
<1>9. Queue # <<>>
  BY <1>2, <1>3
<1> HIDE DEF n
<1>10. Queue' = Tail(Queue)
  <2>1. Queue' = [i \in 1 .. n - 1 |-> Queue[i + 1]]
    BY <1>7, <1>8
  <2>2. /\ Tail(Queue) \in Seq(Cpus) /\ Len(Tail(Queue)) = n - 1
        /\ \A i \in 1 .. n - 1 : Tail(Queue)[i] = Queue[i + 1]
    BY <1>2, <1>9, HeadTailProperties
  <2>3. Queue' \in Seq(Cpus) /\ Len(Queue') = n - 1
    BY <1>2, <1>3, <2>1
  <2>4. \A i \in 1 .. n - 1 : Queue'[i] = Tail(Queue)[i]
    BY <2>1, <2>2
  <2>5. QED
    BY <2>2, <2>3, <2>4, SeqEqual
<1>11. QED
  BY <1>1, <1>4, <1>6, <1>9, <1>10 DEF Fifo!Handover

\* The four compare-and-swaps above are the only steps the fifo lock sees:
\* telling the new holder, and everything a waiter does, happen after the
\* lock has changed hands.
LEMMA OthersStutter ==
    ASSUME SpinInv, NEW c \in Cpus, Step(c) \/ Request(c),
           ~ (LockCas(c) \/ SlowTake(c) \/ Enqueue(c) \/ UnlockCas(c) \/ Advance(c))
    PROVE  UNCHANGED <<header, slotCpu, granted>>
BY NoReaderSteps DEF Step, Request, LockRead, LockCasLost, EnqueueLost, SlowTakeLost, AwaitSlot,
   SetWait, AwaitDone, ClearSlot, UnlockRead, UnlockCasLost, ReadHead, AdvanceLost, Wake, Panic,
   shared, history

LEMMA FifoInitial == SpinOnly /\ Init => Fifo!FifoInit
<1> SUFFICES ASSUME Init PROVE Fifo!FifoInit
  OBVIOUS
<1>1. header.n = 0 /\ granted = {}
  BY DEF Init, Unlocked, Word
<1>2. Queue = <<>>
  BY <1>1 DEF Queue
<1>3. QED
  BY <1>1, <1>2 DEF Fifo!FifoInit

LEMMA FifoStep == SpinInv /\ [Next]_vars => [Fifo!FifoNext]_<<granted, Queue>>
<1> SUFFICES ASSUME SpinInv, [Next]_vars
             PROVE  Fifo!FifoNext \/ UNCHANGED <<granted, Queue>>
  OBVIOUS
<1>1. CASE UNCHANGED vars
  BY <1>1, FifoUntouched DEF vars
<1>2. ASSUME NEW c \in Cpus, Step(c) \/ Request(c)
      PROVE  Fifo!FifoNext \/ UNCHANGED <<granted, Queue>>
  <2>1. CASE LockCas(c) \/ SlowTake(c)
    BY <2>1, TakeAcquires DEF Fifo!FifoNext
  <2>2. CASE Enqueue(c)
    BY <2>2, EnqueueJoins DEF Fifo!FifoNext
  <2>3. CASE UnlockCas(c)
    BY <2>3, UnlockReleases DEF Fifo!FifoNext
  <2>4. CASE Advance(c)
    BY <2>4, AdvanceHandsOver DEF Fifo!FifoNext
  <2>5. CASE ~ (LockCas(c) \/ SlowTake(c) \/ Enqueue(c) \/ UnlockCas(c) \/ Advance(c))
    BY <1>2, <2>5, OthersStutter, FifoUntouched
  <2>6. QED
    BY <2>1, <2>2, <2>3, <2>4, <2>5
<1>3. QED
  BY <1>1, <1>2 DEF Next

\* Spin lock calls in any interleaving, on any number of cpus and with the
\* main thread or without it, behave as a lock with one holder that is handed
\* over in the order in which the threads queued and that nobody takes past a
\* waiter (clib_smp_lock_inline and clib_smp_unlock_inline with their slow
\* paths).
THEOREM SpinImplementsFifoLock ==
    ASSUME SpinOnly
    PROVE  Spec => Fifo!FifoInit /\ [][Fifo!FifoNext]_<<granted, Queue>>
<1>1. Init => Fifo!FifoInit
  BY FifoInitial
<1>2. TypeInv /\ SpinInv /\ [Next]_vars => [Fifo!FifoNext]_<<granted, Queue>>
  BY FifoStep
<1>3. QED
  BY <1>1, <1>2, SpinInvariant, PTL DEF Spec

================================================================================
