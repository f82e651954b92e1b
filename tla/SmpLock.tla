-------------------------------- MODULE SmpLock --------------------------------
(***************************************************************************)
(* The queued lock of uclib/smp.h and uclib/smp.c.                         *)
(*                                                                         *)
(* One word, the header, is only ever changed by compare-and-swap; a ring  *)
(* of n_cpus - 1 slots says which cpus wait and how.  Every action below   *)
(* makes one access to shared memory (the header word or one slot) and     *)
(* then runs the calling thread's local code up to its next access.        *)
(* Memory is sequentially consistent: the plain accesses are volatile and  *)
(* every ordering the algorithm needs goes through the locked CAS.         *)
(***************************************************************************)
EXTENDS Naturals, FiniteSets

CONSTANTS NCpus,      \* clib_smp_main.n_cpus
          NThreads,   \* threads that use the lock
          Uses        \* the kinds of clib_smp_lock_inline calls each makes

\* clib_smp_lock_init gives a null lock (no locking at all) below 2 cpus.
ASSUME NCpusAssumption == NCpus \in Nat /\ NCpus >= 2

\* The main thread has cpu index n_cpus and is not counted in n_cpus.
ASSUME NThreadsAssumption == NThreads \in {NCpus, NCpus + 1}

\* A lock is used either as a spin lock or as a reader/writer lock.
ASSUME UsesAssumption ==
    \/ Uses \in [0 .. NThreads - 1 -> {{"SPIN"}}]
    \/ Uses \in [0 .. NThreads - 1 -> SUBSET {"READER", "WRITER"}]

Cpus  == 0 .. NThreads - 1
LockTypes == UNION {Uses[c] : c \in Cpus}
NFifo == NCpus - 1
Slots == 0 .. NFifo - 1

\* n_readers_with_lock is a bitfield of 15 bits (2^15 values).
ReadersModulus == 32768

WaitTypes == {"EMPTY", "DONE", "READER", "WRITER"}

Header == [head : Slots, n : 0 .. NFifo, req : Cpus,
           readers : 0 .. ReadersModulus - 1, writer : 0 .. 1]

\* The header with these fields.
Word(head, n, req, readers, writer) ==
    [head |-> head, n |-> n, req |-> req, readers |-> readers, writer |-> writer]

Unlocked == Word(0, 0, 0, 0, 0)

Pcs == {"idle", "lock_cas", "slow_cas", "slow_take", "wait_slot", "set_wait",
        "wait_done", "clear", "held", "unl_read", "unl_cas", "uslow_read",
        "uslow_cas", "wake", "check_more"}

VARIABLES
    header,     \* clib_smp_lock_t.header
    waitType,   \* waiting_fifo[i].wait_type
    pc,         \* where each thread is in the four lock routines
    type,       \* the type argument of the thread's current lock/unlock pair
    h0,         \* the thread's local copy of the header
    tail,       \* the thread's my_tail
    hwt,        \* the thread's head_wait_type
    panicked,   \* an ASSERT_AND_PANIC failed: os_panic stopped the process
    slotCpu,    \* history: the thread that last enqueued itself at a slot
    granted     \* history: the threads that took the lock, or were handed it, and
                \* have not given it back

shared  == <<header, waitType>>
locals  == <<pc, type, h0, tail, hwt>>
history == <<slotCpu, granted>>
vars    == <<header, waitType, pc, type, h0, tail, hwt, panicked, slotCpu, granted>>

Init ==
    /\ header = Unlocked
    /\ waitType = [s \in Slots |-> "EMPTY"]
    /\ pc = [c \in Cpus |-> "idle"]
    /\ type \in [Cpus -> LockTypes]
    /\ h0 = [c \in Cpus |-> Unlocked]
    /\ tail = [c \in Cpus |-> 0]
    /\ hwt = [c \in Cpus |-> "EMPTY"]
    /\ panicked = FALSE
    /\ slotCpu = [s \in Slots |-> 0]
    /\ granted = {}

-----------------------------------------------------------------------------
(* Wrong versions of the helpers below, for mutation checks of the           *)
(* properties: none is used by the specification.                            *)

WrapLate(i) == IF i > NFifo THEN i - NFifo ELSE i
TakenWithoutWriterBit(h, c, t) == Word(h.head, h.n, c, h.readers, 0)
LockPcUnchecked(h, t) == "lock_cas"
RetryPcQueuing(h, t) == "slow_cas"
UnlockPcIgnoringFifo(h) == "unl_cas"
SlotUnchecked(c) == TRUE
SlotNotEmpty(c) == waitType[tail[c]] # "EMPTY"
HeadUnchecked(c) == TRUE
SlotLeftDone(c) == UNCHANGED waitType

-----------------------------------------------------------------------------
(* Helpers *)

Goto(c, label) == pc' = [pc EXCEPT ![c] = label]
Load(c, h)     == h0' = [h0 EXCEPT ![c] = h]

\* clib_smp_lock_set_header compares the whole word, request_cpu included.
CasSucceeds(c) == header = h0[c]

\* Ring arithmetic of the routines: at most one subtraction of n_fifo_elts.
Wrap(i) == IF i >= NFifo THEN i - NFifo ELSE i

\* The condition that ends the fast path loop of clib_smp_lock_inline.
MustQueue(h, t) ==
    \/ h.writer = 1
    \/ t = "WRITER" /\ h.readers # 0
    \/ t # "SPIN" /\ h.n # 0

\* Where the fast path loop of clib_smp_lock_inline goes with a header read.
LockPc(h, t) == IF MustQueue(h, t) THEN "slow_cas" ELSE "lock_cas"

\* Where a lost race for the tail leads: only a spin lock looks whether the
\* lock has been freed meanwhile.
RetryPc(h, t) == IF t = "SPIN" /\ h.writer = 0 THEN "slow_take" ELSE "slow_cas"

\* Where the loop of clib_smp_unlock_inline goes with a header read.
UnlockPc(h) == IF h.n = 0 THEN "unl_cas" ELSE "uslow_read"

\* What ends the three loops that spin on a slot.
SlotFree(c)    == waitType[tail[c]] = "EMPTY"
LockGranted(c) == waitType[tail[c]] = "DONE"
HeadReady(c)   == waitType[h0[c].head] # "EMPTY"

\* The thread that was granted the lock gives its slot back.
FreeSlot(c) == waitType' = [waitType EXCEPT ![tail[c]] = "EMPTY"]

\* n_readers_with_lock +/- 1, as far as a lock call of type t changes it.
PlusReader(readers, t) ==
    IF t # "READER" THEN readers
    ELSE IF readers = ReadersModulus - 1 THEN 0 ELSE readers + 1
MinusReader(readers, t) ==
    IF t # "READER" THEN readers
    ELSE IF readers = 0 THEN ReadersModulus - 1 ELSE readers - 1

\* The header a thread installs to take a free lock.
Taken(h, c, t) ==
    Word(h.head, h.n, c, PlusReader(h.readers, t), IF t = "READER" THEN 0 ELSE 1)

\* The header a thread installs to append itself to the waiting fifo.
Queued(h, c) == Word(h.head, h.n + 1, c, h.readers, h.writer)

\* The header a thread installs to unlock when nobody waits.
Released(h, c, t) ==
    Word(h.head, h.n, c, MinusReader(h.readers, t), IF t = "READER" THEN h.writer ELSE 0)

\* A writer at the head of the queue waits until the last reader unlocks.
MustWaitForReaders(h, t, w) ==
    t # "SPIN" /\ w = "WRITER" /\ MinusReader(h.readers, t) # 0

\* The header a reader installs when it must wait for the other readers.
Left(h, c, t) == Word(h.head, h.n, c, MinusReader(h.readers, t), h.writer)

\* The header that moves the lock to the head of the queue, which waits as w.
Advanced(h, c, t, w) ==
    LET others == MinusReader(h.readers, t)
    IN  Word(Wrap(h.head + 1), h.n - 1, c,
             IF t = "SPIN" THEN others
             ELSE IF w = "WRITER" THEN others ELSE PlusReader(others, "READER"),
             IF t = "SPIN" THEN h.writer
             ELSE IF w = "WRITER" /\ others = 0 THEN 1 ELSE 0)

\* What the unlocking routines check of a header before they change it.
HoldsLock(h, t) ==
    IF t = "READER" THEN h.readers # 0 ELSE h.writer = 1

-----------------------------------------------------------------------------
(* clib_smp_lock_inline *)

\* The header is read and the loop condition evaluated.
LockRead(c, t) ==
    /\ pc[c] = "idle"
    /\ type' = [type EXCEPT ![c] = t]
    /\ Load(c, header)
    /\ Goto(c, LockPc(header, t))
    /\ UNCHANGED <<shared, tail, hwt, panicked, history>>

LockCas(c) ==
    /\ pc[c] = "lock_cas"
    /\ type[c] = "SPIN" => h0[c].n = 0
    /\ CasSucceeds(c)
    /\ header' = Taken(h0[c], c, type[c])
    /\ granted' = granted \cup {c}
    /\ Goto(c, "held")
    /\ Load(c, Unlocked)
    /\ UNCHANGED <<waitType, type, tail, hwt, panicked, slotCpu>>

LockCasLost(c) ==
    /\ pc[c] = "lock_cas"
    /\ type[c] = "SPIN" => h0[c].n = 0
    /\ ~ CasSucceeds(c)
    /\ Load(c, header)
    /\ Goto(c, LockPc(header, type[c]))
    /\ UNCHANGED <<shared, type, tail, hwt, panicked, history>>

-----------------------------------------------------------------------------
(* clib_smp_lock_slow_path *)

\* The tail is advanced: the thread owns a slot of the waiting fifo.
Enqueue(c) ==
    /\ pc[c] = "slow_cas"
    /\ h0[c].n + 1 <= NFifo
    /\ CasSucceeds(c)
    /\ header' = Queued(h0[c], c)
    /\ LET s == Wrap(h0[c].head + h0[c].n)
       IN  /\ tail' = [tail EXCEPT ![c] = s]
           /\ slotCpu' = [slotCpu EXCEPT ![s] = c]
    /\ Goto(c, "wait_slot")
    /\ Load(c, Unlocked)
    /\ UNCHANGED <<waitType, type, hwt, panicked, granted>>

EnqueueLost(c) ==
    /\ pc[c] = "slow_cas"
    /\ h0[c].n + 1 <= NFifo
    /\ ~ CasSucceeds(c)
    /\ Load(c, header)
    /\ Goto(c, RetryPc(header, type[c]))
    /\ UNCHANGED <<shared, type, tail, hwt, panicked, history>>

SlowTake(c) ==
    /\ pc[c] = "slow_take"
    /\ h0[c].n = 0
    /\ CasSucceeds(c)
    /\ header' = Taken(h0[c], c, "SPIN")
    /\ granted' = granted \cup {c}
    /\ Goto(c, "held")
    /\ Load(c, Unlocked)
    /\ UNCHANGED <<waitType, type, tail, hwt, panicked, slotCpu>>

SlowTakeLost(c) ==
    /\ pc[c] = "slow_take"
    /\ h0[c].n = 0
    /\ ~ CasSucceeds(c)
    /\ Load(c, header)
    /\ Goto(c, RetryPc(header, "SPIN"))
    /\ UNCHANGED <<shared, type, tail, hwt, panicked, history>>

\* Spin until the slot's previous user has collected its grant.
AwaitSlot(c) ==
    /\ pc[c] = "wait_slot"
    /\ SlotFree(c)
    /\ Goto(c, "set_wait")
    /\ UNCHANGED <<shared, type, h0, tail, hwt, panicked, history>>

SetWait(c) ==
    /\ pc[c] = "set_wait"
    /\ waitType' = [waitType EXCEPT ![tail[c]] =
                        IF type[c] = "READER" THEN "READER" ELSE "WRITER"]
    /\ Goto(c, "wait_done")
    /\ UNCHANGED <<header, type, h0, tail, hwt, panicked, history>>

\* Spin until the lock is granted.
AwaitDone(c) ==
    /\ pc[c] = "wait_done"
    /\ LockGranted(c)
    /\ Goto(c, "clear")
    /\ UNCHANGED <<shared, type, h0, tail, hwt, panicked, history>>

ClearSlot(c) ==
    /\ pc[c] = "clear"
    /\ FreeSlot(c)
    /\ tail' = [tail EXCEPT ![c] = 0]
    /\ Goto(c, "held")
    /\ UNCHANGED <<header, type, h0, hwt, panicked, history>>

-----------------------------------------------------------------------------
(* clib_smp_unlock_inline *)

\* What the two pairs of assertions of clib_smp_unlock_inline check.
UnlockChecks(h, t) ==
    HoldsLock(h, t) /\ (IF t = "READER" THEN h.writer = 0 ELSE h.readers = 0)

\* "held" is the caller's critical section, "unl_read" the call that
\* clib_smp_unlock_slow_path makes when it finds the fifo empty.
UnlockRead(c) ==
    /\ pc[c] \in {"held", "unl_read"}
    /\ UnlockChecks(header, type[c])
    /\ Load(c, header)
    /\ Goto(c, UnlockPc(header))
    /\ UNCHANGED <<shared, type, tail, hwt, panicked, history>>

UnlockCas(c) ==
    /\ pc[c] = "unl_cas"
    /\ CasSucceeds(c)
    /\ header' = Released(h0[c], c, type[c])
    /\ granted' = granted \ {c}
    /\ Goto(c, "idle")
    /\ Load(c, Unlocked)
    /\ UNCHANGED <<waitType, type, tail, hwt, panicked, slotCpu>>

UnlockCasLost(c) ==
    /\ pc[c] = "unl_cas"
    /\ ~ CasSucceeds(c)
    /\ Load(c, header)
    /\ Goto(c, UnlockPc(header))
    /\ UNCHANGED <<shared, type, tail, hwt, panicked, history>>

-----------------------------------------------------------------------------
(* clib_smp_unlock_slow_path *)

\* Spin until the head of the fifo has said how it waits.
ReadHead(c) ==
    /\ pc[c] = "uslow_read"
    /\ h0[c].n # 0
    /\ HoldsLock(h0[c], type[c])
    /\ HeadReady(c)
    /\ hwt' = [hwt EXCEPT ![c] = waitType[h0[c].head]]
    /\ Goto(c, "uslow_cas")
    /\ UNCHANGED <<shared, type, h0, tail, panicked, history>>

\* A reader that is not the last one leaves a waiting writer in the queue.
Leave(c) ==
    /\ pc[c] = "uslow_cas"
    /\ MustWaitForReaders(h0[c], type[c], hwt[c])
    /\ CasSucceeds(c)
    /\ header' = Left(h0[c], c, type[c])
    /\ granted' = granted \ {c}
    /\ Goto(c, "idle")
    /\ Load(c, Unlocked)
    /\ hwt' = [hwt EXCEPT ![c] = "EMPTY"]
    /\ UNCHANGED <<waitType, type, tail, panicked, slotCpu>>

\* The lock moves to the thread at the head of the fifo.
Advance(c) ==
    /\ pc[c] = "uslow_cas"
    /\ ~ MustWaitForReaders(h0[c], type[c], hwt[c])
    /\ CasSucceeds(c)
    /\ header' = Advanced(h0[c], c, type[c], hwt[c])
    /\ granted' = (granted \ {c}) \cup {slotCpu[h0[c].head]}
    /\ Goto(c, "wake")
    /\ UNCHANGED <<waitType, type, h0, tail, hwt, panicked, slotCpu>>

AdvanceLost(c) ==
    /\ pc[c] = "uslow_cas"
    /\ ~ CasSucceeds(c)
    /\ Load(c, header)
    /\ Goto(c, IF header.n = 0 THEN "unl_read" ELSE "uslow_read")
    /\ hwt' = [hwt EXCEPT ![c] = "EMPTY"]
    /\ UNCHANGED <<shared, type, tail, panicked, history>>

\* The new holder is told; a reader just woken may not be the last one.
Wake(c) ==
    /\ pc[c] = "wake"
    /\ waitType' = [waitType EXCEPT ![h0[c].head] = "DONE"]
    /\ LET more == hwt[c] = "READER" /\ h0[c].n # 0
       IN  /\ Goto(c, IF more THEN "check_more" ELSE "idle")
           /\ Load(c, IF more THEN h0[c] ELSE Unlocked)
    /\ hwt' = [hwt EXCEPT ![c] = "EMPTY"]
    /\ UNCHANGED <<header, type, tail, panicked, history>>

\* The slot looked at is the one h0, the header before the CAS, calls head.
CheckMore(c) ==
    /\ pc[c] = "check_more"
    /\ LET again == waitType[h0[c].head] = "READER"
       IN  /\ Goto(c, IF again THEN "uslow_read" ELSE "idle")
           /\ Load(c, IF again THEN h0[c] ELSE Unlocked)
    /\ UNCHANGED <<shared, type, tail, hwt, panicked, history>>

-----------------------------------------------------------------------------
(* Assertions, next-state relation, fairness *)

\* Thread c evaluates an ASSERT_AND_PANIC that is false.  The others (slot
\* indices in range) follow from these.
AssertionFails(c) ==
    CASE pc[c] = "lock_cas"             -> type[c] = "SPIN" /\ h0[c].n # 0
      [] pc[c] = "slow_cas"             -> h0[c].n + 1 > NFifo
      [] pc[c] = "slow_take"            -> h0[c].n # 0
      [] pc[c] \in {"held", "unl_read"} -> ~ UnlockChecks(header, type[c])
      [] pc[c] = "uslow_read"           -> h0[c].n = 0 \/ ~ HoldsLock(h0[c], type[c])
      [] OTHER                          -> FALSE

Panic(c) ==
    /\ AssertionFails(c)
    /\ panicked' = TRUE
    /\ UNCHANGED <<shared, locals, history>>

\* What thread c does inside the routines, and its unlock call.
Step(c) ==
    /\ ~ panicked
    /\ \/ LockCas(c)    \/ LockCasLost(c)
       \/ Enqueue(c)    \/ EnqueueLost(c)
       \/ SlowTake(c)   \/ SlowTakeLost(c)
       \/ AwaitSlot(c)  \/ SetWait(c)
       \/ AwaitDone(c)  \/ ClearSlot(c)
       \/ UnlockRead(c) \/ UnlockCas(c) \/ UnlockCasLost(c)
       \/ ReadHead(c)   \/ Leave(c) \/ Advance(c) \/ AdvanceLost(c)
       \/ Wake(c)       \/ CheckMore(c)
       \/ Panic(c)

Request(c) == ~ panicked /\ \E t \in Uses[c] : LockRead(c, t)

Next == \E c \in Cpus : Step(c) \/ Request(c)

Spec == Init /\ [][Next]_vars

\* The scheduler runs every thread, and critical sections end.
Fairness == \A c \in Cpus : WF_vars(Step(c))

FairSpec == Spec /\ Fairness

-----------------------------------------------------------------------------
(* Properties *)

TypeOK ==
    /\ header \in Header
    /\ waitType \in [Slots -> WaitTypes]
    /\ pc \in [Cpus -> Pcs]
    /\ type \in [Cpus -> LockTypes]
    /\ h0 \in [Cpus -> Header]
    /\ tail \in [Cpus -> Slots]
    /\ hwt \in [Cpus -> WaitTypes]
    /\ panicked \in BOOLEAN
    /\ slotCpu \in [Slots -> Cpus]
    /\ granted \in SUBSET Cpus

\* Two threads are in their critical sections together only as readers
\* (clib_smp_lock_inline returning while another caller has not yet unlocked).
MutualExclusion ==
    \A a, b \in Cpus :
        (a # b /\ pc[a] = "held" /\ pc[b] = "held")
            => type[a] = "READER" /\ type[b] = "READER"

\* No interleaving makes an ASSERT_AND_PANIC of the lock routines fail.
NoPanic == ~ panicked

\* Threads queue only behind a holder: an unlock that leaves the lock free
\* leaves no waiter behind that nobody will wake.
WaitersHaveHolder == header.n > 0 => header.writer = 1 \/ header.readers > 0

\* A slot goes EMPTY -> READER/WRITER -> DONE -> EMPTY and no wait or grant
\* in it is overwritten, even when a slot is reused while its last user is
\* still collecting a grant.
SlotMoves(s) ==
    \/ waitType[s] = "EMPTY" /\ waitType[s]' \in {"READER", "WRITER"}
    \/ waitType[s] \in {"READER", "WRITER"} /\ waitType[s]' = "DONE"
    \/ waitType[s] = "DONE" /\ waitType[s]' = "EMPTY"

\* Every write the routines make to a slot is one of these moves.
SlotCycle == [][\A s \in Slots : waitType[s]' = waitType[s] \/ SlotMoves(s)]_vars

\* The header counts the threads that have the lock, the readers and the writer,
\* and a thread that leaves the slow path is one of them: what it was told in
\* its slot is what the header says of it.
GrantsGoToHolders ==
    LET readers == {c \in granted : type[c] = "READER"}
    IN  /\ header.readers = Cardinality(readers)
        /\ header.writer = Cardinality(granted \ readers)
        /\ \A c \in Cpus : pc[c] \in {"clear", "held"} => c \in granted

\* A thread that has a slot in the waiting fifo gets the lock.
WaiterServed ==
    \A c \in Cpus : (pc[c] = "wait_slot") ~> (pc[c] = "held")

-----------------------------------------------------------------------------
(* The inductive invariant of the lock used as a spin lock *)

\* How far behind the head of the waiting fifo a slot is.
Offset(s) == IF s >= header.head THEN s - header.head ELSE s + NFifo - header.head

\* The slots between head and tail, whose threads have not been granted yet.
InFifo(s) == Offset(s) < header.n

Waiting   == {"wait_slot", "set_wait", "wait_done"}
Unlocking == {"uslow_read", "uslow_cas"}

\* The header counts one holder, and only a held lock has waiters.
HeaderInv ==
    /\ header.readers = 0
    /\ header.writer = 1 <=> granted # {}
    /\ header.n > 0 => header.writer = 1
    /\ \A a, b \in granted : a = b

\* Each slot of the fifo has a thread of its own, which is waiting in it.
FifoInv ==
    \A s \in Slots : InFifo(s) =>
        /\ slotCpu[s] \notin granted
        /\ tail[slotCpu[s]] = s
        /\ pc[slotCpu[s]] \in Waiting

\* Where the threads that are, or are not, holders can be.
PlaceInv ==
    \A c \in Cpus :
        /\ c \in granted => pc[c] \in {"wait_done", "clear", "held", "unl_cas"} \cup Unlocking
        /\ pc[c] \in {"clear", "held", "unl_cas"} \cup Unlocking => c \in granted
        /\ pc[c] \in Waiting /\ c \notin granted => InFifo(tail[c]) /\ slotCpu[tail[c]] = c
        /\ pc[c] \notin {"unl_read", "check_more"}

\* What a slot says while its thread waits, is handed the lock, and leaves.
SlotInv ==
    /\ \A s \in Slots : waitType[s] # "EMPTY" =>
           \E c \in Cpus : pc[c] \in {"wait_done", "clear"} /\ tail[c] = s
    /\ \A c \in Cpus :
           /\ pc[c] = "set_wait" => waitType[tail[c]] = "EMPTY"
           /\ pc[c] = "wait_done" =>
                  \/ waitType[tail[c]] = "WRITER"
                  \/ waitType[tail[c]] = "DONE" /\ c \in granted
           /\ pc[c] = "clear" => waitType[tail[c]] = "DONE"
           /\ c \in granted /\ pc[c] \in {"wait_done", "clear"} =>
                  \A d \in Cpus \ {c} :
                      pc[d] \in Waiting /\ tail[d] = tail[c] => pc[d] = "wait_slot"

\* A handover in progress: one thread has moved the lock and is about to
\* tell the new holder, which is still waiting.
WakeInv ==
    /\ \A w \in Cpus : pc[w] = "wake" =>
           /\ waitType[h0[w].head] = "WRITER"
           /\ hwt[w] = "WRITER"
           /\ \E g \in granted : pc[g] = "wait_done" /\ tail[g] = h0[w].head
    /\ \A v, w \in Cpus : pc[v] = "wake" /\ pc[w] = "wake" => v = w
    /\ \A g \in granted : pc[g] = "wait_done" /\ waitType[tail[g]] = "WRITER" =>
           \E w \in Cpus : pc[w] = "wake" /\ h0[w].head = tail[g]

\* What each thread's copy of the header still says of the header.
CopyInv ==
    \A c \in Cpus :
        /\ h0[c].readers = 0
        /\ pc[c] \in {"lock_cas", "slow_take"} => h0[c].writer = 0 /\ h0[c].n = 0
        /\ pc[c] = "slow_cas" => h0[c].writer = 1
        /\ pc[c] = "unl_cas" => h0[c].n = 0
        /\ pc[c] \in Unlocking => /\ h0[c].writer = 1
                                  /\ h0[c].head = header.head
                                  /\ h0[c].n > 0
                                  /\ h0[c].n <= header.n
        /\ pc[c] = "uslow_cas" => /\ hwt[c] = "WRITER"
                                  /\ waitType[header.head] = "WRITER"
                                  /\ pc[slotCpu[header.head]] = "wait_done"

SpinInv ==
    /\ TypeOK
    /\ \A c \in Cpus : type[c] = "SPIN"
    /\ HeaderInv
    /\ FifoInv
    /\ PlaceInv
    /\ SlotInv
    /\ WakeInv
    /\ CopyInv

\* With one thread per cpu the fifo has room for every thread that can ask
\* for a slot: the caller and the holder never need one.
RoomInv ==
    \A c \in Cpus : pc[c] = "slow_cas" => h0[c].n + 1 <= NFifo

=============================================================================
