------------------------------ MODULE MCSmpLock ------------------------------
(* Instances of SmpLock for TLC: which cpu makes which kind of lock calls,   *)
(* and the spin lock as an implementation of FifoLock.                       *)
EXTENDS SmpLock, Sequences

SpinUses   == [c \in Cpus |-> {"SPIN"}]
RWUses     == [c \in Cpus |-> {"READER", "WRITER"}]
WriterUses == [c \in Cpus |-> {"WRITER"}]

\* Cpu 0 writes, the others read.
OneWriterUses == [c \in Cpus |-> IF c = 0 THEN {"WRITER"} ELSE {"READER"}]

\* The threads between head and tail of the waiting fifo, in that order.
Fifo ==
    INSTANCE FifoLock WITH
        holders <- granted,
        queue <- [i \in 1 .. header.n |-> slotCpu[Wrap(header.head + i - 1)]]

\* clib_smp_lock / clib_smp_unlock implement the fifo lock: mutual exclusion
\* in queue order, a held lock is eventually handed over or released.
ImplementsFifoLock == Fifo!FifoSpec
==============================================================================
