------------------------------- MODULE FifoLock -------------------------------
(***************************************************************************)
(* What the spin lock of uclib/smp.h promises: one holder, waiters served  *)
(* in the order they queued, and no thread taking a lock that has waiters. *)
(***************************************************************************)
EXTENDS Naturals, Sequences, SequencesExt

CONSTANT Cpus

VARIABLES holders,   \* the threads that hold the lock
          queue      \* the threads waiting for it, first come first

fvars == <<holders, queue>>

FifoInit == holders = {} /\ queue = <<>>

\* A free lock is taken only when nobody waits.
Acquire(c) ==
    /\ holders = {} /\ queue = <<>>
    /\ holders' = {c}
    /\ UNCHANGED queue

\* A thread queues behind a holder.
Join(c) ==
    /\ holders # {}
    /\ c \notin holders \cup ToSet(queue)
    /\ queue' = Append(queue, c)
    /\ UNCHANGED holders

\* An unlock with waiters makes the first of them the holder.
Handover(c) ==
    /\ holders = {c} /\ queue # <<>>
    /\ holders' = {Head(queue)}
    /\ queue' = Tail(queue)

\* An unlock without waiters frees the lock.
Release(c) ==
    /\ holders = {c} /\ queue = <<>>
    /\ holders' = {}
    /\ UNCHANGED queue

FifoNext == \E c \in Cpus : Acquire(c) \/ Join(c) \/ Handover(c) \/ Release(c)

FifoSpec ==
    /\ FifoInit
    /\ [][FifoNext]_fvars
    /\ \A c \in Cpus : WF_fvars(Handover(c) \/ Release(c))

=============================================================================
