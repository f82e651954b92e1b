------------------------------- MODULE MCSmpRW -------------------------------
(* The reader/writer lock up to the step that makes it unsound: a thread that *)
(* has woken a reader and sees another one in the same slot hands the lock on *)
(* with a copy of the header from before its own compare and swap.            *)
EXTENDS MCSmpLock

VARIABLE reran      \* history: some thread has gone round the loop again

HandsOnAgain(c) == CheckMore(c) /\ pc'[c] = "uslow_read"

InitOnce == Init /\ reran = FALSE
NextOnce == Next /\ reran' = (reran \/ \E c \in Cpus : HandsOnAgain(c))

SpecOnce == InitOnce /\ [][NextOnce]_<<vars, reran>>

\* Until then whoever has the lock is counted by the header, and a writer has it
\* alone.
SoundUntilHandedOnAgain == reran \/ (GrantsGoToHolders /\ MutualExclusion)
==============================================================================
