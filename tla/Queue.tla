--------------------------------- MODULE Queue ---------------------------------
(***************************************************************************)
(* What uclib/fifo.c promises: a "general first in/first out queue" whose  *)
(* tail can also be moved back.  No indices, no memory, no growth.         *)
(***************************************************************************)
EXTENDS Integers, Sequences

VARIABLES
    queue,    \* the elements, oldest first
    passed    \* the elements last passed by the caller or back to it

vars == <<queue, passed>>

Init == queue = <<>> /\ passed = <<>>

\* The elements passed join at the tail, in their order.
Put == queue' = queue \o passed'

\* The n elements that joined last are taken back.
TakeBack(n) ==
    /\ n <= Len(queue)
    /\ queue' = SubSeq(queue, 1, Len(queue) - n)
    /\ UNCHANGED passed

\* The n oldest elements leave, in order.
Get(n) ==
    /\ n <= Len(queue)
    /\ passed' = SubSeq(queue, 1, n)
    /\ queue' = SubSeq(queue, n + 1, Len(queue))

Clear == queue' = <<>> /\ UNCHANGED passed

Next ==
    \/ Put
    \/ \E n \in 1 .. Len(queue) : TakeBack(n) \/ Get(n)
    \/ Clear

\* Growing, or asking for nothing, is not visible: a stutter.
QueueSpec == Init /\ [][Next]_vars

=============================================================================
