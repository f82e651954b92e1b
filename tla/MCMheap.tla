-------------------------------- MODULE MCMheap --------------------------------
(* The allocator on a small instance. *)
EXTENDS Mheap

Request(n, align, alignOffset) == [n |-> n, align |-> align, alignOffset |-> alignOffset]

SmallRequests ==
    {Request(1, 1, 0), Request(3, 1, 0), Request(7, 1, 0), Request(2, 4, 2),
     Request(30, 1, 0)}

\* Alignment beyond a page of 4 words: the page behind the aligned block stays
\* unmapped, and a block given out there violates NeededIsMapped.
PageRequests == {Request(2, 8, 0), Request(14, 1, 0), Request(2, 1, 0)}

=============================================================================
