------------------------------- MODULE Allocator -------------------------------
(***************************************************************************)
(* What uclib/mheap.h promises: blocks of memory that do not overlap, each *)
(* handed out once and kept in place until it is given back.               *)
(***************************************************************************)
EXTENDS Naturals

CONSTANT Size           \* words of memory

VARIABLE blocks         \* [off, n] for each block in use: n words from off

Extent(b) == b.off .. b.off + b.n - 1

Init == blocks = {}

\* A caller gets a block that no other caller has any word of.
Get ==
    \E b \in blocks' :
        /\ b.n > 0 /\ b.off + b.n <= Size
        /\ \A c \in blocks : Extent(b) \cap Extent(c) = {}
        /\ blocks' = blocks \cup {b}

\* One block is given back; all others stay what and where they are.
Put == \E b \in blocks : blocks' = blocks \ {b}

AllocatorSpec == Init /\ [][Get \/ Put]_blocks

=============================================================================
