------------------------------ MODULE MCContainers ------------------------------
(***************************************************************************)
(* The containers of uclib, each by itself on a small instance.  They share *)
(* nothing: `which' chooses one for the whole behaviour, and the others     *)
(* stay as they begin.                                                      *)
(***************************************************************************)
EXTENDS Heap, BitmapOps, Pool, FHeap, Mhash, SparseVec, Zvec, Fifo, TLC

VARIABLE which

containersVars == <<which, heapVars, bitmapVars, poolVars, fheapVars, hashVars, mhashVars, sparseVars, zvecVars, vars>>

ContainersInit ==
    /\ which \in {"heap", "bitmap", "pool", "fheap", "hash", "mhash", "sparse", "zvec", "fifo"}
    /\ HeapInit /\ BitmapInit /\ PoolInit /\ HashInit /\ MhashInit /\ SparseInit /\ Init
    /\ FHeapInit /\ (which = "fheap" \/ toAdd = <<>>)
    /\ ZvecInit /\ (which = "zvec" \/ (zvec.coding = 0 /\ ~ zvec.signed))

ContainersNext ==
    \/ /\ which = "heap" /\ HeapNext
       /\ UNCHANGED <<which, bitmapVars, poolVars, fheapVars, hashVars, mhashVars, sparseVars, zvecVars, vars>>
    \/ /\ which = "bitmap" /\ BitmapNext
       /\ UNCHANGED <<which, heapVars, poolVars, fheapVars, hashVars, mhashVars, sparseVars, zvecVars, vars>>
    \/ /\ which = "pool" /\ PoolNext
       /\ UNCHANGED <<which, heapVars, bitmapVars, fheapVars, hashVars, mhashVars, sparseVars, zvecVars, vars>>
    \/ /\ which = "fheap" /\ FHeapNext
       /\ UNCHANGED <<which, heapVars, bitmapVars, poolVars, hashVars, mhashVars, sparseVars, zvecVars, vars>>
    \/ /\ which = "hash" /\ (HashNext \/ HashIterate)
       /\ UNCHANGED <<which, heapVars, bitmapVars, poolVars, fheapVars, mhashVars, sparseVars, zvecVars, vars>>
    \/ /\ which = "mhash" /\ MhashNext
       /\ UNCHANGED <<which, heapVars, bitmapVars, poolVars, fheapVars, hashVars, sparseVars, zvecVars, vars>>
    \/ /\ which = "sparse" /\ SparseNext
       /\ UNCHANGED <<which, heapVars, bitmapVars, poolVars, fheapVars, hashVars, mhashVars, zvecVars, vars>>
    \/ /\ which = "zvec" /\ ZvecNext
       /\ UNCHANGED <<which, heapVars, bitmapVars, poolVars, fheapVars, hashVars, mhashVars, sparseVars, vars>>
    \/ /\ which = "fifo" /\ Next
       /\ UNCHANGED <<which, heapVars, bitmapVars, poolVars, fheapVars, hashVars, mhashVars, sparseVars, zvecVars>>

ContainersSpec == ContainersInit /\ [][ContainersNext]_containersVars

-----------------------------------------------------------------------------
(* Properties.  The containers that were not chosen stay as they begin, so a *)
(* property is evaluated for its own container only.  Those with a theorem   *)
(* about them are evaluated always, as their modules state them.             *)

\* FHeapIsPriorityQueue: a Fibonacci heap has every index added, with its
\* key, and the least first.
FHeapIsPriorityQueueAlone == which = "fheap" => FHeapIsPriorityQueue

\* ZvecReadsBack: compressed numbers are read back, and the code chosen is
\* the shortest.
ZvecReadsBackAlone == which = "zvec" => ZvecReadsBack

-----------------------------------------------------------------------------
(* Values of constants *)

\* What the library calls clib_fifo_advance_head with (and clib_fifo_sub1 and
\* _sub2 do, with 1).
CallersHeadSteps == 1 .. MaxElts

\* Without the least: a tree of eight nodes, and a tree of two beside a node.
StartKeys == {<<0, 1, 1, 1, 1, 1, 1, 1, 1>>, <<0, 1, 2, 2>>}

\* Keys 0, 1 and 2 fall into one bucket of any table of up to 4, 3 into another.
KeySums == [k \in HashKeys |-> CASE k = 0 -> 0 [] k = 1 -> 8 [] k = 2 -> 4 [] k = 3 -> 1]

\* Signed numbers to compress, and histograms of up to four numbers.
SignedNumbers == {-2, -1, 0, 1}
SmallHistograms == UNION {[1 .. n -> 0 .. 2] : n \in 1 .. 4}

=============================================================================
