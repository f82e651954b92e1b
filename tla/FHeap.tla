--------------------------------- MODULE FHeap ---------------------------------
(***************************************************************************)
(* The Fibonacci heap of uclib/fheap.h and uclib/fheap.c: trees whose nodes *)
(* have keys not smaller than their parents', in circular lists of siblings;*)
(* the roots are siblings of the root with the smallest key.                *)
(*                                                                         *)
(* Every function that changes links is an operator from nodes to nodes.    *)
(***************************************************************************)
EXTENDS Naturals, Integers, Sequences, SequencesExt, FiniteSets

CONSTANTS MaxNodes,     \* bound: node indices are 0 .. MaxNodes - 1
          Keys,         \* keys, all below Far
          Far,          \* 1e100, which fheap_del_min takes for no key at all
          Filled,       \* sequences of keys with which a program begins
          MaxFHeapOps   \* bound: operations after that

ASSUME FHeapAssumption ==
    /\ MaxNodes \in Nat /\ Keys \subseteq Nat /\ Far \in Nat /\ MaxFHeapOps \in Nat
    /\ Filled \subseteq Seq(Keys)

VARIABLES
    fheap,      \* fheap_t: nodes, minRoot
    queued,     \* history: the key of every index in the heap
    toAdd,      \* the keys with which the program begins, not yet added
    fheapOps    \* bounds the run

fheapVars == <<fheap, queued, toAdd, fheapOps>>

Nil == -1
NodeIndices == 0 .. MaxNodes - 1

Node(key, valid) ==
    [parent |-> Nil, firstChild |-> Nil, next |-> Nil, prev |-> Nil,
     key |-> key, rank |-> 0, marked |-> FALSE, valid |-> valid]

EmptyFHeap == [nodes |-> [n \in NodeIndices |-> Node(0, FALSE)], minRoot |-> Nil]

\* n times Step.
Iterate(Step(_), start, n) ==
    LET after[k \in 0 .. n] == IF k = 0 THEN start ELSE Step(after[k - 1])
    IN  after[n]

\* foreach_fheap_node_sibling, where the list does not change on the way.
Siblings(nodes, first) ==
    LET Visit(list) == IF nodes[Last(list)].next = first THEN list
                       ELSE Append(list, nodes[Last(list)].next)
    IN  IF first = Nil THEN <<>> ELSE Iterate(Visit, <<first>>, MaxNodes)

-----------------------------------------------------------------------------
(* Lists *)

\* fheap_node_add_sibling: new comes after n.
AddSibling(nodes, n, new) ==
    LET next   == nodes[n].next
        p      == nodes[n].parent
        linked == IF next = Nil
                  THEN [nodes EXCEPT ![n].next = new, ![n].prev = new, ![new].next = n, ![new].prev = n]
                  ELSE [nodes EXCEPT ![new].prev = n, ![new].next = next,
                                     ![n].next = new, ![next].prev = new]
        below  == [linked EXCEPT ![new].parent = p]
    IN  IF p = Nil THEN below ELSE [below EXCEPT ![p].rank = @ + 1]

\* fheap_node_remove
RemoveNode(nodes, n) ==
    LET prev == nodes[n].prev
        next == nodes[n].next
        p    == nodes[n].parent
        up   == IF p = Nil THEN nodes
                ELSE [nodes EXCEPT ![p].rank = @ - 1,
                                   ![p].firstChild = IF prev = n THEN Nil ELSE next]
        left == IF prev = Nil THEN up ELSE [up EXCEPT ![prev].next = next]
        cut  == IF next = Nil THEN left ELSE [left EXCEPT ![next].prev = prev]
    IN  [cut EXCEPT ![n].prev = n, ![n].next = n, ![n].parent = Nil]

\* fheap_node_remove_and_invalidate, and what it returns.
RemoveAndInvalidate(nodes, n) == [RemoveNode(nodes, n) EXCEPT ![n].valid = FALSE]
NextAfterRemoval(nodes, n) == IF nodes[n].prev = n THEN Nil ELSE nodes[n].next

-----------------------------------------------------------------------------
(* Operations *)

\* fheap_add
Added(f, n, key) ==
    LET nodes == [f.nodes EXCEPT ![n] = Node(key, TRUE)]
    IN  IF f.minRoot = Nil THEN [nodes |-> nodes, minRoot |-> n]
        ELSE [nodes   |-> AddSibling(nodes, f.minRoot, n),
              minRoot |-> IF nodes[f.minRoot].key > key THEN n ELSE f.minRoot]

\* fheap_link_root, one turn of its loop: while another root has the rank of
\* s.at one of them becomes a child of the other, which is the next s.at.
LinkStep(s) ==
    LET n  == s.at
        k  == s.nodes[n].rank
        r  == s.roots[k]
        lo == IF s.nodes[n].key < s.nodes[r].key THEN n ELSE r
        hi == IF lo = n THEN r ELSE n
        cut == RemoveNode(s.nodes, hi)
        below == IF cut[lo].firstChild = Nil
                 THEN [cut EXCEPT ![hi].parent = lo, ![lo].firstChild = hi, ![lo].rank = 1]
                 ELSE AddSibling(cut, cut[lo].firstChild, hi)
    IN  IF n = Nil THEN s
        ELSE IF r = Nil THEN [s EXCEPT !.roots[k] = n, !.at = Nil]
        ELSE [nodes |-> [below EXCEPT ![hi].marked = FALSE],
              roots |-> [s.roots EXCEPT ![k] = Nil], at |-> lo]

\* Root n, which may have been a child of the deleted root, is linked.
LinkRoot(s, n) ==
    Iterate(LinkStep, [s EXCEPT !.nodes[n].parent = Nil, !.at = n], MaxNodes)

\* The children of the root m are spliced into the list of roots.
Spliced(nodes, m) ==
    LET c  == nodes[m].firstChild
        cn == nodes[c].next
        rn == nodes[m].next
    IN  IF c = Nil THEN nodes
        ELSE [nodes EXCEPT ![m].next = cn, ![c].next = rn, ![cn].prev = m, ![rn].prev = c]

\* The first rank whose root has the smallest key below Far.
MinRoot(nodes, roots) ==
    LET ranks == {k \in DOMAIN roots : roots[k] # Nil /\ nodes[roots[k]].key < Far}
        least == {k \in ranks : \A j \in ranks : nodes[roots[k]].key <= nodes[roots[j]].key}
    IN  IF ranks = {} THEN Nil ELSE roots[CHOOSE k \in least : \A j \in least : k <= j]

\* fheap_del_min, which returns minRoot.
MinDeleted(f) ==
    LET m       == f.minRoot
        spliced == Spliced(f.nodes, m)
        removed == RemoveAndInvalidate(spliced, m)
        linked  == FoldLeft(LinkRoot,
                            [nodes |-> removed, roots |-> [k \in 0 .. MaxNodes |-> Nil], at |-> Nil],
                            Siblings(removed, NextAfterRemoval(spliced, m)))
    IN  [nodes |-> linked.nodes, minRoot |-> MinRoot(linked.nodes, linked.roots)]

\* A node becomes a root.
Cut(nodes, n, min) == AddSibling(RemoveNode(nodes, n), min, n)

\* fheap_mark_parent: the parent is asked for again after the cut, when it has
\* none any more.
ParentMarked(f, parent) ==
    LET Mark(s) ==
            IF s.at = Nil \/ s.nodes[s.at].parent = Nil THEN [s EXCEPT !.at = Nil]
            ELSE IF ~ s.nodes[s.at].marked THEN [s EXCEPT !.nodes[s.at].marked = TRUE, !.at = Nil]
            ELSE LET cut == [Cut(s.nodes, s.at, f.minRoot) EXCEPT ![s.at].marked = FALSE]
                 IN  [nodes |-> cut, at |-> cut[s.at].parent]
    IN  Iterate(Mark, [nodes |-> f.nodes, at |-> parent], MaxNodes).nodes

\* A wrong version of the next definition, for a mutation check only: a root
\* does not become the minimum.
MovedOnly(f, n, key) ==
    LET g == [f EXCEPT !.nodes[n].key = key]
        p == f.nodes[n].parent
    IN  IF p = Nil THEN g
        ELSE [nodes   |-> Cut(ParentMarked(g, p), n, f.minRoot),
              minRoot |-> IF key < g.nodes[f.minRoot].key THEN n ELSE f.minRoot]

\* fheap_decrease_key
KeyDecreased(f, n, key) ==
    LET g == [f EXCEPT !.nodes[n].key = key]
        p == f.nodes[n].parent
    IN  [nodes   |-> IF p = Nil THEN g.nodes ELSE Cut(ParentMarked(g, p), n, f.minRoot),
         minRoot |-> IF key < g.nodes[f.minRoot].key THEN n ELSE f.minRoot]

\* fheap_del of a node that has a parent: its children are moved to the roots
\* by a loop over the list that they leave, so that it goes on among the roots
\* until it meets the first child there.
Deleted(f, n) ==
    LET marked == ParentMarked(f, f.nodes[n].parent)
        first  == marked[n].firstChild
        Move(s) == IF s.at = Nil THEN s
                   ELSE [nodes |-> Cut(s.nodes, s.at, f.minRoot),
                         at    |-> IF s.nodes[s.at].next = first THEN Nil ELSE s.nodes[s.at].next]
        moved  == Iterate(Move, [nodes |-> marked, at |-> first], 2 * MaxNodes)
    IN  [f EXCEPT !.nodes = RemoveAndInvalidate(moved.nodes, n)]

-----------------------------------------------------------------------------

Without(n) == [i \in DOMAIN queued \ {n} |-> queued[i]]

FHeapInit ==
    /\ fheap = EmptyFHeap /\ queued = <<>>
    /\ \/ toAdd = <<>> /\ fheapOps = 0
       \/ toAdd \in Filled /\ fheapOps = -1

\* The caller gives the index, here the least one that is not used.
FHeapAdd(key) ==
    \E n \in NodeIndices \ DOMAIN queued :
        /\ \A i \in NodeIndices \ DOMAIN queued : n <= i
        /\ fheap' = Added(fheap, n, key)
        /\ queued' = [i \in DOMAIN queued \cup {n} |-> IF i = n THEN key ELSE queued[i]]

FHeapDelMin ==
    /\ fheap.minRoot # Nil
    /\ fheap' = MinDeleted(fheap) /\ queued' = Without(fheap.minRoot)

FHeapDecreaseKey(n, key) ==
    /\ key <= queued[n]
    /\ fheap' = KeyDecreased(fheap, n, key) /\ queued' = [queued EXCEPT ![n] = key]

\* fheap_del: a root must be the minimum.
FHeapDel(n) ==
    /\ fheap.nodes[n].parent = Nil => n = fheap.minRoot
    /\ fheap' = IF fheap.nodes[n].parent = Nil THEN MinDeleted(fheap) ELSE Deleted(fheap, n)
    /\ queued' = Without(n)

\* A program that begins with keys adds them and takes out the least, after
\* which the others are in trees.
FHeapNext ==
    \/ /\ toAdd # <<>> /\ FHeapAdd(Head(toAdd))
       /\ toAdd' = Tail(toAdd) /\ UNCHANGED fheapOps
    \/ /\ toAdd = <<>> /\ UNCHANGED toAdd
       /\ fheapOps < MaxFHeapOps /\ fheapOps' = fheapOps + 1
       /\ \/ FHeapDelMin
          \/ /\ fheapOps >= 0
             /\ \/ \E key \in Keys : FHeapAdd(key)
                \/ \E n \in DOMAIN queued, key \in Keys : FHeapDecreaseKey(n, key)
                \/ \E n \in DOMAIN queued : FHeapDel(n)

FHeapSpec == FHeapInit /\ [][FHeapNext]_fheapVars

-----------------------------------------------------------------------------
(* Properties *)

ChildrenOf(n) == ToSet(Siblings(fheap.nodes, fheap.nodes[n].firstChild))
Roots == IF fheap.minRoot = Nil THEN {}
         ELSE {fheap.minRoot} \cup ToSet(Siblings(fheap.nodes, fheap.nodes[fheap.minRoot].next))

\* fheap_validate, and more: the lists of siblings are circular in both
\* directions, a node counts its children and has the first one, no child has a
\* smaller key, whatever was linked, cut, marked and deleted before.
FHeapValidates ==
    \A n \in NodeIndices : LET node == fheap.nodes[n] IN
        node.valid =>
            /\ (node.next = Nil) = (node.prev = Nil)
            /\ node.next # Nil => /\ fheap.nodes[node.next].prev = n
                                  /\ fheap.nodes[node.prev].next = n
                                  /\ fheap.nodes[node.next].parent = node.parent
            /\ node.rank = Cardinality(ChildrenOf(n))
            /\ \A c \in ChildrenOf(n) : fheap.nodes[c].parent = n /\ fheap.nodes[c].key >= node.key
            /\ node.parent # Nil => n \in ChildrenOf(node.parent)

\* The heap is a priority queue: every index added and not yet deleted can be
\* reached from the roots, with its key, and the first root has the least key;
\* and its lists are sound.
FHeapIsPriorityQueue ==
    LET Below(s) == s \cup UNION {ChildrenOf(n) : n \in s}
    IN  /\ FHeapValidates
        /\ Iterate(Below, Roots, MaxNodes) = DOMAIN queued
        /\ {n \in NodeIndices : fheap.nodes[n].valid} = DOMAIN queued
        /\ \A n \in DOMAIN queued :
               fheap.nodes[n].key = queued[n] /\ queued[fheap.minRoot] <= queued[n]

=============================================================================
