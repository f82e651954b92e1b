------------------------------- MODULE HeapProofs -------------------------------
(***************************************************************************)
(* The heap of vector elements, for every size, alignment and number of     *)
(* bins: whatever is allocated and freed, the chain of blocks covers the    *)
(* vector, the free lists name the free blocks, and the objects are the     *)
(* blocks in use.                                                           *)
(***************************************************************************)
EXTENDS Heap, Numbers, SequenceTheorems, FiniteSetTheorems, TLAPS

-----------------------------------------------------------------------------
(* Heaps *)

Bins == 0 .. NBins - 1
Blocks == [offset : Nat, free : BOOLEAN, next : Nat, prev : Nat, fi : Nat]

\* The heaps that have n elements, in the chain or not.
HeapsOf(n) ==
    [elts : [0 .. n - 1 -> Blocks], freeElts : Seq(0 .. n - 1), lists : [Bins -> Seq(Nat)],
     head : Nat, tail : Nat, len : Nat]

\* What an element says.
Nx(h, e) == h.elts[e].next
Pv(h, e) == h.elts[e].prev
Of(h, e) == h.elts[e].offset
Fr(h, e) == h.elts[e].free
Fi(h, e) == h.elts[e].fi

\* Two heaps are the same but for the links, or but for the lists.
SameButLinks(h, g, n) ==
    /\ g \in HeapsOf(n) /\ g.lists = h.lists /\ g.len = h.len /\ g.freeElts = h.freeElts
    /\ \A x \in 0 .. n - 1 : Of(g, x) = Of(h, x) /\ Fr(g, x) = Fr(h, x) /\ Fi(g, x) = Fi(h, x)
SameButLists(h, g, n) ==
    /\ g \in HeapsOf(n) /\ g.len = h.len /\ g.freeElts = h.freeElts /\ g.head = h.head /\ g.tail = h.tail
    /\ \A x \in 0 .. n - 1 : Of(g, x) = Of(h, x) /\ Nx(g, x) = Nx(h, x) /\ Pv(g, x) = Pv(h, x)

\* The blocks that are in the chain; an element that is free for another
\* block is so once.
Inside(h) == DOMAIN h.elts \ ToSet(h.freeElts)
WellFormed(h, n) ==
    /\ h \in HeapsOf(n)
    /\ \A i, j \in 1 .. Len(h.freeElts) : h.freeElts[i] = h.freeElts[j] => i = j

\* A link to the next block is set.
LEMMA NextSet ==
    ASSUME NEW n \in Nat, NEW h \in HeapsOf(n), NEW e \in 0 .. n - 1, NEW v \in Nat,
           NEW g, g = [h EXCEPT !.elts[e].next = v]
    PROVE  /\ SameButLinks(h, g, n) /\ g.head = h.head /\ g.tail = h.tail
           /\ \A x \in 0 .. n - 1 : Nx(g, x) = (IF x = e THEN v ELSE Nx(h, x)) /\ Pv(g, x) = Pv(h, x)
<1> DEFINE b == [h.elts[e] EXCEPT !.next = v]
           f == [h.elts EXCEPT ![e] = b]
<1>1. h.elts \in [0 .. n - 1 -> Blocks] /\ h.elts[e] \in Blocks BY DEF HeapsOf
<1>2. b \in Blocks /\ b.next = v
      /\ b.prev = h.elts[e].prev /\ b.offset = h.elts[e].offset
      /\ b.free = h.elts[e].free /\ b.fi = h.elts[e].fi BY <1>1 DEF Blocks
<1>5. g = [h EXCEPT !.elts = f] OBVIOUS
<1> HIDE DEF b
<1>3. f \in [0 .. n - 1 -> Blocks] /\ \A x \in 0 .. n - 1 : f[x] = IF x = e THEN b ELSE h.elts[x] BY <1>1, <1>2
<1> HIDE DEF f
<1>4. /\ g \in HeapsOf(n) /\ g.elts = f /\ g.lists = h.lists /\ g.len = h.len /\ g.freeElts = h.freeElts
      /\ g.head = h.head /\ g.tail = h.tail BY <1>3, <1>5 DEF HeapsOf
<1>6. SameButLinks(h, g, n) BY <1>2, <1>3, <1>4 DEF SameButLinks, Of, Fr, Fi
<1>7. \A x \in 0 .. n - 1 : Nx(g, x) = (IF x = e THEN v ELSE Nx(h, x)) /\ Pv(g, x) = Pv(h, x)
    BY <1>2, <1>3, <1>4 DEF Nx, Pv
<1> QED BY <1>4, <1>6, <1>7

\* A link to the block before is set.
LEMMA PrevSet ==
    ASSUME NEW n \in Nat, NEW h \in HeapsOf(n), NEW e \in 0 .. n - 1, NEW v \in Nat,
           NEW g, g = [h EXCEPT !.elts[e].prev = v]
    PROVE  /\ SameButLinks(h, g, n) /\ g.head = h.head /\ g.tail = h.tail
           /\ \A x \in 0 .. n - 1 : Pv(g, x) = (IF x = e THEN v ELSE Pv(h, x)) /\ Nx(g, x) = Nx(h, x)
<1> DEFINE b == [h.elts[e] EXCEPT !.prev = v]
           f == [h.elts EXCEPT ![e] = b]
<1>1. h.elts \in [0 .. n - 1 -> Blocks] /\ h.elts[e] \in Blocks BY DEF HeapsOf
<1>2. b \in Blocks /\ b.next = h.elts[e].next
      /\ b.prev = v /\ b.offset = h.elts[e].offset
      /\ b.free = h.elts[e].free /\ b.fi = h.elts[e].fi BY <1>1 DEF Blocks
<1>5. g = [h EXCEPT !.elts = f] OBVIOUS
<1> HIDE DEF b
<1>3. f \in [0 .. n - 1 -> Blocks] /\ \A x \in 0 .. n - 1 : f[x] = IF x = e THEN b ELSE h.elts[x] BY <1>1, <1>2
<1> HIDE DEF f
<1>4. /\ g \in HeapsOf(n) /\ g.elts = f /\ g.lists = h.lists /\ g.len = h.len /\ g.freeElts = h.freeElts
      /\ g.head = h.head /\ g.tail = h.tail BY <1>3, <1>5 DEF HeapsOf
<1>6. SameButLinks(h, g, n) BY <1>2, <1>3, <1>4 DEF SameButLinks, Of, Fr, Fi
<1>7. \A x \in 0 .. n - 1 : Pv(g, x) = (IF x = e THEN v ELSE Pv(h, x)) /\ Nx(g, x) = Nx(h, x)
    BY <1>2, <1>3, <1>4 DEF Nx, Pv
<1> QED BY <1>4, <1>6, <1>7


-----------------------------------------------------------------------------
(* The chain *)

\* The blocks of S are in a chain, linked in both directions, from head to tail.
Linked(h, S) ==
    /\ h.head \in S /\ h.tail \in S
    /\ \A e \in S : Nx(h, e) \in S /\ Pv(h, e) \in S
    /\ \A e \in S : /\ Nx(h, e) = e <=> e = h.tail
                    /\ Pv(h, e) = e <=> e = h.head
                    /\ Nx(h, e) # e => Pv(h, Nx(h, e)) = e
                    /\ Pv(h, e) # e => Nx(h, Pv(h, e)) = e

\* The links after new was inserted after e.
InsertedAfter(h, g, e, new, n) ==
    /\ SameButLinks(h, g, n) /\ g.head = h.head
    /\ g.tail = IF Nx(h, e) = e THEN new ELSE h.tail
    /\ \A x \in 0 .. n - 1 :
           /\ Nx(g, x) = IF x = e THEN new
                         ELSE IF x = new THEN (IF Nx(h, e) = e THEN new ELSE Nx(h, e)) ELSE Nx(h, x)
           /\ Pv(g, x) = IF x = new THEN e
                         ELSE IF Nx(h, e) # e /\ x = Nx(h, e) THEN new ELSE Pv(h, x)

\* The links after new was inserted before e.
InsertedBefore(h, g, e, new, n) ==
    /\ SameButLinks(h, g, n) /\ g.tail = h.tail
    /\ g.head = IF Pv(h, e) = e THEN new ELSE h.head
    /\ \A x \in 0 .. n - 1 :
           /\ Pv(g, x) = IF x = e THEN new
                         ELSE IF x = new THEN (IF Pv(h, e) = e THEN new ELSE Pv(h, e)) ELSE Pv(h, x)
           /\ Nx(g, x) = IF x = new THEN e
                         ELSE IF Pv(h, e) # e /\ x = Pv(h, e) THEN new ELSE Nx(h, x)

\* elt_insert_after sets these links.
LEMMA InsertAfterIs ==
    ASSUME NEW n \in Nat, NEW h \in HeapsOf(n), NEW e \in 0 .. n - 1, NEW new \in 0 .. n - 1,
           new # e, Nx(h, e) \in 0 .. n - 1, Nx(h, e) # new
    PROVE  InsertedAfter(h, InsertAfter(h, e, new), e, new, n)
<1> DEFINE g == InsertAfter(h, e, new)
           m == Nx(h, e)
<1>1. CASE m = e
  <2> DEFINE h1 == [h EXCEPT !.elts[e].next = new]
             h2 == [h1 EXCEPT !.elts[new].next = new]
             h3 == [h2 EXCEPT !.elts[new].prev = e]
             h4 == [h3 EXCEPT !.tail = new]
  <2>1. g = h4 BY <1>1 DEF InsertAfter, Nx
  <2> HIDE DEF g
  <2>2. /\ SameButLinks(h, h1, n) /\ h1.head = h.head /\ h1.tail = h.tail
        /\ \A x \in 0 .. n - 1 : Nx(h1, x) = (IF x = e THEN new ELSE Nx(h, x)) /\ Pv(h1, x) = Pv(h, x)
      BY NextSet
  <2> HIDE DEF h1
  <2>3. h1 \in HeapsOf(n) BY <2>2 DEF SameButLinks
  <2>4. /\ SameButLinks(h1, h2, n) /\ h2.head = h1.head /\ h2.tail = h1.tail
        /\ \A x \in 0 .. n - 1 : Nx(h2, x) = (IF x = new THEN new ELSE Nx(h1, x)) /\ Pv(h2, x) = Pv(h1, x)
      BY <2>3, NextSet
  <2> HIDE DEF h2
  <2>5. h2 \in HeapsOf(n) BY <2>4 DEF SameButLinks
  <2>6. /\ SameButLinks(h2, h3, n) /\ h3.head = h2.head /\ h3.tail = h2.tail
        /\ \A x \in 0 .. n - 1 : Pv(h3, x) = (IF x = new THEN e ELSE Pv(h2, x)) /\ Nx(h3, x) = Nx(h2, x)
      BY <2>5, PrevSet
  <2> HIDE DEF h3
  <2>7. h3 \in HeapsOf(n) BY <2>6 DEF SameButLinks
  <2>8. /\ h4 \in HeapsOf(n) /\ h4.elts = h3.elts /\ h4.tail = new /\ h4.head = h3.head
        /\ h4.lists = h3.lists /\ h4.len = h3.len /\ h4.freeElts = h3.freeElts
    <3>1. new \in Nat OBVIOUS
    <3> QED BY <2>7, <3>1 DEF HeapsOf
  <2> HIDE DEF h4
  <2>9. SameButLinks(h, h4, n) BY <2>2, <2>4, <2>6, <2>8 DEF SameButLinks, Of, Fr, Fi
  <2>10. \A x : Nx(h4, x) = Nx(h3, x) /\ Pv(h4, x) = Pv(h3, x) BY <2>8 DEF Nx, Pv
  <2>11. ASSUME NEW x \in 0 .. n - 1
         PROVE  /\ Nx(g, x) = IF x = e THEN new ELSE IF x = new THEN new ELSE Nx(h, x)
                /\ Pv(g, x) = IF x = new THEN e ELSE Pv(h, x)
      BY <2>1, <2>2, <2>4, <2>6, <2>10
  <2>12. g.head = h.head /\ g.tail = new BY <2>1, <2>2, <2>4, <2>6, <2>8
  <2>13. SameButLinks(h, g, n) BY <2>1, <2>9
  <2> QED BY <1>1, <2>11, <2>12, <2>13 DEF InsertedAfter, g
<1>2. CASE m # e
  <2> DEFINE h1 == [h EXCEPT !.elts[new].prev = e]
             h2 == [h1 EXCEPT !.elts[new].next = m]
             h3 == [h2 EXCEPT !.elts[e].next = new]
             h4 == [h3 EXCEPT !.elts[m].prev = new]
  <2>1. g = h4 BY <1>2 DEF InsertAfter, Nx
  <2> HIDE DEF g
  <2>0. m \in 0 .. n - 1 /\ m \in Nat OBVIOUS
  <2>2. /\ SameButLinks(h, h1, n) /\ h1.head = h.head /\ h1.tail = h.tail
        /\ \A x \in 0 .. n - 1 : Pv(h1, x) = (IF x = new THEN e ELSE Pv(h, x)) /\ Nx(h1, x) = Nx(h, x)
      BY PrevSet
  <2> HIDE DEF h1
  <2>3. h1 \in HeapsOf(n) BY <2>2 DEF SameButLinks
  <2>4. /\ SameButLinks(h1, h2, n) /\ h2.head = h1.head /\ h2.tail = h1.tail
        /\ \A x \in 0 .. n - 1 : Nx(h2, x) = (IF x = new THEN m ELSE Nx(h1, x)) /\ Pv(h2, x) = Pv(h1, x)
      BY <2>0, <2>3, NextSet
  <2> HIDE DEF h2
  <2>5. h2 \in HeapsOf(n) BY <2>4 DEF SameButLinks
  <2>6. /\ SameButLinks(h2, h3, n) /\ h3.head = h2.head /\ h3.tail = h2.tail
        /\ \A x \in 0 .. n - 1 : Nx(h3, x) = (IF x = e THEN new ELSE Nx(h2, x)) /\ Pv(h3, x) = Pv(h2, x)
      BY <2>5, NextSet
  <2> HIDE DEF h3
  <2>7. h3 \in HeapsOf(n) BY <2>6 DEF SameButLinks
  <2>8. /\ SameButLinks(h3, h4, n) /\ h4.head = h3.head /\ h4.tail = h3.tail
        /\ \A x \in 0 .. n - 1 : Pv(h4, x) = (IF x = m THEN new ELSE Pv(h3, x)) /\ Nx(h4, x) = Nx(h3, x)
      BY <2>0, <2>7, PrevSet
  <2> HIDE DEF h4
  <2>9. SameButLinks(h, h4, n) BY <2>2, <2>4, <2>6, <2>8 DEF SameButLinks
  <2>11. ASSUME NEW x \in 0 .. n - 1
         PROVE  /\ Nx(g, x) = IF x = e THEN new ELSE IF x = new THEN m ELSE Nx(h, x)
                /\ Pv(g, x) = IF x = new THEN e ELSE IF x = m THEN new ELSE Pv(h, x)
      BY <2>1, <2>2, <2>4, <2>6, <2>8
  <2>12. g.head = h.head /\ g.tail = h.tail BY <2>1, <2>2, <2>4, <2>6, <2>8
  <2>13. SameButLinks(h, g, n) BY <2>1, <2>9
  <2> QED BY <1>2, <2>11, <2>12, <2>13 DEF InsertedAfter, g
<1> QED BY <1>1, <1>2

\* elt_insert_before sets these links.
LEMMA InsertBeforeIs ==
    ASSUME NEW n \in Nat, NEW h \in HeapsOf(n), NEW e \in 0 .. n - 1, NEW new \in 0 .. n - 1,
           new # e, Pv(h, e) \in 0 .. n - 1, Pv(h, e) # new
    PROVE  InsertedBefore(h, InsertBefore(h, e, new), e, new, n)
<1> DEFINE g == InsertBefore(h, e, new)
           m == Pv(h, e)
<1>1. CASE m = e
  <2> DEFINE h1 == [h EXCEPT !.elts[e].prev = new]
             h2 == [h1 EXCEPT !.elts[new].prev = new]
             h3 == [h2 EXCEPT !.elts[new].next = e]
             h4 == [h3 EXCEPT !.head = new]
  <2>1. g = h4 BY <1>1, Zenon DEF InsertBefore, Pv
  <2> HIDE DEF g
  <2>2. /\ SameButLinks(h, h1, n) /\ h1.tail = h.tail /\ h1.head = h.head
        /\ \A x \in 0 .. n - 1 : Pv(h1, x) = (IF x = e THEN new ELSE Pv(h, x)) /\ Nx(h1, x) = Nx(h, x)
      BY PrevSet
  <2> HIDE DEF h1
  <2>3. h1 \in HeapsOf(n) BY <2>2 DEF SameButLinks
  <2>4. /\ SameButLinks(h1, h2, n) /\ h2.tail = h1.tail /\ h2.head = h1.head
        /\ \A x \in 0 .. n - 1 : Pv(h2, x) = (IF x = new THEN new ELSE Pv(h1, x)) /\ Nx(h2, x) = Nx(h1, x)
      BY <2>3, PrevSet
  <2> HIDE DEF h2
  <2>5. h2 \in HeapsOf(n) BY <2>4 DEF SameButLinks
  <2>6. /\ SameButLinks(h2, h3, n) /\ h3.tail = h2.tail /\ h3.head = h2.head
        /\ \A x \in 0 .. n - 1 : Nx(h3, x) = (IF x = new THEN e ELSE Nx(h2, x)) /\ Pv(h3, x) = Pv(h2, x)
      BY <2>5, NextSet
  <2> HIDE DEF h3
  <2>7. h3 \in HeapsOf(n) BY <2>6 DEF SameButLinks
  <2>8. /\ h4 \in HeapsOf(n) /\ h4.elts = h3.elts /\ h4.head = new /\ h4.tail = h3.tail
        /\ h4.lists = h3.lists /\ h4.len = h3.len /\ h4.freeElts = h3.freeElts
    <3>1. new \in Nat OBVIOUS
    <3> QED BY <2>7, <3>1 DEF HeapsOf
  <2> HIDE DEF h4
  <2>9. SameButLinks(h, h4, n) BY <2>2, <2>4, <2>6, <2>8 DEF SameButLinks, Of, Fr, Fi
  <2>10. \A x : Pv(h4, x) = Pv(h3, x) /\ Nx(h4, x) = Nx(h3, x) BY <2>8 DEF Pv, Nx
  <2>11. ASSUME NEW x \in 0 .. n - 1
         PROVE  /\ Pv(g, x) = IF x = e THEN new ELSE IF x = new THEN new ELSE Pv(h, x)
                /\ Nx(g, x) = IF x = new THEN e ELSE Nx(h, x)
      BY <2>1, <2>2, <2>4, <2>6, <2>10
  <2>12. g.tail = h.tail /\ g.head = new BY <2>1, <2>2, <2>4, <2>6, <2>8
  <2>13. SameButLinks(h, g, n) BY <2>1, <2>9
  <2>14. ASSUME NEW x \in 0 .. n - 1
         PROVE  /\ Pv(g, x) = IF x = e THEN new
                              ELSE IF x = new THEN (IF Pv(h, e) = e THEN new ELSE Pv(h, e)) ELSE Pv(h, x)
                /\ Nx(g, x) = IF x = new THEN e
                              ELSE IF Pv(h, e) # e /\ x = Pv(h, e) THEN new ELSE Nx(h, x)
      <3>1. Pv(h, e) = e BY <1>1
      <3> QED BY <2>11, <3>1
  <2>15. g.head = IF Pv(h, e) = e THEN new ELSE h.head BY <1>1, <2>12
  <2>16. InsertedBefore(h, g, e, new, n) BY <2>12, <2>13, <2>14, <2>15, Zenon DEF InsertedBefore
  <2> QED BY <2>16, Zenon DEF g
<1>2. CASE m # e
  <2> DEFINE h1 == [h EXCEPT !.elts[new].next = e]
             h2 == [h1 EXCEPT !.elts[new].prev = m]
             h3 == [h2 EXCEPT !.elts[e].prev = new]
             h4 == [h3 EXCEPT !.elts[m].next = new]
  <2>1. g = h4 BY <1>2, Zenon DEF InsertBefore, Pv
  <2> HIDE DEF g
  <2>0. m \in 0 .. n - 1 /\ m \in Nat OBVIOUS
  <2>2. /\ SameButLinks(h, h1, n) /\ h1.tail = h.tail /\ h1.head = h.head
        /\ \A x \in 0 .. n - 1 : Nx(h1, x) = (IF x = new THEN e ELSE Nx(h, x)) /\ Pv(h1, x) = Pv(h, x)
      BY NextSet
  <2> HIDE DEF h1
  <2>3. h1 \in HeapsOf(n) BY <2>2 DEF SameButLinks
  <2>4. /\ SameButLinks(h1, h2, n) /\ h2.tail = h1.tail /\ h2.head = h1.head
        /\ \A x \in 0 .. n - 1 : Pv(h2, x) = (IF x = new THEN m ELSE Pv(h1, x)) /\ Nx(h2, x) = Nx(h1, x)
      BY <2>0, <2>3, PrevSet
  <2> HIDE DEF h2
  <2>5. h2 \in HeapsOf(n) BY <2>4 DEF SameButLinks
  <2>6. /\ SameButLinks(h2, h3, n) /\ h3.tail = h2.tail /\ h3.head = h2.head
        /\ \A x \in 0 .. n - 1 : Pv(h3, x) = (IF x = e THEN new ELSE Pv(h2, x)) /\ Nx(h3, x) = Nx(h2, x)
      BY <2>5, PrevSet
  <2> HIDE DEF h3
  <2>7. h3 \in HeapsOf(n) BY <2>6 DEF SameButLinks
  <2>8. /\ SameButLinks(h3, h4, n) /\ h4.tail = h3.tail /\ h4.head = h3.head
        /\ \A x \in 0 .. n - 1 : Nx(h4, x) = (IF x = m THEN new ELSE Nx(h3, x)) /\ Pv(h4, x) = Pv(h3, x)
      BY <2>0, <2>7, NextSet
  <2> HIDE DEF h4
  <2>9. SameButLinks(h, h4, n) BY <2>2, <2>4, <2>6, <2>8 DEF SameButLinks
  <2>11. ASSUME NEW x \in 0 .. n - 1
         PROVE  /\ Pv(g, x) = IF x = e THEN new ELSE IF x = new THEN m ELSE Pv(h, x)
                /\ Nx(g, x) = IF x = new THEN e ELSE IF x = m THEN new ELSE Nx(h, x)
      BY <2>1, <2>2, <2>4, <2>6, <2>8
  <2>12. g.tail = h.tail /\ g.head = h.head BY <2>1, <2>2, <2>4, <2>6, <2>8
  <2>13. SameButLinks(h, g, n) BY <2>1, <2>9
  <2>14. ASSUME NEW x \in 0 .. n - 1
         PROVE  /\ Pv(g, x) = IF x = e THEN new
                              ELSE IF x = new THEN (IF Pv(h, e) = e THEN new ELSE Pv(h, e)) ELSE Pv(h, x)
                /\ Nx(g, x) = IF x = new THEN e
                              ELSE IF Pv(h, e) # e /\ x = Pv(h, e) THEN new ELSE Nx(h, x)
      <3>1. Pv(h, e) # e BY <1>2
      <3> QED BY <2>11, <3>1
  <2>15. g.head = IF Pv(h, e) = e THEN new ELSE h.head BY <1>2, <2>12
  <2>16. InsertedBefore(h, g, e, new, n) BY <2>12, <2>13, <2>14, <2>15, Zenon DEF InsertedBefore
  <2> QED BY <2>16, Zenon DEF g
<1> QED BY <1>1, <1>2


\* An insertion makes the chain longer by one block.
LEMMA InsertAfterLinks ==
    ASSUME NEW n \in Nat, NEW h, NEW g, NEW S, S \subseteq 0 .. n - 1, NEW e \in S, NEW new \in 0 .. n - 1,
           new \notin S, Linked(h, S), InsertedAfter(h, g, e, new, n)
    PROVE  Linked(g, S \cup {new})
<1> DEFINE T == S \cup {new}
<1>1. /\ g.head = h.head /\ g.tail = IF Nx(h, e) = e THEN new ELSE h.tail
      /\ \A x \in T :
           /\ Nx(g, x) = IF x = e THEN new
                         ELSE IF x = new THEN (IF Nx(h, e) = e THEN new ELSE Nx(h, e)) ELSE Nx(h, x)
           /\ Pv(g, x) = IF x = new THEN e
                         ELSE IF Nx(h, e) # e /\ x = Nx(h, e) THEN new ELSE Pv(h, x)
    BY DEF InsertedAfter
<1>2. /\ h.head \in S /\ h.tail \in S
      /\ \A x \in S : Nx(h, x) \in S /\ Pv(h, x) \in S
      /\ \A x \in S : /\ Nx(h, x) = x <=> x = h.tail
                      /\ Pv(h, x) = x <=> x = h.head
                      /\ Nx(h, x) # x => Pv(h, Nx(h, x)) = x
                      /\ Pv(h, x) # x => Nx(h, Pv(h, x)) = x
    BY DEF Linked
<1>3. g.head \in T /\ g.tail \in T BY <1>1, <1>2
<1>4. ASSUME NEW x \in T PROVE Nx(g, x) \in T /\ Pv(g, x) \in T BY <1>1, <1>2
<1>5. ASSUME NEW x \in T PROVE Nx(g, x) = x <=> x = g.tail BY <1>1, <1>2
<1>6. ASSUME NEW x \in T PROVE Pv(g, x) = x <=> x = g.head BY <1>1, <1>2
<1>7. ASSUME NEW x \in T, Nx(g, x) # x PROVE Pv(g, Nx(g, x)) = x
    <2>1. CASE x = e BY <1>1, <2>1
    <2>2. CASE x = new
        <3>1. Nx(g, x) = Nx(h, e) /\ Nx(h, e) # e /\ Nx(h, e) \in T /\ Nx(h, e) # new
            BY <1>1, <1>2, <1>7, <2>2
        <3> QED BY <1>1, <2>2, <3>1
    <2>3. CASE x # e /\ x # new
        <3> DEFINE y == Nx(h, x)
        <3>1. Nx(g, x) = y /\ y \in S /\ y \in T /\ y # new /\ x \in S BY <1>1, <1>2, <2>3
        <3>2. Pv(h, y) = x BY <1>2, <1>7, <3>1
        <3>3. y # Nx(h, e) \/ Nx(h, e) = e BY <1>2, <2>3, <3>2
        <3> HIDE DEF y
        <3> QED BY <1>1, <3>1, <3>2, <3>3
    <2> QED BY <2>1, <2>2, <2>3
<1>8. ASSUME NEW x \in T, Pv(g, x) # x PROVE Nx(g, Pv(g, x)) = x
    <2>1. CASE x = new BY <1>1, <2>1
    <2>2. CASE x # new /\ Nx(h, e) # e /\ x = Nx(h, e)
        <3>1. Pv(g, x) = new /\ new \in T /\ new # e BY <1>1, <2>2
        <3> QED BY <1>1, <2>2, <3>1
    <2>3. CASE x # new /\ ~ (Nx(h, e) # e /\ x = Nx(h, e))
        <3> DEFINE y == Pv(h, x)
        <3>1. Pv(g, x) = y /\ y \in S /\ y \in T /\ y # new /\ x \in S BY <1>1, <1>2, <2>3
        <3>2. Nx(h, y) = x BY <1>2, <1>8, <3>1
        <3>3. y # e BY <1>2, <1>8, <2>3, <3>1, <3>2
        <3> HIDE DEF y
        <3> QED BY <1>1, <3>1, <3>2, <3>3
    <2> QED BY <2>1, <2>2, <2>3
<1> HIDE DEF T
<1>9. Linked(g, T) BY <1>3, <1>4, <1>5, <1>6, <1>7, <1>8 DEF Linked
<1> QED BY <1>9 DEF T

\* And so does one in front of a block.
LEMMA InsertBeforeLinks ==
    ASSUME NEW n \in Nat, NEW h, NEW g, NEW S, S \subseteq 0 .. n - 1, NEW e \in S, NEW new \in 0 .. n - 1,
           new \notin S, Linked(h, S), InsertedBefore(h, g, e, new, n)
    PROVE  Linked(g, S \cup {new})
<1> DEFINE T == S \cup {new}
<1>1. /\ g.tail = h.tail /\ g.head = IF Pv(h, e) = e THEN new ELSE h.head
      /\ \A x \in T :
           /\ Pv(g, x) = IF x = e THEN new
                         ELSE IF x = new THEN (IF Pv(h, e) = e THEN new ELSE Pv(h, e)) ELSE Pv(h, x)
           /\ Nx(g, x) = IF x = new THEN e
                         ELSE IF Pv(h, e) # e /\ x = Pv(h, e) THEN new ELSE Nx(h, x)
    BY DEF InsertedBefore
<1>2. /\ h.tail \in S /\ h.head \in S
      /\ \A x \in S : Pv(h, x) \in S /\ Nx(h, x) \in S
      /\ \A x \in S : /\ Pv(h, x) = x <=> x = h.head
                      /\ Nx(h, x) = x <=> x = h.tail
                      /\ Pv(h, x) # x => Nx(h, Pv(h, x)) = x
                      /\ Nx(h, x) # x => Pv(h, Nx(h, x)) = x
    BY DEF Linked
<1>3. g.tail \in T /\ g.head \in T BY <1>1, <1>2
<1>4. ASSUME NEW x \in T PROVE Pv(g, x) \in T /\ Nx(g, x) \in T BY <1>1, <1>2
<1>5. ASSUME NEW x \in T PROVE Pv(g, x) = x <=> x = g.head BY <1>1, <1>2
<1>6. ASSUME NEW x \in T PROVE Nx(g, x) = x <=> x = g.tail BY <1>1, <1>2
<1>7. ASSUME NEW x \in T, Pv(g, x) # x PROVE Nx(g, Pv(g, x)) = x
    <2>1. CASE x = e BY <1>1, <2>1
    <2>2. CASE x = new
        <3>1. Pv(g, x) = Pv(h, e) /\ Pv(h, e) # e /\ Pv(h, e) \in T /\ Pv(h, e) # new
            BY <1>1, <1>2, <1>7, <2>2
        <3> QED BY <1>1, <2>2, <3>1
    <2>3. CASE x # e /\ x # new
        <3> DEFINE y == Pv(h, x)
        <3>1. Pv(g, x) = y /\ y \in S /\ y \in T /\ y # new /\ x \in S BY <1>1, <1>2, <2>3
        <3>2. Nx(h, y) = x BY <1>2, <1>7, <3>1
        <3>3. y # Pv(h, e) \/ Pv(h, e) = e BY <1>2, <2>3, <3>2
        <3> HIDE DEF y
        <3> QED BY <1>1, <3>1, <3>2, <3>3
    <2> QED BY <2>1, <2>2, <2>3
<1>8. ASSUME NEW x \in T, Nx(g, x) # x PROVE Pv(g, Nx(g, x)) = x
    <2>1. CASE x = new BY <1>1, <2>1
    <2>2. CASE x # new /\ Pv(h, e) # e /\ x = Pv(h, e)
        <3>1. Nx(g, x) = new /\ new \in T /\ new # e BY <1>1, <2>2
        <3> QED BY <1>1, <2>2, <3>1
    <2>3. CASE x # new /\ ~ (Pv(h, e) # e /\ x = Pv(h, e))
        <3> DEFINE y == Nx(h, x)
        <3>1. Nx(g, x) = y /\ y \in S /\ y \in T /\ y # new /\ x \in S BY <1>1, <1>2, <2>3
        <3>2. Pv(h, y) = x BY <1>2, <1>8, <3>1
        <3>3. y # e BY <1>2, <1>8, <2>3, <3>1, <3>2
        <3> HIDE DEF y
        <3> QED BY <1>1, <3>1, <3>2, <3>3
    <2> QED BY <2>1, <2>2, <2>3
<1> HIDE DEF T
<1>9. Linked(g, T) BY <1>3, <1>4, <1>5, <1>6, <1>7, <1>8 DEF Linked
<1> QED BY <1>9 DEF T

-----------------------------------------------------------------------------
(* Elements *)

\* Which elements are inside.
LEMMA InsideIs ==
    ASSUME NEW n \in Nat, NEW h, WellFormed(h, n)
    PROVE  /\ Inside(h) \subseteq 0 .. n - 1 /\ DOMAIN h.elts = 0 .. n - 1
           /\ Cardinality(DOMAIN h.elts) = n /\ Len(h.freeElts) \in Nat /\ DOMAIN h.freeElts = 1 .. Len(h.freeElts)
           /\ \A x : x \in Inside(h) <=> x \in 0 .. n - 1 /\ \A i \in 1 .. Len(h.freeElts) : h.freeElts[i] # x
           /\ \A i \in 1 .. Len(h.freeElts) : h.freeElts[i] \in 0 .. n - 1
           /\ h.elts \in [0 .. n - 1 -> Blocks]
<1>1. h.elts \in [0 .. n - 1 -> Blocks] /\ h.freeElts \in Seq(0 .. n - 1) BY DEF WellFormed, HeapsOf
<1>2. DOMAIN h.elts = 0 .. n - 1 BY <1>1
<1>3. Cardinality(0 .. n - 1) = n
    <2>1. 0 \in Int /\ n - 1 \in Int OBVIOUS
    <2>2. Cardinality(0 .. n - 1) = IF 0 > n - 1 THEN 0 ELSE (n - 1) - 0 + 1 BY <2>1, FS_Interval
    <2> QED BY <2>2
<1>4. Len(h.freeElts) \in Nat /\ DOMAIN h.freeElts = 1 .. Len(h.freeElts)
      /\ \A i \in 1 .. Len(h.freeElts) : h.freeElts[i] \in 0 .. n - 1 BY <1>1
<1>5. \A x : x \in ToSet(h.freeElts) <=> \E i \in 1 .. Len(h.freeElts) : h.freeElts[i] = x BY <1>4 DEF ToSet
<1> QED BY <1>1, <1>2, <1>3, <1>4, <1>5 DEF Inside

\* What a heap has after an element new was taken for a block at offset o.
Grown(h, g, new, o, m) ==
    /\ WellFormed(g, m) /\ new \in 0 .. m - 1 /\ new \notin Inside(h) /\ Inside(g) = Inside(h) \cup {new}
    /\ g.elts[new] = Block(o) /\ \A x \in Inside(h) : g.elts[x] = h.elts[x]
    /\ g.lists = h.lists /\ g.len = h.len /\ g.head = h.head /\ g.tail = h.tail

\* elt_new takes an element that is not in the chain.
LEMMA WithEltIs ==
    ASSUME NEW n \in Nat, NEW h, WellFormed(h, n), NEW o \in Nat
    PROVE  \E m \in Nat : m >= n /\ Grown(h, WithElt(h, o), NewElt(h), o, m)
<1> DEFINE fs == h.freeElts
           l == Len(fs)
           new == NewElt(h)
           g == WithElt(h, o)
           m == IF fs = <<>> THEN n + 1 ELSE n
           es == [i \in 0 .. m - 1 |-> IF i = new THEN Block(o) ELSE h.elts[i]]
           gs == IF fs = <<>> THEN fs ELSE Front(fs)
<1>1. /\ Inside(h) \subseteq 0 .. n - 1 /\ DOMAIN h.elts = 0 .. n - 1
      /\ Cardinality(DOMAIN h.elts) = n /\ l \in Nat /\ DOMAIN fs = 1 .. l
      /\ \A x : x \in Inside(h) <=> x \in 0 .. n - 1 /\ \A i \in 1 .. l : fs[i] # x
      /\ \A i \in 1 .. l : fs[i] \in 0 .. n - 1
      /\ h.elts \in [0 .. n - 1 -> Blocks] BY InsideIs
<1>2. /\ h \in HeapsOf(n) /\ fs \in Seq(0 .. n - 1)
      /\ \A i, j \in 1 .. l : fs[i] = fs[j] => i = j BY DEF WellFormed, HeapsOf
<1>3. Block(o) \in Blocks BY DEF Block, Blocks
<1>4. fs = <<>> <=> l = 0 BY <1>2
<1>5. new = IF fs = <<>> THEN n ELSE fs[l] BY <1>1 DEF NewElt, Last
<1>6. m \in Nat /\ m >= n /\ new \in 0 .. m - 1 /\ new \notin Inside(h) /\ 0 .. m - 1 = 0 .. n - 1 \cup {new}
    BY <1>1, <1>4, <1>5
<1>7. g = [h EXCEPT !.elts = es, !.freeElts = gs]
    BY <1>1, <1>6 DEF WithElt
<1>8. es \in [0 .. m - 1 -> Blocks]
    <2> SUFFICES ASSUME NEW i \in 0 .. m - 1 PROVE (IF i = new THEN Block(o) ELSE h.elts[i]) \in Blocks OBVIOUS
    <2>1. i # new => i \in 0 .. n - 1 BY <1>6
    <2> HIDE DEF new, m
    <2> QED BY <1>1, <1>3, <2>1
<1>9. gs \in Seq(0 .. m - 1) /\ Len(gs) = (IF l = 0 THEN 0 ELSE l - 1) /\ \A i \in 1 .. Len(gs) : gs[i] = fs[i]
    <2>1. CASE fs = <<>>
        <3>1. gs = <<>> BY <2>1
        <3> HIDE DEF gs
        <3> QED BY <3>1, <2>1, <1>4
    <2>2. CASE fs # <<>>
        <3>1. gs = [i \in 1 .. l - 1 |-> fs[i]] BY <2>2 DEF Front
        <3> HIDE DEF gs
        <3>2. l - 1 \in Nat /\ m = n BY <1>1, <1>4, <2>2
        <3>3. \A i \in 1 .. l - 1 : fs[i] \in 0 .. n - 1 BY <1>1
        <3> QED BY <1>4, <2>2, <3>1, <3>2, <3>3
    <2> QED BY <2>1, <2>2
<1> HIDE DEF es, gs, g, new
<1>10. /\ g \in HeapsOf(m) /\ g.elts = es /\ g.freeElts = gs
       /\ g.lists = h.lists /\ g.len = h.len /\ g.head = h.head /\ g.tail = h.tail
    BY <1>2, <1>7, <1>8, <1>9 DEF HeapsOf
<1>11. WellFormed(g, m)
    <2> SUFFICES ASSUME NEW i \in 1 .. Len(gs), NEW j \in 1 .. Len(gs), gs[i] = gs[j] PROVE i = j
        BY <1>10 DEF WellFormed
    <2>0. Len(gs) \in Nat /\ Len(gs) <= l BY <1>1, <1>9
    <2>1. i \in 1 .. l /\ j \in 1 .. l BY <1>1, <2>0
    <2>2. gs[i] = fs[i] /\ gs[j] = fs[j] BY <1>9, <2>1
    <2> QED BY <1>2, <2>1, <2>2
<1>12. Inside(g) = Inside(h) \cup {new}
    <2> HIDE DEF m
    <2>1. \A x : x \in Inside(g) <=> x \in 0 .. m - 1 /\ \A i \in 1 .. Len(gs) : gs[i] # x
        <3>1. \A x : x \in Inside(g) <=> x \in 0 .. m - 1 /\ \A i \in 1 .. Len(g.freeElts) : g.freeElts[i] # x
            BY <1>6, <1>11, InsideIs
        <3> QED BY <1>10, <3>1
    <2>5. Len(gs) \in Nat /\ Len(gs) <= l BY <1>1, <1>9
    <2>2. \A i \in 1 .. Len(gs) : i \in 1 .. l /\ gs[i] = fs[i]
        <3>1. \A i \in 1 .. Len(gs) : i \in 1 .. l BY <1>1, <2>5
        <3> QED BY <1>9, <3>1
    <2>3. CASE fs = <<>>
        <3>1. Len(gs) = 0 /\ l = 0 BY <1>4, <1>9, <2>3
        <3> QED BY <1>1, <1>6, <2>1, <3>1
    <2>4. CASE fs # <<>>
        <3>1. l \in 1 .. l /\ Len(gs) = l - 1 /\ new = fs[l] BY <1>1, <1>4, <1>5, <1>9, <2>4
        <3>2. \A i \in 1 .. Len(gs) : fs[i] # new BY <1>2, <2>2, <3>1
        <3>3. \A i \in 1 .. l : i \in 1 .. Len(gs) \/ fs[i] = new BY <3>1
        <3>4. ASSUME NEW x PROVE x \in Inside(g) <=> x \in Inside(h) \/ x = new
            <4>1. CASE x = new BY <1>6, <2>1, <2>2, <3>2, <4>1
            <4>2. CASE x # new
                <5>1. (\A i \in 1 .. Len(gs) : gs[i] # x) <=> \A i \in 1 .. l : fs[i] # x
                    <6>1. ASSUME \A i \in 1 .. Len(gs) : gs[i] # x, NEW i \in 1 .. l PROVE fs[i] # x
                        BY <2>2, <3>3, <4>2, <6>1
                    <6>2. ASSUME \A i \in 1 .. l : fs[i] # x, NEW i \in 1 .. Len(gs) PROVE gs[i] # x
                        BY <2>2, <6>2
                    <6> QED BY <6>1, <6>2
                <5> QED BY <1>1, <1>6, <2>1, <4>2, <5>1
            <4> QED BY <4>1, <4>2
        <3> QED BY <3>4
    <2> QED BY <2>3, <2>4
<1>13. g.elts[new] = Block(o) /\ \A x \in Inside(h) : g.elts[x] = h.elts[x]
    <2> HIDE DEF m
    <2> QED BY <1>1, <1>6, <1>10 DEF es
<1>14. Grown(h, g, new, o, m) BY <1>6, <1>10, <1>11, <1>12, <1>13 DEF Grown
<1> HIDE DEF m
<1> QED BY <1>6, <1>14 DEF g, new

-----------------------------------------------------------------------------
(* Deletion from the chain *)

\* The head of the chain is set.
LEMMA HeadSet ==
    ASSUME NEW n \in Nat, NEW h \in HeapsOf(n), NEW v \in Nat, NEW g, g = [h EXCEPT !.head = v]
    PROVE  SameButLinks(h, g, n) /\ g.head = v /\ g.tail = h.tail /\ g.elts = h.elts
<1>1. /\ g \in HeapsOf(n) /\ g.elts = h.elts /\ g.lists = h.lists /\ g.len = h.len /\ g.freeElts = h.freeElts
      /\ g.head = v /\ g.tail = h.tail BY DEF HeapsOf
<1> QED BY <1>1 DEF SameButLinks, Of, Fr, Fi

\* The tail is set.
LEMMA TailSet ==
    ASSUME NEW n \in Nat, NEW h \in HeapsOf(n), NEW v \in Nat, NEW g, g = [h EXCEPT !.tail = v]
    PROVE  SameButLinks(h, g, n) /\ g.tail = v /\ g.head = h.head /\ g.elts = h.elts
<1>1. /\ g \in HeapsOf(n) /\ g.elts = h.elts /\ g.lists = h.lists /\ g.len = h.len /\ g.freeElts = h.freeElts
      /\ g.tail = v /\ g.head = h.head BY DEF HeapsOf
<1> QED BY <1>1 DEF SameButLinks, Of, Fr, Fi

\* The links around e pass e by.
Bypassed(h, g, e, n) ==
    /\ SameButLinks(h, g, n)
    /\ g.head = (IF Pv(h, e) = e THEN Nx(h, e) ELSE h.head)
    /\ g.tail = (IF Nx(h, e) = e THEN Pv(h, e) ELSE h.tail)
    /\ \A x \in 0 .. n - 1 :
           /\ Nx(g, x) = IF Pv(h, e) # e /\ x = Pv(h, e) THEN (IF Nx(h, e) = e THEN x ELSE Nx(h, e))
                         ELSE Nx(h, x)
           /\ Pv(g, x) = IF Nx(h, e) # e /\ x = Nx(h, e) THEN (IF Pv(h, e) = e THEN x ELSE Pv(h, e))
                         ELSE Pv(h, x)

\* It passes the block by, unless the block is the only one.
LEMMA PassedByIs ==
    ASSUME NEW n \in Nat, NEW h \in HeapsOf(n), NEW e \in 0 .. n - 1, Nx(h, e) \in 0 .. n - 1,
           Pv(h, e) \in 0 .. n - 1, Nx(h, e) # e \/ Pv(h, e) # e
    PROVE  Bypassed(h, PassedBy(h, e), e, n)
<1> DEFINE p == Pv(h, e)
           m == Nx(h, e)
           g == PassedBy(h, e)
<1>0. p \in Nat /\ m \in Nat OBVIOUS
<1>1. CASE p = e
    <2> DEFINE h1 == [h EXCEPT !.elts[m].prev = m]
               h2 == [h1 EXCEPT !.head = m]
    <2>1. g = h2 BY <1>1 DEF PassedBy, Nx, Pv
    <2>2. /\ SameButLinks(h, h1, n) /\ h1.head = h.head /\ h1.tail = h.tail
          /\ \A x \in 0 .. n - 1 : Pv(h1, x) = (IF x = m THEN m ELSE Pv(h, x)) /\ Nx(h1, x) = Nx(h, x)
        BY <1>0, PrevSet
    <2> HIDE DEF h1
    <2>3. h1 \in HeapsOf(n) BY <2>2 DEF SameButLinks
    <2>4. SameButLinks(h1, h2, n) /\ h2.head = m /\ h2.tail = h1.tail /\ h2.elts = h1.elts BY <1>0, <2>3, HeadSet
    <2> HIDE DEF h2, g
    <2>5. \A x : Nx(h2, x) = Nx(h1, x) /\ Pv(h2, x) = Pv(h1, x) BY <2>4 DEF Nx, Pv
    <2>6. SameButLinks(h, h2, n) BY <2>2, <2>4 DEF SameButLinks
    <2>7. Bypassed(h, h2, e, n) BY <1>1, <2>2, <2>4, <2>5, <2>6 DEF Bypassed
    <2> QED BY <2>1, <2>7 DEF g
<1>2. CASE p # e /\ m = e
    <2> DEFINE h1 == [h EXCEPT !.elts[p].next = p]
               h2 == [h1 EXCEPT !.tail = p]
    <2>1. g = h2 BY <1>2 DEF PassedBy, Nx, Pv
    <2>2. /\ SameButLinks(h, h1, n) /\ h1.head = h.head /\ h1.tail = h.tail
          /\ \A x \in 0 .. n - 1 : Nx(h1, x) = (IF x = p THEN p ELSE Nx(h, x)) /\ Pv(h1, x) = Pv(h, x)
        BY <1>0, NextSet
    <2> HIDE DEF h1
    <2>3. h1 \in HeapsOf(n) BY <2>2 DEF SameButLinks
    <2>4. SameButLinks(h1, h2, n) /\ h2.tail = p /\ h2.head = h1.head /\ h2.elts = h1.elts BY <1>0, <2>3, TailSet
    <2> HIDE DEF h2, g
    <2>5. \A x : Nx(h2, x) = Nx(h1, x) /\ Pv(h2, x) = Pv(h1, x) BY <2>4 DEF Nx, Pv
    <2>6. SameButLinks(h, h2, n) BY <2>2, <2>4 DEF SameButLinks
    <2>7. Bypassed(h, h2, e, n) BY <1>2, <2>2, <2>4, <2>5, <2>6 DEF Bypassed
    <2> QED BY <2>1, <2>7 DEF g
<1>3. CASE p # e /\ m # e
    <2> DEFINE h1 == [h EXCEPT !.elts[p].next = m]
               h2 == [h1 EXCEPT !.elts[m].prev = p]
    <2>1. g = h2 BY <1>3 DEF PassedBy, Nx, Pv
    <2>2. /\ SameButLinks(h, h1, n) /\ h1.head = h.head /\ h1.tail = h.tail
          /\ \A x \in 0 .. n - 1 : Nx(h1, x) = (IF x = p THEN m ELSE Nx(h, x)) /\ Pv(h1, x) = Pv(h, x)
        BY <1>0, NextSet
    <2> HIDE DEF h1
    <2>3. h1 \in HeapsOf(n) BY <2>2 DEF SameButLinks
    <2>4. /\ SameButLinks(h1, h2, n) /\ h2.head = h1.head /\ h2.tail = h1.tail
          /\ \A x \in 0 .. n - 1 : Pv(h2, x) = (IF x = m THEN p ELSE Pv(h1, x)) /\ Nx(h2, x) = Nx(h1, x)
        BY <1>0, <2>3, PrevSet
    <2> HIDE DEF h2, g
    <2>6. SameButLinks(h, h2, n) BY <2>2, <2>4 DEF SameButLinks
    <2>7. Bypassed(h, h2, e, n) BY <1>3, <2>2, <2>4, <2>6 DEF Bypassed
    <2> QED BY <2>1, <2>7 DEF g
<1> QED BY <1>1, <1>2, <1>3

\* The chain without e is a chain.
LEMMA BypassedLinks ==
    ASSUME NEW n \in Nat, NEW h, NEW g, NEW S, S \subseteq 0 .. n - 1, NEW e \in S,
           Linked(h, S), Bypassed(h, g, e, n), Nx(h, e) # Pv(h, e)
    PROVE  /\ Linked(g, S \ {e})
           /\ \A x \in S \ {e} :
                  /\ Nx(g, x) = IF Nx(h, x) = e THEN (IF Nx(h, e) = e THEN x ELSE Nx(h, e)) ELSE Nx(h, x)
                  /\ Pv(g, x) = IF Pv(h, x) = e THEN (IF Pv(h, e) = e THEN x ELSE Pv(h, e)) ELSE Pv(h, x)
<1> DEFINE T == S \ {e}
           p == Pv(h, e)
           m == Nx(h, e)
<1>1. /\ g.head = (IF p = e THEN m ELSE h.head) /\ g.tail = (IF m = e THEN p ELSE h.tail)
      /\ \A x \in S :
           /\ Nx(g, x) = IF p # e /\ x = p THEN (IF m = e THEN x ELSE m) ELSE Nx(h, x)
           /\ Pv(g, x) = IF m # e /\ x = m THEN (IF p = e THEN x ELSE p) ELSE Pv(h, x)
    BY DEF Bypassed
<1>2. /\ h.head \in S /\ h.tail \in S
      /\ \A x \in S : Nx(h, x) \in S /\ Pv(h, x) \in S
      /\ \A x \in S : /\ Nx(h, x) = x <=> x = h.tail
                      /\ Pv(h, x) = x <=> x = h.head
                      /\ Nx(h, x) # x => Pv(h, Nx(h, x)) = x
                      /\ Pv(h, x) # x => Nx(h, Pv(h, x)) = x
    BY DEF Linked
<1>3. p \in S /\ m \in S /\ (p # e => Nx(h, p) = e /\ p \in T) /\ (m # e => Pv(h, m) = e /\ m \in T) BY <1>2
<1>4. /\ \A x \in T : Nx(h, x) = e <=> (p # e /\ x = p)
      /\ \A x \in T : Pv(h, x) = e <=> (m # e /\ x = m) BY <1>2
<1>5. \A x \in T : /\ Nx(g, x) = IF Nx(h, x) = e THEN (IF m = e THEN x ELSE m) ELSE Nx(h, x)
                   /\ Pv(g, x) = IF Pv(h, x) = e THEN (IF p = e THEN x ELSE p) ELSE Pv(h, x)
    BY <1>1, <1>4
<1> HIDE DEF p, m
<1>14. p # m BY DEF p, m
<1>6. p # e \/ m # e BY <1>14
<1>7. g.head \in T /\ g.tail \in T
    <2>1. p # e => h.head # e BY <1>2 DEF p
    <2>2. m # e => h.tail # e BY <1>2 DEF m
    <2> QED BY <1>1, <1>2, <1>3, <1>6, <2>1, <2>2
<1>8. ASSUME NEW x \in T PROVE Nx(g, x) \in T /\ Pv(g, x) \in T BY <1>2, <1>3, <1>5
<1>9. ASSUME NEW x \in T PROVE Nx(g, x) = x <=> x = g.tail
    <2>1. CASE Nx(h, x) = e
        <3>1. p # e /\ x = p BY <1>4, <2>1
        <3>2. m # x BY <1>14, <3>1
        <3>3. h.tail = e <=> m = e BY <1>2 DEF m
        <3>4. Nx(h, x) # x BY <2>1
        <3>5. x # h.tail BY <1>2, <3>4
        <3> QED BY <1>1, <1>5, <2>1, <3>1, <3>2, <3>3, <3>5
    <2>2. CASE Nx(h, x) # e
        <3>1. Nx(g, x) = Nx(h, x) BY <1>5, <2>2
        <3>2. m = e => x # p BY <1>3, <1>6, <2>2
        <3>3. m = e => h.tail = e BY <1>2 DEF m
        <3> QED BY <1>1, <1>2, <3>1, <3>2, <3>3
    <2> QED BY <2>1, <2>2
<1>10. ASSUME NEW x \in T PROVE Pv(g, x) = x <=> x = g.head
    <2>1. CASE Pv(h, x) = e
        <3>1. m # e /\ x = m BY <1>4, <2>1
        <3>2. p # x BY <1>14, <3>1
        <3>3. h.head = e <=> p = e BY <1>2 DEF p
        <3>4. Pv(h, x) # x BY <2>1
        <3>5. x # h.head BY <1>2, <3>4
        <3> QED BY <1>1, <1>5, <2>1, <3>1, <3>2, <3>3, <3>5
    <2>2. CASE Pv(h, x) # e
        <3>1. Pv(g, x) = Pv(h, x) BY <1>5, <2>2
        <3>2. p = e => x # m BY <1>3, <1>6, <2>2
        <3>3. p = e => h.head = e BY <1>2 DEF p
        <3> QED BY <1>1, <1>2, <3>1, <3>2, <3>3
    <2> QED BY <2>1, <2>2
<1>11. ASSUME NEW x \in T, Nx(g, x) # x PROVE Pv(g, Nx(g, x)) = x
    <2>1. CASE Nx(h, x) = e
        <3>1. p # e /\ x = p /\ m # e /\ Nx(g, x) = m /\ m \in T BY <1>3, <1>4, <1>5, <1>11, <2>1
        <3> QED BY <1>3, <1>5, <3>1
    <2>2. CASE Nx(h, x) # e
        <3>1. Nx(g, x) = Nx(h, x) BY <1>5, <2>2
        <3>2. Pv(h, Nx(h, x)) = x /\ Nx(h, x) \in T /\ x # e BY <1>2, <1>11, <2>2, <3>1
        <3> QED BY <1>5, <3>1, <3>2
    <2> QED BY <2>1, <2>2
<1>12. ASSUME NEW x \in T, Pv(g, x) # x PROVE Nx(g, Pv(g, x)) = x
    <2>1. CASE Pv(h, x) = e
        <3>1. m # e /\ x = m /\ p # e /\ Pv(g, x) = p /\ p \in T BY <1>3, <1>4, <1>5, <1>12, <2>1
        <3> QED BY <1>3, <1>5, <3>1
    <2>2. CASE Pv(h, x) # e
        <3>1. Pv(g, x) = Pv(h, x) BY <1>5, <2>2
        <3>2. Nx(h, Pv(h, x)) = x /\ Pv(h, x) \in T /\ x # e BY <1>2, <1>12, <2>2, <3>1
        <3> QED BY <1>5, <3>1, <3>2
    <2> QED BY <2>1, <2>2
<1> HIDE DEF T
<1>13. Linked(g, T) BY <1>7, <1>8, <1>9, <1>10, <1>11, <1>12 DEF Linked
<1> QED BY <1>5, <1>13 DEF T, p, m

\* Only the element e changes.
LEMMA TakenOutIs ==
    ASSUME NEW n \in Nat, NEW h, WellFormed(h, n), NEW e \in Inside(h), NEW g, g = TakenOut(h, e)
    PROVE  \E m \in Nat :
               /\ WellFormed(g, m) /\ Inside(g) = Inside(h) \ {e} /\ \A x \in Inside(g) : g.elts[x] = h.elts[x]
               /\ g.lists = h.lists /\ g.len = h.len /\ g.head = h.head /\ g.tail = h.tail
<1> DEFINE fs == h.freeElts
           l == Len(fs)
<1>1. /\ Inside(h) \subseteq 0 .. n - 1 /\ DOMAIN h.elts = 0 .. n - 1
      /\ Cardinality(DOMAIN h.elts) = n /\ l \in Nat /\ DOMAIN fs = 1 .. l
      /\ \A x : x \in Inside(h) <=> x \in 0 .. n - 1 /\ \A i \in 1 .. l : fs[i] # x
      /\ \A i \in 1 .. l : fs[i] \in 0 .. n - 1
      /\ h.elts \in [0 .. n - 1 -> Blocks] BY InsideIs
<1>2. /\ h \in HeapsOf(n) /\ fs \in Seq(0 .. n - 1)
      /\ \A i, j \in 1 .. l : fs[i] = fs[j] => i = j BY DEF WellFormed, HeapsOf
<1>3. e \in 0 .. n - 1 /\ \A i \in 1 .. l : fs[i] # e BY <1>1
<1>4. CASE e < n - 1
    <2> DEFINE gs == Append(fs, e)
               es == [h.elts EXCEPT ![e] = Block(0)]
    <2>1. g = [h EXCEPT !.freeElts = gs, !.elts = es] BY <1>1, <1>4 DEF TakenOut
    <2>2. Block(0) \in Blocks BY DEF Block, Blocks
    <2>3. es \in [0 .. n - 1 -> Blocks] /\ \A x \in 0 .. n - 1 : x # e => es[x] = h.elts[x] BY <1>1, <2>2
    <2>4. /\ gs \in Seq(0 .. n - 1) /\ Len(gs) = l + 1 /\ gs[l + 1] = e /\ \A i \in 1 .. l : gs[i] = fs[i]
        BY <1>1, <1>2, <1>3
    <2> HIDE DEF es, gs
    <2>5. /\ g \in HeapsOf(n) /\ g.elts = es /\ g.freeElts = gs
          /\ g.lists = h.lists /\ g.len = h.len /\ g.head = h.head /\ g.tail = h.tail
        BY <1>2, <2>1, <2>3, <2>4 DEF HeapsOf
    <2>6. WellFormed(g, n)
        <3> SUFFICES ASSUME NEW i \in 1 .. l + 1, NEW j \in 1 .. l + 1, gs[i] = gs[j] PROVE i = j
            BY <2>4, <2>5 DEF WellFormed
        <3>1. (i \in 1 .. l \/ i = l + 1) /\ (j \in 1 .. l \/ j = l + 1) BY <1>1
        <3> QED BY <1>2, <1>3, <2>4, <3>1
    <2>7. \A x : x \in Inside(g) <=> x \in 0 .. n - 1 /\ \A i \in 1 .. l + 1 : gs[i] # x
        <3>1. \A x : x \in Inside(g) <=> x \in 0 .. n - 1 /\ \A i \in 1 .. Len(g.freeElts) : g.freeElts[i] # x
            BY <2>6, InsideIs
        <3>2. g.freeElts = gs /\ Len(g.freeElts) = l + 1 BY <2>4, <2>5
        <3> QED BY <3>1, <3>2
    <2>8. \A i \in 1 .. l + 1 : i \in 1 .. l \/ i = l + 1 BY <1>1
    <2>9. l + 1 \in 1 .. l + 1 /\ \A i \in 1 .. l : i \in 1 .. l + 1 BY <1>1
    <2>10. ASSUME NEW x PROVE x \in Inside(g) <=> x \in Inside(h) \ {e}
        BY <1>1, <2>4, <2>7, <2>8, <2>9
    <2>11. \A x \in Inside(g) : g.elts[x] = h.elts[x] BY <1>1, <2>3, <2>5, <2>10
    <2> QED BY <2>5, <2>6, <2>10, <2>11
<1>5. CASE ~ (e < n - 1)
    <2> DEFINE es == [i \in 0 .. n - 2 |-> h.elts[i]]
    <2>0. e = n - 1 /\ n - 1 \in Nat /\ (n - 1) - 1 = n - 2 BY <1>3, <1>5
    <2>1. g = [h EXCEPT !.elts = es]
        <3>1. (0 .. n - 1) \ {e} = 0 .. n - 2 BY <2>0
        <3> QED BY <1>1, <1>5, <3>1 DEF TakenOut
    <2>2. es \in [0 .. (n - 1) - 1 -> Blocks] /\ \A x \in 0 .. n - 2 : es[x] = h.elts[x] BY <1>1, <2>0
    <2> HIDE DEF es
    <2>3. fs \in Seq(0 .. (n - 1) - 1)
        <3>1. \A i \in 1 .. l : fs[i] \in 0 .. (n - 1) - 1 BY <1>1, <1>3, <2>0
        <3> QED BY <1>1, <1>2, <3>1
    <2>4. /\ g \in HeapsOf(n - 1) /\ g.elts = es /\ g.freeElts = fs
          /\ g.lists = h.lists /\ g.len = h.len /\ g.head = h.head /\ g.tail = h.tail
        BY <1>2, <2>1, <2>2, <2>3 DEF HeapsOf
    <2>5. WellFormed(g, n - 1) BY <1>2, <2>4 DEF WellFormed
    <2>6. \A x : x \in Inside(g) <=> x \in 0 .. (n - 1) - 1 /\ \A i \in 1 .. l : fs[i] # x
        <3> DEFINE k == n - 1
        <3>2. k \in Nat /\ WellFormed(g, k) BY <2>0, <2>5
        <3> HIDE DEF k
        <3>3. \A x : x \in Inside(g) <=> x \in 0 .. k - 1 /\ \A i \in 1 .. Len(g.freeElts) : g.freeElts[i] # x
            BY <3>2, InsideIs
        <3>1. \A x : x \in Inside(g) <=> x \in 0 .. (n - 1) - 1 /\ \A i \in 1 .. Len(g.freeElts) : g.freeElts[i] # x
            BY <3>3 DEF k
        <3> QED BY <2>4, <3>1
    <2>7. ASSUME NEW x PROVE x \in Inside(g) <=> x \in Inside(h) \ {e}
        <3>1. x \in 0 .. (n - 1) - 1 <=> x \in 0 .. n - 1 /\ x # e BY <2>0
        <3> QED BY <1>1, <2>6, <3>1
    <2>8. \A x \in Inside(g) : g.elts[x] = h.elts[x] BY <2>0, <2>2, <2>4, <2>6
    <2> QED BY <2>0, <2>4, <2>5, <2>7, <2>8
<1> QED BY <1>4, <1>5

\* A heap after e was deleted.
Dropped(h, g, e, m) ==
    /\ WellFormed(g, m) /\ Inside(g) = Inside(h) \ {e} /\ Linked(g, Inside(g))
    /\ g.lists = h.lists /\ g.len = h.len
    /\ g.head = (IF Pv(h, e) = e THEN Nx(h, e) ELSE h.head)
    /\ g.tail = (IF Nx(h, e) = e THEN Pv(h, e) ELSE h.tail)
    /\ \A x \in Inside(g) :
           /\ Of(g, x) = Of(h, x) /\ Fr(g, x) = Fr(h, x) /\ Fi(g, x) = Fi(h, x)
           /\ Nx(g, x) = IF Nx(h, x) = e THEN (IF Nx(h, e) = e THEN x ELSE Nx(h, e)) ELSE Nx(h, x)
           /\ Pv(g, x) = IF Pv(h, x) = e THEN (IF Pv(h, e) = e THEN x ELSE Pv(h, e)) ELSE Pv(h, x)

\* elt_delete.
LEMMA DeleteEltIs ==
    ASSUME NEW n \in Nat, NEW h, WellFormed(h, n), Linked(h, Inside(h)), NEW e \in Inside(h),
           Nx(h, e) # Pv(h, e)
    PROVE  \E m \in Nat : Dropped(h, DeleteElt(h, e), e, m)
<1> DEFINE b == PassedBy(h, e)
           g == TakenOut(b, e)
<1>1. Inside(h) \subseteq 0 .. n - 1 /\ DOMAIN h.elts = 0 .. n - 1 BY InsideIs
<1>2. h \in HeapsOf(n) BY DEF WellFormed
<1>3. Nx(h, e) \in Inside(h) /\ Pv(h, e) \in Inside(h) BY DEF Linked
<1>4. Bypassed(h, b, e, n) BY <1>1, <1>2, <1>3, PassedByIs
<1>5. SameButLinks(h, b, n) BY <1>4 DEF Bypassed
<1>6. DOMAIN b.elts = 0 .. n - 1 BY <1>5 DEF SameButLinks, HeapsOf
<1>7. DeleteElt(h, e) = g BY DEF DeleteElt
<1> HIDE DEF b, g
<1>8. b.freeElts = h.freeElts BY <1>5 DEF SameButLinks
<1>9. WellFormed(b, n) /\ Inside(b) = Inside(h) BY <1>1, <1>5, <1>6, <1>8 DEF WellFormed, Inside, SameButLinks
<1>10. /\ Linked(b, Inside(h) \ {e})
       /\ \A x \in Inside(h) \ {e} :
              /\ Nx(b, x) = IF Nx(h, x) = e THEN (IF Nx(h, e) = e THEN x ELSE Nx(h, e)) ELSE Nx(h, x)
              /\ Pv(b, x) = IF Pv(h, x) = e THEN (IF Pv(h, e) = e THEN x ELSE Pv(h, e)) ELSE Pv(h, x)
    BY <1>1, <1>4, BypassedLinks
<1>11. PICK m \in Nat :
          /\ WellFormed(g, m) /\ Inside(g) = Inside(b) \ {e} /\ \A x \in Inside(g) : g.elts[x] = b.elts[x]
          /\ g.lists = b.lists /\ g.len = b.len /\ g.head = b.head /\ g.tail = b.tail
    BY <1>9, TakenOutIs DEF g
<1>12. \A x \in Inside(g) : /\ Nx(g, x) = Nx(b, x) /\ Pv(g, x) = Pv(b, x) /\ Of(g, x) = Of(b, x)
                             /\ Fr(g, x) = Fr(b, x) /\ Fi(g, x) = Fi(b, x)
    BY <1>11 DEF Nx, Pv, Of, Fr, Fi
<1>13. Inside(g) = Inside(h) \ {e} BY <1>9, <1>11
<1>14. Linked(g, Inside(g))
    <2>1. \A x \in Inside(g) : Nx(b, x) \in Inside(g) /\ Pv(b, x) \in Inside(g) BY <1>10, <1>13 DEF Linked
    <2> QED BY <1>10, <1>11, <1>12, <1>13, <2>1 DEF Linked
<1>15. \A x \in Inside(g) : Of(g, x) = Of(h, x) /\ Fr(g, x) = Fr(h, x) /\ Fi(g, x) = Fi(h, x)
    BY <1>1, <1>5, <1>12, <1>13 DEF SameButLinks
<1>16. g.lists = h.lists /\ g.len = h.len BY <1>5, <1>11 DEF SameButLinks
<1>17. /\ g.head = (IF Pv(h, e) = e THEN Nx(h, e) ELSE h.head)
       /\ g.tail = (IF Nx(h, e) = e THEN Pv(h, e) ELSE h.tail) BY <1>4, <1>11 DEF Bypassed
<1>18. Dropped(h, g, e, m) BY <1>10, <1>11, <1>12, <1>13, <1>14, <1>15, <1>16, <1>17 DEF Dropped
<1> QED BY <1>7, <1>18

-----------------------------------------------------------------------------
(* Free lists *)

\* Of two heaps that are the same but for the lists both have the chain.
LEMMA ListsAside ==
    ASSUME NEW n \in Nat, NEW h, NEW g, WellFormed(h, n), SameButLists(h, g, n)
    PROVE  /\ WellFormed(g, n) /\ Inside(g) = Inside(h)
           /\ Linked(h, Inside(h)) => Linked(g, Inside(h))
<1>1. /\ g \in HeapsOf(n) /\ g.freeElts = h.freeElts /\ g.head = h.head /\ g.tail = h.tail
      /\ \A x \in 0 .. n - 1 : Nx(g, x) = Nx(h, x) /\ Pv(g, x) = Pv(h, x) BY DEF SameButLists
<1>2. WellFormed(g, n) BY <1>1 DEF WellFormed
<1>3. DOMAIN g.elts = 0 .. n - 1 /\ DOMAIN h.elts = 0 .. n - 1 /\ Inside(h) \subseteq 0 .. n - 1 BY <1>2, InsideIs
<1>4. Inside(g) = Inside(h) BY <1>1, <1>3 DEF Inside
<1>5. ASSUME Linked(h, Inside(h)) PROVE Linked(g, Inside(h))
    <2>1. \A x \in Inside(h) : Nx(h, x) \in 0 .. n - 1 /\ Pv(h, x) \in 0 .. n - 1 BY <1>3, <1>5 DEF Linked
    <2> QED BY <1>1, <1>3, <1>5, <2>1 DEF Linked
<1> QED BY <1>2, <1>4, <1>5

\* And of two that are the same but for the links one is as well formed.
LEMMA LinksAside ==
    ASSUME NEW n \in Nat, NEW h, NEW g, WellFormed(h, n), SameButLinks(h, g, n)
    PROVE  WellFormed(g, n) /\ Inside(g) = Inside(h)
<1>1. g \in HeapsOf(n) /\ g.freeElts = h.freeElts BY DEF SameButLinks
<1>2. WellFormed(g, n) BY <1>1 DEF WellFormed
<1>3. DOMAIN g.elts = 0 .. n - 1 /\ DOMAIN h.elts = 0 .. n - 1 BY <1>2, InsideIs
<1> QED BY <1>1, <1>2, <1>3 DEF Inside

\* A heap after e was added to list b.
OnList(h, g, n, b, e) ==
    /\ SameButLists(h, g, n) /\ Fr(g, e) /\ Fi(g, e) = Len(h.lists[b])
    /\ \A x \in 0 .. n - 1 : x # e => Fr(g, x) = Fr(h, x) /\ Fi(g, x) = Fi(h, x)
    /\ g.lists = [h.lists EXCEPT ![b] = Append(h.lists[b], e)]

\* What a free block is given.
LEMMA ListedAs ==
    ASSUME NEW n \in Nat, NEW h \in HeapsOf(n), NEW e \in 0 .. n - 1, NEW b \in Bins
    PROVE  OnList(h, Listed(h, b, e), n, b, e)
<1> DEFINE g == Listed(h, b, e)
           ls == [h.lists EXCEPT ![b] = Append(h.lists[b], e)]
           k == [h.elts[e] EXCEPT !.free = TRUE, !.fi = Len(h.lists[b])]
           es == [h.elts EXCEPT ![e] = k]
<1>1. h.elts \in [0 .. n - 1 -> Blocks] /\ h.lists \in [Bins -> Seq(Nat)] BY DEF HeapsOf
<1>2. h.lists[b] \in Seq(Nat) /\ Len(h.lists[b]) \in Nat BY <1>1
<1>3. ls \in [Bins -> Seq(Nat)] BY <1>1, <1>2
<1>4. g = [h EXCEPT !.lists = ls, !.elts = es] BY Zenon DEF Listed
<1> HIDE DEF g
<1>5. /\ k \in Blocks /\ k.free = TRUE /\ k.fi = Len(h.lists[b]) /\ k.offset = h.elts[e].offset
      /\ k.next = h.elts[e].next /\ k.prev = h.elts[e].prev BY <1>1, <1>2 DEF Blocks
<1> HIDE DEF k, ls
<1>6. es \in [0 .. n - 1 -> Blocks] /\ es[e] = k /\ \A x \in 0 .. n - 1 : x # e => es[x] = h.elts[x]
    BY <1>1, <1>5
<1> HIDE DEF es
<1>7. /\ g \in HeapsOf(n) /\ g.elts = es /\ g.lists = ls /\ g.len = h.len /\ g.freeElts = h.freeElts
      /\ g.head = h.head /\ g.tail = h.tail BY <1>3, <1>4, <1>6 DEF HeapsOf
<1>8. SameButLists(h, g, n)
    <2> SUFFICES ASSUME NEW x \in 0 .. n - 1 PROVE Of(g, x) = Of(h, x) /\ Nx(g, x) = Nx(h, x) /\ Pv(g, x) = Pv(h, x)
        BY <1>7 DEF SameButLists
    <2> QED BY <1>5, <1>6, <1>7 DEF Of, Nx, Pv
<1>9. Fr(g, e) /\ Fi(g, e) = Len(h.lists[b]) BY <1>5, <1>6, <1>7 DEF Fr, Fi
<1>10. \A x \in 0 .. n - 1 : x # e => Fr(g, x) = Fr(h, x) /\ Fi(g, x) = Fi(h, x)
    BY <1>6, <1>7 DEF Fr, Fi
<1>11. OnList(h, g, n, b, e) BY <1>7, <1>8, <1>9, <1>10 DEF ls, OnList
<1> QED BY <1>11 DEF g

\* A free list without what it has at place i.
Without1(list, i) ==
    IF i < Len(list) - 1 THEN Front([list EXCEPT ![i + 1] = list[Len(list)]]) ELSE Front(list)

\* Its last one takes that place.
LEMMA Without1Is ==
    ASSUME NEW list \in Seq(Nat), NEW i \in 0 .. Len(list) - 1
    PROVE  /\ Without1(list, i) \in Seq(Nat) /\ Len(Without1(list, i)) = Len(list) - 1
           /\ \A j \in 1 .. Len(list) - 1 : Without1(list, i)[j] = IF j = i + 1 THEN list[Len(list)] ELSE list[j]
<1> DEFINE l == Len(list)
           r == [list EXCEPT ![i + 1] = list[l]]
           s == IF i < l - 1 THEN r ELSE list
<1>1. l \in Nat /\ l > 0 /\ i + 1 \in 1 .. l /\ \A j \in 1 .. l : list[j] \in Nat OBVIOUS
<1>2. r \in Seq(Nat) /\ Len(r) = l /\ \A j \in 1 .. l : r[j] = IF j = i + 1 THEN list[l] ELSE list[j]
    BY <1>1
<1> HIDE DEF r
<1>3. s \in Seq(Nat) /\ Len(s) = l /\ \A j \in 1 .. l - 1 : s[j] = IF j = i + 1 THEN list[l] ELSE list[j]
    <2>1. CASE i < l - 1 BY <1>1, <1>2, <2>1
    <2>2. CASE ~(i < l - 1)
        <3>1. s = list BY <2>2
        <3>2. \A j \in 1 .. l - 1 : j # i + 1 BY <1>1, <2>2
        <3> QED BY <1>1, <3>1, <3>2
    <2> QED BY <2>1, <2>2
<1>4. Without1(list, i) = Front(s) BY DEF Without1, r
<1> HIDE DEF s
<1>5. Front(s) = [j \in 1 .. l - 1 |-> s[j]] BY <1>1, <1>3 DEF Front
<1>6. \A j \in 1 .. l - 1 : s[j] \in Nat
    <2> SUFFICES ASSUME NEW j \in 1 .. l - 1 PROVE s[j] \in Nat OBVIOUS
    <2>1. j \in 1 .. l /\ l \in 1 .. l BY <1>1
    <2> QED BY <1>1, <1>3, <2>1
<1>7. Front(s) \in Seq(Nat) /\ Len(Front(s)) = l - 1 BY <1>1, <1>5, <1>6
<1> QED BY <1>3, <1>4, <1>5, <1>7

\* A heap after place i of list b was left, of which t was the last.
OffList(h, g, n, b, i, t) ==
    /\ SameButLists(h, g, n)
    /\ \A x \in 0 .. n - 1 :
           Fr(g, x) = Fr(h, x) /\ Fi(g, x) = IF i < Len(h.lists[b]) - 1 /\ x = t THEN i ELSE Fi(h, x)
    /\ g.lists = [h.lists EXCEPT ![b] = Without1(h.lists[b], i)]

\* remove_free_block.
LEMMA UnlistedAs ==
    ASSUME NEW n \in Nat, NEW h \in HeapsOf(n), NEW b \in Bins, NEW i \in 0 .. Len(h.lists[b]) - 1,
           NEW t \in 0 .. n - 1, t = h.lists[b][Len(h.lists[b])]
    PROVE  OffList(h, Unlisted(h, b, i), n, b, i, t)
<1> DEFINE g == Unlisted(h, b, i)
           list == h.lists[b]
           l == Len(list)
           e == list[l]
           ls == [h.lists EXCEPT ![b] = Without1(list, i)]
           k == [h.elts[e] EXCEPT !.fi = i]
           es == IF i < l - 1 THEN [h.elts EXCEPT ![e] = k] ELSE h.elts
<1>1. h.elts \in [0 .. n - 1 -> Blocks] /\ h.lists \in [Bins -> Seq(Nat)] BY DEF HeapsOf
<1>2. list \in Seq(Nat) /\ l \in Nat /\ l > 0 /\ i \in Nat /\ (l - 1) + 1 = l BY <1>1
<1>3. ls \in [Bins -> Seq(Nat)]
    <2>1. Without1(list, i) \in Seq(Nat) BY <1>2, Without1Is
    <2> QED BY <1>1, <2>1
<1>4. g = [h EXCEPT !.lists = ls, !.elts = es]
    <2>1. CASE i < l - 1
        <3>1. g = [h EXCEPT !.lists[b] = Front([list EXCEPT ![i + 1] = list[l]]), !.elts[e].fi = i]
            BY <1>2, <2>1 DEF Unlisted
        <3> QED BY <2>1, <3>1 DEF Without1
    <2>2. CASE ~ (i < l - 1)
        <3>1. g = [h EXCEPT !.lists[b] = Front(list)] BY <2>2 DEF Unlisted
        <3>2. g = [h EXCEPT !.lists = ls] BY <2>2, <3>1 DEF Without1
        <3> HIDE DEF ls
        <3>3. h = [h EXCEPT !.elts = h.elts] BY DEF HeapsOf
        <3>4. [h EXCEPT !.lists = ls] = [h EXCEPT !.lists = ls, !.elts = h.elts] BY DEF HeapsOf
        <3> QED BY <2>2, <3>2, <3>4
    <2> QED BY <2>1, <2>2
<1> HIDE DEF g
<1>5. /\ k \in Blocks /\ k.free = h.elts[e].free /\ k.fi = i /\ k.offset = h.elts[e].offset
      /\ k.next = h.elts[e].next /\ k.prev = h.elts[e].prev BY <1>1, <1>2 DEF Blocks
<1> HIDE DEF k, ls
<1>6. /\ es \in [0 .. n - 1 -> Blocks]
      /\ \A x \in 0 .. n - 1 : es[x] = IF i < l - 1 /\ x = e THEN k ELSE h.elts[x]
    BY <1>1, <1>5
<1> HIDE DEF es
<1>7. /\ g \in HeapsOf(n) /\ g.elts = es /\ g.lists = ls /\ g.len = h.len /\ g.freeElts = h.freeElts
      /\ g.head = h.head /\ g.tail = h.tail BY <1>3, <1>4, <1>6 DEF HeapsOf
<1>8. SameButLists(h, g, n)
    <2> SUFFICES ASSUME NEW x \in 0 .. n - 1 PROVE Of(g, x) = Of(h, x) /\ Nx(g, x) = Nx(h, x) /\ Pv(g, x) = Pv(h, x)
        BY <1>7 DEF SameButLists
    <2> QED BY <1>5, <1>6, <1>7 DEF Of, Nx, Pv
<1>9. \A x \in 0 .. n - 1 :
           Fr(g, x) = Fr(h, x) /\ Fi(g, x) = IF i < l - 1 /\ x = e THEN i ELSE Fi(h, x)
    BY <1>5, <1>6, <1>7 DEF Fr, Fi
<1>10. OffList(h, g, n, b, i, t) BY <1>7, <1>8, <1>9 DEF ls, OffList
<1> QED BY <1>10 DEF g

\* The blocks of F are those listed, each once, in its bin, where it says.
Binned(h, F, bin) ==
    /\ \A e \in F : /\ bin[e] \in Bins /\ Fi(h, e) \in 0 .. Len(h.lists[bin[e]]) - 1
                    /\ h.lists[bin[e]][Fi(h, e) + 1] = e
    /\ \A b \in Bins : \A j \in 1 .. Len(h.lists[b]) :
           h.lists[b][j] \in F /\ bin[h.lists[b][j]] = b /\ Fi(h, h.lists[b][j]) = j - 1

\* A block is listed.
LEMMA ListedBins ==
    ASSUME NEW n \in Nat, NEW h \in HeapsOf(n), NEW F, F \subseteq 0 .. n - 1, NEW bin, Binned(h, F, bin),
           NEW e \in 0 .. n - 1, e \notin F, NEW b \in Bins, NEW c, \A x \in F : c[x] = bin[x], c[e] = b
    PROVE  Binned(Listed(h, b, e), F \cup {e}, c)
<1> DEFINE g == Listed(h, b, e)
           G == F \cup {e}
           l == Len(h.lists[b])
<1>0. g = Listed(h, b, e) OBVIOUS
<1>1. /\ SameButLists(h, g, n) /\ Fr(g, e) /\ Fi(g, e) = l
      /\ \A x \in 0 .. n - 1 : x # e => Fr(g, x) = Fr(h, x) /\ Fi(g, x) = Fi(h, x)
      /\ g.lists = [h.lists EXCEPT ![b] = Append(h.lists[b], e)]
    <2> HIDE DEF g
    <2>1. OnList(h, g, n, b, e) BY <1>0, ListedAs
    <2> QED BY <2>1 DEF OnList
<1> HIDE DEF g
<1>2. h.lists \in [Bins -> Seq(Nat)] /\ l \in Nat /\ h.lists[b] \in Seq(Nat) /\ e \in Nat BY DEF HeapsOf
<1>3. /\ \A d \in Bins : d # b => g.lists[d] = h.lists[d]
      /\ g.lists[b] = Append(h.lists[b], e) BY <1>1, <1>2
<1>4. /\ Len(g.lists[b]) = l + 1 /\ g.lists[b][l + 1] = e
      /\ \A j \in 1 .. l : g.lists[b][j] = h.lists[b][j] BY <1>2, <1>3
<1> HIDE DEF l
<1>5. ASSUME NEW x \in G PROVE /\ c[x] \in Bins /\ Fi(g, x) \in 0 .. Len(g.lists[c[x]]) - 1
                               /\ g.lists[c[x]][Fi(g, x) + 1] = x
    <2>1. CASE x = e
        <3>1. c[x] = b /\ Fi(g, x) = l BY <1>1, <2>1
        <3> QED BY <1>2, <1>4, <2>1, <3>1
    <2>2. CASE x # e
        <3>1. x \in F /\ c[x] = bin[x] /\ Fi(g, x) = Fi(h, x) BY <1>1, <2>2
        <3>2. /\ c[x] \in Bins /\ Fi(h, x) \in 0 .. Len(h.lists[c[x]]) - 1
              /\ h.lists[c[x]][Fi(h, x) + 1] = x BY <3>1 DEF Binned
        <3>3. CASE c[x] = b
            <4>1. Fi(h, x) \in 0 .. l - 1 BY <3>2, <3>3 DEF l
            <4>2. Fi(h, x) + 1 \in 1 .. l /\ Fi(h, x) \in 0 .. (l + 1) - 1 BY <1>2, <4>1
            <4>3. g.lists[b][Fi(h, x) + 1] = h.lists[b][Fi(h, x) + 1] BY <1>4, <4>2
            <4> QED BY <1>4, <3>1, <3>2, <3>3, <4>2, <4>3
        <3>4. CASE c[x] # b BY <1>3, <3>1, <3>2, <3>4
        <3> QED BY <3>3, <3>4
    <2> QED BY <2>1, <2>2
<1>6. ASSUME NEW d \in Bins, NEW j \in 1 .. Len(g.lists[d])
      PROVE  g.lists[d][j] \in G /\ c[g.lists[d][j]] = d /\ Fi(g, g.lists[d][j]) = j - 1
    <2>1. CASE d # b
        <3>1. g.lists[d] = h.lists[d] BY <1>3, <2>1
        <3> DEFINE x == h.lists[d][j]
        <3>2. x \in F /\ bin[x] = d /\ Fi(h, x) = j - 1 BY <3>1 DEF Binned
        <3>3. x # e /\ x \in 0 .. n - 1 BY <3>2
        <3> HIDE DEF x
        <3>4. c[x] = d /\ Fi(g, x) = j - 1 /\ x \in G BY <1>1, <3>2, <3>3
        <3> QED BY <3>1, <3>4 DEF x
    <2>2. CASE d = b /\ j # l + 1
        <3>1. j \in 1 .. l BY <1>2, <1>4, <2>2
        <3>2. g.lists[d][j] = h.lists[b][j] BY <1>4, <2>2, <3>1
        <3> DEFINE x == h.lists[b][j]
        <3>3. x \in F /\ bin[x] = b /\ Fi(h, x) = j - 1 BY <3>1 DEF Binned, l
        <3>4. x # e /\ x \in 0 .. n - 1 BY <3>3
        <3> HIDE DEF x
        <3>5. c[x] = d /\ Fi(g, x) = j - 1 /\ x \in G BY <1>1, <2>2, <3>3, <3>4
        <3> QED BY <3>2, <3>5 DEF x
    <2>3. CASE d = b /\ j = l + 1
        <3>1. g.lists[d][j] = e BY <1>4, <2>3
        <3> QED BY <1>1, <1>2, <2>3, <3>1
    <2> QED BY <2>1, <2>2, <2>3
<1> QED BY <1>5, <1>6 DEF Binned, g

\* A heap after e was taken from its list.
OffBins(h, g, n, F, e, bin) ==
    /\ Binned(g, F \ {e}, bin) /\ SameButLists(h, g, n)
    /\ \A x \in 0 .. n - 1 : Fr(g, x) = Fr(h, x)
    /\ \A x \in F : bin[x] # bin[e] => Fi(g, x) = Fi(h, x)

\* A block is no longer listed.
LEMMA UnlistedBins ==
    ASSUME NEW n \in Nat, NEW h \in HeapsOf(n), NEW F, F \subseteq 0 .. n - 1, NEW bin, Binned(h, F, bin),
           NEW e \in F, NEW g, g = Unlisted(h, bin[e], Fi(h, e))
    PROVE  OffBins(h, g, n, F, e, bin)
<1> DEFINE b == bin[e]
           i == Fi(h, e)
           l == Len(h.lists[b])
           t == h.lists[b][l]
           G == F \ {e}
<1>1. b \in Bins /\ i \in 0 .. l - 1 /\ h.lists[b][i + 1] = e BY DEF Binned
<1>2. h.lists \in [Bins -> Seq(Nat)] BY DEF HeapsOf
<1>3. h.lists[b] \in Seq(Nat) /\ l \in Nat /\ l > 0 /\ l \in 1 .. l BY <1>1, <1>2
<1>4. t \in F /\ bin[t] = b /\ Fi(h, t) = l - 1 /\ t \in 0 .. n - 1 BY <1>1, <1>3 DEF Binned
<1>0. g = Unlisted(h, b, i) /\ l = Len(h.lists[b]) /\ t = h.lists[b][l] OBVIOUS
<1> HIDE DEF b, i, t, l
<1>5. /\ SameButLists(h, g, n)
      /\ \A x \in 0 .. n - 1 : Fr(g, x) = Fr(h, x) /\ Fi(g, x) = IF i < l - 1 /\ x = t THEN i ELSE Fi(h, x)
      /\ g.lists = [h.lists EXCEPT ![b] = Without1(h.lists[b], i)]
    <2>1. t \in 0 .. n - 1 /\ i \in 0 .. Len(h.lists[b]) - 1 /\ t = h.lists[b][Len(h.lists[b])]
        BY <1>0, <1>1, <1>4
    <2>2. OffList(h, g, n, b, i, t) BY <1>0, <1>1, <2>1, UnlistedAs
    <2> QED BY <1>0, <2>2 DEF OffList
<1>6. /\ Without1(h.lists[b], i) \in Seq(Nat) /\ Len(Without1(h.lists[b], i)) = l - 1
      /\ \A j \in 1 .. l - 1 : Without1(h.lists[b], i)[j] = IF j = i + 1 THEN t ELSE h.lists[b][j]
    BY <1>1, <1>3, Without1Is DEF t, l
<1>7. \A d \in Bins : d # b => g.lists[d] = h.lists[d] BY <1>2, <1>5
<1>8. g.lists[b] = Without1(h.lists[b], i) BY <1>1, <1>2, <1>5
<1>9. Len(g.lists[b]) = l - 1 /\ \A j \in 1 .. l - 1 : g.lists[b][j] = IF j = i + 1 THEN t ELSE h.lists[b][j]
    BY <1>6, <1>8
<1>10. \A x \in F : /\ bin[x] \in Bins /\ Fi(h, x) \in 0 .. Len(h.lists[bin[x]]) - 1
                     /\ h.lists[bin[x]][Fi(h, x) + 1] = x BY DEF Binned
<1>11. \A d \in Bins : \A j \in 1 .. Len(h.lists[d]) :
           h.lists[d][j] \in F /\ bin[h.lists[d][j]] = d /\ Fi(h, h.lists[d][j]) = j - 1 BY DEF Binned
<1>12. bin[e] = b /\ Fi(h, e) = i BY DEF b, i
<1>13. i < l - 1 => t # e BY <1>1, <1>3, <1>4, <1>12
<1>14. ASSUME NEW x \in G PROVE /\ bin[x] \in Bins /\ Fi(g, x) \in 0 .. Len(g.lists[bin[x]]) - 1
                                /\ g.lists[bin[x]][Fi(g, x) + 1] = x
    <2>1. x \in F /\ x # e /\ x \in 0 .. n - 1 OBVIOUS
    <2>2. CASE bin[x] # b
        <3>1. Fi(g, x) = Fi(h, x) BY <1>4, <1>5, <2>1, <2>2
        <3> QED BY <1>7, <1>10, <2>1, <2>2, <3>1
    <2>3. CASE bin[x] = b /\ x = t
        <3>1. i # l - 1 BY <1>1, <1>3, <2>1, <2>3 DEF t
        <3>2. i < l - 1 /\ i + 1 \in 1 .. l - 1 BY <1>1, <1>3, <3>1
        <3>3. Fi(g, x) = i BY <1>5, <2>1, <2>3, <3>2
        <3> QED BY <1>1, <1>9, <1>10, <2>1, <2>3, <3>2, <3>3
    <2>4. CASE bin[x] = b /\ x # t
        <3>1. Fi(g, x) = Fi(h, x) BY <1>5, <2>1, <2>4
        <3>2. Fi(h, x) \in 0 .. l - 1 /\ h.lists[b][Fi(h, x) + 1] = x BY <1>10, <2>1, <2>4 DEF l
        <3>3. Fi(h, x) # l - 1 BY <1>3, <2>4, <3>2 DEF t
        <3>4. Fi(h, x) + 1 # i + 1 BY <1>1, <2>1, <3>2
        <3> DEFINE y == Fi(h, x)
        <3>5. y + 1 \in 1 .. l - 1 /\ y \in 0 .. (l - 1) - 1
            <4>1. l \in Nat /\ y \in 0 .. l - 1 /\ y # l - 1 BY <1>3, <3>2, <3>3
            <4> HIDE DEF y
            <4> QED BY <4>1
        <3> HIDE DEF y
        <3>6. Fi(g, x) = y /\ h.lists[b][y + 1] = x /\ y + 1 # i + 1 BY <3>1, <3>2, <3>4 DEF y
        <3>7. g.lists[b][y + 1] = x BY <1>9, <3>5, <3>6
        <3> QED BY <1>1, <1>9, <2>4, <3>5, <3>6, <3>7
    <2> QED BY <2>2, <2>3, <2>4
<1>15. ASSUME NEW d \in Bins, NEW j \in 1 .. Len(g.lists[d])
       PROVE  g.lists[d][j] \in G /\ bin[g.lists[d][j]] = d /\ Fi(g, g.lists[d][j]) = j - 1
    <2>1. CASE d # b
        <3>1. g.lists[d] = h.lists[d] BY <1>7, <2>1
        <3> DEFINE x == h.lists[d][j]
        <3>2. x \in F /\ bin[x] = d /\ Fi(h, x) = j - 1 BY <1>11, <3>1
        <3>3. x # e /\ x # t /\ x \in 0 .. n - 1 BY <1>4, <1>12, <2>1, <3>2
        <3> HIDE DEF x
        <3>4. Fi(g, x) = j - 1 /\ x \in G BY <1>5, <3>2, <3>3
        <3> QED BY <3>1, <3>2, <3>4 DEF x
    <2>2. CASE d = b /\ j # i + 1
        <3>1. j \in 1 .. l - 1 /\ j \in 1 .. l BY <1>3, <1>9, <2>2
        <3>2. g.lists[d][j] = h.lists[b][j] BY <1>9, <2>2, <3>1
        <3> DEFINE x == h.lists[b][j]
        <3>3. x \in F /\ bin[x] = b /\ Fi(h, x) = j - 1 BY <1>1, <1>11, <3>1 DEF l
        <3>4. x # e /\ x # t /\ x \in 0 .. n - 1
            <4>1. j - 1 # l - 1 /\ j - 1 # i BY <1>1, <1>3, <2>2, <3>1
            <4> QED BY <1>4, <1>12, <3>3, <4>1
        <3> HIDE DEF x
        <3>5. Fi(g, x) = j - 1 /\ x \in G BY <1>5, <3>3, <3>4
        <3> QED BY <2>2, <3>2, <3>3, <3>5 DEF x
    <2>3. CASE d = b /\ j = i + 1
        <3>1. i < l - 1 BY <1>1, <1>3, <1>9, <2>3
        <3>2. g.lists[d][j] = t BY <1>9, <2>3
        <3>3. Fi(g, t) = i /\ t \in G BY <1>4, <1>5, <1>13, <3>1
        <3> QED BY <1>1, <1>4, <2>3, <3>2, <3>3
    <2> QED BY <2>1, <2>2, <2>3
<1>16. Binned(g, G, bin) BY <1>14, <1>15 DEF Binned
<1>17. ASSUME NEW x \in F, bin[x] # bin[e] PROVE Fi(g, x) = Fi(h, x)
    <2>1. x # t /\ x \in 0 .. n - 1 BY <1>4, <1>12, <1>17
    <2> QED BY <1>5, <2>1
<1> QED BY <1>5, <1>16, <1>17 DEF OffBins

\* Whether a heap is binned is seen from its lists and from what the listed
\* blocks say.
LEMMA BinnedAlike ==
    ASSUME NEW h, NEW g, NEW F, NEW bin, NEW c, Binned(h, F, bin), g.lists = h.lists,
           \A x \in F : Fi(g, x) = Fi(h, x) /\ c[x] = bin[x]
    PROVE  Binned(g, F, c)
BY DEF Binned

\* A heap after e was moved to the list of bin c[e].
Relisted(h, g, n, F, e, c) ==
    /\ Binned(g, F, c) /\ SameButLists(h, g, n)
    /\ \A x \in 0 .. n - 1 : x # e => Fr(g, x) = Fr(h, x)
    /\ Fr(g, e)

\* A block is moved to another list.
LEMMA RelistedBins ==
    ASSUME NEW n \in Nat, NEW h \in HeapsOf(n), NEW F, F \subseteq 0 .. n - 1, NEW bin, Binned(h, F, bin),
           NEW e \in F, NEW b \in Bins, b # bin[e], NEW c, \A x \in F : c[x] = IF x = e THEN b ELSE bin[x],
           NEW g, g = Unlisted(Listed(h, b, e), bin[e], Fi(h, e))
    PROVE  Relisted(h, g, n, F, e, c)
<1> DEFINE a == bin[e]
           i == Fi(h, e)
           l == Len(h.lists[a])
           t == h.lists[a][l]
           k == Listed(h, b, e)
           u == Unlisted(h, a, i)
           v == Listed(u, b, e)
<1>0. /\ k = Listed(h, b, e) /\ u = Unlisted(h, a, i) /\ v = Listed(u, b, e) /\ g = Unlisted(k, a, i)
      /\ a = bin[e] /\ i = Fi(h, e) OBVIOUS
<1>1. a \in Bins /\ i \in 0 .. l - 1 /\ h.lists[a][i + 1] = e BY DEF Binned
<1>2. h.lists \in [Bins -> Seq(Nat)] BY DEF HeapsOf
<1>3. h.lists[a] \in Seq(Nat) /\ l \in Nat /\ l > 0 /\ l \in 1 .. l BY <1>1, <1>2
<1>4. t \in F /\ bin[t] = a /\ Fi(h, t) = l - 1 /\ t \in 0 .. n - 1 BY <1>1, <1>3 DEF Binned
<1>5. (i < l - 1 => t # e) /\ e \in 0 .. n - 1 BY <1>3, <1>4
<1>15. l = Len(h.lists[a]) /\ t = h.lists[a][l] OBVIOUS
<1> HIDE DEF k, u, v, a, i, t, l
<1>6. /\ SameButLists(h, k, n) /\ Fr(k, e) /\ Fi(k, e) = Len(h.lists[b])
      /\ \A x \in 0 .. n - 1 : x # e => Fr(k, x) = Fr(h, x) /\ Fi(k, x) = Fi(h, x)
      /\ k.lists = [h.lists EXCEPT ![b] = Append(h.lists[b], e)]
    <2>1. OnList(h, k, n, b, e) BY <1>0, <1>5, ListedAs
    <2> QED BY <2>1 DEF OnList
<1>7. k \in HeapsOf(n) /\ k.lists[a] = h.lists[a] BY <1>0, <1>1, <1>2, <1>6 DEF SameButLists
<1>8. /\ SameButLists(k, g, n)
      /\ \A x \in 0 .. n - 1 : Fr(g, x) = Fr(k, x) /\ Fi(g, x) = IF i < l - 1 /\ x = t THEN i ELSE Fi(k, x)
      /\ g.lists = [k.lists EXCEPT ![a] = Without1(k.lists[a], i)]
    <2>1. i \in 0 .. Len(k.lists[a]) - 1 /\ t \in 0 .. n - 1 /\ t = k.lists[a][Len(k.lists[a])]
        BY <1>1, <1>4, <1>7, <1>15
    <2>3. i \in 0 .. Len(k.lists[a]) - 1 BY <2>1
    <2>4. t \in 0 .. n - 1 BY <2>1
    <2>5. t = k.lists[a][Len(k.lists[a])] BY <2>1
    <2>6. k \in HeapsOf(n) BY <1>7
    <2>7. a \in Bins BY <1>1
    <2>8. OffList(k, Unlisted(k, a, i), n, a, i, t) BY <2>3, <2>4, <2>5, <2>6, <2>7, UnlistedAs
    <2>2. OffList(k, g, n, a, i, t) BY <1>0, <2>8
    <2> QED BY <1>7, <1>15, <2>2 DEF OffList
<1>9. /\ SameButLists(h, u, n)
      /\ \A x \in 0 .. n - 1 : Fr(u, x) = Fr(h, x) /\ Fi(u, x) = IF i < l - 1 /\ x = t THEN i ELSE Fi(h, x)
      /\ u.lists = [h.lists EXCEPT ![a] = Without1(h.lists[a], i)]
    <2>1. i \in 0 .. Len(h.lists[a]) - 1 /\ t \in 0 .. n - 1 /\ t = h.lists[a][Len(h.lists[a])]
        BY <1>1, <1>4, <1>15
    <2>2. OffList(h, u, n, a, i, t) BY <1>0, <1>1, <2>1, UnlistedAs
    <2> QED BY <1>15, <2>2 DEF OffList
<1>10. u \in HeapsOf(n) BY <1>9 DEF SameButLists
<1>11. Binned(u, F \ {e}, bin)
    <2>1. OffBins(h, u, n, F, e, bin) BY <1>0, UnlistedBins
    <2> QED BY <2>1 DEF OffBins
<1>12. Binned(v, F, c)
    <2>1. \A x \in F \ {e} : c[x] = bin[x] BY <1>4
    <2>2. c[e] = b OBVIOUS
    <2>3. (F \ {e}) \cup {e} = F OBVIOUS
    <2>4. Binned(v, (F \ {e}) \cup {e}, c) BY <1>0, <1>10, <1>11, <2>1, <2>2, ListedBins
    <2> QED BY <2>3, <2>4
<1>13. /\ Fi(v, e) = Len(u.lists[b])
       /\ \A x \in 0 .. n - 1 : x # e => Fi(v, x) = Fi(u, x)
       /\ v.lists = [u.lists EXCEPT ![b] = Append(u.lists[b], e)]
    <2>1. OnList(u, v, n, b, e) BY <1>0, <1>5, <1>10, ListedAs
    <2> QED BY <2>1 DEF OnList
<1>14. g.lists = v.lists
    <2>1. u.lists[b] = h.lists[b] BY <1>0, <1>1, <1>2, <1>9
    <2>2. v.lists = [[h.lists EXCEPT ![a] = Without1(h.lists[a], i)] EXCEPT ![b] = Append(h.lists[b], e)]
        BY <1>9, <1>13, <2>1
    <2>3. g.lists = [[h.lists EXCEPT ![b] = Append(h.lists[b], e)] EXCEPT ![a] = Without1(h.lists[a], i)]
        BY <1>6, <1>7, <1>8
    <2>4. a # b BY <1>0
    <2> QED BY <1>2, <2>2, <2>3, <2>4
<1>16. \A x \in F : Fi(g, x) = Fi(v, x)
    <2> TAKE x \in F
    <2>1. x \in 0 .. n - 1 /\ e \in 0 .. n - 1 OBVIOUS
    <2>2. CASE x = e
        <3>1. u.lists[b] = h.lists[b] BY <1>0, <1>1, <1>2, <1>9
        <3> QED BY <1>5, <1>6, <1>8, <1>13, <2>1, <2>2, <3>1
    <2>3. CASE x # e BY <1>6, <1>8, <1>9, <1>13, <2>1, <2>3
    <2> QED BY <2>2, <2>3
<1>17. Binned(g, F, c) BY <1>12, <1>14, <1>16, BinnedAlike
<1>18. SameButLists(h, g, n) BY <1>6, <1>8 DEF SameButLists
<1>19. (\A x \in 0 .. n - 1 : x # e => Fr(g, x) = Fr(h, x)) /\ Fr(g, e) BY <1>6, <1>8
<1> QED BY <1>17, <1>18, <1>19 DEF Relisted

-----------------------------------------------------------------------------
(* Sizes and bins *)

\* Sizes that a heap can have are in a bin, which up to SmallBins they do not
\* share and otherwise tells them from what is more than twice as large.
LEMMA SizesInBins ==
    ASSUME NEW s \in 1 .. MaxHeapLen
    PROVE  /\ SizeToBin(s) \in Bins /\ SmallBins \in Nat \ {0}
           /\ s <= SmallBins => SizeToBin(s) = s - 1
           /\ s > SmallBins => /\ SizeToBin(s) = SmallBins + MaxLog2(s) - (Log2SmallBins + 1)
                               /\ SizeToBin(s) >= SmallBins
<1> DEFINE k == MaxLog2(s)
           m == MaxLog2(MaxHeapLen)
           L == Log2SmallBins
<1>1. /\ L \in Nat /\ NBins \in Nat /\ MaxHeapLen \in Nat /\ NBins >= SmallBins /\ SmallBins = Pow2[L]
      /\ NBins >= SmallBins + m - L BY HeapAssumption DEF SmallBins
<1>2. SmallBins \in Nat \ {0} BY <1>1, Powers
<1>3. s \in Nat /\ s > 0 /\ s <= MaxHeapLen BY <1>1
<1>4. k \in Nat /\ Pow2[k] >= s /\ (k = 0 \/ Pow2[k - 1] < s) BY <1>3, Log2
<1>5. m \in Nat /\ Pow2[m] >= MaxHeapLen BY <1>1, Log2
<1>6. CASE s <= SmallBins
    <2>1. SizeToBin(s) = s - 1 BY <1>6 DEF SizeToBin
    <2> QED BY <1>1, <1>2, <1>3, <1>6, <2>1 DEF Bins
<1>7. CASE s > SmallBins
    <2> HIDE DEF k, m, L
    <2>1. k > L
        <3> SUFFICES ASSUME k <= L PROVE FALSE BY <1>1, <1>4
        <3>1. Pow2[k] <= Pow2[L] /\ Pow2[k] \in Nat BY <1>1, <1>4, PowersGrow, Powers
        <3> QED BY <1>1, <1>2, <1>3, <1>4, <1>7, <3>1
    <2>2. k <= m
        <3> SUFFICES ASSUME k > m PROVE FALSE BY <1>4, <1>5
        <3>1. k - 1 \in Nat /\ m <= k - 1 /\ k # 0 BY <1>4, <1>5
        <3>2. Pow2[m] <= Pow2[k - 1] /\ Pow2[m] \in Nat /\ Pow2[k - 1] \in Nat BY <1>5, <3>1, PowersGrow, Powers
        <3> QED BY <1>1, <1>3, <1>4, <1>5, <3>1, <3>2
    <2> DEFINE bin == SmallBins + k - (L + 1)
    <2>3. bin \in Bins /\ bin >= SmallBins BY <1>1, <1>2, <1>4, <1>5, <2>1, <2>2 DEF Bins
    <2>4. ~ (s <= SmallBins) /\ ~ (bin >= NBins) BY <1>1, <1>2, <1>3, <1>7, <2>3 DEF Bins
    <2>5. SizeToBin(s) = bin BY <2>4 DEF SizeToBin, k, L
    <2> QED BY <1>2, <1>7, <2>3, <2>4, <2>5 DEF k, L
<1> QED BY <1>2, <1>3, <1>6, <1>7

\* Of two blocks one is not in the bin of both together.
LEMMA NotBothInBin ==
    ASSUME NEW x \in 1 .. MaxHeapLen, NEW y \in 1 .. MaxHeapLen, NEW s \in 1 .. MaxHeapLen, x + y <= s,
           SizeToBin(x) = SizeToBin(s)
    PROVE  SizeToBin(y) # SizeToBin(s)
<1> SUFFICES ASSUME SizeToBin(y) = SizeToBin(s) PROVE FALSE OBVIOUS
<1>0. SizeToBin(x) = SizeToBin(s) /\ SizeToBin(y) = SizeToBin(s) /\ x + y <= s OBVIOUS
<1>1. SmallBins \in Nat \ {0} /\ Log2SmallBins \in Nat /\ MaxHeapLen \in Nat BY SizesInBins, HeapAssumption
<1>2. x \in Nat /\ y \in Nat /\ s \in Nat /\ x > 0 /\ y > 0 BY <1>1
<1>3. CASE s <= SmallBins
    <2>1. x <= SmallBins /\ SizeToBin(x) = x - 1 /\ SizeToBin(s) = s - 1 BY <1>1, <1>2, <1>3, SizesInBins
    <2> DEFINE a == SizeToBin(x)
               c == SizeToBin(s)
    <2>2. a = x - 1 /\ c = s - 1 /\ a = c BY <1>0, <2>1
    <2> HIDE DEF a, c
    <2>3. x = s BY <1>2, <2>2
    <2> QED BY <1>2, <2>3
<1>4. CASE s > SmallBins
    <2>1. SizeToBin(s) >= SmallBins /\ SizeToBin(s) = SmallBins + MaxLog2(s) - (Log2SmallBins + 1)
        BY <1>4, SizesInBins
    <2>2. x > SmallBins /\ SizeToBin(x) = SmallBins + MaxLog2(x) - (Log2SmallBins + 1)
        <3>1. x <= SmallBins => SizeToBin(x) = x - 1 BY SizesInBins
        <3>2. x > SmallBins BY <1>1, <1>2, <2>1, <3>1
        <3> QED BY <3>2, SizesInBins
    <2>3. y > SmallBins /\ SizeToBin(y) = SmallBins + MaxLog2(y) - (Log2SmallBins + 1)
        <3>1. y <= SmallBins => SizeToBin(y) = y - 1 BY SizesInBins
        <3>2. y > SmallBins BY <1>1, <1>2, <2>1, <3>1
        <3> QED BY <3>2, SizesInBins
    <2> DEFINE k == MaxLog2(s)
    <2>4. /\ k \in Nat /\ Pow2[k] >= s
          /\ MaxLog2(x) \in Nat /\ MaxLog2(y) \in Nat
          /\ (MaxLog2(x) = 0 \/ Pow2[MaxLog2(x) - 1] < x) /\ (MaxLog2(y) = 0 \/ Pow2[MaxLog2(y) - 1] < y)
        BY <1>2, Log2
    <2>5. MaxLog2(x) = k /\ MaxLog2(y) = k BY <1>1, <2>1, <2>2, <2>3, <2>4
    <2> HIDE DEF k
    <2>6. CASE k = 0
        <3>1. Pow2[k] = 1 BY <2>6, Powers
        <3> QED BY <1>2, <2>4, <3>1
    <2>7. CASE k # 0
        <3>1. k - 1 \in Nat /\ (k - 1) + 1 = k BY <2>4, <2>7
        <3>2. Pow2[k] = 2 * Pow2[k - 1] /\ Pow2[k - 1] \in Nat BY <3>1, Powers
        <3>3. Pow2[k - 1] < x /\ Pow2[k - 1] < y BY <2>4, <2>5, <2>7
        <3> QED BY <1>2, <2>4, <3>2, <3>3
    <2> QED BY <2>6, <2>7
<1> QED BY <1>1, <1>2, <1>3, <1>4

-----------------------------------------------------------------------------
(* A free block goes *)

\* A heap after the free block e was taken from its list and from the chain.
Removed(h, g, e, F, bin, m) ==
    /\ WellFormed(g, m) /\ Inside(g) = Inside(h) \ {e} /\ Linked(g, Inside(g)) /\ g.len = h.len
    /\ \A x \in Inside(g) :
           /\ Of(g, x) = Of(h, x) /\ Fr(g, x) = Fr(h, x)
           /\ Nx(g, x) = IF Nx(h, x) = e THEN (IF Nx(h, e) = e THEN x ELSE Nx(h, e)) ELSE Nx(h, x)
           /\ Pv(g, x) = IF Pv(h, x) = e THEN (IF Pv(h, e) = e THEN x ELSE Pv(h, e)) ELSE Pv(h, x)
    /\ Binned(g, F \ {e}, bin)
    /\ \A x \in F \ {e} : bin[x] # bin[e] => Fi(g, x) = Fi(h, x)

\* What combine_free_blocks does with a block it does not keep.
LEMMA RemovedIs ==
    ASSUME NEW n \in Nat, NEW h, WellFormed(h, n), Linked(h, Inside(h)), NEW F, F \subseteq Inside(h), NEW bin,
           Binned(h, F, bin), NEW e \in F, bin[e] = SizeToBin(Size(h, e)), Nx(h, e) # Pv(h, e), NEW found
    PROVE  \E m \in Nat : Removed(h, DeleteElt(UnlistedNow(h, found, e), e), e, F, bin, m)
<1> DEFINE u == UnlistedNow(h, found, e)
           g == DeleteElt(u, e)
<1>1. Inside(h) \subseteq 0 .. n - 1 /\ h \in HeapsOf(n) BY InsideIs DEF WellFormed
<1>2. u = Unlisted(h, bin[e], Fi(h, e)) BY DEF UnlistedNow, Fi
<1>3. F \subseteq 0 .. n - 1 BY <1>1
<1> HIDE DEF u
<1>4. /\ Binned(u, F \ {e}, bin) /\ SameButLists(h, u, n)
      /\ \A x \in 0 .. n - 1 : Fr(u, x) = Fr(h, x)
      /\ \A x \in F : bin[x] # bin[e] => Fi(u, x) = Fi(h, x)
    <2>1. OffBins(h, u, n, F, e, bin) BY <1>1, <1>2, <1>3, UnlistedBins
    <2> QED BY <2>1 DEF OffBins
<1>5. WellFormed(u, n) /\ Inside(u) = Inside(h) /\ Linked(u, Inside(h)) BY <1>4, ListsAside
<1>6. \A x \in 0 .. n - 1 : Of(u, x) = Of(h, x) /\ Nx(u, x) = Nx(h, x) /\ Pv(u, x) = Pv(h, x)
    BY <1>4 DEF SameButLists
<1>7. Nx(u, e) # Pv(u, e) /\ e \in Inside(u) /\ Linked(u, Inside(u)) BY <1>1, <1>5, <1>6
<1>8. PICK m \in Nat : Dropped(u, g, e, m) BY <1>5, <1>7, DeleteEltIs
<1> HIDE DEF g
<1>9. /\ WellFormed(g, m) /\ Inside(g) = Inside(h) \ {e} /\ Linked(g, Inside(g)) /\ g.len = h.len
      /\ g.lists = u.lists
      /\ \A x \in Inside(g) :
           /\ Of(g, x) = Of(u, x) /\ Fr(g, x) = Fr(u, x) /\ Fi(g, x) = Fi(u, x)
           /\ Nx(g, x) = IF Nx(u, x) = e THEN (IF Nx(u, e) = e THEN x ELSE Nx(u, e)) ELSE Nx(u, x)
           /\ Pv(g, x) = IF Pv(u, x) = e THEN (IF Pv(u, e) = e THEN x ELSE Pv(u, e)) ELSE Pv(u, x)
    BY <1>4, <1>5, <1>8 DEF Dropped, SameButLists
<1>10. e \in 0 .. n - 1 /\ \A x \in Inside(g) : x \in 0 .. n - 1 BY <1>1, <1>9
<1>11. \A x \in F \ {e} : x \in Inside(g) BY <1>9
<1>12. Binned(g, F \ {e}, bin) BY <1>4, <1>9, <1>11, BinnedAlike
<1>13. \A x \in F \ {e} : bin[x] # bin[e] => Fi(g, x) = Fi(h, x) BY <1>4, <1>9, <1>11
<1>14. \A x \in Inside(g) :
           /\ Of(g, x) = Of(h, x) /\ Fr(g, x) = Fr(h, x)
           /\ Nx(g, x) = IF Nx(h, x) = e THEN (IF Nx(h, e) = e THEN x ELSE Nx(h, e)) ELSE Nx(h, x)
           /\ Pv(g, x) = IF Pv(h, x) = e THEN (IF Pv(h, e) = e THEN x ELSE Pv(h, e)) ELSE Pv(h, x)
    BY <1>4, <1>6, <1>9, <1>10
<1>15. Removed(h, g, e, F, bin, m) BY <1>9, <1>12, <1>13, <1>14 DEF Removed
<1> QED BY <1>15 DEF g, u

\* The blocks of h from a to z are the block k of g.
Merged(h, g, a, z, k) ==
    /\ k \in Inside(g)
    /\ Nx(g, k) = IF Nx(h, z) = z THEN k ELSE Nx(h, z)
    /\ Pv(g, k) = IF Pv(h, a) = a THEN k ELSE Pv(h, a)
    /\ \A x \in Inside(g) \ {k} :
           /\ x \in Inside(h)
           /\ Nx(g, x) = IF Nx(h, x) = a THEN k ELSE Nx(h, x)
           /\ Pv(g, x) = IF Pv(h, x) = z THEN k ELSE Pv(h, x)
    /\ \A x \in Inside(g) \cap Inside(h) : Of(g, x) = Of(h, x) /\ Fr(g, x) = Fr(h, x)

\* A block is its own.
LEMMA MergedFirst ==
    ASSUME NEW h, Linked(h, Inside(h)), NEW a \in Inside(h)
    PROVE  Merged(h, h, a, a, a)
BY DEF Merged, Linked

\* The next block goes.
LEMMA MergedNext ==
    ASSUME NEW h, NEW g, Linked(h, Inside(h)), Linked(g, Inside(g)), NEW a \in Inside(h), NEW z \in Inside(h), NEW k,
           Merged(h, g, a, z, k), NEW e, e = Nx(h, z), e # z, e # k, e \in Inside(h), e \in Inside(g),
           Nx(h, e) # a, NEW r, NEW F, NEW bin, NEW m, Removed(g, r, e, F, bin, m)
    PROVE  Merged(h, r, a, e, k)
<1>1. /\ k \in Inside(g) /\ Nx(g, k) = e
      /\ Pv(g, k) = IF Pv(h, a) = a THEN k ELSE Pv(h, a)
      /\ \A x \in Inside(g) \ {k} :
           /\ x \in Inside(h)
           /\ Nx(g, x) = IF Nx(h, x) = a THEN k ELSE Nx(h, x)
           /\ Pv(g, x) = IF Pv(h, x) = z THEN k ELSE Pv(h, x)
      /\ \A x \in Inside(g) \cap Inside(h) : Of(g, x) = Of(h, x) /\ Fr(g, x) = Fr(h, x)
    BY DEF Merged
<1>2. /\ Inside(r) = Inside(g) \ {e}
      /\ \A x \in Inside(r) :
           /\ Of(r, x) = Of(g, x) /\ Fr(r, x) = Fr(g, x)
           /\ Nx(r, x) = IF Nx(g, x) = e THEN (IF Nx(g, e) = e THEN x ELSE Nx(g, e)) ELSE Nx(g, x)
           /\ Pv(r, x) = IF Pv(g, x) = e THEN (IF Pv(g, e) = e THEN x ELSE Pv(g, e)) ELSE Pv(g, x)
    BY DEF Removed
<1>3. /\ \A x \in Inside(g) : Nx(g, x) # x => Pv(g, Nx(g, x)) = x
      /\ \A x \in Inside(h) : Nx(h, x) # x => Pv(h, Nx(h, x)) = x
      /\ \A x \in Inside(h) : Pv(h, x) # x => Nx(h, Pv(h, x)) = x
      /\ \A x \in Inside(h) : Pv(h, x) \in Inside(h) BY DEF Linked
<1>4. Pv(g, e) = k BY <1>1, <1>3
<1>5. Pv(h, e) = z BY <1>3
<1>6. Nx(g, e) = Nx(h, e) BY <1>1
<1>7. k \in Inside(r) /\ Nx(r, k) = IF Nx(h, e) = e THEN k ELSE Nx(h, e) BY <1>1, <1>2, <1>6
<1>8. Pv(g, k) # e
    <2>1. CASE Pv(h, a) = a BY <1>1, <2>1
    <2>2. CASE Pv(h, a) # a
        <3>1. Pv(h, a) = e => Nx(h, e) = a BY <1>3, <2>2
        <3> QED BY <1>1, <2>2, <3>1
    <2> QED BY <2>1, <2>2
<1>9. Pv(r, k) = IF Pv(h, a) = a THEN k ELSE Pv(h, a) BY <1>1, <1>2, <1>7, <1>8
<1>10. ASSUME NEW x \in Inside(r) \ {k}
       PROVE  /\ x \in Inside(h)
              /\ Nx(r, x) = IF Nx(h, x) = a THEN k ELSE Nx(h, x)
              /\ Pv(r, x) = IF Pv(h, x) = e THEN k ELSE Pv(h, x)
    <2>1. x \in Inside(g) /\ x # e /\ x # k /\ x \in Inside(h) BY <1>1, <1>2
    <2>2. Nx(g, x) # e BY <1>3, <1>4, <2>1
    <2>3. Nx(r, x) = Nx(g, x) BY <1>2, <2>2
    <2>4. Pv(h, x) = z => x = z
        <3>1. Pv(h, x) = z /\ x # z => Nx(h, z) = x BY <1>3, <2>1
        <3> QED BY <2>1, <3>1
    <2>5. Pv(h, x) # z
        <3> SUFFICES ASSUME Pv(h, x) = z PROVE FALSE OBVIOUS
        <3>1. Pv(g, x) = k /\ x = z BY <1>1, <2>1, <2>4
        <3>2. Linked(g, Inside(g)) => Nx(g, k) = x BY <2>1, <3>1 DEF Linked
        <3> QED BY <1>1, <2>1, <3>2
    <2>6. Pv(g, x) = Pv(h, x) BY <1>1, <2>1, <2>5
    <2>7. Pv(r, x) = IF Pv(h, x) = e THEN (IF Pv(g, e) = e THEN x ELSE Pv(g, e)) ELSE Pv(h, x) BY <1>2, <2>6
    <2>8. Pv(r, x) = IF Pv(h, x) = e THEN k ELSE Pv(h, x) BY <1>4, <2>7
    <2> QED BY <1>1, <2>1, <2>3, <2>8
<1>11. \A x \in Inside(r) \cap Inside(h) : Of(r, x) = Of(h, x) /\ Fr(r, x) = Fr(h, x) BY <1>1, <1>2
<1> QED BY <1>7, <1>9, <1>10, <1>11 DEF Merged

\* The block itself goes, and the next one stands for it.
LEMMA MergedIntoNext ==
    ASSUME NEW h, NEW g, Linked(h, Inside(h)), Linked(g, Inside(g)), NEW a \in Inside(h), NEW k \in Inside(h),
           Merged(h, g, a, k, k), NEW e, e = Nx(h, k), e # k, e \in Inside(h), e \in Inside(g),
           Nx(h, e) # a, Pv(h, a) # k \/ k = a, NEW r, NEW F, NEW bin, NEW m, Removed(g, r, k, F, bin, m)
    PROVE  Merged(h, r, a, e, e)
<1>1. /\ k \in Inside(g) /\ Nx(g, k) = e
      /\ Pv(g, k) = IF Pv(h, a) = a THEN k ELSE Pv(h, a)
      /\ \A x \in Inside(g) \ {k} :
           /\ x \in Inside(h)
           /\ Nx(g, x) = IF Nx(h, x) = a THEN k ELSE Nx(h, x)
           /\ Pv(g, x) = IF Pv(h, x) = k THEN k ELSE Pv(h, x)
      /\ \A x \in Inside(g) \cap Inside(h) : Of(g, x) = Of(h, x) /\ Fr(g, x) = Fr(h, x)
    BY DEF Merged
<1>2. /\ Inside(r) = Inside(g) \ {k}
      /\ \A x \in Inside(r) :
           /\ Of(r, x) = Of(g, x) /\ Fr(r, x) = Fr(g, x)
           /\ Nx(r, x) = IF Nx(g, x) = k THEN (IF Nx(g, k) = k THEN x ELSE Nx(g, k)) ELSE Nx(g, x)
           /\ Pv(r, x) = IF Pv(g, x) = k THEN (IF Pv(g, k) = k THEN x ELSE Pv(g, k)) ELSE Pv(g, x)
    BY DEF Removed
<1>3. /\ \A x \in Inside(g) : Nx(g, x) # x => Pv(g, Nx(g, x)) = x
      /\ \A x \in Inside(g) : Pv(g, x) # x => Nx(g, Pv(g, x)) = x
      /\ \A x \in Inside(h) : Nx(h, x) # x => Pv(h, Nx(h, x)) = x
      /\ \A x \in Inside(h) : Pv(h, x) # x => Nx(h, Pv(h, x)) = x
      /\ \A x \in Inside(h) : Pv(h, x) \in Inside(h) /\ Nx(h, x) \in Inside(h) BY DEF Linked
<1>4. Pv(g, e) = k BY <1>1, <1>3
<1>5. Pv(h, e) = k BY <1>3
<1>6. Nx(g, e) = Nx(h, e) BY <1>1
<1>7. e \in Inside(r) /\ Nx(r, e) = IF Nx(h, e) = e THEN e ELSE Nx(h, e)
    <2>1. Nx(g, e) # k
        <3>1. Nx(g, e) = k => Pv(g, k) = e BY <1>3
        <3>2. Pv(h, a) # a => Pv(h, a) # e BY <1>3
        <3> QED BY <1>1, <3>1, <3>2
    <2> QED BY <1>2, <1>6, <2>1
<1>8. Pv(r, e) = IF Pv(h, a) = a THEN e ELSE Pv(h, a)
    <2>1. Pv(r, e) = IF Pv(g, k) = k THEN e ELSE Pv(g, k) BY <1>2, <1>4, <1>7
    <2>2. Pv(h, a) # a => Pv(h, a) # k OBVIOUS
    <2> QED BY <1>1, <2>1, <2>2
<1>10. ASSUME NEW x \in Inside(r) \ {e}
       PROVE  /\ x \in Inside(h)
              /\ Nx(r, x) = IF Nx(h, x) = a THEN e ELSE Nx(h, x)
              /\ Pv(r, x) = IF Pv(h, x) = e THEN e ELSE Pv(h, x)
    <2>1. x \in Inside(g) /\ x # e /\ x # k /\ x \in Inside(h) BY <1>1, <1>2
    <2>2. Pv(g, x) # k BY <1>1, <1>3, <2>1
    <2>3. Pv(h, x) # k BY <1>1, <2>1, <2>2
    <2>4. Pv(r, x) = Pv(h, x) BY <1>1, <1>2, <2>1, <2>2, <2>3
    <2>5. CASE Nx(h, x) = a
        <3>1. Nx(g, x) = k BY <1>1, <2>1, <2>5
        <3>2. Nx(r, x) = e BY <1>1, <1>2, <3>1
        <3> QED BY <2>1, <2>4, <2>5, <3>2
    <2>6. CASE Nx(h, x) # a
        <3>1. Nx(g, x) = Nx(h, x) BY <1>1, <2>1, <2>6
        <3>2. Nx(g, x) # k
            <4>1. Nx(g, x) = k => Pv(g, k) = x BY <1>3, <2>1
            <4>2. Pv(g, k) # x
                <5>1. Pv(g, k) = x => Pv(h, a) = x /\ x # a BY <1>1, <1>3, <2>1, <2>6
                <5> QED BY <1>3, <2>6, <5>1
            <4> QED BY <4>1, <4>2
        <3>3. Nx(r, x) = Nx(h, x) BY <1>2, <3>1, <3>2
        <3> QED BY <2>1, <2>4, <2>6, <3>3
    <2> QED BY <2>1, <2>4, <2>5, <2>6
<1>11. \A x \in Inside(r) \cap Inside(h) : Of(r, x) = Of(h, x) /\ Fr(r, x) = Fr(h, x) BY <1>1, <1>2
<1> QED BY <1>7, <1>8, <1>10, <1>11 DEF Merged

-----------------------------------------------------------------------------
(* Sound heaps *)

FreeIn(h) == {e \in Inside(h) : Fr(h, e)}
BinsOf(h) == [e \in Inside(h) |-> SizeToBin(Size(h, e))]

\* The blocks follow each other from the beginning of the vector to its end.
Placed(h) ==
    /\ Of(h, h.head) = 0
    /\ \A e \in Inside(h) : Of(h, e) < h.len /\ (Nx(h, e) # e => Of(h, e) < Of(h, Nx(h, e)))

\* A heap with a block.
Sound(h) ==
    /\ \E n \in Nat : WellFormed(h, n)
    /\ Linked(h, Inside(h)) /\ Placed(h) /\ h.len <= MaxHeapLen
    /\ Binned(h, FreeIn(h), BinsOf(h))

\* Where a block ends.
LEMMA SizeIs ==
    ASSUME NEW h, NEW e
    PROVE  Size(h, e) = (IF Nx(h, e) = e THEN h.len ELSE Of(h, Nx(h, e))) - Of(h, e)
BY DEF Size, Nx, Of

\* What the code takes for granted of links and offsets.
LEMMA SoundIs ==
    ASSUME NEW h, Sound(h)
    PROVE  /\ h.len \in Nat /\ h.len <= MaxHeapLen /\ MaxHeapLen \in Nat
           /\ h.head \in Inside(h) /\ h.tail \in Inside(h) /\ Of(h, h.head) = 0
           /\ \A e \in Inside(h) : /\ Nx(h, e) \in Inside(h) /\ Pv(h, e) \in Inside(h)
                                   /\ Of(h, e) \in Nat /\ Of(h, e) < h.len
                                   /\ (Nx(h, e) # e => Of(h, e) < Of(h, Nx(h, e)) /\ Pv(h, Nx(h, e)) = e)
                                   /\ (Pv(h, e) # e => Of(h, Pv(h, e)) < Of(h, e) /\ Nx(h, Pv(h, e)) = e)
                                   /\ Fr(h, e) \in BOOLEAN
<1>1. PICK n \in Nat : WellFormed(h, n) BY DEF Sound
<1>2. Inside(h) \subseteq 0 .. n - 1 /\ h.elts \in [0 .. n - 1 -> Blocks] BY <1>1, InsideIs
<1>3. h.len \in Nat BY <1>1 DEF WellFormed, HeapsOf
<1>4. /\ h.head \in Inside(h) /\ h.tail \in Inside(h)
      /\ \A e \in Inside(h) : /\ Nx(h, e) \in Inside(h) /\ Pv(h, e) \in Inside(h)
                              /\ Nx(h, e) # e => Pv(h, Nx(h, e)) = e
                              /\ Pv(h, e) # e => Nx(h, Pv(h, e)) = e BY DEF Sound, Linked
<1>5. \A e \in Inside(h) : Of(h, e) \in Nat /\ Fr(h, e) \in BOOLEAN BY <1>2 DEF Blocks, Of, Fr
<1>6. /\ Of(h, h.head) = 0
      /\ \A e \in Inside(h) : Of(h, e) < h.len /\ (Nx(h, e) # e => Of(h, e) < Of(h, Nx(h, e)))
    BY DEF Sound, Placed
<1>7. MaxHeapLen \in Nat /\ h.len <= MaxHeapLen BY HeapAssumption DEF Sound
<1>8. ASSUME NEW e \in Inside(h), Pv(h, e) # e PROVE Of(h, Pv(h, e)) < Of(h, e)
    <2> DEFINE p == Pv(h, e)
    <2>1. p \in Inside(h) /\ Nx(h, p) = e BY <1>4, <1>8
    <2> HIDE DEF p
    <2>2. Nx(h, p) # p BY <1>8, <2>1 DEF p
    <2>3. Of(h, p) < Of(h, e) BY <1>6, <2>1, <2>2
    <2> QED BY <2>3 DEF p
<1> QED BY <1>3, <1>4, <1>5, <1>6, <1>7, <1>8

\* Sizes.
LEMMA SoundSizes ==
    ASSUME NEW h, Sound(h), NEW e \in Inside(h)
    PROVE  Size(h, e) \in 1 .. MaxHeapLen /\ SizeToBin(Size(h, e)) \in Bins
<1> DEFINE s == (IF Nx(h, e) = e THEN h.len ELSE Of(h, Nx(h, e))) - Of(h, e)
<1>1. Size(h, e) = s BY SizeIs
<1>2. s \in 1 .. MaxHeapLen
    <2>1. /\ h.len \in Nat /\ h.len <= MaxHeapLen /\ MaxHeapLen \in Nat
          /\ Nx(h, e) \in Inside(h) /\ Of(h, e) \in Nat /\ Of(h, e) < h.len
          /\ (Nx(h, e) # e => Of(h, e) < Of(h, Nx(h, e))) BY SoundIs
    <2>2. Of(h, Nx(h, e)) \in Nat /\ Of(h, Nx(h, e)) < h.len BY <2>1, SoundIs
    <2> QED BY <2>1, <2>2
<1> HIDE DEF s
<1> QED BY <1>1, <1>2, SizesInBins

-----------------------------------------------------------------------------
(* Merging *)

\* The blocks from a to z of h are block k of g, the old blocks of D are gone,
\* and those of bin t are still where they were in the heap start.
Joining(h, g, start, a, z, k, D, bin, t) ==
    /\ \E m \in Nat : WellFormed(g, m)
    /\ Linked(g, Inside(g)) /\ g.len = h.len
    /\ Inside(g) = (Inside(h) \ D) \cup {k}
    /\ Binned(g, (FreeIn(h) \ D) \cup {k}, bin)
    /\ Fr(g, k) /\ Merged(h, g, a, z, k)
    /\ \A x \in (FreeIn(h) \ D) \cup {k} : bin[x] = t => Fi(g, x) = Fi(start, x)

\* Sizes are known for the blocks of h.
Measured(h, bin) == \A x \in FreeIn(h) : bin[x] = SizeToBin(Size(h, x))

\* The first block, when it or one after it is kept.
LEMMA JoiningFirst ==
    ASSUME NEW h, Sound(h), NEW a \in FreeIn(h), NEW bin, Measured(h, bin), NEW t
    PROVE  Joining(h, h, h, a, a, a, {}, bin, t)
<1>1. FreeIn(h) \subseteq Inside(h) /\ a \in Inside(h) /\ Fr(h, a) BY DEF FreeIn
<1>2. \A x \in FreeIn(h) : Fi(h, x) = Fi(h, x) /\ bin[x] = BinsOf(h)[x] BY <1>1 DEF Measured, BinsOf
<1>3. Binned(h, FreeIn(h), bin)
    <2>1. Binned(h, FreeIn(h), BinsOf(h)) /\ h.lists = h.lists BY DEF Sound
    <2> QED BY <1>2, <2>1, BinnedAlike
<1>4. Linked(h, Inside(h)) BY DEF Sound
<1>5. Merged(h, h, a, a, a) BY <1>1, <1>4, MergedFirst
<1>6. (FreeIn(h) \ {}) \cup {a} = FreeIn(h) /\ (Inside(h) \ {}) \cup {a} = Inside(h) BY <1>1
<1> QED BY <1>1, <1>3, <1>4, <1>5, <1>6 DEF Joining, Sound

\* The next block goes.
LEMMA JoiningNext ==
    ASSUME NEW h, Sound(h), NEW bin, Measured(h, bin), NEW t, NEW g, NEW start, NEW a \in Inside(h), NEW z \in Inside(h),
           NEW k, NEW D, Joining(h, g, start, a, z, k, D, bin, t), NEW e \in FreeIn(h), e \notin D, e # k, e # z,
           e = Nx(h, z), Nx(h, e) # a, Nx(h, e) # k, bin[e] # t, NEW found
    PROVE  Joining(h, DeleteElt(UnlistedNow(g, found, e), e), start, a, e, k, D \cup {e}, bin, t)
<1> DEFINE r == DeleteElt(UnlistedNow(g, found, e), e)
           F == (FreeIn(h) \ D) \cup {k}
           G == (FreeIn(h) \ (D \cup {e})) \cup {k}
<1>1. /\ Linked(g, Inside(g)) /\ g.len = h.len
      /\ Inside(g) = (Inside(h) \ D) \cup {k}
      /\ Binned(g, F, bin)
      /\ Fr(g, k) /\ Merged(h, g, a, z, k)
      /\ \A x \in F : bin[x] = t => Fi(g, x) = Fi(start, x) BY DEF Joining
<1>2. PICK n \in Nat : WellFormed(g, n) BY DEF Joining
<1>3. e \in Inside(h) /\ e \in Inside(g) /\ F \subseteq Inside(g) /\ e \in F /\ k \in F BY <1>1 DEF FreeIn
<1>4. Linked(h, Inside(h)) BY DEF Sound
<1>5. /\ Nx(g, k) = e /\ Nx(g, e) = Nx(h, e)
      /\ \A x \in Inside(g) \cap Inside(h) : Of(g, x) = Of(h, x) BY <1>1, <1>3 DEF Merged
<1>6. Nx(h, e) \in Inside(h) /\ Nx(h, e) \in Inside(g) BY <1>1, <1>3, <1>4, <1>5 DEF Linked
<1>7. Size(g, e) = Size(h, e) BY <1>1, <1>3, <1>5, <1>6, SizeIs
<1>8. bin[e] = SizeToBin(Size(g, e)) BY <1>7 DEF Measured
<1>9. Pv(g, e) = k BY <1>1, <1>3, <1>5 DEF Linked, Merged
<1>10. Nx(g, e) # Pv(g, e) BY <1>5, <1>9
<1> HIDE DEF F
<1>11. PICK m \in Nat : Removed(g, r, e, F, bin, m) BY <1>1, <1>2, <1>3, <1>8, <1>10, RemovedIs
<1> HIDE DEF r
<1>12. Merged(h, r, a, e, k) BY <1>1, <1>3, <1>4, <1>11, MergedNext
<1>13. /\ WellFormed(r, m) /\ Inside(r) = Inside(g) \ {e} /\ Linked(r, Inside(r)) /\ r.len = h.len
       /\ \A x \in Inside(r) : Fr(r, x) = Fr(g, x)
       /\ Binned(r, F \ {e}, bin)
       /\ \A x \in F \ {e} : bin[x] # bin[e] => Fi(r, x) = Fi(g, x) BY <1>1, <1>11 DEF Removed
<1>14. F \ {e} = G BY DEF F
<1>15. Inside(r) = (Inside(h) \ (D \cup {e})) \cup {k} /\ k \in Inside(r) BY <1>1, <1>13
<1>16. \A x \in G : bin[x] = t => Fi(r, x) = Fi(start, x) BY <1>1, <1>13, <1>14
<1>17. Fr(r, k) BY <1>1, <1>13, <1>15
<1>18. Joining(h, r, start, a, e, k, D \cup {e}, bin, t)
    BY <1>12, <1>13, <1>14, <1>15, <1>16, <1>17 DEF Joining
<1> QED BY <1>18 DEF r

\* The block itself goes, and the next one stands for it.
LEMMA JoiningIntoNext ==
    ASSUME NEW h, Sound(h), NEW bin, Measured(h, bin), NEW t, NEW g, NEW start, NEW a \in Inside(h), NEW k \in FreeIn(h),
           NEW D, Joining(h, g, start, a, k, k, D, bin, t), NEW e \in FreeIn(h), k \notin D, e \notin D, e # k,
           e = Nx(h, k), Nx(h, e) # a, Pv(h, a) # k \/ k = a, bin[k] # t, NEW found
    PROVE  Joining(h, DeleteElt(UnlistedNow(g, found, k), k), start, a, e, e, D \cup {k}, bin, t)
<1> DEFINE r == DeleteElt(UnlistedNow(g, found, k), k)
           F == (FreeIn(h) \ D) \cup {k}
           G == (FreeIn(h) \ (D \cup {k})) \cup {e}
<1>1. /\ Linked(g, Inside(g)) /\ g.len = h.len
      /\ Inside(g) = (Inside(h) \ D) \cup {k}
      /\ Binned(g, F, bin)
      /\ Fr(g, k) /\ Merged(h, g, a, k, k)
      /\ \A x \in F : bin[x] = t => Fi(g, x) = Fi(start, x) BY DEF Joining
<1>2. PICK n \in Nat : WellFormed(g, n) BY DEF Joining
<1>3. /\ e \in Inside(h) /\ e \in Inside(g) /\ F \subseteq Inside(g) /\ e \in F /\ k \in F /\ Fr(h, e)
      /\ k \in Inside(h) /\ k \in Inside(g) BY <1>1 DEF FreeIn
<1>4. Linked(h, Inside(h)) BY DEF Sound
<1>5. /\ Nx(g, k) = e /\ Pv(g, k) = (IF Pv(h, a) = a THEN k ELSE Pv(h, a))
      /\ \A x \in Inside(g) \cap Inside(h) : Of(g, x) = Of(h, x) /\ Fr(g, x) = Fr(h, x) BY <1>1, <1>3 DEF Merged
<1>7. Size(g, k) = Size(h, k) BY <1>1, <1>3, <1>5, SizeIs
<1>8. bin[k] = SizeToBin(Size(g, k)) BY <1>7 DEF Measured
<1>9. Pv(h, a) # a => Pv(h, a) # e
    <2>1. Pv(h, a) # a => Nx(h, Pv(h, a)) = a BY <1>4 DEF Linked
    <2> QED BY <2>1
<1>10. Nx(g, k) # Pv(g, k) BY <1>5, <1>9
<1> HIDE DEF F
<1>11. PICK m \in Nat : Removed(g, r, k, F, bin, m) BY <1>1, <1>2, <1>3, <1>8, <1>10, RemovedIs
<1> HIDE DEF r
<1>12. Merged(h, r, a, e, e) BY <1>1, <1>3, <1>4, <1>11, MergedIntoNext
<1>13. /\ WellFormed(r, m) /\ Inside(r) = Inside(g) \ {k} /\ Linked(r, Inside(r)) /\ r.len = h.len
       /\ \A x \in Inside(r) : Fr(r, x) = Fr(g, x)
       /\ Binned(r, F \ {k}, bin)
       /\ \A x \in F \ {k} : bin[x] # bin[k] => Fi(r, x) = Fi(g, x) BY <1>1, <1>11 DEF Removed
<1>14. F \ {k} = G BY DEF F
<1>15. Inside(r) = (Inside(h) \ (D \cup {k})) \cup {e} /\ e \in Inside(r) BY <1>1, <1>3, <1>13
<1>16. \A x \in G : bin[x] = t => Fi(r, x) = Fi(start, x) BY <1>1, <1>13, <1>14
<1>17. Fr(r, e) BY <1>3, <1>5, <1>13, <1>15
<1>18. Joining(h, r, start, a, e, e, D \cup {k}, bin, t)
    BY <1>12, <1>13, <1>14, <1>15, <1>16, <1>17 DEF Joining
<1> QED BY <1>18 DEF r

-----------------------------------------------------------------------------
(* New blocks *)

\* A heap after a new block was put before a.
PutBefore(h, g, a, new, o, m) ==
    /\ WellFormed(g, m) /\ new \in 0 .. m - 1 /\ new \notin Inside(h) /\ Inside(g) = Inside(h) \cup {new}
    /\ Linked(g, Inside(g)) /\ g.lists = h.lists /\ g.len = h.len
    /\ Of(g, new) = o /\ ~ Fr(g, new) /\ Nx(g, new) = a
    /\ Pv(g, new) = (IF Pv(h, a) = a THEN new ELSE Pv(h, a))
    /\ \A x \in Inside(h) :
           /\ Of(g, x) = Of(h, x) /\ Fr(g, x) = Fr(h, x) /\ Fi(g, x) = Fi(h, x)
           /\ Nx(g, x) = (IF Nx(h, x) = a /\ x # a THEN new ELSE Nx(h, x))
           /\ Pv(g, x) = (IF x = a THEN new ELSE Pv(h, x))

\* elt_insert_before, with an element of its own.
LEMMA PutBeforeIs ==
    ASSUME NEW n \in Nat, NEW h, WellFormed(h, n), Linked(h, Inside(h)), NEW a \in Inside(h), NEW o \in Nat
    PROVE  \E m \in Nat : PutBefore(h, InsertBefore(WithElt(h, o), a, NewElt(h)), a, NewElt(h), o, m)
<1> DEFINE new == NewElt(h)
           s == WithElt(h, o)
           g == InsertBefore(s, a, new)
<1>1. PICK m \in Nat : m >= n /\ Grown(h, s, new, o, m) BY WithEltIs
<1> HIDE DEF new, s
<1>2. /\ WellFormed(s, m) /\ new \in 0 .. m - 1 /\ new \notin Inside(h) /\ Inside(s) = Inside(h) \cup {new}
      /\ s.elts[new] = Block(o) /\ \A x \in Inside(h) : s.elts[x] = h.elts[x]
      /\ s.lists = h.lists /\ s.len = h.len /\ s.head = h.head /\ s.tail = h.tail BY <1>1 DEF Grown
<1>3. \A x \in Inside(h) : /\ Nx(s, x) = Nx(h, x) /\ Pv(s, x) = Pv(h, x) /\ Of(s, x) = Of(h, x)
                           /\ Fr(s, x) = Fr(h, x) /\ Fi(s, x) = Fi(h, x) BY <1>2 DEF Nx, Pv, Of, Fr, Fi
<1>4. Of(s, new) = o /\ ~ Fr(s, new) BY <1>2 DEF Of, Fr, Block
<1>5. Inside(h) \subseteq 0 .. m - 1 /\ a \in 0 .. m - 1 /\ s \in HeapsOf(m)
    <2>1. Inside(s) \subseteq 0 .. m - 1 BY <1>2, InsideIs
    <2> QED BY <1>2, <2>1 DEF WellFormed
<1>6. \A x \in Inside(h) : Nx(h, x) \in Inside(h) /\ Pv(h, x) \in Inside(h) BY DEF Linked
<1>7. Linked(s, Inside(h)) BY <1>2, <1>3, <1>6 DEF Linked
<1>8. Pv(s, a) = Pv(h, a) /\ Pv(s, a) \in 0 .. m - 1 /\ Pv(s, a) # new /\ a # new BY <1>2, <1>3, <1>5, <1>6
<1>9. InsertedBefore(s, g, a, new, m) BY <1>2, <1>5, <1>8, InsertBeforeIs
<1> HIDE DEF g
<1>10. Linked(g, Inside(h) \cup {new}) BY <1>2, <1>5, <1>7, <1>9, InsertBeforeLinks
<1>11. SameButLinks(s, g, m) BY <1>9 DEF InsertedBefore
<1>12. WellFormed(g, m) /\ Inside(g) = Inside(h) \cup {new} BY <1>2, <1>11, LinksAside
<1>13. /\ g.lists = h.lists /\ g.len = h.len /\ Of(g, new) = o /\ ~ Fr(g, new)
       /\ \A x \in Inside(h) : Of(g, x) = Of(h, x) /\ Fr(g, x) = Fr(h, x) /\ Fi(g, x) = Fi(h, x)
    BY <1>2, <1>3, <1>4, <1>5, <1>11 DEF SameButLinks
<1>14. \A x \in 0 .. m - 1 :
           /\ Pv(g, x) = IF x = a THEN new
                         ELSE IF x = new THEN (IF Pv(s, a) = a THEN new ELSE Pv(s, a)) ELSE Pv(s, x)
           /\ Nx(g, x) = IF x = new THEN a
                         ELSE IF Pv(s, a) # a /\ x = Pv(s, a) THEN new ELSE Nx(s, x)
    BY <1>9 DEF InsertedBefore
<1>15. Nx(g, new) = a /\ Pv(g, new) = (IF Pv(h, a) = a THEN new ELSE Pv(h, a)) BY <1>2, <1>8, <1>14
<1>16. ASSUME NEW x \in Inside(h)
       PROVE  /\ Nx(g, x) = (IF Nx(h, x) = a /\ x # a THEN new ELSE Nx(h, x))
              /\ Pv(g, x) = (IF x = a THEN new ELSE Pv(h, x))
    <2>1. x \in 0 .. m - 1 /\ x # new BY <1>2, <1>5
    <2>2. (Pv(h, a) # a /\ x = Pv(h, a)) <=> (Nx(h, x) = a /\ x # a) BY DEF Linked
    <2> QED BY <1>3, <1>8, <1>14, <2>1, <2>2
<1>17. PutBefore(h, g, a, new, o, m) BY <1>2, <1>10, <1>12, <1>13, <1>15, <1>16 DEF PutBefore
<1> QED BY <1>17 DEF g, s, new

\* A heap after a new block was put after a.
PutAfter(h, g, a, new, o, m) ==
    /\ WellFormed(g, m) /\ new \in 0 .. m - 1 /\ new \notin Inside(h) /\ Inside(g) = Inside(h) \cup {new}
    /\ Linked(g, Inside(g)) /\ g.lists = h.lists /\ g.len = h.len
    /\ Of(g, new) = o /\ ~ Fr(g, new) /\ Pv(g, new) = a
    /\ Nx(g, new) = (IF Nx(h, a) = a THEN new ELSE Nx(h, a))
    /\ \A x \in Inside(h) :
           /\ Of(g, x) = Of(h, x) /\ Fr(g, x) = Fr(h, x) /\ Fi(g, x) = Fi(h, x)
           /\ Pv(g, x) = (IF Pv(h, x) = a /\ x # a THEN new ELSE Pv(h, x))
           /\ Nx(g, x) = (IF x = a THEN new ELSE Nx(h, x))

\* elt_insert_after, with an element of its own.
LEMMA PutAfterIs ==
    ASSUME NEW n \in Nat, NEW h, WellFormed(h, n), Linked(h, Inside(h)), NEW a \in Inside(h), NEW o \in Nat
    PROVE  \E m \in Nat : PutAfter(h, InsertAfter(WithElt(h, o), a, NewElt(h)), a, NewElt(h), o, m)
<1> DEFINE new == NewElt(h)
           s == WithElt(h, o)
           g == InsertAfter(s, a, new)
<1>1. PICK m \in Nat : m >= n /\ Grown(h, s, new, o, m) BY WithEltIs
<1> HIDE DEF new, s
<1>2. /\ WellFormed(s, m) /\ new \in 0 .. m - 1 /\ new \notin Inside(h) /\ Inside(s) = Inside(h) \cup {new}
      /\ s.elts[new] = Block(o) /\ \A x \in Inside(h) : s.elts[x] = h.elts[x]
      /\ s.lists = h.lists /\ s.len = h.len /\ s.head = h.head /\ s.tail = h.tail BY <1>1 DEF Grown
<1>3. \A x \in Inside(h) : /\ Nx(s, x) = Nx(h, x) /\ Pv(s, x) = Pv(h, x) /\ Of(s, x) = Of(h, x)
                           /\ Fr(s, x) = Fr(h, x) /\ Fi(s, x) = Fi(h, x) BY <1>2 DEF Nx, Pv, Of, Fr, Fi
<1>4. Of(s, new) = o /\ ~ Fr(s, new) BY <1>2 DEF Of, Fr, Block
<1>5. Inside(h) \subseteq 0 .. m - 1 /\ a \in 0 .. m - 1 /\ s \in HeapsOf(m)
    <2>1. Inside(s) \subseteq 0 .. m - 1 BY <1>2, InsideIs
    <2> QED BY <1>2, <2>1 DEF WellFormed
<1>6. \A x \in Inside(h) : Nx(h, x) \in Inside(h) /\ Pv(h, x) \in Inside(h) BY DEF Linked
<1>7. Linked(s, Inside(h)) BY <1>2, <1>3, <1>6 DEF Linked
<1>8. Nx(s, a) = Nx(h, a) /\ Nx(s, a) \in 0 .. m - 1 /\ Nx(s, a) # new /\ a # new BY <1>2, <1>3, <1>5, <1>6
<1>9. InsertedAfter(s, g, a, new, m) BY <1>2, <1>5, <1>8, InsertAfterIs
<1> HIDE DEF g
<1>10. Linked(g, Inside(h) \cup {new}) BY <1>2, <1>5, <1>7, <1>9, InsertAfterLinks
<1>11. SameButLinks(s, g, m) BY <1>9 DEF InsertedAfter
<1>12. WellFormed(g, m) /\ Inside(g) = Inside(h) \cup {new} BY <1>2, <1>11, LinksAside
<1>13. /\ g.lists = h.lists /\ g.len = h.len /\ Of(g, new) = o /\ ~ Fr(g, new)
       /\ \A x \in Inside(h) : Of(g, x) = Of(h, x) /\ Fr(g, x) = Fr(h, x) /\ Fi(g, x) = Fi(h, x)
    BY <1>2, <1>3, <1>4, <1>5, <1>11 DEF SameButLinks
<1>14. \A x \in 0 .. m - 1 :
           /\ Nx(g, x) = IF x = a THEN new
                         ELSE IF x = new THEN (IF Nx(s, a) = a THEN new ELSE Nx(s, a)) ELSE Nx(s, x)
           /\ Pv(g, x) = IF x = new THEN a
                         ELSE IF Nx(s, a) # a /\ x = Nx(s, a) THEN new ELSE Pv(s, x)
    BY <1>9 DEF InsertedAfter
<1>15. Pv(g, new) = a /\ Nx(g, new) = (IF Nx(h, a) = a THEN new ELSE Nx(h, a)) BY <1>2, <1>8, <1>14
<1>16. ASSUME NEW x \in Inside(h)
       PROVE  /\ Pv(g, x) = (IF Pv(h, x) = a /\ x # a THEN new ELSE Pv(h, x))
              /\ Nx(g, x) = (IF x = a THEN new ELSE Nx(h, x))
    <2>1. x \in 0 .. m - 1 /\ x # new BY <1>2, <1>5
    <2>2. (Nx(h, a) # a /\ x = Nx(h, a)) <=> (Pv(h, x) = a /\ x # a) BY DEF Linked
    <2> QED BY <1>3, <1>8, <1>14, <2>1, <2>2
<1>17. PutAfter(h, g, a, new, o, m) BY <1>2, <1>10, <1>12, <1>13, <1>15, <1>16 DEF PutAfter
<1> QED BY <1>17 DEF g, s, new

\* combine_free_blocks takes a new element, in front of the first block, and
\* lists it.
LEMMA StartIs ==
    ASSUME NEW h, Sound(h), NEW a \in FreeIn(h), NEW t \in Bins, NEW bin, Measured(h, bin), bin[NewElt(h)] = t,
           bin[a] # t, NEW start, start = Listed(InsertBefore(WithElt(h, 0), a, NewElt(h)), t, NewElt(h)), NEW found
    PROVE  /\ NewElt(h) \notin Inside(h)
           /\ Joining(h, DeleteElt(UnlistedNow(start, found, a), a), start, a, a, NewElt(h), {a}, bin, t)
<1> DEFINE new == NewElt(h)
           g == InsertBefore(WithElt(h, 0), a, new)
           F == FreeIn(h) \cup {new}
           r == DeleteElt(UnlistedNow(start, found, a), a)
<1>1. PICK n \in Nat : WellFormed(h, n) BY DEF Sound
<1>2. Linked(h, Inside(h)) /\ Binned(h, FreeIn(h), BinsOf(h)) /\ Placed(h) BY DEF Sound
<1>3. a \in Inside(h) /\ FreeIn(h) \subseteq Inside(h) BY DEF FreeIn
<1>4. PICK m \in Nat : PutBefore(h, g, a, new, 0, m) BY <1>1, <1>2, <1>3, PutBeforeIs
<1>0. start = Listed(g, t, new) /\ bin[new] = t OBVIOUS
<1> HIDE DEF new, g, r
<1>5. /\ WellFormed(g, m) /\ new \in 0 .. m - 1 /\ new \notin Inside(h) /\ Inside(g) = Inside(h) \cup {new}
      /\ Linked(g, Inside(g)) /\ g.lists = h.lists /\ g.len = h.len
      /\ Nx(g, new) = a /\ Pv(g, new) = (IF Pv(h, a) = a THEN new ELSE Pv(h, a))
      /\ \A x \in Inside(h) :
           /\ Of(g, x) = Of(h, x) /\ Fr(g, x) = Fr(h, x) /\ Fi(g, x) = Fi(h, x)
           /\ Nx(g, x) = (IF Nx(h, x) = a /\ x # a THEN new ELSE Nx(h, x))
           /\ Pv(g, x) = (IF x = a THEN new ELSE Pv(h, x)) BY <1>4 DEF PutBefore
<1>6. g \in HeapsOf(m) /\ Inside(g) \subseteq 0 .. m - 1 BY <1>5, InsideIs DEF WellFormed
<1>7. OnList(g, start, m, t, new) BY <1>0, <1>5, <1>6, ListedAs
<1>8. Binned(g, FreeIn(h), bin)
    <2>1. \A x \in FreeIn(h) : Fi(g, x) = Fi(h, x) /\ bin[x] = BinsOf(h)[x] BY <1>3, <1>5 DEF Measured, BinsOf
    <2> QED BY <1>2, <1>5, <2>1, BinnedAlike
<1>9. Binned(start, F, bin)
    <2>1. FreeIn(h) \subseteq 0 .. m - 1 /\ new \notin FreeIn(h) /\ \A x \in FreeIn(h) : bin[x] = bin[x]
        BY <1>3, <1>5, <1>6
    <2> QED BY <1>0, <1>5, <1>6, <1>8, <2>1, ListedBins
<1>10. SameButLists(g, start, m) /\ Fr(start, new)
       /\ \A x \in 0 .. m - 1 : x # new => Fr(start, x) = Fr(g, x) BY <1>7 DEF OnList
<1>11. WellFormed(start, m) /\ Inside(start) = Inside(g) /\ Linked(start, Inside(g)) BY <1>5, <1>10, ListsAside
<1>12. start.len = h.len /\ \A x \in Inside(g) : Of(start, x) = Of(g, x) /\ Nx(start, x) = Nx(g, x) /\ Pv(start, x) = Pv(g, x)
    BY <1>5, <1>6, <1>10 DEF SameButLists
<1>13. \A x \in Inside(h) : x # new /\ Fr(start, x) = Fr(h, x) /\ Of(start, x) = Of(h, x)
    BY <1>5, <1>6, <1>10, <1>12
<1>14. Nx(h, a) \in Inside(h) BY <1>2, <1>3 DEF Linked
<1>15. Nx(start, a) = Nx(h, a) /\ Pv(start, a) = new BY <1>3, <1>5, <1>12
<1>16. Size(start, a) = Size(h, a) BY <1>3, <1>12, <1>13, <1>14, <1>15, SizeIs
<1>17. /\ F \subseteq Inside(start) /\ a \in F /\ bin[a] = SizeToBin(Size(start, a)) /\ Nx(start, a) # Pv(start, a)
       /\ Linked(start, Inside(start))
    BY <1>3, <1>5, <1>11, <1>14, <1>15, <1>16 DEF Measured
<1>18. PICK j \in Nat : Removed(start, r, a, F, bin, j)
    <2> HIDE DEF F
    <2> QED BY <1>9, <1>11, <1>17, RemovedIs DEF r
<1>19. /\ WellFormed(r, j) /\ Inside(r) = Inside(start) \ {a} /\ Linked(r, Inside(r)) /\ r.len = start.len
       /\ \A x \in Inside(r) :
           /\ Of(r, x) = Of(start, x) /\ Fr(r, x) = Fr(start, x)
           /\ Nx(r, x) = IF Nx(start, x) = a THEN (IF Nx(start, a) = a THEN x ELSE Nx(start, a)) ELSE Nx(start, x)
           /\ Pv(r, x) = IF Pv(start, x) = a THEN (IF Pv(start, a) = a THEN x ELSE Pv(start, a)) ELSE Pv(start, x)
       /\ Binned(r, F \ {a}, bin)
       /\ \A x \in F \ {a} : bin[x] # bin[a] => Fi(r, x) = Fi(start, x) BY <1>18 DEF Removed
<1>20. Inside(r) = (Inside(h) \ {a}) \cup {new} /\ F \ {a} = (FreeIn(h) \ {a}) \cup {new} BY <1>3, <1>5, <1>11, <1>19
<1>21. Fr(r, new) /\ new \in Inside(r) BY <1>10, <1>19, <1>20
<1>22. Merged(h, r, a, a, new)
    <2>1. Nx(r, new) = IF Nx(h, a) = a THEN new ELSE Nx(h, a) BY <1>5, <1>12, <1>15, <1>19, <1>20
    <2>2. Pv(r, new) = IF Pv(h, a) = a THEN new ELSE Pv(h, a)
        <3>1. Pv(start, new) # a BY <1>3, <1>5, <1>12
        <3> QED BY <1>5, <1>12, <1>19, <1>20, <3>1
    <2>3. ASSUME NEW x \in Inside(r) \ {new}
          PROVE  /\ x \in Inside(h)
                 /\ Nx(r, x) = IF Nx(h, x) = a THEN new ELSE Nx(h, x)
                 /\ Pv(r, x) = IF Pv(h, x) = a THEN new ELSE Pv(h, x)
        <3>1. x \in Inside(h) /\ x # a /\ x \in Inside(g) BY <1>5, <1>20
        <3>2. Nx(start, x) = (IF Nx(h, x) = a THEN new ELSE Nx(h, x)) /\ Pv(start, x) = Pv(h, x) BY <1>5, <1>12, <3>1
        <3>3. Nx(start, x) # a BY <1>3, <1>5, <3>2
        <3> QED BY <1>3, <1>5, <1>15, <1>19, <3>1, <3>2, <3>3
    <2>4. \A x \in Inside(r) \cap Inside(h) : Of(r, x) = Of(h, x) /\ Fr(r, x) = Fr(h, x) BY <1>13, <1>19
    <2> QED BY <1>21, <2>1, <2>2, <2>3, <2>4 DEF Merged
<1>23. \A x \in (FreeIn(h) \ {a}) \cup {new} : bin[x] = t => Fi(r, x) = Fi(start, x) BY <1>19, <1>20
<1>24. Joining(h, r, start, a, a, new, {a}, bin, t)
    BY <1>12, <1>19, <1>20, <1>21, <1>22, <1>23 DEF Joining
<1> QED BY <1>5, <1>24 DEF r, new

\* A block that is not kept.
Gone(g, found, e) == DeleteElt(UnlistedNow(g, found, e), e)

\* Two blocks that follow each other, joined: in a new one, the first or the second.
LEMMA TwoJoined ==
    ASSUME NEW h, Sound(h), NEW a \in FreeIn(h), NEW b \in FreeIn(h), b = Nx(h, a), b # a,
           NEW t \in Bins, NEW bin, Measured(h, bin), bin[NewElt(h)] = t, NEW found
    PROVE  /\ bin[a] # t /\ bin[b] # t
              => \A start : start = Listed(InsertBefore(WithElt(h, 0), a, NewElt(h)), t, NewElt(h))
                     => Joining(h, Gone(Gone(start, found, a), found, b), start, a, b, NewElt(h), {a, b}, bin, t)
           /\ bin[b] # t => Joining(h, Gone(h, found, b), h, a, b, a, {b}, bin, t)
           /\ bin[a] # t => Joining(h, Gone(h, found, a), h, a, b, b, {a}, bin, t)
<1>1. a \in Inside(h) /\ b \in Inside(h) BY DEF FreeIn
<1>2. Nx(h, b) \in Inside(h) /\ Nx(h, b) # a
    <2>1. Of(h, a) < Of(h, b) /\ Of(h, a) \in Nat /\ Of(h, b) \in Nat /\ Nx(h, b) \in Inside(h)
          /\ (Nx(h, b) # b => Of(h, b) < Of(h, Nx(h, b))) BY <1>1, SoundIs
    <2> QED BY <2>1
<1>3. Joining(h, h, h, a, a, a, {}, bin, t) BY JoiningFirst
<1>4. {} \cup {b} = {b} /\ {} \cup {a} = {a} /\ {a} \cup {b} = {a, b} OBVIOUS
<1>5. ASSUME bin[b] # t PROVE Joining(h, Gone(h, found, b), h, a, b, a, {b}, bin, t)
    <2>1. b \notin {} OBVIOUS
    <2>2. Joining(h, Gone(h, found, b), h, a, b, a, {} \cup {b}, bin, t)
        BY <1>1, <1>2, <1>3, <1>5, <2>1, JoiningNext DEF Gone
    <2> QED BY <1>4, <2>2
<1>6. ASSUME bin[a] # t PROVE Joining(h, Gone(h, found, a), h, a, b, b, {a}, bin, t)
    <2>1. b \notin {} /\ a \notin {} OBVIOUS
    <2>2. Joining(h, Gone(h, found, a), h, a, b, b, {} \cup {a}, bin, t)
        BY <1>1, <1>2, <1>3, <1>6, <2>1, JoiningIntoNext DEF Gone
    <2> QED BY <1>4, <2>2
<1>7. ASSUME bin[a] # t, bin[b] # t, NEW start, start = Listed(InsertBefore(WithElt(h, 0), a, NewElt(h)), t, NewElt(h))
      PROVE  Joining(h, Gone(Gone(start, found, a), found, b), start, a, b, NewElt(h), {a, b}, bin, t)
    <2>1. NewElt(h) \notin Inside(h) /\ Joining(h, Gone(start, found, a), start, a, a, NewElt(h), {a}, bin, t)
        BY <1>7, StartIs DEF Gone
    <2>2. b \notin {a} /\ b # NewElt(h) /\ Nx(h, b) # NewElt(h) BY <1>1, <1>2, <2>1
    <2> DEFINE g == Gone(start, found, a)
               new == NewElt(h)
    <2>3. Joining(h, g, start, a, a, new, {a}, bin, t) BY <2>1
    <2>4. b # new /\ Nx(h, b) # new BY <2>2
    <2>5. Joining(h, Gone(g, found, b), start, a, b, new, {a} \cup {b}, bin, t)
        <3> HIDE DEF g, new
        <3> QED BY <1>1, <1>2, <1>7, <2>2, <2>3, <2>4, JoiningNext DEF Gone
    <2> QED BY <1>4, <2>5
<1> QED BY <1>5, <1>6, <1>7

\* A heap after e was given an offset and a place.
PlacedAt(h, g, n, e, o, i) ==
    /\ WellFormed(g, n) /\ Inside(g) = Inside(h) /\ g.lists = h.lists /\ g.len = h.len
    /\ g.head = h.head /\ g.tail = h.tail
    /\ \A x \in 0 .. n - 1 : /\ Nx(g, x) = Nx(h, x) /\ Pv(g, x) = Pv(h, x) /\ Fr(g, x) = Fr(h, x)
                             /\ Of(g, x) = IF x = e THEN o ELSE Of(h, x)
                             /\ Fi(g, x) = IF x = e THEN i ELSE Fi(h, x)

\* The offset and the place of a block are set.
LEMMA PlaceSet ==
    ASSUME NEW n \in Nat, NEW h, WellFormed(h, n), NEW e \in 0 .. n - 1, NEW o \in Nat, NEW i \in Nat,
           NEW g, g = [h EXCEPT !.elts[e].offset = o, !.elts[e].fi = i]
    PROVE  PlacedAt(h, g, n, e, o, i)
<1> DEFINE b == [h.elts[e] EXCEPT !.offset = o, !.fi = i]
           f == [h.elts EXCEPT ![e] = b]
<1>1. h \in HeapsOf(n) /\ h.elts \in [0 .. n - 1 -> Blocks] /\ h.elts[e] \in Blocks BY DEF WellFormed, HeapsOf
<1>2. b \in Blocks /\ b.next = h.elts[e].next
      /\ b.prev = h.elts[e].prev /\ b.offset = o
      /\ b.free = h.elts[e].free /\ b.fi = i BY <1>1 DEF Blocks
<1>5. g = [h EXCEPT !.elts = f] BY <1>1
<1> HIDE DEF b
<1>3. f \in [0 .. n - 1 -> Blocks] /\ \A x \in 0 .. n - 1 : f[x] = IF x = e THEN b ELSE h.elts[x] BY <1>1, <1>2
<1> HIDE DEF f
<1>4. /\ g \in HeapsOf(n) /\ g.elts = f /\ g.lists = h.lists /\ g.len = h.len /\ g.freeElts = h.freeElts
      /\ g.head = h.head /\ g.tail = h.tail BY <1>1, <1>3, <1>5 DEF HeapsOf
<1>6. WellFormed(g, n) BY <1>4 DEF WellFormed
<1>7. Inside(g) = Inside(h) BY <1>1, <1>3, <1>4 DEF Inside
<1>8. \A x \in 0 .. n - 1 : /\ Nx(g, x) = Nx(h, x) /\ Pv(g, x) = Pv(h, x) /\ Fr(g, x) = Fr(h, x)
                            /\ Of(g, x) = IF x = e THEN o ELSE Of(h, x)
                            /\ Fi(g, x) = IF x = e THEN i ELSE Fi(h, x)
    BY <1>2, <1>3, <1>4 DEF Nx, Pv, Fr, Of, Fi
<1> QED BY <1>4, <1>6, <1>7, <1>8 DEF PlacedAt

\* The free blocks of X, which follow each other from a to z, became the block k.
Collapsed(h, r, a, z, k, X) ==
    /\ Sound(r) /\ r.len = h.len /\ Inside(r) = (Inside(h) \ X) \cup {k} /\ k \notin Inside(h) \ X
    /\ Fr(r, k) /\ Nx(r, k) = (IF Nx(h, z) = z THEN k ELSE Nx(h, z))
    /\ \A x \in Inside(h) \ X : /\ Of(r, x) = Of(h, x) /\ Fr(r, x) = Fr(h, x) /\ Size(r, x) = Size(h, x)
                                /\ Nx(r, x) = IF Nx(h, x) = a THEN k ELSE Nx(h, x)

\* From a to z.
Upto(h, a, z) == (IF Nx(h, z) = z THEN h.len ELSE Of(h, Nx(h, z))) - Of(h, a)

\* The last step of combine_free_blocks.
LEMMA JoinedIs ==
    ASSUME NEW h, Sound(h), NEW X, X \subseteq FreeIn(h), NEW a \in X, NEW z \in X, Of(h, a) <= Of(h, z),
           Pv(h, a) \in X => Pv(h, a) = a, Nx(h, z) \in X => Nx(h, z) = z,
           \A x \in Inside(h) \ X : Nx(h, x) \in X => Nx(h, x) = a,
           NEW bin, Measured(h, bin), NEW t, t = SizeToBin(Upto(h, a, z)),
           NEW k, k \in X \/ k \notin Inside(h), bin[k] = t, NEW D, D = X \ {k}, NEW g, NEW start, Joining(h, g, start, a, z, k, D, bin, t),
           NEW r, r = [g EXCEPT !.elts[k].offset = Of(h, a), !.elts[k].fi = Fi(start, k)]
    PROVE  Collapsed(h, r, a, z, k, X)
<1>1. /\ Linked(g, Inside(g)) /\ g.len = h.len
      /\ Inside(g) = (Inside(h) \ D) \cup {k}
      /\ Binned(g, (FreeIn(h) \ D) \cup {k}, bin)
      /\ Fr(g, k) /\ Merged(h, g, a, z, k)
      /\ \A x \in (FreeIn(h) \ D) \cup {k} : bin[x] = t => Fi(g, x) = Fi(start, x) BY DEF Joining
<1>2. PICK n \in Nat : WellFormed(g, n) BY DEF Joining
<1>3. X \subseteq Inside(h) /\ a \in Inside(h) /\ z \in Inside(h) BY DEF FreeIn
<1>4. k \in 0 .. n - 1 /\ g.elts \in [0 .. n - 1 -> Blocks] /\ Inside(g) \subseteq 0 .. n - 1 BY <1>1, <1>2, InsideIs
<1>5. Of(h, a) \in Nat /\ Of(h, z) \in Nat /\ h.len \in Nat /\ h.len <= MaxHeapLen BY <1>3, SoundIs
<1>6. Fi(start, k) = Fi(g, k) /\ Fi(g, k) \in Nat
    <2>1. Fi(g, k) \in Nat BY <1>4 DEF Blocks, Fi
    <2> QED BY <1>1, <2>1
<1>7. /\ WellFormed(r, n) /\ Inside(r) = Inside(g) /\ r.lists = g.lists /\ r.len = g.len
      /\ r.head = g.head /\ r.tail = g.tail
      /\ \A x \in 0 .. n - 1 : /\ Nx(r, x) = Nx(g, x) /\ Pv(r, x) = Pv(g, x) /\ Fr(r, x) = Fr(g, x)
                               /\ Of(r, x) = IF x = k THEN Of(h, a) ELSE Of(g, x)
                               /\ Fi(r, x) = IF x = k THEN Fi(start, k) ELSE Fi(g, x)
    <2>1. PlacedAt(g, r, n, k, Of(h, a), Fi(start, k)) BY <1>2, <1>4, <1>5, <1>6, PlaceSet
    <2> QED BY <2>1 DEF PlacedAt
<1>8. Inside(r) = (Inside(h) \ X) \cup {k} /\ k \notin Inside(h) \ X BY <1>1, <1>7
<1>9. \A x \in Inside(r) : /\ Nx(r, x) = Nx(g, x) /\ Pv(r, x) = Pv(g, x) /\ Fr(r, x) = Fr(g, x)
                            /\ Of(r, x) = (IF x = k THEN Of(h, a) ELSE Of(g, x)) /\ Fi(r, x) = Fi(g, x)
    BY <1>4, <1>6, <1>7
<1>10. Linked(r, Inside(r))
    <2>1. \A x \in Inside(r) : Nx(g, x) \in Inside(r) /\ Pv(g, x) \in Inside(r) BY <1>1, <1>7 DEF Linked
    <2> QED BY <1>1, <1>7, <1>9, <2>1 DEF Linked
<1>11. /\ k \in Inside(r) /\ Of(r, k) = Of(h, a) /\ Fr(r, k)
       /\ Nx(r, k) = (IF Nx(h, z) = z THEN k ELSE Nx(h, z))
       /\ Pv(r, k) = (IF Pv(h, a) = a THEN k ELSE Pv(h, a)) BY <1>1, <1>8, <1>9 DEF Merged
<1>12. \A x \in Inside(h) \ X :
           /\ x \in Inside(r) /\ x # k
           /\ Of(r, x) = Of(h, x) /\ Fr(r, x) = Fr(h, x)
           /\ Nx(r, x) = (IF Nx(h, x) = a THEN k ELSE Nx(h, x))
           /\ Pv(r, x) = (IF Pv(h, x) = z THEN k ELSE Pv(h, x)) BY <1>1, <1>7, <1>8, <1>9 DEF Merged
<1>13. ASSUME NEW x \in Inside(h) \ X PROVE Size(r, x) = Size(h, x)
    <2>1. CASE Nx(h, x) = a
        <3>1. Nx(r, x) = k /\ Nx(r, x) # x /\ Nx(h, x) # x BY <1>12, <2>1
        <3> QED BY <1>11, <1>12, <2>1, <3>1, SizeIs
    <2>2. CASE Nx(h, x) # a
        <3>1. Nx(r, x) = Nx(h, x) BY <1>12, <2>2
        <3>2. Nx(h, x) \in Inside(h) \ X BY <2>2, SoundIs
        <3>3. Of(r, Nx(h, x)) = Of(h, Nx(h, x)) BY <1>12, <3>2
        <3> QED BY <1>1, <1>7, <1>12, <3>1, <3>3, SizeIs
    <2> QED BY <2>1, <2>2
<1>14. Size(r, k) = Upto(h, a, z)
    <2>1. CASE Nx(h, z) = z BY <1>1, <1>7, <1>11, <2>1, SizeIs DEF Upto
    <2>2. CASE Nx(h, z) # z
        <3>1. Nx(h, z) \in Inside(h) \ X BY <1>3, <2>2, SoundIs
        <3>2. Nx(r, k) = Nx(h, z) /\ Nx(r, k) # k /\ Of(r, Nx(h, z)) = Of(h, Nx(h, z)) BY <1>11, <1>12, <2>2, <3>1
        <3> QED BY <1>11, <2>2, <3>2, SizeIs DEF Upto
    <2> QED BY <2>1, <2>2
<1>15. FreeIn(r) = (FreeIn(h) \ D) \cup {k}
    <2>1. ASSUME NEW x PROVE x \in FreeIn(r) <=> x \in (FreeIn(h) \ D) \cup {k}
        <3>1. CASE x = k BY <1>11, <3>1 DEF FreeIn
        <3>2. CASE x # k
            <4>1. x \in Inside(r) <=> x \in Inside(h) \ X BY <1>8, <3>2
            <4> QED BY <1>3, <1>12, <3>2, <4>1 DEF FreeIn
        <3> QED BY <3>1, <3>2
    <2> QED BY <2>1
<1>16. ASSUME NEW x \in FreeIn(r) PROVE BinsOf(r)[x] = bin[x] /\ Fi(r, x) = Fi(g, x)
    <2>1. x \in Inside(r) /\ BinsOf(r)[x] = SizeToBin(Size(r, x)) BY DEF FreeIn, BinsOf
    <2>2. CASE x = k BY <1>9, <1>14, <2>1, <2>2
    <2>3. CASE x # k
        <3>1. x \in Inside(h) \ X /\ x \in FreeIn(h) BY <1>8, <1>15, <2>1, <2>3
        <3> QED BY <1>9, <1>13, <2>1, <3>1 DEF Measured
    <2> QED BY <2>2, <2>3
<1>17. Binned(r, FreeIn(r), BinsOf(r))
    <2>1. Binned(g, FreeIn(r), bin) /\ r.lists = g.lists BY <1>1, <1>7, <1>15
    <2>2. \A x \in FreeIn(r) : Fi(r, x) = Fi(g, x) /\ BinsOf(r)[x] = bin[x] BY <1>16
    <2> DEFINE F == FreeIn(r)
               c == BinsOf(r)
    <2>3. Binned(g, F, bin) /\ \A x \in F : Fi(r, x) = Fi(g, x) /\ c[x] = bin[x] BY <2>1, <2>2
    <2> HIDE DEF F, c
    <2>5. r.lists = g.lists BY <2>1
    <2>6. Binned(g, F, bin) BY <2>3
    <2>7. \A x \in F : Fi(r, x) = Fi(g, x) /\ c[x] = bin[x] BY <2>3
    <2>4. Binned(r, F, c) BY <2>5, <2>6, <2>7 DEF Binned
    <2> QED BY <2>4 DEF F, c
<1>18. Placed(r)
    <2>1. Of(r, r.head) = 0
        <3>1. r.head \in Inside(r) /\ Pv(r, r.head) = r.head BY <1>10 DEF Linked
        <3>2. \A x \in Inside(h) : Pv(h, x) = x => Of(h, x) = 0
            <4>1. \A x \in Inside(h) : Pv(h, x) = x => x = h.head BY DEF Sound, Linked
            <4> QED BY <4>1, SoundIs
        <3>3. CASE r.head = k
            <4>1. Pv(h, a) = a \/ Pv(h, a) = k BY <1>11, <3>1, <3>3
            <4>2. Pv(h, a) \in Inside(h) BY <1>3, SoundIs
            <4>3. Pv(h, a) = a BY <4>1, <4>2
            <4> QED BY <1>3, <1>11, <3>2, <3>3, <4>3
        <3>4. CASE r.head # k
            <4>1. r.head \in Inside(h) \ X BY <1>8, <3>1, <3>4
            <4>2. Pv(h, r.head) = r.head BY <1>12, <3>1, <3>4, <4>1
            <4> QED BY <1>12, <3>2, <4>1, <4>2
        <3> QED BY <3>3, <3>4
    <2>2. ASSUME NEW x \in Inside(r) PROVE Of(r, x) < r.len /\ (Nx(r, x) # x => Of(r, x) < Of(r, Nx(r, x)))
        <3>1. CASE x = k
            <4>1. Of(h, a) < h.len BY <1>3, SoundIs
            <4>2. Nx(h, z) # z => Of(h, z) < Of(h, Nx(h, z)) /\ Nx(h, z) \in Inside(h) /\ Of(h, Nx(h, z)) \in Nat
                BY <1>3, SoundIs
            <4>3. Nx(h, z) # z => Of(r, Nx(h, z)) = Of(h, Nx(h, z)) BY <1>12, <4>2
            <4> QED BY <1>1, <1>5, <1>7, <1>11, <3>1, <4>1, <4>2, <4>3
        <3>2. CASE x # k
            <4>1. x \in Inside(h) \ X BY <1>8, <3>2
            <4>2. Of(h, x) < h.len /\ (Nx(h, x) # x => Of(h, x) < Of(h, Nx(h, x))) /\ Nx(h, x) \in Inside(h)
                BY <4>1, SoundIs
            <4>3. CASE Nx(h, x) = a BY <1>1, <1>7, <1>11, <1>12, <4>1, <4>2, <4>3
            <4>4. CASE Nx(h, x) # a
                <5>1. Nx(h, x) \in Inside(h) \ X /\ Nx(r, x) = Nx(h, x) BY <1>12, <4>1, <4>2, <4>4
                <5> QED BY <1>1, <1>7, <1>12, <4>1, <4>2, <5>1
            <4> QED BY <4>3, <4>4
        <3> QED BY <3>1, <3>2
    <2> QED BY <2>1, <2>2 DEF Placed
<1>19. Sound(r) BY <1>1, <1>2, <1>5, <1>7, <1>10, <1>17, <1>18 DEF Sound
<1> QED BY <1>1, <1>7, <1>8, <1>11, <1>12, <1>13, <1>19 DEF Collapsed

\* A block that is kept or not.
Spared(g, found, kept, e) == IF e = kept THEN g ELSE Gone(g, found, e)

\* What is kept, and how the merge begins.
Keeps(h, run, t, kept, start) ==
    \/ /\ \A i \in DOMAIN run : SizeToBin(Size(h, run[i])) # t
       /\ kept = NewElt(h) /\ start = Listed(InsertBefore(WithElt(h, 0), run[1], kept), t, kept)
    \/ \E i \in DOMAIN run : kept = run[i] /\ SizeToBin(Size(h, kept)) = t /\ start = h

\* How large the blocks are together.
TotalOf(h, run) == Size(h, run[1]) + Size(h, run[2]) + (IF Len(run) = 3 THEN Size(h, run[3]) ELSE 0)

\* The blocks that are not kept have gone from all, and r is what is left then.
Combines(h, run, kept, start, all, r) ==
    /\ Keeps(h, run, SizeToBin(TotalOf(h, run)), kept, start)
    /\ all = IF Len(run) = 3
             THEN Spared(Spared(Spared(start, h, kept, run[1]), h, kept, run[2]), h, kept, run[3])
             ELSE Spared(Spared(start, h, kept, run[1]), h, kept, run[2])
    /\ r = [all EXCEPT !.elts[kept].offset = Of(h, run[1]), !.elts[kept].fi = Fi(start, kept)]

\* combine_free_blocks, said with these.
LEMMA CombinedAs ==
    ASSUME NEW h, NEW run, DOMAIN run \in {1 .. 2, 1 .. 3}
    PROVE  \E kept, start, all : Combines(h, run, kept, start, all, Combined(h, run))
<1> DEFINE b == SizeToBin(TotalOf(h, run))
           fits == {i \in DOMAIN run : SizeToBin(Size(h, run[i])) = b}
           kept == IF fits = {} THEN NewElt(h) ELSE run[CHOOSE i \in fits : \A j \in fits : i <= j]
           start == IF fits # {} THEN h
                    ELSE Listed(InsertBefore(WithElt(h, 0), run[1], kept), b, kept)
           two == Spared(Spared(start, h, kept, run[1]), h, kept, run[2])
           all == IF Len(run) = 3 THEN Spared(two, h, kept, run[3]) ELSE two
<1>1. Combined(h, run) = [all EXCEPT !.elts[kept].offset = Of(h, run[1]), !.elts[kept].fi = Fi(start, kept)]
    BY Zenon DEF Combined, Spared, Gone, Of, Fi, TotalOf
<1>2. Keeps(h, run, b, kept, start)
    <2>1. CASE fits = {}
        <3>1. \A i \in DOMAIN run : SizeToBin(Size(h, run[i])) # b BY <2>1
        <3>2. kept = NewElt(h) /\ start = Listed(InsertBefore(WithElt(h, 0), run[1], kept), b, kept) BY <2>1
        <3> HIDE DEF fits, kept, start, b
        <3> QED BY <3>1, <3>2 DEF Keeps
    <2>2. CASE fits # {}
        <3> DEFINE i == CHOOSE i \in fits : \A j \in fits : i <= j
        <3>1. fits \subseteq {1, 2, 3} OBVIOUS
        <3>2. \E x \in fits : \A j \in fits : x <= j
            <4> HIDE DEF fits
            <4>1. CASE 1 \in fits BY <3>1, <4>1
            <4>2. CASE 1 \notin fits /\ 2 \in fits BY <3>1, <4>2
            <4>3. CASE 1 \notin fits /\ 2 \notin fits
                <5>1. 3 \in fits /\ \A j \in fits : j = 3 BY <2>2, <3>1, <4>3
                <5> QED BY <5>1
            <4> QED BY <4>1, <4>2, <4>3
        <3>3. i \in fits
            <4> HIDE DEF fits
            <4> QED BY <3>2
        <3>4. kept = run[i] /\ start = h BY <2>2
        <3> HIDE DEF i, kept, start, b
        <3>5. i \in DOMAIN run /\ SizeToBin(Size(h, run[i])) = b BY <3>3
        <3> QED BY <3>4, <3>5 DEF Keeps
    <2> QED BY <2>1, <2>2
<1>3. all = IF Len(run) = 3
                        THEN Spared(Spared(Spared(start, h, kept, run[1]), h, kept, run[2]), h, kept, run[3])
                        ELSE Spared(Spared(start, h, kept, run[1]), h, kept, run[2]) OBVIOUS
<1>4. Combines(h, run, kept, start, all, Combined(h, run))
    <2> HIDE DEF all, kept, start, fits
    <2> QED BY <1>1, <1>2, <1>3 DEF Combines
<1> HIDE DEF all, kept, start, fits
<1> QED BY <1>4

\* Which bins the blocks of h and the new one are in.
BinsWith(h, t) == [x \in Inside(h) \cup {NewElt(h)} |-> IF x \in Inside(h) THEN SizeToBin(Size(h, x)) ELSE t]
LEMMA BinsWithIs ==
    ASSUME NEW h, Sound(h), NEW t
    PROVE  /\ Measured(h, BinsWith(h, t)) /\ BinsWith(h, t)[NewElt(h)] = t
           /\ \A x \in Inside(h) : BinsWith(h, t)[x] = SizeToBin(Size(h, x))
<1>1. NewElt(h) \notin Inside(h)
    <2>1. PICK n \in Nat : WellFormed(h, n) BY DEF Sound
    <2>2. 0 \in Nat OBVIOUS
    <2>3. PICK m \in Nat : Grown(h, WithElt(h, 0), NewElt(h), 0, m) BY <2>1, <2>2, WithEltIs
    <2> QED BY <2>3 DEF Grown
<1> QED BY <1>1 DEF BinsWith, Measured, FreeIn

\* Two free blocks become one.
LEMMA CombinedTwo ==
    ASSUME NEW h, Sound(h), NEW a \in FreeIn(h), NEW b \in FreeIn(h), b = Nx(h, a), b # a
    PROVE  \E k : Collapsed(h, Combined(h, <<a, b>>), a, b, k, {a, b})
<1> DEFINE run == <<a, b>>
           total == Size(h, a) + Size(h, b)
           t == SizeToBin(total)
           bin == BinsWith(h, t)
           X == {a, b}
           r == Combined(h, run)
<1>1. a \in Inside(h) /\ b \in Inside(h) /\ X \subseteq FreeIn(h) /\ a \in X /\ b \in X BY DEF FreeIn
<1>2. /\ Of(h, a) < Of(h, b) /\ Of(h, a) \in Nat /\ Of(h, b) \in Nat /\ h.len \in Nat /\ h.len <= MaxHeapLen
      /\ MaxHeapLen \in Nat /\ Of(h, b) < h.len
      /\ Nx(h, b) \in Inside(h) /\ Pv(h, b) = a
      /\ (Nx(h, b) # b => Of(h, b) < Of(h, Nx(h, b)))
      /\ (Pv(h, a) # a => Of(h, Pv(h, a)) < Of(h, a))
      /\ Pv(h, a) \in Inside(h) BY <1>1, SoundIs
<1>3. Of(h, Nx(h, b)) \in Nat /\ Of(h, Nx(h, b)) < h.len /\ Of(h, Pv(h, a)) \in Nat BY <1>2, SoundIs
<1>4. Nx(h, b) \in X => Nx(h, b) = b BY <1>2
<1>5. Pv(h, a) \in X => Pv(h, a) = a BY <1>2
<1>6. \A x \in Inside(h) \ X : Nx(h, x) \in X => Nx(h, x) = a
    <2>1. \A x \in Inside(h) : Nx(h, x) # x => Pv(h, Nx(h, x)) = x BY SoundIs
    <2> QED BY <1>2, <2>1
<1>7. Size(h, a) = Of(h, b) - Of(h, a) BY SizeIs
<1>8. total = Upto(h, a, b) /\ total \in 1 .. MaxHeapLen /\ t \in Bins
    <2>1. Size(h, b) = (IF Nx(h, b) = b THEN h.len ELSE Of(h, Nx(h, b))) - Of(h, b) BY SizeIs
    <2>2. total = Upto(h, a, b) BY <1>2, <1>3, <1>7, <2>1 DEF Upto
    <2>3. Upto(h, a, b) \in 1 .. MaxHeapLen BY <1>2, <1>3 DEF Upto
    <2> HIDE DEF total
    <2> QED BY <2>2, <2>3, SizesInBins
<1>9. /\ Measured(h, bin) /\ bin[NewElt(h)] = t /\ bin[a] = SizeToBin(Size(h, a)) /\ bin[b] = SizeToBin(Size(h, b))
    BY <1>1, BinsWithIs
<1>10. bin[a] # t \/ bin[b] # t
    <2>1. Size(h, a) \in 1 .. MaxHeapLen /\ Size(h, b) \in 1 .. MaxHeapLen BY <1>1, SoundSizes
    <2>2. Size(h, a) + Size(h, b) <= total BY <1>2, <2>1
    <2> HIDE DEF total, bin
    <2> QED BY <1>8, <1>9, <2>1, <2>2, NotBothInBin
<1>11. DOMAIN run = 1 .. 2 /\ Len(run) = 2 /\ run[1] = a /\ run[2] = b OBVIOUS
<1>12. PICK kept, start, all :
               /\ Keeps(h, run, t, kept, start)
               /\ all = Spared(Spared(start, h, kept, a), h, kept, b)
               /\ r = [all EXCEPT !.elts[kept].offset = Of(h, a), !.elts[kept].fi = Fi(start, kept)]
    <2>1. total = TotalOf(h, run)
        <3>1. Size(h, a) \in Int /\ Size(h, b) \in Int BY <1>1, SoundSizes, <1>2
        <3> QED BY <3>1 DEF TotalOf
    <2>2. DOMAIN run \in {1 .. 2, 1 .. 3} /\ ~ (Len(run) = 3) BY <1>11
    <2> HIDE DEF total, run, r
    <2>3. PICK kept, start, all : Combines(h, run, kept, start, all, Combined(h, run)) BY <2>2, CombinedAs
    <2>4. all = Spared(Spared(start, h, kept, a), h, kept, b) BY <1>11, <2>2, <2>3 DEF Combines
    <2>5. r = [all EXCEPT !.elts[kept].offset = Of(h, a), !.elts[kept].fi = Fi(start, kept)]
        BY <1>11, <2>3 DEF r, Combines
    <2>6. Keeps(h, run, t, kept, start) BY <2>1, <2>3 DEF Combines
    <2> QED BY <2>4, <2>5, <2>6
<1>13. /\ bin[a] # t /\ bin[b] # t
             => \A s : s = Listed(InsertBefore(WithElt(h, 0), a, NewElt(h)), t, NewElt(h))
                  => Joining(h, Gone(Gone(s, h, a), h, b), s, a, b, NewElt(h), {a, b}, bin, t)
       /\ bin[b] # t => Joining(h, Gone(h, h, b), h, a, b, a, {b}, bin, t)
       /\ bin[a] # t => Joining(h, Gone(h, h, a), h, a, b, b, {a}, bin, t)
    <2> HIDE DEF bin, t
    <2> QED BY <1>8, <1>9, TwoJoined
<1>14. \E i \in {1, 2, 3} :
         \/ i = 1 /\ bin[a] # t /\ bin[b] # t /\ kept = NewElt(h)
            /\ start = Listed(InsertBefore(WithElt(h, 0), a, NewElt(h)), t, NewElt(h))
         \/ i = 2 /\ kept = a /\ bin[a] = t /\ start = h
         \/ i = 3 /\ kept = b /\ bin[b] = t /\ start = h
    <2>1. \A i \in DOMAIN run : i = 1 \/ i = 2 BY <1>11
    <2>2. 1 \in DOMAIN run /\ 2 \in DOMAIN run BY <1>11
    <2> HIDE DEF run, t, bin
    <2> QED BY <1>9, <1>11, <1>12, <2>1, <2>2 DEF Keeps
<1>15. NewElt(h) \notin Inside(h)
    <2>1. PICK n \in Nat : WellFormed(h, n) BY DEF Sound
    <2>2. 0 \in Nat OBVIOUS
    <2>3. PICK m \in Nat : Grown(h, WithElt(h, 0), NewElt(h), 0, m) BY <2>1, <2>2, WithEltIs
    <2> QED BY <2>3 DEF Grown
<1>16. Joining(h, all, start, a, b, kept, X \ {kept}, bin, t) /\ bin[kept] = t /\ (kept \in X \/ kept \notin Inside(h))
    <2> HIDE DEF bin, t
    <2>1. CASE /\ bin[a] # t /\ bin[b] # t /\ kept = NewElt(h)
               /\ start = Listed(InsertBefore(WithElt(h, 0), a, NewElt(h)), t, NewElt(h))
        <3>1. X \ {kept} = {a, b} /\ kept # a /\ kept # b BY <1>1, <1>15, <2>1
        <3>2. all = Gone(Gone(start, h, a), h, b) BY <1>12, <3>1 DEF Spared
        <3> QED BY <1>9, <1>13, <1>15, <2>1, <3>1, <3>2
    <2>2. CASE kept = a /\ bin[a] = t /\ start = h
        <3>1. X \ {kept} = {b} BY <2>2
        <3>2. all = Gone(h, h, b) BY <1>12, <2>2 DEF Spared
        <3> QED BY <1>10, <1>13, <2>2, <3>1, <3>2
    <2>3. CASE kept = b /\ bin[b] = t /\ start = h
        <3>1. X \ {kept} = {a} BY <2>3
        <3>2. all = Gone(h, h, a) BY <1>12, <2>3 DEF Spared
        <3> QED BY <1>10, <1>13, <2>3, <3>1, <3>2
    <2> QED BY <1>14, <2>1, <2>2, <2>3
<1>17. t = SizeToBin(Upto(h, a, b)) /\ Of(h, a) <= Of(h, b) BY <1>2, <1>8
<1> HIDE DEF X, bin, t, r
<1>18. Collapsed(h, r, a, b, kept, X)
    BY <1>1, <1>4, <1>5, <1>6, <1>9, <1>12, <1>16, <1>17, JoinedIs
<1> QED BY <1>18 DEF X, r

\* Three free blocks become one.
LEMMA CombinedThree ==
    ASSUME NEW h, Sound(h), NEW a \in FreeIn(h), NEW b \in FreeIn(h), NEW c \in FreeIn(h),
           b = Nx(h, a), b # a, c = Nx(h, b), c # b
    PROVE  \E k : Collapsed(h, Combined(h, <<a, b, c>>), a, c, k, {a, b, c})
<1> DEFINE run == <<a, b, c>>
           total == Size(h, a) + Size(h, b) + Size(h, c)
           t == SizeToBin(total)
           bin == BinsWith(h, t)
           X == {a, b, c}
           r == Combined(h, run)
           new == NewElt(h)
<1>1. a \in Inside(h) /\ b \in Inside(h) /\ c \in Inside(h) /\ X \subseteq FreeIn(h) /\ a \in X /\ c \in X BY DEF FreeIn
<1>2. /\ Of(h, a) < Of(h, b) /\ Of(h, b) < Of(h, c)
      /\ Of(h, a) \in Nat /\ Of(h, b) \in Nat /\ Of(h, c) \in Nat /\ h.len \in Nat /\ h.len <= MaxHeapLen
      /\ MaxHeapLen \in Nat /\ Of(h, c) < h.len
      /\ Nx(h, c) \in Inside(h) /\ Pv(h, b) = a /\ Pv(h, c) = b
      /\ (Nx(h, c) # c => Of(h, c) < Of(h, Nx(h, c)))
      /\ (Pv(h, a) # a => Of(h, Pv(h, a)) < Of(h, a))
      /\ Pv(h, a) \in Inside(h) BY <1>1, SoundIs
<1>3. Of(h, Nx(h, c)) \in Nat /\ Of(h, Nx(h, c)) < h.len /\ Of(h, Pv(h, a)) \in Nat BY <1>2, SoundIs
<1>20. a # b /\ a # c /\ b # c /\ Nx(h, c) # a /\ Nx(h, c) # b /\ Pv(h, a) # b /\ Pv(h, a) # c BY <1>2, <1>3
<1>4. Nx(h, c) \in X => Nx(h, c) = c BY <1>20
<1>5. Pv(h, a) \in X => Pv(h, a) = a BY <1>20
<1>6. \A x \in Inside(h) \ X : Nx(h, x) \in X => Nx(h, x) = a
    <2>1. \A x \in Inside(h) : Nx(h, x) # x => Pv(h, Nx(h, x)) = x BY SoundIs
    <2> QED BY <1>2, <2>1
<1>7. Size(h, a) = Of(h, b) - Of(h, a) /\ Size(h, b) = Of(h, c) - Of(h, b) BY SizeIs
<1>8. total = Upto(h, a, c) /\ total \in 1 .. MaxHeapLen /\ t \in Bins
    <2>1. Size(h, c) = (IF Nx(h, c) = c THEN h.len ELSE Of(h, Nx(h, c))) - Of(h, c) BY SizeIs
    <2>2. total = Upto(h, a, c) BY <1>2, <1>3, <1>7, <2>1 DEF Upto
    <2>3. Upto(h, a, c) \in 1 .. MaxHeapLen BY <1>2, <1>3 DEF Upto
    <2> HIDE DEF total
    <2> QED BY <2>2, <2>3, SizesInBins
<1>9. /\ Measured(h, bin) /\ bin[new] = t /\ bin[a] = SizeToBin(Size(h, a)) /\ bin[b] = SizeToBin(Size(h, b))
      /\ bin[c] = SizeToBin(Size(h, c)) BY <1>1, BinsWithIs
<1>10. (bin[a] # t \/ bin[b] # t) /\ (bin[a] # t \/ bin[c] # t) /\ (bin[b] # t \/ bin[c] # t)
    <2>1. Size(h, a) \in 1 .. MaxHeapLen /\ Size(h, b) \in 1 .. MaxHeapLen /\ Size(h, c) \in 1 .. MaxHeapLen
        BY <1>1, SoundSizes
    <2>2. /\ Size(h, a) + Size(h, b) <= total /\ Size(h, a) + Size(h, c) <= total
          /\ Size(h, b) + Size(h, c) <= total BY <1>2, <2>1
    <2> HIDE DEF total, bin
    <2> QED BY <1>8, <1>9, <2>1, <2>2, NotBothInBin
<1>11. DOMAIN run = 1 .. 3 /\ Len(run) = 3 /\ run[1] = a /\ run[2] = b /\ run[3] = c OBVIOUS
<1>12. PICK kept, start, all :
               /\ Keeps(h, run, t, kept, start)
               /\ all = Spared(Spared(Spared(start, h, kept, a), h, kept, b), h, kept, c)
               /\ r = [all EXCEPT !.elts[kept].offset = Of(h, a), !.elts[kept].fi = Fi(start, kept)]
    <2>1. total = TotalOf(h, run) BY <1>11 DEF TotalOf
    <2>2. DOMAIN run \in {1 .. 2, 1 .. 3} BY <1>11
    <2> HIDE DEF total, run, r
    <2>3. PICK kept, start, all : Combines(h, run, kept, start, all, Combined(h, run)) BY <2>2, CombinedAs
    <2>4. all = Spared(Spared(Spared(start, h, kept, a), h, kept, b), h, kept, c) BY <1>11, <2>3 DEF Combines
    <2>5. r = [all EXCEPT !.elts[kept].offset = Of(h, a), !.elts[kept].fi = Fi(start, kept)]
        BY <1>11, <2>3 DEF r, Combines
    <2>6. Keeps(h, run, t, kept, start) BY <2>1, <2>3 DEF Combines
    <2> QED BY <2>4, <2>5, <2>6
<1>13. /\ bin[a] # t /\ bin[b] # t
             => \A s : s = Listed(InsertBefore(WithElt(h, 0), a, new), t, new)
                  => Joining(h, Gone(Gone(s, h, a), h, b), s, a, b, new, {a, b}, bin, t)
       /\ bin[b] # t => Joining(h, Gone(h, h, b), h, a, b, a, {b}, bin, t)
       /\ bin[a] # t => Joining(h, Gone(h, h, a), h, a, b, b, {a}, bin, t)
    <2> HIDE DEF bin, t
    <2> QED BY <1>8, <1>9, <1>20, TwoJoined
<1>14. \E i \in {1, 2, 3, 4} :
         \/ i = 1 /\ bin[a] # t /\ bin[b] # t /\ bin[c] # t /\ kept = new
            /\ start = Listed(InsertBefore(WithElt(h, 0), a, new), t, new)
         \/ i = 2 /\ kept = a /\ bin[a] = t /\ start = h
         \/ i = 3 /\ kept = b /\ bin[b] = t /\ start = h
         \/ i = 4 /\ kept = c /\ bin[c] = t /\ start = h
    <2>1. \A i \in DOMAIN run : i = 1 \/ i = 2 \/ i = 3 BY <1>11
    <2>2. 1 \in DOMAIN run /\ 2 \in DOMAIN run /\ 3 \in DOMAIN run BY <1>11
    <2> HIDE DEF run, t, bin
    <2> QED BY <1>9, <1>11, <1>12, <2>1, <2>2 DEF Keeps
<1>15. new \notin Inside(h)
    <2>1. PICK n \in Nat : WellFormed(h, n) BY DEF Sound
    <2>2. 0 \in Nat OBVIOUS
    <2>3. PICK m \in Nat : Grown(h, WithElt(h, 0), NewElt(h), 0, m) BY <2>1, <2>2, WithEltIs
    <2> QED BY <2>3 DEF Grown
<1>16. Joining(h, all, start, a, c, kept, X \ {kept}, bin, t) /\ bin[kept] = t /\ (kept \in X \/ kept \notin Inside(h))
    <2> HIDE DEF bin, t, new
    <2>1. CASE /\ bin[a] # t /\ bin[b] # t /\ bin[c] # t /\ kept = new
               /\ start = Listed(InsertBefore(WithElt(h, 0), a, new), t, new)
        <3>1. X \ {kept} = {a, b} \cup {c} /\ new # a /\ new # b /\ c # new /\ Nx(h, c) # new BY <1>1, <1>2, <1>15, <2>1
        <3> DEFINE g == Gone(Gone(start, h, a), h, b)
        <3>2. all = Gone(g, h, c) BY <1>12, <2>1, <3>1 DEF Spared
        <3>3. Joining(h, g, start, a, b, new, {a, b}, bin, t) BY <1>13, <2>1
        <3>4. c \notin {a, b} BY <1>20
        <3> HIDE DEF g
        <3>5. Joining(h, Gone(g, h, c), start, a, c, new, {a, b} \cup {c}, bin, t)
            BY <1>1, <1>9, <1>20, <2>1, <3>1, <3>3, <3>4, JoiningNext DEF Gone
        <3> QED BY <1>9, <1>15, <2>1, <3>1, <3>2, <3>5
    <2>2. CASE kept = a /\ bin[a] = t /\ start = h
        <3>1. X \ {kept} = {b} \cup {c} /\ bin[b] # t /\ bin[c] # t BY <1>10, <1>20, <2>2
        <3> DEFINE g == Gone(h, h, b)
        <3>2. all = Gone(g, h, c) BY <1>12, <1>20, <2>2 DEF Spared
        <3>3. Joining(h, g, h, a, b, a, {b}, bin, t) BY <1>13, <3>1
        <3>4. c \notin {b} BY <1>20
        <3> HIDE DEF g
        <3>5. Joining(h, Gone(g, h, c), h, a, c, a, {b} \cup {c}, bin, t)
            BY <1>1, <1>9, <1>20, <3>1, <3>3, <3>4, JoiningNext DEF Gone
        <3> QED BY <2>2, <3>1, <3>2, <3>5
    <2>3. CASE kept = b /\ bin[b] = t /\ start = h
        <3>1. X \ {kept} = {a} \cup {c} /\ bin[a] # t /\ bin[c] # t BY <1>10, <1>20, <2>3
        <3> DEFINE g == Gone(h, h, a)
        <3>2. all = Gone(g, h, c) BY <1>12, <1>20, <2>3 DEF Spared
        <3>3. Joining(h, g, h, a, b, b, {a}, bin, t) BY <1>13, <3>1
        <3>4. c \notin {a} BY <1>20
        <3> HIDE DEF g
        <3>5. Joining(h, Gone(g, h, c), h, a, c, b, {a} \cup {c}, bin, t)
            BY <1>1, <1>9, <1>20, <3>1, <3>3, <3>4, JoiningNext DEF Gone
        <3> QED BY <2>3, <3>1, <3>2, <3>5
    <2>4. CASE kept = c /\ bin[c] = t /\ start = h
        <3>1. X \ {kept} = {a} \cup {b} /\ bin[a] # t /\ bin[b] # t BY <1>10, <1>20, <2>4
        <3> DEFINE g == Gone(h, h, a)
        <3>2. all = Gone(g, h, b) BY <1>12, <1>20, <2>4 DEF Spared
        <3>3. Joining(h, g, h, a, b, b, {a}, bin, t) BY <1>13, <3>1
        <3>4. c \notin {a} /\ b \notin {a} BY <1>20
        <3> HIDE DEF g
        <3>5. Joining(h, Gone(g, h, b), h, a, c, c, {a} \cup {b}, bin, t)
            BY <1>1, <1>9, <1>20, <3>1, <3>3, <3>4, JoiningIntoNext DEF Gone
        <3> QED BY <2>4, <3>1, <3>2, <3>5
    <2> QED BY <1>14, <2>1, <2>2, <2>3, <2>4
<1>17. t = SizeToBin(Upto(h, a, c)) /\ Of(h, a) <= Of(h, c) BY <1>2, <1>8
<1> HIDE DEF X, bin, t, r
<1>18. Collapsed(h, r, a, c, kept, X)
    BY <1>1, <1>4, <1>5, <1>6, <1>9, <1>12, <1>16, <1>17, JoinedIs
<1> QED BY <1>18 DEF X, r

-----------------------------------------------------------------------------
(* Deallocation *)

\* No two blocks that follow each other are both free.
Apart(h) == \A e \in Inside(h) : Nx(h, e) # e => ~ (Fr(h, e) /\ Fr(h, Nx(h, e)))

\* The objects.
Used(h) == {e \in Inside(h) : ~ Fr(h, e)}

\* A heap in which e was listed as free and nothing else was done.
ListedSoundly(h, g, e) ==
    /\ Sound(g) /\ Inside(g) = Inside(h) /\ g.len = h.len
    /\ \A x \in Inside(h) : /\ Of(g, x) = Of(h, x) /\ Nx(g, x) = Nx(h, x) /\ Pv(g, x) = Pv(h, x)
                            /\ Size(g, x) = Size(h, x) /\ Fr(g, x) = (Fr(h, x) \/ x = e)

\* It is as sound.
LEMMA ListedSound ==
    ASSUME NEW h, Sound(h), NEW e \in Used(h), NEW g, g = Listed(h, SizeToBin(Size(h, e)), e)
    PROVE  ListedSoundly(h, g, e)
<1> DEFINE t == SizeToBin(Size(h, e))
           bin == BinsOf(h)
           c == BinsOf(g)
           F == FreeIn(h)
<1>1. PICK n \in Nat : WellFormed(h, n) BY DEF Sound
<1>2. /\ Linked(h, Inside(h)) /\ Placed(h) /\ h.len <= MaxHeapLen /\ Binned(h, F, bin) BY DEF Sound
<1>3. e \in Inside(h) /\ e \notin F /\ F \subseteq Inside(h) BY DEF Used, FreeIn
<1>4. t \in Bins BY <1>3, SoundSizes
<1>5. Inside(h) \subseteq 0 .. n - 1 /\ h \in HeapsOf(n) BY <1>1, InsideIs DEF WellFormed
<1>6. e \in 0 .. n - 1 /\ F \subseteq 0 .. n - 1 BY <1>3, <1>5
<1>0. g = Listed(h, t, e) OBVIOUS
<1> HIDE DEF t
<1>7. OnList(h, g, n, t, e) BY <1>0, <1>4, <1>5, <1>6, ListedAs
<1>8. SameButLists(h, g, n) /\ Fr(g, e) /\ \A x \in 0 .. n - 1 : x # e => Fr(g, x) = Fr(h, x) BY <1>7 DEF OnList
<1>9. WellFormed(g, n) /\ Inside(g) = Inside(h) /\ Linked(g, Inside(h)) BY <1>1, <1>2, <1>8, ListsAside
<1>10. g.len = h.len /\ g.head = h.head
       /\ \A x \in Inside(h) : Of(g, x) = Of(h, x) /\ Nx(g, x) = Nx(h, x) /\ Pv(g, x) = Pv(h, x)
    BY <1>5, <1>8 DEF SameButLists
<1>11. h.head \in Inside(h) /\ \A x \in Inside(h) : Nx(h, x) \in Inside(h) /\ Fr(h, x) \in BOOLEAN BY SoundIs
<1>12. \A x \in Inside(h) : Size(g, x) = Size(h, x) BY <1>10, <1>11, SizeIs
<1>13. Placed(g) BY <1>2, <1>9, <1>10, <1>11 DEF Placed
<1>14. \A x \in Inside(h) : Fr(g, x) = (Fr(h, x) \/ x = e)
    <2> TAKE x \in Inside(h)
    <2>1. Fr(g, x) \in BOOLEAN
        <3>1. g.elts \in [0 .. n - 1 -> Blocks] /\ x \in 0 .. n - 1 BY <1>5, <1>9, InsideIs
        <3> QED BY <3>1 DEF Blocks, Fr
    <2>2. CASE x = e BY <1>8, <2>1, <2>2
    <2>3. CASE x # e BY <1>5, <1>8, <1>11, <2>3
    <2> QED BY <2>2, <2>3
<1>15. FreeIn(g) = F \cup {e} BY <1>3, <1>9, <1>14 DEF FreeIn
<1>16. (\A x \in F : c[x] = bin[x]) /\ c[e] = t BY <1>3, <1>9, <1>12 DEF BinsOf, t
<1> HIDE DEF F, bin, c
<1>17. Binned(g, F \cup {e}, c)
    <2>1. h \in HeapsOf(n) /\ F \subseteq 0 .. n - 1 /\ e \in 0 .. n - 1 /\ e \notin F BY <1>3, <1>5, <1>6
    <2>2. Binned(Listed(h, t, e), F \cup {e}, c) BY <2>1, <1>2, <1>4, <1>16, ListedBins
    <2> QED BY <1>0, <2>2
<1>18. Sound(g) BY <1>2, <1>9, <1>10, <1>13, <1>15, <1>17 DEF Sound, c
<1> QED BY <1>9, <1>10, <1>12, <1>14, <1>18 DEF ListedSoundly

\* A merge leaves no two free blocks next to each other when there were none
\* but the merged ones.
LEMMA CollapsedApart ==
    ASSUME NEW g, Sound(g), NEW r, NEW X, X \subseteq FreeIn(g), NEW a \in X, NEW z \in X, NEW k,
           Collapsed(g, r, a, z, k, X),
           \A x \in Inside(g) \ X : Fr(g, x) /\ Nx(g, x) # x => ~ Fr(g, Nx(g, x)),
           Nx(g, z) = z \/ ~ Fr(g, Nx(g, z))
    PROVE  /\ Sound(r) /\ Apart(r) /\ r.len = g.len /\ Used(r) = Used(g)
           /\ \A x \in Used(g) : Of(r, x) = Of(g, x) /\ Size(r, x) = Size(g, x)
<1>1. /\ Sound(r) /\ r.len = g.len /\ Inside(r) = (Inside(g) \ X) \cup {k} /\ k \notin Inside(g) \ X
      /\ Fr(r, k) /\ Nx(r, k) = (IF Nx(g, z) = z THEN k ELSE Nx(g, z))
      /\ \A x \in Inside(g) \ X : /\ Of(r, x) = Of(g, x) /\ Fr(r, x) = Fr(g, x) /\ Size(r, x) = Size(g, x)
                                  /\ Nx(r, x) = IF Nx(g, x) = a THEN k ELSE Nx(g, x)
    BY DEF Collapsed
<1>2. \A x \in X : Fr(g, x) /\ x \in Inside(g) BY DEF FreeIn
<1>3. \A x \in Inside(g) : Nx(g, x) \in Inside(g) BY SoundIs
<1>4. ASSUME NEW x \in Inside(r), Nx(r, x) # x PROVE ~ (Fr(r, x) /\ Fr(r, Nx(r, x)))
    <2>1. CASE x = k
        <3>1. Nx(g, z) # z /\ Nx(r, k) = Nx(g, z) /\ ~ Fr(g, Nx(g, z)) BY <1>1, <1>4, <2>1
        <3>2. Nx(g, z) \in Inside(g) \ X BY <1>2, <1>3, <3>1
        <3> QED BY <1>1, <2>1, <3>1, <3>2
    <2>2. CASE x # k
        <3>1. x \in Inside(g) \ X BY <1>1, <2>2
        <3>2. CASE Nx(g, x) = a
            <4>1. Nx(g, x) # x /\ Fr(g, a) BY <1>2, <3>1, <3>2
            <4> QED BY <1>1, <3>1, <3>2, <4>1
        <3>3. CASE Nx(g, x) # a
            <4>1. Nx(r, x) = Nx(g, x) /\ Nx(g, x) # x BY <1>1, <1>4, <3>1, <3>3
            <4>2. Fr(g, x) => ~ Fr(g, Nx(g, x)) BY <3>1, <4>1
            <4>3. Fr(g, x) => Nx(g, x) \in Inside(g) \ X BY <1>2, <1>3, <3>1, <4>2
            <4> QED BY <1>1, <3>1, <4>1, <4>2, <4>3
        <3> QED BY <3>2, <3>3
    <2> QED BY <2>1, <2>2
<1>5. \A x \in Used(g) : x \in Inside(g) \ X BY <1>2 DEF Used
<1>6. ASSUME NEW x PROVE x \in Used(r) <=> x \in Used(g) BY <1>1, <1>5 DEF Used
<1>7. Used(r) = Used(g) BY <1>6
<1>8. Apart(r) BY <1>4 DEF Apart
<1> QED BY <1>1, <1>5, <1>7, <1>8

\* A heap after e was freed: everything else stays where it is.
Freed(h, r, e) ==
    /\ Sound(r) /\ Apart(r) /\ r.len = h.len /\ Used(r) = Used(h) \ {e}
    /\ \A x \in Used(r) : Of(r, x) = Of(h, x) /\ Size(r, x) = Size(h, x)

\* A few sequences joined.
LEMMA Joins ==
    ASSUME NEW p, NEW e, NEW n
    PROVE  /\ <<p>> \o <<e>> \o <<>> = <<p, e>> /\ <<>> \o <<e>> \o <<n>> = <<e, n>>
           /\ <<p>> \o <<e>> \o <<n>> = <<p, e, n>>
           /\ <<p>> \o <<>> # <<>> /\ <<>> \o <<n>> # <<>> /\ <<p>> \o <<n>> # <<>>
<1> DEFINE S == {p, e, n}
           a == <<p>>
           b == <<e>>
           c == <<n>>
<1>1. /\ a \in Seq(S) /\ b \in Seq(S) /\ c \in Seq(S)
      /\ Len(a) = 1 /\ Len(b) = 1 /\ Len(c) = 1 /\ a[1] = p /\ b[1] = e /\ c[1] = n OBVIOUS
<1>2. /\ <<p, e>> \in Seq(S) /\ <<e, n>> \in Seq(S) /\ <<p, e, n>> \in Seq(S) /\ <<p, n>> \in Seq(S)
      /\ Len(<<p, e>>) = 2 /\ Len(<<e, n>>) = 2 /\ Len(<<p, e, n>>) = 3 OBVIOUS
<1> HIDE DEF a, b, c
<1>3. a \o b = <<p, e>>
    <2>1. /\ a \o b \in Seq(S) /\ Len(a \o b) = 2
          /\ \A i \in 1 .. 2 : (a \o b)[i] = IF i <= 1 THEN a[i] ELSE b[i - 1] BY <1>1, ConcatProperties
    <2>2. \A i \in 1 .. 2 : (a \o b)[i] = <<p, e>>[i] BY <1>1, <2>1
    <2> QED BY <1>2, <2>1, <2>2, SeqEqual
<1>4. b \o c = <<e, n>>
    <2>1. /\ b \o c \in Seq(S) /\ Len(b \o c) = 2
          /\ \A i \in 1 .. 2 : (b \o c)[i] = IF i <= 1 THEN b[i] ELSE c[i - 1] BY <1>1, ConcatProperties
    <2>2. \A i \in 1 .. 2 : (b \o c)[i] = <<e, n>>[i] BY <1>1, <2>1
    <2> QED BY <1>2, <2>1, <2>2, SeqEqual
<1> DEFINE d == <<p, e>>
<1>5. d \in Seq(S) /\ Len(d) = 2 /\ d[1] = p /\ d[2] = e /\ a \o b = d BY <1>2, <1>3
<1> HIDE DEF d
<1>6. d \o c = <<p, e, n>>
    <2>1. /\ d \o c \in Seq(S) /\ Len(d \o c) = 3
          /\ \A i \in 1 .. 3 : (d \o c)[i] = IF i <= 2 THEN d[i] ELSE c[i - 2] BY <1>1, <1>5, ConcatProperties
    <2>2. \A i \in 1 .. 3 : (d \o c)[i] = <<p, e, n>>[i]
        <3> TAKE i \in 1 .. 3
        <3>1. i = 1 \/ i = 2 \/ i = 3 OBVIOUS
        <3> QED BY <1>1, <1>5, <2>1, <3>1
    <2> QED BY <1>2, <2>1, <2>2, SeqEqual
<1>7. /\ a \o <<>> = a /\ <<>> \o b = b /\ <<>> \o c = c /\ d \o <<>> = d BY <1>1, <1>5, ConcatEmptySeq
<1>8. Len(a \o c) = 2 BY <1>1, ConcatProperties
<1>9. a # <<>> /\ c # <<>> /\ a \o c # <<>> BY <1>1, <1>8
<1>10. a \o b \o <<>> = <<p, e>> BY <1>5, <1>7 DEF d
<1>11. <<>> \o b \o c = <<e, n>> BY <1>4, <1>7
<1>12. a \o b \o c = <<p, e, n>> BY <1>5, <1>6
<1> QED BY <1>7, <1>9, <1>10, <1>11, <1>12 DEF a, b, c

\* dealloc_elt.
LEMMA DeallocIs ==
    ASSUME NEW h, Sound(h), Apart(h), NEW e \in Used(h)
    PROVE  Freed(h, Dealloc(h, e), e)
<1> DEFINE g == Listed(h, SizeToBin(Size(h, e)), e)
           p == Pv(g, e)
           n == Nx(g, e)
           down == IF p # e /\ Fr(g, p) THEN <<p>> ELSE <<>>
           up == IF n # e /\ Fr(g, n) THEN <<n>> ELSE <<>>
           r == Dealloc(h, e)
<1>1. ListedSoundly(h, g, e) BY ListedSound
<1>2. r = IF down \o up = <<>> THEN g ELSE Combined(g, down \o <<e>> \o up) BY DEF Dealloc, Pv, Nx, Fr
<1> HIDE DEF g, r
<1>3. /\ Sound(g) /\ Inside(g) = Inside(h) /\ g.len = h.len
      /\ \A x \in Inside(h) : /\ Of(g, x) = Of(h, x) /\ Nx(g, x) = Nx(h, x) /\ Pv(g, x) = Pv(h, x)
                              /\ Size(g, x) = Size(h, x) /\ Fr(g, x) = (Fr(h, x) \/ x = e)
    BY <1>1 DEF ListedSoundly
<1>4. e \in Inside(h) /\ ~ Fr(h, e) /\ Fr(g, e) /\ e \in FreeIn(g) BY <1>3 DEF Used, FreeIn
<1>5. /\ p \in Inside(g) /\ n \in Inside(g) /\ (p # e => Nx(g, p) = e) /\ (n # e => Pv(g, n) = e)
      /\ (p # e => Of(g, p) < Of(g, e)) /\ (n # e => Of(g, e) < Of(g, n))
      /\ Of(g, p) \in Nat /\ Of(g, n) \in Nat /\ Of(g, e) \in Nat BY <1>3, <1>4, SoundIs
<1>6. \A x \in Inside(g) : Nx(g, x) \in Inside(g) /\ (Nx(g, x) # x => Pv(g, Nx(g, x)) = x) BY <1>3, SoundIs
<1>7. \A x \in Inside(g) : Nx(g, x) # x /\ x # e /\ Nx(g, x) # e => ~ (Fr(g, x) /\ Fr(g, Nx(g, x)))
    BY <1>3, <1>6 DEF Apart
<1>8. Used(g) = Used(h) \ {e} BY <1>3, <1>4 DEF Used
<1>9. SUFFICES /\ Sound(r) /\ Apart(r) /\ r.len = g.len /\ Used(r) = Used(g)
               /\ \A x \in Used(g) : Of(r, x) = Of(g, x) /\ Size(r, x) = Size(g, x)
    <2>1. Used(g) \subseteq Inside(h) BY <1>3 DEF Used
    <2>2. \A x \in Used(r) : Of(r, x) = Of(h, x) /\ Size(r, x) = Size(h, x) BY <1>3, <2>1
    <2>3. Used(r) = Used(h) \ {e} /\ r.len = h.len BY <1>3, <1>8
    <2>4. Freed(h, r, e) BY <2>2, <2>3 DEF Freed
    <2> QED BY <2>4 DEF r
<1> HIDE DEF p, n
<1>10. p = Pv(g, e) /\ n = Nx(g, e) BY DEF p, n
<1>11. CASE ~ (p # e /\ Fr(g, p)) /\ ~ (n # e /\ Fr(g, n))
    <2>1. r = g BY <1>2, <1>11
    <2>2. Apart(g)
        <3> SUFFICES ASSUME NEW x \in Inside(g), Nx(g, x) # x, Fr(g, x), Fr(g, Nx(g, x)) PROVE FALSE BY DEF Apart
        <3>1. CASE x = e BY <1>10, <1>11, <3>1
        <3>2. CASE x # e /\ Nx(g, x) = e
            <4>1. Pv(g, e) = x BY <1>6, <3>2
            <4> QED BY <1>10, <1>11, <3>2, <4>1
        <3>3. CASE x # e /\ Nx(g, x) # e BY <1>7, <3>3
        <3> QED BY <3>1, <3>2, <3>3
    <2> QED BY <1>3, <2>1, <2>2
<1>12. CASE (p # e /\ Fr(g, p)) /\ ~ (n # e /\ Fr(g, n))
    <2> DEFINE X == {p, e}
    <2>1. down \o <<e>> \o up = <<p, e>> /\ down \o up # <<>>
        <3>1. down = <<p>> /\ up = <<>> BY <1>12
        <3> HIDE DEF down, up
        <3>2. <<p>> \o <<e>> \o <<>> = <<p, e>> /\ <<p>> \o <<>> # <<>> BY Joins
        <3> QED BY <3>1, <3>2
    <2>2. r = Combined(g, <<p, e>>) BY <1>2, <2>1
    <2>3. p \in FreeIn(g) /\ e = Nx(g, p) /\ e # p BY <1>5, <1>12 DEF FreeIn
    <2>4. PICK k : Collapsed(g, r, p, e, k, X) BY <1>3, <1>4, <2>2, <2>3, CombinedTwo
    <2>5. X \subseteq FreeIn(g) /\ p \in X /\ e \in X BY <1>4, <2>3
    <2>6. \A x \in Inside(g) \ X : Fr(g, x) /\ Nx(g, x) # x => ~ Fr(g, Nx(g, x)) BY <1>6, <1>7, <1>10
    <2>7. Nx(g, e) = e \/ ~ Fr(g, Nx(g, e)) BY <1>10, <1>12
    <2> HIDE DEF X
    <2> QED BY <1>3, <2>4, <2>5, <2>6, <2>7, CollapsedApart
<1>13. CASE ~ (p # e /\ Fr(g, p)) /\ (n # e /\ Fr(g, n))
    <2> DEFINE X == {e, n}
    <2>1. down \o <<e>> \o up = <<e, n>> /\ down \o up # <<>>
        <3>1. down = <<>> /\ up = <<n>> BY <1>13
        <3> HIDE DEF down, up
        <3>2. <<>> \o <<e>> \o <<n>> = <<e, n>> /\ <<>> \o <<n>> # <<>> BY Joins
        <3> QED BY <3>1, <3>2
    <2>2. r = Combined(g, <<e, n>>) BY <1>2, <2>1
    <2>3. n \in FreeIn(g) /\ n = Nx(g, e) /\ n # e BY <1>5, <1>10, <1>13 DEF FreeIn
    <2>4. PICK k : Collapsed(g, r, e, n, k, X) BY <1>3, <1>4, <2>2, <2>3, CombinedTwo
    <2>5. X \subseteq FreeIn(g) /\ e \in X /\ n \in X BY <1>4, <2>3
    <2>6. \A x \in Inside(g) \ X : Fr(g, x) /\ Nx(g, x) # x => ~ Fr(g, Nx(g, x)) BY <1>6, <1>7, <1>10, <1>13
    <2>7. Nx(g, n) = n \/ ~ Fr(g, Nx(g, n))
        <3>1. Nx(g, n) # e
            <4>1. Nx(g, n) # n => Of(g, n) < Of(g, Nx(g, n)) BY <1>3, <1>5, SoundIs
            <4> QED BY <1>5, <1>13, <4>1
        <3> QED BY <1>5, <1>7, <1>13, <3>1
    <2> HIDE DEF X
    <2> QED BY <1>3, <2>4, <2>5, <2>6, <2>7, CollapsedApart
<1>14. CASE (p # e /\ Fr(g, p)) /\ (n # e /\ Fr(g, n))
    <2> DEFINE X == {p, e, n}
    <2>1. down \o <<e>> \o up = <<p, e, n>> /\ down \o up # <<>>
        <3>1. down = <<p>> /\ up = <<n>> BY <1>14
        <3> HIDE DEF down, up
        <3>2. <<p>> \o <<e>> \o <<n>> = <<p, e, n>> /\ <<p>> \o <<n>> # <<>> BY Joins
        <3> QED BY <3>1, <3>2
    <2>2. r = Combined(g, <<p, e, n>>) BY <1>2, <2>1
    <2>3. n \in FreeIn(g) /\ n = Nx(g, e) /\ n # e /\ p \in FreeIn(g) /\ e = Nx(g, p) /\ e # p
        BY <1>5, <1>10, <1>14 DEF FreeIn
    <2>4. PICK k : Collapsed(g, r, p, n, k, X) BY <1>3, <1>4, <2>2, <2>3, CombinedThree
    <2>5. X \subseteq FreeIn(g) /\ p \in X /\ n \in X BY <1>4, <2>3
    <2>6. \A x \in Inside(g) \ X : Fr(g, x) /\ Nx(g, x) # x => ~ Fr(g, Nx(g, x)) BY <1>6, <1>7, <1>10
    <2>7. Nx(g, n) = n \/ ~ Fr(g, Nx(g, n))
        <3>1. Nx(g, n) # e
            <4>1. Nx(g, n) # n => Of(g, n) < Of(g, Nx(g, n)) BY <1>3, <1>5, SoundIs
            <4> QED BY <1>5, <1>14, <4>1
        <3> QED BY <1>5, <1>7, <1>14, <3>1
    <2> HIDE DEF X
    <2> QED BY <1>3, <2>4, <2>5, <2>6, <2>7, CollapsedApart
<1> QED BY <1>11, <1>12, <1>13, <1>14

-----------------------------------------------------------------------------
(* Blocks cut in two *)

\* Block e of h is in g two blocks, itself and new.
Cut(h, g, e, new) ==
    /\ \E m \in Nat : WellFormed(g, m)
    /\ Linked(g, Inside(g)) /\ Placed(g) /\ g.len = h.len /\ g.lists = h.lists
    /\ new \notin Inside(h) /\ Inside(g) = Inside(h) \cup {new} /\ ~ Fr(g, new)
    /\ \A x \in Inside(h) : Fr(g, x) = Fr(h, x) /\ Fi(g, x) = Fi(h, x)
    /\ \A x \in Inside(h) \ {e} : /\ Of(g, x) = Of(h, x) /\ Size(g, x) = Size(h, x)
                                  /\ Nx(g, x) \in {Nx(h, x), new}

\* The new one behind it begins at o.
CutBehind(h, g, e, new, o) ==
    /\ Cut(h, g, e, new) /\ Of(g, e) = Of(h, e) /\ Size(g, e) = o - Of(h, e)
    /\ Of(g, new) = o /\ Size(g, new) = Of(h, e) + Size(h, e) - o /\ Nx(g, e) = new

\* An element inserted after e cuts it.
LEMMA CutAfterIs ==
    ASSUME NEW h, Sound(h), NEW e \in Inside(h), NEW o \in Nat, Of(h, e) < o, o < Of(h, e) + Size(h, e)
    PROVE  CutBehind(h, InsertAfter(WithElt(h, o), e, NewElt(h)), e, NewElt(h), o)
<1> DEFINE new == NewElt(h)
           g == InsertAfter(WithElt(h, o), e, new)
<1>1. PICK n \in Nat : WellFormed(h, n) BY DEF Sound
<1>2. Linked(h, Inside(h)) /\ Placed(h) BY DEF Sound
<1>3. PICK m \in Nat : PutAfter(h, g, e, new, o, m) BY <1>1, <1>2, PutAfterIs
<1> HIDE DEF g, new
<1>4. /\ WellFormed(g, m) /\ new \in 0 .. m - 1 /\ new \notin Inside(h) /\ Inside(g) = Inside(h) \cup {new}
      /\ Linked(g, Inside(g)) /\ g.lists = h.lists /\ g.len = h.len
      /\ Of(g, new) = o /\ ~ Fr(g, new) /\ Pv(g, new) = e
      /\ Nx(g, new) = (IF Nx(h, e) = e THEN new ELSE Nx(h, e))
      /\ \A x \in Inside(h) :
           /\ Of(g, x) = Of(h, x) /\ Fr(g, x) = Fr(h, x) /\ Fi(g, x) = Fi(h, x)
           /\ Pv(g, x) = (IF Pv(h, x) = e /\ x # e THEN new ELSE Pv(h, x))
           /\ Nx(g, x) = (IF x = e THEN new ELSE Nx(h, x)) BY <1>3 DEF PutAfter
<1>5. /\ h.len \in Nat /\ h.head \in Inside(h) /\ Of(h, h.head) = 0
      /\ \A x \in Inside(h) : /\ Nx(h, x) \in Inside(h) /\ Pv(h, x) \in Inside(h)
                              /\ Of(h, x) \in Nat /\ Of(h, x) < h.len
                              /\ (Nx(h, x) # x => Of(h, x) < Of(h, Nx(h, x)))
                              /\ (Pv(h, x) # x => Nx(h, Pv(h, x)) = x) BY SoundIs
<1>6. Size(h, e) = (IF Nx(h, e) = e THEN h.len ELSE Of(h, Nx(h, e))) - Of(h, e) BY SizeIs
<1>7. Nx(g, e) = new /\ new # e BY <1>4
<1>8. Size(g, e) = o - Of(h, e) BY <1>4, <1>7, SizeIs
<1>9. Size(g, new) = Of(h, e) + Size(h, e) - o
    <2>1. Size(g, new) = (IF Nx(g, new) = new THEN g.len ELSE Of(g, Nx(g, new))) - o BY <1>4, SizeIs
    <2>2. CASE Nx(h, e) = e BY <1>4, <1>5, <1>6, <2>1, <2>2
    <2>3. CASE Nx(h, e) # e
        <3>1. Nx(g, new) # new /\ Of(g, Nx(g, new)) = Of(h, Nx(h, e)) /\ Of(h, Nx(h, e)) \in Nat BY <1>4, <1>5, <2>3
        <3> QED BY <1>5, <1>6, <2>1, <2>3, <3>1
    <2> QED BY <2>2, <2>3
<1>10. ASSUME NEW x \in Inside(h) \ {e} PROVE Nx(g, x) = Nx(h, x) /\ Size(g, x) = Size(h, x)
    <2>1. Nx(g, x) = Nx(h, x) /\ Of(g, Nx(h, x)) = Of(h, Nx(h, x)) /\ Of(g, x) = Of(h, x) BY <1>4, <1>5
    <2> QED BY <1>4, <2>1, SizeIs
<1>11. Placed(g)
    <2>1. Of(g, g.head) = 0
        <3>1. g.head \in Inside(g) /\ Pv(g, g.head) = g.head BY <1>4 DEF Linked
        <3>2. g.head # new /\ g.head \in Inside(h) BY <1>4, <1>7, <3>1
        <3>3. Pv(h, g.head) = g.head BY <1>4, <3>1, <3>2
        <3>4. g.head = h.head BY <1>2, <3>2, <3>3 DEF Linked
        <3> QED BY <1>4, <1>5, <3>4
    <2>2. ASSUME NEW x \in Inside(g) PROVE Of(g, x) < g.len /\ (Nx(g, x) # x => Of(g, x) < Of(g, Nx(g, x)))
        <3>1. CASE x = new
            <4>1. Nx(h, e) # e => Of(h, Nx(h, e)) \in Nat /\ Of(h, Nx(h, e)) < h.len
                                  /\ Of(g, Nx(h, e)) = Of(h, Nx(h, e)) BY <1>4, <1>5
            <4>2. Of(h, e) + Size(h, e) = (IF Nx(h, e) = e THEN h.len ELSE Of(h, Nx(h, e))) BY <1>5, <1>6
            <4>3. o < h.len /\ (Nx(h, e) # e => o < Of(h, Nx(h, e))) BY <1>5, <4>1, <4>2
            <4> QED BY <1>4, <3>1, <4>1, <4>3
        <3>2. CASE x = e BY <1>4, <1>5, <1>7, <3>2
        <3>3. CASE x # new /\ x # e
            <4>1. x \in Inside(h) \ {e} /\ Nx(h, x) \in Inside(h) BY <1>4, <1>5, <3>3
            <4> QED BY <1>4, <1>5, <1>10, <4>1
        <3> QED BY <3>1, <3>2, <3>3
    <2> QED BY <2>1, <2>2 DEF Placed
<1>12. \A x \in Inside(h) \ {e} : Nx(g, x) \in {Nx(h, x), new} BY <1>10
<1>13. Cut(h, g, e, new) BY <1>4, <1>10, <1>11, <1>12 DEF Cut
<1>14. CutBehind(h, g, e, new, o) BY <1>4, <1>7, <1>8, <1>9, <1>13 DEF CutBehind
<1> QED BY <1>14 DEF g, new

\* The new one in front of it ends at o.
CutAhead(h, g, e, new, o) ==
    /\ Cut(h, g, e, new) /\ Of(g, e) = o /\ Size(g, e) = Of(h, e) + Size(h, e) - o
    /\ Of(g, new) = Of(h, e) /\ Size(g, new) = o - Of(h, e)

\* An element inserted before e cuts it when e was moved.
LEMMA CutBeforeIs ==
    ASSUME NEW h, Sound(h), NEW e \in Inside(h), NEW o \in Nat, Of(h, e) < o, o < Of(h, e) + Size(h, e),
           NEW moved, moved = [h EXCEPT !.elts[e].offset = o]
    PROVE  /\ NewElt(moved) = NewElt(h)
           /\ CutAhead(h, InsertBefore(WithElt(moved, Of(h, e)), e, NewElt(moved)), e, NewElt(moved), o)
<1> DEFINE new == NewElt(moved)
           g == InsertBefore(WithElt(moved, Of(h, e)), e, new)
<1>1. PICK n \in Nat : WellFormed(h, n) BY DEF Sound
<1>2. Linked(h, Inside(h)) /\ Placed(h) BY DEF Sound
<1>5. /\ h.len \in Nat /\ h.head \in Inside(h) /\ Of(h, h.head) = 0
      /\ \A x \in Inside(h) : /\ Nx(h, x) \in Inside(h) /\ Pv(h, x) \in Inside(h)
                              /\ Of(h, x) \in Nat /\ Of(h, x) < h.len
                              /\ (Nx(h, x) # x => Of(h, x) < Of(h, Nx(h, x)) /\ Pv(h, Nx(h, x)) = x)
                              /\ (Pv(h, x) # x => Of(h, Pv(h, x)) < Of(h, x) /\ Nx(h, Pv(h, x)) = x) BY SoundIs
<1>20. e \in 0 .. n - 1 /\ Inside(h) \subseteq 0 .. n - 1 /\ h.elts \in [0 .. n - 1 -> Blocks] /\ h \in HeapsOf(n)
    BY <1>1, InsideIs DEF WellFormed
<1>21. moved = [h EXCEPT !.elts[e].offset = o, !.elts[e].fi = Fi(h, e)] /\ Fi(h, e) \in Nat
    <2>1. h.elts[e] \in Blocks BY <1>20
    <2>2. Fi(h, e) \in Nat BY <2>1 DEF Blocks, Fi
    <2>3. [h.elts[e] EXCEPT !.offset = o] = [h.elts[e] EXCEPT !.offset = o, !.fi = Fi(h, e)]
        BY <2>1 DEF Blocks, Fi
    <2>4. moved = [h EXCEPT !.elts = [h.elts EXCEPT ![e] = [h.elts[e] EXCEPT !.offset = o]]] BY <1>20
    <2>5. [h EXCEPT !.elts[e].offset = o, !.elts[e].fi = Fi(h, e)]
            = [h EXCEPT !.elts = [h.elts EXCEPT ![e] = [h.elts[e] EXCEPT !.offset = o, !.fi = Fi(h, e)]]] BY <1>20
    <2> QED BY <2>2, <2>3, <2>4, <2>5
<1>22. PlacedAt(h, moved, n, e, o, Fi(h, e)) BY <1>1, <1>20, <1>21, PlaceSet
<1>23. /\ WellFormed(moved, n) /\ Inside(moved) = Inside(h) /\ moved.lists = h.lists /\ moved.len = h.len
       /\ moved.head = h.head /\ moved.tail = h.tail
       /\ \A x \in Inside(h) : /\ Nx(moved, x) = Nx(h, x) /\ Pv(moved, x) = Pv(h, x) /\ Fr(moved, x) = Fr(h, x)
                               /\ Of(moved, x) = (IF x = e THEN o ELSE Of(h, x)) /\ Fi(moved, x) = Fi(h, x)
    BY <1>20, <1>22 DEF PlacedAt
<1>24. Linked(moved, Inside(moved)) BY <1>2, <1>5, <1>23 DEF Linked
<1>25. NewElt(moved) = NewElt(h)
    <2>1. DOMAIN moved.elts = DOMAIN h.elts BY <1>1, <1>23, InsideIs
    <2>2. moved.freeElts = h.freeElts BY <1>20
    <2> QED BY <2>1, <2>2 DEF NewElt
<1>26. Of(h, e) \in Nat BY <1>5
<1>3. PICK m \in Nat : PutBefore(moved, g, e, new, Of(h, e), m) BY <1>23, <1>24, <1>26, PutBeforeIs
<1> HIDE DEF g, new
<1>4. /\ WellFormed(g, m) /\ new \notin Inside(h) /\ Inside(g) = Inside(h) \cup {new}
      /\ Linked(g, Inside(g)) /\ g.lists = h.lists /\ g.len = h.len
      /\ Of(g, new) = Of(h, e) /\ ~ Fr(g, new) /\ Nx(g, new) = e
      /\ Pv(g, new) = (IF Pv(h, e) = e THEN new ELSE Pv(h, e))
      /\ \A x \in Inside(h) :
           /\ Of(g, x) = (IF x = e THEN o ELSE Of(h, x)) /\ Fr(g, x) = Fr(h, x) /\ Fi(g, x) = Fi(h, x)
           /\ Nx(g, x) = (IF Nx(h, x) = e /\ x # e THEN new ELSE Nx(h, x))
           /\ Pv(g, x) = (IF x = e THEN new ELSE Pv(h, x)) BY <1>3, <1>23 DEF PutBefore
<1>6. Size(h, e) = (IF Nx(h, e) = e THEN h.len ELSE Of(h, Nx(h, e))) - Of(h, e) BY SizeIs
<1>7. Nx(g, e) = Nx(h, e) /\ new # e BY <1>4
<1>27. Of(h, e) + Size(h, e) = (IF Nx(h, e) = e THEN h.len ELSE Of(h, Nx(h, e)))
    <2>1. Of(h, Nx(h, e)) \in Nat BY <1>5
    <2> QED BY <1>5, <1>6, <2>1
<1>8. Size(g, new) = o - Of(h, e) BY <1>4, <1>7, SizeIs
<1>9. Size(g, e) = Of(h, e) + Size(h, e) - o
    <2>1. Size(g, e) = (IF Nx(h, e) = e THEN h.len ELSE Of(g, Nx(h, e))) - o BY <1>4, <1>7, SizeIs
    <2>2. Size(h, e) \in Int /\ Of(h, e) \in Nat /\ h.len \in Nat /\ Of(h, Nx(h, e)) \in Nat
        BY <1>5, SoundSizes
    <2>3. CASE Nx(h, e) = e
        <3>1. Size(g, e) = h.len - o BY <2>1, <2>3
        <3>2. Of(h, e) + Size(h, e) = h.len BY <1>27, <2>3
        <3> QED BY <2>2, <3>1, <3>2
    <2>4. CASE Nx(h, e) # e
        <3>1. Nx(h, e) \in Inside(h) BY <1>5
        <3>2. Of(g, Nx(h, e)) = Of(h, Nx(h, e)) BY <1>4, <2>4, <3>1
        <3>3. Size(g, e) = Of(h, Nx(h, e)) - o BY <2>1, <2>4, <3>2
        <3>4. Of(h, e) + Size(h, e) = Of(h, Nx(h, e)) BY <1>27, <2>4
        <3> QED BY <2>2, <3>3, <3>4
    <2> QED BY <2>3, <2>4
<1>10. ASSUME NEW x \in Inside(h) \ {e} PROVE Nx(g, x) \in {Nx(h, x), new} /\ Size(g, x) = Size(h, x)
    <2>1. CASE Nx(h, x) = e
        <3>1. Nx(g, x) = new /\ new # x /\ Nx(h, x) # x BY <1>4, <2>1
        <3> QED BY <1>4, <2>1, <3>1, SizeIs
    <2>2. CASE Nx(h, x) # e
        <3>1. Nx(g, x) = Nx(h, x) /\ Of(g, Nx(h, x)) = Of(h, Nx(h, x)) /\ Of(g, x) = Of(h, x) BY <1>4, <1>5, <2>2
        <3> QED BY <1>4, <3>1, SizeIs
    <2> QED BY <2>1, <2>2
<1>11. Placed(g)
    <2>1. Of(g, g.head) = 0
        <3>1. g.head \in Inside(g) /\ Pv(g, g.head) = g.head BY <1>4 DEF Linked
        <3>2. \A x \in Inside(h) : Pv(h, x) = x => Of(h, x) = 0 BY <1>2, <1>5 DEF Linked
        <3>3. CASE g.head = new
            <4>1. Pv(g, new) = new /\ Pv(h, e) # new BY <1>4, <1>5, <3>1, <3>3
            <4>2. Pv(h, e) = e BY <1>4, <4>1
            <4> QED BY <1>4, <3>2, <3>3, <4>2
        <3>4. CASE g.head # new
            <4>1. g.head \in Inside(h) /\ g.head # e BY <1>4, <1>7, <3>1, <3>4
            <4> QED BY <1>4, <3>1, <3>2, <4>1
        <3> QED BY <3>3, <3>4
    <2>2. ASSUME NEW x \in Inside(g) PROVE Of(g, x) < g.len /\ (Nx(g, x) # x => Of(g, x) < Of(g, Nx(g, x)))
        <3>1. CASE x = new BY <1>4, <1>5, <3>1
        <3>2. CASE x = e
            <4>1. Nx(h, e) # e => Of(h, Nx(h, e)) \in Nat /\ Of(h, Nx(h, e)) < h.len
                                  /\ Of(g, Nx(h, e)) = Of(h, Nx(h, e)) BY <1>4, <1>5
            <4>2. o < h.len /\ (Nx(h, e) # e => o < Of(h, Nx(h, e))) BY <1>5, <1>27, <4>1
            <4> QED BY <1>4, <1>7, <3>2, <4>1, <4>2
        <3>3. CASE x # new /\ x # e
            <4>1. x \in Inside(h) \ {e} /\ Nx(h, x) \in Inside(h) BY <1>4, <1>5, <3>3
            <4>2. CASE Nx(h, x) = e BY <1>4, <1>5, <4>1, <4>2
            <4>3. CASE Nx(h, x) # e
                <5>1. Nx(g, x) = Nx(h, x) /\ Of(g, Nx(h, x)) = Of(h, Nx(h, x)) /\ Of(g, x) = Of(h, x) BY <1>4, <4>1, <4>3
                <5> QED BY <1>4, <1>5, <4>1, <5>1
            <4> QED BY <4>2, <4>3
        <3> QED BY <3>1, <3>2, <3>3
    <2> QED BY <2>1, <2>2 DEF Placed
<1>12. \A x \in Inside(h) \ {e} : Of(g, x) = Of(h, x) BY <1>4
<1>13. Cut(h, g, e, new) BY <1>4, <1>10, <1>11, <1>12 DEF Cut
<1>14. CutAhead(h, g, e, new, o) BY <1>4, <1>8, <1>9, <1>13 DEF CutAhead
<1> QED BY <1>14, <1>25 DEF g, new

\* An object cut in two is two objects.
LEMMA CutSound ==
    ASSUME NEW h, Sound(h), Apart(h), NEW e \in Used(h), NEW g, NEW new, Cut(h, g, e, new)
    PROVE  /\ Sound(g) /\ Apart(g) /\ Used(g) = Used(h) \cup {new} /\ new \notin Inside(h)
           /\ \A x \in Used(h) \ {e} : Of(g, x) = Of(h, x) /\ Size(g, x) = Size(h, x)
<1>1. /\ \E m \in Nat : WellFormed(g, m)
      /\ Linked(g, Inside(g)) /\ Placed(g) /\ g.len = h.len /\ g.lists = h.lists
      /\ new \notin Inside(h) /\ Inside(g) = Inside(h) \cup {new} /\ ~ Fr(g, new)
      /\ \A x \in Inside(h) : Fr(g, x) = Fr(h, x) /\ Fi(g, x) = Fi(h, x)
      /\ \A x \in Inside(h) \ {e} : /\ Of(g, x) = Of(h, x) /\ Size(g, x) = Size(h, x)
                                    /\ Nx(g, x) \in {Nx(h, x), new} BY DEF Cut
<1>2. e \in Inside(h) /\ ~ Fr(h, e) BY DEF Used
<1>3. FreeIn(g) = FreeIn(h) /\ Used(g) = Used(h) \cup {new} BY <1>1 DEF FreeIn, Used
<1> DEFINE F == FreeIn(h)
           bin == BinsOf(h)
           c == BinsOf(g)
<1>4. \A x \in F : x \in Inside(h) \ {e} /\ x \in Inside(g) BY <1>1, <1>2 DEF FreeIn
<1>5. \A x \in F : Fi(g, x) = Fi(h, x) /\ c[x] = bin[x] BY <1>1, <1>4 DEF BinsOf
<1>6. Binned(h, F, bin) /\ h.len <= MaxHeapLen BY DEF Sound
<1>7. Binned(g, F, c)
    <2> HIDE DEF F, bin, c
    <2> QED BY <1>1, <1>5, <1>6, BinnedAlike
<1>8. Sound(g) BY <1>1, <1>3, <1>6, <1>7 DEF Sound
<1>9. Apart(g)
    <2> SUFFICES ASSUME NEW x \in Inside(g), Nx(g, x) # x, Fr(g, x), Fr(g, Nx(g, x)) PROVE FALSE BY DEF Apart
    <2>1. x \in Inside(h) /\ Fr(h, x) /\ x # e BY <1>1, <1>2
    <2>2. Nx(g, x) = Nx(h, x) BY <1>1, <2>1
    <2>3. Nx(h, x) \in Inside(h) BY <2>1, SoundIs
    <2> QED BY <1>1, <2>1, <2>2, <2>3 DEF Apart
<1>10. \A x \in Used(h) \ {e} : x \in Inside(h) \ {e} BY DEF Used
<1> QED BY <1>1, <1>3, <1>8, <1>9, <1>10

-----------------------------------------------------------------------------
(* Objects gained *)

\* g has the objects of h and object e of size bytes at from.
Gained(h, g, e, from, size) ==
    /\ Sound(g) /\ Apart(g) /\ e \notin Used(h) /\ Used(g) = Used(h) \cup {e}
    /\ Of(g, e) = from /\ Size(g, e) = size
    /\ \A x \in Used(h) : Of(g, x) = Of(h, x) /\ Size(g, x) = Size(h, x)

\* A block put behind the last one.
LEMMA AtEndIs ==
    ASSUME NEW h, Sound(h), Apart(h), NEW size \in Nat \ {0}, h.len + size <= MaxHeapLen
    PROVE  Gained(h, AtEnd(h, size).h, AtEnd(h, size).e, h.len, size)
<1> DEFINE h1 == [h EXCEPT !.len = @ + size]
           new == NewElt(h)
           a == h.tail
           g == InsertAfter(WithElt(h1, h.len), a, NewElt(h1))
<1>1. PICK n \in Nat : WellFormed(h, n) BY DEF Sound
<1>2. /\ h.len \in Nat /\ h.head \in Inside(h) /\ a \in Inside(h) /\ Of(h, h.head) = 0
      /\ \A x \in Inside(h) : /\ Nx(h, x) \in Inside(h) /\ Pv(h, x) \in Inside(h)
                              /\ Of(h, x) \in Nat /\ Of(h, x) < h.len
                              /\ (Nx(h, x) # x => Of(h, x) < Of(h, Nx(h, x))) BY SoundIs
<1>3. h \in HeapsOf(n) BY <1>1 DEF WellFormed
<1>4. /\ h1 \in HeapsOf(n) /\ h1.len = h.len + size /\ h1.elts = h.elts /\ h1.lists = h.lists
      /\ h1.freeElts = h.freeElts /\ h1.head = h.head /\ h1.tail = h.tail
    <2> DEFINE l == h.len + size
    <2>1. l \in Nat BY <1>2
    <2>2. h1 = [h EXCEPT !.len = l] OBVIOUS
    <2> HIDE DEF h1, l
    <2>3. /\ h1 \in HeapsOf(n) /\ h1.len = l /\ h1.elts = h.elts /\ h1.lists = h.lists
          /\ h1.freeElts = h.freeElts /\ h1.head = h.head /\ h1.tail = h.tail BY <1>3, <2>1, <2>2 DEF HeapsOf
    <2> QED BY <2>3 DEF l
<1>5. /\ AtEnd(h, size).e = new /\ AtEnd(h, size).h = g
    <2>1. h.elts # <<>>
        <3>1. DOMAIN h.elts # {} BY <1>2 DEF Inside
        <3> QED BY <3>1
    <2>2. NewElt(h1) = new BY <1>4 DEF NewElt
    <2>3. WithElt(h1, h.len).tail = a BY <1>3 DEF WithElt, HeapsOf
    <2> QED BY <2>1, <2>2, <2>3 DEF AtEnd
<1>6. NewElt(h1) = new BY <1>4 DEF NewElt
<1> HIDE DEF h1, new
<1>7. /\ WellFormed(h1, n) /\ Inside(h1) = Inside(h)
      /\ \A x : /\ Of(h1, x) = Of(h, x) /\ Nx(h1, x) = Nx(h, x) /\ Pv(h1, x) = Pv(h, x)
                /\ Fr(h1, x) = Fr(h, x) /\ Fi(h1, x) = Fi(h, x)
    BY <1>1, <1>4 DEF WellFormed, Inside, Of, Nx, Pv, Fr, Fi
<1>8. Linked(h, Inside(h)) /\ Placed(h) BY DEF Sound
<1>9. Linked(h1, Inside(h1)) BY <1>4, <1>7, <1>8 DEF Linked
<1>10. PICK m \in Nat : PutAfter(h1, g, a, new, h.len, m) BY <1>2, <1>6, <1>7, <1>9, PutAfterIs
<1> HIDE DEF a, g
<1>11. a = h.tail /\ Nx(h, a) = a BY <1>2, <1>8 DEF a, Linked
<1>12. /\ WellFormed(g, m) /\ new \notin Inside(h) /\ Inside(g) = Inside(h) \cup {new}
       /\ Linked(g, Inside(g)) /\ g.lists = h.lists /\ g.len = h.len + size
       /\ Of(g, new) = h.len /\ ~ Fr(g, new) /\ Pv(g, new) = a /\ Nx(g, new) = new
       /\ \A x \in Inside(h) :
            /\ Of(g, x) = Of(h, x) /\ Fr(g, x) = Fr(h, x) /\ Fi(g, x) = Fi(h, x)
            /\ Pv(g, x) = (IF Pv(h, x) = a /\ x # a THEN new ELSE Pv(h, x))
            /\ Nx(g, x) = (IF x = a THEN new ELSE Nx(h, x)) BY <1>4, <1>7, <1>10, <1>11 DEF PutAfter
<1>13. Size(g, new) = size BY <1>2, <1>12, SizeIs
<1>14. ASSUME NEW x \in Inside(h) PROVE Size(g, x) = Size(h, x)
    <2>1. CASE x = a
        <3>1. Size(h, x) = h.len - Of(h, x) BY <1>11, <2>1, SizeIs
        <3>2. Size(g, x) = Of(g, new) - Of(g, x) BY <1>12, <2>1, SizeIs
        <3> QED BY <1>12, <3>1, <3>2
    <2>2. CASE x # a
        <3>1. Nx(h, x) # x BY <1>8, <1>11, <2>2 DEF Linked
        <3>2. Nx(g, x) = Nx(h, x) /\ Nx(h, x) \in Inside(h) BY <1>2, <1>12, <2>2
        <3> QED BY <1>12, <3>1, <3>2, SizeIs
    <2> QED BY <2>1, <2>2
<1>15. Placed(g)
    <2>1. Of(g, g.head) = 0
        <3>1. g.head \in Inside(g) /\ Pv(g, g.head) = g.head BY <1>12 DEF Linked
        <3>2. g.head # new /\ g.head \in Inside(h) BY <1>2, <1>12, <3>1
        <3>3. Pv(h, g.head) = g.head BY <1>12, <3>1, <3>2
        <3>4. g.head = h.head BY <1>8, <3>2, <3>3 DEF Linked
        <3> QED BY <1>2, <1>12, <3>4
    <2>2. ASSUME NEW x \in Inside(g) PROVE Of(g, x) < g.len /\ (Nx(g, x) # x => Of(g, x) < Of(g, Nx(g, x)))
        <3>1. CASE x = new BY <1>2, <1>12, <3>1
        <3>2. CASE x = a BY <1>2, <1>12, <3>2
        <3>3. CASE x # new /\ x # a
            <4>1. x \in Inside(h) /\ Nx(h, x) \in Inside(h) BY <1>2, <1>12, <3>3
            <4> QED BY <1>2, <1>12, <3>3, <4>1
        <3> QED BY <3>1, <3>2, <3>3
    <2> QED BY <2>1, <2>2 DEF Placed
<1>16. FreeIn(g) = FreeIn(h) /\ Used(g) = Used(h) \cup {new} /\ new \notin Used(h) BY <1>12 DEF FreeIn, Used
<1> DEFINE F == FreeIn(h)
           bin == BinsOf(h)
           c == BinsOf(g)
<1>17. \A x \in F : Fi(g, x) = Fi(h, x) /\ c[x] = bin[x]
    <2>1. \A x \in F : x \in Inside(h) /\ x \in Inside(g) BY <1>12 DEF FreeIn
    <2> QED BY <1>12, <1>14, <2>1 DEF BinsOf
<1>18. Binned(h, F, bin) BY DEF Sound
<1>19. Binned(g, F, c)
    <2> HIDE DEF F, bin, c
    <2> QED BY <1>12, <1>17, <1>18, BinnedAlike
<1>20. Sound(g) BY <1>12, <1>15, <1>16, <1>19 DEF Sound
<1>21. Apart(g)
    <2> SUFFICES ASSUME NEW x \in Inside(g), Nx(g, x) # x, Fr(g, x), Fr(g, Nx(g, x)) PROVE FALSE BY DEF Apart
    <2>1. x \in Inside(h) /\ Fr(h, x) /\ x # a BY <1>12
    <2>2. Nx(g, x) = Nx(h, x) /\ Nx(h, x) \in Inside(h) BY <1>2, <1>12, <2>1
    <2> QED BY <1>12, <2>1, <2>2 DEF Apart
<1>22. \A x \in Used(h) : x \in Inside(h) BY DEF Used
<1>23. Gained(h, g, new, h.len, size) BY <1>12, <1>13, <1>14, <1>16, <1>20, <1>21, <1>22 DEF Gained
<1> QED BY <1>5, <1>23

\* No blocks and no objects.
LEMMA EmptyHeapIs ==
    /\ WellFormed(EmptyHeap, 0) /\ Inside(EmptyHeap) = {} /\ Used(EmptyHeap) = {} /\ NewElt(EmptyHeap) = 0
    /\ EmptyHeap.len = 0 /\ EmptyHeap.elts = <<>> /\ EmptyHeap.freeElts = <<>>
    /\ EmptyHeap.lists = [b \in Bins |-> <<>>]
<1>1. /\ EmptyHeap.len = 0 /\ EmptyHeap.elts = <<>> /\ EmptyHeap.freeElts = <<>>
      /\ EmptyHeap.lists = [b \in Bins |-> <<>>] BY DEF EmptyHeap, Bins
<1>2. EmptyHeap \in HeapsOf(0)
    <2>1. <<>> \in [0 .. 0 - 1 -> Blocks] OBVIOUS
    <2>2. <<>> \in Seq(0 .. 0 - 1) /\ <<>> \in Seq(Nat) OBVIOUS
    <2>3. [b \in Bins |-> <<>>] \in [Bins -> Seq(Nat)] BY <2>2
    <2> QED BY <2>1, <2>2, <2>3 DEF EmptyHeap, HeapsOf, Bins
<1>3. Len(EmptyHeap.freeElts) = 0 BY <1>1
<1>4. WellFormed(EmptyHeap, 0) BY <1>2, <1>3 DEF WellFormed
<1>5. DOMAIN EmptyHeap.elts = {} BY <1>1
<1>6. NewElt(EmptyHeap) = 0 BY <1>1, <1>5, FS_EmptySet DEF NewElt
<1> QED BY <1>1, <1>4, <1>5, <1>6 DEF Inside, Used

\* The first block.
LEMMA FirstIs ==
    ASSUME NEW size \in 1 .. MaxHeapLen
    PROVE  Gained(EmptyHeap, AtEnd(EmptyHeap, size).h, AtEnd(EmptyHeap, size).e, 0, size)
<1> DEFINE h == [EmptyHeap EXCEPT !.len = @ + size]
           h1 == WithElt(h, 0)
           h2 == [h1 EXCEPT !.head = 0]
           h3 == [h2 EXCEPT !.tail = 0]
           h4 == [h3 EXCEPT !.elts[0].next = 0]
           g == [h4 EXCEPT !.elts[0].prev = 0]
<1>1. /\ WellFormed(EmptyHeap, 0) /\ Inside(EmptyHeap) = {} /\ Used(EmptyHeap) = {} /\ NewElt(EmptyHeap) = 0
      /\ EmptyHeap.len = 0 /\ EmptyHeap.elts = <<>> /\ EmptyHeap.freeElts = <<>>
      /\ EmptyHeap.lists = [b \in Bins |-> <<>>] BY EmptyHeapIs
<1>2. EmptyHeap \in HeapsOf(0) BY <1>1 DEF WellFormed
<1>3. /\ h \in HeapsOf(0) /\ h.len = size /\ h.elts = <<>> /\ h.freeElts = <<>> /\ h.lists = [b \in Bins |-> <<>>]
    BY <1>1, <1>2, HeapAssumption DEF HeapsOf
<1>4. AtEnd(EmptyHeap, size).h = g /\ AtEnd(EmptyHeap, size).e = 0 BY <1>1 DEF AtEnd
<1> HIDE DEF h
<1>5. WellFormed(h, 0) /\ Inside(h) = {} /\ NewElt(h) = 0
    BY <1>1, <1>3 DEF WellFormed, Inside, NewElt
<1>6. PICK m \in Nat : m >= 0 /\ Grown(h, h1, 0, 0, m) BY <1>5, WithEltIs
<1> HIDE DEF h1
<1>7. /\ WellFormed(h1, m) /\ 0 \in 0 .. m - 1 /\ Inside(h1) = {0} /\ h1.elts[0] = Block(0)
      /\ h1.lists = h.lists /\ h1.len = size BY <1>3, <1>5, <1>6 DEF Grown
<1>8. h1 \in HeapsOf(m) BY <1>7 DEF WellFormed
<1>9. SameButLinks(h1, h2, m) /\ h2.head = 0 /\ h2.elts = h1.elts BY <1>8, HeadSet
<1> HIDE DEF h2
<1>10. h2 \in HeapsOf(m) BY <1>9 DEF SameButLinks
<1>11. SameButLinks(h2, h3, m) /\ h3.tail = 0 /\ h3.head = 0 /\ h3.elts = h2.elts BY <1>9, <1>10, TailSet
<1> HIDE DEF h3
<1>12. h3 \in HeapsOf(m) BY <1>11 DEF SameButLinks
<1>13. /\ SameButLinks(h3, h4, m) /\ h4.head = 0 /\ h4.tail = 0 /\ Nx(h4, 0) = 0
    BY <1>7, <1>11, <1>12, NextSet
<1> HIDE DEF h4
<1>14. h4 \in HeapsOf(m) BY <1>13 DEF SameButLinks
<1>15. /\ SameButLinks(h4, g, m) /\ g.head = 0 /\ g.tail = 0 /\ Nx(g, 0) = 0 /\ Pv(g, 0) = 0
    BY <1>7, <1>13, <1>14, PrevSet
<1> HIDE DEF g
<1>16. Of(h1, 0) = 0 /\ ~ Fr(h1, 0) BY <1>7 DEF Of, Fr, Block
<1>17. SameButLinks(h1, g, m) BY <1>9, <1>11, <1>13, <1>15 DEF SameButLinks
<1>18. /\ Of(g, 0) = 0 /\ ~ Fr(g, 0) /\ g.lists = [b \in Bins |-> <<>>] /\ g.len = size
    BY <1>3, <1>7, <1>16, <1>17 DEF SameButLinks
<1>19. WellFormed(g, m) /\ Inside(g) = {0} BY <1>7, <1>17, LinksAside
<1>20. FreeIn(g) = {} /\ Used(g) = {0} BY <1>18, <1>19 DEF FreeIn, Used
<1>21. Linked(g, Inside(g)) BY <1>15, <1>19 DEF Linked
<1>22. Placed(g) BY <1>15, <1>18, <1>19 DEF Placed
<1>23. Binned(g, FreeIn(g), BinsOf(g))
    <2>1. \A b \in Bins : Len(g.lists[b]) = 0 BY <1>18
    <2> QED BY <1>20, <2>1 DEF Binned
<1>24. Sound(g) BY <1>18, <1>19, <1>21, <1>22, <1>23 DEF Sound
<1>25. Apart(g) BY <1>15, <1>19 DEF Apart
<1>26. Size(g, 0) = size BY <1>15, <1>18, SizeIs
<1> QED BY <1>1, <1>4, <1>18, <1>20, <1>24, <1>25, <1>26 DEF Gained

\* The blocks of h with other lists.
ListedAnew(h, g) ==
    /\ Sound(g) /\ Inside(g) = Inside(h) /\ g.len = h.len
    /\ \A x \in Inside(h) : Of(g, x) = Of(h, x) /\ Nx(g, x) = Nx(h, x) /\ Size(g, x) = Size(h, x)

\* They are sound if the lists are right.
LEMMA ListsSound ==
    ASSUME NEW n \in Nat, NEW h, WellFormed(h, n), Linked(h, Inside(h)), Placed(h), h.len <= MaxHeapLen,
           NEW g, SameButLists(h, g, n), Binned(g, FreeIn(g), BinsOf(h))
    PROVE  ListedAnew(h, g)
<1>1. WellFormed(g, n) /\ Inside(g) = Inside(h) /\ Linked(g, Inside(g)) BY ListsAside
<1>2. /\ g.len = h.len /\ g.head = h.head
      /\ \A x \in Inside(h) : Of(g, x) = Of(h, x) /\ Nx(g, x) = Nx(h, x)
    BY InsideIs DEF SameButLists
<1>3. ASSUME NEW x \in Inside(h) PROVE Size(g, x) = Size(h, x)
    <2>1. Nx(h, x) \in Inside(h) BY DEF Linked
    <2> QED BY <1>2, <2>1, SizeIs
<1>4. Placed(g)
    <2>1. h.head \in Inside(h) /\ \A x \in Inside(h) : Nx(h, x) \in Inside(h) BY DEF Linked
    <2> QED BY <1>1, <1>2, <2>1 DEF Placed
<1>5. BinsOf(g) = BinsOf(h) BY <1>1, <1>3 DEF BinsOf
<1>6. Sound(g) BY <1>1, <1>2, <1>4, <1>5 DEF Sound
<1> QED BY <1>1, <1>2, <1>3, <1>6 DEF ListedAnew

\* Block e is in use in g and not in h.
MadeUsed(h, g, n, e) ==
    /\ SameButLists(h, g, n) /\ g.lists = h.lists /\ ~ Fr(g, e) /\ Fi(g, e) = 0
    /\ \A x \in 0 .. n - 1 : x # e => Fr(g, x) = Fr(h, x) /\ Fi(g, x) = Fi(h, x)

\* The block found is marked.
LEMMA MarkedUsed ==
    ASSUME NEW n \in Nat, NEW h \in HeapsOf(n), NEW e \in 0 .. n - 1
    PROVE  MadeUsed(h, [h EXCEPT !.elts[e].free = FALSE, !.elts[e].fi = 0], n, e)
<1> DEFINE b == [h.elts[e] EXCEPT !.free = FALSE, !.fi = 0]
           f == [h.elts EXCEPT ![e] = b]
           g == [h EXCEPT !.elts[e].free = FALSE, !.elts[e].fi = 0]
<1>1. h.elts \in [0 .. n - 1 -> Blocks] /\ h.elts[e] \in Blocks BY DEF HeapsOf
<1>2. b \in Blocks /\ b.next = h.elts[e].next /\ b.prev = h.elts[e].prev /\ b.offset = h.elts[e].offset
      /\ b.free = FALSE /\ b.fi = 0 BY <1>1 DEF Blocks
<1>5. g = [h EXCEPT !.elts = f] BY <1>1
<1> HIDE DEF b, g
<1>3. f \in [0 .. n - 1 -> Blocks] /\ \A x \in 0 .. n - 1 : f[x] = IF x = e THEN b ELSE h.elts[x] BY <1>1, <1>2
<1> HIDE DEF f
<1>4. /\ g \in HeapsOf(n) /\ g.elts = f /\ g.lists = h.lists /\ g.len = h.len /\ g.freeElts = h.freeElts
      /\ g.head = h.head /\ g.tail = h.tail BY <1>3, <1>5 DEF HeapsOf
<1>6. SameButLists(h, g, n) BY <1>2, <1>3, <1>4 DEF SameButLists, Of, Nx, Pv
<1>7. ~ Fr(g, e) /\ Fi(g, e) = 0 BY <1>2, <1>3, <1>4 DEF Fr, Fi
<1>8. \A x \in 0 .. n - 1 : x # e => Fr(g, x) = Fr(h, x) /\ Fi(g, x) = Fi(h, x) BY <1>3, <1>4 DEF Fr, Fi
<1> QED BY <1>4, <1>6, <1>7, <1>8 DEF MadeUsed, g

\* A free block of the size that is looked for becomes the object.
LEMMA TakenWhole ==
    ASSUME NEW h, Sound(h), Apart(h), NEW f \in FreeIn(h), NEW b, b = SizeToBin(Size(h, f)), NEW i, i = Fi(h, f),
           NEW g, g = Unlisted([h EXCEPT !.elts[f].free = FALSE, !.elts[f].fi = 0], b, i)
    PROVE  Gained(h, g, f, Of(h, f), Size(h, f))
<1> DEFINE h0 == [h EXCEPT !.elts[f].free = FALSE, !.elts[f].fi = 0]
           u == Unlisted(h, b, i)
           list == h.lists[b]
           t == list[Len(list)]
           F == FreeIn(h)
           bin == BinsOf(h)
<1>1. PICK n \in Nat : WellFormed(h, n) BY DEF Sound
<1>2. Linked(h, Inside(h)) /\ Placed(h) /\ h.len <= MaxHeapLen /\ Binned(h, F, bin) BY DEF Sound
<1>3. h \in HeapsOf(n) /\ Inside(h) \subseteq 0 .. n - 1 BY <1>1, InsideIs DEF WellFormed
<1>4. f \in Inside(h) /\ f \in 0 .. n - 1 /\ Fr(h, f) /\ F \subseteq Inside(h) BY <1>3 DEF FreeIn
<1>5. bin[f] = b BY <1>4 DEF BinsOf
<1>6. MadeUsed(h, h0, n, f) BY <1>3, <1>4, MarkedUsed
<1>14. g = Unlisted(h0, b, i) OBVIOUS
<1> HIDE DEF h0, F, bin
<1>7. /\ h0 \in HeapsOf(n) /\ SameButLists(h, h0, n) /\ h0.lists = h.lists /\ ~ Fr(h0, f)
      /\ \A x \in 0 .. n - 1 : x # f => Fr(h0, x) = Fr(h, x) /\ Fi(h0, x) = Fi(h, x)
    BY <1>6 DEF MadeUsed, SameButLists
<1>8. OffBins(h, u, n, F, f, bin)
    <2>1. F \subseteq 0 .. n - 1 /\ f \in F BY <1>3, <1>4 DEF F
    <2>2. u = Unlisted(h, bin[f], Fi(h, f)) BY <1>5
    <2> HIDE DEF u
    <2> QED BY <1>2, <1>3, <2>1, <2>2, UnlistedBins
<1>9. /\ b \in Bins /\ i \in 0 .. Len(list) - 1 /\ list \in Seq(Nat)
      /\ t \in F
    <2>1. f \in F BY DEF F
    <2>2. b \in Bins /\ i \in 0 .. Len(list) - 1 BY <1>2, <1>5, <2>1 DEF Binned
    <2>3. list \in Seq(Nat) BY <1>3, <2>2 DEF HeapsOf
    <2>4. Len(list) \in 1 .. Len(list) BY <2>2, <2>3
    <2>5. t \in F BY <1>2, <2>2, <2>4 DEF Binned
    <2> QED BY <2>2, <2>3, <2>5
<1>10. t \in 0 .. n - 1 BY <1>3, <1>4, <1>9
<1>11. OffList(h, u, n, b, i, t) BY <1>3, <1>9, <1>10, UnlistedAs
<1>12. OffList(h0, g, n, b, i, t)
    <2> HIDE DEF u
    <2>1. h0.lists[b] = list /\ t = h0.lists[b][Len(h0.lists[b])] BY <1>7
    <2> HIDE DEF list, t
    <2>2. i \in 0 .. Len(h0.lists[b]) - 1 BY <1>9, <2>1
    <2> QED BY <1>7, <1>9, <1>10, <1>14, <2>1, <2>2, UnlistedAs
<1> HIDE DEF u, list, t
<1>13. /\ SameButLists(h0, g, n) /\ g.lists = u.lists
       /\ \A x \in 0 .. n - 1 : Fr(g, x) = Fr(h0, x)
       /\ \A x \in 0 .. n - 1 : x # f => Fi(g, x) = Fi(u, x)
    <2>1. h0.lists = h.lists BY <1>7
    <2> QED BY <1>7, <1>11, <1>12, <2>1 DEF OffList
<1>15. SameButLists(h, g, n) BY <1>7, <1>13 DEF SameButLists
<1>16. Inside(g) = Inside(h) BY <1>1, <1>15, ListsAside
<1>17. FreeIn(g) = F \ {f} /\ Used(g) = Used(h) \cup {f} BY <1>3, <1>4, <1>7, <1>13, <1>16 DEF FreeIn, Used, F
<1>18. Binned(g, FreeIn(g), bin)
    <2> DEFINE E == F \ {f}
    <2>1. Binned(u, E, bin) BY <1>8 DEF OffBins
    <2>2. \A x \in E : x \in 0 .. n - 1 /\ x # f BY <1>3, <1>4
    <2> HIDE DEF E
    <2>3. \A x \in E : Fi(g, x) = Fi(u, x) /\ bin[x] = bin[x] BY <1>13, <2>2
    <2>4. Binned(g, E, bin) BY <1>13, <2>1, <2>3, BinnedAlike
    <2> QED BY <1>17, <2>4 DEF E
<1>19. ListedAnew(h, g) BY <1>1, <1>2, <1>15, <1>18, ListsSound DEF bin
<1>20. /\ Sound(g) /\ \A x \in Inside(h) : Of(g, x) = Of(h, x) /\ Nx(g, x) = Nx(h, x) /\ Size(g, x) = Size(h, x)
    BY <1>19 DEF ListedAnew
<1>21. Apart(g)
    <2> SUFFICES ASSUME NEW x \in Inside(g), Nx(g, x) # x, Fr(g, x), Fr(g, Nx(g, x)) PROVE FALSE BY DEF Apart
    <2>1. x \in F /\ Nx(g, x) = Nx(h, x) /\ Nx(h, x) \in Inside(h) /\ x \in FreeIn(g)
        BY <1>2, <1>16, <1>17, <1>20 DEF Linked, FreeIn
    <2>2. Nx(h, x) \in FreeIn(g) BY <1>16, <2>1 DEF FreeIn
    <2> QED BY <1>4, <1>17, <1>20, <2>1, <2>2 DEF Apart, FreeIn, F
<1>22. f \notin Used(h) /\ \A x \in Used(h) : x \in Inside(h) BY <1>4 DEF Used
<1> QED BY <1>4, <1>17, <1>20, <1>21, <1>22 DEF Gained

\* The end of a larger free block becomes the object.
LEMMA TakenEnd ==
    ASSUME NEW h, Sound(h), Apart(h), NEW f \in FreeIn(h), NEW b, b = SizeToBin(Size(h, f)), NEW i, i = Fi(h, f),
           NEW s \in Nat \ {0}, s < Size(h, f), NEW h1, NEW u, CutBehind(h, h1, f, u, Of(h, f) + s),
           NEW g, g = IF SizeToBin(s) = b THEN h1 ELSE Unlisted(Listed(h1, SizeToBin(s), f), b, i)
    PROVE  Gained(h, g, u, Of(h, f) + s, Size(h, f) - s)
<1> DEFINE F == FreeIn(h)
           bin == BinsOf(h)
           c == BinsOf(h1)
           d == SizeToBin(s)
<1>1. f \in Inside(h) /\ Fr(h, f) /\ F \subseteq Inside(h) /\ Of(h, f) \in Nat BY SoundIs DEF FreeIn
<1>3. Size(h, f) \in 1 .. MaxHeapLen /\ MaxHeapLen \in Nat BY <1>1, SoundSizes, SoundIs
<1> DEFINE o == Of(h, f) + s
<1>23. CutBehind(h, h1, f, u, o) /\ o \in Nat /\ o - Of(h, f) = s BY <1>1
<1>24. Of(h, f) + Size(h, f) - o = Size(h, f) - s BY <1>1, <1>3
<1> HIDE DEF o
<1>2. Cut(h, h1, f, u) /\ Of(h1, f) = Of(h, f) /\ Of(h1, u) = o /\ Nx(h1, f) = u BY <1>23 DEF CutBehind
<1>4. Size(h1, f) = s /\ Size(h1, u) = Size(h, f) - s
    <2>1. Size(h1, f) = o - Of(h, f) /\ Size(h1, u) = Of(h, f) + Size(h, f) - o BY <1>23 DEF CutBehind
    <2> QED BY <1>23, <1>24, <2>1
<1>5. PICK m \in Nat : WellFormed(h1, m) BY <1>2 DEF Cut
<1>6. /\ Linked(h1, Inside(h1)) /\ Placed(h1) /\ h1.len = h.len /\ h1.lists = h.lists
      /\ u \notin Inside(h) /\ Inside(h1) = Inside(h) \cup {u} /\ ~ Fr(h1, u)
      /\ \A x \in Inside(h) : Fr(h1, x) = Fr(h, x) /\ Fi(h1, x) = Fi(h, x)
      /\ \A x \in Inside(h) \ {f} : /\ Of(h1, x) = Of(h, x) /\ Size(h1, x) = Size(h, x)
                                    /\ Nx(h1, x) \in {Nx(h, x), u} BY <1>2 DEF Cut
<1>7. h1 \in HeapsOf(m) /\ Inside(h1) \subseteq 0 .. m - 1 BY <1>5, InsideIs DEF WellFormed
<1>8. Binned(h, F, bin) /\ h.len <= MaxHeapLen BY DEF Sound
<1>9. /\ bin[f] = b /\ c[f] = d /\ c[u] = SizeToBin(Size(h1, u))
      /\ \A x \in F : x # f => c[x] = bin[x] BY <1>1, <1>4, <1>6 DEF BinsOf
<1>10. d \in Bins
    <2>1. s \in 1 .. MaxHeapLen BY <1>3
    <2> QED BY <2>1, SizesInBins
<1>11. \A x \in F : Fi(h1, x) = Fi(h, x) BY <1>1, <1>6
<1>12. f \in F OBVIOUS
<1> HIDE DEF F, bin, c, d
<1>13. Binned(h1, F, bin)
    <2>1. \A x \in F : bin[x] = bin[x] OBVIOUS
    <2> QED BY <1>6, <1>8, <1>11, <2>1, BinnedAlike
<1>14. SameButLists(h1, g, m) /\ Binned(g, F, c) /\ \A x \in 0 .. m - 1 : Fr(g, x) = Fr(h1, x)
    <2>1. CASE d = b
        <3>1. g = h1 BY <2>1 DEF d
        <3>2. SameButLists(h1, h1, m) BY <1>7 DEF SameButLists
        <3>3. \A x \in F : Fi(h1, x) = Fi(h, x) /\ c[x] = bin[x] BY <1>9, <1>11, <2>1
        <3>4. Binned(h1, F, c) BY <1>6, <1>8, <3>3, BinnedAlike
        <3> QED BY <3>1, <3>2, <3>4
    <2>2. CASE d # b
        <3>1. g = Unlisted(Listed(h1, d, f), bin[f], Fi(h1, f)) BY <1>9, <1>11, <1>12, <2>2 DEF d
        <3>2. F \subseteq 0 .. m - 1 BY <1>1, <1>6, <1>7
        <3>3. \A x \in F : c[x] = IF x = f THEN d ELSE bin[x] BY <1>9
        <3>4. d # bin[f] BY <1>9, <2>2
        <3>5. Relisted(h1, g, m, F, f, c) BY <1>7, <1>10, <1>12, <1>13, <3>1, <3>2, <3>3, <3>4, RelistedBins
        <3>6. /\ SameButLists(h1, g, m) /\ Binned(g, F, c) /\ Fr(g, f)
              /\ \A x \in 0 .. m - 1 : x # f => Fr(g, x) = Fr(h1, x) BY <3>5 DEF Relisted
        <3>7. f \in 0 .. m - 1 /\ g \in HeapsOf(m) BY <1>12, <3>2, <3>6 DEF SameButLists
        <3>8. Fr(h1, f) /\ Fr(h1, f) \in BOOLEAN /\ Fr(g, f) \in BOOLEAN
            BY <1>1, <1>6, <1>7, <3>7 DEF HeapsOf, Blocks, Fr
        <3>9. Fr(g, f) = Fr(h1, f) BY <3>6, <3>8
        <3> QED BY <3>6, <3>9
    <2> QED BY <2>1, <2>2
<1>15. Inside(g) = Inside(h1) BY <1>5, <1>14, ListsAside
<1>16. FreeIn(g) = F /\ Used(g) = Used(h) \cup {u} BY <1>6, <1>7, <1>14, <1>15 DEF FreeIn, Used, F
<1>17. ListedAnew(h1, g)
    <2>1. h1.len <= MaxHeapLen BY <1>6, <1>8
    <2>2. Binned(g, FreeIn(g), BinsOf(h1)) BY <1>14, <1>16 DEF c
    <2> QED BY <1>5, <1>6, <1>14, <2>1, <2>2, ListsSound
<1>18. Sound(g) /\ \A x \in Inside(h1) : Of(g, x) = Of(h1, x) /\ Nx(g, x) = Nx(h1, x) /\ Size(g, x) = Size(h1, x)
    BY <1>17 DEF ListedAnew
<1>19. Apart(g)
    <2> SUFFICES ASSUME NEW x \in Inside(g), Nx(g, x) # x, Fr(g, x), Fr(g, Nx(g, x)) PROVE FALSE BY DEF Apart
    <2>1. x \in F /\ Nx(g, x) \in F
        <3>1. Nx(g, x) \in Inside(g) BY <1>18, SoundIs
        <3>2. x \in FreeIn(g) /\ Nx(g, x) \in FreeIn(g) BY <3>1 DEF FreeIn
        <3> QED BY <1>16, <3>2
    <2>2. u \notin F BY <1>1, <1>6
    <2>3. x # f BY <1>1, <1>2, <1>6, <1>18, <2>1, <2>2
    <2>4. Nx(g, x) = Nx(h, x) BY <1>1, <1>6, <1>18, <2>1, <2>2, <2>3
    <2> QED BY <1>1, <2>1, <2>4 DEF Apart, FreeIn, F
<1>20. u \notin Used(h) /\ \A x \in Used(h) : x \in Inside(h) \ {f} BY <1>1, <1>6 DEF Used
<1>21. Gained(h, g, u, o, Size(h, f) - s) BY <1>2, <1>4, <1>6, <1>16, <1>18, <1>19, <1>20 DEF Gained
<1> QED BY <1>21 DEF o

\* The search for any size begins at a bin.
LEMMA BinIsNumber ==
    ASSUME NEW size \in Nat \ {0}
    PROVE  SizeToBin(size) \in Nat
<1>1. /\ Log2SmallBins \in Nat /\ NBins \in Nat /\ SmallBins = Pow2[Log2SmallBins] /\ NBins >= SmallBins
    BY HeapAssumption DEF SmallBins
<1>2. SmallBins \in Nat \ {0} BY <1>1, Powers
<1>3. CASE size <= SmallBins BY <1>3 DEF SizeToBin
<1>4. CASE size > SmallBins
    <2> DEFINE k == MaxLog2(size)
    <2>1. k \in Nat /\ Pow2[k] >= size BY Log2
    <2> HIDE DEF k
    <2>2. k > Log2SmallBins
        <3> SUFFICES ASSUME k <= Log2SmallBins PROVE FALSE BY <1>1, <2>1
        <3>1. Pow2[k] <= Pow2[Log2SmallBins] /\ Pow2[k] \in Nat BY <1>1, <2>1, PowersGrow, Powers
        <3> QED BY <1>1, <1>2, <1>4, <2>1, <3>1
    <2>3. SmallBins + k - (Log2SmallBins + 1) \in Nat BY <1>1, <1>2, <2>1, <2>2
    <2>4. SizeToBin(size) \in {NBins - 1, SmallBins + k - (Log2SmallBins + 1)}
        BY <1>2, <1>4 DEF SizeToBin, k
    <2>5. NBins - 1 \in Nat BY <1>1, <1>2
    <2> QED BY <2>3, <2>4, <2>5
<1> QED BY <1>2, <1>3, <1>4

\* search_free_list finds a free block that is large enough.
LEMMA SearchedIs ==
    ASSUME NEW h, Sound(h), Apart(h), NEW size \in Nat \ {0}, FittingBins(h, size) # {}
    PROVE  \E from \in Nat : Gained(h, Searched(h, size).h, Searched(h, size).e, from, size)
<1> DEFINE FB == FittingBins(h, size)
           b == CHOOSE x \in FB : \A y \in FB : x <= y
           BE == BigEnough(h, b, size)
           l == CHOOSE x \in BE : \A y \in BE : x >= y
           f == h.lists[b][l]
           s == Size(h, f) - size
           o == Of(h, f) + s
           d == SizeToBin(s)
           h1 == InsertAfter(WithElt(h, o), f, NewElt(h))
           h0 == [h EXCEPT !.elts[f].free = FALSE, !.elts[f].fi = 0]
<1>1. SizeToBin(size) \in Nat BY BinIsNumber
<1>2. b \in FB
    <2>1. FB \subseteq Int /\ FB # {} /\ \A x \in FB : 0 <= x BY <1>1, HeapAssumption DEF FittingBins
    <2>2. 0 \in Int OBVIOUS
    <2>3. Min(FB) \in FB
        <3> HIDE DEF FB
        <3> QED BY <2>1, <2>2, LeastAbove
    <2> QED BY <2>3 DEF Min
<1> HIDE DEF b
<1>3. b \in Bins /\ BE # {} BY <1>1, <1>2, HeapAssumption DEF FittingBins, Bins
<1>4. PICK n \in Nat : WellFormed(h, n) BY DEF Sound
<1>5. h.lists[b] \in Seq(Nat) BY <1>3, <1>4 DEF WellFormed, HeapsOf
<1>6. l \in BE
    <2> DEFINE len == Len(h.lists[b])
    <2>1. len \in Int /\ BE \subseteq Int /\ \A x \in BE : x <= len BY <1>5 DEF BigEnough
    <2>2. Max(BE) \in BE
        <3> HIDE DEF BE, len
        <3> QED BY <1>3, <2>1, GreatestBelow
    <2> QED BY <2>2 DEF Max
<1> HIDE DEF l
<1>7. l \in 1 .. Len(h.lists[b]) /\ Size(h, f) >= size BY <1>5, <1>6 DEF BigEnough
<1>8. f \in FreeIn(h) /\ BinsOf(h)[f] = b /\ Fi(h, f) = l - 1 BY <1>3, <1>7 DEF Sound, Binned
<1>9. f \in Inside(h) BY <1>8 DEF FreeIn
<1>10. b = SizeToBin(Size(h, f)) BY <1>8, <1>9 DEF BinsOf
<1>11. Size(h, f) \in Nat /\ Of(h, f) \in Nat BY <1>9, SoundSizes, SoundIs
<1>12. s \in Nat /\ s < Size(h, f) /\ Size(h, f) - s = size BY <1>7, <1>11
<1>13. CASE s = 0
    <2>1. /\ Searched(h, size).e = f /\ Searched(h, size).h = Unlisted(h0, b, l - 1)
        <3>1. Searched(h, size) = [e |-> f, h |-> SplitListed(h0, b, l - 1, f, 0)] BY <1>13 DEF Searched, b, l
        <3>2. SplitListed(h0, b, l - 1, f, 0) = Unlisted(h0, b, l - 1) BY DEF SplitListed
        <3> QED BY <3>1, <3>2
    <2>2. Size(h, f) = size BY <1>11, <1>13
    <2> DEFINE g == Unlisted(h0, b, l - 1)
               i == l - 1
    <2>3. i = Fi(h, f) BY <1>8
    <2>4. g = Unlisted([h EXCEPT !.elts[f].free = FALSE, !.elts[f].fi = 0], b, i) OBVIOUS
    <2> HIDE DEF g, i, f
    <2>5. Gained(h, g, f, Of(h, f), Size(h, f)) BY <1>8, <1>10, <2>3, <2>4, TakenWhole
    <2> QED BY <1>11, <2>1, <2>2, <2>5 DEF g
<1>14. CASE s # 0
    <2> DEFINE u == NewElt(h)
               i == l - 1
               g == IF d = b THEN h1 ELSE Unlisted(Listed(h1, d, f), b, i)
    <2>1. h.elts[f].offset + s = o BY DEF Of
    <2>2. /\ Searched(h, size).e = u /\ Searched(h, size).h = g
        <3>1. Searched(h, size) = [e |-> u, h |-> SplitListed(h1, b, i, f, s)]
            BY <1>14, <2>1 DEF Searched, b, l
        <3>2. SplitListed(h1, b, i, f, s) = g BY <1>12, <1>14 DEF SplitListed
        <3> QED BY <3>1, <3>2
    <2>3. i = Fi(h, f) BY <1>8
    <2>4. o \in Nat /\ Of(h, f) < o /\ o < Of(h, f) + Size(h, f) BY <1>11, <1>12, <1>14
    <2>5. CutBehind(h, h1, f, u, o)
        <3> HIDE DEF o
        <3> QED BY <1>9, <2>4, CutAfterIs
    <2>6. s \in Nat \ {0} BY <1>12, <1>14
    <2>7. CutBehind(h, h1, f, u, Of(h, f) + s) BY <2>5
    <2>8. g = IF SizeToBin(s) = b THEN h1 ELSE Unlisted(Listed(h1, SizeToBin(s), f), b, i) OBVIOUS
    <2> HIDE DEF g, i, h1, u, f, s, o, d
    <2>9. Gained(h, g, u, Of(h, f) + s, Size(h, f) - s) BY <1>8, <1>10, <1>12, <2>3, <2>6, <2>7, <2>8, TakenEnd
    <2>10. Of(h, f) + s \in Nat BY <1>11, <2>6
    <2> QED BY <1>12, <2>2, <2>9, <2>10
<1> QED BY <1>13, <1>14

\* The objects of h, of which e is size bytes at from.
Trimmed(h, g, e, from, size) ==
    /\ Sound(g) /\ Apart(g) /\ Used(g) = Used(h) /\ Of(g, e) = from /\ Size(g, e) = size
    /\ \A x \in Used(h) \ {e} : Of(g, x) = Of(h, x) /\ Size(g, x) = Size(h, x)

\* What is cut off is freed.
LEMMA CutOff ==
    ASSUME NEW h, Sound(h), Apart(h), NEW e \in Used(h), NEW g, NEW new, Cut(h, g, e, new)
    PROVE  Trimmed(h, Dealloc(g, new), e, Of(g, e), Size(g, e))
<1> DEFINE r == Dealloc(g, new)
<1>1. /\ Sound(g) /\ Apart(g) /\ Used(g) = Used(h) \cup {new} /\ new \notin Inside(h)
      /\ \A x \in Used(h) \ {e} : Of(g, x) = Of(h, x) /\ Size(g, x) = Size(h, x) BY CutSound
<1>2. new \in Used(g) BY <1>1
<1>3. Freed(g, r, new) BY <1>1, <1>2, DeallocIs
<1> HIDE DEF r
<1>4. /\ Sound(r) /\ Apart(r) /\ Used(r) = Used(g) \ {new}
      /\ \A x \in Used(r) : Of(r, x) = Of(g, x) /\ Size(r, x) = Size(g, x) BY <1>3 DEF Freed
<1>5. Used(r) = Used(h) BY <1>1, <1>4 DEF Used
<1>6. Trimmed(h, r, e, Of(g, e), Size(g, e)) BY <1>1, <1>4, <1>5 DEF Trimmed
<1> QED BY <1>6 DEF r

\* The fragment in front of an object that is moved to a higher offset.
LEMMA FrontIs ==
    ASSUME NEW h, Sound(h), Apart(h), NEW e \in Used(h), NEW from, from = Of(h, e), NEW at \in Nat, from <= at,
           at < from + Size(h, e), NEW moved, moved = [h EXCEPT !.elts[e].offset = at], NEW g,
           g = IF at = from THEN moved
               ELSE Dealloc(InsertBefore(WithElt(moved, from), e, NewElt(moved)), NewElt(moved))
    PROVE  Trimmed(h, g, e, at, from + Size(h, e) - at)
<1>1. e \in Inside(h) /\ from \in Nat BY SoundIs DEF Used
<1>2. Size(h, e) \in Nat BY <1>1, SoundSizes
<1>3. CASE at = from
    <2>1. PICK n \in Nat : WellFormed(h, n) BY DEF Sound
    <2>2. h \in HeapsOf(n) /\ e \in 0 .. n - 1 BY <1>1, <2>1, InsideIs DEF WellFormed
    <2>3. h.elts \in [0 .. n - 1 -> Blocks] /\ h.elts[e] \in Blocks BY <2>2 DEF HeapsOf
    <2>4. [h.elts[e] EXCEPT !.offset = at] = h.elts[e] BY <1>3, <2>3 DEF Blocks, Of
    <2>5. [h.elts EXCEPT ![e] = h.elts[e]] = h.elts BY <2>3
    <2>6. moved = [h EXCEPT !.elts = [h.elts EXCEPT ![e] = [h.elts[e] EXCEPT !.offset = at]]] BY <2>3
    <2>7. moved = [h EXCEPT !.elts = h.elts] BY <2>4, <2>5, <2>6
    <2>8. g = h BY <1>3, <2>2, <2>7 DEF HeapsOf
    <2>9. from + Size(h, e) - at = Size(h, e) BY <1>1, <1>2, <1>3
    <2> QED BY <1>3, <2>8, <2>9 DEF Trimmed
<1>4. CASE at # from
    <2> DEFINE r == InsertBefore(WithElt(moved, Of(h, e)), e, NewElt(moved))
               new == NewElt(moved)
    <2>1. Of(h, e) < at /\ at < Of(h, e) + Size(h, e) BY <1>1, <1>4
    <2>2. CutAhead(h, r, e, new, at) BY <1>1, <2>1, CutBeforeIs
    <2>3. g = Dealloc(r, new) BY <1>4
    <2> HIDE DEF r, new
    <2>4. Cut(h, r, e, new) /\ Of(r, e) = at /\ Size(r, e) = from + Size(h, e) - at BY <2>2 DEF CutAhead
    <2>5. Trimmed(h, Dealloc(r, new), e, Of(r, e), Size(r, e)) BY <2>4, CutOff
    <2> QED BY <2>3, <2>4, <2>5
<1> QED BY <1>3, <1>4

\* The fragment behind an object that is made smaller.
LEMMA BackIs ==
    ASSUME NEW h, Sound(h), Apart(h), NEW e \in Used(h), NEW at, at = Of(h, e), NEW size \in Nat \ {0},
           size <= Size(h, e), NEW g,
           g = IF size = Size(h, e) THEN h
               ELSE Dealloc(InsertAfter(WithElt(h, at + size), e, NewElt(h)), NewElt(h))
    PROVE  Trimmed(h, g, e, at, size)
<1>1. e \in Inside(h) /\ at \in Nat BY SoundIs DEF Used
<1>2. Size(h, e) \in Nat BY <1>1, SoundSizes
<1>3. CASE size = Size(h, e) BY <1>3 DEF Trimmed
<1>4. CASE size # Size(h, e)
    <2> DEFINE o == at + size
               r == InsertAfter(WithElt(h, o), e, NewElt(h))
               new == NewElt(h)
    <2>1. o \in Nat /\ Of(h, e) < o /\ o < Of(h, e) + Size(h, e) /\ o - Of(h, e) = size BY <1>1, <1>2, <1>4
    <2>3. g = Dealloc(r, new) BY <1>4
    <2> HIDE DEF o
    <2>2. CutBehind(h, r, e, new, o) BY <1>1, <2>1, CutAfterIs
    <2> HIDE DEF r, new
    <2>4. Cut(h, r, e, new) /\ Of(r, e) = at /\ Size(r, e) = size BY <2>1, <2>2 DEF CutBehind
    <2>5. Trimmed(h, Dealloc(r, new), e, Of(r, e), Size(r, e)) BY <2>4, CutOff
    <2> QED BY <2>3, <2>4, <2>5
<1> QED BY <1>3, <1>4

\* The object is where it is aligned, and as large as asked for.
LEMMA AlignedIs ==
    ASSUME NEW h, Sound(h), Apart(h), NEW e \in Used(h), NEW from, from = Of(h, e), NEW reserved,
           reserved = Size(h, e), NEW at \in Nat, NEW size \in Nat \ {0}, from <= at, at + size <= from + reserved
    PROVE  Trimmed(h, Aligned(h, e, from, at, size, reserved), e, at, size)
<1> DEFINE moved == [h EXCEPT !.elts[e].offset = at]
           front == IF at = from THEN moved
                    ELSE Dealloc(InsertBefore(WithElt(moved, from), e, NewElt(moved)), NewElt(moved))
           r == Aligned(h, e, from, at, size, reserved)
<1>1. e \in Inside(h) /\ from \in Nat BY SoundIs DEF Used
<1>2. reserved \in Nat BY <1>1, SoundSizes
<1>3. at < from + Size(h, e) BY <1>1, <1>2
<1>4. Trimmed(h, front, e, at, from + Size(h, e) - at)
    <2> DEFINE k == moved
    <2>1. k = [h EXCEPT !.elts[e].offset = at] OBVIOUS
    <2>2. front = IF at = from THEN k ELSE Dealloc(InsertBefore(WithElt(k, from), e, NewElt(k)), NewElt(k)) OBVIOUS
    <2> HIDE DEF k, front
    <2> QED BY <1>3, <2>1, <2>2, FrontIs
<1>5. r = IF at + size >= from + reserved THEN front
          ELSE Dealloc(InsertAfter(WithElt(front, at + size), e, NewElt(front)), NewElt(front))
    BY Zenon DEF Aligned
<1> HIDE DEF front, moved, r
<1>6. /\ Sound(front) /\ Apart(front) /\ Used(front) = Used(h) /\ Of(front, e) = at
      /\ Size(front, e) = from + reserved - at
      /\ \A x \in Used(h) \ {e} : Of(front, x) = Of(h, x) /\ Size(front, x) = Size(h, x) BY <1>4 DEF Trimmed
<1>7. size <= Size(front, e) /\ (at + size >= from + reserved <=> size = Size(front, e)) BY <1>1, <1>2, <1>6
<1>8. Trimmed(front, r, e, at, size)
    <2>1. r = IF size = Size(front, e) THEN front
              ELSE Dealloc(InsertAfter(WithElt(front, at + size), e, NewElt(front)), NewElt(front)) BY <1>5, <1>7
    <2>2. e \in Used(front) /\ at = Of(front, e) BY <1>6
    <2> QED BY <1>6, <1>7, <2>1, <2>2, BackIs
<1>9. Trimmed(h, r, e, at, size) BY <1>6, <1>8 DEF Trimmed
<1> QED BY <1>9 DEF r

-----------------------------------------------------------------------------
(* Steps *)

\* The first multiple of the alignment.
LEMMA RoundedUp ==
    ASSUME NEW align \in Nat, NEW a, a = RoundedAlign(align), NEW from \in Nat, NEW at, at = ((from + a - 1) \div a) * a
    PROVE  a \in Nat \ {0} /\ at \in Nat /\ from <= at /\ at <= from + a - 1 /\ at % a = 0
<1>1. a \in Nat \ {0}
    <2>1. MaxLog2(align) \in Nat BY Log2
    <2>2. Pow2[MaxLog2(align)] \in Nat \ {0} BY <2>1, Powers
    <2> QED BY <2>2 DEF RoundedAlign
<1> DEFINE x == from + a - 1
           q == x \div a
<1>2. x \in Int BY <1>1
<1>3. q \in Int /\ x % a \in 0 .. a - 1 /\ x = a * q + (x % a) BY <1>1, <1>2, DivMod
<1>4. at = q * a OBVIOUS
<1>5. x = from + a - 1 OBVIOUS
<1> HIDE DEF q, x
<1>6. q * a = a * q /\ a * q \in Int BY <1>1, <1>3
<1> DEFINE p == a * q
<1>7. at = p /\ p \in Int /\ x = p + (x % a) BY <1>3, <1>4, <1>6
<1>8. p = a * q + 0 BY <1>6
<1> HIDE DEF p
<1>9. from <= p /\ p <= from + a - 1 /\ p \in Nat
    <2>1. PICK r \in 0 .. a - 1 : from + a - 1 = p + r BY <1>3, <1>5, <1>7
    <2> QED BY <1>1, <1>7, <2>1
<1>10. p % a = 0
    <2>1. 0 \in 0 .. a - 1 BY <1>1
    <2> QED BY <1>1, <1>3, <1>7, <1>8, <2>1, DivModIs
<1> QED BY <1>1, <1>7, <1>9, <1>10

\* The objects are the blocks in use, where and as large as was asked for.
ObjectsAre(h, obj) ==
    /\ DOMAIN obj = Used(h)
    /\ \A k \in Used(h) : obj[k].offset = Of(h, k) /\ obj[k].size = Size(h, k) /\ obj[k].offset % obj[k].align = 0

\* A heap without blocks, or one that is sound.
Fine(h) == h = EmptyHeap \/ (Sound(h) /\ Apart(h))

\* A block for a new object, before it is aligned.
Reserved(h, reserved) == IF FittingBins(h, reserved) # {} THEN Searched(h, reserved) ELSE AtEnd(h, reserved)

\* It is found or made.
LEMMA ReservedIs ==
    ASSUME NEW h, Fine(h), NEW reserved \in Nat \ {0},
           FittingBins(h, reserved) # {} \/ h.len + reserved <= MaxHeapLen
    PROVE  \E from \in Nat : Gained(h, Reserved(h, reserved).h, Reserved(h, reserved).e, from, reserved)
<1>1. CASE Sound(h) /\ Apart(h)
    <2>1. CASE FittingBins(h, reserved) # {} BY <1>1, <2>1, SearchedIs DEF Reserved
    <2>2. CASE FittingBins(h, reserved) = {}
        <3>1. Gained(h, AtEnd(h, reserved).h, AtEnd(h, reserved).e, h.len, reserved) BY <1>1, <2>2, AtEndIs
        <3>2. h.len \in Nat BY <1>1, SoundIs
        <3> QED BY <2>2, <3>1, <3>2 DEF Reserved
    <2> QED BY <2>1, <2>2
<1>2. CASE h = EmptyHeap
    <2>1. FittingBins(h, reserved) = {}
        <3> SUFFICES ASSUME NEW b \in FittingBins(h, reserved) PROVE FALSE OBVIOUS
        <3>1. b \in Bins /\ BigEnough(h, b, reserved) # {}
            BY BinIsNumber, HeapAssumption DEF FittingBins, Bins
        <3>2. h.lists[b] = <<>> BY <1>2, <3>1, EmptyHeapIs
        <3> QED BY <3>1, <3>2 DEF BigEnough
    <2>2. h.len = 0 BY <1>2, EmptyHeapIs
    <2>3. reserved \in 1 .. MaxHeapLen BY <2>1, <2>2, HeapAssumption
    <2>4. Gained(h, AtEnd(h, reserved).h, AtEnd(h, reserved).e, 0, reserved) BY <1>2, <2>3, FirstIs
    <2> QED BY <2>1, <2>4 DEF Reserved
<1> QED BY <1>1, <1>2 DEF Fine

\* _heap_alloc
LEMMA AllocIs ==
    ASSUME Fine(heap), ObjectsAre(heap, objects), NEW size \in HeapSizes, NEW align \in Aligns, HeapAlloc(size, align)
    PROVE  Fine(heap') /\ ObjectsAre(heap', objects')
<1> DEFINE a == RoundedAlign(align)
           reserved == size + a - 1
           g == Reserved(heap, reserved)
           h == g.h
           e == g.e
           from == h.elts[e].offset
           at == ((from + a - 1) \div a) * a
           r == Aligned(h, e, from, at, size, reserved)
           new == [offset |-> at, size |-> size, align |-> a]
<1>1. /\ FittingBins(heap, reserved) # {} \/ heap.len + reserved <= MaxHeapLen
      /\ heap' = r /\ objects' = [k \in DOMAIN objects \cup {e} |-> IF k = e THEN new ELSE objects[k]]
    BY Zenon DEF HeapAlloc, Reserved
<1>2. size \in Nat \ {0} /\ align \in Nat BY HeapAssumption
<1>3. a \in Nat \ {0} BY <1>2, RoundedUp
<1>4. from = Of(h, e) BY DEF Of
<1> HIDE DEF a, g, from, r, new
<1>5. reserved \in Nat \ {0} /\ size <= reserved BY <1>2, <1>3
<1>6. PICK f \in Nat : Gained(heap, h, e, f, reserved)
    <2> HIDE DEF reserved
    <2> QED BY <1>1, <1>5, ReservedIs DEF g
<1>7. /\ Sound(h) /\ Apart(h) /\ e \notin Used(heap) /\ Used(h) = Used(heap) \cup {e}
      /\ Of(h, e) = f /\ Size(h, e) = reserved
      /\ \A x \in Used(heap) : Of(h, x) = Of(heap, x) /\ Size(h, x) = Size(heap, x) BY <1>6 DEF Gained
<1>8. from \in Nat BY <1>4, <1>7
<1>9. at \in Nat /\ from <= at /\ at <= from + a - 1 /\ at % a = 0 BY <1>2, <1>8, RoundedUp DEF a
<1>10. at + size <= from + reserved BY <1>2, <1>3, <1>8, <1>9
<1> HIDE DEF h, e, at, reserved
<1>11. Trimmed(h, r, e, at, size)
    <2>1. e \in Used(h) BY <1>7
    <2> QED BY <1>2, <1>4, <1>7, <1>9, <1>10, <2>1, AlignedIs DEF r
<1>12. /\ Sound(r) /\ Apart(r) /\ Used(r) = Used(h) /\ Of(r, e) = at /\ Size(r, e) = size
       /\ \A x \in Used(h) \ {e} : Of(r, x) = Of(h, x) /\ Size(r, x) = Size(h, x) BY <1>11 DEF Trimmed
<1>13. new.offset = at /\ new.size = size /\ new.align = a BY DEF new
<1>14. ObjectsAre(r, objects')
    <2>1. DOMAIN objects' = Used(r) BY <1>1, <1>7, <1>12 DEF ObjectsAre
    <2>2. ASSUME NEW k \in Used(r)
          PROVE  /\ objects'[k].offset = Of(r, k) /\ objects'[k].size = Size(r, k)
                 /\ objects'[k].offset % objects'[k].align = 0
        <3>1. CASE k = e
            <4>1. objects'[k] = new BY <1>1, <3>1
            <4> QED BY <1>9, <1>12, <1>13, <3>1, <4>1
        <3>2. CASE k # e
            <4>1. k \in Used(heap) /\ k \in DOMAIN objects BY <1>7, <1>12, <3>2 DEF ObjectsAre
            <4>2. objects'[k] = objects[k] BY <1>1, <3>2, <4>1
            <4>3. Of(r, k) = Of(heap, k) /\ Size(r, k) = Size(heap, k) BY <1>7, <1>12, <3>2, <4>1
            <4> QED BY <4>1, <4>2, <4>3 DEF ObjectsAre
        <3> QED BY <3>1, <3>2
    <2> QED BY <2>1, <2>2 DEF ObjectsAre
<1> QED BY <1>1, <1>12, <1>14 DEF Fine

\* heap_dealloc
LEMMA HeapDeallocIs ==
    ASSUME Fine(heap), ObjectsAre(heap, objects), NEW handle \in DOMAIN objects, HeapDealloc(handle)
    PROVE  Fine(heap') /\ ObjectsAre(heap', objects')
<1> DEFINE r == Dealloc(heap, handle)
<1>1. heap' = r /\ objects' = [k \in DOMAIN objects \ {handle} |-> objects[k]] BY DEF HeapDealloc
<1>2. handle \in Used(heap) BY DEF ObjectsAre
<1>3. Sound(heap) /\ Apart(heap) BY <1>2, EmptyHeapIs DEF Fine
<1>4. Freed(heap, r, handle) BY <1>2, <1>3, DeallocIs
<1> HIDE DEF r
<1>5. /\ Sound(r) /\ Apart(r) /\ Used(r) = Used(heap) \ {handle}
      /\ \A x \in Used(r) : Of(r, x) = Of(heap, x) /\ Size(r, x) = Size(heap, x) BY <1>4 DEF Freed
<1>6. DOMAIN objects' = Used(r) BY <1>1, <1>5 DEF ObjectsAre
<1>7. \A k \in Used(r) : objects'[k] = objects[k] /\ k \in Used(heap) BY <1>1, <1>5 DEF ObjectsAre
<1>8. ObjectsAre(r, objects') BY <1>5, <1>6, <1>7 DEF ObjectsAre
<1> QED BY <1>1, <1>5, <1>8 DEF Fine

-----------------------------------------------------------------------------
(* The chain as a sequence *)

\* The blocks in the order of the links, counted from 0.
Walk(h, f) ==
    /\ f \in [Nat -> Inside(h)] /\ f[0] = h.head /\ \A k \in Nat : f[k + 1] = Nx(h, f[k])
    /\ Chain(h) = [i \in 1 .. Cardinality(Inside(h)) |-> f[i - 1]]

\* There is such a walk.
LEMMA WalkIs ==
    ASSUME NEW h, Sound(h)
    PROVE  \E f : Walk(h, f)
<1> DEFINE S == Inside(h)
           step == [x \in S |-> Nx(h, x)]
           elt[k \in Nat] == IF k = 0 THEN h.head ELSE h.elts[elt[k - 1]].next
<1>1. h.head \in S /\ \A x \in S : Nx(h, x) \in S BY SoundIs
<1>2. Chain(h) = [i \in 1 .. Cardinality(S) |-> elt[i - 1]] BY Zenon DEF Chain, Inside
<1>3. step \in [S -> S] /\ \A x \in S : step[x] = Nx(h, x) BY <1>1
<1> HIDE DEF S, step
<1>4. PICK f : SteppedOn(f, S, h.head, step) BY <1>1, <1>3, Steps
<1>5. f \in [Nat -> S] /\ f[0] = h.head /\ \A k \in Nat : f[k + 1] = Nx(h, f[k])
    BY <1>3, <1>4 DEF SteppedOn
<1>6. \A k \in Nat : f[k] = IF k = 0 THEN h.head ELSE h.elts[f[k - 1]].next
    <2> TAKE k \in Nat
    <2>1. CASE k = 0 BY <1>5, <2>1
    <2>2. CASE k # 0
        <3>1. k - 1 \in Nat /\ (k - 1) + 1 = k BY <2>2
        <3>2. f[(k - 1) + 1] = Nx(h, f[k - 1]) BY <1>5, <3>1
        <3> QED BY <2>2, <3>1, <3>2 DEF Nx
    <2> QED BY <2>1, <2>2
<1>7. f = [k \in Nat |-> IF k = 0 THEN h.head ELSE h.elts[f[k - 1]].next] BY <1>5, <1>6
<1>8. \E g : g = [k \in Nat |-> IF k = 0 THEN h.head ELSE h.elts[g[k - 1]].next] BY <1>7
<1>9. elt = [k \in Nat |-> IF k = 0 THEN h.head ELSE h.elts[elt[k - 1]].next] BY <1>8, Zenon
<1> HIDE DEF elt
<1>10. DOMAIN elt = Nat /\ \A k \in Nat : elt[k] = IF k = 0 THEN h.head ELSE h.elts[elt[k - 1]].next BY <1>9, Zenon
<1>11. \A k \in Nat : elt[k] = f[k]
    <2> DEFINE P == {k \in Nat : elt[k] = f[k]}
    <2>1. 0 \in P BY <1>5, <1>10
    <2>2. \A k \in Nat : k \in P => k + 1 \in P
        <3> SUFFICES ASSUME NEW k \in Nat, k \in P PROVE k + 1 \in P OBVIOUS
        <3>1. k + 1 \in Nat /\ k + 1 # 0 /\ (k + 1) - 1 = k /\ elt[k] = f[k] OBVIOUS
        <3>2. elt[k + 1] = h.elts[elt[k]].next /\ f[k + 1] = h.elts[f[k]].next BY <3>1, <1>6, <1>10
        <3> QED BY <3>1, <3>2
    <2> HIDE DEF P
    <2>3. Nat \subseteq P BY <2>1, <2>2, AllNumbers
    <2> QED BY <2>3 DEF P
<1>12. \A i \in 1 .. Cardinality(S) : elt[i - 1] = f[i - 1]
    <2>1. PICK n \in Nat : WellFormed(h, n) BY DEF Sound
    <2>2. IsFiniteSet(S) /\ Cardinality(S) \in Nat
        <3>1. S \in SUBSET (0 .. n - 1) BY <2>1, InsideIs DEF S
        <3>2. IsFiniteSet(0 .. n - 1) BY FS_Interval
        <3>3. IsFiniteSet(S) BY <3>1, <3>2, FS_Subset
        <3> QED BY <3>3, FS_CardinalityType
    <2>3. \A i \in 1 .. Cardinality(S) : i - 1 \in Nat BY <2>2
    <2> QED BY <1>11, <2>3
<1>13. Chain(h) = [i \in 1 .. Cardinality(S) |-> f[i - 1]] BY <1>2, <1>12
<1>14. Walk(h, f) BY <1>5, <1>13 DEF Walk, S
<1> QED BY <1>14

\* The walk reaches every block, and first the one that is last.
LEMMA WalkReaches ==
    ASSUME NEW h, Sound(h), NEW f, Walk(h, f)
    PROVE  \E k \in Nat : /\ f[k] = h.tail /\ \A e \in Inside(h) : \E j \in 0 .. k : e = f[j]
                          /\ \A i, j \in 0 .. k : f[i] = f[j] => i = j
<1> DEFINE S == Inside(h)
           R == {f[j] : j \in Nat}
<1>1. /\ h.head \in S /\ h.tail \in S
      /\ \A e \in S : /\ Nx(h, e) \in S /\ Pv(h, e) \in S /\ Of(h, e) \in Nat
                      /\ (Nx(h, e) # e => Of(h, e) < Of(h, Nx(h, e)))
                      /\ (Pv(h, e) # e => Of(h, Pv(h, e)) < Of(h, e) /\ Nx(h, Pv(h, e)) = e) BY SoundIs
<1>2. \A e \in S : (Nx(h, e) = e <=> e = h.tail) /\ (Pv(h, e) = e <=> e = h.head) BY DEF Sound, Linked
<1>3. f \in [Nat -> S] /\ f[0] = h.head /\ \A k \in Nat : f[k + 1] = Nx(h, f[k]) BY DEF Walk
<1> HIDE DEF S
<1>4. S \subseteq R
    <2> SUFFICES ASSUME S \ R # {} PROVE FALSE OBVIOUS
    <2> DEFINE Q == {Of(h, e) : e \in S \ R}
    <2>1. Q \subseteq Nat /\ Q # {} BY <1>1
    <2>2. Min(Q) \in Q /\ \A q \in Q : Min(Q) <= q
        <3> HIDE DEF Q
        <3> QED BY <2>1, MinIsLeast
    <2>3. PICK e \in S \ R : Min(Q) = Of(h, e) BY <2>2
    <2>4. \A x \in S \ R : Of(h, e) <= Of(h, x) BY <2>2, <2>3
    <2>5. e # h.head BY <1>3
    <2>6. Pv(h, e) \in S /\ Of(h, Pv(h, e)) < Of(h, e) /\ Nx(h, Pv(h, e)) = e BY <1>1, <1>2, <2>5
    <2>7. Pv(h, e) \in R
        <3> HIDE DEF Q, R
        <3> QED BY <1>1, <2>4, <2>6
    <2>8. PICK j \in Nat : Pv(h, e) = f[j] BY <2>7
    <2>9. f[j + 1] = e /\ j + 1 \in Nat BY <1>3, <2>6, <2>8
    <2> QED BY <2>9
<1> DEFINE T == {j \in Nat : f[j] = h.tail}
           k == Min(T)
<1>5. k \in Nat /\ f[k] = h.tail /\ \A j \in T : k <= j
    <2>1. T \subseteq Nat /\ T # {} BY <1>1, <1>4
    <2>2. k \in T /\ \A j \in T : k <= j
        <3> HIDE DEF T
        <3> QED BY <2>1, MinIsLeast
    <2> HIDE DEF k
    <2> QED BY <2>2
<1> HIDE DEF k
<1>6. \A j \in Nat : j < k => Of(h, f[j]) < Of(h, f[j + 1])
    <2> SUFFICES ASSUME NEW j \in Nat, j < k PROVE Of(h, f[j]) < Of(h, f[j + 1]) OBVIOUS
    <2>1. f[j] # h.tail BY <1>5
    <2> QED BY <1>1, <1>2, <1>3, <2>1
<1>7. \A j \in 0 .. k : \A i \in 0 .. k : i < j => Of(h, f[i]) < Of(h, f[j])
    <2> DEFINE P == {j \in 0 .. k : \A i \in 0 .. k : i < j => Of(h, f[i]) < Of(h, f[j])}
    <2>1. 0 \in P BY <1>5
    <2>2. \A j \in 1 .. k : j - 1 \in P => j \in P
        <3> SUFFICES ASSUME NEW j \in 1 .. k, j - 1 \in P, NEW i \in 0 .. k, i < j PROVE Of(h, f[i]) < Of(h, f[j])
            BY <1>5
        <3>1. j - 1 \in Nat /\ j - 1 < k /\ (j - 1) + 1 = j /\ i \in Nat /\ j \in Nat BY <1>5
        <3>2. Of(h, f[j - 1]) < Of(h, f[j]) BY <1>6, <3>1
        <3>3. i < j - 1 => Of(h, f[i]) < Of(h, f[j - 1]) OBVIOUS
        <3>4. Of(h, f[i]) \in Nat /\ Of(h, f[j - 1]) \in Nat /\ Of(h, f[j]) \in Nat BY <1>1, <1>3, <3>1
        <3>5. i < j - 1 \/ i = j - 1 BY <3>1
        <3> QED BY <3>2, <3>3, <3>4, <3>5
    <2> HIDE DEF P
    <2>3. 0 .. k \subseteq P BY <1>5, <2>1, <2>2, AllNumbersUpTo
    <2> QED BY <2>3 DEF P
<1>8. \A i, j \in 0 .. k : f[i] = f[j] => i = j
    <2> SUFFICES ASSUME NEW i \in 0 .. k, NEW j \in 0 .. k, f[i] = f[j], i < j PROVE FALSE BY <1>5
    <2>1. Of(h, f[i]) < Of(h, f[j]) BY <1>7
    <2>2. Of(h, f[i]) \in Nat BY <1>1, <1>3, <1>5
    <2> QED BY <2>1, <2>2
<1>9. \A j \in Nat : j >= k => f[j] = h.tail
    <2> DEFINE P == {j \in Nat : j >= k => f[j] = h.tail}
    <2>1. 0 \in P BY <1>5
    <2>2. \A j \in Nat : j \in P => j + 1 \in P
        <3> SUFFICES ASSUME NEW j \in Nat, j \in P, j + 1 >= k PROVE f[j + 1] = h.tail OBVIOUS
        <3>1. CASE j + 1 = k BY <1>5, <3>1
        <3>2. CASE j + 1 # k
            <4>1. f[j] = h.tail BY <1>5, <3>2
            <4> QED BY <1>1, <1>2, <1>3, <4>1
        <3> QED BY <3>1, <3>2
    <2> HIDE DEF P
    <2>3. Nat \subseteq P BY <2>1, <2>2, AllNumbers
    <2> QED BY <2>3 DEF P
<1>10. ASSUME NEW e \in S PROVE \E j \in 0 .. k : e = f[j]
    <2>1. PICK j \in Nat : e = f[j] BY <1>4
    <2>2. CASE j <= k BY <1>5, <2>1, <2>2
    <2>3. CASE j > k
        <3>1. e = f[k] BY <1>5, <1>9, <2>1, <2>3
        <3> QED BY <1>5, <3>1
    <2> QED BY <1>5, <2>2, <2>3
<1> QED BY <1>5, <1>8, <1>10 DEF S

\* The chain is every block, from head to tail.
InOrder(h, c) ==
    /\ \E n \in Nat : c \in [1 .. n + 1 -> Inside(h)] /\ c[n + 1] = h.tail
                      /\ \A i \in 1 .. n : c[i + 1] = Nx(h, c[i]) /\ c[i + 1] # c[i]
    /\ \A e \in Inside(h) : \E i \in DOMAIN c : e = c[i]

\* It is of a sound heap.
LEMMA ChainIs ==
    ASSUME NEW h, Sound(h)
    PROVE  InOrder(h, Chain(h))
<1>1. PICK f : Walk(h, f) BY WalkIs
<1>2. PICK k \in Nat : /\ f[k] = h.tail /\ \A e \in Inside(h) : \E j \in 0 .. k : e = f[j]
                       /\ \A i, j \in 0 .. k : f[i] = f[j] => i = j BY <1>1, WalkReaches
<1> DEFINE S == Inside(h)
           c == [i \in 1 .. k + 1 |-> f[i - 1]]
<1>3. f \in [Nat -> S] /\ \A j \in Nat : f[j + 1] = Nx(h, f[j]) BY <1>1 DEF Walk
<1>4. c \in [1 .. k + 1 -> S] /\ \A i \in 1 .. k + 1 : c[i] = f[i - 1] /\ i - 1 \in 0 .. k BY <1>3
<1>5. \A e \in S : \E i \in 1 .. k + 1 : e = c[i]
    <2> TAKE e \in S
    <2>1. PICK j \in 0 .. k : e = f[j] BY <1>2
    <2>2. j + 1 \in 1 .. k + 1 /\ (j + 1) - 1 = j OBVIOUS
    <2>3. c[j + 1] = f[j] BY <2>2
    <2> QED BY <2>1, <2>2, <2>3
<1> HIDE DEF c
<1>6. \A i, j \in 1 .. k + 1 : c[i] = c[j] => i = j
    <2> TAKE i, j \in 1 .. k + 1
    <2> HAVE c[i] = c[j]
    <2>1. i - 1 = j - 1 BY <1>2, <1>4
    <2> QED BY <2>1
<1>7. Cardinality(S) = k + 1
    <2>1. c \in Bijection(1 .. k + 1, S)
        BY <1>4, <1>5, <1>6 DEF Bijection, Injection, Surjection, IsInjective
    <2>2. ExistsBijection(1 .. k + 1, S) BY <2>1 DEF ExistsBijection
    <2> HIDE DEF S
    <2> QED BY <2>2, FS_CountingElements
<1>8. Chain(h) = c BY <1>1, <1>7 DEF Walk, c
<1>9. c[k + 1] = h.tail BY <1>2, <1>4
<1>10. ASSUME NEW i \in 1 .. k PROVE c[i + 1] = Nx(h, c[i]) /\ c[i + 1] # c[i]
    <2>1. i \in 1 .. k + 1 /\ i + 1 \in 1 .. k + 1 /\ (i + 1) - 1 = i /\ i - 1 \in Nat /\ (i - 1) + 1 = i OBVIOUS
    <2>2. c[i + 1] = f[i] /\ c[i] = f[i - 1] BY <1>4, <2>1
    <2>3. f[i] = Nx(h, f[i - 1]) BY <1>3, <2>1
    <2>4. i + 1 # i OBVIOUS
    <2> QED BY <1>6, <2>1, <2>2, <2>3, <2>4
<1>11. InOrder(h, c) BY <1>4, <1>5, <1>9, <1>10 DEF InOrder
<1> QED BY <1>8, <1>11

\* heap_validate
LEMMA SoundValidates ==
    ASSUME NEW h, Sound(h), Apart(h)
    PROVE  Validated(h) /\ ToSet(Chain(h)) = Inside(h)
<1> DEFINE c == Chain(h)
           in == DOMAIN h.elts \ ToSet(h.freeElts)
<1>1. PICK n \in Nat : /\ c \in [1 .. n + 1 -> Inside(h)] /\ c[n + 1] = h.tail
                       /\ \A i \in 1 .. n : c[i + 1] = Nx(h, c[i]) /\ c[i + 1] # c[i]
    BY ChainIs DEF InOrder
<1>2. \A e \in Inside(h) : \E i \in DOMAIN c : e = c[i] BY ChainIs DEF InOrder
<1>3. in = Inside(h) BY DEF Inside
<1>4. /\ h.head \in Inside(h) /\ h.tail \in Inside(h) /\ Of(h, h.head) = 0
      /\ \A e \in Inside(h) : /\ Nx(h, e) \in Inside(h) /\ Pv(h, e) \in Inside(h)
                              /\ (Nx(h, e) # e => Pv(h, Nx(h, e)) = e) BY SoundIs
<1>5. Pv(h, h.head) = h.head /\ Nx(h, h.tail) = h.tail BY <1>4 DEF Sound, Linked
<1>6. PICK m \in Nat : WellFormed(h, m) BY DEF Sound
<1>7. h.lists \in [Bins -> Seq(Nat)] /\ DOMAIN h.lists = Bins BY <1>6 DEF WellFormed, HeapsOf
<1>8. Binned(h, FreeIn(h), BinsOf(h)) BY DEF Sound
<1> HIDE DEF c, in
<1>9. Len(c) = n + 1 /\ DOMAIN c = 1 .. n + 1 /\ n + 1 \in 1 .. n + 1 BY <1>1
<1>10. ToSet(c) = Inside(h) BY <1>1, <1>2, <1>9 DEF ToSet
<1>11. Last(c) = h.tail BY <1>1, <1>9 DEF Last
<1>12. in # {} => /\ h.elts[h.head].prev = h.head /\ h.elts[h.head].offset = 0
                  /\ h.elts[h.tail].next = h.tail /\ Last(c) = h.tail
    BY <1>4, <1>5, <1>11 DEF Nx, Pv, Of
<1>13. \A i \in 1 .. Len(c) - 1 :
           /\ h.elts[c[i + 1]].prev = c[i] /\ Size(h, c[i]) > 0
           /\ ~ (h.elts[c[i]].free /\ h.elts[c[i + 1]].free)
    <2> SUFFICES ASSUME NEW i \in 1 .. n
                 PROVE  /\ h.elts[c[i + 1]].prev = c[i] /\ Size(h, c[i]) > 0
                        /\ ~ (h.elts[c[i]].free /\ h.elts[c[i + 1]].free) BY <1>9
    <2>1. c[i] \in Inside(h) /\ c[i + 1] = Nx(h, c[i]) /\ Nx(h, c[i]) # c[i] BY <1>1
    <2>2. Pv(h, c[i + 1]) = c[i] BY <1>4, <2>1
    <2>3. Size(h, c[i]) \in 1 .. MaxHeapLen BY <2>1, SoundSizes
    <2>4. Size(h, c[i]) > 0 BY <2>3, HeapAssumption
    <2>5. ~ (Fr(h, c[i]) /\ Fr(h, c[i + 1])) BY <2>1 DEF Apart
    <2> QED BY <2>2, <2>4, <2>5 DEF Pv, Fr
<1>14. \A b \in Bins : \A l \in DOMAIN h.lists[b] :
           /\ h.lists[b][l] \in FreeIn(h) /\ BinsOf(h)[h.lists[b][l]] = b /\ Fi(h, h.lists[b][l]) = l - 1
    <2> TAKE b \in Bins
    <2>1. DOMAIN h.lists[b] = 1 .. Len(h.lists[b]) BY <1>7
    <2> QED BY <1>8, <2>1 DEF Binned
<1>15. {e \in in : h.elts[e].free} = UNION {ToSet(h.lists[b]) : b \in DOMAIN h.lists}
    <2>1. ASSUME NEW e \in in, h.elts[e].free PROVE \E b \in Bins : e \in ToSet(h.lists[b])
        <3>1. e \in FreeIn(h) BY <1>3, <2>1 DEF FreeIn, Fr
        <3> DEFINE b == BinsOf(h)[e]
                   l == Fi(h, e) + 1
        <3>2. b \in Bins /\ Fi(h, e) \in 0 .. Len(h.lists[b]) - 1 /\ h.lists[b][l] = e BY <1>8, <3>1 DEF Binned
        <3>3. h.lists[b] \in Seq(Nat) BY <1>7, <3>2
        <3>4. l \in DOMAIN h.lists[b] BY <3>2, <3>3
        <3> QED BY <3>2, <3>4 DEF ToSet
    <2>2. ASSUME NEW b \in Bins, NEW e \in ToSet(h.lists[b]) PROVE e \in in /\ h.elts[e].free
        <3>1. PICK l \in DOMAIN h.lists[b] : e = h.lists[b][l] BY DEF ToSet
        <3>2. e \in FreeIn(h) BY <1>14, <3>1
        <3> QED BY <1>3, <3>2 DEF FreeIn, Fr
    <2> QED BY <1>7, <2>1, <2>2
<1>16. \A b \in DOMAIN h.lists : \A l \in DOMAIN h.lists[b] :
           h.elts[h.lists[b][l]].fi = l - 1 /\ SizeToBin(Size(h, h.lists[b][l])) = b
    <2> SUFFICES ASSUME NEW b \in Bins, NEW l \in DOMAIN h.lists[b]
                 PROVE  h.elts[h.lists[b][l]].fi = l - 1 /\ SizeToBin(Size(h, h.lists[b][l])) = b BY <1>7
    <2>1. /\ h.lists[b][l] \in FreeIn(h) /\ BinsOf(h)[h.lists[b][l]] = b /\ Fi(h, h.lists[b][l]) = l - 1 BY <1>14
    <2>2. h.lists[b][l] \in Inside(h) BY <2>1 DEF FreeIn
    <2> QED BY <2>1, <2>2 DEF BinsOf, Fi
<1>17. Validated(h)
    <2>1. ToSet(c) = in BY <1>3, <1>10
    <2> QED BY <1>12, <1>13, <1>15, <1>16, <2>1, Zenon DEF Validated, c, in
<1> QED BY <1>10, <1>17 DEF c

-----------------------------------------------------------------------------
(* The heap is sound *)

\* What is sent and received is sound again if free blocks keep their places.
LEMMA ReceivedIs ==
    ASSUME NEW h, Sound(h), Apart(h), NEW eltBytes \in {1, 4},
           eltBytes < 4 \/ \A b \in DOMAIN h.lists : Len(h.lists[b]) <= 1
    PROVE  Validated(HeapUnserialized(h, eltBytes))
<1> DEFINE es == [e \in DOMAIN h.elts |-> IF h.elts[e].free /\ eltBytes >= 4 THEN [h.elts[e] EXCEPT !.fi = 0]
                                          ELSE h.elts[e]]
           g == [h EXCEPT !.elts = es]
<1>1. PICK n \in Nat : WellFormed(h, n) BY DEF Sound
<1>2. h \in HeapsOf(n) /\ DOMAIN h.elts = 0 .. n - 1 /\ Inside(h) \subseteq 0 .. n - 1 BY <1>1, InsideIs DEF WellFormed
<1>3. h.elts \in [0 .. n - 1 -> Blocks] /\ h.lists \in [Bins -> Seq(Nat)] BY <1>2 DEF HeapsOf
<1>4. h.len # 0
    <2>1. h.head \in Inside(h) /\ h.len \in Nat /\ \A e \in Inside(h) : Of(h, e) \in Nat /\ Of(h, e) < h.len BY SoundIs
    <2> QED BY <2>1
<1>5. HeapUnserialized(h, eltBytes) = g BY <1>4, Zenon DEF HeapUnserialized
<1>6. \A e \in 0 .. n - 1 : /\ es[e] \in Blocks /\ es[e].offset = h.elts[e].offset /\ es[e].next = h.elts[e].next
                            /\ es[e].prev = h.elts[e].prev /\ es[e].free = h.elts[e].free
                            /\ es[e].fi \in {h.elts[e].fi, 0} /\ (es[e].fi = h.elts[e].fi \/ eltBytes >= 4)
    <2> TAKE e \in 0 .. n - 1
    <2>1. h.elts[e] \in Blocks /\ es[e] \in {h.elts[e], [h.elts[e] EXCEPT !.fi = 0]}
          /\ (es[e] = h.elts[e] \/ eltBytes >= 4) BY <1>2, <1>3
    <2> HIDE DEF es
    <2>2. CASE es[e] = h.elts[e] BY <2>1, <2>2
    <2>3. CASE es[e] = [h.elts[e] EXCEPT !.fi = 0] /\ eltBytes >= 4
        <3> DEFINE k == h.elts[e]
        <3>1. k \in Blocks BY <2>1
        <3> HIDE DEF k
        <3>2. /\ [k EXCEPT !.fi = 0] \in Blocks /\ [k EXCEPT !.fi = 0].offset = k.offset
              /\ [k EXCEPT !.fi = 0].next = k.next /\ [k EXCEPT !.fi = 0].prev = k.prev
              /\ [k EXCEPT !.fi = 0].free = k.free /\ [k EXCEPT !.fi = 0].fi = 0
            BY <3>1 DEF Blocks
        <3>3. es[e] = [k EXCEPT !.fi = 0] /\ k = h.elts[e] BY <2>3 DEF k
        <3> QED BY <2>3, <3>2, <3>3
    <2> QED BY <2>1, <2>2, <2>3
<1>7. es \in [0 .. n - 1 -> Blocks]
    <2>1. DOMAIN es = 0 .. n - 1 BY <1>2
    <2>2. es = [e \in 0 .. n - 1 |-> es[e]] BY <1>2
    <2> HIDE DEF es
    <2> QED BY <1>6, <2>1, <2>2
<1> HIDE DEF es
<1>8. /\ g \in HeapsOf(n) /\ g.elts = es /\ g.lists = h.lists /\ g.len = h.len /\ g.freeElts = h.freeElts
      /\ g.head = h.head /\ g.tail = h.tail BY <1>2, <1>7 DEF HeapsOf
<1> HIDE DEF g
<1>9. SameButLists(h, g, n) BY <1>6, <1>8 DEF SameButLists, Of, Nx, Pv
<1>10. \A x \in 0 .. n - 1 : Fr(g, x) = Fr(h, x) BY <1>6, <1>8 DEF Fr
<1>11. Inside(g) = Inside(h) BY <1>1, <1>9, ListsAside
<1>12. FreeIn(g) = FreeIn(h) BY <1>2, <1>10, <1>11 DEF FreeIn
<1>13. Binned(h, FreeIn(h), BinsOf(h)) BY DEF Sound
<1>14. \A x \in FreeIn(h) : Fi(g, x) = Fi(h, x)
    <2> SUFFICES ASSUME NEW x \in FreeIn(h) PROVE Fi(g, x) = Fi(h, x) OBVIOUS
    <2>1. x \in 0 .. n - 1 BY <1>2 DEF FreeIn
    <2>2. Fi(g, x) \in {Fi(h, x), 0} /\ (Fi(g, x) = Fi(h, x) \/ eltBytes >= 4) BY <1>6, <1>8, <2>1 DEF Fi
    <2>3. CASE eltBytes >= 4
        <3> DEFINE b == BinsOf(h)[x]
        <3>1. b \in Bins /\ Fi(h, x) \in 0 .. Len(h.lists[b]) - 1 BY <1>13 DEF Binned
        <3>2. Len(h.lists[b]) <= 1 /\ Len(h.lists[b]) \in Nat BY <1>3, <2>3, <3>1
        <3> HIDE DEF b
        <3>3. Fi(h, x) = 0 BY <3>1, <3>2
        <3> QED BY <2>2, <3>3
    <2> QED BY <2>2, <2>3
<1>15. Binned(g, FreeIn(g), BinsOf(h))
    <2> DEFINE F == FreeIn(h)
               bin == BinsOf(h)
    <2>1. \A x \in F : Fi(g, x) = Fi(h, x) /\ bin[x] = bin[x] BY <1>14
    <2>2. Binned(h, F, bin) BY <1>13
    <2> HIDE DEF F, bin
    <2>3. Binned(g, F, bin) BY <1>8, <2>1, <2>2, BinnedAlike
    <2> QED BY <1>12, <2>3 DEF F, bin
<1>16. ListedAnew(h, g) BY <1>1, <1>9, <1>15, ListsSound DEF Sound
<1>17. Sound(g) /\ \A x \in Inside(h) : Nx(g, x) = Nx(h, x) BY <1>16 DEF ListedAnew
<1>18. Apart(g)
    <2>1. \A x \in Inside(h) : Nx(h, x) \in Inside(h) BY SoundIs
    <2> QED BY <1>2, <1>10, <1>11, <1>17, <2>1 DEF Apart
<1> QED BY <1>5, <1>17, <1>18, SoundValidates

\* The heap is fine, and its objects are the blocks that are in use.
HeapInv == Fine(heap) /\ ObjectsAre(heap, objects)

\* It is so at first.
LEMMA HeapInvInit == HeapInit => HeapInv
<1> SUFFICES ASSUME HeapInit PROVE HeapInv OBVIOUS
<1>1. heap = EmptyHeap /\ objects = <<>> BY DEF HeapInit
<1>2. Used(heap) = {} BY <1>1, EmptyHeapIs
<1> QED BY <1>1, <1>2 DEF HeapInv, Fine, ObjectsAre

\* And after each step.
LEMMA HeapInvStep == HeapInv /\ [HeapNext]_heapVars => HeapInv'
<1> SUFFICES ASSUME HeapInv, [HeapNext]_heapVars PROVE HeapInv' OBVIOUS
<1>1. Fine(heap) /\ ObjectsAre(heap, objects) BY DEF HeapInv
<1>2. ASSUME NEW size \in HeapSizes, NEW align \in Aligns, HeapAlloc(size, align) PROVE HeapInv'
    BY <1>1, <1>2, AllocIs DEF HeapInv
<1>3. ASSUME NEW size \in HeapSizes, NEW align \in Aligns, HeapAllocAsserts(size, align) PROVE HeapInv'
    BY <1>1, <1>3 DEF HeapInv, HeapAllocAsserts
<1>4. ASSUME NEW handle \in DOMAIN objects, HeapDealloc(handle) PROVE HeapInv'
    BY <1>1, <1>4, HeapDeallocIs DEF HeapInv
<1>5. CASE HeapFree
    <2>1. heap' = EmptyHeap /\ objects' = <<>> BY <1>5 DEF HeapFree
    <2>2. Fine(EmptyHeap) /\ ObjectsAre(EmptyHeap, <<>>) BY EmptyHeapIs DEF Fine, ObjectsAre
    <2> QED BY <2>1, <2>2 DEF HeapInv
<1>6. CASE UNCHANGED heapVars BY <1>1, <1>6 DEF HeapInv, heapVars
<1> QED BY <1>2, <1>3, <1>4, <1>5, <1>6 DEF HeapNext

\* Then the heap is as heap_validate wants it, and the objects are in place.
LEMMA HeapInvSound == HeapInv => HeapIsSound
<1> SUFFICES ASSUME HeapInv PROVE HeapIsSound OBVIOUS
<1>1. Fine(heap) /\ ObjectsAre(heap, objects) BY DEF HeapInv
<1>2. CASE heap = EmptyHeap
    <2>1. Used(heap) = {} BY <1>2, EmptyHeapIs
    <2> QED BY <1>1, <1>2, <2>1 DEF ObjectsAre, HeapIsSound
<1>3. CASE heap # EmptyHeap
    <2>1. Sound(heap) /\ Apart(heap) BY <1>1, <1>3 DEF Fine
    <2>2. Validated(heap) /\ ToSet(Chain(heap)) = Inside(heap) BY <2>1, SoundValidates
    <2>3. ObjectsInPlace
        <3>1. \A k \in DOMAIN objects :
                /\ k \in Inside(heap) /\ ~ heap.elts[k].free
                /\ heap.elts[k].offset = objects[k].offset /\ Size(heap, k) = objects[k].size
                /\ objects[k].offset % objects[k].align = 0 BY <1>1 DEF ObjectsAre, Used, Fr, Of
        <3>2. \A e \in Inside(heap) : heap.elts[e].free \/ e \in DOMAIN objects BY <1>1 DEF ObjectsAre, Used, Fr
        <3> QED BY <2>2, <3>1, <3>2 DEF ObjectsInPlace
    <2>4. ReceivedIsValid BY <2>1, ReceivedIs DEF ReceivedIsValid
    <2> QED BY <1>3, <2>2, <2>3, <2>4 DEF HeapIsSound, HeapValidates
<1> QED BY <1>2, <1>3

\* HeapIsSound is an invariant: for any sizes, any alignments and any number
\* of bins that are enough for the longest heap.
THEOREM HeapSound == HeapSpec => []HeapIsSound
<1>1. HeapSpec => []HeapInv BY HeapInvInit, HeapInvStep, PTL DEF HeapSpec
<1> QED BY <1>1, HeapInvSound, PTL

=================================================================================
