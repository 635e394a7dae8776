------------------------------ MODULE KmmProofs ------------------------------
(***************************************************************************)
(* The free list of Kmm when all callers ask for the same number of pages, *)
(* for a region and a number of blocks of any size.                        *)
(***************************************************************************)
EXTENDS Kmm, TLAPS, WellFoundedInduction

\* All callers ask for the same number of pages.
Uniform == \A m, n \in Sizes : m = n

\* Multiples of the number of pages asked for.
Multiples == {n \in Nat : \E j \in Nat, k \in Sizes : n = j * k}

End(p) == p + hdr[p].size

\* Every free block is in the region, and holds a whole number of requests unless it
\* ends where the region ends.
BlocksOK(F) ==
    \A p \in F : /\ hdr[p].size >= 1
                 /\ End(p) <= Pages + 1
                 /\ hdr[p].size \in Multiples \/ End(p) = Pages + 1

\* The blocks of F, and no others, are in the list, sorted and not touching.
ListOK(F) ==
    /\ first = None <=> F = {}
    /\ first \in F \cup {None}
    /\ \A p \in F : /\ first <= p
                    /\ hdr[p].next \in F \cup {None}
                    /\ hdr[p].next # None => End(p) < hdr[p].next
    /\ \A p, q \in F : p < q => hdr[p].next # None /\ hdr[p].next <= q

\* A block in the hands of a caller, or of free(), is apart from the others.
Apart(a, m, b, n) == a + m <= b \/ b + n <= a

OwnedOK(F) ==
    /\ \A s \in Slot : block[s] # NoBlock =>
          /\ block[s].start \in Page /\ block[s].size \in Sizes
          /\ block[s].start + block[s].size <= Pages + 1
          /\ \A p \in F : Apart(block[s].start, block[s].size, p, hdr[p].size)
    /\ \A s, u \in Slot : s # u /\ block[s] # NoBlock /\ block[u] # NoBlock =>
          Apart(block[s].start, block[s].size, block[u].start, block[u].size)

\* The walk of allocate_linear is at the first block or through; that of free is
\* between two neighbours of the list.
OpOK(F) ==
    /\ op.kind = "allocate" =>
          /\ op.size \in Sizes /\ op.cur \in {first, None}
          /\ \E s \in Slot : block[s] = NoBlock
    /\ op.kind = "free" =>
          /\ op.start \in Page /\ op.size \in Sizes
          /\ op.start + op.size <= Pages + 1
          /\ \A p \in F : Apart(op.start, op.size, p, hdr[p].size)
          /\ \A s \in Slot : block[s] # NoBlock =>
                Apart(op.start, op.size, block[s].start, block[s].size)
          /\ op.cur \in F \cup {None}
          /\ op.prev = None => op.cur = first
          /\ op.prev # None => op.prev \in F /\ op.prev < op.start /\ hdr[op.prev].next = op.cur

FreeList(F) == BlocksOK(F) /\ ListOK(F) /\ OwnedOK(F) /\ OpOK(F)

\* The inductive invariant.
Inv == TypeOK /\ SafeData /\ \E F \in SUBSET Page : FreeList(F)

-----------------------------------------------------------------------------
(* Multiples *)

\* One request is a multiple, and no other is smaller.
LEMMA MultiplesLeast ==
    ASSUME NEW k \in Sizes
    PROVE  /\ k \in Multiples /\ k \in Nat /\ k >= 1 /\ k <= Pages
           /\ Uniform => \A n \in Multiples : n >= 1 => n >= k
<1>1. k \in Nat /\ k >= 1 /\ k <= Pages
  BY KmmAssumption
<1>2. k = 1 * k
  BY <1>1
<1>3. k \in Multiples
  BY <1>1, <1>2 DEF Multiples
<1>4. ASSUME Uniform, NEW n \in Multiples, n >= 1 PROVE n >= k
  <2>1. PICK j \in Nat : n = j * k
    BY <1>4 DEF Multiples, Uniform
  <2>2. j >= 1
    BY <2>1, <1>1, <1>4
  <2>3. QED
    BY <2>1, <2>2, <1>1
<1>5. QED
  BY <1>1, <1>3, <1>4

\* Two blocks that are merged, and what an allocation leaves of a block.
LEMMA MultiplesAdd ==
    ASSUME Uniform, NEW m \in Multiples, NEW n \in Multiples
    PROVE  m + n \in Multiples
<1>1. PICK i \in Nat, k \in Sizes : m = i * k
  BY DEF Multiples
<1>2. PICK j \in Nat : n = j * k
  BY DEF Multiples, Uniform
<1>3. k \in Nat
  BY KmmAssumption
<1>4. m + n = (i + j) * k
  BY <1>1, <1>2, <1>3
<1>5. m + n \in Nat
  BY DEF Multiples
<1>6. QED
  BY <1>4, <1>5 DEF Multiples

LEMMA MultiplesLess ==
    ASSUME Uniform, NEW n \in Multiples, NEW k \in Sizes, n >= k
    PROVE  n - k \in Multiples
<1>1. PICK j \in Nat : n = j * k
  BY DEF Multiples, Uniform
<1>2. k \in Nat /\ k >= 1 /\ n \in Nat
  BY KmmAssumption DEF Multiples
<1>3. j >= 1
  BY <1>1, <1>2
<1>4. n - k = (j - 1) * k
  BY <1>1, <1>2
<1>5. n - k \in Nat /\ j - 1 \in Nat
  BY <1>2, <1>3
<1>6. QED
  BY <1>4, <1>5 DEF Multiples

-----------------------------------------------------------------------------
(* Linking and merging *)

\* What the rest of the model reads of two headers.
SameBlock(h, g) == h.size = g.size /\ h.next = g.next

\* A walk has reached the place where free() inserts.
Inserts == op.kind = "free" /\ (op.cur = None \/ op.cur > op.start)

List == [hdr : [Page -> Header], last : Pointer]

\* merge_right changes the block it extends, and the back pointer of the block after
\* the next.
LEMMA MergeRightBlocks ==
    ASSUME NEW l \in List, NEW q \in Page,
           l.hdr[q].next \in Pointer,
           l.hdr[q].next = q + l.hdr[q].size =>
               LET n == l.hdr[q].next
               IN  /\ n \in Page \ {q} /\ l.hdr[n].next \in Pointer \ {q}
                   /\ l.hdr[q].size + l.hdr[n].size <= Pages
    PROVE  LET n == l.hdr[q].next
               m == MergeRight(l, q)
           IN  /\ m \in List
               /\ \A r \in Page \ {q} : SameBlock(m.hdr[r], l.hdr[r])
               /\ m.hdr[q].prev = l.hdr[q].prev
               /\ n = q + l.hdr[q].size =>
                      /\ m.hdr[q].size = l.hdr[q].size + l.hdr[n].size
                      /\ m.hdr[q].next = l.hdr[n].next
               /\ n # q + l.hdr[q].size => m = l
<1> DEFINE n == l.hdr[q].next
           nn == l.hdr[n].next
           merged == [l.hdr EXCEPT ![q] = [@ EXCEPT !.size = l.hdr[q].size + l.hdr[n].size,
                                                    !.next = nn]]
<1>1. /\ l.hdr \in [Page -> Header] /\ l.last \in Pointer
      /\ l.hdr[q] \in Header /\ l.hdr[q].size \in Nat
  BY DEF List, Header
<1>2. CASE n # q + l.hdr[q].size
  <2>1. MergeRight(l, q) = l
    BY <1>2 DEF MergeRight
  <2>2. QED
    BY <1>1, <1>2, <2>1 DEF SameBlock
<1>3. CASE n = q + l.hdr[q].size
  <2>1. n \in Page \ {q} /\ nn \in Pointer \ {q} /\ l.hdr[q].size + l.hdr[n].size <= Pages
    BY <1>3
  <2>2. n # None /\ l.hdr[n] \in Header /\ l.hdr[n].size \in Nat
    <3>1. n # None
      BY <2>1 DEF Page, None
    <3>2. \A r \in Page : l.hdr[r] \in Header /\ l.hdr[r].size \in Nat
      BY <1>1 DEF Header
    <3>3. QED
      BY <2>1, <3>1, <3>2
  <2>3. l.hdr[q].size + l.hdr[n].size \in 0..Pages
    BY <2>1, <2>2, <1>1 DEF Header
  <2>4. /\ merged \in [Page -> Header]
        /\ merged[q].prev = l.hdr[q].prev /\ merged[q].next = nn
        /\ merged[q].size = l.hdr[q].size + l.hdr[n].size
        /\ \A r \in Page \ {q} : merged[r] = l.hdr[r]
    BY <2>1, <2>2, <2>3, <1>1 DEF Header
  <2>5. CASE nn = None
    <3>1. MergeRight(l, q) = [hdr |-> merged, last |-> q]
      BY <1>3, <2>2, <2>5 DEF MergeRight
    <3> HIDE DEF merged
    <3>2. QED
      BY <3>1, <2>4, <1>3 DEF List, SameBlock, Pointer
  <2>6. CASE nn # None
    <3> DEFINE both == [merged EXCEPT ![nn].prev = q]
    <3>1. MergeRight(l, q) = [hdr |-> both, last |-> l.last]
      BY <1>3, <2>2, <2>6 DEF MergeRight
    <3> HIDE DEF merged
    <3>2. nn \in Page /\ nn # q
      BY <2>1, <2>6 DEF Pointer
    <3> HIDE DEF nn
    <3>3. both \in [Page -> Header]
      BY <2>4, <3>2 DEF Header, Pointer
    <3>4. \A r \in Page : SameBlock(both[r], merged[r])
      BY <2>4, <3>2 DEF Header, SameBlock
    <3>5. both[q] = merged[q]
      BY <2>4, <3>2
    <3> USE DEF nn
    <3> HIDE DEF both
    <3>6. QED
      BY <3>1, <3>3, <3>4, <3>5, <2>4, <1>1, <1>3 DEF List, SameBlock
  <2>7. QED
    BY <2>5, <2>6
<1>4. QED
  BY <1>2, <1>3

\* Between which blocks free() inserts.
LEMMA InsertPlace ==
    ASSUME TypeOK, NEW F \in SUBSET Page, FreeList(F), Inserts
    PROVE  /\ op.start \in Page \ F /\ op.size \in 1..Pages
           /\ op.cur \in F \cup {None} /\ op.prev \in F \cup {None}
           /\ op.cur # None => op.cur > op.start /\ op.start + op.size <= op.cur
           /\ op.prev # None => op.prev < op.start /\ End(op.prev) <= op.start
           /\ op.prev = None => op.cur = first
<1>1. /\ op.start \in Page /\ op.size \in Sizes
      /\ \A p \in F : Apart(op.start, op.size, p, hdr[p].size)
      /\ op.cur \in F \cup {None}
      /\ op.prev = None => op.cur = first
      /\ op.prev # None => op.prev \in F /\ op.prev < op.start
  BY DEF FreeList, OpOK, Inserts
<1>2. op.size \in 1..Pages
  BY <1>1, KmmAssumption
<1>3. \A p \in F : p \in Nat /\ p >= 1 /\ hdr[p].size \in Nat /\ hdr[p].size >= 1
  BY DEF FreeList, BlocksOK, TypeOK, Header, Page
<1>4. op.start \in Nat
  BY <1>1 DEF Page
<1>5. op.start \notin F
  BY <1>1, <1>2, <1>3, <1>4 DEF Apart
<1>6. ASSUME op.cur # None PROVE op.cur > op.start /\ op.start + op.size <= op.cur
  <2>1. op.cur \in F /\ op.cur > op.start
    BY <1>6, <1>1 DEF Inserts
  <2>2. QED
    BY <2>1, <1>1, <1>2, <1>3, <1>4 DEF Apart
<1>7. ASSUME op.prev # None PROVE op.prev < op.start /\ End(op.prev) <= op.start
  <2>1. op.prev \in F /\ op.prev < op.start
    BY <1>7, <1>1
  <2>2. QED
    BY <2>1, <1>1, <1>2, <1>3, <1>4 DEF Apart, End
<1>8. QED
  BY <1>1, <1>2, <1>5, <1>6, <1>7

\* The new block is linked in.
LEMMA LinkedBlocks ==
    ASSUME TypeOK, NEW F \in SUBSET Page, FreeList(F), Inserts
    PROVE  LET l == Linked(op.start, op.size, op.prev, op.cur)
           IN  /\ l \in List
               /\ l.hdr[op.start] = [size |-> op.size, next |-> op.cur, prev |-> op.prev]
               /\ op.prev # None => /\ l.hdr[op.prev].size = hdr[op.prev].size
                                    /\ l.hdr[op.prev].next = op.start
               /\ \A r \in Page \ {op.start, op.prev} : SameBlock(l.hdr[r], hdr[r])
<1> DEFINE p == op.start
           back == IF op.prev = None THEN hdr ELSE [hdr EXCEPT ![op.prev].next = p]
           both == IF op.prev = None \/ op.cur = None THEN back
                   ELSE [back EXCEPT ![op.cur].prev = p]
           new == [size |-> op.size, next |-> op.cur, prev |-> op.prev]
           l == Linked(op.start, op.size, op.prev, op.cur)
<1>1. /\ p \in Page \ F /\ op.size \in 1..Pages
      /\ op.cur \in F \cup {None} /\ op.prev \in F \cup {None}
      /\ op.cur # None => op.cur > p
      /\ op.prev # None => op.prev < p
      /\ op.prev = None => op.cur = first
  BY InsertPlace
<1>2. hdr \in [Page -> Header] /\ last \in Pointer
  BY DEF TypeOK
<1>3. l.hdr = [both EXCEPT ![p] = new]
  BY <1>1 DEF Linked
<1>4. l = [hdr |-> l.hdr, last |-> l.last] /\ l.last \in Pointer
  BY <1>1, <1>2 DEF Linked, Pointer
<1>5. new \in Header
  BY <1>1 DEF Header, Pointer, None
<1> HIDE DEF l
<1>6. /\ back \in [Page -> Header]
      /\ \A r \in Page \ {op.prev} : back[r] = hdr[r]
      /\ op.prev # None => back[op.prev].size = hdr[op.prev].size /\ back[op.prev].next = p
  <2>1. CASE op.prev = None
    BY <2>1, <1>2
  <2>2. CASE op.prev # None
    <3>1. op.prev \in Page /\ back = [hdr EXCEPT ![op.prev].next = p]
      BY <1>1, <2>2
    <3>2. QED
      BY <1>1, <1>2, <3>1 DEF Header, Pointer
  <2>3. QED
    BY <2>1, <2>2
<1> HIDE DEF back
<1>7. both \in [Page -> Header] /\ \A r \in Page : SameBlock(both[r], back[r])
  <2>1. CASE op.prev = None \/ op.cur = None
    BY <2>1, <1>6 DEF SameBlock
  <2>2. CASE ~(op.prev = None \/ op.cur = None)
    <3>1. op.cur \in Page /\ both = [back EXCEPT ![op.cur].prev = p]
      BY <1>1, <2>2
    <3>2. QED
      BY <1>1, <1>6, <3>1 DEF Header, Pointer, SameBlock
  <2>3. QED
    BY <2>1, <2>2
<1> HIDE DEF both, new
<1>8. l.hdr \in [Page -> Header] /\ l.hdr[p] = new /\ \A r \in Page \ {p} : l.hdr[r] = both[r]
  BY <1>1, <1>3, <1>5, <1>7
<1>9. l \in List
  BY <1>4, <1>8 DEF List
<1>10. ASSUME op.prev # None
       PROVE  l.hdr[op.prev].size = hdr[op.prev].size /\ l.hdr[op.prev].next = p
  <2>1. op.prev \in Page \ {p}
    BY <1>1, <1>10 DEF Page
  <2>2. QED
    BY <2>1, <1>10, <1>6, <1>7, <1>8 DEF SameBlock
<1>11. \A r \in Page \ {p, op.prev} : SameBlock(l.hdr[r], hdr[r])
  BY <1>6, <1>7, <1>8 DEF SameBlock
<1>12. QED
  BY <1>8, <1>9, <1>10, <1>11 DEF l, new

\* What the new block becomes.
MergesRight == op.cur # None /\ op.start + op.size = op.cur
MergesLeft  == op.prev # None /\ End(op.prev) = op.start
NewSize == IF MergesRight THEN op.size + hdr[op.cur].size ELSE op.size
NewNext == IF MergesRight THEN hdr[op.cur].next ELSE op.cur

\* Its place in the list.
LEMMA NewBlock ==
    ASSUME TypeOK, NEW F \in SUBSET Page, FreeList(F), Inserts
    PROVE  /\ NewSize \in 1..Pages /\ op.start + NewSize <= Pages + 1
           /\ NewNext \in F \cup {None}
           /\ NewNext # None => op.start + NewSize < NewNext
           /\ NewNext # None /\ NewNext # op.cur => op.cur # None /\ NewNext = hdr[op.cur].next
<1>1. /\ op.start \in Page \ F /\ op.size \in 1..Pages
      /\ op.cur \in F \cup {None}
      /\ op.cur # None => op.cur > op.start /\ op.start + op.size <= op.cur
  BY InsertPlace
<1>2. op.start \in Nat /\ op.start + op.size <= Pages + 1 /\ Pages \in Nat
  BY KmmAssumption DEF FreeList, OpOK, Inserts, Page
<1>3. \A p \in F : /\ p \in Nat /\ p >= 1 /\ hdr[p].size \in Nat
                   /\ hdr[p].size >= 1 /\ p + hdr[p].size <= Pages + 1
                   /\ hdr[p].next \in F \cup {None}
                   /\ hdr[p].next # None => p + hdr[p].size < hdr[p].next
  BY DEF FreeList, BlocksOK, ListOK, TypeOK, Header, Page, End
<1>4. CASE MergesRight
  <2>1. op.cur \in F /\ op.start + op.size = op.cur
    BY <1>1, <1>4 DEF MergesRight
  <2>2. NewSize = op.size + hdr[op.cur].size /\ NewNext = hdr[op.cur].next
    BY <1>4 DEF NewSize, NewNext
  <2>3. op.start + NewSize = op.cur + hdr[op.cur].size
    BY <2>1, <2>2, <1>1, <1>2, <1>3
  <2>4. NewSize \in 1..Pages
    BY <2>1, <2>2, <2>3, <1>1, <1>2, <1>3 DEF Page
  <2>5. QED
    BY <2>1, <2>2, <2>3, <2>4, <1>3, <1>1 DEF None
<1>5. CASE ~MergesRight
  <2>1. NewSize = op.size /\ NewNext = op.cur
    BY <1>5 DEF NewSize, NewNext
  <2>2. op.cur # None => op.cur \in Nat
    BY <1>1, <1>3
  <2>3. QED
    BY <2>1, <2>2, <1>1, <1>2, <1>5 DEF MergesRight
<1>6. QED
  BY <1>4, <1>5

\* The blocks of the region after free(); only three may have changed.
LEMMA InsertedBlocks ==
    ASSUME TypeOK, NEW F \in SUBSET Page, FreeList(F), Inserts
    PROVE  LET c == Coalesce(Linked(op.start, op.size, op.prev, op.cur), op.start)
           IN  /\ c \in List
               /\ c.hdr[op.start].size = NewSize /\ c.hdr[op.start].next = NewNext
               /\ op.prev # None =>
                      /\ MergesLeft => /\ c.hdr[op.prev].size = hdr[op.prev].size + NewSize
                                       /\ c.hdr[op.prev].next = NewNext
                      /\ ~MergesLeft => /\ c.hdr[op.prev].size = hdr[op.prev].size
                                        /\ c.hdr[op.prev].next = op.start
               /\ \A r \in Page \ {op.start, op.prev} : SameBlock(c.hdr[r], hdr[r])
<1> DEFINE p == op.start
           l == Linked(op.start, op.size, op.prev, op.cur)
           m == MergeRight(l, p)
           c == Coalesce(l, p)
<1>1. /\ p \in Page \ F /\ op.size \in 1..Pages
      /\ op.cur \in F \cup {None} /\ op.prev \in F \cup {None}
      /\ op.cur # None => op.cur > p /\ p + op.size <= op.cur
      /\ op.prev # None => op.prev < p /\ End(op.prev) <= p
  BY InsertPlace
<1>2. /\ l \in List
      /\ l.hdr[p].size = op.size /\ l.hdr[p].next = op.cur /\ l.hdr[p].prev = op.prev
      /\ op.prev # None => l.hdr[op.prev].size = hdr[op.prev].size /\ l.hdr[op.prev].next = p
      /\ \A r \in Page \ {p, op.prev} : SameBlock(l.hdr[r], hdr[r])
  BY LinkedBlocks
<1>3. /\ NewSize \in 1..Pages /\ p + NewSize <= Pages + 1
      /\ NewNext \in F \cup {None}
      /\ NewNext # None => p + NewSize < NewNext
  BY NewBlock
<1>4. /\ p \in Nat /\ p >= 1 /\ Pages \in Nat
      /\ \A q \in F : /\ q \in Page /\ q \in Nat /\ q >= 1 /\ hdr[q].size \in Nat
  BY <1>1, KmmAssumption DEF Page, TypeOK, Header
<1> HIDE DEF l
<1>5. op.cur = p + op.size <=> MergesRight
  BY <1>1, <1>4 DEF MergesRight, None
<1>6. ASSUME MergesRight
      PROVE  /\ op.cur \in Page \ {p, op.prev} /\ l.hdr[op.cur].next = NewNext
             /\ l.hdr[p].size + l.hdr[op.cur].size = NewSize
  <2>1. op.cur \in F /\ op.cur > p
    BY <1>1, <1>6 DEF MergesRight
  <2>2. op.cur \in Page \ {p, op.prev}
    BY <2>1, <1>1, <1>4 DEF None
  <2>3. SameBlock(l.hdr[op.cur], hdr[op.cur])
    BY <2>2, <1>2
  <2>4. QED
    BY <2>2, <2>3, <1>2, <1>6 DEF SameBlock, NewSize, NewNext
<1>7. NewNext \in Pointer \ {p} /\ NewNext \in Nat
  BY <1>1, <1>3, <1>4 DEF Pointer, None
<1>8. /\ m \in List
      /\ \A r \in Page \ {p} : SameBlock(m.hdr[r], l.hdr[r])
      /\ m.hdr[p].prev = op.prev
      /\ m.hdr[p].size = NewSize /\ m.hdr[p].next = NewNext
  <2>1. l.hdr[p].next \in Pointer
    BY <1>1, <1>2 DEF Pointer
  <2>2. l.hdr[p].next = p + l.hdr[p].size =>
            /\ l.hdr[p].next \in Page \ {p}
            /\ l.hdr[l.hdr[p].next].next \in Pointer \ {p}
            /\ l.hdr[p].size + l.hdr[l.hdr[p].next].size <= Pages
    BY <1>2, <1>3, <1>5, <1>6, <1>7
  <2>3. /\ m \in List
        /\ \A r \in Page \ {p} : SameBlock(m.hdr[r], l.hdr[r])
        /\ m.hdr[p].prev = l.hdr[p].prev
        /\ l.hdr[p].next = p + l.hdr[p].size =>
               /\ m.hdr[p].size = l.hdr[p].size + l.hdr[l.hdr[p].next].size
               /\ m.hdr[p].next = l.hdr[l.hdr[p].next].next
        /\ l.hdr[p].next # p + l.hdr[p].size => m = l
    BY <2>1, <2>2, <1>1, <1>2, MergeRightBlocks
  <2>4. CASE MergesRight
    BY <2>3, <2>4, <1>2, <1>5, <1>6
  <2>5. CASE ~MergesRight
    BY <2>3, <2>5, <1>2, <1>5 DEF NewSize, NewNext
  <2>6. QED
    BY <2>3, <2>4, <2>5, <1>2
<1> HIDE DEF m
<1>9. CASE op.prev = None
  <2>1. c = m
    BY <1>8, <1>9 DEF Coalesce, m
  <2>2. QED
    BY <2>1, <1>2, <1>8, <1>9 DEF SameBlock, l
<1>10. CASE op.prev # None
  <2> DEFINE q == op.prev
  <2>1. /\ q \in F /\ q \in Page \ {p} /\ q \in Nat /\ q < p /\ q + hdr[q].size <= p
        /\ hdr[q].size \in Nat
    BY <1>1, <1>4, <1>10 DEF End
  <2>2. c = MergeRight(m, q)
    BY <1>8, <1>10 DEF Coalesce, m
  <2>3. m.hdr[q].size = hdr[q].size /\ m.hdr[q].next = p
    BY <2>1, <1>2, <1>8, <1>10 DEF SameBlock
  <2>4. MergesLeft <=> p = q + hdr[q].size
    BY <1>10, <2>1 DEF MergesLeft, End
  <2>5. m.hdr[q].next = q + m.hdr[q].size =>
            /\ m.hdr[q].next \in Page \ {q}
            /\ m.hdr[m.hdr[q].next].next \in Pointer \ {q}
            /\ m.hdr[q].size + m.hdr[m.hdr[q].next].size <= Pages
    <3>1. NewNext # q
      BY <1>3, <1>4, <1>7, <1>10, <2>1
    <3>2. ASSUME p = q + hdr[q].size PROVE hdr[q].size + NewSize <= Pages
      BY <3>2, <2>1, <1>3, <1>4
    <3>3. QED
      BY <3>1, <3>2, <2>1, <2>3, <1>1, <1>7, <1>8
  <2>6. /\ c \in List
        /\ \A r \in Page \ {q} : SameBlock(c.hdr[r], m.hdr[r])
        /\ p = q + hdr[q].size =>
               /\ c.hdr[q].size = hdr[q].size + NewSize
               /\ c.hdr[q].next = NewNext
        /\ p # q + hdr[q].size => c = m
    <3>1. m.hdr[q].next \in Pointer
      BY <2>3, <1>1 DEF Pointer
    <3>2. /\ MergeRight(m, q) \in List
          /\ \A r \in Page \ {q} : SameBlock(MergeRight(m, q).hdr[r], m.hdr[r])
          /\ m.hdr[q].next = q + m.hdr[q].size =>
               /\ MergeRight(m, q).hdr[q].size = m.hdr[q].size + m.hdr[m.hdr[q].next].size
               /\ MergeRight(m, q).hdr[q].next = m.hdr[m.hdr[q].next].next
          /\ m.hdr[q].next # q + m.hdr[q].size => MergeRight(m, q) = m
      BY <3>1, <2>1, <2>5, <1>8, MergeRightBlocks
    <3>3. QED
      BY <3>2, <2>2, <2>3, <1>8
  <2> HIDE DEF c
  <2>7. c.hdr[p].size = NewSize /\ c.hdr[p].next = NewNext
    BY <2>1, <2>6, <1>8, <1>1 DEF SameBlock
  <2>8. \A r \in Page \ {p, q} : SameBlock(c.hdr[r], hdr[r])
    BY <2>6, <1>2, <1>8 DEF SameBlock
  <2>9. ~MergesLeft => c.hdr[q].size = hdr[q].size /\ c.hdr[q].next = p
    BY <2>3, <2>4, <2>6
  <2>10. QED
    BY <2>4, <2>6, <2>7, <2>8, <2>9 DEF c, l
<1>11. QED
  BY <1>9, <1>10

\* The blocks that stay in the list, and the new one.
Below(F) == {q \in F : q < op.start}
Above(F) == {q \in F : q > op.start /\ (MergesRight => q # op.cur)}
Inserted(F) == Below(F) \cup Above(F) \cup (IF MergesLeft THEN {} ELSE {op.start})

\* The neighbours of the new block.
LEMMA Neighbours ==
    ASSUME TypeOK, NEW F \in SUBSET Page, FreeList(F), Inserts
    PROVE  /\ \A q \in Below(F) : op.prev # None /\ q <= op.prev
           /\ op.prev # None => op.prev \in Below(F)
           /\ \A q \in Above(F) : NewNext # None /\ NewNext <= q
           /\ NewNext # None => NewNext \in Above(F)
           /\ \A q \in Below(F) : q # op.prev => hdr[q].next \in Below(F)
           /\ \A q \in Above(F) : hdr[q].next \in Above(F) \cup {None}
<1>1. /\ op.start \in Page \ F /\ op.size \in 1..Pages
      /\ op.cur \in F \cup {None} /\ op.prev \in F \cup {None}
      /\ op.cur # None => op.cur > op.start
      /\ op.prev # None => op.prev < op.start
      /\ op.prev = None => op.cur = first
  BY InsertPlace
<1>2. op.prev # None => hdr[op.prev].next = op.cur
  BY DEF FreeList, OpOK, Inserts
<1>3. /\ first = None <=> F = {}
      /\ first \in F \cup {None}
      /\ \A p \in F : /\ p \in Nat /\ p >= 1 /\ hdr[p].size \in Nat
                      /\ first <= p
                      /\ hdr[p].next \in F \cup {None}
                      /\ hdr[p].next # None => p < hdr[p].next
      /\ \A p, q \in F : p < q => hdr[p].next # None /\ hdr[p].next <= q
  <2>1. \A p \in F : p \in Nat /\ p >= 1 /\ hdr[p].size \in Nat /\ hdr[p].size >= 1
    BY DEF FreeList, BlocksOK, TypeOK, Header, Page
  <2>2. /\ first = None <=> F = {}
        /\ first \in F \cup {None}
        /\ \A p \in F : /\ first <= p
                        /\ hdr[p].next \in F \cup {None}
                        /\ hdr[p].next # None => p + hdr[p].size < hdr[p].next
        /\ \A p, q \in F : p < q => hdr[p].next # None /\ hdr[p].next <= q
    BY DEF FreeList, ListOK, End
  <2>3. ASSUME NEW p \in F, hdr[p].next # None PROVE p < hdr[p].next
    <3>1. hdr[p].next \in Nat
      BY <2>1, <2>2, <2>3
    <3>2. QED
      BY <3>1, <2>1, <2>2, <2>3
  <2>4. QED
    BY <2>1, <2>2, <2>3
<1>4. op.start \in Nat
  BY <1>1 DEF Page
<1>5. ASSUME NEW q \in F, q < op.start PROVE op.prev # None /\ q <= op.prev
  <2>1. op.prev # None
    <3>1. SUFFICES ASSUME op.prev = None PROVE FALSE
      OBVIOUS
    <3>2. first \in F /\ first <= q /\ op.cur = first
      BY <3>1, <1>1, <1>3
    <3>3. op.cur # None /\ op.cur \in Nat
      BY <3>2, <1>3 DEF None
    <3>4. QED
      BY <3>2, <3>3, <1>1, <1>3, <1>4, <1>5
  <2>2. op.prev \in F
    BY <2>1, <1>1
  <2>3. SUFFICES ASSUME op.prev < q PROVE FALSE
    BY <2>1, <2>2, <1>3
  <2>4. op.cur # None /\ op.cur <= q
    BY <2>1, <2>2, <2>3, <1>2, <1>3
  <2>5. op.cur \in Nat
    BY <2>4, <1>1, <1>3
  <2>6. QED
    BY <2>4, <2>5, <1>1, <1>3, <1>4, <1>5
<1>6. ASSUME NEW q \in F, q > op.start PROVE op.cur # None /\ op.cur <= q
  <2>1. CASE op.prev = None
    BY <2>1, <1>1, <1>3
  <2>2. CASE op.prev # None
    <3>1. op.prev \in F /\ op.prev < q
      BY <2>2, <1>1, <1>3, <1>4, <1>6
    <3>2. QED
      BY <3>1, <2>2, <1>2, <1>3
  <2>3. QED
    BY <2>1, <2>2
<1>7. ASSUME NEW q \in Above(F) PROVE NewNext # None /\ NewNext <= q
  <2>1. q \in F /\ q > op.start /\ (MergesRight => q # op.cur) /\ op.cur # None /\ op.cur <= q
    BY <1>6 DEF Above
  <2>2. op.cur \in F
    BY <2>1, <1>1
  <2>3. CASE MergesRight
    <3>1. op.cur < q
      BY <2>1, <2>2, <2>3, <1>3
    <3>2. QED
      BY <3>1, <2>1, <2>2, <2>3, <1>3 DEF NewNext
  <2>4. CASE ~MergesRight
    BY <2>1, <2>4 DEF NewNext
  <2>5. QED
    BY <2>3, <2>4
<1>8. ASSUME NewNext # None PROVE NewNext \in Above(F)
  <2>1. CASE MergesRight
    <3>1. op.cur \in F /\ op.cur > op.start /\ NewNext = hdr[op.cur].next
      BY <2>1, <1>1 DEF MergesRight, NewNext
    <3>2. NewNext \in F /\ NewNext > op.cur
      BY <3>1, <1>3, <1>8
    <3>3. QED
      BY <3>1, <3>2, <1>3, <1>4 DEF Above
  <2>2. CASE ~MergesRight
    BY <2>2, <1>1, <1>8 DEF NewNext, Above
  <2>3. QED
    BY <2>1, <2>2
<1>9. ASSUME NEW q \in Below(F), q # op.prev PROVE hdr[q].next \in Below(F)
  <2>1. q \in F /\ q < op.start /\ op.prev # None /\ q <= op.prev /\ op.prev \in F
    BY <1>5, <1>1 DEF Below
  <2>2. q < op.prev
    BY <2>1, <1>3, <1>9
  <2>3. hdr[q].next # None /\ hdr[q].next <= op.prev
    BY <2>1, <2>2, <1>3
  <2>4. hdr[q].next \in F
    BY <2>1, <2>3, <1>3
  <2>5. QED
    BY <2>1, <2>3, <2>4, <1>1, <1>3, <1>4 DEF Below
<1>10. ASSUME NEW q \in Above(F), hdr[q].next # None PROVE hdr[q].next \in Above(F)
  <2>1. q \in F /\ q > op.start /\ (MergesRight => q # op.cur) /\ op.cur # None /\ op.cur <= q
    BY <1>6 DEF Above
  <2>2. hdr[q].next \in F /\ q < hdr[q].next /\ op.cur \in F
    BY <2>1, <1>3, <1>10, <1>1
  <2>3. QED
    BY <2>1, <2>2, <1>3, <1>4 DEF Above
<1>11. op.prev # None => op.prev \in Below(F)
  BY <1>1 DEF Below
<1>12. QED
  BY <1>5, <1>7, <1>8, <1>9, <1>10, <1>11 DEF Below

\* Plain facts about the free blocks and the ones in the hands of callers.
LEMMA BlockFacts ==
    ASSUME TypeOK, NEW F \in SUBSET Page, FreeList(F)
    PROVE  /\ Pages \in Nat
           /\ \A p \in F : /\ p \in Nat /\ p >= 1 /\ hdr[p].size \in Nat /\ hdr[p].size >= 1
                           /\ p + hdr[p].size <= Pages + 1
                           /\ hdr[p].size \in Multiples \/ p + hdr[p].size = Pages + 1
                           /\ hdr[p].next \in F \cup {None}
                           /\ hdr[p].next # None => p + hdr[p].size < hdr[p].next
           /\ \A p, q \in F : p < q => p + hdr[p].size < q
           /\ \A s \in Slot : block[s] # NoBlock =>
                 /\ block[s].start \in Nat /\ block[s].size \in Nat /\ block[s].size >= 1
                 /\ \A p \in F : Apart(block[s].start, block[s].size, p, hdr[p].size)
<1>1. \A p \in F : /\ p \in Nat /\ p >= 1 /\ hdr[p].size \in Nat /\ hdr[p].size >= 1
                   /\ p + hdr[p].size <= Pages + 1
                   /\ hdr[p].size \in Multiples \/ p + hdr[p].size = Pages + 1
  BY DEF FreeList, BlocksOK, TypeOK, Header, Page, End
<1>2. \A p \in F : /\ hdr[p].next \in F \cup {None}
                   /\ hdr[p].next # None => p + hdr[p].size < hdr[p].next
  BY DEF FreeList, ListOK, End
<1>3. ASSUME NEW p \in F, NEW q \in F, p < q PROVE p + hdr[p].size < q
  <2>1. hdr[p].next # None /\ hdr[p].next <= q
    BY <1>3 DEF FreeList, ListOK
  <2>2. hdr[p].next \in Nat
    BY <1>1, <1>2, <2>1
  <2>3. QED
    BY <2>1, <2>2, <1>1, <1>2
<1>4. ASSUME NEW s \in Slot, block[s] # NoBlock
      PROVE  /\ block[s].start \in Nat /\ block[s].size \in Nat /\ block[s].size >= 1
             /\ \A p \in F : Apart(block[s].start, block[s].size, p, hdr[p].size)
  <2>1. /\ block[s].start \in Page /\ block[s].size \in Sizes
        /\ \A p \in F : Apart(block[s].start, block[s].size, p, hdr[p].size)
    BY <1>4 DEF FreeList, OwnedOK
  <2>2. QED
    BY <2>1, MultiplesLeast DEF Page
<1>5. QED
  BY <1>1, <1>2, <1>3, <1>4, KmmAssumption

\* The sizes and the owners after free(): the new block holds a whole number of
\* requests, and no caller has a part of it.
LEMMA NewBlockFits ==
    ASSUME Uniform, TypeOK, NEW F \in SUBSET Page, FreeList(F), Inserts
    PROVE  /\ NewSize \in Multiples \/ op.start + NewSize = Pages + 1
           /\ MergesLeft => hdr[op.prev].size \in Multiples
           /\ \A s \in Slot : block[s] # NoBlock =>
                 /\ Apart(block[s].start, block[s].size, op.start, NewSize)
                 /\ MergesLeft => Apart(block[s].start, block[s].size, op.prev,
                                        hdr[op.prev].size + NewSize)
<1>1. /\ op.start \in Page \ F /\ op.size \in 1..Pages
      /\ op.cur \in F \cup {None} /\ op.prev \in F \cup {None}
  BY InsertPlace
<1>2. op.start \in Nat /\ op.start >= 1 /\ op.start <= Pages /\ op.size \in Multiples
  BY <1>1, MultiplesLeast DEF FreeList, OpOK, Inserts, Page
<1>3. NewSize \in 1..Pages
  BY NewBlock
<1>4. NewSize \in Multiples \/ op.start + NewSize = Pages + 1
  <2>1. CASE MergesRight
    <3>1. /\ op.cur \in F /\ op.start + op.size = op.cur
          /\ NewSize = op.size + hdr[op.cur].size
      BY <2>1, <1>1 DEF MergesRight, NewSize
    <3>2. CASE hdr[op.cur].size \in Multiples
      BY <3>1, <3>2, <1>2, MultiplesAdd
    <3>3. CASE op.cur + hdr[op.cur].size = Pages + 1
      <4>1. hdr[op.cur].size \in Nat
        BY <3>1, BlockFacts
      <4>2. QED
        BY <3>1, <3>3, <4>1, <1>1, <1>2
    <3>4. QED
      BY <3>1, <3>2, <3>3, BlockFacts
  <2>2. CASE ~MergesRight
    BY <2>2, <1>2 DEF NewSize
  <2>3. QED
    BY <2>1, <2>2
<1>5. ASSUME MergesLeft PROVE op.prev \in F /\ op.prev + hdr[op.prev].size = op.start
  BY <1>1, <1>5 DEF MergesLeft, End
<1>6. ASSUME MergesLeft PROVE hdr[op.prev].size \in Multiples
  <2>1. op.prev + hdr[op.prev].size # Pages + 1
    BY <1>5, <1>6, <1>2, BlockFacts
  <2>2. QED
    BY <1>5, <1>6, <2>1, BlockFacts
<1>7. ASSUME NEW s \in Slot, block[s] # NoBlock
      PROVE  Apart(block[s].start, block[s].size, op.start, NewSize)
  <2>1. /\ block[s].start \in Nat /\ block[s].size \in Nat /\ block[s].size >= 1
        /\ \A p \in F : Apart(block[s].start, block[s].size, p, hdr[p].size)
    BY <1>7, BlockFacts
  <2>2. Apart(op.start, op.size, block[s].start, block[s].size)
    BY <1>7 DEF FreeList, OpOK, Inserts
  <2>3. CASE MergesRight
    <3>1. /\ op.cur \in F /\ op.start + op.size = op.cur
          /\ NewSize = op.size + hdr[op.cur].size
      BY <2>3, <1>1 DEF MergesRight, NewSize
    <3>2. hdr[op.cur].size \in Nat /\ Apart(block[s].start, block[s].size, op.cur, hdr[op.cur].size)
      BY <3>1, <2>1, BlockFacts
    <3>3. QED
      BY <3>1, <3>2, <2>1, <2>2, <1>1, <1>2 DEF Apart
  <2>4. CASE ~MergesRight
    BY <2>2, <2>4 DEF NewSize, Apart
  <2>5. QED
    BY <2>3, <2>4
<1>8. ASSUME NEW s \in Slot, block[s] # NoBlock, MergesLeft
      PROVE  Apart(block[s].start, block[s].size, op.prev, hdr[op.prev].size + NewSize)
  <2>1. op.prev \in Nat /\ hdr[op.prev].size \in Nat
    BY <1>5, <1>8, BlockFacts
  <2>2. /\ block[s].start \in Nat /\ block[s].size \in Nat /\ block[s].size >= 1
        /\ Apart(block[s].start, block[s].size, op.prev, hdr[op.prev].size)
    BY <1>5, <1>8, BlockFacts
  <2>3. QED
    BY <2>1, <2>2, <1>2, <1>3, <1>5, <1>7, <1>8 DEF Apart
<1>9. QED
  BY <1>4, <1>6, <1>7, <1>8

-----------------------------------------------------------------------------
(* Steps of free() *)

LEMMA FreeInsertStep ==
    ASSUME Uniform, TypeOK, SafeData, NEW F \in SUBSET Page, FreeList(F), FreeInsert
    PROVE  TypeOK' /\ SafeData' /\ \E G \in SUBSET Page : FreeList(G)'
<1>1. Inserts
  BY DEF FreeInsert, Inserts
<1>2. PICK G : G = Inserted(F)
  OBVIOUS
<1>3. PICK p : p = op.start
  OBVIOUS
<1>4. PICK prev : prev = op.prev
  OBVIOUS
<1>5. PICK size : size = NewSize
  OBVIOUS
<1>6. PICK next : next = NewNext
  OBVIOUS
<1>7. /\ hdr' \in [Page -> Header] /\ last' \in Pointer
      /\ hdr'[p].size = size /\ hdr'[p].next = next
      /\ prev # None =>
             /\ MergesLeft => hdr'[prev].size = hdr[prev].size + size /\ hdr'[prev].next = next
             /\ ~MergesLeft => hdr'[prev].size = hdr[prev].size /\ hdr'[prev].next = p
      /\ \A r \in Page \ {p, prev} : SameBlock(hdr'[r], hdr[r])
      /\ panicked' = (next = Unsafe)
  <2> DEFINE c == Coalesce(Linked(op.start, op.size, op.prev, op.cur), op.start)
  <2>1. hdr' = c.hdr /\ last' = c.last /\ panicked' = (c.hdr[op.start].next = Unsafe)
    BY DEF FreeInsert, AssertSafe
  <2>2. /\ c \in List
        /\ c.hdr[op.start].size = NewSize /\ c.hdr[op.start].next = NewNext
        /\ op.prev # None =>
               /\ MergesLeft => /\ c.hdr[op.prev].size = hdr[op.prev].size + NewSize
                                /\ c.hdr[op.prev].next = NewNext
               /\ ~MergesLeft => /\ c.hdr[op.prev].size = hdr[op.prev].size
                                 /\ c.hdr[op.prev].next = op.start
        /\ \A r \in Page \ {op.start, op.prev} : SameBlock(c.hdr[r], hdr[r])
    BY <1>1, InsertedBlocks
  <2> HIDE DEF c
  <2>3. QED
    BY <2>1, <2>2, <1>3, <1>4, <1>5, <1>6 DEF List
<1>8. /\ p \in Page \ F /\ p \in Nat /\ p >= 1 /\ prev \in F \cup {None}
      /\ prev # None => prev \in Nat /\ prev < p /\ prev + hdr[prev].size <= p
      /\ MergesLeft <=> prev # None /\ prev + hdr[prev].size = p
  <2>1. /\ p \in Page \ F /\ prev \in F \cup {None}
        /\ prev # None => prev < p /\ prev + hdr[prev].size <= p
    BY <1>1, <1>3, <1>4, InsertPlace DEF End
  <2>2. p \in Nat /\ p >= 1
    BY <2>1 DEF Page
  <2>3. prev # None => prev \in Nat
    BY <2>1, BlockFacts
  <2>4. QED
    BY <2>1, <2>2, <2>3, <1>3, <1>4 DEF End, MergesLeft
<1>9. /\ size \in Nat /\ size >= 1 /\ p + size <= Pages + 1
      /\ next \in F \cup {None}
      /\ next # None => p + size < next
  BY <1>1, <1>3, <1>5, <1>6, NewBlock
<1>10. /\ first' = IF prev = None THEN p ELSE first
       /\ op' = Idle /\ block' = block
  BY <1>3, <1>4 DEF FreeInsert
<1>11. next \in Nat /\ next # Unsafe
  BY <1>9, BlockFacts DEF None, Unsafe
<1>12. TypeOK' /\ SafeData'
  <2>1. first' \in Pointer
    BY <1>8, <1>10 DEF TypeOK, Pointer
  <2>2. op' \in [kind : {"idle", "allocate", "free"}, start : Pointer, size : 0..Pages,
                 cur : Pointer, prev : Pointer]
    BY <1>10, KmmAssumption DEF Idle, Pointer
  <2>3. QED
    BY <2>1, <2>2, <1>7, <1>10, <1>11 DEF TypeOK, SafeData
<1>13. PICK B, A : B = Below(F) /\ A = Above(F)
  OBVIOUS
<1>14. /\ B = {q \in F : q < p} /\ A \subseteq F /\ \A q \in A : q > p
       /\ G = B \cup A \cup (IF MergesLeft THEN {} ELSE {p})
  BY <1>2, <1>3, <1>13 DEF Below, Above, Inserted
<1>15. /\ \A q \in B : prev # None /\ q <= prev
       /\ prev # None => prev \in B
       /\ \A q \in A : next # None /\ next <= q
       /\ next # None => next \in A
       /\ \A q \in B : q # prev => hdr[q].next \in B
       /\ \A q \in A : hdr[q].next \in A \cup {None}
  BY <1>1, <1>4, <1>6, <1>13, Neighbours
<1>16. \A q \in (A \cup B) \ {prev} : hdr'[q].size = hdr[q].size /\ hdr'[q].next = hdr[q].next
  BY <1>7, <1>8, <1>14 DEF SameBlock
<1>17. \A q \in F : /\ q \in Nat /\ q >= 1 /\ hdr[q].size \in Nat /\ hdr[q].size >= 1
                    /\ q + hdr[q].size <= Pages + 1
                    /\ hdr[q].size \in Multiples \/ q + hdr[q].size = Pages + 1
                    /\ hdr[q].next # None => q + hdr[q].size < hdr[q].next
  BY BlockFacts
<1>18. /\ size \in Multiples \/ p + size = Pages + 1
       /\ MergesLeft => hdr[prev].size \in Multiples
       /\ \A s \in Slot : block[s] # NoBlock =>
             /\ Apart(block[s].start, block[s].size, p, size)
             /\ MergesLeft => Apart(block[s].start, block[s].size, prev, hdr[prev].size + size)
  BY <1>1, <1>3, <1>4, <1>5, NewBlockFits
<1>19. G \in SUBSET Page
  BY <1>8, <1>14
<1>20. BlocksOK(G)'
  <2>1. SUFFICES ASSUME NEW q \in G
                 PROVE  /\ hdr'[q].size >= 1
                        /\ q + hdr'[q].size <= Pages + 1
                        /\ hdr'[q].size \in Multiples \/ q + hdr'[q].size = Pages + 1
    BY DEF BlocksOK, End
  <2>2. CASE q = p
    BY <2>2, <1>7, <1>9, <1>18
  <2>3. CASE q # p /\ q # prev
    BY <2>3, <1>14, <1>16, <1>17
  <2>4. CASE q = prev /\ q # p /\ ~MergesLeft
    <3>1. prev # None /\ prev \in F
      BY <2>4, <1>8, <1>14, <1>17 DEF None
    <3>2. QED
      BY <2>4, <3>1, <1>7, <1>17
  <2>5. CASE q = prev /\ q # p /\ MergesLeft
    <3>1. prev # None /\ prev \in F /\ prev + hdr[prev].size = p
      BY <2>5, <1>8
    <3>2. hdr'[prev].size = hdr[prev].size + size
      BY <2>5, <3>1, <1>7
    <3>3. hdr[prev].size + size \in Multiples \/ p + size = Pages + 1
      BY <2>5, <1>18, MultiplesAdd
    <3>4. QED
      BY <2>5, <3>1, <3>2, <3>3, <1>8, <1>9, <1>17
  <2>6. QED
    BY <2>2, <2>3, <2>4, <2>5
<1>21. OwnedOK(G)'
  <2>1. SUFFICES ASSUME NEW s \in Slot, block[s] # NoBlock, NEW q \in G
                 PROVE  Apart(block[s].start, block[s].size, q, hdr'[q].size)
    BY <1>10 DEF FreeList, OwnedOK, Apart
  <2>2. \A r \in F : Apart(block[s].start, block[s].size, r, hdr[r].size)
    BY <2>1, BlockFacts
  <2>3. CASE q = p
    BY <2>1, <2>3, <1>7, <1>18
  <2>4. CASE q # p /\ q # prev
    BY <2>2, <2>4, <1>14, <1>16
  <2>5. CASE q = prev /\ q # p
    <3>1. prev # None /\ prev \in F
      BY <2>5, <1>8, <1>14, <1>17 DEF None
    <3>2. QED
      BY <2>1, <2>2, <2>5, <3>1, <1>7, <1>18
  <2>6. QED
    BY <2>3, <2>4, <2>5
<1>22. ListOK(G)'
  <2>1. MergesLeft => prev \in B
    BY <1>8, <1>15
  <2>2. first' # None /\ first' \in G
    <3>1. CASE prev = None
      <4>1. ~MergesLeft
        BY <3>1, <1>8
      <4>2. QED
        BY <3>1, <4>1, <1>8, <1>10, <1>14 DEF None
    <3>2. CASE prev # None
      <4>1. first # None /\ first \in F /\ first <= prev
        BY <3>2, <1>8 DEF FreeList, ListOK
      <4>2. first < p
        BY <4>1, <3>2, <1>8, <1>17
      <4>3. QED
        BY <3>2, <4>1, <4>2, <1>10, <1>14
    <3>3. QED
      BY <3>1, <3>2
  <2>3. ASSUME NEW q \in G PROVE first' <= q
    <3>1. CASE prev = None
      <4>1. B = {} /\ first' = p
        BY <3>1, <1>10, <1>15
      <4>2. QED
        BY <2>3, <4>1, <1>8, <1>14, <1>17
    <3>2. CASE prev # None
      <4>1. first' = first /\ first \in F /\ first <= prev /\ \A r \in F : first <= r
        BY <3>2, <1>8, <1>10 DEF FreeList, ListOK
      <4>2. CASE q \in F
        BY <4>1, <4>2
      <4>3. CASE q = p
        BY <4>1, <4>3, <3>2, <1>8, <1>17
      <4>4. QED
        BY <4>2, <4>3, <1>14
    <3>3. QED
      BY <3>1, <3>2
  <2>4. ASSUME NEW q \in G
        PROVE  /\ hdr'[q].next \in G \cup {None}
               /\ hdr'[q].next # None => q + hdr'[q].size < hdr'[q].next
    <3>1. CASE q = p
      BY <3>1, <1>7, <1>9, <1>14, <1>15
    <3>2. CASE q \in A /\ q # p
      <4>1. q # prev
        BY <3>2, <1>8, <1>14, <1>17 DEF None
      <4>2. QED
        BY <3>2, <4>1, <1>14, <1>15, <1>16, <1>17
    <3>3. CASE q \in B /\ q # prev
      BY <3>3, <1>14, <1>15, <1>16, <1>17
    <3>4. CASE q \in B /\ q = prev /\ ~MergesLeft
      <4>1. prev # None /\ prev \in F /\ prev + hdr[prev].size < p
        BY <3>4, <1>8, <1>14, <1>15, <1>17
      <4>2. QED
        BY <3>4, <4>1, <1>7, <1>14
    <3>5. CASE q \in B /\ q = prev /\ MergesLeft
      <4>1. prev # None /\ prev \in F /\ prev + hdr[prev].size = p
        BY <3>5, <1>8, <1>14
      <4>2. /\ hdr'[prev].size = hdr[prev].size + size /\ hdr'[prev].next = next
            /\ next \in A \cup {None}
        BY <3>5, <4>1, <1>7, <1>15
      <4>3. next # None => prev + (hdr[prev].size + size) < next
        BY <4>1, <1>8, <1>9, <1>11, <1>17
      <4>4. QED
        BY <3>5, <4>2, <4>3, <1>14
    <3>6. QED
      BY <3>1, <3>2, <3>3, <3>4, <3>5, <1>14
  <2>5. ASSUME NEW q \in G, NEW r \in G, q < r
        PROVE  hdr'[q].next # None /\ hdr'[q].next <= r
    <3>0. \A x, y \in F : x < y => hdr[x].next # None /\ hdr[x].next <= y
      BY DEF FreeList, ListOK
    <3>1. CASE q = p
      <4>1. r \in A
        <5>1. r # p /\ ~(r < p)
          <6>1. r \in Nat
            BY <1>8, <1>14, <1>17
          <6>2. QED
            BY <2>5, <3>1, <6>1, <1>8
        <5>2. QED
          BY <5>1, <1>14
      <4>2. QED
        BY <3>1, <4>1, <1>7, <1>15
    <3>2. CASE q \in A /\ q # p
      <4>1. q # prev /\ r \in F /\ q \in F
        BY <2>5, <3>2, <1>8, <1>14, <1>17 DEF None
      <4>2. QED
        BY <2>5, <3>0, <3>2, <4>1, <1>16
    <3>3. CASE q \in B /\ q # prev
      <4>1. /\ hdr'[q].next = hdr[q].next /\ q \in F /\ prev # None /\ prev \in F
            /\ q < prev /\ prev < p
        BY <3>3, <1>8, <1>14, <1>15, <1>16, <1>17
      <4>2. hdr[q].next # None /\ hdr[q].next <= prev /\ hdr[q].next \in F
        BY <3>0, <3>3, <4>1, <1>14, <1>15
      <4>3. CASE r \in F
        BY <2>5, <3>0, <4>1, <4>3
      <4>4. CASE r = p
        <5>1. hdr[q].next \in Nat /\ prev \in Nat /\ p \in Nat
          BY <4>1, <4>2, <1>8, <1>17
        <5>2. QED
          BY <4>1, <4>2, <4>4, <5>1
      <4>5. QED
        BY <4>3, <4>4, <1>14
    <3>4. CASE q \in B /\ q = prev
      <4>1. prev # None /\ r \notin B
        BY <2>5, <3>4, <1>8, <1>14, <1>15, <1>17
      <4>2. CASE ~MergesLeft
        <5>1. hdr'[q].next = p /\ (r = p \/ r \in A)
          BY <3>4, <4>1, <4>2, <1>7, <1>14
        <5>2. QED
          BY <5>1, <1>8, <1>14, <1>17 DEF None
      <4>3. CASE MergesLeft
        BY <3>4, <4>1, <4>3, <1>7, <1>14, <1>15
      <4>4. QED
        BY <4>2, <4>3
    <3>5. QED
      BY <3>1, <3>2, <3>3, <3>4, <1>14
  <2>6. QED
    BY <2>2, <2>3, <2>4, <2>5 DEF ListOK, End
<1>23. OpOK(G)'
  BY <1>10 DEF OpOK, Idle
<1>24. QED
  BY <1>12, <1>19, <1>20, <1>21, <1>22, <1>23 DEF FreeList

\* A caller hands its block to free().
LEMMA FreeStep ==
    ASSUME TypeOK, SafeData, NEW F \in SUBSET Page, FreeList(F), Free
    PROVE  TypeOK' /\ SafeData' /\ FreeList(F)'
<1>1. PICK s \in Slot :
          /\ block[s] # NoBlock
          /\ block' = [block EXCEPT ![s] = NoBlock]
          /\ op' = [kind |-> "free", start |-> block[s].start, size |-> block[s].size,
                    cur |-> first, prev |-> None]
  BY DEF Free
<1>2. /\ UNCHANGED <<first, last, hdr, panicked>>
  BY DEF Free
<1>3. block \in [Slot -> Block]
  BY DEF TypeOK
<1>4. NoBlock \in Block
  BY KmmAssumption DEF NoBlock, Block, Pointer
<1>5. TypeOK' /\ SafeData'
  <2>1. block' \in [Slot -> Block]
    BY <1>1, <1>3, <1>4
  <2>2. op' \in [kind : {"idle", "allocate", "free"}, start : Pointer, size : 0..Pages,
                 cur : Pointer, prev : Pointer]
    BY <1>1, <1>3 DEF TypeOK, Block, Pointer
  <2>3. QED
    BY <2>1, <2>2, <1>2 DEF TypeOK, SafeData
<1>6. block'[s] = NoBlock /\ \A u \in Slot \ {s} : block'[u] = block[u]
  BY <1>1, <1>3
<1>7. BlocksOK(F)' /\ ListOK(F)'
  BY <1>2 DEF FreeList, BlocksOK, ListOK, End
<1>8. OwnedOK(F)'
  BY <1>2, <1>6 DEF FreeList, OwnedOK, Apart
<1>9. OpOK(F)'
  <2>1. /\ block[s].start \in Page /\ block[s].size \in Sizes
        /\ block[s].start + block[s].size <= Pages + 1
        /\ \A p \in F : Apart(block[s].start, block[s].size, p, hdr[p].size)
    BY <1>1 DEF FreeList, OwnedOK
  <2>2. \A u \in Slot : block'[u] # NoBlock =>
            Apart(block[s].start, block[s].size, block'[u].start, block'[u].size)
    BY <1>1, <1>6 DEF FreeList, OwnedOK
  <2>3. first \in F \cup {None}
    BY DEF FreeList, ListOK
  <2>4. /\ op'.kind = "free" /\ op'.start = block[s].start /\ op'.size = block[s].size
        /\ op'.cur = first /\ op'.prev = None
    BY <1>1
  <2>5. QED
    BY <2>1, <2>2, <2>3, <2>4, <1>2 DEF OpOK
<1>10. QED
  BY <1>5, <1>7, <1>8, <1>9 DEF FreeList

\* find_insertion_point goes on; the block it is at begins before the address.
LEMMA FindNextStep ==
    ASSUME TypeOK, SafeData, NEW F \in SUBSET Page, FreeList(F), FindNext
    PROVE  TypeOK' /\ SafeData' /\ FreeList(F)'
<1>1. /\ op.kind = "free" /\ op.cur # None /\ op.cur <= op.start
      /\ panicked' = (hdr[op.cur].next = Unsafe)
      /\ op' = IF panicked' THEN op ELSE [op EXCEPT !.prev = op.cur, !.cur = hdr[op.cur].next]
      /\ UNCHANGED <<first, last, hdr, block>>
  BY DEF FindNext, AssertSafe
<1>2. /\ op.cur \in F /\ op.start \in Page /\ op.size \in Sizes
      /\ \A p \in F : Apart(op.start, op.size, p, hdr[p].size)
  BY <1>1 DEF FreeList, OpOK
<1>3. /\ op.cur \in Nat /\ hdr[op.cur].size \in Nat /\ hdr[op.cur].size >= 1
      /\ hdr[op.cur].next \in F \cup {None}
  BY <1>2, BlockFacts
<1>4. hdr[op.cur].next # Unsafe /\ hdr[op.cur].next \in Pointer
  <2>1. hdr[op.cur].next \in Pointer
    BY <1>3 DEF Pointer
  <2>2. Unsafe \notin Pointer
    BY DEF Pointer, Page, None, Unsafe
  <2>3. QED
    BY <2>1, <2>2
<1>5. /\ panicked' = FALSE
      /\ op' = [op EXCEPT !.prev = op.cur, !.cur = hdr[op.cur].next]
  BY <1>1, <1>4
<1>6. op.cur < op.start
  <2>1. op.size \in Nat /\ op.size >= 1 /\ op.start \in Nat
    BY <1>2, MultiplesLeast DEF Page
  <2>2. QED
    BY <2>1, <1>1, <1>2, <1>3 DEF Apart
<1>7. op \in [kind : {"idle", "allocate", "free"}, start : Pointer, size : 0..Pages,
              cur : Pointer, prev : Pointer]
  BY DEF TypeOK
<1>8. /\ op' \in [kind : {"idle", "allocate", "free"}, start : Pointer, size : 0..Pages,
                  cur : Pointer, prev : Pointer]
      /\ op'.kind = op.kind /\ op'.start = op.start /\ op'.size = op.size
      /\ op'.prev = op.cur /\ op'.cur = hdr[op.cur].next
  BY <1>4, <1>5, <1>7
<1>9. TypeOK' /\ SafeData'
  BY <1>1, <1>5, <1>8 DEF TypeOK, SafeData
<1>10. BlocksOK(F)' /\ ListOK(F)' /\ OwnedOK(F)'
  BY <1>1 DEF FreeList, BlocksOK, ListOK, OwnedOK, End, Apart
<1>11. OpOK(F)'
  BY <1>1, <1>2, <1>3, <1>6, <1>8 DEF FreeList, OpOK
<1>12. QED
  BY <1>9, <1>10, <1>11 DEF FreeList

-----------------------------------------------------------------------------
(* Steps of allocate_linear *)

LEMMA AllocateLinearStep ==
    ASSUME TypeOK, SafeData, NEW F \in SUBSET Page, FreeList(F), AllocateLinear
    PROVE  TypeOK' /\ SafeData' /\ FreeList(F)'
<1>1. PICK n \in Sizes : op' = [Idle EXCEPT !.kind = "allocate", !.size = n, !.cur = first]
  BY DEF AllocateLinear
<1>2. /\ UNCHANGED <<first, last, hdr, block, panicked>>
      /\ \E s \in Slot : block[s] = NoBlock
  BY DEF AllocateLinear
<1>3. first \in Pointer /\ n \in 0..Pages /\ None \in Pointer
  BY MultiplesLeast, KmmAssumption DEF TypeOK, Pointer
<1>4. /\ op' \in [kind : {"idle", "allocate", "free"}, start : Pointer, size : 0..Pages,
                  cur : Pointer, prev : Pointer]
      /\ op'.kind = "allocate" /\ op'.size = n /\ op'.cur = first
  BY <1>1, <1>3 DEF Idle
<1>5. TypeOK' /\ SafeData'
  BY <1>2, <1>4 DEF TypeOK, SafeData
<1>6. BlocksOK(F)' /\ ListOK(F)' /\ OwnedOK(F)'
  BY <1>2 DEF FreeList, BlocksOK, ListOK, OwnedOK, End, Apart
<1>7. OpOK(F)'
  BY <1>2, <1>4 DEF OpOK
<1>8. QED
  BY <1>5, <1>6, <1>7 DEF FreeList

\* Where allocate_linear is in the list.
LEMMA AtFirst ==
    ASSUME TypeOK, NEW F \in SUBSET Page, FreeList(F), op.kind = "allocate", op.cur # None
    PROVE  op.cur = first /\ first \in F /\ op.size \in Sizes
BY DEF FreeList, OpOK, ListOK

\* A block that is too small ends where the region ends, and is the last.
LEMMA AllocateNextStep ==
    ASSUME Uniform, TypeOK, SafeData, NEW F \in SUBSET Page, FreeList(F), AllocateNext
    PROVE  TypeOK' /\ SafeData' /\ FreeList(F)'
<1>1. /\ op.kind = "allocate" /\ op.cur # None /\ hdr[op.cur].size < op.size
      /\ panicked' = (hdr[op.cur].next = Unsafe)
      /\ op' = IF panicked' THEN op ELSE [op EXCEPT !.cur = hdr[op.cur].next]
      /\ UNCHANGED <<first, last, hdr, block>>
  BY DEF AllocateNext, AssertSafe
<1>2. op.cur \in F /\ op.size \in Sizes
  BY <1>1, AtFirst
<1>3. /\ Pages \in Nat /\ op.cur \in Nat /\ hdr[op.cur].size \in Nat /\ hdr[op.cur].size >= 1
      /\ hdr[op.cur].size \in Multiples \/ op.cur + hdr[op.cur].size = Pages + 1
      /\ hdr[op.cur].next \in F \cup {None}
      /\ hdr[op.cur].next # None => op.cur + hdr[op.cur].size < hdr[op.cur].next
  BY <1>2, BlockFacts
<1>4. op.cur + hdr[op.cur].size = Pages + 1
  BY <1>1, <1>2, <1>3, MultiplesLeast
<1>5. hdr[op.cur].next = None
  <2>1. SUFFICES ASSUME hdr[op.cur].next # None PROVE FALSE
    OBVIOUS
  <2>2. hdr[op.cur].next \in 1..Pages
    BY <2>1, <1>3 DEF Page
  <2>3. QED
    BY <2>1, <2>2, <1>3, <1>4
<1>6. panicked' = FALSE /\ op' = [op EXCEPT !.cur = None]
  <2>1. hdr[op.cur].next # Unsafe
    BY <1>5 DEF None, Unsafe
  <2>2. panicked' = FALSE
    BY <2>1, <1>1
  <2>3. QED
    BY <2>2, <1>1, <1>5
<1>7. /\ op' \in [kind : {"idle", "allocate", "free"}, start : Pointer, size : 0..Pages,
                  cur : Pointer, prev : Pointer]
      /\ op'.kind = "allocate" /\ op'.size = op.size /\ op'.cur = None
  BY <1>1, <1>6 DEF TypeOK, Pointer
<1>8. TypeOK' /\ SafeData'
  BY <1>1, <1>6, <1>7 DEF TypeOK, SafeData
<1>9. BlocksOK(F)' /\ ListOK(F)' /\ OwnedOK(F)'
  BY <1>1 DEF FreeList, BlocksOK, ListOK, OwnedOK, End, Apart
<1>10. OpOK(F)'
  BY <1>1, <1>7 DEF FreeList, OpOK
<1>11. QED
  BY <1>8, <1>9, <1>10 DEF FreeList

LEMMA AllocateFailStep ==
    ASSUME TypeOK, SafeData, NEW F \in SUBSET Page, FreeList(F), AllocateFail
    PROVE  TypeOK' /\ SafeData' /\ FreeList(F)'
<1>1. op' = Idle /\ UNCHANGED <<first, last, hdr, block, panicked>>
  BY DEF AllocateFail
<1>2. TypeOK' /\ SafeData'
  BY <1>1, KmmAssumption DEF TypeOK, SafeData, Idle, Pointer
<1>3. BlocksOK(F)' /\ ListOK(F)' /\ OwnedOK(F)'
  BY <1>1 DEF FreeList, BlocksOK, ListOK, OwnedOK, End, Apart
<1>4. OpOK(F)'
  BY <1>1 DEF OpOK, Idle
<1>5. QED
  BY <1>2, <1>3, <1>4 DEF FreeList

\* An owner writes to its own pages only.
LEMMA OwnerWritesStep ==
    ASSUME TypeOK, SafeData, NEW F \in SUBSET Page, FreeList(F), OwnerWrites
    PROVE  TypeOK' /\ SafeData' /\ FreeList(F)'
<1>0. PICK s \in Slot : \E p \in block[s].start .. (block[s].start + block[s].size - 1) :
          hdr' = [hdr EXCEPT ![p] = [size |-> 0, next |-> Unsafe, prev |-> Unsafe]]
  BY DEF OwnerWrites
<1>1. PICK p \in block[s].start .. (block[s].start + block[s].size - 1) :
          hdr' = [hdr EXCEPT ![p] = [size |-> 0, next |-> Unsafe, prev |-> Unsafe]]
  BY <1>0
<1>2. op = Idle /\ UNCHANGED <<first, last, block, op, panicked>>
  BY DEF OwnerWrites
<1>3. block[s] # NoBlock
  BY DEF NoBlock, None
<1>4. /\ block[s].start \in Nat /\ block[s].size \in Nat
      /\ \A q \in F : Apart(block[s].start, block[s].size, q, hdr[q].size)
  BY <1>3, BlockFacts
<1>5. p \in Nat /\ p >= block[s].start /\ p < block[s].start + block[s].size
  BY <1>4
<1>6. p \notin F
  <2>1. SUFFICES ASSUME p \in F PROVE FALSE
    OBVIOUS
  <2>2. hdr[p].size \in Nat /\ hdr[p].size >= 1
    BY <2>1, BlockFacts
  <2>3. QED
    BY <2>1, <2>2, <1>4, <1>5 DEF Apart
<1>7. [size |-> 0, next |-> Unsafe, prev |-> Unsafe] \in Header
  BY KmmAssumption DEF Header
<1>8. hdr' \in [Page -> Header] /\ \A q \in F : hdr'[q] = hdr[q]
  BY <1>1, <1>6, <1>7 DEF TypeOK
<1>9. TypeOK' /\ SafeData'
  BY <1>2, <1>8 DEF TypeOK, SafeData
<1>10. BlocksOK(F)'
  BY <1>8 DEF FreeList, BlocksOK, End
<1>11. ListOK(F)'
  BY <1>2, <1>8 DEF FreeList, ListOK, End
<1>12. OwnedOK(F)'
  BY <1>2, <1>8 DEF FreeList, OwnedOK, Apart
<1>13. OpOK(F)'
  BY <1>2 DEF OpOK, Idle
<1>14. QED
  BY <1>9, <1>10, <1>11, <1>12, <1>13 DEF FreeList

-----------------------------------------------------------------------------
(* Induction on sets of numbers *)

\* Every non-empty set of natural numbers has a least element.
LEMMA LeastNumber ==
    ASSUME NEW T \in SUBSET Nat, T # {}
    PROVE  \E x \in T : \A y \in T : x <= y
<1>1. PICK R : IsWellFoundedOn(R, Nat) /\ \A x, y \in Nat : x < y => <<x, y>> \in R
  <2>1. IsWellFoundedOn(OpToRel(<, Nat), Nat)
    BY NatLessThanWellFounded
  <2>2. \A x, y \in Nat : x < y => <<x, y>> \in OpToRel(<, Nat)
    BY DEF OpToRel
  <2>3. QED
    BY <2>1, <2>2, Zenon
<1>2. \E x \in T : \A y \in T : ~(<<y, x>> \in R)
  <2>1. IsWellFoundedOn(R, Nat)
    BY <1>1
  <2>2. QED
    BY <2>1, WFMin
<1>3. PICK x \in T : \A y \in T : ~(<<y, x>> \in R)
  BY <1>2
<1>4. ASSUME NEW y \in T PROVE x <= y
  <2>1. x \in Nat /\ y \in Nat /\ ~(<<y, x>> \in R)
    BY <1>3
  <2>2. ~(y < x)
    BY <1>1, <2>1
  <2>3. QED
    BY <2>1, <2>2
<1>5. QED
  BY <1>4

\* A set of numbers that has 0, and the successor of every member, has them all.
LEMMA SetInduction ==
    ASSUME NEW T \in SUBSET Nat, 0 \in T, \A n \in T : n + 1 \in T
    PROVE  T = Nat
<1>1. SUFFICES ASSUME Nat \ T # {} PROVE FALSE
  OBVIOUS
<1>2. PICK x \in Nat \ T : \A y \in Nat \ T : x <= y
  BY <1>1, LeastNumber
<1>3. x - 1 \in Nat \ T
  <2>1. x - 1 \in Nat
    BY <1>2
  <2>2. QED
    BY <2>1, <1>2
<1>4. QED
  BY <1>2, <1>3

-----------------------------------------------------------------------------

\* The slot of the history is a free one.
LEMMA GivesFreeSlot ==
    ASSUME NEW a, NEW n, \E s \in Slot : block[s] = NoBlock, Give(a, n)
    PROVE  \E s \in Slot : /\ block[s] = NoBlock
                           /\ block' = [block EXCEPT ![s] = [start |-> a, size |-> n]]
<1> DEFINE free == {s \in Slot : block[s] = NoBlock}
           least == CHOOSE s \in free : \A u \in free : s <= u
<1>1. free \in SUBSET Nat /\ free # {}
  BY DEF Slot
<1>2. \E s \in free : \A u \in free : s <= u
  <2> HIDE DEF free
  <2>1. QED
    BY <1>1, LeastNumber
<1>3. least \in free
  BY <1>2
<1>4. block' = [block EXCEPT ![least] = [start |-> a, size |-> n]]
  BY DEF Give
<1> HIDE DEF least
<1>5. QED
  BY <1>3, <1>4

\* The block at the front of the list is given away, whole or in part.
LEMMA AllocateFitStep ==
    ASSUME Uniform, TypeOK, SafeData, NEW F \in SUBSET Page, FreeList(F), AllocateFit
    PROVE  TypeOK' /\ SafeData' /\ \E G \in SUBSET Page : FreeList(G)'
<1>1. PICK p, n : p = op.cur /\ n = op.size
  OBVIOUS
<1>2. PICK rem : rem = hdr[p].size - n
  OBVIOUS
<1>3. PICK new : new = IF rem > 0 THEN p + n ELSE None
  OBVIOUS
<1>4. /\ op.kind = "allocate" /\ p # None /\ hdr[p].size >= n
      /\ hdr' = IF rem > 0 THEN [hdr EXCEPT ![new] = [hdr[p] EXCEPT !.size = rem]] ELSE hdr
      /\ first' = IF first = p THEN new ELSE first
      /\ last' = IF last = p THEN new ELSE last
      /\ Give(p, n)
      /\ op' = Idle /\ panicked' = panicked
  BY <1>1, <1>2, <1>3 DEF AllocateFit
<1>5. p = first /\ p \in F /\ p \in Page /\ n \in Sizes
  BY <1>1, <1>4, AtFirst
<1>6. /\ n \in Nat /\ n >= 1 /\ n <= Pages /\ n \in Multiples
      /\ \A m \in Multiples : m >= 1 => m >= n
  BY <1>5, MultiplesLeast
<1>7. /\ Pages \in Nat
      /\ \A q \in F : /\ q \in Nat /\ q >= 1 /\ hdr[q].size \in Nat /\ hdr[q].size >= 1
                      /\ q + hdr[q].size <= Pages + 1
                      /\ hdr[q].size \in Multiples \/ q + hdr[q].size = Pages + 1
                      /\ hdr[q].next \in F \cup {None}
                      /\ hdr[q].next # None => q + hdr[q].size < hdr[q].next
      /\ \A q, r \in F : q < r => q + hdr[q].size < r
  BY BlockFacts
<1>8. PICK s \in Slot : block[s] = NoBlock /\ block' = [block EXCEPT ![s] = [start |-> p, size |-> n]]
  <2>1. \E u \in Slot : block[u] = NoBlock
    BY <1>4 DEF FreeList, OpOK
  <2>2. QED
    BY <2>1, <1>4, GivesFreeSlot
<1>9. rem \in Nat /\ p \in Nat /\ p >= 1 /\ p + n <= Pages + 1
  BY <1>2, <1>4, <1>5, <1>6, <1>7
<1>10. rem > 0 => new \in Page /\ new = p + n /\ new > p /\ new + rem = p + hdr[p].size
  BY <1>2, <1>3, <1>4, <1>5, <1>6, <1>7, <1>9 DEF Page
<1>11. /\ block' \in [Slot -> Block]
       /\ block'[s] = [start |-> p, size |-> n]
       /\ \A u \in Slot \ {s} : block'[u] = block[u]
  BY <1>5, <1>6, <1>8 DEF TypeOK, Block, Pointer
<1>12. hdr' \in [Page -> Header]
  <2>1. CASE rem > 0
    <3>1. rem \in 0..Pages
      BY <2>1, <1>2, <1>5, <1>6, <1>7, <1>9
    <3>2. hdr[p] \in Header /\ hdr \in [Page -> Header]
      BY <1>5 DEF TypeOK
    <3>3. [hdr[p] EXCEPT !.size = rem] \in Header
      BY <3>1, <3>2 DEF Header
    <3>4. QED
      BY <2>1, <3>2, <3>3, <1>4
  <2>2. CASE ~(rem > 0)
    BY <2>2, <1>4 DEF TypeOK
  <2>3. QED
    BY <2>1, <2>2
<1>13. TypeOK' /\ SafeData'
  <2>1. new \in Pointer
    BY <1>3, <1>10 DEF Pointer
  <2>2. op' \in [kind : {"idle", "allocate", "free"}, start : Pointer, size : 0..Pages,
                 cur : Pointer, prev : Pointer]
    BY <1>4, <1>7 DEF Idle, Pointer
  <2>3. QED
    BY <2>1, <2>2, <1>4, <1>11, <1>12 DEF TypeOK, SafeData
<1>14. ASSUME NEW G \in SUBSET Page, \A q \in G : Apart(p, n, q, hdr'[q].size),
              \A u \in Slot : block[u] # NoBlock =>
                  \A q \in G : Apart(block[u].start, block[u].size, q, hdr'[q].size)
       PROVE  OwnedOK(G)'
  <2>1. \A u \in Slot : block[u] # NoBlock =>
            /\ block[u].start \in Page /\ block[u].size \in Sizes
            /\ block[u].start + block[u].size <= Pages + 1
            /\ block[u].start \in Nat /\ block[u].size \in Nat
            /\ Apart(block[u].start, block[u].size, p, hdr[p].size)
    BY <1>5, BlockFacts DEF FreeList, OwnedOK
  <2>2. \A u \in Slot : block[u] # NoBlock => Apart(block[u].start, block[u].size, p, n)
    BY <2>1, <1>4, <1>5, <1>6, <1>7 DEF Apart
  <2>3. \A u, v \in Slot : u # v /\ block[u] # NoBlock /\ block[v] # NoBlock =>
            Apart(block[u].start, block[u].size, block[v].start, block[v].size)
    BY DEF FreeList, OwnedOK
  <2>4. ASSUME NEW u \in Slot, block'[u] # NoBlock
        PROVE  /\ block'[u].start \in Page /\ block'[u].size \in Sizes
               /\ block'[u].start + block'[u].size <= Pages + 1
               /\ \A q \in G : Apart(block'[u].start, block'[u].size, q, hdr'[q].size)
    <3>1. CASE u = s
      BY <3>1, <1>5, <1>9, <1>11, <1>14
    <3>2. CASE u # s
      BY <2>1, <2>4, <3>2, <1>11, <1>14
    <3>3. QED
      BY <3>1, <3>2
  <2>5. ASSUME NEW u \in Slot, NEW v \in Slot, u # v, block'[u] # NoBlock, block'[v] # NoBlock
        PROVE  Apart(block'[u].start, block'[u].size, block'[v].start, block'[v].size)
    <3>1. CASE u = s
      BY <2>2, <2>5, <3>1, <1>11 DEF Apart
    <3>2. CASE v = s
      BY <2>2, <2>5, <3>2, <1>11 DEF Apart
    <3>3. CASE u # s /\ v # s
      BY <2>3, <2>5, <3>3, <1>11
    <3>4. QED
      BY <3>1, <3>2, <3>3
  <2>6. QED
    BY <2>4, <2>5 DEF OwnedOK
<1>15. ASSUME NEW G PROVE OpOK(G)'
  BY <1>4 DEF OpOK, Idle
<1>16. CASE ~(rem > 0)
  <2>1. first' = None /\ hdr' = hdr
    BY <1>3, <1>4, <1>5, <1>16
  <2>2. BlocksOK({})' /\ ListOK({})'
    BY <2>1 DEF BlocksOK, ListOK
  <2>3. OwnedOK({})'
    BY <1>14
  <2>4. QED
    BY <2>2, <2>3, <1>13, <1>15 DEF FreeList
<1>17. CASE rem > 0
  <2>1. PICK G : G = (F \ {p}) \cup {new}
    OBVIOUS
  <2>2. /\ new \in Page /\ new = p + n /\ new > p /\ new + rem = p + hdr[p].size /\ new # None
    BY <1>10, <1>17 DEF Page, None
  <2>3. \A q \in F : /\ p <= q
                     /\ q # p => p + hdr[p].size < q /\ p < q
    <3>1. \A q \in F : p <= q
      BY <1>5 DEF FreeList, ListOK
    <3>2. \A q \in F : q # p => p < q
      BY <3>1, <1>7, <1>9
    <3>3. QED
      BY <3>1, <3>2, <1>5, <1>7
  <2>4. new \notin F \ {p}
    BY <2>2, <2>3, <1>7, <1>9
  <2>5. /\ hdr'[new].size = rem /\ hdr'[new].next = hdr[p].next
        /\ \A q \in F \ {p} : hdr'[q] = hdr[q]
        /\ first' = new
    <3>1. hdr \in [Page -> Header] /\ hdr[p] \in Header
      BY <1>5 DEF TypeOK
    <3>2. hdr' = [hdr EXCEPT ![new] = [hdr[p] EXCEPT !.size = rem]]
      BY <1>4, <1>17
    <3>3. QED
      BY <3>1, <3>2, <2>2, <2>4, <1>4, <1>5 DEF Header
  <2>6. G \in SUBSET Page
    BY <2>1, <2>2
  <2>7. BlocksOK(G)'
    <3>1. SUFFICES ASSUME NEW q \in G
                   PROVE  /\ hdr'[q].size >= 1 /\ q + hdr'[q].size <= Pages + 1
                          /\ hdr'[q].size \in Multiples \/ q + hdr'[q].size = Pages + 1
      BY DEF BlocksOK, End
    <3>2. CASE q = new
      <4>1. rem \in Multiples \/ new + rem = Pages + 1
        BY <2>2, <1>2, <1>4, <1>5, <1>7, MultiplesLess
      <4>2. QED
        BY <3>2, <4>1, <2>2, <2>5, <1>5, <1>7, <1>9, <1>17
    <3>3. CASE q \in F \ {p}
      BY <3>3, <2>5, <1>7
    <3>4. QED
      BY <3>2, <3>3, <2>1
  <2>8. ListOK(G)'
    <3>0. hdr[p].next # p
      BY <1>5, <1>7, <1>9 DEF None
    <3>1. ASSUME NEW q \in G
          PROVE  /\ first' <= q
                 /\ hdr'[q].next \in G \cup {None}
                 /\ hdr'[q].next # None => q + hdr'[q].size < hdr'[q].next
      <4>1. CASE q = new
        BY <4>1, <3>0, <2>1, <2>2, <2>5, <1>5, <1>7, <1>9
      <4>2. CASE q \in F \ {p}
        <5>1. hdr[q].next # p
          <6>1. hdr[q].next # None => q + hdr[q].size < hdr[q].next
            BY <4>2, <1>7
          <6>2. q > p /\ q \in Nat /\ hdr[q].size \in Nat
            BY <4>2, <2>3, <1>7
          <6>3. QED
            BY <6>1, <6>2, <1>9 DEF None
        <5>2. first' <= q
          <6>1. p + hdr[p].size < q /\ q \in Nat /\ hdr[p].size \in Nat
            BY <4>2, <2>3, <1>5, <1>7
          <6>2. p + n <= p + hdr[p].size
            BY <6>1, <1>4, <1>6, <1>9
          <6>3. QED
            BY <6>1, <6>2, <2>2, <2>5, <1>6, <1>9
        <5>3. QED
          BY <4>2, <5>1, <5>2, <2>1, <2>5, <1>7
      <4>3. QED
        BY <4>1, <4>2, <2>1
    <3>2. ASSUME NEW q \in G, NEW r \in G, q < r
          PROVE  hdr'[q].next # None /\ hdr'[q].next <= r
      <4>0. \A x, y \in F : x < y => hdr[x].next # None /\ hdr[x].next <= y
        BY DEF FreeList, ListOK
      <4>1. new \in Nat
        BY <2>2, <1>6, <1>9
      <4>2. r \in F \ {p}
        <5>1. SUFFICES ASSUME r = new PROVE FALSE
          BY <2>1
        <5>2. q \in F \ {p}
          BY <5>1, <4>1, <3>2, <2>1
        <5>3. p + hdr[p].size < q /\ q \in Nat
          BY <5>2, <2>3, <1>7
        <5>4. QED
          BY <5>1, <5>3, <4>1, <3>2, <2>2, <1>9
      <4>3. CASE q = new
        BY <4>0, <4>2, <4>3, <2>3, <2>5, <1>5
      <4>4. CASE q \in F \ {p}
        BY <4>0, <4>2, <4>4, <3>2, <2>5
      <4>5. QED
        BY <4>3, <4>4, <2>1
    <3>3. first' # None /\ first' \in G
      BY <2>1, <2>2, <2>5
    <3>4. QED
      BY <3>1, <3>2, <3>3 DEF ListOK, End
  <2>9. OwnedOK(G)'
    <3>1. ASSUME NEW q \in G PROVE Apart(p, n, q, hdr'[q].size)
      <4>1. CASE q = new
        BY <4>1, <2>2, <1>6, <1>9 DEF Apart
      <4>2. CASE q \in F \ {p}
        BY <4>2, <2>3, <1>4, <1>5, <1>6, <1>7, <1>9 DEF Apart
      <4>3. QED
        BY <4>1, <4>2, <2>1
    <3>2. ASSUME NEW u \in Slot, block[u] # NoBlock, NEW q \in G
          PROVE  Apart(block[u].start, block[u].size, q, hdr'[q].size)
      <4>1. /\ block[u].start \in Nat /\ block[u].size \in Nat
            /\ \A r \in F : Apart(block[u].start, block[u].size, r, hdr[r].size)
        BY <3>2, BlockFacts
      <4>2. CASE q = new
        BY <4>1, <4>2, <2>2, <2>5, <1>5, <1>6, <1>7, <1>9 DEF Apart
      <4>3. CASE q \in F \ {p}
        BY <4>1, <4>3, <2>5
      <4>4. QED
        BY <4>2, <4>3, <2>1
    <3>3. QED
      BY <3>1, <3>2, <2>6, <1>14
  <2>10. QED
    BY <2>6, <2>7, <2>8, <2>9, <1>13, <1>15 DEF FreeList
<1>18. QED
  BY <1>16, <1>17

-----------------------------------------------------------------------------
(* The invariant *)

LEMMA InitInv == Init => Inv
<1> SUFFICES ASSUME Init PROVE Inv
  OBVIOUS
<1>1. Pages \in Nat /\ Pages >= 1 /\ 1 \in Page
  BY KmmAssumption DEF Page
<1>2. /\ first = 1 /\ last = 1 /\ op = Idle /\ panicked = FALSE
      /\ hdr = [p \in Page |-> [size |-> IF p = 1 THEN Pages ELSE 0, next |-> None, prev |-> None]]
      /\ block = [s \in Slot |-> NoBlock]
  BY DEF Init
<1>3. hdr \in [Page -> Header] /\ hdr[1].size = Pages /\ hdr[1].next = None
  BY <1>1, <1>2 DEF Header, Pointer
<1>4. block \in [Slot -> Block] /\ \A s \in Slot : block[s] = NoBlock
  BY <1>1, <1>2 DEF Block, NoBlock, Pointer
<1>5. TypeOK
  <2>1. op \in [kind : {"idle", "allocate", "free"}, start : Pointer, size : 0..Pages,
                cur : Pointer, prev : Pointer]
    BY <1>1, <1>2 DEF Idle, Pointer
  <2>2. first \in Pointer /\ last \in Pointer /\ panicked \in BOOLEAN
    BY <1>1, <1>2 DEF Pointer
  <2>3. QED
    BY <2>1, <2>2, <1>3, <1>4 DEF TypeOK
<1>6. BlocksOK({1})
  BY <1>1, <1>3 DEF BlocksOK, End
<1>7. ListOK({1})
  BY <1>1, <1>2, <1>3 DEF ListOK, None
<1>8. OwnedOK({1}) /\ OpOK({1})
  BY <1>2, <1>4 DEF OwnedOK, OpOK, Idle
<1>9. QED
  BY <1>1, <1>2, <1>5, <1>6, <1>7, <1>8 DEF Inv, SafeData, FreeList

LEMMA NextInv == ASSUME Uniform, Inv, [Next]_vars PROVE Inv'
<1>1. PICK F \in SUBSET Page : FreeList(F)
  BY DEF Inv
<1>2. TypeOK /\ SafeData
  BY DEF Inv
<1>3. CASE AllocateLinear
  BY <1>1, <1>2, <1>3, AllocateLinearStep DEF Inv
<1>4. CASE AllocateNext
  BY <1>1, <1>2, <1>4, AllocateNextStep DEF Inv
<1>5. CASE AllocateFail
  BY <1>1, <1>2, <1>5, AllocateFailStep DEF Inv
<1>6. CASE AllocateFit
  BY <1>1, <1>2, <1>6, AllocateFitStep DEF Inv
<1>7. CASE Free
  BY <1>1, <1>2, <1>7, FreeStep DEF Inv
<1>8. CASE FindNext
  BY <1>1, <1>2, <1>8, FindNextStep DEF Inv
<1>9. CASE FreeInsert
  BY <1>1, <1>2, <1>9, FreeInsertStep DEF Inv
<1>10. CASE OwnerWrites
  BY <1>1, <1>2, <1>10, OwnerWritesStep DEF Inv
<1>11. CASE UNCHANGED vars
  <2>1. TypeOK' /\ SafeData'
    BY <1>2, <1>11 DEF vars, TypeOK, SafeData
  <2>2. FreeList(F)'
    BY <1>1, <1>11 DEF vars, FreeList, BlocksOK, ListOK, OwnedOK, OpOK, End, Apart
  <2>3. QED
    BY <2>1, <2>2 DEF Inv
<1>12. QED
  BY <1>3, <1>4, <1>5, <1>6, <1>7, <1>8, <1>9, <1>10, <1>11 DEF Next

\* As long as all callers ask for the same number of pages, the free list is a sorted
\* list of blocks that do not touch, apart from those of the callers, whatever is
\* allocated and freed in whatever order, and a walk stays on it.
THEOREM FreeListKept == Uniform => (Spec => []Inv)
<1> SUFFICES ASSUME Uniform PROVE Spec => []Inv
  OBVIOUS
<1>1. Init => Inv
  BY InitInv
<1>2. Inv /\ [Next]_vars => Inv'
  BY NextInv
<1>3. QED
  BY <1>1, <1>2, PTL DEF Spec

-----------------------------------------------------------------------------
(* What follows from the invariant *)

\* Every variable keeps its type: merged sizes stay within the region, and offsets of
\* blocks are pages of it.
THEOREM KmmTypes == Uniform => (Spec => []TypeOK)
<1>1. Inv => TypeOK
  BY DEF Inv
<1>2. QED
  BY <1>1, FreeListKept, PTL

\* assert_safe never refuses a pointer: allocate_linear and free read no header that
\* an owner may have overwritten.
THEOREM KmmNeverPanics == Uniform => (Spec => []SafeData)
<1>1. Inv => SafeData
  BY DEF Inv
<1>2. QED
  BY <1>1, FreeListKept, PTL

\* The definition of Nth: a recursive function on an interval, which exists because
\* each of its prefixes does.
LEMMA NthEquation ==
    \A n \in 0..Pages : Nth[n] = IF n = 0 THEN first
                                 ELSE IF Nth[n - 1] \in Page THEN hdr[Nth[n - 1]].next ELSE None
<1> DEFINE Step(f, n) == IF n = 0 THEN first
                         ELSE IF f[n - 1] \in Page THEN hdr[f[n - 1]].next ELSE None
           T == {m \in Nat : \E f : f = [n \in 0..m |-> Step(f, n)]}
<1>1. 0 \in T
  <2>1. [n \in 0..0 |-> first] = [n \in 0..0 |-> Step([k \in 0..0 |-> first], n)]
    OBVIOUS
  <2>2. QED
    BY <2>1
<1>2. ASSUME NEW m \in T PROVE m + 1 \in T
  <2>1. m \in Nat
    OBVIOUS
  <2>2. PICK f : f = [n \in 0..m |-> Step(f, n)]
    OBVIOUS
  <2>3. PICK g : g = [n \in 0..(m + 1) |-> Step(f, n)]
    OBVIOUS
  <2>4. \A n \in 0..m : g[n] = f[n]
    <3>1. \A n \in 0..m : g[n] = Step(f, n)
      BY <2>1, <2>3
    <3>2. \A n \in 0..m : f[n] = Step(f, n)
      BY <2>2, Zenon
    <3>3. QED
      BY <3>1, <3>2
  <2>5. \A n \in 0..(m + 1) : Step(g, n) = Step(f, n)
    <3>1. ASSUME NEW n \in 0..(m + 1), n # 0 PROVE g[n - 1] = f[n - 1]
      <4>1. n - 1 \in 0..m
        BY <2>1, <3>1
      <4>2. QED
        BY <2>4, <4>1
    <3>2. QED
      BY <3>1
  <2>6. g = [n \in 0..(m + 1) |-> Step(g, n)]
    <3> HIDE DEF Step
    <3>1. QED
      BY <2>3, <2>5
  <2>7. QED
    BY <2>1, <2>6
<1>3. T = Nat
  <2>1. T \in SUBSET Nat
    OBVIOUS
  <2> HIDE DEF T
  <2>2. QED
    BY <2>1, <1>1, <1>2, SetInduction
<1>4. \E f : f = [n \in 0..Pages |-> Step(f, n)]
  BY <1>3, KmmAssumption
<1>5. Nth = CHOOSE f : f = [n \in 0..Pages |-> Step(f, n)]
  BY DEF Nth
<1>6. Nth = [n \in 0..Pages |-> Step(Nth, n)]
  <2> HIDE DEF Step
  <2>1. QED
    BY <1>4, <1>5, Zenon
<1>7. QED
  <2>1. \A n \in 0..Pages : Nth[n] = Step(Nth, n)
    <3> HIDE DEF Step
    <3>1. QED
      BY <1>6, Zenon
  <2>2. QED
    BY <2>1

\* Following the pointers from first reaches blocks of the list only, each further on
\* than the one before, so that the list ends.
LEMMA NthInList ==
    ASSUME TypeOK, NEW F \in SUBSET Page, FreeList(F), NEW i \in 0..Pages
    PROVE  Nth[i] \in F \cup {None} /\ (Nth[i] # None => Nth[i] >= i + 1)
<1> DEFINE Good(n) == Nth[n] \in F \cup {None} /\ (Nth[n] # None => Nth[n] >= n + 1)
           T == {n \in Nat : n <= Pages => Good(n)}
<1>1. /\ Pages \in Nat
      /\ \A p \in F : /\ p \in Nat /\ p >= 1 /\ hdr[p].size \in Nat /\ hdr[p].size >= 1
                      /\ hdr[p].next \in F \cup {None}
                      /\ hdr[p].next # None => p + hdr[p].size < hdr[p].next
  BY BlockFacts
<1>2. 0 \in T
  <2>1. Nth[0] = first
    BY <1>1, NthEquation
  <2>2. first \in F \cup {None}
    BY DEF FreeList, ListOK
  <2>3. QED
    BY <2>1, <2>2, <1>1
<1>3. ASSUME NEW n \in T PROVE n + 1 \in T
  <2>1. SUFFICES ASSUME n + 1 <= Pages PROVE Good(n + 1)
    OBVIOUS
  <2>2. n \in Nat /\ n + 1 \in 0..Pages /\ n + 1 # 0 /\ Good(n)
    BY <2>1, <1>1
  <2>3. Nth[n + 1] = IF Nth[n] \in Page THEN hdr[Nth[n]].next ELSE None
    <3>1. (n + 1) - 1 = n
      BY <2>2
    <3>2. QED
      BY <2>2, <3>1, NthEquation
  <2>4. CASE Nth[n] = None
    <3>1. Nth[n] \notin Page
      BY <2>4 DEF None, Page
    <3>2. QED
      BY <2>3, <3>1
  <2>5. CASE Nth[n] # None
    <3>1. Nth[n] \in F /\ Nth[n] >= n + 1 /\ Nth[n + 1] = hdr[Nth[n]].next
      BY <2>2, <2>3, <2>5
    <3>2. /\ Nth[n + 1] \in F \cup {None}
          /\ Nth[n + 1] # None => Nth[n] + hdr[Nth[n]].size < Nth[n + 1]
          /\ Nth[n] \in Nat /\ hdr[Nth[n]].size \in Nat /\ hdr[Nth[n]].size >= 1
      BY <3>1, <1>1
    <3>3. ASSUME Nth[n + 1] # None PROVE Nth[n + 1] >= (n + 1) + 1
      <4>1. Nth[n + 1] \in Nat
        BY <3>2, <3>3, <1>1
      <4>2. QED
        BY <3>1, <3>2, <3>3, <4>1, <2>2
    <3>4. QED
      BY <3>2, <3>3
  <2>6. QED
    BY <2>4, <2>5
<1>4. T = Nat
  <2>1. T \in SUBSET Nat
    OBVIOUS
  <2> HIDE DEF T
  <2>2. QED
    BY <2>1, <1>2, <1>3, SetInduction
<1>5. i \in Nat /\ i <= Pages
  BY <1>1
<1>6. QED
  BY <1>4, <1>5

LEMMA FreeBlocksInList ==
    ASSUME TypeOK, NEW F \in SUBSET Page, FreeList(F)
    PROVE  FreeBlocks \subseteq F /\ Nth[Pages] = None
<1>1. \A i \in 0..Pages : Nth[i] \in F \cup {None}
  BY NthInList
<1>2. Pages \in 0..Pages /\ Pages \in Nat
  BY KmmAssumption
<1>3. Nth[Pages] \in F \cup {None} /\ (Nth[Pages] # None => Nth[Pages] >= Pages + 1)
  BY <1>2, NthInList
<1>4. \A p \in F : p \in Nat /\ p <= Pages
  BY <1>2 DEF Page
<1>5. Nth[Pages] = None
  BY <1>2, <1>3, <1>4
<1>6. QED
  BY <1>1, <1>5 DEF FreeBlocks

\* Blocks that are apart have no page in common.
LEMMA ApartDisjoint ==
    ASSUME NEW a \in Nat, NEW m \in Nat, NEW b \in Nat, NEW n \in Nat, Apart(a, m, b, n)
    PROVE  (a .. (a + m - 1)) \cap (b .. (b + n - 1)) = {}
BY DEF Apart

\* As long as all callers ask for the same number of pages, no page is handed out
\* twice, and none that is handed out can be reached from the free list.
THEOREM PagesHandedOutOnce == Uniform => (Spec => []PagesAreExclusive)
<1>1. ASSUME Inv PROVE PagesAreExclusive
  <2>1. TypeOK
    BY <1>1 DEF Inv
  <2>2. PICK F \in SUBSET Page : FreeList(F)
    BY <1>1 DEF Inv
  <2>3. \A s \in Slot : block[s] = NoBlock => PagesOf(block[s]) = {}
    BY DEF PagesOf, NoBlock, None
  <2>4. ASSUME NEW s \in Slot, NEW u \in Slot, s # u
        PROVE  PagesOf(block[s]) \cap PagesOf(block[u]) = {}
    <3>1. CASE block[s] = NoBlock \/ block[u] = NoBlock
      BY <2>3, <3>1
    <3>2. CASE block[s] # NoBlock /\ block[u] # NoBlock
      <4>1. Apart(block[s].start, block[s].size, block[u].start, block[u].size)
        BY <2>2, <2>4, <3>2 DEF FreeList, OwnedOK
      <4>2. /\ block[s].start \in Nat /\ block[s].size \in Nat
            /\ block[u].start \in Nat /\ block[u].size \in Nat
        BY <2>1, <2>2, <3>2, BlockFacts
      <4>3. QED
        BY <4>1, <4>2, ApartDisjoint DEF PagesOf
    <3>3. QED
      BY <3>1, <3>2
  <2>5. ASSUME NEW s \in Slot, NEW p \in FreeBlocks
        PROVE  PagesOf(block[s]) \cap (p .. (p + hdr[p].size - 1)) = {}
    <3>1. p \in F
      BY <2>1, <2>2, FreeBlocksInList
    <3>2. CASE block[s] = NoBlock
      BY <2>3, <3>2
    <3>3. CASE block[s] # NoBlock
      <4>1. /\ block[s].start \in Nat /\ block[s].size \in Nat
            /\ p \in Nat /\ hdr[p].size \in Nat
            /\ Apart(block[s].start, block[s].size, p, hdr[p].size)
        BY <2>1, <2>2, <3>1, <3>3, BlockFacts
      <4>2. QED
        BY <4>1, ApartDisjoint DEF PagesOf
    <3>4. QED
      BY <3>2, <3>3
  <2>6. QED
    BY <2>4, <2>5 DEF PagesAreExclusive
<1>2. QED
  BY <1>1, FreeListKept, PTL

\* As long as all callers ask for the same number of pages, the free list ends, is
\* sorted, and free() leaves no two of its blocks touching.
THEOREM FreeListIsCoalesced == Uniform => (Spec => []ListIsCoalesced)
<1>1. ASSUME Inv PROVE ListIsCoalesced
  <2>1. TypeOK
    BY <1>1 DEF Inv
  <2>2. PICK F \in SUBSET Page : FreeList(F)
    BY <1>1 DEF Inv
  <2>3. Nth[Pages] = None /\ FreeBlocks \subseteq F
    BY <2>1, <2>2, FreeBlocksInList
  <2>4. \A p \in F : hdr[p].next # None => p + hdr[p].size < hdr[p].next
    BY <2>1, <2>2, BlockFacts
  <2>5. QED
    BY <2>3, <2>4 DEF ListIsCoalesced
<1>2. QED
  BY <1>1, FreeListKept, PTL

=============================================================================
