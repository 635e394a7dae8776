--------------------------------- MODULE Kmm --------------------------------
(***************************************************************************)
(* KMM of kernel/src/memory/kmm.rs: the allocator of physical pages.  Each *)
(* memory region keeps its free blocks in a doubly linked list, sorted by  *)
(* address, whose nodes are stored in the free pages themselves            *)
(* (MemoryBlockHeader at the start of a block).  The model is one region;  *)
(* the regions share nothing.                                              *)
(*                                                                         *)
(* A pointer is a page number and 0 is None.  The loops that follow the    *)
(* list are taken one node at a time, so that nothing is assumed of the    *)
(* shape of the list.  A header that its owner has overwritten holds       *)
(* Unsafe, a value that assert_safe refuses.                               *)
(***************************************************************************)
EXTENDS Integers, FiniteSets

CONSTANTS
    Pages,        \* number of pages of the region, whose first page is 1
    Sizes,        \* how many pages callers ask for
    MaxBlocks     \* bound on the blocks allocated at a time

ASSUME KmmAssumption ==
    /\ Pages \in Nat \ {0}
    /\ Sizes \subseteq 1..Pages
    /\ MaxBlocks \in Nat

Page == 1..Pages
None == 0
Unsafe == -1
Slot == 1..MaxBlocks

VARIABLES
    first, last,  \* RegionDesc
    hdr,          \* the MemoryBlockHeader that is read at the start of every page
    block,        \* history: what callers have been given and not freed
    op,           \* the call in progress
    panicked      \* assert_safe has refused a pointer

vars == <<first, last, hdr, block, op, panicked>>

Pointer == Page \cup {None}
Header == [size : 0..Pages, next : Pointer \cup {Unsafe}, prev : Pointer \cup {Unsafe}]
Block == [start : Pointer, size : 0..Pages]
NoBlock == [start |-> None, size |-> 0]
Idle == [kind |-> "idle", start |-> None, size |-> 0, cur |-> None, prev |-> None]

TypeOK ==
    /\ first \in Pointer /\ last \in Pointer
    /\ hdr \in [Page -> Header]
    /\ block \in [Slot -> Block]
    /\ op \in [kind : {"idle", "allocate", "free"}, start : Pointer, size : 0..Pages,
               cur : Pointer, prev : Pointer]
    /\ panicked \in BOOLEAN

\* init_region, over memory that PhysicalMemory::new has zeroed.
Init ==
    /\ first = 1 /\ last = 1
    /\ hdr = [p \in Page |-> [size |-> IF p = 1 THEN Pages ELSE 0, next |-> None, prev |-> None]]
    /\ block = [s \in Slot |-> NoBlock]
    /\ op = Idle
    /\ panicked = FALSE

\* assert_safe on the pointer p; what follows it is done when it is safe.
AssertSafe(p) == panicked' = (p = Unsafe)

-----------------------------------------------------------------------------
(* allocate_linear *)

AllocateLinear ==
    /\ op = Idle
    /\ \E s \in Slot : block[s] = NoBlock
    /\ \E n \in Sizes : op' = [Idle EXCEPT !.kind = "allocate", !.size = n, !.cur = first]
    /\ UNCHANGED <<first, last, hdr, block, panicked>>

\* The block is too small: go on to the next.
AllocateNext ==
    /\ op.kind = "allocate" /\ op.cur # None
    /\ hdr[op.cur].size < op.size
    /\ AssertSafe(hdr[op.cur].next)
    /\ op' = IF panicked' THEN op ELSE [op EXCEPT !.cur = hdr[op.cur].next]
    /\ UNCHANGED <<first, last, hdr, block>>

AllocateFail ==
    /\ op.kind = "allocate" /\ op.cur = None
    /\ op' = Idle
    /\ UNCHANGED <<first, last, hdr, block, panicked>>

\* The block goes to the caller, in the first free slot of the history.
Give(start, size) ==
    LET free == {s \in Slot : block[s] = NoBlock}
        s == CHOOSE s \in free : \A u \in free : s <= u
    IN  block' = [block EXCEPT ![s] = [start |-> start, size |-> size]]

\* Fault: the first block of the list stays where it was.
AllocateFitKeepsFirst ==
    /\ op.kind = "allocate" /\ op.cur # None
    /\ hdr[op.cur].size >= op.size
    /\ LET rem == hdr[op.cur].size - op.size
           new == IF rem > 0 THEN op.cur + op.size ELSE None
       IN  /\ hdr' = IF rem > 0 THEN [hdr EXCEPT ![new] = [hdr[op.cur] EXCEPT !.size = rem]]
                                ELSE hdr
           /\ last' = IF last = op.cur THEN new ELSE last
    /\ Give(op.cur, op.size)
    /\ op' = Idle
    /\ UNCHANGED <<first, panicked>>

\* Fault: what remains of the block keeps the block's size.
AllocateFitSameSize ==
    /\ op.kind = "allocate" /\ op.cur # None
    /\ hdr[op.cur].size >= op.size
    /\ LET new == op.cur + op.size
       IN  /\ hdr' = [hdr EXCEPT ![new] = hdr[op.cur]]
           /\ first' = IF first = op.cur THEN new ELSE first
           /\ last' = IF last = op.cur THEN new ELSE last
    /\ Give(op.cur, op.size)
    /\ op' = Idle
    /\ UNCHANGED panicked

\* The front of the block is given away.  What remains becomes a block with the
\* same neighbours; the neighbours' own pointers are left as they are.
AllocateFit ==
    /\ op.kind = "allocate" /\ op.cur # None
    /\ hdr[op.cur].size >= op.size
    /\ LET rem == hdr[op.cur].size - op.size
           new == IF rem > 0 THEN op.cur + op.size ELSE None
       IN  /\ hdr' = IF rem > 0 THEN [hdr EXCEPT ![new] = [hdr[op.cur] EXCEPT !.size = rem]]
                                ELSE hdr
           /\ first' = IF first = op.cur THEN new ELSE first
           /\ last' = IF last = op.cur THEN new ELSE last
    /\ Give(op.cur, op.size)
    /\ op' = Idle
    /\ UNCHANGED panicked

-----------------------------------------------------------------------------
(* free *)

\* A caller gives back what it was given.  (free takes the address, allocate_linear
\* returns the page number; the conversion is the caller's.)
Free ==
    /\ op = Idle
    /\ \E s \in Slot :
          /\ block[s] # NoBlock
          /\ block' = [block EXCEPT ![s] = NoBlock]
          /\ op' = [kind |-> "free", start |-> block[s].start, size |-> block[s].size,
                    cur |-> first, prev |-> None]
    /\ UNCHANGED <<first, last, hdr, panicked>>

\* find_insertion_point goes on while the block is not past the address.
FindNext ==
    /\ op.kind = "free" /\ op.cur # None /\ op.cur <= op.start
    /\ AssertSafe(hdr[op.cur].next)
    /\ op' = IF panicked' THEN op ELSE [op EXCEPT !.prev = op.cur, !.cur = hdr[op.cur].next]
    /\ UNCHANGED <<first, last, hdr, block>>

\* The headers, and last, after the new block was linked between prev and next
\* (BlockInsertionPoint::First when there is no prev: next's own prev is not set).
Linked(p, size, prev, next) ==
    LET new == [size |-> size, next |-> IF prev = None THEN first ELSE next, prev |-> prev]
        back == IF prev = None THEN hdr ELSE [hdr EXCEPT ![prev].next = p]
        both == IF prev = None \/ next = None THEN back ELSE [back EXCEPT ![next].prev = p]
    IN  [hdr |-> [both EXCEPT ![p] = new],
         last |-> IF (prev = None /\ last = None) \/ (prev # None /\ next = None) THEN p ELSE last]

\* merge_right: block p swallows its successor when that starts where p ends.
MergeRight(l, p) ==
    LET cur == l.hdr[p]
        end == p + cur.size
        next == l.hdr[end]
        merged == [l.hdr EXCEPT ![p] = [@ EXCEPT !.size = cur.size + next.size, !.next = next.next]]
    IN  IF cur.next = None \/ cur.next # end THEN l
        ELSE IF next.next = None THEN [hdr |-> merged, last |-> p]
        ELSE [hdr |-> [merged EXCEPT ![next.next].prev = p], last |-> l.last]

\* Fault: the predecessor is not tried.
CoalesceRight(l, p) == MergeRight(l, p)

\* coalesce: first with the successor, then the predecessor with the result.
Coalesce(l, p) ==
    LET right == MergeRight(l, p)
    IN  IF right.hdr[p].prev = None THEN right ELSE MergeRight(right, right.hdr[p].prev)

FreeInsert ==
    /\ op.kind = "free" /\ (op.cur = None \/ op.cur > op.start)
    /\ LET l == Coalesce(Linked(op.start, op.size, op.prev, op.cur), op.start)
       IN  hdr' = l.hdr /\ last' = l.last /\ AssertSafe(l.hdr[op.start].next)
    /\ first' = IF op.prev = None THEN op.start ELSE first
    /\ op' = Idle
    /\ UNCHANGED block

-----------------------------------------------------------------------------

\* A caller writes to a page it was given (external: the owner of the memory).
OwnerWrites ==
    /\ op = Idle
    /\ \E s \in Slot : \E p \in block[s].start .. (block[s].start + block[s].size - 1) :
          hdr' = [hdr EXCEPT ![p] = [size |-> 0, next |-> Unsafe, prev |-> Unsafe]]
    /\ UNCHANGED <<first, last, block, op, panicked>>

Next ==
    /\ ~panicked
    /\ \/ AllocateLinear \/ AllocateNext \/ AllocateFail \/ AllocateFit
       \/ Free \/ FindNext \/ FreeInsert
       \/ OwnerWrites

Spec == Init /\ [][Next]_vars

-----------------------------------------------------------------------------
(* Properties *)

\* assert_safe's "Unsafe data detected" is never reached: the list only leads
\* through pages that are free.
SafeData == ~panicked

PagesOf(b) == b.start .. (b.start + b.size - 1)

\* The n-th block of the free list.
Nth[n \in 0..Pages] ==
    IF n = 0 THEN first
    ELSE IF Nth[n - 1] \in Page THEN hdr[Nth[n - 1]].next ELSE None

FreeBlocks == {Nth[n] : n \in 0..Pages} \ {None}

\* No page is handed out twice, and none that is handed out can be reached from
\* the free list.
PagesAreExclusive ==
    /\ \A s, u \in Slot : s # u => PagesOf(block[s]) \cap PagesOf(block[u]) = {}
    /\ op = Idle => \A s \in Slot, p \in FreeBlocks :
                       PagesOf(block[s]) \cap (p .. (p + hdr[p].size - 1)) = {}

\* The free list ends, is sorted, and no two of its blocks touch: free() merges
\* a block with both of its neighbours.
ListIsCoalesced ==
    op = Idle =>
        /\ Nth[Pages] = None
        /\ \A p \in FreeBlocks : hdr[p].next # None => p + hdr[p].size < hdr[p].next

=============================================================================
