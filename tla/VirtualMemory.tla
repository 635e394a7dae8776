--------------------------- MODULE VirtualMemory ---------------------------
(***************************************************************************)
(* Paged memory: VirtualMemory (kernel/src/memory/virt.rs) over the page   *)
(* slices it is given (page_slice.rs; a PhysicalMemory hands out slices of *)
(* its pages).  The emulator maps its FCRAM at 0x20000000 this way, and    *)
(* the physical memory manager keeps its headers there.                    *)
(*                                                                         *)
(* An access goes through the spans it touches, one per step.  A backing   *)
(* is named by its number of pages.                                        *)
(***************************************************************************)
EXTENDS Integers, Sequences

CONSTANTS
    PageSize,   \* bytes in a page, 0x1000 in the code
    Backing,    \* the slices of pages that may be mapped
    MaxPage,    \* bound on the page numbers used
    MaxLength,  \* bound on the length of an access
    Byte        \* what a byte of memory may hold; it begins with 0

VARIABLES
    pages,   \* VirtualMemory.pages: first page -> backing
    bytes,   \* the bytes of every backing
    access,  \* the access under way: its kind, place, and what is still to do
    panic,   \* the panic that ended the emulator, or "none"
    flat     \* what was last written at every address, for the properties

vars == <<pages, bytes, access, panic, flat>>

Address == 0..(MaxPage + 1) * PageSize - 1
NoAccess == [kind |-> "none"]

\* PhysicalMemory::new clears its pages.
Init ==
    /\ pages = <<>>
    /\ bytes = [b \in Backing |-> [i \in 0..b * PageSize - 1 |-> 0]]
    /\ access = NoAccess
    /\ panic = "none"
    /\ flat = [a \in Address |-> 0]

-----------------------------------------------------------------------------

\* The pages that a backing mapped at page p takes.
Span(p, b) == p..p + b - 1

\* map_memory; the emulator maps every slice once and to pages that are free.
MapMemory(p, b) ==
    /\ access = NoAccess
    /\ Span(p, b) \subseteq 0..MaxPage
    /\ \A q \in DOMAIN pages : pages[q] # b /\ Span(q, pages[q]) \cap Span(p, b) = {}
    /\ pages' = [q \in DOMAIN pages \cup {p} |-> IF q = p THEN b ELSE pages[q]]
    /\ UNCHANGED <<bytes, access, panic, flat>>

\* lookup: the last span that begins at or before the page, if it reaches that far.
Before(page) == {q \in DOMAIN pages : q <= page}
LastBefore(page) == CHOOSE q \in Before(page) : \A r \in Before(page) : r <= q
Mapped(page) == Before(page) # {} /\ LastBefore(page) + pages[LastBefore(page)] > page

\* The head of read and write; page_offset is the place in the first page.
Begin(kind, addr, data) ==
    /\ access = NoAccess
    /\ access' = [kind |-> kind, start |-> addr, addr |-> addr, data |-> data, done |-> 0,
                  pageOffset |-> addr % PageSize]
    /\ UNCHANGED <<pages, bytes, panic>>

BeginRead(addr, n) == Begin("read", addr, [i \in 1..n |-> 0]) /\ UNCHANGED flat

BeginWrite(addr, data) ==
    /\ Begin("write", addr, data)
    /\ flat' = [a \in Address |-> IF a - addr + 1 \in 1..Len(data) THEN data[a - addr + 1]
                                                                 ELSE flat[a]]

\* One turn of the loop of read or write, on the span q that has the page.
Remaining == Len(access.data) - access.done
Page == access.addr \div PageSize

Amount(q) ==
    LET itemBytes == (pages[q] - (Page - q)) * PageSize - access.pageOffset
    IN  IF itemBytes > Remaining THEN Remaining ELSE itemBytes

Advance(n, data) ==
    access' = [access EXCEPT !.addr = @ + n, !.done = @ + n, !.pageOffset = 0, !.data = data]

\* PageSlice slices its bytes before it copies, which panics beyond their end.
Fits(b, offset, n) == offset + n <= b * PageSize

ReadSpan ==
    /\ access.kind = "read" /\ Remaining > 0 /\ Mapped(Page)
    /\ LET q == LastBefore(Page)
           n == Amount(q)
       IN  IF Fits(pages[q], access.addr, n)
           THEN /\ Advance(n, [i \in 1..Len(access.data) |->
                       IF i \in access.done + 1..access.done + n
                       THEN bytes[pages[q]][access.addr + i - access.done - 1]
                       ELSE access.data[i]])
                /\ UNCHANGED panic
           ELSE panic' = "out of range" /\ UNCHANGED access
    /\ UNCHANGED <<pages, bytes, flat>>

WriteSpan ==
    /\ access.kind = "write" /\ Remaining > 0 /\ Mapped(Page)
    /\ LET q      == LastBefore(Page)
           n      == Amount(q)
           offset == (Page - q) * PageSize + (access.addr % PageSize)
       IN  IF Fits(pages[q], offset, n)
           THEN /\ bytes' = [bytes EXCEPT ![pages[q]] = [i \in DOMAIN @ |->
                       IF i \in offset..offset + n - 1
                       THEN access.data[access.done + 1 + i - offset] ELSE @[i]]]
                /\ Advance(n, access.data)
                /\ UNCHANGED panic
           ELSE panic' = "out of range" /\ UNCHANGED <<bytes, access>>
    /\ UNCHANGED <<pages, flat>>

\* expect("Unmapped memory read"), of reads and writes.
Unmapped ==
    /\ access.kind # "none" /\ Remaining > 0 /\ ~Mapped(Page)
    /\ panic' = "unmapped"
    /\ UNCHANGED <<pages, bytes, access, flat>>

Return ==
    /\ access.kind # "none" /\ Remaining = 0
    /\ access' = NoAccess
    /\ UNCHANGED <<pages, bytes, panic, flat>>

-----------------------------------------------------------------------------

Next ==
    /\ panic = "none"
    /\ \/ \E p \in 0..MaxPage, b \in Backing : MapMemory(p, b)
       \/ \E addr \in Address, n \in 0..MaxLength :
             /\ addr + n - 1 \in Address
             /\ BeginRead(addr, n) \/ \E data \in [1..n -> Byte] : BeginWrite(addr, data)
       \/ ReadSpan \/ WriteSpan \/ Unmapped \/ Return

Spec == Init /\ [][Next]_vars

-----------------------------------------------------------------------------
(* Properties *)

\* A read returns what was last written at each of its addresses, and as the text of
\* its expect() says ("Unmapped memory read") it fails only where nothing is mapped.
ReadsSeeWrites ==
    /\ panic # "out of range"
    /\ access.kind = "read" /\ Remaining = 0 =>
          \A i \in 1..Len(access.data) : access.data[i] = flat[access.start + i - 1]

=============================================================================
