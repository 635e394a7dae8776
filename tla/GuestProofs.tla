----------------------------- MODULE GuestProofs ----------------------------
(***************************************************************************)
(* Proofs about Guest: the types, the threads' storage, the answers and    *)
(* the results of system calls, for every number of threads.               *)
(***************************************************************************)
EXTENDS GuestInvariant, TLAPS

CommonThreads ==
    [state : {"Absent", "Ready", "Running", "Waiting", "Done"},
     call : WaitCall \cup {"none"}, resume : ThreadResume]
ProcessTLS == [free : Seq(Slot), nextOffset : 0..255]

-----------------------------------------------------------------------------
(* Thread-local storage *)

\* q is the free slots of page o; f the first k slots of q; and p a ProcessTLS with
\* g pages and m free slots.
IsPage(q, o) ==
    /\ q \in Seq(Slot)
    /\ Len(q) = 8
    /\ \A i \in 1..8 : q[i] = ((o * 8) % 256) + (8 - i)
AreFirst(f, k, q) ==
    /\ f \in Seq(Slot)
    /\ Len(f) = k
    /\ \A i \in 1..k : f[i] = q[i]
HasPages(p, g, m) ==
    /\ p \in ProcessTLS
    /\ p.nextOffset = g % 256
    /\ p.free \in Seq(Slot)
    /\ Len(p.free) = m
    /\ \A i \in 1..m : p.free[i] = (((g - 1) * 8) % 256) + (8 - i)

\* The slots of a page are slots.
LEMMA PageType ==
    ASSUME NEW o \in Nat
    PROVE  IsPage(NewPage(o), o)
<1>1. (o * 8) % 256 \in 0..248
    OBVIOUS
<1>2. NewPage(o) = [i \in 1..8 |-> ((o * 8) % 256) + (8 - i)]
    BY DEF NewPage
<1> DEFINE b == (o * 8) % 256
<1>3. \A i \in 1..8 : b + (8 - i) \in Slot
    BY <1>1 DEF Slot
<1> QED
    BY <1>2, <1>3 DEF IsPage

\* Taking a slot leaves a ProcessTLS.
LEMMA TakeSlotTypes ==
    ASSUME NEW p \in ProcessTLS
    PROVE  /\ Refill(p) \in ProcessTLS
           /\ Refill(p).free # <<>>
           /\ TlsSlot(p) \in Slot
           /\ TlsRest(p) \in ProcessTLS
           /\ TlsRest(p).free = SubSeq(Refill(p).free, 1, Len(Refill(p).free) - 1)
           /\ TlsRest(p).nextOffset = Refill(p).nextOffset
<1> DEFINE r == Refill(p)
<1>0. p.nextOffset \in 0..255
    BY DEF ProcessTLS
<1>1. p.nextOffset \in 0..255 /\ p.nextOffset \in Nat
    BY <1>0
<1>2. NewPage(p.nextOffset) \in Seq(Slot) /\ Len(NewPage(p.nextOffset)) = 8
    <2>1. IsPage(NewPage(p.nextOffset), p.nextOffset)
        BY <1>1, PageType
    <2> QED
        BY <2>1 DEF IsPage
<1>3. NewPage(p.nextOffset) # <<>>
    <2>1. Len(<<>>) # 8
        OBVIOUS
    <2> QED
        BY <1>2, <2>1
<1>4. (p.nextOffset + 1) % 256 \in 0..255
    BY <1>1
<1>5. r \in ProcessTLS /\ r.free # <<>>
    BY <1>2, <1>3, <1>4 DEF Refill, ProcessTLS
<1> HIDE DEF r
<1>6. r.free \in Seq(Slot)
    BY <1>5 DEF ProcessTLS
<1>7. Len(r.free) \in 1..Len(r.free) /\ Len(r.free) - 1 \in 0..Len(r.free)
    BY <1>5, <1>6
<1>8. r.free[Len(r.free)] \in Slot
    BY <1>6, <1>7
<1>9. SubSeq(r.free, 1, Len(r.free) - 1) \in Seq(Slot)
    BY <1>6, <1>7
<1>10. TlsRest(p) = [r EXCEPT !.free = SubSeq(@, 1, Len(@) - 1)]
    BY DEF TlsRest, r
<1>11. TlsSlot(p) = r.free[Len(r.free)]
    BY DEF TlsSlot, r
<1>12. TlsRest(p) = [r EXCEPT !.free = SubSeq(r.free, 1, Len(r.free) - 1)]
    BY <1>5, <1>10 DEF ProcessTLS
<1>13. /\ TlsRest(p) \in ProcessTLS
       /\ TlsRest(p).free = SubSeq(r.free, 1, Len(r.free) - 1)
       /\ TlsRest(p).nextOffset = r.nextOffset
    BY <1>5, <1>9, <1>12 DEF ProcessTLS
<1> QED
    BY <1>5, <1>8, <1>11, <1>13 DEF r

\* A ProcessTLS is its two fields.
LEMMA SameTls ==
    ASSUME NEW p \in ProcessTLS, NEW r \in ProcessTLS, p.free = r.free, p.nextOffset = r.nextOffset
    PROVE  p = r
BY DEF ProcessTLS

\* The first k elements of a sequence.
LEMMA FirstOnes ==
    ASSUME NEW q \in Seq(Slot), NEW k \in Nat, k <= Len(q)
    PROVE  AreFirst(SubSeq(q, 1, k), k, q)
<1>1. SubSeq(q, 1, k) \in Seq(Slot)
    OBVIOUS
<1>2. Len(SubSeq(q, 1, k)) = k
    OBVIOUS
<1> QED
    BY <1>1, <1>2 DEF AreFirst

\* ProcessTLS after n threads, on g pages with m free slots.
LEMMA TlsAfterTypes ==
    ASSUME NEW n \in Nat \ {0}, NEW g \in Nat, NEW m \in Nat,
           g = (n + 7) \div 8, m = 8 * g - n
    PROVE  HasPages(TlsAfter(n), g, m)
<1>1. m \in 0..7 /\ g - 1 \in Nat
    OBVIOUS
<1>2. PICK q : q = NewPage(g - 1)
    OBVIOUS
<1>3. q \in Seq(Slot) /\ Len(q) = 8 /\ \A i \in 1..8 : q[i] = (((g - 1) * 8) % 256) + (8 - i)
    <2>1. IsPage(q, g - 1)
        BY <1>1, <1>2, PageType
    <2> QED
        BY <2>1 DEF IsPage
<1>4. /\ SubSeq(q, 1, m) \in Seq(Slot)
      /\ Len(SubSeq(q, 1, m)) = m
      /\ \A i \in 1..m : SubSeq(q, 1, m)[i] = q[i]
    <2>1. m <= Len(q)
        BY <1>1, <1>3
    <2>2. AreFirst(SubSeq(q, 1, m), m, q)
        BY <1>3, <2>1, FirstOnes
    <2> QED
        BY <2>2 DEF AreFirst
<1>5. g % 256 \in 0..255
    OBVIOUS
<1>6. TlsAfter(n) = [free |-> SubSeq(q, 1, m), nextOffset |-> g % 256]
    BY <1>2 DEF TlsAfter
<1>7. TlsAfter(n) \in ProcessTLS
    BY <1>4, <1>5, <1>6 DEF ProcessTLS
<1>8. TlsAfter(n).free = SubSeq(q, 1, m) /\ TlsAfter(n).nextOffset = g % 256
    BY <1>6
<1>9. \A i \in 1..m : SubSeq(q, 1, m)[i] = (((g - 1) * 8) % 256) + (8 - i)
    BY <1>1, <1>3, <1>4
<1> QED
    BY <1>4, <1>7, <1>8, <1>9 DEF HasPages

\* Two sequences with the same elements are the same.
LEMMA SameSequence ==
    ASSUME NEW S, NEW q \in Seq(S), NEW r \in Seq(S), Len(q) = Len(r),
           \A i \in 1..Len(q) : q[i] = r[i]
    PROVE  q = r
OBVIOUS

\* While a process has had at most 255 threads, allocate_tls gives the next one the
\* slot with the number of the threads before it.
LEMMA NextSlot ==
    ASSUME NEW n \in 1..255
    PROVE  TlsSlot(TlsAfter(n)) = n /\ TlsRest(TlsAfter(n)) = TlsAfter(n + 1)
<1>1. PICK g \in Nat : g = (n + 7) \div 8 /\ 8 * g - n \in 0..7 /\ g \in 1..32
    OBVIOUS
<1>2. PICK m \in 0..7 : m = 8 * g - n
    BY <1>1
<1>3. PICK p : p = TlsAfter(n)
    OBVIOUS
<1>4. /\ p \in ProcessTLS
      /\ p.nextOffset = g % 256
      /\ p.free \in Seq(Slot)
      /\ Len(p.free) = m
      /\ \A i \in 1..m : p.free[i] = (((g - 1) * 8) % 256) + (8 - i)
    <2>1. n \in Nat \ {0} /\ m \in Nat
        OBVIOUS
    <2>2. HasPages(p, g, m)
        BY <1>1, <1>2, <1>3, <2>1, TlsAfterTypes
    <2> QED
        BY <2>2 DEF HasPages
<1>5. p.free \in Seq(Slot)
    BY <1>4
<1>6. g % 256 = g /\ ((g - 1) * 8) % 256 = (g - 1) * 8
    BY <1>1
<1>7. PICK p2 : p2 = TlsAfter(n + 1)
    OBVIOUS
<1>8. n + 1 \in Nat \ {0}
    OBVIOUS
<1>9. PICK g2 \in Nat : g2 = (n + 8) \div 8 /\ g2 = (n + 1 + 7) \div 8 /\ 8 * g2 - (n + 1) \in Nat
    OBVIOUS
<1>10. PICK m2 \in Nat : m2 = 8 * g2 - (n + 1)
    BY <1>9
<1>11. /\ p2 \in ProcessTLS
       /\ p2.nextOffset = g2 % 256
       /\ p2.free \in Seq(Slot)
       /\ Len(p2.free) = m2
       /\ \A i \in 1..m2 : p2.free[i] = (((g2 - 1) * 8) % 256) + (8 - i)
    <2>1. HasPages(p2, g2, m2)
        BY <1>7, <1>8, <1>9, <1>10, TlsAfterTypes
    <2> QED
        BY <2>1 DEF HasPages
<1>12. /\ TlsSlot(p) = Refill(p).free[Len(Refill(p).free)]
       /\ TlsRest(p) \in ProcessTLS
       /\ TlsRest(p).free = SubSeq(Refill(p).free, 1, Len(Refill(p).free) - 1)
       /\ TlsRest(p).nextOffset = Refill(p).nextOffset
    BY <1>4, TakeSlotTypes DEF TlsSlot
<1>13. ASSUME NEW f \in Seq(Slot), TlsRest(p).nextOffset = p2.nextOffset,
              TlsRest(p).free = f, Len(f) = m2,
              \A i \in 1..m2 : f[i] = p2.free[i]
       PROVE  TlsRest(p) = p2
    <2>1. f = p2.free
        BY <1>11, <1>13, SameSequence
    <2> QED
        BY <1>11, <1>12, <1>13, <2>1, SameTls
<1>14. CASE m > 0
    <2>1. g2 = g
        BY <1>1, <1>2, <1>9, <1>14
    <2>2. p.free # <<>>
        <3>1. Len(<<>>) = 0
            OBVIOUS
        <3> QED
            BY <1>4, <1>14, <3>1
    <2>3. Refill(p) = p
        BY <2>2 DEF Refill
    <2>4. m \in 1..m /\ p.free[m] = n
        BY <1>1, <1>2, <1>4, <1>6, <1>14
    <2>5. TlsSlot(p) = n
        BY <1>4, <1>12, <2>3, <2>4
    <2>6. m2 = m - 1 /\ m2 <= Len(p.free)
        BY <1>1, <1>2, <1>4, <1>10, <1>14, <2>1
    <2>7. TlsRest(p).free = SubSeq(p.free, 1, m2)
        BY <1>4, <1>12, <2>3, <2>6
    <2>8. PICK f : f = SubSeq(p.free, 1, m2)
        OBVIOUS
    <2>9. f \in Seq(Slot) /\ Len(f) = m2 /\ \A i \in 1..m2 : f[i] = p.free[i]
        <3>1. AreFirst(f, m2, p.free)
            BY <1>5, <2>6, <2>8, FirstOnes
        <3> QED
            BY <3>1 DEF AreFirst
    <2>10. \A i \in 1..m2 : p.free[i] = p2.free[i]
        BY <1>4, <1>11, <2>1, <2>6
    <2>11. TlsRest(p).nextOffset = p2.nextOffset
        BY <1>4, <1>11, <1>12, <2>1, <2>3
    <2>12. TlsRest(p) = p2
        BY <1>13, <2>7, <2>8, <2>9, <2>10, <2>11
    <2> QED
        BY <1>3, <1>7, <2>5, <2>12
<1>15. CASE m = 0
    <2>1. g2 = g + 1 /\ n = 8 * g /\ g <= 31 /\ g2 % 256 = g + 1
        BY <1>1, <1>2, <1>9, <1>15
    <2>2. p.free = <<>>
        BY <1>4, <1>5, <1>15
    <2>3. PICK q : q = NewPage(g)
        OBVIOUS
    <2>4. Refill(p) = [free |-> q, nextOffset |-> (g + 1) % 256]
        BY <1>4, <1>6, <2>2, <2>3 DEF Refill
    <2>5. Refill(p).free = q /\ Refill(p).nextOffset = (g + 1) % 256
        BY <2>4
    <2>6. q \in Seq(Slot) /\ Len(q) = 8 /\ \A i \in 1..8 : q[i] = ((g * 8) % 256) + (8 - i)
        <3>1. IsPage(q, g)
            BY <2>3, PageType
        <3> QED
            BY <3>1 DEF IsPage
    <2>7. (g * 8) % 256 = n
        BY <2>1
    <2>8. TlsSlot(p) = n
        <3>1. TlsSlot(p) = q[8]
            BY <1>12, <2>5, <2>6
        <3>2. q[8] = ((g * 8) % 256) + (8 - 8)
            BY <2>6
        <3> QED
            BY <2>7, <3>1, <3>2
    <2>9. TlsRest(p).free = SubSeq(q, 1, 7)
        <3>1. 8 - 1 = 7
            OBVIOUS
        <3> QED
            BY <1>12, <2>5, <2>6, <3>1
    <2>10. m2 = 7 /\ ((g2 - 1) * 8) % 256 = (g * 8) % 256
        BY <1>10, <2>1
    <2>11. PICK f : f = SubSeq(q, 1, 7)
        OBVIOUS
    <2>12. f \in Seq(Slot) /\ Len(f) = 7 /\ \A i \in 1..7 : f[i] = q[i]
        <3>1. 7 \in Nat /\ 7 <= Len(q)
            BY <2>6
        <3>2. AreFirst(f, 7, q)
            BY <2>6, <2>11, <3>1, FirstOnes
        <3> QED
            BY <3>2 DEF AreFirst
    <2>13. \A i \in 1..m2 : f[i] = p2.free[i]
        <3> SUFFICES ASSUME NEW i \in 1..7
                     PROVE  f[i] = p2.free[i]
            BY <2>10
        <3>1. i \in 1..8 /\ i \in 1..m2
            BY <2>10
        <3>2. p2.free[i] = (((g2 - 1) * 8) % 256) + (8 - i)
            BY <1>11, <3>1, Zenon
        <3>3. q[i] = ((g * 8) % 256) + (8 - i)
            BY <2>6, <3>1, Zenon
        <3> QED
            BY <2>10, <2>12, <3>2, <3>3, Zenon
    <2>14. TlsRest(p).nextOffset = p2.nextOffset
        BY <1>11, <1>12, <2>1, <2>5
    <2>15. TlsRest(p) = p2
        BY <1>13, <2>9, <2>10, <2>11, <2>12, <2>13, <2>14
    <2> QED
        BY <1>3, <1>7, <2>8, <2>15
<1> QED
    BY <1>14, <1>15

\* The first slot of a process.
LEMMA FirstSlot == TlsSlot(NoTls) = 0
<1>1. NoTls.free = <<>> /\ NoTls.nextOffset = 0
    BY DEF NoTls
<1>2. Refill(NoTls).free = NewPage(0)
    BY <1>1 DEF Refill
<1>3. Len(NewPage(0)) = 8 /\ NewPage(0)[8] = ((0 * 8) % 256) + (8 - 8)
    <2>1. IsPage(NewPage(0), 0)
        BY PageType
    <2> QED
        BY <2>1 DEF IsPage
<1>4. TlsSlot(NoTls) = NewPage(0)[8]
    BY <1>2, <1>3 DEF TlsSlot
<1> QED
    BY <1>3, <1>4

-----------------------------------------------------------------------------
(* The machine, the slice and the types *)

USE GuestAssumption, EntryAssumption

\* The messages of the program and of the other processes.
LEMMA MessageTypes ==
    /\ Blank \in Messages
    /\ \A m \in Messages : Response(m) \in Messages
    /\ \A t \in Thread \cup {NoThread}, n \in Nat : Message("request", t, n) \in Messages
<1>1. \A t \in Thread \cup {NoThread}, n \in Nat : Message("request", t, n) \in Messages
    BY DEF Message, Messages
<1>2. Blank \in Messages
    BY DEF Blank, Message, Messages
<1>3. ASSUME NEW m \in Messages
      PROVE  Response(m) \in Messages
    BY DEF Response, Messages
<1> QED
    BY <1>1, <1>2, <1>3

\* The registers that handle_resume leaves: prev and sp are the thread's.
LEMMA DeliverTypes ==
    ASSUME NEW regs \in Registers, NEW resume \in ThreadResume
    PROVE  /\ Deliver(regs, resume) \in Registers
           /\ Deliver(regs, resume).prev = regs.prev
           /\ Deliver(regs, resume).sp = regs.sp
<1>1. 0 \in AHandle..1 /\ 1 \in AHandle..1 /\ "timeout" \in Result
    BY DEF AHandle, Result
<1>2. CASE resume = "Normal"
    BY <1>2 DEF Deliver
<1>3. CASE resume = "TimeoutReached"
    BY <1>1, <1>3 DEF Deliver, Registers
<1>4. CASE resume = "Index0"
    BY <1>1, <1>4 DEF Deliver, Registers
<1>5. CASE resume = "Index1"
    BY <1>1, <1>5 DEF Deliver, Registers
<1> QED
    BY <1>2, <1>3, <1>4, <1>5 DEF ThreadResume

\* The registers of a new thread.
LEMMA NewContextTypes ==
    ASSUME NEW t \in Thread, NEW word \in EntryWords
    PROVE  NewContext(t, word) \in Registers /\ NewContext(t, word).sp = t
<1>1. 0 \in AHandle..1 /\ "arg" \in Result
    BY DEF AHandle, Result
<1> QED
    BY <1>1 DEF NewContext, Registers

\* The types by component, with thread, storage and registers spelled out.
LEMMA BaseTypes ==
    ASSUME Base
    PROVE  /\ thr \in [Thread -> CommonThreads]
           /\ ipcData \in [Thread -> Messages]
           /\ requests \in Seq(Messages)
           /\ saved \in [Thread -> Registers]
           /\ slot \in [Thread -> Slot \cup {NoSlot}]
           /\ tls \in ProcessTLS
           /\ DOMAIN command \subseteq Slot /\ \A s \in DOMAIN command : command[s] \in Messages
           /\ cpu \in Registers
           /\ cpuTls \in Slot
           /\ ranSvc \in BOOLEAN /\ halted \in BOOLEAN
           /\ current \in Thread \cup {NoThread}
           /\ outcome \in [Thread -> ThreadResume \cup {"none", "ok", "error"}]
           /\ written \in [Thread -> 0..MaxCommands]
           /\ whole \in [Thread -> BOOLEAN]
           /\ asked \in [Thread -> Messages]
           /\ owes \in BOOLEAN
BY DEF Base, TypesOK, TypeOK, CommonThreads, ProcessTLS

\* The converse, for the state after a step.
LEMMA TypesNext ==
    ASSUME thr' \in [Thread -> CommonThreads],
           ipcData' \in [Thread -> Messages],
           requests' \in Seq(Messages),
           saved' \in [Thread -> Registers],
           slot' \in [Thread -> Slot \cup {NoSlot}],
           tls' \in ProcessTLS,
           DOMAIN command' \subseteq Slot, \A s \in DOMAIN command' : command'[s] \in Messages,
           cpu' \in Registers,
           cpuTls' \in Slot,
           ranSvc' \in BOOLEAN, halted' \in BOOLEAN,
           current' \in Thread \cup {NoThread},
           panic' \in {"none", "unreachable"},
           outcome' \in [Thread -> ThreadResume \cup {"none", "ok", "error"}],
           written' \in [Thread -> 0..MaxCommands],
           whole' \in [Thread -> BOOLEAN],
           asked' \in [Thread -> Messages],
           owes' \in BOOLEAN
    PROVE  TypesOK'
<1>1. tls'.free \in Seq(Slot) /\ tls'.nextOffset \in 0..255
    BY DEF ProcessTLS
<1> QED
    BY <1>1 DEF TypesOK, TypeOK, CommonThreads, ProcessTLS

\* The initial states.
LEMMA InitBase == ASSUME Init PROVE Base
<1>1. Main \in Thread
    BY DEF Main, Thread
<1>2. TlsSlot(NoTls) = 0 /\ 0 \in Slot
    BY FirstSlot DEF Slot
<1>3. thr \in [Thread -> CommonThreads] /\ \A t \in Thread : thr[t].state \in {"Absent", "Ready"}
    BY DEF Init, NewThread, CommonThreads, ThreadResume
<1>4. saved \in [Thread -> Registers] /\ \A t \in Thread : saved[t].sp = t
    <2>1. PICK word \in EntryWords : saved = [t \in Thread |-> NewContext(t, word)]
        BY DEF Init
    <2> QED
        BY <2>1, NewContextTypes
<1>5. cpu \in Registers
    <2>1. 0 \in AHandle..1 /\ "arg" \in Result
        BY DEF AHandle, Result
    <2> QED
        BY <1>1, <2>1 DEF Init, NewContext, Registers
<1>6. tls \in ProcessTLS /\ ranSvc \in BOOLEAN
    <2>1. PICK n \in Departed : tls = TlsAfter(n + 1) /\ ranSvc = (n > 0)
        BY DEF Init
    <2>2. n \in Nat
        OBVIOUS
    <2>3. PICK g \in Nat, m \in Nat : g = (n + 1 + 7) \div 8 /\ m = 8 * g - (n + 1)
        BY <2>2
    <2>4. n + 1 \in Nat \ {0}
        BY <2>2
    <2>5. HasPages(tls, g, m)
        BY <2>1, <2>3, <2>4, TlsAfterTypes
    <2> QED
        BY <2>1, <2>5 DEF HasPages
<1>7. DOMAIN command = {0} /\ \A s \in DOMAIN command : command[s] \in Messages
    BY <1>2, MessageTypes DEF Init
<1>8. /\ slot \in [Thread -> Slot \cup {NoSlot}]
      /\ slot[Main] = 0
    BY <1>1, <1>2 DEF Init
<1>9. /\ ipcData \in [Thread -> Messages]
      /\ asked \in [Thread -> Messages]
      /\ written \in [Thread -> 0..MaxCommands]
      /\ outcome \in [Thread -> ThreadResume \cup {"none", "ok", "error"}]
      /\ whole \in [Thread -> BOOLEAN]
    BY MessageTypes DEF Init
<1>10. TypesOK
    <2>1. tls.free \in Seq(Slot) /\ tls.nextOffset \in 0..255
        BY <1>6 DEF ProcessTLS
    <2>2. requests \in Seq(Messages)
        BY DEF Init
    <2>3. cpuTls \in Slot /\ current \in Thread \cup {NoThread} /\ halted \in BOOLEAN
          /\ owes \in BOOLEAN /\ panic \in {"none", "unreachable"}
        BY <1>2 DEF Init
    <2> QED
        BY <1>2, <1>3, <1>4, <1>5, <1>6, <1>7, <1>8, <1>9, <2>1, <2>2, <2>3
           DEF TypesOK, TypeOK, CommonThreads, ProcessTLS
<1>11. SliceOK
    BY <1>3 DEF SliceOK, Init
<1>12. StorageOK
    <2>1. \A t \in Thread : thr[t].state # "Absent" => t = Main
        BY DEF Init, NewThread
    <2> QED
        BY <1>2, <1>4, <1>7, <1>8, <2>1 DEF StorageOK
<1> QED
    BY <1>10, <1>11, <1>12 DEF Base, OwesOK, Init

\* Constants of the machine's registers.
LEMMA RegisterConstants ==
    /\ 0 \in AHandle..1 /\ 1 \in AHandle..1 /\ NoIndex \in AHandle..1 /\ AHandle \in AHandle..1
    /\ NoThread \notin Thread /\ Main \in Thread
BY DEF AHandle, NoIndex, NoThread, Main, Thread

\* What handle_svc leaves of the machine, around every system call.
LEMMA CallStep ==
    ASSUME Base, NEW t \in Thread, NEW svc \in Svc, NEW r0 \in Result, NEW r1 \in AHandle..1,
           NEW halt \in BOOLEAN, Call(t, svc, r0, r1, halt)
    PROVE  /\ current = t /\ current' = t /\ t # NoThread
           /\ ~halted /\ thr[t].state = "Running"
           /\ cpu' \in Registers
           /\ cpu'.prev = svc /\ cpu'.r0 = r0 /\ cpu'.r1 = r1 /\ cpu'.sp = t
           /\ ranSvc' /\ halted' = halt /\ cpuTls' = slot[t] /\ cpuTls = slot[t]
           /\ written' = written
<1>1. current = t /\ ~halted /\ t # NoThread
    BY RegisterConstants DEF Call, Executing
<1>2. cpu \in Registers
    BY BaseTypes
<1>3. cpu.sp = t /\ cpuTls = slot[t]
    BY <1>1 DEF Base, SliceOK
<1>4. cpu' = [cpu EXCEPT !.prev = svc, !.r0 = r0, !.r1 = r1]
    BY DEF Call
<1>5. /\ cpu' \in Registers
      /\ cpu'.prev = svc /\ cpu'.r0 = r0 /\ cpu'.r1 = r1 /\ cpu'.sp = t
    BY <1>2, <1>3, <1>4 DEF Registers
<1>6. thr[t].state = "Running"
    BY <1>1 DEF Base, SliceOK
<1> QED
    BY <1>1, <1>3, <1>5, <1>6 DEF Call

\* What a system call must not disturb beyond the machine.
LEMMA CallKeepsBase ==
    ASSUME Base, NEW t \in Thread, NEW svc \in Svc, NEW r0 \in Result, NEW r1 \in AHandle..1,
           NEW halt \in BOOLEAN, Call(t, svc, r0, r1, halt),
           NEW st \in {"Running", "Waiting", "Done"},
           NEW call \in WaitCall \cup {"none"},
           st # "Running" => halt,
           st = "Waiting" => call \in WaitCall,
           thr' = [thr EXCEPT ![t].state = st, ![t].call = call],
           ipcData' \in [Thread -> Messages], asked' \in [Thread -> Messages],
           requests' \in Seq(Messages),
           owes' \in BOOLEAN, owes' => requests' # <<>>,
           outcome' \in [Thread -> ThreadResume \cup {"none", "ok", "error"}],
           UNCHANGED <<processVars, panic, whole>>
    PROVE  Base'
<1>1. /\ current = t /\ current' = t /\ t # NoThread
      /\ ~halted /\ thr[t].state = "Running"
      /\ cpu' \in Registers /\ cpu'.sp = t
      /\ ranSvc' /\ halted' = halt /\ cpuTls' = slot[t] /\ cpuTls = slot[t]
      /\ written' = written
    BY CallStep
<1>2. /\ thr' \in [Thread -> CommonThreads]
      /\ thr'[t].state = st /\ thr'[t].call = call
      /\ \A u \in Thread : u # t => thr'[u] = thr[u]
    <2>1. thr \in [Thread -> CommonThreads]
        BY BaseTypes
    <2> QED
        BY <2>1 DEF CommonThreads
<1>3. TypesOK'
    <2>1. /\ saved' = saved /\ slot' = slot /\ tls' = tls /\ command' = command
          /\ panic' = panic /\ whole' = whole
        BY DEF processVars
    <2>2. panic \in {"none", "unreachable"}
        BY DEF Base, TypesOK, TypeOK
    <2>3. ranSvc' \in BOOLEAN /\ halted' \in BOOLEAN /\ cpuTls' \in Slot
        BY <1>1, BaseTypes
    <2> QED
        BY <1>1, <1>2, <2>1, <2>2, <2>3, BaseTypes, TypesNext
<1>4. SliceOK'
    BY <1>1, <1>2 DEF Base, SliceOK, processVars
<1>5. StorageOK'
    BY <1>1, <1>2 DEF Base, StorageOK, processVars
<1> QED
    BY <1>3, <1>4, <1>5 DEF Base, OwesOK

\* The same when the thread table stays.
LEMMA CallKeepsTable ==
    ASSUME Base, NEW t \in Thread, NEW svc \in Svc, NEW r0 \in Result, NEW r1 \in AHandle..1,
           NEW halt \in BOOLEAN, Call(t, svc, r0, r1, halt), thr' = thr
    PROVE  \E call \in WaitCall \cup {"none"} :
              thr' = [thr EXCEPT ![t].state = "Running", ![t].call = call]
<1>1. thr[t].state = "Running"
    BY CallStep
<1>2. thr \in [Thread -> CommonThreads]
    BY BaseTypes
<1>3. thr[t].call \in WaitCall \cup {"none"}
    BY <1>2 DEF CommonThreads
<1>4. thr = [thr EXCEPT ![t].state = "Running", ![t].call = thr[t].call]
    BY <1>1, <1>2 DEF CommonThreads
<1> QED
    BY <1>3, <1>4

\* The names of the calls and results.
LEMMA CallConstants ==
    /\ {"ClearEvent", "SignalEvent", "CreateThread", "ExitThread"} \subseteq Svc
    /\ WaitCall \subseteq Svc
    /\ {"WaitSync1", "WaitSyncN", "SleepThread", "SendSyncRequest", "ReplyAndReceive"} = WaitCall
    /\ {"arg", "ok", "timeout", "mismatch", "nothing"} = Result
    /\ "other" \notin Svc /\ "none" \notin Svc
BY DEF Svc, WaitCall, Result

\* Ends gives the outcome its type.
LEMMA EndsTypes ==
    ASSUME Base, NEW t \in Thread, NEW how \in ThreadResume \cup {"none", "ok", "error"},
           Ends(t, how)
    PROVE  /\ outcome' \in [Thread -> ThreadResume \cup {"none", "ok", "error"}]
           /\ outcome'[t] = how
           /\ \A u \in Thread : u # t => outcome'[u] = outcome[u]
BY BaseTypes DEF Ends

\* Calls that return at once.
LEMMA ReturnBase == ASSUME Base, NEW t \in Thread, ReturnAtOnce(t) PROVE Base'
<1>1. /\ thr' = thr /\ ipcData' = ipcData /\ requests' = requests /\ panic' = panic
      /\ owes' = owes /\ whole' = whole /\ asked' = asked
      /\ UNCHANGED processVars
    BY DEF ReturnAtOnce, kernelVars
<1>2. PICK svc \in Svc, r0 \in Result, halt \in BOOLEAN, how \in {"ok", "error"} :
          Call(t, svc, r0, 0, halt) /\ Ends(t, how)
    BY CallConstants DEF ReturnAtOnce
<1>3. PICK call \in WaitCall \cup {"none"} :
          thr' = [thr EXCEPT ![t].state = "Running", ![t].call = call]
    BY <1>1, <1>2, CallKeepsTable, RegisterConstants
<1>4. outcome' \in [Thread -> ThreadResume \cup {"none", "ok", "error"}]
    BY <1>2, EndsTypes
<1>5. /\ ipcData' \in [Thread -> Messages] /\ asked' \in [Thread -> Messages]
      /\ requests' \in Seq(Messages) /\ owes' \in BOOLEAN /\ (owes' => requests' # <<>>)
    BY <1>1, BaseTypes DEF Base, OwesOK
<1>6. UNCHANGED <<processVars, panic, whole>>
    BY <1>1
<1>7. CASE Call(t, svc, r0, 0, TRUE)
    BY <1>3, <1>4, <1>5, <1>6, <1>7, CallKeepsBase, RegisterConstants
<1>8. CASE Call(t, svc, r0, 0, FALSE)
    BY <1>3, <1>4, <1>5, <1>6, <1>8, CallKeepsBase, RegisterConstants
<1> QED
    BY <1>2, <1>7, <1>8

\* Calls that wait.
LEMMA WaitBase == ASSUME Base, NEW t \in Thread, Wait(t) PROVE Base'
<1>1. /\ ipcData' = ipcData /\ requests' = requests /\ panic' = panic
      /\ owes' = owes /\ whole' = whole /\ asked' = asked
      /\ UNCHANGED processVars /\ Ends(t, "none")
    BY DEF Wait
<1>2. PICK svc \in WaitCall, r0 \in Result, r1 \in AHandle..1 :
          Call(t, svc, r0, r1, TRUE) /\ Suspend(t, svc)
    BY CallConstants, RegisterConstants DEF Wait
<1>3. thr' = [thr EXCEPT ![t].state = "Waiting", ![t].call = svc]
    BY <1>2 DEF Suspend
<1>4. outcome' \in [Thread -> ThreadResume \cup {"none", "ok", "error"}]
    BY <1>1, EndsTypes
<1>5. /\ ipcData' \in [Thread -> Messages] /\ asked' \in [Thread -> Messages]
      /\ requests' \in Seq(Messages) /\ owes' \in BOOLEAN /\ (owes' => requests' # <<>>)
    BY <1>1, BaseTypes DEF Base, OwesOK
<1>6. UNCHANGED <<processVars, panic, whole>>
    BY <1>1
<1>7. svc \in Svc /\ svc \in WaitCall \cup {"none"}
    BY CallConstants
<1> QED
    BY <1>2, <1>3, <1>4, <1>5, <1>6, <1>7, CallKeepsBase

\* The command a thread that runs has in its storage.
LEMMA CommandType ==
    ASSUME Base, NEW t \in Thread, current = t
    PROVE  cpuTls \in DOMAIN command /\ command[cpuTls] \in Messages
<1>1. t # NoThread
    BY RegisterConstants
<1>2. cpuTls = slot[t] /\ thr[t].state # "Absent"
    BY <1>1 DEF Base, SliceOK
<1> QED
    BY <1>2, BaseTypes DEF Base, StorageOK

\* SendSyncRequest.
LEMMA SendBase == ASSUME Base, NEW t \in Thread, SendSyncRequest(t) PROVE Base'
<1>1. /\ requests' = requests /\ panic' = panic /\ owes' = owes /\ whole' = whole
      /\ UNCHANGED processVars
      /\ ipcData' = [ipcData EXCEPT ![t] = command[cpuTls]]
      /\ asked' = [asked EXCEPT ![t] = IF whole[t] THEN Message("request", t, written[t])
                                                   ELSE command[cpuTls]]
    BY DEF SendSyncRequest
<1>2. UNCHANGED <<processVars, panic, whole>>
    BY <1>1
<1>3. "SendSyncRequest" \in Svc /\ "SendSyncRequest" \in WaitCall /\ "ok" \in Result /\ "mismatch" \in Result
    BY CallConstants
<1>4. current = t
    BY DEF SendSyncRequest, Call, Executing
<1>5. command[cpuTls] \in Messages /\ Message("request", t, written[t]) \in Messages
    <2>1. written[t] \in Nat
        BY BaseTypes
    <2> QED
        BY <1>4, <2>1, CommandType, MessageTypes
<1>6. /\ ipcData' \in [Thread -> Messages] /\ asked' \in [Thread -> Messages]
      /\ requests' \in Seq(Messages) /\ owes' \in BOOLEAN /\ (owes' => requests' # <<>>)
    <2>1. ipcData \in [Thread -> Messages] /\ asked \in [Thread -> Messages]
          /\ requests \in Seq(Messages) /\ owes \in BOOLEAN
        BY BaseTypes
    <2> QED
        BY <1>1, <1>5, <2>1 DEF Base, OwesOK
<1>7. CASE /\ Call(t, "SendSyncRequest", "ok", 0, TRUE)
           /\ Suspend(t, "SendSyncRequest")
           /\ Ends(t, "none")
    <2>1. outcome' \in [Thread -> ThreadResume \cup {"none", "ok", "error"}]
        BY <1>7, EndsTypes
    <2>2. thr' = [thr EXCEPT ![t].state = "Waiting", ![t].call = "SendSyncRequest"]
        BY <1>7 DEF Suspend
    <2> QED
        BY <1>2, <1>3, <1>6, <1>7, <2>1, <2>2, CallKeepsBase, RegisterConstants
<1>8. CASE /\ Call(t, "SendSyncRequest", "mismatch", 0, FALSE)
           /\ Ends(t, "error")
           /\ UNCHANGED thr
    <2>1. outcome' \in [Thread -> ThreadResume \cup {"none", "ok", "error"}]
        BY <1>8, EndsTypes
    <2>2. PICK call \in WaitCall \cup {"none"} :
              thr' = [thr EXCEPT ![t].state = "Running", ![t].call = call]
        BY <1>3, <1>8, CallKeepsTable, RegisterConstants
    <2> QED
        BY <1>2, <1>3, <1>6, <1>8, <2>1, <2>2, CallKeepsBase, RegisterConstants
<1> QED
    BY <1>7, <1>8 DEF SendSyncRequest

\* ReplyAndReceive.
LEMMA ReplyBase == ASSUME Base, NEW t \in Thread, ReplyAndReceive(t) PROVE Base'
<1>1. /\ panic' = panic /\ whole' = whole /\ asked' = asked
      /\ UNCHANGED processVars
      /\ ipcData' = [ipcData EXCEPT ![t] = command[cpuTls]]
    BY DEF ReplyAndReceive
<1>2. UNCHANGED <<processVars, panic, whole>>
    BY <1>1
<1>3. "ReplyAndReceive" \in Svc /\ "ReplyAndReceive" \in WaitCall /\ "arg" \in Result /\ "mismatch" \in Result
    BY CallConstants
<1>4. current = t
    BY DEF ReplyAndReceive, Call, Executing
<1>5. command[cpuTls] \in Messages
    BY <1>4, CommandType
<1>6. ipcData' \in [Thread -> Messages] /\ asked' \in [Thread -> Messages]
    <2>1. ipcData \in [Thread -> Messages] /\ asked \in [Thread -> Messages]
        BY BaseTypes
    <2> QED
        BY <1>1, <1>5, <2>1
<1>7. CASE /\ Call(t, "ReplyAndReceive", "arg", 0, TRUE)
           /\ requests' = IF owes THEN Tail(requests) ELSE requests
           /\ owes' = FALSE
           /\ Suspend(t, "ReplyAndReceive")
           /\ Ends(t, "none")
    <2>1. outcome' \in [Thread -> ThreadResume \cup {"none", "ok", "error"}]
        BY <1>7, EndsTypes
    <2>2. thr' = [thr EXCEPT ![t].state = "Waiting", ![t].call = "ReplyAndReceive"]
        BY <1>7 DEF Suspend
    <2>3. requests' \in Seq(Messages)
        <3>1. requests \in Seq(Messages) /\ (owes => requests # <<>>)
            BY BaseTypes DEF Base, OwesOK
        <3>2. requests # <<>> => Tail(requests) \in Seq(Messages)
            BY <3>1
        <3> QED
            BY <1>7, <3>1, <3>2
    <2>4. owes' \in BOOLEAN /\ (owes' => requests' # <<>>)
        BY <1>7
    <2> QED
        BY <1>2, <1>3, <1>6, <1>7, <2>1, <2>2, <2>3, <2>4, CallKeepsBase, RegisterConstants
<1>8. CASE /\ Call(t, "ReplyAndReceive", "mismatch", 0, FALSE)
           /\ Ends(t, "error")
           /\ UNCHANGED <<thr, requests, owes>>
    <2>1. outcome' \in [Thread -> ThreadResume \cup {"none", "ok", "error"}]
        BY <1>8, EndsTypes
    <2>2. PICK call \in WaitCall \cup {"none"} :
              thr' = [thr EXCEPT ![t].state = "Running", ![t].call = call]
        BY <1>3, <1>8, CallKeepsTable, RegisterConstants
    <2>3. requests' \in Seq(Messages) /\ owes' \in BOOLEAN /\ (owes' => requests' # <<>>)
        BY <1>8, BaseTypes DEF Base, OwesOK
    <2> QED
        BY <1>2, <1>3, <1>6, <1>8, <2>1, <2>2, <2>3, CallKeepsBase, RegisterConstants
<1> QED
    BY <1>7, <1>8 DEF ReplyAndReceive

\* ExitThread.
LEMMA ExitBase == ASSUME Base, NEW t \in Thread, ExitThread(t) PROVE Base'
<1>1. /\ ipcData' = ipcData /\ requests' = requests /\ panic' = panic
      /\ owes' = owes /\ whole' = whole /\ asked' = asked
      /\ UNCHANGED processVars /\ Ends(t, "none")
      /\ Call(t, "ExitThread", "arg", 0, TRUE)
    BY DEF ExitThread
<1>2. "ExitThread" \in Svc /\ "arg" \in Result
    BY CallConstants
<1>3. thr \in [Thread -> CommonThreads]
    BY BaseTypes
<1>4. thr[t].call \in WaitCall \cup {"none"}
    BY <1>3 DEF CommonThreads
<1>5. thr' = [thr EXCEPT ![t].state = "Done", ![t].call = thr[t].call]
    BY <1>3 DEF ExitThread, CommonThreads
<1>6. outcome' \in [Thread -> ThreadResume \cup {"none", "ok", "error"}]
    BY <1>1, EndsTypes
<1>7. /\ ipcData' \in [Thread -> Messages] /\ asked' \in [Thread -> Messages]
      /\ requests' \in Seq(Messages) /\ owes' \in BOOLEAN /\ (owes' => requests' # <<>>)
    BY <1>1, BaseTypes DEF Base, OwesOK
<1>8. UNCHANGED <<processVars, panic, whole>>
    BY <1>1
<1> QED
    BY <1>1, <1>2, <1>4, <1>5, <1>6, <1>7, <1>8, CallKeepsBase, RegisterConstants

\* The effect of CreateThread on the new thread u and on the storage.
LEMMA CreateEffect ==
    ASSUME Base, NEW t \in Thread, CreateThread(t)
    PROVE  \E u \in Thread, word \in EntryWords :
              /\ u # t
              /\ thr[u].state = "Absent" /\ \A v \in 0..u - 1 : thr[v].state # "Absent"
              /\ thr' \in [Thread -> CommonThreads]
              /\ thr'[u] = NewThread("Ready")
              /\ \A v \in Thread : v # u => thr'[v] = thr[v]
              /\ slot' \in [Thread -> Slot \cup {NoSlot}]
              /\ slot'[u] = TlsSlot(tls)
              /\ \A v \in Thread : v # u => slot'[v] = slot[v]
              /\ saved' \in [Thread -> Registers]
              /\ saved'[u] = NewContext(u, word)
              /\ \A v \in Thread : v # u => saved'[v] = saved[v]
              /\ TlsSlot(tls) \in Slot
              /\ DOMAIN command' = DOMAIN command \cup {TlsSlot(tls)}
              /\ \A s \in DOMAIN command : command'[s] = command[s]
              /\ \A s \in DOMAIN command' : command'[s] \in Messages
<1>1. PICK u \in Thread, word \in EntryWords :
          /\ thr[u].state = "Absent" /\ \A v \in 0..u - 1 : thr[v].state # "Absent"
          /\ thr' = [thr EXCEPT ![u] = NewThread("Ready")]
          /\ slot' = [slot EXCEPT ![u] = TlsSlot(tls)]
          /\ saved' = [saved EXCEPT ![u] = NewContext(u, word)]
    BY DEF CreateThread
<1>2. thr[t].state = "Running"
    BY CallStep, CallConstants, RegisterConstants DEF CreateThread
<1>3. TlsSlot(tls) \in Slot
    BY BaseTypes, TakeSlotTypes
<1>4. NewThread("Ready") \in CommonThreads
    BY DEF NewThread, CommonThreads, ThreadResume
<1>5. NewContext(u, word) \in Registers
    BY NewContextTypes
<1>6. thr \in [Thread -> CommonThreads] /\ slot \in [Thread -> Slot \cup {NoSlot}]
      /\ saved \in [Thread -> Registers]
    BY BaseTypes
<1>7. /\ DOMAIN command' = DOMAIN command \cup {TlsSlot(tls)}
      /\ \A s \in DOMAIN command : command'[s] = command[s]
      /\ \A s \in DOMAIN command' : s \notin DOMAIN command => command'[s] = Blank
    BY DEF CreateThread
<1>8. \A s \in DOMAIN command' : command'[s] \in Messages
    BY <1>7, BaseTypes, MessageTypes
<1>9. u # t
    BY <1>1, <1>2
<1>10. thr' \in [Thread -> CommonThreads] /\ thr'[u] = NewThread("Ready")
       /\ \A v \in Thread : v # u => thr'[v] = thr[v]
    BY <1>1, <1>4, <1>6
<1>11. slot' \in [Thread -> Slot \cup {NoSlot}] /\ slot'[u] = TlsSlot(tls)
       /\ \A v \in Thread : v # u => slot'[v] = slot[v]
    BY <1>1, <1>3, <1>6
<1>12. saved' \in [Thread -> Registers] /\ saved'[u] = NewContext(u, word)
       /\ \A v \in Thread : v # u => saved'[v] = saved[v]
    BY <1>1, <1>5, <1>6
<1> QED
    BY <1>1, <1>3, <1>7, <1>8, <1>9, <1>10, <1>11, <1>12

\* CreateThread.
LEMMA CreateBase == ASSUME Base, NEW t \in Thread, CreateThread(t) PROVE Base'
<1>1. /\ Call(t, "CreateThread", "ok", AHandle, TRUE) /\ Ends(t, "ok") /\ tls' = TlsRest(tls)
      /\ ipcData' = ipcData /\ requests' = requests /\ panic' = panic
      /\ owes' = owes /\ whole' = whole /\ asked' = asked
    BY DEF CreateThread
<1>2. "CreateThread" \in Svc /\ "ok" \in Result
    BY CallConstants
<1>3. /\ current = t /\ current' = t /\ t # NoThread
      /\ thr[t].state = "Running"
      /\ cpu' \in Registers /\ cpu'.sp = t
      /\ ranSvc' /\ halted' /\ cpuTls' = slot[t] /\ cpuTls = slot[t]
      /\ written' = written
    BY <1>1, <1>2, CallStep, RegisterConstants
<1>4. PICK u \in Thread, word \in EntryWords :
          /\ u # t
          /\ thr' \in [Thread -> CommonThreads]
          /\ thr'[u] = NewThread("Ready")
          /\ \A v \in Thread : v # u => thr'[v] = thr[v]
          /\ slot' \in [Thread -> Slot \cup {NoSlot}]
          /\ slot'[u] = TlsSlot(tls)
          /\ \A v \in Thread : v # u => slot'[v] = slot[v]
          /\ saved' \in [Thread -> Registers]
          /\ saved'[u] = NewContext(u, word)
          /\ \A v \in Thread : v # u => saved'[v] = saved[v]
          /\ TlsSlot(tls) \in Slot
          /\ DOMAIN command' = DOMAIN command \cup {TlsSlot(tls)}
          /\ \A s \in DOMAIN command' : command'[s] \in Messages
    BY CreateEffect
<1>5. thr'[u].state = "Ready"
    BY <1>4 DEF NewThread
<1>6. TypesOK'
    <2>1. tls' \in ProcessTLS
        BY <1>1, BaseTypes, TakeSlotTypes
    <2>2. panic' \in {"none", "unreachable"}
        BY <1>1 DEF Base, TypesOK, TypeOK
    <2>3. ranSvc' \in BOOLEAN /\ halted' \in BOOLEAN /\ cpuTls' \in Slot
        <3>1. ranSvc' = TRUE /\ halted' = TRUE
            BY <1>1 DEF Call
        <3> QED
            BY <1>3, <3>1, BaseTypes
    <2>4. DOMAIN command' \subseteq Slot
        BY <1>4, BaseTypes
    <2>5. outcome' \in [Thread -> ThreadResume \cup {"none", "ok", "error"}]
        BY <1>1, EndsTypes
    <2> QED
        BY <1>1, <1>3, <1>4, <2>1, <2>2, <2>3, <2>4, <2>5, BaseTypes, TypesNext
<1>7. SliceOK'
    BY <1>3, <1>4, <1>5 DEF Base, SliceOK
<1>8. StorageOK'
    <2>1. saved'[u].sp = u
        BY <1>4, NewContextTypes
    <2> QED
        BY <1>4, <1>5, <2>1 DEF Base, StorageOK
<1>9. OwesOK'
    BY <1>1 DEF Base, OwesOK
<1> QED
    BY <1>6, <1>7, <1>8, <1>9 DEF Base

\* What resuming a thread delivers: the registers, and for a server its request.
LEMMA HandleResumeTypes ==
    ASSUME Base, NEW t \in Thread, NEW resume \in ThreadResume, panic = "none",
           HandleResume(t, resume)
    PROVE  /\ cpu' \in Registers /\ cpu'.prev = saved[t].prev /\ cpu'.sp = t
           /\ ipcData' \in [Thread -> Messages]
           /\ panic' \in {"none", "unreachable"}
           /\ owes' \in BOOLEAN /\ (owes' => requests # <<>>)
           /\ \A u \in Thread : u # t => ipcData'[u] = ipcData[u]
           /\ saved[t].prev # "ReplyAndReceive" => ipcData' = ipcData
<1>1. saved[t] \in Registers /\ saved[t].sp = t
    BY BaseTypes DEF Base, StorageOK
<1>2. ipcData \in [Thread -> Messages] /\ requests \in Seq(Messages) /\ owes \in BOOLEAN
      /\ (owes => requests # <<>>)
    BY BaseTypes DEF Base, OwesOK
<1>3. CASE ~(ranSvc /\ saved[t].prev = "ReplyAndReceive")
    <2>1. /\ cpu' = IF ranSvc THEN Deliver(saved[t], resume) ELSE saved[t]
          /\ panic' = panic /\ ipcData' = ipcData /\ owes' = owes
        BY <1>3 DEF HandleResume
    <2> QED
        BY <1>1, <1>2, <2>1, DeliverTypes
<1>4. CASE ranSvc /\ saved[t].prev = "ReplyAndReceive"
    <2>1. ReceivePost(t, resume)
        BY <1>4 DEF HandleResume
    <2>2. CASE resume \notin {"Index0", "Index1"}
        <3>1. panic' = "unreachable" /\ cpu' = saved[t] /\ ipcData' = ipcData /\ owes' = owes
            BY <2>1, <2>2 DEF ReceivePost
        <3> QED
            BY <1>1, <1>2, <3>1
    <2>3. CASE resume \in {"Index0", "Index1"}
        <3> DEFINE receives == resume = "Index0" /\ requests # <<>>
        <3>1. PICK r0 \in Result : cpu' = Deliver([saved[t] EXCEPT !.r0 = r0], resume)
            BY <2>1, <2>3, CallConstants DEF ReceivePost
        <3>2. /\ ipcData' = IF receives THEN [ipcData EXCEPT ![t] = Head(requests)] ELSE ipcData
              /\ owes' = receives
              /\ panic' = panic
            BY <2>1, <2>3 DEF ReceivePost
        <3>3. /\ [saved[t] EXCEPT !.r0 = r0] \in Registers
              /\ [saved[t] EXCEPT !.r0 = r0].prev = saved[t].prev
              /\ [saved[t] EXCEPT !.r0 = r0].sp = t
            BY <1>1 DEF Registers
        <3>4. cpu' \in Registers /\ cpu'.prev = saved[t].prev /\ cpu'.sp = t
            BY <3>1, <3>3, DeliverTypes
        <3>5. requests # <<>> => Head(requests) \in Messages
            BY <1>2
        <3>6. /\ ipcData' \in [Thread -> Messages]
              /\ \A u \in Thread : u # t => ipcData'[u] = ipcData[u]
            BY <1>2, <3>2, <3>5
        <3> QED
            BY <1>4, <3>2, <3>4, <3>6
    <2> QED
        BY <2>2, <2>3
<1> QED
    BY <1>3, <1>4

\* A slice begins.
LEMMA ResumeBase == ASSUME Base, NEW t \in Thread, panic = "none", Resume(t) PROVE Base'
<1>1. /\ current = NoThread /\ thr[t].state = "Ready" /\ current' = t
      /\ cpuTls' = slot[t] /\ ranSvc' = FALSE
      /\ HandleResume(t, thr[t].resume)
      /\ requests' = requests /\ saved' = saved /\ slot' = slot /\ tls' = tls /\ halted' = halted
      /\ outcome' = outcome /\ written' = written /\ whole' = whole /\ asked' = asked
    BY DEF Resume
<1>2. thr \in [Thread -> CommonThreads] /\ thr[t].resume \in ThreadResume
    BY BaseTypes DEF CommonThreads
<1>3. /\ thr' \in [Thread -> CommonThreads]
      /\ thr'[t].state = "Running" /\ thr'[t].call = thr[t].call
      /\ \A u \in Thread : u # t => thr'[u] = thr[u]
    BY <1>2 DEF Resume, TakeResume, CommonThreads, ThreadResume
<1>4. slot[t] \in Slot /\ slot[t] \in DOMAIN command
    BY <1>1 DEF Base, StorageOK
<1>5. /\ DOMAIN command' = DOMAIN command
      /\ \A s \in DOMAIN command' : command'[s] \in Messages
    <2>1. command' = [command EXCEPT ![slot[t]] = ipcData[t]]
        BY DEF Resume, CopyIpcData
    <2>2. ipcData[t] \in Messages /\ \A s \in DOMAIN command : command[s] \in Messages
        BY BaseTypes
    <2> QED
        BY <2>1, <2>2
<1>6. /\ cpu' \in Registers /\ cpu'.sp = t
      /\ ipcData' \in [Thread -> Messages]
      /\ panic' \in {"none", "unreachable"}
      /\ owes' \in BOOLEAN /\ (owes' => requests # <<>>)
    BY <1>1, <1>2, HandleResumeTypes
<1>7. TypesOK'
    <2>1. ranSvc' \in BOOLEAN /\ DOMAIN command' \subseteq Slot
        BY <1>1, <1>5, BaseTypes
    <2> QED
        BY <1>1, <1>3, <1>4, <1>5, <1>6, <2>1, BaseTypes, TypesNext
<1>8. ~halted
    BY <1>1 DEF Base, SliceOK
<1>9. SliceOK'
    BY <1>1, <1>3, <1>6, <1>8, RegisterConstants DEF Base, SliceOK
<1>10. StorageOK'
    BY <1>1, <1>3, <1>4, <1>5 DEF Base, StorageOK
<1> QED
    BY <1>1, <1>6, <1>7, <1>9, <1>10 DEF Base, OwesOK

\* What another instruction leaves of the machine.
LEMMA InstructionStep ==
    ASSUME Base, NEW t \in Thread, Instruction(t)
    PROVE  /\ current = t /\ t # NoThread /\ ~halted /\ thr[t].state = "Running"
           /\ cpuTls = slot[t]
           /\ cpu' \in Registers /\ cpu'.prev = "other" /\ cpu'.sp = t
           /\ outcome' \in [Thread -> ThreadResume \cup {"none", "ok", "error"}]
           /\ outcome'[t] = "none"
           /\ \A u \in Thread : u # t => outcome'[u] = outcome[u]
           /\ thr' = thr /\ ipcData' = ipcData /\ requests' = requests /\ panic' = panic
           /\ saved' = saved /\ slot' = slot /\ tls' = tls /\ cpuTls' = cpuTls
           /\ ranSvc' = ranSvc /\ halted' = halted /\ current' = current
           /\ owes' = owes /\ asked' = asked
<1>1. current = t /\ ~halted /\ t # NoThread
    BY RegisterConstants DEF Instruction, Executing
<1>2. cpu \in Registers
    BY BaseTypes
<1>3. cpu.sp = t /\ cpuTls = slot[t] /\ thr[t].state = "Running"
    BY <1>1 DEF Base, SliceOK
<1>4. cpu' = [cpu EXCEPT !.prev = "other", !.r0 = "arg", !.r1 = 0]
    BY DEF Instruction
<1>5. cpu' \in Registers /\ cpu'.prev = "other" /\ cpu'.sp = t
    <2>1. "arg" \in Result /\ 0 \in AHandle..1
        BY CallConstants, RegisterConstants
    <2> QED
        BY <1>2, <1>3, <1>4, <2>1 DEF Registers
<1>6. Ends(t, "none")
    BY DEF Instruction
<1>7. /\ outcome' \in [Thread -> ThreadResume \cup {"none", "ok", "error"}]
      /\ outcome'[t] = "none"
      /\ \A u \in Thread : u # t => outcome'[u] = outcome[u]
    BY <1>6, EndsTypes
<1> QED
    BY <1>1, <1>3, <1>5, <1>7 DEF Instruction, kernelVars

\* Other instructions.
LEMMA InstructionBase ==
    ASSUME Base, NEW t \in Thread, Compute(t) \/ WriteCommand(t)
    PROVE  Base'
<1>1. Instruction(t)
    BY DEF Compute, WriteCommand
<1>2. /\ current = t /\ t # NoThread /\ cpuTls = slot[t]
      /\ cpu' \in Registers /\ cpu'.sp = t
      /\ outcome' \in [Thread -> ThreadResume \cup {"none", "ok", "error"}]
      /\ thr' = thr /\ ipcData' = ipcData /\ requests' = requests /\ panic' = panic
      /\ saved' = saved /\ slot' = slot /\ tls' = tls /\ cpuTls' = cpuTls
      /\ ranSvc' = ranSvc /\ halted' = halted /\ current' = current
      /\ owes' = owes /\ asked' = asked
    BY <1>1, InstructionStep
<1>3. /\ written' \in [Thread -> 0..MaxCommands]
      /\ whole' \in [Thread -> BOOLEAN]
      /\ DOMAIN command' = DOMAIN command
      /\ \A s \in DOMAIN command' : command'[s] \in Messages
    <2>1. CASE Compute(t)
        BY <2>1, BaseTypes DEF Compute
    <2>2. CASE WriteCommand(t)
        <3>1. /\ written[t] < MaxCommands
              /\ written' = [written EXCEPT ![t] = @ + 1]
              /\ whole' = [whole EXCEPT ![t] = TRUE]
              /\ command' = [command EXCEPT ![cpuTls] = Message("request", t, written'[t])]
            BY <2>2 DEF WriteCommand
        <3>2. written \in [Thread -> 0..MaxCommands] /\ whole \in [Thread -> BOOLEAN]
            BY BaseTypes
        <3>3. written' \in [Thread -> 0..MaxCommands] /\ written'[t] \in Nat
            BY <3>1, <3>2
        <3>4. Message("request", t, written'[t]) \in Messages
            BY <3>3, MessageTypes
        <3>5. whole' \in [Thread -> BOOLEAN]
            BY <3>1, <3>2
        <3>6. \A s \in DOMAIN command : command[s] \in Messages
            BY BaseTypes
        <3> QED
            BY <3>1, <3>3, <3>4, <3>5, <3>6
    <2> QED
        BY <2>1, <2>2
<1>4. TypesOK'
    <2>1. panic' \in {"none", "unreachable"}
        BY <1>2 DEF Base, TypesOK, TypeOK
    <2> QED
        BY <1>2, <1>3, <2>1, BaseTypes, TypesNext
<1>5. SliceOK'
    BY <1>2 DEF Base, SliceOK
<1>6. StorageOK'
    BY <1>2, <1>3 DEF Base, StorageOK
<1> QED
    BY <1>2, <1>4, <1>5, <1>6 DEF Base, OwesOK

\* What waking a thread does to the table.
LEMMA AwakeStep ==
    ASSUME Base, NEW t \in Thread, NEW call \in WaitCall, NEW resume \in ThreadResume,
           NEW how \in ThreadResume \cup {"none", "ok", "error"},
           Awake(t, call, resume, how)
    PROVE  /\ current = NoThread /\ thr[t].state = "Waiting" /\ thr[t].call = call
           /\ thr' \in [Thread -> CommonThreads]
           /\ thr'[t] = [state |-> "Ready", call |-> "none", resume |-> resume]
           /\ \A u \in Thread : u # t => thr'[u] = thr[u]
           /\ outcome' \in [Thread -> ThreadResume \cup {"none", "ok", "error"}]
           /\ outcome'[t] = how
           /\ \A u \in Thread : u # t => outcome'[u] = outcome[u]
           /\ panic' = panic /\ saved' = saved /\ slot' = slot /\ tls' = tls /\ command' = command
           /\ cpu' = cpu /\ cpuTls' = cpuTls /\ ranSvc' = ranSvc /\ halted' = halted
           /\ current' = current /\ owes' = owes
           /\ written' = written /\ whole' = whole /\ asked' = asked
<1>1. thr \in [Thread -> CommonThreads]
    BY BaseTypes
<1>2. [state |-> "Ready", call |-> "none", resume |-> resume] \in CommonThreads
    BY DEF CommonThreads
<1>3. /\ thr' \in [Thread -> CommonThreads]
      /\ thr'[t] = [state |-> "Ready", call |-> "none", resume |-> resume]
      /\ \A u \in Thread : u # t => thr'[u] = thr[u]
    BY <1>1, <1>2 DEF Awake
<1>4. Ends(t, how)
    BY DEF Awake
<1>5. /\ outcome' \in [Thread -> ThreadResume \cup {"none", "ok", "error"}]
      /\ outcome'[t] = how
      /\ \A u \in Thread : u # t => outcome'[u] = outcome[u]
    BY <1>4, EndsTypes
<1> QED
    BY <1>3, <1>5 DEF Awake, processVars, machineVars

\* Waking a thread, with or without an answer or a request.
LEMMA AwakeBase ==
    ASSUME Base, NEW t \in Thread, NEW call \in WaitCall, NEW resume \in ThreadResume,
           NEW how \in ThreadResume \cup {"none", "ok", "error"},
           Awake(t, call, resume, how),
           ipcData' \in [Thread -> Messages], requests' \in Seq(Messages),
           requests # <<>> => requests' # <<>>
    PROVE  Base'
<1>1. /\ current = NoThread
      /\ thr' \in [Thread -> CommonThreads]
      /\ thr'[t] = [state |-> "Ready", call |-> "none", resume |-> resume]
      /\ thr[t].state = "Waiting"
      /\ \A u \in Thread : u # t => thr'[u] = thr[u]
      /\ outcome' \in [Thread -> ThreadResume \cup {"none", "ok", "error"}]
      /\ panic' = panic /\ saved' = saved /\ slot' = slot /\ tls' = tls /\ command' = command
      /\ cpu' = cpu /\ cpuTls' = cpuTls /\ ranSvc' = ranSvc /\ halted' = halted
      /\ current' = current /\ owes' = owes
      /\ written' = written /\ whole' = whole /\ asked' = asked
    BY AwakeStep
<1>2. thr'[t].state = "Ready"
    BY <1>1
<1>3. TypesOK'
    <2>1. panic' \in {"none", "unreachable"}
        BY <1>1 DEF Base, TypesOK, TypeOK
    <2> QED
        BY <1>1, <2>1, BaseTypes, TypesNext
<1>4. SliceOK'
    BY <1>1, <1>2 DEF Base, SliceOK
<1>5. StorageOK'
    BY <1>1, <1>2 DEF Base, StorageOK
<1> QED
    BY <1>1, <1>3, <1>4, <1>5 DEF Base, OwesOK

\* The ways a thread is woken without an answer or a request.
LEMMA WakeUpForms ==
    ASSUME NEW t \in Thread, WakeUp(t)
    PROVE  /\ \E call \in WaitCall, resume \in ThreadResume :
                 \E how \in ThreadResume \cup {"none", "ok", "error"} :
                    /\ Awake(t, call, resume, how)
                    /\ call # "SendSyncRequest"
                    /\ \/ call = "WaitSync1" /\ resume = "Normal" /\ how = "ok"
                       \/ call = "SleepThread" /\ resume = "Normal" /\ how = "none"
                       \/ call = "ReplyAndReceive" /\ resume = "Index1" /\ how = "Index1"
                       \/ call = "WaitSyncN" /\ resume # "Normal" /\ how = resume
                       \/ call = "WaitSync1" /\ resume = "TimeoutReached" /\ how = resume
           /\ ipcData' = ipcData /\ requests' = requests
<1>1. {"Normal", "TimeoutReached", "Index0", "Index1"} = ThreadResume
    BY DEF ThreadResume
<1> QED
    BY <1>1, CallConstants DEF WakeUp

\* Waking a thread.
LEMMA WakeBase ==
    ASSUME Base, NEW t \in Thread, WakeUp(t) \/ ServiceReplies(t)
    PROVE  Base'
<1>1. CASE WakeUp(t)
    <2>1. PICK call \in WaitCall, resume \in ThreadResume,
               how \in ThreadResume \cup {"none", "ok", "error"} : Awake(t, call, resume, how)
        BY <1>1, WakeUpForms
    <2>2. ipcData' = ipcData /\ requests' = requests
        BY <1>1, WakeUpForms
    <2> QED
        BY <2>1, <2>2, AwakeBase, BaseTypes
<1>2. CASE ServiceReplies(t)
    <2>1. Awake(t, "SendSyncRequest", "Normal", "ok")
        BY <1>2 DEF ServiceReplies
    <2>2. "SendSyncRequest" \in WaitCall /\ "Normal" \in ThreadResume
        BY CallConstants DEF ThreadResume
    <2>3. ipcData' \in [Thread -> Messages] /\ requests' = requests
        <3>1. ipcData \in [Thread -> Messages]
            BY BaseTypes
        <3>2. ipcData' = [ipcData EXCEPT ![t] = Response(ipcData[t])]
            BY <1>2, <3>1 DEF ServiceReplies
        <3>3. Response(ipcData[t]) \in Messages
            BY <3>1, MessageTypes
        <3> QED
            BY <1>2, <3>1, <3>2, <3>3 DEF ServiceReplies
    <2> QED
        BY <2>1, <2>2, <2>3, AwakeBase, BaseTypes
<1> QED
    BY <1>1, <1>2

\* What leaving a slice does to the table.
LEMMA LeaveStep ==
    ASSUME Base, Leave
    PROVE  /\ current \in Thread /\ current' = NoThread /\ ranSvc /\ ranSvc' /\ ~halted'
           /\ saved' \in [Thread -> Registers] /\ saved'[current] = cpu
           /\ \A u \in Thread : u # current => saved'[u] = saved[u]
           /\ thr' \in [Thread -> CommonThreads]
           /\ \A u \in Thread : u # current => thr'[u] = thr[u]
           /\ thr'[current].state = IF thr[current].state = "Running" THEN "Ready"
                                                                      ELSE thr[current].state
           /\ thr'[current].call = thr[current].call
           /\ thr'[current].resume = thr[current].resume
           /\ whole' \in [Thread -> BOOLEAN] /\ ~whole'[current]
           /\ \A u \in Thread : u # current => whole'[u] = whole[u]
<1>1. current \in Thread /\ ranSvc /\ current' = NoThread /\ ranSvc' = ranSvc /\ halted' = FALSE
    BY BaseTypes DEF Leave
<1>2. thr \in [Thread -> CommonThreads] /\ saved \in [Thread -> Registers] /\ cpu \in Registers
      /\ whole \in [Thread -> BOOLEAN]
    BY BaseTypes
<1>3. /\ saved' \in [Thread -> Registers] /\ saved'[current] = cpu
      /\ \A u \in Thread : u # current => saved'[u] = saved[u]
    BY <1>1, <1>2 DEF Leave
<1>4. /\ whole' \in [Thread -> BOOLEAN] /\ whole'[current] = FALSE
      /\ \A u \in Thread : u # current => whole'[u] = whole[u]
    BY <1>1, <1>2 DEF Leave
<1>5. thr' = IF thr[current].state = "Running"
             THEN [thr EXCEPT ![current].state = "Ready"] ELSE thr
    BY DEF Leave
<1>6. /\ thr' \in [Thread -> CommonThreads]
      /\ \A u \in Thread : u # current => thr'[u] = thr[u]
      /\ thr'[current].state = IF thr[current].state = "Running" THEN "Ready"
                                                                 ELSE thr[current].state
      /\ thr'[current].call = thr[current].call
      /\ thr'[current].resume = thr[current].resume
    BY <1>1, <1>2, <1>5 DEF CommonThreads
<1> QED
    BY <1>1, <1>3, <1>4, <1>6

\* A slice ends.
LEMMA LeaveBase == ASSUME Base, Leave PROVE Base'
<1>1. /\ current \in Thread /\ current' = NoThread /\ ranSvc' /\ ~halted'
      /\ saved' \in [Thread -> Registers] /\ saved'[current] = cpu
      /\ \A u \in Thread : u # current => saved'[u] = saved[u]
      /\ thr' \in [Thread -> CommonThreads]
      /\ \A u \in Thread : u # current => thr'[u] = thr[u]
      /\ thr'[current].state = IF thr[current].state = "Running" THEN "Ready"
                                                                 ELSE thr[current].state
      /\ thr'[current].call = thr[current].call
      /\ whole' \in [Thread -> BOOLEAN]
    BY LeaveStep
<1>2. /\ ipcData' = ipcData /\ requests' = requests /\ panic' = panic /\ slot' = slot /\ tls' = tls
      /\ command' = command /\ cpu' = cpu /\ cpuTls' = cpuTls /\ ranSvc' = ranSvc /\ owes' = owes
      /\ outcome' = outcome /\ written' = written /\ asked' = asked /\ halted' = FALSE
    BY DEF Leave
<1>3. current # NoThread /\ cpu.sp = current
    BY <1>1, RegisterConstants DEF Base, SliceOK
<1>4. TypesOK'
    <2>1. panic' \in {"none", "unreachable"}
        BY <1>2 DEF Base, TypesOK, TypeOK
    <2>2. halted' \in BOOLEAN
        BY <1>2
    <2> QED
        BY <1>1, <1>2, <2>1, <2>2, BaseTypes, TypesNext
<1>5. SliceOK'
    BY <1>1, <1>2 DEF Base, SliceOK
<1>6. StorageOK'
    BY <1>1, <1>2, <1>3 DEF Base, StorageOK
<1> QED
    BY <1>2, <1>4, <1>5, <1>6 DEF Base, OwesOK

\* What a request does to the queue.
LEMMA RequestStep ==
    ASSUME Base, RequestMade
    PROVE  /\ ipcData' = ipcData
           /\ requests' \in Seq(Messages) /\ requests' # <<>>
<1>1. requests \in Seq(Messages)
    BY BaseTypes
<1>2. PICK n \in 1..MaxRequests : requests' = Append(requests, Message("request", NoThread, n))
    BY DEF RequestMade
<1>3. Message("request", NoThread, n) \in Messages
    BY MessageTypes
<1> QED
    BY <1>1, <1>2, <1>3 DEF RequestMade

\* Another process makes a request.
LEMMA RequestBase == ASSUME Base, RequestMade PROVE Base'
<1>1. ipcData' = ipcData /\ requests' \in Seq(Messages) /\ requests' # <<>>
    BY RequestStep
<1>2. CASE Awake(Main, "ReplyAndReceive", "Index0", "Index0")
    <2>1. "ReplyAndReceive" \in WaitCall /\ "Index0" \in ThreadResume /\ Main \in Thread
        BY CallConstants, RegisterConstants DEF ThreadResume
    <2> QED
        BY <1>1, <1>2, <2>1, AwakeBase, BaseTypes
<1>3. CASE UNCHANGED <<thr, panic, processVars, machineVars, current, programVars>>
    <2>1. /\ thr' = thr /\ panic' = panic /\ saved' = saved /\ slot' = slot /\ tls' = tls
          /\ command' = command /\ cpu' = cpu /\ cpuTls' = cpuTls /\ ranSvc' = ranSvc
          /\ halted' = halted /\ current' = current /\ owes' = owes /\ outcome' = outcome
          /\ written' = written /\ whole' = whole /\ asked' = asked
        BY <1>3 DEF processVars, machineVars, programVars
    <2>2. panic' \in {"none", "unreachable"}
        BY <2>1 DEF Base, TypesOK, TypeOK
    <2>3. TypesOK'
        BY <1>1, <2>1, <2>2, BaseTypes, TypesNext
    <2>4. SliceOK' /\ StorageOK'
        BY <2>1 DEF Base, SliceOK, StorageOK
    <2> QED
        BY <1>1, <2>3, <2>4 DEF Base, OwesOK
<1> QED
    BY <1>2, <1>3 DEF RequestMade

\* Every step keeps the base.
LEMMA StepBase == ASSUME Base, [Next]_vars PROVE Base'
<1>1. CASE Next
    <2>1. panic = "none"
        BY <1>1 DEF Next
    <2>2. ASSUME NEW t \in Thread, Resume(t) \/ Step(t) \/ WakeUp(t) \/ ServiceReplies(t)
          PROVE  Base'
        <3>1. CASE Resume(t)
            BY <2>1, <3>1, ResumeBase
        <3>2. CASE Step(t)
            BY <3>2, ReturnBase, WaitBase, SendBase, ReplyBase, CreateBase, ExitBase, InstructionBase
               DEF Step
        <3>3. CASE WakeUp(t) \/ ServiceReplies(t)
            BY <3>3, WakeBase
        <3> QED
            BY <2>2, <3>1, <3>2, <3>3
    <2> QED
        BY <1>1, <2>2, LeaveBase, RequestBase DEF Next
<1>2. CASE UNCHANGED vars
    <2>1. /\ thr' = thr /\ ipcData' = ipcData /\ requests' = requests
          /\ panic' = panic /\ saved' = saved /\ slot' = slot /\ tls' = tls
          /\ command' = command /\ cpu' = cpu /\ cpuTls' = cpuTls /\ ranSvc' = ranSvc
          /\ halted' = halted /\ current' = current /\ owes' = owes /\ outcome' = outcome
          /\ written' = written /\ whole' = whole /\ asked' = asked
        BY <1>2 DEF vars, kernelVars, processVars, machineVars, programVars
    <2> QED
        BY <2>1 DEF Base, TypesOK, TypeOK, SliceOK, StorageOK, OwesOK
<1> QED
    BY <1>1, <1>2

\* The machine and the thread table agree on who runs, every thread has its storage
\* and its stack, and the request that Main handles is still there.
THEOREM GuestBase == Spec => []Base
BY InitBase, StepBase, PTL DEF Spec

\* Types: every slot ever given out is a slot, although the pages are counted in a
\* u8, and no handler leaves the registers or a thread in another shape.
THEOREM GuestTypes == Spec => []TypeOK
<1>1. Base => TypeOK
    BY DEF Base, TypesOK
<1> QED
    BY <1>1, GuestBase, PTL

-----------------------------------------------------------------------------
(* The slots *)

\* Nobody appears or disappears, and no slot is given out.
SlotsKept ==
    /\ tls' = tls /\ slot' = slot
    /\ \A u \in Thread : thr'[u].state = "Absent" <=> thr[u].state = "Absent"

\* The thread that makes a call is there before and after.
LEMMA CallKeepsSlots ==
    ASSUME Base, NEW t \in Thread, Executing(t), NEW th,
           th \in {"Running", "Waiting", "Done"},
           \/ thr' = thr
           \/ \E call : thr' = [thr EXCEPT ![t].state = th, ![t].call = call]
           \/ thr' = [thr EXCEPT ![t].state = th],
           tls' = tls, slot' = slot
    PROVE  SlotsKept
<1>1. thr \in [Thread -> CommonThreads]
    BY BaseTypes
<1>2. current = t /\ t # NoThread /\ ~halted
    BY RegisterConstants DEF Executing
<1>3. thr[t].state = "Running"
    BY <1>2 DEF Base, SliceOK
<1>4. CASE thr' = thr
    BY <1>4 DEF SlotsKept
<1>5. ASSUME NEW call, thr' = [thr EXCEPT ![t].state = th, ![t].call = call]
      PROVE  SlotsKept
    <2>1. thr'[t].state = th /\ \A u \in Thread : u # t => thr'[u] = thr[u]
        BY <1>1, <1>5 DEF CommonThreads
    <2> QED
        BY <1>3, <2>1 DEF SlotsKept
<1>6. CASE thr' = [thr EXCEPT ![t].state = th]
    <2>1. thr'[t].state = th /\ \A u \in Thread : u # t => thr'[u] = thr[u]
        BY <1>1, <1>6 DEF CommonThreads
    <2> QED
        BY <1>3, <2>1 DEF SlotsKept
<1> QED
    BY <1>4, <1>5, <1>6

\* CreateThread is the only step that gives out a slot.
LEMMA OthersKeepSlots ==
    ASSUME Base, [Next]_vars, \A t \in Thread : ~CreateThread(t)
    PROVE  SlotsKept
<1>1. ASSUME NEW t \in Thread, Resume(t)
      PROVE  SlotsKept
    <2>1. thr \in [Thread -> CommonThreads] /\ thr[t].state = "Ready"
        BY <1>1, BaseTypes DEF Resume
    <2>2. thr'[t].state = "Running" /\ \A u \in Thread : u # t => thr'[u] = thr[u]
        BY <1>1, <2>1 DEF Resume, TakeResume, CommonThreads
    <2> QED
        BY <1>1, <2>1, <2>2 DEF SlotsKept, Resume
<1>2. ASSUME NEW t \in Thread, ReturnAtOnce(t)
      PROVE  SlotsKept
    BY <1>2, CallKeepsSlots DEF ReturnAtOnce, Call, kernelVars, processVars
<1>3. ASSUME NEW t \in Thread, Wait(t)
      PROVE  SlotsKept
    BY <1>3, CallKeepsSlots DEF Wait, Call, Suspend, processVars
<1>4. ASSUME NEW t \in Thread, SendSyncRequest(t)
      PROVE  SlotsKept
    BY <1>4, CallKeepsSlots DEF SendSyncRequest, Call, Suspend, processVars
<1>5. ASSUME NEW t \in Thread, ReplyAndReceive(t)
      PROVE  SlotsKept
    BY <1>5, CallKeepsSlots DEF ReplyAndReceive, Call, Suspend, processVars
<1>6. ASSUME NEW t \in Thread, ExitThread(t)
      PROVE  SlotsKept
    BY <1>6, CallKeepsSlots DEF ExitThread, Call, processVars
<1>7. ASSUME NEW t \in Thread, Compute(t) \/ WriteCommand(t)
      PROVE  SlotsKept
    BY <1>7 DEF SlotsKept, Compute, WriteCommand, Instruction, kernelVars
<1>8. ASSUME NEW t \in Thread, NEW call, NEW resume, NEW how, Awake(t, call, resume, how)
      PROVE  SlotsKept
    <2>1. thr \in [Thread -> CommonThreads]
        BY BaseTypes
    <2>2. /\ thr[t].state = "Waiting" /\ tls' = tls /\ slot' = slot
          /\ thr' = [thr EXCEPT ![t] = [state |-> "Ready", call |-> "none", resume |-> resume]]
        BY <1>8 DEF Awake, processVars
    <2>3. thr'[t].state = "Ready" /\ \A u \in Thread : u # t => thr'[u] = thr[u]
        BY <2>1, <2>2
    <2> QED
        BY <2>2, <2>3 DEF SlotsKept
<1>9. ASSUME Leave
      PROVE  SlotsKept
    BY <1>9, LeaveStep DEF SlotsKept, Leave
<1>10. ASSUME RequestMade
       PROVE  SlotsKept
    <2>1. CASE Awake(Main, "ReplyAndReceive", "Index0", "Index0")
        BY <1>8, <2>1, RegisterConstants
    <2>2. CASE UNCHANGED <<thr, panic, processVars, machineVars, current, programVars>>
        BY <2>2 DEF SlotsKept, processVars
    <2> QED
        BY <1>10, <2>1, <2>2 DEF RequestMade
<1>11. ASSUME NEW t \in Thread, WakeUp(t) \/ ServiceReplies(t)
       PROVE  SlotsKept
    BY <1>8, <1>11 DEF WakeUp, ServiceReplies
<1>12. CASE UNCHANGED vars
    BY <1>12 DEF vars, kernelVars, processVars, SlotsKept
<1> QED
    BY <1>1, <1>2, <1>3, <1>4, <1>5, <1>6, <1>7, <1>9, <1>10, <1>11, <1>12 DEF Next, Step

\* The main thread has the first slot.
LEMMA InitSlots == ASSUME Init PROVE SlotsOK
<1>1. PICK n \in Departed : tls = TlsAfter(n + 1)
    BY DEF Init
<1>2. 1 \in 1..MaxThreads
    OBVIOUS
<1>3. \A t \in Thread : thr[t].state = "Absent" <=> t >= 1
    BY DEF Init, NewThread, Thread, Main
<1>4. \A t \in Thread : slot[t] = IF t = Main THEN 0 ELSE IF t < 1 THEN n + t ELSE NoSlot
    <2>1. slot = [t \in Thread |-> IF t = Main THEN 0 ELSE NoSlot]
        BY FirstSlot DEF Init
    <2>2. \A t \in Thread : t # Main => ~(t < 1)
        BY DEF Thread, Main
    <2> QED
        BY <2>1, <2>2
<1> QED
    BY <1>1, <1>2, <1>3, <1>4 DEF SlotsOK

\* A new thread gets the next slot.
LEMMA CreateSlots ==
    ASSUME FewThreads, Base, SlotsOK, NEW t \in Thread, CreateThread(t)
    PROVE  SlotsOK'
<1>1. PICK n \in Departed, k \in 1..MaxThreads :
          /\ tls = TlsAfter(n + k)
          /\ \A v \in Thread : thr[v].state = "Absent" <=> v >= k
          /\ \A v \in Thread : slot[v] = IF v = Main THEN 0 ELSE IF v < k THEN n + v ELSE NoSlot
    BY DEF SlotsOK
<1>2. PICK u \in Thread, word \in EntryWords :
          /\ thr[u].state = "Absent" /\ \A v \in 0..u - 1 : thr[v].state # "Absent"
          /\ thr'[u] = NewThread("Ready")
          /\ \A v \in Thread : v # u => thr'[v] = thr[v]
          /\ slot'[u] = TlsSlot(tls)
          /\ \A v \in Thread : v # u => slot'[v] = slot[v]
    BY CreateEffect
<1>3. n \in Nat /\ k \in Nat /\ u \in Nat /\ u <= MaxThreads - 1
    BY DEF Thread
<1>4. u = k
    <2>1. u >= k
        BY <1>1, <1>2
    <2>2. ~(u > k)
        <3> SUFFICES ASSUME u > k PROVE FALSE
            OBVIOUS
        <3>1. k \in Thread /\ k \in 0..u - 1
            BY <1>3 DEF Thread
        <3>2. k >= k
            BY <1>3
        <3> QED
            BY <1>1, <1>2, <3>1, <3>2
    <2> QED
        BY <1>3, <2>1, <2>2
<1>5. n + k \in 1..255
    BY <1>3, <1>4 DEF FewThreads
<1>6. TlsSlot(tls) = n + k /\ TlsRest(tls) = TlsAfter(n + k + 1)
    BY <1>1, <1>5, NextSlot
<1>7. tls' = TlsAfter(n + (k + 1))
    <2>1. n + k + 1 = n + (k + 1)
        BY <1>3
    <2> QED
        BY <1>6, <2>1 DEF CreateThread
<1>8. k + 1 \in 1..MaxThreads
    BY <1>3, <1>4
<1>9. thr'[u].state = "Ready"
    BY <1>2 DEF NewThread
<1>10. \A v \in Thread : thr'[v].state = "Absent" <=> v >= k + 1
    BY <1>1, <1>2, <1>3, <1>4, <1>9 DEF Thread
<1>11. \A v \in Thread : slot'[v] = IF v = Main THEN 0 ELSE IF v < k + 1 THEN n + v ELSE NoSlot
    BY <1>1, <1>2, <1>3, <1>4, <1>6 DEF Thread, Main
<1> QED
    BY <1>7, <1>8, <1>10, <1>11 DEF SlotsOK

\* Every step keeps the slots in order.
LEMMA StepSlots == ASSUME FewThreads, Base, SlotsOK, [Next]_vars PROVE SlotsOK'
<1>1. CASE \E t \in Thread : CreateThread(t)
    BY <1>1, CreateSlots
<1>2. CASE \A t \in Thread : ~CreateThread(t)
    <2>1. SlotsKept
        BY <1>2, OthersKeepSlots
    <2> QED
        BY <2>1 DEF SlotsKept, SlotsOK
<1> QED
    BY <1>1, <1>2

\* Threads share one machine and do not see each other's state: as long as the
\* process has at most 256 threads in its life, however many of them are gone,
\* allocate_tls never gives a slot out twice, and a slice always runs on its own
\* thread's stack and storage.
THEOREM ThreadsAreSeparate == FewThreads => (Spec => []ThreadsDoNotMix)
<1> SUFFICES ASSUME FewThreads PROVE Spec => []ThreadsDoNotMix
    OBVIOUS
<1>1. Base /\ SlotsOK => ThreadsDoNotMix
    <2> SUFFICES ASSUME Base, SlotsOK
                 PROVE  ThreadsDoNotMix
        OBVIOUS
    <2>1. current # NoThread => cpu.sp = current /\ cpuTls = slot[current]
        BY DEF Base, SliceOK
    <2>2. PICK n \in Departed, k \in 1..MaxThreads :
              \A v \in Thread : slot[v] = IF v = Main THEN 0 ELSE IF v < k THEN n + v ELSE NoSlot
        BY DEF SlotsOK
    <2>3. n \in Nat
        OBVIOUS
    <2>4. \A t, u \in Thread : t # u /\ slot[t] # NoSlot => slot[t] # slot[u]
        BY <2>2, <2>3 DEF Thread, Main, NoSlot
    <2> QED
        BY <2>1, <2>4 DEF ThreadsDoNotMix
<1>2. Init => SlotsOK
    BY InitSlots
<1>3. Base /\ SlotsOK /\ [Next]_vars => SlotsOK'
    BY StepSlots
<1>4. Spec => []Base
    BY GuestBase
<1> QED
    BY <1>1, <1>2, <1>3, <1>4, PTL DEF Spec

-----------------------------------------------------------------------------
(* The answers *)

\* A step changes how a call ended for a thread that is there, and for no other.
LEMMA StepFresh == ASSUME Base, FreshOK, [Next]_vars PROVE FreshOK'
<1>1. ASSUME NEW t \in Thread, NEW how, Ends(t, how), thr[t].state # "Absent", SlotsKept
      PROVE  FreshOK'
    <2>1. \A u \in Thread : u # t => outcome'[u] = outcome[u]
        BY <1>1, BaseTypes DEF Ends
    <2> QED
        BY <1>1, <2>1 DEF FreshOK, SlotsKept
<1>2. ASSUME outcome' = outcome, SlotsKept
      PROVE  FreshOK'
    BY <1>2 DEF FreshOK, SlotsKept
<1>3. ASSUME NEW t \in Thread, Executing(t)
      PROVE  thr[t].state # "Absent"
    BY <1>3, RegisterConstants DEF Executing, Base, SliceOK
<1>4. CASE \E t \in Thread : CreateThread(t)
    <2>1. PICK t \in Thread : CreateThread(t)
        BY <1>4
    <2>2. PICK u \in Thread, word \in EntryWords :
              /\ thr'[u] = NewThread("Ready")
              /\ \A v \in Thread : v # u => thr'[v] = thr[v]
        BY <2>1, CreateEffect
    <2>3. thr'[u].state = "Ready"
        BY <2>2 DEF NewThread
    <2>4. Ends(t, "ok") /\ Executing(t)
        BY <2>1 DEF CreateThread, Call
    <2>5. \A v \in Thread : v # t => outcome'[v] = outcome[v]
        BY <2>4, BaseTypes DEF Ends
    <2>6. thr[t].state # "Absent"
        BY <1>3, <2>4
    <2> QED
        BY <2>2, <2>3, <2>5, <2>6 DEF FreshOK
<1>5. CASE \A t \in Thread : ~CreateThread(t)
    <2>1. SlotsKept
        BY <1>5, OthersKeepSlots
    <2>2. ASSUME NEW t \in Thread, Step(t)
          PROVE  FreshOK'
        <3>1. Executing(t)
            BY <2>2 DEF Step, ReturnAtOnce, Wait, SendSyncRequest, ReplyAndReceive, CreateThread,
                        ExitThread, Compute, WriteCommand, Instruction, Call
        <3>2. \E how : Ends(t, how)
            BY <2>2 DEF Step, ReturnAtOnce, Wait, SendSyncRequest, ReplyAndReceive, CreateThread,
                        ExitThread, Compute, WriteCommand, Instruction
        <3> QED
            BY <1>1, <1>3, <2>1, <3>1, <3>2
    <2>3. ASSUME NEW t \in Thread, NEW call, NEW resume, NEW how, Awake(t, call, resume, how)
          PROVE  FreshOK'
        BY <1>1, <2>1, <2>3 DEF Awake
    <2>4. ASSUME NEW t \in Thread, WakeUp(t) \/ ServiceReplies(t)
          PROVE  FreshOK'
        BY <2>3, <2>4 DEF WakeUp, ServiceReplies
    <2>5. ASSUME NEW t \in Thread, Resume(t)
          PROVE  FreshOK'
        BY <1>2, <2>1, <2>5 DEF Resume
    <2>6. ASSUME Leave
          PROVE  FreshOK'
        BY <1>2, <2>1, <2>6 DEF Leave
    <2>7. ASSUME RequestMade
          PROVE  FreshOK'
        <3>1. CASE Awake(Main, "ReplyAndReceive", "Index0", "Index0")
            BY <2>3, <3>1, RegisterConstants
        <3>2. CASE UNCHANGED <<thr, panic, processVars, machineVars, current, programVars>>
            BY <1>2, <2>1, <3>2 DEF programVars
        <3> QED
            BY <2>7, <3>1, <3>2 DEF RequestMade
    <2>8. CASE UNCHANGED vars
        BY <1>2, <2>1, <2>8 DEF vars, programVars
    <2> QED
        BY <2>2, <2>4, <2>5, <2>6, <2>7, <2>8 DEF Next
<1> QED
    BY <1>4, <1>5

\* A thread that a step does not touch.
LEMMA OthersKeepRequest ==
    ASSUME Base, Base', NEW u \in Thread, RequestFor(u), u # current, u # current',
           thr'[u] = thr[u], ipcData'[u] = ipcData[u], outcome'[u] = outcome[u],
           asked'[u] = asked[u], saved'[u] = saved[u]
    PROVE  RequestFor(u)'
<1>1. thr'[u].state # "Running"
    BY DEF Base, SliceOK
<1>2. Regs(u)' = Regs(u)
    BY DEF Regs
<1> QED
    BY <1>1, <1>2 DEF RequestFor

\* A system call of thread t that keeps the storage: what is left to show is t's own
\* request.
LEMMA CallAnswers ==
    ASSUME Base, Base', AnswersOK, NEW t \in Thread, Executing(t), current' = current,
           UNCHANGED <<processVars, whole, written>>,
           \A u \in Thread : u # t => thr'[u] = thr[u] /\ ipcData'[u] = ipcData[u]
                                      /\ outcome'[u] = outcome[u] /\ asked'[u] = asked[u],
           RequestFor(t)'
    PROVE  WholeOK' /\ RequestOK'
<1>1. WholeOK'
    BY DEF AnswersOK, WholeOK, processVars
<1>2. \A u \in Thread : u # t => RequestFor(u)'
    BY OthersKeepRequest DEF AnswersOK, RequestOK, Executing, processVars
<1> QED
    BY <1>1, <1>2 DEF RequestOK

\* The table after Suspend.
LEMMA SuspendStep ==
    ASSUME Base, NEW t \in Thread, NEW svc \in WaitCall, Suspend(t, svc)
    PROVE  /\ thr'[t].state = "Waiting" /\ thr'[t].call = svc /\ thr'[t].resume = thr[t].resume
           /\ \A u \in Thread : u # t => thr'[u] = thr[u]
<1>1. thr \in [Thread -> CommonThreads]
    BY BaseTypes
<1> QED
    BY <1>1 DEF Suspend, CommonThreads

\* The registers of the thread that makes a call.
LEMMA CallRegs ==
    ASSUME Base, NEW t \in Thread, NEW svc \in Svc, NEW r0 \in Result, NEW r1 \in AHandle..1,
           NEW halt \in BOOLEAN, Call(t, svc, r0, r1, halt)
    PROVE  /\ Regs(t)' = cpu'
           /\ cpu'.prev = svc /\ cpu'.r0 = r0 /\ cpu'.r1 = r1
           /\ thr[t].state = "Running" /\ Executing(t) /\ current' = current /\ written' = written
           /\ cpuTls = slot[t]
BY CallStep DEF Regs, Executing

\* Calls that return at once, wait or exit.
LEMMA PlainAnswers ==
    ASSUME Base, Base', AnswersOK, NEW t \in Thread, ReturnAtOnce(t) \/ Wait(t) \/ ExitThread(t)
    PROVE  WholeOK' /\ RequestOK'
<1>1. thr \in [Thread -> CommonThreads] /\ outcome \in [Thread -> ThreadResume \cup {"none", "ok", "error"}]
    BY BaseTypes
<1>2. UNCHANGED <<processVars, whole>> /\ ipcData' = ipcData /\ asked' = asked
    BY DEF ReturnAtOnce, Wait, ExitThread, kernelVars
<1>3. PICK svc \in Svc, r0 \in Result, r1 \in AHandle..1, halt \in BOOLEAN :
          Call(t, svc, r0, r1, halt) /\ svc # "SendSyncRequest"
    BY CallConstants, RegisterConstants DEF ReturnAtOnce, Wait, ExitThread
<1>4. /\ Regs(t)' = cpu' /\ cpu'.prev = svc
      /\ thr[t].state = "Running" /\ Executing(t) /\ current' = current /\ written' = written
    BY <1>3, CallRegs
<1>5. \A u \in Thread : u # t => outcome'[u] = outcome[u]
    BY <1>1 DEF ReturnAtOnce, Wait, ExitThread, Ends
<1>6. /\ \A u \in Thread : u # t => thr'[u] = thr[u]
      /\ thr'[t].state = "Waiting" => thr'[t].call = svc
    <2>1. CASE ReturnAtOnce(t)
        BY <1>4, <2>1 DEF ReturnAtOnce, kernelVars
    <2>2. CASE Wait(t)
        <3>1. PICK svc2 \in WaitCall : Suspend(t, svc2) /\ cpu'.prev = svc2
            <4>1. cpu \in Registers
                BY BaseTypes
            <4> QED
                BY <2>2, <4>1, CallConstants DEF Wait, Call, Registers
        <3> QED
            BY <1>4, <3>1, SuspendStep
    <2>3. CASE ExitThread(t)
        BY <1>1, <2>3 DEF ExitThread, CommonThreads
    <2> QED
        BY <2>1, <2>2, <2>3
<1>7. RequestFor(t)'
    BY <1>3, <1>4, <1>6 DEF RequestFor
<1> QED
    BY <1>2, <1>4, <1>5, <1>6, <1>7, CallAnswers

\* SendSyncRequest: what goes to the kernel is what the thread had written.
LEMMA SendAnswers ==
    ASSUME Base, Base', AnswersOK, NEW t \in Thread, SendSyncRequest(t)
    PROVE  WholeOK' /\ RequestOK'
<1>1. /\ ipcData \in [Thread -> Messages] /\ asked \in [Thread -> Messages]
      /\ outcome \in [Thread -> ThreadResume \cup {"none", "ok", "error"}]
    BY BaseTypes
<1>2. /\ UNCHANGED <<processVars, whole>>
      /\ ipcData' = [ipcData EXCEPT ![t] = command[cpuTls]]
      /\ asked' = [asked EXCEPT ![t] = IF whole[t] THEN Message("request", t, written[t])
                                                   ELSE command[cpuTls]]
    BY DEF SendSyncRequest
<1>3. "SendSyncRequest" \in Svc /\ "SendSyncRequest" \in WaitCall /\ "ok" \in Result /\ "mismatch" \in Result
    BY CallConstants
<1>4. /\ Regs(t)' = cpu' /\ cpu'.prev = "SendSyncRequest"
      /\ thr[t].state = "Running" /\ Executing(t) /\ current' = current /\ written' = written
      /\ cpuTls = slot[t]
    BY <1>3, CallRegs, RegisterConstants DEF SendSyncRequest
<1>5. ipcData'[t] = asked'[t]
    BY <1>1, <1>2, <1>4 DEF AnswersOK, WholeOK
<1>6. \A u \in Thread : u # t => ipcData'[u] = ipcData[u] /\ outcome'[u] = outcome[u]
                                 /\ asked'[u] = asked[u]
    BY <1>1, <1>2 DEF SendSyncRequest, Ends
<1>7. (\A u \in Thread : u # t => thr'[u] = thr[u]) /\ RequestFor(t)'
    <2>1. CASE Suspend(t, "SendSyncRequest") /\ Ends(t, "none")
        <3>1. /\ thr'[t].state = "Waiting" /\ thr'[t].call = "SendSyncRequest"
              /\ \A u \in Thread : u # t => thr'[u] = thr[u]
            BY <1>3, <2>1, SuspendStep
        <3> QED
            BY <1>4, <1>5, <3>1 DEF RequestFor
    <2>2. CASE Ends(t, "error") /\ UNCHANGED thr
        <3>1. outcome'[t] = "error" /\ thr'[t].state = "Running"
            BY <1>1, <1>4, <2>2 DEF Ends
        <3> QED
            BY <2>2, <3>1 DEF RequestFor
    <2> QED
        BY <2>1, <2>2 DEF SendSyncRequest
<1> QED
    BY <1>2, <1>4, <1>6, <1>7, CallAnswers

\* ReplyAndReceive.
LEMMA ReplyAnswers ==
    ASSUME Base, Base', AnswersOK, NEW t \in Thread, ReplyAndReceive(t)
    PROVE  WholeOK' /\ RequestOK'
<1>1. /\ ipcData \in [Thread -> Messages]
      /\ outcome \in [Thread -> ThreadResume \cup {"none", "ok", "error"}]
    BY BaseTypes
<1>2. /\ UNCHANGED <<processVars, whole>> /\ asked' = asked
      /\ ipcData' = [ipcData EXCEPT ![t] = command[cpuTls]]
    BY DEF ReplyAndReceive
<1>3. "ReplyAndReceive" \in Svc /\ "ReplyAndReceive" \in WaitCall /\ "arg" \in Result /\ "mismatch" \in Result
    BY CallConstants
<1>4. /\ Regs(t)' = cpu' /\ cpu'.prev = "ReplyAndReceive"
      /\ thr[t].state = "Running" /\ Executing(t) /\ current' = current /\ written' = written
    BY <1>3, CallRegs, RegisterConstants DEF ReplyAndReceive
<1>5. \A u \in Thread : u # t => ipcData'[u] = ipcData[u] /\ outcome'[u] = outcome[u]
    BY <1>1, <1>2 DEF ReplyAndReceive, Ends
<1>6. (\A u \in Thread : u # t => thr'[u] = thr[u]) /\ RequestFor(t)'
    <2>1. CASE Suspend(t, "ReplyAndReceive")
        <3>1. /\ thr'[t].state = "Waiting" /\ thr'[t].call = "ReplyAndReceive"
              /\ \A u \in Thread : u # t => thr'[u] = thr[u]
            BY <1>3, <2>1, SuspendStep
        <3> QED
            BY <1>4, <3>1 DEF RequestFor
    <2>2. CASE UNCHANGED thr
        BY <1>4, <2>2 DEF RequestFor
    <2> QED
        BY <2>1, <2>2 DEF ReplyAndReceive
<1> QED
    BY <1>2, <1>4, <1>5, <1>6, CallAnswers

\* CreateThread: the new thread has made no call, whatever is before its entry point.
LEMMA CreateAnswers ==
    ASSUME Base, Base', AnswersOK, NEW t \in Thread, CreateThread(t)
    PROVE  WholeOK' /\ RequestOK'
<1>1. PICK u \in Thread, word \in EntryWords :
          /\ u # t
          /\ thr[u].state = "Absent"
          /\ thr'[u] = NewThread("Ready")
          /\ \A v \in Thread : v # u => thr'[v] = thr[v]
          /\ \A v \in Thread : v # u => slot'[v] = slot[v]
          /\ \A v \in Thread : v # u => saved'[v] = saved[v]
          /\ \A s \in DOMAIN command : command'[s] = command[s]
    BY CreateEffect
<1>2. "CreateThread" \in Svc /\ "ok" \in Result
    BY CallConstants
<1>3. Call(t, "CreateThread", "ok", AHandle, TRUE) /\ Ends(t, "ok")
      /\ ipcData' = ipcData /\ whole' = whole /\ asked' = asked
    BY DEF CreateThread
<1>4. /\ Regs(t)' = cpu' /\ cpu'.prev = "CreateThread"
      /\ thr[t].state = "Running" /\ Executing(t) /\ current' = current /\ written' = written
      /\ cpuTls = slot[t]
    BY <1>2, <1>3, CallRegs, RegisterConstants
<1>5. \A v \in Thread : v # t => outcome'[v] = outcome[v]
    BY <1>3, BaseTypes DEF Ends
<1>6. current = t /\ slot[t] \in DOMAIN command
    BY <1>4 DEF Executing, Base, StorageOK
<1>7. WholeOK'
    BY <1>1, <1>3, <1>4, <1>6 DEF AnswersOK, WholeOK
<1>8. ASSUME NEW v \in Thread
      PROVE  RequestFor(v)'
    <2>1. CASE v = t
        BY <1>1, <1>4, <2>1 DEF RequestFor
    <2>2. CASE v = u
        <3>1. thr'[u].state = "Ready" /\ outcome'[u] = "none"
            BY <1>1, <1>5 DEF NewThread, AnswersOK, FreshOK
        <3> QED
            BY <2>2, <3>1 DEF RequestFor
    <2>3. CASE v # t /\ v # u
        BY <1>1, <1>3, <1>4, <1>5, <1>6, <2>3, OthersKeepRequest DEF AnswersOK, RequestOK
    <2> QED
        BY <2>1, <2>2, <2>3
<1> QED
    BY <1>7, <1>8 DEF RequestOK

\* Other instructions, of which some write the command.
LEMMA InstructionAnswers ==
    ASSUME Base, Base', AnswersOK, NEW t \in Thread, Compute(t) \/ WriteCommand(t)
    PROVE  WholeOK' /\ RequestOK'
<1>1. Instruction(t)
    BY DEF Compute, WriteCommand
<1>2. /\ current = t /\ t # NoThread /\ thr[t].state = "Running" /\ cpuTls = slot[t]
      /\ cpu'.prev = "other"
      /\ \A u \in Thread : u # t => outcome'[u] = outcome[u]
      /\ thr' = thr /\ ipcData' = ipcData /\ saved' = saved /\ slot' = slot
      /\ current' = current /\ asked' = asked
    BY <1>1, InstructionStep
<1>3. RequestFor(t)'
    BY <1>2 DEF RequestFor, Regs
<1>4. RequestOK'
    BY <1>2, <1>3, OthersKeepRequest DEF AnswersOK, RequestOK
<1>5. WholeOK'
    <2>1. CASE Compute(t)
        BY <1>2, <2>1 DEF Compute, AnswersOK, WholeOK
    <2>2. CASE WriteCommand(t)
        <3>1. /\ written' = [written EXCEPT ![t] = @ + 1]
              /\ whole' = [whole EXCEPT ![t] = TRUE]
              /\ command' = [command EXCEPT ![slot[t]] = Message("request", t, written'[t])]
            BY <1>2, <2>2 DEF WriteCommand
        <3>2. slot[t] \in DOMAIN command /\ whole \in [Thread -> BOOLEAN]
            BY <1>2, BaseTypes DEF Base, StorageOK
        <3>3. command'[slot[t]] = Message("request", t, written'[t])
            BY <3>1, <3>2
        <3>4. \A u \in Thread : u # t => ~whole'[u]
            BY <1>2, <3>1, <3>2 DEF AnswersOK, WholeOK
        <3> QED
            BY <1>2, <3>3, <3>4 DEF WholeOK
    <2> QED
        BY <2>1, <2>2
<1> QED
    BY <1>4, <1>5

\* Waking a thread: what is left to show is its own request.
LEMMA AwakeAnswers ==
    ASSUME Base, Base', AnswersOK, NEW t \in Thread, NEW call \in WaitCall,
           NEW resume \in ThreadResume, NEW how \in ThreadResume \cup {"none", "ok", "error"},
           Awake(t, call, resume, how),
           \A u \in Thread : u # t => ipcData'[u] = ipcData[u],
           call = "SendSyncRequest" => ipcData'[t] = Response(ipcData[t])
    PROVE  WholeOK' /\ RequestOK'
<1>1. /\ current = NoThread /\ thr[t].state = "Waiting" /\ thr[t].call = call
      /\ thr'[t] = [state |-> "Ready", call |-> "none", resume |-> resume]
      /\ \A u \in Thread : u # t => thr'[u] = thr[u]
      /\ \A u \in Thread : u # t => outcome'[u] = outcome[u]
      /\ saved' = saved /\ slot' = slot /\ command' = command /\ current' = current
      /\ written' = written /\ whole' = whole /\ asked' = asked
    BY AwakeStep
<1>2. thr'[t].state = "Ready" /\ \A u \in Thread : u # current /\ u # current'
    BY <1>1, RegisterConstants
<1>3. WholeOK'
    BY <1>1 DEF AnswersOK, WholeOK
<1>4. saved[t].prev = call /\ (call = "SendSyncRequest" => ipcData[t] = asked[t])
    BY <1>1, <1>2 DEF AnswersOK, RequestOK, RequestFor, Regs
<1>5. RequestFor(t)'
    BY <1>1, <1>2, <1>4 DEF RequestFor, Regs
<1>6. \A u \in Thread : u # t => RequestFor(u)'
    BY <1>1, <1>2, OthersKeepRequest DEF AnswersOK, RequestOK
<1> QED
    BY <1>3, <1>5, <1>6 DEF RequestOK

\* Waking a thread.
LEMMA WakeAnswers ==
    ASSUME Base, Base', AnswersOK, NEW t \in Thread, WakeUp(t) \/ ServiceReplies(t)
    PROVE  WholeOK' /\ RequestOK'
<1>1. CASE WakeUp(t)
    <2>1. PICK call \in WaitCall, resume \in ThreadResume,
               how \in ThreadResume \cup {"none", "ok", "error"} :
              Awake(t, call, resume, how) /\ call # "SendSyncRequest"
        BY <1>1, WakeUpForms
    <2>2. ipcData' = ipcData
        BY <1>1, WakeUpForms
    <2> QED
        BY <2>1, <2>2, AwakeAnswers
<1>2. CASE ServiceReplies(t)
    <2>1. Awake(t, "SendSyncRequest", "Normal", "ok")
        BY <1>2 DEF ServiceReplies
    <2>2. "SendSyncRequest" \in WaitCall /\ "Normal" \in ThreadResume
        BY CallConstants DEF ThreadResume
    <2>3. /\ ipcData'[t] = Response(ipcData[t])
          /\ \A u \in Thread : u # t => ipcData'[u] = ipcData[u]
        BY <1>2, BaseTypes DEF ServiceReplies
    <2> QED
        BY <2>1, <2>2, <2>3, AwakeAnswers
<1> QED
    BY <1>1, <1>2

\* A slice begins: the thread's data is copied to its storage.
LEMMA ResumeAnswers ==
    ASSUME Base, Base', AnswersOK, NEW t \in Thread, panic = "none", Resume(t)
    PROVE  WholeOK' /\ RequestOK'
<1>1. /\ current = NoThread /\ thr[t].state = "Ready" /\ current' = t
      /\ HandleResume(t, thr[t].resume)
      /\ saved' = saved /\ slot' = slot
      /\ outcome' = outcome /\ written' = written /\ whole' = whole /\ asked' = asked
      /\ command' = [command EXCEPT ![slot[t]] = ipcData[t]]
    BY DEF Resume, CopyIpcData
<1>2. thr \in [Thread -> CommonThreads] /\ thr[t].resume \in ThreadResume
    BY BaseTypes DEF CommonThreads
<1>3. thr'[t].state = "Running" /\ \A u \in Thread : u # t => thr'[u] = thr[u]
    BY <1>2 DEF Resume, TakeResume, CommonThreads
<1>4. /\ cpu'.prev = saved[t].prev
      /\ \A u \in Thread : u # t => ipcData'[u] = ipcData[u]
      /\ saved[t].prev # "ReplyAndReceive" => ipcData' = ipcData
    BY <1>1, <1>2, HandleResumeTypes
<1>5. \A u \in Thread : u # current /\ ~whole[u]
    BY <1>1, RegisterConstants DEF AnswersOK, WholeOK
<1>6. WholeOK'
    BY <1>1, <1>5 DEF WholeOK
<1>7. command'[slot[t]] = ipcData[t]
    BY <1>1 DEF Base, StorageOK
<1>8. Regs(t)' = cpu' /\ Regs(t) = saved[t]
    BY <1>1, <1>5 DEF Regs
<1>9. RequestFor(t)'
    BY <1>1, <1>3, <1>4, <1>7, <1>8 DEF AnswersOK, RequestOK, RequestFor
<1>10. \A u \in Thread : u # t => RequestFor(u)'
    BY <1>1, <1>3, <1>4, <1>5, OthersKeepRequest DEF AnswersOK, RequestOK
<1> QED
    BY <1>6, <1>9, <1>10 DEF RequestOK

\* A slice ends.
LEMMA LeaveAnswers ==
    ASSUME Base, Base', AnswersOK, Leave
    PROVE  WholeOK' /\ RequestOK'
<1>1. /\ current \in Thread /\ current' = NoThread /\ ranSvc
      /\ saved'[current] = cpu
      /\ \A u \in Thread : u # current => saved'[u] = saved[u]
      /\ \A u \in Thread : u # current => thr'[u] = thr[u]
      /\ thr'[current].state = IF thr[current].state = "Running" THEN "Ready"
                                                                 ELSE thr[current].state
      /\ thr'[current].call = thr[current].call
      /\ ~whole'[current]
      /\ \A u \in Thread : u # current => whole'[u] = whole[u]
    BY LeaveStep
<1>2. ipcData' = ipcData /\ slot' = slot /\ command' = command /\ outcome' = outcome
      /\ written' = written /\ asked' = asked
    BY DEF Leave
<1>3. \A u \in Thread : ~whole'[u]
    BY <1>1 DEF AnswersOK, WholeOK
<1>4. \A u \in Thread : Regs(u)' = Regs(u)
    BY <1>1, RegisterConstants DEF Regs
<1>5. \A u \in Thread : thr'[u].state # "Running"
    BY <1>1, RegisterConstants DEF Base, SliceOK
<1>6. ASSUME NEW u \in Thread
      PROVE  RequestFor(u)'
    <2>1. thr'[u].state = "Waiting" => thr[u].state = "Waiting" /\ thr'[u].call = thr[u].call
        BY <1>1
    <2>2. thr'[u].state = "Ready" => thr[u].state \in {"Ready", "Running"}
        BY <1>1
    <2> QED
        BY <1>2, <1>4, <1>5, <2>1, <2>2 DEF AnswersOK, RequestOK, RequestFor
<1> QED
    BY <1>3, <1>6 DEF WholeOK, RequestOK

\* Another process makes a request.
LEMMA RequestAnswers ==
    ASSUME Base, Base', AnswersOK, RequestMade
    PROVE  WholeOK' /\ RequestOK'
<1>1. ipcData' = ipcData
    BY DEF RequestMade
<1>2. CASE Awake(Main, "ReplyAndReceive", "Index0", "Index0")
    <2>1. "ReplyAndReceive" \in WaitCall /\ "Index0" \in ThreadResume /\ Main \in Thread
        BY CallConstants, RegisterConstants DEF ThreadResume
    <2> QED
        BY <1>1, <1>2, <2>1, AwakeAnswers
<1>3. CASE UNCHANGED <<thr, panic, processVars, machineVars, current, programVars>>
    BY <1>1, <1>3 DEF AnswersOK, WholeOK, RequestOK, RequestFor, Regs, processVars, machineVars, programVars
<1> QED
    BY <1>2, <1>3 DEF RequestMade

\* Every step keeps the answers.
LEMMA StepAnswers == ASSUME Base, Base', AnswersOK, [Next]_vars PROVE AnswersOK'
<1>1. FreshOK'
    BY StepFresh DEF AnswersOK
<1>2. CASE Next
    <2>1. panic = "none"
        BY <1>2 DEF Next
    <2>2. ASSUME NEW t \in Thread, Step(t)
          PROVE  WholeOK' /\ RequestOK'
        BY <2>2, PlainAnswers, SendAnswers, ReplyAnswers, CreateAnswers, InstructionAnswers DEF Step
    <2>3. ASSUME NEW t \in Thread, Resume(t) \/ WakeUp(t) \/ ServiceReplies(t)
          PROVE  WholeOK' /\ RequestOK'
        BY <2>1, <2>3, ResumeAnswers, WakeAnswers
    <2> QED
        BY <1>1, <1>2, <2>2, <2>3, LeaveAnswers, RequestAnswers DEF Next, AnswersOK
<1>3. CASE UNCHANGED vars
    BY <1>1, <1>3 DEF AnswersOK, WholeOK, RequestOK, RequestFor, Regs, vars, kernelVars, processVars,
                      machineVars, programVars
<1> QED
    BY <1>2, <1>3

\* At the start nobody has asked for anything.
LEMMA InitAnswers == ASSUME Init PROVE AnswersOK
<1>1. \A t \in Thread : outcome[t] = "none" /\ ~whole[t] /\ thr[t].state \in {"Absent", "Ready"}
    BY DEF Init, NewThread
<1> QED
    BY <1>1 DEF AnswersOK, FreshOK, WholeOK, RequestOK, RequestFor

\* When SendSyncRequest has returned, the thread's storage has the response to the
\* command it sent, however its slices were cut and whatever the other threads of the
\* process did meanwhile, for every number of threads and every entry point.
THEOREM AnswersDoArrive == Spec => []AnswersArrive
<1>1. Base /\ AnswersOK => AnswersArrive
    <2> SUFFICES ASSUME Base, AnswersOK, Returned("SendSyncRequest"), outcome[current] = "ok"
                 PROVE  command[slot[current]] = Response(asked[current])
        BY DEF AnswersArrive
    <2>1. current \in Thread /\ current # NoThread /\ ~halted /\ cpu.prev = "SendSyncRequest"
        BY BaseTypes DEF Returned
    <2>2. thr[current].state = "Running"
        BY <2>1 DEF Base, SliceOK
    <2>3. RequestFor(current) /\ Regs(current) = cpu
        BY <2>1 DEF AnswersOK, RequestOK, Regs
    <2> QED
        BY <2>1, <2>2, <2>3 DEF RequestFor
<1>2. Init => AnswersOK
    BY InitAnswers
<1>3. Base /\ Base' /\ AnswersOK /\ [Next]_vars => AnswersOK'
    BY StepAnswers
<1>4. Spec => []Base
    BY GuestBase
<1> QED
    BY <1>1, <1>2, <1>3, <1>4, PTL DEF Spec

-----------------------------------------------------------------------------
(* The results of calls *)

\* What handle_resume puts into the registers.
LEMMA DeliverResults ==
    ASSUME NEW regs \in Registers
    PROVE  /\ Deliver(regs, "Normal") = regs
           /\ Deliver(regs, "TimeoutReached").r0 = "timeout"
           /\ Deliver(regs, "Index0").r0 = regs.r0 /\ Deliver(regs, "Index0").r1 = 0
           /\ Deliver(regs, "Index1").r0 = regs.r0 /\ Deliver(regs, "Index1").r1 = 1
<1>1. Deliver(regs, "Normal") = regs
    BY DEF Deliver
<1>2. Deliver(regs, "TimeoutReached") = [regs EXCEPT !.r0 = "timeout"]
    BY DEF Deliver
<1>3. Deliver(regs, "Index0") = [regs EXCEPT !.r1 = 0]
    BY DEF Deliver
<1>4. Deliver(regs, "Index1") = [regs EXCEPT !.r1 = 1]
    BY DEF Deliver
<1> QED
    BY <1>1, <1>2, <1>3, <1>4 DEF Registers

\* A thread that a step does not touch.
LEMMA OthersKeepResult ==
    ASSUME Base, Base', NEW u \in Thread, ResultFor(u), u # current, u # current',
           thr'[u] = thr[u], outcome'[u] = outcome[u], saved'[u] = saved[u],
           requests' # <<>> \/ requests' = requests \/ u # Main
    PROVE  ResultFor(u)'
<1>1. thr'[u].state # "Running" /\ thr[u].state # "Running"
    BY DEF Base, SliceOK
<1>2. Regs(u)' = Regs(u) /\ Regs(u) = saved[u]
    BY DEF Regs
<1>3. WaitingFor(u)' /\ RunningFor(u)' /\ ServerFor(u)'
    BY <1>1, <1>2 DEF ResultFor, WaitingFor, RunningFor, ServerFor
<1>4. ReadyFor(u)'
    <2>1. saved[u].prev = "ReplyAndReceive" => u = Main
        BY <1>2 DEF ResultFor, ServerFor
    <2> QED
        BY <2>1 DEF ResultFor, ReadyFor
<1> QED
    BY <1>3, <1>4 DEF ResultFor

\* A step within the slice of thread t: what is left to show is t's own result.
LEMMA SliceResults ==
    ASSUME Base, Base', ResultsOK, NEW t \in Thread, Executing(t), current' = current,
           panic' = panic, panic = "none", saved' = saved,
           requests' = requests \/ t = Main,
           \A u \in Thread : u # t => thr'[u] = thr[u] /\ outcome'[u] = outcome[u],
           FreshOK', ResultFor(t)'
    PROVE  ResultsOK'
<1>1. current = t /\ current' # NoThread
    BY RegisterConstants DEF Executing
<1>2. \A u \in Thread : u # t => ResultFor(u)'
    BY <1>1, OthersKeepResult DEF ResultsOK
<1>3. FirstSliceOK' /\ PanicOK'
    BY <1>1 DEF FirstSliceOK, PanicOK
<1> QED
    BY <1>2, <1>3 DEF ResultsOK

\* The result of a call that returns to the thread at once.
LEMMA ReturnedResult ==
    ASSUME Base, Base', ResultsOK, NEW t \in Thread, NEW svc \in Svc, NEW r0 \in Result,
           NEW r1 \in AHandle..1, NEW halt \in BOOLEAN, Call(t, svc, r0, r1, halt),
           thr'[t] = thr[t], NEW how, Ends(t, how),
           \/ how = "ok" /\ r0 = "ok" /\ svc # "ReplyAndReceive"
           \/ how = "error" /\ r0 = "mismatch" /\ (svc = "ReplyAndReceive" => t = Main)
    PROVE  ResultFor(t)'
<1>1. /\ Regs(t)' = cpu' /\ cpu'.prev = svc /\ cpu'.r0 = r0 /\ thr[t].state = "Running"
    BY CallRegs
<1>2. outcome'[t] = how
    BY BaseTypes DEF Ends
<1>3. thr[t].resume = "Normal"
    BY <1>1 DEF ResultsOK, ResultFor, RunningFor
<1>4. Settled(cpu', outcome'[t])
    BY <1>1, <1>2 DEF Settled
<1>5. RunningFor(t)'
    BY <1>1, <1>2, <1>3, <1>4 DEF RunningFor
<1> QED
    BY <1>1, <1>5 DEF ResultFor, WaitingFor, ReadyFor, ServerFor

\* The registers of a thread in a call that waits.
LEMMA SuspendedResult ==
    ASSUME Base, Base', ResultsOK, NEW t \in Thread, NEW svc \in WaitCall, NEW r0 \in Result,
           NEW r1 \in AHandle..1, Call(t, svc, r0, r1, TRUE), Suspend(t, svc),
           svc = "ReplyAndReceive" => t = Main,
           svc \in {"WaitSync1", "WaitSyncN", "SendSyncRequest"} => r0 = "ok"
    PROVE  ResultFor(t)'
<1>1. svc \in Svc
    BY CallConstants
<1>2. /\ Regs(t)' = cpu' /\ cpu'.prev = svc /\ cpu'.r0 = r0 /\ thr[t].state = "Running"
    BY <1>1, CallRegs
<1>3. thr[t].resume = "Normal"
    BY <1>2 DEF ResultsOK, ResultFor, RunningFor
<1>4. thr'[t].state = "Waiting" /\ thr'[t].call = svc /\ thr'[t].resume = "Normal"
    BY <1>3, SuspendStep
<1> QED
    BY <1>2, <1>4 DEF ResultFor, WaitingFor, ReadyFor, RunningFor, ServerFor

\* Calls that return at once.
LEMMA ReturnResults ==
    ASSUME Base, Base', ResultsOK, FreshOK', panic = "none", NEW t \in Thread, ReturnAtOnce(t)
    PROVE  ResultsOK'
<1>1. /\ thr' = thr /\ requests' = requests /\ panic' = panic /\ saved' = saved
    BY DEF ReturnAtOnce, kernelVars, processVars
<1>2. PICK svc \in Svc, r0 \in Result, halt \in BOOLEAN, how \in {"ok", "error"} :
          /\ Call(t, svc, r0, 0, halt) /\ Ends(t, how)
          /\ svc # "ReplyAndReceive"
          /\ how = "ok" => r0 = "ok"
          /\ how = "error" => r0 = "mismatch"
    BY CallConstants DEF ReturnAtOnce
<1>3. ResultFor(t)'
    BY <1>1, <1>2, ReturnedResult, RegisterConstants
<1>4. Executing(t) /\ current' = current
    BY <1>2 DEF Call
<1>5. \A u \in Thread : u # t => outcome'[u] = outcome[u]
    BY <1>2, BaseTypes DEF Ends
<1> QED
    BY <1>1, <1>3, <1>4, <1>5, SliceResults

\* Calls that wait.
LEMMA WaitResults ==
    ASSUME Base, Base', ResultsOK, FreshOK', panic = "none", NEW t \in Thread, Wait(t)
    PROVE  ResultsOK'
<1>1. requests' = requests /\ panic' = panic /\ saved' = saved /\ Ends(t, "none")
    BY DEF Wait, processVars
<1>2. PICK svc \in WaitCall, r0 \in Result, r1 \in AHandle..1 :
          /\ Call(t, svc, r0, r1, TRUE) /\ Suspend(t, svc)
          /\ svc # "ReplyAndReceive"
          /\ svc \in {"WaitSync1", "WaitSyncN", "SendSyncRequest"} => r0 = "ok"
    BY CallConstants, RegisterConstants DEF Wait
<1>3. ResultFor(t)'
    BY <1>2, SuspendedResult
<1>4. Executing(t) /\ current' = current
    BY <1>2 DEF Call
<1>5. \A u \in Thread : u # t => outcome'[u] = outcome[u] /\ thr'[u] = thr[u]
    BY <1>1, <1>2, BaseTypes, SuspendStep DEF Ends
<1> QED
    BY <1>1, <1>3, <1>4, <1>5, SliceResults

\* SendSyncRequest.
LEMMA SendResults ==
    ASSUME Base, Base', ResultsOK, FreshOK', panic = "none", NEW t \in Thread, SendSyncRequest(t)
    PROVE  ResultsOK'
<1>1. requests' = requests /\ panic' = panic /\ saved' = saved
    BY DEF SendSyncRequest, processVars
<1>2. "SendSyncRequest" \in Svc /\ "SendSyncRequest" \in WaitCall /\ "ok" \in Result /\ "mismatch" \in Result
    BY CallConstants
<1>3. Executing(t) /\ current' = current
    BY DEF SendSyncRequest, Call
<1>4. \A u \in Thread : u # t => outcome'[u] = outcome[u]
    BY BaseTypes DEF SendSyncRequest, Ends
<1>5. (\A u \in Thread : u # t => thr'[u] = thr[u]) /\ ResultFor(t)'
    <2>1. CASE Call(t, "SendSyncRequest", "ok", 0, TRUE) /\ Suspend(t, "SendSyncRequest")
        BY <1>2, <2>1, SuspendedResult, SuspendStep, RegisterConstants
    <2>2. CASE Call(t, "SendSyncRequest", "mismatch", 0, FALSE) /\ Ends(t, "error") /\ UNCHANGED thr
        BY <1>2, <2>2, ReturnedResult, RegisterConstants
    <2> QED
        BY <2>1, <2>2 DEF SendSyncRequest
<1> QED
    BY <1>1, <1>3, <1>4, <1>5, SliceResults

\* ReplyAndReceive.
LEMMA ReplyResults ==
    ASSUME Base, Base', ResultsOK, FreshOK', panic = "none", NEW t \in Thread, ReplyAndReceive(t)
    PROVE  ResultsOK'
<1>1. panic' = panic /\ saved' = saved /\ t = Main
    BY DEF ReplyAndReceive, processVars
<1>2. "ReplyAndReceive" \in Svc /\ "ReplyAndReceive" \in WaitCall /\ "arg" \in Result /\ "mismatch" \in Result
    BY CallConstants
<1>3. Executing(t) /\ current' = current
    BY DEF ReplyAndReceive, Call
<1>4. \A u \in Thread : u # t => outcome'[u] = outcome[u]
    BY BaseTypes DEF ReplyAndReceive, Ends
<1>5. (\A u \in Thread : u # t => thr'[u] = thr[u]) /\ ResultFor(t)'
    <2>1. CASE Call(t, "ReplyAndReceive", "arg", 0, TRUE) /\ Suspend(t, "ReplyAndReceive")
        BY <1>1, <1>2, <2>1, SuspendedResult, SuspendStep, RegisterConstants
    <2>2. CASE Call(t, "ReplyAndReceive", "mismatch", 0, FALSE) /\ Ends(t, "error") /\ UNCHANGED thr
        BY <1>1, <1>2, <2>2, ReturnedResult, RegisterConstants
    <2> QED
        BY <2>1, <2>2 DEF ReplyAndReceive
<1> QED
    BY <1>1, <1>3, <1>4, <1>5, SliceResults

\* ExitThread.
LEMMA ExitResults ==
    ASSUME Base, Base', ResultsOK, FreshOK', panic = "none", NEW t \in Thread, ExitThread(t)
    PROVE  ResultsOK'
<1>1. requests' = requests /\ panic' = panic /\ saved' = saved
      /\ Call(t, "ExitThread", "arg", 0, TRUE) /\ Ends(t, "none")
    BY DEF ExitThread, processVars
<1>2. Executing(t) /\ current' = current /\ Regs(t)' = cpu' /\ cpu'.prev = "ExitThread"
    BY <1>1, CallRegs, CallConstants, RegisterConstants
<1>3. \A u \in Thread : u # t => outcome'[u] = outcome[u]
    BY <1>1, BaseTypes DEF Ends
<1>4. thr'[t].state = "Done" /\ \A u \in Thread : u # t => thr'[u] = thr[u]
    BY BaseTypes DEF ExitThread, CommonThreads
<1>5. ResultFor(t)'
    BY <1>2, <1>4 DEF ResultFor, WaitingFor, ReadyFor, RunningFor, ServerFor
<1> QED
    BY <1>1, <1>2, <1>3, <1>4, <1>5, SliceResults

\* Other instructions.
LEMMA InstructionResults ==
    ASSUME Base, Base', ResultsOK, FreshOK', panic = "none", NEW t \in Thread,
           Compute(t) \/ WriteCommand(t)
    PROVE  ResultsOK'
<1>1. Instruction(t)
    BY DEF Compute, WriteCommand
<1>2. /\ current = t /\ ~halted /\ thr[t].state = "Running"
      /\ cpu'.prev = "other" /\ outcome'[t] = "none"
      /\ \A u \in Thread : u # t => outcome'[u] = outcome[u]
      /\ thr' = thr /\ requests' = requests /\ panic' = panic /\ saved' = saved
      /\ current' = current
    BY <1>1, InstructionStep
<1>3. Settled(cpu', outcome'[t])
    BY <1>2 DEF Settled
<1>4. RunningFor(t)'
    BY <1>2, <1>3 DEF ResultsOK, ResultFor, RunningFor
<1>5. ResultFor(t)'
    BY <1>2, <1>4 DEF ResultFor, WaitingFor, ReadyFor, ServerFor, Regs
<1> QED
    BY <1>2, <1>5, SliceResults DEF Executing

\* CreateThread: the new thread has nothing to be resumed with.
LEMMA CreateResults ==
    ASSUME PlainEntry, Base, Base', ResultsOK, FreshOK', panic = "none", NEW t \in Thread,
           CreateThread(t)
    PROVE  ResultsOK'
<1>1. PICK u \in Thread, word \in EntryWords :
          /\ u # t
          /\ thr[u].state = "Absent"
          /\ thr'[u] = NewThread("Ready")
          /\ \A v \in Thread : v # u => thr'[v] = thr[v]
          /\ saved'[u] = NewContext(u, word)
          /\ \A v \in Thread : v # u => saved'[v] = saved[v]
    BY CreateEffect
<1>2. "CreateThread" \in Svc /\ "ok" \in Result
    BY CallConstants
<1>3. Call(t, "CreateThread", "ok", AHandle, TRUE) /\ Ends(t, "ok")
      /\ requests' = requests /\ panic' = panic
    BY DEF CreateThread
<1>4. current = t /\ current' = t /\ t # NoThread
    BY <1>3, RegisterConstants DEF Call, Executing
<1>5. \A v \in Thread : v # t => outcome'[v] = outcome[v]
    BY <1>3, BaseTypes DEF Ends
<1>6. ResultFor(t)'
    BY <1>1, <1>2, <1>3, ReturnedResult, RegisterConstants
<1>7. ResultFor(u)'
    <2>1. thr'[u].state = "Ready" /\ thr'[u].resume = "Normal" /\ saved'[u].prev = word
        BY <1>1 DEF NewThread, NewContext
    <2>2. outcome'[u] = "none"
        BY <1>1, <1>5 DEF ResultsOK, FreshOK
    <2>3. Regs(u)' = saved'[u] /\ word # "ReplyAndReceive"
        BY <1>1, <1>4 DEF Regs, PlainEntry
    <2>4. Settled(Deliver(saved'[u], thr'[u].resume), outcome'[u])
        BY <2>2 DEF Settled
    <2> QED
        BY <2>1, <2>3, <2>4 DEF ResultFor, WaitingFor, ReadyFor, RunningFor, ServerFor
<1>8. \A v \in Thread : v # t /\ v # u => ResultFor(v)'
    BY <1>1, <1>3, <1>4, <1>5, OthersKeepResult DEF ResultsOK
<1>9. FirstSliceOK' /\ PanicOK'
    BY <1>3, <1>4 DEF FirstSliceOK, PanicOK
<1> QED
    BY <1>6, <1>7, <1>8, <1>9 DEF ResultsOK

\* Waking a thread: the registers it was saved with and the resume value tell how its
\* call ended.
LEMMA AwakeResults ==
    ASSUME Base, Base', ResultsOK, FreshOK', panic = "none", NEW t \in Thread,
           NEW call \in WaitCall, NEW resume \in ThreadResume,
           NEW how \in ThreadResume \cup {"none", "ok", "error"},
           Awake(t, call, resume, how),
           requests' = requests \/ requests' # <<>>,
           \/ call \in {"WaitSync1", "SendSyncRequest"} /\ resume = "Normal" /\ how = "ok"
           \/ call = "SleepThread" /\ resume = "Normal" /\ how = "none"
           \/ call = "ReplyAndReceive" /\ resume = "Index0" /\ how = "Index0" /\ requests' # <<>>
           \/ call = "ReplyAndReceive" /\ resume = "Index1" /\ how = "Index1"
           \/ call = "WaitSyncN" /\ resume # "Normal" /\ how = resume
           \/ call = "WaitSync1" /\ resume = "TimeoutReached" /\ how = resume
    PROVE  ResultsOK'
<1>1. /\ current = NoThread /\ thr[t].state = "Waiting" /\ thr[t].call = call
      /\ thr'[t] = [state |-> "Ready", call |-> "none", resume |-> resume]
      /\ \A u \in Thread : u # t => thr'[u] = thr[u]
      /\ outcome'[t] = how
      /\ \A u \in Thread : u # t => outcome'[u] = outcome[u]
      /\ saved' = saved /\ current' = current /\ panic' = panic /\ ranSvc' = ranSvc
    BY AwakeStep
<1>2. thr'[t].state = "Ready" /\ thr'[t].resume = resume
    BY <1>1
<1>3. \A u \in Thread : u # current /\ u # current'
    BY <1>1, RegisterConstants
<1>4. Regs(t) = saved[t] /\ Regs(t)' = saved[t]
    BY <1>1, <1>3 DEF Regs
<1>5. /\ saved[t].prev = call
      /\ call \in {"WaitSync1", "WaitSyncN", "SendSyncRequest"} => saved[t].r0 = "ok"
      /\ call = "ReplyAndReceive" => t = Main
    BY <1>1, <1>4 DEF ResultsOK, ResultFor, WaitingFor, ServerFor
<1>6. saved[t] \in Registers
    BY BaseTypes
<1>7. call # "ReplyAndReceive" => Settled(Deliver(saved[t], resume), how)
    <2> SUFFICES ASSUME call # "ReplyAndReceive"
                 PROVE  Settled(Deliver(saved[t], resume), how)
        OBVIOUS
    <2>1. CASE resume = "Normal"
        BY <1>5, <1>6, <2>1, DeliverResults DEF Settled
    <2>2. CASE resume = "TimeoutReached"
        BY <1>5, <1>6, <2>2, DeliverResults DEF Settled
    <2>3. CASE resume = "Index0"
        BY <1>5, <1>6, <2>3, DeliverResults DEF Settled
    <2>4. CASE resume = "Index1"
        BY <1>5, <1>6, <2>4, DeliverResults DEF Settled
    <2> QED
        BY <2>1, <2>2, <2>3, <2>4 DEF ThreadResume
<1>8. ReadyFor(t)'
    BY <1>1, <1>2, <1>5, <1>7 DEF ReadyFor
<1>9. ResultFor(t)'
    BY <1>2, <1>4, <1>5, <1>8 DEF ResultFor, WaitingFor, RunningFor, ServerFor
<1>10. \A u \in Thread : u # t => ResultFor(u)'
    BY <1>1, <1>3, OthersKeepResult DEF ResultsOK
<1>11. FirstSliceOK' /\ PanicOK'
    BY <1>1 DEF ResultsOK, FirstSliceOK, PanicOK
<1> QED
    BY <1>9, <1>10, <1>11 DEF ResultsOK

\* Waking a thread.
LEMMA WakeResults ==
    ASSUME Base, Base', ResultsOK, FreshOK', panic = "none", NEW t \in Thread,
           WakeUp(t) \/ ServiceReplies(t)
    PROVE  ResultsOK'
<1>1. CASE WakeUp(t)
    BY <1>1, WakeUpForms, AwakeResults
<1>2. CASE ServiceReplies(t)
    <2>1. Awake(t, "SendSyncRequest", "Normal", "ok") /\ requests' = requests
        BY <1>2 DEF ServiceReplies
    <2>2. "SendSyncRequest" \in WaitCall /\ "Normal" \in ThreadResume
        BY CallConstants DEF ThreadResume
    <2> QED
        BY <2>1, <2>2, AwakeResults
<1> QED
    BY <1>1, <1>2

\* Another process makes a request.
LEMMA RequestResults ==
    ASSUME Base, Base', ResultsOK, FreshOK', panic = "none", RequestMade
    PROVE  ResultsOK'
<1>1. requests' # <<>>
    BY RequestStep
<1>2. CASE Awake(Main, "ReplyAndReceive", "Index0", "Index0")
    <2>1. "ReplyAndReceive" \in WaitCall /\ "Index0" \in ThreadResume /\ Main \in Thread
        BY CallConstants, RegisterConstants DEF ThreadResume
    <2> QED
        BY <1>1, <1>2, <2>1, AwakeResults
<1>3. CASE UNCHANGED <<thr, panic, processVars, machineVars, current, programVars>>
    <2>1. /\ thr' = thr /\ panic' = panic /\ saved' = saved /\ cpu' = cpu /\ ranSvc' = ranSvc
          /\ halted' = halted /\ current' = current /\ outcome' = outcome
        BY <1>3 DEF processVars, machineVars, programVars
    <2>2. \A t \in Thread : Regs(t)' = Regs(t)
        BY <2>1 DEF Regs
    <2>3. ASSUME NEW t \in Thread
          PROVE  ResultFor(t)'
        <3>1. WaitingFor(t)' /\ RunningFor(t)' /\ ServerFor(t)'
            BY <2>1, <2>2 DEF ResultsOK, ResultFor, WaitingFor, RunningFor, ServerFor
        <3>2. ReadyFor(t)'
            BY <1>1, <2>1 DEF ResultsOK, ResultFor, ReadyFor
        <3> QED
            BY <3>1, <3>2 DEF ResultFor
    <2>4. FirstSliceOK' /\ PanicOK'
        BY <2>1 DEF ResultsOK, FirstSliceOK, PanicOK
    <2> QED
        BY <2>3, <2>4 DEF ResultsOK
<1> QED
    BY <1>2, <1>3 DEF RequestMade

\* A slice begins: handle_resume gives the thread the results of the call that
\* suspended it, and only them, because ran_svc is false only before the first slice.
LEMMA ResumeResults ==
    ASSUME Base, Base', ResultsOK, FreshOK', panic = "none", NEW t \in Thread, Resume(t)
    PROVE  ResultsOK'
<1>1. /\ current = NoThread /\ thr[t].state = "Ready" /\ current' = t
      /\ HandleResume(t, thr[t].resume)
      /\ saved' = saved /\ requests' = requests /\ outcome' = outcome
      /\ ranSvc' = FALSE /\ halted' = halted
    BY DEF Resume
<1>2. thr \in [Thread -> CommonThreads] /\ thr[t].resume \in ThreadResume
    BY BaseTypes DEF CommonThreads
<1>3. thr'[t].state = "Running" /\ thr'[t].resume = "Normal"
      /\ \A u \in Thread : u # t => thr'[u] = thr[u]
    BY <1>2 DEF Resume, TakeResume, CommonThreads
<1>4. cpu'.prev = saved[t].prev
    BY <1>1, <1>2, HandleResumeTypes
<1>5. t # NoThread /\ \A u \in Thread : u # current
    BY <1>1, RegisterConstants
<1>6. Regs(t)' = cpu' /\ Regs(t) = saved[t]
    BY <1>1, <1>5 DEF Regs
<1>7. saved[t] \in Registers
    BY BaseTypes
<1>8. Settled(cpu', outcome[t]) /\ (panic' # "none" => saved[t].prev = "ReplyAndReceive" /\ outcome[t] = "error")
    <2>1. ReadyFor(t)
        BY DEF ResultsOK, ResultFor
    <2>2. CASE ~ranSvc
        <3>1. outcome[t] = "none" /\ panic' = "none"
            BY <1>1, <2>2 DEF ResultsOK, FirstSliceOK, HandleResume
        <3> QED
            BY <3>1 DEF Settled
    <2>3. CASE ranSvc /\ saved[t].prev # "ReplyAndReceive"
        <3>1. cpu' = Deliver(saved[t], thr[t].resume) /\ panic' = "none"
            BY <1>1, <2>3 DEF HandleResume
        <3> QED
            BY <1>1, <2>1, <2>3, <3>1 DEF ReadyFor
    <2>4. CASE ranSvc /\ saved[t].prev = "ReplyAndReceive"
        <3>1. ReceivePost(t, thr[t].resume)
            BY <1>1, <2>4 DEF HandleResume
        <3>2. CASE thr[t].resume = "Normal" /\ outcome[t] = "error" /\ saved[t].r0 = "mismatch"
            <4>1. cpu' = saved[t]
                BY <3>1, <3>2 DEF ReceivePost
            <4> QED
                BY <2>4, <3>2, <4>1 DEF Settled
        <3>3. CASE \/ thr[t].resume = "Index0" /\ outcome[t] = "Index0" /\ requests # <<>>
                   \/ thr[t].resume = "Index1" /\ outcome[t] = "Index1"
            <4>1. /\ cpu' = Deliver([saved[t] EXCEPT !.r0 = "ok"], thr[t].resume)
                  /\ panic' = "none"
                BY <3>1, <3>3 DEF ReceivePost
            <4>2. [saved[t] EXCEPT !.r0 = "ok"] \in Registers /\ [saved[t] EXCEPT !.r0 = "ok"].r0 = "ok"
                BY <1>7, CallConstants DEF Registers
            <4> QED
                BY <3>3, <4>1, <4>2, DeliverResults DEF Settled
        <3> QED
            BY <1>1, <2>1, <2>4, <3>2, <3>3 DEF ReadyFor
    <2> QED
        BY <2>2, <2>3, <2>4
<1>9. ServerFor(t)'
    BY <1>4, <1>6 DEF ResultsOK, ResultFor, ServerFor
<1>10. RunningFor(t)'
    BY <1>1, <1>3, <1>8 DEF RunningFor
<1>11. ResultFor(t)'
    BY <1>3, <1>9, <1>10 DEF ResultFor, WaitingFor, ReadyFor
<1>12. \A u \in Thread : u # t => ResultFor(u)'
    BY <1>1, <1>3, <1>5, OthersKeepResult DEF ResultsOK
<1>13. ~halted
    BY <1>1 DEF Base, SliceOK
<1>14. FirstSliceOK' /\ PanicOK'
    BY <1>1, <1>4, <1>5, <1>8, <1>13 DEF FirstSliceOK, PanicOK, Returned
<1> QED
    BY <1>11, <1>12, <1>14 DEF ResultsOK

\* A slice ends: the registers are saved with a result that delivering nothing keeps.
LEMMA LeaveResults ==
    ASSUME Base, Base', ResultsOK, FreshOK', panic = "none", Leave
    PROVE  ResultsOK'
<1>1. /\ current \in Thread /\ current' = NoThread /\ ranSvc /\ ranSvc'
      /\ saved'[current] = cpu
      /\ \A u \in Thread : u # current => saved'[u] = saved[u]
      /\ \A u \in Thread : u # current => thr'[u] = thr[u]
      /\ thr'[current].state = IF thr[current].state = "Running" THEN "Ready"
                                                                 ELSE thr[current].state
      /\ thr'[current].call = thr[current].call
      /\ thr'[current].resume = thr[current].resume
    BY LeaveStep
<1>2. requests' = requests /\ panic' = panic /\ outcome' = outcome
    BY DEF Leave
<1>3. \A u \in Thread : u # current'
    BY <1>1, RegisterConstants
<1>4. \A u \in Thread : u # current => ResultFor(u)'
    BY <1>1, <1>2, <1>3, OthersKeepResult DEF ResultsOK
<1>5. PICK t \in Thread : t = current
    BY <1>1
<1>6. Regs(t) = cpu /\ Regs(t)' = cpu
    BY <1>1, <1>3, <1>5 DEF Regs
<1>7. ResultFor(t)
    BY DEF ResultsOK
<1>8. WaitingFor(t)' /\ ServerFor(t)'
    BY <1>1, <1>5, <1>6, <1>7 DEF ResultFor, WaitingFor, ServerFor
<1>9. RunningFor(t)'
    BY <1>1, <1>5 DEF RunningFor
<1>10. ReadyFor(t)'
    <2> SUFFICES ASSUME thr'[t].state = "Ready"
                 PROVE  ReadyFor(t)'
        BY DEF ReadyFor
    <2>1. thr[t].state = "Running"
        BY <1>1, <1>5, RegisterConstants DEF Base, SliceOK
    <2>2. /\ thr[t].resume = "Normal" /\ Settled(cpu, outcome[t])
          /\ cpu.prev = "ReplyAndReceive" => outcome[t] = "error"
        BY <1>1, <1>7, <2>1 DEF ResultFor, RunningFor
    <2>3. saved'[t] = cpu /\ thr'[t].resume = "Normal" /\ outcome'[t] = outcome[t]
        BY <1>1, <1>2, <1>5, <2>2
    <2>4. Deliver(cpu, "Normal") = cpu
        BY BaseTypes, DeliverResults
    <2>5. cpu.prev = "ReplyAndReceive" => cpu.r0 = "mismatch"
        BY <2>2, CallConstants DEF Settled
    <2> QED
        BY <2>2, <2>3, <2>4, <2>5 DEF ReadyFor
<1>11. ResultFor(t)'
    BY <1>8, <1>9, <1>10 DEF ResultFor
<1>12. FirstSliceOK' /\ PanicOK'
    BY <1>1, <1>2 DEF FirstSliceOK, PanicOK
<1> QED
    BY <1>4, <1>5, <1>11, <1>12 DEF ResultsOK

\* Every step keeps the results.
LEMMA StepResults == ASSUME PlainEntry, Base, Base', ResultsOK, [Next]_vars PROVE ResultsOK'
<1>1. FreshOK'
    BY StepFresh DEF ResultsOK
<1>2. CASE Next
    <2>1. panic = "none"
        BY <1>2 DEF Next
    <2>2. ASSUME NEW t \in Thread, Step(t)
          PROVE  ResultsOK'
        BY <1>1, <2>1, <2>2, ReturnResults, WaitResults, SendResults, ReplyResults, CreateResults,
           ExitResults, InstructionResults DEF Step
    <2>3. ASSUME NEW t \in Thread, Resume(t) \/ WakeUp(t) \/ ServiceReplies(t)
          PROVE  ResultsOK'
        BY <1>1, <2>1, <2>3, ResumeResults, WakeResults
    <2> QED
        BY <1>1, <1>2, <2>1, <2>2, <2>3, LeaveResults, RequestResults DEF Next
<1>3. CASE UNCHANGED vars
    <2>1. /\ thr' = thr /\ panic' = panic /\ saved' = saved /\ cpu' = cpu /\ ranSvc' = ranSvc
          /\ halted' = halted /\ current' = current /\ outcome' = outcome /\ requests' = requests
        BY <1>3 DEF vars, kernelVars, processVars, machineVars, programVars
    <2>2. \A t \in Thread : ResultFor(t)'
        BY <2>1 DEF ResultsOK, ResultFor, WaitingFor, ReadyFor, RunningFor, ServerFor, Regs
    <2>3. FirstSliceOK' /\ PanicOK'
        BY <2>1 DEF ResultsOK, FirstSliceOK, PanicOK, Returned
    <2> QED
        BY <1>1, <2>2, <2>3 DEF ResultsOK
<1> QED
    BY <1>2, <1>3

\* At the start no call has been made, and no entry point reads as one of a server.
LEMMA InitResults == ASSUME PlainEntry, Init PROVE ResultsOK
<1>1. PICK word \in EntryWords : saved = [t \in Thread |-> NewContext(t, word)]
    BY DEF Init
<1>2. \A t \in Thread : saved[t].prev # "ReplyAndReceive"
    BY <1>1 DEF NewContext, PlainEntry
<1>3. \A t \in Thread : /\ outcome[t] = "none" /\ thr[t].resume = "Normal"
                        /\ thr[t].state \in {"Absent", "Ready"}
    BY DEF Init, NewThread
<1>4. current = NoThread /\ panic = "none" /\ \A t \in Thread : t # current
    BY RegisterConstants DEF Init
<1>5. ASSUME NEW t \in Thread
      PROVE  ResultFor(t)
    <2>1. Regs(t) = saved[t]
        BY <1>4 DEF Regs
    <2>2. Settled(Deliver(saved[t], thr[t].resume), outcome[t])
        BY <1>3 DEF Settled
    <2> QED
        BY <1>2, <1>3, <2>1, <2>2 DEF ResultFor, WaitingFor, ReadyFor, RunningFor, ServerFor
<1> QED
    BY <1>3, <1>4, <1>5 DEF ResultsOK, FreshOK, FirstSliceOK, PanicOK

\* The results of a system call tell the thread how it ended, however its slices were
\* cut and whoever used the machine in between, and the unreachable!() of
\* reply_and_receive_post is reached only by a ReplyAndReceive that failed.  The word
\* before an entry point must not read as a ReplyAndReceive: such a thread would be
\* resumed as a server that has received nothing.
THEOREM ResultsAreDelivered == PlainEntry => (Spec => []ResultsDelivered)
<1> SUFFICES ASSUME PlainEntry PROVE Spec => []ResultsDelivered
    OBVIOUS
<1>1. Base /\ ResultsOK => ResultsDelivered
    <2> SUFFICES ASSUME Base, ResultsOK
                 PROVE  ResultsDelivered
        OBVIOUS
    <2>1. panic # "none" => Returned("ReplyAndReceive") /\ outcome[current] = "error"
        BY DEF ResultsOK, PanicOK
    <2>2. ASSUME NEW svc \in Svc, Returned(svc)
          PROVE  /\ outcome[current] = "ok" => cpu.r0 = "ok"
                 /\ outcome[current] = "error" => cpu.r0 = "mismatch"
                 /\ outcome[current] = "TimeoutReached" => cpu.r0 = "timeout"
                 /\ outcome[current] = "Index0" => cpu.r0 = "ok" /\ cpu.r1 = 0
                 /\ outcome[current] = "Index1" => cpu.r0 = "ok" /\ cpu.r1 = 1
        <3>1. current \in Thread /\ current # NoThread /\ ~halted /\ cpu.prev = svc
            BY <2>2, BaseTypes DEF Returned
        <3>2. thr[current].state = "Running"
            BY <3>1 DEF Base, SliceOK
        <3>3. Settled(cpu, outcome[current])
            BY <3>1, <3>2 DEF ResultsOK, ResultFor, RunningFor
        <3> QED
            BY <3>1, <3>3 DEF Settled
    <2> QED
        BY <2>1, <2>2 DEF ResultsDelivered
<1>2. Init => ResultsOK
    BY InitResults
<1>3. Base /\ Base' /\ ResultsOK /\ [Next]_vars => ResultsOK'
    BY StepResults
<1>4. Spec => []Base
    BY GuestBase
<1> QED
    BY <1>1, <1>2, <1>3, <1>4, PTL DEF Spec

=============================================================================
