--------------------------- MODULE AddressArbiter ---------------------------
(***************************************************************************)
(* ArbiterImpl of hle/src/arbiter.rs and ArbitrationType of                *)
(* kernel/src/lib.rs: threads wait until the word at an address has been   *)
(* changed and somebody signals that address.                              *)
(*                                                                         *)
(* The arbiter keeps one list of (waker, address) pairs and every          *)
(* operation on it selects the pairs of one address, so a member of        *)
(* Address is one arbiter together with one address, and its queue is that *)
(* selection.                                                              *)
(***************************************************************************)
EXTENDS SyncObjects

CONSTANTS
    WordMin, WordMax    \* the range of an i32

ASSUME WordAssumption == WordMin \in Int /\ WordMax \in Int /\ WordMin <= 0 /\ 0 <= WordMax

VARIABLE
    mem                 \* the word of guest memory at every address

Word == WordMin .. WordMax

\* i32::wrapping_sub(1).
WrappingDec(v) == IF v = WordMin THEN WordMax ELSE v - 1

\* ArbiterImpl::wait.
ArbiterWait(a, w) == queue' = [queue EXCEPT ![a] = Append(@, w)]

\* How many wakers ArbiterImpl::signal drains: all of them for a negative amount.
Drained(a, amount) ==
    IF amount < 0 \/ amount > Len(queue[a]) THEN Len(queue[a]) ELSE amount

\* Fault: the latest waiters are served first.
ArbiterSignalLast(a, amount) ==
    LET n == Drained(a, amount)
        k == Len(queue[a]) - n
        W == {queue[a][i].thread : i \in (k + 1)..Len(queue[a])}
    IN  WakeByObject(thr, [queue EXCEPT ![a] = SubSeq(@, 1, k)], W, a)

\* Fault: one waker more is drained than is woken.
ArbiterSignalDrops(a, amount) ==
    LET n == Drained(a, amount)
        W == {queue[a][i].thread : i \in 1..n}
    IN  WakeByObject(thr, [queue EXCEPT ![a] = SubSeq(@, n + 2, Len(@))], W, a)

\* ArbiterImpl::signal: the wakers are first drained and then woken, and each
\* must be live ("Failed to wake thread waiting on arbitration").
ArbiterSignal(a, amount) ==
    LET n == Drained(a, amount)
        W == {queue[a][i].thread : i \in 1..n}
        rest == SubSeq(queue[a], n + 1, Len(queue[a]))
    IN  IF \A i \in 1..n : Live(thr, queue[a][i])
        THEN WakeByObject(thr, [queue EXCEPT ![a] = rest], W, a)
        ELSE panic' = "arbiter" /\ UNCHANGED <<thr, queue>>

=============================================================================
