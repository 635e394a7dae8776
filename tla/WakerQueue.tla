----------------------------- MODULE WakerQueue -----------------------------
(***************************************************************************)
(* The FIFO queue of wakers that every waitable kernel object keeps        *)
(* (waker_queue in hle/src/event.rs, mutex.rs, timer.rs and thread.rs).    *)
(* A waker is what suspend_thread hands out: the thread it wakes and the   *)
(* wake key the thread had when it went to sleep (struct WakerImpl).       *)
(*                                                                         *)
(* Vec::push is Append and Vec::first is Head; Vec::retain is Without.     *)
(* Without is given in closed form (the n-th element kept is the one with  *)
(* n kept positions up to and including its own), which TLC evaluates and  *)
(* from which its properties can be proved without recursion.              *)
(***************************************************************************)
EXTENDS Integers, Sequences, FiniteSets

\* The wakers in queue q.
Wakers(q) == {q[i] : i \in 1..Len(q)}

\* The positions of q whose waker belongs to no thread of T.
Kept(q, T) == {i \in 1..Len(q) : q[i].thread \notin T}

\* How many positions of K are at or below i.
Rank(K, i) == Cardinality({j \in K : j <= i})

\* retain(|waker| !waker.check_opaque_id(id)), for every id of T.
Without(q, T) ==
    LET K == Kept(q, T)
    IN  [n \in 1..Cardinality(K) |-> q[CHOOSE i \in K : Rank(K, i) = n]]

=============================================================================
