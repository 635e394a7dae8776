-------------------------- MODULE ThreadTableProofs -------------------------
(***************************************************************************)
(* What WakerQueue's operators compute, for every queue; and what waking   *)
(* threads up, putting one to sleep and queueing a waker do to the thread  *)
(* table and to the queues.                                                *)
(***************************************************************************)
EXTENDS ThreadTable, FiniteSetTheorems, TLAPS

\* Every non-empty set of naturals has a least element.
LEMMA LeastNatural ==
    ASSUME NEW S \in SUBSET Nat, S # {}
    PROVE  \E n \in S : \A m \in S : n <= m
<1>1. \E n \in S : \A m \in S : ~(<<m, n>> \in OpToRel(<, Nat))
    BY NatLessThanWellFounded, WFMin, Zenon
<1>2. PICK n \in S : \A m \in S : ~(<<m, n>> \in OpToRel(<, Nat))
    BY <1>1
<1>3. ASSUME NEW m \in S PROVE n <= m
    <2>1. ~(<<m, n>> \in OpToRel(<, Nat))
        BY <1>2
    <2>2. ~(m < n)
        BY <2>1 DEF OpToRel
    <2> QED
        BY <2>2
<1> QED
    BY <1>3

\* The positions that retain keeps are finitely many.
LEMMA KeptFinite ==
    ASSUME NEW S, NEW q \in Seq(S), NEW T
    PROVE  /\ Kept(q, T) \subseteq 1..Len(q)
           /\ IsFiniteSet(Kept(q, T))
           /\ Cardinality(Kept(q, T)) \in Nat
<1>1. Len(q) \in Nat
    OBVIOUS
<1>2. IsFiniteSet(1..Len(q))
    BY <1>1, FS_Interval
<1>3. Kept(q, T) \in SUBSET (1..Len(q))
    BY DEF Kept
<1> QED
    BY <1>2, <1>3, FS_Subset, FS_CardinalityType

\* Rank numbers the members of a finite set of positions from 1 upwards: every
\* number up to the cardinality is the rank of exactly one of them.
LEMMA RankBijective ==
    ASSUME NEW K \in SUBSET Nat, IsFiniteSet(K)
    PROVE  /\ \A i \in K : Rank(K, i) \in 1..Cardinality(K)
           /\ \A i, j \in K : Rank(K, i) = Rank(K, j) => i = j
           /\ \A n \in 1..Cardinality(K) : \E i \in K : Rank(K, i) = n
<1> DEFINE Below(i) == {j \in K : j <= i}
           r == [i \in K |-> Rank(K, i)]
<1>1. \A i \in K : /\ IsFiniteSet(Below(i))
                   /\ Cardinality(Below(i)) \in Nat
                   /\ Cardinality(Below(i)) <= Cardinality(K)
    <2> TAKE i \in K
    <2>1. Below(i) \in SUBSET K
        OBVIOUS
    <2> QED
        BY <2>1, FS_Subset, FS_CardinalityType
<1>2. \A i \in K : Cardinality(Below(i)) # 0
    <2> TAKE i \in K
    <2>1. i \in Below(i)
        OBVIOUS
    <2> QED
        BY <2>1, <1>1, FS_EmptySet
<1>3. Cardinality(K) \in Nat
    BY FS_CardinalityType
<1>4. \A i \in K : Rank(K, i) \in 1..Cardinality(K)
    BY <1>1, <1>2, <1>3 DEF Rank
<1>5. ASSUME NEW i \in K, NEW j \in K, i < j PROVE Rank(K, i) # Rank(K, j)
    <2>0. \A k \in K : k \in Nat
        OBVIOUS
    <2>1. Below(i) \in SUBSET Below(j)
        <3>1. ASSUME NEW k \in K, k <= i PROVE k <= j
            BY <1>5, <2>0, <3>1
        <3> QED
            BY <3>1
    <2>2. j \in Below(j) /\ j \notin Below(i)
        BY <1>5, <2>0
    <2>3. Cardinality(Below(j)) # Cardinality(Below(i))
        BY <1>1, <2>1, <2>2, FS_Subset
    <2> QED
        BY <2>3 DEF Rank
<1>6. \A i, j \in K : Rank(K, i) = Rank(K, j) => i = j
    <2> TAKE i, j \in K
    <2>1. i \in Nat /\ j \in Nat
        OBVIOUS
    <2>2. i < j \/ j < i \/ i = j
        BY <2>1
    <2> QED
        BY <1>5, <2>2
<1>7. r \in Injection(K, 1..Cardinality(K))
    BY <1>4, <1>6 DEF Injection, IsInjective
<1>8. /\ IsFiniteSet(1..Cardinality(K))
      /\ Cardinality(1..Cardinality(K)) = Cardinality(K)
    BY <1>3, FS_Interval
<1>9. r \in Surjection(K, 1..Cardinality(K))
    BY <1>7, <1>8, FS_Injection
<1>10. \A n \in 1..Cardinality(K) : \E i \in K : Rank(K, i) = n
    BY <1>9 DEF Surjection
<1> QED
    BY <1>4, <1>6, <1>10

\* retain(|w| !w.check_opaque_id(id)) leaves a queue of exactly the wakers of
\* the other threads.
THEOREM WithoutWakers ==
    ASSUME NEW S, NEW q \in Seq(S), NEW T
    PROVE  /\ Without(q, T) \in Seq(S)
           /\ Wakers(Without(q, T)) = {w \in Wakers(q) : w.thread \notin T}
<1> DEFINE K == Kept(q, T)
           c == Cardinality(K)
           At(n) == CHOOSE i \in K : Rank(K, i) = n
<1>1. K \subseteq 1..Len(q) /\ IsFiniteSet(K) /\ c \in Nat
    BY KeptFinite
<1>2. Len(q) \in Nat /\ \A i \in 1..Len(q) : q[i] \in S
    OBVIOUS
<1>3. K \in SUBSET Nat
    BY <1>1, <1>2
<1>4. /\ \A i \in K : Rank(K, i) \in 1..c
      /\ \A i, j \in K : Rank(K, i) = Rank(K, j) => i = j
      /\ \A n \in 1..c : \E i \in K : Rank(K, i) = n
    BY <1>1, <1>3, RankBijective
<1>5. \A n \in 1..c : At(n) \in K /\ Rank(K, At(n)) = n
    BY <1>4
<1>6. \A i \in K : At(Rank(K, i)) = i
    BY <1>4, <1>5
<1>7. Without(q, T) = [n \in 1..c |-> q[At(n)]]
    BY DEF Without
<1> HIDE DEF K, c, At
<1>8. \A n \in 1..c : q[At(n)] \in S
    BY <1>1, <1>2, <1>5
<1>9. Without(q, T) \in Seq(S) /\ Len(Without(q, T)) = c
    BY <1>1, <1>7, <1>8
<1>10. Wakers(Without(q, T)) = {q[At(n)] : n \in 1..c}
    BY <1>7, <1>9 DEF Wakers
<1>11. {q[At(n)] : n \in 1..c} = {q[i] : i \in K}
    BY <1>4, <1>5, <1>6
<1>12. {q[i] : i \in K} = {w \in Wakers(q) : w.thread \notin T}
    BY DEF K, Kept, Wakers
<1> QED
    BY <1>9, <1>10, <1>11, <1>12

\* A queue is empty exactly when it holds no waker.
LEMMA EmptyQueue ==
    ASSUME NEW S, NEW q \in Seq(S)
    PROVE  q = <<>> <=> Wakers(q) = {}
<1>1. Len(q) \in Nat
    OBVIOUS
<1>2. CASE q = <<>>
    BY <1>2 DEF Wakers
<1>3. CASE q # <<>>
    <2>1. Len(q) > 0
        BY <1>1, <1>3
    <2>2. q[1] \in Wakers(q)
        BY <2>1, <1>1 DEF Wakers
    <2> QED
        BY <1>3, <2>2
<1> QED
    BY <1>2, <1>3

\* retain leaves a queue alone that has no waker of the threads.
LEMMA WithoutNone ==
    ASSUME NEW S, NEW q \in Seq(S), NEW T, \A i \in 1..Len(q) : q[i].thread \notin T
    PROVE  Without(q, T) = q
<1>1. Len(q) \in Nat /\ q = [i \in 1..Len(q) |-> q[i]]
    OBVIOUS
<1>2. Kept(q, T) = 1..Len(q)
    BY DEF Kept
<1> DEFINE K == 1..Len(q)
<1>3. Cardinality(K) = Len(q)
    <2>1. 1 \in Int /\ Len(q) \in Int
        BY <1>1
    <2>2. Cardinality(1..Len(q)) = IF 1 > Len(q) THEN 0 ELSE Len(q) - 1 + 1
        BY <2>1, FS_Interval, Zenon
    <2> QED
        BY <1>1, <2>2
<1>4. ASSUME NEW i \in K PROVE Rank(K, i) = i
    <2>1. {j \in K : j <= i} = 1..i
        BY <1>1
    <2>2. Cardinality(1..i) = i
        BY <1>1, FS_Interval
    <2> QED
        BY <2>1, <2>2 DEF Rank
<1>5. ASSUME NEW n \in K PROVE (CHOOSE i \in K : Rank(K, i) = n) = n
    BY <1>4
<1>6. Without(q, T) = [n \in 1..Cardinality(K) |-> q[CHOOSE i \in K : Rank(K, i) = n]]
    BY <1>2 DEF Without
<1> QED
    BY <1>1, <1>3, <1>5, <1>6

\* Queueing a waker, and taking the first.
LEMMA AppendWaker ==
    ASSUME NEW S, NEW q \in Seq(S), NEW w \in S
    PROVE  /\ Append(q, w) \in Seq(S)
           /\ Wakers(Append(q, w)) = Wakers(q) \cup {w}
<1>1. Append(q, w) \in Seq(S) /\ Len(Append(q, w)) = Len(q) + 1 /\ Len(q) \in Nat
    OBVIOUS
<1>2. \A i \in 1..Len(q) : Append(q, w)[i] = q[i]
    OBVIOUS
<1>3. Append(q, w)[Len(q) + 1] = w
    OBVIOUS
<1>4. 1..(Len(q) + 1) = (1..Len(q)) \cup {Len(q) + 1}
    BY <1>1
<1> QED
    BY <1>1, <1>2, <1>3, <1>4 DEF Wakers

\* A queue whose first waker is taken off keeps the others.
LEMMA TailWakers ==
    ASSUME NEW S, NEW q \in Seq(S), q # <<>>
    PROVE  /\ Tail(q) \in Seq(S) /\ Len(Tail(q)) = Len(q) - 1
           /\ Len(q) \in Nat \ {0}
           /\ \A i \in 1..Len(Tail(q)) : i + 1 \in 1..Len(q) /\ Tail(q)[i] = q[i + 1]
           /\ Head(q) = q[1] /\ 1 \in 1..Len(q)
           /\ Head(q) \in Wakers(q) /\ Wakers(Tail(q)) \subseteq Wakers(q)
<1>1. Len(q) \in Nat \ {0} /\ Tail(q) \in Seq(S) /\ Len(Tail(q)) = Len(q) - 1
    OBVIOUS
<1>2. \A i \in 1..Len(Tail(q)) : i + 1 \in 1..Len(q) /\ Tail(q)[i] = q[i + 1]
    BY <1>1
<1>3. Head(q) = q[1] /\ 1 \in 1..Len(q)
    BY <1>1
<1> QED
    BY <1>1, <1>2, <1>3 DEF Wakers

-----------------------------------------------------------------------------

Table == [Thread -> CommonThread]
Queues == [Object -> Seq(Waker)]

\* The effect of waking the threads of W on table th and queues qs, with results
\* th2 and qs2.
Wakes(th, qs, W, th2, qs2) ==
    /\ th2 \in Table
    /\ qs2 \in Queues
    /\ SleepersOK(th2)
    /\ WakersOK(th2, qs2)
    /\ \A t \in Thread : t \notin W => th2[t] = th[t]
    /\ \A t \in W : th2[t].state = "Ready" /\ th2[t].wakeKey = th[t].wakeKey + 1
    /\ \A o \in Object : \A w \in Wakers(qs2[o]) :
          w \in Wakers(qs[o]) /\ (w.thread \in W => ~Live(th, w))
    /\ \A o \in Object : \A w \in Wakers(qs[o]) :
          w.thread \notin W => w \in Wakers(qs2[o])

\* The members of a queue are wakers.
LEMMA WakersType ==
    ASSUME NEW S, NEW q \in Seq(S)
    PROVE  Wakers(q) \subseteq S
BY DEF Wakers

\* The objects a thread waits for are objects.
LEMMA ObjectsType ==
    ASSUME NEW th \in Table, NEW t \in Thread
    PROVE  Objects(th, t) \subseteq Object
BY DEF Objects, Table, CommonThread

\* remove_wakers_by_opaque_id on all objects that the threads of W wait for.
LEMMA PurgeWakers ==
    ASSUME NEW th, NEW qs \in Queues, NEW W
    PROVE  /\ Purge(th, qs, W) \in Queues
           /\ \A o \in Object : Wakers(Purge(th, qs, W)[o]) =
                 {w \in Wakers(qs[o]) : ~(w.thread \in W /\ o \in Objects(th, w.thread))}
<1> DEFINE T(o) == {t \in W : o \in Objects(th, t)}
<1>1. \A o \in Object : qs[o] \in Seq(Waker)
    BY DEF Queues
<1>2. \A o \in Object : /\ Without(qs[o], T(o)) \in Seq(Waker)
                        /\ Wakers(Without(qs[o], T(o))) = {w \in Wakers(qs[o]) : w.thread \notin T(o)}
    BY <1>1, WithoutWakers
<1>3. Purge(th, qs, W) = [o \in Object |-> Without(qs[o], T(o))]
    BY DEF Purge
<1>4. Purge(th, qs, W) \in Queues
    BY <1>2, <1>3 DEF Queues
<1>5. \A o \in Object : Wakers(Purge(th, qs, W)[o]) = {w \in Wakers(qs[o]) : w.thread \notin T(o)}
    BY <1>2, <1>3
<1> QED
    BY <1>4, <1>5

\* wake_up on every thread of a set of waiting threads, with the resume values r.
LEMMA WakeStep ==
    ASSUME NEW th \in Table, NEW qs \in Queues, NEW W \in SUBSET Thread,
           NEW r \in [Thread -> ThreadResume], NEW th2,
           SleepersOK(th), WakersOK(th, qs),
           \A t \in W : th[t].state = "Waiting",
           th2 = [t \in Thread |-> IF t \in W THEN Awake(th[t], r[t]) ELSE th[t]]
    PROVE  Wakes(th, qs, W, th2, Purge(th, qs, W))
<1> DEFINE qs2 == Purge(th, qs, W)
<1>1. qs2 \in Queues
    BY PurgeWakers
<1>2. \A o \in Object : Wakers(qs2[o]) =
          {w \in Wakers(qs[o]) : ~(w.thread \in W /\ o \in Objects(th, w.thread))}
    BY PurgeWakers
<1> HIDE DEF qs2
<1>3. \A t \in Thread : th[t] \in CommonThread
    BY DEF Table
<1>4. ASSUME NEW t \in W
      PROVE  /\ th2[t] \in CommonThread
             /\ th2[t].state = "Ready"
             /\ th2[t].wakeKey = th[t].wakeKey + 1
    <2>1. t \in Thread /\ th[t] \in CommonThread /\ r[t] \in ThreadResume
        BY <1>3
    <2>2. th[t].wakeKey < MaxKey
        BY <2>1 DEF SleepersOK
    <2>3. th2[t] = Awake(th[t], r[t])
        BY <2>1
    <2> QED
        <3>1. th[t].wakeKey \in 0..MaxKey /\ th[t].wakeKey + 1 \in 0..MaxKey
            BY <2>1, <2>2, ThreadTableAssumption DEF CommonThread
        <3>2. <<>> \in Seq(Object) /\ "Ready" \in ThreadState
            BY DEF ThreadState
        <3>3. th2[t] = [th[t] EXCEPT !.state = "Ready", !.wakeKey = th[t].wakeKey + 1,
                                     !.waitObjects = <<>>, !.resume = r[t]]
            BY <2>3 DEF Awake
        <3>4. th2[t] \in CommonThread
            BY <2>1, <3>1, <3>2, <3>3 DEF CommonThread
        <3> QED
            BY <2>1, <3>3, <3>4 DEF CommonThread
<1>5. \A t \in Thread : t \notin W => th2[t] = th[t]
    OBVIOUS
<1>6. th2 \in Table
    BY <1>3, <1>4, <1>5 DEF Table
<1>7. SleepersOK(th2)
    BY <1>4, <1>5 DEF SleepersOK
<1>8. \A o \in Object : \A w \in Wakers(qs[o]) : w \in Waker /\ w.thread \in Thread /\ w.key \in Nat
    <2>1. \A o \in Object : Wakers(qs[o]) \subseteq Waker
        BY WakersType DEF Queues
    <2>2. \A w \in Waker : w.thread \in Thread /\ w.key \in Nat
        BY ThreadTableAssumption DEF Waker
    <2> QED
        BY <2>1, <2>2
<1>9. \A o \in Object : \A w \in Wakers(qs2[o]) :
          w \in Wakers(qs[o]) /\ (w.thread \in W => ~Live(th, w))
    BY <1>2 DEF WakersOK
<1>10. WakersOK(th2, qs2)
    <2> SUFFICES ASSUME NEW o \in Object, NEW w \in Wakers(qs2[o])
                 PROVE  /\ w.key <= th2[w.thread].wakeKey
                        /\ Live(th2, w) => /\ th2[w.thread].state = "Waiting"
                                           /\ o \in Objects(th2, w.thread)
        BY DEF WakersOK
    <2>1. /\ w.thread \in Thread /\ w.key \in Nat
          /\ w.key <= th[w.thread].wakeKey
          /\ Live(th, w) => /\ th[w.thread].state = "Waiting"
                            /\ o \in Objects(th, w.thread)
        BY <1>8, <1>9 DEF WakersOK
    <2>2. CASE w.thread \in W
        <3>1. th[w.thread].wakeKey # w.key
            BY <1>9, <2>2 DEF Live
        <3>2. th2[w.thread].wakeKey = th[w.thread].wakeKey + 1
            BY <1>4, <2>2
        <3>3. th[w.thread].wakeKey \in Nat
            BY <1>3, <2>1, ThreadTableAssumption DEF CommonThread
        <3> QED
            BY <2>1, <3>1, <3>2, <3>3 DEF Live
    <2>3. CASE w.thread \notin W
        <3>1. th2[w.thread] = th[w.thread]
            BY <1>5, <2>1, <2>3
        <3> QED
            BY <2>1, <3>1 DEF Live, Objects
    <2> QED
        BY <2>2, <2>3
<1>11. \A o \in Object : \A w \in Wakers(qs[o]) : w.thread \notin W => w \in Wakers(qs2[o])
    BY <1>2
<1>12. \A t \in W : th2[t].state = "Ready" /\ th2[t].wakeKey = th[t].wakeKey + 1
    BY <1>4
<1> QED
    BY <1>1, <1>5, <1>6, <1>7, <1>9, <1>10, <1>11, <1>12 DEF qs2, Wakes

\* wait_sync_n is told the place of the first of its objects that woke it.
LEMMA ResumeIndex ==
    ASSUME NEW ct \in CommonThread, NEW o, ct.waitType = "WaitSyncN", ~WakeFails(ct, o)
    PROVE  \E n \in 1..Len(ct.waitObjects) :
              /\ ct.waitObjects[n] = o /\ \A j \in 1..(n - 1) : ct.waitObjects[j] # o
              /\ ResumeByObject(ct, o) = [kind |-> "WaitSyncN", index |-> n]
              /\ n \in Nat
<1> DEFINE l == ct.waitObjects
           S == {i \in 1..Len(l) : l[i] = o}
           First(i) == l[i] = o /\ \A j \in 1..(i - 1) : l[j] # o
<1>1. l \in Seq(Object) /\ Len(l) \in Nat
    BY DEF CommonThread
<1>2. S \in SUBSET Nat /\ S # {}
    BY <1>1 DEF WakeFails
<1>3. PICK n \in S : \A m \in S : n <= m
    BY <1>2, LeastNatural
<1>4. n \in 1..Len(l) /\ l[n] = o
    BY <1>3
<1>5. ASSUME NEW j \in 1..(n - 1), l[j] = o PROVE FALSE
    <2>1. j \in S
        BY <1>1, <1>4, <1>5
    <2>2. n <= j
        BY <1>3, <2>1
    <2> QED
        BY <2>2, <1>4, <1>1
<1>6. \E i \in 1..Len(l) : First(i)
    BY <1>4, <1>5
<1>7. (CHOOSE i \in 1..Len(l) : First(i)) \in 1..Len(l) /\ First(CHOOSE i \in 1..Len(l) : First(i))
    BY <1>6
<1>8. (CHOOSE i \in 1..Len(l) : First(i)) \in Nat
    BY <1>7, <1>1
<1>9. ResumeByObject(ct, o) =
          [kind |-> "WaitSyncN", index |-> CHOOSE i \in 1..Len(l) : First(i)]
    BY DEF ResumeByObject
<1> QED
    BY <1>7, <1>8, <1>9

\* A thread woken by one of its objects is told the place of that object.
LEMMA ResumeType ==
    ASSUME NEW ct \in CommonThread, NEW o, ~WakeFails(ct, o)
    PROVE  ResumeByObject(ct, o) \in ThreadResume
<1>1. CASE ct.waitType # "WaitSyncN"
    BY <1>1 DEF ResumeByObject, ThreadResume, Normal
<1>2. CASE ct.waitType = "WaitSyncN"
    BY <1>2, ResumeIndex DEF ThreadResume
<1> QED
    BY <1>1, <1>2

\* A live waker in the queue of o never makes wake_up panic.
LEMMA LiveWakerSucceeds ==
    ASSUME NEW th \in Table, NEW qs \in Queues, SleepersOK(th), WakersOK(th, qs),
           NEW o \in Object, NEW t \in Thread, WakerOf(th, t) \in Wakers(qs[o])
    PROVE  th[t].state = "Waiting" /\ o \in Objects(th, t) /\ ~WakeFails(th[t], o)
<1>1. Live(th, WakerOf(th, t)) /\ WakerOf(th, t).thread = t
    BY DEF Live, WakerOf
<1>2. th[t].state = "Waiting" /\ o \in Objects(th, t)
    BY <1>1 DEF WakersOK
<1>3. th[t].waitType # "None" /\ (th[t].waitType = "Sleep" => th[t].waitObjects = <<>>)
    BY <1>2 DEF SleepersOK
<1>4. \E i \in 1..Len(th[t].waitObjects) : th[t].waitObjects[i] = o
    BY <1>2 DEF Objects
<1>5. th[t].waitObjects # <<>>
    BY <1>4
<1> QED
    BY <1>2, <1>3, <1>4, <1>5 DEF WakeFails

\* wake_up by object o of threads that it can wake.
LEMMA WakeByObjectStep ==
    ASSUME NEW th \in Table, NEW qs \in Queues, NEW W \in SUBSET Thread, NEW o,
           SleepersOK(th), WakersOK(th, qs),
           \A t \in W : th[t].state = "Waiting" /\ ~WakeFails(th[t], o),
           WakeByObject(th, qs, W, o)
    PROVE  Wakes(th, qs, W, thr', queue') /\ panic' = panic
<1> DEFINE r == [t \in Thread |-> IF t \in W THEN ResumeByObject(th[t], o) ELSE Normal]
<1>1. /\ thr' = [t \in Thread |-> IF t \in W THEN Awake(th[t], ResumeByObject(th[t], o)) ELSE th[t]]
      /\ queue' = Purge(th, qs, W)
      /\ panic' = panic
    BY DEF WakeByObject
<1>2. r \in [Thread -> ThreadResume]
    <2>1. Normal \in ThreadResume
        BY DEF Normal, ThreadResume
    <2>2. \A t \in W : ResumeByObject(th[t], o) \in ThreadResume
        BY ResumeType DEF Table
    <2> QED
        BY <2>1, <2>2
<1>3. thr' = [t \in Thread |-> IF t \in W THEN Awake(th[t], r[t]) ELSE th[t]]
    BY <1>1
<1> HIDE DEF r
<1>4. Wakes(th, qs, W, thr', Purge(th, qs, W))
    BY <1>2, <1>3, WakeStep
<1> QED
    BY <1>1, <1>4

\* tick_at on the thread table.
LEMMA WakeExpiredStep ==
    ASSUME thr \in Table, queue \in Queues, SleepersOK(thr), WakersOK(thr, queue),
           NEW time, WakeExpired(time)
    PROVE  /\ Wakes(thr, queue, {t \in Thread : Expired(t, time)}, thr', queue')
           /\ panic' = panic
<1> DEFINE W == {t \in Thread : Expired(t, time)}
           r == [t \in Thread |-> ResumeByTimeout(thr[t])]
<1>1. \A t \in W : thr[t].state = "Waiting" /\ thr[t].waitType # "None"
    BY DEF Expired, SleepersOK
<1>2. /\ thr' = [t \in Thread |-> IF t \in W THEN Awake(thr[t], ResumeByTimeout(thr[t])) ELSE thr[t]]
      /\ queue' = Purge(thr, queue, W)
      /\ panic' = panic
    BY <1>1 DEF WakeExpired
<1>3. r \in [Thread -> ThreadResume]
    BY DEF ResumeByTimeout, ThreadResume, Normal
<1>4. thr' = [t \in Thread |-> IF t \in W THEN Awake(thr[t], r[t]) ELSE thr[t]]
    BY <1>2
<1>5. W \in SUBSET Thread
    OBVIOUS
<1> HIDE DEF W, r
<1>6. Wakes(thr, queue, W, thr', Purge(thr, queue, W))
    BY <1>1, <1>3, <1>4, <1>5, WakeStep
<1> QED
    BY <1>2, <1>6 DEF W

=============================================================================
