---------------------------- MODULE KernelProofs ----------------------------
(***************************************************************************)
(* Proofs of Kernel's safety properties, for every number of threads and   *)
(* objects and every program: Inv is inductive, and the properties follow; *)
(* then what a single step may do, for the action properties.              *)
(***************************************************************************)
EXTENDS KernelInvariant, ThreadTableProofs

\* The kinds of objects are disjoint, so Available looks at one field.
LEMMA AvailableCases ==
    /\ \A o \in Signaller : Available(o) = signal[o].signaled
    /\ \A o \in Mutex : Available(o) = ~acquired[o]
    /\ \A o \in Thread : Available(o) = dead[o]
    /\ \A o \in Signaller : Available(o)' = signal'[o].signaled
    /\ \A o \in Mutex : Available(o)' = ~acquired'[o]
    /\ \A o \in Thread : Available(o)' = dead'[o]
BY SyncObjectsAssumption DEF Available, Signaller

\* Everything that can be waited for keeps a queue of wakers.
LEMMA WaitableIsObject == Waitable \subseteq Object
BY SyncObjectsAssumption DEF Waitable, Signaller

\* The front of a queue is one of its wakers.
LEMMA HeadWaker ==
    ASSUME NEW S, NEW q \in Seq(S), q # <<>>
    PROVE  Head(q) \in S /\ Head(q) \in Wakers(q)
<1>1. Len(q) \in Nat /\ Len(q) > 0 /\ Head(q) = q[1]
    OBVIOUS
<1> QED
    BY <1>1 DEF Wakers

-----------------------------------------------------------------------------

\* What every operation that wakes threads up keeps, the threads of X apart.
Keeps(X) ==
    /\ thr' \in Table
    /\ queue' \in Queues
    /\ SleepersOK(thr')
    /\ WakersOK(thr', queue')
    /\ panic' \in {"none", "stale waker"}
    /\ SingleWaits => /\ panic' = "none"
                      /\ \A o \in Object : \A w \in Wakers(queue'[o]) : Live(thr', w)
    /\ \A a \in Address : \A w \in Wakers(queue'[a]) : Live(thr', w)
    /\ \A t \in Thread \ X : thr[t].state # "Waiting" => thr'[t] = thr[t]
    /\ \A t \in Thread : thr'[t].state = "Waiting" =>
          /\ thr'[t] = thr[t]
          /\ \A o \in Object : WakerOf(thr, t) \in Wakers(queue[o]) =>
                                  WakerOf(thr, t) \in Wakers(queue'[o])
    /\ \A o \in Object : queue[o] = <<>> => queue'[o] = <<>>

\* What TypeOK says of the thread table and the queues.
LEMMA InvTypes ==
    ASSUME Inv
    PROVE  /\ thr \in Table /\ queue \in Queues
           /\ SleepersOK(thr) /\ WakersOK(thr, queue)
           /\ \A o \in Object : \A w \in Wakers(queue[o]) :
                 w \in Waker /\ w.thread \in Thread /\ w.key \in Nat
<1>1. thr \in Table /\ queue \in Queues
    BY DEF Inv, TypeOK, Table, Queues
<1>2. \A o \in Object : Wakers(queue[o]) \subseteq Waker
    BY <1>1, WakersType DEF Queues
<1>3. \A w \in Waker : w.thread \in Thread /\ w.key \in Nat
    BY ThreadTableAssumption DEF Waker
<1> QED
    BY <1>1, <1>2, <1>3 DEF Inv

\* A live waker is its thread's current one.
LEMMA LiveIsCurrent ==
    ASSUME NEW th, NEW w \in Waker, Live(th, w)
    PROVE  w = WakerOf(th, w.thread)
BY DEF Live, WakerOf, Waker

\* Waking the threads of W, from a table th that differs from thr at most in
\* threads that are neither ready nor asleep.
LEMMA WakesKeeps ==
    ASSUME Inv, panic = "none", panic' = panic,
           NEW th \in Table, NEW qs \in Queues, NEW W \in SUBSET Thread, NEW X,
           Wakes(th, qs, W, thr', queue'),
           \A t \in W : th[t].state = "Waiting",
           \A t \in Thread : th[t].wakeKey = thr[t].wakeKey,
           \A t \in Thread : th[t].state = "Waiting" => th[t] = thr[t],
           \A t \in Thread \ X : th[t] = thr[t],
           \A o \in Object : Wakers(qs[o]) \subseteq Wakers(queue[o]),
           \A o \in Object : \A t \in Thread \ W :
              WakerOf(thr, t) \in Wakers(queue[o]) => WakerOf(thr, t) \in Wakers(qs[o])
    PROVE  Keeps(X)
<1>1. /\ thr \in Table /\ queue \in Queues
      /\ \A o \in Object : \A w \in Wakers(queue[o]) :
                 w \in Waker /\ w.thread \in Thread /\ w.key \in Nat
    BY InvTypes
<1>2. /\ thr' \in Table /\ queue' \in Queues /\ SleepersOK(thr') /\ WakersOK(thr', queue')
    BY DEF Wakes
<1>3. /\ \A t \in Thread : t \notin W => thr'[t] = th[t]
      /\ \A t \in W : thr'[t].state = "Ready"
      /\ \A o \in Object : \A w \in Wakers(queue'[o]) :
            w \in Wakers(qs[o]) /\ (w.thread \in W => ~Live(th, w))
      /\ \A o \in Object : \A w \in Wakers(qs[o]) :
            w.thread \notin W => w \in Wakers(queue'[o])
    BY DEF Wakes
<1>4. ASSUME NEW o \in Object, \A w \in Wakers(queue[o]) : Live(thr, w)
      PROVE  \A w \in Wakers(queue'[o]) : Live(thr', w)
    <2> SUFFICES ASSUME NEW w \in Wakers(queue'[o])
                 PROVE  Live(thr', w)
        OBVIOUS
    <2>1. w \in Wakers(queue[o]) /\ w.thread \in Thread
        BY <1>1, <1>3
    <2>2. Live(th, w)
        BY <1>4, <2>1 DEF Live
    <2>3. thr'[w.thread] = th[w.thread]
        BY <1>3, <2>1, <2>2
    <2> QED
        BY <2>2, <2>3 DEF Live
<1>8. SingleWaits => \A o \in Object : \A w \in Wakers(queue'[o]) : Live(thr', w)
    BY <1>4 DEF Inv, SingleWaitsOK
<1>9. \A a \in Address : \A w \in Wakers(queue'[a]) : Live(thr', w)
    BY <1>4, SyncObjectsAssumption DEF Inv, ArbiterOK
<1>5. \A t \in Thread \ X : thr[t].state # "Waiting" => thr'[t] = thr[t]
    BY <1>3
<1>6. ASSUME NEW t \in Thread, thr'[t].state = "Waiting"
      PROVE  /\ thr'[t] = thr[t]
             /\ \A o \in Object : WakerOf(thr, t) \in Wakers(queue[o]) =>
                                  WakerOf(thr, t) \in Wakers(queue'[o])
    <2>1. t \notin W /\ thr'[t] = th[t]
        BY <1>3, <1>6
    <2>2. WakerOf(thr, t).thread = t
        BY DEF WakerOf
    <2> QED
        BY <1>3, <1>6, <2>1, <2>2
<1>7. ASSUME NEW o \in Object, queue[o] = <<>> PROVE queue'[o] = <<>>
    <2>1. queue[o] \in Seq(Waker) /\ queue'[o] \in Seq(Waker)
        BY <1>1, <1>2 DEF Queues
    <2>2. Wakers(queue[o]) = {}
        BY <1>7, <2>1, EmptyQueue
    <2>3. Wakers(queue'[o]) = {}
        BY <1>3, <2>2
    <2> QED
        BY <2>1, <2>3, EmptyQueue
<1> QED
    BY <1>2, <1>5, <1>6, <1>7, <1>8, <1>9 DEF Keeps

\* Leaving thr and queue alone keeps everything.
LEMMA UnchangedKeeps ==
    ASSUME Inv, thr' = thr, queue' = queue, panic' = "none", NEW X
    PROVE  Keeps(X)
<1>1. thr \in Table /\ queue \in Queues /\ SleepersOK(thr) /\ WakersOK(thr, queue)
    BY InvTypes
<1>2. /\ SingleWaits => \A o \in Object : \A w \in Wakers(queue[o]) : Live(thr, w)
      /\ \A a \in Address : \A w \in Wakers(queue[a]) : Live(thr, w)
    BY DEF Inv, SingleWaitsOK, ArbiterOK
<1> QED
    BY <1>1, <1>2 DEF Keeps

\* wake(..).expect(..) on the first waker of a queue.
LEMMA WakeFirstKeeps ==
    ASSUME Inv, panic = "none", NEW o \in Object, queue[o] # <<>>, WakeFirst(o)
    PROVE  Keeps({})
<1> DEFINE w == Head(queue[o])
<1>1. /\ thr \in Table /\ queue \in Queues /\ SleepersOK(thr) /\ WakersOK(thr, queue)
      /\ queue[o] \in Seq(Waker)
    BY InvTypes DEF Queues
<1>2. w \in Waker /\ w \in Wakers(queue[o]) /\ w.thread \in Thread
    BY <1>1, HeadWaker, InvTypes
<1>3. CASE Live(thr, w)
    <2>1. WakeByObject(thr, queue, {w.thread}, o)
        BY <1>3 DEF WakeFirst
    <2>2. w = WakerOf(thr, w.thread)
        BY <1>2, <1>3, LiveIsCurrent
    <2>3. thr[w.thread].state = "Waiting" /\ ~WakeFails(thr[w.thread], o)
        BY <1>1, <1>2, <2>2, LiveWakerSucceeds
    <2> HIDE DEF w
    <2>4. Wakes(thr, queue, {w.thread}, thr', queue') /\ panic' = panic
        <3>1. {w.thread} \in SUBSET Thread
            BY <1>2
        <3>2. \A t \in {w.thread} : thr[t].state = "Waiting" /\ ~WakeFails(thr[t], o)
            BY <2>3
        <3> QED
            BY <1>1, <2>1, <3>1, <3>2, WakeByObjectStep
    <2> QED
        BY <1>1, <1>2, <2>3, <2>4, WakesKeeps
<1>4. CASE ~Live(thr, w)
    <2>1. panic' = "stale waker" /\ thr' = thr /\ queue' = queue
        BY <1>4 DEF WakeFirst
    <2>2. ~SingleWaits
        BY <1>2, <1>4 DEF Inv, SingleWaitsOK
    <2> QED
        BY <1>1, <2>1, <2>2 DEF Keeps, Inv, ArbiterOK
<1> QED
    BY <1>3, <1>4

\* Waking everybody in the queue of o, which is emptied.
LEMMA WakeAllKeeps ==
    ASSUME Inv, panic = "none", NEW o \in Object, NEW th \in Table, NEW X, WakeAll(th, o),
           SleepersOK(th), WakersOK(th, queue),
           \A t \in Thread : th[t].wakeKey = thr[t].wakeKey,
           \A t \in Thread : th[t].state = "Waiting" => th[t] = thr[t],
           \A t \in Thread \ X : th[t] = thr[t]
    PROVE  /\ Keeps(X)
           /\ queue'[o] = <<>>
           /\ panic' = "none"
           /\ \A t \in Thread : th[t].state # "Waiting" => thr'[t] = th[t]
<1> DEFINE W == LiveThreads(th, queue[o])
           qs == [queue EXCEPT ![o] = <<>>]
<1>1. queue \in Queues /\ \A p \in Object : queue[p] \in Seq(Waker)
    BY InvTypes DEF Queues
<1>2. <<>> \in Seq(Waker) /\ Wakers(<<>>) = {}
    BY DEF Wakers
<1>3. qs \in Queues /\ qs[o] = <<>> /\ \A p \in Object : p # o => qs[p] = queue[p]
    BY <1>1, <1>2 DEF Queues
<1>4. \A p \in Object : Wakers(qs[p]) \subseteq Wakers(queue[p])
    BY <1>2, <1>3
<1>5. WakersOK(th, qs)
    BY <1>4 DEF WakersOK
<1>6. W \in SUBSET Thread /\ \A t \in W : WakerOf(th, t) \in Wakers(queue[o])
    BY DEF LiveThreads
<1>7. \A t \in W : th[t].state = "Waiting" /\ ~WakeFails(th[t], o)
    BY <1>1, <1>6, LiveWakerSucceeds
<1>8. WakeByObject(th, qs, W, o)
    BY DEF WakeAll
<1>9. \A p \in Object : \A t \in Thread \ W :
          WakerOf(thr, t) \in Wakers(queue[p]) => WakerOf(thr, t) \in Wakers(qs[p])
    <2> SUFFICES ASSUME NEW p \in Object, NEW t \in Thread \ W,
                        WakerOf(thr, t) \in Wakers(queue[p])
                 PROVE  WakerOf(thr, t) \in Wakers(qs[p])
        OBVIOUS
    <2>1. WakerOf(thr, t) = WakerOf(th, t)
        BY DEF WakerOf
    <2>2. p # o
        BY <2>1 DEF LiveThreads
    <2> QED
        BY <1>3, <2>2
<1> HIDE DEF W, qs
<1>10. Wakes(th, qs, W, thr', queue') /\ panic' = panic
    BY <1>3, <1>5, <1>6, <1>7, <1>8, WakeByObjectStep
<1>11. Keeps(X)
    BY <1>3, <1>4, <1>6, <1>7, <1>9, <1>10, WakesKeeps
<1>12. queue'[o] = <<>>
    <2>1. Wakers(queue'[o]) = {} /\ queue'[o] \in Seq(Waker)
        BY <1>2, <1>3, <1>10 DEF Wakes, Queues
    <2> QED
        BY <2>1, EmptyQueue
<1>13. \A t \in Thread : th[t].state # "Waiting" => thr'[t] = th[t]
    BY <1>7, <1>10 DEF Wakes
<1> QED
    BY <1>10, <1>11, <1>12, <1>13

-----------------------------------------------------------------------------

\* Signalling an event or a timer.
LEMMA FireKeeps ==
    ASSUME Inv, panic = "none", NEW o \in Signaller, Fire(o),
           acquired' = acquired, dead' = dead
    PROVE  /\ Keeps({})
           /\ AvailableHasNoWaiters'
           /\ signal' \in [Signaller -> [reset : ResetType, signaled : BOOLEAN]]
<1>1. o \in Object /\ o \in Waitable
    BY SyncObjectsAssumption DEF Signaller, Waitable
<1>2. signal \in [Signaller -> [reset : ResetType, signaled : BOOLEAN]]
    BY DEF Inv, TypeOK
<1>3. ASSUME NEW b \in BOOLEAN, SetSignaled(o, b)
      PROVE  /\ signal' \in [Signaller -> [reset : ResetType, signaled : BOOLEAN]]
             /\ signal'[o].signaled = b
             /\ \A p \in Signaller : p # o => signal'[p] = signal[p]
    BY <1>2, <1>3 DEF SetSignaled
<1>4. ASSUME Keeps({}), NEW b \in BOOLEAN, SetSignaled(o, b), b => queue'[o] = <<>>
      PROVE  AvailableHasNoWaiters'
    <2> SUFFICES ASSUME NEW p \in Waitable, Available(p)' PROVE queue'[p] = <<>>
        BY DEF AvailableHasNoWaiters
    <2>1. p \in Object
        BY WaitableIsObject
    <2>2. CASE p = o
        BY <1>3, <1>4, <2>2, AvailableCases
    <2>3. CASE p # o
        <3>1. Available(p)
            BY <1>3, <1>4, <2>3, AvailableCases DEF Waitable
        <3>2. queue[p] = <<>>
            BY <3>1 DEF Inv, AvailableHasNoWaiters
        <3> QED
            BY <1>4, <2>1, <3>2 DEF Keeps
    <2> QED
        BY <2>2, <2>3
<1>5. CASE IsSticky(o)
    <2>1. WakeAll(thr, o) /\ SetSignaled(o, TRUE)
        BY <1>5 DEF Fire
    <2>2. thr \in Table /\ SleepersOK(thr) /\ WakersOK(thr, queue)
        BY InvTypes
    <2>3. Keeps({}) /\ queue'[o] = <<>>
        BY <1>1, <2>1, <2>2, WakeAllKeeps
    <2> QED
        BY <1>3, <1>4, <2>1, <2>3
<1>6. CASE ~IsSticky(o) /\ queue[o] = <<>>
    <2>1. thr' = thr /\ queue' = queue /\ panic' = "none" /\ SetSignaled(o, TRUE)
        BY <1>6 DEF Fire
    <2>2. Keeps({})
        BY <2>1, UnchangedKeeps
    <2> QED
        BY <1>3, <1>4, <1>6, <2>1, <2>2
<1>7. CASE ~IsSticky(o) /\ queue[o] # <<>>
    <2>1. WakeFirst(o) /\ SetSignaled(o, FALSE)
        BY <1>7 DEF Fire
    <2>2. Keeps({})
        BY <1>1, <1>7, <2>1, WakeFirstKeeps
    <2> QED
        BY <1>3, <1>4, <2>1, <2>2
<1> QED
    BY <1>5, <1>6, <1>7

\* Releasing a mutex.
LEMMA ReleaseKeeps ==
    ASSUME Inv, panic = "none", NEW m \in Mutex, MutexRelease(m)
    PROVE  /\ Keeps({})
           /\ AvailableHasNoWaiters'
           /\ AcquiredIsHeld'
           /\ acquired' \in [Mutex -> BOOLEAN]
           /\ holder' \in [Mutex -> Thread \cup {NoThread}]
<1>1. m \in Object /\ m \in Waitable
    BY SyncObjectsAssumption DEF Waitable
<1>2. /\ acquired \in [Mutex -> BOOLEAN] /\ holder \in [Mutex -> Thread \cup {NoThread}]
      /\ \A k \in Mutex : acquired[k] <=> holder[k] # NoThread
      /\ \A p \in Waitable : Available(p) => queue[p] = <<>>
    BY DEF Inv, TypeOK, AcquiredIsHeld, AvailableHasNoWaiters
<1>3. signal' = signal /\ dead' = dead
    BY DEF MutexRelease
<1>4. CASE queue[m] = <<>>
    <2>1. /\ acquired' = [acquired EXCEPT ![m] = FALSE]
          /\ holder' = [holder EXCEPT ![m] = NoThread]
          /\ thr' = thr /\ queue' = queue /\ panic' = "none"
        BY <1>4 DEF MutexRelease
    <2>2. Keeps({})
        BY <2>1, UnchangedKeeps
    <2>3. AcquiredIsHeld'
        BY <1>2, <2>1 DEF AcquiredIsHeld
    <2>4. AvailableHasNoWaiters'
        <3> SUFFICES ASSUME NEW p \in Waitable, Available(p)' PROVE queue[p] = <<>>
            BY <2>1 DEF AvailableHasNoWaiters
        <3>1. p = m \/ Available(p)
            BY <1>2, <1>3, <2>1, AvailableCases DEF Waitable
        <3> QED
            BY <1>2, <1>4, <3>1
    <2> QED
        BY <1>2, <2>1, <2>2, <2>3, <2>4
<1>5. CASE queue[m] # <<>>
    <2>1. /\ WakeFirst(m) /\ acquired' = acquired
          /\ holder' = [holder EXCEPT ![m] = Head(queue[m]).thread]
        BY <1>5 DEF MutexRelease
    <2>2. Keeps({})
        BY <1>1, <1>5, <2>1, WakeFirstKeeps
    <2>3. Head(queue[m]).thread \in Thread
        BY <1>1, <1>5, InvTypes, HeadWaker DEF Queues, Waker
    <2>4. acquired[m]
        BY <1>1, <1>2, <1>5, AvailableCases
    <2>5. \A t \in Thread : t # NoThread
        BY ThreadTableAssumption DEF Thread, NoThread
    <2>6. AcquiredIsHeld'
        BY <1>2, <2>1, <2>3, <2>4, <2>5 DEF AcquiredIsHeld
    <2>7. AvailableHasNoWaiters'
        <3> SUFFICES ASSUME NEW p \in Waitable, Available(p)' PROVE queue'[p] = <<>>
            BY DEF AvailableHasNoWaiters
        <3>1. Available(p)
            BY <1>3, <2>1, AvailableCases DEF Waitable
        <3> QED
            BY <1>2, <2>2, <3>1, WaitableIsObject DEF Keeps
    <2> QED
        BY <1>2, <2>1, <2>2, <2>3, <2>6, <2>7
<1> QED
    BY <1>4, <1>5

\* Objects whose own state does not change keep their waiters.
LEMMA AvailableUnchanged ==
    ASSUME Inv, NEW X, Keeps(X), UNCHANGED <<signal, acquired, dead>>
    PROVE  AvailableHasNoWaiters'
<1> SUFFICES ASSUME NEW p \in Waitable, Available(p)' PROVE queue'[p] = <<>>
    BY DEF AvailableHasNoWaiters
<1>1. Available(p)
    BY AvailableCases DEF Waitable
<1>2. queue[p] = <<>>
    BY <1>1 DEF Inv, AvailableHasNoWaiters
<1> QED
    BY <1>2, WaitableIsObject DEF Keeps

InSlice == {"slice", "wait", "resched"}

\* The steps that leave the running thread and the wait call alone.
LEMMA KeepsInv ==
    ASSUME Inv, panic = "none", Keeps({}),
           UNCHANGED <<current, next, nextTid, waker, pending>>,
           pc' = "wait" <=> pc = "wait",
           pc = "wait" => thr' = thr,
           pc \in InSlice <=> pc' \in InSlice,
           pc' = "slice" => pc = "slice",
           TypeOK', AvailableHasNoWaiters', AcquiredIsHeld'
    PROVE  Inv'
<1>1. /\ thr \in Table /\ thr' \in Table
      /\ current \in Thread \cup {NoThread} /\ next \in Thread \cup {NoThread}
    BY InvTypes DEF Keeps, Inv, TypeOK
<1>2. SchedulerOK'
    <2>1. current' # NoThread <=> pc' \in InSlice
        BY DEF Inv, SchedulerOK, InSlice
    <2>2. pc' = "slice" => thr'[current'].state = "Running"
        <3> SUFFICES ASSUME pc' = "slice" PROVE thr'[current].state = "Running"
            OBVIOUS
        <3>1. current \in Thread /\ thr[current].state = "Running"
            BY <1>1 DEF Inv, SchedulerOK
        <3> QED
            BY <3>1 DEF Keeps
    <2>3. next' # NoThread => thr'[next'].state = "Ready"
        <3> SUFFICES ASSUME next # NoThread PROVE thr'[next].state = "Ready"
            OBVIOUS
        <3>1. next \in Thread /\ thr[next].state = "Ready"
            BY <1>1 DEF Inv, SchedulerOK
        <3> QED
            BY <3>1 DEF Keeps
    <2>4. \A t \in Thread : t >= nextTid' => thr'[t].state = "Absent" /\ thr'[t].wakeKey = 0
        <3> SUFFICES ASSUME NEW t \in Thread, t >= nextTid
                     PROVE  thr'[t].state = "Absent" /\ thr'[t].wakeKey = 0
            OBVIOUS
        <3>1. thr[t].state = "Absent" /\ thr[t].wakeKey = 0
            BY DEF Inv, SchedulerOK
        <3> QED
            BY <3>1 DEF Keeps
    <2> QED
        BY <2>1, <2>2, <2>3, <2>4 DEF SchedulerOK, InSlice
<1>3. PendingOK'
    BY DEF Inv, PendingOK, Live, Objects
<1>4. WaitingIsQueued'
    <2> SUFFICES ASSUME NEW t \in Thread, thr'[t].state = "Waiting", NEW o \in Objects(thr', t)
                 PROVE  \/ WakerOf(thr', t) \in Wakers(queue'[o])
                        \/ t = current /\ \E i \in 1..Len(pending) : pending[i] = o
        BY DEF WaitingIsQueued
    <2>1. thr'[t] = thr[t]
        BY DEF Keeps
    <2>2. Objects(thr', t) = Objects(thr, t) /\ WakerOf(thr', t) = WakerOf(thr, t)
        BY <2>1 DEF Objects, WakerOf
    <2>3. o \in Object
        BY <1>1, ObjectsType
    <2>4. \/ WakerOf(thr, t) \in Wakers(queue[o])
          \/ t = current /\ \E i \in 1..Len(pending) : pending[i] = o
        BY <2>1, <2>2 DEF Inv, WaitingIsQueued
    <2> QED
        BY <2>2, <2>3, <2>4 DEF Keeps
<1>5. SingleWaitsOK'
    <2> SUFFICES ASSUME SingleWaits, pending # <<>>
                 PROVE  Len(pending) = 1 /\ Live(thr', waker)
        BY DEF Keeps, SingleWaitsOK, SingleWaits
    <2>1. Len(pending) = 1 /\ Live(thr, waker)
        BY DEF Inv, SingleWaitsOK
    <2>2. pc = "wait"
        BY DEF Inv, PendingOK
    <2> QED
        BY <2>1, <2>2
<1>6. OnlyStaleWakersPanic' /\ SleepersOK(thr)' /\ WakersOK(thr, queue)' /\ ArbiterOK'
    BY DEF Keeps, OnlyStaleWakersPanic, ArbiterOK
<1> QED
    BY <1>2, <1>3, <1>4, <1>5, <1>6 DEF Inv

-----------------------------------------------------------------------------

\* Signalling an address: the first n wakers are drained and woken.
LEMMA ArbiterKeeps ==
    ASSUME Inv, panic = "none", NEW a \in Address, NEW amount \in Int, ArbiterSignal(a, amount)
    PROVE  Keeps({})
<1> DEFINE q == queue[a]
           n == Drained(a, amount)
           W == {q[i].thread : i \in 1..n}
           rest == SubSeq(q, n + 1, Len(q))
           qs == [queue EXCEPT ![a] = rest]
<1>1. a \in Object
    BY SyncObjectsAssumption
<1>2. /\ thr \in Table /\ queue \in Queues /\ SleepersOK(thr) /\ WakersOK(thr, queue)
      /\ q \in Seq(Waker) /\ Len(q) \in Nat
    BY <1>1, InvTypes DEF Queues
<1>3. n \in 0..Len(q)
    BY <1>2 DEF Drained
<1>4. /\ rest \in Seq(Waker)
      /\ Len(rest) = Len(q) - n
      /\ \A i \in 1..(Len(q) - n) : rest[i] = q[n + i]
    BY <1>2, <1>3
<1>5. \A i \in 1..Len(q) : q[i] \in Wakers(q) /\ q[i] \in Waker /\ q[i].thread \in Thread
    BY <1>1, <1>2, InvTypes DEF Wakers
<1>6. \A i \in 1..n : i \in 1..Len(q)
    BY <1>2, <1>3
<1>7. W \in SUBSET Thread
    BY <1>5, <1>6
<1>8. Wakers(rest) \subseteq Wakers(q)
    <2> SUFFICES ASSUME NEW i \in 1..Len(rest) PROVE rest[i] \in Wakers(q)
        BY DEF Wakers
    <2>1. n + i \in 1..Len(q) /\ rest[i] = q[n + i]
        BY <1>2, <1>3, <1>4
    <2> QED
        BY <1>5, <2>1
<1>9. \A w \in Wakers(q) : w.thread \notin W => w \in Wakers(rest)
    <2> SUFFICES ASSUME NEW i \in 1..Len(q), q[i].thread \notin W PROVE q[i] \in Wakers(rest)
        BY DEF Wakers
    <2>1. i \notin 1..n
        OBVIOUS
    <2>2. i - n \in 1..(Len(q) - n) /\ n + (i - n) = i
        BY <2>1, <1>2, <1>3
    <2> HIDE DEF q, n, rest
    <2>3. i - n \in 1..Len(rest) /\ rest[i - n] = q[i]
        BY <2>2, <1>4
    <2> QED
        BY <2>3 DEF Wakers
<1>10. /\ \A o \in Object : o # a => qs[o] = queue[o]
       /\ qs[a] = rest
       /\ qs \in Queues
    BY <1>1, <1>2, <1>4 DEF Queues
<1>11. \A o \in Object : Wakers(qs[o]) \subseteq Wakers(queue[o])
    BY <1>8, <1>10
<1>12. WakersOK(thr, qs)
    BY <1>2, <1>11 DEF WakersOK
<1>13. \A o \in Object : \A t \in Thread \ W :
          WakerOf(thr, t) \in Wakers(queue[o]) => WakerOf(thr, t) \in Wakers(qs[o])
    <2>1. \A t \in Thread : WakerOf(thr, t).thread = t
        BY DEF WakerOf
    <2> QED
        BY <1>9, <1>10, <2>1
<1>14. CASE \A i \in 1..n : Live(thr, q[i])
    <2>1. WakeByObject(thr, qs, W, a)
        BY <1>14 DEF ArbiterSignal
    <2>2. \A t \in W : thr[t].state = "Waiting" /\ ~WakeFails(thr[t], a)
        <3> SUFFICES ASSUME NEW i \in 1..n
                     PROVE  thr[q[i].thread].state = "Waiting" /\ ~WakeFails(thr[q[i].thread], a)
            OBVIOUS
        <3>1. i \in 1..Len(q) /\ Live(thr, q[i])
            BY <1>6, <1>14
        <3>2. q[i] = WakerOf(thr, q[i].thread) /\ q[i].thread \in Thread
            BY <1>5, <3>1, LiveIsCurrent
        <3> QED
            BY <1>1, <1>2, <1>5, <3>1, <3>2, LiveWakerSucceeds
    <2> HIDE DEF q, n, W, rest, qs
    <2>3. Wakes(thr, qs, W, thr', queue') /\ panic' = panic
        BY <1>2, <1>7, <1>10, <1>12, <2>1, <2>2, WakeByObjectStep
    <2> QED
        BY <1>2, <1>7, <1>10, <1>11, <1>13, <2>2, <2>3, WakesKeeps
<1>15. \A i \in 1..n : Live(thr, q[i])
    BY <1>5, <1>6 DEF Inv, ArbiterOK
<1> QED
    BY <1>14, <1>15

-----------------------------------------------------------------------------

\* The system calls that keep the thread running or give up its slice without
\* a wait, and the steps of tick: they keep Inv by KeepsInv.
LEMMA SignalEventInv == ASSUME Inv, panic = "none", SignalEvent PROVE Inv'
<1>1. PICK e \in Event : EventSignal(e)
    BY DEF SignalEvent
<1>2. /\ Keeps({}) /\ AvailableHasNoWaiters'
      /\ signal' \in [Signaller -> [reset : ResetType, signaled : BOOLEAN]]
    BY <1>1, FireKeeps DEF EventSignal, Signaller
<1>3. AcquiredIsHeld'
    BY <1>1 DEF EventSignal, Inv, AcquiredIsHeld
<1>4. TypeOK'
    BY <1>1, <1>2 DEF SignalEvent, EventSignal, loopVars, waitVars, tickVars, irqVars, Inv, TypeOK,
        Keeps, Table, Queues, PC
<1> QED
    BY <1>2, <1>3, <1>4, KeepsInv DEF SignalEvent, loopVars, waitVars, tickVars, InSlice

\* ReleaseMutex hands a mutex on, or unlocks it, and keeps Inv.
LEMMA ReleaseMutexInv == ASSUME Inv, panic = "none", ReleaseMutex PROVE Inv'
<1>1. PICK m \in Mutex : MutexRelease(m)
    BY DEF ReleaseMutex
<1>2. /\ Keeps({}) /\ AvailableHasNoWaiters' /\ AcquiredIsHeld'
      /\ acquired' \in [Mutex -> BOOLEAN]
      /\ holder' \in [Mutex -> Thread \cup {NoThread}]
    BY <1>1, ReleaseKeeps
<1>3. TypeOK'
    BY <1>1, <1>2 DEF ReleaseMutex, Continue, MutexRelease, loopVars, waitVars, tickVars, irqVars,
        Inv, TypeOK, Keeps, Table, Queues
<1> QED
    BY <1>2, <1>3, KeepsInv DEF ReleaseMutex, Continue, loopVars, waitVars, tickVars

\* ArbitrateAddress with Signal keeps Inv.
LEMMA ArbitrateSignalInv == ASSUME Inv, panic = "none", ArbitrateSignal PROVE Inv'
<1>1. Keeps({})
    BY ArbiterKeeps DEF ArbitrateSignal, Word
<1>2. UNCHANGED <<signal, acquired, dead, holder>>
    BY DEF ArbitrateSignal, objVars
<1>3. AvailableHasNoWaiters' /\ AcquiredIsHeld'
    BY <1>1, <1>2, AvailableUnchanged DEF Inv, AcquiredIsHeld
<1>4. TypeOK'
    BY <1>1 DEF ArbitrateSignal, Continue, objVars, loopVars, waitVars, tickVars, irqVars,
        Inv, TypeOK, Keeps, Table, Queues
<1> QED
    BY <1>1, <1>3, <1>4, KeepsInv DEF ArbitrateSignal, Continue, loopVars, waitVars, tickVars

\* ClearEvent makes an event unavailable and keeps Inv.
LEMMA ClearEventInv == ASSUME Inv, panic = "none", ClearEvent PROVE Inv'
<1>1. PICK e \in Event : EventClear(e)
    BY DEF ClearEvent
<1>2. Keeps({})
    BY <1>1, UnchangedKeeps DEF EventClear
<1>3. /\ signal' \in [Signaller -> [reset : ResetType, signaled : BOOLEAN]]
      /\ \A o \in Signaller : signal'[o].signaled => signal[o].signaled
    BY <1>1 DEF EventClear, SetSignaled, Inv, TypeOK, Signaller
<1>4. AvailableHasNoWaiters'
    <2> SUFFICES ASSUME NEW p \in Waitable, Available(p)' PROVE queue[p] = <<>>
        BY <1>1 DEF AvailableHasNoWaiters, EventClear
    <2>1. Available(p)
        BY <1>1, <1>3, AvailableCases DEF Waitable, EventClear
    <2> QED
        BY <2>1 DEF Inv, AvailableHasNoWaiters
<1>5. AcquiredIsHeld'
    BY <1>1 DEF EventClear, Inv, AcquiredIsHeld
<1>6. TypeOK'
    BY <1>1, <1>3 DEF ClearEvent, Continue, EventClear, loopVars, waitVars, tickVars, irqVars, Inv, TypeOK
<1> QED
    BY <1>2, <1>4, <1>5, <1>6, KeepsInv DEF ClearEvent, Continue, loopVars, waitVars, tickVars

\* The steps that leave the thread table, the queues and what objects offer alone.
LEMMA QuietInv ==
    ASSUME Inv, panic = "none", TypeOK',
           UNCHANGED <<thr, queue, panic, signal, acquired, dead, holder>>,
           UNCHANGED <<current, next, nextTid, waker, pending>>,
           pc' = "wait" <=> pc = "wait",
           pc \in InSlice <=> pc' \in InSlice,
           pc' = "slice" => pc = "slice"
    PROVE  Inv'
<1>1. Keeps({})
    BY UnchangedKeeps
<1>2. AvailableHasNoWaiters' /\ AcquiredIsHeld'
    BY <1>1, AvailableUnchanged DEF Inv, AcquiredIsHeld
<1> QED
    BY <1>1, <1>2, KeepsInv

\* Arming or cancelling a timer keeps the types.
LEMMA TimerSetType ==
    ASSUME TypeOK, NEW o \in Timer, NEW d \in Int, NEW i \in Int,
           TimerSet(o, d, i), Continue, UNCHANGED <<mem, irqVars>>
    PROVE  TypeOK'
BY DEF TimerSet, TypeOK, Continue, objVars, loopVars, waitVars, tickVars, irqVars

\* SetTimer, CancelTimer, StoreWord and BindInterrupt keep Inv.
LEMMA QuietCallsInv ==
    ASSUME Inv, panic = "none",
           SetTimer \/ CancelTimer \/ StoreWord \/ BindInterrupt
    PROVE  Inv'
<1> USE DEF Continue, objVars, loopVars, waitVars, tickVars, irqVars
<1>1. CASE SetTimer
    <2>1. PICK o \in Timer, b \in TimerArgs : TimerSet(o, b[1], b[2])
        BY <1>1 DEF SetTimer
    <2>2. b[1] \in Int /\ b[2] \in Int
        BY KernelAssumption
    <2>3. TypeOK'
        BY <1>1, <2>1, <2>2, TimerSetType DEF SetTimer, Inv
    <2> QED
        BY <1>1, <2>1, <2>3, QuietInv DEF SetTimer, TimerSet
<1>2. CASE CancelTimer
    <2>1. PICK o \in Timer : TimerSet(o, -1, -1)
        BY <1>2 DEF CancelTimer, TimerCancel
    <2>2. TypeOK'
        <3>1. -1 \in Int
            OBVIOUS
        <3> QED
            BY <1>2, <2>1, <3>1, TimerSetType DEF CancelTimer, Inv
    <2> QED
        BY <1>2, <2>1, <2>2, QuietInv DEF CancelTimer, TimerSet
<1>3. CASE StoreWord
    <2>1. TypeOK'
        BY <1>3 DEF StoreWord, Inv, TypeOK
    <2> QED
        BY <1>3, <2>1, QuietInv DEF StoreWord
<1>4. CASE BindInterrupt
    <2>1. TypeOK'
        BY <1>4 DEF BindInterrupt, Inv, TypeOK
    <2> QED
        BY <1>4, <2>1, QuietInv DEF BindInterrupt
<1> QED
    BY <1>1, <1>2, <1>3, <1>4

\* The steps of the main loop and of the host that only move on keep Inv.
LEMMA QuietLoopInv ==
    ASSUME Inv, panic = "none",
           TimersDone \/ DrainDone \/ Activate \/ ClockTick
    PROVE  Inv'
<1> USE DEF objVars, loopVars, waitVars, tickVars, irqVars
<1>0. Len(TimerOrder) \in Nat
    BY KernelAssumption
<1>1. CASE TimersDone
    <2>1. TypeOK'
        BY <1>0, <1>1, KernelAssumption DEF TimersDone, Inv, TypeOK, PC
    <2> QED
        BY <1>1, <2>1, QuietInv DEF TimersDone, InSlice
<1>2. CASE DrainDone
    <2>1. TypeOK'
        BY <1>2 DEF DrainDone, Inv, TypeOK, PC
    <2> QED
        BY <1>2, <2>1, QuietInv DEF DrainDone, InSlice
<1>3. CASE Activate
    <2>1. TypeOK'
        BY <1>3 DEF Activate, Inv, TypeOK
    <2> QED
        BY <1>3, <2>1, QuietInv DEF Activate
<1>4. CASE ClockTick
    <2>1. TypeOK'
        BY <1>4, KernelAssumption DEF ClockTick, Inv, TypeOK
    <2> QED
        BY <1>4, <2>1, QuietInv DEF ClockTick
<1> QED
    BY <1>1, <1>2, <1>3, <1>4

\* tick_at on the thread table keeps Inv.
LEMMA TickThreadsInv == ASSUME Inv, panic = "none", TickThreads PROVE Inv'
<1> DEFINE W == {t \in Thread : Expired(t, now)}
<1>1. Wakes(thr, queue, W, thr', queue') /\ panic' = panic
    BY InvTypes, WakeExpiredStep DEF TickThreads
<1>2. W \in SUBSET Thread /\ \A t \in W : thr[t].state = "Waiting"
    BY DEF Expired
<1> HIDE DEF W
<1>3. Keeps({})
    BY <1>1, <1>2, InvTypes, WakesKeeps
<1>4. AvailableHasNoWaiters' /\ AcquiredIsHeld'
    BY <1>3, AvailableUnchanged DEF TickThreads, objVars, Inv, AcquiredIsHeld
<1>5. TypeOK'
    BY <1>3 DEF TickThreads, objVars, waitVars, irqVars, Inv, TypeOK, Keeps, Table, Queues, PC
<1> QED
    BY <1>3, <1>4, <1>5, KeepsInv DEF TickThreads, waitVars, InSlice

\* One timer's tick keeps Inv.
LEMMA TickTimerInv == ASSUME Inv, panic = "none", TickTimer PROVE Inv'
<1> DEFINE o == TimerOrder[cursor]
<1>1. cursor \in 1..Len(TimerOrder) /\ Len(TimerOrder) \in Nat
    BY KernelAssumption DEF TickTimer, Inv, TypeOK
<1>2. o \in Timer /\ o \in Signaller
    BY <1>1, KernelAssumption DEF Signaller
<1>3. TimerTick(o, tickTime) /\ cursor' = cursor + 1 /\ UNCHANGED <<acquired, dead, holder>>
    BY DEF TickTimer, TimerTick
<1>4. timer[o].interval \in Int /\ tickTime \in Int /\ timer \in [Timer -> [next : Int, interval : Int]]
    BY <1>2, KernelAssumption DEF Inv, TypeOK
<1> HIDE DEF o
<1>5. timer' \in [Timer -> [next : Int, interval : Int]]
    BY <1>2, <1>3, <1>4 DEF TimerTick, Disarmed
<1>6. /\ Keeps({}) /\ AvailableHasNoWaiters'
      /\ signal' \in [Signaller -> [reset : ResetType, signaled : BOOLEAN]]
    <2>1. CASE Due(o, tickTime)
        BY <2>1, <1>2, <1>3, FireKeeps DEF TimerTick
    <2>2. CASE ~Due(o, tickTime)
        <3>1. UNCHANGED <<thr, queue, panic, signal>>
            BY <2>2, <1>3 DEF TimerTick
        <3>2. Keeps({})
            BY <3>1, UnchangedKeeps
        <3> QED
            BY <1>3, <3>1, <3>2, AvailableUnchanged DEF Inv, TypeOK
    <2> QED
        BY <2>1, <2>2
<1>7. AcquiredIsHeld'
    BY <1>3 DEF Inv, AcquiredIsHeld
<1>8. TypeOK'
    <2>1. cursor' \in 1..(Len(TimerOrder) + 1)
        BY <1>1, <1>3
    <2>2. thr' \in [Thread -> CommonThread] /\ queue' \in [Object -> Seq(Waker)]
          /\ panic' \in {"none", "stale waker"}
        BY <1>6 DEF Keeps, Table, Queues
    <2> QED
        BY <1>3, <1>5, <1>6, <2>1, <2>2 DEF TickTimer, waitVars, irqVars, Inv, TypeOK
<1> QED
    BY <1>6, <1>7, <1>8, KeepsInv DEF TickTimer, waitVars, InSlice

\* Signalling the event bound to an interrupt keeps Inv.
LEMMA DrainInterruptInv == ASSUME Inv, panic = "none", DrainInterrupt PROVE Inv'
<1> DEFINE e == interrupts[Head(active)]
<1>1. active \in Seq(Interrupt) /\ active # <<>> /\ Head(active) \in Interrupt /\ active' = Tail(active)
    BY DEF DrainInterrupt, Inv, TypeOK
<1>2. e \in Event \cup {NoEvent} /\ active' \in Seq(Interrupt)
    BY <1>1 DEF Inv, TypeOK
<1>3. UNCHANGED <<timer, acquired, dead, holder, mem>>
    BY DEF DrainInterrupt, EventSignal, objVars
<1>4. /\ Keeps({}) /\ AvailableHasNoWaiters'
      /\ signal' \in [Signaller -> [reset : ResetType, signaled : BOOLEAN]]
    <2>1. CASE e # NoEvent
        <3>1. EventSignal(e) /\ e \in Signaller
            BY <1>2, <2>1 DEF DrainInterrupt, Signaller
        <3> QED
            BY <1>3, <3>1, FireKeeps DEF EventSignal
    <2>2. CASE e = NoEvent
        <3>1. UNCHANGED <<thr, queue, panic, signal>>
            BY <2>2 DEF DrainInterrupt, objVars
        <3>2. Keeps({})
            BY <3>1, UnchangedKeeps
        <3> QED
            BY <1>3, <3>1, <3>2, AvailableUnchanged DEF Inv, TypeOK
    <2> QED
        BY <2>1, <2>2
<1>5. AcquiredIsHeld'
    BY <1>3 DEF Inv, AcquiredIsHeld
<1>6. TypeOK'
    BY <1>2, <1>3, <1>4 DEF DrainInterrupt, loopVars, waitVars, tickVars, Inv, TypeOK,
        Keeps, Table, Queues
<1> QED
    BY <1>4, <1>5, <1>6, KeepsInv DEF DrainInterrupt, loopVars, waitVars, tickVars

-----------------------------------------------------------------------------

\* Changing one thread that is not asleep, before or after.
LEMMA ChangedKeeps ==
    ASSUME Inv, NEW t \in Thread, thr' \in Table,
           \A u \in Thread \ {t} : thr'[u] = thr[u],
           thr'[t].wakeKey = thr[t].wakeKey,
           thr[t].state # "Waiting", thr'[t].state # "Waiting",
           queue' = queue, panic' = "none"
    PROVE  Keeps({t})
<1>1. /\ thr \in Table /\ queue \in Queues /\ SleepersOK(thr) /\ WakersOK(thr, queue)
      /\ \A o \in Object : \A w \in Wakers(queue[o]) : w.thread \in Thread
    BY InvTypes
<1>2. \A u \in Thread : thr'[u].wakeKey = thr[u].wakeKey
    OBVIOUS
<1>3. \A o \in Object : \A w \in Wakers(queue[o]) : Live(thr', w) <=> Live(thr, w)
    BY <1>1, <1>2 DEF Live
<1>4. SleepersOK(thr')
    BY <1>1 DEF SleepersOK
<1>5. WakersOK(thr', queue')
    <2> SUFFICES ASSUME NEW o \in Object, NEW w \in Wakers(queue[o])
                 PROVE  /\ w.key <= thr'[w.thread].wakeKey
                        /\ Live(thr', w) => thr'[w.thread].state = "Waiting"
                                            /\ o \in Objects(thr', w.thread)
        BY DEF WakersOK
    <2>1. w.thread \in Thread /\ w.key <= thr[w.thread].wakeKey
        BY <1>1 DEF WakersOK
    <2>2. Live(thr', w) => thr[w.thread].state = "Waiting" /\ o \in Objects(thr, w.thread)
        BY <1>1, <1>3 DEF WakersOK
    <2> QED
        BY <1>2, <2>1, <2>2 DEF Objects
<1>6. /\ SingleWaits => \A o \in Object : \A w \in Wakers(queue[o]) : Live(thr', w)
      /\ \A a \in Address : \A w \in Wakers(queue[a]) : Live(thr', w)
    BY <1>3, SyncObjectsAssumption DEF Inv, SingleWaitsOK, ArbiterOK
<1> QED
    BY <1>1, <1>4, <1>5, <1>6 DEF Keeps

\* The steps that end with no wait call being set up.
LEMMA NoWaitCallInv ==
    ASSUME Inv, NEW X, Keeps(X), pending = <<>>, pending' = <<>>, pc' # "wait",
           TypeOK', SchedulerOK', AvailableHasNoWaiters', AcquiredIsHeld'
    PROVE  Inv'
<1>1. thr' \in Table /\ Len(<<>>) = 0
    BY DEF Keeps
<1>2. PendingOK'
    BY <1>1 DEF PendingOK
<1>3. WaitingIsQueued'
    <2> SUFFICES ASSUME NEW t \in Thread, thr'[t].state = "Waiting", NEW o \in Objects(thr', t)
                 PROVE  WakerOf(thr', t) \in Wakers(queue'[o])
        BY DEF WaitingIsQueued
    <2>1. thr'[t] = thr[t]
        BY DEF Keeps
    <2>2. Objects(thr', t) = Objects(thr, t) /\ WakerOf(thr', t) = WakerOf(thr, t)
        BY <2>1 DEF Objects, WakerOf
    <2>3. o \in Object
        BY <1>1, ObjectsType
    <2>4. WakerOf(thr, t) \in Wakers(queue[o])
        BY <1>1, <2>1, <2>2 DEF Inv, WaitingIsQueued
    <2> QED
        BY <2>2, <2>3, <2>4 DEF Keeps
<1>4. SingleWaitsOK'
    BY DEF Keeps, SingleWaitsOK, SingleWaits
<1>5. OnlyStaleWakersPanic' /\ SleepersOK(thr)' /\ WakersOK(thr, queue)' /\ ArbiterOK'
    BY DEF Keeps, OnlyStaleWakersPanic, ArbiterOK
<1> QED
    BY <1>2, <1>3, <1>4, <1>5 DEF Inv

\* The thread that next_thread finds is ready.
LEMMA NextThreadReady ==
    ASSUME ReadyThreads # {}
    PROVE  NextThread \in ReadyThreads
<1>1. ReadyThreads \in SUBSET Nat
    BY ThreadTableAssumption DEF ReadyThreads, Thread
<1>2. \E t \in ReadyThreads : \A u \in ReadyThreads : t <= u
    BY <1>1, LeastNatural
<1> QED
    BY <1>2 DEF NextThread

\* run_next keeps Inv; the thread it runs is ready, so run_thread's assertion holds.
LEMMA RunNextInv == ASSUME Inv, panic = "none", RunNext PROVE Inv'
<1> USE DEF objVars, waitVars, tickVars, irqVars
<1>1. /\ pc = "run_next" /\ pending = <<>> /\ pending' = <<>> /\ current = NoThread
      /\ next \in Thread \cup {NoThread} /\ thr \in Table
      /\ nextTid \in 1..MaxThreads /\ nextTid' = nextTid /\ next' = NoThread
      /\ UNCHANGED <<queue, signal, acquired, dead, holder>>
    BY InvTypes DEF RunNext, Inv, TypeOK, SchedulerOK, PendingOK
<1>2. \A t \in Thread : t # NoThread
    BY ThreadTableAssumption DEF Thread, NoThread
<1>3. ASSUME NEW t \in Thread, thr[t].state = "Ready", RunThread(t) PROVE Inv'
    <2>1. /\ thr' = [thr EXCEPT ![t].state = "Running", ![t].resume = Normal]
          /\ current' = t /\ pc' = "slice" /\ panic' = "none"
        BY <1>3 DEF RunThread
    <2>2. Normal \in ThreadResume /\ "Running" \in ThreadState
        BY DEF Normal, ThreadResume, ThreadState
    <2>3. thr[t] \in CommonThread
        BY <1>1 DEF Table
    <2>4. thr' \in Table /\ thr'[t].state = "Running" /\ thr'[t].wakeKey = thr[t].wakeKey
        BY <1>1, <2>1, <2>2, <2>3 DEF Table, CommonThread
    <2>5. \A u \in Thread \ {t} : thr'[u] = thr[u]
        BY <1>1, <2>1 DEF Table
    <2>6. Keeps({t})
        BY <1>1, <1>3, <2>1, <2>4, <2>5, ChangedKeeps
    <2>7. \A u \in Thread : u >= nextTid => u # t
        BY <1>3 DEF Inv, SchedulerOK
    <2>8. SchedulerOK'
        BY <1>1, <1>2, <2>1, <2>4, <2>5, <2>7 DEF Inv, SchedulerOK
    <2>9. AvailableHasNoWaiters' /\ AcquiredIsHeld'
        BY <1>1, <2>6, AvailableUnchanged DEF Inv, AcquiredIsHeld
    <2>10. TypeOK'
        BY <1>1, <2>1, <2>4 DEF RunNext, Inv, TypeOK, Table, PC
    <2> QED
        BY <1>1, <2>1, <2>6, <2>8, <2>9, <2>10, NoWaitCallInv
<1>4. CASE next # NoThread
    <2>1. next \in Thread /\ thr[next].state = "Ready" /\ RunThread(next)
        BY <1>1, <1>4 DEF RunNext, Inv, SchedulerOK
    <2> QED
        BY <1>3, <2>1
<1>5. CASE next = NoThread /\ ReadyThreads # {}
    <2>1. NextThread \in Thread /\ thr[NextThread].state = "Ready"
        BY <1>5, NextThreadReady DEF ReadyThreads
    <2>2. RunThread(NextThread)
        BY <1>5 DEF RunNext
    <2> QED
        BY <1>3, <2>1, <2>2
<1>6. CASE next = NoThread /\ ReadyThreads = {}
    <2>1. pc' = "tick" /\ UNCHANGED <<thr, panic, current>>
        BY <1>6 DEF RunNext
    <2>2. TypeOK'
        BY <1>1, <2>1 DEF RunNext, Inv, TypeOK, PC
    <2> QED
        BY <1>1, <1>6, <2>1, <2>2, QuietInv DEF RunNext, InSlice
<1> QED
    BY <1>4, <1>5, <1>6

\* run_thread after the thread's slice keeps Inv.
LEMMA RescheduleInv == ASSUME Inv, panic = "none", Reschedule PROVE Inv'
<1> USE DEF objVars, waitVars, tickVars, irqVars
<1>1. /\ pc = "resched" /\ pending = <<>> /\ pending' = <<>> /\ thr \in Table
      /\ current \in Thread /\ current' = NoThread /\ pc' = "tick" /\ panic' = "none"
      /\ nextTid' = nextTid /\ next' = next
      /\ next \in Thread \cup {NoThread} /\ nextTid \in 1..MaxThreads
      /\ UNCHANGED <<queue, signal, acquired, dead, holder>>
    BY InvTypes DEF Reschedule, Inv, TypeOK, SchedulerOK, PendingOK
<1>2. thr' \in Table /\ Keeps({current}) /\ SchedulerOK'
    <2>1. CASE thr[current].state = "Running"
        <3>1. thr' = [thr EXCEPT ![current].state = "Ready"]
            BY <2>1 DEF Reschedule
        <3>2. "Ready" \in ThreadState /\ thr[current] \in CommonThread
            BY <1>1 DEF ThreadState, Table
        <3>3. thr' \in Table /\ thr'[current].state = "Ready" /\ thr'[current].wakeKey = thr[current].wakeKey
            BY <1>1, <3>1, <3>2 DEF Table, CommonThread
        <3>4. \A u \in Thread \ {current} : thr'[u] = thr[u]
            BY <1>1, <3>1 DEF Table
        <3>5. Keeps({current})
            BY <1>1, <2>1, <3>3, <3>4, ChangedKeeps
        <3>6. \A u \in Thread : u >= nextTid => u # current
            BY <2>1 DEF Inv, SchedulerOK
        <3> QED
            BY <1>1, <3>3, <3>4, <3>5, <3>6 DEF Inv, SchedulerOK
    <2>2. CASE thr[current].state # "Running"
        <3>1. thr' = thr
            BY <2>2 DEF Reschedule
        <3> QED
            BY <1>1, <3>1, UnchangedKeeps DEF Inv, SchedulerOK
    <2> QED
        BY <2>1, <2>2
<1>3. AvailableHasNoWaiters' /\ AcquiredIsHeld'
    BY <1>1, <1>2, AvailableUnchanged DEF Inv, AcquiredIsHeld
<1>4. TypeOK'
    BY <1>1, <1>2 DEF Reschedule, Inv, TypeOK, Table, PC
<1> QED
    BY <1>1, <1>2, <1>3, <1>4, NoWaitCallInv

\* A wait call that has gone through its objects keeps Inv.
LEMMA WaitDoneInv == ASSUME Inv, panic = "none", WaitDone PROVE Inv'
<1> USE DEF objVars, loopVars, tickVars, irqVars
<1>1. /\ pc = "wait" /\ pc' = "resched" /\ pending = <<>> /\ pending' = <<>>
      /\ waker' = NoWaker
      /\ UNCHANGED <<thr, queue, panic, signal, acquired, dead, holder, current, next, nextTid>>
    BY DEF WaitDone
<1>2. Keeps({})
    BY <1>1, UnchangedKeeps
<1>3. AvailableHasNoWaiters' /\ AcquiredIsHeld'
    BY <1>1, <1>2, AvailableUnchanged DEF Inv, AcquiredIsHeld
<1>4. TypeOK'
    BY <1>1 DEF WaitDone, Inv, TypeOK, PC
<1>5. SchedulerOK'
    BY <1>1 DEF Inv, SchedulerOK
<1> QED
    BY <1>1, <1>2, <1>3, <1>4, <1>5, NoWaitCallInv

\* CreateThread keeps Inv: the new thread is ready and no waker refers to it.
LEMMA CreateThreadInv == ASSUME Inv, panic = "none", CreateThread PROVE Inv'
<1> USE DEF objVars, waitVars, tickVars, irqVars
<1>1. /\ pc = "slice" /\ pc' = "resched" /\ pending = <<>> /\ pending' = <<>> /\ thr \in Table
      /\ current' = current /\ current \in Thread /\ panic' = "none"
      /\ nextTid' = nextTid + 1 /\ next' = nextTid /\ nextTid \in Nat
      /\ nextTid \in Thread /\ nextTid' \in 1..MaxThreads
      /\ UNCHANGED <<queue, signal, acquired, dead, holder>>
    BY InvTypes, ThreadTableAssumption DEF CreateThread, Inv, TypeOK, SchedulerOK, PendingOK, Thread
<1>2. thr' = [thr EXCEPT ![nextTid] = NewThread("Ready")]
    BY DEF CreateThread
<1>3. NewThread("Ready") \in CommonThread
    BY ThreadTableAssumption DEF NewThread, CommonThread, ThreadState, ThreadWaitType, ThreadResume,
        Normal, NoTimeout
<1>4. thr' \in Table /\ thr'[nextTid] = NewThread("Ready")
      /\ \A u \in Thread \ {nextTid} : thr'[u] = thr[u]
    BY <1>1, <1>2, <1>3 DEF Table
<1>5. thr[nextTid].state = "Absent" /\ thr[nextTid].wakeKey = 0
    BY <1>1 DEF Inv, SchedulerOK
<1>6. thr'[nextTid].state = "Ready" /\ thr'[nextTid].wakeKey = 0
    BY <1>4 DEF NewThread
<1>7. Keeps({nextTid})
    BY <1>1, <1>4, <1>5, <1>6, ChangedKeeps
<1>8. SchedulerOK'
    <2>1. \A t \in Thread : t \in Int /\ (t >= nextTid + 1 => t >= nextTid /\ t # nextTid)
        BY <1>1, ThreadTableAssumption DEF Thread
    <2>2. \A t \in Thread : t # NoThread
        BY ThreadTableAssumption DEF Thread, NoThread
    <2> QED
        BY <1>1, <1>4, <1>6, <2>1, <2>2 DEF Inv, SchedulerOK
<1>9. AvailableHasNoWaiters' /\ AcquiredIsHeld'
    BY <1>1, <1>7, AvailableUnchanged DEF Inv, AcquiredIsHeld
<1>10. TypeOK'
    BY <1>1, <1>4 DEF CreateThread, Inv, TypeOK, Table, PC
<1> QED
    BY <1>1, <1>7, <1>8, <1>9, <1>10, NoWaitCallInv

\* ExitThread wakes everybody that waits for the thread and keeps Inv.
LEMMA ExitThreadInv == ASSUME Inv, panic = "none", ExitThread PROVE Inv'
<1> USE DEF loopVars, waitVars, tickVars, irqVars
<1> DEFINE th == [thr EXCEPT ![current].state = "Done"]
<1>1. /\ pc = "slice" /\ pc' = "resched" /\ pending = <<>> /\ pending' = <<>> /\ thr \in Table
      /\ current' = current /\ current \in Thread /\ next' = next /\ nextTid' = nextTid
      /\ next \in Thread \cup {NoThread}
      /\ thr[current].state = "Running"
      /\ dead \in [Thread -> BOOLEAN] /\ dead' = [dead EXCEPT ![current] = TRUE]
      /\ UNCHANGED <<signal, timer, acquired, holder, mem>>
    BY InvTypes DEF ExitThread, ThreadExit, Inv, TypeOK, SchedulerOK, PendingOK
<1>2. current \in Waitable /\ current \in Object
    BY <1>1, WaitableIsObject DEF Waitable
<1>3. /\ th \in Table /\ th[current].state = "Done" /\ th[current].wakeKey = thr[current].wakeKey
      /\ \A u \in Thread \ {current} : th[u] = thr[u]
    <2>1. "Done" \in ThreadState /\ thr[current] \in CommonThread
        BY <1>1 DEF ThreadState, Table
    <2> QED
        BY <1>1, <2>1 DEF Table, CommonThread
<1>4. /\ Keeps({current}) /\ queue'[current] = <<>> /\ panic' = "none"
      /\ \A t \in Thread : thr[t].state # "Waiting" => thr'[t] = th[t]
    <2>1. CASE ~dead[current]
        <3>1. WakeAll(th, current)
            BY <2>1 DEF ExitThread, ThreadExit
        <3>2. SleepersOK(th) /\ WakersOK(th, queue)
            <4> HIDE DEF th
            <4>1. SleepersOK(thr) /\ WakersOK(thr, queue)
                  /\ \A o \in Object : \A w \in Wakers(queue[o]) : w.thread \in Thread
                BY InvTypes
            <4>2. \A o \in Object : \A w \in Wakers(queue[o]) :
                     Live(th, w) => Live(thr, w)
                BY <1>3, <4>1 DEF Live
            <4>3. \A o \in Object : \A w \in Wakers(queue[o]) :
                     Live(th, w) => w.thread # current
                BY <1>1, <4>1, <4>2 DEF WakersOK
            <4> QED
                BY <1>1, <1>3, <4>1, <4>2, <4>3 DEF SleepersOK, WakersOK, Objects
        <3> HIDE DEF th
        <3> QED
            BY <1>1, <1>2, <1>3, <3>1, <3>2, WakeAllKeeps
    <2>2. CASE dead[current]
        <3>1. thr' = th /\ queue' = queue /\ panic' = "none"
            BY <2>2 DEF ExitThread, ThreadExit
        <3>2. queue[current] = <<>>
            BY <1>1, <1>2, <2>2, AvailableCases DEF Inv, AvailableHasNoWaiters
        <3> HIDE DEF th
        <3> QED
            BY <1>1, <1>3, <3>1, <3>2, ChangedKeeps
    <2> QED
        BY <2>1, <2>2
<1> HIDE DEF th
<1>5. thr' \in Table /\ thr'[current].state = "Done"
    BY <1>1, <1>3, <1>4 DEF Keeps
<1>6. SchedulerOK'
    <2>1. next # NoThread => next # current /\ thr[next].state = "Ready"
        BY <1>1 DEF Inv, SchedulerOK
    <2>2. \A t \in Thread : t >= nextTid => t # current /\ thr[t].state = "Absent"
                                            /\ thr[t].wakeKey = 0
        BY <1>1 DEF Inv, SchedulerOK
    <2>3. \A t \in Thread \ {current} : thr[t].state # "Waiting" => thr'[t] = thr[t]
        BY <1>4 DEF Keeps
    <2>4. next' # NoThread => thr'[next'].state = "Ready"
        BY <1>1, <2>1, <2>3
    <2>5. \A t \in Thread : t >= nextTid' => thr'[t].state = "Absent" /\ thr'[t].wakeKey = 0
        BY <1>1, <2>2, <2>3
    <2> QED
        BY <1>1, <2>4, <2>5 DEF Inv, SchedulerOK
<1>7. AvailableHasNoWaiters'
    <2> SUFFICES ASSUME NEW p \in Waitable, Available(p)' PROVE queue'[p] = <<>>
        BY DEF AvailableHasNoWaiters
    <2>1. p = current \/ Available(p)
        BY <1>1, AvailableCases DEF Waitable
    <2> QED
        BY <1>4, <2>1, WaitableIsObject DEF Keeps, Inv, AvailableHasNoWaiters
<1>8. AcquiredIsHeld'
    BY <1>1 DEF Inv, AcquiredIsHeld
<1>9. TypeOK'
    <2>1. queue' \in [Object -> Seq(Waker)]
        BY <1>4 DEF Keeps, Queues
    <2> QED
        BY <1>1, <1>4, <1>5, <2>1 DEF ExitThread, Inv, TypeOK, Table, PC
<1> QED
    BY <1>1, <1>4, <1>6, <1>7, <1>8, <1>9, NoWaitCallInv

-----------------------------------------------------------------------------

\* Putting the running thread to sleep: no waker in any queue can wake it yet.
LEMMA SuspendFacts ==
    ASSUME Inv, NEW objects \in Seq(Object), NEW ns \in Int,
           NEW type \in ThreadWaitType \ {"None"},
           type = "Sleep" => objects = <<>>, SuspendCurrent(objects, ns, type)
    PROVE  /\ current \in Thread /\ thr \in Table /\ thr' \in Table
           /\ thr[current].state = "Running" /\ thr'[current].state = "Waiting"
           /\ \A u \in Thread \ {current} : thr'[u] = thr[u]
           /\ \A u \in Thread : WakerOf(thr', u) = WakerOf(thr, u)
           /\ Objects(thr', current) = {objects[i] : i \in 1..Len(objects)}
           /\ SleepersOK(thr')
           /\ WakersOK(thr', queue)
           /\ \A o \in Object : \A w \in Wakers(queue[o]) : Live(thr', w) <=> Live(thr, w)
           /\ WakerOf(thr, current) \in Waker
           /\ pending = <<>> /\ panic' = panic
           /\ UNCHANGED <<current, next, nextTid, signal, acquired, dead, holder>>
<1>1. /\ pc = "slice" /\ pending = <<>> /\ current \in Thread /\ thr \in Table
      /\ thr[current].state = "Running" /\ thr[current].wakeKey < MaxKey
      /\ panic' = panic
      /\ UNCHANGED <<current, next, nextTid, signal, acquired, dead, holder>>
    BY InvTypes DEF SuspendCurrent, loopVars, Inv, TypeOK, SchedulerOK, PendingOK
<1>2. thr' = Suspend(thr, current, objects, Absolute(ns), type)
    BY DEF SuspendCurrent
<1>3. Absolute(ns) \in Int
    <2>1. now \in 0..MaxTime
        BY DEF Inv, TypeOK
    <2> QED
        BY <2>1 DEF Absolute, NoTimeout
<1>4. thr[current] \in CommonThread /\ "Waiting" \in ThreadState
    BY <1>1 DEF Table, ThreadState
<1>5. thr' \in Table /\ \A u \in Thread \ {current} : thr'[u] = thr[u]
    BY <1>1, <1>2, <1>3, <1>4 DEF Suspend, Table, CommonThread
<1>6. /\ thr'[current].state = "Waiting" /\ thr'[current].waitObjects = objects
      /\ thr'[current].waitType = type /\ thr'[current].wakeKey = thr[current].wakeKey
    BY <1>1, <1>2, <1>4 DEF Suspend, Table, CommonThread
<1>7. \A u \in Thread : thr'[u].wakeKey = thr[u].wakeKey
    BY <1>5, <1>6
<1>8. \A u \in Thread : WakerOf(thr', u) = WakerOf(thr, u)
    BY <1>7 DEF WakerOf
<1>9. SleepersOK(thr')
    BY <1>1, <1>5, <1>6 DEF Inv, SleepersOK
<1>10. \A o \in Object : \A w \in Wakers(queue[o]) :
          w.thread \in Thread /\ (Live(thr', w) <=> Live(thr, w))
    BY <1>7, InvTypes DEF Live
<1>11. WakersOK(thr', queue)
    <2> SUFFICES ASSUME NEW o \in Object, NEW w \in Wakers(queue[o])
                 PROVE  /\ w.key <= thr'[w.thread].wakeKey
                        /\ Live(thr', w) => thr'[w.thread].state = "Waiting"
                                            /\ o \in Objects(thr', w.thread)
        BY DEF WakersOK
    <2>1. w.thread \in Thread /\ w.key <= thr[w.thread].wakeKey
        BY <1>10, InvTypes DEF WakersOK
    <2>2. Live(thr', w) => thr[w.thread].state = "Waiting" /\ o \in Objects(thr, w.thread)
        BY <1>10, InvTypes DEF WakersOK
    <2> QED
        BY <1>1, <1>5, <1>7, <2>1, <2>2 DEF Objects
<1>12. WakerOf(thr, current) \in Waker
    BY <1>1, <1>4 DEF WakerOf, Waker, CommonThread
<1> QED
    BY <1>1, <1>5, <1>6, <1>8, <1>9, <1>10, <1>11, <1>12 DEF Objects

\* The scheduler's part of the invariant after the current thread went to sleep.
LEMMA SuspendScheduler ==
    ASSUME Inv, current \in Thread, thr[current].state = "Running",
           \A u \in Thread \ {current} : thr'[u] = thr[u],
           pc = "slice", pc' \in {"wait", "resched"},
           UNCHANGED <<current, next, nextTid>>
    PROVE  SchedulerOK'
<1>1. next \in Thread \cup {NoThread}
    BY DEF Inv, TypeOK
<1>2. next # NoThread => next # current /\ thr[next].state = "Ready"
    BY DEF Inv, SchedulerOK
<1>3. \A t \in Thread : t >= nextTid => t # current /\ thr[t].state = "Absent"
                                        /\ thr[t].wakeKey = 0
    BY DEF Inv, SchedulerOK
<1>4. next' # NoThread => thr'[next'].state = "Ready"
    BY <1>1, <1>2
<1>5. \A t \in Thread : t >= nextTid' => thr'[t].state = "Absent" /\ thr'[t].wakeKey = 0
    BY <1>3
<1>6. current' # NoThread <=> pc' \in {"slice", "wait", "resched"}
    BY DEF Inv, SchedulerOK
<1> QED
    BY <1>4, <1>5, <1>6 DEF SchedulerOK

\* A thread other than the one going to sleep is queued as it was.
LEMMA OthersQueued ==
    ASSUME Inv, NEW t \in Thread, t # current, thr'[t] = thr[t],
           thr'[t].state = "Waiting", NEW o \in Objects(thr', t)
    PROVE  o \in Object /\ WakerOf(thr', t) \in Wakers(queue[o])
<1>1. Objects(thr', t) = Objects(thr, t) /\ WakerOf(thr', t) = WakerOf(thr, t)
    BY DEF Objects, WakerOf
<1>2. o \in Object
    BY <1>1, InvTypes, ObjectsType
<1> QED
    BY <1>1, <1>2 DEF Inv, WaitingIsQueued

\* A non-empty list of at most one object has exactly one.
LEMMA ShortList ==
    ASSUME NEW S, NEW l \in Seq(S), Len(l) <= 1, l # <<>>
    PROVE  Len(l) = 1
<1>1. Len(l) \in Nat
    OBVIOUS
<1>2. Len(l) # 0
    OBVIOUS
<1> QED
    BY <1>1, <1>2

\* WaitSynchronization1 and WaitSynchronizationN before the first wait().
LEMMA BeginWaitInv ==
    ASSUME Inv, panic = "none", NEW objects \in Seq(Waitable), NEW ns \in Int,
           NEW type \in {"WaitSync1", "WaitSyncN"}, BeginWait(objects, ns, type),
           SingleWaits => Len(objects) <= 1
    PROVE  Inv'
<1>1. objects \in Seq(Object) /\ \A i \in 1..Len(objects) : objects[i] \in Waitable
    <2>1. /\ objects \in [1..Len(objects) -> Waitable] /\ Len(objects) \in Nat
        OBVIOUS
    <2>2. objects \in [1..Len(objects) -> Object]
        BY <2>1, WaitableIsObject
    <2> QED
        BY <2>1, <2>2
<1>2. type \in ThreadWaitType \ {"None"} /\ type # "Sleep"
    BY DEF ThreadWaitType
<1>3. SuspendCurrent(objects, ns, type)
    BY DEF BeginWait
<1>4. /\ current \in Thread /\ thr \in Table /\ thr' \in Table
      /\ thr[current].state = "Running" /\ thr'[current].state = "Waiting"
      /\ \A u \in Thread \ {current} : thr'[u] = thr[u]
      /\ \A u \in Thread : WakerOf(thr', u) = WakerOf(thr, u)
      /\ Objects(thr', current) = {objects[i] : i \in 1..Len(objects)}
      /\ SleepersOK(thr')
      /\ WakersOK(thr', queue)
      /\ \A o \in Object : \A w \in Wakers(queue[o]) : Live(thr', w) <=> Live(thr, w)
      /\ WakerOf(thr, current) \in Waker
      /\ panic' = panic
      /\ UNCHANGED <<current, next, nextTid, signal, acquired, dead, holder>>
    BY <1>1, <1>2, <1>3, SuspendFacts
<1>5. /\ pc = "slice" /\ pc' = "wait" /\ queue' = queue /\ mem' = mem
      /\ waker' = WakerOf(thr, current) /\ pending' = objects
    BY DEF BeginWait, SuspendCurrent
<1>6. SchedulerOK'
    BY <1>4, <1>5, SuspendScheduler
<1>7. waker'.thread = current /\ waker'.key = thr'[current].wakeKey
    BY <1>4, <1>5 DEF WakerOf
<1>8. PendingOK'
    <2>1. thr'[current].wakeKey \in Int
        BY <1>4, ThreadTableAssumption DEF Table, CommonThread
    <2>2. Live(thr', waker')
        BY <1>7 DEF Live
    <2> QED
        BY <1>1, <1>4, <1>5, <1>7, <2>1, <2>2 DEF PendingOK
<1>9. AvailableHasNoWaiters'
    BY <1>4, <1>5, AvailableCases DEF Inv, AvailableHasNoWaiters, Waitable
<1>10. WaitingIsQueued'
    <2> SUFFICES ASSUME NEW t \in Thread, thr'[t].state = "Waiting", NEW o \in Objects(thr', t)
                 PROVE  \/ WakerOf(thr', t) \in Wakers(queue'[o])
                        \/ t = current' /\ \E i \in 1..Len(pending') : pending'[i] = o
        BY DEF WaitingIsQueued
    <2>1. CASE t = current
        BY <1>4, <1>5, <2>1
    <2>2. CASE t # current
        BY <1>4, <1>5, <2>2, OthersQueued
    <2> QED
        BY <2>1, <2>2
<1>11. SingleWaitsOK'
    <2>1. Live(thr', waker')
        BY <1>7 DEF Live
    <2>2. Len(objects) \in Nat /\ (objects # <<>> => Len(objects) > 0)
        BY <1>1
    <2>3. ASSUME SingleWaits
          PROVE  /\ panic' = "none"
                 /\ \A o \in Object : \A w \in Wakers(queue'[o]) : Live(thr', w)
                 /\ pending' # <<>> => Len(pending') = 1 /\ Live(thr', waker')
        <3>1. \A o \in Object : \A w \in Wakers(queue[o]) : Live(thr, w)
            BY <2>3 DEF Inv, SingleWaitsOK
        <3>2. objects # <<>> => Len(objects) = 1
            <4>1. Len(objects) <= 1
                BY <2>3, Zenon
            <4>2. objects \in Seq(Object)
                BY <1>1
            <4> QED
                BY <4>1, <4>2, ShortList
        <3> QED
            BY <1>4, <1>5, <2>1, <3>1, <3>2
    <2> QED
        BY <2>3 DEF SingleWaitsOK, SingleWaits
<1>12. ArbiterOK'
    BY <1>4, <1>5, SyncObjectsAssumption DEF Inv, ArbiterOK
<1>13. AcquiredIsHeld' /\ OnlyStaleWakersPanic'
    BY <1>4 DEF Inv, AcquiredIsHeld, OnlyStaleWakersPanic
<1>14. TypeOK'
    <2>1. /\ thr' \in [Thread -> CommonThread] /\ pc' \in PC
          /\ waker' \in Waker \cup {NoWaker} /\ pending' \in Seq(Object)
        BY <1>1, <1>4, <1>5 DEF Table, PC
    <2>2. UNCHANGED <<timer, now, tickTime, cursor, interrupts, active>>
        BY <1>3 DEF SuspendCurrent, loopVars, tickVars, irqVars
    <2> QED
        BY <1>4, <1>5, <2>1, <2>2 DEF Inv, TypeOK
<1> QED
    BY <1>4, <1>5, <1>6, <1>8, <1>9, <1>10, <1>11, <1>12, <1>13, <1>14 DEF Inv

\* The first part of WaitSynchronization1 and WaitSynchronizationN keeps Inv.
LEMMA WaitSyncInv == ASSUME Inv, panic = "none", WaitSync1 \/ WaitSyncN PROVE Inv'
<1>1. CASE WaitSync1
    <2>1. PICK o \in Waitable, ns \in Timeouts : BeginWait(<<o>>, ns, "WaitSync1")
        BY <1>1 DEF WaitSync1
    <2>2. <<o>> \in Seq(Waitable) /\ Len(<<o>>) <= 1 /\ ns \in Int
        BY KernelAssumption
    <2> QED
        BY <2>1, <2>2, BeginWaitInv
<1>2. CASE WaitSyncN
    <2>1. PICK l \in WaitLists, ns \in Timeouts : BeginWait(l, ns, "WaitSyncN")
        BY <1>2 DEF WaitSyncN
    <2>2. l \in Seq(Waitable) /\ ns \in Int /\ (SingleWaits => Len(l) <= 1)
        BY KernelAssumption DEF SingleWaits
    <2> QED
        BY <2>1, <2>2, BeginWaitInv
<1> QED
    BY <1>1, <1>2

\* Going to sleep at once: no object to wait for, or an address.
LEMMA AsleepInv ==
    ASSUME Inv, panic = "none", NEW objects \in Seq(Object), NEW ns \in Int,
           NEW type \in {"Sleep", "Arbiter"}, type = "Sleep" => objects = <<>>,
           SuspendCurrent(objects, ns, type), pc' = "resched", UNCHANGED <<waker, pending>>,
           mem' \in [Address -> Word],
           \A i \in 1..Len(objects) : objects[i] \in Address,
           queue' \in Queues,
           \A o \in Object : Wakers(queue'[o]) =
              Wakers(queue[o]) \cup {w \in {WakerOf(thr, current)} :
                                        \E i \in 1..Len(objects) : objects[i] = o},
           \A o \in Object \ Address : queue'[o] = queue[o]
    PROVE  Inv'
<1> DEFINE w0 == WakerOf(thr, current)
<1>1. type \in ThreadWaitType \ {"None"}
    BY DEF ThreadWaitType
<1>2. /\ current \in Thread /\ thr \in Table /\ thr' \in Table
      /\ thr[current].state = "Running" /\ thr'[current].state = "Waiting"
      /\ \A u \in Thread \ {current} : thr'[u] = thr[u]
      /\ \A u \in Thread : WakerOf(thr', u) = WakerOf(thr, u)
      /\ Objects(thr', current) = {objects[i] : i \in 1..Len(objects)}
      /\ SleepersOK(thr')
      /\ WakersOK(thr', queue)
      /\ \A o \in Object : \A w \in Wakers(queue[o]) : Live(thr', w) <=> Live(thr, w)
      /\ w0 \in Waker
      /\ pending = <<>> /\ panic' = panic
      /\ UNCHANGED <<current, next, nextTid, signal, acquired, dead, holder>>
    BY <1>1, SuspendFacts
<1>3. pc = "slice"
    BY DEF SuspendCurrent
<1>4. SchedulerOK'
    BY <1>2, <1>3, SuspendScheduler
<1>5. PendingOK'
    BY <1>2 DEF PendingOK
<1>6. w0.thread = current /\ w0.key = thr'[current].wakeKey /\ Live(thr', w0)
    BY <1>2 DEF WakerOf, Live
<1> HIDE DEF w0
<1>7. \A o \in Object : \A w \in Wakers(queue'[o]) :
          \/ w \in Wakers(queue[o])
          \/ w = w0 /\ o \in Objects(thr', current)
    BY <1>2 DEF w0
<1>8. WakersOK(thr', queue')
    <2> SUFFICES ASSUME NEW o \in Object, NEW w \in Wakers(queue'[o])
                 PROVE  /\ w.key <= thr'[w.thread].wakeKey
                        /\ Live(thr', w) => thr'[w.thread].state = "Waiting"
                                            /\ o \in Objects(thr', w.thread)
        BY DEF WakersOK
    <2>1. CASE w \in Wakers(queue[o])
        BY <1>2, <2>1 DEF WakersOK
    <2>2. CASE w = w0 /\ o \in Objects(thr', current)
        <3>1. thr'[current].wakeKey \in Int
            BY <1>2, ThreadTableAssumption DEF Table, CommonThread
        <3> QED
            BY <1>2, <1>6, <2>2, <3>1
    <2> QED
        BY <1>7, <2>1, <2>2
<1>9. AvailableHasNoWaiters'
    <2> SUFFICES ASSUME NEW p \in Waitable, Available(p)' PROVE queue'[p] = <<>>
        BY DEF AvailableHasNoWaiters
    <2>1. p \in Object \ Address
        BY SyncObjectsAssumption DEF Waitable, Signaller
    <2>2. Available(p)
        BY <1>2, AvailableCases DEF Waitable
    <2> QED
        BY <2>1, <2>2 DEF Inv, AvailableHasNoWaiters
<1>10. WaitingIsQueued'
    <2> SUFFICES ASSUME NEW t \in Thread, thr'[t].state = "Waiting", NEW o \in Objects(thr', t)
                 PROVE  WakerOf(thr', t) \in Wakers(queue'[o])
        BY DEF WaitingIsQueued
    <2>1. CASE t = current
        <3>1. o \in Object /\ WakerOf(thr', t) = w0
            BY <1>2, <2>1, ObjectsType DEF w0
        <3> QED
            BY <1>2, <2>1, <3>1 DEF w0
    <2>2. CASE t # current
        BY <1>2, <2>2, OthersQueued
    <2> QED
        BY <2>1, <2>2
<1>11. SingleWaitsOK'
    <2>1. ASSUME SingleWaits
          PROVE  \A o \in Object : \A w \in Wakers(queue'[o]) : Live(thr', w)
        BY <1>2, <1>6, <1>7, <2>1 DEF Inv, SingleWaitsOK
    <2> QED
        BY <1>2, <2>1 DEF SingleWaitsOK, SingleWaits
<1>12. ArbiterOK'
    BY <1>2, <1>6, <1>7, SyncObjectsAssumption DEF Inv, ArbiterOK
<1>13. AcquiredIsHeld' /\ OnlyStaleWakersPanic'
    BY <1>2 DEF Inv, AcquiredIsHeld, OnlyStaleWakersPanic
<1>14. TypeOK'
    BY <1>2 DEF SuspendCurrent, loopVars, tickVars, irqVars, Inv, TypeOK, Table, Queues, PC
<1> QED
    BY <1>2, <1>4, <1>5, <1>8, <1>9, <1>10, <1>11, <1>12, <1>13, <1>14 DEF Inv

\* SleepThread keeps Inv.
LEMMA SleepThreadInv == ASSUME Inv, panic = "none", SleepThread PROVE Inv'
<1>1. PICK ns \in Timeouts : SuspendCurrent(<<>>, ns, "Sleep")
    BY DEF SleepThread
<1>2. /\ ns \in Int /\ <<>> \in Seq(Object) /\ Len(<<>>) = 0
      /\ pc' = "resched" /\ queue' = queue /\ mem' = mem /\ UNCHANGED <<waker, pending>>
    BY KernelAssumption DEF SleepThread, waitVars
<1>3. mem' \in [Address -> Word] /\ queue' \in Queues
    BY <1>2, InvTypes DEF Inv, TypeOK
<1>4. \A o \in Object : Wakers(queue'[o]) =
          Wakers(queue[o]) \cup {w \in {WakerOf(thr, current)} :
                                    \E i \in 1..Len(<<>>) : <<>>[i] = o}
    BY <1>2
<1>5. \A i \in 1..Len(<<>>) : <<>>[i] \in Address
    BY <1>2
<1>6. \A o \in Object \ Address : queue'[o] = queue[o]
    BY <1>2
<1> QED
    BY <1>1, <1>2, <1>3, <1>4, <1>5, <1>6, AsleepInv

\* ArbitrateAddress with a wait that blocks keeps Inv.
LEMMA ArbitrateWaitInv == ASSUME Inv, panic = "none", ArbitrateWait PROVE Inv'
<1>1. PICK a \in Address, value \in Word, decrement \in BOOLEAN :
          /\ mem' = IF decrement THEN [mem EXCEPT ![a] = WrappingDec(@)] ELSE mem
          /\ SuspendCurrent(<<a>>, -1, "Arbiter")
          /\ ArbiterWait(a, WakerOf(thr, current))
    BY DEF ArbitrateWait
<1>2. /\ pc = "slice" /\ pc' = "resched" /\ UNCHANGED <<waker, pending>>
    BY <1>1 DEF ArbitrateWait, waitVars, SuspendCurrent
<1>3. a \in Object /\ <<a>> \in Seq(Object) /\ Len(<<a>>) = 1 /\ <<a>>[1] = a
    BY SyncObjectsAssumption
<1>4. mem' \in [Address -> Word]
    <2>1. \A v \in Word : WrappingDec(v) \in Word
        BY WordAssumption DEF Word, WrappingDec
    <2> QED
        BY <1>1, <2>1 DEF Inv, TypeOK
<1>5. queue \in Queues /\ queue[a] \in Seq(Waker) /\ thr \in Table /\ current \in Thread
    BY <1>2, <1>3, InvTypes DEF Queues, Inv, SchedulerOK, TypeOK
<1>6. WakerOf(thr, current) \in Waker
    BY <1>5 DEF Table, CommonThread, WakerOf, Waker
<1>7. queue' = [queue EXCEPT ![a] = Append(queue[a], WakerOf(thr, current))]
    BY <1>1 DEF ArbiterWait
<1>8. /\ Append(queue[a], WakerOf(thr, current)) \in Seq(Waker)
      /\ Wakers(Append(queue[a], WakerOf(thr, current))) = Wakers(queue[a]) \cup {WakerOf(thr, current)}
    BY <1>5, <1>6, AppendWaker
<1>9. /\ queue' \in Queues
      /\ queue'[a] = Append(queue[a], WakerOf(thr, current))
      /\ \A o \in Object : o # a => queue'[o] = queue[o]
    BY <1>3, <1>5, <1>7, <1>8 DEF Queues
<1>10. \A o \in Object : Wakers(queue'[o]) =
          Wakers(queue[o]) \cup {w \in {WakerOf(thr, current)} :
                                    \E i \in 1..Len(<<a>>) : <<a>>[i] = o}
    <2> SUFFICES ASSUME NEW o \in Object
                 PROVE  Wakers(queue'[o]) =
                          Wakers(queue[o]) \cup {w \in {WakerOf(thr, current)} :
                                                    \E i \in 1..Len(<<a>>) : <<a>>[i] = o}
        OBVIOUS
    <2>1. (\E i \in 1..Len(<<a>>) : <<a>>[i] = o) <=> o = a
        BY <1>3
    <2>2. CASE o = a
        BY <1>8, <1>9, <2>1, <2>2
    <2>3. CASE o # a
        BY <1>9, <2>1, <2>3
    <2> QED
        BY <2>2, <2>3
<1>11. \A i \in 1..Len(<<a>>) : <<a>>[i] \in Address
    BY <1>3
<1>12. \A o \in Object \ Address : queue'[o] = queue[o]
    BY <1>9
<1>13. -1 \in Int
    OBVIOUS
<1> QED
    BY <1>1, <1>2, <1>3, <1>4, <1>9, <1>10, <1>11, <1>12, <1>13, AsleepInv

-----------------------------------------------------------------------------

\* One call of wait(), on the first object that is left.
LEMMA WaitNextFacts ==
    ASSUME Inv, WaitNext
    PROVE  /\ pc = "wait" /\ pc' = "wait" /\ waker' = waker
           /\ current \in Thread /\ waker \in Waker /\ waker.thread = current
           /\ thr \in Table /\ pending # <<>>
           /\ Head(pending) \in Waitable /\ pending' = Tail(pending) /\ pending' \in Seq(Object)
           /\ Len(pending') \in Nat /\ Len(pending') = Len(pending) - 1
           /\ \A i \in 1..Len(pending') : \E j \in 1..Len(pending) : pending'[i] = pending[j]
           /\ \A j \in 1..Len(pending) : \/ pending[j] = Head(pending)
                                         \/ \E i \in 1..Len(pending') : pending'[i] = pending[j]
           /\ Live(thr, waker) => Head(pending) \in Objects(thr, current)
           /\ UNCHANGED <<current, next, nextTid, timer, dead, mem, now, tickTime, cursor,
                          interrupts, active>>
<1>1. /\ pc = "wait" /\ pending # <<>> /\ pending \in Seq(Object) /\ pending' = Tail(pending)
      /\ UNCHANGED <<pc, waker, current, next, nextTid, timer, dead, mem, now, tickTime, cursor,
                     interrupts, active>>
    BY DEF WaitNext, Wait, loopVars, tickVars, irqVars, Inv, TypeOK
<1>2. /\ current \in Thread /\ thr \in Table /\ waker \in Waker /\ waker.thread = current
    BY <1>1, InvTypes DEF Inv, TypeOK, SchedulerOK, PendingOK
<1>3. /\ Len(pending) \in Nat /\ 1 \in 1..Len(pending) /\ Head(pending) = pending[1]
      /\ Tail(pending) \in Seq(Object) /\ Len(Tail(pending)) = Len(pending) - 1
      /\ \A i \in 1..(Len(pending) - 1) : Tail(pending)[i] = pending[i + 1]
    BY <1>1
<1>4. Head(pending) \in Waitable
    BY <1>3 DEF Inv, PendingOK
<1>5. Live(thr, waker) => Head(pending) \in Objects(thr, current)
    BY <1>1, <1>3 DEF Inv, PendingOK
<1>6. \A i \in 1..Len(pending') : \E j \in 1..Len(pending) : pending'[i] = pending[j]
    <2> SUFFICES ASSUME NEW i \in 1..(Len(pending) - 1)
                 PROVE  \E j \in 1..Len(pending) : pending'[i] = pending[j]
        BY <1>1, <1>3
    <2>1. i + 1 \in 1..Len(pending) /\ pending'[i] = pending[i + 1]
        BY <1>1, <1>3
    <2> QED
        BY <2>1
<1>7. ASSUME NEW j \in 1..Len(pending), pending[j] # Head(pending)
      PROVE  \E i \in 1..Len(pending') : pending'[i] = pending[j]
    <2>1. j - 1 \in 1..(Len(pending) - 1) /\ (j - 1) + 1 = j
        BY <1>3, <1>7
    <2>2. pending'[j - 1] = pending[j] /\ j - 1 \in 1..Len(pending')
        BY <1>1, <1>3, <2>1
    <2> QED
        BY <2>2
<1> QED
    BY <1>1, <1>2, <1>3, <1>4, <1>5, <1>6, <1>7

\* With single waits the list is done after one call.
LEMMA LastPending ==
    ASSUME Inv, WaitNext, SingleWaits
    PROVE  pending' = <<>> /\ Live(thr, waker)
<1>1. Len(pending) = 1 /\ Live(thr, waker)
    BY DEF Inv, SingleWaitsOK, WaitNext
<1>2. Len(pending') = 0 /\ pending' \in Seq(Object)
    BY <1>1, WaitNextFacts
<1> QED
    BY <1>1, <1>2

\* The object was not available and the waker is queued.
LEMMA EnqueueInv ==
    ASSUME Inv, panic = "none", WaitNext, ~Available(Head(pending)), Enqueue(Head(pending), waker)
    PROVE  Inv'
<1> DEFINE o == Head(pending)
<1>1. /\ pc = "wait" /\ pc' = "wait" /\ waker' = waker
      /\ current \in Thread /\ waker \in Waker /\ waker.thread = current
      /\ thr \in Table /\ pending # <<>>
      /\ o \in Waitable /\ pending' = Tail(pending) /\ pending' \in Seq(Object)
      /\ \A i \in 1..Len(pending') : \E j \in 1..Len(pending) : pending'[i] = pending[j]
      /\ \A j \in 1..Len(pending) : \/ pending[j] = o
                                    \/ \E i \in 1..Len(pending') : pending'[i] = pending[j]
      /\ Live(thr, waker) => o \in Objects(thr, current)
      /\ UNCHANGED <<current, next, nextTid, timer, dead, mem, now, tickTime, cursor,
                     interrupts, active>>
    BY WaitNextFacts
<1>2. /\ queue' = [queue EXCEPT ![o] = Append(queue[o], waker)]
      /\ thr' = thr /\ panic' = panic /\ signal' = signal /\ acquired' = acquired /\ holder' = holder
    BY DEF Enqueue
<1>3. /\ o \in Object /\ queue \in Queues /\ queue[o] \in Seq(Waker)
      /\ WakersOK(thr, queue) /\ ~Available(o)
    BY <1>1, WaitableIsObject, InvTypes DEF Queues
<1> HIDE DEF o
<1>4. Append(queue[o], waker) \in Seq(Waker) /\ Wakers(Append(queue[o], waker)) = Wakers(queue[o]) \cup {waker}
    BY <1>1, <1>3, AppendWaker
<1>5. /\ queue' \in Queues /\ \A p \in Object : p # o => queue'[p] = queue[p]
      /\ Wakers(queue'[o]) = Wakers(queue[o]) \cup {waker}
    BY <1>2, <1>3, <1>4 DEF Queues
<1>6. /\ waker.key <= thr[current].wakeKey
      /\ Live(thr, waker) <=> thr[current].state = "Waiting"
      /\ Live(thr, waker) => \A i \in 1..Len(pending) : pending[i] \in Objects(thr, current)
      /\ \A i \in 1..Len(pending) : pending[i] \in Waitable
    BY <1>1 DEF Inv, PendingOK
<1>7. WakersOK(thr', queue')
    <2> SUFFICES ASSUME NEW p \in Object, NEW w \in Wakers(queue'[p])
                 PROVE  /\ w.key <= thr[w.thread].wakeKey
                        /\ Live(thr, w) => thr[w.thread].state = "Waiting"
                                           /\ p \in Objects(thr, w.thread)
        BY <1>2 DEF WakersOK
    <2>1. CASE w \in Wakers(queue[p])
        BY <1>3, <2>1 DEF WakersOK
    <2>2. CASE p = o /\ w = waker
        BY <1>1, <1>6, <2>2
    <2> QED
        BY <1>5, <2>1, <2>2
<1>8. SchedulerOK'
    BY <1>1, <1>2 DEF Inv, SchedulerOK
<1>9. PendingOK'
    <2>1. \A i \in 1..Len(pending') : pending'[i] \in Waitable
        BY <1>1, <1>6
    <2>2. Live(thr, waker) => \A i \in 1..Len(pending') : pending'[i] \in Objects(thr, current)
        BY <1>1, <1>6
    <2> QED
        BY <1>1, <1>2, <1>6, <2>1, <2>2 DEF PendingOK
<1>10. AvailableHasNoWaiters'
    <2> SUFFICES ASSUME NEW p \in Waitable, Available(p)' PROVE queue'[p] = <<>>
        BY DEF AvailableHasNoWaiters
    <2>1. Available(p)
        BY <1>1, <1>2, AvailableCases DEF Waitable
    <2>2. p # o
        BY <1>3, <2>1
    <2> QED
        BY <1>5, <2>1, <2>2, WaitableIsObject DEF Inv, AvailableHasNoWaiters
<1>11. WaitingIsQueued'
    <2> SUFFICES ASSUME NEW t \in Thread, thr[t].state = "Waiting", NEW p \in Objects(thr, t)
                 PROVE  \/ WakerOf(thr, t) \in Wakers(queue'[p])
                        \/ t = current /\ \E i \in 1..Len(pending') : pending'[i] = p
        BY <1>1, <1>2 DEF WaitingIsQueued
    <2>1. p \in Object
        BY <1>1, ObjectsType
    <2>2. CASE WakerOf(thr, t) \in Wakers(queue[p])
        BY <1>5, <2>1, <2>2
    <2>3. CASE t = current /\ \E i \in 1..Len(pending) : pending[i] = p
        <3>1. WakerOf(thr, t) = waker
            BY <1>1, <1>6, <2>3, LiveIsCurrent
        <3>2. CASE p = o
            BY <1>5, <3>1, <3>2
        <3>3. CASE p # o
            BY <1>1, <2>3, <3>3
        <3> QED
            BY <3>2, <3>3
    <2> QED
        BY <2>2, <2>3 DEF Inv, WaitingIsQueued
<1>12. SingleWaitsOK'
    <2>1. ASSUME SingleWaits
          PROVE  /\ \A p \in Object : \A w \in Wakers(queue'[p]) : Live(thr, w)
                 /\ pending' = <<>>
        <3>1. \A p \in Object : \A w \in Wakers(queue[p]) : Live(thr, w)
            BY <2>1 DEF Inv, SingleWaitsOK
        <3>2. pending' = <<>> /\ Live(thr, waker)
            BY <2>1, LastPending
        <3> QED
            BY <1>5, <3>1, <3>2
    <2> QED
        BY <1>2, <2>1 DEF SingleWaitsOK, SingleWaits
<1>13. ArbiterOK'
    <2>1. \A a \in Address : a \in Object /\ a # o
        BY <1>1, SyncObjectsAssumption DEF Waitable, Signaller
    <2> QED
        BY <1>2, <1>5, <2>1 DEF Inv, ArbiterOK
<1>14. AcquiredIsHeld' /\ OnlyStaleWakersPanic' /\ SleepersOK(thr)'
    BY <1>2 DEF Inv, AcquiredIsHeld, OnlyStaleWakersPanic, SleepersOK
<1>15. TypeOK'
    BY <1>1, <1>2, <1>5 DEF Inv, TypeOK, Queues
<1> QED
    BY <1>2, <1>7, <1>8, <1>9, <1>10, <1>11, <1>12, <1>13, <1>14, <1>15 DEF Inv

\* A waiting thread gets what it asked for at once.
LEMMA GrantInv ==
    ASSUME Inv, panic = "none", WaitNext, Live(thr, waker), Grant(Head(pending), waker)
    PROVE  Inv'
<1> DEFINE o == Head(pending)
<1>1. /\ pc = "wait" /\ pc' = "wait" /\ waker' = waker
      /\ current \in Thread /\ waker \in Waker /\ waker.thread = current
      /\ thr \in Table /\ pending # <<>>
      /\ o \in Waitable /\ pending' = Tail(pending) /\ pending' \in Seq(Object)
      /\ \A i \in 1..Len(pending') : \E j \in 1..Len(pending) : pending'[i] = pending[j]
      /\ o \in Objects(thr, current)
      /\ UNCHANGED <<current, next, nextTid, timer, dead, mem, now, tickTime, cursor,
                     interrupts, active>>
    BY WaitNextFacts
<1>2. /\ WakeByObject(thr, queue, {current}, o)
      /\ signal' = IF o \in Signaller /\ ~IsSticky(o)
                   THEN [signal EXCEPT ![o].signaled = FALSE] ELSE signal
      /\ acquired' = IF o \in Mutex THEN [acquired EXCEPT ![o] = TRUE] ELSE acquired
      /\ holder' = IF o \in Mutex THEN [holder EXCEPT ![o] = current] ELSE holder
    BY <1>1 DEF Grant
<1>3. /\ thr[current].state = "Waiting" /\ waker.key = thr[current].wakeKey
      /\ \A i \in 1..Len(pending) : pending[i] \in Waitable
    BY <1>1 DEF Inv, PendingOK, Live
<1> HIDE DEF o
<1>4. ~WakeFails(thr[current], o)
    <2>1. /\ thr[current].waitType # "None"
          /\ thr[current].waitType = "Sleep" => thr[current].waitObjects = <<>>
        BY <1>1, <1>3 DEF Inv, SleepersOK
    <2>2. PICK i \in 1..Len(thr[current].waitObjects) : thr[current].waitObjects[i] = o
        BY <1>1 DEF Objects
    <2>3. thr[current].waitObjects # <<>>
        BY <2>2
    <2> QED
        BY <2>1, <2>2, <2>3 DEF WakeFails
<1>5. Wakes(thr, queue, {current}, thr', queue') /\ panic' = panic
    <2>1. {current} \in SUBSET Thread
        BY <1>1
    <2>2. \A t \in {current} : thr[t].state = "Waiting" /\ ~WakeFails(thr[t], o)
        BY <1>3, <1>4
    <2> QED
        BY <1>1, <1>2, <2>1, <2>2, InvTypes, WakeByObjectStep
<1>6. Keeps({})
    <2>1. {current} \in SUBSET Thread /\ \A t \in {current} : thr[t].state = "Waiting"
        BY <1>1, <1>3
    <2> QED
        BY <1>1, <1>5, <2>1, InvTypes, WakesKeeps
<1>7. thr'[current].state = "Ready" /\ thr'[current].wakeKey = thr[current].wakeKey + 1
    BY <1>5 DEF Wakes
<1>8. /\ thr[current].wakeKey \in Int /\ ~Live(thr', waker)
      /\ waker.key <= thr'[current].wakeKey
    <2>1. thr[current].wakeKey \in Int
        BY <1>1, ThreadTableAssumption DEF Table, CommonThread
    <2> QED
        BY <1>1, <1>3, <1>7, <2>1 DEF Live
<1>9. PendingOK'
    BY <1>1, <1>3, <1>7, <1>8 DEF PendingOK
<1>10. SchedulerOK'
    <2>1. next \in Thread \cup {NoThread}
        BY DEF Inv, TypeOK
    <2>2. \A t \in Thread : thr[t].state # "Waiting" => thr'[t] = thr[t]
        BY <1>6 DEF Keeps
    <2>3. next # NoThread => thr'[next].state = "Ready"
        BY <2>1, <2>2 DEF Inv, SchedulerOK
    <2>4. \A t \in Thread : t >= nextTid => thr'[t].state = "Absent" /\ thr'[t].wakeKey = 0
        BY <2>2 DEF Inv, SchedulerOK
    <2> QED
        BY <1>1, <2>3, <2>4 DEF Inv, SchedulerOK
<1>11. /\ signal' \in [Signaller -> [reset : ResetType, signaled : BOOLEAN]]
       /\ \A p \in Signaller : signal'[p].signaled => signal[p].signaled
    BY <1>2 DEF Inv, TypeOK
<1>12. /\ acquired' \in [Mutex -> BOOLEAN] /\ holder' \in [Mutex -> Thread \cup {NoThread}]
       /\ \A m \in Mutex : acquired[m] => acquired'[m]
       /\ AcquiredIsHeld'
    <2>1. /\ acquired \in [Mutex -> BOOLEAN] /\ holder \in [Mutex -> Thread \cup {NoThread}]
          /\ AcquiredIsHeld /\ current # NoThread
        BY <1>1, ThreadTableAssumption DEF Inv, TypeOK, Thread, NoThread
    <2>2. CASE o \in Mutex
        BY <1>1, <1>2, <2>1, <2>2 DEF AcquiredIsHeld
    <2>3. CASE o \notin Mutex
        BY <1>2, <2>1, <2>3 DEF AcquiredIsHeld
    <2> QED
        BY <2>2, <2>3
<1>13. AvailableHasNoWaiters'
    <2> SUFFICES ASSUME NEW p \in Waitable, Available(p)' PROVE queue'[p] = <<>>
        BY DEF AvailableHasNoWaiters
    <2>1. Available(p)
        BY <1>1, <1>11, <1>12, AvailableCases DEF Waitable
    <2> QED
        BY <1>6, <2>1, WaitableIsObject DEF Keeps, Inv, AvailableHasNoWaiters
<1>14. WaitingIsQueued'
    <2> SUFFICES ASSUME NEW t \in Thread, thr'[t].state = "Waiting", NEW p \in Objects(thr', t)
                 PROVE  WakerOf(thr', t) \in Wakers(queue'[p])
        BY DEF WaitingIsQueued
    <2>1. t # current /\ thr'[t] = thr[t]
        BY <1>6, <1>7 DEF Keeps
    <2>2. WakerOf(thr', t) = WakerOf(thr, t)
        BY <2>1 DEF WakerOf
    <2> QED
        BY <1>6, <2>1, <2>2, OthersQueued DEF Keeps
<1>15. SingleWaitsOK'
    <2>1. SingleWaits => pending' = <<>>
        BY LastPending
    <2> QED
        BY <1>6, <2>1 DEF Keeps, SingleWaitsOK, SingleWaits
<1>16. OnlyStaleWakersPanic' /\ SleepersOK(thr)' /\ WakersOK(thr, queue)' /\ ArbiterOK'
    BY <1>6 DEF Keeps, OnlyStaleWakersPanic, ArbiterOK
<1>17. TypeOK'
    <2>1. thr' \in [Thread -> CommonThread] /\ queue' \in [Object -> Seq(Waker)]
          /\ panic' \in {"none", "stale waker"}
        BY <1>6 DEF Keeps, Table, Queues
    <2> QED
        BY <1>1, <1>11, <1>12, <2>1 DEF Inv, TypeOK
<1> QED
    BY <1>9, <1>10, <1>12, <1>13, <1>14, <1>15, <1>16, <1>17 DEF Inv

\* The thread was woken by an earlier object of its list: nothing changes.
LEMMA GiveBackInv ==
    ASSUME Inv, panic = "none", WaitNext, ~Live(thr, waker), GiveBack(Head(pending))
    PROVE  Inv'
<1>1. /\ pc = "wait" /\ pc' = "wait" /\ waker' = waker
      /\ current \in Thread /\ waker \in Waker /\ waker.thread = current /\ thr \in Table
      /\ pending' \in Seq(Object)
      /\ \A i \in 1..Len(pending') : \E j \in 1..Len(pending) : pending'[i] = pending[j]
      /\ UNCHANGED <<current, next, nextTid, timer, dead, mem, now, tickTime, cursor,
                     interrupts, active>>
    BY WaitNextFacts
<1>2. UNCHANGED <<thr, queue, panic, signal, acquired, holder>>
    BY DEF GiveBack
<1>3. /\ waker.key <= thr[current].wakeKey /\ thr[current].state # "Waiting"
      /\ \A i \in 1..Len(pending) : pending[i] \in Waitable
    BY <1>1 DEF Inv, PendingOK
<1>4. PendingOK'
    BY <1>1, <1>2, <1>3 DEF PendingOK
<1>5. Keeps({})
    BY <1>2, UnchangedKeeps
<1>6. AvailableHasNoWaiters' /\ AcquiredIsHeld'
    BY <1>1, <1>2, <1>5, AvailableUnchanged DEF Inv, AcquiredIsHeld
<1>7. WaitingIsQueued'
    <2> SUFFICES ASSUME NEW t \in Thread, thr[t].state = "Waiting", NEW p \in Objects(thr, t)
                 PROVE  WakerOf(thr, t) \in Wakers(queue[p])
        BY <1>2 DEF WaitingIsQueued
    <2> QED
        BY <1>3 DEF Inv, WaitingIsQueued
<1>8. SingleWaitsOK'
    BY LastPending DEF SingleWaitsOK, SingleWaits
<1>9. SchedulerOK'
    BY <1>1, <1>2 DEF Inv, SchedulerOK
<1>10. OnlyStaleWakersPanic' /\ SleepersOK(thr)' /\ WakersOK(thr, queue)' /\ ArbiterOK'
    BY <1>5 DEF Keeps, OnlyStaleWakersPanic, ArbiterOK
<1>11. TypeOK'
    BY <1>1, <1>2 DEF Inv, TypeOK
<1> QED
    BY <1>4, <1>6, <1>7, <1>8, <1>9, <1>10, <1>11 DEF Inv

\* Each call of wait() in the loop of wait_sync_n keeps Inv.
LEMMA WaitNextInv == ASSUME Inv, panic = "none", WaitNext PROVE Inv'
<1> DEFINE o == Head(pending)
<1>1. IF ~Available(o) THEN Enqueue(o, waker)
      ELSE IF Live(thr, waker) THEN Grant(o, waker) ELSE GiveBack(o)
    BY DEF WaitNext, Wait
<1> QED
    BY <1>1, EnqueueInv, GrantInv, GiveBackInv

-----------------------------------------------------------------------------

\* The boot state satisfies Inv.
LEMMA InitInv == Init => Inv
<1> SUFFICES ASSUME Init PROVE Inv
    OBVIOUS
<1>1. /\ MaxThreads \in Nat \ {0} /\ InitThreads \in 1..MaxThreads /\ MaxKey \in Nat
      /\ MaxTime \in Nat /\ Len(TimerOrder) \in Nat
    BY ThreadTableAssumption, KernelAssumption
<1>2. \A st \in {"Ready", "Absent"} : NewThread(st) \in CommonThread
    BY <1>1 DEF NewThread, CommonThread, ThreadState, ThreadWaitType, ThreadResume, Normal, NoTimeout
<1>3. \A t \in Thread : t \in Int /\ thr[t] = NewThread(IF t < InitThreads THEN "Ready" ELSE "Absent")
    BY <1>1 DEF Init, Thread
<1>4. \A t \in Thread : /\ thr[t].state \in {"Ready", "Absent"} /\ thr[t].wakeKey = 0
                        /\ t >= InitThreads => thr[t].state = "Absent"
    <2> SUFFICES ASSUME NEW t \in Thread
                 PROVE  /\ thr[t].state \in {"Ready", "Absent"} /\ thr[t].wakeKey = 0
                        /\ t >= InitThreads => thr[t].state = "Absent"
        OBVIOUS
    <2>1. thr[t].state = (IF t < InitThreads THEN "Ready" ELSE "Absent") /\ thr[t].wakeKey = 0
        <3>1. \A st : NewThread(st).state = st /\ NewThread(st).wakeKey = 0
            BY DEF NewThread
        <3>2. thr[t] = NewThread(IF t < InitThreads THEN "Ready" ELSE "Absent")
            BY <1>3, Zenon
        <3> QED
            BY <3>1, <3>2, Zenon
    <2>2. t \in Int /\ InitThreads \in Int
        BY <1>1, <1>3
    <2> QED
        BY <2>1, <2>2
<1>5. \A o \in Object : queue[o] = <<>> /\ Wakers(queue[o]) = {}
    BY DEF Init, Wakers
<1>6. TypeOK
    <2>1. thr \in [Thread -> CommonThread] /\ queue \in [Object -> Seq(Waker)]
        BY <1>2 DEF Init
    <2>2. signal \in [Signaller -> [reset : ResetType, signaled : BOOLEAN]]
        <3>1. \A r \in ResetType : NewSignal(r) \in [reset : ResetType, signaled : BOOLEAN]
            BY DEF NewSignal
        <3>2. signal \in [Signaller -> {NewSignal(r) : r \in ResetType}]
            BY DEF Init
        <3>3. {NewSignal(r) : r \in ResetType} \subseteq [reset : ResetType, signaled : BOOLEAN]
            BY <3>1
        <3> QED
            BY <3>2, <3>3
    <2>3. timer \in [Timer -> [next : Int, interval : Int]]
        BY DEF Init, Disarmed
    <2>4. acquired \in [Mutex -> BOOLEAN] /\ holder \in [Mutex -> Thread \cup {NoThread}]
        BY <1>1 DEF Init, Thread
    <2>5. mem \in [Address -> Word] /\ nextTid \in 1..MaxThreads /\ cursor \in 1..(Len(TimerOrder) + 1)
        BY <1>1, WordAssumption DEF Init, Word
    <2> QED
        BY <1>1, <2>1, <2>2, <2>3, <2>4, <2>5 DEF Init, TypeOK, PC
<1>7. SleepersOK(thr) /\ WakersOK(thr, queue) /\ WaitingIsQueued /\ ArbiterOK
    BY <1>4, <1>5, SyncObjectsAssumption DEF SleepersOK, WakersOK, WaitingIsQueued, ArbiterOK
<1>8. SchedulerOK /\ PendingOK
    BY <1>4 DEF Init, SchedulerOK, PendingOK
<1>9. AvailableHasNoWaiters
    BY <1>5, WaitableIsObject DEF AvailableHasNoWaiters
<1>10. AcquiredIsHeld
    BY <1>1 DEF Init, AcquiredIsHeld, NoThread
<1>11. SingleWaitsOK /\ OnlyStaleWakersPanic
    BY <1>5 DEF Init, SingleWaitsOK, OnlyStaleWakersPanic
<1> QED
    BY <1>6, <1>7, <1>8, <1>9, <1>10, <1>11 DEF Inv

\* A step that changes nothing keeps Inv.
LEMMA StutterInv == ASSUME Inv, UNCHANGED vars PROVE Inv'
<1>1. /\ UNCHANGED <<thr, queue, panic, pc, current, next, nextTid, waker, pending>>
      /\ UNCHANGED <<signal, timer, acquired, dead, holder, mem>>
      /\ UNCHANGED <<now, tickTime, cursor, interrupts, active>>
    BY DEF vars, objVars, waitVars, tickVars, irqVars
<1>2. TypeOK' /\ SchedulerOK'
    BY <1>1 DEF Inv, TypeOK, SchedulerOK
<1>7. PendingOK'
    <2>1. PendingOK
        BY DEF Inv
    <2>2. Live(thr', waker') = Live(thr, waker) /\ Objects(thr', current') = Objects(thr, current)
        BY <1>1
    <2> QED
        BY <1>1, <2>1, <2>2 DEF PendingOK
<1>3. AcquiredIsHeld' /\ OnlyStaleWakersPanic' /\ ArbiterOK'
    BY <1>1 DEF Inv, AcquiredIsHeld, OnlyStaleWakersPanic, ArbiterOK, Live
<1>8. WaitingIsQueued'
    <2>1. WaitingIsQueued
        BY DEF Inv
    <2> QED
        BY <1>1, <2>1 DEF WaitingIsQueued, Objects, WakerOf
<1>4. AvailableHasNoWaiters'
    BY <1>1, AvailableCases DEF Inv, AvailableHasNoWaiters, Waitable
<1>5. SingleWaitsOK'
    BY <1>1 DEF Inv, SingleWaitsOK, SingleWaits, Live
<1>6. SleepersOK(thr)' /\ WakersOK(thr, queue)'
    BY <1>1 DEF Inv
<1> QED
    BY <1>2, <1>3, <1>4, <1>5, <1>6, <1>7, <1>8 DEF Inv

\* Every step of the kernel, the programs and the host keeps Inv.
LEMMA NextInv == Inv /\ [Next]_vars => Inv'
<1> SUFFICES ASSUME Inv, [Next]_vars PROVE Inv'
    OBVIOUS
<1>1. CASE Next
    <2>1. panic = "none" /\ (Loop \/ Svc \/ Activate \/ ClockTick)
        BY <1>1 DEF Next
    <2>2. CASE Loop
        BY <2>1, <2>2, RunNextInv, WaitNextInv, WaitDoneInv, RescheduleInv, TickThreadsInv,
           TickTimerInv, QuietLoopInv, DrainInterruptInv DEF Loop
    <2>3. CASE Svc
        BY <2>1, <2>3, WaitSyncInv, SleepThreadInv, CreateThreadInv, ExitThreadInv,
           ArbitrateWaitInv, SignalEventInv, ClearEventInv, ReleaseMutexInv, QuietCallsInv,
           ArbitrateSignalInv DEF Svc, Yield
    <2>4. CASE Activate \/ ClockTick
        BY <2>1, <2>4, QuietLoopInv
    <2> QED
        BY <2>1, <2>2, <2>3, <2>4
<1>2. CASE UNCHANGED vars
    BY <1>2, StutterInv
<1> QED
    BY <1>1, <1>2

\* Inv is an invariant of the kernel, for every number of threads and objects
\* and whatever system calls the programs make.
THEOREM Invariance == Spec => []Inv
<1> QED
    BY InitInv, NextInv, PTL DEF Spec

\* Every variable of the kernel keeps its type.
THEOREM TypeCorrect == Spec => []TypeOK
<1>1. Inv => TypeOK
    BY DEF Inv
<1> QED
    BY <1>1, Invariance, PTL

\* Whatever lists programs pass to WaitSynchronizationN, the assertions of
\* run_thread and the panics inside wake_up and the arbiter are unreachable: the
\* only panic is a signal's expect() on a spent waker.
THEOREM OnlyStaleWakers == Spec => []OnlyStaleWakersPanic
<1>1. Inv => OnlyStaleWakersPanic
    BY DEF Inv
<1> QED
    BY <1>1, Invariance, PTL

\* As long as programs wait for one object at a time the kernel never panics.
THEOREM SingleWaitsNeverPanic == SingleWaits => (Spec => []NoPanic)
<1>1. SingleWaits /\ Inv => NoPanic
    BY DEF Inv, SingleWaitsOK, NoPanic
<1>2. ASSUME SingleWaits PROVE Spec => []NoPanic
    <2>1. Inv => NoPanic
        BY <1>1, <1>2
    <2> QED
        BY <2>1, Invariance, PTL
<1> QED
    BY <1>2

\* An object that a wait would get at once has nobody in its queue: set, release,
\* clear, timeout and exit never leave a waiter behind that they should have woken.
THEOREM NoLostWakeup == Spec => []AvailableHasNoWaiters
<1>1. Inv => AvailableHasNoWaiters
    BY DEF Inv
<1> QED
    BY <1>1, Invariance, PTL

\* A waiting thread can be reached from every object it waits for.
THEOREM WaitersAreQueued == Spec => []WaitingIsQueued
<1>1. Inv => WaitingIsQueued
    BY DEF Inv
<1> QED
    BY <1>1, Invariance, PTL

\* A mutex is acquired exactly while a thread holds it.
THEOREM MutexIsHeld == Spec => []AcquiredIsHeld
<1>1. Inv => AcquiredIsHeld
    BY DEF Inv
<1> QED
    BY <1>1, Invariance, PTL

-----------------------------------------------------------------------------
(***************************************************************************)
(* What a single step of the kernel may do, from the inductive invariant:  *)
(* Kernel's action properties, and the invariant that tick_at leaves       *)
(* nothing due.                                                            *)
(***************************************************************************)

\* A step wakes some sleeping threads, at most, and leaves the others alone.
OnlyWakes ==
    \A t \in Thread :
        /\ thr[t].state # "Waiting" => thr'[t] = thr[t]
        /\ thr'[t].state = "Waiting" => thr'[t] = thr[t]

\* A step moves threads that are awake between ready, running and done.
OnlySchedules ==
    \A t \in Thread :
        /\ thr'[t].wakeKey # thr[t].wakeKey => thr[t].state = "Waiting"
        /\ thr[t].state = "Done" => thr'[t].state = "Done"
        /\ thr'[t].state = "Waiting" => thr'[t] = thr[t]

\* Leaving the table alone wakes nobody.
LEMMA SameTable ==
    ASSUME thr' = thr
    PROVE  OnlyWakes
BY DEF OnlyWakes

\* Keeps says so of every operation that wakes threads up.
LEMMA KeepsWakes ==
    ASSUME Keeps({})
    PROVE  OnlyWakes
BY DEF Keeps, OnlyWakes

\* A call of wait() that succeeds wakes the current thread and nobody else.
LEMMA GrantStep ==
    ASSUME Inv, WaitNext, Available(Head(pending)), Live(thr, waker)
    PROVE  /\ current \in Thread /\ thr[current].state = "Waiting"
           /\ Head(pending) \in Waitable /\ Head(pending) \in Objects(thr, current)
           /\ ~WakeFails(thr[current], Head(pending))
           /\ Grant(Head(pending), waker) /\ waker.thread = current
           /\ thr' = [t \in Thread |-> IF t \in {current}
                         THEN Awake(thr[t], ResumeByObject(thr[t], Head(pending))) ELSE thr[t]]
           /\ queue' = Purge(thr, queue, {current})
           /\ panic' = panic
<1> SUFFICES ASSUME NEW o, o = Head(pending)
             PROVE  /\ current \in Thread /\ thr[current].state = "Waiting"
                    /\ o \in Waitable /\ o \in Objects(thr, current)
                    /\ ~WakeFails(thr[current], o)
                    /\ Grant(o, waker) /\ waker.thread = current
                    /\ thr' = [t \in Thread |-> IF t \in {current}
                                  THEN Awake(thr[t], ResumeByObject(thr[t], o)) ELSE thr[t]]
                    /\ queue' = Purge(thr, queue, {current})
                    /\ panic' = panic
    OBVIOUS
<1>1. /\ current \in Thread /\ waker.thread = current /\ pc = "wait"
      /\ o \in Waitable /\ o \in Objects(thr, current)
    BY WaitNextFacts
<1>2. thr[current].state = "Waiting"
    BY <1>1 DEF Inv, PendingOK
<1>3. ~WakeFails(thr[current], o)
    <2>1. /\ thr[current].waitType # "None"
          /\ thr[current].waitType = "Sleep" => thr[current].waitObjects = <<>>
        BY <1>1, <1>2 DEF Inv, SleepersOK
    <2>2. PICK i \in 1..Len(thr[current].waitObjects) : thr[current].waitObjects[i] = o
        BY <1>1 DEF Objects
    <2>3. thr[current].waitObjects # <<>>
        BY <2>2
    <2> QED
        BY <2>1, <2>2, <2>3 DEF WakeFails
<1>4. Grant(o, waker)
    BY DEF WaitNext, Wait
<1>5. WakeByObject(thr, queue, {current}, o)
    BY <1>1, <1>4 DEF Grant
<1> QED
    BY <1>1, <1>2, <1>3, <1>4, <1>5 DEF WakeByObject

\* A call of wait() wakes at most the current thread.
LEMMA WaitCallWakes ==
    ASSUME Inv, WaitNext
    PROVE  OnlyWakes
<1>1. CASE Available(Head(pending)) /\ Live(thr, waker)
    <2>1. /\ current \in Thread /\ thr[current].state = "Waiting" /\ thr \in Table
          /\ thr' = [t \in Thread |-> IF t \in {current}
                        THEN Awake(thr[t], ResumeByObject(thr[t], Head(pending))) ELSE thr[t]]
        BY <1>1, GrantStep, InvTypes
    <2>2. \A t \in Thread : t # current => thr'[t] = thr[t]
        BY <2>1
    <2>3. thr'[current] = Awake(thr[current], ResumeByObject(thr[current], Head(pending)))
        BY <2>1
    <2>4. thr'[current].state = "Ready"
        BY <2>1, <2>3 DEF Awake, Table, CommonThread
    <2> QED
        BY <2>1, <2>2, <2>4 DEF OnlyWakes
<1>2. CASE ~(Available(Head(pending)) /\ Live(thr, waker))
    <2>1. thr' = thr
        BY <1>2 DEF WaitNext, Wait, Enqueue, GiveBack
    <2> QED
        BY <2>1, SameTable
<1> QED
    BY <1>1, <1>2

\* What tick_at ticks are timers.
LEMMA TickedTimer ==
    ASSUME Inv, TickTimer
    PROVE  /\ cursor \in 1..Len(TimerOrder) /\ Len(TimerOrder) \in Nat
           /\ TimerOrder[cursor] \in Timer /\ TimerOrder[cursor] \in Signaller
<1>1. cursor \in 1..(Len(TimerOrder) + 1) /\ cursor <= Len(TimerOrder)
    BY DEF TickTimer, Inv, TypeOK
<1>2. Len(TimerOrder) \in Nat
    BY KernelAssumption
<1>3. cursor \in 1..Len(TimerOrder)
    BY <1>1, <1>2
<1> QED
    BY <1>2, <1>3, KernelAssumption DEF Signaller

\* What is signalled for a drained interrupt is an event.
LEMMA DrainedEvent ==
    ASSUME Inv, DrainInterrupt
    PROVE  interrupts[Head(active)] \in Event \cup {NoEvent}
<1>1. active \in Seq(Interrupt) /\ active # <<>>
    BY DEF DrainInterrupt, Inv, TypeOK
<1>2. Head(active) \in Interrupt
    BY <1>1
<1> QED
    BY <1>2 DEF Inv, TypeOK

\* Signalling an event, releasing a mutex, signalling an address, ticking and
\* draining the interrupts only wake threads up, and so does a call of wait().
LEMMA WakingSteps ==
    ASSUME Inv, panic = "none",
           \/ SignalEvent \/ ReleaseMutex \/ ArbitrateSignal
           \/ TickThreads \/ TickTimer \/ DrainInterrupt \/ WaitNext
    PROVE  OnlyWakes
<1>1. CASE SignalEvent
    <2>1. PICK e \in Event : EventSignal(e)
        BY <1>1 DEF SignalEvent
    <2> QED
        BY <2>1, FireKeeps, KeepsWakes DEF EventSignal, Signaller
<1>2. CASE ReleaseMutex
    BY <1>2, ReleaseKeeps, KeepsWakes DEF ReleaseMutex
<1>3. CASE ArbitrateSignal
    BY <1>3, ArbiterKeeps, KeepsWakes DEF ArbitrateSignal, Word
<1>4. CASE TickThreads
    <2> DEFINE W == {t \in Thread : Expired(t, now)}
    <2>1. Wakes(thr, queue, W, thr', queue') /\ panic' = panic
        BY <1>4, InvTypes, WakeExpiredStep DEF TickThreads
    <2>2. W \in SUBSET Thread /\ \A t \in W : thr[t].state = "Waiting"
        BY DEF Expired
    <2> HIDE DEF W
    <2> QED
        BY <2>1, <2>2, InvTypes, WakesKeeps, KeepsWakes
<1>5. CASE TickTimer
    <2>2. TimerOrder[cursor] \in Signaller
        BY <1>5, TickedTimer
    <2>3. TimerTick(TimerOrder[cursor], tickTime)
        BY <1>5 DEF TickTimer
    <2>4. Fire(TimerOrder[cursor]) \/ thr' = thr
        BY <2>3 DEF TimerTick
    <2>5. acquired' = acquired /\ dead' = dead
        BY <2>3 DEF TimerTick
    <2> QED
        BY <2>2, <2>4, <2>5, FireKeeps, KeepsWakes, SameTable
<1>6. CASE DrainInterrupt
    <2> DEFINE e == interrupts[Head(active)]
    <2>1. e \in Event \cup {NoEvent}
        BY <1>6, DrainedEvent
    <2>2. \/ e # NoEvent /\ EventSignal(e)
          \/ thr' = thr
        BY <1>6 DEF DrainInterrupt
    <2>3. EventSignal(e) => Fire(e) /\ acquired' = acquired /\ dead' = dead
        BY DEF EventSignal
    <2> HIDE DEF e
    <2> QED
        BY <2>1, <2>2, <2>3, FireKeeps, KeepsWakes, SameTable DEF Signaller
<1>7. CASE WaitNext
    BY <1>7, WaitCallWakes
<1> QED
    BY <1>1, <1>2, <1>3, <1>4, <1>5, <1>6, <1>7

\* exit_thread marks the thread and wakes those that wait for it.
LEMMA ExitSchedules ==
    ASSUME Inv, panic = "none", ExitThread
    PROVE  OnlySchedules
<1> DEFINE th == [thr EXCEPT ![current].state = "Done"]
<1>1. /\ thr \in Table /\ current \in Thread /\ thr[current].state = "Running"
    BY InvTypes DEF ExitThread, Inv, TypeOK, SchedulerOK
<1>2. /\ th \in Table /\ th[current].state = "Done" /\ th[current].wakeKey = thr[current].wakeKey
      /\ \A u \in Thread \ {current} : th[u] = thr[u]
    <2>1. "Done" \in ThreadState /\ thr[current] \in CommonThread
        BY <1>1 DEF ThreadState, Table
    <2> QED
        BY <1>1, <2>1 DEF Table, CommonThread
<1>3. ASSUME thr' = th PROVE OnlySchedules
    BY <1>1, <1>2, <1>3 DEF OnlySchedules
<1>4. CASE ~dead[current]
    <2>1. WakeAll(th, current) /\ current \in Object
        BY <1>1, <1>4, SyncObjectsAssumption DEF ExitThread, ThreadExit
    <2> HIDE DEF th
    <2>2. SleepersOK(th) /\ WakersOK(th, queue)
        <3>1. SleepersOK(thr) /\ WakersOK(thr, queue)
              /\ \A o \in Object : \A w \in Wakers(queue[o]) : w.thread \in Thread
            BY InvTypes
        <3>2. \A o \in Object : \A w \in Wakers(queue[o]) : Live(th, w) => Live(thr, w)
            BY <1>2, <3>1 DEF Live
        <3>3. \A o \in Object : \A w \in Wakers(queue[o]) : Live(th, w) => w.thread # current
            BY <1>1, <3>1, <3>2 DEF WakersOK
        <3> QED
            BY <1>1, <1>2, <3>1, <3>2, <3>3 DEF SleepersOK, WakersOK, Objects
    <2>3. /\ Keeps({current})
          /\ \A t \in Thread : th[t].state # "Waiting" => thr'[t] = th[t]
        BY <1>1, <1>2, <2>1, <2>2, WakeAllKeeps
    <2>4. \A t \in Thread : thr'[t].state = "Waiting" => thr'[t] = thr[t]
        BY <2>3 DEF Keeps
    <2> QED
        BY <1>1, <1>2, <2>3, <2>4 DEF OnlySchedules
<1>5. CASE dead[current]
    BY <1>3, <1>5 DEF ExitThread, ThreadExit
<1> QED
    BY <1>4, <1>5

\* run_next, the end of a slice, CreateThread and ExitThread move threads that
\* are awake; those that sleep keep their record or are woken.
LEMMA SchedulingSteps ==
    ASSUME Inv, panic = "none", RunNext \/ Reschedule \/ CreateThread \/ ExitThread
    PROVE  OnlySchedules
<1>0. thr \in Table /\ next \in Thread \cup {NoThread} /\ current \in Thread \cup {NoThread}
    BY InvTypes DEF Inv, TypeOK
<1>1. ASSUME NEW t \in Thread, NEW s \in {"Ready", "Running"}, NEW r,
             thr[t].state \notin {"Waiting", "Done"},
             \/ thr' = [thr EXCEPT ![t].state = s, ![t].resume = r]
             \/ thr' = [thr EXCEPT ![t].state = s]
      PROVE  OnlySchedules
    <2>1. \A u \in Thread : u # t => thr'[u] = thr[u]
        BY <1>0, <1>1 DEF Table
    <2>2. thr'[t].state = s /\ thr'[t].wakeKey = thr[t].wakeKey
        BY <1>0, <1>1 DEF Table, CommonThread
    <2> QED
        BY <1>1, <2>1, <2>2 DEF OnlySchedules
<1>2. ASSUME thr' = thr PROVE OnlySchedules
    BY <1>2 DEF OnlySchedules
<1>3. CASE RunNext
    <2>1. ReadyThreads # {} => NextThread \in Thread /\ thr[NextThread].state = "Ready"
        BY NextThreadReady DEF ReadyThreads
    <2>2. thr' = thr \/ \E t \in Thread : RunThread(t)
        BY <1>0, <1>3, <2>1 DEF RunNext
    <2>3. ASSUME NEW t \in Thread, RunThread(t) PROVE OnlySchedules
        BY <1>1, <1>2, <2>3 DEF RunThread
    <2> QED
        BY <1>2, <2>2, <2>3
<1>4. CASE Reschedule
    <2>1. current \in Thread
        BY <1>0, <1>4 DEF Reschedule, Inv, SchedulerOK
    <2>2. \/ thr' = thr
          \/ thr[current].state = "Running" /\ thr' = [thr EXCEPT ![current].state = "Ready"]
        BY <1>4 DEF Reschedule
    <2> QED
        BY <1>1, <1>2, <2>1, <2>2
<1>5. CASE CreateThread
    <2>1. /\ nextTid \in Thread /\ thr' = [thr EXCEPT ![nextTid] = NewThread("Ready")]
        BY <1>5, ThreadTableAssumption DEF CreateThread, Inv, TypeOK, Thread
    <2>2. thr[nextTid].state = "Absent" /\ thr[nextTid].wakeKey = 0
        BY <2>1, ThreadTableAssumption DEF Inv, SchedulerOK, Thread
    <2>3. \A u \in Thread : u # nextTid => thr'[u] = thr[u]
        BY <1>0, <2>1 DEF Table
    <2>4. thr'[nextTid].state = "Ready" /\ thr'[nextTid].wakeKey = 0
        BY <1>0, <2>1 DEF Table, NewThread
    <2> QED
        BY <2>2, <2>3, <2>4 DEF OnlySchedules
<1>6. CASE ExitThread
    BY <1>6, ExitSchedules
<1> QED
    BY <1>3, <1>4, <1>5, <1>6

\* The calls with which the current thread goes to sleep.
LEMMA SleepingSteps ==
    ASSUME Inv, WaitSync1 \/ WaitSyncN \/ SleepThread \/ ArbitrateWait
    PROVE  \E objects \in Seq(Object), ns \in Int, type \in ThreadWaitType \ {"None"} :
              /\ SuspendCurrent(objects, ns, type)
              /\ type = "Sleep" => objects = <<>>
              /\ IF type = "Arbiter"
                 THEN ns = -1 /\ \E a \in Address : objects = <<a>>
                 ELSE \A i \in 1..Len(objects) : objects[i] \in Waitable
<1>1. CASE WaitSync1
    <2>1. PICK o \in Waitable, ns \in Timeouts : SuspendCurrent(<<o>>, ns, "WaitSync1")
        BY <1>1 DEF WaitSync1, BeginWait
    <2>2. <<o>> \in Seq(Object) /\ ns \in Int /\ \A i \in 1..Len(<<o>>) : <<o>>[i] \in Waitable
        BY WaitableIsObject, KernelAssumption
    <2>3. "WaitSync1" \in ThreadWaitType \ {"None"}
        BY DEF ThreadWaitType
    <2> QED
        BY <2>1, <2>2, <2>3
<1>2. CASE WaitSyncN
    <2>1. PICK l \in WaitLists, ns \in Timeouts : SuspendCurrent(l, ns, "WaitSyncN")
        BY <1>2 DEF WaitSyncN, BeginWait
    <2>2. l \in Seq(Waitable) /\ ns \in Int
        BY KernelAssumption
    <2>3. l \in Seq(Object) /\ \A i \in 1..Len(l) : l[i] \in Waitable
        <3>1. l \in [1..Len(l) -> Waitable] /\ Len(l) \in Nat
            BY <2>2
        <3>2. l \in [1..Len(l) -> Object]
            BY <3>1, WaitableIsObject
        <3> QED
            BY <3>1, <3>2
    <2>4. "WaitSyncN" \in ThreadWaitType \ {"None"}
        BY DEF ThreadWaitType
    <2> QED
        BY <2>1, <2>2, <2>3, <2>4
<1>3. CASE SleepThread
    <2>1. PICK ns \in Timeouts : SuspendCurrent(<<>>, ns, "Sleep")
        BY <1>3 DEF SleepThread
    <2>2. <<>> \in Seq(Object) /\ ns \in Int /\ Len(<<>>) = 0
        BY KernelAssumption
    <2>3. "Sleep" \in ThreadWaitType \ {"None"}
        BY DEF ThreadWaitType
    <2>4. \A i \in 1..Len(<<>>) : <<>>[i] \in Waitable
        BY <2>2
    <2> QED
        BY <2>1, <2>2, <2>3, <2>4
<1>4. CASE ArbitrateWait
    <2>1. PICK a \in Address : SuspendCurrent(<<a>>, -1, "Arbiter")
        BY <1>4 DEF ArbitrateWait
    <2>2. <<a>> \in Seq(Object) /\ -1 \in Int
        BY SyncObjectsAssumption
    <2>3. "Arbiter" \in ThreadWaitType \ {"None"}
        BY DEF ThreadWaitType
    <2> QED
        BY <2>1, <2>2, <2>3
<1> QED
    BY <1>1, <1>2, <1>3, <1>4

\* The steps that leave the thread table alone.
LEMMA TableSteps ==
    ASSUME \/ WaitDone \/ TimersDone \/ DrainDone \/ ClearEvent \/ SetTimer \/ CancelTimer
           \/ StoreWord \/ BindInterrupt \/ Activate \/ ClockTick \/ UNCHANGED vars
    PROVE  thr' = thr /\ queue' = queue
<1>1. CASE ClearEvent \/ SetTimer \/ CancelTimer
    BY <1>1 DEF ClearEvent, EventClear, SetTimer, CancelTimer, TimerCancel, TimerSet
<1>2. CASE WaitDone \/ TimersDone \/ DrainDone \/ StoreWord \/ BindInterrupt \/ Activate \/ ClockTick
    BY <1>2 DEF WaitDone, TimersDone, DrainDone, StoreWord, BindInterrupt, Activate, ClockTick
<1>3. CASE UNCHANGED vars
    BY <1>3 DEF vars
<1> QED
    BY <1>1, <1>2, <1>3

\* Every step is one of these.
LEMMA StepKinds ==
    ASSUME [Next]_vars
    PROVE  \/ /\ panic = "none"
              /\ \/ SignalEvent \/ ReleaseMutex \/ ArbitrateSignal
                 \/ TickThreads \/ TickTimer \/ DrainInterrupt \/ WaitNext
           \/ panic = "none" /\ (RunNext \/ Reschedule \/ CreateThread \/ ExitThread)
           \/ panic = "none" /\ (WaitSync1 \/ WaitSyncN \/ SleepThread \/ ArbitrateWait)
           \/ WaitDone \/ TimersDone \/ DrainDone \/ ClearEvent \/ SetTimer \/ CancelTimer
           \/ StoreWord \/ BindInterrupt \/ Activate \/ ClockTick \/ UNCHANGED vars
BY DEF Next, Loop, Svc, Yield

\* A thread's key changes only while it waits, and a thread that is done stays so.
LEMMA WakesStep ==
    ASSUME Inv, [Next]_vars
    PROVE  \A t \in Thread :
              /\ thr'[t].wakeKey # thr[t].wakeKey => thr[t].state = "Waiting"
              /\ thr[t].state = "Done" => thr'[t].state = "Done"
<1>1. ASSUME OnlyWakes PROVE OnlySchedules
    BY <1>1 DEF OnlyWakes, OnlySchedules
<1>2. ASSUME WaitSync1 \/ WaitSyncN \/ SleepThread \/ ArbitrateWait
      PROVE  \A t \in Thread :
                /\ thr'[t].wakeKey # thr[t].wakeKey => thr[t].state = "Waiting"
                /\ thr[t].state = "Done" => thr'[t].state = "Done"
    <2>1. PICK objects \in Seq(Object), ns \in Int, type \in ThreadWaitType \ {"None"} :
              /\ SuspendCurrent(objects, ns, type)
              /\ type = "Sleep" => objects = <<>>
        BY <1>2, SleepingSteps
    <2>2. /\ current \in Thread /\ thr[current].state = "Running"
          /\ \A u \in Thread \ {current} : thr'[u] = thr[u]
          /\ \A u \in Thread : WakerOf(thr', u) = WakerOf(thr, u)
        BY <2>1, SuspendFacts
    <2>3. \A u \in Thread : thr'[u].wakeKey = thr[u].wakeKey
        BY <2>2 DEF WakerOf
    <2> QED
        BY <2>2, <2>3
<1>3. CASE OnlySchedules
    BY <1>3 DEF OnlySchedules
<1> QED
    BY <1>1, <1>2, <1>3, StepKinds, WakingSteps, SchedulingSteps, TableSteps, SameTable

\* Only a waiting thread is ever woken, whatever programs do: a wait ends once,
\* and no waker, timeout or signal revives a thread that has exited.
THEOREM OnlyWaitingWakes == Spec => WakesOnlyWaiting
<1>1. Inv /\ [Next]_vars =>
        [\A t \in Thread :
            /\ thr'[t].wakeKey # thr[t].wakeKey => thr[t].state = "Waiting"
            /\ thr[t].state = "Done" => thr'[t].state = "Done"]_vars
    BY WakesStep
<1> QED
    BY <1>1, Invariance, PTL DEF Spec, WakesOnlyWaiting

-----------------------------------------------------------------------------

\* Going to sleep is for one address or for waitable objects.
LEMMA SuspendKind ==
    ASSUME Inv, WaitSync1 \/ WaitSyncN \/ SleepThread \/ ArbitrateWait
    PROVE  /\ current \in Thread /\ thr[current].state = "Running"
           /\ \A u \in Thread \ {current} : thr'[u] = thr[u]
           /\ IF thr'[current].waitType = "Arbiter"
              THEN /\ thr'[current].waitTimeout = NoTimeout
                   /\ \E a \in Address : thr'[current].waitObjects = <<a>>
              ELSE Objects(thr', current) \subseteq Waitable
<1>1. PICK objects \in Seq(Object), ns \in Int, type \in ThreadWaitType \ {"None"} :
          /\ SuspendCurrent(objects, ns, type)
          /\ type = "Sleep" => objects = <<>>
          /\ IF type = "Arbiter"
             THEN ns = -1 /\ \E a \in Address : objects = <<a>>
             ELSE \A i \in 1..Len(objects) : objects[i] \in Waitable
    BY SleepingSteps
<1>2. /\ current \in Thread /\ thr[current].state = "Running" /\ thr \in Table
      /\ \A u \in Thread \ {current} : thr'[u] = thr[u]
      /\ Objects(thr', current) = {objects[i] : i \in 1..Len(objects)}
    BY <1>1, SuspendFacts
<1>3. thr' = Suspend(thr, current, objects, Absolute(ns), type)
    BY <1>1 DEF SuspendCurrent
<1>4. /\ thr'[current].waitType = type /\ thr'[current].waitObjects = objects
      /\ thr'[current].waitTimeout = Absolute(ns)
    BY <1>2, <1>3 DEF Suspend, Table, CommonThread
<1>5. ns = -1 => Absolute(ns) = NoTimeout
    BY DEF Absolute
<1> QED
    BY <1>1, <1>2, <1>4, <1>5

\* Every step keeps SleepKinds.
LEMMA SleepKindsStep ==
    ASSUME Inv, SleepKinds, [Next]_vars
    PROVE  SleepKinds'
<1> DEFINE Kind(t) == IF thr[t].waitType = "Arbiter"
                      THEN thr[t].waitTimeout = NoTimeout /\ \E a \in Address : thr[t].waitObjects = <<a>>
                      ELSE Objects(thr, t) \subseteq Waitable
<1>1. ASSUME NEW t \in Thread, thr'[t] = thr[t], thr'[t].state = "Waiting"
      PROVE  Kind(t)'
    BY <1>1 DEF SleepKinds, Objects
<1>2. ASSUME \A t \in Thread : thr'[t].state = "Waiting" => thr'[t] = thr[t]
      PROVE  SleepKinds'
    BY <1>1, <1>2 DEF SleepKinds
<1>3. CASE WaitSync1 \/ WaitSyncN \/ SleepThread \/ ArbitrateWait
    <2>1. Kind(current)' /\ \A u \in Thread : u # current => thr'[u] = thr[u]
        <3>1. current' = current
            BY <1>3, SleepingSteps DEF SuspendCurrent, loopVars
        <3> QED
            BY <1>3, <3>1, SuspendKind
    <2>2. current' = current
        BY <1>3, SleepingSteps DEF SuspendCurrent, loopVars
    <2> HIDE DEF Kind
    <2>3. \A t \in Thread : thr'[t].state = "Waiting" => Kind(t)'
        BY <1>1, <2>1, <2>2
    <2> QED
        BY <2>3 DEF SleepKinds, Kind
<1>4. OnlyWakes => SleepKinds'
    BY <1>2 DEF OnlyWakes
<1>5. OnlySchedules => SleepKinds'
    BY <1>2 DEF OnlySchedules
<1> QED
    BY <1>3, <1>4, <1>5, StepKinds, WakingSteps, SchedulingSteps, TableSteps, SameTable

-----------------------------------------------------------------------------

\* Waking threads that do not wait for an address leaves its queue alone.
LEMMA PurgeOthers ==
    ASSUME NEW th, NEW qs \in Queues, NEW W, NEW a \in Object,
           \A t \in W : a \notin Objects(th, t)
    PROVE  Purge(th, qs, W)[a] = qs[a]
<1>1. qs[a] \in Seq(Waker)
    BY DEF Queues
<1>2. Purge(th, qs, W)[a] = Without(qs[a], {t \in W : a \in Objects(th, t)})
    BY DEF Purge
<1>3. \A i \in 1..Len(qs[a]) : qs[a][i].thread \notin {t \in W : a \in Objects(th, t)}
    OBVIOUS
<1> QED
    BY <1>1, <1>2, <1>3, WithoutNone

\* A thread that waits for a waitable object waits for no address.
LEMMA WaitsForNoAddress ==
    ASSUME Inv, SleepKinds, NEW t \in Thread, thr[t].state = "Waiting",
           \/ thr[t].waitTimeout # NoTimeout
           \/ \E o \in Waitable : o \in Objects(thr, t)
    PROVE  \A a \in Address : a \notin Objects(thr, t)
<1>1. \A a \in Address : a \notin Waitable
    BY SyncObjectsAssumption DEF Waitable, Signaller
<1>2. CASE thr[t].waitType = "Arbiter"
    <2>1. PICK a \in Address : thr[t].waitObjects = <<a>>
        BY <1>2 DEF SleepKinds
    <2>2. Objects(thr, t) = {a}
        BY <2>1 DEF Objects
    <2> QED
        BY <1>1, <1>2, <2>2 DEF SleepKinds
<1>3. CASE thr[t].waitType # "Arbiter"
    BY <1>1, <1>3 DEF SleepKinds
<1> QED
    BY <1>2, <1>3

\* Signalling a waitable object leaves the queues of addresses alone.
LEMMA WakeByWaitable ==
    ASSUME Inv, SleepKinds, NEW o \in Waitable, NEW qs \in Queues, NEW th \in Table,
           NEW W \in SUBSET Thread, WakeByObject(th, qs, W, o),
           \A t \in W : th[t] = thr[t] /\ thr[t].state = "Waiting" /\ o \in Objects(thr, t)
    PROVE  \A a \in Address : queue'[a] \in {queue[a], qs[a]}
<1>1. \A a \in Address : a \in Object
    BY SyncObjectsAssumption
<1>2. \A t \in W : \A a \in Address : a \notin Objects(th, t)
    BY WaitsForNoAddress DEF Objects
<1>3. queue' = Purge(th, qs, W) \/ queue' = queue
    BY DEF WakeByObject
<1> QED
    BY <1>1, <1>2, <1>3, PurgeOthers

\* The queue of an address is not that of the object, so emptying the one keeps
\* the other.
LEMMA WakeFirstAddress ==
    ASSUME Inv, SleepKinds, NEW o \in Waitable, queue[o] # <<>>, WakeFirst(o)
    PROVE  \A a \in Address : queue'[a] = queue[a]
<1> DEFINE w == Head(queue[o])
<1>1. /\ thr \in Table /\ queue \in Queues /\ SleepersOK(thr) /\ WakersOK(thr, queue)
      /\ o \in Object /\ queue[o] \in Seq(Waker)
    BY InvTypes, WaitableIsObject DEF Queues
<1>2. w \in Waker /\ w \in Wakers(queue[o]) /\ w.thread \in Thread
    BY <1>1, HeadWaker, InvTypes
<1>3. CASE Live(thr, w)
    <2>1. WakeByObject(thr, queue, {w.thread}, o)
        BY <1>3 DEF WakeFirst
    <2>2. thr[w.thread].state = "Waiting" /\ o \in Objects(thr, w.thread)
        BY <1>1, <1>2, <1>3 DEF WakersOK
    <2> HIDE DEF w
    <2>3. /\ {w.thread} \in SUBSET Thread
          /\ \A t \in {w.thread} : thr[t] = thr[t] /\ thr[t].state = "Waiting" /\ o \in Objects(thr, t)
        BY <1>2, <2>2
    <2>4. \A a \in Address : queue'[a] \in {queue[a], queue[a]}
        BY <1>1, <2>1, <2>3, WakeByWaitable
    <2> QED
        BY <2>4
<1>4. CASE ~Live(thr, w)
    BY <1>4 DEF WakeFirst
<1> QED
    BY <1>3, <1>4

\* Waking everybody in the queue of a waitable object, from a table that
\* differs from thr in threads that do not sleep.
LEMMA WakeAllAddress ==
    ASSUME Inv, SleepKinds, NEW o \in Waitable, NEW th \in Table, WakeAll(th, o),
           \A t \in Thread : th[t].wakeKey = thr[t].wakeKey,
           \A t \in Thread : thr[t].state = "Waiting" => th[t] = thr[t]
    PROVE  \A a \in Address : queue'[a] = queue[a]
<1> DEFINE W == LiveThreads(th, queue[o])
           qs == [queue EXCEPT ![o] = <<>>]
<1>1. /\ queue \in Queues /\ WakersOK(thr, queue) /\ o \in Object
    BY InvTypes, WaitableIsObject
<1>2. \A a \in Address : a # o /\ a \in Object
    BY SyncObjectsAssumption DEF Waitable, Signaller
<1>3. <<>> \in Seq(Waker)
    OBVIOUS
<1>4. qs \in Queues /\ \A a \in Address : qs[a] = queue[a]
    BY <1>1, <1>2, <1>3 DEF Queues
<1>5. W \in SUBSET Thread
    BY DEF LiveThreads
<1>6. \A t \in W : th[t] = thr[t] /\ thr[t].state = "Waiting" /\ o \in Objects(thr, t)
    <2> SUFFICES ASSUME NEW t \in W
                 PROVE  th[t] = thr[t] /\ thr[t].state = "Waiting" /\ o \in Objects(thr, t)
        OBVIOUS
    <2>1. t \in Thread /\ WakerOf(th, t) \in Wakers(queue[o])
        BY DEF LiveThreads
    <2>2. WakerOf(th, t).thread = t /\ Live(thr, WakerOf(th, t))
        BY <2>1 DEF WakerOf, Live
    <2>3. thr[t].state = "Waiting" /\ o \in Objects(thr, t)
        BY <1>1, <2>1, <2>2 DEF WakersOK
    <2> QED
        BY <2>1, <2>3
<1>7. WakeByObject(th, qs, W, o)
    BY DEF WakeAll
<1> HIDE DEF W, qs
<1>8. \A a \in Address : queue'[a] \in {queue[a], qs[a]}
    BY <1>4, <1>5, <1>6, <1>7, WakeByWaitable
<1> QED
    BY <1>4, <1>8

\* ArbiterImpl::signal drops the first waiters of its address: nobody who stays
\* in the queue belongs to a thread that was woken.
LEMMA SignalAddress ==
    ASSUME Inv, SleepKinds, ArbiterDistinct, NEW a \in Address, NEW amount \in Int,
           ArbiterSignal(a, amount), NEW b \in Address
    PROVE  \E n \in 0..Len(queue[b]) : queue'[b] = SubSeq(queue[b], n + 1, Len(queue[b]))
<1> DEFINE q == queue[a]
           n == Drained(a, amount)
           W == {q[i].thread : i \in 1..n}
           rest == SubSeq(q, n + 1, Len(q))
           qs == [queue EXCEPT ![a] = rest]
<1>1. a \in Object /\ b \in Object
    BY SyncObjectsAssumption
<1>2. /\ thr \in Table /\ queue \in Queues /\ WakersOK(thr, queue)
      /\ q \in Seq(Waker) /\ Len(q) \in Nat /\ queue[b] \in Seq(Waker) /\ Len(queue[b]) \in Nat
    BY <1>1, InvTypes DEF Queues
<1>3. n \in 0..Len(q)
    BY <1>2 DEF Drained
<1>4. /\ rest \in Seq(Waker)
      /\ Len(rest) = Len(q) - n
      /\ \A i \in 1..(Len(q) - n) : rest[i] = q[n + i]
    BY <1>2, <1>3
<1>5. qs \in Queues /\ qs[a] = rest /\ (b # a => qs[b] = queue[b])
    BY <1>1, <1>2, <1>4 DEF Queues
<1>6. SubSeq(queue[b], 0 + 1, Len(queue[b])) = queue[b] /\ 0 \in 0..Len(queue[b])
    BY <1>2
<1>7. CASE queue' = queue
    BY <1>6, <1>7
<1>8. CASE queue' = Purge(thr, qs, W) /\ \A i \in 1..n : Live(thr, q[i])
    <2>1. CASE b # a
        <3>1. ASSUME NEW t \in W PROVE b \notin Objects(thr, t)
            <4>1. PICK i \in 1..n : t = q[i].thread
                BY <3>1
            <4>2. q[i] \in Wakers(q) /\ q[i].thread \in Thread /\ Live(thr, q[i])
                <5>1. i \in 1..Len(q)
                    BY <1>2, <1>3
                <5>2. q[i] \in Wakers(q)
                    BY <5>1 DEF Wakers
                <5> QED
                    BY <1>1, <1>8, <5>2, InvTypes
            <4>3. thr[t].state = "Waiting" /\ a \in Objects(thr, t) /\ t \in Thread
                BY <1>1, <1>2, <4>1, <4>2 DEF WakersOK
            <4>4. a \notin Waitable /\ b \notin Waitable
                BY SyncObjectsAssumption DEF Waitable, Signaller
            <4>5. PICK c \in Address : thr[t].waitObjects = <<c>>
                BY <4>3, <4>4 DEF SleepKinds
            <4>6. Objects(thr, t) = {c}
                BY <4>5 DEF Objects
            <4> QED
                BY <2>1, <4>3, <4>6
        <3> HIDE DEF q, n, W, rest, qs
        <3>2. Purge(thr, qs, W)[b] = qs[b]
            BY <1>1, <1>5, <3>1, PurgeOthers
        <3> QED
            BY <1>5, <1>6, <1>8, <2>1, <3>2
    <2>2. CASE b = a
        <3> DEFINE T == {t \in W : a \in Objects(thr, t)}
        <3>1. queue'[a] = Without(rest, T)
            BY <1>1, <1>5, <1>8 DEF Purge
        <3>2. ASSUME NEW i \in 1..Len(rest) PROVE rest[i].thread \notin T
            <4> HIDE DEF n, rest, q
            <4>0. i \in 1..(Len(q) - n)
                BY <1>4
            <4>1. n + i \in 1..Len(q) /\ rest[i] = q[n + i] /\ n \in Nat
                BY <1>2, <1>3, <1>4, <4>0
            <4>2. SUFFICES ASSUME NEW j \in 1..n, q[n + i].thread = q[j].thread PROVE FALSE
                BY <4>1
            <4>3. j \in 1..Len(q) /\ j # n + i
                BY <1>2, <1>3, <4>1, <4>2
            <4> QED
                BY <4>1, <4>2, <4>3 DEF ArbiterDistinct, q
        <3> HIDE DEF T, rest
        <3>3. queue'[a] = rest
            BY <1>4, <3>1, <3>2, WithoutNone
        <3> QED
            BY <1>3, <2>2, <3>3 DEF rest
    <2> QED
        BY <2>1, <2>2
<1> QED
    BY <1>7, <1>8 DEF ArbiterSignal, WakeByObject

\* Signalling an event or a timer leaves the queues of addresses alone.
LEMMA FireAddress ==
    ASSUME Inv, SleepKinds, NEW o \in Signaller, Fire(o)
    PROVE  \A a \in Address : queue'[a] = queue[a]
<1>1. o \in Waitable /\ thr \in Table
    BY InvTypes DEF Waitable
<1> QED
    BY <1>1, WakeFirstAddress, WakeAllAddress DEF Fire

\* So does a call of wait().
LEMMA WaitCallAddress ==
    ASSUME Inv, SleepKinds, WaitNext
    PROVE  \A a \in Address : queue'[a] = queue[a]
<1> SUFFICES ASSUME NEW o, o = Head(pending) PROVE \A a \in Address : queue'[a] = queue[a]
    OBVIOUS
<1>1. o \in Waitable /\ queue \in Queues
    BY WaitNextFacts, InvTypes
<1>2. \A a \in Address : a \in Object /\ a # o
    BY <1>1, SyncObjectsAssumption DEF Waitable, Signaller
<1>3. CASE ~Available(o)
    <2>1. queue' = [queue EXCEPT ![o] = Append(@, waker)]
        BY <1>3 DEF WaitNext, Wait, Enqueue
    <2> QED
        BY <1>1, <1>2, <2>1 DEF Queues
<1>4. CASE Available(o) /\ Live(thr, waker)
    <2>1. /\ current \in Thread /\ thr[current].state = "Waiting" /\ o \in Objects(thr, current)
          /\ queue' = Purge(thr, queue, {current})
        BY <1>4, GrantStep
    <2>2. \A a \in Address : a \notin Objects(thr, current)
        BY <1>1, <2>1, WaitsForNoAddress
    <2> QED
        BY <1>1, <1>2, <2>1, <2>2, PurgeOthers
<1>5. CASE Available(o) /\ ~Live(thr, waker)
    BY <1>5 DEF WaitNext, Wait, GiveBack
<1> QED
    BY <1>3, <1>4, <1>5

\* And exit_thread.
LEMMA ExitAddress ==
    ASSUME Inv, SleepKinds, ExitThread
    PROVE  \A a \in Address : queue'[a] = queue[a]
<1> DEFINE th == [thr EXCEPT ![current].state = "Done"]
<1>1. thr \in Table /\ current \in Thread /\ thr[current].state = "Running" /\ current \in Waitable
    BY InvTypes DEF ExitThread, Inv, TypeOK, SchedulerOK, Waitable
<1>2. /\ th \in Table /\ \A t \in Thread : th[t].wakeKey = thr[t].wakeKey
      /\ \A t \in Thread : thr[t].state = "Waiting" => th[t] = thr[t]
    <2>1. "Done" \in ThreadState /\ thr[current] \in CommonThread
        BY <1>1 DEF ThreadState, Table
    <2> QED
        BY <1>1, <2>1 DEF Table, CommonThread
<1>3. WakeAll(th, current) \/ queue' = queue
    BY DEF ExitThread, ThreadExit
<1> HIDE DEF th
<1> QED
    BY <1>1, <1>2, <1>3, WakeAllAddress

\* The timeouts that tick_at finds are not those of threads in an arbiter's queue.
LEMMA TickAddress ==
    ASSUME Inv, SleepKinds, TickThreads
    PROVE  \A a \in Address : queue'[a] = queue[a]
<1> DEFINE W == {t \in Thread : Expired(t, now)}
<1>1. queue \in Queues /\ \A a \in Address : a \in Object
    BY InvTypes, SyncObjectsAssumption
<1>2. queue' = Purge(thr, queue, W) \/ queue' = queue
    BY DEF TickThreads, WakeExpired
<1>3. \A t \in W : \A a \in Address : a \notin Objects(thr, t)
    BY WaitsForNoAddress DEF Expired
<1> HIDE DEF W
<1> QED
    BY <1>1, <1>2, <1>3, PurgeOthers

\* In one step the queue of an address stays, gets one more waiter at its end, or
\* loses some from its front.
LEMMA AddressStep ==
    ASSUME Inv, SleepKinds, ArbiterDistinct, [Next]_vars, NEW a \in Address
    PROVE  \/ queue'[a] = queue[a]
           \/ /\ current \in Thread /\ thr[current].state = "Running"
              /\ queue'[a] = Append(queue[a], WakerOf(thr, current))
           \/ \E n \in 0..Len(queue[a]) : queue'[a] = SubSeq(queue[a], n + 1, Len(queue[a]))
<1>1. CASE SignalEvent \/ DrainInterrupt \/ TickTimer
    <2>1. (\E o \in Signaller : Fire(o)) \/ queue' = queue
        <3>1. CASE SignalEvent
            BY <3>1 DEF SignalEvent, EventSignal, Signaller
        <3>2. CASE DrainInterrupt
            <4>1. interrupts[Head(active)] \in Event \cup {NoEvent}
                BY <3>2, DrainedEvent
            <4> QED
                BY <3>2, <4>1 DEF DrainInterrupt, EventSignal, Signaller
        <3>3. CASE TickTimer
            <4>1. TimerOrder[cursor] \in Signaller
                BY <3>3, TickedTimer
            <4> QED
                BY <3>3, <4>1 DEF TickTimer, TimerTick
        <3> QED
            BY <1>1, <3>1, <3>2, <3>3
    <2> QED
        BY <2>1, FireAddress
<1>2. CASE ReleaseMutex
    <2>1. PICK m \in Mutex : MutexRelease(m)
        BY <1>2 DEF ReleaseMutex
    <2>2. m \in Waitable
        BY DEF Waitable
    <2>3. queue' = queue \/ (queue[m] # <<>> /\ WakeFirst(m))
        BY <2>1 DEF MutexRelease
    <2> QED
        BY <2>2, <2>3, WakeFirstAddress
<1>3. CASE ArbitrateSignal
    BY <1>3, SignalAddress DEF ArbitrateSignal, Word
<1>4. CASE TickThreads \/ WaitNext \/ ExitThread
    BY <1>4, TickAddress, WaitCallAddress, ExitAddress
<1>5. CASE RunNext \/ Reschedule \/ CreateThread \/ WaitSync1 \/ WaitSyncN \/ SleepThread
    BY <1>5 DEF RunNext, Reschedule, CreateThread, WaitSync1, WaitSyncN, BeginWait, SleepThread
<1>6. CASE ArbitrateWait
    <2>1. PICK b \in Address : queue' = [queue EXCEPT ![b] = Append(@, WakerOf(thr, current))]
        BY <1>6 DEF ArbitrateWait, ArbiterWait
    <2>2. current \in Thread /\ thr[current].state = "Running" /\ queue \in Queues /\ a \in Object
        BY <1>6, SuspendKind, InvTypes, SyncObjectsAssumption
    <2> QED
        BY <2>1, <2>2 DEF Queues
<1> QED
    BY <1>1, <1>2, <1>3, <1>4, <1>5, <1>6, StepKinds, TableSteps

\* Every step keeps ArbiterDistinct: who goes to sleep was awake, and everybody in
\* the queue sleeps.
LEMMA ArbiterDistinctStep ==
    ASSUME Inv, SleepKinds, ArbiterDistinct, [Next]_vars
    PROVE  ArbiterDistinct'
<1> SUFFICES ASSUME NEW a \in Address, NEW i \in 1..Len(queue'[a]), NEW j \in 1..Len(queue'[a]),
                    queue'[a][i].thread = queue'[a][j].thread
             PROVE  i = j
    BY DEF ArbiterDistinct
<1>1. a \in Object /\ queue[a] \in Seq(Waker) /\ Len(queue[a]) \in Nat /\ WakersOK(thr, queue)
    BY InvTypes, SyncObjectsAssumption DEF Queues
<1>2. \A k, l \in 1..Len(queue[a]) : queue[a][k].thread = queue[a][l].thread => k = l
    BY DEF ArbiterDistinct
<1>3. CASE queue'[a] = queue[a]
    BY <1>2, <1>3
<1>4. CASE /\ current \in Thread /\ thr[current].state = "Running"
           /\ queue'[a] = Append(queue[a], WakerOf(thr, current))
    <2>1. \A k \in 1..Len(queue[a]) : queue[a][k].thread # current
        <3> TAKE k \in 1..Len(queue[a])
        <3>1. queue[a][k] \in Wakers(queue[a])
            BY DEF Wakers
        <3>2. thr[queue[a][k].thread].state = "Waiting"
            BY <1>1, <3>1 DEF Inv, ArbiterOK, WakersOK
        <3> QED
            BY <1>4, <3>2
    <2>2. WakerOf(thr, current).thread = current /\ WakerOf(thr, current) \in Waker
        BY <1>4, InvTypes DEF WakerOf, Waker, Table, CommonThread
    <2>3. /\ Len(queue'[a]) = Len(queue[a]) + 1
          /\ \A k \in 1..Len(queue[a]) : queue'[a][k] = queue[a][k]
          /\ queue'[a][Len(queue[a]) + 1] = WakerOf(thr, current)
        BY <1>1, <1>4, <2>2
    <2>4. \A k \in 1..Len(queue'[a]) : k \in 1..Len(queue[a]) \/ k = Len(queue[a]) + 1
        BY <1>1, <2>3
    <2> QED
        BY <1>2, <2>1, <2>2, <2>3, <2>4
<1>5. CASE \E n \in 0..Len(queue[a]) : queue'[a] = SubSeq(queue[a], n + 1, Len(queue[a]))
    <2>1. PICK n \in 0..Len(queue[a]) : queue'[a] = SubSeq(queue[a], n + 1, Len(queue[a]))
        BY <1>5
    <2>2. /\ Len(queue'[a]) = Len(queue[a]) - n
          /\ \A k \in 1..(Len(queue[a]) - n) : queue'[a][k] = queue[a][n + k]
        BY <1>1, <2>1
    <2>3. n + i \in 1..Len(queue[a]) /\ n + j \in 1..Len(queue[a]) /\ i \in Int /\ j \in Int
        BY <1>1, <2>2
    <2>4. n + i = n + j
        BY <1>2, <2>2, <2>3
    <2> QED
        BY <2>3, <2>4
<1> QED
    BY <1>3, <1>4, <1>5, AddressStep

\* Nobody leaves the queue of an address before somebody who came earlier.
LEMMA FifoStep ==
    ASSUME Inv, SleepKinds, ArbiterDistinct, [Next]_vars, NEW a \in Address,
           NEW i \in 1..Len(queue[a]), NEW j \in 1..Len(queue[a]),
           i < j, queue[a][i] \in Wakers(queue'[a])
    PROVE  queue[a][j] \in Wakers(queue'[a])
<1>1. a \in Object /\ queue[a] \in Seq(Waker) /\ Len(queue[a]) \in Nat
    BY InvTypes, SyncObjectsAssumption DEF Queues
<1>2. CASE queue'[a] = queue[a]
    BY <1>2 DEF Wakers
<1>3. CASE current \in Thread /\ queue'[a] = Append(queue[a], WakerOf(thr, current))
    <2>1. WakerOf(thr, current) \in Waker
        BY <1>3, InvTypes DEF WakerOf, Waker, Table, CommonThread
    <2> QED
        BY <1>1, <1>3, <2>1, AppendWaker DEF Wakers
<1>4. CASE \E n \in 0..Len(queue[a]) : queue'[a] = SubSeq(queue[a], n + 1, Len(queue[a]))
    <2>1. PICK n \in 0..Len(queue[a]) : queue'[a] = SubSeq(queue[a], n + 1, Len(queue[a]))
        BY <1>4
    <2>2. /\ Len(queue'[a]) = Len(queue[a]) - n
          /\ \A k \in 1..(Len(queue[a]) - n) : queue'[a][k] = queue[a][n + k]
        BY <1>1, <2>1
    <2>3. PICK k \in 1..Len(queue'[a]) : queue[a][i] = queue'[a][k]
        BY DEF Wakers
    <2>4. n + k \in 1..Len(queue[a]) /\ queue[a][i] = queue[a][n + k] /\ k > 0 /\ k \in Int
        BY <1>1, <2>2, <2>3
    <2>5. i = n + k
        BY <2>4 DEF ArbiterDistinct
    <2>6. j - n \in 1..Len(queue'[a]) /\ n + (j - n) = j
        BY <1>1, <2>2, <2>4, <2>5
    <2>7. queue'[a][j - n] = queue[a][j]
        BY <2>2, <2>6
    <2> QED
        BY <2>6, <2>7 DEF Wakers
<1> QED
    BY <1>2, <1>3, <1>4, AddressStep

-----------------------------------------------------------------------------

\* Signalling keeps the reset type of every event and timer.
LEMMA FireKeepsReset ==
    ASSUME Inv, NEW o \in Signaller, Fire(o)
    PROVE  \A p \in Signaller : signal'[p].reset = signal[p].reset
<1>1. signal \in [Signaller -> [reset : ResetType, signaled : BOOLEAN]]
    BY DEF Inv, TypeOK
<1>2. \E b \in BOOLEAN : signal' = [signal EXCEPT ![o].signaled = b]
    BY DEF Fire, SetSignaled
<1> QED
    BY <1>1, <1>2

\* A timer that has ticked is not due any more, or due again at once.
LEMMA TickedIsNotDue ==
    ASSUME Inv, panic = "none", TickOK, TickTimer
    PROVE  TickOK'
<1> SUFFICES ASSUME NEW o, o = TimerOrder[cursor] PROVE TickOK'
    OBVIOUS
<1> DEFINE Rearmed(p) == Due(p, tickTime) => IsPulse(p) /\ timer[p].interval = 0
<1>1. /\ cursor \in 1..Len(TimerOrder) /\ Len(TimerOrder) \in Nat /\ o \in Timer /\ o \in Signaller
      /\ cursor \in Nat
    BY TickedTimer
<1>2. /\ pc = "timers" /\ pc' = "timers" /\ cursor' = cursor + 1 /\ tickTime' = tickTime
      /\ TimerTick(o, tickTime)
    BY DEF TickTimer
<1>3. tickTime \in Int /\ timer \in [Timer -> [next : Int, interval : Int]] /\ tickTime >= 0
    BY KernelAssumption DEF Inv, TypeOK
<1>4. \A t \in Thread : ~Expired(t, tickTime)'
    <2>1. \A t \in Thread : thr'[t].state = "Waiting" => thr'[t] = thr[t]
        BY WakingSteps DEF OnlyWakes
    <2> QED
        BY <1>2, <2>1 DEF TickOK, Expired
<1>5. \A p \in Signaller : IsPulse(p)' = IsPulse(p)
    <2>1. Fire(o) \/ signal' = signal
        BY <1>2 DEF TimerTick
    <2> QED
        BY <1>1, <2>1, FireKeepsReset DEF IsPulse
<1>6. \A p \in Timer : p # o => timer'[p] = timer[p]
    BY <1>2, <1>3 DEF TimerTick
<1>7. Rearmed(o)'
    <2>1. CASE ~Due(o, tickTime)
        <3>1. timer' = timer
            BY <1>2, <2>1 DEF TimerTick
        <3> QED
            BY <1>2, <2>1, <3>1 DEF Due
    <2>2. CASE Due(o, tickTime) /\ IsPulse(o)
        <3>1. timer'[o] = [next |-> tickTime + timer[o].interval, interval |-> timer[o].interval]
            BY <1>1, <1>2, <1>3, <2>2 DEF TimerTick
        <3>2. /\ timer[o].interval \in Int /\ timer[o].interval >= 0
            BY <1>1, <1>3, <2>2 DEF Due
        <3>3. timer'[o].next = tickTime + timer[o].interval /\ timer'[o].interval = timer[o].interval
            BY <3>1
        <3>4. timer'[o].next <= tickTime => timer'[o].interval = 0
            BY <1>3, <3>2, <3>3
        <3> QED
            BY <1>1, <1>2, <1>5, <2>2, <3>4 DEF Due
    <2>3. CASE Due(o, tickTime) /\ ~IsPulse(o)
        <3>1. timer'[o] = Disarmed
            BY <1>1, <1>2, <1>3, <2>3 DEF TimerTick
        <3>2. timer'[o].next = -1
            BY <3>1 DEF Disarmed
        <3> QED
            BY <3>2 DEF Due
    <2> QED
        BY <2>1, <2>2, <2>3
<1>8. ASSUME NEW i \in 1..(cursor' - 1) PROVE Rearmed(TimerOrder[i])'
    <2>1. i = cursor \/ i \in 1..(cursor - 1)
        BY <1>1, <1>2
    <2>2. TimerOrder[i] \in Timer
        <3>1. i \in 1..Len(TimerOrder)
            BY <1>1, <1>2
        <3> QED
            BY <3>1, KernelAssumption
    <2>3. CASE TimerOrder[i] = o
        BY <1>7, <2>3
    <2>4. CASE TimerOrder[i] # o
        <3>1. Rearmed(TimerOrder[i]) /\ timer'[TimerOrder[i]] = timer[TimerOrder[i]]
            BY <1>2, <1>6, <2>1, <2>2, <2>4 DEF TickOK
        <3>2. TimerOrder[i] \in Signaller
            BY <2>2 DEF Signaller
        <3> QED
            BY <1>2, <1>5, <3>1, <3>2 DEF Due
    <2> QED
        BY <2>3, <2>4
<1> QED
    BY <1>2, <1>4, <1>8 DEF TickOK

\* tick_at has woken every thread whose timeout has passed before the timers tick.
LEMMA ExpiredAreWoken ==
    ASSUME Inv, TickOK, TickThreads
    PROVE  TickOK'
<1> DEFINE W == {t \in Thread : Expired(t, now)}
<1>1. Wakes(thr, queue, W, thr', queue')
    BY InvTypes, WakeExpiredStep DEF TickThreads
<1>2. /\ pc' = "timers" /\ tickTime' = now /\ cursor' = 1
    BY DEF TickThreads, TickOK
<1>3. ASSUME NEW t \in Thread PROVE ~Expired(t, tickTime)'
    <2>1. CASE t \in W
        <3>1. thr'[t].state = "Ready"
            BY <1>1, <2>1 DEF Wakes
        <3> QED
            BY <3>1 DEF Expired
    <2>2. CASE t \notin W
        <3>1. thr'[t] = thr[t] /\ ~Expired(t, now)
            BY <1>1, <2>2 DEF Wakes
        <3> QED
            BY <1>2, <3>1 DEF Expired
    <2> QED
        BY <2>1, <2>2
<1>4. 1..(cursor' - 1) = {}
    BY <1>2
<1> QED
    BY <1>2, <1>3, <1>4 DEF TickOK

\* Every step keeps TickOK.
LEMMA TickStep ==
    ASSUME Inv, TickOK, [Next]_vars
    PROVE  TickOK'
<1>1. CASE TickTimer /\ panic = "none"
    BY <1>1, TickedIsNotDue
<1>2. CASE TickThreads
    BY <1>2, ExpiredAreWoken
<1>3. CASE TimersDone
    BY <1>3 DEF TimersDone, TickOK
<1>4. CASE Activate \/ ClockTick \/ UNCHANGED vars
    <2>1. UNCHANGED <<thr, timer, signal, pc, cursor, tickTime>>
        BY <1>4 DEF Activate, ClockTick, vars, objVars, loopVars, tickVars
    <2> QED
        BY <2>1 DEF TickOK, Expired, Due, IsPulse
<1>5. ASSUME pc # "timers", pc' # "timers", cursor' = cursor PROVE TickOK'
    BY <1>5 DEF TickOK
<1>6. CASE RunNext \/ WaitNext \/ WaitDone \/ Reschedule \/ DrainInterrupt \/ DrainDone
    <2>1. pc # "timers" /\ cursor' = cursor
        BY <1>6 DEF RunNext, WaitNext, WaitDone, Reschedule, DrainInterrupt, DrainDone,
           loopVars, tickVars
    <2>2. pc' # "timers"
        BY <1>6 DEF RunNext, RunThread, WaitNext, WaitDone, Reschedule, DrainInterrupt, DrainDone
    <2> QED
        BY <1>5, <2>1, <2>2
<1>7. CASE Yield
    <2>1. pc = "slice" /\ cursor' = cursor
        BY <1>7 DEF Yield, WaitSync1, WaitSyncN, BeginWait, SuspendCurrent, SleepThread,
           CreateThread, ExitThread, ArbitrateWait, loopVars, tickVars
    <2>2. pc' \in {"wait", "resched"}
        BY <1>7 DEF Yield, WaitSync1, WaitSyncN, BeginWait, SleepThread, CreateThread, ExitThread,
           ArbitrateWait
    <2> QED
        BY <1>5, <2>1, <2>2
<1>8. CASE Svc /\ ~Yield
    <2>1. pc = "slice" /\ cursor' = cursor /\ pc' \in {"slice", "resched"}
        BY <1>8 DEF Svc, SignalEvent, ClearEvent, ReleaseMutex, SetTimer, CancelTimer,
           ArbitrateSignal, StoreWord, BindInterrupt, Continue, loopVars, tickVars
    <2> QED
        BY <1>5, <2>1
<1> QED
    BY <1>1, <1>2, <1>3, <1>4, <1>6, <1>7, <1>8 DEF Next, Loop

\* StepInv is an invariant of the kernel.
THEOREM StepInvariance == Spec => []StepInv
<1>1. Init => StepInv
    <2> SUFFICES ASSUME Init PROVE StepInv
        OBVIOUS
    <2>1. \A t \in Thread : thr[t].state # "Waiting"
        BY DEF Init, NewThread
    <2>2. \A a \in Address : queue[a] = <<>>
        BY SyncObjectsAssumption DEF Init
    <2>3. SleepKinds /\ ArbiterDistinct /\ TickOK
        BY <2>1, <2>2 DEF SleepKinds, ArbiterDistinct, TickOK, Init
    <2> QED
        BY <2>3, InitInv DEF StepInv
<1>2. StepInv /\ [Next]_vars => StepInv'
    BY NextInv, SleepKindsStep, ArbiterDistinctStep, TickStep DEF StepInv
<1> QED
    BY <1>1, <1>2, PTL DEF Spec

\* Every waiter of an address is served in the order of arrival: nobody leaves
\* the queue of an address while somebody who came earlier stays.
THEOREM ArbiterServesInOrder == Spec => ArbiterIsFifo
<1>1. StepInv /\ [Next]_vars =>
        [\A a \in Address : \A i, j \in 1..Len(queue[a]) :
            i < j /\ queue[a][i] \in Wakers(queue'[a]) => queue[a][j] \in Wakers(queue'[a])]_vars
    BY FifoStep DEF StepInv
<1> QED
    BY <1>1, StepInvariance, PTL DEF Spec, ArbiterIsFifo

\* Whenever tick_at is through, no sleeping thread's timeout has passed and no
\* timer is due but a pulse timer of interval 0.
THEOREM TickIsComplete == Spec => []TickLeavesNothingDue
<1>1. StepInv => TickLeavesNothingDue
    <2> SUFFICES ASSUME StepInv, pc = "timers", cursor > Len(TimerOrder)
                 PROVE  /\ \A t \in Thread : ~Expired(t, tickTime)
                        /\ \A o \in Timer : Due(o, tickTime) => IsPulse(o) /\ timer[o].interval = 0
        BY DEF TickLeavesNothingDue
    <2>1. Len(TimerOrder) \in Nat /\ cursor \in Nat
        <3>1. Len(TimerOrder) \in Nat
            BY KernelAssumption
        <3>2. cursor \in 1..(Len(TimerOrder) + 1)
            BY DEF StepInv, Inv, TypeOK
        <3> QED
            BY <3>1, <3>2
    <2>2. ASSUME NEW o \in Timer, Due(o, tickTime)
          PROVE  IsPulse(o) /\ timer[o].interval = 0
        <3>1. PICK i \in 1..Len(TimerOrder) : TimerOrder[i] = o
            BY TimerOrderAssumption
        <3>2. i \in 1..(cursor - 1)
            BY <2>1
        <3> QED
            BY <2>2, <3>1, <3>2 DEF StepInv, TickOK
    <2> QED
        BY <2>2 DEF StepInv, TickOK
<1> QED
    BY <1>1, StepInvariance, PTL

-----------------------------------------------------------------------------

\* What a wait takes from, by kind of object.
LEMMA StockCases ==
    /\ \A o \in Signaller : Stock(o) = signal[o].signaled
    /\ \A o \in Mutex : Stock(o) = holder[o]
    /\ \A o \in Thread : Stock(o) = dead[o]
    /\ \A o \in Signaller : Stock(o)' = signal'[o].signaled
    /\ \A o \in Mutex : Stock(o)' = holder'[o]
    /\ \A o \in Thread : Stock(o)' = dead'[o]
BY SyncObjectsAssumption DEF Stock, Signaller

\* The object whose stock a call of wait() changes is the one it is called on,
\* and the thread that waits is told so.
LEMMA TakesOneStep ==
    ASSUME Inv, [Next]_vars, pc = "wait", panic' = "none",
           NEW o \in Waitable, Stock(o)' # Stock(o)
    PROVE  /\ thr[current].state = "Waiting" /\ thr'[current].state = "Ready"
           /\ thr[current].waitType = "WaitSyncN" =>
                 thr'[current].resume.index = IndexOf(o, thr[current].waitObjects)
<1>1. CASE UNCHANGED <<signal, holder, dead>>
    BY <1>1, StockCases DEF Waitable
<1>2. CASE WaitNext
    <2>1. CASE ~(Available(Head(pending)) /\ Live(thr, waker))
        BY <1>1, <1>2, <2>1 DEF WaitNext, Wait, Enqueue, GiveBack
    <2>2. CASE Available(Head(pending)) /\ Live(thr, waker)
        <3> SUFFICES ASSUME NEW p, p = Head(pending)
                     PROVE  /\ thr[current].state = "Waiting" /\ thr'[current].state = "Ready"
                            /\ thr[current].waitType = "WaitSyncN" =>
                                  thr'[current].resume.index = IndexOf(o, thr[current].waitObjects)
            OBVIOUS
        <3>1. /\ current \in Thread /\ thr[current].state = "Waiting" /\ p \in Waitable
              /\ Grant(p, waker) /\ thr \in Table
              /\ thr' = [t \in Thread |-> IF t \in {current}
                            THEN Awake(thr[t], ResumeByObject(thr[t], p)) ELSE thr[t]]
            BY <1>2, <2>2, GrantStep, InvTypes
        <3>2. dead' = dead
            BY <1>2 DEF WaitNext, Wait
        <3>3. o = p
            <4>1. \A q \in Signaller : q # p => signal'[q] = signal[q]
                BY <3>1 DEF Grant, Inv, TypeOK
            <4>2. \A q \in Mutex : q # p => holder'[q] = holder[q]
                BY <3>1 DEF Grant, Inv, TypeOK
            <4> QED
                BY <3>2, <4>1, <4>2, StockCases DEF Waitable
        <3>4. thr'[current] = Awake(thr[current], ResumeByObject(thr[current], p))
            BY <3>1
        <3>5. thr'[current].state = "Ready" /\ thr'[current].resume = ResumeByObject(thr[current], p)
            BY <3>1, <3>4 DEF Awake, Table, CommonThread
        <3>6. ASSUME thr[current].waitType = "WaitSyncN"
              PROVE  ResumeByObject(thr[current], p) =
                        [kind |-> "WaitSyncN", index |-> IndexOf(p, thr[current].waitObjects)]
            BY <3>6, Zenon DEF ResumeByObject, IndexOf
        <3>7. \A k, n : [kind |-> k, index |-> n].index = n
            OBVIOUS
        <3> QED
            BY <3>1, <3>3, <3>5, <3>6, <3>7
    <2> QED
        BY <2>1, <2>2
<1>3. CASE WaitDone \/ Activate \/ ClockTick \/ UNCHANGED vars
    BY <1>1, <1>3 DEF WaitDone, Activate, ClockTick, vars, objVars
<1>4. ~(Loop \/ Svc) \/ WaitNext \/ WaitDone
    BY DEF Loop, RunNext, Reschedule, TickThreads, TickTimer, TimersDone, DrainInterrupt, DrainDone,
       Svc, Yield, WaitSync1, WaitSyncN, BeginWait, SuspendCurrent, SleepThread, CreateThread,
       ExitThread, ArbitrateWait, SignalEvent, ClearEvent, ReleaseMutex, SetTimer, CancelTimer,
       ArbitrateSignal, StoreWord, BindInterrupt, Continue
<1> QED
    BY <1>2, <1>3, <1>4 DEF Next

\* While a wait call is set up at most one object gives something away: the one
\* whose index WaitSynchronizationN returns, and to the thread that waits.
THEOREM WaitsTakeOne == Spec => WaitTakesOne
<1>1. Inv /\ [Next]_vars =>
        [pc = "wait" /\ panic' = "none" =>
            \A o \in Waitable : Stock(o)' # Stock(o) =>
                /\ thr[current].state = "Waiting" /\ thr'[current].state = "Ready"
                /\ thr[current].waitType = "WaitSyncN" =>
                      thr'[current].resume.index = IndexOf(o, thr[current].waitObjects)]_vars
    BY TakesOneStep
<1> QED
    BY <1>1, Invariance, PTL DEF Spec, WaitTakesOne

=============================================================================
