--------------------------- MODULE KernelInvariant --------------------------
(***************************************************************************)
(* The inductive invariant behind Kernel's safety properties.  Its parts   *)
(* about the thread table and the queues are those of ThreadTable.         *)
(***************************************************************************)
EXTENDS Kernel

\* The scheduler's view of the table.
SchedulerOK ==
    /\ current # NoThread <=> pc \in {"slice", "wait", "resched"}
    /\ pc = "slice" => thr[current].state = "Running"
    /\ next # NoThread => thr[next].state = "Ready"
    /\ \A t \in Thread : t >= nextTid => thr[t].state = "Absent" /\ thr[t].wakeKey = 0

\* The wait call being set up: its waker is good as long as the thread waits.
PendingOK ==
    /\ pc # "wait" => pending = <<>>
    /\ \A i \in 1..Len(pending) : pending[i] \in Waitable
    /\ pc = "wait" =>
        /\ waker \in Waker
        /\ waker.thread = current
        /\ waker.key <= thr[current].wakeKey
        /\ Live(thr, waker) <=> thr[current].state = "Waiting"
        /\ Live(thr, waker) => \A i \in 1..Len(pending) : pending[i] \in Objects(thr, current)

\* With single waits every queued waker can still wake its thread.
SingleWaitsOK ==
    SingleWaits =>
        /\ panic = "none"
        /\ \A o \in Object : \A w \in Wakers(queue[o]) : Live(thr, w)
        /\ pending # <<>> => Len(pending) = 1 /\ Live(thr, waker)

\* A thread waits for one address at a time, so the wakers in an arbiter's queue
\* are live whatever programs do with WaitSyncN.
ArbiterOK == \A a \in Address : \A w \in Wakers(queue[a]) : Live(thr, w)

Inv ==
    /\ TypeOK
    /\ SleepersOK(thr)
    /\ WakersOK(thr, queue)
    /\ SchedulerOK
    /\ PendingOK
    /\ OnlyStaleWakersPanic
    /\ AvailableHasNoWaiters
    /\ WaitingIsQueued
    /\ AcquiredIsHeld
    /\ SingleWaitsOK
    /\ ArbiterOK

\* A thread sleeps on one address for as long as it takes, or on waitable objects.
SleepKinds ==
    \A t \in Thread : thr[t].state = "Waiting" =>
        IF thr[t].waitType = "Arbiter"
        THEN thr[t].waitTimeout = NoTimeout /\ \E a \in Address : thr[t].waitObjects = <<a>>
        ELSE Objects(thr, t) \subseteq Waitable

\* A thread is once, at most, in the queue of an address.
ArbiterDistinct ==
    \A a \in Address : \A i, j \in 1..Len(queue[a]) :
        queue[a][i].thread = queue[a][j].thread => i = j

\* tick_at starts with the first timer and leaves nothing due behind the cursor.
TickOK ==
    /\ pc # "timers" => cursor = 1
    /\ pc = "timers" =>
        /\ \A t \in Thread : ~Expired(t, tickTime)
        /\ \A i \in 1..(cursor - 1) :
              Due(TimerOrder[i], tickTime) =>
                  IsPulse(TimerOrder[i]) /\ timer[TimerOrder[i]].interval = 0

\* What the properties of single steps need beyond Inv.
StepInv == Inv /\ SleepKinds /\ ArbiterDistinct /\ TickOK

=============================================================================
