----------------------------- MODULE ThreadTable ----------------------------
(***************************************************************************)
(* CommonThread and CommonThreadManager of kernel/src/lib.rs: the kernel's *)
(* table of threads, how a thread goes to sleep on objects and how a waker *)
(* or a timeout wakes it up.                                               *)
(*                                                                         *)
(* wake_up takes the woken thread out of the waker queue of every object   *)
(* it was waiting for, so the queues of the objects are part of this       *)
(* module's state.  The operators below are functions of a thread table th *)
(* and of the queues qs, since one system call may apply several of them.  *)
(***************************************************************************)
EXTENDS WakerQueue

CONSTANTS
    MaxThreads,   \* bound on the number of threads ever created
    Object,       \* the kernel objects that keep a queue of wakers
    MaxKey        \* bound on wake_key (a wrapping u64 in the code)

ASSUME ThreadTableAssumption ==
    /\ MaxThreads \in Nat \ {0}
    /\ MaxKey \in Nat

\* ThreadIndex: threads are numbered in the order they are created.
Thread == 0 .. MaxThreads - 1

VARIABLES
    thr,          \* CommonThreadManager.threads
    queue,        \* waker_queue of every object
    panic         \* the panic that ended the emulator, or "none"

NoThread == -1
NoTimeout == -1                      \* None of Option<u64>
Waker == [thread : Thread, key : 0..MaxKey]
NoWaker == [thread |-> NoThread, key |-> 0]

\* ThreadState (Paused is never entered) and, for a thread that new_thread
\* has not yet pushed to the table, "Absent".
ThreadState == {"Absent", "Ready", "Running", "Waiting", "Done"}
ThreadWaitType == {"None", "WaitSync1", "WaitSyncN", "Arbiter", "Sleep"}
ThreadResume == [kind : {"Normal", "TimeoutReached", "WaitSyncN"}, index : Nat]
Normal == [kind |-> "Normal", index |-> 0]

CommonThread ==
    [state : ThreadState, waitObjects : Seq(Object), wakeKey : 0..MaxKey,
     waitTimeout : Int, waitType : ThreadWaitType, resume : ThreadResume]

\* CommonThread::new, and the slot of a thread not created yet.
NewThread(st) ==
    [state |-> st, waitObjects |-> <<>>, wakeKey |-> 0,
     waitTimeout |-> NoTimeout, waitType |-> "None", resume |-> Normal]

Objects(th, t) == {th[t].waitObjects[i] : i \in 1..Len(th[t].waitObjects)}

-----------------------------------------------------------------------------
(* Going to sleep *)

\* KernelExt::suspend_thread with CommonThread::wait.
Suspend(th, t, objects, timeout, type) ==
    [th EXCEPT ![t].state = "Waiting", ![t].waitObjects = objects,
               ![t].waitTimeout = timeout, ![t].waitType = type]

\* The waker that suspend_thread returns.
WakerOf(th, t) == [thread |-> t, key |-> th[t].wakeKey]

-----------------------------------------------------------------------------
(* Waking up *)

\* Fault: wake_up_thread does not compare keys.
LiveAnyKey(th, w) == w.thread \in Thread

\* The check of wake_up_thread: is the waker's key the thread's current one?
Live(th, w) == th[w.thread].wakeKey = w.key

\* What a woken thread's resume field says: for WaitSyncN the index of the
\* first of its objects that is o.
ResumeByObject(ct, o) ==
    IF ct.waitType = "WaitSyncN"
    THEN [kind |-> "WaitSyncN",
          index |-> CHOOSE i \in 1..Len(ct.waitObjects) :
                        /\ ct.waitObjects[i] = o
                        /\ \A j \in 1..(i - 1) : ct.waitObjects[j] # o]
    ELSE Normal

ResumeByTimeout(ct) ==
    IF ct.waitType = "Sleep" THEN Normal
                             ELSE [kind |-> "TimeoutReached", index |-> 0]

\* The rest of CommonThread::wake_up on the thread's own record.
Awake(ct, resume) ==
    [ct EXCEPT !.state = "Ready", !.wakeKey = @ + 1,
               !.waitObjects = <<>>, !.resume = resume]

\* Fault: a woken thread's wakers stay in the queues.
PurgeNothing(th, qs, W) == qs

\* remove_wakers_by_opaque_id on every object that a thread of W waits for.
Purge(th, qs, W) ==
    [o \in Object |-> Without(qs[o], {t \in W : o \in Objects(th, t)})]

\* wake_up reaches a panic: no wait type, an object waking a sleeper, or an
\* object that the thread did not ask WaitSyncN for.
WakeFails(ct, o) ==
    \/ ct.waitType \in {"None", "Sleep"}
    \/ ct.waitType = "WaitSyncN" /\ \A i \in 1..Len(ct.waitObjects) : ct.waitObjects[i] # o

\* Every thread of W is woken by object o.
WakeByObject(th, qs, W, o) ==
    IF \E t \in W : WakeFails(th[t], o)
    THEN panic' = "wake_up" /\ UNCHANGED <<thr, queue>>
    ELSE /\ thr' = [t \in Thread |-> IF t \in W THEN Awake(th[t], ResumeByObject(th[t], o))
                                                ELSE th[t]]
         /\ queue' = Purge(th, qs, W)
         /\ UNCHANGED panic

\* Fault: tick_at looks at the timeout of threads that do not wait any more.
ExpiredAnyState(t, time) == thr[t].waitTimeout # NoTimeout /\ thr[t].waitTimeout <= time

\* CommonThreadManager::tick_at.
Expired(t, time) ==
    /\ thr[t].state = "Waiting"
    /\ thr[t].waitTimeout # NoTimeout
    /\ thr[t].waitTimeout <= time

\* Fault: a timeout leaves the thread's wakers in the queues.
WakeExpiredNoPurge(time) ==
    /\ thr' = [t \in Thread |-> IF Expired(t, time) THEN Awake(thr[t], ResumeByTimeout(thr[t]))
                                                    ELSE thr[t]]
    /\ UNCHANGED <<queue, panic>>

WakeExpired(time) ==
    LET W == {t \in Thread : Expired(t, time)}
    IN  IF \E t \in W : thr[t].waitType = "None"
        THEN panic' = "wake_up" /\ UNCHANGED <<thr, queue>>
        ELSE /\ thr' = [t \in Thread |-> IF t \in W THEN Awake(thr[t], ResumeByTimeout(thr[t]))
                                                    ELSE thr[t]]
             /\ queue' = Purge(thr, queue, W)
             /\ UNCHANGED panic

\* The threads that the wakers in q can still wake.
LiveThreads(th, q) == {t \in Thread : WakerOf(th, t) \in Wakers(q)}

-----------------------------------------------------------------------------
(* What is always true of the table th and the queues qs *)

\* What is true of a sleeping thread's record.
SleepersOK(th) ==
    \A t \in Thread : th[t].state = "Waiting" =>
        /\ th[t].wakeKey < MaxKey
        /\ th[t].waitType # "None"
        /\ th[t].waitType = "Sleep" => th[t].waitObjects = <<>>

\* No waker is ahead of its thread's key, and one that can still wake its thread
\* belongs to the wait the thread is in now.
WakersOK(th, qs) ==
    \A o \in Object : \A w \in Wakers(qs[o]) :
        /\ w.key <= th[w.thread].wakeKey
        /\ Live(th, w) => th[w.thread].state = "Waiting" /\ o \in Objects(th, w.thread)

=============================================================================
