----------------------------- MODULE SyncObjects ----------------------------
(***************************************************************************)
(* The waitable objects of hle/src: events (event.rs), mutexes (mutex.rs), *)
(* timers (timer.rs) and thread objects (ThreadImpl in thread.rs), with    *)
(* the Signal of kernel/src/lib.rs that events and timers are built on.    *)
(*                                                                         *)
(* Each operator is one method: it fixes thr', queue', panic' and the      *)
(* primed state of its object.  Where the code calls                       *)
(*     waker.wake(..).expect("Failed to wake up thread")                   *)
(* the operator records the panic "stale waker" when the waker is dead.    *)
(***************************************************************************)
EXTENDS ThreadTable

CONSTANTS
    Event,        \* the event objects
    Mutex,        \* the mutex objects
    Timer,        \* the timer objects
    Address       \* the address arbiter's queues, see AddressArbiter

\* A thread id stands also for the thread's KThread object.
ASSUME SyncObjectsAssumption ==
    /\ Object = Event \cup Mutex \cup Timer \cup Address \cup Thread
    /\ Event \cap Mutex = {} /\ Event \cap Timer = {} /\ Mutex \cap Timer = {}
    /\ Address \cap (Event \cup Mutex \cup Timer) = {}
    /\ (Event \cup Mutex \cup Timer \cup Address) \cap Thread = {}

VARIABLES
    signal,       \* Signal of every event and timer
    timer,        \* TimerImplData of every timer
    acquired,     \* MutexImpl.acquired
    dead,         \* ThreadImpl.dead
    holder        \* history variable: the thread a mutex was last given to

ResetType == {"OneShot", "Sticky", "Pulse"}
Signaller == Event \cup Timer

\* The objects that are a KSynchronizationObject.
Waitable == Signaller \cup Mutex \cup Thread

\* Signal::new and TimerImpl::new.
NewSignal(type) == [reset |-> type, signaled |-> FALSE]
Disarmed == [next |-> -1, interval |-> -1]

IsSticky(o) == signal[o].reset = "Sticky"
IsPulse(o) == signal[o].reset = "Pulse"

-----------------------------------------------------------------------------
(* KSynchronizationObject::wait *)

\* Would a wait on o succeed at once?
Available(o) ==
    CASE o \in Signaller -> signal[o].signaled
      [] o \in Mutex     -> ~acquired[o]
      [] o \in Thread    -> dead[o]

\* The waker goes to the back of the queue.
Enqueue(o, w) ==
    /\ queue' = [queue EXCEPT ![o] = Append(@, w)]
    /\ UNCHANGED <<thr, panic, signal, acquired, holder>>

\* The wait succeeds: a one-shot or pulse signal is consumed, a mutex becomes
\* acquired, a sticky signal and a dead thread stay as they are.
Grant(o, w) ==
    /\ WakeByObject(thr, queue, {w.thread}, o)
    /\ signal' = IF o \in Signaller /\ ~IsSticky(o)
                 THEN [signal EXCEPT ![o].signaled = FALSE] ELSE signal
    /\ acquired' = IF o \in Mutex THEN [acquired EXCEPT ![o] = TRUE] ELSE acquired
    /\ holder' = IF o \in Mutex THEN [holder EXCEPT ![o] = w.thread] ELSE holder

\* Fault: a wait on behalf of a thread that is awake keeps what it took.
GiveBackNothing(o) ==
    /\ signal' = IF o \in Signaller /\ ~IsSticky(o)
                 THEN [signal EXCEPT ![o].signaled = FALSE] ELSE signal
    /\ acquired' = IF o \in Mutex THEN [acquired EXCEPT ![o] = TRUE] ELSE acquired
    /\ UNCHANGED <<thr, queue, panic, holder>>

\* The waker is already spent: unconsume() and acquired.set(false) put back
\* what the wait had taken.
GiveBack(o) == UNCHANGED <<thr, queue, panic, signal, acquired, holder>>

Wait(o, w) ==
    /\ IF ~Available(o) THEN Enqueue(o, w)
       ELSE IF Live(thr, w) THEN Grant(o, w)
       ELSE GiveBack(o)
    /\ UNCHANGED <<timer, dead>>

-----------------------------------------------------------------------------
(* Signalling *)

\* wake(..).expect(..) on the waker at the front of o's queue.
WakeFirst(o) ==
    LET w == Head(queue[o])
    IN  IF Live(thr, w) THEN WakeByObject(thr, queue, {w.thread}, o)
        ELSE panic' = "stale waker" /\ UNCHANGED <<thr, queue>>

\* The queue is taken and every waker tried; wakers that fail are dropped.
WakeAll(th, o) ==
    WakeByObject(th, [queue EXCEPT ![o] = <<>>], LiveThreads(th, queue[o]), o)

SetSignaled(o, b) == signal' = [signal EXCEPT ![o].signaled = b]

\* Fault: signal() leaves the object signalled after it has woken a waiter.
FireAndStay(o) ==
    /\ SetSignaled(o, TRUE)
    /\ \/ IsSticky(o) /\ WakeAll(thr, o)
       \/ ~IsSticky(o) /\ queue[o] = <<>> /\ UNCHANGED <<thr, queue, panic>>
       \/ ~IsSticky(o) /\ queue[o] # <<>> /\ WakeFirst(o)

\* EventImpl::signal, and the second half of TimerImpl::tick.
Fire(o) ==
    \/ /\ IsSticky(o)
       /\ WakeAll(thr, o)
       /\ SetSignaled(o, TRUE)
    \/ /\ ~IsSticky(o)
       /\ queue[o] = <<>>
       /\ SetSignaled(o, TRUE)
       /\ UNCHANGED <<thr, queue, panic>>
    \/ /\ ~IsSticky(o)
       /\ queue[o] # <<>>
       /\ WakeFirst(o)
       /\ SetSignaled(o, FALSE)

EventSignal(e) == Fire(e) /\ UNCHANGED <<timer, acquired, dead, holder>>

EventClear(e) ==
    /\ SetSignaled(e, FALSE)
    /\ UNCHANGED <<thr, queue, panic, timer, acquired, dead, holder>>

\* MutexImpl::release: hand the mutex to the first waiter, else unlock it.
\* Nothing checks that the caller is the one that acquired it.
MutexRelease(m) ==
    /\ \/ /\ queue[m] = <<>>
          /\ acquired' = [acquired EXCEPT ![m] = FALSE]
          /\ holder' = [holder EXCEPT ![m] = NoThread]
          /\ UNCHANGED <<thr, queue, panic>>
       \/ /\ queue[m] # <<>>
          /\ WakeFirst(m)
          /\ holder' = [holder EXCEPT ![m] = Head(queue[m]).thread]
          /\ UNCHANGED acquired
    /\ UNCHANGED <<signal, timer, dead>>

TimerSet(o, initial, interval) ==
    /\ timer' = [timer EXCEPT ![o] = [next |-> initial, interval |-> interval]]
    /\ UNCHANGED <<thr, queue, panic, signal, acquired, dead, holder>>

TimerCancel(o) == TimerSet(o, -1, -1)

\* TimerImplData::valid, and the condition of TimerImpl::tick.
Due(o, time) ==
    /\ timer[o].next >= 0 /\ timer[o].interval >= 0
    /\ timer[o].next <= time

\* Fault: a timer that fires signals itself without waking anybody.
TimerTickWakesNobody(o, time) ==
    /\ \/ /\ Due(o, time)
          /\ SetSignaled(o, TRUE)
          /\ timer' = [timer EXCEPT ![o] = Disarmed]
       \/ ~Due(o, time) /\ UNCHANGED <<signal, timer>>
    /\ UNCHANGED <<thr, queue, panic, acquired, dead, holder>>

\* Fault: a pulse timer is set again from when it was due, not from now.
TimerTickFromDue(o, time) ==
    /\ \/ /\ Due(o, time)
          /\ Fire(o)
          /\ timer' = [timer EXCEPT ![o] = IF IsPulse(o)
                          THEN [next |-> @.next + @.interval, interval |-> @.interval]
                          ELSE Disarmed]
       \/ /\ ~Due(o, time)
          /\ UNCHANGED <<thr, queue, panic, signal, timer>>
    /\ UNCHANGED <<acquired, dead, holder>>

TimerTick(o, time) ==
    /\ \/ /\ Due(o, time)
          /\ Fire(o)
          /\ timer' = [timer EXCEPT ![o] = IF IsPulse(o)
                          THEN [next |-> time + @.interval, interval |-> @.interval]
                          ELSE Disarmed]
       \/ /\ ~Due(o, time)
          /\ UNCHANGED <<thr, queue, panic, signal, timer>>
    /\ UNCHANGED <<acquired, dead, holder>>

\* exit_thread with ThreadImpl::on_death.
ThreadExit(t) ==
    LET th == [thr EXCEPT ![t].state = "Done"]
    IN  /\ \/ ~dead[t] /\ WakeAll(th, t)
           \/ dead[t] /\ thr' = th /\ UNCHANGED <<queue, panic>>
        /\ dead' = [dead EXCEPT ![t] = TRUE]
        /\ UNCHANGED <<signal, timer, acquired, holder>>

=============================================================================
