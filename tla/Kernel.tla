------------------------------- MODULE Kernel -------------------------------
(***************************************************************************)
(* The kernel of the emulator: the main loop of cli/src/main.rs            *)
(*                                                                         *)
(*     loop { kctx.run_next(); kctx.tick(); }                              *)
(*                                                                         *)
(* with KernelImpl::run_next, run_thread and tick of kernel/src/lib.rs,    *)
(* and the system calls that a running thread makes (hle/src/svc.rs and    *)
(* guest/src/lib.rs, handle_svc).                                          *)
(*                                                                         *)
(* Scheduling is cooperative and everything in the kernel happens on one   *)
(* host thread; pc says where that thread is.  Only the host clock and the *)
(* host threads that wait for interrupts run concurrently with it.         *)
(* A panic ends the emulator: no action is enabled after it.               *)
(***************************************************************************)
EXTENDS AddressArbiter

CONSTANTS
    InitThreads,  \* the threads the emulator boots with
    TimerOrder,   \* the timers in the order they were created
    WaitLists,    \* the object lists that programs pass to WaitSynchronizationN
    Timeouts,     \* the timeouts, in ns, that programs pass (negative: forever)
    TimerArgs,    \* the <<initial, interval>> pairs passed to SetTimer
    Interrupt,    \* interrupt names
    MaxTime,      \* bound on the host clock
    MaxActive     \* bound on interrupts raised and not yet drained

ASSUME KernelAssumption ==
    /\ InitThreads \in 1..MaxThreads
    /\ TimerOrder \in Seq(Timer)
    /\ WaitLists \subseteq Seq(Waitable)
    /\ Timeouts \subseteq Int
    /\ TimerArgs \subseteq Int \X Int
    /\ MaxTime \in Nat
    /\ MaxActive \in Nat

\* The object table holds every timer.
ASSUME TimerOrderAssumption ==
    \A o \in Timer : \E i \in 1..Len(TimerOrder) : TimerOrder[i] = o

NoEvent == "no event"
ASSUME NoEventAssumption == NoEvent \notin Event

VARIABLES
    pc,           \* where the kernel's host thread is, see PC
    current,      \* exec_info.current
    next,         \* exec_info.next
    nextTid,      \* next_tid
    waker,        \* the waker of the wait being set up
    pending,      \* the objects whose wait() is still to be called
    now,          \* the host clock
    tickTime,     \* the time that tick() read
    cursor,       \* position in TimerOrder during tick_at
    interrupts,   \* the event bound to every interrupt
    active        \* ActiveInterrupts

objVars == <<signal, timer, acquired, dead, holder, mem>>
waitVars == <<waker, pending>>
tickVars == <<tickTime, cursor>>
irqVars == <<interrupts, active>>
vars == <<thr, queue, panic, objVars, pc, current, next, nextTid, waitVars,
          now, tickVars, irqVars>>

PC == {"run_next",    \* about to call run_next
       "slice",       \* the current thread is running
       "wait",        \* a wait call is registering its waker
       "resched",     \* the thread has given up its slice
       "tick",        \* about to call tick
       "timers",      \* in tick_at, going through the timers
       "drain"}       \* draining the active interrupts, with their lock held

TypeOK ==
    /\ thr \in [Thread -> CommonThread]
    /\ queue \in [Object -> Seq(Waker)]
    /\ panic \in {"none", "stale waker", "wake_up", "run_thread", "arbiter"}
    /\ signal \in [Signaller -> [reset : ResetType, signaled : BOOLEAN]]
    /\ timer \in [Timer -> [next : Int, interval : Int]]
    /\ acquired \in [Mutex -> BOOLEAN]
    /\ dead \in [Thread -> BOOLEAN]
    /\ holder \in [Mutex -> Thread \cup {NoThread}]
    /\ mem \in [Address -> Word]
    /\ pc \in PC
    /\ current \in Thread \cup {NoThread}
    /\ next \in Thread \cup {NoThread}
    /\ nextTid \in 1..MaxThreads
    /\ waker \in Waker \cup {NoWaker}
    /\ pending \in Seq(Object)
    /\ now \in 0..MaxTime
    /\ tickTime \in 0..MaxTime
    /\ cursor \in 1..(Len(TimerOrder) + 1)
    /\ interrupts \in [Interrupt -> Event \cup {NoEvent}]
    /\ active \in Seq(Interrupt)

\* The boot state: the services' threads are ready, the objects exist and
\* nobody waits.  A mutex created locked is held by thread 0, its creator.
Init ==
    /\ thr = [t \in Thread |-> NewThread(IF t < InitThreads THEN "Ready" ELSE "Absent")]
    /\ queue = [o \in Object |-> <<>>]
    /\ panic = "none"
    /\ signal \in [Signaller -> {NewSignal(r) : r \in ResetType}]
    /\ timer = [o \in Timer |-> Disarmed]
    /\ acquired \in [Mutex -> BOOLEAN]
    /\ dead = [t \in Thread |-> FALSE]
    /\ holder = [m \in Mutex |-> IF acquired[m] THEN 0 ELSE NoThread]
    /\ mem = [a \in Address |-> 0]
    /\ pc = "run_next"
    /\ current = NoThread
    /\ next = NoThread
    /\ nextTid = InitThreads
    /\ waker = NoWaker
    /\ pending = <<>>
    /\ now = 0
    /\ tickTime = 0
    /\ cursor = 1
    /\ interrupts = [i \in Interrupt |-> NoEvent]
    /\ active = <<>>

-----------------------------------------------------------------------------
(* run_next and run_thread *)

ReadyThreads == {t \in Thread : thr[t].state = "Ready"}

\* CommonThreadManager::next_thread: the first ready thread of the table.
NextThread == CHOOSE t \in ReadyThreads : \A u \in ReadyThreads : t <= u

\* run_thread up to the call of the thread's resume.
RunThread(t) ==
    IF thr[t].state # "Ready"
    THEN panic' = "run_thread" /\ UNCHANGED <<thr, pc, current>>
    ELSE /\ thr' = [thr EXCEPT ![t].state = "Running", ![t].resume = Normal]
         /\ current' = t
         /\ pc' = "slice"
         /\ UNCHANGED panic

\* Fault: run_next waits for a thread to become ready, so that tick is not called.
RunNextBlocks ==
    /\ pc = "run_next"
    /\ \/ next # NoThread /\ RunThread(next)
       \/ next = NoThread /\ ReadyThreads # {} /\ RunThread(NextThread)
    /\ next' = NoThread
    /\ UNCHANGED <<queue, objVars, nextTid, waitVars, now, tickVars, irqVars>>

RunNext ==
    /\ pc = "run_next"
    /\ \/ next # NoThread /\ RunThread(next)
       \/ next = NoThread /\ ReadyThreads # {} /\ RunThread(NextThread)
       \/ next = NoThread /\ ReadyThreads = {} /\ pc' = "tick" /\ UNCHANGED <<thr, panic, current>>
    /\ next' = NoThread
    /\ UNCHANGED <<queue, objVars, nextTid, waitVars, now, tickVars, irqVars>>

\* run_thread after the thread's resume has returned.
Reschedule ==
    /\ pc = "resched"
    /\ thr' = IF thr[current].state = "Running"
              THEN [thr EXCEPT ![current].state = "Ready"] ELSE thr
    /\ current' = NoThread
    /\ pc' = "tick"
    /\ UNCHANGED <<queue, panic, objVars, next, nextTid, waitVars, now, tickVars, irqVars>>

-----------------------------------------------------------------------------
(* System calls of the current thread *)

loopVars == <<current, next, nextTid, now, tickVars>>

\* The objects that exist, so that a handle to them can.
Created(o) == o \in Thread => o < nextTid

\* make_timeout and Timeout::absolute.
Absolute(ns) == IF ns < 0 THEN NoTimeout ELSE now + ns

\* suspend_thread for the current thread (its assertion holds: the thread is
\* Running for as long as it has its slice).
SuspendCurrent(objects, ns, type) ==
    /\ pc = "slice"
    /\ thr[current].wakeKey < MaxKey
    /\ Absolute(ns) <= MaxTime
    /\ thr' = Suspend(thr, current, objects, Absolute(ns), type)
    /\ UNCHANGED <<panic, signal, timer, acquired, dead, holder, loopVars, irqVars>>

BeginWait(objects, ns, type) ==
    /\ \A i \in 1..Len(objects) : Created(objects[i])
    /\ SuspendCurrent(objects, ns, type)
    /\ UNCHANGED <<queue, mem>>
    /\ waker' = WakerOf(thr, current)
    /\ pending' = objects
    /\ pc' = "wait"

\* WaitSynchronization1 and WaitSynchronizationN suspend the thread, and then
\* call wait on each object in turn with the same waker.
WaitSync1 == \E o \in Waitable, ns \in Timeouts : BeginWait(<<o>>, ns, "WaitSync1")
WaitSyncN == \E l \in WaitLists, ns \in Timeouts : BeginWait(l, ns, "WaitSyncN")

\* Fault: the loop over the objects ends after the first.
WaitNextBreaks ==
    /\ pc = "wait"
    /\ pending # <<>>
    /\ Wait(Head(pending), waker)
    /\ pending' = <<>>
    /\ UNCHANGED <<pc, waker, mem, loopVars, irqVars>>

WaitNext ==
    /\ pc = "wait"
    /\ pending # <<>>
    /\ Wait(Head(pending), waker)
    /\ pending' = Tail(pending)
    /\ UNCHANGED <<pc, waker, mem, loopVars, irqVars>>

WaitDone ==
    /\ pc = "wait"
    /\ pending = <<>>
    /\ pc' = "resched"
    /\ waker' = NoWaker
    /\ UNCHANGED <<thr, queue, panic, objVars, pending, loopVars, irqVars>>

SleepThread ==
    /\ \E ns \in Timeouts : SuspendCurrent(<<>>, ns, "Sleep")
    /\ pc' = "resched"
    /\ UNCHANGED <<queue, mem, waitVars>>

\* Fault: next_tid is incremented before it is used.
CreateThreadSkips ==
    /\ pc = "slice"
    /\ nextTid < MaxThreads
    /\ thr' = [thr EXCEPT ![nextTid] = NewThread("Ready")]
    /\ nextTid' = nextTid + 1
    /\ next' = nextTid + 1
    /\ pc' = "resched"
    /\ UNCHANGED <<queue, panic, objVars, current, waitVars, now, tickVars, irqVars>>

\* CreateThread: the new thread is the next to run.
CreateThread ==
    /\ pc = "slice"
    /\ nextTid < MaxThreads
    /\ thr' = [thr EXCEPT ![nextTid] = NewThread("Ready")]
    /\ nextTid' = nextTid + 1
    /\ next' = nextTid
    /\ pc' = "resched"
    /\ UNCHANGED <<queue, panic, objVars, current, waitVars, now, tickVars, irqVars>>

ExitThread ==
    /\ pc = "slice"
    /\ ThreadExit(current)
    /\ pc' = "resched"
    /\ UNCHANGED <<mem, loopVars, waitVars, irqVars>>

\* A guest's SignalEvent reschedules, an HLE service's does not.
SignalEvent ==
    /\ pc = "slice"
    /\ \E e \in Event : EventSignal(e)
    /\ pc' \in {"slice", "resched"}
    /\ UNCHANGED <<mem, loopVars, waitVars, irqVars>>

\* The calls that return to the thread without rescheduling.
Continue ==
    /\ pc = "slice"
    /\ UNCHANGED <<pc, loopVars, waitVars>>

ClearEvent == Continue /\ UNCHANGED <<mem, irqVars>> /\ \E e \in Event : EventClear(e)

ReleaseMutex == Continue /\ UNCHANGED <<mem, irqVars>> /\ \E m \in Mutex : MutexRelease(m)

SetTimer ==
    /\ Continue /\ UNCHANGED <<mem, irqVars>>
    /\ \E o \in Timer, a \in TimerArgs : TimerSet(o, a[1], a[2])

CancelTimer == Continue /\ UNCHANGED <<mem, irqVars>> /\ \E o \in Timer : TimerCancel(o)

\* ArbitrateAddress with ArbitrationType::Signal.
ArbitrateSignal ==
    /\ Continue
    /\ \E a \in Address, amount \in Word : ArbiterSignal(a, amount)
    /\ UNCHANGED <<objVars, irqVars>>

\* ArbitrateAddress with (DecrementAnd)WaitIfLessThan when the word is less than
\* the value passed; when it is not, the call changes nothing.
ArbitrateWait ==
    /\ \E a \in Address, value \in Word, decrement \in BOOLEAN :
          /\ mem[a] < value
          /\ mem' = IF decrement THEN [mem EXCEPT ![a] = WrappingDec(@)] ELSE mem
          /\ SuspendCurrent(<<a>>, -1, "Arbiter")
          /\ ArbiterWait(a, WakerOf(thr, current))
    /\ pc' = "resched"
    /\ UNCHANGED waitVars

\* The guest writes to its memory (external: the guest program).
StoreWord ==
    /\ Continue
    /\ \E a \in Address, v \in Word : mem' = [mem EXCEPT ![a] = v]
    /\ UNCHANGED <<thr, queue, panic, signal, timer, acquired, dead, holder, irqVars>>

\* bind_interrupt; a host thread that waits for the interrupt is started too,
\* see Activate.  UnbindInterrupt changes nothing.
BindInterrupt ==
    /\ Continue
    /\ \E i \in Interrupt, e \in Event : interrupts' = [interrupts EXCEPT ![i] = e]
    /\ UNCHANGED <<thr, queue, panic, objVars, active>>

-----------------------------------------------------------------------------
(* tick *)

\* tick reads the clock once, and tick_at first wakes the threads whose
\* timeout has passed.
TickThreads ==
    /\ pc = "tick"
    /\ WakeExpired(now)
    /\ tickTime' = now
    /\ pc' = "timers"
    /\ UNCHANGED <<objVars, current, next, nextTid, waitVars, now, cursor, irqVars>>

\* Then every timer ticks, in the order of the object table.
TickTimer ==
    /\ pc = "timers"
    /\ cursor <= Len(TimerOrder)
    /\ TimerTick(TimerOrder[cursor], tickTime)
    /\ cursor' = cursor + 1
    /\ UNCHANGED <<mem, pc, current, next, nextTid, waitVars, now, tickTime, irqVars>>

\* Then the lock on the active interrupts is taken ...
TimersDone ==
    /\ pc = "timers"
    /\ cursor > Len(TimerOrder)
    /\ pc' = "drain"
    /\ tickTime' = 0
    /\ cursor' = 1
    /\ UNCHANGED <<thr, queue, panic, objVars, current, next, nextTid, now, waitVars, irqVars>>

\* Fault: the active interrupts are read and not removed.
DrainInterruptKeeps ==
    /\ pc = "drain"
    /\ active # <<>>
    /\ LET e == interrupts[Head(active)]
       IN  \/ e # NoEvent /\ EventSignal(e) /\ UNCHANGED mem
           \/ e = NoEvent /\ UNCHANGED <<thr, queue, panic, objVars>>
    /\ pc' = "run_next"
    /\ UNCHANGED <<active, loopVars, waitVars, interrupts>>

\* ... and the event bound to each of them is signalled.
DrainInterrupt ==
    /\ pc = "drain"
    /\ active # <<>>
    /\ LET e == interrupts[Head(active)]
       IN  \/ e # NoEvent /\ EventSignal(e) /\ UNCHANGED mem
           \/ e = NoEvent /\ UNCHANGED <<thr, queue, panic, objVars>>
    /\ active' = Tail(active)
    /\ UNCHANGED <<pc, loopVars, waitVars, interrupts>>

DrainDone ==
    /\ pc = "drain"
    /\ active = <<>>
    /\ pc' = "run_next"
    /\ UNCHANGED <<thr, queue, panic, objVars, loopVars, waitVars, irqVars>>

-----------------------------------------------------------------------------
(* The host *)

\* ActiveInterrupts::activate, from the host thread that BindInterrupt made.
Activate ==
    /\ pc # "drain"
    /\ Len(active) < MaxActive
    /\ \E i \in Interrupt : interrupts[i] # NoEvent /\ active' = Append(active, i)
    /\ UNCHANGED <<thr, queue, panic, objVars, pc, loopVars, waitVars, interrupts>>

ClockTick ==
    /\ now < MaxTime
    /\ now' = now + 1
    /\ UNCHANGED <<thr, queue, panic, objVars, pc, current, next, nextTid, waitVars,
                   tickVars, irqVars>>

-----------------------------------------------------------------------------

\* The calls with which a thread gives up its slice.
Yield == WaitSync1 \/ WaitSyncN \/ SleepThread \/ CreateThread \/ ExitThread
         \/ ArbitrateWait

Loop == RunNext \/ WaitNext \/ WaitDone \/ Reschedule
        \/ TickThreads \/ TickTimer \/ TimersDone \/ DrainInterrupt \/ DrainDone

Svc == Yield \/ SignalEvent \/ ClearEvent \/ ReleaseMutex \/ SetTimer \/ CancelTimer
       \/ ArbitrateSignal \/ StoreWord \/ BindInterrupt

Next == panic = "none" /\ (Loop \/ Svc \/ Activate \/ ClockTick)

Spec == Init /\ [][Next]_vars

\* The main loop never stops and the host clock advances.  A thread is assumed
\* to give up its slice in the end: nothing in the emulator can take it away.
Fairness ==
    /\ WF_vars(panic = "none" /\ Loop)
    /\ WF_vars(panic = "none" /\ Yield)
    /\ WF_vars(panic = "none" /\ ClockTick)

FairSpec == Spec /\ Fairness

-----------------------------------------------------------------------------
(* Properties *)

\* No assertion and no expect() of the wait and wake paths ever fails.  It holds
\* when programs wait for one object at a time (SingleWaits) and fails when they
\* do not: wait_sync_n goes on handing out its waker after the thread has woken.
NoPanic == panic = "none"

SingleWaits == \A l \in WaitLists : Len(l) <= 1

\* Whatever lists programs wait for, the only panic is that of a signal that
\* finds a spent waker: run_thread's assert_eq!, wake_up's expect() on the wait
\* type, its unreachable!() and its "Unknown handle woke up thread during
\* WaitSyncN" are never reached.
OnlyStaleWakersPanic == panic \in {"none", "stale waker"}

\* No lost wakeup, first half: an object that a wait would get at once (a
\* signalled event or timer, a free mutex, a dead thread) has nobody queued.
AvailableHasNoWaiters ==
    \A o \in Waitable : Available(o) => queue[o] = <<>>

\* No lost wakeup, second half: a waiting thread's current waker is in the queue
\* of every object it waits for, except those whose wait() is still to be called.
WaitingIsQueued ==
    \A t \in Thread : thr[t].state = "Waiting" =>
        \A o \in Objects(thr, t) :
            \/ WakerOf(thr, t) \in Wakers(queue[o])
            \/ t = current /\ \E i \in 1..Len(pending) : pending[i] = o

\* A mutex is acquired exactly while some thread has been given it and nobody
\* has released it since: it is never left locked with no holder, nor free with
\* one, whichever of a wait, a timeout and a release come together.
AcquiredIsHeld == \A m \in Mutex : acquired[m] <=> holder[m] # NoThread

\* Only a waiting thread is woken (wake_up_thread compares keys and does not look
\* at the state), so a wait ends once and a thread that is done stays done.
WakesOnlyWaiting ==
    [][\A t \in Thread :
          /\ thr'[t].wakeKey # thr[t].wakeKey => thr[t].state = "Waiting"
          /\ thr[t].state = "Done" => thr'[t].state = "Done"]_vars

\* The first place of an object in a list.
IndexOf(o, l) == CHOOSE i \in 1..Len(l) : l[i] = o /\ \A j \in 1..(i - 1) : l[j] # o

\* The state of object o that a successful wait takes something from.
Stock(o) ==
    CASE o \in Signaller -> signal[o].signaled
      [] o \in Mutex     -> holder[o]
      [] o \in Thread    -> dead[o]

\* While one wait call is being set up at most one object gives something away,
\* to the thread that waits, and the index that WaitSyncN will return is its.
WaitTakesOne ==
    [][pc = "wait" /\ panic' = "none" =>
          \A o \in Waitable : Stock(o)' # Stock(o) =>
              /\ thr[current].state = "Waiting" /\ thr'[current].state = "Ready"
              /\ thr[current].waitType = "WaitSyncN" =>
                    thr'[current].resume.index = IndexOf(o, thr[current].waitObjects)]_vars

\* ArbiterImpl::signal serves the waiters of an address in the order they came:
\* nobody leaves its queue while somebody before them stays.
ArbiterIsFifo ==
    [][\A a \in Address : \A i, j \in 1..Len(queue[a]) :
          i < j /\ queue[a][i] \in Wakers(queue'[a]) => queue[a][j] \in Wakers(queue'[a])]_vars

\* When tick_at is through it has left nothing to do at the time it was called
\* with: no waiting thread's timeout has passed, and no timer is due but a pulse
\* timer whose interval is 0, which is due again at once.
TickLeavesNothingDue ==
    pc = "timers" /\ cursor > Len(TimerOrder) =>
        /\ \A t \in Thread : ~Expired(t, tickTime)
        /\ \A o \in Timer : Due(o, tickTime) => IsPulse(o) /\ timer[o].interval = 0

\* Every wait with a timeout ends, woken by an object or by the clock.
TimedWaitEnds ==
    \A t \in Thread :
        (thr[t].state = "Waiting" /\ thr[t].waitTimeout # NoTimeout)
            ~> (thr[t].state # "Waiting")

\* Every interrupt that was raised is drained.
InterruptsDrained == (active # <<>>) ~> (active = <<>>)

=============================================================================
