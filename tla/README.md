# TLA+ verification of the Pomelo kernel

Pomelo is a high-level emulator of the 3DS operating system.  This directory
holds TLA+ models of its kernel, the TLC configurations that check them on small
instances, and TLAPS proofs for instances of any size.  Paths below are relative
to the repository root (`src/` here).

Contents: [Inventory](#inventory) · [Modules](#modules-and-how-they-correspond-to-the-code) ·
[Runs](#runs) · [Findings](#findings) · [Proofs](#proofs) ·
[Not modelled](#what-is-not-modelled) · [Plan](#plan)

## Inventory

| Component | Code | State | Operations | What makes it correct |
|---|---|---|---|---|
| Thread table | `kernel/src/lib.rs` `CommonThread`, `CommonThreadManager`, `WakerImpl` | per thread: state, wait objects, wake key, timeout, wait type, resume value | suspend, wake up by an object, wake up by a timeout, find the next ready thread | a wait ends once, by whoever is first; a woken thread is in no queue by mistake |
| Scheduler and main loop | `kernel/src/lib.rs` `KernelImpl`, `cli/src/main.rs` | current, next, next tid | `run_next`, `run_thread`, `tick`, `tick_at`, create and exit thread | only ready threads run; the loop keeps ticking when nothing is ready |
| Events, mutexes, timers, thread objects | `hle/src/{event,mutex,timer,thread}.rs`, `Signal` | signal, acquired, timer data, dead; a FIFO of wakers each | wait, remove wakers, signal, clear, release, set, cancel, tick, `on_death` | no lost wakeup, no signal or mutex lost in a wait that fails |
| Address arbiter | `hle/src/arbiter.rs`, `ArbitrationType` | list of (waker, address) | wait if less than, decrement and wait, signal *n* or all | FIFO per address, exactly the right number of threads woken |
| System calls | `hle/src/svc.rs`, `guest/src/lib.rs` `handle_svc` | none of their own | one per call | reschedule when the thread gave up its slice |
| Interrupts | `kernel/src/lib.rs` `ActiveInterrupts` | bound events; the list of raised interrupts, under a host lock | bind, activate (host thread), drain | what was raised is drained |
| Ports, sessions, IPC translation | `hle/src/{port,session}.rs`, `svc.rs`, `translate_ipc` | queued sessions and requests, waiters on both sides | connect, accept, request, reply and receive | every request is answered once, to its sender |
| Service manager and services | `hle/src/service/*` | registered services, subscriptions | register, get handle, enable notification, publish | no lookup comes before the registration; every session leads to its service; nothing stays in srv's table |
| Handle table, object manager | `kernel/src/object_manager.rs`, `object/mod.rs` | handle → object, next handle | create, look up, close | a handle names one object until it is closed |
| IPC codec | `kernel/src/ipc.rs` | none | read and write the command buffer | what is written is what is read |
| Physical memory manager | `kernel/src/memory/kmm.rs`, `phys.rs` | allocation lists per region | allocate, linear allocate, free | no page handed out twice |
| Virtual memory | `kernel/src/memory/virt.rs`, `page_slice.rs` | spans of pages | map, look up, read, write | reads see the last write |
| Guest threads and TLS | `guest/src/lib.rs` | TLS slots, saved registers, the command in each thread's storage | allocate TLS, resume, deliver results, copy commands | results and answers reach the thread that is owed them; slots disjoint |
| dynarmic binding | `guest_dynarmic/src/lib.rs` | the machine's registers, its TLS pointer, `ran_svc` | save, restore, run, handle a system call | threads that share the machine do not see each other's state |
| HLE futures | `hle/src/thread.rs` | a future per thread | poll as the thread's slice | a pending future waits for a wake |
| file formats, code sets | `formats`, `hle/src/codeset.rs` | – | parsing | – |

How they interact.  Everything in the kernel happens on one host thread, in

    loop { kctx.run_next(); kctx.tick(); }

`run_next` gives the first ready thread (or the one named by `schedule_next`) its
slice.  The thread makes system calls, which change objects and may wake other
threads, until one of them gives up the slice.  A wait call suspends the thread,
obtains a *waker* (thread, wake key) and hands a copy to each object it waits for.
An object that is signalled wakes the first waker (or all); waking increments the
key, so the copies left elsewhere are spent, and removes the thread's wakers from
the queues of all objects in `wait_objects`.  `tick` reads the host clock, wakes the
threads whose timeout has passed, ticks every timer, and then drains the
interrupts, signalling the bound events.  Host threads push interrupts
concurrently, under a lock.

Services are threads like any other.  A client connects to a *port*, which queues a
session and wakes the service; it then sends requests through the session, each of
which puts the client to sleep, queues it and wakes the service.  `translate_ipc`
copies the message from one thread's `ipc_data` to the other's and takes the handles
in it out of (or copies them from) one process's table and into the other's.  `srv`
is the service through which the others are found: it makes the port of a service
that registers and the session of an app that asks, and moves them to the caller.
Waiting for a port or a session queues a waker and does not look at what is queued
already, so all of this relies on services running before their clients.

Guest programs run on an ARM executor that all threads of a process share.  A slice
copies the thread's `ipc_data` to its thread-local storage and its registers to the
machine, delivers the results of the call it slept in, runs until a system call ends the
slice or the executor's ticks are used up, and saves the registers.

What is hard here: three parties (objects, the clock, another object of the same
list) want to end the same wait; a wait that cannot take effect must put back what
it took; queues are edited while they are being served; the wait loop goes on after
the thread has woken; interrupts and the clock move while the kernel runs; a session
has two queues, one at each end, that must stay in step; srv goes to sleep in the
middle of a request; handles are looked up long after they were sent; a guest thread's call is finished on a
machine that others have used meanwhile; and the memory manager keeps its free list
inside the memory that it manages.
`PROJECT.json` lists these hazards with their lines and the properties against them.

## Modules and how they correspond to the code

`WakerQueue`, `ThreadTable`, `SyncObjects`, `AddressArbiter` and `Kernel` each EXTEND
the one before; `Sessions` EXTENDS `ThreadTable`; `Transfer` and `ServiceManager`
EXTEND `Ipc`; `Sessions` INSTANCEs `Rpc`, which it implements; `Guest`,
`VirtualMemory` and `Kmm` stand alone.

| Module | Models | State |
|---|---|---|
| `WakerQueue` | the `waker_queue` of an object: push, first, retain | – (operators) |
| `ThreadTable` | `CommonThread`, `wake_up`, `wake_up_thread`, `CommonThreadManager::tick_at`, `WakerImpl` | `thr`, `queue`, `panic` |
| `SyncObjects` | `EventImpl`, `MutexImpl`, `TimerImpl`, `ThreadImpl` and `Signal` | `signal`, `timer`, `acquired`, `dead`, `holder` |
| `AddressArbiter` | `ArbiterImpl`, `ArbitrationType` | `mem` |
| `Kernel` | main loop, `run_next`, `run_thread`, `tick`, system calls, interrupts; `Spec`, `FairSpec` and the properties | `pc`, `current`, `next`, `nextTid`, `waker`, `pending`, `now`, `tickTime`, `cursor`, `interrupts`, `active` |
| `KernelInvariant` | the inductive invariants `Inv` and `StepInv` | – |
| `MCKernel` | instances for TLC | – |
| `ThreadTableProofs`, `KernelProofs` | lemmas and theorems | – |
| `Sessions`, `MCSessions` | `port.rs`, `session.rs`, the calls on them, the loop of a service, its clients; `Spec`, `FairSpec` | the thread table and `current`, `payload`, `sessionQueue`, `requestQueue`, `ipcData`, `created`, `open`, `step`, `handles`, `replyTarget`, `buffer`, `from`, `sent`, `answer` |
| `SessionsInvariant` | the inductive invariants `Inv` and `FirstInv` | – |
| `SessionsProofs` | lemmas and theorems | – |
| `Rpc` | abstract: what a session promises its callers (`KClientSession`, `KServerSession`) | `calls`, `slot`, `heard` |
| `Ipc` | handle tables, the command buffer, `translate_ipc` | `table`, `drawn`, `ipcData` |
| `IpcProofs` | lemmas about codec and translation, the round trip of a message | – |
| `Transfer` | clients and a service that exchange messages with handles | `made`, `phase`, `calls`, `serving`, `expected` |
| `TransferProofs` | the inductive invariant of `Transfer`, lemmas and theorems | – |
| `ServiceManager`, `MCServiceManager` | `srv.rs`: all commands, providers and apps, in the order of `main.rs`; `Spec`, `FairSpec` | `services`, `seen`, `ports`, `sessions`, `queued`, `events`, `knocking`, `stage`, `serving`, `phase`, `calls`, `asked`, `user`, `current`, `panic` |
| `ServiceManagerProofs` | the inductive invariant of `ServiceManager`, lemmas and theorems | – |
| `Kmm` | `kmm.rs`: `init_region`, `allocate_linear`, `free` | the free list in the pages, the owners, the state of the walk |
| `KmmProofs` | the inductive invariant of `Kmm`, lemmas and theorems | – |
| `Guest` | `guest/src/lib.rs`: `ThreadContext`, `allocate_tls`, `handle_resume`, the suspending calls of `handle_svc`; `guest_dynarmic`: `save`, `restore`, `run`, `handle_svc`, `Cp15` | kernel side `thr`, `ipcData`, `requests`; process side `saved`, `slot`, `tls`, `command`; machine `cpu`, `cpuTls`, `ranSvc`, `halted`; history `outcome`, `written`, `whole`, `asked`, `owes` |
| `GuestInvariant`, `GuestProofs` | the inductive invariants; lemmas and theorems | – |
| `VirtualMemory` | `virt.rs`, `page_slice.rs` | `pages`, `bytes`, the access under way; `flat`, what was last written everywhere |

Modelling decisions:

* **Grain.** `pc` is where the kernel's host thread is.  A system call is one
  step, except that `wait_sync_1`/`wait_sync_n` are cut between the `wait()` calls
  (`BeginWait`, `WaitNext`, `WaitDone`), and `tick` between the thread table, each
  timer and each interrupt.  Nothing but the clock and `Activate` can come in between
  (`Activate` not while the drain holds the lock), but the cuts keep each step equal to
  one method of one object, and let the properties be stated in the middle of them.
* **Panics.** A failed `assert_eq!`, `expect` or `unreachable!` sets `panic` to the
  kind of failure and `Next` is disabled from then on.  The rest of the state after
  a panic means nothing.
* **Wakers.** `Live` is the comparison in `wake_up_thread`.  Where an object takes the
  whole queue and wakes each waker, ignoring failures, the model wakes the set of live
  threads at once (`WakeAll`); waking one thread changes only its record and its own
  wakers, so the order does not matter.  `Without` is `Vec::retain`, in closed form.
* **`wait()`.** `consume`/`acquired.set(true)`, a failed wake and
  `unconsume`/`acquired.set(false)` happen in one uninterrupted method; its three
  outcomes are `Enqueue`, `Grant` and `GiveBack`.
* **Arbiter.** The code keeps one list of (waker, address) per arbiter and always
  filters by address, so a member of `Address` is an (arbiter, address) pair with a
  queue of its own.
* **Objects** exist from the start: the create calls only add an object nobody knows
  yet.  Threads do not: `CreateThread` is modelled.  `Init` allows every reset type
  and both initial states of a mutex; one created locked is held by thread 0.
  `holder` is a history variable, the thread a mutex was last given to.
* **Unimplemented paths** of the code are not taken: `WaitSyncN` with `wait_all` and
  the arbiter's timed variants are `unimplemented!()`.
* **Kept as in the code**: `wake_up` leaves `wait_timeout` alone; `ReleaseMutex` does
  not check its caller; `SetTimer` takes its initial time as absolute; indices of
  `WaitSyncN` start at 1 in the model and at 0 in the code.
* `tickTime` and `cursor` are locals of `tick` and are reset when it is through.
* **Sessions.** Pair 0 of endpoints is the port, the others are sessions.  A call is cut
  where one object calls another, within one slice.  A message is the request it
  belongs to.  Clients are threads of one process and may close each other's handles;
  `ClientAlive` is whether the weak reference of a server endpoint can be upgraded: a
  handle or a sleeper's `wait_objects` keeps it.  When clients sleep and for how long is
  arbitrary.  The service's place in the thread table, `server`, is chosen at the start.
* **Rpc.** The refinement mapping reads `calls` off the wakers at the client's end of each
  session (not off the service's `requestQueue`), `slot` off `ipcData` and `heard` off what
  clients took out.  So it says that the queue the service pops and the queue it
  wakes are one and the same to a caller.  Ports, handles, slices and wake-ups are
  stuttering steps.
* **Ipc.** Buffers are sequences of words, headers and descriptors the numbers that the
  code packs, so reading and writing are real conversions.  Buffer parameters are skipped
  by their length, as `translate_ipc` does.  Loops over words and handles are recursive
  functions (`Places`, `TranslateHandles`, `TranslateParams`), whose equations can be
  proved.  `xorshift` starts from one seed in every
  table, so the n-th handle of every table is the same word, called n here; draws never
  repeat in an instance, nor hit the pseudo-handle 0xFFFF8001.
* **Transfer.** `expected` is a history variable: the objects that the message in
  flight is to carry, kept up to date when another thread closes a handle.
* **ServiceManager.** A step is a slice of a thread or a part of one.  Each process has
  one thread.  Before its first call it connects to srv's own port (`Connect`: handles 1
  and 2 of its table are the port and its end of the session), and sleeps until srv has
  accepted (`AcceptClient`).  srv keeps every accepted session: its table grows by one
  handle with each client that connects.  `knocking` is the `session_queue` of srv's port.
  A client connects once and never closes this session.  An app that is not in a call may be ready or
  asleep; everybody else's readiness is known, and the first ready one runs.  Providers
  keep their port and make no call after they have registered, which is what
  `declare_service!` does.
* **Kmm.** Pages are numbers, page 0 is the null pointer of the list; a free block's
  header is in its first page.  `Unsafe` is what a header reads as once the page's owner
  has written to it, where the code says "Unsafe data detected".  A list walk takes
  one node per step.  One region; the regions share nothing.  Requests of 0 pages are
  not made.  `allocate_linear` returns a page number and `free` takes an address; the
  model uses page numbers for both, the conversion is the caller's.  Memory itself is
  taken to work, which `VirtualMemory` shows it does not: see [Findings](#findings).
* **Guest.** A register file is the few registers that calls write (`r0`, `r1`), the stack
  pointer, which tells whose registers they are, and the word before the pc, from which
  `get_svc` finds the call.  The kernel is reduced to its promises: any ready thread may
  run next, and a waiting thread is woken in any way its call allows.  The executor may
  return after any instruction that follows a system call, when its ticks are used up;
  without a system call `run` calls it again.  Programs are straight-line code: the word
  before the pc is the instruction that ran last, because none branches to the word after
  a system call.  `ClearEvent` stands for the calls that
  return at once.  What memory holds before an entry point is a constant, because
  `get_svc` reads that word when a new thread first runs on a machine whose last slice
  ended with a call.
* **VirtualMemory.** A backing is named by its number of pages; addresses are bytes, pages
  are small, and one turn of the loop of `read` or `write` is a step.  Every backing
  is mapped at most once and to free pages; `main.rs` maps one.
* Operators whose comment starts with "Fault:" are not part of the model.  Each is a
  wrong variant of the definition that follows it; replacing the definition by it must
  make TLC find a violation of the property named in `PROJECT.json` under `mutants`.

## Runs

`tlc -config <name>.cfg <module>`, from this directory.  The module is `MCKernel` for the
first four, then `MCSessions`, `Transfer`, `MCServiceManager`, `Kmm`, `Guest` and
`VirtualMemory`.

| Run | Instance | Checks |
|---|---|---|
| `single_waits` | 2 threads and a third created on the way, an event of every kind and an address, waits for one thing, no timeouts | `TypeOK`, `NoPanic`, `AvailableHasNoWaiters`, `WaitingIsQueued`, `ArbiterIsFifo` |
| `multi_waits` | 2 threads, a timer, a mutex and an event of every kind, the lists timer–mutex and mutex–event, timeouts, one-shot or re-armed timers with interval 0 or 1 | what survives `WaitSyncN`: `OnlyStaleWakersPanic`, both halves of no-lost-wakeup, `AcquiredIsHeld`, `TickLeavesNothingDue`, and `WaitTakesOne`, the give-back path |
| `clock` | `FairSpec`: 2 threads, an event bound to an interrupt, waits forever or for 1 | `NoPanic`, `WakesOnlyWaiting`: timeout, interrupt and signal race for the same wait; `TimedWaitEnds`, `InterruptsDrained` |
| `stale_waker` | two events in one list | `NoPanic`, which is violated: see [Findings](#findings) |
| `sessions` | `Sessions` with fairness: 2 clients, 2 sessions, 2 requests each; the service's thread first or last in the table | `TypeOK`, `NoPanic`, `WaitersMatchRequests`, `AnswersMatch`, `ConnectorsMatchSessions` and the refinement `ImplementsRpc` in either order; `NothingLeftBehind`, `CallsReturn` with the service first, as in `main.rs` |
| `transfer` | `Transfer`: an app and a service, 3 objects, 2 calls; moved or copied, one or two handles, with and without a buffer before them | `TypeOK`, `HandlesArrive`, `ReferencesKept` |
| `service_manager` | `ServiceManager` with fairness: 2 providers that may take the same name, an app with 2 calls and one with 1, each connecting to srv first | `TypeOK`, `PanicsAreJustified`, `NothingOverlooked`, `NothingLeaks`, `SessionsLead`, `SrvCallsReturn` |
| `kmm_uniform` | `Kmm`: 9 pages, requests of 2 pages | `TypeOK`, `SafeData`, `PagesAreExclusive`, `ListIsCoalesced` |
| `kmm_blocks` | `Kmm`: 5 pages, requests of 1 or 2 pages | `SafeData`, which is violated: see [Findings](#findings) |
| `guest` | `Guest`: the main thread, which serves a session, and one that calls; 0, 7 or 254 threads before them | `TypeOK`, `ResultsDelivered`, `ThreadsDoNotMix`, `AnswersArrive` |
| `guest_server` | the main thread serves, nobody calls | `RequestsArrive`, which is violated: see [Findings](#findings) |
| `virtual_read` | `VirtualMemory`: pages of 2 bytes, slices of 1 and 2 pages | `ReadsSeeWrites`, which is violated: see [Findings](#findings) |

The properties, in words:

* `NoPanic` / `OnlyStaleWakersPanic` – no assertion of the wait and wake paths fails /
  none but `expect("Failed to wake up thread")` on a spent waker.
* `AvailableHasNoWaiters`, `WaitingIsQueued` – no lost wakeup: nobody is queued on
  something available, and whoever waits is queued where it waits (or is just being).
* `AcquiredIsHeld` – a mutex is acquired exactly while some thread was given it.
* `WakesOnlyWaiting` – a wake key changes only while its thread waits, and a thread that
  is done stays done.
* `WaitTakesOne` – setting up one wait takes from at most one object, and the index
  returned is that object's.
* `ArbiterIsFifo` – nobody leaves an address's queue before somebody ahead of them.
* `TickLeavesNothingDue` – after `tick_at`, no timeout has passed and no timer is due
  except a pulse timer of interval 0.
* `TimedWaitEnds`, `InterruptsDrained` – every wait with a timeout ends; every raised
  interrupt is drained.
* `WaitersMatchRequests`, `ConnectorsMatchSessions` – the two ends of a session (of a
  port) are in step, so a reply wakes the thread it was copied to.
* `AnswersMatch` – a client finds the response to its own last request.
* `NothingLeftBehind`, `CallsReturn` – with the service first, it never sleeps while
  something is queued for it, and every call returns.  With the service last both are
  false, and neither is claimed: `wait()` of a port or a session does not look at what is
  queued.
* `ImplementsRpc` – whatever is closed, connected or ended in between, every request is
  answered once, in its turn and to its own thread, before that thread makes another.
* `HandlesArrive`, `ReferencesKept` – the receiver reads the objects that the sender
  meant, in order; moves move and copies copy.
* `PanicsAreJustified` – srv panics only for a name that no provider has, or for a
  publication that has a subscriber.  In particular no lookup overtakes a registration.
* `NothingOverlooked`, `SrvCallsReturn` – although srv sleeps in the middle of
  `GetServiceHandle`, no request, no session and no client that connects to srv is queued
  for a thread that does not notice, and every call returns, connecting included.
* `NothingLeaks` – whatever srv makes for a caller leaves with the response: whenever it
  waits, its table holds its own port, the client end of every registered port and one
  session for every client that has connected, once each, and nothing else.
* `SessionsLead` – a session leads to the first provider of the name.
* `SafeData`, `PagesAreExclusive`, `ListIsCoalesced` – the free list stays within free
  memory, no page has two owners, and no two free blocks touch.
* `ResultsDelivered` – what a guest thread finds in `r0` and `r1` after a call is how that
  call ended, although the flag that says so is the machine's and other threads have used
  it; in straight-line code the `unreachable!()` of `reply_and_receive_post` needs a
  `ReplyAndReceive` that failed and was preempted at once.
* `ThreadsDoNotMix` – the running thread has its own registers and storage, and no two
  threads have the same slot (within 256 threads of a process).
* `AnswersArrive`, `RequestsArrive` – a caller finds the response, and a guest that serves
  finds the request, in its storage when the call returns.  The second does not hold.
* `ReadsSeeWrites` – a read returns what was last written and fails only where nothing is
  mapped.  It does not hold.

### Bounds

| Bound | Stands for | Why it is enough |
|---|---|---|
| `MaxThreads` 2–3 | threads ever created | a waiter and a waker; a third for FIFO order, for creation, and for one thread joining another |
| `MaxKey` 1–2 | `wake_key`, a `u64` | each thread sleeps at most `MaxKey` times; two waits are what a stale waker needs, one to be left behind and one to be met in.  A thread that has used up its keys may not wait again; it can still do everything else |
| `MaxTime` 0–2 | the host clock | a timeout of 1 passes, and one set later passes later |
| `MaxActive` 0–1 | interrupts raised and not drained | the list grows only by host threads; its order does not matter to the properties |
| `WordMin`, `WordMax` | an `i32` | the word below the value, equal to it and wrapping |
| `MaxSessions`, `MaxRequests` | sessions, requests per client | two clients on one session, and one client on two |
| `MaxKey` 8, `MaxWaits` 4 in `sessions` | `wake_key` of the service, of a client | enough for every call that the bounds above allow; sleeping uses up the rest |
| `Servers` {0, 2} | the service's place in the thread table | before or after every client |
| `MaxThreads` 2 in `guest`, `Callers`, `MaxCommands`, `MaxRequests` | threads, commands | two threads are enough to use each other's machine; a second command meets the copy of the first |
| `Departed` {0, 7, 254} | threads created before | the next slot is in the same page, begins a page, or is the last of 256 |
| `PageSize` 2, `MaxPage`, `MaxLength` | 4096, 2^20, any | both places within a page, and accesses that cross a page and a span |
| `MaxObjects`, `MaxCalls` | objects, calls | a handle moved twice, copied and moved, closed in flight; a session asked for, used and asked for again |
| `BufferWords` | `ipc_data`, 64 words | the longest message of the run |
| `Name`, `Notification` | words | two names, so that providers share one or not; one notification |
| `Pages`, `Sizes`, `MaxBlocks` | a region | nine pages in twos leave an odd one, so walks reach the end of the list; four blocks make every neighbour of a freed one free or taken |
| `WaitLists` | lists passed to `WaitSyncN` | pairs of each kind of object, both orders of mutex and event |

The theorems hold for every value of these constants, so for the properties proved
the bounds only limit what TLC itself sees.  One case is in no run: two timers that are
due in the same tick, because `multi_waits` has one timer.  `TickLeavesNothingDue`, the
no-lost-wakeup properties and `OnlyStaleWakersPanic` cover it by their theorems alone.

`multi_waits` and `stale_waker` say `CHECK_DEADLOCK FALSE`: there the emulator really
stops, with the panic of the finding.  The runs of `Sessions`, `Transfer`,
`ServiceManager`, `Guest` and `VirtualMemory` say so too, because there the programs come
to rest when their calls are used up, or end in a panic.  In the other runs TLC also
checks that the system never stops.  Symmetry
is not used: threads are numbers, and
`next_thread` takes the lowest.

### Fairness

`FairSpec` assumes weak fairness of the main loop (`loop` in `main.rs` never ends), of
the clock (up to its bound), and of `Yield`: the running thread in the end makes a call
that gives up its slice.  The last is an assumption about programs; scheduling is
cooperative and the emulator cannot preempt.  No fairness between threads is assumed
and none is claimed: `next_thread` takes the lowest-numbered ready thread, so a
thread that keeps rescheduling starves those after it.

`FairSpec` of `Sessions` and of `ServiceManager` assumes the same: the main loop goes on,
a service's handler comes to its end (none of them loops), providers do connect and register, and an
app or client gives up its slice.

## Findings

`stale_waker`: the kernel can panic in `EventImpl::signal` (and likewise in the mutex
and the timer).  `wait_sync_n` suspends the thread and calls `wait()` on each object in
turn.  If the first is available, the thread is woken at once: its wakers are removed
from all queues and its key changes.  The loop goes on, and a later object that is not
available queues the same, now spent, waker.  Nothing ever removes it: the
thread's next waits are for other objects.  The next signal of that object meets it at
the front of the queue, `wake` returns false, and
`expect("Failed to wake up thread")` panics.  The counterexample has
two events, one thread, `WaitSynchronizationN` on the pair with the first signalled,
and `SignalEvent` on the second.  The theorems below say that this is the only way:
without lists of several objects nothing panics, and with them nothing else does.

`kmm_blocks`: the memory manager can read a free-list header from memory that it has
given away.  `allocate_linear` takes the first block that is large enough.  When that
block is not the first of the list, its predecessor's `next` is left as it was and
points at the block just handed out.  The owner writes to it, and the next walk
of the list ends in `expect("Unsafe data detected")`.  The counterexample allocates
one page twice, frees the first, allocates two, lets their owner write, and allocates two
more.  With blocks of one size this cannot happen: `kmm_uniform` checks it for 9 pages, the
theorem `KmmNeverPanics` says it for any number.
At this commit the emulator only initialises the regions and does not allocate yet.
Also seen on the way, and kept in the model: taking the first block whole makes the rest
of the list unreachable.

`guest_server`: a guest program that serves a session never sees its requests.  The first
thing `ThreadContext::resume` does is to copy the kernel's `ipc_data` to the guest.  The
request is put there later in the same resume, by `reply_and_receive_post` in
`handle_resume`, and stays in the kernel: the guest reads the command it sent itself
before.  HLE services read the data after `reply_and_receive_post` and are not
affected, and the system modules of this repository are all HLE.

`virtual_read`: `VirtualMemory::read` looks up the span and its offset and then passes the
virtual address to the backing, where `write` passes the offset within it.  With the
correct offset the same run passes, so the splitting of an access over pages and spans is
right.  `main.rs` maps FCRAM at 0x20000000 and builds the memory manager on it: the
first header it reads back would be sliced beyond the end of the backing.

Seen in the code of guests, without a run of their own: `handle_resume` delivers results
to a thread that has not run yet if the word before its entry point is a system call (it
does no harm, because a new thread's resume is `Normal`, unless the word is
`svc 0x4F`); a command that is half written when the thread is preempted is replaced by
the kernel's old copy; the 257th thread of a process shares the storage of the first;
`get_svc` reads the four bytes before the pc in Thumb mode too; FPSCR is not saved;
`AcceptSession` of a guest with nothing queued panics; and
`PageSlice::size_in_bytes` calls itself.

## Proofs

Proved by TLAPS, for every value of the constants: any number of threads, objects,
sessions, requests and keys, and any lists, timeouts, timer arguments and entry points
that programs choose.  The named assumptions in the modules are all that is assumed:
constants have their types, kinds of objects are disjoint, every timer is in
`TimerOrder`, and the words before entry points are among those that `get_svc` tells
apart.  `ServiceManager` also assumes that the command buffer holds five words (it has
64) and that no client makes as many calls as it takes a table, with the two handles of
its connection, to draw the pseudo-handle 0xFFFF8001.  `Transfer` assumes a buffer of nine words, its longest message, finitely many
processes, and again too few objects and calls for the service's table to draw the
pseudo-handle.  Hypotheses beyond these are part of the theorems.

| Theorem | States |
|---|---|
| `WithoutWakers` | `retain` leaves a queue of exactly the other threads' wakers |
| **Kernel** | |
| `Invariance`, `StepInvariance` | `Spec => []Inv`, `Spec => []StepInv` |
| `TypeCorrect` | `Spec => []TypeOK` |
| `OnlyStaleWakers` | `Spec => []OnlyStaleWakersPanic` |
| `SingleWaitsNeverPanic` | `SingleWaits => (Spec => []NoPanic)` |
| `NoLostWakeup` | `Spec => []AvailableHasNoWaiters` |
| `WaitersAreQueued` | `Spec => []WaitingIsQueued` |
| `MutexIsHeld` | `Spec => []AcquiredIsHeld` |
| `OnlyWaitingWakes` | `Spec => WakesOnlyWaiting` |
| `ArbiterServesInOrder` | `Spec => ArbiterIsFifo` |
| `TickIsComplete` | `Spec => []TickLeavesNothingDue` |
| `WaitsTakeOne` | `Spec => WaitTakesOne` |
| **Sessions** | |
| `SessionsKeepInvariant` | `Spec => []Inv` |
| `SessionsTypes`, `SessionsNeverPanic` | `Spec => []TypeOK`, `Spec => []NoPanic` |
| `SessionsEndsInStep` | `Spec => []WaitersMatchRequests` |
| `SessionsConnectorsMatch` | `Spec => []ConnectorsMatchSessions` |
| `SessionsAnswersMatch` | `Spec => []AnswersMatch` |
| `SessionsImplementRpc` | `Spec => ImplementsRpc` |
| `FirstServiceLeavesNothing` | `Spec => []NothingLeftBehind` |
| **Guest** | |
| `GuestBase`, `GuestTypes` | `Spec => []Base`, `Spec => []TypeOK` |
| `ThreadsAreSeparate` | `FewThreads => (Spec => []ThreadsDoNotMix)` |
| `AnswersDoArrive` | `Spec => []AnswersArrive` |
| `ResultsAreDelivered` | `PlainEntry => (Spec => []ResultsDelivered)` |
| **Kmm** | |
| `FreeListKept` | `Uniform => (Spec => []Inv)` |
| `KmmTypes`, `KmmNeverPanics` | `Uniform => (Spec => []TypeOK)`, `Uniform => (Spec => []SafeData)` |
| `PagesHandedOutOnce` | `Uniform => (Spec => []PagesAreExclusive)` |
| `FreeListIsCoalesced` | `Uniform => (Spec => []ListIsCoalesced)` |
| **Ipc** | |
| `ReadWritten` | what `IPCWriter` wrote, `IPCReader` reads, for every message |
| **Transfer** | |
| `InvHolds`, `TransferTypes` | `Spec => []Inv`, `Spec => []TypeOK` |
| `TransferArrives` | `Spec => []HandlesArrive` |
| `TransferReferences` | `Spec => ReferencesKept` |
| **ServiceManager** | |
| `InvHolds`, `SrvTypes` | `Spec => []Inv`, `Spec => []TypeOK` |
| `SrvPanicsAreJustified` | `Spec => []PanicsAreJustified` |
| `SrvNothingOverlooked` | `Spec => []NothingOverlooked` |
| `SrvNothingLeaks` | `Spec => []NothingLeaks` |
| `SrvSessionsLead` | `Spec => []SessionsLead` |

None of the properties is inductive alone.  The invariants below were first checked by
TLC on the instances of the runs, but for those parts that quantify over all messages.

### Kernel

`Inv` adds

* `SleepersOK` – a sleeping thread has a wait type and a key to spare, which is what
  `wake_up` needs not to panic;
* `WakersOK` – no waker is ahead of its thread's key, and a waker that is still live
  sits in the queue of an object its thread is waiting for right now.  This is the
  heart: it makes an object's wake legitimate and its index exist;
* `SchedulerOK` – `next` is ready and the thread with the slice is running, for the
  assertions of `run_thread` and `suspend_thread`; threads not created yet have no
  wakers;
* `PendingOK` – while a wait call is being set up its waker is live exactly as long as
  the thread is still waiting;
* `SingleWaitsOK` – if lists have at most one object, every queued waker is live;
* `ArbiterOK` – the same for the arbiter's queues, unconditionally, because a thread
  waits for one address at a time.

The proof is layered.  `ThreadTableProofs` shows what `retain` leaves, and what waking a set of threads does to any table and queues
satisfying `SleepersOK` and `WakersOK` (`WakeByObjectStep`, `WakeExpiredStep`).
`KernelProofs` states with `Keeps` what every wake has in common, shows it once for
waking the first, waking all, firing, releasing and arbitrating, and derives `Inv'`
for most actions from `KeepsInv` or `NoWaitCallInv`; going to sleep and `wait()` have
their own lemmas.  `NextInv` collects one lemma per action.

The second part of `KernelProofs` has the action properties and the tick.  They need more (`StepInv`):

* `SleepKinds` – a thread asleep at an address has no timeout and no other object.
  Otherwise a timeout or a signal elsewhere could take it out of the middle of the
  address's queue, and `ArbiterIsFifo` would fail;
* `ArbiterDistinct` – a thread is in an address's queue once, so taking the wakers of
  the first *n* threads out takes a prefix;
* `TickOK` – behind the cursor nothing is due.  A timer that fires wakes threads but
  arms no other timer, so the fact survives the rest of the loop.

For the arbiter the step lemma is that the queue of an address stays, gets one waker at
its end, or loses a prefix.  For `WaitTakesOne`, `PendingOK` says that the waker is live
as long as nothing was taken; after that each `wait()` that finds its object available
fails to wake and puts back what it took.

### Sessions

`Inv` relates five places that the code updates one after another:

* `TableOK` – beyond `SleepersOK` and `WakersOK`, every queued waker is live and no
  thread is twice at a client's end.  This is what fails in `Kernel` with lists of
  several objects; here the service waits for all its handles and the first to wake it
  purges the others, and nothing is taken while it goes to sleep;
* `SliceOK` – the running thread is the one with the slice, but for a client that has
  just gone to sleep in `send_sync_request` and still has its request to queue;
* `ClientsOK` – what a client waits for follows from where it is in its call, and its
  slot in `ipcData` holds its request until it is answered, then the answer;
* `ServiceOK` – the index the service is resumed with is its port or a session that has a
  request; what it has in its hands is the first request of the session it came from, or
  the answer to it; and a reply target is answered before the next wait;
* `EndsMatch` – the exact form of `WaitersMatchRequests`: the two queues of session *i*
  differ just while a request for *i* is being queued.  The property allows any thread in
  "send", which is not enough to append to the right queue.

`SessionsProofs` has a lemma per action and conjunct.  `NoPanic` follows from `ServiceOK`
(the reply target's queue is not empty) and `TableOK` (the waker at the front is live).

The refinement of `Rpc`: under the refinement mapping, queueing a client at its session is
`Ask`, the service's reply is `Answer`, a client that goes on after its call takes `Hear`,
and everything else stutters.  `EndsMatch` makes the thread that the reply wakes the one
whose slot it wrote; `ClientsOK` gives the guards of `Ask` and `Hear`.

`NothingLeftBehind`: with `server = 0` every wake of the service is followed by the
service's own slice, because `next_thread` takes the lowest ready thread.  `FirstOK` says
so: while a client has the slice the service is asleep, but for the rest of the call that
woke it, so there is one event at a time, the one the service was resumed with.  With it
go `ServiceQueued` (a sleeping service is in every queue it waits in),
`SessionsKnown` (every session is accepted or queued) and `SessionsExist`.

### Guest

* `Base` – the running thread is the machine's: its state, its stack pointer, its
  storage; `halted` only in a slice that has made a call; every thread that exists has
  storage.  Types come from it, with the arithmetic of `NewPage`, `% 256` included.
* `SlotsOK` – the threads that exist are the first *k*, and `tls` is what *n + k*
  threads leave behind.  `NextSlot` shows that `allocate_tls` then gives out *n + k*,
  by the two cases of the free list, and it needs *n + k* < 256: this is `FewThreads`,
  and the reason why the 257th thread shares the first one's storage.
* `AnswersOK` – a command written in this slice is still in the storage (`WholeOK`); from
  `SendSyncRequest` to its return, `ipc_data` is what was asked, then the response, then
  also the storage (`RequestFor`).  It does not need the slots to be disjoint: a thread's
  data is copied to its storage at every resume.
* `ResultsOK` – `ResultFor` says of every thread, waiting, ready or running, that its
  registers with its resume value are the result of its last call.  `ran_svc` is the
  machine's and not the thread's; `FirstSliceOK` says that it is false between slices only
  before the first one, when nobody has made a call.  `PlainEntry` excludes an entry
  point after a word that reads as `svc 0x4F`, which would run into
  `reply_and_receive_post` with a `Normal` resume.  A branch to the word after such an
  instruction, preempted at once, would do the same; the model has no branches.

### Kmm

`Inv` is `TypeOK`, `SafeData` and that some set *F* of pages is the free list.  *F* is not
computed from the headers but exists, so a step only has to name the new set:

* `BlocksOK` – a free block is in the region and holds a whole number of requests,
  unless it ends where the region ends;
* `ListOK` – the blocks of *F* and no others are linked, sorted and not touching;
* `OwnedOK` – what callers hold is apart from *F* and from each other;
* `OpOK` – a walk is at a block of *F*: that of `allocate_linear` at the first or through,
  that of `free` between two neighbours.

`Uniform` (all callers ask for the same number of pages) cannot be dropped: the run
`kmm_blocks` shows that `SafeData` fails without it.  It is used through `Multiples`: a block
too small for a request can then only be the last one, so `allocate_linear` takes from the
first block or gives up.  A block further down, whose predecessor would go on pointing at
it, is never handed out.  `ListIsCoalesced` speaks of the *n*-th block
(`Nth`); that the blocks reached from `first` are exactly *F* is an induction over numbers.

### Ipc

tlapm cannot instantiate the library's induction theorems, but a set of numbers without
a least member is empty (`NatLessThanWellFounded`, `WFMin`), and that is enough: the
counterexamples to what is to be shown are such a set.  In this way `IpcProofs` proves the
equations of the recursive functions (`PlacesEquation`, `TranslateHandlesEquation`,
`TranslateParamsEquation`) and of `FlattenSeq`, hence where every parameter of a message
begins.  `ReadWritten` is the round trip of the codec: for every command, result,
normal parameters and list of handle parameters (fewer than 64 words each, which is what the
six bits of the header count), reading `Over(b, Written(...))` returns the command, the
result, the normals and the parameters, except that a parameter with `calling_process` is
read as the pseudo-handle.  `TranslateNone` and `TranslateOne` say from this
what `translate_ipc` does to a message with no handles and with one.

### Transfer

Here the lists of handles are of any length that the buffer holds, and the same induction over
numbers carries them.  `Run(a, b, hs, n, ...)` relates the tables before a list and after
*n* of its handles: who has drawn what (`Draws`), what each of the *n* names to its receiver
and what the sender's handles still name (`Arrived`), and how many references there are
(`Counted`).  `RunStep` is one `translate_handle`, by whether the handle names
something; `HandlesTranslated` is the list.  `Inv` has

* `Types` – every table holds objects under handles it has drawn, the references to an
  object are finitely many, and buffers keep their length;
* `CallOK` – for each phase of a call, that the buffer in question reads as a request or
  a response of the right shape and that its handles mean what `expected` says.  A close by another
  thread of the client changes both sides alike (`AskedClosed`);
* `ServiceDraws` – the service's table has drawn at most a handle for each object and three
  for each request received.  Without it the placeholder of the calling process, which arrives as the
  pseudo-handle, might name something in the service's table.

`HandlesArrive` follows from `CallOK`.  `ReferencesKept` needs in addition that the copies of a
message are the places in its parameters that are not moved: `CopiesOfRequest` splits
them by parameter, the parts are disjoint (`PairsApart`), and each is what `Counted` counts.
`TransferSteps` shows that a message goes over only in `Receive` and in `Reply`.

### ServiceManager

The conjuncts of `Inv`:

* `Order`, `Using` – the schedule.  srv runs before the providers and these before the apps,
  so srv has one caller at a time, registrations are made in the order of the threads, no
  app asks before every provider has registered, and an app in a session has a
  provider of its own at work;
* `Knocking` – at most one client is connecting, and only while srv has been woken for it:
  srv is the first to run, so the client's sleep is followed by srv's own slice;
* `Asks`, `Messages` – what is in the buffers: while the request waits, and from `receive`
  to the reply, srv's or the caller's buffer reads as the request that was asked; at the
  reply srv's reads as an answer with the handle drawn for the caller, if any.
  `ReadWritten` and `TranslateOne` carry these over from writer to reader;
* `Registry`, `SrvTable` – the *i*-th entry of `services` is the *i*-th port, each
  was made for one provider and named by it; srv's table is its own port, the client
  ends of those ports, sessions with clients, and `Extra`, the handle drawn for the caller
  and not sent yet;
* `SrvSessions` – every client that has connected has its session there, once.
  `NothingLeaks` is `SrvTable` and `SrvSessions` while srv waits, when there is no `Extra`;
* `Queues`, `Connecting` – a session is in the queue of its port only while srv sleeps in
  `connect_to_port` and the provider it woke has yet to accept;
* `Finds`, with `Leads` – who was given a session holds one whose other end
  is with the first provider that registered the name.  `SessionsLead` follows;
* `FewHandles` – an app draws two handles when it connects and at most one for every call, so no handle of its
  table is the pseudo-handle that stands for the calling process in a message.

There is one lemma for every command, written as a chain: what the handler writes, what
`translate_ipc` makes of it, then the conjuncts.

### Model-checked only

* Liveness (`TimedWaitEnds`, `InterruptsDrained`, `CallsReturn`, `SrvCallsReturn`): fairness
  and ENABLED are beyond this prover.
* `VirtualMemory`, whose run shows that the property of the code's comment fails.

## What is not modelled

* In `Guest`, the calls that map or query memory, and what the others do to kernel
  objects, which is in `Kernel`, `Sessions` and `Transfer`.  Floating-point registers and
  the guest's own code and data are not told apart from its other registers.
* In `Kernel`, system calls are modelled from the point where their handles have been
  looked up.  The error returns for bad handles change no state.
* Malformed messages and messages longer than the buffer; buffer parameters, which
  `translate_ipc` leaves out.  `IPCRequest` and `IPCReader` decode the permission of a
  mapped buffer differently; nobody reads it.
* A service that calls srv from its handler, or closes its port.  No service here does;
  the first would make srv and the service wait for each other.
* A client that connects to srv twice, or closes its session with it.  A guest program that
  branches to the word after a system call.
* `on_endpoint_closed`, which panics with TODO and is not called.
* The executor behind `guest_dynarmic` and its memory, a C++ library.  `formats`, `codeset.rs`: parsing of
  immutable files.  HLE futures are seen only as threads that make system calls.
* Log output, `DuplicateHandle`, the thread-priority calls and the queries, which keep
  no state of their own.

## Plan

Done: thread table, scheduler, synchronization objects, arbiter, interrupts and their
proofs; ports and sessions and the remote calls they implement; handle tables, codec and
translation; srv; physical and virtual memory; guest threads on their machine.
Also done: the safety properties of `Kernel`, `Sessions` (with the refinement of `Rpc`),
`Guest`, `Kmm` (for one size of requests), `Transfer` and `ServiceManager` as theorems, and
the round trip of the codec.  Next, in this order:

1. Several ports and nested calls between services in `Sessions`.
