-------------------------------- MODULE Guest -------------------------------
(***************************************************************************)
(* Guest threads: ThreadContext, ProcessContext and ProcessSvcHandler of   *)
(* guest/src/lib.rs on the one DynarmicGuest (guest_dynarmic/src/lib.rs)   *)
(* that all threads of a guest process share.                              *)
(*                                                                         *)
(* A slice of a guest thread begins by copying its ipc_data from the       *)
(* kernel into its thread-local storage and its registers into the         *)
(* machine, with the results of the call that suspended it.  It ends when  *)
(* the executor returns after a system call, and the registers are saved.  *)
(*                                                                         *)
(* The kernel is modelled by what it promises: any ready thread may get    *)
(* the next slice, and a thread that waits may be woken in each of the     *)
(* ways its call allows.  Kernel and ThreadTable have the rest.  The other *)
(* ends of the sessions keep the promises of Rpc.                          *)
(***************************************************************************)
EXTENDS Integers, Sequences

CONSTANTS
    MaxThreads,   \* bound on the threads of the process
    Departed,     \* how many threads it may have had before
    EntryWords,   \* what may be in memory before a thread's entry point
    Callers,      \* the threads that make requests
    MaxCommands,  \* bound on the commands a thread writes
    MaxRequests   \* bound on the requests made to the process

ASSUME GuestAssumption ==
    /\ MaxThreads \in Nat \ {0}
    /\ Departed \subseteq Nat
    /\ MaxCommands \in Nat /\ MaxRequests \in Nat

Thread == 0..MaxThreads - 1
Main == 0              \* the main thread, which also serves a session
NoThread == -1

VARIABLES
    thr,         \* state and resume of CommonThread, and the call it waits in
    ipcData,     \* CommonThread.ipc_data
    requests,    \* the requests queued at the session that Main serves
    saved,       \* ThreadContext.ctx
    slot,        \* ThreadContext.tls, as (tls - USERLAND_TLS_BASE) >> 9
    tls,         \* ProcessTLS
    command,     \* the memory at tls + 0x80, for the slots of threads
    cpu,         \* the executor's registers
    cpuTls,      \* ServiceContext.tls
    ranSvc,      \* ServiceContext.ran_svc
    halted,      \* JitContext::halt has been called
    current,     \* the thread that has its slice
    panic,       \* the panic that ended the emulator, or "none"
    owes,        \* Main has received a request it has not answered
    \* What the program knows, for the properties:
    outcome,     \* how the last system call of every thread ended
    written,     \* how many commands every thread has written
    whole,       \* it has written one and kept its slice since
    asked        \* the command of its last SendSyncRequest

kernelVars == <<thr, ipcData, requests, panic>>
processVars == <<saved, slot, tls, command>>
machineVars == <<cpu, cpuTls, ranSvc, halted>>
programVars == <<owes, outcome, written, whole, asked>>
vars == <<kernelVars, processVars, machineVars, current, programVars>>

NoSlot == -1
Slot == 0..255

\* The word before the pc: get_svc reads a system call in it, or something else.
WaitCall == {"WaitSync1", "WaitSyncN", "SleepThread", "SendSyncRequest", "ReplyAndReceive"}
Svc == WaitCall \cup {"ClearEvent", "SignalEvent", "CreateThread", "ExitThread"}

ASSUME EntryAssumption == EntryWords \subseteq Svc \cup {"other"}

\* ThreadResume; the index of a WaitSyncN with two handles.
ThreadResume == {"Normal", "TimeoutReached", "Index0", "Index1"}

Result == {"arg", "ok", "timeout", "mismatch", "nothing"}
NoIndex == -1    \* what WaitSyncN leaves in r1 until it is resumed
AHandle == -2    \* some handle
Registers == [prev : Svc \cup {"other"}, r0 : Result, r1 : AHandle..1, sp : Thread]

\* Commands: the n-th one that thread t has written, the n-th request from another
\* process (thread NoThread), and the responses to them.
Message(kind, t, n) == [kind |-> kind, thread |-> t, number |-> n]
Blank == Message("blank", NoThread, 0)
Response(m) == [m EXCEPT !.kind = "response"]
Messages ==
    [kind : {"blank", "request", "response"}, thread : Thread \cup {NoThread}, number : Nat]

TypeOK ==
    /\ thr \in [Thread -> [state : {"Absent", "Ready", "Running", "Waiting", "Done"},
                           call : WaitCall \cup {"none"}, resume : ThreadResume]]
    /\ ipcData \in [Thread -> Messages]
    /\ requests \in Seq(Messages)
    /\ saved \in [Thread -> Registers]
    /\ slot \in [Thread -> Slot \cup {NoSlot}]
    /\ tls.free \in Seq(Slot) /\ tls.nextOffset \in 0..255
    /\ DOMAIN command \subseteq Slot /\ \A s \in DOMAIN command : command[s] \in Messages
    /\ cpu \in Registers
    /\ cpuTls \in Slot
    /\ ranSvc \in BOOLEAN /\ halted \in BOOLEAN
    /\ current \in Thread \cup {NoThread}
    /\ panic \in {"none", "unreachable"}
    /\ outcome \in [Thread -> ThreadResume \cup {"none", "ok", "error"}]
    /\ written \in [Thread -> 0..MaxCommands]
    /\ asked \in [Thread -> Messages]

-----------------------------------------------------------------------------
(* Thread-local storage *)

\* ProcessTLS::new
NoTls == [free |-> <<>>, nextOffset |-> 0]

\* Mapping a page: its eight slots, in a u8 each.
NewPage(offset) == [i \in 1..8 |-> ((offset * 8) % 256) + (8 - i)]

\* Fault: every page's slots are numbered from 0.
RefillFromZero(p) ==
    IF p.free # <<>> THEN p
    ELSE [free |-> NewPage(0), nextOffset |-> (p.nextOffset + 1) % 256]

Refill(p) ==
    IF p.free # <<>> THEN p
    ELSE [free |-> NewPage(p.nextOffset), nextOffset |-> (p.nextOffset + 1) % 256]

\* allocate_tls pops the last free slot.  Nothing gives one back.
TlsSlot(p) == Refill(p).free[Len(Refill(p).free)]
TlsRest(p) == [Refill(p) EXCEPT !.free = SubSeq(@, 1, Len(@) - 1)]

\* ProcessTLS after n > 0 threads: what is left of the last page.
TlsAfter(n) ==
    LET pages == (n + 7) \div 8
    IN  [free |-> SubSeq(NewPage(pages - 1), 1, 8 * pages - n), nextOffset |-> pages % 256]

\* new_thread: the registers of a thread that has not run; sp points to its stack.
NewContext(t, word) == [prev |-> word, r0 |-> "arg", r1 |-> 0, sp |-> t]

\* CommonThread::new, and the place of a thread not created yet.
NewThread(st) == [state |-> st, call |-> "none", resume |-> "Normal"]

\* The process has a main thread, and may have had others.
Init ==
    /\ thr = [t \in Thread |-> NewThread(IF t = Main THEN "Ready" ELSE "Absent")]
    /\ ipcData = [t \in Thread |-> Blank]
    /\ requests = <<>>
    /\ \E word \in EntryWords : saved = [t \in Thread |-> NewContext(t, word)]
    /\ slot = [t \in Thread |-> IF t = Main THEN TlsSlot(NoTls) ELSE NoSlot]
    /\ \E n \in Departed : tls = TlsAfter(n + 1) /\ ranSvc = (n > 0)
    /\ command = [s \in {TlsSlot(NoTls)} |-> Blank]
    /\ cpu = NewContext(Main, "other")
    /\ cpuTls = 0
    /\ halted = FALSE
    /\ current = NoThread
    /\ panic = "none"
    /\ owes = FALSE
    /\ outcome = [t \in Thread |-> "none"]
    /\ written = [t \in Thread |-> 0]
    /\ whole = [t \in Thread |-> FALSE]
    /\ asked = [t \in Thread |-> Blank]

-----------------------------------------------------------------------------
(* A slice begins *)

\* Fault: WaitSyncN's index counts from one.
DeliverFromOne(regs, resume) ==
    CASE resume = "Normal"         -> regs
      [] resume = "TimeoutReached" -> [regs EXCEPT !.r0 = "timeout"]
      [] resume = "Index0"         -> [regs EXCEPT !.r1 = 1]
      [] resume = "Index1"         -> [regs EXCEPT !.r1 = 2]

\* handle_resume for the call that a thread was suspended in.
Deliver(regs, resume) ==
    CASE resume = "Normal"         -> regs
      [] resume = "TimeoutReached" -> [regs EXCEPT !.r0 = "timeout"]
      [] resume = "Index0"         -> [regs EXCEPT !.r1 = 0]
      [] resume = "Index1"         -> [regs EXCEPT !.r1 = 1]

\* reply_and_receive_post: a thread woken by the session, its first handle, receives
\* the first request (the index also goes to the address in r0, which is left out).
ReceivePost(t, resume) ==
    IF resume \notin {"Index0", "Index1"}
    THEN panic' = "unreachable" /\ cpu' = saved[t] /\ UNCHANGED <<ipcData, owes>>
    ELSE LET receives == resume = "Index0" /\ requests # <<>>
             r0       == IF resume = "Index0" /\ requests = <<>> THEN "nothing" ELSE "ok"
         IN  /\ ipcData' = IF receives THEN [ipcData EXCEPT ![t] = Head(requests)] ELSE ipcData
             /\ owes' = receives
             /\ cpu' = Deliver([saved[t] EXCEPT !.r0 = r0], resume)
             /\ UNCHANGED panic

\* DynarmicGuest::run up to the executor: if the last slice of the machine ended
\* with a system call, whoever made it, the resumed thread gets its results.
HandleResume(t, resume) ==
    IF ranSvc /\ saved[t].prev = "ReplyAndReceive" THEN ReceivePost(t, resume)
    ELSE /\ cpu' = IF ranSvc THEN Deliver(saved[t], resume) ELSE saved[t]
         /\ UNCHANGED <<panic, ipcData, owes>>

\* Fault: the command stays in the kernel.
CopyNothing(t) == UNCHANGED command

\* The thread's ipc_data goes to its storage.
CopyIpcData(t) == command' = [command EXCEPT ![slot[t]] = ipcData[t]]

\* Fault: the thread's resume is not taken but read.
TakeResumeReads(t) == thr' = [thr EXCEPT ![t].state = "Running"]

\* run_thread takes the thread's resume.
TakeResume(t) == thr' = [thr EXCEPT ![t].state = "Running", ![t].resume = "Normal"]

\* run_thread and ThreadContext::resume: the copy comes before everything else.
Resume(t) ==
    /\ current = NoThread /\ thr[t].state = "Ready"
    /\ TakeResume(t)
    /\ current' = t
    /\ CopyIpcData(t)
    /\ cpuTls' = slot[t]
    /\ HandleResume(t, thr[t].resume)
    /\ ranSvc' = FALSE
    /\ UNCHANGED <<requests, saved, slot, tls, halted, outcome, written, whole, asked>>

-----------------------------------------------------------------------------
(* System calls: handle_svc of the machine around handle_svc of the process *)

Executing(t) == current = t /\ ~halted

\* The program passes arguments in r0 and r1; where a call leaves no result they
\* stay.  The executor is halted if the thread is to be rescheduled.
Call(t, svc, r0, r1, halt) ==
    /\ Executing(t)
    /\ cpu' = [cpu EXCEPT !.prev = svc, !.r0 = r0, !.r1 = r1]
    /\ ranSvc' = TRUE
    /\ halted' = halt
    /\ UNCHANGED <<cpuTls, current, written>>

Ends(t, how) == outcome' = [outcome EXCEPT ![t] = how]

Suspend(t, svc) == thr' = [thr EXCEPT ![t].state = "Waiting", ![t].call = svc]

\* ClearEvent stands for the calls that return at once, and for those that get a
\* handle of the wrong type.  SignalEvent always reschedules; whom it wakes is up to
\* the kernel.
ReturnAtOnce(t) ==
    /\ \/ Call(t, "ClearEvent", "ok", 0, FALSE) /\ Ends(t, "ok")
       \/ Call(t, "ClearEvent", "mismatch", 0, FALSE) /\ Ends(t, "error")
       \/ Call(t, "SignalEvent", "ok", 0, TRUE) /\ Ends(t, "ok")
    /\ UNCHANGED <<kernelVars, processVars, owes, whole, asked>>

\* WaitSynchronization1, WaitSynchronizationN and SleepThread, which has no result.
Wait(t) ==
    /\ \/ Call(t, "WaitSync1", "ok", 0, TRUE) /\ Suspend(t, "WaitSync1")
       \/ Call(t, "WaitSyncN", "ok", NoIndex, TRUE) /\ Suspend(t, "WaitSyncN")
       \/ Call(t, "SleepThread", "arg", 0, TRUE) /\ Suspend(t, "SleepThread")
    /\ Ends(t, "none")
    /\ UNCHANGED <<ipcData, requests, panic, processVars, owes, whole, asked>>

\* The command goes to the kernel before the handle is looked at.
SendSyncRequest(t) ==
    /\ t \in Callers
    /\ ipcData' = [ipcData EXCEPT ![t] = command[cpuTls]]
    /\ asked' = [asked EXCEPT ![t] = IF whole[t] THEN Message("request", t, written[t])
                                                 ELSE command[cpuTls]]
    /\ \/ /\ Call(t, "SendSyncRequest", "ok", 0, TRUE)
          /\ Suspend(t, "SendSyncRequest")
          /\ Ends(t, "none")
       \/ /\ Call(t, "SendSyncRequest", "mismatch", 0, FALSE)
          /\ Ends(t, "error")
          /\ UNCHANGED thr
    /\ UNCHANGED <<requests, panic, processVars, owes, whole>>

\* The main thread answers the request it has received and waits for the next at its
\* session, or for an event; or it names a reply target that is no session.
ReplyAndReceive(t) ==
    /\ t = Main
    /\ ipcData' = [ipcData EXCEPT ![t] = command[cpuTls]]
    /\ \/ /\ Call(t, "ReplyAndReceive", "arg", 0, TRUE)
          /\ requests' = IF owes THEN Tail(requests) ELSE requests
          /\ owes' = FALSE
          /\ Suspend(t, "ReplyAndReceive")
          /\ Ends(t, "none")
       \/ /\ Call(t, "ReplyAndReceive", "mismatch", 0, FALSE)
          /\ Ends(t, "error")
          /\ UNCHANGED <<thr, requests, owes>>
    /\ UNCHANGED <<panic, processVars, whole, asked>>

\* CreateThread: init_thread takes a slot of the process for the new thread.
CreateThread(t) ==
    /\ Call(t, "CreateThread", "ok", AHandle, TRUE)
    /\ \E u \in Thread, word \in EntryWords :
          /\ thr[u].state = "Absent" /\ \A v \in 0..u - 1 : thr[v].state # "Absent"
          /\ thr' = [thr EXCEPT ![u] = NewThread("Ready")]
          /\ slot' = [slot EXCEPT ![u] = TlsSlot(tls)]
          /\ saved' = [saved EXCEPT ![u] = NewContext(u, word)]
    /\ command' = [s \in DOMAIN command \cup {TlsSlot(tls)} |->
                      IF s \in DOMAIN command THEN command[s] ELSE Blank]
    /\ tls' = TlsRest(tls)
    /\ Ends(t, "ok")
    /\ UNCHANGED <<ipcData, requests, panic, owes, whole, asked>>

ExitThread(t) ==
    /\ Call(t, "ExitThread", "arg", 0, TRUE)
    /\ thr' = [thr EXCEPT ![t].state = "Done"]
    /\ Ends(t, "none")
    /\ UNCHANGED <<ipcData, requests, panic, processVars, owes, whole, asked>>

-----------------------------------------------------------------------------
(* Other instructions (external: the guest program), which use r0 and r1 freely.  *)
(* Programs are straight-line code: none branches to the word after a system     *)
(* call, so what ran last is what get_svc finds before the pc.                    *)

Instruction(t) ==
    /\ Executing(t)
    /\ cpu' = [cpu EXCEPT !.prev = "other", !.r0 = "arg", !.r1 = 0]
    /\ Ends(t, "none")
    /\ UNCHANGED <<kernelVars, saved, slot, tls, cpuTls, ranSvc, halted, current, owes, asked>>

Compute(t) ==
    /\ Instruction(t)
    /\ UNCHANGED <<command, written, whole>>

\* A command is written where the coprocessor register says (Cp15).
WriteCommand(t) ==
    /\ Instruction(t)
    /\ t \in Callers
    /\ written[t] < MaxCommands
    /\ written' = [written EXCEPT ![t] = @ + 1]
    /\ whole' = [whole EXCEPT ![t] = TRUE]
    /\ command' = [command EXCEPT ![cpuTls] = Message("request", t, written'[t])]

-----------------------------------------------------------------------------
(* A slice ends *)

\* The executor returns when it was halted, or when its ticks are used up
\* (external); run calls it again until there has been a system call.  Then the
\* registers are saved and the rest of run_thread follows.
Leave ==
    /\ current # NoThread /\ ranSvc
    /\ saved' = [saved EXCEPT ![current] = cpu]
    /\ thr' = IF thr[current].state = "Running"
              THEN [thr EXCEPT ![current].state = "Ready"] ELSE thr
    /\ whole' = [whole EXCEPT ![current] = FALSE]
    /\ halted' = FALSE
    /\ current' = NoThread
    /\ UNCHANGED <<ipcData, requests, panic, slot, tls, command, cpu, cpuTls, ranSvc, owes,
                   outcome, written, asked>>

-----------------------------------------------------------------------------
(* The kernel and the other processes (external: by what they promise) *)

\* A waiting thread is woken: what run_thread will resume it with, and how its call
\* has ended for the program.
Awake(t, call, resume, how) ==
    /\ current = NoThread
    /\ thr[t].state = "Waiting" /\ thr[t].call = call
    /\ thr' = [thr EXCEPT ![t] = [state |-> "Ready", call |-> "none", resume |-> resume]]
    /\ Ends(t, how)
    /\ UNCHANGED <<panic, processVars, machineVars, current, owes, written, whole, asked>>

WakeUp(t) ==
    /\ \/ Awake(t, "WaitSync1", "Normal", "ok")
       \/ Awake(t, "SleepThread", "Normal", "none")
       \/ Awake(t, "ReplyAndReceive", "Index1", "Index1")
       \/ \E resume \in {"Index0", "Index1", "TimeoutReached"} :
             Awake(t, "WaitSyncN", resume, resume)
       \/ Awake(t, "WaitSync1", "TimeoutReached", "TimeoutReached")
    /\ UNCHANGED <<ipcData, requests>>

\* A service answers the thread's request.
ServiceReplies(t) ==
    /\ Awake(t, "SendSyncRequest", "Normal", "ok")
    /\ ipcData' = [ipcData EXCEPT ![t] = Response(@)]
    /\ UNCHANGED requests

\* Another process makes a request: it is queued and wakes Main if it waits for one.
RequestMade ==
    /\ \E n \in 1..MaxRequests :
          /\ \A i \in 1..Len(requests) : requests[i].number < n
          /\ requests' = Append(requests, Message("request", NoThread, n))
    /\ \/ Awake(Main, "ReplyAndReceive", "Index0", "Index0")
       \/ /\ current = NoThread /\ thr[Main].call # "ReplyAndReceive"
          /\ UNCHANGED <<thr, panic, processVars, machineVars, current, programVars>>
    /\ UNCHANGED ipcData

-----------------------------------------------------------------------------

Step(t) ==
    \/ ReturnAtOnce(t) \/ Wait(t) \/ SendSyncRequest(t) \/ ReplyAndReceive(t)
    \/ CreateThread(t) \/ ExitThread(t) \/ Compute(t) \/ WriteCommand(t)

Next ==
    /\ panic = "none"
    /\ \/ \E t \in Thread : Resume(t) \/ Step(t) \/ WakeUp(t) \/ ServiceReplies(t)
       \/ Leave
       \/ RequestMade

Spec == Init /\ [][Next]_vars

-----------------------------------------------------------------------------
(* Properties *)

\* The last instruction of the running thread was the system call svc, and the
\* thread is past it.
Returned(svc) == current # NoThread /\ ~halted /\ cpu.prev = svc

\* A system call's results tell how it ended, however often the thread was
\* rescheduled in between and whoever made the machine's last call: r0 has the
\* error, the timeout or success, and r1 of a wait for several objects the index of
\* the one that ended it.  In straight-line code the unreachable!() of
\* reply_and_receive_post is reached only when a ReplyAndReceive that failed is
\* preempted before the next instruction.
ResultsDelivered ==
    /\ \A svc \in Svc : Returned(svc) =>
          LET how == outcome[current]
          IN  /\ how = "ok" => cpu.r0 = "ok"
              /\ how = "error" => cpu.r0 = "mismatch"
              /\ how = "TimeoutReached" => cpu.r0 = "timeout"
              /\ how = "Index0" => cpu.r0 = "ok" /\ cpu.r1 = 0
              /\ how = "Index1" => cpu.r0 = "ok" /\ cpu.r1 = 1
    /\ panic # "none" => Returned("ReplyAndReceive") /\ outcome[current] = "error"

\* Threads that share the one machine do not see each other's state: the running
\* thread has its own stack pointer, its coprocessor register points to its own
\* storage, and no two threads have the same.  (It holds for 256 threads in a
\* process's life; the slots are never given back and the 257th gets the first
\* one's.)
ThreadsDoNotMix ==
    /\ current # NoThread => cpu.sp = current /\ cpuTls = slot[current]
    /\ \A t, u \in Thread : t # u /\ slot[t] # NoSlot => slot[t] # slot[u]

\* When SendSyncRequest has returned, the thread finds in its storage the response
\* to the command it sent, and what it sent is what it had written if it has kept its
\* slice since.  (If it has not, every resume puts an old copy over the command.)
AnswersArrive ==
    Returned("SendSyncRequest") /\ outcome[current] = "ok" =>
        command[slot[current]] = Response(asked[current])

\* When ReplyAndReceive has returned for a session, the thread finds in its storage
\* the request it is to handle, as an HLE service does (HLEContext::reply_and_receive
\* takes the data after reply_and_receive_post).
RequestsArrive ==
    Returned("ReplyAndReceive") /\ owes => command[slot[current]] = Head(requests)

=============================================================================
