--------------------------- MODULE GuestInvariant ---------------------------
(***************************************************************************)
(* The inductive invariants behind Guest's properties: one for what the    *)
(* machine and the thread table say of the slice, and one each, on top of  *)
(* it, for the storage, the answers and the results of calls.              *)
(***************************************************************************)
EXTENDS Guest

\* The process has few enough threads in its life for the slots to do.
FewThreads == \A n \in Departed : n + MaxThreads <= 256

\* No entry point comes after a word that reads as a ReplyAndReceive.
PlainEntry == "ReplyAndReceive" \notin EntryWords

\* The registers of thread t, wherever they are.
Regs(t) == IF t = current THEN cpu ELSE saved[t]

-----------------------------------------------------------------------------

\* The rest of the types.
TypesOK ==
    /\ TypeOK
    /\ tls \in [free : Seq(Slot), nextOffset : 0..255]
    /\ whole \in [Thread -> BOOLEAN]
    /\ owes \in BOOLEAN

\* The thread that has its slice, and the machine that runs it.
SliceOK ==
    /\ \A t \in Thread : thr[t].state = "Running" => t = current
    /\ \A t \in Thread : thr[t].state = "Waiting" => thr[t].call \in WaitCall
    /\ current # NoThread =>
          /\ thr[current].state \in {"Running", "Waiting", "Done"}
          /\ thr[current].state # "Running" => halted
          /\ cpu.sp = current
          /\ cpuTls = slot[current]
    /\ halted => current # NoThread /\ ranSvc

\* Every thread has its storage and its stack.
StorageOK ==
    /\ \A t \in Thread : thr[t].state # "Absent" => slot[t] \in Slot /\ slot[t] \in DOMAIN command
    /\ \A t \in Thread : saved[t].sp = t

\* The request that Main has received is still the first.
OwesOK == owes => requests # <<>>

Base == TypesOK /\ SliceOK /\ StorageOK /\ OwesOK

-----------------------------------------------------------------------------

\* Threads are created in order, and every one gets the next slot after those of
\* the n threads that are gone.
SlotsOK ==
    \E n \in Departed, k \in 1..MaxThreads :
        /\ tls = TlsAfter(n + k)
        /\ \A t \in Thread : thr[t].state = "Absent" <=> t >= k
        /\ \A t \in Thread : slot[t] = IF t = Main THEN 0 ELSE IF t < k THEN n + t ELSE NoSlot

-----------------------------------------------------------------------------

\* A thread that does not exist yet has made no call.
FreshOK == \A t \in Thread : thr[t].state = "Absent" => outcome[t] = "none"

\* A command that was written in this slice is still there.
WholeOK ==
    \A t \in Thread : whole[t] =>
        t = current /\ command[slot[t]] = Message("request", t, written[t])

\* What the request of thread t carries from SendSyncRequest to the end of the call.
RequestFor(t) ==
    /\ thr[t].state = "Waiting" =>
          /\ Regs(t).prev = thr[t].call
          /\ thr[t].call = "SendSyncRequest" => ipcData[t] = asked[t]
    /\ thr[t].state \in {"Ready", "Running"} /\ Regs(t).prev = "SendSyncRequest" /\ outcome[t] = "ok" =>
          ipcData[t] = Response(asked[t])
    /\ thr[t].state = "Running" /\ cpu.prev = "SendSyncRequest" /\ outcome[t] = "ok" =>
          command[slot[t]] = ipcData[t]

RequestOK == \A t \in Thread : RequestFor(t)

AnswersOK == FreshOK /\ WholeOK /\ RequestOK

-----------------------------------------------------------------------------

\* The registers tell how the call ended.
Settled(regs, how) ==
    regs.prev \in Svc =>
        /\ how = "ok" => regs.r0 = "ok"
        /\ how = "error" => regs.r0 = "mismatch"
        /\ how = "TimeoutReached" => regs.r0 = "timeout"
        /\ how = "Index0" => regs.r0 = "ok" /\ regs.r1 = 0
        /\ how = "Index1" => regs.r0 = "ok" /\ regs.r1 = 1

\* Before the machine's first slice nobody has made a call.
FirstSliceOK ==
    current = NoThread /\ ~ranSvc =>
        \A t \in Thread : outcome[t] = "none" /\ thr[t].state # "Waiting" /\ thr[t].resume = "Normal"

\* A thread in a call that waits: its registers are good for every way it can end.
WaitingFor(t) ==
    thr[t].state = "Waiting" =>
        /\ thr[t].resume = "Normal"
        /\ Regs(t).prev = thr[t].call
        /\ thr[t].call \in {"WaitSync1", "WaitSyncN", "SendSyncRequest"} => Regs(t).r0 = "ok"

\* A thread that is ready: its registers and what it will be resumed with.
ReadyFor(t) ==
    thr[t].state = "Ready" =>
        IF saved[t].prev = "ReplyAndReceive"
        THEN \/ thr[t].resume = "Index0" /\ outcome[t] = "Index0" /\ requests # <<>>
             \/ thr[t].resume = "Index1" /\ outcome[t] = "Index1"
             \/ thr[t].resume = "Normal" /\ outcome[t] = "error" /\ saved[t].r0 = "mismatch"
        ELSE Settled(Deliver(saved[t], thr[t].resume), outcome[t])

\* The thread that runs.
RunningFor(t) ==
    thr[t].state = "Running" =>
        /\ thr[t].resume = "Normal"
        /\ Settled(cpu, outcome[t])
        /\ ranSvc /\ cpu.prev = "ReplyAndReceive" => outcome[t] = "error"

\* Only the main thread serves a session.
ServerFor(t) == Regs(t).prev = "ReplyAndReceive" => t = Main

ResultFor(t) == WaitingFor(t) /\ ReadyFor(t) /\ RunningFor(t) /\ ServerFor(t)

PanicOK == panic # "none" => Returned("ReplyAndReceive") /\ outcome[current] = "error"

ResultsOK == FreshOK /\ FirstSliceOK /\ (\A t \in Thread : ResultFor(t)) /\ PanicOK

=============================================================================
