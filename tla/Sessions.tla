------------------------------ MODULE Sessions ------------------------------
(***************************************************************************)
(* Ports and sessions (hle/src/port.rs and session.rs), the system calls   *)
(* on them (hle/src/svc.rs, HLEContext in hle/src/thread.rs), the loop of  *)
(* an HLE service (declare_service! in hle/src/service/helper.rs) and the  *)
(* threads that are its clients.                                           *)
(*                                                                         *)
(* Pair 0 of endpoints is the service's port, the others are sessions.  A  *)
(* message is copied from one thread's ipc_data to another's by            *)
(* translate_ipc; its normal parameters are the request it belongs to.     *)
(*                                                                         *)
(* The scheduler is that of Kernel without timers and interrupts, which    *)
(* IPC does not use: the first ready thread runs until it suspends itself. *)
(***************************************************************************)
EXTENDS ThreadTable

CONSTANTS
    Servers,      \* the threads that may be the service's: the first of the table or a later one
    MaxSessions,  \* bound on the sessions ever created
    MaxRequests,  \* bound on the requests of each client
    MaxWaits      \* bound on the waits of each client

Session == 1..MaxSessions
ServerEnd(i) == <<"server", i>>
ClientEnd(i) == <<"client", i>>
NoSession == 0

ASSUME SessionsAssumption ==
    /\ Servers \subseteq Thread
    /\ MaxSessions \in Nat /\ MaxRequests \in Nat
    /\ MaxWaits \in 0..MaxKey
    /\ Object = {"server", "client"} \X (0..MaxSessions)

VARIABLES
    server,       \* the service's thread; the others are clients
    current,      \* the thread that has its slice
    payload,      \* the ThreadResume it was resumed with
    sessionQueue, \* ServerPortHLE.session_queue
    requestQueue, \* ServerSessionHLE.request_queue of every session
    ipcData,      \* CommonThread.ipc_data of every thread
    created,      \* how many sessions there are
    open,         \* the sessions that the clients' process has a handle of
    step,         \* where every thread is in its program
    handles,      \* the service's handles, without that of its port
    replyTarget,  \* whom the service owes a reply
    buffer,       \* the service's data
    from,         \* the session the service has received from
    sent,         \* how many requests every client has made
    answer        \* what the client read after its last request

tableVars == <<thr, queue, panic>>
portVars == <<sessionQueue, created, open>>
serviceVars == <<handles, replyTarget, buffer, from>>
clientVars == <<sent, answer>>
vars == <<server, tableVars, current, payload, portVars, requestQueue, ipcData, step,
          serviceVars, clientVars>>

Client == Thread \ {server}

Message == [kind : {"request", "response"}, thread : Thread, number : 0..MaxRequests]
Request(t, n) == [kind |-> "request", thread |-> t, number |-> n]
Response(m) == [m EXCEPT !.kind = "response"]

ServiceStep == {"loop", "receive", "handle", "accept"}
ClientStep == {"idle", "connect", "connecting", "send", "asking", "sleeping", "done"}

TypeOK ==
    /\ server \in Servers
    /\ thr \in [Thread -> CommonThread]
    /\ queue \in [Object -> Seq(Waker)]
    /\ panic \in {"none", "stale waker", "wake_up", "unreachable", "replied to nobody",
                  "client disconnected", "disconnect"}
    /\ current \in Thread \cup {NoThread}
    /\ payload \in ThreadResume
    /\ sessionQueue \in Seq(Session)
    /\ requestQueue \in [Session -> Seq(Thread)]
    /\ ipcData \in [Thread -> Message]
    /\ created \in 0..MaxSessions
    /\ open \subseteq Session
    /\ step \in [Thread -> ServiceStep \cup ClientStep]
    /\ handles \in Seq(Session)
    /\ replyTarget \in Session \cup {NoSession}
    /\ buffer \in Message
    /\ from \in Session \cup {NoSession}
    /\ sent \in [Thread -> 0..MaxRequests]
    /\ answer \in [Thread -> Message]

Init ==
    /\ server \in Servers
    /\ thr = [t \in Thread |-> NewThread("Ready")]
    /\ queue = [o \in Object |-> <<>>]
    /\ panic = "none"
    /\ current = NoThread
    /\ payload = Normal
    /\ sessionQueue = <<>>
    /\ requestQueue = [i \in Session |-> <<>>]
    /\ ipcData = [t \in Thread |-> Request(t, 0)]
    /\ created = 0
    /\ open = {}
    /\ step = [t \in Thread |-> IF t = server THEN "loop" ELSE "idle"]
    /\ handles = <<>>
    /\ replyTarget = NoSession
    /\ buffer = Request(server, 0)
    /\ from = NoSession
    /\ sent = [t \in Thread |-> 0]
    /\ answer = [t \in Thread |-> Request(t, 0)]

-----------------------------------------------------------------------------
(* Endpoints *)

\* Fault: the waker stays in the queue.
WakeThreadSilent(o) == UNCHANGED tableVars

\* wake_thread of all four endpoints: pop the first waker, which must be live.
WakeThread(o) ==
    IF queue[o] = <<>> THEN UNCHANGED tableVars
    ELSE LET w == Head(queue[o])
         IN  IF Live(thr, w)
             THEN WakeByObject(thr, [queue EXCEPT ![o] = Tail(@)], {w.thread}, o)
             ELSE panic' = "stale waker" /\ UNCHANGED <<thr, queue>>

\* The bounds on wake_key leave room for another wait.
MayWait(t) == thr[t].wakeKey < (IF t = server THEN MaxKey ELSE MaxWaits)

\* suspend_thread, and wait() on each endpoint: the waker is queued whether or
\* not there is something to receive.
SuspendOn(t, list, type) ==
    /\ MayWait(t)
    /\ thr' = Suspend(thr, t, list, NoTimeout, type)
    /\ queue' = [o \in Object |-> IF \E i \in 1..Len(list) : list[i] = o
                                  THEN Append(queue[o], WakerOf(thr, t)) ELSE queue[o]]
    /\ UNCHANGED panic

\* Fault: a thread that waits does not keep its objects alive.
ClientAliveByHandle(i) == i \in open

\* The client endpoint exists while there is a handle or a thread waits for it:
\* wait_objects holds references, the server's own is weak.
ClientAlive(i) ==
    i \in open \/ \E t \in Thread : ClientEnd(i) \in Objects(thr, t)

Panic(what) == panic' = what /\ UNCHANGED <<thr, queue>>

Goto(t, s) == step' = [step EXCEPT ![t] = s]

-----------------------------------------------------------------------------
(* Scheduler *)

Ready == {t \in Thread : thr[t].state = "Ready"}

\* ThreadHLE::resume: the payload is put where the suspended call will take it from.
GiveSlice(t) ==
    /\ payload' = thr[t].resume
    /\ current' = t

RunNext ==
    /\ current = NoThread
    /\ \E t \in Ready :
          /\ \A u \in Ready : t <= u
          /\ thr' = [thr EXCEPT ![t].state = "Running", ![t].resume = Normal]
          /\ GiveSlice(t)
    /\ UNCHANGED <<queue, panic, portVars, requestQueue, ipcData, step, serviceVars, clientVars>>

\* tick: a sleeping thread's time has come.
WakeSleeper ==
    /\ current = NoThread
    /\ \E t \in Client :
          /\ thr[t].state = "Waiting" /\ thr[t].waitType = "Sleep"
          /\ thr' = [thr EXCEPT ![t] = Awake(@, ResumeByTimeout(@))]
    /\ UNCHANGED <<queue, panic, current, payload, portVars, requestQueue, ipcData, step,
                   serviceVars, clientVars>>

-----------------------------------------------------------------------------
(* The service *)

\* reply_and_receive_pre with a reply target: ServerSessionHLE::reply pops the
\* request, copies the reply to its thread and wakes the first waker of the
\* client's end.
Reply ==
    /\ current = server /\ step[server] = "loop" /\ replyTarget # NoSession
    /\ IF requestQueue[replyTarget] = <<>>
       THEN Panic("replied to nobody") /\ UNCHANGED <<requestQueue, ipcData>>
       ELSE /\ requestQueue' = [requestQueue EXCEPT ![replyTarget] = Tail(@)]
            /\ ipcData' = [ipcData EXCEPT ![server] = buffer,
                                          ![Head(requestQueue[replyTarget])] = buffer]
            /\ IF ClientAlive(replyTarget) THEN WakeThread(ClientEnd(replyTarget))
                                           ELSE Panic("client disconnected")
    /\ replyTarget' = NoSession
    /\ UNCHANGED <<current, payload, portVars, step, handles, buffer, from, clientVars>>

\* Everything the service waits for: its port, and the sessions it has accepted.
WaitList == <<ServerEnd(0)>> \o [i \in 1..Len(handles) |-> ServerEnd(handles[i])]

\* The rest of reply_and_receive_pre: wait_sync_n on all handles.
Receive ==
    /\ current = server /\ step[server] = "loop" /\ replyTarget = NoSession
    /\ SuspendOn(server, WaitList, "WaitSyncN")
    /\ ipcData' = [ipcData EXCEPT ![server] = buffer]
    /\ Goto(server, "receive")
    /\ current' = NoThread
    /\ UNCHANGED <<payload, portVars, requestQueue, serviceVars, clientVars>>

\* Fault: the latest request is received and the first one answered.
ReceivedLast(i) ==
    /\ ipcData' = [ipcData EXCEPT ![server] = ipcData[requestQueue[i][Len(requestQueue[i])]]]
    /\ buffer' = ipcData'[server]
    /\ from' = i
    /\ UNCHANGED tableVars
    /\ Goto(server, "handle")

\* ServerSessionHLE::receive copies the first request, which stays queued until
\* the reply; the service panics when there is none.
Received(i) ==
    /\ IF requestQueue[i] = <<>>
       THEN Panic("disconnect") /\ UNCHANGED <<ipcData, buffer, from>>
       ELSE /\ ipcData' = [ipcData EXCEPT ![server] = ipcData[Head(requestQueue[i])]]
            /\ buffer' = ipcData'[server]
            /\ from' = i
            /\ UNCHANGED tableVars
    /\ Goto(server, "handle")

\* reply_and_receive_post: the index says whether the port or a session woke the
\* service.
Resumed ==
    /\ current = server /\ step[server] = "receive"
    /\ \/ /\ payload.kind # "WaitSyncN"
          /\ Panic("unreachable") /\ UNCHANGED <<ipcData, buffer, from, step>>
       \/ /\ payload.kind = "WaitSyncN" /\ payload.index = 1
          /\ buffer' = ipcData[server]
          /\ Goto(server, "accept")
          /\ UNCHANGED <<tableVars, ipcData, from>>
       \/ /\ payload.kind = "WaitSyncN" /\ payload.index > 1
          /\ Received(handles[payload.index - 1])
    /\ UNCHANGED <<current, payload, portVars, requestQueue, handles, replyTarget, clientVars>>

\* The service's handle_ipc, which writes a response over the request (external:
\* the services differ in what they answer).
HandleIpc ==
    /\ current = server /\ step[server] = "handle"
    /\ buffer' = Response(buffer)
    /\ replyTarget' = from
    /\ Goto(server, "loop")
    /\ UNCHANGED <<tableVars, current, payload, portVars, requestQueue, ipcData, handles, from,
                   clientVars>>

\* Fault: accepting a session wakes nobody.
AcceptSessionSilent ==
    /\ current = server /\ step[server] = "accept" /\ sessionQueue # <<>>
    /\ sessionQueue' = Tail(sessionQueue)
    /\ handles' = Append(handles, Head(sessionQueue))
    /\ Goto(server, "loop")
    /\ UNCHANGED <<tableVars, current, payload, created, open, requestQueue, ipcData, replyTarget,
                   buffer, from, clientVars>>

\* Fault: the service keeps the handle of its port for every session.
AcceptSessionPort ==
    /\ current = server /\ step[server] = "accept" /\ sessionQueue # <<>>
    /\ sessionQueue' = Tail(sessionQueue)
    /\ handles' = Append(handles, NoSession)
    /\ WakeThread(ClientEnd(0))
    /\ Goto(server, "loop")
    /\ UNCHANGED <<current, payload, created, open, requestQueue, ipcData, replyTarget, buffer,
                   from, clientVars>>

\* ServerPortHLE::accept_session takes the first session and wakes the first thread
\* that connects.  The client's end of the port is never gone: srv and the kernel keep it.
AcceptFirst ==
    /\ sessionQueue' = Tail(sessionQueue)
    /\ handles' = Append(handles, Head(sessionQueue))
    /\ WakeThread(ClientEnd(0))

\* accept_session: take a session, or wait for one.
AcceptSession ==
    /\ current = server /\ step[server] = "accept"
    /\ IF sessionQueue = <<>>
       THEN /\ SuspendOn(server, <<ServerEnd(0)>>, "WaitSync1")
            /\ current' = NoThread
            /\ UNCHANGED <<sessionQueue, handles, step>>
       ELSE /\ AcceptFirst
            /\ Goto(server, "loop")
            /\ UNCHANGED current
    /\ UNCHANGED <<payload, created, open, requestQueue, ipcData, replyTarget, buffer, from,
                   clientVars>>

-----------------------------------------------------------------------------
(* The clients *)

InSlice(t, s) == t \in Client /\ current = t /\ step[t] = s

\* ServerPortHLE::enqueue_session
EnqueueSession(i) ==
    /\ sessionQueue' = Append(sessionQueue, i)
    /\ WakeThread(ServerEnd(0))

\* create_session_to_port: the session is queued at the port ...
Connect(t) ==
    /\ InSlice(t, "idle")
    /\ created < MaxSessions
    /\ MayWait(t)
    /\ created' = created + 1
    /\ EnqueueSession(created + 1)
    /\ Goto(t, "connect")
    /\ UNCHANGED <<current, payload, open, requestQueue, ipcData, serviceVars, clientVars>>

\* ... and the thread waits until a session is accepted; its handle is made now.
ConnectWait(t) ==
    /\ InSlice(t, "connect")
    /\ SuspendOn(t, <<ClientEnd(0)>>, "WaitSync1")
    /\ open' = open \cup {created}
    /\ Goto(t, "connecting")
    /\ current' = NoThread
    /\ UNCHANGED <<payload, sessionQueue, created, requestQueue, ipcData, serviceVars, clientVars>>

\* send_sync_request: the thread goes to sleep on its end of the session ...
SendSyncRequest(t) ==
    /\ InSlice(t, "idle")
    /\ sent[t] < MaxRequests
    /\ \E i \in open : SuspendOn(t, <<ClientEnd(i)>>, "WaitSync1")
    /\ sent' = [sent EXCEPT ![t] = @ + 1]
    /\ ipcData' = [ipcData EXCEPT ![t] = Request(t, sent'[t])]
    /\ Goto(t, "send")
    /\ UNCHANGED <<current, payload, portVars, requestQueue, serviceVars, answer>>

\* Fault: requests are queued at the front.
EnqueueRequestFirst(t) ==
    /\ InSlice(t, "send")
    /\ \E i \in Session :
          /\ ClientEnd(i) \in Objects(thr, t)
          /\ requestQueue' = [requestQueue EXCEPT ![i] = <<t>> \o @]
          /\ WakeThread(ServerEnd(i))
    /\ Goto(t, "asking")
    /\ current' = NoThread
    /\ UNCHANGED <<payload, portVars, ipcData, serviceVars, clientVars>>

\* ... and is queued at the other (enqueue_sync_request).
EnqueueRequest(t) ==
    /\ InSlice(t, "send")
    /\ \E i \in Session :
          /\ ClientEnd(i) \in Objects(thr, t)
          /\ requestQueue' = [requestQueue EXCEPT ![i] = Append(@, t)]
          /\ WakeThread(ServerEnd(i))
    /\ Goto(t, "asking")
    /\ current' = NoThread
    /\ UNCHANGED <<payload, portVars, ipcData, serviceVars, clientVars>>

\* The thread goes on after a call that suspended it (HLEContext's await!).
Continue(t) ==
    /\ \/ InSlice(t, "asking") /\ answer' = [answer EXCEPT ![t] = ipcData[t]]
       \/ InSlice(t, "connecting") /\ UNCHANGED answer
       \/ InSlice(t, "sleeping") /\ UNCHANGED answer
    /\ IF payload = Normal THEN Goto(t, "idle") /\ UNCHANGED tableVars
                           ELSE Panic("unreachable") /\ UNCHANGED step
    /\ UNCHANGED <<current, payload, portVars, requestQueue, ipcData, serviceVars, sent>>

\* Any thread of the clients' process may close any session's handle.
CloseHandle(t) ==
    /\ InSlice(t, "idle")
    /\ \E i \in open : open' = open \ {i}
    /\ UNCHANGED <<tableVars, current, payload, sessionQueue, created, requestQueue, ipcData, step,
                   serviceVars, clientVars>>

SleepThread(t) ==
    /\ InSlice(t, "idle")
    /\ SuspendOn(t, <<>>, "Sleep")
    /\ Goto(t, "sleeping")
    /\ current' = NoThread
    /\ UNCHANGED <<payload, portVars, requestQueue, ipcData, serviceVars, clientVars>>

\* exit_thread; nobody waits for a thread here.
ExitThread(t) ==
    /\ InSlice(t, "idle")
    /\ thr' = [thr EXCEPT ![t].state = "Done"]
    /\ Goto(t, "done")
    /\ current' = NoThread
    /\ UNCHANGED <<queue, panic, payload, portVars, requestQueue, ipcData, serviceVars, clientVars>>

-----------------------------------------------------------------------------

Service == Reply \/ Receive \/ Resumed \/ HandleIpc \/ AcceptSession

\* What a client does without a choice, and what it may do.
ClientCall(t) == ConnectWait(t) \/ EnqueueRequest(t) \/ Continue(t)
ClientChoice(t) == Connect(t) \/ SendSyncRequest(t) \/ CloseHandle(t) \/ SleepThread(t)
                   \/ ExitThread(t)

Loop ==
    /\ panic = "none"
    /\ RunNext \/ WakeSleeper \/ Service \/ \E t \in Client : ClientCall(t)
    /\ UNCHANGED server

Next == Loop \/ (panic = "none" /\ UNCHANGED server /\ \E t \in Client : ClientChoice(t))

Spec == Init /\ [][Next]_vars

\* The main loop goes on, a service never stays in its handler, and a client
\* gives up its slice in the end.
Fairness ==
    /\ WF_vars(Loop)
    /\ WF_vars(panic = "none" /\ UNCHANGED server
               /\ \E t \in Client : SleepThread(t) \/ ExitThread(t))

FairSpec == Spec /\ Fairness

-----------------------------------------------------------------------------
(* Properties *)

\* No expect(), unreachable!() or panic!() of the session and service code is
\* reached: every waker popped is live, the service never replies to nobody, is
\* never woken by a session with nothing to receive ("Disconnect?"), and a client
\* endpoint outlives its outstanding requests although anybody may close its handle.
NoPanic == panic = "none"

\* The threads of a sequence of wakers, in order.
ThreadsOf(q) == [n \in 1..Len(q) |-> q[n].thread]

\* The two ends of a session are in step: the threads asleep at the client's end
\* are those whose requests are queued at the server's end, in the same order, but
\* for one that is just being queued.  So a reply wakes the thread it was copied to.
WaitersMatchRequests ==
    \A i \in Session :
        LET waiting == ThreadsOf(queue[ClientEnd(i)])
        IN  \/ waiting = requestQueue[i]
            \/ /\ current # NoThread /\ step[current] = "send"
               /\ waiting = Append(requestQueue[i], current)

\* Whatever a client finds in its slot after send_sync_request is the response to
\* the request it made last: not somebody else's, an older one or its own request.
AnswersMatch ==
    \A t \in Client : step[t] = "idle" /\ sent[t] > 0 =>
        answer[t] = Response(Request(t, sent[t]))

\* As many threads wait to be connected as there are sessions to be accepted, but
\* for one that is just being queued: accepting a session wakes one of them.
ConnectorsMatchSessions ==
    Len(queue[ClientEnd(0)]) + (IF current # NoThread /\ step[current] = "connect" THEN 1 ELSE 0)
        = Len(sessionQueue)

\* wait() of the port and of a session queue the service's waker without looking
\* for what is there already.  When the service's thread is the first of the table
\* nothing is ever there: no session and no request is left behind a sleeping
\* service.  (When it is not, clients that run before it leave requests behind.)
NothingLeftBehind ==
    server = 0 /\ step[server] = "receive" /\ thr[server].state = "Waiting" =>
        /\ sessionQueue = <<>>
        /\ \A i \in Session : requestQueue[i] = <<>>

\* Every connection is accepted and every request answered, with the service's
\* thread first in the table.
CallsReturn ==
    \A t \in Thread :
        (server = 0 /\ t # 0 /\ step[t] \in {"connecting", "asking"}) ~> (step[t] = "idle")

\* The calls as the threads see them: who sleeps at the client's end of a session,
\* what is in the callers' slots and what they took out of them.
Call == INSTANCE Rpc WITH
    Caller <- Thread,
    Channel <- Session,
    calls <- [i \in Session |-> ThreadsOf(queue[ClientEnd(i)])],
    slot <- [t \in Thread |-> IF t = server THEN Request(t, 0) ELSE ipcData[t]],
    heard <- answer

\* Ports, wakers, handles and the two queues of a session implement remote calls:
\* whatever threads close, connect or exit in between, every request is answered
\* once, in its turn and to its own thread, and is heard before the next is made.
ImplementsRpc == Call!Spec

=============================================================================
