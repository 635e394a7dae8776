------------------------- MODULE SessionsInvariant --------------------------
(***************************************************************************)
(* The inductive invariant behind Sessions' safety properties and behind   *)
(* the refinement of Rpc.                                                  *)
(***************************************************************************)
EXTENDS Sessions

\* Every waker in a queue can still wake its thread: nobody waits for two things and
\* gets one of them while the other keeps the waker.
WakersLive == \A o \in Object : \A w \in Wakers(queue[o]) : Live(thr, w)

\* A client end has each thread in its queue at most once.
WaitersDistinct ==
    \A i \in 0..MaxSessions :
        LET q == queue[ClientEnd(i)]
        IN  \A m, n \in 1..Len(q) : q[m].thread = q[n].thread => m = n

TableOK ==
    /\ SleepersOK(thr)
    /\ WakersOK(thr, queue)
    /\ WakersLive
    /\ WaitersDistinct

\* The thread with the slice is running, but for one that has just gone to sleep in
\* send_sync_request and whose request is still to be queued.
SliceOK ==
    \A t \in Thread : thr[t].state = "Running" <=> current = t /\ step[t] # "send"

\* What a client waits for.
ClientWaits(t) ==
    CASE step[t] = "connecting"        -> thr[t].waitObjects = <<ClientEnd(0)>>
      [] step[t] \in {"send", "asking"} -> \E i \in Session : thr[t].waitObjects = <<ClientEnd(i)>>
      [] OTHER                         -> thr[t].waitObjects = <<>>

ClientStepOK(t) ==
    /\ step[t] \in ClientStep
    /\ thr[t].resume = Normal
    /\ thr[t].state = "Waiting" =>
        /\ step[t] \in {"connecting", "send", "asking", "sleeping"}
        /\ ClientWaits(t)
        /\ thr[t].waitType = (IF step[t] = "sleeping" THEN "Sleep" ELSE "WaitSync1")
    /\ step[t] = "connect" => current = t
    /\ step[t] = "send" => current = t /\ thr[t].state = "Waiting"
    /\ current = t => payload = Normal

\* Where a client's last request is: on its way, answered, or heard.
Pending(t) == step[t] = "send" \/ (step[t] = "asking" /\ thr[t].state = "Waiting")
Last(t) == IF sent[t] = 0 THEN Request(t, 0) ELSE Response(Request(t, sent[t]))

ClientDataOK(t) ==
    /\ Pending(t) => ipcData[t] = Request(t, sent[t])
    /\ step[t] \in {"send", "asking"} => sent[t] > 0
    /\ ~Pending(t) => ipcData[t] = Last(t)
    /\ step[t] \notin {"send", "asking"} => answer[t] = Last(t)

ClientsOK == \A t \in Client : ClientStepOK(t) /\ ClientDataOK(t)

\* The service is resumed by its port, or by a session that has a request.
GoodResume(r) ==
    /\ r.kind = "WaitSyncN"
    /\ r.index # 1 => /\ r.index - 1 \in 1..Len(handles)
                      /\ requestQueue[handles[r.index - 1]] # <<>>

\* What the service has in its hands is the first request of session i, or the answer.
Holds(i, m) ==
    /\ i \in Session /\ requestQueue[i] # <<>>
    /\ buffer = (IF m = "request" THEN ipcData[Head(requestQueue[i])]
                                  ELSE Response(ipcData[Head(requestQueue[i])]))

ServiceOK ==
    /\ step[server] \in ServiceStep
    /\ thr[server].state \in {"Ready", "Running", "Waiting"}
    /\ thr[server].state = "Waiting" =>
        \/ /\ step[server] = "receive" /\ thr[server].waitObjects = WaitList
           /\ thr[server].waitType = "WaitSyncN"
        \/ /\ step[server] = "accept" /\ thr[server].waitObjects = <<ServerEnd(0)>>
           /\ thr[server].waitType = "WaitSync1"
    /\ step[server] = "receive" /\ thr[server].state = "Ready" => GoodResume(thr[server].resume)
    /\ step[server] = "receive" /\ current = server => GoodResume(payload)
    /\ step[server] = "handle" => current = server /\ Holds(from, "request")
    /\ step[server] # "loop" => replyTarget = NoSession
    /\ replyTarget # NoSession => Holds(replyTarget, "response")

\* The thread whose request is being queued at session i.
Sends(t, i) == t \in Client /\ step[t] = "send" /\ ClientEnd(i) \in Objects(thr, t)

\* The ends of a session, and of the port, are in step.
EndsMatch ==
    \A i \in Session :
        LET waiting == ThreadsOf(queue[ClientEnd(i)])
        IN  waiting = IF Sends(current, i) THEN Append(requestQueue[i], current) ELSE requestQueue[i]

\* Nothing is queued at the port before a session is created.
SessionsCounted == created = 0 => sessionQueue = <<>>

Inv ==
    /\ TypeOK
    /\ NoPanic
    /\ TableOK
    /\ SliceOK
    /\ ClientsOK
    /\ ServiceOK
    /\ EndsMatch
    /\ ConnectorsMatchSessions
    /\ SessionsCounted

-----------------------------------------------------------------------------
(* With the service's thread first in the table *)

\* A sleeping service is in the queues of everything it waits for.
ServiceQueued ==
    thr[server].state = "Waiting" =>
        \A o \in Objects(thr, server) : WakerOf(thr, server) \in Wakers(queue[o])

\* Every session has been accepted or is still queued.
SessionsKnown ==
    \A i \in 1..created : (\E n \in 1..Len(handles) : handles[n] = i)
                          \/ (\E n \in 1..Len(sessionQueue) : sessionQueue[n] = i)

\* What there is for the service to do.
NoSessions == sessionQueue = <<>>
NoRequests == \A i \in Session : requestQueue[i] = <<>>
OnlyFrom(i) == Len(requestQueue[i]) = 1 /\ \A j \in Session \ {i} : requestQueue[j] = <<>>

\* The event that resumed the service is the only one.
OneEvent(r) ==
    IF r.index = 1 THEN Len(sessionQueue) = 1 /\ NoRequests
                   ELSE NoSessions /\ OnlyFrom(handles[r.index - 1])

FirstOK ==
    server = 0 =>
        /\ step[server] = "loop" =>
              NoSessions /\ (IF replyTarget = NoSession THEN NoRequests ELSE OnlyFrom(replyTarget))
        /\ step[server] = "receive" /\ thr[server].state = "Waiting" => NoSessions /\ NoRequests
        /\ step[server] = "receive" /\ thr[server].state = "Ready" => OneEvent(thr[server].resume)
        /\ step[server] = "receive" /\ current = server => OneEvent(payload)
        /\ step[server] = "handle" => NoSessions /\ OnlyFrom(from)
        /\ step[server] = "accept" => Len(sessionQueue) = 1 /\ NoRequests /\ current = server
        /\ current \in Client /\ step[current] # "connect" => thr[server].state = "Waiting"

\* Nobody has a session that was not created.
SessionsExist ==
    /\ open \subseteq 1..created
    /\ \A t \in Client : step[t] = "send" =>
          \A i \in Session : ClientEnd(i) \in Objects(thr, t) => i <= created

FirstInv == Inv /\ ServiceQueued /\ SessionsKnown /\ SessionsExist /\ FirstOK

=============================================================================
