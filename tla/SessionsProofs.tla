--------------------------- MODULE SessionsProofs ---------------------------
(***************************************************************************)
(* Proofs about ports and sessions, for every number of threads, sessions, *)
(* requests and waits: the inductive invariant, the refinement of Rpc, and *)
(* what holds when the service's thread is the first of the table.         *)
(***************************************************************************)
EXTENDS SessionsInvariant, ThreadTableProofs, SequenceTheorems

-----------------------------------------------------------------------------
(* Endpoints *)

\* The ends of the port and of the sessions are different objects.
LEMMA Endpoints ==
    /\ 0 \in 0..MaxSessions
    /\ \A i \in Session : i \in 0..MaxSessions /\ i # 0
    /\ \A i \in 0..MaxSessions : i = 0 \/ i \in Session
    /\ \A i \in 0..MaxSessions : ServerEnd(i) \in Object /\ ClientEnd(i) \in Object
    /\ \A i, j : /\ ServerEnd(i) # ClientEnd(j)
                 /\ ServerEnd(i) = ServerEnd(j) => i = j
                 /\ ClientEnd(i) = ClientEnd(j) => i = j
BY SessionsAssumption DEF Session, ServerEnd, ClientEnd

\* ThreadsOf keeps the length and the order of a queue.
LEMMA ThreadsOfType ==
    ASSUME NEW q \in Seq(Waker)
    PROVE  /\ ThreadsOf(q) \in Seq(Thread) /\ Len(ThreadsOf(q)) = Len(q)
           /\ \A n \in 1..Len(q) : ThreadsOf(q)[n] = q[n].thread
<1>1. Len(q) \in Nat /\ \A n \in 1..Len(q) : q[n] \in Waker
    OBVIOUS
<1>2. \A n \in 1..Len(q) : q[n].thread \in Thread
    BY <1>1 DEF Waker
<1> QED
    BY <1>1, <1>2 DEF ThreadsOf

\* Queueing a waker appends its thread ...
LEMMA ThreadsOfAppend ==
    ASSUME NEW q \in Seq(Waker), NEW w \in Waker
    PROVE  ThreadsOf(Append(q, w)) = Append(ThreadsOf(q), w.thread)
<1> DEFINE a == ThreadsOf(Append(q, w))
           b == Append(ThreadsOf(q), w.thread)
<1>1. w.thread \in Thread /\ Append(q, w) \in Seq(Waker) /\ Len(q) \in Nat
    BY DEF Waker
<1>2. /\ ThreadsOf(q) \in Seq(Thread) /\ Len(ThreadsOf(q)) = Len(q)
      /\ \A n \in 1..Len(q) : ThreadsOf(q)[n] = q[n].thread
    BY ThreadsOfType
<1>3. /\ a \in Seq(Thread) /\ Len(a) = Len(q) + 1
      /\ \A n \in 1..(Len(q) + 1) : a[n] = Append(q, w)[n].thread
    <2>1. Len(Append(q, w)) = Len(q) + 1
        OBVIOUS
    <2>2. a \in Seq(Thread) /\ Len(a) = Len(Append(q, w))
        BY <1>1, ThreadsOfType
    <2>3. \A n \in 1..Len(Append(q, w)) : a[n] = Append(q, w)[n].thread
        BY <1>1, ThreadsOfType
    <2> QED
        BY <2>1, <2>2, <2>3
<1>4. b \in Seq(Thread) /\ Len(b) = Len(q) + 1
    BY <1>1, <1>2
<1>5. ASSUME NEW n \in 1..(Len(q) + 1) PROVE a[n] = b[n]
    <2>1. CASE n \in 1..Len(q)
        <3>1. Append(q, w)[n] = q[n]
            BY <2>1
        <3>2. b[n] = ThreadsOf(q)[n]
            BY <2>1, <1>1, <1>2
        <3> QED
            BY <3>1, <3>2, <1>2, <1>3, <2>1
    <2>2. CASE n = Len(q) + 1
        <3>1. Append(q, w)[n] = w
            BY <2>2
        <3>2. b[n] = w.thread
            BY <2>2, <1>1, <1>2
        <3> QED
            BY <3>1, <3>2, <1>3, <2>2
    <2>3. n \in 1..Len(q) \/ n = Len(q) + 1
        BY <1>1
    <2> QED
        BY <2>1, <2>2, <2>3
<1> HIDE DEF a, b
<1>6. a = b
    BY <1>1, <1>3, <1>4, <1>5
<1> QED
    BY <1>6 DEF a, b

\* ... and taking the first waker takes the first thread.
LEMMA ThreadsOfTail ==
    ASSUME NEW q \in Seq(Waker), q # <<>>
    PROVE  /\ ThreadsOf(Tail(q)) = Tail(ThreadsOf(q))
           /\ ThreadsOf(q) # <<>> /\ Head(ThreadsOf(q)) = Head(q).thread
<1> DEFINE a == ThreadsOf(Tail(q))
           s == ThreadsOf(q)
<1>1. /\ Tail(q) \in Seq(Waker) /\ Len(Tail(q)) = Len(q) - 1 /\ Len(q) \in Nat \ {0}
      /\ \A i \in 1..Len(Tail(q)) : i + 1 \in 1..Len(q) /\ Tail(q)[i] = q[i + 1]
      /\ Head(q) = q[1] /\ 1 \in 1..Len(q)
    BY TailWakers
<1>2. s \in Seq(Thread) /\ Len(s) = Len(q) /\ \A n \in 1..Len(q) : s[n] = q[n].thread
    BY ThreadsOfType
<1>3. a \in Seq(Thread) /\ Len(a) = Len(q) - 1 /\ \A n \in 1..(Len(q) - 1) : a[n] = Tail(q)[n].thread
    BY <1>1, ThreadsOfType
<1> HIDE DEF a, s
<1>4. s # <<>> /\ Head(s) = s[1]
    BY <1>1, <1>2
<1>5. Tail(s) \in Seq(Thread) /\ Len(Tail(s)) = Len(q) - 1 /\ \A n \in 1..(Len(q) - 1) : Tail(s)[n] = s[n + 1]
    BY <1>1, <1>2, <1>4
<1>6. ASSUME NEW n \in 1..(Len(q) - 1) PROVE a[n] = Tail(s)[n]
    BY <1>1, <1>2, <1>3, <1>5
<1>7. a = Tail(s)
    BY <1>1, <1>3, <1>5, <1>6
<1> QED
    BY <1>1, <1>2, <1>4, <1>7 DEF a, s

-----------------------------------------------------------------------------
(* Waking up *)

\* wake_thread of an endpoint whose queue is not empty: with every waker live it never
\* panics, wakes the first thread and takes it out of all queues.
LEMMA WakeThreadStep ==
    ASSUME thr \in Table, queue \in Queues, TableOK, NEW o \in Object, queue[o] # <<>>,
           WakeThread(o), NEW t, t = Head(queue[o]).thread
    PROVE  /\ t \in Thread /\ thr[t].state = "Waiting" /\ o \in Objects(thr, t)
           /\ ~WakeFails(thr[t], o)
           /\ panic' = panic
           /\ thr' = [thr EXCEPT ![t] = Awake(thr[t], ResumeByObject(thr[t], o))]
           /\ thr' \in Table /\ queue' \in Queues
           /\ SleepersOK(thr') /\ WakersOK(thr', queue') /\ WakersLive'
           /\ \A p \in Object : p # o /\ p \notin Objects(thr, t) => queue'[p] = queue[p]
           /\ (\A m, n \in 1..Len(queue[o]) : queue[o][m].thread = queue[o][n].thread => m = n)
                 => queue'[o] = Tail(queue[o])
<1> DEFINE q == queue[o]
           w == Head(q)
           qs == [queue EXCEPT ![o] = Tail(queue[o])]
<1>1. q \in Seq(Waker)
    BY DEF Queues
<1>2. /\ Tail(q) \in Seq(Waker) /\ Len(Tail(q)) = Len(q) - 1 /\ Len(q) \in Nat \ {0}
      /\ \A i \in 1..Len(Tail(q)) : i + 1 \in 1..Len(q) /\ Tail(q)[i] = q[i + 1]
      /\ w = q[1] /\ 1 \in 1..Len(q)
      /\ w \in Wakers(q) /\ Wakers(Tail(q)) \subseteq Wakers(q)
    BY <1>1, TailWakers
<1>3. \A p \in Object : qs[p] = IF p = o THEN Tail(q) ELSE queue[p]
    BY DEF Queues
<1>4. qs \in Queues
    BY <1>2 DEF Queues
<1>5. \A p \in Object : Wakers(qs[p]) \subseteq Wakers(queue[p])
    BY <1>2, <1>3
<1>6. w \in Waker /\ t \in Thread
    BY <1>1, <1>2, WakersType DEF Waker
<1>7. Live(thr, w) /\ SleepersOK(thr) /\ WakersOK(thr, queue) /\ WakersLive
    BY <1>2 DEF TableOK, WakersLive
<1>8. WakersOK(thr, qs)
    BY <1>5, <1>7 DEF WakersOK
<1>9. WakerOf(thr, t) = w
    BY <1>6, <1>7 DEF WakerOf, Live, Waker
<1>10. thr[t].state = "Waiting" /\ o \in Objects(thr, t) /\ ~WakeFails(thr[t], o)
    BY <1>2, <1>6, <1>7, <1>9, LiveWakerSucceeds
<1>11. WakeByObject(thr, qs, {t}, o)
    BY <1>7 DEF WakeThread
<1> HIDE DEF qs
<1>12. Wakes(thr, qs, {t}, thr', queue') /\ panic' = panic
    BY <1>4, <1>6, <1>7, <1>8, <1>10, <1>11, WakeByObjectStep
<1>13. thr' = [thr EXCEPT ![t] = Awake(thr[t], ResumeByObject(thr[t], o))]
    BY <1>6, <1>10, <1>11 DEF WakeByObject, Table
<1>14. queue' = [p \in Object |-> Without(qs[p], {u \in {t} : p \in Objects(thr, u)})]
    BY <1>10, <1>11 DEF WakeByObject, Purge
<1>15. WakersLive'
    <2> SUFFICES ASSUME NEW p \in Object, NEW v \in Wakers(queue'[p])
                 PROVE  Live(thr', v)
        BY DEF WakersLive
    <2>1. v \in Wakers(qs[p]) /\ (v.thread = t => ~Live(thr, v))
        BY <1>12 DEF Wakes
    <2>2. v \in Wakers(queue[p])
        BY <2>1, <1>5
    <2>3. Live(thr, v)
        BY <2>2, <1>7 DEF WakersLive
    <2>4. v.thread # t
        BY <2>1, <2>3
    <2>5. queue[p] \in Seq(Waker)
        BY DEF Queues
    <2>6. v.thread \in Thread
        BY <2>2, <2>5, WakersType DEF Waker
    <2> QED
        BY <2>3, <2>4, <2>6, <1>12 DEF Live, Wakes
<1>16. ASSUME NEW p \in Object, p # o, p \notin Objects(thr, t) PROVE queue'[p] = queue[p]
    <2>1. queue[p] \in Seq(Waker) /\ qs[p] = queue[p]
        BY <1>3, <1>16 DEF Queues
    <2>2. {u \in {t} : p \in Objects(thr, u)} = {}
        BY <1>16
    <2>3. Without(queue[p], {}) = queue[p]
        BY <2>1, WithoutNone
    <2> QED
        BY <1>14, <2>1, <2>2, <2>3
<1>17. ASSUME \A m, n \in 1..Len(q) : q[m].thread = q[n].thread => m = n
       PROVE  queue'[o] = Tail(q)
    <2>1. \A i \in 1..Len(Tail(q)) : Tail(q)[i].thread \notin {t}
        <3> SUFFICES ASSUME NEW i \in 1..Len(Tail(q)), Tail(q)[i].thread = t PROVE FALSE
            OBVIOUS
        <3>1. i + 1 \in 1..Len(q) /\ q[i + 1].thread = q[1].thread /\ i \in Nat /\ i # 0
            BY <1>2
        <3>2. i + 1 = 1
            BY <3>1, <1>17, <1>2
        <3> QED
            BY <3>1, <3>2
    <2>2. Without(Tail(q), {t}) = Tail(q)
        BY <2>1, <1>2, WithoutNone
    <2>3. {u \in {t} : o \in Objects(thr, u)} = {t}
        BY <1>10
    <2> QED
        BY <2>2, <2>3, <1>3, <1>14
<1> QED
    BY <1>6, <1>10, <1>12, <1>13, <1>15, <1>16, <1>17 DEF Wakes

\* What a sleeping client is queued for: exactly one client end, or nothing.
LEMMA SleepingClient ==
    ASSUME Inv, NEW t \in Client, thr[t].state = "Waiting", NEW o \in Objects(thr, t)
    PROVE  \E i \in 0..MaxSessions :
              /\ o = ClientEnd(i) /\ thr[t].waitObjects = <<ClientEnd(i)>>
              /\ Objects(thr, t) = {ClientEnd(i)}
              /\ thr[t].waitType = "WaitSync1" /\ step[t] \in {"connecting", "send", "asking"}
              /\ i = 0 <=> step[t] = "connecting"
<1>1. ClientStepOK(t)
    BY DEF Inv, ClientsOK
<1>2. thr[t].waitObjects # <<>>
    BY DEF Objects
<1>3. \E i \in 0..MaxSessions : thr[t].waitObjects = <<ClientEnd(i)>> /\ (i = 0 <=> step[t] = "connecting")
    BY <1>1, <1>2, Endpoints DEF ClientStepOK, ClientWaits
<1>4. PICK i \in 0..MaxSessions : thr[t].waitObjects = <<ClientEnd(i)>> /\ (i = 0 <=> step[t] = "connecting")
    BY <1>3
<1>5. Objects(thr, t) = {ClientEnd(i)}
    BY <1>4 DEF Objects
<1>6. step[t] \in {"connecting", "send", "asking"}
    BY <1>1, <1>2 DEF ClientStepOK, ClientWaits
<1> QED
    BY <1>1, <1>4, <1>5, <1>6 DEF ClientStepOK

\* The objects in the service's list are its port and its sessions.
LEMMA WaitListType ==
    ASSUME TypeOK
    PROVE  /\ WaitList \in Seq(Object) /\ Len(WaitList) = Len(handles) + 1
           /\ WaitList[1] = ServerEnd(0) /\ Len(handles) \in Nat
           /\ \A n \in 1..Len(handles) : WaitList[n + 1] = ServerEnd(handles[n])
           /\ \A n \in 1..Len(WaitList) : \E i \in 0..MaxSessions : WaitList[n] = ServerEnd(i)
<1> DEFINE a == <<ServerEnd(0)>>
           b == [i \in 1..Len(handles) |-> ServerEnd(handles[i])]
<1> handles \in Seq(Session)
    BY DEF TypeOK
<1>1. Len(handles) \in Nat /\ \A n \in 1..Len(handles) : handles[n] \in Session
    OBVIOUS
<1>2. \A n \in 1..Len(handles) : ServerEnd(handles[n]) \in Object
    BY <1>1, Endpoints
<1>3. a \in Seq(Object) /\ Len(a) = 1 /\ a[1] = ServerEnd(0)
    BY Endpoints
<1>4. b \in Seq(Object) /\ Len(b) = Len(handles) /\ \A n \in 1..Len(handles) : b[n] = ServerEnd(handles[n])
    BY <1>1, <1>2
<1>5. WaitList = a \o b
    BY DEF WaitList
<1> HIDE DEF a, b
<1>a. a \in Seq(Object)
    BY <1>3
<1>b. b \in Seq(Object)
    BY <1>4
<1>6. /\ a \o b \in Seq(Object) /\ Len(a \o b) = Len(a) + Len(b)
      /\ \A i \in 1..(Len(a) + Len(b)) : (a \o b)[i] = IF i <= Len(a) THEN a[i] ELSE b[i - Len(a)]
    BY <1>a, <1>b, ConcatProperties, Zenon
<1>7. WaitList \in Seq(Object) /\ Len(WaitList) = Len(handles) + 1 /\ WaitList[1] = ServerEnd(0)
    BY <1>1, <1>3, <1>4, <1>5, <1>6
<1>8. \A n \in 1..Len(handles) : WaitList[n + 1] = ServerEnd(handles[n])
    <2> TAKE n \in 1..Len(handles)
    <2>1. n + 1 \in 1..(Len(a) + Len(b)) /\ ~(n + 1 <= Len(a)) /\ n + 1 - Len(a) = n
        BY <1>1, <1>3, <1>4
    <2> QED
        BY <2>1, <1>4, <1>5, <1>6
<1>9. \A n \in 1..Len(WaitList) : \E i \in 0..MaxSessions : WaitList[n] = ServerEnd(i)
    <2> TAKE n \in 1..Len(WaitList)
    <2>1. n = 1 \/ (n - 1 \in 1..Len(handles) /\ n = (n - 1) + 1)
        BY <1>1, <1>7
    <2>2. CASE n = 1
        BY <2>2, <1>7, Endpoints
    <2>3. CASE n - 1 \in 1..Len(handles) /\ n = (n - 1) + 1
        BY <2>3, <1>1, <1>8, Endpoints
    <2> QED
        BY <2>1, <2>2, <2>3
<1> QED
    BY <1>1, <1>7, <1>8, <1>9

\* The service waits for server ends only.
LEMMA SleepingServer ==
    ASSUME Inv, thr[server].state = "Waiting", NEW o \in Objects(thr, server)
    PROVE  \E i \in 0..MaxSessions : o = ServerEnd(i)
<1>1. thr[server].waitObjects \in {WaitList, <<ServerEnd(0)>>}
    BY DEF Inv, ServiceOK
<1>2. CASE thr[server].waitObjects = WaitList
    BY <1>2, WaitListType DEF Objects, Inv
<1>3. CASE thr[server].waitObjects = <<ServerEnd(0)>>
    BY <1>3, Endpoints DEF Objects
<1> QED
    BY <1>1, <1>2, <1>3

\* The types of the table, as the lemmas on waking use them.
LEMMA TableType ==
    ASSUME TypeOK
    PROVE  /\ thr \in Table /\ queue \in Queues /\ server \in Thread
           /\ Client \subseteq Thread /\ server \notin Client
           /\ \A t \in Thread : t = server \/ t \in Client
           /\ NoThread \notin Thread
<1>1. thr \in Table /\ queue \in Queues
    BY DEF TypeOK, Table, Queues
<1>2. server \in Thread
    BY SessionsAssumption DEF TypeOK
<1>3. NoThread \notin Thread
    BY ThreadTableAssumption DEF NoThread, Thread
<1> QED
    BY <1>1, <1>2, <1>3 DEF Client

\* wake_thread of a client end wakes its first thread, which is a client, and does
\* not touch any other queue.
LEMMA WakeClient ==
    ASSUME Inv, NEW i \in 0..MaxSessions, queue[ClientEnd(i)] # <<>>, WakeThread(ClientEnd(i)),
           NEW t, t = Head(queue[ClientEnd(i)]).thread
    PROVE  /\ t \in Client /\ thr[t].state = "Waiting" /\ thr[t].waitObjects = <<ClientEnd(i)>>
           /\ step[t] \in {"connecting", "send", "asking"} /\ (i = 0 <=> step[t] = "connecting")
           /\ panic' = panic
           /\ thr' \in Table /\ queue' \in Queues /\ TableOK'
           /\ thr' = [thr EXCEPT ![t] = Awake(thr[t], Normal)]
           /\ queue' = [queue EXCEPT ![ClientEnd(i)] = Tail(queue[ClientEnd(i)])]
<1> DEFINE o == ClientEnd(i)
           q == queue[o]
<1>1. TypeOK /\ TableOK /\ o \in Object
    BY Endpoints DEF Inv
<1>2. thr \in Table /\ queue \in Queues
    BY <1>1, TableType
<1>3. \A m, n \in 1..Len(q) : q[m].thread = q[n].thread => m = n
    BY <1>1 DEF TableOK, WaitersDistinct
<1>4. /\ t \in Thread /\ thr[t].state = "Waiting" /\ o \in Objects(thr, t)
      /\ ~WakeFails(thr[t], o)
      /\ panic' = panic
      /\ thr' = [thr EXCEPT ![t] = Awake(thr[t], ResumeByObject(thr[t], o))]
      /\ thr' \in Table /\ queue' \in Queues
      /\ SleepersOK(thr') /\ WakersOK(thr', queue') /\ WakersLive'
      /\ \A p \in Object : p # o /\ p \notin Objects(thr, t) => queue'[p] = queue[p]
      /\ queue'[o] = Tail(q)
    BY <1>1, <1>2, <1>3, WakeThreadStep
<1>5. t \in Client
    BY <1>1, <1>4, TableType, SleepingServer, Endpoints
<1>6. PICK j \in 0..MaxSessions :
              /\ o = ClientEnd(j) /\ thr[t].waitObjects = <<ClientEnd(j)>>
              /\ Objects(thr, t) = {ClientEnd(j)}
              /\ thr[t].waitType = "WaitSync1" /\ step[t] \in {"connecting", "send", "asking"}
              /\ j = 0 <=> step[t] = "connecting"
    BY <1>4, <1>5, SleepingClient
<1>7. j = i
    BY <1>6, Endpoints
<1>8. ResumeByObject(thr[t], o) = Normal
    BY <1>6 DEF ResumeByObject
<1>9. queue' = [queue EXCEPT ![o] = Tail(q)]
    BY <1>1, <1>2, <1>4, <1>6, <1>7 DEF Queues
<1>10. WaitersDistinct'
    <2> SUFFICES ASSUME NEW k \in 0..MaxSessions,
                        NEW m \in 1..Len(queue'[ClientEnd(k)]), NEW n \in 1..Len(queue'[ClientEnd(k)]),
                        queue'[ClientEnd(k)][m].thread = queue'[ClientEnd(k)][n].thread
                 PROVE  m = n
        BY DEF WaitersDistinct
    <2>1. CASE k = i
        <3>1. q \in Seq(Waker)
            BY <1>1, <1>2 DEF Queues
        <3>2. /\ Len(Tail(q)) = Len(q) - 1 /\ Len(q) \in Nat \ {0}
              /\ \A l \in 1..Len(Tail(q)) : l + 1 \in 1..Len(q) /\ Tail(q)[l] = q[l + 1]
            BY <3>1, TailWakers
        <3>3. m \in 1..Len(Tail(q)) /\ n \in 1..Len(Tail(q)) /\ Tail(q)[m].thread = Tail(q)[n].thread
            BY <2>1, <1>4
        <3>4. m + 1 = n + 1
            BY <3>2, <3>3, <1>3
        <3> QED
            BY <3>2, <3>3, <3>4
    <2>2. CASE k # i
        <3>1. queue'[ClientEnd(k)] = queue[ClientEnd(k)]
            BY <2>2, <1>4, <1>6, <1>7, Endpoints
        <3> QED
            BY <3>1, <1>1 DEF TableOK, WaitersDistinct
    <2> QED
        BY <2>1, <2>2
<1> QED
    BY <1>4, <1>5, <1>6, <1>7, <1>8, <1>9, <1>10 DEF TableOK

\* wake_thread of a server end wakes the service or nobody, and leaves the queues of
\* the client ends alone.
LEMMA WakeServer ==
    ASSUME Inv, NEW i \in 0..MaxSessions, WakeThread(ServerEnd(i))
    PROVE  /\ panic' = panic /\ thr' \in Table /\ queue' \in Queues /\ TableOK'
           /\ \A j \in 0..MaxSessions : queue'[ClientEnd(j)] = queue[ClientEnd(j)]
           /\ \A t \in Client : thr'[t] = thr[t]
           /\ \/ thr' = thr /\ queue' = queue /\ queue[ServerEnd(i)] = <<>>
              \/ /\ thr[server].state = "Waiting" /\ ServerEnd(i) \in Objects(thr, server)
                 /\ thr'[server] = Awake(thr[server], ResumeByObject(thr[server], ServerEnd(i)))
<1> DEFINE o == ServerEnd(i)
           t == Head(queue[o]).thread
<1>1. TypeOK /\ TableOK /\ o \in Object
    BY Endpoints DEF Inv
<1>2. /\ thr \in Table /\ queue \in Queues /\ server \in Thread /\ server \notin Client
      /\ \A u \in Thread : u = server \/ u \in Client
      /\ Client \subseteq Thread
    BY <1>1, TableType
<1>3. CASE queue[o] = <<>>
    <2>1. thr' = thr /\ queue' = queue /\ panic' = panic
        BY <1>3 DEF WakeThread, tableVars
    <2>2. TableOK'
        BY <2>1, <1>1 DEF TableOK, WakersLive, WaitersDistinct
    <2> QED
        BY <1>2, <1>3, <2>1, <2>2
<1>4. CASE queue[o] # <<>>
    <2> HIDE DEF t
    <2>1. t = Head(queue[o]).thread
        BY DEF t
    <2>2. /\ t \in Thread /\ thr[t].state = "Waiting" /\ o \in Objects(thr, t)
          /\ panic' = panic
          /\ thr' = [thr EXCEPT ![t] = Awake(thr[t], ResumeByObject(thr[t], o))]
          /\ thr' \in Table /\ queue' \in Queues
          /\ SleepersOK(thr') /\ WakersOK(thr', queue') /\ WakersLive'
          /\ \A p \in Object : p # o /\ p \notin Objects(thr, t) => queue'[p] = queue[p]
        BY <1>1, <1>2, <1>4, <2>1, WakeThreadStep
    <2>3. t = server
        <3> SUFFICES ASSUME t \in Client PROVE FALSE
            BY <1>2, <2>2
        <3>1. \E j \in 0..MaxSessions : o = ClientEnd(j)
            BY <2>2, SleepingClient
        <3> QED
            BY <3>1, Endpoints
    <2>4. \A j \in 0..MaxSessions : queue'[ClientEnd(j)] = queue[ClientEnd(j)]
        <3> TAKE j \in 0..MaxSessions
        <3>1. ClientEnd(j) \notin Objects(thr, server) /\ ClientEnd(j) # o /\ ClientEnd(j) \in Object
            BY <2>2, <2>3, SleepingServer, Endpoints
        <3> QED
            BY <3>1, <2>2, <2>3
    <2>5. WaitersDistinct'
        BY <2>4, <1>1 DEF TableOK, WaitersDistinct
    <2>6. \A u \in Client : thr'[u] = thr[u]
        BY <1>2, <2>2, <2>3 DEF Table
    <2>7. thr'[server] = Awake(thr[server], ResumeByObject(thr[server], o))
        BY <1>2, <2>2, <2>3 DEF Table
    <2>8. thr[server].state = "Waiting" /\ o \in Objects(thr, server)
        BY <2>2, <2>3
    <2>9. TableOK'
        BY <2>2, <2>5 DEF TableOK
    <2> QED
        BY <2>2, <2>4, <2>6, <2>7, <2>8, <2>9
<1> QED
    BY <1>3, <1>4

-----------------------------------------------------------------------------
(* Going to sleep *)

\* A thread that does not wait is in no queue.
LEMMA AwakeNotQueued ==
    ASSUME TypeOK, TableOK, NEW t \in Thread, thr[t].state # "Waiting", NEW o \in Object
    PROVE  \A n \in 1..Len(queue[o]) : queue[o][n].thread # t
<1> SUFFICES ASSUME NEW n \in 1..Len(queue[o]), queue[o][n].thread = t PROVE FALSE
    OBVIOUS
<1>1. queue[o][n] \in Wakers(queue[o])
    BY DEF Wakers
<1>2. Live(thr, queue[o][n])
    BY <1>1 DEF TableOK, WakersLive
<1>3. thr[queue[o][n].thread].state = "Waiting"
    BY <1>1, <1>2 DEF TableOK, WakersOK
<1> QED
    BY <1>3

\* suspend_thread with wait() on every object of a list: the thread sleeps, and its
\* waker is the last in the queues of these objects.
LEMMA SuspendStep ==
    ASSUME TypeOK, TableOK, NEW t \in Thread, thr[t].state # "Waiting",
           NEW list \in Seq(Object), NEW type \in ThreadWaitType \ {"None"},
           type = "Sleep" => list = <<>>,
           SuspendOn(t, list, type)
    PROVE  /\ panic' = panic /\ thr' \in Table /\ queue' \in Queues /\ TableOK'
           /\ \A u \in Thread : u # t => thr'[u] = thr[u]
           /\ thr'[t].state = "Waiting" /\ thr'[t].waitObjects = list
           /\ thr'[t].waitType = type /\ thr'[t].resume = thr[t].resume
           /\ thr'[t].wakeKey = thr[t].wakeKey
           /\ WakerOf(thr, t) \in Waker
           /\ \A o \in Object : queue'[o] = IF \E n \in 1..Len(list) : list[n] = o
                                            THEN Append(queue[o], WakerOf(thr, t)) ELSE queue[o]
<1> DEFINE w == WakerOf(thr, t)
<1>1. thr \in Table /\ queue \in Queues /\ thr[t] \in CommonThread
    BY TableType DEF Table
<1>2. /\ thr[t].wakeKey \in 0..MaxKey /\ thr[t].wakeKey < MaxKey
      /\ panic' = panic
    <2>1. thr[t].wakeKey \in 0..MaxKey
        BY <1>1 DEF CommonThread
    <2> QED
        BY <2>1, SessionsAssumption, ThreadTableAssumption DEF SuspendOn, MayWait
<1>3. w \in Waker /\ w.thread = t /\ w.key = thr[t].wakeKey
    BY <1>2 DEF WakerOf, Waker
<1>4. thr' = [thr EXCEPT ![t] = [thr[t] EXCEPT !.state = "Waiting", !.waitObjects = list,
                                               !.waitTimeout = NoTimeout, !.waitType = type]]
    BY <1>1 DEF SuspendOn, Suspend, Table, CommonThread
<1>5. /\ thr'[t].state = "Waiting" /\ thr'[t].waitObjects = list /\ thr'[t].waitType = type
      /\ thr'[t].resume = thr[t].resume /\ thr'[t].wakeKey = thr[t].wakeKey
    BY <1>1, <1>4 DEF Table, CommonThread
<1>6. thr' \in Table
    <2>1. "Waiting" \in ThreadState /\ NoTimeout \in Int
        BY DEF ThreadState, NoTimeout
    <2> QED
        BY <1>1, <1>4, <2>1 DEF Table, CommonThread
<1>7. \A u \in Thread : u # t => thr'[u] = thr[u]
    BY <1>1, <1>4 DEF Table
<1> HIDE DEF w
<1>8. \A o \in Object : queue'[o] = IF \E n \in 1..Len(list) : list[n] = o
                                    THEN Append(queue[o], w) ELSE queue[o]
    BY DEF SuspendOn, w
<1>9. \A o \in Object : queue[o] \in Seq(Waker)
    BY <1>1 DEF Queues
<1>10. \A o \in Object : Append(queue[o], w) \in Seq(Waker)
    BY <1>3, <1>9
<1>11. queue' \in Queues
    BY <1>8, <1>9, <1>10 DEF SuspendOn, Queues
<1>12. \A o \in Object : \A v \in Wakers(queue'[o]) :
          v \in Wakers(queue[o]) \/ (v = w /\ o \in Objects(thr', t))
    <2> TAKE o \in Object
    <2>1. CASE \E n \in 1..Len(list) : list[n] = o
        <3>1. queue'[o] = Append(queue[o], w)
            BY <2>1, <1>8
        <3>2. Objects(thr', t) = {list[i] : i \in 1..Len(list)}
            BY <1>5 DEF Objects
        <3>3. o \in Objects(thr', t)
            BY <2>1, <3>2
        <3>4. Wakers(Append(queue[o], w)) = Wakers(queue[o]) \cup {w}
            BY <1>3, <1>9, AppendWaker
        <3> QED
            BY <3>1, <3>3, <3>4
    <2>2. CASE ~(\E n \in 1..Len(list) : list[n] = o)
        BY <2>2, <1>8
    <2> QED
        BY <2>1, <2>2
<1>13. \A o \in Object : \A v \in Wakers(queue[o]) : v.thread \in Thread /\ v.thread # t
    <2> SUFFICES ASSUME NEW o \in Object, NEW n \in 1..Len(queue[o])
                 PROVE  queue[o][n].thread \in Thread /\ queue[o][n].thread # t
        BY DEF Wakers
    <2>1. queue[o][n] \in Waker
        BY <1>9
    <2> QED
        BY <2>1, AwakeNotQueued DEF Waker
<1>14. SleepersOK(thr')
    BY <1>2, <1>5, <1>7 DEF TableOK, SleepersOK
<1>15. WakersOK(thr', queue') /\ WakersLive'
    <2> SUFFICES ASSUME NEW o \in Object, NEW v \in Wakers(queue'[o])
                 PROVE  /\ v.key <= thr'[v.thread].wakeKey
                        /\ thr'[v.thread].state = "Waiting" /\ o \in Objects(thr', v.thread)
                        /\ Live(thr', v)
        BY DEF WakersOK, WakersLive
    <2>1. CASE v = w /\ o \in Objects(thr', t)
        BY <2>1, <1>2, <1>3, <1>5 DEF Live
    <2>2. CASE v \in Wakers(queue[o])
        <3>1. thr'[v.thread] = thr[v.thread]
            BY <2>2, <1>7, <1>13
        <3>2. Live(thr, v)
            BY <2>2 DEF TableOK, WakersLive
        <3>3. /\ v.key <= thr[v.thread].wakeKey
              /\ thr[v.thread].state = "Waiting" /\ o \in Objects(thr, v.thread)
            BY <2>2, <3>2 DEF TableOK, WakersOK
        <3> QED
            BY <3>1, <3>2, <3>3 DEF Live, Objects
    <2> QED
        BY <2>1, <2>2, <1>12
<1>16. WaitersDistinct'
    <2> SUFFICES ASSUME NEW k \in 0..MaxSessions,
                        NEW m \in 1..Len(queue'[ClientEnd(k)]), NEW n \in 1..Len(queue'[ClientEnd(k)]),
                        queue'[ClientEnd(k)][m].thread = queue'[ClientEnd(k)][n].thread
                 PROVE  m = n
        BY DEF WaitersDistinct
    <2> DEFINE q == queue[ClientEnd(k)]
               p == queue'[ClientEnd(k)]
    <2>1. ClientEnd(k) \in Object
        BY Endpoints
    <2>2. q \in Seq(Waker) /\ Len(q) \in Nat
        BY <2>1, <1>9
    <2>3. \A a, b \in 1..Len(q) : q[a].thread = q[b].thread => a = b
        BY DEF TableOK, WaitersDistinct
    <2>4. \A a \in 1..Len(q) : q[a].thread # t
        BY <2>1, AwakeNotQueued
    <2>5. p = q \/ p = Append(q, w)
        BY <2>1, <1>8
    <2>6. p[m].thread = p[n].thread /\ m \in 1..Len(p) /\ n \in 1..Len(p)
        OBVIOUS
    <2> HIDE DEF q, p
    <2>7. CASE p = q
        BY <2>3, <2>6, <2>7
    <2>8. CASE p = Append(q, w)
        <3>1. Len(p) = Len(q) + 1 /\ p[Len(q) + 1] = w /\ \A a \in 1..Len(q) : p[a] = q[a]
            <4>1. Len(Append(q, w)) = Len(q) + 1 /\ Append(q, w)[Len(q) + 1] = w
                BY <2>2, <1>3
            <4>2. \A a \in 1..Len(q) : Append(q, w)[a] = q[a]
                BY <2>2, <1>3
            <4> QED
                BY <4>1, <4>2, <2>8
        <3>2. (m \in 1..Len(q) \/ m = Len(q) + 1) /\ (n \in 1..Len(q) \/ n = Len(q) + 1)
            BY <2>2, <2>6, <3>1
        <3> QED
            BY <3>1, <3>2, <2>3, <2>4, <2>6, <1>3
    <2> QED
        BY <2>5, <2>7, <2>8
<1> QED
    BY <1>2, <1>3, <1>5, <1>6, <1>7, <1>8, <1>11, <1>14, <1>15, <1>16 DEF TableOK, w

-----------------------------------------------------------------------------
(* Consequences of the invariant *)

\* Who is in the queue of a client end.
LEMMA QueuedClient ==
    ASSUME Inv, NEW i \in 0..MaxSessions, NEW n \in 1..Len(queue[ClientEnd(i)]),
           NEW t, t = queue[ClientEnd(i)][n].thread
    PROVE  /\ t \in Client /\ thr[t].state = "Waiting"
           /\ thr[t].waitObjects = <<ClientEnd(i)>> /\ Objects(thr, t) = {ClientEnd(i)}
           /\ step[t] \in {"connecting", "send", "asking"} /\ (i = 0 <=> step[t] = "connecting")
<1> DEFINE o == ClientEnd(i)
           w == queue[o][n]
<1>1. TypeOK /\ TableOK /\ o \in Object
    BY Endpoints DEF Inv
<1>2. queue[o] \in Seq(Waker)
    BY <1>1, TableType DEF Queues
<1>3. w \in Waker /\ w \in Wakers(queue[o])
    BY <1>2 DEF Wakers
<1>4. Live(thr, w)
    BY <1>1, <1>3 DEF TableOK, WakersLive
<1>5. t \in Thread /\ thr[t].state = "Waiting" /\ o \in Objects(thr, t)
    BY <1>1, <1>3, <1>4 DEF TableOK, WakersOK, Waker
<1>6. t \in Client
    BY <1>1, <1>5, TableType, SleepingServer, Endpoints
<1>7. PICK j \in 0..MaxSessions :
              /\ o = ClientEnd(j) /\ thr[t].waitObjects = <<ClientEnd(j)>>
              /\ Objects(thr, t) = {ClientEnd(j)}
              /\ thr[t].waitType = "WaitSync1" /\ step[t] \in {"connecting", "send", "asking"}
              /\ j = 0 <=> step[t] = "connecting"
    BY <1>5, <1>6, SleepingClient
<1>8. j = i
    BY <1>7, Endpoints
<1> QED
    BY <1>5, <1>6, <1>7, <1>8

\* Who has a request in the queue of a session: a client that is asleep on its own end,
\* after its request was queued.
LEMMA Requester ==
    ASSUME Inv, NEW i \in Session, NEW n \in 1..Len(requestQueue[i]),
           NEW t, t = requestQueue[i][n]
    PROVE  /\ t \in Client /\ thr[t].state = "Waiting" /\ step[t] = "asking"
           /\ thr[t].waitObjects = <<ClientEnd(i)>>
<1> DEFINE q == queue[ClientEnd(i)]
           r == requestQueue[i]
<1>1. TypeOK /\ TableOK /\ EndsMatch /\ i \in 0..MaxSessions /\ i # 0 /\ ClientEnd(i) \in Object
    BY Endpoints DEF Inv
<1>2. q \in Seq(Waker) /\ r \in Seq(Thread)
    <2>1. requestQueue \in [Session -> Seq(Thread)]
        BY <1>1 DEF TypeOK
    <2> QED
        BY <1>1, <2>1, TableType DEF Queues
<1>3. /\ ThreadsOf(q) \in Seq(Thread) /\ Len(ThreadsOf(q)) = Len(q)
      /\ \A m \in 1..Len(q) : ThreadsOf(q)[m] = q[m].thread
    BY <1>2, ThreadsOfType
<1>4. ThreadsOf(q) = IF Sends(current, i) THEN Append(r, current) ELSE r
    BY <1>1 DEF EndsMatch
<1>5. Sends(current, i) => current \in Thread
    BY <1>1, TableType DEF Sends
<1> HIDE DEF q, r
<1>6. Sends(current, i) => /\ Len(q) = Len(r) + 1 /\ ThreadsOf(q)[Len(r) + 1] = current
                           /\ \A m \in 1..Len(r) : ThreadsOf(q)[m] = r[m]
    BY <1>2, <1>3, <1>4, <1>5
<1>7. n \in 1..Len(r) /\ t = r[n] /\ Len(r) \in Nat
    BY <1>2 DEF r
<1>8. n \in 1..Len(q) /\ t = q[n].thread
    BY <1>3, <1>4, <1>6, <1>7
<1>9. /\ t \in Client /\ thr[t].state = "Waiting"
      /\ thr[t].waitObjects = <<ClientEnd(i)>> /\ Objects(thr, t) = {ClientEnd(i)}
      /\ step[t] \in {"connecting", "send", "asking"} /\ (i = 0 <=> step[t] = "connecting")
    BY <1>1, <1>8, QueuedClient DEF q
<1>10. ASSUME step[t] = "send" PROVE FALSE
    <2>1. current = t /\ Sends(current, i)
        BY <1>9, <1>10 DEF Inv, ClientsOK, ClientStepOK, Sends
    <2>2. Len(r) + 1 \in 1..Len(q) /\ q[Len(r) + 1].thread = t
        BY <2>1, <1>3, <1>6, <1>7
    <2>3. \A a, b \in 1..Len(q) : q[a].thread = q[b].thread => a = b
        BY <1>1 DEF TableOK, WaitersDistinct, q
    <2>4. Len(r) + 1 = n
        BY <2>2, <2>3, <1>8
    <2> QED
        BY <2>4, <1>7
<1> QED
    BY <1>1, <1>9, <1>10

\* A step that leaves a client alone keeps what is known of it.
LEMMA ClientFrame ==
    ASSUME NEW t \in Client, ClientStepOK(t), ClientDataOK(t),
           thr'[t] = thr[t], step'[t] = step[t], ipcData'[t] = ipcData[t],
           sent'[t] = sent[t], answer'[t] = answer[t],
           current' = t => current = t /\ payload' = payload,
           step[t] \in {"connect", "send"} => current' = current
    PROVE  ClientStepOK(t)' /\ ClientDataOK(t)'
<1>1. ClientWaits(t) => ClientWaits(t)'
    BY DEF ClientWaits
<1>2. ClientStepOK(t)'
    BY <1>1 DEF ClientStepOK
<1>3. ClientDataOK(t)'
    BY DEF ClientDataOK, Pending, Last
<1> QED
    BY <1>2, <1>3

\* What the service holds stays what it is while requests are queued behind it and
\* threads that have none queued change their data.
LEMMA HoldsFrame ==
    ASSUME Inv, NEW i, NEW m, Holds(i, m), buffer' = buffer,
           \A j \in Session : \/ requestQueue'[j] = requestQueue[j]
                              \/ \E t \in Thread : requestQueue'[j] = Append(requestQueue[j], t),
           \A t \in Client : step[t] = "asking" /\ thr[t].state = "Waiting" =>
                                ipcData'[t] = ipcData[t]
    PROVE  Holds(i, m)'
<1> DEFINE r == requestQueue[i]
<1>1. i \in Session /\ r # <<>>
    BY DEF Holds
<1>2. r \in Seq(Thread)
    <2>1. requestQueue \in [Session -> Seq(Thread)]
        BY DEF Inv, TypeOK
    <2> QED
        BY <1>1, <2>1
<1>3. Len(r) \in Nat /\ 1 \in 1..Len(r) /\ Head(r) = r[1]
    BY <1>1, <1>2
<1>4. Head(r) \in Client /\ thr[Head(r)].state = "Waiting" /\ step[Head(r)] = "asking"
    BY <1>1, <1>3, Requester
<1>5. requestQueue'[i] # <<>> /\ Head(requestQueue'[i]) = Head(r)
    <2>1. CASE requestQueue'[i] = r
        BY <2>1, <1>1
    <2>2. CASE \E t \in Thread : requestQueue'[i] = Append(r, t)
        <3>1. PICK t \in Thread : requestQueue'[i] = Append(r, t)
            BY <2>2
        <3> HIDE DEF r
        <3>2. Append(r, t) # <<>> /\ Head(Append(r, t)) = Append(r, t)[1] /\ Append(r, t)[1] = r[1]
            BY <1>1, <1>2, <1>3
        <3> QED
            BY <3>1, <3>2, <1>3
    <2> QED
        BY <1>1, <2>1, <2>2
<1>6. ipcData'[Head(r)] = ipcData[Head(r)]
    BY <1>4
<1> QED
    BY <1>1, <1>5, <1>6 DEF Holds

\* What the clients do keeps what is known of the service, whether it sleeps on or is woken
\* by an end that has something for it.
LEMMA ServiceFrame ==
    ASSUME Inv, server' = server, UNCHANGED serviceVars, step'[server] = step[server],
           current' = server <=> current = server,
           current = server => payload' = payload,
           \A j \in Session : \/ requestQueue'[j] = requestQueue[j]
                              \/ \E t \in Thread : requestQueue'[j] = Append(requestQueue[j], t),
           \A t \in Client : step[t] = "asking" /\ thr[t].state = "Waiting" =>
                                ipcData'[t] = ipcData[t],
           \/ thr'[server] = thr[server]
           \/ \E i \in 0..MaxSessions :
                 /\ thr[server].state = "Waiting" /\ ServerEnd(i) \in Objects(thr, server)
                 /\ thr'[server] = Awake(thr[server], ResumeByObject(thr[server], ServerEnd(i)))
                 /\ i # 0 => requestQueue'[i] # <<>>
    PROVE  ServiceOK'
<1>1. TypeOK /\ TableOK /\ SliceOK /\ ServiceOK
    BY DEF Inv
<1>2. /\ handles \in Seq(Session) /\ requestQueue \in [Session -> Seq(Thread)]
      /\ server \in Thread /\ thr \in Table
    BY <1>1, TableType DEF TypeOK
<1>3. UNCHANGED <<handles, replyTarget, buffer, from>>
    BY DEF serviceVars
<1>4. WaitList' = WaitList
    BY <1>3 DEF WaitList
<1>5. \A i, m : Holds(i, m) => Holds(i, m)'
    BY <1>3, HoldsFrame
<1>6. \A j \in Session : requestQueue[j] # <<>> => requestQueue'[j] # <<>>
    <2> TAKE j \in Session
    <2>1. requestQueue[j] \in Seq(Thread)
        BY <1>2
    <2>2. \A t \in Thread : Append(requestQueue[j], t) # <<>>
        BY <2>1
    <2> QED
        BY <2>2
<1>7. \A n \in 1..Len(handles) : handles[n] \in Session
    BY <1>2
<1>8. \A r : GoodResume(r) => GoodResume(r)'
    BY <1>3, <1>6, <1>7 DEF GoodResume
<1>9. CASE thr'[server] = thr[server]
    BY <1>1, <1>3, <1>4, <1>5, <1>8, <1>9 DEF ServiceOK, GoodResume
<1>10. ASSUME NEW i \in 0..MaxSessions,
              thr[server].state = "Waiting", ServerEnd(i) \in Objects(thr, server),
              thr'[server] = Awake(thr[server], ResumeByObject(thr[server], ServerEnd(i))),
              i # 0 => requestQueue'[i] # <<>>
       PROVE  ServiceOK'
    <2>1. current # server
        BY <1>1, <1>2, <1>10 DEF SliceOK, ServiceOK, ServiceStep
    <2>2. thr[server] \in CommonThread
        BY <1>2 DEF Table
    <2>3. thr'[server].state = "Ready" /\ thr'[server].resume = ResumeByObject(thr[server], ServerEnd(i))
        BY <1>10, <2>2 DEF Awake, CommonThread
    <2>4. ASSUME step[server] = "receive"
          PROVE  GoodResume(thr[server].resume)'
        <3>1. thr[server].waitType = "WaitSyncN" /\ thr[server].waitObjects = WaitList
            BY <1>1, <1>10, <2>4 DEF ServiceOK
        <3>2. ~WakeFails(thr[server], ServerEnd(i))
            BY <1>10, <3>1 DEF WakeFails, Objects
        <3>3. PICK n \in 1..Len(WaitList) :
                  /\ WaitList[n] = ServerEnd(i)
                  /\ ResumeByObject(thr[server], ServerEnd(i)) = [kind |-> "WaitSyncN", index |-> n]
                  /\ n \in Nat
            BY <2>2, <3>1, <3>2, ResumeIndex
        <3>4. /\ Len(WaitList) = Len(handles) + 1 /\ Len(handles) \in Nat
              /\ \A m \in 1..Len(handles) : WaitList[m + 1] = ServerEnd(handles[m])
            BY <1>1, WaitListType
        <3>5. n # 1 => n - 1 \in 1..Len(handles) /\ n = (n - 1) + 1
            BY <3>3, <3>4
        <3>6. n # 1 => handles[n - 1] = i /\ i # 0
            <4> SUFFICES ASSUME n # 1 PROVE handles[n - 1] = i /\ i # 0
                OBVIOUS
            <4>1. n - 1 \in 1..Len(handles) /\ n = (n - 1) + 1
                BY <3>5
            <4>2. WaitList[(n - 1) + 1] = ServerEnd(handles[n - 1]) /\ handles[n - 1] \in Session
                BY <4>1, <3>4, <1>7
            <4>3. ServerEnd(handles[n - 1]) = ServerEnd(i)
                BY <4>1, <4>2, <3>3
            <4> QED
                BY <4>2, <4>3, Endpoints
        <3>7. thr'[server].resume.kind = "WaitSyncN" /\ thr'[server].resume.index = n
            BY <2>3, <3>3
        <3> QED
            BY <3>5, <3>6, <3>7, <1>3, <1>10 DEF GoodResume
    <2> QED
        BY <1>1, <1>3, <1>5, <2>1, <2>3, <2>4 DEF ServiceOK
<1> QED
    BY <1>9, <1>10

\* The table keeps its invariant when a thread that is in no queue changes its state and
\* does not go to sleep.
LEMMA TableFrame ==
    ASSUME TypeOK, TableOK, queue' = queue,
           \A t \in Thread : \/ thr'[t] = thr[t]
                             \/ /\ thr[t].state = "Waiting" => thr[t].waitObjects = <<>>
                                /\ thr'[t].state # "Waiting"
    PROVE  TableOK'
<1>1. \A o \in Object : \A w \in Wakers(queue[o]) :
          /\ Live(thr, w) /\ w.key <= thr[w.thread].wakeKey /\ w.thread \in Thread
          /\ thr[w.thread].state = "Waiting" /\ o \in Objects(thr, w.thread)
    <2>1. \A o \in Object : queue[o] \in Seq(Waker)
        BY TableType DEF Queues
    <2>2. \A o \in Object : Wakers(queue[o]) \subseteq Waker
        BY <2>1, WakersType
    <2> QED
        BY <2>2 DEF TableOK, WakersOK, WakersLive, Waker
<1>2. \A o \in Object : \A w \in Wakers(queue[o]) : thr'[w.thread] = thr[w.thread]
    BY <1>1 DEF Objects
<1>3. WakersOK(thr, queue)'
    BY <1>1, <1>2 DEF WakersOK, Objects
<1>4. WakersLive'
    BY <1>1, <1>2 DEF WakersLive, Live
<1>5. SleepersOK(thr)'
    BY DEF TableOK, SleepersOK
<1>6. WaitersDistinct'
    BY DEF TableOK, WaitersDistinct
<1> QED
    BY <1>3, <1>4, <1>5, <1>6 DEF TableOK

\* The ends of the sessions stay in step when nothing is queued and nobody is about to.
LEMMA EndsFrame ==
    ASSUME EndsMatch, server' = server, requestQueue' = requestQueue,
           \A i \in 0..MaxSessions : queue'[ClientEnd(i)] = queue[ClientEnd(i)],
           ~(current \in Client /\ step[current] = "send"),
           ~(current' \in Client /\ step'[current'] = "send")
    PROVE  EndsMatch'
<1> SUFFICES ASSUME NEW i \in Session
             PROVE  ThreadsOf(queue'[ClientEnd(i)]) =
                       IF Sends(current, i)' THEN Append(requestQueue'[i], current')
                                             ELSE requestQueue'[i]
    BY DEF EndsMatch
<1>1. ~Sends(current, i) /\ ~Sends(current, i)'
    BY DEF Sends, Client
<1>2. ThreadsOf(queue[ClientEnd(i)]) = requestQueue[i]
    BY <1>1 DEF EndsMatch
<1> QED
    BY <1>1, <1>2, Endpoints

\* Steps of the sessions are steps of threads that run: what is known of the slice.
LEMMA InTheSlice ==
    ASSUME Inv
    PROVE  /\ current = NoThread => \A t \in Thread : thr[t].state # "Running" /\ step[t] \notin {"connect", "send", "handle"}
           /\ current = server => /\ thr[server].state = "Running"
                                  /\ \A t \in Client : step[t] \notin {"connect", "send"}
           /\ \A t \in Client : current = t /\ step[t] # "send" =>
                 /\ thr[t].state = "Running"
                 /\ \A u \in Client : u # t => step[u] \notin {"connect", "send"}
<1>1. TypeOK /\ SliceOK /\ ClientsOK /\ ServiceOK
    BY DEF Inv
<1>2. /\ server \in Thread /\ Client \subseteq Thread /\ server \notin Client
      /\ \A t \in Thread : t = server \/ t \in Client
      /\ NoThread \notin Thread
    BY <1>1, TableType
<1>3. \A t \in Client : step[t] \in ClientStep /\ (step[t] \in {"connect", "send"} => current = t)
    BY <1>1 DEF ClientsOK, ClientStepOK
<1>4. step[server] \in ServiceStep /\ (step[server] = "handle" => current = server)
    BY <1>1 DEF ServiceOK
<1>5. \A t \in Thread : thr[t].state = "Running" <=> current = t /\ step[t] # "send"
    BY <1>1 DEF SliceOK
<1>6. ASSUME current = NoThread, NEW t \in Thread
      PROVE  thr[t].state # "Running" /\ step[t] \notin {"connect", "send", "handle"}
    BY <1>2, <1>3, <1>4, <1>5, <1>6 DEF ServiceStep, ClientStep
<1>7. current = server => /\ thr[server].state = "Running"
                          /\ \A t \in Client : step[t] \notin {"connect", "send"}
    BY <1>2, <1>3, <1>4, <1>5 DEF ServiceStep
<1>8. \A t \in Client : current = t /\ step[t] # "send" =>
         /\ thr[t].state = "Running"
         /\ \A u \in Client : u # t => step[u] \notin {"connect", "send"}
    BY <1>2, <1>3, <1>5
<1> QED
    BY <1>6, <1>7, <1>8

-----------------------------------------------------------------------------
(* The scheduler *)

\* next_thread resumes a thread with what it was woken with.
LEMMA RunNextInv ==
    ASSUME Inv, server' = server, RunNext
    PROVE  Inv'
<1>1. TypeOK /\ NoPanic /\ TableOK /\ SliceOK /\ ClientsOK /\ ServiceOK /\ EndsMatch
      /\ ConnectorsMatchSessions /\ SessionsCounted
    BY DEF Inv
<1>2. /\ thr \in Table /\ server \in Thread /\ Client \subseteq Thread /\ server \notin Client
      /\ \A t \in Thread : t = server \/ t \in Client
      /\ NoThread \notin Thread
    BY <1>1, TableType
<1>3. PICK t \in Ready : /\ thr' = [thr EXCEPT ![t].state = "Running", ![t].resume = Normal]
                         /\ payload' = thr[t].resume /\ current' = t
    BY DEF RunNext, GiveSlice
<1>4. /\ current = NoThread
      /\ UNCHANGED <<queue, panic, sessionQueue, created, open, requestQueue, ipcData, step,
                     handles, replyTarget, buffer, from, sent, answer>>
    BY DEF RunNext, portVars, serviceVars, clientVars
<1>5. t \in Thread /\ thr[t].state = "Ready" /\ thr[t] \in CommonThread
    BY <1>2 DEF Ready, Table
<1>6. /\ thr'[t] = [thr[t] EXCEPT !.state = "Running", !.resume = Normal]
      /\ \A u \in Thread : u # t => thr'[u] = thr[u]
    BY <1>2, <1>3, <1>5 DEF Table
<1>7. thr'[t].state = "Running" /\ thr'[t].resume = Normal
    BY <1>5, <1>6 DEF CommonThread
<1>8. thr'[t] \in CommonThread /\ thr' \in Table /\ thr[t].resume \in ThreadResume
    <2>1. Normal \in ThreadResume /\ "Running" \in ThreadState
        BY DEF Normal, ThreadResume, ThreadState
    <2>2. thr'[t] \in CommonThread /\ thr[t].resume \in ThreadResume
        BY <1>5, <1>6, <2>1 DEF CommonThread
    <2> QED
        BY <1>2, <1>3, <1>5, <1>6, <2>2 DEF Table
<1>9. TypeOK'
    BY <1>1, <1>3, <1>4, <1>5, <1>8 DEF TypeOK, Table
<1>10. NoPanic'
    BY <1>1, <1>4 DEF NoPanic
<1>11. TableOK'
    BY <1>1, <1>4, <1>5, <1>6, <1>7, TableFrame
<1>12. \A u \in Thread : thr[u].state # "Running" /\ step[u] \notin {"connect", "send", "handle"}
    BY <1>4, InTheSlice
<1>13. SliceOK'
    BY <1>3, <1>4, <1>5, <1>6, <1>7, <1>12 DEF SliceOK
<1>14. ClientsOK'
    <2> SUFFICES ASSUME NEW u \in Client PROVE (ClientStepOK(u) /\ ClientDataOK(u))'
        BY DEF ClientsOK, Client
    <2>1. u \in Thread /\ ClientStepOK(u) /\ ClientDataOK(u) /\ step[u] \notin {"connect", "send"}
        BY <1>1, <1>2, <1>12 DEF ClientsOK
    <2>2. CASE u # t
        <3>1. thr'[u] = thr[u]
            BY <1>6, <2>1, <2>2
        <3> QED
            BY <1>3, <1>4, <2>1, <2>2, <3>1, ClientFrame
    <2>3. CASE u = t
        <3>1. ClientStepOK(u)'
            BY <1>3, <1>4, <1>7, <2>1, <2>3 DEF ClientStepOK
        <3>2. ClientDataOK(u)'
            BY <1>4, <1>5, <1>7, <2>1, <2>3 DEF ClientDataOK, Pending, Last
        <3> QED
            BY <3>1, <3>2
    <2> QED
        BY <2>2, <2>3
<1>15. ServiceOK'
    <2>1. CASE t = server
        <3>1. WaitList' = WaitList
            BY <1>4 DEF WaitList
        <3>2. \A i, m : Holds(i, m)' = Holds(i, m)
            BY <1>4 DEF Holds
        <3>3. \A r : GoodResume(r)' = GoodResume(r)
            BY <1>4 DEF GoodResume
        <3>4. step[server] # "handle" /\ thr[server].state = "Ready"
            BY <1>2, <1>5, <1>12, <2>1
        <3>5. step[server] = "receive" => GoodResume(payload)'
            BY <1>1, <1>3, <1>4, <2>1, <3>3, <3>4 DEF ServiceOK, GoodResume
        <3>6. thr'[server].state = "Running"
            BY <1>7, <2>1
        <3>7. UNCHANGED <<step, replyTarget, from>>
            BY <1>4
        <3> QED
            BY <1>1, <3>2, <3>4, <3>5, <3>6, <3>7 DEF ServiceOK
    <2>2. CASE t # server
        <3>1. thr'[server] = thr[server] /\ current # server /\ current' # server
            BY <1>2, <1>3, <1>4, <1>6, <2>2
        <3> QED
            BY <1>4, <3>1, ServiceFrame DEF serviceVars
    <2> QED
        BY <2>1, <2>2
<1>16. EndsMatch'
    BY <1>1, <1>2, <1>3, <1>4, <1>5, <1>12, EndsFrame
<1>17. ConnectorsMatchSessions'
    BY <1>1, <1>2, <1>3, <1>4, <1>5, <1>12 DEF ConnectorsMatchSessions
<1>18. SessionsCounted'
    BY <1>1, <1>4 DEF SessionsCounted
<1> QED
    BY <1>9, <1>10, <1>11, <1>13, <1>14, <1>15, <1>16, <1>17, <1>18 DEF Inv

\* wake_up on a thread's own record.
LEMMA AwakeRecord ==
    ASSUME NEW ct \in CommonThread, NEW r
    PROVE  /\ Awake(ct, r).state = "Ready" /\ Awake(ct, r).resume = r
           /\ Awake(ct, r).waitObjects = <<>> /\ Awake(ct, r).wakeKey = ct.wakeKey + 1
BY DEF Awake, CommonThread

\* tick wakes a sleeping client.
LEMMA WakeSleeperInv ==
    ASSUME Inv, server' = server, WakeSleeper
    PROVE  Inv'
<1>1. TypeOK /\ NoPanic /\ TableOK /\ SliceOK /\ ClientsOK /\ ServiceOK /\ EndsMatch
      /\ ConnectorsMatchSessions /\ SessionsCounted
    BY DEF Inv
<1>2. /\ thr \in Table /\ queue \in Queues /\ server \in Thread /\ Client \subseteq Thread
      /\ server \notin Client
      /\ \A t \in Thread : t = server \/ t \in Client
      /\ NoThread \notin Thread
    BY <1>1, TableType
<1>3. PICK t \in Client : /\ thr[t].state = "Waiting" /\ thr[t].waitType = "Sleep"
                          /\ thr' = [thr EXCEPT ![t] = Awake(thr[t], ResumeByTimeout(thr[t]))]
    BY DEF WakeSleeper
<1>4. /\ current = NoThread
      /\ UNCHANGED <<queue, panic, current, payload, sessionQueue, created, open, requestQueue,
                     ipcData, step, handles, replyTarget, buffer, from, sent, answer>>
    BY DEF WakeSleeper, portVars, serviceVars, clientVars
<1>5. t \in Thread /\ thr[t] \in CommonThread /\ t # server
    BY <1>2 DEF Table
<1>6. /\ thr'[t] = Awake(thr[t], Normal)
      /\ \A u \in Thread : u # t => thr'[u] = thr[u]
    BY <1>2, <1>3, <1>5 DEF Table, ResumeByTimeout
<1>7. thr'[t].state = "Ready" /\ thr'[t].resume = Normal
    BY <1>5, <1>6, AwakeRecord
<1>8. thr' \in Table
    <2> DEFINE r == [u \in Thread |-> Normal]
    <2>1. r \in [Thread -> ThreadResume] /\ {t} \in SUBSET Thread
        BY <1>5 DEF Normal, ThreadResume
    <2>2. thr' = [u \in Thread |-> IF u \in {t} THEN Awake(thr[u], r[u]) ELSE thr[u]]
        BY <1>2, <1>3, <1>5 DEF Table, ResumeByTimeout
    <2> HIDE DEF r
    <2>3. Wakes(thr, queue, {t}, thr', Purge(thr, queue, {t}))
        BY <1>1, <1>2, <1>3, <2>1, <2>2, WakeStep DEF TableOK
    <2> QED
        BY <2>3 DEF Wakes
<1>9. TypeOK'
    BY <1>1, <1>4, <1>8 DEF TypeOK, Table
<1>10. NoPanic'
    BY <1>1, <1>4 DEF NoPanic
<1>11. TableOK'
    <2>1. thr[t].waitObjects = <<>>
        BY <1>1, <1>3, <1>5 DEF TableOK, SleepersOK
    <2> QED
        BY <2>1, <1>1, <1>4, <1>6, <1>7, TableFrame
<1>12. \A u \in Thread : thr[u].state # "Running" /\ step[u] \notin {"connect", "send", "handle"}
    BY <1>4, InTheSlice
<1>13. SliceOK'
    BY <1>2, <1>4, <1>6, <1>7, <1>12 DEF SliceOK
<1>14. ClientsOK'
    <2> SUFFICES ASSUME NEW u \in Client PROVE (ClientStepOK(u) /\ ClientDataOK(u))'
        BY DEF ClientsOK, Client
    <2>1. u \in Thread /\ ClientStepOK(u) /\ ClientDataOK(u) /\ step[u] \notin {"connect", "send"}
        BY <1>1, <1>2, <1>12 DEF ClientsOK
    <2>2. CASE u # t
        <3>1. thr'[u] = thr[u]
            BY <1>6, <2>1, <2>2
        <3> QED
            BY <1>4, <2>1, <2>2, <3>1, ClientFrame
    <2>3. CASE u = t
        <3>1. step[u] = "sleeping"
            BY <1>3, <2>1, <2>3 DEF ClientStepOK
        <3>2. ClientStepOK(u)'
            BY <1>4, <1>7, <2>1, <2>3 DEF ClientStepOK
        <3>3. ClientDataOK(u)'
            BY <1>4, <3>1, <2>1 DEF ClientDataOK, Pending, Last
        <3> QED
            BY <3>2, <3>3
    <2> QED
        BY <2>2, <2>3
<1>15. ServiceOK'
    <2>1. thr'[server] = thr[server]
        BY <1>2, <1>5, <1>6
    <2> QED
        BY <1>4, <2>1, ServiceFrame DEF serviceVars
<1>16. EndsMatch'
    BY <1>1, <1>2, <1>4, EndsFrame
<1>17. ConnectorsMatchSessions'
    BY <1>1, <1>4 DEF ConnectorsMatchSessions
<1>18. SessionsCounted'
    BY <1>1, <1>4 DEF SessionsCounted
<1> QED
    BY <1>9, <1>10, <1>11, <1>13, <1>14, <1>15, <1>16, <1>17, <1>18 DEF Inv

-----------------------------------------------------------------------------
(* The service *)

\* A reply goes to the thread whose request is the first: it is asleep on its end of the
\* session, so the end exists, and it is the one that wakes up.
LEMMA ReplyStep ==
    ASSUME Inv, Reply
    PROVE  LET i == replyTarget
               h == Head(requestQueue[i])
           IN  /\ i \in Session /\ requestQueue[i] # <<>>
               /\ h \in Client /\ thr[h].state = "Waiting" /\ step[h] = "asking"
               /\ buffer = Response(ipcData[h])
               /\ queue[ClientEnd(i)] # <<>> /\ ThreadsOf(queue[ClientEnd(i)]) = requestQueue[i]
               /\ panic' = panic /\ thr' \in Table /\ queue' \in Queues /\ TableOK'
               /\ thr' = [thr EXCEPT ![h] = Awake(thr[h], Normal)]
               /\ queue' = [queue EXCEPT ![ClientEnd(i)] = Tail(queue[ClientEnd(i)])]
               /\ requestQueue' = [requestQueue EXCEPT ![i] = Tail(requestQueue[i])]
               /\ ipcData' = [ipcData EXCEPT ![server] = buffer, ![h] = buffer]
<1> DEFINE i == replyTarget
           h == Head(requestQueue[i])
           q == queue[ClientEnd(i)]
<1>1. TypeOK /\ NoPanic /\ TableOK /\ SliceOK /\ ClientsOK /\ ServiceOK /\ EndsMatch
      /\ ConnectorsMatchSessions /\ SessionsCounted
    BY DEF Inv
<1>2. /\ thr \in Table /\ queue \in Queues /\ server \in Thread /\ Client \subseteq Thread
      /\ server \notin Client
      /\ \A t \in Thread : t = server \/ t \in Client
      /\ NoThread \notin Thread
    BY <1>1, TableType
<1>3. current = server /\ step[server] = "loop" /\ i # NoSession
    BY DEF Reply
<1>4. i \in Session /\ requestQueue[i] # <<>> /\ buffer = Response(ipcData[h])
    BY <1>1, <1>3 DEF ServiceOK, Holds
<1>5. i \in 0..MaxSessions /\ i # 0 /\ ClientEnd(i) \in Object
    BY <1>4, Endpoints
<1>6. requestQueue[i] \in Seq(Thread)
    <2>1. requestQueue \in [Session -> Seq(Thread)]
        BY <1>1 DEF TypeOK
    <2> QED
        BY <1>4, <2>1
<1>7. 1 \in 1..Len(requestQueue[i]) /\ h = requestQueue[i][1]
    BY <1>4, <1>6
<1>8. h \in Client /\ thr[h].state = "Waiting" /\ step[h] = "asking" /\ thr[h].waitObjects = <<ClientEnd(i)>>
    BY <1>4, <1>7, Requester
<1>9. ClientAlive(i)
    <2>1. ClientEnd(i) \in Objects(thr, h)
        BY <1>8 DEF Objects
    <2> QED
        BY <1>2, <1>8, <2>1 DEF ClientAlive
<1>10. /\ WakeThread(ClientEnd(i))
       /\ requestQueue' = [requestQueue EXCEPT ![i] = Tail(requestQueue[i])]
       /\ ipcData' = [ipcData EXCEPT ![server] = buffer, ![h] = buffer]
    BY <1>4, <1>9 DEF Reply
<1>11. ThreadsOf(q) = requestQueue[i]
    <2>1. ~Sends(current, i)
        BY <1>2, <1>3 DEF Sends
    <2> QED
        BY <1>1, <1>4, <2>1 DEF EndsMatch
<1>12. q \in Seq(Waker)
    BY <1>2, <1>5 DEF Queues
<1>13. q # <<>>
    <2>1. Len(q) = Len(requestQueue[i])
        BY <1>11, <1>12, ThreadsOfType
    <2> QED
        BY <1>7, <2>1
<1>14. h = Head(q).thread
    BY <1>11, <1>12, <1>13, ThreadsOfTail
<1>15. /\ panic' = panic /\ thr' \in Table /\ queue' \in Queues /\ TableOK'
       /\ thr' = [thr EXCEPT ![h] = Awake(thr[h], Normal)]
       /\ queue' = [queue EXCEPT ![ClientEnd(i)] = Tail(q)]
    BY <1>5, <1>10, <1>13, <1>14, WakeClient
<1> QED
    BY <1>4, <1>8, <1>10, <1>11, <1>13, <1>15

\* What is unchanged by the service's own steps for the clients.
LEMMA ClientsFrame ==
    ASSUME Inv, server' = server, current = server,
           \A t \in Client : /\ thr'[t] = thr[t] /\ step'[t] = step[t] /\ ipcData'[t] = ipcData[t]
                             /\ sent'[t] = sent[t] /\ answer'[t] = answer[t] /\ current' # t
    PROVE  ClientsOK'
<1> SUFFICES ASSUME NEW u \in Client PROVE (ClientStepOK(u) /\ ClientDataOK(u))'
    BY DEF ClientsOK, Client
<1>1. ClientStepOK(u) /\ ClientDataOK(u) /\ step[u] \notin {"connect", "send"}
    BY InTheSlice DEF Inv, ClientsOK
<1> QED
    BY <1>1, ClientFrame

\* reply_and_receive, the reply.
LEMMA ReplyInv ==
    ASSUME Inv, server' = server, Reply
    PROVE  Inv'
<1> DEFINE i == replyTarget
           h == Head(requestQueue[i])
           q == queue[ClientEnd(i)]
<1>1. TypeOK /\ NoPanic /\ TableOK /\ SliceOK /\ ClientsOK /\ ServiceOK /\ EndsMatch
      /\ ConnectorsMatchSessions /\ SessionsCounted
    BY DEF Inv
<1>2. /\ thr \in Table /\ queue \in Queues /\ server \in Thread /\ Client \subseteq Thread
      /\ server \notin Client
      /\ \A t \in Thread : t = server \/ t \in Client
      /\ NoThread \notin Thread
    BY <1>1, TableType
<1>3. /\ i \in Session /\ requestQueue[i] # <<>>
      /\ h \in Client /\ thr[h].state = "Waiting" /\ step[h] = "asking"
      /\ buffer = Response(ipcData[h])
      /\ q # <<>> /\ ThreadsOf(q) = requestQueue[i]
      /\ panic' = panic /\ thr' \in Table /\ queue' \in Queues /\ TableOK'
      /\ thr' = [thr EXCEPT ![h] = Awake(thr[h], Normal)]
      /\ queue' = [queue EXCEPT ![ClientEnd(i)] = Tail(q)]
      /\ requestQueue' = [requestQueue EXCEPT ![i] = Tail(requestQueue[i])]
      /\ ipcData' = [ipcData EXCEPT ![server] = buffer, ![h] = buffer]
    BY ReplyStep
<1>4. /\ current = server /\ step[server] = "loop" /\ replyTarget' = NoSession
      /\ UNCHANGED <<current, payload, sessionQueue, created, open, step, handles, buffer, from,
                     sent, answer>>
    BY DEF Reply, portVars, clientVars
<1> HIDE DEF h, q, i
<1>5. /\ requestQueue \in [Session -> Seq(Thread)] /\ ipcData \in [Thread -> Message]
      /\ buffer \in Message /\ h \in Thread /\ h # server
    BY <1>1, <1>2, <1>3 DEF TypeOK
<1>6. /\ thr'[h] = Awake(thr[h], Normal) /\ thr[h] \in CommonThread
      /\ \A u \in Thread : u # h => thr'[u] = thr[u]
    BY <1>2, <1>3, <1>5 DEF Table
<1>7. thr'[h].state = "Ready" /\ thr'[h].resume = Normal
    BY <1>6, AwakeRecord
<1>8. ipcData'[h] = buffer /\ \A u \in Thread : u # h /\ u # server => ipcData'[u] = ipcData[u]
    BY <1>3, <1>5
<1>9. TypeOK'
    <2>1. requestQueue' \in [Session -> Seq(Thread)]
        <3>1. Tail(requestQueue[i]) \in Seq(Thread)
            BY <1>3, <1>5
        <3> QED
            BY <1>3, <1>5, <3>1
    <2>2. ipcData' \in [Thread -> Message]
        BY <1>2, <1>3, <1>5
    <2>3. NoSession \in Session \cup {NoSession}
        OBVIOUS
    <2> QED
        BY <1>1, <1>3, <1>4, <2>1, <2>2, <2>3 DEF TypeOK, Table, Queues
<1>10. NoPanic'
    BY <1>1, <1>3 DEF NoPanic
<1>11. SliceOK'
    BY <1>1, <1>3, <1>4, <1>5, <1>6, <1>7 DEF SliceOK
<1>12. \A u \in Client : ClientStepOK(u) /\ ClientDataOK(u) /\ step[u] \notin {"connect", "send"}
    BY <1>1, <1>4, InTheSlice DEF ClientsOK
<1>13. ClientsOK'
    <2> SUFFICES ASSUME NEW u \in Client PROVE (ClientStepOK(u) /\ ClientDataOK(u))'
        BY DEF ClientsOK, Client
    <2>1. CASE u # h
        <3>1. thr'[u] = thr[u] /\ ipcData'[u] = ipcData[u]
            BY <1>2, <1>6, <1>8, <2>1
        <3> QED
            BY <1>2, <1>4, <1>12, <3>1, ClientFrame
    <2>2. CASE u = h
        <3>1. /\ sent[u] # 0 /\ ipcData[u] = Request(u, sent[u]) /\ step[u] = "asking"
              /\ thr'[u].state = "Ready" /\ thr'[u].resume = Normal
            <4>1. sent[u] \in Int /\ sent[u] > 0
                <5>1. sent \in [Thread -> 0..MaxRequests]
                    BY <1>1 DEF TypeOK
                <5>2. sent[u] > 0
                    BY <1>3, <1>12, <2>2 DEF ClientDataOK
                <5> QED
                    BY <5>1, <5>2, <1>2, SessionsAssumption
            <4> QED
                BY <4>1, <1>3, <1>7, <1>12, <2>2 DEF ClientDataOK, Pending
        <3>2. Last(u) = Response(Request(u, sent[u])) /\ ipcData'[u] = Last(u)
            BY <1>3, <1>8, <3>1, <2>2 DEF Last
        <3>3. ClientStepOK(u)'
            BY <1>2, <1>4, <1>12, <3>1 DEF ClientStepOK
        <3>4. ClientDataOK(u)'
            BY <1>4, <1>12, <3>1, <3>2 DEF ClientDataOK, Pending, Last
        <3> QED
            BY <3>3, <3>4
    <2> QED
        BY <2>1, <2>2
<1>14. ServiceOK'
    <2>1. thr'[server] = thr[server]
        BY <1>2, <1>5, <1>6
    <2>2. thr[server].state = "Running"
        BY <1>4, InTheSlice
    <2> QED
        BY <1>1, <1>4, <2>1, <2>2 DEF ServiceOK
<1>15. EndsMatch'
    <2> SUFFICES ASSUME NEW j \in Session
                 PROVE  ThreadsOf(queue'[ClientEnd(j)]) = requestQueue'[j] /\ ~Sends(current, j)'
        BY DEF EndsMatch
    <2>1. ~Sends(current, j)' /\ ~Sends(current, j)
        BY <1>2, <1>4 DEF Sends, Client
    <2>2. ClientEnd(j) \in Object /\ ClientEnd(i) \in Object /\ q \in Seq(Waker)
        BY <1>2, <1>3, Endpoints DEF Queues, q
    <2>3. CASE j = i
        <3>1. queue'[ClientEnd(j)] = Tail(q) /\ requestQueue'[j] = Tail(requestQueue[i])
            BY <1>2, <1>3, <1>5, <2>2, <2>3 DEF Queues
        <3>2. ThreadsOf(Tail(q)) = Tail(ThreadsOf(q))
            BY <1>3, <2>2, ThreadsOfTail
        <3> QED
            BY <1>3, <2>1, <3>1, <3>2
    <2>4. CASE j # i
        <3>1. queue'[ClientEnd(j)] = queue[ClientEnd(j)] /\ requestQueue'[j] = requestQueue[j]
            BY <1>2, <1>3, <1>5, <2>2, <2>4, Endpoints DEF Queues
        <3> QED
            BY <1>1, <2>1, <3>1 DEF EndsMatch
    <2> QED
        BY <2>3, <2>4
<1>16. ConnectorsMatchSessions'
    <2>1. queue'[ClientEnd(0)] = queue[ClientEnd(0)]
        BY <1>2, <1>3, Endpoints DEF Queues
    <2> QED
        BY <1>1, <1>4, <2>1 DEF ConnectorsMatchSessions
<1>17. SessionsCounted'
    BY <1>1, <1>4 DEF SessionsCounted
<1> QED
    BY <1>3, <1>9, <1>10, <1>11, <1>13, <1>14, <1>15, <1>16, <1>17 DEF Inv

\* Going to sleep on server ends leaves the queues of the client ends alone.
LEMMA ServerSuspend ==
    ASSUME Inv, current = server, NEW list \in Seq(Object), NEW type \in {"WaitSync1", "WaitSyncN"},
           \A n \in 1..Len(list) : \E i \in 0..MaxSessions : list[n] = ServerEnd(i),
           SuspendOn(server, list, type)
    PROVE  /\ panic' = panic /\ thr' \in Table /\ queue' \in Queues /\ TableOK'
           /\ \A u \in Client : thr'[u] = thr[u]
           /\ thr'[server].state = "Waiting" /\ thr'[server].waitObjects = list
           /\ thr'[server].waitType = type
           /\ \A i \in 0..MaxSessions : queue'[ClientEnd(i)] = queue[ClientEnd(i)]
<1>1. TypeOK /\ NoPanic /\ TableOK /\ SliceOK /\ ClientsOK /\ ServiceOK /\ EndsMatch
      /\ ConnectorsMatchSessions /\ SessionsCounted
    BY DEF Inv
<1>2. /\ thr \in Table /\ queue \in Queues /\ server \in Thread /\ Client \subseteq Thread
      /\ server \notin Client
      /\ \A t \in Thread : t = server \/ t \in Client
      /\ NoThread \notin Thread
    BY <1>1, TableType
<1>3. thr[server].state # "Waiting"
    BY InTheSlice
<1>4. type \in ThreadWaitType \ {"None"} /\ type # "Sleep"
    BY DEF ThreadWaitType
<1>5. /\ panic' = panic /\ thr' \in Table /\ queue' \in Queues /\ TableOK'
      /\ \A u \in Thread : u # server => thr'[u] = thr[u]
      /\ thr'[server].state = "Waiting" /\ thr'[server].waitObjects = list
      /\ thr'[server].waitType = type
      /\ \A o \in Object : queue'[o] = IF \E n \in 1..Len(list) : list[n] = o
                                       THEN Append(queue[o], WakerOf(thr, server)) ELSE queue[o]
    BY <1>1, <1>2, <1>3, <1>4, SuspendStep
<1>6. \A i \in 0..MaxSessions : queue'[ClientEnd(i)] = queue[ClientEnd(i)]
    BY <1>5, Endpoints
<1> QED
    BY <1>2, <1>5, <1>6

\* reply_and_receive, the wait.
LEMMA ReceiveInv ==
    ASSUME Inv, server' = server, Receive
    PROVE  Inv'
<1>1. TypeOK /\ NoPanic /\ TableOK /\ SliceOK /\ ClientsOK /\ ServiceOK /\ EndsMatch
      /\ ConnectorsMatchSessions /\ SessionsCounted
    BY DEF Inv
<1>2. /\ thr \in Table /\ queue \in Queues /\ server \in Thread /\ Client \subseteq Thread
      /\ server \notin Client
      /\ \A t \in Thread : t = server \/ t \in Client
      /\ NoThread \notin Thread
    BY <1>1, TableType
<1>3. /\ current = server /\ step[server] = "loop" /\ replyTarget = NoSession
      /\ SuspendOn(server, WaitList, "WaitSyncN")
      /\ ipcData' = [ipcData EXCEPT ![server] = buffer]
      /\ step' = [step EXCEPT ![server] = "receive"]
      /\ current' = NoThread
      /\ UNCHANGED <<payload, sessionQueue, created, open, requestQueue, handles, replyTarget,
                     buffer, from, sent, answer>>
    BY DEF Receive, Goto, portVars, serviceVars, clientVars
<1>4. WaitList \in Seq(Object) /\ \A n \in 1..Len(WaitList) : \E i \in 0..MaxSessions : WaitList[n] = ServerEnd(i)
    BY <1>1, WaitListType
<1>5. /\ panic' = panic /\ thr' \in Table /\ queue' \in Queues /\ TableOK'
      /\ \A u \in Client : thr'[u] = thr[u]
      /\ thr'[server].state = "Waiting" /\ thr'[server].waitObjects = WaitList
      /\ thr'[server].waitType = "WaitSyncN"
      /\ \A i \in 0..MaxSessions : queue'[ClientEnd(i)] = queue[ClientEnd(i)]
    BY <1>3, <1>4, ServerSuspend
<1>6. /\ ipcData \in [Thread -> Message] /\ buffer \in Message
      /\ step \in [Thread -> ServiceStep \cup ClientStep]
    BY <1>1 DEF TypeOK
<1>7. /\ step'[server] = "receive"
      /\ \A u \in Client : step'[u] = step[u] /\ ipcData'[u] = ipcData[u]
    BY <1>2, <1>3, <1>6
<1>8. TypeOK'
    <2>1. ipcData' \in [Thread -> Message]
        BY <1>2, <1>3, <1>6
    <2>2. step' \in [Thread -> ServiceStep \cup ClientStep]
        BY <1>2, <1>3, <1>6 DEF ServiceStep
    <2> QED
        BY <1>1, <1>3, <1>5, <2>1, <2>2 DEF TypeOK, Table, Queues
<1>9. NoPanic'
    BY <1>1, <1>5 DEF NoPanic
<1>10. \A t \in Client : step[t] \notin {"connect", "send"}
    BY <1>3, InTheSlice
<1>11. SliceOK'
    BY <1>1, <1>2, <1>3, <1>5 DEF SliceOK
<1>12. ClientsOK'
    BY <1>2, <1>3, <1>5, <1>7, ClientsFrame
<1>13. ServiceOK'
    <2>1. WaitList' = WaitList
        BY <1>3 DEF WaitList
    <2> QED
        BY <1>2, <1>3, <1>5, <1>7, <2>1 DEF ServiceOK, ServiceStep
<1>14. EndsMatch'
    BY <1>1, <1>2, <1>3, <1>5, <1>7, <1>10, EndsFrame
<1>15. ConnectorsMatchSessions'
    <2>1. step[server] # "connect" /\ queue'[ClientEnd(0)] = queue[ClientEnd(0)]
        BY <1>3, <1>5, Endpoints
    <2> QED
        BY <1>1, <1>2, <1>3, <2>1 DEF ConnectorsMatchSessions
<1>16. SessionsCounted'
    BY <1>1, <1>3 DEF SessionsCounted
<1> QED
    BY <1>5, <1>8, <1>9, <1>11, <1>12, <1>13, <1>14, <1>15, <1>16 DEF Inv

\* reply_and_receive_post: the service is told of its port, or of a session that has a
\* request.
LEMMA ResumedInv ==
    ASSUME Inv, server' = server, Resumed
    PROVE  Inv'
<1>1. TypeOK /\ NoPanic /\ TableOK /\ SliceOK /\ ClientsOK /\ ServiceOK /\ EndsMatch
      /\ ConnectorsMatchSessions /\ SessionsCounted
    BY DEF Inv
<1>2. /\ thr \in Table /\ queue \in Queues /\ server \in Thread /\ Client \subseteq Thread
      /\ server \notin Client
      /\ \A t \in Thread : t = server \/ t \in Client
      /\ NoThread \notin Thread
    BY <1>1, TableType
<1>3. /\ current = server /\ step[server] = "receive"
      /\ UNCHANGED <<current, payload, sessionQueue, created, open, requestQueue, handles,
                     replyTarget, sent, answer>>
    BY DEF Resumed, portVars, clientVars
<1>4. /\ GoodResume(payload) /\ replyTarget = NoSession /\ thr[server].state = "Running"
    BY <1>1, <1>3, InTheSlice DEF ServiceOK
<1>5. /\ handles \in Seq(Session) /\ requestQueue \in [Session -> Seq(Thread)]
      /\ ipcData \in [Thread -> Message] /\ buffer \in Message
      /\ step \in [Thread -> ServiceStep \cup ClientStep]
    BY <1>1 DEF TypeOK
<1>6. \/ /\ buffer' = ipcData[server] /\ step' = [step EXCEPT ![server] = "accept"]
         /\ UNCHANGED <<thr, queue, panic, ipcData, from>>
      \/ \E i \in Session :
            /\ requestQueue[i] # <<>>
            /\ ipcData' = [ipcData EXCEPT ![server] = ipcData[Head(requestQueue[i])]]
            /\ buffer' = ipcData'[server] /\ from' = i
            /\ step' = [step EXCEPT ![server] = "handle"]
            /\ UNCHANGED <<thr, queue, panic>>
    <2>1. CASE payload.index = 1
        BY <1>4, <2>1 DEF Resumed, GoodResume, Goto, tableVars
    <2>2. CASE payload.index # 1
        <3> DEFINE i == handles[payload.index - 1]
        <3>1. payload.index - 1 \in 1..Len(handles) /\ requestQueue[i] # <<>>
            BY <1>4, <2>2 DEF GoodResume
        <3>2. i \in Session
            BY <1>5, <3>1
        <3>3. Received(i)
            BY <1>4, <2>2 DEF Resumed, GoodResume
        <3> QED
            BY <3>1, <3>2, <3>3 DEF Received, Goto, tableVars
    <2> QED
        BY <2>1, <2>2
<1>7. UNCHANGED <<thr, queue, panic>>
    BY <1>6
<1>8. /\ step'[server] \in {"accept", "handle"}
      /\ \A u \in Client : step'[u] = step[u] /\ ipcData'[u] = ipcData[u]
      /\ step' \in [Thread -> ServiceStep \cup ClientStep]
    BY <1>2, <1>5, <1>6 DEF ServiceStep
<1>9. /\ ipcData' \in [Thread -> Message] /\ buffer' \in Message /\ from' \in Session \cup {NoSession}
    <2>1. CASE buffer' = ipcData[server] /\ UNCHANGED <<ipcData, from>>
        BY <1>1, <1>2, <1>5, <2>1 DEF TypeOK
    <2>2. ASSUME NEW i \in Session, requestQueue[i] # <<>>,
                 ipcData' = [ipcData EXCEPT ![server] = ipcData[Head(requestQueue[i])]],
                 buffer' = ipcData'[server], from' = i
          PROVE  ipcData' \in [Thread -> Message] /\ buffer' \in Message /\ from' \in Session
        <3>1. requestQueue[i] \in Seq(Thread)
            BY <1>5
        <3>2. Head(requestQueue[i]) \in Thread
            BY <2>2, <3>1
        <3> QED
            BY <1>2, <1>5, <2>2, <3>2
    <2> QED
        BY <1>6, <2>1, <2>2
<1>10. TypeOK'
    BY <1>1, <1>3, <1>7, <1>8, <1>9 DEF TypeOK
<1>11. NoPanic' /\ TableOK'
    BY <1>1, <1>7 DEF NoPanic, TableOK, WakersLive, WaitersDistinct
<1>12. SliceOK'
    BY <1>1, <1>2, <1>3, <1>4, <1>7, <1>8 DEF SliceOK
<1>13. ClientsOK'
    BY <1>2, <1>3, <1>7, <1>8, ClientsFrame
<1>14. ServiceOK'
    <2>1. step'[server] = "handle" => Holds(from, "request")'
        <3>1. CASE step' = [step EXCEPT ![server] = "accept"]
            BY <1>2, <1>5, <3>1
        <3>2. ASSUME NEW i \in Session, requestQueue[i] # <<>>,
                     ipcData' = [ipcData EXCEPT ![server] = ipcData[Head(requestQueue[i])]],
                     buffer' = ipcData'[server], from' = i
              PROVE  Holds(from, "request")'
            <4>1. requestQueue[i] \in Seq(Thread)
                BY <1>5
            <4>2. 1 \in 1..Len(requestQueue[i]) /\ Head(requestQueue[i]) = requestQueue[i][1]
                BY <3>2, <4>1
            <4>3. Head(requestQueue[i]) \in Client
                BY <4>2, Requester
            <4>4. ipcData'[Head(requestQueue[i])] = ipcData[Head(requestQueue[i])]
                BY <4>3, <1>8
            <4>5. buffer' = ipcData[Head(requestQueue[i])]
                BY <1>2, <1>5, <3>2
            <4> QED
                BY <1>3, <3>2, <4>4, <4>5 DEF Holds
        <3> QED
            BY <1>6, <3>1, <3>2
    <2> QED
        BY <1>2, <1>3, <1>4, <1>7, <1>8, <2>1 DEF ServiceOK, ServiceStep
<1>15. EndsMatch'
    BY <1>1, <1>2, <1>3, <1>7, EndsFrame
<1>16. ConnectorsMatchSessions'
    BY <1>1, <1>3, <1>7, <1>8 DEF ConnectorsMatchSessions
<1>17. SessionsCounted'
    BY <1>1, <1>3 DEF SessionsCounted
<1> QED
    BY <1>10, <1>11, <1>12, <1>13, <1>14, <1>15, <1>16, <1>17 DEF Inv

\* A response has the type of a message.
LEMMA ResponseType ==
    ASSUME NEW m \in Message
    PROVE  Response(m) \in Message
BY DEF Message, Response

\* The handler writes the response over the request it was given.
LEMMA HandleIpcInv ==
    ASSUME Inv, server' = server, HandleIpc
    PROVE  Inv'
<1>1. TypeOK /\ NoPanic /\ TableOK /\ SliceOK /\ ClientsOK /\ ServiceOK /\ EndsMatch
      /\ ConnectorsMatchSessions /\ SessionsCounted
    BY DEF Inv
<1>2. /\ thr \in Table /\ queue \in Queues /\ server \in Thread /\ Client \subseteq Thread
      /\ server \notin Client
      /\ \A t \in Thread : t = server \/ t \in Client
      /\ NoThread \notin Thread
    BY <1>1, TableType
<1>3. /\ current = server /\ step[server] = "handle"
      /\ buffer' = Response(buffer) /\ replyTarget' = from
      /\ step' = [step EXCEPT ![server] = "loop"]
      /\ UNCHANGED <<thr, queue, panic, current, payload, sessionQueue, created, open,
                     requestQueue, ipcData, handles, from, sent, answer>>
    BY DEF HandleIpc, Goto, tableVars, portVars, clientVars
<1>4. Holds(from, "request") /\ thr[server].state = "Running"
    BY <1>1, <1>3, InTheSlice DEF ServiceOK
<1>5. /\ buffer \in Message /\ step \in [Thread -> ServiceStep \cup ClientStep]
      /\ from \in Session \cup {NoSession}
    BY <1>1 DEF TypeOK
<1>6. /\ step'[server] = "loop" /\ \A u \in Client : step'[u] = step[u]
      /\ step' \in [Thread -> ServiceStep \cup ClientStep]
    BY <1>2, <1>3, <1>5 DEF ServiceStep
<1>7. TypeOK'
    <2>1. buffer' \in Message
        BY <1>3, <1>5, ResponseType
    <2> QED
        BY <1>1, <1>3, <1>5, <1>6, <2>1 DEF TypeOK
<1>8. NoPanic' /\ TableOK'
    BY <1>1, <1>3 DEF NoPanic, TableOK, WakersLive, WaitersDistinct
<1>9. SliceOK'
    BY <1>1, <1>2, <1>3, <1>4, <1>6 DEF SliceOK
<1>10. ClientsOK'
    BY <1>2, <1>3, <1>6, ClientsFrame
<1>11. ServiceOK'
    <2>1. Holds(replyTarget, "response")'
        BY <1>3, <1>4 DEF Holds
    <2> QED
        BY <1>3, <1>4, <1>6, <2>1 DEF ServiceOK, ServiceStep
<1>12. EndsMatch'
    BY <1>1, <1>2, <1>3, EndsFrame
<1>13. ConnectorsMatchSessions'
    BY <1>1, <1>3, <1>6 DEF ConnectorsMatchSessions
<1>14. SessionsCounted'
    BY <1>1, <1>3 DEF SessionsCounted
<1> QED
    BY <1>7, <1>8, <1>9, <1>10, <1>11, <1>12, <1>13, <1>14 DEF Inv

\* accept_session with nothing to accept waits again.
LEMMA AcceptWaitInv ==
    ASSUME Inv, server' = server, AcceptSession, sessionQueue = <<>>
    PROVE  Inv'
<1>1. TypeOK /\ NoPanic /\ TableOK /\ SliceOK /\ ClientsOK /\ ServiceOK /\ EndsMatch
      /\ ConnectorsMatchSessions /\ SessionsCounted
    BY DEF Inv
<1>2. /\ thr \in Table /\ queue \in Queues /\ server \in Thread /\ Client \subseteq Thread
      /\ server \notin Client
      /\ \A t \in Thread : t = server \/ t \in Client
      /\ NoThread \notin Thread
    BY <1>1, TableType
<1>3. /\ current = server /\ step[server] = "accept"
      /\ SuspendOn(server, <<ServerEnd(0)>>, "WaitSync1")
      /\ current' = NoThread
      /\ UNCHANGED <<sessionQueue, handles, step, payload, created, open, requestQueue, ipcData,
                     replyTarget, buffer, from, sent, answer>>
    BY DEF AcceptSession, clientVars
<1>4. <<ServerEnd(0)>> \in Seq(Object)
    BY Endpoints
<1>5. /\ panic' = panic /\ thr' \in Table /\ queue' \in Queues /\ TableOK'
      /\ \A u \in Client : thr'[u] = thr[u]
      /\ thr'[server].state = "Waiting" /\ thr'[server].waitObjects = <<ServerEnd(0)>>
      /\ thr'[server].waitType = "WaitSync1"
      /\ \A i \in 0..MaxSessions : queue'[ClientEnd(i)] = queue[ClientEnd(i)]
    <2>1. \A n \in 1..Len(<<ServerEnd(0)>>) : \E i \in 0..MaxSessions : <<ServerEnd(0)>>[n] = ServerEnd(i)
        BY Endpoints
    <2> QED
        BY <1>3, <1>4, <2>1, ServerSuspend
<1>6. TypeOK'
    BY <1>1, <1>3, <1>5 DEF TypeOK, Table, Queues
<1>7. NoPanic'
    BY <1>1, <1>5 DEF NoPanic
<1>8. SliceOK'
    BY <1>1, <1>2, <1>3, <1>5 DEF SliceOK
<1>9. ClientsOK'
    BY <1>2, <1>3, <1>5, ClientsFrame
<1>10. ServiceOK'
    <2>1. replyTarget' = NoSession
        BY <1>1, <1>3 DEF ServiceOK
    <2> QED
        BY <1>2, <1>3, <1>5, <2>1 DEF ServiceOK, ServiceStep
<1>11. EndsMatch'
    BY <1>1, <1>2, <1>3, <1>5, EndsFrame
<1>12. ConnectorsMatchSessions'
    <2>1. queue'[ClientEnd(0)] = queue[ClientEnd(0)]
        BY <1>5, Endpoints
    <2> QED
        BY <1>1, <1>2, <1>3, <2>1 DEF ConnectorsMatchSessions
<1>13. SessionsCounted'
    BY <1>1, <1>3 DEF SessionsCounted
<1> QED
    BY <1>5, <1>6, <1>7, <1>8, <1>9, <1>10, <1>11, <1>12, <1>13 DEF Inv

\* ServerPortHLE::accept_session with a session: there is a thread that connects for it.
LEMMA AcceptFirstInv ==
    ASSUME Inv, server' = server, AcceptSession, sessionQueue # <<>>
    PROVE  Inv'
<1> DEFINE q == queue[ClientEnd(0)]
           h == Head(q).thread
<1>1. TypeOK /\ NoPanic /\ TableOK /\ SliceOK /\ ClientsOK /\ ServiceOK /\ EndsMatch
      /\ ConnectorsMatchSessions /\ SessionsCounted
    BY DEF Inv
<1>2. /\ thr \in Table /\ queue \in Queues /\ server \in Thread /\ Client \subseteq Thread
      /\ server \notin Client
      /\ \A t \in Thread : t = server \/ t \in Client
      /\ NoThread \notin Thread
    BY <1>1, TableType
<1>3. /\ current = server /\ step[server] = "accept"
      /\ sessionQueue' = Tail(sessionQueue)
      /\ handles' = Append(handles, Head(sessionQueue))
      /\ WakeThread(ClientEnd(0))
      /\ step' = [step EXCEPT ![server] = "loop"]
      /\ UNCHANGED <<current, payload, created, open, requestQueue, ipcData, replyTarget, buffer,
                     from, sent, answer>>
    BY DEF AcceptSession, AcceptFirst, Goto, clientVars
<1>4. /\ sessionQueue \in Seq(Session) /\ handles \in Seq(Session)
      /\ step \in [Thread -> ServiceStep \cup ClientStep]
    BY <1>1 DEF TypeOK
<1>5. q \in Seq(Waker) /\ ClientEnd(0) \in Object
    BY <1>2, Endpoints DEF Queues
<1>6. Len(q) = Len(sessionQueue) /\ Len(sessionQueue) \in Nat /\ Len(q) \in Nat
    <2>1. Len(sessionQueue) \in Nat /\ Len(q) \in Nat
        BY <1>4, <1>5
    <2> QED
        BY <1>1, <1>3, <2>1 DEF ConnectorsMatchSessions
<1>7. q # <<>> /\ Len(Tail(q)) = Len(Tail(sessionQueue))
    BY <1>4, <1>5, <1>6
<1> HIDE DEF q, h
<1>8. /\ h \in Client /\ thr[h].state = "Waiting" /\ step[h] = "connecting"
      /\ panic' = panic /\ thr' \in Table /\ queue' \in Queues /\ TableOK'
      /\ thr' = [thr EXCEPT ![h] = Awake(thr[h], Normal)]
      /\ queue' = [queue EXCEPT ![ClientEnd(0)] = Tail(q)]
    BY <1>3, <1>7, Endpoints, WakeClient DEF q, h
<1>9. /\ thr'[h] = Awake(thr[h], Normal) /\ thr[h] \in CommonThread /\ h \in Thread /\ h # server
      /\ \A u \in Thread : u # h => thr'[u] = thr[u]
    BY <1>2, <1>8 DEF Table
<1>10. thr'[h].state = "Ready" /\ thr'[h].resume = Normal
    BY <1>9, AwakeRecord
<1>11. /\ step'[server] = "loop" /\ \A u \in Client : step'[u] = step[u]
       /\ step' \in [Thread -> ServiceStep \cup ClientStep]
    BY <1>2, <1>3, <1>4 DEF ServiceStep
<1>12. TypeOK'
    <2>1. Tail(sessionQueue) \in Seq(Session) /\ Head(sessionQueue) \in Session
        BY <1>4
    <2>2. handles' \in Seq(Session)
        BY <1>3, <1>4, <2>1
    <2> QED
        BY <1>1, <1>3, <1>8, <1>11, <2>1, <2>2 DEF TypeOK, Table, Queues
<1>13. NoPanic'
    BY <1>1, <1>8 DEF NoPanic
<1>14. thr[server].state = "Running" /\ thr'[server] = thr[server]
    BY <1>2, <1>3, <1>9, InTheSlice
<1>15. SliceOK'
    BY <1>1, <1>2, <1>3, <1>8, <1>9, <1>10, <1>11, <1>14 DEF SliceOK
<1>16. ClientsOK'
    <2> SUFFICES ASSUME NEW u \in Client PROVE (ClientStepOK(u) /\ ClientDataOK(u))'
        BY DEF ClientsOK, Client
    <2>1. u \in Thread /\ ClientStepOK(u) /\ ClientDataOK(u) /\ step[u] \notin {"connect", "send"}
        BY <1>1, <1>2, <1>3, InTheSlice DEF ClientsOK
    <2>2. CASE u # h
        BY <1>2, <1>3, <1>9, <1>11, <2>1, <2>2, ClientFrame
    <2>3. CASE u = h
        <3>1. thr'[u].state = "Ready" /\ thr'[u].resume = Normal /\ step[u] = "connecting"
            BY <1>8, <1>10, <2>3
        <3>2. ClientStepOK(u)'
            BY <1>2, <1>3, <1>11, <2>1, <3>1 DEF ClientStepOK
        <3>3. ClientDataOK(u)'
            BY <1>3, <1>11, <2>1, <3>1 DEF ClientDataOK, Pending, Last
        <3> QED
            BY <3>2, <3>3
    <2> QED
        BY <2>2, <2>3
<1>17. ServiceOK'
    <2>1. replyTarget' = NoSession
        BY <1>1, <1>3 DEF ServiceOK
    <2> QED
        BY <1>11, <1>14, <2>1 DEF ServiceOK, ServiceStep
<1>18. EndsMatch'
    <2> SUFFICES ASSUME NEW j \in Session
                 PROVE  ThreadsOf(queue'[ClientEnd(j)]) = requestQueue'[j] /\ ~Sends(current, j)'
        BY DEF EndsMatch
    <2>1. ~Sends(current, j)' /\ ~Sends(current, j)
        BY <1>2, <1>3 DEF Sends, Client
    <2>2. queue'[ClientEnd(j)] = queue[ClientEnd(j)]
        BY <1>2, <1>8, Endpoints DEF Queues
    <2> QED
        BY <1>1, <1>3, <2>1, <2>2 DEF EndsMatch
<1>19. ConnectorsMatchSessions'
    <2>1. queue'[ClientEnd(0)] = Tail(q)
        BY <1>2, <1>5, <1>8 DEF Queues
    <2>2. Len(Tail(q)) \in Nat
        BY <1>5, <1>7
    <2> QED
        BY <1>3, <1>7, <1>11, <2>1, <2>2 DEF ConnectorsMatchSessions
<1>20. SessionsCounted'
    BY <1>1, <1>3 DEF SessionsCounted
<1> QED
    BY <1>8, <1>12, <1>13, <1>15, <1>16, <1>17, <1>18, <1>19, <1>20 DEF Inv

-----------------------------------------------------------------------------
(* The clients *)

\* A step of one client leaves the others alone.
LEMMA OthersFrame ==
    ASSUME Inv, server' = server, NEW t \in Client, current = t, current' \in {t, NoThread},
           \A u \in Client : u # t =>
              /\ thr'[u] = thr[u] /\ step'[u] = step[u] /\ ipcData'[u] = ipcData[u]
              /\ sent'[u] = sent[u] /\ answer'[u] = answer[u],
           ClientStepOK(t)', ClientDataOK(t)'
    PROVE  ClientsOK'
<1> SUFFICES ASSUME NEW u \in Client, u # t PROVE (ClientStepOK(u) /\ ClientDataOK(u))'
    BY DEF ClientsOK, Client
<1>1. NoThread # u
    BY TableType DEF Inv
<1>2. ClientStepOK(u) /\ ClientDataOK(u)
    BY DEF Inv, ClientsOK
<1>3. step[u] \notin {"connect", "send"}
    BY <1>2 DEF ClientStepOK
<1> QED
    BY <1>1, <1>2, <1>3, ClientFrame

\* create_session_to_port queues a session at the port.
LEMMA ConnectInv ==
    ASSUME Inv, server' = server, NEW t \in Client, Connect(t)
    PROVE  Inv'
<1>1. TypeOK /\ NoPanic /\ TableOK /\ SliceOK /\ ClientsOK /\ ServiceOK /\ EndsMatch
      /\ ConnectorsMatchSessions /\ SessionsCounted
    BY DEF Inv
<1>2. /\ thr \in Table /\ queue \in Queues /\ server \in Thread /\ Client \subseteq Thread
      /\ server \notin Client
      /\ \A u \in Thread : u = server \/ u \in Client
      /\ NoThread \notin Thread
    BY <1>1, TableType
<1>3. /\ current = t /\ step[t] = "idle" /\ created < MaxSessions
      /\ created' = created + 1 /\ sessionQueue' = Append(sessionQueue, created + 1)
      /\ WakeThread(ServerEnd(0))
      /\ step' = [step EXCEPT ![t] = "connect"]
      /\ UNCHANGED <<current, payload, open, requestQueue, ipcData, handles, replyTarget, buffer,
                     from, sent, answer>>
    BY DEF Connect, InSlice, EnqueueSession, Goto, serviceVars, clientVars
<1>4. /\ created \in 0..MaxSessions /\ sessionQueue \in Seq(Session)
      /\ step \in [Thread -> ServiceStep \cup ClientStep]
    BY <1>1 DEF TypeOK
<1>5. /\ panic' = panic /\ thr' \in Table /\ queue' \in Queues /\ TableOK'
      /\ \A j \in 0..MaxSessions : queue'[ClientEnd(j)] = queue[ClientEnd(j)]
      /\ \A u \in Client : thr'[u] = thr[u]
      /\ \/ thr' = thr
         \/ /\ thr[server].state = "Waiting" /\ ServerEnd(0) \in Objects(thr, server)
            /\ thr'[server] = Awake(thr[server], ResumeByObject(thr[server], ServerEnd(0)))
    BY <1>3, Endpoints, WakeServer
<1>6. /\ step'[t] = "connect" /\ \A u \in Thread : u # t => step'[u] = step[u]
      /\ step' \in [Thread -> ServiceStep \cup ClientStep]
    BY <1>2, <1>3, <1>4 DEF ClientStep
<1>7. t \in Thread /\ t # server /\ thr[t].state = "Running" /\ ClientStepOK(t) /\ ClientDataOK(t)
    BY <1>1, <1>2, <1>3, InTheSlice DEF ClientsOK
<1>8. TypeOK'
    <2>1. created + 1 \in Session /\ created + 1 \in 0..MaxSessions
        BY <1>3, <1>4, SessionsAssumption DEF Session
    <2>2. sessionQueue' \in Seq(Session)
        BY <1>3, <1>4, <2>1
    <2> QED
        BY <1>1, <1>3, <1>5, <1>6, <2>1, <2>2 DEF TypeOK, Table, Queues
<1>9. NoPanic'
    BY <1>1, <1>5 DEF NoPanic
<1>10. SliceOK'
    <2> SUFFICES ASSUME NEW u \in Thread
                 PROVE  thr'[u].state = "Running" <=> current' = u /\ step'[u] # "send"
        BY DEF SliceOK
    <2>1. CASE u = t
        BY <1>3, <1>5, <1>6, <1>7, <2>1
    <2>2. CASE u # t /\ u # server
        BY <1>1, <1>2, <1>3, <1>5, <1>6, <2>2 DEF SliceOK
    <2>3. CASE u = server
        <3>1. thr[server].state # "Running" /\ thr[server] \in CommonThread
            BY <1>1, <1>2, <1>3, <1>7 DEF SliceOK, Table
        <3>2. thr'[server].state # "Running"
            BY <1>5, <3>1, AwakeRecord
        <3> QED
            BY <1>3, <1>7, <2>3, <3>2
    <2> QED
        BY <2>1, <2>2, <2>3
<1>11. ClientsOK'
    <2>1. ClientStepOK(t)'
        BY <1>3, <1>5, <1>6, <1>7 DEF ClientStepOK, ClientStep
    <2>2. ClientDataOK(t)'
        BY <1>3, <1>6, <1>7 DEF ClientDataOK, Pending, Last
    <2> QED
        BY <1>2, <1>3, <1>5, <1>6, <2>1, <2>2, OthersFrame
<1>12. ServiceOK'
    <2>1. UNCHANGED serviceVars
        BY <1>3 DEF serviceVars
    <2>2. /\ step'[server] = step[server] /\ current # server /\ current' # server
          /\ 0 \in 0..MaxSessions
        BY <1>2, <1>3, <1>6, <1>7, Endpoints
    <2> QED
        BY <1>3, <1>5, <2>1, <2>2, ServiceFrame
<1>13. EndsMatch'
    BY <1>1, <1>2, <1>3, <1>5, <1>6, EndsFrame
<1>14. ConnectorsMatchSessions'
    <2>1. /\ queue'[ClientEnd(0)] = queue[ClientEnd(0)] /\ queue[ClientEnd(0)] \in Seq(Waker)
        BY <1>2, <1>5, Endpoints DEF Queues
    <2>2. Len(queue[ClientEnd(0)]) \in Nat /\ Len(sessionQueue) \in Nat
        BY <1>4, <2>1
    <2>3. created + 1 \in Session
        BY <1>3, <1>4, SessionsAssumption DEF Session
    <2>4. Len(sessionQueue') = Len(sessionQueue) + 1
        BY <1>3, <1>4, <2>3
    <2>5. Len(queue[ClientEnd(0)]) = Len(sessionQueue)
        BY <1>1, <1>3, <2>2 DEF ConnectorsMatchSessions
    <2>6. current' # NoThread /\ step'[current'] = "connect"
        BY <1>2, <1>3, <1>6, <1>7
    <2> QED
        BY <2>1, <2>2, <2>4, <2>5, <2>6 DEF ConnectorsMatchSessions
<1>15. SessionsCounted'
    BY <1>3, <1>4, SessionsAssumption DEF SessionsCounted
<1> QED
    BY <1>5, <1>8, <1>9, <1>10, <1>11, <1>12, <1>13, <1>14, <1>15 DEF Inv

\* Going to sleep on one client end, and what that end is told.
LEMMA ClientSuspend ==
    ASSUME TypeOK, TableOK, NEW t \in Thread, thr[t].state # "Waiting", NEW i \in 0..MaxSessions,
           SuspendOn(t, <<ClientEnd(i)>>, "WaitSync1")
    PROVE  /\ panic' = panic /\ thr' \in Table /\ queue' \in Queues /\ TableOK'
           /\ \A u \in Thread : u # t => thr'[u] = thr[u]
           /\ thr'[t].state = "Waiting" /\ thr'[t].waitObjects = <<ClientEnd(i)>>
           /\ thr'[t].waitType = "WaitSync1" /\ thr'[t].resume = thr[t].resume
           /\ WakerOf(thr, t) \in Waker /\ WakerOf(thr, t).thread = t
           /\ queue' = [queue EXCEPT ![ClientEnd(i)] = Append(queue[ClientEnd(i)], WakerOf(thr, t))]
<1> DEFINE list == <<ClientEnd(i)>>
           w == WakerOf(thr, t)
<1>1. ClientEnd(i) \in Object /\ queue \in Queues
    BY Endpoints, TableType
<1>2. list \in Seq(Object) /\ Len(list) = 1 /\ list[1] = ClientEnd(i)
    BY <1>1
<1>3. "WaitSync1" \in ThreadWaitType \ {"None"} /\ w.thread = t
    BY DEF ThreadWaitType, WakerOf
<1>4. SuspendOn(t, list, "WaitSync1")
    OBVIOUS
<1> HIDE DEF list, w
<1>5. /\ panic' = panic /\ thr' \in Table /\ queue' \in Queues /\ TableOK'
      /\ \A u \in Thread : u # t => thr'[u] = thr[u]
      /\ thr'[t].state = "Waiting" /\ thr'[t].waitObjects = list
      /\ thr'[t].waitType = "WaitSync1" /\ thr'[t].resume = thr[t].resume
      /\ w \in Waker
      /\ \A o \in Object : queue'[o] = IF \E n \in 1..Len(list) : list[n] = o
                                       THEN Append(queue[o], w) ELSE queue[o]
    BY <1>2, <1>3, <1>4, SuspendStep DEF w
<1>6. \A o \in Object : queue'[o] = IF o = ClientEnd(i) THEN Append(queue[o], w) ELSE queue[o]
    <2>1. \A o \in Object : (\E n \in 1..Len(list) : list[n] = o) <=> o = ClientEnd(i)
        BY <1>2
    <2> QED
        BY <1>5, <2>1
<1>7. queue' = [queue EXCEPT ![ClientEnd(i)] = Append(queue[ClientEnd(i)], w)]
    BY <1>1, <1>5, <1>6 DEF Queues
<1> QED
    BY <1>3, <1>5, <1>7 DEF list, w

\* create_session_to_port, the wait.
LEMMA ConnectWaitInv ==
    ASSUME Inv, server' = server, NEW t \in Client, ConnectWait(t)
    PROVE  Inv'
<1> DEFINE q == queue[ClientEnd(0)]
           w == WakerOf(thr, t)
<1>1. TypeOK /\ NoPanic /\ TableOK /\ SliceOK /\ ClientsOK /\ ServiceOK /\ EndsMatch
      /\ ConnectorsMatchSessions /\ SessionsCounted
    BY DEF Inv
<1>2. /\ thr \in Table /\ queue \in Queues /\ server \in Thread /\ Client \subseteq Thread
      /\ server \notin Client
      /\ \A u \in Thread : u = server \/ u \in Client
      /\ NoThread \notin Thread
    BY <1>1, TableType
<1>3. /\ current = t /\ step[t] = "connect"
      /\ SuspendOn(t, <<ClientEnd(0)>>, "WaitSync1")
      /\ open' = open \cup {created}
      /\ step' = [step EXCEPT ![t] = "connecting"]
      /\ current' = NoThread
      /\ UNCHANGED <<payload, sessionQueue, created, requestQueue, ipcData, handles, replyTarget,
                     buffer, from, sent, answer>>
    BY DEF ConnectWait, InSlice, Goto, serviceVars, clientVars
<1>4. /\ created \in 0..MaxSessions /\ open \subseteq Session /\ sessionQueue \in Seq(Session)
      /\ step \in [Thread -> ServiceStep \cup ClientStep]
    BY <1>1 DEF TypeOK
<1>5. t \in Thread /\ t # server /\ thr[t].state = "Running" /\ ClientStepOK(t) /\ ClientDataOK(t)
    BY <1>1, <1>2, <1>3, InTheSlice DEF ClientsOK
<1>6. /\ panic' = panic /\ thr' \in Table /\ queue' \in Queues /\ TableOK'
      /\ \A u \in Thread : u # t => thr'[u] = thr[u]
      /\ thr'[t].state = "Waiting" /\ thr'[t].waitObjects = <<ClientEnd(0)>>
      /\ thr'[t].waitType = "WaitSync1" /\ thr'[t].resume = thr[t].resume
      /\ w \in Waker
      /\ queue' = [queue EXCEPT ![ClientEnd(0)] = Append(q, w)]
    BY <1>1, <1>3, <1>5, Endpoints, ClientSuspend
<1> HIDE DEF w
<1>7. /\ queue'[ClientEnd(0)] = Append(q, w)
      /\ \A i \in Session : queue'[ClientEnd(i)] = queue[ClientEnd(i)]
    BY <1>2, <1>6, Endpoints DEF Queues
<1>8. /\ step'[t] = "connecting" /\ \A u \in Thread : u # t => step'[u] = step[u]
      /\ step' \in [Thread -> ServiceStep \cup ClientStep]
    BY <1>3, <1>4, <1>5 DEF ClientStep
<1>9. /\ q \in Seq(Waker) /\ Len(q) \in Nat /\ Len(sessionQueue) \in Nat
      /\ Len(q) + 1 = Len(sessionQueue)
    <2>1. q \in Seq(Waker)
        BY <1>2, Endpoints DEF Queues
    <2>2. current # NoThread
        BY <1>2, <1>3, <1>5
    <2>3. Len(q) \in Nat /\ Len(sessionQueue) \in Nat
        BY <2>1, <1>4
    <2> QED
        BY <1>1, <1>3, <2>1, <2>2, <2>3 DEF ConnectorsMatchSessions
<1>10. created \in Session
    <2>1. created # 0
        BY <1>1, <1>9 DEF SessionsCounted
    <2> QED
        BY <1>4, <2>1, SessionsAssumption DEF Session
<1>11. TypeOK'
    BY <1>1, <1>3, <1>4, <1>6, <1>8, <1>10 DEF TypeOK, Table, Queues
<1>12. NoPanic'
    BY <1>1, <1>6 DEF NoPanic
<1>13. SliceOK'
    BY <1>1, <1>2, <1>3, <1>5, <1>6, <1>8 DEF SliceOK
<1>14. ClientsOK'
    <2>1. ClientStepOK(t)'
        BY <1>2, <1>3, <1>5, <1>6, <1>8 DEF ClientStepOK, ClientStep, ClientWaits
    <2>2. ClientDataOK(t)'
        BY <1>3, <1>5, <1>8 DEF ClientDataOK, Pending, Last
    <2> QED
        BY <1>2, <1>3, <1>6, <1>8, <2>1, <2>2, OthersFrame
<1>15. ServiceOK'
    <2>1. UNCHANGED serviceVars
        BY <1>3 DEF serviceVars
    <2>2. /\ step'[server] = step[server] /\ current # server /\ current' # server
          /\ thr'[server] = thr[server]
        BY <1>2, <1>3, <1>5, <1>6, <1>8
    <2> QED
        BY <1>3, <2>1, <2>2, ServiceFrame
<1>16. EndsMatch'
    <2> SUFFICES ASSUME NEW j \in Session
                 PROVE  ThreadsOf(queue'[ClientEnd(j)]) = requestQueue'[j] /\ ~Sends(current, j)'
        BY DEF EndsMatch
    <2>1. ~Sends(current, j)' /\ ~Sends(current, j)
        BY <1>2, <1>3 DEF Sends, Client
    <2> QED
        BY <1>1, <1>3, <1>7, <2>1 DEF EndsMatch
<1>17. ConnectorsMatchSessions'
    <2>1. Len(Append(q, w)) = Len(q) + 1
        BY <1>6, <1>9
    <2> QED
        BY <1>3, <1>7, <1>9, <2>1 DEF ConnectorsMatchSessions
<1>18. SessionsCounted'
    BY <1>1, <1>3 DEF SessionsCounted
<1> QED
    BY <1>6, <1>11, <1>12, <1>13, <1>14, <1>15, <1>16, <1>17, <1>18 DEF Inv

\* send_sync_request puts the thread to sleep on its end of a session.
LEMMA SendSyncRequestInv ==
    ASSUME Inv, server' = server, NEW t \in Client, SendSyncRequest(t)
    PROVE  Inv'
<1> DEFINE w == WakerOf(thr, t)
<1>1. TypeOK /\ NoPanic /\ TableOK /\ SliceOK /\ ClientsOK /\ ServiceOK /\ EndsMatch
      /\ ConnectorsMatchSessions /\ SessionsCounted
    BY DEF Inv
<1>2. /\ thr \in Table /\ queue \in Queues /\ server \in Thread /\ Client \subseteq Thread
      /\ server \notin Client
      /\ \A u \in Thread : u = server \/ u \in Client
      /\ NoThread \notin Thread
    BY <1>1, TableType
<1>3. /\ current = t /\ step[t] = "idle" /\ sent[t] < MaxRequests
      /\ sent' = [sent EXCEPT ![t] = sent[t] + 1]
      /\ ipcData' = [ipcData EXCEPT ![t] = Request(t, sent'[t])]
      /\ step' = [step EXCEPT ![t] = "send"]
      /\ UNCHANGED <<current, payload, sessionQueue, created, open, requestQueue, handles,
                     replyTarget, buffer, from, answer>>
    BY DEF SendSyncRequest, InSlice, Goto, portVars, serviceVars
<1>4. /\ open \subseteq Session /\ step \in [Thread -> ServiceStep \cup ClientStep]
      /\ sent \in [Thread -> 0..MaxRequests] /\ ipcData \in [Thread -> Message]
    BY <1>1 DEF TypeOK
<1>5. PICK i \in Session : SuspendOn(t, <<ClientEnd(i)>>, "WaitSync1")
    BY <1>4 DEF SendSyncRequest
<1>6. t \in Thread /\ t # server /\ thr[t].state = "Running" /\ ClientStepOK(t) /\ ClientDataOK(t)
    BY <1>1, <1>2, <1>3, InTheSlice DEF ClientsOK
<1> DEFINE q == queue[ClientEnd(i)]
<1>7. /\ panic' = panic /\ thr' \in Table /\ queue' \in Queues /\ TableOK'
      /\ \A u \in Thread : u # t => thr'[u] = thr[u]
      /\ thr'[t].state = "Waiting" /\ thr'[t].waitObjects = <<ClientEnd(i)>>
      /\ thr'[t].waitType = "WaitSync1" /\ thr'[t].resume = thr[t].resume
      /\ w \in Waker /\ w.thread = t
      /\ queue' = [queue EXCEPT ![ClientEnd(i)] = Append(q, w)]
    BY <1>1, <1>5, <1>6, Endpoints, ClientSuspend
<1> HIDE DEF w
<1>8. /\ queue'[ClientEnd(i)] = Append(q, w)
      /\ \A j \in 0..MaxSessions : j # i => queue'[ClientEnd(j)] = queue[ClientEnd(j)]
    BY <1>2, <1>7, Endpoints DEF Queues
<1>9. /\ step'[t] = "send" /\ \A u \in Thread : u # t => step'[u] = step[u]
      /\ step' \in [Thread -> ServiceStep \cup ClientStep]
    BY <1>3, <1>4, <1>6 DEF ClientStep
<1>10. /\ sent'[t] = sent[t] + 1 /\ sent[t] + 1 \in 0..MaxRequests /\ sent'[t] > 0
       /\ ipcData'[t] = Request(t, sent'[t])
       /\ \A u \in Thread : u # t => sent'[u] = sent[u] /\ ipcData'[u] = ipcData[u]
    BY <1>3, <1>4, <1>6, SessionsAssumption
<1>11. TypeOK'
    <2>1. sent' \in [Thread -> 0..MaxRequests]
        BY <1>3, <1>4, <1>10
    <2>2. Request(t, sent'[t]) \in Message
        BY <1>6, <1>10 DEF Request, Message
    <2>3. ipcData' \in [Thread -> Message]
        BY <1>3, <1>4, <2>2
    <2> QED
        BY <1>1, <1>3, <1>7, <1>9, <2>1, <2>3 DEF TypeOK, Table, Queues
<1>12. NoPanic'
    BY <1>1, <1>7 DEF NoPanic
<1>13. SliceOK'
    BY <1>1, <1>3, <1>6, <1>7, <1>9 DEF SliceOK
<1>14. ClientsOK'
    <2>1. ClientWaits(t)'
        BY <1>7, <1>9 DEF ClientWaits
    <2>2. ClientStepOK(t)'
        BY <1>3, <1>6, <1>7, <1>9, <2>1 DEF ClientStepOK, ClientStep
    <2>3. ClientDataOK(t)'
        BY <1>9, <1>10 DEF ClientDataOK, Pending
    <2> QED
        BY <1>2, <1>3, <1>7, <1>9, <1>10, <2>2, <2>3, OthersFrame
<1>15. ServiceOK'
    <2>1. UNCHANGED serviceVars
        BY <1>3 DEF serviceVars
    <2>2. /\ step'[server] = step[server] /\ current # server /\ current' # server
          /\ thr'[server] = thr[server]
        BY <1>2, <1>3, <1>6, <1>7, <1>9
    <2>3. \A u \in Client : thr[u].state = "Waiting" => ipcData'[u] = ipcData[u]
        BY <1>2, <1>6, <1>10
    <2> QED
        BY <1>3, <2>1, <2>2, <2>3, ServiceFrame
<1>16. EndsMatch'
    <2> SUFFICES ASSUME NEW j \in Session
                 PROVE  ThreadsOf(queue'[ClientEnd(j)]) =
                           IF Sends(current, j)' THEN Append(requestQueue'[j], current')
                                                 ELSE requestQueue'[j]
        BY DEF EndsMatch
    <2>1. ThreadsOf(queue[ClientEnd(j)]) = requestQueue[j]
        BY <1>1, <1>3 DEF EndsMatch, Sends
    <2>2. Sends(current, j)' <=> j = i
        <3>1. Objects(thr', t) = {ClientEnd(i)}
            BY <1>7 DEF Objects
        <3>2. ClientEnd(j) \in Objects(thr', t) <=> j = i
            BY <3>1, Endpoints
        <3> QED
            BY <1>3, <1>9, <3>2 DEF Sends, Client
    <2>3. CASE j = i
        <3>1. q \in Seq(Waker)
            BY <1>2, Endpoints DEF Queues
        <3>2. ThreadsOf(Append(q, w)) = Append(ThreadsOf(q), t)
            BY <1>7, <3>1, ThreadsOfAppend
        <3> QED
            BY <1>3, <1>8, <2>1, <2>2, <2>3, <3>2
    <2>4. CASE j # i
        BY <1>3, <1>8, <2>1, <2>2, <2>4, Endpoints
    <2> QED
        BY <2>3, <2>4
<1>17. ConnectorsMatchSessions'
    <2>1. queue'[ClientEnd(0)] = queue[ClientEnd(0)]
        BY <1>8, Endpoints
    <2> QED
        BY <1>1, <1>3, <1>9, <2>1 DEF ConnectorsMatchSessions
<1>18. SessionsCounted'
    BY <1>1, <1>3 DEF SessionsCounted
<1> QED
    BY <1>7, <1>11, <1>12, <1>13, <1>14, <1>15, <1>16, <1>17, <1>18 DEF Inv

\* enqueue_sync_request queues the thread at the other end and wakes the service.
LEMMA EnqueueRequestInv ==
    ASSUME Inv, server' = server, NEW t \in Client, EnqueueRequest(t)
    PROVE  Inv'
<1>1. TypeOK /\ NoPanic /\ TableOK /\ SliceOK /\ ClientsOK /\ ServiceOK /\ EndsMatch
      /\ ConnectorsMatchSessions /\ SessionsCounted
    BY DEF Inv
<1>2. /\ thr \in Table /\ queue \in Queues /\ server \in Thread /\ Client \subseteq Thread
      /\ server \notin Client
      /\ \A u \in Thread : u = server \/ u \in Client
      /\ NoThread \notin Thread
    BY <1>1, TableType
<1>3. /\ current = t /\ step[t] = "send" /\ current' = NoThread
      /\ step' = [step EXCEPT ![t] = "asking"]
      /\ UNCHANGED <<payload, sessionQueue, created, open, ipcData, handles, replyTarget, buffer,
                     from, sent, answer>>
    BY DEF EnqueueRequest, InSlice, Goto, portVars, serviceVars, clientVars
<1>4. /\ requestQueue \in [Session -> Seq(Thread)]
      /\ step \in [Thread -> ServiceStep \cup ClientStep]
    BY <1>1 DEF TypeOK
<1>5. PICK i \in Session : /\ ClientEnd(i) \in Objects(thr, t)
                           /\ requestQueue' = [requestQueue EXCEPT ![i] = Append(requestQueue[i], t)]
                           /\ WakeThread(ServerEnd(i))
    BY DEF EnqueueRequest
<1>6. t \in Thread /\ t # server /\ ClientStepOK(t) /\ ClientDataOK(t) /\ thr[t].state = "Waiting"
    BY <1>1, <1>2, <1>3 DEF ClientsOK, ClientStepOK
<1>7. /\ panic' = panic /\ thr' \in Table /\ queue' \in Queues /\ TableOK'
      /\ \A j \in 0..MaxSessions : queue'[ClientEnd(j)] = queue[ClientEnd(j)]
      /\ \A u \in Client : thr'[u] = thr[u]
      /\ \/ thr' = thr
         \/ /\ thr[server].state = "Waiting" /\ ServerEnd(i) \in Objects(thr, server)
            /\ thr'[server] = Awake(thr[server], ResumeByObject(thr[server], ServerEnd(i)))
    BY <1>5, Endpoints, WakeServer
<1>8. /\ step'[t] = "asking" /\ \A u \in Thread : u # t => step'[u] = step[u]
      /\ step' \in [Thread -> ServiceStep \cup ClientStep]
    BY <1>3, <1>4, <1>6 DEF ClientStep
<1>9. /\ requestQueue'[i] = Append(requestQueue[i], t)
      /\ \A j \in Session : j # i => requestQueue'[j] = requestQueue[j]
    BY <1>4, <1>5
<1>10. Append(requestQueue[i], t) \in Seq(Thread) /\ Append(requestQueue[i], t) # <<>>
    <2>1. requestQueue[i] \in Seq(Thread)
        BY <1>4
    <2> QED
        BY <1>6, <2>1
<1>11. TypeOK'
    <2>1. requestQueue' \in [Session -> Seq(Thread)]
        BY <1>4, <1>5, <1>10
    <2> QED
        BY <1>1, <1>3, <1>7, <1>8, <2>1 DEF TypeOK, Table, Queues
<1>12. NoPanic'
    BY <1>1, <1>7 DEF NoPanic
<1>13. SliceOK'
    <2> SUFFICES ASSUME NEW u \in Thread PROVE thr'[u].state # "Running"
        BY <1>2, <1>3 DEF SliceOK
    <2>1. thr[u].state # "Running" /\ thr[u] \in CommonThread
        BY <1>1, <1>2, <1>3 DEF SliceOK, Table
    <2>2. CASE u = server
        BY <1>7, <2>1, <2>2, AwakeRecord
    <2>3. CASE u # server
        BY <1>2, <1>7, <2>1, <2>3
    <2> QED
        BY <2>2, <2>3
<1>14. ClientsOK'
    <2>1. ClientWaits(t)'
        BY <1>3, <1>6, <1>7, <1>8 DEF ClientStepOK, ClientWaits
    <2>2. ClientStepOK(t)'
        BY <1>2, <1>3, <1>6, <1>7, <1>8, <2>1 DEF ClientStepOK, ClientStep
    <2>3. ClientDataOK(t)'
        BY <1>3, <1>6, <1>7, <1>8 DEF ClientDataOK, Pending
    <2> QED
        BY <1>2, <1>3, <1>7, <1>8, <2>2, <2>3, OthersFrame
<1>15. ServiceOK'
    <2>1. UNCHANGED serviceVars
        BY <1>3 DEF serviceVars
    <2>2. /\ step'[server] = step[server] /\ current # server /\ current' # server
          /\ i \in 0..MaxSessions
        BY <1>2, <1>3, <1>6, <1>8, Endpoints
    <2> QED
        BY <1>3, <1>6, <1>7, <1>9, <1>10, <2>1, <2>2, ServiceFrame
<1>16. EndsMatch'
    <2> SUFFICES ASSUME NEW j \in Session
                 PROVE  ThreadsOf(queue'[ClientEnd(j)]) = requestQueue'[j] /\ ~Sends(current, j)'
        BY DEF EndsMatch
    <2>1. ~Sends(current, j)'
        BY <1>2, <1>3 DEF Sends, Client
    <2>2. queue'[ClientEnd(j)] = queue[ClientEnd(j)]
        BY <1>7, Endpoints
    <2>3. Sends(current, j) <=> j = i
        <3>1. \E k \in Session : thr[t].waitObjects = <<ClientEnd(k)>>
            BY <1>3, <1>6 DEF ClientStepOK, ClientWaits
        <3>2. PICK k \in Session : thr[t].waitObjects = <<ClientEnd(k)>>
            BY <3>1
        <3>3. Objects(thr, t) = {ClientEnd(k)}
            BY <3>2 DEF Objects
        <3>4. k = i /\ (ClientEnd(j) \in Objects(thr, t) <=> j = i)
            BY <1>5, <3>3, Endpoints
        <3> QED
            BY <1>3, <3>4 DEF Sends
    <2>4. ThreadsOf(queue[ClientEnd(j)]) = IF j = i THEN Append(requestQueue[j], t) ELSE requestQueue[j]
        BY <1>1, <1>3, <2>3 DEF EndsMatch
    <2> QED
        BY <1>9, <2>1, <2>2, <2>4
<1>17. ConnectorsMatchSessions'
    <2>1. queue'[ClientEnd(0)] = queue[ClientEnd(0)]
        BY <1>7, Endpoints
    <2> QED
        BY <1>1, <1>3, <2>1 DEF ConnectorsMatchSessions
<1>18. SessionsCounted'
    BY <1>1, <1>3 DEF SessionsCounted
<1> QED
    BY <1>7, <1>11, <1>12, <1>13, <1>14, <1>15, <1>16, <1>17, <1>18 DEF Inv

\* A step of a client that touches neither the queues nor the service.
LEMMA QuietInv ==
    ASSUME Inv, server' = server, NEW t \in Client, current = t, step[t] # "send",
           current' \in {t, NoThread}, TypeOK', panic' = panic,
           \A i \in 0..MaxSessions : queue'[ClientEnd(i)] = queue[ClientEnd(i)],
           TableOK',
           \A u \in Thread : u # t => thr'[u] = thr[u] /\ step'[u] = step[u],
           thr'[t].state = "Running" <=> current' = t,
           UNCHANGED <<payload, sessionQueue, created, requestQueue, ipcData, sent>>,
           UNCHANGED serviceVars,
           \A u \in Client : u # t => answer'[u] = answer[u],
           step[t] # "connect", step'[t] \notin {"connect", "send"},
           ClientStepOK(t)', ClientDataOK(t)'
    PROVE  Inv'
<1>1. TypeOK /\ NoPanic /\ TableOK /\ SliceOK /\ ClientsOK /\ ServiceOK /\ EndsMatch
      /\ ConnectorsMatchSessions /\ SessionsCounted
    BY DEF Inv
<1>2. /\ thr \in Table /\ queue \in Queues /\ server \in Thread /\ Client \subseteq Thread
      /\ server \notin Client
      /\ \A u \in Thread : u = server \/ u \in Client
      /\ NoThread \notin Thread
    BY <1>1, TableType
<1>3. NoPanic'
    BY <1>1 DEF NoPanic
<1>4. SliceOK'
    BY <1>1, <1>2 DEF SliceOK
<1>5. ClientsOK'
    BY <1>2, OthersFrame
<1>6. ServiceOK'
    <2>1. thr'[server] = thr[server] /\ step'[server] = step[server] /\ current # server /\ current' # server
        BY <1>2
    <2> QED
        BY <2>1, ServiceFrame
<1>7. EndsMatch'
    BY <1>1, <1>2, EndsFrame
<1>8. ConnectorsMatchSessions'
    <2>1. queue'[ClientEnd(0)] = queue[ClientEnd(0)]
        BY Endpoints
    <2> QED
        BY <1>1, <2>1 DEF ConnectorsMatchSessions
<1>9. SessionsCounted'
    BY <1>1 DEF SessionsCounted
<1> QED
    BY <1>3, <1>4, <1>5, <1>6, <1>7, <1>8, <1>9 DEF Inv

\* A thread goes on after a call: it was resumed normally, and with its answer.
LEMMA ContinueInv ==
    ASSUME Inv, server' = server, NEW t \in Client, Continue(t)
    PROVE  Inv'
<1>1. TypeOK /\ NoPanic /\ TableOK /\ SliceOK /\ ClientsOK /\ ServiceOK /\ EndsMatch
      /\ ConnectorsMatchSessions /\ SessionsCounted
    BY DEF Inv
<1>2. /\ thr \in Table /\ queue \in Queues /\ server \in Thread /\ Client \subseteq Thread
      /\ server \notin Client
      /\ \A u \in Thread : u = server \/ u \in Client
      /\ NoThread \notin Thread
    BY <1>1, TableType
<1>3. /\ current = t /\ step[t] \in {"asking", "connecting", "sleeping"}
      /\ IF step[t] = "asking" THEN answer' = [answer EXCEPT ![t] = ipcData[t]] ELSE answer' = answer
      /\ UNCHANGED <<current, payload, sessionQueue, created, open, requestQueue, ipcData, sent>>
      /\ UNCHANGED serviceVars
    BY DEF Continue, InSlice, portVars
<1>4. t \in Thread /\ t # server /\ thr[t].state = "Running" /\ ClientStepOK(t) /\ ClientDataOK(t)
    BY <1>1, <1>2, <1>3, InTheSlice DEF ClientsOK
<1>5. step' = [step EXCEPT ![t] = "idle"] /\ UNCHANGED <<thr, queue, panic>>
    BY <1>3, <1>4 DEF Continue, ClientStepOK, Goto, tableVars
<1>6. /\ step \in [Thread -> ServiceStep \cup ClientStep]
      /\ ipcData \in [Thread -> Message] /\ answer \in [Thread -> Message]
    BY <1>1 DEF TypeOK
<1>7. /\ step'[t] = "idle" /\ \A u \in Thread : u # t => step'[u] = step[u]
      /\ step' \in [Thread -> ServiceStep \cup ClientStep]
    BY <1>4, <1>5, <1>6 DEF ClientStep
<1>8. answer' \in [Thread -> Message] /\ \A u \in Thread : u # t => answer'[u] = answer[u]
    BY <1>3, <1>4, <1>6
<1>9. TypeOK'
    BY <1>1, <1>3, <1>5, <1>7, <1>8 DEF TypeOK, serviceVars
<1>10. TableOK'
    BY <1>1, <1>5 DEF TableOK, WakersLive, WaitersDistinct
<1>11. ClientStepOK(t)'
    BY <1>3, <1>4, <1>5, <1>7 DEF ClientStepOK, ClientStep
<1>12. answer'[t] = Last(t) /\ ipcData[t] = Last(t)
    BY <1>3, <1>4, <1>6 DEF ClientDataOK, Pending
<1>13. ClientDataOK(t)'
    BY <1>3, <1>7, <1>12 DEF ClientDataOK, Pending, Last
<1> QED
    BY <1>2, <1>3, <1>4, <1>5, <1>7, <1>8, <1>9, <1>10, <1>11, <1>13, QuietInv

\* Closing a session's handle.
LEMMA CloseHandleInv ==
    ASSUME Inv, server' = server, NEW t \in Client, CloseHandle(t)
    PROVE  Inv'
<1>1. TypeOK /\ NoPanic /\ TableOK /\ SliceOK /\ ClientsOK /\ ServiceOK /\ EndsMatch
      /\ ConnectorsMatchSessions /\ SessionsCounted
    BY DEF Inv
<1>2. /\ thr \in Table /\ queue \in Queues /\ server \in Thread /\ Client \subseteq Thread
      /\ server \notin Client
      /\ \A u \in Thread : u = server \/ u \in Client
      /\ NoThread \notin Thread
    BY <1>1, TableType
<1>3. /\ current = t /\ step[t] = "idle" /\ open' \subseteq open
      /\ UNCHANGED <<thr, queue, panic, current, payload, sessionQueue, created, requestQueue,
                     ipcData, step, sent, answer>>
      /\ UNCHANGED serviceVars
    BY DEF CloseHandle, InSlice, tableVars, clientVars
<1>4. t \in Thread /\ thr[t].state = "Running" /\ ClientStepOK(t) /\ ClientDataOK(t)
    BY <1>1, <1>2, <1>3, InTheSlice DEF ClientsOK
<1>5. TypeOK'
    BY <1>1, <1>3 DEF TypeOK, serviceVars
<1>6. TableOK'
    BY <1>1, <1>3 DEF TableOK, WakersLive, WaitersDistinct
<1>7. ClientStepOK(t)' /\ ClientDataOK(t)'
    BY <1>3, <1>4, ClientFrame
<1> QED
    BY <1>3, <1>4, <1>5, <1>6, <1>7, QuietInv

\* svcSleepThread.
LEMMA SleepThreadInv ==
    ASSUME Inv, server' = server, NEW t \in Client, SleepThread(t)
    PROVE  Inv'
<1> DEFINE list == <<>>
<1>1. TypeOK /\ NoPanic /\ TableOK /\ SliceOK /\ ClientsOK /\ ServiceOK /\ EndsMatch
      /\ ConnectorsMatchSessions /\ SessionsCounted
    BY DEF Inv
<1>2. /\ thr \in Table /\ queue \in Queues /\ server \in Thread /\ Client \subseteq Thread
      /\ server \notin Client
      /\ \A u \in Thread : u = server \/ u \in Client
      /\ NoThread \notin Thread
    BY <1>1, TableType
<1>3. /\ current = t /\ step[t] = "idle" /\ current' = NoThread
      /\ SuspendOn(t, list, "Sleep") /\ step' = [step EXCEPT ![t] = "sleeping"]
      /\ UNCHANGED <<payload, sessionQueue, created, open, requestQueue, ipcData, sent, answer>>
      /\ UNCHANGED serviceVars
    BY DEF SleepThread, InSlice, Goto, portVars, clientVars
<1>4. t \in Thread /\ thr[t].state = "Running" /\ ClientStepOK(t) /\ ClientDataOK(t)
    BY <1>1, <1>2, <1>3, InTheSlice DEF ClientsOK
<1>5. list \in Seq(Object) /\ Len(list) = 0 /\ "Sleep" \in ThreadWaitType \ {"None"} /\ list = <<>>
    BY DEF ThreadWaitType
<1> HIDE DEF list
<1>6. /\ panic' = panic /\ thr' \in Table /\ queue' \in Queues /\ TableOK'
      /\ \A u \in Thread : u # t => thr'[u] = thr[u]
      /\ thr'[t].state = "Waiting" /\ thr'[t].waitObjects = list
      /\ thr'[t].waitType = "Sleep" /\ thr'[t].resume = thr[t].resume
      /\ \A o \in Object : queue'[o] = IF \E n \in 1..Len(list) : list[n] = o
                                       THEN Append(queue[o], WakerOf(thr, t)) ELSE queue[o]
    <2> DEFINE type == "Sleep"
    <2>1. thr[t].state # "Waiting" /\ type \in ThreadWaitType \ {"None"} /\ SuspendOn(t, list, type)
        BY <1>3, <1>4, <1>5
    <2>2. type = "Sleep" => list = <<>>
        BY <1>5
    <2>3. list \in Seq(Object) /\ t \in Thread /\ TypeOK /\ TableOK
        BY <1>1, <1>4, <1>5
    <2> HIDE DEF type
    <2>4. /\ panic' = panic /\ thr' \in Table /\ queue' \in Queues /\ TableOK'
          /\ \A u \in Thread : u # t => thr'[u] = thr[u]
          /\ thr'[t].state = "Waiting" /\ thr'[t].waitObjects = list
          /\ thr'[t].waitType = type /\ thr'[t].resume = thr[t].resume
          /\ \A o \in Object : queue'[o] = IF \E n \in 1..Len(list) : list[n] = o
                                           THEN Append(queue[o], WakerOf(thr, t)) ELSE queue[o]
        BY <2>1, <2>2, <2>3, SuspendStep
    <2> QED
        BY <2>4 DEF type
<1>7. \A i \in 0..MaxSessions : queue'[ClientEnd(i)] = queue[ClientEnd(i)]
    <2>1. ~ \E n \in 1..Len(list) : TRUE
        BY <1>5
    <2> QED
        BY <1>6, <2>1, Endpoints
<1>8. step \in [Thread -> ServiceStep \cup ClientStep]
    BY <1>1 DEF TypeOK
<1>9. /\ step'[t] = "sleeping" /\ \A u \in Thread : u # t => step'[u] = step[u]
      /\ step' \in [Thread -> ServiceStep \cup ClientStep]
    BY <1>3, <1>4, <1>8 DEF ClientStep
<1>10. TypeOK'
    BY <1>1, <1>3, <1>6, <1>9 DEF TypeOK, Table, Queues, serviceVars
<1>11. ClientStepOK(t)'
    BY <1>2, <1>3, <1>4, <1>5, <1>6, <1>9 DEF ClientStepOK, ClientStep, ClientWaits
<1>12. ClientDataOK(t)'
    BY <1>3, <1>4, <1>9 DEF ClientDataOK, Pending, Last
<1> QED
    BY <1>2, <1>3, <1>4, <1>6, <1>7, <1>9, <1>10, <1>11, <1>12, QuietInv

\* exit_thread.
LEMMA ExitThreadInv ==
    ASSUME Inv, server' = server, NEW t \in Client, ExitThread(t)
    PROVE  Inv'
<1>1. TypeOK /\ NoPanic /\ TableOK /\ SliceOK /\ ClientsOK /\ ServiceOK /\ EndsMatch
      /\ ConnectorsMatchSessions /\ SessionsCounted
    BY DEF Inv
<1>2. /\ thr \in Table /\ queue \in Queues /\ server \in Thread /\ Client \subseteq Thread
      /\ server \notin Client
      /\ \A u \in Thread : u = server \/ u \in Client
      /\ NoThread \notin Thread
    BY <1>1, TableType
<1>3. /\ current = t /\ step[t] = "idle" /\ current' = NoThread
      /\ thr' = [thr EXCEPT ![t].state = "Done"] /\ step' = [step EXCEPT ![t] = "done"]
      /\ UNCHANGED <<queue, panic, payload, sessionQueue, created, open, requestQueue, ipcData,
                     sent, answer>>
      /\ UNCHANGED serviceVars
    BY DEF ExitThread, InSlice, Goto, portVars, clientVars
<1>4. t \in Thread /\ thr[t].state = "Running" /\ ClientStepOK(t) /\ ClientDataOK(t)
    BY <1>1, <1>2, <1>3, InTheSlice DEF ClientsOK
<1>5. /\ thr[t] \in CommonThread /\ thr'[t] = [thr[t] EXCEPT !.state = "Done"]
      /\ \A u \in Thread : u # t => thr'[u] = thr[u]
    BY <1>2, <1>3, <1>4 DEF Table
<1>6. thr'[t].state = "Done" /\ thr'[t].resume = thr[t].resume /\ thr'[t] \in CommonThread
    BY <1>5 DEF CommonThread, ThreadState
<1>7. thr' \in Table
    BY <1>2, <1>3, <1>4, <1>5, <1>6 DEF Table
<1>8. step \in [Thread -> ServiceStep \cup ClientStep]
    BY <1>1 DEF TypeOK
<1>9. /\ step'[t] = "done" /\ \A u \in Thread : u # t => step'[u] = step[u]
      /\ step' \in [Thread -> ServiceStep \cup ClientStep]
    BY <1>3, <1>4, <1>8 DEF ClientStep
<1>10. TypeOK'
    BY <1>1, <1>3, <1>7, <1>9 DEF TypeOK, Table, serviceVars
<1>11. TableOK'
    BY <1>1, <1>3, <1>4, <1>5, <1>6, TableFrame
<1>12. ClientStepOK(t)'
    BY <1>2, <1>3, <1>4, <1>6, <1>9 DEF ClientStepOK, ClientStep
<1>13. ClientDataOK(t)'
    BY <1>3, <1>4, <1>9 DEF ClientDataOK, Pending, Last
<1> QED
    BY <1>2, <1>3, <1>4, <1>5, <1>6, <1>9, <1>10, <1>11, <1>12, <1>13, QuietInv

-----------------------------------------------------------------------------
(* The theorems *)

\* The emulator starts with every thread ready and nothing queued.
LEMMA InitInv == Init => Inv
<1> SUFFICES ASSUME Init PROVE Inv
    OBVIOUS
<1>1. server \in Servers /\ server \in Thread
    BY SessionsAssumption DEF Init
<1>2. /\ NewThread("Ready") \in CommonThread /\ NewThread("Ready").state = "Ready"
      /\ NewThread("Ready").resume = Normal
    BY ThreadTableAssumption DEF NewThread, CommonThread, ThreadState, ThreadWaitType, ThreadResume,
                                 Normal, NoTimeout
<1>3. \A t \in Thread : thr[t] = NewThread("Ready") /\ step[t] = IF t = server THEN "loop" ELSE "idle"
    BY DEF Init
<1>4. \A t \in Thread : Request(t, 0) \in Message
    BY SessionsAssumption DEF Request, Message
<1>5. \A o \in Object : queue[o] = <<>> /\ Wakers(queue[o]) = {}
    BY DEF Init, Wakers
<1>6. TypeOK
    <2>1. thr \in [Thread -> CommonThread] /\ queue \in [Object -> Seq(Waker)]
        BY <1>2 DEF Init
    <2>2. requestQueue \in [Session -> Seq(Thread)] /\ sessionQueue \in Seq(Session)
          /\ handles \in Seq(Session)
        BY DEF Init
    <2>3. step \in [Thread -> ServiceStep \cup ClientStep]
        BY DEF Init, ServiceStep, ClientStep
    <2>4. payload \in ThreadResume
        BY DEF Init, Normal, ThreadResume
    <2>5. ipcData \in [Thread -> Message] /\ answer \in [Thread -> Message] /\ buffer \in Message
        BY <1>1, <1>4 DEF Init
    <2>6. created \in 0..MaxSessions /\ sent \in [Thread -> 0..MaxRequests]
        BY SessionsAssumption DEF Init
    <2> QED
        BY <1>1, <2>1, <2>2, <2>3, <2>4, <2>5, <2>6 DEF TypeOK, Init
<1>7. NoPanic /\ SessionsCounted
    BY DEF Init, NoPanic, SessionsCounted
<1>8. TableOK
    <2>1. SleepersOK(thr)
        BY <1>2, <1>3 DEF SleepersOK
    <2>2. WakersOK(thr, queue) /\ WakersLive
        BY <1>5 DEF WakersOK, WakersLive
    <2>3. WaitersDistinct
        BY <1>5, Endpoints DEF WaitersDistinct
    <2> QED
        BY <2>1, <2>2, <2>3 DEF TableOK
<1>9. NoThread \notin Thread
    BY ThreadTableAssumption DEF NoThread, Thread
<1>10. SliceOK
    BY <1>2, <1>3, <1>9 DEF SliceOK, Init
<1>11. ClientsOK
    <2> SUFFICES ASSUME NEW t \in Client PROVE ClientStepOK(t) /\ ClientDataOK(t)
        BY DEF ClientsOK
    <2>1. t \in Thread /\ t # server /\ step[t] = "idle" /\ thr[t] = NewThread("Ready")
        BY <1>3 DEF Client
    <2>2. ClientStepOK(t)
        BY <1>2, <1>9, <2>1 DEF ClientStepOK, ClientStep, Init
    <2>3. sent[t] = 0 /\ ipcData[t] = Request(t, 0) /\ answer[t] = Request(t, 0)
        BY <2>1 DEF Init
    <2>4. ClientDataOK(t)
        BY <2>1, <2>3 DEF ClientDataOK, Pending, Last
    <2> QED
        BY <2>2, <2>4
<1>12. ServiceOK
    BY <1>1, <1>2, <1>3 DEF ServiceOK, ServiceStep, Init
<1>13. EndsMatch
    <2> SUFFICES ASSUME NEW i \in Session
                 PROVE  ThreadsOf(queue[ClientEnd(i)]) = requestQueue[i] /\ ~Sends(current, i)
        BY DEF EndsMatch
    <2>1. ~Sends(current, i)
        BY <1>9 DEF Init, Sends, Client
    <2>2. queue[ClientEnd(i)] = <<>> /\ requestQueue[i] = <<>>
        BY <1>5, Endpoints DEF Init
    <2>3. ThreadsOf(<<>>) = <<>>
        BY DEF ThreadsOf
    <2> QED
        BY <2>1, <2>2, <2>3
<1>14. ConnectorsMatchSessions
    <2>1. queue[ClientEnd(0)] = <<>> /\ sessionQueue = <<>> /\ current = NoThread
        BY <1>5, Endpoints DEF Init
    <2> QED
        BY <2>1 DEF ConnectorsMatchSessions
<1> QED
    BY <1>6, <1>7, <1>8, <1>10, <1>11, <1>12, <1>13, <1>14 DEF Inv

\* Every step of the scheduler, the service and the clients keeps the invariant.
LEMMA NextInv == Inv /\ [Next]_vars => Inv'
<1> SUFFICES ASSUME Inv, [Next]_vars PROVE Inv'
    OBVIOUS
<1>1. CASE UNCHANGED vars
    <2>1. UNCHANGED <<server, thr, queue, panic, current, payload, sessionQueue, created, open,
                      requestQueue, ipcData, step, handles, replyTarget, buffer, from, sent, answer>>
        BY <1>1 DEF vars, tableVars, portVars, serviceVars, clientVars
    <2>2. TypeOK' /\ NoPanic' /\ SessionsCounted' /\ ConnectorsMatchSessions'
        BY <2>1 DEF Inv, TypeOK, NoPanic, SessionsCounted, ConnectorsMatchSessions
    <2>3. TableOK' /\ SliceOK'
        BY <2>1 DEF Inv, TableOK, WakersLive, WaitersDistinct, SliceOK
    <2>4. ClientsOK'
        <3> SUFFICES ASSUME NEW u \in Client PROVE (ClientStepOK(u) /\ ClientDataOK(u))'
            BY <2>1 DEF ClientsOK, Client
        <3>1. ClientStepOK(u) /\ ClientDataOK(u)
            BY DEF Inv, ClientsOK
        <3> QED
            BY <2>1, <3>1, ClientFrame
    <2>5. ServiceOK'
        BY <2>1, ServiceFrame DEF serviceVars
    <2>6. EndsMatch'
        BY <2>1 DEF Inv, EndsMatch, Sends, Client
    <2> QED
        BY <2>2, <2>3, <2>4, <2>5, <2>6 DEF Inv
<1>2. ASSUME Next PROVE Inv'
    <2>1. server' = server
        BY <1>2 DEF Next, Loop
    <2>2. CASE RunNext \/ WakeSleeper
        BY <2>1, <2>2, RunNextInv, WakeSleeperInv
    <2>3. CASE Service
        BY <2>1, <2>3, ReplyInv, ReceiveInv, ResumedInv, HandleIpcInv, AcceptWaitInv, AcceptFirstInv
           DEF Service
    <2>4. ASSUME NEW t \in Client, ClientCall(t) PROVE Inv'
        BY <2>1, <2>4, ConnectWaitInv, EnqueueRequestInv, ContinueInv DEF ClientCall
    <2>5. ASSUME NEW t \in Client, ClientChoice(t) PROVE Inv'
        BY <2>1, <2>5, ConnectInv, SendSyncRequestInv, CloseHandleInv, SleepThreadInv, ExitThreadInv
           DEF ClientChoice
    <2> QED
        BY <1>2, <2>2, <2>3, <2>4, <2>5 DEF Next, Loop
<1> QED
    BY <1>1, <1>2

\* The invariant holds of ports, sessions, the service and its clients, for every number
\* of threads, sessions, requests and waits.
THEOREM SessionsKeepInvariant == Spec => []Inv
BY InitInv, NextInv, PTL DEF Spec

\* TypeOK is always true.
THEOREM SessionsTypes == Spec => []TypeOK
<1>1. Inv => TypeOK
    BY DEF Inv
<1> QED
    BY <1>1, SessionsKeepInvariant, PTL

\* No expect(), unreachable!() or panic!() of port.rs, session.rs and helper.rs is reached,
\* whoever closes a handle, exits or queues up while a request is under way.
THEOREM SessionsNeverPanic == Spec => []NoPanic
<1>1. Inv => NoPanic
    BY DEF Inv
<1> QED
    BY <1>1, SessionsKeepInvariant, PTL

\* The wakers at a session's client end and the requests at its server end are those of the
\* same threads in the same order.
THEOREM SessionsEndsInStep == Spec => []WaitersMatchRequests
<1>1. Inv => WaitersMatchRequests
    <2> SUFFICES ASSUME Inv, NEW i \in Session, NEW q, q = ThreadsOf(queue[ClientEnd(i)])
                 PROVE  \/ q = requestQueue[i]
                        \/ /\ current # NoThread /\ step[current] = "send"
                           /\ q = Append(requestQueue[i], current)
        BY DEF WaitersMatchRequests
    <2>1. q = IF Sends(current, i) THEN Append(requestQueue[i], current) ELSE requestQueue[i]
        BY DEF Inv, EndsMatch
    <2>2. Sends(current, i) => current # NoThread /\ step[current] = "send"
        BY TableType DEF Inv, Sends
    <2> QED
        BY <2>1, <2>2
<1> QED
    BY <1>1, SessionsKeepInvariant, PTL

\* A client that goes on after send_sync_request has read the response to its own last
\* request.
THEOREM SessionsAnswersMatch == Spec => []AnswersMatch
<1>1. Inv => AnswersMatch
    <2> SUFFICES ASSUME Inv, NEW t \in Client, step[t] = "idle", sent[t] > 0
                 PROVE  answer[t] = Response(Request(t, sent[t]))
        BY DEF AnswersMatch
    <2>1. sent \in [Thread -> 0..MaxRequests] /\ t \in Thread
        BY TableType DEF Inv, TypeOK
    <2>2. sent[t] # 0
        BY <2>1, SessionsAssumption
    <2>3. answer[t] = Last(t)
        BY DEF Inv, ClientsOK, ClientDataOK
    <2> QED
        BY <2>2, <2>3 DEF Last
<1> QED
    BY <1>1, SessionsKeepInvariant, PTL

\* As many threads wait at the port as there are sessions to be accepted.
THEOREM SessionsConnectorsMatch == Spec => []ConnectorsMatchSessions
<1>1. Inv => ConnectorsMatchSessions
    BY DEF Inv
<1> QED
    BY <1>1, SessionsKeepInvariant, PTL

-----------------------------------------------------------------------------
(***************************************************************************)
(* Sessions implements Rpc: SendSyncRequest is Ask, Reply is Answer, a     *)
(* client that goes on after its request Hears, and every other step is    *)
(* invisible to the callers.                                               *)
(***************************************************************************)

\* What the callers see: Rpc's variables in terms of those of Sessions.
CallsBar == [i \in Session |-> ThreadsOf(queue[ClientEnd(i)])]
SlotBar == [t \in Thread |-> IF t = server THEN Request(t, 0) ELSE ipcData[t]]

\* A step that leaves the queues of the sessions' client ends, the clients' slots and what
\* they have heard alone is invisible.
LEMMA Invisible ==
    ASSUME TypeOK, server' = server, answer' = answer,
           \A i \in Session : queue'[ClientEnd(i)] = queue[ClientEnd(i)],
           \A t \in Client : ipcData'[t] = ipcData[t]
    PROVE  UNCHANGED Call!rpcVars
<1>1. CallsBar' = CallsBar
    BY DEF CallsBar
<1>2. \A t \in Thread : t # server => ipcData'[t] = ipcData[t]
    BY DEF Client
<1>3. SlotBar' = SlotBar
    BY <1>2 DEF SlotBar, Request
<1> QED
    BY <1>1, <1>3 DEF Call!rpcVars, CallsBar, SlotBar

\* The scheduler is invisible.
LEMMA SchedulerInvisible ==
    ASSUME Inv, server' = server, RunNext \/ WakeSleeper
    PROVE  UNCHANGED Call!rpcVars
<1>1. UNCHANGED <<queue, ipcData, answer>> /\ TypeOK
    BY DEF Inv, RunNext, WakeSleeper, clientVars
<1> QED
    BY <1>1, Invisible

\* What the service does between two replies is invisible.
LEMMA ServiceInvisible ==
    ASSUME Inv, server' = server, Receive \/ Resumed \/ HandleIpc \/ AcceptSession
    PROVE  UNCHANGED Call!rpcVars
<1>1. /\ TypeOK /\ current = server /\ answer' = answer
      /\ \A t \in Client : t \in Thread /\ t # server
    BY TableType DEF Inv, Receive, Resumed, HandleIpc, AcceptSession, clientVars
<1>2. ipcData \in [Thread -> Message]
    BY <1>1 DEF TypeOK
<1>3. CASE Receive
    <2>1. SuspendOn(server, WaitList, "WaitSyncN") /\ ipcData' = [ipcData EXCEPT ![server] = buffer]
        BY <1>3 DEF Receive
    <2>2. WaitList \in Seq(Object) /\ \A n \in 1..Len(WaitList) : \E i \in 0..MaxSessions : WaitList[n] = ServerEnd(i)
        BY <1>1, WaitListType
    <2>3. \A i \in 0..MaxSessions : queue'[ClientEnd(i)] = queue[ClientEnd(i)]
        BY <1>1, <2>1, <2>2, ServerSuspend
    <2>4. \A t \in Client : ipcData'[t] = ipcData[t]
        BY <1>1, <1>2, <2>1
    <2> QED
        BY <1>1, <2>3, <2>4, Endpoints, Invisible
<1>4. CASE Resumed
    <2>1. queue' = queue
        BY <1>4 DEF Resumed, Received, Panic, tableVars
    <2>2. \A t \in Client : ipcData'[t] = ipcData[t]
        BY <1>1, <1>2, <1>4 DEF Resumed, Received
    <2> QED
        BY <1>1, <2>1, <2>2, Invisible
<1>5. CASE HandleIpc
    BY <1>1, <1>5, Invisible DEF HandleIpc, tableVars
<1>6. CASE AcceptSession
    <2>1. ipcData' = ipcData
        BY <1>6 DEF AcceptSession
    <2>2. CASE sessionQueue = <<>>
        <3>1. SuspendOn(server, <<ServerEnd(0)>>, "WaitSync1")
            BY <1>6, <2>2 DEF AcceptSession
        <3>2. /\ <<ServerEnd(0)>> \in Seq(Object)
              /\ \A n \in 1..Len(<<ServerEnd(0)>>) : \E i \in 0..MaxSessions : <<ServerEnd(0)>>[n] = ServerEnd(i)
            BY Endpoints
        <3>3. \A i \in 0..MaxSessions : queue'[ClientEnd(i)] = queue[ClientEnd(i)]
            BY <1>1, <3>1, <3>2, ServerSuspend
        <3> QED
            BY <1>1, <2>1, <3>3, Endpoints, Invisible
    <2>3. CASE sessionQueue # <<>>
        <3>1. WakeThread(ClientEnd(0))
            BY <1>6, <2>3 DEF AcceptSession, AcceptFirst
        <3>2. CASE queue[ClientEnd(0)] = <<>>
            BY <1>1, <2>1, <3>1, <3>2, Invisible DEF WakeThread, tableVars
        <3>3. CASE queue[ClientEnd(0)] # <<>>
            <4>1. queue' = [queue EXCEPT ![ClientEnd(0)] = Tail(queue[ClientEnd(0)])]
                BY <3>1, <3>3, Endpoints, WakeClient
            <4>2. \A i \in Session : queue'[ClientEnd(i)] = queue[ClientEnd(i)]
                BY <1>1, <4>1, Endpoints, TableType DEF Queues
            <4> QED
                BY <1>1, <2>1, <4>2, Invisible
        <3> QED
            BY <3>2, <3>3
    <2> QED
        BY <2>2, <2>3
<1> QED
    BY <1>3, <1>4, <1>5, <1>6

\* Connecting, queueing a request that was already made, closing handles, sleeping and
\* exiting are invisible.
LEMMA ClientInvisible ==
    ASSUME Inv, server' = server, NEW t \in Client,
           Connect(t) \/ ConnectWait(t) \/ EnqueueRequest(t) \/ CloseHandle(t) \/ SleepThread(t)
              \/ ExitThread(t)
    PROVE  UNCHANGED Call!rpcVars
<1>1. /\ TypeOK /\ TableOK /\ current = t /\ answer' = answer /\ ipcData' = ipcData /\ t \in Thread
      /\ queue \in Queues
    BY TableType DEF Inv, Connect, ConnectWait, EnqueueRequest, CloseHandle, SleepThread, ExitThread,
                     InSlice, clientVars
<1>2. step[t] # "send" => thr[t].state # "Waiting"
    BY <1>1, InTheSlice
<1>3. CASE Connect(t)
    <2>1. WakeThread(ServerEnd(0))
        BY <1>3 DEF Connect, EnqueueSession
    <2>2. \A j \in 0..MaxSessions : queue'[ClientEnd(j)] = queue[ClientEnd(j)]
        BY <2>1, Endpoints, WakeServer
    <2> QED
        BY <1>1, <2>2, Endpoints, Invisible
<1>4. CASE ConnectWait(t)
    <2>1. SuspendOn(t, <<ClientEnd(0)>>, "WaitSync1") /\ thr[t].state # "Waiting"
        BY <1>2, <1>4 DEF ConnectWait, InSlice
    <2>2. queue' = [queue EXCEPT ![ClientEnd(0)] = Append(queue[ClientEnd(0)], WakerOf(thr, t))]
        BY <1>1, <2>1, Endpoints, ClientSuspend
    <2>3. \A i \in Session : queue'[ClientEnd(i)] = queue[ClientEnd(i)]
        BY <1>1, <2>2, Endpoints DEF Queues
    <2> QED
        BY <1>1, <2>3, Invisible
<1>5. CASE EnqueueRequest(t)
    <2>1. PICK i \in Session : WakeThread(ServerEnd(i))
        BY <1>5 DEF EnqueueRequest
    <2>2. \A j \in 0..MaxSessions : queue'[ClientEnd(j)] = queue[ClientEnd(j)]
        BY <2>1, Endpoints, WakeServer
    <2> QED
        BY <1>1, <2>2, Endpoints, Invisible
<1>6. CASE CloseHandle(t) \/ ExitThread(t)
    <2>1. queue' = queue
        BY <1>6 DEF CloseHandle, ExitThread, tableVars
    <2> QED
        BY <1>1, <2>1, Invisible
<1>7. CASE SleepThread(t)
    <2>1. SuspendOn(t, <<>>, "Sleep")
        BY <1>7 DEF SleepThread
    <2>2. \A o \in Object : queue'[o] = queue[o]
        <3>1. Len(<<>>) = 0
            OBVIOUS
        <3>2. 1..0 = {}
            OBVIOUS
        <3> QED
            BY <2>1, <3>1, <3>2 DEF SuspendOn
    <2> QED
        BY <1>1, <2>2, Endpoints, Invisible
<1> QED
    BY <1>3, <1>4, <1>5, <1>6, <1>7

\* send_sync_request asks.
LEMMA Asks ==
    ASSUME Inv, server' = server, NEW t \in Client, SendSyncRequest(t)
    PROVE  Call!Next
<1>1. /\ current = t /\ step[t] = "idle" /\ sent[t] < MaxRequests
      /\ sent' = [sent EXCEPT ![t] = sent[t] + 1]
      /\ ipcData' = [ipcData EXCEPT ![t] = Request(t, sent'[t])]
      /\ answer' = answer
    BY DEF SendSyncRequest, InSlice
<1>2. /\ TypeOK /\ TableOK /\ t \in Thread /\ t # server /\ queue \in Queues
      /\ thr[t].state = "Running" /\ ClientDataOK(t)
    BY <1>1, TableType, InTheSlice DEF Inv, ClientsOK
<1>3. /\ open \subseteq Session /\ sent \in [Thread -> 0..MaxRequests]
      /\ ipcData \in [Thread -> Message]
    BY <1>2 DEF TypeOK
<1>4. PICK i \in Session : SuspendOn(t, <<ClientEnd(i)>>, "WaitSync1")
    BY <1>3 DEF SendSyncRequest
<1> DEFINE q == queue[ClientEnd(i)]
           w == WakerOf(thr, t)
<1>5. w \in Waker /\ w.thread = t /\ queue' = [queue EXCEPT ![ClientEnd(i)] = Append(q, w)]
    BY <1>2, <1>4, Endpoints, ClientSuspend
<1>6. q \in Seq(Waker)
    BY <1>2, Endpoints DEF Queues
<1>7. ThreadsOf(Append(q, w)) = Append(ThreadsOf(q), t)
    BY <1>5, <1>6, ThreadsOfAppend
<1>8. CallsBar' = [CallsBar EXCEPT ![i] = Append(CallsBar[i], t)]
    <2>1. queue'[ClientEnd(i)] = Append(q, w)
        BY <1>2, <1>5, Endpoints DEF Queues
    <2>2. \A j \in Session : j # i => queue'[ClientEnd(j)] = queue[ClientEnd(j)]
        BY <1>2, <1>5, Endpoints DEF Queues
    <2> QED
        BY <1>7, <2>1, <2>2 DEF CallsBar
<1>9. ipcData[t] = Last(t) /\ answer[t] = Last(t) /\ Last(t).number = sent[t]
    <2>1. ipcData[t] = Last(t) /\ answer[t] = Last(t)
        BY <1>1, <1>2 DEF ClientDataOK, Pending
    <2>2. Request(t, sent[t]).number = sent[t] /\ Response(Request(t, sent[t])).number = sent[t]
        BY DEF Request, Response
    <2>3. sent[t] = 0 => Request(t, 0) = Request(t, sent[t])
        OBVIOUS
    <2> QED
        BY <2>1, <2>2, <2>3 DEF Last
<1>10. SlotBar[t] = ipcData[t] /\ SlotBar[t] = answer[t] /\ SlotBar[t].number = sent[t]
    BY <1>2, <1>9 DEF SlotBar
<1>11. SlotBar' = [SlotBar EXCEPT ![t] = Request(t, SlotBar[t].number + 1)]
    <2>1. ipcData'[t] = Request(t, sent[t] + 1) /\ \A u \in Thread : u # t => ipcData'[u] = ipcData[u]
        BY <1>1, <1>2, <1>3
    <2>2. SlotBar'[t] = Request(t, sent[t] + 1)
        BY <1>2, <2>1 DEF SlotBar
    <2>3. \A u \in Thread : u # t => SlotBar'[u] = SlotBar[u]
        BY <2>1 DEF SlotBar, Request
    <2> QED
        BY <1>2, <1>10, <2>2, <2>3 DEF SlotBar
<1>12. Call!Ask(t, i)
    BY <1>1, <1>8, <1>10, <1>11 DEF Call!Ask, Call!Request, Request, CallsBar, SlotBar
<1> QED
    BY <1>2, <1>12 DEF Call!Next

\* A reply answers the first request of its session.
LEMMA Answers ==
    ASSUME Inv, server' = server, Reply
    PROVE  Call!Next
<1> SUFFICES ASSUME NEW i, i = replyTarget, NEW h, h = Head(requestQueue[i]),
                    NEW q, q = queue[ClientEnd(i)]
             PROVE  Call!Next
    OBVIOUS
<1>1. /\ i \in Session /\ h \in Client
      /\ buffer = Response(ipcData[h])
      /\ q # <<>> /\ ThreadsOf(q) = requestQueue[i]
      /\ queue' = [queue EXCEPT ![ClientEnd(i)] = Tail(q)]
      /\ ipcData' = [ipcData EXCEPT ![server] = buffer, ![h] = buffer]
    BY ReplyStep
<1>2. /\ TypeOK /\ h \in Thread /\ h # server /\ server \in Thread /\ queue \in Queues
    BY <1>1, TableType DEF Inv
<1>3. ipcData \in [Thread -> Message] /\ answer' = answer
    BY <1>2 DEF TypeOK, Reply, clientVars
<1>4. q \in Seq(Waker) /\ ClientEnd(i) \in Object
    BY <1>1, <1>2, Endpoints DEF Queues
<1>5. ThreadsOf(Tail(q)) = Tail(ThreadsOf(q)) /\ ThreadsOf(q) # <<>>
    BY <1>1, <1>4, ThreadsOfTail
<1>6. CallsBar[i] = ThreadsOf(q) /\ Head(CallsBar[i]) = h
    BY <1>1 DEF CallsBar
<1>7. CallsBar' = [CallsBar EXCEPT ![i] = Tail(CallsBar[i])]
    <2>1. queue'[ClientEnd(i)] = Tail(q)
        BY <1>1, <1>2, <1>4 DEF Queues
    <2>2. \A j \in Session : j # i => queue'[ClientEnd(j)] = queue[ClientEnd(j)]
        BY <1>1, <1>2, Endpoints DEF Queues
    <2>3. \A j \in Session : CallsBar'[j] = IF j = i THEN Tail(CallsBar[i]) ELSE CallsBar[j]
        <3> TAKE j \in Session
        <3>1. CASE j = i
            <4>1. CallsBar'[i] = ThreadsOf(Tail(q))
                BY <1>1, <2>1 DEF CallsBar
            <4> QED
                BY <1>5, <1>6, <3>1, <4>1
        <3>2. CASE j # i
            BY <2>2, <3>2 DEF CallsBar
        <3> QED
            BY <3>1, <3>2
    <2> QED
        BY <2>3 DEF CallsBar
<1>8. SlotBar' = [SlotBar EXCEPT ![h] = Response(SlotBar[h])]
    <2>1. ipcData'[h] = Response(ipcData[h]) /\ \A u \in Thread : u # h /\ u # server => ipcData'[u] = ipcData[u]
        BY <1>1, <1>2, <1>3
    <2>2. SlotBar[h] = ipcData[h] /\ SlotBar'[h] = Response(ipcData[h])
        BY <1>2, <2>1 DEF SlotBar
    <2>3. \A u \in Thread : u # h => SlotBar'[u] = SlotBar[u]
        BY <2>1 DEF SlotBar, Request
    <2> QED
        BY <1>2, <2>2, <2>3 DEF SlotBar
<1>9. Call!Answer(i)
    BY <1>3, <1>5, <1>6, <1>7, <1>8 DEF Call!Answer, Call!Response, Response, CallsBar, SlotBar
<1> QED
    BY <1>1, <1>9 DEF Call!Next

\* A client that goes on after its request hears the answer.
LEMMA Hears ==
    ASSUME Inv, server' = server, NEW t \in Client, Continue(t)
    PROVE  Call!Next \/ UNCHANGED Call!rpcVars
<1>1. TypeOK /\ t \in Thread /\ t # server /\ ipcData' = ipcData /\ ClientDataOK(t) /\ current = t
    BY TableType DEF Inv, ClientsOK, Continue, InSlice
<1>2. queue' = queue
    BY DEF Continue, Panic, tableVars
<1>3. CASE step[t] # "asking"
    <2>1. answer' = answer
        BY <1>3 DEF Continue, InSlice
    <2> QED
        BY <1>1, <1>2, <2>1, Invisible
<1>4. CASE step[t] = "asking"
    <2>1. answer' = [answer EXCEPT ![t] = ipcData[t]]
        BY <1>4 DEF Continue, InSlice
    <2>2. thr[t].state = "Running"
        BY <1>1, <1>4, InTheSlice
    <2>3. sent[t] \in Int /\ sent[t] > 0
        <3>1. sent \in [Thread -> 0..MaxRequests]
            BY <1>1 DEF TypeOK
        <3>2. sent[t] > 0
            BY <1>1, <1>4 DEF ClientDataOK
        <3> QED
            BY <1>1, <3>1, <3>2, SessionsAssumption
    <2>4. ipcData[t] = Response(Request(t, sent[t]))
        BY <1>1, <1>4, <2>2, <2>3 DEF ClientDataOK, Pending, Last
    <2>5. ipcData[t].kind = "response"
        BY <2>4 DEF Response, Request
    <2>6. SlotBar[t] = ipcData[t] /\ CallsBar' = CallsBar /\ SlotBar' = SlotBar
        BY <1>1, <1>2 DEF SlotBar, CallsBar, Request
    <2>7. Call!Hear(t)
        BY <2>1, <2>5, <2>6 DEF Call!Hear, CallsBar, SlotBar
    <2> QED
        BY <1>1, <2>7 DEF Call!Next
<1> QED
    BY <1>3, <1>4

\* Ports, wakers, handles and the two queues of a session implement remote calls (Rpc): every
\* request is answered once, in its turn and to its own thread, and is heard before the next
\* is made, for every number of threads, sessions and requests.
THEOREM SessionsImplementRpc == Spec => ImplementsRpc
<1>1. Init => Call!Init
    <2> SUFFICES ASSUME Init PROVE Call!Init
        OBVIOUS
    <2>1. CallsBar = [i \in Session |-> <<>>]
        <3>1. \A i \in Session : queue[ClientEnd(i)] = <<>>
            BY Endpoints DEF Init
        <3>2. ThreadsOf(<<>>) = <<>>
            BY DEF ThreadsOf
        <3> QED
            BY <3>1, <3>2 DEF CallsBar
    <2>2. SlotBar = [t \in Thread |-> Request(t, 0)]
        BY DEF Init, SlotBar
    <2>3. answer = [t \in Thread |-> Request(t, 0)]
        BY DEF Init
    <2> QED
        BY <2>1, <2>2, <2>3 DEF Call!Init, Call!Request, Request, CallsBar, SlotBar
<1>2. Inv /\ [Next]_vars => [Call!Next]_(Call!rpcVars)
    <2> SUFFICES ASSUME Inv, [Next]_vars PROVE Call!Next \/ UNCHANGED Call!rpcVars
        OBVIOUS
    <2>1. CASE UNCHANGED vars
        BY <2>1, Invisible DEF vars, tableVars, clientVars, Inv
    <2>2. ASSUME Next PROVE Call!Next \/ UNCHANGED Call!rpcVars
        <3>1. server' = server
            BY <2>2 DEF Next, Loop
        <3>2. CASE RunNext \/ WakeSleeper
            BY <3>1, <3>2, SchedulerInvisible
        <3>3. CASE Service
            BY <3>1, <3>3, Answers, ServiceInvisible DEF Service
        <3>4. ASSUME NEW t \in Client, ClientCall(t) PROVE Call!Next \/ UNCHANGED Call!rpcVars
            BY <3>1, <3>4, Hears, ClientInvisible DEF ClientCall
        <3>5. ASSUME NEW t \in Client, ClientChoice(t) PROVE Call!Next \/ UNCHANGED Call!rpcVars
            BY <3>1, <3>5, Asks, ClientInvisible DEF ClientChoice
        <3> QED
            BY <2>2, <3>2, <3>3, <3>4, <3>5 DEF Next, Loop
    <2> QED
        BY <2>1, <2>2
<1> QED
    BY <1>1, <1>2, SessionsKeepInvariant, PTL DEF Spec, ImplementsRpc, Call!Spec

-----------------------------------------------------------------------------
(***************************************************************************)
(* wait() of a port or a session queues a waker whether or not there is    *)
(* something to receive.  Nothing is left behind it as long as the         *)
(* service's thread is the first of the table: next_thread then runs no    *)
(* client before the service has taken what the last one left.             *)
(***************************************************************************)

-----------------------------------------------------------------------------
(* A sleeping service is queued at everything it waits for *)

\* ... as long as its record and the queues of the server ends stay as they are.
LEMMA QueuedFrame ==
    ASSUME Inv, ServiceQueued, server' = server, thr'[server] = thr[server],
           \A i \in 0..MaxSessions : queue'[ServerEnd(i)] = queue[ServerEnd(i)]
    PROVE  ServiceQueued'
<1> SUFFICES ASSUME thr[server].state = "Waiting", NEW o \in Objects(thr, server)
             PROVE  WakerOf(thr', server) \in Wakers(queue'[o])
    BY DEF ServiceQueued, Objects
<1>1. queue'[o] = queue[o]
    BY SleepingServer
<1>2. WakerOf(thr, server) \in Wakers(queue[o])
    BY DEF ServiceQueued
<1> QED
    BY <1>1, <1>2 DEF WakerOf

\* ... and it is so from the moment it goes to sleep.
LEMMA QueuedBySuspend ==
    ASSUME Inv, server' = server, current = server,
           NEW list \in Seq(Object), NEW type \in {"WaitSync1", "WaitSyncN"},
           SuspendOn(server, list, type)
    PROVE  ServiceQueued'
<1> DEFINE w == WakerOf(thr, server)
<1>1. TypeOK /\ TableOK /\ server \in Thread /\ queue \in Queues
    BY TableType DEF Inv
<1>2. thr[server].state # "Waiting" /\ type \in ThreadWaitType \ {"None"} /\ type # "Sleep"
    BY InTheSlice DEF ThreadWaitType
<1>3. /\ thr'[server].waitObjects = list /\ thr'[server].wakeKey = thr[server].wakeKey
      /\ w \in Waker
      /\ \A o \in Object : queue'[o] = IF \E n \in 1..Len(list) : list[n] = o
                                       THEN Append(queue[o], w) ELSE queue[o]
    BY <1>1, <1>2, SuspendStep
<1>4. WakerOf(thr', server) = w
    BY <1>3 DEF WakerOf
<1> HIDE DEF w
<1> SUFFICES ASSUME NEW o \in Objects(thr', server) PROVE WakerOf(thr', server) \in Wakers(queue'[o])
    BY DEF ServiceQueued
<1>5. Objects(thr', server) = {list[n] : n \in 1..Len(list)}
    BY <1>3 DEF Objects
<1>6. PICK n \in 1..Len(list) : list[n] = o
    BY <1>5
<1>7. o \in Object /\ queue[o] \in Seq(Waker)
    BY <1>1, <1>6 DEF Queues
<1>8. queue'[o] = Append(queue[o], w)
    BY <1>3, <1>6, <1>7
<1>9. Wakers(Append(queue[o], w)) = Wakers(queue[o]) \cup {w}
    BY <1>3, <1>7, AppendWaker
<1> QED
    BY <1>4, <1>8, <1>9

\* A sleeping service is woken by every end it waits for.
LEMMA ServiceWakes ==
    ASSUME Inv, ServiceQueued, NEW i \in 0..MaxSessions, WakeThread(ServerEnd(i)),
           thr[server].state = "Waiting", ServerEnd(i) \in Objects(thr, server)
    PROVE  thr'[server] = Awake(thr[server], ResumeByObject(thr[server], ServerEnd(i)))
<1>1. queue[ServerEnd(i)] # <<>>
    <2>1. WakerOf(thr, server) \in Wakers(queue[ServerEnd(i)])
        BY DEF ServiceQueued
    <2>2. Wakers(<<>>) = {}
        BY DEF Wakers
    <2> QED
        BY <2>1, <2>2
<1> QED
    BY <1>1, WakeServer

\* Waking somebody by a server end: the service is woken, or all is as it was.
LEMMA QueuedByWake ==
    ASSUME Inv, ServiceQueued, server' = server, NEW i \in 0..MaxSessions, WakeThread(ServerEnd(i))
    PROVE  ServiceQueued'
<1>1. \/ thr' = thr /\ queue' = queue
      \/ thr'[server] = Awake(thr[server], ResumeByObject(thr[server], ServerEnd(i)))
    BY WakeServer
<1>2. CASE thr' = thr /\ queue' = queue
    BY <1>2, QueuedFrame
<1>3. CASE thr'[server] = Awake(thr[server], ResumeByObject(thr[server], ServerEnd(i)))
    <2>1. thr[server] \in CommonThread
        BY TableType DEF Inv, Table
    <2>2. thr'[server].state = "Ready"
        BY <1>3, <2>1, AwakeRecord
    <2> QED
        BY <2>2 DEF ServiceQueued
<1> QED
    BY <1>1, <1>2, <1>3

\* Every step keeps a sleeping service queued.
LEMMA QueuedStep ==
    ASSUME Inv, ServiceQueued, Next
    PROVE  ServiceQueued'
<1>1. /\ TypeOK /\ TableOK /\ thr \in Table /\ queue \in Queues /\ server \in Thread
      /\ \A t \in Client : t \in Thread /\ t # server
      /\ server' = server
    BY TableType DEF Inv, Next, Loop
<1>2. CASE RunNext
    <2>1. PICK t \in Thread : thr' = [thr EXCEPT ![t].state = "Running", ![t].resume = Normal]
        BY <1>2 DEF RunNext, Ready
    <2>2. queue' = queue
        BY <1>2 DEF RunNext
    <2>3. CASE t # server
        <3>1. thr'[server] = thr[server]
            BY <1>1, <2>1, <2>3 DEF Table
        <3> QED
            BY <1>1, <2>2, <3>1, QueuedFrame
    <2>4. CASE t = server
        <3>1. thr'[server].state = "Running"
            BY <1>1, <2>1, <2>4 DEF Table, CommonThread
        <3> QED
            BY <1>1, <3>1 DEF ServiceQueued
    <2> QED
        BY <2>3, <2>4
<1>3. CASE WakeSleeper
    <2>1. queue' = queue /\ thr'[server] = thr[server]
        BY <1>1, <1>3 DEF WakeSleeper, Table
    <2> QED
        BY <1>1, <2>1, QueuedFrame
<1>4. CASE Reply
    <2> SUFFICES ASSUME NEW i, i = replyTarget, NEW h, h = Head(requestQueue[i])
                 PROVE  ServiceQueued'
        OBVIOUS
    <2>1. /\ i \in Session /\ h \in Client
          /\ thr' = [thr EXCEPT ![h] = Awake(thr[h], Normal)]
          /\ queue' = [queue EXCEPT ![ClientEnd(i)] = Tail(queue[ClientEnd(i)])]
        BY <1>4, ReplyStep
    <2>2. thr'[server] = thr[server]
        BY <1>1, <2>1 DEF Table
    <2>3. \A j \in 0..MaxSessions : queue'[ServerEnd(j)] = queue[ServerEnd(j)]
        BY <1>1, <2>1, Endpoints DEF Queues
    <2> QED
        BY <1>1, <2>2, <2>3, QueuedFrame
<1>5. CASE Receive
    <2>1. current = server /\ SuspendOn(server, WaitList, "WaitSyncN") /\ WaitList \in Seq(Object)
        BY <1>1, <1>5, WaitListType DEF Receive
    <2> QED
        BY <1>1, <2>1, QueuedBySuspend
<1>6. CASE Resumed \/ HandleIpc
    <2>1. UNCHANGED <<thr, queue>>
        BY <1>6 DEF Resumed, Received, Panic, HandleIpc, tableVars
    <2> QED
        BY <1>1, <2>1, QueuedFrame
<1>7. CASE AcceptSession
    <2>1. CASE sessionQueue = <<>>
        <3>1. current = server /\ SuspendOn(server, <<ServerEnd(0)>>, "WaitSync1")
            BY <1>7, <2>1 DEF AcceptSession
        <3>2. <<ServerEnd(0)>> \in Seq(Object)
            BY Endpoints
        <3> QED
            BY <1>1, <3>1, <3>2, QueuedBySuspend
    <2>2. CASE sessionQueue # <<>>
        <3>1. WakeThread(ClientEnd(0))
            BY <1>7, <2>2 DEF AcceptSession, AcceptFirst
        <3>2. CASE queue[ClientEnd(0)] = <<>>
            BY <1>1, <3>1, <3>2, QueuedFrame DEF WakeThread, tableVars
        <3>3. CASE queue[ClientEnd(0)] # <<>>
            <4> SUFFICES ASSUME NEW h, h = Head(queue[ClientEnd(0)]).thread PROVE ServiceQueued'
                OBVIOUS
            <4>1. /\ h \in Client /\ thr' = [thr EXCEPT ![h] = Awake(thr[h], Normal)]
                  /\ queue' = [queue EXCEPT ![ClientEnd(0)] = Tail(queue[ClientEnd(0)])]
                BY <3>1, <3>3, Endpoints, WakeClient
            <4>2. thr'[server] = thr[server]
                BY <1>1, <4>1 DEF Table
            <4>3. \A j \in 0..MaxSessions : queue'[ServerEnd(j)] = queue[ServerEnd(j)]
                BY <1>1, <4>1, Endpoints DEF Queues
            <4> QED
                BY <1>1, <4>2, <4>3, QueuedFrame
        <3> QED
            BY <3>2, <3>3
    <2> QED
        BY <2>1, <2>2
<1>8. ASSUME NEW t \in Client, NEW i \in 0..MaxSessions, current = t, step[t] # "send",
             SuspendOn(t, <<ClientEnd(i)>>, "WaitSync1")
      PROVE  ServiceQueued'
    <2>1. thr[t].state # "Waiting" /\ t \in Thread /\ t # server
        BY <1>1, <1>8, InTheSlice
    <2>2. /\ thr'[server] = thr[server]
          /\ queue' = [queue EXCEPT ![ClientEnd(i)] = Append(queue[ClientEnd(i)], WakerOf(thr, t))]
        BY <1>1, <1>8, <2>1, ClientSuspend
    <2>3. \A j \in 0..MaxSessions : queue'[ServerEnd(j)] = queue[ServerEnd(j)]
        BY <1>1, <2>2, Endpoints DEF Queues
    <2> QED
        BY <1>1, <2>2, <2>3, QueuedFrame
<1>9. ASSUME NEW t \in Client, ConnectWait(t) \/ SendSyncRequest(t)
      PROVE  ServiceQueued'
    <2>1. current = t /\ step[t] # "send"
        BY <1>9 DEF ConnectWait, SendSyncRequest, InSlice
    <2>2. open \subseteq Session
        BY <1>1 DEF TypeOK
    <2>3. \E i \in 0..MaxSessions : SuspendOn(t, <<ClientEnd(i)>>, "WaitSync1")
        BY <1>9, <2>2, Endpoints DEF ConnectWait, SendSyncRequest
    <2> QED
        BY <1>8, <2>1, <2>3
<1>10. ASSUME NEW t \in Client, Connect(t) \/ EnqueueRequest(t)
       PROVE  ServiceQueued'
    <2>1. \E i \in 0..MaxSessions : WakeThread(ServerEnd(i))
        BY <1>10, Endpoints DEF Connect, EnqueueSession, EnqueueRequest
    <2> QED
        BY <1>1, <2>1, QueuedByWake
<1>11. ASSUME NEW t \in Client, Continue(t) \/ CloseHandle(t)
       PROVE  ServiceQueued'
    <2>1. UNCHANGED <<thr, queue>>
        BY <1>11 DEF Continue, CloseHandle, Panic, tableVars
    <2> QED
        BY <1>1, <2>1, QueuedFrame
<1>12. ASSUME NEW t \in Client, ExitThread(t)
       PROVE  ServiceQueued'
    <2>1. queue' = queue /\ thr'[server] = thr[server]
        BY <1>1, <1>12 DEF ExitThread, Table
    <2> QED
        BY <1>1, <2>1, QueuedFrame
<1>13. ASSUME NEW t \in Client, SleepThread(t)
       PROVE  ServiceQueued'
    <2>1. SuspendOn(t, <<>>, "Sleep")
        BY <1>13 DEF SleepThread
    <2>2. thr'[server] = thr[server]
        BY <1>1, <2>1 DEF SuspendOn, Suspend, Table
    <2>3. \A o \in Object : queue'[o] = queue[o]
        <3>1. Len(<<>>) = 0 /\ 1..0 = {}
            OBVIOUS
        <3> QED
            BY <2>1, <3>1 DEF SuspendOn
    <2> QED
        BY <1>1, <2>2, <2>3, Endpoints, QueuedFrame
<1> QED
    BY <1>2, <1>3, <1>4, <1>5, <1>6, <1>7, <1>9, <1>10, <1>11, <1>12, <1>13
       DEF Next, Loop, Service, ClientCall, ClientChoice

-----------------------------------------------------------------------------
(* Every session is accepted or queued, and nobody has another *)

\* Only Connect, ConnectWait, CloseHandle, SendSyncRequest and accept_session touch what the
\* two invariants below are about.
LEMMA KnownFrame ==
    ASSUME SessionsKnown, UNCHANGED <<created, handles, sessionQueue>>
    PROVE  SessionsKnown'
BY DEF SessionsKnown

\* Connect queues the session it creates, and accept_session hands it over.
LEMMA KnownStep ==
    ASSUME Inv, SessionsKnown, Next
    PROVE  SessionsKnown'
<1>1. /\ handles \in Seq(Session) /\ sessionQueue \in Seq(Session) /\ created \in 0..MaxSessions
    BY DEF Inv, TypeOK
<1>2. CASE UNCHANGED <<created, handles, sessionQueue>>
    BY <1>2, KnownFrame
<1>3. CASE AcceptSession
    <2>1. CASE sessionQueue = <<>>
        BY <1>2, <1>3, <2>1 DEF AcceptSession
    <2>2. CASE sessionQueue # <<>>
        <3>1. /\ created' = created /\ sessionQueue' = Tail(sessionQueue)
              /\ handles' = Append(handles, Head(sessionQueue))
            BY <1>3, <2>2 DEF AcceptSession, AcceptFirst
        <3>2. Head(sessionQueue) = sessionQueue[1] /\ Head(sessionQueue) \in Session /\ Len(sessionQueue) \in Nat
            BY <1>1, <2>2
        <3>3. /\ Len(handles) \in Nat /\ Len(handles') = Len(handles) + 1
              /\ handles'[Len(handles) + 1] = Head(sessionQueue)
              /\ \A n \in 1..Len(handles) : handles'[n] = handles[n]
            BY <1>1, <3>1, <3>2
        <3>4. /\ Len(sessionQueue') = Len(sessionQueue) - 1
              /\ \A n \in 1..(Len(sessionQueue) - 1) : sessionQueue'[n] = sessionQueue[n + 1]
            BY <1>1, <2>2, <3>1
        <3> SUFFICES ASSUME NEW i \in 1..created
                     PROVE  \/ \E n \in 1..Len(handles') : handles'[n] = i
                            \/ \E n \in 1..Len(sessionQueue') : sessionQueue'[n] = i
            BY <3>1 DEF SessionsKnown
        <3>5. CASE \E n \in 1..Len(handles) : handles[n] = i
            <4>1. PICK n \in 1..Len(handles) : handles[n] = i
                BY <3>5
            <4>2. n \in 1..Len(handles') /\ handles'[n] = i
                BY <3>3, <4>1
            <4> QED
                BY <4>2
        <3>6. CASE \E n \in 1..Len(sessionQueue) : sessionQueue[n] = i
            <4>1. PICK n \in 1..Len(sessionQueue) : sessionQueue[n] = i
                BY <3>6
            <4>2. CASE n = 1
                <5>1. Len(handles) + 1 \in 1..Len(handles') /\ handles'[Len(handles) + 1] = i
                    BY <3>2, <3>3, <4>1, <4>2
                <5> QED
                    BY <5>1
            <4>3. CASE n # 1
                <5>1. n - 1 \in 1..(Len(sessionQueue) - 1) /\ (n - 1) + 1 = n
                    BY <3>2, <4>1, <4>3
                <5>2. n - 1 \in 1..Len(sessionQueue') /\ sessionQueue'[n - 1] = i
                    BY <3>4, <4>1, <5>1
                <5> QED
                    BY <5>2
            <4> QED
                BY <4>2, <4>3
        <3> QED
            BY <3>5, <3>6 DEF SessionsKnown
    <2> QED
        BY <2>1, <2>2
<1>4. ASSUME NEW t \in Client, Connect(t)
      PROVE  SessionsKnown'
    <2>1. /\ created < MaxSessions /\ created' = created + 1 /\ handles' = handles
          /\ sessionQueue' = Append(sessionQueue, created + 1)
        BY <1>4 DEF Connect, EnqueueSession, serviceVars
    <2>2. created + 1 \in Session
        BY <1>1, <2>1, SessionsAssumption DEF Session
    <2>3. /\ Len(sessionQueue) \in Nat /\ Len(sessionQueue') = Len(sessionQueue) + 1
          /\ sessionQueue'[Len(sessionQueue) + 1] = created + 1
          /\ \A n \in 1..Len(sessionQueue) : sessionQueue'[n] = sessionQueue[n]
        BY <1>1, <2>1, <2>2
    <2> SUFFICES ASSUME NEW i \in 1..(created + 1)
                 PROVE  \/ \E n \in 1..Len(handles) : handles[n] = i
                        \/ \E n \in 1..Len(sessionQueue') : sessionQueue'[n] = i
        BY <2>1 DEF SessionsKnown
    <2>4. CASE i = created + 1
        <3>1. Len(sessionQueue) + 1 \in 1..Len(sessionQueue')
            BY <2>3
        <3> QED
            BY <2>3, <2>4, <3>1
    <2>5. CASE i # created + 1
        <3>1. i \in 1..created
            BY <1>1, <2>5
        <3>2. CASE \E n \in 1..Len(sessionQueue) : sessionQueue[n] = i
            <4>1. PICK n \in 1..Len(sessionQueue) : sessionQueue[n] = i
                BY <3>2
            <4>2. n \in 1..Len(sessionQueue') /\ sessionQueue'[n] = i
                BY <2>3, <4>1
            <4> QED
                BY <4>2
        <3> QED
            BY <3>1, <3>2 DEF SessionsKnown
    <2> QED
        BY <2>4, <2>5
<1>5. CASE RunNext \/ WakeSleeper \/ Reply \/ Receive \/ Resumed \/ HandleIpc
    BY <1>2, <1>5 DEF RunNext, WakeSleeper, Reply, Receive, Resumed, HandleIpc, portVars, serviceVars
<1>6. ASSUME NEW t \in Client, ClientCall(t) \/ SendSyncRequest(t) \/ CloseHandle(t) \/ SleepThread(t)
                               \/ ExitThread(t)
      PROVE  SessionsKnown'
    BY <1>2, <1>6 DEF ClientCall, ConnectWait, EnqueueRequest, Continue, SendSyncRequest, CloseHandle,
                      SleepThread, ExitThread, portVars, serviceVars
<1> QED
    BY <1>3, <1>4, <1>5, <1>6 DEF Next, Loop, Service, ClientChoice

\* Handles are made of sessions that exist, and requests go to sessions with a handle.
LEMMA ExistStep ==
    ASSUME Inv, SessionsExist, Next
    PROVE  SessionsExist'
<1>1. /\ TypeOK /\ TableOK /\ thr \in Table /\ queue \in Queues /\ server \in Thread
      /\ \A t \in Client : t \in Thread /\ t # server
      /\ server' = server /\ Client' = Client
    BY TableType DEF Inv, Next, Loop, Client
<1>2. /\ created \in 0..MaxSessions /\ open \subseteq Session
      /\ step \in [Thread -> ServiceStep \cup ClientStep]
    BY <1>1 DEF TypeOK
<1>3. ASSUME created' = created, open' \subseteq open,
             \A t \in Client : step'[t] = "send" => step[t] = "send" /\ thr'[t] = thr[t]
      PROVE  SessionsExist'
    BY <1>1, <1>3 DEF SessionsExist, Objects
<1>4. ASSUME NEW t \in Client, current = t, step[t] # "send", step'[t] # "send",
             \A u \in Thread : u # t => step'[u] = step[u]
      PROVE  \A u \in Client : step'[u] # "send"
    BY <1>1, <1>4, InTheSlice
<1>5. CASE RunNext \/ WakeSleeper
    <2>1. current = NoThread /\ step' = step /\ created' = created /\ open' = open
        BY <1>5 DEF RunNext, WakeSleeper, portVars
    <2>2. \A t \in Thread : step[t] # "send"
        BY <2>1, InTheSlice
    <2> QED
        BY <1>1, <1>3, <2>1, <2>2
<1>6. CASE Service
    <2>1. current = server /\ created' = created /\ open' = open
        BY <1>6 DEF Service, Reply, Receive, Resumed, HandleIpc, AcceptSession, portVars
    <2>2. \A t \in Client : step[t] # "send"
        BY <2>1, InTheSlice
    <2>3. \A t \in Client : step'[t] = step[t]
        BY <1>1, <1>2, <1>6
           DEF Service, Reply, Receive, Resumed, Received, HandleIpc, AcceptSession, Goto
    <2> QED
        BY <1>3, <2>1, <2>2, <2>3
<1>7. ASSUME NEW t \in Client, Connect(t)
      PROVE  SessionsExist'
    <2>1. /\ current = t /\ step[t] = "idle" /\ step' = [step EXCEPT ![t] = "connect"]
          /\ open' = open /\ created' = created + 1
        BY <1>7 DEF Connect, InSlice, Goto
    <2>2. step'[t] = "connect" /\ \A u \in Thread : u # t => step'[u] = step[u]
        BY <1>1, <1>2, <2>1
    <2>3. \A u \in Client : step'[u] # "send"
        BY <1>4, <2>1, <2>2
    <2>4. open' \subseteq 1..created'
        BY <1>2, <2>1 DEF SessionsExist
    <2> QED
        BY <1>1, <2>3, <2>4 DEF SessionsExist
<1>8. ASSUME NEW t \in Client, ConnectWait(t)
      PROVE  SessionsExist'
    <2>1. /\ current = t /\ step[t] = "connect" /\ step' = [step EXCEPT ![t] = "connecting"]
          /\ open' = open \cup {created} /\ created' = created
        BY <1>8 DEF ConnectWait, InSlice, Goto
    <2>2. step'[t] = "connecting" /\ \A u \in Thread : u # t => step'[u] = step[u]
        BY <1>1, <1>2, <2>1
    <2>3. \A u \in Client : step'[u] # "send"
        BY <1>4, <2>1, <2>2
    <2>4. created # 0
        <3>1. TypeOK'
            BY <1>1, <1>8, ConnectWaitInv DEF Inv
        <3>2. created \in Session
            BY <2>1, <3>1 DEF TypeOK
        <3> QED
            BY <3>2 DEF Session
    <2>5. open' \subseteq 1..created'
        BY <1>2, <2>1, <2>4 DEF SessionsExist
    <2> QED
        BY <1>1, <2>3, <2>5 DEF SessionsExist
<1>9. ASSUME NEW t \in Client, SendSyncRequest(t)
      PROVE  SessionsExist'
    <2>1. /\ current = t /\ step[t] = "idle" /\ step' = [step EXCEPT ![t] = "send"]
          /\ open' = open /\ created' = created
        BY <1>9 DEF SendSyncRequest, InSlice, Goto, portVars
    <2>2. PICK i \in open : SuspendOn(t, <<ClientEnd(i)>>, "WaitSync1")
        BY <1>9 DEF SendSyncRequest
    <2>3. i \in 1..created /\ i \in Session
        BY <1>2 DEF SessionsExist
    <2>4. thr[t].state # "Waiting" /\ \A u \in Client : u # t => step[u] # "send"
        BY <2>1, InTheSlice
    <2>5. thr'[t].waitObjects = <<ClientEnd(i)>>
        BY <1>1, <2>2, <2>3, <2>4, Endpoints, ClientSuspend
    <2>6. Objects(thr', t) = {ClientEnd(i)}
        BY <2>5 DEF Objects
    <2>7. \A j \in Session : ClientEnd(j) \in Objects(thr', t) => j <= created
        BY <1>2, <2>3, <2>6, Endpoints
    <2>8. \A u \in Client : step'[u] = "send" => u = t
        BY <1>1, <1>2, <2>1, <2>4
    <2> QED
        BY <1>1, <2>1, <2>7, <2>8 DEF SessionsExist
<1>10. ASSUME NEW t \in Client, Continue(t) \/ SleepThread(t) \/ ExitThread(t) \/ CloseHandle(t)
                                \/ EnqueueRequest(t)
       PROVE  SessionsExist'
    <2>1. current = t /\ created' = created /\ open' \subseteq open
        BY <1>10 DEF Continue, SleepThread, ExitThread, CloseHandle, EnqueueRequest, InSlice, portVars
    <2>2. \A u \in Client : u # t => step[u] # "send"
        BY <1>1, <2>1 DEF Inv, ClientsOK, ClientStepOK
    <2>3. \A u \in Client : step'[u] # "send"
        <3>1. \A u \in Thread : u # t => step'[u] = step[u]
            BY <1>1, <1>2, <1>10 DEF Continue, SleepThread, ExitThread, CloseHandle, EnqueueRequest, Goto
        <3>2. step'[t] # "send"
            BY <1>1, <1>2, <1>10 DEF Continue, SleepThread, ExitThread, CloseHandle, EnqueueRequest, Goto, InSlice
        <3> QED
            BY <1>1, <2>2, <3>1, <3>2
    <2> QED
        BY <1>3, <2>1, <2>3
<1> QED
    BY <1>5, <1>6, <1>7, <1>8, <1>9, <1>10 DEF Next, Loop, ClientCall, ClientChoice

-----------------------------------------------------------------------------
(* One event at a time *)

\* Taking the only element out of a queue empties it.
LEMMA TailOfOne ==
    ASSUME NEW S, NEW q \in Seq(S), Len(q) = 1
    PROVE  Tail(q) = <<>>
<1>1. q # <<>>
    OBVIOUS
<1>2. Tail(q) \in Seq(S) /\ Len(Tail(q)) = 0
    BY <1>1, HeadTailProperties
<1> QED
    BY <1>2, EmptySeq

\* What does not touch the service, its queues and what it was told keeps FirstOK, provided
\* no client is given the slice while the service could run.
LEMMA FirstFrame ==
    ASSUME FirstOK, server' = server, thr'[server] = thr[server], step'[server] = step[server],
           UNCHANGED <<sessionQueue, requestQueue, handles, replyTarget, from>>,
           current' = server <=> current = server,
           current = server => payload' = payload,
           server = 0 /\ current' \in Client /\ step'[current'] # "connect" => thr[server].state = "Waiting"
    PROVE  FirstOK'
<1> SUFFICES ASSUME server = 0 PROVE FirstOK'
    BY DEF FirstOK
<1>1. /\ NoSessions' = NoSessions /\ NoRequests' = NoRequests
      /\ \A i : OnlyFrom(i)' = OnlyFrom(i)
    BY DEF NoSessions, NoRequests, OnlyFrom
<1>2. \A r : OneEvent(r)' = OneEvent(r)
    BY <1>1 DEF OneEvent
<1>3. OneEvent(thr[server].resume)' = OneEvent(thr[server].resume)
    BY <1>1 DEF OneEvent
<1>4. current = server => OneEvent(payload)' = OneEvent(payload)
    BY <1>1 DEF OneEvent
<1>5. OnlyFrom(replyTarget)' = OnlyFrom(replyTarget) /\ OnlyFrom(from)' = OnlyFrom(from)
    BY DEF OnlyFrom
<1> QED
    BY <1>1, <1>3, <1>4, <1>5 DEF FirstOK, Client

\* next_thread takes the service first; it resumes with its only event.
LEMMA FirstRunNext ==
    ASSUME Inv, FirstOK, server' = server, RunNext
    PROVE  FirstOK'
<1>1. /\ thr \in Table /\ server \in Thread /\ server \notin Client /\ NoThread \notin Thread
      /\ Client \subseteq Thread
    BY TableType DEF Inv
<1>2. /\ current = NoThread
      /\ UNCHANGED <<sessionQueue, requestQueue, handles, replyTarget, from, step>>
    BY DEF RunNext, portVars, serviceVars
<1>3. PICK t \in Ready : /\ \A u \in Ready : t <= u
                         /\ thr' = [thr EXCEPT ![t].state = "Running", ![t].resume = Normal]
                         /\ payload' = thr[t].resume /\ current' = t
    BY DEF RunNext, GiveSlice
<1>4. t \in Thread /\ thr[t].state = "Ready"
    BY <1>3 DEF Ready
<1>5. CASE t # server
    <2>1. thr'[server] = thr[server]
        BY <1>1, <1>3, <1>4, <1>5 DEF Table
    <2>2. server = 0 => thr[server].state = "Waiting"
        <3> SUFFICES ASSUME server = 0, thr[server].state # "Waiting" PROVE FALSE
            OBVIOUS
        <3>1. thr[server].state = "Ready"
            BY <1>1, <1>2, InTheSlice DEF Inv, ServiceOK
        <3>2. t <= server
            BY <1>1, <1>3, <3>1 DEF Ready
        <3> QED
            BY <1>4, <1>5, <3>2 DEF Thread
    <2>3. current' # server /\ current # server
        BY <1>1, <1>2, <1>3, <1>5
    <2> QED
        BY <1>2, <2>1, <2>2, <2>3, FirstFrame
<1>6. CASE t = server
    <2> SUFFICES ASSUME server = 0 PROVE FirstOK'
        BY DEF FirstOK
    <2>1. thr'[server].state = "Running" /\ thr[server].state = "Ready" /\ payload' = thr[server].resume
        BY <1>1, <1>3, <1>4, <1>6 DEF Table, CommonThread
    <2>2. /\ NoSessions' = NoSessions /\ NoRequests' = NoRequests
          /\ OnlyFrom(replyTarget)' = OnlyFrom(replyTarget) /\ OnlyFrom(from)' = OnlyFrom(from)
        BY <1>2 DEF NoSessions, NoRequests, OnlyFrom
    <2>3. OneEvent(thr[server].resume) => OneEvent(payload)'
        BY <1>2, <2>1, <2>2 DEF OneEvent, OnlyFrom
    <2>4. step[server] \notin {"accept", "handle"} /\ current' = server
        BY <1>1, <1>2, <1>3, <1>6, InTheSlice DEF FirstOK
    <2> QED
        BY <1>1, <1>2, <2>1, <2>2, <2>3, <2>4 DEF FirstOK, Client
<1> QED
    BY <1>5, <1>6

\* The service takes its only event, deals with it and sleeps.
LEMMA FirstService ==
    ASSUME Inv, FirstOK, server' = server, Service
    PROVE  FirstOK'
<1> SUFFICES ASSUME server = 0 PROVE FirstOK'
    BY DEF FirstOK
<1>1. /\ TypeOK /\ server \in Thread /\ server \notin Client /\ NoThread \notin Thread /\ Client' = Client
      /\ Client \subseteq Thread
    BY TableType DEF Inv, Client
<1>2. /\ current = server /\ thr[server].state = "Running"
    <2>1. current = server
        BY DEF Service, Reply, Receive, Resumed, HandleIpc, AcceptSession
    <2> QED
        BY <2>1, InTheSlice
<1>3. /\ requestQueue \in [Session -> Seq(Thread)] /\ handles \in Seq(Session)
      /\ sessionQueue \in Seq(Session) /\ step \in [Thread -> ServiceStep \cup ClientStep]
    BY <1>1 DEF TypeOK
<1>4. CASE Reply
    <2> SUFFICES ASSUME NEW i, i = replyTarget, NEW h, h = Head(requestQueue[i])
                 PROVE  FirstOK'
        OBVIOUS
    <2>1. /\ i \in Session /\ h \in Client
          /\ requestQueue' = [requestQueue EXCEPT ![i] = Tail(requestQueue[i])]
        BY <1>4, ReplyStep
    <2>2. /\ step[server] = "loop" /\ i # NoSession /\ replyTarget' = NoSession
          /\ UNCHANGED <<current, sessionQueue, step>>
        BY <1>4 DEF Reply, portVars
    <2>3. NoSessions /\ OnlyFrom(i)
        BY <2>2 DEF FirstOK, OnlyFrom
    <2>4. \A j \in Session : requestQueue'[j] = <<>>
        <3> TAKE j \in Session
        <3>1. CASE j = i
            <4>1. requestQueue[i] \in Seq(Thread) /\ Len(requestQueue[i]) = 1
                BY <1>3, <2>1, <2>3 DEF OnlyFrom
            <4>2. Tail(requestQueue[i]) = <<>>
                BY <4>1, TailOfOne
            <4> QED
                BY <1>3, <2>1, <3>1, <4>2
        <3>2. CASE j # i
            BY <1>3, <2>1, <2>3, <3>2 DEF OnlyFrom
        <3> QED
            BY <3>1, <3>2
    <2>5. NoSessions' /\ NoRequests'
        BY <2>2, <2>3, <2>4 DEF NoSessions, NoRequests
    <2> QED
        BY <1>1, <1>2, <2>2, <2>5 DEF FirstOK
<1>5. CASE Receive
    <2>1. /\ step[server] = "loop" /\ replyTarget = NoSession /\ step' = [step EXCEPT ![server] = "receive"]
          /\ current' = NoThread /\ UNCHANGED <<sessionQueue, requestQueue>>
          /\ SuspendOn(server, WaitList, "WaitSyncN")
        BY <1>5 DEF Receive, Goto, portVars
    <2>2. NoSessions' /\ NoRequests'
        BY <2>1 DEF FirstOK, NoSessions, NoRequests
    <2>3. step'[server] = "receive"
        BY <1>1, <1>3, <2>1
    <2>4. WaitList \in Seq(Object) /\ \A n \in 1..Len(WaitList) : \E i \in 0..MaxSessions : WaitList[n] = ServerEnd(i)
        BY <1>1, WaitListType
    <2>5. thr'[server].state = "Waiting"
        BY <1>2, <2>1, <2>4, ServerSuspend
    <2> QED
        BY <1>1, <2>1, <2>2, <2>3, <2>5 DEF FirstOK
<1>6. CASE Resumed
    <2>1. /\ step[server] = "receive" /\ UNCHANGED <<current, sessionQueue, requestQueue, handles>>
          /\ GoodResume(payload) /\ OneEvent(payload)
        BY <1>2, <1>6 DEF Resumed, portVars, Inv, ServiceOK, FirstOK
    <2>2. CASE payload.index = 1
        <3>1. step' = [step EXCEPT ![server] = "accept"]
            BY <1>6, <2>1, <2>2 DEF Resumed, GoodResume, Goto
        <3>2. step'[server] = "accept"
            BY <1>1, <1>3, <3>1
        <3>3. Len(sessionQueue') = 1 /\ NoRequests'
            BY <2>1, <2>2 DEF OneEvent, NoRequests
        <3> QED
            BY <1>1, <1>2, <2>1, <3>2, <3>3 DEF FirstOK
    <2>3. CASE payload.index # 1
        <3> SUFFICES ASSUME NEW i, i = handles[payload.index - 1] PROVE FirstOK'
            OBVIOUS
        <3>1. Received(i) /\ requestQueue[i] # <<>> /\ NoSessions /\ OnlyFrom(i)
            BY <1>6, <2>1, <2>3 DEF Resumed, GoodResume, OneEvent
        <3>2. from' = i /\ step' = [step EXCEPT ![server] = "handle"]
            BY <3>1 DEF Received, Goto
        <3>3. step'[server] = "handle"
            BY <1>1, <1>3, <3>2
        <3>4. NoSessions' /\ OnlyFrom(from)'
            BY <2>1, <3>1, <3>2 DEF NoSessions, OnlyFrom
        <3> QED
            BY <1>1, <1>2, <2>1, <3>3, <3>4 DEF FirstOK
    <2> QED
        BY <2>2, <2>3
<1>7. CASE HandleIpc
    <2>1. /\ step[server] = "handle" /\ step' = [step EXCEPT ![server] = "loop"] /\ replyTarget' = from
          /\ UNCHANGED <<current, sessionQueue, requestQueue, from>>
        BY <1>7 DEF HandleIpc, Goto, portVars
    <2>2. NoSessions' /\ OnlyFrom(replyTarget)'
        BY <2>1 DEF FirstOK, NoSessions, OnlyFrom
    <2>3. step'[server] = "loop"
        BY <1>1, <1>3, <2>1
    <2>4. replyTarget' # NoSession
        BY <2>1, Endpoints DEF Inv, ServiceOK, Holds, NoSession
    <2> QED
        BY <1>1, <1>2, <2>1, <2>2, <2>3, <2>4 DEF FirstOK
<1>8. CASE AcceptSession
    <2>1. /\ step[server] = "accept" /\ Len(sessionQueue) = 1 /\ NoRequests
          /\ replyTarget = NoSession
        BY <1>8 DEF AcceptSession, FirstOK, Inv, ServiceOK
    <2>2. sessionQueue # <<>>
        BY <2>1
    <2>3. /\ sessionQueue' = Tail(sessionQueue) /\ step' = [step EXCEPT ![server] = "loop"]
          /\ UNCHANGED <<current, requestQueue, replyTarget>>
        BY <1>8, <2>2 DEF AcceptSession, AcceptFirst, Goto
    <2>4. sessionQueue' = <<>>
        BY <1>3, <2>1, <2>3, TailOfOne
    <2>5. NoSessions' /\ NoRequests'
        BY <2>1, <2>3, <2>4 DEF NoSessions, NoRequests
    <2>6. step'[server] = "loop"
        BY <1>1, <1>3, <2>3
    <2> QED
        BY <1>1, <1>2, <2>1, <2>3, <2>5, <2>6 DEF FirstOK
<1> QED
    BY <1>4, <1>5, <1>6, <1>7, <1>8 DEF Service

\* Where the service is while a client runs: asleep in reply_and_receive with nothing to do.
LEMMA ServiceSleeps ==
    ASSUME Inv, FirstOK, server = 0, NEW t \in Client, current = t, step[t] # "connect"
    PROVE  /\ thr[server].state = "Waiting" /\ step[server] = "receive" /\ NoSessions /\ NoRequests
           /\ thr[server].waitObjects = WaitList /\ thr[server].waitType = "WaitSyncN"
           /\ thr[server] \in CommonThread
<1>1. thr[server].state = "Waiting" /\ server \notin Client
    BY DEF FirstOK, Client
<1>2. step[server] = "receive"
    BY <1>1 DEF FirstOK, Inv, ServiceOK
<1>3. thr[server] \in CommonThread
    BY TableType DEF Inv, Table
<1> QED
    BY <1>1, <1>2, <1>3 DEF FirstOK, Inv, ServiceOK

\* A client's connection or request wakes the service, which is told of just that.
LEMMA FirstEvent ==
    ASSUME Inv, FirstOK, ServiceQueued, SessionsKnown, SessionsExist, server' = server,
           NEW t \in Client, Connect(t) \/ EnqueueRequest(t)
    PROVE  FirstOK'
<1> SUFFICES ASSUME server = 0 PROVE FirstOK'
    BY DEF FirstOK
<1>1. /\ TypeOK /\ server \in Thread /\ server \notin Client /\ NoThread \notin Thread /\ Client' = Client
      /\ t \in Thread /\ t # server
    BY TableType DEF Inv, Client
<1>2. /\ requestQueue \in [Session -> Seq(Thread)] /\ handles \in Seq(Session)
      /\ sessionQueue \in Seq(Session) /\ step \in [Thread -> ServiceStep \cup ClientStep]
      /\ created \in 0..MaxSessions
    BY <1>1 DEF TypeOK
<1>3. current = t /\ step[t] \in {"idle", "send"}
    BY DEF Connect, EnqueueRequest, InSlice
<1>4. /\ thr[server].state = "Waiting" /\ step[server] = "receive" /\ NoSessions /\ NoRequests
      /\ thr[server].waitObjects = WaitList /\ thr[server].waitType = "WaitSyncN"
      /\ thr[server] \in CommonThread
    BY <1>3, ServiceSleeps
<1>5. /\ Len(WaitList) = Len(handles) + 1 /\ Len(handles) \in Nat /\ WaitList[1] = ServerEnd(0)
      /\ \A m \in 1..Len(handles) : WaitList[m + 1] = ServerEnd(handles[m])
    BY <1>1, WaitListType
<1>6. ASSUME NEW i \in 0..MaxSessions, NEW m \in 1..Len(WaitList), WaitList[m] = ServerEnd(i),
             WakeThread(ServerEnd(i))
      PROVE  \E n \in 1..Len(WaitList) :
                /\ WaitList[n] = ServerEnd(i) /\ \A j \in 1..(n - 1) : WaitList[j] # ServerEnd(i)
                /\ thr'[server].state = "Ready" /\ thr'[server].resume.index = n /\ n \in Nat
    <2>1. ServerEnd(i) \in Objects(thr, server)
        BY <1>4, <1>6 DEF Objects
    <2>2. thr'[server] = Awake(thr[server], ResumeByObject(thr[server], ServerEnd(i)))
        BY <1>4, <1>6, <2>1, ServiceWakes
    <2>3. ~WakeFails(thr[server], ServerEnd(i))
        BY <1>4, <1>6 DEF WakeFails
    <2>4. PICK n \in 1..Len(WaitList) :
              /\ WaitList[n] = ServerEnd(i) /\ \A j \in 1..(n - 1) : WaitList[j] # ServerEnd(i)
              /\ ResumeByObject(thr[server], ServerEnd(i)) = [kind |-> "WaitSyncN", index |-> n]
              /\ n \in Nat
        BY <1>4, <2>3, ResumeIndex
    <2>5. thr'[server].state = "Ready" /\ thr'[server].resume = [kind |-> "WaitSyncN", index |-> n]
        BY <1>4, <2>2, <2>4, AwakeRecord
    <2> QED
        BY <2>4, <2>5
<1>7. CASE Connect(t)
    <2>1. /\ sessionQueue' = Append(sessionQueue, created + 1) /\ WakeThread(ServerEnd(0))
          /\ created < MaxSessions /\ step' = [step EXCEPT ![t] = "connect"]
          /\ UNCHANGED <<current, requestQueue>>
        BY <1>7 DEF Connect, EnqueueSession, Goto
    <2>2. 1 \in 1..Len(WaitList)
        BY <1>5
    <2>3. PICK n \in 1..Len(WaitList) :
              /\ \A j \in 1..(n - 1) : WaitList[j] # ServerEnd(0)
              /\ thr'[server].state = "Ready" /\ thr'[server].resume.index = n /\ n \in Nat
        BY <1>5, <1>6, <2>1, <2>2, Endpoints
    <2>4. n = 1
        <3> SUFFICES ASSUME n # 1 PROVE FALSE
            OBVIOUS
        <3>1. 1 \in 1..(n - 1)
            BY <2>3, <1>5
        <3> QED
            BY <1>5, <2>3, <3>1
    <2>5. Len(sessionQueue') = 1 /\ NoRequests'
        <3>1. created + 1 \in Session /\ sessionQueue = <<>>
            BY <1>2, <1>4, <2>1, SessionsAssumption DEF Session, NoSessions
        <3> QED
            BY <1>4, <2>1, <3>1 DEF NoRequests
    <2>6. OneEvent(thr[server].resume)'
        BY <2>3, <2>4, <2>5 DEF OneEvent
    <2>7. /\ step'[server] = "receive" /\ current' = t /\ step'[current'] = "connect"
        BY <1>1, <1>2, <1>3, <1>4, <2>1
    <2> QED
        BY <1>1, <2>3, <2>6, <2>7 DEF FirstOK
<1>8. CASE EnqueueRequest(t)
    <2>1. PICK i \in Session : /\ ClientEnd(i) \in Objects(thr, t)
                               /\ requestQueue' = [requestQueue EXCEPT ![i] = Append(requestQueue[i], t)]
                               /\ WakeThread(ServerEnd(i))
        BY <1>8 DEF EnqueueRequest
    <2>2. /\ step[t] = "send" /\ step' = [step EXCEPT ![t] = "asking"] /\ current' = NoThread
          /\ UNCHANGED <<sessionQueue, handles>>
        BY <1>8 DEF EnqueueRequest, InSlice, Goto, portVars, serviceVars
    <2>3. i \in 1..created
        <3>1. i <= created
            BY <2>1, <2>2 DEF SessionsExist
        <3> QED
            BY <1>2, <3>1 DEF Session
    <2>4. PICK m \in 1..Len(handles) : handles[m] = i
        <3>1. Len(sessionQueue) = 0
            BY <1>4 DEF NoSessions
        <3> QED
            BY <2>3, <3>1 DEF SessionsKnown
    <2>5. m + 1 \in 1..Len(WaitList) /\ WaitList[m + 1] = ServerEnd(i)
        BY <1>5, <2>4
    <2>6. PICK n \in 1..Len(WaitList) :
              /\ WaitList[n] = ServerEnd(i)
              /\ thr'[server].state = "Ready" /\ thr'[server].resume.index = n /\ n \in Nat
        BY <1>6, <2>1, <2>5, Endpoints
    <2>7. n # 1
        BY <1>5, <2>6, Endpoints
    <2>8. handles[n - 1] = i
        <3>1. n - 1 \in 1..Len(handles) /\ (n - 1) + 1 = n
            BY <1>5, <2>6, <2>7
        <3>2. ServerEnd(handles[n - 1]) = ServerEnd(i)
            BY <1>5, <2>6, <3>1
        <3> QED
            BY <3>2, Endpoints
    <2>9. OnlyFrom(i)' /\ NoSessions'
        <3>1. requestQueue[i] = <<>> /\ requestQueue'[i] = Append(<<>>, t)
            BY <1>2, <1>4, <2>1 DEF NoRequests
        <3>2. Len(Append(<<>>, t)) = 1
            OBVIOUS
        <3>3. \A j \in Session : j # i => requestQueue'[j] = <<>>
            BY <1>2, <1>4, <2>1 DEF NoRequests
        <3> QED
            BY <1>4, <2>2, <3>1, <3>2, <3>3 DEF OnlyFrom, NoSessions
    <2>10. OneEvent(thr[server].resume)'
        BY <2>2, <2>6, <2>7, <2>8, <2>9 DEF OneEvent, OnlyFrom
    <2>11. step'[server] = "receive"
        BY <1>1, <1>2, <1>4, <2>2
    <2>12. current' # server /\ current' \notin Client'
        BY <1>1, <2>2 DEF Client
    <2> QED
        BY <1>1, <2>6, <2>10, <2>11, <2>12 DEF FirstOK
<1> QED
    BY <1>7, <1>8

\* Everything else a client does leaves the service asleep.
LEMMA FirstClient ==
    ASSUME Inv, FirstOK, server' = server, NEW t \in Client,
           ConnectWait(t) \/ SendSyncRequest(t) \/ Continue(t) \/ CloseHandle(t) \/ SleepThread(t)
              \/ ExitThread(t)
    PROVE  FirstOK'
<1>1. /\ TypeOK /\ TableOK /\ thr \in Table /\ server \in Thread /\ server \notin Client
      /\ NoThread \notin Thread
      /\ t \in Thread /\ t # server /\ Client \subseteq Thread
    BY TableType DEF Inv
<1>2. step \in [Thread -> ServiceStep \cup ClientStep] /\ open \subseteq Session
    BY <1>1 DEF TypeOK
<1>3. current = t /\ step[t] # "send"
    BY DEF ConnectWait, SendSyncRequest, Continue, CloseHandle, SleepThread, ExitThread, InSlice
<1>4. thr[t].state # "Waiting"
    BY <1>3, InTheSlice
<1>5. UNCHANGED <<sessionQueue, requestQueue, handles, replyTarget, from>>
    BY DEF ConnectWait, SendSyncRequest, Continue, CloseHandle, SleepThread, ExitThread, portVars,
           serviceVars
<1>6. step'[server] = step[server]
    BY <1>1, <1>2 DEF ConnectWait, SendSyncRequest, Continue, CloseHandle, SleepThread, ExitThread, Goto
<1>7. thr'[server] = thr[server]
    <2>1. CASE ConnectWait(t) \/ SendSyncRequest(t) \/ SleepThread(t)
        <3>1. PICK list, type : SuspendOn(t, list, type)
            BY <2>1 DEF ConnectWait, SendSyncRequest, SleepThread
        <3> QED
            BY <1>1, <3>1 DEF SuspendOn, Suspend, Table
    <2>2. CASE Continue(t) \/ CloseHandle(t)
        BY <2>2 DEF Continue, CloseHandle, Panic, tableVars
    <2>3. CASE ExitThread(t)
        BY <1>1, <2>3 DEF ExitThread, Table
    <2> QED
        BY <2>1, <2>2, <2>3
<1>8. current' = NoThread \/ (current' = t /\ step[t] # "connect")
    BY <1>3 DEF ConnectWait, SendSyncRequest, Continue, CloseHandle, SleepThread, ExitThread, InSlice
<1>9. server = 0 /\ current' \in Client => thr[server].state = "Waiting"
    BY <1>1, <1>3, <1>8, ServiceSleeps
<1>10. current' # server /\ current # server
    BY <1>1, <1>3, <1>8
<1> QED
    BY <1>5, <1>6, <1>7, <1>9, <1>10, FirstFrame

\* Nothing has happened at first.
LEMMA InitFirst == Init => FirstInv
<1> SUFFICES ASSUME Init PROVE FirstInv
    OBVIOUS
<1>1. Inv
    BY InitInv
<1>2. /\ server \in Thread /\ NoThread \notin Thread /\ Client \subseteq Thread
    BY <1>1, TableType DEF Inv
<1>3. thr[server].state = "Ready" /\ step[server] = "loop" /\ \A t \in Client : step[t] = "idle"
    BY <1>2 DEF Init, NewThread, Client
<1>4. ServiceQueued
    BY <1>3 DEF ServiceQueued
<1>5. SessionsKnown
    BY DEF SessionsKnown, Init
<1>6. SessionsExist
    BY <1>3 DEF SessionsExist, Init
<1>7. NoSessions /\ NoRequests /\ current \notin Client /\ replyTarget = NoSession
    BY <1>2 DEF NoSessions, NoRequests, Init
<1>8. FirstOK
    BY <1>3, <1>7 DEF FirstOK
<1> QED
    BY <1>1, <1>4, <1>5, <1>6, <1>8 DEF FirstInv

\* Every step keeps the invariant.
LEMMA NextFirst == FirstInv /\ [Next]_vars => FirstInv'
<1> SUFFICES ASSUME FirstInv, [Next]_vars PROVE FirstInv'
    OBVIOUS
<1>1. Inv /\ ServiceQueued /\ SessionsKnown /\ SessionsExist /\ FirstOK
    BY DEF FirstInv
<1>2. Inv'
    BY <1>1, NextInv
<1>3. CASE UNCHANGED vars
    <2>1. UNCHANGED <<server, thr, queue, current, payload, sessionQueue, created, open,
                      requestQueue, step, handles, replyTarget, from>>
        BY <1>3 DEF vars, tableVars, portVars, serviceVars
    <2>2. ServiceQueued' /\ SessionsKnown' /\ SessionsExist'
        BY <1>1, <2>1 DEF ServiceQueued, SessionsKnown, SessionsExist, Client
    <2>3. FirstOK'
        BY <1>1, <2>1, FirstFrame DEF FirstOK
    <2> QED
        BY <1>2, <2>2, <2>3 DEF FirstInv
<1>4. ASSUME Next PROVE FirstInv'
    <2>1. server' = server
        BY <1>4 DEF Next, Loop
    <2>2. ServiceQueued' /\ SessionsKnown' /\ SessionsExist'
        BY <1>1, <1>4, QueuedStep, KnownStep, ExistStep
    <2>3. CASE WakeSleeper
        <3>1. /\ thr'[server] = thr[server] /\ current = NoThread /\ current' = NoThread
              /\ UNCHANGED <<sessionQueue, requestQueue, handles, replyTarget, from, step, payload>>
            BY <1>1, <2>1, <2>3, TableType DEF Inv, WakeSleeper, Table, portVars, serviceVars
        <3>2. NoThread \notin Client
            BY <1>1, TableType DEF Inv
        <3> QED
            BY <1>1, <1>2, <2>1, <2>2, <3>1, <3>2, FirstFrame DEF FirstInv
    <2>4. CASE RunNext
        BY <1>1, <1>2, <2>1, <2>2, <2>4, FirstRunNext DEF FirstInv
    <2>5. CASE Service
        BY <1>1, <1>2, <2>1, <2>2, <2>5, FirstService DEF FirstInv
    <2>6. ASSUME NEW t \in Client, ClientCall(t) \/ ClientChoice(t) PROVE FirstOK'
        BY <1>1, <2>1, <2>6, FirstEvent, FirstClient DEF ClientCall, ClientChoice
    <2> QED
        BY <1>2, <1>4, <2>2, <2>3, <2>4, <2>5, <2>6 DEF Next, Loop, FirstInv
<1> QED
    BY <1>3, <1>4

\* A service whose thread is the first of the table never sleeps over a session or a request
\* that is there already, although wait() does not look.
THEOREM FirstServiceLeavesNothing == Spec => []NothingLeftBehind
<1>1. FirstInv => NothingLeftBehind
    BY DEF FirstInv, FirstOK, NoSessions, NoRequests, NothingLeftBehind
<1> QED
    BY <1>1, InitFirst, NextFirst, PTL DEF Spec

=============================================================================
