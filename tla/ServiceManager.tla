--------------------------- MODULE ServiceManager ---------------------------
(***************************************************************************)
(* srv: (hle/src/service/srv.rs): services register a port under a name,   *)
(* apps ask for a session to it.  Both the port and the session are made   *)
(* in srv's process and moved to the caller with the response, through     *)
(* ipc_data and translate_ipc as in Ipc.                                   *)
(*                                                                         *)
(* Processes have one thread each, numbered in the order in which main.rs  *)
(* starts them, and connect to srv's own port once, before their first     *)
(* call.  The first ready thread runs until it suspends itself.  A port or *)
(* a session wakes the thread that waits for it when something is queued;  *)
(* a thread that comes to wait later is not told (wait() in port.rs and    *)
(* session.rs).                                                            *)
(***************************************************************************)
EXTENDS Ipc, FiniteSets

CONSTANTS
    Srv,          \* the process of srv:
    Provider,     \* processes that register a service and then serve it
    App,          \* processes that use services
    Name,         \* names of services, as words
    Notification, \* notifications, as words
    MaxCalls      \* bound on the calls of every client

Client == Provider \cup App
Nobody == -1

ASSUME ServiceManagerAssumption ==
    /\ Process = {Srv} \cup Client /\ Process \subseteq Nat
    /\ \A c \in Client : Srv < c
    /\ \A p \in Provider, a \in App : p < a
    /\ Name \subseteq Nat /\ Notification \subseteq Nat /\ MaxCalls \in [Client -> Nat]
    /\ BufferWords >= 5                            \* the longest message fits
    /\ \A c \in Client : MaxCalls[c] + 2 < CurrentProcess  \* no caller draws the pseudo-handle

VARIABLES
    services,   \* SrvContext.services
    seen,       \* SrvContext.seen_notifications
    ports,      \* how many port pairs there are
    sessions,   \* the port every session was made for
    queued,     \* ServerPortHLE.session_queue of every port
    events,     \* how many events there are
    knocking,   \* the clients whose sessions are queued at srv's own port
    stage,      \* where srv is in its loop
    serving,    \* the client whose session woke srv
    phase,      \* where every client is in its program
    calls,      \* how many calls it has made
    asked,      \* the call it made last
    user,       \* the app whose request every provider has been woken for
    current,    \* the process that has its slice
    panic

registryVars == <<services, seen, ports, sessions, queued, events, knocking>>
clientVars == <<phase, calls, asked, user>>
vars == <<ipcVars, registryVars, stage, serving, clientVars, current, panic>>

\* Kernel objects, by kind and number.
Obj(kind, n) == <<kind, n>>
Kind == {"srv port", "server port", "client port", "server session", "client session", "event",
         "srv client port", "srv server session", "srv client session"}

Call == {"none", "RegisterClient", "EnableNotification", "RegisterService", "GetServiceHandle",
         "Subscribe", "ReceiveNotification", "PublishToSubscriber", "PublishAndGetSubscriber"}

TypeOK ==
    /\ \A p \in Process : /\ DOMAIN table[p] \subseteq 1..drawn[p]
                          /\ Range(table[p]) \subseteq Kind \X Nat
                          /\ ipcData[p] \in Seq(Nat) /\ Len(ipcData[p]) = BufferWords
    /\ services \in Seq([name : Name, port : Nat])
    /\ seen \subseteq Notification
    /\ sessions \in Seq(1..ports)
    /\ queued \in [1..ports -> Seq(1..Len(sessions))]
    /\ serving \in Client \cup {Nobody} /\ current \in Process \cup {Nobody}
    /\ knocking \in Seq(Client)
    /\ stage \in {"waiting", "knocked", "woken", "handle", "connecting", "connected", "reply"}
    /\ phase \in [Client -> {"start", "connecting", "idle", "asking", "answered", "using",
                         "serving", "accepting", "busy"}]
    /\ \A c \in Client : calls[c] \in 0..MaxCalls[c]
    /\ asked \in [Client -> [call : Call, word : Nat]]
    /\ user \in [Provider -> App \cup {Nobody}]
    /\ panic \in {"none", "service not found", "not implemented", "no port", "no handle"}

\* srv has started: its own port is its first handle, and it waits.
Init ==
    /\ table = [p \in Process |-> IF p = Srv THEN <<Obj("srv port", 0)>> ELSE <<>>]
    /\ drawn = [p \in Process |-> IF p = Srv THEN 1 ELSE 0]
    /\ ipcData = [p \in Process |-> [i \in 1..BufferWords |-> 0]]
    /\ services = <<>> /\ seen = {}
    /\ ports = 0 /\ sessions = <<>> /\ queued = <<>> /\ events = 0
    /\ knocking = <<>>
    /\ stage = "waiting" /\ serving = Nobody
    /\ phase = [c \in Client |-> "start"]
    /\ calls = [c \in Client |-> 0]
    /\ asked = [c \in Client |-> [call |-> "none", word |-> 0]]
    /\ user = [p \in Provider |-> Nobody]
    /\ current = Nobody
    /\ panic = "none"

-----------------------------------------------------------------------------
(* Scheduler *)

\* Threads that are ready.  An app that is not in a call of srv may be ready or
\* asleep.
SurelyReady ==
    {p \in Process : \/ p = Srv /\ stage \notin {"waiting", "connecting"}
                     \/ p \in Provider /\ phase[p] \in {"start", "idle", "answered", "accepting",
                                                     "busy"}
                     \/ p \in App /\ phase[p] = "answered"}

MayBeReady == SurelyReady \cup {a \in App : phase[a] \in {"start", "idle"}}

\* Fault: any ready thread may be next.
RunsAnyone(p) == current = p \/ (current = Nobody /\ p \in MayBeReady)

\* The thread has its slice, or next_thread() gives it to the first ready one.
Runs(p) ==
    \/ current = p
    \/ current = Nobody /\ p \in MayBeReady /\ \A q \in SurelyReady : p <= q

-----------------------------------------------------------------------------
(* Clients *)

\* declare_service!, ConnectToPort: the client takes a handle for srv's port, its new
\* session with srv is queued there, srv is woken if it waits, and the client sleeps
\* until srv has accepted; its end of the session is its second handle.
Connect(c) ==
    /\ phase[c] = "start" /\ Runs(c)
    /\ LET port == InsertHandle(table, drawn, c, Obj("srv client port", 0))
           both == InsertHandle(port.table, port.drawn, c, Obj("srv client session", c))
       IN  table' = both.table /\ drawn' = both.drawn
    /\ knocking' = Append(knocking, c)
    /\ phase' = [phase EXCEPT ![c] = "connecting"]
    /\ stage' = IF stage = "waiting" THEN "knocked" ELSE stage
    /\ current' = Nobody
    /\ UNCHANGED <<ipcData, services, seen, ports, sessions, queued, events, serving, calls, asked,
                   user, panic>>

\* The requests, as SrvInterface and guest programs write them.  A name is its
\* first word; its second word, its length and the flags are always the same.
RequestOf(call, word) ==
    CASE call = "RegisterClient" ->
             RequestWords(1, <<>>, <<HandleParam(FALSE, TRUE, <<NoHandle>>)>>)
      [] call = "EnableNotification"      -> RequestWords(2, <<>>, <<>>)
      [] call = "RegisterService"         -> RequestWords(3, <<word, 0, 4, 255>>, <<>>)
      [] call = "GetServiceHandle"        -> RequestWords(5, <<word, 0, 4, 0>>, <<>>)
      [] call = "Subscribe"               -> RequestWords(9, <<word>>, <<>>)
      [] call = "ReceiveNotification"     -> RequestWords(11, <<>>, <<>>)
      [] call = "PublishToSubscriber"     -> RequestWords(12, <<word, 0>>, <<>>)
      [] call = "PublishAndGetSubscriber" -> RequestWords(13, <<word>>, <<>>)

WordsOf(call) ==
    CASE call \in {"RegisterService", "GetServiceHandle"} -> Name
      [] call \in {"Subscribe", "PublishToSubscriber", "PublishAndGetSubscriber"} -> Notification
      [] OTHER -> {0}

\* A provider registers itself first and then makes no call of srv (declare_service!);
\* an app makes the others.
CallsOf(c) == IF c \in Provider THEN {"RegisterService"}
                                ELSE Call \ {"none", "RegisterService"}

\* send_sync_request: the thread sleeps, and srv is woken if it waits.
Ask(c) ==
    /\ phase[c] = "idle" /\ Runs(c)
    /\ calls[c] < MaxCalls[c]
    /\ \E call \in CallsOf(c) : \E word \in WordsOf(call) :
          /\ asked' = [asked EXCEPT ![c] = [call |-> call, word |-> word]]
          /\ ipcData' = [ipcData EXCEPT ![c] = Over(@, RequestOf(call, word))]
    /\ calls' = [calls EXCEPT ![c] = @ + 1]
    /\ phase' = [phase EXCEPT ![c] = "asking"]
    /\ IF stage = "waiting" THEN stage' = "woken" /\ serving' = c
                            ELSE UNCHANGED <<stage, serving>>
    /\ current' = Nobody
    /\ UNCHANGED <<table, drawn, registryVars, user, panic>>

\* The handle in a response: SrvInterface wants one parameter with a single handle.
Answer(c) ==
    LET params == Read(ipcData[c], TRUE).params
    IN  IF Len(params) = 1 /\ Len(params[1].handles) = 1 THEN params[1].handles[1] ELSE NoHandle

\* The client goes on with the answer: SrvInterface unwraps the handle, a provider
\* goes to wait for sessions.
Continue(c) ==
    /\ phase[c] = "answered" /\ Runs(c)
    /\ panic' = IF asked[c].call \in {"RegisterService", "GetServiceHandle"}
                   /\ Answer(c) = NoHandle THEN "no handle" ELSE panic
    /\ phase' = [phase EXCEPT ![c] = IF c \in Provider THEN "serving" ELSE "idle"]
    /\ current' = IF c \in Provider THEN Nobody ELSE c
    /\ UNCHANGED <<ipcVars, registryVars, stage, serving, calls, asked, user>>

\* An app closes a session or an event, never its session with srv.
CloseHandle(c) ==
    /\ c \in App /\ phase[c] = "idle" /\ Runs(c)
    /\ \E h \in DOMAIN table[c] :
          /\ table[c][h] \notin {Obj("srv client port", 0), Obj("srv client session", c)}
          /\ table' = RemoveHandle(table, c, h)
    /\ current' = c
    /\ UNCHANGED <<drawn, ipcData, registryVars, stage, serving, clientVars, panic>>

\* An app goes to sleep, or waits for something else.
Yield(c) ==
    /\ c \in App /\ phase[c] = "idle" /\ current = c
    /\ current' = Nobody
    /\ UNCHANGED <<ipcVars, registryVars, stage, serving, clientVars, panic>>

\* An app sends a request through a session it was given; the provider is woken if
\* it waits.  What the request says does not concern srv.
UseService(c) ==
    /\ c \in App /\ phase[c] = "idle" /\ Runs(c)
    /\ calls[c] < MaxCalls[c]
    /\ \E p \in Provider, n \in 1..Len(sessions) :
          /\ Obj("client session", n) \in Range(table[c])
          /\ Obj("server session", n) \in Range(table[p])
          /\ phase' = [phase EXCEPT ![c] = "using",
                                    ![p] = IF @ = "serving" THEN "busy" ELSE @]
          /\ user' = IF phase[p] = "serving" THEN [user EXCEPT ![p] = c] ELSE user
    /\ calls' = [calls EXCEPT ![c] = @ + 1]
    /\ current' = Nobody
    /\ UNCHANGED <<ipcVars, registryVars, stage, serving, asked, panic>>

\* A provider's loop: it handles the request, replies and waits again.
Serve(c) ==
    /\ phase[c] = "busy" /\ Runs(c)
    /\ phase' = [phase EXCEPT ![c] = "serving", ![user[c]] = "idle"]
    /\ user' = [user EXCEPT ![c] = Nobody]
    /\ current' = Nobody
    /\ UNCHANGED <<ipcVars, registryVars, stage, serving, calls, asked, panic>>

\* Fault: the provider waits again before it has accepted.
AcceptNothing(c) ==
    /\ phase[c] = "accepting" /\ Runs(c)
    /\ phase' = [phase EXCEPT ![c] = "serving"]
    /\ current' = Nobody
    /\ UNCHANGED <<ipcVars, registryVars, stage, serving, calls, asked, user, panic>>

\* A provider's loop: accept_session takes a session from its port and wakes srv,
\* the only thread that waits for the port's other end; then it waits again.
Accept(c) ==
    /\ phase[c] = "accepting" /\ Runs(c)
    /\ \E i \in 1..ports :
          /\ Obj("server port", i) \in Range(table[c])
          /\ NewHandle(c, Obj("server session", Head(queued[i])))
          /\ queued' = [queued EXCEPT ![i] = Tail(@)]
    /\ stage' = IF stage = "connecting" THEN "connected" ELSE stage
    /\ phase' = [phase EXCEPT ![c] = "serving"]
    /\ current' = Nobody
    /\ UNCHANGED <<ipcData, services, seen, ports, sessions, events, knocking, serving, calls,
                   asked, user, panic>>

-----------------------------------------------------------------------------
(* srv *)

\* srv resumes with index 0: accept_session takes a session from its port and wakes the
\* client that waits for it.  The session stays in the table, and srv waits again.
AcceptClient ==
    /\ stage = "knocked" /\ Runs(Srv)
    /\ NewHandle(Srv, Obj("srv server session", Head(knocking)))
    /\ knocking' = Tail(knocking)
    /\ phase' = [phase EXCEPT ![Head(knocking)] = "idle"]
    /\ stage' = "waiting"
    /\ current' = Nobody
    /\ UNCHANGED <<ipcData, services, seen, ports, sessions, queued, events, serving, calls, asked,
                   user, panic>>

\* srv resumes with the index of the session that woke it and takes its request.
Receive ==
    /\ stage = "woken" /\ Runs(Srv)
    /\ TranslateIpc(serving, Srv, FALSE)
    /\ stage' = "handle"
    /\ current' = Srv
    /\ UNCHANGED <<registryVars, serving, clientVars, panic>>

\* handle_ipc goes by the whole header.
Handles(command, normal, translate) ==
    /\ stage = "handle"
    /\ HeaderCode(ipcData[Srv][1]) =
           [command |-> command, normal |-> normal, translate |-> translate]

RequestNormals == Read(ipcData[Srv], FALSE).normals

Respond(normals, params) ==
    /\ ipcData' = [ipcData EXCEPT ![Srv] =
           Over(@, ResponseWords(HeaderCode(@[1]).command, normals, params))]
    /\ stage' = "reply"
    /\ UNCHANGED <<serving, clientVars, current>>

Moved(handle) == <<HandleParam(TRUE, FALSE, <<handle>>)>>

Fails(what) ==
    /\ panic' = what
    /\ UNCHANGED <<ipcVars, registryVars, stage, serving, clientVars, current>>

RegisterClient ==
    /\ Handles(1, 0, 2)
    /\ Respond(<<>>, <<>>)
    /\ UNCHANGED <<table, drawn, registryVars, panic>>

EnableNotification ==
    /\ Handles(2, 0, 0)
    /\ events' = events + 1
    /\ NewHandle(Srv, Obj("event", events'))
    /\ Respond(<<>>, Moved(drawn'[Srv]))
    /\ UNCHANGED <<services, seen, ports, sessions, queued, knocking, panic>>

\* A new port: srv keeps its client end and moves the server end to the caller.
RegisterService ==
    /\ Handles(3, 4, 0)
    /\ ports' = ports + 1
    /\ LET first == InsertHandle(table, drawn, Srv, Obj("server port", ports'))
           both  == InsertHandle(first.table, first.drawn, Srv, Obj("client port", ports'))
       IN  table' = both.table /\ drawn' = both.drawn
    /\ services' = Append(services, [name |-> RequestNormals[1], port |-> drawn'[Srv]])
    /\ queued' = Append(queued, <<>>)
    /\ Respond(<<>>, Moved(drawn'[Srv] - 1))
    /\ UNCHANGED <<seen, sessions, events, knocking, panic>>

\* Fault: the service registered last is found.
FindServiceLast(name) ==
    {i \in 1..Len(services) : /\ services[i].name = name
                              /\ \A j \in (i + 1)..Len(services) : services[j].name # name}

\* Fault: the search begins after the first service.
FindServiceSkips(name) ==
    {i \in 2..Len(services) : /\ services[i].name = name
                              /\ \A j \in 1..(i - 1) : services[j].name # name}

\* find_service: the first service of that name, if there is one.
FindService(name) ==
    {i \in 1..Len(services) : /\ services[i].name = name
                              /\ \A j \in 1..(i - 1) : services[j].name # name}

\* create_session_to_port: the session is queued at the port, a provider that waits
\* for it is woken, and srv sleeps until a session is accepted.
GetServiceHandle ==
    /\ Handles(5, 4, 0)
    /\ LET found == FindService(RequestNormals[1])
       IN  \/ found = {} /\ Fails("service not found")
           \/ \E i \in found :
                 LET handle == services[i].port
                     port == table[Srv][handle][2]
                 IN  IF handle \notin DOMAIN table[Srv] \/ table[Srv][handle][1] # "client port"
                     THEN Fails("no port")
                     ELSE /\ sessions' = Append(sessions, port)
                          /\ queued' = [queued EXCEPT ![port] = Append(@, Len(sessions'))]
                          /\ NewHandle(Srv, Obj("client session", Len(sessions')))
                          /\ phase' = [c \in Client |->
                                 IF phase[c] = "serving" /\ Obj("server port", port) \in Range(table[c])
                                 THEN "accepting" ELSE phase[c]]
                          /\ stage' = "connecting"
                          /\ current' = Nobody
                          /\ UNCHANGED <<ipcData, services, seen, ports, events, knocking,
                                         serving, calls, asked, user, panic>>

\* The session has been accepted; its handle is the last that srv has drawn.
Connected ==
    /\ stage = "connected" /\ Runs(Srv)
    /\ ipcData' = [ipcData EXCEPT ![Srv] =
           Over(@, ResponseWords(HeaderCode(@[1]).command, <<>>, Moved(drawn[Srv])))]
    /\ stage' = "reply"
    /\ current' = Srv
    /\ UNCHANGED <<table, drawn, registryVars, serving, clientVars, panic>>

Subscribe ==
    /\ Handles(9, 1, 0)
    /\ seen' = seen \cup {RequestNormals[1]}
    /\ Respond(<<>>, <<>>)
    /\ UNCHANGED <<table, drawn, services, ports, sessions, queued, events, knocking, panic>>

\* The notification is always the same (0x206).
ReceiveNotification ==
    /\ Handles(11, 0, 0)
    /\ Respond(<<518>>, <<>>)
    /\ UNCHANGED <<table, drawn, registryVars, panic>>

\* Publishing to a subscriber is not implemented.
Publish(response) ==
    \/ RequestNormals[1] \in seen /\ Fails("not implemented")
    \/ /\ RequestNormals[1] \notin seen
       /\ Respond(response, <<>>)
       /\ UNCHANGED <<table, drawn, registryVars, panic>>

PublishToSubscriber == Handles(12, 2, 0) /\ Publish(<<>>)
PublishAndGetSubscriber == Handles(13, 1, 0) /\ Publish(<<1, 1>>)

\* reply_and_receive: the response goes to the client, which is woken, and srv waits
\* for all its sessions.
Reply ==
    /\ stage = "reply"
    /\ TranslateIpc(Srv, serving, TRUE)
    /\ phase' = [phase EXCEPT ![serving] = "answered"]
    /\ stage' = "waiting" /\ serving' = Nobody
    /\ current' = Nobody
    /\ UNCHANGED <<registryVars, calls, asked, user, panic>>

HandleIpc ==
    \/ RegisterClient \/ EnableNotification \/ RegisterService \/ GetServiceHandle
    \/ Subscribe \/ ReceiveNotification \/ PublishToSubscriber \/ PublishAndGetSubscriber

-----------------------------------------------------------------------------

\* What is done without a choice of the program.
Loop == AcceptClient \/ Receive \/ HandleIpc \/ Connected \/ Reply
        \/ \E c \in Client : Continue(c) \/ Accept(c) \/ Serve(c)

Next ==
    /\ panic = "none"
    /\ \/ Loop
       \/ \E c \in Client : Connect(c) \/ Ask(c) \/ UseService(c) \/ CloseHandle(c) \/ Yield(c)

Spec == Init /\ [][Next]_vars

\* The main loop goes on, providers connect and register, and an app gives up its slice.
Fairness ==
    /\ WF_vars(panic = "none" /\ Loop)
    /\ WF_vars(panic = "none" /\ \E c \in Provider : Connect(c) \/ Ask(c))
    /\ WF_vars(panic = "none" /\ \E c \in App : Yield(c))

FairSpec == Spec /\ Fairness

-----------------------------------------------------------------------------
(* Properties *)

\* An app never asks too early and no unwrap() of a handle fails: srv panics only if
\* asked for a name that no provider has, every provider being through with its
\* registration, or if asked to publish what somebody has subscribed to.
PanicsAreJustified ==
    /\ panic \notin {"no port", "no handle"}
    /\ panic = "service not found" =>
           \A p \in Provider : phase[p] \in {"serving", "busy"} /\ asked[p].word # asked[serving].word
    /\ panic = "not implemented" => asked[serving].word \in seen

\* Nobody waits for something that has been overlooked.  srv is never away, waiting
\* for a provider, when a request or a new session is queued, and a provider always
\* waits when srv queues a session at its port or an app a request: srv has been woken
\* for the one client that connects, whoever asks is being served, and a provider with
\* a session queued has been woken for it.
NothingOverlooked ==
    /\ \A c \in Client : phase[c] = "connecting" => stage = "knocked" /\ knocking = <<c>>
    /\ \A c \in Client : phase[c] = "asking" => serving = c
    /\ \A c \in App : phase[c] = "using" => \E p \in Provider : phase[p] = "busy" /\ user[p] = c
    /\ \A i \in 1..ports : queued[i] # <<>> =>
           \E p \in Provider : phase[p] = "accepting" /\ Obj("server port", i) \in Range(table[p])

\* A client with which srv has a session.
Accepted(c) == phase[c] \notin {"start", "connecting"}

\* Whatever srv makes for a caller leaves with the response: whenever srv waits, its
\* table holds, once each, its own port, the client end of every registered port and
\* its session with every client that has connected, and nothing else.
NothingLeaks ==
    stage = "waiting" =>
        /\ IsInjective(table[Srv])
        /\ Range(table[Srv]) = {Obj("srv port", 0)} \cup {Obj("client port", i) : i \in 1..ports}
               \cup {Obj("srv server session", c) : c \in {d \in Client : Accepted(d)}}
        /\ \A i \in 1..Len(services) : table[Srv][services[i].port] = Obj("client port", i)

\* A session leads where it should: the caller finds the client end of a session whose
\* server end was accepted by the provider that was the first to register the name.
SessionsLead ==
    \A c \in App : phase[c] = "answered" /\ asked[c].call = "GetServiceHandle" =>
        \E p \in Provider, n \in 1..Len(sessions) :
            /\ table[c][Answer(c)] = Obj("client session", n)
            /\ {Obj("server session", n), Obj("server port", sessions[n])} \subseteq Range(table[p])
            /\ asked[p].word = asked[c].word
            /\ \A q \in Provider : q < p => asked[q].word # asked[c].word

\* Every call of srv returns, and so does connecting to it, unless srv panics.
SrvCallsReturn ==
    \A c \in Client :
        phase[c] \in {"connecting", "asking"} ~>
            (phase[c] \notin {"connecting", "asking"} \/ panic # "none")

=============================================================================
