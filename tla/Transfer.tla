------------------------------ MODULE Transfer ------------------------------
(***************************************************************************)
(* Messages with handles between clients and a service: what a request and *)
(* its response carry through translate_ipc, and what becomes of the       *)
(* references while other threads of a client close handles.  The service  *)
(* answers as APT:U and ndm:u in cli/src/main.rs do.  That requests reach  *)
(* the service one at a time, and answers their sender, is for Sessions.   *)
(***************************************************************************)
EXTENDS Ipc, FiniteSets

CONSTANTS
    Service,     \* the process of the service; the others are clients
    MaxObjects,  \* bound on the objects ever created
    MaxCalls     \* bound on the calls of each client

Client == Process \ {Service}
Object == 1..MaxObjects
NoObject == 0
NoClient == "nobody"

ASSUME TransferAssumption ==
    /\ Service \in Process /\ NoClient \notin Process
    /\ MaxObjects \in Nat /\ MaxCalls \in Nat
    /\ BufferWords >= 9                            \* the longest message fits
    /\ IsFiniteSet(Process)
    \* The service's table does not draw the pseudo-handle.
    /\ MaxObjects + 3 * (MaxCalls * Cardinality(Client)) < CurrentProcess

VARIABLES
    made,     \* how many objects there are
    phase,    \* where every client is in its call
    calls,    \* how many calls it has made
    serving,  \* whose request the service has received
    expected  \* the objects a message in flight is to carry, in order

serviceVars == <<made, phase, calls, serving, expected>>
vars == <<ipcVars, serviceVars>>

Phase == {"idle", "asking", "received", "handled", "answered"}

TypeOK ==
    /\ \A p \in Process : DOMAIN table[p] \subseteq 1..drawn[p] /\ Range(table[p]) \subseteq Object
    /\ \A p \in Process : ipcData[p] \in Seq(Nat) /\ Len(ipcData[p]) = BufferWords
    /\ made \in 0..MaxObjects
    /\ phase \in [Client -> Phase]
    /\ calls \in [Client -> 0..MaxCalls]
    /\ serving \in Client \cup {NoClient}
    /\ expected \in [Client -> Seq(Object \cup {NoObject})]

Init ==
    /\ table = [p \in Process |-> <<>>]
    /\ drawn = [p \in Process |-> 0]
    /\ ipcData = [p \in Process |-> [i \in 1..BufferWords |-> 0]]
    /\ made = 0
    /\ phase = [c \in Client |-> "idle"]
    /\ calls = [c \in Client |-> 0]
    /\ serving = NoClient
    /\ expected = [c \in Client |-> <<>>]

-----------------------------------------------------------------------------
(* Clients *)

Goto(c, to) == phase' = [phase EXCEPT ![c] = to]

\* What a handle names in a process.
Named(t, p, handle) == IF handle \in DOMAIN t[p] THEN t[p][handle] ELSE NoObject

\* Any create call.
CreateObject(c) ==
    /\ phase[c] = "idle" /\ made < MaxObjects
    /\ made' = made + 1
    /\ NewHandle(c, made')
    /\ UNCHANGED <<ipcData, phase, calls, serving, expected>>

\* close_handle, by the caller or, during its call, by another thread of its process.
CloseHandle(c) ==
    /\ phase[c] \in {"idle", "asking"}
    /\ \E h \in DOMAIN table[c] :
          /\ table' = RemoveHandle(table, c, h)
          /\ expected' = IF phase[c] = "idle" THEN expected
                         ELSE [expected EXCEPT ![c] =
                             LET sent == Read(ipcData[c], FALSE).params
                                 handles == FlattenSeq([i \in 1..Len(sent) |-> sent[i].handles])
                             IN  [i \in 1..Len(@) |-> IF handles[i] = h THEN NoObject ELSE @[i]]]
    /\ UNCHANGED <<drawn, ipcData, made, phase, calls, serving>>

\* What a guest writes for a parameter: handles, or a static buffer.
StaticBuffer == HandleParam(FALSE, FALSE, <<>>)
GuestWords(p) == IF p = StaticBuffer THEN <<2^14 + 1, 0>> ELSE TranslateWords(p)

\* The words of a guest's request.
GuestRequest(command, normals, params) ==
    Message(command, <<>>, normals, [i \in 1..Len(params) |-> GuestWords(params[i])])

\* Handles a client puts in its message: its own, and one that names nothing.
HandleLists(c) ==
    LET known == DOMAIN table[c] \cup {NoHandle}
    IN  {<<h>> : h \in known} \cup (known \X known)

\* send_sync_request: a handle that is moved twice arrives once.
SendSyncRequest(c) ==
    /\ phase[c] = "idle" /\ calls[c] < MaxCalls
    /\ \E moved \in BOOLEAN, buffer \in BOOLEAN, hs \in HandleLists(c) :
          /\ ipcData' = [ipcData EXCEPT ![c] = Over(@, GuestRequest(calls[c] + 1, <<7>>,
                             (IF buffer THEN <<StaticBuffer>> ELSE <<>>)
                             \o <<HandleParam(FALSE, TRUE, <<NoHandle>>),
                                  HandleParam(moved, FALSE, hs)>>))]
          /\ expected' = [expected EXCEPT ![c] = <<NoObject>> \o [i \in 1..Len(hs) |->
                             IF moved /\ \E j \in 1..(i - 1) : hs[j] = hs[i]
                             THEN NoObject ELSE Named(table, c, hs[i])]]
    /\ calls' = [calls EXCEPT ![c] = @ + 1]
    /\ Goto(c, "asking")
    /\ UNCHANGED <<table, drawn, made, serving>>

\* The client goes on with its answer.
Continue(c) ==
    /\ phase[c] = "answered"
    /\ Goto(c, "idle")
    /\ expected' = [expected EXCEPT ![c] = <<>>]
    /\ UNCHANGED <<ipcVars, made, calls, serving>>

-----------------------------------------------------------------------------
(* The service *)

\* ServerSessionHLE::receive
Receive(c) ==
    /\ phase[c] = "asking" /\ serving = NoClient
    /\ TranslateIpc(c, Service, FALSE)
    /\ serving' = c
    /\ Goto(c, "received")
    /\ UNCHANGED <<made, calls, expected>>

\* handle_ipc of APT:U and ndm:u: some normal parameters, and up to two new
\* objects whose handles are moved to the client.
HandleIpc(c) ==
    /\ phase[c] = "received"
    /\ \E n \in 0..2 :
          LET objects == [i \in 1..n |-> made + i]
              one  == InsertHandle(table, drawn, Service, made + 1)
              two  == InsertHandle(one.table, one.drawn, Service, made + 2)
              done == CASE n = 0 -> [table |-> table, drawn |-> drawn] [] n = 1 -> one [] n = 2 -> two
              moved == HandleParam(TRUE, FALSE, [i \in 1..n |-> drawn[Service] + i])
          IN  /\ made + n <= MaxObjects
              /\ table' = done.table /\ drawn' = done.drawn
              /\ ipcData' = [ipcData EXCEPT ![Service] =
                     Over(@, ResponseWords(HeaderCode(@[1]).command, IF n = 1 THEN <<7, 0>> ELSE <<>>,
                                           IF n = 0 THEN <<>> ELSE <<moved>>))]
              /\ expected' = [expected EXCEPT ![c] = objects]
              /\ made' = made + n
    /\ Goto(c, "handled")
    /\ UNCHANGED <<calls, serving>>

\* ServerSessionHLE::reply
Reply(c) ==
    /\ phase[c] = "handled"
    /\ TranslateIpc(Service, c, TRUE)
    /\ serving' = NoClient
    /\ Goto(c, "answered")
    /\ UNCHANGED <<made, calls, expected>>

Next == \E c \in Client :
    \/ CreateObject(c) \/ CloseHandle(c) \/ SendSyncRequest(c) \/ Continue(c)
    \/ Receive(c) \/ HandleIpc(c) \/ Reply(c)

Spec == Init /\ [][Next]_vars

-----------------------------------------------------------------------------
(* Properties *)

\* The handles of a message, as the process that has it in its buffer reads them.
Handles(p, reply) ==
    LET params == Read(ipcData[p], reply).params
    IN  FlattenSeq([i \in 1..Len(params) |-> params[i].handles])

\* What arrives is what was sent.  The receiver reads as many handles as the sender
\* wrote, and each names, in the receiver's table, the object that the sender meant:
\* of a request, unless another thread has closed it or the same message has moved it
\* before; of a response, always.
HandlesArrive ==
    \A c \in Client :
        LET names(p, reply) == LET hs == Handles(p, reply)
                               IN  [i \in 1..Len(hs) |-> Named(table, p, hs[i])]
        IN  /\ phase[c] = "received" => names(Service, FALSE) = expected[c]
            /\ phase[c] = "answered" => names(c, TRUE) = expected[c]

\* How many handles name an object, in all processes.
References(t, o) == Cardinality(UNION {{<<p, h>> : h \in {k \in DOMAIN t[p] : t[p][k] = o}} :
                                      p \in Process})

\* A message goes from p to q.
Transfers(p, q) ==
    \/ p \in Client /\ q = Service /\ phase[p] = "asking" /\ phase'[p] = "received"
    \/ p = Service /\ q \in Client /\ phase[q] = "handled" /\ phase'[q] = "answered"

\* A message that moves a handle neither loses the object nor keeps a second
\* reference, and one that copies a handle adds exactly one reference per copy.
ReferencesKept ==
    [][\A p, q \in Process : Transfers(p, q) =>
          LET params == Read(ipcData[p], p = Service).params
              copies(o) == {x \in (1..Len(params)) \X (1..BufferWords) :
                               /\ ~params[x[1]].moved
                               /\ x[2] <= Len(params[x[1]].handles)
                               /\ Named(table, p, params[x[1]].handles[x[2]]) = o}
          IN  \A o \in Object :
                  References(table', o) = References(table, o) + Cardinality(copies(o))]_vars

=============================================================================
